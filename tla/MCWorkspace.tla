---------------------------- MODULE MCWorkspace -----------------------------
(***************************************************************************)
(* Small instance of Workspace: a global file, production, and a second    *)
(* spelling of it; two source files, both of which the patch changes.      *)
(***************************************************************************)
EXTENDS Workspace

CONSTANTS Other, js, py, old, new

doc(envs) == [envs |-> envs, flat |-> NoSection]
flat(section) == [envs |-> NoSection, flat |-> section]
in(e, section) == [x \in {e} |-> section]

safeSection == [internet |-> FALSE, allowlistEnforced |-> TRUE, frontendReachesDatabase |-> FALSE]

MCTemplate == [f \in {Global, Production} |->
    IF f = Global THEN doc(in(Default, [enabled |-> TRUE, allowlistEnforced |-> FALSE]))
    ELSE doc(in(Production, [enabled |-> TRUE, allowlistEnforced |-> TRUE]))]

MCUserDocs == [f \in SettingsFiles |->
    CASE f = Global -> {doc(in(Default, [frontendReachesDatabase |-> TRUE])),
                        doc(in(Production, [internet |-> TRUE]))}
      [] f = Production -> {doc(in(Production, safeSection)), doc(in(Production, [internet |-> Junk])),
                            flat([allowlistEnforced |-> TRUE, publicBuckets |-> TRUE]),
                            [doc(in(Other, safeSection)) EXCEPT !.flat = [allowlistEnforced |-> TRUE, internet |-> Junk]]}
      [] f = Other -> {doc(in(Other, [allowlistEnforced |-> FALSE, wildcardOrigin |-> TRUE]))}
      [] OTHER -> {}]

MCPatch == [f \in {js, py} |-> [from |-> old, to |-> new]]
MCReported == [f \in {js, py} |-> IF f = js THEN "SEC-004" ELSE "ARCH-H003"]
=============================================================================
