----------------------------- MODULE ArchCheck ------------------------------
(***************************************************************************)
(* What `secure-arch check` concludes from a directory of settings: the    *)
(* documents are validated (schema.ts) and merged (loadSettings.ts,        *)
(* facts.ts), the facts of each environment are checked                    *)
(* (checks/settingsChecks.ts), evidence from the code is added             *)
(* (evidence/), and the worst of it decides how the command ends           *)
(* (runCheck.ts, secure-arch-cli/src/cli.ts).                              *)
(*                                                                         *)
(* A section is a function from the keys it gives to what it says of them: *)
(* TRUE, FALSE, or Junk, a value of the wrong type.  A key that can have   *)
(* more values is a question about it that a check asks (internet: is the  *)
(* exposure "internet"?).  A document has sections under `environments`,   *)
(* or keys at its top.                                                     *)
(***************************************************************************)
EXTENDS Integers

CONSTANTS
    Envs,                 \* names of environments, in file names and documents
    Production, Default,  \* "production" and "default", spelled so
    Global,               \* the file settings.global.yaml; others have the name of an environment
    Absent, Torn,         \* in place of a document: no file, or an empty one
    Junk

SettingsFiles == {Global} \cup Envs

ASSUME EnvsAssumption == {Production, Default} \subseteq Envs /\ Production # Default

NoSection == [k \in {} |-> TRUE]

-----------------------------------------------------------------------------
(* The facts of an environment *)

\* what is taken to hold of a key that is not given, or is Junk
Defaults == [
    internet |-> FALSE, publiclyReachable |-> FALSE,
    enabled |-> TRUE, noneMechanism |-> FALSE,
    authzNone |-> FALSE, enforcedEverywhere |-> TRUE,
    repoStorage |-> FALSE, embeddedInRepo |-> FALSE,
    allowCredentials |-> FALSE, wildcardOrigin |-> FALSE,
    ingressPublic |-> TRUE, defaultDenyBetweenServices |-> FALSE,
    publicBuckets |-> FALSE, debugEnabledInProduction |-> FALSE,
    separateAccounts |-> FALSE, sharedDatabase |-> FALSE,
    frontendReachesDatabase |-> FALSE, publicReachesAdmin |-> FALSE,
    allowlistEnforced |-> FALSE, overlyPermissiveIam |-> FALSE]

asBool(v, d) == IF v \in BOOLEAN THEN v ELSE d

envSectionToFacts(section) ==
    [k \in DOMAIN Defaults |-> IF k \in DOMAIN section THEN asBool(section[k], Defaults[k])
                                                       ELSE Defaults[k]]

\* the other one goes first
MutMergeEnv(g, local) ==
    [k \in DOMAIN g \cup DOMAIN local |-> IF k \in DOMAIN g THEN g[k] ELSE local[k]]
mergeEnv(g, local) ==
    [k \in DOMAIN g \cup DOMAIN local |-> IF k \in DOMAIN local THEN local[k] ELSE g[k]]

-----------------------------------------------------------------------------
(* The documents *)

\* keys whose type validateEnvironmentSection looks at
Validated == {"internet", "publiclyReachable", "enabled", "noneMechanism", "authzNone",
              "enforcedEverywhere", "repoStorage", "embeddedInRepo", "allowCredentials",
              "wildcardOrigin"}

SectionErrors(section) == {k \in DOMAIN section \cap Validated : section[k] = Junk}

\* Keys at the top are not looked at where there are environments.
Sections(doc) == IF DOMAIN doc.envs # {} THEN {doc.envs[e] : e \in DOMAIN doc.envs} ELSE {doc.flat}
IsInvalid(doc) ==
    \/ doc = Torn
    \/ doc # Absent /\ \E section \in Sections(doc) : SectionErrors(section) # {}

IsDoc(doc) == doc \notin {Absent, Torn}
IsSettings(doc) == IsDoc(doc) /\ DOMAIN doc.envs \subseteq Envs
GlobalEnvs(settings) == IF IsDoc(settings[Global]) THEN settings[Global].envs ELSE NoSection

\* Environments that are checked: those with a file of their own; if there
\* is none, those of the global file; if there is none either, the default.
PerEnv(settings) ==
    LET own == {e \in Envs : IsDoc(settings[e])}
    IN CASE own # {} -> own
         [] own = {} /\ DOMAIN GlobalEnvs(settings) # {} -> DOMAIN GlobalEnvs(settings)
         [] OTHER -> {Default}

LocalSection(settings, e) ==
    CASE IsDoc(settings[e]) /\ e \in DOMAIN settings[e].envs -> settings[e].envs[e]
      [] IsDoc(settings[e]) /\ e \notin DOMAIN settings[e].envs -> settings[e].flat
      [] ~IsDoc(settings[e]) /\ e \in DOMAIN GlobalEnvs(settings) -> GlobalEnvs(settings)[e]
      [] OTHER -> NoSection

GlobalForEnv(settings, e) ==
    LET envs == GlobalEnvs(settings)
    IN CASE e \in DOMAIN envs -> envs[e]
         [] e \notin DOMAIN envs /\ Default \in DOMAIN envs -> envs[Default]
         [] OTHER -> NoSection

buildFacts(settings, e) ==
    envSectionToFacts(mergeEnv(GlobalForEnv(settings, e), LocalSection(settings, e)))

-----------------------------------------------------------------------------
(* checksForEnv: the rules that hold of the facts, with their severity *)

AccessRules(f) ==
    {r \in {<<"ARCH-001", "critical">>, <<"ARCH-002", "critical">>, <<"ARCH-003", "error">>,
            <<"ARCH-004", "error">>, <<"ARCH-005", "critical">>, <<"ARCH-006", "warning">>} :
        CASE r[1] = "ARCH-001" -> f.internet \/ f.publiclyReachable
          [] r[1] = "ARCH-002" -> f.embeddedInRepo \/ f.repoStorage
          [] r[1] = "ARCH-003" -> ~f.enabled \/ f.noneMechanism
          [] r[1] = "ARCH-004" -> f.authzNone \/ ~f.enforcedEverywhere
          [] r[1] = "ARCH-005" -> f.wildcardOrigin /\ f.allowCredentials
          [] r[1] = "ARCH-006" -> f.wildcardOrigin /\ f.ingressPublic}

BoundaryRules(e, f) ==
    LET At(production, other) == IF e = Production THEN production ELSE other
    IN {r \in {<<"ARCH-007", "error">>, <<"ARCH-008", "critical">>, <<"ARCH-009", "error">>,
               <<"ARCH-010", "warning">>, <<"ARCH-011", "info">>,
               <<"ARCH-012", At("error", "warning")>>, <<"ARCH-013", "error">>,
               <<"ARCH-014", At("warning", "info")>>} :
        CASE r[1] = "ARCH-007" -> f.publicBuckets
          [] r[1] = "ARCH-008" -> f.frontendReachesDatabase
          [] r[1] = "ARCH-009" -> f.publicReachesAdmin
          [] r[1] = "ARCH-010" -> f.sharedDatabase
          [] r[1] = "ARCH-011" -> ~f.separateAccounts /\ e = Production
          [] r[1] = "ARCH-012" -> ~f.allowlistEnforced \/ f.overlyPermissiveIam
          [] r[1] = "ARCH-013" -> f.debugEnabledInProduction /\ e = Production
          [] r[1] = "ARCH-014" -> f.ingressPublic /\ ~f.defaultDenyBetweenServices}

runSettingsChecks(settings) ==
    UNION {AccessRules(buildFacts(settings, e)) \cup BoundaryRules(e, buildFacts(settings, e)) :
             e \in PerEnv(settings)}

-----------------------------------------------------------------------------
(* Evidence: code is what the scanner reports of the JavaScript and        *)
(* TypeScript files, and the patterns found in the Python and Java files.  *)

CorrelationRules ==
    {[of |-> "MW-004", as |-> <<"ARCH-E001", "error">>],
     [of |-> "AUTH-003", as |-> <<"ARCH-E002", "warning">>],
     [of |-> "crypto.secrets.hardcoded", as |-> <<"ARCH-E003", "critical">>],
     [of |-> "SEC-004", as |-> <<"ARCH-E004", "error">>]}
runJsTsEvidence(code) == {c.as : c \in {d \in CorrelationRules : d.of \in code.scanned}}

Patterns ==
    {<<"ARCH-H001", "warning">>, <<"ARCH-H002", "warning">>, <<"ARCH-H003", "info">>,
     <<"ARCH-H004", "error">>, <<"ARCH-H010", "warning">>, <<"ARCH-H011", "info">>,
     <<"ARCH-H012", "error">>}
runHeuristicEvidence(code) == {p \in Patterns : p[1] \in code.patterns}

Modes == {"off", "js-ts", "all"}
Evidence(code, mode) ==
    (IF mode \in {"js-ts", "all"} THEN runJsTsEvidence(code) ELSE {})
        \cup (IF mode = "all" THEN runHeuristicEvidence(code) ELSE {})

-----------------------------------------------------------------------------
shouldFail(findings) == \E f \in findings : f[2] \in {"critical", "error"}

\* the exit code; dir says that the directory is there
Check(dir, settings, code, mode) ==
    CASE ~dir \/ \E file \in SettingsFiles : IsInvalid(settings[file]) -> 2
      [] OTHER -> IF shouldFail(runSettingsChecks(settings) \cup Evidence(code, mode)) THEN 1 ELSE 0
=============================================================================
