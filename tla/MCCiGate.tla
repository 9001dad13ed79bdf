------------------------------- MODULE MCCiGate -------------------------------
(***************************************************************************)
(* Small instance of CiGate: an issue of code, two missing packages.       *)
(***************************************************************************)
EXTENDS CiGate, TLC

CONSTANTS i1, d1, d2, sql, slop, src, a, ba, dev, ci

MCRuleOf == [i \in Issues |-> IF i = i1 THEN sql ELSE slop]
MCSeverityOf == [i \in Issues |-> CASE i = i1 -> "critical" [] i = d1 -> "info" [] i = d2 -> "error"]
MCNameEnds == {<<ba, a>>}
MCNames == {src, a, ba, PackageJson}
MCFiles == {<<src, a>>, <<src, ba>>, <<a>>, <<PackageJson>>}
MCInputs == {<< << >> >>, << <<src>> >>, << <<src>>, << >> >>}
suppress(r, f, l) == [ruleId |-> r, file |-> f, line |-> l]
MCConfigs == {
    [threshold |-> "info", registry |-> TRUE, suppressions |-> {}],
    [threshold |-> "error", registry |-> FALSE,
     suppressions |-> {suppress(sql, <<ba>>, None), suppress(None, None, 1)}]}
Symmetry == Permutations({dev, ci})
=============================================================================
