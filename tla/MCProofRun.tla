----------------------------- MODULE MCProofRun -----------------------------
(***************************************************************************)
(* Small instance of ProofRun: three findings of one rule, one of which is *)
(* suppressed, and one of a rule without proofs.                           *)
(***************************************************************************)
EXTENDS ProofRun

CONSTANTS a, b, c, sql, misc

MCRuleOf == [f \in {a, b, c} |-> IF f = a THEN misc ELSE sql]
\* the first finding is fixed, and then a new one is made
MCProjects == {<<c, b, c>>, <<b, a>>}
=============================================================================
