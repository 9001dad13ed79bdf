--------------------------- MODULE MCDemoAdmission ---------------------------
(***************************************************************************)
(* Small instance of DemoAdmission: one busy address and one other.  The   *)
(* requests of the busy address are interchangeable.                       *)
(***************************************************************************)
EXTENDS DemoAdmission, TLC

CONSTANTS r1, r2, r3, r4, r5, r6, ip1, ip2

MCRequests == {r1, r2, r3, r4, r5, r6}
MCClientIp == [r \in MCRequests |-> IF r = r6 THEN ip2 ELSE ip1]
Symmetry == Permutations({r1, r2, r3, r4, r5})
=============================================================================
