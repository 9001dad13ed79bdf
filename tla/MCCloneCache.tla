----------------------------- MODULE MCCloneCache -----------------------------
(***************************************************************************)
(* Small instance of CloneCache: two repositories, of which two jobs want  *)
(* the first and one the second.                                           *)
(***************************************************************************)
EXTENDS CloneCache

CONSTANTS j1, j2, j3, r1, r2, l1

MCRepoOf == [j \in {j1, j2, j3} |-> IF j = j3 THEN r2 ELSE r1]
OneLabel == [r \in {r1, r2} |-> l1]
=============================================================================
