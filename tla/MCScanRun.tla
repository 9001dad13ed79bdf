------------------------------ MODULE MCScanRun ------------------------------
(***************************************************************************)
(* Small instance of ScanRun: two scans of one repository, which has a     *)
(* finding that does not block.                                            *)
(***************************************************************************)
EXTENDS ScanRun

CONSTANTS s1, s2, r1

MCRepoOf == [s \in {s1, s2} |-> r1]
MCFindings == [r \in {r1} |-> 1]
MCBlocking == [r \in {r1} |-> 0]
=============================================================================
