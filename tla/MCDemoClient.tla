---------------------------- MODULE MCDemoClient ----------------------------
(***************************************************************************)
(* Small instance of DemoClient: a visitor, two scans of which at least    *)
(* one is a comparison, two polls of each; the page may be opened at the   *)
(* permalink of one of them.                                               *)
(***************************************************************************)
EXTENDS DemoClient

CONSTANTS s1, s2
=============================================================================
