---------------------------- MODULE MCRegistryPool ----------------------------
(***************************************************************************)
(* Small instance of RegistryPool.                                         *)
(***************************************************************************)
EXTENDS RegistryPool

\* declared twice, scoped, and two more
MCToCheck == <<"lodash", "@acme/kit", "left-pad", "lodash", "ws">>
===============================================================================
