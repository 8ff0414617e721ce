------------------------------ MODULE MCConsole ------------------------------
(* Console on small instances.                                              *)
EXTENDS Console
=============================================================================
