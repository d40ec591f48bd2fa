--------------------------- MODULE MCCodexProcess ---------------------------
(***************************************************************************)
(* CodexProcess for TLC: the system is finite as it stands, the runs only  *)
(* choose what the process may do.                                         *)
(***************************************************************************)
EXTENDS CodexProcess
=============================================================================
