---------------------------- MODULE MCProcTable ----------------------------
(* An instance of ProcTable for TLC. *)
EXTENDS ProcTable
=============================================================================
