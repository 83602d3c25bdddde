----------------------------- MODULE MCProcLife -----------------------------
(* Instances of ProcLife.                                                  *)
EXTENDS ProcLife
=============================================================================
