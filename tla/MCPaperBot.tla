----------------------------- MODULE MCPaperBot -----------------------------
(* Instances of PaperBot for TLC. *)
EXTENDS PaperBot
=============================================================================
