---------------------------- MODULE MCEntryGate ----------------------------
(* Instances of EntryGate for TLC: every constant gets its value in the cfg. *)
EXTENDS EntryGate
=============================================================================
