----------------------------- MODULE KillSwitch -----------------------------
(***************************************************************************)
(* What the circuit breaker promises to the entries of the live worker:    *)
(* an order that opens a position spends a permit, a permit is issued only *)
(* while the breaker is armed, and there is one permit at a time.  A trip  *)
(* does not call a permit back, so one entry may still follow it.          *)
(***************************************************************************)
EXTENDS Naturals

VARIABLES
  tripped,  \* the breaker halts new entries
  permit,   \* an entry was cleared and has not been sent yet
  late      \* entries sent since the breaker tripped

vars == <<tripped, permit, late>>

Init == tripped = FALSE /\ permit = FALSE /\ late = 0

Trip == tripped' = TRUE /\ UNCHANGED <<permit, late>>
Rearm == tripped' = FALSE /\ late' = 0 /\ UNCHANGED permit
Issue == ~tripped /\ permit' = TRUE /\ UNCHANGED <<tripped, late>>
Withdraw == permit' = FALSE /\ UNCHANGED <<tripped, late>>
Enter ==
  /\ permit
  /\ permit' = FALSE
  /\ late' = IF tripped THEN late + 1 ELSE late
  /\ UNCHANGED tripped

Next == Trip \/ Rearm \/ Issue \/ Withdraw \/ Enter
Spec == Init /\ [][Next]_vars
=============================================================================
