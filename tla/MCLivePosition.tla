--------------------------- MODULE MCLivePosition ---------------------------
(* Instances of LivePosition for TLC. *)
EXTENDS LivePosition

\* config.py: scale_out_fraction 0.33; the parts of 1, 2, 3 and 4 units, in units.
Third == [q \in 0..Lot |-> q \div 3]
\* test_scale_out.py: scale_out_fraction 0.5.
Half == [q \in 0..Lot |-> q \div 2]

\* One process, one position: what the monitor and the reconciliation do to it.
SoloInit == Init /\ OpenRows # {}
SharedSpec == SoloInit /\ [][Next]_vars
SoloSpec == SoloInit /\ [][Next]_vars /\ Fairness
=============================================================================
