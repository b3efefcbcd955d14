---------------------------- MODULE MCEntryOrder ----------------------------
(* Instances of EntryOrder for TLC: the plans of plan_split, in lot units. *)
EXTENDS EntryOrder

\* One order, or two or three children, the last with the remainder.
AllPlans == {<<3>>, <<4>>, <<1, 2>>, <<3, 3>>, <<2, 2, 3>>}
=============================================================================
