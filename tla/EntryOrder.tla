----------------------------- MODULE EntryOrder -----------------------------
(***************************************************************************)
(* How the live engine works one spot entry (services/trading_engine.py    *)
(* _submit_entry_order, _adaptive_limit_entry, _execute_entry and          *)
(* execution_quality/splitter.py): the quantity may be split into children *)
(* and each child is a market order, a maker limit that is left to rest,   *)
(* or (adaptive) a limit that is polled, cancelled at its deadline and     *)
(* replaced by another order for what it did not fill.  Every call is an   *)
(* await, and the exchange goes on filling the resting orders in between.  *)
(* The client (exchange/gateio.py request) sends an order it got no answer *)
(* for again; an order carries no client id, so the exchange buys it again.*)
(* Prices are 1, so quantities and quote amounts are the same units.       *)
(***************************************************************************)
EXTENDS Integers, Sequences, FiniteSets

CONSTANTS
  Plans,      \* what plan_split may decide: sequences of child quantities
  Modes,      \* what _entry_order_mode may decide
  Smallest,        \* smallest quantity the exchange accepts
  Fills,      \* whether a market order may fill "all", "some" or "none" of it
  MaxPolls,   \* polls before entry_limit_timeout_seconds, at most
  Faults,     \* the calls that may fail
  MaxFaults   \* how many of them fail in one behaviour

ASSUME PlansAssumption == Plans \subseteq Seq(Nat \ {0}) /\ <<>> \notin Plans
ASSUME ModesAssumption == Modes \subseteq {"market", "limit", "adaptive"}
ASSUME NumbersAssumption == Smallest \in Nat /\ MaxPolls \in Nat /\ MaxFaults \in Nat
ASSUME FillsAssumption == Fills \subseteq {"all", "some", "none"}
ASSUME FaultsAssumption ==
  Faults \subseteq {"reject", "resend", "lost", "noid", "poll", "cancel", "cancelled", "status"}

VARIABLES
  plan,     \* the children's quantities
  mode,     \* the mode the entry is worked in
  e,        \* the coroutine: where it is, its child, order, polls and re-sends
  answers,  \* what each child returned: an order as it was then, or Failed
  book,     \* the exchange's orders, by id
  row,      \* the quantity of the position row, 0 if none was recorded
  seen      \* the faults that happened, in order, each with its child

vars == <<plan, mode, e, answers, book, row, seen>>

\* How often the client sends one request, at most.
Attempts == 3

NoOrder == 0
Failed == [kind |-> "none", qty |-> 0, filled |-> 0, live |-> FALSE]
PC == {"place", "poll", "cancel", "status", "submit", "finish", "done"}

Total(q) ==
  LET sum[n \in 0..Len(q)] == IF n = 0 THEN 0 ELSE sum[n - 1] + q[n]
  IN  sum[Len(q)]
Wanted == Total(plan)
Split == Len(plan) > 1
Bought == Total([k \in DOMAIN book |-> book[k].filled])
Resting == {k \in DOMAIN book : book[k].live}
Unfilled(k) == book[k].qty - book[k].filled
Worth(order) == IF order.live THEN order.qty ELSE order.filled
Committed == Total([k \in DOMAIN book |-> Worth(book[k])])

At(pc) == e.pc = pc
Order(kind, q, f) == [kind |-> kind, qty |-> q, filled |-> f, live |-> kind = "limit"]
Fault(f) ==
  /\ f \in Faults /\ Len(seen) < MaxFaults
  /\ seen' = Append(seen, [fault |-> f, child |-> e.child])
Happened(f) == \E k \in DOMAIN seen : seen[k].fault = f

-----------------------------------------------------------------------------
(* One child after the other *)

Child == plan[e.child]

\* A child returns an order as the exchange reported it; the next child follows.
Return(order) ==
  /\ answers' = Append(answers, order)
  /\ e' = IF e.child < Len(plan)
          THEN [pc |-> "place", child |-> e.child + 1, order |-> NoOrder, qty |-> 0,
                polls |-> 0, sends |-> 0]
          ELSE [e EXCEPT !.pc = "finish"]

\* An exception: execute_split notes the child as failed and goes on; without a split it
\* ends the entry, and nothing is recorded.
Raise ==
  IF Split THEN Return(Failed)
           ELSE e' = [e EXCEPT !.pc = "done"] /\ UNCHANGED answers

\* What a market order may fill at once.
Filled(q) ==
  (IF "all" \in Fills THEN {q} ELSE {}) \cup
  (IF "some" \in Fills THEN 1..q - 1 ELSE {}) \cup
  (IF "none" \in Fills THEN {0} ELSE {})

Submit(q) == [e EXCEPT !.pc = "submit", !.qty = q, !.sends = 0]

\* What submit_one sends.
Sent == IF mode = "market" THEN {Order("market", e.qty, f) : f \in Filled(e.qty)}
                           ELSE {Order("limit", e.qty, 0)}

-----------------------------------------------------------------------------
(* The client *)

\* An order that was executed but not answered (a read timeout, a dropped connection, a
\* 5xx) is sent again in the same call, which nothing but the last answer reaches.
Resent ==
  /\ e.sends < Attempts - 1
  /\ Fault("resend")
  /\ \/ /\ At("place") /\ mode = "adaptive" /\ Child >= Smallest
        /\ book' = Append(book, Order("limit", Child, 0))
     \/ /\ At("submit") /\ e.qty >= Smallest
        /\ \E order \in Sent : book' = Append(book, order)
  /\ e' = [e EXCEPT !.sends = @ + 1]
  /\ UNCHANGED <<plan, mode, answers, row>>

-----------------------------------------------------------------------------
(* _adaptive_limit_entry *)

\* Market and limit children go straight to submit_one.
Direct ==
  /\ At("place")
  /\ mode # "adaptive"
  /\ e' = Submit(Child)
  /\ UNCHANGED <<plan, mode, answers, book, row, seen>>

PlaceLimit ==
  /\ At("place")
  /\ mode = "adaptive"
  /\ Child >= Smallest
  /\ book' = Append(book, Order("limit", Child, 0))
  /\ e' = [e EXCEPT !.pc = "poll", !.order = Len(book) + 1, !.sends = 0]
  /\ UNCHANGED <<plan, mode, answers, row, seen>>

\* Below the minimum, or an answer without an id: the child is submitted as a whole.
LimitFallsBack ==
  /\ At("place")
  /\ mode = "adaptive"
  /\ \/ Child < Smallest /\ UNCHANGED seen
     \/ Fault("noid")
  /\ e' = Submit(Child)
  /\ UNCHANGED <<plan, mode, answers, book, row>>

\* Refused, or executed and the answer lost for good: the last attempt, or an error the
\* client does not retry.
LimitRaises ==
  /\ At("place")
  /\ mode = "adaptive"
  /\ Child >= Smallest
  /\ \/ Fault("reject") /\ UNCHANGED book
     \/ Fault("lost") /\ book' = Append(book, Order("limit", Child, 0))
  /\ Raise
  /\ UNCHANGED <<plan, mode, row>>

Current == book[e.order]

\* A poll before the deadline: the filled order is the answer.
PollFilled ==
  /\ At("poll")
  /\ Unfilled(e.order) = 0
  /\ Return(Current)
  /\ UNCHANGED <<plan, mode, book, row, seen>>

PollAgain ==
  /\ At("poll")
  /\ e.polls < MaxPolls
  /\ Unfilled(e.order) > 0
  /\ e' = [e EXCEPT !.polls = @ + 1]
  /\ UNCHANGED <<plan, mode, answers, book, row, seen>>

\* The deadline, or a status call that fails before it.
PollEnds ==
  /\ At("poll")
  /\ \/ UNCHANGED seen
     \/ Fault("poll")
  /\ e' = [e EXCEPT !.pc = "cancel"]
  /\ UNCHANGED <<plan, mode, answers, book, row>>

\* Mutant: the remainder is ordered while the limit still rests.
CancelForgets ==
  /\ At("cancel")
  /\ e' = [e EXCEPT !.pc = "status"]
  /\ UNCHANGED <<plan, mode, answers, book, row, seen>>

\* The order no longer rests; a 404 says so too.
Cancel ==
  /\ At("cancel")
  /\ book' = [book EXCEPT ![e.order].live = FALSE]
  /\ e' = [e EXCEPT !.pc = "status"]
  /\ UNCHANGED <<plan, mode, answers, row, seen>>

\* A failed cancel, before or after it took effect, counts as an empty status.
CancelRaises ==
  /\ At("cancel")
  /\ \/ Fault("cancel") /\ UNCHANGED book
     \/ Fault("cancelled") /\ book' = [book EXCEPT ![e.order].live = FALSE]
  /\ e' = Submit(Child)
  /\ UNCHANGED <<plan, mode, answers, row>>

Remainder(filled) == Child - filled

\* The limit filled after all, or the rest is submitted.
Status ==
  /\ At("status")
  /\ IF Remainder(Current.filled) <= 0
     THEN Return(Current)
     ELSE e' = Submit(Remainder(Current.filled)) /\ UNCHANGED answers
  /\ UNCHANGED <<plan, mode, book, row, seen>>

\* An empty status: nothing counts as filled.
StatusRaises ==
  /\ At("status")
  /\ Fault("status")
  /\ e' = Submit(Child)
  /\ UNCHANGED <<plan, mode, answers, book, row>>

-----------------------------------------------------------------------------
(* submit_one *)

\* Mutant: a child below the minimum is tried for ever.
SubmitSmallRetries ==
  /\ At("submit")
  /\ e.qty < Smallest
  /\ e' = [e EXCEPT !.pc = "place"]
  /\ UNCHANGED <<plan, mode, answers, book, row, seen>>

\* OrderBelowMinimum.
SubmitSmall ==
  /\ At("submit")
  /\ e.qty < Smallest
  /\ Raise
  /\ UNCHANGED <<plan, mode, book, row, seen>>

\* A market order fills what it can at once; in the other modes the order is a limit.
SubmitOne ==
  /\ At("submit")
  /\ e.qty >= Smallest
  /\ \E order \in Sent : book' = Append(book, order) /\ Return(order)
  /\ UNCHANGED <<plan, mode, row, seen>>

\* Refused, or executed and the answer lost for good.
SubmitRaises ==
  /\ At("submit")
  /\ e.qty >= Smallest
  /\ \/ Fault("reject") /\ UNCHANGED book
     \/ Fault("lost") /\ \E order \in Sent : book' = Append(book, order)
  /\ Raise
  /\ UNCHANGED <<plan, mode, row>>

-----------------------------------------------------------------------------
(* _aggregate_split_responses and the record of _execute_entry *)

\* Mutant: the first child stands for all of them.
ReportedFirst == answers[1].filled

\* The quantity the answers report: of a split, the children that show a fill price.
Reported == Total([k \in DOMAIN answers |-> answers[k].filled])

\* A split none of whose children shows a fill has no id, and nothing is recorded.
AllFailed ==
  /\ At("finish")
  /\ Split /\ Reported = 0
  /\ e' = [e EXCEPT !.pc = "done"]
  /\ UNCHANGED <<plan, mode, answers, book, row, seen>>

\* Mutant: the quantity asked for is recorded.
RecordRequested ==
  /\ At("finish")
  /\ Split => Reported > 0
  /\ row' = Wanted
  /\ e' = [e EXCEPT !.pc = "done"]
  /\ UNCHANGED <<plan, mode, answers, book, seen>>

\* _filled_base_qty: what was reported, else the quantity that was asked for.
Record ==
  /\ At("finish")
  /\ Split => Reported > 0
  /\ row' = IF Reported > 0 THEN Reported ELSE Wanted
  /\ e' = [e EXCEPT !.pc = "done"]
  /\ UNCHANGED <<plan, mode, answers, book, seen>>

-----------------------------------------------------------------------------
(* The specification *)

\* The exchange fills a unit of a resting order.
Fill(k) ==
  /\ k \in Resting
  /\ book' = [book EXCEPT ![k].filled = @ + 1, ![k].live = Unfilled(k) > 1]
  /\ UNCHANGED <<plan, mode, e, answers, row, seen>>

Finished == At("done") /\ Resting = {} /\ UNCHANGED vars

Init ==
  /\ plan \in Plans
  /\ mode \in Modes
  /\ e = [pc |-> "place", child |-> 1, order |-> NoOrder, qty |-> 0, polls |-> 0, sends |-> 0]
  /\ answers = <<>>
  /\ book = <<>>
  /\ row = 0
  /\ seen = <<>>

Step ==
  \/ Resent
  \/ Direct \/ PlaceLimit \/ LimitFallsBack \/ LimitRaises
  \/ PollFilled \/ PollAgain \/ PollEnds
  \/ Cancel \/ CancelRaises \/ Status \/ StatusRaises
  \/ SubmitSmall \/ SubmitOne \/ SubmitRaises
  \/ AllFailed \/ Record
Next == Step \/ (\E k \in 1..Len(book) : Fill(k)) \/ Finished

Spec == Init /\ [][Next]_vars

\* The coroutine runs on: every call returns or times out.  Nothing makes an order fill.
FairSpec == Spec /\ WF_vars(Step)

-----------------------------------------------------------------------------
(* Properties *)

OrderType == [kind: {"market", "limit", "none"}, qty: Nat, filled: Nat, live: BOOLEAN]

\* The variables keep their types; for a child at most two calls place orders, each as
\* often as the client sends it, and an order never fills beyond its quantity.
TypeOK ==
  /\ plan \in Plans
  /\ mode \in Modes
  /\ e \in [pc: PC, child: 1..Len(plan), order: 0..2 * Attempts * Len(plan),
            qty: 0..Wanted, polls: 0..MaxPolls, sends: 0..Attempts - 1]
  /\ answers \in Seq(OrderType) /\ Len(answers) <= Len(plan)
  /\ book \in Seq(OrderType) /\ Len(book) <= 2 * Attempts * Len(plan)
  /\ \A k \in DOMAIN book : book[k].filled <= book[k].qty
  /\ row \in 0..Wanted
  /\ seen \in Seq([fault: Faults, child: 1..Len(plan)]) /\ Len(seen) <= MaxFaults

\* What a child's faults may make it buy once more: a re-sent order, and the whole child
\* ordered again because the cancel or the status of its limit failed.
Costly == {"resend", "cancel", "cancelled", "status"}
Cost(s) == IF s.fault \in Costly THEN plan[s.child] ELSE 0
Excess == Total([k \in DOMAIN seen |-> Cost(seen[k])])

\* What is bought and what still rests exceed the quantity the risk sizing approved by no
\* more than these faults account for, one child's quantity each, at any moment of the
\* entry: fills between the last poll, the cancel and the status, refused children, empty
\* answers and answers lost for good are never paid for with another order.
BudgetKept == Committed <= Wanted + Excess

\* The row never claims more than the account bought or has resting on the exchange
\* when it is recorded: stops and closes sell what exists.
RowBacked == row > 0 => row <= Committed

\* split: "the position is persisted at the aggregate filled quantity after all
\* children".  When market children are done, refused ones among them, the row is what
\* they bought, and no row means nothing was bought.
Unanswered == Happened("lost") \/ Happened("resend")
RowIsBought == At("done") /\ mode = "market" /\ ~Unanswered => row = Bought

\* An entry ends whatever fails and whether or not its orders fill.
EntryEnds == <>At("done")

\* _adaptive_limit_entry: "resubmitting the full quantity as market would double the
\* position and blow past the risk budget".  The bound with failing calls, too; a call
\* the client sends again breaks it in every mode.
WithinBudget == Committed <= Wanted

\* _execute_entry, of a response without an id: "the exchange has NO open position".
\* An entry that records no row has bought nothing and leaves nothing resting.
NoRowNoOrder == At("done") /\ row = 0 => Committed = 0
=============================================================================
