---------------------------- MODULE PaperBroker ----------------------------
(***************************************************************************)
(* The simulated account of one symbol (paper_trading/broker.py, the tick  *)
(* pass of paper_trading/engine.py and the order endpoints of              *)
(* api/v1/paper.py).  The tick pass and the entry pass take turns under    *)
(* the engine's lock; a scale-out runs as a task outside of it; an API     *)
(* request works in a session of its own.  Each awaits the simulated       *)
(* latency between the execution and its booking.  Prices are 1: cash is   *)
(* counted from the initial balance, so opening a long of q costs q.       *)
(***************************************************************************)
EXTENDS Integers, Sequences, FiniteSets

CONSTANTS
  Capital, Leverage,  \* the initial balance, and how often it may be committed
  Hedge,              \* PaperPositionMode.hedge
  Lots,               \* the quantities that are ordered
  Entries,            \* the sides the strategy enters: not short on a spot account
  Partial,            \* whether the depth may be short of an order
  ScaleOut,           \* scale_out_enabled
  Templates,          \* the resting orders that may be placed
  Requests,           \* what else the API is asked: "market", "close"
  MaxOrders,          \* resting orders in one behaviour
  MaxRows,            \* a side whose rows have reached this id is entered no more
  MaxRequests         \* market orders and closes of the API in one behaviour

ASSUME AccountAssumption == Capital \in Nat /\ Leverage \in Nat /\ Hedge \in BOOLEAN
ASSUME LotsAssumption == Lots \subseteq Nat \ {0}
ASSUME EntriesAssumption == Entries \subseteq {"buy", "sell"}
ASSUME SwitchAssumption == Partial \in BOOLEAN /\ ScaleOut \in BOOLEAN
ASSUME TemplatesAssumption ==
  Templates \subseteq
    [kind: {"limit", "stop", "stop_limit", "oco"}, side: {"buy", "sell"}, qty: Nat \ {0},
     tif: {"GTC", "IOC", "FOK", "POST"}, reduce: BOOLEAN, priced: BOOLEAN]
ASSUME BoundAssumption == MaxOrders \in Nat /\ MaxRows \in Nat /\ MaxRequests \in Nat

VARIABLES
  market,   \* where the price is: at a lower level, at none, at an upper one
  cash,     \* PaperAccount.cash_balance, committed
  pos,      \* per side the open row: its id and quantity, 0 when none is open
  orders,   \* the resting PaperOrders
  view,     \* per session the cash and the rows it has loaded
  tick,     \* the tick pass
  entry,    \* the entry pass
  scale,    \* the scale-out task
  api,      \* the API request
  shared    \* history: a task or request booked beside the two passes

account == <<cash, pos, view>>
vars == <<market, account, orders, tick, entry, scale, api, shared>>

Sides == {"buy", "sell"}
Sessions == {"worker", "api"}
Opp(sd) == IF sd = "buy" THEN "sell" ELSE "buy"
Least(a, b) == IF a <= b THEN a ELSE b
\* A buy takes q from the cash, a sale adds it, whichever position it opens or closes.
Paid(sd, q) == IF sd = "buy" THEN -q ELSE q

Row(id, q) == [id |-> id, qty |-> q]
NoRows == [sd \in Sides |-> Row(0, 0)]
NoTick == [pc |-> "idle", px |-> "flat", rows |-> {}, scan |-> {}, dead |-> {},
           side |-> "buy", id |-> 0, qty |-> 0, back |-> "exits"]
NoEntry == [pc |-> "idle", side |-> "buy", qty |-> 0]
NoRequest == [pc |-> "idle", kind |-> "market", side |-> "buy", qty |-> 0, reduce |-> FALSE,
              made |-> 0]

Locked == tick.pc # "idle" \/ entry.pc # "idle"

-----------------------------------------------------------------------------
(* Sessions: a row that is loaded is not read again, a query finds open rows *)

Seen(s) ==
  [cash |-> view[s].cash,
   pos |-> [sd \in Sides |->
              IF pos[sd].qty > 0 /\ view[s].pos[sd].id = pos[sd].id THEN view[s].pos[sd]
                                                                   ELSE pos[sd]]]

\* The UPDATE of what the session changed.
Book(s, new) ==
  /\ cash' = IF new.cash = view[s].cash THEN cash ELSE new.cash
  /\ pos' = [sd \in Sides |-> IF new.pos[sd] = Seen(s).pos[sd] THEN pos[sd] ELSE new.pos[sd]]
  /\ view' = [view EXCEPT ![s] = new]

\* A query of the worker loads the rows, but not again those its scale-out task holds.
Loaded == IF scale.pc = "close" THEN Seen("worker").pos ELSE pos

-----------------------------------------------------------------------------
(* apply_execution, _apply_buy, _apply_sell *)

Equity(v) == Capital + v.cash + v.pos["buy"].qty - v.pos["sell"].qty
Used(v) == v.pos["buy"].qty + v.pos["sell"].qty
Fits(v, q) == Equity(v) > 0 /\ Used(v) + q <= Equity(v) * Leverage

\* The opposite row covers what it can.
Covered(v, sd, q) == Least(q, v.pos[Opp(sd)].qty)
Cover(v, sd, q) ==
  [cash |-> v.cash + Paid(sd, Covered(v, sd, q)),
   pos |-> [v.pos EXCEPT ![Opp(sd)].qty = @ - Covered(v, sd, q)]]

\* The row of the order's side grows, or a new one opens.
Open(v, sd, q) ==
  [cash |-> v.cash + Paid(sd, q),
   pos |-> [v.pos EXCEPT ![sd] = Row(IF @.qty > 0 THEN @.id ELSE @.id + 1, @.qty + q)]]

\* Mutant: a signal against the position opens beside it.
FlipKeeps(v, sd, q) == v

\* One-way: what is against the order is closed first.
Flip(v, sd, q) == IF Hedge THEN v ELSE Cover(v, sd, q)
Rest(v, sd, q) == IF Hedge THEN q ELSE q - Covered(v, sd, q)

\* Mutant: the cost is taken before the free margin is checked.
OpenChargesFirst(v, sd, q) ==
  IF Fits(v, q) THEN Open(v, sd, q) ELSE [v EXCEPT !.cash = @ + Paid(sd, q)]

\* An opening that exceeds the free margin is rejected.
OpenWithinMargin(v, sd, q) == IF Fits(v, q) THEN Open(v, sd, q) ELSE v

Applied(v, sd, q, reduce) ==
  IF reduce THEN Cover(v, sd, q)
  ELSE IF Rest(v, sd, q) = 0 THEN Flip(v, sd, q)
  ELSE OpenWithinMargin(Flip(v, sd, q), sd, Rest(v, sd, q))

\* Whether apply_execution leaves the order rejected.
Rejected(v, sd, q, reduce) ==
  IF reduce THEN v.pos[Opp(sd)].qty = 0
  ELSE Rest(v, sd, q) > 0 /\ ~Fits(Flip(v, sd, q), Rest(v, sd, q))

Opens(v, sd, q, reduce) == Applied(v, sd, q, reduce).pos[sd].qty > v.pos[sd].qty

\* What the depth lets a market order fill.
Fillable(q, tif) == IF ~Partial THEN {q} ELSE IF tif = "FOK" THEN {0, q} ELSE 1..q

\* close_position books what it decided on before the latency; the row may have changed.
Closed(v, sd, id, q) ==
  [cash |-> v.cash + Paid(Opp(sd), q),
   pos |-> IF v.pos[sd].id = id
           THEN [v.pos EXCEPT ![sd].qty = IF q >= @ THEN 0 ELSE @ - q]
           ELSE v.pos]

-----------------------------------------------------------------------------
(* Resting orders *)

Order(t, kind, link) ==
  [kind |-> kind, side |-> t.side, qty |-> t.qty, tif |-> t.tif, reduce |-> t.reduce,
   priced |-> t.priced, link |-> link, status |-> "pending", filled |-> 0]

Terminal == {"filled", "cancelled", "rejected"}
Pending(o) == orders[o].status = "pending"

\* A limit fills when the price trades through it, a stop triggers on the other side.
Crossed(o, px) == px = IF orders[o].side = "buy" THEN "down" ELSE "up"
Triggered(o, px) == px = IF orders[o].side = "buy" THEN "up" ELSE "down"

StatusAfter(o, f, rejected) ==
  IF f = 0 \/ rejected THEN "rejected"
  ELSE IF f < orders[o].qty THEN "partially_filled" ELSE "filled"

Executed(o, f, rejected) ==
  [orders EXCEPT ![o].filled = @ + f, ![o].status = StatusAfter(o, f, rejected)]

\* Mutant: the sibling of a pair stays.
SiblingsKept(os, o) == {}

\* What _cancel_linked still has to cancel.
Siblings(os, o) ==
  IF os[o].link > 0 /\ os[os[o].link].status \notin Terminal THEN {os[o].link} ELSE {}

CancelLinked(os, o) ==
  [k \in DOMAIN os |-> IF k \in Siblings(os, o) THEN [os[k] EXCEPT !.status = "cancelled"] ELSE os[k]]

Cancelled(os, o) == CancelLinked([os EXCEPT ![o].status = "cancelled"], o)

-----------------------------------------------------------------------------
(* on_tick: liquidations, resting orders, exits, under the engine's lock *)

\* The account copy may be refreshed first (at most every 5 seconds).
TickStarts ==
  /\ ~Locked
  /\ \E c \in {cash, view["worker"].cash} :
       view' = [view EXCEPT !["worker"] = [cash |-> c, pos |-> Loaded]]
  /\ tick' = [NoTick EXCEPT !.pc = "liquidate", !.px = market,
                            !.rows = {sd \in Sides : pos[sd].qty > 0}]
  /\ UNCHANGED <<market, cash, pos, orders, entry, scale, api, shared>>

\* The exit order is committed as filled; then the latency.
Close(sd, back) ==
  tick' = [tick EXCEPT !.pc = "close", !.back = back, !.rows = @ \ {sd}, !.side = sd,
                       !.id = view["worker"].pos[sd].id, !.qty = view["worker"].pos[sd].qty]

\* _maybe_liquidate: a leveraged row the price went against.
Liquidate(sd) ==
  /\ tick.pc = "liquidate"
  /\ sd \in tick.rows
  /\ Leverage > 1
  /\ tick.px = IF sd = "buy" THEN "down" ELSE "up"
  /\ Close(sd, "liquidate")
  /\ UNCHANGED <<market, account, orders, entry, scale, api, shared>>

\* _process_open_orders: the pending ones, in the order of their ids.
ScanOrders ==
  /\ tick.pc = "liquidate"
  /\ tick' = [tick EXCEPT !.pc = "orders", !.scan = {o \in DOMAIN orders : Pending(o)}]
  /\ UNCHANGED <<market, account, orders, entry, scale, api, shared>>

AtOrder == tick.pc = "orders" /\ tick.scan # {}
Cur == CHOOSE o \in tick.scan : \A k \in tick.scan : o <= k
Passed == [tick EXCEPT !.pc = "orders", !.scan = @ \ {Cur}]
StopLimit(o) == orders[o].kind = "stop_limit" /\ orders[o].priced

\* Not crossed or triggered, without a price, or cancelled by this very pass.
OrderRests ==
  /\ AtOrder
  /\ IF orders[Cur].kind = "limit"
     THEN \/ Cur \in tick.dead \/ ~orders[Cur].priced
          \/ ~Crossed(Cur, tick.px) /\ orders[Cur].tif \in {"GTC", "POST"}
     ELSE ~Triggered(Cur, tick.px)
  /\ tick' = Passed
  /\ UNCHANGED <<market, account, orders, entry, scale, api, shared>>

\* A triggered stop-limit is committed as it is, and rests on.
StopLimitTriggers ==
  /\ AtOrder
  /\ StopLimit(Cur) /\ Triggered(Cur, tick.px)
  /\ tick' = Passed
  /\ UNCHANGED <<market, account, orders, entry, scale, api, shared>>

\* Mutant: every stop is left to the tick loop.
StopTriggersCommits ==
  /\ AtOrder
  /\ orders[Cur].kind # "limit" /\ ~StopLimit(Cur) /\ Triggered(Cur, tick.px)
  /\ tick' = Passed
  /\ UNCHANGED <<market, account, orders, entry, scale, api, shared>>

\* Any other stop is executed at the market, whatever became of it during this pass.
StopTriggers ==
  /\ AtOrder
  /\ orders[Cur].kind # "limit" /\ ~StopLimit(Cur) /\ Triggered(Cur, tick.px)
  /\ \E f \in Fillable(orders[Cur].qty, orders[Cur].tif) :
       tick' = [tick EXCEPT !.pc = "stop", !.qty = f]
  /\ UNCHANGED <<market, account, orders, entry, scale, api, shared>>

LimitLives == AtOrder /\ orders[Cur].kind = "limit" /\ orders[Cur].priced /\ Cur \notin tick.dead

\* IOC and FOK that do not cross, FOK short of depth, post-only that would cross.
LimitCancels ==
  /\ LimitLives
  /\ \/ orders[Cur].tif \in {"IOC", "FOK"} /\ ~Crossed(Cur, tick.px)
     \/ orders[Cur].tif = "FOK" /\ Partial
     \/ orders[Cur].tif = "POST" /\ Crossed(Cur, tick.px)
  /\ orders' = Cancelled(orders, Cur)
  /\ tick' = [Passed EXCEPT !.dead = @ \cup {orders[Cur].link}]
  /\ UNCHANGED <<market, account, entry, scale, api, shared>>

LimitFills ==
  /\ LimitLives
  /\ Crossed(Cur, tick.px)
  /\ \E f \in Fillable(orders[Cur].qty, orders[Cur].tif) :
       f > 0 /\ tick' = [tick EXCEPT !.pc = "fill", !.qty = f]
  /\ UNCHANGED <<market, account, orders, entry, scale, api, shared>>

\* After the latency: a stop is applied without its reduce-only flag, a limit with it.
OrderBooks ==
  /\ tick.pc \in {"stop", "fill"}
  /\ LET v == Seen("worker")
         sd == orders[Cur].side
         reduce == tick.pc = "fill" /\ orders[Cur].reduce
         new == IF tick.qty = 0 THEN v ELSE Applied(v, sd, tick.qty, reduce)
         done == Executed(Cur, tick.qty, Rejected(v, sd, tick.qty, reduce))
         links == tick.pc = "fill" /\ done[Cur].status = "filled"
     IN /\ Book("worker", new)
        /\ orders' = IF links THEN CancelLinked(done, Cur) ELSE done
        /\ tick' = [Passed EXCEPT !.dead = @ \cup IF links THEN Siblings(done, Cur) ELSE {}]
  /\ UNCHANGED <<market, entry, scale, api, shared>>

\* _handle_position_exits queries the rows again.
ScanExits ==
  /\ tick.pc = "orders" /\ tick.scan = {}
  /\ view' = [view EXCEPT !["worker"].pos = Loaded]
  /\ tick' = [tick EXCEPT !.pc = "exits", !.rows = {sd \in Sides : pos[sd].qty > 0}]
  /\ UNCHANGED <<market, cash, pos, orders, entry, scale, api, shared>>

\* A stop, trailing stop or take-profit level is reached.
Exit(sd) ==
  /\ tick.pc = "exits"
  /\ sd \in tick.rows
  /\ Close(sd, "exits")
  /\ UNCHANGED <<market, account, orders, entry, scale, api, shared>>

\* _maybe_scale_out: a task is scheduled and the row marked; once per row.
ScalesOut(sd) ==
  /\ ScaleOut
  /\ tick.pc = "exits"
  /\ sd \in tick.rows
  /\ scale.pc = "idle" /\ scale.done[sd] # view["worker"].pos[sd].id
  /\ \E q \in 1..view["worker"].pos[sd].qty - 1 :
       scale' = [pc |-> "close", side |-> sd, id |-> view["worker"].pos[sd].id, qty |-> q,
                 done |-> [scale.done EXCEPT ![sd] = view["worker"].pos[sd].id]]
  /\ UNCHANGED <<market, account, orders, tick, entry, api, shared>>

\* close_position after its latency.
TickCloses ==
  /\ tick.pc = "close"
  /\ Book("worker", Closed(Seen("worker"), tick.side, tick.id, tick.qty))
  /\ tick' = [tick EXCEPT !.pc = tick.back]
  /\ UNCHANGED <<market, orders, entry, scale, api, shared>>

ScaleCloses ==
  /\ scale.pc = "close"
  /\ Book("worker", Closed(Seen("worker"), scale.side, scale.id, scale.qty))
  /\ scale' = [scale EXCEPT !.pc = "idle"]
  /\ shared' = TRUE
  /\ UNCHANGED <<market, orders, tick, entry, api>>

TickEnds ==
  /\ tick.pc = "exits"
  /\ tick' = NoTick
  /\ UNCHANGED <<market, account, orders, entry, scale, api, shared>>

-----------------------------------------------------------------------------
(* _evaluate_symbol_entry and execute_signal, under the lock *)

\* The account is refreshed, unless that fails.
EntryStarts ==
  /\ ~Locked
  /\ \E c \in {cash, view["worker"].cash} : view' = [view EXCEPT !["worker"].cash = c]
  /\ entry' = [NoEntry EXCEPT !.pc = "scan"]
  /\ UNCHANGED <<market, cash, pos, orders, tick, scale, api, shared>>

EntrySkips ==
  /\ entry.pc = "scan"
  /\ entry' = NoEntry
  /\ UNCHANGED <<market, account, orders, tick, scale, api, shared>>

\* approve_signal finds no open row; the market order is committed, then the latency.
EntryOrders(sd) ==
  /\ entry.pc = "scan"
  /\ \A x \in Sides : pos[x].qty = 0
  /\ pos[sd].id < MaxRows
  /\ \E q \in Lots : \E f \in Fillable(q, "IOC") :
       entry' = [pc |-> "latency", side |-> sd, qty |-> f]
  /\ view' = [view EXCEPT !["worker"].pos = Loaded]
  /\ UNCHANGED <<market, cash, pos, orders, tick, scale, api, shared>>

EntryBooks ==
  /\ entry.pc = "latency"
  /\ Book("worker", Applied(Seen("worker"), entry.side, entry.qty, FALSE))
  /\ entry' = NoEntry
  /\ UNCHANGED <<market, orders, tick, scale, api, shared>>

-----------------------------------------------------------------------------
(* api/v1/paper.py *)

\* submit_order of what rests: of a pair the legs are reduce-only and linked, and the stop
\* leg may come without a limit price.
Pair(t, n) ==
  <<Order([t EXCEPT !.reduce = TRUE, !.priced = TRUE], "limit", n + 2),
    Order([t EXCEPT !.reduce = TRUE], "stop_limit", n + 1)>>
PlacesOrder(t) ==
  /\ LET placed == IF t.kind = "oco" THEN Pair(t, Len(orders)) ELSE <<Order(t, t.kind, 0)>>
     IN /\ Len(orders) + Len(placed) <= MaxOrders
        /\ orders' = orders \o placed
  /\ UNCHANGED <<market, account, tick, entry, scale, api, shared>>

\* cancel_order takes the sibling along.
CancelsOrder(o) ==
  /\ orders[o].status \notin Terminal
  /\ orders' = Cancelled(orders, o)
  /\ UNCHANGED <<market, account, tick, entry, scale, api, shared>>

\* A manual market order or close: the session loads the account, then awaits the price.
RequestStarts(kind, sd) ==
  /\ kind \in Requests
  /\ api.pc = "idle" /\ api.made < MaxRequests
  /\ kind = "close" => pos[sd].qty > 0
  /\ \E q \in Lots, reduce \in BOOLEAN :
       api' = [pc |-> "price", kind |-> kind, side |-> sd, qty |-> q, reduce |-> reduce,
               made |-> api.made + 1]
  /\ view' = [view EXCEPT !["api"] =
                [cash |-> cash, pos |-> IF kind = "close" THEN pos ELSE NoRows]]
  /\ UNCHANGED <<market, cash, pos, orders, tick, entry, scale, shared>>

\* approve_signal, which a reduce-only order skips, loads the rows.
RequestOrders ==
  /\ api.pc = "price" /\ api.kind = "market"
  /\ \E f \in Fillable(api.qty, "GTC") : api' = [api EXCEPT !.pc = "latency", !.qty = f]
  /\ IF api.reduce THEN UNCHANGED view
     ELSE /\ \A x \in Sides : pos[x].qty = 0
          /\ view' = [view EXCEPT !["api"].pos = pos]
  /\ UNCHANGED <<market, cash, pos, orders, tick, entry, scale, shared>>

\* No price, or the gate rejects the signal.
RequestFails ==
  /\ api.pc = "price"
  /\ api' = [api EXCEPT !.pc = "idle"]
  /\ UNCHANGED <<market, account, orders, tick, entry, scale, shared>>

RequestCloses ==
  /\ api.pc = "price" /\ api.kind = "close"
  /\ api' = [api EXCEPT !.pc = "latency", !.qty = view["api"].pos[api.side].qty]
  /\ UNCHANGED <<market, account, orders, tick, entry, scale, shared>>

\* A market order is applied without its reduce-only flag.
RequestBooks ==
  /\ api.pc = "latency"
  /\ LET v == Seen("api")
         new == IF api.kind = "market" THEN Applied(v, api.side, api.qty, FALSE)
                ELSE Closed(v, api.side, view["api"].pos[api.side].id, api.qty)
     IN Book("api", new)
  /\ api' = [api EXCEPT !.pc = "idle"]
  /\ shared' = TRUE
  /\ UNCHANGED <<market, orders, tick, entry, scale>>

-----------------------------------------------------------------------------
(* The specification *)

Moves ==
  /\ \E m \in {"down", "flat", "up"} \ {market} : market' = m
  /\ UNCHANGED <<account, orders, tick, entry, scale, api, shared>>

Init ==
  /\ market = "flat"
  /\ cash = 0
  /\ pos = NoRows
  /\ orders = <<>>
  /\ view = [s \in Sessions |-> [cash |-> 0, pos |-> NoRows]]
  /\ tick = NoTick
  /\ entry = NoEntry
  /\ scale = [pc |-> "idle", side |-> "buy", id |-> 0, qty |-> 0, done |-> [sd \in Sides |-> 0]]
  /\ api = NoRequest
  /\ shared = FALSE

TickGoesOn ==
  \/ ScanOrders \/ OrderRests \/ StopLimitTriggers \/ StopTriggers
  \/ LimitCancels \/ LimitFills \/ OrderBooks \/ ScanExits \/ TickCloses \/ TickEnds
  \/ \E sd \in Sides : Liquidate(sd) \/ Exit(sd)
EntryGoesOn == EntrySkips \/ EntryBooks \/ \E sd \in Entries : EntryOrders(sd)
RequestGoesOn == RequestOrders \/ RequestFails \/ RequestCloses \/ RequestBooks
Next ==
  \/ TickStarts \/ TickGoesOn \/ EntryStarts \/ EntryGoesOn
  \/ \E sd \in Sides : ScalesOut(sd)
  \/ ScaleCloses
  \/ \E t \in Templates : PlacesOrder(t)
  \/ \E o \in DOMAIN orders : CancelsOrder(o)
  \/ \E kind \in {"market", "close"}, sd \in Sides : RequestStarts(kind, sd)
  \/ RequestGoesOn
  \/ Moves

Spec == Init /\ [][Next]_vars

\* The loops run on, and the lock is handed to whoever waits (asyncio.Lock is first in,
\* first out).  Nothing is assumed of the market or of requests.
FairSpec ==
  Spec /\ SF_vars(TickStarts) /\ WF_vars(TickGoesOn) /\ WF_vars(EntryGoesOn)

-----------------------------------------------------------------------------
(* Properties *)

RowType == [id: Nat, qty: Nat]
AccountType == [cash: Int, pos: [Sides -> RowType]]
OrderType ==
  [kind: {"limit", "stop", "stop_limit"}, side: Sides, qty: Nat,
   tif: {"GTC", "IOC", "FOK", "POST"}, reduce: BOOLEAN, priced: BOOLEAN, link: Nat,
   status: Terminal \cup {"pending", "partially_filled"}, filled: Nat]

\* The account, its copies and the coroutines keep their types; quantities are never
\* negative, whatever order closes and fills are booked in.
TypeOK ==
  /\ market \in {"down", "flat", "up"}
  /\ cash \in Int
  /\ pos \in [Sides -> RowType]
  /\ orders \in Seq(OrderType)
  /\ view \in [Sessions -> AccountType]
  /\ tick \in [pc: {"idle", "liquidate", "orders", "stop", "fill", "exits", "close"},
               px: {"down", "flat", "up"}, rows: SUBSET Sides, scan: SUBSET Nat,
               dead: SUBSET Nat, side: Sides, id: Nat, qty: Nat, back: {"liquidate", "exits"}]
  /\ entry \in [pc: {"idle", "scan", "latency"}, side: Sides, qty: Nat]
  /\ scale \in [pc: {"idle", "close"}, side: Sides, id: Nat, qty: Nat, done: [Sides -> Nat]]
  /\ api \in [pc: {"idle", "price", "latency"}, kind: {"market", "close"}, side: Sides,
              qty: Nat, reduce: BOOLEAN, made: Nat]
  /\ shared \in BOOLEAN

\* PaperPortfolio.equity: "a long buy deducts qty*price ..., a short sell adds".  As long
\* as only the two passes book, cash and rows agree to the unit across partial fills,
\* flips, rejected orders, liquidations and exits.
LedgerBalances == ~shared => cash + pos["buy"].qty - pos["sell"].qty = 0

\* One-way mode never holds a long and a short at once, whoever opens what.
OneWay == ~Hedge => pos["buy"].qty = 0 \/ pos["sell"].qty = 0

\* Once the take-profit leg of a pair has filled, the stop leg is not executed, not even
\* by the pass that filled the first or after a cancel of the user's that came between.
PairExecutes(o) ==
  /\ orders[o].link > 0
  /\ orders[orders[o].link].status = "filled"
  /\ orders'[o].filled > orders[o].filled
StopLegCancelled ==
  [][\A o \in DOMAIN orders : orders[o].kind = "stop_limit" => ~PairExecutes(o)]_vars

\* submit_order: "The first to fill cancels the other via linked_order_id".
FirstCancelsOther == [][\A o \in DOMAIN orders : ~PairExecutes(o)]_vars

\* A stop does not stay pending while the price stays beyond it.
StopWaits(o) ==
  o \in DOMAIN orders /\ Pending(o) /\ orders[o].kind # "limit" /\ ~StopLimit(o)
    /\ Triggered(o, market)
StopsExecute == \A o \in 1..MaxOrders : []<>~StopWaits(o)

\* manual_order: "Reduce-only closes skip the entry gate (they only reduce)".  A
\* reduce-only order never opens or adds to a position.
ReduceOnly ==
  [][/\ \A o \in DOMAIN orders :
          orders[o].reduce /\ orders'[o].filled > orders[o].filled
            => pos'[orders[o].side].qty <= pos[orders[o].side].qty
     /\ api.pc = "latency" /\ api'.pc = "idle" /\ api.kind = "market" /\ api.reduce
          => pos'[api.side].qty <= pos[api.side].qty]_vars
=============================================================================
