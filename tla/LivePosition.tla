---------------------------- MODULE LivePosition ----------------------------
(***************************************************************************)
(* The life of a live SPOT position of one symbol: the rows the trading    *)
(* engine keeps in the database, the orders and protective stops that rest *)
(* on the exchange, and the jobs that move both:                           *)
(*   "monitor"   workers/scheduler.py monitor_positions, every 60 s        *)
(*   "cycle"     workers/scheduler.py run_cycle (and startup_recovery):    *)
(*               reconcile the open orders, then perhaps enter             *)
(*   "operator"  POST /dashboard/positions/{id}/close in the API process   *)
(* Each job owns a database session.  The sessions neither autoflush nor   *)
(* expire on commit, so a job works on the copy it loaded; a commit writes *)
(* only the columns the job changed.  Every call to the exchange is an     *)
(* await: its effect, and the commit that records it, are separate steps.  *)
(* Quantities are whole units; a stop price is its rank: 0 is the initial  *)
(* stop, 1 the entry price, anything above is locked-in profit.            *)
(***************************************************************************)
EXTENDS Integers, Sequences, FiniteSets

CONSTANTS
  Lot,        \* largest quantity one entry buys
  Sizes,      \* the quantities the risk sizing may choose
  MaxPos,     \* position rows the run may create
  MaxStops,   \* size of the pool of stop-order ids
  MaxLevel,   \* highest stop level
  Retries,    \* close_position's _retry
  MaxCloses,  \* close requests the operator sends
  Part,       \* Part[q]: the units scale_out_fraction takes out of q
  FillModes,  \* how much of a market sell the exchange may fill
  Faults,     \* the calls that may fail
  MaxFaults   \* how many of them fail in one behaviour

ASSUME LotAssumption == Lot \in Nat \ {0}
ASSUME BoundsAssumption ==
  /\ Sizes \subseteq 1..Lot
  /\ MaxPos \in Nat \ {0}
  /\ MaxStops \in Nat \ {0}
  /\ MaxLevel \in Nat \ {0}
  /\ Retries \in Nat \ {0}
  /\ MaxCloses \in Nat
  /\ MaxFaults \in Nat
\* _maybe_scale_out refuses a fraction outside (0, 1); a part the exchange finds too
\* small is 0 units, and is skipped.
ASSUME PartAssumption ==
  /\ Part \in [0..Lot -> 0..Lot]
  /\ Part[0] = 0
  /\ \A q \in 1..Lot : Part[q] < q
ASSUME FillAssumption == FillModes \subseteq {"full", "part", "zero"}
ASSUME FaultAssumption ==
  Faults \subseteq {"feed", "cancel", "place", "sell", "lost", "resent", "commit", "crash"}

VARIABLES
  rows,     \* positions table, as committed
  orders,   \* orders table, as committed, with what the exchange filled
  holding,  \* coins the account holds
  stops,    \* conditional orders resting on the exchange
  s,        \* the session of each job
  rec,      \* what the cycle's reconciliation has read
  closes,   \* close requests the operator may still send
  exitSig,  \* the price is at or beyond an exit level, for good
  budget,   \* faults still to come
  traded,   \* quantity in the trades table
  gone,     \* history: coins a job sold, less those it bought, and no commit recorded
  fired,    \* history: coins the stops sold
  lost,     \* history: resting stops whose id a fault lost
  bare      \* history: a fault or the exchange took the tracked stop away

vars == <<rows, orders, holding, stops, s, rec, closes, exitSig, budget,
          traded, gone, fired, lost, bare>>
exchange == <<holding, stops>>
tables == <<rows, orders, traded>>
history == <<gone, fired, lost, bare>>
environment == <<closes, exitSig, budget>>

Actor == {"monitor", "cycle", "operator"}
RowId == 1..MaxPos
StopId == 1..MaxStops
NoStop == 0
Qty == 0..Lot
Level == 0..MaxLevel

Row == [st: {"none", "open", "closed"}, qty: Qty, stop: StopId \cup {NoStop},
        level: Level, be: BOOLEAN, scaled: BOOLEAN, pnl: Nat]
Order == [entry: BOOLEAN, row: RowId, qty: Qty, exec: Qty, open: BOOLEAN]
Stop == [qty: Qty, level: Level]
PC == {"idle", "decide", "cancel", "forget", "sell", "persist", "scale", "bank", "trail",
       "amend", "replace", "place", "placed", "lookup", "recon", "enter", "opened"}
Session == [pc: PC, row: RowId, my: Row, att: 0..(Retries - 1), fill: Qty, exec: Qty,
            sid: StopId \cup {NoStop}, then: {"idle", "trail"}]

NoRow == [st |-> "none", qty |-> 0, stop |-> NoStop, level |-> 0,
          be |-> FALSE, scaled |-> FALSE, pnl |-> 0]
NotResting == [qty |-> 0, level |-> 0]
Idle == [pc |-> "idle", row |-> 1, my |-> NoRow, att |-> 0, fill |-> 0, exec |-> 0,
         sid |-> NoStop, then |-> "idle"]
NoRec == [todo |-> {}, base |-> [r \in RowId |-> NoRow]]

-----------------------------------------------------------------------------
(* Sessions and commits *)

Resting(i) == stops[i].qty > 0
OpenRows == {r \in RowId : rows[r].st = "open"}

\* The column a commit leaves behind: the session's value if it changed the column.
Column(db, base, my) == IF my # base THEN my ELSE db

\* Mutant: the commit writes every column of the copy.
MergeAll(db, base, my) == my

\* UPDATE of a position row: only the columns that differ from what was loaded.
Merge(db, base, my) ==
  [st     |-> Column(db.st, base.st, my.st),
   qty    |-> Column(db.qty, base.qty, my.qty),
   stop   |-> Column(db.stop, base.stop, my.stop),
   level  |-> Column(db.level, base.level, my.level),
   be     |-> Column(db.be, base.be, my.be),
   scaled |-> Column(db.scaled, base.scaled, my.scaled),
   pnl    |-> Column(db.pnl, base.pnl, my.pnl)]

\* Job a commits the changes its copy my makes to its row and goes on as session next.
Commit(a, my, next) ==
  /\ rows' = [rows EXCEPT ![s[a].row] = Merge(@, s[a].my, my)]
  /\ s' = [s EXCEPT ![a] = [next EXCEPT !.my = my]]

Fault(f) == f \in Faults /\ budget > 0 /\ budget' = budget - 1
Goto(a, pc) == s' = [s EXCEPT ![a].pc = pc]
Leave(a) == s' = [s EXCEPT ![a] = Idle]

\* Ids nobody refers to any more can be issued again.
UsedIds ==
  {i \in StopId : \/ Resting(i)
                  \/ \E r \in RowId : rows[r].stop = i \/ rec.base[r].stop = i
                  \/ \E a \in Actor : i \in {s[a].my.stop, s[a].sid}}
FreshId == CHOOSE i \in StopId : i \notin UsedIds

\* What a market sell of q may do: the exchange fills exec, the engine derives fill.
\* _filled_base_qty falls back to the requested quantity when nothing was filled.
Outcomes(q) ==
  {[exec |-> q, fill |-> q] : m \in FillModes \cap {"full"}}
    \cup {[exec |-> k, fill |-> k] : k \in IF "part" \in FillModes THEN 1..(q - 1) ELSE {}}
    \cup {[exec |-> 0, fill |-> q] : m \in FillModes \cap {"zero"}}

-----------------------------------------------------------------------------
(* Starting a pass *)

\* manage_open_positions reads the open rows; a new session, so a fresh copy.
MonitorLoad ==
  /\ s["monitor"].pc = "idle"
  /\ \E r \in OpenRows :
       s' = [s EXCEPT !["monitor"] = [Idle EXCEPT !.pc = "decide", !.row = r, !.my = rows[r]]]
  /\ UNCHANGED <<tables, exchange, rec, environment, history>>

\* The endpoint checks the row is open and calls close_position.
OperatorClose ==
  /\ s["operator"].pc = "idle"
  /\ closes > 0
  /\ closes' = closes - 1
  /\ \E r \in OpenRows :
       s' = [s EXCEPT !["operator"] = [Idle EXCEPT !.pc = "cancel", !.row = r, !.my = rows[r]]]
  /\ UNCHANGED <<tables, exchange, rec, exitSig, budget, history>>

\* Candles or ticker cannot be read: the position is skipped until the next pass.
MonitorSkips ==
  /\ s["monitor"].pc = "decide"
  /\ Fault("feed")
  /\ Leave("monitor")
  /\ UNCHANGED <<tables, exchange, rec, closes, exitSig, history>>

\* Stop or target hit: close_position.
MonitorExits ==
  /\ s["monitor"].pc = "decide"
  /\ Goto("monitor", "cancel")
  /\ UNCHANGED <<tables, exchange, rec, environment, history>>

\* No exit: take partial profit at +R, once per position.
MonitorScales ==
  /\ s["monitor"].pc = "decide"
  /\ ~exitSig
  /\ ~s["monitor"].my.scaled
  /\ Part[s["monitor"].my.qty] > 0
  /\ Goto("monitor", "scale")
  /\ UNCHANGED <<tables, exchange, rec, environment, history>>

\* Mutant: the pass may hold without looking at the exit levels.
MonitorHoldsBlindly ==
  /\ s["monitor"].pc = "decide"
  /\ Goto("monitor", "trail")
  /\ UNCHANGED <<tables, exchange, rec, environment, history>>

MonitorHolds ==
  /\ s["monitor"].pc = "decide"
  /\ ~exitSig
  /\ Goto("monitor", "trail")
  /\ UNCHANGED <<tables, exchange, rec, environment, history>>

-----------------------------------------------------------------------------
(* close_position *)

\* _cancel_exchange_stop: without a tracked stop it returns at once.
NothingToCancel(a) ==
  /\ s[a].pc = "cancel"
  /\ s[a].my.stop = NoStop
  /\ Goto(a, "sell")
  /\ UNCHANGED <<tables, exchange, rec, environment, history>>

\* A cancel of an order that is gone (404) is swallowed like any other error.
CancelStop(a) ==
  /\ s[a].pc = "cancel"
  /\ s[a].my.stop # NoStop
  /\ Goto(a, "forget")
  /\ \/ /\ stops' = [stops EXCEPT ![s[a].my.stop] = NotResting]
        /\ UNCHANGED <<budget, lost>>
     \/ /\ Fault("cancel")
        /\ lost' = IF Resting(s[a].my.stop) THEN lost \cup {s[a].my.stop} ELSE lost
        /\ UNCHANGED stops
  /\ UNCHANGED <<tables, holding, rec, closes, exitSig, gone, fired, bare>>

\* The id is cleared whether or not the cancel went through.
ForgetStop(a) ==
  /\ s[a].pc = "forget"
  /\ Commit(a, [s[a].my EXCEPT !.stop = NoStop], [s[a] EXCEPT !.pc = "sell"])
  /\ UNCHANGED <<orders, traded, exchange, rec, environment, history>>

\* place_market_sell: the exchange fills what it fills, the job goes on at pc.
MarketSell(a, q, pc) ==
  /\ holding >= q
  /\ \E o \in Outcomes(q) :
       /\ holding' = holding - o.exec
       /\ s' = [s EXCEPT ![a].pc = pc, ![a].fill = o.fill, ![a].exec = o.exec]

\* The close sells the quantity of the session's copy.
Sell(a) ==
  /\ s[a].pc = "sell"
  /\ MarketSell(a, s[a].my.qty, "persist")
  /\ UNCHANGED <<tables, stops, rec, environment, history>>

\* Mutant: one attempt too many.
RetryOnceMore(a, my) ==
  LET more == s[a].att + 1 <= Retries
  IN  s' = [s EXCEPT ![a] =
        IF more THEN [s[a] EXCEPT !.pc = "sell", !.my = my, !.att = s[a].att + 1,
                                  !.fill = 0, !.exec = 0]
        ELSE IF my.stop = NoStop
        THEN [Idle EXCEPT !.pc = "place", !.row = s[a].row, !.my = my]
        ELSE Idle]

\* An attempt failed: sleep and try again, or give up and put a stop back.
RetryWith(a, my) ==
  LET more == s[a].att + 1 < Retries
  IN  s' = [s EXCEPT ![a] =
        IF more THEN [s[a] EXCEPT !.pc = "sell", !.my = my, !.att = s[a].att + 1,
                                  !.fill = 0, !.exec = 0]
        ELSE IF my.stop = NoStop
        THEN [Idle EXCEPT !.pc = "place", !.row = s[a].row, !.my = my]
        ELSE Idle]

\* The exchange refuses to sell coins the account does not hold; any call may fail.
SellFails(a) ==
  /\ s[a].pc = "sell"
  /\ \/ holding < s[a].my.qty /\ UNCHANGED budget
     \/ Fault("sell")
  /\ RetryWith(a, s[a].my)
  /\ UNCHANGED <<tables, exchange, rec, closes, exitSig, history>>

\* The order executes but its answer is lost: for the caller it failed.
SellLost(a) ==
  /\ s[a].pc = "sell"
  /\ holding >= s[a].my.qty
  /\ Fault("lost")
  /\ holding' = holding - s[a].my.qty
  /\ gone' = gone + s[a].my.qty
  /\ RetryWith(a, s[a].my)
  /\ UNCHANGED <<tables, stops, rec, closes, exitSig, fired, lost, bare>>

\* The order and the trade of a sale, written in the commit that changes the row.
Record(a) ==
  /\ orders' = Append(orders, [entry |-> FALSE, row |-> s[a].row, qty |-> s[a].fill,
                               exec |-> s[a].exec, open |-> TRUE])
  /\ traded' = [traded EXCEPT ![s[a].row] = @ + s[a].fill]

\* A close that filled less than the position leaves it open with the rest.
AfterClose(my, fill) ==
  IF fill < my.qty
  THEN [my EXCEPT !.qty = my.qty - fill, !.st = "open", !.pnl = my.pnl + fill]
  ELSE [my EXCEPT !.st = "closed", !.pnl = my.pnl + fill]

PersistClose(a) ==
  LET my == AfterClose(s[a].my, s[a].fill)
  IN  /\ s[a].pc = "persist"
      /\ rows' = [rows EXCEPT ![s[a].row] = Merge(@, s[a].my, my)]
      /\ s' = [s EXCEPT ![a] = IF my.st = "open" /\ my.stop = NoStop
                               THEN [Idle EXCEPT !.pc = "place", !.row = s[a].row, !.my = my]
                               ELSE Idle]
      /\ Record(a)
      /\ UNCHANGED <<exchange, rec, environment, history>>

\* _commit_or_rollback: the rollback expires the copy, which is read again, and the
\* retry loop of close_position takes the exception for a failed sell.
PersistFails(a) ==
  /\ s[a].pc = "persist"
  /\ Fault("commit")
  /\ gone' = gone + s[a].exec
  /\ RetryWith(a, rows[s[a].row])
  /\ UNCHANGED <<tables, exchange, rec, closes, exitSig, fired, lost, bare>>

-----------------------------------------------------------------------------
(* _scale_out *)

ScaleSell ==
  /\ s["monitor"].pc = "scale"
  /\ MarketSell("monitor", Part[s["monitor"].my.qty], "bank")
  /\ UNCHANGED <<tables, stops, rec, environment, history>>

\* Any other exception ends the pass for this position.
ScaleFails ==
  LET q == Part[s["monitor"].my.qty]
  IN  /\ s["monitor"].pc = "scale"
      /\ \/ /\ holding < q
            /\ UNCHANGED <<holding, gone, budget>>
         \/ /\ Fault("sell")
            /\ UNCHANGED <<holding, gone>>
         \/ /\ holding >= q
            /\ Fault("lost")
            /\ holding' = holding - q
            /\ gone' = gone + q
      /\ Leave("monitor")
      /\ UNCHANGED <<tables, stops, rec, closes, exitSig, fired, lost, bare>>

\* Mutant: the stop is not amended to the quantity and level of the rest.
BankUnamended ==
  LET my == s["monitor"].my
      fill == s["monitor"].fill
      banked == [my EXCEPT !.qty = my.qty - fill, !.scaled = TRUE, !.pnl = my.pnl + fill,
                           !.level = IF my.be THEN my.level ELSE 1, !.be = TRUE]
  IN  /\ s["monitor"].pc = "bank"
      /\ Commit("monitor", banked, [Idle EXCEPT !.pc = "trail", !.row = s["monitor"].row])
      /\ Record("monitor")
      /\ UNCHANGED <<exchange, rec, environment, history>>

\* Book the part, mark the row, move its stop to the entry price; the commit is
\* followed by an amend and, as the row is still open, by the trailing stop.
Bank ==
  LET my == s["monitor"].my
      fill == s["monitor"].fill
      banked == [my EXCEPT !.qty = my.qty - fill, !.scaled = TRUE, !.pnl = my.pnl + fill,
                           !.level = IF my.be THEN my.level ELSE 1, !.be = TRUE]
  IN  /\ s["monitor"].pc = "bank"
      /\ Commit("monitor", banked, [Idle EXCEPT !.pc = "amend", !.row = s["monitor"].row,
                                                !.then = "trail"])
      /\ Record("monitor")
      /\ UNCHANGED <<exchange, rec, environment, history>>

BankFails ==
  /\ s["monitor"].pc = "bank"
  /\ Fault("commit")
  /\ gone' = gone + s["monitor"].exec
  /\ Leave("monitor")
  /\ UNCHANGED <<tables, exchange, rec, closes, exitSig, fired, lost, bare>>

-----------------------------------------------------------------------------
(* _update_trailing_stop *)

\* What a pass may do to the stop: trail it up, or move it to breakeven, once.
Raised(my) ==
  {[my EXCEPT !.level = l] : l \in {l \in Level : l > my.level}}
    \cup {m \in {[my EXCEPT !.level = 1, !.be = TRUE]} : ~my.be /\ my.level < 1}

\* Mutant: the new stop is placed and the old one left resting.
TrailRaisesBeside ==
  /\ s["monitor"].pc = "trail"
  /\ \E my \in Raised(s["monitor"].my) :
       Commit("monitor", my, [s["monitor"] EXCEPT !.pc = "replace", !.then = "idle"])
  /\ UNCHANGED <<orders, traded, exchange, rec, environment, history>>

TrailRaises ==
  /\ s["monitor"].pc = "trail"
  /\ \E my \in Raised(s["monitor"].my) :
       Commit("monitor", my, [s["monitor"] EXCEPT !.pc = "amend", !.then = "idle"])
  /\ UNCHANGED <<orders, traded, exchange, rec, environment, history>>

TrailHolds ==
  /\ s["monitor"].pc = "trail"
  /\ Leave("monitor")
  /\ UNCHANGED <<tables, exchange, rec, environment, history>>

-----------------------------------------------------------------------------
(* _amend_exchange_stop and _place_exchange_stop *)

\* No native amend: cancel the old stop, then place a new one even if that failed.
\* Without a tracked stop there is nothing to cancel and _place_exchange_stop runs.
AmendCancels ==
  LET old == s["monitor"].my.stop
  IN  /\ s["monitor"].pc = "amend"
      /\ \/ /\ old = NoStop
            /\ Goto("monitor", "place")
            /\ UNCHANGED <<stops, budget, lost>>
         \/ /\ old # NoStop
            /\ Goto("monitor", "replace")
            /\ stops' = [stops EXCEPT ![old] = NotResting]
            /\ UNCHANGED <<budget, lost>>
         \/ /\ old # NoStop
            /\ Goto("monitor", "replace")
            /\ Fault("cancel")
            /\ lost' = IF Resting(old) THEN lost \cup {old} ELSE lost
            /\ UNCHANGED stops
      /\ UNCHANGED <<tables, holding, rec, closes, exitSig, gone, fired, bare>>

\* A stop of the copy's quantity and level starts to rest.
PlaceStop(a) ==
  /\ s[a].pc \in {"place", "replace"}
  /\ UsedIds # StopId
  /\ stops' = [stops EXCEPT ![FreshId] = [qty |-> s[a].my.qty, level |-> s[a].my.level]]
  /\ s' = [s EXCEPT ![a].pc = "placed", ![a].sid = FreshId]
  /\ UNCHANGED <<tables, holding, rec, environment, history>>

\* The call raises, before the order reaches the exchange or after: degraded mode,
\* the local poll only.  A failed amend forgets the old id.
PlaceFails(a) ==
  /\ s[a].pc \in {"place", "replace"}
  /\ \/ /\ Fault("place")
        /\ UNCHANGED <<stops, lost>>
     \/ /\ UsedIds # StopId
        /\ Fault("lost")
        /\ stops' = [stops EXCEPT ![FreshId] = [qty |-> s[a].my.qty, level |-> s[a].my.level]]
        /\ lost' = lost \cup {FreshId}
  /\ bare' = TRUE
  /\ Commit(a, [s[a].my EXCEPT !.stop = NoStop],
            IF s[a].then = "idle" THEN Idle ELSE [s[a] EXCEPT !.pc = s[a].then])
  /\ UNCHANGED <<orders, traded, holding, rec, closes, exitSig, gone, fired>>

\* The id of the new stop is committed.
TrackStop(a) ==
  /\ s[a].pc = "placed"
  /\ Commit(a, [s[a].my EXCEPT !.stop = s[a].sid],
            IF s[a].then = "idle" THEN Idle
            ELSE [s[a] EXCEPT !.pc = s[a].then, !.sid = NoStop])
  /\ bare' = ~Resting(s[a].sid)
  /\ UNCHANGED <<orders, traded, exchange, rec, environment, gone, fired, lost>>

-----------------------------------------------------------------------------
(* The client *)

\* GateIOClient.request sends a call again when no answer comes, or a 429 or 5xx: without
\* a client order id the attempt before may have executed, and nobody learns of it.  The
\* job still waits for its answer.  MaxFaults bounds the attempts.
SaleResent(a) ==
  LET q == IF s[a].pc = "scale" THEN Part[s[a].my.qty] ELSE s[a].my.qty
  IN  /\ s[a].pc \in {"sell", "scale"}
      /\ holding >= q
      /\ Fault("resent")
      /\ holding' = holding - q
      /\ gone' = gone + q
      /\ UNCHANGED <<tables, stops, s, rec, closes, exitSig, fired, lost, bare>>

StopResent(a) ==
  /\ s[a].pc \in {"place", "replace"}
  /\ UsedIds # StopId
  /\ Fault("resent")
  /\ stops' = [stops EXCEPT ![FreshId] = [qty |-> s[a].my.qty, level |-> s[a].my.level]]
  /\ lost' = lost \cup {FreshId}
  /\ UNCHANGED <<tables, holding, s, rec, closes, exitSig, gone, fired, bare>>

-----------------------------------------------------------------------------
(* The exchange and the market *)

\* A stop triggers: it sells its quantity if the account holds that much.  No row of
\* the orders table knows it, so nothing but the account changes.
StopFires(i) ==
  /\ Resting(i)
  /\ stops' = [stops EXCEPT ![i] = NotResting]
  /\ \/ /\ holding >= stops[i].qty
        /\ holding' = holding - stops[i].qty
        /\ fired' = fired + stops[i].qty
     \/ /\ holding < stops[i].qty
        /\ UNCHANGED <<holding, fired>>
  /\ bare' = TRUE
  /\ lost' = lost \ {i}
  /\ UNCHANGED <<tables, s, rec, environment, gone>>

PriceExits ==
  /\ ~exitSig
  /\ exitSig' = TRUE
  /\ UNCHANGED <<tables, exchange, s, rec, closes, budget, history>>

-----------------------------------------------------------------------------
(* run_cycle: reconcile_open_orders, then scan_symbol *)

OpenOrders == {k \in 1..Len(orders) : orders[k].open}

\* The cycle starts: the orders still open are read.
ReconcileStarts ==
  /\ s["cycle"].pc = "idle"
  /\ Goto("cycle", "lookup")
  /\ rec' = [NoRec EXCEPT !.todo = OpenOrders]
  /\ UNCHANGED <<tables, exchange, environment, history>>

\* get_order for each of them, then db.get of its position.  A lookup that fails
\* leaves its order for the next cycle.
ReconcileLooks ==
  /\ s["cycle"].pc = "lookup"
  /\ Goto("cycle", "recon")
  /\ \/ /\ rec' = [rec EXCEPT !.base = rows]
        /\ UNCHANGED budget
     \/ /\ Fault("feed")
        /\ \E ok \in SUBSET rec.todo :
             ok # rec.todo /\ rec' = [todo |-> ok, base |-> rows]
  /\ UNCHANGED <<tables, exchange, closes, exitSig, history>>

\* Mutant: the fill of an entry order counts as a close.
ClosingAny(r) == {k \in rec.todo : orders[k].row = r /\ orders[k].exec > 0}

\* _sync_position for the filled close orders of row r, in the order of the table.
\* The PnL is recomputed from one fill, and a fill of the whole quantity closes.
Closing(r) == {k \in rec.todo : orders[k].row = r /\ ~orders[k].entry /\ orders[k].exec > 0}

\* Mutant: any fill of a closing order closes the row.
SyncedByAnyFill(r) ==
  IF Closing(r) = {} THEN rec.base[r] ELSE [rec.base[r] EXCEPT !.st = "closed"]

Synced(r) ==
  LET base == rec.base[r]
      last == CHOOSE k \in Closing(r) : \A j \in Closing(r) : j <= k
      whole == \E k \in Closing(r) : orders[k].exec >= base.qty
  IN  IF Closing(r) = {} THEN base
      ELSE [base EXCEPT
             !.pnl = IF orders[last].exec <= base.qty THEN orders[last].exec ELSE base.qty,
             !.st = IF whole THEN "closed" ELSE base.st]

ReconcileCommits ==
  /\ s["cycle"].pc = "recon"
  /\ rows' = [r \in RowId |-> Merge(rows[r], rec.base[r], Synced(r))]
  /\ orders' = [k \in 1..Len(orders) |->
                  IF k \in rec.todo THEN [orders[k] EXCEPT !.open = FALSE] ELSE orders[k]]
  /\ rec' = NoRec
  /\ Goto("cycle", "enter")
  /\ UNCHANGED <<traded, exchange, environment, history>>

\* No signal, or a gate of the cycle blocks the entry.
CycleEnds ==
  /\ s["cycle"].pc = "enter"
  /\ Leave("cycle")
  /\ UNCHANGED <<tables, exchange, rec, environment, history>>

\* Mutant: an open position is not looked for.
EnterAgain ==
  /\ s["cycle"].pc = "enter"
  /\ ~exitSig
  /\ \E r \in RowId, q \in Sizes :
       /\ rows[r].st = "none" /\ (r > 1 => rows[r - 1].st # "none")
       /\ holding' = holding + q
       /\ s' = [s EXCEPT !["cycle"] = [Idle EXCEPT !.pc = "opened", !.row = r, !.fill = q]]
  /\ UNCHANGED <<tables, stops, rec, environment, history>>

\* scan_symbol finds no open position and buys.
Enter ==
  /\ s["cycle"].pc = "enter"
  /\ OpenRows = {}
  /\ ~exitSig
  /\ \E r \in RowId, q \in Sizes :
       /\ rows[r].st = "none" /\ (r > 1 => rows[r - 1].st # "none")
       /\ holding' = holding + q
       /\ s' = [s EXCEPT !["cycle"] = [Idle EXCEPT !.pc = "opened", !.row = r, !.fill = q]]
  /\ UNCHANGED <<tables, stops, rec, environment, history>>

\* The client buys again what an attempt without an answer has bought.
BuyResent ==
  /\ s["cycle"].pc = "enter"
  /\ OpenRows = {}
  /\ ~exitSig
  /\ Fault("resent")
  /\ \E r \in RowId, q \in Sizes :
       /\ rows[r].st = "none"
       /\ holding' = holding + q
       /\ gone' = gone - q
  /\ UNCHANGED <<tables, stops, s, rec, closes, exitSig, fired, lost, bare>>

\* The position and its entry order are committed; the stop is placed next.
RecordEntry ==
  LET r == s["cycle"].row
      q == s["cycle"].fill
      my == [NoRow EXCEPT !.st = "open", !.qty = q]
  IN  /\ s["cycle"].pc = "opened"
      /\ rows' = [rows EXCEPT ![r] = my]
      /\ orders' = Append(orders, [entry |-> TRUE, row |-> r, qty |-> q, exec |-> q,
                                   open |-> TRUE])
      /\ s' = [s EXCEPT !["cycle"] = [Idle EXCEPT !.pc = "place", !.row = r, !.my = my]]
      /\ UNCHANGED <<traded, exchange, rec, environment, history>>

\* Coins were bought, the commit fails, scan_symbol raises: no row knows of them.
RecordEntryFails ==
  /\ s["cycle"].pc = "opened"
  /\ Fault("commit")
  /\ gone' = gone - s["cycle"].fill
  /\ Leave("cycle")
  /\ UNCHANGED <<tables, exchange, rec, closes, exitSig, fired, lost, bare>>

-----------------------------------------------------------------------------
(* A process dies and is started again *)

\* Coins a session sold, or bought (negative), and has not recorded yet.
InFlight(a) ==
  IF s[a].pc \in {"persist", "bank"} THEN s[a].exec
  ELSE IF s[a].pc = "opened" THEN -s[a].fill
  ELSE 0

\* The sessions of a dead process are rolled back: a sale or a purchase nobody
\* records, a stop nobody tracks.
Processes == {{"monitor", "cycle"}, {"operator"}}
Crash(dead) ==
  LET unrecorded(a) == IF a \in dead THEN InFlight(a) ELSE 0
  IN  /\ Fault("crash")
      /\ \E a \in dead : s[a].pc # "idle"
      /\ s' = [a \in Actor |-> IF a \in dead THEN Idle ELSE s[a]]
      /\ rec' = IF "cycle" \in dead THEN NoRec ELSE rec
      /\ gone' = gone + unrecorded("monitor") + unrecorded("cycle") + unrecorded("operator")
      /\ lost' = lost \cup {i \in StopId : Resting(i) /\ \E a \in dead : s[a].sid = i}
      /\ bare' = TRUE
      /\ UNCHANGED <<tables, exchange, closes, exitSig, fired>>

-----------------------------------------------------------------------------
(* The specification *)

\* A position opened earlier, with its stop resting and its entry order still open.
InitOpen ==
  \E q \in Sizes :
    /\ rows = [r \in RowId |-> IF r = 1 THEN [NoRow EXCEPT !.st = "open", !.qty = q,
                                                           !.stop = 1]
                               ELSE NoRow]
    /\ orders = <<[entry |-> TRUE, row |-> 1, qty |-> q, exec |-> q, open |-> TRUE]>>
    /\ holding = q
    /\ stops = [i \in StopId |-> IF i = 1 THEN [qty |-> q, level |-> 0] ELSE NotResting]

\* A fresh database and an account without the coin.
InitFlat ==
  /\ rows = [r \in RowId |-> NoRow]
  /\ orders = <<>>
  /\ holding = 0
  /\ stops = [i \in StopId |-> NotResting]

Init ==
  /\ InitOpen \/ InitFlat
  /\ s = [a \in Actor |-> Idle]
  /\ rec = NoRec
  /\ closes = MaxCloses
  /\ exitSig = FALSE
  /\ budget = MaxFaults
  /\ traded = [r \in RowId |-> 0]
  /\ gone = 0
  /\ fired = 0
  /\ lost = {}
  /\ bare = FALSE

\* What a job that closes a position or places its stop does next.
CloseStep(a) ==
  \/ NothingToCancel(a) \/ CancelStop(a) \/ ForgetStop(a)
  \/ Sell(a) \/ SellFails(a) \/ SellLost(a) \/ PersistClose(a) \/ PersistFails(a)
StopStep(a) == PlaceStop(a) \/ PlaceFails(a) \/ TrackStop(a)

MonitorStep ==
  \/ MonitorLoad \/ MonitorSkips \/ MonitorExits \/ MonitorScales \/ MonitorHolds
  \/ CloseStep("monitor") \/ ScaleSell \/ ScaleFails \/ Bank \/ BankFails
  \/ TrailRaises \/ TrailHolds \/ AmendCancels \/ StopStep("monitor")
OperatorStep == OperatorClose \/ CloseStep("operator") \/ StopStep("operator")
CycleStep ==
  \/ ReconcileStarts \/ ReconcileLooks \/ ReconcileCommits \/ CycleEnds
  \/ Enter \/ RecordEntry \/ RecordEntryFails \/ StopStep("cycle")
ExchangeStep == PriceExits \/ \E i \in StopId : StopFires(i)
Resent == BuyResent \/ \E a \in Actor : SaleResent(a) \/ StopResent(a)

Next ==
  \/ MonitorStep \/ OperatorStep \/ CycleStep \/ ExchangeStep \/ Resent
  \/ \E dead \in Processes : Crash(dead)

Spec == Init /\ [][Next]_vars

\* APScheduler starts both jobs again and again and a started job runs on; nobody
\* owes the market, the exchange's stops, an operator's request or a fault.
Fairness == WF_vars(MonitorStep) /\ WF_vars(CycleStep)
FairSpec == Spec /\ Fairness

-----------------------------------------------------------------------------
(* Properties *)

\* The variables keep their types; a session holds a copy of some row.
TypeOK ==
  /\ rows \in [RowId -> Row]
  /\ orders \in Seq(Order)
  /\ holding \in Nat
  /\ stops \in [StopId -> Stop]
  /\ s \in [Actor -> Session]
  /\ rec \in [todo: SUBSET (1..Len(orders)), base: [RowId -> Row]]
  /\ closes \in 0..MaxCloses
  /\ exitSig \in BOOLEAN
  /\ budget \in 0..MaxFaults
  /\ traded \in [RowId -> Nat]
  /\ gone \in Int
  /\ fired \in Nat
  /\ lost \subseteq StopId
  /\ bare \in BOOLEAN

\* The books balance: the open row holds exactly the coins of the account, those
\* a job has in flight and those a fault or a stop took away without a record; a flat
\* book means no other coins.  Partial profit, closes, retries and a concurrent
\* reconciliation must keep this whatever fails between an order and its commit.
Book == holding + gone + fired + InFlight("monitor") + InFlight("cycle") + InFlight("operator")
BookIdentity ==
  /\ \A r \in OpenRows : rows[r].qty = Book
  /\ OpenRows = {} => Book = 0

\* One symbol has at most one open position, whatever closes and enters meanwhile.
OneOpenRow == \A q, r \in OpenRows : q = r

\* A row is closed, by a job or by the reconciliation, only when nothing of it is left
\* to sell: with no row open and nothing in flight the account is flat, unless coins were
\* bought that no row knows of.
ClosedIsFlat ==
  (OpenRows = {} /\ gone + fired >= 0 /\ \A a \in Actor : InFlight(a) = 0) => holding = 0

\* Every stop that rests is tracked by the open row, or a job is about to track it,
\* or a fault lost it: cancelling, amending and closing leave no other behind.
Tracked == {rows[r].stop : r \in RowId} \cup {s[a].sid : a \in Actor}
StopsAccounted == \A i \in StopId : Resting(i) => i \in Tracked \cup lost

\* Between two passes of the monitor the open position is guarded by a resting stop of
\* exactly its quantity at exactly its stop price, unless a fault or a fired stop
\* took it away: after scale-outs, trails and breakeven moves.
Guarded ==
  s["monitor"].pc = "idle" /\ ~bare =>
    \A r \in OpenRows :
      /\ rows[r].stop # NoStop
      /\ stops[rows[r].stop] = [qty |-> rows[r].qty, level |-> rows[r].level]

\* A closed row stays closed, though jobs commit stale copies that still say "open".
NoResurrection ==
  [][\A r \in RowId : rows[r].st = "closed" => rows'[r].st = "closed"]_rows

\* Once the price is beyond an exit level, every coin of the account is sold, by the
\* monitor or by the resting stop, whatever fails from then on, as long as the row and the
\* account agree at that time and no partial sale is under way.
Matched == (\A r \in OpenRows : rows[r].qty = holding) /\ s["monitor"].pc # "scale"
ExitCompletes == (exitSig /\ Matched) ~> holding = 0

\* _close_position_inner: "Accumulate realized PnL across partial closes instead of
\* overwriting it".  A closed row's PnL covers what the trades of the row sold.
LedgerComplete == \A r \in RowId : rows[r].st = "closed" => rows[r].pnl = traded[r]

\* close_position, after the last of its retries: "Alert and let reconciliation recover the
\* actual state".  When an earlier partial sale is not on record, the row stays larger than
\* the account, and every later sell of its quantity is refused.
EveryExitCompletes == exitSig ~> holding = 0

\* _commit_or_rollback: "exchange order is live, reconciliation will recover it".  The row
\* of a sale whose commit failed is, some day, no longer open.
SalesAreRecovered == gone > 0 ~> OpenRows = {}
=============================================================================
