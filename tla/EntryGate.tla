------------------------------ MODULE EntryGate ------------------------------
(***************************************************************************)
(* The gates between the live worker and a new position, and the requests  *)
(* that move them meanwhile:                                               *)
(*   the cycle     workers/scheduler.py run_cycle: trip the breaker on a   *)
(*                 breached limit, look at the enable flag, then scan the  *)
(*                 symbols one by one with scan_symbol and approve_entry   *)
(*   the requests  of the API process, each in a thread and a session of   *)
(*                 its own: trip or reset the breaker, pause or resume the *)
(*                 strategy                                                *)
(* A request reads the settings row first and commits later, and a commit  *)
(* writes the flag only if the copy it read differed.  The cycle keeps the *)
(* copy it read at its gate: later queries of the same session return that *)
(* object, with its old flag.  approve_entry locks the row (PostgreSQL,    *)
(* SELECT ... FOR UPDATE) until the session next commits or rolls back.    *)
(***************************************************************************)
EXTENDS Integers, Sequences, FiniteSets

CONSTANTS
  Symbols,     \* settings.symbols
  NoSymbol,    \* the cycle is not scanning
  MaxOpen,     \* max_open_positions
  Cooldown,    \* ticks of the clock in the hour a reset must wait
  MaxTime,     \* last tick of the clock
  Requests,    \* the threads of the API process
  Ops,         \* what they are asked
  MaxOutside   \* requests, breached limits and failures in one behaviour

ASSUME SymbolAssumption == NoSymbol \notin Symbols /\ IsFiniteSet(Symbols)
ASSUME OpsAssumption == Ops \subseteq {"trip", "reset", "pause", "resume"}
ASSUME NumberAssumption ==
  /\ MaxOpen \in Nat
  /\ Cooldown \in Nat
  /\ MaxTime \in Nat
  /\ MaxOutside \in Nat

VARIABLES
  events,   \* circuit_breaker_events, in the order of their commits
  enabled,  \* strategy_settings.is_enabled, as committed
  open,     \* symbols with an open position row
  cycle,    \* run_cycle and its session
  req,      \* what each API thread has read and is about to commit
  now,      \* the clock
  outside,  \* happenings still to come
  late      \* history: entries sent since the breaker tripped

vars == <<events, enabled, open, cycle, req, now, outside, late>>
environment == <<now, outside>>

Flag == {"on", "off"}
Event == [state: {"tripped", "armed"}, at: 0..MaxTime]
PC == {"idle", "breaker", "trip", "gate", "scan", "filters", "check", "lock", "submit",
       "persist"}
Cycle == [pc: PC, sym: Symbols \cup {NoSymbol}, todo: SUBSET Symbols,
          copy: Flag \cup {"expired"}, lock: BOOLEAN]
Request == [op: Ops \cup {"none"}, copy: Flag]

NoCycle == [pc |-> "idle", sym |-> NoSymbol, todo |-> {}, copy |-> "expired", lock |-> FALSE]
NoRequest == [op |-> "none", copy |-> "off"]

-----------------------------------------------------------------------------
(* The breaker and the settings row *)

\* The newest event decides.
IsTripped == events # <<>> /\ events[Len(events)].state = "tripped"

Resets == {k \in 1..Len(events) : events[k].state = "armed"}
CooledDown == \A k \in Resets : now - events[k].at >= Cooldown

Log(state) == events' = Append(events, [state |-> state, at |-> now])

\* The flag a commit leaves: an UPDATE is issued only if the copy read differs.
Written(copy, flag) == IF copy # flag THEN flag ELSE enabled

\* Mutant: the commit does not wait for the row.
RowWritableAlways(copy, flag) == TRUE

\* The UPDATE waits for the row lock of the cycle's transaction.
RowWritable(copy, flag) == copy # flag => ~cycle.lock

Happens == outside > 0 /\ outside' = outside - 1

-----------------------------------------------------------------------------
(* run_cycle *)

At(pc) == cycle.pc = pc
Goto(pc) == cycle' = [cycle EXCEPT !.pc = pc]

\* Leave the symbol; a commit on the way ends the transaction and its lock.
LeaveSymbol(locked) ==
  cycle' = [cycle EXCEPT !.pc = "scan", !.sym = NoSymbol, !.lock = locked]

\* Reconciliation and the equity snapshot come first; a tripped breaker ends the cycle.
CycleStarts ==
  /\ At("idle")
  /\ ~IsTripped
  /\ Goto("breaker")
  /\ UNCHANGED <<events, enabled, open, req, environment, late>>

\* evaluate finds a breached limit, and trip reads the settings row.
LimitBreached ==
  /\ At("breaker")
  /\ Happens
  /\ cycle' = [cycle EXCEPT !.pc = "trip", !.copy = enabled]
  /\ UNCHANGED <<events, enabled, open, req, now, late>>

\* The event and the cleared flag are one commit; the cycle returns.
CycleTrips ==
  /\ At("trip")
  /\ Log("tripped")
  /\ enabled' = Written(cycle.copy, "off")
  /\ cycle' = NoCycle
  /\ UNCHANGED <<open, req, environment, late>>

WithinLimits ==
  /\ At("breaker")
  /\ Goto("gate")
  /\ UNCHANGED <<events, enabled, open, req, environment, late>>

\* The flag is read into the object the session keeps for the rest of the cycle.
GateOpens ==
  /\ At("gate")
  /\ enabled = "on"
  /\ cycle' = [cycle EXCEPT !.pc = "scan", !.todo = Symbols, !.copy = enabled]
  /\ UNCHANGED <<events, enabled, open, req, environment, late>>

\* The flag is off, or preflight, validation, equity or the peg blocks the entries.
GateShut ==
  /\ At("gate")
  /\ cycle' = NoCycle
  /\ UNCHANGED <<events, enabled, open, req, environment, late>>

\* Mutant: the session is never ended.
CycleEndsLocked ==
  /\ At("scan")
  /\ cycle.todo = {}
  /\ cycle' = [NoCycle EXCEPT !.lock = cycle.lock]
  /\ UNCHANGED <<events, enabled, open, req, environment, late>>

\* The heartbeat commits and the session is closed.
CycleEnds ==
  /\ At("scan")
  /\ cycle.todo = {}
  /\ cycle' = NoCycle
  /\ UNCHANGED <<events, enabled, open, req, environment, late>>

-----------------------------------------------------------------------------
(* scan_symbol *)

\* Mutant: the scanned symbol is not kept.
ScanStartsNameless(sym) ==
  /\ At("scan")
  /\ sym \in cycle.todo
  /\ ~IsTripped
  /\ sym \notin open
  /\ cycle' = [cycle EXCEPT !.pc = "filters", !.todo = @ \ {sym}]
  /\ UNCHANGED <<events, enabled, open, req, environment, late>>

\* The breaker is armed and the symbol is free: the candles are fetched.  The order
\* of the configured list is left open.
ScanStarts(sym) ==
  /\ At("scan")
  /\ sym \in cycle.todo
  /\ ~IsTripped
  /\ sym \notin open
  /\ cycle' = [cycle EXCEPT !.pc = "filters", !.sym = sym, !.todo = @ \ {sym}]
  /\ UNCHANGED <<events, enabled, open, req, environment, late>>

ScanSkips(sym) ==
  /\ At("scan")
  /\ sym \in cycle.todo
  /\ IsTripped \/ sym \in open
  /\ cycle' = [cycle EXCEPT !.todo = @ \ {sym}, !.lock = FALSE]
  /\ UNCHANGED <<events, enabled, open, req, environment, late>>

\* A signal, and no filter objects; the quality and regime records were committed.
FiltersPass ==
  /\ At("filters")
  /\ cycle' = [cycle EXCEPT !.pc = "check", !.lock = FALSE]
  /\ UNCHANGED <<events, enabled, open, req, environment, late>>

\* No signal, a filter objects, or the scan raises: logged and committed.
FiltersBlock ==
  /\ At("filters")
  /\ LeaveSymbol(FALSE)
  /\ UNCHANGED <<events, enabled, open, req, environment, late>>

\* Critical drift: update_health clears the flag of the session's object, reading it
\* again if a rollback expired it, and scan_symbol skips the paused strategy.
HealthPauses ==
  LET copy == IF cycle.copy = "expired" THEN enabled ELSE cycle.copy
  IN  /\ At("filters")
      /\ enabled' = Written(copy, "off")
      /\ cycle' = [cycle EXCEPT !.pc = "scan", !.sym = NoSymbol, !.lock = FALSE, !.copy = "off"]
      /\ UNCHANGED <<events, open, req, environment, late>>

\* Mutant: approve_entry trusts the look scan_symbol took.
BreakerClearAlways ==
  /\ At("check")
  /\ Goto("lock")
  /\ UNCHANGED <<events, enabled, open, req, environment, late>>

\* approve_entry looks at the breaker again, before it locks the row.
BreakerClear ==
  /\ At("check")
  /\ ~IsTripped
  /\ Goto("lock")
  /\ UNCHANGED <<events, enabled, open, req, environment, late>>

BreakerBlocks ==
  /\ At("check")
  /\ IsTripped
  /\ LeaveSymbol(FALSE)
  /\ UNCHANGED <<events, enabled, open, req, environment, late>>

\* The flag approve_entry sees: the SELECT ... FOR UPDATE of a row the session already
\* holds returns the object it holds.
SeenFlag == IF cycle.copy = "expired" THEN enabled ELSE cycle.copy

\* Mutant: one position too many.
ApprovesOneMore ==
  /\ At("lock")
  /\ SeenFlag = "on"
  /\ Cardinality(open) <= MaxOpen
  /\ cycle' = [cycle EXCEPT !.pc = "submit", !.copy = SeenFlag, !.lock = TRUE]
  /\ UNCHANGED <<events, enabled, open, req, environment, late>>

\* The row is locked, the flag is on, there is room: approved.
Approves ==
  /\ At("lock")
  /\ SeenFlag = "on"
  /\ Cardinality(open) < MaxOpen
  /\ cycle' = [cycle EXCEPT !.pc = "submit", !.copy = SeenFlag, !.lock = TRUE]
  /\ UNCHANGED <<events, enabled, open, req, environment, late>>

\* Disabled, no room, or an exposure or loss limit: logged and committed.
Rejects ==
  /\ At("lock")
  /\ cycle' = [cycle EXCEPT !.pc = "scan", !.sym = NoSymbol, !.lock = FALSE,
                            !.copy = SeenFlag]
  /\ UNCHANGED <<events, enabled, open, req, environment, late>>

\* Correlation or slippage objects, or the call raises: committed.  An order below the
\* minimum, or one whose children all failed, returns without a commit: locked.
NotSent ==
  /\ At("submit")
  /\ \E locked \in BOOLEAN : LeaveSymbol(locked)
  /\ UNCHANGED <<events, enabled, open, req, environment, late>>

Sent ==
  /\ At("submit")
  /\ Goto("persist")
  /\ late' = IF IsTripped THEN late + 1 ELSE late
  /\ UNCHANGED <<events, enabled, open, req, environment>>

\* The position row is committed.
Persists ==
  /\ At("persist")
  /\ open' = open \cup {cycle.sym}
  /\ LeaveSymbol(FALSE)
  /\ UNCHANGED <<events, enabled, req, environment, late>>

\* Mutant: an entry that could not be recorded is tried again, as closes are.
PersistFailsRetries ==
  /\ At("persist")
  /\ Happens
  /\ cycle' = [cycle EXCEPT !.pc = "submit", !.lock = FALSE, !.copy = "expired"]
  /\ UNCHANGED <<events, enabled, open, req, now, late>>

\* The commit fails: the rollback ends the lock and expires the session's objects.
PersistFails ==
  /\ At("persist")
  /\ Happens
  /\ cycle' = [cycle EXCEPT !.pc = "scan", !.sym = NoSymbol, !.lock = FALSE,
                            !.copy = "expired"]
  /\ UNCHANGED <<events, enabled, open, req, now, late>>

\* The worker dies, or an exception leaves run_cycle; the database ends the transaction.
WorkerDies ==
  /\ ~At("idle")
  /\ Happens
  /\ cycle' = NoCycle
  /\ UNCHANGED <<events, enabled, open, req, now, late>>

-----------------------------------------------------------------------------
(* The API requests *)

\* trip, pause and resume read the settings row.
SettingsRead(r) ==
  /\ req[r].op = "none"
  /\ Happens
  /\ \E op \in Ops \ {"reset"} : req' = [req EXCEPT ![r] = [op |-> op, copy |-> enabled]]
  /\ UNCHANGED <<events, enabled, open, cycle, now, late>>

\* reset refuses a tripped breaker that was reset less than an hour ago.
ResetRead(r) ==
  /\ req[r].op = "none"
  /\ "reset" \in Ops
  /\ Happens
  /\ IsTripped => CooledDown
  /\ req' = [req EXCEPT ![r] = [op |-> "reset", copy |-> enabled]]
  /\ UNCHANGED <<events, enabled, open, cycle, now, late>>

Answer(r) == req' = [req EXCEPT ![r] = NoRequest]

\* CircuitBreaker.trip: the event and the cleared flag, in one commit.
TripCommits(r) ==
  /\ req[r].op = "trip"
  /\ RowWritable(req[r].copy, "off")
  /\ Log("tripped")
  /\ enabled' = Written(req[r].copy, "off")
  /\ Answer(r)
  /\ UNCHANGED <<open, cycle, environment, late>>

\* CircuitBreaker.reset: the armed event; the strategy stays as it is.
ResetCommits(r) ==
  /\ req[r].op = "reset"
  /\ Log("armed")
  /\ late' = 0
  /\ Answer(r)
  /\ UNCHANGED <<enabled, open, cycle, environment>>

\* pause and resume of the health API, and is_enabled of PATCH /strategy.
FlagCommits(r) ==
  LET flag == IF req[r].op = "pause" THEN "off" ELSE "on"
  IN  /\ req[r].op \in {"pause", "resume"}
      /\ RowWritable(req[r].copy, flag)
      /\ enabled' = Written(req[r].copy, flag)
      /\ Answer(r)
      /\ UNCHANGED <<events, open, cycle, environment, late>>

-----------------------------------------------------------------------------
(* The specification *)

\* The monitor or an operator closes a position.
Closes(sym) ==
  /\ sym \in open
  /\ open' = open \ {sym}
  /\ UNCHANGED <<events, enabled, cycle, req, environment, late>>

Tick ==
  /\ now < MaxTime
  /\ now' = now + 1
  /\ UNCHANGED <<events, enabled, open, cycle, req, outside, late>>

Init ==
  /\ events = <<>>
  /\ enabled \in Flag
  /\ open \in SUBSET Symbols
  /\ Cardinality(open) <= MaxOpen
  /\ cycle = NoCycle
  /\ req = [r \in Requests |-> NoRequest]
  /\ now = 0
  /\ outside = MaxOutside
  /\ late = 0

ScanStep ==
  \/ \E sym \in Symbols : ScanStarts(sym) \/ ScanSkips(sym)
  \/ FiltersPass \/ FiltersBlock \/ HealthPauses
  \/ BreakerClear \/ BreakerBlocks \/ Approves \/ Rejects
  \/ NotSent \/ Sent \/ Persists
CycleStep ==
  \/ CycleStarts \/ CycleTrips \/ WithinLimits \/ GateOpens \/ GateShut \/ CycleEnds
  \/ ScanStep
Failure == LimitBreached \/ PersistFails \/ WorkerDies
Commits(r) == TripCommits(r) \/ ResetCommits(r) \/ FlagCommits(r)
RequestStep(r) == SettingsRead(r) \/ ResetRead(r) \/ Commits(r)

Next ==
  \/ CycleStep \/ Failure \/ Tick
  \/ \E r \in Requests : RequestStep(r)
  \/ \E sym \in Symbols : Closes(sym)

Spec == Init /\ [][Next]_vars

\* The scheduler starts the cycle again and again and a started cycle runs on; the
\* database hands a row lock that is released to the requests that wait for it.
Fairness == WF_vars(CycleStep) /\ \A r \in Requests : SF_vars(Commits(r))
FairSpec == Spec /\ Fairness

-----------------------------------------------------------------------------
(* Properties *)

\* The variables keep their types.
TypeOK ==
  /\ events \in Seq(Event)
  /\ enabled \in Flag
  /\ open \in SUBSET Symbols
  /\ cycle \in Cycle
  /\ req \in [Requests -> Request]
  /\ now \in 0..MaxTime
  /\ outside \in 0..MaxOutside
  /\ late \in Nat

\* The permit of an entry: approve_entry has seen the breaker armed for it.
Permit == cycle.pc \in {"lock", "submit"}
KS == INSTANCE KillSwitch WITH tripped <- IsTripped, permit <- Permit, late <- late

\* The gates implement the kill switch: whatever requests, failures and restarts come
\* between, every entry sent was cleared by a look at the breaker of its own.
ImplementsKillSwitch == KS!Spec

\* At most one entry is sent after a trip, the one that was under way, until somebody
\* resets the breaker: the rest of the cycle's symbols and later cycles send none.
OneLateEntry == late <= 1

\* Rows and the entry under way never exceed max_open_positions.
UnderWay == cycle.pc \in {"submit", "persist"}
OpenBound == Cardinality(open) + (IF UnderWay THEN 1 ELSE 0) <= MaxOpen

\* From approval to record nobody changes the settings row: a pause, a resume or a trip
\* that has the flag to clear waits for the entry to be recorded or dropped.
EntrySerialised == [][UnderWay /\ UnderWay' => enabled' = enabled]_vars

\* A request is answered, though its commit may wait for a cycle that is awaiting the
\* exchange with the row locked, symbol after symbol.
RequestsAnswered == \A r \in Requests : req[r].op # "none" ~> req[r].op = "none"

\* run_cycle: "New entries require BOTH the env master switch (BOT_ENABLED) and the
\* strategy's own enable flag. If either is off, no new trades are opened".  An entry is
\* approved only while the committed flag is on.
ApprovedEnabled == [][cycle.pc = "lock" /\ cycle'.pc = "submit" => enabled = "on"]_vars

\* reset: "Require a minimum cooldown of 1 hour before allowing re-enable".  A tripped
\* breaker is armed again only an hour or more after the reset before.
CooldownKept == [][IsTripped /\ ~IsTripped' => CooledDown]_vars
=============================================================================
