------------------------------ MODULE PaperBot ------------------------------
(***************************************************************************)
(* The life of the paper account: the worker process (workers/             *)
(* paper_worker.py) that boots, waits, runs an engine, retries and shuts   *)
(* down; the engine's tick loop and entry loop (paper_trading/engine.py)   *)
(* with the risk gate (paper_trading/risk_simulator.py); and the requests  *)
(* of api/v1/paper.py that start, stop, pause and reset it or order by     *)
(* hand.  What an order does to cash and quantities is in PaperBroker.     *)
(***************************************************************************)
EXTENDS Naturals, FiniteSets

CONSTANTS
  N,           \* the number of configured symbols
  Workers,     \* the containers that may run the worker, two during a redeploy
  MaxOpen,     \* max_open_positions
  Autostart,   \* the values paper_autostart_on_boot has in the deployments
  MaxFaults    \* deaths, failing loops and failing refreshes in one behaviour

ASSUME SymbolsAssumption == N \in Nat
ASSUME WorkersAssumption == IsFiniteSet(Workers)
ASSUME SettingsAssumption == MaxOpen \in Nat /\ Autostart \subseteq BOOLEAN
ASSUME FaultsAssumption == MaxFaults \in Nat

VARIABLES
  status,   \* PaperAccount.status, committed
  pauses,   \* the newest "system_paused" log: none, within the cooldown, or older
  rows,     \* the symbols with an open PaperPosition
  proc,     \* per container the worker process
  eng,      \* per container its engines: the one that runs and what an error left
  manual,   \* whether a manual order of the API is under way
  faults,   \* counter bounded by MaxFaults
  wish,     \* history: the user wants it to trade and no limit has paused it since
  ended,    \* history: the last request of the user was to stop or to reset
  late,     \* history: the last symbol's entries ordered since that request
  blind     \* history: a refresh has failed since

store == <<status, pauses, rows>>
history == <<wish, ended, late, blind>>
botVars == <<store, proc, eng, manual, faults, history>>

Symbols == 1..N
Statuses == {"running", "paused", "stopped"}
\* The engine that runs, and what an error left of the one before.
Engines == Workers \X {"cur", "old"}
\* sym is the symbol the pass has come to.
NoEngine == [tick |-> "off", entry |-> "off", sym |-> 0, out |-> 0, seen |-> "stopped",
             running |-> FALSE]
\* start: both loops begin, unless the account it was given is not running.
NewEngine(seen) ==
  IF seen # "running" THEN [NoEngine EXCEPT !.seen = seen]
  ELSE [NoEngine EXCEPT !.seen = seen, !.running = TRUE, !.tick = "listen", !.entry = "sleep"]
NoProcess == [pc |-> "down", seen |-> "stopped", sig |-> FALSE]

Ended(e) == eng[e].tick = "off" /\ eng[e].entry = "off"
\* Until an error closes its session, an engine can refresh the account and fetch candles.
Attached(e) == e[2] = "cur" /\ proc[e[1]].pc \in {"run", "closing"}
LockHeld(e) == eng[e].tick = "exit" \/ eng[e].entry \in {"scan", "gate", "order"}
\* The account's status changes, without a request of the user and with one.
Becomes(st) == status' = st /\ UNCHANGED <<ended, late, blind>>
Requested(st) == status' = st /\ ended' = (st = "stopped") /\ late' = 0 /\ blind' = FALSE
At(w, pc) == proc[w].pc = pc
Goes(w, pc) == proc' = [proc EXCEPT ![w].pc = pc]
Current(w) == <<w, "cur">>
Old(w) == <<w, "old">>

-----------------------------------------------------------------------------
(* paper_worker.main *)

\* The container is started, and started again whenever its process ends.
StartProcess(w) ==
  /\ At(w, "down")
  /\ proc' = [proc EXCEPT ![w] = [NoProcess EXCEPT !.pc = "boot"]]
  /\ UNCHANGED <<store, eng, manual, faults, history>>

BootReads(w) ==
  /\ At(w, "boot")
  /\ proc' = [proc EXCEPT ![w].pc = "decide", ![w].seen = status]
  /\ UNCHANGED <<store, eng, manual, faults, history>>

\* What autostart makes of the status it read; limits that are clear resume a pause.
Autostarts(seen) ==
  (IF TRUE \in Autostart
   THEN CASE seen = "stopped" -> {"running"}
          [] seen = "paused" -> {"paused", "running"}
          [] OTHER -> {seen}
   ELSE {})
    \cup {seen : auto \in Autostart \cap {FALSE}}

\* Then the engine starts, and the stop event is cleared, or the worker waits.
BootDecides(w) ==
  /\ At(w, "decide")
  /\ \E st \in Autostarts(proc[w].seen) :
       /\ IF st = proc[w].seen THEN UNCHANGED status ELSE status' = st
       /\ proc' = [proc EXCEPT ![w].seen = "stopped", ![w].pc = IF st = "running" THEN "run" ELSE "wait",
                               ![w].sig = @ /\ st # "running"]
       /\ eng' = [eng EXCEPT ![Current(w)] = NewEngine(st)]
  /\ UNCHANGED <<pauses, rows, manual, faults, history>>

WaitExits(w) ==
  /\ At(w, "wait") /\ proc[w].sig
  /\ Goes(w, "down")
  /\ UNCHANGED <<store, eng, manual, faults, history>>

WaitSleeps(w) ==
  /\ At(w, "wait") /\ ~proc[w].sig
  /\ Goes(w, "sleep")
  /\ UNCHANGED <<store, eng, manual, faults, history>>

\* After the sleep the account is read again, by a new session if need be; once it runs
\* the worker boots anew, whatever the stop event says.
WaitWakes(w) ==
  /\ At(w, "sleep")
  /\ proc' = [proc EXCEPT ![w].pc = IF status = "running" THEN "boot" ELSE "wait"]
  /\ UNCHANGED <<store, eng, manual, faults, history>>

\* SIGTERM; the handler runs when the process awaits.
Terminate(w) ==
  /\ proc[w].pc \in {"sleep", "run", "backoff"}
  /\ ~proc[w].sig
  /\ proc' = [proc EXCEPT ![w].sig = TRUE]
  /\ UNCHANGED <<store, eng, manual, faults, history>>

\* Mutant: the shutdown stamps the account as stopped.
ClosesStamps(w) ==
  /\ At(w, "run") /\ proc[w].sig
  /\ Goes(w, "closing")
  /\ eng' = [eng EXCEPT ![Current(w)].running = FALSE]
  /\ Becomes("stopped")
  /\ UNCHANGED <<pauses, rows, manual, faults, wish>>

\* engine.stop(set_status=False), then the engine's task is awaited.
Closes(w) ==
  /\ At(w, "run") /\ proc[w].sig
  /\ Goes(w, "closing")
  /\ eng' = [eng EXCEPT ![Current(w)].running = FALSE]
  /\ UNCHANGED <<store, manual, faults, history>>

\* With the process go the loops that an error had left.
ProcessEnds(w) ==
  /\ Goes(w, "down")
  /\ eng' = [e \in Engines |-> IF e[1] = w THEN NoEngine ELSE eng[e]]
  /\ UNCHANGED <<store, manual, history>>

\* The engine has ended: stopped by the user, or for the shutdown.
Exits(w) ==
  /\ proc[w].pc \in {"run", "closing"}
  /\ Ended(Current(w))
  /\ ProcessEnds(w)
  /\ UNCHANGED faults

\* The platform kills what does not end, and anything may die.
Killed(w) == At(w, "closing") /\ ProcessEnds(w) /\ UNCHANGED faults
Dies(w) ==
  /\ ~At(w, "down")
  /\ faults < MaxFaults
  /\ ProcessEnds(w)
  /\ faults' = faults + 1

\* The retry after an error: a new session and a new engine.
Retries(w) ==
  /\ At(w, "backoff")
  /\ eng' = [eng EXCEPT ![Current(w)] = NewEngine(status), ![Old(w)] = eng[Current(w)]]
  /\ Goes(w, "run")
  /\ UNCHANGED <<store, manual, faults, history>>

-----------------------------------------------------------------------------
(* The tick loop *)

\* Every 5 seconds the status is refreshed, outside the lock and for both loops.
TickChecks(e) ==
  /\ eng[e].tick = "listen" /\ Attached(e)
  /\ eng' = [eng EXCEPT ![e].seen = status,
                        ![e].tick = IF status = "running" THEN "listen" ELSE "off"]
  /\ UNCHANGED <<store, proc, manual, faults, history>>

\* The refresh fails, so the copy stays as it is.
RefreshFails(e) ==
  /\ faults < MaxFaults
  /\ faults' = faults + 1
  /\ blind' = ended

TickBlind(e) ==
  /\ eng[e].tick = "listen" /\ Attached(e)
  /\ RefreshFails(e)
  /\ eng' = [eng EXCEPT ![e].tick = IF eng[e].seen = "running" THEN "listen" ELSE "off"]
  /\ UNCHANGED <<store, proc, manual, wish, ended, late>>

\* on_tick under the lock: a stop, target or liquidation level is reached.
TickExits(e, s) ==
  /\ eng[e].tick = "listen" /\ ~LockHeld(e)
  /\ s \in rows
  /\ eng' = [eng EXCEPT ![e].tick = "exit", ![e].out = s]
  /\ UNCHANGED <<store, proc, manual, faults, history>>

\* After the latency the row is closed.
TickBooks(e) ==
  /\ eng[e].tick = "exit"
  /\ rows' = rows \ {eng[e].out}
  /\ eng' = [eng EXCEPT ![e].tick = "listen", ![e].out = 0]
  /\ UNCHANGED <<status, pauses, proc, manual, faults, history>>

\* stream.stop() is only looked at when the connection is gone.
StreamEnds(e) ==
  /\ eng[e].tick = "listen" /\ ~eng[e].running
  /\ eng' = [eng EXCEPT ![e].tick = "off"]
  /\ UNCHANGED <<store, proc, manual, faults, history>>

\* A loop raises: gather gives up the engine, its other loop runs on.  During a shutdown
\* the exception starts main's outer loop over.
Fails(e, failed) ==
  /\ faults < MaxFaults
  /\ faults' = faults + 1
  /\ eng' = [eng EXCEPT ![e] = failed]
  /\ IF ~Attached(e) THEN UNCHANGED proc
     ELSE /\ At(e[1], "run") => Ended(Old(e[1]))
          /\ Goes(e[1], IF At(e[1], "run") THEN "backoff" ELSE "boot")
  /\ UNCHANGED <<store, manual, history>>
TickFails(e) == eng[e].tick # "off" /\ Fails(e, [eng[e] EXCEPT !.tick = "off"])
EntryFails(e) == eng[e].entry # "off" /\ Fails(e, [eng[e] EXCEPT !.entry = "off"])

-----------------------------------------------------------------------------
(* The entry loop *)

\* Mutant: the entry loop trusts the tick loop to refresh the account.
RereadSeen(e) == eng[e].seen

Reread(e) == status

EntryLeaves(e) ==
  /\ eng[e].entry = "sleep" /\ ~eng[e].running
  /\ eng' = [eng EXCEPT ![e].entry = "off"]
  /\ UNCHANGED <<store, proc, manual, faults, history>>

\* A pass goes over all symbols if the account runs, or is resumed after its cooldown.
Pass(e, seen) ==
  [eng EXCEPT ![e].seen = seen,
              ![e].entry = CASE seen = "stopped" -> "off"
                             [] seen = "paused" -> "sleep"
                             [] seen = "running" -> "scan",
              ![e].sym = IF seen = "running" THEN 1 ELSE 0]
Wakes(e) == eng[e].entry = "sleep" /\ eng[e].running /\ ~LockHeld(e)

EntryWakes(e) ==
  /\ Wakes(e) /\ Attached(e)
  /\ eng' = Pass(e, Reread(e))
  /\ UNCHANGED <<store, proc, manual, faults, history>>

EntryBlind(e) ==
  /\ Wakes(e) /\ Attached(e)
  /\ RefreshFails(e)
  /\ eng' = Pass(e, eng[e].seen)
  /\ UNCHANGED <<store, proc, manual, wish, ended, late>>

\* maybe_auto_resume: the newest pause log is old enough and the limits are clear.
AutoResumes(e) ==
  /\ Wakes(e) /\ Attached(e)
  /\ Reread(e) = "paused" /\ pauses = "old"
  /\ Becomes("running")
  /\ eng' = Pass(e, "running")
  /\ UNCHANGED <<pauses, rows, proc, manual, faults, wish>>

\* No open row and no cooldown; then candles, signal and the mirrored gates are awaited.
PassScans(e) ==
  /\ eng[e].entry = "scan" /\ eng[e].sym \in Symbols
  /\ Attached(e)
  /\ eng[e].sym \notin rows
  /\ eng' = [eng EXCEPT ![e].entry = "gate"]
  /\ UNCHANGED <<store, proc, manual, faults, history>>

Onward(e) == [eng EXCEPT ![e].entry = "scan", ![e].sym = @ + 1]
PassSkips(e) ==
  /\ eng[e].entry = "scan" /\ eng[e].sym \in Symbols
  /\ eng' = Onward(e)
  /\ UNCHANGED <<store, proc, manual, faults, history>>

\* approve_signal on the rows as they are now.
Room(s) == Cardinality(rows) < MaxOpen /\ s \notin rows

\* The order is placed; its booking follows after the latency.
PassOrders(e) ==
  /\ eng[e].entry = "gate"
  /\ eng[e].seen = "running" /\ Room(eng[e].sym)
  /\ eng' = [eng EXCEPT ![e].entry = "order"]
  /\ late' = IF ended /\ eng[e].sym = N /\ late <= MaxFaults + 1 THEN late + 1 ELSE late
  /\ UNCHANGED <<store, proc, manual, faults, wish, ended, blind>>

\* A filter or the gate rejects the entry.
PassRejects(e) ==
  /\ eng[e].entry = "gate"
  /\ eng' = Onward(e)
  /\ UNCHANGED <<store, proc, manual, faults, history>>

\* A breached limit pauses the account, whatever its status is by now: stopped, too.
Pauses == Becomes("paused") /\ pauses' = "fresh" /\ wish' = FALSE
PassPauses(e) ==
  /\ eng[e].entry = "gate" /\ eng[e].seen = "running"
  /\ Pauses
  /\ eng' = [Onward(e) EXCEPT ![e].seen = "paused"]
  /\ UNCHANGED <<rows, proc, manual, faults>>

PassBooks(e) ==
  /\ eng[e].entry = "order"
  /\ rows' \in {rows, rows \cup {eng[e].sym}}
  /\ eng' = Onward(e)
  /\ UNCHANGED <<status, pauses, proc, manual, faults, history>>

PassEnds(e) ==
  /\ eng[e].entry = "scan" /\ eng[e].sym > N
  /\ eng' = [eng EXCEPT ![e].entry = "sleep", ![e].sym = 0]
  /\ UNCHANGED <<store, proc, manual, faults, history>>

-----------------------------------------------------------------------------
(* api/v1/paper.py *)

\* start and resume.
UserStarts ==
  /\ Requested("running") /\ wish' = TRUE
  /\ UNCHANGED <<pauses, rows, proc, eng, manual, faults>>

UserStops ==
  /\ Requested("stopped") /\ wish' = FALSE
  /\ UNCHANGED <<pauses, rows, proc, eng, manual, faults>>

UserPauses ==
  /\ Requested("paused") /\ wish' = FALSE
  /\ UNCHANGED <<pauses, rows, proc, eng, manual, faults>>

\* reset deletes rows and logs.
UserResets ==
  /\ Requested("stopped") /\ wish' = FALSE /\ pauses' = "none" /\ rows' = {}
  /\ UNCHANGED <<proc, eng, manual, faults>>

\* manual_order reads a running account and awaits the price; then the same gate, which
\* may pause, and after the latency the booking.
ManualStarts ==
  /\ ~manual /\ status = "running"
  /\ manual' = TRUE
  /\ UNCHANGED <<store, proc, eng, faults, history>>

ManualPauses ==
  /\ manual
  /\ Pauses
  /\ manual' = FALSE
  /\ UNCHANGED <<rows, proc, eng, faults>>

ManualEnds(s) ==
  /\ manual
  /\ rows' \in {rows, rows \cup {s}}
  /\ manual' = FALSE
  /\ UNCHANGED <<status, pauses, proc, eng, faults, history>>

-----------------------------------------------------------------------------
(* The specification *)

\* The cooldown of a pause passes.
PauseAges ==
  /\ pauses = "fresh" /\ pauses' = "old"
  /\ UNCHANGED <<status, rows, proc, eng, manual, faults, history>>

BotInit ==
  /\ status = "stopped" /\ pauses = "none" /\ rows = {}
  /\ proc = [w \in Workers |-> NoProcess]
  /\ eng = [e \in Engines |-> NoEngine]
  /\ manual = FALSE
  /\ faults = 0
  /\ wish = FALSE /\ ended = FALSE /\ late = 0 /\ blind = FALSE

Worker(w) ==
  \/ StartProcess(w) \/ BootReads(w) \/ BootDecides(w) \/ WaitExits(w) \/ WaitSleeps(w)
  \/ WaitWakes(w) \/ Closes(w) \/ Exits(w) \/ Retries(w)
EntryLoop(e) ==
  \/ EntryLeaves(e) \/ EntryWakes(e) \/ PassRejects(e) \/ PassPauses(e) \/ PassBooks(e)
  \/ PassOrders(e) \/ PassEnds(e) \/ PassScans(e) \/ PassSkips(e)
TickLoop(e) ==
  TickChecks(e) \/ TickBooks(e) \/ StreamEnds(e) \/ \E s \in Symbols : TickExits(e, s)
BotRequests ==
  \/ UserStarts \/ UserStops \/ UserPauses \/ UserResets
  \/ ManualStarts \/ ManualPauses \/ \E s \in Symbols : ManualEnds(s)

BotNext ==
  \/ \E w \in Workers : Worker(w) \/ Terminate(w) \/ Killed(w) \/ Dies(w)
  \/ \E e \in Engines :
       \/ TickLoop(e) \/ EntryLoop(e) \/ TickBlind(e) \/ TickFails(e) \/ EntryBlind(e)
       \/ EntryFails(e) \/ AutoResumes(e)
  \/ BotRequests \/ PauseAges

BotSpec == BotInit /\ [][BotNext]_botVars

\* Coroutines run on and the platform restarts the container and kills what hangs.
\* Nothing is assumed of ticks, the market or the user.
BotFairSpec ==
  /\ BotSpec
  /\ \A w \in Workers : WF_botVars(Worker(w)) /\ WF_botVars(Killed(w))
  /\ \A e \in Engines : WF_botVars(EntryLoop(e))

-----------------------------------------------------------------------------
(* Properties *)

EngineType ==
  [tick: {"off", "listen", "exit"}, entry: {"off", "sleep", "scan", "gate", "order"},
   sym: 0..N + 1, out: 0..N, seen: Statuses, running: BOOLEAN]

\* The account, the processes and their engines keep their types, and no loop outlives
\* its process.
BotTypeOK ==
  /\ status \in Statuses /\ pauses \in {"none", "fresh", "old"} /\ rows \subseteq Symbols
  /\ proc \in [Workers -> [pc: {"down", "boot", "decide", "wait", "sleep", "run", "backoff",
                                "closing"}, seen: Statuses, sig: BOOLEAN]]
  /\ eng \in [Engines -> EngineType]
  /\ manual \in BOOLEAN
  /\ faults \in 0..MaxFaults
  /\ wish \in BOOLEAN /\ ended \in BOOLEAN /\ late \in 0..MaxFaults + 2 /\ blind \in BOOLEAN

\* While the user's stop stands, the pass under way may still enter, any symbol once, and
\* once more for each failed loop that left its sibling in a pass; as long as no refresh
\* fails and one container runs.
LateOnce ==
  Cardinality(Workers) = 1 /\ ~blind /\ status = "stopped" => late <= 1 + faults

\* The endpoint answers the user's stop with {"status": "stopped"}.  It need not stand: a
\* pause is written over it from a copy that says "running" and is resumed after its
\* cooldown, and autostart begins again at the next boot.
StopObeyed ==
  Cardinality(Workers) = 1 /\ ~blind => late <= 1 + faults

\* What the user started comes to run in some engine, across redeploys, errors and
\* lost signals, unless it is stopped or paused again.
StartServed == wish ~> (~wish \/ \E w \in Workers : At(w, "run"))

\* engine.start: "Two concurrent loops: ticks drive mark-to-market and stop/TP exits,
\* while a periodic loop evaluates entries".  While the account runs, no entry without the
\* loop that exits.
EntriesHaveExits ==
  \A e \in Engines :
    status = "running" /\ eng[e].running /\ eng[e].entry = "order" => eng[e].tick # "off"
=============================================================================
