----------------------------- MODULE Operations -----------------------------
(***************************************************************************)
(* The deployment the other modules run in: the API and the scheduler,     *)
(* which boot together over one database (db/init_db.py under a Postgres   *)
(* advisory lock, then startup recovery in the scheduler), the heartbeat   *)
(* of the scheduler, the API's watchdog over it, and the candle jobs of    *)
(* DataFeed in the processes that run them.  Any process may die at any    *)
(* step and is started again; the paper worker, which never calls init_db, *)
(* only writes paper data.                                                 *)
(***************************************************************************)
EXTENDS DataFeed

CONSTANT Tries      \* attempts at the migration lock (6 in the code)

ASSUME TriesAssumption == Tries \in Nat \ {0}

VARIABLES
  schema,     \* "none": an empty database; "legacy": tables without alembic_version; "head"
  marker,     \* the row paper_cleanup_done is in strategy_settings
  paper,      \* the paper tables hold trades
  holder,     \* the process whose connection holds the advisory lock
  boot,       \* each process: its place in the boot sequence and the lock attempts left
  beat,       \* the scheduler's heartbeat row: "none", "fresh" or "stale"
  watch,      \* the watchdog's was_stale: "off", "unknown", "alive" or "silent"
  told        \* what the watchdog last reported since the API started

opsVars == <<schema, marker, paper, holder, boot, beat, watch, told>>
vars == <<feedVars, events, opsVars>>

Processes == {"api", "scheduler"}
Free == "nobody"
Down == [pc |-> "down", tries |-> 0]
Pcs == {"down", "try", "sync", "wipe", "mark", "recover", "preflight", "up", "failed", "stuck"}

Is(p, pc) == boot[p].pc = pc
Goes(p, pc) == boot' = [boot EXCEPT ![p].pc = pc]
Host(j) == IF j = "ingest" THEN "scheduler" ELSE "api"
Migrating(p) == Is(p, "sync") \/ Is(p, "wipe") \/ Is(p, "mark")
IsUp(p) == Is(p, "up") \/ Is(p, "failed")

-----------------------------------------------------------------------------
(* init_db *)

\* Where a process is once init_db is over.  The API starts the watchdog only after an init_db
\* that raised nothing; the scheduler goes on either way.
Initialised(p) ==
  /\ Goes(p, IF p = "api" THEN "up" ELSE "recover")
  /\ watch' = IF p = "api" THEN "unknown" ELSE watch

NotInitialised(p) == Goes(p, IF p = "api" THEN "failed" ELSE "recover") /\ UNCHANGED watch

Start(p) ==
  /\ Is(p, "down")
  /\ boot' = [boot EXCEPT ![p] = [pc |-> "try", tries |-> Tries]]
  /\ UNCHANGED <<schema, marker, paper, holder, beat, watch, told>>

\* Mutant: the answer of pg_try_advisory_lock is not looked at.
TryLockAlways(p) ==
  /\ Is(p, "try")
  /\ holder' = p /\ Goes(p, "sync")
  /\ UNCHANGED <<schema, marker, paper, beat, watch, told>>

TryLock(p) ==
  /\ Is(p, "try") /\ holder = Free
  /\ holder' = p /\ Goes(p, "sync")
  /\ UNCHANGED <<schema, marker, paper, beat, watch, told>>

\* The lock is taken: wait, and after the last attempt go on without a migration.
LockBusy(p) ==
  /\ Is(p, "try") /\ holder \notin {Free, p}
  /\ IF boot[p].tries > 1
     THEN boot' = [boot EXCEPT ![p].tries = @ - 1] /\ UNCHANGED watch
     ELSE Initialised(p)
  /\ UNCHANGED <<schema, marker, paper, holder, beat, told>>

\* upgrade, one transaction, or stamp.  A database that was tracked already is cleaned only if
\* the marker is missing, which is read after the upgrade.
Migrate(p) ==
  /\ Is(p, "sync")
  /\ schema' = "head"
  /\ IF schema = "head" /\ marker
     THEN Initialised(p) /\ holder' = Free
     ELSE Goes(p, "wipe") /\ UNCHANGED <<holder, watch>>
  /\ UNCHANGED <<marker, paper, beat, told>>

\* _cleanup_paper_data and _mark_cleanup_done are two transactions.
Wipe(p) ==
  /\ Is(p, "wipe")
  /\ paper' = FALSE /\ Goes(p, "mark")
  /\ UNCHANGED <<schema, marker, holder, beat, watch, told>>

Mark(p) ==
  /\ Is(p, "mark")
  /\ marker' = TRUE /\ holder' = Free /\ Initialised(p)
  /\ UNCHANGED <<schema, paper, beat, told>>

\* Mutant: the unlock is not in the finally.
InitFailsHolding(p) ==
  /\ Migrating(p)
  /\ UNCHANGED holder /\ NotInitialised(p)
  /\ UNCHANGED <<schema, marker, paper, beat, told>>

\* A statement of the sync raises: finally gives the lock back and both callers catch.
InitFails(p) ==
  /\ Migrating(p)
  /\ holder' = Free /\ NotInitialised(p)
  /\ UNCHANGED <<schema, marker, paper, beat, told>>

-----------------------------------------------------------------------------
(* The scheduler's main *)

\* startup_recovery is not guarded: without tables it ends the process.  After it the first
\* heartbeat is written.
Recover ==
  /\ Is("scheduler", "recover")
  /\ IF schema = "none"
     THEN boot' = [boot EXCEPT !["scheduler"] = Down] /\ UNCHANGED beat
     ELSE Goes("scheduler", "preflight") /\ beat' = "fresh"
  /\ UNCHANGED <<schema, marker, paper, holder, watch, told>>

\* The preflight only reports; then the jobs are scheduled.
Preflight ==
  /\ Is("scheduler", "preflight") /\ Goes("scheduler", "up")
  /\ UNCHANGED <<schema, marker, paper, holder, beat, watch, told>>

\* run_cycle ends, well or not, with a heartbeat.
Cycle ==
  /\ Is("scheduler", "up")
  /\ beat' = "fresh"
  /\ UNCHANGED <<schema, marker, paper, holder, boot, watch, told>>

-----------------------------------------------------------------------------
(* worker_watchdog_loop *)

Observed == IF beat = "fresh" THEN "alive" ELSE "silent"

\* Mutant: a missing or old heartbeat is a baseline at every poll.
EventPrimes(was, now) == IF was = "silent" /\ now = "alive" THEN "recovered" ELSE told

\* next_alert_event, from the state of the last poll and what is seen now.
Event(was, now) ==
  IF was = "alive" /\ now = "silent" THEN "down"
  ELSE IF was = "silent" /\ now = "alive" THEN "recovered"
  ELSE told

Poll ==
  /\ watch # "off"
  /\ watch' = Observed /\ told' = Event(watch, Observed)
  /\ UNCHANGED <<schema, marker, paper, holder, boot, beat>>

-----------------------------------------------------------------------------
(* What happens to them *)

\* The process dies: its connection gives the lock back, its jobs are rolled back, and with
\* the API goes the state of the watchdog.
Crash(p) ==
  /\ ~Is(p, "down")
  /\ boot' = [boot EXCEPT ![p] = Down]
  /\ holder' = IF holder = p THEN Free ELSE holder
  /\ watch' = IF p = "api" THEN "off" ELSE watch
  /\ told' = IF p = "api" THEN "nothing" ELSE told
  /\ feed' = [j \in Jobs |-> IF Host(j) = p THEN Idle ELSE feed[j]]
  /\ UNCHANGED <<schema, marker, paper, beat, closed, forming, clean, hist>>

\* A call that never returns: in the scheduler's event loop, or alembic's own connection, which
\* waits for a free slot of the database while the process holds the lock.
Hang(p) ==
  /\ Is(p, "sync") \/ (p = "scheduler" /\ Is(p, "up"))
  /\ Goes(p, "stuck")
  /\ UNCHANGED <<schema, marker, paper, holder, beat, watch, told>>

\* No heartbeat for longer than the threshold.
Age ==
  /\ beat = "fresh" /\ beat' = "stale"
  /\ UNCHANGED <<schema, marker, paper, holder, boot, watch, told>>

PaperTrade ==
  /\ schema # "none" /\ ~paper /\ paper' = TRUE
  /\ UNCHANGED <<schema, marker, holder, boot, beat, watch, told>>

-----------------------------------------------------------------------------
Boot(p) == Start(p) \/ TryLock(p) \/ LockBusy(p) \/ Migrate(p) \/ Wipe(p) \/ Mark(p)

Works(j) == IsUp(Host(j)) /\ schema # "none"

Operate == (\E p \in Processes : Boot(p)) \/ Recover \/ Preflight \/ Cycle \/ Poll
Disturb == (\E p \in Processes : InitFails(p) \/ Hang(p)) \/ Age \/ PaperTrade

Next ==
  \/ Operate /\ UNCHANGED <<feedVars, events>>
  \/ Disturb /\ Spend /\ UNCHANGED feedVars
  \/ (\E p \in Processes : Crash(p)) /\ Spend
  \/ /\ \/ Ingest /\ Works("ingest")
        \/ Garbled /\ Works("ingest")
        \/ Load /\ Works("load")
        \/ Market
        \/ \E j \in Jobs : Works(j) /\ (Request(j) \/ Serve(j) \/ Fault(j))
     /\ UNCHANGED opsVars

Init ==
  /\ FeedInit /\ events = MaxEvents
  /\ schema \in {"none", "legacy"} /\ marker = FALSE /\ paper \in BOOLEAN
  /\ schema = "none" => ~paper
  /\ holder = Free /\ boot = [p \in Processes |-> Down]
  /\ beat = "none" /\ watch = "off" /\ told = "nothing"

\* Railway starts a process that is down; a process goes on with its boot; the interval jobs
\* and the watchdog's loop run for as long as their process.
Fairness ==
  /\ \A p \in Processes : WF_vars(Boot(p) /\ UNCHANGED <<feedVars, events>>)
  /\ WF_vars((Recover \/ Preflight) /\ UNCHANGED <<feedVars, events>>)
  /\ WF_vars(Cycle /\ UNCHANGED <<feedVars, events>>)
  /\ WF_vars(Poll /\ UNCHANGED <<feedVars, events>>)
  /\ WF_vars(Ingest /\ Works("ingest") /\ UNCHANGED opsVars)

Spec == Init /\ [][Next]_vars /\ Fairness

-----------------------------------------------------------------------------
TypeOK ==
  /\ FeedTypeOK
  /\ schema \in {"none", "legacy", "head"} /\ marker \in BOOLEAN /\ paper \in BOOLEAN
  /\ holder \in Processes \cup {Free}
  /\ boot \in [Processes -> [pc : Pcs, tries : 0..Tries]]
  /\ beat \in {"none", "fresh", "stale"}
  /\ watch \in {"off", "unknown", "alive", "silent"}
  /\ told \in {"nothing", "down", "recovered"}

\* Two processes never migrate, stamp or clean at the same time, whoever dies, fails or gives up
\* waiting (init_db.py:22-25, "two concurrent runs race and one fails").
OneMigrator == \A p, q \in Processes : Migrating(p) /\ Migrating(q) => p = q

\* Once the cleanup is marked as done, no boot deletes paper trades again, whoever boots beside
\* whom, dies or runs out of attempts (init_db.py:130-138, "re-wiping paper data every boot").
OneWipe == [][marker /\ paper => paper']_vars

\* Whatever fails in the boots, the scheduler ends up running: the lock comes free and the
\* tables come to be (init_db.py:29-31, "waits forever on a lock that never releases").  It
\* does not if it hangs itself, or if the API hangs with the lock before there are tables.
WorkerComesUp ==
  <>[](\/ Is("scheduler", "up") \/ Is("scheduler", "stuck")
       \/ Is("api", "stuck") /\ schema = "none")

\* A worker the watchdog has seen alive and that falls silent is reported, unless it beats
\* again or the API dies first (watchdog.py:3-5).
SilenceReported ==
  watch = "alive" /\ beat = "stale" ~> told = "down" \/ beat = "fresh" \/ watch = "off"

\* However the price jumps and whatever job fails or process dies, every closed bar that a
\* request still covers becomes historical while the worker runs, and what was fetched after
\* it closed is its final close (ingestion.py:3, "continuously fed").  With spikes in the
\* mode "ignore" it does not: one real jump, and no later bar is emitted.
BarsArrive ==
  <>[](CaughtUp \/ Is("scheduler", "stuck") \/ (Is("api", "stuck") /\ schema = "none"))

\* ingestion.py:1 "upsert into historical_candles": a bar stored while it was forming gets its
\* final close once it has closed.  Not kept: a row that is there is passed over, so it keeps
\* the close of the moment it was fetched for good.
BarsFinal ==
  <>[](\A b \in DOMAIN closed \cap DOMAIN hist : Final(b) \/ Uploaded(b))
=============================================================================
