---------------------------- MODULE StrategyLab ----------------------------
(***************************************************************************)
(* The strategy lab: the research loop (strategy_research/engine.py), the  *)
(* learning cycle (auto_learning/engine.py) and the operators who promote, *)
(* approve, reject and stop through the API.  Each run and each request    *)
(* works in a session of its own, which keeps the row it read and writes   *)
(* only the columns it changed; every commit is a step.                    *)
(***************************************************************************)
EXTENDS Evaluation

CONSTANTS
  Genomes,       \* the strategies a generator can come up with, by signature
  Family,        \* the template of each
  Parameters,    \* what the indicators of each make of the candles
  Ruin,          \* the ruin probability its Monte Carlo finds
  Histories,     \* how many candles the store may hold at an evaluation
  Versions,      \* what the evaluations find: a genome and its result
  Researchers,   \* runs of the research loop, by the scheduler or the API
  Learners,      \* learning cycles, by the scheduler or the API
  Operators,     \* requests of operators, one at a time each
  Population,    \* how many genomes each run evaluates
  Survivors,     \* research_survivors
  MaxEvents      \* bound: requests of operators, exceptions and deaths of a process

\* What an evaluation may find of each genome: None with too few candles.
Evaluations ==
  {[genome |-> g, result |-> Verdict(Parameters[g], n, Ruin[g])] :
     g \in Genomes, n \in {n \in Histories : n >= MinCandles}}

\* fit: the fitness; sound: the production gate of research passed; worthy: the stages, the
\* promotion gate and the ranking of learning passed; overfit: flagged by cross-validation.
ResultType == [fit : Int, sound : BOOLEAN, worthy : BOOLEAN, overfit : BOOLEAN]

ASSUME LabAssumption ==
  /\ Family \in [Genomes -> {"ema_rsi_atr", "macd", "bollinger_bands"}]
  /\ Parameters \in [Genomes -> ParametersType] /\ Ruin \in [Genomes -> 0..100]
  /\ Histories \subseteq 0..Len(Bars)
  /\ Versions = Evaluations /\ Versions \subseteq [genome : Genomes, result : ResultType]
  /\ IsFiniteSet(Learners) /\ "none" \notin Genomes
  /\ Researchers \cap Learners = {}
  /\ Population \in [Researchers \cup Learners -> Nat]
  /\ Survivors \in Nat /\ MaxEvents \in Nat

VARIABLES
  strategies,  \* research_strategies
  versions,    \* strategy_versions: how many rows there are of each content
  requests,    \* promotion_requests, in the order of their ids
  cycles,      \* learning_cycles: the status of each learner's row
  run,         \* each run: its step, what it evaluated, its copies of the rows
  asked,          \* each operator's request
  events       \* events left

vars == <<strategies, versions, requests, cycles, run, asked, events>>

Runs == Researchers \cup Learners
NoVersion == [genome |-> "none"]
NoRow == [status |-> "none", fit |-> 0, best |-> NoVersion]
NewRow == [NoRow EXCEPT !.status = "candidate"]
Fresh(r) == [pc |-> IF r \in Learners THEN "idle" ELSE "evaluate", left |-> Population[r], evaluated |-> <<>>, ranked |-> FALSE,
             survivors |-> {}, copy |-> [g \in Genomes |-> NoRow]]
Over(r, pc) == [Fresh(r) EXCEPT !.pc = pc, !.left = 0]
NoOp == [pc |-> "idle", request |-> 0, genome |-> "none", copy |-> NoRow, stop |-> {}]

\* A session writes the columns that differ from its copy, whatever the row says by then.
Flush(row, copy, new) ==
  [status |-> IF new.status # copy.status THEN new.status ELSE row.status,
   fit |-> IF new.fit # copy.fit THEN new.fit ELSE row.fit,
   best |-> IF new.best # copy.best THEN new.best ELSE row.best]

Awaiting(g) == {i \in DOMAIN requests : requests[i].genome = g /\ requests[i].status = "awaiting"}

Current(r) == run[r].evaluated[Len(run[r].evaluated)]
At(r, pc) == run[r].pc = pc
Goto(r, pc) == run' = [run EXCEPT ![r].pc = pc]
\* On to the next candidate of a cycle.
GoOn(l) == run' = [run EXCEPT ![l].pc = "evaluate", ![l].evaluated = <<>>]

Asides == UNCHANGED <<asked, events>>

-----------------------------------------------------------------------------
(* An evaluation: strategy_research/repository.py, one commit at a time *)

\* The research loop tries every family, the cycle evolves ema_rsi_atr only (a mutant of a
\* version of another family, filed as ema_rsi_atr with foreign names, is left out).
Candidates(r) ==
  IF r \in Researchers THEN Genomes ELSE {g \in Genomes : Family[g] = "ema_rsi_atr"}

\* The backtests judge a genome, then its row is read, unless the session still holds it: the
\* loop holds every row of its generation, the cycle the row of its last candidate.
Evaluate(r) ==
  /\ At(r, "evaluate") /\ run[r].left > 0
  /\ \E v \in {v \in Versions : v.genome \in Candidates(r)} :
       LET g == v.genome
           me == run[r]
           held == IF me.copy[g] = NoRow THEN strategies[g] ELSE me.copy[g] IN
       run' = [run EXCEPT ![r] =
         [me EXCEPT !.left = me.left - 1,
                    !.evaluated = Append(me.evaluated, v),
                    !.pc = IF held = NoRow THEN "create" ELSE "version",
                    !.copy = IF r \in Researchers THEN [me.copy EXCEPT ![g] = held]
                             ELSE [h \in Genomes |-> IF h = g THEN held ELSE NoRow]]]
  /\ UNCHANGED <<strategies, versions, requests, cycles>> /\ Asides

\* runner.evaluate answers None when the store holds too few candles.
NoData(r) ==
  /\ At(r, "evaluate") /\ run[r].left > 0 /\ \E n \in Histories : n < MinCandles
  /\ run' = [run EXCEPT ![r].left = @ - 1]
  /\ UNCHANGED <<strategies, versions, requests, cycles>> /\ Asides

\* The insert of a signature another session inserted meanwhile fails.  A learner's handler
\* commits in the session it must roll back first: its cycle keeps the status it had.
Create(r) ==
  /\ At(r, "create")
  /\ LET g == Current(r).genome IN
     IF strategies[g] = NoRow
     THEN /\ strategies' = [strategies EXCEPT ![g] = NewRow]
          /\ run' = [run EXCEPT ![r].pc = "version", ![r].copy[g] = NewRow]
     ELSE run' = [run EXCEPT ![r] = Over(r, "broken")] /\ UNCHANGED strategies
  /\ UNCHANGED <<versions, requests, cycles>> /\ Asides

AddVersion(r) ==
  /\ At(r, "version")
  /\ LET e == Current(r)
         g == e.genome
         copy == run[r].copy[g]
         new == IF copy.best = NoVersion \/ e.result.fit > copy.fit
                THEN [copy EXCEPT !.fit = e.result.fit, !.best = e] ELSE copy
     IN  /\ versions' = [versions EXCEPT ![e] = @ + 1]
         /\ strategies' = [strategies EXCEPT ![g] = Flush(@, copy, new)]
         /\ run' = [run EXCEPT ![r].pc = IF r \in Learners THEN "judge" ELSE "evaluate",
                               ![r].copy[g] = new]
  /\ UNCHANGED <<requests, cycles>> /\ Asides

-----------------------------------------------------------------------------
(* The research loop: run_experiments *)

\* The best of the generation by fitness, the earlier of two equals.
Ahead(e, i) ==
  {j \in DOMAIN e : \/ e[j].result.fit > e[i].result.fit
                    \/ e[j].result.fit = e[i].result.fit /\ j < i}
Surviving(e) == {i \in DOMAIN e : Cardinality(Ahead(e, i)) < Survivors}

\* Neighbours of one family among the survivors.
Couples(e) ==
  {i \in Surviving(e) : \E j \in Surviving(e) :
     /\ Cardinality(Ahead(e, j)) = Cardinality(Ahead(e, i)) + 1
     /\ Family[e[i].genome] = Family[e[j].genome]}

\* Each couple breeds a child, which is evaluated but does not compete.
Rank(r) ==
  /\ r \in Researchers /\ At(r, "evaluate") /\ run[r].left = 0 /\ ~run[r].ranked
  /\ LET e == run[r].evaluated IN
     run' = [run EXCEPT ![r] =
       IF e = <<>> THEN Over(r, "over")
       ELSE [@ EXCEPT !.ranked = TRUE, !.survivors = Surviving(e), !.left = Cardinality(Couples(e))]]
  /\ UNCHANGED <<strategies, versions, requests, cycles>> /\ Asides

\* The run is over with its last survivor.
Crown(r, i, g, new) ==
  LET me == run[r] IN
  run' = [run EXCEPT ![r] = IF me.survivors = {i} THEN Over(r, "over")
                            ELSE [me EXCEPT !.survivors = me.survivors \ {i}, !.copy[g] = new]]

\* Mutant: the best of the generation are promoted whatever the gate says.
PromoteBest(r) ==
  /\ r \in Researchers /\ At(r, "evaluate") /\ run[r].left = 0 /\ run[r].ranked
  /\ \E i \in run[r].survivors :
       LET g == run[r].evaluated[i].genome
           copy == run[r].copy[g]
           new == [copy EXCEPT !.status = "promoted"]
       IN  /\ Ahead(run[r].evaluated, i) \cap run[r].survivors = {}
           /\ strategies' = [strategies EXCEPT ![g] = Flush(@, copy, new)]
           /\ Crown(r, i, g, new)
  /\ UNCHANGED <<versions, requests, cycles>> /\ Asides

\* A survivor that clears the production gate is promoted, by nobody's decision.
Promote(r) ==
  /\ r \in Researchers /\ At(r, "evaluate") /\ run[r].left = 0 /\ run[r].ranked
  /\ \E i \in run[r].survivors :
       LET e == run[r].evaluated[i]
           copy == run[r].copy[e.genome]
           new == IF e.result.sound THEN [copy EXCEPT !.status = "promoted"] ELSE copy
       IN  /\ Ahead(run[r].evaluated, i) \cap run[r].survivors = {}
           /\ strategies' = [strategies EXCEPT ![e.genome] = Flush(@, copy, new)]
           /\ Crown(r, i, e.genome, new)
  /\ UNCHANGED <<versions, requests, cycles>> /\ Asides

-----------------------------------------------------------------------------
(* The learning cycle: run_cycle *)

StartCycle(l) ==
  /\ l \in Learners /\ At(l, "idle")
  /\ cycles' = [cycles EXCEPT ![l] = "running"]
  /\ Goto(l, "evolve")
  /\ UNCHANGED <<strategies, versions, requests>> /\ Asides

\* The two best versions known, which evolve() crosses as ema_rsi_atr genomes: no version that
\* is left, of those cross-validation let pass, is fitter.
Left(p, v) == versions[v] - Cardinality({k \in {1, 2} : p[k] = v})
Known == {v \in Versions : ~v.result.overfit /\ versions[v] > 0}
Parents ==
  {p \in Known \X Known : \A v \in Known :
     /\ Left(p, v) >= 0
     /\ Left(p, v) > 0 => \A k \in {1, 2} : v.result.fit <= p[k].result.fit}
Foreign(p) == {k \in {1, 2} : Family[p[k].genome] # "ema_rsi_atr"}

\* The parameters of another family have none of the names that only ema_rsi_atr has: the
\* crossover raises if it looks for one in them, and it does if both parents are foreign.
Evolve(l) ==
  /\ l \in Learners /\ At(l, "evolve")
  /\ Parents = {} \/ \E p \in Parents : Foreign(p) # {1, 2}
  /\ Goto(l, "evaluate")
  /\ UNCHANGED <<strategies, versions, requests, cycles>> /\ Asides

\* Mutant: the cycle's row is left as it was.
FailUnmarked(l) ==
  /\ run' = [run EXCEPT ![l] = Over(l, "over")]
  /\ UNCHANGED <<strategies, versions, requests, cycles>>

\* The handler of run_cycle; the exception goes on to the scheduler or the API.
Fail(l) ==
  /\ run' = [run EXCEPT ![l] = Over(l, "over")]
  /\ cycles' = [cycles EXCEPT ![l] = "failed"]
  /\ UNCHANGED <<strategies, versions, requests>>

CrossoverFails(l) ==
  /\ l \in Learners /\ At(l, "evolve")
  /\ \E p \in Parents : Foreign(p) # {}
  /\ Fail(l) /\ Asides

\* Mutant: the waiting request is not looked for.
JudgeAlone(l) ==
  /\ l \in Learners /\ At(l, "judge")
  /\ IF Current(l).result.worthy THEN Goto(l, "request") ELSE GoOn(l)
  /\ UNCHANGED <<strategies, versions, requests, cycles>> /\ Asides

\* A worthy candidate becomes a request, unless one already waits for its strategy.
Judge(l) ==
  /\ l \in Learners /\ At(l, "judge")
  /\ LET e == Current(l) IN
     IF e.result.worthy /\ Awaiting(e.genome) = {} THEN Goto(l, "request") ELSE GoOn(l)
  /\ UNCHANGED <<strategies, versions, requests, cycles>> /\ Asides

Request(l) ==
  /\ l \in Learners /\ At(l, "request")
  /\ requests' = Append(requests, [genome |-> Current(l).genome, status |-> "awaiting"])
  /\ GoOn(l)
  /\ UNCHANGED <<strategies, versions, cycles>> /\ Asides

\* The learner's copy of its row says running: the write overwrites a stop.
FinishCycle(l) ==
  /\ l \in Learners /\ At(l, "evaluate") /\ run[l].left = 0
  /\ cycles' = [cycles EXCEPT ![l] = "completed"]
  /\ run' = [run EXCEPT ![l] = Over(l, "over")]
  /\ UNCHANGED <<strategies, versions, requests>> /\ Asides

-----------------------------------------------------------------------------
(* The operators: one request each, read then committed *)

Ask(o, what) ==
  /\ asked[o] = NoOp /\ events > 0 /\ events' = events - 1
  /\ asked' = [asked EXCEPT ![o] = what]
  /\ UNCHANGED <<strategies, versions, requests, cycles, run>>

\* Approval takes the newest request awaiting for the strategy, rejection the one named.
ReadApproval(o) ==
  \E g \in Genomes : \E i \in Awaiting(g) :
    /\ \A j \in Awaiting(g) : j <= i
    /\ Ask(o, [pc |-> "approve", request |-> i, genome |-> g, copy |-> strategies[g], stop |-> {}])

ReadRejection(o) ==
  \E g \in Genomes : \E i \in Awaiting(g) :
    Ask(o, [pc |-> "reject", request |-> i, genome |-> g, copy |-> strategies[g], stop |-> {}])

ReadPromotion(o) ==
  \E g \in Genomes :
    /\ strategies[g].best # NoVersion
    /\ Ask(o, [pc |-> "promote", request |-> 0, genome |-> g, copy |-> strategies[g], stop |-> {}])

ReadStop(o) ==
  LET running == {l \in Learners : cycles[l] = "running"} IN
  /\ running # {}
  /\ Ask(o, [NoOp EXCEPT !.pc = "stop", !.stop = running])

SetStatus(o, status) ==
  LET w == asked[o] IN
  strategies' = [strategies EXCEPT ![w.genome] = Flush(@, w.copy, [w.copy EXCEPT !.status = status])]

Decided(o) ==
  /\ asked' = [asked EXCEPT ![o] = NoOp]
  /\ UNCHANGED <<versions, run, events>>

\* approve_promotion and reject_promotion: the request was awaiting when it was read.
Approve(o) ==
  /\ asked[o].pc = "approve" /\ Decided(o)
  /\ requests' = [requests EXCEPT ![asked[o].request].status = "approved"]
  /\ SetStatus(o, "promoted") /\ UNCHANGED cycles

Reject(o) ==
  /\ asked[o].pc = "reject" /\ Decided(o)
  /\ requests' = [requests EXCEPT ![asked[o].request].status = "rejected"]
  /\ SetStatus(o, "rejected") /\ UNCHANGED cycles

\* promote_to_production judges the best version the row named when it was read.
PromoteOnRequest(o) ==
  /\ asked[o].pc = "promote" /\ Decided(o)
  /\ SetStatus(o, IF asked[o].copy.best.result.sound THEN "promoted" ELSE "rejected")
  /\ UNCHANGED <<requests, cycles>>

Stop(o) ==
  /\ asked[o].pc = "stop" /\ Decided(o)
  /\ cycles' = [l \in Learners |-> IF l \in asked[o].stop THEN "stopped" ELSE cycles[l]]
  /\ UNCHANGED <<strategies, requests>>

-----------------------------------------------------------------------------
(* Faults *)

Working(r) == run[r].pc \notin {"idle", "over", "broken"}
Spend == events > 0 /\ events' = events - 1 /\ UNCHANGED asked

\* Anything in the cycle raises, the miners included.
Raise(l) == l \in Learners /\ Working(l) /\ Fail(l) /\ Spend

\* The process dies, or a statement fails and leaves the session to be rolled back.
Break(r) ==
  /\ Working(r) /\ Spend
  /\ run' = [run EXCEPT ![r] = Over(r, "broken")]
  /\ UNCHANGED <<strategies, versions, requests, cycles>>

-----------------------------------------------------------------------------
Init ==
  /\ strategies = [g \in Genomes |-> NoRow]
  /\ versions = [v \in Versions |-> 0] /\ requests = <<>>
  /\ cycles = [l \in Learners |-> "none"]
  /\ run = [r \in Runs |-> Fresh(r)]
  /\ asked = [o \in Operators |-> NoOp]
  /\ events = MaxEvents

Store(r) == Evaluate(r) \/ NoData(r) \/ Create(r) \/ AddVersion(r)
Research(r) == Rank(r) \/ Promote(r)
Learn(l) ==
  \/ Evolve(l) \/ CrossoverFails(l) \/ Judge(l) \/ Request(l) \/ FinishCycle(l)
Operate(o) ==
  \/ ReadApproval(o) \/ ReadRejection(o) \/ ReadPromotion(o) \/ ReadStop(o)
  \/ Approve(o) \/ Reject(o) \/ PromoteOnRequest(o) \/ Stop(o)

Next ==
  \/ \E r \in Runs : Store(r) \/ Research(r) \/ Learn(r) \/ Break(r)
  \/ \E r \in Runs : StartCycle(r) \/ Raise(r)
  \/ \E o \in Operators : Operate(o)

Spec == Init /\ [][Next]_vars

-----------------------------------------------------------------------------
RowType ==
  [status : {"none", "candidate", "promoted", "rejected"}, fit : Int,
   best : Versions \cup {NoVersion}]

RunType ==
  [pc : {"idle", "evolve", "evaluate", "create", "version", "judge", "request", "over", "broken"},
   left : Nat, evaluated : Seq(Versions), ranked : BOOLEAN, survivors : SUBSET Nat,
   copy : [Genomes -> RowType]]
RequestType == [genome : Genomes, status : {"awaiting", "approved", "rejected"}]
AskType ==
  [pc : {"idle", "approve", "reject", "promote", "stop"}, request : Nat,
   genome : Genomes \cup {"none"}, copy : RowType, stop : SUBSET Learners]

TypeOK ==
  /\ strategies \in [Genomes -> RowType]
  /\ versions \in [Versions -> Nat]
  /\ requests \in Seq(RequestType)
  /\ cycles \in [Learners -> {"none", "running", "completed", "failed", "stopped"}]
  /\ run \in [Runs -> RunType]
  /\ asked \in [Operators -> AskType]
  /\ events \in 0..MaxEvents

Passed(g) ==
  \E v \in Versions : v.genome = g /\ versions[v] > 0 /\ (v.result.sound \/ v.result.worthy)

\* Whatever stale rows the sessions write back, a strategy is promoted only if one of its own
\* versions passed a gate (auto_learning/engine.py:8: "a passing candidate").
PromotedPassed == \A g \in Genomes : strategies[g].status = "promoted" => Passed(g)

\* Checking for a waiting request and inserting one are two transactions: each cycle in
\* progress can add one more, but no strategy ever has more of them than there are cycles.
AwaitingBounded == \A g \in Genomes : Cardinality(Awaiting(g)) <= Cardinality(Learners)

\* Only the death of its process or of its session leaves a cycle's row running: whatever else
\* raises, and whoever stops it meanwhile, its run ends with the row closed
\* (auto_learning/engine.py:119: "keep the cycle auditable on failure").
CycleClosed == \A l \in Learners : cycles[l] = "running" => run[l].pc # "over"
=============================================================================
