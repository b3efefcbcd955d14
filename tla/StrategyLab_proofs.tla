------------------------- MODULE StrategyLab_proofs -------------------------
(***************************************************************************)
(* Proofs about StrategyLab, for every set of genomes, histories, runs and *)
(* operators and every population: the types, what a promotion rests on,   *)
(* the bound on waiting requests and the closing of the cycles' rows.      *)
(***************************************************************************)
EXTENDS StrategyLab, FiniteSetTheorems, SequenceTheorems, TLAPS

-----------------------------------------------------------------------------
(* The inductive invariant *)

PassedIn(g, vs) ==
  \E v \in Versions : v.genome = g /\ vs[v] > 0 /\ (v.result.sound \/ v.result.worthy)

\* A row, or a session's copy of one, names a recorded version of its own strategy and says
\* promoted only of a strategy that passed.
RowSound(g, row, vs) ==
  /\ row.best # NoVersion => row.best.genome = g /\ vs[row.best] > 0
  /\ row.status = "promoted" => PassedIn(g, vs)

\* What a run evaluated is recorded, but for the candidate at hand.
RunSound(r, me, vs) ==
  /\ \A g \in Genomes : RowSound(g, me.copy[g], vs)
  /\ \A i \in 1..Len(me.evaluated) :
       vs[me.evaluated[i]] > 0 \/ (me.pc \in {"create", "version"} /\ i = Len(me.evaluated))
  /\ me.survivors \subseteq 1..Len(me.evaluated) /\ (r \in Learners => me.survivors = {})
  /\ me.pc \in {"create", "version", "judge", "request"} => me.evaluated # <<>>
  /\ me.pc = "request" => r \in Learners /\ me.evaluated[Len(me.evaluated)].result.worthy

\* An operator decides on what passed, and promotes a strategy that has a version.
AskSound(what, vs) ==
  /\ what.pc \in {"approve", "reject", "promote"} =>
       what.genome \in Genomes /\ RowSound(what.genome, what.copy, vs)
  /\ what.pc \in {"approve", "reject"} => PassedIn(what.genome, vs)
  /\ what.pc = "promote" => what.copy.best # NoVersion

\* The cycles about to insert a request for a strategy.
Asking(g) == {l \in Learners : At(l, "request") /\ Current(l).genome = g}

RowsSound == \A g \in Genomes : RowSound(g, strategies[g], versions)
RunsSound == \A r \in Runs : RunSound(r, run[r], versions)
AsksSound == \A o \in Operators : AskSound(asked[o], versions)
RequestsSound == \A i \in DOMAIN requests : PassedIn(requests[i].genome, versions)
\* No request is inserted but by a cycle that found none waiting.
RequestsBounded ==
  \A g \in Genomes : Cardinality(Awaiting(g)) + Cardinality(Asking(g)) <= Cardinality(Learners)

LabInv ==
  TypeOK /\ RowsSound /\ RunsSound /\ AsksSound /\ RequestsSound /\ RequestsBounded /\ CycleClosed

LEMMA RowsAreTyped ==
  /\ NoRow \in RowType /\ NewRow \in RowType
  /\ \A row, copy, new \in RowType : Flush(row, copy, new) \in RowType
BY DEF NoRow, NewRow, RowType, Flush, NoVersion

\* A run before its first step and after its last.
LEMMA RunsAreTyped ==
  ASSUME NEW r \in Runs
  PROVE  Fresh(r) \in RunType /\ Over(r, "over") \in RunType /\ Over(r, "broken") \in RunType
<1>1. Population[r] \in Nat /\ [g \in Genomes |-> NoRow] \in [Genomes -> RowType] /\ <<>> \in Seq(Versions)
  BY LabAssumption, RowsAreTyped DEF Runs
<1>2. Fresh(r) \in RunType
  BY <1>1 DEF Fresh, RunType
<1> QED BY <1>2 DEF Over, RunType

LEMMA TypeInit == Init => TypeOK
<1> SUFFICES ASSUME Init PROVE TypeOK
  OBVIOUS
<1>1. run \in [Runs -> RunType]
  BY RunsAreTyped DEF Init
<1>2. asked \in [Operators -> AskType]
  BY RowsAreTyped DEF Init, NoOp, AskType
<1>3. strategies \in [Genomes -> RowType]
  BY RowsAreTyped DEF Init
<1> QED BY <1>1, <1>2, <1>3, LabAssumption DEF Init, TypeOK, RequestType

\* A step of one run that leaves its record typed leaves them all typed.
LEMMA RunTypes ==
  ASSUME run \in [Runs -> RunType], NEW r \in Runs, NEW new \in RunType,
         run' = [run EXCEPT ![r] = new]
  PROVE  run' \in [Runs -> RunType] /\ run'[r] = new /\ \A q \in Runs \ {r} : run'[q] = run[q]
OBVIOUS

-----------------------------------------------------------------------------
(* What the parts of the invariant survive *)

LEMMA SoundStays ==
  ASSUME NEW vs \in [Versions -> Nat], NEW ws \in [Versions -> Nat],
         \A v \in Versions : ws[v] >= vs[v]
  PROVE  /\ \A g \in Genomes : PassedIn(g, vs) => PassedIn(g, ws)
         /\ \A g \in Genomes, row \in RowType : RowSound(g, row, vs) => RowSound(g, row, ws)
<1>1. \A v \in Versions : vs[v] > 0 => ws[v] > 0
  OBVIOUS
<1>2. \A g \in Genomes : PassedIn(g, vs) => PassedIn(g, ws)
  BY <1>1 DEF PassedIn
<1>3. ASSUME NEW g \in Genomes, NEW row \in RowType, RowSound(g, row, vs)
      PROVE  RowSound(g, row, ws)
  <2>1. row.best \in Versions \cup {NoVersion}
    BY DEF RowType
  <2> QED BY <1>1, <1>2, <1>3, <2>1 DEF RowSound
<1> QED BY <1>2, <1>3

LEMMA AskStays ==
  ASSUME NEW vs \in [Versions -> Nat], NEW ws \in [Versions -> Nat],
         \A v \in Versions : ws[v] >= vs[v], NEW what \in AskType, AskSound(what, vs)
  PROVE  AskSound(what, ws)
<1>1. what.copy \in RowType
  BY DEF AskType
<1> QED BY <1>1, SoundStays DEF AskSound

LEMMA RunStays ==
  ASSUME NEW vs \in [Versions -> Nat], NEW ws \in [Versions -> Nat],
         \A v \in Versions : ws[v] >= vs[v], NEW r, NEW me \in RunType, RunSound(r, me, vs)
  PROVE  RunSound(r, me, ws)
<1>1. me.copy \in [Genomes -> RowType] /\ me.evaluated \in Seq(Versions)
  BY DEF RunType
<1>2. \A i \in 1..Len(me.evaluated) : me.evaluated[i] \in Versions
  BY <1>1
<1>3. \A v \in Versions : vs[v] > 0 => ws[v] > 0
  OBVIOUS
<1> QED BY <1>1, <1>2, <1>3, SoundStays DEF RunSound

\* A write made from a stale copy mixes two sound rows into a sound row.
LEMMA FlushSound ==
  ASSUME NEW g \in Genomes, NEW vs, NEW row, NEW copy, NEW new,
         RowSound(g, row, vs), RowSound(g, new, vs)
  PROVE  RowSound(g, Flush(row, copy, new), vs)
BY DEF RowSound, Flush

\* A run that is over or broken, or has not begun, holds nothing.
LEMMA NothingHeld ==
  ASSUME NEW r, NEW vs, NEW me \in {Fresh(r), Over(r, "over"), Over(r, "broken")}
  PROVE  RunSound(r, me, vs) /\ me.pc # "request"
<1>1. me.copy = [g \in Genomes |-> NoRow] /\ me.evaluated = <<>> /\ me.survivors = {}
  <2>1. CASE me = Fresh(r)
    BY <2>1 DEF Fresh
  <2>2. ASSUME NEW pc, me = Over(r, pc)
        PROVE  me.copy = [g \in Genomes |-> NoRow] /\ me.evaluated = <<>> /\ me.survivors = {}
    BY <2>2 DEF Fresh, Over
  <2> QED BY <2>1, <2>2
<1>2. me.pc \in {"idle", "evaluate", "over", "broken"}
  <2>1. CASE me = Fresh(r)
    BY <2>1 DEF Fresh
  <2>2. ASSUME NEW pc \in {"over", "broken"}, me = Over(r, pc) PROVE me.pc = pc
    BY <2>2 DEF Fresh, Over
  <2> QED BY <2>1, <2>2
<1> QED BY <1>1, <1>2 DEF RunSound, RowSound, NoRow

\* The waiting requests and the asking cycles can be counted.
LEMMA Countable ==
  ASSUME TypeOK, NEW g \in Genomes
  PROVE  /\ IsFiniteSet(Awaiting(g)) /\ Cardinality(Awaiting(g)) \in Nat
         /\ IsFiniteSet(Asking(g)) /\ Cardinality(Asking(g)) \in Nat
         /\ Cardinality(Asking(g)) <= Cardinality(Learners) /\ Cardinality(Learners) \in Nat
<1>1. IsFiniteSet(1..Len(requests)) /\ Awaiting(g) \subseteq 1..Len(requests)
  BY FS_Interval DEF TypeOK, Awaiting
<1>2. IsFiniteSet(Learners) /\ Asking(g) \subseteq Learners
  BY LabAssumption DEF Asking
<1> QED BY <1>1, <1>2, FS_Subset, FS_CardinalityType

LEMMA CountKept ==
  ASSUME TypeOK, TypeOK', RequestsBounded,
         \A g \in Genomes : Awaiting(g)' \subseteq Awaiting(g) /\ Asking(g)' \subseteq Asking(g)
  PROVE  RequestsBounded'
<1> SUFFICES ASSUME NEW g \in Genomes
             PROVE  Cardinality(Awaiting(g)') + Cardinality(Asking(g)') <= Cardinality(Learners)
  BY DEF RequestsBounded
<1>1. Cardinality(Awaiting(g)') <= Cardinality(Awaiting(g)) /\ Cardinality(Asking(g)') <= Cardinality(Asking(g))
  BY Countable, FS_Subset
<1>2. IsFiniteSet(Awaiting(g)') /\ IsFiniteSet(Asking(g)')
  BY Countable, FS_Subset
<1>3. Cardinality(Awaiting(g)') \in Nat /\ Cardinality(Asking(g)') \in Nat
  BY <1>2, FS_CardinalityType
<1> QED BY <1>1, <1>3, Countable DEF RequestsBounded

LEMMA EventsLeft ==
  ASSUME TypeOK, events' = events \/ Spend
  PROVE  events' \in 0..MaxEvents
<1>1. MaxEvents \in Nat
  BY LabAssumption
<1> QED BY <1>1 DEF TypeOK, Spend

LEMMA RequestGenomes ==
  ASSUME TypeOK, NEW i \in DOMAIN requests
  PROVE  requests[i] \in RequestType /\ requests[i].genome \in Genomes
<1>1. requests[i] \in RequestType
  BY DEF TypeOK
<1> QED BY <1>1 DEF RequestType

\* A step of one run that neither inserts a request nor is about to.
LEMMA RunSteps ==
  ASSUME LabInv, NEW r \in Runs, NEW new \in RunType, run' = [run EXCEPT ![r] = new],
         new.pc # "request", RunSound(r, new, versions'),
         UNCHANGED <<requests, asked>>, events' \in 0..MaxEvents,
         cycles' \in [Learners -> {"none", "running", "completed", "failed", "stopped"}],
         CycleClosed',
         strategies' \in [Genomes -> RowType],
         \A g \in Genomes : RowSound(g, strategies'[g], versions'),
         versions' \in [Versions -> Nat], \A v \in Versions : versions'[v] >= versions[v]
  PROVE  LabInv'
<1>1. TypeOK /\ run' \in [Runs -> RunType] /\ versions \in [Versions -> Nat]
  BY RunTypes DEF LabInv, TypeOK
<1>2. TypeOK'
  BY <1>1 DEF TypeOK
<1>3. RunsSound'
  <2>1. \A q \in Runs \ {r} : run'[q] = run[q] /\ run[q] \in RunType /\ RunSound(q, run[q], versions)
    BY <1>1, RunTypes DEF LabInv, TypeOK, RunsSound
  <2>2. \A q \in Runs \ {r} : RunSound(q, run'[q], versions')
    BY <1>1, <2>1, RunStays
  <2>3. run'[r] = new
    BY <1>1 DEF TypeOK
  <2> QED BY <2>2, <2>3 DEF RunsSound
<1>4. AsksSound'
  <2>1. \A o \in Operators : asked[o] \in AskType /\ AskSound(asked[o], versions)
    BY <1>1 DEF LabInv, TypeOK, AsksSound
  <2> QED BY <1>1, <2>1, AskStays DEF AsksSound
<1>5. RequestsSound'
  <2>1. \A i \in DOMAIN requests : requests[i].genome \in Genomes
    BY <1>1, RequestGenomes
  <2> QED BY <1>1, <2>1, SoundStays DEF LabInv, RequestsSound
<1>6. RequestsBounded'
  <2>1. \A g \in Genomes : Awaiting(g)' = Awaiting(g)
    BY DEF Awaiting
  <2>2. \A q \in Runs \ {r} : run'[q] = run[q]
    BY <1>1 DEF TypeOK
  <2>3. run'[r].pc # "request"
    BY <1>1 DEF TypeOK
  <2>4. \A g \in Genomes : Asking(g)' \subseteq Asking(g)
    BY <2>2, <2>3 DEF Asking, At, Current, Runs
  <2> QED BY <1>1, <1>2, <2>1, <2>4, CountKept DEF LabInv
<1> QED BY <1>2, <1>3, <1>4, <1>5, <1>6 DEF LabInv, RowsSound

LEMMA Unwritten ==
  ASSUME LabInv, strategies' = strategies, versions' = versions
  PROVE  /\ strategies' \in [Genomes -> RowType]
         /\ \A g \in Genomes : RowSound(g, strategies'[g], versions')
         /\ versions' \in [Versions -> Nat] /\ \A v \in Versions : versions'[v] >= versions[v]
BY DEF LabInv, TypeOK, RowsSound

\* The same of a step that writes nothing.
LEMMA QuietSteps ==
  ASSUME LabInv, NEW r \in Runs, NEW new \in RunType, run' = [run EXCEPT ![r] = new],
         new.pc # "request", RunSound(r, new, versions), r \in Learners => new.pc # "over",
         UNCHANGED <<strategies, versions, requests, cycles>>, asked' = asked, events' \in 0..MaxEvents
  PROVE  LabInv'
<1>1. cycles' \in [Learners -> {"none", "running", "completed", "failed", "stopped"}]
  BY DEF LabInv, TypeOK
<1>2. CycleClosed'
  BY RunTypes DEF LabInv, CycleClosed, TypeOK
<1> QED BY <1>1, <1>2, Unwritten, RunSteps

\* The candidate at hand.
LEMMA CurrentType ==
  ASSUME LabInv, NEW r \in Runs, run[r].pc \in {"create", "version", "judge", "request"}
  PROVE  /\ Len(run[r].evaluated) \in Nat \ {0} /\ Len(run[r].evaluated) \in DOMAIN run[r].evaluated
         /\ Current(r) \in Versions /\ Current(r).genome \in Genomes
         /\ Current(r).result \in ResultType
<1>1. run[r].evaluated \in Seq(Versions) /\ run[r].evaluated # <<>>
  BY DEF LabInv, TypeOK, RunsSound, RunSound, RunType
<1>2. Len(run[r].evaluated) \in Nat \ {0} /\ Len(run[r].evaluated) \in DOMAIN run[r].evaluated
  BY <1>1
<1>3. Current(r) \in Versions
  BY <1>1, <1>2 DEF Current
<1> QED BY <1>2, <1>3, LabAssumption

-----------------------------------------------------------------------------
(* The steps of a run *)

LEMMA EvaluateKeeps == ASSUME LabInv, NEW r \in Runs, Evaluate(r) PROVE LabInv'
<1> DEFINE held(v) == IF run[r].copy[v.genome] = NoRow THEN strategies[v.genome] ELSE run[r].copy[v.genome]
           copy(v) == IF r \in Researchers THEN [run[r].copy EXCEPT ![v.genome] = held(v)]
                      ELSE [h \in Genomes |-> IF h = v.genome THEN held(v) ELSE NoRow]
           pc(v) == IF held(v) = NoRow THEN "create" ELSE "version"
           after(v) == [run[r] EXCEPT !.left = run[r].left - 1, !.evaluated = Append(run[r].evaluated, v),
                                      !.pc = pc(v), !.copy = copy(v)]
<1>1. run[r] \in RunType /\ strategies \in [Genomes -> RowType] /\ RunSound(r, run[r], versions)
  BY DEF LabInv, TypeOK, RunsSound
<1>2. PICK v \in Versions : run' = [run EXCEPT ![r] = after(v)]
  BY Zenon DEF Evaluate
<1>3. v.genome \in Genomes
  BY LabAssumption
<1>4. held(v) \in RowType /\ copy(v) \in [Genomes -> RowType] /\ pc(v) \in {"create", "version"}
  BY <1>1, <1>3, RowsAreTyped DEF RunType
<1>5. /\ Append(run[r].evaluated, v) \in Seq(Versions) /\ run[r].left - 1 \in Nat
      /\ Len(Append(run[r].evaluated, v)) = Len(run[r].evaluated) + 1 /\ Len(run[r].evaluated) \in Nat
      /\ \A i \in 1..Len(run[r].evaluated) : Append(run[r].evaluated, v)[i] = run[r].evaluated[i]
  BY <1>1 DEF RunType, Evaluate
<1>6. \A g \in Genomes : RowSound(g, copy(v)[g], versions)
  BY <1>1, <1>3 DEF RunSound, RunType, LabInv, RowsSound, RowSound, NoRow
<1> DEFINE new == [run[r] EXCEPT !.left = run[r].left - 1, !.evaluated = Append(run[r].evaluated, v),
                                 !.pc = pc(v), !.copy = copy(v)]
<1> HIDE DEF held, copy, pc
<1>7. new \in RunType /\ new.pc = pc(v) /\ new.evaluated = Append(run[r].evaluated, v)
      /\ new.copy = copy(v) /\ new.survivors = run[r].survivors
  BY <1>1, <1>4, <1>5 DEF RunType
<1>8. /\ At(r, "evaluate") /\ events' = events
      /\ UNCHANGED <<strategies, versions, requests, cycles, asked>>
  BY DEF Evaluate, Asides
<1>9. RunSound(r, new, versions)
  <2>1. \A i \in 1..Len(run[r].evaluated) : versions[run[r].evaluated[i]] > 0
    BY <1>1, <1>8 DEF RunSound, At
  <2>2. run[r].survivors \subseteq 1..Len(run[r].evaluated) /\ (r \in Learners => run[r].survivors = {})
    BY <1>1 DEF RunSound
  <2>3. new.evaluated # <<>> /\ new.pc # "request" /\ new.survivors \subseteq 1..Len(new.evaluated)
        /\ (r \in Learners => new.survivors = {})
    BY <1>4, <1>5, <1>7, <2>2
  <2>4. \A i \in 1..Len(new.evaluated) :
          versions[new.evaluated[i]] > 0 \/ (new.pc \in {"create", "version"} /\ i = Len(new.evaluated))
    BY <1>4, <1>5, <1>7, <2>1
  <2> HIDE DEF new
  <2> QED BY <1>6, <1>7, <2>3, <2>4 DEF RunSound
<1>10. run' = [run EXCEPT ![r] = new] /\ new.pc \notin {"request", "over"}
  BY <1>2, <1>4, <1>7
<1>11. events' \in 0..MaxEvents
  BY <1>8 DEF LabInv, TypeOK
<1> HIDE DEF new
<1> QED BY <1>7, <1>8, <1>9, <1>10, <1>11, QuietSteps

\* Steps that only move a run on, whose record keeps the rest.
LEMMA MoveKeeps ==
  ASSUME LabInv, NEW r \in Runs, NEW pc \in {"evolve", "evaluate"}, NEW left \in Nat,
         run' = [run EXCEPT ![r] = [run[r] EXCEPT !.pc = pc, !.left = left]],
         run[r].pc \notin {"create", "version"},
         UNCHANGED <<strategies, versions, requests, cycles, asked, events>>
  PROVE  LabInv'
<1> DEFINE new == [run[r] EXCEPT !.pc = pc, !.left = left]
<1>1. run[r] \in RunType /\ RunSound(r, run[r], versions) /\ events' \in 0..MaxEvents
  BY DEF LabInv, TypeOK, RunsSound
<1>2. new \in RunType /\ new.pc \notin {"request", "over"} /\ RunSound(r, new, versions)
  BY <1>1 DEF RunType, RunSound
<1> HIDE DEF new
<1> QED BY <1>1, <1>2, QuietSteps DEF new

LEMMA NoDataKeeps == ASSUME LabInv, NEW r \in Runs, NoData(r) PROVE LabInv'
<1>1. run[r] \in RunType /\ run[r].pc = "evaluate" /\ run[r].left - 1 \in Nat
  BY DEF LabInv, TypeOK, RunType, NoData, At
<1>2. run' = [run EXCEPT ![r] = [run[r] EXCEPT !.left = run[r].left - 1]]
  BY Zenon DEF NoData
<1>3. [run[r] EXCEPT !.left = run[r].left - 1] = [run[r] EXCEPT !.pc = "evaluate", !.left = run[r].left - 1]
  BY <1>1 DEF RunType
<1> QED BY <1>1, <1>2, <1>3, MoveKeeps DEF NoData, Asides

LEMMA EvolveKeeps == ASSUME LabInv, NEW l \in Runs, Evolve(l) PROVE LabInv'
<1>1. run[l] \in RunType /\ run[l].pc = "evolve" /\ run[l].left \in Nat
  BY DEF LabInv, TypeOK, RunType, Evolve, At
<1>2. run' = [run EXCEPT ![l] = [run[l] EXCEPT !.pc = "evaluate", !.left = run[l].left]]
  BY <1>1 DEF Evolve, Goto, RunType, LabInv, TypeOK
<1> QED BY <1>1, <1>2, MoveKeeps DEF Evolve, Asides

LEMMA StartKeeps == ASSUME LabInv, NEW l \in Runs, StartCycle(l) PROVE LabInv'
<1> DEFINE new == [run[l] EXCEPT !.pc = "evolve"]
<1>1. run[l] \in RunType /\ RunSound(l, run[l], versions) /\ run[l].pc = "idle"
  BY DEF LabInv, TypeOK, RunsSound, StartCycle, At
<1>2. new \in RunType /\ new.pc = "evolve" /\ RunSound(l, new, versions)
  BY <1>1 DEF RunType, RunSound
<1>3. run' = [run EXCEPT ![l] = new] /\ UNCHANGED <<strategies, versions, requests, asked, events>>
  BY DEF StartCycle, Goto, Asides
<1>4. cycles' = [cycles EXCEPT ![l] = "running"] /\ l \in Learners
  BY DEF StartCycle
<1> HIDE DEF new
<1>5. CycleClosed' /\ cycles' \in [Learners -> {"none", "running", "completed", "failed", "stopped"}]
  BY <1>2, <1>3, <1>4, RunTypes DEF LabInv, CycleClosed, TypeOK
<1>6. RunSound(l, new, versions') /\ new.pc # "request" /\ requests' = requests /\ asked' = asked
      /\ events' \in 0..MaxEvents
  BY <1>2, <1>3 DEF LabInv, TypeOK
<1> QED BY <1>2, <1>3, <1>5, <1>6, Unwritten, RunSteps

\* A cycle is over with its row closed.
LEMMA EndKeeps ==
  ASSUME LabInv, NEW l \in Learners, NEW status \in {"completed", "failed"},
         run' = [run EXCEPT ![l] = Over(l, "over")], cycles' = [cycles EXCEPT ![l] = status],
         UNCHANGED <<strategies, versions, requests, asked>>, events' \in 0..MaxEvents
  PROVE  LabInv'
<1> DEFINE new == Over(l, "over")
<1>1. l \in Runs /\ new \in RunType /\ new.pc # "request" /\ RunSound(l, new, versions)
  BY RunsAreTyped, NothingHeld DEF Runs
<1> HIDE DEF new
<1>2. CycleClosed' /\ cycles' \in [Learners -> {"none", "running", "completed", "failed", "stopped"}]
  BY <1>1, RunTypes DEF LabInv, CycleClosed, TypeOK, Runs
<1>3. run' = [run EXCEPT ![l] = new] /\ RunSound(l, new, versions') /\ requests' = requests /\ asked' = asked
  BY <1>1 DEF new
<1> QED BY <1>1, <1>2, <1>3, Unwritten, RunSteps

LEMMA EndsKeep ==
  ASSUME LabInv, NEW l \in Runs, CrossoverFails(l) \/ FinishCycle(l) \/ Raise(l)
  PROVE  LabInv'
<1>1. events' \in 0..MaxEvents
  BY EventsLeft DEF LabInv, CrossoverFails, FinishCycle, Raise, Asides
<1>2. PICK status \in {"completed", "failed"} :
        /\ l \in Learners /\ run' = [run EXCEPT ![l] = Over(l, "over")]
        /\ cycles' = [cycles EXCEPT ![l] = status]
        /\ UNCHANGED <<strategies, versions, requests, asked>>
  BY DEF CrossoverFails, FinishCycle, Raise, Fail, Spend, Asides
<1> QED BY <1>1, <1>2, EndKeeps

LEMMA BreakKeeps == ASSUME LabInv, NEW r \in Runs, Break(r) PROVE LabInv'
<1>1. /\ Over(r, "broken") \in RunType /\ Over(r, "broken").pc = "broken"
      /\ RunSound(r, Over(r, "broken"), versions)
  BY RunsAreTyped, NothingHeld DEF Over, Fresh
<1>2. events' \in 0..MaxEvents
  BY EventsLeft DEF LabInv, Break
<1> QED BY <1>1, <1>2, QuietSteps DEF Break, Spend

LEMMA CreateKeeps == ASSUME LabInv, NEW r \in Runs, Create(r) PROVE LabInv'
<1> DEFINE g == Current(r).genome
           new == [run[r] EXCEPT !.pc = "version", !.copy[g] = NewRow]
<1>1. /\ run[r] \in RunType /\ RunSound(r, run[r], versions) /\ run[r].pc = "create"
      /\ events' \in 0..MaxEvents
  BY DEF LabInv, TypeOK, RunsSound, Create, At, Asides
<1>2. Current(r) \in Versions /\ g \in Genomes
  BY <1>1, CurrentType
<1>3. CASE strategies[g] = NoRow
  <2>1. /\ strategies' = [strategies EXCEPT ![g] = NewRow] /\ run' = [run EXCEPT ![r] = new]
        /\ UNCHANGED <<versions, requests, cycles, asked>>
    BY <1>3 DEF Create, Asides
  <2>2. NewRow \in RowType /\ RowSound(g, NewRow, versions)
    BY RowsAreTyped DEF NewRow, NoRow, RowSound
  <2>3. new \in RunType /\ new.pc = "version" /\ RunSound(r, new, versions)
    BY <1>1, <1>2, <2>2 DEF RunType, RunSound
  <2> HIDE DEF new, g
  <2>4. CycleClosed'
    BY <1>1, <2>1, <2>3 DEF LabInv, CycleClosed, TypeOK
  <2>5. strategies' \in [Genomes -> RowType] /\ \A h \in Genomes : RowSound(h, strategies'[h], versions')
    BY <1>2, <2>1, <2>2 DEF LabInv, TypeOK, RowsSound
  <2>6. /\ versions' \in [Versions -> Nat] /\ \A v \in Versions : versions'[v] >= versions[v]
        /\ cycles' \in [Learners -> {"none", "running", "completed", "failed", "stopped"}]
        /\ RunSound(r, new, versions') /\ requests' = requests /\ asked' = asked
    BY <2>1, <2>3 DEF LabInv, TypeOK
  <2> QED BY <1>1, <2>1, <2>3, <2>4, <2>5, <2>6, RunSteps
<1>4. CASE strategies[g] # NoRow
  <2>1. /\ Over(r, "broken") \in RunType /\ Over(r, "broken").pc = "broken"
        /\ RunSound(r, Over(r, "broken"), versions)
    BY RunsAreTyped, NothingHeld DEF Over, Fresh
  <2>2. /\ run' = [run EXCEPT ![r] = Over(r, "broken")]
        /\ UNCHANGED <<strategies, versions, requests, cycles>> /\ asked' = asked
    BY <1>4 DEF Create, Asides
  <2> QED BY <1>1, <2>1, <2>2, QuietSteps
<1> QED BY <1>3, <1>4

LEMMA AddVersionKeeps == ASSUME LabInv, NEW r \in Runs, AddVersion(r) PROVE LabInv'
<1> DEFINE e == Current(r)
           g == e.genome
           copy == run[r].copy[g]
           written == IF copy.best = NoVersion \/ e.result.fit > copy.fit
                      THEN [copy EXCEPT !.fit = e.result.fit, !.best = e] ELSE copy
           pc == IF r \in Learners THEN "judge" ELSE "evaluate"
           new == [run[r] EXCEPT !.pc = pc, !.copy[g] = written]
<1>1. /\ run[r] \in RunType /\ RunSound(r, run[r], versions) /\ run[r].pc = "version"
      /\ versions \in [Versions -> Nat]
  BY DEF LabInv, TypeOK, RunsSound, AddVersion, At
<1>2. /\ e \in Versions /\ g \in Genomes /\ e.result.fit \in Int
      /\ Len(run[r].evaluated) \in DOMAIN run[r].evaluated
  BY <1>1, CurrentType DEF ResultType
<1>3. /\ versions' = [versions EXCEPT ![e] = @ + 1]
      /\ strategies' = [strategies EXCEPT ![g] = Flush(@, copy, written)]
      /\ run' = [run EXCEPT ![r] = new]
      /\ UNCHANGED <<requests, cycles, asked, events>>
  BY Zenon DEF AddVersion, Asides
<1>4. /\ versions' \in [Versions -> Nat] /\ \A v \in Versions : versions'[v] >= versions[v]
      /\ versions'[e] > 0
  BY <1>1, <1>2, <1>3
<1>5. /\ copy \in RowType /\ RowSound(g, copy, versions')
      /\ strategies[g] \in RowType /\ RowSound(g, strategies[g], versions')
  <2>1. copy \in RowType /\ RowSound(g, copy, versions)
    BY <1>1, <1>2 DEF RunType, RunSound
  <2>2. strategies[g] \in RowType /\ RowSound(g, strategies[g], versions)
    BY <1>2 DEF LabInv, TypeOK, RowsSound
  <2> HIDE DEF copy, g
  <2> QED BY <1>1, <1>2, <1>4, <2>1, <2>2, SoundStays
<1>6. written \in RowType /\ RowSound(g, written, versions')
  BY <1>2, <1>4, <1>5 DEF RowType, RowSound
<1>7. pc \in {"judge", "evaluate"} /\ (pc = "judge" => r \in Learners)
  OBVIOUS
<1>8. RunSound(r, run[r], versions')
  BY <1>1, <1>4, RunStays
<1> HIDE DEF written, pc, copy, g
<1>9. /\ new \in RunType /\ new.pc = pc /\ new.evaluated = run[r].evaluated
      /\ new.survivors = run[r].survivors /\ new.copy = [run[r].copy EXCEPT ![g] = written]
  BY <1>1, <1>2, <1>6, <1>7 DEF RunType
<1> HIDE DEF new
<1>10. RunSound(r, new, versions')
  <2>1. \A h \in Genomes : RowSound(h, new.copy[h], versions')
    BY <1>1, <1>2, <1>6, <1>8, <1>9 DEF RunSound, RunType
  <2>2. \A i \in 1..Len(new.evaluated) : versions'[new.evaluated[i]] > 0
    BY <1>4, <1>8, <1>9 DEF RunSound, Current
  <2>3. new.evaluated # <<>>
    BY <1>1, <1>9 DEF RunSound
  <2> QED BY <1>7, <1>8, <1>9, <2>1, <2>2, <2>3 DEF RunSound
<1>11. strategies' \in [Genomes -> RowType] /\ \A h \in Genomes : RowSound(h, strategies'[h], versions')
  <2>1. Flush(strategies[g], copy, written) \in RowType
    BY <1>5, <1>6, RowsAreTyped
  <2>2. RowSound(g, Flush(strategies[g], copy, written), versions')
    BY <1>2, <1>5, <1>6, FlushSound
  <2>3. \A h \in Genomes : strategies[h] \in RowType /\ RowSound(h, strategies[h], versions')
    BY <1>1, <1>4, SoundStays DEF LabInv, TypeOK, RowsSound
  <2> QED BY <1>2, <1>3, <2>1, <2>2, <2>3 DEF LabInv, TypeOK
<1>12. CycleClosed'
  BY <1>1, <1>3, <1>7, <1>9 DEF LabInv, CycleClosed, TypeOK
<1>13. /\ requests' = requests /\ asked' = asked /\ events' \in 0..MaxEvents
       /\ cycles' \in [Learners -> {"none", "running", "completed", "failed", "stopped"}]
       /\ new.pc # "request"
  BY <1>3, <1>7, <1>9 DEF LabInv, TypeOK
<1> QED BY <1>3, <1>4, <1>9, <1>10, <1>11, <1>12, <1>13, RunSteps

LEMMA OverKeeps ==
  ASSUME LabInv, NEW r \in Researchers, run' = [run EXCEPT ![r] = Over(r, "over")],
         strategies' \in [Genomes -> RowType],
         \A g \in Genomes : RowSound(g, strategies'[g], versions),
         UNCHANGED <<versions, requests, cycles, asked, events>>
  PROVE  LabInv'
<1>1. /\ r \in Runs /\ r \notin Learners
      /\ Over(r, "over") \in RunType /\ Over(r, "over").pc # "request"
      /\ RunSound(r, Over(r, "over"), versions')
  BY LabAssumption, RunsAreTyped, NothingHeld DEF Runs
<1>2. /\ versions' \in [Versions -> Nat] /\ \A v \in Versions : versions'[v] >= versions[v]
      /\ cycles' \in [Learners -> {"none", "running", "completed", "failed", "stopped"}]
      /\ events' \in 0..MaxEvents /\ requests' = requests /\ asked' = asked
      /\ \A g \in Genomes : RowSound(g, strategies'[g], versions')
  BY DEF LabInv, TypeOK
<1>3. CycleClosed'
  BY <1>1 DEF LabInv, CycleClosed, TypeOK, Runs
<1> QED BY <1>1, <1>2, <1>3, RunSteps

LEMMA RankKeeps == ASSUME LabInv, NEW r \in Runs, Rank(r) PROVE LabInv'
<1> DEFINE e == run[r].evaluated
           new == [run[r] EXCEPT !.ranked = TRUE, !.survivors = Surviving(e), !.left = Cardinality(Couples(e))]
<1>1. /\ run[r] \in RunType /\ RunSound(r, run[r], versions) /\ run[r].pc = "evaluate"
      /\ r \in Researchers \ Learners /\ UNCHANGED <<strategies, versions, requests, cycles, asked, events>>
  BY LabAssumption DEF LabInv, TypeOK, RunsSound, Rank, At, Asides
<1>2. Surviving(e) \in SUBSET (1..Len(e)) /\ Surviving(e) \in SUBSET Nat
  BY <1>1 DEF Surviving, RunType
<1>3. Cardinality(Couples(e)) \in Nat
  <2>1. Couples(e) \in SUBSET (1..Len(e))
    BY <1>2 DEF Couples
  <2>2. IsFiniteSet(1..Len(e))
    <3>1. 1 \in Int /\ Len(e) \in Int
      BY <1>1 DEF RunType
    <3> HIDE DEF e
    <3> QED BY <3>1, FS_Interval
  <2>3. IsFiniteSet(Couples(e))
    BY <2>1, <2>2, FS_Subset
  <2> QED BY <2>3, FS_CardinalityType
<1>4. run' = [run EXCEPT ![r] = IF e = <<>> THEN Over(r, "over") ELSE new]
  BY Zenon DEF Rank
<1>5. CASE e = <<>>
  BY <1>1, <1>4, <1>5, OverKeeps DEF LabInv, TypeOK, RowsSound
<1>6. CASE e # <<>>
  <2>1. new \in RunType /\ new.pc = "evaluate" /\ new.evaluated = e /\ new.copy = run[r].copy
        /\ new.survivors = Surviving(e)
    BY <1>1, <1>2, <1>3 DEF RunType
  <2> HIDE DEF new
  <2>2. RunSound(r, new, versions)
    BY <1>1, <1>2, <2>1 DEF RunSound
  <2>3. run' = [run EXCEPT ![r] = new] /\ asked' = asked /\ events' \in 0..MaxEvents
    BY <1>1, <1>4, <1>6 DEF LabInv, TypeOK
  <2> QED BY <1>1, <2>1, <2>2, <2>3, QuietSteps
<1> QED BY <1>5, <1>6

LEMMA PromoteKeeps == ASSUME LabInv, NEW r \in Runs, Promote(r) PROVE LabInv'
<1>1. /\ run[r] \in RunType /\ RunSound(r, run[r], versions) /\ run[r].pc = "evaluate"
      /\ r \in Researchers /\ UNCHANGED <<versions, requests, cycles, asked, events>>
  BY DEF LabInv, TypeOK, RunsSound, Promote, At, Asides
<1> DEFINE e(i) == run[r].evaluated[i]
           copy(i) == run[r].copy[e(i).genome]
           written(i) == IF e(i).result.sound THEN [copy(i) EXCEPT !.status = "promoted"] ELSE copy(i)
<1>2. PICK i \in run[r].survivors :
        /\ strategies' = [strategies EXCEPT ![e(i).genome] = Flush(@, copy(i), written(i))]
        /\ Crown(r, i, e(i).genome, written(i))
  BY Zenon DEF Promote
<1> DEFINE g == e(i).genome
           new == [run[r] EXCEPT !.survivors = run[r].survivors \ {i}, !.copy[g] = written(i)]
<1>3. i \in 1..Len(run[r].evaluated) /\ e(i) \in Versions /\ g \in Genomes /\ versions[e(i)] > 0
  <2>1. i \in 1..Len(run[r].evaluated) /\ versions[e(i)] > 0
    BY <1>1, <1>2 DEF RunSound
  <2>2. e(i) \in Versions
    BY <1>1, <2>1 DEF RunType
  <2> QED BY <2>1, <2>2, LabAssumption
<1>4. /\ copy(i) \in RowType /\ RowSound(g, copy(i), versions)
      /\ strategies[g] \in RowType /\ RowSound(g, strategies[g], versions)
  BY <1>1, <1>3 DEF RunType, RunSound, LabInv, TypeOK, RowsSound
<1>5. written(i) \in RowType /\ RowSound(g, written(i), versions)
  <2>1. e(i).result.sound => PassedIn(g, versions)
    BY <1>3 DEF PassedIn
  <2> QED BY <1>4, <2>1 DEF RowType, RowSound
<1> HIDE DEF written, copy, e
<1>6. strategies' \in [Genomes -> RowType] /\ \A h \in Genomes : RowSound(h, strategies'[h], versions)
  <2>1. Flush(strategies[g], copy(i), written(i)) \in RowType
    BY <1>4, <1>5, RowsAreTyped
  <2>2. RowSound(g, Flush(strategies[g], copy(i), written(i)), versions)
    BY <1>3, <1>4, <1>5, FlushSound
  <2> QED BY <1>2, <1>3, <2>1, <2>2 DEF LabInv, TypeOK, RowsSound
<1>7. CASE run[r].survivors = {i}
  <2>1. run' = [run EXCEPT ![r] = Over(r, "over")]
    BY <1>2, <1>7 DEF Crown
  <2> QED BY <1>1, <1>6, <2>1, OverKeeps
<1>8. CASE run[r].survivors # {i}
  <2>1. run' = [run EXCEPT ![r] = new]
    BY <1>2, <1>8 DEF Crown
  <2>2. /\ new \in RunType /\ new.pc = "evaluate" /\ new.evaluated = run[r].evaluated
        /\ new.copy = [run[r].copy EXCEPT ![g] = written(i)]
        /\ new.survivors = run[r].survivors \ {i}
    BY <1>1, <1>3, <1>5 DEF RunType
  <2> HIDE DEF new, g
  <2>3. RunSound(r, new, versions')
    BY <1>1, <1>3, <1>5, <2>2 DEF RunSound, RunType
  <2>4. CycleClosed'
    BY <1>1, <2>1, <2>2 DEF LabInv, CycleClosed, TypeOK
  <2>5. /\ versions' \in [Versions -> Nat] /\ \A v \in Versions : versions'[v] >= versions[v]
        /\ cycles' \in [Learners -> {"none", "running", "completed", "failed", "stopped"}]
        /\ events' \in 0..MaxEvents /\ requests' = requests /\ asked' = asked
        /\ \A h \in Genomes : RowSound(h, strategies'[h], versions')
    BY <1>1, <1>6 DEF LabInv, TypeOK
  <2> QED BY <1>6, <2>1, <2>2, <2>3, <2>4, <2>5, RunSteps
<1> QED BY <1>7, <1>8

\* On to the next candidate, the last one left behind.
LEMMA GoneOn ==
  ASSUME LabInv, NEW l \in Learners, GoOn(l)
  PROVE  LET new == [run[l] EXCEPT !.pc = "evaluate", !.evaluated = <<>>] IN
         /\ l \in Runs /\ new \in RunType /\ new.pc = "evaluate" /\ run' = [run EXCEPT ![l] = new]
         /\ RunSound(l, new, versions)
<1> DEFINE new == [run[l] EXCEPT !.pc = "evaluate", !.evaluated = <<>>]
<1>1. l \in Runs /\ run[l] \in RunType /\ RunSound(l, run[l], versions)
  BY DEF LabInv, TypeOK, RunsSound, Runs
<1>2. <<>> \in Seq(Versions) /\ Len(<<>>) = 0
  OBVIOUS
<1>3. new \in RunType /\ new.pc = "evaluate" /\ run' = [run EXCEPT ![l] = new]
  BY <1>1, <1>2 DEF RunType, GoOn, LabInv, TypeOK
<1>4. new.copy = run[l].copy /\ new.evaluated = <<>> /\ new.survivors = {}
  BY <1>1 DEF RunType, RunSound
<1> HIDE DEF new
<1>5. RunSound(l, new, versions)
  BY <1>1, <1>3, <1>4 DEF RunSound
<1> QED BY <1>1, <1>3, <1>5 DEF new

LEMMA JudgeKeeps == ASSUME LabInv, NEW l \in Runs, Judge(l) PROVE LabInv'
<1>1. /\ l \in Learners /\ run[l].pc = "judge" /\ run[l] \in RunType /\ RunSound(l, run[l], versions)
      /\ UNCHANGED <<strategies, versions, requests, cycles, asked, events>>
      /\ TypeOK /\ asked' = asked /\ events' \in 0..MaxEvents
  BY DEF LabInv, TypeOK, RunsSound, Judge, At, Asides
<1>2. CASE GoOn(l)
  <2> DEFINE new == [run[l] EXCEPT !.pc = "evaluate", !.evaluated = <<>>]
  <2>1. new \in RunType /\ new.pc = "evaluate" /\ run' = [run EXCEPT ![l] = new] /\ RunSound(l, new, versions)
    BY <1>1, <1>2, GoneOn
  <2> HIDE DEF new
  <2> QED BY <1>1, <2>1, QuietSteps
<1>3. CASE Goto(l, "request") /\ Current(l).result.worthy /\ Awaiting(Current(l).genome) = {}
  <2> DEFINE new == [run[l] EXCEPT !.pc = "request"]
             mine == Current(l).genome
  <2>1. /\ new \in RunType /\ new.pc = "request" /\ run' = [run EXCEPT ![l] = new]
        /\ new.copy = run[l].copy /\ new.evaluated = run[l].evaluated /\ new.survivors = run[l].survivors
    BY <1>1, <1>3 DEF RunType, Goto
  <2> HIDE DEF new
  <2>2. RunSound(l, new, versions)
    BY <1>1, <1>3, <2>1 DEF RunSound, Current
  <2>3. run' \in [Runs -> RunType] /\ run'[l] = new /\ \A q \in Runs \ {l} : run'[q] = run[q]
    BY <1>1, <2>1 DEF TypeOK
  <2>4. TypeOK'
    BY <1>1, <2>3 DEF TypeOK
  <2>5. RunsSound' /\ RowsSound' /\ AsksSound' /\ RequestsSound'
    BY <1>1, <2>2, <2>3 DEF LabInv, RunsSound, RowsSound, AsksSound, RequestsSound
  <2>6. CycleClosed'
    BY <1>1, <2>1, <2>3 DEF LabInv, CycleClosed, Runs
  <2>7. ASSUME NEW g \in Genomes
        PROVE  Cardinality(Awaiting(g)') + Cardinality(Asking(g)') <= Cardinality(Learners)
    <3>1. Awaiting(g)' = Awaiting(g)
      BY <1>1 DEF Awaiting
    <3>2. CASE g = mine
      <4>1. Cardinality(Awaiting(g)') = 0
        BY <1>3, <3>1, <3>2, FS_EmptySet
      <4>2. Asking(g)' \subseteq Learners /\ IsFiniteSet(Learners)
        BY LabAssumption DEF Asking
      <4>3. Cardinality(Asking(g)') <= Cardinality(Learners) /\ Cardinality(Asking(g)') \in Nat
        BY <4>2, FS_Subset, FS_CardinalityType
      <4> QED BY <4>1, <4>3
    <3>3. CASE g # mine
      <4>1. Current(l)' = Current(l)
        BY <2>1, <2>3 DEF Current
      <4>2. Asking(g)' = Asking(g)
        BY <1>1, <2>3, <3>3, <4>1 DEF Asking, At, Current, Runs
      <4> QED BY <3>1, <4>2 DEF LabInv, RequestsBounded
    <3> QED BY <3>2, <3>3
  <2> QED BY <2>4, <2>5, <2>6, <2>7 DEF LabInv, RequestsBounded
<1> QED BY <1>2, <1>3 DEF Judge

LEMMA RequestKeeps == ASSUME LabInv, NEW l \in Runs, Request(l) PROVE LabInv'
<1> DEFINE mine == Current(l).genome
           asking == [genome |-> mine, status |-> "awaiting"]
           new == [run[l] EXCEPT !.pc = "evaluate", !.evaluated = <<>>]
<1>1. /\ l \in Learners /\ run[l].pc = "request" /\ run[l] \in RunType /\ RunSound(l, run[l], versions)
      /\ UNCHANGED <<strategies, versions, cycles, asked, events>>
      /\ TypeOK /\ requests' = Append(requests, asking) /\ GoOn(l)
  BY DEF LabInv, TypeOK, RunsSound, Request, At, Asides
<1>2. new \in RunType /\ new.pc = "evaluate" /\ run' = [run EXCEPT ![l] = new] /\ RunSound(l, new, versions)
  BY <1>1, GoneOn
<1>3. /\ Current(l) \in Versions /\ mine \in Genomes /\ Len(run[l].evaluated) \in 1..Len(run[l].evaluated)
  BY <1>1, CurrentType
<1>4. PassedIn(mine, versions)
  BY <1>1, <1>3 DEF RunSound, Current, PassedIn
<1> HIDE DEF new
<1>5. run' \in [Runs -> RunType] /\ run'[l] = new /\ \A q \in Runs \ {l} : run'[q] = run[q]
  BY <1>1, <1>2 DEF TypeOK
<1>6. asking \in RequestType /\ asking.genome = mine /\ asking.status = "awaiting"
  BY <1>3 DEF RequestType
<1> HIDE DEF mine, asking
<1>7. /\ requests' \in Seq(RequestType) /\ DOMAIN requests' = DOMAIN requests \cup {Len(requests) + 1}
      /\ Len(requests) + 1 \notin DOMAIN requests
      /\ requests'[Len(requests) + 1] = asking
      /\ \A i \in DOMAIN requests : requests'[i] = requests[i]
  BY <1>1, <1>6 DEF TypeOK
<1>8. TypeOK'
  BY <1>1, <1>5, <1>7 DEF TypeOK
<1>9. RunsSound' /\ RowsSound' /\ AsksSound'
  BY <1>1, <1>2, <1>5 DEF LabInv, RunsSound, RowsSound, AsksSound
<1>10. RequestsSound'
  BY <1>1, <1>4, <1>6, <1>7 DEF LabInv, RequestsSound
<1>11. CycleClosed'
  BY <1>1, <1>2, <1>5 DEF LabInv, CycleClosed, Runs
<1>12. ASSUME NEW g \in Genomes
       PROVE  Cardinality(Awaiting(g)') + Cardinality(Asking(g)') <= Cardinality(Learners)
  <2>1. Cardinality(Awaiting(g)) + Cardinality(Asking(g)) <= Cardinality(Learners)
    BY DEF LabInv, RequestsBounded
  <2>2. CASE g # mine
    <3>1. Awaiting(g)' = Awaiting(g)
      BY <1>6, <1>7, <2>2 DEF Awaiting
    <3>2. Asking(g)' = Asking(g)
      BY <1>1, <1>2, <1>5, <2>2 DEF Asking, At, Current, Runs, mine
    <3> QED BY <2>1, <3>1, <3>2
  <2>3. CASE g = mine
    <3>1. Awaiting(g)' = Awaiting(g) \cup {Len(requests) + 1} /\ Len(requests) + 1 \notin Awaiting(g)
      BY <1>6, <1>7, <2>3 DEF Awaiting
    <3>2. Asking(g)' = Asking(g) \ {l} /\ l \in Asking(g)
      BY <1>1, <1>2, <1>5, <2>3 DEF Asking, At, Current, Runs, mine
    <3>3. Cardinality(Awaiting(g)') = Cardinality(Awaiting(g)) + 1
      BY <1>1, <3>1, Countable, FS_AddElement
    <3>4. Cardinality(Asking(g)') = Cardinality(Asking(g)) - 1
      BY <1>1, <3>2, Countable, FS_RemoveElement
    <3> QED BY <1>1, <2>1, <3>3, <3>4, Countable
  <2> QED BY <2>2, <2>3
<1> QED BY <1>8, <1>9, <1>10, <1>11, <1>12 DEF LabInv, RequestsBounded

-----------------------------------------------------------------------------
(* The steps of an operator *)

\* A step that decides no more than the status of requests and writes sound rows.
LEMMA OperatorSteps ==
  ASSUME LabInv, NEW o \in Operators, NEW what \in AskType, AskSound(what, versions),
         asked' = [asked EXCEPT ![o] = what], versions' = versions, run' = run,
         strategies' \in [Genomes -> RowType],
         \A g \in Genomes : RowSound(g, strategies'[g], versions),
         requests' \in Seq(RequestType), DOMAIN requests' = DOMAIN requests,
         \A i \in DOMAIN requests : /\ requests'[i].genome = requests[i].genome
                                    /\ requests'[i].status = "awaiting" => requests[i].status = "awaiting",
         cycles' \in [Learners -> {"none", "running", "completed", "failed", "stopped"}],
         \A l \in Learners : cycles'[l] = "running" => cycles[l] = "running",
         events' \in 0..MaxEvents
  PROVE  LabInv'
<1>1. TypeOK'
  BY DEF LabInv, TypeOK
<1>2. RowsSound' /\ RunsSound' /\ CycleClosed' /\ RequestsSound'
  BY DEF LabInv, RowsSound, RunsSound, CycleClosed, RequestsSound
<1>3. AsksSound'
  BY DEF LabInv, AsksSound, TypeOK
<1>4. RequestsBounded'
  <2>1. \A g \in Genomes : Awaiting(g)' \subseteq Awaiting(g) /\ Asking(g)' \subseteq Asking(g)
    BY DEF Awaiting, Asking, At, Current
  <2> QED BY <1>1, <2>1, CountKept DEF LabInv
<1> QED BY <1>1, <1>2, <1>3, <1>4 DEF LabInv

LEMMA IdleAsk == NoOp \in AskType /\ \A vs : AskSound(NoOp, vs)
BY RowsAreTyped DEF NoOp, AskType, AskSound

LEMMA ReadKeeps ==
  ASSUME LabInv, NEW o \in Operators,
         ReadApproval(o) \/ ReadRejection(o) \/ ReadPromotion(o) \/ ReadStop(o)
  PROVE  LabInv'
<1>1. PICK what : Ask(o, what) /\ what \in AskType /\ AskSound(what, versions)
  <2>1. ASSUME NEW g \in Genomes, NEW i \in Awaiting(g), NEW pc \in {"approve", "reject"}
        PROVE  LET what == [pc |-> pc, request |-> i, genome |-> g, copy |-> strategies[g], stop |-> {}]
               IN  what \in AskType /\ AskSound(what, versions)
    <3>1. i \in DOMAIN requests /\ i \in Nat /\ requests[i].genome = g
      BY DEF Awaiting, LabInv, TypeOK
    <3>2. PassedIn(g, versions) /\ strategies[g] \in RowType /\ RowSound(g, strategies[g], versions)
      BY <3>1 DEF LabInv, TypeOK, RequestsSound, RowsSound
    <3> QED BY <3>1, <3>2 DEF AskType, AskSound
  <2>2. ASSUME NEW g \in Genomes, strategies[g].best # NoVersion
        PROVE  LET what == [pc |-> "promote", request |-> 0, genome |-> g, copy |-> strategies[g], stop |-> {}]
               IN  what \in AskType /\ AskSound(what, versions)
    <3>1. strategies[g] \in RowType /\ RowSound(g, strategies[g], versions)
      BY DEF LabInv, TypeOK, RowsSound
    <3> QED BY <2>2, <3>1 DEF AskType, AskSound
  <2>3. ASSUME NEW running \in SUBSET Learners
        PROVE  LET what == [NoOp EXCEPT !.pc = "stop", !.stop = running]
               IN  what \in AskType /\ AskSound(what, versions)
    BY RowsAreTyped DEF NoOp, AskType, AskSound
  <2> QED BY <2>1, <2>2, <2>3 DEF ReadApproval, ReadRejection, ReadPromotion, ReadStop
<1>2. /\ asked' = [asked EXCEPT ![o] = what]
      /\ UNCHANGED <<strategies, versions, requests, cycles, run>>
      /\ events' = events - 1 /\ events > 0
  BY <1>1 DEF Ask
<1>3. events' \in 0..MaxEvents
  BY <1>2, LabAssumption DEF LabInv, TypeOK
<1> QED BY <1>1, <1>2, <1>3, OperatorSteps DEF LabInv, TypeOK, RowsSound

\* What a decision writes to the strategy.
LEMMA StatusSet ==
  ASSUME LabInv, NEW o \in Operators, NEW status \in {"promoted", "rejected"},
         asked[o].pc \in {"approve", "reject", "promote"},
         status = "promoted" => PassedIn(asked[o].genome, versions),
         SetStatus(o, status)
  PROVE  /\ strategies' \in [Genomes -> RowType]
         /\ \A g \in Genomes : RowSound(g, strategies'[g], versions)
<1> DEFINE g == asked[o].genome
           copy == asked[o].copy
           new == [copy EXCEPT !.status = status]
<1>1. g \in Genomes /\ copy \in RowType /\ RowSound(g, copy, versions)
  BY DEF LabInv, TypeOK, AsksSound, AskSound, AskType
<1>2. new \in RowType /\ RowSound(g, new, versions)
  BY <1>1 DEF RowType, RowSound
<1>3. strategies' = [strategies EXCEPT ![g] = Flush(@, copy, new)]
  BY Zenon DEF SetStatus
<1>4. \A h \in Genomes : strategies[h] \in RowType /\ RowSound(h, strategies[h], versions)
  BY DEF LabInv, TypeOK, RowsSound
<1> HIDE DEF g, copy, new
<1>5. Flush(strategies[g], copy, new) \in RowType /\ RowSound(g, Flush(strategies[g], copy, new), versions)
  BY <1>1, <1>2, <1>4, RowsAreTyped, FlushSound
<1> QED BY <1>1, <1>3, <1>4, <1>5 DEF LabInv, TypeOK

LEMMA DecisionKeeps ==
  ASSUME LabInv, NEW o \in Operators, Approve(o) \/ Reject(o) \/ PromoteOnRequest(o) \/ Stop(o)
  PROVE  LabInv'
<1>1. /\ asked' = [asked EXCEPT ![o] = NoOp] /\ versions' = versions /\ run' = run
      /\ events' \in 0..MaxEvents
  BY DEF Approve, Reject, PromoteOnRequest, Stop, Decided, LabInv, TypeOK
<1>2. asked[o] \in AskType /\ AskSound(asked[o], versions)
  BY DEF LabInv, TypeOK, AsksSound
<1>3. /\ strategies \in [Genomes -> RowType] /\ \A g \in Genomes : RowSound(g, strategies[g], versions)
      /\ requests \in Seq(RequestType)
      /\ cycles \in [Learners -> {"none", "running", "completed", "failed", "stopped"}]
  BY DEF LabInv, TypeOK, RowsSound
<1>4. ASSUME NEW status \in {"approved", "rejected"},
             requests' = [requests EXCEPT ![asked[o].request].status = status]
      PROVE  /\ requests' \in Seq(RequestType) /\ DOMAIN requests' = DOMAIN requests
             /\ \A i \in DOMAIN requests : /\ requests'[i].genome = requests[i].genome
                                           /\ requests'[i].status = "awaiting" => requests[i].status = "awaiting"
  <2>1. \A i \in 1..Len(requests) : requests[i] \in RequestType /\ [requests[i] EXCEPT !.status = status] \in RequestType
    <3>1. \A i \in 1..Len(requests) : requests[i] \in RequestType
      BY <1>3
    <3>2. \A q \in RequestType : [q EXCEPT !.status = status] \in RequestType
      BY DEF RequestType
    <3> QED BY <3>1, <3>2
  <2>2. DOMAIN requests' = 1..Len(requests) /\ \A i \in 1..Len(requests) : requests'[i] \in RequestType
    BY <1>3, <1>4, <2>1
  <2>3. requests' \in [1..Len(requests) -> RequestType]
    BY <1>3, <1>4, <2>2
  <2>4. requests' \in Seq(RequestType)
    BY <1>3, <2>3
  <2>5. \A i \in DOMAIN requests : /\ requests'[i].genome = requests[i].genome
                                   /\ requests'[i].status \in {status, requests[i].status}
    BY <1>3, <1>4, <2>1 DEF RequestType
  <2> QED BY <1>3, <2>2, <2>4, <2>5
<1>5. CASE Approve(o)
  <2>1. /\ strategies' \in [Genomes -> RowType]
        /\ \A g \in Genomes : RowSound(g, strategies'[g], versions)
    BY <1>2, <1>5, StatusSet DEF Approve, AskSound
  <2>2. cycles' = cycles /\ requests' = [requests EXCEPT ![asked[o].request].status = "approved"]
    BY <1>5 DEF Approve
  <2> QED BY <1>1, <1>3, <1>4, <2>1, <2>2, IdleAsk, OperatorSteps
<1>6. CASE Reject(o)
  <2>1. /\ strategies' \in [Genomes -> RowType]
        /\ \A g \in Genomes : RowSound(g, strategies'[g], versions)
    BY <1>2, <1>6, StatusSet DEF Reject, AskSound
  <2>2. cycles' = cycles /\ requests' = [requests EXCEPT ![asked[o].request].status = "rejected"]
    BY <1>6 DEF Reject
  <2> QED BY <1>1, <1>3, <1>4, <2>1, <2>2, IdleAsk, OperatorSteps
<1>7. CASE PromoteOnRequest(o)
  <2> DEFINE sound == asked[o].copy.best.result.sound
  <2>1. SetStatus(o, IF sound THEN "promoted" ELSE "rejected") /\ asked[o].pc = "promote"
        /\ cycles' = cycles /\ requests' = requests
    BY <1>7 DEF PromoteOnRequest
  <2>2. sound => PassedIn(asked[o].genome, versions)
    <3>1. /\ asked[o].copy.best # NoVersion /\ asked[o].copy.best \in Versions \cup {NoVersion}
          /\ asked[o].copy.best.genome = asked[o].genome /\ versions[asked[o].copy.best] > 0
      BY <1>2, <2>1 DEF AskSound, RowSound, AskType, RowType
    <3> QED BY <3>1 DEF PassedIn
  <2>3. /\ strategies' \in [Genomes -> RowType]
        /\ \A g \in Genomes : RowSound(g, strategies'[g], versions)
    <3>1. CASE sound
      BY <2>1, <2>2, <3>1, StatusSet
    <3>2. CASE ~sound
      BY <2>1, <3>2, StatusSet
    <3> QED BY <3>1, <3>2
  <2> QED BY <1>1, <1>3, <2>1, <2>3, IdleAsk, OperatorSteps
<1>8. CASE Stop(o)
  <2>1. /\ UNCHANGED <<strategies, requests>>
        /\ cycles' = [l \in Learners |-> IF l \in asked[o].stop THEN "stopped" ELSE cycles[l]]
    BY <1>8 DEF Stop
  <2>2. /\ cycles' \in [Learners -> {"none", "running", "completed", "failed", "stopped"}]
        /\ \A l \in Learners : cycles'[l] = "running" => cycles[l] = "running"
    BY <1>3, <2>1
  <2> QED BY <1>1, <1>3, <2>1, <2>2, IdleAsk, OperatorSteps
<1> QED BY <1>5, <1>6, <1>7, <1>8

-----------------------------------------------------------------------------
LEMMA InitLab == Init => LabInv
<1> SUFFICES ASSUME Init PROVE LabInv
  OBVIOUS
<1>1. TypeOK
  BY TypeInit
<1>2. RowsSound /\ RequestsSound /\ CycleClosed
  BY DEF Init, RowsSound, RowSound, NoRow, RequestsSound, CycleClosed
<1>3. RunsSound
  BY NothingHeld DEF Init, RunsSound
<1>4. AsksSound
  BY IdleAsk DEF Init, AsksSound
<1>5. RequestsBounded
  <2> SUFFICES ASSUME NEW g \in Genomes
               PROVE  Cardinality(Awaiting(g)) + Cardinality(Asking(g)) <= Cardinality(Learners)
    BY DEF RequestsBounded
  <2>1. Awaiting(g) = {}
    BY DEF Init, Awaiting
  <2> QED BY <1>1, <2>1, Countable, FS_EmptySet
<1> QED BY <1>1, <1>2, <1>3, <1>4, <1>5 DEF LabInv

LEMMA StutterLab == ASSUME LabInv, UNCHANGED vars PROVE LabInv'
<1>1. TypeOK' /\ RowsSound' /\ RunsSound' /\ AsksSound' /\ RequestsSound' /\ CycleClosed'
  BY DEF LabInv, vars, TypeOK, RowsSound, RunsSound, AsksSound, RequestsSound, CycleClosed
<1>2. \A g \in Genomes : Awaiting(g)' = Awaiting(g) /\ Asking(g)' = Asking(g)
  BY DEF vars, Awaiting, Asking, At, Current
<1> QED BY <1>1, <1>2, CountKept DEF LabInv

LEMMA NextLab == LabInv /\ [Next]_vars => LabInv'
<1> SUFFICES ASSUME LabInv, [Next]_vars PROVE LabInv'
  OBVIOUS
<1>1. ASSUME NEW r \in Runs, Store(r) \/ Research(r) \/ Learn(r) \/ Break(r) \/ StartCycle(r) \/ Raise(r)
      PROVE  LabInv'
  BY <1>1, EvaluateKeeps, NoDataKeeps, CreateKeeps, AddVersionKeeps, RankKeeps, PromoteKeeps,
     EvolveKeeps, EndsKeep, JudgeKeeps, RequestKeeps, BreakKeeps, StartKeeps
     DEF Store, Research, Learn
<1>2. ASSUME NEW o \in Operators, Operate(o) PROVE LabInv'
  BY <1>2, ReadKeeps, DecisionKeeps DEF Operate
<1>3. CASE UNCHANGED vars
  BY <1>3, StutterLab
<1> QED BY <1>1, <1>2, <1>3 DEF Next

-----------------------------------------------------------------------------
(* The theorems *)

\* Every reachable state of the lab is well typed.
THEOREM TypeCorrect == Spec => []TypeOK
<1>1. LabInv => TypeOK
  BY DEF LabInv
<1> QED BY <1>1, InitLab, NextLab, PTL DEF Spec

\* Whatever stale copies the sessions write back, in whatever order, and whoever dies or raises
\* on the way: a promoted strategy has a recorded version of its own that passed a gate.
THEOREM PromotionEarned == Spec => []PromotedPassed
<1>1. LabInv => PromotedPassed
  BY DEF LabInv, RowsSound, RowSound, PassedIn, PromotedPassed, Passed
<1> QED BY <1>1, InitLab, NextLab, PTL DEF Spec

\* However the cycles race past each other's check, no strategy has more requests waiting than
\* there are cycles.
THEOREM RequestsStayFew == Spec => []AwaitingBounded
<1>1. LabInv => AwaitingBounded
  <2> SUFFICES ASSUME LabInv, NEW g \in Genomes
               PROVE  Cardinality(Awaiting(g)) <= Cardinality(Learners)
    BY DEF AwaitingBounded
  <2> QED BY Countable DEF LabInv, RequestsBounded
<1> QED BY <1>1, InitLab, NextLab, PTL DEF Spec

\* A cycle that ended closed its row.
THEOREM CyclesClose == Spec => []CycleClosed
<1>1. LabInv => CycleClosed
  BY DEF LabInv
<1> QED BY <1>1, InitLab, NextLab, PTL DEF Spec
=============================================================================
