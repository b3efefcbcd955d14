-------------------------- MODULE Operations_proofs --------------------------
(***************************************************************************)
(* One process migrates and cleans at a time, and a marked cleanup is      *)
(* never repeated: for any candle jobs, any number of lock attempts and    *)
(* any number of crashes and failures.                                     *)
(***************************************************************************)
EXTENDS Operations, SequenceTheorems, WellFoundedInduction, TLAPS

BootOK == boot \in [Processes -> [pc : Pcs, tries : 0..Tries]]
HolderMigrates == \A p \in Processes : Migrating(p) => holder = p
Tracked == marker \/ (\E p \in Processes : Is(p, "wipe") \/ Is(p, "mark")) => schema = "head"
WipesUnmarked == \A p \in Processes : Is(p, "wipe") => ~marker

\* Alone, neither property is inductive: a process wipes without harm because it holds the
\* lock since before it read the marker.
BootInv == BootOK /\ HolderMigrates /\ Tracked /\ WipesUnmarked

LEMMA InitBoot == Init => BootInv
BY TriesAssumption
   DEF Init, BootInv, BootOK, HolderMigrates, Tracked, WipesUnmarked, Migrating, Is, Down, Pcs

\* A step of one process that starts or ends no migration of its own.
LEMMA Aside ==
  ASSUME BootInv, NEW p \in Processes, NEW pc \in Pcs \ {"sync", "wipe", "mark"},
         NEW tries \in 0..Tries, boot' = [boot EXCEPT ![p] = [pc |-> pc, tries |-> tries]],
         marker' = marker, schema' = schema,
         holder' = holder \/ (holder = p /\ holder' = Free)
  PROVE  BootInv'
BY DEF BootInv, BootOK, HolderMigrates, Tracked, WipesUnmarked, Migrating, Is, Pcs

\* What Goes does, in the form of Aside.
LEMMA Going ==
  ASSUME BootOK, NEW p \in Processes, NEW pc, Goes(p, pc)
  PROVE  /\ boot[p].tries \in 0..Tries
         /\ boot' = [boot EXCEPT ![p] = [pc |-> pc, tries |-> boot[p].tries]]
<1>1. boot[p] \in [pc : Pcs, tries : 0..Tries]
  BY DEF BootOK
<1>2. [boot[p] EXCEPT !.pc = pc] = [pc |-> pc, tries |-> boot[p].tries]
  BY <1>1
<1>3. boot' = [boot EXCEPT ![p] = [boot[p] EXCEPT !.pc = pc]]
  BY DEF BootOK, Goes
<1> QED BY <1>1, <1>2, <1>3

LEMMA Initialising ==
  ASSUME BootOK, NEW p \in Processes, Initialised(p) \/ NotInitialised(p)
  PROVE  \E pc \in {"up", "recover", "failed"} : Goes(p, pc)
BY DEF Initialised, NotInitialised

\* The steps of a migration, by its lock.
LEMMA MigrationSteps ==
  ASSUME BootInv, NEW p \in Processes, TryLock(p) \/ Migrate(p) \/ Wipe(p) \/ Mark(p) \/ InitFails(p)
  PROVE  BootInv'
<1>1. BootOK /\ \A q \in Processes : Migrating(q) => holder = q
  BY DEF BootInv, HolderMigrates
<1>2. CASE TryLock(p)
  BY <1>1, <1>2, Going
     DEF TryLock, BootInv, BootOK, HolderMigrates, Tracked, WipesUnmarked, Migrating, Is, Free, Processes, Pcs
<1>3. CASE Migrate(p)
  <2>1. CASE schema = "head" /\ marker
    <3>1. PICK pc \in {"up", "recover", "failed"} : Goes(p, pc)
      BY <1>1, <1>3, <2>1, Initialising DEF Migrate
    <3>2. schema' = schema /\ marker' = marker /\ holder = p /\ holder' = Free
      BY <1>1, <1>3, <2>1 DEF Migrate, Migrating
    <3> QED BY <1>1, <3>1, <3>2, Going, Aside DEF Pcs
  <2>2. CASE ~(schema = "head" /\ marker)
    <3>1. ~marker
      BY <2>2 DEF BootInv, Tracked
    <3> QED BY <1>1, <1>3, <2>2, <3>1, Going
        DEF Migrate, BootInv, BootOK, HolderMigrates, Tracked, WipesUnmarked, Migrating, Is, Pcs
  <2> QED BY <2>1, <2>2
<1>4. CASE Wipe(p)
  BY <1>1, <1>4, Going
     DEF Wipe, BootInv, BootOK, HolderMigrates, Tracked, WipesUnmarked, Migrating, Is, Pcs
<1>5. CASE Mark(p)
  <2>1. PICK pc \in {"up", "recover", "failed"} : Goes(p, pc)
    BY <1>1, <1>5, Initialising DEF Mark
  <2>2. holder = p /\ schema = "head"
    BY <1>1, <1>5 DEF Mark, Migrating, BootInv, Tracked, Is
  <2> QED BY <1>1, <1>5, <2>1, <2>2, Going
      DEF Mark, BootInv, BootOK, HolderMigrates, Tracked, WipesUnmarked, Migrating, Is, Pcs
<1>6. CASE InitFails(p)
  <2>1. PICK pc \in {"up", "recover", "failed"} : Goes(p, pc)
    BY <1>1, <1>6, Initialising DEF InitFails
  <2> QED BY <1>1, <1>6, <2>1, Going, Aside DEF InitFails, Pcs
<1> QED BY <1>2, <1>3, <1>4, <1>5, <1>6

\* Every other step of the boot.
LEMMA OtherSteps ==
  ASSUME BootInv, NEW p \in Processes, Start(p) \/ LockBusy(p) \/ Recover \/ Preflight \/ Hang(p) \/ Crash(p)
  PROVE  BootInv'
<1>1. BootOK /\ "scheduler" \in Processes
  BY DEF BootInv, Processes
<1>2. CASE Start(p)
  <2>1. Tries \in 0..Tries /\ "try" \in Pcs \ {"sync", "wipe", "mark"}
    BY TriesAssumption DEF Pcs
  <2> QED BY <1>2, <2>1, Aside DEF Start
<1>3. CASE LockBusy(p)
  <2>1. CASE boot[p].tries > 1
    <3>1. boot' = [boot EXCEPT ![p] = [pc |-> "try", tries |-> boot[p].tries - 1]]
      BY <1>1, <1>3, <2>1 DEF LockBusy, BootOK, Is
    <3>2. boot[p].tries - 1 \in 0..Tries
      BY <1>1, <2>1, TriesAssumption DEF BootOK
    <3>3. "try" \in Pcs \ {"sync", "wipe", "mark"}
      BY DEF Pcs
    <3> QED BY <1>3, <3>1, <3>2, <3>3, Aside DEF LockBusy
  <2>2. CASE ~(boot[p].tries > 1)
    <3>1. PICK pc \in {"up", "recover", "failed"} : Goes(p, pc)
      BY <1>1, <1>3, <2>2, Initialising DEF LockBusy
    <3> QED BY <1>1, <1>3, <3>1, Going, Aside DEF LockBusy, Pcs
  <2> QED BY <2>1, <2>2
<1>4. CASE Recover
  <2>1. CASE schema = "none"
    BY <1>1, <1>4, <2>1, Aside, TriesAssumption DEF Recover, Down, Pcs
  <2>2. CASE schema # "none"
    BY <1>1, <1>4, <2>2, Going, Aside DEF Recover, Pcs
  <2> QED BY <2>1, <2>2
<1>5. CASE Preflight
  BY <1>1, <1>5, Going, Aside DEF Preflight, Pcs
<1>6. CASE Hang(p)
  BY <1>1, <1>6, Going, Aside DEF Hang, Pcs
<1>7. CASE Crash(p)
  <2>1. 0 \in 0..Tries /\ "down" \in Pcs \ {"sync", "wipe", "mark"}
    BY TriesAssumption DEF Pcs
  <2>2. /\ boot' = [boot EXCEPT ![p] = [pc |-> "down", tries |-> 0]]
        /\ marker' = marker /\ schema' = schema
        /\ holder' = holder \/ (holder = p /\ holder' = Free)
    BY <1>7 DEF Crash, Down
  <2> QED BY <2>1, <2>2, Aside
<1> QED BY <1>2, <1>3, <1>4, <1>5, <1>6, <1>7

\* What a step of the whole does to the boot.
LEMMA StepOf ==
  ASSUME [Next]_vars
  PROVE  \/ \E p \in Processes : \/ TryLock(p) \/ Migrate(p) \/ Wipe(p) \/ Mark(p) \/ InitFails(p)
                                 \/ Start(p) \/ LockBusy(p) \/ Recover \/ Preflight \/ Hang(p) \/ Crash(p)
         \/ /\ UNCHANGED <<boot, holder, marker, schema>>
            /\ paper' = paper \/ paper'
BY DEF Next, Operate, Disturb, Boot, vars, opsVars, Cycle, Poll, Age, PaperTrade, Processes

LEMMA NextBoot == BootInv /\ [Next]_vars => BootInv'
<1> SUFFICES ASSUME BootInv, [Next]_vars PROVE BootInv'
  OBVIOUS
<1>1. CASE UNCHANGED <<boot, holder, marker, schema>>
  BY <1>1 DEF BootInv, BootOK, HolderMigrates, Tracked, WipesUnmarked, Migrating, Is
<1> QED BY <1>1, StepOf, MigrationSteps, OtherSteps

\* However the two boots interleave with crashes and failures, one process at a time migrates,
\* stamps or cleans (init_db.py: the advisory lock).
THEOREM MigratorsExclude == Spec => []OneMigrator
<1>1. BootInv => OneMigrator
  BY DEF BootInv, HolderMigrates, OneMigrator
<1> QED BY <1>1, InitBoot, NextBoot, PTL DEF Spec

\* A step that deletes paper trades is taken only while the cleanup is not marked.
LEMMA WipeStep == BootInv /\ [Next]_vars => [marker /\ paper => paper']_vars
<1> SUFFICES ASSUME BootInv, [Next]_vars, marker, paper PROVE paper'
  OBVIOUS
<1>1. \A p \in Processes : ~Wipe(p)
  BY DEF BootInv, WipesUnmarked, Wipe
<1>2. ASSUME NEW p \in Processes,
             \/ TryLock(p) \/ Migrate(p) \/ Mark(p) \/ InitFails(p) \/ Start(p) \/ LockBusy(p)
             \/ Recover \/ Preflight \/ Hang(p) \/ Crash(p)
      PROVE  paper' = paper
  BY <1>2 DEF TryLock, Migrate, Mark, InitFails, Start, LockBusy, Recover, Preflight, Hang, Crash
<1> QED BY <1>1, <1>2, StepOf

\* Once the cleanup is marked as done no boot deletes paper trades again (init_db.py:130-138).
THEOREM CleanupOnce == Spec => OneWipe
<1> QED BY InitBoot, NextBoot, WipeStep, PTL DEF Spec, OneWipe

-----------------------------------------------------------------------------
(* What the pipeline emits: a recursion along the batch *)

LEMMA LeastOf ==
  ASSUME NEW T, T \subseteq Nat, T # {}
  PROVE  \E x \in T : \A y \in T : x <= y
<1> DEFINE R == {ss \in Nat \X Nat : ss[1] < ss[2]}
<1>1. IsWellFoundedOn(OpToRel(<, Nat), Nat) BY NatLessThanWellFounded
<1>2. OpToRel(<, Nat) = R BY DEF OpToRel
<1>3. IsWellFoundedOn(R, Nat) BY <1>1, <1>2
<1>4. \A x, y \in Nat : x < y => <<x, y>> \in R OBVIOUS
<1> HIDE DEF R
<1>5. PICK x \in T : \A y \in T : ~(<<y, x>> \in R) BY <1>3, WFMin
<1>6. ASSUME NEW y \in T PROVE x <= y
  <2>1. x \in Nat /\ y \in Nat /\ ~(<<y, x>> \in R) BY <1>5
  <2>2. ~(y < x) BY <1>4, <2>1
  <2> QED BY <2>1, <2>2
<1> QED BY <1>6

\* Induction up to n, over the set of the numbers a property holds of.
LEMMA UpTo ==
  ASSUME NEW n \in Nat, NEW Good, 0 \in Good, \A k \in 1..n : k - 1 \in Good => k \in Good
  PROVE  0..n \subseteq Good
<1> DEFINE Bad == {k \in 0..n : k \notin Good}
<1> SUFFICES ASSUME Bad # {} PROVE FALSE OBVIOUS
<1>1. Bad \subseteq Nat OBVIOUS
<1>2. PICK k \in Bad : \A j \in Bad : k <= j
  <2> HIDE DEF Bad
  <2> QED BY <1>1, LeastOf
<1>3. k \in 1..n /\ k \notin Good OBVIOUS
<1>4. k - 1 \notin Bad
  <2>1. ~(k <= k - 1) BY <1>3
  <2> HIDE DEF Bad
  <2> QED BY <1>2, <2>1
<1>5. k - 1 \in Good BY <1>3, <1>4
<1> QED BY <1>3, <1>5

\* The same, of the last number alone.
LEMMA UpToLast ==
  ASSUME NEW n \in Nat, NEW Good, 0 \in Good, \A k \in 1..n : k - 1 \in Good => k \in Good
  PROVE  n \in Good
<1>1. 0..n \subseteq Good BY UpTo
<1>2. n \in 0..n OBVIOUS
<1> QED BY <1>1, <1>2

\* A candle of a batch, and what the judgement has made of the candles before.
Candle == [bar : Bars, close : Closes]
Stores == UNION {[D -> Closes] : D \in SUBSET Bars}
Sound(out) == out \in Stores /\ \A b \in DOMAIN out : out[b] # Malformed

LEMMA EmptyIsSound == Sound(Nothing)
<1>1. Nothing \in [{} -> Closes] /\ DOMAIN Nothing = {} BY DEF Nothing
<1> QED BY <1>1 DEF Sound, Stores

LEMMA JudgeIsSound ==
  ASSUME NEW seen, Sound(seen.out), NEW c \in Candle
  PROVE  Sound(Judge(seen, c).out)
<1>1. c.bar \in Bars /\ c.close \in Closes BY DEF Candle
<1>2. PICK D \in SUBSET Bars : seen.out \in [D -> Closes] BY DEF Sound, Stores
<1>3. CASE Emits(c, seen.prev)
  <2>1. c.close # Malformed BY <1>3 DEF Emits, Broken
  <2>2. With(seen.out, c) \in [{c.bar} \cup D -> Closes] BY <1>1, <1>2 DEF With
  <2>3. \A b \in {c.bar} \cup D : With(seen.out, c)[b] # Malformed BY <1>2, <2>1 DEF With, Sound
  <2>4. {c.bar} \cup D \in SUBSET Bars BY <1>1
  <2>5. Sound(With(seen.out, c)) BY <2>2, <2>3, <2>4 DEF Sound, Stores
  <2> QED BY <1>3, <2>5 DEF Judge
<1>4. CASE ~Emits(c, seen.prev) BY <1>4 DEF Judge
<1> QED BY <1>3, <1>4

\* Vet's function exists, and what it has emitted after every candle is sound.
LEMMA VetIsSound ==
  ASSUME NEW batch \in Seq(Candle)
  PROVE  Sound(Vet(batch))
<1> DEFINE n == Len(batch)
           start == [prev |-> NewestClean, out |-> Nothing]
           Step(f, i) == IF i = 0 THEN start ELSE Judge(f[i - 1], batch[i])
           Follows(f, k) == DOMAIN f = 0..k /\ \A i \in 0..k : f[i] = Step(f, i)
           Good == {k \in 0..n : \E f : f = [i \in 0..k |-> f[i]] /\ Follows(f, k)}
           seen == CHOOSE f : f = [i \in 0..n |-> Step(f, i)]
<1>1. n \in Nat OBVIOUS
<1>2. 0 \in Good
  <2> DEFINE f == [i \in 0..0 |-> start]
  <2>1. f = [i \in 0..0 |-> f[i]] /\ Follows(f, 0) OBVIOUS
  <2>2. 0 \in 0..n BY <1>1
  <2> HIDE DEF f, Follows
  <2> QED BY <2>1, <2>2
<1>3. ASSUME NEW k \in 1..n, k - 1 \in Good PROVE k \in Good
  <2>1. PICK g : g = [i \in 0..(k - 1) |-> g[i]] /\ Follows(g, k - 1) BY <1>3
  <2> DEFINE f == [i \in 0..k |-> IF i = k THEN Judge(g[k - 1], batch[k]) ELSE g[i]]
  <2>2. k \in Nat /\ k # 0 /\ k - 1 \in 0..k /\ k - 1 # k OBVIOUS
  <2>3. \A i \in 0..k : i # k => i \in 0..(k - 1) /\ f[i] = g[i] OBVIOUS
  <2>4. ASSUME NEW i \in 0..k PROVE f[i] = Step(f, i)
    <3>1. CASE i = k BY <2>2, <2>3, <3>1
    <3>2. CASE i = 0 BY <2>1, <2>2, <2>3, <3>2
    <3>3. CASE i # k /\ i # 0
      <4>1. i \in 0..(k - 1) /\ i - 1 \in 0..k /\ i - 1 # k BY <3>3
      <4>2. f[i] = g[i] /\ f[i - 1] = g[i - 1] BY <2>3, <3>3, <4>1
      <4>3. g[i] = Judge(g[i - 1], batch[i]) BY <2>1, <3>3, <4>1
      <4> HIDE DEF f
      <4> QED BY <3>3, <4>2, <4>3
    <3> QED BY <3>1, <3>2, <3>3
  <2>5. f = [i \in 0..k |-> f[i]] /\ DOMAIN f = 0..k OBVIOUS
  <2> HIDE DEF f
  <2>6. Follows(f, k) BY <2>4, <2>5
  <2> HIDE DEF Follows
  <2> QED BY <2>5, <2>6
<1>4. n \in Good
  <2> HIDE DEF Good, Follows, Step, start, n
  <2>1. \A k \in 1..n : k - 1 \in Good => k \in Good BY <1>3
  <2> QED BY <1>1, <1>2, <2>1, UpToLast
<1>5. seen = [i \in 0..n |-> Step(seen, i)]
  <2>1. PICK f : f = [i \in 0..n |-> f[i]] /\ Follows(f, n) BY <1>4
  <2>2. f = [i \in 0..n |-> Step(f, i)] BY <2>1
  <2> HIDE DEF Step
  <2> QED BY <2>2
<1> HIDE DEF seen
<1> DEFINE Fine == {k \in 0..n : Sound(seen[k].out)}
<1>6. 0 \in Fine
  <2>1. 0 \in 0..n BY <1>1
  <2>2. seen[0] = start BY <1>5, <2>1
  <2> QED BY <2>1, <2>2, EmptyIsSound
<1>7. ASSUME NEW k \in 1..n, k - 1 \in Fine PROVE k \in Fine
  <2>1. k \in 0..n /\ k # 0 BY <1>1
  <2>2. seen[k] = Judge(seen[k - 1], batch[k]) BY <1>5, <2>1
  <2>3. batch[k] \in Candle OBVIOUS
  <2>4. Sound(seen[k - 1].out) BY <1>7
  <2> QED BY <2>1, <2>2, <2>3, <2>4, JudgeIsSound
<1>8. n \in Fine
  <2> HIDE DEF Fine, Good, Follows, Step, start, n
  <2>1. \A k \in 1..n : k - 1 \in Fine => k \in Fine BY <1>7
  <2> QED BY <1>1, <1>6, <2>1, UpToLast
<1>9. Vet(batch) = seen[n].out BY DEF Vet, seen
<1> QED BY <1>8, <1>9

-----------------------------------------------------------------------------
(* The candles *)

HeldType == [pc : {"idle", "fetched", "vetted"}, last : 0..MaxBars, form : Closes \cup {None}, out : Stores]

\* What a job holds: a request is of bars that exist, and what an ingestion is about to promote
\* is sound and was committed clean.
HeldSound(j, f, shut, table) ==
  /\ f \in HeldType
  /\ f.pc = "fetched" => f.last <= Len(shut) /\ f.form \in Closes
  /\ j \in Ingesting => Sound(f.out) /\ DOMAIN f.out \subseteq DOMAIN table

MarketOK == closed \in Seq(Levels) /\ Len(closed) <= MaxBars /\ forming \in Levels
TablesOK == clean \in Stores /\ IsStore([b \in DOMAIN hist |-> hist[b].close])
FeedInv ==
  /\ MarketOK /\ TablesOK /\ HistVetted
  /\ DOMAIN feed = Jobs /\ \A j \in Jobs : HeldSound(j, feed[j], closed, clean)

LEMMA IdleIsSound ==
  ASSUME NEW j, NEW shut, NEW table PROVE HeldSound(j, Idle, shut, table)
<1>1. Nothing \in Stores /\ Sound(Nothing) BY EmptyIsSound DEF Sound
<1>2. DOMAIN Nothing = {} BY DEF Nothing
<1> HIDE DEF Sound
<1> QED BY <1>1, <1>2, FeedAssumption DEF HeldSound, HeldType, Idle

LEMMA BatchIsSound ==
  ASSUME MarketOK, NEW last \in 0..MaxBars, last <= Len(closed), NEW form \in Closes
  PROVE  Batch(last, form) \in Seq(Candle)
<1> DEFINE from == IF last + 2 - Window > 1 THEN last + 2 - Window ELSE 1
           n == last + 2 - from
           Row(i) == [bar |-> from + i - 1, close |-> IF from + i - 1 > last THEN form ELSE closed[from + i - 1]]
<1>1. from \in Nat /\ 1 <= from /\ from <= last + 1 /\ n \in Nat BY FeedAssumption
<1>2. MaxBars \in Nat /\ last \in Nat /\ last <= MaxBars BY FeedAssumption
<1>3. ASSUME NEW i \in 1..n PROVE Row(i) \in Candle
  <2> DEFINE b == from + i - 1
  <2>1. b \in Nat /\ 1 <= b /\ b <= last + 1 BY <1>1
  <2> HIDE DEF b
  <2>2. b \in Bars BY <1>2, <2>1 DEF Bars
  <2>3. b <= last => closed[b] \in Closes
    <3>1. b <= last => b \in 1..Len(closed) BY <1>2, <2>1 DEF MarketOK
    <3> QED BY <3>1 DEF MarketOK, Closes
  <2>4. (IF b > last THEN form ELSE closed[b]) \in Closes BY <1>2, <2>1, <2>3
  <2>5. [bar |-> b, close |-> IF b > last THEN form ELSE closed[b]] \in Candle BY <2>2, <2>4 DEF Candle
  <2> QED BY <2>5 DEF b
<1>4. Batch(last, form) = [i \in 1..n |-> Row(i)] BY DEF Batch
<1> HIDE DEF n, Row
<1>5. Batch(last, form) \in [1..n -> Candle] BY <1>3, <1>4
<1> QED BY <1>1, <1>5, SeqDef

\* Inserting sound rows leaves a sound table that has them all.
LEMMA InsertKeeps ==
  ASSUME NEW table \in Stores, NEW rows \in Stores
  PROVE  /\ Insert(table, rows) \in Stores
         /\ DOMAIN Insert(table, rows) = DOMAIN table \cup DOMAIN rows
<1>1. PICK D \in SUBSET Bars : table \in [D -> Closes] BY DEF Stores
<1>2. PICK E \in SUBSET Bars : rows \in [E -> Closes] BY DEF Stores
<1>3. Insert(table, rows) \in [D \cup E -> Closes] BY <1>1, <1>2 DEF Insert
<1>4. D \cup E \in SUBSET Bars OBVIOUS
<1> QED BY <1>1, <1>2, <1>3, <1>4 DEF Stores

\* A job changes what it holds, the tables grow, the market stands still.
LEMMA HeldChanges ==
  ASSUME FeedInv, NEW j \in Jobs, NEW f, HeldSound(j, f, closed, clean'),
         feed' = [feed EXCEPT ![j] = f], UNCHANGED <<closed, forming>>,
         TablesOK', HistVetted', DOMAIN clean \subseteq DOMAIN clean'
  PROVE  FeedInv'
<1>1. DOMAIN feed' = Jobs /\ feed'[j] = f /\ \A i \in Jobs : i # j => feed'[i] = feed[i] BY DEF FeedInv
<1>2. \A i \in Jobs : HeldSound(i, feed[i], closed, clean') BY DEF FeedInv, HeldSound
<1>3. \A i \in Jobs : HeldSound(i, feed'[i], closed', clean') BY <1>1, <1>2
<1> QED BY <1>1, <1>3 DEF FeedInv, MarketOK

LEMMA InitFeed == FeedInit => FeedInv
<1> SUFFICES ASSUME FeedInit PROVE FeedInv OBVIOUS
<1>1. DOMAIN Nothing = {} /\ Nothing \in Stores BY EmptyIsSound DEF Nothing, Sound
<1>2. closed \in Seq(Levels) /\ Len(closed) = 0 /\ forming \in Levels BY DEF FeedInit
<1>3. TablesOK BY <1>1 DEF FeedInit, TablesOK, IsStore
<1>4. HistVetted BY <1>1 DEF FeedInit, HistVetted
<1>5. DOMAIN feed = Jobs /\ \A j \in Jobs : feed[j] = Idle BY DEF FeedInit
<1> QED BY <1>2, <1>3, <1>4, <1>5, IdleIsSound, FeedAssumption DEF FeedInv, MarketOK

JobStep(j) ==
  \/ \E form \in Closes : Fetch(j, form)
  \/ Accept(j) \/ LoadGateio \/ (\E b \in Bars : LoadCsv(b)) \/ Store(j) \/ JobFails(j)

LEMMA JobKeeps ==
  ASSUME FeedInv, NEW j, JobStep(j) PROVE FeedInv'
<1>1. MarketOK /\ TablesOK /\ HistVetted /\ DOMAIN feed = Jobs
  BY DEF FeedInv
<1>2. \A i \in Jobs : feed[i] \in HeldType /\ HeldSound(i, feed[i], closed, clean)
  BY DEF FeedInv, HeldSound
<1>3. UNCHANGED <<clean, hist>> => TablesOK' /\ HistVetted' /\ DOMAIN clean \subseteq DOMAIN clean'
  BY <1>1 DEF TablesOK, HistVetted
<1>4. ASSUME NEW form \in Closes, Fetch(j, form) PROVE FeedInv'
  <2> DEFINE f == [pc |-> "fetched", last |-> Len(closed), form |-> form, out |-> Nothing]
  <2>1. j \in Jobs /\ feed' = [feed EXCEPT ![j] = f] /\ UNCHANGED <<closed, forming, clean, hist>>
    BY <1>4 DEF Fetch, At
  <2>2. Len(closed) \in 0..MaxBars /\ Len(closed) <= Len(closed) BY <1>1 DEF MarketOK
  <2>3. Nothing \in Stores /\ Sound(Nothing) /\ DOMAIN Nothing = {} BY EmptyIsSound DEF Sound, Nothing
  <2>4. f \in HeldType BY <2>2, <2>3 DEF HeldType
  <2>5. HeldSound(j, f, closed, clean') BY <2>2, <2>3, <2>4 DEF HeldSound
  <2> HIDE DEF f
  <2> QED BY <1>3, <2>1, <2>5, HeldChanges
<1>5. CASE Accept(j)
  <2> DEFINE batch == Batch(feed[j].last, feed[j].form)
             out == Vet(batch)
             f == IF j \in Ingesting /\ out # Nothing THEN [feed[j] EXCEPT !.pc = "vetted", !.out = out] ELSE Idle
  <2>1. /\ j \in Jobs /\ feed[j].pc = "fetched" /\ UNCHANGED <<closed, forming, hist>>
        /\ clean' = Insert(clean, out) /\ feed' = [feed EXCEPT ![j] = f]
    BY <1>5 DEF Accept, At
  <2>2. /\ feed[j].last \in 0..MaxBars /\ feed[j].last <= Len(closed) /\ feed[j].form \in Closes
        /\ feed[j] \in HeldType
    BY <1>2, <2>1 DEF HeldSound, HeldType
  <2>3. batch \in Seq(Candle) BY <1>1, <2>2, BatchIsSound
  <2> HIDE DEF batch
  <2>4. Sound(out) BY <2>3, VetIsSound
  <2>5. out \in Stores /\ clean \in Stores BY <1>1, <2>4 DEF Sound, TablesOK
  <2> HIDE DEF out
  <2>6. clean' \in Stores /\ DOMAIN clean' = DOMAIN clean \cup DOMAIN out BY <2>1, <2>5, InsertKeeps
  <2>7. TablesOK' BY <1>1, <2>1, <2>6 DEF TablesOK
  <2>8. HistVetted' BY <1>1, <2>1, <2>6 DEF HistVetted
  <2>9. HeldSound(j, f, closed, clean')
    <3>1. CASE j \in Ingesting /\ out # Nothing
      <4>1. f = [pc |-> "vetted", last |-> feed[j].last, form |-> feed[j].form, out |-> out]
        BY <2>2, <3>1 DEF HeldType
      <4> HIDE DEF f
      <4>2. f \in HeldType BY <2>2, <2>5, <4>1 DEF HeldType
      <4> QED BY <2>4, <2>6, <4>1, <4>2 DEF HeldSound
    <3>2. CASE ~(j \in Ingesting /\ out # Nothing) BY <3>2, IdleIsSound
    <3> QED BY <3>1, <3>2
  <2> HIDE DEF f
  <2> QED BY <2>1, <2>6, <2>7, <2>8, <2>9, HeldChanges
<1> DEFINE Loaded(rows) == [Idle EXCEPT !.pc = "vetted", !.last = Len(closed), !.out = rows]
<1>6. ASSUME LoadGateio \/ \E b \in Bars : LoadCsv(b) PROVE FeedInv'
  <2>1. PICK rows \in Stores : /\ feed' = [feed EXCEPT !["load"] = Loaded(rows)]
                               /\ UNCHANGED <<closed, forming, clean, hist>>
    <3>1. CASE LoadGateio
      <4> DEFINE rows == [b \in 1..(Len(closed) + 1) |-> IF b > Len(closed) THEN forming ELSE closed[b]]
      <4>1. /\ feed' = [feed EXCEPT !["load"] = Loaded(rows)]
            /\ UNCHANGED <<closed, forming, clean, hist>>
        BY <3>1 DEF LoadGateio
      <4>2. Len(closed) \in Nat /\ \A b \in 1..Len(closed) : closed[b] \in Closes
        BY <1>1 DEF MarketOK, Closes
      <4>3. \A b \in 1..(Len(closed) + 1) : ~(b > Len(closed)) => b \in 1..Len(closed) BY <4>2
      <4>4. rows \in [1..(Len(closed) + 1) -> Closes] BY <1>1, <4>2, <4>3 DEF MarketOK, Closes
      <4>5. 1..(Len(closed) + 1) \in SUBSET Bars BY <1>1, <4>2, FeedAssumption DEF MarketOK, Bars
      <4>6. rows \in Stores BY <4>4, <4>5 DEF Stores
      <4> QED BY <4>1, <4>6
    <3>2. ASSUME NEW b \in Bars, LoadCsv(b)
          PROVE  \E rows \in Stores :
                   /\ feed' = [feed EXCEPT !["load"] = Loaded(rows)]
                   /\ UNCHANGED <<closed, forming, clean, hist>>
      <4>1. [x \in {b} |-> Malformed] \in [{b} -> Closes] BY DEF Closes
      <4>2. [x \in {b} |-> Malformed] \in Stores BY <4>1 DEF Stores
      <4> QED BY <3>2, <4>2 DEF LoadCsv
    <3> QED BY <1>6, <3>1, <3>2
  <2> DEFINE f == Loaded(rows)
  <2>2. "load" \in Jobs /\ "load" \notin Ingesting BY <1>6 DEF LoadGateio, LoadCsv, At, Ingesting
  <2>3. HeldSound("load", f, closed, clean')
    <3>1. Idle \in HeldType BY IdleIsSound DEF HeldSound
    <3>2. Len(closed) \in 0..MaxBars /\ Len(closed) <= Len(closed) BY <1>1 DEF MarketOK
    <3>3. f \in HeldType /\ f.pc = "vetted" /\ f.last = Len(closed) BY <3>1, <3>2 DEF HeldType
    <3> HIDE DEF f
    <3> QED BY <2>2, <3>2, <3>3 DEF HeldSound
  <2>4. feed' = [feed EXCEPT !["load"] = f] /\ UNCHANGED <<closed, forming, clean, hist>> BY <2>1
  <2> HIDE DEF f
  <2> QED BY <1>3, <2>2, <2>3, <2>4, HeldChanges
<1>7. CASE Store(j)
  <2> DEFINE out == feed[j].out
             rows == [b \in DOMAIN out |-> [close |-> out[b], by |-> j, early |-> b > feed[j].last]]
  <2>1. /\ j \in Jobs /\ feed' = [feed EXCEPT ![j] = Idle] /\ UNCHANGED <<closed, forming, clean>>
        /\ hist' = Insert(hist, rows)
    BY <1>7 DEF Store, At
  <2>2. out \in Stores BY <1>2, <2>1 DEF HeldType
  <2>3. DOMAIN out \subseteq Bars /\ \A b \in DOMAIN out : out[b] \in Closes BY <2>2 DEF Stores
  <2>4. /\ DOMAIN hist' = DOMAIN hist \cup DOMAIN out
        /\ \A b \in DOMAIN hist : hist'[b] = hist[b]
        /\ \A b \in DOMAIN out : b \notin DOMAIN hist => hist'[b].close = out[b] /\ hist'[b].by = j
    BY <2>1 DEF Insert
  <2>5. TablesOK'
    <3>1. DOMAIN hist \subseteq Bars /\ \A b \in DOMAIN hist : hist[b].close \in Closes
      BY <1>1 DEF TablesOK, IsStore
    <3>2. DOMAIN hist' \subseteq Bars BY <2>3, <2>4, <3>1
    <3>3. ASSUME NEW b \in DOMAIN hist' PROVE hist'[b].close \in Closes
      <4>1. CASE b \in DOMAIN hist BY <2>4, <3>1, <4>1
      <4>2. CASE b \notin DOMAIN hist
        <5>1. b \in DOMAIN out /\ hist'[b].close = out[b] /\ hist'[b].by = j BY <2>4, <4>2
        <5> QED BY <2>3, <5>1
      <4> QED BY <4>1, <4>2
    <3> QED BY <1>1, <2>1, <3>2, <3>3 DEF TablesOK, IsStore
  <2>6. HistVetted'
    <3>1. ASSUME NEW b \in DOMAIN hist', hist'[b].by \in Ingesting
          PROVE  b \in DOMAIN clean /\ hist'[b].close # Malformed
      <4>1. CASE b \in DOMAIN hist BY <1>1, <2>4, <3>1, <4>1 DEF HistVetted
      <4>2. CASE b \notin DOMAIN hist
        <5>1. b \in DOMAIN out /\ hist'[b].close = out[b] /\ hist'[b].by = j BY <2>4, <4>2
        <5>2. Sound(out) /\ DOMAIN out \subseteq DOMAIN clean BY <1>2, <2>1, <3>1, <5>1 DEF HeldSound
        <5> QED BY <5>1, <5>2 DEF Sound
      <4> QED BY <4>1, <4>2
    <3> QED BY <2>1, <3>1 DEF HistVetted
  <2> QED BY <2>1, <2>5, <2>6, IdleIsSound, HeldChanges
<1>8. CASE JobFails(j)
  <2>1. j \in Jobs /\ feed' = [feed EXCEPT ![j] = Idle] /\ UNCHANGED <<closed, forming, clean, hist>>
    BY <1>8 DEF JobFails, At
  <2> QED BY <1>3, <2>1, IdleIsSound, HeldChanges
<1> QED BY <1>4, <1>5, <1>6, <1>7, <1>8 DEF JobStep

\* The market closes bars; what was asked for before stays within them.
LEMMA MarketKeeps ==
  ASSUME FeedInv, Trade \/ CloseBar PROVE FeedInv'
<1>1. MarketOK' /\ Len(closed) \in Nat /\ Len(closed') \in Nat /\ Len(closed) <= Len(closed')
  <2>1. MarketOK BY DEF FeedInv
  <2>2. CASE Trade BY <2>1, <2>2 DEF Trade, MarketOK
  <2>3. CASE CloseBar
    <3>1. closed \in Seq(Levels) /\ forming \in Levels BY <2>1 DEF MarketOK
    <3>2. Append(closed, forming) \in Seq(Levels) /\ Len(Append(closed, forming)) = Len(closed) + 1 BY <3>1
    <3> QED BY <2>3, <3>1, <3>2, FeedAssumption DEF CloseBar, MarketOK
  <2> QED BY <2>2, <2>3
<1>2. UNCHANGED <<clean, hist, feed>> BY DEF Trade, CloseBar
<1>3. \A j \in Jobs : HeldSound(j, feed[j], closed', clean)
  <2> TAKE j \in Jobs
  <2>1. HeldSound(j, feed[j], closed, clean) BY DEF FeedInv
  <2>2. feed[j].last \in Nat BY <2>1, FeedAssumption DEF HeldSound, HeldType
  <2> QED BY <1>1, <2>1, <2>2 DEF HeldSound
<1> QED BY <1>1, <1>2, <1>3 DEF FeedInv, TablesOK, HistVetted

LEMMA CrashKeeps ==
  ASSUME FeedInv, NEW p, Crash(p) PROVE FeedInv'
<1>1. /\ feed' = [j \in Jobs |-> IF Host(j) = p THEN Idle ELSE feed[j]]
      /\ UNCHANGED <<closed, forming, clean, hist>>
  BY DEF Crash
<1>2. \A j \in Jobs : HeldSound(j, feed'[j], closed, clean) BY <1>1, IdleIsSound DEF FeedInv
<1> QED BY <1>1, <1>2 DEF FeedInv, MarketOK, TablesOK, HistVetted

LEMMA NextFeed == FeedInv /\ [Next]_vars => FeedInv'
<1> SUFFICES ASSUME FeedInv, [Next]_vars PROVE FeedInv' OBVIOUS
<1>1. CASE UNCHANGED feedVars
  BY <1>1 DEF feedVars, FeedInv, MarketOK, TablesOK, HistVetted, HeldSound
<1>2. CASE \E p \in Processes : Crash(p) BY <1>2, CrashKeeps
<1>3. CASE Trade \/ CloseBar BY <1>3, MarketKeeps
<1>4. CASE \E j : JobStep(j) BY <1>4, JobKeeps
<1>5. forming \in Closes /\ Malformed \in Closes BY DEF FeedInv, MarketOK, Closes
<1>6. Ingest \/ Garbled \/ Load => \E j : JobStep(j) BY <1>5 DEF Ingest, Garbled, Load, JobStep
<1>7. \A j \in Jobs : Request(j) \/ Serve(j) \/ Fault(j) => JobStep(j)
  BY <1>5 DEF Request, Serve, Fault, JobStep
<1> QED BY <1>1, <1>2, <1>3, <1>4, <1>6, <1>7 DEF Next, Market, vars

\* Whatever the jobs of the two processes interleave, lose or repeat, an ingested bar was first
\* committed clean and is not malformed (ingestion.py:36), for any window and any prices.
THEOREM OnlyCleanPromoted == Spec => []HistVetted
<1>1. FeedInv => HistVetted BY DEF FeedInv
<1>2. Init => FeedInv BY InitFeed DEF Init
<1> QED BY <1>1, <1>2, NextFeed, PTL DEF Spec

-----------------------------------------------------------------------------
(* The types *)

RestOK ==
  /\ schema \in {"none", "legacy", "head"} /\ marker \in BOOLEAN /\ paper \in BOOLEAN
  /\ holder \in Processes \cup {Free}
  /\ beat \in {"none", "fresh", "stale"} /\ watch \in {"off", "unknown", "alive", "silent"}
  /\ told \in {"nothing", "down", "recovered"} /\ events \in 0..MaxEvents

LEMMA InitRest == Init => RestOK
<1>1. MaxEvents \in 0..MaxEvents BY FeedAssumption
<1> QED BY <1>1 DEF Init, RestOK

LEMMA NextRest == RestOK /\ [Next]_vars => RestOK'
<1> SUFFICES ASSUME RestOK, [Next]_vars PROVE RestOK' OBVIOUS
<1>1. CASE UNCHANGED vars BY <1>1 DEF vars, opsVars, RestOK
<1>2. CASE Operate /\ UNCHANGED <<feedVars, events>>
  <2>1. events' \in 0..MaxEvents BY <1>2 DEF RestOK
  <2>2. CASE \E p \in Processes : Boot(p)
    BY <2>1, <2>2 DEF Boot, Start, TryLock, LockBusy, Migrate, Wipe, Mark, Initialised, RestOK, Free
  <2>3. CASE Recover \/ Preflight \/ Cycle BY <2>1, <2>3 DEF Recover, Preflight, Cycle, RestOK
  <2>4. CASE Poll BY <2>1, <2>4 DEF Poll, Observed, Event, RestOK
  <2> QED BY <1>2, <2>2, <2>3, <2>4 DEF Operate
<1>3. CASE Disturb /\ Spend
  <2>1. events' \in 0..MaxEvents BY <1>3, FeedAssumption DEF Spend, RestOK
  <2> QED BY <1>3, <2>1 DEF Disturb, InitFails, NotInitialised, Hang, Age, PaperTrade, RestOK
<1>4. CASE (\E p \in Processes : Crash(p)) /\ Spend
  <2>1. events' \in 0..MaxEvents BY <1>4, FeedAssumption DEF Spend, RestOK
  <2> QED BY <1>4, <2>1 DEF Crash, RestOK
<1>5. CASE UNCHANGED opsVars /\ (UNCHANGED events \/ Spend)
  <2>1. events' \in 0..MaxEvents BY <1>5, FeedAssumption DEF Spend, RestOK
  <2> QED BY <1>5, <2>1 DEF opsVars, RestOK
<1> QED BY <1>1, <1>2, <1>3, <1>4, <1>5
    DEF Next, Ingest, Garbled, Load, Market, Request, Serve, Fault

\* The boot, the watchdog and the candle jobs keep the types of Operations and DataFeed.
THEOREM TypeCorrect == Spec => []TypeOK
<1>1. FeedInv /\ RestOK => FeedTypeOK
  <2> SUFFICES ASSUME FeedInv, RestOK PROVE FeedTypeOK OBVIOUS
  <2>1. \A f \in Stores : IsStore(f) BY DEF Stores, IsStore
  <2>2. \A j \in Jobs : feed[j] \in HeldType BY DEF FeedInv, HeldSound
  <2> QED BY <2>1, <2>2 DEF FeedInv, MarketOK, TablesOK, HeldType, RestOK, FeedTypeOK
<1>2. BootInv /\ FeedInv /\ RestOK => TypeOK BY <1>1 DEF BootInv, BootOK, RestOK, TypeOK
<1>3. Init => BootInv /\ FeedInv /\ RestOK BY InitBoot, InitFeed, InitRest DEF Init
<1>4. (BootInv /\ FeedInv /\ RestOK) /\ [Next]_vars => (BootInv /\ FeedInv /\ RestOK)'
  BY NextBoot, NextFeed, NextRest
<1> QED BY <1>2, <1>3, <1>4, PTL DEF Spec
=============================================================================
