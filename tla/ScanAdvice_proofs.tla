-------------------------- MODULE ScanAdvice_proofs --------------------------
(***************************************************************************)
(* Proofs about ScanAdvice, for every set of votes, trials and histories,  *)
(* any number of runs, and any interleaving of the scans, the readers, the *)
(* operators and the walk-forward runs: the types, the go-live gate and    *)
(* the filter's refusals.                                                  *)
(***************************************************************************)
EXTENDS ScanAdvice, SequenceTheorems, WellFoundedInduction, TLAPS

-----------------------------------------------------------------------------
(* The inductive invariant *)

\* What the gate reads is what a run approved.
CompletedIsProven == \A i \in DOMAIN runs : runs[i].status = "completed" => runs[i].strategy \in proven

\* A scan the gate let through; without routing it keeps the live strategy.
GatePassed ==
  ~routing => scan.strategy = Live /\ (required /\ scan.pc # "idle" => Live \in proven)

\* A routed scan trades what its regime is routed to.
Routed == scan.regime # "none" => scan.strategy = Route(scan.regime)

\* A check that has commits left has come to a verdict that calls for them.
VerdictGiven ==
  \A a \in Checkers : check[a].pc \in {"flag", "log"} => check[a].verdict \in {"critical", "warning", "healthy"}

AdviceInv == TypeOK /\ VerdictGiven /\ CompletedIsProven /\ GatePassed /\ Routed

-----------------------------------------------------------------------------
(* The newest completion *)

LEMMA LeastOf ==
  ASSUME NEW T, T \subseteq Nat, T # {}
  PROVE  \E x \in T : \A y \in T : x <= y
<1> DEFINE R == {ss \in Nat \X Nat : ss[1] < ss[2]}
<1>1. IsWellFoundedOn(OpToRel(<, Nat), Nat) BY NatLessThanWellFounded
<1>2. OpToRel(<, Nat) = R BY DEF OpToRel
<1>3. IsWellFoundedOn(R, Nat) BY <1>1, <1>2
<1>4. \A x, y \in Nat : x < y => <<x, y>> \in R OBVIOUS
<1> HIDE DEF R
<1>5. PICK x \in T : \A y \in T : ~(<<y, x>> \in R) BY <1>3, WFMin
<1>6. ASSUME NEW y \in T PROVE x <= y
  <2>1. x \in Nat /\ y \in Nat /\ ~(<<y, x>> \in R) BY <1>5
  <2>2. ~(y < x) BY <1>4, <2>1
  <2> QED BY <2>1, <2>2
<1> QED BY <1>6

\* The greatest of 0 and what a sequence holds.
LEMMA MaxOfRows ==
  ASSUME NEW s, NEW n \in Nat, \A i \in 1..n : s[i] \in Nat
  PROVE  Max({0} \cup {s[i] : i \in 1..n}) \in Nat
<1> DEFINE Upto(k) == {0} \cup {s[i] : i \in 1..k}
           HasMax(k) == \E m \in Upto(k) : \A x \in Upto(k) : m >= x
           Bad == {k \in 0..n : ~HasMax(k)}
<1>1. Upto(n) \subseteq Nat OBVIOUS
<1>2. HasMax(0)
  <2>1. Upto(0) = {0} OBVIOUS
  <2> QED BY <2>1
<1>3. ASSUME NEW k \in 0..(n - 1), HasMax(k) PROVE HasMax(k + 1)
  <2>1. PICK m \in Upto(k) : \A x \in Upto(k) : m >= x BY <1>3
  <2>2. Upto(k + 1) = Upto(k) \cup {s[k + 1]} OBVIOUS
  <2>3. m \in Nat /\ s[k + 1] \in Nat OBVIOUS
  <2>4. CASE m >= s[k + 1] BY <2>1, <2>2, <2>4
  <2>5. CASE s[k + 1] >= m
    <3>1. \A x \in Upto(k) : x \in Nat /\ m >= x BY <2>1
    <3>2. \A x \in Upto(k + 1) : s[k + 1] >= x
      <4> HIDE DEF Upto
      <4> QED BY <2>2, <2>3, <2>5, <3>1
    <3> QED BY <2>2, <3>2
  <2> QED BY <2>3, <2>4, <2>5
<1>4. Bad = {}
  <2> SUFFICES ASSUME Bad # {} PROVE FALSE OBVIOUS
  <2>1. PICK k \in Bad : \A j \in Bad : k <= j
    <3>1. Bad \subseteq Nat OBVIOUS
    <3> HIDE DEF Bad
    <3> QED BY <3>1, LeastOf
  <2>2. k \in 0..n /\ ~HasMax(k)
    <3> HIDE DEF HasMax
    <3> QED OBVIOUS
  <2>3. k - 1 \in 0..(n - 1) /\ k - 1 \notin Bad
    <3>1. k # 0
      <4> HIDE DEF HasMax
      <4> QED BY <1>2, <2>2
    <3>2. k - 1 \in 0..(n - 1) /\ ~(k <= k - 1) BY <2>2, <3>1
    <3> HIDE DEF Bad
    <3> QED BY <2>1, <3>2
  <2>4. HasMax(k - 1)
    <3> HIDE DEF HasMax
    <3> QED BY <2>3
  <2>5. HasMax(k - 1 + 1) BY <1>3, <2>3, <2>4
  <2>6. k - 1 + 1 = k OBVIOUS
  <2>7. HasMax(k)
    <3> HIDE DEF HasMax
    <3> QED BY <2>5, <2>6
  <2> QED BY <2>7
<1>5. HasMax(n)
  <2> HIDE DEF HasMax
  <2> QED BY <1>4
<1>6. Max(Upto(n)) \in Upto(n)
  <2> HIDE DEF Upto
  <2> QED BY <1>5 DEF Max
<1> QED BY <1>1, <1>6

RunType == [strategy : DOMAIN Trials, at : Nat,
            status : {"running", "completed", "rejected", "failed", "deleted"}]

LEMMA NewestIsNat ==
  ASSUME runs \in Seq(RunType) PROVE Max(Completions) \in Nat
<1> DEFINE ats == [i \in DOMAIN runs |-> runs[i].at]
<1>1. DOMAIN runs = 1..Len(runs) /\ Len(runs) \in Nat OBVIOUS
<1>2. \A i \in 1..Len(runs) : runs[i] \in RunType /\ ats[i] = runs[i].at BY <1>1
<1>3. \A i \in 1..Len(runs) : ats[i] \in Nat BY <1>2 DEF RunType
<1>4. Completions = {0} \cup {ats[i] : i \in 1..Len(runs)} BY <1>1, <1>2 DEF Completions
<1> HIDE DEF ats
<1> QED BY <1>1, <1>3, <1>4, MaxOfRows

-----------------------------------------------------------------------------
(* The types of the three parts *)

LEMMA OutcomesAreTyped ==
  ASSUME NEW o \in Outcomes
  PROVE  o.strategy \in DOMAIN Trials /\ o.status \in {"completed", "rejected", "failed"}
<1>1. \A s, mode, n : EndsAs(s, mode, n) \in {"completed", "rejected", "failed"} BY DEF EndsAs
<1>2. PICK s \in DOMAIN Trials, mode \in {"rolling", "expanding"}, n \in Stored :
        o = [strategy |-> s, status |-> EndsAs(s, mode, n)]
  BY WalkForwardAssumption DEF Judgements
<1> QED BY <1>1, <1>2

RunStep ==
  \/ StartRun \/ DeleteRun \/ ForgetRuns \/ Age
  \/ \E i \in working : FinishRun(i) \/ FailRun(i)

\* What a run does keeps the rows typed and every approval on record.
LEMMA RunsKeep ==
  ASSUME WalkForwardTypeOK, CompletedIsProven, RunStep
  PROVE  WalkForwardTypeOK' /\ CompletedIsProven' /\ proven \subseteq proven'
<1> DEFINE D == DOMAIN Trials
<1>0. /\ runs \in Seq(RunType) /\ DOMAIN runs = 1..Len(runs) /\ Len(runs) \in Nat
      /\ working \subseteq DOMAIN runs /\ horizon \in Nat /\ proven \subseteq D
  BY DEF WalkForwardTypeOK, RunType
<1> DEFINE Kept == /\ runs' \in Seq(RunType) /\ working' \subseteq DOMAIN runs' /\ horizon' \in Nat
                   /\ proven' \subseteq D /\ CompletedIsProven' /\ proven \subseteq proven'
<1> SUFFICES Kept BY DEF WalkForwardTypeOK, RunType
<1>1. CASE StartRun
  <2>1. PICK s \in D : runs' = Append(runs, [strategy |-> s, status |-> "running", at |-> 0])
    BY <1>1 DEF StartRun
  <2>2. [strategy |-> s, status |-> "running", at |-> 0] \in RunType BY DEF RunType
  <2>3. /\ runs' \in Seq(RunType) /\ DOMAIN runs' = 1..(Len(runs) + 1)
        /\ \A i \in 1..Len(runs) : runs'[i] = runs[i]
        /\ runs'[Len(runs) + 1] = [strategy |-> s, status |-> "running", at |-> 0]
    BY <1>0, <2>1, <2>2
  <2>4. working' = working \cup {Len(runs) + 1} /\ UNCHANGED <<horizon, proven>> BY <1>1 DEF StartRun
  <2>5. CompletedIsProven' BY <1>0, <2>3, <2>4 DEF CompletedIsProven
  <2> QED BY <1>0, <2>3, <2>4, <2>5
<1>2. CASE DeleteRun
  <2>1. PICK i \in DOMAIN runs : runs' = [runs EXCEPT ![i].status = "deleted"] BY <1>2 DEF DeleteRun
  <2>2. UNCHANGED <<working, horizon, proven>> BY <1>2 DEF DeleteRun
  <2>7. runs[i] \in RunType BY <1>0
  <2>3. [runs[i] EXCEPT !.status = "deleted"] \in RunType BY <2>7 DEF RunType
  <2>4. runs' \in Seq(RunType) /\ DOMAIN runs' = DOMAIN runs BY <1>0, <2>1, <2>3
  <2>5. /\ \A j \in DOMAIN runs : j # i => runs'[j] = runs[j]
        /\ runs'[i].status = "deleted"
    BY <1>0, <2>1 DEF RunType
  <2>6. CompletedIsProven' BY <2>2, <2>4, <2>5 DEF CompletedIsProven
  <2> QED BY <1>0, <2>2, <2>4, <2>6
<1>3. CASE ForgetRuns BY <1>0, <1>3 DEF ForgetRuns, CompletedIsProven
<1>4. CASE Age BY <1>0, <1>4 DEF Age, CompletedIsProven
<1>5. ASSUME NEW i \in working, FinishRun(i) \/ FailRun(i) PROVE Kept
  <2>1. PICK status \in {"completed", "rejected", "failed"} : RunEnds(i, status)
    BY <1>5, OutcomesAreTyped DEF FinishRun, FailRun
  <2>2. working' \subseteq working /\ horizon' = horizon BY <2>1 DEF RunEnds
  <2>3. CASE runs[i].status = "deleted"
    <3>1. UNCHANGED <<runs, proven>> BY <2>1, <2>3 DEF RunEnds
    <3> QED BY <1>0, <2>2, <3>1 DEF CompletedIsProven
  <2>4. CASE runs[i].status # "deleted"
    <3> DEFINE at == IF status = "failed" THEN 0 ELSE Max(Completions) + 1
    <3>1. /\ runs' = [runs EXCEPT ![i].status = status, ![i].at = at]
          /\ proven' = IF status = "completed" THEN proven \cup {runs[i].strategy} ELSE proven
      BY <2>1, <2>4 DEF RunEnds
    <3>2. at \in Nat BY <1>0, NewestIsNat
    <3> HIDE DEF at
    <3>3. i \in DOMAIN runs /\ runs[i] \in RunType BY <1>0
    <3>4. /\ DOMAIN runs' = DOMAIN runs
          /\ \A j \in DOMAIN runs : j # i => runs'[j] = runs[j]
          /\ runs'[i] = [runs[i] EXCEPT !.status = status, !.at = at]
      BY <1>0, <3>1, <3>3
    <3>5. runs'[i] \in RunType /\ runs'[i].strategy = runs[i].strategy /\ runs'[i].status = status
      BY <3>2, <3>3, <3>4 DEF RunType
    <3>6. runs' \in Seq(RunType)
      <4>1. \A j \in 1..Len(runs) : runs'[j] \in RunType BY <1>0, <3>4, <3>5
      <4>2. runs' = [j \in 1..Len(runs) |-> runs'[j]] BY <1>0, <3>1
      <4> QED BY <1>0, <4>1, <4>2, SeqDef
    <3>7. proven \subseteq proven' /\ proven' \subseteq D /\ (status = "completed" => runs[i].strategy \in proven')
      BY <1>0, <3>1, <3>3 DEF RunType
    <3>8. CompletedIsProven' BY <3>4, <3>5, <3>7 DEF CompletedIsProven
    <3> QED BY <1>0, <2>2, <3>4, <3>6, <3>7, <3>8
  <2> QED BY <2>3, <2>4
<1> QED BY <1>1, <1>2, <1>3, <1>4, <1>5 DEF RunStep

\* Four tenths at least are for what the ensemble detects: the rules' own vote.
LEMMA DetectionsAreTyped ==
  ASSUME NEW v \in Votes
  PROVE  Detect[v] \in [regime : Regimes, confidence : {4, 6, 7, 10}]
<1> DEFINE W(r) == Weight(v, r)
           Best(r) == \A q \in Regimes : W(q) <= W(r)
<1>1. v \in VoteType BY VotesAssumption
<1>2. v.rule \in Regimes /\ v.cluster \in Regimes /\ v.ml \in Regimes
  BY <1>1 DEF VoteType, RuleVotes, ClusterVotes, MlVotes, TrendVotes, VolatilityVotes, Regimes
<1>3. \A r \in Regimes : W(r) \in {0, 3, 4, 6, 7, 10} BY DEF Weight
<1>4. \A r \in Regimes : v.rule = r => W(r) \in {4, 7, 10} BY DEF Weight
<1>5. \E r \in Regimes : Best(r)
  <2> HIDE DEF W
  <2>1. CASE \E r \in Regimes : W(r) = 10 BY <1>3, <2>1
  <2>2. CASE (\A r \in Regimes : W(r) # 10) /\ \E r \in Regimes : W(r) = 7 BY <1>3, <2>2
  <2>3. CASE (\A r \in Regimes : W(r) # 10 /\ W(r) # 7) /\ \E r \in Regimes : W(r) = 6 BY <1>3, <2>3
  <2>4. CASE \A r \in Regimes : W(r) # 10 /\ W(r) # 7 /\ W(r) # 6 BY <1>2, <1>3, <1>4, <2>4
  <2> QED BY <2>1, <2>2, <2>3, <2>4
<1>6. Consensus(v) \in Regimes /\ \A q \in Regimes : W(q) <= W(Consensus(v)) BY <1>5 DEF Consensus
<1>7. W(Consensus(v)) \in {4, 6, 7, 10}
  <2>1. W(v.rule) >= 4 BY <1>2, <1>4
  <2> HIDE DEF W
  <2>2. W(v.rule) <= W(Consensus(v)) /\ W(Consensus(v)) \in {0, 3, 4, 6, 7, 10} /\ W(v.rule) \in {0, 3, 4, 6, 7, 10}
    BY <1>2, <1>3, <1>6
  <2> QED BY <2>1, <2>2
<1> QED BY <1>6, <1>7 DEF Detect, Record

DetectionType == [regime : Regimes, confidence : {4, 6, 7, 10}]
RegimeStep == Update \/ ShortHistory \/ DefaultRow \/ PaperRecord \/ Recalculate \/ Shift

LEMMA FunctionIsSeq ==
  ASSUME NEW S, NEW n \in Nat, NEW f \in [1..n -> S]
  PROVE  f \in Seq(S) /\ Len(f) = n
<1>1. f \in Seq(S) BY SeqDef
<1>2. Len(f) \in Nat /\ 1..Len(f) = 1..n BY <1>1, LenProperties
<1> QED BY <1>1, <1>2

LEMMA NewestIsTyped ==
  ASSUME NEW s \in Seq(Regimes), Len(s) <= Cooldown + 1, NEW r \in Regimes
  PROVE  Newest(Append(s, r)) \in Seq(Regimes) /\ Len(Newest(Append(s, r))) <= Cooldown + 1
<1>1. Append(s, r) \in Seq(Regimes) /\ Len(Append(s, r)) = Len(s) + 1 OBVIOUS
<1>2. CASE Len(s) + 1 > Cooldown + 1
  <2>1. Append(s, r) # <<>>
    <3>1. Len(<<>>) = 0 OBVIOUS
    <3>2. Len(Append(s, r)) # 0 BY <1>1
    <3> QED BY <3>1, <3>2
  <2>2. Tail(Append(s, r)) \in Seq(Regimes) /\ Len(Tail(Append(s, r))) = Len(s) BY <1>1, <2>1
  <2> QED BY <1>1, <1>2, <2>2 DEF Newest
<1>3. CASE ~(Len(s) + 1 > Cooldown + 1) BY <1>1, <1>3 DEF Newest, Cooldown
<1> QED BY <1>2, <1>3

\* Every record, whoever saves it, is of a regime.
LEMMA RegimeKeeps ==
  ASSUME RegimeTypeOK, RegimeStep
  PROVE  RegimeTypeOK'
<1>1. \A v \in Votes : Detect[v] \in DetectionType BY DetectionsAreTyped DEF DetectionType
<1>2. /\ market \in Votes /\ recent \in Seq(Regimes) /\ Len(recent) <= Cooldown + 1
      /\ latest \in DetectionType \cup {NoRecord}
  BY DEF RegimeTypeOK, DetectionType
<1>3. \A n : \A old \in DetectionType \cup {NoRecord}, new \in DetectionType :
        Decided(old, new, n) \in DetectionType
  BY DEF Decided, Confirmed, Record, DetectionType
<1>4. Sideways \in DetectionType BY DEF Sideways, Record, DetectionType, Regimes
<1>5. ASSUME NEW rec \in DetectionType, Save(rec), UNCHANGED market PROVE RegimeTypeOK'
  <2>1. rec.regime \in Regimes BY DEF DetectionType
  <2> QED BY <1>2, <1>5, <2>1, NewestIsTyped DEF Save, RegimeTypeOK, DetectionType
<1>6. CASE Update BY <1>1, <1>2, <1>3, <1>5, <1>6 DEF Update, Updated
<1>7. CASE ShortHistory BY <1>4, <1>5, <1>7 DEF ShortHistory
<1>8. CASE DefaultRow BY <1>4, <1>5, <1>8 DEF DefaultRow
<1>9. CASE PaperRecord
  <2>1. PICK d \in Detections : recent' = Newest(Append(recent, d.regime)) BY <1>9 DEF PaperRecord
  <2>2. d.regime \in Regimes BY <1>1 DEF Detections, DetectionType
  <2>3. UNCHANGED <<market, latest>> BY <1>9 DEF PaperRecord
  <2> QED BY <1>2, <2>1, <2>2, <2>3, NewestIsTyped DEF RegimeTypeOK, DetectionType
<1>10. CASE Recalculate
  <2>1. PICK a, b \in Detections, n \in 1..Cooldown :
          LET rec == Decided(b, Detect[market], Loaded(recent)) IN
          /\ recent' = [i \in 1..(Cooldown + 1) |->
                          IF i > Cooldown THEN rec.regime ELSE IF i < n THEN a.regime ELSE b.regime]
          /\ latest' = rec
    BY <1>10 DEF Recalculate
  <2> DEFINE rec == Decided(b, Detect[market], Loaded(recent))
  <2>2. a \in DetectionType /\ b \in DetectionType BY <1>1 DEF Detections
  <2>3. rec \in DetectionType BY <1>1, <1>2, <1>3, <2>2
  <2>4. latest' = rec /\ recent' = [i \in 1..(Cooldown + 1) |->
          IF i > Cooldown THEN rec.regime ELSE IF i < n THEN a.regime ELSE b.regime] BY <2>1
  <2> HIDE DEF rec
  <2>5. rec.regime \in Regimes /\ a.regime \in Regimes /\ b.regime \in Regimes
    BY <2>2, <2>3 DEF DetectionType
  <2>6. recent' \in [1..4 -> Regimes] BY <2>4, <2>5 DEF Cooldown
  <2>7. recent' \in Seq(Regimes) /\ Len(recent') = 4 BY <2>6, FunctionIsSeq
  <2>8. UNCHANGED market BY <1>10 DEF Recalculate
  <2> QED BY <1>2, <2>3, <2>4, <2>7, <2>8 DEF RegimeTypeOK, DetectionType, Cooldown
<1>11. CASE Shift BY <1>2, <1>11 DEF Shift, regimeVars, RegimeTypeOK, DetectionType
<1> QED BY <1>6, <1>7, <1>8, <1>9, <1>10, <1>11 DEF RegimeStep

-----------------------------------------------------------------------------
(* The health of the strategy *)

Judged3 == {"critical", "warning", "healthy"}
CheckType == [pc : {"idle", "flag", "log", "done"}, was : States,
              verdict : {"none", "warmup", "critical", "warning", "healthy"}]
CheckSound(c) == c \in CheckType /\ (c.pc \in {"flag", "log"} => c.verdict \in Judged3)

HealthStep ==
  \/ \E a \in Checkers : Examine(a) \/ Disable(a) \/ LogState(a) \/ Abandon(a)
  \/ Pause \/ Resume \/ Replay \/ TradeCloses

LEMMA VerdictsAreTyped ==
  /\ \A s : Verdict(s) \in Judged3 \cup {"warmup"}
  /\ \A s : Verdict(s) = "warmup" => Len(s) < Warmup
  /\ \A v \in Judged3 : NewState(v) \in States
  /\ NoCheck \in CheckType /\ CheckSound(NoCheck)
BY DEF Verdict, NewState, Judged3, States, NoCheck, CheckType, CheckSound

\* Only the entry of one checker changes, to a sound one.
LEMMA CheckChanges ==
  ASSUME NEW a \in Checkers, NEW c, CheckSound(c),
         check \in [Checkers -> CheckType], \A b \in Checkers : CheckSound(check[b]),
         check' = [check EXCEPT ![a] = c]
  PROVE  check' \in [Checkers -> CheckType] /\ \A b \in Checkers : CheckSound(check'[b])
<1>1. c \in CheckType BY DEF CheckSound
<1>2. \A b \in Checkers : check'[b] = IF b = a THEN c ELSE check[b] OBVIOUS
<1> HIDE DEF CheckType
<1> QED BY <1>1, <1>2

LEMMA HealthKeeps ==
  ASSUME HealthTypeOK, VerdictGiven, HealthStep
  PROVE  HealthTypeOK' /\ VerdictGiven'
<1> DEFINE Sound(ch) == ch \in [Checkers -> CheckType] /\ \A b \in Checkers : CheckSound(ch[b])
<1>1. /\ trades \in Seq(TradeType) /\ Len(trades) <= MaxTrades
      /\ enabled \in BOOLEAN /\ state \in States /\ Sound(check)
  BY DEF HealthTypeOK, VerdictGiven, CheckSound, CheckType, Judged3
<1> SUFFICES /\ trades' \in Seq(TradeType) /\ Len(trades') <= MaxTrades
             /\ enabled' \in BOOLEAN /\ state' \in States /\ Sound(check')
  BY DEF HealthTypeOK, VerdictGiven, CheckSound, CheckType, Judged3
<1> DEFINE Commits == /\ enabled' \in BOOLEAN /\ state' \in States /\ Sound(check')
<1>2. ASSUME NEW a \in Checkers, Examine(a) \/ Disable(a) \/ LogState(a) \/ Abandon(a)
      PROVE  UNCHANGED trades /\ Commits
  <2>1. check[a] \in CheckType /\ CheckSound(check[a]) BY <1>1
  <2>2. CASE Examine(a)
    <3> DEFINE v == Verdict(Own)
               c == [pc |-> CASE v = "warmup" -> "done" [] v = "critical" -> "flag" [] OTHER -> "log",
                     verdict |-> v, was |-> state]
    <3>1. check' = [check EXCEPT ![a] = c] /\ UNCHANGED <<trades, enabled, state>> BY <2>2 DEF Examine
    <3>2. v \in Judged3 \cup {"warmup"} BY VerdictsAreTyped
    <3>3. CheckSound(c)
      <4> HIDE DEF v
      <4> QED BY <1>1, <3>2 DEF CheckSound, CheckType, Judged3
    <3> HIDE DEF c
    <3> QED BY <1>1, <3>1, <3>3, CheckChanges
  <2>3. CASE Disable(a)
    <3> DEFINE c == [check[a] EXCEPT !.pc = "log"]
    <3>1. /\ check' = [check EXCEPT ![a] = c] /\ enabled' = FALSE /\ UNCHANGED <<trades, state>>
          /\ check[a].pc = "flag"
      BY <2>3 DEF Disable
    <3>2. CheckSound(c) BY <2>1, <3>1 DEF CheckSound, CheckType
    <3> HIDE DEF c
    <3> QED BY <1>1, <3>1, <3>2, CheckChanges
  <2>4. CASE LogState(a)
    <3> DEFINE c == [check[a] EXCEPT !.pc = "done"]
    <3>1. /\ check' = [check EXCEPT ![a] = c] /\ UNCHANGED <<trades, enabled>>
          /\ check[a].pc = "log" /\ state' \in {NewState(check[a].verdict), state}
      BY <2>4 DEF LogState
    <3>2. CheckSound(c) BY <2>1, <3>1 DEF CheckSound, CheckType
    <3>3. check[a].verdict \in Judged3 BY <2>1, <3>1 DEF CheckSound
    <3>4. state' \in States BY <1>1, <3>1, <3>3, VerdictsAreTyped
    <3> HIDE DEF c
    <3> QED BY <1>1, <3>1, <3>2, <3>4, CheckChanges
  <2>5. CASE Abandon(a)
    <3>1. check' = [check EXCEPT ![a] = NoCheck] /\ UNCHANGED <<trades, enabled, state>>
      BY <2>5 DEF Abandon
    <3> QED BY <1>1, <3>1, VerdictsAreTyped, CheckChanges
  <2> QED BY <1>2, <2>2, <2>3, <2>4, <2>5
<1>3. CASE Pause BY <1>1, <1>3 DEF Pause, States
<1>4. CASE Resume BY <1>1, <1>4 DEF Resume, States
<1>5. CASE Replay
  <2>1. /\ UNCHANGED <<trades, check>> /\ enabled' \in BOOLEAN
        /\ state' = IF Prefixes = {} THEN state ELSE NewState(Verdict(trades))
    BY <1>1, <1>5 DEF Replay
  <2>2. Prefixes # {} => Verdict(trades) \in Judged3
    <3>1. Prefixes # {} => Warmup <= Len(trades) BY <1>1, HealthAssumption DEF Prefixes
    <3> QED BY <1>1, <3>1, HealthAssumption, VerdictsAreTyped
  <2> QED BY <1>1, <2>1, <2>2, VerdictsAreTyped
<1>6. CASE TradeCloses
  <2>1. PICK t \in TradeType : trades' = Append(trades, t) BY <1>6 DEF TradeCloses
  <2>2. Len(trades) < MaxTrades /\ UNCHANGED <<enabled, state, check>> BY <1>6 DEF TradeCloses
  <2>3. trades' \in Seq(TradeType) /\ Len(trades') = Len(trades) + 1 BY <1>1, <2>1
  <2> QED BY <1>1, <2>2, <2>3, HealthAssumption
<1> QED BY <1>1, <1>2, <1>3, <1>4, <1>5, <1>6 DEF HealthStep

-----------------------------------------------------------------------------
(* The composition *)

ScanType == [pc : {"idle", "validated", "route", "signal", "refresh", "filter", "health", "judged"},
             strategy : Strategies, regime : Regimes \cup {"none"}]

\* What the scan's own part of the invariant says of its record.
ScanSound(sc, passed, rt, rq) ==
  /\ sc \in ScanType
  /\ ~rt => sc.strategy = Live /\ (rq /\ sc.pc # "idle" => Live \in passed)
  /\ sc.regime # "none" => sc.strategy = Route(sc.regime)

LEMMA InvParts ==
  AdviceInv <=> /\ RegimeTypeOK /\ HealthTypeOK /\ WalkForwardTypeOK /\ VerdictGiven /\ CompletedIsProven
                /\ events \in 0..MaxEvents /\ routing \in BOOLEAN /\ required \in BOOLEAN
                /\ ScanSound(scan, proven, routing, required)
BY DEF AdviceInv, TypeOK, GatePassed, Routed, ScanSound, ScanType

LEMMA InvPartsAfter ==
  ASSUME RegimeTypeOK', HealthTypeOK', WalkForwardTypeOK', VerdictGiven', CompletedIsProven',
         events' \in 0..MaxEvents, routing' \in BOOLEAN, required' \in BOOLEAN,
         ScanSound(scan', proven', routing', required')
  PROVE  AdviceInv'
BY DEF AdviceInv, TypeOK, GatePassed, Routed, ScanSound, ScanType

LEMMA RestingIsSound ==
  ASSUME NEW passed, NEW rt, NEW rq PROVE ScanSound(Resting, passed, rt, rq)
BY LiveAssumption DEF ScanSound, ScanType, Resting

LEMMA InitSound == Init => AdviceInv
<1> SUFFICES ASSUME Init PROVE AdviceInv OBVIOUS
<1>1. RegimeTypeOK
  <2>1. market \in Votes /\ recent = <<>> /\ latest = NoRecord BY DEF Init, RegimeInit
  <2> QED BY <2>1 DEF RegimeTypeOK, Cooldown
<1>2. HealthTypeOK /\ VerdictGiven
  BY HealthAssumption DEF Init, HealthInit, HealthTypeOK, VerdictGiven, States, NoCheck, Checkers
<1>3. WalkForwardTypeOK /\ CompletedIsProven
  BY DEF Init, WalkForwardInit, WalkForwardTypeOK, CompletedIsProven
<1>4. events \in 0..MaxEvents /\ routing \in BOOLEAN /\ required \in BOOLEAN /\ scan = Resting
  BY LiveAssumption DEF Init
<1> QED BY <1>1, <1>2, <1>3, <1>4, InvParts, RestingIsSound

\* What the gate answers yes to is on record.
LEMMA GateReadsProven ==
  ASSUME CompletedIsProven, LiveStrategyValidated(Live) PROVE Live \in proven
BY DEF CompletedIsProven, LiveStrategyValidated, CompletedRuns

\* The steps of the scan that refresh the regime, those that examine the health, and the rest.
LEMMA ScanKeeps ==
  ASSUME AdviceInv, Scan
  PROVE  /\ UNCHANGED <<walkForwardVars, events, routing, required>>
         /\ RegimeStep \/ UNCHANGED <<market, regimeVars>>
         /\ \/ HealthStep \/ UNCHANGED healthVars
            \/ UNCHANGED <<trades, enabled, state>> /\ check' = [check EXCEPT !["scan"] = NoCheck]
         /\ RegimeTypeOK' => ScanSound(scan', proven, routing, required)
<1>1. /\ RegimeTypeOK /\ CompletedIsProven /\ ScanSound(scan, proven, routing, required)
      /\ routing \in BOOLEAN
  BY InvParts
<1>2. scan \in ScanType /\ scan = [pc |-> scan.pc, strategy |-> scan.strategy, regime |-> scan.regime]
  BY <1>1 DEF ScanSound, ScanType
<1>3. \A p \in {"validated", "route", "signal", "refresh", "filter", "health", "judged"} :
        scan.pc # "idle" => ScanSound([scan EXCEPT !.pc = p], proven, routing, required)
  BY <1>1, <1>2 DEF ScanSound, ScanType
<1>4. scan' = Resting => ScanSound(scan', proven, routing, required) BY RestingIsSound
<1>5. CASE PassGate
  <2>1. required => Live \in proven BY <1>1, <1>5, GateReadsProven DEF PassGate
  <2>2. ScanSound([Resting EXCEPT !.pc = "validated"], proven, routing, required)
    BY <2>1, LiveAssumption DEF ScanSound, ScanType, Resting
  <2> QED BY <1>5, <2>2 DEF PassGate, Regime, Health, Undisturbed, Settings
<1>6. CASE Start BY <1>3, <1>4, <1>6 DEF Start, Ends, Regime, Health, Undisturbed, Settings
<1>7. CASE Resolve
  <2>1. CASE routing
    <3>1. /\ scan' = [pc |-> "signal", strategy |-> Route(latest'.regime), regime |-> latest'.regime]
          /\ RegimeStep
      BY <1>7, <2>1 DEF Resolve, Refresh, RegimeStep
    <3>2. latest' # NoRecord
      <4>1. Save(Updated) \/ Save(Sideways) BY <1>7, <2>1 DEF Resolve, Refresh, Update, ShortHistory
      <4>2. Updated.regime # "none"
        <5>1. market \in Votes /\ latest \in DetectionType \cup {NoRecord}
          BY <1>1 DEF RegimeTypeOK, DetectionType
        <5>2. Detect[market] \in DetectionType BY <5>1, DetectionsAreTyped DEF DetectionType
        <5> QED BY <5>1, <5>2
              DEF Updated, Decided, Confirmed, Record, DetectionType, NoRecord, Regimes
      <4> QED BY <4>1, <4>2 DEF Save, Sideways, Record, NoRecord
    <3>3. RegimeTypeOK' => latest'.regime \in Regimes BY <3>2 DEF RegimeTypeOK
    <3>4. \A r \in Regimes : Route(r) \in Strategies BY DEF Route, Strategies
    <3>5. RegimeTypeOK' => ScanSound(scan', proven, routing, required)
      BY <2>1, <3>1, <3>3, <3>4 DEF ScanSound, ScanType
    <3> QED BY <1>7, <3>1, <3>5 DEF Resolve, Health, Undisturbed, Settings
  <2>2. CASE ~routing BY <1>3, <1>7, <2>2 DEF Resolve, Regime, Health, Undisturbed, Settings
  <2> QED BY <2>1, <2>2
<1>8. CASE Signal BY <1>3, <1>4, <1>8 DEF Signal, Ends, Regime, Health, Undisturbed, Settings
<1>9. CASE RefreshUnrouted
  BY <1>3, <1>9 DEF RefreshUnrouted, Refresh, RegimeStep, Health, Undisturbed, Settings
<1>10. CASE Filter BY <1>3, <1>4, <1>10 DEF Filter, Ends, Regime, Health, Undisturbed, Settings
<1>11. CASE Judged
  <2>1. Examine("scan") => HealthStep BY DEF HealthStep, Checkers
  <2> QED BY <1>3, <1>4, <1>11, <2>1 DEF Judged, Ends, Regime, Health, Undisturbed, Settings
<1>12. CASE Decide BY <1>4, <1>12 DEF Decide, Ends, Regime, Undisturbed, Settings
<1> QED BY <1>5, <1>6, <1>7, <1>8, <1>9, <1>10, <1>11, <1>12 DEF Scan

\* Everybody else leaves the scan as it is, or kills it.
OthersEffect ==
  /\ UNCHANGED <<routing, required>>
  /\ events' = events \/ (events > 0 /\ events' = events - 1)
  /\ scan' = scan \/ (scan' = Resting /\ events > 0 /\ events' = events - 1)
  /\ RegimeStep \/ UNCHANGED <<market, regimeVars>>
  /\ \/ HealthStep \/ UNCHANGED healthVars
     \/ UNCHANGED <<trades, enabled, state>> /\ check' = [check EXCEPT !["scan"] = NoCheck]
  /\ RunStep \/ UNCHANGED walkForwardVars

LEMMA OthersKeep ==
  ASSUME Others \/ \E a \in Checkers : Committing(a) PROVE OthersEffect
<1>1. ASSUME NEW a \in Checkers, Committing(a) PROVE OthersEffect
  <2>1. HealthStep BY <1>1 DEF Committing, HealthStep
  <2> QED BY <1>1, <2>1 DEF Committing, OthersEffect, Regime, Undisturbed, Settings
<1>2. CASE Reads
  <2>1. HealthStep BY <1>2 DEF Reads, HealthStep, Checkers
  <2> QED BY <1>2, <2>1 DEF Reads, OthersEffect, Regime, Undisturbed, Settings
<1>3. CASE Crash BY <1>3 DEF Crash, OthersEffect, Ends, Regime, Spend, Settings, walkForwardVars
<1>4. CASE ToHealth(Pause) \/ ToHealth(Resume) \/ ToHealth(Replay) \/ ToHealth(TradeCloses)
           \/ ToHealth(Abandon("reader"))
  <2>1. HealthStep BY <1>4 DEF ToHealth, HealthStep, Checkers
  <2>2. Regime /\ UNCHANGED <<scan, walkForwardVars>> /\ Spend BY <1>4 DEF ToHealth
  <2> QED BY <2>1, <2>2 DEF OthersEffect, Regime, Spend, Settings
<1>5. CASE ToRegime(Shift) \/ ToRegime(DefaultRow) \/ ToRegime(PaperRecord) \/ ToRegime(Recalculate)
  <2>1. RegimeStep BY <1>5 DEF ToRegime, RegimeStep
  <2>2. Health /\ UNCHANGED <<scan, walkForwardVars>> /\ Spend BY <1>5 DEF ToRegime
  <2> QED BY <2>1, <2>2 DEF OthersEffect, Health, Spend, Settings
<1>6. CASE ToRuns(StartRun) \/ ToRuns(DeleteRun) \/ ToRuns(ForgetRuns) \/ ToRuns(Age)
  <2>1. RunStep BY <1>6 DEF ToRuns, RunStep
  <2>2. Regime /\ Health /\ UNCHANGED scan /\ Spend BY <1>6 DEF ToRuns
  <2> QED BY <2>1, <2>2 DEF OthersEffect, Regime, Health, Spend, Settings
<1>7. ASSUME NEW i \in working, Ended(i) PROVE OthersEffect
  <2>1. RunStep BY <1>7 DEF Ended, RunStep
  <2> QED BY <1>7, <2>1 DEF Ended, OthersEffect, Regime, Health, Settings
<1> QED BY <1>1, <1>2, <1>3, <1>4, <1>5, <1>6, <1>7 DEF Others

\* The health keeps its type when the checker of the scan is forgotten.
LEMMA ForgottenCheck ==
  ASSUME HealthTypeOK, VerdictGiven,
         UNCHANGED <<trades, enabled, state>>, check' = [check EXCEPT !["scan"] = NoCheck]
  PROVE  HealthTypeOK' /\ VerdictGiven'
<1>1. check \in [Checkers -> CheckType] /\ \A b \in Checkers : CheckSound(check[b])
  BY DEF HealthTypeOK, VerdictGiven, CheckSound, CheckType, Judged3
<1>2. check' \in [Checkers -> CheckType] /\ \A b \in Checkers : CheckSound(check'[b])
  BY <1>1, CheckChanges, VerdictsAreTyped DEF Checkers
<1> QED BY <1>2 DEF HealthTypeOK, VerdictGiven, CheckSound, CheckType, Judged3

LEMMA NextKeeps == AdviceInv /\ [Next]_vars => AdviceInv'
<1> SUFFICES ASSUME AdviceInv, [Next]_vars PROVE AdviceInv' OBVIOUS
<1>1. /\ RegimeTypeOK /\ HealthTypeOK /\ WalkForwardTypeOK /\ VerdictGiven /\ CompletedIsProven
      /\ events \in 0..MaxEvents /\ routing \in BOOLEAN /\ required \in BOOLEAN
      /\ ScanSound(scan, proven, routing, required)
  BY InvParts
<1>2. CASE Scan
  <2>1. /\ UNCHANGED <<walkForwardVars, events, routing, required>>
        /\ RegimeStep \/ UNCHANGED <<market, regimeVars>>
        /\ \/ HealthStep \/ UNCHANGED healthVars
           \/ UNCHANGED <<trades, enabled, state>> /\ check' = [check EXCEPT !["scan"] = NoCheck]
        /\ RegimeTypeOK' => ScanSound(scan', proven, routing, required)
    BY <1>2, ScanKeeps
  <2>2. RegimeTypeOK' BY <1>1, <2>1, RegimeKeeps DEF regimeVars, RegimeTypeOK
  <2>3. HealthTypeOK' /\ VerdictGiven'
    BY <1>1, <2>1, HealthKeeps, ForgottenCheck DEF healthVars, HealthTypeOK, VerdictGiven
  <2>4. WalkForwardTypeOK' /\ CompletedIsProven'
    BY <1>1, <2>1 DEF walkForwardVars, WalkForwardTypeOK, CompletedIsProven
  <2>5. ScanSound(scan', proven', routing', required') BY <2>1, <2>2 DEF walkForwardVars
  <2>6. events' \in 0..MaxEvents /\ routing' \in BOOLEAN /\ required' \in BOOLEAN BY <1>1, <2>1
  <2> QED BY <2>2, <2>3, <2>4, <2>5, <2>6, InvPartsAfter
<1>3. CASE Others \/ \E a \in Checkers : Committing(a)
  <2>1. OthersEffect BY <1>3, OthersKeep
  <2>2. RegimeTypeOK' BY <1>1, <2>1, RegimeKeeps DEF OthersEffect, regimeVars, RegimeTypeOK
  <2>3. HealthTypeOK' /\ VerdictGiven'
    BY <1>1, <2>1, HealthKeeps, ForgottenCheck DEF OthersEffect, healthVars, HealthTypeOK, VerdictGiven
  <2>4. WalkForwardTypeOK' /\ CompletedIsProven' /\ proven \subseteq proven'
    BY <1>1, <2>1, RunsKeep DEF OthersEffect, walkForwardVars, WalkForwardTypeOK, CompletedIsProven
  <2>5. ScanSound(scan', proven', routing', required')
    BY <1>1, <2>1, <2>4, RestingIsSound DEF OthersEffect, ScanSound
  <2>6. events' \in 0..MaxEvents /\ routing' \in BOOLEAN /\ required' \in BOOLEAN
    BY <1>1, <2>1, LiveAssumption DEF OthersEffect
  <2> QED BY <2>2, <2>3, <2>4, <2>5, <2>6, InvPartsAfter
<1>4. CASE UNCHANGED vars
  <2>1. UNCHANGED <<market, recent, latest, trades, enabled, state, check, runs, working, horizon,
                    proven, routing, required, scan, events>>
    BY <1>4 DEF vars, regimeVars, healthVars, walkForwardVars
  <2>2. RegimeTypeOK' /\ HealthTypeOK' /\ WalkForwardTypeOK' /\ VerdictGiven' /\ CompletedIsProven'
    BY <1>1, <2>1 DEF RegimeTypeOK, HealthTypeOK, WalkForwardTypeOK, VerdictGiven, CompletedIsProven
  <2> QED BY <1>1, <2>1, <2>2, InvPartsAfter
<1> QED BY <1>2, <1>3, <1>4 DEF Next

-----------------------------------------------------------------------------
(* The theorems *)

\* The inductive invariant of the checks around a scan (scheduler.py run_cycle).
THEOREM AdviceInvariant == Spec => []AdviceInv
<1>1. Spec => Init /\ [][Next]_vars BY DEF Spec
<1> QED BY <1>1, InitSound, NextKeeps, PTL

\* The state of the three parts and of the scan is what their definitions say, whatever the
\* processes do at once.
THEOREM TypeCorrect == Spec => []TypeOK
<1>1. AdviceInv => TypeOK BY DEF AdviceInv
<1> QED BY <1>1, AdviceInvariant, PTL

\* With the gate on, no cycle scans the live strategy before a run on its own data approved it,
\* for any number of runs, deletions, deaths and expiries.
THEOREM ValidatedFirst == Spec => []LiveValidated
<1>1. AdviceInv => LiveValidated BY DEF AdviceInv, TypeOK, GatePassed, LiveValidated, Validated
<1> QED BY <1>1, AdviceInvariant, PTL

\* The filter never refuses what the router chose for the regime the filter reads, unless the
\* votes are too divided: whatever regimes the ensemble can give.
THEOREM RouterAgrees == Spec => RoutedAllowed
<1> DEFINE Refuses == scan.pc = "filter" /\ scan.regime # "none" /\ scan' = Resting /\ events' = events
           Excused == Uncertain(latest) \/ latest.regime # scan.regime
<1>1. AdviceInv /\ [Next]_vars => [Refuses => Excused]_vars
  <2> SUFFICES ASSUME AdviceInv, [Next]_vars, Refuses PROVE Excused OBVIOUS
  <2>1. /\ events \in Nat /\ scan \in ScanType /\ (scan.regime # "none" => scan.strategy = Route(scan.regime))
        /\ scan' # scan
    BY LiveAssumption, InvParts DEF ScanSound, Resting
  <2>2. ~OthersEffect BY <2>1 DEF OthersEffect
  <2>3. Scan BY <2>1, <2>2, OthersKeep DEF Next, vars
  <2>4. Filter
    BY <2>3 DEF Scan, PassGate, Start, Resolve, Signal, RefreshUnrouted, Judged, Decide
  <2>5. ~Allows(scan.strategy, latest) BY <2>4 DEF Filter, Resting, ScanType
  <2> QED BY <2>1, <2>5 DEF Allows, Refused, Route
<1> QED BY <1>1, AdviceInvariant, PTL DEF Spec, RoutedAllowed
====
