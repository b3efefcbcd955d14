-------------------------- MODULE EntryGate_proofs --------------------------
(***************************************************************************)
(* Proofs about EntryGate, for every set of symbols and requests and every *)
(* bound: the types, the bounds on late entries and on open positions, the *)
(* row lock around an entry, and the refinement of KillSwitch.             *)
(***************************************************************************)
EXTENDS EntryGate, SequenceTheorems, FiniteSetTheorems, TLAPS

-----------------------------------------------------------------------------
(* The inductive invariant *)

\* A symbol is named while it is scanned.
Scanned ==
  cycle.pc \in {"filters", "check", "lock", "submit", "persist"} => cycle.sym \in Symbols
\* Entries are late only while the breaker is tripped, and none is while a permit is out.
LateOnlyTripped == late > 0 => IsTripped
NoneLateYet == Permit => late = 0
\* The row is locked from approval to record.
RowLocked == UnderWay => cycle.lock

GateInv ==
  TypeOK /\ Scanned /\ LateOnlyTripped /\ NoneLateYet /\ OneLateEntry /\ RowLocked /\ OpenBound

-----------------------------------------------------------------------------
(* Lemmas about the helpers *)

\* The event that was logged decides.
LEMMA LogDecides ==
  ASSUME TypeOK, NEW state \in {"tripped", "armed"}, Log(state)
  PROVE  events' \in Seq(Event) /\ (IsTripped' <=> state = "tripped")
<1> DEFINE event == [state |-> state, at |-> now]
<1>1. event \in Event /\ event.state = state
  BY DEF TypeOK, Event
<1> HIDE DEF event
<1>2. events \in Seq(Event) /\ events' = Append(events, event)
  BY DEF TypeOK, Log, event
<1>3. /\ events' \in Seq(Event) /\ events' # <<>>
      /\ Len(events') = Len(events) + 1 /\ events'[Len(events) + 1] = event
  BY <1>1, <1>2, AppendProperties
<1> QED BY <1>1, <1>3 DEF IsTripped

\* The tables of the symbols stay finite and small.
LEMMA OpenCardinality ==
  ASSUME TypeOK
  PROVE  /\ IsFiniteSet(open) /\ Cardinality(open) \in Nat
         /\ \A sym \in Symbols :
              /\ Cardinality(open \cup {sym}) <= Cardinality(open) + 1
              /\ Cardinality(open \ {sym}) <= Cardinality(open)
<1>1. IsFiniteSet(open) /\ Cardinality(open) \in Nat
  BY SymbolAssumption, FS_Subset, FS_CardinalityType DEF TypeOK
<1>2. ASSUME NEW sym \in Symbols
      PROVE  /\ Cardinality(open \cup {sym}) <= Cardinality(open) + 1
             /\ Cardinality(open \ {sym}) <= Cardinality(open)
  <2>1. Cardinality(open \cup {sym}) <= Cardinality(open) + 1
    <3>1. Cardinality(open \cup {sym})
            = IF sym \in open THEN Cardinality(open) ELSE Cardinality(open) + 1
      BY <1>1, FS_AddElement
    <3> QED BY <1>1, <3>1
  <2>2. Cardinality(open \ {sym}) <= Cardinality(open)
    <3>1. Cardinality(open \ {sym})
            = IF sym \in open THEN Cardinality(open) - 1 ELSE Cardinality(open)
      BY <1>1, FS_RemoveElement
    <3> QED BY <1>1, <3>1
  <2> QED BY <2>1, <2>2
<1> QED BY <1>1, <1>2

LEMMA HappensType ==
  ASSUME TypeOK, Happens
  PROVE  outside' \in 0..MaxOutside
BY NumberAssumption DEF TypeOK, Happens

\* A commit leaves a flag.
LEMMA WrittenType ==
  ASSUME TypeOK, NEW copy, NEW flag \in Flag
  PROVE  Written(copy, flag) \in Flag
BY DEF TypeOK, Written

LEMMA InitialTypes == NoCycle \in Cycle /\ NoCycle.pc = "idle" /\ NoRequest \in Request
BY DEF Cycle, PC, NoCycle, NoRequest, Request, Flag

-----------------------------------------------------------------------------
(* The steps that change the cycle's session only *)

SessionStep ==
  \/ CycleStarts \/ WithinLimits \/ GateOpens \/ GateShut \/ CycleEnds
  \/ \E sym \in Symbols : ScanStarts(sym) \/ ScanSkips(sym)
  \/ FiltersPass \/ FiltersBlock \/ BreakerClear \/ BreakerBlocks \/ Rejects \/ NotSent

\* No such step has an entry under way afterwards.
LEMMA SessionKeeps ==
  ASSUME GateInv, SessionStep
  PROVE  GateInv'
<1>1. UNCHANGED <<events, enabled, open, req, environment, late>>
  BY DEF SessionStep, CycleStarts, WithinLimits, GateOpens, GateShut, CycleEnds, ScanStarts,
         ScanSkips, FiltersPass, FiltersBlock, BreakerClear, BreakerBlocks, Rejects, NotSent
<1>2. IsTripped' <=> IsTripped
  BY <1>1 DEF IsTripped
<1>3. (TypeOK' <=> cycle' \in Cycle) /\ LateOnlyTripped' /\ OneLateEntry'
  BY <1>1, <1>2 DEF environment, GateInv, TypeOK, LateOnlyTripped, OneLateEntry
<1>4. /\ cycle \in Cycle /\ cycle.sym \in Symbols \cup {NoSymbol}
      /\ enabled \in Flag /\ SeenFlag \in Flag
      /\ \A sym \in Symbols : cycle.todo \ {sym} \in SUBSET Symbols
  BY DEF GateInv, TypeOK, Cycle, SeenFlag
<1>5. /\ TypeOK /\ late \in Nat
      /\ {"breaker", "gate", "scan", "filters", "check", "lock"} \subseteq PC
      /\ \A sym \in Symbols : sym \in Symbols \cup {NoSymbol}
      /\ NoSymbol \in Symbols \cup {NoSymbol} /\ FALSE \in BOOLEAN
  BY DEF GateInv, TypeOK, PC
<1>6. Cardinality(open') <= MaxOpen
  BY <1>1, <1>5, OpenCardinality, NumberAssumption DEF GateInv, OpenBound
<1>7. ASSUME cycle' \in Cycle, Scanned', ~UnderWay', cycle'.pc = "lock" => late = 0
      PROVE  GateInv'
  <2>1. NoneLateYet' /\ RowLocked'
    BY <1>1, <1>7 DEF NoneLateYet, Permit, UnderWay, RowLocked
  <2>2. OpenBound'
    <3>1. Cardinality(open') \in Nat
      BY <1>1, <1>5, OpenCardinality
    <3> QED BY <1>6, <1>7, <3>1 DEF OpenBound
  <2> QED BY <1>3, <1>7, <2>1, <2>2 DEF GateInv
<1>8. CASE CycleStarts \/ WithinLimits \/ GateShut \/ CycleEnds
  <2>1. \/ \E pc \in {"breaker", "gate"} : cycle' = [cycle EXCEPT !.pc = pc]
        \/ cycle' = NoCycle
    BY <1>8 DEF CycleStarts, WithinLimits, GateShut, CycleEnds, Goto
  <2>2. cycle' \in Cycle /\ cycle'.pc \in {"breaker", "gate", "idle"}
    BY <1>4, <1>5, <2>1, InitialTypes DEF Cycle
  <2> QED BY <1>7, <2>2 DEF Scanned, UnderWay
<1>9. CASE GateOpens
  <2>1. cycle' \in Cycle /\ cycle'.pc = "scan"
    BY <1>4, <1>5, <1>9 DEF GateOpens, Cycle
  <2> QED BY <1>7, <2>1 DEF Scanned, UnderWay
<1>10. ASSUME NEW sym \in Symbols, ScanStarts(sym) PROVE GateInv'
  <2>1. cycle' \in Cycle /\ cycle'.pc = "filters" /\ cycle'.sym = sym
    BY <1>4, <1>5, <1>10 DEF ScanStarts, Cycle
  <2> QED BY <1>7, <2>1 DEF Scanned, UnderWay
<1>11. ASSUME NEW sym \in Symbols, ScanSkips(sym) PROVE GateInv'
  <2>1. cycle' \in Cycle /\ cycle'.pc = "scan"
    BY <1>4, <1>5, <1>11 DEF ScanSkips, Cycle, At
  <2> QED BY <1>7, <2>1 DEF Scanned, UnderWay
<1>12. CASE FiltersPass \/ BreakerClear
  <2>1. /\ cycle' \in Cycle /\ cycle'.pc \in {"check", "lock"}
        /\ cycle'.sym = cycle.sym /\ cycle.pc \in {"filters", "check"}
    BY <1>4, <1>5, <1>12 DEF FiltersPass, BreakerClear, Goto, At, Cycle
  <2>2. Scanned'
    BY <2>1 DEF GateInv, Scanned
  <2>3. cycle'.pc = "lock" => ~IsTripped
    BY <1>12, <1>4 DEF FiltersPass, BreakerClear, Goto, Cycle
  <2>4. ~IsTripped => late = 0
    BY <1>5 DEF GateInv, LateOnlyTripped
  <2> QED BY <1>7, <2>1, <2>2, <2>3, <2>4 DEF UnderWay
<1>13. CASE FiltersBlock \/ BreakerBlocks \/ Rejects \/ NotSent
  <2>1. cycle' \in Cycle /\ cycle'.pc = "scan"
    <3>1. CASE FiltersBlock
      BY <1>4, <1>5, <3>1 DEF FiltersBlock, LeaveSymbol, Cycle
    <3>2. CASE BreakerBlocks
      BY <1>4, <1>5, <3>2 DEF BreakerBlocks, LeaveSymbol, Cycle
    <3>3. CASE Rejects
      BY <1>4, <1>5, <3>3 DEF Rejects, Cycle
    <3>4. CASE NotSent
      <4>1. PICK locked \in BOOLEAN : LeaveSymbol(locked)
        BY <3>4 DEF NotSent
      <4> QED BY <1>4, <1>5, <4>1 DEF LeaveSymbol, Cycle
    <3> QED BY <1>13, <3>1, <3>2, <3>3, <3>4
  <2> QED BY <1>7, <2>1 DEF Scanned, UnderWay
<1> QED BY <1>8, <1>9, <1>10, <1>11, <1>12, <1>13 DEF SessionStep

-----------------------------------------------------------------------------
(* The steps of an entry *)

LEMMA ApprovesKeeps ==
  ASSUME GateInv, Approves
  PROVE  GateInv'
<1>1. /\ UNCHANGED <<events, enabled, open, req, environment, late>>
      /\ cycle' = [cycle EXCEPT !.pc = "submit", !.copy = SeenFlag, !.lock = TRUE]
      /\ cycle.pc = "lock" /\ Cardinality(open) < MaxOpen
  BY DEF Approves, At
<1>2. /\ TypeOK /\ cycle \in Cycle /\ SeenFlag \in Flag /\ "submit" \in PC
  BY DEF GateInv, TypeOK, Cycle, SeenFlag, PC
<1>3. /\ cycle' \in Cycle /\ cycle'.pc = "submit" /\ cycle'.lock = TRUE
      /\ cycle'.sym = cycle.sym
  BY <1>1, <1>2 DEF Cycle
<1>4. TypeOK' /\ Scanned' /\ RowLocked'
  BY <1>1, <1>2, <1>3 DEF GateInv, TypeOK, environment, Scanned, RowLocked
<1>5. LateOnlyTripped' /\ OneLateEntry' /\ NoneLateYet'
  BY <1>1 DEF GateInv, LateOnlyTripped, OneLateEntry, NoneLateYet, Permit, IsTripped
<1>6. OpenBound'
  <2>1. Cardinality(open') + 1 <= MaxOpen
    BY <1>1, <1>2, OpenCardinality, NumberAssumption
  <2> QED BY <1>3, <2>1 DEF OpenBound, UnderWay
<1> QED BY <1>4, <1>5, <1>6 DEF GateInv

LEMMA SentKeeps ==
  ASSUME GateInv, Sent
  PROVE  GateInv'
<1>1. /\ UNCHANGED <<events, enabled, open, req, environment>>
      /\ cycle' = [cycle EXCEPT !.pc = "persist"] /\ cycle.pc = "submit"
      /\ late' = IF IsTripped THEN late + 1 ELSE late
  BY DEF Sent, At, Goto
<1>2. TypeOK /\ cycle \in Cycle /\ "persist" \in PC /\ late = 0
  BY <1>1 DEF GateInv, TypeOK, PC, NoneLateYet, Permit
<1>3. /\ cycle' \in Cycle /\ cycle'.pc = "persist" /\ cycle'.lock = cycle.lock
      /\ cycle'.sym = cycle.sym
  BY <1>1, <1>2 DEF Cycle
<1>4. late' \in {0, 1} /\ (late' > 0 => IsTripped)
  BY <1>1, <1>2
<1>5. TypeOK' /\ OneLateEntry'
  BY <1>1, <1>2, <1>3, <1>4 DEF TypeOK, environment, OneLateEntry
<1>6. LateOnlyTripped'
  BY <1>1, <1>4 DEF LateOnlyTripped, IsTripped
<1>7. Scanned' /\ RowLocked' /\ NoneLateYet'
  BY <1>1, <1>3 DEF GateInv, Scanned, RowLocked, NoneLateYet, Permit, UnderWay
<1>8. OpenBound'
  BY <1>1, <1>3 DEF GateInv, OpenBound, UnderWay
<1> QED BY <1>5, <1>6, <1>7, <1>8 DEF GateInv

LEMMA PersistKeeps ==
  ASSUME GateInv, Persists \/ PersistFails
  PROVE  GateInv'
<1>1. /\ UNCHANGED <<events, enabled, req, now, late>> /\ cycle.pc = "persist"
      /\ open' = open \/ open' = open \cup {cycle.sym}
  BY DEF Persists, PersistFails, At, environment
<1>2. TypeOK /\ cycle \in Cycle /\ cycle.sym \in Symbols /\ "scan" \in PC
  BY <1>1 DEF GateInv, TypeOK, PC, Scanned
<1>3. cycle' \in Cycle /\ cycle'.pc = "scan"
  BY <1>2 DEF Persists, PersistFails, LeaveSymbol, Cycle
<1>4. open' \in SUBSET Symbols
  BY <1>1, <1>2 DEF TypeOK
<1>5. outside' \in 0..MaxOutside
  BY <1>2, HappensType DEF Persists, PersistFails, environment, TypeOK
<1>6. TypeOK'
  BY <1>1, <1>2, <1>3, <1>4, <1>5 DEF TypeOK
<1>7. /\ Scanned' /\ RowLocked' /\ NoneLateYet' /\ LateOnlyTripped' /\ OneLateEntry'
  BY <1>1, <1>3 DEF GateInv, Scanned, RowLocked, NoneLateYet, Permit, UnderWay,
                    LateOnlyTripped, OneLateEntry, IsTripped
<1>8. OpenBound'
  <2>1. Cardinality(open) + 1 <= MaxOpen
    BY <1>1 DEF GateInv, OpenBound, UnderWay
  <2>2. Cardinality(open') <= Cardinality(open) + 1
    BY <1>1, <1>2, OpenCardinality
  <2>3. Cardinality(open) \in Nat /\ Cardinality(open') \in Nat
    BY <1>2, <1>6, OpenCardinality, SymbolAssumption, FS_Subset, FS_CardinalityType DEF TypeOK
  <2> QED BY <1>3, <2>1, <2>2, <2>3, NumberAssumption DEF OpenBound, UnderWay
<1> QED BY <1>6, <1>7, <1>8 DEF GateInv
-----------------------------------------------------------------------------
(* The steps that write the settings row or the events *)

\* A step that leaves the positions, the lateness and the entry under way alone.
LEMMA OthersKeep ==
  ASSUME GateInv, TypeOK', open' \subseteq open, late' = late, cycle' = cycle \/ cycle' = NoCycle,
         IsTripped' = IsTripped \/ IsTripped' = TRUE
  PROVE  GateInv'
<1>1. TypeOK /\ Cardinality(open') <= Cardinality(open)
      /\ Cardinality(open) \in Nat /\ Cardinality(open') \in Nat
  BY OpenCardinality, FS_Subset, FS_CardinalityType DEF GateInv
<1>2. OneLateEntry' /\ LateOnlyTripped'
  BY DEF GateInv, OneLateEntry, LateOnlyTripped
<1>3. cycle' = NoCycle => cycle'.pc = "idle"
  BY InitialTypes
<1>4. Scanned'
  BY <1>3 DEF GateInv, Scanned
<1>5. RowLocked' /\ NoneLateYet'
  BY <1>3 DEF GateInv, RowLocked, NoneLateYet, Permit, UnderWay
<1>6. OpenBound'
  BY <1>1, <1>3, NumberAssumption DEF GateInv, OpenBound, UnderWay
<1> QED BY <1>2, <1>4, <1>5, <1>6 DEF GateInv

LEMMA LimitKeeps ==
  ASSUME GateInv, LimitBreached \/ HealthPauses
  PROVE  GateInv'
<1>1. UNCHANGED <<events, open, req, now, late>>
  BY DEF LimitBreached, HealthPauses, environment
<1>2. TypeOK /\ cycle \in Cycle /\ enabled \in Flag /\ {"trip", "scan"} \subseteq PC
  BY DEF GateInv, TypeOK, PC
<1>3. cycle' \in Cycle /\ cycle'.pc \in {"trip", "scan"}
  <2>1. CASE LimitBreached
    BY <1>2, <2>1 DEF LimitBreached, Cycle
  <2>2. CASE HealthPauses
    <3>1. "off" \in Flag
      BY DEF Flag
    <3>2. cycle' = [cycle EXCEPT !.pc = "scan", !.sym = NoSymbol, !.lock = FALSE, !.copy = "off"]
      BY <2>2 DEF HealthPauses
    <3> QED BY <1>2, <3>1, <3>2 DEF Cycle
  <2> QED BY <2>1, <2>2
<1>4. enabled' \in Flag
  <2>1. CASE LimitBreached
    BY <1>2, <2>1 DEF LimitBreached
  <2>2. CASE HealthPauses
    BY <1>2, <2>2 DEF HealthPauses, Written, Flag
  <2> QED BY <2>1, <2>2
<1>5. outside' \in 0..MaxOutside
  BY <1>2, HappensType DEF LimitBreached, HealthPauses, environment, TypeOK
<1>6. TypeOK'
  BY <1>1, <1>2, <1>3, <1>4, <1>5 DEF TypeOK
<1>7. /\ Scanned' /\ RowLocked' /\ NoneLateYet' /\ LateOnlyTripped' /\ OneLateEntry'
  BY <1>1, <1>3 DEF GateInv, Scanned, RowLocked, NoneLateYet, Permit, UnderWay,
                    LateOnlyTripped, OneLateEntry, IsTripped
<1>8. OpenBound'
  <2>1. Cardinality(open) \in Nat
    BY <1>2, OpenCardinality
  <2> QED BY <1>1, <1>3, <2>1, NumberAssumption DEF GateInv, OpenBound, UnderWay
<1> QED BY <1>6, <1>7, <1>8 DEF GateInv

LEMMA TripKeeps ==
  ASSUME GateInv, CycleTrips \/ \E r \in Requests : TripCommits(r)
  PROVE  GateInv'
<1>1. /\ UNCHANGED <<open, environment, late>> /\ Log("tripped")
      /\ cycle' = cycle \/ cycle' = NoCycle
      /\ \E copy : enabled' = Written(copy, "off")
      /\ req' = req \/ \E r \in Requests : req' = [req EXCEPT ![r] = NoRequest]
  BY DEF CycleTrips, TripCommits, Answer
<1>2. TypeOK /\ "off" \in Flag
  BY DEF GateInv, Flag
<1>3. events' \in Seq(Event) /\ IsTripped'
  BY <1>1, <1>2, LogDecides
<1>4. enabled' \in Flag
  BY <1>1, <1>2, WrittenType
<1>5. req' \in [Requests -> Request]
  BY <1>1, <1>2, InitialTypes DEF TypeOK
<1>6. TypeOK'
  BY <1>1, <1>2, <1>3, <1>4, <1>5, InitialTypes DEF TypeOK, environment
<1> QED BY <1>1, <1>3, <1>6, OthersKeep

LEMMA ResetKeeps ==
  ASSUME GateInv, NEW r \in Requests, ResetCommits(r)
  PROVE  GateInv'
<1>1. /\ UNCHANGED <<enabled, open, cycle, environment>> /\ Log("armed") /\ late' = 0
      /\ req' = [req EXCEPT ![r] = NoRequest]
  BY DEF ResetCommits, Answer
<1>2. TypeOK
  BY DEF GateInv
<1>3. events' \in Seq(Event)
  BY <1>1, <1>2, LogDecides
<1>4. TypeOK'
  BY <1>1, <1>2, <1>3, InitialTypes DEF TypeOK, environment
<1> QED BY <1>1, <1>4 DEF GateInv, Scanned, RowLocked, NoneLateYet, Permit, UnderWay,
                          LateOnlyTripped, OneLateEntry, OpenBound

LEMMA RequestKeeps ==
  ASSUME GateInv, NEW r \in Requests, SettingsRead(r) \/ ResetRead(r) \/ FlagCommits(r)
  PROVE  GateInv'
<1>1. UNCHANGED <<events, open, cycle, now, late>>
  BY DEF SettingsRead, ResetRead, FlagCommits, environment
<1>2. TypeOK /\ NoRequest \in Request
  BY InitialTypes DEF GateInv
<1>3. outside' \in 0..MaxOutside
  BY <1>2, HappensType DEF SettingsRead, ResetRead, FlagCommits, environment, TypeOK
<1>4. enabled' \in Flag
  <2>1. \A flag \in {"on", "off"} : Written(req[r].copy, flag) \in Flag
    BY <1>2, WrittenType DEF Flag
  <2> QED BY <1>2, <2>1 DEF SettingsRead, ResetRead, FlagCommits, TypeOK
<1>5. req' \in [Requests -> Request]
  <2>1. \A op \in Ops : [op |-> op, copy |-> enabled] \in Request
    BY <1>2 DEF Request, TypeOK
  <2> QED BY <1>2, <2>1 DEF SettingsRead, ResetRead, FlagCommits, Answer, TypeOK
<1>6. TypeOK'
  BY <1>1, <1>2, <1>3, <1>4, <1>5 DEF TypeOK
<1>7. IsTripped' = IsTripped
  BY <1>1 DEF IsTripped
<1> QED BY <1>1, <1>6, <1>7, OthersKeep

LEMMA OutsideKeeps ==
  ASSUME GateInv, WorkerDies \/ Tick \/ (\E sym \in Symbols : Closes(sym)) \/ UNCHANGED vars
  PROVE  GateInv'
<1>1. /\ UNCHANGED <<events, enabled, req, late>> /\ open' \subseteq open
      /\ cycle' = cycle \/ cycle' = NoCycle
  BY DEF WorkerDies, Tick, Closes, environment, vars
<1>2. TypeOK
  BY DEF GateInv
<1>3. outside' \in 0..MaxOutside /\ now' \in 0..MaxTime
  BY <1>2, HappensType, NumberAssumption
  DEF WorkerDies, Tick, Closes, environment, vars, TypeOK
<1>4. TypeOK'
  BY <1>1, <1>2, <1>3, InitialTypes DEF TypeOK
<1>5. IsTripped' = IsTripped
  BY <1>1 DEF IsTripped
<1> QED BY <1>1, <1>4, <1>5, OthersKeep

-----------------------------------------------------------------------------
(* The invariants *)

LEMMA GateInit == Init => GateInv
<1> SUFFICES ASSUME Init PROVE GateInv
  OBVIOUS
<1>1. TypeOK
  <2>1. events \in Seq(Event)
    BY EmptySeq DEF Init
  <2> QED BY <2>1, InitialTypes, NumberAssumption DEF Init, TypeOK
<1>2. cycle.pc = "idle" /\ late = 0 /\ Cardinality(open) <= MaxOpen
  BY InitialTypes DEF Init
<1>3. OpenBound
  BY <1>1, <1>2, OpenCardinality DEF OpenBound, UnderWay
<1> QED BY <1>1, <1>2, <1>3 DEF GateInv, Scanned, RowLocked, NoneLateYet, Permit, UnderWay,
                               LateOnlyTripped, OneLateEntry

LEMMA GateStep == GateInv /\ [Next]_vars => GateInv'
<1> SUFFICES ASSUME GateInv, [Next]_vars PROVE GateInv'
  OBVIOUS
<1>1. CASE CycleStep
  BY <1>1, SessionKeeps, ApprovesKeeps, SentKeeps, PersistKeeps, LimitKeeps, TripKeeps
  DEF CycleStep, ScanStep, SessionStep
<1>2. CASE Failure
  BY <1>2, LimitKeeps, PersistKeeps, OutsideKeeps DEF Failure
<1>3. CASE \E r \in Requests : RequestStep(r)
  BY <1>3, RequestKeeps, TripKeeps, ResetKeeps DEF RequestStep, Commits
<1>4. CASE Tick \/ (\E sym \in Symbols : Closes(sym)) \/ UNCHANGED vars
  BY <1>4, OutsideKeeps
<1> QED BY <1>1, <1>2, <1>3, <1>4 DEF Next

\* The cycle, its session, the requests and the breaker's events keep their types.
THEOREM TypeCorrect == Spec => []TypeOK
<1>1. GateInv => TypeOK
  BY DEF GateInv
<1> QED BY GateInit, GateStep, <1>1, PTL DEF Spec

\* However many requests trip and reset the breaker while a cycle is under way, and
\* wherever the worker dies, no second entry is sent after the last trip.
THEOREM AtMostOneLate == Spec => []OneLateEntry
<1>1. GateInv => OneLateEntry
  BY DEF GateInv
<1> QED BY GateInit, GateStep, <1>1, PTL DEF Spec

\* The count of open rows, checked before the order, still bounds them after its record.
THEOREM BoundedPositions == Spec => []OpenBound
<1>1. GateInv => OpenBound
  BY DEF GateInv
<1> QED BY GateInit, GateStep, <1>1, PTL DEF Spec

-----------------------------------------------------------------------------
(* The row lock *)

\* No step writes the flag while an entry is under way and stays so: the cycle writes it
\* elsewhere, and a request that would change it waits for the lock.
LEMMA FlagStep ==
  ASSUME GateInv, Next, UnderWay, UnderWay'
  PROVE  enabled' = enabled
<1>1. cycle.lock /\ cycle.pc \in {"submit", "persist"}
  BY DEF GateInv, RowLocked, UnderWay
<1>2. CASE CycleStep \/ Failure
  <2>1. ~CycleTrips /\ ~HealthPauses
    BY <1>1 DEF CycleTrips, HealthPauses, At
  <2> QED BY <1>2, <2>1
          DEF CycleStep, ScanStep, Failure, CycleStarts, WithinLimits, GateOpens, GateShut,
              CycleEnds, ScanStarts, ScanSkips, FiltersPass, FiltersBlock, BreakerClear,
              BreakerBlocks, Approves, Rejects, NotSent, Sent, Persists, LimitBreached,
              PersistFails, WorkerDies
<1>3. CASE \E r \in Requests : RequestStep(r)
  BY <1>1, <1>3 DEF RequestStep, Commits, SettingsRead, ResetRead, TripCommits, ResetCommits,
                    FlagCommits, Written, RowWritable
<1>4. CASE Tick \/ \E sym \in Symbols : Closes(sym)
  BY <1>4 DEF Tick, Closes
<1> QED BY <1>2, <1>3, <1>4 DEF Next

\* Pause, resume and trip wait until the entry is recorded or dropped.
THEOREM EntriesSerialised == Spec => EntrySerialised
<1>1. GateInv /\ [Next]_vars => [UnderWay /\ UnderWay' => enabled' = enabled]_vars
  BY FlagStep
<1> QED BY GateInit, GateStep, <1>1, PTL DEF Spec, EntrySerialised

-----------------------------------------------------------------------------
(* The refinement *)

LEMMA KillSwitchInit == Init => KS!Init
BY InitialTypes DEF Init, KS!Init, IsTripped, Permit

\* Each step trips, arms, issues, withdraws or spends, or is invisible.
LEMMA KillSwitchStep == GateInv /\ [Next]_vars => [KS!Next]_(KS!vars)
<1> SUFFICES ASSUME GateInv, Next PROVE KS!Next \/ UNCHANGED KS!vars
  BY DEF vars, KS!vars, IsTripped, Permit
<1> USE DEF KS!vars
<1>1. TypeOK /\ cycle \in Cycle /\ NoCycle.pc = "idle"
  BY InitialTypes DEF GateInv, TypeOK
<1>2. CASE CycleTrips \/ \E r \in Requests : TripCommits(r)
  <2>1. IsTripped' /\ late' = late
    BY <1>1, <1>2, LogDecides DEF CycleTrips, TripCommits
  <2>2. Permit' = Permit
    BY <1>1, <1>2 DEF CycleTrips, TripCommits, Permit, At
  <2> QED BY <2>1, <2>2 DEF KS!Next, KS!Trip
<1>3. CASE \E r \in Requests : ResetCommits(r)
  <2>1. ~IsTripped' /\ late' = 0
    BY <1>1, <1>3, LogDecides DEF ResetCommits
  <2>2. Permit' = Permit
    BY <1>3 DEF ResetCommits, Permit
  <2> QED BY <2>1, <2>2 DEF KS!Next, KS!Rearm, IsTripped
<1>4. CASE BreakerClear
  <2>1. ~IsTripped /\ UNCHANGED <<events, late>> /\ cycle' = [cycle EXCEPT !.pc = "lock"]
    BY <1>4 DEF BreakerClear, Goto
  <2>2. Permit' /\ IsTripped' = IsTripped
    BY <1>1, <2>1 DEF Permit, IsTripped, Cycle
  <2> QED BY <2>1, <2>2 DEF KS!Next, KS!Issue, Permit
<1>5. CASE Sent
  <2>1. /\ cycle.pc = "submit" /\ UNCHANGED events /\ cycle' = [cycle EXCEPT !.pc = "persist"]
        /\ late' = IF IsTripped THEN late + 1 ELSE late
    BY <1>5 DEF Sent, At, Goto
  <2>2. Permit /\ ~Permit' /\ IsTripped' = IsTripped
    BY <1>1, <2>1 DEF Permit, IsTripped, Cycle
  <2> QED BY <2>1, <2>2 DEF KS!Next, KS!Enter, Permit
<1>6. CASE Rejects \/ NotSent \/ WorkerDies
  <2>1. UNCHANGED <<events, late>>
    BY <1>6 DEF Rejects, NotSent, WorkerDies
  <2>2. ~Permit'
    BY <1>1, <1>6 DEF Rejects, NotSent, WorkerDies, LeaveSymbol, Permit, Cycle
  <2>3. IsTripped' = IsTripped
    BY <2>1 DEF IsTripped
  <2> QED BY <2>1, <2>2, <2>3 DEF KS!Next, KS!Withdraw, Permit
<1>7. ASSUME UNCHANGED <<events, late>>, Permit' = Permit PROVE UNCHANGED KS!vars
  BY <1>7 DEF IsTripped
<1>8. CASE /\ SessionStep \/ Approves \/ Persists \/ HealthPauses \/ Failure
           /\ ~BreakerClear /\ ~Rejects /\ ~NotSent /\ ~WorkerDies
  <2>1. UNCHANGED <<events, late>>
    BY <1>8 DEF SessionStep, CycleStarts, WithinLimits, GateOpens, GateShut, CycleEnds,
                ScanStarts, ScanSkips, FiltersPass, FiltersBlock, BreakerBlocks, Approves,
                Persists, HealthPauses, Failure, LimitBreached, PersistFails
  <2>2. CASE Approves
    BY <1>1, <1>7, <2>1, <2>2 DEF Approves, At, Permit, Cycle
  <2>3. CASE ~Approves
    <3>1. ~Permit
      BY <1>8, <2>3 DEF SessionStep, CycleStarts, WithinLimits, GateOpens, GateShut, CycleEnds,
                ScanStarts, ScanSkips, FiltersPass, FiltersBlock, BreakerBlocks,
                Persists, HealthPauses, Failure, LimitBreached, PersistFails, At, Permit
    <3>2. ~Permit'
      BY <1>1, <1>8, <2>3 DEF SessionStep, CycleStarts, WithinLimits, GateOpens, GateShut,
                CycleEnds, ScanStarts, ScanSkips, FiltersPass, FiltersBlock, BreakerBlocks,
                Persists, HealthPauses, Failure, LimitBreached, PersistFails, At, Permit,
                Goto, LeaveSymbol, Cycle
    <3> QED BY <1>7, <2>1, <3>1, <3>2 DEF Permit
  <2> QED BY <2>2, <2>3
<1>9. CASE \/ \E r \in Requests : SettingsRead(r) \/ ResetRead(r) \/ FlagCommits(r)
           \/ Tick \/ \E sym \in Symbols : Closes(sym)
  BY <1>7, <1>9 DEF SettingsRead, ResetRead, FlagCommits, Tick, Closes, Permit
<1> QED BY <1>2, <1>3, <1>4, <1>5, <1>6, <1>8, <1>9
        DEF Next, CycleStep, ScanStep, SessionStep, Failure, RequestStep, Commits

\* The gates of the worker, with every request, failure and restart, implement the kill
\* switch for any number of symbols, requests and trips.
THEOREM GateRefinesKillSwitch == Spec => ImplementsKillSwitch
<1> QED BY GateInit, GateStep, KillSwitchInit, KillSwitchStep, PTL
        DEF Spec, ImplementsKillSwitch, KS!Spec
=============================================================================
