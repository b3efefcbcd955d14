------------------------ MODULE LivePosition_proofs ------------------------
(***************************************************************************)
(* The types, the closed rows, the books and the stops of LivePosition,    *)
(* for every number of stops, levels, retries and faults.                  *)
(*                                                                         *)
(* First what holds whatever the jobs do: the types; and that a closed row *)
(* stays closed and one row at most is open, unless partial fills meet     *)
(* commits that fail.                                                      *)
(*                                                                         *)
(* Then the books, as long as sells fill in full and a partial profit      *)
(* takes less than half of a position (config.py: scale_out_fraction       *)
(* 0.33).  They balance, and a closed row has been sold, for every number  *)
(* of rows when nobody closes by hand; and for one position that is open   *)
(* at the start however often the operator closes it too.  phantom_close   *)
(* shows what a partial profit of half or more does.                       *)
(*                                                                         *)
(* Last the protective stop of a position that is already open: no stop is *)
(* left behind and, between two passes of the monitor, the resting stop is *)
(* that of the row, for every fill, and for one monitor at work: nobody    *)
(* closes by hand and the cycle only reconciles (a job that places a stop  *)
(* of its own meanwhile leaves one behind; see the README).                *)
(***************************************************************************)
EXTENDS LivePosition, SequenceTheorems, WellFoundedInduction, TLAPS

-----------------------------------------------------------------------------
(* Lemmas about the helpers *)

\* A merged row takes each column from one of three rows.
LEMMA MergeType ==
  ASSUME NEW db \in Row, NEW base \in Row, NEW my \in Row
  PROVE  Merge(db, base, my) \in Row
BY DEF Merge, Column, Row

LEMMA ConstantTypes ==
  /\ NoRow \in Row
  /\ NotResting \in Stop
  /\ Idle \in Session
  /\ NoRec.todo = {} /\ NoRec.base \in [RowId -> Row]
  /\ \A r \in RowId : NoRec.base[r] = NoRow
<1>1. NoRow \in Row
  BY LotAssumption, BoundsAssumption DEF NoRow, Row, NoStop, Qty, Level
<1>2. NotResting \in Stop
  BY LotAssumption, BoundsAssumption DEF NotResting, Stop, Qty, Level
<1>3. Idle \in Session
  BY <1>1, LotAssumption, BoundsAssumption DEF Idle, Session, PC, RowId, Qty, NoStop
<1> QED BY <1>1, <1>2, <1>3 DEF NoRec

\* The id a stop gets is in the pool and not in use.
LEMMA FreshIdType ==
  ASSUME UsedIds # StopId
  PROVE  FreshId \in StopId \ UsedIds
<1>1. \E i \in StopId : i \notin UsedIds
  BY DEF UsedIds
<1> QED BY <1>1 DEF FreshId

\* A market sell of q fills, and is taken to have filled, no more than q.
LEMMA OutcomeType ==
  ASSUME NEW q \in Qty, NEW o \in Outcomes(q)
  PROVE  /\ o.exec \in 0..q /\ o.fill \in 0..q
         /\ FillModes = {"full"} => o.exec = q /\ o.fill = q
BY LotAssumption DEF Outcomes, Qty

LEMMA PartType ==
  ASSUME NEW q \in Qty
  PROVE  /\ Part[q] \in Qty /\ Part[q] <= q
         /\ q > 0 => Part[q] < q
BY LotAssumption, PartAssumption DEF Qty

\* A bounded non-empty set of order numbers has a last one.
LEMMA LastExists ==
  ASSUME NEW n \in Nat, NEW S, S \subseteq 1..n, S # {}
  PROVE  \E k \in S : \A j \in S : j <= k
<1> DEFINE Less == {p \in Nat \X Nat : p[1] < p[2]}
           T == {m \in Nat : n - m \in S}
<1>1. IsWellFoundedOn(Less, Nat)
  <2>1. IsWellFoundedOn(OpToRel(<, Nat), Nat)
    BY NatLessThanWellFounded
  <2>2. Less \cap (Nat \X Nat) \subseteq OpToRel(<, Nat)
    BY DEF OpToRel
  <2> HIDE DEF Less
  <2> QED BY <2>1, <2>2, IsWellFoundedOnSubrelation
<1>2. T \subseteq Nat /\ T # {}
  <2>1. PICK k \in S : TRUE
    OBVIOUS
  <2>2. n - k \in Nat /\ n - (n - k) = k
    BY <2>1
  <2> QED BY <2>2
<1>3. \E x \in T : \A y \in T : ~ (<<y, x>> \in Less)
  <2> HIDE DEF Less, T
  <2> QED BY <1>1, <1>2, WFMin
<1>4. PICK m \in T : \A y \in T : ~ (<<y, m>> \in Less)
  BY <1>3
<1>5. ASSUME NEW j \in S PROVE j <= n - m
  <2>1. n - j \in T /\ j \in Nat
    BY <1>5
  <2>2. ~ (n - j < m)
    BY <2>1, <1>4
  <2> QED BY <2>1, <2>2, <1>4
<1> QED BY <1>4, <1>5

-----------------------------------------------------------------------------
(* Type correctness *)

\* Bank subtracts the fill from the quantity, so TypeOK alone is not inductive.
BankedPart == s["monitor"].pc = "bank" => s["monitor"].fill <= s["monitor"].my.qty
TypeInv == TypeOK /\ BankedPart

\* The cycle's session never sells; the monitor alone scales out.
LEMMA SessionType ==
  ASSUME TypeOK, NEW a \in Actor
  PROVE  /\ s[a] \in Session /\ s[a].my \in Row /\ s[a].row \in RowId
         /\ s[a].my.qty \in Qty /\ s[a].fill \in Qty /\ s[a].exec \in Qty
         /\ s[a].my.stop \in StopId \cup {NoStop} /\ s[a].my.level \in Level
         /\ s[a].att \in 0..(Retries - 1) /\ s[a].my.pnl \in Nat
         /\ s[a].sid \in StopId \cup {NoStop}
BY DEF TypeOK, Session, Row

LEMMA CommitType ==
  ASSUME TypeOK, NEW a \in Actor, NEW my \in Row, NEW next \in Session,
         Commit(a, my, next)
  PROVE  rows' \in [RowId -> Row] /\ s' \in [Actor -> Session]
<1>1. Merge(rows[s[a].row], s[a].my, my) \in Row
  BY SessionType, MergeType DEF TypeOK
<1>2. [next EXCEPT !.my = my] \in Session
  BY DEF Session
<1> QED BY <1>1, <1>2, SessionType DEF Commit, TypeOK

LEMMA GotoType ==
  ASSUME TypeOK, NEW a \in Actor, NEW pc \in PC, Goto(a, pc)
  PROVE  s' \in [Actor -> Session] /\ s'[a].pc = pc /\ \A b \in Actor \ {a} : s'[b] = s[b]
<1>1. s \in [Actor -> Session] /\ s' = [s EXCEPT ![a].pc = pc]
  BY DEF TypeOK, Goto
<1> QED BY <1>1 DEF Session

LEMMA LeaveType ==
  ASSUME TypeOK, NEW a \in Actor, Leave(a)
  PROVE  s' \in [Actor -> Session] /\ s'[a] = Idle /\ \A b \in Actor \ {a} : s'[b] = s[b]
<1>1. s \in [Actor -> Session] /\ s' = [s EXCEPT ![a] = Idle]
  BY DEF TypeOK, Leave
<1> QED BY <1>1, ConstantTypes

LEMMA IdleWith ==
  /\ \A pc \in PC, r \in RowId, my \in Row :
       [Idle EXCEPT !.pc = pc, !.row = r, !.my = my] \in Session
  /\ \A pc \in PC, r \in RowId, then \in {"idle", "trail"} :
       [Idle EXCEPT !.pc = pc, !.row = r, !.then = then] \in Session
  /\ Idle.pc = "idle"
BY ConstantTypes DEF Session, Idle

LEMMA RetryType ==
  ASSUME TypeOK, NEW a \in Actor, NEW my \in Row, RetryWith(a, my)
  PROVE  /\ s' \in [Actor -> Session] /\ s'[a].pc \in {"sell", "place", "idle"}
         /\ \A b \in Actor \ {a} : s'[b] = s[b]
<1> DEFINE again == [s[a] EXCEPT !.pc = "sell", !.my = my, !.att = s[a].att + 1,
                                 !.fill = 0, !.exec = 0]
           over == [Idle EXCEPT !.pc = "place", !.row = s[a].row, !.my = my]
<1>1. ASSUME s[a].att + 1 < Retries PROVE again \in Session
  <2>1. s[a].att + 1 \in 0..(Retries - 1) /\ 0 \in Qty /\ "sell" \in PC
    BY <1>1, SessionType, LotAssumption, BoundsAssumption DEF Qty, PC
  <2> QED BY <2>1, SessionType DEF Session
<1>2. over \in Session
  <2>1. "place" \in PC
    BY DEF PC
  <2> QED BY <2>1, SessionType, IdleWith
<1>3. s' = [s EXCEPT ![a] = IF s[a].att + 1 < Retries THEN again
                           ELSE IF my.stop = NoStop THEN over ELSE Idle]
  BY DEF RetryWith
<1>4. again.pc = "sell" /\ over.pc = "place" /\ Idle.pc = "idle"
  BY SessionType DEF Session, Idle
<1> HIDE DEF again, over
<1> QED BY <1>1, <1>2, <1>3, <1>4, ConstantTypes DEF TypeOK

LEMMA MarketSellType ==
  ASSUME TypeOK, NEW a \in Actor, NEW pc \in PC, NEW q \in Qty, MarketSell(a, q, pc)
  PROVE  /\ holding' \in Nat /\ holding' = holding - s'[a].exec
         /\ s' \in [Actor -> Session]
         /\ s'[a].pc = pc /\ s'[a].fill <= q
         /\ s'[a].my = s[a].my /\ s'[a].row = s[a].row /\ s'[a].sid = s[a].sid
         /\ \A b \in Actor \ {a} : s'[b] = s[b]
         /\ FillModes = {"full"} => s'[a].fill = q /\ s'[a].exec = q
<1>1. PICK o \in Outcomes(q) :
        /\ holding' = holding - o.exec
        /\ s' = [s EXCEPT ![a].pc = pc, ![a].fill = o.fill, ![a].exec = o.exec]
  BY DEF MarketSell
<1> DEFINE f == o.fill
           e == o.exec
           sold == [s[a] EXCEPT !.pc = pc, !.fill = f, !.exec = e]
<1>2. f \in 0..q /\ e \in 0..q /\ (FillModes = {"full"} => f = q /\ e = q)
  BY OutcomeType
<1>3. holding' = holding - e
  BY <1>1
<1>4. s' = [s EXCEPT ![a] = sold]
  BY <1>1
<1> HIDE DEF f, e
<1>5. f \in Qty /\ e \in Qty /\ f <= q /\ e <= q
  BY <1>2, LotAssumption DEF Qty
<1>6. sold \in Session /\ sold.pc = pc /\ sold.fill = f /\ sold.exec = e
      /\ sold.my = s[a].my /\ sold.row = s[a].row /\ sold.sid = s[a].sid
  BY <1>5, SessionType DEF Session
<1> HIDE DEF sold
<1>7. s' \in [Actor -> Session] /\ s'[a] = sold /\ \A b \in Actor \ {a} : s'[b] = s[b]
  BY <1>4, <1>6 DEF TypeOK
<1>8. holding' \in Nat
  BY <1>3, <1>5, LotAssumption DEF MarketSell, TypeOK, Qty
<1> QED BY <1>2, <1>3, <1>5, <1>6, <1>7, <1>8

LEMMA FaultType ==
  ASSUME TypeOK, NEW f, Fault(f)
  PROVE  budget' \in 0..MaxFaults
BY BoundsAssumption DEF TypeOK, Fault

LEMMA RecordType ==
  ASSUME TypeOK, NEW a \in Actor, Record(a), rec' = rec
  PROVE  /\ orders' \in Seq(Order) /\ traded' \in [RowId -> Nat]
         /\ rec' \in [todo: SUBSET (1..Len(orders')), base: [RowId -> Row]]
<1> DEFINE order == [entry |-> FALSE, row |-> s[a].row, qty |-> s[a].fill,
                     exec |-> s[a].exec, open |-> TRUE]
<1>1. order \in Order /\ orders' = Append(orders, order)
  BY SessionType DEF Record, Order
<1>2. traded' \in [RowId -> Nat]
  <2>1. traded \in [RowId -> Nat] /\ s[a].fill \in Nat /\ s[a].row \in RowId
    BY SessionType, LotAssumption DEF TypeOK, Qty
  <2>2. traded' = [traded EXCEPT ![s[a].row] = @ + s[a].fill]
    BY DEF Record
  <2> QED BY <2>1, <2>2
<1> HIDE DEF order
<1>3. Len(orders') = Len(orders) + 1 /\ Len(orders) \in Nat /\ orders' \in Seq(Order)
  BY <1>1 DEF TypeOK
<1> QED BY <1>2, <1>3 DEF TypeOK

\* The types hold of the tables a deployment starts with (models/trading.py).
THEOREM InitType == Init => TypeInv
<1> SUFFICES ASSUME Init PROVE TypeInv
  OBVIOUS
<1>1. rows \in [RowId -> Row] /\ orders \in Seq(Order) /\ holding \in Nat
      /\ stops \in [StopId -> Stop]
  <2>1. CASE InitFlat
    BY <2>1, ConstantTypes DEF InitFlat
  <2>2. CASE InitOpen
    <3>1. PICK q \in Sizes : InitOpen!(q)
      BY <2>2 DEF InitOpen
    <3>2. q \in Qty /\ q \in Nat /\ 0 \in Level /\ 1 \in RowId /\ 1 \in StopId
      BY LotAssumption, BoundsAssumption DEF RowId, StopId, Qty, Level
    <3>3. [NoRow EXCEPT !.st = "open", !.qty = q, !.stop = 1] \in Row
      BY <3>2, ConstantTypes DEF Row
    <3>4. [entry |-> TRUE, row |-> 1, qty |-> q, exec |-> q, open |-> TRUE] \in Order
      BY <3>2 DEF Order
    <3>5. [qty |-> q, level |-> 0] \in Stop
      BY <3>2 DEF Stop
    <3> QED BY <3>1, <3>2, <3>3, <3>4, <3>5, ConstantTypes
  <2> QED BY <2>1, <2>2 DEF Init
<1>2. rec \in [todo: SUBSET (1..Len(orders)), base: [RowId -> Row]]
  BY ConstantTypes DEF Init, NoRec
<1>3. s \in [Actor -> Session] /\ BankedPart
  BY ConstantTypes, IdleWith DEF Init, BankedPart, Actor
<1>4. closes \in 0..MaxCloses /\ budget \in 0..MaxFaults /\ traded \in [RowId -> Nat]
  BY BoundsAssumption DEF Init
<1>5. exitSig \in BOOLEAN /\ bare \in BOOLEAN /\ lost \subseteq StopId
  BY Zenon DEF Init
<1>6. gone \in Int /\ fired \in Nat
  BY DEF Init
<1> QED BY <1>1, <1>2, <1>3, <1>4, <1>5, <1>6 DEF TypeInv, TypeOK

-----------------------------------------------------------------------------
(* Every step keeps the types: first the monitor's own actions *)

LEMMA MonitorType ==
  ASSUME TypeInv,
         \/ MonitorLoad \/ MonitorSkips \/ MonitorExits \/ MonitorScales \/ MonitorHolds
         \/ ScaleSell \/ ScaleFails \/ Bank \/ BankFails
         \/ TrailRaises \/ TrailHolds \/ AmendCancels
  PROVE  TypeInv'
<1>0. "monitor" \in Actor /\ TypeOK /\ {"decide", "cancel", "scale", "bank", "trail",
        "amend", "replace", "place"} \subseteq PC
  BY DEF Actor, TypeInv, PC
<1> USE DEF tables, exchange, environment, history
<1>1. CASE MonitorLoad
  <2>1. PICK r \in OpenRows :
          s' = [s EXCEPT !["monitor"] = [Idle EXCEPT !.pc = "decide", !.row = r, !.my = rows[r]]]
    BY <1>1 DEF MonitorLoad
  <2>2. r \in RowId /\ rows[r] \in Row
    BY <1>0 DEF OpenRows, TypeOK
  <2> DEFINE x == [Idle EXCEPT !.pc = "decide", !.row = r, !.my = rows[r]]
  <2>3. x \in Session /\ x.pc = "decide"
    BY <1>0, <2>2, IdleWith DEF Idle
  <2> HIDE DEF x
  <2>4. s' \in [Actor -> Session] /\ s'["monitor"].pc = "decide"
    BY <1>0, <2>1, <2>3 DEF TypeOK, x
  <2> QED BY <1>0, <1>1, <2>4 DEF MonitorLoad, TypeInv, TypeOK, BankedPart
<1>2. CASE MonitorSkips \/ TrailHolds \/ BankFails
  <2>1. s' \in [Actor -> Session] /\ s'["monitor"].pc = "idle"
    BY <1>0, <1>2, LeaveType, IdleWith DEF MonitorSkips, TrailHolds, BankFails
  <2>2. budget' \in 0..MaxFaults
    BY <1>0, <1>2, FaultType DEF MonitorSkips, TrailHolds, BankFails, TypeOK
  <2>3. gone' \in Int
    BY <1>0, <1>2, SessionType DEF MonitorSkips, TrailHolds, BankFails, TypeOK, Qty
  <2> QED BY <1>0, <1>2, <2>1, <2>2, <2>3
          DEF MonitorSkips, TrailHolds, BankFails, TypeInv, TypeOK, BankedPart
<1>3. CASE MonitorExits \/ MonitorScales \/ MonitorHolds
  <2>1. s' \in [Actor -> Session] /\ s'["monitor"].pc # "bank"
    BY <1>0, <1>3, GotoType DEF MonitorExits, MonitorScales, MonitorHolds
  <2> QED BY <1>0, <1>3, <2>1
          DEF MonitorExits, MonitorScales, MonitorHolds, TypeInv, TypeOK, BankedPart
<1>4. CASE ScaleSell
  <2> DEFINE q == Part[s["monitor"].my.qty]
  <2>1. q \in Qty /\ q <= s["monitor"].my.qty /\ s["monitor"].my.qty \in Qty
    BY <1>0, SessionType, PartType
  <2>2. MarketSell("monitor", q, "bank") /\ UNCHANGED <<tables, stops, rec, environment, history>>
    BY <1>4 DEF ScaleSell
  <2> HIDE DEF q
  <2>3. /\ holding' \in Nat /\ s' \in [Actor -> Session]
        /\ s'["monitor"].fill <= q /\ s'["monitor"].my = s["monitor"].my
    BY <1>0, <2>1, <2>2, MarketSellType
  <2>4. s'["monitor"].fill \in Qty
    BY <1>0, <2>3 DEF Session
  <2>5. BankedPart'
    BY <2>1, <2>3, <2>4, LotAssumption DEF BankedPart, Qty
  <2> QED BY <1>0, <2>2, <2>3, <2>5 DEF TypeInv, TypeOK
<1>5. CASE ScaleFails
  <2>1. s' \in [Actor -> Session] /\ s'["monitor"].pc = "idle"
    BY <1>0, <1>5, LeaveType, IdleWith DEF ScaleFails
  <2>2. Part[s["monitor"].my.qty] \in Nat
    BY <1>0, SessionType, PartType, LotAssumption DEF Qty
  <2>3. budget' \in 0..MaxFaults /\ holding' \in Nat /\ gone' \in Int
    BY <1>0, <1>5, <2>2, FaultType DEF ScaleFails, TypeOK
  <2> QED BY <1>0, <1>5, <2>1, <2>3 DEF ScaleFails, TypeInv, TypeOK, BankedPart
<1>6. CASE Bank
  <2> DEFINE my == s["monitor"].my
             fill == s["monitor"].fill
             banked == [my EXCEPT !.qty = my.qty - fill, !.scaled = TRUE,
                                  !.pnl = my.pnl + fill,
                                  !.level = IF my.be THEN my.level ELSE 1, !.be = TRUE]
             next == [Idle EXCEPT !.pc = "amend", !.row = s["monitor"].row, !.then = "trail"]
  <2>1. my.qty - fill \in Qty /\ my.pnl + fill \in Nat /\ 1 \in Level /\ my.level \in Level
    BY <1>0, <1>6, SessionType, LotAssumption, BoundsAssumption
    DEF Bank, Qty, Level, TypeInv, BankedPart
  <2>2. banked \in Row
    BY <2>1, <1>0, SessionType DEF Row
  <2>3. next \in Session /\ next.pc = "amend"
    BY <1>0, SessionType, IdleWith DEF Idle
  <2>4. Commit("monitor", banked, next) /\ Record("monitor") /\ rec' = rec
    BY <1>6 DEF Bank
  <2> HIDE DEF my, fill, banked, next
  <2>5. rows' \in [RowId -> Row] /\ s' \in [Actor -> Session]
    BY <2>2, <2>3, <2>4, <1>0, CommitType
  <2>6. s'["monitor"].pc = "amend"
    BY <2>3, <2>4, <1>0 DEF Commit, TypeOK, Session
  <2>7. /\ orders' \in Seq(Order) /\ traded' \in [RowId -> Nat]
        /\ rec' \in [todo: SUBSET (1..Len(orders')), base: [RowId -> Row]]
    BY <1>0, <2>4, RecordType
  <2>8. UNCHANGED <<exchange, environment, history>>
    BY <1>6 DEF Bank
  <2> QED BY <1>0, <2>5, <2>6, <2>7, <2>8 DEF TypeInv, TypeOK, BankedPart
<1>7. CASE TrailRaises
  <2> DEFINE next == [s["monitor"] EXCEPT !.pc = "amend", !.then = "idle"]
  <2>1. PICK my \in Raised(s["monitor"].my) : Commit("monitor", my, next)
    BY <1>7 DEF TrailRaises
  <2>2. 1 \in Level
    BY BoundsAssumption DEF Level
  <2>3. my \in Row
    BY <1>0, <2>1, <2>2, SessionType DEF Raised, Row
  <2>4. next \in Session /\ next.pc = "amend"
    BY <1>0, SessionType DEF Session
  <2> HIDE DEF next
  <2>5. rows' \in [RowId -> Row] /\ s' \in [Actor -> Session]
    BY <2>1, <2>3, <2>4, <1>0, CommitType
  <2>6. s'["monitor"].pc = "amend"
    BY <2>1, <2>4, <1>0 DEF Commit, TypeOK, Session
  <2> QED BY <1>0, <1>7, <2>5, <2>6 DEF TrailRaises, TypeInv, TypeOK, BankedPart
<1>8. CASE AmendCancels
  <2>1. s' \in [Actor -> Session] /\ s'["monitor"].pc # "bank"
    BY <1>0, <1>8, GotoType DEF AmendCancels
  <2>2. budget' \in 0..MaxFaults
    BY <1>0, <1>8, FaultType DEF AmendCancels, TypeOK
  <2>3. stops' \in [StopId -> Stop] /\ lost' \subseteq StopId
    BY <1>0, <1>8, SessionType, ConstantTypes DEF AmendCancels, TypeOK
  <2> QED BY <1>0, <1>8, <2>1, <2>2, <2>3 DEF AmendCancels, TypeInv, TypeOK, BankedPart
<1> QED BY <1>1, <1>2, <1>3, <1>4, <1>5, <1>6, <1>7, <1>8

\* What a step of job a must give for the banked part to stay within the quantity.
LEMMA BankedKept ==
  ASSUME TypeInv, NEW a \in Actor, s'[a].pc # "bank",
         \A b \in Actor \ {a} : s'[b] = s[b]
  PROVE  BankedPart'
BY DEF TypeInv, BankedPart, Actor

LEMMA CommitOthers ==
  ASSUME TypeOK, NEW a \in Actor, NEW my, NEW next \in Session, Commit(a, my, next)
  PROVE  s'[a].pc = next.pc /\ \A b \in Actor \ {a} : s'[b] = s[b]
<1> DEFINE x == [next EXCEPT !.my = my]
<1>1. x.pc = next.pc
  BY DEF Session
<1>2. s' = [s EXCEPT ![a] = x]
  BY DEF Commit
<1> HIDE DEF x
<1> QED BY <1>1, <1>2 DEF TypeOK

\* The actions that any job takes.
LEMMA CloseType ==
  ASSUME TypeInv, NEW a \in Actor, CloseStep(a)
  PROVE  TypeInv'
<1>0. TypeOK /\ {"cancel", "forget", "sell", "persist", "place"} \subseteq PC
  BY DEF TypeInv, PC
<1> USE DEF tables, exchange, environment, history
<1>1. CASE NothingToCancel(a)
  <2>1. s' \in [Actor -> Session] /\ BankedPart'
    BY <1>0, <1>1, GotoType, BankedKept DEF NothingToCancel
  <2> QED BY <1>0, <1>1, <2>1 DEF NothingToCancel, TypeInv, TypeOK
<1>2. CASE CancelStop(a)
  <2>1. s' \in [Actor -> Session] /\ BankedPart'
    BY <1>0, <1>2, GotoType, BankedKept DEF CancelStop
  <2>2. budget' \in 0..MaxFaults
    BY <1>0, <1>2, FaultType DEF CancelStop, TypeOK
  <2>3. stops' \in [StopId -> Stop] /\ lost' \subseteq StopId
    BY <1>0, <1>2, SessionType, ConstantTypes DEF CancelStop, TypeOK
  <2> QED BY <1>0, <1>2, <2>1, <2>2, <2>3 DEF CancelStop, TypeInv, TypeOK
<1>3. CASE ForgetStop(a)
  <2> DEFINE my == [s[a].my EXCEPT !.stop = NoStop]
             next == [s[a] EXCEPT !.pc = "sell"]
  <2>1. my \in Row
    BY SessionType, <1>0 DEF Row
  <2>2. next \in Session /\ next.pc = "sell"
    BY SessionType, <1>0 DEF Session
  <2>3. Commit(a, my, next) /\ UNCHANGED <<orders, traded, exchange, rec, environment, history>>
    BY <1>3 DEF ForgetStop
  <2> HIDE DEF my, next
  <2>4. rows' \in [RowId -> Row] /\ s' \in [Actor -> Session]
    BY <1>0, <2>1, <2>2, <2>3, CommitType
  <2>5. BankedPart'
    BY <1>0, <2>2, <2>3, CommitOthers, BankedKept
  <2> QED BY <1>0, <2>3, <2>4, <2>5 DEF TypeInv, TypeOK
<1>4. CASE Sell(a)
  <2>1. MarketSell(a, s[a].my.qty, "persist") /\ UNCHANGED <<tables, stops, rec, environment, history>>
    BY <1>4 DEF Sell
  <2>2. holding' \in Nat /\ s' \in [Actor -> Session] /\ s'[a].pc = "persist"
        /\ \A b \in Actor \ {a} : s'[b] = s[b]
    BY <1>0, <2>1, SessionType, MarketSellType
  <2>3. BankedPart'
    BY <2>2, BankedKept
  <2> QED BY <1>0, <2>1, <2>2, <2>3 DEF TypeInv, TypeOK
<1>5. CASE SellFails(a) \/ SellLost(a)
  <2>1. RetryWith(a, s[a].my)
    BY <1>5 DEF SellFails, SellLost
  <2>2. s' \in [Actor -> Session] /\ BankedPart'
    BY <1>0, <2>1, SessionType, RetryType, BankedKept
  <2>3. budget' \in 0..MaxFaults
    BY <1>0, <1>5, FaultType DEF SellFails, SellLost, TypeOK
  <2>4. s[a].my.qty \in Nat
    BY <1>0, SessionType, LotAssumption DEF Qty
  <2>5. holding' \in Nat /\ gone' \in Int
    BY <1>0, <1>5, <2>4 DEF SellFails, SellLost, TypeOK
  <2> QED BY <1>0, <1>5, <2>2, <2>3, <2>5 DEF SellFails, SellLost, TypeInv, TypeOK
<1>6. CASE PersistClose(a)
  <2> DEFINE my == AfterClose(s[a].my, s[a].fill)
             over == [Idle EXCEPT !.pc = "place", !.row = s[a].row, !.my = my]
  <2>1. my \in Row
    <3>1. s[a].my.pnl + s[a].fill \in Nat
          /\ (s[a].fill < s[a].my.qty => s[a].my.qty - s[a].fill \in Qty)
      BY <1>0, SessionType, LotAssumption DEF Qty
    <3> QED BY <1>0, <3>1, SessionType DEF AfterClose, Row
  <2>2. over \in Session /\ over.pc = "place"
    BY <1>0, <2>1, SessionType, IdleWith DEF Idle
  <2>3. /\ rows' = [rows EXCEPT ![s[a].row] = Merge(@, s[a].my, my)]
        /\ s' = [s EXCEPT ![a] = IF my.st = "open" /\ my.stop = NoStop THEN over ELSE Idle]
        /\ Record(a) /\ UNCHANGED <<exchange, rec, environment, history>>
    BY <1>6 DEF PersistClose
  <2> HIDE DEF my, over
  <2>4. Merge(rows[s[a].row], s[a].my, my) \in Row
    BY <1>0, <2>1, SessionType, MergeType DEF TypeOK
  <2>5. rows' \in [RowId -> Row]
    BY <1>0, <2>3, <2>4 DEF TypeOK
  <2>6. s' \in [Actor -> Session] /\ s'[a].pc \in {"place", "idle"}
        /\ \A b \in Actor \ {a} : s'[b] = s[b]
    BY <1>0, <2>2, <2>3, ConstantTypes, IdleWith DEF TypeOK
  <2>7. BankedPart'
    BY <2>6, BankedKept
  <2>8. /\ orders' \in Seq(Order) /\ traded' \in [RowId -> Nat]
        /\ rec' \in [todo: SUBSET (1..Len(orders')), base: [RowId -> Row]]
    BY <1>0, <2>3, RecordType
  <2> QED BY <1>0, <2>3, <2>5, <2>6, <2>7, <2>8 DEF TypeInv, TypeOK
<1>7. CASE PersistFails(a)
  <2>1. RetryWith(a, rows[s[a].row]) /\ rows[s[a].row] \in Row
    BY <1>0, <1>7, SessionType DEF PersistFails, TypeOK
  <2>2. s' \in [Actor -> Session] /\ BankedPart'
    BY <1>0, <2>1, RetryType, BankedKept
  <2>3. budget' \in 0..MaxFaults
    BY <1>0, <1>7, FaultType DEF PersistFails
  <2>4. gone' \in Int
    BY <1>0, <1>7, SessionType, LotAssumption DEF PersistFails, TypeOK, Qty
  <2> QED BY <1>0, <1>7, <2>2, <2>3, <2>4 DEF PersistFails, TypeInv, TypeOK
<1> QED BY <1>1, <1>2, <1>3, <1>4, <1>5, <1>6, <1>7 DEF CloseStep

LEMMA StopType ==
  ASSUME TypeInv, NEW a \in Actor, StopStep(a)
  PROVE  TypeInv'
<1>0. TypeOK /\ {"placed", "trail", "idle"} \subseteq PC
  BY DEF TypeInv, PC
<1> USE DEF tables, exchange, environment, history
<1> DEFINE stop == [qty |-> s[a].my.qty, level |-> s[a].my.level]
<1>1. stop \in Stop
  BY <1>0, SessionType DEF Stop
<1>2. CASE PlaceStop(a)
  <2>1. FreshId \in StopId
    BY <1>2, FreshIdType DEF PlaceStop
  <2> DEFINE x == [s[a] EXCEPT !.pc = "placed", !.sid = FreshId]
  <2>2. x \in Session /\ x.pc = "placed"
    BY <1>0, <2>1, SessionType DEF Session
  <2>3. /\ stops' = [stops EXCEPT ![FreshId] = stop]
        /\ s' = [s EXCEPT ![a] = x]
        /\ UNCHANGED <<tables, holding, rec, environment, history>>
    BY <1>2 DEF PlaceStop
  <2> HIDE DEF x, stop
  <2>4. s' \in [Actor -> Session] /\ s'[a].pc = "placed" /\ \A b \in Actor \ {a} : s'[b] = s[b]
    BY <1>0, <2>2, <2>3 DEF TypeOK
  <2>5. stops' \in [StopId -> Stop]
    BY <1>0, <1>1, <2>1, <2>3 DEF TypeOK
  <2>6. BankedPart'
    BY <2>4, BankedKept
  <2> QED BY <1>0, <2>3, <2>4, <2>5, <2>6 DEF TypeInv, TypeOK
<1>3. CASE PlaceFails(a)
  <2> DEFINE my == [s[a].my EXCEPT !.stop = NoStop]
             next == IF s[a].then = "idle" THEN Idle ELSE [s[a] EXCEPT !.pc = s[a].then]
  <2>1. my \in Row
    BY <1>0, SessionType DEF Row
  <2>2. next \in Session /\ next.pc # "bank"
    <3>1. CASE s[a].then = "idle"
      BY <3>1, ConstantTypes, IdleWith
    <3>2. CASE s[a].then = "trail"
      BY <1>0, <3>2, SessionType DEF Session
    <3> QED BY <1>0, <3>1, <3>2, SessionType DEF Session
  <2>3. Commit(a, my, next) /\ UNCHANGED <<orders, traded, holding, rec, closes, exitSig, gone, fired>>
    BY <1>3 DEF PlaceFails
  <2> HIDE DEF my, next
  <2>4. rows' \in [RowId -> Row] /\ s' \in [Actor -> Session]
    BY <1>0, <2>1, <2>2, <2>3, CommitType
  <2>5. BankedPart'
    BY <1>0, <2>2, <2>3, CommitOthers, BankedKept
  <2>6. budget' \in 0..MaxFaults
    BY <1>0, <1>3, FaultType DEF PlaceFails
  <2>7. bare' \in BOOLEAN
    BY <1>3, Zenon DEF PlaceFails
  <2>8. stops' \in [StopId -> Stop] /\ lost' \subseteq StopId
    <3>1. \/ stops' = stops /\ lost' = lost
          \/ /\ FreshId \in StopId
             /\ stops' = [stops EXCEPT ![FreshId] = stop]
             /\ lost' = lost \cup {FreshId}
      BY <1>3, FreshIdType DEF PlaceFails
    <3> HIDE DEF stop
    <3> QED BY <1>0, <1>1, <3>1 DEF TypeOK
  <2> QED BY <1>0, <2>3, <2>4, <2>5, <2>6, <2>7, <2>8 DEF TypeInv, TypeOK
<1>4. CASE TrackStop(a)
  <2> DEFINE my == [s[a].my EXCEPT !.stop = s[a].sid]
             next == IF s[a].then = "idle" THEN Idle
                     ELSE [s[a] EXCEPT !.pc = s[a].then, !.sid = NoStop]
  <2>1. my \in Row
    BY <1>0, SessionType DEF Row
  <2>2. next \in Session /\ next.pc # "bank"
    <3>1. CASE s[a].then = "idle"
      BY <3>1, ConstantTypes, IdleWith
    <3>2. CASE s[a].then = "trail"
      BY <1>0, <3>2, SessionType DEF Session
    <3> QED BY <1>0, <3>1, <3>2, SessionType DEF Session
  <2>3. Commit(a, my, next) /\ bare' = ~Resting(s[a].sid)
        /\ UNCHANGED <<orders, traded, exchange, rec, environment, gone, fired, lost>>
    BY <1>4 DEF TrackStop
  <2> HIDE DEF my, next
  <2>4. rows' \in [RowId -> Row] /\ s' \in [Actor -> Session]
    BY <1>0, <2>1, <2>2, <2>3, CommitType
  <2>5. BankedPart'
    BY <1>0, <2>2, <2>3, CommitOthers, BankedKept
  <2>6. bare' \in BOOLEAN
    BY <2>3, Zenon
  <2> QED BY <1>0, <2>3, <2>4, <2>5, <2>6 DEF TypeInv, TypeOK
<1> QED BY <1>2, <1>3, <1>4 DEF StopStep

\* The exchange, the operator's request and the crashes.
LEMMA OutsideType ==
  ASSUME TypeInv,
         OperatorClose \/ ExchangeStep \/ \E dead \in Processes : Crash(dead)
  PROVE  TypeInv'
<1>0. TypeOK /\ "cancel" \in PC /\ {"monitor", "cycle", "operator"} \subseteq Actor
  BY DEF TypeInv, PC, Actor
<1> USE DEF tables, exchange, environment, history
<1>1. CASE OperatorClose
  <2>1. PICK r \in OpenRows :
          s' = [s EXCEPT !["operator"] = [Idle EXCEPT !.pc = "cancel", !.row = r, !.my = rows[r]]]
    BY <1>1 DEF OperatorClose
  <2>2. r \in RowId /\ rows[r] \in Row
    BY <1>0 DEF OpenRows, TypeOK
  <2> DEFINE x == [Idle EXCEPT !.pc = "cancel", !.row = r, !.my = rows[r]]
  <2>3. x \in Session /\ x.pc = "cancel"
    BY <1>0, <2>2, IdleWith DEF Idle
  <2>4. s' = [s EXCEPT !["operator"] = x]
    BY <2>1
  <2> HIDE DEF x
  <2>5. s' \in [Actor -> Session] /\ s'["monitor"] = s["monitor"]
    BY <1>0, <2>3, <2>4 DEF TypeOK
  <2>6. closes' \in 0..MaxCloses
    <3>1. closes > 0 /\ closes' = closes - 1
      BY <1>1 DEF OperatorClose
    <3> QED BY <1>0, <3>1, BoundsAssumption DEF TypeOK
  <2> QED BY <1>0, <1>1, <2>5, <2>6 DEF OperatorClose, TypeInv, TypeOK, BankedPart
<1>2. CASE PriceExits
  BY <1>0, <1>2 DEF PriceExits, TypeInv, TypeOK, BankedPart
<1>3. ASSUME NEW i \in StopId, StopFires(i) PROVE TypeInv'
  <2>1. stops[i].qty \in Nat
    BY <1>0, LotAssumption DEF TypeOK, Stop, Qty
  <2>2. holding' \in Nat /\ fired' \in Nat
    BY <1>0, <1>3, <2>1 DEF StopFires, TypeOK
  <2>3. stops' \in [StopId -> Stop] /\ lost' \subseteq StopId /\ bare' = TRUE
    BY <1>0, <1>3, ConstantTypes DEF StopFires, TypeOK
  <2> QED BY <1>0, <1>3, <2>2, <2>3 DEF StopFires, TypeInv, TypeOK, BankedPart
<1>4. ASSUME NEW dead \in Processes, Crash(dead) PROVE TypeInv'
  <2>1. s' = [a \in Actor |-> IF a \in dead THEN Idle ELSE s[a]]
    BY <1>4 DEF Crash
  <2>2. s' \in [Actor -> Session]
    BY <1>0, <2>1, ConstantTypes DEF TypeOK
  <2>3. s'["monitor"].pc = "idle" \/ s'["monitor"] = s["monitor"]
    BY <1>0, <2>1, IdleWith
  <2>4. \A a \in Actor : InFlight(a) \in Int
    BY <1>0, SessionType, LotAssumption DEF InFlight, Qty
  <2>5. gone' \in Int
    BY <1>0, <1>4, <2>4 DEF Crash, TypeOK
  <2>6. budget' \in 0..MaxFaults
    BY <1>0, <1>4, FaultType DEF Crash
  <2>7. rec' \in [todo: SUBSET (1..Len(orders)), base: [RowId -> Row]]
    BY <1>0, <1>4, ConstantTypes DEF Crash, TypeOK, NoRec
  <2>8. lost' \subseteq StopId /\ bare' = TRUE
    BY <1>0, <1>4 DEF Crash, TypeOK
  <2>9. UNCHANGED <<tables, exchange, closes, exitSig, fired>>
    BY <1>4 DEF Crash
  <2> QED BY <1>0, <2>2, <2>3, <2>5, <2>6, <2>7, <2>8, <2>9 DEF TypeInv, TypeOK, BankedPart
<1> QED BY <1>1, <1>2, <1>3, <1>4 DEF ExchangeStep

\* The reconciliation's copy of a row, with what the fills of its closes did to it.
LEMMA SyncedType ==
  ASSUME TypeOK, NEW r \in RowId
  PROVE  Synced(r) \in Row /\ Merge(rows[r], rec.base[r], Synced(r)) \in Row
<1> DEFINE base == rec.base[r]
           last == CHOOSE k \in Closing(r) : \A j \in Closing(r) : j <= k
           whole == \E k \in Closing(r) : orders[k].exec >= base.qty
           pnl == IF orders[last].exec <= base.qty THEN orders[last].exec ELSE base.qty
           st == IF whole THEN "closed" ELSE base.st
<1>1. base \in Row /\ rows[r] \in Row
  BY DEF TypeOK
<1>2. ASSUME Closing(r) # {} PROVE pnl \in Nat
  <2>1. Closing(r) \subseteq 1..Len(orders) /\ Len(orders) \in Nat
    BY DEF Closing, TypeOK
  <2>2. last \in Closing(r)
    <3>1. \E k \in Closing(r) : \A j \in Closing(r) : j <= k
      BY <1>2, <2>1, LastExists
    <3> QED BY <3>1
  <2> HIDE DEF last
  <2>3. orders[last] \in Order
    BY <2>1, <2>2 DEF TypeOK
  <2>4. orders[last].exec \in Nat /\ base.qty \in Nat
    BY <1>1, <2>3, LotAssumption DEF Order, Row, Qty
  <2> QED BY <2>4
<1>3. st \in {"none", "open", "closed"}
  BY <1>1 DEF Row
<1>4. Synced(r) = IF Closing(r) = {} THEN base ELSE [base EXCEPT !.pnl = pnl, !.st = st]
  BY DEF Synced
<1> HIDE DEF base, last, whole, pnl, st
<1>5. Synced(r) \in Row
  <2>1. CASE Closing(r) = {} BY <1>1, <1>4, <2>1
  <2>2. CASE Closing(r) # {}
    <3>1. [base EXCEPT !.pnl = pnl] \in Row BY <1>1, <1>2, <2>2 DEF Row
    <3>2. [[base EXCEPT !.pnl = pnl] EXCEPT !.st = st] \in Row BY <1>3, <3>1 DEF Row
    <3>3. [base EXCEPT !.pnl = pnl, !.st = st] = [[base EXCEPT !.pnl = pnl] EXCEPT !.st = st] BY <1>1 DEF Row
    <3> QED BY <1>4, <2>2, <3>2, <3>3
  <2> QED BY <2>1, <2>2
<1> QED BY <1>1, <1>5, MergeType DEF base

\* What the cycle's own steps must give for the banked part to be left alone.
LEMMA CycleApart ==
  ASSUME TypeInv, \A b \in Actor \ {"cycle"} : s'[b] = s[b]
  PROVE  BankedPart'
BY DEF TypeInv, BankedPart, Actor

LEMMA CycleType ==
  ASSUME TypeInv,
         \/ ReconcileStarts \/ ReconcileLooks \/ ReconcileCommits \/ CycleEnds
         \/ Enter \/ RecordEntry \/ RecordEntryFails
  PROVE  TypeInv'
<1>0. TypeOK /\ "cycle" \in Actor
      /\ {"lookup", "recon", "enter", "opened", "place", "idle"} \subseteq PC
  BY DEF TypeInv, PC, Actor
<1> USE DEF tables, exchange, environment, history
<1>1. CASE ReconcileStarts
  <2>1. s' \in [Actor -> Session] /\ BankedPart'
    BY <1>0, <1>1, GotoType, CycleApart DEF ReconcileStarts
  <2>2. rec' \in [todo: SUBSET (1..Len(orders)), base: [RowId -> Row]]
    BY <1>1, ConstantTypes DEF ReconcileStarts, NoRec, OpenOrders
  <2> QED BY <1>0, <1>1, <2>1, <2>2 DEF ReconcileStarts, TypeInv, TypeOK
<1>2. CASE ReconcileLooks
  <2>1. s' \in [Actor -> Session] /\ BankedPart'
    BY <1>0, <1>2, GotoType, CycleApart DEF ReconcileLooks
  <2>2. rec' \in [todo: SUBSET (1..Len(orders)), base: [RowId -> Row]]
    BY <1>0, <1>2 DEF ReconcileLooks, TypeOK
  <2>3. budget' \in 0..MaxFaults
    BY <1>0, <1>2, FaultType DEF ReconcileLooks, TypeOK
  <2> QED BY <1>0, <1>2, <2>1, <2>2, <2>3 DEF ReconcileLooks, TypeInv, TypeOK
<1>3. CASE ReconcileCommits
  <2>1. s' \in [Actor -> Session] /\ BankedPart'
    BY <1>0, <1>3, GotoType, CycleApart DEF ReconcileCommits
  <2>2. rows' \in [RowId -> Row]
    BY <1>0, <1>3, SyncedType DEF ReconcileCommits
  <2>3. orders' \in Seq(Order) /\ Len(orders') = Len(orders)
    <3> DEFINE n == Len(orders)
               order(k) == IF k \in rec.todo THEN [orders[k] EXCEPT !.open = FALSE]
                           ELSE orders[k]
    <3>1. n \in Nat /\ \A k \in 1..n : orders[k] \in Order
      BY <1>0 DEF TypeOK
    <3>2. \A k \in 1..n : order(k) \in Order
      BY <3>1 DEF Order
    <3>3. orders' = [k \in 1..n |-> order(k)]
      BY <1>3 DEF ReconcileCommits
    <3> HIDE DEF order, n
    <3>4. orders' \in [1..n -> Order]
      BY <3>2, <3>3
    <3> QED BY <3>1, <3>4 DEF n
  <2>4. rec' \in [todo: SUBSET (1..Len(orders')), base: [RowId -> Row]]
    BY <1>3, ConstantTypes DEF ReconcileCommits, NoRec
  <2>5. UNCHANGED <<traded, exchange, environment, history>>
    BY <1>3 DEF ReconcileCommits
  <2> QED BY <1>0, <2>1, <2>2, <2>3, <2>4, <2>5 DEF TypeInv, TypeOK
<1>4. CASE CycleEnds
  <2>1. s' \in [Actor -> Session] /\ BankedPart'
    BY <1>0, <1>4, LeaveType, CycleApart DEF CycleEnds
  <2> QED BY <1>0, <1>4, <2>1 DEF CycleEnds, TypeInv, TypeOK
<1>5. CASE Enter
  <2>1. PICK r \in RowId, q \in Sizes :
          /\ holding' = holding + q
          /\ s' = [s EXCEPT !["cycle"] = [Idle EXCEPT !.pc = "opened", !.row = r, !.fill = q]]
    BY <1>5 DEF Enter
  <2>2. q \in Qty /\ q \in Nat
    BY LotAssumption, BoundsAssumption DEF Qty
  <2> DEFINE x == [Idle EXCEPT !.pc = "opened", !.row = r, !.fill = q]
  <2>3. x \in Session
    BY <1>0, <2>2, ConstantTypes DEF Session
  <2>4. s' = [s EXCEPT !["cycle"] = x]
    BY <2>1
  <2> HIDE DEF x
  <2>5. s' \in [Actor -> Session] /\ \A b \in Actor \ {"cycle"} : s'[b] = s[b]
    BY <1>0, <2>3, <2>4 DEF TypeOK
  <2>6. BankedPart'
    BY <2>5, CycleApart
  <2>7. holding' \in Nat
    BY <1>0, <2>1, <2>2 DEF TypeOK
  <2> QED BY <1>0, <1>5, <2>5, <2>6, <2>7 DEF Enter, TypeInv, TypeOK
<1>6. CASE RecordEntry
  <2> DEFINE r == s["cycle"].row
             q == s["cycle"].fill
             my == [NoRow EXCEPT !.st = "open", !.qty = q]
             order == [entry |-> TRUE, row |-> r, qty |-> q, exec |-> q, open |-> TRUE]
             x == [Idle EXCEPT !.pc = "place", !.row = r, !.my = my]
  <2>1. r \in RowId /\ q \in Qty
    BY <1>0, SessionType
  <2>2. my \in Row /\ order \in Order
    BY <2>1, ConstantTypes DEF Row, Order
  <2>3. x \in Session
    BY <1>0, <2>1, <2>2, IdleWith
  <2>4. /\ rows' = [rows EXCEPT ![r] = my]
        /\ orders' = Append(orders, order)
        /\ s' = [s EXCEPT !["cycle"] = x]
        /\ UNCHANGED <<traded, exchange, rec, environment, history>>
    BY <1>6 DEF RecordEntry
  <2> HIDE DEF r, q, my, order, x
  <2>5. rows' \in [RowId -> Row]
    BY <1>0, <2>1, <2>2, <2>4 DEF TypeOK
  <2>6. Len(orders') = Len(orders) + 1 /\ Len(orders) \in Nat /\ orders' \in Seq(Order)
    BY <1>0, <2>2, <2>4 DEF TypeOK
  <2>7. rec' \in [todo: SUBSET (1..Len(orders')), base: [RowId -> Row]]
    BY <1>0, <2>4, <2>6 DEF TypeOK
  <2>8. s' \in [Actor -> Session] /\ \A b \in Actor \ {"cycle"} : s'[b] = s[b]
    BY <1>0, <2>3, <2>4 DEF TypeOK
  <2>9. BankedPart'
    BY <2>8, CycleApart
  <2> QED BY <1>0, <2>4, <2>5, <2>6, <2>7, <2>8, <2>9 DEF TypeInv, TypeOK
<1>7. CASE RecordEntryFails
  <2>1. s' \in [Actor -> Session] /\ BankedPart'
    BY <1>0, <1>7, LeaveType, CycleApart DEF RecordEntryFails
  <2>2. budget' \in 0..MaxFaults
    BY <1>0, <1>7, FaultType DEF RecordEntryFails
  <2>3. gone' \in Int
    BY <1>0, <1>7, SessionType, LotAssumption DEF RecordEntryFails, TypeOK, Qty
  <2> QED BY <1>0, <1>7, <2>1, <2>2, <2>3 DEF RecordEntryFails, TypeInv, TypeOK
<1> QED BY <1>1, <1>2, <1>3, <1>4, <1>5, <1>6, <1>7

\* A call sent again moves coins or leaves a stop; nobody's session knows.
LEMMA ResentLeaves ==
  ASSUME Resent
  PROVE  UNCHANGED <<rows, orders, traded, s, rec, closes, exitSig, fired, bare>>
BY DEF Resent, BuyResent, SaleResent, StopResent, tables

\* The client's second attempt of a sale, a stop or a purchase.
LEMMA ResentType ==
  ASSUME TypeInv, Resent
  PROVE  TypeInv' /\ holding' + gone' = holding + gone
<1>0. TypeOK /\ BankedPart /\ holding \in Nat /\ gone \in Int
  BY DEF TypeInv, TypeOK
<1>1. budget' \in 0..MaxFaults
  <2>1. Fault("resent")
    BY DEF Resent, BuyResent, SaleResent, StopResent
  <2> QED BY <1>0, <2>1, FaultType
<1>2. /\ holding' \in Nat /\ gone' \in Int /\ holding' + gone' = holding + gone
      /\ stops' \in [StopId -> Stop] /\ lost' \subseteq StopId
  <2>1. CASE BuyResent
    <3>1. PICK q \in Sizes : holding' = holding + q /\ gone' = gone - q
      BY <2>1 DEF BuyResent
    <3>2. q \in Nat
      BY BoundsAssumption, LotAssumption
    <3>3. stops' = stops /\ lost' = lost
      BY <2>1 DEF BuyResent
    <3> QED BY <1>0, <3>1, <3>2, <3>3 DEF TypeOK
  <2>2. ASSUME NEW a \in Actor, SaleResent(a)
        PROVE  /\ holding' \in Nat /\ gone' \in Int /\ holding' + gone' = holding + gone
               /\ stops' \in [StopId -> Stop] /\ lost' \subseteq StopId
    <3> DEFINE q == IF s[a].pc = "scale" THEN Part[s[a].my.qty] ELSE s[a].my.qty
    <3>1. q \in Nat
      BY <1>0, SessionType, PartType, LotAssumption DEF Qty
    <3>2. holding >= q /\ holding' = holding - q /\ gone' = gone + q
      BY <2>2 DEF SaleResent
    <3>3. stops' = stops /\ lost' = lost
      BY <2>2 DEF SaleResent
    <3> HIDE DEF q
    <3> QED BY <1>0, <3>1, <3>2, <3>3 DEF TypeOK
  <2>3. ASSUME NEW a \in Actor, StopResent(a)
        PROVE  /\ holding' \in Nat /\ gone' \in Int /\ holding' + gone' = holding + gone
               /\ stops' \in [StopId -> Stop] /\ lost' \subseteq StopId
    <3> DEFINE stop == [qty |-> s[a].my.qty, level |-> s[a].my.level]
    <3>1. FreshId \in StopId /\ stop \in Stop
      BY <1>0, <2>3, FreshIdType, SessionType DEF StopResent, Stop
    <3>2. /\ stops' = [stops EXCEPT ![FreshId] = stop] /\ lost' = lost \cup {FreshId}
          /\ holding' = holding /\ gone' = gone
      BY <2>3 DEF StopResent
    <3> HIDE DEF stop
    <3> QED BY <1>0, <3>1, <3>2 DEF TypeOK
  <2> QED BY <2>1, <2>2, <2>3 DEF Resent
<1> QED BY <1>0, <1>1, <1>2, ResentLeaves DEF TypeInv, TypeOK, BankedPart

\* A step of any job, of the exchange, of the client or of a fault keeps the types.
LEMMA TypeStep == TypeInv /\ [Next]_vars => TypeInv'
<1> SUFFICES ASSUME TypeInv, [Next]_vars PROVE TypeInv'
  OBVIOUS
<1>1. CASE MonitorStep
  <2>1. "monitor" \in Actor
    BY DEF Actor
  <2> QED BY <1>1, <2>1, MonitorType, CloseType, StopType DEF MonitorStep
<1>2. CASE OperatorStep
  <2>1. "operator" \in Actor
    BY DEF Actor
  <2> QED BY <1>2, <2>1, OutsideType, CloseType, StopType DEF OperatorStep
<1>3. CASE CycleStep
  <2>1. "cycle" \in Actor
    BY DEF Actor
  <2> QED BY <1>3, <2>1, CycleType, StopType DEF CycleStep
<1>4. CASE ExchangeStep \/ \E dead \in Processes : Crash(dead)
  BY <1>4, OutsideType
<1>5. CASE UNCHANGED vars
  BY <1>5 DEF vars, TypeInv, TypeOK, BankedPart
<1>6. CASE Resent
  BY <1>6, ResentType
<1> QED BY <1>1, <1>2, <1>3, <1>4, <1>5, <1>6 DEF Next

\* The variables of the bot keep their types whatever the jobs, the operator, the
\* exchange and the faults do: no session subtracts more than it has, no stop id
\* leaves the pool, no order number leaves the table.
THEOREM TypeCorrect == Spec => []TypeOK
<1>1. TypeInv => TypeOK
  BY DEF TypeInv
<1> QED BY InitType, TypeStep, <1>1, PTL DEF Spec

-----------------------------------------------------------------------------
(* What a session becomes *)

LEMMA GotoEffect ==
  ASSUME TypeOK, NEW a \in Actor, NEW pc \in PC, Goto(a, pc)
  PROVE  /\ s'[a].pc = pc /\ s'[a].row = s[a].row /\ s'[a].my = s[a].my
         /\ s'[a].fill = s[a].fill /\ s'[a].exec = s[a].exec
         /\ s'[a].then = s[a].then /\ s'[a].sid = s[a].sid
         /\ \A b \in Actor \ {a} : s'[b] = s[b]
<1>1. s[a] \in Session /\ s' = [s EXCEPT ![a] = [s[a] EXCEPT !.pc = pc]]
  BY SessionType DEF Goto
<1> DEFINE x == [s[a] EXCEPT !.pc = pc]
<1>2. /\ x.pc = pc /\ x.row = s[a].row /\ x.my = s[a].my
      /\ x.fill = s[a].fill /\ x.exec = s[a].exec
      /\ x.then = s[a].then /\ x.sid = s[a].sid
  BY <1>1 DEF Session
<1> HIDE DEF x
<1> QED BY <1>1, <1>2 DEF TypeOK, x

LEMMA CommitEffect ==
  ASSUME TypeOK, NEW a \in Actor, NEW my \in Row, NEW next \in Session, Commit(a, my, next)
  PROVE  /\ s'[a].pc = next.pc /\ s'[a].row = next.row /\ s'[a].my = my
         /\ s'[a].fill = next.fill /\ s'[a].exec = next.exec
         /\ s'[a].then = next.then /\ s'[a].sid = next.sid
         /\ \A b \in Actor \ {a} : s'[b] = s[b]
         /\ \A r \in RowId \ {s[a].row} : rows'[r] = rows[r]
         /\ rows'[s[a].row] = Merge(rows[s[a].row], s[a].my, my)
<1> DEFINE x == [next EXCEPT !.my = my]
<1>1. /\ x.pc = next.pc /\ x.row = next.row /\ x.my = my /\ x.fill = next.fill
      /\ x.exec = next.exec /\ x.then = next.then /\ x.sid = next.sid
  BY DEF Session
<1>2. s' = [s EXCEPT ![a] = x]
  BY DEF Commit
<1> HIDE DEF x
<1>3. s[a].row \in RowId /\ rows \in [RowId -> Row]
  BY SessionType DEF TypeOK
<1>4. rows' = [rows EXCEPT ![s[a].row] = Merge(rows[s[a].row], s[a].my, my)]
  BY DEF Commit
<1> QED BY <1>1, <1>2, <1>3, <1>4 DEF TypeOK

LEMMA LeaveEffect ==
  ASSUME TypeOK, NEW a \in Actor, Leave(a)
  PROVE  s'[a].pc = "idle" /\ \A b \in Actor \ {a} : s'[b] = s[b]
BY LeaveType, IdleWith

LEMMA RetryEffect ==
  ASSUME TypeOK, NEW a \in Actor, NEW my \in Row, RetryWith(a, my)
  PROVE  /\ s'[a].pc \in {"sell", "place", "idle"}
         /\ s'[a].pc # "idle" => s'[a].row = s[a].row /\ s'[a].my = my
         /\ s'[a].pc = "place" => my.stop = NoStop
         /\ my.stop = NoStop => s'[a].pc # "idle"
         /\ s'[a].sid \in {s[a].sid, NoStop}
         /\ \A b \in Actor \ {a} : s'[b] = s[b]
<1> DEFINE again == [s[a] EXCEPT !.pc = "sell", !.my = my, !.att = s[a].att + 1,
                                 !.fill = 0, !.exec = 0]
           over == [Idle EXCEPT !.pc = "place", !.row = s[a].row, !.my = my]
<1>1. s[a] \in Session /\ Idle \in Session
  BY SessionType, ConstantTypes
<1>2. /\ again.pc = "sell" /\ again.row = s[a].row /\ again.my = my /\ again.sid = s[a].sid
      /\ over.pc = "place" /\ over.row = s[a].row /\ over.my = my /\ over.sid = NoStop
      /\ Idle.sid = NoStop
  BY <1>1 DEF Session, Idle
<1>3. s' = [s EXCEPT ![a] = IF s[a].att + 1 < Retries THEN again
                           ELSE IF my.stop = NoStop THEN over ELSE Idle]
  BY DEF RetryWith
<1> HIDE DEF again, over
<1>4. /\ s'[a] = IF s[a].att + 1 < Retries THEN again
                 ELSE IF my.stop = NoStop THEN over ELSE Idle
      /\ \A b \in Actor \ {a} : s'[b] = s[b]
  BY <1>3 DEF TypeOK
<1>5. s'[a] = again \/ (s'[a] = over /\ my.stop = NoStop) \/ s'[a] = Idle
  BY <1>4
<1> QED BY <1>2, <1>4, <1>5, IdleWith

-----------------------------------------------------------------------------
(* A closed row stays closed *)

\* The jobs that close positions.
Closer == {"monitor", "operator"}

\* A partial fill of a sale that is tried again after a failed commit: the copy was read
\* again, may be closed by then, and the rest of the quantity would open it once more.
NoPartAfterRollback == "part" \notin FillModes \/ "commit" \notin Faults

\* A closing session works on a used row; its copy says "open", or what it sold is all.
Finishes(me, table) ==
  me.pc # "idle" =>
    /\ table[me.row].st # "none" /\ me.my.st # "none"
    /\ "commit" \notin Faults => me.my.st = "open"
    /\ me.pc = "persist" /\ "part" \notin FillModes => me.fill = me.my.qty

\* Coins bought and not recorded yet were bought for a row never used.
EntryUnused == s["cycle"].pc = "opened" => rows[s["cycle"].row].st = "none"

CloseInv == TypeInv /\ EntryUnused /\ \A a \in Closer : Finishes(s[a], rows)

\* What a step may do to the status of the rows.
Forward ==
  \A r \in RowId : /\ rows[r].st = "closed" => rows'[r].st = "closed"
                   /\ rows[r].st # "none" => rows'[r].st # "none"
Unused == \A r \in RowId : rows[r].st = "none" => rows'[r].st = "none"
Unopened == \A r \in RowId : rows'[r].st = "open" => rows[r].st = "open"
SameStatus == \A r \in RowId : rows'[r].st = rows[r].st

\* A step of a closing job, or of no job, that moves used rows forward.
LEMMA CloserMoves ==
  ASSUME CloseInv, TypeInv', NEW a \in Closer, Finishes(s'[a], rows'), Forward, Unused,
         \A b \in Actor \ {a} : s'[b] = s[b]
  PROVE  CloseInv' /\ s'["cycle"] = s["cycle"]
<1>1. s'["cycle"] = s["cycle"] /\ s["cycle"].row \in RowId
  BY SessionType DEF Closer, Actor, CloseInv, TypeInv
<1>2. ASSUME NEW b \in Closer PROVE Finishes(s'[b], rows')
  <2>1. b \in Actor /\ s[b].row \in RowId /\ (b # a => s'[b] = s[b])
    BY <1>2, SessionType DEF Closer, Actor, CloseInv, TypeInv
  <2> QED BY <1>2, <2>1 DEF CloseInv, Finishes, Forward
<1> QED BY <1>1, <1>2 DEF CloseInv, EntryUnused, Unused

\* A step of the cycle that moves used rows forward.
LEMMA CycleMoves ==
  ASSUME CloseInv, TypeInv', Forward, EntryUnused', \A b \in Actor \ {"cycle"} : s'[b] = s[b]
  PROVE  CloseInv'
<1>1. ASSUME NEW b \in Closer PROVE Finishes(s'[b], rows')
  <2>1. s[b].row \in RowId /\ s'[b] = s[b]
    BY <1>1, SessionType DEF Closer, Actor, CloseInv, TypeInv
  <2> QED BY <1>1, <2>1 DEF CloseInv, Finishes, Forward
<1> QED BY <1>1 DEF CloseInv

\* A commit that leaves the status of the copy leaves that of the row.
LEMMA CommitStatus ==
  ASSUME TypeOK, NEW a \in Actor, NEW my \in Row, NEW next \in Session, Commit(a, my, next),
         my.st = s[a].my.st
  PROVE  SameStatus
<1>1. Merge(rows[s[a].row], s[a].my, my).st = rows[s[a].row].st
  BY DEF Merge, Column
<1> QED BY <1>1, CommitEffect DEF SameStatus

\* Without partial fills the engine takes all of it for sold, filled or not.
LEMMA WholeSold ==
  ASSUME TypeOK, NEW a \in Actor, NEW pc \in PC, NEW q \in Qty, MarketSell(a, q, pc),
         "part" \notin FillModes
  PROVE  s'[a].fill = q
<1>1. PICK o \in Outcomes(q) :
        s' = [s EXCEPT ![a].pc = pc, ![a].fill = o.fill, ![a].exec = o.exec]
  BY DEF MarketSell
<1> DEFINE f == o.fill
           e == o.exec
           sold == [s[a] EXCEPT !.pc = pc, !.fill = f, !.exec = e]
<1>2. f = q
  BY DEF Outcomes
<1>3. s' = [s EXCEPT ![a] = sold]
  BY <1>1
<1> HIDE DEF f, e
<1>4. sold.fill = f
  BY SessionType DEF Session
<1> HIDE DEF sold
<1> QED BY <1>2, <1>3, <1>4 DEF TypeOK

\* The steps of a closing job that leave every row alone.
LEMMA CloserWaits ==
  ASSUME NoPartAfterRollback, CloseInv, TypeInv', NEW a \in Closer,
         \/ a = "monitor" /\ (\/ MonitorLoad \/ MonitorSkips \/ MonitorExits \/ MonitorScales
                              \/ MonitorHolds \/ ScaleSell \/ ScaleFails \/ BankFails
                              \/ TrailHolds \/ AmendCancels)
         \/ a = "operator" /\ OperatorClose
         \/ NothingToCancel(a) \/ CancelStop(a) \/ Sell(a) \/ SellFails(a) \/ SellLost(a)
         \/ PersistFails(a) \/ PlaceStop(a)
  PROVE  CloseInv' /\ Forward /\ Unused /\ s'["cycle"] = s["cycle"]
<1>0. /\ TypeOK /\ a \in Actor /\ s[a] \in Session /\ s[a].my \in Row /\ s[a].row \in RowId
      /\ rows[s[a].row] \in Row /\ Finishes(s[a], rows)
  <2>1. TypeOK /\ a \in Actor /\ Finishes(s[a], rows)
    BY DEF CloseInv, TypeInv, Closer, Actor
  <2>2. s[a] \in Session /\ s[a].my \in Row /\ s[a].row \in RowId
    BY <2>1, SessionType
  <2> QED BY <2>1, <2>2 DEF TypeOK
<1> USE DEF tables
<1>1. rows' = rows
  BY DEF MonitorLoad, MonitorSkips, MonitorExits, MonitorScales, MonitorHolds, ScaleSell,
         ScaleFails, BankFails, TrailHolds, AmendCancels, OperatorClose, NothingToCancel,
         CancelStop, Sell, SellFails, SellLost, PersistFails, PlaceStop
<1>2. Finishes(s'[a], rows) /\ \A b \in Actor \ {a} : s'[b] = s[b]
  <2>1. CASE (a = "monitor" /\ MonitorLoad) \/ (a = "operator" /\ OperatorClose)
    <3>1. PICK r \in OpenRows, pc \in {"decide", "cancel"} :
            s' = [s EXCEPT ![a] = [Idle EXCEPT !.pc = pc, !.row = r, !.my = rows[r]]]
      BY <2>1 DEF MonitorLoad, OperatorClose
    <3> DEFINE x == [Idle EXCEPT !.pc = pc, !.row = r, !.my = rows[r]]
    <3>2. x.pc = pc /\ x.row = r /\ x.my = rows[r] /\ rows[r].st = "open"
      BY DEF Idle, OpenRows
    <3>3. s' = [s EXCEPT ![a] = x]
      BY <3>1
    <3> HIDE DEF x
    <3>4. s'[a] = x /\ \A b \in Actor \ {a} : s'[b] = s[b]
      BY <1>0, <3>3 DEF TypeOK
    <3> QED BY <3>2, <3>4 DEF Finishes
  <2>2. CASE a = "monitor" /\ (MonitorSkips \/ ScaleFails \/ BankFails \/ TrailHolds)
    <3>1. Leave(a)
      BY <2>2 DEF MonitorSkips, ScaleFails, BankFails, TrailHolds
    <3> QED BY <1>0, <3>1, LeaveEffect DEF Finishes
  <2>3. CASE \/ a = "monitor" /\ (MonitorExits \/ MonitorScales \/ MonitorHolds \/ AmendCancels)
             \/ NothingToCancel(a) \/ CancelStop(a)
    <3>1. PICK pc \in {"cancel", "scale", "trail", "place", "replace", "sell", "forget"} :
            Goto(a, pc) /\ s[a].pc # "idle"
      BY <2>3 DEF MonitorExits, MonitorScales, MonitorHolds, AmendCancels, NothingToCancel,
                  CancelStop
    <3>2. pc \in PC
      BY DEF PC
    <3> QED BY <1>0, <3>1, <3>2, GotoEffect DEF Finishes
  <2>4. CASE (a = "monitor" /\ ScaleSell) \/ Sell(a)
    <3>1. PICK q \in Qty, pc \in {"bank", "persist"} :
            MarketSell(a, q, pc) /\ s[a].pc # "idle" /\ (pc = "persist" => q = s[a].my.qty)
      <4>1. s[a].my.qty \in Qty /\ Part[s[a].my.qty] \in Qty
        BY <1>0, SessionType, PartType
      <4> QED BY <2>4, <4>1 DEF ScaleSell, Sell
    <3>2. pc \in PC
      BY DEF PC
    <3>3. /\ s'[a].pc = pc /\ s'[a].my = s[a].my /\ s'[a].row = s[a].row
          /\ \A b \in Actor \ {a} : s'[b] = s[b]
      BY <1>0, <3>1, <3>2, MarketSellType
    <3>4. "part" \notin FillModes => s'[a].fill = q
      BY <1>0, <3>1, <3>2, WholeSold
    <3> QED BY <1>0, <3>1, <3>3, <3>4 DEF Finishes
  <2>5. CASE SellFails(a) \/ SellLost(a) \/ PersistFails(a)
    <3>1. PICK my \in Row : /\ RetryWith(a, my) /\ s[a].pc # "idle" /\ my.st # "none"
                            /\ "commit" \notin Faults => my.st = "open"
      <4>1. CASE SellFails(a) \/ SellLost(a)
        BY <1>0, <4>1 DEF SellFails, SellLost, Finishes
      <4>2. CASE PersistFails(a)
        BY <1>0, <4>2 DEF PersistFails, Fault, Finishes
      <4> QED BY <2>5, <4>1, <4>2
    <3>2. /\ s'[a].pc \in {"sell", "place", "idle"}
          /\ s'[a].pc # "idle" => s'[a].row = s[a].row /\ s'[a].my = my
          /\ \A b \in Actor \ {a} : s'[b] = s[b]
      BY <1>0, <3>1, RetryEffect
    <3>3. rows[s[a].row].st # "none"
      BY <1>0, <3>1 DEF Finishes
    <3> QED BY <3>1, <3>2, <3>3 DEF Finishes
  <2>6. CASE PlaceStop(a)
    <3> DEFINE x == [s[a] EXCEPT !.pc = "placed", !.sid = FreshId]
    <3>1. s' = [s EXCEPT ![a] = x] /\ s[a].pc # "idle"
      BY <2>6 DEF PlaceStop
    <3>2. x.pc = "placed" /\ x.row = s[a].row /\ x.my = s[a].my
      BY <1>0 DEF Session
    <3> HIDE DEF x
    <3>3. s'[a] = x /\ \A b \in Actor \ {a} : s'[b] = s[b]
      BY <1>0, <3>1 DEF TypeOK
    <3>4. s'[a].pc = "placed" /\ s'[a].row = s[a].row /\ s'[a].my = s[a].my
      BY <3>2, <3>3
    <3>5. Finishes(s'[a], rows)
      BY <1>0, <3>1, <3>4 DEF Finishes
    <3> QED BY <3>3, <3>5
  <2> QED BY <2>1, <2>2, <2>3, <2>4, <2>5, <2>6
<1>3. Forward /\ Unused
  BY <1>1 DEF Forward, Unused
<1> QED BY <1>1, <1>2, <1>3, CloserMoves

\* A session that placed its stop, or failed to, is over or goes on to trail it.
LEMMA ThenNext ==
  ASSUME NEW me \in Session,
         NEW next \in {Idle, [me EXCEPT !.pc = me.then], [me EXCEPT !.pc = me.then, !.sid = NoStop]},
         next # Idle => me.then # "idle"
  PROVE  /\ next \in Session
         /\ next.pc = "idle" \/ (next.pc = "trail" /\ next.row = me.row)
<1>1. CASE next = Idle
  BY <1>1, ConstantTypes, IdleWith
<1>2. CASE next # Idle
  <2>1. me.then = "trail" /\ "trail" \in PC
    BY <1>2 DEF Session, PC
  <2> QED BY <1>2, <2>1 DEF Session
<1> QED BY <1>1, <1>2

\* A commit of a closing job that leaves the status alone.
LEMMA CloserCommits ==
  ASSUME CloseInv, TypeInv', NEW a \in Closer, NEW my \in Row, NEW next \in Session,
         Commit(a, my, next), my.st = s[a].my.st, s[a].pc # "idle",
         next.pc # "persist", next.pc # "idle" => next.row = s[a].row
  PROVE  CloseInv' /\ Forward /\ Unused /\ s'["cycle"] = s["cycle"]
<1>1. TypeOK /\ a \in Actor /\ s[a].row \in RowId /\ Finishes(s[a], rows)
  BY SessionType DEF CloseInv, TypeInv, Closer, Actor
<1>2. SameStatus
  BY <1>1, CommitStatus
<1>3. Forward /\ Unused
  BY <1>2 DEF SameStatus, Forward, Unused
<1>4. /\ s'[a].pc = next.pc /\ s'[a].row = next.row /\ s'[a].my = my
      /\ \A b \in Actor \ {a} : s'[b] = s[b]
  BY <1>1, CommitEffect
<1>5. Finishes(s'[a], rows')
  BY <1>1, <1>2, <1>4 DEF SameStatus, Finishes
<1> QED BY <1>3, <1>4, <1>5, CloserMoves

\* A close that is recorded closes the row or leaves it open, as its copy says it was.
LEMMA CloserRecords ==
  ASSUME NoPartAfterRollback, CloseInv, TypeInv', NEW a \in Closer, PersistClose(a)
  PROVE  CloseInv' /\ Forward /\ Unused /\ s'["cycle"] = s["cycle"]
<1> DEFINE me == s[a]
           my == AfterClose(me.my, me.fill)
           over == [Idle EXCEPT !.pc = "place", !.row = me.row, !.my = my]
<1>0. /\ TypeOK /\ a \in Actor /\ me.row \in RowId /\ me.my \in Row /\ rows \in [RowId -> Row]
      /\ Finishes(me, rows)
  BY SessionType DEF CloseInv, TypeInv, TypeOK, Closer, Actor
<1>1. /\ me.pc = "persist"
      /\ rows' = [rows EXCEPT ![me.row] = Merge(rows[me.row], me.my, my)]
      /\ s' = [s EXCEPT ![a] = IF my.st = "open" /\ my.stop = NoStop THEN over ELSE Idle]
  BY DEF PersistClose
<1>2. /\ my.st \in {"open", "closed"} /\ (my.st = "open" => me.my.st = "open")
      /\ over.pc = "place" /\ over.row = me.row /\ over.my = my
  <2>1. my.st = "open" => me.my.st = "open"
    <3>1. CASE "commit" \notin Faults
      BY <1>0, <1>1, <3>1 DEF Finishes
    <3>2. CASE "part" \notin FillModes
      <4>1. me.fill = me.my.qty /\ me.my.qty \in Int
        BY <1>0, <1>1, <3>2, SessionType, LotAssumption DEF Finishes, Qty
      <4>2. my = [me.my EXCEPT !.st = "closed", !.pnl = me.my.pnl + me.fill]
        BY <4>1 DEF AfterClose
      <4> QED BY <1>0, <4>2 DEF Row
    <3> QED BY <3>1, <3>2 DEF NoPartAfterRollback
  <2> QED BY <2>1, <1>0 DEF AfterClose, Row, Idle
<1>3. Merge(rows[me.row], me.my, my).st = IF my.st # me.my.st THEN my.st ELSE rows[me.row].st
  BY DEF Merge, Column
<1> HIDE DEF my, over, me
<1>4. /\ \A r \in RowId \ {me.row} : rows'[r] = rows[r]
      /\ rows'[me.row].st = IF my.st # me.my.st THEN my.st ELSE rows[me.row].st
      /\ s'[a] = IF my.st = "open" /\ my.stop = NoStop THEN over ELSE Idle
      /\ \A b \in Actor \ {a} : s'[b] = s[b]
  BY <1>0, <1>1, <1>3 DEF TypeOK
<1>5. rows[me.row].st # "none" /\ me.my.st # "none"
      /\ ("commit" \notin Faults => me.my.st = "open")
  BY <1>0, <1>1 DEF Finishes
<1>6. Forward /\ Unused
  BY <1>2, <1>4, <1>5 DEF Forward, Unused
<1>7. Finishes(s'[a], rows')
  <2>1. CASE s'[a] = Idle
    BY <2>1, IdleWith DEF Finishes
  <2>2. CASE s'[a] = over /\ my.st = "open"
    BY <1>0, <1>2, <1>5, <1>6, <2>2 DEF Finishes, Forward
  <2> QED BY <1>4, <2>1, <2>2
<1> QED BY <1>4, <1>6, <1>7, CloserMoves DEF me

\* The other commits of a closing job.
LEMMA CloserWrites ==
  ASSUME CloseInv, TypeInv', NEW a \in Closer,
         \/ a = "monitor" /\ (Bank \/ TrailRaises)
         \/ ForgetStop(a) \/ PlaceFails(a) \/ TrackStop(a)
  PROVE  CloseInv' /\ Forward /\ Unused /\ s'["cycle"] = s["cycle"]
<1> DEFINE me == s[a]
<1>0. /\ TypeOK /\ a \in Actor /\ me \in Session /\ me.my \in Row /\ me.row \in RowId
      /\ me.sid \in StopId \cup {NoStop} /\ me.my.qty \in Qty
  BY SessionType DEF CloseInv, TypeInv, Closer, Actor
<1>1. CASE a = "monitor" /\ Bank
  <2> DEFINE my == [me.my EXCEPT !.qty = me.my.qty - me.fill, !.scaled = TRUE,
                                 !.pnl = me.my.pnl + me.fill,
                                 !.level = IF me.my.be THEN me.my.level ELSE 1, !.be = TRUE]
             next == [Idle EXCEPT !.pc = "amend", !.row = me.row, !.then = "trail"]
  <2>1. Commit(a, my, next) /\ me.pc = "bank"
    BY <1>1 DEF Bank
  <2>2. /\ me.my.qty - me.fill \in Qty /\ me.my.pnl + me.fill \in Nat
        /\ 1 \in Level /\ me.my.level \in Level
    BY <1>0, <1>1, <2>1, SessionType, LotAssumption, BoundsAssumption
    DEF Qty, Level, CloseInv, TypeInv, BankedPart
  <2>3. my \in Row /\ my.st = me.my.st
    BY <1>0, <2>2 DEF Row
  <2>4. next \in Session /\ next.pc = "amend" /\ next.row = me.row
    <3>1. next.pc = "amend" /\ next.row = me.row
      BY DEF Idle
    <3>2. "amend" \in PC
      BY DEF PC
    <3> QED BY <1>0, <3>1, <3>2, IdleWith
  <2> HIDE DEF my, next
  <2> QED BY <2>1, <2>3, <2>4, CloserCommits
<1>2. CASE a = "monitor" /\ TrailRaises
  <2> DEFINE next == [me EXCEPT !.pc = "amend", !.then = "idle"]
  <2>1. PICK my \in Raised(me.my) : Commit(a, my, next) /\ me.pc = "trail"
    BY <1>2 DEF TrailRaises
  <2>2. 1 \in Level
    BY BoundsAssumption DEF Level
  <2>3. my \in Row /\ my.st = me.my.st
    <3>1. PICK l \in Level, b \in BOOLEAN :
            my = [me.my EXCEPT !.level = l] \/ my = [me.my EXCEPT !.level = l, !.be = b]
      BY <2>1, <2>2 DEF Raised
    <3> QED BY <1>0, <3>1 DEF Row
  <2>4. next \in Session /\ next.pc = "amend" /\ next.row = me.row
    BY <1>0 DEF Session, PC
  <2> HIDE DEF next
  <2> QED BY <2>1, <2>3, <2>4, CloserCommits
<1>3. CASE ForgetStop(a)
  <2> DEFINE my == [me.my EXCEPT !.stop = NoStop]
             next == [me EXCEPT !.pc = "sell"]
  <2>1. Commit(a, my, next) /\ me.pc = "forget"
    BY <1>3 DEF ForgetStop
  <2>2. my \in Row /\ my.st = me.my.st
    BY <1>0 DEF Row
  <2>3. next \in Session /\ next.pc = "sell" /\ next.row = me.row
    BY <1>0 DEF Session, PC
  <2> HIDE DEF my, next
  <2> QED BY <2>1, <2>2, <2>3, CloserCommits
<1>4. CASE PlaceFails(a) \/ TrackStop(a)
  <2>1. PICK my \in {[me.my EXCEPT !.stop = NoStop], [me.my EXCEPT !.stop = me.sid]},
             next \in {Idle, [me EXCEPT !.pc = me.then], [me EXCEPT !.pc = me.then, !.sid = NoStop]} :
          /\ Commit(a, my, next) /\ me.pc # "idle"
          /\ next # Idle => me.then # "idle"
    BY <1>4 DEF PlaceFails, TrackStop
  <2>2. my \in Row /\ my.st = me.my.st
    BY <1>0 DEF Row
  <2>3. next \in Session /\ (next.pc = "idle" \/ (next.pc = "trail" /\ next.row = me.row))
    BY <1>0, <2>1, ThenNext
  <2> QED BY <2>1, <2>2, <2>3, CloserCommits
<1> QED BY <1>1, <1>2, <1>3, <1>4

\* The cycle closes what its fills closed, enters a row never used, and places stops.
LEMMA CycleForward ==
  ASSUME CloseInv, TypeInv', CycleStep
  PROVE  /\ CloseInv' /\ Forward
         /\ \/ Unopened /\ (s'["cycle"].pc = "opened" => Enter)
            \/ RecordEntry /\ s'["cycle"].pc # "opened"
<1> DEFINE c == s["cycle"]
<1>0. /\ TypeOK /\ "cycle" \in Actor /\ c \in Session /\ c.my \in Row /\ c.row \in RowId
      /\ c.sid \in StopId \cup {NoStop} /\ rows \in [RowId -> Row]
  BY SessionType DEF CloseInv, TypeInv, TypeOK, Actor
<1> USE DEF tables
<1>1. CASE ReconcileStarts \/ ReconcileLooks
  <2>1. PICK pc \in {"lookup", "recon"} : Goto("cycle", pc) /\ rows' = rows
    BY <1>1 DEF ReconcileStarts, ReconcileLooks
  <2>2. pc \in PC
    BY DEF PC
  <2>3. /\ Forward /\ Unopened /\ EntryUnused' /\ s'["cycle"].pc # "opened"
        /\ \A b \in Actor \ {"cycle"} : s'[b] = s[b]
    BY <1>0, <2>1, <2>2, GotoEffect DEF Forward, Unopened, EntryUnused
  <2> QED BY <2>3, CycleMoves
<1>2. CASE ReconcileCommits
  <2>1. /\ Goto("cycle", "enter") /\ "enter" \in PC
        /\ rows' = [r \in RowId |-> Merge(rows[r], rec.base[r], Synced(r))]
    BY <1>2 DEF ReconcileCommits, PC
  <2>2. EntryUnused' /\ s'["cycle"].pc # "opened" /\ \A b \in Actor \ {"cycle"} : s'[b] = s[b]
    BY <1>0, <2>1, GotoEffect DEF EntryUnused
  <2>3. ASSUME NEW r \in RowId
        PROVE  rows'[r].st \in {rows[r].st, "closed"}
    <3>1. Synced(r).st \in {rec.base[r].st, "closed"}
      <4>1. rec.base[r] \in Row
        BY <1>0 DEF TypeOK
      <4> QED BY <4>1 DEF Synced, Row
    <3> QED BY <2>1, <3>1 DEF Merge, Column
  <2>4. Forward /\ Unopened
    BY <2>3 DEF Forward, Unopened
  <2> QED BY <2>2, <2>4, CycleMoves
<1>3. CASE CycleEnds \/ RecordEntryFails
  <2>1. Leave("cycle") /\ rows' = rows
    BY <1>3 DEF CycleEnds, RecordEntryFails
  <2>2. /\ Forward /\ Unopened /\ EntryUnused' /\ s'["cycle"].pc # "opened"
        /\ \A b \in Actor \ {"cycle"} : s'[b] = s[b]
    BY <1>0, <2>1, LeaveEffect DEF Forward, Unopened, EntryUnused
  <2> QED BY <2>2, CycleMoves
<1>4. CASE Enter
  <2>1. PICK r \in RowId, q \in Sizes :
          /\ rows[r].st = "none"
          /\ s' = [s EXCEPT !["cycle"] = [Idle EXCEPT !.pc = "opened", !.row = r, !.fill = q]]
    BY <1>4 DEF Enter
  <2> DEFINE x == [Idle EXCEPT !.pc = "opened", !.row = r, !.fill = q]
  <2>2. s' = [s EXCEPT !["cycle"] = x] /\ x.row = r /\ rows' = rows
    BY <1>4, <2>1 DEF Idle, Enter
  <2> HIDE DEF x
  <2>3. s'["cycle"] = x /\ \A b \in Actor \ {"cycle"} : s'[b] = s[b]
    BY <1>0, <2>2 DEF TypeOK
  <2>4. Forward /\ Unopened /\ EntryUnused'
    BY <2>1, <2>2, <2>3 DEF Forward, Unopened, EntryUnused
  <2> QED BY <1>4, <2>3, <2>4, CycleMoves
<1>5. CASE RecordEntry
  <2> DEFINE my == [NoRow EXCEPT !.st = "open", !.qty = c.fill]
             x == [Idle EXCEPT !.pc = "place", !.row = c.row, !.my = my]
  <2>1. /\ rows[c.row].st = "none" /\ rows' = [rows EXCEPT ![c.row] = my]
        /\ s' = [s EXCEPT !["cycle"] = x] /\ x.pc = "place" /\ my.st = "open"
    BY <1>5 DEF RecordEntry, CloseInv, EntryUnused, Idle, NoRow
  <2> HIDE DEF my, x
  <2>2. s'["cycle"] = x /\ \A b \in Actor \ {"cycle"} : s'[b] = s[b]
    BY <1>0, <2>1 DEF TypeOK
  <2>3. Forward /\ EntryUnused' /\ s'["cycle"].pc # "opened"
    BY <1>0, <2>1, <2>2 DEF Forward, EntryUnused
  <2> QED BY <1>5, <2>2, <2>3, CycleMoves
<1>6. CASE PlaceStop("cycle")
  <2> DEFINE x == [c EXCEPT !.pc = "placed", !.sid = FreshId]
  <2>1. s' = [s EXCEPT !["cycle"] = x] /\ rows' = rows /\ x.pc = "placed"
    BY <1>0, <1>6 DEF PlaceStop, Session
  <2> HIDE DEF x
  <2>2. s'["cycle"] = x /\ \A b \in Actor \ {"cycle"} : s'[b] = s[b]
    BY <1>0, <2>1 DEF TypeOK
  <2>3. Forward /\ Unopened /\ EntryUnused' /\ s'["cycle"].pc # "opened"
    BY <2>1, <2>2 DEF Forward, Unopened, EntryUnused
  <2> QED BY <2>2, <2>3, CycleMoves
<1>7. CASE PlaceFails("cycle") \/ TrackStop("cycle")
  <2>1. PICK my \in {[c.my EXCEPT !.stop = NoStop], [c.my EXCEPT !.stop = c.sid]},
             next \in {Idle, [c EXCEPT !.pc = c.then], [c EXCEPT !.pc = c.then, !.sid = NoStop]} :
          Commit("cycle", my, next) /\ (next # Idle => c.then # "idle")
    BY <1>7 DEF PlaceFails, TrackStop
  <2>2. my \in Row /\ my.st = c.my.st
    BY <1>0 DEF Row
  <2>3. next \in Session /\ next.pc \in {"idle", "trail"}
    BY <1>0, <2>1, ThenNext
  <2>4. SameStatus
    BY <1>0, <2>1, <2>2, <2>3, CommitStatus
  <2>5. s'["cycle"].pc = next.pc /\ \A b \in Actor \ {"cycle"} : s'[b] = s[b]
    BY <1>0, <2>1, <2>2, <2>3, CommitEffect
  <2>6. Forward /\ Unopened /\ EntryUnused' /\ s'["cycle"].pc # "opened"
    BY <2>3, <2>4, <2>5 DEF SameStatus, Forward, Unopened, EntryUnused
  <2> QED BY <2>5, <2>6, CycleMoves
<1> QED BY <1>1, <1>2, <1>3, <1>4, <1>5, <1>6, <1>7 DEF CycleStep, StopStep

LEMMA CloseInit == Init => CloseInv
<1> SUFFICES ASSUME Init PROVE CloseInv
  OBVIOUS
<1>1. s = [a \in Actor |-> Idle]
  BY DEF Init
<1>2. \A a \in Actor : s[a].pc = "idle"
  BY <1>1, IdleWith
<1> QED BY <1>2, InitType DEF CloseInv, EntryUnused, Finishes, Closer, Actor

LEMMA CloseForward ==
  ASSUME NoPartAfterRollback, CloseInv, [Next]_vars
  PROVE  /\ CloseInv' /\ Forward
         /\ \/ /\ Unopened
               /\ s'["cycle"].pc = "opened" => Enter \/ s'["cycle"] = s["cycle"]
            \/ RecordEntry /\ s'["cycle"].pc # "opened"
<1>1. TypeInv'
  BY TypeStep DEF CloseInv
<1>2. "monitor" \in Closer /\ "operator" \in Closer
  BY DEF Closer
<1>u. Forward /\ Unused => Unopened
  <2>1. rows \in [RowId -> Row]
    BY DEF CloseInv, TypeInv, TypeOK
  <2>2. \A r \in RowId : rows[r].st \in {"none", "open", "closed"}
    BY <2>1 DEF Row
  <2> QED BY <2>2 DEF Forward, Unused, Unopened
<1>3. CASE MonitorStep
  <2>1. CloseInv' /\ Forward /\ Unused /\ s'["cycle"] = s["cycle"]
    BY <1>1, <1>2, <1>3, CloserWaits, CloserWrites, CloserRecords
    DEF MonitorStep, CloseStep, StopStep
  <2> QED BY <1>u, <2>1
<1>4. CASE OperatorStep
  <2>1. CloseInv' /\ Forward /\ Unused /\ s'["cycle"] = s["cycle"]
    BY <1>1, <1>2, <1>4, CloserWaits, CloserWrites, CloserRecords
    DEF OperatorStep, CloseStep, StopStep
  <2> QED BY <1>u, <2>1
<1>5. CASE CycleStep
  BY <1>1, <1>5, CycleForward
<1>6. CASE ExchangeStep \/ Resent \/ UNCHANGED vars
  <2>1. rows' = rows /\ s' = s
    BY <1>6, ResentLeaves DEF ExchangeStep, PriceExits, StopFires, vars, tables
  <2> QED BY <1>1, <2>1 DEF CloseInv, EntryUnused, Finishes, Forward, Unopened
<1>7. ASSUME NEW dead \in Processes, Crash(dead) PROVE CloseInv' /\ Forward /\ Unopened /\ (s'["cycle"].pc = "opened" => s'["cycle"] = s["cycle"])
  <2>1. s' = [a \in Actor |-> IF a \in dead THEN Idle ELSE s[a]] /\ rows' = rows
    BY <1>7 DEF Crash, tables
  <2>2. \A a \in Actor : s'[a] = s[a] \/ s'[a].pc = "idle"
    BY <2>1, IdleWith
  <2>3. EntryUnused' /\ \A a \in Closer : Finishes(s'[a], rows)
    BY <2>1, <2>2 DEF CloseInv, EntryUnused, Finishes, Closer, Actor
  <2>4. s'["cycle"].pc = "opened" => s'["cycle"] = s["cycle"]
    BY <2>2 DEF Actor
  <2> QED BY <1>1, <2>1, <2>3, <2>4 DEF CloseInv, Forward, Unopened
<1> QED BY <1>3, <1>4, <1>5, <1>6, <1>7 DEF Next

\* The monitor, the operator and the reconciliation commit copies that may be minutes old
\* and still say "open"; as only changed columns are written, none of them opens a row
\* that another has closed: not for any number of rows, requests, retries and faults.
THEOREM ClosedForGood ==
  ASSUME NoPartAfterRollback
  PROVE  Spec => NoResurrection
<1>1. CloseInv /\ [Next]_vars =>
        [\A r \in RowId : rows[r].st = "closed" => rows'[r].st = "closed"]_rows
  BY CloseForward DEF Forward
<1>2. CloseInv /\ [Next]_vars => CloseInv'
  BY CloseForward
<1> QED BY <1>1, <1>2, CloseInit, PTL DEF Spec, NoResurrection

\* While the coins of an entry are bought and not recorded, no row is open.
BoughtAlone == s["cycle"].pc = "opened" => OpenRows = {}

RowInv == CloseInv /\ BoughtAlone /\ OneOpenRow

LEMMA RowStep ==
  ASSUME NoPartAfterRollback, RowInv, [Next]_vars
  PROVE  RowInv'
<1>1. CloseInv'
  BY CloseForward DEF RowInv
<1>2. CASE Unopened /\ (s'["cycle"].pc = "opened" => Enter \/ s'["cycle"] = s["cycle"])
  <2>1. OpenRows' \subseteq OpenRows
    BY <1>2 DEF Unopened, OpenRows
  <2>2. s'["cycle"].pc = "opened" => OpenRows = {}
    BY <1>2 DEF RowInv, BoughtAlone, Enter
  <2> QED BY <1>1, <2>1, <2>2 DEF RowInv, BoughtAlone, OneOpenRow
<1>3. CASE RecordEntry /\ s'["cycle"].pc # "opened"
  <2> DEFINE r == s["cycle"].row
  <2>1. /\ OpenRows = {} /\ rows \in [RowId -> Row]
        /\ \E my : rows' = [rows EXCEPT ![r] = my]
    BY <1>3 DEF RowInv, BoughtAlone, RecordEntry, CloseInv, TypeInv, TypeOK
  <2>2. OpenRows' \subseteq {r}
    BY <2>1 DEF OpenRows
  <2> QED BY <1>1, <1>3, <2>2 DEF RowInv, BoughtAlone, OneOpenRow
<1> QED BY <1>2, <1>3, CloseForward DEF RowInv

\* The check for an open position in scan_symbol is far from the commit that opens one, yet
\* no two rows are ever open: the cycle alone opens rows, and no closer's stale copy does.
THEOREM OnePosition ==
  ASSUME NoPartAfterRollback
  PROVE  Spec => []OneOpenRow
<1>1. Init => RowInv
  <2> SUFFICES ASSUME Init PROVE RowInv
    OBVIOUS
  <2>1. s["cycle"].pc = "idle"
    BY IdleWith DEF Init, Actor
  <2>2. \A r \in OpenRows : r = 1
    <3>1. \A r \in RowId : r # 1 => rows[r] = NoRow
      BY DEF Init, InitOpen, InitFlat
    <3> QED BY <3>1 DEF OpenRows, NoRow
  <2> QED BY <2>1, <2>2, CloseInit DEF RowInv, BoughtAlone, OneOpenRow
<1>2. RowInv /\ [Next]_vars => RowInv'
  BY RowStep
<1>3. RowInv => OneOpenRow
  BY DEF RowInv
<1> QED BY <1>1, <1>2, <1>3, PTL DEF Spec

-----------------------------------------------------------------------------
(*                     The books, while nobody closes by hand              *)

Undisturbed ==
  /\ MaxCloses = 0
  /\ FillModes = {"full"}
  /\ \A q \in 1..Lot : 2 * Part[q] < q

-----------------------------------------------------------------------------
(* The inductive invariant *)

\* Nobody closes by hand.
NoOperator == closes = 0 /\ s["operator"].pc = "idle"

\* The cycle neither closes nor scales: its session only looks, enters and places.
CycleParts ==
  /\ s["cycle"].pc \in {"idle", "lookup", "recon", "enter", "opened", "place", "placed"}
  /\ s["cycle"].then = "idle"

\* The monitor works on an open row, whose status, quantity and scale-out it knows, and what
\* it has sold and not recorded is the part, or the whole, of that quantity.
Copied(m) ==
  /\ m.pc \notin {"lookup", "recon", "enter", "opened"}
  /\ rows[m.row].st = "open" /\ m.my.st = "open"
  /\ m.my.qty = rows[m.row].qty /\ m.my.scaled = rows[m.row].scaled
  /\ m.pc \in {"scale", "bank"} => ~m.my.scaled /\ Part[m.my.qty] > 0
  /\ m.pc = "bank" => m.fill = Part[m.my.qty] /\ m.exec = m.fill
  /\ m.pc = "persist" => m.fill = m.my.qty /\ m.exec = m.fill
MonitorCopy == s["monitor"].pc # "idle" => Copied(s["monitor"])

\* Coins bought and not recorded yet were bought for an unused row while none is open.
EntryAlone ==
  s["cycle"].pc = "opened" => OpenRows = {} /\ rows[s["cycle"].row].st = "none"

\* A closing order of a row that is still open took its partial profit, once, and less than
\* what is left; a row never used has no closing order.
ClosingOrders ==
  \A k \in 1..Len(orders) : ~orders[k].entry =>
    /\ rows[orders[k].row].st # "none"
    /\ rows[orders[k].row].st = "open" =>
         rows[orders[k].row].scaled /\ orders[k].exec < rows[orders[k].row].qty

\* The same of what the reconciliation has read.
ReadOrders ==
  s["cycle"].pc = "recon" =>
    \A k \in rec.todo : ~orders[k].entry =>
      /\ rec.base[orders[k].row].st # "none"
      /\ rec.base[orders[k].row].st = "open" => orders[k].exec < rec.base[orders[k].row].qty

BookInv ==
  /\ TypeInv /\ NoOperator /\ CycleParts /\ MonitorCopy /\ EntryAlone
  /\ ClosingOrders /\ ReadOrders /\ OneOpenRow /\ BookIdentity

-----------------------------------------------------------------------------
(* What a step leaves alone *)

SameCore ==
  \A r \in RowId : /\ rows'[r].st = rows[r].st
                   /\ rows'[r].qty = rows[r].qty
                   /\ rows'[r].scaled = rows[r].scaled
SameOrders ==
  /\ Len(orders') = Len(orders)
  /\ \A k \in 1..Len(orders) : /\ orders'[k].entry = orders[k].entry
                               /\ orders'[k].row = orders[k].row
                               /\ orders'[k].exec = orders[k].exec

\* A step that keeps status, quantity and scale-out of the rows and the fills keeps what
\* is said of the closing orders.
LEMMA OrdersKept ==
  ASSUME TypeOK, TypeOK', ClosingOrders, SameCore, SameOrders
  PROVE  ClosingOrders'
<1> SUFFICES ASSUME NEW k \in 1..Len(orders'), ~orders'[k].entry
             PROVE  /\ rows'[orders'[k].row].st # "none"
                    /\ rows'[orders'[k].row].st = "open" =>
                         /\ rows'[orders'[k].row].scaled
                         /\ orders'[k].exec < rows'[orders'[k].row].qty
  BY DEF ClosingOrders
<1>1. k \in 1..Len(orders) /\ orders[k].row \in RowId
  <2>1. orders \in Seq(Order) /\ k \in 1..Len(orders)
    BY DEF SameOrders, TypeOK
  <2>2. orders[k] \in Order
    BY <2>1
  <2> QED BY <2>1, <2>2 DEF Order
<1>2. ~orders[k].entry /\ orders'[k].row = orders[k].row /\ orders'[k].exec = orders[k].exec
  BY <1>1 DEF SameOrders
<1> QED BY <1>1, <1>2 DEF SameCore, ClosingOrders

\* If it keeps the coins too, the books keep their balance.
LEMMA QuietStep ==
  ASSUME BookInv, TypeInv', SameCore, SameOrders, Book' = Book
  PROVE  /\ OpenRows' = OpenRows
         /\ ClosingOrders' /\ OneOpenRow' /\ BookIdentity'
<1>1. OpenRows' = OpenRows /\ OpenRows \subseteq RowId
  BY DEF OpenRows, SameCore
<1>2. OneOpenRow' /\ BookIdentity'
  BY <1>1 DEF BookInv, OneOpenRow, BookIdentity, SameCore
<1>3. ClosingOrders'
  BY OrdersKept DEF BookInv, TypeInv
<1> QED BY <1>1, <1>2, <1>3

LEMMA SameMonitor ==
  ASSUME BookInv, SameCore, s'["monitor"] = s["monitor"]
  PROVE  MonitorCopy'
<1>1. s["monitor"].row \in RowId
  BY SessionType DEF BookInv, TypeInv, Actor
<1> QED BY <1>1 DEF BookInv, MonitorCopy, Copied, SameCore

LEMMA SameCycle ==
  ASSUME BookInv, SameCore, OpenRows' = OpenRows, s'["cycle"] = s["cycle"]
  PROVE  CycleParts' /\ EntryAlone'
<1>1. s["cycle"].row \in RowId
  BY SessionType DEF BookInv, TypeInv, Actor
<1> QED BY <1>1 DEF BookInv, CycleParts, EntryAlone, SameCore

LEMMA SameRead ==
  ASSUME TypeOK, ReadOrders, rec' = rec, s'["cycle"].pc = s["cycle"].pc,
         \A k \in 1..Len(orders) : /\ orders'[k].entry = orders[k].entry
                                   /\ orders'[k].row = orders[k].row
                                   /\ orders'[k].exec = orders[k].exec
  PROVE  ReadOrders'
<1>1. rec.todo \subseteq 1..Len(orders)
  BY DEF TypeOK
<1> QED BY <1>1 DEF ReadOrders

\* So a step of the monitor that leaves rows, fills and coins alone need only keep its
\* own session in line.
LEMMA MonitorQuiet ==
  ASSUME BookInv, TypeInv', SameCore, orders' = orders, Book' = Book, MonitorCopy',
         rec' = rec, closes' = closes, \A b \in Actor \ {"monitor"} : s'[b] = s[b]
  PROVE  BookInv'
<1>1. s'["cycle"] = s["cycle"] /\ s'["operator"] = s["operator"]
  BY DEF Actor
<1>2. SameOrders
  BY DEF SameOrders
<1>3. OpenRows' = OpenRows /\ ClosingOrders' /\ OneOpenRow' /\ BookIdentity'
  BY <1>2, QuietStep
<1>4. CycleParts' /\ EntryAlone'
  BY <1>1, <1>3, SameCycle
<1>5. ReadOrders'
  BY <1>1, SameRead DEF BookInv, TypeInv
<1>6. NoOperator'
  BY <1>1 DEF BookInv, NoOperator
<1> QED BY <1>3, <1>4, <1>5, <1>6 DEF BookInv

-----------------------------------------------------------------------------
(* What a session has in flight *)

LEMMA FlightType ==
  ASSUME TypeOK, NEW a \in Actor
  PROVE  InFlight(a) \in Int /\ holding \in Int /\ gone \in Int /\ fired \in Int
BY SessionType, LotAssumption DEF InFlight, Qty, TypeOK

\* A step of job a moves coins between the account, the history and its own session.
LEMMA BookMoves ==
  ASSUME TypeOK, TypeOK', NEW a \in Actor, \A b \in Actor \ {a} : s'[b] = s[b],
         holding' + gone' + fired' + InFlight(a)' = holding + gone + fired + InFlight(a)
  PROVE  Book' = Book
<1>1. \A b \in Actor : InFlight(b) \in Int /\ InFlight(b)' \in Int
  <2>1. \A b \in Actor : InFlight(b) \in Int
    BY FlightType
  <2>2. \A b \in Actor : (s'[b].fill \in Qty /\ s'[b].exec \in Qty)
    BY DEF TypeOK, Session
  <2>3. \A b \in Actor : InFlight(b)' \in Int
    BY <2>2, LotAssumption DEF InFlight, Qty
  <2> QED BY <2>1, <2>3
<1>2. \A b \in Actor \ {a} : InFlight(b)' = InFlight(b)
  BY DEF InFlight
<1>3. /\ holding \in Int /\ gone \in Int /\ fired \in Int
      /\ holding' \in Int /\ gone' \in Int /\ fired' \in Int
  BY DEF TypeOK
<1>4. {"monitor", "cycle", "operator"} = Actor
  BY DEF Actor
<1> DEFINE coins == holding + gone + fired
           m == InFlight("monitor")
           c == InFlight("cycle")
           o == InFlight("operator")
<1>5. Book = coins + m + c + o /\ Book' = coins' + m' + c' + o'
  BY DEF Book
<1>6. /\ coins \in Int /\ m \in Int /\ c \in Int /\ o \in Int
      /\ coins' \in Int /\ m' \in Int /\ c' \in Int /\ o' \in Int
  BY <1>1, <1>3, <1>4
<1>7. CASE a = "monitor"
  <2>1. c' = c /\ o' = o /\ coins' + m' = coins + m
    BY <1>2, <1>4, <1>7
  <2> HIDE DEF coins, m, c, o
  <2>2. Book' = coins' + m' + c + o
    BY <1>5, <2>1
  <2>3. coins' + m' + c + o = coins + m + c + o
    BY <1>6, <2>1
  <2> QED BY <1>5, <2>2, <2>3
<1>8. CASE a = "cycle"
  <2>1. m' = m /\ o' = o /\ coins' + c' = coins + c
    BY <1>2, <1>4, <1>8
  <2> HIDE DEF coins, m, c, o
  <2>2. Book' = coins' + m + c' + o
    BY <1>5, <2>1
  <2>3. coins' + m + c' + o = (coins' + c') + (m + o)
    BY <1>6
  <2>4. coins + m + c + o = (coins + c) + (m + o)
    BY <1>6
  <2> QED BY <1>5, <2>1, <2>2, <2>3, <2>4
<1>9. CASE a = "operator"
  <2>1. m' = m /\ c' = c /\ coins' + o' = coins + o
    BY <1>2, <1>4, <1>9
  <2> HIDE DEF coins, m, c, o
  <2>2. Book' = coins' + m + c + o'
    BY <1>5, <2>1
  <2>3. coins' + m + c + o' = (coins' + o') + (m + c)
    BY <1>6
  <2>4. coins + m + c + o = (coins + o) + (m + c)
    BY <1>6
  <2> QED BY <1>5, <2>1, <2>2, <2>3, <2>4
<1> QED BY <1>4, <1>7, <1>8, <1>9

LEMMA NoFlight ==
  ASSUME TypeOK, TypeOK', NEW a \in Actor, \A b \in Actor \ {a} : s'[b] = s[b],
         s[a].pc \notin {"persist", "bank", "opened"},
         s'[a].pc \notin {"persist", "bank", "opened"},
         holding' = holding, gone' = gone, fired' = fired
  PROVE  Book' = Book
<1>1. InFlight(a) = 0 /\ InFlight(a)' = 0
  BY DEF InFlight
<1> QED BY <1>1, BookMoves

\* A commit that changes neither status, quantity nor scale-out of the copy.
LEMMA CommitCore ==
  ASSUME TypeOK, NEW a \in Actor, NEW my \in Row, NEW next \in Session, Commit(a, my, next),
         my.st = s[a].my.st, my.qty = s[a].my.qty, my.scaled = s[a].my.scaled
  PROVE  SameCore
<1>1. /\ Merge(rows[s[a].row], s[a].my, my).st = rows[s[a].row].st
      /\ Merge(rows[s[a].row], s[a].my, my).qty = rows[s[a].row].qty
      /\ Merge(rows[s[a].row], s[a].my, my).scaled = rows[s[a].row].scaled
  BY DEF Merge, Column
<1> QED BY <1>1, CommitEffect DEF SameCore

-----------------------------------------------------------------------------
(* The steps of the monitor that change no status, quantity or scale-out *)

LEMMA MonitorFacts ==
  ASSUME BookInv
  PROVE  /\ TypeOK /\ "monitor" \in Actor
         /\ s["monitor"].row \in RowId /\ s["monitor"].my \in Row
         /\ rows[s["monitor"].row] \in Row
         /\ s["monitor"].pc \in PC \ {"lookup", "recon", "enter", "opened"}
<1>1. TypeOK /\ "monitor" \in Actor
  BY DEF BookInv, TypeInv, Actor
<1>2. s["monitor"] \in Session /\ s["monitor"].row \in RowId /\ s["monitor"].my \in Row
  BY <1>1, SessionType
<1>3. s["monitor"].pc \in PC
  BY <1>2 DEF Session
<1> QED BY <1>1, <1>2, <1>3 DEF TypeOK, BookInv, MonitorCopy, Copied

\* It goes on with the same copy.
LEMMA MonitorGoes ==
  ASSUME BookInv, TypeInv',
         NEW pc \in {"cancel", "scale", "trail", "sell", "forget", "place", "replace"},
         Goto("monitor", pc), s["monitor"].pc \notin {"idle", "persist", "bank"},
         pc = "scale" => ~s["monitor"].my.scaled /\ Part[s["monitor"].my.qty] > 0,
         UNCHANGED <<rows, orders, holding, gone, fired, rec, closes>>
  PROVE  BookInv'
<1>1. pc \in PC /\ pc # "idle"
  BY DEF PC
<1>2. /\ s'["monitor"].pc = pc /\ s'["monitor"].row = s["monitor"].row
      /\ s'["monitor"].my = s["monitor"].my
      /\ \A b \in Actor \ {"monitor"} : s'[b] = s[b]
  BY <1>1, MonitorFacts, GotoEffect
<1>3. SameCore
  BY DEF SameCore
<1>4. Book' = Book
  BY <1>2, MonitorFacts, NoFlight DEF TypeInv
<1>5. MonitorCopy'
  BY <1>2 DEF BookInv, MonitorCopy, Copied
<1> QED BY <1>2, <1>3, <1>4, <1>5, MonitorQuiet

\* It ends its pass: what it had in flight is in the account or in the history.
LEMMA MonitorLeaves ==
  ASSUME BookInv, TypeInv', Leave("monitor"),
         holding' + gone' + fired' = holding + gone + fired + InFlight("monitor"),
         UNCHANGED <<rows, orders, rec, closes>>
  PROVE  BookInv'
<1>1. s'["monitor"].pc = "idle" /\ \A b \in Actor \ {"monitor"} : s'[b] = s[b]
  BY MonitorFacts, LeaveType, IdleWith
<1>2. SameCore
  BY DEF SameCore
<1>3. Book' = Book
  <2>1. InFlight("monitor")' = 0
    BY <1>1 DEF InFlight
  <2>2. holding' + gone' + fired' \in Int
    BY DEF TypeInv, TypeOK
  <2>3. holding' + gone' + fired' + InFlight("monitor")' = holding + gone + fired + InFlight("monitor")
    BY <2>1, <2>2
  <2> QED BY <1>1, <2>3, MonitorFacts, BookMoves DEF TypeInv
<1>4. MonitorCopy'
  BY <1>1 DEF MonitorCopy
<1> QED BY <1>1, <1>2, <1>3, <1>4, MonitorQuiet

\* It tries again or gives up, with a copy that agrees with the row.
LEMMA MonitorRetries ==
  ASSUME BookInv, TypeInv', NEW my \in Row, RetryWith("monitor", my),
         s["monitor"].pc # "idle",
         my.st = rows[s["monitor"].row].st, my.qty = rows[s["monitor"].row].qty,
         my.scaled = rows[s["monitor"].row].scaled,
         holding' + gone' + fired' = holding + gone + fired + InFlight("monitor"),
         UNCHANGED <<rows, orders, rec, closes>>
  PROVE  BookInv'
<1> DEFINE again == [s["monitor"] EXCEPT !.pc = "sell", !.my = my,
                                         !.att = s["monitor"].att + 1, !.fill = 0, !.exec = 0]
           over == [Idle EXCEPT !.pc = "place", !.row = s["monitor"].row, !.my = my]
<1>1. s["monitor"] \in Session /\ Idle \in Session
  BY MonitorFacts, SessionType, ConstantTypes
<1>2. /\ again.pc = "sell" /\ again.row = s["monitor"].row /\ again.my = my
      /\ over.pc = "place" /\ over.row = s["monitor"].row /\ over.my = my
  BY <1>1 DEF Session, Idle
<1>3. s' = [s EXCEPT !["monitor"] = IF s["monitor"].att + 1 < Retries THEN again
                                    ELSE IF my.stop = NoStop THEN over ELSE Idle]
  BY DEF RetryWith
<1> HIDE DEF again, over
<1>4. s'["monitor"] \in {again, over, Idle} /\ \A b \in Actor \ {"monitor"} : s'[b] = s[b]
  BY <1>3, MonitorFacts DEF TypeOK
<1>5. SameCore
  BY DEF SameCore
<1>6. s'["monitor"].pc \in {"sell", "place", "idle"}
  BY <1>2, <1>4, IdleWith
<1>7. Book' = Book
  <2>1. InFlight("monitor")' = 0
    BY <1>6 DEF InFlight
  <2>2. holding' + gone' + fired' \in Int
    BY DEF TypeInv, TypeOK
  <2>3. holding' + gone' + fired' + InFlight("monitor")' = holding + gone + fired + InFlight("monitor")
    BY <2>1, <2>2
  <2> QED BY <1>4, <2>3, MonitorFacts, BookMoves DEF TypeInv
<1>8. MonitorCopy'
  <2>1. rows[s["monitor"].row].st = "open"
    BY DEF BookInv, MonitorCopy, Copied
  <2> QED BY <1>2, <1>4, <2>1, IdleWith DEF MonitorCopy, Copied
<1> QED BY <1>4, <1>5, <1>7, <1>8, MonitorQuiet

\* It commits columns that the books do not look at.
LEMMA MonitorCommits ==
  ASSUME BookInv, TypeInv', NEW my \in Row, NEW next \in Session,
         Commit("monitor", my, next),
         my.st = s["monitor"].my.st, my.qty = s["monitor"].my.qty,
         my.scaled = s["monitor"].my.scaled,
         s["monitor"].pc \notin {"idle", "persist", "bank"},
         \/ next.pc = "idle"
         \/ next.pc \in {"sell", "amend", "trail"} /\ next.row = s["monitor"].row,
         UNCHANGED <<orders, holding, gone, fired, rec, closes>>
  PROVE  BookInv'
<1>1. /\ s'["monitor"].pc = next.pc /\ s'["monitor"].row = next.row /\ s'["monitor"].my = my
      /\ \A b \in Actor \ {"monitor"} : s'[b] = s[b]
  BY MonitorFacts, CommitEffect
<1>2. SameCore
  BY MonitorFacts, CommitCore
<1>3. Book' = Book
  BY <1>1, MonitorFacts, NoFlight DEF TypeInv
<1>4. MonitorCopy'
  <2>1. /\ rows'[s["monitor"].row].st = rows[s["monitor"].row].st
        /\ rows'[s["monitor"].row].qty = rows[s["monitor"].row].qty
        /\ rows'[s["monitor"].row].scaled = rows[s["monitor"].row].scaled
    BY <1>2, MonitorFacts DEF SameCore
  <2> QED BY <1>1, <2>1 DEF BookInv, MonitorCopy, Copied
<1> QED BY <1>1, <1>2, <1>3, <1>4, MonitorQuiet

\* Every action of the monitor that leaves status, quantity and scale-out alone.
LEMMA MonitorKeeps ==
  ASSUME Undisturbed, BookInv, TypeInv',
         \/ MonitorLoad \/ MonitorSkips \/ MonitorExits \/ MonitorScales \/ MonitorHolds
         \/ NothingToCancel("monitor") \/ CancelStop("monitor") \/ ForgetStop("monitor")
         \/ SellFails("monitor") \/ SellLost("monitor") \/ PersistFails("monitor")
         \/ ScaleFails \/ BankFails \/ TrailRaises \/ TrailHolds \/ AmendCancels
  PROVE  BookInv'
<1> DEFINE m == s["monitor"]
<1>0. /\ TypeOK /\ "monitor" \in Actor /\ m \in Session
      /\ m.my \in Row /\ m.row \in RowId /\ rows[m.row] \in Row
  BY MonitorFacts, SessionType
<1>a. /\ m.pc # "idle" => Copied(m)
      /\ holding \in Int /\ gone \in Int /\ fired \in Int /\ m.my.qty \in Int /\ m.exec \in Int
      /\ Part[m.my.qty] \in Int
  BY <1>0, SessionType, PartType, LotAssumption DEF BookInv, MonitorCopy, TypeOK, Qty
<1>b. m.pc \notin {"persist", "bank", "opened"} => InFlight("monitor") = 0
  BY DEF InFlight
<1>c. m.pc \in {"persist", "bank"} => InFlight("monitor") = m.exec
  BY DEF InFlight
<1> USE DEF tables, exchange, environment, history
<1>1. CASE MonitorLoad
  <2>1. PICK r \in OpenRows :
          s' = [s EXCEPT !["monitor"] = [Idle EXCEPT !.pc = "decide", !.row = r, !.my = rows[r]]]
    BY <1>1 DEF MonitorLoad
  <2>2. r \in RowId /\ rows[r].st = "open"
    BY DEF OpenRows
  <2> DEFINE x == [Idle EXCEPT !.pc = "decide", !.row = r, !.my = rows[r]]
  <2>3. x.pc = "decide" /\ x.row = r /\ x.my = rows[r]
    BY DEF Idle
  <2>4. s' = [s EXCEPT !["monitor"] = x]
    BY <2>1
  <2> HIDE DEF x
  <2>5. s'["monitor"] = x /\ \A b \in Actor \ {"monitor"} : s'[b] = s[b]
    BY <1>0, <2>4 DEF TypeOK
  <2>6. MonitorCopy'
    BY <1>1, <2>2, <2>3, <2>5 DEF MonitorCopy, Copied, MonitorLoad
  <2>7. SameCore
    BY <1>1 DEF SameCore, MonitorLoad
  <2>8. m.pc = "idle" /\ UNCHANGED <<orders, holding, gone, fired, rec, closes>>
    BY <1>1 DEF MonitorLoad
  <2>9. Book' = Book
    BY <1>0, <2>3, <2>5, <2>8, NoFlight DEF TypeInv
  <2> QED BY <2>5, <2>6, <2>7, <2>8, <2>9, MonitorQuiet
<1>2. CASE MonitorExits \/ MonitorScales \/ MonitorHolds
  BY <1>2, MonitorGoes DEF MonitorExits, MonitorScales, MonitorHolds
<1>3. CASE NothingToCancel("monitor") \/ CancelStop("monitor") \/ AmendCancels
  <2>1. \/ Goto("monitor", "sell") \/ Goto("monitor", "forget")
        \/ Goto("monitor", "place") \/ Goto("monitor", "replace")
    BY <1>3 DEF NothingToCancel, CancelStop, AmendCancels
  <2>2. m.pc \in {"cancel", "amend"} /\ UNCHANGED <<rows, orders, holding, gone, fired, rec, closes>>
    BY <1>3 DEF NothingToCancel, CancelStop, AmendCancels
  <2> QED BY <2>1, <2>2, MonitorGoes
<1>4. CASE MonitorSkips \/ TrailHolds
  <2>1. Leave("monitor") /\ InFlight("monitor") = 0
        /\ UNCHANGED <<rows, orders, holding, gone, fired, rec, closes>>
    BY <1>4, <1>b DEF MonitorSkips, TrailHolds
  <2> QED BY <1>a, <2>1, MonitorLeaves
<1>5. CASE ForgetStop("monitor")
  <2> DEFINE my == [m.my EXCEPT !.stop = NoStop]
             next == [m EXCEPT !.pc = "sell"]
  <2>1. my \in Row /\ my.st = m.my.st /\ my.qty = m.my.qty /\ my.scaled = m.my.scaled
    BY <1>0 DEF Row
  <2>2. next \in Session /\ next.pc = "sell" /\ next.row = m.row
    BY <1>0 DEF Session, PC
  <2>3. Commit("monitor", my, next) /\ m.pc = "forget"
        /\ UNCHANGED <<orders, holding, gone, fired, rec, closes>>
    BY <1>5 DEF ForgetStop
  <2> HIDE DEF my, next
  <2> QED BY <2>1, <2>2, <2>3, MonitorCommits
<1>6. CASE TrailRaises
  <2> DEFINE next == [m EXCEPT !.pc = "amend", !.then = "idle"]
  <2>1. PICK my \in Raised(m.my) : Commit("monitor", my, next)
    BY <1>6 DEF TrailRaises
  <2>2. 1 \in Level
    BY BoundsAssumption DEF Level
  <2>3. my \in Row /\ my.st = m.my.st /\ my.qty = m.my.qty /\ my.scaled = m.my.scaled
    <3>1. PICK l \in Level, b \in BOOLEAN :
            my = [m.my EXCEPT !.level = l] \/ my = [m.my EXCEPT !.level = l, !.be = b]
      BY <2>1, <2>2 DEF Raised
    <3> QED BY <1>0, <3>1 DEF Row
  <2>4. next \in Session /\ next.pc = "amend" /\ next.row = m.row
    BY <1>0 DEF Session, PC
  <2>5. m.pc = "trail" /\ UNCHANGED <<orders, holding, gone, fired, rec, closes>>
    BY <1>6 DEF TrailRaises
  <2> HIDE DEF next
  <2> QED BY <2>1, <2>3, <2>4, <2>5, MonitorCommits
<1>7. CASE SellFails("monitor") \/ SellLost("monitor")
  <2>1. RetryWith("monitor", m.my) /\ m.pc = "sell" /\ UNCHANGED <<rows, orders, rec, closes>>
    BY <1>7 DEF SellFails, SellLost
  <2>2. holding' + gone' + fired' = holding + gone + fired + InFlight("monitor")
    BY <1>7, <1>a, <1>b, <2>1 DEF SellFails, SellLost
  <2>3. m.my.st = rows[m.row].st /\ m.my.qty = rows[m.row].qty /\ m.my.scaled = rows[m.row].scaled
    BY <1>a, <2>1 DEF Copied
  <2> QED BY <1>0, <2>1, <2>2, <2>3, MonitorRetries
<1>8. CASE PersistFails("monitor")
  <2>1. RetryWith("monitor", rows[m.row]) /\ m.pc = "persist" /\ UNCHANGED <<rows, orders, rec, closes>>
    BY <1>8 DEF PersistFails
  <2>2. holding' + gone' + fired' = holding + gone + fired + InFlight("monitor")
    BY <1>8, <1>a, <1>c, <2>1 DEF PersistFails
  <2> QED BY <1>0, <2>1, <2>2, MonitorRetries
<1>9. CASE ScaleFails \/ BankFails
  <2>1. Leave("monitor") /\ UNCHANGED <<rows, orders, rec, closes>>
    BY <1>9 DEF ScaleFails, BankFails
  <2>2. holding' + gone' + fired' = holding + gone + fired + InFlight("monitor")
    BY <1>9, <1>a, <1>b, <1>c DEF ScaleFails, BankFails
  <2> QED BY <2>1, <2>2, MonitorLeaves
<1> QED BY <1>1, <1>2, <1>3, <1>4, <1>5, <1>6, <1>7, <1>8, <1>9

\* Placing and tracking a stop, by the monitor.
LEMMA MonitorPlaces ==
  ASSUME BookInv, TypeInv', StopStep("monitor")
  PROVE  BookInv'
<1> DEFINE m == s["monitor"]
<1>0. /\ TypeOK /\ "monitor" \in Actor /\ m \in Session
      /\ m.my \in Row /\ m.row \in RowId /\ rows[m.row] \in Row
      /\ m.sid \in StopId \cup {NoStop}
  BY MonitorFacts, SessionType
<1> USE DEF tables, exchange, environment, history
<1>1. CASE PlaceStop("monitor")
  <2> DEFINE x == [m EXCEPT !.pc = "placed", !.sid = FreshId]
  <2>1. /\ s' = [s EXCEPT !["monitor"] = x] /\ m.pc \in {"place", "replace"}
        /\ UNCHANGED <<rows, orders, holding, gone, fired, rec, closes>>
    BY <1>1 DEF PlaceStop
  <2>2. x.pc = "placed" /\ x.row = m.row /\ x.my = m.my
    BY <1>0 DEF Session
  <2> HIDE DEF x
  <2>3. s'["monitor"] = x /\ \A b \in Actor \ {"monitor"} : s'[b] = s[b]
    BY <1>0, <2>1 DEF TypeOK
  <2>4. MonitorCopy'
    BY <2>1, <2>2, <2>3 DEF BookInv, MonitorCopy, Copied
  <2>5. SameCore
    BY <2>1 DEF SameCore
  <2>6. Book' = Book
    BY <1>0, <2>1, <2>2, <2>3, NoFlight DEF TypeInv
  <2> QED BY <2>1, <2>3, <2>4, <2>5, <2>6, MonitorQuiet
<1>2. CASE PlaceFails("monitor") \/ TrackStop("monitor")
  <2>1. PICK my \in {[m.my EXCEPT !.stop = NoStop], [m.my EXCEPT !.stop = m.sid]},
             next \in {Idle, [m EXCEPT !.pc = m.then], [m EXCEPT !.pc = m.then, !.sid = NoStop]} :
          Commit("monitor", my, next) /\ (next # Idle => m.then # "idle")
    BY <1>2 DEF PlaceFails, TrackStop
  <2>2. my \in Row /\ my.st = m.my.st /\ my.qty = m.my.qty /\ my.scaled = m.my.scaled
    BY <1>0 DEF Row
  <2>3. /\ next \in Session
        /\ next.pc = "idle" \/ (next.pc = "trail" /\ next.row = m.row)
    <3>1. CASE next = Idle
      BY <3>1, ConstantTypes, IdleWith
    <3>2. CASE next # Idle
      <4>1. m.then = "trail" /\ "trail" \in PC
        BY <1>0, <2>1, <3>2 DEF Session, PC
      <4> QED BY <1>0, <3>2, <4>1 DEF Session
    <3> QED BY <3>1, <3>2
  <2>4. /\ m.pc \in {"place", "replace", "placed"}
        /\ UNCHANGED <<orders, holding, gone, fired, rec, closes>>
    BY <1>2 DEF PlaceFails, TrackStop
  <2> QED BY <2>1, <2>2, <2>3, <2>4, MonitorCommits
<1> QED BY <1>1, <1>2 DEF StopStep

-----------------------------------------------------------------------------
(* The steps of the monitor that sell and that book a sale *)

\* The coins leave the account and are in flight.
LEMMA MonitorSells ==
  ASSUME Undisturbed, BookInv, TypeInv', ScaleSell \/ Sell("monitor")
  PROVE  BookInv'
<1> DEFINE m == s["monitor"]
<1>0. /\ TypeOK /\ "monitor" \in Actor /\ m \in Session
      /\ m.my \in Row /\ m.row \in RowId /\ rows[m.row] \in Row
      /\ m.my.qty \in Qty /\ Part[m.my.qty] \in Qty
  BY MonitorFacts, SessionType, PartType
<1> USE DEF tables, exchange, environment, history
<1>1. PICK q \in Qty, pc \in {"bank", "persist"} :
        /\ MarketSell("monitor", q, pc)
        /\ IF pc = "bank" THEN q = Part[m.my.qty] /\ m.pc = "scale" ELSE q = m.my.qty /\ m.pc = "sell"
        /\ UNCHANGED <<rows, orders, gone, fired, rec, closes>>
  <2>1. CASE ScaleSell
    BY <1>0, <2>1 DEF ScaleSell
  <2>2. CASE Sell("monitor")
    BY <1>0, <2>2 DEF Sell
  <2> QED BY <2>1, <2>2
<1>2. /\ holding' = holding - s'["monitor"].exec
      /\ s'["monitor"].pc = pc /\ s'["monitor"].fill = q /\ s'["monitor"].exec = q
      /\ s'["monitor"].my = m.my /\ s'["monitor"].row = m.row
      /\ \A b \in Actor \ {"monitor"} : s'[b] = s[b]
  <2>1. pc \in PC
    BY DEF PC
  <2> QED BY <1>0, <1>1, <2>1, MarketSellType DEF Undisturbed
<1>3. MonitorCopy'
  BY <1>1, <1>2 DEF BookInv, MonitorCopy, Copied
<1>4. SameCore
  BY <1>1 DEF SameCore
<1>5. Book' = Book
  <2>1. InFlight("monitor") = 0 /\ InFlight("monitor")' = q
    BY <1>1, <1>2 DEF InFlight
  <2>2. q \in Int /\ holding \in Int /\ gone \in Int /\ fired \in Int
    BY <1>0, LotAssumption DEF Qty, TypeOK
  <2>3. holding' + gone' + fired' + InFlight("monitor")' = holding + gone + fired + InFlight("monitor")
    BY <1>1, <1>2, <2>1, <2>2
  <2> QED BY <1>0, <1>2, <2>3, BookMoves DEF TypeInv
<1> QED BY <1>1, <1>2, <1>3, <1>4, <1>5, MonitorQuiet

\* A job that commits a sale appends the order that sold.
LEMMA Recorded ==
  ASSUME TypeOK, NEW a \in Actor, Record(a)
  PROVE  /\ Len(orders') = Len(orders) + 1 /\ Len(orders) \in Nat
         /\ \A k \in 1..Len(orders) : orders'[k] = orders[k]
         /\ orders'[Len(orders) + 1].row = s[a].row
         /\ orders'[Len(orders) + 1].exec = s[a].exec
<1> DEFINE order == [entry |-> FALSE, row |-> s[a].row, qty |-> s[a].fill,
                     exec |-> s[a].exec, open |-> TRUE]
<1>1. order \in Order /\ orders' = Append(orders, order)
  BY SessionType DEF Record, Order
<1>2. order.row = s[a].row /\ order.exec = s[a].exec
  OBVIOUS
<1>3. orders \in Seq(Order)
  BY DEF TypeOK
<1> HIDE DEF order
<1> QED BY <1>1, <1>2, <1>3

\* The sale is booked: the row loses what was sold and, when all is sold, its status.
LEMMA MonitorBooks ==
  ASSUME BookInv, TypeInv', s["monitor"].pc \in {"bank", "persist"}, Record("monitor"),
         UNCHANGED <<rec, closes, holding, gone, fired>>,
         \A b \in Actor \ {"monitor"} : s'[b] = s[b],
         s'["monitor"].pc \notin {"persist", "bank", "opened"},
         \A r \in RowId \ {s["monitor"].row} : rows'[r] = rows[r],
         MonitorCopy',
         LET r == s["monitor"].row
             q == s["monitor"].exec
         IN  \/ /\ rows'[r].st = "closed" /\ q = rows[r].qty
             \/ /\ rows'[r].st = "open" /\ rows'[r].qty = rows[r].qty - q
                /\ ~rows[r].scaled /\ rows'[r].scaled /\ 2 * q < rows[r].qty
  PROVE  BookInv'
<1> DEFINE r == s["monitor"].row
           q == s["monitor"].exec
<1>0. /\ TypeOK /\ "monitor" \in Actor /\ r \in RowId /\ rows[r] \in Row /\ rows \in [RowId -> Row]
      /\ q \in Qty /\ q \in Nat /\ rows[r].qty \in Nat
  <2>1. TypeOK /\ "monitor" \in Actor /\ r \in RowId /\ rows[r] \in Row /\ q \in Qty
    BY MonitorFacts, SessionType
  <2>2. rows[r].qty \in Qty
    BY <2>1 DEF Row
  <2> QED BY <2>1, <2>2, LotAssumption DEF Qty, TypeOK
<1>1. rows[r].st = "open" /\ r \in OpenRows
  BY <1>0 DEF BookInv, MonitorCopy, Copied, OpenRows
<1>2. OpenRows = {r}
  BY <1>1 DEF BookInv, OneOpenRow
<1>3. OpenRows' = IF rows'[r].st = "open" THEN {r} ELSE {}
  BY <1>0, <1>2 DEF OpenRows
<1>4. Book = rows[r].qty /\ Book' = Book - q
  <2>1. Book = rows[r].qty
    BY <1>1 DEF BookInv, BookIdentity
  <2>2. InFlight("monitor") = q /\ InFlight("monitor")' = 0
    BY DEF InFlight
  <2>3. InFlight("cycle")' = InFlight("cycle") /\ InFlight("operator")' = InFlight("operator")
    BY DEF InFlight, Actor
  <2>4. /\ holding \in Int /\ gone \in Int /\ fired \in Int
        /\ InFlight("cycle") \in Int /\ InFlight("operator") \in Int
    BY <1>0, FlightType DEF Actor
  <2> DEFINE c == InFlight("cycle") + InFlight("operator")
             h == holding + gone + fired
  <2>5. h \in Int /\ c \in Int /\ h' = h /\ c' = c
    BY <2>3, <2>4
  <2>6. Book = h + q + c
    BY <2>2, <2>4, <1>0 DEF Book
  <2>7. Book' = h + c
    BY <2>2, <2>3, <2>4 DEF Book
  <2> HIDE DEF h, c
  <2> QED BY <1>0, <2>1, <2>5, <2>6, <2>7
<1>5. BookIdentity' /\ OneOpenRow'
  <2>1. CASE rows'[r].st = "closed"
    <3>1. OpenRows' = {} /\ q = rows[r].qty
      BY <1>3, <2>1
    <3>2. Book' = 0
      BY <1>0, <1>4, <3>1
    <3> QED BY <3>1, <3>2 DEF BookIdentity, OneOpenRow
  <2>2. CASE rows'[r].st = "open"
    <3>1. OpenRows' = {r} /\ rows'[r].qty = rows[r].qty - q
      BY <1>3, <2>2
    <3> QED BY <1>4, <3>1 DEF BookIdentity, OneOpenRow
  <2> QED BY <2>1, <2>2
<1>6. CycleParts' /\ EntryAlone' /\ NoOperator'
  <2>1. s'["cycle"] = s["cycle"] /\ s'["operator"] = s["operator"]
    BY DEF Actor
  <2>2. s["cycle"].pc # "opened"
    BY <1>1 DEF BookInv, EntryAlone
  <2> QED BY <2>1, <2>2 DEF BookInv, CycleParts, EntryAlone, NoOperator
<1>7. /\ Len(orders') = Len(orders) + 1 /\ Len(orders) \in Nat
      /\ \A k \in 1..Len(orders) : orders'[k] = orders[k]
      /\ orders'[Len(orders) + 1].row = r /\ orders'[Len(orders) + 1].exec = q
  BY <1>0, Recorded
<1>8. ReadOrders'
  <2>1. ReadOrders /\ s'["cycle"] = s["cycle"]
    BY DEF BookInv, Actor
  <2> QED BY <1>0, <1>7, <2>1, SameRead
<1>9. ClosingOrders'
  <2> SUFFICES ASSUME NEW k \in 1..Len(orders'), ~orders'[k].entry
               PROVE  /\ rows'[orders'[k].row].st # "none"
                      /\ rows'[orders'[k].row].st = "open" =>
                           /\ rows'[orders'[k].row].scaled
                           /\ orders'[k].exec < rows'[orders'[k].row].qty
    BY DEF ClosingOrders
  <2>1. CASE k = Len(orders) + 1
    BY <1>0, <1>7, <2>1
  <2>2. CASE k \in 1..Len(orders)
    <3>1. orders'[k] = orders[k] /\ ~orders[k].entry
      BY <1>7, <2>2
    <3>2. orders[k].row \in RowId
      <4>1. orders \in Seq(Order)
        BY <1>0 DEF TypeOK
      <4>2. orders[k] \in Order
        BY <2>2, <4>1
      <4> QED BY <4>2 DEF Order
    <3>3. /\ rows[orders[k].row].st # "none"
          /\ rows[orders[k].row].st = "open" =>
               rows[orders[k].row].scaled /\ orders[k].exec < rows[orders[k].row].qty
      BY <2>2, <3>1 DEF BookInv, ClosingOrders
    <3>4. CASE orders[k].row # r
      BY <3>1, <3>2, <3>3, <3>4
    <3>5. CASE orders[k].row = r
      <4>1. rows[r].scaled
        BY <1>1, <3>3, <3>5
      <4> QED BY <3>1, <3>5, <4>1
    <3> QED BY <3>4, <3>5
  <2> QED BY <1>7, <2>1, <2>2
<1> QED BY <1>5, <1>6, <1>8, <1>9 DEF BookInv

LEMMA MonitorRecords ==
  ASSUME Undisturbed, BookInv, TypeInv', Bank \/ PersistClose("monitor")
  PROVE  BookInv'
<1> DEFINE m == s["monitor"]
<1>0. /\ TypeOK /\ "monitor" \in Actor /\ m \in Session
      /\ m.my \in Row /\ m.row \in RowId /\ rows[m.row] \in Row /\ rows \in [RowId -> Row]
      /\ m.my.qty \in Qty /\ m.fill \in Qty /\ m.my.pnl \in Nat /\ m.my.level \in Level
  BY MonitorFacts, SessionType DEF TypeOK
<1>a. \A db, my \in Row : /\ db.st = m.my.st => Merge(db, m.my, my).st = my.st
                          /\ db.qty = m.my.qty => Merge(db, m.my, my).qty = my.qty
                          /\ db.scaled = m.my.scaled => Merge(db, m.my, my).scaled = my.scaled
  BY DEF Merge, Column
<1> USE DEF tables, exchange, environment, history
<1>1. CASE Bank
  <2> DEFINE banked == [m.my EXCEPT !.qty = m.my.qty - m.fill, !.scaled = TRUE,
                                    !.pnl = m.my.pnl + m.fill,
                                    !.level = IF m.my.be THEN m.my.level ELSE 1, !.be = TRUE]
             next == [Idle EXCEPT !.pc = "amend", !.row = m.row, !.then = "trail"]
  <2>1. /\ Commit("monitor", banked, next) /\ Record("monitor") /\ m.pc = "bank"
        /\ UNCHANGED <<holding, gone, fired, rec, closes>>
    BY <1>1 DEF Bank
  <2>2. Copied(m)
    BY <2>1 DEF BookInv, MonitorCopy
  <2>3. /\ 2 * m.exec < m.my.qty /\ m.fill = m.exec /\ m.my.qty - m.fill \in Qty
        /\ m.my.pnl + m.fill \in Nat /\ 1 \in Level
    <3>1. m.my.qty \in 1..Lot /\ m.exec = Part[m.my.qty] /\ m.fill = m.exec
      BY <1>0, <2>1, <2>2, PartAssumption, LotAssumption DEF Copied, Qty
    <3>2. 2 * m.exec < m.my.qty
      BY <3>1 DEF Undisturbed
    <3> QED BY <1>0, <3>1, <3>2, LotAssumption, BoundsAssumption DEF Qty, Level
  <2>4. /\ banked \in Row /\ banked.st = "open" /\ banked.qty = m.my.qty - m.exec
        /\ banked.scaled = TRUE
    BY <1>0, <2>2, <2>3 DEF Row, Copied
  <2>5. next \in Session /\ next.pc = "amend" /\ next.row = m.row
    BY <1>0, IdleWith DEF Idle, PC
  <2> HIDE DEF banked, next
  <2>6. /\ s'["monitor"].pc = "amend" /\ s'["monitor"].row = m.row /\ s'["monitor"].my = banked
        /\ \A b \in Actor \ {"monitor"} : s'[b] = s[b]
        /\ \A r \in RowId \ {m.row} : rows'[r] = rows[r]
        /\ rows'[m.row] = Merge(rows[m.row], m.my, banked)
    BY <1>0, <2>1, <2>4, <2>5, CommitEffect
  <2>7. /\ rows'[m.row].st = "open" /\ rows'[m.row].qty = m.my.qty - m.exec
        /\ rows'[m.row].scaled = TRUE
    BY <1>0, <1>a, <2>2, <2>4, <2>6 DEF Copied
  <2>8. MonitorCopy'
    BY <2>4, <2>6, <2>7 DEF MonitorCopy, Copied
  <2>9. rows[m.row].qty = m.my.qty /\ ~rows[m.row].scaled
    BY <2>1, <2>2 DEF Copied
  <2> QED BY <2>1, <2>3, <2>6, <2>7, <2>8, <2>9, MonitorBooks
<1>2. CASE PersistClose("monitor")
  <2> DEFINE my == AfterClose(m.my, m.fill)
  <2>1. /\ rows' = [rows EXCEPT ![m.row] = Merge(rows[m.row], m.my, my)]
        /\ s' = [s EXCEPT !["monitor"] =
                   IF my.st = "open" /\ my.stop = NoStop
                   THEN [Idle EXCEPT !.pc = "place", !.row = m.row, !.my = my] ELSE Idle]
        /\ Record("monitor") /\ m.pc = "persist"
        /\ UNCHANGED <<holding, gone, fired, rec, closes>>
    BY <1>2 DEF PersistClose
  <2>2. Copied(m)
    BY <2>1 DEF BookInv, MonitorCopy
  <2>3. m.fill = m.my.qty /\ m.exec = m.my.qty /\ m.my.qty = rows[m.row].qty
    BY <2>1, <2>2 DEF Copied
  <2>4. my = [m.my EXCEPT !.st = "closed", !.pnl = m.my.pnl + m.fill]
    BY <1>0, <2>3, LotAssumption DEF AfterClose, Qty
  <2>5. my \in Row /\ my.st = "closed"
    <3>1. m.my.pnl + m.fill \in Nat
      BY <1>0, LotAssumption DEF Qty
    <3> QED BY <1>0, <2>4, <3>1 DEF Row
  <2> HIDE DEF my
  <2>6. s'["monitor"] = Idle /\ \A b \in Actor \ {"monitor"} : s'[b] = s[b]
    BY <1>0, <2>1, <2>5 DEF TypeOK
  <2>7. /\ \A r \in RowId \ {m.row} : rows'[r] = rows[r]
        /\ rows'[m.row].st = "closed"
    <3>1. Merge(rows[m.row], m.my, my).st = "closed"
      BY <1>0, <1>a, <2>2, <2>5 DEF Copied
    <3> QED BY <1>0, <2>1, <3>1
  <2>8. MonitorCopy'
    BY <2>6, IdleWith DEF MonitorCopy
  <2> QED BY <2>1, <2>3, <2>6, <2>7, <2>8, IdleWith, MonitorBooks
<1> QED BY <1>1, <1>2

-----------------------------------------------------------------------------
(* The steps of the cycle *)

LEMMA CycleFacts ==
  ASSUME BookInv
  PROVE  /\ TypeOK /\ "cycle" \in Actor
         /\ s["cycle"] \in Session /\ s["cycle"].row \in RowId /\ s["cycle"].my \in Row
         /\ s["cycle"].fill \in Int
<1>1. TypeOK /\ "cycle" \in Actor
  BY DEF BookInv, TypeInv, Actor
<1>2. s["cycle"] \in Session /\ s["cycle"].row \in RowId /\ s["cycle"].my \in Row
      /\ s["cycle"].fill \in Qty
  BY <1>1, SessionType
<1> QED BY <1>1, <1>2, LotAssumption DEF Qty

LEMMA CycleQuiet ==
  ASSUME BookInv, TypeInv', SameCore, SameOrders, Book' = Book, closes' = closes,
         \A b \in Actor \ {"cycle"} : s'[b] = s[b],
         CycleParts', s'["cycle"].pc = "opened" => EntryAlone',
         s'["cycle"].pc = "recon" => ReadOrders'
  PROVE  BookInv'
<1>1. s'["monitor"] = s["monitor"] /\ s'["operator"] = s["operator"]
  BY DEF Actor
<1>2. OpenRows' = OpenRows /\ ClosingOrders' /\ OneOpenRow' /\ BookIdentity'
  BY QuietStep
<1>3. MonitorCopy'
  BY <1>1, SameMonitor
<1>4. EntryAlone' /\ ReadOrders' /\ NoOperator'
  BY <1>1 DEF EntryAlone, ReadOrders, BookInv, NoOperator
<1> QED BY <1>2, <1>3, <1>4 DEF BookInv

\* What the reconciliation reads says of the orders what the table says of them.
LEMMA LooksRead ==
  ASSUME TypeOK, ClosingOrders, ReconcileLooks
  PROVE  ReadOrders'
<1>1. rec \in [todo: SUBSET (1..Len(orders)), base: [RowId -> Row]]
  BY DEF TypeOK
<1>2. orders' = orders /\ rec'.base = rows /\ rec'.todo \subseteq rec.todo
  BY <1>1 DEF ReconcileLooks, tables
<1> QED BY <1>1, <1>2 DEF ReadOrders, ClosingOrders

\* Reading, ending, entering and placing a stop.
LEMMA CycleKeeps ==
  ASSUME BookInv, TypeInv',
         \/ ReconcileStarts \/ ReconcileLooks \/ CycleEnds \/ Enter \/ RecordEntryFails
         \/ StopStep("cycle")
  PROVE  BookInv'
<1> DEFINE c == s["cycle"]
<1>0. /\ TypeOK /\ TypeOK' /\ "cycle" \in Actor /\ c \in Session
      /\ c.row \in RowId /\ c.my \in Row /\ c.fill \in Int
      /\ holding \in Int /\ gone \in Int /\ fired \in Int
      /\ c.sid \in StopId \cup {NoStop}
  <2>1. /\ TypeOK /\ "cycle" \in Actor /\ c \in Session
        /\ c.row \in RowId /\ c.my \in Row /\ c.fill \in Int
    BY CycleFacts
  <2>2. TypeOK'
    BY DEF TypeInv
  <2>3. c.sid \in StopId \cup {NoStop}
    BY <2>1, SessionType
  <2>4. holding \in Int /\ gone \in Int /\ fired \in Int
    BY <2>1, FlightType
  <2> QED BY <2>1, <2>2, <2>3, <2>4
<1>p. {"lookup", "recon", "enter"} \subseteq PC
  BY DEF PC
<1> USE DEF tables, exchange, environment, history
<1>1. CASE ReconcileStarts \/ ReconcileLooks
  <2>1. PICK pc \in {"lookup", "recon"} :
          /\ Goto("cycle", pc)
          /\ pc = "recon" => ReconcileLooks
          /\ c.pc \in {"idle", "lookup"}
    BY <1>1 DEF ReconcileStarts, ReconcileLooks
  <2>2. UNCHANGED <<rows, orders, holding, gone, fired, closes>>
    BY <1>1 DEF ReconcileStarts, ReconcileLooks
  <2>3. s'["cycle"].pc = pc /\ s'["cycle"].then = c.then /\ \A b \in Actor \ {"cycle"} : s'[b] = s[b]
    BY <1>0, <1>p, <2>1, GotoEffect
  <2>4. Book' = Book
    BY <1>0, <2>1, <2>2, <2>3, NoFlight
  <2>5. SameCore /\ SameOrders
    BY <2>2 DEF SameCore, SameOrders
  <2>6. pc = "recon" => ReadOrders'
    BY <1>0, <2>1, LooksRead DEF BookInv
  <2>7. CycleParts'
    BY <2>3 DEF CycleParts, BookInv
  <2> QED BY <2>2, <2>3, <2>4, <2>5, <2>6, <2>7, CycleQuiet
<1>2. CASE CycleEnds \/ RecordEntryFails
  <2>1. /\ Leave("cycle") /\ UNCHANGED <<rows, orders, holding, fired, closes>>
        /\ \/ c.pc = "enter" /\ gone' = gone
           \/ c.pc = "opened" /\ gone' = gone - c.fill
    BY <1>2 DEF CycleEnds, RecordEntryFails
  <2>2. /\ s'["cycle"].pc = "idle" /\ s'["cycle"].then = "idle"
        /\ \A b \in Actor \ {"cycle"} : s'[b] = s[b]
    BY <1>0, <2>1, LeaveType DEF Idle
  <2>3. Book' = Book
    <3>1. InFlight("cycle")' = 0
      BY <2>2 DEF InFlight
    <3>2. InFlight("cycle") = IF c.pc = "opened" THEN -c.fill ELSE 0
      BY <2>1 DEF InFlight
    <3>3. holding' + gone' + fired' + InFlight("cycle")' = holding + gone + fired + InFlight("cycle")
      BY <1>0, <2>1, <3>1, <3>2
    <3> QED BY <1>0, <2>2, <3>3, BookMoves
  <2>4. SameCore /\ SameOrders /\ CycleParts'
    BY <2>1, <2>2 DEF SameCore, SameOrders, CycleParts
  <2> QED BY <2>1, <2>2, <2>3, <2>4, CycleQuiet
<1>3. CASE Enter
  <2>1. PICK r \in RowId, q \in Sizes :
          /\ rows[r].st = "none"
          /\ holding' = holding + q
          /\ s' = [s EXCEPT !["cycle"] = [Idle EXCEPT !.pc = "opened", !.row = r, !.fill = q]]
    BY <1>3 DEF Enter
  <2> DEFINE x == [Idle EXCEPT !.pc = "opened", !.row = r, !.fill = q]
  <2>2. x.pc = "opened" /\ x.row = r /\ x.fill = q /\ x.then = "idle"
    BY DEF Idle
  <2>3. s' = [s EXCEPT !["cycle"] = x]
    BY <2>1
  <2> HIDE DEF x
  <2>4. s'["cycle"] = x /\ \A b \in Actor \ {"cycle"} : s'[b] = s[b]
    BY <1>0, <2>3 DEF TypeOK
  <2>5. /\ c.pc = "enter" /\ OpenRows = {}
        /\ UNCHANGED <<rows, orders, gone, fired, closes, rec>>
    BY <1>3 DEF Enter
  <2>6. Book' = Book
    <3>1. InFlight("cycle")' = -q /\ InFlight("cycle") = 0
      BY <2>2, <2>4, <2>5 DEF InFlight
    <3>2. q \in Int
      BY LotAssumption, BoundsAssumption
    <3>3. holding' + gone' + fired' + InFlight("cycle")' = holding + gone + fired + InFlight("cycle")
      BY <1>0, <2>1, <2>5, <3>1, <3>2
    <3> QED BY <1>0, <2>4, <3>3, BookMoves
  <2>7. SameCore /\ SameOrders /\ CycleParts'
    BY <2>2, <2>4, <2>5 DEF SameCore, SameOrders, CycleParts
  <2>8. EntryAlone'
    BY <2>1, <2>2, <2>4, <2>5 DEF EntryAlone, OpenRows
  <2> QED BY <2>2, <2>4, <2>5, <2>6, <2>7, <2>8, CycleQuiet
<1>4. CASE PlaceStop("cycle")
  <2> DEFINE x == [c EXCEPT !.pc = "placed", !.sid = FreshId]
  <2>1. /\ s' = [s EXCEPT !["cycle"] = x] /\ c.pc \in {"place", "replace"}
        /\ UNCHANGED <<rows, orders, holding, gone, fired, rec, closes>>
    BY <1>4 DEF PlaceStop
  <2>2. x.pc = "placed" /\ x.then = c.then
    BY <1>0 DEF Session
  <2> HIDE DEF x
  <2>3. s'["cycle"] = x /\ \A b \in Actor \ {"cycle"} : s'[b] = s[b]
    BY <1>0, <2>1 DEF TypeOK
  <2>4. SameCore /\ SameOrders /\ CycleParts'
    BY <2>1, <2>2, <2>3 DEF SameCore, SameOrders, CycleParts, BookInv
  <2>5. Book' = Book
    BY <1>0, <2>1, <2>2, <2>3, NoFlight
  <2> QED BY <2>1, <2>2, <2>3, <2>4, <2>5, CycleQuiet
<1>5. CASE PlaceFails("cycle") \/ TrackStop("cycle")
  <2>1. PICK my \in {[c.my EXCEPT !.stop = NoStop], [c.my EXCEPT !.stop = c.sid]} :
          Commit("cycle", my, Idle)
    BY <1>5 DEF PlaceFails, TrackStop, BookInv, CycleParts
  <2>2. my \in Row /\ my.st = c.my.st /\ my.qty = c.my.qty /\ my.scaled = c.my.scaled
    BY <1>0 DEF Row
  <2>3. /\ c.pc \in {"place", "replace", "placed"}
        /\ UNCHANGED <<orders, holding, gone, fired, rec, closes>>
    BY <1>5 DEF PlaceFails, TrackStop
  <2>4. s'["cycle"] = [Idle EXCEPT !.my = my] /\ \A b \in Actor \ {"cycle"} : s'[b] = s[b]
    BY <1>0, <2>1 DEF Commit, TypeOK
  <2>5. s'["cycle"].pc = "idle" /\ s'["cycle"].then = "idle"
    BY <2>4 DEF Idle
  <2>6. SameCore /\ SameOrders
    BY <1>0, <2>1, <2>2, <2>3, ConstantTypes, CommitCore DEF SameOrders
  <2>7. Book' = Book
    BY <1>0, <2>3, <2>4, <2>5, NoFlight
  <2>8. CycleParts'
    BY <2>5 DEF CycleParts
  <2> QED BY <2>3, <2>4, <2>5, <2>6, <2>7, <2>8, CycleQuiet
<1> QED BY <1>1, <1>2, <1>3, <1>4, <1>5 DEF StopStep

\* The reconciliation writes the PnL of the rows it has read, and their status never: the
\* closing orders of an open row filled less than the row still holds.
LEMMA ReconcileWrites ==
  ASSUME TypeOK, ReadOrders, ReconcileCommits
  PROVE  SameCore /\ SameOrders
<1>0. /\ rec \in [todo: SUBSET (1..Len(orders)), base: [RowId -> Row]]
      /\ orders \in Seq(Order) /\ rows \in [RowId -> Row]
  BY DEF TypeOK
<1>1. /\ s["cycle"].pc = "recon"
      /\ rows' = [r \in RowId |-> Merge(rows[r], rec.base[r], Synced(r))]
      /\ orders' = [k \in 1..Len(orders) |->
                      IF k \in rec.todo THEN [orders[k] EXCEPT !.open = FALSE] ELSE orders[k]]
  BY DEF ReconcileCommits
<1>2. ASSUME NEW r \in RowId
      PROVE  /\ Synced(r).st = rec.base[r].st /\ Synced(r).qty = rec.base[r].qty
             /\ Synced(r).scaled = rec.base[r].scaled
  <2> DEFINE base == rec.base[r]
             last == CHOOSE k \in Closing(r) : \A j \in Closing(r) : j <= k
             whole == \E k \in Closing(r) : orders[k].exec >= base.qty
             pnl == IF orders[last].exec <= base.qty THEN orders[last].exec ELSE base.qty
             st == IF whole THEN "closed" ELSE base.st
  <2>1. base \in Row
    BY <1>0
  <2>2. ASSUME Closing(r) # {} PROVE st = base.st
    <3>1. ASSUME NEW k \in Closing(r)
          PROVE  /\ k \in rec.todo /\ orders[k].row = r /\ ~orders[k].entry
                 /\ orders[k].exec \in Int
      <4>1. k \in rec.todo /\ k \in 1..Len(orders) /\ orders[k].row = r /\ ~orders[k].entry
        BY <1>0 DEF Closing
      <4>2. orders[k] \in Order
        BY <1>0, <4>1
      <4> QED BY <4>1, <4>2, LotAssumption DEF Order, Qty
    <3>2. ASSUME NEW k \in Closing(r)
          PROVE  base.st # "none" /\ (base.st = "open" => orders[k].exec < base.qty)
      BY <1>1, <3>1 DEF ReadOrders
    <3>3. base.st \in {"open", "closed"}
      BY <2>1, <2>2, <3>2 DEF Row
    <3>4. base.qty \in Int
      BY <2>1, LotAssumption DEF Row, Qty
    <3>5. base.st = "open" => ~whole
      BY <3>1, <3>2, <3>4
    <3> QED BY <3>3, <3>5
  <2>3. Synced(r) = IF Closing(r) = {} THEN base ELSE [base EXCEPT !.pnl = pnl, !.st = st]
    BY DEF Synced
  <2> HIDE DEF base, last, whole, pnl, st
  <2>4. /\ Synced(r).st = base.st /\ Synced(r).qty = base.qty
        /\ Synced(r).scaled = base.scaled
    BY <2>1, <2>2, <2>3 DEF Row
  <2> QED BY <2>4 DEF base
<1>3. SameCore
  <2>1. ASSUME NEW r \in RowId
        PROVE  /\ Merge(rows[r], rec.base[r], Synced(r)).st = rows[r].st
               /\ Merge(rows[r], rec.base[r], Synced(r)).qty = rows[r].qty
               /\ Merge(rows[r], rec.base[r], Synced(r)).scaled = rows[r].scaled
    BY <1>2 DEF Merge, Column
  <2> QED BY <1>1, <2>1 DEF SameCore
<1>4. SameOrders
  <2>1. Len(orders) \in Nat /\ \A k \in 1..Len(orders) : orders[k] \in Order
    BY <1>0
  <2>2. Len(orders') = Len(orders)
    BY <1>1, <2>1
  <2>3. ASSUME NEW k \in 1..Len(orders)
        PROVE  /\ orders'[k].entry = orders[k].entry /\ orders'[k].row = orders[k].row
               /\ orders'[k].exec = orders[k].exec
    <3>1. orders'[k] \in {orders[k], [orders[k] EXCEPT !.open = FALSE]}
      BY <1>1
    <3> QED BY <2>1, <3>1 DEF Order
  <2> QED BY <2>2, <2>3 DEF SameOrders
<1> QED BY <1>3, <1>4

LEMMA ReconcileKeeps ==
  ASSUME BookInv, TypeInv', ReconcileCommits
  PROVE  BookInv'
<1>1. /\ TypeOK /\ TypeOK' /\ "cycle" \in Actor
      /\ s["cycle"].pc = "recon" /\ Goto("cycle", "enter")
      /\ UNCHANGED <<holding, gone, fired, closes>>
  BY CycleFacts DEF TypeInv, ReconcileCommits, exchange, history, environment
<1>2. SameCore /\ SameOrders
  BY <1>1, ReconcileWrites DEF BookInv
<1>3. /\ s'["cycle"].pc = "enter" /\ s'["cycle"].then = s["cycle"].then
      /\ \A b \in Actor \ {"cycle"} : s'[b] = s[b]
  <2>1. "enter" \in PC
    BY DEF PC
  <2> QED BY <1>1, <2>1, GotoEffect
<1>4. Book' = Book
  BY <1>1, <1>3, NoFlight
<1>5. CycleParts'
  BY <1>3 DEF CycleParts, BookInv
<1> QED BY <1>1, <1>2, <1>3, <1>4, <1>5, CycleQuiet

\* The entry is booked: the only open row holds what was bought.
LEMMA EntryRecorded ==
  ASSUME BookInv, TypeInv', RecordEntry
  PROVE  BookInv'
<1> DEFINE c == s["cycle"]
           r == c.row
           q == c.fill
           my == [NoRow EXCEPT !.st = "open", !.qty = q]
           order == [entry |-> TRUE, row |-> r, qty |-> q, exec |-> q, open |-> TRUE]
           x == [Idle EXCEPT !.pc = "place", !.row = r, !.my = my]
<1>0. /\ TypeOK /\ TypeOK' /\ "cycle" \in Actor /\ r \in RowId /\ q \in Int /\ q \in Qty
      /\ rows \in [RowId -> Row] /\ orders \in Seq(Order) /\ order \in Order
      /\ holding \in Int /\ gone \in Int /\ fired \in Int
  <2>1. TypeOK /\ TypeOK' /\ "cycle" \in Actor /\ r \in RowId /\ q \in Int
    BY CycleFacts DEF TypeInv
  <2>2. q \in Qty /\ order \in Order
    BY <2>1, SessionType DEF Order
  <2>3. TypeOK => /\ rows \in [RowId -> Row] /\ orders \in Seq(Order)
                  /\ holding \in Int /\ gone \in Int /\ fired \in Int
    BY DEF TypeOK
  <2> HIDE DEF order, r, q
  <2> QED BY <2>1, <2>2, <2>3
<1>1. /\ c.pc = "opened"
      /\ rows' = [rows EXCEPT ![r] = my]
      /\ orders' = Append(orders, order)
      /\ s' = [s EXCEPT !["cycle"] = x]
      /\ UNCHANGED <<holding, gone, fired, rec, closes>>
  BY DEF RecordEntry, exchange, environment, history
<1>2. my.st = "open" /\ my.qty = q /\ order.entry = TRUE
      /\ x.pc = "place" /\ x.then = "idle"
  BY DEF NoRow, Idle
<1> HIDE DEF my, order, x
<1>3. OpenRows = {} /\ rows[r].st = "none"
  BY <1>1 DEF BookInv, EntryAlone
<1>4. /\ s'["cycle"] = x /\ s'["monitor"] = s["monitor"] /\ s'["operator"] = s["operator"]
      /\ \A b \in Actor \ {"cycle"} : s'[b] = s[b]
  BY <1>0, <1>1 DEF TypeOK, Actor
<1>5. /\ OpenRows' = {r} /\ rows'[r].qty = q
      /\ \A n \in RowId \ {r} : rows'[n] = rows[n]
  BY <1>0, <1>1, <1>2, <1>3 DEF OpenRows
<1>6. s["monitor"].pc = "idle"
  <2>1. s["monitor"].row \in RowId
    BY MonitorFacts
  <2> QED BY <1>3, <2>1 DEF BookInv, MonitorCopy, Copied, OpenRows
<1>7. Book' = q
  <2>1. /\ InFlight("monitor") = 0 /\ InFlight("operator") = 0 /\ InFlight("cycle") = -q
        /\ InFlight("monitor")' = 0 /\ InFlight("operator")' = 0 /\ InFlight("cycle")' = 0
    BY <1>1, <1>2, <1>4, <1>6 DEF InFlight, BookInv, NoOperator
  <2>2. Book = 0
    BY <1>3 DEF BookInv, BookIdentity
  <2> DEFINE h == holding + gone + fired
  <2>3. h \in Int /\ h' = h
    BY <1>0, <1>1
  <2>4. Book = h - q /\ Book' = h
    BY <1>0, <1>1, <2>1, <2>3 DEF Book
  <2> HIDE DEF h
  <2> QED BY <1>0, <2>2, <2>3, <2>4
<1>8. BookIdentity' /\ OneOpenRow'
  BY <1>5, <1>7 DEF BookIdentity, OneOpenRow
<1>9. CycleParts' /\ EntryAlone' /\ NoOperator' /\ MonitorCopy' /\ ReadOrders'
  BY <1>1, <1>2, <1>4, <1>6
  DEF BookInv, CycleParts, EntryAlone, NoOperator, MonitorCopy, ReadOrders
<1>10. ClosingOrders'
  <2>1. /\ Len(orders') = Len(orders) + 1 /\ Len(orders) \in Nat
        /\ orders'[Len(orders) + 1] = order
        /\ \A k \in 1..Len(orders) : orders'[k] = orders[k] /\ orders[k] \in Order
    BY <1>0, <1>1
  <2> SUFFICES ASSUME NEW k \in 1..Len(orders'), ~orders'[k].entry
               PROVE  /\ rows'[orders'[k].row].st # "none"
                      /\ rows'[orders'[k].row].st = "open" =>
                           /\ rows'[orders'[k].row].scaled
                           /\ orders'[k].exec < rows'[orders'[k].row].qty
    BY DEF ClosingOrders
  <2>2. k \in 1..Len(orders)
    BY <1>2, <2>1
  <2>3. orders'[k] = orders[k] /\ orders[k].row \in RowId
    BY <2>1, <2>2 DEF Order
  <2>4. rows[orders[k].row].st # "none"
    BY <2>2, <2>3 DEF BookInv, ClosingOrders
  <2>5. orders[k].row # r
    BY <1>3, <2>4
  <2> QED BY <1>5, <2>2, <2>3, <2>5 DEF BookInv, ClosingOrders
<1> QED BY <1>8, <1>9, <1>10 DEF BookInv

-----------------------------------------------------------------------------
(* The exchange, the faults and the theorems *)

\* Closing, as far as an undisturbed monitor goes.
LEMMA MonitorCloses ==
  ASSUME Undisturbed, BookInv, TypeInv', CloseStep("monitor")
  PROVE  BookInv'
BY MonitorKeeps, MonitorSells, MonitorRecords DEF CloseStep

\* The operator has no request to send.
LEMMA NoOperatorStep ==
  ASSUME BookInv, OperatorStep
  PROVE  FALSE
<1>1. closes = 0 /\ s["operator"].pc = "idle"
  BY DEF BookInv, NoOperator
<1>2. ~OperatorClose
  BY <1>1 DEF OperatorClose
<1>3. ~CloseStep("operator")
  BY <1>1 DEF CloseStep, NothingToCancel, CancelStop, ForgetStop, Sell, SellFails, SellLost,
              PersistClose, PersistFails
<1>4. ~StopStep("operator")
  BY <1>1 DEF StopStep, PlaceStop, PlaceFails, TrackStop
<1> QED BY <1>2, <1>3, <1>4 DEF OperatorStep

\* The coins a stop sells leave the account and enter the history.
LEMMA ExchangeBook ==
  ASSUME TypeOK, TypeOK', ExchangeStep \/ UNCHANGED vars
  PROVE  Book' = Book
<1>0. "cycle" \in Actor
  BY DEF Actor
<1>1. UNCHANGED <<rows, orders, s, rec, closes, gone>>
  BY DEF ExchangeStep, PriceExits, StopFires, vars, tables, exchange, history, environment
<1>2. holding' + fired' = holding + fired
  <2>1. ASSUME NEW i \in StopId, StopFires(i) PROVE holding' + fired' = holding + fired
    <3>1. stops[i] \in Stop
      BY <1>0 DEF TypeOK
    <3>2. stops[i].qty \in Int /\ holding \in Int /\ fired \in Int
      BY <1>0, <3>1, LotAssumption DEF TypeOK, Stop, Qty
    <3> QED BY <2>1, <3>2 DEF StopFires
  <2>2. ASSUME PriceExits \/ UNCHANGED vars PROVE holding' + fired' = holding + fired
    BY <2>2 DEF PriceExits, exchange, history, vars
  <2> QED BY <2>1, <2>2 DEF ExchangeStep
<1>3. InFlight("cycle")' = InFlight("cycle") /\ InFlight("cycle") \in Int
  BY <1>0, <1>1, FlightType DEF InFlight
<1>4. /\ holding \in Int /\ gone \in Int /\ fired \in Int
      /\ holding' \in Int /\ fired' \in Int
  BY <1>0 DEF TypeOK
<1>5. holding' + gone' + fired' + InFlight("cycle")' = holding + gone + fired + InFlight("cycle")
  <2>1. holding' + gone + fired' = holding + gone + fired
    <3>1. holding' + gone + fired' = (holding' + fired') + gone
      BY <1>4
    <3>2. holding + gone + fired = (holding + fired) + gone
      BY <1>4
    <3> QED BY <1>2, <3>1, <3>2
  <2> QED BY <1>1, <1>3, <2>1
<1> QED BY <1>0, <1>1, <1>5, BookMoves

\* Coins a second attempt sold or bought are in the history at once.
LEMMA ResentBook ==
  ASSUME TypeInv, TypeInv', Resent
  PROVE  Book' = Book
<1>1. /\ TypeOK /\ TypeOK' /\ "cycle" \in Actor /\ s' = s /\ fired' = fired
      /\ holding' + gone' = holding + gone
  BY ResentLeaves, ResentType DEF TypeInv, Actor
<1>2. InFlight("cycle")' = InFlight("cycle") /\ InFlight("cycle") \in Int
  BY <1>1, FlightType DEF InFlight
<1>3. holding' + gone' + fired' + InFlight("cycle")' = holding + gone + fired + InFlight("cycle")
  BY <1>1, <1>2
<1> QED BY <1>1, <1>3, BookMoves

LEMMA ExchangeKeeps ==
  ASSUME BookInv, TypeInv', ExchangeStep \/ Resent \/ UNCHANGED vars
  PROVE  BookInv'
<1>1. UNCHANGED <<rows, orders, s, rec, closes>>
  BY ResentLeaves DEF ExchangeStep, PriceExits, StopFires, vars, tables, environment
<1>2. Book' = Book
  BY ExchangeBook, ResentBook DEF BookInv, TypeInv
<1>3. SameCore /\ SameOrders
  BY <1>1 DEF SameCore, SameOrders
<1>4. CycleParts' /\ EntryAlone' /\ ReadOrders'
  BY <1>1 DEF BookInv, CycleParts, EntryAlone, ReadOrders, OpenRows
<1> QED BY <1>1, <1>2, <1>3, <1>4, CycleQuiet

\* A crash moves what was in flight into the history.
LEMMA CrashBook ==
  ASSUME TypeOK, NEW dead \in Processes, Crash(dead)
  PROVE  Book' = Book
<1> DEFINE unrecorded(a) == IF a \in dead THEN InFlight(a) ELSE 0
           m == InFlight("monitor")
           c == InFlight("cycle")
           o == InFlight("operator")
           um == unrecorded("monitor")
           uc == unrecorded("cycle")
           uo == unrecorded("operator")
<1>1. /\ s' = [a \in Actor |-> IF a \in dead THEN Idle ELSE s[a]]
      /\ gone' = gone + um + uc + uo
      /\ holding' = holding /\ fired' = fired
  BY DEF Crash, exchange
<1>2. m \in Int /\ c \in Int /\ o \in Int /\ holding \in Int /\ gone \in Int /\ fired \in Int
  BY FlightType DEF Actor
<1>3. \A a \in Actor : s'[a] = IF a \in dead THEN Idle ELSE s[a]
  BY <1>1
<1>4. Idle.pc = "idle"
  BY IdleWith
<1>5. /\ um \in Int /\ m' \in Int /\ um + m' = m
      /\ uc \in Int /\ c' \in Int /\ uc + c' = c
      /\ uo \in Int /\ o' \in Int /\ uo + o' = o
  BY <1>2, <1>3, <1>4 DEF InFlight, Actor
<1>6. Book = holding + gone + fired + m + c + o
  BY DEF Book
<1>7. Book' = holding + (gone + um + uc + uo) + fired + m' + c' + o'
  BY <1>1 DEF Book
<1> HIDE DEF m, c, o, um, uc, uo
<1>8. holding + (gone + um + uc + uo) + fired + m' + c' + o'
        = holding + gone + fired + (um + m') + (uc + c') + (uo + o')
  BY <1>2, <1>5
<1> QED BY <1>5, <1>6, <1>7, <1>8

\* So the books survive it: the sessions of the dead process are idle.
LEMMA CrashKeeps ==
  ASSUME BookInv, TypeInv', NEW dead \in Processes, Crash(dead)
  PROVE  BookInv'
<1>1. /\ s' = [a \in Actor |-> IF a \in dead THEN Idle ELSE s[a]]
      /\ rec' = IF "cycle" \in dead THEN NoRec ELSE rec
      /\ UNCHANGED <<rows, orders, closes>>
  BY DEF Crash, tables
<1>2. /\ s'["monitor"] = IF "monitor" \in dead THEN Idle ELSE s["monitor"]
      /\ s'["cycle"] = IF "cycle" \in dead THEN Idle ELSE s["cycle"]
      /\ s'["operator"] = IF "operator" \in dead THEN Idle ELSE s["operator"]
  BY <1>1 DEF Actor
<1>3. Idle.pc = "idle" /\ Idle.then = "idle"
  BY DEF Idle
<1>4. Book' = Book
  BY CrashBook DEF BookInv, TypeInv
<1>5. SameCore /\ SameOrders
  BY <1>1 DEF SameCore, SameOrders
<1>6. ClosingOrders' /\ OneOpenRow' /\ BookIdentity' /\ OpenRows' = OpenRows
  BY <1>4, <1>5, QuietStep
<1>7. MonitorCopy'
  BY <1>1, <1>2, <1>3 DEF BookInv, MonitorCopy, Copied
<1>8. CycleParts' /\ NoOperator'
  BY <1>1, <1>2, <1>3 DEF BookInv, CycleParts, NoOperator
<1>9. EntryAlone' /\ ReadOrders'
  BY <1>1, <1>2, <1>3, <1>6 DEF BookInv, EntryAlone, ReadOrders
<1> QED BY <1>6, <1>7, <1>8, <1>9 DEF BookInv

\* The invariant of the books holds of an open or a flat account at the start.
THEOREM BookInit == Undisturbed /\ Init => BookInv
<1> SUFFICES ASSUME Undisturbed, Init PROVE BookInv
  OBVIOUS
<1>1. TypeInv
  BY InitType
<1>2. /\ s = [a \in Actor |-> Idle] /\ closes = 0 /\ gone = 0 /\ fired = 0
      /\ {"monitor", "cycle", "operator"} \subseteq Actor
  BY DEF Init, Undisturbed, Actor
<1>3. \A a \in {"monitor", "cycle", "operator"} : s[a].pc = "idle" /\ s[a].then = "idle"
  BY <1>2 DEF Idle
<1>4. NoOperator /\ CycleParts /\ MonitorCopy /\ EntryAlone /\ ReadOrders
  BY <1>2, <1>3 DEF NoOperator, CycleParts, MonitorCopy, EntryAlone, ReadOrders
<1>5. Book = holding
  <2>1. InFlight("monitor") = 0 /\ InFlight("cycle") = 0 /\ InFlight("operator") = 0
    BY <1>3 DEF InFlight
  <2>2. holding \in Int
    BY <1>1 DEF TypeInv, TypeOK
  <2> QED BY <1>2, <2>1, <2>2 DEF Book
<1>6. ClosingOrders /\ OneOpenRow /\ BookIdentity
  <2>1. CASE InitFlat
    <3>1. OpenRows = {}
      BY <2>1 DEF InitFlat, OpenRows, NoRow
    <3> QED BY <1>5, <2>1, <3>1 DEF InitFlat, ClosingOrders, OneOpenRow, BookIdentity
  <2>2. CASE InitOpen
    <3>1. PICK q \in Sizes :
            /\ rows = [r \in RowId |-> IF r = 1 THEN [NoRow EXCEPT !.st = "open", !.qty = q,
                                                                   !.stop = 1] ELSE NoRow]
            /\ orders = <<[entry |-> TRUE, row |-> 1, qty |-> q, exec |-> q, open |-> TRUE]>>
            /\ holding = q
      BY <2>2 DEF InitOpen
    <3>2. 1 \in RowId
      BY BoundsAssumption DEF RowId
    <3>3. OpenRows = {1} /\ rows[1].qty = q
      BY <3>1, <3>2 DEF OpenRows, NoRow
    <3>4. ClosingOrders
      BY <3>1 DEF ClosingOrders
    <3> QED BY <1>5, <3>1, <3>3, <3>4 DEF OneOpenRow, BookIdentity
  <2> QED BY <2>1, <2>2 DEF Init
<1> QED BY <1>1, <1>4, <1>6 DEF BookInv

\* No step of the monitor, the cycle, a fault or a restart breaks the books' invariant.
THEOREM BookStep == Undisturbed /\ BookInv /\ [Next]_vars => BookInv'
<1> SUFFICES ASSUME Undisturbed, BookInv, [Next]_vars PROVE BookInv'
  OBVIOUS
<1>1. TypeInv'
  BY TypeStep DEF BookInv
<1>2. CASE MonitorStep
  BY <1>1, <1>2, MonitorKeeps, MonitorCloses, MonitorSells, MonitorRecords, MonitorPlaces
  DEF MonitorStep
<1>3. CASE CycleStep
  BY <1>1, <1>3, CycleKeeps, ReconcileKeeps, EntryRecorded DEF CycleStep
<1>4. CASE OperatorStep
  BY <1>4, NoOperatorStep
<1>5. CASE ExchangeStep \/ Resent \/ UNCHANGED vars
  BY <1>1, <1>5, ExchangeKeeps
<1>6. CASE \E dead \in Processes : Crash(dead)
  BY <1>1, <1>6, CrashKeeps
<1> QED BY <1>2, <1>3, <1>4, <1>5, <1>6 DEF Next

\* The books balance through every interleaving of the monitor, the cycle, the exchange
\* and the faults: whatever fails between an order and the commit that records it, the
\* open row holds the coins of the account, those in flight and those gone unrecorded.
THEOREM BooksBalance ==
  ASSUME Undisturbed
  PROVE  Spec => []BookIdentity
<1>1. Init => BookInv
  BY BookInit
<1>2. BookInv /\ [Next]_vars => BookInv'
  BY BookStep
<1>3. BookInv => BookIdentity
  BY DEF BookInv
<1> QED BY <1>1, <1>2, <1>3, PTL DEF Spec

\* No job and no reconciliation closes a row while coins of it are left to sell: with
\* every row closed and nothing in flight, what the account still holds was bought
\* without a record.
THEOREM ClosedMeansSold ==
  ASSUME Undisturbed
  PROVE  Spec => []ClosedIsFlat
<1>1. BookInv => ClosedIsFlat
  <2> SUFFICES ASSUME BookInv, OpenRows = {}, gone + fired >= 0,
                      \A a \in Actor : InFlight(a) = 0
               PROVE  holding = 0
    BY DEF ClosedIsFlat
  <2>1. Book = 0
    BY DEF BookInv, BookIdentity
  <2>2. holding \in Nat /\ gone \in Int /\ fired \in Int
    BY DEF BookInv, TypeInv, TypeOK
  <2>3. InFlight("monitor") = 0 /\ InFlight("cycle") = 0 /\ InFlight("operator") = 0
    BY DEF Actor
  <2>4. holding + gone + fired = 0
    <3> DEFINE h == holding + gone + fired
    <3>1. h \in Int /\ Book = h + 0 + 0 + 0
      BY <2>2, <2>3 DEF Book
    <3> HIDE DEF h
    <3>2. h = 0
      BY <2>1, <3>1
    <3> QED BY <3>2 DEF h
  <2> QED BY <2>2, <2>4
<1>2. Init => BookInv
  BY BookInit
<1>3. BookInv /\ [Next]_vars => BookInv'
  BY BookStep
<1> QED BY <1>1, <1>2, <1>3, PTL DEF Spec

-----------------------------------------------------------------------------
(*                   One position, several that close it                   *)

\* One row, sells that fill in full, a partial profit of less than half: any number of
\* requests of the operator, any faults.
Shared ==
  /\ MaxPos = 1
  /\ FillModes = {"full"}
  /\ \A q \in 1..Lot : 2 * Part[q] < q

\* The behaviours that start with that position open.
SoloStart == Init /\ OpenRows # {}

\* A closing session believes the position open and sells no less than the row holds; if it
\* has sold and not recorded it yet, the row is open still and it sold its part or all of it.
Shares(me, row) ==
  me.pc # "idle" =>
    /\ me.pc \notin {"lookup", "recon", "enter", "opened"}
    /\ me.my.st = "open" /\ me.my.qty >= row.qty
    /\ me.pc \in {"scale", "bank"} => ~me.my.scaled /\ Part[me.my.qty] > 0
    /\ me.pc = "bank" => row.st = "open" /\ me.fill = Part[me.my.qty] /\ me.exec = me.fill
    /\ me.pc = "persist" =>
         row.st = "open" /\ me.my.qty = row.qty /\ me.fill = row.qty /\ me.exec = row.qty

\* Only the monitor scales out, so its copy of quantity and scale-out is never stale.
Knows(a, me, row) ==
  /\ a = "monitor" /\ me.pc # "idle" => me.my.qty = row.qty /\ me.my.scaled = row.scaled
  /\ a = "operator" => me.pc \notin {"scale", "bank"}

Sharer(a, me, row) == Shares(me, row) /\ Knows(a, me, row)

\* The row was opened, once; nothing was bought since.
Opened ==
  /\ rows[1].st # "none" /\ rows[1].qty > 0 /\ gone >= 0
  /\ s["cycle"].pc \in {"idle", "lookup", "recon", "enter"}

SharedBook == Book = IF rows[1].st = "open" THEN rows[1].qty ELSE 0

SharedInv ==
  /\ TypeInv /\ Opened
  /\ \A a \in Closer : Sharer(a, s[a], rows[1])
  /\ ClosingOrders /\ ReadOrders /\ SharedBook

LEMMA SharedFacts ==
  ASSUME Shared, SharedInv
  PROVE  /\ TypeOK /\ RowId = {1} /\ rows \in [RowId -> Row] /\ rows[1] \in Row
         /\ rows[1].qty \in Nat /\ rows[1].st \in {"open", "closed"}
         /\ \A a \in Actor : s[a].row = 1
<1>1. TypeOK /\ RowId = {1}
  BY DEF SharedInv, TypeInv, Shared, RowId
<1>2. rows \in [RowId -> Row] /\ rows[1] \in Row
  BY <1>1 DEF TypeOK
<1>3. rows[1].qty \in Nat /\ rows[1].st \in {"open", "closed"}
  BY <1>2, LotAssumption DEF Row, Qty, SharedInv, Opened
<1>4. \A a \in Actor : s[a].row = 1
  BY <1>1, SessionType
<1> QED BY <1>1, <1>2, <1>3, <1>4

\* The coins of the account and those in flight are no more than the row holds.
LEMMA SharedCoins ==
  ASSUME Shared, SharedInv
  PROVE  /\ InFlight("monitor") \in Nat /\ InFlight("operator") \in Nat
         /\ holding \in Nat
         /\ holding + InFlight("monitor") + InFlight("operator")
              <= IF rows[1].st = "open" THEN rows[1].qty ELSE 0
<1> DEFINE m == InFlight("monitor")
           c == InFlight("cycle")
           o == InFlight("operator")
<1>1. TypeOK /\ {"monitor", "cycle", "operator"} = Actor
  BY SharedFacts DEF Actor
<1>2. \A a \in Closer : s[a].exec \in Nat /\ s[a].pc # "opened"
  <2>1. \A a \in Closer : s[a].exec \in Qty
    BY <1>1, SessionType DEF Closer
  <2> QED BY <2>1, LotAssumption DEF SharedInv, Sharer, Shares, Qty
<1>3. m \in Nat /\ o \in Nat /\ c = 0
  BY <1>2 DEF InFlight, Closer, SharedInv, Opened
<1>4. holding \in Nat /\ fired \in Nat /\ gone \in Nat
  BY <1>1 DEF TypeOK, SharedInv, Opened
<1>5. Book = holding + gone + fired + m + c + o
  BY DEF Book
<1>6. Book = IF rows[1].st = "open" THEN rows[1].qty ELSE 0
  BY DEF SharedInv, SharedBook
<1> HIDE DEF m, c, o
<1>7. holding + m + o <= Book
  BY <1>3, <1>4, <1>5
<1> QED BY <1>3, <1>4, <1>6, <1>7 DEF m, o

\* So two sales are never in flight at once.
LEMMA OneSale ==
  ASSUME Shared, SharedInv, NEW a \in Closer, NEW b \in Closer, a # b,
         s[a].pc \in {"persist", "bank"}
  PROVE  s[b].pc \notin {"persist", "bank"}
<1>1. /\ \A x \in Closer : s[x].pc = "persist" => InFlight(x) = rows[1].qty
      /\ \A x \in Closer : s[x].pc = "bank" => x = "monitor" /\ InFlight(x) > 0
  BY DEF SharedInv, Sharer, Shares, Knows, InFlight, Closer
<1>2. rows[1].qty \in Nat /\ rows[1].qty > 0
  BY SharedFacts DEF SharedInv, Opened
<1>3. InFlight(a) + InFlight(b) <= rows[1].qty /\ InFlight(a) \in Nat /\ InFlight(b) \in Nat
  <2>1. (a = "monitor" /\ b = "operator") \/ (a = "operator" /\ b = "monitor")
    BY DEF Closer
  <2> DEFINE m == InFlight("monitor")
             o == InFlight("operator")
  <2>2. m \in Nat /\ o \in Nat /\ holding \in Nat
        /\ holding + m + o <= IF rows[1].st = "open" THEN rows[1].qty ELSE 0
    BY SharedCoins
  <2> HIDE DEF m, o
  <2>3. m + o <= rows[1].qty /\ o + m <= rows[1].qty
    BY <1>2, <2>2
  <2> QED BY <2>1, <2>2, <2>3 DEF m, o
<1>4. InFlight(a) > 0
  BY <1>1, <1>2
<1> SUFFICES ASSUME s[b].pc \in {"persist", "bank"} PROVE FALSE
  OBVIOUS
<1>5. InFlight(b) > 0 /\ (InFlight(a) = rows[1].qty \/ InFlight(b) = rows[1].qty)
  BY <1>1, <1>2
<1> QED BY <1>2, <1>3, <1>4, <1>5

-----------------------------------------------------------------------------
(* Steps that change no status, quantity or scale-out *)

\* A step of a closing job, or of no job, that keeps its session in line.
LEMMA SharerMoves ==
  ASSUME Shared, SharedInv, TypeInv', NEW a \in Closer, SameCore, SameOrders, Book' = Book,
         Sharer(a, s'[a], rows'[1]), \A b \in Actor \ {a} : s'[b] = s[b],
         rec' = rec, gone' >= 0
  PROVE  SharedInv'
<1>1. /\ TypeOK /\ TypeOK' /\ RowId = {1}
      /\ rows'[1].st = rows[1].st /\ rows'[1].qty = rows[1].qty
      /\ rows'[1].scaled = rows[1].scaled
  BY SharedFacts DEF SameCore, TypeInv
<1>2. s'["cycle"] = s["cycle"]
  BY DEF Closer, Actor
<1>3. Opened'
  BY <1>1, <1>2 DEF SharedInv, Opened
<1>4. ASSUME NEW b \in Closer PROVE Sharer(b, s'[b], rows'[1])
  <2>1. CASE b = a
    BY <2>1
  <2>2. CASE b # a
    <3>1. s'[b] = s[b] /\ Sharer(b, s[b], rows[1])
      BY <2>2 DEF SharedInv, Closer, Actor
    <3> QED BY <1>1, <3>1 DEF Sharer, Shares, Knows
  <2> QED BY <2>1, <2>2
<1>5. ClosingOrders' /\ ReadOrders'
  BY <1>1, <1>2, OrdersKept, SameRead DEF SharedInv, SameOrders
<1>6. SharedBook'
  BY <1>1 DEF SharedInv, SharedBook
<1> QED BY <1>3, <1>4, <1>5, <1>6 DEF SharedInv

\* The steps of a closing job that leave the row alone.
LEMMA SharerWaits ==
  ASSUME Shared, SharedInv, TypeInv', NEW a \in Closer,
         \/ a = "monitor" /\ (\/ MonitorLoad \/ MonitorSkips \/ MonitorExits \/ MonitorScales
                              \/ MonitorHolds \/ ScaleFails \/ BankFails \/ TrailHolds
                              \/ AmendCancels)
         \/ a = "operator" /\ OperatorClose
         \/ NothingToCancel(a) \/ CancelStop(a) \/ SellFails(a) \/ SellLost(a)
         \/ PersistFails(a) \/ PlaceStop(a)
  PROVE  SharedInv'
<1> DEFINE me == s[a]
           row == rows[1]
<1>0. /\ TypeOK /\ TypeOK' /\ a \in Actor /\ me \in Session /\ me.my \in Row /\ me.row = 1
      /\ row \in Row /\ row.qty \in Nat /\ RowId = {1}
      /\ holding \in Int /\ gone \in Int /\ fired \in Int /\ gone >= 0
      /\ me.exec \in Nat /\ me.my.qty \in Nat /\ Part[me.my.qty] \in Nat
  <2>1. TypeOK /\ TypeOK' /\ a \in Actor /\ me.row = 1 /\ row \in Row /\ row.qty \in Nat /\ RowId = {1}
    BY SharedFacts DEF TypeInv, Closer, Actor
  <2>2. /\ me \in Session /\ me.my \in Row /\ me.exec \in Qty /\ me.my.qty \in Qty
        /\ Part[me.my.qty] \in Qty
    BY <2>1, SessionType, PartType
  <2>3. me.exec \in Nat /\ me.my.qty \in Nat /\ Part[me.my.qty] \in Nat
    BY <2>2, LotAssumption DEF Qty
  <2>4. holding \in Int /\ gone \in Int /\ fired \in Int
    BY <2>1, FlightType
  <2> QED BY <2>1, <2>2, <2>3, <2>4 DEF SharedInv, Opened
<1>a. Sharer(a, me, row)
  BY DEF SharedInv
<1>b. /\ me.pc \notin {"persist", "bank", "opened"} => InFlight(a) = 0
      /\ me.pc \in {"persist", "bank"} => InFlight(a) = me.exec
  BY DEF InFlight
<1> USE DEF tables, exchange, environment, history
<1>c. rows' = rows /\ orders' = orders /\ rec' = rec /\ fired' = fired
  BY DEF MonitorLoad, MonitorSkips, MonitorExits, MonitorScales, MonitorHolds, ScaleFails,
         BankFails, TrailHolds, AmendCancels, OperatorClose, NothingToCancel, CancelStop,
         SellFails, SellLost, PersistFails, PlaceStop
<1>d. SameCore /\ SameOrders /\ rows'[1] = row
  BY <1>c DEF SameCore, SameOrders
\* What is left to show of each step: the session stays in line, and coins are conserved.
<1>e. SUFFICES /\ \A b \in Actor \ {a} : s'[b] = s[b]
               /\ Sharer(a, s'[a], row) /\ s'[a].pc \notin {"persist", "bank", "opened"}
               /\ holding' + gone' + fired' = holding + gone + fired + InFlight(a)
               /\ gone' >= 0
  <2>1. ASSUME s'[a].pc \notin {"persist", "bank", "opened"},
               holding' + gone' + fired' = holding + gone + fired + InFlight(a)
        PROVE  holding' + gone' + fired' + InFlight(a)' = holding + gone + fired + InFlight(a)
    <3>1. InFlight(a)' = 0
      BY <2>1 DEF InFlight
    <3>2. holding' \in Int /\ gone' \in Int /\ fired' \in Int
      BY <1>0 DEF TypeOK
    <3> QED BY <2>1, <3>1, <3>2
  <2> QED BY <1>0, <1>c, <1>d, <2>1, BookMoves, SharerMoves
<1>1. CASE (a = "monitor" /\ MonitorLoad) \/ (a = "operator" /\ OperatorClose)
  <2>1. PICK r \in OpenRows, pc \in {"decide", "cancel"} :
          s' = [s EXCEPT ![a] = [Idle EXCEPT !.pc = pc, !.row = r, !.my = rows[r]]]
    BY <1>1 DEF MonitorLoad, OperatorClose
  <2> DEFINE x == [Idle EXCEPT !.pc = pc, !.row = r, !.my = rows[r]]
  <2>2. x.pc = pc /\ x.my = row /\ row.st = "open"
    BY <1>0 DEF Idle, OpenRows
  <2>3. s' = [s EXCEPT ![a] = x]
    BY <2>1
  <2> HIDE DEF x
  <2>4. s'[a] = x /\ \A b \in Actor \ {a} : s'[b] = s[b]
    BY <1>0, <2>3 DEF TypeOK
  <2>5. Sharer(a, x, row)
    BY <1>0, <2>2 DEF Sharer, Shares, Knows
  <2>6. me.pc = "idle" /\ holding' = holding /\ gone' = gone
    BY <1>1 DEF MonitorLoad, OperatorClose
  <2>7. holding' + gone' + fired' = holding + gone + fired + InFlight(a)
    BY <1>0, <1>b, <1>c, <2>6
  <2> QED BY <1>0, <2>2, <2>4, <2>5, <2>6, <2>7
<1>2. CASE a = "monitor" /\ (MonitorSkips \/ ScaleFails \/ BankFails \/ TrailHolds)
  <2>1. Leave(a)
    BY <1>2 DEF MonitorSkips, ScaleFails, BankFails, TrailHolds
  <2>2. s'[a].pc = "idle" /\ \A b \in Actor \ {a} : s'[b] = s[b]
    BY <1>0, <2>1, LeaveEffect
  <2>3. Sharer(a, s'[a], row)
    BY <2>2 DEF Sharer, Shares, Knows
  <2>4. holding' + gone' + fired' = holding + gone + fired + InFlight(a) /\ gone' >= 0
    BY <1>0, <1>2, <1>b, <1>c DEF MonitorSkips, ScaleFails, BankFails, TrailHolds
  <2> QED BY <2>2, <2>3, <2>4
<1>3. CASE \/ a = "monitor" /\ (MonitorExits \/ MonitorScales \/ MonitorHolds \/ AmendCancels)
           \/ NothingToCancel(a) \/ CancelStop(a)
  <2>1. PICK pc \in {"cancel", "scale", "trail", "place", "replace", "sell", "forget"} :
          /\ Goto(a, pc) /\ me.pc \in {"decide", "cancel", "amend"}
          /\ pc = "scale" => a = "monitor" /\ ~me.my.scaled /\ Part[me.my.qty] > 0
    BY <1>3 DEF MonitorExits, MonitorScales, MonitorHolds, AmendCancels, NothingToCancel,
                CancelStop
  <2>2. pc \in PC
    BY DEF PC
  <2>3. s'[a].pc = pc /\ s'[a].my = me.my /\ \A b \in Actor \ {a} : s'[b] = s[b]
    BY <1>0, <2>1, <2>2, GotoEffect
  <2>4. Sharer(a, s'[a], row)
    BY <1>a, <2>1, <2>3 DEF Sharer, Shares, Knows
  <2>5. holding' = holding /\ gone' = gone
    BY <1>3 DEF MonitorExits, MonitorScales, MonitorHolds, AmendCancels, NothingToCancel,
                CancelStop
  <2>6. holding' + gone' + fired' = holding + gone + fired + InFlight(a)
    BY <1>0, <1>b, <1>c, <2>1, <2>5
  <2> QED BY <1>0, <2>3, <2>4, <2>5, <2>6
<1>4. CASE SellFails(a) \/ SellLost(a) \/ PersistFails(a)
  <2>1. PICK my \in {me.my, row} :
          RetryWith(a, my) /\ me.pc \in {"sell", "persist"} /\ my.st = "open"
          /\ (my = row => row.st = "open")
    BY <1>0, <1>4, <1>a DEF SellFails, SellLost, PersistFails, Sharer, Shares
  <2>2. /\ s'[a].pc \in {"sell", "place", "idle"}
        /\ s'[a].pc # "idle" => s'[a].my = my
        /\ \A b \in Actor \ {a} : s'[b] = s[b]
    BY <1>0, <2>1, RetryEffect
  <2>3. Sharer(a, s'[a], row)
    BY <1>0, <1>a, <2>1, <2>2 DEF Sharer, Shares, Knows
  <2>4. holding' + gone' + fired' = holding + gone + fired + InFlight(a) /\ gone' >= 0
    BY <1>0, <1>4, <1>b, <1>c DEF SellFails, SellLost, PersistFails
  <2> QED BY <2>2, <2>3, <2>4
<1>5. CASE PlaceStop(a)
  <2> DEFINE x == [me EXCEPT !.pc = "placed", !.sid = FreshId]
  <2>1. /\ s' = [s EXCEPT ![a] = x] /\ me.pc \in {"place", "replace"}
        /\ holding' = holding /\ gone' = gone
    BY <1>5 DEF PlaceStop
  <2>2. x.pc = "placed" /\ x.my = me.my
    BY <1>0 DEF Session
  <2> HIDE DEF x
  <2>3. s'[a] = x /\ \A b \in Actor \ {a} : s'[b] = s[b]
    BY <1>0, <2>1 DEF TypeOK
  <2>4. Sharer(a, s'[a], row)
    BY <1>a, <2>1, <2>2, <2>3 DEF Sharer, Shares, Knows
  <2>5. holding' + gone' + fired' = holding + gone + fired + InFlight(a)
    BY <1>0, <1>b, <1>c, <2>1
  <2> QED BY <1>0, <2>1, <2>2, <2>3, <2>4, <2>5
<1> QED BY <1>1, <1>2, <1>3, <1>4, <1>5

\* The commits of a closing job that the books do not look at.
LEMMA SharerWrites ==
  ASSUME Shared, SharedInv, TypeInv', NEW a \in Closer,
         \/ a = "monitor" /\ TrailRaises
         \/ ForgetStop(a) \/ PlaceFails(a) \/ TrackStop(a)
  PROVE  SharedInv'
<1> DEFINE me == s[a]
<1>0. /\ TypeOK /\ TypeOK' /\ a \in Actor /\ me \in Session /\ me.my \in Row
      /\ me.sid \in StopId \cup {NoStop} /\ 1 \in RowId
  BY SharedFacts, SessionType DEF TypeInv, Closer, Actor
<1> USE DEF exchange, environment, history
<1>1. PICK my \in Row, next \in Session :
        /\ Commit(a, my, next)
        /\ my.st = me.my.st /\ my.qty = me.my.qty /\ my.scaled = me.my.scaled
        /\ me.pc \notin {"idle", "persist", "bank", "opened"}
        /\ next.pc \in {"idle", "sell", "amend", "trail"}
  <2>1. CASE a = "monitor" /\ TrailRaises
    <3> DEFINE next == [me EXCEPT !.pc = "amend", !.then = "idle"]
    <3>1. PICK my \in Raised(me.my) : Commit(a, my, next) /\ me.pc = "trail"
      BY <2>1 DEF TrailRaises
    <3>2. 1 \in Level
      BY BoundsAssumption DEF Level
    <3>3. my \in Row /\ my.st = me.my.st /\ my.qty = me.my.qty /\ my.scaled = me.my.scaled
      <4>1. PICK l \in Level, b \in BOOLEAN :
              my = [me.my EXCEPT !.level = l] \/ my = [me.my EXCEPT !.level = l, !.be = b]
        BY <3>1, <3>2 DEF Raised
      <4> QED BY <1>0, <4>1 DEF Row
    <3>4. next \in Session /\ next.pc = "amend"
      BY <1>0 DEF Session, PC
    <3> HIDE DEF next
    <3> QED BY <3>1, <3>3, <3>4
  <2>2. CASE ForgetStop(a)
    <3> DEFINE my == [me.my EXCEPT !.stop = NoStop]
               next == [me EXCEPT !.pc = "sell"]
    <3>1. Commit(a, my, next) /\ me.pc = "forget"
      BY <2>2 DEF ForgetStop
    <3>2. my \in Row /\ my.st = me.my.st /\ my.qty = me.my.qty /\ my.scaled = me.my.scaled
      BY <1>0 DEF Row
    <3>3. next \in Session /\ next.pc = "sell"
      BY <1>0 DEF Session, PC
    <3> HIDE DEF my, next
    <3> QED BY <3>1, <3>2, <3>3
  <2>3. CASE PlaceFails(a) \/ TrackStop(a)
    <3>1. PICK my \in {[me.my EXCEPT !.stop = NoStop], [me.my EXCEPT !.stop = me.sid]},
               next \in {Idle, [me EXCEPT !.pc = me.then], [me EXCEPT !.pc = me.then, !.sid = NoStop]} :
            /\ Commit(a, my, next) /\ me.pc \in {"place", "replace", "placed"}
            /\ next # Idle => me.then # "idle"
      BY <2>3 DEF PlaceFails, TrackStop
    <3>2. my \in Row /\ my.st = me.my.st /\ my.qty = me.my.qty /\ my.scaled = me.my.scaled
      BY <1>0 DEF Row
    <3>3. next \in Session /\ next.pc \in {"idle", "trail"}
      BY <1>0, <3>1, ThenNext
    <3> QED BY <3>1, <3>2, <3>3
  <2> QED BY <2>1, <2>2, <2>3
<1>2. /\ s'[a].pc = next.pc /\ s'[a].my = my
      /\ \A b \in Actor \ {a} : s'[b] = s[b]
  BY <1>0, <1>1, CommitEffect
<1>3. SameCore
  BY <1>0, <1>1, CommitCore
<1>4. /\ orders' = orders /\ rec' = rec
      /\ holding' = holding /\ gone' = gone /\ fired' = fired
  BY DEF TrailRaises, ForgetStop, PlaceFails, TrackStop
<1>5. Book' = Book
  BY <1>0, <1>1, <1>2, <1>4, NoFlight
<1>6. Sharer(a, s'[a], rows'[1])
  <2>1. Sharer(a, me, rows[1])
    BY DEF SharedInv
  <2>2. /\ rows'[1].st = rows[1].st /\ rows'[1].qty = rows[1].qty
        /\ rows'[1].scaled = rows[1].scaled
    BY <1>0, <1>3 DEF SameCore
  <2> QED BY <1>1, <1>2, <2>1, <2>2 DEF Sharer, Shares, Knows
<1>7. SameOrders /\ gone' >= 0
  BY <1>4 DEF SameOrders, SharedInv, Opened
<1> QED BY <1>2, <1>3, <1>4, <1>5, <1>6, <1>7, SharerMoves

\* A sale takes place only while the account holds that much, so the row is open still and
\* nothing else is in flight: a copy that is stale sells nothing twice.
LEMMA SharerSells ==
  ASSUME Shared, SharedInv, TypeInv', NEW a \in Closer,
         (a = "monitor" /\ ScaleSell) \/ Sell(a)
  PROVE  SharedInv'
<1> DEFINE me == s[a]
           row == rows[1]
<1>0. /\ TypeOK /\ TypeOK' /\ a \in Actor /\ me \in Session /\ me.my \in Row
      /\ me.my.qty \in Qty /\ Part[me.my.qty] \in Qty
      /\ row.qty \in Nat /\ row.qty > 0 /\ row.st \in {"open", "closed"}
  <2>1. TypeOK /\ TypeOK' /\ a \in Actor /\ row.qty \in Nat /\ row.st \in {"open", "closed"}
    BY SharedFacts DEF TypeInv, Closer, Actor
  <2>2. me \in Session /\ me.my \in Row /\ me.my.qty \in Qty /\ Part[me.my.qty] \in Qty
    BY <2>1, SessionType, PartType
  <2> QED BY <2>1, <2>2 DEF SharedInv, Opened
<1>a. Sharer(a, me, row)
  BY DEF SharedInv
<1>1. PICK q \in Qty, pc \in {"bank", "persist"} :
        /\ MarketSell(a, q, pc)
        /\ IF pc = "bank" THEN a = "monitor" /\ q = Part[me.my.qty] /\ me.pc = "scale"
                          ELSE q = me.my.qty /\ me.pc = "sell"
        /\ UNCHANGED <<rows, orders, gone, fired, rec>>
  <2>1. CASE a = "monitor" /\ ScaleSell
    BY <1>0, <2>1 DEF ScaleSell, tables, exchange, environment, history
  <2>2. CASE Sell(a)
    BY <1>0, <2>2 DEF Sell, tables, exchange, environment, history
  <2> QED BY <2>1, <2>2
<1>2. /\ holding' = holding - s'[a].exec
      /\ s'[a].pc = pc /\ s'[a].fill = q /\ s'[a].exec = q /\ s'[a].my = me.my
      /\ \A b \in Actor \ {a} : s'[b] = s[b]
  <2>1. pc \in PC
    BY DEF PC
  <2> QED BY <1>0, <1>1, <2>1, MarketSellType DEF Shared
<1>3. q \in Nat /\ me.my.qty \in Nat /\ holding >= q
  BY <1>0, <1>1, LotAssumption DEF Qty, MarketSell
<1>4. holding \in Nat /\ holding <= IF row.st = "open" THEN row.qty ELSE 0
  <2> DEFINE m == InFlight("monitor")
             o == InFlight("operator")
  <2>1. /\ m \in Nat /\ o \in Nat /\ holding \in Nat
        /\ holding + m + o <= IF row.st = "open" THEN row.qty ELSE 0
    BY SharedCoins
  <2> HIDE DEF m, o
  <2> QED BY <1>0, <2>1
<1>5. row.st = "open" /\ (pc = "persist" => me.my.qty = row.qty)
  <2>1. CASE pc = "bank"
    <3>1. q > 0
      BY <1>a, <1>1, <2>1 DEF Sharer, Shares
    <3> QED BY <1>0, <1>3, <1>4, <2>1, <3>1
  <2>2. CASE pc = "persist"
    <3>1. q = me.my.qty /\ me.my.qty >= row.qty
      BY <1>a, <1>1, <2>2 DEF Sharer, Shares
    <3> QED BY <1>0, <1>3, <1>4, <3>1
  <2> QED BY <2>1, <2>2
<1>6. Sharer(a, s'[a], row)
  BY <1>a, <1>1, <1>2, <1>5 DEF Sharer, Shares, Knows
<1>7. Book' = Book
  <2>1. InFlight(a) = 0 /\ InFlight(a)' = q
    BY <1>1, <1>2 DEF InFlight
  <2>2. holding \in Int /\ gone \in Int /\ fired \in Int
    BY <1>0, FlightType
  <2>3. holding' + gone' + fired' + InFlight(a)' = holding + gone + fired + InFlight(a)
    BY <1>1, <1>2, <1>3, <2>1, <2>2
  <2> QED BY <1>0, <1>2, <2>3, BookMoves
<1>8. SameCore /\ SameOrders /\ rows'[1] = row /\ gone' >= 0
  BY <1>1 DEF SameCore, SameOrders, SharedInv, Opened
<1> QED BY <1>1, <1>2, <1>6, <1>7, <1>8, SharerMoves

-----------------------------------------------------------------------------
(* A sale is booked *)

\* The row loses what was sold, and its status when that was all.
LEMMA SharerBooks ==
  ASSUME Shared, SharedInv, TypeInv', NEW a \in Closer,
         s[a].pc \in {"bank", "persist"}, Record(a),
         UNCHANGED <<rec, holding, gone, fired>>,
         \A b \in Actor \ {a} : s'[b] = s[b],
         s'[a].pc \notin {"persist", "bank", "opened"},
         Sharer(a, s'[a], rows'[1]),
         \/ /\ rows'[1].st = "closed" /\ s[a].exec = rows[1].qty
            /\ rows'[1].qty = rows[1].qty /\ rows'[1].scaled = rows[1].scaled
         \/ /\ rows'[1].st = "open" /\ rows'[1].qty = rows[1].qty - s[a].exec
            /\ a = "monitor" /\ ~rows[1].scaled /\ rows'[1].scaled
            /\ 2 * s[a].exec < rows[1].qty
  PROVE  SharedInv'
<1> DEFINE row == rows[1]
           q == s[a].exec
<1>0. /\ TypeOK /\ TypeOK' /\ a \in Actor /\ RowId = {1} /\ row.qty \in Nat /\ row.qty > 0
      /\ q \in Nat /\ row.st = "open"
  <2>1. TypeOK /\ TypeOK' /\ a \in Actor /\ RowId = {1} /\ row.qty \in Nat
    BY SharedFacts DEF TypeInv, Closer, Actor
  <2>2. q \in Nat
    BY <2>1, SessionType, LotAssumption DEF Qty
  <2>3. row.st = "open" /\ row.qty > 0
    BY DEF SharedInv, Sharer, Shares, Opened
  <2> QED BY <2>1, <2>2, <2>3
<1>1. rows'[1].qty \in Nat /\ rows'[1].qty > 0 /\ rows'[1].qty <= row.qty
  <2>1. CASE rows'[1].st = "closed"
    <3>1. rows'[1].qty = row.qty
      BY <2>1
    <3> QED BY <1>0, <3>1
  <2>2. CASE rows'[1].st = "open"
    <3>1. rows'[1].qty = row.qty - q /\ 2 * q < row.qty
      BY <2>2
    <3> HIDE DEF q
    <3>2. row.qty - q \in Nat /\ row.qty - q > 0 /\ row.qty - q <= row.qty
      BY <1>0, <3>1
    <3> QED BY <3>1, <3>2
  <2> QED BY <2>1, <2>2
<1>2. Opened'
  <2>1. s'["cycle"] = s["cycle"]
    BY DEF Closer, Actor
  <2> QED BY <1>1, <2>1 DEF SharedInv, Opened
<1>3. ASSUME NEW b \in Closer PROVE Sharer(b, s'[b], rows'[1])
  <2>1. CASE b = a
    BY <2>1
  <2>2. CASE b # a
    <3>1. s'[b] = s[b] /\ Sharer(b, s[b], row) /\ s[b].pc \notin {"persist", "bank"}
      BY <2>2, OneSale DEF SharedInv, Closer, Actor
    <3>2. s[b].my.qty \in Nat
      BY SessionType, <1>0, LotAssumption DEF Closer, Actor, Qty
    <3>3. Shares(s[b], rows'[1])
      BY <1>0, <1>1, <3>1, <3>2 DEF Sharer, Shares
    <3>4. Knows(b, s[b], rows'[1])
      BY <2>2, <3>1 DEF Sharer, Knows, Closer
    <3> QED BY <3>1, <3>3, <3>4 DEF Sharer
  <2> QED BY <2>1, <2>2
<1>4. Book' = Book - q
  <2> DEFINE oo == IF a = "monitor" THEN "operator" ELSE "monitor"
             x == InFlight(oo)
             c == InFlight("cycle")
             h == holding + gone + fired
  <2>1. InFlight(a) = q /\ InFlight(a)' = 0
    BY DEF InFlight
  <2>2. x' = x /\ c' = c /\ h' = h
    BY DEF InFlight, Closer, Actor
  <2>3. h \in Int /\ x \in Int /\ c \in Int
    BY <1>0, FlightType DEF Closer, Actor
  <2>4. Book = h + q + c + x /\ Book' = h + 0 + c + x
    <3>1. CASE a = "monitor"
      BY <2>1, <2>2, <3>1 DEF Book
    <3>2. CASE a = "operator"
      <4> DEFINE m == InFlight("monitor")
                 o == InFlight("operator")
      <4>1. Book = h + m + c + o /\ Book' = h' + m' + c' + o'
        BY DEF Book
      <4>2. m = x /\ m' = x /\ o = q /\ o' = 0
        BY <2>1, <2>2, <3>2
      <4> HIDE DEF m, o, h, c, x
      <4> QED BY <1>0, <2>2, <2>3, <4>1, <4>2
    <3> QED BY <3>1, <3>2 DEF Closer
  <2> HIDE DEF h, c, x
  <2> QED BY <1>0, <2>3, <2>4
<1>5. SharedBook'
  <2>1. Book = row.qty
    BY <1>0 DEF SharedInv, SharedBook
  <2> QED BY <1>0, <1>4, <2>1 DEF SharedBook
<1>6. /\ Len(orders') = Len(orders) + 1 /\ Len(orders) \in Nat
      /\ \A k \in 1..Len(orders) : orders'[k] = orders[k]
      /\ orders'[Len(orders) + 1].row = 1 /\ orders'[Len(orders) + 1].exec = q
  BY <1>0, SharedFacts, Recorded
<1>7. ReadOrders'
  <2>1. ReadOrders /\ s'["cycle"] = s["cycle"]
    BY DEF SharedInv, Closer, Actor
  <2> QED BY <1>0, <1>6, <2>1, SameRead
<1>8. ClosingOrders'
  <2> SUFFICES ASSUME NEW k \in 1..Len(orders'), ~orders'[k].entry, rows'[1].st = "open"
               PROVE  orders'[k].exec < rows'[1].qty
    <3>1. ASSUME NEW k \in 1..Len(orders') PROVE orders'[k].row = 1
      <4>1. orders'[k] \in Order
        BY <1>0 DEF TypeOK
      <4> QED BY <1>0, <4>1 DEF Order
    <3> QED BY <3>1 DEF ClosingOrders
  <2>1. CASE k = Len(orders) + 1
    BY <1>0, <1>6, <2>1
  <2>2. CASE k \in 1..Len(orders)
    <3>1. orders'[k] = orders[k] /\ ~orders[k].entry /\ orders[k] \in Order
      BY <1>0, <1>6, <2>2 DEF TypeOK
    <3>2. orders[k].row = 1
      BY <1>0, <3>1 DEF Order
    <3> QED BY <1>0, <2>2, <3>1, <3>2 DEF SharedInv, ClosingOrders
  <2> QED BY <1>6, <2>1, <2>2
<1> QED BY <1>2, <1>3, <1>5, <1>7, <1>8 DEF SharedInv

LEMMA SharerRecords ==
  ASSUME Shared, SharedInv, TypeInv', NEW a \in Closer,
         (a = "monitor" /\ Bank) \/ PersistClose(a)
  PROVE  SharedInv'
<1> DEFINE me == s[a]
           row == rows[1]
<1>0. /\ TypeOK /\ a \in Actor /\ me \in Session /\ me.my \in Row /\ me.row = 1
      /\ rows \in [RowId -> Row] /\ row \in Row /\ RowId = {1}
      /\ me.my.qty \in Qty /\ me.fill \in Qty /\ me.my.pnl \in Nat /\ me.my.level \in Level
  <2>1. /\ TypeOK /\ a \in Actor /\ me.row = 1 /\ rows \in [RowId -> Row] /\ row \in Row
        /\ RowId = {1}
    BY SharedFacts DEF Closer, Actor
  <2> QED BY <2>1, SessionType
<1>a. Sharer(a, me, row)
  BY DEF SharedInv
<1>b. ASSUME NEW my \in Row
      PROVE  /\ row.st = me.my.st => Merge(row, me.my, my).st = my.st
             /\ row.qty = me.my.qty => Merge(row, me.my, my).qty = my.qty
             /\ row.scaled = me.my.scaled => Merge(row, me.my, my).scaled = my.scaled
             /\ my.qty = me.my.qty => Merge(row, me.my, my).qty = row.qty
             /\ my.scaled = me.my.scaled => Merge(row, me.my, my).scaled = row.scaled
  BY DEF Merge, Column
<1> USE DEF exchange, environment, history
<1>1. CASE a = "monitor" /\ Bank
  <2> DEFINE banked == [me.my EXCEPT !.qty = me.my.qty - me.fill, !.scaled = TRUE,
                                     !.pnl = me.my.pnl + me.fill,
                                     !.level = IF me.my.be THEN me.my.level ELSE 1, !.be = TRUE]
             next == [Idle EXCEPT !.pc = "amend", !.row = me.row, !.then = "trail"]
  <2>1. /\ Commit(a, banked, next) /\ Record(a) /\ me.pc = "bank"
        /\ UNCHANGED <<holding, gone, fired, rec>>
    BY <1>1 DEF Bank
  <2>2. /\ me.my.st = "open" /\ row.st = "open" /\ me.fill = Part[me.my.qty]
        /\ me.exec = me.fill /\ me.my.qty = row.qty /\ me.my.scaled = row.scaled
        /\ ~me.my.scaled /\ Part[me.my.qty] > 0
    BY <1>1, <1>a, <2>1 DEF Sharer, Shares, Knows
  <2>3. /\ 2 * me.exec < me.my.qty /\ me.my.qty - me.fill \in Qty
        /\ me.my.pnl + me.fill \in Nat /\ 1 \in Level
    <3>1. me.my.qty \in 1..Lot
      BY <1>0, <2>2, PartAssumption, LotAssumption DEF Qty
    <3>2. 2 * me.exec < me.my.qty
      BY <2>2, <3>1 DEF Shared
    <3> QED BY <1>0, <2>2, <3>1, <3>2, LotAssumption, BoundsAssumption DEF Qty, Level
  <2>4. /\ banked \in Row /\ banked.st = "open" /\ banked.qty = me.my.qty - me.exec
        /\ banked.scaled = TRUE
    BY <1>0, <2>2, <2>3 DEF Row
  <2>5. next \in Session /\ next.pc = "amend"
    BY <1>0, IdleWith DEF Idle, PC
  <2> HIDE DEF banked, next
  <2>6. /\ s'[a].pc = "amend" /\ s'[a].my = banked
        /\ \A b \in Actor \ {a} : s'[b] = s[b]
        /\ rows'[1] = Merge(row, me.my, banked)
    BY <1>0, <2>1, <2>4, <2>5, CommitEffect
  <2>7. /\ rows'[1].st = "open" /\ rows'[1].qty = me.my.qty - me.exec
        /\ rows'[1].scaled = TRUE
    BY <1>b, <2>2, <2>4, <2>6
  <2>8. me.my.qty - me.exec \in Nat
    BY <2>2, <2>3, LotAssumption DEF Qty
  <2>9. Sharer(a, s'[a], rows'[1])
    <3>1. banked.qty = rows'[1].qty /\ banked.qty >= rows'[1].qty
      BY <2>4, <2>7, <2>8
    <3>2. banked.scaled = rows'[1].scaled /\ banked.st = "open"
      BY <2>4, <2>7
    <3>3. Shares(s'[a], rows'[1])
      BY <2>6, <3>1, <3>2 DEF Shares
    <3>4. Knows(a, s'[a], rows'[1])
      BY <2>6, <3>1, <3>2 DEF Knows
    <3> QED BY <3>3, <3>4 DEF Sharer
  <2>10. /\ rows'[1].qty = row.qty - me.exec /\ ~row.scaled /\ rows'[1].scaled
         /\ 2 * me.exec < row.qty
    BY <2>2, <2>3, <2>7
  <2> QED BY <1>1, <2>1, <2>6, <2>7, <2>9, <2>10, SharerBooks
<1>2. CASE PersistClose(a)
  <2> DEFINE my == AfterClose(me.my, me.fill)
  <2>1. /\ rows' = [rows EXCEPT ![me.row] = Merge(rows[me.row], me.my, my)]
        /\ s' = [s EXCEPT ![a] =
                   IF my.st = "open" /\ my.stop = NoStop
                   THEN [Idle EXCEPT !.pc = "place", !.row = me.row, !.my = my] ELSE Idle]
        /\ Record(a) /\ me.pc = "persist"
        /\ UNCHANGED <<holding, gone, fired, rec>>
    BY <1>2 DEF PersistClose
  <2>2. /\ me.my.st = "open" /\ row.st = "open" /\ me.my.qty = row.qty
        /\ me.fill = row.qty /\ me.exec = row.qty
    BY <1>a, <2>1 DEF Sharer, Shares
  <2>3. my = [me.my EXCEPT !.st = "closed", !.pnl = me.my.pnl + me.fill]
    BY <1>0, <2>2, LotAssumption DEF AfterClose, Qty
  <2>4. /\ my \in Row /\ my.st = "closed" /\ my.qty = me.my.qty /\ my.scaled = me.my.scaled
    <3>1. me.my.pnl + me.fill \in Nat
      BY <1>0, LotAssumption DEF Qty
    <3> QED BY <1>0, <2>3, <3>1 DEF Row
  <2> HIDE DEF my
  <2>5. s'[a] = Idle /\ \A b \in Actor \ {a} : s'[b] = s[b]
    BY <1>0, <2>1, <2>4 DEF TypeOK
  <2>6. rows'[1] = Merge(row, me.my, my)
    BY <1>0, <2>1
  <2>7. rows'[1].st = "closed" /\ rows'[1].qty = row.qty /\ rows'[1].scaled = row.scaled
    BY <1>b, <2>2, <2>4, <2>6
  <2>8. s'[a].pc = "idle"
    BY <2>5, IdleWith
  <2>9. Sharer(a, s'[a], rows'[1])
    BY <2>8 DEF Sharer, Shares, Knows
  <2> QED BY <2>1, <2>2, <2>5, <2>7, <2>8, <2>9, SharerBooks
<1> QED BY <1>1, <1>2

-----------------------------------------------------------------------------
(* The cycle, the exchange and the crashes *)

\* A step that leaves the closing sessions alone, or idles them.
LEMMA SharedQuiet ==
  ASSUME Shared, SharedInv, TypeInv', SameCore, SameOrders, Book' = Book,
         \A a \in Closer : s'[a] = s[a] \/ s'[a] = Idle,
         gone' >= 0, s'["cycle"].pc \in {"idle", "lookup", "recon", "enter"},
         ReadOrders'
  PROVE  SharedInv'
<1>1. /\ TypeOK /\ TypeOK' /\ RowId = {1}
      /\ rows'[1].st = rows[1].st /\ rows'[1].qty = rows[1].qty
      /\ rows'[1].scaled = rows[1].scaled
  BY SharedFacts DEF SameCore, TypeInv
<1>2. Opened'
  BY <1>1 DEF SharedInv, Opened
<1>3. ASSUME NEW a \in Closer PROVE Sharer(a, s'[a], rows'[1])
  <2>1. CASE s'[a] = s[a]
    <3>1. Sharer(a, s[a], rows[1])
      BY DEF SharedInv
    <3> QED BY <1>1, <2>1, <3>1 DEF Sharer, Shares, Knows
  <2>2. CASE s'[a] = Idle
    BY <2>2, IdleWith DEF Sharer, Shares, Knows
  <2> QED BY <2>1, <2>2
<1>4. ClosingOrders'
  BY <1>1, OrdersKept DEF SharedInv
<1>5. SharedBook'
  BY <1>1 DEF SharedInv, SharedBook
<1> QED BY <1>2, <1>3, <1>4, <1>5 DEF SharedInv

\* The cycle reconciles and, as the only row is used, neither enters nor places a stop.
LEMMA SharedCycle ==
  ASSUME Shared, SharedInv, TypeInv', CycleStep
  PROVE  SharedInv'
<1> DEFINE c == s["cycle"]
<1>0. /\ TypeOK /\ TypeOK' /\ "cycle" \in Actor /\ RowId = {1} /\ rows[1].st # "none"
      /\ c.pc \in {"idle", "lookup", "recon", "enter"} /\ gone >= 0
      /\ ClosingOrders /\ ReadOrders
  BY SharedFacts DEF SharedInv, Opened, TypeInv, Actor
<1> USE DEF tables, exchange, environment, history
<1>1. PICK pc \in {"idle", "lookup", "recon", "enter"} :
        /\ Goto("cycle", pc) \/ (pc = "idle" /\ Leave("cycle"))
        /\ holding' = holding /\ gone' = gone /\ fired' = fired
        /\ pc = "recon" => ReconcileLooks
        /\ ReconcileCommits \/ (rows' = rows /\ orders' = orders)
  <2>1. ~Enter
    BY <1>0 DEF Enter
  <2>2. ~RecordEntry /\ ~RecordEntryFails
    BY <1>0 DEF RecordEntry, RecordEntryFails
  <2>3. ~StopStep("cycle")
    BY <1>0 DEF StopStep, PlaceStop, PlaceFails, TrackStop
  <2>4. ReconcileStarts \/ ReconcileLooks \/ ReconcileCommits \/ CycleEnds
    BY <2>1, <2>2, <2>3 DEF CycleStep
  <2> QED BY <2>4 DEF ReconcileStarts, ReconcileLooks, ReconcileCommits, CycleEnds
<1>2. /\ s'["cycle"].pc = pc /\ \A b \in Actor \ {"cycle"} : s'[b] = s[b]
  <2>1. pc \in PC
    BY DEF PC
  <2> QED BY <1>0, <1>1, <2>1, GotoEffect, LeaveEffect
<1>3. SameCore /\ SameOrders
  BY <1>0, <1>1, ReconcileWrites DEF SameCore, SameOrders
<1>4. Book' = Book
  BY <1>0, <1>1, <1>2, NoFlight
<1>5. ReadOrders'
  <2>1. CASE pc = "recon"
    BY <1>0, <1>1, <2>1, LooksRead
  <2>2. CASE pc # "recon"
    BY <1>2, <2>2 DEF ReadOrders
  <2> QED BY <2>1, <2>2
<1>6. \A a \in Closer : s'[a] = s[a]
  BY <1>2 DEF Closer, Actor
<1> QED BY <1>0, <1>1, <1>2, <1>3, <1>4, <1>5, <1>6, SharedQuiet

LEMMA SharedOutside ==
  ASSUME Shared, SharedInv, TypeInv',
         \/ ExchangeStep \/ Resent \/ UNCHANGED vars
         \/ \E dead \in Processes : Crash(dead)
  PROVE  SharedInv'
<1>0. /\ TypeOK /\ TypeOK' /\ {"monitor", "cycle", "operator"} = Actor /\ gone \in Int
      /\ gone >= 0 /\ s["cycle"].pc \in {"idle", "lookup", "recon", "enter"}
  BY SharedFacts DEF SharedInv, Opened, TypeInv, TypeOK, Actor
<1>1. CASE ExchangeStep \/ UNCHANGED vars
  <2>1. UNCHANGED <<rows, orders, s, rec, gone>>
    BY <1>1 DEF ExchangeStep, PriceExits, StopFires, vars, tables, history
  <2>2. SameCore /\ SameOrders /\ ReadOrders'
    BY <2>1 DEF SameCore, SameOrders, SharedInv, ReadOrders
  <2> QED BY <1>0, <1>1, <2>1, <2>2, ExchangeBook, SharedQuiet
<1>2. ASSUME NEW dead \in Processes, Crash(dead) PROVE SharedInv'
  <2> DEFINE unrecorded(a) == IF a \in dead THEN InFlight(a) ELSE 0
             um == unrecorded("monitor")
             uc == unrecorded("cycle")
             uo == unrecorded("operator")
  <2>1. /\ s' = [a \in Actor |-> IF a \in dead THEN Idle ELSE s[a]]
        /\ rec' = IF "cycle" \in dead THEN NoRec ELSE rec
        /\ gone' = gone + um + uc + uo
        /\ rows' = rows /\ orders' = orders
    BY <1>2 DEF Crash, tables
  <2>2. \A a \in Actor : s'[a] = IF a \in dead THEN Idle ELSE s[a]
    BY <2>1
  <2>3. SameCore /\ SameOrders
    BY <2>1 DEF SameCore, SameOrders
  <2>4. Book' = Book
    BY <1>0, <1>2, CrashBook
  <2>5. gone' >= 0
    <3>1. um \in Nat /\ uo \in Nat
      BY SharedCoins
    <3>2. uc = 0
      BY <1>0 DEF InFlight
    <3> HIDE DEF um, uc, uo
    <3> QED BY <1>0, <2>1, <3>1, <3>2
  <2>6. s'["cycle"].pc \in {"idle", "lookup", "recon", "enter"}
    BY <1>0, <2>2, IdleWith
  <2>7. ReadOrders'
    <3>1. CASE "cycle" \in dead
      BY <1>0, <2>2, <3>1, IdleWith DEF ReadOrders
    <3>2. CASE "cycle" \notin dead
      BY <1>0, <2>1, <2>2, <3>2 DEF SharedInv, ReadOrders
    <3> QED BY <3>1, <3>2
  <2>8. \A a \in Closer : s'[a] = s[a] \/ s'[a] = Idle
    BY <1>0, <2>2 DEF Closer
  <2> QED BY <2>3, <2>4, <2>5, <2>6, <2>7, <2>8, SharedQuiet
<1>3. CASE Resent
  <2>1. UNCHANGED <<rows, orders, s, rec>>
    BY <1>3, ResentLeaves
  <2>2. SameCore /\ SameOrders /\ ReadOrders'
    BY <2>1 DEF SameCore, SameOrders, SharedInv, ReadOrders
  <2>3. Book' = Book
    BY <1>3, ResentBook DEF SharedInv
  <2>4. gone' >= 0
    <3>1. ~BuyResent
      BY SharedFacts DEF SharedInv, Opened, BuyResent
    <3>2. ASSUME NEW a \in Actor, SaleResent(a) PROVE gone' >= 0
      <4> DEFINE q == IF s[a].pc = "scale" THEN Part[s[a].my.qty] ELSE s[a].my.qty
      <4>1. q \in Nat
        BY <1>0, SessionType, PartType, LotAssumption DEF Qty
      <4>2. gone' = gone + q
        BY <3>2 DEF SaleResent
      <4> HIDE DEF q
      <4> QED BY <1>0, <4>1, <4>2
    <3>3. ASSUME NEW a \in Actor, StopResent(a) PROVE gone' >= 0
      BY <1>0, <3>3 DEF StopResent
    <3> QED BY <1>3, <3>1, <3>2, <3>3 DEF Resent
  <2> QED BY <1>0, <2>1, <2>2, <2>3, <2>4, SharedQuiet
<1> QED BY <1>1, <1>2, <1>3

LEMMA SharedInit ==
  ASSUME Shared, SoloStart
  PROVE  SharedInv
<1>1. TypeInv
  BY InitType DEF SoloStart
<1>2. /\ InitOpen /\ s = [a \in Actor |-> Idle] /\ gone = 0 /\ fired = 0
      /\ RowId = {1} /\ {"monitor", "cycle", "operator"} = Actor
  BY DEF SoloStart, Init, InitFlat, OpenRows, NoRow, Shared, RowId, Actor
<1>3. PICK q \in Sizes :
        /\ rows = [r \in RowId |-> IF r = 1 THEN [NoRow EXCEPT !.st = "open", !.qty = q,
                                                               !.stop = 1] ELSE NoRow]
        /\ orders = <<[entry |-> TRUE, row |-> 1, qty |-> q, exec |-> q, open |-> TRUE]>>
        /\ holding = q
  BY <1>2 DEF InitOpen
<1>4. q \in Nat /\ q > 0
  BY BoundsAssumption, LotAssumption
<1>5. rows[1].st = "open" /\ rows[1].qty = q
  BY <1>2, <1>3 DEF NoRow
<1>6. \A a \in Actor : s[a].pc = "idle"
  BY <1>2, IdleWith
<1>7. Opened
  BY <1>2, <1>4, <1>5, <1>6 DEF Opened
<1>8. \A a \in Closer : Sharer(a, s[a], rows[1])
  BY <1>2, <1>6 DEF Sharer, Shares, Knows, Closer
<1>9. ClosingOrders /\ ReadOrders
  BY <1>2, <1>3, <1>6 DEF ClosingOrders, ReadOrders
<1>10. SharedBook
  <2>1. InFlight("monitor") = 0 /\ InFlight("cycle") = 0 /\ InFlight("operator") = 0
    BY <1>2, <1>6 DEF InFlight
  <2> QED BY <1>2, <1>3, <1>4, <1>5, <2>1 DEF Book, SharedBook
<1> QED BY <1>1, <1>7, <1>8, <1>9, <1>10 DEF SharedInv

LEMMA SharedStep ==
  ASSUME Shared, SharedInv, [Next]_vars
  PROVE  SharedInv'
<1>1. TypeInv' /\ "monitor" \in Closer /\ "operator" \in Closer
  BY TypeStep DEF SharedInv, Closer
<1>2. CASE MonitorStep
  BY <1>1, <1>2, SharerWaits, SharerWrites, SharerSells, SharerRecords
  DEF MonitorStep, CloseStep, StopStep
<1>3. CASE OperatorStep
  BY <1>1, <1>3, SharerWaits, SharerWrites, SharerSells, SharerRecords
  DEF OperatorStep, CloseStep, StopStep
<1>4. CASE CycleStep
  BY <1>1, <1>4, SharedCycle
<1>5. CASE ExchangeStep \/ Resent \/ UNCHANGED vars \/ \E dead \in Processes : Crash(dead)
  BY <1>1, <1>5, SharedOutside
<1> QED BY <1>2, <1>3, <1>4, <1>5 DEF Next

\* Monitor and operator may close the same position at once, from copies of different age,
\* and try again after failures of every kind: the books balance, because coins that are
\* sold once are not there to be sold again.
THEOREM SharedBooks ==
  ASSUME Shared
  PROVE  SoloStart /\ [][Next]_vars => []BookIdentity
<1>1. SoloStart => SharedInv
  BY SharedInit
<1>2. SharedInv /\ [Next]_vars => SharedInv'
  BY SharedStep
<1>3. SharedInv => BookIdentity
  <2> SUFFICES ASSUME SharedInv PROVE BookIdentity
    OBVIOUS
  <2>1. RowId = {1} /\ (rows[1].st = "open" => rows[1].qty = Book)
        /\ (rows[1].st # "open" => Book = 0)
    BY SharedFacts DEF SharedInv, SharedBook
  <2> QED BY <2>1 DEF BookIdentity, OpenRows
<1> QED BY <1>1, <1>2, <1>3, PTL

\* When the row is closed, by whichever of them came last, the coins are sold.
THEOREM SharedMeansSold ==
  ASSUME Shared
  PROVE  SoloStart /\ [][Next]_vars => []ClosedIsFlat
<1>1. SoloStart => SharedInv
  BY SharedInit
<1>2. SharedInv /\ [Next]_vars => SharedInv'
  BY SharedStep
<1>3. SharedInv => ClosedIsFlat
  <2> SUFFICES ASSUME SharedInv, OpenRows = {} PROVE holding = 0
    BY DEF ClosedIsFlat
  <2> DEFINE m == InFlight("monitor")
             o == InFlight("operator")
  <2>1. rows[1].st # "open"
    BY SharedFacts DEF OpenRows
  <2>2. m \in Nat /\ o \in Nat /\ holding \in Nat /\ holding + m + o <= 0
    BY <2>1, SharedCoins
  <2> HIDE DEF m, o
  <2> QED BY <2>2
<1> QED BY <1>1, <1>2, <1>3, PTL

-----------------------------------------------------------------------------
(*                               The stops                                 *)


\* One row, and no requests of an operator.
Solo == MaxPos = 1 /\ MaxCloses = 0

-----------------------------------------------------------------------------
(* The inductive invariant *)

\* Where the monitor is when the stop must rest, when there must be none, and when it
\* is being replaced.
AtRest == {"idle", "decide", "cancel", "scale", "bank", "trail"}
Stopless == {"sell", "persist", "place"}
Between == {"forget", "replace", "placed"}

\* Nobody closes by hand and the cycle neither enters nor places.
Alone ==
  /\ closes = 0 /\ s["operator"] = Idle
  /\ s["cycle"].pc \in {"idle", "lookup", "recon", "enter"} /\ s["cycle"].sid = NoStop
  /\ rows[1].st \in {"open", "closed"}

\* The monitor is the only writer of stop, level and quantity, so its copy has them as
\* committed; the row may be closed under a copy that says open, not the reverse.
InStep(me, row) ==
  /\ me.pc # "idle" =>
       /\ me.my.stop = row.stop /\ me.my.level = row.level /\ me.my.qty = row.qty
       /\ me.my.st \in {"open", "closed"} /\ (me.my.st = "closed" => row.st = "closed")
  /\ me.pc \in Stopless => me.my.stop = NoStop
  /\ me.pc = "placed" <=> me.sid # NoStop

\* A stop that was to be cancelled and still rests is lost.
OldStopGone(me, st, l) ==
  me.pc \in Between /\ me.my.stop # NoStop /\ st[me.my.stop].qty > 0 => me.my.stop \in l

\* A stop just placed, if it still rests, is that of the copy.
NewStopRests(me, st) ==
  me.pc = "placed" /\ st[me.sid].qty > 0 =>
    st[me.sid] = [qty |-> me.my.qty, level |-> me.my.level]

\* Every resting stop is the row's, the monitor's, or lost.
AllKnown(me, row, st, l) ==
  \A i \in StopId : st[i].qty > 0 => i = row.stop \/ i = me.sid \/ i \in l

\* The open row's stop rests as the row says.
Kept(me, row, st, b) ==
  ~b /\ row.st = "open" /\ me.pc \in AtRest =>
    row.stop # NoStop /\ st[row.stop] = [qty |-> row.qty, level |-> row.level]

StopsRight(me, row, st, l, b) ==
  /\ InStep(me, row) /\ OldStopGone(me, st, l) /\ NewStopRests(me, st)
  /\ AllKnown(me, row, st, l) /\ Kept(me, row, st, b)

StopInv == TypeInv /\ Alone /\ StopsRight(s["monitor"], rows[1], stops, lost, bare)

-----------------------------------------------------------------------------
(* What the steps share *)

LEMMA SoloFacts ==
  ASSUME Solo, StopInv
  PROVE  /\ TypeOK /\ TypeInv /\ "monitor" \in Actor /\ RowId = {1}
         /\ s["monitor"] \in Session /\ s["monitor"].my \in Row /\ s["monitor"].row = 1
         /\ rows \in [RowId -> Row] /\ rows[1] \in Row
         /\ rows[1].stop \in StopId \cup {NoStop} /\ NoStop \notin StopId
         /\ stops \in [StopId -> Stop]
         /\ StopsRight(s["monitor"], rows[1], stops, lost, bare)
<1>1. TypeOK /\ TypeInv /\ "monitor" \in Actor /\ RowId = {1} /\ NoStop \notin StopId
  BY DEF StopInv, TypeInv, Actor, Solo, RowId, StopId, NoStop
<1>2. s["monitor"] \in Session /\ s["monitor"].my \in Row /\ s["monitor"].row = 1
  BY <1>1, SessionType
<1>3. rows \in [RowId -> Row] /\ rows[1] \in Row /\ stops \in [StopId -> Stop]
  BY <1>1 DEF TypeOK
<1> QED BY <1>1, <1>2, <1>3 DEF StopInv, Row

\* A step of the monitor need only keep its own stops right.
LEMMA MonitorAlone ==
  ASSUME Solo, StopInv, TypeInv', closes' = closes, \A b \in Actor \ {"monitor"} : s'[b] = s[b],
         rows'[1].st \in {"open", "closed"},
         StopsRight(s'["monitor"], rows'[1], stops', lost', bare')
  PROVE  StopInv'
BY DEF StopInv, Alone, Actor

\* A commit of the monitor leaves its columns in the row.
LEMMA CommittedRow ==
  ASSUME Solo, StopInv, s["monitor"].pc # "idle", NEW my \in Row, my.st \in {"open", "closed"},
         rows' = [rows EXCEPT ![s["monitor"].row] = Merge(@, s["monitor"].my, my)]
  PROVE  /\ rows'[1].stop = my.stop /\ rows'[1].level = my.level /\ rows'[1].qty = my.qty
         /\ rows'[1].st = IF my.st # s["monitor"].my.st THEN my.st ELSE rows[1].st
         /\ rows'[1].st \in {"open", "closed"} /\ (my.st = "closed" => rows'[1].st = "closed")
<1> DEFINE me == s["monitor"]
           merged == Merge(rows[1], me.my, my)
<1>1. /\ me.my.stop = rows[1].stop /\ me.my.level = rows[1].level /\ me.my.qty = rows[1].qty
      /\ me.my.st = "closed" => rows[1].st = "closed"
      /\ rows[1].st \in {"open", "closed"}
  BY DEF StopInv, Alone, StopsRight, InStep
<1>2. /\ merged.stop = my.stop /\ merged.level = my.level /\ merged.qty = my.qty
      /\ merged.st = IF my.st # me.my.st THEN my.st ELSE rows[1].st
  BY <1>1 DEF Merge, Column
<1>3. rows' = [rows EXCEPT ![1] = merged]
  BY SoloFacts
<1> HIDE DEF merged, me
<1>4. rows'[1] = merged
  BY <1>3, SoloFacts
<1> QED BY <1>1, <1>2, <1>4 DEF me

-----------------------------------------------------------------------------
(* The steps of the monitor that leave the row and the stops alone *)

LEMMA MonitorWaits ==
  ASSUME Solo, StopInv, TypeInv',
         \/ MonitorLoad \/ MonitorSkips \/ MonitorExits \/ MonitorScales \/ MonitorHolds
         \/ ScaleSell \/ ScaleFails \/ BankFails \/ TrailHolds
         \/ NothingToCancel("monitor") \/ Sell("monitor") \/ SellFails("monitor")
         \/ SellLost("monitor") \/ PersistFails("monitor")
  PROVE  StopInv'
<1> DEFINE me == s["monitor"]
           row == rows[1]
<1>0. /\ TypeOK /\ "monitor" \in Actor /\ me \in Session /\ me.my \in Row /\ me.row = 1
      /\ row \in Row /\ RowId = {1}
      /\ StopsRight(me, row, stops, lost, bare)
      /\ me.pc = "placed" <=> me.sid # NoStop
      /\ row.st \in {"open", "closed"}
  BY SoloFacts DEF StopsRight, InStep, StopInv, Alone
<1> USE DEF tables, exchange, environment, history
<1>1. UNCHANGED <<rows, stops, lost, bare, closes>>
  BY DEF MonitorLoad, MonitorSkips, MonitorExits, MonitorScales, MonitorHolds, ScaleSell,
         ScaleFails, BankFails, TrailHolds, NothingToCancel, Sell, SellFails, SellLost,
         PersistFails
<1>2. /\ StopsRight(s'["monitor"], row, stops, lost, bare)
      /\ \A b \in Actor \ {"monitor"} : s'[b] = s[b]
  <2>1. CASE MonitorLoad
    <3>1. PICK r \in OpenRows :
            s' = [s EXCEPT !["monitor"] = [Idle EXCEPT !.pc = "decide", !.row = r, !.my = rows[r]]]
      BY <2>1 DEF MonitorLoad
    <3> DEFINE x == [Idle EXCEPT !.pc = "decide", !.row = r, !.my = rows[r]]
    <3>2. r = 1 /\ x.pc = "decide" /\ x.my = rows[r] /\ x.sid = NoStop
      BY <1>0 DEF Idle, OpenRows
    <3>3. s' = [s EXCEPT !["monitor"] = x] /\ me.pc = "idle"
      BY <2>1, <3>1 DEF MonitorLoad
    <3> HIDE DEF x
    <3>4. s'["monitor"] = x /\ \A b \in Actor \ {"monitor"} : s'[b] = s[b]
      BY <1>0, <3>3 DEF TypeOK
    <3>5. StopsRight(x, row, stops, lost, bare)
      BY <1>0, <3>2, <3>3
      DEF StopsRight, InStep, OldStopGone, NewStopRests, AllKnown, Kept, AtRest, Stopless, Between
    <3> QED BY <3>4, <3>5
  <2>2. CASE MonitorSkips \/ ScaleFails \/ BankFails \/ TrailHolds
    <3>1. Leave("monitor") /\ me.pc \in {"decide", "scale", "bank", "trail"}
      BY <2>2 DEF MonitorSkips, ScaleFails, BankFails, TrailHolds
    <3>2. s'["monitor"] = Idle /\ \A b \in Actor \ {"monitor"} : s'[b] = s[b]
      BY <1>0, <3>1, LeaveType
    <3>3. Idle.pc = "idle" /\ Idle.sid = NoStop
      BY DEF Idle
    <3>4. StopsRight(Idle, row, stops, lost, bare)
      BY <1>0, <3>1, <3>3
      DEF StopsRight, InStep, OldStopGone, NewStopRests, AllKnown, Kept, AtRest, Stopless, Between
    <3> QED BY <3>2, <3>4
  <2>3. CASE MonitorExits \/ MonitorScales \/ MonitorHolds \/ NothingToCancel("monitor")
    <3>1. PICK pc \in {"cancel", "scale", "trail", "sell"} :
            /\ Goto("monitor", pc) /\ me.pc \in {"decide", "cancel"}
            /\ pc = "sell" => me.my.stop = NoStop
      BY <2>3 DEF MonitorExits, MonitorScales, MonitorHolds, NothingToCancel
    <3>2. /\ s'["monitor"].pc = pc /\ s'["monitor"].my = me.my /\ s'["monitor"].sid = me.sid
          /\ \A b \in Actor \ {"monitor"} : s'[b] = s[b]
      <4>1. pc \in PC
        BY DEF PC
      <4> QED BY <1>0, <3>1, <4>1, GotoEffect
    <3>3. StopsRight(s'["monitor"], row, stops, lost, bare)
      BY <1>0, <3>1, <3>2
      DEF StopsRight, InStep, OldStopGone, NewStopRests, AllKnown, Kept, AtRest, Stopless, Between
    <3> QED BY <3>2, <3>3
  <2>4. CASE ScaleSell \/ Sell("monitor")
    <3>1. PICK q \in Qty, pc \in {"bank", "persist"} :
            /\ MarketSell("monitor", q, pc)
            /\ me.pc = IF pc = "bank" THEN "scale" ELSE "sell"
      <4>1. me.my.qty \in Qty /\ Part[me.my.qty] \in Qty
        BY <1>0, SessionType, PartType
      <4> QED BY <2>4, <4>1 DEF ScaleSell, Sell
    <3>2. /\ s'["monitor"].pc = pc /\ s'["monitor"].my = me.my /\ s'["monitor"].sid = me.sid
          /\ \A b \in Actor \ {"monitor"} : s'[b] = s[b]
      <4>1. pc \in PC
        BY DEF PC
      <4> QED BY <1>0, <3>1, <4>1, MarketSellType
    <3>3. StopsRight(s'["monitor"], row, stops, lost, bare)
      BY <1>0, <3>1, <3>2
      DEF StopsRight, InStep, OldStopGone, NewStopRests, AllKnown, Kept, AtRest, Stopless, Between
    <3> QED BY <3>2, <3>3
  <2>5. CASE SellFails("monitor") \/ SellLost("monitor") \/ PersistFails("monitor")
    <3>1. PICK my \in {me.my, row} : RetryWith("monitor", my) /\ me.pc \in {"sell", "persist"}
      BY <1>0, <2>5 DEF SellFails, SellLost, PersistFails
    <3>2. /\ me.my.stop = NoStop /\ me.sid = NoStop
          /\ my \in Row /\ my.stop = row.stop /\ my.level = row.level /\ my.qty = row.qty
          /\ my.stop = NoStop
          /\ my.st \in {"open", "closed"} /\ (my.st = "closed" => row.st = "closed")
      BY <1>0, <3>1 DEF StopsRight, InStep, Stopless
    <3>3. /\ s'["monitor"].pc \in {"sell", "place"} /\ s'["monitor"].my = my
          /\ s'["monitor"].sid = NoStop /\ \A b \in Actor \ {"monitor"} : s'[b] = s[b]
      BY <1>0, <3>1, <3>2, RetryEffect
    <3>4. StopsRight(s'["monitor"], row, stops, lost, bare)
      BY <1>0, <3>1, <3>2, <3>3
      DEF StopsRight, InStep, OldStopGone, NewStopRests, AllKnown, Kept, AtRest, Stopless, Between
    <3> QED BY <3>3, <3>4
  <2> QED BY <2>1, <2>2, <2>3, <2>4, <2>5
<1>3. rows'[1] = row /\ stops' = stops /\ lost' = lost /\ bare' = bare
  BY <1>1
<1> QED BY <1>0, <1>1, <1>2, <1>3, MonitorAlone

-----------------------------------------------------------------------------
(* The steps of the monitor that cancel and place stops *)

LEMMA MonitorCancels ==
  ASSUME Solo, StopInv, TypeInv', CancelStop("monitor") \/ AmendCancels
  PROVE  StopInv'
<1> DEFINE me == s["monitor"]
           row == rows[1]
           old == me.my.stop
<1>0. /\ TypeOK /\ "monitor" \in Actor /\ me \in Session /\ me.my \in Row /\ me.row = 1
      /\ row \in Row /\ stops \in [StopId -> Stop] /\ NoStop \notin StopId
      /\ row.stop \in StopId \cup {NoStop}
      /\ StopsRight(me, row, stops, lost, bare)
      /\ me.pc = "placed" <=> me.sid # NoStop
      /\ row.st \in {"open", "closed"}
  BY SoloFacts DEF StopsRight, InStep, StopInv, Alone
<1> USE DEF tables, exchange, environment, history
<1>1. UNCHANGED <<rows, bare, closes>> /\ me.pc \in {"cancel", "amend"}
  BY DEF CancelStop, AmendCancels
<1>2. PICK pc \in {"forget", "replace", "place"} :
        /\ Goto("monitor", pc)
        /\ \/ pc = "place" /\ old = NoStop /\ UNCHANGED <<stops, lost>>
           \/ /\ pc # "place" /\ old # NoStop
              /\ stops' = [stops EXCEPT ![old] = NotResting] /\ lost' = lost
           \/ /\ pc # "place" /\ old # NoStop
              /\ lost' = (IF Resting(old) THEN lost \cup {old} ELSE lost) /\ stops' = stops
  BY DEF CancelStop, AmendCancels
<1>3. /\ s'["monitor"].pc = pc /\ s'["monitor"].my = me.my /\ s'["monitor"].sid = me.sid
      /\ \A b \in Actor \ {"monitor"} : s'[b] = s[b]
  <2>1. pc \in PC
    BY DEF PC
  <2> QED BY <1>0, <1>2, <2>1, GotoEffect
<1>4. row.stop = old /\ old \in StopId \cup {NoStop}
  BY <1>0, <1>1 DEF StopsRight, InStep
<1>5. InStep(s'["monitor"], row) /\ NewStopRests(s'["monitor"], stops')
      /\ Kept(s'["monitor"], row, stops', bare)
  BY <1>0, <1>1, <1>2, <1>3 DEF StopsRight, InStep, NewStopRests, Kept, AtRest, Stopless
<1>6. OldStopGone(s'["monitor"], stops', lost') /\ AllKnown(s'["monitor"], row, stops', lost')
  <2>1. CASE pc = "place" /\ old = NoStop /\ UNCHANGED <<stops, lost>>
    BY <1>0, <1>3, <2>1 DEF StopsRight, OldStopGone, AllKnown, Between
  <2>2. CASE stops' = [stops EXCEPT ![old] = NotResting] /\ lost' = lost /\ old # NoStop
    <3>1. stops'[old].qty = 0 /\ \A i \in StopId \ {old} : stops'[i] = stops[i]
      BY <1>0, <1>4, <2>2 DEF NotResting
    <3> HIDE DEF old
    <3> QED BY <1>0, <1>3, <2>2, <3>1 DEF StopsRight, OldStopGone, AllKnown, Between, old
  <2>3. CASE lost' = (IF Resting(old) THEN lost \cup {old} ELSE lost) /\ stops' = stops
    BY <1>0, <1>3, <2>3 DEF StopsRight, OldStopGone, AllKnown, Between, Resting
  <2> QED BY <1>2, <2>1, <2>2, <2>3
<1>7. rows'[1] = row /\ bare' = bare
  BY <1>1
<1> QED BY <1>0, <1>1, <1>3, <1>5, <1>6, <1>7, MonitorAlone DEF StopsRight

\* The new stop's id is nobody's, so the row's own stop stays what it was.
LEMMA MonitorPlacesStop ==
  ASSUME Solo, StopInv, TypeInv', PlaceStop("monitor")
  PROVE  StopInv'
<1> DEFINE me == s["monitor"]
           row == rows[1]
           new == FreshId
           stop == [qty |-> me.my.qty, level |-> me.my.level]
           x == [me EXCEPT !.pc = "placed", !.sid = new]
<1>0. /\ TypeOK /\ "monitor" \in Actor /\ me \in Session /\ me.my \in Row
      /\ stops \in [StopId -> Stop] /\ NoStop \notin StopId
      /\ StopsRight(me, row, stops, lost, bare) /\ row.st \in {"open", "closed"}
  BY SoloFacts DEF StopInv, Alone
<1>1. /\ me.pc \in {"place", "replace"} /\ new \in StopId \ UsedIds
      /\ stops' = [stops EXCEPT ![new] = stop]
      /\ s' = [s EXCEPT !["monitor"] = x]
      /\ UNCHANGED <<rows, lost, bare, closes>>
  BY FreshIdType DEF PlaceStop, tables, environment, history
<1>2. me.my.stop # new
  BY <1>0, <1>1 DEF UsedIds
<1>3. x.pc = "placed" /\ x.sid = new /\ x.my = me.my
  BY <1>0 DEF Session
<1> HIDE DEF x, new
<1>4. s'["monitor"] = x /\ \A b \in Actor \ {"monitor"} : s'[b] = s[b]
  BY <1>0, <1>1 DEF TypeOK
<1>5. stops'[new] = stop /\ \A i \in StopId \ {new} : stops'[i] = stops[i]
  BY <1>0, <1>1
<1> HIDE DEF stop
<1>6. me.sid = NoStop /\ me.pc # "idle" /\ new # NoStop
  BY <1>0, <1>1 DEF StopsRight, InStep
<1>7. InStep(x, row)
  BY <1>0, <1>3, <1>6 DEF StopsRight, InStep, Stopless
<1>8. OldStopGone(x, stops', lost)
  <2>1. ASSUME me.my.stop # NoStop, stops'[me.my.stop].qty > 0 PROVE me.my.stop \in lost
    <3>1. me.pc = "replace"
      BY <1>0, <1>1, <2>1 DEF StopsRight, InStep, Stopless
    <3>2. me.my.stop \in StopId
      BY <1>0, <2>1 DEF Row
    <3>3. stops'[me.my.stop] = stops[me.my.stop]
      BY <1>2, <1>5, <3>2
    <3> QED BY <1>0, <2>1, <3>1, <3>3 DEF StopsRight, OldStopGone, Between
  <2> QED BY <1>3, <2>1 DEF OldStopGone
<1>9. NewStopRests(x, stops') /\ AllKnown(x, row, stops', lost)
  BY <1>0, <1>3, <1>5, <1>6 DEF StopsRight, NewStopRests, AllKnown, stop
<1>10. Kept(x, row, stops', bare)
  BY <1>3 DEF Kept, AtRest
<1>11. StopsRight(x, row, stops', lost, bare)
  BY <1>7, <1>8, <1>9, <1>10 DEF StopsRight
<1>12. rows'[1] = row /\ lost' = lost /\ bare' = bare /\ closes' = closes
  BY <1>1
<1> QED BY <1>0, <1>4, <1>11, <1>12, MonitorAlone

-----------------------------------------------------------------------------
(* The commits of the monitor *)

\* Level, quantity and stop change in the copy and in the row alike; the job goes on to
\* amend the stop, to sell, or without one.
LEMMA MonitorWrites ==
  ASSUME Solo, StopInv, TypeInv', ForgetStop("monitor") \/ Bank \/ TrailRaises
  PROVE  StopInv'
<1> DEFINE me == s["monitor"]
           row == rows[1]
<1>0. /\ TypeOK /\ "monitor" \in Actor /\ me \in Session /\ me.my \in Row /\ me.row = 1
      /\ row.stop \in StopId \cup {NoStop} /\ 1 \in RowId
      /\ StopsRight(me, row, stops, lost, bare)
      /\ me.my.qty \in Qty
  BY SoloFacts, SessionType DEF StopsRight
<1>1. PICK my \in Row, next \in Session :
        /\ Commit("monitor", my, next)
        /\ my.st = me.my.st /\ next.sid = NoStop
        /\ \/ me.pc = "forget" /\ my.stop = NoStop /\ next.pc = "sell"
           \/ me.pc \in {"bank", "trail"} /\ my.stop = me.my.stop /\ next.pc = "amend"
  <2>1. me.pc # "placed" => me.sid = NoStop
    BY <1>0 DEF StopsRight, InStep
  <2>2. CASE ForgetStop("monitor")
    <3> DEFINE my == [me.my EXCEPT !.stop = NoStop]
               next == [me EXCEPT !.pc = "sell"]
    <3>1. Commit("monitor", my, next) /\ me.pc = "forget"
      BY <2>2 DEF ForgetStop
    <3>2. my \in Row /\ my.st = me.my.st /\ my.stop = NoStop
      BY <1>0 DEF Row
    <3>3. next \in Session /\ next.pc = "sell" /\ next.sid = me.sid
      BY <1>0 DEF Session, PC
    <3> HIDE DEF my, next
    <3> QED BY <2>1, <3>1, <3>2, <3>3
  <2>3. CASE Bank
    <3> DEFINE my == [me.my EXCEPT !.qty = me.my.qty - me.fill, !.scaled = TRUE,
                                   !.pnl = me.my.pnl + me.fill,
                                   !.level = IF me.my.be THEN me.my.level ELSE 1, !.be = TRUE]
               next == [Idle EXCEPT !.pc = "amend", !.row = me.row, !.then = "trail"]
    <3>1. Commit("monitor", my, next) /\ me.pc = "bank"
      BY <2>3 DEF Bank
    <3>2. /\ me.my.qty - me.fill \in Qty /\ me.my.pnl + me.fill \in Nat
          /\ 1 \in Level /\ me.my.level \in Level
      BY <1>0, <3>1, SessionType, LotAssumption, BoundsAssumption
      DEF Qty, Level, StopInv, TypeInv, BankedPart
    <3>3. my \in Row /\ my.st = me.my.st /\ my.stop = me.my.stop
      BY <1>0, <3>2 DEF Row
    <3>4. next \in Session /\ next.pc = "amend" /\ next.sid = NoStop
      <4>1. next.pc = "amend" /\ next.sid = NoStop
        BY DEF Idle
      <4>2. "amend" \in PC
        BY DEF PC
      <4> QED BY <1>0, <4>1, <4>2, IdleWith
    <3> HIDE DEF my, next
    <3> QED BY <3>1, <3>3, <3>4
  <2>4. CASE TrailRaises
    <3> DEFINE next == [me EXCEPT !.pc = "amend", !.then = "idle"]
    <3>1. PICK my \in Raised(me.my) : Commit("monitor", my, next) /\ me.pc = "trail"
      BY <2>4 DEF TrailRaises
    <3>2. 1 \in Level
      BY BoundsAssumption DEF Level
    <3>3. my \in Row /\ my.st = me.my.st /\ my.stop = me.my.stop
      <4>1. PICK l \in Level, b \in BOOLEAN :
              my = [me.my EXCEPT !.level = l] \/ my = [me.my EXCEPT !.level = l, !.be = b]
        BY <3>1, <3>2 DEF Raised
      <4> QED BY <1>0, <4>1 DEF Row
    <3>4. next \in Session /\ next.pc = "amend" /\ next.sid = me.sid
      BY <1>0 DEF Session, PC
    <3> HIDE DEF next
    <3> QED BY <2>1, <3>1, <3>3, <3>4
  <2> QED BY <2>2, <2>3, <2>4
<1>2. UNCHANGED <<stops, lost, bare, closes>> /\ me.pc # "idle"
  BY <1>1 DEF ForgetStop, Bank, TrailRaises, exchange, environment, history
<1>3. /\ s'["monitor"].pc = next.pc /\ s'["monitor"].my = my /\ s'["monitor"].sid = NoStop
      /\ \A b \in Actor \ {"monitor"} : s'[b] = s[b]
  BY <1>0, <1>1, CommitEffect
<1>4. my.st \in {"open", "closed"} /\ (me.my.st = "closed" => row.st = "closed")
      /\ row.stop = me.my.stop
  BY <1>0, <1>1, <1>2 DEF StopsRight, InStep
<1>5. /\ rows'[1].stop = my.stop /\ rows'[1].level = my.level /\ rows'[1].qty = my.qty
      /\ rows'[1].st = row.st /\ rows'[1].st \in {"open", "closed"}
  BY <1>1, <1>2, <1>4, CommittedRow DEF Commit
<1>6. InStep(s'["monitor"], rows'[1])
  BY <1>1, <1>3, <1>4, <1>5 DEF InStep, Stopless
<1>7. OldStopGone(s'["monitor"], stops, lost) /\ NewStopRests(s'["monitor"], stops)
      /\ Kept(s'["monitor"], rows'[1], stops, bare)
  BY <1>1, <1>3 DEF OldStopGone, NewStopRests, Kept, Between, AtRest
<1>8. AllKnown(s'["monitor"], rows'[1], stops, lost)
  <2> SUFFICES ASSUME NEW i \in StopId, stops[i].qty > 0
               PROVE  i = rows'[1].stop \/ i \in lost
    BY DEF AllKnown
  <2>1. i = row.stop \/ i \in lost
    BY <1>0, <1>1, SoloFacts DEF StopsRight, InStep, AllKnown
  <2>2. me.pc = "forget" /\ i = row.stop => i \in lost
    BY <1>0, <1>4, SoloFacts DEF StopsRight, OldStopGone, Between
  <2> QED BY <1>1, <1>4, <1>5, <2>1, <2>2
<1>9. StopsRight(s'["monitor"], rows'[1], stops', lost', bare')
  BY <1>2, <1>6, <1>7, <1>8 DEF StopsRight
<1> QED BY <1>2, <1>3, <1>5, <1>9, MonitorAlone

\* The id of the new stop is committed, or forgotten when the call failed.
LEMMA MonitorTracks ==
  ASSUME Solo, StopInv, TypeInv', PlaceFails("monitor") \/ TrackStop("monitor")
  PROVE  StopInv'
<1> DEFINE me == s["monitor"]
           row == rows[1]
           id == IF me.pc = "placed" THEN me.sid ELSE NoStop
           my == [me.my EXCEPT !.stop = id]
<1>0. /\ TypeOK /\ "monitor" \in Actor /\ me \in Session /\ me.my \in Row /\ me.row = 1
      /\ stops \in [StopId -> Stop] /\ NoStop \notin StopId
      /\ StopsRight(me, row, stops, lost, bare)
      /\ me.sid \in StopId \cup {NoStop}
  BY SoloFacts, SessionType
<1>1. PICK next \in {Idle, [me EXCEPT !.pc = me.then], [me EXCEPT !.pc = me.then, !.sid = NoStop]} :
        /\ Commit("monitor", my, next)
        /\ next # Idle => me.then # "idle"
        /\ me.pc = "placed" => next \in {Idle, [me EXCEPT !.pc = me.then, !.sid = NoStop]}
        /\ me.pc \in {"place", "replace", "placed"}
        /\ closes' = closes
  <2>1. CASE PlaceFails("monitor")
    <3>1. me.pc # "placed" /\ my = [me.my EXCEPT !.stop = NoStop]
      BY <2>1 DEF PlaceFails
    <3> HIDE DEF my
    <3> QED BY <2>1, <3>1 DEF PlaceFails
  <2>2. CASE TrackStop("monitor")
    <3>1. me.pc = "placed" /\ my = [me.my EXCEPT !.stop = me.sid]
      BY <2>2 DEF TrackStop
    <3> HIDE DEF my
    <3> QED BY <2>2, <3>1 DEF TrackStop, environment
  <2> QED BY <2>1, <2>2
<1>2. /\ me.my.stop = row.stop /\ me.my.st \in {"open", "closed"}
      /\ me.my.level = row.level /\ me.my.qty = row.qty
      /\ me.my.st = "closed" => row.st = "closed"
      /\ me.pc = "place" => me.my.stop = NoStop
      /\ me.pc # "placed" => me.sid = NoStop
  BY <1>0, <1>1 DEF StopsRight, InStep, Stopless
<1>3. next \in Session /\ next.pc \in {"idle", "trail"} /\ next.sid = NoStop
  <2>1. next \in Session /\ next.pc \in {"idle", "trail"}
    BY <1>0, <1>1, ThenNext
  <2>2. next.sid = NoStop
    <3>1. CASE next = Idle
      BY <3>1 DEF Idle
    <3>2. CASE next = [me EXCEPT !.pc = me.then] /\ me.pc # "placed"
      BY <1>0, <1>2, <3>2 DEF Session
    <3>3. CASE next = [me EXCEPT !.pc = me.then, !.sid = NoStop]
      BY <1>0, <3>3 DEF Session
    <3> QED BY <1>1, <3>1, <3>2, <3>3
  <2> QED BY <2>1, <2>2
<1>4. /\ my \in Row /\ my.stop = id /\ my.st = me.my.st
      /\ my.level = me.my.level /\ my.qty = me.my.qty
  BY <1>0 DEF Row
<1> HIDE DEF my
<1>5. /\ s'["monitor"].pc = next.pc /\ s'["monitor"].my = my /\ s'["monitor"].sid = NoStop
      /\ \A b \in Actor \ {"monitor"} : s'[b] = s[b]
  BY <1>0, <1>1, <1>3, <1>4, CommitEffect
<1>6. /\ rows'[1].stop = id /\ rows'[1].level = my.level /\ rows'[1].qty = my.qty
      /\ rows'[1].st = row.st /\ rows'[1].st \in {"open", "closed"}
  BY <1>1, <1>2, <1>4, CommittedRow DEF Commit
<1>7. InStep(s'["monitor"], rows'[1])
  BY <1>2, <1>3, <1>4, <1>5, <1>6 DEF InStep, Stopless
<1>8. OldStopGone(s'["monitor"], stops', lost') /\ NewStopRests(s'["monitor"], stops')
  BY <1>3, <1>5 DEF OldStopGone, NewStopRests, Between
<1>9. \A i \in StopId : stops[i].qty > 0 => i = me.sid \/ i \in lost
  <2> SUFFICES ASSUME NEW i \in StopId, stops[i].qty > 0, i # me.sid PROVE i \in lost
    OBVIOUS
  <2>1. i = row.stop \/ i \in lost
    BY <1>0 DEF StopsRight, AllKnown
  <2>2. i = row.stop => me.pc \in Between
    BY <1>0, <1>1, <1>2 DEF Between
  <2> QED BY <1>0, <1>2, <2>1, <2>2 DEF StopsRight, OldStopGone
<1>10. AllKnown(s'["monitor"], rows'[1], stops', lost') /\ Kept(s'["monitor"], rows'[1], stops', bare')
  <2>1. CASE PlaceFails("monitor")
    <3>1. bare' = TRUE /\ me.sid = NoStop
      BY <1>2, <2>1 DEF PlaceFails
    <3>2. \/ stops' = stops /\ lost' = lost
          \/ /\ \A i \in StopId \ {FreshId} : stops'[i] = stops[i]
             /\ lost' = lost \cup {FreshId}
      <4>1. \/ stops' = stops /\ lost' = lost
            \/ /\ FreshId \in StopId /\ lost' = lost \cup {FreshId}
               /\ stops' = [stops EXCEPT ![FreshId] = [qty |-> me.my.qty, level |-> me.my.level]]
        BY <2>1, FreshIdType DEF PlaceFails
      <4> QED BY <1>0, <4>1
    <3> QED BY <1>0, <1>9, <3>1, <3>2 DEF AllKnown, Kept
  <2>2. CASE TrackStop("monitor")
    <3>1. /\ me.pc = "placed" /\ bare' = ~Resting(me.sid) /\ stops' = stops /\ lost' = lost
          /\ id = me.sid /\ id # NoStop
      BY <1>0, <2>2 DEF TrackStop, exchange, StopsRight, InStep
    <3>2. Resting(me.sid) => stops[me.sid] = [qty |-> my.qty, level |-> my.level]
      BY <1>0, <1>4, <3>1 DEF StopsRight, NewStopRests, Resting
    <3> QED BY <1>6, <1>9, <3>1, <3>2 DEF AllKnown, Kept
  <2> QED BY <2>1, <2>2
<1>11. StopsRight(s'["monitor"], rows'[1], stops', lost', bare')
  BY <1>7, <1>8, <1>10 DEF StopsRight
<1> QED BY <1>1, <1>5, <1>6, <1>11, MonitorAlone

\* A close that left a rest goes on to guard it; the row is closed otherwise.
LEMMA MonitorRecordsStop ==
  ASSUME Solo, StopInv, TypeInv', PersistClose("monitor")
  PROVE  StopInv'
<1> DEFINE me == s["monitor"]
           row == rows[1]
           my == AfterClose(me.my, me.fill)
           over == [Idle EXCEPT !.pc = "place", !.row = me.row, !.my = my]
<1>0. /\ TypeOK /\ "monitor" \in Actor /\ me \in Session /\ me.my \in Row /\ me.row = 1
      /\ StopsRight(me, row, stops, lost, bare) /\ NoStop \notin StopId
  BY SoloFacts
<1>1. /\ me.pc = "persist"
      /\ rows' = [rows EXCEPT ![me.row] = Merge(@, me.my, my)]
      /\ s' = [s EXCEPT !["monitor"] = IF my.st = "open" /\ my.stop = NoStop THEN over ELSE Idle]
      /\ UNCHANGED <<stops, lost, bare, closes>>
  BY DEF PersistClose, exchange, environment, history
<1>2. me.my.stop = NoStop /\ me.sid = NoStop /\ row.stop = NoStop
  BY <1>0, <1>1 DEF StopsRight, InStep, Stopless
<1>3. my \in Row /\ my.stop = NoStop /\ my.st \in {"open", "closed"}
  <2>1. /\ me.my.pnl + me.fill \in Nat
        /\ me.fill < me.my.qty => me.my.qty - me.fill \in Qty
    BY <1>0, SessionType, LotAssumption DEF Qty
  <2> QED BY <1>0, <1>2, <2>1 DEF AfterClose, Row
<1>4. /\ over.pc = "place" /\ over.my = my /\ over.sid = NoStop
      /\ Idle.pc = "idle" /\ Idle.sid = NoStop
  BY DEF Idle
<1> HIDE DEF my, over
<1>5. /\ rows'[1].stop = NoStop /\ rows'[1].level = my.level /\ rows'[1].qty = my.qty
      /\ rows'[1].st \in {"open", "closed"} /\ (my.st = "closed" => rows'[1].st = "closed")
  BY <1>1, <1>3, CommittedRow
<1>6. /\ s'["monitor"] = IF my.st = "open" THEN over ELSE Idle
      /\ \A b \in Actor \ {"monitor"} : s'[b] = s[b]
  BY <1>0, <1>1, <1>3 DEF TypeOK
<1>7. StopsRight(s'["monitor"], rows'[1], stops, lost, bare)
  BY <1>0, <1>2, <1>3, <1>4, <1>5, <1>6
  DEF StopsRight, InStep, OldStopGone, NewStopRests, AllKnown, Kept, AtRest, Stopless, Between
<1> QED BY <1>1, <1>5, <1>6, <1>7, MonitorAlone

-----------------------------------------------------------------------------
(* The reconciliation, the exchange and the crashes *)

\* The reconciliation may close the row; it writes neither its stop, level nor quantity.
LEMMA CycleAlone ==
  ASSUME Solo, StopInv, TypeInv', CycleStep
  PROVE  StopInv'
<1>0. /\ TypeOK /\ "cycle" \in Actor /\ "monitor" \in Actor /\ "operator" \in Actor
      /\ s["cycle"].pc \in {"idle", "lookup", "recon", "enter"} /\ s["cycle"].sid = NoStop
      /\ RowId = {1} /\ rows[1].st \in {"open", "closed"} /\ closes = 0 /\ s["operator"] = Idle
      /\ StopsRight(s["monitor"], rows[1], stops, lost, bare)
  BY SoloFacts DEF StopInv, Alone, Actor
<1> USE DEF exchange, tables, environment, history
<1>1. ~Enter /\ ~RecordEntry /\ ~RecordEntryFails /\ ~StopStep("cycle")
  BY <1>0 DEF Enter, RecordEntry, RecordEntryFails, StopStep, PlaceStop, PlaceFails, TrackStop
<1>2. /\ UNCHANGED <<stops, lost, bare, closes>>
      /\ \/ \E pc \in {"lookup", "recon"} : Goto("cycle", pc) /\ rows' = rows
         \/ Leave("cycle") /\ rows' = rows
         \/ /\ Goto("cycle", "enter")
            /\ rows' = [r \in RowId |-> Merge(rows[r], rec.base[r], Synced(r))]
  BY <1>1 DEF CycleStep, ReconcileStarts, ReconcileLooks, ReconcileCommits, CycleEnds
<1>3. /\ \A b \in Actor \ {"cycle"} : s'[b] = s[b]
      /\ s'["cycle"].pc \in {"idle", "lookup", "recon", "enter"} /\ s'["cycle"].sid = NoStop
  <2>1. {"lookup", "recon", "enter"} \subseteq PC /\ Idle.sid = NoStop
    BY DEF PC, Idle
  <2>2. CASE Leave("cycle")
    BY <1>0, <2>1, <2>2, LeaveType, LeaveEffect
  <2>3. CASE \E pc \in {"lookup", "recon", "enter"} : Goto("cycle", pc)
    BY <1>0, <2>1, <2>3, GotoEffect
  <2> QED BY <1>2, <2>2, <2>3
<1>4. /\ rows'[1].stop = rows[1].stop /\ rows'[1].level = rows[1].level
      /\ rows'[1].qty = rows[1].qty /\ rows'[1].st \in {rows[1].st, "closed"}
  <2>1. CASE rows' = rows
    BY <2>1
  <2>2. CASE rows' = [r \in RowId |-> Merge(rows[r], rec.base[r], Synced(r))]
    <3>1. rec.base[1] \in Row
      BY <1>0 DEF TypeOK
    <3>2. /\ Synced(1).stop = rec.base[1].stop /\ Synced(1).level = rec.base[1].level
          /\ Synced(1).qty = rec.base[1].qty /\ Synced(1).st \in {rec.base[1].st, "closed"}
      BY <3>1 DEF Synced, Row
    <3>3. rows'[1] = Merge(rows[1], rec.base[1], Synced(1))
      BY <1>0, <2>2
    <3> QED BY <3>2, <3>3 DEF Merge, Column
  <2> QED BY <1>2, <2>1, <2>2
<1>5. s'["monitor"] = s["monitor"] /\ s'["operator"] = s["operator"]
  BY <1>0, <1>3 DEF Actor
<1>6. StopsRight(s["monitor"], rows'[1], stops, lost, bare)
  BY <1>0, <1>4 DEF StopsRight, InStep, AllKnown, Kept
<1> QED BY <1>0, <1>2, <1>3, <1>4, <1>5, <1>6 DEF StopInv, Alone

\* A stop that fires is no longer there to be known; a crash loses the one being placed.
LEMMA OutsideAlone ==
  ASSUME Solo, StopInv, TypeInv',
         ExchangeStep \/ UNCHANGED vars \/ \E dead \in Processes : Crash(dead)
  PROVE  StopInv'
<1> DEFINE me == s["monitor"]
           row == rows[1]
<1>0. /\ TypeOK /\ "monitor" \in Actor /\ me \in Session /\ me.my \in Row
      /\ stops \in [StopId -> Stop] /\ NoStop \notin StopId
      /\ row.stop \in StopId \cup {NoStop}
      /\ StopsRight(me, row, stops, lost, bare) /\ Alone
      /\ me.sid \in StopId \cup {NoStop}
  BY SoloFacts, SessionType DEF StopInv
<1> USE DEF exchange, tables, environment, history
<1>1. CASE PriceExits \/ UNCHANGED vars
  BY <1>0, <1>1 DEF PriceExits, vars, StopInv, Alone
<1>2. ASSUME NEW i \in StopId, StopFires(i) PROVE StopInv'
  <2>1. /\ stops' = [stops EXCEPT ![i] = NotResting] /\ bare' = TRUE /\ lost' = lost \ {i}
        /\ UNCHANGED <<rows, s, closes>>
    BY <1>2 DEF StopFires
  <2>2. stops'[i].qty = 0 /\ \A j \in StopId \ {i} : stops'[j] = stops[j]
    BY <1>0, <2>1 DEF NotResting
  <2>3. InStep(me, row) /\ Kept(me, row, stops', bare')
    BY <1>0, <2>1 DEF StopsRight, Kept
  <2>4. AllKnown(me, row, stops', lost')
    BY <1>0, <2>1, <2>2 DEF StopsRight, AllKnown
  <2>5. OldStopGone(me, stops', lost')
    <3>1. me.my.stop # NoStop => me.my.stop \in StopId
      BY <1>0 DEF Row
    <3> QED BY <1>0, <2>1, <2>2, <3>1 DEF StopsRight, OldStopGone
  <2>6. NewStopRests(me, stops')
    <3>1. me.pc = "placed" => me.sid \in StopId
      BY <1>0 DEF StopsRight, InStep
    <3> QED BY <1>0, <2>2, <3>1 DEF StopsRight, NewStopRests
  <2> QED BY <1>0, <2>1, <2>3, <2>4, <2>5, <2>6 DEF StopInv, Alone, StopsRight
<1>3. ASSUME NEW dead \in Processes, Crash(dead) PROVE StopInv'
  <2>1. /\ s' = [a \in Actor |-> IF a \in dead THEN Idle ELSE s[a]]
        /\ lost' = lost \cup {i \in StopId : Resting(i) /\ \E a \in dead : s[a].sid = i}
        /\ bare' = TRUE /\ UNCHANGED <<rows, stops, closes>>
        /\ \E a \in dead : s[a].pc # "idle"
    BY <1>3 DEF Crash
  <2>2. dead = {"monitor", "cycle"}
    <3>1. s["operator"].pc = "idle"
      BY <1>0 DEF Alone, Idle
    <3> QED BY <2>1, <3>1 DEF Processes
  <2>3. /\ s'["monitor"] = Idle /\ s'["cycle"] = Idle /\ s'["operator"] = s["operator"]
        /\ Idle.pc = "idle" /\ Idle.sid = NoStop
    BY <2>1, <2>2 DEF Actor, Idle
  <2>4. InStep(Idle, row) /\ OldStopGone(Idle, stops, lost') /\ NewStopRests(Idle, stops)
        /\ Kept(Idle, row, stops, bare')
    BY <2>1, <2>3 DEF InStep, OldStopGone, NewStopRests, Kept, Stopless, Between
  <2>5. AllKnown(Idle, row, stops, lost')
    BY <1>0, <2>1, <2>2 DEF StopsRight, AllKnown, Resting
  <2> QED BY <1>0, <2>1, <2>3, <2>4, <2>5 DEF StopInv, Alone, StopsRight
<1> QED BY <1>1, <1>2, <1>3 DEF ExchangeStep

\* A stop the client placed twice rests under an id nobody learns: it is lost.
LEMMA ResentAlone ==
  ASSUME Solo, StopInv, TypeInv', Resent
  PROVE  StopInv'
<1> DEFINE me == s["monitor"]
           row == rows[1]
<1>0. /\ TypeOK /\ "monitor" \in Actor /\ me \in Session /\ me.my \in Row
      /\ stops \in [StopId -> Stop] /\ NoStop \notin StopId /\ 1 \in RowId
      /\ row.stop \in StopId \cup {NoStop}
      /\ StopsRight(me, row, stops, lost, bare) /\ Alone
      /\ me.sid \in StopId \cup {NoStop}
  BY SoloFacts, SessionType DEF StopInv
<1>1. UNCHANGED <<rows, s, closes, bare>>
  BY ResentLeaves
<1>2. CASE stops' = stops /\ lost' = lost
  BY <1>0, <1>1, <1>2 DEF StopInv, Alone
<1>3. ASSUME NEW a \in Actor, StopResent(a) PROVE StopInv'
  <2> DEFINE stop == [qty |-> s[a].my.qty, level |-> s[a].my.level]
  <2>1. /\ stops' = [stops EXCEPT ![FreshId] = stop] /\ lost' = lost \cup {FreshId}
        /\ UsedIds # StopId
    BY <1>3 DEF StopResent
  <2>2. /\ FreshId \in StopId /\ FreshId # row.stop /\ FreshId # me.sid
        /\ FreshId # me.my.stop
    BY <1>0, <2>1, FreshIdType DEF UsedIds
  <2> HIDE DEF stop
  <2>3. \A j \in StopId \ {FreshId} : stops'[j] = stops[j]
    BY <1>0, <2>1
  <2>4. InStep(me, row)
    BY <1>0 DEF StopsRight
  <2>5. AllKnown(me, row, stops', lost')
    BY <1>0, <2>1, <2>3 DEF StopsRight, AllKnown
  <2>6. OldStopGone(me, stops', lost')
    <3>1. me.my.stop # NoStop => me.my.stop \in StopId
      BY <1>0 DEF Row
    <3> QED BY <1>0, <2>1, <2>2, <2>3, <3>1 DEF StopsRight, OldStopGone
  <2>7. NewStopRests(me, stops')
    <3>1. me.pc = "placed" => me.sid \in StopId
      BY <1>0 DEF StopsRight, InStep
    <3> QED BY <1>0, <2>2, <2>3, <3>1 DEF StopsRight, NewStopRests
  <2>8. Kept(me, row, stops', bare)
    <3>1. row.stop # NoStop => stops'[row.stop] = stops[row.stop]
      BY <1>0, <2>2, <2>3
    <3> QED BY <1>0, <3>1 DEF StopsRight, Kept
  <2> QED BY <1>0, <1>1, <2>4, <2>5, <2>6, <2>7, <2>8 DEF StopInv, Alone, StopsRight
<1>4. BuyResent \/ (\E a \in Actor : SaleResent(a)) => stops' = stops /\ lost' = lost
  BY DEF BuyResent, SaleResent
<1> QED BY <1>2, <1>3, <1>4 DEF Resent

-----------------------------------------------------------------------------
(* The theorems *)

LEMMA NobodyCloses ==
  ASSUME StopInv, OperatorStep
  PROVE  FALSE
<1>1. closes = 0 /\ s["operator"].pc = "idle"
  BY DEF StopInv, Alone, Idle
<1>2. ~OperatorClose /\ ~StopStep("operator")
  BY <1>1 DEF OperatorClose, StopStep, PlaceStop, PlaceFails, TrackStop
<1>3. ~CloseStep("operator")
  BY <1>1 DEF CloseStep, NothingToCancel, CancelStop, ForgetStop, Sell, SellFails, SellLost,
              PersistClose, PersistFails
<1> QED BY <1>2, <1>3 DEF OperatorStep

LEMMA StopInit ==
  ASSUME Solo, SoloStart
  PROVE  StopInv
<1>1. TypeInv /\ RowId = {1}
  BY InitType DEF SoloStart, Solo, RowId
<1>2. \A a \in Actor : s[a] = Idle
  BY DEF SoloStart, Init
<1>3. Idle.pc = "idle" /\ Idle.sid = NoStop
  BY DEF Idle
<1>4. ~InitFlat
  <2>1. InitFlat => OpenRows = {}
    BY DEF InitFlat, OpenRows, NoRow
  <2> QED BY <2>1 DEF SoloStart
<1>5. PICK q \in Sizes :
        /\ rows = [r \in RowId |-> IF r = 1 THEN [NoRow EXCEPT !.st = "open", !.qty = q,
                                                               !.stop = 1] ELSE NoRow]
        /\ stops = [i \in StopId |-> IF i = 1 THEN [qty |-> q, level |-> 0] ELSE NotResting]
  BY <1>4 DEF SoloStart, Init, InitOpen
<1>6. 1 \in RowId /\ 1 \in StopId
  BY <1>1, BoundsAssumption DEF StopId
<1>7. /\ rows[1].st = "open" /\ rows[1].qty = q /\ rows[1].stop = 1 /\ rows[1].level = 0
      /\ stops[1] = [qty |-> q, level |-> 0]
      /\ \A i \in StopId : stops[i].qty > 0 => i = 1
  <2> DEFINE row == [NoRow EXCEPT !.st = "open", !.qty = q, !.stop = 1]
  <2>1. rows[1] = row
    BY <1>5, <1>6
  <2>2. row.st = "open" /\ row.qty = q /\ row.stop = 1 /\ row.level = 0
    BY DEF NoRow
  <2>3. stops[1] = [qty |-> q, level |-> 0]
    BY <1>5, <1>6
  <2>4. \A i \in StopId : stops[i].qty > 0 => i = 1
    BY <1>5 DEF NotResting
  <2> HIDE DEF row
  <2> QED BY <2>1, <2>2, <2>3, <2>4
<1>8. Alone
  BY <1>2, <1>3, <1>7 DEF Alone, Actor, Solo, SoloStart, Init
<1>9. StopsRight(Idle, rows[1], stops, lost, bare)
  BY <1>3, <1>7
  DEF StopsRight, InStep, OldStopGone, NewStopRests, AllKnown, Kept, AtRest, Stopless, Between, NoStop
<1> QED BY <1>1, <1>2, <1>8, <1>9 DEF StopInv, Actor

LEMMA StopsStep ==
  ASSUME Solo, StopInv, [Next]_vars
  PROVE  StopInv'
<1>1. TypeInv'
  BY TypeStep DEF StopInv
<1>2. CASE MonitorStep
  BY <1>1, <1>2, MonitorWaits, MonitorCancels, MonitorPlacesStop, MonitorWrites, MonitorTracks,
     MonitorRecordsStop
  DEF MonitorStep, CloseStep, StopStep
<1>3. CASE CycleStep
  BY <1>1, <1>3, CycleAlone
<1>4. CASE OperatorStep
  BY <1>4, NobodyCloses
<1>5. CASE ExchangeStep \/ UNCHANGED vars \/ \E dead \in Processes : Crash(dead)
  BY <1>1, <1>5, OutsideAlone
<1>6. CASE Resent
  BY <1>1, <1>6, ResentAlone
<1> QED BY <1>2, <1>3, <1>4, <1>5, <1>6 DEF Next

\* Cancelling, amending, closing and retrying leave no stop behind but those whose id a
\* fault lost: a forgotten id is of a stop that no longer rests, a new one is tracked.
THEOREM NoStrayStop ==
  ASSUME Solo
  PROVE  SoloStart /\ [][Next]_vars => []StopsAccounted
<1>1. StopInv => StopsAccounted
  <2> SUFFICES ASSUME StopInv, NEW i \in StopId, Resting(i) PROVE i \in Tracked \cup lost
    BY DEF StopsAccounted
  <2>1. i = rows[1].stop \/ i = s["monitor"].sid \/ i \in lost
    BY DEF StopInv, StopsRight, AllKnown, Resting
  <2>2. 1 \in RowId /\ "monitor" \in Actor
    BY DEF Solo, RowId, Actor
  <2> QED BY <2>1, <2>2 DEF Tracked
<1>2. SoloStart => StopInv
  BY StopInit
<1>3. StopInv /\ [Next]_vars => StopInv'
  BY StopsStep
<1> QED BY <1>1, <1>2, <1>3, PTL

\* Whatever the monitor did in its passes (part sold, stop trailed, moved to breakeven,
\* replaced, a sale retried), between them the open row is guarded by a stop of its own
\* quantity and level unless a fault or the exchange took it away.
THEOREM GuardedBetweenPasses ==
  ASSUME Solo
  PROVE  SoloStart /\ [][Next]_vars => []Guarded
<1>1. StopInv => Guarded
  <2> SUFFICES ASSUME StopInv, s["monitor"].pc = "idle", ~bare, NEW r \in OpenRows
               PROVE  /\ rows[r].stop # NoStop
                      /\ stops[rows[r].stop] = [qty |-> rows[r].qty, level |-> rows[r].level]
    BY DEF Guarded
  <2>1. r = 1 /\ rows[1].st = "open"
    BY DEF OpenRows, Solo, RowId
  <2> QED BY <2>1 DEF StopInv, StopsRight, Kept, AtRest
<1>2. SoloStart => StopInv
  BY StopInit
<1>3. StopInv /\ [Next]_vars => StopInv'
  BY StopsStep
<1> QED BY <1>1, <1>2, <1>3, PTL
=============================================================================
