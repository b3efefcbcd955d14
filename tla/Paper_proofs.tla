---------------------------- MODULE Paper_proofs ----------------------------
(***************************************************************************)
(* Proofs about the paper account.  PaperBroker, for any capital,          *)
(* leverage, quantities, orders and requests: the types, the ledger,       *)
(* one-way mode, and the stop leg of a pair.  PaperBot, for any symbols    *)
(* and faults: the types, and what is still ordered after a stop.          *)
(***************************************************************************)
EXTENDS PaperBroker, PaperBot, SequenceTheorems, FiniteSetTheorems, WellFoundedInduction, TLAPS

-----------------------------------------------------------------------------
(* What an execution makes of an account *)

Sum(c, p) == c + p["buy"].qty - p["sell"].qty
OneSided(p) == p["buy"].qty = 0 \/ p["sell"].qty = 0
\* An open row has an id.
RowsOpen(p) == \A sd \in Sides : p[sd].qty > 0 => p[sd].id > 0

\* A row changes its quantity, or another row follows it.
RowFollows(old, new) ==
  /\ new \in RowType /\ new.id >= old.id
  /\ new.qty > 0 /\ old.qty = 0 => new.id > old.id
  /\ new.qty > 0 /\ (old.qty > 0 => old.id > 0) => new.id > 0

Follows(v, new) ==
  new \in AccountType /\ \A sd \in Sides : RowFollows(v.pos[sd], new.pos[sd])

LEMMA RowsAreRecords ==
  ASSUME NEW v \in AccountType
  PROVE  /\ v.cash \in Int /\ v.pos \in [Sides -> RowType] /\ v = [cash |-> v.cash, pos |-> v.pos]
         /\ \A sd \in Sides : /\ v.pos[sd] \in RowType /\ v.pos[sd].id \in Nat /\ v.pos[sd].qty \in Nat
                              /\ v.pos[sd] = Row(v.pos[sd].id, v.pos[sd].qty)
BY DEF AccountType, RowType, Row

LEMMA SidesAreTwo ==
  /\ Sides = {"buy", "sell"} /\ Opp("buy") = "sell" /\ Opp("sell") = "buy"
  /\ \A sd \in Sides : Opp(sd) \in Sides /\ Opp(sd) # sd /\ Opp(Opp(sd)) = sd
BY DEF Sides, Opp

\* One row of an account is replaced.
LEMMA Replaced ==
  ASSUME NEW v \in AccountType, NEW sd \in Sides, NEW c \in Int, NEW row \in RowType
  PROVE  LET new == [cash |-> c, pos |-> [v.pos EXCEPT ![sd] = row]] IN
         /\ new \in AccountType /\ new.cash = c /\ new.pos[sd] = row
         /\ new.pos[Opp(sd)] = v.pos[Opp(sd)]
BY RowsAreRecords, SidesAreTwo DEF AccountType

LEMMA CoverEffect ==
  ASSUME NEW v \in AccountType, NEW sd \in Sides, NEW q \in Nat
  PROVE  LET c == Covered(v, sd, q)
             new == Cover(v, sd, q)
         IN /\ c \in Nat /\ c <= q /\ c <= v.pos[Opp(sd)].qty
            /\ c = q \/ c = v.pos[Opp(sd)].qty
            /\ Follows(v, new) /\ Sum(new.cash, new.pos) = Sum(v.cash, v.pos)
            /\ new.pos[sd] = v.pos[sd] /\ new.pos[Opp(sd)].qty = v.pos[Opp(sd)].qty - c
<1> DEFINE c == Covered(v, sd, q)
           new == Cover(v, sd, q)
           row == v.pos[Opp(sd)]
<1>1. /\ Opp(sd) \in Sides /\ row \in RowType /\ row.qty \in Nat /\ row.id \in Nat
      /\ row = Row(row.id, row.qty) /\ v.cash \in Int
  BY RowsAreRecords, SidesAreTwo
<1>2. c \in Nat /\ c <= q /\ c <= row.qty /\ (c = q \/ c = row.qty) BY <1>1 DEF Covered, Least
<1> HIDE DEF c
<1>3. new = [cash |-> v.cash + Paid(sd, c), pos |-> [v.pos EXCEPT ![Opp(sd)] = Row(row.id, row.qty - c)]]
  <2>1. [row EXCEPT !.qty = row.qty - c] = Row(row.id, row.qty - c) BY <1>1 DEF Row
  <2>2. new = [cash |-> v.cash + Paid(sd, c), pos |-> [v.pos EXCEPT ![Opp(sd)] = [row EXCEPT !.qty = row.qty - c]]]
    BY <1>1, RowsAreRecords DEF Cover, c
  <2> QED BY <2>1, <2>2
<1>4. Row(row.id, row.qty - c) \in RowType /\ v.cash + Paid(sd, c) \in Int
  BY <1>1, <1>2 DEF Row, RowType, Paid
<1> HIDE DEF new
<1>5. /\ new \in AccountType /\ new.cash = v.cash + Paid(sd, c)
      /\ new.pos[Opp(sd)] = Row(row.id, row.qty - c) /\ new.pos[sd] = v.pos[sd]
  BY <1>1, <1>3, <1>4, Replaced, SidesAreTwo
<1>6. new.pos[Opp(sd)].qty = row.qty - c /\ new.pos[Opp(sd)].id = row.id BY <1>5 DEF Row
<1>7. RowFollows(row, new.pos[Opp(sd)]) BY <1>1, <1>2, <1>4, <1>5, <1>6 DEF RowFollows
<1>8. RowFollows(v.pos[sd], new.pos[sd]) BY <1>5, RowsAreRecords DEF RowFollows
<1>9. Follows(v, new) BY <1>5, <1>7, <1>8, SidesAreTwo DEF Follows
<1>10. Sum(new.cash, new.pos) = Sum(v.cash, v.pos)
  <2>1. CASE sd = "buy" BY <1>1, <1>2, <1>5, <1>6, <2>1, RowsAreRecords, SidesAreTwo DEF Sum, Paid
  <2>2. CASE sd = "sell" BY <1>1, <1>2, <1>5, <1>6, <2>2, RowsAreRecords, SidesAreTwo DEF Sum, Paid
  <2> QED BY <2>1, <2>2, SidesAreTwo
<1> QED BY <1>2, <1>5, <1>6, <1>9, <1>10 DEF c, new

LEMMA OpenEffect ==
  ASSUME NEW v \in AccountType, NEW sd \in Sides, NEW q \in Nat
  PROVE  LET new == Open(v, sd, q) IN
         /\ Follows(v, new) /\ Sum(new.cash, new.pos) = Sum(v.cash, v.pos)
         /\ new.pos[Opp(sd)] = v.pos[Opp(sd)]
<1> DEFINE new == Open(v, sd, q)
           row == v.pos[sd]
           next == Row(IF row.qty > 0 THEN row.id ELSE row.id + 1, row.qty + q)
<1>1. row \in RowType /\ row.qty \in Nat /\ row.id \in Nat /\ v.cash \in Int BY RowsAreRecords
<1>2. next \in RowType /\ v.cash + Paid(sd, q) \in Int BY <1>1 DEF Row, RowType, Paid
<1>3. new = [cash |-> v.cash + Paid(sd, q), pos |-> [v.pos EXCEPT ![sd] = next]] BY RowsAreRecords DEF Open
<1>4. next.qty = row.qty + q /\ next.id = IF row.qty > 0 THEN row.id ELSE row.id + 1 BY DEF Row
<1>5. RowFollows(row, next) BY <1>1, <1>2, <1>4 DEF RowFollows
<1> HIDE DEF next, new
<1>6. /\ new \in AccountType /\ new.cash = v.cash + Paid(sd, q)
      /\ new.pos[sd] = next /\ new.pos[Opp(sd)] = v.pos[Opp(sd)]
  BY <1>2, <1>3, Replaced
<1>7. RowFollows(v.pos[Opp(sd)], new.pos[Opp(sd)]) BY <1>6, RowsAreRecords, SidesAreTwo DEF RowFollows
<1>8. Follows(v, new) BY <1>5, <1>6, <1>7, SidesAreTwo DEF Follows
<1>9. Sum(new.cash, new.pos) = Sum(v.cash, v.pos)
  <2>1. CASE sd = "buy" BY <1>1, <1>4, <1>6, <2>1, RowsAreRecords, SidesAreTwo DEF Sum, Paid
  <2>2. CASE sd = "sell" BY <1>1, <1>4, <1>6, <2>2, RowsAreRecords, SidesAreTwo DEF Sum, Paid
  <2> QED BY <2>1, <2>2, SidesAreTwo
<1> QED BY <1>6, <1>8, <1>9 DEF new

LEMMA SameFollows ==
  ASSUME NEW v \in AccountType PROVE Follows(v, v)
BY RowsAreRecords DEF Follows, RowFollows

LEMMA FollowsOn ==
  ASSUME NEW v \in AccountType, NEW w, NEW u, Follows(v, w), Follows(w, u) PROVE Follows(v, u)
<1>1. w \in AccountType /\ u \in AccountType BY DEF Follows
<1>2. ASSUME NEW sd \in Sides PROVE RowFollows(v.pos[sd], u.pos[sd])
  <2>1. RowFollows(v.pos[sd], w.pos[sd]) /\ RowFollows(w.pos[sd], u.pos[sd]) BY DEF Follows
  <2>2. /\ v.pos[sd].id \in Nat /\ w.pos[sd].id \in Nat /\ u.pos[sd].id \in Nat
        /\ v.pos[sd].qty \in Nat /\ w.pos[sd].qty \in Nat /\ u.pos[sd].qty \in Nat
    BY <1>1, RowsAreRecords
  <2> QED BY <2>1, <2>2 DEF RowFollows
<1> QED BY <1>1, <1>2 DEF Follows

\* apply_execution loses no unit, and one-way it covers before it opens.
LEMMA AppliedEffect ==
  ASSUME NEW v \in AccountType, NEW sd \in Sides, NEW q \in Nat, NEW reduce
  PROVE  LET new == Applied(v, sd, q, reduce) IN
         /\ Follows(v, new) /\ Sum(new.cash, new.pos) = Sum(v.cash, v.pos)
         /\ ~Hedge /\ OneSided(v.pos) => OneSided(new.pos)
<1> DEFINE c == Covered(v, sd, q)
           flip == Flip(v, sd, q)
           rest == Rest(v, sd, q)
<1>1. /\ c \in Nat /\ c <= q /\ c <= v.pos[Opp(sd)].qty /\ (c = q \/ c = v.pos[Opp(sd)].qty)
      /\ Follows(v, Cover(v, sd, q))
      /\ Sum(Cover(v, sd, q).cash, Cover(v, sd, q).pos) = Sum(v.cash, v.pos)
      /\ Cover(v, sd, q).pos[sd] = v.pos[sd]
      /\ Cover(v, sd, q).pos[Opp(sd)].qty = v.pos[Opp(sd)].qty - c
  BY CoverEffect
<1>2. v.pos["buy"].qty \in Nat /\ v.pos["sell"].qty \in Nat BY RowsAreRecords DEF Sides
<1> HIDE DEF c
<1>3. OneSided(v.pos) => OneSided(Cover(v, sd, q).pos)
  <2> DEFINE w == Cover(v, sd, q).pos
  <2>1. w[sd].qty = v.pos[sd].qty /\ w[Opp(sd)].qty = v.pos[Opp(sd)].qty - c BY <1>1
  <2>2. c \in Nat /\ c <= v.pos[Opp(sd)].qty BY <1>1
  <2> HIDE DEF w
  <2>3. sd = "buy" => (OneSided(v.pos) => OneSided(w)) BY <2>1, <2>2, <1>2, SidesAreTwo DEF OneSided
  <2>4. sd = "sell" => (OneSided(v.pos) => OneSided(w)) BY <2>1, <2>2, <1>2, SidesAreTwo DEF OneSided
  <2>5. OneSided(v.pos) => OneSided(w) BY <2>3, <2>4, SidesAreTwo
  <2> QED BY <2>5 DEF w
<1>4. /\ flip \in AccountType /\ Follows(v, flip) /\ Sum(flip.cash, flip.pos) = Sum(v.cash, v.pos)
      /\ ~Hedge /\ OneSided(v.pos) => OneSided(flip.pos)
  BY <1>1, <1>3, SameFollows DEF Flip, Follows
<1>5. rest \in Nat BY <1>1 DEF Rest, c
<1>6. ~Hedge /\ rest # 0 => flip.pos[Opp(sd)].qty = 0 BY <1>1, <1>2, SidesAreTwo DEF Rest, Flip, c, Sides
<1> HIDE DEF flip, rest
<1>7. /\ Follows(flip, Open(flip, sd, rest))
      /\ Sum(Open(flip, sd, rest).cash, Open(flip, sd, rest).pos) = Sum(flip.cash, flip.pos)
      /\ Open(flip, sd, rest).pos[Opp(sd)] = flip.pos[Opp(sd)]
  BY <1>4, <1>5, OpenEffect
<1>8. ~Hedge /\ rest # 0 => OneSided(Open(flip, sd, rest).pos) BY <1>6, <1>7, SidesAreTwo DEF OneSided, Opp
<1>9. Follows(v, Open(flip, sd, rest)) BY <1>4, <1>7, FollowsOn
<1>10. Applied(v, sd, q, reduce) \in {Cover(v, sd, q), flip, Open(flip, sd, rest)}
       /\ (Applied(v, sd, q, reduce) \in {Cover(v, sd, q), flip} \/ rest # 0)
  BY DEF Applied, OpenWithinMargin, flip, rest
<1>11. CASE Applied(v, sd, q, reduce) = Cover(v, sd, q) BY <1>1, <1>3, <1>11
<1>12. CASE Applied(v, sd, q, reduce) = flip BY <1>4, <1>12
<1>13. CASE Applied(v, sd, q, reduce) = Open(flip, sd, rest) /\ rest # 0
  BY <1>4, <1>7, <1>8, <1>9, <1>13
<1> QED BY <1>10, <1>11, <1>12, <1>13

\* close_position, whatever the row has become: it grows nothing, and of the row as it was
\* read it loses no unit.
LEMMA ClosedEffect ==
  ASSUME NEW v \in AccountType, NEW sd \in Sides, NEW id \in Nat, NEW q \in Nat
  PROVE  LET new == Closed(v, sd, id, q) IN
         /\ Follows(v, new)
         /\ OneSided(v.pos) => OneSided(new.pos)
         /\ v.pos[sd] = Row(id, q) => Sum(new.cash, new.pos) = Sum(v.cash, v.pos)
<1> DEFINE new == Closed(v, sd, id, q)
           row == v.pos[sd]
           left == IF row.id = id THEN (IF q >= row.qty THEN 0 ELSE row.qty - q) ELSE row.qty
<1>1. /\ row \in RowType /\ row.qty \in Nat /\ row.id \in Nat /\ v.cash \in Int
      /\ row = Row(row.id, row.qty)
  BY RowsAreRecords
<1>2. left \in Nat /\ left <= row.qty BY <1>1
<1>3. new = [cash |-> v.cash + Paid(Opp(sd), q), pos |-> [v.pos EXCEPT ![sd] = Row(row.id, left)]]
  <2>1. CASE row.id = id
    <3> DEFINE l == IF q >= row.qty THEN 0 ELSE row.qty - q
    <3>1. [row EXCEPT !.qty = l] = Row(row.id, left) BY <1>1, <2>1 DEF Row
    <3>2. new = [cash |-> v.cash + Paid(Opp(sd), q), pos |-> [v.pos EXCEPT ![sd] = [row EXCEPT !.qty = l]]]
      BY <2>1, RowsAreRecords DEF Closed
    <3> QED BY <3>1, <3>2
  <2>2. CASE row.id # id
    <3>1. [v.pos EXCEPT ![sd] = row] = v.pos BY RowsAreRecords
    <3>2. Row(row.id, left) = row BY <1>1, <2>2
    <3> QED BY <2>2, <3>1, <3>2 DEF Closed
  <2> QED BY <2>1, <2>2
<1>4. Row(row.id, left) \in RowType /\ v.cash + Paid(Opp(sd), q) \in Int
  BY <1>1, <1>2 DEF Row, RowType, Paid
<1> HIDE DEF left, new
<1>5. /\ new \in AccountType /\ new.cash = v.cash + Paid(Opp(sd), q)
      /\ new.pos[sd] = Row(row.id, left) /\ new.pos[Opp(sd)] = v.pos[Opp(sd)]
  BY <1>3, <1>4, Replaced
<1>6. new.pos[sd].qty = left /\ new.pos[sd].id = row.id BY <1>5 DEF Row
<1>7. RowFollows(row, new.pos[sd]) BY <1>1, <1>2, <1>4, <1>5, <1>6 DEF RowFollows
<1>8. RowFollows(v.pos[Opp(sd)], new.pos[Opp(sd)]) BY <1>5, RowsAreRecords, SidesAreTwo DEF RowFollows
<1>9. Follows(v, new) BY <1>5, <1>7, <1>8, SidesAreTwo DEF Follows
<1>10. OneSided(v.pos) => OneSided(new.pos)
  <2>1. CASE sd = "buy" BY <1>1, <1>2, <1>5, <1>6, <2>1, SidesAreTwo DEF OneSided
  <2>2. CASE sd = "sell" BY <1>1, <1>2, <1>5, <1>6, <2>2, SidesAreTwo DEF OneSided
  <2> QED BY <2>1, <2>2, SidesAreTwo
<1>11. ASSUME row = Row(id, q) PROVE Sum(new.cash, new.pos) = Sum(v.cash, v.pos)
  <2>1. row.id = id /\ row.qty = q BY <1>11 DEF Row
  <2>2. left = 0 BY <1>1, <2>1 DEF left
  <2>3. CASE sd = "buy" BY <1>1, <1>5, <1>6, <2>1, <2>2, <2>3, RowsAreRecords, SidesAreTwo DEF Sum, Paid
  <2>4. CASE sd = "sell" BY <1>1, <1>5, <1>6, <2>1, <2>2, <2>4, RowsAreRecords, SidesAreTwo DEF Sum, Paid
  <2> QED BY <2>3, <2>4, SidesAreTwo
<1> QED BY <1>9, <1>10, <1>11 DEF new

-----------------------------------------------------------------------------
(* The invariant *)

\* What a session holds of an open row is never an emptied one.
Known(p, w) ==
  \A s \in Sessions, sd \in Sides :
    /\ w[s].pos[sd].id <= p[sd].id
    /\ w[s].pos[sd].id = p[sd].id /\ w[s].pos[sd].qty = 0 => p[sd].qty = 0

AccountInv(c, p, w, sh) ==
  /\ c \in Int /\ p \in [Sides -> RowType] /\ w \in [Sessions -> AccountType]
  /\ RowsOpen(p)
  /\ Known(p, w)
  /\ ~Hedge => OneSided(p)
  \* As long as the passes book alone, the worker's copy is the account.
  /\ ~sh => w["worker"] = [cash |-> c, pos |-> p] /\ Sum(c, p) = 0

\* A leg names its sibling, which names it; the sibling of a stop leg is a limit.
Linked(os) ==
  \A o \in DOMAIN os :
    os[o].link > 0 =>
      /\ os[o].link \in DOMAIN os /\ os[os[o].link].link = o
      /\ os[os[o].link].side = os[o].side
      /\ os[o].kind = "stop_limit" => os[os[o].link].kind = "limit"

Leg(os, o) == os[o].kind = "stop_limit" /\ os[o].link > 0 /\ os[os[o].link].status = "filled"

OrdersInv(os) ==
  /\ os \in Seq(OrderType)
  /\ Linked(os)
  /\ \A o \in DOMAIN os : Leg(os, o) => os[o].status # "pending"

TickType ==
  [pc: {"idle", "liquidate", "orders", "stop", "fill", "exits", "close"},
   px: {"down", "flat", "up"}, rows: SUBSET Sides, scan: SUBSET Nat,
   dead: SUBSET Nat, side: Sides, id: Nat, qty: Nat, back: {"liquidate", "exits"}]

First(S) == CHOOSE o \in S : \A k \in S : o <= k

TickInv(t, os, p, sh) ==
  /\ t \in TickType
  /\ t.scan \subseteq DOMAIN os
  /\ t.pc = "close" /\ ~sh => p[t.side] = Row(t.id, t.qty)
  \* What the pass does to an order rests on what it saw of the price ...
  /\ t.pc \in {"stop", "fill"} => t.scan # {}
  /\ t.pc = "stop" => /\ os[First(t.scan)].kind # "limit"
                      /\ t.px = IF os[First(t.scan)].side = "buy" THEN "up" ELSE "down"
  /\ t.pc = "fill" => /\ os[First(t.scan)].kind = "limit"
                      /\ t.px = IF os[First(t.scan)].side = "buy" THEN "down" ELSE "up"
  \* ... and a leg whose sibling it filled is on the other side of it.
  /\ \A o \in t.scan : Leg(os, o) => t.px = IF os[o].side = "buy" THEN "down" ELSE "up"

OthersInv ==
  /\ market \in {"down", "flat", "up"}
  /\ entry \in [pc: {"idle", "scan", "latency"}, side: Sides, qty: Nat]
  /\ scale \in [pc: {"idle", "close"}, side: Sides, id: Nat, qty: Nat, done: [Sides -> Nat]]
  /\ api \in [pc: {"idle", "price", "latency"}, kind: {"market", "close"}, side: Sides,
              qty: Nat, reduce: BOOLEAN, made: Nat]
  /\ shared \in BOOLEAN
  \* The lock.
  /\ tick.pc = "idle" \/ entry.pc = "idle"

BrokerInv ==
  /\ AccountInv(cash, pos, view, shared)
  /\ OrdersInv(orders)
  /\ TickInv(tick, orders, pos, shared)
  /\ OthersInv

-----------------------------------------------------------------------------
(* The account *)

LEMMA SessionsAreTwo == "worker" \in Sessions /\ "api" \in Sessions
BY DEF Sessions

LEMMA AccountFacts ==
  ASSUME NEW c, NEW p, NEW w, NEW sh, AccountInv(c, p, w, sh)
  PROVE  /\ [cash |-> c, pos |-> p] \in AccountType
         /\ \A sd \in Sides : p[sd] \in RowType /\ p[sd].id \in Nat /\ p[sd].qty \in Nat
         /\ \A s \in Sessions, sd \in Sides :
              w[s] \in AccountType /\ w[s].pos[sd].id \in Nat /\ w[s].pos[sd].qty \in Nat
<1>1. c \in Int /\ p \in [Sides -> RowType] /\ w \in [Sessions -> AccountType] BY DEF AccountInv
<1>2. [cash |-> c, pos |-> p] \in AccountType BY <1>1 DEF AccountType
<1>3. \A s \in Sessions : w[s] \in AccountType BY <1>1
<1>4. \A sd \in Sides : p[sd] \in RowType BY <1>1
<1> QED BY <1>2, <1>3, <1>4, RowsAreRecords DEF RowType

\* What a query returns: the rows that are open, by their ids.
LEMMA SeenEffect ==
  ASSUME NEW sh, AccountInv(cash, pos, view, sh), NEW s \in Sessions
  PROVE  /\ Seen(s) \in AccountType /\ Seen(s).cash = view[s].cash
         /\ \A sd \in Sides : /\ Seen(s).pos[sd].id = pos[sd].id
                              /\ Seen(s).pos[sd].qty = 0 <=> pos[sd].qty = 0
         /\ ~Hedge => OneSided(Seen(s).pos)
         /\ ~sh => Seen("worker") = [cash |-> cash, pos |-> pos]
<1>1. /\ view[s] \in AccountType
      /\ \A sd \in Sides : /\ pos[sd] \in RowType /\ pos[sd].id \in Nat /\ pos[sd].qty \in Nat
                           /\ view[s].pos[sd] \in RowType /\ view[s].pos[sd].qty \in Nat
  <2>1. /\ view[s] \in AccountType
        /\ \A sd \in Sides : pos[sd] \in RowType /\ pos[sd].id \in Nat /\ pos[sd].qty \in Nat
    BY AccountFacts, SidesAreTwo
  <2>2. \A sd \in Sides : view[s].pos[sd] \in RowType /\ view[s].pos[sd].qty \in Nat
    BY <2>1, RowsAreRecords
  <2> QED BY <2>1, <2>2
<1> DEFINE p == [sd \in Sides |->
                   IF pos[sd].qty > 0 /\ view[s].pos[sd].id = pos[sd].id THEN view[s].pos[sd] ELSE pos[sd]]
<1>2. p \in [Sides -> RowType] BY <1>1
<1>3. Seen(s) = [cash |-> view[s].cash, pos |-> p] BY DEF Seen
<1>4. view[s].cash \in Int BY <1>1, RowsAreRecords
<1>5. Seen(s) \in AccountType /\ Seen(s).cash = view[s].cash /\ Seen(s).pos = p
  BY <1>2, <1>3, <1>4 DEF AccountType
<1>6. ASSUME NEW sd \in Sides PROVE p[sd].id = pos[sd].id /\ (p[sd].qty = 0 <=> pos[sd].qty = 0)
  <2>1. view[s].pos[sd].id = pos[sd].id /\ view[s].pos[sd].qty = 0 => pos[sd].qty = 0
    BY DEF AccountInv, Known
  <2> QED BY <1>1, <2>1
<1>7. ~Hedge => OneSided(Seen(s).pos) BY <1>5, <1>6 DEF AccountInv, OneSided, Sides
<1>8. ASSUME ~sh PROVE Seen("worker") = [cash |-> cash, pos |-> pos]
  <2>1. view["worker"] = [cash |-> cash, pos |-> pos] BY <1>8 DEF AccountInv
  <2>2. pos \in [Sides -> RowType] BY DEF AccountInv
  <2>3. [sd \in Sides |-> IF pos[sd].qty > 0 /\ pos[sd].id = pos[sd].id THEN pos[sd] ELSE pos[sd]] = pos
    BY <2>2
  <2> QED BY <2>1, <2>3 DEF Seen
<1> QED BY <1>5, <1>6, <1>7, <1>8

\* A booking that follows what its session has seen keeps the account.
LEMMA BookKeeps ==
  ASSUME AccountInv(cash, pos, view, shared), NEW s \in Sessions, NEW new, Book(s, new),
         Follows(Seen(s), new), ~Hedge => OneSided(new.pos),
         ~shared' => /\ ~shared /\ s = "worker"
                     /\ Sum(new.cash, new.pos) = Sum(Seen(s).cash, Seen(s).pos)
  PROVE  AccountInv(cash', pos', view', shared')
<1>1. /\ Seen(s) \in AccountType
      /\ \A sd \in Sides : /\ Seen(s).pos[sd].id = pos[sd].id
                           /\ Seen(s).pos[sd].qty = 0 <=> pos[sd].qty = 0
  BY SeenEffect
<1>2. new \in AccountType /\ \A sd \in Sides : RowFollows(Seen(s).pos[sd], new.pos[sd])
  BY DEF Follows
<1>3. /\ cash' = IF new.cash = view[s].cash THEN cash ELSE new.cash
      /\ pos' = [sd \in Sides |-> IF new.pos[sd] = Seen(s).pos[sd] THEN pos[sd] ELSE new.pos[sd]]
      /\ view' = [view EXCEPT ![s] = new]
  BY DEF Book
<1>4. /\ cash \in Int /\ pos \in [Sides -> RowType] /\ view \in [Sessions -> AccountType]
      /\ RowsOpen(pos) /\ Known(pos, view) /\ (~Hedge => OneSided(pos))
      /\ ~shared => view["worker"] = [cash |-> cash, pos |-> pos] /\ Sum(cash, pos) = 0
  BY DEF AccountInv
<1>5. \A sd \in Sides : /\ pos[sd].id \in Nat /\ pos[sd].qty \in Nat
                        /\ new.pos[sd] \in RowType /\ new.pos[sd].id \in Nat /\ new.pos[sd].qty \in Nat
                        /\ Seen(s).pos[sd].id \in Nat /\ Seen(s).pos[sd].qty \in Nat
  BY <1>1, <1>2, AccountFacts, RowsAreRecords
<1>6. cash' \in Int BY <1>2, <1>3, <1>4, RowsAreRecords
<1>7. pos' \in [Sides -> RowType] BY <1>3, <1>4, <1>5
<1>8. view' \in [Sessions -> AccountType] BY <1>2, <1>3, <1>4
<1>9. ASSUME NEW sd \in Sides
      PROVE  /\ pos'[sd] = IF new.pos[sd] = Seen(s).pos[sd] THEN pos[sd] ELSE new.pos[sd]
             /\ pos'[sd].id = new.pos[sd].id /\ (pos'[sd].qty = 0 <=> new.pos[sd].qty = 0)
             /\ pos'[sd].id >= pos[sd].id
             /\ pos'[sd].qty > 0 /\ pos[sd].qty = 0 => pos'[sd].id > pos[sd].id
             /\ pos'[sd].qty > 0 /\ (pos[sd].qty > 0 => pos[sd].id > 0) => pos'[sd].id > 0
  <2>1. pos'[sd] = IF new.pos[sd] = Seen(s).pos[sd] THEN pos[sd] ELSE new.pos[sd] BY <1>3
  <2>2. RowFollows(Seen(s).pos[sd], new.pos[sd]) BY <1>2
  <2>3. CASE new.pos[sd] = Seen(s).pos[sd] BY <1>1, <1>5, <2>1, <2>2, <2>3 DEF RowFollows
  <2>4. CASE new.pos[sd] # Seen(s).pos[sd] BY <1>1, <1>5, <2>1, <2>2, <2>4 DEF RowFollows
  <2> QED BY <2>3, <2>4
<1>10. RowsOpen(pos') BY <1>4, <1>9 DEF RowsOpen
<1>11. Known(pos', view')
  <2> SUFFICES ASSUME NEW x \in Sessions, NEW sd \in Sides
               PROVE  /\ view'[x].pos[sd].id <= pos'[sd].id
                      /\ view'[x].pos[sd].id = pos'[sd].id /\ view'[x].pos[sd].qty = 0 => pos'[sd].qty = 0
    BY DEF Known
  <2>1. CASE x = s
    <3>1. view'[x] = new BY <1>3, <1>4, <2>1
    <3> QED BY <3>1, <1>5, <1>9
  <2>2. CASE x # s
    <3>1. view'[x] = view[x] BY <1>3, <1>4, <2>2
    <3>2. /\ view[x].pos[sd].id <= pos[sd].id
          /\ view[x].pos[sd].id = pos[sd].id /\ view[x].pos[sd].qty = 0 => pos[sd].qty = 0
      BY <1>4 DEF Known
    <3>3. view[x].pos[sd].id \in Nat /\ view[x].pos[sd].qty \in Nat BY AccountFacts
    <3>4. pos'[sd].id \in Nat /\ pos'[sd].qty \in Nat BY <1>7, RowsAreRecords DEF RowType
    <3>5. pos'[sd].id >= pos[sd].id /\ (pos'[sd].qty > 0 /\ pos[sd].qty = 0 => pos'[sd].id > pos[sd].id)
      BY <1>9
    <3> QED BY <3>1, <3>2, <3>3, <3>4, <3>5, <1>5
  <2> QED BY <2>1, <2>2
<1>12. ~Hedge => OneSided(pos') BY <1>9 DEF OneSided, Sides
<1>13. ASSUME ~shared' PROVE view'["worker"] = [cash |-> cash', pos |-> pos'] /\ Sum(cash', pos') = 0
  <2>1. /\ ~shared /\ s = "worker" /\ Seen(s) = [cash |-> cash, pos |-> pos]
        /\ view[s] = [cash |-> cash, pos |-> pos]
    BY <1>13, <1>4, SeenEffect
  <2>2. cash' = new.cash BY <1>3, <2>1
  <2>3. \A sd \in Sides : pos'[sd] = new.pos[sd] BY <1>9, <2>1
  <2>4. new.pos \in [Sides -> RowType] /\ new = [cash |-> new.cash, pos |-> new.pos]
    BY <1>2, RowsAreRecords
  <2>5. pos' = new.pos BY <1>7, <2>3, <2>4
  <2>6. view'["worker"] = new BY <1>3, <1>4, <2>1
  <2>7. Sum(new.cash, new.pos) = 0 BY <1>13, <1>4, <2>1
  <2> QED BY <2>2, <2>4, <2>5, <2>6, <2>7
<1> QED BY <1>6, <1>7, <1>8, <1>10, <1>11, <1>12, <1>13 DEF AccountInv

\* A session that loads rows, or keeps what it has, keeps the account too.
LEMMA LoadKeeps ==
  ASSUME NEW c, NEW p, NEW w, NEW sh, AccountInv(c, p, w, sh),
         NEW s \in Sessions, NEW copy \in AccountType,
         \A sd \in Sides : /\ copy.pos[sd].id <= p[sd].id
                           /\ copy.pos[sd].id = p[sd].id /\ copy.pos[sd].qty = 0 => p[sd].qty = 0,
         ~sh /\ s = "worker" => copy = [cash |-> c, pos |-> p]
  PROVE  AccountInv(c, p, [w EXCEPT ![s] = copy], sh)
<1> DEFINE new == [w EXCEPT ![s] = copy]
<1>1. w \in [Sessions -> AccountType] BY DEF AccountInv
<1>2. new \in [Sessions -> AccountType] /\ new[s] = copy /\ \A x \in Sessions : x # s => new[x] = w[x]
  BY <1>1
<1> HIDE DEF new
<1>3. Known(p, new)
  <2> SUFFICES ASSUME NEW x \in Sessions, NEW sd \in Sides
               PROVE  /\ new[x].pos[sd].id <= p[sd].id
                      /\ new[x].pos[sd].id = p[sd].id /\ new[x].pos[sd].qty = 0 => p[sd].qty = 0
    BY DEF Known
  <2>1. CASE x = s BY <1>2, <2>1
  <2>2. CASE x # s BY <1>2, <2>2 DEF AccountInv, Known
  <2> QED BY <2>1, <2>2
<1>4. ~sh => new["worker"] = [cash |-> c, pos |-> p] BY <1>2, SessionsAreTwo DEF AccountInv
<1>5. AccountInv(c, p, new, sh) BY <1>2, <1>3, <1>4 DEF AccountInv
<1> QED BY <1>5 DEF new

-----------------------------------------------------------------------------
(* The orders *)

\* The same order: only its status and what it has filled may differ.
SameOrder(old, new) ==
  new.kind = old.kind /\ new.side = old.side /\ new.link = old.link

LEMMA FunctionIsSeq ==
  ASSUME NEW T, NEW os \in Seq(T), NEW new, new = [k \in DOMAIN os |-> new[k]],
         \A k \in DOMAIN os : new[k] \in T
  PROVE  new \in Seq(T) /\ DOMAIN new = DOMAIN os
BY SeqDef, LenProperties

\* A set of numbers has a least one.
LEMMA LeastOf ==
  ASSUME NEW S, S \subseteq Nat, S # {}
  PROVE  First(S) \in S
<1> DEFINE R == {ss \in Nat \X Nat : ss[1] < ss[2]}
<1>1. IsWellFoundedOn(OpToRel(<, Nat), Nat) BY NatLessThanWellFounded
<1>2. OpToRel(<, Nat) = R BY DEF OpToRel
<1>3. IsWellFoundedOn(R, Nat) BY <1>1, <1>2
<1>4. \A x, y \in Nat : x < y => <<x, y>> \in R OBVIOUS
<1> HIDE DEF R
<1>5. PICK x \in S : \A y \in S : ~(<<y, x>> \in R) BY <1>3, WFMin
<1>6. ASSUME NEW y \in S PROVE x <= y
  <2>1. x \in Nat /\ y \in Nat /\ ~(<<y, x>> \in R) BY <1>5
  <2>2. ~(y < x) BY <1>4, <2>1
  <2> QED BY <2>1, <2>2
<1> QED BY <1>6 DEF First

LEMMA OrderFacts ==
  ASSUME NEW os, OrdersInv(os), NEW o \in DOMAIN os
  PROVE  /\ os[o] \in OrderType /\ o \in Nat \ {0} /\ os[o].link \in Nat /\ os[o].filled \in Nat
         /\ os[o].qty \in Nat /\ os[o].side \in Sides
         /\ os[o].link > 0 => /\ os[o].link \in DOMAIN os /\ os[os[o].link].link = o
                              /\ os[os[o].link].side = os[o].side
                              /\ os[o].kind = "stop_limit" => os[os[o].link].kind = "limit"
<1>1. os \in Seq(OrderType) BY DEF OrdersInv
<1>2. os[o] \in OrderType /\ o \in Nat \ {0} BY <1>1, LenProperties
<1> QED BY <1>2 DEF OrdersInv, Linked, OrderType

\* The orders are rewritten in place and none of a pair is left pending beside a filled one.
LEMMA Rewritten ==
  ASSUME NEW os, OrdersInv(os), NEW new, new = [k \in DOMAIN os |-> new[k]],
         \A k \in DOMAIN os : new[k] \in OrderType /\ SameOrder(os[k], new[k]),
         \A k \in DOMAIN os : Leg(new, k) => new[k].status # "pending"
  PROVE  OrdersInv(new) /\ DOMAIN new = DOMAIN os
<1>1. new \in Seq(OrderType) /\ DOMAIN new = DOMAIN os BY FunctionIsSeq DEF OrdersInv
<1>2. Linked(new)
  <2> SUFFICES ASSUME NEW o \in DOMAIN os, new[o].link > 0
               PROVE  /\ new[o].link \in DOMAIN os /\ new[new[o].link].link = o
                      /\ new[new[o].link].side = new[o].side
                      /\ new[o].kind = "stop_limit" => new[new[o].link].kind = "limit"
    BY <1>1 DEF Linked
  <2>1. SameOrder(os[o], new[o]) OBVIOUS
  <2>2. os[o].link > 0 BY <2>1 DEF SameOrder
  <2>3. os[o].link \in DOMAIN os BY <2>2, OrderFacts
  <2>4. SameOrder(os[os[o].link], new[os[o].link]) BY <2>3
  <2> QED BY <2>1, <2>2, <2>3, <2>4, OrderFacts DEF SameOrder
<1> QED BY <1>1, <1>2 DEF OrdersInv

LEMMA CancelLinkedEffect ==
  ASSUME NEW os, NEW o \in DOMAIN os, os \in Seq(OrderType)
  PROVE  LET new == CancelLinked(os, o) IN
         /\ new = [k \in DOMAIN os |-> new[k]]
         /\ \A k \in DOMAIN os : /\ new[k] \in OrderType /\ SameOrder(os[k], new[k])
                                 /\ new[k].filled = os[k].filled
                                 /\ new[k].status \in {os[k].status, "cancelled"}
                                 /\ k # os[o].link => new[k] = os[k]
         /\ os[o].link > 0 => new[os[o].link].status # "pending" \/ os[o].link \notin DOMAIN os
<1> DEFINE new == CancelLinked(os, o)
<1>1. new = [k \in DOMAIN os |->
               IF k \in Siblings(os, o) THEN [os[k] EXCEPT !.status = "cancelled"] ELSE os[k]]
  BY DEF CancelLinked
<1>2. new = [k \in DOMAIN os |-> new[k]] BY <1>1
<1>3. ASSUME NEW k \in DOMAIN os
      PROVE  /\ new[k] \in OrderType /\ SameOrder(os[k], new[k])
             /\ new[k].filled = os[k].filled /\ new[k].status \in {os[k].status, "cancelled"}
             /\ k # os[o].link => new[k] = os[k]
  <2>1. os[k] \in OrderType BY LenProperties
  <2>2. new[k] = IF k \in Siblings(os, o) THEN [os[k] EXCEPT !.status = "cancelled"] ELSE os[k]
    BY <1>1
  <2>3. k # os[o].link => k \notin Siblings(os, o) BY DEF Siblings
  <2> HIDE DEF new
  <2> QED BY <2>1, <2>2, <2>3 DEF OrderType, SameOrder, Terminal
<1>4. ASSUME os[o].link > 0, os[o].link \in DOMAIN os PROVE new[os[o].link].status # "pending"
  <2>1. os[os[o].link] \in OrderType BY <1>4, LenProperties
  <2>2. CASE os[os[o].link].status \in Terminal
    BY <1>1, <1>4, <2>1, <2>2 DEF Terminal, Siblings
  <2>3. CASE os[os[o].link].status \notin Terminal
    <3>1. new[os[o].link] = [os[os[o].link] EXCEPT !.status = "cancelled"] BY <1>1, <1>4, <2>3 DEF Siblings
    <3> HIDE DEF new
    <3> QED BY <2>1, <3>1 DEF OrderType
  <2> QED BY <2>2, <2>3
<1> QED BY <1>2, <1>3, <1>4

\* A cancelled order takes its sibling along, and nothing becomes pending or filled.
LEMMA CancelEffect ==
  ASSUME NEW os, OrdersInv(os), NEW o \in DOMAIN os
  PROVE  LET new == Cancelled(os, o) IN
         /\ OrdersInv(new) /\ DOMAIN new = DOMAIN os
         /\ \A k \in DOMAIN os : /\ SameOrder(os[k], new[k]) /\ new[k].filled = os[k].filled
                                 /\ new[k].status \in {os[k].status, "cancelled"}
<1> DEFINE mid == [os EXCEPT ![o].status = "cancelled"]
           new == Cancelled(os, o)
<1>1. os \in Seq(OrderType) /\ os[o] \in OrderType BY OrderFacts DEF OrdersInv
<1>2. mid = [k \in DOMAIN os |-> IF k = o THEN [os[o] EXCEPT !.status = "cancelled"] ELSE os[k]]
  BY <1>1
<1>3. mid = [k \in DOMAIN os |-> mid[k]] BY <1>2
<1>4. ASSUME NEW k \in DOMAIN os
      PROVE  /\ mid[k] \in OrderType /\ SameOrder(os[k], mid[k]) /\ mid[k].filled = os[k].filled
             /\ mid[k].status \in {os[k].status, "cancelled"}
  <2>1. os[k] \in OrderType BY <1>1, LenProperties
  <2>2. mid[k] = IF k = o THEN [os[o] EXCEPT !.status = "cancelled"] ELSE os[k] BY <1>2
  <2> HIDE DEF mid
  <2>3. CASE k # o BY <2>1, <2>2, <2>3 DEF SameOrder
  <2>4. CASE k = o
    <3> DEFINE v == [os[o] EXCEPT !.status = "cancelled"]
    <3>1. v \in OrderType BY <1>1 DEF OrderType, Terminal
    <3>2. SameOrder(os[o], v) /\ v.filled = os[o].filled /\ v.status = "cancelled" BY <1>1 DEF OrderType, SameOrder
    <3> HIDE DEF v
    <3> QED BY <2>2, <2>4, <3>1, <3>2 DEF v
  <2> QED BY <2>3, <2>4
<1> HIDE DEF mid
<1>5. mid \in Seq(OrderType) /\ DOMAIN mid = DOMAIN os BY <1>1, <1>3, <1>4, FunctionIsSeq
<1>6. new = CancelLinked(mid, o) BY DEF Cancelled, mid
<1> HIDE DEF new
<1>7. /\ new = [k \in DOMAIN os |-> new[k]]
      /\ \A k \in DOMAIN os : /\ new[k] \in OrderType /\ SameOrder(mid[k], new[k])
                              /\ new[k].filled = mid[k].filled
                              /\ new[k].status \in {mid[k].status, "cancelled"}
  BY <1>5, <1>6, CancelLinkedEffect
<1>8. \A k \in DOMAIN os : /\ new[k] \in OrderType /\ SameOrder(os[k], new[k])
                           /\ new[k].filled = os[k].filled
                           /\ new[k].status \in {os[k].status, "cancelled"}
  BY <1>4, <1>7 DEF SameOrder
<1>9. ASSUME NEW k \in DOMAIN os, Leg(new, k) PROVE new[k].status # "pending"
  <2>1. os[k].link > 0 /\ new[k].link = os[k].link /\ os[k].kind = "stop_limit" /\ os[k].link \in DOMAIN os
    BY <1>8, <1>9, OrderFacts DEF Leg, SameOrder
  <2>2. os[os[k].link].status = "filled" BY <1>8, <1>9, <2>1 DEF Leg
  <2>3. os[k].status # "pending" BY <2>1, <2>2 DEF OrdersInv, Leg
  <2> QED BY <1>8, <2>3
<1>10. OrdersInv(new) /\ DOMAIN new = DOMAIN os BY <1>7, <1>8, <1>9, Rewritten
<1> QED BY <1>8, <1>10 DEF new

LEMMA ExecutedEffect ==
  ASSUME OrdersInv(orders), NEW o \in DOMAIN orders, NEW f \in Nat, NEW rejected
  PROVE  LET new == Executed(o, f, rejected) IN
         /\ new \in Seq(OrderType) /\ DOMAIN new = DOMAIN orders
         /\ new[o].status # "pending"
         /\ \A k \in DOMAIN orders : /\ new[k] \in OrderType /\ SameOrder(orders[k], new[k])
                                     /\ k # o => new[k] = orders[k]
<1> DEFINE new == Executed(o, f, rejected)
           st == StatusAfter(o, f, rejected)
           all == orders[o].filled + f
           row == [orders[o] EXCEPT !.filled = all, !.status = st]
<1>1. orders \in Seq(OrderType) /\ orders[o] \in OrderType /\ orders[o].filled \in Nat
  BY OrderFacts DEF OrdersInv
<1>2. st \in {"filled", "rejected", "partially_filled"} BY DEF StatusAfter
<1>3. new = [k \in DOMAIN orders |-> IF k = o THEN row ELSE orders[k]]
  BY <1>1 DEF Executed
<1>0. all \in Nat BY <1>1
<1> HIDE DEF st, all
<1>4. row \in OrderType /\ SameOrder(orders[o], row) /\ row.status = st
  BY <1>0, <1>1, <1>2 DEF OrderType, SameOrder, Terminal
<1>5. \A k \in DOMAIN orders : orders[k] \in OrderType BY <1>1, LenProperties
<1>6. new = [k \in DOMAIN orders |-> new[k]] BY <1>3
<1>7. new[o] = row /\ \A k \in DOMAIN orders : k # o => new[k] = orders[k] BY <1>3
<1> HIDE DEF new, row
<1>8. \A k \in DOMAIN orders : /\ new[k] \in OrderType /\ SameOrder(orders[k], new[k])
                               /\ k # o => new[k] = orders[k]
  BY <1>4, <1>5, <1>7 DEF SameOrder
<1>9. new \in Seq(OrderType) /\ DOMAIN new = DOMAIN orders BY <1>1, <1>6, <1>8, FunctionIsSeq
<1> QED BY <1>2, <1>4, <1>7, <1>8, <1>9 DEF new

\* A booked execution: the sibling of a limit that has filled is pending no more.
LEMMA BookedEffect ==
  ASSUME OrdersInv(orders), NEW o \in DOMAIN orders, NEW f \in Nat, NEW rejected,
         NEW limit \in BOOLEAN, orders[o].kind = "limit" => limit
  PROVE  LET done == Executed(o, f, rejected)
             new == IF limit /\ done[o].status = "filled" THEN CancelLinked(done, o) ELSE done
         IN /\ OrdersInv(new) /\ DOMAIN new = DOMAIN orders
            /\ \A k \in DOMAIN orders :
                 /\ SameOrder(orders[k], new[k])
                 /\ k # o => new[k].filled = orders[k].filled
                 /\ k # o /\ new[k].status = "filled" => orders[k].status = "filled"
<1> DEFINE done == Executed(o, f, rejected)
           links == limit /\ done[o].status = "filled"
           new == IF links THEN CancelLinked(done, o) ELSE done
<1>1. /\ done \in Seq(OrderType) /\ DOMAIN done = DOMAIN orders
      /\ done[o].status # "pending"
      /\ \A k \in DOMAIN orders : /\ done[k] \in OrderType /\ SameOrder(orders[k], done[k])
                                  /\ k # o => done[k] = orders[k]
  BY ExecutedEffect
<1> HIDE DEF done
<1>2. /\ new = [k \in DOMAIN orders |-> new[k]]
      /\ \A k \in DOMAIN orders : /\ new[k] \in OrderType /\ SameOrder(done[k], new[k])
                                  /\ new[k].filled = done[k].filled
                                  /\ new[k].status \in {done[k].status, "cancelled"}
      /\ links /\ done[o].link > 0 /\ done[o].link \in DOMAIN orders => new[done[o].link].status # "pending"
  <2>1. CASE links BY <1>1, <2>1, CancelLinkedEffect
  <2>2. CASE ~links
    <3>1. new = done BY <2>2
    <3>2. done = [k \in DOMAIN orders |-> done[k]] BY <1>1, SeqDef
    <3> HIDE DEF new, links
    <3> QED BY <1>1, <2>2, <3>1, <3>2 DEF SameOrder
  <2> QED BY <2>1, <2>2
<1> HIDE DEF new
<1>3. \A k \in DOMAIN orders : /\ new[k] \in OrderType /\ SameOrder(orders[k], new[k])
                               /\ k # o => /\ new[k].filled = orders[k].filled
                                           /\ new[k].status \in {orders[k].status, "cancelled"}
  BY <1>1, <1>2 DEF SameOrder
<1>4. ASSUME NEW k \in DOMAIN orders, Leg(new, k) PROVE new[k].status # "pending"
  <2> DEFINE j == orders[k].link
  <2>1. /\ j > 0 /\ new[k].link = j /\ orders[k].kind = "stop_limit" /\ j \in DOMAIN orders
        /\ orders[j].link = k /\ orders[j].kind = "limit"
    BY <1>3, <1>4, OrderFacts DEF Leg, SameOrder
  <2>2. new[j].status = "filled" BY <1>4, <2>1 DEF Leg
  <2> HIDE DEF j
  <2>3. CASE j = o
    <3>1. done[o].status = "filled" BY <1>2, <2>1, <2>2, <2>3
    <3>2. links BY <2>1, <2>3, <3>1
    <3>3. done[o].link = k /\ k > 0 BY <1>1, <2>1, <2>3, OrderFacts DEF SameOrder
    <3> QED BY <1>2, <3>2, <3>3
  <2>4. CASE j # o
    <3>1. orders[j].status = "filled" BY <1>3, <2>1, <2>2, <2>4
    <3>2. orders[k].status # "pending" BY <2>1, <3>1 DEF OrdersInv, Leg, j
    <3>3. CASE k = o BY <1>1, <1>2, <3>3
    <3>4. CASE k # o BY <1>3, <3>2, <3>4
    <3> QED BY <3>3, <3>4
  <2> QED BY <2>3, <2>4
<1>5. OrdersInv(new) /\ DOMAIN new = DOMAIN orders BY <1>2, <1>3, <1>4, Rewritten
<1> QED BY <1>3, <1>5 DEF new, done

LEMMA Appended ==
  ASSUME NEW T, NEW os \in Seq(T), NEW more \in Seq(T)
  PROVE  LET new == os \o more IN
         /\ new \in Seq(T) /\ DOMAIN new = 1..Len(os) + Len(more)
         /\ DOMAIN os = 1..Len(os) /\ Len(os) \in Nat
         /\ \A k \in 1..Len(os) : new[k] = os[k]
         /\ \A k \in 1..Len(more) : new[Len(os) + k] = more[k]
<1> DEFINE new == os \o more
<1>1. Len(os) \in Nat /\ Len(more) \in Nat /\ DOMAIN os = 1..Len(os) BY LenProperties
<1>2. /\ new \in Seq(T) /\ Len(new) = Len(os) + Len(more)
      /\ \A i \in 1..Len(os) + Len(more) : new[i] = IF i <= Len(os) THEN os[i] ELSE more[i - Len(os)]
  BY ConcatProperties
<1> HIDE DEF new
<1>3. DOMAIN new = 1..Len(os) + Len(more) BY <1>2, LenProperties
<1>4. \A k \in 1..Len(os) : new[k] = os[k] BY <1>1, <1>2
<1>5. ASSUME NEW k \in 1..Len(more) PROVE new[Len(os) + k] = more[k]
  <2>1. Len(os) + k \in 1..Len(os) + Len(more) /\ ~(Len(os) + k <= Len(os)) /\ Len(os) + k - Len(os) = k
    BY <1>1
  <2> QED BY <1>2, <2>1
<1> QED BY <1>1, <1>2, <1>3, <1>4, <1>5 DEF new

\* What is placed comes after the others, and a pair names itself.
LEMMA PlacedEffect ==
  ASSUME NEW os, OrdersInv(os), NEW t \in Templates
  PROVE  LET new == os \o (IF t.kind = "oco" THEN Pair(t, Len(os)) ELSE <<Order(t, t.kind, 0)>>) IN
         OrdersInv(new) /\ \A k \in DOMAIN os : k \in DOMAIN new /\ new[k] = os[k]
<1> DEFINE n == Len(os)
           new == os \o (IF t.kind = "oco" THEN Pair(t, n) ELSE <<Order(t, t.kind, 0)>>)
<1>1. os \in Seq(OrderType) /\ n \in Nat /\ DOMAIN os = 1..n BY LenProperties DEF OrdersInv
<1>2. t \in [kind: {"limit", "stop", "stop_limit", "oco"}, side: {"buy", "sell"}, qty: Nat \ {0},
             tif: {"GTC", "IOC", "FOK", "POST"}, reduce: BOOLEAN, priced: BOOLEAN]
  BY TemplatesAssumption
<1>3. \A k \in 1..n :
        /\ os[k].link > 0 => /\ os[k].link \in 1..n /\ os[os[k].link].link = k
                             /\ os[os[k].link].side = os[k].side
                             /\ os[k].kind = "stop_limit" => os[os[k].link].kind = "limit"
        /\ Leg(os, k) => os[k].status # "pending"
  BY <1>1, OrderFacts DEF OrdersInv
<1>4. CASE t.kind # "oco"
  <2> DEFINE x == Order(t, t.kind, 0)
  <2>1. x \in OrderType /\ x.link = 0 BY <1>2, <1>4 DEF Order, OrderType, Sides
  <2>2. new = os \o <<x>> BY <1>4
  <2> HIDE DEF x, new
  <2>3. <<x>> \in Seq(OrderType) /\ Len(<<x>>) = 1 /\ <<x>>[1] = x BY <2>1
  <2>4. /\ new \in Seq(OrderType) /\ DOMAIN new = 1..n+1
        /\ new[n+1] = x /\ \A k \in 1..n : new[k] = os[k]
    BY <1>1, <2>2, <2>3, Appended
  <2> HIDE DEF n
  <2>5. \A k \in 1..n+1 : k = n+1 \/ k \in 1..n BY <1>1
  <2>6. Linked(new) BY <1>1, <1>3, <2>1, <2>4, <2>5 DEF Linked
  <2>7. \A k \in 1..n+1 : Leg(new, k) => new[k].status # "pending"
    BY <1>1, <1>3, <2>1, <2>4, <2>5 DEF Leg
  <2>8. OrdersInv(new) /\ \A k \in DOMAIN os : k \in DOMAIN new /\ new[k] = os[k]
    BY <1>1, <2>4, <2>6, <2>7 DEF OrdersInv
  <2> QED BY <2>8 DEF new, n
<1>5. CASE t.kind = "oco"
  <2> DEFINE x == Order([t EXCEPT !.reduce = TRUE, !.priced = TRUE], "limit", n + 2)
             y == Order([t EXCEPT !.reduce = TRUE], "stop_limit", n + 1)
  <2>1. /\ x \in OrderType /\ x.link = n + 2 /\ x.kind = "limit" /\ x.side = t.side /\ x.status = "pending"
        /\ y \in OrderType /\ y.link = n + 1 /\ y.kind = "stop_limit" /\ y.side = t.side
    <3> HIDE DEF n
    <3> QED BY <1>1, <1>2 DEF Order, OrderType, Sides
  <2>2. new = os \o <<x, y>> BY <1>5 DEF Pair
  <2> HIDE DEF x, y, new
  <2>3. <<x, y>> \in Seq(OrderType) /\ Len(<<x, y>>) = 2 /\ <<x, y>>[1] = x /\ <<x, y>>[2] = y BY <2>1
  <2>4. /\ new \in Seq(OrderType) /\ DOMAIN new = 1..n+2
        /\ new[n+1] = x /\ new[n+2] = y /\ \A k \in 1..n : new[k] = os[k]
    <3>1. 1 \in 1..Len(<<x, y>>) /\ 2 \in 1..Len(<<x, y>>) BY <2>3
    <3> QED BY <1>1, <2>2, <2>3, <3>1, Appended
  <2> HIDE DEF n
  <2>5. \A k \in 1..n+2 : k = n+1 \/ k = n+2 \/ k \in 1..n BY <1>1
  <2>6. ASSUME NEW k \in 1..n+2, new[k].link > 0
        PROVE  /\ new[k].link \in 1..n+2 /\ new[new[k].link].link = k
               /\ new[new[k].link].side = new[k].side
               /\ new[k].kind = "stop_limit" => new[new[k].link].kind = "limit"
    <3>1. CASE k = n+1 BY <1>1, <2>1, <2>4, <3>1
    <3>2. CASE k = n+2 BY <1>1, <2>1, <2>4, <3>2
    <3>3. CASE k \in 1..n
      <4>1. new[k] = os[k] BY <2>4, <3>3
      <4>2. os[k].link \in 1..n BY <1>3, <2>6, <3>3, <4>1
      <4>3. new[os[k].link] = os[os[k].link] BY <2>4, <4>2
      <4>4. os[k].link \in 1..n+2 BY <1>1, <4>2
      <4> QED BY <1>3, <2>6, <3>3, <4>1, <4>3, <4>4
    <3> QED BY <2>5, <3>1, <3>2, <3>3
  <2>7. Linked(new) BY <2>4, <2>6 DEF Linked
  <2>8. ASSUME NEW k \in 1..n+2, Leg(new, k) PROVE new[k].status # "pending"
    <3>1. CASE k = n+1 BY <2>1, <2>4, <2>8, <3>1 DEF Leg
    <3>2. CASE k = n+2 BY <2>1, <2>4, <2>8, <3>2 DEF Leg
    <3>3. CASE k \in 1..n
      <4>1. new[k] = os[k] BY <2>4, <3>3
      <4>2. os[k].link > 0 /\ os[k].kind = "stop_limit" BY <2>8, <4>1 DEF Leg
      <4>3. new[os[k].link] = os[os[k].link] BY <1>3, <2>4, <3>3, <4>2
      <4>4. Leg(os, k) BY <2>8, <4>1, <4>3 DEF Leg
      <4> QED BY <1>3, <3>3, <4>1, <4>4
    <3> QED BY <2>5, <3>1, <3>2, <3>3
  <2>9. OrdersInv(new) /\ \A k \in DOMAIN os : k \in DOMAIN new /\ new[k] = os[k]
    BY <1>1, <2>4, <2>7, <2>8 DEF OrdersInv
  <2> QED BY <2>9 DEF new, n
<1> QED BY <1>4, <1>5

-----------------------------------------------------------------------------
(* The account in every step *)

LEMMA InvParts ==
  ASSUME BrokerInv
  PROVE  /\ AccountInv(cash, pos, view, shared) /\ OrdersInv(orders)
         /\ TickInv(tick, orders, pos, shared) /\ OthersInv
BY DEF BrokerInv

LEMMA LoadedFacts ==
  ASSUME AccountInv(cash, pos, view, shared)
  PROVE  /\ Loaded \in [Sides -> RowType]
         /\ \A sd \in Sides : /\ Loaded[sd].id = pos[sd].id /\ pos[sd].id \in Nat
                              /\ Loaded[sd].qty = 0 <=> pos[sd].qty = 0
         /\ ~shared => Loaded = pos
<1>1. /\ Seen("worker") \in AccountType
      /\ \A sd \in Sides : /\ Seen("worker").pos[sd].id = pos[sd].id
                           /\ Seen("worker").pos[sd].qty = 0 <=> pos[sd].qty = 0
      /\ ~shared => Seen("worker") = [cash |-> cash, pos |-> pos]
  BY SeenEffect, SessionsAreTwo
<1>2. Seen("worker").pos \in [Sides -> RowType] BY <1>1, RowsAreRecords
<1>3. pos \in [Sides -> RowType] /\ \A sd \in Sides : pos[sd].id \in Nat BY AccountFacts DEF AccountInv
<1>4. ~shared => Seen("worker").pos = pos BY <1>1
<1> QED BY <1>1, <1>2, <1>3, <1>4 DEF Loaded

\* The worker reads its copy of the cash again, or not, and its rows.
LEMMA WorkerLoads ==
  ASSUME AccountInv(cash, pos, view, shared), NEW c \in {cash, view["worker"].cash},
         NEW p \in {Loaded, view["worker"].pos},
         view' = [view EXCEPT !["worker"] = [cash |-> c, pos |-> p]],
         cash' = cash, pos' = pos, shared' = shared
  PROVE  AccountInv(cash', pos', view', shared')
<1> DEFINE copy == [cash |-> c, pos |-> p]
<1>1. view["worker"] \in AccountType BY SessionsAreTwo DEF AccountInv
<1>2. view["worker"].cash \in Int /\ view["worker"].pos \in [Sides -> RowType] BY <1>1, RowsAreRecords
<1>3. c \in Int /\ p \in [Sides -> RowType] BY <1>2, LoadedFacts DEF AccountInv
<1>4. copy \in AccountType BY <1>3 DEF AccountType
<1>5. \A sd \in Sides : /\ copy.pos[sd].id <= pos[sd].id
                        /\ copy.pos[sd].id = pos[sd].id /\ copy.pos[sd].qty = 0 => pos[sd].qty = 0
  <2>1. CASE p = Loaded BY <2>1, LoadedFacts
  <2>2. CASE p = view["worker"].pos BY <2>2, SessionsAreTwo DEF AccountInv, Known
  <2> QED BY <2>1, <2>2
<1>6. ASSUME ~shared PROVE copy = [cash |-> cash, pos |-> pos]
  <2>1. view["worker"] = [cash |-> cash, pos |-> pos] BY <1>6 DEF AccountInv
  <2> QED BY <1>6, <2>1, LoadedFacts
<1> HIDE DEF copy
<1>7. AccountInv(cash, pos, [view EXCEPT !["worker"] = copy], shared)
  BY <1>4, <1>5, <1>6, LoadKeeps, SessionsAreTwo
<1> QED BY <1>7 DEF copy

\* A request loads no row, or the rows as they are.
LEMMA RequestLoads ==
  ASSUME AccountInv(cash, pos, view, shared), NEW c \in {cash, view["api"].cash},
         NEW p \in {pos, NoRows},
         view' = [view EXCEPT !["api"] = [cash |-> c, pos |-> p]],
         cash' = cash, pos' = pos, shared' = shared
  PROVE  AccountInv(cash', pos', view', shared')
<1> DEFINE copy == [cash |-> c, pos |-> p]
<1>1. view["api"].cash \in Int BY SessionsAreTwo, RowsAreRecords DEF AccountInv
<1>2. NoRows \in [Sides -> RowType] /\ \A sd \in Sides : NoRows[sd].id = 0 /\ NoRows[sd].qty = 0
  BY DEF NoRows, Row, RowType
<1>3. copy \in AccountType BY <1>1, <1>2 DEF AccountType, AccountInv
<1>4. \A sd \in Sides : pos[sd].id \in Nat /\ pos[sd].qty \in Nat /\ (pos[sd].qty > 0 => pos[sd].id > 0)
  BY AccountFacts DEF AccountInv, RowsOpen
<1>5. \A sd \in Sides : /\ copy.pos[sd].id <= pos[sd].id
                        /\ copy.pos[sd].id = pos[sd].id /\ copy.pos[sd].qty = 0 => pos[sd].qty = 0
  <2>1. CASE p = pos BY <1>4, <2>1
  <2>2. CASE p = NoRows BY <1>2, <1>4, <2>2
  <2> QED BY <2>1, <2>2
<1> HIDE DEF copy
<1>6. AccountInv(cash, pos, [view EXCEPT !["api"] = copy], shared)
  BY <1>3, <1>5, LoadKeeps, SessionsAreTwo
<1> QED BY <1>6 DEF copy

LEMMA OrderBooksAccount ==
  ASSUME BrokerInv, OrderBooks
  PROVE  AccountInv(cash', pos', view', shared')
<1>1. AccountInv(cash, pos, view, shared) /\ OrdersInv(orders) /\ TickInv(tick, orders, pos, shared)
  BY InvParts
<1>2. Cur \in DOMAIN orders /\ tick.qty \in Nat
  BY <1>1, LeastOf DEF OrderBooks, TickInv, TickType, Cur, First
<1> DEFINE v == Seen("worker")
           sd == orders[Cur].side
           reduce == tick.pc = "fill" /\ orders[Cur].reduce
           new == IF tick.qty = 0 THEN v ELSE Applied(v, sd, tick.qty, reduce)
<1>3. Book("worker", new) /\ shared' = shared BY DEF OrderBooks
<1>4. v \in AccountType /\ (~Hedge => OneSided(v.pos)) BY <1>1, SeenEffect, SessionsAreTwo
<1>5. sd \in Sides BY <1>1, <1>2, OrderFacts
<1> HIDE DEF v, sd, reduce
<1>6. Follows(v, new) /\ Sum(new.cash, new.pos) = Sum(v.cash, v.pos) /\ (~Hedge => OneSided(new.pos))
  BY <1>2, <1>4, <1>5, AppliedEffect, SameFollows
<1> HIDE DEF new
<1> QED BY <1>1, <1>3, <1>6, BookKeeps, SessionsAreTwo DEF v

LEMMA ClosesAccount ==
  ASSUME BrokerInv, NEW s \in Sessions, NEW sd \in Sides, NEW id \in Nat, NEW q \in Nat,
         Book(s, Closed(Seen(s), sd, id, q)),
         ~shared' => ~shared /\ s = "worker" /\ pos[sd] = Row(id, q)
  PROVE  AccountInv(cash', pos', view', shared')
<1> DEFINE v == Seen(s)
           new == Closed(v, sd, id, q)
<1>1. AccountInv(cash, pos, view, shared) BY InvParts
<1>2. v \in AccountType /\ (~Hedge => OneSided(v.pos)) BY <1>1, SeenEffect
<1>3. ASSUME ~shared' PROVE v.pos[sd] = Row(id, q)
  <2>1. v = [cash |-> cash, pos |-> pos] BY <1>1, <1>3, SeenEffect
  <2> QED BY <1>3, <2>1
<1> HIDE DEF v
<1>4. /\ Follows(v, new) /\ (OneSided(v.pos) => OneSided(new.pos))
      /\ v.pos[sd] = Row(id, q) => Sum(new.cash, new.pos) = Sum(v.cash, v.pos)
  BY <1>2, ClosedEffect
<1> HIDE DEF new
<1>5. Book(s, new) BY DEF new, v
<1> QED BY <1>1, <1>2, <1>3, <1>4, <1>5, BookKeeps DEF v

LEMMA AppliesAccount ==
  ASSUME BrokerInv, NEW s \in Sessions, NEW sd \in Sides, NEW q \in Nat,
         Book(s, Applied(Seen(s), sd, q, FALSE)),
         ~shared' => ~shared /\ s = "worker"
  PROVE  AccountInv(cash', pos', view', shared')
<1> DEFINE v == Seen(s)
           new == Applied(v, sd, q, FALSE)
<1>1. AccountInv(cash, pos, view, shared) BY InvParts
<1>2. v \in AccountType /\ (~Hedge => OneSided(v.pos)) BY <1>1, SeenEffect
<1> HIDE DEF v
<1>3. Follows(v, new) /\ Sum(new.cash, new.pos) = Sum(v.cash, v.pos) /\ (~Hedge => OneSided(new.pos))
  BY <1>2, AppliedEffect
<1> HIDE DEF new
<1>4. Book(s, new) BY DEF new, v
<1> QED BY <1>1, <1>3, <1>4, BookKeeps DEF v

AccountQuiet ==
  UNCHANGED <<cash, pos, view, shared>>

LEMMA AccountStep ==
  ASSUME BrokerInv, [Next]_vars
  PROVE  AccountInv(cash', pos', view', shared')
<1>0. AccountInv(cash, pos, view, shared) /\ TickInv(tick, orders, pos, shared) /\ OthersInv
  BY InvParts
<1>1. AccountQuiet => AccountInv(cash', pos', view', shared')
  BY <1>0 DEF AccountQuiet
<1>2. CASE TickStarts
  BY <1>0, <1>2, WorkerLoads DEF TickStarts
<1>3. CASE ScanExits
  <2>1. [view EXCEPT !["worker"].pos = Loaded]
          = [view EXCEPT !["worker"] = [cash |-> view["worker"].cash, pos |-> Loaded]]
    <3>1. view["worker"] \in AccountType /\ view \in [Sessions -> AccountType]
      BY <1>0, SessionsAreTwo DEF AccountInv
    <3>2. [view["worker"] EXCEPT !.pos = Loaded] = [cash |-> view["worker"].cash, pos |-> Loaded]
      BY <3>1 DEF AccountType
    <3> QED BY <3>1, <3>2
  <2> QED BY <1>0, <1>3, <2>1, WorkerLoads DEF ScanExits
<1>4. CASE EntryStarts
  <2>1. PICK c \in {cash, view["worker"].cash} : view' = [view EXCEPT !["worker"].cash = c]
    BY <1>4 DEF EntryStarts
  <2>2. [view EXCEPT !["worker"].cash = c]
          = [view EXCEPT !["worker"] = [cash |-> c, pos |-> view["worker"].pos]]
    <3>1. view["worker"] \in AccountType /\ view \in [Sessions -> AccountType]
      BY <1>0, SessionsAreTwo DEF AccountInv
    <3>2. [view["worker"] EXCEPT !.cash = c] = [cash |-> c, pos |-> view["worker"].pos]
      BY <3>1 DEF AccountType
    <3> QED BY <3>1, <3>2
  <2> QED BY <1>0, <1>4, <2>1, <2>2, WorkerLoads DEF EntryStarts
<1>5. ASSUME NEW sd \in Entries, EntryOrders(sd) PROVE AccountInv(cash', pos', view', shared')
  <2>1. [view EXCEPT !["worker"].pos = Loaded]
          = [view EXCEPT !["worker"] = [cash |-> view["worker"].cash, pos |-> Loaded]]
    <3>1. view["worker"] \in AccountType /\ view \in [Sessions -> AccountType]
      BY <1>0, SessionsAreTwo DEF AccountInv
    <3>2. [view["worker"] EXCEPT !.pos = Loaded] = [cash |-> view["worker"].cash, pos |-> Loaded]
      BY <3>1 DEF AccountType
    <3> QED BY <3>1, <3>2
  <2> QED BY <1>0, <1>5, <2>1, WorkerLoads DEF EntryOrders
<1>6. ASSUME NEW kind \in {"market", "close"}, NEW sd \in Sides, RequestStarts(kind, sd)
      PROVE  AccountInv(cash', pos', view', shared')
  BY <1>0, <1>6, RequestLoads DEF RequestStarts
<1>7. CASE RequestOrders
  <2>1. CASE api.reduce BY <1>1, <1>7, <2>1 DEF RequestOrders, AccountQuiet
  <2>2. CASE ~api.reduce
    <3>1. [view EXCEPT !["api"].pos = pos]
            = [view EXCEPT !["api"] = [cash |-> view["api"].cash, pos |-> pos]]
      <4>1. view["api"] \in AccountType /\ view \in [Sessions -> AccountType]
        BY <1>0, SessionsAreTwo DEF AccountInv
      <4>2. [view["api"] EXCEPT !.pos = pos] = [cash |-> view["api"].cash, pos |-> pos]
        BY <4>1 DEF AccountType
      <4> QED BY <4>1, <4>2
    <3> QED BY <1>0, <1>7, <2>2, <3>1, RequestLoads DEF RequestOrders
  <2> QED BY <2>1, <2>2
<1>8. CASE OrderBooks BY <1>8, OrderBooksAccount
<1>9. CASE TickCloses
  <2>1. tick.side \in Sides /\ tick.id \in Nat /\ tick.qty \in Nat BY <1>0 DEF TickInv, TickType
  <2>2. ~shared => pos[tick.side] = Row(tick.id, tick.qty) BY <1>0, <1>9 DEF TickInv, TickCloses
  <2> QED BY <1>9, <2>1, <2>2, ClosesAccount, SessionsAreTwo DEF TickCloses
<1>10. CASE ScaleCloses
  <2>1. scale.side \in Sides /\ scale.id \in Nat /\ scale.qty \in Nat BY <1>0 DEF OthersInv
  <2> QED BY <1>10, <2>1, ClosesAccount, SessionsAreTwo DEF ScaleCloses
<1>11. CASE EntryBooks
  <2>1. entry.side \in Sides /\ entry.qty \in Nat BY <1>0 DEF OthersInv
  <2> QED BY <1>11, <2>1, AppliesAccount, SessionsAreTwo DEF EntryBooks
<1>12. CASE RequestBooks
  <2>1. api.side \in Sides /\ api.qty \in Nat BY <1>0 DEF OthersInv
  <2>2. view["api"].pos[api.side].id \in Nat BY <1>0, <2>1, AccountFacts, SessionsAreTwo
  <2>3. shared' = TRUE BY <1>12 DEF RequestBooks
  <2>4. CASE api.kind = "market"
    <3>1. Book("api", Applied(Seen("api"), api.side, api.qty, FALSE)) BY <1>12, <2>4 DEF RequestBooks
    <3> QED BY <2>1, <2>3, <3>1, AppliesAccount, SessionsAreTwo
  <2>5. CASE api.kind # "market"
    <3>1. Book("api", Closed(Seen("api"), api.side, view["api"].pos[api.side].id, api.qty))
      BY <1>12, <2>5 DEF RequestBooks
    <3> QED BY <2>1, <2>2, <2>3, <3>1, ClosesAccount, SessionsAreTwo
  <2> QED BY <2>4, <2>5
<1>13. CASE Moves \/ ScanOrders \/ OrderRests \/ StopLimitTriggers \/ StopTriggers \/ LimitCancels
            \/ LimitFills \/ TickEnds \/ EntrySkips \/ RequestFails \/ RequestCloses
  BY <1>1, <1>13 DEF AccountQuiet, account, Moves, ScanOrders, OrderRests, StopLimitTriggers, StopTriggers,
       LimitCancels, LimitFills, TickEnds, EntrySkips, RequestFails, RequestCloses
<1>14. ASSUME NEW sd \in Sides, Liquidate(sd) \/ Exit(sd) \/ ScalesOut(sd)
       PROVE  AccountInv(cash', pos', view', shared')
  BY <1>1, <1>14 DEF AccountQuiet, account, Liquidate, Exit, ScalesOut
<1>15. ASSUME NEW t \in Templates, PlacesOrder(t) PROVE AccountInv(cash', pos', view', shared')
  BY <1>1, <1>15 DEF AccountQuiet, account, PlacesOrder
<1>16. ASSUME NEW o \in DOMAIN orders, CancelsOrder(o) PROVE AccountInv(cash', pos', view', shared')
  BY <1>1, <1>16 DEF AccountQuiet, account, CancelsOrder
<1>17. CASE UNCHANGED vars BY <1>1, <1>17 DEF AccountQuiet, vars, account
<1> QED BY <1>2, <1>3, <1>4, <1>5, <1>6, <1>7, <1>8, <1>9, <1>10, <1>11, <1>12, <1>13, <1>14, <1>15,
           <1>16, <1>17 DEF Next, TickGoesOn, EntryGoesOn, RequestGoesOn

-----------------------------------------------------------------------------
(* The orders in every step *)

\* What a step makes of the orders: they stay what they are, and what is newly filled is the
\* order the pass is at.
OrdersGo(new) ==
  /\ OrdersInv(new)
  /\ \A k \in DOMAIN orders :
       /\ k \in DOMAIN new /\ SameOrder(orders[k], new[k])
       /\ new[k].status = "filled" =>
            orders[k].status = "filled" \/ (tick.pc \in {"stop", "fill"} /\ k = Cur)
       /\ new[k].filled # orders[k].filled => (tick.pc \in {"stop", "fill"} /\ k = Cur)

LEMMA CurIsThere ==
  ASSUME BrokerInv, tick.scan # {}
  PROVE  Cur = First(tick.scan) /\ Cur \in tick.scan /\ Cur \in DOMAIN orders
BY InvParts, LeastOf DEF TickInv, TickType, Cur, First

LEMMA OrdersStep ==
  ASSUME BrokerInv, [Next]_vars
  PROVE  /\ OrdersGo(orders')
         /\ \/ UNCHANGED orders \/ UNCHANGED <<tick, pos, shared>>
            \/ tick.pc \in {"orders", "stop", "fill"}
<1>0. OrdersInv(orders) /\ TickInv(tick, orders, pos, shared) BY InvParts
<1> DEFINE Goal == /\ OrdersGo(orders')
                   /\ \/ UNCHANGED orders \/ UNCHANGED <<tick, pos, shared>>
                      \/ tick.pc \in {"orders", "stop", "fill"}
<1>1. UNCHANGED orders => Goal
  <2>1. OrdersGo(orders) BY <1>0 DEF OrdersGo, SameOrder
  <2> QED BY <2>1
<1>2. ASSUME NEW o \in DOMAIN orders, orders' = Cancelled(orders, o) PROVE OrdersGo(orders')
  <2> DEFINE new == Cancelled(orders, o)
  <2>1. /\ OrdersInv(new) /\ DOMAIN new = DOMAIN orders
        /\ \A k \in DOMAIN orders : /\ SameOrder(orders[k], new[k])
                                    /\ new[k].filled = orders[k].filled
                                    /\ new[k].status \in {orders[k].status, "cancelled"}
    BY <1>0, CancelEffect
  <2> HIDE DEF new
  <2>2. OrdersGo(new) BY <2>1 DEF OrdersGo
  <2>3. orders' = new BY <1>2 DEF new
  <2> QED BY <2>2, <2>3
<1>3. ASSUME LimitCancels PROVE Goal
  <2>1. Cur \in DOMAIN orders BY <1>3, CurIsThere DEF LimitCancels, LimitLives, AtOrder
  <2> QED BY <1>2, <1>3, <2>1 DEF LimitCancels, LimitLives, AtOrder
<1>4. ASSUME NEW o \in DOMAIN orders, CancelsOrder(o) PROVE Goal
  BY <1>2, <1>4 DEF CancelsOrder, account
<1>5. ASSUME NEW t \in Templates, PlacesOrder(t) PROVE Goal
  <2>1. /\ orders' = orders \o (IF t.kind = "oco" THEN Pair(t, Len(orders)) ELSE <<Order(t, t.kind, 0)>>)
        /\ UNCHANGED <<tick, pos, shared>>
    BY <1>5 DEF PlacesOrder, account
  <2> DEFINE new == orders \o (IF t.kind = "oco" THEN Pair(t, Len(orders)) ELSE <<Order(t, t.kind, 0)>>)
  <2>2. OrdersInv(new) /\ \A k \in DOMAIN orders : k \in DOMAIN new /\ new[k] = orders[k]
    BY <1>0, PlacedEffect
  <2>3. orders' = new /\ UNCHANGED <<tick, pos, shared>> BY <2>1
  <2> HIDE DEF new
  <2>4. OrdersGo(new) BY <2>2 DEF OrdersGo, SameOrder
  <2> QED BY <2>3, <2>4
<1>6. ASSUME OrderBooks PROVE Goal
  <2> DEFINE v == Seen("worker")
             sd == orders[Cur].side
             rejected == Rejected(v, sd, tick.qty, tick.pc = "fill" /\ orders[Cur].reduce)
             done == Executed(Cur, tick.qty, rejected)
             limit == tick.pc = "fill"
             new == IF limit /\ done[Cur].status = "filled" THEN CancelLinked(done, Cur) ELSE done
  <2>1. tick.pc \in {"stop", "fill"} /\ tick.scan # {} /\ tick.qty \in Nat
    BY <1>0, <1>6 DEF OrderBooks, TickInv, TickType
  <2>2. Cur = First(tick.scan) /\ Cur \in DOMAIN orders BY <2>1, CurIsThere
  <2>3. orders[Cur].kind = "limit" => limit BY <1>0, <2>1, <2>2 DEF TickInv
  <2>4. orders' = new BY <1>6 DEF OrderBooks
  <2>5. limit \in BOOLEAN OBVIOUS
  <2> HIDE DEF v, sd, rejected, limit
  <2>6. /\ OrdersInv(new) /\ DOMAIN new = DOMAIN orders
        /\ \A k \in DOMAIN orders :
             /\ SameOrder(orders[k], new[k])
             /\ k # Cur => new[k].filled = orders[k].filled
             /\ k # Cur /\ new[k].status = "filled" => orders[k].status = "filled"
    BY <1>0, <2>1, <2>2, <2>3, <2>5, BookedEffect
  <2> HIDE DEF new
  <2>7. OrdersGo(new) BY <2>1, <2>6 DEF OrdersGo
  <2> QED BY <2>1, <2>4, <2>7
<1>7. ASSUME \/ Moves \/ ScanOrders \/ OrderRests \/ StopLimitTriggers \/ StopTriggers \/ LimitFills
             \/ TickEnds \/ EntrySkips \/ RequestFails \/ RequestCloses
      PROVE  Goal
  BY <1>1, <1>7 DEF Moves, ScanOrders, OrderRests, StopLimitTriggers, StopTriggers,
       LimitFills, TickEnds, EntrySkips, RequestFails, RequestCloses
<1>8. ASSUME \/ TickStarts \/ ScanExits \/ TickCloses \/ ScaleCloses
             \/ EntryStarts \/ EntryBooks \/ RequestOrders \/ RequestBooks
      PROVE  Goal
  BY <1>1, <1>8 DEF TickStarts, ScanExits, TickCloses, ScaleCloses, EntryStarts, EntryBooks,
       RequestOrders, RequestBooks
<1>9. ASSUME NEW sd \in Sides, Liquidate(sd) \/ Exit(sd) \/ ScalesOut(sd) PROVE Goal
  BY <1>1, <1>9 DEF Liquidate, Exit, ScalesOut
<1>10. ASSUME NEW sd \in Entries, EntryOrders(sd) PROVE Goal
  BY <1>1, <1>10 DEF EntryOrders
<1>11. ASSUME NEW kind \in {"market", "close"}, NEW sd \in Sides, RequestStarts(kind, sd) PROVE Goal
  BY <1>1, <1>11 DEF RequestStarts
<1>12. ASSUME UNCHANGED vars PROVE Goal BY <1>1, <1>12 DEF vars
<1> HIDE DEF Goal
<1>13. Goal
  BY <1>3, <1>4, <1>5, <1>6, <1>7, <1>8, <1>9, <1>10, <1>11, <1>12
     DEF Next, TickGoesOn, EntryGoesOn, RequestGoesOn
<1> QED BY <1>13 DEF Goal

-----------------------------------------------------------------------------
(* The pass in every step *)

LEMMA TickFacts ==
  ASSUME BrokerInv
  PROVE  /\ tick \in TickType /\ tick.rows \subseteq Sides /\ tick.scan \subseteq Nat /\ tick.dead \subseteq Nat
         /\ tick.side \in Sides /\ tick.id \in Nat /\ tick.qty \in Nat /\ tick.px \in {"down", "flat", "up"}
         /\ tick.back \in {"liquidate", "exits"} /\ tick.scan \subseteq DOMAIN orders
BY InvParts DEF TickInv, TickType

LEMMA TickEmpty ==
  ASSUME NEW t \in TickType, t.scan = {}, t.pc \notin {"stop", "fill"}, NEW os, NEW p, NEW sh,
         t.pc = "close" /\ ~sh => p[t.side] = Row(t.id, t.qty)
  PROVE  TickInv(t, os, p, sh)
BY DEF TickInv

\* The pass goes on with what is left to scan.
LEMMA TickGoes ==
  ASSUME BrokerInv, NEW os, OrdersGo(os), NEW t \in TickType, NEW p, NEW sh,
         t.px = tick.px, t.scan \subseteq tick.scan,
         t.pc = "close" /\ ~sh => p[t.side] = Row(t.id, t.qty),
         t.pc \in {"stop", "fill"} => t.scan = tick.scan /\ t.scan # {},
         t.pc = "stop" => /\ orders[First(t.scan)].kind # "limit"
                          /\ t.px = IF orders[First(t.scan)].side = "buy" THEN "up" ELSE "down",
         t.pc = "fill" => /\ orders[First(t.scan)].kind = "limit"
                          /\ t.px = IF orders[First(t.scan)].side = "buy" THEN "down" ELSE "up"
  PROVE  TickInv(t, os, p, sh)
<1>0. TickInv(tick, orders, pos, shared) /\ OrdersInv(orders) BY InvParts
<1>1. tick.scan \subseteq DOMAIN orders /\ tick.scan \subseteq Nat BY TickFacts
<1>2. \A k \in DOMAIN orders :
        /\ k \in DOMAIN os /\ os[k].kind = orders[k].kind /\ os[k].side = orders[k].side
        /\ os[k].link = orders[k].link
        /\ os[k].status = "filled" =>
             orders[k].status = "filled" \/ (tick.pc \in {"stop", "fill"} /\ k = Cur)
  BY DEF OrdersGo, SameOrder
<1>3. t.scan \subseteq DOMAIN os BY <1>1, <1>2
<1>4. t.pc \in {"stop", "fill"} => First(t.scan) \in DOMAIN orders BY <1>1, LeastOf
<1>5. ASSUME NEW o \in t.scan, Leg(os, o) PROVE t.px = IF os[o].side = "buy" THEN "down" ELSE "up"
  <2> DEFINE j == orders[o].link
  <2>1. o \in tick.scan /\ o \in DOMAIN orders BY <1>1
  <2>2. os[o].side = orders[o].side /\ j > 0 /\ orders[o].kind = "stop_limit" /\ os[j].status = "filled"
    BY <1>2, <1>5, <2>1 DEF Leg
  <2>3. j \in DOMAIN orders /\ orders[j].kind = "limit" /\ orders[j].side = orders[o].side
    BY <1>0, <2>1, <2>2, OrderFacts
  <2> HIDE DEF j
  <2>4. CASE orders[j].status = "filled"
    <3>1. Leg(orders, o) BY <2>2, <2>4 DEF Leg, j
    <3> QED BY <1>0, <2>1, <2>2, <3>1 DEF TickInv
  <2>5. CASE tick.pc \in {"stop", "fill"} /\ j = Cur
    <3>1. tick.scan # {} BY <1>0, <2>5 DEF TickInv
    <3>2. First(tick.scan) = j BY <2>5, <3>1, CurIsThere
    <3>3. tick.pc = "fill" BY <1>0, <2>3, <2>5, <3>2 DEF TickInv
    <3> QED BY <1>0, <2>2, <2>3, <3>2, <3>3 DEF TickInv
  <2> QED BY <1>2, <2>2, <2>3, <2>4, <2>5
<1>6. t.pc = "stop" => /\ os[First(t.scan)].kind # "limit"
                       /\ t.px = IF os[First(t.scan)].side = "buy" THEN "up" ELSE "down"
  BY <1>2, <1>4
<1>7. t.pc = "fill" => /\ os[First(t.scan)].kind = "limit"
                       /\ t.px = IF os[First(t.scan)].side = "buy" THEN "down" ELSE "up"
  BY <1>2, <1>4
<1> QED BY <1>3, <1>5, <1>6, <1>7 DEF TickInv

LEMMA TickStays ==
  ASSUME BrokerInv, OrdersGo(orders'), tick' = tick,
         tick.pc = "close" /\ ~shared' => pos' = pos /\ ~shared
  PROVE  TickInv(tick', orders', pos', shared')
<1>1. TickInv(tick, orders, pos, shared) BY InvParts
<1>2. tick \in TickType BY TickFacts
<1>3. tick.pc = "close" /\ ~shared' => pos'[tick.side] = Row(tick.id, tick.qty) BY <1>1 DEF TickInv
<1>4. TickInv(tick, orders', pos', shared') BY <1>1, <1>2, <1>3, TickGoes DEF TickInv
<1> QED BY <1>4

LEMMA PassedFacts ==
  ASSUME BrokerInv
  PROVE  Passed \in TickType /\ Passed.px = tick.px /\ Passed.scan \subseteq tick.scan /\ Passed.pc = "orders"
         /\ Passed.dead = tick.dead
BY TickFacts DEF Passed, TickType

LEMMA CloseStep ==
  ASSUME BrokerInv, OrdersGo(orders'), NEW sd \in tick.rows, NEW back \in {"liquidate", "exits"},
         Close(sd, back), UNCHANGED <<pos, shared>>
  PROVE  TickInv(tick', orders', pos', shared')
<1> DEFINE row == view["worker"].pos[sd]
           t == [tick EXCEPT !.pc = "close", !.back = back, !.rows = @ \ {sd}, !.side = sd,
                             !.id = row.id, !.qty = row.qty]
<1>1. sd \in Sides BY TickFacts
<1>2. row.id \in Nat /\ row.qty \in Nat /\ (~shared => pos[sd] = Row(row.id, row.qty))
  <2>1. AccountInv(cash, pos, view, shared) BY InvParts
  <2>2. row.id \in Nat /\ row.qty \in Nat BY <1>1, <2>1, AccountFacts, SessionsAreTwo
  <2>3. ~shared => row = pos[sd] BY <2>1 DEF AccountInv
  <2>4. [cash |-> cash, pos |-> pos] \in AccountType BY <2>1, AccountFacts
  <2>5. pos[sd] = Row(pos[sd].id, pos[sd].qty) BY <1>1, <2>4, RowsAreRecords
  <2> QED BY <2>2, <2>3, <2>5
<1>3. tick' = t BY DEF Close
<1> HIDE DEF row
<1>4. /\ t \in TickType /\ t.px = tick.px /\ t.scan = tick.scan /\ t.pc = "close"
      /\ t.side = sd /\ t.id = row.id /\ t.qty = row.qty
  BY <1>1, <1>2, TickFacts DEF TickType
<1> HIDE DEF t
<1>5. t.pc = "close" /\ ~shared' => pos'[t.side] = Row(t.id, t.qty) BY <1>2, <1>4
<1>6. TickInv(t, orders', pos', shared') BY <1>4, <1>5, TickGoes
<1> QED BY <1>3, <1>6

LEMMA FillableFacts ==
  ASSUME NEW q \in Nat, NEW tif PROVE Fillable(q, tif) \subseteq Nat
BY DEF Fillable

LEMMA TickStep ==
  ASSUME BrokerInv, [Next]_vars
  PROVE  TickInv(tick', orders', pos', shared')
<1>0. /\ AccountInv(cash, pos, view, shared) /\ OrdersInv(orders)
      /\ TickInv(tick, orders, pos, shared) /\ OthersInv
  BY InvParts
<1>1. OrdersGo(orders') BY OrdersStep
<1>2. CASE TickStarts
  <2> DEFINE t == [NoTick EXCEPT !.pc = "liquidate", !.px = market, !.rows = {sd \in Sides : pos[sd].qty > 0}]
  <2>1. t \in TickType /\ t.scan = {} /\ t.pc = "liquidate" BY <1>0 DEF OthersInv, NoTick, TickType, Sides
  <2>2. tick' = t BY <1>2 DEF TickStarts
  <2> HIDE DEF t
  <2>3. TickInv(t, orders', pos', shared') BY <2>1, TickEmpty
  <2> QED BY <2>2, <2>3
<1>3. CASE TickEnds
  <2>1. NoTick \in TickType /\ NoTick.scan = {} /\ NoTick.pc = "idle" BY DEF NoTick, TickType, Sides
  <2>2. TickInv(NoTick, orders', pos', shared') BY <2>1, TickEmpty
  <2> QED BY <1>3, <2>2 DEF TickEnds
<1>4. CASE ScanOrders
  <2> DEFINE t == [tick EXCEPT !.pc = "orders", !.scan = {o \in DOMAIN orders : Pending(o)}]
  <2>1. DOMAIN orders \subseteq Nat BY <1>0, OrderFacts
  <2>2. t \in TickType /\ t.pc = "orders" /\ t.scan \subseteq DOMAIN orders BY <2>1, TickFacts DEF TickType
  <2>3. \A o \in t.scan : orders[o].status = "pending" BY TickFacts DEF TickType, Pending
  <2> HIDE DEF t
  <2>4. \A o \in t.scan : ~Leg(orders, o) BY <1>0, <2>2, <2>3 DEF OrdersInv
  <2>5. TickInv(t, orders, pos, shared) BY <2>2, <2>4 DEF TickInv
  <2> QED BY <1>4, <2>5 DEF ScanOrders, account, t
<1>5. ASSUME tick' = Passed PROVE TickInv(tick', orders', pos', shared')
  <2>1. TickInv(Passed, orders', pos', shared') BY <1>1, PassedFacts, TickGoes
  <2> QED BY <1>5, <2>1
<1>6. CASE LimitCancels
  <2> DEFINE t == [Passed EXCEPT !.dead = @ \cup {orders[Cur].link}]
  <2>1. Cur \in DOMAIN orders BY <1>6, CurIsThere DEF LimitCancels, LimitLives, AtOrder
  <2>2. orders[Cur].link \in Nat BY <1>0, <2>1, OrderFacts
  <2>3. /\ t \in TickType /\ t.px = tick.px /\ t.scan \subseteq tick.scan /\ t.pc = "orders"
    BY <2>2, PassedFacts, TickFacts DEF TickType
  <2>4. tick' = t BY <1>6 DEF LimitCancels
  <2> HIDE DEF t
  <2>5. TickInv(t, orders', pos', shared') BY <1>1, <2>3, TickGoes
  <2> QED BY <2>4, <2>5
<1>7. CASE OrderBooks
  <2>1. PICK f, rejected : tick' = [Passed EXCEPT !.dead = @ \cup
                              IF tick.pc = "fill" /\ Executed(Cur, f, rejected)[Cur].status = "filled"
                              THEN Siblings(Executed(Cur, f, rejected), Cur) ELSE {}]
                            /\ f = tick.qty
    BY <1>7 DEF OrderBooks
  <2> DEFINE done == Executed(Cur, f, rejected)
             more == IF tick.pc = "fill" /\ done[Cur].status = "filled" THEN Siblings(done, Cur) ELSE {}
             t == [Passed EXCEPT !.dead = @ \cup more]
  <2>2. Cur \in DOMAIN orders BY <1>0, <1>7, CurIsThere DEF OrderBooks, TickInv
  <2>3. f \in Nat BY <2>1, TickFacts
  <2>4. done[Cur] \in OrderType BY <1>0, <2>2, <2>3, ExecutedEffect
  <2> HIDE DEF done
  <2>5. more \subseteq Nat BY <2>4 DEF Siblings, OrderType
  <2>6. tick' = t BY <2>1 DEF done
  <2> HIDE DEF more
  <2>7. /\ t \in TickType /\ t.px = tick.px /\ t.scan \subseteq tick.scan /\ t.pc = "orders"
    BY <2>5, PassedFacts, TickFacts DEF TickType
  <2> HIDE DEF t
  <2>8. TickInv(t, orders', pos', shared') BY <1>1, <2>7, TickGoes
  <2> QED BY <2>6, <2>8
<1>8. CASE StopTriggers
  <2>1. tick.scan # {} /\ Cur = First(tick.scan) /\ Cur \in DOMAIN orders
    BY <1>8, CurIsThere DEF StopTriggers, AtOrder
  <2>2. PICK f \in Fillable(orders[Cur].qty, orders[Cur].tif) : tick' = [tick EXCEPT !.pc = "stop", !.qty = f]
    BY <1>8 DEF StopTriggers
  <2>3. f \in Nat BY <1>0, <2>1, OrderFacts, FillableFacts
  <2> DEFINE t == [tick EXCEPT !.pc = "stop", !.qty = f]
  <2>4. t \in TickType /\ t.px = tick.px /\ t.scan = tick.scan /\ t.pc = "stop"
    BY <2>3, TickFacts DEF TickType
  <2> HIDE DEF t
  <2>5. orders[Cur].kind # "limit" /\ tick.px = IF orders[Cur].side = "buy" THEN "up" ELSE "down"
    BY <1>8 DEF StopTriggers, Triggered
  <2>6. TickInv(t, orders', pos', shared') BY <1>1, <2>1, <2>4, <2>5, TickGoes
  <2> QED BY <2>2, <2>6 DEF t
<1>9. CASE LimitFills
  <2>1. tick.scan # {} /\ Cur = First(tick.scan) /\ Cur \in DOMAIN orders
    BY <1>9, CurIsThere DEF LimitFills, LimitLives, AtOrder
  <2>2. PICK f \in Fillable(orders[Cur].qty, orders[Cur].tif) : tick' = [tick EXCEPT !.pc = "fill", !.qty = f]
    BY <1>9 DEF LimitFills
  <2>3. f \in Nat BY <1>0, <2>1, OrderFacts, FillableFacts
  <2> DEFINE t == [tick EXCEPT !.pc = "fill", !.qty = f]
  <2>4. t \in TickType /\ t.px = tick.px /\ t.scan = tick.scan /\ t.pc = "fill"
    BY <2>3, TickFacts DEF TickType
  <2> HIDE DEF t
  <2>5. orders[Cur].kind = "limit" /\ tick.px = IF orders[Cur].side = "buy" THEN "down" ELSE "up"
    BY <1>9 DEF LimitFills, LimitLives, Crossed
  <2>6. TickInv(t, orders', pos', shared') BY <1>1, <2>1, <2>4, <2>5, TickGoes
  <2> QED BY <2>2, <2>6 DEF t
<1>10. CASE ScanExits
  <2> DEFINE t == [tick EXCEPT !.pc = "exits", !.rows = {sd \in Sides : pos[sd].qty > 0}]
  <2>1. t \in TickType /\ t.scan = {} /\ t.pc = "exits" BY <1>10, TickFacts DEF ScanExits, TickType
  <2>2. tick' = t BY <1>10 DEF ScanExits
  <2> HIDE DEF t
  <2>3. TickInv(t, orders', pos', shared') BY <2>1, TickEmpty
  <2> QED BY <2>2, <2>3
<1>11. CASE TickCloses
  <2> DEFINE t == [tick EXCEPT !.pc = tick.back]
  <2>1. t \in TickType /\ t.px = tick.px /\ t.scan = tick.scan /\ t.pc \in {"liquidate", "exits"}
    BY TickFacts DEF TickType
  <2>2. tick' = t BY <1>11 DEF TickCloses
  <2> HIDE DEF t
  <2>3. TickInv(t, orders', pos', shared') BY <1>1, <2>1, TickGoes
  <2> QED BY <2>2, <2>3
<1>12. ASSUME NEW sd \in Sides, Liquidate(sd) \/ Exit(sd) PROVE TickInv(tick', orders', pos', shared')
  BY <1>1, <1>12, CloseStep DEF Liquidate, Exit, account
<1>13. CASE OrderRests \/ StopLimitTriggers
  BY <1>5, <1>13 DEF OrderRests, StopLimitTriggers
<1>14. CASE EntryBooks
  <2>1. tick.pc = "idle" BY <1>0, <1>14 DEF EntryBooks, OthersInv
  <2> QED BY <1>1, <1>14, <2>1, TickStays DEF EntryBooks
<1>15. CASE ScaleCloses \/ RequestBooks
  BY <1>1, <1>15, TickStays DEF ScaleCloses, RequestBooks
<1>16. UNCHANGED <<tick, pos, shared>> => TickInv(tick', orders', pos', shared')
  <2>1. TickInv(tick, orders, pos, shared) BY <1>0
  <2>2. tick \in TickType BY TickFacts
  <2>3. TickInv(tick, orders', pos, shared) BY <1>1, <2>1, <2>2, TickGoes DEF TickInv
  <2> QED BY <2>3
<1>17. CASE Moves \/ EntryStarts \/ EntrySkips \/ RequestOrders \/ RequestFails \/ RequestCloses
  BY <1>16, <1>17 DEF Moves, EntryStarts, EntrySkips, RequestOrders, RequestFails, RequestCloses, account
<1>18. ASSUME NEW sd \in Entries, EntryOrders(sd) PROVE TickInv(tick', orders', pos', shared')
  BY <1>16, <1>18 DEF EntryOrders
<1>19. ASSUME NEW kind \in {"market", "close"}, NEW sd \in Sides, RequestStarts(kind, sd)
       PROVE  TickInv(tick', orders', pos', shared')
  BY <1>16, <1>19 DEF RequestStarts
<1>20. ASSUME NEW sd \in Sides, ScalesOut(sd) PROVE TickInv(tick', orders', pos', shared')
  BY <1>16, <1>20 DEF ScalesOut, account
<1>21. ASSUME NEW t \in Templates, PlacesOrder(t) PROVE TickInv(tick', orders', pos', shared')
  BY <1>16, <1>21 DEF PlacesOrder, account
<1>22. ASSUME NEW o \in DOMAIN orders, CancelsOrder(o) PROVE TickInv(tick', orders', pos', shared')
  BY <1>16, <1>22 DEF CancelsOrder, account
<1>23. CASE UNCHANGED vars BY <1>16, <1>23 DEF vars, account
<1> QED
  BY <1>2, <1>3, <1>4, <1>6, <1>7, <1>8, <1>9, <1>10, <1>11, <1>12, <1>13, <1>14, <1>15, <1>17, <1>18,
     <1>19, <1>20, <1>21, <1>22, <1>23 DEF Next, TickGoesOn, EntryGoesOn, RequestGoesOn

-----------------------------------------------------------------------------
(* The other coroutines in every step *)

LEMMA OthersStep ==
  ASSUME BrokerInv, [Next]_vars
  PROVE  OthersInv'
<1>0. AccountInv(cash, pos, view, shared) /\ OthersInv BY InvParts
<1>1. \A s \in Sessions, sd \in Sides : view[s].pos[sd].id \in Nat /\ view[s].pos[sd].qty \in Nat
  BY <1>0, AccountFacts
<1>2. CASE Moves BY <1>0, <1>2 DEF Moves, OthersInv
<1>3. CASE \/ ScanOrders \/ OrderRests \/ StopLimitTriggers \/ LimitCancels \/ ScanExits
           \/ TickCloses \/ TickEnds \/ TickStarts \/ StopTriggers \/ LimitFills \/ OrderBooks
  <2>1. /\ UNCHANGED <<market, entry, scale, api, shared>>
        /\ entry.pc = "idle"
    BY <1>0, <1>3 DEF OthersInv, Locked, AtOrder, LimitLives, ScanOrders, OrderRests, StopLimitTriggers,
         LimitCancels, ScanExits, TickCloses, TickEnds, TickStarts, StopTriggers, LimitFills, OrderBooks
  <2> QED BY <1>0, <2>1 DEF OthersInv
<1>4. ASSUME NEW sd \in Sides, Liquidate(sd) \/ Exit(sd) PROVE OthersInv'
  BY <1>0, <1>4 DEF OthersInv, Liquidate, Exit
<1>5. ASSUME NEW sd \in Sides, ScalesOut(sd) PROVE OthersInv'
  <2> DEFINE n == view["worker"].pos[sd].qty
             id == view["worker"].pos[sd].id
  <2>1. n \in Nat /\ id \in Nat BY <1>1, SessionsAreTwo
  <2> HIDE DEF n, id
  <2>2. PICK q \in 1..n - 1 : scale' = [pc |-> "close", side |-> sd, id |-> id, qty |-> q,
                                       done |-> [scale.done EXCEPT ![sd] = id]]
    BY <1>5 DEF ScalesOut, n, id
  <2>3. q \in Nat BY <2>1
  <2>4. scale.done \in [Sides -> Nat] BY <1>0 DEF OthersInv
  <2>5. scale' \in [pc: {"idle", "close"}, side: Sides, id: Nat, qty: Nat, done: [Sides -> Nat]]
    BY <2>1, <2>2, <2>3, <2>4
  <2> QED BY <1>0, <1>5, <2>5 DEF OthersInv, ScalesOut
<1>6. CASE ScaleCloses BY <1>0, <1>6 DEF OthersInv, ScaleCloses
<1>7. CASE EntryStarts \/ EntrySkips \/ EntryBooks
  <2>1. /\ UNCHANGED <<market, tick, scale, api, shared>>
        /\ entry' = NoEntry \/ (entry' = [NoEntry EXCEPT !.pc = "scan"] /\ tick.pc = "idle")
    BY <1>7 DEF EntryStarts, EntrySkips, EntryBooks, Locked
  <2>2. entry' \in [pc: {"idle", "scan", "latency"}, side: Sides, qty: Nat]
        /\ (tick.pc = "idle" \/ entry'.pc = "idle")
    BY <2>1 DEF NoEntry, Sides
  <2> QED BY <1>0, <2>1, <2>2 DEF OthersInv
<1>8. ASSUME NEW sd \in Entries, EntryOrders(sd) PROVE OthersInv'
  <2>1. sd \in Sides BY EntriesAssumption DEF Sides
  <2>2. PICK q \in Lots : \E f \in Fillable(q, "IOC") : entry' = [pc |-> "latency", side |-> sd, qty |-> f]
    BY <1>8 DEF EntryOrders
  <2>3. PICK f \in Fillable(q, "IOC") : entry' = [pc |-> "latency", side |-> sd, qty |-> f] BY <2>2
  <2>4. f \in Nat BY LotsAssumption, FillableFacts
  <2>5. tick.pc = "idle" BY <1>0, <1>8 DEF OthersInv, EntryOrders
  <2> QED BY <1>0, <1>8, <2>1, <2>3, <2>4, <2>5 DEF OthersInv, EntryOrders
<1>9. ASSUME NEW t \in Templates, PlacesOrder(t) PROVE OthersInv'
  BY <1>0, <1>9 DEF OthersInv, PlacesOrder
<1>10. ASSUME NEW o \in DOMAIN orders, CancelsOrder(o) PROVE OthersInv'
  BY <1>0, <1>10 DEF OthersInv, CancelsOrder
<1>11. ASSUME NEW kind \in {"market", "close"}, NEW sd \in Sides, RequestStarts(kind, sd) PROVE OthersInv'
  BY <1>0, <1>11, LotsAssumption DEF OthersInv, RequestStarts
<1>12. CASE RequestOrders
  <2>1. PICK f \in Fillable(api.qty, "GTC") : api' = [api EXCEPT !.pc = "latency", !.qty = f]
    BY <1>12 DEF RequestOrders
  <2>2. f \in Nat BY <1>0, FillableFacts DEF OthersInv
  <2> QED BY <1>0, <1>12, <2>1, <2>2 DEF OthersInv, RequestOrders
<1>13. CASE RequestFails BY <1>0, <1>13 DEF OthersInv, RequestFails
<1>14. CASE RequestCloses
  <2>1. view["api"].pos[api.side].qty \in Nat BY <1>0, <1>1, SessionsAreTwo DEF OthersInv
  <2> QED BY <1>0, <1>14, <2>1 DEF OthersInv, RequestCloses
<1>15. CASE RequestBooks BY <1>0, <1>15 DEF OthersInv, RequestBooks
<1>16. CASE UNCHANGED vars BY <1>0, <1>16 DEF OthersInv, vars
<1> QED BY <1>2, <1>3, <1>4, <1>5, <1>6, <1>7, <1>8, <1>9, <1>10, <1>11, <1>12, <1>13, <1>14, <1>15,
           <1>16 DEF Next, TickGoesOn, EntryGoesOn, RequestGoesOn

-----------------------------------------------------------------------------
(* The theorems *)

LEMMA InvInit ==
  ASSUME Init PROVE BrokerInv
<1>1. NoRows \in [Sides -> RowType] /\ \A sd \in Sides : NoRows[sd].id = 0 /\ NoRows[sd].qty = 0
  BY DEF NoRows, Row, RowType
<1>2. "buy" \in Sides /\ "sell" \in Sides BY DEF Sides
<1> DEFINE w == [s \in Sessions |-> [cash |-> 0, pos |-> NoRows]]
<1>3. w \in [Sessions -> AccountType] BY <1>1 DEF AccountType
<1>4. \A s \in Sessions : w[s] = [cash |-> 0, pos |-> NoRows] OBVIOUS
<1> HIDE DEF w
<1>5. AccountInv(0, NoRows, w, FALSE)
  BY <1>1, <1>2, <1>3, <1>4, SessionsAreTwo DEF AccountInv, RowsOpen, Known, OneSided, Sum
<1>6. cash = 0 /\ pos = NoRows /\ view = w /\ shared = FALSE /\ orders = <<>> /\ tick = NoTick
  BY DEF Init, w
<1>7. OrdersInv(<<>>)
  <2>1. <<>> \in Seq(OrderType) /\ DOMAIN <<>> = {} OBVIOUS
  <2> QED BY <2>1 DEF OrdersInv, Linked
<1>8. TickInv(NoTick, <<>>, NoRows, FALSE)
  <2>1. NoTick \in TickType /\ NoTick.scan = {} /\ NoTick.pc = "idle" BY DEF NoTick, TickType, Sides
  <2> QED BY <2>1, TickEmpty
<1>9. OthersInv BY DEF Init, OthersInv, NoTick, NoEntry, NoRequest, Sides
<1> QED BY <1>5, <1>6, <1>7, <1>8, <1>9 DEF BrokerInv

LEMMA InvStep ==
  ASSUME BrokerInv, [Next]_vars PROVE BrokerInv'
<1>1. AccountInv(cash', pos', view', shared') BY AccountStep
<1>2. OrdersInv(orders') BY OrdersStep DEF OrdersGo
<1>3. TickInv(tick', orders', pos', shared') BY TickStep
<1>4. OthersInv' BY OthersStep
<1> QED BY <1>1, <1>2, <1>3, <1>4 DEF BrokerInv

LEMMA BrokerInvariant == Spec => []BrokerInv
<1>1. BrokerInv /\ [Next]_vars => BrokerInv' BY InvStep
<1> QED BY <1>1, InvInit, PTL DEF Spec

\* The account, its copies and the coroutines keep their types, in whatever order closes
\* and fills are booked.
THEOREM TypeCorrect == Spec => []TypeOK
<1>1. BrokerInv => TypeOK
  BY DEF BrokerInv, AccountInv, OrdersInv, TickInv, TickType, OthersInv, TypeOK
<1> QED BY <1>1, BrokerInvariant, PTL

\* PaperPortfolio.equity: as long as only the two passes book, cash and rows agree to the
\* unit.
THEOREM LedgerAgrees == Spec => []LedgerBalances
<1>1. BrokerInv => LedgerBalances
  BY DEF BrokerInv, AccountInv, LedgerBalances, Sum
<1> QED BY <1>1, BrokerInvariant, PTL

\* One-way mode never holds a long and a short at once, whichever of the loops, tasks and
\* requests opens what.
THEOREM NeverBoth == Spec => []OneWay
<1>1. BrokerInv => OneWay
  BY DEF BrokerInv, AccountInv, OneWay, OneSided
<1> QED BY <1>1, BrokerInvariant, PTL

\* _cancel_linked: once the take-profit leg has filled, the stop leg is not executed.
THEOREM StopLegStays == Spec => StopLegCancelled
<1>1. ASSUME BrokerInv, [Next]_vars
      PROVE  \A o \in DOMAIN orders : orders[o].kind = "stop_limit" => ~PairExecutes(o)
  <2> SUFFICES ASSUME NEW o \in DOMAIN orders, Leg(orders, o), orders'[o].filled > orders[o].filled
               PROVE  FALSE
    BY DEF PairExecutes, Leg
  <2>1. OrdersInv(orders) /\ TickInv(tick, orders, pos, shared) /\ OrdersGo(orders') BY <1>1, InvParts, OrdersStep
  <2>2. orders[o].filled \in Nat BY <2>1, OrderFacts
  <2>3. orders'[o].filled # orders[o].filled BY <2>2
  <2>4. tick.pc \in {"stop", "fill"} /\ o = Cur BY <2>1, <2>3 DEF OrdersGo
  <2>5. Cur = First(tick.scan) /\ Cur \in tick.scan BY <1>1, <2>1, <2>4, CurIsThere DEF TickInv
  <2>6. orders[o].kind = "stop_limit" BY DEF Leg
  <2>7. tick.pc = "stop" /\ tick.px = IF orders[o].side = "buy" THEN "up" ELSE "down"
    BY <2>1, <2>4, <2>5, <2>6 DEF TickInv
  <2>8. tick.px = IF orders[o].side = "buy" THEN "down" ELSE "up" BY <2>1, <2>4, <2>5 DEF TickInv
  <2> QED BY <2>7, <2>8
<1>2. BrokerInv /\ [Next]_vars
        => [\A o \in DOMAIN orders : orders[o].kind = "stop_limit" => ~PairExecutes(o)]_vars
  BY <1>1
<1> QED BY <1>2, BrokerInvariant, PTL DEF Spec, StopLegCancelled

-----------------------------------------------------------------------------
(* PaperBot: the types *)

\* A pass is at a symbol, and beyond the last one only between two of them.
PassOK(v) ==
  /\ v.entry \in {"scan", "gate", "order"} => v.sym >= 1
  /\ v.entry \in {"gate", "order"} => v.sym \in Symbols

BotTypes == BotTypeOK /\ \A e \in Engines : PassOK(eng[e])

LEMMA Settings == N \in Nat /\ MaxFaults \in Nat
BY SymbolsAssumption, FaultsAssumption

LEMMA EngineValues ==
  /\ NoEngine \in EngineType /\ PassOK(NoEngine)
  /\ \A seen \in Statuses : NewEngine(seen) \in EngineType /\ PassOK(NewEngine(seen))
<1>1. NoEngine \in EngineType /\ PassOK(NoEngine)
  BY Settings DEF NoEngine, EngineType, Statuses, PassOK
<1>2. ASSUME NEW seen \in Statuses
      PROVE  NewEngine(seen) \in EngineType /\ PassOK(NewEngine(seen))
  <2>1. CASE seen = "running"
    <3>1. NewEngine(seen) = [tick |-> "listen", entry |-> "sleep", sym |-> 0, out |-> 0,
                             seen |-> "running", running |-> TRUE]
      BY <2>1 DEF NewEngine, NoEngine
    <3> QED BY <3>1, Settings DEF EngineType, Statuses, PassOK
  <2>2. CASE seen # "running"
    <3>1. NewEngine(seen) = [tick |-> "off", entry |-> "off", sym |-> 0, out |-> 0,
                             seen |-> seen, running |-> FALSE]
      BY <2>2 DEF NewEngine, NoEngine
    <3> QED BY <3>1, Settings DEF EngineType, PassOK
  <2> QED BY <2>1, <2>2
<1> QED BY <1>1, <1>2

\* The engine's fields, one at a time.
LEMMA Fields ==
  ASSUME NEW v \in EngineType
  PROVE  /\ \A x \in {"off", "listen", "exit"} :
              [v EXCEPT !.tick = x] \in EngineType
         /\ \A x \in {"off", "sleep", "scan", "gate", "order"} :
              [v EXCEPT !.entry = x] \in EngineType
         /\ \A x \in 0..N + 1 : [v EXCEPT !.sym = x] \in EngineType
         /\ \A x \in 0..N : [v EXCEPT !.out = x] \in EngineType
         /\ \A x \in Statuses : [v EXCEPT !.seen = x] \in EngineType
         /\ v.sym \in 0..N + 1 /\ v.seen \in Statuses
BY DEF EngineType

\* A step of one engine that takes it to a sound state.
LEMMA EngineMoves ==
  ASSUME BotTypes, NEW e \in Engines, NEW v \in EngineType, PassOK(v),
         eng' = [eng EXCEPT ![e] = v]
  PROVE  /\ eng' \in [Engines -> EngineType]
         /\ \A d \in Engines : PassOK(eng'[d])
BY DEF BotTypes, BotTypeOK

LEMMA TickLoopTypes ==
  ASSUME BotTypes, NEW e \in Engines, TickLoop(e) \/ TickBlind(e)
  PROVE  BotTypes'
<1>1. eng[e] \in EngineType /\ PassOK(eng[e]) /\ status \in Statuses
  BY DEF BotTypes, BotTypeOK
<1>2. CASE TickChecks(e)
  <2> DEFINE v == [eng[e] EXCEPT !.seen = status,
                                 !.tick = IF status = "running" THEN "listen" ELSE "off"]
  <2>1. v \in EngineType /\ PassOK(v) BY <1>1 DEF EngineType, PassOK
  <2>2. eng' = [eng EXCEPT ![e] = v] BY <1>2 DEF TickChecks, BotTypes, BotTypeOK
  <2> HIDE DEF v
  <2> QED BY <1>2, <2>1, <2>2, EngineMoves DEF TickChecks, BotTypes, BotTypeOK, store, history
<1>3. CASE TickBlind(e)
  <2> DEFINE v == [eng[e] EXCEPT !.tick = IF eng[e].seen = "running" THEN "listen" ELSE "off"]
  <2>1. v \in EngineType /\ PassOK(v) BY <1>1 DEF EngineType, PassOK
  <2>2. eng' = [eng EXCEPT ![e] = v] BY <1>3 DEF TickBlind, BotTypes, BotTypeOK
  <2>3. faults' \in 0..MaxFaults /\ blind' \in BOOLEAN
    BY <1>3, Settings DEF TickBlind, RefreshFails, BotTypes, BotTypeOK
  <2> HIDE DEF v
  <2> QED BY <1>3, <2>1, <2>2, <2>3, EngineMoves DEF TickBlind, BotTypes, BotTypeOK, store, history
<1>4. ASSUME NEW s \in Symbols, TickExits(e, s) PROVE BotTypes'
  <2> DEFINE v == [eng[e] EXCEPT !.tick = "exit", !.out = s]
  <2>1. v \in EngineType /\ PassOK(v)
    <3> DEFINE u == [eng[e] EXCEPT !.tick = "exit"]
    <3>1. u \in EngineType BY <1>1, Fields
    <3>2. s \in 0..N BY Settings DEF Symbols
    <3> HIDE DEF u
    <3>3. [u EXCEPT !.out = s] \in EngineType BY <3>1, <3>2, Fields
    <3>4. v = [u EXCEPT !.out = s] BY DEF u
    <3>5. v.entry = eng[e].entry /\ v.sym = eng[e].sym BY <1>1 DEF EngineType
    <3> HIDE DEF v
    <3> QED BY <1>1, <3>3, <3>4, <3>5 DEF PassOK
  <2>2. eng' = [eng EXCEPT ![e] = v] BY <1>4 DEF TickExits, BotTypes, BotTypeOK
  <2> HIDE DEF v
  <2> QED BY <1>4, <2>1, <2>2, EngineMoves DEF TickExits, BotTypes, BotTypeOK, store, history
<1>5. CASE TickBooks(e)
  <2> DEFINE v == [eng[e] EXCEPT !.tick = "listen", !.out = 0]
  <2>1. v \in EngineType /\ PassOK(v)
    <3> DEFINE u == [eng[e] EXCEPT !.tick = "listen"]
    <3>1. u \in EngineType BY <1>1, Fields
    <3>2. 0 \in 0..N BY Settings
    <3> HIDE DEF u
    <3>3. [u EXCEPT !.out = 0] \in EngineType BY <3>1, <3>2, Fields
    <3>4. v = [u EXCEPT !.out = 0] BY DEF u
    <3>5. v.entry = eng[e].entry /\ v.sym = eng[e].sym BY <1>1 DEF EngineType
    <3> HIDE DEF v
    <3> QED BY <1>1, <3>3, <3>4, <3>5 DEF PassOK
  <2>2. eng' = [eng EXCEPT ![e] = v] BY <1>5 DEF TickBooks, BotTypes, BotTypeOK
  <2> HIDE DEF v
  <2> QED BY <1>5, <2>1, <2>2, EngineMoves DEF TickBooks, BotTypes, BotTypeOK, history
<1>6. CASE StreamEnds(e)
  <2> DEFINE v == [eng[e] EXCEPT !.tick = "off"]
  <2>1. v \in EngineType /\ PassOK(v) BY <1>1 DEF EngineType, PassOK
  <2>2. eng' = [eng EXCEPT ![e] = v] BY <1>6 DEF StreamEnds, BotTypes, BotTypeOK
  <2> HIDE DEF v
  <2> QED BY <1>6, <2>1, <2>2, EngineMoves DEF StreamEnds, BotTypes, BotTypeOK, store, history
<1> QED BY <1>2, <1>3, <1>4, <1>5, <1>6 DEF TickLoop

LEMMA EntryLoopTypes ==
  ASSUME BotTypes, NEW e \in Engines, EntryLoop(e) \/ EntryBlind(e) \/ AutoResumes(e)
  PROVE  BotTypes'
<1>1. eng[e] \in EngineType /\ PassOK(eng[e]) /\ status \in Statuses /\ eng[e].seen \in Statuses
  BY DEF BotTypes, BotTypeOK, EngineType
<1> DEFINE onward == [eng[e] EXCEPT !.entry = "scan", !.sym = @ + 1]
<1>2. Onward(e) = [eng EXCEPT ![e] = onward] BY DEF Onward, BotTypes, BotTypeOK
<1>3. eng[e].sym \in Symbols => onward \in EngineType /\ PassOK(onward)
  <2> SUFFICES ASSUME eng[e].sym \in Symbols PROVE onward \in EngineType /\ PassOK(onward)
    OBVIOUS
  <2> DEFINE u == [eng[e] EXCEPT !.entry = "scan"]
  <2>1. u \in EngineType /\ u.sym = eng[e].sym
    <3>1. u \in EngineType BY <1>1, Fields
    <3> QED BY <1>1, <3>1 DEF EngineType
  <2>2. eng[e].sym + 1 \in 0..N + 1 /\ eng[e].sym + 1 >= 1 BY Settings DEF Symbols
  <2>3. onward = [u EXCEPT !.sym = eng[e].sym + 1] BY <1>1 DEF EngineType
  <2> HIDE DEF u, onward
  <2>4. onward \in EngineType BY <2>1, <2>2, <2>3, Fields
  <2>5. onward.entry = "scan" /\ onward.sym = eng[e].sym + 1 BY <1>1 DEF onward, EngineType
  <2> QED BY <2>2, <2>4, <2>5 DEF PassOK
<1>4. eng[e].entry \in {"gate", "order"} => eng[e].sym \in Symbols BY <1>1 DEF PassOK
<1>5. ASSUME NEW seen \in Statuses
      PROVE  \E v \in EngineType : PassOK(v) /\ Pass(e, seen) = [eng EXCEPT ![e] = v]
  <2> DEFINE next == CASE seen = "stopped" -> "off"
                       [] seen = "paused" -> "sleep"
                       [] seen = "running" -> "scan"
             first == IF seen = "running" THEN 1 ELSE 0
             u == [eng[e] EXCEPT !.seen = seen]
             v == [[u EXCEPT !.entry = next] EXCEPT !.sym = first]
  <2>1. /\ next \in {"off", "sleep", "scan"}
        /\ first \in {0, 1} /\ first \in 0..N + 1
        /\ next = "scan" => first = 1
    BY Settings DEF Statuses
  <2>2. Pass(e, seen) = [eng EXCEPT ![e].seen = seen, ![e].entry = next, ![e].sym = first]
    BY DEF Pass
  <2> HIDE DEF next, first
  <2>3. Pass(e, seen) = [eng EXCEPT ![e] = v] BY <2>2 DEF BotTypes, BotTypeOK
  <2>4. u \in EngineType BY <1>1, Fields
  <2> HIDE DEF u
  <2>5. [u EXCEPT !.entry = next] \in EngineType BY <2>1, <2>4, Fields
  <2>6. v \in EngineType BY <2>1, <2>5, Fields
  <2>7. v.entry = next /\ v.sym = first BY <2>4 DEF EngineType
  <2> HIDE DEF v
  <2>8. PassOK(v) BY <2>1, <2>7 DEF PassOK
  <2> QED BY <2>3, <2>6, <2>8
<1> HIDE DEF onward
<1>6. CASE EntryLeaves(e)
  <2> DEFINE v == [eng[e] EXCEPT !.entry = "off"]
  <2>1. v \in EngineType /\ PassOK(v) BY <1>1 DEF EngineType, PassOK
  <2>2. eng' = [eng EXCEPT ![e] = v] BY <1>6 DEF EntryLeaves, BotTypes, BotTypeOK
  <2> HIDE DEF v
  <2> QED BY <1>6, <2>1, <2>2, EngineMoves DEF EntryLeaves, BotTypes, BotTypeOK, store, history
<1>7. CASE EntryWakes(e)
  <2>1. PICK v \in EngineType : PassOK(v) /\ Pass(e, status) = [eng EXCEPT ![e] = v] BY <1>1, <1>5
  <2>2. eng' = [eng EXCEPT ![e] = v] BY <1>7, <2>1 DEF EntryWakes, Reread
  <2> QED BY <1>7, <2>1, <2>2, EngineMoves DEF EntryWakes, BotTypes, BotTypeOK, store, history
<1>8. CASE EntryBlind(e)
  <2>1. PICK v \in EngineType : PassOK(v) /\ Pass(e, eng[e].seen) = [eng EXCEPT ![e] = v]
    BY <1>1, <1>5
  <2>2. eng' = [eng EXCEPT ![e] = v] BY <1>8, <2>1 DEF EntryBlind
  <2>3. faults' \in 0..MaxFaults /\ blind' \in BOOLEAN
    BY <1>8, Settings DEF EntryBlind, RefreshFails, BotTypes, BotTypeOK
  <2> QED BY <1>8, <2>1, <2>2, <2>3, EngineMoves DEF EntryBlind, BotTypes, BotTypeOK, store, history
<1>9. CASE AutoResumes(e)
  <2>1. PICK v \in EngineType : PassOK(v) /\ Pass(e, "running") = [eng EXCEPT ![e] = v]
    BY <1>5 DEF Statuses
  <2>2. eng' = [eng EXCEPT ![e] = v] BY <1>9, <2>1 DEF AutoResumes
  <2>3. status' \in Statuses /\ UNCHANGED <<ended, late, blind>>
    BY <1>9 DEF AutoResumes, Becomes, Statuses
  <2> QED BY <1>9, <2>1, <2>2, <2>3, EngineMoves DEF AutoResumes, BotTypes, BotTypeOK
<1>10. CASE PassScans(e)
  <2> DEFINE v == [eng[e] EXCEPT !.entry = "gate"]
  <2>1. v \in EngineType /\ PassOK(v)
    BY <1>1, <1>10, Settings DEF PassScans, EngineType, PassOK, Symbols
  <2>2. eng' = [eng EXCEPT ![e] = v] BY <1>10 DEF PassScans, BotTypes, BotTypeOK
  <2> HIDE DEF v
  <2> QED BY <1>10, <2>1, <2>2, EngineMoves DEF PassScans, BotTypes, BotTypeOK, store, history
<1>11. CASE PassSkips(e) \/ PassRejects(e)
  <2>1. eng' = [eng EXCEPT ![e] = onward] BY <1>2, <1>11 DEF PassSkips, PassRejects
  <2>2. onward \in EngineType /\ PassOK(onward)
    BY <1>3, <1>4, <1>11 DEF PassSkips, PassRejects
  <2> QED BY <1>11, <2>1, <2>2, EngineMoves
          DEF PassSkips, PassRejects, BotTypes, BotTypeOK, store, history
<1>12. CASE PassOrders(e)
  <2> DEFINE v == [eng[e] EXCEPT !.entry = "order"]
  <2>1. v \in EngineType /\ PassOK(v)
    BY <1>1, <1>12, Settings DEF PassOrders, EngineType, PassOK, Symbols
  <2>2. eng' = [eng EXCEPT ![e] = v] BY <1>12 DEF PassOrders, BotTypes, BotTypeOK
  <2>3. late' \in 0..MaxFaults + 2 BY <1>12, Settings DEF PassOrders, BotTypes, BotTypeOK
  <2> HIDE DEF v
  <2> QED BY <1>12, <2>1, <2>2, <2>3, EngineMoves DEF PassOrders, BotTypes, BotTypeOK, store
<1>13. CASE PassPauses(e)
  <2> DEFINE v == [onward EXCEPT !.seen = "paused"]
  <2>1. eng[e].sym \in Symbols BY <1>4, <1>13 DEF PassPauses
  <2>2. v \in EngineType /\ PassOK(v) BY <1>3, <2>1 DEF EngineType, PassOK, Statuses
  <2>3. eng' = [eng EXCEPT ![e] = v] BY <1>2, <1>13 DEF PassPauses, BotTypes, BotTypeOK
  <2>4. /\ status' \in Statuses /\ pauses' = "fresh" /\ wish' = FALSE
        /\ UNCHANGED <<ended, late, blind>>
    BY <1>13 DEF PassPauses, Pauses, Becomes, Statuses
  <2> HIDE DEF v
  <2> QED BY <1>13, <2>2, <2>3, <2>4, EngineMoves DEF PassPauses, BotTypes, BotTypeOK
<1>14. CASE PassBooks(e)
  <2>1. eng' = [eng EXCEPT ![e] = onward] BY <1>2, <1>14 DEF PassBooks
  <2>2. eng[e].sym \in Symbols BY <1>4, <1>14 DEF PassBooks
  <2>3. rows' \subseteq Symbols BY <1>14, <2>2 DEF PassBooks, BotTypes, BotTypeOK
  <2> QED BY <1>3, <1>14, <2>1, <2>2, <2>3, EngineMoves DEF PassBooks, BotTypes, BotTypeOK, history
<1>15. CASE PassEnds(e)
  <2> DEFINE v == [eng[e] EXCEPT !.entry = "sleep", !.sym = 0]
  <2>1. v \in EngineType /\ PassOK(v)
    <3> DEFINE u == [eng[e] EXCEPT !.entry = "sleep"]
    <3>1. u \in EngineType BY <1>1, Fields
    <3>2. 0 \in 0..N + 1 BY Settings
    <3> HIDE DEF u
    <3>3. [u EXCEPT !.sym = 0] \in EngineType BY <3>1, <3>2, Fields
    <3>4. v = [u EXCEPT !.sym = 0] BY DEF u
    <3>5. v.entry = "sleep" BY <1>1 DEF EngineType
    <3> HIDE DEF v
    <3> QED BY <3>3, <3>4, <3>5 DEF PassOK
  <2>2. eng' = [eng EXCEPT ![e] = v] BY <1>15 DEF PassEnds, BotTypes, BotTypeOK
  <2> HIDE DEF v
  <2> QED BY <1>15, <2>1, <2>2, EngineMoves DEF PassEnds, BotTypes, BotTypeOK, store, history
<1> QED BY <1>6, <1>7, <1>8, <1>9, <1>10, <1>11, <1>12, <1>13, <1>14, <1>15 DEF EntryLoop

LEMMA EnginesOf ==
  ASSUME NEW w \in Workers
  PROVE  /\ Current(w) \in Engines /\ Old(w) \in Engines /\ Current(w) # Old(w)
         /\ Current(w)[1] = w /\ Old(w)[1] = w
BY DEF Current, Old, Engines

ProcessType == [pc: {"down", "boot", "decide", "wait", "sleep", "run", "backoff", "closing"},
                seen: Statuses, sig: BOOLEAN]

LEMMA EngineFrees ==
  ASSUME BotTypes, NEW w \in Workers,
         eng' = [e \in Engines |-> IF e[1] = w THEN NoEngine ELSE eng[e]]
  PROVE  eng' \in [Engines -> EngineType] /\ \A e \in Engines : PassOK(eng'[e])
BY EngineValues DEF BotTypes, BotTypeOK

LEMMA WorkerTypes ==
  ASSUME BotTypes, NEW w \in Workers, Worker(w) \/ Terminate(w) \/ Killed(w) \/ Dies(w)
  PROVE  BotTypes'
<1>1. /\ proc \in [Workers -> ProcessType] /\ status \in Statuses
      /\ eng \in [Engines -> EngineType] /\ \A e \in Engines : PassOK(eng[e])
  BY DEF BotTypes, BotTypeOK, ProcessType
<1>2. CASE StartProcess(w)
  <2>1. [NoProcess EXCEPT !.pc = "boot"] \in ProcessType BY DEF NoProcess, ProcessType, Statuses
  <2>2. proc' \in [Workers -> ProcessType] BY <1>1, <1>2, <2>1 DEF StartProcess
  <2> QED BY <1>2, <2>2 DEF StartProcess, BotTypes, BotTypeOK, ProcessType, store, history
<1>3. CASE BootReads(w)
  <2>1. proc' \in [Workers -> ProcessType] BY <1>1, <1>3 DEF BootReads, ProcessType
  <2> QED BY <1>3, <2>1 DEF BootReads, BotTypes, BotTypeOK, ProcessType, store, history
<1>4. CASE BootDecides(w)
  <2>1. PICK st \in Autostarts(proc[w].seen) :
          /\ IF st = proc[w].seen THEN UNCHANGED status ELSE status' = st
          /\ proc' = [proc EXCEPT ![w].seen = "stopped",
                                  ![w].pc = IF st = "running" THEN "run" ELSE "wait",
                                  ![w].sig = @ /\ st # "running"]
          /\ eng' = [eng EXCEPT ![Current(w)] = NewEngine(st)]
    BY <1>4 DEF BootDecides
  <2>2. st \in Statuses
    <3>1. proc[w].seen \in Statuses BY <1>1 DEF ProcessType
    <3> QED BY <3>1 DEF Autostarts, Statuses
  <2>3. eng' \in [Engines -> EngineType] /\ \A e \in Engines : PassOK(eng'[e])
    BY <2>1, <2>2, EngineValues, EnginesOf, EngineMoves
  <2>4. status' \in Statuses
    <3>1. CASE st = proc[w].seen BY <2>1, <3>1 DEF BotTypes, BotTypeOK
    <3>2. CASE st # proc[w].seen BY <2>1, <2>2, <3>2
    <3> QED BY <3>1, <3>2
  <2>5. proc' \in [Workers -> ProcessType]
    <3> DEFINE next == IF st = "running" THEN "run" ELSE "wait"
               sig == proc[w].sig /\ st # "running"
    <3>1. next \in {"run", "wait"} /\ sig \in BOOLEAN BY <1>1 DEF ProcessType
    <3>2. proc' = [proc EXCEPT ![w].seen = "stopped", ![w].pc = next, ![w].sig = sig]
      BY <2>1
    <3> HIDE DEF next, sig
    <3> DEFINE v == [[[proc[w] EXCEPT !.seen = "stopped"] EXCEPT !.pc = next] EXCEPT !.sig = sig]
    <3>3. proc' = [proc EXCEPT ![w] = v] BY <1>1, <3>2
    <3>4. v \in ProcessType
      <4>1. [proc[w] EXCEPT !.seen = "stopped"] \in ProcessType BY <1>1 DEF ProcessType, Statuses
      <4>2. [[proc[w] EXCEPT !.seen = "stopped"] EXCEPT !.pc = next] \in ProcessType
        BY <3>1, <4>1 DEF ProcessType
      <4> QED BY <3>1, <4>2 DEF ProcessType
    <3> HIDE DEF v
    <3> QED BY <1>1, <3>3, <3>4
  <2>6. UNCHANGED <<pauses, rows, manual, faults, wish, ended, late, blind>>
    BY <1>4 DEF BootDecides, history
  <2> QED BY <2>3, <2>4, <2>5, <2>6 DEF BotTypes, BotTypeOK, ProcessType
<1>5. CASE WaitExits(w) \/ WaitSleeps(w)
  <2>1. proc' \in [Workers -> ProcessType]
    BY <1>1, <1>5 DEF WaitExits, WaitSleeps, Goes, ProcessType
  <2> QED BY <1>5, <2>1 DEF WaitExits, WaitSleeps, BotTypes, BotTypeOK, ProcessType, store, history
<1>6. CASE WaitWakes(w) \/ Terminate(w)
  <2>1. proc' \in [Workers -> ProcessType]
    <3>1. CASE WaitWakes(w) BY <1>1, <3>1 DEF WaitWakes, ProcessType
    <3>2. CASE Terminate(w) BY <1>1, <3>2 DEF Terminate, ProcessType
    <3> QED BY <1>6, <3>1, <3>2
  <2> QED BY <1>6, <2>1 DEF WaitWakes, Terminate, BotTypes, BotTypeOK, ProcessType, store, history
<1>7. CASE Closes(w)
  <2> DEFINE v == [eng[Current(w)] EXCEPT !.running = FALSE]
  <2>1. v \in EngineType /\ PassOK(v)
    <3>1. eng[Current(w)] \in EngineType /\ PassOK(eng[Current(w)]) BY <1>1, EnginesOf
    <3> QED BY <3>1 DEF EngineType, PassOK
  <2>2. eng' = [eng EXCEPT ![Current(w)] = v] BY <1>1, <1>7, EnginesOf DEF Closes
  <2>3. proc' \in [Workers -> ProcessType] BY <1>1, <1>7 DEF Closes, Goes, ProcessType
  <2> HIDE DEF v
  <2>4. eng' \in [Engines -> EngineType] /\ \A e \in Engines : PassOK(eng'[e])
    BY <2>1, <2>2, EnginesOf, EngineMoves
  <2> QED BY <1>7, <2>3, <2>4 DEF Closes, BotTypes, BotTypeOK, ProcessType, store, history
<1>8. CASE Exits(w) \/ Killed(w) \/ Dies(w)
  <2>1. /\ proc' = [proc EXCEPT ![w].pc = "down"]
        /\ eng' = [e \in Engines |-> IF e[1] = w THEN NoEngine ELSE eng[e]]
        /\ UNCHANGED <<store, manual, history>>
    BY <1>8 DEF Exits, Killed, Dies, ProcessEnds, Goes
  <2>2. proc' \in [Workers -> ProcessType] BY <1>1, <2>1 DEF ProcessType
  <2>3. eng' \in [Engines -> EngineType] /\ \A e \in Engines : PassOK(eng'[e])
    BY <2>1, EngineFrees
  <2>4. faults' \in 0..MaxFaults
    BY <1>8, Settings DEF Exits, Killed, Dies, BotTypes, BotTypeOK
  <2> QED BY <2>1, <2>2, <2>3, <2>4 DEF BotTypes, BotTypeOK, ProcessType, store, history
<1>9. CASE Retries(w)
  <2>1. eng' = [eng EXCEPT ![Current(w)] = NewEngine(status), ![Old(w)] = eng[Current(w)]]
    BY <1>9 DEF Retries
  <2>2. eng' \in [Engines -> EngineType] /\ \A e \in Engines : PassOK(eng'[e])
    BY <1>1, <2>1, EngineValues, EnginesOf
  <2>3. proc' \in [Workers -> ProcessType] BY <1>1, <1>9 DEF Retries, Goes, ProcessType
  <2> QED BY <1>9, <2>2, <2>3 DEF Retries, BotTypes, BotTypeOK, ProcessType, store, history
<1> QED BY <1>2, <1>3, <1>4, <1>5, <1>6, <1>7, <1>8, <1>9 DEF Worker

LEMMA FailureTypes ==
  ASSUME BotTypes, NEW e \in Engines, TickFails(e) \/ EntryFails(e)
  PROVE  BotTypes'
<1>1. eng[e] \in EngineType /\ PassOK(eng[e]) BY DEF BotTypes, BotTypeOK
<1>2. PICK v \in {[eng[e] EXCEPT !.tick = "off"], [eng[e] EXCEPT !.entry = "off"]} : Fails(e, v)
  BY DEF TickFails, EntryFails
<1>3. v \in EngineType BY <1>1, Fields
<1>4. PassOK(v)
  <2>1. CASE v = [eng[e] EXCEPT !.tick = "off"] BY <1>1, <2>1 DEF EngineType, PassOK
  <2>2. CASE v = [eng[e] EXCEPT !.entry = "off"] BY <1>1, <2>2 DEF EngineType, PassOK
  <2> QED BY <2>1, <2>2
<1>5. eng' = [eng EXCEPT ![e] = v] BY <1>2 DEF Fails
<1>6. proc' \in [Workers -> ProcessType]
  <2>1. proc \in [Workers -> ProcessType] /\ e[1] \in Workers
    BY DEF BotTypes, BotTypeOK, ProcessType, Engines
  <2> QED BY <1>2, <2>1 DEF Fails, Goes, ProcessType
<1>7. faults' \in 0..MaxFaults BY <1>2, Settings DEF Fails, BotTypes, BotTypeOK
<1>8. eng' \in [Engines -> EngineType] /\ \A d \in Engines : PassOK(eng'[d])
  BY <1>3, <1>4, <1>5, EngineMoves
<1> QED BY <1>2, <1>6, <1>7, <1>8 DEF Fails, BotTypes, BotTypeOK, ProcessType, store, history

LEMMA RequestTypes == ASSUME BotTypes, BotRequests \/ PauseAges PROVE BotTypes'
<1>1. 0 \in 0..MaxFaults + 2 BY Settings
<1>2. UNCHANGED <<proc, eng, faults>>
  BY DEF BotRequests, PauseAges, UserStarts, UserStops, UserPauses, UserResets, ManualStarts,
         ManualPauses, ManualEnds
<1>3. /\ status' \in Statuses /\ late' \in 0..MaxFaults + 2 /\ blind' \in BOOLEAN
      /\ ended' \in BOOLEAN
      /\ wish' \in BOOLEAN /\ manual' \in BOOLEAN /\ pauses' \in {"none", "fresh", "old"}
  BY <1>1 DEF BotRequests, PauseAges, UserStarts, UserStops, UserPauses, UserResets, ManualStarts,
         ManualPauses, ManualEnds, Pauses, Becomes, Requested, Statuses, BotTypes, BotTypeOK, store, history
<1>4. rows' \subseteq Symbols
  BY DEF BotRequests, PauseAges, UserStarts, UserStops, UserPauses, UserResets, ManualStarts,
         ManualPauses, ManualEnds, BotTypes, BotTypeOK, store
<1> QED BY <1>2, <1>3, <1>4 DEF BotTypes, BotTypeOK

LEMMA BotTypesForward == BotTypes /\ [BotNext]_botVars => BotTypes'
<1> SUFFICES ASSUME BotTypes, [BotNext]_botVars PROVE BotTypes' OBVIOUS
<1>1. ASSUME NEW w \in Workers, Worker(w) \/ Terminate(w) \/ Killed(w) \/ Dies(w) PROVE BotTypes'
  BY <1>1, WorkerTypes
<1>2. ASSUME NEW e \in Engines, TickLoop(e) \/ TickBlind(e) PROVE BotTypes'
  BY <1>2, TickLoopTypes
<1>3. ASSUME NEW e \in Engines, EntryLoop(e) \/ EntryBlind(e) \/ AutoResumes(e) PROVE BotTypes'
  BY <1>3, EntryLoopTypes
<1>4. ASSUME NEW e \in Engines, TickFails(e) \/ EntryFails(e) PROVE BotTypes'
  BY <1>4, FailureTypes
<1>5. CASE BotRequests \/ PauseAges BY <1>5, RequestTypes
<1>6. CASE UNCHANGED botVars BY <1>6 DEF botVars, store, history, BotTypes, BotTypeOK
<1> QED BY <1>1, <1>2, <1>3, <1>4, <1>5, <1>6 DEF BotNext

LEMMA BotTypesInit == BotInit => BotTypes
<1> SUFFICES ASSUME BotInit PROVE BotTypes OBVIOUS
<1>1. 0 \in 0..MaxFaults /\ 0 \in 0..MaxFaults + 2 BY Settings
<1>2. NoProcess \in ProcessType BY DEF NoProcess, ProcessType, Statuses
<1>3. proc \in [Workers -> ProcessType] BY <1>2 DEF BotInit
<1>4. eng \in [Engines -> EngineType] /\ \A e \in Engines : PassOK(eng[e])
  BY EngineValues DEF BotInit
<1> QED BY <1>1, <1>3, <1>4 DEF BotInit, BotTypes, BotTypeOK, ProcessType, Statuses

\* The account, the container's process and its engines keep their types, and a pass is
\* always at one of the symbols when it orders.
THEOREM BotTypesHold == BotSpec => []BotTypeOK
<1>1. BotTypes => BotTypeOK BY DEF BotTypes
<1> QED BY <1>1, BotTypesInit, BotTypesForward, PTL DEF BotSpec

-----------------------------------------------------------------------------
(* PaperBot: the entries after a stop *)

\* Whether the pass of an engine may still order an entry of the last symbol.
Due(v) ==
  IF (v.entry \in {"scan", "gate"} /\ v.sym <= N) \/ (v.entry = "order" /\ v.sym < N)
  THEN 1 ELSE 0

\* What the only container's two engines have ordered since the stop, and may still: the
\* one that an error left is in a pass only after an error.
StopPart(w) ==
  /\ ~ended => late = 0
  /\ status = "stopped" /\ ended /\ ~blind =>
       late + Due(eng[Current(w)]) + Due(eng[Old(w)]) <= 1 + faults
  /\ eng[Old(w)].entry # "off" => faults >= 1
  /\ At(w, "backoff") => (eng[Old(w)].entry = "off" /\ faults >= 1)

StopInv == \A w \in Workers : Workers = {w} => StopPart(w)

LEMMA DueType ==
  /\ \A v : Due(v) \in {0, 1}
  /\ \A v : v.entry \in {"off", "sleep"} => Due(v) = 0
BY DEF Due

LEMMA TwoEngines ==
  ASSUME NEW w, Workers = {w}, NEW e \in Engines
  PROVE  (e = Current(w) \/ e = Old(w)) /\ e[1] = w
BY DEF Engines, Current, Old

LEMMA EnginesTyped ==
  ASSUME BotTypes, NEW e \in Engines
  PROVE  /\ eng[e] \in EngineType /\ PassOK(eng[e]) /\ eng[e].sym \in Nat
         /\ eng \in [Engines -> EngineType]
         /\ late \in Nat /\ faults \in Nat
BY Settings DEF BotTypes, BotTypeOK, EngineType

\* A request of the user: the count begins anew.
LEMMA CountAnew ==
  ASSUME NEW w, Workers = {w}, BotTypes, StopPart(w), late' = 0, faults' = faults,
         eng'[Old(w)].entry # "off" => eng[Old(w)].entry # "off",
         At(w, "backoff")' => At(w, "backoff")
  PROVE  StopPart(w)'
<1>1. faults \in Nat BY Settings DEF BotTypes, BotTypeOK
<1>2. eng'[Old(w)].entry # "off" => faults' >= 1 BY DEF StopPart
<1> DEFINE c == Due(eng'[Current(w)])
           o == Due(eng'[Old(w)])
<1>3. c \in {0, 1} /\ o \in {0, 1} BY DueType
<1>4. o = 1 => faults' >= 1 BY <1>2, DueType
<1>5. late' + c + o <= 1 + faults'
  <2> HIDE DEF c, o
  <2> QED BY <1>1, <1>3, <1>4
<1>6. At(w, "backoff")' => (eng'[Old(w)].entry = "off" /\ faults' >= 1) BY DEF StopPart
<1> QED BY <1>2, <1>5, <1>6 DEF StopPart

\* A pause, a resume or a boot puts an end to the stop.
LEMMA Undone ==
  ASSUME NEW w, Workers = {w}, BotTypes, StopPart(w), status' # "stopped",
         UNCHANGED <<ended, late, faults>>,
         eng'[Old(w)].entry # "off" => eng[Old(w)].entry # "off",
         At(w, "backoff")' => At(w, "backoff")
  PROVE  StopPart(w)'
<1>1. /\ eng'[Old(w)].entry # "off" => faults' >= 1
      /\ At(w, "backoff")' => (eng'[Old(w)].entry = "off" /\ faults' >= 1)
  BY DEF StopPart
<1>2. ~ended' => late' = 0 BY DEF StopPart
<1> QED BY <1>1, <1>2 DEF StopPart

\* A step of one engine that orders no more than was due.
LEMMA EngineOrders ==
  ASSUME NEW w, Workers = {w}, BotTypes, StopPart(w), NEW e \in Engines, NEW v,
         eng' = [eng EXCEPT ![e] = v],
         v.entry # "off" => eng[e].entry # "off",
         status' = status, ended' = ended, blind' = blind, late' \in Nat, faults' \in Nat, faults' >= faults,
         ~ended => late' = late,
         status = "stopped" => late' + Due(v) <= late + Due(eng[e]),
         At(w, "backoff")' => At(w, "backoff")
  PROVE  StopPart(w)'
<1> DEFINE c == Due(eng[Current(w)])
           o == Due(eng[Old(w)])
           c1 == Due(eng'[Current(w)])
           o1 == Due(eng'[Old(w)])
<1>1. w \in Workers OBVIOUS
<1>2. Current(w) \in Engines /\ Old(w) \in Engines /\ Current(w) # Old(w) BY <1>1, EnginesOf
<1>3. eng \in [Engines -> EngineType] /\ late \in Nat /\ faults \in Nat BY EnginesTyped
<1>4. {c, o, c1, o1} \subseteq {0, 1} BY DueType
<1>5. e = Current(w) => c1 = Due(v) /\ o1 = o /\ eng'[Old(w)] = eng[Old(w)] BY <1>2, <1>3
<1>6. e = Old(w) => o1 = Due(v) /\ c1 = c /\ eng'[Old(w)] = v BY <1>2, <1>3
<1>7. e = Current(w) \/ e = Old(w) BY TwoEngines
<1>8. eng'[Old(w)].entry # "off" => eng[Old(w)].entry # "off" BY <1>5, <1>6, <1>7
<1>9. status = "stopped" => late' + c1 + o1 <= late + c + o
  <2>1. CASE e = Current(w)
    <3>1. Due(eng[e]) = c /\ c1 = Due(v) /\ o1 = o BY <1>5, <2>1
    <3>2. status = "stopped" => late' + c1 <= late + c BY <3>1
    <3> HIDE DEF c, o, c1, o1
    <3> QED BY <1>3, <1>4, <3>1, <3>2
  <2>2. CASE e = Old(w)
    <3>1. Due(eng[e]) = o /\ o1 = Due(v) /\ c1 = c BY <1>6, <2>2
    <3>2. status = "stopped" => late' + o1 <= late + o BY <3>1
    <3> HIDE DEF c, o, c1, o1
    <3> QED BY <1>3, <1>4, <3>1, <3>2
  <2> QED BY <1>7, <2>1, <2>2
<1>10. status = "stopped" /\ ended /\ ~blind => late + c + o <= 1 + faults BY DEF StopPart
<1>11. status' = "stopped" /\ ended' /\ ~blind' => late' + c1 + o1 <= 1 + faults'
  <2> HIDE DEF c, o, c1, o1
  <2> QED BY <1>3, <1>4, <1>9, <1>10
<1>12. eng'[Old(w)].entry # "off" => faults' >= 1 BY <1>3, <1>8 DEF StopPart
<1>13. At(w, "backoff")' => (eng'[Old(w)].entry = "off" /\ faults' >= 1)
  BY <1>3, <1>8 DEF StopPart
<1>14. ~ended' => late' = 0 BY DEF StopPart
<1> HIDE DEF c1, o1
<1>15. late' + Due(eng'[Current(w)]) + Due(eng'[Old(w)]) = late' + c1 + o1 BY DEF c1, o1
<1> QED BY <1>11, <1>12, <1>13, <1>14, <1>15 DEF StopPart

\* A failed refresh: the account's copy is blind from here on.
LEMMA BlindStep ==
  ASSUME NEW w, Workers = {w}, BotTypes, StopPart(w), NEW e \in Engines, NEW v,
         eng' = [eng EXCEPT ![e] = v], v.entry # "off" => eng[e].entry # "off",
         RefreshFails(e), UNCHANGED <<status, ended, late, proc>>
  PROVE  StopPart(w)'
<1>1. w \in Workers OBVIOUS
<1>2. Old(w) \in Engines BY <1>1, EnginesOf
<1>3. eng \in [Engines -> EngineType] /\ faults \in Nat BY EnginesTyped
<1>4. eng'[Old(w)].entry # "off" => eng[Old(w)].entry # "off" BY <1>2, <1>3
<1>5. faults' \in Nat /\ faults' >= faults BY <1>3 DEF RefreshFails
<1>6. ~(ended' /\ ~blind') BY DEF RefreshFails
<1>7. ~ended' => late' = 0 BY DEF StopPart
<1>8. eng'[Old(w)].entry # "off" => faults' >= 1 BY <1>3, <1>4, <1>5 DEF StopPart
<1>9. At(w, "backoff")' => (eng'[Old(w)].entry = "off" /\ faults' >= 1)
  BY <1>3, <1>4, <1>5 DEF StopPart, At
<1> QED BY <1>6, <1>7, <1>8, <1>9 DEF StopPart

\* The engine keeps its place in the pass.
LEMMA SamePlace ==
  ASSUME NEW w, Workers = {w}, BotTypes, StopPart(w), NEW e \in Engines, NEW v,
         eng' = [eng EXCEPT ![e] = v], v.entry = eng[e].entry, v.sym = eng[e].sym,
         UNCHANGED <<status, ended, blind, late, faults>>,
         At(w, "backoff")' => At(w, "backoff")
  PROVE  StopPart(w)'
<1>1. late \in Nat /\ faults \in Nat BY EnginesTyped
<1>2. Due(v) = Due(eng[e]) BY DEF Due
<1>3. Due(v) \in {0, 1} BY DueType
<1>4. late' + Due(v) <= late + Due(eng[e]) BY <1>1, <1>2, <1>3
<1>5. status' = status /\ ended' = ended /\ blind' = blind /\ late' = late /\ late' \in Nat BY <1>1
<1>6. faults' \in Nat /\ faults' >= faults BY <1>1
<1>7. v.entry # "off" => eng[e].entry # "off" OBVIOUS
<1> QED BY <1>4, <1>5, <1>6, <1>7, EngineOrders

LEMMA TickLoopStop ==
  ASSUME NEW w, Workers = {w}, BotTypes, StopPart(w), NEW e \in Engines,
         TickLoop(e) \/ TickBlind(e)
  PROVE  StopPart(w)'
<1>1. eng[e] \in EngineType BY EnginesTyped
<1>2. CASE TickBlind(e)
  <2> DEFINE v == [eng[e] EXCEPT !.tick = IF eng[e].seen = "running" THEN "listen" ELSE "off"]
  <2>1. eng' = [eng EXCEPT ![e] = v] BY <1>2 DEF TickBlind, BotTypes, BotTypeOK
  <2>2. v.entry = eng[e].entry BY <1>1 DEF EngineType
  <2> HIDE DEF v
  <2> QED BY <1>2, <2>1, <2>2, BlindStep DEF TickBlind, store
<1>3. CASE TickLoop(e)
  <2>1. PICK v : /\ eng' = [eng EXCEPT ![e] = v]
                 /\ v.entry = eng[e].entry /\ v.sym = eng[e].sym
    <3>1. CASE TickChecks(e)
      <4> DEFINE v == [eng[e] EXCEPT !.seen = status,
                                     !.tick = IF status = "running" THEN "listen" ELSE "off"]
      <4>1. eng' = [eng EXCEPT ![e] = v] BY <3>1 DEF TickChecks, BotTypes, BotTypeOK
      <4>2. v.entry = eng[e].entry /\ v.sym = eng[e].sym BY <1>1 DEF EngineType
      <4> HIDE DEF v
      <4> QED BY <4>1, <4>2
    <3>2. ASSUME NEW s \in Symbols, TickExits(e, s)
          PROVE  \E v : /\ eng' = [eng EXCEPT ![e] = v]
                        /\ v.entry = eng[e].entry /\ v.sym = eng[e].sym
      <4> DEFINE v == [eng[e] EXCEPT !.tick = "exit", !.out = s]
      <4>1. eng' = [eng EXCEPT ![e] = v] BY <3>2 DEF TickExits, BotTypes, BotTypeOK
      <4>2. v.entry = eng[e].entry /\ v.sym = eng[e].sym BY <1>1 DEF EngineType
      <4> HIDE DEF v
      <4> QED BY <4>1, <4>2
    <3>3. CASE TickBooks(e)
      <4> DEFINE v == [eng[e] EXCEPT !.tick = "listen", !.out = 0]
      <4>1. eng' = [eng EXCEPT ![e] = v] BY <3>3 DEF TickBooks, BotTypes, BotTypeOK
      <4>2. v.entry = eng[e].entry /\ v.sym = eng[e].sym BY <1>1 DEF EngineType
      <4> HIDE DEF v
      <4> QED BY <4>1, <4>2
    <3>4. CASE StreamEnds(e)
      <4> DEFINE v == [eng[e] EXCEPT !.tick = "off"]
      <4>1. eng' = [eng EXCEPT ![e] = v] BY <3>4 DEF StreamEnds, BotTypes, BotTypeOK
      <4>2. v.entry = eng[e].entry /\ v.sym = eng[e].sym BY <1>1 DEF EngineType
      <4> HIDE DEF v
      <4> QED BY <4>1, <4>2
    <3> QED BY <1>3, <3>1, <3>2, <3>3, <3>4 DEF TickLoop
  <2>2. UNCHANGED <<status, ended, blind, late, faults, proc>>
    BY <1>3 DEF TickLoop, TickChecks, TickExits, TickBooks, StreamEnds, store, history
  <2> QED BY <2>1, <2>2, SamePlace DEF At
<1> QED BY <1>2, <1>3

\* A pass begins only while the account runs, or with a copy that says so.
LEMMA PassBegins ==
  ASSUME NEW e, NEW seen \in Statuses, BotTypes, e \in Engines
  PROVE  \E v : /\ Pass(e, seen) = [eng EXCEPT ![e] = v]
                /\ seen = "stopped" => v.entry = "off"
<1> DEFINE next == CASE seen = "stopped" -> "off"
                     [] seen = "paused" -> "sleep"
                     [] seen = "running" -> "scan"
           first == IF seen = "running" THEN 1 ELSE 0
           v == [[[eng[e] EXCEPT !.seen = seen] EXCEPT !.entry = next] EXCEPT !.sym = first]
<1>1. seen = "stopped" => next = "off" OBVIOUS
<1>2. Pass(e, seen) = [eng EXCEPT ![e].seen = seen, ![e].entry = next, ![e].sym = first]
  BY DEF Pass
<1> HIDE DEF next, first
<1>3. v.entry = next BY EnginesTyped DEF EngineType
<1>4. Pass(e, seen) = [eng EXCEPT ![e] = v] BY <1>2 DEF BotTypes, BotTypeOK
<1> HIDE DEF v
<1> QED BY <1>1, <1>3, <1>4

LEMMA WakeStop ==
  ASSUME NEW w, Workers = {w}, BotTypes, StopPart(w), NEW e \in Engines,
         EntryWakes(e) \/ EntryBlind(e) \/ AutoResumes(e) \/ EntryLeaves(e)
  PROVE  StopPart(w)'
<1>1. /\ status \in Statuses /\ eng[e].seen \in Statuses /\ "running" \in Statuses
      /\ eng[e] \in EngineType /\ late \in Nat /\ faults \in Nat
  BY EnginesTyped DEF BotTypes, BotTypeOK, EngineType, Statuses
<1>2. /\ w \in Workers /\ Old(w) \in Engines /\ eng \in [Engines -> EngineType]
  BY EnginesOf, EnginesTyped
<1>3. CASE EntryWakes(e)
  <2>1. eng[e].entry = "sleep" /\ eng' = Pass(e, status) BY <1>3 DEF EntryWakes, Wakes, Reread
  <2>2. PICK v : eng' = [eng EXCEPT ![e] = v] /\ (status = "stopped" => v.entry = "off")
    BY <1>1, <2>1, PassBegins
  <2>3. UNCHANGED <<status, ended, blind, late, faults, proc>> BY <1>3 DEF EntryWakes, store, history
  <2>4. Due(eng[e]) = 0 /\ (status = "stopped" => Due(v) = 0) BY <2>1, <2>2, DueType
  <2>5. status = "stopped" => late' + Due(v) <= late + Due(eng[e]) BY <1>1, <2>3, <2>4
  <2>6. /\ status' = status /\ ended' = ended /\ blind' = blind /\ late' = late /\ late' \in Nat
        /\ faults' \in Nat /\ faults' >= faults
    BY <1>1, <2>3
  <2>7. At(w, "backoff")' => At(w, "backoff") BY <2>3 DEF At
  <2>8. v.entry # "off" => eng[e].entry # "off" BY <2>1
  <2> QED BY <2>2, <2>5, <2>6, <2>7, <2>8, EngineOrders
<1>4. CASE EntryBlind(e)
  <2>1. eng[e].entry = "sleep" /\ eng' = Pass(e, eng[e].seen) /\ RefreshFails(e)
    BY <1>4 DEF EntryBlind, Wakes
  <2>2. PICK v : eng' = [eng EXCEPT ![e] = v] BY <1>1, <2>1, PassBegins
  <2>3. UNCHANGED <<status, ended, late, proc>> BY <1>4 DEF EntryBlind, store
  <2> QED BY <2>1, <2>2, <2>3, BlindStep
<1>5. CASE AutoResumes(e)
  <2>1. eng[e].entry = "sleep" /\ eng' = Pass(e, "running") BY <1>5 DEF AutoResumes, Wakes
  <2>2. PICK v : eng' = [eng EXCEPT ![e] = v] BY <1>1, <2>1, PassBegins
  <2>3. eng'[Old(w)].entry # "off" => eng[Old(w)].entry # "off" BY <1>2, <2>1, <2>2
  <2>4. /\ status' # "stopped" /\ UNCHANGED <<ended, late, faults>>
        /\ At(w, "backoff")' => At(w, "backoff")
    BY <1>5 DEF AutoResumes, Becomes, At
  <2> QED BY <2>3, <2>4, Undone
<1>6. CASE EntryLeaves(e)
  <2> DEFINE v == [eng[e] EXCEPT !.entry = "off"]
  <2>1. eng' = [eng EXCEPT ![e] = v] BY <1>6 DEF EntryLeaves, BotTypes, BotTypeOK
  <2>2. v.entry = "off" BY <1>1 DEF EngineType
  <2> HIDE DEF v
  <2>3. Due(v) = 0 /\ Due(eng[e]) \in {0, 1} BY <2>2, DueType
  <2>4. UNCHANGED <<status, ended, blind, late, faults, proc>> BY <1>6 DEF EntryLeaves, store, history
  <2>5. late' + Due(v) <= late + Due(eng[e]) BY <1>1, <2>3, <2>4
  <2>6. /\ status' = status /\ ended' = ended /\ blind' = blind /\ late' = late /\ late' \in Nat
        /\ faults' \in Nat /\ faults' >= faults
    BY <1>1, <2>4
  <2>7. At(w, "backoff")' => At(w, "backoff") BY <2>4 DEF At
  <2> QED BY <2>1, <2>2, <2>5, <2>6, <2>7, EngineOrders
<1> QED BY <1>3, <1>4, <1>5, <1>6

\* Within a pass: an order of the last symbol is the only one that counts.
LEMMA PassStop ==
  ASSUME NEW w, Workers = {w}, BotTypes, StopPart(w), NEW e \in Engines,
         \/ PassScans(e) \/ PassSkips(e) \/ PassOrders(e) \/ PassRejects(e) \/ PassPauses(e)
         \/ PassBooks(e) \/ PassEnds(e)
  PROVE  StopPart(w)'
<1>1. /\ eng[e] \in EngineType /\ PassOK(eng[e]) /\ eng[e].sym \in Nat
      /\ late \in Nat /\ faults \in Nat /\ N \in Nat
  BY EnginesTyped, Settings
<1>2. /\ w \in Workers /\ Old(w) \in Engines /\ eng \in [Engines -> EngineType]
  BY EnginesOf, EnginesTyped
<1>3. ASSUME NEW v, eng' = [eng EXCEPT ![e] = v], Due(v) <= Due(eng[e]), eng[e].entry # "off",
             UNCHANGED <<status, ended, blind, late, faults, proc>>
      PROVE  StopPart(w)'
  <2>1. Due(v) \in {0, 1} /\ Due(eng[e]) \in {0, 1} BY DueType
  <2>2. late' + Due(v) <= late + Due(eng[e]) BY <1>1, <1>3, <2>1
  <2>3. /\ status' = status /\ ended' = ended /\ blind' = blind /\ late' = late /\ late' \in Nat
        /\ faults' \in Nat /\ faults' >= faults
    BY <1>1, <1>3
  <2>4. At(w, "backoff")' => At(w, "backoff") BY <1>3 DEF At
  <2> QED BY <1>3, <2>2, <2>3, <2>4, EngineOrders
<1> DEFINE onward == [eng[e] EXCEPT !.entry = "scan", !.sym = @ + 1]
<1>4. Onward(e) = [eng EXCEPT ![e] = onward] BY DEF Onward, BotTypes, BotTypeOK
<1>5. onward.entry = "scan" /\ onward.sym = eng[e].sym + 1 BY <1>1 DEF EngineType
<1> HIDE DEF onward
<1>6. eng[e].entry \in {"scan", "gate", "order"} => Due(onward) <= Due(eng[e])
  BY <1>1, <1>5 DEF Due
<1>7. CASE PassScans(e)
  <2> DEFINE v == [eng[e] EXCEPT !.entry = "gate"]
  <2>1. eng' = [eng EXCEPT ![e] = v] BY <1>7 DEF PassScans, BotTypes, BotTypeOK
  <2>2. v.entry = "gate" /\ v.sym = eng[e].sym /\ eng[e].entry = "scan"
    BY <1>1, <1>7 DEF PassScans, EngineType
  <2> HIDE DEF v
  <2>3. Due(v) <= Due(eng[e]) BY <1>1, <2>2 DEF Due
  <2>4. UNCHANGED <<status, ended, blind, late, faults, proc>> BY <1>7 DEF PassScans, store, history
  <2> QED BY <1>3, <2>1, <2>2, <2>3, <2>4
<1>8. CASE PassSkips(e) \/ PassRejects(e) \/ PassBooks(e)
  <2>1. eng' = [eng EXCEPT ![e] = onward] /\ eng[e].entry \in {"scan", "gate", "order"}
    BY <1>4, <1>8 DEF PassSkips, PassRejects, PassBooks
  <2>2. UNCHANGED <<status, ended, blind, late, faults, proc>>
    BY <1>8 DEF PassSkips, PassRejects, PassBooks, store, history
  <2> QED BY <1>3, <1>6, <2>1, <2>2
<1>9. CASE PassOrders(e)
  <2> DEFINE v == [eng[e] EXCEPT !.entry = "order"]
  <2>1. eng' = [eng EXCEPT ![e] = v] BY <1>9 DEF PassOrders, BotTypes, BotTypeOK
  <2>2. v.entry = "order" /\ v.sym = eng[e].sym /\ eng[e].entry = "gate" /\ eng[e].sym \in Symbols
    BY <1>1, <1>9 DEF PassOrders, EngineType, PassOK
  <2> HIDE DEF v
  <2>3. eng[e].sym <= N BY <1>1, <2>2 DEF Symbols
  <2>4. /\ Due(eng[e]) = 1
        /\ eng[e].sym = N => Due(v) = 0
        /\ eng[e].sym # N => Due(v) = 1
    BY <1>1, <2>2, <2>3 DEF Due
  <2>5. /\ late' \in {late, late + 1}
        /\ ~ended \/ eng[e].sym # N => late' = late
        /\ UNCHANGED <<status, ended, blind, faults, proc>>
    BY <1>9 DEF PassOrders, store
  <2>6. late' + Due(v) <= late + Due(eng[e]) BY <1>1, <2>4, <2>5
  <2>7. /\ status' = status /\ ended' = ended /\ blind' = blind /\ late' \in Nat
        /\ faults' \in Nat /\ faults' >= faults
    BY <1>1, <2>5
  <2>8. At(w, "backoff")' => At(w, "backoff") BY <2>5 DEF At
  <2> QED BY <2>1, <2>2, <2>5, <2>6, <2>7, <2>8, EngineOrders
<1>10. CASE PassPauses(e)
  <2> DEFINE v == [onward EXCEPT !.seen = "paused"]
  <2>1. eng[e].entry = "gate" /\ eng' = [eng EXCEPT ![e] = v]
    BY <1>4, <1>10 DEF PassPauses, BotTypes, BotTypeOK
  <2> HIDE DEF v
  <2>2. eng'[Old(w)].entry # "off" => eng[Old(w)].entry # "off" BY <1>2, <2>1
  <2>3. /\ status' # "stopped" /\ UNCHANGED <<ended, late, faults>>
        /\ At(w, "backoff")' => At(w, "backoff")
    BY <1>10 DEF PassPauses, Pauses, Becomes, At
  <2> QED BY <2>2, <2>3, Undone
<1>11. CASE PassEnds(e)
  <2> DEFINE v == [eng[e] EXCEPT !.entry = "sleep", !.sym = 0]
  <2>1. eng' = [eng EXCEPT ![e] = v] /\ eng[e].entry = "scan"
    BY <1>11 DEF PassEnds, BotTypes, BotTypeOK
  <2>2. v.entry = "sleep" BY <1>1 DEF EngineType
  <2> HIDE DEF v
  <2>3. Due(v) <= Due(eng[e]) BY <2>2, DueType
  <2>4. UNCHANGED <<status, ended, blind, late, faults, proc>> BY <1>11 DEF PassEnds, store, history
  <2> QED BY <1>3, <2>1, <2>3, <2>4
<1> QED BY <1>7, <1>8, <1>9, <1>10, <1>11

LEMMA WorkerStop ==
  ASSUME NEW w, Workers = {w}, BotTypes, StopPart(w),
         Worker(w) \/ Terminate(w) \/ Killed(w) \/ Dies(w)
  PROVE  StopPart(w)'
<1>1. w \in Workers OBVIOUS
<1>2. /\ Current(w) \in Engines /\ Old(w) \in Engines /\ Current(w) # Old(w)
      /\ Current(w)[1] = w /\ Old(w)[1] = w
  BY <1>1, EnginesOf
<1>3. /\ eng \in [Engines -> EngineType] /\ eng[Current(w)] \in EngineType
      /\ late \in Nat /\ faults \in Nat /\ status \in Statuses
      /\ proc \in [Workers -> ProcessType]
  BY <1>2, EnginesTyped DEF BotTypes, BotTypeOK, ProcessType
<1>4. \A seen : Due(NewEngine(seen)) = 0
  <2> TAKE seen
  <2>1. NewEngine(seen).entry \in {"off", "sleep"} BY DEF NewEngine, NoEngine
  <2> QED BY <2>1, DueType
<1>5. ASSUME eng'[Old(w)] = eng[Old(w)], eng'[Current(w)].entry = eng[Current(w)].entry,
             eng'[Current(w)].sym = eng[Current(w)].sym,
             UNCHANGED <<status, ended, late, blind, faults>>, At(w, "backoff")' => At(w, "backoff")
      PROVE  StopPart(w)'
  <2>1. Due(eng'[Current(w)]) = Due(eng[Current(w)]) BY <1>5 DEF Due
  <2> QED BY <1>5, <2>1 DEF StopPart
<1>6. CASE \/ StartProcess(w) \/ BootReads(w) \/ WaitExits(w) \/ WaitSleeps(w) \/ WaitWakes(w)
           \/ Terminate(w)
  <2>1. UNCHANGED <<status, ended, late, blind, faults, eng>>
    BY <1>6 DEF StartProcess, BootReads, WaitExits, WaitSleeps, WaitWakes, Terminate, store, history
  <2>2. At(w, "backoff")' => At(w, "backoff")
    BY <1>1, <1>3, <1>6 DEF StartProcess, BootReads, WaitExits, WaitSleeps, WaitWakes, Terminate,
                            At, Goes, NoProcess, ProcessType
  <2> QED BY <1>5, <2>1, <2>2
<1>7. CASE BootDecides(w)
  <2>1. PICK st \in Autostarts(proc[w].seen) :
          /\ IF st = proc[w].seen THEN UNCHANGED status ELSE status' = st
          /\ proc' = [proc EXCEPT ![w].seen = "stopped",
                                  ![w].pc = IF st = "running" THEN "run" ELSE "wait",
                                  ![w].sig = @ /\ st # "running"]
          /\ eng' = [eng EXCEPT ![Current(w)] = NewEngine(st)]
    BY <1>7 DEF BootDecides
  <2>2. proc'[w].pc = IF st = "running" THEN "run" ELSE "wait" BY <1>1, <1>3, <2>1 DEF ProcessType
  <2>3. ~At(w, "backoff")' BY <2>2 DEF At
  <2>4. faults' = faults BY <1>7 DEF BootDecides
  <2>5. eng'[Old(w)] = eng[Old(w)] BY <1>2, <1>3, <2>1
  <2>8. UNCHANGED <<ended, late, blind>> BY <1>7 DEF BootDecides, history
  <2>6. CASE st = proc[w].seen
    <3> DEFINE v == NewEngine(st)
    <3>1. eng' = [eng EXCEPT ![Current(w)] = v] /\ UNCHANGED <<status, ended, late, blind>>
      BY <2>1, <2>6, <2>8
    <3>2. eng'[Current(w)] = v BY <1>2, <1>3, <3>1
    <3>3. Due(eng'[Current(w)]) = 0 /\ Due(eng[Current(w)]) \in {0, 1} /\ Due(eng[Old(w)]) \in {0, 1}
      BY <1>4, <3>2, DueType
    <3>4. status = "stopped" /\ ended /\ ~blind =>
            late' + Due(eng'[Current(w)]) + Due(eng'[Old(w)]) <= 1 + faults'
      <4> SUFFICES ASSUME status = "stopped", ended, ~blind
                   PROVE  late' + Due(eng'[Current(w)]) + Due(eng'[Old(w)]) <= 1 + faults'
        OBVIOUS
      <4>1. late + Due(eng[Current(w)]) + Due(eng[Old(w)]) <= 1 + faults BY DEF StopPart
      <4> QED BY <1>3, <2>4, <2>5, <3>1, <3>3, <4>1
    <3> QED BY <2>3, <2>4, <2>5, <3>1, <3>4 DEF StopPart
  <2>7. CASE st # proc[w].seen
    <3>1. status' # "stopped" BY <2>1, <2>7 DEF Autostarts
    <3> QED BY <2>3, <2>4, <2>5, <2>8, <3>1, Undone
  <2> QED BY <2>6, <2>7
<1>8. CASE Closes(w)
  <2> DEFINE v == [eng[Current(w)] EXCEPT !.running = FALSE]
  <2>1. eng' = [eng EXCEPT ![Current(w)] = v] BY <1>2, <1>3, <1>8 DEF Closes
  <2>2. v.entry = eng[Current(w)].entry /\ v.sym = eng[Current(w)].sym BY <1>3 DEF EngineType
  <2> HIDE DEF v
  <2>3. UNCHANGED <<status, ended, late, blind, faults>> BY <1>8 DEF Closes, store, history
  <2>4. At(w, "backoff")' => At(w, "backoff") BY <1>1, <1>3, <1>8 DEF Closes, At, Goes, ProcessType
  <2>5. eng'[Old(w)] = eng[Old(w)] /\ eng'[Current(w)] = v BY <1>2, <1>3, <2>1
  <2> QED BY <1>5, <2>2, <2>3, <2>4, <2>5
<1>9. CASE Exits(w) \/ Killed(w) \/ Dies(w)
  <2>1. /\ proc' = [proc EXCEPT ![w].pc = "down"]
        /\ eng' = [e \in Engines |-> IF e[1] = w THEN NoEngine ELSE eng[e]]
        /\ UNCHANGED <<status, ended, late, blind>>
    BY <1>9 DEF Exits, Killed, Dies, ProcessEnds, Goes, store, history
  <2>2. faults' \in Nat /\ faults' >= faults BY <1>3, <1>9 DEF Exits, Killed, Dies
  <2>3. eng'[Current(w)] = NoEngine /\ eng'[Old(w)] = NoEngine BY <1>2, <2>1
  <2>4. NoEngine.entry = "off" BY DEF NoEngine
  <2>5. Due(eng'[Current(w)]) = 0 /\ Due(eng'[Old(w)]) = 0 BY <2>3, <2>4, DueType
  <2>6. ~At(w, "backoff")' BY <1>1, <1>3, <2>1 DEF At, ProcessType
  <2>7. Due(eng[Current(w)]) \in {0, 1} /\ Due(eng[Old(w)]) \in {0, 1} BY DueType
  <2>8. status = "stopped" /\ ended /\ ~blind =>
          late' + Due(eng'[Current(w)]) + Due(eng'[Old(w)]) <= 1 + faults'
    <3> SUFFICES ASSUME status = "stopped", ended, ~blind
                 PROVE  late' + Due(eng'[Current(w)]) + Due(eng'[Old(w)]) <= 1 + faults'
      OBVIOUS
    <3>1. late + Due(eng[Current(w)]) + Due(eng[Old(w)]) <= 1 + faults BY DEF StopPart
    <3> QED BY <1>3, <2>1, <2>2, <2>5, <2>7, <3>1
  <2> QED BY <2>1, <2>3, <2>4, <2>6, <2>8 DEF StopPart
<1>10. CASE Retries(w)
  <2>1. /\ eng' = [eng EXCEPT ![Current(w)] = NewEngine(status), ![Old(w)] = eng[Current(w)]]
        /\ UNCHANGED <<status, ended, late, blind, faults>>
    BY <1>10 DEF Retries, store, history
  <2>2. eng[Old(w)].entry = "off" /\ faults >= 1 BY <1>10 DEF Retries, StopPart
  <2>3. eng'[Current(w)] = NewEngine(status) /\ eng'[Old(w)] = eng[Current(w)] BY <1>2, <1>3, <2>1
  <2>4. /\ Due(eng'[Current(w)]) = 0 /\ Due(eng[Old(w)]) = 0
        /\ Due(eng'[Old(w)]) = Due(eng[Current(w)]) /\ Due(eng[Current(w)]) \in {0, 1}
    BY <1>4, <2>2, <2>3, DueType
  <2>5. ~At(w, "backoff")' BY <1>1, <1>3, <1>10 DEF Retries, At, Goes, ProcessType
  <2>6. status = "stopped" /\ ended /\ ~blind =>
          late' + Due(eng'[Current(w)]) + Due(eng'[Old(w)]) <= 1 + faults'
    <3> SUFFICES ASSUME status = "stopped", ended, ~blind
                 PROVE  late' + Due(eng'[Current(w)]) + Due(eng'[Old(w)]) <= 1 + faults'
      OBVIOUS
    <3>1. late + Due(eng[Current(w)]) + Due(eng[Old(w)]) <= 1 + faults BY DEF StopPart
    <3> QED BY <1>3, <2>1, <2>4, <3>1
  <2> QED BY <2>1, <2>2, <2>5, <2>6 DEF StopPart
<1> QED BY <1>6, <1>7, <1>8, <1>9, <1>10 DEF Worker

\* A loop fails: what it had due is gone.  The worker retries only when nothing an
\* earlier error left is in a pass any more.
LEMMA FailureStop ==
  ASSUME NEW w, Workers = {w}, BotTypes, StopPart(w), NEW e \in Engines,
         TickFails(e) \/ EntryFails(e)
  PROVE  StopPart(w)'
<1>1. /\ w \in Workers /\ e[1] = w /\ (e = Current(w) \/ e = Old(w))
      /\ Current(w) \in Engines /\ Old(w) \in Engines /\ Current(w) # Old(w)
      /\ Current(w)[1] = w
  BY TwoEngines, EnginesOf
<1>2. /\ eng \in [Engines -> EngineType] /\ eng[e] \in EngineType
      /\ late \in Nat /\ faults \in Nat /\ proc \in [Workers -> ProcessType]
  BY EnginesTyped DEF BotTypes, BotTypeOK, ProcessType
<1>3. PICK v : Fails(e, v) /\ Due(v) <= Due(eng[e]) /\ (v.entry = eng[e].entry \/ v.entry = "off")
  <2>1. CASE TickFails(e)
    <3> DEFINE v == [eng[e] EXCEPT !.tick = "off"]
    <3>1. v.entry = eng[e].entry /\ v.sym = eng[e].sym BY <1>2 DEF EngineType
    <3>2. Due(v) = Due(eng[e]) /\ Due(v) \in {0, 1} BY <3>1 DEF Due
    <3>3. Fails(e, v) BY <2>1 DEF TickFails
    <3> HIDE DEF v
    <3>4. Due(v) <= Due(eng[e]) BY <3>2
    <3> QED BY <3>1, <3>3, <3>4
  <2>2. CASE EntryFails(e)
    <3> DEFINE v == [eng[e] EXCEPT !.entry = "off"]
    <3>1. v.entry = "off" BY <1>2 DEF EngineType
    <3>2. Fails(e, v) BY <2>2 DEF EntryFails
    <3> HIDE DEF v
    <3>3. Due(v) = 0 /\ Due(eng[e]) \in {0, 1} BY <3>1, DueType
    <3>4. Due(v) <= Due(eng[e]) BY <3>3
    <3> QED BY <3>1, <3>2, <3>4
  <2> QED BY <2>1, <2>2
<1>4. /\ eng' = [eng EXCEPT ![e] = v] /\ faults' = faults + 1 /\ UNCHANGED <<status, ended, late, blind>>
  BY <1>3 DEF Fails, store, history
<1>5. At(w, "backoff")' => (At(w, "backoff") \/ (eng[Old(w)].entry = "off" /\ e = Current(w)))
  <2> SUFFICES ASSUME At(w, "backoff")', ~At(w, "backoff")
               PROVE  eng[Old(w)].entry = "off" /\ e = Current(w)
    OBVIOUS
  <2>1. Attached(e) BY <1>3 DEF Fails, At
  <2>2. e = Current(w) BY <1>1, <2>1 DEF Attached, Current, Old
  <2>3. At(w, "run") BY <1>1, <1>2, <1>3, <2>1 DEF Fails, Goes, At, ProcessType
  <2>4. Ended(Old(w)) BY <1>1, <1>3, <2>1, <2>3 DEF Fails
  <2> QED BY <2>2, <2>4 DEF Ended
<1>6. /\ eng'[Old(w)].entry # "off" => eng[Old(w)].entry # "off"
      /\ e = Current(w) => eng'[Old(w)] = eng[Old(w)]
  BY <1>1, <1>2, <1>3, <1>4
<1>7. status = "stopped" /\ ended /\ ~blind =>
        late' + Due(eng'[Current(w)]) + Due(eng'[Old(w)]) <= 1 + faults'
  <2> SUFFICES ASSUME status = "stopped", ended, ~blind
               PROVE  late' + Due(eng'[Current(w)]) + Due(eng'[Old(w)]) <= 1 + faults'
    OBVIOUS
  <2>1. late + Due(eng[Current(w)]) + Due(eng[Old(w)]) <= 1 + faults BY DEF StopPart
  <2>2. /\ Due(eng[Current(w)]) \in {0, 1} /\ Due(eng[Old(w)]) \in {0, 1}
        /\ Due(eng'[Current(w)]) \in {0, 1} /\ Due(eng'[Old(w)]) \in {0, 1}
    BY DueType
  <2>3. /\ Due(eng'[Current(w)]) <= Due(eng[Current(w)])
        /\ Due(eng'[Old(w)]) <= Due(eng[Old(w)])
    <3>1. CASE e = Current(w)
      <4>1. eng'[Current(w)] = v /\ eng'[Old(w)] = eng[Old(w)] BY <1>1, <1>2, <1>4, <3>1
      <4> QED BY <1>3, <2>2, <3>1, <4>1
    <3>2. CASE e = Old(w)
      <4>1. eng'[Old(w)] = v /\ eng'[Current(w)] = eng[Current(w)] BY <1>1, <1>2, <1>4, <3>2
      <4> QED BY <1>3, <2>2, <3>2, <4>1
    <3> QED BY <1>1, <3>1, <3>2
  <2> QED BY <1>2, <1>4, <2>1, <2>2, <2>3
<1>8. faults' >= 1 BY <1>2, <1>4
<1>9. At(w, "backoff")' => eng'[Old(w)].entry = "off" BY <1>5, <1>6 DEF StopPart
<1> QED BY <1>4, <1>7, <1>8, <1>9 DEF StopPart

LEMMA RequestStop ==
  ASSUME NEW w, Workers = {w}, BotTypes, StopPart(w), BotRequests \/ PauseAges
  PROVE  StopPart(w)'
<1>1. UNCHANGED <<proc, eng, faults>>
  BY DEF BotRequests, PauseAges, UserStarts, UserStops, UserPauses, UserResets, ManualStarts,
         ManualPauses, ManualEnds
<1>2. \/ UNCHANGED <<status, ended, late, blind>>
      \/ late' = 0
      \/ status' # "stopped" /\ UNCHANGED <<ended, late>>
  BY DEF BotRequests, PauseAges, UserStarts, UserStops, UserPauses, UserResets, ManualStarts,
         ManualPauses, ManualEnds, Pauses, Becomes, Requested, store, history
<1>3. CASE late' = 0 BY <1>1, <1>3, CountAnew DEF At
<1>4. CASE UNCHANGED <<status, ended, late, blind>> BY <1>1, <1>4 DEF StopPart, At
<1>5. CASE status' # "stopped" /\ UNCHANGED <<ended, late>> BY <1>1, <1>5, Undone DEF At
<1> QED BY <1>2, <1>3, <1>4, <1>5

LEMMA StopForward == BotTypes /\ StopInv /\ [BotNext]_botVars => StopInv'
<1> SUFFICES ASSUME BotTypes, StopInv, [BotNext]_botVars, NEW w \in Workers, Workers = {w}
             PROVE  StopPart(w)'
  BY DEF StopInv
<1>1. StopPart(w) BY DEF StopInv
<1>2. ASSUME NEW u \in Workers, Worker(u) \/ Terminate(u) \/ Killed(u) \/ Dies(u)
      PROVE  StopPart(w)'
  <2>1. u = w OBVIOUS
  <2> QED BY <1>1, <1>2, <2>1, WorkerStop
<1>3. ASSUME NEW e \in Engines, TickLoop(e) \/ TickBlind(e) PROVE StopPart(w)'
  BY <1>1, <1>3, TickLoopStop
<1>4. ASSUME NEW e \in Engines, EntryLoop(e) \/ EntryBlind(e) \/ AutoResumes(e)
      PROVE  StopPart(w)'
  BY <1>1, <1>4, WakeStop, PassStop DEF EntryLoop
<1>5. ASSUME NEW e \in Engines, TickFails(e) \/ EntryFails(e) PROVE StopPart(w)'
  BY <1>1, <1>5, FailureStop
<1>6. CASE BotRequests \/ PauseAges BY <1>1, <1>6, RequestStop
<1>7. CASE UNCHANGED botVars BY <1>1, <1>7 DEF botVars, store, history, StopPart, At
<1> QED BY <1>2, <1>3, <1>4, <1>5, <1>6, <1>7 DEF BotNext

LEMMA StopInit == BotInit => StopInv
<1> SUFFICES ASSUME BotInit, NEW w \in Workers PROVE StopPart(w) BY DEF StopInv
<1>1. Current(w) \in Engines /\ Old(w) \in Engines BY EnginesOf
<1>2. /\ eng[Current(w)].entry = "off" /\ eng[Old(w)].entry = "off"
      /\ late = 0 /\ faults = 0 /\ proc[w].pc = "down"
  BY <1>1 DEF BotInit, NoEngine, NoProcess
<1>3. Due(eng[Current(w)]) = 0 /\ Due(eng[Old(w)]) = 0 BY <1>2, DueType
<1>4. late + Due(eng[Current(w)]) + Due(eng[Old(w)]) <= 1 + faults BY <1>2, <1>3
<1> QED BY <1>2, <1>4 DEF StopPart, At

\* While the user's stop stands, each symbol is entered once at most, and once more for
\* each loop that failed and left its sibling in a pass, for any symbols and any number of
\* faults.
THEOREM StopIsKept == BotSpec => []LateOnce
<1>1. BotTypes /\ StopInv => LateOnce
  <2> SUFFICES ASSUME BotTypes, StopInv, Cardinality(Workers) = 1, ~blind, status = "stopped"
               PROVE  late <= 1 + faults
    BY DEF LateOnce
  <2>1. PICK w : Workers = {w} BY WorkersAssumption, FS_Singleton
  <2>2. StopPart(w) BY <2>1 DEF StopInv
  <2>3. late \in Nat /\ faults \in Nat BY Settings DEF BotTypes, BotTypeOK
  <2>4. CASE ~ended BY <2>2, <2>3, <2>4 DEF StopPart
  <2>5. CASE ended
    <3>1. late + Due(eng[Current(w)]) + Due(eng[Old(w)]) <= 1 + faults BY <2>2, <2>5 DEF StopPart
    <3>2. Due(eng[Current(w)]) \in {0, 1} /\ Due(eng[Old(w)]) \in {0, 1} BY DueType
    <3> QED BY <2>3, <3>1, <3>2
  <2> QED BY <2>4, <2>5
<1> QED BY <1>1, BotTypesInit, BotTypesForward, StopInit, StopForward, PTL DEF BotSpec
=============================================================================
