--------------------------- MODULE DemoShopProofs ---------------------------
(***************************************************************************)
(* Proofs about DemoShop, for any checkouts, SKUs, orders and stocks, both *)
(* databases and both reservation modes.                                   *)
(***************************************************************************)
EXTENDS ShopRefinement, SequenceTheorems, FiniteSetTheorems,
        WellFoundedInduction, TLAPS

\* A checkout reserves only after it has priced every line.
AllSeen ==
    \A c \in Checkouts :
        pc[c] = "reserving" => /\ Len(seen[c]) = Len(OrderLines(c))
                               /\ ~Order(c).unlisted

\* Only a reserving checkout has uncommitted writes, each under a lock it holds.
WritesLocked ==
    \A c \in Checkouts, s \in Skus :
        writes[c][s] # Unwritten => pc[c] = "reserving" /\ lock[Guarding(s)] = c

\* What a transaction has written accounts for what it has taken: with atomic
\* reservations against the committed value itself.
WritesAccounted ==
    \A c \in Checkouts, s \in Skus :
        IF writes[c][s] = Unwritten THEN taken[c][s] = 0
        ELSE Atomic => writes[c][s] + taken[c][s] = inventory[s]

IInv == TypeOK /\ AllSeen /\ WritesLocked /\ WritesAccounted /\ Conserved

-----------------------------------------------------------------------------

LEMMA OrderType ==
    ASSUME TypeOK, NEW c \in Checkouts
    PROVE  /\ OrderLines(c) \in Seq(Lines)
           /\ Order(c).user \in BOOLEAN
           /\ Order(c).unlisted \in BOOLEAN
           /\ Order(c).declined \in BOOLEAN
           /\ Len(OrderLines(c)) \in Nat
           /\ \A i \in 1..Len(OrderLines(c)) :
                 OrderLines(c)[i].sku \in Skus /\ OrderLines(c)[i].qty \in Nat
<1>1. setup.order \in [Checkouts -> Orders]
  BY ShopAssumption DEF TypeOK
<1>2. setup.order[c] \in Orders
  BY <1>1
<1>3. OrderLines(c) \in Seq(Lines)
  BY <1>2 DEF Orders, OrderLines
<1>4. \A i \in 1..Len(OrderLines(c)) : OrderLines(c)[i] \in Lines
  BY <1>3
<1> QED
  BY <1>2, <1>3, <1>4, LenProperties DEF Orders, Order, Lines

LEMMA GuardType ==
    ASSUME NEW s \in Skus
    PROVE  Guarding(s) \in Resources
BY DEF Guarding, Resources

LEMMA InitInvariant == Init => IInv
<1> SUFFICES ASSUME Init PROVE IInv
  OBVIOUS
<1>1. stock \in Nat
  BY ShopAssumption DEF Init
<1>2. TypeOK
  BY <1>1, ShopAssumption DEF Init, TypeOK, Replies
<1>3. AllSeen /\ WritesLocked /\ WritesAccounted
  BY DEF Init, AllSeen, WritesLocked, WritesAccounted
<1>4. Conserved
  BY <1>1 DEF Init, Conserved, Balanced
<1> QED
  BY <1>2, <1>3, <1>4 DEF IInv

\* A transaction that ends without a trace.
LEMMA AbortInvariant ==
    ASSUME IInv, NEW c \in Checkouts, NEW r \in Replies, Abort(c, r)
    PROVE  IInv'
<1> USE DEF IInv, Abort, Answer, EndTransaction, rows
<1>1. TypeOK'
  BY DEF TypeOK
<1>2. AllSeen'
  BY DEF TypeOK, AllSeen, Order, OrderLines
<1>3. WritesLocked'
  <2> SUFFICES ASSUME NEW d \in Checkouts, NEW s \in Skus, writes'[d][s] # Unwritten
               PROVE  pc'[d] = "reserving" /\ lock'[Guarding(s)'] = d
    BY DEF WritesLocked
  <2>1. d # c
    BY DEF TypeOK
  <2>2. pc[d] = "reserving" /\ lock[Guarding(s)] = d
    BY <2>1 DEF WritesLocked, TypeOK
  <2>3. Guarding(s)' = Guarding(s)
    BY DEF Guarding, Sqlite
  <2> QED
    BY <2>1, <2>2, <2>3, GuardType DEF TypeOK
<1>4. WritesAccounted'
  BY DEF TypeOK, WritesAccounted, Atomic
<1>5. Conserved'
  BY DEF Conserved, Balanced, Atomic
<1> QED
  BY <1>1, <1>2, <1>3, <1>4, <1>5

LEMMA UpdateInvariant ==
    ASSUME IInv, NEW c \in Checkouts, Update(c)
    PROVE  IInv'
<1> DEFINE i == done[c] + 1
           s == NextSku(c)
           q == NextQty(c)
           v == IF Atomic THEN Visible(c, s) - q ELSE seen[c][i] - q
<1>1. /\ pc[c] = "reserving"
      /\ i \in 1..Len(OrderLines(c))
      /\ done' = [done EXCEPT ![c] = @ + 1]
      /\ UNCHANGED <<setup, rows, pc, seen, reply, resets>>
  BY OrderType DEF Update, Reserving, IInv, TypeOK
<1>2. s \in Skus /\ q \in Nat
  BY <1>1, OrderType DEF IInv, NextSku, NextQty
<1>3. /\ seen[c] \in Seq(Nat)
      /\ Len(seen[c]) = Len(OrderLines(c))
  BY <1>1 DEF IInv, AllSeen, TypeOK
<1>4. seen[c][i] \in Nat
  BY <1>1, <1>3
<1>5. CASE ~Matches(c)
  <2>1. UNCHANGED <<lock, writes, taken>> /\ short' = [short EXCEPT ![c] = TRUE]
    BY <1>5 DEF Update
  <2>2. TypeOK'
    BY <1>1, <2>1 DEF IInv, TypeOK, rows
  <2>3. AllSeen' /\ WritesLocked' /\ WritesAccounted' /\ Conserved'
    BY <1>1, <2>1 DEF IInv, rows, AllSeen, WritesLocked, WritesAccounted, Conserved,
       Balanced, Atomic, Order, OrderLines, Guarding, Sqlite
  <2> QED
    BY <2>2, <2>3 DEF IInv
<1>6. CASE Matches(c)
  <2>1. /\ lock[Guarding(s)] \in {Free, c}
        /\ lock' = [lock EXCEPT ![Guarding(s)] = c]
        /\ writes' = [writes EXCEPT ![c][s] = v]
        /\ taken' = [taken EXCEPT ![c][s] = @ + q]
        /\ UNCHANGED short
    BY <1>6 DEF Update
  <2>2. Visible(c, s) \in Nat
    BY <1>2 DEF IInv, TypeOK, Visible
  <2>3. v \in Nat
    <3>1. CASE Atomic
      BY <3>1, <1>2, <1>6, <2>2 DEF Matches
    <3>2. CASE ~Atomic
      <4>1. seen[c][i] >= q
        BY <3>2, <1>1 DEF Update, Covered, NextQty
      <4> QED
        BY <3>2, <4>1, <1>2, <1>4
    <3> QED
      BY <3>1, <3>2
  <2>4. TypeOK'
    <3>1. writes' \in [Checkouts -> [Skus -> Nat \union {Unwritten}]]
      BY <2>1, <2>3, <1>2 DEF IInv, TypeOK
    <3>2. taken' \in [Checkouts -> [Skus -> Nat]]
      BY <2>1, <1>2 DEF IInv, TypeOK
    <3>3. lock' \in [Resources -> Checkouts \union {Free}]
      BY <2>1, <1>2, GuardType DEF IInv, TypeOK
    <3> QED
      BY <1>1, <2>1, <3>1, <3>2, <3>3 DEF IInv, TypeOK, rows
  <2>5. AllSeen'
    BY <1>1 DEF IInv, AllSeen, Order, OrderLines
  <2>6. WritesLocked'
    <3> SUFFICES ASSUME NEW d \in Checkouts, NEW t \in Skus, writes'[d][t] # Unwritten
                 PROVE  pc'[d] = "reserving" /\ lock'[Guarding(t)'] = d
      BY DEF WritesLocked
    <3>1. Guarding(t)' = Guarding(t)
      BY <1>1 DEF Guarding, Sqlite
    <3>2. CASE d = c /\ t = s
      BY <3>1, <3>2, <1>1, <1>2, <2>1, GuardType DEF IInv, TypeOK
    <3>3. CASE ~(d = c /\ t = s)
      <4>1. writes'[d][t] = writes[d][t]
        BY <3>3, <1>2, <2>1 DEF IInv, TypeOK
      <4>2. pc[d] = "reserving" /\ lock[Guarding(t)] = d
        BY <4>1 DEF IInv, WritesLocked
      <4>3. Guarding(t) = Guarding(s) => d = c
        BY <4>2, <2>1, ShopAssumption
      <4> QED
        BY <3>1, <4>2, <4>3, <1>1, <2>1, GuardType, <1>2 DEF IInv, TypeOK
    <3> QED
      BY <3>2, <3>3
  <2>7. WritesAccounted'
    <3> SUFFICES ASSUME NEW d \in Checkouts, NEW t \in Skus
                 PROVE  IF writes'[d][t] = Unwritten THEN taken'[d][t] = 0
                        ELSE Atomic' => writes'[d][t] + taken'[d][t] = inventory'[t]
      BY DEF WritesAccounted
    <3>1. Atomic' = Atomic /\ inventory' = inventory
      BY <1>1 DEF Atomic, rows
    <3>2. CASE d = c /\ t = s
      <4>1. writes'[d][t] = v /\ taken'[d][t] = taken[c][s] + q
        BY <3>2, <1>2, <2>1 DEF IInv, TypeOK
      <4>2. v # Unwritten
        BY <2>3, ShopAssumption
      <4>3. taken[c][s] \in Nat /\ inventory[s] \in Nat
        BY <1>2 DEF IInv, TypeOK
      <4>4. Atomic => Visible(c, s) + taken[c][s] = inventory[s]
        BY <1>2, <4>3 DEF IInv, WritesAccounted, Visible
      <4> QED
        BY <3>1, <3>2, <4>1, <4>2, <4>3, <4>4, <1>2, <2>2
    <3>3. CASE ~(d = c /\ t = s)
      <4>1. writes'[d][t] = writes[d][t] /\ taken'[d][t] = taken[d][t]
        BY <3>3, <1>2, <2>1 DEF IInv, TypeOK
      <4> QED
        BY <3>1, <4>1 DEF IInv, WritesAccounted
    <3> QED
      BY <3>2, <3>3
  <2>8. Conserved'
    BY <1>1 DEF IInv, Conserved, Balanced, Atomic, rows
  <2> QED
    BY <2>4, <2>5, <2>6, <2>7, <2>8 DEF IInv
<1> QED
  BY <1>5, <1>6

LEMMA PayInvariant ==
    ASSUME IInv, NEW c \in Checkouts, Pay(c)
    PROVE  IInv'
<1>1. /\ inventory' = [s \in Skus |-> Visible(c, s)]
      /\ sold' = [s \in Skus |-> sold[s] + taken[c][s]]
      /\ pc' = [pc EXCEPT ![c] = "done"]
      /\ writes' = [writes EXCEPT ![c] = [s \in Skus |-> Unwritten]]
      /\ taken' = [taken EXCEPT ![c] = [s \in Skus |-> 0]]
      /\ lock' = [r \in Resources |-> IF lock[r] = c THEN Free ELSE lock[r]]
      /\ UNCHANGED <<setup, stock, seen, done, short, resets>>
  BY DEF Pay, Answer, EndTransaction
<1>2. \A s \in Skus : Visible(c, s) \in Nat
  BY DEF IInv, TypeOK, Visible
<1>3. TypeOK'
  <2>1. inventory' \in [Skus -> Nat] /\ sold' \in [Skus -> Nat]
    BY <1>1, <1>2 DEF IInv, TypeOK
  <2>2. orders' \in [Checkouts -> {"none", "pending", "confirmed"}]
    BY DEF Pay, IInv, TypeOK
  <2>3. reply' \in [Checkouts -> Replies]
    BY DEF Pay, Answer, IInv, TypeOK, Replies
  <2>4. raced' \subseteq Checkouts
    BY DEF Pay, IInv, TypeOK
  <2> QED
    BY <1>1, <2>1, <2>2, <2>3, <2>4 DEF IInv, TypeOK
<1>4. AllSeen'
  BY <1>1 DEF IInv, TypeOK, AllSeen, Order, OrderLines
<1>5. WritesLocked'
  <2> SUFFICES ASSUME NEW d \in Checkouts, NEW s \in Skus, writes'[d][s] # Unwritten
               PROVE  pc'[d] = "reserving" /\ lock'[Guarding(s)'] = d
    BY DEF WritesLocked
  <2>1. d # c
    BY <1>1 DEF IInv, TypeOK
  <2>2. pc[d] = "reserving" /\ lock[Guarding(s)] = d
    BY <2>1, <1>1 DEF IInv, WritesLocked, TypeOK
  <2>3. Guarding(s)' = Guarding(s)
    BY <1>1 DEF Guarding, Sqlite
  <2> QED
    BY <2>1, <2>2, <2>3, <1>1, GuardType DEF IInv, TypeOK
<1>6. WritesAccounted'
  <2> SUFFICES ASSUME NEW d \in Checkouts, NEW s \in Skus
               PROVE  IF writes'[d][s] = Unwritten THEN taken'[d][s] = 0
                      ELSE Atomic' => writes'[d][s] + taken'[d][s] = inventory'[s]
    BY DEF WritesAccounted
  <2>1. CASE d = c
    BY <2>1, <1>1 DEF IInv, TypeOK
  <2>2. CASE d # c
    <3>1. writes'[d][s] = writes[d][s] /\ taken'[d][s] = taken[d][s]
      BY <2>2, <1>1 DEF IInv, TypeOK
    <3>2. writes[d][s] # Unwritten => writes[c][s] = Unwritten
      BY <2>2 DEF IInv, WritesLocked
    <3>3. writes[d][s] # Unwritten => inventory'[s] = inventory[s]
      BY <3>2, <1>1 DEF Visible
    <3> QED
      BY <3>1, <3>3, <1>1 DEF IInv, WritesAccounted, Atomic
  <2> QED
    BY <2>1, <2>2
<1>7. Conserved'
  <2> SUFFICES ASSUME Atomic, NEW s \in Skus
               PROVE  inventory'[s] + sold'[s] = stock'
    BY <1>1 DEF Conserved, Balanced, Atomic
  <2>1. inventory[s] + sold[s] = stock
    BY DEF IInv, Conserved, Balanced
  <2>2. Visible(c, s) + taken[c][s] = inventory[s]
    BY DEF IInv, WritesAccounted, Visible, TypeOK
  <2>3. /\ inventory[s] \in Nat /\ sold[s] \in Nat /\ taken[c][s] \in Nat
        /\ stock \in Nat /\ Visible(c, s) \in Nat
    BY <1>2 DEF IInv, TypeOK
  <2>4. inventory'[s] = Visible(c, s) /\ sold'[s] = sold[s] + taken[c][s] /\ stock' = stock
    BY <1>1
  <2> QED
    BY <2>1, <2>2, <2>3, <2>4
<1> QED
  BY <1>3, <1>4, <1>5, <1>6, <1>7 DEF IInv

LEMMA NextInvariant == IInv /\ [Next]_vars => IInv'
<1> SUFFICES ASSUME IInv, [Next]_vars PROVE IInv'
  OBVIOUS
<1> USE DEF Replies
<1>1. ASSUME NEW c \in Checkouts, Receive(c) PROVE IInv'
  <2>1. CASE Order(c).user
    <3>1. /\ pc[c] = "idle"
          /\ pc' = [pc EXCEPT ![c] = "pricing"]
          /\ UNCHANGED <<setup, rows, seen, done, short, writes, taken, lock, reply, resets>>
      BY <1>1, <2>1 DEF Receive
    <3>2. TypeOK'
      BY <3>1 DEF IInv, TypeOK, rows
    <3>3. AllSeen' /\ WritesLocked' /\ WritesAccounted' /\ Conserved'
      BY <3>1 DEF IInv, TypeOK, rows, AllSeen, WritesLocked, WritesAccounted, Conserved,
         Balanced, Atomic, Order, OrderLines, Guarding, Sqlite
    <3> QED
      BY <3>2, <3>3 DEF IInv
  <2>2. CASE ~Order(c).user
    BY <1>1, <2>2, AbortInvariant DEF Receive
  <2> QED
    BY <2>1, <2>2
<1>2. ASSUME NEW c \in Checkouts, Price(c) PROVE IInv'
  <2> DEFINE n == Len(seen[c])
             l == OrderLines(c)[n + 1]
             held == n > 0 /\ OrderLines(c)[n].sku = l.sku
             found == IF held THEN seen[c][n] ELSE inventory[l.sku]
  <2>1. /\ pc[c] = "pricing"
        /\ n < Len(OrderLines(c))
        /\ seen' = [seen EXCEPT ![c] = Append(@, found)]
        /\ UNCHANGED <<setup, rows, pc, done, short, writes, taken, lock, reply, resets>>
    BY <1>2 DEF Price
  <2>2. seen[c] \in Seq(Nat)
    BY DEF IInv, TypeOK
  <2>3. n \in Nat /\ n + 1 \in 1..Len(OrderLines(c))
    BY <2>1, <2>2, OrderType, LenProperties DEF IInv
  <2>4. inventory[l.sku] \in Nat
    BY <2>3, OrderType DEF IInv, TypeOK
  <2>5. ASSUME held PROVE found \in Nat
    <3>1. seen[c][n] \in Nat
      BY <2>2, <2>3, <2>5, ElementOfSeq
    <3> QED
      BY <2>5, <3>1
  <2>6. found \in Nat
    BY <2>4, <2>5
  <2>7. Append(seen[c], found) \in Seq(Nat)
    BY <2>2, <2>6
  <2>8. TypeOK'
    BY <2>1, <2>7 DEF IInv, TypeOK, rows
  <2>9. AllSeen'
    BY <2>1 DEF IInv, TypeOK, AllSeen, Order, OrderLines
  <2>10. WritesLocked'
    BY <2>1 DEF IInv, WritesLocked, Guarding, Sqlite
  <2>11. WritesAccounted' /\ Conserved'
    BY <2>1 DEF IInv, rows, WritesAccounted, Conserved, Balanced, Atomic
  <2> QED
    BY <2>8, <2>9, <2>10, <2>11 DEF IInv
<1>3. ASSUME NEW c \in Checkouts, InsertOrder(c) PROVE IInv'
  <2>1. /\ Priced(c) /\ ~Order(c).unlisted
        /\ Sqlite => lock[Database] = Free
        /\ lock' = IF Sqlite THEN [lock EXCEPT ![Database] = c] ELSE lock
        /\ pc' = [pc EXCEPT ![c] = "reserving"]
        /\ UNCHANGED <<setup, rows, seen, done, short, writes, taken, reply, resets>>
    BY <1>3 DEF InsertOrder
  <2>2. TypeOK'
    BY <2>1 DEF IInv, TypeOK, rows, Resources
  <2>3. AllSeen'
    BY <2>1 DEF IInv, TypeOK, AllSeen, Priced, Order, OrderLines
  <2>4. WritesLocked'
    <3> SUFFICES ASSUME NEW d \in Checkouts, NEW s \in Skus, writes'[d][s] # Unwritten
                 PROVE  pc'[d] = "reserving" /\ lock'[Guarding(s)'] = d
      BY DEF WritesLocked
    <3>1. pc[d] = "reserving" /\ lock[Guarding(s)] = d
      BY <2>1 DEF IInv, WritesLocked
    <3>2. Guarding(s)' = Guarding(s)
      BY <2>1 DEF Guarding, Sqlite
    <3>3. ~Sqlite
      BY <2>1, <3>1, ShopAssumption DEF Guarding
    <3>4. d # c
      BY <2>1, <3>1 DEF Priced
    <3> QED
      BY <2>1, <3>1, <3>2, <3>3, <3>4 DEF IInv, TypeOK
  <2>5. WritesAccounted' /\ Conserved'
    BY <2>1 DEF IInv, rows, WritesAccounted, Conserved, Balanced, Atomic
  <2> QED
    BY <2>2, <2>3, <2>4, <2>5 DEF IInv
<1>4. ASSUME NEW c \in Checkouts,
             \/ RefuseUnlisted(c) \/ BusyTimeout(c) \/ RejectOnSeen(c)
             \/ RejectShort(c) \/ Deadlocked(c)
      PROVE  IInv'
  <2>1. \E r \in Replies : Abort(c, r)
    BY <1>4 DEF RefuseUnlisted, BusyTimeout, RejectOnSeen, RejectShort, Deadlocked
  <2> QED
    BY <2>1, AbortInvariant
<1>5. ASSUME NEW n \in Stocks, Reset(n) PROVE IInv'
  <2>1. n \in Nat
    BY ShopAssumption
  <2>2. \A c \in Checkouts : pc[c] # "reserving"
    BY <1>5 DEF Reset
  <2>3. TypeOK'
    BY <1>5, <2>1, ShopAssumption DEF IInv, TypeOK, Reset
  <2>4. AllSeen'
    BY <1>5 DEF IInv, AllSeen, Reset, Order, OrderLines
  <2>5. WritesLocked' /\ WritesAccounted'
    BY <1>5, <2>2 DEF IInv, WritesLocked, WritesAccounted, Reset
  <2>6. Conserved'
    BY <1>5, <2>1 DEF Reset, Conserved, Balanced
  <2> QED
    BY <2>3, <2>4, <2>5, <2>6 DEF IInv
<1>6. ASSUME Crash PROVE IInv'
  <2>1. TypeOK'
    BY <1>6 DEF IInv, TypeOK, Crash, rows
  <2>2. AllSeen'
    BY <1>6 DEF IInv, TypeOK, AllSeen, Crash, InFlight, Order, OrderLines
  <2>3. WritesLocked' /\ WritesAccounted'
    BY <1>6 DEF WritesLocked, WritesAccounted, Crash
  <2>4. Conserved'
    BY <1>6 DEF IInv, Crash, rows, Conserved, Balanced, Atomic
  <2> QED
    BY <2>1, <2>2, <2>3, <2>4 DEF IInv
<1>7. CASE UNCHANGED vars
  BY <1>7 DEF vars, IInv, TypeOK, AllSeen, WritesLocked, WritesAccounted, Conserved,
     Balanced, Atomic, Order, OrderLines, Guarding, Sqlite
<1> QED
  BY <1>1, <1>2, <1>3, <1>4, <1>5, <1>6, <1>7, UpdateInvariant, PayInvariant
     DEF Next, Advance

\* Type correctness: availability never goes below zero, in either mode.
THEOREM ShopTyping == Spec => []TypeOK
<1>1. IInv => TypeOK
  BY DEF IInv
<1> QED
  BY <1>1, InitInvariant, NextInvariant, PTL DEF Spec

\* Atomic reservations never oversell and lose no unit (store.py:156-169).
THEOREM ShopConservation == Spec => []Conserved
<1>1. IInv => Conserved
  BY DEF IInv
<1> QED
  BY <1>1, InitInvariant, NextInvariant, PTL DEF Spec

-----------------------------------------------------------------------------
(* Read-then-write reservations.                                           *)

\* Unless an order repeats a SKU, each of its writes is the availability it saw
\* less what it took.
WrittenFromSeen ==
    \A c \in Checkouts : ~Atomic /\ pc[c] = "reserving" /\ ~Repeats(c) =>
        \A s \in Skus :
            \/ writes[c][s] = Unwritten
            \/ \E i \in 1..done[c] :
                  /\ OrderLines(c)[i].sku = s
                  /\ writes[c][s] = seen[c][i] - OrderLines(c)[i].qty
                  /\ taken[c][s] = OrderLines(c)[i].qty

RaceInv == WrittenFromSeen /\ OversoldByRace

LEMMA InitRace == Init => RaceInv
BY ShopAssumption DEF Init, RaceInv, WrittenFromSeen, OversoldByRace, Balanced

\* A step that leaves the writes of the reserving checkouts alone.
LEMMA WrittenKept ==
    ASSUME WrittenFromSeen, UNCHANGED <<setup, done>>,
           \A d \in Checkouts : pc'[d] = "reserving" =>
               \/ \A s \in Skus : writes'[d][s] = Unwritten
               \/ /\ pc[d] = "reserving"
                  /\ writes'[d] = writes[d]
                  /\ taken'[d] = taken[d]
                  /\ seen'[d] = seen[d]
    PROVE  WrittenFromSeen'
<1>0. /\ Atomic' = Atomic
      /\ \A d \in Checkouts : Repeats(d)' = Repeats(d) /\ OrderLines(d)' = OrderLines(d)
  BY DEF Atomic, Repeats, OrderLines
<1> SUFFICES ASSUME NEW d \in Checkouts, ~Atomic, pc'[d] = "reserving", ~Repeats(d),
                    NEW s \in Skus, writes'[d][s] # Unwritten
             PROVE  \E i \in 1..done[d] :
                       /\ OrderLines(d)[i].sku = s
                       /\ writes'[d][s] = seen'[d][i] - OrderLines(d)[i].qty
                       /\ taken'[d][s] = OrderLines(d)[i].qty
  BY <1>0 DEF WrittenFromSeen
<1>1. /\ pc[d] = "reserving"
      /\ writes'[d] = writes[d] /\ taken'[d] = taken[d] /\ seen'[d] = seen[d]
  OBVIOUS
<1> QED
  BY <1>1 DEF WrittenFromSeen

LEMMA AbortRace ==
    ASSUME IInv, RaceInv, NEW c \in Checkouts, NEW r \in Replies, Abort(c, r)
    PROVE  RaceInv'
<1>1. WrittenFromSeen'
  BY WrittenKept DEF IInv, TypeOK, RaceInv, Abort, Answer, EndTransaction
<1>2. OversoldByRace'
  BY DEF RaceInv, OversoldByRace, Balanced, Abort, Answer, rows, Repeats, OrderLines
<1> QED
  BY <1>1, <1>2 DEF RaceInv

LEMMA UpdateRace ==
    ASSUME IInv, RaceInv, NEW c \in Checkouts, Update(c)
    PROVE  RaceInv'
<1> DEFINE i == done[c] + 1
           s == NextSku(c)
           q == NextQty(c)
<1>1. /\ pc[c] = "reserving"
      /\ i \in 1..Len(OrderLines(c))
      /\ done[c] \in Nat
      /\ done' = [done EXCEPT ![c] = @ + 1]
      /\ UNCHANGED <<setup, rows, pc, seen, reply, resets>>
  BY OrderType DEF Update, Reserving, IInv, TypeOK
<1>2. s \in Skus /\ q \in Nat /\ s = OrderLines(c)[i].sku /\ q = OrderLines(c)[i].qty
  BY <1>1, OrderType DEF IInv, NextSku, NextQty
<1>3. WrittenFromSeen'
  <2>0. /\ Atomic' = Atomic
        /\ \A d \in Checkouts : Repeats(d)' = Repeats(d) /\ OrderLines(d)' = OrderLines(d)
    BY <1>1 DEF Atomic, Repeats, OrderLines
  <2> SUFFICES ASSUME NEW d \in Checkouts, ~Atomic, pc[d] = "reserving", ~Repeats(d),
                      NEW t \in Skus, writes'[d][t] # Unwritten
               PROVE  \E j \in 1..done'[d] :
                         /\ OrderLines(d)[j].sku = t
                         /\ writes'[d][t] = seen[d][j] - OrderLines(d)[j].qty
                         /\ taken'[d][t] = OrderLines(d)[j].qty
    BY <1>1, <2>0 DEF WrittenFromSeen
  <2>1. /\ writes' = [writes EXCEPT ![c][s] = seen[c][i] - q]
        /\ taken' = [taken EXCEPT ![c][s] = @ + q]
    BY DEF Update, Matches
  <2>2. CASE d = c /\ t = s
    <3>1. writes[c][s] = Unwritten
      <4> SUFFICES ASSUME writes[c][s] # Unwritten PROVE FALSE
        OBVIOUS
      <4>1. PICK j \in 1..done[c] : OrderLines(c)[j].sku = s
        BY <1>1, <1>2, <2>2 DEF RaceInv, WrittenFromSeen
      <4>2. j \in 1..Len(OrderLines(c)) /\ j # i
        BY <1>1, <4>1, OrderType DEF IInv
      <4> QED
        BY <1>1, <1>2, <2>2, <4>1, <4>2 DEF Repeats
    <3>2. taken[c][s] = 0
      BY <3>1, <1>2 DEF IInv, WritesAccounted
    <3>3. writes'[c][s] = seen[c][i] - q /\ taken'[c][s] = q
      <4>1. /\ writes \in [Checkouts -> [Skus -> Nat \union {Unwritten}]]
            /\ taken \in [Checkouts -> [Skus -> Nat]]
        BY DEF IInv, TypeOK
      <4> HIDE DEF s, q, i
      <4>2. writes'[c][s] = seen[c][i] - q
        BY <4>1, <2>1, <1>2
      <4>3. taken'[c][s] = 0 + q
        BY <4>1, <2>1, <3>2, <1>2
      <4> QED
        BY <4>2, <4>3, <1>2
    <3>4. i \in 1..done'[c]
      BY <1>1 DEF IInv, TypeOK
    <3> QED
      BY <2>2, <3>3, <3>4, <1>2
  <2>3. CASE ~(d = c /\ t = s)
    <3>1. writes'[d][t] = writes[d][t] /\ taken'[d][t] = taken[d][t]
      BY <2>1, <2>3, <1>2 DEF IInv, TypeOK
    <3>2. PICK j \in 1..done[d] : /\ OrderLines(d)[j].sku = t
                                  /\ writes[d][t] = seen[d][j] - OrderLines(d)[j].qty
                                  /\ taken[d][t] = OrderLines(d)[j].qty
      BY <3>1 DEF RaceInv, WrittenFromSeen
    <3>3. j \in 1..done'[d]
      BY <1>1, <3>2 DEF IInv, TypeOK
    <3> QED
      BY <3>1, <3>2, <3>3
  <2> QED
    BY <2>2, <2>3
<1>4. OversoldByRace'
  BY <1>1 DEF RaceInv, OversoldByRace, Balanced, rows, Repeats, OrderLines
<1> QED
  BY <1>3, <1>4 DEF RaceInv

LEMMA PayRace ==
    ASSUME IInv, RaceInv, NEW c \in Checkouts, Pay(c)
    PROVE  RaceInv'
<1>1. /\ inventory' = [s \in Skus |-> Visible(c, s)]
      /\ sold' = [s \in Skus |-> sold[s] + taken[c][s]]
      /\ pc' = [pc EXCEPT ![c] = "done"]
      /\ writes' = [writes EXCEPT ![c] = [s \in Skus |-> Unwritten]]
      /\ taken' = [taken EXCEPT ![c] = [s \in Skus |-> 0]]
      /\ orders' = [orders EXCEPT ![c] = IF Order(c).declined THEN "pending" ELSE "confirmed"]
      /\ raced' = IF Outdated(c) THEN raced \union {c} ELSE raced
      /\ UNCHANGED <<setup, stock, seen, done>>
  BY DEF Pay, Answer, EndTransaction
<1>2. pc[c] = "reserving" /\ done[c] = Len(OrderLines(c))
  BY DEF Pay, Reserved
<1>3. WrittenFromSeen'
  BY <1>1, WrittenKept DEF IInv, TypeOK, RaceInv
<1>4. OversoldByRace'
  <2>1. CASE raced # {} \/ Outdated(c)
    BY <2>1, <1>1 DEF OversoldByRace
  <2>2. CASE \E d \in Checkouts : orders[d] # "none" /\ Repeats(d)
    BY <2>2, <1>1 DEF OversoldByRace, IInv, TypeOK, Repeats, OrderLines
  <2>3. CASE Repeats(c)
    <3>1. orders'[c] # "none"
      BY <1>1 DEF IInv, TypeOK
    <3> QED
      BY <3>1, <2>3, <1>1 DEF OversoldByRace, Repeats, OrderLines
  <2>4. CASE Balanced /\ ~Outdated(c) /\ ~Repeats(c)
    <3> SUFFICES ASSUME NEW s \in Skus PROVE inventory'[s] + sold'[s] = stock'
      BY DEF OversoldByRace, Balanced
    <3>1. /\ inventory[s] \in Nat /\ sold[s] \in Nat /\ taken[c][s] \in Nat
          /\ stock \in Nat
      BY DEF IInv, TypeOK
    <3>2. Visible(c, s) + taken[c][s] = inventory[s]
      <4>1. CASE writes[c][s] = Unwritten
        BY <4>1, <3>1 DEF IInv, WritesAccounted, Visible
      <4>2. CASE writes[c][s] # Unwritten /\ Atomic
        BY <4>2 DEF IInv, WritesAccounted, Visible
      <4>3. CASE writes[c][s] # Unwritten /\ ~Atomic
        <5>1. PICK i \in 1..done[c] : /\ OrderLines(c)[i].sku = s
                                      /\ writes[c][s] = seen[c][i] - OrderLines(c)[i].qty
                                      /\ taken[c][s] = OrderLines(c)[i].qty
          BY <4>3, <2>4, <1>2 DEF RaceInv, WrittenFromSeen
        <5>2. seen[c][i] = inventory[s]
          BY <5>1, <2>4, <1>2 DEF Outdated
        <5> QED
          BY <5>1, <5>2, <3>1, <4>3 DEF Visible
      <4> QED
        BY <4>1, <4>2, <4>3
    <3>3. Visible(c, s) \in Nat
      BY DEF IInv, TypeOK, Visible
    <3> QED
      BY <1>1, <2>4, <3>1, <3>2, <3>3 DEF Balanced
  <2> QED
    BY <2>1, <2>2, <2>3, <2>4 DEF RaceInv, OversoldByRace
<1> QED
  BY <1>3, <1>4 DEF RaceInv

LEMMA NextRace == IInv /\ RaceInv /\ [Next]_vars => RaceInv'
<1> SUFFICES ASSUME IInv, RaceInv, [Next]_vars PROVE RaceInv'
  OBVIOUS
<1> USE DEF Replies
<1>1. ASSUME NEW c \in Checkouts, Receive(c) PROVE RaceInv'
  <2>1. CASE Order(c).user
    <3>1. WrittenFromSeen'
      BY <1>1, <2>1, WrittenKept DEF Receive, IInv, TypeOK, RaceInv
    <3>2. OversoldByRace'
      BY <1>1, <2>1 DEF Receive, rows, RaceInv, OversoldByRace, Balanced, Repeats, OrderLines
    <3> QED
      BY <3>1, <3>2 DEF RaceInv
  <2>2. CASE ~Order(c).user
    BY <1>1, <2>2, AbortRace DEF Receive
  <2> QED
    BY <2>1, <2>2
<1>2. ASSUME NEW c \in Checkouts, Price(c) PROVE RaceInv'
  <2>1. WrittenFromSeen'
    BY <1>2, WrittenKept DEF Price, IInv, TypeOK, RaceInv
  <2>2. OversoldByRace'
    BY <1>2 DEF Price, rows, RaceInv, OversoldByRace, Balanced, Repeats, OrderLines
  <2> QED
    BY <2>1, <2>2 DEF RaceInv
<1>3. ASSUME NEW c \in Checkouts, InsertOrder(c) PROVE RaceInv'
  <2>1. \A s \in Skus : writes[c][s] = Unwritten
    BY <1>3 DEF InsertOrder, Priced, IInv, WritesLocked
  <2>2. WrittenFromSeen'
    BY <1>3, <2>1, WrittenKept DEF InsertOrder, IInv, TypeOK, RaceInv
  <2>3. OversoldByRace'
    BY <1>3 DEF InsertOrder, rows, RaceInv, OversoldByRace, Balanced, Repeats, OrderLines
  <2> QED
    BY <2>2, <2>3 DEF RaceInv
<1>4. ASSUME NEW c \in Checkouts,
             \/ RefuseUnlisted(c) \/ BusyTimeout(c) \/ RejectOnSeen(c)
             \/ RejectShort(c) \/ Deadlocked(c)
      PROVE  RaceInv'
  <2>1. \E r \in Replies : Abort(c, r)
    BY <1>4 DEF RefuseUnlisted, BusyTimeout, RejectOnSeen, RejectShort, Deadlocked
  <2> QED
    BY <2>1, AbortRace
<1>5. ASSUME NEW n \in Stocks, Reset(n) PROVE RaceInv'
  <2>1. WrittenFromSeen'
    BY <1>5 DEF Reset, WrittenFromSeen
  <2>2. Balanced'
    BY <1>5, ShopAssumption DEF Reset, Balanced
  <2> QED
    BY <2>1, <2>2 DEF RaceInv, OversoldByRace
<1>6. ASSUME Crash PROVE RaceInv'
  <2>1. WrittenFromSeen'
    BY <1>6 DEF Crash, WrittenFromSeen
  <2>2. OversoldByRace'
    BY <1>6 DEF Crash, rows, RaceInv, OversoldByRace, Balanced, Repeats, OrderLines
  <2> QED
    BY <2>1, <2>2 DEF RaceInv
<1>7. CASE UNCHANGED vars
  <2>1. WrittenFromSeen'
    BY <1>7, WrittenKept DEF vars, RaceInv
  <2>2. OversoldByRace'
    BY <1>7 DEF vars, RaceInv, OversoldByRace, Balanced, Repeats, OrderLines
  <2> QED
    BY <2>1, <2>2 DEF RaceInv
<1> QED
  BY <1>1, <1>2, <1>3, <1>4, <1>5, <1>6, <1>7, UpdateRace, PayRace DEF Next, Advance

\* Read-then-write reservations oversell only through a stale read or an order
\* that repeats a SKU (store.py:12-15).
THEOREM ShopRace == Spec => []OversoldByRace
<1>1. RaceInv => OversoldByRace
  BY DEF RaceInv
<1> QED
  BY <1>1, InitInvariant, NextInvariant, InitRace, NextRace, PTL DEF Spec

-----------------------------------------------------------------------------
(* Nobody waits for ever *)

\* However many checkouts there will be, finitely many are in flight; a lock is
\* held by a checkout that reserves, and SQLite's by the only one that does.
FlightsFinite == IsFiniteSet({c \in Checkouts : InFlight(c)})

HoldersReserve ==
    /\ \A r \in Resources : lock[r] # Free => pc[lock[r]] = "reserving"
    /\ Sqlite => \A c \in Checkouts : pc[c] = "reserving" => lock[Database] = c

WaitInv == FlightsFinite /\ HoldersReserve

\* At most one more is in flight.
LEMMA FlightsGrow ==
    ASSUME FlightsFinite, NEW c,
           \A d \in Checkouts \ {c} : InFlight(d)' => InFlight(d)
    PROVE  FlightsFinite'
<1> DEFINE S == {d \in Checkouts : InFlight(d)}
           T == {d \in Checkouts : InFlight(d)'}
<1>1. IsFiniteSet(S \cup {c})
  BY FS_AddElement DEF FlightsFinite
<1>2. T \in SUBSET (S \cup {c})
  OBVIOUS
<1>3. IsFiniteSet(T)
  BY <1>1, <1>2, FS_Subset
<1> QED
  BY <1>3 DEF FlightsFinite

LEMMA InitWait == Init => WaitInv
<1> SUFFICES ASSUME Init PROVE WaitInv
  OBVIOUS
<1>1. {c \in Checkouts : InFlight(c)} = {}
  BY DEF Init, InFlight
<1>2. FlightsFinite
  BY <1>1, FS_EmptySet DEF FlightsFinite
<1>3. HoldersReserve
  BY DEF Init, HoldersReserve
<1> QED
  BY <1>2, <1>3 DEF WaitInv

\* A transaction that ends, whatever it leaves in the rows, gives back its locks.
LEMMA EndedWait ==
    ASSUME TypeOK, WaitInv, NEW c \in Checkouts, NEW r, Answer(c, r), EndTransaction(c)
    PROVE  WaitInv'
<1>1. /\ pc' = [pc EXCEPT ![c] = "done"]
      /\ lock' = [x \in Resources |-> IF lock[x] = c THEN Free ELSE lock[x]]
      /\ UNCHANGED setup
  BY DEF Answer, EndTransaction
<1>2. FlightsFinite'
  <2>1. \A d \in Checkouts \ {c} : InFlight(d)' => InFlight(d)
    BY <1>1 DEF InFlight, TypeOK
  <2> QED
    BY <2>1, FlightsGrow DEF WaitInv
<1>3. ASSUME NEW x \in Resources, lock'[x] # Free
      PROVE  pc'[lock'[x]] = "reserving"
  <2>1. lock'[x] = lock[x] /\ lock[x] # c
    BY <1>1, <1>3
  <2>2. pc[lock[x]] = "reserving" /\ lock[x] \in Checkouts
    BY <1>3, <2>1 DEF WaitInv, HoldersReserve, TypeOK
  <2> QED
    BY <1>1, <2>1, <2>2 DEF TypeOK
<1>4. ASSUME Sqlite', NEW d \in Checkouts, pc'[d] = "reserving"
      PROVE  lock'[Database] = d
  <2>1. d # c /\ pc[d] = "reserving"
    BY <1>1, <1>4 DEF TypeOK
  <2>2. lock[Database] = d
    BY <1>1, <1>4, <2>1 DEF WaitInv, HoldersReserve, Sqlite
  <2> QED
    BY <1>1, <2>1, <2>2 DEF Resources
<1> QED
  BY <1>2, <1>3, <1>4 DEF WaitInv, HoldersReserve

\* A step that moves one checkout, but not into or out of its transaction.
LEMMA MovedWait ==
    ASSUME TypeOK, WaitInv, NEW c \in Checkouts, UNCHANGED <<setup, lock>>,
           \A d \in Checkouts : pc'[d] = "reserving" <=> pc[d] = "reserving",
           \A d \in Checkouts \ {c} : pc'[d] = pc[d]
    PROVE  WaitInv'
<1>1. FlightsFinite'
  BY FlightsGrow DEF WaitInv, InFlight
<1>2. HoldersReserve'
  BY DEF WaitInv, HoldersReserve, Sqlite, TypeOK
<1> QED
  BY <1>1, <1>2 DEF WaitInv

LEMMA NextWait == TypeOK /\ WaitInv /\ [Next]_vars => WaitInv'
<1> SUFFICES ASSUME TypeOK, WaitInv, [Next]_vars PROVE WaitInv'
  OBVIOUS
<1>1. ASSUME NEW c \in Checkouts, NEW r, Abort(c, r) PROVE WaitInv'
  BY <1>1, EndedWait DEF Abort
<1>2. ASSUME NEW c \in Checkouts, Receive(c) PROVE WaitInv'
  <2>1. CASE Order(c).user
    BY <1>2, <2>1, MovedWait DEF Receive, TypeOK
  <2>2. CASE ~Order(c).user
    BY <1>1, <1>2, <2>2 DEF Receive
  <2> QED
    BY <2>1, <2>2
<1>3. ASSUME NEW c \in Checkouts, Price(c) PROVE WaitInv'
  BY <1>3, MovedWait DEF Price
<1>4. ASSUME NEW c \in Checkouts, InsertOrder(c) PROVE WaitInv'
  <2>1. /\ pc[c] = "pricing"
        /\ pc' = [pc EXCEPT ![c] = "reserving"]
        /\ Sqlite => lock[Database] = Free
        /\ lock' = IF Sqlite THEN [lock EXCEPT ![Database] = c] ELSE lock
        /\ UNCHANGED setup
    BY <1>4 DEF InsertOrder, Priced
  <2>2. FlightsFinite'
    BY <2>1, FlightsGrow DEF WaitInv, InFlight, TypeOK
  <2>3. ASSUME NEW x \in Resources, lock'[x] # Free
        PROVE  pc'[lock'[x]] = "reserving"
    <3>1. CASE lock'[x] = c
      BY <2>1, <3>1 DEF TypeOK
    <3>2. CASE lock'[x] # c
      <4>1. lock'[x] = lock[x]
        BY <2>1, <3>2 DEF TypeOK
      <4>2. pc[lock[x]] = "reserving" /\ lock[x] \in Checkouts
        BY <2>3, <4>1 DEF WaitInv, HoldersReserve, TypeOK
      <4> QED
        BY <2>1, <3>2, <4>1, <4>2 DEF TypeOK
    <3> QED
      BY <3>1, <3>2
  <2>4. ASSUME Sqlite', NEW d \in Checkouts, pc'[d] = "reserving"
        PROVE  lock'[Database] = d
    <3>1. Sqlite
      BY <2>1, <2>4 DEF Sqlite
    <3>2. pc[d] # "reserving"
      BY <2>1, <3>1, ShopAssumption DEF WaitInv, HoldersReserve
    <3>3. d = c
      BY <2>1, <2>4, <3>2 DEF TypeOK
    <3> QED
      BY <2>1, <3>1, <3>3 DEF TypeOK, Resources
  <2> QED
    BY <2>2, <2>3, <2>4 DEF WaitInv, HoldersReserve
<1>5. ASSUME NEW c \in Checkouts, Update(c) PROVE WaitInv'
  <2>1. pc[c] = "reserving" /\ UNCHANGED <<setup, pc>>
    BY <1>5 DEF Update, Reserving
  <2>2. CASE lock' = lock
    BY <2>1, <2>2, MovedWait
  <2>3. CASE Matches(c)
    <3> DEFINE x == Guarding(NextSku(c))
    <3>1. lock[x] \in {Free, c} /\ lock' = [lock EXCEPT ![x] = c]
      BY <1>5, <2>3 DEF Update
    <3>2. FlightsFinite'
      BY <2>1, FlightsGrow DEF WaitInv, InFlight
    <3>3. \A y \in Resources : lock'[y] # Free => pc'[lock'[y]] = "reserving"
      BY <2>1, <3>1 DEF WaitInv, HoldersReserve, TypeOK
    <3>4. ASSUME Sqlite', NEW d \in Checkouts, pc'[d] = "reserving"
          PROVE  lock'[Database] = d
      <4>1. Sqlite
        BY <2>1, <3>4 DEF Sqlite
      <4>2. lock[Database] = d /\ lock[Database] = c
        BY <2>1, <3>4, <4>1 DEF WaitInv, HoldersReserve
      <4>3. x = Database
        BY <4>1 DEF Guarding
      <4> QED
        BY <3>1, <4>2, <4>3 DEF TypeOK, Resources
    <3> QED
      BY <3>2, <3>3, <3>4 DEF WaitInv, HoldersReserve
  <2> QED
    BY <1>5, <2>2, <2>3 DEF Update
<1>6. ASSUME NEW c \in Checkouts, Pay(c) PROVE WaitInv'
  BY <1>6, EndedWait DEF Pay
<1>7. ASSUME NEW c \in Checkouts,
             \/ RefuseUnlisted(c) \/ BusyTimeout(c) \/ RejectOnSeen(c)
             \/ RejectShort(c) \/ Deadlocked(c)
      PROVE  WaitInv'
  BY <1>1, <1>7 DEF RefuseUnlisted, BusyTimeout, RejectOnSeen, RejectShort, Deadlocked
<1>8. CASE Crash
  <2>1. /\ pc' = [c \in Checkouts |-> IF InFlight(c) THEN "done" ELSE pc[c]]
        /\ lock' = [r \in Resources |-> Free]
    BY <1>8 DEF Crash
  <2>2. \A c \in Checkouts : ~InFlight(c)' /\ pc'[c] # "reserving"
    BY <2>1 DEF InFlight
  <2>3. FlightsFinite'
    BY <2>2, FlightsGrow DEF WaitInv
  <2> QED
    BY <2>1, <2>2, <2>3 DEF WaitInv, HoldersReserve
<1>9. CASE UNCHANGED <<setup, pc, lock>>
  BY <1>9 DEF WaitInv, FlightsFinite, HoldersReserve, InFlight, Sqlite
<1>10. (\E n \in Stocks : Reset(n)) \/ UNCHANGED vars => UNCHANGED <<setup, pc, lock>>
  BY DEF Reset, vars
<1> QED
  BY <1>2, <1>3, <1>4, <1>5, <1>6, <1>7, <1>8, <1>9, <1>10 DEF Next, Advance

LEMMA SmallestOf ==
    ASSUME NEW S \in SUBSET Nat, S # {}
    PROVE  \E m \in S : \A k \in S : m <= k
<1> DEFINE LT == {ss \in Nat \X Nat : ss[1] < ss[2]}
<1>1. OpToRel(<, Nat) = LT
  BY Zenon DEF OpToRel
<1>2. IsWellFoundedOn(LT, Nat)
  BY Zenon, <1>1, NatLessThanWellFounded
<1> HIDE DEF LT
<1>3. PICK x \in S : \A y \in S : <<y, x>> \notin LT
  BY <1>2, WFMin
<1>4. ASSUME NEW y \in S
      PROVE  x <= y
  <2>1. x \in Nat /\ y \in Nat
    OBVIOUS
  <2>2. ~ (y < x)
    BY <1>3, <2>1 DEF LT
  <2> QED
    BY <2>1, <2>2
<1> QED
  BY <1>4

\* Finitely many checkouts each of which waits for another have a cycle: take as few
\* of them as possible that still wait for each other only.  One nobody waits for
\* could be left out.
LEMMA CycleExists ==
    ASSUME NEW S \in SUBSET Checkouts, IsFiniteSet(S), S # {},
           \A c \in S : \E d \in S : Waits(c, d)
    PROVE  \E D \in SUBSET S : D # {} /\ Cyclic(D)
<1> DEFINE Shut(D) == D # {} /\ \A c \in D : \E d \in D : Waits(c, d)
           Sizes == {Cardinality(D) : D \in {E \in SUBSET S : Shut(E)}}
<1>1. \A D \in SUBSET S : IsFiniteSet(D) /\ Cardinality(D) \in Nat
  BY FS_Subset, FS_CardinalityType
<1>2. Sizes \in SUBSET Nat /\ Sizes # {}
  <2>1. S \in SUBSET S /\ Shut(S)
    OBVIOUS
  <2> QED
    BY <1>1, <2>1
<1> HIDE DEF Shut
<1>3. PICK m \in Sizes : \A k \in Sizes : m <= k
  <2> HIDE DEF Sizes
  <2> QED
    BY <1>2, SmallestOf
<1>4. PICK D \in SUBSET S : Shut(D) /\ \A E \in SUBSET S : Shut(E) => Cardinality(D) <= Cardinality(E)
  BY <1>3
<1>5. ASSUME NEW e \in D, \A d \in D : ~Waits(d, e)
      PROVE  FALSE
  <2> DEFINE E == D \ {e}
  <2>1. PICK f \in D : Waits(e, f)
    BY <1>4 DEF Shut
  <2>2. f # e
    BY <2>1 DEF Waits
  <2>3. Shut(E)
    BY <1>4, <1>5, <2>2 DEF Shut
  <2>4. Cardinality(E) = Cardinality(D) - 1 /\ Cardinality(D) \in Nat
    BY <1>1, <1>5, FS_RemoveElement
  <2> QED
    BY <1>4, <2>3, <2>4
<1> QED
  BY <1>4, <1>5 DEF Cyclic, Shut

\* Whoever a blocked checkout waits for is in its transaction.
LEMMA AllBlocked ==
    ASSUME TypeOK, WaitInv, NEW c \in Checkouts, InFlight(c),
           \A d \in Checkouts : InFlight(d) => Blocked(d)
    PROVE  ~Sqlite /\ \E D \in SUBSET Checkouts : D # {} /\ Cyclic(D)
<1> DEFINE S == {d \in Checkouts : InFlight(d)}
<1>1. ASSUME NEW d \in Checkouts, NEW e \in Checkouts, Waits(d, e)
      PROVE  pc[e] = "reserving" /\ lock[Guarding(NextSku(d))] = e /\ d # e
  <2>1. NextSku(d) \in Skus
    <3>1. done[d] + 1 \in 1 .. Len(OrderLines(d))
      BY <1>1, OrderType DEF Waits, Reserving, TypeOK
    <3> QED
      BY <3>1, OrderType DEF NextSku
  <2>2. Guarding(NextSku(d)) \in Resources
    BY <2>1, GuardType
  <2> QED
    BY <1>1, <2>2, ShopAssumption DEF Waits, WaitInv, HoldersReserve
<1>2. ASSUME NEW d \in Checkouts, pc[d] = "reserving"
      PROVE  \E e \in Checkouts : Waits(d, e) /\ pc[e] = "reserving"
  BY <1>1, <1>2 DEF InFlight, Blocked, Priced
<1>3. ~Sqlite
  <2> SUFFICES ASSUME Sqlite PROVE FALSE
    OBVIOUS
  <2>1. PICK d \in Checkouts : pc[d] = "reserving"
    <3>1. CASE lock[Database] # Free
      BY <3>1 DEF TypeOK, WaitInv, HoldersReserve, Resources
    <3>2. CASE lock[Database] = Free
      BY <1>1, <3>2 DEF Blocked
    <3> QED
      BY <3>1, <3>2
  <2>2. PICK e \in Checkouts : Waits(d, e) /\ pc[e] = "reserving"
    BY <1>2, <2>1
  <2>3. d # e
    BY <1>1, <2>2
  <2> QED
    BY <2>1, <2>2, <2>3 DEF WaitInv, HoldersReserve
<1>4. \A d \in S : \E e \in S : Waits(d, e)
  BY <1>1, <1>3 DEF InFlight, Blocked
<1>5. IsFiniteSet(S) /\ S # {} /\ S \in SUBSET Checkouts
  BY DEF WaitInv, FlightsFinite
<1> HIDE DEF S
<1>6. PICK D \in SUBSET S : D # {} /\ Cyclic(D)
  BY <1>4, <1>5, CycleExists
<1> QED
  BY <1>3, <1>5, <1>6

\* As long as a checkout is in flight, one of them can go on, or Postgres has a
\* deadlock to break: nobody waits for a lock that was left behind, for any
\* checkouts and orders, on either database.
THEOREM ShopNeverHangs == Spec => []NoEndlessWait
<1>1. TypeOK /\ WaitInv => NoEndlessWait
  BY AllBlocked DEF NoEndlessWait
<1>2. IInv => TypeOK
  BY DEF IInv
<1> QED
  BY <1>1, <1>2, InitInvariant, NextInvariant, InitWait, NextWait, PTL DEF Spec

-----------------------------------------------------------------------------
(* With atomic reservations the shop implements ShopLedger *)

LEMMA CountUpTo ==
    ASSUME NEW q \in Nat
    PROVE  IsFiniteSet(1 .. q) /\ Cardinality(1 .. q) = q
<1>1. 1 \in Int /\ q \in Int
  OBVIOUS
<1>2. IsFiniteSet(1 .. q) /\ Cardinality(1 .. q) = IF 1 > q THEN 0 ELSE q - 1 + 1
  BY <1>1, FS_Interval, Zenon
<1> QED
  BY <1>2

\* The units of an order can be counted, and a line adds its quantity to its SKU.
LEMMA UnitsFinite ==
    ASSUME TypeOK, NEW c \in Checkouts, NEW s \in Skus,
           NEW n \in 0 .. Len(OrderLines(c))
    PROVE  /\ IsFiniteSet(UnitsIn(c, s, n))
           /\ Cardinality(UnitsIn(c, s, n)) \in Nat
           /\ Cardinality(UnitsIn(c, s, n)) <= Units(c, s)
           /\ Units(c, s) \in Nat
<1> DEFINE L == OrderLines(c)
           Of(m) == {j \in 1 .. m : L[j].sku = s}
           Unit(i) == {i} \X (1 .. L[i].qty)
<1>1. L \in Seq(Lines) /\ Len(L) \in Nat
  BY OrderType
<1>2. ASSUME NEW m \in 0 .. Len(L)
      PROVE  IsFiniteSet(UnitsIn(c, s, m))
  <2>1. IsFiniteSet(Of(m))
    <3>1. IsFiniteSet(1 .. m)
      BY <1>1, FS_Interval
    <3> QED
      BY <3>1, FS_Subset
  <2>2. ASSUME NEW i \in Of(m)
        PROVE  IsFiniteSet(Unit(i))
    <3>1. L[i].qty \in Nat
      <4>1. i \in 1 .. Len(L)
        BY <1>1
      <4>2. L[i] \in Lines
        BY <1>1, <4>1
      <4> QED
        BY <4>2 DEF Lines
    <3>2. IsFiniteSet(1 .. L[i].qty)
      BY <3>1, CountUpTo
    <3>3. IsFiniteSet({i})
      BY FS_Singleton
    <3> QED
      BY <3>2, <3>3, FS_Product
  <2> DEFINE f == [i \in Of(m) |-> Unit(i)]
             U == {Unit(i) : i \in Of(m)}
  <2>3. f \in Surjection(Of(m), U)
    BY DEF Surjection
  <2>4. IsFiniteSet(U)
    BY <2>1, <2>3, FS_Surjection
  <2>5. IsFiniteSet(UNION U)
    BY <2>2, <2>4, FS_UNION
  <2> QED
    BY <2>5 DEF UnitsIn
<1>3. UnitsIn(c, s, n) \subseteq UnitsIn(c, s, Len(L))
  BY <1>1 DEF UnitsIn
<1>4. IsFiniteSet(UnitsIn(c, s, n)) /\ IsFiniteSet(UnitsIn(c, s, Len(L)))
  BY <1>1, <1>2
<1> QED
  BY <1>3, <1>4, FS_Subset, FS_CardinalityType DEF Units

LEMMA UnitsAdd ==
    ASSUME TypeOK, NEW c \in Checkouts, NEW s \in Skus,
           NEW n \in 0 .. Len(OrderLines(c)) - 1
    PROVE  LET l == OrderLines(c)[n + 1] IN
           Cardinality(UnitsIn(c, s, n + 1)) =
              Cardinality(UnitsIn(c, s, n)) + (IF l.sku = s THEN l.qty ELSE 0)
<1> DEFINE L == OrderLines(c)
           q == L[n + 1].qty
           new == {n + 1} \X (1 .. q)
<1>1. L \in Seq(Lines) /\ Len(L) \in Nat /\ n + 1 \in 1 .. Len(L)
  BY OrderType
<1>2. q \in Nat
  <2>1. L[n + 1] \in Lines
    BY <1>1
  <2> QED
    BY <2>1 DEF Lines
<1>3. CASE L[n + 1].sku = s
  <2>1. UnitsIn(c, s, n + 1) = UnitsIn(c, s, n) \cup new
    <3>1. {j \in 1 .. n + 1 : L[j].sku = s} = {j \in 1 .. n : L[j].sku = s} \cup {n + 1}
      BY <1>1, <1>3
    <3> QED
      BY <3>1 DEF UnitsIn
  <2>2. UnitsIn(c, s, n) \cap new = {}
    <3>1. \A u \in UnitsIn(c, s, n) : u[1] \in 1 .. n
      BY DEF UnitsIn
    <3>2. \A u \in new : u[1] = n + 1
      OBVIOUS
    <3> QED
      BY <1>1, <3>1, <3>2
  <2>3. IsFiniteSet(UnitsIn(c, s, n)) /\ Cardinality(UnitsIn(c, s, n)) \in Nat
    BY <1>1, UnitsFinite
  <2>4. IsFiniteSet(new) /\ Cardinality(new) = q
    <3>1. IsFiniteSet(1 .. q) /\ Cardinality(1 .. q) = q
      BY <1>2, CountUpTo
    <3>2. IsFiniteSet({n + 1}) /\ Cardinality({n + 1}) = 1
      BY FS_Singleton
    <3>3. /\ IsFiniteSet(new)
          /\ Cardinality(new) = Cardinality({n + 1}) * Cardinality(1 .. q)
      BY <3>1, <3>2, FS_Product, Zenon
    <3> QED
      BY <1>2, <3>1, <3>2, <3>3
  <2> HIDE DEF new
  <2>5. Cardinality(UnitsIn(c, s, n) \cup new) =
           Cardinality(UnitsIn(c, s, n)) + Cardinality(new)
              - Cardinality(UnitsIn(c, s, n) \cap new)
    BY <2>3, <2>4, FS_Union, Zenon
  <2>6. Cardinality(UnitsIn(c, s, n) \cap new) = 0
    BY <2>2, FS_EmptySet
  <2>7. Cardinality(UnitsIn(c, s, n + 1)) = Cardinality(UnitsIn(c, s, n)) + q
    <3>1. Cardinality(UnitsIn(c, s, n + 1)) = Cardinality(UnitsIn(c, s, n) \cup new)
      BY <2>1
    <3>2. Cardinality(new) = q
      BY <2>4
    <3> HIDE DEF q
    <3> QED
      BY <1>2, <2>3, <2>5, <2>6, <3>1, <3>2
  <2> QED
    BY <1>3, <2>7
<1>4. CASE L[n + 1].sku # s
  <2>1. {j \in 1 .. n + 1 : L[j].sku = s} = {j \in 1 .. n : L[j].sku = s}
    BY <1>1, <1>4
  <2>2. UnitsIn(c, s, n + 1) = UnitsIn(c, s, n)
    BY <2>1 DEF UnitsIn
  <2>3. Cardinality(UnitsIn(c, s, n)) \in Nat
    BY <1>1, UnitsFinite
  <2> QED
    BY <1>4, <2>2, <2>3
<1> QED
  BY <1>3, <1>4

\* A checkout is answered at its end, has taken the units of the lines it has gone
\* through, unless one of them was short; then the shelf does not hold its order, and
\* will not until it ends: stock only comes back with a reset, which waits for it.
Unanswered == \A c \in Checkouts : reply[c] # "none" => pc[c] = "done"

TakenSoFar ==
    Atomic => \A c \in Checkouts, s \in Skus :
        pc[c] # "done" /\ ~short[c] => taken[c][s] = Cardinality(UnitsIn(c, s, done[c]))

ShortOfStock ==
    Atomic => \A c \in Checkouts :
        short[c] /\ pc[c] # "done" =>
            pc[c] = "reserving" /\ \E s \in Skus : inventory[s] < Units(c, s)

LedgerInv == Unanswered /\ TakenSoFar /\ ShortOfStock

LEMMA OrderKept ==
    ASSUME UNCHANGED setup, NEW c \in Checkouts, NEW s \in Skus
    PROVE  /\ \A n : UnitsIn(c, s, n)' = UnitsIn(c, s, n)
           /\ Units(c, s)' = Units(c, s)
           /\ Atomic' = Atomic
BY DEF UnitsIn, Units, OrderLines, Atomic

LEMMA InitLedger == Init => LedgerInv
<1> SUFFICES ASSUME Init PROVE LedgerInv
  OBVIOUS
<1>1. \A c \in Checkouts, s \in Skus : Cardinality(UnitsIn(c, s, 0)) = 0
  BY FS_EmptySet DEF UnitsIn
<1> QED
  BY <1>1 DEF Init, LedgerInv, Unanswered, TakenSoFar, ShortOfStock

\* The steps between, before and after the reservations of a checkout.
LEMMA LedgerKept ==
    ASSUME IInv, LedgerInv, UNCHANGED setup,
           \A c \in Checkouts : reply'[c] # "none" => pc'[c] = "done",
           \A c \in Checkouts : pc'[c] # "done" =>
              /\ pc[c] # "done"
              /\ pc[c] = "reserving" => pc'[c] = "reserving"
              /\ done'[c] = done[c] /\ short'[c] = short[c]
              /\ \A s \in Skus : taken'[c][s] = taken[c][s]
              /\ Atomic /\ pc[c] = "reserving" =>
                    \A s \in Skus : inventory'[s] <= inventory[s] /\ inventory'[s] \in Nat
    PROVE  LedgerInv'
<1>1. TakenSoFar'
  BY OrderKept DEF LedgerInv, TakenSoFar, Atomic
<1>2. ShortOfStock'
  <2> SUFFICES ASSUME Atomic, NEW c \in Checkouts, short'[c], pc'[c] # "done"
               PROVE  pc'[c] = "reserving" /\ \E s \in Skus : inventory'[s] < Units(c, s)'
    BY DEF ShortOfStock, Atomic
  <2>1. short[c] /\ pc[c] # "done" /\ pc[c] = "reserving"
    BY DEF LedgerInv, ShortOfStock
  <2>2. PICK s \in Skus : inventory[s] < Units(c, s)
    BY <2>1 DEF LedgerInv, ShortOfStock
  <2>3. Units(c, s) \in Nat /\ inventory[s] \in Nat /\ Units(c, s)' = Units(c, s)
    <3>1. Len(OrderLines(c)) \in 0 .. Len(OrderLines(c))
      BY OrderType DEF IInv
    <3> QED
      BY <3>1, UnitsFinite, OrderKept DEF IInv, TypeOK
  <2>4. inventory'[s] < Units(c, s)'
    BY <2>1, <2>2, <2>3
  <2> QED
    BY <2>1, <2>4
<1> QED
  BY <1>1, <1>2 DEF LedgerInv, Unanswered

LEMMA UpdateLedger ==
    ASSUME IInv, LedgerInv, NEW c \in Checkouts, Update(c)
    PROVE  LedgerInv'
<1> DEFINE n == done[c]
           t == NextSku(c)
           q == NextQty(c)
<1>1. /\ pc[c] = "reserving" /\ n \in 0 .. Len(OrderLines(c)) - 1
      /\ done' = [done EXCEPT ![c] = n + 1]
      /\ UNCHANGED <<setup, inventory, pc, reply>>
  BY OrderType DEF Update, Reserving, IInv, TypeOK, rows
<1>2. OrderLines(c)[n + 1].sku = t /\ OrderLines(c)[n + 1].qty = q
  BY DEF NextSku, NextQty
<1>3. t \in Skus /\ q \in Nat
  <2>1. OrderLines(c)[n + 1] \in Lines
    BY <1>1, OrderType DEF IInv
  <2> QED
    BY <1>2, <2>1 DEF Lines
<1>4. /\ \A d \in Checkouts : d # c => /\ done'[d] = done[d] /\ short'[d] = short[d]
                                       /\ taken'[d] = taken[d]
      /\ done'[c] = n + 1
  BY <1>1 DEF Update, IInv, TypeOK
<1>5. \A s \in Skus : /\ taken[c][s] \in Nat /\ inventory[s] \in Nat
                      /\ Cardinality(UnitsIn(c, s, n)) \in Nat
                      /\ Cardinality(UnitsIn(c, s, n + 1)) \in Nat
                      /\ Cardinality(UnitsIn(c, s, n + 1)) <= Units(c, s)
                      /\ Units(c, s) \in Nat
  <2>1. n \in 0 .. Len(OrderLines(c)) /\ n + 1 \in 0 .. Len(OrderLines(c))
    BY <1>1, OrderType DEF IInv
  <2> QED
    BY <2>1, UnitsFinite DEF IInv, TypeOK
<1>6. \A s \in Skus : Cardinality(UnitsIn(c, s, n + 1)) =
         Cardinality(UnitsIn(c, s, n)) + (IF t = s THEN q ELSE 0)
  BY <1>1, <1>2, UnitsAdd DEF IInv
<1>7. Unanswered'
  BY <1>1 DEF LedgerInv, Unanswered
<1>8. TakenSoFar'
  <2> SUFFICES ASSUME Atomic, NEW d \in Checkouts, NEW s \in Skus,
                      pc[d] # "done", ~short'[d]
               PROVE  taken'[d][s] = Cardinality(UnitsIn(d, s, done'[d]))
    BY <1>1, OrderKept DEF TakenSoFar, Atomic
  <2>1. CASE d # c
    BY <1>4, <2>1 DEF LedgerInv, TakenSoFar
  <2>2. CASE d = c
    <3>1. /\ Matches(c) /\ ~short[c]
          /\ taken' = [taken EXCEPT ![c][t] = @ + q]
      BY <2>2 DEF Update, IInv, TypeOK
    <3>2. taken'[c][s] = taken[c][s] + (IF t = s THEN q ELSE 0)
      <4>1. taken'[c] = [taken[c] EXCEPT ![t] = @ + q] /\ taken[c] \in [Skus -> Nat]
        BY <3>1 DEF IInv, TypeOK
      <4> HIDE DEF t, q
      <4> QED
        BY <1>3, <1>5, <4>1
    <3>3. taken[c][s] = Cardinality(UnitsIn(c, s, n))
      BY <1>1, <3>1 DEF LedgerInv, TakenSoFar
    <3> QED
      BY <1>4, <1>6, <2>2, <3>2, <3>3
  <2> QED
    BY <2>1, <2>2
<1>9. ShortOfStock'
  <2> SUFFICES ASSUME Atomic, NEW d \in Checkouts, short'[d], pc[d] # "done"
               PROVE  pc[d] = "reserving" /\ \E s \in Skus : inventory[s] < Units(d, s)
    BY <1>1, OrderKept DEF ShortOfStock, Atomic
  <2>1. CASE short[d]
    BY <2>1 DEF LedgerInv, ShortOfStock
  <2>2. CASE ~short[d]
    <3>1. d = c /\ ~Matches(c)
      BY <1>4, <2>2 DEF Update
    <3>2. Visible(c, t) < q
      BY <1>3, <3>1 DEF Matches, Visible, IInv, TypeOK
    <3>3. Visible(c, t) + taken[c][t] = inventory[t] /\ Visible(c, t) \in Nat
      BY <1>3, <1>5 DEF IInv, WritesAccounted, Visible, TypeOK
    <3>4. taken[c][t] = Cardinality(UnitsIn(c, t, n))
      BY <1>1, <1>3, <2>2, <3>1 DEF LedgerInv, TakenSoFar
    <3>5. inventory[t] < Units(c, t)
      BY <1>3, <1>5, <1>6, <3>2, <3>3, <3>4
    <3> QED
      BY <1>1, <1>3, <3>1, <3>5
  <2> QED
    BY <2>1, <2>2
<1> QED
  BY <1>7, <1>8, <1>9 DEF LedgerInv

LEMMA NextLedger == IInv /\ LedgerInv /\ [Next]_vars => LedgerInv'
<1> SUFFICES ASSUME IInv, LedgerInv, [Next]_vars PROVE LedgerInv'
  OBVIOUS
<1> USE DEF IInv, TypeOK, LedgerInv, Unanswered
<1>0. \A c \in Checkouts, s \in Skus : inventory[s] \in Nat /\ inventory[s] <= inventory[s]
  OBVIOUS
<1>1. ASSUME NEW c \in Checkouts, NEW r \in Replies, Abort(c, r)
      PROVE  LedgerInv'
  BY <1>0, <1>1, LedgerKept DEF Abort, Answer, EndTransaction, rows
<1>2. ASSUME NEW c \in Checkouts, Receive(c)
      PROVE  LedgerInv'
  <2>1. CASE Order(c).user
    BY <1>0, <1>2, <2>1, LedgerKept DEF Receive, rows
  <2>2. CASE ~Order(c).user
    BY <1>1, <1>2, <2>2 DEF Receive, Replies
  <2> QED
    BY <2>1, <2>2
<1>3. ASSUME NEW c \in Checkouts, Price(c)
      PROVE  LedgerInv'
  BY <1>0, <1>3, LedgerKept DEF Price, rows
<1>4. ASSUME NEW c \in Checkouts, InsertOrder(c)
      PROVE  LedgerInv'
  BY <1>0, <1>4, LedgerKept DEF InsertOrder, Priced, rows
<1>5. ASSUME NEW c \in Checkouts, Pay(c)
      PROVE  LedgerInv'
  <2>1. Atomic => \A s \in Skus : inventory'[s] <= inventory[s] /\ inventory'[s] \in Nat
    <3> SUFFICES ASSUME Atomic, NEW s \in Skus
                 PROVE  inventory'[s] <= inventory[s] /\ inventory'[s] \in Nat
      OBVIOUS
    <3>1. inventory'[s] = Visible(c, s)
      BY <1>5 DEF Pay
    <3>2. Visible(c, s) + taken[c][s] = inventory[s]
      BY DEF WritesAccounted, Visible
    <3>3. Visible(c, s) \in Nat /\ taken[c][s] \in Nat /\ inventory[s] \in Nat
      BY DEF Visible
    <3> QED
      BY <3>1, <3>2, <3>3
  <2> QED
    BY <1>5, <2>1, LedgerKept DEF Pay, Answer, EndTransaction
<1>6. ASSUME NEW n \in Stocks, Reset(n)
      PROVE  LedgerInv'
  BY <1>6, LedgerKept DEF Reset
<1>7. CASE Crash
  <2>1. \A c \in Checkouts : pc[c] = "idle" => \A s \in Skus : taken[c][s] = 0
    BY DEF WritesLocked, WritesAccounted
  <2>2. \A c \in Checkouts : pc'[c] # "done" => pc[c] = "idle" /\ pc'[c] = "idle"
    BY <1>7 DEF Crash, InFlight
  <2> QED
    BY <1>7, <2>1, <2>2, LedgerKept DEF Crash, InFlight
<1>8. CASE UNCHANGED vars
  BY <1>0, <1>8, LedgerKept DEF vars
<1>9. ASSUME NEW c \in Checkouts,
             RefuseUnlisted(c) \/ RejectOnSeen(c) \/ RejectShort(c) \/ BusyTimeout(c)
             \/ Deadlocked(c)
      PROVE  LedgerInv'
  BY <1>1, <1>9 DEF RefuseUnlisted, RejectOnSeen, RejectShort, BusyTimeout, Deadlocked,
     Replies
<1> QED
  BY <1>2, <1>3, <1>4, <1>5, <1>6, <1>7, <1>8, <1>9, UpdateLedger DEF Next, Advance

\* What the ledger sees of the shop.
Demand   == [c \in Checkouts |-> [s \in Skus |-> Units(c, s)]]
Outcomes == [c \in Checkouts |-> Outcome(c)]

LEMMA DemandKept ==
    ASSUME UNCHANGED setup
    PROVE  UNCHANGED Demand
<1>1. \A c \in Checkouts, s \in Skus : Units(c, s)' = Units(c, s)
  BY OrderKept
<1>2. Demand' = [c \in Checkouts |-> [s \in Skus |-> Units(c, s)']]
  BY DEF Demand
<1> QED
  BY <1>1, <1>2 DEF Demand

\* A checkout is open for the ledger until its handler ends.
LEMMA OpenOutcome ==
    ASSUME LedgerInv
    PROVE  /\ \A c \in Checkouts : pc[c] # "done" => Outcomes[c] = "open"
           /\ Outcomes' = [c \in Checkouts |-> Outcome(c)']
           /\ \A c \in Checkouts : pc'[c] = pc[c] /\ reply'[c] = reply[c]
                 => Outcomes'[c] = Outcomes[c]
<1>1. Outcomes' = [c \in Checkouts |-> Outcome(c)']
  BY DEF Outcomes
<1> QED
  BY <1>1 DEF LedgerInv, Unanswered, Outcomes, Outcome

\* What an answer is for the ledger.
LEMMA AnswerOutcome ==
    ASSUME TypeOK, LedgerInv, NEW c \in Checkouts, NEW r \in Replies \ {"none"}, Answer(c, r)
    PROVE  Outcomes' = [Outcomes EXCEPT ![c] =
              CASE r \in {"created", "declined"} -> "served"
                [] r = "out_of_stock"            -> "refused"
                [] OTHER                         -> "failed"]
<1>1. pc'[c] = "done" /\ reply'[c] = r
  BY DEF Answer, TypeOK
<1>2. \A d \in Checkouts : d # c => pc'[d] = pc[d] /\ reply'[d] = reply[d]
  BY DEF Answer, TypeOK
<1>3. Outcomes'[c] = CASE r \in {"created", "declined"} -> "served"
                       [] r = "out_of_stock"            -> "refused"
                       [] OTHER                         -> "failed"
  BY <1>1, OpenOutcome DEF Outcome, Replies
<1>4. \A d \in Checkouts : d # c => Outcomes'[d] = Outcomes[d]
  BY <1>2, OpenOutcome
<1>5. /\ Outcomes = [d \in Checkouts |-> Outcomes[d]]
      /\ Outcomes' = [d \in Checkouts |-> Outcomes'[d]]
  BY OpenOutcome DEF Outcomes
<1> QED
  BY <1>3, <1>4, <1>5

\* An order refused for its stock is one the shelf does not hold; one that ends
\* for another reason leaves no trace.
LEMMA AbortRefines ==
    ASSUME IInv, LedgerInv, NEW c \in Checkouts, NEW r \in Replies, Abort(c, r),
           pc[c] # "done",
           \/ r \in {"unauthorized", "unknown_sku", "error"}
           \/ r = "out_of_stock" /\ \E s \in Skus : inventory[s] < Units(c, s)
    PROVE  Ledger!Next
<1>1. UNCHANGED <<Demand, inventory>>
  BY DemandKept DEF Abort, Answer, rows
<1>2. Outcomes[c] = "open"
  BY OpenOutcome
<1>3. CASE r \in {"unauthorized", "unknown_sku", "error"}
  <2>1. Outcomes' = [Outcomes EXCEPT ![c] = "failed"]
    BY <1>3, AnswerOutcome DEF Abort, IInv
  <2>2. Outcomes' = [d \in Checkouts |-> IF d \in {c} THEN "failed" ELSE Outcomes[d]]
    BY <2>1 DEF Outcomes
  <2>3. Ledger!Fail({c})
    BY <1>1, <1>2, <2>2 DEF Ledger!Fail, Demand, Outcomes
  <2> QED
    BY <2>3 DEF Ledger!Next
<1>4. CASE r = "out_of_stock" /\ \E s \in Skus : inventory[s] < Units(c, s)
  <2>1. Outcomes' = [Outcomes EXCEPT ![c] = "refused"]
    BY <1>4, AnswerOutcome DEF Abort, IInv
  <2>2. ~ \A s \in Skus : inventory[s] >= Demand[c][s]
    <3>1. PICK s \in Skus : inventory[s] < Units(c, s)
      BY <1>4
    <3>2. Units(c, s) \in Nat /\ inventory[s] \in Nat
      <4>1. Len(OrderLines(c)) \in 0 .. Len(OrderLines(c))
        BY OrderType DEF IInv
      <4> QED
        BY <4>1, UnitsFinite DEF IInv, TypeOK
    <3> QED
      BY <3>1, <3>2 DEF Demand
  <2>3. Ledger!Refuse(c)
    BY <1>1, <1>2, <2>1, <2>2 DEF Ledger!Refuse, Ledger!Holds, Demand, Outcomes
  <2> QED
    BY <2>3 DEF Ledger!Next
<1> QED
  BY <1>3, <1>4

\* A paid order takes all its units from the shelf, which holds them.
LEMMA PayRefines ==
    ASSUME IInv, LedgerInv, Atomic, NEW c \in Checkouts, Pay(c)
    PROVE  Ledger!Next
<1>1. UNCHANGED Demand
  BY DemandKept DEF Pay, Answer
<1>2. Outcomes[c] = "open"
  BY OpenOutcome DEF Pay, Reserved
<1>3. Outcomes' = [Outcomes EXCEPT ![c] = "served"]
  BY AnswerOutcome DEF Pay, Replies, IInv
<1>4. ASSUME NEW s \in Skus
      PROVE  /\ inventory[s] >= Demand[c][s]
             /\ Visible(c, s) = inventory[s] - Demand[c][s]
  <2>1. Demand[c][s] = taken[c][s]
    BY DEF Pay, Reserved, LedgerInv, TakenSoFar, Units, Demand
  <2>2. Visible(c, s) + taken[c][s] = inventory[s]
    BY DEF IInv, WritesAccounted, Visible, TypeOK
  <2>3. Visible(c, s) \in Nat /\ taken[c][s] \in Nat /\ inventory[s] \in Nat
    BY DEF IInv, TypeOK, Visible
  <2> QED
    BY <2>1, <2>2, <2>3
<1>5. inventory' = [s \in Skus |-> inventory[s] - Demand[c][s]]
  BY <1>4 DEF Pay
<1>6. Ledger!Serve(c)
  BY <1>1, <1>2, <1>3, <1>4, <1>5 DEF Ledger!Serve, Ledger!Holds, Demand, Outcomes
<1> QED
  BY <1>6 DEF Ledger!Next

\* A step before the answer is not seen.
LEMMA SilentStep ==
    ASSUME LedgerInv, UNCHANGED <<setup, inventory, reply>>,
           \A c \in Checkouts : pc'[c] = pc[c] \/ (pc[c] # "done" /\ pc'[c] # "done")
    PROVE  UNCHANGED <<Demand, inventory, Outcomes>>
<1>1. UNCHANGED Demand
  BY DemandKept
<1>2. \A c \in Checkouts : Outcomes'[c] = Outcomes[c]
  BY OpenOutcome DEF LedgerInv, Unanswered, Outcome
<1>3. /\ Outcomes = [d \in Checkouts |-> Outcomes[d]]
      /\ Outcomes' = [d \in Checkouts |-> Outcomes'[d]]
  BY OpenOutcome DEF Outcomes
<1> QED
  BY <1>1, <1>2, <1>3

LEMMA StepRefines ==
    ASSUME IInv, LedgerInv, [Next]_vars
    PROVE  Ledger!Next \/ ~Atomic \/ UNCHANGED <<Demand, inventory, Outcomes>>
<1> SUFFICES ASSUME Atomic
             PROVE  Ledger!Next \/ UNCHANGED <<Demand, inventory, Outcomes>>
  OBVIOUS
<1>1. ASSUME NEW c \in Checkouts, Receive(c)
      PROVE  Ledger!Next \/ UNCHANGED <<Demand, inventory, Outcomes>>
  <2>1. CASE Order(c).user
    BY <1>1, <2>1, SilentStep DEF Receive, rows, IInv, TypeOK
  <2>2. CASE ~Order(c).user
    BY <1>1, <2>2, AbortRefines DEF Receive, Replies
  <2> QED
    BY <2>1, <2>2
<1>2. ASSUME NEW c \in Checkouts, Price(c) \/ InsertOrder(c) \/ Update(c)
      PROVE  UNCHANGED <<Demand, inventory, Outcomes>>
  BY <1>2, SilentStep DEF Price, InsertOrder, Priced, Update, rows, IInv, TypeOK
<1>3. ASSUME NEW c \in Checkouts, RefuseUnlisted(c) \/ BusyTimeout(c)
      PROVE  Ledger!Next
  BY <1>3, AbortRefines DEF RefuseUnlisted, BusyTimeout, Priced, Replies
<1>4. ASSUME NEW c \in Checkouts, Deadlocked(c)
      PROVE  Ledger!Next
  <2>1. pc[c] = "reserving"
    BY <1>4 DEF Deadlocked, Cyclic, Waits, Reserving
  <2> QED
    BY <1>4, <2>1, AbortRefines DEF Deadlocked, Replies
<1>5. ASSUME NEW c \in Checkouts, RejectShort(c)
      PROVE  Ledger!Next
  <2>1. \E s \in Skus : inventory[s] < Units(c, s)
    BY <1>5 DEF RejectShort, Reserved, LedgerInv, ShortOfStock
  <2> QED
    BY <1>5, <2>1, AbortRefines DEF RejectShort, Reserved, Replies
<1>6. ASSUME NEW c \in Checkouts, RejectOnSeen(c)
      PROVE  FALSE
  BY <1>6 DEF RejectOnSeen
<1>7. ASSUME NEW n \in Stocks, Reset(n)
      PROVE  Ledger!Next
  <2>1. UNCHANGED <<Demand, Outcomes>>
    BY <1>7, DemandKept DEF Reset, Outcomes, Outcome
  <2>2. Ledger!Restock(n)
    BY <1>7, <2>1 DEF Reset, Ledger!Restock, Demand, Outcomes
  <2> QED
    BY <2>2 DEF Ledger!Next
<1>8. CASE Crash
  <2> DEFINE O == {c \in Checkouts : InFlight(c)}
  <2>1. UNCHANGED <<Demand, inventory>>
    BY <1>8, DemandKept DEF Crash, rows
  <2>2. \A c \in O : Outcomes[c] = "open"
    BY OpenOutcome DEF InFlight
  <2>3. \A c \in Checkouts : Outcomes'[c] = IF c \in O THEN "failed" ELSE Outcomes[c]
    BY <1>8, OpenOutcome DEF Crash, InFlight, LedgerInv, Unanswered, Outcome
  <2>4. Outcomes' = [c \in Checkouts |-> IF c \in O THEN "failed" ELSE Outcomes[c]]
    BY <2>3, OpenOutcome
  <2>5. Ledger!Fail(O)
    BY <2>1, <2>2, <2>4 DEF Ledger!Fail, Demand, Outcomes
  <2>6. O \in SUBSET Checkouts
    OBVIOUS
  <2> QED
    BY <2>5, <2>6 DEF Ledger!Next
<1>9. CASE UNCHANGED vars
  BY <1>9, SilentStep DEF vars
<1> QED
  BY <1>1, <1>2, <1>3, <1>4, <1>5, <1>6, <1>7, <1>8, <1>9, PayRefines DEF Next, Advance

\* With atomic reservations concurrent checkouts are as good as one after the other:
\* an order takes all its lines at once, and is only refused for stock the shelf does
\* not hold (store.py:156-169).
THEOREM ShopServesAsLedger == Spec => ServesAsLedger
<1>1. Init => Ledger!Init
  <2> SUFFICES ASSUME Init PROVE Ledger!Init
    OBVIOUS
  <2>1. TypeOK
    BY InitInvariant DEF IInv
  <2>2. ASSUME NEW c \in Checkouts, NEW s \in Skus
        PROVE  Units(c, s) \in Nat
    <3>1. Len(OrderLines(c)) \in 0 .. Len(OrderLines(c))
      BY <2>1, OrderType
    <3> QED
      BY <2>1, <3>1, UnitsFinite
  <2>3. [c \in Checkouts |-> Outcome(c)] = [c \in Checkouts |-> "open"]
    BY DEF Init, Outcome
  <2> QED
    BY <2>2, <2>3 DEF Init, Ledger!Init
<1>2. IInv /\ LedgerInv /\ [Next]_vars
         => [Ledger!Next \/ ~Atomic]_<<Demand, inventory, Outcomes>>
  BY StepRefines
<1> QED
  BY <1>1, <1>2, InitInvariant, NextInvariant, InitLedger, NextLedger, PTL
     DEF Spec, ServesAsLedger, Ledger!vars, Demand, Outcomes
=============================================================================
