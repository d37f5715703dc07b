------------------------------ MODULE DemoShop ------------------------------
(***************************************************************************)
(* The recorded application, examples/demo_shop: checkouts that run        *)
(* concurrently against one database, in either reservation mode, and the  *)
(* reset that reseeds it.  A step runs from one await to the next.         *)
(*                                                                         *)
(* Both databases the shop is deployed on are modelled by the locks they   *)
(* take.  SQLite runs the SELECTs outside a transaction and gives the      *)
(* single write lock to the first INSERT, until the commit or rollback;    *)
(* waiting longer than the busy timeout is an error.  Postgres (READ       *)
(* COMMITTED) locks a row with its UPDATE, re-evaluates the WHERE after    *)
(* waiting, and ends a deadlock by aborting one of its transactions.       *)
(* On Postgres a reset that meets an open transaction is left out.         *)
(***************************************************************************)
EXTENDS Integers, Sequences

CONSTANTS
    Checkouts,      \* POST /api/v1/checkout requests, each sent at most once
    Skus,           \* the rows of inventory
    Database,       \* the resource the write lock of SQLite protects
    Free,           \* the holder of a lock nobody holds
    Unwritten,      \* the value of a row a transaction has not written
    Stocks,         \* the stocks a reset may ask for
    MaxResets,      \* bound on the resets
    Setups          \* [backend, reserve, order]: the deployment and what each checkout orders

Backends == {"sqlite", "postgres"}
Modes == {"read_then_write", "atomic"}
Lines == [sku : Skus, qty : Nat]
Resources == Skus \union {Database}

\* An order: whether its user exists, its lines, whether some SKU of it is
\* not in the inventory, and whether the gateway declines it (over the limit
\* or by its token).
Orders == [user : BOOLEAN, lines : Seq(Lines), unlisted : BOOLEAN, declined : BOOLEAN]

ASSUME ShopAssumption ==
    /\ Free \notin Checkouts
    /\ Database \notin Skus
    /\ Unwritten \notin Int
    /\ Stocks \subseteq Nat
    /\ MaxResets \in Nat
    /\ Setups \subseteq [backend : Backends, reserve : Modes, order : [Checkouts -> Orders]]

VARIABLES
    setup,          \* one of Setups, fixed
    stock,          \* the units per SKU of the last seeding
    inventory,      \* committed inventory.available
    orders,         \* committed orders.status ("none": no row)
    sold,           \* units per SKU in the committed order_items since the seeding
    pc,             \* where the handler of a checkout stands
    seen,           \* available_seen, one entry per priced line
    done,           \* lines the reservation has gone through
    short,          \* whether an UPDATE of the reservation matched no row
    writes,         \* uncommitted inventory values of the checkout's transaction
    taken,          \* units its uncommitted writes stand for
    lock,           \* the holder of each lock
    reply,          \* the response
    raced,          \* committed checkouts whose available_seen was stale by then
    resets

vars == <<setup, stock, inventory, orders, sold, pc, seen, done, short, writes,
          taken, lock, reply, raced, resets>>

rows == <<stock, inventory, orders, sold, raced>>

Replies == {"none", "unauthorized", "unknown_sku", "out_of_stock", "created",
            "declined", "error"}

TypeOK ==
    /\ setup \in Setups
    /\ stock \in Nat
    /\ inventory \in [Skus -> Nat]
    /\ orders \in [Checkouts -> {"none", "pending", "confirmed"}]
    /\ sold \in [Skus -> Nat]
    /\ pc \in [Checkouts -> {"idle", "pricing", "reserving", "done"}]
    /\ seen \in [Checkouts -> Seq(Nat)]
    /\ done \in [Checkouts -> Nat]
    /\ short \in [Checkouts -> BOOLEAN]
    /\ writes \in [Checkouts -> [Skus -> Nat \union {Unwritten}]]
    /\ taken \in [Checkouts -> [Skus -> Nat]]
    /\ lock \in [Resources -> Checkouts \union {Free}]
    /\ reply \in [Checkouts -> Replies]
    /\ raced \subseteq Checkouts
    /\ resets \in 0..MaxResets
-----------------------------------------------------------------------------
Order(c) == setup.order[c]
OrderLines(c) == setup.order[c].lines
Sqlite == setup.backend = "sqlite"
Atomic == setup.reserve = "atomic"

\* The lock an UPDATE of a SKU's row needs.
Guarding(s) == IF Sqlite THEN Database ELSE s

\* The value of a row as the checkout's own statements see it.
Visible(c, s) == IF writes[c][s] = Unwritten THEN inventory[s] ELSE writes[c][s]

Priced(c) == pc[c] = "pricing" /\ Len(seen[c]) = Len(OrderLines(c))
Reserving(c) == pc[c] = "reserving" /\ done[c] < Len(OrderLines(c))
Reserved(c) == pc[c] = "reserving" /\ done[c] = Len(OrderLines(c))

\* Whether availability, as read, covers every line.
Covered(c) == \A i \in 1..Len(OrderLines(c)) : seen[c][i] >= OrderLines(c)[i].qty

\* Whether some availability the checkout read has changed since.
Outdated(c) ==
    \E i \in 1..Len(OrderLines(c)) : seen[c][i] # inventory[OrderLines(c)[i].sku]

\* The line the next UPDATE is for, and whether its WHERE finds the row.
NextSku(c) == OrderLines(c)[done[c] + 1].sku
NextQty(c) == OrderLines(c)[done[c] + 1].qty
\* (mutant: the conditional UPDATE without its condition)
MatchesAnyStock(c) == TRUE
Matches(c) == Atomic => Visible(c, NextSku(c)) >= NextQty(c)

\* The next UPDATE waits for another checkout's transaction.
Waits(c, d) ==
    /\ c # d
    /\ Reserving(c)
    /\ Matches(c)
    /\ lock[Guarding(NextSku(c))] = d

\* Each of D waits for one of D, and is waited for by one.
Cyclic(D) ==
    \A d \in D : (\E e \in D : Waits(d, e)) /\ (\E e \in D : Waits(e, d))

Init ==
    /\ setup \in Setups
    /\ stock \in Stocks
    /\ inventory = [s \in Skus |-> stock]
    /\ orders = [c \in Checkouts |-> "none"]
    /\ sold = [s \in Skus |-> 0]
    /\ pc = [c \in Checkouts |-> "idle"]
    /\ seen = [c \in Checkouts |-> <<>>]
    /\ done = [c \in Checkouts |-> 0]
    /\ short = [c \in Checkouts |-> FALSE]
    /\ writes = [c \in Checkouts |-> [s \in Skus |-> Unwritten]]
    /\ taken = [c \in Checkouts |-> [s \in Skus |-> 0]]
    /\ lock = [r \in Resources |-> Free]
    /\ reply = [c \in Checkouts |-> "none"]
    /\ raced = {}
    /\ resets = 0
-----------------------------------------------------------------------------

\* The end of a checkout's transaction, either way.
EndTransaction(c) ==
    /\ writes' = [writes EXCEPT ![c] = [s \in Skus |-> Unwritten]]
    /\ taken' = [taken EXCEPT ![c] = [s \in Skus |-> 0]]
    /\ lock' = [r \in Resources |-> IF lock[r] = c THEN Free ELSE lock[r]]

Answer(c, r) ==
    /\ pc' = [pc EXCEPT ![c] = "done"]
    /\ reply' = [reply EXCEPT ![c] = r]
    /\ UNCHANGED <<setup, seen, done, short, resets>>

\* Mutant of Abort: the session is left open, with its locks.
AbortHoldingLocks(c, r) ==
    /\ Answer(c, r)
    /\ writes' = [writes EXCEPT ![c] = [s \in Skus |-> Unwritten]]
    /\ taken' = [taken EXCEPT ![c] = [s \in Skus |-> 0]]
    /\ UNCHANGED <<rows, lock>>

\* session.rollback, or leaving the session's block with an exception.
Abort(c, r) ==
    /\ Answer(c, r)
    /\ EndTransaction(c)
    /\ UNCHANGED rows

\* create_checkout and the SELECT of the user.
Receive(c) ==
    /\ pc[c] = "idle"
    /\ IF Order(c).user
       THEN /\ pc' = [pc EXCEPT ![c] = "pricing"]
            /\ UNCHANGED <<setup, rows, seen, done, short, writes, taken, lock,
                           reply, resets>>
       ELSE Abort(c, "unauthorized")

\* _price, one line: what its SELECT finds is committed.  The session does not
\* refresh the row of the line before, which it still holds.
Price(c) ==
    /\ pc[c] = "pricing"
    /\ Len(seen[c]) < Len(OrderLines(c))
    /\ LET n == Len(seen[c])
           s == OrderLines(c)[n + 1].sku
           held == n > 0 /\ OrderLines(c)[n].sku = s
       IN seen' = [seen EXCEPT ![c] = Append(@, IF held THEN seen[c][n] ELSE inventory[s])]
    /\ UNCHANGED <<setup, rows, pc, done, short, writes, taken, lock, reply, resets>>

RefuseUnlisted(c) ==
    /\ Priced(c)
    /\ Order(c).unlisted
    /\ Abort(c, "unknown_sku")

\* session.flush: the INSERTs of the order and its items open the transaction.
InsertOrder(c) ==
    /\ Priced(c)
    /\ ~Order(c).unlisted
    /\ Sqlite => lock[Database] = Free
    /\ lock' = IF Sqlite THEN [lock EXCEPT ![Database] = c] ELSE lock
    /\ pc' = [pc EXCEPT ![c] = "reserving"]
    /\ UNCHANGED <<setup, rows, seen, done, short, writes, taken, reply, resets>>

\* SQLite gives up waiting for the write lock: "database is locked".
BusyTimeout(c) ==
    /\ Priced(c)
    /\ ~Order(c).unlisted
    /\ Sqlite
    /\ lock[Database] # Free
    /\ Abort(c, "error")

\* _reserve_read_then_write: decided on what was seen, before the window.
RejectOnSeen(c) ==
    /\ pc[c] = "reserving"
    /\ ~Atomic
    /\ ~Covered(c)
    /\ Abort(c, "out_of_stock")

\* Mutant of Update: the conditional UPDATE writes what Python computed.
UpdateAbsolute(c) ==
    LET s == NextSku(c)
        q == NextQty(c)
    IN /\ Reserving(c)
       /\ Atomic \/ Covered(c)
       /\ done' = [done EXCEPT ![c] = @ + 1]
       /\ IF Matches(c)
          THEN /\ lock[Guarding(s)] \in {Free, c}
               /\ lock' = [lock EXCEPT ![Guarding(s)] = c]
               /\ writes' = [writes EXCEPT ![c][s] = seen[c][done[c] + 1] - q]
               /\ taken' = [taken EXCEPT ![c][s] = @ + q]
               /\ UNCHANGED short
          ELSE /\ short' = [short EXCEPT ![c] = TRUE]
               /\ UNCHANGED <<lock, writes, taken>>
       /\ UNCHANGED <<setup, rows, pc, seen, reply, resets>>

\* The UPDATE of one line: of _reserve_atomic, which goes on after a line that
\* matched no row, or of _reserve_read_then_write.
Update(c) ==
    LET s == NextSku(c)
        q == NextQty(c)
    IN /\ Reserving(c)
       /\ Atomic \/ Covered(c)
       /\ done' = [done EXCEPT ![c] = @ + 1]
       /\ IF Matches(c)
          THEN /\ lock[Guarding(s)] \in {Free, c}
               /\ lock' = [lock EXCEPT ![Guarding(s)] = c]
               /\ writes' = [writes EXCEPT ![c][s] =
                       IF Atomic THEN Visible(c, s) - q ELSE seen[c][done[c] + 1] - q]
               /\ taken' = [taken EXCEPT ![c][s] = @ + q]
               /\ UNCHANGED short
          ELSE /\ short' = [short EXCEPT ![c] = TRUE]
               /\ UNCHANGED <<lock, writes, taken>>
       /\ UNCHANGED <<setup, rows, pc, seen, reply, resets>>

RejectShort(c) ==
    /\ Reserved(c)
    /\ short[c]
    /\ Abort(c, "out_of_stock")

\* Mutant of Pay: a short line does not stop the sale of the others.
PayForWhatIsLeft(c) ==
    /\ Reserved(c)
    /\ inventory' = [s \in Skus |-> Visible(c, s)]
    /\ sold' = [s \in Skus |-> sold[s] + taken[c][s]]
    /\ orders' = [orders EXCEPT ![c] = IF Order(c).declined THEN "pending" ELSE "confirmed"]
    /\ raced' = IF Outdated(c) THEN raced \union {c} ELSE raced
    /\ Answer(c, IF Order(c).declined THEN "declined" ELSE "created")
    /\ EndTransaction(c)
    /\ UNCHANGED stock

\* _authorize and the commit.  A declined order is kept, pending, with its stock.
Pay(c) ==
    /\ Reserved(c)
    /\ ~Atomic => Covered(c)
    /\ ~short[c]
    /\ inventory' = [s \in Skus |-> Visible(c, s)]
    /\ sold' = [s \in Skus |-> sold[s] + taken[c][s]]
    /\ orders' = [orders EXCEPT ![c] = IF Order(c).declined THEN "pending" ELSE "confirmed"]
    /\ raced' = IF Outdated(c) THEN raced \union {c} ELSE raced
    /\ Answer(c, IF Order(c).declined THEN "declined" ELSE "created")
    /\ EndTransaction(c)
    /\ UNCHANGED stock

\* Postgres aborts a transaction of a cycle of waits.
Deadlocked(c) ==
    /\ \E D \in SUBSET Checkouts : c \in D /\ Cyclic(D)
    /\ Abort(c, "error")

\* Mutant of Reset: the stock is refilled, the orders stay.
ResetInventory(n) ==
    /\ resets < MaxResets
    /\ \A c \in Checkouts : pc[c] # "reserving"
    /\ resets' = resets + 1
    /\ stock' = n
    /\ inventory' = [s \in Skus |-> n]
    /\ UNCHANGED <<setup, orders, sold, raced, pc, seen, done, short, writes, taken,
                   lock, reply>>

\* reset: wiped and reseeded in one transaction.
Reset(n) ==
    /\ resets < MaxResets
    /\ \A c \in Checkouts : pc[c] # "reserving"
    /\ resets' = resets + 1
    /\ stock' = n
    /\ inventory' = [s \in Skus |-> n]
    /\ orders' = [c \in Checkouts |-> "none"]
    /\ sold' = [s \in Skus |-> 0]
    /\ raced' = {}
    /\ UNCHANGED <<setup, pc, seen, done, short, writes, taken, lock, reply>>

\* The process dies: the database rolls back what was open.  Started again, the
\* application seeds nothing, for the inventory is there.
InFlight(c) == pc[c] \in {"pricing", "reserving"}
Crash ==
    /\ \E c \in Checkouts : InFlight(c)
    /\ pc' = [c \in Checkouts |-> IF InFlight(c) THEN "done" ELSE pc[c]]
    /\ writes' = [c \in Checkouts |-> [s \in Skus |-> Unwritten]]
    /\ taken' = [c \in Checkouts |-> [s \in Skus |-> 0]]
    /\ lock' = [r \in Resources |-> Free]
    /\ UNCHANGED <<setup, rows, seen, done, short, reply, resets>>

\* What the handler of a checkout does next.
Advance(c) ==
    \/ Price(c) \/ RefuseUnlisted(c) \/ InsertOrder(c)
    \/ RejectOnSeen(c) \/ Update(c) \/ RejectShort(c) \/ Pay(c)

Next ==
    \/ \E c \in Checkouts : Receive(c) \/ Advance(c) \/ BusyTimeout(c) \/ Deadlocked(c)
    \/ \E n \in Stocks : Reset(n)
    \/ Crash

Spec == Init /\ [][Next]_vars

\* The event loop runs every ready handler; Postgres resolves deadlocks.
FairSpec ==
    /\ Spec
    /\ \A c \in Checkouts : WF_vars(Advance(c)) /\ WF_vars(Deadlocked(c))
-----------------------------------------------------------------------------
(* Properties.                                                             *)

\* Every unit is on the shelf or in a committed order.
Balanced == \A s \in Skus : inventory[s] + sold[s] = stock

\* With atomic reservations the shop never oversells and loses no unit, whatever
\* the checkouts, declined payments, deadlocks, resets and crashes in between
\* (store.py:17-19).
Conserved == Atomic => Balanced

Repeats(c) == \E i, j \in 1..Len(OrderLines(c)) :
                 i # j /\ OrderLines(c)[i].sku = OrderLines(c)[j].sku

\* Without them it oversells only through a race: some committed checkout wrote a
\* value computed from an availability that was no longer current when it
\* committed (store.py:12-15), or through an order with two lines of one SKU,
\* each of which is written from the same availability.
OversoldByRace ==
    \/ Balanced
    \/ raced # {}
    \/ \E c \in Checkouts : orders[c] # "none" /\ Repeats(c)

\* The next statement of a checkout needs a lock that somebody else holds.
Blocked(c) ==
    \/ Priced(c) /\ ~Order(c).unlisted /\ Sqlite /\ lock[Database] # Free
    \/ Reserving(c) /\ (Atomic \/ Covered(c)) /\ \E d \in Checkouts : Waits(c, d)

\* The checkouts never wait for one that is not there any more: if all in flight
\* are blocked, some of them wait for each other in a cycle, which Postgres breaks
\* and which SQLite, with its one lock, cannot have.  Every way out of a
\* transaction gives its locks back (store.py:94-110; the session's block,
\* app.py:129-136).
NoEndlessWait ==
    (\E c \in Checkouts : InFlight(c)) /\ (\A c \in Checkouts : InFlight(c) => Blocked(c))
        => ~Sqlite /\ \E D \in SUBSET Checkouts : D # {} /\ Cyclic(D)

\* Once received, a checkout is answered unless the process dies: no lock is left
\* behind, no wait is for ever.
CheckoutEnds == \A c \in Checkouts : pc[c] = "pricing" ~> pc[c] = "done"
=============================================================================
