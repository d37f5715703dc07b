--------------------------- MODULE ShopRefinement ---------------------------
(***************************************************************************)
(* With atomic reservations the demo shop implements ShopLedger.           *)
(***************************************************************************)
EXTENDS DemoShop, FiniteSets

\* The units of a SKU, one by one, in the first n lines of an order.
UnitsIn(c, s, n) ==
    UNION {{i} \X (1 .. OrderLines(c)[i].qty) :
              i \in {j \in 1 .. n : OrderLines(c)[j].sku = s}}

\* How many units of a SKU an order asks for.
Units(c, s) == Cardinality(UnitsIn(c, s, Len(OrderLines(c))))

Outcome(c) ==
    CASE reply[c] \in {"created", "declined"} -> "served"
      [] reply[c] = "out_of_stock"            -> "refused"
      [] pc[c] # "done"                       -> "open"
      [] OTHER                                -> "failed"

Ledger == INSTANCE ShopLedger WITH
    Orders  <- Checkouts,
    demand  <- [c \in Checkouts |-> [s \in Skus |-> Units(c, s)]],
    shelf   <- inventory,
    outcome <- [c \in Checkouts |-> Outcome(c)]

\* Concurrent checkouts with atomic reservations are as good as one after the
\* other: an order takes all its lines at once, and "out_of_stock" is only ever
\* answered when the committed stock does not hold the order (store.py:156-169).
ServesAsLedger == Ledger!Init /\ [][Ledger!Next \/ ~Atomic]_(Ledger!vars)
=============================================================================
