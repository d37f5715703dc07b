----------------------------- MODULE ShopLedger -----------------------------
(***************************************************************************)
(* What a shop promises, without transactions: an order is served whole,   *)
(* refused because the shelf does not hold it, or fails without a trace.   *)
(***************************************************************************)
EXTENDS Integers

CONSTANTS Orders, Skus, Stocks

VARIABLES
    demand,         \* units of each SKU an order asks for, fixed
    shelf,
    outcome         \* of each order

vars == <<demand, shelf, outcome>>

Init ==
    /\ demand \in [Orders -> [Skus -> Nat]]
    /\ shelf \in [Skus -> Stocks]
    /\ outcome = [o \in Orders |-> "open"]

Holds(o) == \A s \in Skus : shelf[s] >= demand[o][s]

Serve(o) ==
    /\ outcome[o] = "open"
    /\ Holds(o)
    /\ shelf' = [s \in Skus |-> shelf[s] - demand[o][s]]
    /\ outcome' = [outcome EXCEPT ![o] = "served"]
    /\ UNCHANGED demand

Refuse(o) ==
    /\ outcome[o] = "open"
    /\ ~Holds(o)
    /\ outcome' = [outcome EXCEPT ![o] = "refused"]
    /\ UNCHANGED <<demand, shelf>>

Fail(O) ==
    /\ \A o \in O : outcome[o] = "open"
    /\ outcome' = [o \in Orders |-> IF o \in O THEN "failed" ELSE outcome[o]]
    /\ UNCHANGED <<demand, shelf>>

Restock(n) ==
    /\ shelf' = [s \in Skus |-> n]
    /\ UNCHANGED <<demand, outcome>>

Next ==
    \/ \E o \in Orders : Serve(o) \/ Refuse(o)
    \/ \E O \in SUBSET Orders : Fail(O)
    \/ \E n \in Stocks : Restock(n)
=============================================================================
