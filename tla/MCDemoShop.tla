----------------------------- MODULE MCDemoShop -----------------------------
(***************************************************************************)
(* DemoShop on small instances: three checkouts, two SKUs.                 *)
(***************************************************************************)
EXTENDS ShopRefinement, TLC

CONSTANTS c1, c2, c3, s1, s2

Line(s, q) == [sku |-> s, qty |-> q]
Buys(lines) == [user |-> TRUE, lines |-> lines, unlisted |-> FALSE, declined |-> FALSE]

\* Two orders of both SKUs in opposite order, next to one that competes for a SKU
\* or is refused.
Crossing ==
    c1 :> Buys(<<Line(s1, 1), Line(s2, 1)>>) @@
    c2 :> Buys(<<Line(s2, 1), Line(s1, 1)>>) @@
    c3 :> [Buys(<<Line(s1, 1)>>) EXCEPT !.unlisted = TRUE]
Contended == [Crossing EXCEPT ![c3] = Buys(<<Line(s1, 1)>>)]

\* A declined payment next to a repeated SKU and an unknown user; several units
\* at once next to an order of both SKUs.
Repeated ==
    c1 :> [Buys(<<Line(s1, 1), Line(s2, 1)>>) EXCEPT !.declined = TRUE] @@
    c2 :> Buys(<<Line(s1, 1), Line(s1, 1)>>) @@
    c3 :> [Buys(<<>>) EXCEPT !.user = FALSE]
Bulk ==
    c1 :> Buys(<<Line(s1, 2)>>) @@
    c2 :> Buys(<<Line(s2, 1), Line(s1, 1)>>) @@
    c3 :> [Buys(<<>>) EXCEPT !.declined = TRUE]

Deployed(backend, reserve, order) == [backend |-> backend, reserve |-> reserve, order |-> order]

MCSetups ==
    {Deployed("postgres", "atomic", Contended), Deployed("postgres", "atomic", Repeated),
     Deployed("sqlite", "atomic", Bulk),
     Deployed("sqlite", "read_then_write", Crossing),
     Deployed("sqlite", "read_then_write", Repeated),
     Deployed("postgres", "read_then_write", Bulk)}
=============================================================================
