---------------------------- MODULE MCEventOrder ----------------------------
(***************************************************************************)
(* EventOrder on a small instance: two concurrent requests, two statements *)
(* between them.                                                           *)
(***************************************************************************)
EXTENDS EventOrder

\* Every request has its own correlation id, or all share one a client sent.
Own == [q \in Requests |-> q]
OneForAll == [q \in Requests |-> "shared"]

\* The app's clock is behind the proxy's by more than a step, level, or ahead;
\* clocks may stand still or not.
MCSettings ==
    {[skew |-> 0,  tick |-> 1, corr |-> Own],
     [skew |-> 0,  tick |-> 1, corr |-> OneForAll],
     [skew |-> 1,  tick |-> 0, corr |-> Own],
     [skew |-> -2, tick |-> 1, corr |-> Own],
     [skew |-> -2, tick |-> 1, corr |-> OneForAll]}

Symmetry == Permutations(Requests)
=============================================================================
