----------------------------- MODULE MCPortable -----------------------------
(***************************************************************************)
(* Portable on a small instance: a home and an away instance, two imports. *)
(***************************************************************************)
EXTENDS Portable

Event(k, type, parent, payload) ==
    [id |-> <<k>>, corr |-> "c1", ts |-> k, seq |-> k - 1, type |-> type, parent |-> parent,
     payload |-> payload]

Sent(bearer, id) ==
    <<"headers", "authorization">> :> bearer @@ <<"headers", "x-request-id">> :> id @@
    <<"body", "token", "value">> :> bearer @@ <<"body", "order">> :> id
Row == <<"rows", "1", "id">> :> "u1"

\* A flow as the mock plugin yields them: a request with a statement, and one that
\* refers to a value of the first.
TwoRequests ==
    <<Event(1, "http.request", NoParent, Sent("secret", "u1")),
      Event(2, "postgres.query", <<1>>, Row),
      Event(3, "http.request", NoParent, Sent("other secret", "u2") @@ <<"body", "of">> :> "u1")>>

\* A file of a newer format, one of an older format written without redaction, and
\* one of a live capture that was not finished: two requests whose rows have the
\* numbers their producers gave them, one of them twice.
File(version, schema, events) ==
    [version |-> version, schema |-> schema, name |-> 0, events |-> events]
Unredacted ==
    <<[Event(1, "http.request", NoParent, Sent("secret", "u1")) EXCEPT !.id = <<0, 1>>]>>
Live(k, corr, ts, seq, type) ==
    [id |-> <<0, k>>, corr |-> corr, ts |-> ts, seq |-> seq, type |-> type,
     parent |-> NoParent, payload |-> Row]
Unfinished ==
    <<Live(1, "c2", 2, 0, "http.request"), Live(2, "c1", 3, 0, "postgres.query"),
      Live(3, "c1", 1, 1, "http.request")>>

MCStreams == {TwoRequests}
MCForeign == {File(2, 1, <<>>), File(0, 1, Unredacted), File(1, 1, Unfinished)}
MCSubstitutions ==
    {[mapping |-> <<>>, auto |-> TRUE],
     [mapping |-> "u1" :> "${uuid}" @@ "secret" :> "mapped", auto |-> TRUE],
     [mapping |-> "u2" :> "mapped", auto |-> FALSE]}

ImportSymmetry == Permutations(Imports)
=============================================================================
