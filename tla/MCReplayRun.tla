---------------------------- MODULE MCReplayRun ----------------------------
(***************************************************************************)
(* ReplayRun on a small instance: two requests, at most one statement      *)
(* each, and a mock stream of one request with one statement.              *)
(***************************************************************************)
EXTENDS ReplayRun

MockTypes == <<"http.request", "postgres.query", "postgres.result", "http.response">>

\* The rows of a source but those whose kind, <<request, type>>, is in lost.
Rows(counts, answers, lost) ==
    {e \in SourceRows(counts, answers) : <<e.id[2], e.type>> \notin lost}

Sql(q) == {<<q, "postgres.query">>, <<q, "postgres.result">>}

\* A run over HTTP of a source with these counts, asked and answered alike in full.
Http(history, counts, lost, late) ==
    LET plain == [q \in Requests |-> "ok"]
    IN [target |-> "http", concurrency |-> 2, history |-> history, counts |-> counts,
        asked |-> plain, answers |-> plain, rows |-> Rows(counts, plain, lost \cup late),
        late |-> SourceRows(counts, plain) \ Rows(counts, plain, late),
        skew |-> 0, counter |-> 8, build |-> "same", faults |-> {}]

\* The same with other bodies.
Saying(asked, answers, s) ==
    [s EXCEPT !.asked = asked, !.answers = answers,
              !.rows = Rows(s.counts, answers, {})]

MCSetups ==
    {Http("finished", <<1, 1>>, {}, {}),
     [Http("finished", <<1, 0>>, {}, {}) EXCEPT !.concurrency = 1, !.faults = {"raise", "abort"}],
     [Http("finished", <<0, 1>>, {}, {}) EXCEPT !.build = "changed"],
     [Http("finished", <<1, 0>>, {}, {}) EXCEPT !.counter = 0, !.faults = {"raise", "lost"}],
     [Http("finished", <<1, 0>>, {}, {}) EXCEPT !.faults = {"background"}],
     [Http("finished", <<0, 1>>, {<<1, "http.response">>, <<2, "postgres.result">>}, {})
         EXCEPT !.concurrency = 1],
     [Http("live", <<1, 0>>, {}, {}) EXCEPT !.skew = -2, !.counter = 0],
     [Http("live", <<0, 1>>, {<<2, "http.request">>}, {}) EXCEPT !.faults = {"abort"}],
     Http("live", <<0, 1>>, {<<1, "http.request">>, <<2, "http.request">>}, {}),
     Http("late", <<1, 1>>, {}, Sql(2)),
     Saying(<<"ok", "empty">>, <<"text", "falsy">>, Http("finished", <<0, 1>>, {}, {})),
     [Saying(<<"text", "ok">>, <<"large", "empty">>, Http("finished", <<0, 1>>, {}, {}))
         EXCEPT !.concurrency = 1]}
    \cup {[Http("finished", counts, {}, {})
              EXCEPT !.target = "mock", !.history = h, !.faults = {"abort"},
                     !.rows = Rows(counts, [q \in Requests |-> "ok"], lost \cup late),
                     !.late = Rows(counts, [q \in Requests |-> "ok"], lost)
                              \ Rows(counts, [q \in Requests |-> "ok"], lost \cup late)] :
             h \in {"live", "finished", "late"}, counts \in {<<0, 0>>, <<1, 1>>},
             lost \in SUBSET {<<1, "http.request">>, <<2, "http.response">>},
             late \in {{}, Sql(1)}}

\* A whole recording whose second answer has no body.
EmptyAnswer == {Saying(<<"ok", "ok">>, <<"ok", "empty">>, Http("finished", <<1, 0>>, {}, {}))}
=============================================================================
