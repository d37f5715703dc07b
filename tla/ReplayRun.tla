----------------------------- MODULE ReplayRun -----------------------------
(***************************************************************************)
(* One call of run_replay (replay/runner.py): the source is read, a row is *)
(* opened for the run, its requests are sent to the target in batches      *)
(* (replay/engine.py, replay/http_target.py), what came back is appended,  *)
(* the run is finished, linked to its source and compared.  A live target  *)
(* is an app with the agent (agent/agent.py), which streams its SQL into   *)
(* the same row while the run is under way; the mock target is a fixed     *)
(* stream (plugins/mock_capture/fixtures.py).                              *)
(***************************************************************************)
EXTENDS Comparison

CONSTANTS
    N,             \* how many requests the source recorded
    MaxSql,        \* the most statements a request runs (a bound)
    Canonical,     \* the types of the mock target's stream
    Setups         \* the runs to consider

Requests == 1 .. N

VARIABLES
    setup,         \* the element of Setups
    source,        \* get_recording: the events of the source, by sequence
    now,           \* the time at the runner
    run,           \* where run_replay stands
    sent,          \* sent[q]: HttpTarget.send of q: "idle", "open", "answered", "failed"
    replayed,      \* the events the runner holds, not yet appended
    sequence,      \* HttpTarget._sequence
    app,           \* app[q]: the target's task for q
    ran,           \* ran[q]: the statements it ran
    queue,         \* the target's queue of SQL events
    outbox,        \* outbox[q]: what q's flush carries
    rows,          \* the event rows of the run
    status,        \* the status of the run's row
    final,         \* the events finish_recording selected and correlated
    links,         \* source_event_id of the rows
    results,       \* the rows of the comparison
    faulted        \* did a fault or a timeout happen?

config == <<setup, source>>
appVars == <<app, ran, queue, outbox>>
vars == <<config, now, run, sent, replayed, sequence, appVars, rows, status, final,
          links, results, faulted>>

Stages == {"called", "replaying", "replayed", "finishing", "completing", "linking",
           "comparing", "done", "refused", "aborted"}

Event(origin, q, type, n, ts, seq, parent, shape) ==
    [id |-> <<origin, q, type, n>>, corr |-> <<origin, q>>, ts |-> ts, seq |-> seq,
     type |-> type, parent |-> parent, payload |-> [shape |-> shape, fresh |-> origin]]

-----------------------------------------------------------------------------
(* The bodies of requests and answers, by what is done to them: "ok" is a    *)
(* JSON value, "falsy" one that Python takes for false ({}, [], 0), "text"    *)
(* anything else, a form for one, "large" more than CAPTURE_MAX_BODY_BYTES.   *)

Bodies == {"ok", "falsy", "text", "large", "empty"}

\* ReverseProxy._decode: what the source holds of a body.
Captured(body) ==
    CASE body = "empty" -> "null" [] body = "large" -> "note" [] OTHER -> body

\* HttpTarget.send: what is sent for a recorded body, json= or nothing.
ReSent(recorded) ==
    CASE recorded = "ok" -> "ok" [] recorded \in {"null", "falsy"} -> "empty"
      [] OTHER -> "encoded"

\* _decode of the HttpTarget: what the run holds of an answer's body.
Received(body) == IF body = "empty" THEN "blank" ELSE body

-----------------------------------------------------------------------------
(* The source: N requests that were in flight together, counts[q] statements *)
(* each, the last request's first, with their producers' own numbers.        *)

SourceRows(counts, answers) ==
    LET earlier(q)  == Cardinality({p \in Requests \X (1 .. MaxSql) :
                                       p[1] > q /\ p[2] <= counts[p[1]]})
        seq(q, n)   == 2 * (earlier(q) + n - 1)
        request(q)  == Event("source", q, "http.request", 0, q, q - 1, NoParent, "ok")
        response(q) == Event("source", q, "http.response", 0, 100 + q, N + q - 1,
                             request(q).id, Captured(answers[q]))
        query(q, n) == Event("source", q, "postgres.query", n, N + 1 + seq(q, n), seq(q, n),
                             NoParent, "ok")
        result(q, n) == Event("source", q, "postgres.result", n, N + 2 + seq(q, n),
                              seq(q, n) + 1, query(q, n).id, "ok")
    IN UNION {{request(q), response(q)} \cup
              UNION {{query(q, n), result(q, n)} : n \in 1 .. counts[q]} : q \in Requests}

\* A run: its target and concurrency; how many statements the source's requests
\* ran, what they asked and what the app answered, which of their rows the
\* source got before it was read or finished, and which came late, after it was
\* finished; how far the target's clock is from the runner's, where its SQL
\* plugin's process-wide counter stands, whether it does what the recorded app
\* did, and the faults that may strike.  The mock stream begins with its request.
ASSUME ReplayAssumption ==
    /\ N \in Nat \ {0} /\ MaxSql \in Nat
    /\ Canonical \in Seq(STRING) /\ Canonical # <<>> /\ Canonical[1] = "http.request"
    /\ \A s \in Setups :
          /\ s.target \in {"mock", "http"} /\ s.concurrency \in Nat \ {0}
          /\ s.history \in {"live", "finished", "late"}
          /\ s.counts \in [Requests -> 0 .. MaxSql]
          /\ s.asked \in [Requests -> Bodies] /\ s.answers \in [Requests -> Bodies]
          /\ s.rows \subseteq SourceRows(s.counts, s.answers)
          /\ s.late \subseteq SourceRows(s.counts, s.answers) \ s.rows
          /\ s.skew \in Int /\ s.counter \in Nat /\ s.build \in {"same", "changed"}
          /\ s.faults \subseteq {"raise", "lost", "abort", "background"}

\* get_recording of a finished recording to which the rows L came late.  A number
\* that finish_recording gave can be a late row's own, of either producer; the
\* database returns rows of one number in any order: place says which.
WithLate(finished, L) ==
    LET S == Range(finished) \cup L
        kinds == {"finished", "http", "sql"}
        isHttp(e) == e.type \in {"http.request", "http.response"}
        kind(e)   == IF e \notin L THEN "finished" ELSE IF isHttp(e) THEN "http" ELSE "sql"
        ordered(place) == Ranked([e \in S |-> Cardinality({f \in S :
                    \/ f.seq < e.seq
                    \/ f.seq = e.seq /\ (f = e \/ place[e.seq][kind(f)] < place[e.seq][kind(e)])})])
    IN {ordered(place) : place \in [{e.seq : e \in L} -> Injection(kinds, 1 .. 3)]}

\* How many statements the recorded request q ran.
Recorded(q) ==
    Cardinality({e \in Range(source) :
                    e.corr = <<"source", q>> /\ e.type = "postgres.query"})

\* The requests the source holds, and so the ones that are sent again; by their
\* sequences they are in the order of their numbers.
Resent == {q \in Requests : \E e \in Range(source) : e.id = <<"source", q, "http.request", 0>>}

\* The target does for q what the recorded app did, for it is asked the same.
AsBefore(q) == setup.build = "same" /\ ReSent(Captured(setup.asked[q])) = setup.asked[q]

Init ==
    /\ setup \in Setups
    /\ \E order \in RowOrders(setup.rows) :
          \/ setup.history = "live"     /\ source = order
          \/ setup.history = "finished" /\ source = Correlated(order)
          \/ setup.history = "late"     /\ source \in WithLate(Correlated(order), setup.late)
    /\ now = 0 /\ run = "called"
    /\ sent = [q \in Requests |-> "idle"]
    /\ replayed = <<>> /\ sequence = 0
    /\ app = [q \in Requests |-> "idle"]
    /\ ran = [q \in Requests |-> 0]
    /\ queue = <<>>
    /\ outbox = [q \in Requests |-> {}]
    /\ rows = {} /\ status = "absent" /\ final = <<>>
    /\ links = {} /\ results = <<>> /\ faulted = FALSE

-----------------------------------------------------------------------------
(* run_replay, up to the requests *)

\* get_recording has read the source, whatever its status; start_recording.
Open ==
    /\ run = "called"
    /\ run' = "replaying"
    /\ status' = "recording"
    /\ UNCHANGED <<config, now, sent, replayed, sequence, appVars, rows, final, links,
                   results, faulted>>

\* Nothing to replay is a ReplayError: fail_recording.  The mock target needs no
\* request.
Refuse ==
    /\ run = "replaying"
    /\ source = <<>> \/ (setup.target = "http" /\ Resent = {})
    /\ run' = "refused"
    /\ status' = "failed"
    /\ UNCHANGED <<config, now, sent, replayed, sequence, appVars, rows, final, links,
                   results, faulted>>

\* Mutant of MockStandIns: the stand-in is the first of the original's type.
MockStandInsByType ==
    LET standIn(e) == CHOOSE k \in DOMAIN Canonical : Canonical[k] = e.type
        matched    == Pick(source, {i \in DOMAIN source : source[i].type \in Range(Canonical)})
    IN [i \in DOMAIN matched |-> standIn(matched[i])]

\* _replay_mock: the canonical step with the sequence of each original, if any.
MockStandIns ==
    LET matched == Pick(source, {i \in DOMAIN source : source[i].seq + 1 \in DOMAIN Canonical})
    IN [i \in DOMAIN matched |-> matched[i].seq + 1]

CanonicalEvent(k) ==
    Event("run", 1, Canonical[k], k, k, k - 1,
          CASE Canonical[k] = "http.request"    -> NoParent
            [] Canonical[k] = "postgres.result" -> <<"run", 1, Canonical[k - 1], k - 1>>
            [] OTHER                            -> <<"run", 1, Canonical[1], 1>>,
          "ok")

ReplayMock ==
    /\ run = "replaying" /\ setup.target = "mock" /\ source # <<>>
    /\ replayed' = [i \in DOMAIN MockStandIns |-> CanonicalEvent(MockStandIns[i])]
    /\ run' = "replayed"
    /\ UNCHANGED <<config, now, sent, sequence, appVars, rows, status, final, links,
                   results, faulted>>

-----------------------------------------------------------------------------
(* HttpTarget *)

Tick(d) == now' = now + d

\* Mutant of Answered: a request that failed does not count.
AnsweredWell(q) == sent[q] = "answered"

Answered(q) == sent[q] \in {"answered", "failed"}

\* _batches: which batch q is sent in.
Batch(q) == Cardinality({p \in Resent : p < q}) \div setup.concurrency

\* Mutant of Send: a batch is sent in any order.
SendUnordered(q) ==
    /\ run = "replaying" /\ setup.target = "http"
    /\ q \in Resent /\ sent[q] = "idle"
    /\ \A p \in Resent : Batch(p) < Batch(q) => Answered(p)
    /\ replayed' = Append(replayed,
           Event("run", q, "http.request", 0, now, sequence, NoParent, "ok"))
    /\ sequence' = sequence + 1
    /\ sent' = [sent EXCEPT ![q] = "open"]
    /\ Tick(1)
    /\ UNCHANGED <<config, run, appVars, rows, status, final, links, results, faulted>>

\* HttpTarget.send, up to the wait: a batch starts when the one before it has
\* been gathered, and its requests in their order.
Send(q) ==
    /\ run = "replaying" /\ setup.target = "http"
    /\ q \in Resent /\ sent[q] = "idle"
    /\ \A p \in Resent : p < q => sent[p] # "idle"
    /\ \A p \in Resent : Batch(p) < Batch(q) => Answered(p)
    /\ replayed' = Append(replayed,
           Event("run", q, "http.request", 0, now, sequence, NoParent, "ok"))
    /\ sequence' = sequence + 1
    /\ sent' = [sent EXCEPT ![q] = "open"]
    /\ Tick(1)
    /\ UNCHANGED <<config, run, appVars, rows, status, final, links, results, faulted>>

\* The rest of send: the response's event.
Receive(q, shape, outcome) ==
    /\ run = "replaying" /\ sent[q] = "open"
    /\ replayed' = Append(replayed,
           Event("run", q, "http.response", 0, now, sequence,
                 <<"run", q, "http.request", 0>>, shape))
    /\ sequence' = sequence + 1
    /\ sent' = [sent EXCEPT ![q] = outcome]
    /\ Tick(1)

\* The target's answer: what the app answered before, something else, or a 500.
Answer(q) ==
    /\ app[q] \in {"replied", "raised"}
    /\ \E shape \in {Received(setup.answers[q]), "other"} :
          /\ AsBefore(q) /\ app[q] = "replied" => shape = Received(setup.answers[q])
          /\ app[q] = "raised" => shape = "other"
          /\ Receive(q, shape, "answered")
    /\ UNCHANGED <<config, run, appVars, rows, status, final, links, results, faulted>>

\* httpx.RequestError, for instance a timeout of one read or write: the app may
\* be anywhere.
GiveUp(q) ==
    /\ Receive(q, "error", "failed")
    /\ faulted' = TRUE
    /\ UNCHANGED <<config, run, appVars, rows, status, final, links, results>>

-----------------------------------------------------------------------------
(* The target *)

runner == <<config, run, sent, replayed, sequence, status, final, links, results>>

Arrive(q) ==
    /\ app[q] = "idle" /\ sent[q] # "idle"
    /\ app' = [app EXCEPT ![q] = "running"]
    /\ UNCHANGED <<runner, now, ran, queue, outbox, rows, faulted>>

\* A statement: two events from one listener, numbered by the plugin's counter.
\* An app may run some in the background, after its last body message; no rerun
\* is as the first one then.
RunSql(q) ==
    /\ \/ app[q] = "running"
       \/ "background" \in setup.faults /\ app[q] # "idle"
    /\ ran[q] < IF AsBefore(q) THEN Recorded(q) ELSE MaxSql
    /\ \E shape \in {"ok", "other"} :
          /\ AsBefore(q) => shape = "ok"
          /\ LET n     == ran[q] + 1
                 done  == {p \in Requests \X (1 .. MaxSql) : p[2] <= ran[p[1]]}
                 seq   == setup.counter + 2 * Cardinality(done)
                 query == Event("run", q, "postgres.query", n, now + setup.skew, seq,
                                NoParent, "ok")
             IN queue' = queue \o <<query,
                     Event("run", q, "postgres.result", n, now + setup.skew + 1, seq + 1,
                           query.id, shape)>>
    /\ ran' = [ran EXCEPT ![q] = @ + 1]
    /\ faulted' = (faulted \/ app[q] # "running")
    /\ Tick(2)
    /\ UNCHANGED <<runner, app, outbox, rows>>

\* Mutant of Respond: the drain takes one event instead of the whole queue.
RespondTakingOne(q) ==
    LET count == IF queue = <<>> THEN 0 ELSE 1
    IN  /\ app[q] = "running"
        /\ "background" \in setup.faults \/ (AsBefore(q) => ran[q] = Recorded(q))
        /\ outbox' = [outbox EXCEPT ![q] = Range(SubSeq(queue, 1, count))]
        /\ queue' = SubSeq(queue, 1 + count, Len(queue))
        /\ app' = [app EXCEPT ![q] = IF count = 0 THEN "replied" ELSE "posting"]
        /\ faulted' = (faulted \/ (AsBefore(q) /\ ran[q] # Recorded(q)))
        /\ UNCHANGED <<runner, now, ran, rows>>

\* The response is ready: the agent drains the queue, and posts before it answers.
Respond(q) ==
    /\ app[q] = "running"
    /\ "background" \in setup.faults \/ (AsBefore(q) => ran[q] = Recorded(q))
    /\ outbox' = [outbox EXCEPT ![q] = Range(queue)]
    /\ queue' = <<>>
    /\ app' = [app EXCEPT ![q] = IF queue = <<>> THEN "replied" ELSE "posting"]
    /\ faulted' = (faulted \/ (AsBefore(q) /\ ran[q] # Recorded(q)))
    /\ UNCHANGED <<runner, now, ran, rows>>

AppRaises(q) ==
    /\ "raise" \in setup.faults
    /\ app[q] = "running"
    /\ app' = [app EXCEPT ![q] = "raised"]
    /\ faulted' = TRUE
    /\ UNCHANGED <<runner, now, ran, queue, outbox, rows>>

\* ingest_events: the status is checked in one transaction ...
IngestAdmit(q) ==
    /\ app[q] = "posting"
    /\ app' = [app EXCEPT ![q] = IF status = "recording" THEN "admitted" ELSE "replied"]
    /\ UNCHANGED <<runner, now, ran, queue, outbox, rows, faulted>>

\* ... and the batch is appended in the next.
IngestAppend(q) ==
    /\ app[q] = "admitted"
    /\ rows' = rows \cup outbox[q]
    /\ app' = [app EXCEPT ![q] = "replied"]
    /\ UNCHANGED <<runner, now, ran, queue, outbox, faulted>>

\* The post ends in an httpx.HTTPError or a 500: the agent answers without it.
FlushFails(q) ==
    /\ "lost" \in setup.faults
    /\ app[q] \in {"posting", "admitted"}
    /\ app' = [app EXCEPT ![q] = "replied"]
    /\ faulted' = TRUE
    /\ UNCHANGED <<runner, now, ran, queue, outbox, rows>>

-----------------------------------------------------------------------------
(* run_replay, after the requests *)

Gathered ==
    /\ run = "replaying" /\ setup.target = "http" /\ Resent # {}
    /\ \A q \in Resent : Answered(q)
    /\ run' = "replayed"
    /\ UNCHANGED <<config, now, sent, replayed, sequence, appVars, rows, status, final,
                   links, results, faulted>>

\* Mutant of AppendReplayed: only the responses are stored.
AppendResponses ==
    /\ run = "replayed"
    /\ run' = "finishing"
    /\ rows' = rows \cup {e \in Range(replayed) : e.type = "http.response"}
    /\ UNCHANGED <<config, now, sent, replayed, sequence, appVars, status, final, links,
                   results, faulted>>

\* append_events: an id that occurs twice violates the primary key, and the
\* exception leaves run_replay.
AppendReplayed ==
    /\ run = "replayed"
    /\ IF IsInjective(replayed)
       THEN rows' = rows \cup Range(replayed) /\ run' = "finishing"
       ELSE run' = "aborted" /\ UNCHANGED rows
    /\ UNCHANGED <<config, now, sent, replayed, sequence, appVars, status, final, links,
                   results, faulted>>

\* finish_recording selects and correlates the rows ...
FinishRead ==
    /\ run = "finishing"
    /\ \E order \in RowOrders(rows) : final' = Correlated(order)
    /\ run' = "completing"
    /\ UNCHANGED <<config, now, sent, replayed, sequence, appVars, rows, status, links,
                   results, faulted>>

\* ... and commits their order; rows that came since keep their own numbers.
FinishCommit ==
    /\ run = "completing"
    /\ rows' = Range(final) \cup {e \in rows : \A f \in Range(final) : f.id # e.id}
    /\ status' = "completed"
    /\ run' = "linking"
    /\ UNCHANGED <<config, now, sent, replayed, sequence, appVars, final, links, results,
                   faulted>>

\* link_streams, link_replay_events.
LinkEvents ==
    /\ run = "linking"
    /\ links' = LinkStreams(source, final)
    /\ run' = "comparing"
    /\ UNCHANGED <<config, now, sent, replayed, sequence, appVars, rows, status, final,
                   results, faulted>>

\* compare_run, save_comparison.
Compare ==
    /\ run = "comparing"
    /\ results' = CompareRun(source, final, links)
    /\ run' = "done"
    /\ UNCHANGED <<config, now, sent, replayed, sequence, appVars, rows, status, final,
                   links, faulted>>

\* Any other exception (a storage error, a URL httpx refuses) or the end of the
\* process: the row stays as it is.
Abort ==
    /\ "abort" \in setup.faults
    /\ run \in {"replaying", "replayed", "finishing", "completing", "linking", "comparing"}
    /\ run' = "aborted"
    /\ faulted' = TRUE
    /\ UNCHANGED <<config, now, sent, replayed, sequence, appVars, rows, status, final,
                   links, results>>

-----------------------------------------------------------------------------

RunnerStep ==
    \/ Open \/ Refuse \/ ReplayMock \/ Gathered \/ AppendReplayed
    \/ FinishRead \/ FinishCommit \/ LinkEvents \/ Compare

TargetStep(q) ==
    \/ Arrive(q) \/ RunSql(q) \/ Respond(q) \/ AppRaises(q)
    \/ IngestAdmit(q) \/ IngestAppend(q) \/ FlushFails(q)

Next ==
    \/ RunnerStep \/ Abort
    \/ \E q \in Requests : Send(q) \/ Answer(q) \/ GiveUp(q) \/ TargetStep(q)

\* A runner that does not wait for its requests goes on to another stage.
Proceeds ==
    /\ \/ run \in {"called", "replayed", "finishing", "completing", "linking", "comparing"}
       \/ run = "replaying" /\ setup.target = "mock"
       \/ run = "replaying" /\ \A q \in Resent : Answered(q)
    /\ run' \in Stages \ {run}

\* The runner's event loop runs; the target owes nothing, and httpx bounds each
\* read and write, not the request.  (Fairness of Proceeds is that of RunnerStep,
\* stated without recomputing what a step computes.)
Spec ==
    /\ Init /\ [][Next]_vars
    /\ WF_run(Proceeds)
    /\ \A q \in Requests : WF_vars(Send(q))

-----------------------------------------------------------------------------
(* Properties *)

Ids == {e.id : e \in rows}

TypeOK ==
    /\ run \in Stages /\ status \in {"absent", "recording", "completed", "failed"}
    /\ sent \in [Requests -> {"idle", "open", "answered", "failed"}]
    /\ app \in [Requests -> {"idle", "running", "posting", "admitted", "replied", "raised"}]
    /\ \A e \in rows : /\ e.seq \in Nat
                       /\ setup.target = "http" => e.parent \in Ids \cup {NoParent}
    /\ \A k \in DOMAIN results :
          results[k].category \in {"match", "different", "missing", "new", "error"}

\* Every comparable event of the source has exactly one result, and so has every
\* comparable event of the run; a result that pairs two events is a stored link,
\* and one that does not stands for an event without a link.
Accounted ==
    run = "done" =>
        LET one(event, side(_)) ==
                Cardinality({k \in DOMAIN results : side(results[k]) = event.id}) = 1
        IN /\ \A e \in Range(source) : Comparable(e) => one(e, LAMBDA r : r.original)
           /\ \A e \in Range(final)  : Comparable(e) => one(e, LAMBDA r : r.replayed)
           /\ \A k \in DOMAIN results :
                 CASE results[k].category = "missing" ->
                         \A p \in links : p[1] # results[k].original
                   [] results[k].category = "new" ->
                         \A p \in links : p[2] # results[k].replayed
                   [] OTHER -> <<results[k].original, results[k].replayed>> \in links

\* When the two clocks agree, a source that was finished with all its rows, and
\* has the request of each of them, is linked request by request: an event and its
\* partner belong to a recorded request and the request that re-sent it, are of
\* one type, and rank equally in it, whatever timeouts, errors and concurrency
\* did to the run, and whatever rows of its requests the source lost.
LinksFollowRequests ==
    /\ setup.history = "finished" /\ Resent = Requests
    /\ setup.target = "http" /\ setup.skew = 0
    => \A p \in links : p[1][2] = p[2][2] /\ p[1][3] = p[2][3]

\* Without faults, what the target ran is what is compared: each of its
\* statements has a result, although flushes carry other requests' events
\* ("the comparison can diff database work, not just status codes").
EveryStatementCompared ==
    run = "done" /\ setup.target = "http" /\ ~ faulted =>
        \A q \in Requests : \A n \in 1 .. ran[q] :
            \E k \in DOMAIN results :
                results[k].replayed = <<"run", q, "postgres.result", n>>

\* A run that nothing disturbed, of a whole recording, against the service as it
\* was when it was recorded, matches in everything.
Unchanged ==
    /\ run = "done" /\ ~ faulted
    /\ setup.target = "http" /\ setup.build = "same" /\ setup.skew = 0
    /\ setup.history = "finished"
    /\ setup.rows = SourceRows(setup.counts, setup.answers)

AllMatch == \A k \in DOMAIN results : results[k].category = "match"

\* No false alarm, at any concurrency, provided the bodies survive the conversions:
\* each request's is sent again as it was, and each answer's recorded alike by the
\* proxy and by the replay.
NoFalseAlarm ==
    /\ Unchanged
    /\ \A q \in Requests : /\ AsBefore(q)
                           /\ Captured(setup.answers[q]) = Received(setup.answers[q])
    => AllMatch

\* "A replay against an unchanged service must report no differences"
\* (docs/v5.md), whatever the bodies.
UnchangedMatches == Unchanged => AllMatch

\* A source that was finished with all its rows never makes the run itself fail
\* with an exception, and a run that returned has a row that says how it ended.
\* (One with late rows does: two events of one number take one stand-in of the mock
\* target, and its id violates the primary key.)
OutcomeRecorded ==
    /\ run = "aborted" /\ setup.history = "finished" => faulted
    /\ run = "done"    => status = "completed"
    /\ run = "refused" => status = "failed"

\* Once called, run_replay returns, or it waits for ever for a target that neither
\* answers nor lets httpx give up: never for its own batches, whatever failed.
ReplayWaitsForTarget ==
    run = "called" ~> \/ run \in {"done", "refused", "aborted"}
                      \/ [](\E q \in Requests : sent[q] = "open")
=============================================================================
