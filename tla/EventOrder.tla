----------------------------- MODULE EventOrder -----------------------------
(***************************************************************************)
(* One recording's two producers and what correlation makes of their       *)
(* events.  The proxy and the app's SQL listener stamp their events with   *)
(* their own clock and their own counter, so two rows can share a sequence *)
(* and an arrival order says nothing; finish_recording orders them.        *)
(***************************************************************************)
EXTENDS Correlate

CONSTANTS
    Requests,
    MaxSql,        \* the most statements run in all (a bound)
    Settings       \* the [skew, tick, corr] that may occur

\* skew is how far the app's clock is ahead of the proxy's, tick the least a clock
\* advances between two steps, corr the correlation id of each request: the
\* proxy's own, unless the client sends one.
ASSUME EventOrderAssumption ==
    /\ MaxSql \in Nat
    /\ \A s \in Settings : s.skew \in Int /\ s.tick \in {0, 1} /\ DOMAIN s.corr = Requests

VARIABLES
    skew, tick,    \* how the two clocks behave, and
    corr,          \* the correlation id of each request, chosen once
    now,           \* the time at the proxy
    step,          \* step[q]: "idle", "open" or "sql" (the app runs a statement)
    answered,      \* the requests whose response the proxy has stamped
    late,          \* those the app was still working on then, or again later
    began,         \* began[q]: the app's time when the running statement began
    proxySeq,      \* ReverseProxy._sequence
    appSeq,        \* PostgresCapturePlugin._sequence
    rows,          \* the event rows of the recording
    finished       \* has finish_recording run?

vars == <<skew, tick, corr, now, step, answered, late, began, proxySeq, appSeq, rows, finished>>

Types == {"http.request", "http.response", "postgres.query", "postgres.result"}

\* An id is unique: what emitted the event, and for whom.
Id(q, type, n) == <<q, type, n>>

TypeOK ==
    /\ step \in [Requests -> {"idle", "open", "sql"}]
    /\ answered \subseteq Requests /\ late \subseteq answered
    /\ finished \in BOOLEAN
    /\ \A e \in rows :
          /\ e.id[1] \in Requests /\ e.corr = corr[e.id[1]] /\ e.type \in Types
          /\ e.ts \in Int /\ e.seq \in Nat
          /\ e.parent \in {NoParent} \cup {f.id : f \in rows}

Init ==
    /\ \E s \in Settings : skew = s.skew /\ tick = s.tick /\ corr = s.corr
    /\ now = 0
    /\ step = [q \in Requests |-> "idle"] /\ answered = {} /\ late = {}
    /\ began = [q \in Requests |-> 0]
    /\ proxySeq = 0 /\ appSeq = 0
    /\ rows = {} /\ finished = FALSE

Tick == now' \in {now + tick, now + 1}

\* ReverseProxy._handle, before the request is forwarded.
SendRequest(q) ==
    /\ ~ finished /\ step[q] = "idle"
    /\ rows' = rows \cup {[id |-> Id(q, "http.request", 0), corr |-> corr[q], ts |-> now,
                           seq |-> proxySeq, type |-> "http.request",
                           parent |-> NoParent]}
    /\ step' = [step EXCEPT ![q] = "open"]
    /\ proxySeq' = proxySeq + 1
    /\ Tick
    /\ UNCHANGED <<skew, tick, corr, answered, late, began, appSeq, finished>>

\* before_cursor_execute: only the start time is noted.  The app may still be, or
\* again be, at work on a request that was answered: the proxy gave it up, or the
\* app goes on after its last body message.
BeforeStatement(q) ==
    /\ ~ finished /\ step[q] = "open" /\ appSeq < 2 * MaxSql
    /\ \A p \in Requests : step[p] = "sql" => appSeq + 2 < 2 * MaxSql
    /\ step' = [step EXCEPT ![q] = "sql"]
    /\ began' = [began EXCEPT ![q] = now + skew]
    /\ late' = late \cup ({q} \cap answered)
    /\ Tick
    /\ UNCHANGED <<skew, tick, corr, answered, proxySeq, appSeq, rows, finished>>

\* Mutant of AfterStatement: the query is never queued.
AfterStatementResultOnly(q) ==
    /\ ~ finished /\ step[q] = "sql"
    /\ rows' = rows \cup
            {[id |-> Id(q, "postgres.result", appSeq), corr |-> corr[q], ts |-> now + skew,
              seq |-> appSeq + 1, type |-> "postgres.result",
              parent |-> Id(q, "postgres.query", appSeq)]}
    /\ step' = [step EXCEPT ![q] = "open"]
    /\ appSeq' = appSeq + 2
    /\ Tick
    /\ UNCHANGED <<skew, tick, corr, answered, late, began, proxySeq, finished>>

\* after_cursor_execute: the query, stamped with its start, and the result,
\* linked to it, stamped with the end.
AfterStatement(q) ==
    /\ ~ finished /\ step[q] = "sql"
    /\ LET query  == Id(q, "postgres.query", appSeq)
           result == Id(q, "postgres.result", appSeq)
       IN rows' = rows \cup
            {[id |-> query, corr |-> corr[q], ts |-> began[q], seq |-> appSeq,
              type |-> "postgres.query", parent |-> NoParent],
             [id |-> result, corr |-> corr[q], ts |-> now + skew, seq |-> appSeq + 1,
              type |-> "postgres.result", parent |-> query]}
    /\ step' = [step EXCEPT ![q] = "open"]
    /\ appSeq' = appSeq + 2
    /\ Tick
    /\ UNCHANGED <<skew, tick, corr, answered, late, began, proxySeq, finished>>

\* ReverseProxy._handle, after _forward: the app answered, or the proxy gave up on
\* it with whatever the app is doing (a timeout, a broken connection).
SendResponse(q) ==
    /\ ~ finished /\ step[q] # "idle" /\ q \notin answered
    /\ rows' = rows \cup {[id |-> Id(q, "http.response", 0), corr |-> corr[q], ts |-> now,
                           seq |-> proxySeq, type |-> "http.response",
                           parent |-> Id(q, "http.request", 0)]}
    /\ answered' = answered \cup {q}
    /\ late' = IF step[q] = "sql" THEN late \cup {q} ELSE late
    /\ proxySeq' = proxySeq + 1
    /\ Tick
    /\ UNCHANGED <<skew, tick, corr, step, began, appSeq, finished>>

\* finish_recording, once every request is answered, whatever the app still does;
\* and again on an import, which stores the exported rows and finishes the copy.
Finish ==
    /\ \A q \in Requests : step[q] = "idle" \/ q \in answered
    /\ rows # {}
    /\ \E order \in RowOrders(rows) : rows' = Range(Correlated(order))
    /\ finished' = TRUE
    /\ UNCHANGED <<skew, tick, corr, now, step, answered, late, began, proxySeq, appSeq>>

Next ==
    \/ \E q \in Requests : SendRequest(q) \/ BeforeStatement(q) \/ AfterStatement(q)
                           \/ SendResponse(q)
    \/ Finish

Spec == Init /\ [][Next]_vars

-----------------------------------------------------------------------------
(* Properties *)

\* The rows of a finished recording are numbered 0, 1, 2, ... and the rows of a
\* correlation id are neighbours ("re-sequenced gap-free", "group by group"),
\* however the clocks behave.
GapFreeSequence ==
    finished =>
        /\ {e.seq : e \in rows} = 0 .. Cardinality(rows) - 1
        /\ \A e, f, g \in rows :
              e.seq < f.seq /\ f.seq < g.seq /\ e.corr = g.corr => f.corr = e.corr

Shared(q) == \E p \in Requests : p # q /\ corr[p] = corr[q]

\* Every statement of a finished recording hangs off its own request and every
\* result off its own query, however the clocks behave ("parents the DB events
\* to the request that caused them"; "recorded parent links are never
\* overwritten").  Where clients sent one correlation id twice, the statements
\* of both requests hang off one of the two, the same for all.
OwnParents ==
    finished => \A e \in rows :
        LET q == e.id[1]
        IN CASE e.type = "http.request"    -> e.parent = NoParent
             [] e.type = "postgres.result" -> e.parent = Id(q, "postgres.query", e.id[3])
             [] e.type = "http.response"   -> e.parent = Id(q, "http.request", 0)
             [] OTHER -> /\ e.parent = Id(q, "http.request", 0) \/ Shared(q)
                         /\ \A f \in rows : f.corr = e.corr /\ f.type = e.type =>
                               f.parent = e.parent
                         /\ \E f \in rows : f.id = e.parent /\ f.corr = e.corr
                                             /\ f.type = "http.request"

ClocksAgree == skew = 0 /\ tick = 1

\* With clocks that agree and never stand still, the final order is causal: a
\* parent comes before its children; and unless the app was still, or again, at
\* work on the request when the proxy stamped its response, the response comes
\* after all its request did, and a result right after its query if no other
\* request shares the correlation id.
CausalOrder ==
    finished /\ ClocksAgree => \A e, f \in rows :
        /\ f.parent = e.id => e.seq < f.seq
        /\ e.id[1] = f.id[1] /\ f.type = "http.response" /\ e.id[1] \notin late =>
              e.seq <= f.seq
        /\ f.parent = e.id /\ f.type = "postgres.result" =>
              f.seq = e.seq + 1 \/ Shared(e.id[1]) \/ e.id[1] \in late

\* The order in which the database returns rows with equal counters does not
\* show in the result, as long as the clocks agree and never stand still.
OrderIndependent ==
    ~ finished /\ ClocksAgree =>
        \A s, t \in RowOrders(rows) : Correlated(s) = Correlated(t)

\* Finishing what was finished changes nothing: an exported recording keeps its
\* order and its parents when it is imported, whatever its timestamps.
FinishedIsFixed == [][finished => rows' = rows]_vars
=============================================================================
