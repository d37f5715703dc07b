-------------------------- MODULE CapturePipeline --------------------------
(***************************************************************************)
(* Live capture end to end: the instrumented app with its agent            *)
(* (agent/agent.py, plugins/postgres_capture) in one process, the API with *)
(* its sessions (CaptureSession) in another.  A request goes from the      *)
(* proxy to the app; the SQL it runs is queued in the app's one shared     *)
(* queue; before the app's response leaves, the agent drains that queue    *)
(* and posts it to the ingest endpoint, one POST per recording.            *)
(*                                                                         *)
(* One element of SqlEvents is a statement with its result: the two events *)
(* are queued, drained, posted and stored together.                        *)
(***************************************************************************)
EXTENDS CaptureSession, FiniteSets, SequencesExt

CONSTANT MaxSql            \* the most statements one request runs

ASSUME PipelineAssumption ==
    /\ MaxSql \in Nat
    /\ SqlEvents = [req : Requests, n : 1 .. MaxSql]

VARIABLES
    app,         \* app[q]: the app's task for request q
    ran,         \* ran[q]: how many statements q has run
    appQueue,    \* the shared queue of the app's SQL plugin
    outbox       \* outbox[q]: the batches q's flush has still to post

appState == <<app, ran, appQueue, outbox>>
pipelineVars == <<vars, appState>>

Batch == [rec : Recordings, events : SUBSET SqlEvents]

PipelineTypeOK ==
    /\ TypeOK
    /\ app \in [Requests -> {"idle", "running", "flushing", "posting", "replied",
                        "raised"}]
    /\ ran \in [Requests -> 0 .. MaxSql]
    /\ appQueue \in Seq(SqlEvents)
    /\ outbox \in [Requests -> Seq(Batch)]

PipelineInit ==
    /\ Init
    /\ app = [q \in Requests |-> "idle"]
    /\ ran = [q \in Requests |-> 0]
    /\ appQueue = <<>>
    /\ outbox = [q \in Requests |-> <<>>]

-----------------------------------------------------------------------------
(* The app and its agent *)

\* CaptureMiddleware binds the context; the application starts on the request.
Arrive(q) ==
    /\ handler[q] = "forwarding"
    /\ app[q] = "idle"
    /\ app' = [app EXCEPT ![q] = "running"]
    /\ UNCHANGED <<vars, ran, appQueue, outbox>>

\* A statement ends: query and result go to the queue, labelled with the
\* recording and correlation id of the context the request is bound to.  That
\* context is bound until the application returns, and in tasks it has started:
\* an app may run statements in the background, after its last body message.
RunSql(q) ==
    /\ \/ app[q] = "running"
       \/ "background" \in Faults /\ app[q] # "idle"
    /\ ran[q] < MaxSql
    /\ ran' = [ran EXCEPT ![q] = @ + 1]
    /\ appQueue' = Append(appQueue, [req |-> q, n |-> ran[q] + 1])
    /\ UNCHANGED <<vars, app, outbox>>

\* The recordings of a drained queue, in the order in which they first appear:
\* the one list that fits.
Addressees(drained) ==
    LET rec(i) == route[drained[i].req]
        lists  == UNION {[1 .. n -> Recordings] : n \in 0 .. Cardinality(Recordings)}
    IN {order \in lists :
           /\ Range(order) = {rec(i) : i \in DOMAIN drained}
           /\ \A j, k \in DOMAIN order : j < k =>
                 \E i \in DOMAIN drained :
                     rec(i) = order[j] /\ \A h \in 1 .. i : rec(h) # order[k]}

\* Mutant of Batches: the whole queue is posted to one recording.
BatchesUngrouped(drained, order) ==
    IF drained = <<>> THEN <<>>
    ELSE << [rec |-> order[1], events |-> Range(drained)] >>

\* The batches of a drained queue: one per recording.
Batches(drained, order) ==
    [k \in DOMAIN order |->
        [rec    |-> order[k],
         events |-> {e \in Range(drained) : route[e.req] = order[k]}]]

\* Mutant of Respond: the drain takes one event instead of the whole queue.
RespondTakingOne(q) ==
    LET count == IF appQueue = <<>> THEN 0 ELSE 1
        taken == SubSeq(appQueue, 1, count)
    IN  /\ app[q] = "running"
        /\ \E order \in Addressees(taken) :
              outbox' = [outbox EXCEPT ![q] = Batches(taken, order)]
        /\ appQueue' = SubSeq(appQueue, 1 + count, Len(appQueue))
        /\ app' = [app EXCEPT ![q] = IF count = 0 THEN "replied" ELSE "flushing"]
        /\ UNCHANGED <<vars, ran>>

\* The last body message of the response: the agent drains the whole queue,
\* other requests' events included, before the message is sent.
Respond(q) ==
    /\ app[q] = "running"
    /\ \E order \in Addressees(appQueue) :
          outbox' = [outbox EXCEPT ![q] = Batches(appQueue, order)]
    /\ appQueue' = <<>>
    /\ app' = [app EXCEPT ![q] = IF appQueue = <<>> THEN "replied" ELSE "flushing"]
    /\ UNCHANGED <<vars, ran>>

\* The application raises: the 500 is sent by the server error handler outside
\* the middleware, so nothing is flushed.
AppRaises(q) ==
    /\ "raise" \in Faults
    /\ app[q] = "running"
    /\ app' = [app EXCEPT ![q] = "raised"]
    /\ UNCHANGED <<vars, ran, appQueue, outbox>>

Post(q) ==
    /\ app[q] = "flushing"
    /\ IngestArrives(Head(outbox[q]).rec, Head(outbox[q]).events)
    /\ app' = [app EXCEPT ![q] = "posting"]
    /\ UNCHANGED <<ran, appQueue, outbox>>

\* Mutant of PostDone: the agent posts the batch again.
PostAgain(q) ==
    /\ app[q] = "posting"
    /\ \A i \in ingests : i.events # Head(outbox[q]).events
    /\ app' = [app EXCEPT ![q] = "flushing"]
    /\ UNCHANGED <<vars, ran, appQueue, outbox>>

\* The call of q's batch is no longer in progress: it was answered, with 200 or
\* with an error the agent does not look at.
PostDone(q) ==
    /\ app[q] = "posting"
    /\ \A i \in ingests : i.events # Head(outbox[q]).events
    /\ outbox' = [outbox EXCEPT ![q] = Tail(@)]
    /\ app' = [app EXCEPT ![q] =
                  IF Len(outbox[q]) = 1 THEN "replied" ELSE "flushing"]
    /\ UNCHANGED <<vars, ran, appQueue>>

\* An httpx.HTTPError, for instance the agent's timeout: this batch may still
\* land, the remaining ones are dropped, and the response leaves.
FlushFails(q) ==
    /\ "timeout" \in Faults
    /\ app[q] \in {"flushing", "posting"}
    /\ outbox' = [outbox EXCEPT ![q] = <<>>]
    /\ app' = [app EXCEPT ![q] = "replied"]
    /\ UNCHANGED <<vars, ran, appQueue>>

-----------------------------------------------------------------------------
(* The proxy's side of a request *)

\* Mutant of ProxyAnswers: the middleware sends the response, then flushes.
AnswersBeforeFlush(q) ==
    /\ app[q] \in {"flushing", "posting", "replied"}
    /\ Answer(q)
    /\ UNCHANGED appState

ProxyAnswers(q) ==
    /\ app[q] \in {"replied", "raised"}
    /\ Answer(q)
    /\ UNCHANGED appState

\* The proxy's own timeout, on any one read, write or connect: it records an error
\* response while the app may still be working on the request.
GiveUp(q) ==
    /\ "timeout" \in Faults
    /\ app[q] \notin {"replied", "raised"}
    /\ Answer(q)
    /\ UNCHANGED appState

\* A request httpx refuses to build never reaches the app.
NeverForwarded(q) ==
    /\ app[q] = "idle"
    /\ HandlerRaises(q)
    /\ UNCHANGED appState

\* The API process dies: the agent's open calls end in an httpx.HTTPError.
ApiCrash ==
    /\ Crash
    /\ app' = [q \in Requests |-> IF app[q] = "posting" THEN "replied" ELSE app[q]]
    /\ outbox' = [q \in Requests |-> IF app[q] = "posting" THEN <<>> ELSE outbox[q]]
    /\ UNCHANGED <<ran, appQueue>>

AppStep(q) ==
    \/ Arrive(q) \/ RunSql(q) \/ Respond(q) \/ AppRaises(q)
    \/ Post(q) \/ PostDone(q) \/ FlushFails(q)
    \/ ProxyAnswers(q) \/ GiveUp(q) \/ NeverForwarded(q)

PipelineNext ==
    \/ \E r \in Recordings : SessionStep(r) /\ UNCHANGED appState
    \/ \E q \in Requests, r \in Recordings : ClientSend(q, r) /\ UNCHANGED appState
    \/ \E q \in Requests : (EmitRequest(q) \/ ClientLeaves(q)) /\ UNCHANGED appState
    \/ \E i \in ingests : IngestStep(i) /\ UNCHANGED appState
    \/ \E q \in Requests : AppStep(q)
    \/ ApiCrash

PipelineSpec == PipelineInit /\ [][PipelineNext]_pipelineVars

-----------------------------------------------------------------------------
(* Fairness: every task of both event loops that can run does.  Nothing     *)
(* obliges a client to send, a user to start or stop, an app to run SQL, or  *)
(* a fault to happen.                                                       *)

LoopFairness ==
    /\ \A r \in Recordings :
          WF_pipelineVars(UNCHANGED appState /\
             (ProxyUp(r) \/ Opened(r) \/ PumpAppend(r) \/ PumpReturns(r)
              \/ ProxyDown(r) \/ FinishRead(r) \/ FinishSnapshot(r)
              \/ FinishCommit(r) \/ StopRaises(r)))
    /\ \A q \in Requests : WF_pipelineVars(Post(q) \/ PostDone(q) \/ ProxyAnswers(q))
    /\ WF_pipelineVars(\E i \in ingests :
          (IngestAdmit(i) \/ IngestRefuse(i) \/ IngestAppend(i)) /\ UNCHANGED appState)

\* The app answers what it receives, and a client delivers its body or leaves.
PartnerFairness ==
    \A q \in Requests :
        /\ WF_pipelineVars(Arrive(q) \/ Respond(q))
        /\ WF_pipelineVars((EmitRequest(q) \/ ClientLeaves(q)) /\ UNCHANGED appState)

FairSpec == PipelineSpec /\ LoopFairness /\ PartnerFairness

-----------------------------------------------------------------------------
(* Properties *)

\* The statements q has run, and what a flush of q still carries.
RanBy(q)   == {e \in SqlEvents : e.req = q /\ e.n <= ran[q]}
Carried(q) == UNION {outbox[q][k].events : k \in DOMAIN outbox[q]}

\* Every statement run is a row of its recording, or waits in the queue for its
\* own request's flush, or is carried by the flush of a request the proxy still
\* waits for.  This is why stopping the proxy is enough to have everything.
\* Within one recording and without faults.
SqlAccounted ==
    \A q \in Requests : \A e \in RanBy(q) :
        \/ e \in stored[route[q]]
        \/ e \in Range(appQueue) /\ app[q] = "running" /\ handler[q] = "forwarding"
        \/ \E p \in Requests : e \in Carried(p) /\ handler[p] = "forwarding"

\* "No lost events": a completed recording has, in its order, every statement
\* its requests ran (CaptureAgent.flush, docs/v3.md).
NoLostEvents ==
    \A q \in Requests :
        route[q] # NoRecording /\ status[route[q]] = "completed" =>
            RanBy(q) \subseteq ordered[route[q]]

\* "The proxy never records a response whose database events have not landed
\* yet" (agent/__init__.py).
SqlLandsFirst ==
    \A q \in Requests :
        handler[q] = "answered" => RanBy(q) \subseteq stored[route[q]]

\* A statement is only ever a row of the recording its request was sent
\* through, whoever flushed it and however late (the grouping in flush, the
\* restamping in ingest_events).
NoCrossRecording ==
    \A r \in Recordings : \A e \in stored[r] \cap SqlEvents : route[e.req] = r

\* A stop call that ends leaves the recording completed or failed, never open
\* (the lifecycle drawn in recording/service.py; "lifecycle must record
\* failure", capture/session.py).
StopRecordsOutcome ==
    [][\A r \in Recordings : phase[r] = "draining" /\ phase'[r] = "none" =>
          status'[r] \in {"completed", "failed"}]_pipelineVars

\* Stopping a capture completes the recording, although the stop waits for
\* handlers that wait for the app, whose flush posts to the stopping process;
\* provided the clients deliver their bodies and the app answers.
StopCompletes ==
    \A r \in Recordings : phase[r] = "stopping" ~> status[r] = "completed"

\* A recording is recorded to while open and sealed with all of it: the
\* lifecycle of recording/service.py, for a reader who sees the rows, and the
\* snapshot once the status is "completed".
LifeState(s) == CASE s = "absent" -> "absent" [] s = "recording" -> "open"
                  [] s = "completed" -> "sealed" [] s = "failed" -> "failed"

Lifecycle == INSTANCE RecordingLifecycle WITH
    state    <- [r \in Recordings |-> LifeState(status[r])],
    log      <- stored,
    snapshot <- [r \in Recordings |-> IF status[r] = "completed" THEN blob[r] ELSE {}]

FollowsLifecycle == Lifecycle!Spec

\* The agent is one of the environments CaptureSession allows: every step of
\* the pipeline is a session step or leaves the API's state alone.
RefinesSession == Spec

-----------------------------------------------------------------------------
(* The inductive invariant behind RefinesSession and NoCrossRecording *)

\* What the flush of q has not posted yet.
Unposted(q) ==
    UNION {outbox[q][k].events :
              k \in {j \in DOMAIN outbox[q] : app[q] = "flushing" \/ j > 1}}

Posted == InFlight \cup Landed

\* A request the app works on came from a proxy, and a flush under way has
\* something left to post.
AppMatchesProxy ==
    \A q \in Requests :
        /\ app[q] # "idle" => route[q] \in Recordings
        /\ app[q] = "idle" => ran[q] = 0
        /\ outbox[q] # <<>> <=> app[q] \in {"flushing", "posting"}

\* Only statements that ran are queued, carried or posted.
StatementsRan ==
    \A e \in SqlEvents :
        e \in Range(appQueue) \cup Posted \/ (\E q \in Requests : e \in Carried(q))
            => e.n <= ran[e.req]

\* Batches are addressed to the recording their requests were sent through, at
\* each station of their way.
RightlyAddressed ==
    /\ \A q \in Requests : \A k \in DOMAIN outbox[q] :
          /\ outbox[q][k].events # {}
          /\ \A e \in outbox[q][k].events : route[e.req] = outbox[q][k].rec
    /\ \A i \in ingests : \A e \in i.events : route[e.req] = i.rec
    /\ NoCrossRecording

\* A statement is at one station of its way, and in one batch.
OneStation ==
    /\ Range(appQueue) \cap Posted = {}
    /\ \A q \in Requests :
          /\ Range(appQueue) \cap Carried(q) = {}
          /\ Unposted(q) \cap Posted = {}
          /\ \A p \in Requests : p # q => Carried(p) \cap Carried(q) = {}
          /\ \A j, k \in DOMAIN outbox[q] : j # k => outbox[q][j].rec # outbox[q][k].rec

PipelineInv ==
    /\ PipelineTypeOK
    /\ AppMatchesProxy
    /\ StatementsRan
    /\ RightlyAddressed
    /\ OneStation
=============================================================================
