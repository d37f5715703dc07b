--------------------------- MODULE CaptureSession ---------------------------
(***************************************************************************)
(* Live capture: the sessions of capture/session.py, the reverse proxy and *)
(* queue of plugins/http_capture, and the ingest endpoint, all tasks of    *)
(* one asyncio process over the recording store.                           *)
(*                                                                         *)
(* A step runs from one suspension point to the next.  The instrumented    *)
(* app and the clients are the environment here: a request is answered at  *)
(* any time, and events are posted for any recording at any time.          *)
(* CapturePipeline replaces that environment by the agent.                 *)
(***************************************************************************)
EXTENDS RecordingStore, Naturals, Sequences

CONSTANTS
    Requests,      \* HTTP requests clients send to the proxies, once each
    SqlEvents,     \* events produced in another process and posted to ingest
    NoRecording,   \* the route of a request that was not sent yet
    Sentinel,      \* the None that stop() puts in the plugin's queue
    Faults         \* which of the faults below may happen

HttpEvents == [req : Requests, type : {"http.request", "http.response"}]

Events == HttpEvents \cup SqlEvents

RequestEvent(q)  == [req |-> q, type |-> "http.request"]
ResponseEvent(q) == [req |-> q, type |-> "http.response"]

ASSUME SessionAssumption ==
    /\ NoRecording \notin Recordings
    /\ Sentinel \notin HttpEvents
    /\ SqlEvents \cap HttpEvents = {}

VARIABLES
    phase,     \* phase[r]: where the session of r is, "none" without a session
    queue,     \* queue[r]: the plugin's asyncio.Queue
    pump,      \* pump[r]: the task that moves the queue into the store
    draft,     \* draft[r]: the rows finish_recording selected
    handler,   \* handler[q]: the proxy's handler of request q
    route,     \* route[q]: the recording whose proxy received q
    ingests    \* ingest calls in progress

sessionState == <<phase, queue, pump, draft>>
requestState == <<handler, route>>
vars == <<store, sessionState, requestState, ingests>>

Phases == {"none", "starting", "listening", "open", "stopping", "draining",
           "reading", "writing"}

\* The phases in which the proxy of r accepts requests: its sockets close only
\* at the end of shutdown().
Accepting == {"listening", "open", "stopping"}

\* A handler at work: it awaits the client's body, or the app's answer.
Handling == {"receiving", "forwarding"}

Ingest == [rec : Recordings, events : SUBSET SqlEvents,
           stage : {"arrived", "admitted"}]

TypeOK ==
    /\ StoreTypeOK(Events)
    /\ phase   \in [Recordings -> Phases]
    /\ queue   \in [Recordings -> Seq(HttpEvents \cup {Sentinel})]
    /\ pump    \in [Recordings -> {"none", "running", "done", "dead"}]
    /\ draft   \in [Recordings -> SUBSET Events]
    /\ handler \in [Requests -> {"idle", "receiving", "left", "forwarding", "answered",
                             "aborted"}]
    /\ route   \in [Requests -> Recordings \cup {NoRecording}]
    /\ ingests \subseteq Ingest

Init ==
    /\ StoreInit
    /\ phase   = [r \in Recordings |-> "none"]
    /\ queue   = [r \in Recordings |-> <<>>]
    /\ pump    = [r \in Recordings |-> "none"]
    /\ draft   = [r \in Recordings |-> {}]
    /\ handler = [q \in Requests |-> "idle"]
    /\ route   = [q \in Requests |-> NoRecording]
    /\ ingests = {}

-----------------------------------------------------------------------------
(* start_session *)

\* The row is inserted before the plugin is started.
StartSession(r) ==
    /\ StartRecording(r)
    /\ phase' = [phase EXCEPT ![r] = "starting"]
    /\ UNCHANGED <<queue, pump, draft, requestState, ingests>>

\* plugin.start() raises: the recording is failed and no session registered.
\* fail_recording is a transaction too, and can itself fail.
OpenFails(r) ==
    /\ phase[r] = "starting"
    /\ \/ FailRecording(r)
       \/ "storage" \in Faults /\ UNCHANGED store
    /\ phase' = [phase EXCEPT ![r] = "none"]
    /\ UNCHANGED <<queue, pump, draft, requestState, ingests>>

\* The proxy's server listens; serve() is still polling for it.
ProxyUp(r) ==
    /\ phase[r] = "starting"
    /\ phase' = [phase EXCEPT ![r] = "listening"]
    /\ UNCHANGED <<store, queue, pump, draft, requestState, ingests>>

\* plugin.start() returns: the pump task is created and the session registered.
Opened(r) ==
    /\ phase[r] = "listening"
    /\ phase' = [phase EXCEPT ![r] = "open"]
    /\ pump'  = [pump EXCEPT ![r] = "running"]
    /\ UNCHANGED <<store, queue, draft, requestState, ingests>>

-----------------------------------------------------------------------------
(* ReverseProxy._handle: read the request, emit it, forward it, emit the    *)
(* response                                                                 *)

\* The handler starts, and awaits the body.
ClientSend(q, r) ==
    /\ handler[q] = "idle"
    /\ phase[r] \in Accepting
    /\ handler' = [handler EXCEPT ![q] = "receiving"]
    /\ route'   = [route EXCEPT ![q] = r]
    /\ UNCHANGED <<store, sessionState, ingests>>

\* The body is there: the request is emitted before it is forwarded.
EmitRequest(q) ==
    /\ handler[q] = "receiving"
    /\ handler' = [handler EXCEPT ![q] = "forwarding"]
    /\ queue'   = [queue EXCEPT ![route[q]] = Append(@, RequestEvent(q))]
    /\ UNCHANGED <<store, phase, pump, draft, route, ingests>>

\* The client disconnects before its body is complete: request.body() raises, and
\* nothing is emitted.
ClientLeaves(q) ==
    /\ handler[q] = "receiving"
    /\ handler' = [handler EXCEPT ![q] = "left"]
    /\ UNCHANGED <<store, sessionState, route, ingests>>

\* The app answered, or the request failed with an httpx.RequestError (a
\* timeout included), which _forward returns like an answer.
Answer(q) ==
    /\ handler[q] = "forwarding"
    /\ handler' = [handler EXCEPT ![q] = "answered"]
    /\ queue'   = [queue EXCEPT ![route[q]] = Append(@, ResponseEvent(q))]
    /\ UNCHANGED <<store, phase, pump, draft, route, ingests>>

\* Any other exception of _forward leaves the handler: no response is emitted.
HandlerRaises(q) ==
    /\ handler[q] = "forwarding"
    /\ handler' = [handler EXCEPT ![q] = "aborted"]
    /\ UNCHANGED <<store, sessionState, route, ingests>>

-----------------------------------------------------------------------------
(* CaptureSession._pump *)

\* Mutant of PumpAppend: the sentinel is taken for an event.
PumpStoresSentinel(r) ==
    /\ pump[r] = "running"
    /\ queue[r] # <<>>
    /\ AppendEvents(r, {Head(queue[r])})
    /\ queue' = [queue EXCEPT ![r] = Tail(@)]
    /\ UNCHANGED <<phase, pump, draft, requestState, ingests>>

PumpAppend(r) ==
    /\ pump[r] = "running"
    /\ queue[r] # <<>>
    /\ Head(queue[r]) # Sentinel
    /\ AppendEvents(r, {Head(queue[r])})
    /\ queue' = [queue EXCEPT ![r] = Tail(@)]
    /\ UNCHANGED <<phase, pump, draft, requestState, ingests>>

\* events() returns on the sentinel.
PumpReturns(r) ==
    /\ pump[r] = "running"
    /\ queue[r] # <<>>
    /\ Head(queue[r]) = Sentinel
    /\ pump'  = [pump EXCEPT ![r] = "done"]
    /\ queue' = [queue EXCEPT ![r] = Tail(@)]
    /\ UNCHANGED <<store, phase, draft, requestState, ingests>>

\* Mutant of PumpDies: the pump swallows the exception and goes on.
PumpSkips(r) ==
    /\ "storage" \in Faults
    /\ pump[r] = "running"
    /\ queue[r] # <<>>
    /\ Head(queue[r]) # Sentinel
    /\ queue' = [queue EXCEPT ![r] = Tail(@)]
    /\ UNCHANGED <<store, phase, pump, draft, requestState, ingests>>

\* append_events raises: the task ends with the exception, the event it held is
\* lost, and nothing reads the queue any more.
PumpDies(r) ==
    /\ "storage" \in Faults
    /\ pump[r] = "running"
    /\ queue[r] # <<>>
    /\ Head(queue[r]) # Sentinel
    /\ pump'  = [pump EXCEPT ![r] = "dead"]
    /\ queue' = [queue EXCEPT ![r] = Tail(@)]
    /\ UNCHANGED <<store, phase, draft, requestState, ingests>>

-----------------------------------------------------------------------------
(* stop_session: pop the session, then close() it *)

\* Mutant of StopSession: the session is looked up but not removed, so a stop
\* repeated after the first one finds the pump done and finishes again.
StopTwice(r) ==
    \/ /\ phase[r] = "open"
       /\ phase' = [phase EXCEPT ![r] = "stopping"]
       /\ UNCHANGED <<store, queue, pump, draft, requestState, ingests>>
    \/ /\ phase[r] = "none" /\ status[r] = "completed"
       /\ phase' = [phase EXCEPT ![r] = "draining"]
       /\ pump' = [pump EXCEPT ![r] = "done"]
       /\ UNCHANGED <<store, queue, draft, requestState, ingests>>

\* The pop and the first part of shutdown() have no suspension point between
\* them, so a second stop of the same recording finds no session.
StopSession(r) ==
    /\ phase[r] = "open"
    /\ phase' = [phase EXCEPT ![r] = "stopping"]
    /\ UNCHANGED <<store, queue, pump, draft, requestState, ingests>>

\* Mutant of ProxyDown: shutdown does not wait for the server task.
ProxyDownAtOnce(r) ==
    /\ phase[r] = "stopping"
    /\ phase' = [phase EXCEPT ![r] = "draining"]
    /\ queue' = [queue EXCEPT ![r] = Append(@, Sentinel)]
    /\ UNCHANGED <<store, pump, draft, requestState, ingests>>

\* Mutant of ProxyDown: stop() forgets the sentinel.
ProxyDownSilently(r) ==
    /\ phase[r] = "stopping"
    /\ \A q \in Requests : route[q] = r => handler[q] \notin Handling
    /\ phase' = [phase EXCEPT ![r] = "draining"]
    /\ UNCHANGED <<store, queue, pump, draft, requestState, ingests>>

\* The server task ends once every handler has; then the sentinel is queued.
ProxyDown(r) ==
    /\ phase[r] = "stopping"
    /\ \A q \in Requests : route[q] = r => handler[q] \notin Handling
    /\ phase' = [phase EXCEPT ![r] = "draining"]
    /\ queue' = [queue EXCEPT ![r] = Append(@, Sentinel)]
    /\ UNCHANGED <<store, pump, draft, requestState, ingests>>

\* The session object is gone; what its queue still held goes with it.
Forget(r) ==
    /\ phase' = [phase EXCEPT ![r] = "none"]
    /\ queue' = [queue EXCEPT ![r] = <<>>]
    /\ pump'  = [pump EXCEPT ![r] = "none"]
    /\ draft' = [draft EXCEPT ![r] = {}]

\* Mutant of StopRaises: close() awaits the sentinel's arrival, not the task.
StopRaisesOnSentinel(r) ==
    /\ phase[r] = "draining"
    /\ pump[r] = "dead" /\ queue[r] = <<>>
    /\ Forget(r)
    /\ UNCHANGED <<store, requestState, ingests>>

\* `await self._drain` re-raises the pump's exception: nothing is finished, and
\* nothing marks the recording failed.
StopRaises(r) ==
    /\ phase[r] = "draining"
    /\ pump[r] = "dead"
    /\ Forget(r)
    /\ UNCHANGED <<store, requestState, ingests>>

\* Mutant of FinishRead: close() does not await the pump.
FinishReadAtOnce(r) ==
    /\ phase[r] = "draining"
    /\ draft' = [draft EXCEPT ![r] = stored[r]]
    /\ phase' = [phase EXCEPT ![r] = "reading"]
    /\ UNCHANGED <<store, queue, pump, requestState, ingests>>

\* finish_recording selects the rows and correlates them.  Rows other calls
\* commit from here on are not in the draft.
FinishRead(r) ==
    /\ phase[r] = "draining"
    /\ pump[r] = "done"
    /\ draft' = [draft EXCEPT ![r] = stored[r]]
    /\ phase' = [phase EXCEPT ![r] = "reading"]
    /\ UNCHANGED <<store, queue, pump, requestState, ingests>>

FinishSnapshot(r) ==
    /\ phase[r] = "reading"
    /\ PutSnapshot(r, draft[r])
    /\ phase' = [phase EXCEPT ![r] = "writing"]
    /\ UNCHANGED <<queue, pump, draft, requestState, ingests>>

FinishCommit(r) ==
    /\ phase[r] = "writing"
    /\ CommitFinish(r, draft[r])
    /\ Forget(r)
    /\ UNCHANGED <<requestState, ingests>>

\* A database or blob error anywhere in finish_recording: the transaction rolls
\* back and the stop request fails; the snapshot may already be there.
FinishFails(r) ==
    /\ "storage" \in Faults
    /\ \/ phase[r] \in {"reading", "writing"}
       \/ phase[r] = "draining" /\ pump[r] = "done"
    /\ Forget(r)
    /\ UNCHANGED <<store, requestState, ingests>>

-----------------------------------------------------------------------------
(* ingest_events: the status is read in one transaction, the events are     *)
(* appended in another                                                      *)

IngestArrives(r, E) ==
    /\ ingests' = ingests \cup {[rec |-> r, events |-> E, stage |-> "arrived"]}
    /\ UNCHANGED <<store, sessionState, requestState>>

IngestAdmit(i) ==
    /\ i.stage = "arrived"
    /\ status[i.rec] = "recording"
    /\ ingests' = (ingests \ {i}) \cup {[i EXCEPT !.stage = "admitted"]}
    /\ UNCHANGED <<store, sessionState, requestState>>

IngestRefuse(i) ==
    /\ i.stage = "arrived"
    /\ status[i.rec] # "recording"
    /\ ingests' = ingests \ {i}
    /\ UNCHANGED <<store, sessionState, requestState>>

IngestAppend(i) ==
    /\ i.stage = "admitted"
    /\ AppendEvents(i.rec, i.events)
    /\ ingests' = ingests \ {i}
    /\ UNCHANGED <<sessionState, requestState>>

\* Either database call raises: the poster gets an error and does not retry.
IngestFails(i) ==
    /\ "storage" \in Faults
    /\ ingests' = ingests \ {i}
    /\ UNCHANGED <<store, sessionState, requestState>>

\* The events posted so far: the agent posts an event once.
InFlight == UNION {i.events : i \in ingests}
Landed   == UNION {stored[r] : r \in Recordings}

-----------------------------------------------------------------------------

\* The API process dies and is restarted: every task, session and queue is
\* lost, the database and the blobs stay.  Nothing looks for orphans at startup.
Crash ==
    /\ "crash" \in Faults
    /\ phase'   = [r \in Recordings |-> "none"]
    /\ queue'   = [r \in Recordings |-> <<>>]
    /\ pump'    = [r \in Recordings |-> "none"]
    /\ draft'   = [r \in Recordings |-> {}]
    /\ handler' = [q \in Requests |-> CASE handler[q] = "forwarding" -> "aborted"
                                        [] handler[q] = "receiving" -> "left"
                                        [] OTHER -> handler[q]]
    /\ ingests' = {}
    /\ UNCHANGED <<store, route>>

SessionStep(r) ==
    \/ StartSession(r) \/ OpenFails(r) \/ ProxyUp(r) \/ Opened(r)
    \/ PumpAppend(r) \/ PumpReturns(r) \/ PumpDies(r)
    \/ StopSession(r) \/ ProxyDown(r) \/ StopRaises(r)
    \/ FinishRead(r) \/ FinishSnapshot(r) \/ FinishCommit(r) \/ FinishFails(r)

IngestStep(i) ==
    IngestAdmit(i) \/ IngestRefuse(i) \/ IngestAppend(i) \/ IngestFails(i)

Next ==
    \/ \E r \in Recordings : SessionStep(r)
    \/ \E q \in Requests, r \in Recordings : ClientSend(q, r)
    \/ \E q \in Requests :
          EmitRequest(q) \/ ClientLeaves(q) \/ Answer(q) \/ HandlerRaises(q)
    \/ \E r \in Recordings, E \in SUBSET SqlEvents :
          E # {} /\ E \cap (InFlight \cup Landed) = {} /\ IngestArrives(r, E)
    \/ \E i \in ingests : IngestStep(i)
    \/ Crash

Spec == Init /\ [][Next]_vars

\* Every task of a session that can run does.  Nothing obliges a client to deliver
\* its body, an app to answer, a user to stop, or a fault to happen.
SessionFairness ==
    \A r \in Recordings :
        WF_vars(ProxyUp(r) \/ Opened(r) \/ PumpAppend(r) \/ PumpReturns(r)
                \/ ProxyDown(r) \/ FinishRead(r) \/ FinishSnapshot(r)
                \/ FinishCommit(r) \/ StopRaises(r))

LiveSpec == Spec /\ SessionFairness

-----------------------------------------------------------------------------
(* Properties *)

\* What the proxy of r has emitted so far.
Emitted(r) ==
    {RequestEvent(q)  : q \in {p \in Requests : route[p] = r
                               /\ handler[p] \in {"forwarding", "answered", "aborted"}}}
    \cup
    {ResponseEvent(q) : q \in {p \in Requests : route[p] = r
                                               /\ handler[p] = "answered"}}

\* A completed recording holds every request and response its proxy emitted,
\* each with its final place, and its snapshot has exactly the ordered rows:
\* stop must let the handlers end, then drain the queue, then finish
\* (HttpCapturePlugin.stop, CaptureSession.close, finish_recording).
CaptureComplete ==
    \A r \in Recordings : status[r] = "completed" =>
        /\ Emitted(r) \subseteq ordered[r]
        /\ ordered[r] \subseteq stored[r]
        /\ blob[r] = ordered[r]

\* Once completed, a recording stays completed and neither its ordered rows nor
\* its snapshot change any more: one stop finishes it, once, and no failure
\* path reaches it afterwards (stop_session's pop, fail_recording's callers).
SealedForever ==
    [][\A r \in Recordings : status[r] = "completed" =>
          status'[r] = "completed" /\ ordered'[r] = ordered[r]
                                   /\ blob'[r] = blob[r]]_vars

\* At any time, also in a recording a crash or a dead pump left unfinished, a
\* response is stored only with its request: the queue, the pump and the store
\* keep the order of emission and stop at the first event they lose.
RequestStoredFirst ==
    \A r \in Recordings, q \in Requests :
        ResponseEvent(q) \in stored[r] => RequestEvent(q) \in stored[r]

\* A stop that awaits the pump awaits one that will end: it ended or died already,
\* or the sentinel is behind everything it has still to read.  So the sentinel is
\* put once, after the last handler, and nothing takes or overtakes it
\* (HttpCapturePlugin.stop and events, CaptureSession.close).
DrainEnds ==
    \A r \in Recordings : phase[r] = "draining" =>
        \/ pump[r] \in {"done", "dead"}
        \/ /\ pump[r] = "running"
           /\ queue[r] # <<>>
           /\ queue[r][Len(queue[r])] = Sentinel

\* Whatever fails, a stop call that does not return has a handler that does not
\* end to blame: a client that stalls its upload, or an app that never stops
\* sending, for the proxy's timeout bounds each read and not the request.  It is
\* never left waiting for the pump, for finish_recording or for an ingest call
\* (ReverseProxy.shutdown, CaptureSession.close).
StopWaitsForHandlers ==
    \A r \in Recordings :
        phase[r] = "stopping" ~>
            \/ phase[r] = "none"
            \/ [](\E q \in Requests : route[q] = r /\ handler[q] \in Handling)

\* Every row of a completed recording has its place in the recording's order
\* ("Monotonic, gap-free per recording", schema/event.py).  ingest_events
\* reads the status before it appends, so the code does not guarantee this.
GapFree ==
    \A r \in Recordings : status[r] = "completed" => stored[r] = ordered[r]

-----------------------------------------------------------------------------
(* The inductive invariant behind CaptureComplete and SealedForever *)

Elems(s) == {s[i] : i \in 1 .. Len(s)}

\* A recording with a session is in status "recording", and only a completed
\* one has ordered rows.
PhaseMatchesStatus ==
    \A r \in Recordings :
        /\ phase[r] # "none" => status[r] = "recording"
        /\ status[r] # "completed" => ordered[r] = {}

\* The pump lives exactly from Opened to the end of the session.
PumpMatchesPhase ==
    \A r \in Recordings :
        /\ pump[r] = "none" <=> phase[r] \in {"none", "starting", "listening"}
        /\ phase[r] \in {"reading", "writing"} => pump[r] = "done"
        /\ pump[r] = "done" => phase[r] \in {"draining", "reading", "writing"}
                               /\ queue[r] = <<>>

\* Handlers run only while the proxy accepts, and nothing is routed to a
\* recording whose proxy never listened.
HandlersMatchPhase ==
    \A q \in Requests :
        /\ handler[q] = "idle" <=> route[q] = NoRecording
        /\ handler[q] \in Handling => phase[route[q]] \in Accepting
        /\ \A r \in Recordings :
              route[q] = r => status[r] # "absent" /\ phase[r] # "starting"

\* The sentinel is the last thing put in a queue.
SentinelLast ==
    \A r \in Recordings : \A i \in 1 .. Len(queue[r]) :
        queue[r][i] = Sentinel => i = Len(queue[r]) /\ phase[r] = "draining"

\* While the pump has not died, what was emitted is stored or still queued.
NothingLost ==
    \A r \in Recordings :
        phase[r] # "none" /\ pump[r] # "dead" =>
            Emitted(r) \subseteq stored[r] \cup Elems(queue[r])

\* finish_recording works on rows that hold everything emitted, and writes the
\* snapshot it will commit.
DraftComplete ==
    \A r \in Recordings :
        /\ phase[r] \in {"reading", "writing"} =>
              Emitted(r) \subseteq draft[r] /\ draft[r] \subseteq stored[r]
        /\ phase[r] = "writing" => blob[r] = draft[r]

IInv ==
    /\ PhaseMatchesStatus
    /\ PumpMatchesPhase
    /\ HandlersMatchPhase
    /\ SentinelLast
    /\ NothingLost
    /\ DraftComplete
    /\ CaptureComplete

\* The order of emission is kept on the way: in a queue that is still read, a
\* response is behind its request, or the request is stored already.  A pump that
\* died may have lost the request, but then nothing is stored any more.
QueueInOrder ==
    \A r \in Recordings, q \in Requests : pump[r] # "dead" =>
        \A i \in 1 .. Len(queue[r]) : queue[r][i] = ResponseEvent(q) =>
            \/ RequestEvent(q) \in stored[r]
            \/ \E j \in 1 .. i - 1 : queue[r][j] = RequestEvent(q)
=============================================================================
