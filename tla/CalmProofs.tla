----------------------------- MODULE CalmProofs -----------------------------
(***************************************************************************)
(* What the agent's design is for, proved for any number of concurrent     *)
(* requests and statements: as long as nothing fails and one recording at  *)
(* a time goes through the app, no statement is lost.                      *)
(***************************************************************************)
EXTENDS PipelineProofs

\* No faults, and at most one recording.
Calm == Faults = {} /\ \A r, s \in Recordings : r = s

\* While the app works on a request, its proxy waits.
ProxyWaits ==
    \A q \in Requests :
        app[q] \in {"running", "flushing", "posting"} => handler[q] = "forwarding"

\* An ingest call in progress is one that some flush waits for, and what a flush
\* has posted is in progress or stored.
CallsAwaited ==
    /\ \A i \in ingests : \E q \in Requests :
          /\ app[q] = "posting"
          /\ i.rec = outbox[q][1].rec /\ i.events = outbox[q][1].events
    /\ \A q \in Requests : app[q] = "posting" =>
          \/ outbox[q][1].events \subseteq stored[outbox[q][1].rec]
          \/ \E i \in ingests : i.rec = outbox[q][1].rec /\ i.events = outbox[q][1].events

\* Nothing is stored between the reading of the rows and the end of a finish.
DraftHasAll ==
    \A r \in Recordings : phase[r] \in {"reading", "writing"} => draft[r] = stored[r]

CalmInv == ProxyWaits /\ CallsAwaited /\ SqlAccounted /\ DraftHasAll /\ GapFree

LEMMA CalmInit == PipelineInit => CalmInv
<1> SUFFICES ASSUME PipelineInit PROVE CalmInv
  OBVIOUS
<1> USE DEF PipelineInit, Init, StoreInit
<1>1. ProxyWaits /\ CallsAwaited /\ DraftHasAll /\ GapFree
  BY DEF ProxyWaits, CallsAwaited, DraftHasAll, GapFree
<1>2. SqlAccounted
  BY PipelineAssumption DEF SqlAccounted, RanBy
<1> QED
  BY <1>1, <1>2 DEF CalmInv

-----------------------------------------------------------------------------

\* A request that has not been routed has run nothing.
LEMMA NothingRan ==
    ASSUME PipelineInv, NEW q \in Requests, app[q] = "idle"
    PROVE  RanBy(q) = {}
BY PipelineAssumption DEF PipelineInv, AppMatchesProxy, RanBy

\* Without anything left in its outbox a flush carries nothing.
LEMMA CarriesNothing ==
    ASSUME PipelineInv, NEW q \in Requests, app[q] \notin {"flushing", "posting"}
    PROVE  Carried(q) = {}
BY DEF PipelineInv, AppMatchesProxy, Carried

\* While some proxy waits, the one recording is open.
LEMMA OpenWhileWaiting ==
    ASSUME Calm, PipelineInv, IInv, NEW q \in Requests, handler[q] = "forwarding",
           NEW r \in Recordings
    PROVE  phase[r] \in Accepting /\ status[r] = "recording"
<1>1. route[q] \in Recordings /\ phase[route[q]] \in Accepting
  BY DEF PipelineInv, PipelineTypeOK, TypeOK, IInv, HandlersMatchPhase, Handling
<1>2. r = route[q]
  BY <1>1 DEF Calm
<1> QED
  BY <1>1, <1>2 DEF IInv, PhaseMatchesStatus, Accepting

\* Therefore also while an ingest call is in progress.
LEMMA OpenWhilePosting ==
    ASSUME Calm, PipelineInv, IInv, CalmInv, NEW i \in ingests, NEW r \in Recordings
    PROVE  phase[r] \in Accepting /\ status[r] = "recording"
<1>1. PICK q \in Requests : app[q] = "posting"
  BY DEF CalmInv, CallsAwaited
<1> QED
  BY <1>1, OpenWhileWaiting DEF CalmInv, ProxyWaits

\* The accounts stay right as long as rows, handlers, queue and flushes only gain.
LEMMA AccountsKept ==
    ASSUME PipelineInv, SqlAccounted, UNCHANGED <<app, ran, appQueue, outbox>>,
           \A r \in Recordings : stored[r] \subseteq stored'[r],
           \A q \in Requests : app[q] # "idle" => route'[q] = route[q],
           \A q \in Requests : app[q] \in {"running", "flushing", "posting"} =>
              handler'[q] = handler[q]
    PROVE  SqlAccounted'
<1> SUFFICES ASSUME NEW q \in Requests, NEW e \in RanBy(q)'
             PROVE  \/ e \in stored'[route'[q]]
                    \/ e \in Range(appQueue)' /\ app'[q] = "running" /\ handler'[q] = "forwarding"
                    \/ \E p \in Requests : e \in Carried(p)' /\ handler'[p] = "forwarding"
  BY DEF SqlAccounted
<1>1. e \in RanBy(q)
  BY DEF RanBy
<1>2. app[q] # "idle" /\ route[q] \in Recordings /\ route'[q] = route[q]
  BY <1>1, NothingRan DEF PipelineInv, AppMatchesProxy
<1>3. CASE e \in stored[route[q]]
  BY <1>2, <1>3
<1>4. CASE e \in Range(appQueue) /\ app[q] = "running" /\ handler[q] = "forwarding"
  BY <1>4 DEF Range
<1>5. ASSUME NEW p \in Requests, e \in Carried(p), handler[p] = "forwarding"
      PROVE  e \in Carried(p)' /\ handler'[p] = "forwarding"
  BY <1>5, CarriesNothing DEF Carried
<1> QED
  BY <1>1, <1>3, <1>4, <1>5 DEF SqlAccounted

-----------------------------------------------------------------------------

\* A session keeps the invariant: it stores and finishes, and finishes only with
\* nothing under way.
LEMMA CalmSession ==
    ASSUME Calm, PipelineInv, IInv, CalmInv, NEW r \in Recordings, SessionStep(r),
           UNCHANGED appState
    PROVE  CalmInv'
<1> USE DEF CalmInv, PipelineInv, PipelineTypeOK
<1>1. UNCHANGED <<app, ran, appQueue, outbox>>
  BY DEF appState
<1>2. /\ UNCHANGED <<handler, route, ingests>>
      /\ \A x \in Recordings : stored[x] \subseteq stored'[x]
  BY DEF SessionStep, StartSession, StartRecording, OpenFails, FailRecording, ProxyUp, Opened,
         PumpAppend, AppendEvents, PumpReturns, PumpDies, StopSession, ProxyDown, StopRaises,
         FinishRead, FinishSnapshot, PutSnapshot, FinishCommit, CommitFinish, FinishFails,
         store, requestState, TypeOK, StoreTypeOK
<1>3. ProxyWaits'
  BY <1>1, <1>2 DEF ProxyWaits
<1>4. CallsAwaited'
  <2>1. \A q \in Requests : app[q] = "posting" => outbox[q][1].rec \in Recordings
    <3> SUFFICES ASSUME NEW q \in Requests, app[q] = "posting"
                 PROVE  outbox[q][1] \in Batch
      BY DEF Batch
    <3> QED
      BY DEF AppMatchesProxy
  <2> QED
    BY <1>1, <1>2, <2>1 DEF CallsAwaited
<1>5. SqlAccounted'
  BY <1>1, <1>2, AccountsKept
<1>6. DraftHasAll' /\ GapFree'
  <2> USE DEF DraftHasAll, GapFree, IInv, PhaseMatchesStatus, PumpMatchesPhase, TypeOK,
              StoreTypeOK
  <2>1. CASE StartSession(r)
    BY <2>1 DEF StartSession, StartRecording
  <2>2. CASE OpenFails(r)
    BY <2>2 DEF OpenFails, FailRecording, store
  <2>3. CASE ProxyUp(r) \/ Opened(r) \/ StopSession(r) \/ ProxyDown(r)
    BY <2>3 DEF ProxyUp, Opened, StopSession, ProxyDown, store
  <2>4. CASE PumpAppend(r)
    BY <2>4 DEF PumpAppend, AppendEvents
  <2>5. CASE PumpReturns(r) \/ PumpDies(r)
    <3>1. UNCHANGED <<stored, status, ordered, phase, draft>>
      BY <2>5 DEF PumpReturns, PumpDies, store
    <3> QED
      BY <3>1
  <2>6. CASE StopRaises(r) \/ FinishFails(r)
    <3>1. /\ phase' = [phase EXCEPT ![r] = "none"]
          /\ UNCHANGED <<stored, status, ordered>>
          /\ \A x \in Recordings : x # r => draft'[x] = draft[x]
      BY <2>6 DEF StopRaises, FinishFails, Forget, store
    <3> QED
      BY <3>1
  <2>7. CASE FinishRead(r)
    BY <2>7 DEF FinishRead, store
  <2>8. CASE FinishSnapshot(r)
    BY <2>8 DEF FinishSnapshot, PutSnapshot
  <2>9. CASE FinishCommit(r)
    <3>1. ordered[r] = {} /\ draft[r] = stored[r]
      BY <2>9 DEF FinishCommit
    <3> QED
      BY <2>9, <3>1 DEF FinishCommit, CommitFinish, Forget
  <2> QED
    BY <2>1, <2>2, <2>3, <2>4, <2>5, <2>6, <2>7, <2>8, <2>9 DEF SessionStep
<1> QED
  BY <1>3, <1>4, <1>5, <1>6

\* An ingest call is admitted, for its recording is open, and stores what it has.
LEMMA CalmIngest ==
    ASSUME Calm, PipelineInv, IInv, CalmInv, NEW i \in ingests, IngestStep(i),
           UNCHANGED appState
    PROVE  CalmInv'
<1> USE DEF CalmInv, PipelineInv, PipelineTypeOK
<1>1. UNCHANGED <<app, ran, appQueue, outbox>>
  BY DEF appState
<1>2. i \in Ingest /\ i.rec \in Recordings
  BY DEF TypeOK, Ingest
<1>3. \A r \in Recordings : phase[r] \in Accepting /\ status[r] = "recording"
  BY OpenWhilePosting
<1>4. CASE IngestAdmit(i)
  <2> DEFINE j == [i EXCEPT !.stage = "admitted"]
  <2>1. j.rec = i.rec /\ j.events = i.events
    BY <1>2 DEF Ingest
  <2>2. ingests' = (ingests \ {i}) \cup {j}
    BY <1>4 DEF IngestAdmit
  <2> HIDE DEF j
  <2>3. UNCHANGED <<handler, route, stored, status, ordered, phase, draft>>
    BY <1>4 DEF IngestAdmit, store, sessionState, requestState
  <2>4. CallsAwaited'
    <3>1. ASSUME NEW k \in ingests'
          PROVE  \E q \in Requests :
                    /\ app[q] = "posting"
                    /\ k.rec = outbox[q][1].rec /\ k.events = outbox[q][1].events
      <4>1. PICK h \in ingests : k.rec = h.rec /\ k.events = h.events
        BY <2>1, <2>2
      <4> QED
        BY <4>1 DEF CallsAwaited
    <3>2. ASSUME NEW q \in Requests, app[q] = "posting"
          PROVE  \/ outbox[q][1].events \subseteq stored[outbox[q][1].rec]
                 \/ \E k \in ingests' : k.rec = outbox[q][1].rec /\ k.events = outbox[q][1].events
      <4>1. ASSUME NEW h \in ingests, h.rec = outbox[q][1].rec, h.events = outbox[q][1].events
            PROVE  \E k \in ingests' : k.rec = outbox[q][1].rec /\ k.events = outbox[q][1].events
        <5>1. CASE h = i
          BY <2>1, <2>2, <4>1, <5>1
        <5>2. CASE h # i
          BY <2>2, <4>1, <5>2
        <5> QED
          BY <5>1, <5>2
      <4> QED
        BY <3>2, <4>1 DEF CallsAwaited
    <3> QED
      BY <1>1, <2>3, <3>1, <3>2 DEF CallsAwaited
  <2>5. SqlAccounted'
    BY <1>1, <2>3, AccountsKept
  <2> QED
    BY <1>1, <2>3, <2>4, <2>5 DEF ProxyWaits, DraftHasAll, GapFree
<1>5. CASE IngestAppend(i)
  <2>1. /\ ingests' = ingests \ {i}
        /\ stored' = [stored EXCEPT ![i.rec] = @ \cup i.events]
        /\ UNCHANGED <<handler, route, status, ordered, phase, draft>>
    BY <1>5 DEF IngestAppend, AppendEvents, sessionState, requestState
  <2>2. /\ \A r \in Recordings : stored[r] \subseteq stored'[r]
        /\ i.events \subseteq stored'[i.rec]
    BY <1>2, <2>1 DEF TypeOK, StoreTypeOK
  <2>3. CallsAwaited'
    <3>1. ASSUME NEW q \in Requests, app[q] = "posting"
          PROVE  \/ outbox[q][1].events \subseteq stored'[outbox[q][1].rec]
                 \/ \E k \in ingests' : k.rec = outbox[q][1].rec /\ k.events = outbox[q][1].events
      <4>1. outbox[q][1] \in Batch
        BY <3>1 DEF AppMatchesProxy
      <4>2. outbox[q][1].rec \in Recordings
        BY <4>1 DEF Batch
      <4> QED
        BY <2>1, <2>2, <3>1, <4>2 DEF CallsAwaited
    <3> QED
      BY <1>1, <2>1, <3>1 DEF CallsAwaited
  <2>4. SqlAccounted'
    BY <1>1, <2>1, <2>2, AccountsKept
  <2>5. DraftHasAll' /\ GapFree'
    BY <1>3, <2>1 DEF DraftHasAll, GapFree, Accepting
  <2>6. ProxyWaits'
    BY <1>1, <2>1 DEF ProxyWaits
  <2> QED
    BY <2>3, <2>4, <2>5, <2>6
<1>6. ~ IngestRefuse(i) /\ ~ IngestFails(i)
  BY <1>2, <1>3 DEF IngestRefuse, IngestFails, Calm
<1> QED
  BY <1>4, <1>5, <1>6 DEF IngestStep

\* Handlers start before the app works on a request, and end after it has.
LEMMA CalmHandler ==
    ASSUME Calm, PipelineInv, IInv, CalmInv, UNCHANGED appState, NEW q \in Requests,
           \/ \E r \in Recordings : ClientSend(q, r)
           \/ EmitRequest(q) \/ ClientLeaves(q)
           \/ (Answer(q) \/ HandlerRaises(q)) /\ app[q] \in {"idle", "replied", "raised"}
    PROVE  CalmInv'
<1> USE DEF CalmInv, PipelineInv, PipelineTypeOK
<1>1. UNCHANGED <<app, ran, appQueue, outbox>>
  BY DEF appState
<1>2. UNCHANGED <<stored, status, ordered, phase, draft, ingests>>
  BY DEF ClientSend, EmitRequest, ClientLeaves, Answer, HandlerRaises, store, sessionState
<1>3. app[q] \in {"idle", "replied", "raised"}
  BY SessionAssumption DEF ClientSend, EmitRequest, ClientLeaves, IInv, HandlersMatchPhase,
                           AppMatchesProxy, PipelineTypeOK, ProxyWaits
<1>4. \A p \in Requests : app[p] \in {"running", "flushing", "posting"} =>
         handler'[p] = handler[p]
  BY <1>3 DEF ClientSend, EmitRequest, ClientLeaves, Answer, HandlerRaises, TypeOK
<1>5. \A p \in Requests : app[p] # "idle" => route'[p] = route[p]
  <2>1. ASSUME NEW r \in Recordings, ClientSend(q, r)
        PROVE  app[q] = "idle" /\ \A p \in Requests : p # q => route'[p] = route[p]
    BY <2>1, SessionAssumption DEF ClientSend, IInv, HandlersMatchPhase, AppMatchesProxy, TypeOK
  <2> QED
    BY <2>1 DEF EmitRequest, ClientLeaves, Answer, HandlerRaises
<1>6. SqlAccounted'
  BY <1>1, <1>2, <1>4, <1>5, AccountsKept
<1>7. ProxyWaits'
  BY <1>1, <1>4 DEF ProxyWaits
<1>8. CallsAwaited'
  BY <1>1, <1>2 DEF CallsAwaited
<1> QED
  BY <1>2, <1>6, <1>7, <1>8 DEF DraftHasAll, GapFree

-----------------------------------------------------------------------------

\* The app's own steps keep what is said of calls and rows, unless they post or end
\* a call.
LEMMA AppAloneCalm ==
    ASSUME PipelineInv, CalmInv, UNCHANGED vars, NEW q \in Requests,
           app[q] # "posting", app'[q] # "posting", handler[q] = "forwarding",
           \A p \in Requests : p # q => app'[p] = app[p] /\ outbox'[p] = outbox[p]
    PROVE  ProxyWaits' /\ CallsAwaited' /\ DraftHasAll' /\ GapFree'
<1> USE DEF CalmInv
<1>1. UNCHANGED <<store, phase, draft, handler, ingests>>
  BY DEF vars, sessionState, requestState
<1>2. UNCHANGED <<stored, status, ordered>>
  BY <1>1 DEF store
<1>3. ProxyWaits' /\ DraftHasAll' /\ GapFree'
  BY <1>1, <1>2 DEF ProxyWaits, DraftHasAll, GapFree
<1>4. CallsAwaited'
  <2>1. ASSUME NEW i \in ingests
        PROVE  \E p \in Requests :
                  /\ app'[p] = "posting"
                  /\ i.rec = outbox'[p][1].rec /\ i.events = outbox'[p][1].events
    <3>1. PICK p \in Requests : /\ app[p] = "posting"
                                /\ i.rec = outbox[p][1].rec /\ i.events = outbox[p][1].events
      BY DEF CallsAwaited
    <3> QED
      BY <3>1
  <2>2. ASSUME NEW p \in Requests, app'[p] = "posting"
        PROVE  p # q
    BY <2>2
  <2> QED
    BY <1>1, <1>2, <2>1, <2>2 DEF CallsAwaited
<1> QED
  BY <1>3, <1>4

LEMMA CalmArrive ==
    ASSUME PipelineInv, IInv, CalmInv, NEW q \in Requests, Arrive(q)
    PROVE  CalmInv'
<1>1. /\ app'[q] = "running" /\ \A p \in Requests : p # q => app'[p] = app[p]
      /\ app[q] = "idle" /\ handler[q] = "forwarding"
      /\ UNCHANGED <<vars, ran, appQueue, outbox>>
  BY DEF Arrive, PipelineInv, PipelineTypeOK
<1>2. UNCHANGED <<stored, route, handler>>
  BY <1>1, SessionUntouched DEF PipelineInv, PipelineTypeOK
<1>3. SqlAccounted'
  <2> SUFFICES ASSUME NEW p \in Requests, NEW e \in RanBy(p)'
               PROVE  \/ e \in stored[route[p]]
                      \/ e \in Range(appQueue) /\ app'[p] = "running" /\ handler[p] = "forwarding"
                      \/ \E o \in Requests : e \in Carried(o)' /\ handler[o] = "forwarding"
    BY <1>1, <1>2 DEF SqlAccounted, Range
  <2>1. e \in RanBy(p) /\ \A o \in Requests : Carried(o)' = Carried(o)
    BY <1>1 DEF RanBy, Carried
  <2> QED
    BY <1>1, <2>1 DEF CalmInv, SqlAccounted
<1> QED
  BY <1>1, <1>3, AppAloneCalm DEF CalmInv

\* A new statement waits in the queue for its own request's flush.
LEMMA CalmRunSql ==
    ASSUME Calm, PipelineInv, IInv, CalmInv, NEW q \in Requests, RunSql(q)
    PROVE  CalmInv'
<1> DEFINE new == [req |-> q, n |-> ran[q] + 1]
<1>1. /\ app[q] = "running" /\ handler[q] = "forwarding"
      /\ UNCHANGED <<vars, app, outbox>>
  BY DEF RunSql, CalmInv, ProxyWaits, Calm
<1>2. UNCHANGED <<stored, route, handler>>
  BY <1>1, SessionUntouched DEF PipelineInv, PipelineTypeOK
<1>3. new \in SqlEvents /\ ran[q] \in Nat
  BY PipelineAssumption DEF RunSql, PipelineInv, PipelineTypeOK
<1>4. Range(appQueue)' = Range(appQueue) \cup {new}
  BY <1>3, RangeAppend DEF RunSql, PipelineInv, PipelineTypeOK
<1>5. \A p \in Requests : RanBy(p)' \subseteq RanBy(p) \cup (IF p = q THEN {new} ELSE {})
  <2> SUFFICES ASSUME NEW p \in Requests, NEW e \in RanBy(p)', e \notin RanBy(p)
               PROVE  p = q /\ e = new
    OBVIOUS
  <2>1. e \in [req : Requests, n : 1 .. MaxSql] /\ e.req = p /\ e.n <= ran'[p] /\ ~ (e.n <= ran[p])
    BY PipelineAssumption DEF RanBy
  <2>2. p = q /\ ran'[q] = ran[q] + 1
    BY <2>1 DEF RunSql, PipelineInv, PipelineTypeOK
  <2>3. e.n \in Nat
    BY <2>1, PipelineAssumption
  <2>4. e.n = ran[q] + 1
    BY <1>3, <2>1, <2>2, <2>3
  <2> QED
    BY <2>1, <2>2, <2>4
<1>6. SqlAccounted'
  <2> SUFFICES ASSUME NEW p \in Requests, NEW e \in RanBy(p)'
               PROVE  \/ e \in stored[route[p]]
                      \/ e \in Range(appQueue)' /\ app[p] = "running" /\ handler[p] = "forwarding"
                      \/ \E o \in Requests : e \in Carried(o)' /\ handler[o] = "forwarding"
    BY <1>1, <1>2 DEF SqlAccounted
  <2>1. \A o \in Requests : Carried(o)' = Carried(o)
    BY <1>1 DEF Carried
  <2>2. CASE e \in RanBy(p)
    BY <1>4, <2>1, <2>2 DEF CalmInv, SqlAccounted
  <2>3. CASE e \notin RanBy(p)
    BY <1>1, <1>4, <1>5, <2>3
  <2> QED
    BY <2>2, <2>3
<1> QED
  BY <1>1, <1>6, AppAloneCalm DEF CalmInv

\* The flush takes the whole queue, and the proxy waits for it.
LEMMA CalmRespond ==
    ASSUME PipelineInv, IInv, CalmInv, NEW q \in Requests, Respond(q)
    PROVE  CalmInv'
<1>1. PICK order \in Addressees(appQueue) :
         outbox' = [outbox EXCEPT ![q] = Batches(appQueue, order)]
  BY DEF Respond
<1> DEFINE B == Batches(appQueue, order)
<1>2. \A e \in Range(appQueue) : \E k \in DOMAIN B : e \in B[k].events
  BY DrainedBatches
<1> HIDE DEF B
<1>3. /\ outbox'[q] = B /\ app[q] = "running" /\ app'[q] \in {"replied", "flushing"}
      /\ \A p \in Requests : p # q => outbox'[p] = outbox[p] /\ app'[p] = app[p]
      /\ handler[q] = "forwarding" /\ UNCHANGED <<vars, ran>>
  BY <1>1 DEF Respond, PipelineInv, PipelineTypeOK, B, CalmInv, ProxyWaits
<1>4. UNCHANGED <<stored, route, handler>>
  BY <1>3, SessionUntouched DEF PipelineInv, PipelineTypeOK
<1>5. Range(appQueue) \subseteq Carried(q)' /\ Carried(q) = {}
  BY <1>2, <1>3, CarriesNothing DEF Carried
<1>6. \A p \in Requests : p # q => Carried(p)' = Carried(p)
  BY <1>3 DEF Carried
<1>7. SqlAccounted'
  <2> SUFFICES ASSUME NEW p \in Requests, NEW e \in RanBy(p)
               PROVE  \/ e \in stored[route[p]]
                      \/ \E o \in Requests : e \in Carried(o)' /\ handler[o] = "forwarding"
    BY <1>3, <1>4 DEF SqlAccounted, RanBy
  <2>1. ASSUME NEW o \in Requests, e \in Carried(o)
        PROVE  e \in Carried(o)'
    BY <1>5, <1>6, <2>1
  <2> QED
    BY <1>3, <1>5, <2>1 DEF CalmInv, SqlAccounted
<1> QED
  BY <1>3, <1>7, AppAloneCalm DEF CalmInv

\* The call that starts is its poster's.
LEMMA CalmPost ==
    ASSUME PipelineInv, IInv, CalmInv, NEW q \in Requests, Post(q)
    PROVE  CalmInv'
<1> DEFINE b == outbox[q][1]
           call == [rec |-> b.rec, events |-> b.events, stage |-> "arrived"]
<1> USE DEF CalmInv
<1>1. Head(outbox[q]) = b
  BY DEF Post, PipelineInv, PipelineTypeOK, AppMatchesProxy
<1>2. /\ ingests' = ingests \cup {call} /\ call.rec = b.rec /\ call.events = b.events
      /\ UNCHANGED <<store, phase, draft, handler, route, ran, appQueue, outbox>>
      /\ app[q] = "flushing" /\ app'[q] = "posting"
      /\ \A p \in Requests : p # q => app'[p] = app[p]
  BY <1>1 DEF Post, IngestArrives, sessionState, requestState, PipelineInv, PipelineTypeOK
<1>3. UNCHANGED <<stored, status, ordered>>
  BY <1>2 DEF store
<1> HIDE DEF b, call
<1>4. ProxyWaits' /\ DraftHasAll' /\ GapFree'
  BY <1>2, <1>3 DEF ProxyWaits, DraftHasAll, GapFree
<1>5. CallsAwaited'
  <2>1. ASSUME NEW k \in ingests'
        PROVE  \E p \in Requests :
                  /\ app'[p] = "posting"
                  /\ k.rec = outbox[p][1].rec /\ k.events = outbox[p][1].events
    <3>1. CASE k = call
      BY <1>2, <3>1 DEF b
    <3>2. CASE k # call
      <4>1. PICK p \in Requests : /\ app[p] = "posting"
                                  /\ k.rec = outbox[p][1].rec /\ k.events = outbox[p][1].events
        BY <1>2, <3>2 DEF CallsAwaited
      <4> QED
        BY <1>2, <4>1
    <3> QED
      BY <3>1, <3>2
  <2>2. ASSUME NEW p \in Requests, app'[p] = "posting"
        PROVE  \/ outbox[p][1].events \subseteq stored[outbox[p][1].rec]
               \/ \E k \in ingests' : k.rec = outbox[p][1].rec /\ k.events = outbox[p][1].events
    <3>1. CASE p = q
      BY <1>2, <3>1 DEF b
    <3>2. CASE p # q
      BY <1>2, <2>2, <3>2 DEF CallsAwaited
    <3> QED
      BY <3>1, <3>2
  <2> QED
    BY <1>2, <1>3, <2>1, <2>2 DEF CallsAwaited
<1>6. SqlAccounted'
  <2> SUFFICES ASSUME NEW p \in Requests, NEW e \in RanBy(p)
               PROVE  \/ e \in stored[route[p]]
                      \/ e \in Range(appQueue) /\ app'[p] = "running" /\ handler[p] = "forwarding"
                      \/ \E o \in Requests : e \in Carried(o) /\ handler[o] = "forwarding"
    BY <1>2, <1>3 DEF SqlAccounted, RanBy, Carried, Range
  <2>1. app[p] = "running" => app'[p] = "running"
    BY <1>2
  <2> QED
    BY <2>1 DEF SqlAccounted
<1> QED
  BY <1>4, <1>5, <1>6

\* What a call that has ended carried is stored.
LEMMA CalmPostDone ==
    ASSUME PipelineInv, IInv, CalmInv, NEW q \in Requests, PostDone(q)
    PROVE  CalmInv'
<1> DEFINE b == outbox[q][1]
<1> USE DEF CalmInv
<1>1. /\ outbox[q] \in Seq(Batch) /\ outbox[q] # <<>> /\ app[q] = "posting"
      /\ Head(outbox[q]) = b /\ handler[q] = "forwarding"
      /\ UNCHANGED <<vars, ran, appQueue>>
  BY DEF PostDone, PipelineInv, PipelineTypeOK, AppMatchesProxy, ProxyWaits
<1>2. UNCHANGED <<stored, status, ordered, phase, draft, handler, route, ingests>>
  BY <1>1 DEF vars, store, sessionState, requestState
<1>3. /\ outbox'[q] = Tail(outbox[q]) /\ app'[q] \in {"replied", "flushing"}
      /\ \A p \in Requests : p # q => outbox'[p] = outbox[p] /\ app'[p] = app[p]
  BY DEF PostDone, PipelineInv, PipelineTypeOK
<1>4. \A i \in ingests : i.events # b.events
  BY <1>1 DEF PostDone
<1>5. b.events \subseteq stored[b.rec]
  BY <1>1, <1>4 DEF CallsAwaited
<1>6. \A e \in b.events : route[e.req] = b.rec
  BY <1>1 DEF PipelineInv, RightlyAddressed
<1>7. Carried(q) \subseteq b.events \cup Carried(q)'
  <2> SUFFICES ASSUME NEW j \in DOMAIN outbox[q], j # 1
               PROVE  outbox[q][j].events \subseteq Carried(q)'
    BY DEF Carried
  <2>1. /\ DOMAIN outbox[q] = 1 .. Len(outbox[q]) /\ Len(outbox[q]) \in Nat
        /\ DOMAIN Tail(outbox[q]) = 1 .. Len(outbox[q]) - 1
        /\ \A k \in DOMAIN Tail(outbox[q]) : Tail(outbox[q])[k] = outbox[q][k + 1]
    BY <1>1, TailIndex
  <2>2. j - 1 \in DOMAIN Tail(outbox[q]) /\ Tail(outbox[q])[j - 1] = outbox[q][j]
    BY <2>1
  <2> QED
    BY <1>3, <2>2 DEF Carried
<1>8. \A p \in Requests : p # q => Carried(p)' = Carried(p)
  BY <1>3 DEF Carried
<1> HIDE DEF b
<1>9. ProxyWaits' /\ DraftHasAll' /\ GapFree'
  BY <1>1, <1>2, <1>3 DEF ProxyWaits, DraftHasAll, GapFree
<1>10. CallsAwaited'
  <2>1. ASSUME NEW i \in ingests
        PROVE  \E p \in Requests :
                  /\ app'[p] = "posting"
                  /\ i.rec = outbox'[p][1].rec /\ i.events = outbox'[p][1].events
    <3>1. PICK p \in Requests : /\ app[p] = "posting"
                                /\ i.rec = outbox[p][1].rec /\ i.events = outbox[p][1].events
      BY DEF CallsAwaited
    <3>2. p # q
      BY <1>4, <3>1 DEF b
    <3> QED
      BY <1>3, <3>1, <3>2
  <2>2. ASSUME NEW p \in Requests, app'[p] = "posting"
        PROVE  p # q
    BY <1>3, <2>2
  <2> QED
    BY <1>2, <1>3, <2>1, <2>2 DEF CallsAwaited
<1>11. SqlAccounted'
  <2> SUFFICES ASSUME NEW p \in Requests, NEW e \in RanBy(p)
               PROVE  \/ e \in stored[route[p]]
                      \/ e \in Range(appQueue) /\ app'[p] = "running" /\ handler[p] = "forwarding"
                      \/ \E o \in Requests : e \in Carried(o)' /\ handler[o] = "forwarding"
    BY <1>1, <1>2 DEF SqlAccounted, RanBy, Range
  <2>1. app[p] = "running" => app'[p] = "running"
    BY <1>1, <1>3
  <2>2. ASSUME NEW o \in Requests, e \in Carried(o), handler[o] = "forwarding"
        PROVE  e \in stored[route[p]] \/ e \in Carried(o)'
    <3>1. CASE o # q
      BY <1>8, <2>2, <3>1
    <3>2. CASE o = q /\ e \in b.events
      BY <1>5, <1>6, <3>2 DEF RanBy
    <3>3. CASE o = q /\ e \notin b.events
      BY <1>7, <2>2, <3>3
    <3> QED
      BY <3>1, <3>2, <3>3
  <2> QED
    BY <2>1, <2>2 DEF SqlAccounted
<1> QED
  BY <1>9, <1>10, <1>11

LEMMA CalmStep ==
    ASSUME Calm, PipelineInv, IInv, CalmInv, [PipelineNext]_pipelineVars
    PROVE  CalmInv'
<1>1. CASE \E r \in Recordings : SessionStep(r) /\ UNCHANGED appState
  BY <1>1, CalmSession
<1>2. CASE \E q \in Requests, r \in Recordings : ClientSend(q, r) /\ UNCHANGED appState
  BY <1>2, CalmHandler
<1>3. CASE \E q \in Requests : (EmitRequest(q) \/ ClientLeaves(q)) /\ UNCHANGED appState
  BY <1>3, CalmHandler
<1>4. CASE \E i \in ingests : IngestStep(i) /\ UNCHANGED appState
  BY <1>4, CalmIngest
<1>5. ASSUME NEW q \in Requests, AppStep(q)
      PROVE  CalmInv'
  <2>1. CASE Arrive(q)
    BY <2>1, CalmArrive
  <2>2. CASE RunSql(q)
    BY <2>2, CalmRunSql
  <2>3. CASE Respond(q)
    BY <2>3, CalmRespond
  <2>4. CASE Post(q)
    BY <2>4, CalmPost
  <2>5. CASE PostDone(q)
    BY <2>5, CalmPostDone
  <2>6. CASE ProxyAnswers(q) \/ NeverForwarded(q)
    BY <2>6, CalmHandler DEF ProxyAnswers, NeverForwarded
  <2>7. ~ AppRaises(q) /\ ~ FlushFails(q) /\ ~ GiveUp(q)
    BY DEF AppRaises, FlushFails, GiveUp, Calm
  <2> QED
    BY <1>5, <2>1, <2>2, <2>3, <2>4, <2>5, <2>6, <2>7 DEF AppStep
<1>6. ~ ApiCrash
  BY DEF ApiCrash, Crash, Calm
<1>7. CASE UNCHANGED pipelineVars
  <2> USE DEF CalmInv, PipelineInv, PipelineTypeOK
  <2>1. UNCHANGED <<vars, app, ran, appQueue, outbox>>
    BY <1>7 DEF pipelineVars, appState
  <2>2. UNCHANGED <<stored, status, ordered, phase, draft, handler, route, ingests>>
    BY <2>1 DEF vars, store, sessionState, requestState
  <2>3. SqlAccounted'
    BY <2>1, <2>2, AccountsKept
  <2> QED
    BY <2>1, <2>2, <2>3 DEF ProxyWaits, CallsAwaited, DraftHasAll, GapFree
<1> QED
  BY <1>1, <1>2, <1>3, <1>4, <1>5, <1>6, <1>7 DEF PipelineNext

LEMMA CalmInvariance ==
    ASSUME Calm PROVE PipelineSpec => [](PipelineInv /\ IInv /\ CalmInv)
<1>1. PipelineInv /\ IInv /\ CalmInv /\ [PipelineNext]_pipelineVars => CalmInv'
  BY CalmStep
<1> QED
  BY <1>1, CalmInit, PipelineInvariance, PTL DEF PipelineSpec

-----------------------------------------------------------------------------
(* The theorems *)

\* Without faults and within one recording every statement run is a row, or waits
\* in the queue for its own request's flush, or is carried by a flush a proxy waits
\* for.
THEOREM StatementsAccounted == ASSUME Calm PROVE PipelineSpec => []SqlAccounted
<1>1. PipelineInv /\ IInv /\ CalmInv => SqlAccounted
  BY DEF CalmInv
<1> QED
  BY <1>1, CalmInvariance, PTL

\* Without faults and within one recording every row of a completed recording has
\* its place in the order: nothing is ingested behind the reading of the rows.
THEOREM NoLateRows == ASSUME Calm PROVE PipelineSpec => []GapFree
<1>1. PipelineInv /\ IInv /\ CalmInv => GapFree
  BY DEF CalmInv
<1> QED
  BY <1>1, CalmInvariance, PTL

\* Without faults and within one recording no statement is lost: a completed
\* recording has in its order all that its requests ran.
THEOREM EveryStatementKept == ASSUME Calm PROVE PipelineSpec => []NoLostEvents
<1>1. PipelineInv /\ IInv /\ CalmInv => NoLostEvents
  <2> SUFFICES ASSUME PipelineInv, IInv, CalmInv,
                      NEW q \in Requests, route[q] # NoRecording,
                      status[route[q]] = "completed", NEW e \in RanBy(q)
               PROVE  e \in ordered[route[q]]
    BY DEF NoLostEvents
  <2> USE DEF PipelineInv, PipelineTypeOK, CalmInv
  <2>1. route[q] \in Recordings
    BY DEF TypeOK
  <2>2. \A p \in Requests : handler[p] # "forwarding"
    BY <2>1, OpenWhileWaiting
  <2>3. e \in stored[route[q]]
    BY <2>2 DEF SqlAccounted
  <2> QED
    BY <2>1, <2>3 DEF GapFree
<1> QED
  BY <1>1, CalmInvariance, PTL

-----------------------------------------------------------------------------
(* The pipeline implements RecordingLifecycle *)

\* What a reader sees of the recordings, and the snapshots of the completed ones.
LifeStates == [r \in Recordings |-> LifeState(status[r])]
Sealed     == [r \in Recordings |-> IF status[r] = "completed" THEN blob[r] ELSE {}]

\* A step that leaves status and rows alone, and the snapshots of completed
\* recordings, is not seen.
LEMMA Unseen ==
    ASSUME UNCHANGED <<status, stored>>,
           \A r \in Recordings : status[r] = "completed" => blob'[r] = blob[r]
    PROVE  UNCHANGED <<LifeStates, stored, Sealed>>
  BY DEF LifeStates, Sealed

\* What a reader sees of a new status.
LEMMA StatusSeen ==
    ASSUME TypeOK, NEW r \in Recordings, NEW s \in Statuses,
           status' = [status EXCEPT ![r] = s]
    PROVE  /\ LifeStates' = [LifeStates EXCEPT ![r] = LifeState(s)]
           /\ s # "completed" /\ status[r] # "completed" /\ UNCHANGED blob
                 => UNCHANGED Sealed
           /\ s = "completed" /\ UNCHANGED blob
                 => Sealed' = [Sealed EXCEPT ![r] = blob[r]]
<1>1. \A x \in Recordings : status'[x] = IF x = r THEN s ELSE status[x]
  BY DEF TypeOK, StoreTypeOK
<1>2. LifeStates' = [x \in Recordings |-> LifeState(status'[x])]
  BY DEF LifeStates, LifeState
<1>3. LifeStates' = [LifeStates EXCEPT ![r] = LifeState(s)]
  <2>1. \A x \in Recordings :
           LifeState(status'[x]) = IF x = r THEN LifeState(s) ELSE LifeState(status[x])
    BY <1>1
  <2> QED
    BY <1>2, <2>1 DEF LifeStates
<1> QED
  BY <1>1, <1>3 DEF Sealed

\* Rows are only added to an open recording.
LEMMA RecordsRows ==
    ASSUME TypeOK, NEW r \in Recordings, NEW E \in SUBSET Events,
           status[r] = "recording", AppendEvents(r, E)
    PROVE  Lifecycle!Next
<1>1. LifeStates[r] = "open"
  BY DEF LifeStates, LifeState
<1>2. UNCHANGED <<LifeStates, Sealed>>
  BY DEF AppendEvents, LifeStates, Sealed
<1>3. Lifecycle!Record(r, E)
  BY <1>1, <1>2 DEF AppendEvents, Lifecycle!Record, LifeStates, Sealed
<1> QED
  BY <1>3 DEF Lifecycle!Next

\* A session opens a recording, records to it, fails it or seals it with its rows.
LEMMA SessionFollows ==
    ASSUME Calm, PipelineInv, IInv, CalmInv, NEW r \in Recordings, SessionStep(r)
    PROVE  Lifecycle!Next \/ UNCHANGED <<LifeStates, stored, Sealed>>
<1> USE DEF PipelineInv, PipelineTypeOK, IInv, PhaseMatchesStatus
<1>1. CASE StartSession(r)
  <2>1. /\ status[r] = "absent" /\ status' = [status EXCEPT ![r] = "recording"]
        /\ UNCHANGED <<stored, blob>>
    BY <1>1 DEF StartSession, StartRecording
  <2>2. LifeStates' = [LifeStates EXCEPT ![r] = "open"] /\ UNCHANGED Sealed
    BY <2>1, StatusSeen DEF Statuses, LifeState
  <2>3. LifeStates[r] = "absent"
    BY <2>1 DEF LifeStates, LifeState
  <2>4. Lifecycle!Open(r)
    BY <2>1, <2>2, <2>3 DEF Lifecycle!Open, LifeStates, Sealed
  <2> QED
    BY <2>4 DEF Lifecycle!Next
<1>2. CASE OpenFails(r)
  <2>1. FailRecording(r) /\ status[r] = "recording"
    BY <1>2 DEF OpenFails, Calm
  <2>2. LifeStates' = [LifeStates EXCEPT ![r] = "failed"] /\ UNCHANGED Sealed
    BY <2>1, StatusSeen DEF FailRecording, Statuses, LifeState
  <2>3. LifeStates[r] = "open"
    BY <2>1 DEF LifeStates, LifeState
  <2>4. Lifecycle!Fail(r)
    BY <2>1, <2>2, <2>3 DEF FailRecording, Lifecycle!Fail, LifeStates, Sealed
  <2> QED
    BY <2>4 DEF Lifecycle!Next
<1>3. CASE PumpAppend(r)
  <2>1. AppendEvents(r, {Head(queue[r])}) /\ status[r] = "recording"
    BY <1>3 DEF PumpAppend, PumpMatchesPhase
  <2>2. Head(queue[r]) \in Events
    BY <1>3 DEF PumpAppend, TypeOK, Events
  <2> QED
    BY <2>1, <2>2, RecordsRows
<1>4. CASE FinishSnapshot(r)
  BY <1>4, Unseen DEF FinishSnapshot, PutSnapshot, TypeOK, StoreTypeOK
<1>5. CASE FinishCommit(r)
  <2>1. /\ status[r] = "recording" /\ status' = [status EXCEPT ![r] = "completed"]
        /\ UNCHANGED <<stored, blob>>
    BY <1>5 DEF FinishCommit, CommitFinish
  <2>2. blob[r] = stored[r]
    BY <1>5 DEF FinishCommit, DraftComplete, CalmInv, DraftHasAll
  <2>3. /\ LifeStates' = [LifeStates EXCEPT ![r] = "sealed"]
        /\ Sealed' = [Sealed EXCEPT ![r] = blob[r]]
    BY <2>1, StatusSeen DEF Statuses, LifeState
  <2>4. LifeStates[r] = "open"
    BY <2>1 DEF LifeStates, LifeState
  <2>5. Lifecycle!Seal(r)
    BY <2>1, <2>2, <2>3, <2>4 DEF Lifecycle!Seal, LifeStates, Sealed
  <2> QED
    BY <2>5 DEF Lifecycle!Next
<1>6. ASSUME \/ ProxyUp(r) \/ Opened(r) \/ PumpReturns(r) \/ PumpDies(r)
             \/ StopSession(r) \/ ProxyDown(r) \/ StopRaises(r)
             \/ FinishRead(r) \/ FinishFails(r)
      PROVE  UNCHANGED store
  BY <1>6 DEF ProxyUp, Opened, PumpReturns, PumpDies, StopSession, ProxyDown,
              StopRaises, FinishRead, FinishFails
<1> QED
  BY <1>1, <1>2, <1>3, <1>4, <1>5, <1>6, Unseen DEF SessionStep, store

\* Every step of the calm pipeline is a step of the lifecycle or is not seen.
LEMMA LifecycleStep ==
    ASSUME Calm, PipelineInv, IInv, CalmInv, [PipelineNext]_pipelineVars
    PROVE  Lifecycle!Next \/ UNCHANGED <<LifeStates, stored, Sealed>>
<1>1. ASSUME NEW r \in Recordings, SessionStep(r)
      PROVE  Lifecycle!Next \/ UNCHANGED <<LifeStates, stored, Sealed>>
  BY <1>1, SessionFollows
<1>2. ASSUME NEW i \in ingests, IngestAppend(i)
      PROVE  Lifecycle!Next
  <2>1. i.rec \in Recordings /\ i.events \in SUBSET Events
    BY DEF PipelineInv, PipelineTypeOK, TypeOK, Ingest, Events
  <2>2. status[i.rec] = "recording"
    BY <2>1, OpenWhilePosting
  <2> QED
    BY <1>2, <2>1, <2>2, RecordsRows DEF IngestAppend, PipelineInv, PipelineTypeOK
<1>3. ASSUME UNCHANGED store
      PROVE  UNCHANGED <<LifeStates, stored, Sealed>>
  BY <1>3, Unseen DEF store
<1>4. ASSUME NEW i \in ingests, IngestAdmit(i) \/ IngestRefuse(i) \/ IngestFails(i)
      PROVE  UNCHANGED store
  BY <1>4 DEF IngestAdmit, IngestRefuse, IngestFails
<1>5. ASSUME NEW q \in Requests, AppStep(q)
      PROVE  UNCHANGED store
  BY <1>5 DEF AppStep, Arrive, RunSql, Respond, AppRaises, Post, PostDone, FlushFails,
              ProxyAnswers, GiveUp, NeverForwarded, IngestArrives, Answer, HandlerRaises, vars
<1>6. ASSUME \/ \E q \in Requests, r \in Recordings : ClientSend(q, r)
             \/ \E q \in Requests : EmitRequest(q) \/ ClientLeaves(q)
             \/ ApiCrash \/ UNCHANGED pipelineVars
      PROVE  UNCHANGED store
  BY <1>6 DEF ClientSend, EmitRequest, ClientLeaves, ApiCrash, Crash, pipelineVars, vars, store
<1> QED
  BY <1>1, <1>2, <1>3, <1>4, <1>5, <1>6 DEF PipelineNext, IngestStep

\* Without faults and within one recording capture keeps what a recording promises:
\* it is recorded to only while it is open, and ends once, sealed with exactly its
\* rows, or failed (the lifecycle drawn in recording/service.py).
THEOREM LifecycleFollowed == ASSUME Calm PROVE PipelineSpec => FollowsLifecycle
<1>1. PipelineInit => Lifecycle!Init
  BY DEF PipelineInit, Init, StoreInit, Lifecycle!Init, LifeState
<1>2. PipelineInv /\ IInv /\ CalmInv /\ [PipelineNext]_pipelineVars
         => [Lifecycle!Next]_<<LifeStates, stored, Sealed>>
  BY LifecycleStep
<1> QED
  BY <1>1, <1>2, CalmInvariance, PTL
     DEF PipelineSpec, FollowsLifecycle, Lifecycle!Spec, LifeStates, Sealed
=============================================================================
