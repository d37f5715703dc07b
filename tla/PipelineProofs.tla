--------------------------- MODULE PipelineProofs ---------------------------
(***************************************************************************)
(* Proofs about CapturePipeline, for any number of recordings, requests    *)
(* and statements and any faults: the agent stays within what the session  *)
(* model allows, so that what CaptureSessionProofs proves of a session     *)
(* holds of the whole pipeline, and no statement is misfiled.              *)
(***************************************************************************)
EXTENDS CapturePipeline, CaptureSessionProofs

LEMMA PipelineInvInit == PipelineInit => PipelineInv
<1> SUFFICES ASSUME PipelineInit PROVE PipelineInv
  OBVIOUS
<1> USE DEF PipelineInit
<1>1. PipelineTypeOK
  BY TypeInit, PipelineAssumption DEF PipelineTypeOK
<1>2. AppMatchesProxy
  BY DEF AppMatchesProxy
<1>3. Posted = {} /\ Range(appQueue) = {}
  BY DEF Posted, InFlight, Landed, Init, StoreInit, Range
<1>4. \A q \in Requests : Carried(q) = {} /\ Unposted(q) = {} /\ DOMAIN outbox[q] = {}
  BY DEF Carried, Unposted
<1>5. StatementsRan
  BY <1>3, <1>4 DEF StatementsRan
<1>6. RightlyAddressed
  BY <1>4 DEF RightlyAddressed, NoCrossRecording, Init, StoreInit
<1>7. OneStation
  BY <1>3, <1>4 DEF OneStation
<1> QED
  BY <1>1, <1>2, <1>5, <1>6, <1>7 DEF PipelineInv

\* Where a posted statement can be.
LEMMA PostedSql ==
    \A e : e \in Posted <=> \/ \E i \in ingests : e \in i.events
                            \/ \E r \in Recordings : e \in stored[r]
  BY DEF Posted, InFlight, Landed

\* A flush carries statements.
LEMMA CarriedSql ==
    ASSUME PipelineTypeOK
    PROVE  \A q \in Requests : Carried(q) \subseteq SqlEvents
<1> SUFFICES ASSUME NEW q \in Requests, NEW k \in DOMAIN outbox[q]
             PROVE  outbox[q][k].events \subseteq SqlEvents
  BY DEF Carried
<1>1. outbox[q][k] \in Batch
  BY DEF PipelineTypeOK
<1> QED
  BY <1>1 DEF Batch

\* A step that drops what the flushes of D carried, if anything, and moves nothing
\* of the agent's forward: ingest calls may go on or end, their statements may
\* become rows, and routed requests stay routed.
LEMMA DroppingStep ==
    ASSUME PipelineInv, TypeOK',
           NEW D \in SUBSET Requests,
           \A q \in D : app[q] \in {"flushing", "posting"},
           app' = [q \in Requests |-> IF q \in D THEN "replied" ELSE app[q]],
           outbox' = [q \in Requests |-> IF q \in D THEN <<>> ELSE outbox[q]],
           UNCHANGED <<ran, appQueue>>,
           \A q \in Requests : route[q] \in Recordings => route'[q] = route[q],
           \A i \in ingests' : \E j \in ingests : i.rec = j.rec /\ i.events = j.events,
           \A r \in Recordings : \A e \in stored'[r] \cap SqlEvents :
              e \in stored[r] \/ \E i \in ingests : i.rec = r /\ e \in i.events
    PROVE  PipelineInv'
<1> USE DEF PipelineInv
<1>1. PipelineTypeOK'
  BY DEF PipelineTypeOK
<1>2. AppMatchesProxy'
  BY DEF AppMatchesProxy
<1>3. \A e \in SqlEvents : e \in Posted' => e \in Posted
  <2> SUFFICES ASSUME NEW e \in SqlEvents, e \in Posted'
               PROVE  e \in Posted
    OBVIOUS
  <2>1. \/ \E i \in ingests' : e \in i.events
        \/ \E r \in Recordings : e \in stored'[r]
    BY DEF Posted, InFlight, Landed
  <2> QED
    BY <2>1, PostedSql
<1>4. \A q \in Requests : Carried(q)' \subseteq Carried(q) /\ Unposted(q)' \subseteq Unposted(q)
  <2> SUFFICES ASSUME NEW q \in Requests
               PROVE  Carried(q)' \subseteq Carried(q) /\ Unposted(q)' \subseteq Unposted(q)
    OBVIOUS
  <2>1. CASE q \in D
    BY <2>1 DEF Carried, Unposted
  <2>2. CASE q \notin D
    BY <2>2 DEF Carried, Unposted
  <2> QED
    BY <2>1, <2>2
<1>5. Range(appQueue)' = Range(appQueue) /\ Range(appQueue) \subseteq SqlEvents
  BY DEF Range, PipelineTypeOK
<1>6. \A q \in Requests : Carried(q) \subseteq SqlEvents
  BY CarriedSql
<1>7. StatementsRan'
  BY <1>3, <1>4, <1>5, PipelineAssumption DEF StatementsRan
<1>8. \A q \in Requests : \A k \in DOMAIN outbox'[q] :
         q \notin D /\ outbox'[q] = outbox[q]
  OBVIOUS
<1>9. RightlyAddressed'
  <2>1. \A e \in SqlEvents, r \in Recordings : route[e.req] = r => route'[e.req] = r
    BY PipelineAssumption
  <2>2. ASSUME NEW q \in Requests, NEW k \in DOMAIN outbox'[q]
        PROVE  /\ outbox'[q][k].events # {}
               /\ \A e \in outbox'[q][k].events : route'[e.req] = outbox'[q][k].rec
    <3>1. outbox'[q] = outbox[q] /\ k \in DOMAIN outbox[q]
      BY <1>8, <2>2
    <3>2. outbox[q][k] \in Batch
      BY <3>1 DEF PipelineTypeOK
    <3> QED
      BY <2>1, <3>1, <3>2 DEF RightlyAddressed, Batch
  <2>3. ASSUME NEW i \in ingests', NEW e \in i.events
        PROVE  route'[e.req] = i.rec
    <3>1. PICK j \in ingests : i.rec = j.rec /\ i.events = j.events
      OBVIOUS
    <3>2. j \in Ingest
      BY DEF PipelineTypeOK, TypeOK
    <3> QED
      BY <2>1, <2>3, <3>1, <3>2 DEF RightlyAddressed, Ingest
  <2>4. NoCrossRecording'
    <3> SUFFICES ASSUME NEW r \in Recordings, NEW e \in stored'[r] \cap SqlEvents
                 PROVE  route'[e.req] = r
      BY DEF NoCrossRecording
    <3>1. route[e.req] = r
      BY DEF RightlyAddressed, NoCrossRecording
    <3> QED
      BY <2>1, <3>1
  <2> QED
    BY <2>2, <2>3, <2>4 DEF RightlyAddressed
<1>10. OneStation'
  <2>1. Range(appQueue)' \cap Posted' = {}
    BY <1>3, <1>5 DEF OneStation
  <2>2. ASSUME NEW q \in Requests
        PROVE  /\ Range(appQueue)' \cap Carried(q)' = {}
               /\ Unposted(q)' \cap Posted' = {}
               /\ \A p \in Requests : p # q => Carried(p)' \cap Carried(q)' = {}
    <3>1. Unposted(q) \subseteq SqlEvents
      BY <1>6 DEF Unposted, Carried
    <3> QED
      BY <1>3, <1>4, <1>5, <3>1 DEF OneStation
  <2>3. ASSUME NEW q \in Requests, NEW j \in DOMAIN outbox'[q], NEW k \in DOMAIN outbox'[q],
               j # k
        PROVE  outbox'[q][j].rec # outbox'[q][k].rec
    BY <1>8, <2>3 DEF OneStation
  <2> QED
    BY <2>1, <2>2, <2>3 DEF OneStation
<1> QED
  BY <1>1, <1>2, <1>7, <1>9, <1>10

\* A step of a session, of an ingest call or of a proxy's handler keeps the
\* pipeline's invariant.
LEMMA SessionKeeps ==
    ASSUME PipelineInv, IInv, Next, UNCHANGED appState,
           \/ \E r \in Recordings : SessionStep(r)
           \/ \E q \in Requests, r \in Recordings : ClientSend(q, r)
           \/ \E q \in Requests :
                 EmitRequest(q) \/ ClientLeaves(q) \/ Answer(q) \/ HandlerRaises(q)
           \/ \E i \in ingests : IngestStep(i)
    PROVE  PipelineInv'
<1> USE DEF PipelineInv, PipelineTypeOK
<1>1. TypeOK'
  BY TypeOther
<1>2. UNCHANGED <<app, ran, appQueue, outbox>>
  BY DEF appState
<1>3. /\ app' = [q \in Requests |-> IF q \in {} THEN "replied" ELSE app[q]]
      /\ outbox' = [q \in Requests |-> IF q \in {} THEN <<>> ELSE outbox[q]]
  BY <1>2
<1>4. SUFFICES
         /\ \A q \in Requests : route[q] \in Recordings => route'[q] = route[q]
         /\ \A i \in ingests' : \E j \in ingests : i.rec = j.rec /\ i.events = j.events
         /\ \A r \in Recordings : \A e \in stored'[r] \cap SqlEvents :
               e \in stored[r] \/ \E i \in ingests : i.rec = r /\ e \in i.events
  <2> {} \in SUBSET Requests
    OBVIOUS
  <2> QED
    BY <1>1, <1>2, <1>3, <1>4, DroppingStep
<1>5. ASSUME NEW r \in Recordings, SessionStep(r)
      PROVE  UNCHANGED requestState /\ UNCHANGED ingests
             /\ \A x \in Recordings : stored'[x] \cap SqlEvents = stored[x] \cap SqlEvents
  <2> USE DEF store
  <2>1. CASE StartSession(r)
    BY <2>1 DEF StartSession, StartRecording
  <2>2. CASE OpenFails(r)
    BY <2>2 DEF OpenFails, FailRecording
  <2>3. CASE ProxyUp(r)
    BY <2>3 DEF ProxyUp
  <2>4. CASE Opened(r)
    BY <2>4 DEF Opened
  <2>5. CASE PumpAppend(r)
    <3>1. Head(queue[r]) \in HttpEvents
      BY <2>5 DEF PumpAppend, TypeOK
    <3>2. Head(queue[r]) \notin SqlEvents
      BY <3>1, SessionAssumption
    <3>3. stored \in [Recordings -> SUBSET Events]
      BY DEF TypeOK, StoreTypeOK
    <3> QED
      BY <2>5, <3>2, <3>3 DEF PumpAppend, AppendEvents
  <2>6. CASE PumpReturns(r)
    BY <2>6 DEF PumpReturns
  <2>7. CASE PumpDies(r)
    BY <2>7 DEF PumpDies
  <2>8. CASE StopSession(r)
    BY <2>8 DEF StopSession
  <2>9. CASE ProxyDown(r)
    BY <2>9 DEF ProxyDown
  <2>10. CASE StopRaises(r)
    BY <2>10 DEF StopRaises
  <2>11. CASE FinishRead(r)
    BY <2>11 DEF FinishRead
  <2>12. CASE FinishSnapshot(r)
    BY <2>12 DEF FinishSnapshot, PutSnapshot
  <2>13. CASE FinishCommit(r)
    BY <2>13 DEF FinishCommit, CommitFinish
  <2>14. CASE FinishFails(r)
    BY <2>14 DEF FinishFails
  <2> QED
    BY <1>5, <2>1, <2>2, <2>3, <2>4, <2>5, <2>6, <2>7, <2>8, <2>9, <2>10, <2>11,
       <2>12, <2>13, <2>14 DEF SessionStep
<1>6. ASSUME NEW r \in Recordings, SessionStep(r)
      PROVE  <1>4!1
  BY <1>5, <1>6 DEF requestState
<1>7. ASSUME NEW q \in Requests, NEW r \in Recordings, ClientSend(q, r)
      PROVE  <1>4!1
  <2>1. route[q] \notin Recordings
    BY <1>7, SessionAssumption DEF ClientSend, IInv, HandlersMatchPhase
  <2> QED
    BY <1>7, <2>1 DEF ClientSend, TypeOK, store
<1>8. ASSUME NEW q \in Requests,
             EmitRequest(q) \/ ClientLeaves(q) \/ Answer(q) \/ HandlerRaises(q)
      PROVE  <1>4!1
  BY <1>8 DEF EmitRequest, ClientLeaves, Answer, HandlerRaises, store
<1>9. ASSUME NEW i \in ingests, IngestStep(i)
      PROVE  <1>4!1
  <2>1. i \in Ingest
    BY DEF TypeOK
  <2>2. UNCHANGED route
    BY <1>9 DEF IngestStep, IngestAdmit, IngestRefuse, IngestAppend, IngestFails, requestState
  <2>3. \A k \in ingests' : \E j \in ingests : k.rec = j.rec /\ k.events = j.events
    <3>1. CASE IngestAdmit(i)
      <4>1. ingests' = (ingests \ {i}) \cup {[i EXCEPT !.stage = "admitted"]}
        BY <3>1 DEF IngestAdmit
      <4>2. [i EXCEPT !.stage = "admitted"].rec = i.rec /\ [i EXCEPT !.stage = "admitted"].events = i.events
        BY <2>1 DEF Ingest
      <4> QED
        BY <4>1, <4>2
    <3>2. CASE IngestRefuse(i) \/ IngestAppend(i) \/ IngestFails(i)
      <4>1. ingests' = ingests \ {i}
        BY <3>2 DEF IngestRefuse, IngestAppend, IngestFails
      <4> QED
        BY <4>1
    <3> QED
      BY <1>9, <3>1, <3>2 DEF IngestStep
  <2>4. \A r \in Recordings : \A e \in stored'[r] \cap SqlEvents :
           e \in stored[r] \/ \E k \in ingests : k.rec = r /\ e \in k.events
    <3>1. CASE IngestAppend(i)
      BY <2>1, <3>1 DEF IngestAppend, AppendEvents, TypeOK, StoreTypeOK, Ingest
    <3>2. CASE IngestAdmit(i) \/ IngestRefuse(i) \/ IngestFails(i)
      BY <3>2 DEF IngestAdmit, IngestRefuse, IngestFails, store
    <3> QED
      BY <1>9, <3>1, <3>2 DEF IngestStep
  <2> QED
    BY <2>2, <2>3, <2>4
<1> QED
  BY <1>6, <1>7, <1>8, <1>9

\* So do the failure of a flush, and the death of the API process under it.
LEMMA FlushFailsKeeps ==
    ASSUME PipelineInv, NEW q \in Requests, FlushFails(q)
    PROVE  PipelineInv'
<1> USE DEF FlushFails, PipelineInv, PipelineTypeOK
<1>1. UNCHANGED <<store, phase, queue, pump, draft, handler, route, ingests>>
  BY DEF vars, sessionState, requestState
<1>2. TypeOK'
  BY <1>1 DEF TypeOK, StoreTypeOK, store
<1>3. stored' = stored
  BY <1>1 DEF store
<1>4. /\ app' = [p \in Requests |-> IF p \in {q} THEN "replied" ELSE app[p]]
      /\ outbox' = [p \in Requests |-> IF p \in {q} THEN <<>> ELSE outbox[p]]
  OBVIOUS
<1>5. {q} \in SUBSET Requests /\ \A p \in {q} : app[p] \in {"flushing", "posting"}
  OBVIOUS
<1> QED
  BY <1>1, <1>2, <1>3, <1>4, <1>5, DroppingStep

LEMMA ApiCrashKeeps ==
    ASSUME PipelineInv, ApiCrash
    PROVE  PipelineInv'
<1> DEFINE D == {q \in Requests : app[q] = "posting"}
<1> USE DEF ApiCrash, Crash
<1>1. TypeOK'
  BY TypeOther DEF Next, PipelineInv, PipelineTypeOK
<1>2. stored' = stored
  BY DEF store
<1>3. /\ app' = [q \in Requests |-> IF q \in D THEN "replied" ELSE app[q]]
      /\ outbox' = [q \in Requests |-> IF q \in D THEN <<>> ELSE outbox[q]]
  OBVIOUS
<1>4. D \in SUBSET Requests /\ \A q \in D : app[q] \in {"flushing", "posting"}
  OBVIOUS
<1> QED
  BY <1>1, <1>2, <1>3, <1>4, DroppingStep

\* The API's state, and with it what was posted, is untouched by the app's steps.
LEMMA SessionUntouched ==
    ASSUME TypeOK, UNCHANGED vars
    PROVE  /\ TypeOK'
           /\ UNCHANGED <<route, ingests, handler, stored>>
           /\ Posted' = Posted
           /\ NoCrossRecording' <=> NoCrossRecording
<1>1. UNCHANGED <<store, phase, queue, pump, draft, handler, route, ingests>>
  BY DEF vars, sessionState, requestState
<1>2. stored' = stored
  BY <1>1 DEF store
<1>3. TypeOK'
  BY <1>1 DEF TypeOK, StoreTypeOK, store
<1> QED
  BY <1>1, <1>2, <1>3 DEF Posted, InFlight, Landed, NoCrossRecording

\* A step of the app that touches neither the queue nor a flush.
LEMMA AppAloneKeeps ==
    ASSUME PipelineInv, UNCHANGED <<vars, ran, appQueue, outbox>>,
           NEW q \in Requests, NEW a \in {"running", "raised"},
           app[q] \in {"idle", "running"}, route[q] \in Recordings,
           app' = [app EXCEPT ![q] = a]
    PROVE  PipelineInv'
<1> USE DEF PipelineInv
<1>1. /\ TypeOK' /\ Posted' = Posted /\ NoCrossRecording'
      /\ UNCHANGED <<route, ingests, ran, appQueue, outbox>>
  BY SessionUntouched DEF PipelineTypeOK, RightlyAddressed
<1>2. Range(appQueue)' = Range(appQueue)
  BY <1>1 DEF Range
<1>3. \A p \in Requests : Carried(p)' = Carried(p) /\ Unposted(p)' = Unposted(p)
  <2> SUFFICES ASSUME NEW p \in Requests
               PROVE  Carried(p)' = Carried(p) /\ Unposted(p)' = Unposted(p)
    OBVIOUS
  <2>1. app'[p] = "flushing" <=> app[p] = "flushing"
    BY DEF PipelineTypeOK
  <2> QED
    BY <1>1, <2>1 DEF Carried, Unposted
<1>4. PipelineTypeOK'
  BY <1>1 DEF PipelineTypeOK
<1>5. AppMatchesProxy'
  BY <1>1 DEF AppMatchesProxy, PipelineTypeOK
<1>6. StatementsRan'
  BY <1>1, <1>2, <1>3 DEF StatementsRan, PipelineTypeOK
<1>7. RightlyAddressed'
  BY <1>1 DEF RightlyAddressed
<1>8. OneStation'
  BY <1>1, <1>2, <1>3 DEF OneStation
<1> QED
  BY <1>4, <1>5, <1>6, <1>7, <1>8

\* A request arrives only when its proxy has routed it.
LEMMA ArriveKeeps ==
    ASSUME PipelineInv, IInv, NEW q \in Requests, Arrive(q)
    PROVE  PipelineInv'
<1>1. route[q] \in Recordings
  BY DEF Arrive, IInv, HandlersMatchPhase, PipelineInv, PipelineTypeOK, TypeOK
<1> QED
  BY <1>1, AppAloneKeeps DEF Arrive

\* What a request had queued when the app raised stays queued.
LEMMA AppRaisesKeeps ==
    ASSUME PipelineInv, NEW q \in Requests, AppRaises(q)
    PROVE  PipelineInv'
<1>1. route[q] \in Recordings
  BY DEF AppRaises, PipelineInv, AppMatchesProxy
<1> QED
  BY <1>1, AppAloneKeeps DEF AppRaises

\* The elements of a queue after one more.
LEMMA RangeAppend ==
    ASSUME NEW S, NEW s \in Seq(S), NEW e \in S
    PROVE  Range(Append(s, e)) = Range(s) \cup {e}
<1>1. DOMAIN s = 1 .. Len(s) /\ DOMAIN Append(s, e) = 1 .. Len(s) + 1 /\ Len(s) \in Nat
  OBVIOUS
<1>2. \A i \in 1 .. Len(s) : Append(s, e)[i] = s[i]
  OBVIOUS
<1>3. Append(s, e)[Len(s) + 1] = e
  OBVIOUS
<1> QED
  BY <1>1, <1>2, <1>3 DEF Range

\* A statement that runs is new: nothing queued, carried or posted has its number.
LEMMA RunSqlKeeps ==
    ASSUME PipelineInv, NEW q \in Requests, RunSql(q)
    PROVE  PipelineInv'
<1> DEFINE new == [req |-> q, n |-> ran[q] + 1]
<1> USE DEF PipelineInv
<1>1. /\ TypeOK' /\ Posted' = Posted /\ NoCrossRecording'
      /\ UNCHANGED <<route, ingests, app, outbox>>
  BY SessionUntouched DEF RunSql, PipelineTypeOK, RightlyAddressed
<1>2. new \in SqlEvents /\ ran[q] \in 0 .. MaxSql /\ MaxSql \in Nat
  BY PipelineAssumption DEF RunSql, PipelineTypeOK
<1>3. appQueue' \in Seq(SqlEvents) /\ Range(appQueue)' = Range(appQueue) \cup {new}
  BY <1>2, RangeAppend DEF RunSql, PipelineTypeOK
<1>4. \A p \in Requests : Carried(p)' = Carried(p) /\ Unposted(p)' = Unposted(p)
  BY <1>1 DEF Carried, Unposted
<1>5. PipelineTypeOK'
  BY <1>1, <1>2, <1>3 DEF PipelineTypeOK, RunSql
<1>6. AppMatchesProxy'
  BY <1>1 DEF AppMatchesProxy, PipelineTypeOK, RunSql
<1>7. \A p \in Requests : ran'[p] \in Nat /\ ran[p] \in Nat /\ ran[p] <= ran'[p]
  BY <1>2 DEF PipelineTypeOK, RunSql
<1>8. \A e \in SqlEvents : e.req \in Requests /\ e.n \in Nat
  BY PipelineAssumption
<1>9. ran'[q] = ran[q] + 1
  BY DEF RunSql, PipelineTypeOK
<1>10. StatementsRan'
  <2> SUFFICES ASSUME NEW e \in SqlEvents,
                      \/ e \in Range(appQueue)' \cup Posted'
                      \/ \E p \in Requests : e \in Carried(p)'
               PROVE  e.n <= ran'[e.req]
    BY DEF StatementsRan
  <2>1. CASE e = new
    BY <1>2, <1>9, <2>1
  <2>2. CASE e # new
    <3>1. e.n <= ran[e.req]
      BY <1>1, <1>3, <1>4, <2>2 DEF StatementsRan
    <3> QED
      BY <3>1, <1>7, <1>8
  <2> QED
    BY <2>1, <2>2
<1>11. new \notin Posted /\ \A p \in Requests : new \notin Carried(p)
  <2>1. ~ (new.n <= ran[new.req])
    BY <1>2
  <2> QED
    BY <1>2, <2>1 DEF StatementsRan
<1>12. RightlyAddressed'
  BY <1>1 DEF RightlyAddressed
<1>13. OneStation'
  BY <1>1, <1>3, <1>4, <1>11 DEF OneStation
<1> QED
  BY <1>5, <1>6, <1>10, <1>12, <1>13

\* Posting the first batch of a flush moves it from what is unposted to what is
\* posted.
LEMMA PostKeeps ==
    ASSUME PipelineInv, NEW q \in Requests, Post(q)
    PROVE  /\ PipelineInv'
           /\ Head(outbox[q]) \in Batch
           /\ Head(outbox[q]).events # {}
           /\ Head(outbox[q]).events \cap (InFlight \cup Landed) = {}
<1> DEFINE b == outbox[q][1]
<1> USE DEF PipelineInv
<1>1. outbox[q] \in Seq(Batch) /\ outbox[q] # <<>> /\ 1 \in DOMAIN outbox[q] /\ Head(outbox[q]) = b
  BY DEF Post, PipelineTypeOK, AppMatchesProxy
<1>2. /\ b \in Batch /\ b.events # {} /\ b.rec \in Recordings
      /\ b.events \subseteq SqlEvents /\ b.events \subseteq Carried(q)
      /\ \A e \in b.events : route[e.req] = b.rec
  <2>1. b \in Batch
    BY <1>1
  <2>2. b.rec \in Recordings /\ b.events \subseteq SqlEvents
    BY <2>1 DEF Batch
  <2>3. b.events # {} /\ \A e \in b.events : route[e.req] = b.rec
    BY <1>1 DEF RightlyAddressed
  <2>4. b.events \subseteq Carried(q)
    BY <1>1 DEF Carried
  <2> QED
    BY <2>1, <2>2, <2>3, <2>4
<1>3. b.events \subseteq Unposted(q)
  BY <1>1 DEF Unposted, Post
<1>4. b.events \cap Posted = {}
  BY <1>3 DEF OneStation
<1>5. /\ ingests' = ingests \cup {[rec |-> b.rec, events |-> b.events, stage |-> "arrived"]}
      /\ UNCHANGED <<store, phase, queue, pump, draft, handler, route, ran, appQueue, outbox>>
      /\ app' = [app EXCEPT ![q] = "posting"]
  BY <1>1 DEF Post, IngestArrives, sessionState, requestState
<1>6. stored' = stored
  BY <1>5 DEF store
<1>7. [rec |-> b.rec, events |-> b.events, stage |-> "arrived"] \in Ingest
  BY <1>2 DEF Ingest
<1>8. PipelineTypeOK'
  <2>1. TypeOK'
    BY <1>5, <1>7 DEF PipelineTypeOK, TypeOK, StoreTypeOK, store
  <2> QED
    BY <1>5, <2>1 DEF PipelineTypeOK
<1>9. Posted' = Posted \cup b.events
  <2> DEFINE call == [rec |-> b.rec, events |-> b.events, stage |-> "arrived"]
  <2>1. ingests' = ingests \cup {call} /\ call.events = b.events
    BY <1>5
  <2> HIDE DEF call
  <2>2. InFlight' = InFlight \cup b.events
    BY <2>1 DEF InFlight
  <2>3. Landed' = Landed
    BY <1>6 DEF Landed
  <2> QED
    BY <2>2, <2>3 DEF Posted
<1>10. Range(appQueue)' = Range(appQueue) /\ \A p \in Requests : Carried(p)' = Carried(p)
  BY <1>5 DEF Range, Carried
<1>11. \A p \in Requests : p # q => Unposted(p)' = Unposted(p)
  BY <1>5 DEF Unposted, PipelineTypeOK
<1>12. Unposted(q)' \subseteq Unposted(q) \ b.events
  <2> SUFFICES ASSUME NEW k \in DOMAIN outbox[q], k > 1
               PROVE  /\ outbox[q][k].events \subseteq Unposted(q)
                      /\ outbox[q][k].events \cap b.events = {}
    BY <1>5 DEF Unposted, PipelineTypeOK
  <2>1. outbox[q][k].rec # b.rec
    BY <1>1 DEF OneStation
  <2> QED
    BY <1>2, <2>1 DEF Unposted, RightlyAddressed
<1>13. AppMatchesProxy'
  BY <1>1, <1>5 DEF AppMatchesProxy, PipelineTypeOK, Post
<1>14. StatementsRan'
  BY <1>2, <1>5, <1>9, <1>10 DEF StatementsRan, PipelineTypeOK, Post
<1>15. RightlyAddressed'
  BY <1>2, <1>5, <1>6 DEF RightlyAddressed, NoCrossRecording
<1>16. OneStation'
  <2>1. Range(appQueue) \cap b.events = {}
    BY <1>2 DEF OneStation
  <2>2. \A p \in Requests : Unposted(p)' \cap Posted' = {}
    <3>1. \A p \in Requests : Unposted(p) \subseteq Carried(p)
      BY DEF Unposted, Carried
    <3>2. \A p \in Requests : p # q => Unposted(p) \cap b.events = {}
      BY <1>2, <3>1 DEF OneStation
    <3> QED
      BY <1>9, <1>11, <1>12, <3>2 DEF OneStation
  <2> QED
    BY <1>5, <1>9, <1>10, <2>1, <2>2 DEF OneStation
<1> QED
  BY <1>1, <1>2, <1>4, <1>8, <1>13, <1>14, <1>15, <1>16 DEF Posted

\* The elements of a sequence after its first.
LEMMA TailIndex ==
    ASSUME NEW S, NEW s \in Seq(S), s # <<>>
    PROVE  /\ Tail(s) \in Seq(S)
           /\ DOMAIN Tail(s) = 1 .. Len(s) - 1
           /\ \A k \in DOMAIN Tail(s) : k + 1 \in DOMAIN s /\ k + 1 > 1 /\ Tail(s)[k] = s[k + 1]
           /\ Tail(s) = <<>> <=> Len(s) = 1
<1>1. Len(s) \in Nat /\ DOMAIN s = 1 .. Len(s) /\ Len(s) # 0
  OBVIOUS
<1>2. Tail(s) \in Seq(S) /\ Len(Tail(s)) = Len(s) - 1
  OBVIOUS
<1>3. DOMAIN Tail(s) = 1 .. Len(s) - 1
  BY <1>1, <1>2
<1>4. ASSUME NEW k \in DOMAIN Tail(s)
      PROVE  k + 1 \in DOMAIN s /\ k + 1 > 1 /\ Tail(s)[k] = s[k + 1]
  <2>1. k \in 1 .. Len(s) - 1
    BY <1>3
  <2>2. Tail(s)[k] = s[k + 1]
    BY <1>1, <2>1
  <2> QED
    BY <1>1, <2>1, <2>2
<1>5. Tail(s) = <<>> <=> Len(Tail(s)) = 0
  <2> DEFINE t == Tail(s)
  <2>1. t \in Seq(S)
    BY <1>2
  <2> HIDE DEF t
  <2>2. t = <<>> <=> Len(t) = 0
    BY <2>1
  <2> QED
    BY <2>2 DEF t
<1> QED
  BY <1>1, <1>2, <1>3, <1>4, <1>5

\* Once the call is over the flush goes on with what it had not posted.
LEMMA PostDoneKeeps ==
    ASSUME PipelineInv, NEW q \in Requests, PostDone(q)
    PROVE  PipelineInv'
<1> USE DEF PipelineInv
<1>1. /\ TypeOK' /\ Posted' = Posted /\ NoCrossRecording'
      /\ UNCHANGED <<route, ingests, ran, appQueue>>
  BY SessionUntouched DEF PostDone, PipelineTypeOK, RightlyAddressed
<1>2. outbox[q] \in Seq(Batch) /\ outbox[q] # <<>>
  BY DEF PostDone, PipelineTypeOK, AppMatchesProxy
<1>3. /\ Tail(outbox[q]) \in Seq(Batch)
      /\ \A k \in DOMAIN Tail(outbox[q]) :
            k + 1 \in DOMAIN outbox[q] /\ k + 1 > 1 /\ Tail(outbox[q])[k] = outbox[q][k + 1]
      /\ Tail(outbox[q]) = <<>> <=> Len(outbox[q]) = 1
  BY <1>2, TailIndex
<1>4. /\ outbox' = [outbox EXCEPT ![q] = Tail(outbox[q])]
      /\ outbox'[q] = Tail(outbox[q])
      /\ \A p \in Requests : p # q => outbox'[p] = outbox[p] /\ app'[p] = app[p]
      /\ app'[q] \in {"replied", "flushing"}
      /\ app'[q] = "replied" <=> Len(outbox[q]) = 1
  BY DEF PostDone, PipelineTypeOK
<1>5. \A p \in Requests : Carried(p)' \subseteq Carried(p) /\ Unposted(p)' \subseteq Unposted(p)
  <2>1. ASSUME NEW p \in Requests, p # q
        PROVE  Carried(p)' = Carried(p) /\ Unposted(p)' = Unposted(p)
    BY <1>4, <2>1 DEF Carried, Unposted
  <2>2. Carried(q)' \subseteq Carried(q) /\ Unposted(q)' \subseteq Unposted(q)
    <3> SUFFICES ASSUME NEW k \in DOMAIN outbox'[q]
                 PROVE  /\ outbox'[q][k].events \subseteq Carried(q)
                        /\ outbox'[q][k].events \subseteq Unposted(q)
      BY DEF Carried, Unposted
    <3>1. k + 1 \in DOMAIN outbox[q] /\ k + 1 > 1 /\ outbox'[q][k] = outbox[q][k + 1]
      BY <1>3, <1>4
    <3> QED
      BY <3>1 DEF Carried, Unposted
  <2> QED
    BY <2>1, <2>2
<1>6. Range(appQueue)' = Range(appQueue)
  BY <1>1 DEF Range
<1>7. PipelineTypeOK'
  <2>1. outbox' \in [Requests -> Seq(Batch)]
    BY <1>3, <1>4 DEF PipelineTypeOK
  <2>2. app' \in [Requests -> {"idle", "running", "flushing", "posting", "replied", "raised"}]
    BY DEF PostDone, PipelineTypeOK
  <2> QED
    BY <1>1, <2>1, <2>2 DEF PipelineTypeOK
<1>8. AppMatchesProxy'
  <2> SUFFICES ASSUME NEW p \in Requests
               PROVE  /\ app'[p] # "idle" => route[p] \in Recordings
                      /\ app'[p] = "idle" => ran[p] = 0
                      /\ outbox'[p] # <<>> <=> app'[p] \in {"flushing", "posting"}
    BY <1>1 DEF AppMatchesProxy
  <2>1. CASE p = q
    BY <1>3, <1>4, <2>1 DEF AppMatchesProxy, PostDone
  <2>2. CASE p # q
    BY <1>4, <2>2 DEF AppMatchesProxy
  <2> QED
    BY <2>1, <2>2
<1>9. StatementsRan'
  BY <1>1, <1>5, <1>6 DEF StatementsRan
<1>10. RightlyAddressed'
  <2>1. ASSUME NEW p \in Requests, NEW k \in DOMAIN outbox'[p]
        PROVE  \E j \in DOMAIN outbox[p] : outbox'[p][k] = outbox[p][j]
    BY <1>3, <1>4, <2>1
  <2> QED
    BY <1>1, <2>1 DEF RightlyAddressed
<1>11. OneStation'
  <2>1. ASSUME NEW p \in Requests, NEW j \in DOMAIN outbox'[p], NEW k \in DOMAIN outbox'[p],
               j # k
        PROVE  outbox'[p][j].rec # outbox'[p][k].rec
    <3>1. CASE p = q
      <4>1. j + 1 # k + 1
        BY <1>2, <1>4, <2>1, <3>1, TailIndex
      <4> QED
        BY <1>3, <1>4, <3>1, <4>1 DEF OneStation
    <3>2. CASE p # q
      BY <1>4, <2>1, <3>2 DEF OneStation
    <3> QED
      BY <3>1, <3>2
  <2>2. ASSUME NEW p \in Requests
        PROVE  /\ Range(appQueue) \cap Carried(p)' = {}
               /\ Unposted(p)' \cap Posted = {}
               /\ \A o \in Requests : o # p => Carried(o)' \cap Carried(p)' = {}
    BY <1>5 DEF OneStation
  <2> QED
    BY <1>1, <1>6, <2>1, <2>2 DEF OneStation
<1> QED
  BY <1>7, <1>8, <1>9, <1>10, <1>11

\* A drained queue makes one batch per recording, each statement in the batch of
\* the recording it belongs to.
LEMMA DrainedBatches ==
    ASSUME PipelineInv, NEW order \in Addressees(appQueue)
    PROVE  LET B == Batches(appQueue, order) IN
           /\ B \in Seq(Batch)
           /\ B = <<>> <=> appQueue = <<>>
           /\ \A k \in DOMAIN B :
                 /\ B[k].events # {} /\ B[k].events \subseteq Range(appQueue)
                 /\ \A e \in B[k].events : route[e.req] = B[k].rec
           /\ \A j, k \in DOMAIN B : j # k => B[j].rec # B[k].rec
           /\ \A e \in Range(appQueue) : \E k \in DOMAIN B : e \in B[k].events
<1> DEFINE B == Batches(appQueue, order)
           rec(i) == route[appQueue[i].req]
<1> USE DEF PipelineInv
<1>1. PICK n \in 0 .. Cardinality(Recordings) : order \in [1 .. n -> Recordings]
  BY DEF Addressees
<1>2. n \in Nat
  OBVIOUS
<1>3. Range(order) = {rec(i) : i \in DOMAIN appQueue}
  BY DEF Addressees
<1>4. ASSUME NEW j \in DOMAIN order, NEW k \in DOMAIN order, j # k
      PROVE  order[j] # order[k]
  <2>1. \A g, h \in DOMAIN order : g < h => order[g] # order[h]
    <3> SUFFICES ASSUME NEW g \in DOMAIN order, NEW h \in DOMAIN order, g < h
                 PROVE  order[g] # order[h]
      OBVIOUS
    <3>1. PICK i \in DOMAIN appQueue : rec(i) = order[g] /\ \A m \in 1 .. i : rec(m) # order[h]
      BY DEF Addressees
    <3>2. i \in 1 .. i
      BY DEF PipelineTypeOK
    <3> QED
      BY <3>1, <3>2
  <2> QED
    BY <1>1, <1>2, <1>4, <2>1
<1>5. /\ DOMAIN B = DOMAIN order /\ DOMAIN order = 1 .. n
      /\ \A k \in DOMAIN order :
            /\ B[k].rec = order[k]
            /\ B[k].events = {e \in Range(appQueue) : route[e.req] = order[k]}
  BY <1>1 DEF Batches
<1>6. Range(appQueue) \subseteq SqlEvents
  BY DEF Range, PipelineTypeOK
<1>7. B \in Seq(Batch)
  <2>1. \A k \in 1 .. n : B[k] \in Batch
    BY <1>1, <1>6 DEF Batches, Batch
  <2>2. B \in [1 .. n -> Batch]
    BY <1>1, <2>1 DEF Batches
  <2> QED
    BY <1>2, <2>2
<1>8. ASSUME NEW k \in DOMAIN order
      PROVE  B[k].events # {}
  <2>1. order[k] \in Range(order)
    BY DEF Range
  <2>2. PICK i \in DOMAIN appQueue : rec(i) = order[k]
    BY <1>3, <2>1
  <2>3. appQueue[i] \in Range(appQueue)
    BY DEF Range
  <2> QED
    BY <1>5, <2>2, <2>3
<1>9. B = <<>> <=> appQueue = <<>>
  <2>1. B = <<>> <=> n = 0
    BY <1>2, <1>5, <1>7
  <2>2. n = 0 <=> Range(order) = {}
    BY <1>1, <1>2 DEF Range
  <2>3. appQueue = <<>> <=> DOMAIN appQueue = {}
    BY DEF PipelineTypeOK
  <2> QED
    BY <1>3, <2>1, <2>2, <2>3
<1>10. ASSUME NEW e \in Range(appQueue)
       PROVE  \E k \in DOMAIN B : e \in B[k].events
  <2>1. PICK i \in DOMAIN appQueue : e = appQueue[i]
    BY DEF Range
  <2>2. rec(i) \in Range(order)
    BY <1>3
  <2>3. PICK k \in DOMAIN order : order[k] = route[e.req]
    BY <2>1, <2>2 DEF Range
  <2> QED
    BY <1>5, <2>3
<1> QED
  BY <1>4, <1>5, <1>7, <1>8, <1>9, <1>10

\* Respond moves the whole queue, whoever queued it, into the flush.
LEMMA RespondKeeps ==
    ASSUME PipelineInv, NEW q \in Requests, Respond(q)
    PROVE  PipelineInv'
<1> USE DEF PipelineInv
<1>1. PICK order \in Addressees(appQueue) :
         outbox' = [outbox EXCEPT ![q] = Batches(appQueue, order)]
  BY DEF Respond
<1> DEFINE B == Batches(appQueue, order)
<1>2. /\ B \in Seq(Batch)
      /\ B = <<>> <=> appQueue = <<>>
      /\ \A k \in DOMAIN B :
            /\ B[k].events # {} /\ B[k].events \subseteq Range(appQueue)
            /\ \A e \in B[k].events : route[e.req] = B[k].rec
      /\ \A j, k \in DOMAIN B : j # k => B[j].rec # B[k].rec
  BY DrainedBatches
<1> HIDE DEF B
<1>3. /\ TypeOK' /\ Posted' = Posted /\ NoCrossRecording'
      /\ UNCHANGED <<route, ingests, ran>>
  BY SessionUntouched DEF Respond, PipelineTypeOK, RightlyAddressed
<1>4. /\ outbox' = [outbox EXCEPT ![q] = B] /\ outbox'[q] = B
      /\ \A p \in Requests : p # q => outbox'[p] = outbox[p] /\ app'[p] = app[p]
      /\ app'[q] = IF appQueue = <<>> THEN "replied" ELSE "flushing"
  BY <1>1 DEF Respond, PipelineTypeOK, B
<1>5. Range(appQueue)' = {}
  BY DEF Respond, Range
<1>6. \A p \in Requests : p # q => Carried(p)' = Carried(p) /\ Unposted(p)' = Unposted(p)
  BY <1>4 DEF Carried, Unposted
<1>7. Carried(q)' \subseteq Range(appQueue)
  BY <1>2, <1>4 DEF Carried
<1>8. Unposted(q)' \subseteq Carried(q)'
  BY DEF Unposted, Carried
<1>9. PipelineTypeOK'
  <2>1. outbox' \in [Requests -> Seq(Batch)]
    BY <1>2, <1>4 DEF PipelineTypeOK
  <2>2. app' \in [Requests -> {"idle", "running", "flushing", "posting", "replied", "raised"}]
    BY DEF Respond, PipelineTypeOK
  <2>3. appQueue' \in Seq(SqlEvents)
    BY DEF Respond
  <2> QED
    BY <1>3, <2>1, <2>2, <2>3 DEF PipelineTypeOK
<1>10. AppMatchesProxy'
  <2> SUFFICES ASSUME NEW p \in Requests
               PROVE  /\ app'[p] # "idle" => route[p] \in Recordings
                      /\ app'[p] = "idle" => ran[p] = 0
                      /\ outbox'[p] # <<>> <=> app'[p] \in {"flushing", "posting"}
    BY <1>3 DEF AppMatchesProxy
  <2>1. CASE p = q
    BY <1>2, <1>4, <2>1 DEF AppMatchesProxy, Respond
  <2>2. CASE p # q
    BY <1>4, <2>2 DEF AppMatchesProxy
  <2> QED
    BY <2>1, <2>2
<1>11. StatementsRan'
  BY <1>3, <1>5, <1>6, <1>7 DEF StatementsRan
<1>12. RightlyAddressed'
  <2>1. ASSUME NEW p \in Requests, NEW k \in DOMAIN outbox'[p]
        PROVE  /\ outbox'[p][k].events # {}
               /\ \A e \in outbox'[p][k].events : route[e.req] = outbox'[p][k].rec
    <3>1. CASE p = q
      BY <1>2, <1>4, <2>1, <3>1
    <3>2. CASE p # q
      BY <1>4, <2>1, <3>2 DEF RightlyAddressed
    <3> QED
      BY <3>1, <3>2
  <2> QED
    BY <1>3, <2>1 DEF RightlyAddressed
<1>13. OneStation'
  <2>1. ASSUME NEW p \in Requests, NEW j \in DOMAIN outbox'[p], NEW k \in DOMAIN outbox'[p],
               j # k
        PROVE  outbox'[p][j].rec # outbox'[p][k].rec
    <3>1. CASE p = q
      BY <1>2, <1>4, <2>1, <3>1
    <3>2. CASE p # q
      BY <1>4, <2>1, <3>2 DEF OneStation
    <3> QED
      BY <3>1, <3>2
  <2>2. ASSUME NEW p \in Requests
        PROVE  Unposted(p)' \cap Posted' = {}
    BY <1>3, <1>6, <1>7, <1>8 DEF OneStation
  <2>3. ASSUME NEW p \in Requests, NEW o \in Requests, o # p
        PROVE  Carried(o)' \cap Carried(p)' = {}
    BY <1>6, <1>7, <2>3 DEF OneStation
  <2> QED
    BY <1>5, <2>1, <2>2, <2>3 DEF OneStation
<1> QED
  BY <1>9, <1>10, <1>11, <1>12, <1>13

-----------------------------------------------------------------------------
(* The theorems *)

\* One step of the app, its agent or its proxy keeps the invariant.
LEMMA AppStepKeeps ==
    ASSUME PipelineInv, IInv, NEW q \in Requests, AppStep(q)
    PROVE  PipelineInv'
<1>1. CASE Arrive(q)
  BY <1>1, ArriveKeeps
<1>2. CASE RunSql(q)
  BY <1>2, RunSqlKeeps
<1>3. CASE Respond(q)
  BY <1>3, RespondKeeps
<1>4. CASE AppRaises(q)
  BY <1>4, AppRaisesKeeps
<1>5. CASE Post(q)
  BY <1>5, PostKeeps
<1>6. CASE PostDone(q)
  BY <1>6, PostDoneKeeps
<1>7. CASE FlushFails(q)
  BY <1>7, FlushFailsKeeps
<1>8. CASE ProxyAnswers(q)
  BY <1>8, SessionKeeps DEF ProxyAnswers, Next
<1>9. CASE GiveUp(q)
  BY <1>9, SessionKeeps DEF GiveUp, Next
<1>10. CASE NeverForwarded(q)
  BY <1>10, SessionKeeps DEF NeverForwarded, Next
<1> QED
  BY <1>1, <1>2, <1>3, <1>4, <1>5, <1>6, <1>7, <1>8, <1>9, <1>10 DEF AppStep

\* For the API every step of the pipeline is a session step or a stutter: the
\* agent posts a statement at most once.
LEMMA PipelineStepRefines ==
    ASSUME PipelineInv, [PipelineNext]_pipelineVars
    PROVE  [Next]_vars
<1>1. CASE \E r \in Recordings : SessionStep(r) /\ UNCHANGED appState
  BY <1>1 DEF Next
<1>2. CASE \E q \in Requests, r \in Recordings : ClientSend(q, r) /\ UNCHANGED appState
  BY <1>2 DEF Next
<1>7. CASE \E q \in Requests : (EmitRequest(q) \/ ClientLeaves(q)) /\ UNCHANGED appState
  BY <1>7 DEF Next
<1>3. CASE \E i \in ingests : IngestStep(i) /\ UNCHANGED appState
  BY <1>3 DEF Next
<1>4. ASSUME NEW q \in Requests, AppStep(q)
      PROVE  [Next]_vars
  <2>1. CASE Arrive(q) \/ RunSql(q) \/ Respond(q) \/ AppRaises(q) \/ PostDone(q) \/ FlushFails(q)
    BY <2>1 DEF Arrive, RunSql, Respond, AppRaises, PostDone, FlushFails
  <2>2. CASE Post(q)
    <3> DEFINE b == Head(outbox[q])
    <3>1. b \in Batch /\ b.events # {} /\ b.events \cap (InFlight \cup Landed) = {}
      BY <2>2, PostKeeps
    <3>2. b.rec \in Recordings /\ b.events \in SUBSET SqlEvents
      BY <3>1 DEF Batch
    <3>3. IngestArrives(b.rec, b.events)
      BY <2>2 DEF Post
    <3> QED
      BY <3>1, <3>2, <3>3 DEF Next
  <2>3. CASE ProxyAnswers(q) \/ GiveUp(q) \/ NeverForwarded(q)
    BY <2>3 DEF ProxyAnswers, GiveUp, NeverForwarded, Next
  <2> QED
    BY <1>4, <2>1, <2>2, <2>3 DEF AppStep
<1>5. CASE ApiCrash
  BY <1>5 DEF ApiCrash, Next
<1>6. CASE UNCHANGED pipelineVars
  BY <1>6 DEF pipelineVars
<1> QED
  BY <1>1, <1>2, <1>3, <1>4, <1>5, <1>6, <1>7 DEF PipelineNext

LEMMA PipelineInvStep ==
    ASSUME PipelineInv, IInv, [PipelineNext]_pipelineVars
    PROVE  PipelineInv'
<1>1. ASSUME NEW r \in Recordings, SessionStep(r), UNCHANGED appState
      PROVE  PipelineInv'
  BY <1>1, SessionKeeps DEF Next
<1>2. ASSUME NEW q \in Requests, NEW r \in Recordings, ClientSend(q, r), UNCHANGED appState
      PROVE  PipelineInv'
  BY <1>2, SessionKeeps DEF Next
<1>7. ASSUME NEW q \in Requests, EmitRequest(q) \/ ClientLeaves(q), UNCHANGED appState
      PROVE  PipelineInv'
  BY <1>7, SessionKeeps DEF Next
<1>3. ASSUME NEW i \in ingests, IngestStep(i), UNCHANGED appState
      PROVE  PipelineInv'
  BY <1>3, SessionKeeps DEF Next
<1>4. ASSUME NEW q \in Requests, AppStep(q)
      PROVE  PipelineInv'
  BY <1>4, AppStepKeeps
<1>5. CASE ApiCrash
  BY <1>5, ApiCrashKeeps
<1>6. CASE UNCHANGED pipelineVars
  <2> USE DEF PipelineInv, PipelineTypeOK
  <2>1. UNCHANGED <<vars, app, ran, appQueue, outbox>>
    BY <1>6 DEF pipelineVars, appState
  <2>2. TypeOK' /\ UNCHANGED <<route, ingests, stored>>
    BY <2>1, SessionUntouched
  <2>3. /\ app' = [q \in Requests |-> IF q \in {} THEN "replied" ELSE app[q]]
        /\ outbox' = [q \in Requests |-> IF q \in {} THEN <<>> ELSE outbox[q]]
    BY <2>1
  <2>4. {} \in SUBSET Requests
    OBVIOUS
  <2> QED
    BY <2>1, <2>2, <2>3, <2>4, DroppingStep
<1> QED
  BY <1>1, <1>2, <1>3, <1>4, <1>5, <1>6, <1>7 DEF PipelineNext

\* The invariant of the pipeline holds in every state it reaches: statements are
\* queued, carried and posted once, for the recording of their request, while a
\* request's flush is under way exactly when it has something left to post.
THEOREM PipelineInvariance == PipelineSpec => [](PipelineInv /\ IInv)
<1>1. PipelineInit => PipelineInv /\ IInv
  BY PipelineInvInit, IInvInit DEF PipelineInit
<1>2. PipelineInv /\ IInv /\ [PipelineNext]_pipelineVars => (PipelineInv /\ IInv)'
  <2> SUFFICES ASSUME PipelineInv, IInv, [PipelineNext]_pipelineVars
               PROVE  PipelineInv' /\ IInv'
    OBVIOUS
  <2>1. [Next]_vars
    BY PipelineStepRefines
  <2>2. TypeOK /\ TypeOK'
    BY PipelineInvStep DEF PipelineInv, PipelineTypeOK
  <2> QED
    BY <2>1, <2>2, PipelineInvStep, IInvStep
<1> QED
  BY <1>1, <1>2, PTL DEF PipelineSpec

\* The whole pipeline implements the session model.
THEOREM PipelineRefinesSession == PipelineSpec => RefinesSession
<1>1. PipelineInit => Init
  BY DEF PipelineInit
<1>2. PipelineInv /\ [PipelineNext]_pipelineVars => [Next]_vars
  BY PipelineStepRefines
<1> QED
  BY <1>1, <1>2, PipelineInvariance, PTL DEF PipelineSpec, RefinesSession, Spec

\* What the app queues and posts stays well typed, and so does the session it runs
\* against, for any requests and statements and any faults.
THEOREM PipelineTypeOKAlways == PipelineSpec => []PipelineTypeOK
<1>1. PipelineInv => PipelineTypeOK
  BY DEF PipelineInv
<1> QED
  BY <1>1, PipelineInvariance, PTL

\* No statement is ever a row of another recording than its request's.
THEOREM NothingMisfiled == PipelineSpec => []NoCrossRecording
<1>1. PipelineInv => NoCrossRecording
  BY DEF PipelineInv, RightlyAddressed
<1> QED
  BY <1>1, PipelineInvariance, PTL

\* What holds of a session in any environment holds of it under the agent: what was
\* emitted is complete, in order and final, and a stop does not wait for ever for
\* its pump.
THEOREM PipelineKeepsCaptures ==
    PipelineSpec => []CaptureComplete /\ []RequestStoredFirst /\ []DrainEnds /\ SealedForever
<1>1. PipelineSpec => Spec
  BY PipelineRefinesSession DEF RefinesSession
<1> QED
  BY <1>1, Completeness, OrderOfEmission, PumpGetsItsEnd, Sealing
=============================================================================
