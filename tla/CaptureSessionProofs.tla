------------------------ MODULE CaptureSessionProofs ------------------------
(***************************************************************************)
(* Proofs about CaptureSession, for any number of recordings, requests and *)
(* posted events and any set of faults.                                    *)
(***************************************************************************)
EXTENDS CaptureSession, TLAPS

\* What the proxy emits is an event.
LEMMA EmittedEvents ==
    \A q \in Requests :
        /\ RequestEvent(q) \in HttpEvents
        /\ ResponseEvent(q) \in HttpEvents
  BY DEF HttpEvents, RequestEvent, ResponseEvent

\* The type invariant holds initially.
LEMMA TypeInit == Init => TypeOK
  BY DEF Init, StoreInit, TypeOK, StoreTypeOK, Statuses, Phases, Ingest

\* No step of a session leaves the types.
LEMMA TypeSession ==
    ASSUME TypeOK, NEW r \in Recordings, SessionStep(r)
    PROVE  TypeOK'
<1> USE DEF TypeOK, StoreTypeOK, Statuses, Phases, requestState
<1>1. CASE StartSession(r)
  BY <1>1 DEF StartSession, StartRecording
<1>2. CASE OpenFails(r)
  BY <1>2 DEF OpenFails, FailRecording, store
<1>3. CASE ProxyUp(r)
  BY <1>3 DEF ProxyUp, store
<1>4. CASE Opened(r)
  BY <1>4 DEF Opened, store
<1>5. CASE PumpAppend(r)
  <2>1. Head(queue[r]) \in HttpEvents
    BY <1>5 DEF PumpAppend
  <2>2. stored' \in [Recordings -> SUBSET Events]
    BY <1>5, <2>1 DEF PumpAppend, AppendEvents, Events
  <2>3. queue' \in [Recordings -> Seq(HttpEvents \cup {Sentinel})]
    BY <1>5 DEF PumpAppend
  <2> QED BY <1>5, <2>2, <2>3 DEF PumpAppend, AppendEvents
<1>6. CASE PumpReturns(r)
  BY <1>6 DEF PumpReturns, store
<1>7. CASE PumpDies(r)
  BY <1>7 DEF PumpDies, store
<1>8. CASE StopSession(r)
  BY <1>8 DEF StopSession, store
<1>9. CASE ProxyDown(r)
  BY <1>9 DEF ProxyDown, store
<1>10. CASE StopRaises(r)
  BY <1>10 DEF StopRaises, Forget, store
<1>11. CASE FinishRead(r)
  BY <1>11 DEF FinishRead, store
<1>12. CASE FinishSnapshot(r)
  BY <1>12 DEF FinishSnapshot, PutSnapshot
<1>13. CASE FinishCommit(r)
  BY <1>13 DEF FinishCommit, CommitFinish, Forget
<1>14. CASE FinishFails(r)
  BY <1>14 DEF FinishFails, Forget, store
<1> QED
  BY <1>1, <1>2, <1>3, <1>4, <1>5, <1>6, <1>7, <1>8, <1>9, <1>10, <1>11,
     <1>12, <1>13, <1>14 DEF SessionStep

\* Nor does a step of a handler, of an ingest call, or a crash.
LEMMA TypeOther ==
    ASSUME TypeOK, Next
    PROVE  TypeOK'
<1> USE DEF TypeOK, StoreTypeOK
<1>1. ASSUME NEW r \in Recordings, SessionStep(r)
      PROVE  TypeOK'
  BY <1>1, TypeSession
<1>2. ASSUME NEW q \in Requests, NEW r \in Recordings, ClientSend(q, r)
      PROVE  TypeOK'
  BY <1>2 DEF ClientSend, store, sessionState
<1>3. ASSUME NEW q \in Requests, EmitRequest(q) \/ Answer(q)
      PROVE  TypeOK'
  <2>1. queue' \in [Recordings -> Seq(HttpEvents \cup {Sentinel})]
    <3>1. RequestEvent(q) \in HttpEvents /\ ResponseEvent(q) \in HttpEvents
      BY EmittedEvents
    <3>2. CASE route[q] \in Recordings
      <4>1. CASE EmitRequest(q)
        BY <3>1, <3>2, <4>1 DEF EmitRequest
      <4>2. CASE Answer(q)
        BY <3>1, <3>2, <4>2 DEF Answer
      <4> QED BY <1>3, <4>1, <4>2
    <3>3. CASE route[q] \notin Recordings
      BY <1>3, <3>3 DEF EmitRequest, Answer
    <3> QED BY <3>2, <3>3
  <2> QED BY <1>3, <2>1 DEF EmitRequest, Answer, store
<1>4. ASSUME NEW q \in Requests, ClientLeaves(q) \/ HandlerRaises(q)
      PROVE  TypeOK'
  BY <1>4 DEF ClientLeaves, HandlerRaises, store, sessionState
<1>5. ASSUME NEW r \in Recordings, NEW E \in SUBSET SqlEvents, IngestArrives(r, E)
      PROVE  TypeOK'
  BY <1>5 DEF IngestArrives, Ingest, store, sessionState, requestState
<1>6. ASSUME NEW i \in ingests, IngestStep(i)
      PROVE  TypeOK'
  <2>1. i \in Ingest
    OBVIOUS
  <2>2. CASE IngestAdmit(i)
    <3>1. [i EXCEPT !.stage = "admitted"] \in Ingest
      BY <2>1 DEF Ingest
    <3> QED BY <2>2, <3>1 DEF IngestAdmit, store, sessionState, requestState
  <2>3. CASE IngestRefuse(i)
    BY <2>3 DEF IngestRefuse, store, sessionState, requestState
  <2>4. CASE IngestAppend(i)
    BY <2>1, <2>4 DEF IngestAppend, AppendEvents, Ingest, Events, sessionState, requestState
  <2>5. CASE IngestFails(i)
    BY <2>5 DEF IngestFails, store, sessionState, requestState
  <2> QED BY <1>6, <2>2, <2>3, <2>4, <2>5 DEF IngestStep
<1>7. CASE Crash
  BY <1>7 DEF Crash, store, Phases
<1> QED
  BY <1>1, <1>2, <1>3, <1>4, <1>5, <1>6, <1>7 DEF Next

\* TypeOK holds in every reachable state.
THEOREM Typing == Spec => []TypeOK
<1>1. TypeOK /\ [Next]_vars => TypeOK'
  <2>1. TypeOK /\ UNCHANGED vars => TypeOK'
    BY DEF TypeOK, StoreTypeOK, vars, store, sessionState, requestState
  <2> QED BY <2>1, TypeOther
<1> QED BY TypeInit, <1>1, PTL DEF Spec

-----------------------------------------------------------------------------
(* The inductive invariant *)

LEMMA EmittedSame ==
    ASSUME UNCHANGED requestState
    PROVE  \A r \in Recordings : Emitted(r)' = Emitted(r)
  BY DEF requestState, Emitted

LEMMA QueueAppend ==
    ASSUME TypeOK, NEW r \in Recordings, NEW e \in HttpEvents \cup {Sentinel}
    PROVE  Elems(Append(queue[r], e)) = Elems(queue[r]) \cup {e}
<1>1. queue[r] \in Seq(HttpEvents \cup {Sentinel})
  BY DEF TypeOK
<1> QED
  BY <1>1 DEF Elems

LEMMA ElemsTail ==
    ASSUME NEW S, NEW s \in Seq(S), s # <<>>
    PROVE  Elems(s) \subseteq {Head(s)} \cup Elems(Tail(s))
<1>1. Tail(s) \in Seq(S) /\ Len(Tail(s)) = Len(s) - 1 /\ Len(s) \in Nat
  OBVIOUS
<1>2. ASSUME NEW i \in 1 .. Len(s), i # 1
      PROVE  s[i] \in Elems(Tail(s))
  <2>1. i - 1 \in 1 .. Len(Tail(s))
    BY <1>1, <1>2
  <2>2. Tail(s)[i - 1] = s[i]
    BY <1>2, <2>1
  <2> QED
    BY <2>1, <2>2 DEF Elems
<1>3. s[1] = Head(s)
  OBVIOUS
<1> QED
  BY <1>2, <1>3 DEF Elems

\* IInv holds initially.
LEMMA IInvInit ==
    ASSUME Init
    PROVE  IInv
<1> USE DEF Init
<1>1. PhaseMatchesStatus /\ PumpMatchesPhase
  BY DEF StoreInit, PhaseMatchesStatus, PumpMatchesPhase
<1>2. HandlersMatchPhase
  BY SessionAssumption DEF HandlersMatchPhase, Handling
<1>3. SentinelLast
  BY DEF SentinelLast
<1>4. NothingLost /\ DraftComplete
  BY DEF NothingLost, DraftComplete
<1>5. CaptureComplete
  BY DEF StoreInit, CaptureComplete
<1> QED
  BY <1>1, <1>2, <1>3, <1>4, <1>5 DEF IInv

\* The steps of a session preserve IInv.
LEMMA IInvSession ==
    ASSUME TypeOK, IInv, NEW r \in Recordings, SessionStep(r)
    PROVE  IInv'
<1> USE DEF TypeOK, StoreTypeOK, IInv
<1>1. CASE StartSession(r)
  <2>0. \A x \in Recordings : Emitted(x)' = Emitted(x)
    BY <1>1, EmittedSame DEF StartSession
  <2>1. PhaseMatchesStatus'
    BY <1>1 DEF PhaseMatchesStatus, StartSession, StartRecording
  <2>2. PumpMatchesPhase'
    BY <1>1 DEF PumpMatchesPhase, PhaseMatchesStatus, StartSession, StartRecording
  <2>3. HandlersMatchPhase'
    BY <1>1 DEF HandlersMatchPhase, StartSession, StartRecording, Accepting,
       requestState
  <2>4. SentinelLast'
    BY <1>1 DEF SentinelLast, PhaseMatchesStatus, StartSession, StartRecording
  <2>5. NothingLost'
    <3>1. Emitted(r) = {}
      BY <1>1 DEF HandlersMatchPhase, Emitted, StartSession, StartRecording
    <3> QED
      BY <1>1, <2>0, <3>1 DEF NothingLost, StartSession, StartRecording
  <2>6. DraftComplete'
    BY <1>1, <2>0 DEF DraftComplete, StartSession, StartRecording
  <2>7. CaptureComplete'
    BY <1>1, <2>0 DEF CaptureComplete, StartSession, StartRecording
  <2> QED BY <2>1, <2>2, <2>3, <2>4, <2>5, <2>6, <2>7
<1>2. CASE OpenFails(r)
  <2>0. \A x \in Recordings : Emitted(x)' = Emitted(x)
    BY <1>2, EmittedSame DEF OpenFails
  <2>1. PhaseMatchesStatus'
    BY <1>2 DEF PhaseMatchesStatus, OpenFails, FailRecording, store
  <2>2. PumpMatchesPhase'
    BY <1>2 DEF PumpMatchesPhase, OpenFails, FailRecording
  <2>3. HandlersMatchPhase'
    BY <1>2 DEF HandlersMatchPhase, OpenFails, FailRecording, Accepting,
       requestState, store
  <2>4. SentinelLast'
    BY <1>2 DEF SentinelLast, OpenFails, FailRecording
  <2>5. NothingLost'
    BY <1>2, <2>0 DEF NothingLost, OpenFails, FailRecording, store
  <2>6. DraftComplete'
    BY <1>2, <2>0 DEF DraftComplete, OpenFails, FailRecording, store
  <2>7. CaptureComplete'
    BY <1>2, <2>0 DEF CaptureComplete, OpenFails, FailRecording, store
  <2> QED BY <2>1, <2>2, <2>3, <2>4, <2>5, <2>6, <2>7
<1>3. CASE ProxyUp(r)
  <2>0. \A x \in Recordings : Emitted(x)' = Emitted(x)
    BY <1>3, EmittedSame DEF ProxyUp
  <2>1. PhaseMatchesStatus'
    BY <1>3 DEF PhaseMatchesStatus, ProxyUp, store
  <2>2. PumpMatchesPhase'
    BY <1>3 DEF PumpMatchesPhase, ProxyUp
  <2>3. HandlersMatchPhase'
    BY <1>3 DEF HandlersMatchPhase, ProxyUp, Accepting, requestState, store
  <2>4. SentinelLast'
    BY <1>3 DEF SentinelLast, ProxyUp
  <2>5. NothingLost'
    BY <1>3, <2>0 DEF NothingLost, ProxyUp, store
  <2>6. DraftComplete'
    BY <1>3, <2>0 DEF DraftComplete, ProxyUp, store
  <2>7. CaptureComplete'
    BY <1>3, <2>0 DEF CaptureComplete, ProxyUp, store
  <2> QED BY <2>1, <2>2, <2>3, <2>4, <2>5, <2>6, <2>7
<1>4. CASE Opened(r)
  <2>0. \A x \in Recordings : Emitted(x)' = Emitted(x)
    BY <1>4, EmittedSame DEF Opened
  <2>1. PhaseMatchesStatus'
    BY <1>4 DEF PhaseMatchesStatus, Opened, store
  <2>2. PumpMatchesPhase'
    BY <1>4 DEF PumpMatchesPhase, Opened
  <2>3. HandlersMatchPhase'
    BY <1>4 DEF HandlersMatchPhase, Opened, Accepting, requestState, store
  <2>4. SentinelLast'
    BY <1>4 DEF SentinelLast, Opened
  <2>5. NothingLost'
    BY <1>4, <2>0 DEF NothingLost, PumpMatchesPhase, Opened, store
  <2>6. DraftComplete'
    BY <1>4, <2>0 DEF DraftComplete, Opened, store
  <2>7. CaptureComplete'
    BY <1>4, <2>0 DEF CaptureComplete, Opened, store
  <2> QED BY <2>1, <2>2, <2>3, <2>4, <2>5, <2>6, <2>7
<1>5. CASE PumpAppend(r)
  <2>0. \A x \in Recordings : Emitted(x)' = Emitted(x)
    BY <1>5, EmittedSame DEF PumpAppend
  <2>1. PhaseMatchesStatus'
    BY <1>5 DEF PhaseMatchesStatus, PumpAppend, AppendEvents
  <2>2. PumpMatchesPhase'
    BY <1>5 DEF PumpMatchesPhase, PumpAppend
  <2>3. HandlersMatchPhase'
    BY <1>5 DEF HandlersMatchPhase, PumpAppend, AppendEvents, Accepting,
       requestState
  <2>4. SentinelLast'
    <3>1. queue[r] \in Seq(HttpEvents \cup {Sentinel}) /\ queue[r] # <<>>
      BY <1>5 DEF PumpAppend
    <3>2. Len(Tail(queue[r])) = Len(queue[r]) - 1 /\ Len(queue[r]) \in Nat
      BY <3>1
    <3>3. ASSUME NEW j \in 1 .. Len(Tail(queue[r])), Tail(queue[r])[j] = Sentinel
          PROVE  j = Len(Tail(queue[r])) /\ phase[r] = "draining"
      <4>1. j + 1 \in 1 .. Len(queue[r]) /\ queue[r][j + 1] = Sentinel
        BY <3>1, <3>2, <3>3
      <4> QED BY <3>2, <4>1 DEF SentinelLast
    <3>4. \A x \in Recordings : queue'[x] = IF x = r THEN Tail(queue[r]) ELSE queue[x]
      BY <1>5 DEF PumpAppend
    <3>5. phase' = phase
      BY <1>5 DEF PumpAppend
    <3> QED
      BY <3>3, <3>4, <3>5 DEF SentinelLast
  <2>5. NothingLost'
    <3>1. Elems(queue[r]) \subseteq {Head(queue[r])} \cup Elems(queue'[r])
      BY <1>5, ElemsTail DEF PumpAppend
    <3>2. \A x \in Recordings : stored[x] \cup Elems(queue[x])
                                    \subseteq stored'[x] \cup Elems(queue'[x])
      BY <1>5, <3>1 DEF PumpAppend, AppendEvents
    <3> QED
      BY <1>5, <2>0, <3>2 DEF NothingLost, PumpAppend, AppendEvents
  <2>6. DraftComplete'
    BY <1>5, <2>0 DEF DraftComplete, PumpAppend, AppendEvents
  <2>7. CaptureComplete'
    BY <1>5, <2>0 DEF CaptureComplete, PumpAppend, AppendEvents
  <2> QED BY <2>1, <2>2, <2>3, <2>4, <2>5, <2>6, <2>7
<1>6. CASE PumpReturns(r)
  <2>0. \A x \in Recordings : Emitted(x)' = Emitted(x)
    BY <1>6, EmittedSame DEF PumpReturns
  <2>1. PhaseMatchesStatus'
    BY <1>6 DEF PhaseMatchesStatus, PumpReturns, store
  <2>2. PumpMatchesPhase'
    BY <1>6 DEF PumpMatchesPhase, SentinelLast, PumpReturns
  <2>3. HandlersMatchPhase'
    BY <1>6 DEF HandlersMatchPhase, PumpReturns, Accepting, requestState, store
  <2>4. SentinelLast'
    BY <1>6 DEF SentinelLast, PumpReturns
  <2>5. NothingLost'
    <3>1. Elems(queue[r]) \subseteq {Sentinel} \cup Elems(queue'[r])
      BY <1>6, ElemsTail DEF PumpReturns
    <3>2. \A x \in Recordings : Elems(queue[x]) \subseteq {Sentinel} \cup Elems(queue'[x])
      BY <1>6, <3>1 DEF PumpReturns
    <3>3. \A x \in Recordings : Sentinel \notin Emitted(x)
      BY EmittedEvents, SessionAssumption DEF Emitted
    <3> QED
      BY <1>6, <2>0, <3>2, <3>3 DEF NothingLost, PumpReturns, store
  <2>6. DraftComplete'
    BY <1>6, <2>0 DEF DraftComplete, PumpReturns, store
  <2>7. CaptureComplete'
    BY <1>6, <2>0 DEF CaptureComplete, PumpReturns, store
  <2> QED BY <2>1, <2>2, <2>3, <2>4, <2>5, <2>6, <2>7
<1>7. CASE PumpDies(r)
  <2>0. \A x \in Recordings : Emitted(x)' = Emitted(x)
    BY <1>7, EmittedSame DEF PumpDies
  <2>1. PhaseMatchesStatus'
    BY <1>7 DEF PhaseMatchesStatus, PumpDies, store
  <2>2. PumpMatchesPhase'
    BY <1>7 DEF PumpMatchesPhase, PumpDies
  <2>3. HandlersMatchPhase'
    BY <1>7 DEF HandlersMatchPhase, PumpDies, Accepting, requestState, store
  <2>4. SentinelLast'
    BY <1>7 DEF SentinelLast, PumpDies
  <2>5. NothingLost'
    BY <1>7, <2>0 DEF NothingLost, PumpDies, store
  <2>6. DraftComplete'
    BY <1>7, <2>0 DEF DraftComplete, PumpDies, store
  <2>7. CaptureComplete'
    BY <1>7, <2>0 DEF CaptureComplete, PumpDies, store
  <2> QED BY <2>1, <2>2, <2>3, <2>4, <2>5, <2>6, <2>7
<1>8. CASE StopSession(r)
  <2>0. \A x \in Recordings : Emitted(x)' = Emitted(x)
    BY <1>8, EmittedSame DEF StopSession
  <2>1. PhaseMatchesStatus'
    BY <1>8 DEF PhaseMatchesStatus, StopSession, store
  <2>2. PumpMatchesPhase'
    BY <1>8 DEF PumpMatchesPhase, StopSession
  <2>3. HandlersMatchPhase'
    BY <1>8 DEF HandlersMatchPhase, StopSession, Accepting, requestState, store
  <2>4. SentinelLast'
    BY <1>8 DEF SentinelLast, StopSession
  <2>5. NothingLost'
    BY <1>8, <2>0 DEF NothingLost, StopSession, store
  <2>6. DraftComplete'
    BY <1>8, <2>0 DEF DraftComplete, StopSession, store
  <2>7. CaptureComplete'
    BY <1>8, <2>0 DEF CaptureComplete, StopSession, store
  <2> QED BY <2>1, <2>2, <2>3, <2>4, <2>5, <2>6, <2>7
<1>9. CASE ProxyDown(r)
  <2>0. \A x \in Recordings : Emitted(x)' = Emitted(x)
    BY <1>9, EmittedSame DEF ProxyDown
  <2>1. PhaseMatchesStatus'
    BY <1>9 DEF PhaseMatchesStatus, ProxyDown, store
  <2>2. PumpMatchesPhase'
    BY <1>9 DEF PumpMatchesPhase, ProxyDown
  <2>3. HandlersMatchPhase'
    BY <1>9 DEF HandlersMatchPhase, ProxyDown, Accepting, requestState, store
  <2>4. SentinelLast'
    BY <1>9 DEF SentinelLast, ProxyDown
  <2>5. NothingLost'
    <3>1. Elems(queue'[r]) = Elems(queue[r]) \cup {Sentinel}
      <4>1. queue'[r] = Append(queue[r], Sentinel)
        BY <1>9 DEF ProxyDown
      <4>2. Elems(Append(queue[r], Sentinel)) = Elems(queue[r]) \cup {Sentinel}
        BY QueueAppend
      <4> QED BY <4>1, <4>2
    <3>2. \A x \in Recordings : Elems(queue[x]) \subseteq Elems(queue'[x])
      BY <1>9, <3>1 DEF ProxyDown
    <3> QED
      BY <1>9, <2>0, <3>2 DEF NothingLost, ProxyDown, store
  <2>6. DraftComplete'
    BY <1>9, <2>0 DEF DraftComplete, ProxyDown, store
  <2>7. CaptureComplete'
    BY <1>9, <2>0 DEF CaptureComplete, ProxyDown, store
  <2> QED BY <2>1, <2>2, <2>3, <2>4, <2>5, <2>6, <2>7
<1>10. CASE StopRaises(r)
  <2>0. \A x \in Recordings : Emitted(x)' = Emitted(x)
    BY <1>10, EmittedSame DEF StopRaises
  <2>1. PhaseMatchesStatus'
    BY <1>10 DEF PhaseMatchesStatus, StopRaises, Forget, store
  <2>2. PumpMatchesPhase'
    BY <1>10 DEF PumpMatchesPhase, StopRaises, Forget
  <2>3. HandlersMatchPhase'
    BY <1>10 DEF HandlersMatchPhase, StopRaises, Forget, Accepting,
       requestState, store
  <2>4. SentinelLast'
    BY <1>10 DEF SentinelLast, StopRaises, Forget
  <2>5. NothingLost'
    BY <1>10, <2>0 DEF NothingLost, StopRaises, Forget, store
  <2>6. DraftComplete'
    BY <1>10, <2>0 DEF DraftComplete, StopRaises, Forget, store
  <2>7. CaptureComplete'
    BY <1>10, <2>0 DEF CaptureComplete, StopRaises, Forget, store
  <2> QED BY <2>1, <2>2, <2>3, <2>4, <2>5, <2>6, <2>7
<1>11. CASE FinishRead(r)
  <2>0. \A x \in Recordings : Emitted(x)' = Emitted(x)
    BY <1>11, EmittedSame DEF FinishRead
  <2>1. PhaseMatchesStatus'
    BY <1>11 DEF PhaseMatchesStatus, FinishRead, store
  <2>2. PumpMatchesPhase'
    BY <1>11 DEF PumpMatchesPhase, FinishRead
  <2>3. HandlersMatchPhase'
    BY <1>11 DEF HandlersMatchPhase, FinishRead, Accepting, requestState, store
  <2>4. SentinelLast'
    BY <1>11 DEF SentinelLast, PumpMatchesPhase, FinishRead
  <2>5. NothingLost'
    BY <1>11, <2>0 DEF NothingLost, FinishRead, store
  <2>6. DraftComplete'
    <3>1. queue[r] = <<>> /\ Elems(<<>>) = {}
      BY <1>11 DEF PumpMatchesPhase, FinishRead, Elems
    <3>2. Emitted(r) \subseteq stored[r]
      BY <1>11, <3>1 DEF NothingLost, FinishRead
    <3> QED
      BY <1>11, <2>0, <3>2 DEF DraftComplete, FinishRead, store
  <2>7. CaptureComplete'
    BY <1>11, <2>0 DEF CaptureComplete, FinishRead, store
  <2> QED BY <2>1, <2>2, <2>3, <2>4, <2>5, <2>6, <2>7
<1>12. CASE FinishSnapshot(r)
  <2>0. \A x \in Recordings : Emitted(x)' = Emitted(x)
    BY <1>12, EmittedSame DEF FinishSnapshot
  <2>1. PhaseMatchesStatus'
    BY <1>12 DEF PhaseMatchesStatus, FinishSnapshot, PutSnapshot
  <2>2. PumpMatchesPhase'
    BY <1>12 DEF PumpMatchesPhase, FinishSnapshot
  <2>3. HandlersMatchPhase'
    BY <1>12 DEF HandlersMatchPhase, FinishSnapshot, PutSnapshot, Accepting,
       requestState
  <2>4. SentinelLast'
    BY <1>12 DEF SentinelLast, FinishSnapshot
  <2>5. NothingLost'
    BY <1>12, <2>0 DEF NothingLost, FinishSnapshot, PutSnapshot
  <2>6. DraftComplete'
    BY <1>12, <2>0 DEF DraftComplete, FinishSnapshot, PutSnapshot
  <2>7. CaptureComplete'
    BY <1>12, <2>0 DEF CaptureComplete, PhaseMatchesStatus, FinishSnapshot,
       PutSnapshot
  <2> QED BY <2>1, <2>2, <2>3, <2>4, <2>5, <2>6, <2>7
<1>13. CASE FinishCommit(r)
  <2>0. \A x \in Recordings : Emitted(x)' = Emitted(x)
    BY <1>13, EmittedSame DEF FinishCommit
  <2>1. PhaseMatchesStatus'
    BY <1>13 DEF PhaseMatchesStatus, FinishCommit, CommitFinish, Forget
  <2>2. PumpMatchesPhase'
    BY <1>13 DEF PumpMatchesPhase, FinishCommit, Forget
  <2>3. HandlersMatchPhase'
    BY <1>13 DEF HandlersMatchPhase, FinishCommit, CommitFinish, Forget,
       Accepting, requestState
  <2>4. SentinelLast'
    BY <1>13 DEF SentinelLast, FinishCommit, Forget
  <2>5. NothingLost'
    BY <1>13, <2>0 DEF NothingLost, FinishCommit, CommitFinish, Forget
  <2>6. DraftComplete'
    BY <1>13, <2>0 DEF DraftComplete, FinishCommit, CommitFinish, Forget
  <2>7. CaptureComplete'
    BY <1>13, <2>0 DEF CaptureComplete, PhaseMatchesStatus, DraftComplete,
       FinishCommit, CommitFinish, Forget
  <2> QED BY <2>1, <2>2, <2>3, <2>4, <2>5, <2>6, <2>7
<1>14. CASE FinishFails(r)
  <2>0. \A x \in Recordings : Emitted(x)' = Emitted(x)
    BY <1>14, EmittedSame DEF FinishFails
  <2>1. PhaseMatchesStatus'
    BY <1>14 DEF PhaseMatchesStatus, FinishFails, Forget, store
  <2>2. PumpMatchesPhase'
    BY <1>14 DEF PumpMatchesPhase, FinishFails, Forget
  <2>3. HandlersMatchPhase'
    BY <1>14 DEF HandlersMatchPhase, FinishFails, Forget, Accepting,
       requestState, store
  <2>4. SentinelLast'
    BY <1>14 DEF SentinelLast, FinishFails, Forget
  <2>5. NothingLost'
    BY <1>14, <2>0 DEF NothingLost, FinishFails, Forget, store
  <2>6. DraftComplete'
    BY <1>14, <2>0 DEF DraftComplete, FinishFails, Forget, store
  <2>7. CaptureComplete'
    BY <1>14, <2>0 DEF CaptureComplete, FinishFails, Forget, store
  <2> QED BY <2>1, <2>2, <2>3, <2>4, <2>5, <2>6, <2>7
<1> QED
  BY <1>1, <1>2, <1>3, <1>4, <1>5, <1>6, <1>7, <1>8, <1>9, <1>10, <1>11,
     <1>12, <1>13, <1>14 DEF SessionStep

\* The steps of the handlers preserve IInv: they emit only while the proxy
\* accepts, when the pump has not seen a sentinel.
LEMMA IInvHandlers ==
    ASSUME TypeOK, IInv, NEW q \in Requests,
           \/ \E r \in Recordings : ClientSend(q, r)
           \/ EmitRequest(q) \/ ClientLeaves(q)
           \/ Answer(q) \/ HandlerRaises(q)
    PROVE  IInv'
<1> USE DEF TypeOK, StoreTypeOK, IInv
<1>1. ASSUME NEW r \in Recordings, ClientSend(q, r)
      PROVE  IInv'
  <2>0. \A x \in Recordings : Emitted(x)' = Emitted(x)
    BY <1>1, SessionAssumption DEF ClientSend, Emitted, HandlersMatchPhase
  <2>1. PhaseMatchesStatus' /\ PumpMatchesPhase' /\ SentinelLast'
    BY <1>1 DEF PhaseMatchesStatus, PumpMatchesPhase, SentinelLast, ClientSend,
                sessionState, store
  <2>2. HandlersMatchPhase'
    <3>1. status[r] = "recording" /\ phase[r] \in Accepting
      BY <1>1 DEF PhaseMatchesStatus, ClientSend, Accepting
    <3>2. status' = status /\ phase' = phase
      BY <1>1 DEF ClientSend, store, sessionState
    <3>3. handler'[q] = "receiving" /\ route'[q] = r
      BY <1>1 DEF ClientSend
    <3>4. \A p \in Requests \ {q} : handler'[p] = handler[p] /\ route'[p] = route[p]
      BY <1>1 DEF ClientSend
    <3>5. ASSUME NEW p \in Requests, p # q
          PROVE  /\ handler'[p] = "idle" <=> route'[p] = NoRecording
                 /\ handler'[p] \in Handling => phase'[route'[p]] \in Accepting
                 /\ \A x \in Recordings : route'[p] = x =>
                       status'[x] # "absent" /\ phase'[x] # "starting"
      BY <3>2, <3>4, <3>5 DEF HandlersMatchPhase
    <3> QED
      BY <3>1, <3>2, <3>3, <3>5, SessionAssumption DEF HandlersMatchPhase, Accepting
  <2>3. NothingLost' /\ DraftComplete' /\ CaptureComplete'
    BY <1>1, <2>0 DEF NothingLost, DraftComplete, CaptureComplete, ClientSend,
                      sessionState, store
  <2> QED BY <2>1, <2>2, <2>3
<1>2. ASSUME NEW e \in HttpEvents, handler[q] \in Handling,
             UNCHANGED <<status, stored, ordered, blob, phase, pump, draft, route>>,
             queue' = [queue EXCEPT ![route[q]] = Append(@, e)],
             \/ handler' = [handler EXCEPT ![q] = "forwarding"]
             \/ handler' = [handler EXCEPT ![q] = "answered"],
             Emitted(route[q])' \subseteq Emitted(route[q]) \cup {e},
             \A x \in Recordings \ {route[q]} : Emitted(x)' = Emitted(x)
      PROVE  IInv'
  <2> DEFINE r == route[q]
  <2>0. r \in Recordings /\ phase[r] \in Accepting
    BY <1>2 DEF HandlersMatchPhase, Handling
  <2>2. PhaseMatchesStatus'
    BY <1>2 DEF PhaseMatchesStatus
  <2>3. PumpMatchesPhase'
    BY <1>2, <2>0 DEF PumpMatchesPhase, Accepting
  <2>4. HandlersMatchPhase'
    BY <1>2 DEF HandlersMatchPhase, Handling
  <2>5. SentinelLast'
    BY <1>2, <2>0, SessionAssumption DEF SentinelLast, Accepting
  <2>6. NothingLost'
    <3>1. Elems(queue'[r]) = Elems(queue[r]) \cup {e}
      <4>1. queue'[r] = Append(queue[r], e)
        BY <1>2, <2>0
      <4>2. Elems(Append(queue[r], e)) = Elems(queue[r]) \cup {e}
        BY <2>0, QueueAppend
      <4> QED BY <4>1, <4>2
    <3> QED
      BY <1>2, <2>0, <3>1 DEF NothingLost
  <2>7. DraftComplete'
    <3>1. Emitted(r)' \subseteq Emitted(r) \cup {e}
          /\ \A x \in Recordings \ {r} : Emitted(x)' = Emitted(x)
      BY <1>2
    <3> HIDE DEF r
    <3> QED BY <1>2, <2>0, <3>1 DEF DraftComplete, Accepting
  <2>8. CaptureComplete'
    <3>1. status[r] # "completed"
      BY <2>0 DEF PhaseMatchesStatus, Accepting
    <3>2. Emitted(r)' \subseteq Emitted(r) \cup {e}
          /\ \A x \in Recordings \ {r} : Emitted(x)' = Emitted(x)
      BY <1>2
    <3>3. UNCHANGED <<status, stored, ordered, blob>>
      BY <1>2
    <3> HIDE DEF r
    <3> QED BY <3>1, <3>2, <3>3 DEF CaptureComplete
  <2> QED BY <2>2, <2>3, <2>4, <2>5, <2>6, <2>7, <2>8
<1>3. CASE EmitRequest(q)
  <2>1. Emitted(route[q])' \subseteq Emitted(route[q]) \cup {RequestEvent(q)}
        /\ \A x \in Recordings \ {route[q]} : Emitted(x)' = Emitted(x)
    BY <1>3 DEF EmitRequest, Emitted
  <2> QED
    BY <1>2, <1>3, <2>1, EmittedEvents DEF EmitRequest, Handling, store
<1>4. CASE Answer(q)
  <2>1. Emitted(route[q])' \subseteq Emitted(route[q]) \cup {ResponseEvent(q)}
        /\ \A x \in Recordings \ {route[q]} : Emitted(x)' = Emitted(x)
    BY <1>4 DEF Answer, Emitted
  <2> QED
    BY <1>2, <1>4, <2>1, EmittedEvents DEF Answer, Handling, store
<1>5. CASE ClientLeaves(q) \/ HandlerRaises(q)
  <2>0. \A x \in Recordings : Emitted(x)' = Emitted(x)
    BY <1>5 DEF ClientLeaves, HandlerRaises, Emitted
  <2>1. PhaseMatchesStatus' /\ PumpMatchesPhase' /\ SentinelLast'
    BY <1>5 DEF PhaseMatchesStatus, PumpMatchesPhase, SentinelLast, ClientLeaves,
                HandlerRaises, sessionState, store
  <2>2. HandlersMatchPhase'
    BY <1>5 DEF HandlersMatchPhase, Handling, ClientLeaves, HandlerRaises, sessionState,
                store
  <2>3. NothingLost' /\ DraftComplete' /\ CaptureComplete'
    BY <1>5, <2>0 DEF NothingLost, DraftComplete, CaptureComplete, ClientLeaves,
                      HandlerRaises, sessionState, store
  <2> QED BY <2>1, <2>2, <2>3
<1> QED
  BY <1>1, <1>3, <1>4, <1>5

\* A step that leaves the sessions, the requests and the store alone, except
\* that event rows may be added, preserves IInv: this is all an ingest call does.
LEMMA IInvRowsAdded ==
    ASSUME TypeOK, IInv, UNCHANGED <<status, ordered, blob, sessionState, requestState>>,
           \A r \in Recordings : stored[r] \subseteq stored'[r]
    PROVE  IInv'
<1> USE DEF TypeOK, StoreTypeOK, IInv, sessionState, requestState
<1>0. \A x \in Recordings : Emitted(x)' = Emitted(x)
  BY EmittedSame
<1>1. PhaseMatchesStatus' /\ PumpMatchesPhase' /\ HandlersMatchPhase' /\ SentinelLast'
  BY DEF PhaseMatchesStatus, PumpMatchesPhase, HandlersMatchPhase, SentinelLast
<1>2. NothingLost'
  BY <1>0 DEF NothingLost
<1>3. DraftComplete'
  BY <1>0 DEF DraftComplete
<1>4. CaptureComplete'
  BY <1>0 DEF CaptureComplete
<1> QED
  BY <1>1, <1>2, <1>3, <1>4

\* A crash preserves IInv: every session is gone, the handlers with them.
LEMMA IInvCrash ==
    ASSUME TypeOK, IInv, Crash
    PROVE  IInv'
<1> USE DEF TypeOK, StoreTypeOK, IInv
<1>0. \A x \in Recordings : Emitted(x)' = Emitted(x)
  BY DEF Crash, Emitted
<1>1. PhaseMatchesStatus' /\ PumpMatchesPhase' /\ SentinelLast'
  BY DEF PhaseMatchesStatus, PumpMatchesPhase, SentinelLast, Crash, store
<1>2. HandlersMatchPhase'
  BY DEF HandlersMatchPhase, Handling, Crash, store
<1>3. NothingLost' /\ DraftComplete'
  BY DEF NothingLost, DraftComplete, Crash
<1>4. CaptureComplete'
  BY <1>0 DEF CaptureComplete, Crash, store
<1> QED
  BY <1>1, <1>2, <1>3, <1>4

\* Every step preserves IInv.
LEMMA IInvStep ==
    ASSUME TypeOK, IInv, [Next]_vars
    PROVE  IInv'
<1>1. ASSUME NEW r \in Recordings, SessionStep(r)
      PROVE  IInv'
  BY <1>1, IInvSession
<1>2. ASSUME NEW q \in Requests, NEW r \in Recordings, ClientSend(q, r)
      PROVE  IInv'
  BY <1>2, IInvHandlers
<1>3. ASSUME NEW q \in Requests,
             EmitRequest(q) \/ ClientLeaves(q) \/ Answer(q) \/ HandlerRaises(q)
      PROVE  IInv'
  BY <1>3, IInvHandlers
<1>4. ASSUME NEW r \in Recordings, NEW E \in SUBSET SqlEvents, IngestArrives(r, E)
      PROVE  IInv'
  BY <1>4, IInvRowsAdded DEF IngestArrives, store
<1>5. ASSUME NEW i \in ingests, IngestStep(i)
      PROVE  IInv'
  <2>1. UNCHANGED <<status, ordered, blob, sessionState, requestState>>
    BY <1>5 DEF IngestStep, IngestAdmit, IngestRefuse, IngestAppend, IngestFails,
                AppendEvents, store
  <2>2. \A r \in Recordings : stored[r] \subseteq stored'[r]
    BY <1>5 DEF IngestStep, IngestAdmit, IngestRefuse, IngestAppend, IngestFails,
                AppendEvents, store, TypeOK, StoreTypeOK
  <2> QED BY <2>1, <2>2, IInvRowsAdded
<1>6. CASE Crash
  BY <1>6, IInvCrash
<1>7. CASE UNCHANGED vars
  BY <1>7, IInvRowsAdded DEF vars, store
<1> QED
  BY <1>1, <1>2, <1>3, <1>4, <1>5, <1>6, <1>7 DEF Next

\* IInv holds in every reachable state.
THEOREM Invariance == Spec => []IInv
<1>1. TypeOK /\ IInv /\ [Next]_vars => IInv'
  BY IInvStep
<1>2. Init => IInv
  BY IInvInit
<1> QED BY <1>1, <1>2, Typing, PTL DEF Spec

\* A completed recording holds everything its proxy emitted, in its rows and in
\* its snapshot.
THEOREM Completeness == Spec => []CaptureComplete
<1>1. IInv => CaptureComplete
  BY DEF IInv
<1> QED BY <1>1, Invariance, PTL

-----------------------------------------------------------------------------
(* A completed recording is final *)

\* A completed recording stays completed, with the same ordered rows and the
\* same snapshot.
THEOREM Sealing == Spec => SealedForever
<1> DEFINE Kept(r) == status[r] = "completed" =>
               status'[r] = "completed" /\ ordered'[r] = ordered[r] /\ blob'[r] = blob[r]
<1>1. ASSUME TypeOK, IInv, [Next]_vars, NEW r \in Recordings
      PROVE  Kept(r)
  <2> USE DEF TypeOK, StoreTypeOK
  <2>1. ASSUME NEW x \in Recordings, SessionStep(x)
        PROVE  Kept(r)
    <3>1. status[x] \in {"absent", "recording"}
      <4>1. status[x] = "absent" \/ phase[x] # "none" \/ pump[x] = "running"
        BY <2>1 DEF SessionStep, StartSession, StartRecording, OpenFails, ProxyUp, Opened,
           PumpAppend, PumpReturns, PumpDies, StopSession, ProxyDown, StopRaises,
           FinishRead, FinishSnapshot, FinishCommit, FinishFails
      <4> QED BY <1>1, <4>1 DEF IInv, PhaseMatchesStatus, PumpMatchesPhase
    <3>2. x # r => status'[r] = status[r] /\ ordered'[r] = ordered[r] /\ blob'[r] = blob[r]
      <4>1. StartRecording(x) \/ AppendEvents(x, {Head(queue[x])}) \/ FailRecording(x)
            \/ PutSnapshot(x, draft[x]) \/ CommitFinish(x, draft[x]) \/ UNCHANGED store
        BY <2>1 DEF SessionStep, StartSession, OpenFails, ProxyUp, Opened, PumpAppend,
           PumpReturns, PumpDies, StopSession, ProxyDown, StopRaises, FinishRead,
           FinishSnapshot, FinishCommit, FinishFails
      <4> QED
        BY <1>1, <4>1 DEF StartRecording, AppendEvents, FailRecording, PutSnapshot,
                          CommitFinish, store
    <3> QED BY <3>1, <3>2
  <2>2. ASSUME NEW q \in Requests, NEW x \in Recordings, ClientSend(q, x)
        PROVE  Kept(r)
    BY <2>2 DEF ClientSend, store
  <2>3. ASSUME NEW q \in Requests,
               EmitRequest(q) \/ ClientLeaves(q) \/ Answer(q) \/ HandlerRaises(q)
        PROVE  Kept(r)
    BY <2>3 DEF EmitRequest, ClientLeaves, Answer, HandlerRaises, store
  <2>4. ASSUME NEW x \in Recordings, NEW E \in SUBSET SqlEvents, IngestArrives(x, E)
        PROVE  Kept(r)
    BY <2>4 DEF IngestArrives, store
  <2>5. ASSUME NEW i \in ingests, IngestStep(i)
        PROVE  Kept(r)
    BY <2>5 DEF IngestStep, IngestAdmit, IngestRefuse, IngestAppend, IngestFails,
                AppendEvents, store
  <2>6. CASE Crash \/ UNCHANGED vars
    BY <2>6 DEF Crash, vars, store
  <2> QED
    BY <1>1, <2>1, <2>2, <2>3, <2>4, <2>5, <2>6 DEF Next
<1>2. TypeOK /\ IInv /\ [Next]_vars => [\A r \in Recordings : Kept(r)]_vars
  BY <1>1
<1> QED BY <1>2, Typing, Invariance, PTL DEF Spec, SealedForever

-----------------------------------------------------------------------------
(* A response is stored only with its request *)

\* The events of a queue, and that requests and responses differ.
LEMMA EventsDiffer ==
    /\ \A q \in Requests : RequestEvent(q) # Sentinel /\ ResponseEvent(q) # Sentinel
    /\ \A p, q \in Requests : RequestEvent(p) # ResponseEvent(q)
    /\ \A p, q \in Requests : ResponseEvent(p) = ResponseEvent(q) => p = q
<1>1. \A q \in Requests : RequestEvent(q) # Sentinel /\ ResponseEvent(q) # Sentinel
  BY EmittedEvents, SessionAssumption
<1>2. \A p, q \in Requests : RequestEvent(p).type # ResponseEvent(q).type
  BY DEF RequestEvent, ResponseEvent
<1>3. \A q \in Requests : ResponseEvent(q).req = q
  BY DEF ResponseEvent
<1> QED
  BY <1>1, <1>2, <1>3

\* Taking the head off a queue keeps the order if the head of an event is stored.
LEMMA OrderTail ==
    ASSUME TypeOK, QueueInOrder, NEW r \in Recordings, pump[r] # "dead",
           queue[r] # <<>>, NEW S, stored[r] \subseteq S,
           Head(queue[r]) # Sentinel => Head(queue[r]) \in S
    PROVE  \A q \in Requests : \A i \in 1 .. Len(Tail(queue[r])) :
              Tail(queue[r])[i] = ResponseEvent(q) =>
                 \/ RequestEvent(q) \in S
                 \/ \E j \in 1 .. i - 1 : Tail(queue[r])[j] = RequestEvent(q)
<1> SUFFICES ASSUME NEW q \in Requests, NEW i \in 1 .. Len(Tail(queue[r])),
                    Tail(queue[r])[i] = ResponseEvent(q)
             PROVE  \/ RequestEvent(q) \in S
                    \/ \E j \in 1 .. i - 1 : Tail(queue[r])[j] = RequestEvent(q)
  OBVIOUS
<1>1. queue[r] \in Seq(HttpEvents \cup {Sentinel}) /\ Len(queue[r]) \in Nat
  BY DEF TypeOK
<1>2. Len(Tail(queue[r])) = Len(queue[r]) - 1
  BY <1>1
<1>3. \A j \in 1 .. Len(queue[r]) - 1 : Tail(queue[r])[j] = queue[r][j + 1]
  BY <1>1
<1>4. i + 1 \in 1 .. Len(queue[r]) /\ queue[r][i + 1] = ResponseEvent(q)
  BY <1>1, <1>2, <1>3
<1>5. CASE RequestEvent(q) \in stored[r]
  BY <1>5
<1>6. ASSUME NEW j \in 1 .. (i + 1) - 1, queue[r][j] = RequestEvent(q)
      PROVE  \/ RequestEvent(q) \in S
             \/ \E k \in 1 .. i - 1 : Tail(queue[r])[k] = RequestEvent(q)
  <2>1. CASE j = 1
    <3>1. Head(queue[r]) = RequestEvent(q)
      BY <1>1, <1>6, <2>1
    <3> QED
      BY <3>1, EventsDiffer
  <2>2. CASE j # 1
    <3>1. j - 1 \in 1 .. i - 1 /\ j - 1 \in 1 .. Len(queue[r]) - 1
      BY <1>1, <1>2, <2>2
    <3>2. Tail(queue[r])[j - 1] = RequestEvent(q)
      BY <1>3, <1>6, <3>1
    <3> QED
      BY <3>1, <3>2
  <2> QED
    BY <2>1, <2>2
<1> QED
  BY <1>4, <1>5, <1>6 DEF QueueInOrder

\* Putting something at the end of a queue keeps the order if what is put there is
\* not a response, or its request is stored or already in the queue.
LEMMA OrderAppend ==
    ASSUME TypeOK, QueueInOrder, NEW r \in Recordings, pump[r] # "dead",
           NEW e \in HttpEvents \cup {Sentinel},
           \A p \in Requests : e = ResponseEvent(p) =>
              RequestEvent(p) \in stored[r] \cup Elems(queue[r])
    PROVE  \A q \in Requests : \A i \in 1 .. Len(Append(queue[r], e)) :
              Append(queue[r], e)[i] = ResponseEvent(q) =>
                 \/ RequestEvent(q) \in stored[r]
                 \/ \E j \in 1 .. i - 1 : Append(queue[r], e)[j] = RequestEvent(q)
<1> SUFFICES ASSUME NEW q \in Requests, NEW i \in 1 .. Len(Append(queue[r], e)),
                    Append(queue[r], e)[i] = ResponseEvent(q)
             PROVE  \/ RequestEvent(q) \in stored[r]
                    \/ \E j \in 1 .. i - 1 : Append(queue[r], e)[j] = RequestEvent(q)
  OBVIOUS
<1> DEFINE s == queue[r]
<1>1. s \in Seq(HttpEvents \cup {Sentinel}) /\ Len(s) \in Nat
  BY DEF TypeOK
<1>2. /\ Len(Append(s, e)) = Len(s) + 1
      /\ Append(s, e)[Len(s) + 1] = e
      /\ \A j \in 1 .. Len(s) : Append(s, e)[j] = s[j]
  BY <1>1
<1>3. CASE i \in 1 .. Len(s)
  <2>1. s[i] = ResponseEvent(q)
    BY <1>2, <1>3
  <2>2. CASE RequestEvent(q) \in stored[r]
    BY <2>2
  <2>3. ASSUME NEW j \in 1 .. i - 1, s[j] = RequestEvent(q)
        PROVE  Append(s, e)[j] = RequestEvent(q)
    BY <1>1, <1>2, <1>3, <2>3
  <2> QED
    BY <1>3, <2>1, <2>2, <2>3 DEF QueueInOrder
<1>4. CASE i = Len(s) + 1
  <2>1. RequestEvent(q) \in stored[r] \cup Elems(s)
    BY <1>2, <1>4
  <2>2. ASSUME NEW j \in 1 .. Len(s), s[j] = RequestEvent(q)
        PROVE  j \in 1 .. i - 1 /\ Append(s, e)[j] = RequestEvent(q)
    BY <1>1, <1>2, <1>4, <2>2
  <2> QED
    BY <2>1, <2>2 DEF Elems
<1> QED
  BY <1>1, <1>2, <1>3, <1>4

\* A session keeps the order, and stores the head of a queue in order only.
LEMMA OrderSession ==
    ASSUME TypeOK, TypeOK', IInv, QueueInOrder, RequestStoredFirst,
           NEW r \in Recordings, SessionStep(r)
    PROVE  QueueInOrder' /\ RequestStoredFirst'
<1>1. CASE PumpAppend(r)
  <2> DEFINE h == Head(queue[r])
  <2>1. /\ pump[r] # "dead" /\ queue[r] # <<>> /\ h # Sentinel
        /\ stored' = [stored EXCEPT ![r] = @ \cup {h}]
        /\ queue' = [queue EXCEPT ![r] = Tail(@)]
        /\ pump' = pump
    BY <1>1 DEF PumpAppend, AppendEvents
  <2>2. ASSUME NEW q \in Requests, h = ResponseEvent(q)
        PROVE  RequestEvent(q) \in stored[r]
    <3>1. 1 \in 1 .. Len(queue[r]) /\ queue[r][1] = ResponseEvent(q)
      BY <2>1, <2>2 DEF TypeOK, StoreTypeOK
    <3>2. ~ \E j \in 1 .. 1 - 1 : TRUE
      OBVIOUS
    <3> QED
      BY <2>1, <3>1, <3>2 DEF QueueInOrder, TypeOK, StoreTypeOK
  <2>3. RequestStoredFirst'
    BY <2>1, <2>2 DEF RequestStoredFirst, TypeOK, StoreTypeOK
  <2>4. ASSUME NEW x \in Recordings, NEW q \in Requests, pump'[x] # "dead",
               NEW i \in 1 .. Len(queue'[x]), queue'[x][i] = ResponseEvent(q)
        PROVE  \/ RequestEvent(q) \in stored'[x]
               \/ \E j \in 1 .. i - 1 : queue'[x][j] = RequestEvent(q)
    <3>1. CASE x = r
      <4>1. stored'[r] = stored[r] \cup {h} /\ queue'[r] = Tail(queue[r])
        BY <2>1 DEF TypeOK, StoreTypeOK
      <4>2. \A o \in Requests : \A k \in 1 .. Len(Tail(queue[r])) :
               Tail(queue[r])[k] = ResponseEvent(o) =>
                  \/ RequestEvent(o) \in stored[r] \cup {h}
                  \/ \E j \in 1 .. k - 1 : Tail(queue[r])[j] = RequestEvent(o)
        BY <2>1, OrderTail
      <4> QED
        BY <2>4, <3>1, <4>1, <4>2
    <3>2. CASE x # r
      BY <2>1, <2>4, <3>2 DEF QueueInOrder, TypeOK, StoreTypeOK
    <3> QED
      BY <3>1, <3>2
  <2> QED
    BY <2>3, <2>4 DEF QueueInOrder, TypeOK, StoreTypeOK
<1>2. CASE PumpReturns(r)
  <2>1. /\ pump[r] # "dead" /\ queue[r] # <<>> /\ Head(queue[r]) = Sentinel
        /\ stored' = stored
        /\ queue' = [queue EXCEPT ![r] = Tail(@)]
        /\ pump' = [pump EXCEPT ![r] = "done"]
    BY <1>2 DEF PumpReturns, store
  <2>2. RequestStoredFirst'
    BY <2>1 DEF RequestStoredFirst, TypeOK, StoreTypeOK
  <2>3. ASSUME NEW x \in Recordings, NEW q \in Requests, pump'[x] # "dead",
               NEW i \in 1 .. Len(queue'[x]), queue'[x][i] = ResponseEvent(q)
        PROVE  \/ RequestEvent(q) \in stored'[x]
               \/ \E j \in 1 .. i - 1 : queue'[x][j] = RequestEvent(q)
    <3>1. CASE x = r
      <4>1. stored'[r] = stored[r] /\ queue'[r] = Tail(queue[r])
        BY <2>1 DEF TypeOK, StoreTypeOK
      <4>2. \A o \in Requests : \A k \in 1 .. Len(Tail(queue[r])) :
               Tail(queue[r])[k] = ResponseEvent(o) =>
                  \/ RequestEvent(o) \in stored[r]
                  \/ \E j \in 1 .. k - 1 : Tail(queue[r])[j] = RequestEvent(o)
        BY <2>1, OrderTail
      <4> QED
        BY <2>3, <3>1, <4>1, <4>2
    <3>2. CASE x # r
      BY <2>1, <2>3, <3>2 DEF QueueInOrder, TypeOK, StoreTypeOK
    <3> QED
      BY <3>1, <3>2
  <2> QED
    BY <2>2, <2>3 DEF QueueInOrder, TypeOK, StoreTypeOK
<1>3. CASE ProxyDown(r)
  <2>1. /\ queue' = [queue EXCEPT ![r] = Append(@, Sentinel)]
        /\ stored' = stored /\ pump' = pump
    BY <1>3 DEF ProxyDown, store
  <2>2. RequestStoredFirst'
    BY <2>1 DEF RequestStoredFirst, TypeOK, StoreTypeOK
  <2>3. ASSUME NEW x \in Recordings, NEW q \in Requests, pump'[x] # "dead",
               NEW i \in 1 .. Len(queue'[x]), queue'[x][i] = ResponseEvent(q)
        PROVE  \/ RequestEvent(q) \in stored'[x]
               \/ \E j \in 1 .. i - 1 : queue'[x][j] = RequestEvent(q)
    <3>1. CASE x = r
      <4>1. queue'[r] = Append(queue[r], Sentinel) /\ stored'[r] = stored[r]
            /\ pump[r] # "dead"
        BY <2>1, <2>3, <3>1 DEF TypeOK, StoreTypeOK
      <4>2. \A o \in Requests : \A k \in 1 .. Len(Append(queue[r], Sentinel)) :
               Append(queue[r], Sentinel)[k] = ResponseEvent(o) =>
                  \/ RequestEvent(o) \in stored[r]
                  \/ \E j \in 1 .. k - 1 : Append(queue[r], Sentinel)[j] = RequestEvent(o)
        <5>1. Sentinel \in HttpEvents \cup {Sentinel}
              /\ \A o \in Requests : Sentinel # ResponseEvent(o)
          BY EventsDiffer
        <5> QED
          BY <4>1, <5>1, OrderAppend
      <4> QED
        BY <2>3, <3>1, <4>1, <4>2
    <3>2. CASE x # r
      BY <2>1, <2>3, <3>2 DEF QueueInOrder, TypeOK, StoreTypeOK
    <3> QED
      BY <3>1, <3>2
  <2> QED
    BY <2>2, <2>3 DEF QueueInOrder, TypeOK, StoreTypeOK
<1>4. CASE PumpDies(r)
  BY <1>4 DEF PumpDies, store, QueueInOrder, RequestStoredFirst, TypeOK, StoreTypeOK
<1>5. CASE StopRaises(r) \/ FinishCommit(r) \/ FinishFails(r)
  <2>1. /\ queue' = [queue EXCEPT ![r] = <<>>] /\ stored' = stored
        /\ pump' = [pump EXCEPT ![r] = "none"]
    BY <1>5 DEF StopRaises, FinishCommit, FinishFails, CommitFinish, Forget, store
  <2>2. RequestStoredFirst'
    BY <2>1 DEF RequestStoredFirst, TypeOK, StoreTypeOK
  <2>3. QueueInOrder'
    BY <2>1 DEF QueueInOrder, TypeOK, StoreTypeOK
  <2> QED
    BY <2>2, <2>3
<1>6. CASE Opened(r)
  <2>1. pump[r] = "none"
    BY <1>6 DEF Opened, IInv, PumpMatchesPhase
  <2> QED
    BY <1>6, <2>1 DEF Opened, store, QueueInOrder, RequestStoredFirst, TypeOK, StoreTypeOK
<1>7. CASE StartSession(r) \/ OpenFails(r) \/ ProxyUp(r) \/ StopSession(r)
           \/ FinishRead(r) \/ FinishSnapshot(r)
  <2>1. UNCHANGED <<stored, queue, pump>>
    BY <1>7 DEF StartSession, StartRecording, OpenFails, FailRecording, ProxyUp,
                StopSession, FinishRead, FinishSnapshot, PutSnapshot, store
  <2>2. QueueInOrder'
    BY <2>1 DEF QueueInOrder
  <2>3. RequestStoredFirst'
    BY <2>1 DEF RequestStoredFirst
  <2> QED
    BY <2>2, <2>3
<1> QED
  BY <1>1, <1>2, <1>3, <1>4, <1>5, <1>6, <1>7 DEF SessionStep

\* So do the handlers, which emit the request first, and the ingest calls, which
\* store no HTTP event.
LEMMA OrderStep ==
    ASSUME TypeOK, TypeOK', IInv, QueueInOrder, RequestStoredFirst, [Next]_vars
    PROVE  QueueInOrder' /\ RequestStoredFirst'
<1>1. ASSUME NEW r \in Recordings, SessionStep(r)
      PROVE  QueueInOrder' /\ RequestStoredFirst'
  BY <1>1, OrderSession
<1>2. ASSUME NEW r \in Recordings, NEW e \in HttpEvents,
             queue' = [queue EXCEPT ![r] = Append(@, e)],
             UNCHANGED <<stored, pump>>,
             pump[r] # "dead" => \A p \in Requests : e = ResponseEvent(p) =>
                RequestEvent(p) \in stored[r] \cup Elems(queue[r])
      PROVE  QueueInOrder' /\ RequestStoredFirst'
  <2>1. RequestStoredFirst'
    BY <1>2 DEF RequestStoredFirst, TypeOK, StoreTypeOK
  <2>2. ASSUME NEW x \in Recordings, NEW q \in Requests, pump'[x] # "dead",
               NEW i \in 1 .. Len(queue'[x]), queue'[x][i] = ResponseEvent(q)
        PROVE  \/ RequestEvent(q) \in stored'[x]
               \/ \E j \in 1 .. i - 1 : queue'[x][j] = RequestEvent(q)
    <3>1. CASE x = r
      <4>1. queue'[r] = Append(queue[r], e) /\ stored'[r] = stored[r] /\ pump[r] # "dead"
        BY <1>2, <2>2, <3>1 DEF TypeOK, StoreTypeOK
      <4>2. \A o \in Requests : \A k \in 1 .. Len(Append(queue[r], e)) :
               Append(queue[r], e)[k] = ResponseEvent(o) =>
                  \/ RequestEvent(o) \in stored[r]
                  \/ \E j \in 1 .. k - 1 : Append(queue[r], e)[j] = RequestEvent(o)
        BY <1>2, <4>1, OrderAppend
      <4> QED
        BY <2>2, <3>1, <4>1, <4>2
    <3>2. CASE x # r
      BY <1>2, <2>2, <3>2 DEF QueueInOrder, TypeOK, StoreTypeOK
    <3> QED
      BY <3>1, <3>2
  <2> QED
    BY <2>1, <2>2 DEF QueueInOrder, TypeOK, StoreTypeOK
<1>0. ASSUME NEW q \in Requests, handler[q] \in Handling
      PROVE  route[q] \in Recordings /\ phase[route[q]] # "none"
  <2>1. handler[q] # "idle" /\ phase[route[q]] \in Accepting
    BY <1>0 DEF IInv, HandlersMatchPhase, Handling
  <2>2. route[q] # NoRecording
    BY <2>1 DEF IInv, HandlersMatchPhase
  <2> QED
    BY <2>1, <2>2 DEF Accepting, TypeOK
<1>3. ASSUME NEW q \in Requests, EmitRequest(q)
      PROVE  QueueInOrder' /\ RequestStoredFirst'
  <2>1. route[q] \in Recordings
    BY <1>0, <1>3 DEF EmitRequest, Handling
  <2>2. RequestEvent(q) \in HttpEvents /\ \A p \in Requests : RequestEvent(q) # ResponseEvent(p)
    BY EmittedEvents, EventsDiffer
  <2> QED
    BY <1>2, <1>3, <2>1, <2>2 DEF EmitRequest, store
<1>4. ASSUME NEW q \in Requests, Answer(q)
      PROVE  QueueInOrder' /\ RequestStoredFirst'
  <2>1. route[q] \in Recordings /\ phase[route[q]] # "none"
    BY <1>0, <1>4 DEF Answer, Handling
  <2>2. RequestEvent(q) \in Emitted(route[q])
    BY <1>4 DEF Answer, Emitted
  <2>3. pump[route[q]] # "dead" =>
           RequestEvent(q) \in stored[route[q]] \cup Elems(queue[route[q]])
    BY <2>1, <2>2 DEF IInv, NothingLost
  <2>4. \A p \in Requests : ResponseEvent(q) = ResponseEvent(p) => p = q
    BY EventsDiffer
  <2>5. /\ ResponseEvent(q) \in HttpEvents
        /\ queue' = [queue EXCEPT ![route[q]] = Append(@, ResponseEvent(q))]
        /\ UNCHANGED <<stored, pump>>
    BY <1>4, EmittedEvents DEF Answer, store
  <2> QED
    BY <1>2, <2>1, <2>3, <2>4, <2>5
<1>5. ASSUME NEW i \in ingests, IngestAppend(i)
      PROVE  QueueInOrder' /\ RequestStoredFirst'
  <2>1. i.rec \in Recordings /\ i.events \subseteq SqlEvents
    BY DEF Ingest, TypeOK
  <2>2. /\ stored' = [stored EXCEPT ![i.rec] = @ \cup i.events]
        /\ UNCHANGED <<queue, pump>>
    BY <1>5 DEF IngestAppend, AppendEvents, sessionState, TypeOK, StoreTypeOK
  <2>3. \A q \in Requests : ResponseEvent(q) \notin i.events
    BY <2>1, EmittedEvents, SessionAssumption
  <2>4. \A r \in Recordings : stored[r] \subseteq stored'[r]
    BY <2>1, <2>2 DEF TypeOK, StoreTypeOK
  <2>5. RequestStoredFirst'
    BY <2>1, <2>2, <2>3, <2>4 DEF RequestStoredFirst, TypeOK, StoreTypeOK
  <2>6. QueueInOrder'
    BY <2>2, <2>4 DEF QueueInOrder, TypeOK, StoreTypeOK
  <2> QED
    BY <2>5, <2>6
<1>6. CASE Crash
  BY <1>6 DEF Crash, store, QueueInOrder, RequestStoredFirst, TypeOK, StoreTypeOK
<1>7. ASSUME \/ \E q \in Requests, r \in Recordings : ClientSend(q, r)
             \/ \E q \in Requests : ClientLeaves(q) \/ HandlerRaises(q)
             \/ \E r \in Recordings, E \in SUBSET SqlEvents : IngestArrives(r, E)
             \/ \E i \in ingests : IngestAdmit(i) \/ IngestRefuse(i) \/ IngestFails(i)
             \/ UNCHANGED vars
      PROVE  QueueInOrder' /\ RequestStoredFirst'
  <2>1. UNCHANGED <<stored, queue, pump>>
    BY <1>7 DEF ClientSend, ClientLeaves, HandlerRaises, IngestArrives, IngestAdmit, IngestRefuse, IngestFails,
                vars, store, sessionState
  <2> QED
    BY <2>1 DEF QueueInOrder, RequestStoredFirst, TypeOK, StoreTypeOK
<1> QED
  BY <1>1, <1>3, <1>4, <1>5, <1>6, <1>7 DEF Next, IngestStep

\* A response is stored only with its request, whatever fails or crashes.
THEOREM OrderOfEmission == Spec => []RequestStoredFirst
<1>1. Init => QueueInOrder /\ RequestStoredFirst
  BY DEF Init, StoreInit, QueueInOrder, RequestStoredFirst
<1>2. TypeOK /\ TypeOK' /\ IInv /\ QueueInOrder /\ RequestStoredFirst /\ [Next]_vars
         => QueueInOrder' /\ RequestStoredFirst'
  BY OrderStep
<1> QED
  BY <1>1, <1>2, Typing, Invariance, PTL DEF Spec
-----------------------------------------------------------------------------
(* A stop does not wait for ever *)

LEMMA TailKeepsLast ==
    ASSUME NEW S, NEW s \in Seq(S), s # <<>>, s[Len(s)] # Head(s)
    PROVE  Tail(s) # <<>> /\ Tail(s)[Len(Tail(s))] = s[Len(s)]
<1>1. Tail(s) \in Seq(S) /\ Len(Tail(s)) = Len(s) - 1 /\ Len(s) \in Nat /\ Len(s) # 0
  OBVIOUS
<1>2. Head(s) = s[1]
  OBVIOUS
<1>3. Len(s) # 1
  BY <1>2
<1>4. Len(s) - 1 \in 1 .. Len(Tail(s))
  BY <1>1, <1>3
<1>5. Tail(s)[Len(s) - 1] = s[(Len(s) - 1) + 1]
  BY <1>1, <1>4
<1> QED
  BY <1>1, <1>4, <1>5

LEMMA AppendIsLast ==
    ASSUME NEW S, NEW s \in Seq(S), NEW e \in S
    PROVE  Append(s, e) # <<>> /\ Append(s, e)[Len(Append(s, e))] = e
<1>1. Append(s, e) \in Seq(S) /\ Len(Append(s, e)) = Len(s) + 1 /\ Len(s) \in Nat
  OBVIOUS
<1>2. Append(s, e)[Len(s) + 1] = e
  OBVIOUS
<1>3. Len(Append(s, e)) # 0
  BY <1>1
<1> QED
  BY <1>1, <1>2, <1>3

\* What is behind the sentinel would have to be emitted by a handler that runs
\* although the proxy is down.
LEMMA DrainStep ==
    ASSUME TypeOK, IInv, DrainEnds, [Next]_vars
    PROVE  DrainEnds'
<1> USE DEF TypeOK
<1>1. ASSUME UNCHANGED <<phase, queue, pump>>
      PROVE  DrainEnds'
  BY <1>1 DEF DrainEnds
<1>2. ASSUME NEW r \in Recordings, NEW ph, ph # "draining",
             phase' = [phase EXCEPT ![r] = ph],
             \A x \in Recordings \ {r} : queue'[x] = queue[x] /\ pump'[x] = pump[x]
      PROVE  DrainEnds'
  BY <1>2 DEF DrainEnds
<1>3. ASSUME NEW r \in Recordings, PumpAppend(r) \/ PumpReturns(r) \/ PumpDies(r)
      PROVE  DrainEnds'
  <2>1. /\ queue[r] # <<>> /\ queue[r] \in Seq(HttpEvents \cup {Sentinel})
        /\ queue' = [queue EXCEPT ![r] = Tail(@)]
        /\ phase' = phase
        /\ \/ pump' = [pump EXCEPT ![r] = "done"]
           \/ pump' = [pump EXCEPT ![r] = "dead"]
           \/ pump' = pump /\ Head(queue[r]) # Sentinel
    BY <1>3 DEF PumpAppend, PumpReturns, PumpDies
  <2>2. ASSUME phase[r] = "draining", pump'[r] \notin {"done", "dead"}
        PROVE  /\ pump'[r] = "running"
               /\ queue'[r] # <<>>
               /\ queue'[r][Len(queue'[r])] = Sentinel
    <3>1. pump' = pump /\ Head(queue[r]) # Sentinel
      BY <2>1, <2>2
    <3>2. pump[r] = "running" /\ queue[r][Len(queue[r])] = Sentinel
      BY <2>2, <3>1 DEF DrainEnds
    <3> QED
      BY <2>1, <3>1, <3>2, TailKeepsLast
  <2>3. \A x \in Recordings \ {r} : queue'[x] = queue[x] /\ pump'[x] = pump[x]
    BY <2>1
  <2> QED
    BY <2>1, <2>2, <2>3 DEF DrainEnds
<1>4. ASSUME NEW r \in Recordings, ProxyDown(r)
      PROVE  DrainEnds'
  <2>1. /\ phase[r] = "stopping"
        /\ queue'[r] = Append(queue[r], Sentinel)
        /\ pump' = pump
        /\ \A x \in Recordings \ {r} : phase'[x] = phase[x] /\ queue'[x] = queue[x]
    BY <1>4 DEF ProxyDown
  <2>2. pump[r] \in {"running", "done", "dead"}
    BY <2>1 DEF IInv, PumpMatchesPhase
  <2>3. queue'[r] # <<>> /\ queue'[r][Len(queue'[r])] = Sentinel
    <3>1. queue[r] \in Seq(HttpEvents \cup {Sentinel})
      OBVIOUS
    <3>2. /\ Append(queue[r], Sentinel) # <<>>
          /\ Append(queue[r], Sentinel)[Len(Append(queue[r], Sentinel))] = Sentinel
      <4> HIDE DEF TypeOK
      <4>1. Sentinel \in HttpEvents \cup {Sentinel}
        OBVIOUS
      <4> QED
        BY Zenon, <3>1, <4>1, AppendIsLast
    <3> QED
      BY ONLY <2>1, <3>2
  <2> QED
    BY <2>1, <2>2, <2>3 DEF DrainEnds
<1>5. ASSUME NEW r \in Recordings, SessionStep(r)
      PROVE  DrainEnds'
  <2>1. CASE StartSession(r)
    BY <1>2, <2>1 DEF StartSession
  <2>2. CASE OpenFails(r)
    BY <1>2, <2>2 DEF OpenFails
  <2>3. CASE ProxyUp(r)
    BY <1>2, <2>3 DEF ProxyUp
  <2>4. CASE Opened(r)
    BY <1>2, <2>4 DEF Opened
  <2>5. CASE StopSession(r)
    BY <1>2, <2>5 DEF StopSession
  <2>6. CASE FinishRead(r)
    BY <1>2, <2>6 DEF FinishRead
  <2>7. CASE FinishSnapshot(r)
    BY <1>2, <2>7 DEF FinishSnapshot
  <2>8. CASE StopRaises(r) \/ FinishCommit(r) \/ FinishFails(r)
    BY <1>2, <2>8 DEF StopRaises, FinishCommit, FinishFails, Forget
  <2> QED
    BY <1>3, <1>4, <1>5, <2>1, <2>2, <2>3, <2>4, <2>5, <2>6, <2>7, <2>8 DEF SessionStep
<1>6. ASSUME NEW r \in Recordings, phase[r] \in Accepting, NEW e,
             queue' = [queue EXCEPT ![r] = Append(@, e)], UNCHANGED <<phase, pump>>
      PROVE  DrainEnds'
  BY <1>6 DEF DrainEnds, Accepting
<1>8. ASSUME NEW q \in Requests, EmitRequest(q) \/ Answer(q)
      PROVE  DrainEnds'
  <2>1. route[q] \in Recordings /\ phase[route[q]] \in Accepting
    BY <1>8 DEF EmitRequest, Answer, Handling, IInv, HandlersMatchPhase
  <2> QED
    BY <1>6, <1>8, <2>1 DEF EmitRequest, Answer
<1>9. ASSUME NEW i \in ingests, IngestStep(i)
      PROVE  DrainEnds'
  BY <1>1, <1>9 DEF IngestStep, IngestAdmit, IngestRefuse, IngestAppend, IngestFails,
     sessionState
<1>10. ASSUME \/ \E q \in Requests, r \in Recordings : ClientSend(q, r)
              \/ \E q \in Requests : ClientLeaves(q) \/ HandlerRaises(q)
              \/ \E r \in Recordings, E \in SUBSET SqlEvents : IngestArrives(r, E)
              \/ UNCHANGED vars
       PROVE  DrainEnds'
  BY <1>1, <1>10 DEF ClientSend, ClientLeaves, HandlerRaises, IngestArrives, sessionState,
                     vars
<1>11. CASE Crash
  BY <1>11 DEF Crash, DrainEnds
<1> QED
  BY <1>5, <1>8, <1>9, <1>10, <1>11 DEF Next

\* A stop never waits for a pump that has nothing to tell it to end, whatever fails
\* or dies meanwhile, for any number of requests and recordings.
THEOREM PumpGetsItsEnd == Spec => []DrainEnds
<1>1. Init => DrainEnds
  BY DEF Init, DrainEnds
<1> QED
  BY <1>1, DrainStep, Typing, Invariance, PTL DEF Spec
=============================================================================
