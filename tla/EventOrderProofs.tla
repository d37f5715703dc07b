-------------------------- MODULE EventOrderProofs --------------------------
(***************************************************************************)
(* Proofs about EventOrder: for any requests, any number of statements and *)
(* any clocks, what finish_recording makes of the rows of two producers is *)
(* numbered without gaps, grouped and linked; and when the clocks agree    *)
(* and advance, it is the order in which things happened.                  *)
(***************************************************************************)
EXTENDS EventOrder, CorrelateProofs

-----------------------------------------------------------------------------
(* The inductive invariant *)

Typed ==
    /\ skew \in Int /\ tick \in {0, 1} /\ now \in Int
    /\ step \in [Requests -> {"idle", "open", "sql"}]
    /\ answered \subseteq Requests /\ late \subseteq answered
    /\ \A q \in answered : step[q] # "idle" /\ (step[q] = "sql" => q \in late)
    /\ began \in [Requests -> Int]
    /\ proxySeq \in Nat /\ appSeq \in Nat
    /\ finished \in BOOLEAN

\* The event e was queued by the proxy or by the app, for the request q.
Made(e) ==
    LET q == e.id[1]
    IN /\ Row(e) /\ e.seq \in Nat
       /\ q \in Requests /\ e.corr = corr[q] /\ step[q] # "idle"
       /\ \/ /\ e.type = "http.request" /\ e.id = Id(q, "http.request", 0)
             /\ e.parent = NoParent /\ e.seq < proxySeq
          \/ /\ e.type = "http.response" /\ e.id = Id(q, "http.response", 0)
             /\ e.parent = Id(q, "http.request", 0) /\ e.seq < proxySeq
             /\ q \in answered
          \/ /\ e.type = "postgres.query" /\ e.id = Id(q, "postgres.query", e.seq)
             /\ e.parent = NoParent /\ e.seq < appSeq
          \/ /\ e.type = "postgres.result" /\ e.id = Id(q, "postgres.result", e.seq - 1)
             /\ e.parent = Id(q, "postgres.query", e.seq - 1) /\ e.seq < appSeq

\* No two rows have one id, no two rows of one producer one sequence.
Unmixed ==
    \A e, f \in rows :
        \/ e = f
        \/ e.id # f.id /\ (e.seq = f.seq => ~ (IsHttp(e) <=> IsHttp(f)))

\* Every sent request has its row, and so has every parent.
Complete ==
    /\ \A q \in Requests : step[q] # "idle" => \E e \in rows : e.id = Id(q, "http.request", 0)
    /\ \A e \in rows : e.parent # NoParent => \E f \in rows : f.id = e.parent

\* With clocks that agree and advance, every stamp is new.
Stamped ==
    /\ \A e \in rows : e.ts < now
    /\ \A e, f \in rows : e.ts = f.ts => e = f
    /\ \A q \in Requests : step[q] = "sql" =>
          /\ began[q] < now
          /\ \A e \in rows :
                /\ e.ts # began[q]
                /\ e.id[1] = q /\ (q \notin late \/ e.type = "http.request") =>
                      e.ts < began[q]
          /\ \A p \in Requests : step[p] = "sql" /\ began[p] = began[q] => p = q

\* The rows S of one request are stamped as they happened: its request first and a
\* result after its query; and unless the app worked past its response, the response
\* last and a result right after its query.
InTime(S) ==
    \A e, f \in S : e.id[1] = f.id[1] =>
        /\ e.type = "http.request" => e = f \/ e.ts < f.ts
        /\ f.type = "http.response" /\ e.id[1] \notin late => e = f \/ e.ts < f.ts
        /\ f.type = "postgres.result" /\ e.id = f.parent =>
              /\ e.ts < f.ts
              /\ e.id[1] \notin late =>
                    \A g \in S : g.id[1] = e.id[1] => g.ts <= e.ts \/ f.ts <= g.ts

Causal == InTime(rows)

\* The rows while the recording runs.
Recorded == IsFiniteSet(rows) /\ (\A e \in rows : Made(e)) /\ Unmixed /\ Complete

-----------------------------------------------------------------------------
(* What one step of a producer keeps *)

\* What a step leaves alone, grows, or decides for good.
Onward ==
    /\ corr' = corr /\ proxySeq <= proxySeq' /\ appSeq <= appSeq'
    /\ answered \subseteq answered' /\ late \subseteq late'
    /\ \A q \in Requests : step[q] # "idle" => step'[q] # "idle"

LEMMA MadeStays ==
    ASSUME Typed, Typed', Onward, NEW e, Made(e)
    PROVE  Made(e)'
<1>1. e.seq \in Nat /\ e.id[1] \in Requests
  BY DEF Made
<1>2. e.seq < proxySeq => e.seq < proxySeq'
  BY <1>1 DEF Typed, Onward
<1>3. e.seq < appSeq => e.seq < appSeq'
  BY <1>1 DEF Typed, Onward
<1> QED
  BY <1>1, <1>2, <1>3 DEF Made, Onward

\* The row of a new event.
NewRow(e, q, type, n, parent, ts, seq) ==
    /\ Row(e) /\ e.id = Id(q, type, n) /\ e.id[1] = q /\ e.corr = corr[q] /\ e.ts = ts
    /\ e.seq = seq /\ e.type = type /\ e.parent = parent

LEMMA NewRowIs ==
    ASSUME NEW q, NEW type, NEW n, NEW parent, NEW ts \in Int, NEW seq \in Int, NEW e,
           e = [id |-> Id(q, type, n), corr |-> corr[q], ts |-> ts, seq |-> seq,
                type |-> type, parent |-> parent]
    PROVE  NewRow(e, q, type, n, parent, ts, seq)
  BY DEF NewRow, Row, Id

LEMMA TypedStep == Typed /\ [Next]_vars => Typed'
<1> SUFFICES ASSUME Typed, [Next]_vars PROVE Typed'
  OBVIOUS
<1> USE DEF Typed
<1>1. ASSUME NEW q \in Requests, SendRequest(q)
      PROVE  Typed'
  BY <1>1 DEF SendRequest, Tick
<1>2. ASSUME NEW q \in Requests, BeforeStatement(q)
      PROVE  Typed'
  BY <1>2 DEF BeforeStatement, Tick
<1>3. ASSUME NEW q \in Requests, AfterStatement(q)
      PROVE  Typed'
  BY <1>3 DEF AfterStatement, Tick
<1>4. ASSUME NEW q \in Requests, SendResponse(q)
      PROVE  Typed'
  BY <1>4 DEF SendResponse, Tick
<1>5. CASE Finish
  BY <1>5 DEF Finish
<1>6. CASE UNCHANGED vars
  BY <1>6 DEF vars
<1> QED
  BY <1>1, <1>2, <1>3, <1>4, <1>5, <1>6 DEF Next

\* A producer's step, with the rows it adds: none, one, or a query and its result.
Adds(New) ==
    /\ Onward /\ rows' = rows \cup New /\ IsFiniteSet(New)
    /\ \A e \in New : Made(e)'
    /\ \A e \in New, f \in rows \cup New :
          e # f => e.id # f.id /\ (e.seq = f.seq => ~ (IsHttp(e) <=> IsHttp(f)))
    /\ \A e \in New : e.parent # NoParent => \E f \in rows \cup New : f.id = e.parent
    /\ \A q \in Requests : step[q] = "idle" /\ step'[q] # "idle" =>
          \E e \in New : e.id = Id(q, "http.request", 0)

LEMMA AddsKeeps ==
    ASSUME Typed, Typed', Recorded, NEW New, Adds(New)
    PROVE  Recorded'
<1>1. IsFiniteSet(rows')
  BY FS_Union DEF Adds, Recorded
<1>2. \A e \in rows' : Made(e)'
  <2> SUFFICES ASSUME NEW e \in rows' PROVE Made(e)'
    OBVIOUS
  <2>1. CASE e \in New
    BY <2>1 DEF Adds
  <2>2. CASE e \in rows
    BY <2>2, MadeStays DEF Adds, Recorded
  <2> QED
    BY <2>1, <2>2 DEF Adds
<1>3. Unmixed'
  <2> SUFFICES ASSUME NEW e \in rows', NEW f \in rows', e # f
               PROVE  e.id # f.id /\ (e.seq = f.seq => ~ (IsHttp(e) <=> IsHttp(f)))
    BY DEF Unmixed
  <2>1. CASE e \in New
    BY <2>1 DEF Adds
  <2>2. CASE f \in New
    BY <2>2 DEF Adds
  <2>3. CASE e \in rows /\ f \in rows
    BY <2>3 DEF Recorded, Unmixed
  <2> QED
    BY <2>1, <2>2, <2>3 DEF Adds
<1>4. Complete'
  <2>1. ASSUME NEW q \in Requests, step'[q] # "idle"
        PROVE  \E e \in rows' : e.id = Id(q, "http.request", 0)
    BY <2>1 DEF Adds, Recorded, Complete
  <2>2. ASSUME NEW e \in rows', e.parent # NoParent
        PROVE  \E f \in rows' : f.id = e.parent
    BY <2>2 DEF Adds, Recorded, Complete
  <2> QED
    BY <2>1, <2>2 DEF Complete
<1> QED
  BY <1>1, <1>2, <1>3, <1>4 DEF Recorded

LEMMA SendRequestAdds ==
    ASSUME Typed, Typed', Recorded, NEW q \in Requests, SendRequest(q)
    PROVE  \E e : /\ NewRow(e, q, "http.request", 0, NoParent, now, proxySeq)
                  /\ rows' = rows \cup {e} /\ Adds({e})
<1>0. PICK e : /\ e = [id |-> Id(q, "http.request", 0), corr |-> corr[q], ts |-> now,
                     seq |-> proxySeq, type |-> "http.request", parent |-> NoParent]
               /\ rows' = rows \cup {e}
  BY DEF SendRequest
<1>1. NewRow(e, q, "http.request", 0, NoParent, now, proxySeq)
  BY <1>0, NewRowIs DEF Typed
<1>2. rows' = rows \cup {e}
  BY <1>0
<1>3. Onward
  BY DEF SendRequest, Onward, Typed
<1>4. Made(e)'
  <2>1. corr' = corr /\ step'[q] = "open" /\ proxySeq < proxySeq' /\ proxySeq \in Nat
    BY DEF SendRequest, Typed
  <2> QED
    BY <1>1, <2>1 DEF NewRow, Made
<1>5. ASSUME NEW f \in rows
      PROVE  e.id # f.id /\ (e.seq = f.seq => ~ (IsHttp(e) <=> IsHttp(f)))
  <2>1. Made(f)
    BY DEF Recorded
  <2>2. e.id # f.id
    BY <1>1, <2>1 DEF SendRequest, NewRow, Made
  <2>3. IsHttp(e)
    BY <1>1 DEF NewRow, IsHttp
  <2>4. IsHttp(f) => f.seq < proxySeq /\ f.seq \in Nat
    BY <2>1 DEF Made, IsHttp
  <2> QED
    BY <1>1, <2>2, <2>3, <2>4 DEF NewRow, Typed
<1>6. \A p \in Requests : step[p] = "idle" /\ step'[p] # "idle" => p = q
  BY DEF SendRequest, Typed
<1>7. Adds({e})
  BY <1>1, <1>2, <1>3, <1>4, <1>5, <1>6, FS_Singleton DEF Adds, NewRow
<1> QED
  BY <1>1, <1>2, <1>7

LEMMA SendResponseAdds ==
    ASSUME Typed, Typed', Recorded, NEW q \in Requests, SendResponse(q)
    PROVE  \E e : /\ NewRow(e, q, "http.response", 0, Id(q, "http.request", 0), now, proxySeq)
                  /\ rows' = rows \cup {e} /\ Adds({e})
<1>0. PICK e : /\ e = [id |-> Id(q, "http.response", 0), corr |-> corr[q], ts |-> now,
                     seq |-> proxySeq, type |-> "http.response",
                     parent |-> Id(q, "http.request", 0)]
               /\ rows' = rows \cup {e}
  BY DEF SendResponse
<1>1. NewRow(e, q, "http.response", 0, Id(q, "http.request", 0), now, proxySeq)
  BY <1>0, NewRowIs DEF Typed
<1>2. rows' = rows \cup {e}
  BY <1>0
<1>3. Onward
  BY DEF SendResponse, Onward, Typed
<1>4. Made(e)'
  <2>1. /\ corr' = corr /\ step'[q] # "idle" /\ q \in answered' /\ proxySeq < proxySeq' /\ proxySeq \in Nat
    BY DEF SendResponse, Typed
  <2> QED
    BY <1>1, <2>1 DEF NewRow, Made
<1>5. ASSUME NEW f \in rows
      PROVE  e.id # f.id /\ (e.seq = f.seq => ~ (IsHttp(e) <=> IsHttp(f)))
  <2>1. Made(f)
    BY DEF Recorded
  <2>2. e.id # f.id
    BY <1>1, <2>1 DEF SendResponse, NewRow, Made, Id
  <2>3. IsHttp(e)
    BY <1>1 DEF NewRow, IsHttp
  <2>4. IsHttp(f) => f.seq < proxySeq /\ f.seq \in Nat
    BY <2>1 DEF Made, IsHttp
  <2> QED
    BY <1>1, <2>2, <2>3, <2>4 DEF NewRow, Typed
<1>6. \A p \in Requests : step'[p] # "idle" => step[p] # "idle"
  BY DEF SendResponse, Typed
<1>7. \E f \in rows : f.id = Id(q, "http.request", 0)
  BY DEF SendResponse, Recorded, Complete
<1>8. Adds({e})
  BY <1>1, <1>2, <1>3, <1>4, <1>5, <1>6, <1>7, FS_Singleton DEF Adds, NewRow
<1> QED
  BY <1>1, <1>2, <1>8

LEMMA AfterStatementAdds ==
    ASSUME Typed, Typed', Recorded, NEW q \in Requests, AfterStatement(q)
    PROVE  \E a, b :
              /\ NewRow(a, q, "postgres.query", appSeq, NoParent, began[q], appSeq)
              /\ NewRow(b, q, "postgres.result", appSeq, Id(q, "postgres.query", appSeq),
                        now + skew, appSeq + 1)
              /\ rows' = rows \cup {a, b} /\ Adds({a, b})
<1>0. PICK a, b :
        /\ a = [id |-> Id(q, "postgres.query", appSeq), corr |-> corr[q],
                ts |-> began[q], seq |-> appSeq, type |-> "postgres.query",
                parent |-> NoParent]
        /\ b = [id |-> Id(q, "postgres.result", appSeq), corr |-> corr[q],
                ts |-> now + skew, seq |-> appSeq + 1, type |-> "postgres.result",
                parent |-> Id(q, "postgres.query", appSeq)]
        /\ rows' = rows \cup {a, b}
  BY DEF AfterStatement
<1>1. NewRow(a, q, "postgres.query", appSeq, NoParent, began[q], appSeq)
  BY <1>0, NewRowIs DEF Typed
<1>2. NewRow(b, q, "postgres.result", appSeq, Id(q, "postgres.query", appSeq),
             now + skew, appSeq + 1)
  <2>1. now + skew \in Int /\ appSeq + 1 \in Int
    BY DEF Typed
  <2> QED
    BY <1>0, <2>1, NewRowIs
<1>3. rows' = rows \cup {a, b}
  BY <1>0
<1>4. Onward
  BY DEF AfterStatement, Onward, Typed
<1>5. Made(a)'
  <2>1. corr' = corr /\ step'[q] = "open" /\ appSeq < appSeq' /\ appSeq \in Nat
    BY DEF AfterStatement, Typed
  <2> QED
    BY <1>1, <2>1 DEF NewRow, Made
<1>6. Made(b)'
  <2>1. corr' = corr /\ step'[q] = "open" /\ appSeq' = appSeq + 2 /\ appSeq \in Nat
    BY DEF AfterStatement, Typed
  <2>2. b.seq - 1 = appSeq /\ b.seq < appSeq' /\ b.seq \in Nat
    BY <1>2, <2>1 DEF NewRow
  <2>3. /\ Row(b) /\ b.id[1] = q /\ b.corr = corr'[q] /\ b.type = "postgres.result"
        /\ b.id = Id(q, "postgres.result", b.seq - 1)
        /\ b.parent = Id(q, "postgres.query", b.seq - 1)
    BY <1>2, <2>1, <2>2 DEF NewRow
  <2> QED
    BY <2>1, <2>2, <2>3 DEF Made
<1>7. ASSUME NEW f \in rows
      PROVE  /\ a.id # f.id /\ (a.seq = f.seq => ~ (IsHttp(a) <=> IsHttp(f)))
             /\ b.id # f.id /\ (b.seq = f.seq => ~ (IsHttp(b) <=> IsHttp(f)))
  <2>1. Made(f)
    BY DEF Recorded
  <2>2. ~ IsHttp(f) => f.seq < appSeq /\ f.seq \in Nat
    BY <2>1 DEF Made, IsHttp
  <2>3. a.id # f.id
    BY <1>1, <2>1 DEF NewRow, Made, Id, Typed
  <2>4. b.id # f.id
    BY <1>2, <2>1 DEF NewRow, Made, Id, Typed
  <2>5. ~ IsHttp(a) /\ ~ IsHttp(b)
    BY <1>1, <1>2 DEF NewRow, IsHttp
  <2>6. a.seq = appSeq /\ b.seq = appSeq + 1 /\ appSeq \in Nat
    BY <1>1, <1>2 DEF NewRow, Typed
  <2> QED
    BY <2>2, <2>3, <2>4, <2>5, <2>6
<1>8. a.id # b.id /\ a.seq # b.seq
  BY <1>1, <1>2 DEF NewRow, Id, Typed
<1>9. \A p \in Requests : step'[p] # "idle" => step[p] # "idle"
  BY DEF AfterStatement, Typed
<1>10. IsFiniteSet({a, b})
  <2>1. {a, b} = {a} \cup {b}
    OBVIOUS
  <2>2. IsFiniteSet({a}) /\ IsFiniteSet({b})
    BY FS_Singleton
  <2> QED
    BY <2>1, <2>2, FS_Union
<1>11. a.parent = NoParent /\ b.parent = a.id
  BY <1>1, <1>2 DEF NewRow
<1>12. Adds({a, b})
  <2>1. \A e \in {a, b} : Made(e)'
    BY <1>5, <1>6
  <2>2. \A e \in {a, b}, f \in rows \cup {a, b} :
           e # f => e.id # f.id /\ (e.seq = f.seq => ~ (IsHttp(e) <=> IsHttp(f)))
    BY <1>7, <1>8
  <2>3. \A e \in {a, b} : e.parent # NoParent => \E f \in rows \cup {a, b} : f.id = e.parent
    BY <1>11
  <2> QED
    BY <1>3, <1>4, <1>9, <1>10, <2>1, <2>2, <2>3 DEF Adds
<1> QED
  BY <1>1, <1>2, <1>3, <1>12

LEMMA BeforeStatementAdds ==
    ASSUME Typed, Typed', Recorded, NEW q \in Requests, BeforeStatement(q)
    PROVE  Adds({})
<1>1. Onward
  BY DEF BeforeStatement, Onward, Typed
<1>2. \A p \in Requests : step'[p] # "idle" => step[p] # "idle"
  BY DEF BeforeStatement, Typed
<1> QED
  BY <1>1, <1>2, FS_EmptySet DEF Adds, BeforeStatement

-----------------------------------------------------------------------------
(* What one step keeps when the clocks agree and advance *)

\* The new rows of a request are stamped after its own row, and in order; and unless
\* they are late, after all its old ones, with no response among these.
Follows(New) ==
    /\ \A f \in New : f \notin rows
    /\ \A e \in rows, f \in New : e.id[1] = f.id[1] =>
          /\ f.type # "http.request"
          /\ e.type = "http.request" \/ e.id[1] \notin late' => e.ts < f.ts
          /\ e.id[1] \notin late' => e.type # "http.response"
    /\ \A f \in New : f.type = "postgres.result" => \E e \in New : e.id = f.parent
    /\ InTime(New)

LEMMA CausalKept ==
    ASSUME Recorded, Causal, NEW New, Adds(New), Follows(New)
    PROVE  Causal'
<1>1. \A e \in rows \cup New : e.ts \in Int
  BY DEF Adds, Recorded, Made, Row
<1>2. rows' = rows \cup New
  BY DEF Adds
<1> SUFFICES ASSUME NEW e \in rows \cup New, NEW f \in rows \cup New, e.id[1] = f.id[1]
             PROVE
        /\ e.type = "http.request" => e = f \/ e.ts < f.ts
        /\ f.type = "http.response" /\ e.id[1] \notin late' => e = f \/ e.ts < f.ts
        /\ f.type = "postgres.result" /\ e.id = f.parent =>
              /\ e.ts < f.ts
              /\ e.id[1] \notin late' => \A g \in rows \cup New :
                    g.id[1] = e.id[1] => g.ts <= e.ts \/ f.ts <= g.ts
  BY <1>2 DEF Causal, InTime
<1>0. late \subseteq late'
  BY DEF Adds, Onward
<1>3. CASE e \in rows /\ f \in rows
  <2>1. e.id[1] \notin late' => \A g \in New : g.id[1] = e.id[1] => f.ts <= g.ts
    BY <1>1, <1>3 DEF Follows
  <2>2. /\ e.type = "http.request" => e = f \/ e.ts < f.ts
        /\ f.type = "http.response" /\ e.id[1] \notin late => e = f \/ e.ts < f.ts
        /\ f.type = "postgres.result" /\ e.id = f.parent =>
              /\ e.ts < f.ts
              /\ e.id[1] \notin late => \A g \in rows :
                    g.id[1] = e.id[1] => g.ts <= e.ts \/ f.ts <= g.ts
    BY <1>3 DEF Causal, InTime
  <2> QED
    BY <1>0, <2>1, <2>2
<1>4. CASE e \in rows /\ f \in New
  <2>1. /\ e.type = "http.request" => e.ts < f.ts
        /\ e.id[1] \notin late' => e.ts < f.ts
    BY <1>4 DEF Follows
  <2>2. ASSUME e.id = f.parent, f.type = "postgres.result"
        PROVE  FALSE
    <3>1. PICK g \in New : g.id = e.id
      BY <1>4, <2>2 DEF Follows
    <3>2. g = e
      BY <1>4, <3>1 DEF Adds
    <3> QED
      BY <1>4, <3>1, <3>2 DEF Follows
  <2> QED
    BY <1>4, <2>1, <2>2
<1>5. CASE e \in New /\ f \in rows
  <2>1. e.type # "http.request" /\ (e.id[1] \notin late' => f.type # "http.response")
    BY <1>5 DEF Follows
  <2>2. ASSUME e.id = f.parent, f.type = "postgres.result"
        PROVE  FALSE
    <3>1. f.parent # NoParent
      BY <1>5, <2>2 DEF Recorded, Made, Id, NoParent
    <3>2. PICK g \in rows : g.id = f.parent
      BY <1>5, <3>1 DEF Recorded, Complete
    <3>3. e # g => e.id # g.id
      BY <1>5 DEF Adds
    <3>4. e # g
      BY <1>5, <3>2 DEF Follows
    <3> QED
      BY <2>2, <3>2, <3>3, <3>4
  <2> QED
    BY <2>1, <2>2
<1>6. CASE e \in New /\ f \in New
  <2>1. e.id[1] \notin late' => \A g \in rows : g.id[1] = e.id[1] => g.ts <= e.ts
    BY <1>1, <1>6 DEF Follows
  <2>2. /\ e.type = "http.request" => e = f \/ e.ts < f.ts
        /\ f.type = "http.response" /\ e.id[1] \notin late => e = f \/ e.ts < f.ts
        /\ f.type = "postgres.result" /\ e.id = f.parent =>
              /\ e.ts < f.ts
              /\ e.id[1] \notin late => \A g \in New :
                    g.id[1] = e.id[1] => g.ts <= e.ts \/ f.ts <= g.ts
    BY <1>6 DEF Follows, InTime
  <2> QED
    BY <1>0, <2>1, <2>2
<1> QED
  BY <1>3, <1>4, <1>5, <1>6

LEMMA SendRequestInTime ==
    ASSUME Typed, Typed', Recorded, Stamped, Causal, ClocksAgree,
           NEW q \in Requests, SendRequest(q)
    PROVE  Stamped' /\ Causal'
<1>1. PICK e : /\ NewRow(e, q, "http.request", 0, NoParent, now, proxySeq)
               /\ rows' = rows \cup {e} /\ Adds({e})
  BY SendRequestAdds
<1>2. now' = now + 1 /\ now \in Int
  BY DEF SendRequest, Tick, ClocksAgree, Typed
<1>3. \A f \in rows : f.ts \in Int /\ step[f.id[1]] # "idle"
  BY DEF Recorded, Made, Row
<1>4. e.ts = now /\ e.id[1] = q /\ e.type = "http.request"
  BY <1>1 DEF NewRow
<1>5. /\ late' = late
      /\ \A p \in Requests : step'[p] = "sql" =>
          p # q /\ step[p] = "sql" /\ began'[p] = began[p] /\ began[p] \in Int
  BY DEF SendRequest, Typed
<1>6. Stamped'
  <2>1. \A f \in rows' : f.ts < now'
    BY <1>1, <1>2, <1>3, <1>4 DEF Stamped
  <2>2. \A f, g \in rows' : f.ts = g.ts => f = g
    BY <1>1, <1>2, <1>3, <1>4 DEF Stamped
  <2>3. ASSUME NEW p \in Requests, step'[p] = "sql"
        PROVE  /\ began'[p] < now'
               /\ \A f \in rows' :
                     /\ f.ts # began'[p]
                     /\ f.id[1] = p /\ (p \notin late' \/ f.type = "http.request") =>
                           f.ts < began'[p]
               /\ \A r \in Requests : step'[r] = "sql" /\ began'[r] = began'[p] => r = p
    BY <1>1, <1>2, <1>4, <1>5, <2>3 DEF Stamped
  <2> QED
    BY <2>1, <2>2, <2>3 DEF Stamped
<1>7. Follows({e})
  <2>1. \A f \in rows : f.id[1] # q
    BY <1>3 DEF SendRequest
  <2> QED
    BY <1>4, <2>1 DEF Follows, InTime
<1> QED
  BY <1>1, <1>6, <1>7, CausalKept

LEMMA SendResponseInTime ==
    ASSUME Typed, Typed', Recorded, Stamped, Causal, ClocksAgree,
           NEW q \in Requests, SendResponse(q)
    PROVE  Stamped' /\ Causal'
<1>1. PICK e :
        /\ NewRow(e, q, "http.response", 0, Id(q, "http.request", 0), now, proxySeq)
        /\ rows' = rows \cup {e} /\ Adds({e})
  BY SendResponseAdds
<1>2. now' = now + 1 /\ now \in Int
  BY DEF SendResponse, Tick, ClocksAgree, Typed
<1>3. \A f \in rows : f.ts \in Int /\ (f.type = "http.response" => f.id[1] \in answered)
  BY DEF Recorded, Made, Row
<1>4. /\ e.ts = now /\ e.id[1] = q /\ e.type = "http.response"
      /\ e.id # e.parent
  BY <1>1 DEF NewRow, Id
<1>5. /\ late \subseteq late' /\ step' = step /\ began' = began
      /\ step[q] = "sql" => q \in late'
      /\ \A p \in Requests : began[p] \in Int
  BY DEF SendResponse, Typed
<1>6. Stamped'
  <2>1. \A f \in rows' : f.ts < now'
    BY <1>1, <1>2, <1>3, <1>4 DEF Stamped
  <2>2. \A f, g \in rows' : f.ts = g.ts => f = g
    BY <1>1, <1>2, <1>3, <1>4 DEF Stamped
  <2>3. ASSUME NEW p \in Requests, step'[p] = "sql"
        PROVE  /\ began'[p] < now'
               /\ \A f \in rows' :
                     /\ f.ts # began'[p]
                     /\ f.id[1] = p /\ (p \notin late' \/ f.type = "http.request") =>
                           f.ts < began'[p]
               /\ \A r \in Requests : step'[r] = "sql" /\ began'[r] = began'[p] => r = p
    BY <1>1, <1>2, <1>4, <1>5, <2>3 DEF Stamped
  <2> QED
    BY <2>1, <2>2, <2>3 DEF Stamped
<1>7. Follows({e})
  <2>1. \A f \in rows : f.ts < e.ts /\ f # e /\ (f.id[1] = q => f.type # "http.response")
    BY <1>3, <1>4 DEF SendResponse, Stamped
  <2> QED
    BY <1>4, <2>1 DEF Follows, InTime
<1> QED
  BY <1>1, <1>6, <1>7, CausalKept

LEMMA BeforeStatementInTime ==
    ASSUME Typed, Typed', Recorded, Stamped, Causal, ClocksAgree,
           NEW q \in Requests, BeforeStatement(q)
    PROVE  Stamped' /\ Causal'
<1>1. now' = now + 1 /\ now \in Int /\ rows' = rows /\ late \subseteq late'
  BY DEF BeforeStatement, Tick, ClocksAgree, Typed
<1>2. \A f \in rows : f.ts \in Int
  BY DEF Recorded, Made, Row
<1>3. \A p \in Requests : step'[p] = "sql" =>
          \/ p = q /\ began'[p] = now
          \/ p # q /\ step[p] = "sql" /\ began'[p] = began[p] /\ began[p] \in Int
  BY DEF BeforeStatement, ClocksAgree, Typed
<1>4. \A f \in rows' : f.ts < now'
  BY <1>1, <1>2 DEF Stamped
<1>5. \A f, g \in rows' : f.ts = g.ts => f = g
  BY <1>1 DEF Stamped
<1>6. ASSUME NEW p \in Requests, step'[p] = "sql"
      PROVE  /\ began'[p] < now'
             /\ \A f \in rows' :
                   /\ f.ts # began'[p]
                   /\ f.id[1] = p /\ (p \notin late' \/ f.type = "http.request") =>
                         f.ts < began'[p]
             /\ \A r \in Requests : step'[r] = "sql" /\ began'[r] = began'[p] => r = p
  BY <1>1, <1>2, <1>3, <1>6 DEF Stamped
<1>7. Stamped'
  BY <1>4, <1>5, <1>6 DEF Stamped
<1>8. Causal'
  <2>1. Adds({})
    BY BeforeStatementAdds
  <2>2. Follows({})
    BY DEF Follows, InTime
  <2> QED
    BY <2>1, <2>2, CausalKept
<1> QED
  BY <1>7, <1>8

LEMMA AfterStatementInTime ==
    ASSUME Typed, Typed', Recorded, Stamped, Causal, ClocksAgree,
           NEW q \in Requests, AfterStatement(q)
    PROVE  Stamped' /\ Causal'
<1>1. PICK a, b :
        /\ NewRow(a, q, "postgres.query", appSeq, NoParent, began[q], appSeq)
        /\ NewRow(b, q, "postgres.result", appSeq, Id(q, "postgres.query", appSeq),
                  now + skew, appSeq + 1)
        /\ rows' = rows \cup {a, b} /\ Adds({a, b})
  BY AfterStatementAdds
<1>2. now' = now + 1 /\ now \in Int /\ now + skew = now
  BY DEF AfterStatement, Tick, ClocksAgree, Typed
<1>3. \A f \in rows :
          /\ f.ts \in Int
          /\ f.type = "http.response" /\ f.id[1] = q => q \in late
  <2>1. step[q] = "sql" /\ (q \in answered => q \in late)
    BY DEF AfterStatement, Typed
  <2> QED
    BY <2>1 DEF Recorded, Made, Row
<1>4. /\ a.ts = began[q] /\ a.id[1] = q /\ a.type = "postgres.query"
      /\ b.ts = now /\ b.id[1] = q /\ b.type = "postgres.result"
      /\ b.parent = a.id /\ b.id # a.id
  BY <1>1, <1>2 DEF NewRow, Id
<1>5. /\ step[q] = "sql" /\ began[q] < now /\ began[q] \in Int
      /\ \A f \in rows :
            /\ f.ts # began[q]
            /\ f.id[1] = q /\ (q \notin late \/ f.type = "http.request") => f.ts < began[q]
      /\ \A p \in Requests : step[p] = "sql" /\ began[p] = began[q] => p = q
  BY DEF AfterStatement, Stamped, Typed
<1>6. /\ late' = late
      /\ \A p \in Requests : step'[p] = "sql" =>
          p # q /\ step[p] = "sql" /\ began'[p] = began[p] /\ began[p] \in Int
  BY DEF AfterStatement, Typed
<1>7. Stamped'
  <2>1. \A f \in rows' : f.ts < now'
    <3>1. \A f \in rows : f.ts \in Int /\ f.ts < now
      BY <1>3 DEF Stamped
    <3>2. a.ts \in Int /\ a.ts < now /\ b.ts = now
      BY <1>4, <1>5
    <3> QED
      BY <1>1, <1>2, <3>1, <3>2
  <2>2. \A f, g \in rows' : f.ts = g.ts => f = g
    <3>1. \A f, g \in rows : f.ts = g.ts => f = g
      BY DEF Stamped
    <3>2. \A f \in rows : f.ts # a.ts /\ f.ts # b.ts /\ a.ts # b.ts
      BY <1>2, <1>3, <1>4, <1>5 DEF Stamped
    <3>3. a.ts # b.ts
      BY <1>2, <1>4, <1>5
    <3> QED
      BY <1>1, <3>1, <3>2, <3>3
  <2>3. ASSUME NEW p \in Requests, step'[p] = "sql"
        PROVE  /\ began'[p] < now'
               /\ \A f \in rows' :
                     /\ f.ts # began'[p]
                     /\ f.id[1] = p /\ (p \notin late' \/ f.type = "http.request") =>
                           f.ts < began'[p]
               /\ \A r \in Requests : step'[r] = "sql" /\ began'[r] = began'[p] => r = p
    <3>1. p # q /\ step[p] = "sql" /\ began'[p] = began[p] /\ began[p] \in Int
      BY <1>6, <2>3
    <3>2. began[p] < now /\ began[p] # began[q]
      BY <1>5, <3>1 DEF Stamped
    <3>3. \A f \in rows :
             /\ f.ts # began[p]
             /\ f.id[1] = p /\ (p \notin late \/ f.type = "http.request") => f.ts < began[p]
      BY <3>1 DEF Stamped
    <3>4. \A f \in rows' :
             /\ f.ts # began[p]
             /\ f.id[1] = p /\ (p \notin late \/ f.type = "http.request") => f.ts < began[p]
      BY <1>1, <1>2, <1>4, <3>1, <3>2, <3>3
    <3>5. \A r \in Requests : step'[r] = "sql" /\ began'[r] = began[p] => r = p
      BY <1>6, <3>1 DEF Stamped
    <3> QED
      BY <1>2, <1>6, <3>1, <3>2, <3>4, <3>5
  <2> QED
    BY <2>1, <2>2, <2>3 DEF Stamped
<1>8. Follows({a, b})
  <2>1. \A f \in rows :
           /\ f # a /\ f # b
           /\ f.id[1] = q /\ (q \notin late \/ f.type = "http.request") =>
                 f.ts < a.ts /\ f.ts < b.ts /\ f.type # "http.response"
    <3> SUFFICES ASSUME NEW f \in rows
                 PROVE  /\ f # a /\ f # b
                        /\ f.id[1] = q /\ (q \notin late \/ f.type = "http.request") =>
                              f.ts < a.ts /\ f.ts < b.ts /\ f.type # "http.response"
      OBVIOUS
    <3>1. f.ts \in Int /\ f.ts < now /\ f.ts # a.ts /\ b.ts = now
      BY <1>3, <1>4, <1>5 DEF Stamped
    <3>2. ASSUME f.id[1] = q, q \notin late \/ f.type = "http.request"
          PROVE  f.ts < a.ts /\ f.type # "http.response"
      BY <1>3, <1>4, <1>5, <3>2
    <3> QED
      BY <1>2, <3>1, <3>2
  <2>2. a.ts < b.ts /\ a.ts \in Int /\ b.ts \in Int
    BY <1>2, <1>4, <1>5
  <2>3. InTime({a, b})
    BY <1>4, <2>2 DEF InTime
  <2> QED
    BY <1>4, <1>6, <2>1, <2>3 DEF Follows
<1> QED
  BY <1>1, <1>7, <1>8, CausalKept

-----------------------------------------------------------------------------
(* Finishing what was recorded *)

\* The rows are what correlation made of some events.
Settled ==
    \E S, events : /\ IsFiniteSet(S) /\ (\A e \in S : Row(e)) /\ Enumerates(events, S)
                   /\ rows = Range(Correlated(events))

\* C numbers the rows S, in the order from.
Numbers(C, from, S) ==
    /\ Arranged(from, S) /\ C = Numbered(from, Cardinality(S))
    /\ IsFiniteSet(Range(C)) /\ Cardinality(Range(C)) = Cardinality(S)
    /\ \A e \in Range(C) : Row(e)
    /\ Enumerates(C, Range(C))
    /\ \A k \in 1 .. Cardinality(S) :
          Becomes(from[k], ParentAt(from, Cardinality(S), k), k - 1, C[k])

\* What Finish makes of the rows of a running recording.
LEMMA FinishNumbers ==
    ASSUME Recorded, Finish
    PROVE  Settled' /\ \E C, from : Numbers(C, from, rows) /\ rows' = Range(C)
<1>1. IsFiniteSet(rows) /\ \A e \in rows : Row(e)
  BY DEF Recorded, Made
<1>2. PICK order \in RowOrders(rows) : rows' = Range(Correlated(order))
  BY DEF Finish
<1>3. Enumerates(order, rows)
  <2>1. \A e, f \in rows : e.seq = f.seq /\ (IsHttp(e) <=> IsHttp(f)) => e = f
    BY DEF Recorded, Unmixed
  <2> QED
    BY <1>1, <2>1, RowOrdersEnumerate
<1>4. PICK from : /\ Arranged(from, rows)
                  /\ Correlated(order) = Numbered(from, Cardinality(rows))
  BY <1>1, <1>3, CorrelatedIs
<1>5. Numbers(Correlated(order), from, rows)
  BY <1>1, <1>4, NumberedEnumerates DEF Numbers
<1>6. Settled'
  BY <1>1, <1>2, <1>3 DEF Settled
<1> QED
  BY <1>2, <1>5, <1>6

\* Whatever the database returns of settled rows is correlated to the same rows.
LEMMA SettledStays ==
    ASSUME Settled, Finish
    PROVE  rows' = rows
<1>1. PICK S, events : /\ IsFiniteSet(S) /\ (\A e \in S : Row(e)) /\ Enumerates(events, S)
                       /\ rows = Range(Correlated(events))
  BY DEF Settled
<1>2. PICK order \in RowOrders(rows) : rows' = Range(Correlated(order))
  BY DEF Finish
<1>3. PICK from : /\ Arranged(from, S)
                  /\ Correlated(events) = Numbered(from, Cardinality(S))
  BY <1>1, CorrelatedIs
<1>4. Numbers(Correlated(events), from, S)
  BY <1>1, <1>3, NumberedEnumerates DEF Numbers
<1> DEFINE C == Correlated(events)
           N == Cardinality(S)
<1>5. N \in Nat
  BY <1>1, FS_CardinalityType
<1> HIDE DEF C, N
<1>6. /\ IsFiniteSet(rows) /\ \A e \in rows : Row(e)
      /\ \A e \in rows : \E k \in 1 .. N : C[k] = e
      /\ \A k \in 1 .. N : C[k].seq = k - 1
  BY <1>1, <1>4 DEF Numbers, Enumerates, Becomes, C, N
<1>7. \A e, f \in rows : e.seq = f.seq => e = f
  <2> SUFFICES ASSUME NEW e \in rows, NEW f \in rows, e.seq = f.seq PROVE e = f
    OBVIOUS
  <2>1. PICK j \in 1 .. N : C[j] = e
    BY <1>6
  <2>2. PICK k \in 1 .. N : C[k] = f
    BY <1>6
  <2>3. j - 1 = k - 1
    BY <1>6, <2>1, <2>2
  <2> QED
    BY <1>5, <2>1, <2>2, <2>3
<1>8. Enumerates(order, rows)
  BY <1>6, <1>7, RowOrdersEnumerate
<1>9. Correlated(order) = Correlated(events)
  BY <1>1, <1>8, CorrelatedIsFixed
<1> QED
  BY <1>1, <1>2, <1>9

\* The first Finish numbers the rows without gaps, group by group.
LEMMA FinishNumbersGapFree ==
    ASSUME IsFiniteSet(rows), NEW C, NEW from, Numbers(C, from, rows), rows' = Range(C)
    PROVE  GapFreeSequence'
<1> DEFINE N == Cardinality(rows)
<1>1. N \in Nat
  BY FS_CardinalityType
<1>2. /\ Cardinality(rows') = N
      /\ \A e \in rows' : \E k \in 1 .. N : C[k] = e
      /\ \A k \in 1 .. N : /\ C[k] \in rows'
                           /\ C[k].seq = k - 1 /\ C[k].corr = from[k].corr
      /\ \A j, k, l \in 1 .. N :
            j < k /\ k < l /\ from[j].corr = from[l].corr => from[k].corr = from[j].corr
  BY DEF Numbers, Enumerates, Becomes, Arranged
<1> HIDE DEF N
<1>3. {e.seq : e \in rows'} = 0 .. N - 1
  <2>1. ASSUME NEW e \in rows' PROVE e.seq \in 0 .. N - 1
    BY <1>1, <1>2
  <2>2. ASSUME NEW s \in 0 .. N - 1 PROVE \E e \in rows' : e.seq = s
    <3>1. s + 1 \in 1 .. N /\ s + 1 - 1 = s
      BY <1>1
    <3> QED
      BY <1>2, <3>1
  <2> QED
    BY <2>1, <2>2
<1>4. ASSUME NEW e \in rows', NEW f \in rows', NEW g \in rows',
             e.seq < f.seq, f.seq < g.seq, e.corr = g.corr
      PROVE  f.corr = e.corr
  <2>1. PICK j \in 1 .. N : C[j] = e
    BY <1>2
  <2>2. PICK k \in 1 .. N : C[k] = f
    BY <1>2
  <2>3. PICK l \in 1 .. N : C[l] = g
    BY <1>2
  <2>4. j < k /\ k < l
    BY <1>1, <1>2, <1>4, <2>1, <2>2, <2>3
  <2>5. from[j].corr = from[l].corr
    BY <1>2, <1>4, <2>1, <2>3
  <2> QED
    BY <1>2, <2>1, <2>2, <2>4, <2>5
<1> QED
  BY <1>2, <1>3, <1>4 DEF GapFreeSequence

\* Every row of a finished recording is a recorded row in its place, with the parent
\* it had; a query's is the first request of its correlation id, which is no later
\* than its own.
LEMMA FinishedRow ==
    ASSUME Recorded, NEW C, NEW from, Numbers(C, from, rows),
           NEW k \in 1 .. Cardinality(rows)
    PROVE  /\ from[k] \in rows /\ Made(from[k])
           /\ C[k].id = from[k].id /\ C[k].corr = from[k].corr /\ C[k].ts = from[k].ts
           /\ C[k].type = from[k].type /\ C[k].seq = k - 1
           /\ from[k].type # "postgres.query" => C[k].parent = from[k].parent
           /\ from[k].type = "postgres.query" =>
                 LET J == FirstRequest(from, Cardinality(rows), from[k].corr)
                 IN /\ J \in 1 .. Cardinality(rows) /\ from[J].type = "http.request"
                    /\ from[J].corr = from[k].corr /\ C[k].parent = from[J].id
                    /\ \E i \in 1 .. Cardinality(rows) :
                          J <= i /\ from[i].id = Id(from[k].id[1], "http.request", 0)
<1> DEFINE N == Cardinality(rows)
           q == from[k].id[1]
           J == FirstRequest(from, N, from[k].corr)
<1>1. N \in Nat
  BY FS_CardinalityType DEF Recorded
<1>2. /\ \A j \in 1 .. N : from[j] \in rows
      /\ \A e \in rows : \E j \in 1 .. N : from[j] = e
      /\ Becomes(from[k], ParentAt(from, N, k), k - 1, C[k])
  BY DEF Numbers, Arranged, Enumerates
<1> HIDE DEF N
<1>3. from[k] \in rows /\ Made(from[k])
  <2>1. k \in 1 .. N
    BY DEF N
  <2> QED
    BY <1>2, <2>1 DEF Recorded
<1>4. /\ C[k].id = from[k].id /\ C[k].corr = from[k].corr /\ C[k].ts = from[k].ts
      /\ C[k].type = from[k].type /\ C[k].seq = k - 1
  BY <1>2 DEF Becomes
<1>5. from[k].type = "http.request" => ParentAt(from, N, k) = NoParent
  BY Zenon DEF ParentAt
<1>6. from[k].type # "postgres.query" =>
         \/ from[k].type = "http.request" /\ from[k].parent = NoParent
         \/ from[k].parent # NoParent
  BY <1>3 DEF Made, Id, NoParent
<1>7. from[k].type # "postgres.query" => C[k].parent = from[k].parent
  BY <1>2, <1>5, <1>6 DEF Becomes
<1>8. ASSUME from[k].type = "postgres.query"
      PROVE  /\ J \in 1 .. N /\ from[J].type = "http.request"
             /\ from[J].corr = from[k].corr /\ C[k].parent = from[J].id
             /\ \E i \in 1 .. N : J <= i /\ from[i].id = Id(q, "http.request", 0)
  <2>1. q \in Requests /\ step[q] # "idle" /\ from[k].corr = corr[q]
        /\ from[k].parent = NoParent
    BY <1>3, <1>8 DEF Made
  <2>2. PICK e \in rows : e.id = Id(q, "http.request", 0)
    BY <2>1 DEF Recorded, Complete
  <2>3. e.type = "http.request" /\ e.corr = corr[q]
    <3>1. Made(e)
      BY DEF Recorded
    <3>2. e.id[1] = q /\ e.id[2] = "http.request"
      BY <2>2 DEF Id
    <3>3. e.type = e.id[2] /\ e.corr = corr[e.id[1]]
      BY <3>1 DEF Made, Id
    <3> QED
      BY <3>2, <3>3
  <2>4. PICK i \in 1 .. N : from[i] = e
    BY <1>2
  <2>5. k \in 1 .. N
    BY DEF N
  <2>6. /\ J \in 1 .. N /\ J <= i
        /\ from[J].corr = from[k].corr /\ from[J].type = "http.request"
        /\ ParentAt(from, N, k) = from[J].id
    BY <1>1, <1>8, <2>1, <2>3, <2>4, <2>5, RootIs
  <2>7. C[k].parent = from[J].id
    BY <1>2, <2>1, <2>6 DEF Becomes
  <2> QED
    BY <2>2, <2>4, <2>6, <2>7
<1> QED
  BY <1>3, <1>4, <1>7, <1>8 DEF N

\* The first Finish gives every row its own parent, and keeps the types.
LEMMA FinishLinks ==
    ASSUME Typed, Recorded, NEW C, NEW from, Numbers(C, from, rows), rows' = Range(C),
           corr' = corr, step' = step, answered' = answered, late' = late,
           finished' = TRUE
    PROVE  OwnParents' /\ TypeOK'
<1> DEFINE N == Cardinality(rows)
           First(c) == FirstRequest(from, N, c)
<1>1. /\ \A e \in rows' : \E k \in 1 .. N : C[k] = e
      /\ \A k \in 1 .. N : C[k] \in rows'
      /\ \A e \in rows : \E k \in 1 .. N : from[k] = e
  BY DEF Numbers, Enumerates, Arranged
<1>2. ASSUME NEW k \in 1 .. N
      PROVE  /\ from[k] \in rows /\ Made(from[k])
             /\ C[k].id = from[k].id /\ C[k].corr = from[k].corr /\ C[k].ts = from[k].ts
             /\ C[k].type = from[k].type /\ C[k].seq = k - 1
             /\ from[k].type # "postgres.query" => C[k].parent = from[k].parent
             /\ from[k].type = "postgres.query" =>
                   /\ First(from[k].corr) \in 1 .. N
                   /\ from[First(from[k].corr)].type = "http.request"
                   /\ from[First(from[k].corr)].corr = from[k].corr
                   /\ C[k].parent = from[First(from[k].corr)].id
  BY FinishedRow
<1> HIDE DEF N, First
<1>3. ASSUME NEW e \in rows'
      PROVE  /\ e.id[1] \in Requests /\ e.corr = corr[e.id[1]] /\ e.type \in Types
             /\ e.ts \in Int /\ e.seq \in Nat
             /\ e.parent \in {NoParent} \cup {f.id : f \in rows'}
  <2>1. PICK k \in 1 .. N : C[k] = e
    BY <1>1
  <2>2. /\ from[k].id[1] \in Requests /\ from[k].corr = corr[from[k].id[1]]
        /\ from[k].type \in Types /\ from[k].ts \in Int
    BY <1>2 DEF Made, Row, Types
  <2>3. e.parent = NoParent \/ \E f \in rows' : f.id = e.parent
    <3>1. CASE from[k].type = "postgres.query"
      BY <1>1, <1>2, <2>1, <3>1
    <3>2. CASE from[k].type # "postgres.query" /\ from[k].parent # NoParent
      <4>1. PICK f \in rows : f.id = from[k].parent
        BY <1>2, <3>2 DEF Recorded, Complete
      <4>2. PICK i \in 1 .. N : from[i] = f
        BY <1>1
      <4> QED
        BY <1>1, <1>2, <2>1, <3>2, <4>1, <4>2
    <3> QED
      BY <1>2, <2>1, <3>1, <3>2
  <2>4. k - 1 \in Nat
    OBVIOUS
  <2> QED
    BY <1>2, <2>1, <2>2, <2>3, <2>4
<1>4. TypeOK'
  BY <1>3 DEF TypeOK, Typed
<1>5. ASSUME NEW e \in rows'
      PROVE  LET q == e.id[1]
             IN /\ e.type = "http.request" => e.parent = NoParent
                /\ e.type = "postgres.result" => e.parent = Id(q, "postgres.query", e.id[3])
                /\ e.type = "http.response" => e.parent = Id(q, "http.request", 0)
                /\ e.type = "postgres.query" =>
                      /\ e.parent = Id(q, "http.request", 0) \/ Shared(q)
                      /\ \A f \in rows' : f.corr = e.corr /\ f.type = e.type =>
                            f.parent = e.parent
                      /\ \E f \in rows' : f.id = e.parent /\ f.corr = e.corr
                                          /\ f.type = "http.request"
  <2> DEFINE q == e.id[1]
  <2>1. PICK k \in 1 .. N : C[k] = e
    BY <1>1
  <2>2. Made(from[k])
    BY <1>2
  <2>3. /\ e.type = from[k].type /\ e.id = from[k].id /\ e.corr = from[k].corr
        /\ from[k].type # "postgres.query" => e.parent = from[k].parent
    BY <1>2, <2>1
  <2>4. e.type = "http.request" => e.parent = NoParent
    BY <2>2, <2>3 DEF Made
  <2>5. e.type = "postgres.result" => e.parent = Id(q, "postgres.query", e.id[3])
    BY <2>2, <2>3 DEF Made, Id
  <2>6. e.type = "http.response" => e.parent = Id(q, "http.request", 0)
    BY <2>2, <2>3 DEF Made
  <2>7. ASSUME e.type = "postgres.query"
        PROVE  /\ e.parent = Id(q, "http.request", 0) \/ Shared(q)
               /\ \A f \in rows' : f.corr = e.corr /\ f.type = e.type => f.parent = e.parent
               /\ \E f \in rows' : f.id = e.parent /\ f.corr = e.corr
                                   /\ f.type = "http.request"
    <3> DEFINE J == First(e.corr)
    <3>1. /\ J \in 1 .. N /\ from[J].type = "http.request" /\ from[J].corr = e.corr
          /\ e.parent = from[J].id
      BY <1>2, <2>1, <2>3, <2>7
    <3> HIDE DEF J
    <3>2. \A f \in rows' : f.corr = e.corr /\ f.type = e.type => f.parent = e.parent
      <4> SUFFICES ASSUME NEW f \in rows', f.corr = e.corr, f.type = e.type
                   PROVE  f.parent = e.parent
        OBVIOUS
      <4>1. PICK i \in 1 .. N : C[i] = f
        BY <1>1
      <4> QED
        BY <1>2, <2>7, <3>1, <4>1 DEF J
    <3>3. C[J] \in rows' /\ C[J].id = e.parent /\ C[J].corr = e.corr
          /\ C[J].type = "http.request"
      BY <1>1, <1>2, <3>1
    <3>4. e.parent = Id(q, "http.request", 0) \/ Shared(q)
      <4> DEFINE p == from[J].id[1]
      <4>1. p \in Requests /\ from[J].corr = corr[p] /\ from[J].id = Id(p, "http.request", 0)
        BY <1>2, <3>1 DEF Made
      <4>2. e.corr = corr[q]
        BY <2>2, <2>3 DEF Made
      <4>3. p # q => Shared(q)
        BY <3>1, <4>1, <4>2 DEF Shared
      <4> QED
        BY <3>1, <4>1, <4>3
    <3> QED
      BY <3>2, <3>3, <3>4
  <2> QED
    BY <2>4, <2>5, <2>6, <2>7
<1>6. \A q : Shared(q)' <=> Shared(q)
  BY DEF Shared
<1>7. OwnParents'
  <2>1. \A e \in rows' : e.type \in Types
    BY <1>3
  <2> QED
    BY <1>5, <1>6, <2>1 DEF OwnParents, Types
<1> QED
  BY <1>4, <1>7

\* With clocks that agree and advance, the first Finish keeps the order of events.
LEMMA FinishCausal ==
    ASSUME Recorded, Stamped, Causal,
           NEW C, NEW from, Numbers(C, from, rows), rows' = Range(C), corr' = corr,
           late' = late
    PROVE  CausalOrder'
<1> DEFINE N == Cardinality(rows)
           First(c) == FirstRequest(from, N, c)
<1>1. /\ \A e \in rows' : \E k \in 1 .. N : C[k] = e
      /\ \A j, k \in 1 .. N : from[j] = from[k] => j = k
      /\ \A j, k, l \in 1 .. N :
            j < k /\ k < l /\ from[j].corr = from[l].corr => from[k].corr = from[j].corr
      /\ \A j, k \in 1 .. N :
            j <= k /\ from[j].corr = from[k].corr => ~ Before(from[k], from[j])
  BY DEF Numbers, Enumerates, Arranged
<1>2. ASSUME NEW k \in 1 .. N
      PROVE  /\ from[k] \in rows /\ Made(from[k])
             /\ C[k].id = from[k].id /\ C[k].corr = from[k].corr /\ C[k].ts = from[k].ts
             /\ C[k].type = from[k].type /\ C[k].seq = k - 1
             /\ from[k].type # "postgres.query" => C[k].parent = from[k].parent
             /\ from[k].type = "postgres.query" =>
                   /\ First(from[k].corr) \in 1 .. N
                   /\ from[First(from[k].corr)].type = "http.request"
                   /\ from[First(from[k].corr)].corr = from[k].corr
                   /\ C[k].parent = from[First(from[k].corr)].id
                   /\ \E i \in 1 .. N : /\ First(from[k].corr) <= i
                                        /\ from[i].id = Id(from[k].id[1], "http.request", 0)
  BY FinishedRow
<1>3. N \in Nat
  BY FS_CardinalityType DEF Recorded
<1> HIDE DEF N, First
<1>4. \A k \in 1 .. N : /\ from[k].corr = corr[from[k].id[1]] /\ from[k].ts \in Int
                        /\ from[k].id[2] = from[k].type
  <2> TAKE k \in 1 .. N
  <2>1. Made(from[k])
    BY <1>2
  <2> HIDE <1>2
  <2>2. from[k].corr = corr[from[k].id[1]] /\ from[k].ts \in Int
    BY <2>1 DEF Made, Row
  <2>3. from[k].id[2] = from[k].type
    BY <2>1 DEF Made, Id
  <2> QED
    BY <2>2, <2>3
<1>5. ASSUME NEW j \in 1 .. N, NEW k \in 1 .. N, from[j].corr = from[k].corr,
             from[j].ts < from[k].ts
      PROVE  j < k
  <2>1. ~ (k <= j)
    BY <1>1, <1>5 DEF Before
  <2> QED
    BY <1>3, <2>1
<1>6. ASSUME NEW j \in 1 .. N, NEW k \in 1 .. N, from[j].corr = from[k].corr, j < k
      PROVE  from[j].ts < from[k].ts
  <2>1. ~ (from[k].ts < from[j].ts)
    BY <1>1, <1>6 DEF Before
  <2>2. from[j].ts # from[k].ts
    BY <1>1, <1>2, <1>6 DEF Stamped
  <2> QED
    BY <1>4, <2>1, <2>2
<1>7. ASSUME NEW j \in 1 .. N, NEW k \in 1 .. N, from[j].id[1] = from[k].id[1]
      PROVE  /\ from[j].corr = from[k].corr
             /\ from[j].type = "http.request" => j = k \/ j < k
             /\ from[k].type = "http.response" /\ from[j].id[1] \notin late => j = k \/ j < k
             /\ from[k].type = "postgres.result" /\ from[j].id = from[k].parent =>
                   /\ j < k
                   /\ from[j].id[1] \notin late => \A i \in 1 .. N : from[i].id[1] = from[j].id[1] =>
                         from[i].ts <= from[j].ts \/ from[k].ts <= from[i].ts
  <2>1. from[j].corr = from[k].corr
    BY <1>4, <1>7
  <2>2. /\ from[j].type = "http.request" => from[j] = from[k] \/ from[j].ts < from[k].ts
        /\ from[k].type = "http.response" /\ from[j].id[1] \notin late =>
              from[j] = from[k] \/ from[j].ts < from[k].ts
        /\ from[k].type = "postgres.result" /\ from[j].id = from[k].parent =>
              /\ from[j].ts < from[k].ts
              /\ from[j].id[1] \notin late => \A g \in rows : g.id[1] = from[j].id[1] =>
                    g.ts <= from[j].ts \/ from[k].ts <= g.ts
    BY <1>2, <1>7 DEF Causal, InTime
  <2> QED
    BY <1>1, <1>2, <1>5, <2>1, <2>2
<1>8. ASSUME NEW j \in 1 .. N, NEW k \in 1 .. N, C[k].parent = C[j].id
      PROVE  j < k
  <2>1. C[k].parent = from[j].id /\ Made(from[k]) /\ Made(from[j])
    BY <1>2, <1>8
  <2>2. CASE from[k].type = "http.request"
    <3>1. C[k].parent = NoParent
      BY <1>2, <2>1, <2>2 DEF Made
    <3> QED
      BY <2>1, <3>1 DEF Made, Id, NoParent
  <2>3. CASE from[k].type = "http.response"
    <3>1. from[j].id = Id(from[k].id[1], "http.request", 0)
      BY <1>2, <2>1, <2>3 DEF Made
    <3>2. from[j].id[1] = from[k].id[1] /\ from[j].type = "http.request"
      BY <1>4, <3>1 DEF Id
    <3> QED
      BY <1>7, <2>3, <3>2
  <2>4. CASE from[k].type = "postgres.result"
    <3>1. from[j].id = from[k].parent
      BY <1>2, <2>1, <2>4
    <3>2. from[j].id[1] = from[k].id[1]
      BY <2>1, <2>4, <3>1 DEF Made, Id
    <3> QED
      BY <1>7, <2>4, <3>1, <3>2
  <2>5. CASE from[k].type = "postgres.query"
    <3>1. PICK J \in 1 .. N :
            /\ from[J].type = "http.request" /\ C[k].parent = from[J].id
            /\ \E i \in 1 .. N : J <= i /\ from[i].id = Id(from[k].id[1], "http.request", 0)
      BY <1>2, <2>5
    <3>2. PICK i \in 1 .. N : J <= i /\ from[i].id = Id(from[k].id[1], "http.request", 0)
      BY <3>1
    <3>3. J = j
      <4>1. from[J] \in rows /\ from[j] \in rows /\ from[J].id = from[j].id
        BY <1>2, <2>1, <3>1
      <4>2. from[J] = from[j]
        BY <4>1 DEF Recorded, Unmixed
      <4> QED
        BY <1>1, <4>2
    <3>4. from[i].id[1] = from[k].id[1] /\ from[i].type = "http.request"
      BY <1>4, <3>2 DEF Id
    <3>5. i < k
      BY <1>7, <2>5, <3>4
    <3> QED
      BY <1>3, <3>2, <3>3, <3>5
  <2> QED
    BY <2>1, <2>2, <2>3, <2>4, <2>5 DEF Made
<1>9. ASSUME NEW j \in 1 .. N, NEW k \in 1 .. N, C[k].parent = C[j].id,
             C[k].type = "postgres.result", ~ Shared(C[j].id[1]), C[j].id[1] \notin late
      PROVE  k = j + 1
  <2>1. /\ from[k].type = "postgres.result" /\ from[j].id = from[k].parent
        /\ ~ Shared(from[j].id[1]) /\ from[j].id[1] \notin late
    BY <1>2, <1>9
  <2>2. from[j].id[1] = from[k].id[1]
    BY <1>2, <2>1 DEF Made, Id
  <2>3. j < k /\ from[j].corr = from[k].corr
    BY <1>7, <2>1, <2>2
  <2>4. ASSUME j + 1 < k
        PROVE  FALSE
    <3>1. j + 1 \in 1 .. N
      BY <1>3, <2>4
    <3> DEFINE i == j + 1
    <3>2. j < i /\ i < k /\ i \in 1 .. N
      BY <1>3, <2>4
    <3> HIDE DEF i
    <3>3. from[i].corr = from[j].corr
      BY <1>1, <2>3, <3>2
    <3>4. from[i].id[1] = from[j].id[1]
      <4>1. from[i].id[1] \in Requests
        BY <1>2, <3>2 DEF Made
      <4>2. corr[from[i].id[1]] = corr[from[j].id[1]]
        BY <1>4, <3>2, <3>3
      <4> QED
        BY <2>1, <4>1, <4>2 DEF Shared
    <3>5. from[i].ts <= from[j].ts \/ from[k].ts <= from[i].ts
      BY <1>7, <2>1, <2>2, <3>2, <3>4
    <3>6. from[j].ts < from[i].ts /\ from[i].ts < from[k].ts
      BY <1>6, <2>3, <3>2, <3>3
    <3> QED
      BY <1>4, <3>2, <3>5, <3>6
  <2> QED
    BY <1>3, <2>3, <2>4
<1>10. \A q : Shared(q)' <=> Shared(q)
  BY DEF Shared
<1>11. ASSUME NEW e \in rows', NEW f \in rows'
       PROVE  /\ f.parent = e.id => e.seq < f.seq
              /\ e.id[1] = f.id[1] /\ f.type = "http.response" /\ e.id[1] \notin late =>
                    e.seq <= f.seq
              /\ f.parent = e.id /\ f.type = "postgres.result" /\ ~Shared(e.id[1])
                    /\ e.id[1] \notin late => f.seq = e.seq + 1
  <2>1. PICK j \in 1 .. N : C[j] = e
    BY <1>1
  <2>2. PICK k \in 1 .. N : C[k] = f
    BY <1>1
  <2>3. e.seq = j - 1 /\ f.seq = k - 1
    BY <1>2, <2>1, <2>2
  <2>4. f.parent = e.id => j < k
    BY <1>8, <2>1, <2>2
  <2>5. e.id[1] = f.id[1] /\ f.type = "http.response" /\ e.id[1] \notin late => j = k \/ j < k
    BY <1>2, <1>7, <2>1, <2>2
  <2>6. f.parent = e.id /\ f.type = "postgres.result" /\ ~Shared(e.id[1])
           /\ e.id[1] \notin late => k = j + 1
    BY <1>9, <2>1, <2>2
  <2> QED
    BY <1>3, <2>3, <2>4, <2>5, <2>6
<1> QED
  BY <1>10, <1>11 DEF CausalOrder

-----------------------------------------------------------------------------
(* The theorems *)

IInv ==
    /\ Typed
    /\ ~ finished => Recorded /\ (ClocksAgree => Stamped /\ Causal)
    /\ finished => /\ Settled
                   /\ TypeOK /\ GapFreeSequence /\ OwnParents /\ CausalOrder

LEMMA RecordedIsTyped ==
    ASSUME Typed, Recorded
    PROVE  TypeOK
<1>1. ASSUME NEW e \in rows
      PROVE  /\ e.id[1] \in Requests /\ e.corr = corr[e.id[1]] /\ e.type \in Types
             /\ e.ts \in Int /\ e.seq \in Nat
             /\ e.parent \in {NoParent} \cup {f.id : f \in rows}
  <2>1. Made(e)
    BY DEF Recorded
  <2>2. e.parent # NoParent => \E f \in rows : f.id = e.parent
    BY DEF Recorded, Complete
  <2> QED
    BY <2>1, <2>2 DEF Made, Row, Types
<1> QED
  BY <1>1 DEF TypeOK, Typed

LEMMA IInvInit == Init => IInv
<1> SUFFICES ASSUME Init PROVE IInv
  OBVIOUS
<1>1. PICK s \in Settings : skew = s.skew /\ tick = s.tick
  BY DEF Init
<1>2. Typed
  <2>1. skew \in Int /\ tick \in {0, 1}
    BY <1>1, EventOrderAssumption, Zenon
  <2>2. /\ now = 0 /\ step = [q \in Requests |-> "idle"] /\ answered = {} /\ late = {}
        /\ began = [q \in Requests |-> 0]
        /\ proxySeq = 0 /\ appSeq = 0 /\ finished = FALSE
    BY Zenon DEF Init
  <2>3. finished \in BOOLEAN
    BY <2>2, Zenon
  <2>4. /\ now \in Int /\ proxySeq \in Nat /\ appSeq \in Nat
        /\ step \in [Requests -> {"idle", "open", "sql"}]
        /\ answered = {} /\ late = {}
        /\ began \in [Requests -> Int]
    BY <2>2
  <2>5. answered \subseteq Requests /\ late \subseteq answered /\ answered = {}
    BY <2>4
  <2> QED
    BY <2>1, <2>3, <2>4, <2>5, Zenon DEF Typed
<1>3. rows = {} /\ \A q \in Requests : step[q] = "idle"
  BY DEF Init
<1>4. Recorded
  BY <1>3, FS_EmptySet DEF Recorded, Unmixed, Complete
<1>5. Stamped /\ Causal
  BY <1>3 DEF Stamped, Causal, InTime
<1> QED
  BY <1>2, <1>4, <1>5 DEF Init, IInv

LEMMA IInvNext == IInv /\ [Next]_vars => IInv'
<1> SUFFICES ASSUME IInv, [Next]_vars PROVE IInv'
  OBVIOUS
<1>1. Typed /\ Typed'
  BY TypedStep DEF IInv
<1>2. ASSUME NEW q \in Requests, SendRequest(q)
      PROVE  IInv'
  <2>1. ~ finished /\ ~ finished' /\ (ClocksAgree' <=> ClocksAgree) /\ Recorded
    BY <1>2 DEF SendRequest, ClocksAgree, IInv
  <2>2. Recorded'
    BY <1>1, <1>2, <2>1, SendRequestAdds, AddsKeeps
  <2>3. ClocksAgree => Stamped' /\ Causal'
    BY <1>1, <1>2, <2>1, SendRequestInTime DEF IInv
  <2> QED
    BY <1>1, <2>1, <2>2, <2>3 DEF IInv
<1>3. ASSUME NEW q \in Requests, BeforeStatement(q)
      PROVE  IInv'
  <2>1. ~ finished /\ ~ finished' /\ (ClocksAgree' <=> ClocksAgree) /\ Recorded
    BY <1>3 DEF BeforeStatement, ClocksAgree, IInv
  <2>2. Recorded'
    BY <1>1, <1>3, <2>1, BeforeStatementAdds, AddsKeeps
  <2>3. ClocksAgree => Stamped' /\ Causal'
    BY <1>1, <1>3, <2>1, BeforeStatementInTime DEF IInv
  <2> QED
    BY <1>1, <2>1, <2>2, <2>3 DEF IInv
<1>4. ASSUME NEW q \in Requests, AfterStatement(q)
      PROVE  IInv'
  <2>1. ~ finished /\ ~ finished' /\ (ClocksAgree' <=> ClocksAgree) /\ Recorded
    BY <1>4 DEF AfterStatement, ClocksAgree, IInv
  <2>2. Recorded'
    BY <1>1, <1>4, <2>1, AfterStatementAdds, AddsKeeps
  <2>3. ClocksAgree => Stamped' /\ Causal'
    BY <1>1, <1>4, <2>1, AfterStatementInTime DEF IInv
  <2> QED
    BY <1>1, <2>1, <2>2, <2>3 DEF IInv
<1>5. ASSUME NEW q \in Requests, SendResponse(q)
      PROVE  IInv'
  <2>1. ~ finished /\ ~ finished' /\ (ClocksAgree' <=> ClocksAgree) /\ Recorded
    BY <1>5 DEF SendResponse, ClocksAgree, IInv
  <2>2. Recorded'
    BY <1>1, <1>5, <2>1, SendResponseAdds, AddsKeeps
  <2>3. ClocksAgree => Stamped' /\ Causal'
    BY <1>1, <1>5, <2>1, SendResponseInTime DEF IInv
  <2> QED
    BY <1>1, <2>1, <2>2, <2>3 DEF IInv
<1>6. CASE Finish /\ ~ finished
  <2>1. Recorded /\ (ClocksAgree => Stamped /\ Causal)
    BY <1>6 DEF IInv
  <2>2. /\ finished' = TRUE /\ corr' = corr /\ step' = step
        /\ answered' = answered /\ late' = late /\ (ClocksAgree' <=> ClocksAgree)
    BY <1>6 DEF Finish, ClocksAgree
  <2>3. PICK C, from : Numbers(C, from, rows) /\ rows' = Range(C)
    BY <1>6, <2>1, FinishNumbers
  <2>4. Settled'
    BY <1>6, <2>1, FinishNumbers
  <2>5. GapFreeSequence'
    BY <2>1, <2>3, FinishNumbersGapFree DEF Recorded
  <2>6. OwnParents' /\ TypeOK'
    BY <1>1, <2>1, <2>2, <2>3, FinishLinks
  <2>7. CausalOrder'
    <3>1. CASE ClocksAgree
      BY <2>1, <2>2, <2>3, <3>1, FinishCausal
    <3>2. CASE ~ ClocksAgree
      BY <2>2, <3>2 DEF CausalOrder
    <3> QED
      BY <3>1, <3>2
  <2> QED
    BY <1>1, <2>2, <2>4, <2>5, <2>6, <2>7 DEF IInv
<1>7. CASE Finish /\ finished
  <2>1. rows' = rows
    BY <1>7, SettledStays DEF IInv
  <2>2. /\ finished' = finished /\ corr' = corr /\ step' = step /\ skew' = skew
        /\ tick' = tick /\ answered' = answered /\ late' = late
    BY <1>7 DEF Finish
  <2>3. Settled' /\ TypeOK' /\ GapFreeSequence' /\ OwnParents' /\ CausalOrder'
    BY <1>7, <2>1, <2>2
       DEF IInv, Settled, TypeOK, GapFreeSequence, OwnParents, CausalOrder, ClocksAgree,
           Shared
  <2> QED
    BY <1>1, <1>7, <2>2, <2>3 DEF IInv
<1>8. CASE UNCHANGED vars
  <2>1. /\ finished' = finished /\ corr' = corr /\ step' = step /\ skew' = skew
        /\ tick' = tick /\ rows' = rows /\ now' = now /\ began' = began
        /\ answered' = answered /\ late' = late
        /\ proxySeq' = proxySeq /\ appSeq' = appSeq
    BY <1>8 DEF vars
  <2>2. \A e : Made(e)' <=> Made(e)
    BY <2>1 DEF Made
  <2>3. Recorded => Recorded'
    BY <2>1, <2>2 DEF Recorded, Unmixed, Complete
  <2>4. Stamped /\ Causal => Stamped' /\ Causal'
    BY <2>1 DEF Stamped, Causal, InTime
  <2>5. Settled /\ TypeOK /\ GapFreeSequence /\ OwnParents /\ CausalOrder =>
           Settled' /\ TypeOK' /\ GapFreeSequence' /\ OwnParents' /\ CausalOrder'
    BY <2>1 DEF Settled, TypeOK, GapFreeSequence, OwnParents, CausalOrder, ClocksAgree,
                Shared
  <2>6. ClocksAgree' <=> ClocksAgree
    BY <2>1 DEF ClocksAgree
  <2> QED
    BY <1>1, <2>1, <2>3, <2>4, <2>5, <2>6 DEF IInv
<1> QED
  BY <1>2, <1>3, <1>4, <1>5, <1>6, <1>7, <1>8 DEF Next

\* The invariant the other theorems rest on holds in every reachable state:
\* what a row says is what the recorder stamped on it, until the finish.
THEOREM IInvAlways == Spec => []IInv
  BY IInvInit, IInvNext, PTL DEF Spec

\* The rows are well-typed and every parent is a row, before and after finishing.
THEOREM TypeOKAlways == Spec => []TypeOK
<1>1. IInv => TypeOK
  BY RecordedIsTyped DEF IInv, Typed
<1> QED
  BY <1>1, IInvAlways, PTL

\* Finishing re-sequences the rows without a gap, group by group.
THEOREM GapFreeAlways == Spec => []GapFreeSequence
<1>1. IInv => GapFreeSequence
  BY DEF IInv, GapFreeSequence
<1> QED
  BY <1>1, IInvAlways, PTL

\* Finishing parents statements to the request that caused them, and overwrites no
\* recorded parent.
THEOREM OwnParentsAlways == Spec => []OwnParents
<1>1. IInv => OwnParents
  BY DEF IInv, OwnParents
<1> QED
  BY <1>1, IInvAlways, PTL

\* When the clocks agree and advance, finishing puts causes before effects.
THEOREM CausalOrderAlways == Spec => []CausalOrder
<1>1. IInv => CausalOrder
  BY DEF IInv, CausalOrder
<1> QED
  BY <1>1, IInvAlways, PTL

\* When the clocks agree and advance, correlation does not depend on how the database
\* orders the rows whose sequences coincide.
THEOREM OrderIndependentAlways == Spec => []OrderIndependent
<1>1. ASSUME IInv, ~ finished, ClocksAgree,
             NEW s \in RowOrders(rows), NEW t \in RowOrders(rows)
      PROVE  Correlated(s) = Correlated(t)
  <2>1. Recorded /\ Stamped
    BY <1>1 DEF IInv
  <2>2. /\ IsFiniteSet(rows) /\ (\A e \in rows : Row(e))
        /\ \A e, f \in rows : e.seq = f.seq /\ (IsHttp(e) <=> IsHttp(f)) => e = f
    BY <2>1 DEF Recorded, Made, Unmixed
  <2>3. Enumerates(s, rows) /\ Enumerates(t, rows)
    BY <2>2, RowOrdersEnumerate
  <2>4. Distinct(rows)
    <3> SUFFICES ASSUME NEW e \in rows, NEW f \in rows, e # f
                 PROVE  Before(e, f) \/ Before(f, e)
      BY DEF Distinct
    <3>1. e.ts # f.ts /\ e.ts \in Int /\ f.ts \in Int
      BY <2>1, <2>2 DEF Stamped, Row
    <3> QED
      BY <3>1 DEF Before
  <2> QED
    BY <2>2, <2>3, <2>4, ArrivalDoesNotMatter
<1>2. IInv => OrderIndependent
  BY <1>1 DEF OrderIndependent
<1> QED
  BY <1>2, IInvAlways, PTL

\* Finishing again, as an import does, changes no row, whatever the clocks did.
THEOREM FinishedStays == Spec => FinishedIsFixed
<1>1. IInv /\ [Next]_vars => [finished => rows' = rows]_vars
  <2> SUFFICES ASSUME IInv, [Next]_vars, finished PROVE rows' = rows
    OBVIOUS
  <2>1. CASE Finish
    BY <2>1, SettledStays DEF IInv
  <2>2. CASE UNCHANGED vars
    BY <2>2 DEF vars
  <2> QED
    BY <2>1, <2>2 DEF Next, SendRequest, BeforeStatement, AfterStatement, SendResponse
<1> QED
  BY <1>1, IInvAlways, PTL DEF Spec, FinishedIsFixed
=============================================================================
