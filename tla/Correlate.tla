----------------------------- MODULE Correlate -----------------------------
(***************************************************************************)
(* recording/correlate.py: the order and the parents finish_recording      *)
(* gives to the rows of a recording.  An event here is a record            *)
(*   [id, corr, ts, seq, type, parent]                                     *)
(* with parent = NoParent when the producer did not know one.              *)
(***************************************************************************)
EXTENDS Integers, FiniteSets, SequencesExt

NoParent == <<>>

\* Mutants of Before: the sequence decides first; the sequence decides backwards.
BeforeBySequence(a, b) == a.seq < b.seq \/ (a.seq = b.seq /\ a.ts < b.ts)
BeforeBackwards(a, b)  == a.ts < b.ts \/ (a.ts = b.ts /\ a.seq > b.seq)

\* The sort key of an event: (timestamp_ns, sequence).
Before(a, b) == a.ts < b.ts \/ (a.ts = b.ts /\ a.seq < b.seq)

\* The elements of a set by their rank in it, 1, 2, ...
Ranked(rank) ==
    [k \in 1 .. Cardinality(DOMAIN rank) |-> CHOOSE x \in DOMAIN rank : rank[x] = k]

\* The elements of s at the indices I, in the order of s.
Pick(s, I) ==
    LET order == Ranked([i \in I |-> Cardinality({j \in I : j <= i})])
    IN [k \in DOMAIN order |-> s[order[k]]]

\* The sequences of a sequence of sequences, one after the other.
Flattened(seqs) ==
    LET places == UNION {{<<a, x>> : x \in DOMAIN seqs[a]} : a \in DOMAIN seqs}
        upTo(p) == {q \in places : q[1] < p[1] \/ (q[1] = p[1] /\ q[2] <= p[2])}
        order   == Ranked([p \in places |-> Cardinality(upTo(p))])
    IN [k \in DOMAIN order |-> seqs[order[k][1]][order[k][2]]]

\* Python's sorted(): ascending, and stable among equals.
StableSort(s, Lt(_, _)) ==
    LET first(i, j) == Lt(s[i], s[j]) \/ (~ Lt(s[j], s[i]) /\ i <= j)
        order == Ranked([i \in DOMAIN s |->
                            Cardinality({j \in DOMAIN s : first(j, i)})])
    IN [k \in DOMAIN order |-> s[order[k]]]

\* sorted(events, key=lambda e: e.sequence).
BySequence(events) == StableSort(events, LAMBDA a, b : a.seq < b.seq)

\* _events_for: the rows ordered by sequence.  Where the two producers' counters
\* coincide the database may return either row first: front says which.
RowOrders(S) ==
    LET isHttp(e) == e.type \in {"http.request", "http.response"}
        ordered(front) == Ranked([e \in S |-> Cardinality({f \in S :
                    \/ f.seq < e.seq
                    \/ f.seq = e.seq /\ (f = e \/ (isHttp(f) <=> f.seq \in front))})])
        shared == {e.seq : e \in {f \in S : \E g \in S : g # f /\ g.seq = f.seq}}
    IN {ordered(front) : front \in SUBSET shared}

\* The events of one correlation id, in wall-clock order.
Group(events, corr) ==
    StableSort(Pick(events, {i \in DOMAIN events : events[i].corr = corr}), Before)

\* One group for each correlation id, in order of arrival.
Arrived(events) ==
    LET leaders == {i \in DOMAIN events :
                       \A j \in 1 .. i - 1 : events[j].corr # events[i].corr}
    IN Pick([i \in DOMAIN events |-> Group(events, events[i].corr)], leaders)

\* Mutant of Groups: the groups stay in order of arrival.
GroupsAsArrived(events) == Arrived(events)

\* _groups: the events of each correlation id in wall-clock order, the groups by
\* their first event.
Groups(events) == StableSort(Arrived(events), LAMBDA g, h : Before(g[1], h[1]))

\* Mutant of ParentFor: queries, too, hang off the query before them.
ParentForAnySql(group, i) ==
    LET requests == {j \in DOMAIN group : group[j].type = "http.request"}
        queries  == {j \in 1 .. i - 1 : group[j].type = "postgres.query"}
        root     == IF requests = {} THEN NoParent
                    ELSE group[CHOOSE j \in requests : \A k \in requests : j <= k].id
    IN CASE group[i].type = "http.request" -> NoParent
         [] group[i].type # "http.response" /\ queries # {} ->
               group[CHOOSE j \in queries : \A k \in queries : k <= j].id
         [] OTHER -> root

\* _parent_for, for the i-th event of a group: no parent for a request, the last
\* query before it for a result, the group's request for the rest.
ParentFor(group, i) ==
    LET requests == {j \in DOMAIN group : group[j].type = "http.request"}
        queries  == {j \in 1 .. i - 1 : group[j].type = "postgres.query"}
        root     == IF requests = {} THEN NoParent
                    ELSE group[CHOOSE j \in requests : \A k \in requests : j <= k].id
    IN CASE group[i].type = "http.request" -> NoParent
         [] group[i].type = "postgres.result" /\ queries # {} ->
               group[CHOOSE j \in queries : \A k \in queries : k <= j].id
         [] OTHER -> root

\* _link: only missing parents are filled in.
Link(group) ==
    [i \in DOMAIN group |->
        IF group[i].parent # NoParent THEN group[i]
        ELSE [group[i] EXCEPT !.parent = ParentFor(group, i)]]

\* Mutant of Correlated: numbered from 1.
CorrelatedFromOne(events) ==
    LET groups == Groups(events)
        linked == Flattened([k \in DOMAIN groups |-> Link(groups[k])])
    IN [k \in DOMAIN linked |-> [linked[k] EXCEPT !.seq = k]]

\* correlate: group by group, numbered from 0.
Correlated(events) ==
    LET groups == Groups(events)
        linked == Flattened([k \in DOMAIN groups |-> Link(groups[k])])
    IN [k \in DOMAIN linked |-> [linked[k] EXCEPT !.seq = k - 1]]
=============================================================================
