----------------------------- MODULE Comparison -----------------------------
(***************************************************************************)
(* How a replay is set against its source: replay/linking.py pairs the two *)
(* event streams by position, comparison/engine.py walks the pairs.        *)
(* A stream is a sequence of the events of Correlate, each with a payload  *)
(*   [shape, fresh]                                                        *)
(* where fresh stands for the ids and timestamps every run makes anew, and *)
(* shape for the rest; shape "error" is a request that got no answer.      *)
(***************************************************************************)
EXTENDS Correlate

None == <<>>

\* The signature of the i-th event of a stream: the rank of its group by first
\* appearance, its type, and how many of its type the group had before it.
Signature(s, i) ==
    LET first == CHOOSE k \in DOMAIN s : /\ s[k].corr = s[i].corr
                                         /\ \A j \in 1 .. k - 1 : s[j].corr # s[i].corr
    IN [group      |-> Cardinality({s[j].corr : j \in 1 .. first - 1}),
        type       |-> s[i].type,
        occurrence |-> Cardinality({j \in 1 .. i - 1 :
                          s[j].corr = s[i].corr /\ s[j].type = s[i].type})]

\* link_streams: <<original id, replayed id>> of the events with equal signatures.
LinkStreams(original, replayed) ==
    LET o == BySequence(original)
        r == BySequence(replayed)
        sig  == [i \in DOMAIN o |-> Signature(o, i)]
        rsig == [j \in DOMAIN r |-> Signature(r, j)]
    IN {<<o[p[1]].id, r[p[2]].id>> :
           p \in {q \in (DOMAIN o) \X (DOMAIN r) : sig[q[1]] = rsig[q[2]]}}

\* comparator_for: requests and queries have no comparator.
Comparable(e) == e.type \in {"http.response", "postgres.result"}

\* Mutant of Normalized: nothing is erased.
NormalizedNot(payload) == payload

\* normalize: what every run makes anew is replaced by a placeholder.
Normalized(payload) == payload.shape

\* HttpComparator.compare, PostgresComparator.compare.
Category(original, replayed) ==
    CASE replayed.payload.shape = "error" -> "error"
      [] replayed.payload.shape # "error"
         /\ Normalized(original.payload) # Normalized(replayed.payload) -> "different"
      [] OTHER -> "match"

Result(original, replayed, category) ==
    [original |-> original, replayed |-> replayed, category |-> category]

\* Mutant of CompareRun: consumed is never filled, so pairs are "new" as well.
CompareRunUnconsumed(original, replayed, links) ==
    LET walked      == Pick(original, {i \in DOMAIN original : Comparable(original[i])})
        partners(e) == {f \in Range(replayed) : <<e.id, f.id>> \in links}
        outcome(e)  == IF partners(e) = {} THEN Result(e.id, None, "missing")
                       ELSE LET f == CHOOSE f \in partners(e) : TRUE
                            IN Result(e.id, f.id, Category(e, f))
        left        == Pick(replayed, {j \in DOMAIN replayed : Comparable(replayed[j])})
    IN [k \in DOMAIN walked |-> outcome(walked[k])]
       \o [k \in DOMAIN left |-> Result(None, left[k].id, "new")]

\* compare_run: one result for each comparable original, in order, then one for
\* each comparable replayed event that none of them consumed.
CompareRun(original, replayed, links) ==
    LET walked      == Pick(original, {i \in DOMAIN original : Comparable(original[i])})
        partners(e) == {f \in Range(replayed) : <<e.id, f.id>> \in links}
        outcome(e)  == IF partners(e) = {} THEN Result(e.id, None, "missing")
                       ELSE LET f == CHOOSE f \in partners(e) : TRUE
                            IN Result(e.id, f.id, Category(e, f))
        left        == Pick(replayed, {j \in DOMAIN replayed :
                          /\ Comparable(replayed[j])
                          /\ \A e \in Range(walked) : <<e.id, replayed[j].id>> \notin links})
    IN [k \in DOMAIN walked |-> outcome(walked[k])]
       \o [k \in DOMAIN left |-> Result(None, left[k].id, "new")]
=============================================================================
