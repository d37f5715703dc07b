---------------------------- MODULE ReplayProofs ----------------------------
(***************************************************************************)
(* Proofs about Comparison and ReplayRun, for any number of requests and   *)
(* statements, any setups and any mock stream: links pair the events of    *)
(* two streams one to one and follow the requests, a comparison accounts   *)
(* for every event and finds nothing where nothing changed, and a run ends *)
(* the way its row says.                                                   *)
(***************************************************************************)
EXTENDS ReplayRun, CorrelateProofs

-----------------------------------------------------------------------------
(* Signatures *)

\* s lists n events with an id each.
Stream(s, n) ==
    /\ n \in Nat /\ DOMAIN s = 1 .. n
    /\ \A k \in 1 .. n : s[k].seq \in Int
    /\ \A j, k \in 1 .. n : s[j].id = s[k].id => j = k

\* The group of the i-th event of s begins at f.
BeginsAt(s, i, f) ==
    f \in 1 .. i /\ s[f].corr = s[i].corr /\ \A j \in 1 .. f - 1 : s[j].corr # s[i].corr

GroupsBefore(s, f) == {s[j].corr : j \in 1 .. f - 1}

AlikeBefore(s, i) == {j \in 1 .. i - 1 : s[j].corr = s[i].corr /\ s[j].type = s[i].type}

LEMMA SignatureIs ==
    ASSUME NEW n \in Nat, NEW s, DOMAIN s = 1 .. n, NEW i \in 1 .. n
    PROVE  \E f : /\ BeginsAt(s, i, f)
                  /\ Signature(s, i) = [group      |-> Cardinality(GroupsBefore(s, f)),
                                        type       |-> s[i].type,
                                        occurrence |-> Cardinality(AlikeBefore(s, i))]
<1> DEFINE S == {k \in 1 .. n : s[k].corr = s[i].corr}
           First(k) == s[k].corr = s[i].corr /\ \A j \in 1 .. k - 1 : s[j].corr # s[i].corr
           f == CHOOSE k \in DOMAIN s : First(k)
<1>1. PICK m \in S : \A k \in S : m <= k
  <2>1. S \in SUBSET Nat /\ i \in S
    OBVIOUS
  <2> HIDE DEF S
  <2> QED
    BY <2>1, LeastExists
<1>2. First(m)
  BY <1>1
<1>3. f \in DOMAIN s /\ First(f)
  BY <1>1, <1>2
<1>4. f \in 1 .. i
  <2>1. f > i => i \in 1 .. f - 1
    BY <1>3
  <2> QED
    BY <1>3, <2>1
<1>5. Signature(s, i) = [group |-> Cardinality({s[j].corr : j \in 1 .. f - 1}),
                         type  |-> s[i].type,
                         occurrence |-> Cardinality({j \in 1 .. i - 1 :
                              s[j].corr = s[i].corr /\ s[j].type = s[i].type})]
  BY DEF Signature
<1> HIDE DEF f
<1>6. BeginsAt(s, i, f)
  BY <1>3, <1>4 DEF BeginsAt
<1> QED
  BY <1>5, <1>6 DEF GroupsBefore, AlikeBefore

\* No two events of a stream have one signature.
LEMMA SignatureTells ==
    ASSUME NEW n \in Nat, NEW s, DOMAIN s = 1 .. n, NEW i \in 1 .. n, NEW k \in 1 .. n,
           Signature(s, i) = Signature(s, k)
    PROVE  i = k
<1>1. ASSUME NEW j \in 1 .. n, NEW l \in 1 .. n, Signature(s, j) = Signature(s, l)
      PROVE  ~ (j < l)
  <2>1. PICK f : /\ BeginsAt(s, j, f)
                 /\ Signature(s, j) = [group |-> Cardinality(GroupsBefore(s, f)),
                                       type |-> s[j].type,
                                       occurrence |-> Cardinality(AlikeBefore(s, j))]
    BY SignatureIs
  <2>2. PICK g : /\ BeginsAt(s, l, g)
                 /\ Signature(s, l) = [group |-> Cardinality(GroupsBefore(s, g)),
                                       type |-> s[l].type,
                                       occurrence |-> Cardinality(AlikeBefore(s, l))]
    BY SignatureIs
  <2>3. /\ Cardinality(GroupsBefore(s, f)) = Cardinality(GroupsBefore(s, g))
        /\ s[j].type = s[l].type
        /\ Cardinality(AlikeBefore(s, j)) = Cardinality(AlikeBefore(s, l))
    <3>1. /\ Signature(s, j).group = Cardinality(GroupsBefore(s, f))
          /\ Signature(s, j).type = s[j].type
          /\ Signature(s, j).occurrence = Cardinality(AlikeBefore(s, j))
      BY ONLY <2>1
    <3>2. /\ Signature(s, l).group = Cardinality(GroupsBefore(s, g))
          /\ Signature(s, l).type = s[l].type
          /\ Signature(s, l).occurrence = Cardinality(AlikeBefore(s, l))
      BY ONLY <2>2
    <3> QED
      BY <1>1, <3>1, <3>2
  <2>4. f \in 1 .. n /\ g \in 1 .. n
    BY <2>1, <2>2 DEF BeginsAt
  <2>5. ASSUME NEW x \in 1 .. n, NEW y \in 1 .. n, x < y, NEW z \in 1 .. n,
               BeginsAt(s, z, x)
        PROVE  Cardinality(GroupsBefore(s, x)) # Cardinality(GroupsBefore(s, y))
    <3> DEFINE h == [u \in 1 .. y - 1 |-> s[u].corr]
    <3>1. IsFiniteSet(GroupsBefore(s, y))
      <4>1. h \in Surjection(1 .. y - 1, GroupsBefore(s, y))
        BY DEF Surjection, GroupsBefore
      <4> QED
        BY <4>1, FS_Interval, FS_Surjection
    <3>2. GroupsBefore(s, x) \in SUBSET GroupsBefore(s, y)
      BY <2>5 DEF GroupsBefore
    <3>3. s[x].corr \in GroupsBefore(s, y)
      BY <2>5 DEF GroupsBefore
    <3>4. s[x].corr \notin GroupsBefore(s, x)
      BY <2>5 DEF GroupsBefore, BeginsAt
    <3> QED
      BY <3>1, <3>2, <3>3, <3>4, FS_Subset
  <2>6. f = g
    <3>1. ~ (f < g)
      BY <2>1, <2>3, <2>4, <2>5
    <3>2. ~ (g < f)
      BY <2>2, <2>3, <2>4, <2>5
    <3> QED
      BY <2>4, <3>1, <3>2
  <2>7. s[j].corr = s[l].corr
    BY <2>1, <2>2, <2>6 DEF BeginsAt
  <2> SUFFICES ASSUME j < l PROVE FALSE
    OBVIOUS
  <2>8. IsFiniteSet(AlikeBefore(s, l))
    <3>1. IsFiniteSet(1 .. l - 1) /\ AlikeBefore(s, l) \in SUBSET (1 .. l - 1)
      BY FS_Interval DEF AlikeBefore
    <3> QED
      BY <3>1, FS_Subset
  <2>9. /\ AlikeBefore(s, j) \in SUBSET AlikeBefore(s, l)
        /\ j \in AlikeBefore(s, l) /\ j \notin AlikeBefore(s, j)
    BY <2>3, <2>7 DEF AlikeBefore
  <2> QED
    BY <2>3, <2>8, <2>9, FS_Subset
<1> QED
  BY <1>1

-----------------------------------------------------------------------------
(* Links *)

\* The i-th event of s and the j-th of t, in the order of their sequences, have one
\* signature.
Linked(s, o, t, r, i, j) ==
    Signature([k \in DOMAIN o |-> s[o[k]]], i) = Signature([k \in DOMAIN r |-> t[r[k]]], j)

LinksIn(s, n, o, t, m, r) ==
    {<<s[o[p[1]]].id, t[r[p[2]]].id>> :
        p \in {q \in (1 .. n) \X (1 .. m) : Linked(s, o, t, r, q[1], q[2])}}

LEMMA LinksAre ==
    ASSUME NEW n, NEW s, Stream(s, n), NEW m, NEW t, Stream(t, m)
    PROVE  \E o, r : /\ PutsInOrder(o, n, s) /\ PutsInOrder(r, m, t)
                     /\ LinkStreams(s, t) = LinksIn(s, n, o, t, m, r)
<1>1. PICK o : PutsInOrder(o, n, s)
  BY SortedBySequence DEF Stream
<1>2. PICK r : PutsInOrder(r, m, t)
  BY SortedBySequence DEF Stream
<1> DEFINE O == [k \in 1 .. n |-> s[o[k]]]
           R == [k \in 1 .. m |-> t[r[k]]]
<1>3. /\ BySequence(s) = O /\ BySequence(t) = R
      /\ DOMAIN o = 1 .. n /\ DOMAIN r = 1 .. m
  BY <1>1, <1>2 DEF PutsInOrder
<1> DEFINE sig == [i \in 1 .. n |-> Signature(O, i)]
           rsig == [j \in 1 .. m |-> Signature(R, j)]
           pairs == {q \in (1 .. n) \X (1 .. m) : sig[q[1]] = rsig[q[2]]}
<1>4. /\ DOMAIN O = 1 .. n /\ DOMAIN R = 1 .. m
      /\ \A k \in 1 .. n : O[k] = s[o[k]]
      /\ \A k \in 1 .. m : R[k] = t[r[k]]
  OBVIOUS
<1> HIDE DEF O, R
<1>5. LinkStreams(s, t) = {<<O[p[1]].id, R[p[2]].id>> : p \in pairs}
  BY <1>3, <1>4 DEF LinkStreams
<1>6. pairs = {q \in (1 .. n) \X (1 .. m) : Linked(s, o, t, r, q[1], q[2])}
  BY <1>3 DEF Linked, O, R
<1>7. \A p \in pairs : O[p[1]] = s[o[p[1]]] /\ R[p[2]] = t[r[p[2]]]
  BY <1>4
<1> HIDE DEF pairs
<1>8. LinkStreams(s, t) = {<<s[o[p[1]]].id, t[r[p[2]]].id>> : p \in pairs}
  BY <1>5, <1>7
<1>9. LinkStreams(s, t) = LinksIn(s, n, o, t, m, r)
  <2>1. LinkStreams(s, t) = {<<s[o[p[1]]].id, t[r[p[2]]].id>> :
                                p \in {q \in (1 .. n) \X (1 .. m) :
                                          Linked(s, o, t, r, q[1], q[2])}}
    BY ONLY <1>6, <1>8
  <2> QED
    BY ONLY <2>1 DEF LinksIn
<1> QED
  BY <1>1, <1>2, <1>9

\* The pairing is of events of s and t that have one type, each with at most one other.
Pairs(pairing, s, n, t, m) ==
    /\ \A p \in pairing : \E i \in 1 .. n, j \in 1 .. m :
          p = <<s[i].id, t[j].id>> /\ s[i].type = t[j].type
    /\ \A p, q \in pairing : p[1] = q[1] <=> p[2] = q[2]

\* Linking never gives two events of a stream one partner.
THEOREM LinksPair ==
    ASSUME NEW n, NEW s, Stream(s, n), NEW m, NEW t, Stream(t, m)
    PROVE  Pairs(LinkStreams(s, t), s, n, t, m)
<1> DEFINE L == LinkStreams(s, t)
<1>1. PICK o, r : /\ PutsInOrder(o, n, s) /\ PutsInOrder(r, m, t)
                  /\ L = LinksIn(s, n, o, t, m, r)
  BY LinksAre
<1> HIDE DEF L
<1>2. /\ n \in Nat /\ m \in Nat /\ DOMAIN o = 1 .. n /\ DOMAIN r = 1 .. m
      /\ \A i \in 1 .. n : o[i] \in 1 .. n
      /\ \A j \in 1 .. m : r[j] \in 1 .. m
      /\ \A i, k \in 1 .. n : o[i] = o[k] => i = k
      /\ \A j, k \in 1 .. m : r[j] = r[k] => j = k
  BY <1>1 DEF PutsInOrder, Stream
<1> DEFINE O == [k \in 1 .. n |-> s[o[k]]]
           R == [k \in 1 .. m |-> t[r[k]]]
<1>3. /\ DOMAIN O = 1 .. n /\ DOMAIN R = 1 .. m
      /\ \A k \in 1 .. n : O[k] = s[o[k]]
      /\ \A k \in 1 .. m : R[k] = t[r[k]]
  OBVIOUS
<1>4. ASSUME NEW p \in L
      PROVE  \E i \in 1 .. n, j \in 1 .. m :
                /\ p = <<s[o[i]].id, t[r[j]].id>> /\ Signature(O, i) = Signature(R, j)
  <2>1. PICK q \in (1 .. n) \X (1 .. m) : /\ p = <<s[o[q[1]]].id, t[r[q[2]]].id>>
                                          /\ Linked(s, o, t, r, q[1], q[2])
    BY <1>1 DEF LinksIn
  <2>2. q[1] \in 1 .. n /\ q[2] \in 1 .. m /\ Signature(O, q[1]) = Signature(R, q[2])
    BY <1>2, <2>1 DEF Linked
  <2> QED
    BY <2>1, <2>2
<1> HIDE DEF O, R
<1>5. ASSUME NEW i \in 1 .. n, NEW j \in 1 .. m, Signature(O, i) = Signature(R, j)
      PROVE  s[o[i]].type = t[r[j]].type
  <2>1. O[i].type = R[j].type
    <3>1. Signature(O, i).type = O[i].type
      BY <1>2, <1>3, SignatureIs
    <3>2. Signature(R, j).type = R[j].type
      BY <1>2, <1>3, SignatureIs
    <3> QED
      BY <1>5, <3>1, <3>2
  <2> QED
    BY <1>3, <2>1
<1>6. ASSUME NEW p \in L
      PROVE  \E i \in 1 .. n, j \in 1 .. m : p = <<s[i].id, t[j].id>> /\ s[i].type = t[j].type
  <2>1. PICK i \in 1 .. n, j \in 1 .. m :
           p = <<s[o[i]].id, t[r[j]].id>> /\ Signature(O, i) = Signature(R, j)
    BY <1>4, <1>6
  <2>2. s[o[i]].type = t[r[j]].type /\ o[i] \in 1 .. n /\ r[j] \in 1 .. m
    BY <1>2, <1>5, <2>1
  <2> QED
    BY <2>1, <2>2
<1>7. ASSUME NEW p \in L, NEW q \in L
      PROVE  p[1] = q[1] <=> p[2] = q[2]
  <2>1. PICK i \in 1 .. n, j \in 1 .. m :
           p = <<s[o[i]].id, t[r[j]].id>> /\ Signature(O, i) = Signature(R, j)
    BY <1>4, <1>7
  <2>2. PICK k \in 1 .. n, l \in 1 .. m :
           q = <<s[o[k]].id, t[r[l]].id>> /\ Signature(O, k) = Signature(R, l)
    BY <1>4, <1>7
  <2>3. p[1] = q[1] <=> i = k
    <3>1. s[o[i]].id = s[o[k]].id <=> i = k
      <4>1. PICK x \in 1 .. n, y \in 1 .. n : x = o[i] /\ y = o[k]
        BY <1>2
      <4>2. s[x].id = s[y].id <=> x = y
        BY DEF Stream
      <4> QED
        BY <1>2, <4>1, <4>2
    <3>2. p[1] = s[o[i]].id /\ q[1] = s[o[k]].id
      BY <2>1, <2>2
    <3> QED
      BY <3>1, <3>2
  <2>4. p[2] = q[2] <=> j = l
    <3>1. t[r[j]].id = t[r[l]].id <=> j = l
      <4>1. PICK x \in 1 .. m, y \in 1 .. m : x = r[j] /\ y = r[l]
        BY <1>2
      <4>2. t[x].id = t[y].id <=> x = y
        BY DEF Stream
      <4> QED
        BY <1>2, <4>1, <4>2
    <3> QED
      BY <2>1, <2>2, <3>1
  <2>5. i = k <=> j = l
    <3>1. i = k => Signature(R, j) = Signature(R, l)
      BY <2>1, <2>2
    <3>2. j = l => Signature(O, i) = Signature(O, k)
      BY <2>1, <2>2
    <3>3. Signature(R, j) = Signature(R, l) => j = l
      BY <1>2, <1>3, SignatureTells
    <3>4. Signature(O, i) = Signature(O, k) => i = k
      BY <1>2, <1>3, SignatureTells
    <3> QED
      BY <3>1, <3>2, <3>3, <3>4
  <2> QED
    BY <2>3, <2>4, <2>5
<1> QED
  BY <1>6, <1>7 DEF Pairs, L

-----------------------------------------------------------------------------
(* Comparing *)

Partners(e, t, pairing) == {f \in Range(t) : <<e.id, f.id>> \in pairing}

Outcome(e, t, pairing) ==
    IF Partners(e, t, pairing) = {} THEN Result(e.id, None, "missing")
    ELSE LET f == CHOOSE f \in Partners(e, t, pairing) : TRUE
         IN Result(e.id, f.id, Category(e, f))

\* w lists the comparable events of s.
Walks(w, a, s, n) ==
    /\ a \in Nat /\ w \in [1 .. a -> 1 .. n]
    /\ \A j, k \in 1 .. a : w[j] = w[k] => j = k
    /\ \A i \in 1 .. n : Comparable(s[i]) <=> \E k \in 1 .. a : w[k] = i

\* f lists the comparable events of t that have no partner among those of s.
LeftOver(f, b, s, n, t, m, pairing) ==
    /\ b \in Nat /\ f \in [1 .. b -> 1 .. m]
    /\ \A j, k \in 1 .. b : f[j] = f[k] => j = k
    /\ \A j \in 1 .. m :
          (Comparable(t[j]) /\ \A i \in 1 .. n :
               Comparable(s[i]) => <<s[i].id, t[j].id>> \notin pairing)
          <=> \E k \in 1 .. b : f[k] = j

\* w lists I, ascending.
Chosen(w, a, I, n) ==
    /\ a \in Nat /\ w \in [1 .. a -> 1 .. n]
    /\ \A j, k \in 1 .. a : w[j] = w[k] => j = k
    /\ \A i \in 1 .. n : i \in I <=> \E k \in 1 .. a : w[k] = i

Reads(s, w, a) == [k \in 1 .. a |-> s[w[k]]]

LEMMA PickedIs ==
    ASSUME NEW n \in Nat, NEW s, NEW I \in SUBSET (1 .. n)
    PROVE  \E a, w : Chosen(w, a, I, n) /\ Pick(s, I) = Reads(s, w, a)
<1>1. IsFiniteSet(1 .. n) /\ \A i \in I : i \in 1 .. n
  BY FS_Interval
<1>2. IsFiniteSet(I)
  BY <1>1, FS_Subset
<1>3. I \in SUBSET Int
  BY <1>1
<1>4. PICK w : Ascending(w, I) /\ Pick(s, I) = [k \in 1 .. Cardinality(I) |-> s[w[k]]]
  BY <1>2, <1>3, PickLists
<1> DEFINE a == Cardinality(I)
<1>5. a \in Nat
  BY <1>2, FS_CardinalityType
<1>6. /\ w \in [1 .. a -> I]
      /\ \A j, k \in 1 .. a : w[j] = w[k] => j = k
      /\ \A x \in I : \E k \in 1 .. a : w[k] = x
  BY <1>4 DEF Ascending, Enumerates
<1>7. Pick(s, I) = Reads(s, w, a)
  BY <1>4 DEF Reads
<1> HIDE DEF a
<1>8. w \in [1 .. a -> 1 .. n]
  BY <1>1, <1>6
<1>9. Chosen(w, a, I, n)
  BY <1>5, <1>6, <1>8 DEF Chosen
<1> QED
  BY <1>7, <1>9

LEMMA JoinIs ==
    ASSUME NEW a \in Nat, NEW A, A = [k \in 1 .. a |-> A[k]],
           NEW b \in Nat, NEW B, B = [k \in 1 .. b |-> B[k]]
    PROVE  /\ DOMAIN (A \o B) = 1 .. a + b
           /\ \A k \in 1 .. a : (A \o B)[k] = A[k]
           /\ \A k \in 1 .. b : (A \o B)[a + k] = B[k]
<1> DEFINE S == Range(A) \cup Range(B)
<1>1. A \in Seq(S) /\ Len(A) = a
  <2>1. A \in [1 .. a -> S]
    BY DEF Range
  <2> HIDE DEF S
  <2> QED
    BY <2>1
<1>2. B \in Seq(S) /\ Len(B) = b
  <2>1. B \in [1 .. b -> S]
    BY DEF Range
  <2> HIDE DEF S
  <2> QED
    BY <2>1
<1> HIDE DEF S
<1> QED
  BY <1>1, <1>2

LEMMA ResultsAre ==
    ASSUME NEW n \in Nat, NEW s, DOMAIN s = 1 .. n,
           NEW m \in Nat, NEW t, DOMAIN t = 1 .. m, NEW pairing
    PROVE  \E a, w, b, f :
              LET report == CompareRun(s, t, pairing)
              IN /\ Walks(w, a, s, n) /\ LeftOver(f, b, s, n, t, m, pairing)
                 /\ DOMAIN report = 1 .. a + b
                 /\ \A k \in 1 .. a : report[k] = Outcome(s[w[k]], t, pairing)
                 /\ \A k \in 1 .. b : report[a + k] = Result(None, t[f[k]].id, "new")
<1> DEFINE I == {i \in DOMAIN s : Comparable(s[i])}
           walked == Pick(s, I)
           J == {j \in DOMAIN t : /\ Comparable(t[j])
                                  /\ \A e \in Range(walked) : <<e.id, t[j].id>> \notin pairing}
           left == Pick(t, J)
<1>1. I \in SUBSET (1 .. n)
  OBVIOUS
<1>2. J \in SUBSET (1 .. m)
  OBVIOUS
<1>3. /\ \A i \in 1 .. n : i \in I <=> Comparable(s[i])
      /\ \A j \in 1 .. m : j \in J <=> /\ Comparable(t[j])
                                      /\ \A e \in Range(walked) : <<e.id, t[j].id>> \notin pairing
  OBVIOUS
<1>4. CompareRun(s, t, pairing) =
         [k \in DOMAIN walked |-> Outcome(walked[k], t, pairing)]
         \o [k \in DOMAIN left |-> Result(None, left[k].id, "new")]
  BY DEF CompareRun, Outcome, Partners
<1> HIDE DEF I, J
<1>5. PICK a, w : Chosen(w, a, I, n) /\ walked = Reads(s, w, a)
  BY <1>1, PickedIs
<1>6. PICK b, f : Chosen(f, b, J, m) /\ left = Reads(t, f, b)
  BY <1>2, PickedIs
<1>7. /\ a \in Nat /\ w \in [1 .. a -> 1 .. n]
      /\ \A j, k \in 1 .. a : w[j] = w[k] => j = k
      /\ \A i \in 1 .. n : i \in I <=> \E k \in 1 .. a : w[k] = i
      /\ walked = [k \in 1 .. a |-> s[w[k]]]
  BY <1>5 DEF Chosen, Reads
<1>8. /\ b \in Nat /\ f \in [1 .. b -> 1 .. m]
      /\ \A j, k \in 1 .. b : f[j] = f[k] => j = k
      /\ \A j \in 1 .. m : j \in J <=> \E k \in 1 .. b : f[k] = j
      /\ left = [k \in 1 .. b |-> t[f[k]]]
  BY <1>6 DEF Chosen, Reads
<1> HIDE DEF walked, left
<1>9. Walks(w, a, s, n)
  BY <1>7, <1>3 DEF Walks
<1>10. LeftOver(f, b, s, n, t, m, pairing)
  <2>1. ASSUME NEW j \in 1 .. m
        PROVE  j \in J <=> (Comparable(t[j]) /\ \A i \in 1 .. n :
                               Comparable(s[i]) => <<s[i].id, t[j].id>> \notin pairing)
    <3>1. ASSUME NEW i \in 1 .. n, Comparable(s[i])
          PROVE  s[i] \in Range(walked)
      <4>1. PICK k \in 1 .. a : w[k] = i
        BY <1>7, <1>3, <3>1
      <4>2. k \in DOMAIN walked /\ walked[k] = s[i]
        BY <1>7, <4>1
      <4> QED
        BY <4>2 DEF Range
    <3>2. \A e \in Range(walked) : \E i \in 1 .. n : Comparable(s[i]) /\ e = s[i]
      BY <1>7, <1>3 DEF Range
    <3> QED
      BY <1>3, <3>1, <3>2
  <2> QED
    BY <1>8, <2>1 DEF LeftOver
<1> DEFINE A == [k \in DOMAIN walked |-> Outcome(walked[k], t, pairing)]
           B == [k \in DOMAIN left |-> Result(None, left[k].id, "new")]
<1>11. CompareRun(s, t, pairing) = A \o B
  BY <1>4
<1>12. /\ A = [k \in 1 .. a |-> A[k]]
       /\ \A k \in 1 .. a : A[k] = Outcome(s[w[k]], t, pairing)
  BY <1>7
<1>13. /\ B = [k \in 1 .. b |-> B[k]]
       /\ \A k \in 1 .. b : B[k] = Result(None, t[f[k]].id, "new")
  BY <1>8
<1> HIDE DEF A, B
<1>14. /\ DOMAIN (A \o B) = 1 .. a + b
       /\ \A k \in 1 .. a : (A \o B)[k] = A[k]
       /\ \A k \in 1 .. b : (A \o B)[a + k] = B[k]
  BY <1>7, <1>8, <1>12, <1>13, JoinIs
<1> DEFINE report == CompareRun(s, t, pairing)
<1>15. /\ DOMAIN report = 1 .. a + b
       /\ \A k \in 1 .. a : report[k] = Outcome(s[w[k]], t, pairing)
       /\ \A k \in 1 .. b : report[a + k] = Result(None, t[f[k]].id, "new")
  BY <1>11, <1>12, <1>13, <1>14
<1> QED
  BY <1>9, <1>10, <1>15

LEMMA OutcomeIs ==
    ASSUME NEW m, NEW t, Stream(t, m), NEW e, NEW pairing
    PROVE  LET o == Outcome(e, t, pairing)
           IN /\ o.original = e.id
              /\ \/ /\ o.replayed = None /\ o.category = "missing"
                    /\ \A j \in 1 .. m : <<e.id, t[j].id>> \notin pairing
                 \/ \E j \in 1 .. m : /\ <<e.id, t[j].id>> \in pairing
                                      /\ o.replayed = t[j].id /\ o.category = Category(e, t[j])
<1> DEFINE P == Partners(e, t, pairing)
<1>1. \A f : f \in P <=> \E j \in 1 .. m : f = t[j] /\ <<e.id, t[j].id>> \in pairing
  BY DEF Partners, Range, Stream
<1> HIDE DEF P
<1>2. CASE P = {}
  BY <1>1, <1>2 DEF Outcome, Result, P
<1>3. CASE P # {}
  <2> DEFINE f == CHOOSE f \in P : TRUE
  <2>1. f \in P
    BY <1>3
  <2>2. Outcome(e, t, pairing) = Result(e.id, f.id, Category(e, f))
    BY <1>3 DEF Outcome, P
  <2> HIDE DEF f
  <2>3. PICK j \in 1 .. m : f = t[j] /\ <<e.id, t[j].id>> \in pairing
    BY <1>1, <2>1
  <2> QED
    BY <2>2, <2>3 DEF Result
<1> QED
  BY <1>2, <1>3

\* What a result says of the pair it is about.
Justified(r, pairing) ==
    /\ r.category \in {"match", "different", "missing", "new", "error"}
    /\ CASE r.category = "missing" -> \A p \in pairing : p[1] # r.original
         [] r.category = "new"     -> \A p \in pairing : p[2] # r.replayed
         [] OTHER                  -> <<r.original, r.replayed>> \in pairing

\* One result for each comparable event of either stream, in accord with the links.
THEOREM ComparisonAccounts ==
    ASSUME NEW n, NEW s, Stream(s, n), \A i \in 1 .. n : s[i].id # None,
           NEW m, NEW t, Stream(t, m), \A j \in 1 .. m : t[j].id # None,
           NEW pairing, Pairs(pairing, s, n, t, m),
           NEW report, report = CompareRun(s, t, pairing)
    PROVE  /\ \A i \in 1 .. n : Comparable(s[i]) =>
                 \E k \in DOMAIN report :
                    \A l \in DOMAIN report : report[l].original = s[i].id <=> l = k
           /\ \A j \in 1 .. m : Comparable(t[j]) =>
                 \E k \in DOMAIN report :
                    \A l \in DOMAIN report : report[l].replayed = t[j].id <=> l = k
           /\ \A k \in DOMAIN report : Justified(report[k], pairing)
<1>1. /\ n \in Nat /\ DOMAIN s = 1 .. n /\ m \in Nat /\ DOMAIN t = 1 .. m
      /\ \A i, k \in 1 .. n : s[i].id = s[k].id => i = k
      /\ \A i, k \in 1 .. m : t[i].id = t[k].id => i = k
  BY DEF Stream
<1>2. PICK a, w, b, f :
         /\ Walks(w, a, s, n) /\ LeftOver(f, b, s, n, t, m, pairing)
         /\ DOMAIN report = 1 .. a + b
         /\ \A k \in 1 .. a : report[k] = Outcome(s[w[k]], t, pairing)
         /\ \A k \in 1 .. b : report[a + k] = Result(None, t[f[k]].id, "new")
  BY <1>1, ResultsAre
<1>3. /\ a \in Nat /\ b \in Nat
      /\ \A k \in 1 .. a : w[k] \in 1 .. n /\ Comparable(s[w[k]])
      /\ \A j, k \in 1 .. a : w[j] = w[k] => j = k
      /\ \A i \in 1 .. n : Comparable(s[i]) => \E k \in 1 .. a : w[k] = i
      /\ \A j, k \in 1 .. b : f[j] = f[k] => j = k
      /\ \A k \in 1 .. b : f[k] \in 1 .. m
  BY <1>2 DEF Walks, LeftOver
<1>4. \A k \in 1 .. b : /\ Comparable(t[f[k]])
                        /\ \A i \in 1 .. n :
                              Comparable(s[i]) => <<s[i].id, t[f[k]].id>> \notin pairing
  BY <1>2, <1>3 DEF LeftOver
<1>5. \A j \in 1 .. m :
         Comparable(t[j]) =>
            \/ \E k \in 1 .. b : f[k] = j
            \/ \E i \in 1 .. n : Comparable(s[i]) /\ <<s[i].id, t[j].id>> \in pairing
  BY <1>2 DEF LeftOver
<1>6. ASSUME NEW k \in 1 .. a
      PROVE  /\ k \in DOMAIN report
             /\ report[k].original = s[w[k]].id
             /\ \/ /\ report[k].replayed = None /\ report[k].category = "missing"
                   /\ \A j \in 1 .. m : <<s[w[k]].id, t[j].id>> \notin pairing
                \/ \E j \in 1 .. m : /\ <<s[w[k]].id, t[j].id>> \in pairing
                                     /\ report[k].replayed = t[j].id
                                     /\ report[k].category = Category(s[w[k]], t[j])
  <2>1. report[k] = Outcome(s[w[k]], t, pairing)
    BY <1>2
  <2>2. k \in DOMAIN report
    BY <1>2, <1>3
  <2> DEFINE e == s[w[k]]
  <2> HIDE DEF e
  <2>3. /\ Outcome(e, t, pairing).original = e.id
        /\ \/ /\ Outcome(e, t, pairing).replayed = None
              /\ Outcome(e, t, pairing).category = "missing"
              /\ \A j \in 1 .. m : <<e.id, t[j].id>> \notin pairing
           \/ \E j \in 1 .. m : /\ <<e.id, t[j].id>> \in pairing
                                /\ Outcome(e, t, pairing).replayed = t[j].id
                                /\ Outcome(e, t, pairing).category = Category(e, t[j])
    BY OutcomeIs
  <2> QED
    BY <2>1, <2>2, <2>3 DEF e
<1>7. ASSUME NEW k \in 1 .. b
      PROVE  /\ a + k \in DOMAIN report
             /\ report[a + k].original = None
             /\ report[a + k].replayed = t[f[k]].id
             /\ report[a + k].category = "new"
  <2>1. a + k \in 1 .. a + b
    BY <1>3
  <2>2. report[a + k] = Result(None, t[f[k]].id, "new")
    BY <1>2
  <2>3. Result(None, t[f[k]].id, "new") =
           [original |-> None, replayed |-> t[f[k]].id, category |-> "new"]
    BY DEF Result
  <2> QED
    BY <1>2, <2>1, <2>2, <2>3
<1>8. \A l \in DOMAIN report : l \in 1 .. a \/ \E k \in 1 .. b : l = a + k
  <2> SUFFICES ASSUME NEW l \in DOMAIN report, l \notin 1 .. a
               PROVE  \E k \in 1 .. b : l = a + k
    OBVIOUS
  <2>1. l - a \in 1 .. b /\ l = a + (l - a)
    BY <1>2, <1>3
  <2> QED
    BY <2>1
<1>9. ASSUME NEW i \in 1 .. n, Comparable(s[i])
      PROVE  \E k \in DOMAIN report :
                \A l \in DOMAIN report : report[l].original = s[i].id <=> l = k
  <2>1. PICK k \in 1 .. a : w[k] = i
    BY <1>3, <1>9
  <2>2. ASSUME NEW l \in 1 .. a
        PROVE  report[l].original = s[i].id <=> l = k
    <3>1. report[l].original = s[w[l]].id
      BY <1>6
    <3>2. s[w[l]].id = s[i].id <=> w[l] = i
      BY <1>1, <1>3
    <3>3. w[l] = i <=> l = k
      BY <1>3, <2>1
    <3> QED
      BY <3>1, <3>2, <3>3
  <2>3. ASSUME NEW l \in 1 .. b
        PROVE  ~ (report[a + l].original = s[i].id) /\ a + l # k
    <3>1. report[a + l].original = None /\ s[i].id # None
      BY <1>7
    <3>2. a + l # k
      BY <1>3
    <3> QED
      BY <3>1, <3>2
  <2> QED
    BY <1>6, <1>8, <2>2, <2>3
<1>10. ASSUME NEW j \in 1 .. m, Comparable(t[j])
       PROVE  \E k \in DOMAIN report :
                 \A l \in DOMAIN report : report[l].replayed = t[j].id <=> l = k
  <2>1. CASE \E i \in 1 .. n : Comparable(s[i]) /\ <<s[i].id, t[j].id>> \in pairing
    <3>1. PICK i \in 1 .. n : Comparable(s[i]) /\ <<s[i].id, t[j].id>> \in pairing
      BY <2>1
    <3>2. PICK k \in 1 .. a : w[k] = i
      BY <1>3, <3>1
    <3>3. ASSUME NEW l \in 1 .. a
          PROVE  report[l].replayed = t[j].id <=> <<s[w[l]].id, t[j].id>> \in pairing
      <4>1. CASE /\ report[l].replayed = None
                 /\ \A g \in 1 .. m : <<s[w[l]].id, t[g].id>> \notin pairing
        BY <4>1
      <4>2. CASE \E g \in 1 .. m : /\ <<s[w[l]].id, t[g].id>> \in pairing
                                   /\ report[l].replayed = t[g].id
        <5>1. PICK g \in 1 .. m : /\ <<s[w[l]].id, t[g].id>> \in pairing
                                  /\ report[l].replayed = t[g].id
          BY <4>2
        <5>2. <<s[w[l]].id, t[j].id>> \in pairing => t[j].id = t[g].id
          BY <5>1 DEF Pairs
        <5> QED
          BY <5>1, <5>2
      <4> QED
        BY <1>6, <4>1, <4>2
    <3>4. ASSUME NEW l \in 1 .. a
          PROVE  report[l].replayed = t[j].id <=> l = k
      <4>1. <<s[w[l]].id, t[j].id>> \in pairing => s[w[l]].id = s[i].id
        BY <3>1 DEF Pairs
      <4>2. s[w[l]].id = s[i].id => l = k
        BY <1>1, <1>3, <3>2
      <4> QED
        BY <3>1, <3>2, <3>3, <4>1, <4>2
    <3>5. ASSUME NEW l \in 1 .. b
          PROVE  ~ (report[a + l].replayed = t[j].id) /\ a + l # k
      <4>1. f[l] # j
        BY <1>4, <3>1
      <4>2. f[l] \in 1 .. m /\ report[a + l].replayed = t[f[l]].id /\ a + l # k
        BY <1>3, <1>7
      <4> QED
        BY <1>1, <4>1, <4>2
    <3> QED
      BY <1>6, <1>8, <3>4, <3>5
  <2>2. CASE \A i \in 1 .. n : Comparable(s[i]) => <<s[i].id, t[j].id>> \notin pairing
    <3>1. PICK k \in 1 .. b : f[k] = j
      BY <1>5, <1>10, <2>2
    <3>2. ASSUME NEW l \in 1 .. a
          PROVE  ~ (report[l].replayed = t[j].id) /\ l # a + k
      <4>1. <<s[w[l]].id, t[j].id>> \notin pairing
        BY <1>3, <2>2
      <4>2. \A g \in 1 .. m : t[g].id = t[j].id => g = j
        BY <1>1
      <4>3. report[l].replayed # t[j].id
        BY <1>6, <4>1, <4>2
      <4> QED
        BY <1>3, <4>3
    <3>3. ASSUME NEW l \in 1 .. b
          PROVE  report[a + l].replayed = t[j].id <=> a + l = a + k
      <4>1. report[a + l].replayed = t[f[l]].id
        BY <1>7
      <4>2. t[f[l]].id = t[j].id <=> f[l] = j
        BY <1>1, <1>3
      <4>3. f[l] = j <=> l = k
        BY <1>3, <3>1
      <4>4. a + l = a + k <=> l = k
        BY <1>3
      <4> QED
        BY <4>1, <4>2, <4>3, <4>4
    <3> QED
      BY <1>7, <1>8, <3>2, <3>3
  <2> QED
    BY <2>1, <2>2
<1>11. ASSUME NEW k \in DOMAIN report
       PROVE  Justified(report[k], pairing)
  <2>1. \A e, g : Category(e, g) \in {"match", "different", "error"}
    BY DEF Category
  <2>2. CASE k \in 1 .. a
    <3>1. CASE /\ report[k].replayed = None /\ report[k].category = "missing"
               /\ \A j \in 1 .. m : <<s[w[k]].id, t[j].id>> \notin pairing
      <4>1. ASSUME NEW p \in pairing, p[1] = report[k].original
            PROVE  FALSE
        <5>1. PICK i \in 1 .. n, j \in 1 .. m : p = <<s[i].id, t[j].id>>
          BY DEF Pairs
        <5>2. p = <<s[w[k]].id, t[j].id>>
          BY <1>6, <2>2, <4>1, <5>1
        <5> QED
          BY <3>1, <5>2
      <4> QED
        BY <3>1, <4>1 DEF Justified
    <3>2. CASE \E j \in 1 .. m : /\ <<s[w[k]].id, t[j].id>> \in pairing
                                 /\ report[k].replayed = t[j].id
                                 /\ report[k].category = Category(s[w[k]], t[j])
      <4>1. /\ <<report[k].original, report[k].replayed>> \in pairing
            /\ report[k].category \in {"match", "different", "error"}
        BY <1>6, <2>1, <2>2, <3>2
      <4> QED
        BY <4>1 DEF Justified
    <3> QED
      BY <1>6, <2>2, <3>1, <3>2
  <2>3. CASE \E l \in 1 .. b : k = a + l
    <3>1. PICK l \in 1 .. b : k = a + l
      BY <2>3
    <3>2. ASSUME NEW p \in pairing, p[2] = report[k].replayed
          PROVE  FALSE
      <4>1. PICK i \in 1 .. n, j \in 1 .. m : p = <<s[i].id, t[j].id>> /\ s[i].type = t[j].type
        BY DEF Pairs
      <4>2. j = f[l]
        <5>1. p[2] = t[f[l]].id /\ p[2] = t[j].id
          BY <1>7, <3>1, <3>2, <4>1
        <5>2. f[l] \in 1 .. m
          BY <1>3
        <5> QED
          BY <1>1, <5>1, <5>2
      <4>3. Comparable(s[i])
        BY <1>4, <4>1, <4>2 DEF Comparable
      <4> QED
        BY <1>4, <4>1, <4>2, <4>3
    <3>3. report[k].category = "new"
      BY <1>7, <3>1
    <3> QED
      BY <3>2, <3>3 DEF Justified
  <2> QED
    BY <1>8, <2>2, <2>3
<1> QED
  BY <1>9, <1>10, <1>11

-----------------------------------------------------------------------------
(* The inductive invariant *)

\* The source is a list of events; finished with all its rows it is numbered by
\* position.
SourceInv ==
    \E n \in Nat :
        /\ Stream(source, n)
        /\ \A i \in 1 .. n : source[i].id # None /\ source[i].seq \in Nat
        /\ setup.history = "finished" => \A i \in 1 .. n : source[i].seq = i - 1

RecordedInv == \A q \in Requests : Recorded(q) \in 0 .. MaxSql

\* What the types of the variables are.
Typed ==
    /\ setup \in Setups /\ now \in Nat /\ sequence \in Nat /\ faulted \in BOOLEAN
    /\ run \in Stages /\ status \in {"absent", "recording", "completed", "failed"}
    /\ sent \in [Requests -> {"idle", "open", "answered", "failed"}]
    /\ app \in [Requests -> {"idle", "running", "posting", "admitted", "replied", "raised"}]
    /\ ran \in [Requests -> 0 .. MaxSql] /\ DOMAIN outbox = Requests
    /\ replayed \in Seq(Range(replayed)) /\ queue \in Seq(Range(queue))
    /\ IsFiniteSet(rows) /\ \A q \in Requests : IsFiniteSet(outbox[q])

\* The statements that ran, of all requests.
Statements == {p \in Requests \X (1 .. MaxSql) : p[2] <= ran[p[1]]}

RunId(q, type, n) == <<"run", q, type, n>>

\* The event e was made by the runner or the target, for request q.
MadeFor(e, q) ==
    \/ /\ e.type = "http.request" /\ e.id = RunId(q, "http.request", 0)
       /\ e.parent = NoParent /\ e.seq < sequence
    \/ /\ e.type = "http.response" /\ e.id = RunId(q, "http.response", 0)
       /\ e.parent = RunId(q, "http.request", 0) /\ e.seq < sequence
       /\ Answered(q)
    \/ /\ e.seq < setup.counter + 2 * Cardinality(Statements)
       /\ \E n \in 1 .. ran[q] :
             \/ /\ e.type = "postgres.query" /\ e.id = RunId(q, "postgres.query", n)
                /\ e.parent = NoParent
             \/ /\ e.type = "postgres.result" /\ e.id = RunId(q, "postgres.result", n)
                /\ e.parent = RunId(q, "postgres.query", n)

Made(e) ==
    /\ Row(e) /\ e.seq \in Nat
    /\ \/ setup.target = "mock" /\ \E k \in DOMAIN Canonical : e = CanonicalEvent(k)
       \/ /\ setup.target = "http"
          /\ \E q \in Requests : e.corr = <<"run", q>> /\ sent[q] # "idle" /\ MadeFor(e, q)

\* The events as they were made: those on their way, and the rows unless finished.
Pool ==
    UNION ({outbox[q] : q \in Requests} \cup {Range(replayed), Range(queue)}
           \cup (IF status = "completed" THEN {} ELSE {rows}))

\* No two have one id, no two of one producer one sequence.
Unmixed(S) ==
    \A e, f \in S :
        \/ e = f
        \/ e.id # f.id /\ (e.seq = f.seq => ~ (IsHttp(e) <=> IsHttp(f)))

PoolInv == (\A e \in Pool : Made(e)) /\ Unmixed(Pool)

ParentsIn(S) == \A e \in S : e.parent # NoParent => \E f \in S : f.id = e.parent

\* Every set of events that a target's run hands on has the parents of its events.
Closed ==
    /\ ParentsIn(Range(replayed)) /\ ParentsIn(Range(queue)) /\ ParentsIn(rows)
    /\ \A q \in Requests : ParentsIn(outbox[q])

Complete ==
    /\ setup.target = "http" => Closed
    /\ \A q \in Requests : sent[q] # "idle" =>
          \E e \in Range(replayed) : e.id = RunId(q, "http.request", 0)
    /\ \A e \in rows : e.seq \in Nat

\* The runner's stage and the row's status go together.
Staged ==
    /\ run = "called" =>
          /\ status = "absent" /\ rows = {} /\ replayed = <<>>
          /\ \A q \in Requests : sent[q] = "idle"
    /\ \A q \in Requests : sent[q] # "idle" => q \in Resent
    /\ run \in {"replaying", "replayed", "finishing", "completing"} => status = "recording"
    /\ run \in {"linking", "comparing", "done"} => status = "completed"
    /\ run = "refused" => status = "failed"
    /\ run = "aborted" => ~ setup.history = "finished" \/ faulted
    /\ run # "done" => results = <<>>
    /\ \A q \in Requests : app[q] # "idle" => sent[q] # "idle"

\* The runner's own events are in the order of their sequences.
InSequence ==
    /\ setup.target = "http" =>
          /\ sequence = Len(replayed)
          /\ \A k \in DOMAIN replayed : replayed[k].seq = k - 1
    /\ setup.target = "mock" =>
          /\ \A q \in Requests : sent[q] = "idle" /\ app[q] = "idle" /\ outbox[q] = {}
          /\ queue = <<>>
          /\ setup.history = "finished" => IsInjective(replayed)
          /\ run = "replaying" => replayed = <<>> /\ rows = {}

\* What finish_recording read is numbered and complete, and is linked and compared.
FinalInv ==
    run \in {"completing", "linking", "comparing", "done"} =>
        /\ \E m \in Nat :
              /\ Stream(final, m)
              /\ \A k \in 1 .. m :
                    /\ final[k].seq = k - 1 /\ final[k].id # None
                    /\ setup.target = "http" => final[k].id[3] = final[k].type
        /\ setup.target = "http" => ParentsIn(Range(final))
        /\ run \in {"comparing", "done"} => links = LinkStreams(source, final)
        /\ run = "done" => results = CompareRun(source, final, links)

HasResult(S, q, n) == \E e \in S : e.id = RunId(q, "postgres.result", n)

\* The n-th result of q is stored, in the queue, or in a flush under way.
OnItsWay(q, n) ==
    \/ HasResult(rows, q, n)
    \/ app[q] = "running" /\ HasResult(Range(queue), q, n)
    \/ \E p \in Requests : app[p] \in {"posting", "admitted"} /\ HasResult(outbox[p], q, n)

\* Without faults the runner waits for every request and the target for every flush,
\* so that no statement's result is behind when finish_recording reads the rows.
Whereabouts ==
    setup.target = "http" /\ ~ faulted =>
        \A q \in Requests :
            /\ app[q] # "raised" /\ sent[q] # "failed"
            /\ sent[q] = "answered" => app[q] = "replied"
            /\ sent[q] = "open" => run = "replaying"
            /\ app[q] \in {"running", "posting", "admitted"} => run = "replaying"
            /\ \A n \in 1 .. ran[q] :
                  IF run \in {"completing", "linking", "comparing", "done"}
                  THEN HasResult(Range(final), q, n)
                  ELSE OnItsWay(q, n)

IInv ==
    /\ Typed /\ SourceInv /\ RecordedInv
    /\ PoolInv /\ Complete /\ Staged /\ InSequence /\ FinalInv /\ Whereabouts

-----------------------------------------------------------------------------
(* What one step keeps *)

LEMMA StatementsFinite ==
    ASSUME NEW r
    PROVE  LET S == {p \in Requests \X (1 .. MaxSql) : p[2] <= r[p[1]]}
           IN IsFiniteSet(S) /\ Cardinality(S) \in Nat
<1>1. IsFiniteSet(Requests) /\ IsFiniteSet(1 .. MaxSql)
  BY FS_Interval, ReplayAssumption DEF Requests
<1>2. IsFiniteSet(Requests \X (1 .. MaxSql))
  BY <1>1, FS_Product
<1> QED
  BY <1>2, FS_Subset, FS_CardinalityType

LEMMA StatementsGrow ==
    ASSUME Typed, NEW q \in Requests, ran[q] + 1 \in 1 .. MaxSql,
           ran' = [ran EXCEPT ![q] = @ + 1]
    PROVE  Cardinality(Statements') = Cardinality(Statements) + 1
<1>1. IsFiniteSet(Statements)
  BY StatementsFinite DEF Statements
<1>2. \A r \in Requests : ran[r] \in Nat /\ ran'[r] = IF r = q THEN ran[r] + 1 ELSE ran[r]
  BY ReplayAssumption DEF Typed
<1>3. Statements' = Statements \cup {<<q, ran[q] + 1>>}
  <2>1. ASSUME NEW p \in Requests \X (1 .. MaxSql)
        PROVE  p[2] <= ran'[p[1]] <=> p[2] <= ran[p[1]] \/ p = <<q, ran[q] + 1>>
    <3>1. p = <<p[1], p[2]>> /\ p[1] \in Requests /\ p[2] \in Nat
      BY ReplayAssumption
    <3>2. CASE p[1] = q
      BY <1>2, <3>1, <3>2
    <3>3. CASE p[1] # q
      BY <1>2, <3>1, <3>3
    <3> QED
      BY <3>2, <3>3
  <2>2. <<q, ran[q] + 1>> \in Requests \X (1 .. MaxSql)
    OBVIOUS
  <2> QED
    BY <2>1, <2>2 DEF Statements
<1>4. <<q, ran[q] + 1>> \notin Statements
  BY <1>2 DEF Statements
<1> QED
  BY <1>1, <1>3, <1>4, FS_AddElement

\* What a step leaves alone, grows, or decides for good.
Onward ==
    /\ setup' = setup /\ source' = source /\ sequence <= sequence'
    /\ Cardinality(Statements) <= Cardinality(Statements')
    /\ \A q \in Requests :
          /\ ran[q] <= ran'[q]
          /\ sent[q] # "idle" => sent'[q] # "idle"
          /\ Answered(q) => Answered(q)'

LEMMA MadeStays ==
    ASSUME Typed, Typed', Onward, NEW e, Made(e)
    PROVE  Made(e)'
<1>1. /\ setup' = setup /\ sequence \in Nat /\ sequence' \in Nat /\ sequence <= sequence'
      /\ Cardinality(Statements) \in Nat /\ Cardinality(Statements') \in Nat
      /\ Cardinality(Statements) <= Cardinality(Statements')
      /\ setup.counter \in Nat /\ e.seq \in Nat
  <2>1. Cardinality(Statements) \in Nat /\ Cardinality(Statements') \in Nat
    BY StatementsFinite DEF Statements
  <2> QED
    BY <2>1, ReplayAssumption DEF Typed, Onward, Made
<1>2. e.seq < sequence => e.seq < sequence'
  BY <1>1
<1>3. e.seq < setup.counter + 2 * Cardinality(Statements) =>
         e.seq < setup'.counter + 2 * Cardinality(Statements')
  BY <1>1
<1>4. ASSUME NEW q \in Requests
      PROVE  MadeFor(e, q) => MadeFor(e, q)'
  <2>1. \A n : n \in 1 .. ran[q] => n \in 1 .. ran'[q]
    BY ReplayAssumption DEF Typed, Onward
  <2>2. Answered(q) => Answered(q)'
    BY DEF Onward
  <2> QED
    BY <1>2, <1>3, <2>1, <2>2 DEF MadeFor
<1> QED
  BY <1>1, <1>4 DEF Made, Onward

\* A step that adds the events New to those on their way.
Adds(New) ==
    /\ Onward /\ Pool' \subseteq Pool \cup New
    /\ \A e \in New : Made(e)'
    /\ \A e \in New, f \in Pool \cup New :
          e # f => e.id # f.id /\ (e.seq = f.seq => ~ (IsHttp(e) <=> IsHttp(f)))

LEMMA AddsKeeps ==
    ASSUME Typed, Typed', PoolInv, NEW New, Adds(New)
    PROVE  PoolInv'
<1>1. \A e \in Pool' : Made(e)'
  BY MadeStays DEF Adds, PoolInv
<1>2. Unmixed(Pool')
  <2> SUFFICES ASSUME NEW e \in Pool', NEW f \in Pool', e # f
               PROVE  e.id # f.id /\ (e.seq = f.seq => ~ (IsHttp(e) <=> IsHttp(f)))
    BY DEF Unmixed
  <2>1. CASE e \in Pool /\ f \in Pool
    BY <2>1 DEF PoolInv, Unmixed
  <2>2. CASE e \in New
    BY <2>2 DEF Adds
  <2>3. CASE f \in New
    BY <2>3 DEF Adds
  <2> QED
    BY <2>1, <2>2, <2>3 DEF Adds
<1> QED
  BY <1>1, <1>2 DEF PoolInv, Unmixed

-----------------------------------------------------------------------------
(* Types *)

LEMMA AppendIs ==
    ASSUME NEW s, s \in Seq(Range(s)), NEW e, NEW t, t = Append(s, e)
    PROVE  /\ t \in Seq(Range(t)) /\ Range(t) = Range(s) \cup {e}
           /\ Len(s) \in Nat /\ Len(t) = Len(s) + 1
           /\ DOMAIN t = 1 .. Len(s) + 1 /\ DOMAIN s = 1 .. Len(s)
           /\ \A k \in 1 .. Len(s) : t[k] = s[k]
           /\ t[Len(s) + 1] = e
<1> DEFINE S == Range(s) \cup {e}
<1>1. s \in Seq(S) /\ e \in S
  BY DEF Range
<1>2. /\ Len(s) \in Nat /\ Len(t) = Len(s) + 1 /\ t \in Seq(S)
      /\ DOMAIN t = 1 .. Len(s) + 1 /\ DOMAIN s = 1 .. Len(s)
      /\ \A k \in 1 .. Len(s) : t[k] = s[k]
      /\ t[Len(s) + 1] = e
  BY <1>1
<1>3. Range(t) = S
  BY <1>2 DEF Range
<1> QED
  BY <1>2, <1>3

LEMMA AppendTwo ==
    ASSUME NEW s, s \in Seq(Range(s)), NEW e, NEW f, NEW t, t = s \o <<e, f>>
    PROVE  t \in Seq(Range(t)) /\ Range(t) = Range(s) \cup {e, f}
<1> DEFINE S == Range(s) \cup {e, f}
<1>1. s \in Seq(S) /\ <<e, f>> \in Seq(S)
  BY DEF Range
<1>2. /\ Len(s) \in Nat /\ Len(t) = Len(s) + 2 /\ t \in Seq(S)
      /\ DOMAIN t = 1 .. Len(s) + 2 /\ DOMAIN s = 1 .. Len(s)
      /\ \A k \in 1 .. Len(s) : t[k] = s[k]
      /\ t[Len(s) + 1] = e /\ t[Len(s) + 2] = f
  BY <1>1
<1>3. Range(t) = S
  <2>1. ASSUME NEW k \in 1 .. Len(s) + 2
        PROVE  t[k] \in S
    BY <1>2
  <2>2. /\ \A k \in 1 .. Len(s) : k \in DOMAIN t /\ t[k] = s[k]
        /\ Len(s) + 1 \in DOMAIN t /\ Len(s) + 2 \in DOMAIN t
    BY <1>2
  <2>3. S \subseteq Range(t)
    BY <1>2, <2>2 DEF Range
  <2>4. Range(t) \subseteq S
    BY <1>2, <2>1 DEF Range
  <2> QED
    BY <2>3, <2>4
<1> QED
  BY <1>2, <1>3

LEMMA RangeFinite ==
    ASSUME NEW s, NEW n \in Nat, DOMAIN s = 1 .. n
    PROVE  IsFiniteSet(Range(s))
<1> DEFINE f == [k \in 1 .. n |-> s[k]]
<1>1. f \in Surjection(1 .. n, Range(s))
  BY DEF Surjection, Range
<1> QED
  BY <1>1, FS_Interval, FS_Surjection

LEMMA EmptyIs ==
    /\ <<>> \in Seq(Range(<<>>)) /\ Range(<<>>) = {}
    /\ IsFiniteSet({})
<1>1. \A S : <<>> \in Seq(S) /\ DOMAIN <<>> = {}
  OBVIOUS
<1> QED
  BY <1>1, FS_EmptySet DEF Range

\* The stand-ins of a source: steps of the canonical stream, each once if the source
\* was finished with all its rows.
LEMMA MockIs ==
    ASSUME SourceInv, NEW M, M = MockStandIns
    PROVE  \E a \in Nat :
              /\ M = [i \in 1 .. a |-> M[i]]
              /\ \A i \in 1 .. a : M[i] \in DOMAIN Canonical
              /\ setup.history = "finished" => \A i, j \in 1 .. a : M[i] = M[j] => i = j
<1>1. PICK n \in Nat :
         /\ Stream(source, n)
         /\ \A i \in 1 .. n : source[i].seq \in Nat
         /\ setup.history = "finished" => \A i \in 1 .. n : source[i].seq = i - 1
  BY DEF SourceInv
<1> DEFINE I == {i \in DOMAIN source : source[i].seq + 1 \in DOMAIN Canonical}
           matched == Pick(source, I)
<1>2. I \in SUBSET (1 .. n) /\ DOMAIN source = 1 .. n
  BY <1>1 DEF Stream
<1>3. \A i \in 1 .. n : i \in I <=> source[i].seq + 1 \in DOMAIN Canonical
  BY <1>2
<1>4. M = [i \in DOMAIN matched |-> matched[i].seq + 1]
  BY DEF MockStandIns
<1> HIDE DEF I
<1>5. PICK a, w : Chosen(w, a, I, n) /\ matched = Reads(source, w, a)
  BY <1>2, PickedIs
<1>6. /\ a \in Nat /\ w \in [1 .. a -> 1 .. n]
      /\ \A j, k \in 1 .. a : w[j] = w[k] => j = k
      /\ \A i \in 1 .. n : i \in I <=> \E k \in 1 .. a : w[k] = i
      /\ DOMAIN matched = 1 .. a /\ \A k \in 1 .. a : matched[k] = source[w[k]]
  BY <1>5 DEF Chosen, Reads
<1> HIDE DEF matched
<1>7. M = [i \in 1 .. a |-> M[i]] /\ \A i \in 1 .. a : M[i] = source[w[i]].seq + 1
  BY <1>4, <1>6
<1>8. \A i \in 1 .. a : M[i] \in DOMAIN Canonical
  BY <1>3, <1>6, <1>7
<1>9. ASSUME setup.history = "finished", NEW i \in 1 .. a, NEW j \in 1 .. a, M[i] = M[j]
      PROVE  i = j
  <2>1. w[i] \in 1 .. n /\ w[j] \in 1 .. n
    BY <1>6
  <2>2. source[w[i]].seq = w[i] - 1 /\ source[w[j]].seq = w[j] - 1
    BY <1>1, <1>9, <2>1
  <2>3. w[i] = w[j]
    BY <1>7, <1>9, <2>1, <2>2
  <2> QED
    BY <1>6, <2>3
<1> QED
  BY <1>6, <1>7, <1>8, <1>9

LEMMA ConfigStays ==
    ASSUME [Next]_vars
    PROVE  setup' = setup /\ source' = source
<1> USE DEF config, runner
<1>1. CASE RunnerStep
  BY <1>1 DEF RunnerStep, Open, Refuse, ReplayMock, Gathered, AppendReplayed, FinishRead,
              FinishCommit, LinkEvents, Compare
<1>2. CASE Abort
  BY <1>2 DEF Abort
<1>3. ASSUME NEW q \in Requests, Send(q) \/ Answer(q) \/ GiveUp(q)
      PROVE  setup' = setup /\ source' = source
  BY <1>3 DEF Send, Answer, GiveUp
<1>4. ASSUME NEW q \in Requests, TargetStep(q)
      PROVE  setup' = setup /\ source' = source
  BY <1>4 DEF TargetStep, Arrive, RunSql, Respond, AppRaises, IngestAdmit, IngestAppend,
              FlushFails
<1>5. CASE UNCHANGED vars
  BY <1>5 DEF vars
<1> QED
  BY <1>1, <1>2, <1>3, <1>4, <1>5 DEF Next

LEMMA TypedStep ==
    ASSUME Typed, SourceInv, RecordedInv, FinalInv, [Next]_vars
    PROVE  Typed'
<1> USE DEF Typed, config, appVars, runner, Stages
<1>1. CASE Open
  BY <1>1 DEF Open
<1>2. CASE Refuse
  BY <1>2 DEF Refuse
<1>3. CASE ReplayMock
  <2>1. PICK a \in Nat : MockStandIns = [i \in 1 .. a |-> MockStandIns[i]]
    BY MockIs
  <2>2. replayed' = [i \in 1 .. a |-> CanonicalEvent(MockStandIns[i])]
    BY <1>3, <2>1 DEF ReplayMock
  <2>3. replayed' \in [1 .. a -> Range(replayed')]
    BY <2>2 DEF Range
  <2>4. replayed' \in Seq(Range(replayed'))
    BY <2>3
  <2> QED
    BY <1>3, <2>4 DEF ReplayMock
<1>4. CASE Gathered
  BY <1>4 DEF Gathered
<1>5. CASE AppendReplayed
  <2>1. IsFiniteSet(Range(replayed))
    BY RangeFinite
  <2>2. IsFiniteSet(rows \cup Range(replayed))
    BY <2>1, FS_Union
  <2> QED
    BY <1>5, <2>2 DEF AppendReplayed
<1>6. CASE FinishRead
  BY <1>6 DEF FinishRead
<1>7. CASE FinishCommit
  <2>1. IsFiniteSet(Range(final))
    BY <1>7, RangeFinite DEF FinishCommit, FinalInv, Stream
  <2>2. IsFiniteSet({e \in rows : \A f \in Range(final) : f.id # e.id})
    BY FS_Subset
  <2>3. IsFiniteSet(rows')
    BY <1>7, <2>1, <2>2, FS_Union DEF FinishCommit
  <2> QED
    BY <1>7, <2>3 DEF FinishCommit
<1>8. CASE LinkEvents
  BY <1>8 DEF LinkEvents
<1>9. CASE Compare
  BY <1>9 DEF Compare
<1>10. CASE Abort
  BY <1>10 DEF Abort
<1>11. ASSUME NEW q \in Requests, Send(q)
       PROVE  Typed'
  <2>1. PICK e : replayed' = Append(replayed, e)
    BY <1>11 DEF Send
  <2>2. replayed' \in Seq(Range(replayed'))
    BY <2>1, AppendIs
  <2> QED
    BY <1>11, <2>2 DEF Send, Tick
<1>12. ASSUME NEW q \in Requests, NEW shape, NEW outcome \in {"answered", "failed"},
              Receive(q, shape, outcome),
              UNCHANGED <<config, run, appVars, rows, status>>, faulted' \in BOOLEAN
       PROVE  Typed'
  <2>1. PICK e : replayed' = Append(replayed, e)
    BY <1>12 DEF Receive
  <2>2. replayed' \in Seq(Range(replayed'))
    BY <2>1, AppendIs
  <2> QED
    BY <1>12, <2>2 DEF Receive, Tick
<1>13. ASSUME NEW q \in Requests, Answer(q)
       PROVE  Typed'
  BY <1>12, <1>13 DEF Answer
<1>14. ASSUME NEW q \in Requests, GiveUp(q)
       PROVE  Typed'
  BY <1>12, <1>14 DEF GiveUp
<1>15. ASSUME NEW q \in Requests, Arrive(q)
       PROVE  Typed'
  BY <1>15 DEF Arrive
<1>16. ASSUME NEW q \in Requests, RunSql(q)
       PROVE  Typed'
  <2>1. PICK e, f : queue' = queue \o <<e, f>>
    BY <1>16 DEF RunSql
  <2>2. queue' \in Seq(Range(queue'))
    BY <2>1, AppendTwo
  <2>3. ran[q] < MaxSql /\ ran[q] \in 0 .. MaxSql /\ MaxSql \in Nat
    BY <1>16, ReplayAssumption DEF RunSql, RecordedInv
  <2>4. ran' \in [Requests -> 0 .. MaxSql]
    BY <1>16, <2>3 DEF RunSql
  <2>5. /\ now' = now + 2 /\ faulted' \in BOOLEAN
        /\ UNCHANGED <<setup, source, run, sent, replayed, sequence, status, app, outbox, rows>>
    BY <1>16 DEF RunSql, Tick
  <2> QED
    BY <2>2, <2>4, <2>5
<1>17. ASSUME NEW q \in Requests, Respond(q)
       PROVE  Typed'
  <2>1. IsFiniteSet(Range(queue))
    BY RangeFinite
  <2> QED
    BY <1>17, <2>1, EmptyIs DEF Respond
<1>18. ASSUME NEW q \in Requests, AppRaises(q)
       PROVE  Typed'
  BY <1>18 DEF AppRaises
<1>19. ASSUME NEW q \in Requests, IngestAdmit(q)
       PROVE  Typed'
  BY <1>19 DEF IngestAdmit
<1>20. ASSUME NEW q \in Requests, IngestAppend(q)
       PROVE  Typed'
  BY <1>20, FS_Union DEF IngestAppend
<1>21. ASSUME NEW q \in Requests, FlushFails(q)
       PROVE  Typed'
  BY <1>21 DEF FlushFails
<1>22. CASE UNCHANGED vars
  BY <1>22 DEF vars
<1> QED
  BY <1>1, <1>2, <1>3, <1>4, <1>5, <1>6, <1>7, <1>8, <1>9, <1>10, <1>11, <1>13, <1>14, <1>15,
     <1>16, <1>17, <1>18, <1>19, <1>20, <1>21, <1>22 DEF Next, RunnerStep, TargetStep

-----------------------------------------------------------------------------
(* The events on their way *)

LEMMA QuietOnward ==
    ASSUME Typed, UNCHANGED <<setup, source, sequence, ran, sent>>
    PROVE  Onward
<1>1. Cardinality(Statements) \in Nat /\ Statements' = Statements
  BY StatementsFinite DEF Statements
<1> QED
  BY <1>1, ReplayAssumption DEF Onward, Typed, Answered

LEMMA PoolWithin ==
    ASSUME NEW S, Range(replayed') \subseteq S, Range(queue') \subseteq S,
           DOMAIN outbox' = Requests, \A q \in Requests : outbox'[q] \subseteq S,
           status' = "completed" \/ rows' \subseteq S
    PROVE  Pool' \subseteq S
  BY DEF Pool

LEMMA PoolHas ==
    /\ Range(replayed) \subseteq Pool /\ Range(queue) \subseteq Pool
    /\ \A q \in Requests : outbox[q] \subseteq Pool
    /\ status # "completed" => rows \subseteq Pool
  BY DEF Pool

\* A step that makes no event.
LEMMA MovesKeep ==
    ASSUME Typed, Typed', PoolInv, UNCHANGED <<setup, source, sequence, ran, sent>>,
           Pool' \subseteq Pool
    PROVE  PoolInv'
<1>1. Adds({})
  BY QuietOnward DEF Adds
<1> QED
  BY <1>1, AddsKeeps

LEMMA EventIs ==
    ASSUME NEW origin, NEW q, NEW type, NEW n, NEW ts \in Int, NEW seq \in Int, NEW parent,
           NEW shape, NEW e, e = Event(origin, q, type, n, ts, seq, parent, shape)
    PROVE  /\ Row(e) /\ e.id = <<origin, q, type, n>> /\ e.corr = <<origin, q>> /\ e.ts = ts
           /\ e.seq = seq /\ e.type = type /\ e.parent = parent /\ e.payload.shape = shape
  BY DEF Event, Row

LEMMA CanonicalIs ==
    ASSUME NEW k \in DOMAIN Canonical
    PROVE  LET e == CanonicalEvent(k)
           IN /\ Row(e) /\ e.id = <<"run", 1, Canonical[k], k>> /\ e.seq = k - 1
              /\ k \in Nat /\ e.seq \in Nat /\ e.type = Canonical[k] /\ e.corr = <<"run", 1>>
              /\ \/ e.parent = NoParent
                 \/ \E j \in 1 .. k : e.parent = <<"run", 1, Canonical[j], j>>
<1>1. DOMAIN Canonical = 1 .. Len(Canonical) /\ k \in Nat /\ k - 1 \in Nat /\ 1 \in 1 .. k
  BY ReplayAssumption
<1> DEFINE p == CASE Canonical[k] = "http.request"    -> NoParent
                  [] Canonical[k] = "postgres.result" -> <<"run", 1, Canonical[k - 1], k - 1>>
                  [] OTHER                            -> <<"run", 1, Canonical[1], 1>>
<1>2. CanonicalEvent(k) = Event("run", 1, Canonical[k], k, k, k - 1, p, "ok")
  BY DEF CanonicalEvent
<1>3. p = NoParent \/ \E j \in 1 .. k : p = <<"run", 1, Canonical[j], j>>
  <2>1. CASE Canonical[k] = "http.request"
    BY <2>1
  <2>2. CASE Canonical[k] = "postgres.result"
    <3>1. k # 1
      BY <2>2, ReplayAssumption
    <3>2. k - 1 \in 1 .. k
      BY <1>1, <3>1
    <3> QED
      BY <2>2, <3>2
  <2>3. CASE Canonical[k] # "http.request" /\ Canonical[k] # "postgres.result"
    BY <1>1, <2>3
  <2> QED
    BY <2>1, <2>2, <2>3
<1> HIDE DEF p
<1> QED
  BY <1>1, <1>2, <1>3, EventIs

\* What appending an event, or queueing two, does to the events on their way.
LEMMA AppendPools ==
    ASSUME Typed, Staged, run = "replaying", NEW e, replayed' = Append(replayed, e),
           UNCHANGED <<queue, outbox, rows, status>>
    PROVE  Pool' \subseteq Pool \cup {e}
<1>1. Range(replayed') = Range(replayed) \cup {e}
  <2>1. replayed \in Seq(Range(replayed))
    BY DEF Typed
  <2> QED
    BY <2>1, AppendIs
<1>2. status # "completed"
  BY DEF Staged
<1> DEFINE S == Pool \cup {e}
<1>3. /\ Range(replayed') \subseteq S /\ Range(queue') \subseteq S
      /\ DOMAIN outbox' = Requests /\ \A r \in Requests : outbox'[r] \subseteq S
      /\ rows' \subseteq S
  BY <1>1, <1>2, PoolHas DEF Typed
<1> HIDE DEF S
<1>4. Pool' \subseteq S
  BY <1>3, PoolWithin
<1> QED
  BY <1>4 DEF S

LEMMA SendAdds ==
    ASSUME Typed, Typed', PoolInv, Staged, InSequence, NEW q \in Requests, Send(q)
    PROVE  PoolInv'
<1>0. PICK e : e = Event("run", q, "http.request", 0, now, sequence, NoParent, "ok")
  OBVIOUS
<1>1. /\ Row(e) /\ e.id = RunId(q, "http.request", 0) /\ e.corr = <<"run", q>>
      /\ e.seq = sequence /\ e.type = "http.request" /\ e.parent = NoParent
  BY <1>0, EventIs DEF Typed, RunId
<1>2. /\ run = "replaying" /\ setup.target = "http" /\ sent[q] = "idle"
      /\ replayed' = Append(replayed, e) /\ sequence' = sequence + 1
      /\ sent' = [sent EXCEPT ![q] = "open"]
      /\ UNCHANGED <<setup, source, run, app, ran, queue, outbox, rows, status>>
  BY <1>0 DEF Send, config, appVars
<1>3. Onward
  <2>1. Cardinality(Statements) \in Nat /\ Statements' = Statements
    BY <1>2, StatementsFinite DEF Statements
  <2>2. sequence <= sequence'
    BY <1>2 DEF Typed
  <2> QED
    BY <1>2, <2>1, <2>2, ReplayAssumption DEF Onward, Typed, Answered
<1>4. Pool' \subseteq Pool \cup {e}
  BY <1>2, AppendPools
<1>5. Made(e)'
  <2>1. e.seq \in Nat /\ e.seq < sequence'
    BY <1>1, <1>2 DEF Typed
  <2>2. sent'[q] = "open" /\ setup'.target = "http"
    BY <1>2 DEF Typed
  <2>3. MadeFor(e, q)'
    BY <1>1, <2>1 DEF MadeFor, RunId
  <2> QED
    BY <1>1, <2>1, <2>2, <2>3 DEF Made
<1>6. ASSUME NEW f \in Pool
      PROVE  e.id # f.id /\ (e.seq = f.seq => ~ (IsHttp(e) <=> IsHttp(f)))
  <2>1. PICK p \in Requests : sent[p] # "idle" /\ MadeFor(f, p) /\ f.seq \in Nat
    BY <1>2 DEF PoolInv, Made
  <2>2. e.id # f.id
    BY <1>1, <1>2, <2>1 DEF MadeFor, RunId
  <2>3. e.seq = f.seq => ~ (IsHttp(e) <=> IsHttp(f))
    BY <1>1, <2>1 DEF MadeFor, IsHttp, Typed
  <2> QED
    BY <2>2, <2>3
<1>7. Adds({e})
  <2>1. \A x \in {e}, f \in Pool \cup {e} :
           x # f => x.id # f.id /\ (x.seq = f.seq => ~ (IsHttp(x) <=> IsHttp(f)))
    BY <1>6
  <2> QED
    BY <1>3, <1>4, <1>5, <2>1 DEF Adds
<1> QED
  BY <1>7, AddsKeeps

LEMMA Http ==
    ASSUME Typed, InSequence, NEW q \in Requests, sent[q] # "idle" \/ app[q] # "idle"
    PROVE  setup.target = "http"
<1>1. setup.target \in {"mock", "http"}
  BY ReplayAssumption DEF Typed
<1> QED
  BY <1>1 DEF InSequence

LEMMA ReceiveAdds ==
    ASSUME Typed, Typed', PoolInv, Staged, InSequence, NEW q \in Requests, NEW shape,
           NEW outcome \in {"answered", "failed"}, Receive(q, shape, outcome),
           UNCHANGED <<setup, source, queue, outbox, ran, rows, status>>
    PROVE  PoolInv'
<1>0. PICK e : e = Event("run", q, "http.response", 0, now, sequence,
                         <<"run", q, "http.request", 0>>, shape)
  OBVIOUS
<1>1. /\ Row(e) /\ e.id = RunId(q, "http.response", 0) /\ e.corr = <<"run", q>>
      /\ e.seq = sequence /\ e.type = "http.response"
      /\ e.parent = RunId(q, "http.request", 0)
  <2>1. now \in Int /\ sequence \in Int
    BY DEF Typed
  <2> QED
    BY <1>0, <2>1 DEF RunId, Event, Row
<1>2. /\ run = "replaying" /\ sent[q] = "open" /\ setup.target = "http"
      /\ replayed' = Append(replayed, e) /\ sequence' = sequence + 1
      /\ sent' = [sent EXCEPT ![q] = outcome]
  <2>1. /\ run = "replaying" /\ sent[q] = "open"
        /\ replayed' = Append(replayed, e) /\ sequence' = sequence + 1
        /\ sent' = [sent EXCEPT ![q] = outcome]
    BY <1>0 DEF Receive
  <2>2. setup.target = "http"
    BY <2>1, Http
  <2> QED
    BY <2>1, <2>2
<1>3. Onward
  <2>1. Cardinality(Statements) \in Nat /\ Statements' = Statements
    BY StatementsFinite DEF Statements
  <2>2. sequence <= sequence'
    BY <1>2 DEF Typed
  <2> QED
    BY <1>2, <2>1, <2>2, ReplayAssumption DEF Onward, Typed, Answered
<1>4. Pool' \subseteq Pool \cup {e}
  BY <1>2, AppendPools
<1>5. Made(e)'
  <2>1. e.seq \in Nat /\ e.seq < sequence'
    BY <1>1, <1>2 DEF Typed
  <2>2. sent'[q] = outcome /\ sent'[q] # "idle" /\ setup'.target = "http"
    BY <1>2 DEF Typed
  <2>3. MadeFor(e, q)'
    BY <1>1, <2>1, <2>2 DEF MadeFor, RunId, Answered
  <2> QED
    BY <1>1, <2>1, <2>2, <2>3 DEF Made
<1>6. ASSUME NEW f \in Pool
      PROVE  e.id # f.id /\ (e.seq = f.seq => ~ (IsHttp(e) <=> IsHttp(f)))
  <2>1. PICK p \in Requests : sent[p] # "idle" /\ MadeFor(f, p) /\ f.seq \in Nat
    BY <1>2 DEF PoolInv, Made
  <2>2. e.id # f.id
    BY <1>1, <1>2, <2>1 DEF MadeFor, RunId, Answered
  <2>3. e.seq = f.seq => ~ (IsHttp(e) <=> IsHttp(f))
    BY <1>1, <2>1 DEF MadeFor, IsHttp, Typed
  <2> QED
    BY <2>2, <2>3
<1>7. Adds({e})
  <2>1. \A x \in {e}, f \in Pool \cup {e} :
           x # f => x.id # f.id /\ (x.seq = f.seq => ~ (IsHttp(x) <=> IsHttp(f)))
    BY <1>6
  <2> QED
    BY <1>3, <1>4, <1>5, <2>1 DEF Adds
<1> QED
  BY <1>7, AddsKeeps

\* The two events of statement n of request q, the first with sequence c.
Statement(q, n, c, e, f) ==
    /\ Row(e) /\ e.id = RunId(q, "postgres.query", n) /\ e.corr = <<"run", q>>
    /\ e.seq = c /\ e.type = "postgres.query" /\ e.parent = NoParent
    /\ Row(f) /\ f.id = RunId(q, "postgres.result", n) /\ f.corr = <<"run", q>>
    /\ f.seq = c + 1 /\ f.type = "postgres.result" /\ f.parent = RunId(q, "postgres.query", n)
    /\ e.ts = now + setup.skew /\ f.ts = e.ts + 1
    /\ "payload" \in DOMAIN f /\ f.payload.shape \in {"ok", "other"}
    /\ AsBefore(q) => f.payload.shape = "ok"

\* What RunSql does, with those two events.
RunsStatement(q, n, c, e, f) ==
    /\ app[q] # "idle" /\ n = ran[q] + 1 /\ n \in 1 .. MaxSql
    /\ c = setup.counter + 2 * Cardinality(Statements) /\ c \in Nat
    /\ Statement(q, n, c, e, f) /\ queue' = queue \o <<e, f>>
    /\ ran' = [ran EXCEPT ![q] = @ + 1] /\ now' = now + 2
    /\ faulted' = (faulted \/ app[q] # "running")
    /\ UNCHANGED <<setup, source, run, sent, replayed, sequence, status, final, links, results,
                   app, outbox, rows>>

LEMMA RunSqlAre ==
    ASSUME Typed, RecordedInv, NEW q \in Requests, RunSql(q)
    PROVE  \E n, c, e, f : RunsStatement(q, n, c, e, f)
<1>0. PICK n, c, ts : /\ n = ran[q] + 1 /\ ts = now + setup.skew
                      /\ c = setup.counter + 2 * Cardinality(Statements)
  OBVIOUS
<1>1. c \in Nat /\ ts \in Int
  <2>1. Cardinality(Statements) \in Nat
    BY StatementsFinite DEF Statements
  <2>2. setup.counter \in Nat /\ setup.skew \in Int /\ now \in Nat
    BY ReplayAssumption DEF Typed
  <2> QED
    BY <1>0, <2>1, <2>2
<1>2. n \in 1 .. MaxSql
  <2>1. ran[q] < MaxSql /\ ran[q] \in 0 .. MaxSql /\ MaxSql \in Nat
    BY ReplayAssumption DEF RunSql, RecordedInv, Typed
  <2> QED
    BY <1>0, <2>1
<1>3. PICK shape \in {"ok", "other"} :
         /\ AsBefore(q) => shape = "ok"
         /\ LET done  == {p \in Requests \X (1 .. MaxSql) : p[2] <= ran[p[1]]}
                seq   == setup.counter + 2 * Cardinality(done)
                query == Event("run", q, "postgres.query", ran[q] + 1, now + setup.skew, seq,
                               NoParent, "ok")
            IN queue' = queue \o <<query,
                    Event("run", q, "postgres.result", ran[q] + 1, now + setup.skew + 1,
                          seq + 1, query.id, shape)>>
  BY DEF RunSql
<1>4. PICK e : e = Event("run", q, "postgres.query", n, ts, c, NoParent, "ok")
  OBVIOUS
<1>5. PICK f : f = Event("run", q, "postgres.result", n, ts + 1, c + 1, e.id, shape)
  OBVIOUS
<1>6. queue' = queue \o <<e, f>>
  BY <1>0, <1>3, <1>4, <1>5 DEF Statements
<1>7. /\ app[q] # "idle" /\ now' = now + 2 /\ faulted' = (faulted \/ app[q] # "running")
      /\ UNCHANGED <<setup, source, run, sent, replayed, sequence, status, final, links, results,
                     app, outbox, rows>>
      /\ ran' = [ran EXCEPT ![q] = @ + 1]
  BY DEF RunSql, Tick, runner, config
<1>8. /\ Row(e) /\ e.id = <<"run", q, "postgres.query", n>> /\ e.corr = <<"run", q>>
      /\ e.ts = ts /\ e.seq = c /\ e.type = "postgres.query" /\ e.parent = NoParent
  <2>1. ts \in Int /\ c \in Int /\ e = Event("run", q, "postgres.query", n, ts, c, NoParent, "ok")
    BY <1>1, <1>4
  <2> QED
    BY <2>1 DEF Event, Row
<1>9. /\ Row(f) /\ f.id = <<"run", q, "postgres.result", n>> /\ f.corr = <<"run", q>>
      /\ f.ts = ts + 1 /\ f.seq = c + 1 /\ f.type = "postgres.result"
      /\ f.parent = e.id /\ "payload" \in DOMAIN f /\ f.payload.shape = shape
  <2>1. PICK t, d : t = ts + 1 /\ d = c + 1
    OBVIOUS
  <2>2. t \in Int /\ d \in Int /\ f = Event("run", q, "postgres.result", n, t, d, e.id, shape)
    BY <1>1, <1>5, <2>1
  <2> QED
    BY <2>1, <2>2 DEF Event, Row
<1>10. Statement(q, n, c, e, f)
  <2>1. /\ e.id = RunId(q, "postgres.query", n) /\ f.id = RunId(q, "postgres.result", n)
        /\ f.parent = RunId(q, "postgres.query", n)
        /\ "payload" \in DOMAIN f /\ f.payload.shape \in {"ok", "other"}
        /\ AsBefore(q) => f.payload.shape = "ok"
    BY <1>3, <1>8, <1>9 DEF RunId
  <2>2. e.ts = now + setup.skew /\ f.ts = e.ts + 1
    BY <1>0, <1>8, <1>9
  <2> QED
    BY <1>8, <1>9, <2>1, <2>2 DEF Statement
<1> QED
  BY <1>0, <1>1, <1>2, <1>6, <1>7, <1>10 DEF RunsStatement

LEMMA QueueTwo ==
    ASSUME Typed, NEW e, NEW f, queue' = queue \o <<e, f>>
    PROVE  queue' \in Seq(Range(queue')) /\ Range(queue') = Range(queue) \cup {e, f}
<1>1. PICK s, t : s = queue /\ t = queue'
  OBVIOUS
<1>2. s \in Seq(Range(s)) /\ t = s \o <<e, f>>
  BY <1>1 DEF Typed
<1>3. \A x, y, u : u = s \o <<x, y>> => u \in Seq(Range(u)) /\ Range(u) = Range(s) \cup {x, y}
  BY <1>2, AppendTwo
<1>4. t \in Seq(Range(t)) /\ Range(t) = Range(s) \cup {e, f}
  BY <1>2, <1>3
<1> QED
  BY <1>1, <1>4

LEMMA QueuePools ==
    ASSUME Typed, NEW e, NEW f, queue' = queue \o <<e, f>>,
           UNCHANGED <<replayed, status, outbox, rows>>
    PROVE  Pool' \subseteq Pool \cup {e, f}
<1>1. Range(queue') = Range(queue) \cup {e, f}
  BY QueueTwo
<1> DEFINE S == Pool \cup {e, f}
<1>2. /\ Range(replayed') \subseteq S /\ Range(queue') \subseteq S
      /\ DOMAIN outbox' = Requests /\ \A r \in Requests : outbox'[r] \subseteq S
      /\ status' = "completed" \/ rows' \subseteq S
  BY <1>1, PoolHas DEF Typed
<1> HIDE DEF S
<1>3. Pool' \subseteq S
  BY <1>2, PoolWithin
<1> QED
  BY <1>3 DEF S

LEMMA RunSqlAdds ==
    ASSUME Typed, Typed', RecordedInv, PoolInv, Staged, InSequence,
           NEW q \in Requests, RunSql(q)
    PROVE  PoolInv'
<1>1. PICK n, c, e, f : RunsStatement(q, n, c, e, f)
  BY RunSqlAre
<1>2. /\ n \in 1 .. MaxSql /\ c \in Nat /\ app[q] # "idle" /\ n = ran[q] + 1
      /\ c = setup.counter + 2 * Cardinality(Statements)
      /\ Statement(q, n, c, e, f) /\ queue' = queue \o <<e, f>>
      /\ ran' = [ran EXCEPT ![q] = @ + 1]
      /\ UNCHANGED <<setup, source, run, sent, replayed, sequence, status, outbox, rows>>
  BY <1>1 DEF RunsStatement
<1>3. /\ setup.target = "http" /\ sent[q] # "idle" /\ n \in Nat /\ ran'[q] = n
      /\ ran[q] \in Nat /\ n = ran[q] + 1 /\ c \in Nat
  <2>1. app[q] # "idle" /\ n \in 1 .. MaxSql /\ ran' = [ran EXCEPT ![q] = @ + 1]
        /\ c \in Nat
    BY <1>2
  <2>2. setup.target = "http" /\ sent[q] # "idle"
    BY <2>1, Http DEF Staged
  <2>3. ran \in [Requests -> 0 .. MaxSql] /\ MaxSql \in Nat
    BY ReplayAssumption DEF Typed
  <2> QED
    BY <1>2, <2>1, <2>2, <2>3
<1>4. setup' = setup /\ source' = source /\ sent' = sent /\ sequence' = sequence
  BY <1>2 DEF config
<1>5. Cardinality(Statements) \in Nat /\ Cardinality(Statements') = Cardinality(Statements) + 1
  <2>1. ran[q] + 1 \in 1 .. MaxSql /\ ran' = [ran EXCEPT ![q] = @ + 1]
    BY <1>2
  <2> QED
    BY <2>1, StatementsGrow, StatementsFinite DEF Statements
<1>6. setup'.counter + 2 * Cardinality(Statements') = c + 2
  <2>1. setup.counter \in Nat
    BY ReplayAssumption DEF Typed
  <2> QED
    BY <1>2, <1>4, <1>5, <2>1
<1>7. Onward
  <2>1. \A r \in Requests : ran[r] <= ran'[r]
    <3>1. ran' = [ran EXCEPT ![q] = @ + 1] /\ ran \in [Requests -> 0 .. MaxSql]
          /\ MaxSql \in Nat
      BY <1>2, ReplayAssumption DEF Typed
    <3> QED
      BY <3>1
  <2>2. sequence \in Nat
    BY DEF Typed
  <2> QED
    BY <1>4, <1>5, <2>1, <2>2 DEF Onward, Answered
<1>8. Pool' \subseteq Pool \cup {e, f}
  BY <1>2, QueuePools
<1>9. e.seq \in Nat /\ f.seq \in Nat /\ e.seq < c + 2 /\ f.seq < c + 2
  BY <1>2 DEF Statement
<1>10. Made(e)' /\ Made(f)'
  <2>1. n \in 1 .. ran'[q]
    BY <1>3
  <2>2. MadeFor(e, q)' /\ MadeFor(f, q)'
    BY <1>6, <1>9, <1>2, <2>1 DEF MadeFor, RunId, Statement
  <2> QED
    BY <1>3, <1>4, <1>9, <1>2, <2>2 DEF Made, Statement
<1>11. ASSUME NEW g \in Pool
       PROVE  /\ e.id # g.id /\ (e.seq = g.seq => ~ (IsHttp(e) <=> IsHttp(g)))
              /\ f.id # g.id /\ (f.seq = g.seq => ~ (IsHttp(f) <=> IsHttp(g)))
  <2>1. PICK p \in Requests : MadeFor(g, p) /\ g.seq \in Nat
    BY <1>3 DEF PoolInv, Made
  <2>2. n \notin 1 .. ran[q]
    BY <1>3
  <2>3. e.id # g.id /\ f.id # g.id
    BY <1>2, <2>1, <2>2 DEF MadeFor, RunId, Statement
  <2>4. ~ IsHttp(e) /\ ~ IsHttp(f)
    BY <1>2 DEF IsHttp, Statement
  <2>5. ~ IsHttp(g) => g.seq < c
    BY <1>2, <2>1 DEF MadeFor, IsHttp
  <2>6. ~ IsHttp(g) => e.seq # g.seq /\ f.seq # g.seq
    BY <1>2, <2>1, <2>5 DEF Statement
  <2> QED
    BY <2>3, <2>4, <2>6
<1>12. e.id # f.id /\ e.seq # f.seq
  BY <1>2 DEF RunId, Statement
<1>13. Adds({e, f})
  <2>1. \A x \in {e, f}, g \in Pool \cup {e, f} :
           x # g => x.id # g.id /\ (x.seq = g.seq => ~ (IsHttp(x) <=> IsHttp(g)))
    BY <1>11, <1>12
  <2> QED
    BY <1>7, <1>8, <1>10, <2>1 DEF Adds
<1> QED
  BY <1>13, AddsKeeps

LEMMA ReplayMockAdds ==
    ASSUME Typed, Typed', SourceInv, PoolInv, Staged, InSequence, ReplayMock
    PROVE  PoolInv'
<1>1. /\ run = "replaying" /\ setup.target = "mock"
      /\ UNCHANGED <<setup, source, sequence, ran, sent, queue, outbox, rows, status>>
      /\ queue = <<>> /\ rows = {} /\ \A q \in Requests : outbox[q] = {}
  BY DEF ReplayMock, InSequence, config, appVars
<1>2. PICK a \in Nat : /\ MockStandIns = [i \in 1 .. a |-> MockStandIns[i]]
                       /\ \A i \in 1 .. a : MockStandIns[i] \in DOMAIN Canonical
  BY MockIs
<1>3. replayed' = [i \in 1 .. a |-> CanonicalEvent(MockStandIns[i])]
  BY <1>2 DEF ReplayMock
<1>4. \A e \in Range(replayed') : \E k \in DOMAIN Canonical : e = CanonicalEvent(k)
  BY <1>2, <1>3 DEF Range
<1> DEFINE S == Range(replayed')
<1>5. Pool' \subseteq S
  <2>1. /\ Range(replayed') \subseteq S /\ Range(queue') \subseteq S
        /\ DOMAIN outbox' = Requests /\ \A r \in Requests : outbox'[r] \subseteq S
        /\ rows' \subseteq S
    BY <1>1, EmptyIs DEF Typed
  <2> HIDE DEF S
  <2> QED
    BY <2>1, PoolWithin
<1>6. ASSUME NEW e \in S
      PROVE  Made(e)'
  <2>1. PICK k \in DOMAIN Canonical : e = CanonicalEvent(k)
    BY <1>4
  <2>2. Row(e) /\ e.seq \in Nat
    BY <2>1, CanonicalIs
  <2> QED
    BY <1>1, <2>1, <2>2 DEF Made, CanonicalEvent
<1>7. ASSUME NEW e \in S, NEW f \in S, e # f
      PROVE  e.id # f.id /\ e.seq # f.seq
  <2>1. PICK k \in DOMAIN Canonical : e = CanonicalEvent(k)
    BY <1>4
  <2>2. PICK j \in DOMAIN Canonical : f = CanonicalEvent(j)
    BY <1>4
  <2>3. /\ e.id[4] = k /\ e.seq = k - 1 /\ k \in Nat
        /\ f.id[4] = j /\ f.seq = j - 1 /\ j \in Nat
    BY <2>1, <2>2, CanonicalIs
  <2> QED
    BY <1>7, <2>1, <2>2, <2>3
<1> HIDE DEF S
<1> QED
  BY <1>5, <1>6, <1>7 DEF PoolInv, Unmixed

\* A step makes no event, or is one of those that do.
Quiet == Pool' \subseteq Pool /\ UNCHANGED <<setup, source, now, sequence, ran, sent>>

LEMMA QuietSteps ==
    ASSUME Typed, Typed', Staged, [Next]_vars
    PROVE  \/ Quiet \/ ReplayMock
           \/ \E q \in Requests : Send(q) \/ Answer(q) \/ GiveUp(q) \/ RunSql(q)
<1>1. ASSUME UNCHANGED <<setup, source, now, sequence, ran, sent, replayed, queue, outbox, rows>>,
             status' # status => status' = "completed" \/ status # "completed"
      PROVE  Quiet
  <2>1. /\ Range(replayed') \subseteq Pool /\ Range(queue') \subseteq Pool
        /\ DOMAIN outbox' = Requests /\ \A r \in Requests : outbox'[r] \subseteq Pool
        /\ status' = "completed" \/ rows' \subseteq Pool
    BY <1>1, PoolHas DEF Typed
  <2>2. Pool' \subseteq Pool
    BY <2>1, PoolWithin
  <2> QED
    BY <1>1, <2>2 DEF Quiet
<1> USE DEF config, appVars, runner
<1>2. CASE Open
  BY <1>1, <1>2 DEF Open, Staged
<1>3. CASE Refuse
  BY <1>1, <1>3 DEF Refuse, Staged
<1>4. CASE Gathered
  BY <1>1, <1>4 DEF Gathered
<1>5. CASE AppendReplayed
  <2>1. /\ UNCHANGED <<setup, source, now, sequence, ran, sent, replayed, queue, outbox, status>>
        /\ rows' \subseteq rows \cup Range(replayed) /\ status = "recording"
    BY <1>5 DEF AppendReplayed, Staged
  <2>2. /\ Range(replayed') \subseteq Pool /\ Range(queue') \subseteq Pool
        /\ DOMAIN outbox' = Requests /\ \A r \in Requests : outbox'[r] \subseteq Pool
        /\ rows' \subseteq Pool
    BY <2>1, PoolHas DEF Typed
  <2>3. Pool' \subseteq Pool
    BY <2>2, PoolWithin
  <2> QED
    BY <2>1, <2>3 DEF Quiet
<1>6. CASE FinishRead
  BY <1>1, <1>6 DEF FinishRead
<1>7. CASE FinishCommit
  <2>1. /\ UNCHANGED <<setup, source, now, sequence, ran, sent, replayed, queue, outbox>>
        /\ status' = "completed"
    BY <1>7 DEF FinishCommit
  <2>2. /\ Range(replayed') \subseteq Pool /\ Range(queue') \subseteq Pool
        /\ DOMAIN outbox' = Requests /\ \A r \in Requests : outbox'[r] \subseteq Pool
    BY <2>1, PoolHas DEF Typed
  <2>3. Pool' \subseteq Pool
    BY <2>1, <2>2, PoolWithin
  <2> QED
    BY <2>1, <2>3 DEF Quiet
<1>8. CASE LinkEvents
  BY <1>1, <1>8 DEF LinkEvents
<1>9. CASE Compare
  BY <1>1, <1>9 DEF Compare
<1>10. CASE Abort
  BY <1>1, <1>10 DEF Abort
<1>11. ASSUME NEW q \in Requests, Arrive(q)
       PROVE  Quiet
  BY <1>1, <1>11 DEF Arrive
<1>12. ASSUME NEW q \in Requests, Respond(q)
       PROVE  Quiet
  <2>1. /\ UNCHANGED <<setup, source, now, sequence, ran, sent, replayed, rows, status>>
        /\ outbox' = [outbox EXCEPT ![q] = Range(queue)] /\ queue' = <<>>
    BY <1>12 DEF Respond
  <2>2. /\ Range(replayed') \subseteq Pool /\ Range(queue') \subseteq Pool
        /\ DOMAIN outbox' = Requests /\ \A r \in Requests : outbox'[r] \subseteq Pool
        /\ status' = "completed" \/ rows' \subseteq Pool
    BY <2>1, PoolHas, EmptyIs DEF Typed
  <2>3. Pool' \subseteq Pool
    BY <2>2, PoolWithin
  <2> QED
    BY <2>1, <2>3 DEF Quiet
<1>13. ASSUME NEW q \in Requests, AppRaises(q) \/ IngestAdmit(q) \/ FlushFails(q)
       PROVE  Quiet
  BY <1>1, <1>13 DEF AppRaises, IngestAdmit, FlushFails
<1>14. ASSUME NEW q \in Requests, IngestAppend(q)
       PROVE  Quiet
  <2>1. /\ UNCHANGED <<setup, source, now, sequence, ran, sent, replayed, queue, outbox, status>>
        /\ rows' = rows \cup outbox[q]
    BY <1>14 DEF IngestAppend
  <2>2. /\ Range(replayed') \subseteq Pool /\ Range(queue') \subseteq Pool
        /\ DOMAIN outbox' = Requests /\ \A r \in Requests : outbox'[r] \subseteq Pool
        /\ status' = "completed" \/ rows' \subseteq Pool
    BY <2>1, PoolHas DEF Typed
  <2>3. Pool' \subseteq Pool
    BY <2>2, PoolWithin
  <2> QED
    BY <2>1, <2>3 DEF Quiet
<1>15. CASE UNCHANGED vars
  BY <1>1, <1>15 DEF vars
<1> QED
  BY <1>2, <1>3, <1>4, <1>5, <1>6, <1>7, <1>8, <1>9, <1>10, <1>11, <1>12, <1>13, <1>14, <1>15
     DEF Next, RunnerStep, TargetStep

\* A step keeps the events as they were made.
LEMMA PoolStep ==
    ASSUME Typed, Typed', SourceInv, RecordedInv, PoolInv, Staged, InSequence, [Next]_vars
    PROVE  PoolInv'
<1> USE DEF config, appVars, runner
<1>1. CASE Quiet
  BY <1>1, MovesKeep DEF Quiet
<1>2. CASE ReplayMock
  BY <1>2, ReplayMockAdds
<1>3. ASSUME NEW q \in Requests, Send(q)
      PROVE  PoolInv'
  BY <1>3, SendAdds
<1>4. ASSUME NEW q \in Requests, Answer(q)
      PROVE  PoolInv'
  BY <1>4, ReceiveAdds DEF Answer
<1>5. ASSUME NEW q \in Requests, GiveUp(q)
      PROVE  PoolInv'
  BY <1>5, ReceiveAdds DEF GiveUp
<1>6. ASSUME NEW q \in Requests, RunSql(q)
      PROVE  PoolInv'
  BY <1>6, RunSqlAdds
<1> QED
  BY <1>1, <1>2, <1>3, <1>4, <1>5, <1>6, QuietSteps

-----------------------------------------------------------------------------
(* Parents *)

LEMMA ParentsUnion ==
    ASSUME NEW S, NEW T, ParentsIn(S), ParentsIn(T)
    PROVE  ParentsIn(S \cup T)
  BY DEF ParentsIn

LEMMA ParentsAdd ==
    ASSUME NEW S, ParentsIn(S), NEW e, e.parent = NoParent \/ \E f \in S : f.id = e.parent
    PROVE  ParentsIn(S \cup {e})
  BY DEF ParentsIn

LEMMA ParentsNone == ParentsIn({}) /\ ParentsIn(Range(<<>>))
  BY EmptyIs DEF ParentsIn

\* A step keeps every set of events complete.
LEMMA CompleteStep ==
    ASSUME Typed, SourceInv, RecordedInv, PoolInv, Complete, Staged, InSequence, FinalInv,
           [Next]_vars
    PROVE  Complete'
<1> USE DEF config, appVars, runner, Closed
<1>0. setup' = setup
  BY ConfigStays
<1>1. ASSUME UNCHANGED <<replayed, queue, outbox, rows, sent>>
      PROVE  Complete'
  BY <1>0, <1>1 DEF Complete
<1>2. CASE Open \/ Refuse \/ Gathered \/ FinishRead \/ LinkEvents \/ Compare \/ Abort
  BY <1>1, <1>2 DEF Open, Refuse, Gathered, FinishRead, LinkEvents, Compare, Abort
<1>3. CASE ReplayMock
  <2>1. UNCHANGED <<queue, outbox, rows, sent>> /\ \A q \in Requests : sent[q] = "idle"
    BY <1>3 DEF ReplayMock, InSequence
  <2>2. setup'.target # "http"
    BY <1>0, <1>3 DEF ReplayMock
  <2> QED
    BY <2>1, <2>2 DEF Complete
<1>4. CASE AppendReplayed
  <2>1. status = "recording"
    BY <1>4 DEF AppendReplayed, Staged
  <2>2. \A e \in Range(replayed) : e.seq \in Nat
    BY PoolHas DEF PoolInv, Made
  <2>3. /\ setup.target = "http" => ParentsIn(rows')
        /\ \A e \in rows' : e.seq \in Nat
    BY <1>4, <2>2, ParentsUnion DEF AppendReplayed, Complete
  <2>4. UNCHANGED <<replayed, queue, outbox, sent>>
    BY <1>4 DEF AppendReplayed
  <2> QED
    BY <1>0, <2>3, <2>4 DEF Complete
<1>5. CASE FinishCommit
  <2>1. rows' = Range(final) \cup {e \in rows : \A f \in Range(final) : f.id # e.id}
        /\ UNCHANGED <<replayed, queue, outbox, sent>>
    BY <1>5 DEF FinishCommit
  <2>2. /\ setup.target = "http" => ParentsIn(Range(final))
        /\ \A e \in Range(final) : e.seq \in Nat
    BY <1>5 DEF FinishCommit, FinalInv, Stream, Range
  <2>3. ASSUME setup.target = "http", NEW e \in rows', e.parent # NoParent
        PROVE  \E f \in rows' : f.id = e.parent
    <3>1. CASE e \in Range(final)
      BY <2>1, <2>2, <2>3, <3>1 DEF ParentsIn
    <3>2. CASE e \in rows
      <4>1. PICK f \in rows : f.id = e.parent
        BY <2>3, <3>2 DEF Complete, ParentsIn
      <4> QED
        BY <2>1, <4>1
    <3> QED
      BY <2>1, <3>1, <3>2
  <2>4. \A e \in rows' : e.seq \in Nat
    BY <2>1, <2>2 DEF Complete
  <2> QED
    BY <1>0, <2>1, <2>3, <2>4 DEF Complete, ParentsIn
<1>6. ASSUME NEW q \in Requests, Send(q)
      PROVE  Complete'
  <2>0. PICK e : e = Event("run", q, "http.request", 0, now, sequence, NoParent, "ok")
    OBVIOUS
  <2>1. e.parent = NoParent /\ e.id = RunId(q, "http.request", 0)
    BY <2>0, EventIs DEF Typed, RunId
  <2>2. replayed' = Append(replayed, e) /\ sent' = [sent EXCEPT ![q] = "open"]
        /\ UNCHANGED <<queue, outbox, rows>>
    BY <1>6, <2>0 DEF Send
  <2>3. Range(replayed') = Range(replayed) \cup {e}
    BY <2>2, AppendIs DEF Typed
  <2>4. setup.target = "http" => ParentsIn(Range(replayed'))
    BY <2>1, <2>3, ParentsAdd DEF Complete
  <2>5. \A p \in Requests : sent'[p] # "idle" =>
           \E f \in Range(replayed') : f.id = RunId(p, "http.request", 0)
    BY <2>1, <2>2, <2>3 DEF Complete, Typed
  <2> QED
    BY <1>0, <2>2, <2>4, <2>5 DEF Complete
<1>7. ASSUME NEW q \in Requests, NEW shape, NEW outcome, Receive(q, shape, outcome),
             UNCHANGED <<queue, outbox, rows>>
      PROVE  Complete'
  <2>0. PICK e : e = Event("run", q, "http.response", 0, now, sequence,
                           <<"run", q, "http.request", 0>>, shape)
    OBVIOUS
  <2>1. e.parent = RunId(q, "http.request", 0)
    BY <2>0 DEF Event, RunId
  <2>2. replayed' = Append(replayed, e) /\ sent' = [sent EXCEPT ![q] = outcome]
        /\ sent[q] = "open"
    BY <1>7, <2>0 DEF Receive
  <2>3. Range(replayed') = Range(replayed) \cup {e}
    <3>1. replayed \in Seq(Range(replayed))
      BY DEF Typed
    <3>2. replayed' = Append(replayed, e)
      BY <2>2
    <3> QED
      BY <3>1, <3>2, AppendIs
  <2>4. setup.target = "http" => ParentsIn(Range(replayed'))
    BY <2>1, <2>2, <2>3, ParentsAdd DEF Complete
  <2>5. \A p \in Requests : sent'[p] # "idle" =>
           \E f \in Range(replayed') : f.id = RunId(p, "http.request", 0)
    BY <2>1, <2>2, <2>3 DEF Complete, Typed
  <2> QED
    BY <1>0, <1>7, <2>4, <2>5 DEF Complete
<1>8. ASSUME NEW q \in Requests, Answer(q) \/ GiveUp(q)
      PROVE  Complete'
  BY <1>7, <1>8 DEF Answer, GiveUp
<1>9. ASSUME NEW q \in Requests, Arrive(q) \/ AppRaises(q) \/ IngestAdmit(q) \/ FlushFails(q)
      PROVE  Complete'
  BY <1>1, <1>9 DEF Arrive, AppRaises, IngestAdmit, FlushFails
<1>10. ASSUME NEW q \in Requests, RunSql(q)
       PROVE  Complete'
  <2>1. PICK n, c, e, f : RunsStatement(q, n, c, e, f)
    BY <1>10, RunSqlAre
  <2>2. e.parent = NoParent /\ f.parent = e.id /\ queue' = queue \o <<e, f>>
        /\ UNCHANGED <<sent, replayed, outbox, rows>>
    BY <2>1 DEF RunsStatement, Statement
  <2>3. Range(queue') = (Range(queue) \cup {e}) \cup {f}
    <3>1. Range(queue') = Range(queue) \cup {e, f}
      BY <2>2, QueueTwo
    <3> QED
      BY <3>1
  <2>4. ASSUME setup.target = "http" PROVE ParentsIn(Range(queue'))
    <3>1. ParentsIn(Range(queue) \cup {e})
      BY <2>2, <2>4, ParentsAdd DEF Complete
    <3>2. ParentsIn((Range(queue) \cup {e}) \cup {f})
      BY <2>2, <3>1, ParentsAdd
    <3> QED
      BY <2>3, <3>2
  <2> QED
    BY <1>0, <2>2, <2>4 DEF Complete
<1>11. ASSUME NEW q \in Requests, Respond(q)
       PROVE  Complete'
  <2>1. /\ UNCHANGED <<replayed, rows, sent>>
        /\ outbox' = [outbox EXCEPT ![q] = Range(queue)] /\ queue' = <<>>
    BY <1>11 DEF Respond
  <2>2. setup.target = "http" => \A p \in Requests : ParentsIn(outbox'[p])
    BY <2>1 DEF Complete, Typed
  <2> QED
    BY <1>0, <2>1, <2>2, ParentsNone DEF Complete
<1>12. ASSUME NEW q \in Requests, IngestAppend(q)
       PROVE  Complete'
  <2>1. rows' = rows \cup outbox[q] /\ UNCHANGED <<replayed, queue, outbox, sent>>
    BY <1>12 DEF IngestAppend
  <2>2. \A e \in outbox[q] : e.seq \in Nat
    BY PoolHas DEF PoolInv, Made
  <2>3. setup.target = "http" => ParentsIn(rows')
    BY <2>1, ParentsUnion DEF Complete
  <2> QED
    BY <1>0, <2>1, <2>2, <2>3 DEF Complete
<1>13. CASE UNCHANGED vars
  BY <1>1, <1>13 DEF vars
<1> QED
  BY <1>2, <1>3, <1>4, <1>5, <1>6, <1>8, <1>9, <1>10, <1>11, <1>12, <1>13
     DEF Next, RunnerStep, TargetStep

-----------------------------------------------------------------------------
(* Stages and sequences *)

\* What the runner stores does not have an id twice, if the source was finished.
LEMMA StoresOnce ==
    ASSUME Typed, InSequence, setup.history = "finished"
    PROVE  IsInjective(replayed)
<1>1. CASE setup.target = "mock"
  BY <1>1 DEF InSequence
<1>2. CASE setup.target = "http"
  <2>1. \A k \in DOMAIN replayed : k \in Nat /\ replayed[k].seq = k - 1
    <3>1. DOMAIN replayed = 1 .. Len(replayed)
      BY DEF Typed
    <3> QED
      BY <1>2, <3>1 DEF InSequence
  <2> QED
    BY <2>1 DEF IsInjective
<1> QED
  BY <1>1, <1>2, ReplayAssumption DEF Typed

LEMMA StagedStep ==
    ASSUME Typed, Typed', Staged, InSequence, [Next]_vars
    PROVE  Staged'
<1> USE DEF config, appVars, runner
<1>0. setup' = setup /\ source' = source /\ Resent' = Resent
  BY ConfigStays DEF Resent
<1>1. ASSUME UNCHANGED <<setup, source, run, sent, replayed, status, results>>,
             faulted => faulted',
             run = "called" => rows' = rows,
             \A q \in Requests : app'[q] # "idle" => app[q] # "idle" \/ sent[q] # "idle"
      PROVE  Staged'
  BY <1>0, <1>1 DEF Staged
<1>2. CASE Open
  BY <1>0, <1>2 DEF Open, Staged
<1>3. CASE Refuse
  BY <1>0, <1>3 DEF Refuse, Staged
<1>4. CASE ReplayMock
  BY <1>0, <1>4 DEF ReplayMock, Staged
<1>5. CASE Gathered
  BY <1>0, <1>5 DEF Gathered, Staged
<1>6. CASE AppendReplayed
  <2>1. ~ IsInjective(replayed) => ~ setup.history = "finished"
    BY StoresOnce
  <2> QED
    BY <1>0, <1>6, <2>1 DEF AppendReplayed, Staged
<1>7. CASE FinishRead
  BY <1>0, <1>7 DEF FinishRead, Staged
<1>8. CASE FinishCommit
  BY <1>0, <1>8 DEF FinishCommit, Staged
<1>9. CASE LinkEvents
  BY <1>0, <1>9 DEF LinkEvents, Staged
<1>10. CASE Compare
  BY <1>0, <1>10 DEF Compare, Staged
<1>11. CASE Abort
  BY <1>0, <1>11 DEF Abort, Staged
<1>12. ASSUME NEW q \in Requests, Send(q)
       PROVE  Staged'
  <2>1. sent'[q] # "idle" /\ \A p \in Requests : p # q => sent'[p] = sent[p]
    BY <1>12 DEF Send, Typed
  <2> QED
    BY <1>0, <1>12, <2>1 DEF Send, Staged
<1>13. ASSUME NEW q \in Requests, NEW shape, NEW outcome \in {"answered", "failed"},
              Receive(q, shape, outcome),
              UNCHANGED <<config, run, app, rows, status, results>>,
              faulted => faulted'
       PROVE  Staged'
  <2>1. sent'[q] # "idle" /\ \A p \in Requests : p # q => sent'[p] = sent[p]
    BY <1>13 DEF Receive, Typed
  <2> QED
    BY <1>0, <1>13, <2>1 DEF Receive, Staged
<1>14. ASSUME NEW q \in Requests, Answer(q)
       PROVE  Staged'
  BY <1>13, <1>14 DEF Answer
<1>15. ASSUME NEW q \in Requests, GiveUp(q)
       PROVE  Staged'
  BY <1>13, <1>15 DEF GiveUp
<1>16. ASSUME NEW q \in Requests, NEW a, app[q] # "idle" \/ sent[q] # "idle",
              app' = [app EXCEPT ![q] = a] \/ app' = app,
              UNCHANGED <<setup, source, run, sent, replayed, status, results>>,
              faulted => faulted',
              (rows' = rows) \/ app[q] = "admitted"
       PROVE  Staged'
  <2>1. \A p \in Requests : app'[p] # "idle" => app[p] # "idle" \/ sent[p] # "idle"
    BY <1>16 DEF Typed
  <2>2. run = "called" => rows' = rows
    BY <1>16 DEF Staged
  <2> QED
    BY <1>1, <1>16, <2>1, <2>2
<1>17. ASSUME NEW q \in Requests, TargetStep(q)
       PROVE  Staged'
  <2>1. CASE Arrive(q)
    BY <1>16, <2>1 DEF Arrive
  <2>2. CASE RunSql(q)
    BY <1>16, <2>2 DEF RunSql
  <2>3. CASE Respond(q)
    BY <1>16, <2>3 DEF Respond
  <2>4. CASE AppRaises(q)
    BY <1>16, <2>4 DEF AppRaises
  <2>5. CASE IngestAdmit(q)
    BY <1>16, <2>5 DEF IngestAdmit
  <2>6. CASE IngestAppend(q)
    BY <1>16, <2>6 DEF IngestAppend
  <2>7. CASE FlushFails(q)
    BY <1>16, <2>7 DEF FlushFails
  <2> QED
    BY <1>17, <2>1, <2>2, <2>3, <2>4, <2>5, <2>6, <2>7 DEF TargetStep
<1>18. CASE UNCHANGED vars
  BY <1>0, <1>18 DEF vars, Staged
<1> QED
  BY <1>2, <1>3, <1>4, <1>5, <1>6, <1>7, <1>8, <1>9, <1>10, <1>11, <1>12, <1>14, <1>15, <1>17,
     <1>18 DEF Next, RunnerStep

LEMMA InSequenceStep ==
    ASSUME Typed, Typed', SourceInv, Staged, InSequence, [Next]_vars
    PROVE  InSequence'
<1> USE DEF config, appVars, runner
<1>0. setup' = setup /\ source' = source
  BY ConfigStays
<1>1. ASSUME UNCHANGED <<replayed, sequence, sent, app, outbox, queue>>,
             run' = "replaying" => run = "replaying" /\ rows' = rows
      PROVE  InSequence'
  BY <1>0, <1>1 DEF InSequence
<1>2. CASE Open
  <2>1. replayed = <<>> /\ rows = {}
    BY <1>2 DEF Open, Staged
  <2> QED
    BY <1>0, <1>2, <2>1 DEF Open, InSequence
<1>3. CASE ReplayMock
  <2>1. PICK a \in Nat :
           /\ MockStandIns = [i \in 1 .. a |-> MockStandIns[i]]
           /\ \A i \in 1 .. a : MockStandIns[i] \in DOMAIN Canonical
           /\ setup.history = "finished" =>
                 \A i, j \in 1 .. a : MockStandIns[i] = MockStandIns[j] => i = j
    BY MockIs
  <2>2. replayed' = [i \in 1 .. a |-> CanonicalEvent(MockStandIns[i])]
    BY <1>3, <2>1 DEF ReplayMock
  <2>3. ASSUME setup.history = "finished"
        PROVE  IsInjective(replayed')
    <3>1. DOMAIN replayed' = 1 .. a
          /\ \A i \in 1 .. a : replayed'[i] = CanonicalEvent(MockStandIns[i])
      BY <2>2
    <3>2. \A i \in 1 .. a : replayed'[i].id[4] = MockStandIns[i]
      BY <2>1, <3>1, CanonicalIs
    <3> QED
      BY <2>1, <2>3, <3>1, <3>2 DEF IsInjective
  <2> QED
    BY <1>0, <1>3, <2>3 DEF ReplayMock, InSequence
<1>4. CASE Refuse \/ Gathered \/ AppendReplayed \/ FinishRead \/ FinishCommit \/ LinkEvents
           \/ Compare \/ Abort
  BY <1>1, <1>4 DEF Refuse, Gathered, AppendReplayed, FinishRead, FinishCommit, LinkEvents,
                    Compare, Abort
<1>5. ASSUME NEW e, setup.target = "http", replayed' = Append(replayed, e),
             sequence' = sequence + 1, e.seq = sequence
      PROVE  InSequence'
  <2>1. /\ Len(replayed) \in Nat /\ Len(replayed') = Len(replayed) + 1
        /\ DOMAIN replayed' = 1 .. Len(replayed) + 1 /\ DOMAIN replayed = 1 .. Len(replayed)
        /\ \A k \in 1 .. Len(replayed) : replayed'[k] = replayed[k]
        /\ replayed'[Len(replayed) + 1] = e
    <3>1. replayed \in Seq(Range(replayed))
      BY DEF Typed
    <3> QED
      BY <1>5, <3>1, AppendIs
  <2>2. sequence = Len(replayed) /\ \A k \in DOMAIN replayed : replayed[k].seq = k - 1
    BY <1>5 DEF InSequence
  <2>3. sequence' = Len(replayed')
    BY <1>5, <2>1, <2>2
  <2>4. \A k \in DOMAIN replayed' : replayed'[k].seq = k - 1
    BY <1>5, <2>1, <2>2
  <2> QED
    BY <1>0, <1>5, <2>3, <2>4 DEF InSequence
<1>6. ASSUME NEW q \in Requests, Send(q)
      PROVE  InSequence'
  <2>1. PICK e : e = Event("run", q, "http.request", 0, now, sequence, NoParent, "ok")
    OBVIOUS
  <2>2. e.seq = sequence
    BY <2>1 DEF Event
  <2> QED
    BY <1>5, <1>6, <2>1, <2>2 DEF Send
<1>7. ASSUME NEW q \in Requests, NEW shape, NEW outcome, Receive(q, shape, outcome)
      PROVE  InSequence'
  <2>1. PICK e : e = Event("run", q, "http.response", 0, now, sequence,
                           <<"run", q, "http.request", 0>>, shape)
    OBVIOUS
  <2>2. e.seq = sequence
    BY <2>1 DEF Event
  <2>3. setup.target = "http" /\ replayed' = Append(replayed, e) /\ sequence' = sequence + 1
    BY <1>7, <2>1, Http DEF Receive
  <2> QED
    BY <1>5, <2>2, <2>3
<1>8. ASSUME NEW q \in Requests, Answer(q) \/ GiveUp(q)
      PROVE  InSequence'
  BY <1>7, <1>8 DEF Answer, GiveUp
<1>9. ASSUME NEW q \in Requests, TargetStep(q)
      PROVE  InSequence'
  <2>1. UNCHANGED <<replayed, sequence>> /\ (sent[q] # "idle" \/ app[q] # "idle")
    BY <1>9 DEF TargetStep, Arrive, RunSql, Respond, AppRaises, IngestAdmit, IngestAppend,
                FlushFails
  <2>2. setup.target = "http"
    BY <2>1, Http
  <2> QED
    BY <1>0, <2>1, <2>2 DEF InSequence
<1>10. CASE UNCHANGED vars
  BY <1>1, <1>10 DEF vars
<1> QED
  BY <1>2, <1>3, <1>4, <1>6, <1>8, <1>9, <1>10 DEF Next, RunnerStep

-----------------------------------------------------------------------------
(* What finish_recording reads *)

\* C is S in the order of from, numbered; it has its parents if S does.
FinishedAs(C, from, S) ==
    /\ Arranged(from, S) /\ Stream(C, Cardinality(S))
    /\ ParentsIn(S) => ParentsIn(Range(C))
    /\ \A k \in 1 .. Cardinality(S) :
          /\ from[k] \in S /\ C[k].seq = k - 1
          /\ C[k].id = from[k].id /\ C[k].type = from[k].type /\ C[k].corr = from[k].corr
          /\ C[k].ts = from[k].ts
          /\ "payload" \in DOMAIN from[k] => C[k].payload = from[k].payload

LEMMA CorrelatedFinishes ==
    ASSUME NEW S, IsFiniteSet(S), \A e \in S : Row(e), Unmixed(S),
           NEW s \in RowOrders(S), NEW C, C = Correlated(s)
    PROVE  \E from : FinishedAs(C, from, S)
<1> DEFINE m == Cardinality(S)
<1>0. m \in Nat
  BY FS_CardinalityType
<1>1. Enumerates(s, S)
  <2>1. \A e, f \in S : e.seq = f.seq /\ (IsHttp(e) <=> IsHttp(f)) => e = f
    BY DEF Unmixed
  <2> QED
    BY <2>1, RowOrdersEnumerate
<1>2. PICK from : Arranged(from, S) /\ C = Numbered(from, m)
  BY <1>1, CorrelatedIs
<1>3. \A k \in 1 .. m : Becomes(from[k], ParentAt(from, m, k), k - 1, C[k])
  BY <1>2, NumberedEnumerates
<1>4. DOMAIN C = 1 .. m
  BY <1>2 DEF Numbered
<1>5. /\ from \in [1 .. m -> S] /\ \A j, k \in 1 .. m : from[j] = from[k] => j = k
      /\ \A x \in S : \E k \in 1 .. m : from[k] = x
  BY <1>2 DEF Arranged, Enumerates
<1> HIDE DEF m
<1>6. ASSUME NEW k \in 1 .. m
      PROVE  /\ from[k] \in S /\ C[k].seq = k - 1
             /\ C[k].id = from[k].id /\ C[k].type = from[k].type /\ C[k].corr = from[k].corr
             /\ C[k].ts = from[k].ts
             /\ "payload" \in DOMAIN from[k] => C[k].payload = from[k].payload
             /\ C[k].parent = (IF from[k].parent # NoParent THEN from[k].parent
                               ELSE ParentAt(from, m, k))
  BY <1>3, <1>5 DEF Becomes
<1>7. Stream(C, m)
  <2>1. \A k \in 1 .. m : k \in Int /\ C[k].seq \in Int
    BY <1>0, <1>6
  <2>2. ASSUME NEW j \in 1 .. m, NEW k \in 1 .. m, C[j].id = C[k].id
        PROVE  j = k
    <3>1. from[j] \in S /\ from[k] \in S /\ from[j].id = from[k].id
      BY <1>6, <2>2
    <3>2. from[j] = from[k]
      BY <3>1 DEF Unmixed
    <3> QED
      BY <1>5, <3>2
  <2> QED
    BY <1>0, <1>4, <2>1, <2>2 DEF Stream
<1>8. ASSUME ParentsIn(S), NEW k \in 1 .. m, C[k].parent # NoParent
      PROVE  \E j \in 1 .. m : C[j].id = C[k].parent
  <2>1. \E e \in S : e.id = C[k].parent
    <3>1. CASE from[k].parent # NoParent
      BY <1>6, <1>8, <3>1 DEF ParentsIn
    <3>2. CASE from[k].parent = NoParent
      <4>1. ParentAt(from, m, k) \in {NoParent} \cup {from[j].id : j \in 1 .. m}
        BY <1>0, ParentAtKnown
      <4> QED
        BY <1>6, <1>8, <3>2, <4>1
    <3> QED
      BY <3>1, <3>2
  <2>2. PICK j \in 1 .. m : from[j].id = C[k].parent
    BY <1>5, <2>1
  <2> QED
    BY <1>6, <2>2
<1>9. ParentsIn(S) => ParentsIn(Range(C))
  <2>1. \A k \in 1 .. m : C[k] \in Range(C)
    BY <1>4 DEF Range
  <2>2. \A e \in Range(C) : \E k \in 1 .. m : e = C[k]
    BY <1>4 DEF Range
  <2> QED
    BY <1>8, <2>1, <2>2 DEF ParentsIn
<1> QED
  BY <1>2, <1>6, <1>7, <1>9 DEF FinishedAs, m

\* While the row is recording, its events are as they were made.
LEMMA RowsMade ==
    ASSUME PoolInv, status # "completed"
    PROVE  Unmixed(rows) /\ \A e \in rows : Made(e) /\ Row(e)
<1>1. rows \subseteq Pool
  BY PoolHas
<1> QED
  BY <1>1 DEF PoolInv, Unmixed, Made

LEMMA FinishReads ==
    ASSUME Typed, PoolInv, Complete, Staged, FinishRead
    PROVE  \E from : FinishedAs(final', from, rows)
<1>1. status # "completed"
  BY DEF FinishRead, Staged
<1>2. PICK order \in RowOrders(rows) : final' = Correlated(order)
  BY DEF FinishRead
<1> QED
  BY <1>1, <1>2, RowsMade, CorrelatedFinishes DEF Typed, Complete

LEMMA FinalStep ==
    ASSUME Typed, PoolInv, Complete, Staged, FinalInv, [Next]_vars
    PROVE  FinalInv'
<1> USE DEF config, appVars, runner
<1>0. setup' = setup /\ source' = source
  BY ConfigStays
<1>1. CASE FinishRead
  <2>1. PICK from : FinishedAs(final', from, rows)
    BY <1>1, FinishReads
  <2>2. \A e \in rows : Made(e)
    BY <1>1, RowsMade DEF FinishRead, Staged
  <2>3. ASSUME NEW e \in rows
        PROVE  e.id # None /\ (setup.target = "http" => e.id[3] = e.type)
    <3>1. CASE setup.target = "mock" /\ \E k \in DOMAIN Canonical : e = CanonicalEvent(k)
      BY <3>1, CanonicalIs DEF None
    <3>2. CASE setup.target = "http" /\ \E q \in Requests : MadeFor(e, q)
      BY <3>2 DEF MadeFor, RunId, None
    <3> QED
      BY <2>2, <3>1, <3>2 DEF Made
  <2> DEFINE m == Cardinality(rows)
  <2>4. m \in Nat
    BY FS_CardinalityType DEF Typed
  <2>5. /\ Stream(final', m)
        /\ setup.target = "http" => ParentsIn(Range(final'))
        /\ \A k \in 1 .. m : /\ final'[k].seq = k - 1 /\ final'[k].id # None
                             /\ setup.target = "http" => final'[k].id[3] = final'[k].type
    BY <2>1, <2>3 DEF FinishedAs, Complete, Closed
  <2> HIDE DEF m
  <2> QED
    BY <1>0, <1>1, <2>4, <2>5 DEF FinishRead, FinalInv, Stream, ParentsIn
<1>2. CASE FinishCommit
  BY <1>0, <1>2 DEF FinishCommit, FinalInv, Stream, ParentsIn
<1>3. CASE LinkEvents
  BY <1>0, <1>3 DEF LinkEvents, FinalInv, Stream, ParentsIn
<1>4. CASE Compare
  BY <1>0, <1>4 DEF Compare, FinalInv, Stream, ParentsIn
<1>5. CASE Open \/ Refuse \/ ReplayMock \/ Gathered \/ AppendReplayed \/ Abort
  BY <1>5 DEF Open, Refuse, ReplayMock, Gathered, AppendReplayed, Abort, FinalInv
<1>6. ASSUME UNCHANGED <<run, final, links, results>>
      PROVE  FinalInv'
  BY <1>0, <1>6 DEF FinalInv, Stream, ParentsIn
<1>7. ASSUME NEW q \in Requests, Send(q) \/ Answer(q) \/ GiveUp(q)
      PROVE  FinalInv'
  BY <1>6, <1>7 DEF Send, Answer, GiveUp
<1>8. ASSUME NEW q \in Requests, TargetStep(q)
      PROVE  FinalInv'
  BY <1>6, <1>8 DEF TargetStep, Arrive, RunSql, Respond, AppRaises, IngestAdmit, IngestAppend,
                    FlushFails
<1>9. CASE UNCHANGED vars
  BY <1>6, <1>9 DEF vars
<1> QED
  BY <1>1, <1>2, <1>3, <1>4, <1>5, <1>7, <1>8, <1>9 DEF Next, RunnerStep

-----------------------------------------------------------------------------
(* Where the statements are *)

Waits(q, s, a, stage) ==
    /\ a # "raised" /\ s # "failed"
    /\ s = "answered" => a = "replied"
    /\ s = "open" => stage = "replaying"
    /\ a \in {"running", "posting", "admitted"} => stage = "replaying"

Read(stage) == stage \in {"completing", "linking", "comparing", "done"}

LEMMA WhereaboutsStep ==
    ASSUME Typed, Typed', RecordedInv, PoolInv, Complete, Staged, InSequence, Whereabouts,
           [Next]_vars
    PROVE  Whereabouts'
<1> USE DEF config, appVars, runner
<1>0. setup' = setup /\ source' = source
  BY ConfigStays
<1> SUFFICES ASSUME setup.target = "http", ~ faulted'
             PROVE  \A r \in Requests :
                       /\ Waits(r, sent'[r], app'[r], run')
                       /\ \A n \in 1 .. ran'[r] :
                             IF Read(run') THEN HasResult(Range(final'), r, n)
                             ELSE OnItsWay(r, n)'
  BY <1>0 DEF Whereabouts, Waits, Read
<1>1. CASE faulted
  BY <1>1 DEF Next, RunnerStep, TargetStep, Open, Refuse, ReplayMock, Gathered, AppendReplayed,
              FinishRead, FinishCommit, LinkEvents, Compare, Abort, Send, Answer, GiveUp,
              Arrive, RunSql, Respond, AppRaises, IngestAdmit, IngestAppend, FlushFails, vars
<1>2. CASE ~ faulted
  <2>1. \A r \in Requests :
           /\ Waits(r, sent[r], app[r], run)
           /\ \A n \in 1 .. ran[r] : IF Read(run) THEN HasResult(Range(final), r, n)
                                     ELSE OnItsWay(r, n)
    BY <1>2 DEF Whereabouts, Waits, Read
  <2> DEFINE Goal == \A r \in Requests :
                        /\ Waits(r, sent'[r], app'[r], run')
                        /\ \A n \in 1 .. ran'[r] :
                              IF Read(run') THEN HasResult(Range(final'), r, n)
                              ELSE OnItsWay(r, n)'
  <2>2. CASE Open
    BY <2>1, <2>2 DEF Open, Waits, Read, OnItsWay, Staged
  <2>3. CASE Refuse
    <3>1. \A r \in Requests : sent[r] = "idle" /\ app[r] = "idle"
      <4>1. Resent = {}
        BY <2>3, EmptyIs DEF Refuse, Resent
      <4> QED
        BY <4>1 DEF Staged, Typed
    <3> QED
      BY <2>1, <2>3, <3>1 DEF Refuse, Waits, Read, OnItsWay
  <2>4. CASE ReplayMock
    BY <2>4 DEF ReplayMock
  <2>5. ASSUME UNCHANGED <<ran, sent, app, queue, outbox>>, rows \subseteq rows',
               ~ Read(run), ~ Read(run'),
               \A r \in Requests : sent[r] \in {"idle", "answered"}
        PROVE  Goal
    <3>1. \A r \in Requests : Waits(r, sent'[r], app'[r], run')
      BY <2>1, <2>5 DEF Waits, Staged
    <3>2. ASSUME NEW r \in Requests, NEW n \in 1 .. ran[r]
          PROVE  OnItsWay(r, n)'
      <4>1. OnItsWay(r, n)
        BY <2>1, <2>5
      <4> QED
        BY <2>5, <4>1 DEF OnItsWay, HasResult
    <3> QED
      BY <2>5, <3>1, <3>2
  <2>6. CASE Gathered
    <3>1. \A r \in Requests : sent[r] \in {"idle", "answered"}
      BY <2>1, <2>6 DEF Gathered, Answered, Waits, Staged
    <3> QED
      BY <2>5, <2>6, <3>1 DEF Gathered, Read
  <2>7. CASE AppendReplayed
    <3>1. \A r \in Requests : sent[r] \in {"idle", "answered"}
      BY <2>1, <2>7 DEF AppendReplayed, Waits, Typed
    <3> QED
      BY <2>5, <2>7, <3>1 DEF AppendReplayed, Read
  <2>8. CASE FinishRead
    <3>1. \A r \in Requests : /\ sent[r] # "open"
                              /\ app[r] \notin {"running", "posting", "admitted"}
      BY <2>1, <2>8 DEF FinishRead, Waits
    <3>2. PICK from : FinishedAs(final', from, rows)
      BY <2>8, FinishReads
    <3>3. ASSUME NEW r \in Requests, NEW n \in 1 .. ran[r]
          PROVE  HasResult(Range(final'), r, n)
      <4>1. OnItsWay(r, n)
        BY <2>1, <2>8 DEF FinishRead, Read
      <4>2. HasResult(rows, r, n)
        BY <3>1, <4>1 DEF OnItsWay
      <4>3. PICK e \in rows : e.id = RunId(r, "postgres.result", n)
        BY <4>2 DEF HasResult
      <4>4. PICK k \in 1 .. Cardinality(rows) : from[k] = e
        BY <3>2 DEF FinishedAs, Arranged, Enumerates
      <4>5. final'[k] \in Range(final') /\ final'[k].id = e.id
        BY <3>2, <4>4 DEF FinishedAs, Stream, Range
      <4> QED
        BY <4>3, <4>5 DEF HasResult
    <3>4. \A r \in Requests : Waits(r, sent'[r], app'[r], run')
      BY <2>1, <2>8, <3>1 DEF FinishRead, Waits
    <3> QED
      BY <2>8, <3>3, <3>4 DEF FinishRead, Read
  <2>9. CASE FinishCommit \/ LinkEvents \/ Compare
    <3>1. Read(run) /\ Read(run') /\ UNCHANGED <<ran, sent, app, final>>
      BY <2>9 DEF FinishCommit, LinkEvents, Compare, Read
    <3>2. \A r \in Requests : Waits(r, sent'[r], app'[r], run')
      BY <2>1, <3>1 DEF Waits, Read
    <3> QED
      BY <2>1, <3>1, <3>2
  <2>10. CASE Abort
    BY <2>10 DEF Abort
  <2>11. ASSUME UNCHANGED <<run, ran, app, queue, outbox, rows, final>>,
                \A r \in Requests : Waits(r, sent'[r], app[r], run)
         PROVE  Goal
    BY <2>1, <2>11 DEF OnItsWay
  <2>12. ASSUME NEW q \in Requests, Send(q)
         PROVE  Goal
    <3>1. \A r \in Requests : Waits(r, sent'[r], app[r], run)
      BY <2>1, <2>12 DEF Send, Waits, Typed
    <3> QED
      BY <2>11, <2>12, <3>1 DEF Send
  <2>13. ASSUME NEW q \in Requests, Answer(q)
         PROVE  Goal
    <3>1. \A r \in Requests : Waits(r, sent'[r], app[r], run)
      BY <2>1, <2>13 DEF Answer, Receive, Waits, Typed
    <3> QED
      BY <2>11, <2>13, <3>1 DEF Answer, Receive
  <2>14. ASSUME NEW q \in Requests, GiveUp(q) \/ AppRaises(q) \/ FlushFails(q)
         PROVE  Goal
    BY <2>14 DEF GiveUp, AppRaises, FlushFails
  <2>15. ASSUME NEW q \in Requests, NEW a, UNCHANGED <<run, sent, final>>,
                app' = [app EXCEPT ![q] = a], Waits(q, sent[q], a, run),
                \A r \in Requests : \A n \in 1 .. ran'[r] : ~ Read(run) => OnItsWay(r, n)',
                Read(run) => ran' = ran
         PROVE  Goal
    <3>1. \A r \in Requests : Waits(r, sent'[r], app'[r], run')
      BY <2>1, <2>15 DEF Typed
    <3> QED
      BY <2>1, <2>15, <3>1
  <2>16. ASSUME NEW q \in Requests, Arrive(q)
         PROVE  Goal
    <3>1. app' = [app EXCEPT ![q] = "running"] /\ app[q] = "idle" /\ sent[q] # "idle"
          /\ UNCHANGED <<run, sent, final, ran, queue, outbox, rows>>
      BY <2>16 DEF Arrive
    <3>2. run = "replaying"
      BY <2>1, <3>1 DEF Waits, Typed
    <3>3. Waits(q, sent[q], "running", run)
      BY <2>1, <3>1, <3>2 DEF Waits
    <3>4. \A r \in Requests : \A n \in 1 .. ran[r] : OnItsWay(r, n)
      BY <2>1, <3>2 DEF Read
    <3>5. ASSUME NEW r \in Requests, NEW n \in 1 .. ran[r]
          PROVE  OnItsWay(r, n)'
      <4>1. app[r] = "running" => app'[r] = "running"
        BY <3>1 DEF Typed
      <4>2. \A p \in Requests : app[p] \in {"posting", "admitted"} => app'[p] = app[p]
        BY <3>1 DEF Typed
      <4>3. OnItsWay(r, n)
        BY <3>4
      <4> QED
        BY <3>1, <4>1, <4>2, <4>3 DEF OnItsWay, HasResult
    <3> QED
      BY <2>15, <3>1, <3>3, <3>5
  <2>17. ASSUME NEW q \in Requests, RunSql(q)
         PROVE  Goal
    <3>0. app[q] = "running"
      BY <2>17 DEF RunSql
    <3>1. PICK n, c, e, f : RunsStatement(q, n, c, e, f)
      BY <2>17, RunSqlAre
    <3>2. /\ app[q] = "running" /\ n = ran[q] + 1 /\ n \in 1 .. MaxSql
          /\ f.id = RunId(q, "postgres.result", n)
          /\ queue' = queue \o <<e, f>> /\ ran' = [ran EXCEPT ![q] = @ + 1]
          /\ UNCHANGED <<run, sent, app, outbox, rows, final>>
      BY <3>0, <3>1 DEF RunsStatement, Statement
    <3>3. Range(queue') = Range(queue) \cup {e, f}
      BY <3>2, QueueTwo
    <3>4. run = "replaying" /\ ~ Read(run)
      BY <2>1, <3>2 DEF Waits, Read
    <3>5. ASSUME NEW r \in Requests, NEW k \in 1 .. ran'[r]
          PROVE  OnItsWay(r, k)'
      <4>1. CASE k \in 1 .. ran[r]
        <5>1. OnItsWay(r, k)
          BY <2>1, <3>4, <4>1
        <5> QED
          BY <3>2, <3>3, <5>1 DEF OnItsWay, HasResult
      <4>2. CASE k \notin 1 .. ran[r]
        <5>1. r = q /\ k = n
          <6>1. r # q => ran'[r] = ran[r]
            BY <3>2 DEF Typed
          <6>2. ran'[q] = n /\ ran[q] \in Nat /\ n = ran[q] + 1
            BY <3>2, ReplayAssumption DEF Typed
          <6> QED
            BY <4>2, <6>1, <6>2
        <5> QED
          BY <3>2, <3>3, <5>1 DEF OnItsWay, HasResult
      <4> QED
        BY <4>1, <4>2
    <3>6. \A r \in Requests : Waits(r, sent'[r], app'[r], run')
      BY <2>1, <3>2
    <3> QED
      BY <3>2, <3>4, <3>5, <3>6
  <2>18. ASSUME NEW q \in Requests, Respond(q)
         PROVE  Goal
    <3> DEFINE a == IF queue = <<>> THEN "replied" ELSE "posting"
    <3>1. /\ app[q] = "running" /\ app' = [app EXCEPT ![q] = a]
          /\ outbox' = [outbox EXCEPT ![q] = Range(queue)] /\ queue' = <<>>
          /\ UNCHANGED <<run, sent, final, ran, rows>>
      BY <2>18 DEF Respond
    <3>2. run = "replaying" /\ Waits(q, sent[q], a, run)
      BY <2>1, <3>1 DEF Waits
    <3>3. ASSUME NEW r \in Requests, NEW n \in 1 .. ran[r]
          PROVE  OnItsWay(r, n)'
      <4>1. OnItsWay(r, n)
        BY <2>1, <3>2 DEF Read
      <4>2. CASE HasResult(Range(queue), r, n)
        <5>1. queue # <<>>
          BY <4>2, EmptyIs DEF HasResult
        <5>2. app'[q] = "posting" /\ outbox'[q] = Range(queue)
          BY <3>1, <5>1 DEF Typed
        <5>3. HasResult(outbox'[q], r, n)
          BY <4>2, <5>2
        <5> QED
          BY <5>2, <5>3 DEF OnItsWay
      <4>3. CASE HasResult(rows, r, n)
        BY <3>1, <4>3 DEF OnItsWay
      <4>4. ASSUME NEW p \in Requests, app[p] \in {"posting", "admitted"},
                   HasResult(outbox[p], r, n)
            PROVE  OnItsWay(r, n)'
        <5>1. app'[p] = app[p] /\ outbox'[p] = outbox[p]
          BY <3>1, <4>4 DEF Typed
        <5> QED
          BY <4>4, <5>1 DEF OnItsWay
      <4> QED
        BY <4>1, <4>2, <4>3, <4>4 DEF OnItsWay
    <3> HIDE DEF a
    <3> QED
      BY <2>15, <3>1, <3>2, <3>3
  <2>19. ASSUME NEW q \in Requests, IngestAdmit(q)
         PROVE  Goal
    <3>1. run = "replaying" /\ status = "recording"
      BY <2>1, <2>19 DEF IngestAdmit, Waits, Staged
    <3>2. /\ app[q] = "posting" /\ app' = [app EXCEPT ![q] = "admitted"]
          /\ UNCHANGED <<run, sent, final, ran, queue, outbox, rows>>
      BY <2>19, <3>1 DEF IngestAdmit
    <3>3. Waits(q, sent[q], "admitted", run)
      BY <2>1, <3>1, <3>2 DEF Waits
    <3>4. ASSUME NEW r \in Requests, NEW n \in 1 .. ran[r]
          PROVE  OnItsWay(r, n)'
      <4>1. OnItsWay(r, n)
        BY <2>1, <3>1 DEF Read
      <4> QED
        BY <3>2, <4>1 DEF OnItsWay, Typed
    <3> QED
      BY <2>15, <3>2, <3>3, <3>4
  <2>20. ASSUME NEW q \in Requests, IngestAppend(q)
         PROVE  Goal
    <3>1. /\ app[q] = "admitted" /\ app' = [app EXCEPT ![q] = "replied"]
          /\ rows' = rows \cup outbox[q]
          /\ UNCHANGED <<run, sent, final, ran, queue, outbox>>
      BY <2>20 DEF IngestAppend
    <3>2. run = "replaying" /\ Waits(q, sent[q], "replied", run)
      BY <2>1, <3>1 DEF Waits
    <3>3. ASSUME NEW r \in Requests, NEW n \in 1 .. ran[r]
          PROVE  OnItsWay(r, n)'
      <4>1. OnItsWay(r, n)
        BY <2>1, <3>2 DEF Read
      <4>2. CASE HasResult(rows, r, n) \/ HasResult(outbox[q], r, n)
        BY <3>1, <4>2 DEF OnItsWay, HasResult
      <4>3. CASE app[r] = "running" /\ HasResult(Range(queue), r, n)
        BY <3>1, <4>3 DEF OnItsWay, Typed
      <4>4. ASSUME NEW p \in Requests, p # q, app[p] \in {"posting", "admitted"},
                   HasResult(outbox[p], r, n)
            PROVE  OnItsWay(r, n)'
        BY <3>1, <4>4 DEF OnItsWay, Typed
      <4> QED
        BY <4>1, <4>2, <4>3, <4>4 DEF OnItsWay
    <3> QED
      BY <2>15, <3>1, <3>2, <3>3
  <2>21. CASE UNCHANGED vars
    BY <2>1, <2>21 DEF vars, OnItsWay
  <2> QED
    BY <2>2, <2>3, <2>4, <2>6, <2>7, <2>8, <2>9, <2>10, <2>12, <2>13, <2>14, <2>16, <2>17,
       <2>18, <2>19, <2>20, <2>21 DEF Next, RunnerStep, TargetStep
<1> QED
  BY <1>1, <1>2

-----------------------------------------------------------------------------
(* The source *)

\* The statements of a source, the last request's first; their places.
Recording(c) == {p \in Requests \X (1 .. MaxSql) : p[2] <= c[p[1]]}

Later(c) ==
    {x \in Recording(c) \X Recording(c) :
        x[1][1] > x[2][1] \/ (x[1][1] = x[2][1] /\ x[1][2] <= x[2][2])}

Earlier(c, q) ==
    Cardinality({p \in Requests \X (1 .. MaxSql) : p[1] > q /\ p[2] <= c[p[1]]})

Place(c, q, n) == Earlier(c, q) + n

LEMMA PlacesCount ==
    ASSUME NEW c \in [Requests -> 0 .. MaxSql]
    PROVE  /\ \A p \in Recording(c) : Place(c, p[1], p[2]) \in Nat \ {0}
           /\ \A p, r \in Recording(c) : Place(c, p[1], p[2]) = Place(c, r[1], r[2]) => p = r
           /\ \A p \in Recording(c) : \A k \in 1 .. Place(c, p[1], p[2]) :
                 \E r \in Recording(c) : Place(c, r[1], r[2]) = k
<1> DEFINE P == Recording(c)
           R == Later(c)
           rank == [x \in P |-> Cardinality(UpTo(R, P, x))]
<1>1. IsFiniteSet(P)
  BY StatementsFinite DEF Recording
<1>2. \A p \in P : /\ p = <<p[1], p[2]>> /\ p[1] \in Nat /\ p[2] \in Nat \ {0}
                   /\ p[1] \in Requests /\ p[2] \in 1 .. c[p[1]] /\ c[p[1]] \in 0 .. MaxSql
  BY ReplayAssumption DEF Recording, Requests
<1>3. \A p, r \in P : <<p, r>> \in R <=> p[1] > r[1] \/ (p[1] = r[1] /\ p[2] <= r[2])
  BY DEF Later
<1>4. TotalOrder(R, P)
  <2>1. \A p \in P : <<p, p>> \in R
    BY <1>2, <1>3
  <2>2. \A p, r \in P : <<p, r>> \in R \/ <<r, p>> \in R
    <3> SUFFICES ASSUME NEW p \in P, NEW r \in P PROVE <<p, r>> \in R \/ <<r, p>> \in R
      OBVIOUS
    <3>1. p[1] \in Nat /\ p[2] \in Nat /\ r[1] \in Nat /\ r[2] \in Nat
      BY <1>2
    <3> QED
      BY <1>3, <3>1
  <2>3. \A p, r \in P : <<p, r>> \in R /\ <<r, p>> \in R => p = r
    <3> SUFFICES ASSUME NEW p \in P, NEW r \in P, <<p, r>> \in R, <<r, p>> \in R
                 PROVE  p = r
      OBVIOUS
    <3>1. p[1] = r[1] /\ p[2] = r[2]
      BY <1>2, <1>3
    <3> QED
      BY <1>2, <3>1
  <2>4. \A p, r, t \in P : <<p, r>> \in R /\ <<r, t>> \in R => <<p, t>> \in R
    <3> SUFFICES ASSUME NEW p \in P, NEW r \in P, NEW t \in P, <<p, r>> \in R, <<r, t>> \in R
                 PROVE  <<p, t>> \in R
      OBVIOUS
    <3>1. p[1] \in Nat /\ p[2] \in Nat /\ r[1] \in Nat /\ r[2] \in Nat /\ t[1] \in Nat
          /\ t[2] \in Nat
      BY <1>2
    <3> QED
      BY <1>3, <3>1
  <2> QED
    BY <2>1, <2>2, <2>3, <2>4 DEF TotalOrder
<1>5. /\ rank \in [P -> 1 .. Cardinality(P)]
      /\ \A p, r \in P : rank[p] = rank[r] => p = r
      /\ \A k \in 1 .. Cardinality(P) : \E p \in P : rank[p] = k
  <2>1. PICK f : f = rank
    OBVIOUS
  <2>2. f = [x \in P |-> Cardinality(UpTo(R, P, x))]
    BY <2>1
  <2> HIDE DEF P, R, rank
  <2> QED
    BY <1>1, <1>4, <2>1, <2>2, RankCounts
<1>6. ASSUME NEW p \in P
      PROVE  Place(c, p[1], p[2]) = rank[p]
  <2> DEFINE A == {r \in Requests \X (1 .. MaxSql) : r[1] > p[1] /\ r[2] <= c[r[1]]}
             B == {p[1]} \X (1 .. p[2])
  <2>1. UpTo(R, P, p) = A \cup B
    <3>1. ASSUME NEW r \in P
          PROVE  <<r, p>> \in R <=> r \in A \cup B
      <4>1. r = <<r[1], r[2]>> /\ r[1] \in Nat /\ r[2] \in Nat \ {0} /\ p[1] \in Nat
            /\ p[2] \in Nat
        BY <1>2
      <4>2. r \in A <=> r[1] > p[1]
        BY DEF Recording
      <4>3. r \in B <=> r[1] = p[1] /\ r[2] \in 1 .. p[2]
        BY <4>1
      <4> QED
        BY <1>3, <4>1, <4>2, <4>3
    <3>2. A \subseteq P
      BY DEF Recording
    <3>3. B \subseteq P
      <4> SUFFICES ASSUME NEW j \in 1 .. p[2] PROVE <<p[1], j>> \in P
        OBVIOUS
      <4>1. p[1] \in Requests /\ p[2] \in 1 .. c[p[1]] /\ c[p[1]] \in 0 .. MaxSql /\ MaxSql \in Nat
        BY <1>2, ReplayAssumption
      <4>2. j \in 1 .. MaxSql /\ j <= c[p[1]]
        BY <4>1
      <4> QED
        BY <4>1, <4>2 DEF Recording
    <3> QED
      BY <3>1, <3>2, <3>3 DEF UpTo
  <2>2. IsFiniteSet(A) /\ Cardinality(A) \in Nat
    <3>1. A \in SUBSET P
      BY DEF Recording
    <3> QED
      BY <1>1, <3>1, FS_Subset, FS_CardinalityType
  <2>3. IsFiniteSet(B) /\ Cardinality(B) = p[2]
    <3>1. IsFiniteSet({p[1]}) /\ Cardinality({p[1]}) = 1
      BY FS_Singleton
    <3>2. p[2] \in Nat \ {0} /\ IsFiniteSet(1 .. p[2]) /\ Cardinality(1 .. p[2]) = p[2]
      <4>1. PICK n \in Nat \ {0} : n = p[2]
        BY <1>2
      <4>2. IsFiniteSet(1 .. n) /\ Cardinality(1 .. n) = n
        BY FS_Interval
      <4> QED
        BY <4>1, <4>2
    <3>3. IsFiniteSet(B) /\ Cardinality(B) = 1 * p[2]
      BY <3>1, <3>2, FS_Product
    <3> QED
      BY <3>2, <3>3
  <2>4. A \cap B = {}
    <3>1. \A r \in A : r[1] # p[1]
      BY <1>2 DEF Requests
    <3> QED
      BY <3>1
  <2> HIDE DEF A, B
  <2>5. Cardinality(A \cap B) = 0
    BY <2>4, FS_EmptySet
  <2>6. Cardinality(A \cup B) = Cardinality(A) + p[2]
    <3>1. Cardinality(A \cup B) = Cardinality(A) + Cardinality(B) - Cardinality(A \cap B)
      BY <2>2, <2>3, FS_Union
    <3>2. p[2] \in Nat
      BY <1>2
    <3> QED
      BY <2>2, <2>3, <2>5, <3>1, <3>2
  <2>7. rank[p] = Cardinality(A \cup B)
    BY <2>1
  <2> QED
    BY <2>6, <2>7 DEF Place, Earlier, A
<1> HIDE DEF rank, P
<1>7. \A p \in P : rank[p] \in 1 .. Cardinality(P) /\ Cardinality(P) \in Nat
  BY <1>1, <1>5, FS_CardinalityType
<1>8. ASSUME NEW p \in P, NEW k \in 1 .. Place(c, p[1], p[2])
      PROVE  \E r \in P : Place(c, r[1], r[2]) = k
  <2>1. k \in 1 .. Cardinality(P)
    BY <1>6, <1>7
  <2> QED
    BY <1>5, <1>6, <2>1
<1>9. \A p \in P : Place(c, p[1], p[2]) \in Nat \ {0}
  BY <1>6, <1>7
<1>10. \A p, r \in P : Place(c, p[1], p[2]) = Place(c, r[1], r[2]) => p = r
  BY <1>5, <1>6
<1> QED
  BY <1>8, <1>9, <1>10 DEF P

SourceId(q, type, n) == <<"source", q, type, n>>

SourceRequest(q) == Event("source", q, "http.request", 0, q, q - 1, NoParent, "ok")

SourceResponse(q, a) ==
    Event("source", q, "http.response", 0, 100 + q, N + q - 1, SourceId(q, "http.request", 0),
          Captured(a[q]))

SourceQuery(q, n, seq) ==
    Event("source", q, "postgres.query", n, N + 1 + seq, seq, NoParent, "ok")

SourceResult(q, n, seq) ==
    Event("source", q, "postgres.result", n, N + 2 + seq, seq + 1,
          SourceId(q, "postgres.query", n), "ok")

SqlSeq(c, q, n) == 2 * (Earlier(c, q) + n - 1)

LEMMA SourceRowsAre ==
    ASSUME NEW c, NEW a, NEW e
    PROVE  e \in SourceRows(c, a) <=>
              \E q \in Requests :
                 \/ e = SourceRequest(q) \/ e = SourceResponse(q, a)
                 \/ \E n \in 1 .. c[q] : \/ e = SourceQuery(q, n, SqlSeq(c, q, n))
                                         \/ e = SourceResult(q, n, SqlSeq(c, q, n))
<1>1. \A q : SourceRequest(q).id = SourceId(q, "http.request", 0)
  BY DEF SourceRequest, SourceId, Event
<1>2. \A q, n, seq : SourceQuery(q, n, seq).id = SourceId(q, "postgres.query", n)
  BY DEF SourceQuery, SourceId, Event
<1>3. SourceRows(c, a) =
         UNION {{SourceRequest(q), SourceResponse(q, a)} \cup
                UNION {{SourceQuery(q, n, SqlSeq(c, q, n)), SourceResult(q, n, SqlSeq(c, q, n))} :
                          n \in 1 .. c[q]} : q \in Requests}
  <2> DEFINE earlier(q)  == Cardinality({p \in Requests \X (1 .. MaxSql) :
                                       p[1] > q /\ p[2] <= c[p[1]]})
             seq(q, n)   == 2 * (earlier(q) + n - 1)
             request(q)  == Event("source", q, "http.request", 0, q, q - 1, NoParent, "ok")
             response(q) == Event("source", q, "http.response", 0, 100 + q, N + q - 1,
                                  request(q).id, Captured(a[q]))
             query(q, n) == Event("source", q, "postgres.query", n, N + 1 + seq(q, n),
                                  seq(q, n), NoParent, "ok")
             result(q, n) == Event("source", q, "postgres.result", n, N + 2 + seq(q, n),
                                   seq(q, n) + 1, query(q, n).id, "ok")
  <2>1. SourceRows(c, a) =
           UNION {{request(q), response(q)} \cup
                  UNION {{query(q, n), result(q, n)} : n \in 1 .. c[q]} : q \in Requests}
    BY DEF SourceRows
  <2>2. \A q : request(q) = SourceRequest(q)
    BY DEF SourceRequest
  <2>3. \A q, n : seq(q, n) = SqlSeq(c, q, n)
    BY DEF SqlSeq, Earlier
  <2>4. \A q, n : query(q, n) = SourceQuery(q, n, SqlSeq(c, q, n))
    BY <2>3 DEF SourceQuery
  <2>5. \A q : response(q) = SourceResponse(q, a)
    BY <1>1, <2>2 DEF SourceResponse
  <2>6. \A q, n : result(q, n) = SourceResult(q, n, SqlSeq(c, q, n))
    BY <1>2, <2>3, <2>4 DEF SourceResult
  <2> HIDE DEF request, response, query, result
  <2> QED
    BY <2>1, <2>2, <2>4, <2>5, <2>6

<1> QED
  BY <1>3

\* The event e of the source is one of request q.
OfRequest(e, c, a, q) ==
    \/ e = SourceRequest(q) /\ e.type = "http.request" /\ e.id = SourceId(q, "http.request", 0)
       /\ e.seq = q - 1 /\ e.parent = NoParent
    \/ e = SourceResponse(q, a) /\ e.type = "http.response" /\ e.id = SourceId(q, "http.response", 0)
       /\ e.seq = N + q - 1 /\ e.parent = SourceId(q, "http.request", 0)
    \/ \E n \in 1 .. c[q] :
          \/ /\ e = SourceQuery(q, n, SqlSeq(c, q, n)) /\ e.type = "postgres.query"
             /\ e.id = SourceId(q, "postgres.query", n) /\ e.parent = NoParent
             /\ e.seq = 2 * (Place(c, q, n) - 1)
          \/ /\ e = SourceResult(q, n, SqlSeq(c, q, n)) /\ e.type = "postgres.result"
             /\ e.id = SourceId(q, "postgres.result", n)
             /\ e.parent = SourceId(q, "postgres.query", n)
             /\ e.seq = 2 * (Place(c, q, n) - 1) + 1

LEMMA PlaceIs ==
    ASSUME NEW c \in [Requests -> 0 .. MaxSql], NEW a, NEW q \in Requests, NEW n \in 1 .. c[q]
    PROVE  /\ <<q, n>> \in Recording(c) /\ Place(c, q, n) \in Nat \ {0} /\ n \in 1 .. MaxSql
           /\ SqlSeq(c, q, n) = 2 * (Place(c, q, n) - 1) /\ SqlSeq(c, q, n) \in Nat
<1>1. <<q, n>> \in Recording(c) /\ n \in 1 .. MaxSql
  <2>1. c[q] \in 0 .. MaxSql /\ MaxSql \in Nat
    BY ReplayAssumption
  <2>2. n \in 1 .. MaxSql /\ n <= c[q]
    BY <2>1
  <2> QED
    BY <2>2 DEF Recording
<1>2. Place(c, q, n) \in Nat \ {0}
  BY <1>1, PlacesCount
<1>3. Earlier(c, q) \in Nat
  <2>1. {p \in Requests \X (1 .. MaxSql) : p[1] > q /\ p[2] <= c[p[1]]} \in SUBSET Recording(c)
    BY DEF Recording
  <2>2. IsFiniteSet(Recording(c))
    BY StatementsFinite DEF Recording
  <2> QED
    BY <2>1, <2>2, FS_Subset, FS_CardinalityType DEF Earlier
<1>4. n \in Nat
  BY <1>1
<1>5. SqlSeq(c, q, n) = 2 * (Place(c, q, n) - 1)
  BY <1>3, <1>4 DEF SqlSeq, Place
<1>6. SqlSeq(c, q, n) \in Nat
  BY <1>2, <1>5
<1> QED
  BY <1>1, <1>2, <1>5, <1>6

LEMMA SourceIs ==
    ASSUME NEW c \in [Requests -> 0 .. MaxSql], NEW a, NEW e \in SourceRows(c, a)
    PROVE  \E q \in Requests : /\ Row(e) /\ e.corr = <<"source", q>> /\ e.seq \in Nat
                               /\ OfRequest(e, c, a, q)
<1>1. PICK q \in Requests :
         \/ e = SourceRequest(q) \/ e = SourceResponse(q, a)
         \/ \E n \in 1 .. c[q] : \/ e = SourceQuery(q, n, SqlSeq(c, q, n))
                                 \/ e = SourceResult(q, n, SqlSeq(c, q, n))
  BY SourceRowsAre
<1>2. q \in Nat \ {0} /\ N \in Nat /\ q \in Int /\ q - 1 \in Int /\ N + q - 1 \in Int
      /\ 100 + q \in Int /\ q - 1 \in Nat /\ N + q - 1 \in Nat
  BY ReplayAssumption DEF Requests
<1>3. CASE e = SourceRequest(q)
  <2>1. /\ Row(e) /\ e.id = <<"source", q, "http.request", 0>> /\ e.corr = <<"source", q>>
        /\ e.seq = q - 1 /\ e.type = "http.request" /\ e.parent = NoParent
    BY <1>2, <1>3 DEF SourceRequest, Event, Row
  <2> QED
    BY <1>2, <1>3, <2>1 DEF OfRequest, SourceId
<1>4. CASE e = SourceResponse(q, a)
  <2>1. /\ Row(e) /\ e.id = <<"source", q, "http.response", 0>> /\ e.corr = <<"source", q>>
        /\ e.seq = N + q - 1 /\ e.type = "http.response"
        /\ e.parent = SourceId(q, "http.request", 0)
    BY <1>2, <1>4 DEF SourceResponse, Event, Row, SourceId
  <2> QED
    BY <1>2, <1>4, <2>1 DEF OfRequest, SourceId
<1>5. ASSUME NEW n \in 1 .. c[q], e = SourceQuery(q, n, SqlSeq(c, q, n))
      PROVE  Row(e) /\ e.corr = <<"source", q>> /\ e.seq \in Nat /\ OfRequest(e, c, a, q)
  <2>1. PICK s, t : s = SqlSeq(c, q, n) /\ t = N + 1 + s
    OBVIOUS
  <2>2. s \in Nat /\ t \in Int /\ s = 2 * (Place(c, q, n) - 1)
    <3>1. s \in Nat /\ s = 2 * (Place(c, q, n) - 1)
      BY <2>1, PlaceIs
    <3>2. N \in Nat
      BY ReplayAssumption
    <3>3. t \in Int
      BY ONLY <2>1, <3>1, <3>2
    <3> QED
      BY <3>1, <3>3
  <2>3. /\ Row(e) /\ e.id = <<"source", q, "postgres.query", n>> /\ e.corr = <<"source", q>>
        /\ e.seq = s /\ e.type = "postgres.query" /\ e.parent = NoParent
    BY <1>5, <2>1, <2>2, EventIs DEF SourceQuery
  <2> QED
    BY <1>5, <2>2, <2>3 DEF OfRequest, SourceId
<1>6. ASSUME NEW n \in 1 .. c[q], e = SourceResult(q, n, SqlSeq(c, q, n))
      PROVE  Row(e) /\ e.corr = <<"source", q>> /\ e.seq \in Nat /\ OfRequest(e, c, a, q)
  <2>1. PICK s, t, u : s = SqlSeq(c, q, n) /\ t = N + 2 + s /\ u = s + 1
    OBVIOUS
  <2>2. s \in Nat /\ t \in Int /\ u \in Nat /\ u = 2 * (Place(c, q, n) - 1) + 1
    <3>1. s \in Nat /\ s = 2 * (Place(c, q, n) - 1)
      BY <2>1, PlaceIs
    <3> QED
      BY <1>2, <2>1, <3>1
  <2>3. /\ Row(e) /\ e.id = <<"source", q, "postgres.result", n>> /\ e.corr = <<"source", q>>
        /\ e.seq = u /\ e.type = "postgres.result"
        /\ e.parent = SourceId(q, "postgres.query", n)
    BY <1>6, <2>1, <2>2, EventIs DEF SourceResult
  <2> QED
    BY <1>6, <2>2, <2>3 DEF OfRequest, SourceId
<1> QED
  BY <1>1, <1>3, <1>4, <1>5, <1>6

LEMMA SourceUnmixed ==
    ASSUME NEW c \in [Requests -> 0 .. MaxSql], NEW a
    PROVE  Unmixed(SourceRows(c, a))
<1> SUFFICES ASSUME NEW e \in SourceRows(c, a), NEW f \in SourceRows(c, a), e # f
             PROVE  e.id # f.id /\ (e.seq = f.seq => ~ (IsHttp(e) <=> IsHttp(f)))
  BY DEF Unmixed
<1>1. PICK q \in Requests : OfRequest(e, c, a, q)
  BY SourceIs
<1>2. PICK p \in Requests : OfRequest(f, c, a, p)
  BY SourceIs
<1>3. e.id # f.id
  BY <1>1, <1>2 DEF OfRequest, SourceId
<1>4. q \in 1 .. N /\ p \in 1 .. N /\ N \in Nat
  BY ReplayAssumption DEF Requests
<1>5. ASSUME IsHttp(e), IsHttp(f), e.seq = f.seq
      PROVE  FALSE
  <2>1. \/ e.seq = q - 1 /\ e = SourceRequest(q)
        \/ e.seq = N + q - 1 /\ e = SourceResponse(q, a)
    BY <1>1, <1>5 DEF OfRequest, IsHttp
  <2>2. \/ f.seq = p - 1 /\ f = SourceRequest(p)
        \/ f.seq = N + p - 1 /\ f = SourceResponse(p, a)
    BY <1>2, <1>5 DEF OfRequest, IsHttp
  <2> QED
    BY <1>4, <1>5, <2>1, <2>2
<1>6. ASSUME ~ IsHttp(e), ~ IsHttp(f), e.seq = f.seq
      PROVE  FALSE
  <2>1. PICK n \in 1 .. c[q] :
           \/ e.seq = 2 * (Place(c, q, n) - 1) /\ e = SourceQuery(q, n, SqlSeq(c, q, n))
           \/ e.seq = 2 * (Place(c, q, n) - 1) + 1 /\ e = SourceResult(q, n, SqlSeq(c, q, n))
    BY <1>1, <1>6 DEF OfRequest, IsHttp
  <2>2. PICK m \in 1 .. c[p] :
           \/ f.seq = 2 * (Place(c, p, m) - 1) /\ f = SourceQuery(p, m, SqlSeq(c, p, m))
           \/ f.seq = 2 * (Place(c, p, m) - 1) + 1 /\ f = SourceResult(p, m, SqlSeq(c, p, m))
    BY <1>2, <1>6 DEF OfRequest, IsHttp
  <2>3. /\ Place(c, q, n) \in Nat \ {0} /\ <<q, n>> \in Recording(c)
        /\ Place(c, p, m) \in Nat \ {0} /\ <<p, m>> \in Recording(c)
    BY PlaceIs
  <2>4. Place(c, q, n) = Place(c, p, m)
    BY <1>6, <2>1, <2>2, <2>3
  <2>5. <<q, n>> = <<p, m>>
    <3>1. \A x, y \in Recording(c) : Place(c, x[1], x[2]) = Place(c, y[1], y[2]) => x = y
      BY PlacesCount
    <3>2. PICK x \in Recording(c), y \in Recording(c) : x = <<q, n>> /\ y = <<p, m>>
      BY <2>3
    <3>3. x[1] = q /\ x[2] = n /\ y[1] = p /\ y[2] = m
      BY <3>2
    <3> QED
      BY <2>4, <3>1, <3>2, <3>3
  <2>6. q = p /\ n = m
    BY <2>5
  <2>7. e.seq # f.seq
    BY <2>1, <2>2, <2>3, <2>6
  <2> QED
    BY <1>6, <2>7
<1> QED
  BY <1>3, <1>5, <1>6

LEMMA SourceFinite ==
    ASSUME NEW c \in [Requests -> 0 .. MaxSql], NEW a
    PROVE  IsFiniteSet(SourceRows(c, a))
<1> DEFINE S == SourceRows(c, a)
           types == {"http.request", "http.response", "postgres.query", "postgres.result"}
           T == Requests \X (types \X (0 .. MaxSql))
           f == [e \in S |-> <<e.id[2], <<e.id[3], e.id[4]>>>>]
<1>1. IsFiniteSet(T)
  <2>1. IsFiniteSet(Requests) /\ IsFiniteSet(0 .. MaxSql)
    BY ReplayAssumption, FS_Interval DEF Requests
  <2>2. IsFiniteSet(types)
    <3>1. /\ IsFiniteSet({"http.request"}) /\ IsFiniteSet({"http.response"})
          /\ IsFiniteSet({"postgres.query"}) /\ IsFiniteSet({"postgres.result"})
      BY FS_Singleton
    <3>2. IsFiniteSet({"http.request"} \cup {"http.response"})
      BY <3>1, FS_Union
    <3>3. IsFiniteSet({"postgres.query"} \cup {"postgres.result"})
      BY <3>1, FS_Union
    <3>4. PICK A, B : /\ A = {"http.request"} \cup {"http.response"}
                      /\ B = {"postgres.query"} \cup {"postgres.result"}
      OBVIOUS
    <3>5. IsFiniteSet(A \cup B)
      BY <3>2, <3>3, <3>4, FS_Union
    <3>6. types = A \cup B
      BY <3>4
    <3> QED
      BY <3>5, <3>6
  <2>3. IsFiniteSet(types \X (0 .. MaxSql))
    BY <2>1, <2>2, FS_Product
  <2> QED
    BY <2>1, <2>3, FS_Product
<1>2. ASSUME NEW e \in S
      PROVE  \E q \in Requests, x \in types, n \in 0 .. MaxSql : e.id = SourceId(q, x, n)
  <2>1. PICK q \in Requests : OfRequest(e, c, a, q)
    BY SourceIs
  <2>2. \A n \in 1 .. c[q] : n \in 0 .. MaxSql
    BY ReplayAssumption
  <2>3. 0 \in 0 .. MaxSql
    BY ReplayAssumption
  <2> QED
    BY <2>1, <2>2, <2>3 DEF OfRequest
<1>3. ASSUME NEW e \in S
      PROVE  f[e] \in T /\ e.id = SourceId(f[e][1], f[e][2][1], f[e][2][2])
  <2>1. PICK q \in Requests, x \in types, n \in 0 .. MaxSql : e.id = SourceId(q, x, n)
    BY <1>2
  <2>2. e.id[2] = q /\ e.id[3] = x /\ e.id[4] = n
    BY <2>1 DEF SourceId
  <2> QED
    BY <2>1, <2>2
<1>4. \A e, g \in S : f[e] = f[g] => e = g
  <2> SUFFICES ASSUME NEW e \in S, NEW g \in S, f[e] = f[g] PROVE e = g
    OBVIOUS
  <2>1. e.id = g.id
    BY <1>3
  <2> QED
    BY <2>1, SourceUnmixed DEF Unmixed
<1>5. f \in [S -> T]
  BY <1>3
<1> HIDE DEF f, S, T
<1>6. f \in Injection(S, T)
  BY <1>4, <1>5, Fun_IsInj
<1> QED
  BY <1>1, <1>6, FS_Injection DEF S

LEMMA SourceHas ==
    ASSUME NEW c \in [Requests -> 0 .. MaxSql], NEW a, NEW q \in Requests
    PROVE  /\ SourceRequest(q) \in SourceRows(c, a) /\ SourceResponse(q, a) \in SourceRows(c, a)
           /\ SourceRequest(q).id = SourceId(q, "http.request", 0)
           /\ SourceRequest(q).seq = q - 1 /\ SourceResponse(q, a).seq = N + q - 1
           /\ \A n \in 1 .. c[q] :
                 LET seq == SqlSeq(c, q, n)
                 IN /\ SourceQuery(q, n, seq) \in SourceRows(c, a)
                    /\ SourceResult(q, n, seq) \in SourceRows(c, a)
                    /\ SourceQuery(q, n, seq).id = SourceId(q, "postgres.query", n)
                    /\ SourceQuery(q, n, seq).seq = seq
                    /\ SourceResult(q, n, seq).seq = seq + 1
<1>1. SourceRequest(q) \in SourceRows(c, a) /\ SourceResponse(q, a) \in SourceRows(c, a)
  BY SourceRowsAre
<1>2. ASSUME NEW n \in 1 .. c[q]
      PROVE  /\ SourceQuery(q, n, SqlSeq(c, q, n)) \in SourceRows(c, a)
             /\ SourceResult(q, n, SqlSeq(c, q, n)) \in SourceRows(c, a)
  BY SourceRowsAre
<1> QED
  BY <1>1, <1>2 DEF SourceRequest, SourceResponse, SourceQuery, SourceResult, Event, SourceId

\* The rows that came are of the recording, none of them twice.
LEMMA SourceSome ==
    ASSUME NEW c \in [Requests -> 0 .. MaxSql], NEW a, NEW S, S \subseteq SourceRows(c, a)
    PROVE  IsFiniteSet(S) /\ Unmixed(S) /\ \A e \in S : Row(e) /\ e.seq \in Nat
<1>1. IsFiniteSet(S)
  BY SourceFinite, FS_Subset
<1>2. Unmixed(S)
  BY SourceUnmixed DEF Unmixed
<1> QED
  BY <1>1, <1>2, SourceIs

\* e has what get_recording returns of a row of the recording.
OfRows(e, c, a) ==
    \E f \in SourceRows(c, a) : e.id = f.id /\ e.corr = f.corr /\ e.type = f.type

\* Whichever rows came, and when, the source lists events of its requests.
FromRows(c, a) ==
    \E n \in Nat :
        /\ Stream(source, n)
        /\ \A i \in 1 .. n : source[i].seq \in Nat /\ OfRows(source[i], c, a)
        /\ setup.history = "finished" => \A i \in 1 .. n : source[i].seq = i - 1

\* What get_recording returns of the finished recording and the late rows.
LEMMA WithLateEnumerates ==
    ASSUME NEW finished, NEW L,
           NEW S, S = Range(finished) \cup L, IsFiniteSet(S), \A e \in S : e.seq \in Int,
           \A e, f \in S : e.seq = f.seq /\ (e \in L <=> f \in L)
                          /\ ((IsHttp(e) <=> IsHttp(f)) \/ e \notin L) => e = f,
           NEW s \in WithLate(finished, L)
    PROVE  Enumerates(s, S)
<1> DEFINE kinds == {"finished", "http", "sql"}
           kind(e) == IF e \notin L THEN "finished" ELSE IF IsHttp(e) THEN "http" ELSE "sql"
           First(place, f, e) ==
               \/ f.seq < e.seq
               \/ f.seq = e.seq /\ (f = e \/ place[e.seq][kind(f)] < place[e.seq][kind(e)])
           Rank(place) == [e \in S |-> Cardinality({f \in S : First(place, f, e)})]
           places == [{e.seq : e \in L} -> Injection(kinds, 1 .. 3)]
<1>1. PICK place \in places : s = Ranked(Rank(place))
  <2>1. WithLate(finished, L) = {Ranked(Rank(place)) : place \in places}
    BY DEF WithLate, IsHttp
  <2> HIDE DEF Rank, places
  <2> QED
    BY <2>1
<1> DEFINE R == {p \in S \X S : First(place, p[1], p[2])}
<1>2. \A e, f \in S : <<f, e>> \in R <=> First(place, f, e)
  OBVIOUS
<1>3. \A e \in S : UpTo(R, S, e) = {f \in S : First(place, f, e)}
  BY <1>2 DEF UpTo
<1>4. Rank(place) = [e \in S |-> Cardinality(UpTo(R, S, e))]
  BY <1>3
<1>5. ASSUME NEW e \in S, NEW f \in S, e.seq = f.seq, e # f
      PROVE  /\ place[e.seq][kind(e)] \in 1 .. 3 /\ place[e.seq][kind(f)] \in 1 .. 3
             /\ place[e.seq][kind(e)] # place[e.seq][kind(f)]
  <2>1. kind(e) \in kinds /\ kind(f) \in kinds /\ kind(e) # kind(f)
    <3>1. ASSUME e \in L <=> f \in L, (IsHttp(e) <=> IsHttp(f)) \/ e \notin L
          PROVE  FALSE
      BY <1>5, <3>1
    <3> QED
      BY <3>1
  <2>2. e \in L \/ f \in L
    BY <1>5
  <2>3. place[e.seq] \in Injection(kinds, 1 .. 3)
    BY <1>1, <1>5, <2>2
  <2> HIDE DEF kind, kinds
  <2> QED
    BY <2>1, <2>3 DEF Injection, IsInjective
<1> HIDE DEF R, Rank, kind
<1>6. TotalOrder(R, S)
  <2>1. \A x \in S : <<x, x>> \in R
    BY <1>2
  <2>2. \A x, y \in S : <<x, y>> \in R \/ <<y, x>> \in R
    <3> SUFFICES ASSUME NEW x \in S, NEW y \in S, x # y
                 PROVE  First(place, x, y) \/ First(place, y, x)
      BY <1>2, <2>1
    <3>1. CASE x.seq = y.seq
      BY <1>5, <3>1
    <3>2. CASE x.seq # y.seq
      BY <3>2
    <3> QED
      BY <3>1, <3>2
  <2>3. ASSUME NEW x \in S, NEW y \in S, <<x, y>> \in R, <<y, x>> \in R
        PROVE  x = y
    <3>1. First(place, x, y) /\ First(place, y, x) /\ x.seq \in Int /\ y.seq \in Int
      BY <1>2, <2>3
    <3>2. x.seq = y.seq
      BY <3>1
    <3> QED
      BY <1>5, <3>1, <3>2
  <2>4. ASSUME NEW x \in S, NEW y \in S, NEW z \in S, <<x, y>> \in R, <<y, z>> \in R
        PROVE  <<x, z>> \in R
    <3>1. /\ First(place, x, y) /\ First(place, y, z)
          /\ x.seq \in Int /\ y.seq \in Int /\ z.seq \in Int
      BY <1>2, <2>4
    <3>2. First(place, x, z)
      <4>1. CASE x.seq < y.seq \/ y.seq < z.seq
        BY <3>1, <4>1
      <4>2. CASE x = y \/ y = z
        BY <3>1, <4>2
      <4>3. CASE /\ ~ (x.seq < y.seq \/ y.seq < z.seq) /\ x # y /\ y # z
        <5>1. x.seq = y.seq /\ y.seq = z.seq
          BY <3>1, <4>3
        <5>2. /\ place[x.seq][kind(x)] \in 1 .. 3 /\ place[x.seq][kind(y)] \in 1 .. 3
              /\ place[y.seq][kind(z)] \in 1 .. 3
          BY <1>5, <4>3, <5>1
        <5> QED
          BY <3>1, <4>3, <5>1, <5>2
      <4> QED
        BY <4>1, <4>2, <4>3
    <3> QED
      BY <1>2, <3>2
  <2> QED
    BY <2>1, <2>2, <2>3, <2>4 DEF TotalOrder
<1>7. Lists(s, R, S)
  BY <1>1, <1>4, <1>6, RankedLists
<1> QED
  BY <1>7 DEF Lists

LEMMA SourceInit ==
    ASSUME Init
    PROVE  FromRows(setup.counts, setup.answers)
<1> DEFINE c == setup.counts
           a == setup.answers
           S == setup.rows
           L == setup.late
           m == Cardinality(S)
<1>1. /\ c \in [Requests -> 0 .. MaxSql] /\ S \subseteq SourceRows(c, a)
      /\ L \subseteq SourceRows(c, a) \ S
      /\ setup.history \in {"live", "finished", "late"}
  BY ReplayAssumption DEF Init
<1>2. PICK order \in RowOrders(S) :
         \/ setup.history = "live"     /\ source = order
         \/ setup.history = "finished" /\ source = Correlated(order)
         \/ setup.history = "late"     /\ source \in WithLate(Correlated(order), L)
  BY DEF Init
<1> HIDE DEF c, a, S, L
<1>3. /\ IsFiniteSet(S) /\ Unmixed(S) /\ \A e \in S : Row(e) /\ e.seq \in Nat
      /\ IsFiniteSet(L) /\ Unmixed(L) /\ \A e \in L : Row(e) /\ e.seq \in Nat
  BY <1>1, SourceSome
<1>4. m \in Nat
  BY <1>3, FS_CardinalityType
<1> HIDE DEF m
<1>5. CASE source = order /\ setup.history = "live"
  <2>1. Enumerates(order, S)
    <3>1. \A e, f \in S : e.seq = f.seq /\ (IsHttp(e) <=> IsHttp(f)) => e = f
      BY <1>3 DEF Unmixed
    <3> QED
      BY <1>3, <3>1, RowOrdersEnumerate
  <2>2. order \in [1 .. m -> S] /\ \A j, k \in 1 .. m : order[j] = order[k] => j = k
    BY <2>1 DEF Enumerates, m
  <2>3. Stream(source, m)
    <3>1. \A k \in 1 .. m : source[k] \in S /\ source[k].seq \in Int
      BY <1>3, <1>5, <2>2
    <3>2. \A j, k \in 1 .. m : source[j].id = source[k].id => source[j] = source[k]
      BY <1>3, <3>1 DEF Unmixed
    <3> QED
      BY <1>4, <1>5, <2>2, <3>1, <3>2 DEF Stream
  <2>4. \A i \in 1 .. m : source[i] \in SourceRows(c, a) /\ source[i].seq \in Nat
    BY <1>1, <1>3, <1>5, <2>2
  <2> QED
    BY <1>4, <1>5, <2>3, <2>4 DEF FromRows, OfRows, c, a
<1>6. PICK C : C = Correlated(order)
  OBVIOUS
<1>7. /\ Stream(C, m) /\ \A k \in 1 .. m : C[k].seq = k - 1
      /\ \A k \in 1 .. m : \E e \in S : C[k].id = e.id /\ C[k].corr = e.corr /\ C[k].type = e.type
  <2>1. PICK from : FinishedAs(C, from, S)
    BY <1>3, <1>6, CorrelatedFinishes
  <2> QED
    BY <2>1 DEF FinishedAs, m
<1>8. CASE source = C /\ setup.history = "finished"
  <2>1. \A i \in 1 .. m : source[i].seq = i - 1 /\ i - 1 \in Nat
    BY <1>4, <1>7, <1>8
  <2>2. \A i \in 1 .. m : OfRows(source[i], c, a)
    BY <1>1, <1>7, <1>8 DEF OfRows
  <2> QED
    BY <1>4, <1>7, <1>8, <2>1, <2>2 DEF FromRows, c, a
<1>9. CASE source \in WithLate(C, L) /\ setup.history = "late"
  <2> DEFINE T == Range(C) \cup L
             l == Cardinality(T)
  <2>1. \A e \in Range(C) : \E k \in 1 .. m : e = C[k]
    BY <1>7 DEF Stream, Range
  <2>2. \A e \in Range(C) : e.seq \in Nat /\ \E x \in S : e.id = x.id /\ e.corr = x.corr /\ e.type = x.type
    <3>1. \A k \in 1 .. m : k - 1 \in Nat
      BY <1>4
    <3> QED
      BY <1>7, <2>1, <3>1
  <2>3. \A e \in T : e.seq \in Nat /\ OfRows(e, c, a)
    BY <1>1, <1>3, <2>2 DEF OfRows
  <2>4. ASSUME NEW e \in Range(C), NEW f \in L
        PROVE  e.id # f.id
    <3>1. PICK x \in S : e.id = x.id
      BY <2>2
    <3>2. x \in SourceRows(c, a) /\ f \in SourceRows(c, a) /\ x # f
      BY <1>1
    <3> QED
      BY <1>1, <3>1, <3>2, SourceUnmixed DEF Unmixed
  <2>5. ASSUME NEW e \in Range(C), NEW f \in Range(C), e.seq = f.seq \/ e.id = f.id
        PROVE  e = f
    <3>1. PICK j \in 1 .. m, k \in 1 .. m : e = C[j] /\ f = C[k]
      BY <2>1
    <3>2. j = k
      <4>1. CASE e.id = f.id
        BY <1>7, <3>1, <4>1 DEF Stream
      <4>2. CASE e.seq = f.seq
        BY <1>4, <1>7, <3>1, <4>2
      <4> QED
        BY <2>5, <4>1, <4>2
    <3> QED
      BY <3>1, <3>2
  <2>6. \A e, f \in T : e.id = f.id => e = f
    BY <1>3, <2>4, <2>5 DEF Unmixed
  <2>7. IsFiniteSet(T)
    <3>1. IsFiniteSet(Range(C))
      BY <1>4, <1>7, RangeFinite DEF Stream
    <3> QED
      BY <1>3, <3>1, FS_Union
  <2>8. ASSUME NEW e \in T, NEW f \in T, e.seq = f.seq, e \in L <=> f \in L,
               (IsHttp(e) <=> IsHttp(f)) \/ e \notin L
        PROVE  e = f
    <3>1. CASE e \in L
      BY <1>3, <2>8, <3>1 DEF Unmixed
    <3>2. CASE e \notin L
      BY <2>5, <2>8, <3>2
    <3> QED
      BY <3>1, <3>2
  <2>9. Enumerates(source, T)
    <3>1. \A e \in T : e.seq \in Int
      BY <2>3
    <3>2. PICK U : U = T
      OBVIOUS
    <3> QED
      BY <1>9, <2>7, <2>8, <3>1, WithLateEnumerates
  <2>10. l \in Nat
    BY <2>7, FS_CardinalityType
  <2>11. source \in [1 .. l -> T] /\ \A j, k \in 1 .. l : source[j] = source[k] => j = k
    BY <2>9 DEF Enumerates
  <2> HIDE DEF T, l
  <2>12. Stream(source, l)
    BY <2>3, <2>6, <2>10, <2>11 DEF Stream
  <2> QED
    BY <1>9, <2>3, <2>10, <2>11, <2>12 DEF FromRows, c, a
<1> QED
  BY <1>2, <1>5, <1>6, <1>8, <1>9

LEMMA FromRowsIs ==
    ASSUME NEW c \in [Requests -> 0 .. MaxSql], NEW a, FromRows(c, a)
    PROVE  SourceInv /\ RecordedInv
<1>1. PICK n \in Nat :
         /\ Stream(source, n)
         /\ \A i \in 1 .. n : source[i].seq \in Nat /\ OfRows(source[i], c, a)
         /\ setup.history = "finished" => \A i \in 1 .. n : source[i].seq = i - 1
  BY DEF FromRows
<1>2. ASSUME NEW i \in 1 .. n
      PROVE  \E q \in Requests :
                /\ source[i].corr = <<"source", q>> /\ source[i].id # None
                /\ source[i].type = "postgres.query" =>
                      \E k \in 1 .. MaxSql : source[i].id = SourceId(q, "postgres.query", k)
  <2>1. PICK e \in SourceRows(c, a) :
           source[i].id = e.id /\ source[i].corr = e.corr /\ source[i].type = e.type
    BY <1>1 DEF OfRows
  <2>2. PICK q \in Requests : e.corr = <<"source", q>> /\ OfRequest(e, c, a, q)
    BY SourceIs
  <2>3. e.id # None
    <3>1. \A x, k : SourceId(q, x, k) # None
      BY DEF SourceId, None
    <3>2. \E x, k : e.id = SourceId(q, x, k)
      BY <2>2 DEF OfRequest
    <3> QED
      BY <3>1, <3>2
  <2>4. ASSUME e.type = "postgres.query"
        PROVE  \E k \in 1 .. MaxSql : e.id = SourceId(q, "postgres.query", k)
    <3>1. PICK k \in 1 .. c[q] : e.id = SourceId(q, "postgres.query", k)
      BY <2>2, <2>4 DEF OfRequest
    <3>2. k \in 1 .. MaxSql
      BY PlaceIs
    <3> QED
      BY <3>1, <3>2
  <2> QED
    BY <2>1, <2>2, <2>3, <2>4
<1>3. SourceInv
  BY <1>1, <1>2 DEF SourceInv
<1>4. ASSUME NEW q \in Requests
      PROVE  Recorded(q) \in 0 .. MaxSql
  <2> DEFINE S == {e \in Range(source) : e.corr = <<"source", q>> /\ e.type = "postgres.query"}
             T == 1 .. MaxSql
             f == [e \in S |-> e.id[4]]
  <2>1. IsFiniteSet(T) /\ Cardinality(T) = MaxSql /\ MaxSql \in Nat
    BY ReplayAssumption, FS_Interval
  <2>2. ASSUME NEW e \in S
        PROVE  \E i \in 1 .. n : e = source[i] /\ e.id = SourceId(q, "postgres.query", f[e])
                                 /\ f[e] \in T
    <3>1. PICK i \in 1 .. n : e = source[i]
      BY <1>1 DEF Stream, Range
    <3>2. PICK p \in Requests, k \in 1 .. MaxSql :
             e.corr = <<"source", p>> /\ e.id = SourceId(p, "postgres.query", k)
      BY <1>2, <3>1
    <3>3. e.corr = <<"source", q>> /\ f[e] = e.id[4]
      OBVIOUS
    <3>4. p = q /\ e.id[4] = k
      BY <3>2, <3>3 DEF SourceId
    <3> QED
      BY <3>1, <3>2, <3>3, <3>4
  <2>3. \A e, g \in S : f[e] = f[g] => e = g
    <3> SUFFICES ASSUME NEW e \in S, NEW g \in S, f[e] = f[g] PROVE e = g
      OBVIOUS
    <3>1. PICK i \in 1 .. n : e = source[i] /\ e.id = SourceId(q, "postgres.query", f[e])
      BY <2>2
    <3>2. PICK j \in 1 .. n : g = source[j] /\ g.id = SourceId(q, "postgres.query", f[g])
      BY <2>2
    <3>3. source[i].id = source[j].id
      BY <3>1, <3>2
    <3> QED
      BY <1>1, <3>1, <3>2, <3>3 DEF Stream
  <2>4. f \in [S -> T]
    BY <2>2
  <2> HIDE DEF f, T
  <2>5. f \in Injection(S, T)
    BY <2>3, <2>4, Fun_IsInj
  <2> HIDE DEF S
  <2>6. Cardinality(S) <= MaxSql /\ Cardinality(S) \in Nat
    BY <2>1, <2>5, FS_Injection, FS_CardinalityType
  <2>7. Recorded(q) = Cardinality(S)
    BY DEF Recorded, S
  <2> QED
    BY <2>1, <2>6, <2>7
<1> QED
  BY <1>3, <1>4 DEF RecordedInv

\* A step leaves the source alone.
LEMMA SourceStep ==
    ASSUME SourceInv, RecordedInv, [Next]_vars
    PROVE  SourceInv' /\ RecordedInv'
<1>1. setup' = setup /\ source' = source
  BY ConfigStays
<1>2. SourceInv'
  <2>1. SourceInv
    OBVIOUS
  <2> QED
    BY <1>1, <2>1 DEF SourceInv
<1>3. \A q \in Requests : Recorded(q)' = Recorded(q)
  BY <1>1 DEF Recorded
<1>4. RecordedInv'
  <2>1. RecordedInv
    OBVIOUS
  <2> QED
    BY <1>3, <2>1 DEF RecordedInv
<1> QED
  BY <1>2, <1>4

LEMMA IInvInit == Init => IInv
<1> SUFFICES ASSUME Init PROVE IInv
  OBVIOUS
<1>1. setup \in Setups /\ setup.counts \in [Requests -> 0 .. MaxSql]
  BY ReplayAssumption DEF Init
<1>2. SourceInv /\ RecordedInv
  BY <1>1, SourceInit, FromRowsIs
<1>3. /\ now = 0 /\ run = "called" /\ replayed = <<>> /\ sequence = 0 /\ queue = <<>>
      /\ sent = [q \in Requests |-> "idle"] /\ app = [q \in Requests |-> "idle"]
      /\ ran = [q \in Requests |-> 0] /\ outbox = [q \in Requests |-> {}]
      /\ rows = {} /\ status = "absent" /\ faulted = FALSE /\ results = <<>>
  BY DEF Init
<1>4. Typed
  <2>1. replayed \in Seq(Range(replayed)) /\ queue \in Seq(Range(queue))
    BY <1>3, EmptyIs
  <2>2. DOMAIN outbox = Requests /\ \A q \in Requests : outbox[q] = {}
    BY <1>3
  <2>3. IsFiniteSet(rows) /\ \A q \in Requests : IsFiniteSet(outbox[q])
    BY <1>3, <2>2, EmptyIs
  <2>4. ran \in [Requests -> 0 .. MaxSql]
    BY <1>3, ReplayAssumption
  <2>5. /\ sent \in [Requests -> {"idle", "open", "answered", "failed"}]
        /\ app \in [Requests -> {"idle", "running", "posting", "admitted", "replied", "raised"}]
    BY <1>3
  <2>6. /\ now \in Nat /\ sequence \in Nat /\ faulted \in BOOLEAN
        /\ run \in Stages /\ status \in {"absent", "recording", "completed", "failed"}
    BY <1>3 DEF Stages
  <2> QED
    BY <1>1, <2>1, <2>2, <2>3, <2>4, <2>5, <2>6 DEF Typed
<1>5. PoolInv
  <2>1. /\ Range(replayed) \subseteq {} /\ Range(queue) \subseteq {} /\ rows \subseteq {}
        /\ \A q \in Requests : outbox[q] \subseteq {}
    BY <1>3, EmptyIs
  <2>2. Pool \subseteq {}
    BY <2>1 DEF Pool
  <2> QED
    BY <2>2 DEF PoolInv, Unmixed
<1>6. Complete
  BY <1>3, ParentsNone DEF Complete, Closed
<1>7. Staged
  BY <1>3 DEF Staged
<1>8. InSequence
  <2>1. DOMAIN replayed = {} /\ Len(replayed) = 0
    BY <1>3
  <2> QED
    BY <1>3, <2>1 DEF InSequence, IsInjective
<1>9. FinalInv
  BY <1>3 DEF FinalInv
<1>10. Whereabouts
  <2>1. \A q \in Requests : 1 .. ran[q] = {} /\ sent[q] = "idle" /\ app[q] = "idle"
    BY <1>3
  <2> QED
    BY <1>3, <2>1 DEF Whereabouts
<1> QED
  BY <1>2, <1>4, <1>5, <1>6, <1>7, <1>8, <1>9, <1>10 DEF IInv

LEMMA IInvStep == IInv /\ [Next]_vars => IInv'
<1> SUFFICES ASSUME IInv, [Next]_vars PROVE IInv'
  OBVIOUS
<1> USE DEF IInv
<1>1. Typed'
  BY TypedStep
<1>2. SourceInv' /\ RecordedInv'
  BY SourceStep
<1>3. PoolInv'
  BY <1>1, PoolStep
<1>4. Complete'
  BY CompleteStep
<1>5. Staged'
  BY <1>1, StagedStep
<1>6. InSequence'
  BY <1>1, InSequenceStep
<1>7. FinalInv'
  BY FinalStep
<1>8. Whereabouts'
  BY <1>1, WhereaboutsStep
<1> QED
  BY <1>1, <1>2, <1>3, <1>4, <1>5, <1>6, <1>7, <1>8

\* The inductive invariant holds in every reachable state.
THEOREM IInvAlways == Spec => []IInv
<1>1. Init => IInv
  BY IInvInit
<1>2. IInv /\ [Next]_vars => IInv'
  BY IInvStep
<1> QED
  BY <1>1, <1>2, PTL DEF Spec

\* The comparison of a finished run accounts for every comparable event once, in
\* accord with the links.
LEMMA DoneAccounts ==
    ASSUME IInv, run = "done"
    PROVE  /\ \A e \in Range(source) : Comparable(e) =>
                 \E k \in DOMAIN results :
                    \A l \in DOMAIN results : results[l].original = e.id <=> l = k
           /\ \A e \in Range(final) : Comparable(e) =>
                 \E k \in DOMAIN results :
                    \A l \in DOMAIN results : results[l].replayed = e.id <=> l = k
           /\ \A k \in DOMAIN results : Justified(results[k], links)
<1>1. PICK n \in Nat : Stream(source, n) /\ \A i \in 1 .. n : source[i].id # None
  BY DEF IInv, SourceInv
<1>2. PICK m \in Nat : Stream(final, m) /\ \A k \in 1 .. m : final[k].id # None
  BY DEF IInv, FinalInv
<1>3. links = LinkStreams(source, final) /\ results = CompareRun(source, final, links)
  BY DEF IInv, FinalInv
<1>4. Pairs(links, source, n, final, m)
  BY <1>1, <1>2, <1>3, LinksPair
<1>5. /\ \A i \in 1 .. n : Comparable(source[i]) =>
            \E k \in DOMAIN results :
               \A l \in DOMAIN results : results[l].original = source[i].id <=> l = k
      /\ \A j \in 1 .. m : Comparable(final[j]) =>
            \E k \in DOMAIN results :
               \A l \in DOMAIN results : results[l].replayed = final[j].id <=> l = k
      /\ \A k \in DOMAIN results : Justified(results[k], links)
  BY <1>1, <1>2, <1>3, <1>4, ComparisonAccounts
<1>6. /\ \A e \in Range(source) : \E i \in 1 .. n : e = source[i]
      /\ \A e \in Range(final) : \E j \in 1 .. m : e = final[j]
  BY <1>1, <1>2 DEF Stream, Range
<1> QED
  BY <1>5, <1>6

\* The types hold, and a stored event's parent is a stored event, whatever is lost,
\* aborted or late.
THEOREM TypeOKAlways == Spec => []TypeOK
<1>1. IInv => TypeOK
  <2> SUFFICES ASSUME IInv PROVE TypeOK
    OBVIOUS
  <2>1. \A e \in rows : /\ e.seq \in Nat
                        /\ setup.target = "http" => e.parent \in Ids \cup {NoParent}
    BY DEF IInv, Complete, Closed, ParentsIn, Ids
  <2>2. ASSUME NEW k \in DOMAIN results
        PROVE  results[k].category \in {"match", "different", "missing", "new", "error"}
    <3>1. CASE run = "done"
      BY <3>1, DoneAccounts DEF Justified
    <3>2. CASE run # "done"
      <4>1. DOMAIN results = {}
        BY <3>2 DEF IInv, Staged
      <4> QED
        BY <4>1
    <3> QED
      BY <3>1, <3>2
  <2> QED
    BY <2>1, <2>2 DEF IInv, Typed, TypeOK
<1> QED
  BY <1>1, IInvAlways, PTL

\* Every comparable event of the source and of the run has exactly one result, and
\* a result pairs two events only if they are linked: a replay is accounted for.
THEOREM AccountedAlways == Spec => []Accounted
<1>1. IInv => Accounted
  <2> SUFFICES ASSUME IInv, run = "done" PROVE Accounted
    BY DEF Accounted
  <2>1. ASSUME NEW e \in Range(source), Comparable(e)
        PROVE  Cardinality({k \in DOMAIN results : results[k].original = e.id}) = 1
    <3>1. PICK k \in DOMAIN results :
             \A l \in DOMAIN results : results[l].original = e.id <=> l = k
      BY <2>1, DoneAccounts
    <3>2. {l \in DOMAIN results : results[l].original = e.id} = {k}
      BY <3>1
    <3> QED
      BY <3>2, FS_Singleton
  <2>2. ASSUME NEW e \in Range(final), Comparable(e)
        PROVE  Cardinality({k \in DOMAIN results : results[k].replayed = e.id}) = 1
    <3>1. PICK k \in DOMAIN results :
             \A l \in DOMAIN results : results[l].replayed = e.id <=> l = k
      BY <2>2, DoneAccounts
    <3>2. {l \in DOMAIN results : results[l].replayed = e.id} = {k}
      BY <3>1
    <3> QED
      BY <3>2, FS_Singleton
  <2>3. \A k \in DOMAIN results : Justified(results[k], links)
    BY DoneAccounts
  <2> QED
    BY <2>1, <2>2, <2>3 DEF Accounted, Justified
<1> QED
  BY <1>1, IInvAlways, PTL

\* Without faults every statement the target ran has a result in the comparison,
\* whichever request's flush carried its events.
THEOREM EveryStatementComparedAlways == Spec => []EveryStatementCompared
<1>1. IInv => EveryStatementCompared
  <2> SUFFICES ASSUME IInv, run = "done", setup.target = "http", ~ faulted,
                      NEW q \in Requests, NEW n \in 1 .. ran[q]
               PROVE  \E k \in DOMAIN results :
                         results[k].replayed = <<"run", q, "postgres.result", n>>
    BY DEF EveryStatementCompared
  <2>1. HasResult(Range(final), q, n)
    BY DEF IInv, Whereabouts
  <2>2. PICK e \in Range(final) : e.id = <<"run", q, "postgres.result", n>>
    BY <2>1 DEF HasResult, RunId
  <2>3. Comparable(e)
    <3>1. PICK m \in Nat : Stream(final, m) /\ \A k \in 1 .. m : final[k].id[3] = final[k].type
      BY DEF IInv, FinalInv
    <3>2. PICK k \in 1 .. m : e = final[k]
      BY <3>1 DEF Stream, Range
    <3> QED
      BY <2>2, <3>1, <3>2 DEF Comparable
  <2>4. PICK k \in DOMAIN results :
           \A l \in DOMAIN results : results[l].replayed = e.id <=> l = k
    BY <2>3, DoneAccounts
  <2> QED
    BY <2>2, <2>4
<1> QED
  BY <1>1, IInvAlways, PTL

\* A finished source never makes the run fail with an exception, and a run that
\* ended otherwise than by a fault has a row that says so.
THEOREM OutcomeRecordedAlways == Spec => []OutcomeRecorded
<1>1. IInv => OutcomeRecorded
  BY DEF IInv, Staged, OutcomeRecorded
<1> QED
  BY <1>1, IInvAlways, PTL

-----------------------------------------------------------------------------
(* Links follow requests *)

\* The n events of s belong to requests, and no request begins before an earlier one.
InRank(s, n, origin) ==
    \A k \in 1 .. n : \E q \in Requests :
        /\ s[k].corr = <<origin, q>> /\ s[k].id[2] = q /\ s[k].id[3] = s[k].type
        /\ \A p \in 1 .. q : \E j \in 1 .. k : s[j].corr = <<origin, p>>

\* Then the groups before one are those of the requests before its own.
LEMMA RankIs ==
    ASSUME NEW n \in Nat, NEW s, DOMAIN s = 1 .. n, NEW origin, InRank(s, n, origin),
           NEW i \in 1 .. n, NEW q \in Requests, s[i].corr = <<origin, q>>
    PROVE  Signature(s, i).group = q - 1
<1>1. PICK f : /\ BeginsAt(s, i, f)
               /\ Signature(s, i) = [group      |-> Cardinality(GroupsBefore(s, f)),
                                     type       |-> s[i].type,
                                     occurrence |-> Cardinality(AlikeBefore(s, i))]
  BY SignatureIs
<1>2. Signature(s, i).group = Cardinality(GroupsBefore(s, f))
  BY ONLY <1>1
<1>3. /\ f \in 1 .. n /\ s[f].corr = <<origin, q>>
      /\ \A j \in 1 .. f - 1 : s[j].corr # <<origin, q>>
  BY <1>1 DEF BeginsAt
<1>4. q \in Nat \ {0} /\ Requests = 1 .. N /\ N \in Nat
  BY ReplayAssumption DEF Requests
<1>5. ASSUME NEW p \in 1 .. q - 1
      PROVE  <<origin, p>> \in GroupsBefore(s, f)
  <2>1. PICK r \in Requests :
           /\ s[f].corr = <<origin, r>>
           /\ \A x \in 1 .. r : \E j \in 1 .. f : s[j].corr = <<origin, x>>
    BY <1>3 DEF InRank
  <2>2. r = q /\ p \in 1 .. r
    BY <1>3, <1>4, <2>1
  <2>3. PICK j \in 1 .. f : s[j].corr = <<origin, p>>
    BY <2>1, <2>2
  <2>4. j # f
    BY <1>3, <1>4, <2>3
  <2>5. j \in 1 .. f - 1
    BY <1>3, <2>4
  <2> QED
    BY <2>3, <2>5 DEF GroupsBefore
<1>6. ASSUME NEW j \in 1 .. f - 1
      PROVE  \E p \in 1 .. q - 1 : s[j].corr = <<origin, p>>
  <2>1. j \in 1 .. n
    BY <1>3
  <2>2. PICK r \in Requests :
           /\ s[j].corr = <<origin, r>>
           /\ \A x \in 1 .. r : \E l \in 1 .. j : s[l].corr = <<origin, x>>
    BY <2>1 DEF InRank
  <2>3. q \notin 1 .. r
    <3> SUFFICES ASSUME q \in 1 .. r PROVE FALSE
      OBVIOUS
    <3>1. PICK l \in 1 .. j : s[l].corr = <<origin, q>>
      BY <2>2
    <3>2. l \in 1 .. f - 1
      BY <1>3
    <3> QED
      BY <1>3, <3>1, <3>2
  <2>4. r \in 1 .. q - 1
    BY <1>4, <2>3
  <2> QED
    BY <2>2, <2>4
<1> DEFINE g == [p \in 1 .. q - 1 |-> <<origin, p>>]
<1>7. g \in Bijection(1 .. q - 1, GroupsBefore(s, f))
  <2>1. \A y \in GroupsBefore(s, f) : \E p \in 1 .. q - 1 : y = <<origin, p>>
    BY <1>6 DEF GroupsBefore
  <2>2. g \in [1 .. q - 1 -> GroupsBefore(s, f)]
    BY <1>5
  <2>3. \A x, y \in 1 .. q - 1 : g[x] = g[y] => x = y
    OBVIOUS
  <2>4. \A y \in GroupsBefore(s, f) : \E x \in 1 .. q - 1 : g[x] = y
    BY <2>1
  <2> HIDE DEF g
  <2> QED
    BY <2>2, <2>3, <2>4, BijectionMeans
<1> HIDE DEF g
<1>8. IsFiniteSet(1 .. q - 1) /\ Cardinality(1 .. q - 1) = q - 1
  <2>1. 1 \in Int /\ q - 1 \in Int /\ (1 <= q - 1 \/ q - 1 = 0)
    BY <1>4
  <2>2. IsFiniteSet(1 .. q - 1)
    BY <2>1, FS_Interval
  <2>3. Cardinality(1 .. q - 1) = IF 1 > q - 1 THEN 0 ELSE (q - 1) - 1 + 1
    BY <2>1, FS_Interval
  <2> QED
    BY <2>1, <2>2, <2>3
<1>9. Cardinality(GroupsBefore(s, f)) = q - 1
  BY <1>7, <1>8, FS_Bijection DEF ExistsBijection
<1> QED
  BY <1>2, <1>9

\* A stream whose events have their places for sequences.
Placed(s, n, origin) ==
    Stream(s, n) /\ (\A k \in 1 .. n : s[k].seq = k - 1) /\ InRank(s, n, origin)

LEMMA SortedInRank ==
    ASSUME NEW n, NEW s, NEW origin, Placed(s, n, origin), NEW o, PutsInOrder(o, n, s)
    PROVE  InRank([k \in 1 .. n |-> s[o[k]]], n, origin)
<1> DEFINE O == [k \in 1 .. n |-> s[o[k]]]
<1>1. /\ n \in Nat /\ \A k \in 1 .. n : o[k] \in 1 .. n
      /\ \A k \in 1 .. n : \E l \in 1 .. n : o[l] = k
      /\ \A j, k \in 1 .. n : o[j] = o[k] => j = k
      /\ \A j, k \in 1 .. n : j <= k => s[o[j]].seq <= s[o[k]].seq
      /\ \A k \in 1 .. n : s[k].seq = k - 1
  BY DEF Placed, Stream, PutsInOrder
<1>2. \A k \in 1 .. n : O[k] = s[o[k]]
  OBVIOUS
<1> HIDE DEF O
<1>3. ASSUME NEW l \in 1 .. n, NEW k \in 1 .. n, o[l] <= o[k]
      PROVE  l \in 1 .. k
  <2>1. k <= l => o[k] - 1 <= o[l] - 1
    <3>1. s[o[k]].seq = o[k] - 1 /\ s[o[l]].seq = o[l] - 1
      BY <1>1
    <3>2. k <= l => s[o[k]].seq <= s[o[l]].seq
      BY <1>1
    <3> QED
      BY <3>1, <3>2
  <2>2. k <= l => o[k] = o[l]
    BY <1>1, <1>3, <2>1
  <2>3. k <= l => k = l
    BY <1>1, <2>2
  <2> QED
    BY <1>1, <2>3
<1>4. ASSUME NEW k \in 1 .. n
      PROVE  \E q \in Requests :
                /\ O[k].corr = <<origin, q>> /\ O[k].id[2] = q /\ O[k].id[3] = O[k].type
                /\ \A p \in 1 .. q : \E j \in 1 .. k : O[j].corr = <<origin, p>>
  <2>1. PICK q \in Requests :
           /\ s[o[k]].corr = <<origin, q>> /\ s[o[k]].id[2] = q
           /\ s[o[k]].id[3] = s[o[k]].type
           /\ \A p \in 1 .. q : \E j \in 1 .. o[k] : s[j].corr = <<origin, p>>
    <3>1. o[k] \in 1 .. n /\ InRank(s, n, origin)
      BY <1>1 DEF Placed
    <3> QED
      BY <3>1 DEF InRank
  <2>2. ASSUME NEW p \in 1 .. q
        PROVE  \E j \in 1 .. k : O[j].corr = <<origin, p>>
    <3>1. PICK j \in 1 .. o[k] : s[j].corr = <<origin, p>>
      BY <2>1
    <3>2. j \in 1 .. n
      BY <1>1
    <3>3. PICK l \in 1 .. n : o[l] = j
      BY <1>1, <3>2
    <3>4. l \in 1 .. k
      BY <1>1, <1>3, <3>3
    <3> QED
      BY <1>2, <3>1, <3>3, <3>4
  <2> QED
    BY <1>2, <2>1, <2>2
<1> QED
  BY <1>4 DEF InRank, O

LEMMA LinksInRank ==
    ASSUME NEW n, NEW s, Placed(s, n, "source"), NEW m, NEW t, Placed(t, m, "run"),
           NEW p \in LinkStreams(s, t)
    PROVE  p[1][2] = p[2][2] /\ p[1][3] = p[2][3]
<1>1. Stream(s, n) /\ Stream(t, m) /\ n \in Nat /\ m \in Nat
  BY DEF Placed, Stream
<1>2. PICK o, r : /\ PutsInOrder(o, n, s) /\ PutsInOrder(r, m, t)
                  /\ LinkStreams(s, t) = LinksIn(s, n, o, t, m, r)
  BY <1>1, LinksAre
<1>0. PICK O, R : O = [k \in 1 .. n |-> s[o[k]]] /\ R = [k \in 1 .. m |-> t[r[k]]]
  OBVIOUS
<1>3. /\ InRank(O, n, "source") /\ InRank(R, m, "run")
      /\ DOMAIN o = 1 .. n /\ DOMAIN r = 1 .. m
  <2>1. InRank(O, n, "source")
    BY <1>0, <1>2, SortedInRank
  <2>2. InRank(R, m, "run")
    BY <1>0, <1>2, SortedInRank
  <2> QED
    BY <1>2, <2>1, <2>2 DEF PutsInOrder
<1>4. PICK b \in (1 .. n) \X (1 .. m) : /\ p = <<s[o[b[1]]].id, t[r[b[2]]].id>>
                                        /\ Linked(s, o, t, r, b[1], b[2])
  BY <1>2 DEF LinksIn
<1>5. PICK i \in 1 .. n, j \in 1 .. m : i = b[1] /\ j = b[2]
  OBVIOUS
<1>6. /\ Signature(O, i) = Signature(R, j) /\ p = <<O[i].id, R[j].id>>
      /\ DOMAIN O = 1 .. n /\ DOMAIN R = 1 .. m
  BY <1>0, <1>3, <1>4, <1>5 DEF Linked
<1>7. PICK q \in Requests : O[i].corr = <<"source", q>> /\ O[i].id[2] = q
                            /\ O[i].id[3] = O[i].type
  BY <1>3 DEF InRank
<1>8. PICK u \in Requests : R[j].corr = <<"run", u>> /\ R[j].id[2] = u
                            /\ R[j].id[3] = R[j].type
  BY <1>3 DEF InRank
<1>9. q - 1 = u - 1
  <2>1. Signature(O, i).group = q - 1
    <3>1. n \in Nat /\ DOMAIN O = 1 .. n /\ InRank(O, n, "source")
      BY <1>1, <1>3, <1>6
    <3>2. \A k \in 1 .. n, z \in Requests :
             O[k].corr = <<"source", z>> => Signature(O, k).group = z - 1
      BY <3>1, RankIs
    <3> QED
      BY <1>7, <3>2
  <2>2. Signature(R, j).group = u - 1
    <3>1. m \in Nat /\ DOMAIN R = 1 .. m /\ InRank(R, m, "run")
      BY <1>1, <1>3, <1>6
    <3>2. \A k \in 1 .. m, z \in Requests :
             R[k].corr = <<"run", z>> => Signature(R, k).group = z - 1
      BY <3>1, RankIs
    <3> QED
      BY <1>8, <3>2
  <2> QED
    BY <1>6, <2>1, <2>2
<1>10. O[i].type = R[j].type
  <2>1. Signature(O, i).type = O[i].type
    BY <1>1, <1>6, SignatureIs
  <2>2. Signature(R, j).type = R[j].type
    BY <1>1, <1>6, SignatureIs
  <2> QED
    BY <1>6, <2>1, <2>2
<1>11. q = u
  BY <1>9 DEF Requests
<1> QED
  BY <1>6, <1>7, <1>8, <1>10, <1>11

\* The event e is one of request q.
InGroup(e, origin, q) == e.corr = <<origin, q>> /\ e.id[2] = q /\ e.id[3] = e.type

\* Every event of S belongs to a request, and each request up to its own has an event
\* that precedes all others of that request and of later ones.
Requested(S, origin) ==
    \A e \in S : \E q \in Requests :
        /\ InGroup(e, origin, q)
        /\ \A p \in 1 .. q : \E r \in S :
              /\ r.corr = <<origin, p>>
              /\ \A f \in S : f.corr[2] >= p => r = f \/ r.ts < f.ts

\* Such events are in rank when they are arranged as finish_recording does.
LEMMA ArrangedInRank ==
    ASSUME NEW S, NEW n \in Nat, n = Cardinality(S), NEW origin, Requested(S, origin),
           NEW from, Arranged(from, S)
    PROVE  InRank(from, n, origin)
<1>1. /\ \A k \in 1 .. n : from[k] \in S
      /\ \A x \in S : \E k \in 1 .. n : from[k] = x
      /\ \A j, k \in 1 .. n :
            j <= k /\ from[j].corr = from[k].corr => ~ Before(from[k], from[j])
      /\ \A j, k \in 1 .. n :
            j <= k /\ IsHead(from, j) /\ IsHead(from, k) => ~ Before(from[k], from[j])
  BY DEF Arranged, Enumerates
<1>2. Requests = 1 .. N /\ N \in Nat
  BY ReplayAssumption DEF Requests
<1>3. ASSUME NEW k \in 1 .. n
      PROVE  \E h \in 1 .. k : IsHead(from, h) /\ from[h].corr = from[k].corr
  <2> DEFINE H == {j \in 1 .. k : from[j].corr = from[k].corr}
  <2>1. H \in SUBSET Nat /\ k \in H
    OBVIOUS
  <2>2. PICK h \in H : \A j \in H : h <= j
    <3> HIDE DEF H
    <3> QED
      BY <2>1, LeastExists
  <2>3. \A j \in 1 .. h - 1 : j \in 1 .. k /\ ~ (h <= j)
    OBVIOUS
  <2>4. \A j \in 1 .. h - 1 : from[j].corr # from[h].corr
    BY <2>2, <2>3
  <2> QED
    BY <2>4 DEF IsHead
<1>4. ASSUME NEW k \in 1 .. n
      PROVE  \E q \in Requests :
                /\ InGroup(from[k], origin, q)
                /\ \A p \in 1 .. q : \E j \in 1 .. k : from[j].corr = <<origin, p>>
  <2>1. PICK q \in Requests :
           /\ InGroup(from[k], origin, q)
           /\ \A p \in 1 .. q : \E r \in S :
                 /\ r.corr = <<origin, p>>
                 /\ \A f \in S : f.corr[2] >= p => r = f \/ r.ts < f.ts
    BY <1>1 DEF Requested
  <2>2. ASSUME NEW p \in 1 .. q
        PROVE  \E j \in 1 .. k : from[j].corr = <<origin, p>>
    <3>1. PICK r \in S : /\ r.corr = <<origin, p>>
                         /\ \A f \in S : f.corr[2] >= p => r = f \/ r.ts < f.ts
      BY <2>1
    <3>2. PICK l \in 1 .. n : from[l] = r
      BY <1>1
    <3>3. PICK h \in 1 .. l : IsHead(from, h) /\ from[h].corr = <<origin, p>>
      BY <1>3, <3>1, <3>2
    <3>4. PICK g \in 1 .. k : IsHead(from, g) /\ from[g].corr = <<origin, q>>
      BY <1>3, <2>1 DEF InGroup
    <3>5. h \in 1 .. n /\ g \in 1 .. n /\ from[h] \in S /\ from[g] \in S
      BY <1>1
    <3>6. from[h] = r
      <4>1. ~ Before(r, from[h])
        BY <1>1, <3>1, <3>2, <3>3, <3>5
      <4>2. p \in Int /\ from[h].corr[2] = p
        BY <1>2, <3>3
      <4> QED
        BY <3>1, <3>5, <4>1, <4>2 DEF Before
    <3>7. h <= g
      <4> SUFFICES ASSUME g < h PROVE FALSE
        BY <3>5
      <4>1. ~ Before(r, from[g])
        BY <1>1, <3>3, <3>4, <3>5, <3>6
      <4>2. p <= q /\ from[g].corr[2] = q
        BY <1>2, <3>4
      <4>3. r = from[g] \/ r.ts < from[g].ts
        BY <1>2, <3>1, <3>5, <4>2
      <4>4. from[g] = from[h]
        BY <3>6, <4>1, <4>3 DEF Before
      <4> QED
        BY <3>3, <3>5, <4>4 DEF IsHead
    <3>8. h \in 1 .. k
      BY <3>7
    <3> QED
      BY <3>3, <3>8
  <2> QED
    BY <2>1, <2>2
<1> QED
  BY <1>4 DEF InRank, InGroup

\* So are the rows finish_recording numbered.
LEMMA FinishedPlaced ==
    ASSUME NEW S, IsFiniteSet(S), NEW origin, Requested(S, origin),
           NEW C, NEW from, FinishedAs(C, from, S)
    PROVE  Placed(C, Cardinality(S), origin)
<1>1. PICK n \in Nat : n = Cardinality(S)
  BY FS_CardinalityType
<1>2. /\ Arranged(from, S) /\ Stream(C, n)
      /\ \A k \in 1 .. n : /\ C[k].seq = k - 1 /\ C[k].id = from[k].id
                           /\ C[k].type = from[k].type /\ C[k].corr = from[k].corr
  BY <1>1 DEF FinishedAs
<1>3. InRank(from, n, origin)
  BY <1>1, <1>2, ArrangedInRank
<1>4. InRank(C, n, origin)
  <2>1. ASSUME NEW k \in 1 .. n
        PROVE  \E q \in Requests :
                  /\ C[k].corr = <<origin, q>> /\ C[k].id[2] = q /\ C[k].id[3] = C[k].type
                  /\ \A p \in 1 .. q : \E j \in 1 .. k : C[j].corr = <<origin, p>>
    <3>1. PICK q \in Requests :
             /\ from[k].corr = <<origin, q>> /\ from[k].id[2] = q
             /\ from[k].id[3] = from[k].type
             /\ \A p \in 1 .. q : \E j \in 1 .. k : from[j].corr = <<origin, p>>
      BY <1>3 DEF InRank
    <3>2. \A j \in 1 .. k : C[j].corr = from[j].corr
      BY <1>2
    <3>3. /\ C[k].corr = <<origin, q>> /\ C[k].id[2] = q /\ C[k].id[3] = C[k].type
          /\ \A p \in 1 .. q : \E j \in 1 .. k : C[j].corr = <<origin, p>>
      <4>1. C[k].corr = <<origin, q>> /\ C[k].id[2] = q /\ C[k].id[3] = C[k].type
        BY <1>2, <3>1
      <4>2. \A p \in 1 .. q : \E j \in 1 .. k : C[j].corr = <<origin, p>>
        BY <3>1, <3>2
      <4> QED
        BY <4>1, <4>2
    <3> QED
      BY <3>3
  <2> QED
    BY <2>1 DEF InRank
<1> QED
  BY <1>1, <1>2, <1>4 DEF Placed

LEMMA SourceRequested ==
    ASSUME NEW c \in [Requests -> 0 .. MaxSql], NEW a, NEW S, S \subseteq SourceRows(c, a),
           \A q \in Requests : SourceRequest(q) \in S
    PROVE  Requested(S, "source")
<1>1. Requests = 1 .. N /\ N \in Nat
  BY ReplayAssumption DEF Requests
<1>2. ASSUME NEW f \in S
      PROVE  \E q \in Requests :
                /\ InGroup(f, "source", q) /\ f.ts \in Int
                /\ \/ f = SourceRequest(q) /\ f.ts = q
                   \/ f.ts > N \/ f.ts = 100 + q
  <2>1. PICK q \in Requests :
           f.corr = <<"source", q>> /\ OfRequest(f, c, a, q) /\ f.ts \in Int
    BY SourceIs DEF Row
  <2>2. InGroup(f, "source", q)
    BY <2>1 DEF OfRequest, SourceId, InGroup
  <2>3. f = SourceRequest(q) => f.ts = q
    BY DEF SourceRequest, Event
  <2>4. f = SourceResponse(q, a) => f.ts = 100 + q
    BY DEF SourceResponse, Event
  <2>5. ASSUME NEW n \in 1 .. c[q], NEW seq, seq = SqlSeq(c, q, n),
               f = SourceQuery(q, n, seq) \/ f = SourceResult(q, n, seq)
        PROVE  f.ts > N
    <3>1. seq \in Nat
      BY <2>5, PlaceIs
    <3>2. f.ts = N + 1 + seq \/ f.ts = N + 2 + seq
      BY <2>5 DEF SourceQuery, SourceResult, Event
    <3> QED
      BY <1>1, <3>1, <3>2
  <2> QED
    BY <2>1, <2>2, <2>3, <2>4, <2>5 DEF OfRequest
<1>3. ASSUME NEW p \in Requests
      PROVE  \E r \in S : /\ r.corr = <<"source", p>>
                          /\ \A f \in S : f.corr[2] >= p => r = f \/ r.ts < f.ts
  <2>1. PICK r \in S : r = SourceRequest(p)
    OBVIOUS
  <2>2. r.corr = <<"source", p>> /\ r.ts = p
    BY <2>1 DEF SourceRequest, Event
  <2>3. ASSUME NEW f \in S, f.corr[2] >= p
        PROVE  r = f \/ r.ts < f.ts
    <3>1. PICK q \in Requests :
             /\ InGroup(f, "source", q) /\ f.ts \in Int
             /\ \/ f = SourceRequest(q) /\ f.ts = q
                \/ f.ts > N \/ f.ts = 100 + q
      BY <1>2
    <3>2. q >= p
      BY <2>3, <3>1 DEF InGroup
    <3>3. q = p => f = r \/ r.ts < f.ts
      BY <1>1, <2>1, <2>2, <3>1
    <3>4. q # p => r.ts < f.ts
      BY <1>1, <2>2, <3>1, <3>2
    <3> QED
      BY <3>3, <3>4
  <2> QED
    BY <2>2, <2>3
<1>4. ASSUME NEW e \in S
      PROVE  \E q \in Requests :
                /\ InGroup(e, "source", q)
                /\ \A p \in 1 .. q : \E r \in S :
                      /\ r.corr = <<"source", p>>
                      /\ \A f \in S : f.corr[2] >= p => r = f \/ r.ts < f.ts
  <2>1. PICK q \in Requests : InGroup(e, "source", q)
    BY <1>2
  <2>2. \A p \in 1 .. q : p \in Requests
    BY <1>1
  <2> QED
    BY <1>3, <2>1, <2>2
<1> QED
  BY <1>4 DEF Requested

\* A source from which every request is sent again.
LEMMA ResentRequested ==
    ASSUME NEW c \in [Requests -> 0 .. MaxSql], NEW a, NEW S, S \subseteq SourceRows(c, a),
           NEW from, FinishedAs(source, from, S), Resent = Requests
    PROVE  Requested(S, "source")
<1>1. ASSUME NEW q \in Requests
      PROVE  SourceRequest(q) \in S
  <2>1. PICK e \in Range(source) : e.id = SourceId(q, "http.request", 0)
    BY DEF Resent, SourceId
  <2>2. PICK k \in 1 .. Cardinality(S) : e = source[k]
    BY <2>1 DEF FinishedAs, Stream, Range
  <2>3. PICK f \in S : f.id = SourceId(q, "http.request", 0)
    BY <2>1, <2>2 DEF FinishedAs
  <2>4. /\ SourceRequest(q) \in SourceRows(c, a) /\ f \in SourceRows(c, a)
        /\ SourceRequest(q).id = f.id
    BY <2>3, SourceHas
  <2> QED
    BY <2>4, SourceUnmixed DEF Unmixed
<1> QED
  BY <1>1, SourceRequested

\* Every event of S is older than t, and the requests are older than what belongs to
\* them or to later ones.
Timely(S, t) ==
    \A e \in S :
        /\ e.ts < t
        /\ \A r \in S : r.type = "http.request" /\ r.corr[2] <= e.corr[2] =>
                           r = e \/ r.ts < e.ts

LEMMA TimelyAdds ==
    ASSUME NEW S, NEW New, NEW T \in SUBSET (S \cup New), NEW t \in Int, NEW u \in Int, t <= u,
           Timely(S, t), \A e \in S : e.ts \in Int,
           \A e \in New : e.ts \in Int /\ t <= e.ts /\ e.ts < u,
           \A r \in New, e \in S \cup New :
              r.type = "http.request" /\ r.corr[2] <= e.corr[2] => r = e
    PROVE  Timely(T, u)
<1> SUFFICES ASSUME NEW e \in S \cup New
             PROVE  /\ e.ts < u
                    /\ \A r \in S \cup New : r.type = "http.request" /\ r.corr[2] <= e.corr[2] =>
                                                r = e \/ r.ts < e.ts
  BY DEF Timely
<1>1. e.ts < u
  BY DEF Timely
<1>2. ASSUME NEW r \in S, r.type = "http.request", r.corr[2] <= e.corr[2]
      PROVE  r = e \/ r.ts < e.ts
  <2>1. CASE e \in S
    BY <1>2, <2>1 DEF Timely
  <2>2. CASE e \in New
    BY <2>2 DEF Timely
  <2> QED
    BY <2>1, <2>2
<1> QED
  BY <1>1, <1>2

\* The runner sends in order and keeps its events until they are stored; an event is
\* made after its request was sent.
SentInOrder ==
    \A q \in Requests : sent[q] # "idle" => \A p \in Resent : p < q => sent[p] # "idle"

OnTime == setup.target = "http" /\ setup.skew = 0 => Timely(Pool, now)

Stored == run = "finishing" => Range(replayed) \subseteq rows

Orderly == SentInOrder /\ OnTime /\ Stored

LEMMA SentInOrderStep ==
    ASSUME Typed, SentInOrder, [Next]_vars
    PROVE  SentInOrder'
<1> USE DEF config, appVars, runner
<1>1. Resent' = Resent /\ Resent \subseteq Requests /\ DOMAIN sent = Requests
  BY ConfigStays DEF Resent, Typed
<1>2. CASE sent' = sent
  BY <1>1, <1>2 DEF SentInOrder
<1>3. ASSUME NEW q \in Requests, Send(q)
      PROVE  SentInOrder'
  <2>1. /\ sent' = [sent EXCEPT ![q] = "open"]
        /\ \A p \in Resent : p < q => sent[p] # "idle"
    BY <1>3 DEF Send
  <2>2. ASSUME NEW r \in Requests, sent'[r] # "idle", NEW p \in Resent, p < r
        PROVE  sent'[p] # "idle"
    <3>1. sent[p] # "idle"
      <4>1. CASE r = q
        BY <2>1, <2>2, <4>1
      <4>2. CASE r # q
        BY <1>1, <2>1, <2>2, <4>2 DEF SentInOrder
      <4> QED
        BY <4>1, <4>2
    <3> QED
      BY <1>1, <2>1, <3>1
  <2> QED
    BY <1>1, <2>2 DEF SentInOrder
<1>4. ASSUME NEW q \in Requests, Answer(q) \/ GiveUp(q)
      PROVE  SentInOrder'
  <2>1. PICK outcome \in {"answered", "failed"} :
           sent[q] = "open" /\ sent' = [sent EXCEPT ![q] = outcome]
    BY <1>4 DEF Answer, GiveUp, Receive
  <2>2. \A p \in Requests : sent'[p] # "idle" <=> sent[p] # "idle"
    BY <1>1, <2>1
  <2> QED
    BY <1>1, <2>2 DEF SentInOrder
<1>5. ASSUME NEW q \in Requests, TargetStep(q)
      PROVE  sent' = sent
  BY <1>5 DEF TargetStep, Arrive, RunSql, Respond, AppRaises, IngestAdmit, IngestAppend,
              FlushFails
<1>6. CASE RunnerStep \/ Abort \/ UNCHANGED vars
  <2>1. sent' = sent
    BY <1>6 DEF RunnerStep, Open, Refuse, ReplayMock, Gathered, AppendReplayed, FinishRead,
                FinishCommit, LinkEvents, Compare, Abort, vars
  <2> QED
    BY <1>2, <2>1
<1> QED
  BY <1>2, <1>3, <1>4, <1>5, <1>6 DEF Next

LEMMA StoredStep ==
    ASSUME Stored, [Next]_vars
    PROVE  Stored'
<1> USE DEF config, appVars, runner
<1>1. CASE run' # "finishing"
  BY <1>1 DEF Stored
<1>2. CASE run = "finishing" /\ replayed' = replayed /\ rows \subseteq rows'
  BY <1>2 DEF Stored
<1>3. CASE AppendReplayed
  BY <1>3 DEF AppendReplayed, Stored
<1>4. CASE RunnerStep
  BY <1>1, <1>3, <1>4 DEF RunnerStep, Open, Refuse, ReplayMock, Gathered, FinishRead,
                          FinishCommit, LinkEvents, Compare
<1>5. CASE Abort
  BY <1>1, <1>5 DEF Abort
<1>6. ASSUME NEW q \in Requests, Send(q) \/ Answer(q) \/ GiveUp(q)
      PROVE  Stored'
  BY <1>1, <1>6 DEF Send, Answer, GiveUp, Receive
<1>7. ASSUME NEW q \in Requests, TargetStep(q)
      PROVE  Stored'
  <2>1. run' = run /\ replayed' = replayed /\ rows \subseteq rows'
    BY <1>7 DEF TargetStep, Arrive, RunSql, Respond, AppRaises, IngestAdmit, IngestAppend,
                FlushFails
  <2> QED
    BY <1>1, <1>2, <2>1
<1>8. CASE UNCHANGED vars
  BY <1>1, <1>2, <1>8 DEF vars
<1> QED
  BY <1>4, <1>5, <1>6, <1>7, <1>8 DEF Next

\* An event of the pool belongs to a request that was sent.
LEMMA PoolSent ==
    ASSUME PoolInv, setup.target = "http", NEW e \in Pool
    PROVE  \E q \in Requests : /\ e.corr = <<"run", q>> /\ e.corr[2] = q /\ sent[q] # "idle"
                               /\ e.ts \in Int /\ MadeFor(e, q)
  BY DEF PoolInv, Made, Row

LEMMA OnTimeStep ==
    ASSUME Typed, Typed', RecordedInv, PoolInv, Staged, InSequence, SentInOrder, OnTime,
           [Next]_vars
    PROVE  OnTime'
<1> USE DEF config, appVars, runner
<1>0. /\ Requests = 1 .. N /\ N \in Nat /\ now \in Nat /\ now' \in Nat
      /\ setup' = setup
  BY ReplayAssumption, ConfigStays DEF Requests, Typed
<1> SUFFICES ASSUME setup.target = "http", setup.skew = 0
             PROVE  Timely(Pool, now)'
  BY <1>0 DEF OnTime
<1>1. Timely(Pool, now) /\ \A e \in Pool : e.ts \in Int
  BY PoolSent DEF OnTime
<1>2. PICK P, t, Q, u : P = Pool /\ t = now /\ Q = Pool' /\ u = now'
  OBVIOUS
<1>3. ASSUME NEW New, Q \subseteq P \cup New, t <= u,
             \A e \in New : e.ts \in Int /\ t <= e.ts /\ e.ts < u,
             \A r \in New, e \in P \cup New :
                r.type = "http.request" /\ r.corr[2] <= e.corr[2] => r = e
      PROVE  Timely(Pool, now)'
  <2>1. t \in Int /\ u \in Int /\ Timely(P, t) /\ \A e \in P : e.ts \in Int
    BY <1>0, <1>1, <1>2
  <2>2. Timely(Q, u)
    BY <1>3, <2>1, TimelyAdds
  <2> QED
    BY <1>2, <2>2 DEF Timely
<1>4. CASE Quiet
  <2>1. PICK New : New = {}
    OBVIOUS
  <2>2. Q \subseteq P \cup New /\ t <= u
    BY <1>0, <1>2, <1>4 DEF Quiet
  <2>3. /\ \A e \in New : e.ts \in Int /\ t <= e.ts /\ e.ts < u
        /\ \A r \in New, e \in P \cup New :
              r.type = "http.request" /\ r.corr[2] <= e.corr[2] => r = e
    BY <2>1
  <2> QED
    BY <1>3, <2>2, <2>3
<1>5. ASSUME NEW q \in Requests, Send(q)
      PROVE  Timely(Pool, now)'
  <2>1. PICK e : e = Event("run", q, "http.request", 0, now, sequence, NoParent, "ok")
    OBVIOUS
  <2>2. /\ run = "replaying" /\ q \in Resent /\ sent[q] = "idle" /\ now' = now + 1
        /\ replayed' = Append(replayed, e) /\ UNCHANGED <<queue, outbox, rows, status>>
    BY <1>5, <2>1 DEF Send, Tick
  <2>3. Pool' \subseteq Pool \cup {e}
    BY <2>2, AppendPools
  <2>4. e.ts = now /\ e.corr[2] = q
    BY <2>1 DEF Event
  <2>5. ASSUME NEW f \in Pool, q <= f.corr[2]
        PROVE  FALSE
    <3>1. PICK p \in Requests : f.corr[2] = p /\ sent[p] # "idle"
      BY PoolSent
    <3>2. q = p \/ q < p
      BY <1>0, <2>5, <3>1
    <3> QED
      BY <2>2, <3>1, <3>2 DEF SentInOrder
  <2>6. Q \subseteq P \cup {e}
    BY <1>2, <2>3
  <2>7. \A r \in {e}, f \in P \cup {e} :
           r.type = "http.request" /\ r.corr[2] <= f.corr[2] => r = f
    BY <1>2, <2>4, <2>5
  <2>8. t <= u /\ \A f \in {e} : f.ts \in Int /\ t <= f.ts /\ f.ts < u
    BY <1>0, <1>2, <2>2, <2>4
  <2> QED
    BY <1>3, <2>6, <2>7, <2>8
<1>6. ASSUME NEW q \in Requests, Answer(q) \/ GiveUp(q)
      PROVE  Timely(Pool, now)'
  <2>1. PICK shape, outcome : /\ Receive(q, shape, outcome)
                              /\ UNCHANGED <<queue, outbox, rows, status>>
    BY <1>6 DEF Answer, GiveUp
  <2>2. PICK e : e = Event("run", q, "http.response", 0, now, sequence,
                           <<"run", q, "http.request", 0>>, shape)
    OBVIOUS
  <2>3. run = "replaying" /\ now' = now + 1 /\ replayed' = Append(replayed, e)
    BY <2>1, <2>2 DEF Receive, Tick
  <2>4. Pool' \subseteq Pool \cup {e}
    BY <2>1, <2>3, AppendPools
  <2>5. e.ts = now /\ e.type = "http.response"
    BY <2>2 DEF Event
  <2>6. Q \subseteq P \cup {e}
    BY <1>2, <2>4
  <2>7. t <= u /\ \A f \in {e} : f.ts \in Int /\ t <= f.ts /\ f.ts < u
    BY <1>0, <1>2, <2>3, <2>5
  <2>8. \A r \in {e}, f \in P \cup {e} :
           r.type = "http.request" /\ r.corr[2] <= f.corr[2] => r = f
    BY <2>5
  <2> QED
    BY <1>3, <2>6, <2>7, <2>8
<1>7. ASSUME NEW q \in Requests, RunSql(q)
      PROVE  Timely(Pool, now)'
  <2>1. PICK n, c, e, f : RunsStatement(q, n, c, e, f)
    BY <1>7, RunSqlAre
  <2>2. /\ queue' = queue \o <<e, f>> /\ now' = now + 2 /\ Statement(q, n, c, e, f)
        /\ UNCHANGED <<replayed, status, outbox, rows>>
    BY <2>1 DEF RunsStatement
  <2>3. Pool' \subseteq Pool \cup {e, f}
    BY <2>2, QueuePools
  <2>4. /\ e.ts = now + setup.skew /\ f.ts = e.ts + 1
        /\ e.type = "postgres.query" /\ f.type = "postgres.result"
    BY <2>2 DEF Statement
  <2>5. e.ts = now /\ f.ts = now + 1
    BY <1>0, <2>4
  <2>6. Q \subseteq P \cup {e, f}
    BY <1>2, <2>3
  <2>7. t <= u /\ \A x \in {e, f} : x.ts \in Int /\ t <= x.ts /\ x.ts < u
    BY <1>0, <1>2, <2>2, <2>5
  <2>8. \A r \in {e, f}, g \in P \cup {e, f} :
           r.type = "http.request" /\ r.corr[2] <= g.corr[2] => r = g
    BY <2>4
  <2> QED
    BY <1>3, <2>6, <2>7, <2>8
<1>8. ~ ReplayMock
  BY DEF ReplayMock
<1> QED
  BY <1>4, <1>5, <1>6, <1>7, <1>8, QuietSteps

LEMMA SentMeans ==
    ASSUME PoolInv, setup.target = "http", NEW e \in Pool
    PROVE  \E q \in Requests : InGroup(e, "run", q) /\ sent[q] # "idle" /\ MadeFor(e, q)
  BY PoolSent DEF InGroup, MadeFor, RunId

\* What finish_recording reads has the request of every request up to the last.
LEMMA RowsRequested ==
    ASSUME Typed, PoolInv, Complete, Staged, Orderly, run = "finishing",
           setup.target = "http", setup.skew = 0, Resent = Requests
    PROVE  Requested(rows, "run")
<1>1. rows \subseteq Pool
  BY PoolHas DEF Staged
<1>2. Requests = 1 .. N /\ N \in Nat
  BY ReplayAssumption DEF Requests
<1>3. ASSUME NEW p \in Requests, sent[p] # "idle"
      PROVE  \E r \in rows : /\ r.corr = <<"run", p>>
                             /\ \A f \in rows : f.corr[2] >= p => r = f \/ r.ts < f.ts
  <2>1. PICK r \in Range(replayed) : r.id = RunId(p, "http.request", 0)
    BY <1>3 DEF Complete
  <2>2. r \in rows
    BY <2>1 DEF Orderly, Stored
  <2>3. PICK q \in Requests : InGroup(r, "run", q)
    BY <1>1, <2>2, SentMeans
  <2>4. r.type = "http.request" /\ r.corr = <<"run", p>> /\ r.corr[2] = p
    BY <2>1, <2>3 DEF InGroup, RunId
  <2>5. ASSUME NEW f \in rows, f.corr[2] >= p
        PROVE  r = f \/ r.ts < f.ts
    <3>1. PICK u \in Requests : f.corr[2] = u
      BY <1>1, PoolSent
    <3>2. r.corr[2] <= f.corr[2]
      BY <1>2, <2>4, <2>5, <3>1
    <3> QED
      BY <1>1, <2>2, <2>4, <3>2 DEF Orderly, OnTime, Timely
  <2> QED
    BY <2>2, <2>4, <2>5
<1>4. ASSUME NEW e \in rows
      PROVE  \E q \in Requests :
                /\ InGroup(e, "run", q)
                /\ \A p \in 1 .. q : \E r \in rows :
                      /\ r.corr = <<"run", p>>
                      /\ \A f \in rows : f.corr[2] >= p => r = f \/ r.ts < f.ts
  <2>1. PICK q \in Requests : InGroup(e, "run", q) /\ sent[q] # "idle"
    BY <1>1, SentMeans
  <2>2. \A p \in 1 .. q : p \in Requests /\ sent[p] # "idle"
    <3>1. \A p \in 1 .. q : p \in Requests /\ (p = q \/ p < q)
      BY <1>2, <2>1
    <3> QED
      BY <2>1, <3>1 DEF Orderly, SentInOrder
  <2> QED
    BY <1>3, <2>1, <2>2
<1> QED
  BY <1>4 DEF Requested

\* A source that was finished with all its rows, the requests among them, has its
\* requests in rank, and so has a run whose target's clock is the runner's.
SourcePlaced ==
    setup.history = "finished" /\ Resent = Requests => \E n : Placed(source, n, "source")

FinalPlaced ==
    /\ setup.target = "http" /\ setup.skew = 0 /\ Resent = Requests
    /\ run \in {"completing", "linking", "comparing", "done"}
    => \E m : Placed(final, m, "run")

LEMMA SourcePlacedInit == Init => SourcePlaced
<1> SUFFICES ASSUME Init, setup.history = "finished", Resent = Requests
             PROVE  \E n : Placed(source, n, "source")
  BY DEF SourcePlaced
<1>1. PICK c, a, S : /\ c \in [Requests -> 0 .. MaxSql] /\ S \subseteq SourceRows(c, a)
                   /\ c = setup.counts /\ a = setup.answers /\ S = setup.rows
  BY ReplayAssumption DEF Init
<1>2. PICK order \in RowOrders(S) : source = Correlated(order)
  BY <1>1 DEF Init
<1>3. IsFiniteSet(S) /\ Unmixed(S) /\ \A e \in S : Row(e)
  BY <1>1, SourceSome
<1>4. PICK from : FinishedAs(source, from, S)
  BY <1>2, <1>3, CorrelatedFinishes
<1>5. Requested(S, "source")
  BY <1>1, <1>4, ResentRequested
<1> QED
  BY <1>3, <1>4, <1>5, FinishedPlaced

LEMMA FinalPlacedStep ==
    ASSUME Typed, PoolInv, Complete, Staged, Orderly, FinalPlaced, [Next]_vars
    PROVE  FinalPlaced'
<1> USE DEF config, appVars, runner
<1>0. setup' = setup /\ Resent' = Resent
  BY ConfigStays DEF Resent
<1>1. CASE run' \notin {"completing", "linking", "comparing", "done"}
  BY <1>1 DEF FinalPlaced
<1>2. CASE final' = final /\ run \in {"completing", "linking", "comparing", "done"}
  <2> SUFFICES ASSUME setup.target = "http", setup.skew = 0, Resent = Requests
               PROVE  (\E m : Placed(final, m, "run"))'
    BY <1>0 DEF FinalPlaced
  <2>1. PICK m : Placed(final, m, "run")
    BY <1>2 DEF FinalPlaced
  <2>2. Placed(final', m, "run")
    BY <1>2, <2>1
  <2>3. Placed(final, m, "run")'
    BY <2>2 DEF Placed, Stream, InRank
  <2> QED
    BY <2>3
<1>3. CASE FinishRead
  <2> SUFFICES ASSUME setup.target = "http", setup.skew = 0, Resent = Requests
               PROVE  (\E m : Placed(final, m, "run"))'
    BY <1>0 DEF FinalPlaced
  <2>1. Requested(rows, "run")
    BY <1>3, RowsRequested DEF FinishRead
  <2>2. PICK from : FinishedAs(final', from, rows)
    BY <1>3, FinishReads
  <2>3. PICK C, m : C = final' /\ m = Cardinality(rows)
    OBVIOUS
  <2>4. Placed(C, m, "run")
    BY <2>1, <2>2, <2>3, FinishedPlaced DEF Typed
  <2>5. Placed(final', m, "run")
    BY <2>3, <2>4
  <2>6. Placed(final, m, "run")'
    BY <2>5 DEF Placed, Stream, InRank
  <2> QED
    BY <2>6
<1>4. CASE RunnerStep
  BY <1>1, <1>2, <1>3, <1>4 DEF RunnerStep, Open, Refuse, ReplayMock, Gathered, AppendReplayed,
                                FinishCommit, LinkEvents, Compare
<1>5. CASE Abort
  BY <1>1, <1>5 DEF Abort
<1>6. ASSUME NEW q \in Requests, Send(q) \/ Answer(q) \/ GiveUp(q)
      PROVE  FinalPlaced'
  BY <1>1, <1>6 DEF Send, Answer, GiveUp, Receive
<1>7. ASSUME NEW q \in Requests, TargetStep(q)
      PROVE  FinalPlaced'
  <2>1. run' = run /\ final' = final
    BY <1>7 DEF TargetStep, Arrive, RunSql, Respond, AppRaises, IngestAdmit, IngestAppend,
                FlushFails
  <2> QED
    BY <1>1, <1>2, <2>1
<1>8. CASE UNCHANGED vars
  BY <1>1, <1>2, <1>8 DEF vars
<1> QED
  BY <1>4, <1>5, <1>6, <1>7, <1>8 DEF Next

\* The inductive invariant of the links.
LInv == IInv /\ Orderly /\ SourcePlaced /\ FinalPlaced /\ LinksFollowRequests

LEMMA LInvInit == Init => LInv
<1> SUFFICES ASSUME Init PROVE LInv
  OBVIOUS
<1>1. /\ run = "called" /\ now = 0 /\ replayed = <<>> /\ queue = <<>> /\ rows = {}
      /\ links = {} /\ sent = [q \in Requests |-> "idle"]
      /\ outbox = [q \in Requests |-> {}]
  BY DEF Init
<1>2. SentInOrder /\ Stored /\ FinalPlaced /\ LinksFollowRequests
  BY <1>1 DEF SentInOrder, Stored, FinalPlaced, LinksFollowRequests
<1>3. OnTime
  <2>1. \A q \in Requests : outbox[q] = {}
    BY <1>1
  <2>2. Pool = {}
    BY <1>1, <2>1, EmptyIs DEF Pool
  <2> QED
    BY <2>2 DEF OnTime, Timely
<1> QED
  BY <1>2, <1>3, IInvInit, SourcePlacedInit DEF LInv, Orderly

LEMMA LInvStep == LInv /\ [Next]_vars => LInv'
<1> SUFFICES ASSUME LInv, [Next]_vars PROVE LInv'
  OBVIOUS
<1>1. IInv /\ Orderly /\ SourcePlaced /\ FinalPlaced /\ LinksFollowRequests
  BY DEF LInv
<1>2. /\ Typed /\ RecordedInv /\ PoolInv /\ Complete /\ Staged /\ InSequence
      /\ SentInOrder /\ OnTime /\ Stored
  BY <1>1 DEF IInv, Orderly
<1>3. IInv' /\ Typed'
  BY <1>1, IInvStep DEF IInv
<1>4. Orderly'
  <2>1. SentInOrder'
    BY <1>2, SentInOrderStep
  <2>2. OnTime'
    BY <1>2, <1>3, OnTimeStep
  <2>3. Stored'
    BY <1>2, StoredStep
  <2> QED
    BY <2>1, <2>2, <2>3 DEF Orderly
<1>5. setup' = setup /\ source' = source /\ Resent' = Resent
  BY ConfigStays DEF Resent
<1>6. SourcePlaced'
  <2> SUFFICES ASSUME setup.history = "finished", Resent = Requests
               PROVE  (\E n : Placed(source, n, "source"))'
    BY <1>5 DEF SourcePlaced
  <2>1. PICK n : Placed(source, n, "source")
    BY <1>1 DEF SourcePlaced
  <2>2. Placed(source', n, "source")
    BY <1>5, <2>1
  <2>3. Placed(source, n, "source")'
    BY <2>2 DEF Placed, Stream, InRank
  <2> QED
    BY <2>3
<1>7. FinalPlaced'
  BY <1>1, <1>2, FinalPlacedStep
<1>8. LinksFollowRequests'
  <2>1. CASE links' = links
    BY <1>1, <1>5, <2>1 DEF LinksFollowRequests
  <2>2. CASE LinkEvents
    <3>1. links' = LinkStreams(source, final) /\ run = "linking"
      BY <2>2 DEF LinkEvents
    <3> SUFFICES ASSUME setup.history = "finished", Resent = Requests,
                        setup.target = "http", setup.skew = 0, NEW p \in links'
                 PROVE  p[1][2] = p[2][2] /\ p[1][3] = p[2][3]
      BY <1>5 DEF LinksFollowRequests
    <3>2. PICK n : Placed(source, n, "source")
      BY <1>1 DEF SourcePlaced
    <3>3. PICK m : Placed(final, m, "run")
      BY <1>1, <3>1 DEF FinalPlaced
    <3> QED
      BY <3>1, <3>2, <3>3, LinksInRank
  <2>3. LinkEvents \/ links' = links
    <3> USE DEF config, appVars, runner
    <3>1. CASE RunnerStep
      BY <3>1 DEF RunnerStep, Open, Refuse, ReplayMock, Gathered, AppendReplayed, FinishRead,
                  FinishCommit, Compare
    <3>2. CASE Abort \/ UNCHANGED vars
      BY <3>2 DEF Abort, vars
    <3>3. ASSUME NEW q \in Requests, Send(q) \/ Answer(q) \/ GiveUp(q)
          PROVE  links' = links
      BY <3>3 DEF Send, Answer, GiveUp
    <3>4. ASSUME NEW q \in Requests, TargetStep(q)
          PROVE  links' = links
      BY <3>4 DEF TargetStep, Arrive, RunSql, Respond, AppRaises, IngestAdmit, IngestAppend,
                  FlushFails
    <3> QED
      BY <3>1, <3>2, <3>3, <3>4 DEF Next
  <2> QED
    BY <2>1, <2>2, <2>3
<1> QED
  BY <1>3, <1>4, <1>6, <1>7, <1>8 DEF LInv

\* When the two clocks agree, a source that was finished with all its rows and has
\* every request is linked request by request: linked events are of one type and of
\* the recorded request and the request that re-sent it, whatever other rows the
\* source lost, and whatever timeouts, errors and concurrency did to the run.
THEOREM LinksFollowRequestsAlways == Spec => []LinksFollowRequests
<1>1. Init => LInv
  BY LInvInit
<1>2. LInv /\ [Next]_vars => LInv'
  BY LInvStep
<1>3. LInv => LinksFollowRequests
  BY DEF LInv
<1> QED
  BY <1>1, <1>2, <1>3, PTL DEF Spec

-----------------------------------------------------------------------------
(* No false alarm *)

ComparableTypes == {"http.response", "postgres.result"}

\* What a comparable event carries, if g[q] answered request q.
Shape(e, g) == IF e.type = "http.response" THEN g[e.id[2]] ELSE "ok"

\* Of each request q the n events of s have the response, with g[q], and the results
\* of c[q] statements.
Whole(s, n, origin, c, g) ==
    /\ \A k \in 1 .. n : Comparable(s[k]) =>
          /\ s[k].payload.shape = Shape(s[k], g)
          /\ \E q \in Requests, v \in 0 .. MaxSql :
                /\ s[k].id = <<origin, q, s[k].type, v>>
                /\ IF s[k].type = "http.response" THEN v = 0 ELSE v \in 1 .. c[q]
    /\ \A q \in Requests :
          /\ \E k \in 1 .. n : s[k].id = <<origin, q, "http.response", 0>>
          /\ \A v \in 1 .. c[q] :
                \E k \in 1 .. n : s[k].id = <<origin, q, "postgres.result", v>>

\* The events of one type of request q.
OfType(s, n, origin, q, type) ==
    {k \in 1 .. n : s[k].corr = <<origin, q>> /\ s[k].type = type}

LEMMA OfTypeCount ==
    ASSUME NEW n, NEW s, Stream(s, n), NEW origin, InRank(s, n, origin),
           NEW c \in [Requests -> 0 .. MaxSql], NEW g, Whole(s, n, origin, c, g),
           NEW q \in Requests, NEW type \in ComparableTypes
    PROVE  LET D == OfType(s, n, origin, q, type)
           IN /\ IsFiniteSet(D)
              /\ Cardinality(D) = (IF type = "http.response" THEN 1 ELSE c[q])
<1> DEFINE D == OfType(s, n, origin, q, type)
           T == IF type = "http.response" THEN {0} ELSE 1 .. c[q]
           f == [k \in D |-> s[k].id[4]]
<1>1. n \in Nat /\ \A j, k \in 1 .. n : s[j].id = s[k].id => j = k
  BY DEF Stream
<1>2. ASSUME NEW k \in D
      PROVE  f[k] \in T /\ s[k].id = <<origin, q, type, f[k]>> /\ k \in 1 .. n
  <2>1. k \in 1 .. n /\ s[k].corr = <<origin, q>> /\ s[k].type = type
    BY DEF OfType
  <2>2. PICK u \in Requests, v \in 0 .. MaxSql :
           /\ s[k].id = <<origin, u, type, v>>
           /\ IF type = "http.response" THEN v = 0 ELSE v \in 1 .. c[u]
    BY <2>1 DEF Whole, Comparable, ComparableTypes
  <2>3. s[k].id[2] = q
    <3>1. PICK x \in Requests : s[k].corr = <<origin, x>> /\ s[k].id[2] = x
      BY <2>1 DEF InRank
    <3> QED
      BY <2>1, <3>1
  <2>4. u = q /\ f[k] = v
    BY <2>2, <2>3
  <2> QED
    BY <2>1, <2>2, <2>4
<1>3. ASSUME NEW v \in T
      PROVE  \E k \in D : f[k] = v
  <2>1. PICK k \in 1 .. n : s[k].id = <<origin, q, type, v>>
    <3>1. type = "http.response" \/ type = "postgres.result"
      BY DEF ComparableTypes
    <3> QED
      BY <3>1 DEF Whole
  <2>2. PICK x \in Requests : s[k].corr = <<origin, x>> /\ s[k].id[2] = x
                              /\ s[k].id[3] = s[k].type
    BY DEF InRank
  <2>3. x = q /\ s[k].type = type /\ s[k].id[4] = v
    BY <2>1, <2>2
  <2>4. k \in D
    BY <2>2, <2>3 DEF OfType
  <2> QED
    BY <2>3, <2>4
<1>4. \A j, k \in D : f[j] = f[k] => j = k
  <2> SUFFICES ASSUME NEW j \in D, NEW k \in D, f[j] = f[k] PROVE j = k
    OBVIOUS
  <2>1. s[j].id = s[k].id /\ j \in 1 .. n /\ k \in 1 .. n
    BY <1>2
  <2> QED
    BY <1>1, <2>1
<1>5. f \in [D -> T]
  BY <1>2
<1>6. IsFiniteSet(D)
  <2>1. D \in SUBSET (1 .. n) /\ IsFiniteSet(1 .. n)
    BY <1>1, FS_Interval DEF OfType
  <2> QED
    BY <2>1, FS_Subset
<1> HIDE DEF f, D, T
<1>7. f \in Bijection(D, T)
  BY <1>3, <1>4, <1>5, BijectionMeans
<1>8. Cardinality(T) = Cardinality(D)
  BY <1>6, <1>7, FS_Bijection DEF ExistsBijection
<1>9. Cardinality(T) = IF type = "http.response" THEN 1 ELSE c[q]
  <2>1. CASE type = "http.response"
    BY <2>1, FS_Singleton DEF T
  <2>2. CASE type # "http.response"
    <3>1. c[q] \in Nat
      BY ReplayAssumption
    <3>2. Cardinality(1 .. c[q]) = c[q]
      BY <3>1, FS_Interval
    <3> QED
      BY <2>2, <3>2 DEF T
  <2> QED
    BY <2>1, <2>2
<1> QED
  BY <1>6, <1>8, <1>9 DEF D

\* The occurrences of a type in a request are counted from 0 up to how many there are.
LEMMA OccurrencesAre ==
    ASSUME NEW n, NEW s, Stream(s, n), NEW origin, NEW q, NEW type,
           NEW M, M = Cardinality(OfType(s, n, origin, q, type))
    PROVE  /\ \A i \in OfType(s, n, origin, q, type) :
                 \E v \in 1 .. M : Cardinality(AlikeBefore(s, i)) = v - 1
           /\ \A v \in 1 .. M : \E i \in OfType(s, n, origin, q, type) :
                 Cardinality(AlikeBefore(s, i)) = v - 1
<1>1. PICK D : D = OfType(s, n, origin, q, type)
  OBVIOUS
<1>2. n \in Nat
  BY DEF Stream
<1>3. D \in SUBSET (1 .. n) /\ IsFiniteSet(D) /\ M = Cardinality(D)
  <2>1. D \in SUBSET (1 .. n) /\ IsFiniteSet(1 .. n)
    BY <1>1, <1>2, FS_Interval DEF OfType
  <2> QED
    BY <1>1, <2>1, FS_Subset
<1>4. PICK R : R = {p \in D \X D : p[1] <= p[2]}
  OBVIOUS
<1>5. /\ \A i \in D : i \in Int
      /\ \A i, j \in D : <<i, j>> \in R <=> i <= j
  <2>1. \A i \in D : i \in Int
    BY <1>3
  <2>2. \A i, j \in D : <<i, j>> \in R <=> i <= j
    BY <1>4
  <2> QED
    BY <2>1, <2>2
<1>6. TotalOrder(R, D)
  <2>1. /\ \A x \in D : <<x, x>> \in R
        /\ \A x, y \in D : <<x, y>> \in R \/ <<y, x>> \in R
    BY <1>5
  <2>2. \A x, y \in D : <<x, y>> \in R /\ <<y, x>> \in R => x = y
    BY <1>5
  <2>3. \A x, y, z \in D : <<x, y>> \in R /\ <<y, z>> \in R => <<x, z>> \in R
    BY <1>5
  <2> QED
    BY <2>1, <2>2, <2>3 DEF TotalOrder
<1>7. PICK rank : rank = [i \in D |-> Cardinality(UpTo(R, D, i))]
  OBVIOUS
<1>8. /\ rank \in [D -> 1 .. M]
      /\ \A v \in 1 .. M : \E i \in D : rank[i] = v
  <2>1. rank \in [D -> 1 .. Cardinality(D)]
    <3>1. IsFiniteSet(D) /\ TotalOrder(R, D)
      BY <1>3, <1>6
    <3> HIDE <1>3, <1>6
    <3> QED
      BY ONLY <3>1, <1>7, RankCounts
  <2>2. \A v \in 1 .. Cardinality(D) : \E i \in D : rank[i] = v
    <3>1. IsFiniteSet(D) /\ TotalOrder(R, D)
      BY <1>3, <1>6
    <3> HIDE <1>3, <1>6
    <3> QED
      BY ONLY <3>1, <1>7, RankCounts
  <2> QED
    BY <1>3, <2>1, <2>2
<1>9. ASSUME NEW i \in D
      PROVE  Cardinality(AlikeBefore(s, i)) = rank[i] - 1
  <2>1. i \in 1 .. n /\ s[i].corr = <<origin, q>> /\ s[i].type = type
    BY <1>1 DEF OfType
  <2>2. AlikeBefore(s, i) = {j \in D : j < i}
    <3>1. \A j : j \in 1 .. i - 1 <=> j \in 1 .. n /\ j < i
      BY <1>2, <2>1
    <3> QED
      BY <1>1, <2>1, <3>1 DEF AlikeBefore, OfType
  <2>3. UpTo(R, D, i) = {j \in D : j <= i}
    BY <1>5 DEF UpTo
  <2>4. PICK A : A = AlikeBefore(s, i)
    OBVIOUS
  <2>5. UpTo(R, D, i) = A \cup {i} /\ i \notin A
    <3>1. i \in Int /\ A = {j \in D : j < i}
      BY <1>5, <2>2, <2>4
    <3>2. \A j \in D : j <= i <=> j < i \/ j = i
      BY <1>5, <3>1
    <3>3. \A j : j \in UpTo(R, D, i) <=> j \in A \cup {i}
      BY <2>3, <3>1, <3>2
    <3>4. i \notin A
      BY <3>1
    <3> QED
      BY <3>3, <3>4
  <2>6. IsFiniteSet(A)
    BY <1>3, <2>2, <2>4, FS_Subset
  <2>7. Cardinality(A \cup {i}) = Cardinality(A) + 1 /\ Cardinality(A) \in Nat
    BY <2>5, <2>6, FS_AddElement, FS_CardinalityType
  <2>8. rank[i] = Cardinality(A) + 1
    BY <1>7, <2>5, <2>7
  <2> QED
    BY <2>4, <2>7, <2>8
<1>10. \A i \in D : \E v \in 1 .. M : Cardinality(AlikeBefore(s, i)) = v - 1
  BY <1>8, <1>9
<1>11. \A v \in 1 .. M : \E i \in D : Cardinality(AlikeBefore(s, i)) = v - 1
  BY <1>8, <1>9
<1> QED
  BY <1>1, <1>10, <1>11

\* So whatever one stream has to compare, another that is whole links with.
LEMMA WholeMatches ==
    ASSUME NEW n, NEW s, Stream(s, n), NEW a, InRank(s, n, a),
           NEW m, NEW t, Stream(t, m), NEW b, InRank(t, m, b),
           NEW c \in [Requests -> 0 .. MaxSql], NEW g, Whole(s, n, a, c, g), Whole(t, m, b, c, g),
           NEW i \in 1 .. n, Comparable(s[i])
    PROVE  \E j \in 1 .. m : Signature(t, j) = Signature(s, i)
<1>1. n \in Nat /\ m \in Nat /\ DOMAIN s = 1 .. n /\ DOMAIN t = 1 .. m
  BY DEF Stream
<1>2. PICK q \in Requests : s[i].corr = <<a, q>>
  BY DEF InRank
<1>3. PICK type \in ComparableTypes : type = s[i].type
  BY DEF Comparable, ComparableTypes
<1>4. PICK D, E : D = OfType(s, n, a, q, type) /\ E = OfType(t, m, b, q, type)
  OBVIOUS
<1>5. PICK M : M = Cardinality(D)
  OBVIOUS
<1>6. Cardinality(E) = M
  <2>1. Cardinality(D) = IF type = "http.response" THEN 1 ELSE c[q]
    BY <1>4, OfTypeCount
  <2>2. Cardinality(E) = IF type = "http.response" THEN 1 ELSE c[q]
    BY <1>4, OfTypeCount
  <2> QED
    BY <1>5, <2>1, <2>2
<1>7. i \in D
  BY <1>2, <1>3, <1>4 DEF OfType
<1>8. PICK v \in 1 .. M : Cardinality(AlikeBefore(s, i)) = v - 1
  BY <1>4, <1>5, <1>7, OccurrencesAre
<1>9. PICK j \in E : Cardinality(AlikeBefore(t, j)) = v - 1
  BY <1>4, <1>6, OccurrencesAre
<1>10. j \in 1 .. m /\ t[j].corr = <<b, q>> /\ t[j].type = type
  BY <1>4 DEF OfType
<1>11. Signature(s, i).group = q - 1
  BY <1>1, <1>2, RankIs
<1>12. Signature(t, j).group = q - 1
  BY <1>1, <1>10, RankIs
<1>13. Signature(s, i) = [group |-> q - 1, type |-> type, occurrence |-> v - 1]
  <2>1. PICK f : Signature(s, i) = [group      |-> Cardinality(GroupsBefore(s, f)),
                                    type       |-> s[i].type,
                                    occurrence |-> Cardinality(AlikeBefore(s, i))]
    BY <1>1, SignatureIs
  <2>2. Cardinality(GroupsBefore(s, f)) = q - 1
    BY <1>11, <2>1
  <2> QED
    BY <1>3, <1>8, <2>1, <2>2
<1>14. Signature(t, j) = [group |-> q - 1, type |-> type, occurrence |-> v - 1]
  <2>1. PICK f : Signature(t, j) = [group      |-> Cardinality(GroupsBefore(t, f)),
                                    type       |-> t[j].type,
                                    occurrence |-> Cardinality(AlikeBefore(t, j))]
    BY <1>1, <1>10, SignatureIs
  <2>2. Cardinality(GroupsBefore(t, f)) = q - 1
    BY <1>12, <2>1
  <2> QED
    BY <1>9, <1>10, <2>1, <2>2
<1> QED
  BY <1>10, <1>13, <1>14

\* The stream in the order of its sequences.
LEMMA SortedWhole ==
    ASSUME NEW n, NEW s, NEW origin, Placed(s, n, origin), NEW c, NEW g, Whole(s, n, origin, c, g),
           NEW o, PutsInOrder(o, n, s), NEW O, O = [k \in 1 .. n |-> s[o[k]]]
    PROVE  /\ Stream(O, n) /\ InRank(O, n, origin) /\ Whole(O, n, origin, c, g)
           /\ \A k \in 1 .. n : o[k] \in 1 .. n /\ O[k] = s[o[k]]
           /\ \A k \in 1 .. n : \E l \in 1 .. n : O[l] = s[k]
<1>1. /\ n \in Nat /\ \A k \in 1 .. n : o[k] \in 1 .. n
      /\ \A k \in 1 .. n : \E l \in 1 .. n : o[l] = k
      /\ \A j, k \in 1 .. n : o[j] = o[k] => j = k
      /\ \A k \in 1 .. n : s[k].seq \in Int
  BY DEF Placed, Stream, PutsInOrder
<1>0. \A j, k \in 1 .. n : s[j].id = s[k].id => j = k
  BY DEF Placed, Stream
<1>2. DOMAIN O = 1 .. n /\ \A k \in 1 .. n : O[k] = s[o[k]]
  OBVIOUS
<1>3. \A k \in 1 .. n : \E l \in 1 .. n : O[l] = s[k]
  BY <1>1, <1>2
<1>4. Stream(O, n)
  <2>1. \A k \in 1 .. n : O[k].seq \in Int
    BY <1>1, <1>2
  <2>2. ASSUME NEW j \in 1 .. n, NEW k \in 1 .. n, O[j].id = O[k].id
        PROVE  j = k
    <3>1. o[j] \in 1 .. n /\ o[k] \in 1 .. n /\ s[o[j]].id = s[o[k]].id
      BY <1>1, <1>2, <2>2
    <3>2. PICK x \in 1 .. n, y \in 1 .. n : x = o[j] /\ y = o[k]
      BY <3>1
    <3>3. s[x].id = s[y].id
      BY <3>1, <3>2
    <3>4. x = y
      BY <1>0, <3>3
    <3>5. o[j] = o[k]
      BY <3>2, <3>4
    <3> QED
      BY <1>1, <3>5
  <2> QED
    BY <1>1, <1>2, <2>1, <2>2 DEF Stream
<1>5. InRank(O, n, origin)
  BY SortedInRank
<1>6. Whole(O, n, origin, c, g)
  <2>1. ASSUME NEW k \in 1 .. n, Comparable(O[k])
        PROVE  /\ O[k].payload.shape = Shape(O[k], g)
               /\ \E q \in Requests, v \in 0 .. MaxSql :
                     /\ O[k].id = <<origin, q, O[k].type, v>>
                     /\ IF O[k].type = "http.response" THEN v = 0 ELSE v \in 1 .. c[q]
    <3>1. o[k] \in 1 .. n /\ O[k] = s[o[k]] /\ Comparable(s[o[k]])
      BY <1>1, <1>2, <2>1
    <3> QED
      BY <3>1 DEF Whole, Shape
  <2>2. ASSUME NEW q \in Requests
        PROVE  /\ \E k \in 1 .. n : O[k].id = <<origin, q, "http.response", 0>>
               /\ \A v \in 1 .. c[q] :
                     \E k \in 1 .. n : O[k].id = <<origin, q, "postgres.result", v>>
    <3>1. \A id : (\E k \in 1 .. n : s[k].id = id) => \E k \in 1 .. n : O[k].id = id
      BY <1>3
    <3> QED
      BY <3>1 DEF Whole
  <2> QED
    BY <2>1, <2>2 DEF Whole
<1> QED
  BY <1>1, <1>2, <1>3, <1>4, <1>5, <1>6

LEMMA LinksHave ==
    ASSUME NEW n, NEW s, Stream(s, n), NEW m, NEW t, Stream(t, m)
    PROVE  \E o, r : /\ PutsInOrder(o, n, s) /\ PutsInOrder(r, m, t)
                     /\ \A i \in 1 .. n, j \in 1 .. m :
                           Linked(s, o, t, r, i, j) =>
                              <<s[o[i]].id, t[r[j]].id>> \in LinkStreams(s, t)
<1>1. PICK o, r : /\ PutsInOrder(o, n, s) /\ PutsInOrder(r, m, t)
                  /\ LinkStreams(s, t) = LinksIn(s, n, o, t, m, r)
  BY LinksAre
<1>2. ASSUME NEW i \in 1 .. n, NEW j \in 1 .. m, Linked(s, o, t, r, i, j)
      PROVE  <<s[o[i]].id, t[r[j]].id>> \in LinkStreams(s, t)
  <2>1. PICK p \in (1 .. n) \X (1 .. m) : p[1] = i /\ p[2] = j
    <3>1. <<i, j>> \in (1 .. n) \X (1 .. m) /\ <<i, j>>[1] = i /\ <<i, j>>[2] = j
      OBVIOUS
    <3> QED
      BY <3>1
  <2>2. <<s[o[p[1]]].id, t[r[p[2]]].id>> \in LinkStreams(s, t)
    BY <1>1, <1>2, <2>1 DEF LinksIn
  <2> QED
    BY <2>1, <2>2
<1> QED
  BY <1>1, <1>2

\* Every event to be compared has a partner, on either side.
LEMMA WholeLinked ==
    ASSUME NEW n, NEW s, NEW a, Placed(s, n, a), NEW m, NEW t, NEW b, Placed(t, m, b),
           NEW c \in [Requests -> 0 .. MaxSql], NEW g, Whole(s, n, a, c, g), Whole(t, m, b, c, g)
    PROVE  /\ \A i \in 1 .. n : Comparable(s[i]) =>
                 \E j \in 1 .. m : <<s[i].id, t[j].id>> \in LinkStreams(s, t)
           /\ \A j \in 1 .. m : Comparable(t[j]) =>
                 \E i \in 1 .. n : <<s[i].id, t[j].id>> \in LinkStreams(s, t)
<1>1. Stream(s, n) /\ Stream(t, m) /\ n \in Nat /\ m \in Nat
  BY DEF Placed, Stream
<1>2. PICK o, r : /\ PutsInOrder(o, n, s) /\ PutsInOrder(r, m, t)
                  /\ \A i \in 1 .. n, j \in 1 .. m :
                        Linked(s, o, t, r, i, j) =>
                           <<s[o[i]].id, t[r[j]].id>> \in LinkStreams(s, t)
  BY <1>1, LinksHave
<1>3. PICK O, R : O = [k \in 1 .. n |-> s[o[k]]] /\ R = [k \in 1 .. m |-> t[r[k]]]
  OBVIOUS
<1>4. /\ Stream(O, n) /\ InRank(O, n, a) /\ Whole(O, n, a, c, g)
      /\ \A k \in 1 .. n : o[k] \in 1 .. n /\ O[k] = s[o[k]]
      /\ \A k \in 1 .. n : \E l \in 1 .. n : O[l] = s[k]
  BY <1>2, <1>3, SortedWhole
<1>5. /\ Stream(R, m) /\ InRank(R, m, b) /\ Whole(R, m, b, c, g)
      /\ \A k \in 1 .. m : r[k] \in 1 .. m /\ R[k] = t[r[k]]
      /\ \A k \in 1 .. m : \E l \in 1 .. m : R[l] = t[k]
  BY <1>2, <1>3, SortedWhole
<1>6. ASSUME NEW i \in 1 .. n, NEW j \in 1 .. m, Signature(O, i) = Signature(R, j)
      PROVE  <<O[i].id, R[j].id>> \in LinkStreams(s, t)
  <2>1. DOMAIN o = 1 .. n /\ DOMAIN r = 1 .. m
    BY <1>2 DEF PutsInOrder
  <2>2. Linked(s, o, t, r, i, j)
    BY <1>3, <1>6, <2>1 DEF Linked
  <2> QED
    BY <1>2, <1>4, <1>5, <2>2
<1>7. ASSUME NEW i \in 1 .. n, Comparable(s[i])
      PROVE  \E j \in 1 .. m : <<s[i].id, t[j].id>> \in LinkStreams(s, t)
  <2>1. PICK l \in 1 .. n : O[l] = s[i]
    BY <1>4
  <2>2. PICK j \in 1 .. m : Signature(R, j) = Signature(O, l)
    <3>1. Comparable(O[l])
      BY <1>7, <2>1
    <3>2. \A k \in 1 .. n : Comparable(O[k]) =>
             \E j \in 1 .. m : Signature(R, j) = Signature(O, k)
      BY <1>4, <1>5, WholeMatches
    <3> QED
      BY <3>1, <3>2
  <2>3. <<O[l].id, R[j].id>> \in LinkStreams(s, t)
    BY <1>6, <2>2
  <2> QED
    BY <1>5, <2>1, <2>3
<1>8. ASSUME NEW j \in 1 .. m, Comparable(t[j])
      PROVE  \E i \in 1 .. n : <<s[i].id, t[j].id>> \in LinkStreams(s, t)
  <2>1. PICK l \in 1 .. m : R[l] = t[j]
    BY <1>5
  <2>2. PICK i \in 1 .. n : Signature(O, i) = Signature(R, l)
    <3>1. Comparable(R[l])
      BY <1>8, <2>1
    <3>2. \A k \in 1 .. m : Comparable(R[k]) =>
             \E i \in 1 .. n : Signature(O, i) = Signature(R, k)
      BY <1>4, <1>5, WholeMatches
    <3> QED
      BY <3>1, <3>2
  <2>3. <<O[i].id, R[l].id>> \in LinkStreams(s, t)
    BY <1>6, <2>2
  <2> QED
    BY <1>4, <2>1, <2>3
<1> QED
  BY <1>7, <1>8

\* Two whole streams match in everything.
LEMMA WholeAgrees ==
    ASSUME NEW n, NEW s, Placed(s, n, "source"), NEW m, NEW t, Placed(t, m, "run"),
           NEW c \in [Requests -> 0 .. MaxSql], NEW g, \A q \in Requests : g[q] # "error",
           Whole(s, n, "source", c, g), Whole(t, m, "run", c, g),
           NEW report, report = CompareRun(s, t, LinkStreams(s, t))
    PROVE  \A k \in DOMAIN report : report[k].category = "match"
<1>1. PICK L : L = LinkStreams(s, t)
  OBVIOUS
<1>2. /\ Stream(s, n) /\ Stream(t, m) /\ n \in Nat /\ m \in Nat
      /\ DOMAIN s = 1 .. n /\ DOMAIN t = 1 .. m
      /\ \A j, k \in 1 .. n : s[j].id = s[k].id => j = k
      /\ \A j, k \in 1 .. m : t[j].id = t[k].id => j = k
  BY DEF Placed, Stream
<1>3. Pairs(L, s, n, t, m)
  BY <1>1, <1>2, LinksPair
<1>4. /\ \A i \in 1 .. n : Comparable(s[i]) => \E j \in 1 .. m : <<s[i].id, t[j].id>> \in L
      /\ \A j \in 1 .. m : Comparable(t[j]) => \E i \in 1 .. n : <<s[i].id, t[j].id>> \in L
  BY <1>1, WholeLinked
<1>5. ASSUME NEW i \in 1 .. n, NEW j \in 1 .. m, <<s[i].id, t[j].id>> \in L
      PROVE  s[i].type = t[j].type /\ s[i].id[2] = t[j].id[2]
  <2>1. PICK x \in 1 .. n, y \in 1 .. m :
           <<s[i].id, t[j].id>> = <<s[x].id, t[y].id>> /\ s[x].type = t[y].type
    BY <1>3, <1>5 DEF Pairs
  <2>2. x = i /\ y = j
    BY <1>2, <2>1
  <2>3. PICK p \in LinkStreams(s, t) : p = <<s[i].id, t[j].id>>
    BY <1>1, <1>5
  <2>4. p[1][2] = p[2][2]
    BY LinksInRank
  <2> QED
    BY <2>1, <2>2, <2>3, <2>4
<1>6. PICK v, w, u, f :
         /\ Walks(w, v, s, n) /\ LeftOver(f, u, s, n, t, m, L)
         /\ DOMAIN report = 1 .. v + u
         /\ \A k \in 1 .. v : report[k] = Outcome(s[w[k]], t, L)
         /\ \A k \in 1 .. u : report[v + k] = Result(None, t[f[k]].id, "new")
  BY <1>1, <1>2, ResultsAre
<1>7. v \in Nat /\ u = 0
  <2>1. v \in Nat /\ u \in Nat
    BY <1>6 DEF Walks, LeftOver
  <2>2. ASSUME NEW k \in 1 .. u
        PROVE  FALSE
    <3>1. PICK j \in 1 .. m : j = f[k]
      BY <1>6 DEF LeftOver
    <3>2. /\ Comparable(t[j])
          /\ \A i \in 1 .. n : Comparable(s[i]) => <<s[i].id, t[j].id>> \notin L
      BY <1>6, <3>1 DEF LeftOver
    <3>3. PICK i \in 1 .. n : <<s[i].id, t[j].id>> \in L
      BY <1>4, <3>2
    <3>4. Comparable(s[i])
      BY <1>5, <3>2, <3>3 DEF Comparable
    <3> QED
      BY <3>2, <3>3, <3>4
  <2>3. u \in Nat \ {0} => 1 \in 1 .. u
    OBVIOUS
  <2> QED
    BY <2>1, <2>2, <2>3
<1>8. ASSUME NEW k \in 1 .. v
      PROVE  report[k].category = "match"
  <2>1. PICK i \in 1 .. n : i = w[k] /\ Comparable(s[i])
    BY <1>6 DEF Walks
  <2>2. PICK e : e = s[i]
    OBVIOUS
  <2>3. /\ report[k] = Outcome(e, t, L)
        /\ \E j \in 1 .. m : <<e.id, t[j].id>> \in L
    BY <1>4, <1>6, <2>1, <2>2
  <2>4. PICK j \in 1 .. m :
           <<e.id, t[j].id>> \in L /\ report[k].category = Category(e, t[j])
    <3>1. /\ Outcome(e, t, L).original = e.id
          /\ \/ /\ Outcome(e, t, L).replayed = None /\ Outcome(e, t, L).category = "missing"
                /\ \A j \in 1 .. m : <<e.id, t[j].id>> \notin L
             \/ \E j \in 1 .. m : /\ <<e.id, t[j].id>> \in L
                                  /\ Outcome(e, t, L).replayed = t[j].id
                                  /\ Outcome(e, t, L).category = Category(e, t[j])
      <4>1. Stream(t, m)
        BY <1>2
      <4> QED
        BY ONLY <4>1, OutcomeIs
    <3> QED
      BY <2>3, <3>1
  <2>5. Comparable(t[j])
    BY <1>5, <2>1, <2>2, <2>4 DEF Comparable
  <2>6. e.payload.shape = Shape(e, g) /\ t[j].payload.shape = Shape(t[j], g)
    BY <2>1, <2>2, <2>5 DEF Whole
  <2>7. e.type = t[j].type /\ e.id[2] = t[j].id[2]
    BY <1>5, <2>2, <2>4
  <2>8. e.payload.shape = t[j].payload.shape /\ t[j].payload.shape # "error"
    <3>1. e.type = "http.response" => e.id[2] \in Requests
      BY <2>1, <2>2 DEF Whole
    <3> QED
      BY <2>6, <2>7, <3>1 DEF Shape
  <2>9. Category(e, t[j]) = "match"
    BY <2>8 DEF Category, Normalized
  <2> QED
    BY <2>4, <2>9
<1>9. DOMAIN report = 1 .. v
  BY <1>6, <1>7
<1> QED
  BY <1>8, <1>9

\* A source that was finished with all its rows holds what was recorded, in full.
FullSource ==
    setup.history = "finished" /\ setup.rows = SourceRows(setup.counts, setup.answers)

SourceAnswers == [q \in Requests |-> Captured(setup.answers[q])]

SourceWhole ==
    FullSource =>
        /\ Resent = Requests
        /\ \E n : /\ Placed(source, n, "source")
                  /\ Whole(source, n, "source", setup.counts, SourceAnswers)
        /\ \A q \in Requests : Recorded(q) = setup.counts[q]

Intact(e, g) == "payload" \in DOMAIN e /\ e.payload.shape = Shape(e, g)

LEMMA SourceIntact ==
    ASSUME NEW c, NEW a, NEW e \in SourceRows(c, a),
           NEW g, g = [q \in Requests |-> Captured(a[q])]
    PROVE  Intact(e, g)
<1>1. CASE \E q \in Requests : e = SourceResponse(q, a)
  BY <1>1 DEF SourceResponse, Event, Intact, Shape
<1>2. CASE \E q, n, seq : \/ e = SourceRequest(q) \/ e = SourceQuery(q, n, seq)
                          \/ e = SourceResult(q, n, seq)
  BY <1>2 DEF SourceRequest, SourceQuery, SourceResult, Event, Intact, Shape
<1> QED
  BY <1>1, <1>2, SourceRowsAre

\* The same of a set of events.
WholeSet(S, origin, c, g) ==
    /\ \A e \in S : Comparable(e) =>
          /\ Intact(e, g)
          /\ \E q \in Requests, v \in 0 .. MaxSql :
                /\ e.id = <<origin, q, e.type, v>>
                /\ IF e.type = "http.response" THEN v = 0 ELSE v \in 1 .. c[q]
    /\ \A q \in Requests :
          /\ \E e \in S : e.id = <<origin, q, "http.response", 0>>
          /\ \A v \in 1 .. c[q] : \E e \in S : e.id = <<origin, q, "postgres.result", v>>

LEMMA FinishedWhole ==
    ASSUME NEW S, NEW m \in Nat, m = Cardinality(S), NEW C, NEW from, FinishedAs(C, from, S),
           NEW origin, NEW c, NEW g, WholeSet(S, origin, c, g)
    PROVE  Whole(C, m, origin, c, g)
<1>1. /\ \A k \in 1 .. m :
            /\ from[k] \in S /\ C[k].id = from[k].id /\ C[k].type = from[k].type
            /\ "payload" \in DOMAIN from[k] => C[k].payload = from[k].payload
      /\ \A e \in S : \E k \in 1 .. m : from[k] = e
  BY DEF FinishedAs, Arranged, Enumerates
<1>2. ASSUME NEW k \in 1 .. m, Comparable(C[k])
      PROVE  /\ C[k].payload.shape = Shape(C[k], g)
             /\ \E q \in Requests, v \in 0 .. MaxSql :
                   /\ C[k].id = <<origin, q, C[k].type, v>>
                   /\ IF C[k].type = "http.response" THEN v = 0 ELSE v \in 1 .. c[q]
  <2>1. PICK e \in S : e = from[k] /\ C[k].id = e.id /\ C[k].type = e.type
                       /\ ("payload" \in DOMAIN e => C[k].payload = e.payload)
    BY <1>1
  <2>2. Comparable(e)
    BY <1>2, <2>1 DEF Comparable
  <2>3. C[k].payload.shape = Shape(C[k], g)
    BY <2>1, <2>2 DEF WholeSet, Intact, Shape
  <2>4. PICK q \in Requests, v \in 0 .. MaxSql :
           /\ e.id = <<origin, q, e.type, v>>
           /\ IF e.type = "http.response" THEN v = 0 ELSE v \in 1 .. c[q]
    BY <2>2 DEF WholeSet
  <2> QED
    BY <2>1, <2>3, <2>4
<1>3. \A id : (\E e \in S : e.id = id) => \E k \in 1 .. m : C[k].id = id
  BY <1>1
<1>4. ASSUME NEW q \in Requests
      PROVE  /\ \E k \in 1 .. m : C[k].id = <<origin, q, "http.response", 0>>
             /\ \A v \in 1 .. c[q] :
                   \E k \in 1 .. m : C[k].id = <<origin, q, "postgres.result", v>>
  BY <1>3 DEF WholeSet
<1> QED
  BY <1>2, <1>4 DEF Whole

LEMMA SourceCounts ==
    ASSUME NEW c \in [Requests -> 0 .. MaxSql], NEW a, NEW S, S = SourceRows(c, a),
           NEW from, FinishedAs(source, from, S), NEW q \in Requests
    PROVE  Recorded(q) = c[q]
<1> DEFINE D == {e \in Range(source) : e.corr = <<"source", q>> /\ e.type = "postgres.query"}
           f == [v \in 1 .. c[q] |-> CHOOSE e \in D : e.id = SourceId(q, "postgres.query", v)]
<1>1. PICK m : m = Cardinality(S)
  OBVIOUS
<1>2. /\ Stream(source, m) /\ DOMAIN source = 1 .. m
      /\ \A k \in 1 .. m : /\ from[k] \in S /\ source[k].id = from[k].id
                           /\ source[k].type = from[k].type /\ source[k].corr = from[k].corr
      /\ \A e \in S : \E k \in 1 .. m : from[k] = e
      /\ \A j, k \in 1 .. m : source[j].id = source[k].id => j = k
  BY <1>1 DEF FinishedAs, Arranged, Enumerates, Stream
<1>3. ASSUME NEW v \in 1 .. c[q]
      PROVE  \E e \in D : e.id = SourceId(q, "postgres.query", v)
  <2>1. PICK x \in S : /\ x.id = SourceId(q, "postgres.query", v)
                       /\ x.type = "postgres.query" /\ x.corr = <<"source", q>>
    <3>1. PICK seq : seq = SqlSeq(c, q, v)
      OBVIOUS
    <3>2. SourceQuery(q, v, seq) \in S
      BY <3>1, SourceHas
    <3>3. /\ SourceQuery(q, v, seq).id = SourceId(q, "postgres.query", v)
          /\ SourceQuery(q, v, seq).type = "postgres.query"
          /\ SourceQuery(q, v, seq).corr = <<"source", q>>
      BY DEF SourceQuery, SourceId, Event
    <3> QED
      BY <3>2, <3>3
  <2>2. PICK k \in 1 .. m : from[k] = x
    BY <1>2
  <2>3. source[k] \in Range(source)
    BY <1>2 DEF Range
  <2> QED
    BY <1>2, <2>1, <2>2, <2>3
<1>4. \A v \in 1 .. c[q] : f[v] \in D /\ f[v].id = SourceId(q, "postgres.query", v)
  BY <1>3
<1>5. ASSUME NEW e \in D
      PROVE  \E v \in 1 .. c[q] : f[v] = e
  <2>1. PICK k \in 1 .. m : e = source[k]
    BY <1>2 DEF Range
  <2>2. PICK x \in S : x = from[k] /\ e.id = x.id /\ e.type = x.type /\ e.corr = x.corr
    BY <1>2, <2>1
  <2>3. PICK p \in Requests : x.corr = <<"source", p>> /\ OfRequest(x, c, a, p)
    BY <2>2, SourceIs
  <2>4. p = q /\ x.type = "postgres.query"
    BY <2>2, <2>3
  <2>5. PICK v \in 1 .. c[q] : x.id = SourceId(q, "postgres.query", v)
    BY <2>3, <2>4 DEF OfRequest
  <2>6. f[v] \in D /\ f[v].id = e.id
    BY <1>4, <2>2, <2>5
  <2>7. PICK l \in 1 .. m : f[v] = source[l]
    BY <1>2, <2>6 DEF Range
  <2>8. l = k
    BY <1>2, <2>1, <2>6, <2>7
  <2> QED
    BY <2>1, <2>7, <2>8
<1>6. \A x, y \in 1 .. c[q] : f[x] = f[y] => x = y
  <2> SUFFICES ASSUME NEW x \in 1 .. c[q], NEW y \in 1 .. c[q], f[x] = f[y] PROVE x = y
    OBVIOUS
  <2>1. SourceId(q, "postgres.query", x) = SourceId(q, "postgres.query", y)
    BY <1>4
  <2> QED
    BY <2>1 DEF SourceId
<1>7. f \in [1 .. c[q] -> D]
  BY <1>4
<1> HIDE DEF f
<1>8. f \in Bijection(1 .. c[q], D)
  BY <1>5, <1>6, <1>7, BijectionMeans
<1>9. IsFiniteSet(1 .. c[q]) /\ Cardinality(1 .. c[q]) = c[q]
  <2>1. c[q] \in Nat /\ (1 <= c[q] \/ c[q] = 0)
    BY ReplayAssumption
  <2>2. IsFiniteSet(1 .. c[q]) /\ Cardinality(1 .. c[q]) = IF 1 > c[q] THEN 0 ELSE c[q] - 1 + 1
    BY <2>1, FS_Interval
  <2> QED
    BY <2>1, <2>2
<1> HIDE DEF D
<1>10. Cardinality(D) = c[q]
  BY <1>8, <1>9, FS_Bijection DEF ExistsBijection
<1> QED
  BY <1>10 DEF Recorded, D

LEMMA SourceWholeInit == Init => SourceWhole
<1> SUFFICES ASSUME Init, FullSource
             PROVE  /\ Resent = Requests
                    /\ \E n : /\ Placed(source, n, "source")
                              /\ Whole(source, n, "source", setup.counts, SourceAnswers)
                    /\ \A q \in Requests : Recorded(q) = setup.counts[q]
  BY DEF SourceWhole
<1>1. PICK c, a, g, S :
         /\ c \in [Requests -> 0 .. MaxSql]
         /\ c = setup.counts /\ a = setup.answers /\ g = SourceAnswers
         /\ S = SourceRows(c, a) /\ S = setup.rows
  BY ReplayAssumption DEF Init, FullSource
<1>2. PICK order \in RowOrders(S) : source = Correlated(order)
  BY <1>1 DEF Init, FullSource
<1>3. g = [q \in Requests |-> Captured(a[q])]
  BY <1>1 DEF SourceAnswers
<1>4. /\ IsFiniteSet(S) /\ Unmixed(S) /\ \A e \in S : Row(e)
      /\ Requested(S, "source")
  <2>1. \A q \in Requests : SourceRequest(q) \in S
    BY <1>1, SourceHas
  <2> QED
    BY <1>1, <2>1, SourceSome, SourceRequested
<1>5. PICK from : FinishedAs(source, from, S)
  BY <1>2, <1>4, CorrelatedFinishes
<1>6. PICK m \in Nat : m = Cardinality(S)
  BY <1>4, FS_CardinalityType
<1>7. Placed(source, m, "source")
  BY <1>4, <1>5, <1>6, FinishedPlaced
<1>8. ASSUME NEW e \in S, Comparable(e)
      PROVE  /\ Intact(e, g)
             /\ \E q \in Requests, v \in 0 .. MaxSql :
                   /\ e.id = <<"source", q, e.type, v>>
                   /\ IF e.type = "http.response" THEN v = 0 ELSE v \in 1 .. c[q]
  <2>1. PICK q \in Requests : OfRequest(e, c, a, q)
    BY <1>1, SourceIs
  <2>2. Intact(e, g)
    BY <1>1, <1>3, SourceIntact
  <2>3. c[q] \in 0 .. MaxSql /\ MaxSql \in Nat
    BY <1>1, ReplayAssumption
  <2>4. PICK v \in 0 .. MaxSql : /\ e.id = <<"source", q, e.type, v>>
                                /\ IF e.type = "http.response" THEN v = 0 ELSE v \in 1 .. c[q]
    <3>1. CASE e.type = "http.response"
      <4>1. e.id = <<"source", q, e.type, 0>>
        BY <2>1, <3>1 DEF OfRequest, SourceId
      <4> QED
        BY <2>3, <3>1, <4>1
    <3>2. CASE e.type = "postgres.result"
      <4>1. PICK v \in 1 .. c[q] : e.id = <<"source", q, e.type, v>>
        BY <2>1, <3>2 DEF OfRequest, SourceId
      <4> QED
        BY <2>3, <3>2, <4>1
    <3> QED
      BY <1>8, <3>1, <3>2 DEF Comparable
  <2> QED
    BY <2>2, <2>4
<1>9. ASSUME NEW q \in Requests
      PROVE  /\ \E e \in S : e.id = <<"source", q, "http.response", 0>>
             /\ \A v \in 1 .. c[q] : \E e \in S : e.id = <<"source", q, "postgres.result", v>>
  <2>1. SourceResponse(q, a).id = <<"source", q, "http.response", 0>>
    BY DEF SourceResponse, Event
  <2>2. \A v, seq : SourceResult(q, v, seq).id = <<"source", q, "postgres.result", v>>
    BY DEF SourceResult, Event
  <2> QED
    <3>1. SourceResponse(q, a) \in S
      BY <1>1, SourceHas
    <3>2. \A v \in 1 .. c[q] : SourceResult(q, v, SqlSeq(c, q, v)) \in S
      BY <1>1, SourceHas
    <3>3. \E e \in S : e.id = <<"source", q, "http.response", 0>>
      BY <2>1, <3>1
    <3>4. ASSUME NEW v \in 1 .. c[q]
          PROVE  \E e \in S : e.id = <<"source", q, "postgres.result", v>>
      <4>1. SourceResult(q, v, SqlSeq(c, q, v)) \in S
        BY <3>2
      <4>2. SourceResult(q, v, SqlSeq(c, q, v)).id = <<"source", q, "postgres.result", v>>
        BY <2>2
      <4> QED
        BY <4>1, <4>2
    <3> QED
      BY <3>3, <3>4
<1>10. Whole(source, m, "source", c, g)
  <2>1. WholeSet(S, "source", c, g)
    BY <1>8, <1>9 DEF WholeSet
  <2> QED
    BY <1>5, <1>6, <2>1, FinishedWhole
<1>11. \A q \in Requests : Recorded(q) = c[q]
  BY <1>1, <1>5, SourceCounts
<1>12. Resent = Requests
  <2>1. ASSUME NEW q \in Requests
        PROVE  \E e \in Range(source) : e.id = SourceId(q, "http.request", 0)
    <3>1. SourceRequest(q) \in S /\ SourceRequest(q).id = SourceId(q, "http.request", 0)
      BY <1>1, SourceHas
    <3>2. \A k \in 1 .. m : source[k].id = from[k].id
      BY <1>5, <1>6 DEF FinishedAs
    <3>3. \E k \in 1 .. m : from[k] = SourceRequest(q)
      BY <1>5, <1>6, <3>1 DEF FinishedAs, Arranged, Enumerates
    <3>4. DOMAIN source = 1 .. m
      BY <1>7 DEF Placed, Stream
    <3> QED
      BY <3>1, <3>2, <3>3, <3>4 DEF Range
  <2> QED
    BY <2>1 DEF Resent, SourceId
<1> QED
  BY <1>1, <1>7, <1>10, <1>11, <1>12

\* Nothing has gone wrong and the target does what the recorded app did.
Undisturbed == setup.target = "http" /\ ~ faulted /\ \A q \in Requests : AsBefore(q)

RunAnswers == [q \in Requests |-> Received(setup.answers[q])]

\* The runner goes on when every request is answered, and each answer has its event;
\* undisturbed, what is on its way is as it was answered before, and a request that
\* has responded ran its statements.
AllAnswered ==
    setup.target = "http" /\ run \in {"replayed", "finishing"}
    => \A q \in Resent : Answered(q)

AnswersKept ==
    \A q \in Requests : Answered(q) =>
        \E e \in Range(replayed) : e.id = RunId(q, "http.response", 0)

AsRecorded == Undisturbed => \A e \in Pool : Comparable(e) => Intact(e, RunAnswers)

RanAll ==
    Undisturbed =>
        \A q \in Requests : app[q] \notin {"idle", "running"} => ran[q] = Recorded(q)

\* Undisturbed, what finish_recording read is all that was recorded.
FinalWhole ==
    /\ Undisturbed /\ FullSource /\ setup.skew = 0
    /\ run \in {"completing", "linking", "comparing", "done"}
    => \E m : Placed(final, m, "run") /\ Whole(final, m, "run", setup.counts, RunAnswers)

LEMMA FaultsStay ==
    ASSUME [Next]_vars, ~ faulted'
    PROVE  ~ faulted
  BY DEF Next, RunnerStep, TargetStep, Open, Refuse, ReplayMock, Gathered, AppendReplayed,
         FinishRead, FinishCommit, LinkEvents, Compare, Abort, Send, Answer, GiveUp, Arrive,
         RunSql, Respond, AppRaises, IngestAdmit, IngestAppend, FlushFails, vars

LEMMA AllAnsweredStep ==
    ASSUME AllAnswered, [Next]_vars
    PROVE  AllAnswered'
<1> USE DEF config, appVars, runner
<1>0. setup' = setup /\ Resent' = Resent
  BY ConfigStays DEF Resent
<1>1. CASE run' = run /\ sent' = sent
  BY <1>0, <1>1 DEF AllAnswered, Answered
<1>2. CASE run' \notin {"replayed", "finishing"}
  BY <1>2 DEF AllAnswered
<1>3. CASE Gathered
  BY <1>0, <1>3 DEF Gathered, AllAnswered, Answered
<1>4. CASE AppendReplayed
  BY <1>0, <1>4 DEF AppendReplayed, AllAnswered, Answered
<1>5. CASE ReplayMock
  BY <1>0, <1>5 DEF ReplayMock, AllAnswered
<1>6. CASE RunnerStep \/ Abort \/ UNCHANGED vars
  BY <1>1, <1>2, <1>3, <1>4, <1>5, <1>6 DEF RunnerStep, Open, Refuse, FinishRead, FinishCommit,
                                           LinkEvents, Compare, Abort, vars
<1>7. ASSUME NEW q \in Requests, Send(q) \/ Answer(q) \/ GiveUp(q)
      PROVE  AllAnswered'
  BY <1>2, <1>7 DEF Send, Answer, GiveUp, Receive
<1>8. ASSUME NEW q \in Requests, TargetStep(q)
      PROVE  AllAnswered'
  BY <1>1, <1>8 DEF TargetStep, Arrive, RunSql, Respond, AppRaises, IngestAdmit, IngestAppend,
                    FlushFails
<1> QED
  BY <1>6, <1>7, <1>8 DEF Next

LEMMA AnswersKeptStep ==
    ASSUME Typed, InSequence, AnswersKept, [Next]_vars
    PROVE  AnswersKept'
<1> USE DEF config, appVars, runner
<1>1. CASE sent' = sent /\ replayed' = replayed
  BY <1>1 DEF AnswersKept, Answered
<1>2. ASSUME NEW q \in Requests, NEW e, NEW z, replayed' = Append(replayed, e),
             sent' = [sent EXCEPT ![q] = z],
             z \in {"answered", "failed"} => e.id = RunId(q, "http.response", 0)
      PROVE  AnswersKept'
  <2>1. Range(replayed') = Range(replayed) \cup {e}
    BY <1>2, AppendIs DEF Typed
  <2>2. ASSUME NEW r \in Requests, Answered(r)'
        PROVE  \E x \in Range(replayed') : x.id = RunId(r, "http.response", 0)
    <3>1. CASE r = q
      <4>1. z \in {"answered", "failed"}
        BY <1>2, <2>2, <3>1 DEF Answered, Typed
      <4> QED
        BY <1>2, <2>1, <3>1, <4>1
    <3>2. CASE r # q
      <4>1. Answered(r)
        BY <1>2, <2>2, <3>2 DEF Answered, Typed
      <4> QED
        BY <2>1, <4>1 DEF AnswersKept
    <3> QED
      BY <3>1, <3>2
  <2> QED
    BY <2>2 DEF AnswersKept
<1>3. ASSUME NEW q \in Requests, Send(q)
      PROVE  AnswersKept'
  <2>1. PICK e : e = Event("run", q, "http.request", 0, now, sequence, NoParent, "ok")
    OBVIOUS
  <2>2. replayed' = Append(replayed, e) /\ sent' = [sent EXCEPT ![q] = "open"]
    BY <1>3, <2>1 DEF Send
  <2> QED
    BY <1>2, <2>2
<1>4. ASSUME NEW q \in Requests, Answer(q) \/ GiveUp(q)
      PROVE  AnswersKept'
  <2>1. PICK shape, outcome : Receive(q, shape, outcome)
    BY <1>4 DEF Answer, GiveUp
  <2>2. PICK e : e = Event("run", q, "http.response", 0, now, sequence,
                           <<"run", q, "http.request", 0>>, shape)
    OBVIOUS
  <2>3. replayed' = Append(replayed, e) /\ sent' = [sent EXCEPT ![q] = outcome]
    BY <2>1, <2>2 DEF Receive
  <2>4. e.id = RunId(q, "http.response", 0)
    BY <2>2 DEF Event, RunId
  <2> QED
    BY <1>2, <2>3, <2>4
<1>5. CASE ReplayMock
  <2>1. \A q \in Requests : sent[q] = "idle" /\ sent'[q] = "idle"
    BY <1>5 DEF ReplayMock, InSequence
  <2> QED
    BY <2>1 DEF AnswersKept, Answered
<1>6. CASE RunnerStep \/ Abort \/ UNCHANGED vars
  BY <1>1, <1>5, <1>6 DEF RunnerStep, Open, Refuse, Gathered, AppendReplayed, FinishRead,
                          FinishCommit, LinkEvents, Compare, Abort, vars
<1>7. ASSUME NEW q \in Requests, TargetStep(q)
      PROVE  AnswersKept'
  BY <1>1, <1>7 DEF TargetStep, Arrive, RunSql, Respond, AppRaises, IngestAdmit, IngestAppend,
                    FlushFails
<1> QED
  BY <1>3, <1>4, <1>6, <1>7 DEF Next

LEMMA AsRecordedStep ==
    ASSUME Typed, Typed', RecordedInv, Staged, Whereabouts, AsRecorded, [Next]_vars
    PROVE  AsRecorded'
<1>0. setup' = setup
  BY ConfigStays
<1> DEFINE g == RunAnswers
           Goal == \A e \in Pool' : Comparable(e) => Intact(e, g)
<1>01. RunAnswers' = RunAnswers /\ \A q \in Requests : AsBefore(q)' = AsBefore(q)
  BY <1>0 DEF RunAnswers, AsBefore
<1> SUFFICES ASSUME setup.target = "http", \A q \in Requests : AsBefore(q), ~ faulted'
             PROVE  Goal
  BY <1>0, <1>01 DEF AsRecorded, Undisturbed
<1>1. ~ faulted /\ \A e \in Pool : Comparable(e) => Intact(e, g)
  BY FaultsStay DEF AsRecorded, Undisturbed
<1> HIDE DEF g
<1>2. CASE Quiet
  BY <1>1, <1>2 DEF Quiet
<1>3. ASSUME NEW q \in Requests, Send(q)
      PROVE  Goal
  <2>1. PICK e : e = Event("run", q, "http.request", 0, now, sequence, NoParent, "ok")
    OBVIOUS
  <2>2. run = "replaying" /\ replayed' = Append(replayed, e)
        /\ UNCHANGED <<queue, outbox, rows, status>>
    BY <1>3, <2>1 DEF Send, appVars
  <2>3. Pool' \subseteq Pool \cup {e}
    BY <2>2, AppendPools
  <2>4. ~ Comparable(e)
    BY <2>1 DEF Event, Comparable
  <2> QED
    BY <1>1, <2>3, <2>4
<1>4. ASSUME NEW q \in Requests, Answer(q)
      PROVE  Goal
  <2>1. PICK shape : /\ Receive(q, shape, "answered")
                     /\ AsBefore(q) /\ app[q] = "replied"
                           => shape = Received(setup.answers[q])
                     /\ app[q] \in {"replied", "raised"}
                     /\ UNCHANGED <<queue, outbox, rows, status>>
    BY <1>4 DEF Answer, appVars
  <2>2. shape = Received(setup.answers[q])
    BY <1>1, <2>1 DEF Whereabouts
  <2>3. PICK e : e = Event("run", q, "http.response", 0, now, sequence,
                           <<"run", q, "http.request", 0>>, shape)
    OBVIOUS
  <2>4. run = "replaying" /\ replayed' = Append(replayed, e)
    BY <2>1, <2>3 DEF Receive
  <2>5. Pool' \subseteq Pool \cup {e}
    BY <2>1, <2>4, AppendPools
  <2>6. Intact(e, g)
    <3>1. g[q] = Received(setup.answers[q])
      BY DEF g, RunAnswers
    <3> QED
      BY <2>2, <2>3, <3>1 DEF Event, Intact, Shape
  <2> QED
    BY <1>1, <2>5, <2>6
<1>5. ASSUME NEW q \in Requests, RunSql(q)
      PROVE  Goal
  <2>1. PICK n, c, e, f : RunsStatement(q, n, c, e, f)
    BY <1>5, RunSqlAre
  <2>2. /\ queue' = queue \o <<e, f>> /\ Statement(q, n, c, e, f)
        /\ UNCHANGED <<replayed, status, outbox, rows>>
    BY <2>1 DEF RunsStatement
  <2>3. Pool' \subseteq Pool \cup {e, f}
    BY <2>2, QueuePools
  <2>4. ~ Comparable(e) /\ Intact(f, g)
    BY <2>2 DEF Statement, Comparable, Intact, Shape
  <2> QED
    BY <1>1, <2>3, <2>4
<1>6. ~ ReplayMock /\ \A q \in Requests : ~ GiveUp(q)
  BY DEF ReplayMock, GiveUp
<1> QED
  BY <1>2, <1>3, <1>4, <1>5, <1>6, QuietSteps

LEMMA RanAllStep ==
    ASSUME Typed, RanAll, [Next]_vars
    PROVE  RanAll'
<1> USE DEF config, appVars, runner
<1>0. setup' = setup /\ source' = source
  BY ConfigStays
<1>1. \A q \in Requests : Recorded(q)' = Recorded(q) /\ AsBefore(q)' = AsBefore(q)
  BY <1>0 DEF Recorded, AsBefore
<1> SUFFICES ASSUME setup.target = "http", \A q \in Requests : AsBefore(q), ~ faulted',
                    NEW r \in Requests, app'[r] \notin {"idle", "running"}
             PROVE  ran'[r] = Recorded(r)
  BY <1>0, <1>1 DEF RanAll, Undisturbed
<1>2. app[r] \notin {"idle", "running"} => ran[r] = Recorded(r)
  BY FaultsStay DEF RanAll, Undisturbed
<1>3. CASE app' = app /\ ran' = ran
  BY <1>2, <1>3
<1>4. ASSUME NEW q \in Requests, Arrive(q)
      PROVE  ran'[r] = Recorded(r)
  BY <1>2, <1>4 DEF Arrive, Typed
<1>5. ASSUME NEW q \in Requests, RunSql(q)
      PROVE  ran'[r] = Recorded(r)
  BY <1>2, <1>5 DEF RunSql, Typed
<1>6. ASSUME NEW q \in Requests, Respond(q)
      PROVE  ran'[r] = Recorded(r)
  BY <1>2, <1>6 DEF Respond, Typed
<1>7. ASSUME NEW q \in Requests, IngestAdmit(q) \/ IngestAppend(q)
      PROVE  ran'[r] = Recorded(r)
  BY <1>2, <1>7 DEF IngestAdmit, IngestAppend, Typed
<1>8. ASSUME NEW q \in Requests, AppRaises(q) \/ FlushFails(q)
      PROVE  FALSE
  BY <1>8 DEF AppRaises, FlushFails
<1>9. ASSUME NEW q \in Requests, Send(q) \/ Answer(q) \/ GiveUp(q)
      PROVE  ran'[r] = Recorded(r)
  BY <1>3, <1>9 DEF Send, Answer, GiveUp
<1>10. CASE RunnerStep \/ Abort \/ UNCHANGED vars
  BY <1>3, <1>10 DEF RunnerStep, Open, Refuse, ReplayMock, Gathered, AppendReplayed, FinishRead,
                     FinishCommit, LinkEvents, Compare, Abort, vars
<1> QED
  BY <1>4, <1>5, <1>6, <1>7, <1>8, <1>9, <1>10 DEF Next, TargetStep

\* When finish_recording reads the rows, every request was answered and each of its
\* statements is stored.
LEMMA RowsWhole ==
    ASSUME Typed, PoolInv, Staged, Stored, Whereabouts, AllAnswered, AnswersKept, AsRecorded, RanAll,
           SourceWhole, Undisturbed, FullSource, run = "finishing",
           NEW c \in [Requests -> 0 .. MaxSql], c = setup.counts, NEW g, g = RunAnswers
    PROVE  WholeSet(rows, "run", c, g)
<1>1. setup.target = "http" /\ ~ faulted
  BY DEF Undisturbed
<1>2. rows \subseteq Pool
  BY PoolHas DEF Staged
<1>3. ASSUME NEW q \in Requests
      PROVE  sent[q] = "answered" /\ app[q] = "replied" /\ ran[q] = c[q]
  <2>1. sent[q] = "answered" /\ app[q] = "replied"
    <3>1. sent[q] \in {"answered", "failed"}
      BY <1>1 DEF AllAnswered, Answered, SourceWhole
    <3> QED
      BY <1>1, <3>1 DEF Whereabouts
  <2>2. ran[q] = Recorded(q) /\ Recorded(q) = c[q]
    BY <2>1 DEF RanAll, SourceWhole
  <2> QED
    BY <2>1, <2>2
<1>4. ASSUME NEW e \in rows, Comparable(e)
      PROVE  /\ Intact(e, g)
             /\ \E q \in Requests, v \in 0 .. MaxSql :
                   /\ e.id = <<"run", q, e.type, v>>
                   /\ IF e.type = "http.response" THEN v = 0 ELSE v \in 1 .. c[q]
  <2>1. Intact(e, g)
    BY <1>2, <1>4 DEF AsRecorded
  <2>2. PICK q \in Requests : MadeFor(e, q)
    BY <1>1, <1>2, PoolSent
  <2>3. c[q] \in 0 .. MaxSql /\ MaxSql \in Nat /\ ran[q] = c[q]
    BY <1>3, ReplayAssumption
  <2>4. CASE e.type = "http.response"
    <3>1. e.id = <<"run", q, e.type, 0>>
      BY <2>2, <2>4 DEF MadeFor, RunId
    <3> QED
      BY <2>1, <2>3, <2>4, <3>1
  <2>5. CASE e.type = "postgres.result"
    <3>1. PICK v \in 1 .. ran[q] : e.id = <<"run", q, e.type, v>>
      BY <2>2, <2>5 DEF MadeFor, RunId
    <3> QED
      BY <2>1, <2>3, <2>5, <3>1
  <2> QED
    BY <1>4, <2>4, <2>5 DEF Comparable
<1>5. ASSUME NEW q \in Requests
      PROVE  /\ \E e \in rows : e.id = <<"run", q, "http.response", 0>>
             /\ \A v \in 1 .. c[q] :
                   \E e \in rows : e.id = <<"run", q, "postgres.result", v>>
  <2>1. \E e \in rows : e.id = <<"run", q, "http.response", 0>>
    <3>1. PICK e \in Range(replayed) : e.id = RunId(q, "http.response", 0)
      BY <1>3 DEF AnswersKept, Answered
    <3> QED
      BY <3>1 DEF Stored, RunId
  <2>2. ASSUME NEW v \in 1 .. c[q]
        PROVE  \E e \in rows : e.id = <<"run", q, "postgres.result", v>>
    <3>1. OnItsWay(q, v)
      BY <1>1, <1>3 DEF Whereabouts
    <3>2. HasResult(rows, q, v)
      BY <1>3, <3>1 DEF OnItsWay
    <3> QED
      BY <3>2 DEF HasResult, RunId
  <2> QED
    BY <2>1, <2>2
<1> QED
  BY <1>4, <1>5 DEF WholeSet

LEMMA FinalWholeStep ==
    ASSUME IInv, Orderly, SourceWhole, AllAnswered, AnswersKept, AsRecorded, RanAll, FinalWhole, [Next]_vars
    PROVE  FinalWhole'
<1> USE DEF config, appVars, runner
<1>0. /\ setup' = setup /\ source' = source
      /\ Typed /\ PoolInv /\ Complete /\ Staged /\ Stored /\ Whereabouts
      /\ RunAnswers' = RunAnswers /\ FullSource' = FullSource
      /\ \A q \in Requests : AsBefore(q)' = AsBefore(q)
  BY ConfigStays DEF IInv, Orderly, RunAnswers, FullSource, AsBefore
<1> SUFFICES ASSUME Undisturbed', FullSource, setup.skew = 0,
                    run' \in {"completing", "linking", "comparing", "done"}
             PROVE  (\E m : /\ Placed(final, m, "run")
                            /\ Whole(final, m, "run", setup.counts, RunAnswers))'
  BY <1>0 DEF FinalWhole
<1>1. Undisturbed
  BY <1>0, FaultsStay DEF Undisturbed
<1>2. ASSUME NEW m, Placed(final', m, "run"), Whole(final', m, "run", setup.counts, RunAnswers)
      PROVE  (\E n : /\ Placed(final, n, "run")
                     /\ Whole(final, n, "run", setup.counts, RunAnswers))'
  <2>1. Placed(final, m, "run")'
    BY <1>2 DEF Placed, Stream, InRank
  <2>2. Whole(final, m, "run", setup.counts, RunAnswers)'
    BY <1>0, <1>2 DEF Whole, Shape
  <2> QED
    BY <2>1, <2>2
<1>3. CASE final' = final /\ run \in {"completing", "linking", "comparing", "done"}
  <2>1. PICK m : Placed(final, m, "run") /\ Whole(final, m, "run", setup.counts, RunAnswers)
    BY <1>1, <1>3 DEF FinalWhole
  <2>2. Placed(final', m, "run") /\ Whole(final', m, "run", setup.counts, RunAnswers)
    BY <1>3, <2>1
  <2> QED
    BY <1>2, <2>2
<1>4. CASE FinishRead
  <2>1. run = "finishing" /\ setup.target = "http"
    BY <1>1, <1>4 DEF FinishRead, Undisturbed
  <2>2. PICK c \in [Requests -> 0 .. MaxSql] : c = setup.counts
    BY <1>0, ReplayAssumption DEF Typed
  <2>3. Requested(rows, "run")
    BY <1>0, <2>1, RowsRequested DEF IInv, SourceWhole
  <2>4. PICK from : FinishedAs(final', from, rows)
    BY <1>0, <1>4, FinishReads
  <2>5. PICK C, S, m, g :
           C = final' /\ S = rows /\ m = Cardinality(rows) /\ g = RunAnswers
    OBVIOUS
  <2>6. IsFiniteSet(S) /\ m \in Nat /\ m = Cardinality(S)
    BY <1>0, <2>5, FS_CardinalityType DEF Typed
  <2>7. Placed(C, m, "run")
    BY <2>3, <2>4, <2>5, <2>6, FinishedPlaced
  <2>8. WholeSet(S, "run", c, g)
    <3>1. c = setup.counts /\ g = RunAnswers
      BY <2>2, <2>5
    <3>2. WholeSet(rows, "run", c, g)
      BY <1>0, <1>1, <2>1, <3>1, RowsWhole
    <3> QED
      BY <2>5, <3>2
  <2>9. FinishedAs(C, from, S)
    BY <2>4, <2>5
  <2>10. Whole(C, m, "run", c, g)
    BY <2>6, <2>8, <2>9, FinishedWhole
  <2> QED
    BY <1>2, <2>2, <2>5, <2>7, <2>10
<1>5. CASE RunnerStep
  BY <1>3, <1>4, <1>5 DEF RunnerStep, Open, Refuse, ReplayMock, Gathered, AppendReplayed,
                          FinishCommit, LinkEvents, Compare
<1>6. CASE Abort
  BY <1>6 DEF Abort
<1>7. ASSUME NEW q \in Requests, Send(q) \/ Answer(q) \/ GiveUp(q)
      PROVE  FALSE
  BY <1>7 DEF Send, Answer, GiveUp, Receive
<1>8. ASSUME NEW q \in Requests, TargetStep(q)
      PROVE  run' = run /\ final' = final
  BY <1>8 DEF TargetStep, Arrive, RunSql, Respond, AppRaises, IngestAdmit, IngestAppend,
              FlushFails
<1>9. CASE UNCHANGED vars
  BY <1>3, <1>9 DEF vars
<1> QED
  BY <1>3, <1>5, <1>6, <1>7, <1>8, <1>9 DEF Next

\* The inductive invariant of an undisturbed run.
NInv == LInv /\ SourceWhole /\ AllAnswered /\ AnswersKept /\ AsRecorded /\ RanAll /\ FinalWhole

LEMMA NInvInit == Init => NInv
<1> SUFFICES ASSUME Init PROVE NInv
  OBVIOUS
<1>1. /\ run = "called" /\ replayed = <<>> /\ queue = <<>> /\ rows = {}
      /\ sent = [q \in Requests |-> "idle"] /\ app = [q \in Requests |-> "idle"]
      /\ outbox = [q \in Requests |-> {}]
  BY DEF Init
<1>2. AllAnswered /\ AnswersKept /\ RanAll /\ FinalWhole
  BY <1>1 DEF AllAnswered, AnswersKept, Answered, RanAll, FinalWhole
<1>3. AsRecorded
  <2>1. \A q \in Requests : outbox[q] = {}
    BY <1>1
  <2>2. Pool = {}
    BY <1>1, <2>1, EmptyIs DEF Pool
  <2> QED
    BY <2>2 DEF AsRecorded
<1> QED
  BY <1>2, <1>3, LInvInit, SourceWholeInit DEF NInv

LEMMA NInvStep == NInv /\ [Next]_vars => NInv'
<1> SUFFICES ASSUME NInv, [Next]_vars PROVE NInv'
  OBVIOUS
<1>1. /\ LInv /\ IInv /\ Orderly
      /\ SourceWhole /\ AllAnswered /\ AnswersKept /\ AsRecorded /\ RanAll /\ FinalWhole
  BY DEF NInv, LInv
<1>2. /\ Typed /\ RecordedInv /\ Staged /\ InSequence /\ Whereabouts
  BY <1>1 DEF IInv
<1>3. LInv' /\ Typed'
  BY <1>1, LInvStep DEF LInv, IInv
<1>4. SourceWhole'
  <2>1. setup' = setup /\ source' = source
    BY ConfigStays
  <2>2. /\ Resent' = Resent /\ FullSource' = FullSource /\ SourceAnswers' = SourceAnswers
        /\ \A q \in Requests : Recorded(q)' = Recorded(q)
    BY <2>1 DEF Recorded, Resent, FullSource, SourceAnswers
  <2> SUFFICES ASSUME FullSource
               PROVE  /\ Resent = Requests
                      /\ (\E n : /\ Placed(source, n, "source")
                                 /\ Whole(source, n, "source", setup.counts, SourceAnswers))'
                      /\ \A q \in Requests : Recorded(q) = setup.counts[q]
    BY <2>1, <2>2 DEF SourceWhole
  <2>3. PICK n : /\ Placed(source, n, "source")
                 /\ Whole(source, n, "source", setup.counts, SourceAnswers)
    BY <1>1 DEF SourceWhole
  <2>4. /\ Placed(source', n, "source")
        /\ Whole(source', n, "source", setup'.counts, SourceAnswers')
    BY <2>1, <2>2, <2>3
  <2>5. /\ Placed(source, n, "source")'
        /\ Whole(source, n, "source", setup.counts, SourceAnswers)'
    BY <2>4 DEF Placed, Stream, InRank, Whole, Shape
  <2>6. Resent = Requests /\ \A q \in Requests : Recorded(q) = setup.counts[q]
    BY <1>1 DEF SourceWhole
  <2> QED
    BY <2>5, <2>6
<1>5. AllAnswered' /\ AnswersKept'
  BY <1>1, <1>2, AllAnsweredStep, AnswersKeptStep
<1>6. AsRecorded'
  BY <1>1, <1>2, <1>3, AsRecordedStep
<1>7. RanAll'
  BY <1>1, <1>2, RanAllStep
<1>8. FinalWhole'
  BY <1>1, FinalWholeStep
<1> QED
  BY <1>3, <1>4, <1>5, <1>6, <1>7, <1>8 DEF NInv

LEMMA NInvAgrees == NInv => NoFalseAlarm
<1> SUFFICES ASSUME NInv, run = "done", Undisturbed, FullSource, setup.skew = 0,
                    \A q \in Requests :
                       Captured(setup.answers[q]) = Received(setup.answers[q])
             PROVE  \A k \in DOMAIN results : results[k].category = "match"
  BY DEF NoFalseAlarm, Unchanged, AllMatch, Undisturbed, FullSource
<1>1. Typed /\ FinalInv /\ SourceWhole /\ FinalWhole
  BY DEF NInv, LInv, IInv
<1>2. PICK c, g :
         c \in [Requests -> 0 .. MaxSql] /\ c = setup.counts /\ g = RunAnswers
  BY <1>1, ReplayAssumption DEF Typed
<1>3. g = SourceAnswers
  BY <1>2 DEF RunAnswers, SourceAnswers
<1>7. \A q \in Requests : g[q] # "error"
  <2>1. setup.answers \in [Requests -> Bodies]
    BY <1>1, ReplayAssumption DEF Typed
  <2> QED
    BY <1>2, <2>1 DEF RunAnswers, Received, Bodies
<1>4. PICK n : Placed(source, n, "source") /\ Whole(source, n, "source", c, g)
  BY <1>1, <1>2, <1>3 DEF SourceWhole
<1>5. PICK m : Placed(final, m, "run") /\ Whole(final, m, "run", c, g)
  BY <1>1, <1>2 DEF FinalWhole
<1>6. results = CompareRun(source, final, LinkStreams(source, final))
  BY <1>1 DEF FinalInv
<1> QED
  BY <1>2, <1>4, <1>5, <1>6, <1>7, WholeAgrees

\* No false alarm: a recording finished with all its rows, replayed without faults
\* against a service that does what it did when it is asked the same, matches in
\* every response and every statement, whatever the concurrency and whichever
\* request's flush carried what, if each request is sent again as it was and each
\* answer's body is recorded alike by the proxy and by the replay.
THEOREM NoFalseAlarmAlways == Spec => []NoFalseAlarm
<1>1. Init => NInv
  BY NInvInit
<1>2. NInv /\ [Next]_vars => NInv'
  BY NInvStep
<1> QED
  BY <1>1, <1>2, NInvAgrees, PTL DEF Spec
=============================================================================
