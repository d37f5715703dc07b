--------------------------- MODULE PortableProofs ---------------------------
(***************************************************************************)
(* Proofs about Portable and Payload, for any number of instances, imports *)
(* and names: no call touches a recording that is complete; redaction      *)
(* leaves nothing sensitive in any payload, also when it is applied again; *)
(* what a row or a file holds refers to nothing but itself (KeptInv); an   *)
(* import stores the events of its file, a file in order in that one (CopyInv); *)
(* and what a replay substitutes keeps equal values equal and different    *)
(* UUIDs different (Remembers).                                            *)
(***************************************************************************)
EXTENDS Portable, CorrelateProofs, WellFoundedInduction, TLAPS

-----------------------------------------------------------------------------
(* Redaction *)

LEMMA MinIsLeast ==
    ASSUME NEW S \in SUBSET Nat, S # {}
    PROVE  Min(S) \in S /\ \A k \in S : Min(S) <= k
<1> DEFINE LT == {ss \in Nat \X Nat : ss[1] < ss[2]}
<1>1. OpToRel(<, Nat) = LT
  BY Zenon DEF OpToRel
<1>2. IsWellFoundedOn(LT, Nat)
  BY Zenon, <1>1, NatLessThanWellFounded
<1> HIDE DEF LT
<1>3. PICK x \in S : \A y \in S : <<y, x>> \notin LT
  BY <1>2, WFMin
<1>4. ASSUME NEW y \in S
      PROVE  x <= y
  <2>1. x \in Nat /\ y \in Nat
    OBVIOUS
  <2>2. ~ (y < x)
    BY <1>3, <2>1 DEF LT
  <2> QED
    BY <2>1, <2>2
<1> QED
  BY <1>4 DEF Min

\* A path is cut behind its first sensitive key, if it has one.
LEMMA CutAtFirst ==
    ASSUME NEW S, NEW path \in Seq(S)
    PROVE  \/ Cut(path) = path /\ \A k \in DOMAIN path : path[k] \notin Sensitive
           \/ /\ Cut(path) # <<>> /\ Cut(path) \in Seq(S) /\ Last(Cut(path)) \in Sensitive
              /\ \A k \in DOMAIN Cut(path) : Cut(path)[k] \in Sensitive => k = Len(Cut(path))
<1> DEFINE hits == {k \in DOMAIN path : path[k] \in Sensitive}
           m == Min(hits)
<1>1. CASE hits = {}
  BY <1>1 DEF Cut
<1>2. CASE hits # {}
  <2>1. hits \in SUBSET Nat
    OBVIOUS
  <2>2. m \in hits /\ \A k \in hits : m <= k
    BY <1>2, <2>1, MinIsLeast
  <2>3. Cut(path) = SubSeq(path, 1, m)
    BY <1>2 DEF Cut
  <2> HIDE DEF m
  <2>4. m \in 1 .. Len(path) /\ path[m] \in Sensitive
    BY <2>2
  <2>5. /\ SubSeq(path, 1, m) \in Seq(S) /\ Len(SubSeq(path, 1, m)) = m
        /\ \A k \in 1 .. m : SubSeq(path, 1, m)[k] = path[k]
    BY <2>4
  <2>6. \A k \in 1 .. m : path[k] \in Sensitive => k = m
    BY <2>2, <2>4
  <2> QED
    BY <2>3, <2>4, <2>5, <2>6 DEF Last
<1> QED
  BY <1>1, <1>2

\* What the store keeps of any payload has no value under a sensitive key but the
\* mask, at whatever depth the key is and whatever lies under it.
THEOREM RedactionMasks ==
    ASSUME NEW S, NEW payload, DOMAIN payload \subseteq Seq(S)
    PROVE  Masked(Redacted(payload))
<1> SUFFICES ASSUME NEW p \in DOMAIN payload,
                    NEW k \in DOMAIN Cut(p), Cut(p)[k] \in Sensitive
             PROVE  Cut(p) # <<>> /\ Last(Cut(p)) \in Sensitive
  BY DEF Masked, Redacted
<1>1. p \in Seq(S)
  OBVIOUS
<1> QED
  BY <1>1, CutAtFirst

\* Redacting what is already redacted changes nothing: an exported and imported
\* recording is stored as it was.
THEOREM RedactionIdempotent ==
    ASSUME NEW S, NEW payload, DOMAIN payload \subseteq Seq(S)
    PROVE  Redacted(Redacted(payload)) = Redacted(payload)
<1> DEFINE R == Redacted(payload)
<1>1. DOMAIN R = {Cut(p) : p \in DOMAIN payload}
  BY DEF Redacted
<1>2. ASSUME NEW c \in DOMAIN R
      PROVE  /\ Cut(c) = c
             /\ c # <<>> /\ Last(c) \in Sensitive => R[c] = Redaction
  <2>1. PICK p \in DOMAIN payload : c = Cut(p)
    BY <1>1
  <2>2. p \in Seq(S) /\ c \in Seq(S)
    BY <2>1, CutAtFirst
  <2>3. \A k \in DOMAIN c : c[k] \in Sensitive => k = Len(c)
    BY <2>1, <2>2, CutAtFirst
  <2>4. Cut(c) = c
    <3>1. CASE \A k \in DOMAIN c : c[k] \notin Sensitive
      BY <3>1 DEF Cut
    <3>2. CASE \E k \in DOMAIN c : c[k] \in Sensitive
      <4>1. {k \in DOMAIN c : c[k] \in Sensitive} = {Len(c)} /\ Len(c) \in Nat
        BY <2>2, <2>3, <3>2
      <4>2. Min({Len(c)}) = Len(c)
        BY <4>1, MinIsLeast
      <4>3. Cut(c) = SubSeq(c, 1, Len(c))
        BY <4>1, <4>2 DEF Cut
      <4> QED
        BY <2>2, <4>3
    <3> QED
      BY <3>1, <3>2
  <2>5. c # <<>> /\ Last(c) \in Sensitive => R[c] = Redaction
    BY <1>1, <2>1 DEF Redacted
  <2> QED
    BY <2>4, <2>5
<1> HIDE DEF R
<1>3. {Cut(c) : c \in DOMAIN R} = DOMAIN R
  BY <1>2
<1>4. Redacted(R) = [c \in DOMAIN R |-> R[c]]
  BY <1>2, <1>3 DEF Redacted
<1>5. R = [c \in DOMAIN R |-> R[c]]
  BY DEF R, Redacted
<1> QED
  BY <1>4, <1>5 DEF R

-----------------------------------------------------------------------------
(* Substitution *)

\* h folds the leaves at the positions up to k, whichever of them are taken.
FoldsUpTo(h, k, engine, leaves) ==
    h = [s \in SUBSET (1 .. k) |->
            IF s = {} THEN engine ELSE Swap(h[s \ {Max(s)}], leaves[Max(s)])]

LEMMA MaxIs ==
    ASSUME NEW k \in Nat, NEW s \in SUBSET (1 .. k), k \in s
    PROVE  Max(s) = k
<1>1. \A y \in s : k >= y
  OBVIOUS
<1>2. Max(s) \in s /\ \A y \in s : Max(s) >= y
  BY <1>1 DEF Max
<1>3. Max(s) \in 1 .. k
  BY <1>2
<1> QED
  BY <1>1, <1>2, <1>3

LEMMA FoldGoesOn ==
    ASSUME NEW n \in Nat, NEW k \in 1 .. n, NEW engine, NEW leaves,
           NEW g, FoldsUpTo(g, k - 1, engine, leaves)
    PROVE  \E h : FoldsUpTo(h, k, engine, leaves)
<1> DEFINE h == [s \in SUBSET (1 .. k) |->
                    IF k \in s THEN Swap(g[s \ {k}], leaves[k]) ELSE g[s]]
           F == [s \in SUBSET (1 .. k) |->
                    IF s = {} THEN engine ELSE Swap(h[s \ {Max(s)}], leaves[Max(s)])]
<1>1. ASSUME NEW s \in SUBSET (1 .. k)
      PROVE  h[s] = IF s = {} THEN engine ELSE Swap(h[s \ {Max(s)}], leaves[Max(s)])
  <2>1. CASE k \in s
    <3>1. Max(s) = k
      BY <2>1, MaxIs
    <3>2. h[s \ {k}] = g[s \ {k}]
      OBVIOUS
    <3>3. h[s] = Swap(g[s \ {k}], leaves[k])
      BY <2>1
    <3> QED
      BY <2>1, <3>1, <3>2, <3>3
  <2>2. CASE k \notin s
    <3>1. s \in SUBSET (1 .. k - 1)
      BY <2>2
    <3>2. h[s] = g[s]
      BY <2>2
    <3>3. g[s] = IF s = {} THEN engine ELSE Swap(g[s \ {Max(s)}], leaves[Max(s)])
      BY <3>1 DEF FoldsUpTo
    <3>4. h[s \ {Max(s)}] = g[s \ {Max(s)}]
      BY <2>2
    <3> QED
      BY <3>2, <3>3, <3>4
  <2> QED
    BY <2>1, <2>2
<1>2. h = F
  <2> HIDE DEF h
  <2>1. \A s \in SUBSET (1 .. k) : h[s] = F[s]
    BY <1>1
  <2>2. h = [s \in SUBSET (1 .. k) |-> h[s]]
    BY DEF h
  <2> QED
    BY <2>1, <2>2
<1>3. FoldsUpTo(h, k, engine, leaves)
  BY <1>2 DEF FoldsUpTo
<1> QED
  BY <1>3

LEMMA FoldExists ==
    ASSUME NEW n \in Nat, NEW engine, NEW leaves
    PROVE  \E h : FoldsUpTo(h, n, engine, leaves)
<1> DEFINE S == {k \in 0 .. n : ~ \E h : FoldsUpTo(h, k, engine, leaves)}
<1>0. S \in SUBSET Nat
  OBVIOUS
<1> SUFFICES ASSUME S # {} PROVE FALSE
  OBVIOUS
<1>1. PICK k \in S : \A l \in S : k <= l
  <2> HIDE DEF S
  <2> QED
    BY <1>0, LeastExists
<1>2. CASE k = 0
  <2> DEFINE h == [s \in SUBSET (1 .. 0) |-> engine]
  <2>1. \A s \in SUBSET (1 .. 0) : s = {}
    OBVIOUS
  <2>2. h = [s \in SUBSET (1 .. 0) |->
                IF s = {} THEN engine ELSE Swap(h[s \ {Max(s)}], leaves[Max(s)])]
    BY <2>1
  <2>3. FoldsUpTo(h, 0, engine, leaves)
    BY <2>2 DEF FoldsUpTo
  <2> QED
    BY <1>2, <2>3
<1>3. CASE k # 0
  <2>1. k \in 1 .. n /\ k - 1 \in 0 .. n /\ k - 1 \notin S
    BY <1>1, <1>3
  <2>2. PICK g : FoldsUpTo(g, k - 1, engine, leaves)
    BY <2>1
  <2>3. \E h : FoldsUpTo(h, k, engine, leaves)
    BY <2>1, <2>2, FoldGoesOn
  <2> QED
    BY <2>3
<1> QED
  BY <1>2, <1>3

Folded(engine, leaves) == FoldLeft(Swap, engine, leaves)

\* The engine after each leaf, g[k] after the k-th.
History(g, n, engine, leaves) ==
    /\ g[0] = engine
    /\ \A k \in 1 .. n : g[k] = Swap(g[k - 1], leaves[k])
    /\ Folded(engine, leaves) = g[n]

LEMMA FoldIs ==
    ASSUME NEW n \in Nat, NEW leaves, DOMAIN leaves = 1 .. n, NEW engine
    PROVE  \E g : History(g, n, engine, leaves)
<1> DEFINE h == CHOOSE h : FoldsUpTo(h, n, engine, leaves)
           g == [k \in 0 .. n |-> h[1 .. k]]
<1>1. FoldsUpTo(h, n, engine, leaves)
  BY FoldExists
<1>2. Folded(engine, leaves) = h[1 .. n]
  BY DEF Folded, FoldLeft, MapThenFoldSet, FoldsUpTo
<1> HIDE DEF h
<1>3. \A s \in SUBSET (1 .. n) :
         h[s] = IF s = {} THEN engine ELSE Swap(h[s \ {Max(s)}], leaves[Max(s)])
  BY <1>1 DEF FoldsUpTo
<1>4. g[0] = engine
  <2>1. 1 .. 0 = {} /\ {} \in SUBSET (1 .. n)
    OBVIOUS
  <2>2. h[{}] = engine
    BY <1>3, <2>1
  <2>3. g[0] = h[1 .. 0]
    OBVIOUS
  <2> QED
    BY <2>1, <2>2, <2>3
<1>5. ASSUME NEW k \in 1 .. n
      PROVE  g[k] = Swap(g[k - 1], leaves[k])
  <2>0. k \in Nat /\ k \in 1 .. k
    OBVIOUS
  <2>1. 1 .. k \in SUBSET (1 .. n) /\ 1 .. k # {}
    <3>1. \A i \in 1 .. k : i \in 1 .. n
      OBVIOUS
    <3> QED
      BY <2>0, <3>1
  <2>2. Max(1 .. k) = k
    BY <2>0, MaxIs
  <2>3. (1 .. k) \ {k} = 1 .. k - 1
    OBVIOUS
  <2>4. h[1 .. k] = Swap(h[(1 .. k) \ {Max(1 .. k)}], leaves[Max(1 .. k)])
    BY <1>3, <2>1
  <2>5. g[k] = h[1 .. k] /\ g[k - 1] = h[1 .. k - 1] /\ g[n] = h[1 .. n]
    OBVIOUS
  <2> HIDE DEF g
  <2> QED
    BY <2>2, <2>3, <2>4, <2>5
<1>6. g[n] = h[1 .. n]
  OBVIOUS
<1> HIDE DEF g
<1>7. History(g, n, engine, leaves)
  BY <1>2, <1>4, <1>5, <1>6 DEF History
<1> QED
  BY <1>7

-----------------------------------------------------------------------------
(* What the engine remembers *)

\* The value s.mapping gives, once templates are expanded.
MapsTo(s, v) == IF s.mapping[v] \in Templates THEN <<"expanded", v>> ELSE s.mapping[v]

Draws(s, v) == s.auto /\ v \in Uuids \ DOMAIN s.mapping

\* The engine e after the first k leaves: what was sent for each of them, and the
\* UUIDs drawn so far, numbered by the leaf they were drawn at.
Remembers(e, s, leaves, k) ==
    /\ e = [mapping   |-> [v \in DOMAIN s.mapping |-> MapsTo(s, v)],
            auto      |-> s.auto,
            generated |-> e.generated,
            sent      |-> e.sent]
    /\ e.sent = [j \in 1 .. k |-> CASE leaves[j] \in DOMAIN s.mapping -> MapsTo(s, leaves[j])
                                   [] Draws(s, leaves[j])            -> e.generated[leaves[j]]
                                   [] OTHER                          -> leaves[j]]
    /\ e.generated = [v \in {leaves[j] : j \in {i \in 1 .. k : Draws(s, leaves[i])}} |->
                         e.generated[v]]
    /\ \A v \in DOMAIN e.generated :
          /\ \E c \in 0 .. k - 1 : e.generated[v] = <<"uuid", c>>
          /\ \A w \in DOMAIN e.generated : e.generated[v] = e.generated[w] => v = w

LEMMA EngineStarts ==
    ASSUME NEW s, NEW leaves
    PROVE  Remembers(Engine(s.mapping, s.auto), s, leaves, 0)
<1> DEFINE e == Engine(s.mapping, s.auto)
<1>1. e = [mapping   |-> [v \in DOMAIN s.mapping |-> MapsTo(s, v)], auto |-> s.auto,
           generated |-> <<>>, sent |-> <<>>]
  BY DEF Engine, MapsTo
<1> HIDE DEF e
<1>2. e.generated = <<>> /\ e.sent = <<>>
  BY <1>1
<1>3. \A f : DOMAIN f = {} /\ f = [x \in {} |-> f[x]] => f = <<>>
  OBVIOUS
<1> DEFINE Val(j) == CASE leaves[j] \in DOMAIN s.mapping -> MapsTo(s, leaves[j])
                       [] Draws(s, leaves[j])            -> e.generated[leaves[j]]
                       [] OTHER                          -> leaves[j]
           D == {leaves[j] : j \in {i \in 1 .. 0 : Draws(s, leaves[i])}}
<1>4. 1 .. 0 = {} /\ D = {}
  OBVIOUS
<1>5. e.sent = [j \in 1 .. 0 |-> Val(j)]
  <2> HIDE DEF Val
  <2> QED
    BY <1>2, <1>3, <1>4
<1>6. e.generated = [v \in D |-> e.generated[v]]
  BY <1>2, <1>3, <1>4
<1>7. \A v \in DOMAIN e.generated : FALSE
  BY <1>2
<1>8. e = [mapping   |-> [v \in DOMAIN s.mapping |-> MapsTo(s, v)], auto |-> s.auto,
           generated |-> e.generated, sent |-> e.sent]
  BY <1>1, <1>2
<1>9. Remembers(e, s, leaves, 0)
  BY <1>5, <1>6, <1>7, <1>8 DEF Remembers
<1> QED
  BY <1>9 DEF e

LEMMA AppendIs ==
    ASSUME NEW k \in Nat, NEW q, q = [j \in 1 .. k |-> q[j]], NEW x
    PROVE  /\ Len(q) = k
           /\ Append(q, x) = [j \in 1 .. k + 1 |-> IF j = k + 1 THEN x ELSE q[j]]
<1> DEFINE U == {q[j] : j \in 1 .. k} \union {x}
<1>1. q \in [1 .. k -> U]
  OBVIOUS
<1> HIDE DEF U
<1>2. q \in Seq(U) /\ Len(q) = k
  BY <1>1
<1>3. x \in U
  BY DEF U
<1>4. /\ Append(q, x) \in Seq(U) /\ Len(Append(q, x)) = k + 1
      /\ \A j \in 1 .. k + 1 : Append(q, x)[j] = IF j = k + 1 THEN x ELSE q[j]
  BY <1>2, <1>3
<1>5. Append(q, x) = [j \in 1 .. k + 1 |-> Append(q, x)[j]]
  BY <1>4
<1> QED
  BY <1>2, <1>4, <1>5

LEMMA EngineGoesOn ==
    ASSUME NEW s, NEW leaves, NEW k \in Nat, NEW e, Remembers(e, s, leaves, k)
    PROVE  Remembers(Swap(e, leaves[k + 1]), s, leaves, k + 1)
<1> DEFINE v == leaves[k + 1]
           M == [u \in DOMAIN s.mapping |-> MapsTo(s, u)]
           G == e.generated
           D(l) == {leaves[j] : j \in {i \in 1 .. l : Draws(s, leaves[i])}}
           G2 == IF Draws(s, v) THEN [u \in DOMAIN G \union {v} |-> Remembered(e, u)] ELSE G
           x == CASE v \in DOMAIN M  -> M[v]
                  [] v \in DOMAIN G2 -> G2[v]
                  [] OTHER           -> v
           f == Swap(e, v)
<1>1. /\ e = [mapping |-> M, auto |-> s.auto, generated |-> G, sent |-> e.sent]
      /\ e.mapping = M /\ e.auto = s.auto
  BY DEF Remembers
<1>2. /\ e.sent = [j \in 1 .. k |-> CASE leaves[j] \in DOMAIN s.mapping -> MapsTo(s, leaves[j])
                                    [] Draws(s, leaves[j])            -> G[leaves[j]]
                                    [] OTHER                          -> leaves[j]]
      /\ G = [u \in D(k) |-> G[u]] /\ DOMAIN G = D(k)
      /\ \A u \in D(k) : /\ \E c \in 0 .. k - 1 : G[u] = <<"uuid", c>>
                         /\ \A w \in D(k) : G[u] = G[w] => u = w
  BY DEF Remembers
<1>3. Len(e.sent) = k /\ Append(e.sent, x) = [j \in 1 .. k + 1 |-> IF j = k + 1 THEN x ELSE e.sent[j]]
  <2> HIDE DEF x
  <2>1. e.sent = [j \in 1 .. k |-> e.sent[j]]
    BY <1>2
  <2> QED
    BY <2>1, AppendIs
<1>4. f = [mapping |-> M, auto |-> s.auto, generated |-> G2, sent |-> Append(e.sent, x)]
  <2>1. f = [e EXCEPT !.generated = G2, !.sent = Append(@, x)]
    BY <1>1 DEF Swap, Draws
  <2> DEFINE q == Append(e.sent, x)
             b == [mapping |-> M, auto |-> s.auto, generated |-> G2, sent |-> e.sent]
  <2>2. [e EXCEPT !.generated = G2, !.sent = Append(@, x)] = [[e EXCEPT !.generated = G2] EXCEPT !.sent = q]
    BY ONLY <1>1
  <2> HIDE DEF M, G, G2, x, q
  <2>3. [e EXCEPT !.generated = G2] = b
    BY ONLY <1>1
  <2>4. [b EXCEPT !.sent = q] = [mapping |-> M, auto |-> s.auto, generated |-> G2, sent |-> q]
    OBVIOUS
  <2> QED
    BY <2>1, <2>2, <2>3, <2>4 DEF q
<1> HIDE DEF f
<1>5. DOMAIN G2 = D(k + 1)
  <2>1. 1 .. k + 1 = 1 .. k \union {k + 1}
    OBVIOUS
  <2>2. D(k + 1) = IF Draws(s, v) THEN D(k) \union {v} ELSE D(k)
    BY <2>1
  <2> HIDE DEF D
  <2> QED
    BY <1>2, <2>2
<1>6. \A u \in D(k) : G2[u] = G[u]
  <2> HIDE DEF D
  <2> QED
    BY <1>2 DEF Remembered
<1>7. \A u \in DOMAIN G2 : u \notin D(k) => u = v /\ G2[u] = <<"uuid", k>>
  <2> HIDE DEF D
  <2> QED
    BY <1>2, <1>3 DEF Remembered
<1>8. G2 = [u \in D(k + 1) |-> G2[u]]
  <2> HIDE DEF D
  <2>1. G2 = [u \in DOMAIN G2 |-> G2[u]]
    BY <1>2
  <2> QED
    BY <1>5, <2>1
<1> HIDE DEF G2, G
<1>9. \A u \in D(k + 1) : \E c \in 0 .. k : G2[u] = <<"uuid", c>>
  <2> SUFFICES ASSUME NEW u \in D(k + 1) PROVE \E c \in 0 .. k : G2[u] = <<"uuid", c>>
    OBVIOUS
  <2> HIDE DEF D
  <2>1. CASE u \in D(k)
    <3>1. PICK c \in 0 .. k - 1 : G[u] = <<"uuid", c>>
      BY <1>2, <2>1
    <3> QED
      BY <1>6, <2>1, <3>1
  <2>2. CASE u \notin D(k)
    BY <1>5, <1>7, <2>2
  <2> QED
    BY <2>1, <2>2
<1>10. ASSUME NEW u \in D(k + 1), NEW w \in D(k + 1), G2[u] = G2[w]
       PROVE  u = w
  <2> HIDE DEF D
  <2>1. ASSUME NEW a \in D(k), NEW b \in D(k + 1), b \notin D(k)
        PROVE  G2[a] # G2[b]
    <3>1. PICK c \in 0 .. k - 1 : G[a] = <<"uuid", c>>
      BY <1>2
    <3>2. G2[b] = <<"uuid", k>>
      BY <1>5, <1>7, <2>1
    <3> QED
      BY <1>6, <3>1, <3>2
  <2>2. CASE u \in D(k) /\ w \in D(k)
    BY <1>2, <1>6, <1>10, <2>2
  <2>3. CASE u \notin D(k) /\ w \notin D(k)
    BY <1>5, <1>7, <2>3
  <2> QED
    BY <1>10, <2>1, <2>2, <2>3
<1>11. Append(e.sent, x)
          = [j \in 1 .. k + 1 |-> CASE leaves[j] \in DOMAIN s.mapping -> MapsTo(s, leaves[j])
                                   [] Draws(s, leaves[j])            -> G2[leaves[j]]
                                   [] OTHER                          -> leaves[j]]
  <2> DEFINE val(j) == CASE leaves[j] \in DOMAIN s.mapping -> MapsTo(s, leaves[j])
                         [] Draws(s, leaves[j])            -> G2[leaves[j]]
                         [] OTHER                          -> leaves[j]
  <2>1. ASSUME NEW j \in 1 .. k
        PROVE  e.sent[j] = val(j)
    <3>1. e.sent[j] = CASE leaves[j] \in DOMAIN s.mapping -> MapsTo(s, leaves[j])
                        [] Draws(s, leaves[j])            -> G[leaves[j]]
                        [] OTHER                          -> leaves[j]
      BY <1>2
    <3>2. Draws(s, leaves[j]) => leaves[j] \in D(k)
      OBVIOUS
    <3>3. Draws(s, leaves[j]) => G2[leaves[j]] = G[leaves[j]]
      BY <1>6, <3>2
    <3>4. Draws(s, leaves[j]) => leaves[j] \notin DOMAIN s.mapping
      BY DEF Draws
    <3> QED
      BY <3>1, <3>3, <3>4
  <2>2. x = val(k + 1)
    <3>1. Draws(s, v) => v \in DOMAIN G2 /\ v \notin DOMAIN M
      BY <1>5 DEF Draws
    <3>2. v \in DOMAIN G2 => Draws(s, v)
      <4>1. ASSUME NEW i \in 1 .. k + 1, Draws(s, leaves[i]), v = leaves[i]
            PROVE  Draws(s, v)
        BY <4>1
      <4> QED
        BY <1>5, <4>1
    <3>3. v \in DOMAIN M <=> v \in DOMAIN s.mapping
      OBVIOUS
    <3>4. v \in DOMAIN M => M[v] = MapsTo(s, v)
      OBVIOUS
    <3>5. v = leaves[k + 1]
      OBVIOUS
    <3> HIDE DEF M, D, G2, v
    <3> QED
      BY <3>1, <3>2, <3>3, <3>4, <3>5
  <2> HIDE DEF x, val
  <2>3. \A j \in 1 .. k + 1 : (IF j = k + 1 THEN x ELSE e.sent[j]) = val(j)
    BY <2>1, <2>2
  <2>4. [j \in 1 .. k + 1 |-> IF j = k + 1 THEN x ELSE e.sent[j]] = [j \in 1 .. k + 1 |-> val(j)]
    BY <2>3
  <2> QED
    BY <1>3, <2>4 DEF val
<1>12. f.generated = G2 /\ f.sent = Append(e.sent, x)
  BY <1>4
<1> HIDE DEF x, D
<1> QED
  <2>1. DOMAIN f.generated = D(k + 1) /\ k + 1 - 1 = k
    BY <1>8, <1>12
  <2>2. f = [mapping |-> M, auto |-> s.auto, generated |-> f.generated, sent |-> f.sent]
    BY <1>4, <1>12
  <2>3. f.generated = [u \in D(k + 1) |-> f.generated[u]]
    BY <1>8, <1>12
  <2>4. \A u \in DOMAIN f.generated :
          /\ \E c \in 0 .. (k + 1) - 1 : f.generated[u] = <<"uuid", c>>
          /\ \A w \in DOMAIN f.generated : f.generated[u] = f.generated[w] => u = w
    BY <1>9, <1>10, <1>12, <2>1
  <2>5. f.sent = [j \in 1 .. k + 1 |-> CASE leaves[j] \in DOMAIN s.mapping -> MapsTo(s, leaves[j])
                                       [] Draws(s, leaves[j])            -> f.generated[leaves[j]]
                                       [] OTHER                          -> leaves[j]]
    BY <1>11, <1>12
  <2>6. Remembers(f, s, leaves, k + 1)
    BY <2>2, <2>3, <2>4, <2>5 DEF Remembers, D
  <2> QED
    BY <2>6 DEF f

LEMMA SubstitutedIs ==
    ASSUME NEW n \in Nat, NEW leaves, DOMAIN leaves = 1 .. n, NEW s
    PROVE  \E e : /\ Remembers(e, s, leaves, n)
                  /\ Substituted(leaves, s.mapping, s.auto) = e.sent
<1> DEFINE engine == Engine(s.mapping, s.auto)
<1>0. PICK g : History(g, n, engine, leaves)
  BY FoldIs
<1>1. /\ g[0] = engine
      /\ \A k \in 1 .. n : g[k] = Swap(g[k - 1], leaves[k])
      /\ Folded(engine, leaves) = g[n]
  BY <1>0 DEF History
<1> DEFINE S == {k \in 0 .. n : ~ Remembers(g[k], s, leaves, k)}
<1>2. S = {}
  <2>1. S \in SUBSET Nat
    OBVIOUS
  <2> SUFFICES ASSUME S # {} PROVE FALSE
    OBVIOUS
  <2>2. PICK k \in S : \A l \in S : k <= l
    <3> HIDE DEF S
    <3> QED
      BY <2>1, LeastExists
  <2>3. k # 0
    BY <1>1, EngineStarts
  <2>4. k - 1 \in 0 .. n /\ k \in 1 .. n /\ k - 1 \notin S /\ k - 1 \in Nat /\ (k - 1) + 1 = k
    BY <2>2, <2>3
  <2>5. Remembers(g[k - 1], s, leaves, k - 1)
    BY <2>4
  <2>6. Remembers(Swap(g[k - 1], leaves[(k - 1) + 1]), s, leaves, (k - 1) + 1)
    BY <2>4, <2>5, EngineGoesOn
  <2>7. Remembers(g[k], s, leaves, k)
    BY <1>1, <2>4, <2>6
  <2> QED
    BY <2>7
<1>3. Remembers(g[n], s, leaves, n)
  <2>1. n \in 0 .. n
    OBVIOUS
  <2> QED
    BY <1>2, <2>1
<1>4. Substituted(leaves, s.mapping, s.auto) = g[n].sent
  BY <1>1 DEF Substituted, Folded
<1> QED
  BY <1>3, <1>4

\* Whatever is substituted in whatever leaves, as long as the drawn UUIDs are new:
\* equal values are sent as equal values, and different UUIDs stay different.
THEOREM SubstitutionKeepsIdentity ==
    ASSUME NEW V, V \cap FreshUuids = {}, NEW leaves \in Seq(V),
           NEW s, \A v \in DOMAIN s.mapping : s.mapping[v] \notin FreshUuids
    PROVE  KeepsIdentity(leaves, s)
<1> DEFINE n == Len(leaves)
           sent == Substituted(leaves, s.mapping, s.auto)
<1>1. n \in Nat /\ DOMAIN leaves = 1 .. n /\ \A k \in 1 .. n : leaves[k] \in V
  OBVIOUS
<1> HIDE DEF n
<1>2. PICK e : Remembers(e, s, leaves, n) /\ sent = e.sent
  BY <1>1, SubstitutedIs
<1> HIDE DEF sent
<1>3. ASSUME NEW k \in 1 .. n
      PROVE  sent[k] = CASE leaves[k] \in DOMAIN s.mapping -> MapsTo(s, leaves[k])
                         [] Draws(s, leaves[k])            -> e.generated[leaves[k]]
                         [] OTHER                          -> leaves[k]
  BY <1>2 DEF Remembers
<1>4. ASSUME NEW k \in 1 .. n, Draws(s, leaves[k])
      PROVE  leaves[k] \notin DOMAIN s.mapping /\ leaves[k] \in DOMAIN e.generated
  <2>1. DOMAIN e.generated = {leaves[j] : j \in {i \in 1 .. n : Draws(s, leaves[i])}}
    BY <1>2 DEF Remembers
  <2> QED
    BY <1>4, <2>1 DEF Draws
<1>5. \A v \in DOMAIN e.generated : e.generated[v] \in FreshUuids
  <2> SUFFICES ASSUME NEW v \in DOMAIN e.generated PROVE e.generated[v] \in FreshUuids
    OBVIOUS
  <2>1. PICK c \in 0 .. n - 1 : e.generated[v] = <<"uuid", c>>
    BY <1>2 DEF Remembers
  <2> QED
    BY <1>1, <2>1 DEF FreshUuids
<1>6. \A v, w \in DOMAIN e.generated : e.generated[v] = e.generated[w] => v = w
  BY <1>2 DEF Remembers
<1>7. \A v \in DOMAIN s.mapping : MapsTo(s, v) \notin FreshUuids
  <2>1. \A v : <<"expanded", v>> \notin FreshUuids
    BY DEF FreshUuids
  <2> QED
    BY <2>1 DEF MapsTo
<1>8. ASSUME NEW j \in 1 .. n, Draws(s, leaves[j])
      PROVE  sent[j] = e.generated[leaves[j]] /\ sent[j] \in FreshUuids /\ sent[j] # leaves[j]
  BY <1>1, <1>3, <1>4, <1>5, <1>8
<1>9. ASSUME NEW j \in 1 .. n, ~ Draws(s, leaves[j])
      PROVE  sent[j] \notin FreshUuids
  BY <1>1, <1>3, <1>7, <1>9
<1>10. ASSUME NEW j \in 1 .. n, NEW k \in 1 .. n, Draws(s, leaves[j]), leaves[j] # leaves[k]
       PROVE  sent[j] # sent[k]
  <2>1. CASE Draws(s, leaves[k])
    BY <1>4, <1>6, <1>8, <1>10, <2>1
  <2>2. CASE ~ Draws(s, leaves[k])
    BY <1>8, <1>9, <1>10, <2>2
  <2> QED
    BY <2>1, <2>2
<1>11. ASSUME NEW j \in 1 .. n, NEW k \in 1 .. n, leaves[j] = leaves[k]
       PROVE  sent[j] = sent[k]
  BY <1>3, <1>11
<1>12. {k \in DOMAIN leaves : s.auto /\ leaves[k] \in Uuids \ DOMAIN s.mapping}
          = {k \in 1 .. n : Draws(s, leaves[k])}
  BY <1>1 DEF Draws
<1> QED
  BY <1>1, <1>8, <1>10, <1>11, <1>12 DEF KeepsIdentity, sent

\* h joins the first m sequences of seqs.
JoinsUpTo(h, m, seqs) ==
    h = [i \in 1 .. m |-> IF i = 1 THEN seqs[i] ELSE h[i - 1] \o seqs[i]]

LEMMA JoinGoesOn ==
    ASSUME NEW m \in Nat, NEW seqs, NEW g, JoinsUpTo(g, m, seqs)
    PROVE  \E h : JoinsUpTo(h, m + 1, seqs)
<1> DEFINE h == [i \in 1 .. m + 1 |->
                    IF i = 1 THEN seqs[i] ELSE (IF i = m + 1 THEN g[m] \o seqs[i] ELSE g[i])]
           H(i) == IF i = 1 THEN seqs[i] ELSE h[i - 1] \o seqs[i]
<1>1. ASSUME NEW i \in 1 .. m
      PROVE  g[i] = (IF i = 1 THEN seqs[i] ELSE g[i - 1] \o seqs[i]) /\ h[i] = g[i]
  <2>1. g[i] = IF i = 1 THEN seqs[i] ELSE g[i - 1] \o seqs[i]
    BY DEF JoinsUpTo
  <2> QED
    BY <2>1
<1>2. \A i \in 1 .. m + 1 : h[i] = H(i)
  <2> SUFFICES ASSUME NEW i \in 1 .. m + 1 PROVE h[i] = H(i)
    OBVIOUS
  <2>1. CASE i = 1
    BY <2>1
  <2>2. CASE i # 1
    <3>1. i - 1 \in 1 .. m
      BY <2>2
    <3>2. h[i - 1] = g[i - 1]
      BY <1>1, <3>1
    <3>3. CASE i = m + 1
      <4>1. i - 1 = m
        BY <3>3
      <4>2. h[i] = g[m] \o seqs[i]
        BY <2>2, <3>3
      <4> HIDE DEF h
      <4> QED
        BY <2>2, <3>2, <4>1, <4>2
    <3>4. CASE i # m + 1
      <4>1. i \in 1 .. m
        BY <3>4
      <4>2. h[i] = g[i - 1] \o seqs[i]
        BY <1>1, <2>2, <4>1
      <4> HIDE DEF h
      <4> QED
        BY <2>2, <3>2, <4>2
    <3> QED
      BY <3>3, <3>4
  <2> QED
    BY <2>1, <2>2
<1>3. h = [i \in 1 .. m + 1 |-> h[i]]
  OBVIOUS
<1> HIDE DEF h
<1>4. JoinsUpTo(h, m + 1, seqs)
  BY <1>2, <1>3 DEF JoinsUpTo
<1> QED
  BY <1>4

LEMMA FlattenSeqType ==
    ASSUME NEW V, NEW seqs \in Seq(Seq(V))
    PROVE  FlattenSeq(seqs) \in Seq(V)
<1> DEFINE n == Len(seqs)
           S == {m \in 0 .. n : ~ \E h : JoinsUpTo(h, m, seqs)}
<1>1. n \in Nat /\ \A k \in 1 .. n : seqs[k] \in Seq(V)
  OBVIOUS
<1>2. CASE n = 0
  <2>1. seqs = <<>>
    BY <1>2
  <2> QED
    BY <1>2, <2>1 DEF FlattenSeq
<1>3. CASE n # 0
  <2> HIDE DEF n
  <2>1. S = {}
    <3>1. S \in SUBSET Nat
      BY <1>1
    <3> SUFFICES ASSUME S # {} PROVE FALSE
      OBVIOUS
    <3>2. PICK m \in S : \A l \in S : m <= l
      <4> HIDE DEF S
      <4> QED
        BY <3>1, LeastExists
    <3>3. m # 0
      <4> DEFINE h == [i \in 1 .. 0 |-> seqs[i]]
      <4>1. \A i \in 1 .. 0 : FALSE
        OBVIOUS
      <4>2. h = [i \in 1 .. 0 |-> IF i = 1 THEN seqs[i] ELSE h[i - 1] \o seqs[i]]
        BY <4>1
      <4>3. JoinsUpTo(h, 0, seqs)
        BY <4>2 DEF JoinsUpTo
      <4> QED
        BY <3>2, <4>3
    <3>4. m - 1 \in 0 .. n /\ m - 1 \notin S /\ m - 1 \in Nat /\ (m - 1) + 1 = m
      <4>1. m \in 0 .. n
        BY <3>2
      <4> HIDE DEF S
      <4> QED
        BY <1>1, <3>2, <3>3, <4>1
    <3>5. PICK g : JoinsUpTo(g, m - 1, seqs)
      BY <3>4
    <3>6. \E h : JoinsUpTo(h, (m - 1) + 1, seqs)
      BY <3>4, <3>5, JoinGoesOn
    <3> QED
      BY <3>2, <3>4, <3>6
  <2> DEFINE h == CHOOSE h : JoinsUpTo(h, n, seqs)
  <2>2. JoinsUpTo(h, n, seqs)
    <3>1. n \in 0 .. n
      BY <1>1
    <3> QED
      BY <2>1, <3>1
  <2>3. FlattenSeq(seqs) = h[n]
    BY <1>3 DEF FlattenSeq, JoinsUpTo, n
  <2> HIDE DEF h
  <2>4. \A i \in 1 .. n : h[i] = IF i = 1 THEN seqs[i] ELSE h[i - 1] \o seqs[i]
    BY <2>2 DEF JoinsUpTo
  <2> DEFINE T == {i \in 1 .. n : h[i] \notin Seq(V)}
  <2>5. T = {}
    <3>1. T \in SUBSET Nat
      OBVIOUS
    <3> SUFFICES ASSUME T # {} PROVE FALSE
      OBVIOUS
    <3>2. PICK i \in T : \A l \in T : i <= l
      <4> HIDE DEF T
      <4> QED
        BY <3>1, LeastExists
    <3>3. CASE i = 1
      BY <1>1, <2>4, <3>2, <3>3
    <3>4. CASE i # 1
      <4>1. i \in 1 .. n /\ i - 1 \in 1 .. n /\ i - 1 \notin T
        BY <1>1, <3>2, <3>4
      <4>2. h[i - 1] \in Seq(V) /\ seqs[i] \in Seq(V)
        BY <1>1, <4>1
      <4>3. h[i] = h[i - 1] \o seqs[i]
        BY <2>4, <3>4, <4>1
      <4>4. h[i] \in Seq(V)
        BY <4>2, <4>3
      <4> QED
        BY <3>2, <4>4
    <3> QED
      BY <3>3, <3>4
  <2>6. n \in 1 .. n
    BY <1>1, <1>3
  <2> QED
    BY <2>3, <2>5, <2>6
<1> QED
  BY <1>2, <1>3

-----------------------------------------------------------------------------
(* Recordings that are complete *)

\* The state but for the bundles' content, with U for the events, snapshots,
\* streams and files there are: what they are does not matter here.
Typed(U) ==
    /\ rows \in [Instances -> [Names ->
          [status : {"absent", "recording", "completed", "failed"}, events : U, blob : U]]]
    /\ capture \in [pc : {"idle", "open", "done"}, name : Names, stream : U, next : U]
    /\ call \in [Imports -> [pc : Calls, at : Instances, name : Names, events : U, file : U]]
    /\ made \in Names
    /\ \A b \in bundles : b.name \in Names

WritersInv == OneWriter /\ \E U : Typed(U)

LEMMA WritersInit == Init => WritersInv
<1> SUFFICES ASSUME Init PROVE WritersInv
  OBVIOUS
<1>1. OneWriter
  BY DEF Init, OneWriter, Captures, Writes, Absent, Idle
<1>2. Typed({{}, <<>>, 1} \cup Streams)
  BY PortableAssumption DEF Init, Typed, Absent, Idle, Calls
<1> QED
  BY <1>1, <1>2 DEF WritersInv

LEMMA TypedGrows ==
    ASSUME NEW U, NEW V, U \subseteq V, Typed(U)
    PROVE  Typed(V)
BY DEF Typed

\* What becomes of the rows when one is set.
LEMMA RowSet ==
    ASSUME NEW U, Typed(U), NEW i \in Instances, NEW n \in Names,
           NEW s \in {"absent", "recording", "completed", "failed"}, NEW e \in U, NEW b \in U,
           SetRow(i, n, [status |-> s, events |-> e, blob |-> b])
    PROVE  /\ rows' \in [Instances -> [Names ->
                 [status : {"absent", "recording", "completed", "failed"}, events : U, blob : U]]]
           /\ rows'[i][n].status = s
           /\ \A j \in Instances, k \in Names : j # i \/ k # n => rows'[j][k] = rows[j][k]
BY DEF Typed, SetRow

\* A row being written, with other events or another snapshot.
LEMMA RowChanged ==
    ASSUME NEW row, NEW x,
           row = [status |-> "recording", events |-> row.events, blob |-> row.blob]
    PROVE  /\ [row EXCEPT !.events = x] =
                  [status |-> "recording", events |-> x, blob |-> row.blob]
           /\ [row EXCEPT !.blob = x] =
                  [status |-> "recording", events |-> row.events, blob |-> x]
OBVIOUS

\* The same for the record of one call.
LEMMA CallSet ==
    ASSUME NEW U, Typed(U), NEW m \in Imports, NEW r \in Calls, Reply(m, r)
    PROVE  /\ call' \in [Imports ->
                 [pc : Calls, at : Instances, name : Names, events : U, file : U]]
           /\ \A o \in Imports :
                 /\ call'[o].at = call[o].at /\ call'[o].name = call[o].name
                 /\ call'[o].pc = IF o = m THEN r ELSE call[o].pc
BY DEF Typed, Reply

LEMMA FreshRow ==
    [Absent EXCEPT !.status = "recording"] =
        [status |-> "recording", events |-> {}, blob |-> <<>>]
BY DEF Absent

CompletedKept ==
    \A i \in Instances, n \in Names :
        rows[i][n].status = "completed" => rows'[i][n] = rows[i][n]

\* The capture works on its own recording, which nobody else does.
LEMMA CaptureSteps ==
    ASSUME WritersInv, CaptureStart \/ CaptureNext \/ CaptureFails \/ CaptureEnds
    PROVE  WritersInv' /\ CompletedKept
<1> PICK U : Typed(U)
  BY DEF WritersInv
<1> USE DEF OneWriter, Captures, Writes
<1>1. OneWriter /\ Home \in Instances /\ capture.name \in Names
  BY PortableAssumption DEF WritersInv, Typed
<1>2. CASE CaptureStart
  <2> DEFINE n == made + 1
             V == U \cup {{}, <<>>}
  <2>1. /\ n \in Names /\ rows[Home][n].status = "absent"
        /\ SetRow(Home, n, [status |-> "recording", events |-> {}, blob |-> <<>>])
        /\ made' = n /\ capture' = [capture EXCEPT !.pc = "open", !.name = n]
        /\ UNCHANGED <<bundles, call>>
    BY <1>2, FreshRow DEF CaptureStart, StartRecording
  <2>2. Typed(V) /\ {} \in V /\ <<>> \in V
    BY TypedGrows
  <2> HIDE DEF n, V
  <2>3. /\ rows' \in [Instances -> [Names ->
             [status : {"absent", "recording", "completed", "failed"}, events : V, blob : V]]]
        /\ rows'[Home][n].status = "recording"
        /\ \A j \in Instances, k \in Names : j # Home \/ k # n => rows'[j][k] = rows[j][k]
    <3> HIDE DEF Writes, Captures, OneWriter
    <3>1. /\ Home \in Instances /\ n \in Names
          /\ SetRow(Home, n, [status |-> "recording", events |-> {}, blob |-> <<>>])
      BY <1>1, <2>1
    <3> QED
      BY <2>2, <3>1, RowSet
  <2>4. capture'.pc = "open" /\ capture'.name = n
    BY <2>1 DEF Typed
  <2>5. Typed(V)'
    BY <2>1, <2>3, <2>2 DEF Typed
  <2>6. OneWriter'
    BY <1>1, <2>1, <2>3, <2>4
  <2> QED
    BY <2>1, <2>3, <2>5, <2>6 DEF WritersInv, CompletedKept
<1>3. ASSUME capture.pc = "open"
      PROVE  /\ rows[Home][capture.name].status = "recording"
             /\ \A m \in Imports : ~ Writes(m, Home, capture.name)
  BY <1>1, <1>3
<1>4. CASE CaptureNext
  <2> DEFINE n == capture.name
             e == rows[Home][n].events \union
                     {Clean(x) : x \in {Stamped(n, capture.stream[capture.next])}}
  <2>1. /\ capture.pc = "open" /\ SetRow(Home, n, [rows[Home][n] EXCEPT !.events = e])
        /\ capture' = [capture EXCEPT !.next = @ + 1] /\ UNCHANGED <<bundles, call, made>>
    BY <1>4 DEF CaptureNext, AppendEvents
  <2> HIDE DEF e
  <2>2. PICK V : V = U \cup {e, capture.next + 1}
    OBVIOUS
  <2>3. [rows[Home][n] EXCEPT !.events = e] =
           [status |-> "recording", events |-> e, blob |-> rows[Home][n].blob]
    BY <1>1, <1>3, <2>1 DEF Typed
  <2>4. Typed(V) /\ e \in V /\ rows[Home][n].blob \in V
    BY <1>1, <2>2, TypedGrows DEF Typed
  <2>5. capture' \in [pc : {"idle", "open", "done"}, name : Names, stream : V, next : V]
        /\ capture'.pc = "open" /\ capture'.name = n
    BY <2>1, <2>2 DEF Typed
  <2>6. /\ rows' \in [Instances -> [Names ->
             [status : {"absent", "recording", "completed", "failed"}, events : V, blob : V]]]
        /\ rows'[Home][n].status = "recording"
        /\ \A j \in Instances, k \in Names : j # Home \/ k # n => rows'[j][k] = rows[j][k]
    BY <1>1, <2>1, <2>3, <2>4, RowSet
  <2>7. Typed(V)'
    BY <2>1, <2>4, <2>5, <2>6 DEF Typed
  <2>8. OneWriter'
    BY <1>1, <1>3, <2>1, <2>5, <2>6
  <2> QED
    BY <1>3, <2>1, <2>6, <2>7, <2>8 DEF WritersInv, CompletedKept
<1>5. ASSUME capture.pc = "open", capture' = [capture EXCEPT !.pc = "done"],
             UNCHANGED <<bundles, call, made>>,
             NEW s \in {"recording", "completed", "failed"}, NEW e, NEW b,
             SetRow(Home, capture.name, [status |-> s, events |-> e, blob |-> b])
      PROVE  WritersInv' /\ CompletedKept
  <2> DEFINE V == U \cup {e, b}
  <2>1. Typed(V)
    BY TypedGrows
  <2> HIDE DEF V
  <2>2. e \in V /\ b \in V
    BY DEF V
  <2>3. /\ rows' \in [Instances -> [Names ->
             [status : {"absent", "recording", "completed", "failed"}, events : V, blob : V]]]
        /\ \A j \in Instances, k \in Names :
              j # Home \/ k # capture.name => rows'[j][k] = rows[j][k]
    BY <1>1, <1>5, <2>1, <2>2, RowSet
  <2>4. Typed(V)' /\ capture'.pc = "done"
    BY <1>5, <2>1, <2>3 DEF Typed
  <2>5. OneWriter'
    BY <1>1, <1>3, <1>5, <2>3, <2>4
  <2> QED
    BY <1>3, <1>5, <2>3, <2>4, <2>5 DEF WritersInv, CompletedKept
<1>6. rows[Home][capture.name] =
         [status |-> rows[Home][capture.name].status, events |-> rows[Home][capture.name].events,
          blob |-> rows[Home][capture.name].blob]
  BY <1>1 DEF Typed
<1>7. CASE CaptureFails
  <2>1. CASE UNCHANGED rows
    <3>1. capture.pc = "open" /\ UNCHANGED <<bundles, call, made, rows>> /\ Typed(U)'
          /\ capture'.pc = "done"
      BY <1>7, <2>1 DEF CaptureFails, Typed
    <3> QED
      BY <1>1, <3>1 DEF WritersInv, CompletedKept
  <2>2. CASE SetRow(Home, capture.name, [rows[Home][capture.name] EXCEPT !.status = "failed"])
    <3>1. [rows[Home][capture.name] EXCEPT !.status = "failed"] =
             [status |-> "failed", events |-> rows[Home][capture.name].events,
              blob |-> rows[Home][capture.name].blob]
      BY <1>6
    <3> QED
      BY <1>5, <1>7, <2>2, <3>1 DEF CaptureFails
  <2> QED
    BY <1>7, <2>1, <2>2 DEF CaptureFails
<1>8. CASE CaptureEnds
  <2>1. CASE FinishRecording(Home, capture.name)
    BY <1>5, <1>8, <2>1 DEF CaptureEnds, FinishRecording
  <2>2. CASE FinishFails(Home, capture.name)
    <3> DEFINE b == Correlated(Ordered(rows[Home][capture.name].events))
    <3>1. SetRow(Home, capture.name, [rows[Home][capture.name] EXCEPT !.blob = b])
      BY <2>2 DEF FinishFails
    <3> HIDE DEF b
    <3>2. [rows[Home][capture.name] EXCEPT !.blob = b] =
             [status |-> rows[Home][capture.name].status,
              events |-> rows[Home][capture.name].events, blob |-> b]
      BY <1>6
    <3>3. rows[Home][capture.name].status = "recording"
      BY <1>3, <1>8 DEF CaptureEnds
    <3> QED
      BY <1>5, <1>8, <3>1, <3>2, <3>3 DEF CaptureEnds
  <2> QED
    BY <1>8, <2>1, <2>2 DEF CaptureEnds
<1> QED
  BY <1>2, <1>4, <1>7, <1>8

\* Exports and checks write no row.
LEMMA ReadingSteps ==
    ASSUME WritersInv,
           \/ \E i \in Instances, n \in Names : Export(i, n)
           \/ \E m \in Imports, b \in bundles : Refuse(m, b)
           \/ \E m \in Imports, i \in Instances, b \in bundles : Check(m, i, b)
    PROVE  WritersInv' /\ CompletedKept
<1> PICK U : Typed(U)
  BY DEF WritersInv
<1> USE DEF OneWriter, Captures, Writes
<1>1. OneWriter
  BY DEF WritersInv
<1>2. ASSUME NEW i \in Instances, NEW n \in Names, Export(i, n)
      PROVE  WritersInv' /\ CompletedKept
  <2> DEFINE b == [version |-> BundleVersion, schema |-> SchemaVersion, name |-> n,
                   events |-> Ordered(rows[i][n].events)]
  <2>1. bundles' = bundles \cup {b} /\ UNCHANGED <<rows, capture, call, made>> /\ b.name = n
    BY <1>2 DEF Export
  <2> HIDE DEF b
  <2>2. Typed(U)'
    BY <2>1 DEF Typed
  <2> QED
    BY <1>1, <2>1, <2>2 DEF WritersInv, CompletedKept
<1>3. ASSUME NEW m \in Imports, NEW b \in bundles, Refuse(m, b)
      PROVE  WritersInv' /\ CompletedKept
  <2>1. PICK r \in {"error", "refused"} : Reply(m, r)
    BY <1>3 DEF Refuse
  <2>2. r \in Calls
    BY DEF Calls
  <2>3. UNCHANGED <<rows, capture, bundles, made>>
    BY <1>3 DEF Refuse
  <2>4. /\ call' \in [Imports ->
              [pc : Calls, at : Instances, name : Names, events : U, file : U]]
        /\ \A o \in Imports :
              /\ call'[o].at = call[o].at /\ call'[o].name = call[o].name
              /\ call'[o].pc = IF o = m THEN r ELSE call[o].pc
    BY <2>1, <2>2, CallSet
  <2>5. Typed(U)'
    BY <2>3, <2>4 DEF Typed
  <2> QED
    BY <1>1, <2>3, <2>4, <2>5 DEF WritersInv, CompletedKept
<1>4. ASSUME NEW m \in Imports, NEW i \in Instances, NEW b \in bundles, Check(m, i, b)
      PROVE  WritersInv' /\ CompletedKept
  <2>1. PICK n \in Names, e \in {b.events, Rekeyed(b, made + 1)} :
           call' = [call EXCEPT ![m] = [pc |-> "checked", at |-> i, name |-> n,
                                        events |-> e, file |-> b.events]]
    BY <1>4 DEF Check, Typed
  <2>2. UNCHANGED <<rows, capture, bundles>> /\ made' \in Names
    BY <1>4 DEF Check, Typed
  <2> DEFINE V == U \cup {e, b.events}
  <2>3. Typed(V)
    BY TypedGrows
  <2>4. call' \in [Imports -> [pc : Calls, at : Instances, name : Names, events : V, file : V]]
        /\ call'[m].pc = "checked" /\ \A o \in Imports : o # m => call'[o] = call[o]
    BY <2>1, <2>3 DEF Typed, Calls
  <2> HIDE DEF V
  <2>5. Typed(V)'
    BY <2>2, <2>3, <2>4 DEF Typed
  <2> QED
    BY <1>1, <2>2, <2>4, <2>5 DEF WritersInv, CompletedKept
<1> QED
  BY <1>2, <1>3, <1>4

\* An import starts on a row that was absent, and works on what it started.
LEMMA ImportSteps ==
    ASSUME WritersInv, NEW m \in Imports,
           ImportStart(m) \/ ImportAppend(m) \/ ImportFinish(m) \/ ImportFails(m)
    PROVE  WritersInv' /\ CompletedKept
<1> PICK U : Typed(U)
  BY DEF WritersInv
<1> USE DEF OneWriter, Captures, Writes
<1> DEFINE i == call[m].at
           n == call[m].name
<1>1. OneWriter /\ i \in Instances /\ n \in Names
  BY DEF WritersInv, Typed
<1>2. UNCHANGED <<capture, bundles, made>>
  BY DEF ImportStart, ImportAppend, ImportFinish, ImportFails
<1>3. rows[i][n] = [status |-> rows[i][n].status, events |-> rows[i][n].events,
                    blob |-> rows[i][n].blob]
  BY <1>1 DEF Typed
<1>4. ASSUME NEW r \in Calls \ {"started", "appended"}, Reply(m, r), UNCHANGED rows
      PROVE  WritersInv' /\ CompletedKept
  <2>1. /\ call' \in [Imports ->
              [pc : Calls, at : Instances, name : Names, events : U, file : U]]
        /\ \A o \in Imports :
              /\ call'[o].at = call[o].at /\ call'[o].name = call[o].name
              /\ call'[o].pc = IF o = m THEN r ELSE call[o].pc
    BY <1>4, CallSet
  <2>2. Typed(U)'
    BY <1>2, <1>4, <2>1 DEF Typed
  <2> QED
    BY <1>1, <1>2, <1>4, <2>1, <2>2 DEF WritersInv, CompletedKept
<1>5. ASSUME NEW r \in Calls, Reply(m, r),
             NEW s \in {"recording", "completed"}, NEW e, NEW b,
             SetRow(i, n, [status |-> s, events |-> e, blob |-> b]),
             \/ rows[i][n].status = "absent" /\ r = "started" /\ s = "recording"
             \/ Writes(m, i, n) /\ (r \in {"started", "appended"} => s = "recording")
      PROVE  WritersInv' /\ CompletedKept
  <2> DEFINE V == U \cup {e, b}
  <2>1. Typed(V) /\ e \in V /\ b \in V
    BY TypedGrows
  <2> HIDE DEF V
  <2>2. /\ rows' \in [Instances -> [Names ->
             [status : {"absent", "recording", "completed", "failed"}, events : V, blob : V]]]
        /\ rows'[i][n].status = s
        /\ \A j \in Instances, k \in Names : j # i \/ k # n => rows'[j][k] = rows[j][k]
    BY <1>1, <1>5, <2>1, RowSet
  <2>3. /\ call' \in [Imports ->
              [pc : Calls, at : Instances, name : Names, events : V, file : V]]
        /\ \A o \in Imports :
              /\ call'[o].at = call[o].at /\ call'[o].name = call[o].name
              /\ call'[o].pc = IF o = m THEN r ELSE call[o].pc
    BY <1>5, <2>1, CallSet
  <2>4. Typed(V)'
    BY <1>2, <2>1, <2>2, <2>3 DEF Typed
  <2>5. ~ Captures(i, n) /\ \A o \in Imports : o # m => ~ Writes(o, i, n)
    BY <1>1, <1>5
  <2>6. rows[i][n].status # "completed"
    BY <1>1, <1>5
  <2>7. OneWriter'
    <3> SUFFICES ASSUME NEW j \in Instances, NEW k \in Names
                 PROVE  /\ Captures(j, k)' => rows'[j][k].status = "recording"
                        /\ \A p \in Imports : Writes(p, j, k)' =>
                              /\ rows'[j][k].status = "recording"
                              /\ ~ Captures(j, k)'
                              /\ \A o \in Imports : Writes(o, j, k)' => o = p
      OBVIOUS
    <3>1. Captures(j, k)' <=> Captures(j, k)
      BY <1>2
    <3>2. \A p \in Imports : Writes(p, j, k)' <=>
             IF p = m THEN r \in {"started", "appended"} /\ j = i /\ k = n ELSE Writes(p, j, k)
      BY <2>3
    <3>3. CASE j = i /\ k = n
      BY <1>5, <2>2, <2>5, <3>1, <3>2, <3>3
    <3>4. CASE j # i \/ k # n
      <4>1. /\ Captures(j, k) => rows[j][k].status = "recording"
            /\ \A p \in Imports : Writes(p, j, k) =>
                  /\ rows[j][k].status = "recording"
                  /\ ~ Captures(j, k)
                  /\ \A o \in Imports : Writes(o, j, k) => o = p
        BY <1>1
      <4>2. rows'[j][k] = rows[j][k]
        BY <2>2, <3>4
      <4> HIDE DEF Captures, Writes, i, n
      <4> QED
        BY <3>1, <3>2, <3>4, <4>1, <4>2
    <3> QED
      BY <3>3, <3>4
  <2> QED
    BY <2>2, <2>4, <2>6, <2>7 DEF WritersInv, CompletedKept
<1>6. CASE ImportStart(m)
  <2>1. CASE StartRecording(i, n) /\ Reply(m, "started")
    <3>1. /\ rows[i][n].status = "absent"
          /\ SetRow(i, n, [status |-> "recording", events |-> {}, blob |-> <<>>])
      BY <2>1, FreshRow DEF StartRecording
    <3> QED
      BY <1>5, <2>1, <3>1 DEF Calls
  <2>2. CASE Reply(m, "error") /\ UNCHANGED rows
    BY <1>4, <2>2 DEF Calls
  <2> QED
    BY <1>6, <2>1, <2>2 DEF ImportStart
<1>7. CASE ImportAppend(m)
  <2> DEFINE e == rows[i][n].events \union {Clean(x) : x \in Range(call[m].events)}
  <2>1. Writes(m, i, n) /\ Reply(m, "appended") /\ SetRow(i, n, [rows[i][n] EXCEPT !.events = e])
    BY <1>7 DEF ImportAppend, AppendEvents
  <2> HIDE DEF e
  <2>2. [rows[i][n] EXCEPT !.events = e] =
           [status |-> "recording", events |-> e, blob |-> rows[i][n].blob]
    <3> DEFINE row == rows[i][n]
    <3>1. row = [status |-> "recording", events |-> row.events, blob |-> row.blob]
      BY <1>1, <1>3, <2>1
    <3> HIDE DEF row
    <3>2. [row EXCEPT !.events = e] =
             [status |-> "recording", events |-> e, blob |-> row.blob]
      BY ONLY <3>1, RowChanged
    <3> QED
      BY <3>2 DEF row
  <2>3. "appended" \in Calls
    BY DEF Calls
  <2> HIDE DEF i, n, Writes, Captures, OneWriter
  <2> QED
    BY <1>5, <2>1, <2>2, <2>3
<1>8. CASE ImportFinish(m)
  <2>1. Writes(m, i, n) /\ Reply(m, "imported") /\ FinishRecording(i, n)
    BY <1>8 DEF ImportFinish
  <2> QED
    BY <1>5, <2>1 DEF FinishRecording, Calls
<1>9. CASE ImportFails(m)
  <2>1. CASE UNCHANGED rows
    BY <1>4, <1>9, <2>1 DEF ImportFails, Calls
  <2>2. CASE call[m].pc = "appended" /\ FinishFails(i, n)
    <3> DEFINE b == Correlated(Ordered(rows[i][n].events))
    <3>1. SetRow(i, n, [rows[i][n] EXCEPT !.blob = b]) /\ Reply(m, "error") /\ Writes(m, i, n)
      BY <1>9, <2>2 DEF FinishFails, ImportFails
    <3> HIDE DEF b
    <3>2. [rows[i][n] EXCEPT !.blob = b] =
             [status |-> "recording", events |-> rows[i][n].events, blob |-> b]
      <4> DEFINE row == rows[i][n]
      <4>1. row = [status |-> "recording", events |-> row.events, blob |-> row.blob]
        BY <1>1, <1>3, <3>1
      <4> HIDE DEF row
      <4>2. [row EXCEPT !.blob = b] =
               [status |-> "recording", events |-> row.events, blob |-> b]
        BY ONLY <4>1, RowChanged
      <4> QED
        BY <4>2 DEF row
    <3>3. "error" \in Calls \ {"started", "appended"}
      BY DEF Calls
    <3> HIDE DEF i, n, Writes, Captures, OneWriter
    <3> QED
      BY <1>5, <3>1, <3>2, <3>3
  <2> QED
    BY <1>9, <2>1, <2>2 DEF ImportFails
<1> QED
  BY <1>6, <1>7, <1>8, <1>9

LEMMA WritersStep ==
    ASSUME WritersInv, [Next]_vars
    PROVE  WritersInv' /\ (CompletedKept \/ UNCHANGED vars)
<1>1. CASE UNCHANGED vars
  BY <1>1 DEF vars, WritersInv, OneWriter, Captures, Writes, Typed
<1>2. CASE Next
  BY <1>2, CaptureSteps, ReadingSteps, ImportSteps DEF Next
<1> QED
  BY <1>1, <1>2

\* A call works on a recording in status "recording" and no other call does, for
\* the row was absent when it started.
THEOREM WritersAlone == Spec => []OneWriter
<1>1. WritersInv /\ [Next]_vars => WritersInv'
  BY WritersStep
<1>2. WritersInv => OneWriter
  BY DEF WritersInv
<1> QED
  BY <1>1, <1>2, WritersInit, PTL DEF Spec

\* Whatever is exported and imported, raced and broken off, a completed recording
\* stays as it is.
THEOREM OriginalsKept == Spec => OriginalsUntouched
<1>1. WritersInv /\ [Next]_vars => WritersInv'
  BY WritersStep
<1>2. WritersInv /\ [Next]_vars =>
        [\A i \in Instances, n \in Names :
            rows[i][n].status = "completed" => rows'[i][n] = rows[i][n]]_vars
  BY WritersStep DEF CompletedKept
<1> QED
  BY <1>1, <1>2, WritersInit, PTL DEF Spec, OriginalsUntouched

-----------------------------------------------------------------------------
(* Reading the rows of a recording *)

LEMMA SetToSeqEnumerates ==
    ASSUME NEW S, IsFiniteSet(S)
    PROVE  Enumerates(SetToSeq(S), S)
<1> DEFINE n == Cardinality(S)
           s == SetToSeq(S)
<1>1. n \in Nat /\ ExistsBijection(1 .. n, S)
  BY FS_CardinalityType
<1>2. PICK f : f \in Bijection(1 .. n, S)
  BY <1>1 DEF ExistsBijection
<1> HIDE DEF n
<1>3. f \in [1 .. n -> S] /\ IsInjective(f)
  <2>1. f \in [1 .. n -> S] /\ \A j, k \in 1 .. n : f[j] = f[k] => j = k
    BY <1>2, BijectionMeans
  <2> QED
    BY <2>1 DEF IsInjective
<1>4. s \in [1 .. n -> S] /\ IsInjective(s)
  BY <1>3 DEF SetToSeq, n
<1> HIDE DEF s
<1>5. IsFiniteSet(1 .. n) /\ Cardinality(1 .. n) = n
  BY <1>1, FS_Interval
<1>6. s \in Injection(1 .. n, S)
  BY <1>4 DEF Injection
<1>7. s \in Surjection(1 .. n, S)
  <2>1. s \in Surjection(1 .. n, S) <=> Cardinality(1 .. n) = Cardinality(S)
    BY <1>6, FS_Injection
  <2> QED
    BY <1>5, <2>1 DEF n
<1>8. \A x \in S : \E k \in 1 .. n : s[k] = x
  BY <1>7 DEF Surjection
<1>9. \A j, k \in 1 .. n : s[j] = s[k] => j = k
  BY <1>4 DEF IsInjective
<1> QED
  BY <1>4, <1>8, <1>9 DEF Enumerates, n, s

\* The rows by sequence, each once.
LEMMA OrderedEnumerates ==
    ASSUME NEW S, IsFiniteSet(S), \A e \in S : e.seq \in Int
    PROVE  /\ Enumerates(Ordered(S), S)
           /\ \A j, k \in 1 .. Cardinality(S) :
                 j <= k => Ordered(S)[j].seq <= Ordered(S)[k].seq
<1> DEFINE n == Cardinality(S)
           s == SetToSeq(S)
<1>1. n \in Nat
  BY FS_CardinalityType
<1>2. Enumerates(s, S)
  BY SetToSeqEnumerates
<1> HIDE DEF s, n
<1>3. /\ s \in [1 .. n -> S] /\ \A j, k \in 1 .. n : s[j] = s[k] => j = k
      /\ \A x \in S : \E k \in 1 .. n : s[k] = x
  BY <1>2 DEF Enumerates, n
<1>4. DOMAIN s = 1 .. n /\ \A i \in 1 .. n : s[i].seq \in Int
  BY <1>3
<1>5. PICK o : PutsInOrder(o, n, s)
  BY <1>1, <1>4, SortedBySequence
<1>6. /\ o \in [1 .. n -> 1 .. n]
      /\ \A j, k \in 1 .. n : o[j] = o[k] => j = k
      /\ \A i \in 1 .. n : \E k \in 1 .. n : o[k] = i
      /\ \A j, k \in 1 .. n : j <= k => s[o[j]].seq <= s[o[k]].seq
      /\ BySequence(s) = [k \in 1 .. n |-> s[o[k]]]
  BY <1>5 DEF PutsInOrder
<1> DEFINE t == Ordered(S)
<1>7. t = [k \in 1 .. n |-> s[o[k]]]
  BY <1>6 DEF Ordered, s
<1> HIDE DEF t
<1>8. t \in [1 .. n -> S] /\ \A k \in 1 .. n : t[k] = s[o[k]]
  BY <1>3, <1>6, <1>7
<1>9. ASSUME NEW j \in 1 .. n, NEW k \in 1 .. n
      PROVE  /\ t[j] = t[k] => j = k
             /\ j <= k => t[j].seq <= t[k].seq
  <2>1. t[j] = s[o[j]] /\ t[k] = s[o[k]] /\ o[j] \in 1 .. n /\ o[k] \in 1 .. n
    BY <1>6, <1>8
  <2>2. \A a, b \in 1 .. n : s[a] = s[b] => a = b
    BY <1>3
  <2>4. t[j] = t[k] => o[j] = o[k]
    BY <2>1, <2>2
  <2>3. j <= k => s[o[j]].seq <= s[o[k]].seq
    BY <1>6
  <2> QED
    BY <1>6, <2>1, <2>3, <2>4
<1>10. \A x \in S : \E k \in 1 .. n : t[k] = x
  <2> SUFFICES ASSUME NEW x \in S PROVE \E k \in 1 .. n : t[k] = x
    OBVIOUS
  <2>1. PICK i \in 1 .. n : s[i] = x
    BY <1>3
  <2>2. PICK k \in 1 .. n : o[k] = i
    BY <1>6
  <2> QED
    BY <1>8, <2>1, <2>2
<1> QED
  BY <1>8, <1>9, <1>10 DEF Enumerates, n, t

\* Rows numbered from 0 are read in that order.
LEMMA OrderedIs ==
    ASSUME NEW T, IsFiniteSet(T), NEW C, Enumerates(C, T),
           \A k \in 1 .. Cardinality(T) : C[k].seq = k - 1
    PROVE  Ordered(T) = C
<1> DEFINE n == Cardinality(T)
           t == Ordered(T)
           R == {p \in T \X T : p[1].seq <= p[2].seq}
<1>1. n \in Nat
  BY FS_CardinalityType
<1>2. /\ C \in [1 .. n -> T] /\ \A j, k \in 1 .. n : C[j] = C[k] => j = k
      /\ \A x \in T : \E k \in 1 .. n : C[k] = x
  BY DEF Enumerates
<1>3. \A k \in 1 .. n : C[k].seq = k - 1
  OBVIOUS
<1> HIDE DEF n
<1>4. \A x \in T : x.seq \in Int
  BY <1>1, <1>2, <1>3
<1>5. \A x, y \in T : x.seq = y.seq => x = y
  <2> SUFFICES ASSUME NEW x \in T, NEW y \in T, x.seq = y.seq PROVE x = y
    OBVIOUS
  <2>1. PICK j \in 1 .. n : C[j] = x
    BY <1>2
  <2>2. PICK k \in 1 .. n : C[k] = y
    BY <1>2
  <2> QED
    BY <1>3, <2>1, <2>2
<1>6. Enumerates(t, T) /\ \A j, k \in 1 .. n : j <= k => t[j].seq <= t[k].seq
  BY <1>4, OrderedEnumerates DEF n
<1> HIDE DEF t
<1>7. t \in [1 .. n -> T] /\ \A j, k \in 1 .. n : t[j] = t[k] => j = k
  BY <1>6 DEF Enumerates, n
<1>8. Lists(t, R, T)
  <2> SUFFICES ASSUME NEW j \in 1 .. n, NEW k \in 1 .. n
               PROVE  <<t[j], t[k]>> \in R <=> j <= k
    BY <1>6 DEF Lists, n
  <2>1. t[j] \in T /\ t[k] \in T /\ t[j].seq \in Int /\ t[k].seq \in Int
    BY <1>4, <1>7
  <2>2. <<t[j], t[k]>> \in R <=> t[j].seq <= t[k].seq
    BY <2>1
  <2>3. j <= k => t[j].seq <= t[k].seq
    BY <1>6
  <2>4. k < j => t[k].seq <= t[j].seq /\ t[k].seq # t[j].seq
    BY <1>5, <1>6, <1>7, <2>1
  <2> QED
    BY <1>1, <2>1, <2>2, <2>3, <2>4
<1>9. Lists(C, R, T)
  <2> SUFFICES ASSUME NEW j \in 1 .. n, NEW k \in 1 .. n
               PROVE  <<C[j], C[k]>> \in R <=> j <= k
    BY DEF Lists, n
  <2>1. C[j] \in T /\ C[k] \in T /\ C[j].seq = j - 1 /\ C[k].seq = k - 1
    BY <1>2, <1>3
  <2> QED
    BY <1>1, <2>1
<1> QED
  BY <1>8, <1>9, ListsUnique DEF t

-----------------------------------------------------------------------------
(* What the service does to events *)

LEMMA EventIsRow ==
    ASSUME NEW e, IsEvent(e)
    PROVE  /\ Row(e)
           /\ DOMAIN e = {"id", "corr", "ts", "seq", "type", "parent", "payload"}
<1>1. DOMAIN e = {"id", "corr", "ts", "seq", "type", "parent", "payload"}
  BY DEF IsEvent
<1>2. e = [x \in DOMAIN e |-> e[x]]
  <2>1. e = [id |-> e.id, corr |-> e.corr, ts |-> e.ts, seq |-> e.seq, type |-> e.type,
             parent |-> e.parent, payload |-> e.payload]
    BY DEF IsEvent
  <2> DEFINE r == [id |-> e.id, corr |-> e.corr, ts |-> e.ts, seq |-> e.seq, type |-> e.type,
                   parent |-> e.parent, payload |-> e.payload]
  <2>2. r = [x \in DOMAIN r |-> r[x]]
    OBVIOUS
  <2> QED
    BY <2>1, <2>2
<1>3. e.ts \in Int /\ e.seq \in Int
  BY DEF IsEvent
<1> QED
  BY <1>1, <1>2, <1>3 DEF Row

\* An event whose columns are those of another but for the ones that may change.
LEMMA StillEvent ==
    ASSUME NEW e, IsEvent(e), NEW f, Row(f), DOMAIN f = DOMAIN e,
           f.id \in Seq(Nat) \ {NoParent}, IsPayload(f.payload)
    PROVE  IsEvent(f)
<1>1. DOMAIN f = {"id", "corr", "ts", "seq", "type", "parent", "payload"}
  BY EventIsRow
<1>2. f = [x \in DOMAIN f |-> f[x]]
  BY DEF Row
<1>3. f = [id |-> f.id, corr |-> f.corr, ts |-> f.ts, seq |-> f.seq, type |-> f.type,
           parent |-> f.parent, payload |-> f.payload]
  BY <1>1, <1>2
<1> QED
  BY <1>3 DEF IsEvent, Row

LEMMA RedactedPayload ==
    ASSUME NEW payload, IsPayload(payload)
    PROVE  Masked(Redacted(payload)) /\ IsPayload(Redacted(payload))
<1> DEFINE S == UNION {Range(path) : path \in DOMAIN payload}
<1>1. ASSUME NEW path \in DOMAIN payload
      PROVE  path \in Seq(S)
  <2>1. path \in Seq(Range(path)) /\ Range(path) \subseteq S
    BY DEF IsPayload
  <2> QED
    BY <2>1
<1> HIDE DEF S
<1>2. Masked(Redacted(payload))
  BY <1>1, RedactionMasks
<1>3. ASSUME NEW path \in DOMAIN Redacted(payload)
      PROVE  path \in Seq(Range(path))
  <2>1. PICK p \in DOMAIN payload : path = Cut(p)
    BY DEF Redacted
  <2>2. p \in Seq(S)
    BY <1>1
  <2>3. path \in Seq(S)
    BY <2>1, <2>2, CutAtFirst
  <2>4. \A k \in 1 .. Len(path) : path[k] \in Range(path)
    BY <2>3 DEF Range
  <2> QED
    BY <2>3, <2>4
<1>4. ASSUME NEW path \in DOMAIN Redacted(payload)
      PROVE  Redacted(payload)[path] \notin FreshUuids
  <2>1. PICK p \in DOMAIN payload : path = Cut(p)
    BY DEF Redacted
  <2>2. CASE path # <<>> /\ Last(path) \in Sensitive
    BY <2>2, FreshAssumption DEF Redacted
  <2>3. CASE ~ (path # <<>> /\ Last(path) \in Sensitive)
    <3>1. path = p
      BY <1>1, <2>1, <2>3, CutAtFirst
    <3>2. Redacted(payload)[path] = payload[path]
      BY <2>3 DEF Redacted
    <3> QED
      BY <3>1, <3>2 DEF IsPayload
  <2> QED
    BY <2>2, <2>3
<1>5. IsFiniteSet(DOMAIN Redacted(payload))
  <2> DEFINE D == DOMAIN payload
             T == {Cut(p) : p \in D}
             f == [p \in D |-> Cut(p)]
  <2>1. f \in Surjection(D, T)
    BY DEF Surjection
  <2>2. IsFiniteSet(D)
    BY DEF IsPayload
  <2> HIDE DEF f, D, T
  <2>3. IsFiniteSet(T)
    BY <2>1, <2>2, FS_Surjection
  <2> QED
    BY <2>3 DEF Redacted, T, D
<1> QED
  BY <1>2, <1>3, <1>4, <1>5 DEF IsPayload

\* What is stored of an event.
CleanOf(e, f) ==
    /\ IsEvent(f) /\ f.id = e.id /\ f.corr = e.corr /\ f.ts = e.ts /\ f.seq = e.seq
    /\ f.type = e.type /\ f.parent = e.parent /\ f.payload = Redacted(e.payload)
    /\ Masked(f.payload)

LEMMA CleanIs ==
    ASSUME NEW e, IsEvent(e)
    PROVE  CleanOf(e, Clean(e))
<1>1. e = [id |-> e.id, corr |-> e.corr, ts |-> e.ts, seq |-> e.seq, type |-> e.type,
           parent |-> e.parent, payload |-> e.payload]
  BY DEF IsEvent
<1> DEFINE p == Redacted(e.payload)
           f == [id |-> e.id, corr |-> e.corr, ts |-> e.ts, seq |-> e.seq, type |-> e.type,
                 parent |-> e.parent, payload |-> p]
<1>2. Masked(p) /\ IsPayload(p)
  BY RedactedPayload DEF IsEvent
<1> HIDE DEF p
<1>3. Clean(e) = f
  <2>1. Clean(e) = [e EXCEPT !.payload = p]
    BY DEF Clean, p
  <2>2. [e EXCEPT !.payload = p] = f
    BY ONLY <1>1
  <2> QED
    BY <2>1, <2>2
<1>4. IsEvent(f)
  BY <1>2 DEF IsEvent
<1> QED
  BY <1>2, <1>3, <1>4 DEF CleanOf, p

\* What the capture keeps of an event of its stream.
LEMMA StampedIs ==
    ASSUME NEW n \in Nat, NEW e, IsEvent(e), e.parent \in Seq(Nat)
    PROVE  /\ IsEvent(Stamped(n, e))
           /\ Stamped(n, e).id = <<n>> \o e.id /\ Stamped(n, e).id[1] = n
           /\ Stamped(n, e).parent = IF e.parent = NoParent THEN NoParent ELSE <<n>> \o e.parent
           /\ Stamped(n, e).corr = e.corr /\ Stamped(n, e).ts = e.ts
           /\ Stamped(n, e).seq = e.seq /\ Stamped(n, e).type = e.type
<1>1. e = [id |-> e.id, corr |-> e.corr, ts |-> e.ts, seq |-> e.seq, type |-> e.type,
           parent |-> e.parent, payload |-> e.payload]
  BY DEF IsEvent
<1> DEFINE i == <<n>> \o e.id
           p == IF e.parent = NoParent THEN e.parent ELSE <<n>> \o e.parent
           f == [id |-> i, corr |-> e.corr, ts |-> e.ts, seq |-> e.seq, type |-> e.type,
                 parent |-> p, payload |-> e.payload]
<1>2. i \in Seq(Nat) /\ i # <<>> /\ i[1] = n
  <2>1. e.id \in Seq(Nat)
    BY DEF IsEvent
  <2> QED
    BY <2>1
<1> HIDE DEF i, p
<1>3. Stamped(n, e) = f
  <2>1. Stamped(n, e) = [e EXCEPT !.id = i, !.parent = p]
    BY DEF Stamped, i, p
  <2> DEFINE g == [id |-> i, corr |-> e.corr, ts |-> e.ts, seq |-> e.seq, type |-> e.type,
                   parent |-> e.parent, payload |-> e.payload]
  <2>2. [e EXCEPT !.id = i] = g
    BY ONLY <1>1
  <2>3. [g EXCEPT !.parent = p] = f
    OBVIOUS
  <2>4. [e EXCEPT !.id = i, !.parent = p] = [[e EXCEPT !.id = i] EXCEPT !.parent = p]
    BY ONLY <1>1
  <2> QED
    BY <2>1, <2>2, <2>3, <2>4
<1>4. IsEvent(f)
  BY <1>2 DEF IsEvent, NoParent
<1> QED
  BY <1>2, <1>3, <1>4 DEF i, p

\* The events of the first l steps of a capture refer to each other only.
LEMMA CapturedClosed ==
    ASSUME NEW s \in Streams, NEW n \in Nat, NEW l \in 0 .. Len(s)
    PROVE  Closed({Clean(Stamped(n, s[k])) : k \in 1 .. l}, n)
<1> DEFINE C(k) == Clean(Stamped(n, s[k]))
           S == {C(k) : k \in 1 .. l}
<1>1. /\ s \in Seq(Range(s)) /\ DOMAIN s = 1 .. Len(s) /\ Len(s) \in Nat
      /\ \A k \in 1 .. Len(s) : /\ IsEvent(s[k])
                                /\ s[k].parent \in {NoParent} \cup {s[j].id : j \in 1 .. k - 1}
      /\ \A j, k \in 1 .. Len(s) : s[j].id = s[k].id => j = k
  BY PortableAssumption
<1>2. \A k \in 1 .. l : k \in 1 .. Len(s)
  BY <1>1
<1>3. ASSUME NEW k \in 1 .. l
      PROVE  /\ IsEvent(C(k)) /\ C(k).id = <<n>> \o s[k].id /\ C(k).id[1] = n
             /\ C(k).parent = IF s[k].parent = NoParent THEN NoParent ELSE <<n>> \o s[k].parent
             /\ s[k].id \in Seq(Nat)
  <2>1. IsEvent(s[k]) /\ s[k].parent \in {NoParent} \cup {s[j].id : j \in 1 .. k - 1}
    BY <1>1, <1>2
  <2>2. s[k].parent \in Seq(Nat)
    <3>1. CASE s[k].parent = NoParent
      BY <3>1 DEF NoParent
    <3>2. ASSUME NEW j \in 1 .. k - 1, s[k].parent = s[j].id
          PROVE  s[k].parent \in Seq(Nat)
      BY <1>1, <1>2, <3>2 DEF IsEvent
    <3> QED
      BY <2>1, <3>1, <3>2
  <2>3. /\ IsEvent(Stamped(n, s[k]))
        /\ Stamped(n, s[k]).id = <<n>> \o s[k].id /\ Stamped(n, s[k]).id[1] = n
        /\ Stamped(n, s[k]).parent = IF s[k].parent = NoParent THEN NoParent
                                     ELSE <<n>> \o s[k].parent
    <3>1. PICK e : e = s[k]
      OBVIOUS
    <3>2. /\ IsEvent(Stamped(n, e))
          /\ Stamped(n, e).id = <<n>> \o e.id /\ Stamped(n, e).id[1] = n
          /\ Stamped(n, e).parent = IF e.parent = NoParent THEN NoParent ELSE <<n>> \o e.parent
      BY <2>1, <2>2, <3>1, StampedIs
    <3> QED
      BY <3>1, <3>2
  <2>4. CleanOf(Stamped(n, s[k]), C(k))
    BY <2>3, CleanIs
  <2> HIDE DEF C
  <2> QED
    BY <2>1, <2>3, <2>4 DEF CleanOf, IsEvent
<1> HIDE DEF C
<1>4. ASSUME NEW e \in S
      PROVE  IsEvent(e) /\ e.id[1] = n /\ e.parent \in {NoParent} \cup {f.id : f \in S}
  <2>1. PICK k \in 1 .. l : e = C(k)
    OBVIOUS
  <2>2. s[k].parent \in {NoParent} \cup {s[j].id : j \in 1 .. k - 1}
    BY <1>1, <1>2
  <2>3. CASE s[k].parent = NoParent
    BY <1>3, <2>1, <2>3
  <2>4. ASSUME s[k].parent # NoParent, NEW j \in 1 .. k - 1, s[k].parent = s[j].id
        PROVE  e.parent = C(j).id /\ C(j) \in S
    <3>1. j \in 1 .. l
      OBVIOUS
    <3> QED
      BY <1>3, <2>1, <2>4, <3>1
  <2> QED
    BY <1>3, <2>1, <2>2, <2>3, <2>4
<1>5. ASSUME NEW e \in S, NEW f \in S, e.id = f.id
      PROVE  e = f
  <2>1. PICK j \in 1 .. l : e = C(j)
    OBVIOUS
  <2>2. PICK k \in 1 .. l : f = C(k)
    OBVIOUS
  <2>3. /\ s[j].id \in Seq(Nat) /\ s[k].id \in Seq(Nat)
        /\ <<n>> \o s[j].id = <<n>> \o s[k].id
    BY <1>3, <1>5, <2>1, <2>2
  <2>4. s[j].id = s[k].id
    <3> DEFINE a == s[j].id
               b == s[k].id
    <3> HIDE DEF a, b
    <3>1. a \in Seq(Nat) /\ b \in Seq(Nat) /\ <<n>> \o a = <<n>> \o b
      BY <2>3 DEF a, b
    <3>2. Len(<<n>> \o a) = 1 + Len(a) /\ Len(<<n>> \o b) = 1 + Len(b)
      BY <3>1
    <3>3. Len(a) = Len(b)
      BY <3>1, <3>2
    <3>4. \A x \in 1 .. Len(a) : a[x] = (<<n>> \o a)[x + 1] /\ b[x] = (<<n>> \o b)[x + 1]
      BY <3>1, <3>3
    <3>5. \A x \in 1 .. Len(a) : a[x] = b[x]
      BY <3>1, <3>4
    <3>6. a = b
      <4>1. a \in [1 .. Len(a) -> Nat] /\ b \in [1 .. Len(a) -> Nat]
        BY <3>1, <3>3
      <4> QED
        BY <3>5, <4>1
    <3> QED
      BY <3>6 DEF a, b
  <2> QED
    BY <1>1, <1>2, <2>1, <2>2, <2>4
<1> QED
  BY <1>4, <1>5 DEF Closed, C

\* The parent a re-keyed event gets.
Position(ev, id) == CHOOSE k \in DOMAIN ev : ev[k].id = id

Moved(ev, n, k) ==
    IF ev[k].parent \in {ev[j].id : j \in DOMAIN ev} THEN <<n, Position(ev, ev[k].parent)>>
    ELSE NoParent

LEMMA RekeyedAt ==
    ASSUME NEW b, NEW n \in Nat, NEW m, Whole(b.events, m)
    PROVE  /\ Rekeyed(b, n) = [k \in 1 .. Len(b.events) |-> Rekeyed(b, n)[k]]
           /\ \A k \in 1 .. Len(b.events) :
                 Rekeyed(b, n)[k] =
                    [id |-> <<n, k>>, corr |-> b.events[k].corr, ts |-> b.events[k].ts,
                     seq |-> b.events[k].seq, type |-> b.events[k].type,
                     parent |-> Moved(b.events, n, k), payload |-> b.events[k].payload]
<1> DEFINE ev == b.events
           N == Len(ev)
           R == Rekeyed(b, n)
           P(k) == Moved(ev, n, k)
<1>1. /\ DOMAIN ev = 1 .. N /\ \A k \in 1 .. N : IsEvent(ev[k])
  BY DEF Whole, Closed, Range
<1>2. R = [k \in 1 .. N |-> [ev[k] EXCEPT !.id = <<n, k>>, !.parent = P(k)]]
  BY <1>1 DEF Rekeyed, Moved, Position
<1> HIDE DEF R, P
<1>3. ASSUME NEW k \in 1 .. N
      PROVE  R[k] = [id |-> <<n, k>>, corr |-> ev[k].corr, ts |-> ev[k].ts, seq |-> ev[k].seq,
                     type |-> ev[k].type, parent |-> P(k), payload |-> ev[k].payload]
  <2> DEFINE e == ev[k]
             i == <<n, k>>
             p == P(k)
  <2>1. R[k] = [e EXCEPT !.id = i, !.parent = p]
    BY <1>2
  <2>2. e = [id |-> e.id, corr |-> e.corr, ts |-> e.ts, seq |-> e.seq,
             type |-> e.type, parent |-> e.parent, payload |-> e.payload]
    BY <1>1 DEF IsEvent
  <2> HIDE DEF e, i, p
  <2> DEFINE g == [id |-> i, corr |-> e.corr, ts |-> e.ts, seq |-> e.seq, type |-> e.type,
                   parent |-> e.parent, payload |-> e.payload]
             f == [id |-> i, corr |-> e.corr, ts |-> e.ts, seq |-> e.seq, type |-> e.type,
                   parent |-> p, payload |-> e.payload]
  <2>3. [e EXCEPT !.id = i] = g
    BY ONLY <2>2
  <2>4. [g EXCEPT !.parent = p] = f
    OBVIOUS
  <2>5. [e EXCEPT !.id = i, !.parent = p] = [[e EXCEPT !.id = i] EXCEPT !.parent = p]
    BY ONLY <2>2
  <2>6. R[k] = f
    BY <2>1, <2>3, <2>4, <2>5
  <2> QED
    BY <2>6 DEF e, i, p
<1>4. R = [k \in 1 .. N |-> R[k]]
  BY <1>2
<1> QED
  BY <1>3, <1>4 DEF R, P

\* A list with fresh ids is a recording of its own.
LEMMA RekeyedIs ==
    ASSUME NEW b, NEW n \in Nat, NEW m, Whole(b.events, m)
    PROVE  Whole(Rekeyed(b, n), n)
<1> DEFINE ev == b.events
           N == Len(ev)
           known == {ev[k].id : k \in DOMAIN ev}
           P(k) == Moved(ev, n, k)
           F(k) == [id |-> <<n, k>>, corr |-> ev[k].corr, ts |-> ev[k].ts, seq |-> ev[k].seq,
                    type |-> ev[k].type, parent |-> P(k), payload |-> ev[k].payload]
           R == Rekeyed(b, n)
<1>1. /\ ev \in Seq(Range(ev)) /\ N \in Nat /\ DOMAIN ev = 1 .. N
      /\ \A k \in 1 .. N : ev[k] \in Range(ev) /\ IsEvent(ev[k])
  BY DEF Whole, Closed, Range
<1>2. R = [k \in 1 .. N |-> R[k]] /\ \A k \in 1 .. N : R[k] = F(k)
  BY RekeyedAt
<1> HIDE DEF R, P
<1>3. \A k \in 1 .. N : R[k] = F(k)
  BY <1>2
<1>4. DOMAIN R = 1 .. N /\ R = [k \in 1 .. N |-> R[k]]
  BY <1>2
<1> DEFINE S == Range(R)
<1>5. \A k \in 1 .. N : R[k] \in S
  BY <1>4 DEF Range
<1>6. \A e \in S : \E k \in 1 .. N : e = R[k]
  BY <1>4 DEF Range
<1>7. R \in Seq(S)
  <2>1. R \in [1 .. N -> S]
    BY <1>4, <1>5
  <2> HIDE DEF S
  <2> QED
    BY <1>1, <2>1
<1> HIDE DEF S
<1>8. ASSUME NEW k \in 1 .. N
      PROVE  R[k].id = <<n, k>> /\ R[k].parent = P(k)
  <2>1. F(k).id = <<n, k>> /\ F(k).parent = P(k)
    OBVIOUS
  <2> QED
    BY <1>3, <2>1
<1>9. ASSUME NEW k \in 1 .. N
      PROVE  IsEvent(R[k]) /\ R[k].id[1] = n /\ R[k].parent \in {NoParent} \cup {f.id : f \in S}
  <2>1. F(k).id \in Seq(Nat) \ {NoParent}
    BY <1>1 DEF NoParent
  <2>2. IsEvent(F(k))
    BY <1>1, <2>1 DEF IsEvent
  <2>3. P(k) \in {NoParent} \cup {f.id : f \in S}
    <3>1. CASE ev[k].parent \notin known
      BY <3>1 DEF P, Moved
    <3>2. CASE ev[k].parent \in known
      <4> DEFINE j == Position(ev, ev[k].parent)
      <4>1. j \in 1 .. N
        BY <1>1, <3>2 DEF Position
      <4>2. P(k) = <<n, j>>
        BY <3>2 DEF P, Moved
      <4> HIDE DEF j
      <4>3. P(k) = R[j].id /\ R[j] \in S
        BY <1>5, <1>8, <4>1, <4>2
      <4> QED
        BY <4>3
    <3> QED
      BY <3>1, <3>2
  <2> QED
    BY <1>3, <1>8, <2>2, <2>3
<1>10. \A j, k \in 1 .. N : R[j].id = R[k].id => j = k
  BY <1>8
<1>11. Closed(S, n)
  BY <1>6, <1>9, <1>10 DEF Closed
<1> QED
  BY <1>4, <1>7, <1>10, <1>11 DEF Whole, S, R

\* Rows as they may be stored: of one recording, and redacted.
Kept(S, n) == IsFiniteSet(S) /\ Closed(S, n) /\ \A e \in S : Masked(e.payload)

\* Finished rows: numbered, and the snapshot has them in order.
Complete(S, C) == {e.seq : e \in S} = 0 .. Cardinality(S) - 1 /\ C = Ordered(S)

LEMMA FinishedIs ==
    ASSUME NEW n, NEW S, Kept(S, n), NEW C, C = Correlated(Ordered(S))
    PROVE  Kept(Range(C), n) /\ Complete(Range(C), C)
<1> DEFINE N == Cardinality(S)
           T == Range(C)
<1>1. IsFiniteSet(S) /\ N \in Nat /\ \A e \in S : IsEvent(e) /\ Row(e) /\ e.seq \in Int
  BY FS_CardinalityType, EventIsRow DEF Kept, Closed, Row
<1>2. Enumerates(Ordered(S), S)
  BY <1>1, OrderedEnumerates
<1>3. PICK from : Arranged(from, S) /\ C = Numbered(from, N)
  BY <1>1, <1>2, CorrelatedIs
<1> HIDE DEF T
<1>4. /\ IsFiniteSet(T) /\ Cardinality(T) = N /\ \A e \in T : Row(e)
      /\ Enumerates(C, T)
      /\ \A k \in 1 .. N : Becomes(from[k], ParentAt(from, N, k), k - 1, C[k])
  BY <1>1, <1>3, NumberedEnumerates DEF T
<1> HIDE DEF N
<1>5. /\ C \in [1 .. N -> T] /\ \A j, k \in 1 .. N : C[j] = C[k] => j = k
      /\ \A x \in T : \E k \in 1 .. N : C[k] = x
  BY <1>4 DEF Enumerates
<1>6. Enumerates(from, S)
  BY <1>3 DEF Arranged
<1>7. /\ from \in [1 .. N -> S] /\ \A j, k \in 1 .. N : from[j] = from[k] => j = k
      /\ \A x \in S : \E k \in 1 .. N : from[k] = x
  BY <1>6 DEF Enumerates, N
<1>8. ASSUME NEW k \in 1 .. N
      PROVE  /\ IsEvent(C[k]) /\ C[k].id = from[k].id /\ C[k].seq = k - 1
             /\ C[k].payload = from[k].payload
             /\ C[k].parent = IF from[k].parent # NoParent THEN from[k].parent
                              ELSE ParentAt(from, N, k)
  <2>1. from[k] \in S /\ IsEvent(from[k])
    BY <1>1, <1>7
  <2>2. DOMAIN from[k] = {"id", "corr", "ts", "seq", "type", "parent", "payload"}
    BY <2>1, EventIsRow
  <2>3. /\ Row(C[k]) /\ C[k].id = from[k].id /\ C[k].seq = k - 1 /\ DOMAIN C[k] = DOMAIN from[k]
        /\ C[k].payload = from[k].payload
        /\ C[k].parent = IF from[k].parent # NoParent THEN from[k].parent
                         ELSE ParentAt(from, N, k)
    BY <1>4, <2>2 DEF Becomes
  <2>4. IsEvent(C[k])
    BY <2>1, <2>3, StillEvent DEF IsEvent
  <2> QED
    BY <2>3, <2>4
<1>9. Closed(S, n) /\ \A e \in S : Masked(e.payload)
  BY DEF Kept
<1>10. ASSUME NEW e \in T
       PROVE  /\ IsEvent(e) /\ e.id[1] = n /\ Masked(e.payload)
              /\ e.parent \in {NoParent} \cup {f.id : f \in T}
  <2>1. PICK k \in 1 .. N : C[k] = e
    BY <1>5
  <2>2. from[k] \in S
    BY <1>7
  <2>3. from[k].id[1] = n /\ Masked(from[k].payload)
        /\ from[k].parent \in {NoParent} \cup {f.id : f \in S}
    BY <1>9, <2>2 DEF Closed
  <2>4. \A j \in 1 .. N : C[j] \in T /\ C[j].id = from[j].id
    BY <1>5, <1>8
  <2>5. \A f \in S : \E g \in T : g.id = f.id
    <3> SUFFICES ASSUME NEW f \in S PROVE \E g \in T : g.id = f.id
      OBVIOUS
    <3>1. PICK j \in 1 .. N : from[j] = f
      BY <1>7
    <3> QED
      BY <2>4, <3>1
  <2>6. ParentAt(from, N, k) \in {NoParent} \cup {f.id : f \in T}
    <3>1. N \in Nat
      BY <1>1 DEF N
    <3>2. ParentAt(from, N, k) \in {NoParent} \cup {from[j].id : j \in 1 .. N}
      BY <3>1, ParentAtKnown
    <3> QED
      BY <2>4, <3>2
  <2>7. e.parent \in {NoParent} \cup {f.id : f \in T}
    BY <1>8, <2>1, <2>3, <2>5, <2>6
  <2> QED
    BY <1>8, <2>1, <2>3, <2>7
<1>11. ASSUME NEW e \in T, NEW f \in T, e.id = f.id
       PROVE  e = f
  <2>1. PICK j \in 1 .. N : C[j] = e
    BY <1>5
  <2>2. PICK k \in 1 .. N : C[k] = f
    BY <1>5
  <2>3. from[j] \in S /\ from[k] \in S /\ from[j].id = from[k].id
    BY <1>7, <1>8, <1>11, <2>1, <2>2
  <2>4. from[j] = from[k]
    BY <1>9, <2>3 DEF Closed
  <2> QED
    BY <1>7, <2>1, <2>2, <2>4
<1>12. Kept(T, n)
  BY <1>4, <1>10, <1>11 DEF Kept, Closed
<1>13. {e.seq : e \in T} = 0 .. Cardinality(T) - 1
  <2>1. N \in Nat /\ Cardinality(T) = N
    BY <1>1, <1>4 DEF N
  <2>2. \A e \in T : e.seq \in 0 .. N - 1
    <3> SUFFICES ASSUME NEW e \in T PROVE e.seq \in 0 .. N - 1
      OBVIOUS
    <3>1. PICK k \in 1 .. N : C[k] = e
      BY <1>5
    <3> QED
      BY <1>8, <2>1, <3>1
  <2>3. \A s \in 0 .. N - 1 : \E e \in T : e.seq = s
    <3> SUFFICES ASSUME NEW s \in 0 .. N - 1 PROVE \E e \in T : e.seq = s
      OBVIOUS
    <3>1. s + 1 \in 1 .. N /\ s \in Int
      BY <2>1
    <3>2. C[s + 1] \in T /\ C[s + 1].seq = s
      BY <1>5, <1>8, <3>1
    <3> QED
      BY <3>2
  <2> QED
    BY <2>1, <2>2, <2>3
<1>14. Ordered(T) = C
  <2>1. \A k \in 1 .. Cardinality(T) : C[k].seq = k - 1
    BY <1>4, <1>8
  <2> QED
    BY <1>4, <2>1, OrderedIs
<1> QED
  BY <1>12, <1>13, <1>14 DEF Complete, T

LEMMA NothingKept == \A n : Kept({}, n)
  BY FS_EmptySet DEF Kept, Closed

\* What an export reads of a recording is a whole file of redacted events.
LEMMA ExportedIs ==
    ASSUME NEW n, NEW S, Kept(S, n)
    PROVE  Whole(Ordered(S), n) /\ \A e \in Range(Ordered(S)) : Masked(e.payload)
<1> DEFINE s == Ordered(S)
           N == Cardinality(S)
<1>1. N \in Nat
  BY FS_CardinalityType DEF Kept
<1>2. Enumerates(s, S)
  BY OrderedEnumerates DEF Kept, Closed, IsEvent
<1> HIDE DEF s, N
<1>3. /\ s \in [1 .. N -> S] /\ \A j, k \in 1 .. N : s[j] = s[k] => j = k
      /\ \A x \in S : \E k \in 1 .. N : s[k] = x
  BY <1>2 DEF Enumerates, N
<1>4. Range(s) = S
  BY <1>3 DEF Range
<1>5. s \in Seq(S) /\ DOMAIN s = 1 .. N
  BY <1>1, <1>3
<1> QED
  BY <1>3, <1>4, <1>5 DEF Whole, Kept, s

\* What is stored of a whole file.
LEMMA AppendedIs ==
    ASSUME NEW n, NEW events, Whole(events, n)
    PROVE  Kept({Clean(e) : e \in Range(events)}, n)
<1> DEFINE R == Range(events)
           S == {Clean(e) : e \in R}
<1>1. Closed(R, n) /\ events \in Seq(R)
  BY DEF Whole
<1>2. IsFiniteSet(S)
  <2> DEFINE f == [k \in 1 .. Len(events) |-> Clean(events[k])]
  <2>1. Len(events) \in Nat /\ DOMAIN events = 1 .. Len(events)
    BY <1>1
  <2>2. IsFiniteSet(1 .. Len(events))
    BY <2>1, FS_Interval
  <2>3. S = {Clean(events[k]) : k \in 1 .. Len(events)}
    BY <2>1 DEF Range
  <2>4. f \in Surjection(1 .. Len(events), S)
    BY <2>3 DEF Surjection
  <2> QED
    BY <2>2, <2>4, FS_Surjection
<1> HIDE DEF R
<1>3. \A e \in R : CleanOf(e, Clean(e))
  BY <1>1, CleanIs DEF Closed
<1>4. \A s \in S : \E e \in R : s = Clean(e)
  OBVIOUS
<1>5. \A e \in R : Clean(e) \in S
  OBVIOUS
<1> HIDE DEF S
<1>6. ASSUME NEW s \in S
      PROVE  /\ IsEvent(s) /\ s.id[1] = n /\ Masked(s.payload)
             /\ s.parent \in {NoParent} \cup {f.id : f \in S}
  <2>1. PICK e \in R : s = Clean(e)
    BY <1>4
  <2>2. e.id[1] = n /\ e.parent \in {NoParent} \cup {f.id : f \in R}
    BY <1>1 DEF Closed
  <2>3. IsEvent(s) /\ s.id = e.id /\ s.parent = e.parent /\ Masked(s.payload)
    BY <1>3, <2>1 DEF CleanOf
  <2>4. \A f \in R : \E t \in S : t.id = f.id
    BY <1>3, <1>5 DEF CleanOf
  <2> QED
    BY <2>2, <2>3, <2>4
<1>7. ASSUME NEW s \in S, NEW t \in S, s.id = t.id
      PROVE  s = t
  <2>1. PICK e \in R : s = Clean(e)
    BY <1>4
  <2>2. PICK f \in R : t = Clean(f)
    BY <1>4
  <2>3. e.id = f.id
    BY <1>3, <1>7, <2>1, <2>2 DEF CleanOf
  <2>4. e = f
    BY <1>1, <2>3 DEF Closed
  <2> QED
    BY <2>1, <2>2, <2>4
<1> QED
  BY <1>2, <1>6, <1>7 DEF Kept, Closed, S, R

-----------------------------------------------------------------------------
(* What the rows and files hold *)

RowKept(row, n) ==
    /\ Kept(row.events, n) /\ \A e \in Range(row.blob) : Masked(e.payload)
    /\ row.status = "absent" => row = Absent
    /\ row.status = "completed" => Complete(row.events, row.blob)

FileKept(b) ==
    /\ Parses(b) => Whole(b.events, b.name)
    /\ b \notin Foreign => \A e \in Range(b.events) : Masked(e.payload)

\* Between its transactions an import has a whole file in hand, and the row it has
\* started is still empty.
CallKept(c, R) ==
    /\ c.pc \in {"checked", "started", "appended"} => Whole(c.events, c.name)
    /\ c.pc = "started" => R[c.at][c.name].events = {}

\* The row of a capture has what the stream has yielded.
CaptureKept(c, R) ==
    /\ c.stream \in Streams /\ c.next \in 1 .. Len(c.stream) + 1
    /\ c.pc = "idle" => c.next = 1
    /\ c.pc = "open" => R[Home][c.name].events =
                           {Clean(Stamped(c.name, c.stream[k])) : k \in 1 .. c.next - 1}

KeptInv ==
    /\ \A i \in Instances, n \in Names : RowKept(rows[i][n], n)
    /\ \A b \in bundles : FileKept(b)
    /\ \A m \in Imports : CallKept(call[m], rows)
    /\ CaptureKept(capture, rows)

LEMMA KeptInit == Init => KeptInv
<1> SUFFICES ASSUME Init PROVE KeptInv
  OBVIOUS
<1>1. \A n : RowKept(Absent, n)
  BY NothingKept DEF RowKept, Absent, Range
<1>2. \A i \in Instances, n \in Names : RowKept(rows[i][n], n)
  BY <1>1 DEF Init
<1>3. \A b \in bundles : FileKept(b)
  BY PortableAssumption DEF Init, FileKept
<1>4. \A m \in Imports : CallKept(call[m], rows)
  BY DEF Init, CallKept, Idle
<1>5. capture.stream \in Streams /\ capture.pc = "idle" /\ capture.next = 1
  BY DEF Init
<1>6. Len(capture.stream) \in Nat
  BY <1>5, PortableAssumption
<1>7. CaptureKept(capture, rows)
  BY <1>5, <1>6 DEF CaptureKept
<1> QED
  BY <1>2, <1>3, <1>4, <1>7 DEF KeptInv

\* A row set to r, under nobody's pen but the writer's.
LEMMA RowWritten ==
    ASSUME WritersInv, KeptInv, NEW i \in Instances, NEW n \in Names,
           NEW r, RowKept(r, n), SetRow(i, n, r)
    PROVE  /\ \A j \in Instances, k \in Names : RowKept(rows'[j][k], k)
           /\ rows'[i][n] = r
           /\ \A m \in Imports : ~ Writes(m, i, n) => CallKept(call[m], rows')
           /\ ~ Captures(i, n) => CaptureKept(capture, rows')
<1> PICK U : Typed(U)
  BY DEF WritersInv
<1>1. /\ rows'[i][n] = r
      /\ \A j \in Instances, k \in Names : j # i \/ k # n => rows'[j][k] = rows[j][k]
  BY DEF SetRow, Typed
<1>2. \A j \in Instances, k \in Names : RowKept(rows'[j][k], k)
  <2> SUFFICES ASSUME NEW j \in Instances, NEW k \in Names PROVE RowKept(rows'[j][k], k)
    OBVIOUS
  <2>1. CASE j = i /\ k = n
    BY <1>1, <2>1
  <2>2. CASE j # i \/ k # n
    BY <1>1, <2>2 DEF KeptInv
  <2> QED
    BY <2>1, <2>2
<1>3. ASSUME NEW m \in Imports, ~ Writes(m, i, n)
      PROVE  CallKept(call[m], rows')
  <2>1. CallKept(call[m], rows) /\ call[m].at \in Instances /\ call[m].name \in Names
    BY DEF KeptInv, Typed
  <2>2. call[m].pc = "started" => call[m].at # i \/ call[m].name # n
    BY <1>3 DEF Writes
  <2> QED
    BY <1>1, <2>1, <2>2 DEF CallKept
<1>4. ASSUME ~ Captures(i, n)
      PROVE  CaptureKept(capture, rows')
  <2>1. CaptureKept(capture, rows) /\ Home \in Instances /\ capture.name \in Names
    BY PortableAssumption DEF KeptInv, Typed
  <2>2. capture.pc = "open" => Home # i \/ capture.name # n
    BY <1>4 DEF Captures
  <2>3. capture.pc = "open" => rows'[Home][capture.name] = rows[Home][capture.name]
    BY <1>1, <2>1, <2>2
  <2> QED
    BY <2>1, <2>3 DEF CaptureKept
<1> QED
  BY <1>1, <1>2, <1>3, <1>4

\* A call that answers keeps what it has in hand.
LEMMA CallIs ==
    ASSUME WritersInv, NEW m \in Imports, NEW r, Reply(m, r)
    PROVE  /\ call'[m].pc = r /\ call'[m].at = call[m].at /\ call'[m].name = call[m].name
           /\ call'[m].events = call[m].events /\ call'[m].file = call[m].file
           /\ \A o \in Imports : o # m => call'[o] = call[o]
BY DEF WritersInv, Typed, Reply

LEMMA RowIs ==
    ASSUME WritersInv, NEW i \in Instances, NEW n \in Names
    PROVE  rows[i][n] = [status |-> rows[i][n].status, events |-> rows[i][n].events,
                         blob |-> rows[i][n].blob]
BY DEF WritersInv, Typed

LEMMA RowWith ==
    ASSUME NEW row, NEW x,
           row = [status |-> row.status, events |-> row.events, blob |-> row.blob]
    PROVE  /\ [row EXCEPT !.status = x] = [status |-> x, events |-> row.events, blob |-> row.blob]
           /\ [row EXCEPT !.events = x] = [status |-> row.status, events |-> x, blob |-> row.blob]
           /\ [row EXCEPT !.blob = x] = [status |-> row.status, events |-> row.events, blob |-> x]
OBVIOUS

\* A started row is empty and redacted.
LEMMA StartedKept ==
    ASSUME NEW n
    PROVE  RowKept([status |-> "recording", events |-> {}, blob |-> <<>>], n)
BY NothingKept DEF RowKept, Range

\* What finishing a row leaves, and what it leaves when it fails at the end.
LEMMA FinishedKept ==
    ASSUME NEW n, NEW row, RowKept(row, n), row.status = "recording",
           NEW C, C = Correlated(Ordered(row.events))
    PROVE  /\ RowKept([status |-> "completed", events |-> Range(C), blob |-> C], n)
           /\ RowKept([status |-> "recording", events |-> row.events, blob |-> C], n)
<1>1. Kept(row.events, n)
  BY DEF RowKept
<1>2. Kept(Range(C), n) /\ Complete(Range(C), C)
  BY <1>1, FinishedIs
<1> QED
  BY <1>1, <1>2 DEF RowKept, Kept

LEMMA StreamIs ==
    ASSUME NEW s \in Streams
    PROVE  /\ Len(s) \in Nat /\ DOMAIN s = 1 .. Len(s)
           /\ \A k \in 1 .. Len(s) :
                 /\ IsEvent(s[k]) /\ s[k].parent \in Seq(Nat)
                 /\ s[k].parent \in {NoParent} \cup {s[j].id : j \in 1 .. k - 1}
<1>1. /\ s \in Seq(Range(s))
      /\ \A k \in DOMAIN s : /\ IsEvent(s[k])
                             /\ s[k].parent \in {NoParent} \cup {s[j].id : j \in 1 .. k - 1}
  BY PortableAssumption
<1>2. Len(s) \in Nat /\ DOMAIN s = 1 .. Len(s)
  BY <1>1
<1>3. ASSUME NEW k \in 1 .. Len(s)
      PROVE  s[k].parent \in Seq(Nat)
  <2>1. \A j \in 1 .. k - 1 : j \in 1 .. Len(s)
    BY <1>2
  <2>2. \A j \in 1 .. k - 1 : s[j].id \in Seq(Nat)
    BY <1>1, <1>2, <2>1 DEF IsEvent
  <2>3. CASE s[k].parent = NoParent
    BY <2>3 DEF NoParent
  <2>4. CASE \E j \in 1 .. k - 1 : s[k].parent = s[j].id
    BY <2>2, <2>4
  <2> QED
    BY <1>1, <1>2, <2>3, <2>4
<1> QED
  BY <1>1, <1>2, <1>3

LEMMA CaptureKeeps ==
    ASSUME WritersInv, KeptInv, CaptureStart \/ CaptureNext \/ CaptureFails \/ CaptureEnds
    PROVE  KeptInv'
<1> PICK U : Typed(U)
  BY DEF WritersInv
<1> DEFINE n == capture.name
           row == rows[Home][n]
           s == capture.stream
<1>1. /\ Home \in Instances /\ n \in Names /\ OneWriter
      /\ capture \in [pc : {"idle", "open", "done"}, name : Names, stream : U, next : U]
  BY PortableAssumption DEF WritersInv, Typed
<1>2. /\ RowKept(row, n) /\ \A b \in bundles : FileKept(b)
      /\ \A m \in Imports : CallKept(call[m], rows)
      /\ s \in Streams /\ capture.next \in 1 .. Len(s) + 1
  BY <1>1 DEF KeptInv, CaptureKept
<1>3. Len(s) \in Nat /\ n \in Nat
  BY <1>1, <1>2, StreamIs, PortableAssumption
<1>4. UNCHANGED <<bundles, call>>
  BY DEF CaptureStart, CaptureNext, CaptureFails, CaptureEnds
<1>5. CASE CaptureStart
  <2> DEFINE k == made + 1
             r == [status |-> "recording", events |-> {}, blob |-> <<>>]
  <2>1. /\ k \in Names /\ rows[Home][k].status = "absent" /\ SetRow(Home, k, r)
        /\ capture.pc = "idle" /\ capture' = [capture EXCEPT !.pc = "open", !.name = k]
    BY <1>5, FreshRow DEF CaptureStart, StartRecording
  <2>2. RowKept(r, k) /\ r.events = {}
    BY StartedKept
  <2> HIDE DEF k, r
  <2>3. \A m \in Imports : ~ Writes(m, Home, k)
    BY <1>1, <2>1 DEF OneWriter
  <2>4. /\ \A j \in Instances, l \in Names : RowKept(rows'[j][l], l)
        /\ rows'[Home][k] = r
        /\ \A m \in Imports : CallKept(call[m], rows')
    BY <1>1, <2>1, <2>2, <2>3, RowWritten
  <2>5. capture'.pc = "open" /\ capture'.name = k /\ capture'.stream = s /\ capture'.next = 1
    BY <1>1, <2>1 DEF KeptInv, CaptureKept
  <2>6. CaptureKept(capture', rows')
    BY <1>2, <1>3, <2>2, <2>4, <2>5 DEF CaptureKept
  <2> QED
    BY <1>2, <1>4, <2>4, <2>6 DEF KeptInv
<1>6. ASSUME capture.pc = "open"
      PROVE  /\ row.status = "recording" /\ \A m \in Imports : ~ Writes(m, Home, n)
             /\ row.events = {Clean(Stamped(n, s[k])) : k \in 1 .. capture.next - 1}
             /\ row = [status |-> "recording", events |-> row.events, blob |-> row.blob]
  <2>1. row.status = "recording" /\ \A m \in Imports : ~ Writes(m, Home, n)
    BY <1>1, <1>6 DEF OneWriter, Captures
  <2> QED
    BY <1>1, <1>6, <2>1, RowIs DEF KeptInv, CaptureKept
<1>7. CASE CaptureNext
  <2> DEFINE l == capture.next
             x == Clean(Stamped(n, s[l]))
             r == [status |-> "recording", events |-> row.events \cup {x}, blob |-> row.blob]
  <2>1. /\ capture.pc = "open" /\ l <= Len(s)
        /\ SetRow(Home, n, [row EXCEPT !.events = @ \union {Clean(e) : e \in {Stamped(n, s[l])}}])
        /\ capture' = [capture EXCEPT !.next = @ + 1]
    BY <1>7 DEF CaptureNext, AppendEvents
  <2>2. {Clean(e) : e \in {Stamped(n, s[l])}} = {x}
    OBVIOUS
  <2>3. [row EXCEPT !.events = row.events \cup {x}] = r
    <3> HIDE DEF row, x
    <3> QED
      BY <1>6, <2>1, RowChanged
  <2>4. SetRow(Home, n, r)
    BY <2>1, <2>2, <2>3
  <2>5. l \in 1 .. Len(s) /\ l \in Nat
    BY <1>2, <1>3, <2>1
  <2>6. r.events = {Clean(Stamped(n, s[k])) : k \in 1 .. l}
    <3>1. row.events = {Clean(Stamped(n, s[k])) : k \in 1 .. l - 1}
      BY <1>6, <2>1
    <3>2. 1 .. l = (1 .. l - 1) \cup {l}
      BY <2>5
    <3> HIDE DEF row, n, s, l
    <3> QED
      BY <3>1, <3>2 DEF x
  <2>7. Closed(r.events, n) /\ n \in Nat
    <3>1. n \in Nat /\ l \in 0 .. Len(s)
      BY <1>3, <2>5
    <3> HIDE DEF r, n, s, l
    <3> QED
      BY <1>2, <2>6, <3>1, CapturedClosed DEF s
  <2>8. Masked(x.payload)
    <3>1. IsEvent(s[l]) /\ s[l].parent \in Seq(Nat)
      BY <1>2, <2>5, StreamIs
    <3>2. IsEvent(Stamped(n, s[l]))
      BY <1>3, <3>1, StampedIs
    <3> QED
      BY <3>2, CleanIs DEF CleanOf
  <2>9. RowKept(r, n)
    <3>1. IsFiniteSet(row.events \cup {x})
      BY <1>2, FS_AddElement DEF RowKept, Kept
    <3>2. Kept(r.events, n)
      BY <1>2, <2>7, <2>8, <3>1 DEF RowKept, Kept
    <3> QED
      BY <1>2, <3>2 DEF RowKept
  <2> HIDE DEF r
  <2>10. /\ \A j \in Instances, k \in Names : RowKept(rows'[j][k], k)
         /\ rows'[Home][n] = r
         /\ \A m \in Imports : CallKept(call[m], rows')
    BY <1>1, <1>6, <2>1, <2>4, <2>9, RowWritten
  <2>11. capture'.pc = "open" /\ capture'.name = n /\ capture'.stream = s /\ capture'.next = l + 1
    BY <1>1, <2>1
  <2>12. CaptureKept(capture', rows')
    <3>1. capture'.next - 1 = l /\ capture'.next \in 1 .. Len(s) + 1
      BY <1>3, <2>5, <2>11
    <3>2. rows'[Home][capture'.name].events =
             {Clean(Stamped(capture'.name, capture'.stream[k])) : k \in 1 .. capture'.next - 1}
      BY <2>6, <2>10, <2>11, <3>1
    <3> QED
      BY <1>2, <2>11, <3>1, <3>2 DEF CaptureKept
  <2> QED
    BY <1>2, <1>4, <2>10, <2>12 DEF KeptInv
<1>8. ASSUME capture.pc = "open", capture' = [capture EXCEPT !.pc = "done"],
             NEW r, RowKept(r, n), SetRow(Home, n, r)
      PROVE  KeptInv'
  <2>1. /\ \A j \in Instances, k \in Names : RowKept(rows'[j][k], k)
        /\ \A m \in Imports : CallKept(call[m], rows')
    BY <1>1, <1>6, <1>8, RowWritten
  <2>2. capture'.pc = "done" /\ capture'.stream = s /\ capture'.next = capture.next
    BY <1>1, <1>8
  <2>3. CaptureKept(capture', rows')
    BY <1>2, <2>2 DEF CaptureKept
  <2> QED
    BY <1>2, <1>4, <2>1, <2>3 DEF KeptInv
<1>9. CASE CaptureFails
  <2>1. capture.pc = "open" /\ capture' = [capture EXCEPT !.pc = "done"]
    BY <1>9 DEF CaptureFails
  <2>2. CASE UNCHANGED rows
    <3>1. capture'.pc = "done" /\ capture'.stream = s /\ capture'.next = capture.next
      BY <1>1, <2>1
    <3>2. CaptureKept(capture', rows')
      BY <1>2, <3>1 DEF CaptureKept
    <3> QED
      BY <1>4, <2>2, <3>2 DEF KeptInv
  <2>3. CASE SetRow(Home, n, [row EXCEPT !.status = "failed"])
    <3> DEFINE r == [status |-> "failed", events |-> row.events, blob |-> row.blob]
    <3>1. SetRow(Home, n, r)
      <4>1. row = [status |-> row.status, events |-> row.events, blob |-> row.blob]
        BY <1>1, RowIs
      <4> HIDE DEF row
      <4>2. [row EXCEPT !.status = "failed"] = r
        BY <4>1, RowWith
      <4> QED
        BY <2>3, <4>2
    <3>2. RowKept(r, n)
      BY <1>2 DEF RowKept
    <3> HIDE DEF r
    <3> QED
      BY <1>8, <2>1, <3>1, <3>2
  <2> QED
    BY <1>9, <2>2, <2>3 DEF CaptureFails
<1>10. CASE CaptureEnds
  <2> DEFINE C == Correlated(Ordered(row.events))
             full == [status |-> "completed", events |-> Range(C), blob |-> C]
             half == [status |-> "recording", events |-> row.events, blob |-> C]
  <2>1. capture.pc = "open" /\ capture' = [capture EXCEPT !.pc = "done"]
    BY <1>10 DEF CaptureEnds
  <2>2. RowKept(full, n) /\ RowKept(half, n)
    BY <1>2, <1>6, <2>1, FinishedKept
  <2>3. SetRow(Home, n, full) \/ SetRow(Home, n, half)
    <3>1. [row EXCEPT !.blob = C] = half
      <4> HIDE DEF row, C
      <4> QED
        BY <1>6, <2>1, RowChanged
    <3> QED
      BY <1>10, <3>1 DEF CaptureEnds, FinishRecording, FinishFails
  <2> HIDE DEF full, half
  <2> QED
    BY <1>8, <2>1, <2>2, <2>3
<1> QED
  BY <1>5, <1>7, <1>9, <1>10

LEMMA ReadingKeeps ==
    ASSUME WritersInv, KeptInv,
           \/ \E i \in Instances, n \in Names : Export(i, n)
           \/ \E m \in Imports, b \in bundles : Refuse(m, b)
           \/ \E m \in Imports, i \in Instances, b \in bundles : Check(m, i, b)
    PROVE  KeptInv'
<1> PICK U : Typed(U)
  BY DEF WritersInv
<1>1. /\ \A i \in Instances, n \in Names : RowKept(rows[i][n], n)
      /\ \A b \in bundles : FileKept(b)
      /\ \A m \in Imports : CallKept(call[m], rows)
      /\ CaptureKept(capture, rows)
  BY DEF KeptInv
<1>2. UNCHANGED <<rows, capture>>
  BY DEF Export, Refuse, Check
<1>3. ASSUME NEW i \in Instances, NEW n \in Names, Export(i, n)
      PROVE  KeptInv'
  <2> DEFINE b == [version |-> BundleVersion, schema |-> SchemaVersion, name |-> n,
                   events |-> Ordered(rows[i][n].events)]
  <2>1. bundles' = bundles \cup {b} /\ call' = call
    BY <1>3 DEF Export
  <2>2. Kept(rows[i][n].events, n)
    BY <1>1 DEF RowKept
  <2>3. /\ Whole(Ordered(rows[i][n].events), n)
        /\ \A e \in Range(Ordered(rows[i][n].events)) : Masked(e.payload)
    BY <2>2, ExportedIs
  <2>4. FileKept(b)
    BY <2>3 DEF FileKept
  <2> HIDE DEF b
  <2> QED
    BY <1>1, <1>2, <2>1, <2>4 DEF KeptInv
<1>4. ASSUME NEW m \in Imports, NEW b \in bundles, Refuse(m, b)
      PROVE  KeptInv'
  <2>1. PICK r \in {"error", "refused"} : Reply(m, r)
    BY <1>4 DEF Refuse
  <2>2. bundles' = bundles
    BY <1>4 DEF Refuse
  <2>3. call'[m].pc = r /\ \A o \in Imports : o # m => call'[o] = call[o]
    BY <2>1, CallIs
  <2>4. CallKept(call'[m], rows)
    BY <2>3 DEF CallKept
  <2>5. \A o \in Imports : CallKept(call'[o], rows)
    BY <1>1, <2>3, <2>4
  <2> QED
    BY <1>1, <1>2, <2>2, <2>5 DEF KeptInv
<1>5. ASSUME NEW m \in Imports, NEW i \in Instances, NEW b \in bundles, Check(m, i, b)
      PROVE  KeptInv'
  <2>1. Whole(b.events, b.name)
    BY <1>1, <1>5 DEF Check, FileKept
  <2>2. PICK n, e :
           /\ Whole(e, n)
           /\ call' = [call EXCEPT ![m] = [pc |-> "checked", at |-> i, name |-> n,
                                           events |-> e, file |-> b.events]]
    <3>1. CASE rows[i][b.name].status = "absent"
      BY <1>5, <2>1, <3>1 DEF Check
    <3>2. CASE rows[i][b.name].status # "absent"
      <4>1. made + 1 \in Nat
        BY <1>5, <3>2, PortableAssumption DEF Check
      <4>2. Whole(Rekeyed(b, made + 1), made + 1)
        BY <2>1, <4>1, RekeyedIs
      <4> QED
        BY <1>5, <3>2, <4>2 DEF Check
    <3> QED
      BY <3>1, <3>2
  <2>3. bundles' = bundles
    BY <1>5 DEF Check
  <2> DEFINE c == [pc |-> "checked", at |-> i, name |-> n, events |-> e, file |-> b.events]
  <2>4. CallKept(c, rows)
    BY <2>2 DEF CallKept
  <2> HIDE DEF c
  <2>5. \A o \in Imports : call'[o] = IF o = m THEN c ELSE call[o]
    BY <2>2 DEF c, Typed
  <2>6. \A o \in Imports : CallKept(call'[o], rows)
    BY <1>1, <2>4, <2>5
  <2> QED
    BY <1>1, <1>2, <2>3, <2>6 DEF KeptInv
<1> QED
  BY <1>3, <1>4, <1>5

LEMMA ImportKeeps ==
    ASSUME WritersInv, KeptInv, NEW m \in Imports,
           ImportStart(m) \/ ImportAppend(m) \/ ImportFinish(m) \/ ImportFails(m)
    PROVE  KeptInv'
<1> PICK U : Typed(U)
  BY DEF WritersInv
<1> DEFINE c == call[m]
           i == c.at
           n == c.name
           row == rows[i][n]
<1>1. i \in Instances /\ n \in Names /\ OneWriter
  BY DEF WritersInv, Typed
<1>2. /\ RowKept(row, n) /\ \A b \in bundles : FileKept(b)
      /\ \A o \in Imports : CallKept(call[o], rows)
      /\ CaptureKept(capture, rows)
  BY <1>1 DEF KeptInv
<1>3. UNCHANGED <<capture, bundles>>
  BY DEF ImportStart, ImportAppend, ImportFinish, ImportFails
<1>4. ASSUME Reply(m, "error"), UNCHANGED rows
      PROVE  KeptInv'
  <2>1. call'[m].pc = "error" /\ \A o \in Imports : o # m => call'[o] = call[o]
    BY <1>4, CallIs
  <2>2. CallKept(call'[m], rows)
    BY <2>1 DEF CallKept
  <2>3. \A o \in Imports : CallKept(call'[o], rows)
    BY <1>2, <2>1, <2>2
  <2> QED
    BY <1>2, <1>3, <1>4, <2>3 DEF KeptInv
<1>5. ASSUME NEW r, RowKept(r, n), SetRow(i, n, r), NEW p, Reply(m, p),
             Writes(m, i, n) \/ row.status = "absent",
             p \in {"started", "appended"} => Whole(c.events, n),
             p = "started" => r.events = {}, p # "checked"
      PROVE  KeptInv'
  <2>1. ~ Captures(i, n) /\ \A o \in Imports : o # m => ~ Writes(o, i, n)
    BY <1>1, <1>5 DEF OneWriter
  <2>2. /\ \A j \in Instances, k \in Names : RowKept(rows'[j][k], k)
        /\ rows'[i][n] = r
        /\ \A o \in Imports : o # m => CallKept(call[o], rows')
        /\ CaptureKept(capture, rows')
    BY <1>1, <1>5, <2>1, RowWritten
  <2>3. /\ call'[m].pc = p /\ call'[m].at = i /\ call'[m].name = n
        /\ call'[m].events = c.events
        /\ \A o \in Imports : o # m => call'[o] = call[o]
    BY <1>5, CallIs
  <2>4. CallKept(call'[m], rows')
    BY <1>5, <2>2, <2>3 DEF CallKept
  <2>5. \A o \in Imports : CallKept(call'[o], rows')
    BY <2>2, <2>3, <2>4
  <2> QED
    BY <1>2, <1>3, <2>2, <2>5 DEF KeptInv
<1>6. CASE ImportStart(m)
  <2>1. CASE StartRecording(i, n) /\ Reply(m, "started")
    <3> DEFINE r == [status |-> "recording", events |-> {}, blob |-> <<>>]
    <3>1. row.status = "absent" /\ SetRow(i, n, r) /\ c.pc = "checked"
      BY <1>6, <2>1, FreshRow DEF StartRecording, ImportStart
    <3>2. RowKept(r, n) /\ r.events = {}
      BY StartedKept
    <3>3. Whole(c.events, n)
      BY <1>2, <3>1 DEF CallKept
    <3> HIDE DEF r
    <3> QED
      BY <1>5, <2>1, <3>1, <3>2, <3>3
  <2>2. CASE Reply(m, "error") /\ UNCHANGED rows
    BY <1>4, <2>2
  <2> QED
    BY <1>6, <2>1, <2>2 DEF ImportStart
<1>7. CASE ImportAppend(m)
  <2> DEFINE E == {Clean(x) : x \in Range(c.events)}
             r == [status |-> "recording", events |-> row.events \cup E, blob |-> row.blob]
  <2>1. c.pc = "started" /\ Reply(m, "appended")
        /\ SetRow(i, n, [row EXCEPT !.events = @ \union E])
    BY <1>7 DEF ImportAppend, AppendEvents
  <2>2. Writes(m, i, n) /\ row.status = "recording"
    BY <1>1, <2>1 DEF Writes, OneWriter
  <2>3. Whole(c.events, n) /\ row.events = {}
    BY <1>2, <2>1 DEF CallKept
  <2>4. SetRow(i, n, r)
    <3>1. row = [status |-> "recording", events |-> row.events, blob |-> row.blob]
      BY <1>1, <2>2, RowIs
    <3> HIDE DEF row, E
    <3>2. [row EXCEPT !.events = row.events \cup E] = r
      BY <3>1, RowChanged
    <3> QED
      BY <2>1, <3>2
  <2>5. Kept(E, n)
    BY <2>3, AppendedIs
  <2>6. RowKept(r, n)
    <3>1. r.events = E
      BY <2>3
    <3> QED
      BY <1>2, <2>5, <3>1 DEF RowKept
  <2> HIDE DEF r, c
  <2> QED
    BY <1>5, <2>1, <2>2, <2>3, <2>4, <2>6
<1>8. ASSUME Writes(m, i, n)
      PROVE  /\ row.status = "recording"
             /\ row = [status |-> "recording", events |-> row.events, blob |-> row.blob]
  BY <1>1, <1>8, RowIs DEF OneWriter
<1> DEFINE C == Correlated(Ordered(row.events))
<1>9. CASE ImportFinish(m)
  <2> DEFINE r == [status |-> "completed", events |-> Range(C), blob |-> C]
  <2>1. Writes(m, i, n) /\ Reply(m, "imported") /\ SetRow(i, n, r)
    BY <1>9 DEF ImportFinish, FinishRecording, Writes
  <2>2. RowKept(r, n)
    BY <1>2, <1>8, <2>1, FinishedKept
  <2> HIDE DEF r, c
  <2> QED
    BY <1>5, <2>1, <2>2
<1>10. CASE ImportFails(m)
  <2>1. CASE UNCHANGED rows
    BY <1>4, <1>10, <2>1 DEF ImportFails
  <2>2. CASE c.pc = "appended" /\ FinishFails(i, n)
    <3> DEFINE r == [status |-> "recording", events |-> row.events, blob |-> C]
    <3>1. Writes(m, i, n) /\ Reply(m, "error") /\ SetRow(i, n, [row EXCEPT !.blob = C])
      BY <1>10, <2>2 DEF ImportFails, FinishFails, Writes
    <3>2. [row EXCEPT !.blob = C] = r
      <4> HIDE DEF row, C
      <4> QED
        BY <1>8, <3>1, RowChanged
    <3>3. RowKept(r, n)
      BY <1>2, <1>8, <3>1, FinishedKept
    <3> HIDE DEF r, c
    <3> QED
      BY <1>5, <3>1, <3>2, <3>3
  <2> QED
    BY <1>10, <2>1, <2>2 DEF ImportFails
<1> QED
  BY <1>6, <1>7, <1>9, <1>10

LEMMA KeptStep ==
    ASSUME WritersInv, KeptInv, [Next]_vars
    PROVE  KeptInv'
<1>1. CASE UNCHANGED vars
  BY <1>1 DEF vars, KeptInv
<1>2. CASE Next
  BY <1>2, CaptureKeeps, ReadingKeeps, ImportKeeps DEF Next
<1> QED
  BY <1>1, <1>2

\* Every row of every instance has the events of one recording, redacted, and what a
\* completed one refers to; every file that can be read is a whole recording.
THEOREM KeptAlways == Spec => [](WritersInv /\ KeptInv)
<1>1. WritersInv /\ KeptInv /\ [Next]_vars => WritersInv' /\ KeptInv'
  BY WritersStep, KeptStep
<1> QED
  BY <1>1, WritersInit, KeptInit, PTL DEF Spec

\* Type correctness: the statuses and the calls, and the events of a row under its
\* name, each once.
THEOREM TypeOKAlways == Spec => []TypeOK
<1>1. WritersInv /\ KeptInv => TypeOK
  <2> SUFFICES ASSUME WritersInv, KeptInv PROVE TypeOK
    OBVIOUS
  <2>1. PICK U : Typed(U)
    BY DEF WritersInv
  <2>2. ASSUME NEW i \in Instances, NEW n \in Names
        PROVE  /\ rows[i][n].status \in {"absent", "recording", "completed", "failed"}
               /\ rows[i][n].status = "absent" => rows[i][n] = Absent
               /\ \A e \in rows[i][n].events : e.id[1] = n
               /\ Cardinality({e.id : e \in rows[i][n].events}) =
                     Cardinality(rows[i][n].events)
    <3> DEFINE S == rows[i][n].events
               I == {e.id : e \in S}
               f == [e \in S |-> e.id]
    <3>1. RowKept(rows[i][n], n)
      BY DEF KeptInv
    <3>2. IsFiniteSet(S) /\ Closed(S, n)
      BY <3>1 DEF RowKept, Kept
    <3>3. f \in Bijection(S, I)
      <4>1. f \in [S -> I]
        OBVIOUS
      <4>2. \A x, y \in S : f[x] = f[y] => x = y
        BY <3>2 DEF Closed
      <4>3. \A y \in I : \E x \in S : f[x] = y
        OBVIOUS
      <4> HIDE DEF f, S, I
      <4> QED
        BY <4>1, <4>2, <4>3, BijectionMeans
    <3>4. Cardinality(I) = Cardinality(S)
      BY <3>2, <3>3, FS_Bijection DEF ExistsBijection
    <3> QED
      BY <2>1, <3>1, <3>2, <3>4 DEF RowKept, Closed, Typed
  <2> QED
    BY <2>1, <2>2 DEF TypeOK, Typed
<1> QED
  BY <1>1, KeptAlways, PTL

\* A completed recording, captured, imported or re-keyed, has every event it refers
\* to, is numbered without a gap and is its own snapshot.
THEOREM SelfContainedAlways == Spec => []SelfContained
<1>1. KeptInv => SelfContained
  <2> SUFFICES ASSUME KeptInv, NEW i \in Instances, NEW n \in Names,
                      rows[i][n].status = "completed"
               PROVE  LET events == rows[i][n].events
                      IN /\ {e.parent : e \in events} \subseteq
                               {e.id : e \in events} \union {NoParent}
                         /\ {e.seq : e \in events} = 0 .. Cardinality(events) - 1
                         /\ rows[i][n].blob = Ordered(events)
    BY DEF SelfContained
  <2>1. RowKept(rows[i][n], n)
    BY DEF KeptInv
  <2> QED
    BY <2>1 DEF RowKept, Kept, Complete, Closed
<1> QED
  BY <1>1, KeptAlways, PTL

\* No row, snapshot or file of this build ever has a value under a sensitive key but
\* the mask, wherever its events come from.
THEOREM NothingSensitiveAlways == Spec => []NothingSensitive
<1>1. KeptInv => NothingSensitive
  BY DEF KeptInv, RowKept, Kept, FileKept, NothingSensitive
<1> QED
  BY <1>1, KeptAlways, PTL

\* The leaves of finite payloads are a sequence of their values.
LEMMA LeavesAre ==
    ASSUME NEW N \in Nat, NEW V, NEW p, DOMAIN p = 1 .. N,
           \A k \in 1 .. N : /\ IsFiniteSet(DOMAIN p[k])
                             /\ \A path \in DOMAIN p[k] : p[k][path] \in V
    PROVE  Leaves(p) \in Seq(V)
<1> DEFINE L(k) == LET paths == SetToSeq(DOMAIN p[k]) IN [i \in DOMAIN paths |-> p[k][paths[i]]]
           seqs == [k \in DOMAIN p |-> L(k)]
<1>1. ASSUME NEW k \in 1 .. N
      PROVE  L(k) \in Seq(V)
  <2> DEFINE D == DOMAIN p[k]
             n == Cardinality(D)
             paths == SetToSeq(D)
  <2>1. n \in Nat /\ Enumerates(paths, D)
    BY SetToSeqEnumerates, FS_CardinalityType
  <2>2. \A path \in D : p[k][path] \in V
    OBVIOUS
  <2> HIDE DEF n, D, paths
  <2>3. paths \in [1 .. n -> D]
    BY <2>1 DEF Enumerates, n
  <2>4. [i \in DOMAIN paths |-> p[k][paths[i]]] \in [1 .. n -> V]
    BY <2>2, <2>3
  <2>5. [i \in DOMAIN paths |-> p[k][paths[i]]] \in Seq(V)
    BY <2>1, <2>4
  <2> QED
    BY <2>5 DEF D, paths
<1> HIDE DEF L
<1>2. seqs \in [1 .. N -> Seq(V)]
  BY <1>1
<1>3. seqs \in Seq(Seq(V))
  BY <1>2
<1>4. Leaves(p) = FlattenSeq(seqs)
  BY DEF Leaves, L
<1> HIDE DEF seqs
<1> QED
  BY <1>3, <1>4, FlattenSeqType

\* What a replay sends of any completed recording of any instance, a re-keyed copy
\* too, has the identities of what was recorded, whatever is substituted.
THEOREM IdentityKeptAlways == Spec => []IdentityKept
<1>1. KeptInv => IdentityKept
  <2> SUFFICES ASSUME KeptInv, NEW i \in Instances, NEW n \in Names, NEW s \in Substitutions
               PROVE  LET events == Ordered(rows[i][n].events)
                          leaves == Leaves([k \in DOMAIN events |->
                                        IF events[k].type = "http.request"
                                        THEN events[k].payload ELSE <<>>])
                      IN KeepsIdentity(leaves, s)
    BY DEF IdentityKept
  <2> DEFINE S == rows[i][n].events
             N == Cardinality(S)
             events == Ordered(S)
             p == [k \in DOMAIN events |->
                      IF events[k].type = "http.request" THEN events[k].payload ELSE <<>>]
             V == UNION {{e.payload[path] : path \in DOMAIN e.payload} : e \in S}
  <2>1. Kept(S, n)
    BY DEF KeptInv, RowKept
  <2> HIDE DEF S
  <2>2. IsFiniteSet(S) /\ \A e \in S : IsEvent(e) /\ IsPayload(e.payload) /\ e.seq \in Int
    BY <2>1 DEF Kept, Closed, IsEvent
  <2>3. N \in Nat /\ Enumerates(events, S)
    BY <2>2, OrderedEnumerates, FS_CardinalityType
  <2> HIDE DEF events, N
  <2>4. events \in [1 .. N -> S]
    BY <2>3 DEF Enumerates, N
  <2>5. ASSUME NEW k \in 1 .. N
        PROVE  IsFiniteSet(DOMAIN p[k]) /\ \A path \in DOMAIN p[k] : p[k][path] \in V
    <3>1. events[k] \in S /\ IsPayload(events[k].payload)
      BY <2>2, <2>4
    <3>2. CASE events[k].type = "http.request"
      <4>1. p[k] = events[k].payload
        BY <2>4, <3>2
      <4> HIDE DEF p
      <4> QED
        BY <3>1, <4>1 DEF IsPayload
    <3>3. CASE events[k].type # "http.request"
      <4>1. p[k] = <<>> /\ DOMAIN <<>> = {}
        BY <2>4, <3>3
      <4> HIDE DEF p
      <4> QED
        BY <4>1, FS_EmptySet
    <3> QED
      BY <3>2, <3>3
  <2>6. DOMAIN p = 1 .. N
    BY <2>4
  <2> HIDE DEF p
  <2>7. V \cap FreshUuids = {}
    BY <2>2 DEF IsPayload
  <2> HIDE DEF V
  <2>8. Leaves(p) \in Seq(V)
    BY <2>3, <2>5, <2>6, LeavesAre
  <2>9. \A v \in DOMAIN s.mapping : s.mapping[v] \notin FreshUuids
    BY FreshAssumption
  <2>10. KeepsIdentity(Leaves(p), s)
    BY <2>7, <2>8, <2>9, SubstitutionKeepsIdentity
  <2> QED
    BY <2>10 DEF p, events, S
<1> QED
  BY <1>1, KeptAlways, PTL

-----------------------------------------------------------------------------
(* Files in order *)

\* s is as correlate leaves it.
InOrder(s, N) ==
    /\ N \in Nat /\ s = [k \in 1 .. N |-> s[k]]
    /\ \A k \in 1 .. N : /\ IsEvent(s[k]) /\ s[k].seq = k - 1
                         /\ s[k].parent = NoParent => ParentAt(s, N, k) = NoParent
    /\ \A j, k, l \in 1 .. N : j < k /\ k < l /\ s[j].corr = s[l].corr => s[k].corr = s[j].corr
    /\ \A j, k \in 1 .. N : j <= k /\ s[j].corr = s[k].corr => s[j].ts <= s[k].ts
    /\ \A j, k \in 1 .. N : j <= k /\ IsHead(s, j) /\ IsHead(s, k) => s[j].ts <= s[k].ts

LEMMA InOrderArranged ==
    ASSUME NEW N, NEW s, InOrder(s, N)
    PROVE  /\ IsFiniteSet(Range(s)) /\ Cardinality(Range(s)) = N
           /\ Enumerates(s, Range(s)) /\ Arranged(s, Range(s)) /\ Distinct(Range(s))
           /\ \A e \in Range(s) : Row(e)
<1> DEFINE S == Range(s)
<1>0. N \in Nat /\ s = [k \in 1 .. N |-> s[k]]
  BY DEF InOrder
<1>1. /\ N \in Nat /\ DOMAIN s = 1 .. N
      /\ \A k \in 1 .. N : IsEvent(s[k]) /\ s[k].seq = k - 1
  BY <1>0 DEF InOrder
<1>2. \A k \in 1 .. N : s[k] \in S
  BY <1>1 DEF Range
<1>3. \A e \in S : \E k \in 1 .. N : s[k] = e
  BY <1>1 DEF Range
<1> HIDE DEF S
<1>4. \A j, k \in 1 .. N : s[j] = s[k] => j = k
  <2> SUFFICES ASSUME NEW j \in 1 .. N, NEW k \in 1 .. N, s[j] = s[k] PROVE j = k
    OBVIOUS
  <2>1. s[j].seq = j - 1 /\ s[k].seq = k - 1
    BY <1>1
  <2> QED
    BY <1>1, <2>1
<1>5. IsFiniteSet(S) /\ Cardinality(S) = N
  <2> DEFINE f == [k \in 1 .. N |-> s[k]]
  <2>1. f \in Bijection(1 .. N, S)
    <3>1. f \in [1 .. N -> S] /\ \A j, k \in 1 .. N : f[j] = f[k] => j = k
      BY <1>2, <1>4
    <3>2. \A e \in S : \E k \in 1 .. N : f[k] = e
      BY <1>3
    <3> HIDE DEF f
    <3> QED
      BY <3>1, <3>2, BijectionMeans
  <2>2. IsFiniteSet(1 .. N) /\ Cardinality(1 .. N) = N
    BY <1>1, FS_Interval
  <2>3. ExistsBijection(1 .. N, S)
    BY <2>1 DEF ExistsBijection
  <2> QED
    BY <2>2, <2>3, FS_Bijection
<1>6. s \in [1 .. N -> S]
  <2>1. [k \in 1 .. N |-> s[k]] \in [1 .. N -> S]
    BY <1>2
  <2> QED
    BY <1>0, <2>1
<1>7. Enumerates(s, S)
  BY <1>3, <1>4, <1>5, <1>6 DEF Enumerates
<1>8. \A e \in S : Row(e)
  BY <1>1, <1>3, EventIsRow
<1>9. ASSUME NEW j \in 1 .. N, NEW k \in 1 .. N, j <= k, s[j].ts <= s[k].ts
      PROVE  ~ Before(s[k], s[j])
  <2>1. /\ s[j].seq = j - 1 /\ s[k].seq = k - 1 /\ s[j].ts \in Int /\ s[k].ts \in Int
    BY <1>1 DEF IsEvent
  <2> QED
    BY <1>9, <2>1 DEF Before
<1>10. Arranged(s, S)
  BY <1>5, <1>7, <1>9 DEF Arranged, InOrder
<1>11. Distinct(S)
  <2> SUFFICES ASSUME NEW e \in S, NEW f \in S, e # f PROVE Before(e, f) \/ Before(f, e)
    BY DEF Distinct
  <2>1. PICK j \in 1 .. N : s[j] = e
    BY <1>3
  <2>2. PICK k \in 1 .. N : s[k] = f
    BY <1>3
  <2>3. e.seq = j - 1 /\ f.seq = k - 1 /\ e.ts \in Int /\ f.ts \in Int /\ j # k
    BY <1>1, <2>1, <2>2 DEF IsEvent
  <2> QED
    BY <1>1, <2>3 DEF Before
<1> QED
  BY <1>5, <1>7, <1>8, <1>10, <1>11 DEF S

\* Reading and correlating rows that are in order changes nothing.
LEMMA InOrderFixed ==
    ASSUME NEW N, NEW s, InOrder(s, N)
    PROVE  Ordered(Range(s)) = s /\ Correlated(s) = s
<1> DEFINE S == Range(s)
<1>1. /\ IsFiniteSet(S) /\ Cardinality(S) = N /\ Enumerates(s, S) /\ Arranged(s, S)
      /\ Distinct(S) /\ \A e \in S : Row(e)
  BY InOrderArranged
<1>2. /\ N \in Nat /\ s = [k \in 1 .. N |-> s[k]]
      /\ \A k \in 1 .. N : /\ IsEvent(s[k]) /\ s[k].seq = k - 1
                           /\ s[k].parent # NoParent \/ ParentAt(s, N, k) = NoParent
  BY DEF InOrder
<1> HIDE DEF S
<1>3. Ordered(S) = s
  BY <1>1, <1>2, OrderedIs
<1>4. PICK from : Arranged(from, S) /\ Correlated(s) = Numbered(from, N)
  BY <1>1, CorrelatedIs
<1>5. from = s
  BY <1>1, <1>4, ArrangedLists, ListsUnique
<1>6. \A k \in 1 .. N : Numbered(s, N)[k] = s[k]
  BY <1>2, EventIsRow, NumberedKeeps
<1>7. Numbered(s, N) = [k \in 1 .. N |-> Numbered(s, N)[k]]
  BY DEF Numbered
<1>8. Numbered(s, N) = s
  <2>1. [k \in 1 .. N |-> Numbered(s, N)[k]] = [k \in 1 .. N |-> s[k]]
    BY <1>6
  <2> QED
    BY ONLY <1>2, <1>7, <2>1
<1> QED
  BY <1>3, <1>4, <1>5, <1>8 DEF S

\* What correlating does not change is in order.
LEMMA FixedInOrder ==
    ASSUME NEW s, NEW n, Whole(s, n), Correlated(s) = s
    PROVE  InOrder(s, Len(s))
<1> DEFINE S == Range(s)
           N == Len(s)
<1>1. /\ s \in Seq(S) /\ Closed(S, n) /\ N \in Nat /\ DOMAIN s = 1 .. N
      /\ \A j, k \in 1 .. N : s[j] = s[k] => j = k
  BY DEF Whole
<1>2. /\ \A k \in 1 .. N : s[k] \in S
      /\ \A e \in S : \E k \in 1 .. N : s[k] = e
  BY <1>1 DEF Range
<1> HIDE DEF S, N
<1>3. IsFiniteSet(S) /\ Cardinality(S) = N /\ Enumerates(s, S)
  <2> DEFINE f == [k \in 1 .. N |-> s[k]]
  <2>1. f \in [1 .. N -> S] /\ \A j, k \in 1 .. N : f[j] = f[k] => j = k
    BY <1>1, <1>2
  <2>2. \A e \in S : \E k \in 1 .. N : f[k] = e
    BY <1>2
  <2>3. f = s
    BY <1>1
  <2> HIDE DEF f
  <2>4. f \in Bijection(1 .. N, S)
    BY <2>1, <2>2, BijectionMeans
  <2>5. IsFiniteSet(1 .. N) /\ Cardinality(1 .. N) = N
    BY <1>1, FS_Interval
  <2>6. IsFiniteSet(S) /\ Cardinality(S) = N
    BY <2>4, <2>5, FS_Bijection DEF ExistsBijection
  <2> QED
    BY <2>1, <2>2, <2>3, <2>6 DEF Enumerates
<1>4. \A e \in S : IsEvent(e) /\ Row(e)
  BY <1>1, EventIsRow DEF Closed
<1>5. PICK from : Arranged(from, S) /\ s = Numbered(from, N)
  BY <1>3, <1>4, CorrelatedIs
<1>6. /\ Arranged(s, S)
      /\ \A k \in 1 .. N : Becomes(from[k], ParentAt(from, N, k), k - 1, s[k])
  BY <1>3, <1>4, <1>5, NumberedArranged, NumberedEnumerates DEF S
<1>7. \A j \in 1 .. N : s[j].corr = from[j].corr /\ s[j].type = from[j].type
                        /\ s[j].id = from[j].id /\ s[j].seq = j - 1
  BY <1>6 DEF Becomes
<1>8. ASSUME NEW k \in 1 .. N, s[k].parent = NoParent
      PROVE  ParentAt(s, N, k) = NoParent
  <2>1. ParentAt(from, N, k) = NoParent
    BY <1>6, <1>8 DEF Becomes
  <2>2. ParentAt(s, N, k) = ParentAt(from, N, k)
    BY <1>1, <1>7, ParentAtSame
  <2> QED
    BY <2>1, <2>2
<1>9. ASSUME NEW j \in 1 .. N, NEW k \in 1 .. N, j <= k, ~ Before(s[k], s[j])
      PROVE  s[j].ts <= s[k].ts
  <2>1. s[j].ts \in Int /\ s[k].ts \in Int
    BY <1>2, <1>4 DEF IsEvent
  <2> QED
    BY <1>9, <2>1 DEF Before
<1>10. /\ \A j, k, l \in 1 .. N :
             j < k /\ k < l /\ s[j].corr = s[l].corr => s[k].corr = s[j].corr
       /\ \A j, k \in 1 .. N : j <= k /\ s[j].corr = s[k].corr => ~ Before(s[k], s[j])
       /\ \A j, k \in 1 .. N : j <= k /\ IsHead(s, j) /\ IsHead(s, k) => ~ Before(s[k], s[j])
  BY <1>3, <1>6 DEF Arranged
<1>11. s = [k \in 1 .. N |-> s[k]]
  BY <1>1
<1>12. \A k \in 1 .. N : IsEvent(s[k])
  BY <1>2, <1>4
<1> QED
  BY <1>1, <1>7, <1>8, <1>9, <1>10, <1>11, <1>12 DEF InOrder, N

LEMMA ParentAtNone ==
    ASSUME NEW N \in Nat, NEW from, NEW to, NEW k \in 1 .. N,
           \A j \in 1 .. N : /\ to[j].corr = from[j].corr /\ to[j].type = from[j].type
                             /\ from[j].id # NoParent,
           ParentAt(from, N, k) = NoParent
    PROVE  ParentAt(to, N, k) = NoParent
<1> DEFINE mates(o) == {j \in 1 .. N : o[j].corr = o[k].corr}
           requests(o) == {j \in mates(o) : o[j].type = "http.request"}
           queries(o) == {j \in mates(o) : j < k /\ o[j].type = "postgres.query"}
           First(R) == CHOOSE j \in R : \A i \in R : j <= i
           Last1(R) == CHOOSE j \in R : \A i \in R : i <= j
           root(o) == IF requests(o) = {} THEN NoParent ELSE o[First(requests(o))].id
<1>1. mates(to) = mates(from)
  OBVIOUS
<1>2. requests(to) = requests(from) /\ queries(to) = queries(from)
  BY <1>1
<1>3. requests(from) \in SUBSET (1 .. N) /\ queries(from) \in SUBSET (1 .. N)
  OBVIOUS
<1>4. \A o : ParentAt(o, N, k) = CASE o[k].type = "http.request" -> NoParent
         [] o[k].type = "postgres.result" /\ queries(o) # {} -> o[Last1(queries(o))].id
         [] OTHER -> root(o)
  BY DEF ParentAt
<1> HIDE DEF requests, queries
<1>5. requests(from) # {} => First(requests(from)) \in 1 .. N
  <2>1. requests(from) \in SUBSET Nat
    BY <1>3
  <2>2. requests(from) # {} => \E j \in requests(from) : \A i \in requests(from) : j <= i
    BY <2>1, LeastExists
  <2> QED
    BY <1>3, <2>2
<1>6. queries(from) # {} => Last1(queries(from)) \in 1 .. N
  <2>1. queries(from) # {} => \E j \in queries(from) : \A i \in queries(from) : i <= j
    BY <1>3, GreatestExists
  <2> QED
    BY <1>3, <2>1
<1> HIDE DEF First, Last1
<1>7. root(from) = NoParent => root(to) = NoParent
  BY <1>2, <1>5
<1>8. queries(from) # {} => from[Last1(queries(from))].id # NoParent
  BY <1>6
<1> HIDE DEF root
<1>9. to[k].type = from[k].type
  OBVIOUS
<1> QED
  BY <1>2, <1>4, <1>7, <1>8, <1>9

\* t has the events of s under other ids, or redacted.
Copies(s, t, N) ==
    /\ t = [k \in 1 .. N |-> t[k]]
    /\ \A k \in 1 .. N :
          /\ IsEvent(t[k]) /\ t[k].type = s[k].type /\ t[k].corr = s[k].corr
          /\ t[k].ts = s[k].ts /\ t[k].seq = s[k].seq
          /\ Redacted(t[k].payload) = Redacted(s[k].payload)
          /\ t[k].parent = NoParent <=> s[k].parent = NoParent
          /\ \A j \in 1 .. N : t[j].id = t[k].parent <=> s[j].id = s[k].parent

LEMMA CopyInOrder ==
    ASSUME NEW N, NEW s, InOrder(s, N), NEW t, Copies(s, t, N)
    PROVE  InOrder(t, N) /\ Shape(t) = Shape(s)
<1>1. /\ N \in Nat /\ s = [k \in 1 .. N |-> s[k]]
      /\ \A k \in 1 .. N : /\ IsEvent(s[k]) /\ s[k].seq = k - 1
                           /\ s[k].parent = NoParent => ParentAt(s, N, k) = NoParent
      /\ \A j, k, l \in 1 .. N :
            j < k /\ k < l /\ s[j].corr = s[l].corr => s[k].corr = s[j].corr
      /\ \A j, k \in 1 .. N : j <= k /\ s[j].corr = s[k].corr => s[j].ts <= s[k].ts
      /\ \A j, k \in 1 .. N : j <= k /\ IsHead(s, j) /\ IsHead(s, k) => s[j].ts <= s[k].ts
  BY DEF InOrder
<1>2. /\ t = [k \in 1 .. N |-> t[k]]
      /\ \A k \in 1 .. N :
            /\ IsEvent(t[k]) /\ t[k].type = s[k].type /\ t[k].corr = s[k].corr
            /\ t[k].ts = s[k].ts /\ t[k].seq = s[k].seq
            /\ Redacted(t[k].payload) = Redacted(s[k].payload)
            /\ t[k].parent = NoParent <=> s[k].parent = NoParent
            /\ \A j \in 1 .. N : t[j].id = t[k].parent <=> s[j].id = s[k].parent
  BY DEF Copies
<1>3. \A k \in 1 .. N : s[k].id # NoParent
  BY <1>1 DEF IsEvent
<1>4. ASSUME NEW k \in 1 .. N, t[k].parent = NoParent
      PROVE  ParentAt(t, N, k) = NoParent
  <2>1. ParentAt(s, N, k) = NoParent
    BY <1>1, <1>2, <1>4
  <2> QED
    BY <1>1, <1>2, <1>3, <2>1, ParentAtNone
<1>5. \A k \in 1 .. N : IsHead(t, k) <=> IsHead(s, k)
  <2> SUFFICES ASSUME NEW k \in 1 .. N PROVE IsHead(t, k) <=> IsHead(s, k)
    OBVIOUS
  <2>1. \A j \in 1 .. k - 1 : j \in 1 .. N
    BY <1>1
  <2> QED
    BY <1>2, <2>1 DEF IsHead
<1>6. InOrder(t, N)
  <2>1. \A k \in 1 .. N : IsEvent(t[k]) /\ t[k].seq = k - 1
    BY <1>1, <1>2
  <2>2. \A j, k, l \in 1 .. N :
           j < k /\ k < l /\ t[j].corr = t[l].corr => t[k].corr = t[j].corr
    BY <1>1, <1>2
  <2>3. \A j, k \in 1 .. N : j <= k /\ t[j].corr = t[k].corr => t[j].ts <= t[k].ts
    BY <1>1, <1>2
  <2>4. \A j, k \in 1 .. N : j <= k /\ IsHead(t, j) /\ IsHead(t, k) => t[j].ts <= t[k].ts
    BY <1>1, <1>2, <1>5
  <2> QED
    BY <1>1, <1>2, <1>4, <2>1, <2>2, <2>3, <2>4 DEF InOrder
<1>7. Shape(t) = Shape(s)
  <2>1. DOMAIN t = 1 .. N /\ DOMAIN s = 1 .. N
    BY <1>1, <1>2
  <2>2. \A k \in 1 .. N :
           {p \in 1 .. N : t[p].id = t[k].parent} = {p \in 1 .. N : s[p].id = s[k].parent}
    BY <1>2
  <2> DEFINE Form(e, P) == [says |-> Says(e), parent |-> P]
             G(f) == [k \in 1 .. N |-> Form(f[k], {p \in 1 .. N : f[p].id = f[k].parent})]
  <2>3. Shape(t) = G(t) /\ Shape(s) = G(s)
    BY <2>1 DEF Shape
  <2>4. \A k \in 1 .. N : Form(t[k], {p \in 1 .. N : t[p].id = t[k].parent}) =
                          Form(s[k], {p \in 1 .. N : s[p].id = s[k].parent})
    BY <1>2, <2>2 DEF Says
  <2> HIDE DEF Form
  <2> QED
    BY <2>3, <2>4
<1> QED
  BY <1>6, <1>7

\* Storing a file redacts it and leaves it in order; so does giving it fresh ids.
LEMMA CleanCopies ==
    ASSUME NEW N \in Nat, NEW s, \A k \in 1 .. N : IsEvent(s[k]),
           NEW t, t = [k \in 1 .. N |-> Clean(s[k])]
    PROVE  Copies(s, t, N)
<1>1. \A k \in 1 .. N : CleanOf(s[k], t[k])
  BY CleanIs
<1>2. ASSUME NEW k \in 1 .. N
      PROVE  Redacted(t[k].payload) = Redacted(s[k].payload)
  <2> DEFINE payload == s[k].payload
             S == UNION {Range(path) : path \in DOMAIN payload}
  <2>1. ASSUME NEW path \in DOMAIN payload
        PROVE  path \in Seq(S)
    <3>1. path \in Seq(Range(path)) /\ Range(path) \subseteq S
      BY DEF IsEvent, IsPayload
    <3> QED
      BY <3>1
  <2> HIDE DEF S, payload
  <2>2. Redacted(Redacted(payload)) = Redacted(payload)
    BY <2>1, RedactionIdempotent
  <2>3. t[k].payload = Redacted(s[k].payload)
    BY <1>1 DEF CleanOf
  <2> QED
    BY <2>2, <2>3 DEF payload
<1>3. t = [k \in 1 .. N |-> t[k]]
  OBVIOUS
<1> QED
  BY <1>1, <1>2, <1>3 DEF Copies, CleanOf

LEMMA RekeyedCopies ==
    ASSUME NEW b, NEW n \in Nat, NEW m, Whole(b.events, m)
    PROVE  Copies(b.events, Rekeyed(b, n), Len(b.events))
<1> DEFINE s == b.events
           t == Rekeyed(b, n)
           N == Len(s)
           known == {s[j].id : j \in DOMAIN s}
<1>1. /\ s \in Seq(Range(s)) /\ Closed(Range(s), m) /\ N \in Nat /\ DOMAIN s = 1 .. N
      /\ \A k \in 1 .. N : s[k] \in Range(s)
      /\ \A j, k \in 1 .. N : s[j] = s[k] => j = k
  BY DEF Whole, Range
<1>2. \A k \in 1 .. N : IsEvent(s[k]) /\ s[k].id # NoParent
  BY <1>1 DEF Closed, IsEvent
<1>3. \A j, k \in 1 .. N : s[j].id = s[k].id => j = k
  BY <1>1 DEF Closed
<1>4. \A k \in 1 .. N : s[k].parent \in {NoParent} \cup known
  <2> SUFFICES ASSUME NEW k \in 1 .. N PROVE s[k].parent \in {NoParent} \cup known
    OBVIOUS
  <2>1. s[k].parent \in {NoParent} \cup {f.id : f \in Range(s)}
    BY <1>1 DEF Closed
  <2>2. \A f \in Range(s) : \E j \in DOMAIN s : s[j] = f
    BY DEF Range
  <2> QED
    BY <2>1, <2>2
<1>5. /\ t = [k \in 1 .. N |-> t[k]]
      /\ \A k \in 1 .. N :
            t[k] = [id |-> <<n, k>>, corr |-> s[k].corr, ts |-> s[k].ts, seq |-> s[k].seq,
                    type |-> s[k].type, parent |-> Moved(s, n, k), payload |-> s[k].payload]
  BY RekeyedAt
<1>6. Whole(t, n)
  BY RekeyedIs
<1> HIDE DEF s, t, N
<1>7. ASSUME NEW k \in 1 .. N
      PROVE  /\ t[k].type = s[k].type /\ t[k].corr = s[k].corr /\ t[k].ts = s[k].ts
             /\ t[k].seq = s[k].seq /\ t[k].payload = s[k].payload
             /\ t[k].id = <<n, k>> /\ t[k].parent = Moved(s, n, k)
  BY <1>5
<1>8. \A k \in 1 .. N : IsEvent(t[k])
  <2>1. DOMAIN t = 1 .. N
    BY <1>5
  <2> QED
    BY <1>6, <2>1 DEF Whole, Closed, Range
<1>9. ASSUME NEW k \in 1 .. N
      PROVE  /\ t[k].parent = NoParent <=> s[k].parent = NoParent
             /\ \A j \in 1 .. N : t[j].id = t[k].parent <=> s[j].id = s[k].parent
  <2>1. CASE s[k].parent = NoParent
    <3>1. s[k].parent \notin known
      BY <1>1, <1>2, <2>1
    <3>2. t[k].parent = NoParent
      BY <1>7, <3>1 DEF Moved
    <3> QED
      BY <1>2, <1>7, <2>1, <3>2 DEF NoParent
  <2>2. CASE s[k].parent # NoParent
    <3>1. s[k].parent \in known
      BY <1>4, <2>2
    <3> DEFINE q == Position(s, s[k].parent)
    <3>2. q \in 1 .. N /\ s[q].id = s[k].parent
      BY <1>1, <3>1 DEF Position
    <3>3. t[k].parent = <<n, q>>
      BY <1>7, <3>1 DEF Moved
    <3> HIDE DEF q
    <3>4. t[k].parent # NoParent
      BY <3>3 DEF NoParent
    <3>5. \A j \in 1 .. N : t[j].id = t[k].parent <=> j = q
      BY <1>7, <3>3
    <3>6. \A j \in 1 .. N : s[j].id = s[k].parent <=> j = q
      BY <1>3, <3>2
    <3> QED
      BY <2>2, <3>4, <3>5, <3>6
  <2> QED
    BY <2>1, <2>2
<1>10. Copies(s, t, N)
  BY <1>5, <1>7, <1>8, <1>9 DEF Copies
<1> QED
  BY <1>10 DEF s, t, N

-----------------------------------------------------------------------------
(* Copies of files *)

\* The rows S are those of the events, each once, linked as they link them.
Holds(S, events) ==
    /\ \A k \in DOMAIN events : \E e \in S :
          /\ e.id = events[k].id /\ Says(e) = Says(events[k])
          /\ events[k].parent # NoParent => e.parent = events[k].parent
    /\ \A e \in S : \E k \in DOMAIN events : e.id = events[k].id

\* What is stored of a list of events, before and after it is finished.
LEMMA StoredHolds ==
    ASSUME NEW n, NEW events, Whole(events, n)
    PROVE  Holds({Clean(e) : e \in Range(events)}, events)
<1> DEFINE N == Len(events)
           t == [k \in 1 .. N |-> Clean(events[k])]
           S == {Clean(e) : e \in Range(events)}
<1>1. /\ N \in Nat /\ DOMAIN events = 1 .. N
      /\ \A k \in 1 .. N : IsEvent(events[k]) /\ Clean(events[k]) \in S
  BY DEF Whole, Closed, Range
<1>2. \A e \in S : \E k \in 1 .. N : e = Clean(events[k])
  BY <1>1 DEF Range
<1>3. Copies(events, t, N) /\ \A k \in 1 .. N : CleanOf(events[k], Clean(events[k]))
  BY <1>1, CleanCopies, CleanIs
<1> HIDE DEF S, N
<1>4. ASSUME NEW k \in 1 .. N
      PROVE  /\ Clean(events[k]).id = events[k].id
             /\ Clean(events[k]).parent = events[k].parent
             /\ Says(Clean(events[k])) = Says(events[k])
  <2>1. t[k] = Clean(events[k])
    OBVIOUS
  <2>2. Redacted(Clean(events[k]).payload) = Redacted(events[k].payload)
    BY <1>3, <2>1 DEF Copies
  <2> QED
    BY <1>3, <2>2 DEF CleanOf, Says
<1> HIDE DEF t
<1>5. Holds(S, events)
  BY <1>1, <1>2, <1>4 DEF Holds
<1> QED
  BY <1>5 DEF S

\* Finishing fills in links and numbers, and nothing else.
LEMMA FinishedHolds ==
    ASSUME NEW n, NEW S, Kept(S, n), NEW C, C = Correlated(Ordered(S)),
           NEW events, Holds(S, events)
    PROVE  Holds(Range(C), events)
<1> DEFINE N == Cardinality(S)
           T == Range(C)
<1>1. IsFiniteSet(S) /\ N \in Nat /\ \A e \in S : IsEvent(e) /\ Row(e) /\ e.seq \in Int
  BY FS_CardinalityType, EventIsRow DEF Kept, Closed, Row
<1>2. Enumerates(Ordered(S), S)
  BY <1>1, OrderedEnumerates
<1>3. PICK from : Arranged(from, S) /\ C = Numbered(from, N)
  BY <1>1, <1>2, CorrelatedIs
<1> HIDE DEF T
<1>4. /\ Cardinality(T) = N /\ Enumerates(C, T)
      /\ \A k \in 1 .. N : Becomes(from[k], ParentAt(from, N, k), k - 1, C[k])
  BY <1>1, <1>3, NumberedEnumerates DEF T
<1>5. Enumerates(from, S)
  BY <1>3 DEF Arranged
<1> HIDE DEF N
<1>6. /\ \A k \in 1 .. N : C[k] \in T /\ from[k] \in S
      /\ \A x \in T : \E k \in 1 .. N : C[k] = x
      /\ \A x \in S : \E k \in 1 .. N : from[k] = x
  BY <1>4, <1>5 DEF Enumerates, N
<1>7. ASSUME NEW k \in 1 .. N
      PROVE  /\ C[k].id = from[k].id /\ Says(C[k]) = Says(from[k])
             /\ from[k].parent # NoParent => C[k].parent = from[k].parent
  <2>1. DOMAIN from[k] = {"id", "corr", "ts", "seq", "type", "parent", "payload"}
    BY <1>1, <1>6, EventIsRow
  <2> QED
    BY <1>4, <2>1 DEF Becomes, Says
<1>8. ASSUME NEW k \in DOMAIN events
      PROVE  \E e \in T : /\ e.id = events[k].id /\ Says(e) = Says(events[k])
                          /\ events[k].parent # NoParent => e.parent = events[k].parent
  <2>1. PICK e \in S : /\ e.id = events[k].id /\ Says(e) = Says(events[k])
                       /\ events[k].parent # NoParent => e.parent = events[k].parent
    BY DEF Holds
  <2>2. PICK j \in 1 .. N : from[j] = e
    BY <1>6
  <2>3. C[j] \in T /\ C[j].id = e.id /\ Says(C[j]) = Says(e)
        /\ (e.parent # NoParent => C[j].parent = e.parent)
    BY <1>6, <1>7, <2>2
  <2> QED
    BY <2>1, <2>3
<1>9. ASSUME NEW e \in T
      PROVE  \E k \in DOMAIN events : e.id = events[k].id
  <2>1. PICK j \in 1 .. N : C[j] = e
    BY <1>6
  <2> QED
    BY <1>6, <1>7, <2>1 DEF Holds
<1> QED
  BY <1>8, <1>9 DEF Holds, T

\* Rows that hold what a file was re-keyed to are a copy of it.
LEMMA HoldsCopy ==
    ASSUME NEW n, NEW file, Whole(file, n), NEW l, NEW events, Whole(events, l),
           Copies(file, events, Len(file)), NEW S, Kept(S, l), Holds(S, events)
    PROVE  CopyOf(file, S)
<1> DEFINE N == Len(file)
           copy == [k \in 1 .. N |-> CHOOSE e \in S : e.id = events[k].id]
<1>1. /\ N \in Nat /\ DOMAIN file = 1 .. N
      /\ \A k \in 1 .. N : IsEvent(file[k])
  BY DEF Whole, Closed, Range
<1>2. /\ events = [k \in 1 .. N |-> events[k]]
      /\ \A k \in 1 .. N :
            /\ events[k].type = file[k].type /\ events[k].corr = file[k].corr
            /\ events[k].ts = file[k].ts
            /\ Redacted(events[k].payload) = Redacted(file[k].payload)
            /\ events[k].parent = NoParent <=> file[k].parent = NoParent
            /\ \A j \in 1 .. N : events[j].id = events[k].parent <=> file[j].id = file[k].parent
  BY DEF Copies
<1> HIDE DEF N
<1>3. DOMAIN events = 1 .. N
  BY <1>2
<1>4. /\ \A j, k \in 1 .. N : events[j].id = events[k].id => j = k
      /\ \A k \in 1 .. N : events[k].id # NoParent
  BY <1>3 DEF Whole, Closed, Range, IsEvent
<1>5. \A e, f \in S : e.id = f.id => e = f
  BY DEF Kept, Closed
<1>6. ASSUME NEW k \in 1 .. N
      PROVE  /\ copy[k] \in S /\ copy[k].id = events[k].id /\ Says(copy[k]) = Says(events[k])
             /\ events[k].parent # NoParent => copy[k].parent = events[k].parent
  <2>1. PICK e \in S : /\ e.id = events[k].id /\ Says(e) = Says(events[k])
                       /\ events[k].parent # NoParent => e.parent = events[k].parent
    BY <1>3 DEF Holds
  <2>2. copy[k] = e
    BY <1>5, <2>1
  <2> QED
    BY <2>1, <2>2
<1>7. DOMAIN copy = 1 .. N /\ copy \in [1 .. N -> S]
  BY <1>6
<1> HIDE DEF copy
<1>8. \A j, k \in 1 .. N : copy[j] = copy[k] => j = k
  BY <1>4, <1>6
<1>9. \A e \in S : \E k \in 1 .. N : copy[k] = e
  <2> SUFFICES ASSUME NEW e \in S PROVE \E k \in 1 .. N : copy[k] = e
    OBVIOUS
  <2>1. PICK k \in 1 .. N : e.id = events[k].id
    BY <1>3 DEF Holds
  <2> QED
    BY <1>5, <1>6, <2>1
<1>10. copy \in Bijection(1 .. N, S)
  BY <1>7, <1>8, <1>9, BijectionMeans
<1>11. ASSUME NEW k \in 1 .. N
       PROVE  /\ Says(copy[k]) = Says(file[k])
              /\ \A p \in 1 .. N : file[k].parent = file[p].id => copy[k].parent = copy[p].id
  <2>1. Says(events[k]) = Says(file[k])
    BY <1>2 DEF Says
  <2>2. ASSUME NEW p \in 1 .. N, file[k].parent = file[p].id
        PROVE  copy[k].parent = copy[p].id
    <3>1. events[p].id = events[k].parent
      BY <1>2, <2>2
    <3>2. events[k].parent # NoParent
      BY <1>4, <3>1
    <3> QED
      BY <1>6, <3>1, <3>2
  <2> QED
    BY <1>6, <2>1, <2>2
<1> QED
  BY <1>1, <1>10, <1>11 DEF CopyOf

\* Finishing the rows of a file that is in order keeps its order and its links.
LEMMA FinishedShape ==
    ASSUME NEW n, NEW file, Whole(file, n), Correlated(file) = file,
           NEW events, Copies(file, events, Len(file)),
           NEW S, S = {Clean(e) : e \in Range(events)}, NEW C, C = Correlated(Ordered(S))
    PROVE  Shape(Ordered(Range(C))) = Shape(file)
<1> DEFINE N == Len(file)
           t == [k \in 1 .. N |-> Clean(events[k])]
<1>1. InOrder(file, N) /\ N \in Nat
  BY FixedInOrder DEF Whole
<1>2. InOrder(events, N) /\ Shape(events) = Shape(file)
  BY <1>1, CopyInOrder
<1>3. DOMAIN events = 1 .. N /\ \A k \in 1 .. N : IsEvent(events[k])
  BY <1>2 DEF InOrder
<1>4. Range(t) = S
  BY <1>3 DEF Range
<1> HIDE DEF N
<1>5. Copies(events, t, N)
  BY <1>1, <1>3, CleanCopies
<1> HIDE DEF t
<1>6. InOrder(t, N) /\ Shape(t) = Shape(events)
  BY <1>2, <1>5, CopyInOrder
<1>7. Ordered(S) = t /\ Correlated(t) = t
  BY <1>4, <1>6, InOrderFixed
<1>8. Ordered(Range(C)) = t
  BY <1>4, <1>7
<1> QED
  BY <1>2, <1>6, <1>8

\* An import has in hand, stores and finishes a copy of its file.
CallFaithful(c, R) ==
    LET row == R[c.at][c.name]
    IN /\ c.pc \in {"checked", "started", "appended"} =>
             /\ \E n : Whole(c.file, n)
             /\ Copies(c.file, c.events, Len(c.file))
       /\ c.pc = "appended" => row.events = {Clean(e) : e \in Range(c.events)}
       /\ c.pc = "imported" =>
             /\ row.status = "completed"
             /\ CopyOf(c.file, row.events)
             /\ Correlated(c.file) = c.file => Shape(Ordered(row.events)) = Shape(c.file)

CopyInv == \A m \in Imports : CallFaithful(call[m], rows)

\* A write to a recording that is neither complete nor an import's.
LEMMA ElsewhereFaithful ==
    ASSUME WritersInv, CopyInv, NEW i \in Instances, NEW n \in Names,
           NEW r, SetRow(i, n, r), rows[i][n].status # "completed",
           NEW m \in Imports, ~ Writes(m, i, n)
    PROVE  CallFaithful(call[m], rows')
<1> PICK U : Typed(U)
  BY DEF WritersInv
<1>1. \A j \in Instances, k \in Names : j # i \/ k # n => rows'[j][k] = rows[j][k]
  BY DEF SetRow, Typed
<1>2. CallFaithful(call[m], rows) /\ call[m].at \in Instances /\ call[m].name \in Names
  BY DEF CopyInv, Typed
<1>3. call[m].pc \in {"appended", "imported"} => call[m].at # i \/ call[m].name # n
  BY <1>2 DEF Writes, CallFaithful
<1>4. call[m].pc \in {"appended", "imported"} =>
         rows'[call[m].at][call[m].name] = rows[call[m].at][call[m].name]
  BY <1>1, <1>2, <1>3
<1> QED
  BY <1>2, <1>4 DEF CallFaithful

LEMMA CaptureFaithful ==
    ASSUME WritersInv, CopyInv, CaptureStart \/ CaptureNext \/ CaptureFails \/ CaptureEnds
    PROVE  CopyInv'
<1> DEFINE n == capture.name
           row == rows[Home][n]
<1> PICK U : Typed(U)
  BY DEF WritersInv
<1>1. Home \in Instances /\ n \in Names /\ OneWriter
  BY PortableAssumption DEF WritersInv, Typed
<1>2. UNCHANGED call
  BY DEF CaptureStart, CaptureNext, CaptureFails, CaptureEnds
<1>3. capture.pc = "open" => row.status = "recording" /\ \A m \in Imports : ~ Writes(m, Home, n)
  BY <1>1 DEF OneWriter, Captures
<1>4. ASSUME NEW k \in Names, NEW r, SetRow(Home, k, r), rows[Home][k].status # "completed",
             \A m \in Imports : ~ Writes(m, Home, k)
      PROVE  CopyInv'
  BY <1>1, <1>2, <1>4, ElsewhereFaithful DEF CopyInv
<1>5. ASSUME UNCHANGED rows
      PROVE  CopyInv'
  BY <1>2, <1>5 DEF CopyInv
<1>6. CASE CaptureStart
  <2>1. /\ made + 1 \in Names /\ rows[Home][made + 1].status = "absent"
        /\ SetRow(Home, made + 1, [Absent EXCEPT !.status = "recording"])
    BY <1>6 DEF CaptureStart, StartRecording
  <2>2. \A m \in Imports : ~ Writes(m, Home, made + 1)
    BY <1>1, <2>1 DEF OneWriter
  <2> QED
    BY <1>4, <2>1, <2>2
<1>7. CASE capture.pc = "open" /\ ~ UNCHANGED rows
  <2>1. PICK r : SetRow(Home, n, r)
    BY <1>7 DEF CaptureStart, CaptureNext, CaptureFails, CaptureEnds, AppendEvents,
                FinishRecording, FinishFails
  <2> QED
    BY <1>1, <1>3, <1>4, <1>7, <2>1
<1> QED
  BY <1>5, <1>6, <1>7 DEF CaptureNext, CaptureFails, CaptureEnds

LEMMA ReadingFaithful ==
    ASSUME WritersInv, KeptInv, CopyInv,
           \/ \E i \in Instances, n \in Names : Export(i, n)
           \/ \E m \in Imports, b \in bundles : Refuse(m, b)
           \/ \E m \in Imports, i \in Instances, b \in bundles : Check(m, i, b)
    PROVE  CopyInv'
<1> PICK U : Typed(U)
  BY DEF WritersInv
<1>1. \A m \in Imports : CallFaithful(call[m], rows)
  BY DEF CopyInv
<1>2. UNCHANGED rows
  BY DEF Export, Refuse, Check
<1>3. ASSUME NEW i \in Instances, NEW n \in Names, Export(i, n)
      PROVE  CopyInv'
  BY <1>1, <1>2, <1>3 DEF Export, CopyInv
<1>4. ASSUME NEW m \in Imports, NEW b \in bundles, Refuse(m, b)
      PROVE  CopyInv'
  <2>1. PICK r \in {"error", "refused"} : Reply(m, r)
    BY <1>4 DEF Refuse
  <2>2. call'[m].pc = r /\ \A o \in Imports : o # m => call'[o] = call[o]
    BY <2>1, CallIs
  <2>3. CallFaithful(call'[m], rows)
    BY <2>2 DEF CallFaithful
  <2> QED
    BY <1>1, <1>2, <2>2, <2>3 DEF CopyInv
<1>5. ASSUME NEW m \in Imports, NEW i \in Instances, NEW b \in bundles, Check(m, i, b)
      PROVE  CopyInv'
  <2> DEFINE N == Len(b.events)
  <2>1. Whole(b.events, b.name) /\ N \in Nat
    BY <1>5 DEF Check, KeptInv, FileKept, Whole
  <2>2. PICK n, e :
           /\ Copies(b.events, e, N)
           /\ call' = [call EXCEPT ![m] = [pc |-> "checked", at |-> i, name |-> n,
                                           events |-> e, file |-> b.events]]
    <3>1. CASE rows[i][b.name].status = "absent"
      <4>1. \A k \in 1 .. N : IsEvent(b.events[k])
        BY <2>1 DEF Whole, Closed, Range
      <4>2. b.events = [k \in 1 .. N |-> b.events[k]]
        BY <2>1 DEF Whole
      <4>3. Copies(b.events, b.events, N)
        BY <4>1, <4>2 DEF Copies
      <4> QED
        BY <1>5, <3>1, <4>3 DEF Check
    <3>2. CASE rows[i][b.name].status # "absent"
      <4>1. made + 1 \in Nat
        BY <1>5, <3>2, PortableAssumption DEF Check
      <4>2. Copies(b.events, Rekeyed(b, made + 1), N)
        BY <2>1, <4>1, RekeyedCopies
      <4> QED
        BY <1>5, <3>2, <4>2 DEF Check
    <3> QED
      BY <3>1, <3>2
  <2> DEFINE c == [pc |-> "checked", at |-> i, name |-> n, events |-> e, file |-> b.events]
  <2>3. CallFaithful(c, rows)
    BY <2>1, <2>2 DEF CallFaithful
  <2> HIDE DEF c
  <2>4. \A o \in Imports : call'[o] = IF o = m THEN c ELSE call[o]
    BY <2>2 DEF c, Typed
  <2> QED
    BY <1>1, <1>2, <2>3, <2>4 DEF CopyInv
<1> QED
  BY <1>3, <1>4, <1>5

LEMMA ImportFaithful ==
    ASSUME WritersInv, KeptInv, CopyInv, NEW m \in Imports,
           ImportStart(m) \/ ImportAppend(m) \/ ImportFinish(m) \/ ImportFails(m)
    PROVE  CopyInv'
<1> PICK U : Typed(U)
  BY DEF WritersInv
<1> DEFINE c == call[m]
           i == c.at
           n == c.name
           row == rows[i][n]
<1>1. i \in Instances /\ n \in Names /\ OneWriter
  BY DEF WritersInv, Typed
<1>2. /\ RowKept(row, n) /\ CallKept(c, rows)
      /\ \A o \in Imports : CallFaithful(call[o], rows)
  BY <1>1 DEF CopyInv, KeptInv
<1>3. ASSUME Reply(m, "error"), UNCHANGED rows
      PROVE  CopyInv'
  <2>1. call'[m].pc = "error" /\ \A o \in Imports : o # m => call'[o] = call[o]
    BY <1>3, CallIs
  <2>2. CallFaithful(call'[m], rows)
    BY <2>1 DEF CallFaithful
  <2> QED
    BY <1>2, <1>3, <2>1, <2>2 DEF CopyInv
<1>4. ASSUME NEW r, SetRow(i, n, r), NEW p, Reply(m, p),
             Writes(m, i, n) \/ row.status = "absent", p # "checked",
             p \in {"started", "appended"} =>
                /\ \E k : Whole(c.file, k)
                /\ Copies(c.file, c.events, Len(c.file)),
             p = "appended" => r.events = {Clean(e) : e \in Range(c.events)},
             p = "imported" =>
                /\ r.status = "completed" /\ CopyOf(c.file, r.events)
                /\ Correlated(c.file) = c.file => Shape(Ordered(r.events)) = Shape(c.file)
      PROVE  CopyInv'
  <2>1. \A o \in Imports : o # m => ~ Writes(o, i, n)
    BY <1>1, <1>4 DEF OneWriter
  <2>2. row.status # "completed"
    BY <1>1, <1>4 DEF OneWriter
  <2>3. rows'[i][n] = r /\ \A o \in Imports : o # m => CallFaithful(call[o], rows')
    BY <1>1, <1>4, <2>1, <2>2, ElsewhereFaithful DEF SetRow, Typed
  <2>4. /\ call'[m].pc = p /\ call'[m].at = i /\ call'[m].name = n
        /\ call'[m].events = c.events /\ call'[m].file = c.file
        /\ \A o \in Imports : o # m => call'[o] = call[o]
    BY <1>4, CallIs
  <2>5. CallFaithful(call'[m], rows')
    BY <1>4, <2>3, <2>4 DEF CallFaithful
  <2> QED
    BY <2>3, <2>4, <2>5 DEF CopyInv
<1>5. c.pc \in {"checked", "started", "appended"} =>
         /\ \E k : Whole(c.file, k)
         /\ Copies(c.file, c.events, Len(c.file))
         /\ Whole(c.events, n)
  BY <1>2 DEF CallFaithful, CallKept
<1>6. CASE ImportStart(m)
  <2>1. CASE StartRecording(i, n) /\ Reply(m, "started")
    <3>1. /\ row.status = "absent" /\ c.pc = "checked"
          /\ SetRow(i, n, [Absent EXCEPT !.status = "recording"])
      BY <1>6, <2>1 DEF StartRecording, ImportStart
    <3> HIDE DEF c
    <3> QED
      BY <1>4, <1>5, <2>1, <3>1
  <2>2. CASE Reply(m, "error") /\ UNCHANGED rows
    BY <1>3, <2>2
  <2> QED
    BY <1>6, <2>1, <2>2 DEF ImportStart
<1>7. CASE ImportAppend(m)
  <2> DEFINE E == {Clean(x) : x \in Range(c.events)}
             r == [status |-> row.status, events |-> row.events \cup E, blob |-> row.blob]
  <2>1. c.pc = "started" /\ Reply(m, "appended")
        /\ SetRow(i, n, [row EXCEPT !.events = @ \union E])
    BY <1>7 DEF ImportAppend, AppendEvents
  <2>2. Writes(m, i, n) /\ row.events = {}
    BY <1>2, <2>1 DEF Writes, CallKept
  <2>3. SetRow(i, n, r)
    <3>1. row = [status |-> row.status, events |-> row.events, blob |-> row.blob]
      BY <1>1, RowIs
    <3> HIDE DEF row, E
    <3>2. [row EXCEPT !.events = row.events \cup E] = r
      BY <3>1, RowWith
    <3> QED
      BY <2>1, <3>2
  <2>4. r.events = E
    BY <2>2
  <2> HIDE DEF r, c
  <2> QED
    BY <1>4, <1>5, <2>1, <2>2, <2>3, <2>4
<1> DEFINE C == Correlated(Ordered(row.events))
<1>8. CASE ImportFinish(m)
  <2> DEFINE r == [status |-> "completed", events |-> Range(C), blob |-> C]
  <2>1. c.pc = "appended" /\ Writes(m, i, n) /\ Reply(m, "imported") /\ SetRow(i, n, r)
    BY <1>8 DEF ImportFinish, FinishRecording, Writes
  <2>2. PICK k : Whole(c.file, k)
    BY <1>5, <2>1
  <2>3. /\ Copies(c.file, c.events, Len(c.file)) /\ Whole(c.events, n)
        /\ row.events = {Clean(e) : e \in Range(c.events)}
    BY <1>2, <1>5, <2>1 DEF CallFaithful
  <2>4. Kept(row.events, n) /\ Kept(Range(C), n)
    BY <1>2, FinishedIs DEF RowKept
  <2>5. Holds(row.events, c.events)
    BY <2>3, StoredHolds
  <2>6. Holds(Range(C), c.events)
    BY <2>4, <2>5, FinishedHolds
  <2>7. CopyOf(c.file, Range(C))
    BY <2>2, <2>3, <2>4, <2>6, HoldsCopy
  <2>8. Correlated(c.file) = c.file => Shape(Ordered(Range(C))) = Shape(c.file)
    BY <2>2, <2>3, FinishedShape
  <2>9. r.status = "completed" /\ r.events = Range(C)
    OBVIOUS
  <2> HIDE DEF r, c, C
  <2> QED
    BY <1>4, <2>1, <2>7, <2>8, <2>9
<1>9. CASE ImportFails(m)
  <2>1. CASE UNCHANGED rows
    BY <1>3, <1>9, <2>1 DEF ImportFails
  <2>2. CASE c.pc = "appended" /\ FinishFails(i, n)
    <3>1. Writes(m, i, n) /\ Reply(m, "error") /\ SetRow(i, n, [row EXCEPT !.blob = C])
      BY <1>9, <2>2 DEF ImportFails, FinishFails, Writes
    <3> HIDE DEF c
    <3> QED
      BY <1>4, <3>1
  <2> QED
    BY <1>9, <2>1, <2>2 DEF ImportFails
<1> QED
  BY <1>6, <1>7, <1>8, <1>9

\* An import that succeeds has stored all of its file, whatever was in it, each event
\* once and linked as before, under whatever name, and a file in order in that order;
\* and it stays so.
THEOREM CopyFaithfulAlways == Spec => []CopyFaithful
<1>1. Init => CopyInv
  BY DEF Init, CopyInv, CallFaithful, Idle
<1>2. WritersInv /\ KeptInv /\ CopyInv /\ [Next]_vars => CopyInv'
  <2> SUFFICES ASSUME WritersInv, KeptInv, CopyInv, [Next]_vars PROVE CopyInv'
    OBVIOUS
  <2>1. CASE UNCHANGED vars
    BY <2>1 DEF vars, CopyInv
  <2> QED
    BY <2>1, CaptureFaithful, ReadingFaithful, ImportFaithful DEF Next
<1>3. CopyInv => CopyFaithful
  BY DEF CopyInv, CallFaithful, CopyFaithful
<1> QED
  BY <1>1, <1>2, <1>3, KeptAlways, PTL DEF Spec
=============================================================================
