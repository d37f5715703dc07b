-------------------------- MODULE CorrelateProofs --------------------------
(***************************************************************************)
(* What Correlate computes, for any events: its result is the one order of *)
(* the events in which the groups and the events of each group follow the  *)
(* wall clock, numbered from 0, with the missing parents filled in.        *)
(***************************************************************************)
EXTENDS Correlate, FiniteSetTheorems, FunctionTheorems, TLAPS

-----------------------------------------------------------------------------
(* Ranking *)

\* R orders the elements of D.
TotalOrder(R, D) ==
    /\ \A x \in D : <<x, x>> \in R
    /\ \A x, y \in D : <<x, y>> \in R \/ <<y, x>> \in R
    /\ \A x, y \in D : <<x, y>> \in R /\ <<y, x>> \in R => x = y
    /\ \A x, y, z \in D : <<x, y>> \in R /\ <<y, z>> \in R => <<x, z>> \in R

UpTo(R, D, x) == {y \in D : <<y, x>> \in R}

\* o lists the elements of D, each once.
Enumerates(o, D) ==
    /\ o \in [1 .. Cardinality(D) -> D]
    /\ \A j, k \in 1 .. Cardinality(D) : o[j] = o[k] => j = k
    /\ \A x \in D : \E k \in 1 .. Cardinality(D) : o[k] = x

\* o lists the elements of D as R orders them.
Lists(o, R, D) ==
    /\ Enumerates(o, D)
    /\ \A j, k \in 1 .. Cardinality(D) : <<o[j], o[k]>> \in R <=> j <= k

LEMMA BijectionMeans ==
    ASSUME NEW S, NEW T, NEW f
    PROVE  f \in Bijection(S, T) <=>
              /\ f \in [S -> T]
              /\ \A x, y \in S : f[x] = f[y] => x = y
              /\ \A y \in T : \E x \in S : f[x] = y
  BY DEF Bijection, Injection, Surjection, IsInjective

LEMMA RankGrows ==
    ASSUME NEW D, IsFiniteSet(D), NEW R, TotalOrder(R, D), NEW x \in D, NEW y \in D
    PROVE  /\ Cardinality(UpTo(R, D, x)) \in 1 .. Cardinality(D)
           /\ x # y /\ <<x, y>> \in R =>
                 Cardinality(UpTo(R, D, x)) < Cardinality(UpTo(R, D, y))
<1>1. UpTo(R, D, x) \in SUBSET D /\ UpTo(R, D, y) \in SUBSET D
  BY DEF UpTo
<1>2. x \in UpTo(R, D, x)
  BY DEF UpTo, TotalOrder
<1>3. /\ IsFiniteSet(UpTo(R, D, x)) /\ IsFiniteSet(UpTo(R, D, y))
      /\ Cardinality(UpTo(R, D, x)) <= Cardinality(D)
  BY <1>1, FS_Subset
<1>4. /\ Cardinality(UpTo(R, D, x)) \in Nat /\ Cardinality(UpTo(R, D, y)) \in Nat
      /\ Cardinality(D) \in Nat
  BY <1>3, FS_CardinalityType
<1>5. Cardinality(UpTo(R, D, x)) # 0
  BY <1>2, <1>3, FS_EmptySet
<1>6. ASSUME x # y, <<x, y>> \in R
      PROVE  Cardinality(UpTo(R, D, x)) < Cardinality(UpTo(R, D, y))
  <2>1. UpTo(R, D, x) \in SUBSET UpTo(R, D, y)
    BY <1>6 DEF UpTo, TotalOrder
  <2>2. y \in UpTo(R, D, y) /\ y \notin UpTo(R, D, x)
    BY <1>6 DEF UpTo, TotalOrder
  <2>3. /\ Cardinality(UpTo(R, D, x)) <= Cardinality(UpTo(R, D, y))
        /\ Cardinality(UpTo(R, D, y)) # Cardinality(UpTo(R, D, x))
    BY <1>3, <2>1, <2>2, FS_Subset
  <2> QED
    BY <1>4, <2>3
<1> QED
  BY <1>3, <1>4, <1>5, <1>6

\* Ranked lists the elements in the order their ranks come from.
LEMMA RankCounts ==
    ASSUME NEW D, IsFiniteSet(D), NEW R, TotalOrder(R, D),
           NEW rank, rank = [x \in D |-> Cardinality(UpTo(R, D, x))]
    PROVE  /\ rank \in [D -> 1 .. Cardinality(D)]
           /\ \A x, y \in D : x # y /\ <<x, y>> \in R => rank[x] < rank[y]
           /\ \A x, y \in D : rank[x] = rank[y] => x = y
           /\ \A k \in 1 .. Cardinality(D) : \E x \in D : rank[x] = k
<1> DEFINE n == Cardinality(D)
<1>1. n \in Nat /\ Cardinality(1 .. n) = n /\ IsFiniteSet(1 .. n)
  BY FS_CardinalityType, FS_Interval
<1>2. rank \in [D -> 1 .. n]
  BY RankGrows
<1>3. \A x, y \in D : x # y /\ <<x, y>> \in R => rank[x] < rank[y]
  BY RankGrows
<1>4. \A x, y \in D : rank[x] = rank[y] => x = y
  <2> SUFFICES ASSUME NEW x \in D, NEW y \in D, x # y PROVE rank[x] # rank[y]
    OBVIOUS
  <2>1. rank[x] \in 1 .. n /\ rank[y] \in 1 .. n
    BY <1>2
  <2>2. rank[x] < rank[y] \/ rank[y] < rank[x]
    BY <1>3 DEF TotalOrder
  <2> QED
    BY <1>1, <2>1, <2>2
<1>5. rank \in Injection(D, 1 .. n)
  BY <1>2, <1>4, Fun_IsInj
<1>6. \A k \in 1 .. n : \E x \in D : rank[x] = k
  <2>1. rank \in Surjection(D, 1 .. n)
    BY <1>1, <1>5, FS_Injection
  <2> QED
    BY <2>1 DEF Surjection
<1> QED
  BY <1>2, <1>3, <1>4, <1>6

LEMMA RankedLists ==
    ASSUME NEW D, IsFiniteSet(D), NEW R, TotalOrder(R, D),
           NEW rank, rank = [x \in D |-> Cardinality(UpTo(R, D, x))]
    PROVE  Lists(Ranked(rank), R, D)
<1> DEFINE n == Cardinality(D)
           o == Ranked(rank)
<1>1. n \in Nat
  BY FS_CardinalityType
<1>2. DOMAIN rank = D
  OBVIOUS
<1>3. rank \in [D -> 1 .. n]
  BY RankCounts
<1>4. \A x, y \in D : x # y /\ <<x, y>> \in R => rank[x] < rank[y]
  BY RankCounts
<1>5. \A x, y \in D : rank[x] = rank[y] => x = y
  BY RankCounts
<1>6. \A k \in 1 .. n : \E x \in D : rank[x] = k
  BY RankCounts
<1>7. o = [k \in 1 .. n |-> CHOOSE x \in D : rank[x] = k]
  BY <1>2 DEF Ranked
<1> HIDE DEF o, n
<1>8. \A k \in 1 .. n : o[k] \in D /\ rank[o[k]] = k
  BY <1>6, <1>7
<1>9. o \in [1 .. n -> D]
  BY <1>7, <1>8
<1>10. \A x \in D : o[rank[x]] = x
  BY <1>3, <1>5, <1>8
<1>11. Enumerates(o, D)
  <2>1. \A j, k \in 1 .. n : o[j] = o[k] => j = k
    BY <1>8
  <2>2. \A x \in D : \E k \in 1 .. n : o[k] = x
    BY <1>3, <1>10
  <2> QED
    BY <1>9, <2>1, <2>2 DEF Enumerates, n
<1>12. ASSUME NEW j \in 1 .. n, NEW k \in 1 .. n
       PROVE  <<o[j], o[k]>> \in R <=> j <= k
  <2>1. o[j] \in D /\ o[k] \in D /\ rank[o[j]] = j /\ rank[o[k]] = k
    BY <1>8
  <2>2. CASE j = k
    BY <1>1, <2>1, <2>2 DEF TotalOrder
  <2>3. CASE j # k
    <3>1. o[j] # o[k]
      BY <2>1, <2>3
    <3>2. <<o[j], o[k]>> \in R => j < k
      BY <1>4, <2>1, <3>1
    <3>3. <<o[k], o[j]>> \in R => k < j
      BY <1>4, <2>1, <3>1
    <3>4. <<o[j], o[k]>> \in R \/ <<o[k], o[j]>> \in R
      BY <2>1 DEF TotalOrder
    <3> QED
      BY <1>1, <3>2, <3>3, <3>4
  <2> QED
    BY <2>2, <2>3
<1> QED
  BY <1>11, <1>12 DEF Lists, n, o

\* Only one listing is in a given order.
LEMMA ListsUnique ==
    ASSUME NEW D, IsFiniteSet(D), NEW R,
           NEW o, Lists(o, R, D), NEW p, Lists(p, R, D)
    PROVE  o = p
<1> DEFINE n == Cardinality(D)
<1>1. n \in Nat
  BY FS_CardinalityType
<1> HIDE DEF n
<1>2. ASSUME NEW q, Lists(q, R, D), NEW k \in 1 .. n
      PROVE  q[k] \in D /\ Cardinality(UpTo(R, D, q[k])) = k
  <2>1. /\ q \in [1 .. n -> D]
        /\ \A a, b \in 1 .. n : q[a] = q[b] => a = b
        /\ \A x \in D : \E a \in 1 .. n : q[a] = x
    BY <1>2 DEF Lists, Enumerates, n
  <2>2. \A a, b \in 1 .. n : <<q[a], q[b]>> \in R <=> a <= b
    BY <1>2 DEF Lists, n
  <2> DEFINE f == [a \in 1 .. k |-> q[a]]
             U == UpTo(R, D, q[k])
  <2>3. \A a \in 1 .. k : a \in 1 .. n
    BY <1>1
  <2>4. f \in [1 .. k -> U]
    BY <2>1, <2>2, <2>3 DEF UpTo
  <2>5. \A a, b \in 1 .. k : f[a] = f[b] => a = b
    BY <2>1, <2>3
  <2>6. \A x \in U : \E a \in 1 .. k : f[a] = x
    <3> SUFFICES ASSUME NEW x \in U PROVE \E a \in 1 .. k : f[a] = x
      OBVIOUS
    <3>1. x \in D /\ <<x, q[k]>> \in R
      BY DEF UpTo
    <3>2. PICK a \in 1 .. n : q[a] = x
      BY <2>1, <3>1
    <3>3. a <= k
      BY <2>2, <3>1, <3>2
    <3> QED
      BY <1>1, <3>2, <3>3
  <2>7. f \in Bijection(1 .. k, U)
    BY <2>4, <2>5, <2>6, BijectionMeans
  <2>8. IsFiniteSet(1 .. k) /\ Cardinality(1 .. k) = k
    BY <1>1, FS_Interval
  <2>9. Cardinality(U) = k
    BY <2>7, <2>8, FS_Bijection DEF ExistsBijection
  <2> QED
    BY <2>1, <2>9
<1>3. /\ p \in [1 .. n -> D] /\ o \in [1 .. n -> D]
      /\ \A x \in D : \E a \in 1 .. n : p[a] = x
  BY DEF Lists, Enumerates, n
<1>4. ASSUME NEW k \in 1 .. n
      PROVE  o[k] = p[k]
  <2>1. PICK a \in 1 .. n : p[a] = o[k]
    BY <1>3
  <2>2. Cardinality(UpTo(R, D, o[k])) = k
    BY <1>2
  <2>3. Cardinality(UpTo(R, D, p[a])) = a
    BY <1>2
  <2> QED
    BY <2>1, <2>2, <2>3
<1>5. o = [k \in 1 .. n |-> o[k]] /\ p = [k \in 1 .. n |-> p[k]]
  BY <1>3
<1> QED
  BY <1>4, <1>5

LEMMA LeastExists ==
    ASSUME NEW S \in SUBSET Nat, S # {}
    PROVE  \E m \in S : \A k \in S : m <= k
<1> DEFINE LT == {ss \in Nat \X Nat : ss[1] < ss[2]}
<1>1. OpToRel(<, Nat) = LT
  BY Zenon DEF OpToRel
<1>2. IsWellFoundedOn(LT, Nat)
  BY Zenon, <1>1, NatLessThanWellFounded
<1> HIDE DEF LT
<1>3. PICK x \in S : \A y \in S : <<y, x>> \notin LT
  BY <1>2, WFMin
<1>4. ASSUME NEW y \in S
      PROVE  x <= y
  <2>1. x \in Nat /\ y \in Nat
    OBVIOUS
  <2>2. ~ (y < x)
    BY <1>3, <2>1 DEF LT
  <2> QED
    BY <2>1, <2>2
<1> QED
  BY <1>4

-----------------------------------------------------------------------------
(* Picking, sorting and joining sequences *)

\* A listing of integers that is ascending.
Ascending(o, I) ==
    /\ Enumerates(o, I)
    /\ \A j, k \in 1 .. Cardinality(I) : o[j] <= o[k] <=> j <= k

LEMMA PickLists ==
    ASSUME NEW s, NEW I \in SUBSET Int, IsFiniteSet(I)
    PROVE  \E o : /\ Ascending(o, I)
                  /\ Pick(s, I) = [k \in 1 .. Cardinality(I) |-> s[o[k]]]
<1> DEFINE R == {p \in I \X I : p[1] <= p[2]}
           rank == [i \in I |-> Cardinality({j \in I : j <= i})]
           o == Ranked(rank)
<1>1. \A i, j \in I : <<j, i>> \in R <=> j <= i
  OBVIOUS
<1>2. \A i \in I : UpTo(R, I, i) = {j \in I : j <= i}
  BY <1>1 DEF UpTo
<1>3. rank = [i \in I |-> Cardinality(UpTo(R, I, i))]
  BY <1>2
<1>4. TotalOrder(R, I)
  <2> HIDE DEF R
  <2> QED
    BY <1>1 DEF TotalOrder
<1> HIDE DEF R
<1>5. Lists(o, R, I)
  BY <1>3, <1>4, RankedLists
<1>6. Pick(s, I) = [k \in DOMAIN o |-> s[o[k]]]
  BY DEF Pick
<1> HIDE DEF o
<1>7. DOMAIN o = 1 .. Cardinality(I) /\ \A k \in 1 .. Cardinality(I) : o[k] \in I
  BY <1>5 DEF Lists, Enumerates
<1>8. Ascending(o, I)
  BY <1>1, <1>5, <1>7 DEF Lists, Ascending
<1> QED
  BY <1>6, <1>7, <1>8

\* What correlation reads of an event.
Row(e) ==
    /\ e = [x \in DOMAIN e |-> e[x]]
    /\ {"id", "corr", "ts", "seq", "type", "parent"} \subseteq DOMAIN e
    /\ e.ts \in Int /\ e.seq \in Int

LEMMA BeforeIsOrder ==
    ASSUME NEW a, Row(a), NEW b, Row(b), NEW c, Row(c)
    PROVE  /\ ~ (Before(a, b) /\ Before(b, a)) /\ ~ Before(a, a)
           /\ ~ Before(a, b) /\ ~ Before(b, c) => ~ Before(a, c)
           /\ Before(a, b) /\ Before(b, c) => Before(a, c)
           /\ Before(a, b) /\ ~ Before(c, b) => Before(a, c)
           /\ ~ Before(b, a) /\ Before(b, c) => Before(a, c)
           /\ ~ Before(a, b) /\ ~ Before(b, a) => a.ts = b.ts /\ a.seq = b.seq
  BY DEF Before, Row

\* o lists 1, ..., n as their keys follow the wall clock.
Sorts(o, n, key) ==
    /\ o \in [1 .. n -> 1 .. n]
    /\ \A j, k \in 1 .. n : o[j] = o[k] => j = k
    /\ \A i \in 1 .. n : \E k \in 1 .. n : o[k] = i
    /\ \A j, k \in 1 .. n : j <= k => ~ Before(key[o[k]], key[o[j]])

LEMMA SortLists ==
    ASSUME NEW n \in Nat, NEW key, \A i \in 1 .. n : Row(key[i]),
           NEW rank, rank = [i \in 1 .. n |-> Cardinality({j \in 1 .. n :
               Before(key[j], key[i]) \/ (~ Before(key[i], key[j]) /\ j <= i)})]
    PROVE  Sorts(Ranked(rank), n, key)
<1> DEFINE D == 1 .. n
           First(i, j) == Before(key[i], key[j]) \/ (~ Before(key[j], key[i]) /\ i <= j)
           R == {p \in D \X D : First(p[1], p[2])}
           o == Ranked(rank)
<1>1. \A i, j \in D : <<i, j>> \in R <=> First(i, j)
  OBVIOUS
<1>2. \A i \in D : UpTo(R, D, i) = {j \in D : First(j, i)}
  BY <1>1 DEF UpTo
<1>3. rank = [i \in D |-> Cardinality(UpTo(R, D, i))]
  BY <1>2
<1>4. IsFiniteSet(D) /\ Cardinality(D) = n
  BY FS_Interval
<1> HIDE DEF R
<1>5. TotalOrder(R, D)
  <2>1. \A x \in D : <<x, x>> \in R
    BY <1>1
  <2>2. ASSUME NEW x \in D, NEW y \in D
        PROVE  <<x, y>> \in R \/ <<y, x>> \in R
    <3>1. x <= y \/ y <= x
      OBVIOUS
    <3>2. ~ (Before(key[x], key[y]) /\ Before(key[y], key[x]))
      BY BeforeIsOrder
    <3>3. First(x, y) \/ First(y, x)
      BY <3>1, <3>2
    <3> QED
      BY <1>1, <3>3
  <2>3. \A x, y \in D : <<x, y>> \in R /\ <<y, x>> \in R => x = y
    BY <1>1, BeforeIsOrder
  <2>4. ASSUME NEW x \in D, NEW y \in D, NEW z \in D, <<x, y>> \in R, <<y, z>> \in R
        PROVE  <<x, z>> \in R
    <3>1. Row(key[x]) /\ Row(key[y]) /\ Row(key[z])
      OBVIOUS
    <3>2. First(x, y) /\ First(y, z)
      BY <1>1, <2>4
    <3>3. First(x, z)
      BY <3>1, <3>2, BeforeIsOrder
    <3> QED
      BY <1>1, <3>3
  <2> QED
    BY <2>1, <2>2, <2>3, <2>4 DEF TotalOrder
<1>6. Lists(o, R, D)
  BY <1>3, <1>4, <1>5, RankedLists
<1> HIDE DEF o
<1>7. Enumerates(o, D) /\ \A j, k \in D : <<o[j], o[k]>> \in R <=> j <= k
  BY <1>4, <1>6 DEF Lists
<1>8. /\ o \in [D -> D] /\ \A j, k \in D : o[j] = o[k] => j = k
      /\ \A i \in D : \E k \in D : o[k] = i
  BY <1>4, <1>7 DEF Enumerates
<1>9. ASSUME NEW j \in D, NEW k \in D, j <= k
      PROVE  ~ Before(key[o[k]], key[o[j]])
  <2>1. o[j] \in D /\ o[k] \in D
    BY <1>8
  <2>2. First(o[j], o[k])
    BY <1>1, <1>7, <1>9, <2>1
  <2>3. Row(key[o[j]]) /\ Row(key[o[k]])
    BY <2>1
  <2> QED
    BY <2>2, <2>3, BeforeIsOrder
<1> QED
  BY <1>8, <1>9 DEF Sorts, o

Places(seqs) == UNION {{<<a, x>> : x \in DOMAIN seqs[a]} : a \in DOMAIN seqs}

NotAfter(p, q) == p[1] < q[1] \/ (p[1] = q[1] /\ p[2] <= q[2])

LEMMA FlattenedLists ==
    ASSUME NEW seqs, IsFiniteSet(Places(seqs)),
           DOMAIN seqs \subseteq Int, \A a \in DOMAIN seqs : DOMAIN seqs[a] \subseteq Int
    PROVE  \E at :
              /\ Enumerates(at, Places(seqs))
              /\ \A j, k \in 1 .. Cardinality(Places(seqs)) :
                    NotAfter(at[j], at[k]) <=> j <= k
              /\ Flattened(seqs) =
                    [k \in 1 .. Cardinality(Places(seqs)) |-> seqs[at[k][1]][at[k][2]]]
<1> DEFINE D == Places(seqs)
           R == {p \in D \X D : NotAfter(p[1], p[2])}
           rank == [p \in D |-> Cardinality({q \in D : NotAfter(q, p)})]
           o == Ranked(rank)
<1>1. \A i, j \in D : <<j, i>> \in R <=> NotAfter(j, i)
  OBVIOUS
<1>2. \A i \in D : UpTo(R, D, i) = {j \in D : NotAfter(j, i)}
  BY <1>1 DEF UpTo
<1>3. rank = [i \in D |-> Cardinality(UpTo(R, D, i))]
  BY <1>2
<1>4. \A p \in D : p = <<p[1], p[2]>> /\ p[1] \in Int /\ p[2] \in Int
  BY DEF Places
<1>5. Flattened(seqs) = [k \in DOMAIN o |-> seqs[o[k][1]][o[k][2]]]
  BY DEF Flattened, Places, NotAfter
<1> HIDE DEF R, D
<1>6. TotalOrder(R, D)
  BY <1>1, <1>4 DEF TotalOrder, NotAfter
<1>7. Lists(o, R, D)
  BY <1>3, <1>6, RankedLists DEF D
<1> HIDE DEF o
<1>8. DOMAIN o = 1 .. Cardinality(D) /\ \A k \in 1 .. Cardinality(D) : o[k] \in D
  BY <1>7 DEF Lists, Enumerates
<1>9. \A j, k \in 1 .. Cardinality(D) : NotAfter(o[j], o[k]) <=> j <= k
  BY <1>1, <1>7, <1>8 DEF Lists
<1>10. Enumerates(o, D)
  BY <1>7 DEF Lists
<1> QED
  BY <1>5, <1>8, <1>9, <1>10 DEF D

-----------------------------------------------------------------------------
(* The groups *)

\* g lists the events of S with correlation id c in wall-clock order.
IsGroup(g, n, S, c) ==
    /\ g \in [1 .. n -> S]
    /\ \A j, k \in 1 .. n : g[j] = g[k] => j = k
    /\ \A k \in 1 .. n : g[k].corr = c
    /\ \A e \in S : e.corr = c => \E k \in 1 .. n : g[k] = e
    /\ \A j, k \in 1 .. n : j <= k => ~ Before(g[k], g[j])

LEMMA GroupIs ==
    ASSUME NEW S, IsFiniteSet(S), \A e \in S : Row(e),
           NEW events, Enumerates(events, S), NEW c
    PROVE  \E n \in Nat : IsGroup(Group(events, c), n, S, c)
<1> DEFINE N == Cardinality(S)
           I == {i \in 1 .. N : events[i].corr = c}
           n == Cardinality(I)
           P == Pick(events, I)
<1>1. N \in Nat /\ IsFiniteSet(1 .. N)
  BY FS_CardinalityType, FS_Interval
<1>2. /\ events \in [1 .. N -> S] /\ DOMAIN events = 1 .. N
      /\ \A j, k \in 1 .. N : events[j] = events[k] => j = k
      /\ \A e \in S : \E k \in 1 .. N : events[k] = e
  BY DEF Enumerates
<1>3. I \in SUBSET (1 .. N) /\ I \in SUBSET Int
  BY <1>1
<1>4. n \in Nat /\ IsFiniteSet(I)
  BY <1>1, <1>3, FS_Subset, FS_CardinalityType
<1>5. PICK o : Ascending(o, I) /\ P = [k \in 1 .. n |-> events[o[k]]]
  BY <1>3, <1>4, PickLists
<1>6. Group(events, c) = StableSort(P, Before)
  BY <1>2 DEF Group
<1>7. \A i \in I : i \in 1 .. N /\ events[i].corr = c
  OBVIOUS
<1>8. \A e \in S : e.corr = c => \E i \in I : events[i] = e
  BY <1>2
<1> HIDE DEF I, P, n, N
<1>9. /\ o \in [1 .. n -> I] /\ \A j, k \in 1 .. n : o[j] = o[k] => j = k
      /\ \A i \in I : \E k \in 1 .. n : o[k] = i
  BY <1>5 DEF Ascending, Enumerates, n
<1>10. /\ P \in [1 .. n -> S] /\ \A j, k \in 1 .. n : P[j] = P[k] => j = k
       /\ \A k \in 1 .. n : P[k].corr = c
       /\ \A e \in S : e.corr = c => \E k \in 1 .. n : P[k] = e
  <2>1. \A k \in 1 .. n : P[k] = events[o[k]] /\ o[k] \in I
    BY <1>5, <1>9
  <2>2. P \in [1 .. n -> S]
    BY <1>2, <1>5, <1>7, <1>9
  <2>3. \A j, k \in 1 .. n : P[j] = P[k] => j = k
    BY <1>2, <1>7, <1>9, <2>1
  <2>4. \A k \in 1 .. n : P[k].corr = c
    BY <1>7, <2>1
  <2>5. \A e \in S : e.corr = c => \E k \in 1 .. n : P[k] = e
    BY <1>8, <1>9, <2>1
  <2> QED
    BY <2>2, <2>3, <2>4, <2>5
<1> DEFINE rank == [i \in 1 .. n |-> Cardinality({j \in 1 .. n :
                       Before(P[j], P[i]) \/ (~ Before(P[i], P[j]) /\ j <= i)})]
           q == Ranked(rank)
           g == [k \in 1 .. n |-> P[q[k]]]
<1>11. \A i \in 1 .. n : Row(P[i])
  BY <1>10
<1>12. /\ DOMAIN q = 1 .. n /\ q \in [1 .. n -> 1 .. n]
       /\ \A j, k \in 1 .. n : q[j] = q[k] => j = k
       /\ \A i \in 1 .. n : \E k \in 1 .. n : q[k] = i
       /\ \A j, k \in 1 .. n : j <= k => ~ Before(P[q[k]], P[q[j]])
  <2> HIDE DEF q, rank
  <2>1. rank = [i \in 1 .. n |-> Cardinality({j \in 1 .. n :
                  Before(P[j], P[i]) \/ (~ Before(P[i], P[j]) /\ j <= i)})]
    BY DEF rank
  <2>2. Sorts(q, n, P)
    BY <1>4, <1>11, <2>1, SortLists DEF q
  <2> QED
    BY <2>2 DEF Sorts
<1>13. Group(events, c) = g
  <2>1. DOMAIN P = 1 .. n
    BY <1>10
  <2>2. StableSort(P, Before) = [k \in DOMAIN q |-> P[q[k]]]
    BY <2>1 DEF StableSort
  <2> QED
    BY <1>6, <1>12, <2>2
<1> HIDE DEF q
<1>14. IsGroup(g, n, S, c)
  <2>1. g \in [1 .. n -> S]
    BY <1>10, <1>12
  <2>2. \A k \in 1 .. n : g[k] = P[q[k]] /\ q[k] \in 1 .. n
    BY <1>12
  <2> HIDE DEF g
  <2>3. \A j, k \in 1 .. n : g[j] = g[k] => j = k
    BY <1>10, <1>12, <2>2
  <2>4. \A k \in 1 .. n : g[k].corr = c
    BY <1>10, <2>2
  <2>5. \A e \in S : e.corr = c => \E k \in 1 .. n : g[k] = e
    BY <1>10, <1>12, <2>2
  <2>6. ASSUME NEW j \in 1 .. n, NEW k \in 1 .. n, j <= k
        PROVE  ~ Before(g[k], g[j])
    <3>1. ~ Before(P[q[k]], P[q[j]])
      BY <1>12, <2>6
    <3> QED
      BY <2>2, <3>1
  <2> QED
    BY <2>1, <2>3, <2>4, <2>5, <2>6 DEF IsGroup
<1> QED
  BY <1>4, <1>13, <1>14

\* G lists the groups of S, the a-th of size[a] events with correlation id c[a], by
\* their first events.
Grouped(G, m, size, c, S) ==
    /\ m \in Nat /\ size \in [1 .. m -> Nat \ {0}] /\ DOMAIN G = 1 .. m
    /\ \A a \in 1 .. m : IsGroup(G[a], size[a], S, c[a])
    /\ \A a, b \in 1 .. m : c[a] = c[b] => a = b
    /\ \A e \in S : \E a \in 1 .. m : c[a] = e.corr
    /\ \A a, b \in 1 .. m : a <= b => ~ Before(G[b][1], G[a][1])

LEMMA ArrivedIs ==
    ASSUME NEW S, IsFiniteSet(S), \A e \in S : Row(e),
           NEW events, Enumerates(events, S)
    PROVE  \E m \in Nat : \E c :
              /\ Arrived(events) = [a \in 1 .. m |-> Group(events, c[a])]
              /\ \A a, b \in 1 .. m : c[a] = c[b] => a = b
              /\ \A a \in 1 .. m : \E e \in S : c[a] = e.corr
              /\ \A e \in S : \E a \in 1 .. m : c[a] = e.corr
<1> DEFINE N == Cardinality(S)
           L == {i \in 1 .. N : \A j \in 1 .. i - 1 : events[j].corr # events[i].corr}
           m == Cardinality(L)
           F == [i \in 1 .. N |-> Group(events, events[i].corr)]
<1>1. N \in Nat /\ IsFiniteSet(1 .. N)
  BY FS_CardinalityType, FS_Interval
<1>2. /\ events \in [1 .. N -> S] /\ DOMAIN events = 1 .. N
      /\ \A e \in S : \E k \in 1 .. N : events[k] = e
  BY DEF Enumerates
<1>3. L \in SUBSET (1 .. N) /\ L \in SUBSET Int
  BY <1>1
<1>4. m \in Nat /\ IsFiniteSet(L)
  BY <1>1, <1>3, FS_Subset, FS_CardinalityType
<1>5. PICK o : Ascending(o, L) /\ Pick(F, L) = [k \in 1 .. m |-> F[o[k]]]
  BY <1>3, <1>4, PickLists
<1>6. Arrived(events) = Pick(F, L)
  BY <1>2 DEF Arrived
<1>7. \A i, j \in L : events[i].corr = events[j].corr => i = j
  <2> SUFFICES ASSUME NEW i \in L, NEW j \in L, i < j
               PROVE  events[i].corr # events[j].corr
    BY <1>1, <1>3
  <2>1. i \in 1 .. j - 1
    BY <1>1
  <2> QED
    BY <2>1
<1>8. ASSUME NEW e \in S
      PROVE  \E i \in L : events[i].corr = e.corr
  <2> DEFINE W == {i \in 1 .. N : events[i].corr = e.corr}
  <2>1. W # {} /\ W \in SUBSET Nat
    BY <1>1, <1>2
  <2>2. PICK i \in W : \A k \in W : i <= k
    BY <2>1, LeastExists
  <2>3. ASSUME NEW j \in 1 .. i - 1
        PROVE  events[j].corr # events[i].corr
    <3>1. j \in 1 .. N /\ ~ (i <= j)
      BY <1>1
    <3> QED
      BY <2>2, <3>1
  <2>4. i \in L
    BY <2>3
  <2> QED
    BY <2>4
<1>9. \A i \in L : i \in 1 .. N
  OBVIOUS
<1> HIDE DEF L, m, N
<1>10. /\ o \in [1 .. m -> L] /\ \A j, k \in 1 .. m : o[j] = o[k] => j = k
       /\ \A i \in L : \E k \in 1 .. m : o[k] = i
  BY <1>5 DEF Ascending, Enumerates, m
<1> DEFINE c == [a \in 1 .. m |-> events[o[a]].corr]
<1>11. Arrived(events) = [a \in 1 .. m |-> Group(events, c[a])]
  <2>1. \A a \in 1 .. m : F[o[a]] = Group(events, c[a])
    BY <1>9, <1>10
  <2> HIDE DEF F, c
  <2> QED
    BY <1>5, <1>6, <2>1
<1>12. \A a, b \in 1 .. m : c[a] = c[b] => a = b
  BY <1>7, <1>10
<1>13. \A a \in 1 .. m : \E e \in S : c[a] = e.corr
  BY <1>2, <1>9, <1>10
<1>14. \A e \in S : \E a \in 1 .. m : c[a] = e.corr
  BY <1>8, <1>10
<1> HIDE DEF c
<1> QED
  BY <1>4, <1>11, <1>12, <1>13, <1>14

LEMMA GroupsIs ==
    ASSUME NEW S, IsFiniteSet(S), \A e \in S : Row(e),
           NEW events, Enumerates(events, S)
    PROVE  \E m, size, c : Grouped(Groups(events), m, size, c, S)
<1>0. PICK m \in Nat : \E d :
          /\ Arrived(events) = [a \in 1 .. m |-> Group(events, d[a])]
          /\ \A a, b \in 1 .. m : d[a] = d[b] => a = b
          /\ \A a \in 1 .. m : \E e \in S : d[a] = e.corr
          /\ \A e \in S : \E a \in 1 .. m : d[a] = e.corr
  BY ArrivedIs
<1>1. PICK d :
          /\ Arrived(events) = [a \in 1 .. m |-> Group(events, d[a])]
          /\ \A a, b \in 1 .. m : d[a] = d[b] => a = b
          /\ \A a \in 1 .. m : \E e \in S : d[a] = e.corr
          /\ \A e \in S : \E a \in 1 .. m : d[a] = e.corr
  BY <1>0
<1> DEFINE A == Arrived(events)
<1>2. DOMAIN A = 1 .. m /\ \A a \in 1 .. m : A[a] = Group(events, d[a])
  BY <1>1
<1> DEFINE length == [a \in 1 .. m |-> CHOOSE n \in Nat : IsGroup(A[a], n, S, d[a])]
<1>3. \A a \in 1 .. m : length[a] \in Nat /\ IsGroup(A[a], length[a], S, d[a])
  <2> SUFFICES ASSUME NEW a \in 1 .. m
               PROVE  \E n \in Nat : IsGroup(A[a], n, S, d[a])
    OBVIOUS
  <2>1. \E n \in Nat : IsGroup(Group(events, d[a]), n, S, d[a])
    BY GroupIs
  <2> QED
    BY <1>2, <2>1
<1> HIDE DEF A, length
<1>4. \A a \in 1 .. m : length[a] # 0 /\ A[a][1] \in S
  <2> SUFFICES ASSUME NEW a \in 1 .. m PROVE length[a] # 0 /\ A[a][1] \in S
    OBVIOUS
  <2>1. PICK e \in S : d[a] = e.corr
    BY <1>1
  <2>2. /\ A[a] \in [1 .. length[a] -> S] /\ \E k \in 1 .. length[a] : A[a][k] = e
        /\ length[a] \in Nat
    BY <1>3, <2>1 DEF IsGroup
  <2> QED
    BY <2>2
<1> DEFINE key == [a \in 1 .. m |-> A[a][1]]
           rank == [i \in 1 .. m |-> Cardinality({j \in 1 .. m :
                       Before(A[j][1], A[i][1]) \/ (~ Before(A[i][1], A[j][1]) /\ j <= i)})]
           q == Ranked(rank)
<1>5. Sorts(q, m, key)
  <2>1. \A i \in 1 .. m : Row(key[i])
    BY <1>4
  <2>2. rank = [i \in 1 .. m |-> Cardinality({j \in 1 .. m :
                  Before(key[j], key[i]) \/ (~ Before(key[i], key[j]) /\ j <= i)})]
    OBVIOUS
  <2> HIDE DEF q, rank, key
  <2>3. Sorts(Ranked(rank), m, key)
    BY <2>1, <2>2, SortLists
  <2> QED
    BY <2>3 DEF q
<1>6. Groups(events) = [k \in DOMAIN q |-> A[q[k]]]
  BY <1>2 DEF Groups, StableSort, A
<1> HIDE DEF q
<1>7. /\ q \in [1 .. m -> 1 .. m] /\ \A j, k \in 1 .. m : q[j] = q[k] => j = k
      /\ \A i \in 1 .. m : \E k \in 1 .. m : q[k] = i
      /\ \A j, k \in 1 .. m : j <= k => ~ Before(A[q[k]][1], A[q[j]][1])
  <2>1. \A k \in 1 .. m : key[k] = A[k][1]
    OBVIOUS
  <2> HIDE DEF key
  <2>2. /\ q \in [1 .. m -> 1 .. m] /\ \A j, k \in 1 .. m : q[j] = q[k] => j = k
        /\ \A i \in 1 .. m : \E k \in 1 .. m : q[k] = i
        /\ \A j, k \in 1 .. m : j <= k => ~ Before(key[q[k]], key[q[j]])
    BY <1>5 DEF Sorts
  <2>3. ASSUME NEW j \in 1 .. m, NEW k \in 1 .. m, j <= k
        PROVE  ~ Before(A[q[k]][1], A[q[j]][1])
    <3>1. key[q[k]] = A[q[k]][1] /\ key[q[j]] = A[q[j]][1]
      BY <2>1, <2>2
    <3>2. ~ Before(key[q[k]], key[q[j]])
      BY <2>2, <2>3
    <3> QED
      BY <3>1, <3>2
  <2> QED
    BY <2>2, <2>3
<1> DEFINE G == Groups(events)
           size == [a \in 1 .. m |-> length[q[a]]]
           c == [a \in 1 .. m |-> d[q[a]]]
<1>8. G = [a \in 1 .. m |-> A[q[a]]]
  BY <1>6, <1>7
<1>9. \A a \in 1 .. m : /\ G[a] = A[q[a]] /\ size[a] = length[q[a]] /\ c[a] = d[q[a]]
                        /\ q[a] \in 1 .. m
  BY <1>7, <1>8
<1> HIDE DEF G
<1>10. size \in [1 .. m -> Nat \ {0}] /\ DOMAIN G = 1 .. m
  BY <1>3, <1>4, <1>7, <1>8
<1> HIDE DEF size, c
<1>11. ASSUME NEW a \in 1 .. m
       PROVE  IsGroup(G[a], size[a], S, c[a])
  <2>1. IsGroup(A[q[a]], length[q[a]], S, d[q[a]])
    BY <1>3, <1>9
  <2> QED
    BY <1>9, <2>1
<1>12. ASSUME NEW a \in 1 .. m, NEW b \in 1 .. m, c[a] = c[b]
       PROVE  a = b
  <2>1. d[q[a]] = d[q[b]] /\ q[a] \in 1 .. m /\ q[b] \in 1 .. m
    BY <1>9, <1>12
  <2>2. q[a] = q[b]
    BY <1>1, <2>1
  <2> QED
    BY <1>7, <2>2
<1>13. ASSUME NEW e \in S
       PROVE  \E a \in 1 .. m : c[a] = e.corr
  <2>1. PICK b \in 1 .. m : d[b] = e.corr
    BY <1>1
  <2>2. PICK a \in 1 .. m : q[a] = b
    BY <1>7
  <2> QED
    BY <1>9, <2>1, <2>2
<1>14. ASSUME NEW a \in 1 .. m, NEW b \in 1 .. m, a <= b
       PROVE  ~ Before(G[b][1], G[a][1])
  <2>1. ~ Before(A[q[b]][1], A[q[a]][1])
    BY <1>7, <1>14
  <2> QED
    BY <1>9, <2>1
<1>15. Grouped(G, m, size, c, S)
  BY <1>10, <1>11, <1>12, <1>13, <1>14 DEF Grouped
<1> QED
  BY <1>15 DEF G

-----------------------------------------------------------------------------
(* The whole order *)

\* from lists the events of S group by group: the events of a correlation id are
\* neighbours, in wall-clock order, and the groups follow their first events.
IsHead(from, k) == \A j \in 1 .. k - 1 : from[j].corr # from[k].corr

Arranged(from, S) ==
    LET N == Cardinality(S)
    IN /\ Enumerates(from, S)
       /\ \A j, k, l \in 1 .. N :
             j < k /\ k < l /\ from[j].corr = from[l].corr => from[k].corr = from[j].corr
       /\ \A j, k \in 1 .. N :
             j <= k /\ from[j].corr = from[k].corr => ~ Before(from[k], from[j])
       /\ \A j, k \in 1 .. N :
             j <= k /\ IsHead(from, j) /\ IsHead(from, k) => ~ Before(from[k], from[j])

\* The parent the k-th event of from gets if it has none.
ParentAt(from, N, k) ==
    LET mates    == {j \in 1 .. N : from[j].corr = from[k].corr}
        requests == {j \in mates : from[j].type = "http.request"}
        queries  == {j \in mates : j < k /\ from[j].type = "postgres.query"}
        root     == IF requests = {} THEN NoParent
                    ELSE from[CHOOSE j \in requests : \A i \in requests : j <= i].id
    IN CASE from[k].type = "http.request" -> NoParent
         [] from[k].type = "postgres.result" /\ queries # {} ->
               from[CHOOSE j \in queries : \A i \in queries : i <= j].id
         [] OTHER -> root

Parented(from, N, k) ==
    IF from[k].parent # NoParent THEN from[k]
    ELSE [from[k] EXCEPT !.parent = ParentAt(from, N, k)]

Numbered(from, N) == [k \in 1 .. N |-> [Parented(from, N, k) EXCEPT !.seq = k - 1]]

LEMMA GreatestExists ==
    ASSUME NEW n \in Nat, NEW S \in SUBSET (1 .. n), S # {}
    PROVE  \E m \in S : \A k \in S : k <= m
<1> DEFINE T == {n - k : k \in S}
<1>1. \A k \in S : k \in 1 .. n /\ n - k \in Nat
  OBVIOUS
<1>2. PICK t \in T : \A u \in T : t <= u
  <2>1. T \in SUBSET Nat
    BY <1>1
  <2>2. T # {}
    OBVIOUS
  <2> HIDE DEF T
  <2> QED
    BY <2>1, <2>2, LeastExists
<1>3. PICK m \in S : t = n - m
  OBVIOUS
<1>4. ASSUME NEW k \in S
      PROVE  k <= m
  <2>1. n - k \in T /\ k \in 1 .. n /\ m \in 1 .. n
    OBVIOUS
  <2>2. t <= n - k
    BY <1>2, <2>1
  <2> QED
    BY <1>3, <2>1, <2>2
<1> QED
  BY <1>4

\* The n events of the group g stand in from at pos, in the order of the group.
Embeds(pos, g, n, from, N, c) ==
    /\ DOMAIN g = 1 .. n /\ pos \in [1 .. n -> 1 .. N]
    /\ \A y, z \in 1 .. n : pos[y] <= pos[z] <=> y <= z
    /\ \A y \in 1 .. n : from[pos[y]] = g[y] /\ g[y].corr = c
    /\ \A j \in 1 .. N : from[j].corr = c => \E y \in 1 .. n : pos[y] = j

\* A group that stands in a longer order gets the same parents in both.
LEMMA ParentsAgree ==
    ASSUME NEW N \in Nat, NEW from, NEW n \in Nat, NEW g, NEW pos, NEW c,
           Embeds(pos, g, n, from, N, c), NEW x \in 1 .. n
    PROVE  ParentFor(g, x) = ParentAt(from, N, pos[x])
<1>0. /\ DOMAIN g = 1 .. n /\ pos \in [1 .. n -> 1 .. N]
      /\ \A y, z \in 1 .. n : pos[y] <= pos[z] <=> y <= z
      /\ \A y \in 1 .. n : from[pos[y]] = g[y] /\ g[y].corr = c
      /\ \A j \in 1 .. N : from[j].corr = c => \E y \in 1 .. n : pos[y] = j
  BY DEF Embeds
<1> DEFINE k == pos[x]
           mates == {j \in 1 .. N : from[j].corr = from[k].corr}
           requests == {j \in mates : from[j].type = "http.request"}
           queries == {j \in mates : j < k /\ from[j].type = "postgres.query"}
           grequests == {j \in 1 .. n : g[j].type = "http.request"}
           gqueries == {j \in 1 .. x - 1 : g[j].type = "postgres.query"}
           First(R) == CHOOSE j \in R : \A i \in R : j <= i
           Last1(R) == CHOOSE j \in R : \A i \in R : i <= j
           root == IF requests = {} THEN NoParent ELSE from[First(requests)].id
           groot == IF grequests = {} THEN NoParent ELSE g[First(grequests)].id
<1>1. k \in 1 .. N /\ from[k] = g[x] /\ from[k].corr = c
  BY <1>0
<1>2. \A y \in 1 .. n : y \in 1 .. n /\ pos[y] \in mates
  BY <1>0, <1>1
<1>3. \A j \in mates : j \in 1 .. N /\ \E y \in 1 .. n : pos[y] = j
  BY <1>0, <1>1
<1>4. \A y \in 1 .. n : pos[y] \in requests <=> y \in grequests
  BY <1>0, <1>2
<1>5. \A y \in 1 .. n : pos[y] < k <=> y < x
  <2> TAKE y \in 1 .. n
  <2>1. pos[y] \in 1 .. N /\ k \in 1 .. N
    BY <1>0
  <2>2. k <= pos[y] <=> x <= y
    BY <1>0
  <2> QED
    BY <2>1, <2>2
<1>6. \A y \in 1 .. n : y \in 1 .. x - 1 <=> y < x
  OBVIOUS
<1>7. \A y \in 1 .. n : pos[y] \in queries <=> y \in gqueries
  <2> HIDE DEF mates, k
  <2> QED
    BY <1>0, <1>2, <1>5, <1>6
<1>8. gqueries \subseteq 1 .. n /\ grequests \subseteq 1 .. n
  BY <1>0
<1>9. \A j \in requests \cup queries : j \in 1 .. N /\ \E y \in 1 .. n : pos[y] = j
  BY <1>3
<1>10. ParentFor(g, x) = CASE g[x].type = "http.request" -> NoParent
         [] g[x].type = "postgres.result" /\ gqueries # {} -> g[Last1(gqueries)].id
         [] OTHER -> groot
  BY <1>0 DEF ParentFor
<1>11. ParentAt(from, N, k) = CASE from[k].type = "http.request" -> NoParent
         [] from[k].type = "postgres.result" /\ queries # {} -> from[Last1(queries)].id
         [] OTHER -> root
  BY DEF ParentAt
<1> HIDE DEF mates, requests, queries, grequests, gqueries, k
<1>12. root = groot
  <2>1. CASE grequests = {}
    BY <1>4, <1>9, <2>1
  <2>2. CASE grequests # {}
    <3>1. requests # {}
      BY <1>4, <1>8, <2>2
    <3>2. requests \in SUBSET Nat /\ grequests \in SUBSET Nat
      BY <1>8, <1>9
    <3>3. First(requests) \in requests /\ \A i \in requests : First(requests) <= i
      <4>1. \E j \in requests : \A i \in requests : j <= i
        BY <3>1, <3>2, LeastExists
      <4> QED
        BY <4>1
    <3>4. First(grequests) \in grequests /\ \A i \in grequests : First(grequests) <= i
      <4>1. \E j \in grequests : \A i \in grequests : j <= i
        BY <2>2, <3>2, LeastExists
      <4> QED
        BY <4>1
    <3> HIDE DEF First
    <3>5. PICK y \in 1 .. n : pos[y] = First(requests)
      BY <1>9, <3>3
    <3>6. y \in grequests
      BY <1>4, <3>3, <3>5
    <3>7. \A z \in grequests : y <= z
      <4> TAKE z \in grequests
      <4>1. z \in 1 .. n /\ pos[z] \in requests
        BY <1>4, <1>8
      <4>2. pos[y] <= pos[z]
        BY <3>3, <3>5, <4>1
      <4> QED
        BY <1>0, <4>1, <4>2
    <3>8. y = First(grequests)
      <4>1. y <= First(grequests) /\ First(grequests) <= y
        BY <3>4, <3>6, <3>7
      <4>2. First(grequests) \in Nat
        BY <3>2, <3>4
      <4> QED
        BY <4>1, <4>2
    <3>9. from[First(requests)] = g[First(grequests)]
      BY <1>0, <3>5, <3>8
    <3> QED
      BY <2>2, <3>1, <3>9
  <2> QED
    BY <2>1, <2>2
<1>13. queries = {} <=> gqueries = {}
  BY <1>7, <1>8, <1>9
<1>14. gqueries # {} => from[Last1(queries)] = g[Last1(gqueries)]
  <2> SUFFICES ASSUME gqueries # {} PROVE from[Last1(queries)] = g[Last1(gqueries)]
    OBVIOUS
  <2>1. /\ queries # {} /\ queries \in SUBSET (1 .. N) /\ gqueries \in SUBSET (1 .. n)
    BY <1>8, <1>9, <1>13
  <2>2. Last1(queries) \in queries /\ \A i \in queries : i <= Last1(queries)
    <3>1. \E j \in queries : \A i \in queries : i <= j
      BY <2>1, GreatestExists
    <3> QED
      BY <3>1
  <2>3. Last1(gqueries) \in gqueries /\ \A i \in gqueries : i <= Last1(gqueries)
    <3>1. \E j \in gqueries : \A i \in gqueries : i <= j
      BY <2>1, GreatestExists
    <3> QED
      BY <3>1
  <2> HIDE DEF Last1
  <2>4. PICK y \in 1 .. n : pos[y] = Last1(queries)
    BY <1>9, <2>2
  <2>5. y \in gqueries
    BY <1>7, <2>2, <2>4
  <2>6. \A z \in gqueries : z <= y
    <3> TAKE z \in gqueries
    <3>1. z \in 1 .. n /\ pos[z] \in queries
      BY <1>7, <1>8
    <3>2. pos[z] <= pos[y]
      BY <2>2, <2>4, <3>1
    <3> QED
      BY <1>0, <3>1, <3>2
  <2>7. y = Last1(gqueries)
    <3>1. y <= Last1(gqueries) /\ Last1(gqueries) <= y
      BY <2>3, <2>5, <2>6
    <3>2. Last1(gqueries) \in 1 .. n
      BY <2>1, <2>3
    <3> QED
      BY <3>1, <3>2
  <2> QED
    BY <1>0, <2>4, <2>7
<1> HIDE DEF First, Last1, root, groot
<1>15. ParentFor(g, x) = ParentAt(from, N, k)
  BY <1>1, <1>10, <1>11, <1>12, <1>13, <1>14
<1> QED
  BY <1>15 DEF k

\* D is the places of the groups; every event of S is at one of them.
PlacesOf(D, G, m, size, c, S) ==
    /\ \A p : p \in D <=>
             p = <<p[1], p[2]>> /\ p[1] \in 1 .. m /\ p[2] \in 1 .. size[p[1]]
    /\ IsFiniteSet(D) /\ Cardinality(D) = Cardinality(S)
    /\ \A p \in D : G[p[1]][p[2]] \in S /\ G[p[1]][p[2]].corr = c[p[1]]
    /\ \A p, q \in D : G[p[1]][p[2]] = G[q[1]][q[2]] => p = q
    /\ \A e \in S : \E p \in D : G[p[1]][p[2]] = e

LEMMA PlacesAreEvents ==
    ASSUME NEW S, IsFiniteSet(S), NEW G, NEW m, NEW size, NEW c, Grouped(G, m, size, c, S),
           NEW seqs, DOMAIN seqs = 1 .. m, \A a \in 1 .. m : DOMAIN seqs[a] = 1 .. size[a]
    PROVE  PlacesOf(Places(seqs), G, m, size, c, S)
<1> DEFINE D == Places(seqs)
           f == [p \in D |-> G[p[1]][p[2]]]
<1>1. /\ m \in Nat /\ size \in [1 .. m -> Nat \ {0}]
      /\ \A a \in 1 .. m : IsGroup(G[a], size[a], S, c[a])
      /\ \A a, b \in 1 .. m : c[a] = c[b] => a = b
      /\ \A e \in S : \E a \in 1 .. m : c[a] = e.corr
  BY DEF Grouped
<1>2. \A p : p \in D <=>
         p = <<p[1], p[2]>> /\ p[1] \in 1 .. m /\ p[2] \in 1 .. size[p[1]]
  <2>1. \A p : p \in D <=> \E a \in 1 .. m : \E x \in 1 .. size[a] : p = <<a, x>>
    <3> TAKE p
    <3>1. p \in D <=> \E a \in DOMAIN seqs : p \in {<<a, x>> : x \in DOMAIN seqs[a]}
      BY Zenon DEF Places
    <3>2. \A a \in 1 .. m : p \in {<<a, x>> : x \in DOMAIN seqs[a]}
                              <=> \E x \in 1 .. size[a] : p = <<a, x>>
      OBVIOUS
    <3> HIDE DEF D
    <3> QED
      BY <3>1, <3>2
  <2> HIDE DEF D
  <2>2. ASSUME NEW p
        PROVE  p \in D <=>
                  p = <<p[1], p[2]>> /\ p[1] \in 1 .. m /\ p[2] \in 1 .. size[p[1]]
    BY <2>1
  <2> QED
    BY <2>2
<1>3. \A a \in 1 .. m : \A k \in 1 .. size[a] : <<a, k>> \in D
  BY <1>2
<1> HIDE DEF D
<1>4. ASSUME NEW p \in D
      PROVE  G[p[1]][p[2]] \in S /\ G[p[1]][p[2]].corr = c[p[1]]
  BY <1>1, <1>2 DEF IsGroup
<1>5. ASSUME NEW p \in D, NEW q \in D, G[p[1]][p[2]] = G[q[1]][q[2]]
      PROVE  p = q
  <2>1. c[p[1]] = c[q[1]]
    BY <1>4, <1>5
  <2>2. p[1] = q[1]
    BY <1>1, <1>2, <2>1
  <2>3. p[2] = q[2]
    BY <1>1, <1>2, <1>5, <2>2 DEF IsGroup
  <2> QED
    BY <1>2, <2>2, <2>3
<1>6. ASSUME NEW e \in S
      PROVE  \E p \in D : G[p[1]][p[2]] = e
  <2>1. PICK a \in 1 .. m : c[a] = e.corr
    BY <1>1
  <2>2. PICK k \in 1 .. size[a] : G[a][k] = e
    BY <1>1, <2>1 DEF IsGroup
  <2> QED
    BY <1>3, <2>2
<1>7. f \in Bijection(D, S)
  <2>1. f \in [D -> S]
    BY <1>4
  <2>2. \A p, q \in D : f[p] = f[q] => p = q
    BY <1>5
  <2>3. \A e \in S : \E p \in D : f[p] = e
    BY <1>6
  <2> HIDE DEF f
  <2> QED
    BY <2>1, <2>2, <2>3, BijectionMeans
<1>8. IsFiniteSet(D)
  <2>1. f \in Injection(D, S)
    BY <1>7 DEF Bijection
  <2> HIDE DEF f
  <2> QED
    BY <2>1, FS_Injection
<1>9. Cardinality(D) = Cardinality(S)
  <2> HIDE DEF f
  <2>1. ExistsBijection(D, S)
    BY <1>7 DEF ExistsBijection
  <2> QED
    BY <1>8, <2>1, FS_Bijection
<1> QED
  BY <1>2, <1>4, <1>5, <1>6, <1>8, <1>9 DEF PlacesOf, D

\* at lists the places of the groups in order, from the events at them.
Joins(at, from, G, m, size, N) ==
    /\ \A k \in 1 .. N : /\ at[k] = <<at[k][1], at[k][2]>>
                         /\ at[k][1] \in 1 .. m /\ at[k][2] \in 1 .. size[at[k][1]]
    /\ \A a \in 1 .. m : \A x \in 1 .. size[a] : \E k \in 1 .. N : at[k] = <<a, x>>
    /\ \A j, k \in 1 .. N : NotAfter(at[j], at[k]) <=> j <= k
    /\ from = [k \in 1 .. N |-> G[at[k][1]][at[k][2]]]

LEMMA JoinedIsArranged ==
    ASSUME NEW S, IsFiniteSet(S), NEW G, NEW m, NEW size, NEW c, Grouped(G, m, size, c, S),
           NEW at, NEW from, Enumerates(from, S), Joins(at, from, G, m, size, Cardinality(S))
    PROVE  /\ Arranged(from, S)
           /\ \A k \in 1 .. Cardinality(S) : from[k].corr = c[at[k][1]]
<1> DEFINE N == Cardinality(S)
<1>0. N \in Nat
  BY FS_CardinalityType
<1>1. /\ m \in Nat /\ size \in [1 .. m -> Nat \ {0}]
      /\ \A a \in 1 .. m : IsGroup(G[a], size[a], S, c[a])
      /\ \A a, b \in 1 .. m : c[a] = c[b] => a = b
      /\ \A a, b \in 1 .. m : a <= b => ~ Before(G[b][1], G[a][1])
  BY DEF Grouped
<1>2. /\ \A k \in 1 .. N : /\ at[k][1] \in 1 .. m /\ at[k][2] \in 1 .. size[at[k][1]]
                           /\ from[k] = G[at[k][1]][at[k][2]]
      /\ \A a \in 1 .. m : \A x \in 1 .. size[a] : \E k \in 1 .. N : at[k] = <<a, x>>
      /\ \A j, k \in 1 .. N : NotAfter(at[j], at[k]) <=> j <= k
  BY DEF Joins
<1> HIDE DEF N
<1>3. \A k \in 1 .. N : from[k].corr = c[at[k][1]]
  <2> TAKE k \in 1 .. N
  <2>1. /\ at[k][1] \in 1 .. m /\ at[k][2] \in 1 .. size[at[k][1]]
        /\ from[k] = G[at[k][1]][at[k][2]]
    BY <1>2
  <2>2. \A x \in 1 .. size[at[k][1]] : G[at[k][1]][x].corr = c[at[k][1]]
    BY <1>1, <2>1 DEF IsGroup
  <2> QED
    BY <2>1, <2>2
<1>4. ASSUME NEW j \in 1 .. N, NEW k \in 1 .. N, j <= k
      PROVE  /\ at[j][1] <= at[k][1]
             /\ from[j].corr = from[k].corr => at[j][1] = at[k][1] /\ at[j][2] <= at[k][2]
  <2>1. NotAfter(at[j], at[k])
    BY <1>2, <1>4
  <2>2. /\ at[j][1] \in Int /\ at[k][1] \in Int /\ at[j][2] \in Int /\ at[k][2] \in Int
        /\ at[j][1] \in 1 .. m /\ at[k][1] \in 1 .. m
    <3>1. /\ at[j][1] \in 1 .. m /\ at[k][1] \in 1 .. m
          /\ at[j][2] \in 1 .. size[at[j][1]] /\ at[k][2] \in 1 .. size[at[k][1]]
      BY <1>2
    <3> QED
      BY <1>1, <3>1
  <2>3. from[j].corr = from[k].corr => at[j][1] = at[k][1]
    BY <1>1, <1>3, <2>2
  <2> QED
    BY <2>1, <2>2, <2>3 DEF NotAfter
<1>5. ASSUME NEW j \in 1 .. N, NEW k \in 1 .. N, NEW l \in 1 .. N,
             j < k, k < l, from[j].corr = from[l].corr
      PROVE  from[k].corr = from[j].corr
  <2>1. at[j][1] = at[l][1] /\ at[j][1] <= at[k][1] /\ at[k][1] <= at[l][1]
    BY <1>0, <1>4, <1>5
  <2>2. at[j][1] \in 1 .. m /\ at[k][1] \in 1 .. m
    BY <1>2
  <2>3. at[j][1] = at[k][1]
    BY <1>1, <2>1, <2>2
  <2> QED
    BY <1>3, <2>3
<1>6. ASSUME NEW j \in 1 .. N, NEW k \in 1 .. N, j <= k, from[j].corr = from[k].corr
      PROVE  ~ Before(from[k], from[j])
  <2>1. at[j][1] = at[k][1] /\ at[j][2] <= at[k][2]
    BY <1>4, <1>6
  <2> DEFINE a == at[j][1]
  <2>2. a \in 1 .. m /\ at[j][2] \in 1 .. size[a] /\ at[k][2] \in 1 .. size[a]
    BY <1>2, <2>1
  <2>3. from[j] = G[a][at[j][2]] /\ from[k] = G[a][at[k][2]]
    BY <1>2, <2>1
  <2> HIDE DEF a
  <2>4. \A x, y \in 1 .. size[a] : x <= y => ~ Before(G[a][y], G[a][x])
    BY <1>1, <2>2 DEF IsGroup
  <2>5. ~ Before(G[a][at[k][2]], G[a][at[j][2]])
    BY <2>1, <2>2, <2>4
  <2> QED
    BY <2>3, <2>5
<1>7. ASSUME NEW k \in 1 .. N, IsHead(from, k)
      PROVE  at[k][2] = 1
  <2> DEFINE a == at[k][1]
  <2>1. a \in 1 .. m /\ at[k][2] \in 1 .. size[a] /\ size[a] \in Nat
    BY <1>1, <1>2
  <2>2. 1 \in 1 .. size[a]
    BY <2>1
  <2>3. PICK j \in 1 .. N : at[j] = <<a, 1>>
    BY <1>2, <2>1, <2>2
  <2>4. NotAfter(at[j], at[k])
    BY <2>1, <2>3 DEF NotAfter
  <2>5. j <= k
    BY <1>2, <2>4
  <2>6. from[j].corr = from[k].corr
    BY <1>3, <2>3
  <2>7. j = k
    <3>1. j \notin 1 .. k - 1
      BY <1>7, <2>6 DEF IsHead
    <3> QED
      BY <1>0, <2>5, <3>1
  <2> QED
    BY <2>3, <2>7
<1>8. ASSUME NEW j \in 1 .. N, NEW k \in 1 .. N, j <= k, IsHead(from, j), IsHead(from, k)
      PROVE  ~ Before(from[k], from[j])
  <2>1. from[j] = G[at[j][1]][1] /\ from[k] = G[at[k][1]][1]
    BY <1>2, <1>7, <1>8
  <2>2. at[j][1] \in 1 .. m /\ at[k][1] \in 1 .. m /\ at[j][1] <= at[k][1]
    BY <1>2, <1>4, <1>8
  <2>3. ~ Before(G[at[k][1]][1], G[at[j][1]][1])
    BY <1>1, <2>2
  <2> QED
    BY <2>1, <2>3
<1>9. Arranged(from, S)
  BY <1>5, <1>6, <1>8 DEF Arranged, N
<1> QED
  BY <1>3, <1>9 DEF N

\* In the whole order an event gets the parent it gets in its group.
LEMMA LinkedInPlace ==
    ASSUME NEW S, IsFiniteSet(S), NEW G, NEW m, NEW size, NEW c, Grouped(G, m, size, c, S),
           NEW at, NEW from, Enumerates(from, S), Joins(at, from, G, m, size, Cardinality(S)),
           NEW k \in 1 .. Cardinality(S)
    PROVE  Link(G[at[k][1]])[at[k][2]] = Parented(from, Cardinality(S), k)
<1> DEFINE N == Cardinality(S)
           a == at[k][1]
           x == at[k][2]
           g == G[a]
           n == size[a]
           pos == [y \in 1 .. n |-> CHOOSE j \in 1 .. N : at[j] = <<a, y>>]
<1>1. N \in Nat
  BY FS_CardinalityType
<1>2. /\ \A j \in 1 .. N : /\ at[j] = <<at[j][1], at[j][2]>>
                           /\ at[j][1] \in 1 .. m /\ at[j][2] \in 1 .. size[at[j][1]]
                           /\ from[j] = G[at[j][1]][at[j][2]]
      /\ \A b \in 1 .. m : \A y \in 1 .. size[b] : \E j \in 1 .. N : at[j] = <<b, y>>
      /\ \A i, j \in 1 .. N : NotAfter(at[i], at[j]) <=> i <= j
  BY DEF Joins
<1>3. \A j \in 1 .. N : from[j].corr = c[at[j][1]]
  BY JoinedIsArranged
<1>4. /\ \A d, b \in 1 .. m : c[d] = c[b] => d = b
      /\ size \in [1 .. m -> Nat \ {0}]
      /\ \A b \in 1 .. m : IsGroup(G[b], size[b], S, c[b])
  BY DEF Grouped
<1> HIDE DEF N
<1>5. a \in 1 .. m /\ x \in 1 .. n /\ at[k] = <<a, x>> /\ k \in 1 .. N /\ from[k] = g[x]
  BY <1>2 DEF N
<1>6. n \in Nat /\ IsGroup(g, n, S, c[a])
  BY <1>4, <1>5
<1>7. DOMAIN g = 1 .. n /\ \A y \in 1 .. n : g[y].corr = c[a]
  BY <1>6 DEF IsGroup
<1>8. \A j \in 1 .. N : from[j].corr = c[a] => at[j] = <<a, at[j][2]>> /\ at[j][2] \in 1 .. n
  <2> TAKE j \in 1 .. N
  <2>1. from[j].corr = c[a] => at[j][1] = a
    BY <1>2, <1>3, <1>4, <1>5
  <2> QED
    BY <1>2, <2>1
<1> HIDE DEF g, n, a, x
<1>9. \A y \in 1 .. n : \E j \in 1 .. N : at[j] = <<a, y>>
  BY <1>2, <1>5 DEF n
<1>10. \A y \in 1 .. n : pos[y] \in 1 .. N /\ at[pos[y]] = <<a, y>>
  BY <1>9
<1>11. pos \in [1 .. n -> 1 .. N]
  BY <1>10
<1> HIDE DEF pos
<1>12. ASSUME NEW y \in 1 .. n, NEW z \in 1 .. n
       PROVE  pos[y] <= pos[z] <=> y <= z
  <2>1. NotAfter(at[pos[y]], at[pos[z]]) <=> pos[y] <= pos[z]
    BY <1>2, <1>10
  <2>2. NotAfter(<<a, y>>, <<a, z>>) <=> y <= z
    BY <1>5 DEF NotAfter
  <2> QED
    BY <1>10, <2>1, <2>2
<1>13. \A y \in 1 .. n : from[pos[y]] = g[y]
  <2> TAKE y \in 1 .. n
  <2>1. from[pos[y]] = G[at[pos[y]][1]][at[pos[y]][2]]
    BY <1>2, <1>10
  <2>2. at[pos[y]][1] = a /\ at[pos[y]][2] = y
    BY <1>10
  <2> QED
    BY <2>1, <2>2 DEF g
<1>14. ASSUME NEW i \in 1 .. N, NEW j \in 1 .. N, at[i] = at[j]
       PROVE  i = j
  <2>1. at[i][1] \in Int /\ at[i][2] \in Int
    <3>1. at[i][1] \in 1 .. m /\ at[i][2] \in 1 .. size[at[i][1]]
      BY <1>2
    <3> QED
      BY <3>1
  <2>2. NotAfter(at[i], at[i])
    BY <2>1 DEF NotAfter
  <2>3. i <= j /\ j <= i
    BY <1>2, <1>14, <2>2
  <2> QED
    BY <1>1, <2>3
<1>15. \A j \in 1 .. N : from[j].corr = c[a] => \E y \in 1 .. n : pos[y] = j
  <2> SUFFICES ASSUME NEW j \in 1 .. N, from[j].corr = c[a]
               PROVE  \E y \in 1 .. n : pos[y] = j
    OBVIOUS
  <2>1. at[j] = <<a, at[j][2]>> /\ at[j][2] \in 1 .. n
    BY <1>8
  <2>2. at[pos[at[j][2]]] = at[j] /\ pos[at[j][2]] \in 1 .. N
    BY <1>10, <2>1
  <2>3. pos[at[j][2]] = j
    BY <1>14, <2>2
  <2> QED
    BY <2>1, <2>3
<1>16. pos[x] = k
  BY <1>5, <1>10, <1>14
<1>17. ParentFor(g, x) = ParentAt(from, N, k)
  <2>1. Embeds(pos, g, n, from, N, c[a])
    BY <1>7, <1>11, <1>12, <1>13, <1>15 DEF Embeds
  <2>2. ParentFor(g, x) = ParentAt(from, N, pos[x])
    BY <1>1, <1>5, <1>6, <2>1, ParentsAgree
  <2> QED
    BY <1>16, <2>2
<1>18. Link(g)[x] = IF g[x].parent # NoParent THEN g[x]
                    ELSE [g[x] EXCEPT !.parent = ParentFor(g, x)]
  BY <1>5, <1>7 DEF Link
<1>19. Link(g)[x] = Parented(from, N, k)
  BY <1>5, <1>17, <1>18 DEF Parented
<1> QED
  BY <1>19 DEF g, a, x, N

\* correlate arranges any events and numbers them from 0.
THEOREM CorrelatedIs ==
    ASSUME NEW S, IsFiniteSet(S), \A e \in S : Row(e),
           NEW events, Enumerates(events, S)
    PROVE  \E from : /\ Arranged(from, S)
                     /\ Correlated(events) = Numbered(from, Cardinality(S))
<1> DEFINE N == Cardinality(S)
           G == Groups(events)
           seqs == [a \in DOMAIN G |-> Link(G[a])]
<1>1. PICK m, size, c : Grouped(G, m, size, c, S)
  BY GroupsIs
<1>2. Correlated(events) =
         [k \in DOMAIN Flattened(seqs) |-> [Flattened(seqs)[k] EXCEPT !.seq = k - 1]]
  BY DEF Correlated
<1> HIDE DEF G
<1>3. /\ DOMAIN G = 1 .. m /\ m \in Nat /\ size \in [1 .. m -> Nat \ {0}]
      /\ \A a \in 1 .. m : DOMAIN G[a] = 1 .. size[a]
  BY <1>1 DEF Grouped, IsGroup
<1>4. DOMAIN seqs = 1 .. m /\ \A a \in 1 .. m : DOMAIN seqs[a] = 1 .. size[a]
  BY <1>3 DEF Link
<1>5. \A a \in 1 .. m : seqs[a] = Link(G[a])
  BY <1>3
<1> DEFINE D == Places(seqs)
<1> HIDE DEF seqs
<1>6. /\ \A p : p \in D <=>
             p = <<p[1], p[2]>> /\ p[1] \in 1 .. m /\ p[2] \in 1 .. size[p[1]]
      /\ IsFiniteSet(D) /\ Cardinality(D) = N
      /\ \A p \in D : G[p[1]][p[2]] \in S
      /\ \A p, q \in D : G[p[1]][p[2]] = G[q[1]][q[2]] => p = q
      /\ \A e \in S : \E p \in D : G[p[1]][p[2]] = e
  <2>1. PlacesOf(D, G, m, size, c, S)
    BY <1>1, <1>4, PlacesAreEvents
  <2> QED
    BY <2>1 DEF PlacesOf
<1>7. PICK at : /\ Enumerates(at, D)
                /\ \A j, k \in 1 .. N : NotAfter(at[j], at[k]) <=> j <= k
                /\ Flattened(seqs) = [k \in 1 .. N |-> seqs[at[k][1]][at[k][2]]]
  <2>1. DOMAIN seqs \subseteq Int /\ \A a \in DOMAIN seqs : DOMAIN seqs[a] \subseteq Int
    BY <1>3, <1>4
  <2> QED
    BY <1>6, <2>1, FlattenedLists
<1> HIDE DEF D, N
<1>8. /\ at \in [1 .. N -> D]
      /\ \A j, k \in 1 .. N : at[j] = at[k] => j = k
      /\ \A p \in D : \E k \in 1 .. N : at[k] = p
  BY <1>6, <1>7 DEF Enumerates
<1> DEFINE from == [k \in 1 .. N |-> G[at[k][1]][at[k][2]]]
<1>9. \A k \in 1 .. N : from[k] = G[at[k][1]][at[k][2]] /\ at[k] \in D
  BY <1>8
<1>10. from \in [1 .. N -> S]
  BY <1>6, <1>8
<1>11. Joins(at, from, G, m, size, N)
  <2>1. \A a \in 1 .. m : \A x \in 1 .. size[a] : \E k \in 1 .. N : at[k] = <<a, x>>
    BY <1>6, <1>8
  <2>2. \A k \in 1 .. N : /\ at[k] = <<at[k][1], at[k][2]>>
                          /\ at[k][1] \in 1 .. m /\ at[k][2] \in 1 .. size[at[k][1]]
    BY <1>6, <1>8
  <2> QED
    BY <1>7, <2>1, <2>2 DEF Joins
<1> HIDE DEF from
<1>12. Enumerates(from, S)
  <2>1. \A j, k \in 1 .. N : from[j] = from[k] => j = k
    BY <1>6, <1>8, <1>9
  <2>2. \A e \in S : \E k \in 1 .. N : from[k] = e
    BY <1>6, <1>8, <1>9
  <2> QED
    BY <1>10, <2>1, <2>2 DEF Enumerates, N
<1>13. Arranged(from, S)
  BY <1>1, <1>11, <1>12, JoinedIsArranged DEF N
<1>14. \A k \in 1 .. N : Flattened(seqs)[k] = Parented(from, N, k)
  <2> TAKE k \in 1 .. N
  <2>1. Link(G[at[k][1]])[at[k][2]] = Parented(from, N, k)
    BY <1>1, <1>11, <1>12, LinkedInPlace DEF N
  <2>2. at[k][1] \in 1 .. m
    BY <1>11 DEF Joins
  <2> QED
    BY <1>5, <1>7, <2>1, <2>2
<1>15. Correlated(events) = Numbered(from, N)
  <2>1. DOMAIN Flattened(seqs) = 1 .. N
    BY <1>7
  <2> QED
    BY <1>2, <1>14, <2>1 DEF Numbered
<1> QED
  BY <1>13, <1>15 DEF N

-----------------------------------------------------------------------------
(* What numbering keeps *)

\* e with the value v in its field x.
With(e, x, v) == [y \in DOMAIN e |-> IF y = x THEN v ELSE e[y]]

LEMMA ExceptIsWith ==
    ASSUME NEW e, NEW v
    PROVE  [e EXCEPT !.parent = v] = With(e, "parent", v)
           /\ [e EXCEPT !.seq = v] = With(e, "seq", v)
  BY Zenon DEF With

\* Linking and numbering an event changes only its parent, if it had none, and its
\* sequence.
LEMMA WithParent ==
    ASSUME NEW e, Row(e), NEW p, NEW f, f = With(e, "parent", p)
    PROVE  /\ Row(f) /\ f.id = e.id /\ f.corr = e.corr /\ f.ts = e.ts /\ f.type = e.type
           /\ f.seq = e.seq /\ f.parent = p /\ DOMAIN f = DOMAIN e
           /\ \A x \in DOMAIN e : x # "parent" => f[x] = e[x]
           /\ p = e.parent => f = e
  BY DEF Row, With

LEMMA WithSeq ==
    ASSUME NEW e, Row(e), NEW s \in Int, NEW f, f = With(e, "seq", s)
    PROVE  /\ Row(f) /\ f.id = e.id /\ f.corr = e.corr /\ f.ts = e.ts /\ f.type = e.type
           /\ f.parent = e.parent /\ f.seq = s /\ DOMAIN f = DOMAIN e
           /\ \A x \in DOMAIN e : x # "seq" => f[x] = e[x]
           /\ s = e.seq => f = e
  BY DEF Row, With

\* f is e, numbered s, with parent p if e had none.
Becomes(e, p, s, f) ==
    /\ Row(f) /\ f.id = e.id /\ f.corr = e.corr /\ f.ts = e.ts /\ f.type = e.type
    /\ f.parent = (IF e.parent # NoParent THEN e.parent ELSE p)
    /\ f.seq = s /\ DOMAIN f = DOMAIN e
    /\ \A x \in DOMAIN e : x # "seq" /\ x # "parent" => f[x] = e[x]

LEMMA NumberedKeeps ==
    ASSUME NEW N \in Nat, NEW from, NEW k \in 1 .. N, Row(from[k])
    PROVE  /\ Becomes(from[k], ParentAt(from, N, k), k - 1, Numbered(from, N)[k])
           /\ /\ from[k].seq = k - 1
              /\ from[k].parent # NoParent \/ ParentAt(from, N, k) = NoParent
              => Numbered(from, N)[k] = from[k]
<1> DEFINE e == from[k]
           g == Parented(from, N, k)
           p == ParentAt(from, N, k)
           f == Numbered(from, N)[k]
<1>1. f = With(g, "seq", k - 1)
  <2>1. f = [g EXCEPT !.seq = k - 1]
    BY DEF Numbered
  <2> HIDE DEF f, g
  <2> QED
    BY Zenon, <2>1, ExceptIsWith
<1>2. g = IF e.parent # NoParent THEN e ELSE With(e, "parent", p)
  <2>1. g = IF e.parent # NoParent THEN e ELSE [e EXCEPT !.parent = p]
    BY Zenon DEF Parented
  <2> HIDE DEF g, e, p
  <2> QED
    BY Zenon, <2>1, ExceptIsWith
<1>3. Row(e) /\ k - 1 \in Int
  OBVIOUS
<1> HIDE DEF e, g, p, f
<1>4. /\ Row(g) /\ g.id = e.id /\ g.corr = e.corr /\ g.ts = e.ts /\ g.type = e.type
      /\ g.seq = e.seq /\ g.parent = (IF e.parent # NoParent THEN e.parent ELSE p)
      /\ DOMAIN g = DOMAIN e /\ \A x \in DOMAIN e : x # "parent" => g[x] = e[x]
      /\ e.parent # NoParent \/ p = NoParent => g = e
  <2>1. CASE e.parent # NoParent
    <3>1. g = e
      BY <1>2, <2>1
    <3> QED
      BY <1>3, <2>1, <3>1
  <2>2. CASE e.parent = NoParent
    <3> DEFINE h == With(e, "parent", p)
    <3>1. h = With(e, "parent", p)
      OBVIOUS
    <3>2. g = h
      BY <1>2, <2>2
    <3> HIDE DEF h
    <3>3. /\ Row(h) /\ h.id = e.id /\ h.corr = e.corr /\ h.ts = e.ts /\ h.type = e.type
          /\ h.seq = e.seq /\ h.parent = p /\ DOMAIN h = DOMAIN e
          /\ \A x \in DOMAIN e : x # "parent" => h[x] = e[x]
          /\ p = e.parent => h = e
      BY <1>3, <3>1, WithParent
    <3> QED
      BY <2>2, <3>2, <3>3
  <2> QED
    BY <2>1, <2>2
<1>5. /\ Row(f) /\ f.id = g.id /\ f.corr = g.corr /\ f.ts = g.ts /\ f.type = g.type
      /\ f.parent = g.parent /\ f.seq = k - 1 /\ DOMAIN f = DOMAIN g
      /\ \A x \in DOMAIN g : x # "seq" => f[x] = g[x]
      /\ k - 1 = g.seq => f = g
  <2> DEFINE s == k - 1
  <2>1. Row(g) /\ s \in Int /\ f = With(g, "seq", s)
    BY <1>1, <1>3, <1>4
  <2> HIDE DEF s
  <2>2. /\ Row(f) /\ f.id = g.id /\ f.corr = g.corr /\ f.ts = g.ts /\ f.type = g.type
        /\ f.parent = g.parent /\ f.seq = s /\ DOMAIN f = DOMAIN g
        /\ \A x \in DOMAIN g : x # "seq" => f[x] = g[x]
        /\ s = g.seq => f = g
    BY ONLY <2>1, WithSeq
  <2> QED
    BY <2>2 DEF s
<1>6. Becomes(e, p, k - 1, f)
  BY <1>4, <1>5 DEF Becomes
<1>7. e.seq = k - 1 /\ (e.parent # NoParent \/ p = NoParent) => f = e
  BY <1>4, <1>5
<1> QED
  BY <1>6, <1>7 DEF e, p, f

-----------------------------------------------------------------------------
(* Only one order is arranged *)

\* No two events of S have the same time and the same sequence.
Distinct(S) == \A e, f \in S : e # f => Before(e, f) \/ Before(f, e)

Head1(h, S) == h \in S /\ \A e \in S : e.corr = h.corr => ~ Before(e, h)

FinalOrder(S) ==
    {p \in S \X S :
        \/ p[1].corr = p[2].corr /\ ~ Before(p[2], p[1])
        \/ /\ p[1].corr # p[2].corr
           /\ \E g, h \in S : /\ Head1(g, S) /\ g.corr = p[1].corr
                              /\ Head1(h, S) /\ h.corr = p[2].corr /\ Before(g, h)}

LEMMA ArrangedLists ==
    ASSUME NEW S, IsFiniteSet(S), \A e \in S : Row(e), Distinct(S),
           NEW from, Arranged(from, S)
    PROVE  Lists(from, FinalOrder(S), S)
<1> DEFINE N == Cardinality(S)
           R == FinalOrder(S)
<1>0. N \in Nat
  BY FS_CardinalityType
<1>1. \A e, f \in S : <<e, f>> \in R <=>
         \/ e.corr = f.corr /\ ~ Before(f, e)
         \/ /\ e.corr # f.corr
            /\ \E g, h \in S : /\ Head1(g, S) /\ g.corr = e.corr
                               /\ Head1(h, S) /\ h.corr = f.corr /\ Before(g, h)
  BY DEF FinalOrder
<1> HIDE DEF R, N
<1>2. /\ from \in [1 .. N -> S]
      /\ \A j, k \in 1 .. N : from[j] = from[k] => j = k
      /\ \A e \in S : \E k \in 1 .. N : from[k] = e
  BY DEF Arranged, Enumerates, N
<1>3. /\ \A j, k, l \in 1 .. N :
            j < k /\ k < l /\ from[j].corr = from[l].corr => from[k].corr = from[j].corr
      /\ \A j, k \in 1 .. N :
            j <= k /\ from[j].corr = from[k].corr => ~ Before(from[k], from[j])
      /\ \A j, k \in 1 .. N :
            j <= k /\ IsHead(from, j) /\ IsHead(from, k) => ~ Before(from[k], from[j])
  BY DEF Arranged, N
<1>4. ASSUME NEW k \in 1 .. N
      PROVE  \E h \in 1 .. N : /\ h <= k /\ from[h].corr = from[k].corr
                               /\ IsHead(from, h) /\ Head1(from[h], S)
  <2> DEFINE W == {i \in 1 .. N : from[i].corr = from[k].corr}
  <2>1. W # {} /\ W \in SUBSET Nat
    BY <1>0
  <2>2. PICK h \in W : \A i \in W : h <= i
    BY <2>1, LeastExists
  <2>3. IsHead(from, h)
    <3> SUFFICES ASSUME NEW j \in 1 .. h - 1 PROVE from[j].corr # from[h].corr
      BY DEF IsHead
    <3>1. j \in 1 .. N /\ ~ (h <= j)
      BY <1>0
    <3> QED
      BY <2>2, <3>1
  <2>4. ASSUME NEW e \in S, e.corr = from[h].corr
        PROVE  ~ Before(e, from[h])
    <3>1. PICK i \in 1 .. N : from[i] = e
      BY <1>2
    <3>2. h <= i
      BY <2>2, <2>4, <3>1
    <3> QED
      BY <1>3, <2>4, <3>1, <3>2
  <2>5. Head1(from[h], S)
    BY <1>2, <2>4 DEF Head1
  <2> QED
    BY <2>2, <2>3, <2>5
<1>5. ASSUME NEW j \in 1 .. N, NEW k \in 1 .. N, j <= k
      PROVE  <<from[j], from[k]>> \in R
  <2>1. CASE from[j].corr = from[k].corr
    BY <1>1, <1>2, <1>3, <1>5, <2>1
  <2>2. CASE from[j].corr # from[k].corr
    <3>1. PICK g \in 1 .. N : /\ g <= j /\ from[g].corr = from[j].corr
                              /\ IsHead(from, g) /\ Head1(from[g], S)
      BY <1>4
    <3>2. PICK h \in 1 .. N : /\ h <= k /\ from[h].corr = from[k].corr
                              /\ IsHead(from, h) /\ Head1(from[h], S)
      BY <1>4
    <3>3. g # h
      BY <2>2, <3>1, <3>2
    <3>4. ~ (h < g)
      <4> SUFFICES ASSUME h < g PROVE FALSE
        OBVIOUS
      <4>1. h < j /\ j < k
        <5>1. j # k
          BY <2>2
        <5> QED
          BY <1>0, <1>5, <3>1, <5>1
      <4>2. from[j].corr = from[h].corr
        BY <1>3, <3>2, <4>1
      <4> QED
        BY <2>2, <3>2, <4>2
    <3>5. g <= h
      BY <1>0, <3>3, <3>4
    <3>6. ~ Before(from[h], from[g]) /\ from[g] # from[h] /\ from[g] \in S /\ from[h] \in S
      BY <1>2, <1>3, <3>1, <3>2, <3>3, <3>5
    <3>7. Before(from[g], from[h])
      BY <3>6 DEF Distinct
    <3>8. from[j] \in S /\ from[k] \in S
      BY <1>2
    <3> QED
      BY <1>1, <2>2, <3>1, <3>2, <3>6, <3>7, <3>8
  <2> QED
    BY <2>1, <2>2
<1>6. ASSUME NEW e \in S, NEW f \in S, <<e, f>> \in R, <<f, e>> \in R
      PROVE  e = f
  <2>1. CASE e.corr = f.corr
    BY <1>1, <1>6, <2>1 DEF Distinct
  <2>2. CASE e.corr # f.corr
    <3>1. PICK g \in S, h \in S : /\ Head1(g, S) /\ g.corr = e.corr
                                  /\ Head1(h, S) /\ h.corr = f.corr /\ Before(g, h)
      BY <1>1, <1>6, <2>2
    <3>2. PICK g2 \in S, h2 \in S : /\ Head1(g2, S) /\ g2.corr = f.corr
                                    /\ Head1(h2, S) /\ h2.corr = e.corr /\ Before(g2, h2)
      BY <1>1, <1>6, <2>2
    <3>3. g = h2 /\ h = g2
      BY <3>1, <3>2 DEF Head1, Distinct
    <3>4. Before(g, h) /\ Before(h, g) /\ Row(g) /\ Row(h)
      BY <3>1, <3>2, <3>3
    <3> QED
      BY <3>4, BeforeIsOrder
  <2> QED
    BY <2>1, <2>2
<1>7. ASSUME NEW j \in 1 .. N, NEW k \in 1 .. N, <<from[j], from[k]>> \in R
      PROVE  j <= k
  <2> SUFFICES ASSUME k <= j PROVE j = k
    BY <1>0
  <2>1. <<from[k], from[j]>> \in R
    BY <1>5
  <2> QED
    BY <1>2, <1>6, <1>7, <2>1
<1> QED
  BY <1>2, <1>5, <1>7 DEF Lists, Enumerates, N, R

\* The order in which the rows come does not matter when no two of them share both
\* their time and their sequence.
THEOREM ArrivalDoesNotMatter ==
    ASSUME NEW S, IsFiniteSet(S), \A e \in S : Row(e), Distinct(S),
           NEW s, Enumerates(s, S), NEW t, Enumerates(t, S)
    PROVE  Correlated(s) = Correlated(t)
<1>1. PICK from : Arranged(from, S) /\ Correlated(s) = Numbered(from, Cardinality(S))
  BY CorrelatedIs
<1>2. PICK to : Arranged(to, S) /\ Correlated(t) = Numbered(to, Cardinality(S))
  BY CorrelatedIs
<1>3. Lists(from, FinalOrder(S), S) /\ Lists(to, FinalOrder(S), S)
  BY <1>1, <1>2, ArrangedLists
<1>4. from = to
  BY <1>3, ListsUnique
<1> QED
  BY <1>1, <1>2, <1>4

-----------------------------------------------------------------------------
(* The rows as the database returns them *)

IsHttp(e) == e.type \in {"http.request", "http.response"}

\* However the database breaks the ties of the two producers' counters, it returns
\* every row once.
LEMMA RowOrdersEnumerate ==
    ASSUME NEW S, IsFiniteSet(S), \A e \in S : Row(e),
           \A e, f \in S : e.seq = f.seq /\ (IsHttp(e) <=> IsHttp(f)) => e = f,
           NEW s \in RowOrders(S)
    PROVE  Enumerates(s, S)
<1> DEFINE First(front, f, e) ==
               \/ f.seq < e.seq
               \/ f.seq = e.seq /\ (f = e \/ (IsHttp(f) <=> f.seq \in front))
           Rank(front) == [e \in S |-> Cardinality({f \in S : First(front, f, e)})]
<1>1. PICK front : s = Ranked(Rank(front))
  <2> DEFINE shared == {e.seq : e \in {f \in S : \E g \in S : g # f /\ g.seq = f.seq}}
  <2>1. RowOrders(S) = {Ranked(Rank(front)) : front \in SUBSET shared}
    BY DEF RowOrders, IsHttp
  <2> HIDE DEF Rank, shared
  <2> QED
    BY <2>1
<1> DEFINE R == {p \in S \X S : First(front, p[1], p[2])}
<1>2. \A e, f \in S : <<f, e>> \in R <=> First(front, f, e)
  OBVIOUS
<1>3. \A e \in S : UpTo(R, S, e) = {f \in S : First(front, f, e)}
  BY <1>2 DEF UpTo
<1>4. Rank(front) = [e \in S |-> Cardinality(UpTo(R, S, e))]
  BY <1>3
<1> HIDE DEF R, Rank
<1>5. TotalOrder(R, S)
  <2>1. \A e \in S : e.seq \in Int
    BY DEF Row
  <2>2. \A x \in S : <<x, x>> \in R
    BY <1>2
  <2>3. \A x, y \in S : <<x, y>> \in R \/ <<y, x>> \in R
    <3> SUFFICES ASSUME NEW x \in S, NEW y \in S, x # y
                 PROVE  First(front, x, y) \/ First(front, y, x)
      BY <1>2, <2>2
    <3>1. CASE x.seq = y.seq
      BY <3>1
    <3>2. CASE x.seq # y.seq
      BY <2>1, <3>2
    <3> QED
      BY <3>1, <3>2
  <2>4. ASSUME NEW x \in S, NEW y \in S, <<x, y>> \in R, <<y, x>> \in R
        PROVE  x = y
    <3>1. First(front, x, y) /\ First(front, y, x) /\ x.seq \in Int /\ y.seq \in Int
      BY <1>2, <2>1, <2>4
    <3>2. x.seq = y.seq
      BY <3>1
    <3> QED
      BY <3>1, <3>2
  <2>5. ASSUME NEW x \in S, NEW y \in S, NEW z \in S, <<x, y>> \in R, <<y, z>> \in R
        PROVE  <<x, z>> \in R
    <3>1. /\ First(front, x, y) /\ First(front, y, z)
          /\ x.seq \in Int /\ y.seq \in Int /\ z.seq \in Int
      BY <1>2, <2>1, <2>5
    <3>2. First(front, x, z)
      <4>1. CASE x.seq < y.seq \/ y.seq < z.seq
        BY <3>1, <4>1
      <4>2. CASE ~ (x.seq < y.seq \/ y.seq < z.seq)
        BY <3>1, <4>2
      <4> QED
        BY <4>1, <4>2
    <3> QED
      BY <1>2, <3>2
  <2> QED
    BY <2>2, <2>3, <2>4, <2>5 DEF TotalOrder
<1>6. Lists(s, R, S)
  BY <1>1, <1>4, <1>5, RankedLists
<1> QED
  BY <1>6 DEF Lists

-----------------------------------------------------------------------------
(* Correlating what is correlated *)

LEMMA NumberedEnumerates ==
    ASSUME NEW S, IsFiniteSet(S), \A e \in S : Row(e),
           NEW from, Arranged(from, S), NEW C, C = Numbered(from, Cardinality(S))
    PROVE  /\ IsFiniteSet(Range(C)) /\ Cardinality(Range(C)) = Cardinality(S)
           /\ \A e \in Range(C) : Row(e)
           /\ Enumerates(C, Range(C))
           /\ \A k \in 1 .. Cardinality(S) :
                 Becomes(from[k], ParentAt(from, Cardinality(S), k), k - 1, C[k])
<1> DEFINE N == Cardinality(S)
           T == Range(C)
<1>1. N \in Nat /\ IsFiniteSet(1 .. N) /\ Cardinality(1 .. N) = N
  BY FS_CardinalityType, FS_Interval
<1>2. DOMAIN C = 1 .. N
  BY DEF Numbered
<1>3. \A k \in 1 .. N : Row(from[k])
  BY DEF Arranged, Enumerates
<1>4. \A k \in 1 .. N : Becomes(from[k], ParentAt(from, N, k), k - 1, C[k])
  <2> TAKE k \in 1 .. N
  <2> HIDE DEF N
  <2> QED
    BY <1>1, <1>3, NumberedKeeps DEF N
<1> HIDE DEF N
<1>5. \A k \in 1 .. N : C[k].seq = k - 1 /\ Row(C[k])
  BY <1>4 DEF Becomes
<1>6. C = [k \in 1 .. N |-> C[k]]
  BY DEF Numbered, N
<1>7. T = {C[k] : k \in 1 .. N}
  BY <1>2 DEF Range
<1> HIDE DEF T
<1>8. C \in [1 .. N -> T]
  BY <1>6, <1>7
<1>9. \A j, k \in 1 .. N : C[j] = C[k] => j = k
  <2> SUFFICES ASSUME NEW j \in 1 .. N, NEW k \in 1 .. N, C[j] = C[k]
               PROVE  j = k
    OBVIOUS
  <2>1. j - 1 = k - 1
    BY <1>5
  <2> QED
    BY <1>1, <2>1
<1>10. \A e \in T : \E k \in 1 .. N : C[k] = e
  BY <1>7
<1>11. C \in Bijection(1 .. N, T)
  BY ONLY <1>8, <1>9, <1>10, BijectionMeans
<1>12. IsFiniteSet(T) /\ Cardinality(T) = N
  BY <1>1, <1>11, FS_Bijection DEF ExistsBijection
<1>13. \A e \in T : Row(e)
  BY <1>5, <1>10
<1>14. Enumerates(C, T)
  BY <1>8, <1>9, <1>10, <1>12 DEF Enumerates
<1> QED
  BY <1>4, <1>12, <1>13, <1>14 DEF T, N

\* What is correlated is arranged, and distinct: its sequences differ.
LEMMA NumberedArranged ==
    ASSUME NEW S, IsFiniteSet(S), \A e \in S : Row(e),
           NEW from, Arranged(from, S), NEW C, C = Numbered(from, Cardinality(S))
    PROVE  Arranged(C, Range(C)) /\ Distinct(Range(C))
<1> DEFINE N == Cardinality(S)
           T == Range(C)
<1>1. N \in Nat
  BY FS_CardinalityType
<1>2. /\ Cardinality(T) = N /\ Enumerates(C, T)
      /\ \A k \in 1 .. N : Becomes(from[k], ParentAt(from, N, k), k - 1, C[k])
  BY NumberedEnumerates
<1>3. /\ \A j, k, l \in 1 .. N :
            j < k /\ k < l /\ from[j].corr = from[l].corr => from[k].corr = from[j].corr
      /\ \A j, k \in 1 .. N :
            j <= k /\ from[j].corr = from[k].corr => ~ Before(from[k], from[j])
      /\ \A j, k \in 1 .. N :
            j <= k /\ IsHead(from, j) /\ IsHead(from, k) => ~ Before(from[k], from[j])
      /\ \A k \in 1 .. N : Row(from[k])
  BY DEF Arranged, Enumerates
<1> HIDE DEF N, T
<1>4. \A k \in 1 .. N : /\ C[k].corr = from[k].corr /\ C[k].ts = from[k].ts
                        /\ C[k].seq = k - 1 /\ C[k].ts \in Int
  BY <1>2 DEF Becomes, Row
<1>5. ASSUME NEW j \in 1 .. N, NEW k \in 1 .. N, j <= k, ~ Before(from[k], from[j])
      PROVE  ~ Before(C[k], C[j])
  <2>1. from[j].ts \in Int /\ from[k].ts \in Int
    BY <1>3 DEF Row
  <2>2. ~ (from[k].ts < from[j].ts)
    BY <1>5 DEF Before
  <2>3. ~ (C[k].ts < C[j].ts) /\ ~ (C[k].seq < C[j].seq)
    BY <1>4, <1>5, <2>2
  <2> QED
    BY <2>3 DEF Before
<1>6. \A k \in 1 .. N : IsHead(C, k) => IsHead(from, k)
  <2> SUFFICES ASSUME NEW k \in 1 .. N, IsHead(C, k), NEW j \in 1 .. k - 1
               PROVE  from[j].corr # from[k].corr
    BY DEF IsHead
  <2>1. C[j].corr # C[k].corr
    BY DEF IsHead
  <2>2. j \in 1 .. N
    BY <1>1
  <2> QED
    BY <1>4, <2>1, <2>2
<1>7. Arranged(C, T)
  <2>1. ASSUME NEW j \in 1 .. N, NEW k \in 1 .. N, NEW l \in 1 .. N,
               j < k, k < l, C[j].corr = C[l].corr
        PROVE  C[k].corr = C[j].corr
    BY <1>3, <1>4, <2>1
  <2>2. ASSUME NEW j \in 1 .. N, NEW k \in 1 .. N, j <= k, C[j].corr = C[k].corr
        PROVE  ~ Before(C[k], C[j])
    BY <1>3, <1>4, <1>5, <2>2
  <2>3. ASSUME NEW j \in 1 .. N, NEW k \in 1 .. N, j <= k, IsHead(C, j), IsHead(C, k)
        PROVE  ~ Before(C[k], C[j])
    BY <1>3, <1>5, <1>6, <2>3
  <2> QED
    BY <1>2, <2>1, <2>2, <2>3 DEF Arranged
<1>8. Distinct(T)
  <2> SUFFICES ASSUME NEW e \in T, NEW f \in T, e # f PROVE Before(e, f) \/ Before(f, e)
    BY DEF Distinct
  <2>1. PICK j \in 1 .. N : C[j] = e
    BY <1>2 DEF Enumerates
  <2>2. PICK k \in 1 .. N : C[k] = f
    BY <1>2 DEF Enumerates
  <2>3. j # k
    BY <2>1, <2>2
  <2>4. /\ e.ts \in Int /\ f.ts \in Int
        /\ e.seq = j - 1 /\ f.seq = k - 1
    BY <1>4, <2>1, <2>2
  <2> QED
    BY <1>1, <2>3, <2>4 DEF Before
<1> QED
  BY <1>7, <1>8 DEF T

\* A parent that linking fills in is an event.
LEMMA ParentAtKnown ==
    ASSUME NEW N \in Nat, NEW from, NEW k \in 1 .. N
    PROVE  ParentAt(from, N, k) \in {NoParent} \cup {from[j].id : j \in 1 .. N}
<1> DEFINE mates == {j \in 1 .. N : from[j].corr = from[k].corr}
           requests == {j \in mates : from[j].type = "http.request"}
           queries == {j \in mates : j < k /\ from[j].type = "postgres.query"}
           first == CHOOSE j \in requests : \A i \in requests : j <= i
           last == CHOOSE j \in queries : \A i \in queries : i <= j
<1>1. requests # {} => first \in 1 .. N
  <2>1. requests \in SUBSET Nat /\ requests \subseteq 1 .. N
    OBVIOUS
  <2> HIDE DEF requests
  <2>2. requests # {} => \E j \in requests : \A i \in requests : j <= i
    BY <2>1, LeastExists
  <2> QED
    BY <2>1, <2>2
<1>2. queries # {} => last \in 1 .. N
  <2>1. queries \in SUBSET (1 .. N)
    OBVIOUS
  <2> HIDE DEF queries
  <2>2. queries # {} => \E j \in queries : \A i \in queries : i <= j
    BY <2>1, GreatestExists
  <2> QED
    BY <2>1, <2>2
<1>3. ParentAt(from, N, k) =
         CASE from[k].type = "http.request" -> NoParent
           [] from[k].type = "postgres.result" /\ queries # {} -> from[last].id
           [] OTHER -> IF requests = {} THEN NoParent ELSE from[first].id
  BY DEF ParentAt
<1> HIDE DEF requests, queries, first, last
<1> QED
  BY <1>1, <1>2, <1>3

LEMMA ParentAtSame ==
    ASSUME NEW N \in Nat, NEW from, NEW to, NEW k \in 1 .. N,
           \A j \in 1 .. N : /\ to[j].corr = from[j].corr /\ to[j].type = from[j].type
                             /\ to[j].id = from[j].id
    PROVE  ParentAt(to, N, k) = ParentAt(from, N, k)
<1> DEFINE mates(o) == {j \in 1 .. N : o[j].corr = o[k].corr}
           requests(o) == {j \in mates(o) : o[j].type = "http.request"}
           queries(o) == {j \in mates(o) : j < k /\ o[j].type = "postgres.query"}
           First(R) == CHOOSE j \in R : \A i \in R : j <= i
           Last1(R) == CHOOSE j \in R : \A i \in R : i <= j
           root(o) == IF requests(o) = {} THEN NoParent ELSE o[First(requests(o))].id
<1>1. mates(to) = mates(from)
  OBVIOUS
<1>2. requests(to) = requests(from) /\ queries(to) = queries(from)
  BY <1>1
<1>3. requests(from) \in SUBSET (1 .. N) /\ queries(from) \in SUBSET (1 .. N)
  OBVIOUS
<1>4. \A o : ParentAt(o, N, k) = CASE o[k].type = "http.request" -> NoParent
         [] o[k].type = "postgres.result" /\ queries(o) # {} -> o[Last1(queries(o))].id
         [] OTHER -> root(o)
  BY DEF ParentAt
<1> HIDE DEF requests, queries
<1>5. requests(from) # {} => First(requests(from)) \in 1 .. N
  <2> SUFFICES ASSUME requests(from) # {} PROVE First(requests(from)) \in 1 .. N
    OBVIOUS
  <2>1. requests(from) \in SUBSET Nat
    BY <1>3
  <2>2. \E j \in requests(from) : \A i \in requests(from) : j <= i
    BY <2>1, LeastExists
  <2> QED
    BY <1>3, <2>2
<1>6. queries(from) # {} => Last1(queries(from)) \in 1 .. N
  <2> SUFFICES ASSUME queries(from) # {} PROVE Last1(queries(from)) \in 1 .. N
    OBVIOUS
  <2>1. \E j \in queries(from) : \A i \in queries(from) : i <= j
    BY <1>3, GreatestExists
  <2> QED
    BY <1>3, <2>1
<1> HIDE DEF First, Last1
<1>7. root(to) = root(from)
  BY <1>2, <1>5
<1>8. queries(from) # {} => to[Last1(queries(to))].id = from[Last1(queries(from))].id
  BY <1>2, <1>6
<1> HIDE DEF root
<1>9. to[k].type = from[k].type
  OBVIOUS
<1> QED
  BY <1>2, <1>4, <1>7, <1>8, <1>9

\* Correlating again the rows of what was correlated changes nothing, whatever order
\* they come in: an import keeps the order and the parents of the export.
THEOREM CorrelatedIsFixed ==
    ASSUME NEW S, IsFiniteSet(S), \A e \in S : Row(e),
           NEW events, Enumerates(events, S), NEW C, C = Correlated(events),
           NEW s, Enumerates(s, Range(C))
    PROVE  Correlated(s) = C
<1> DEFINE N == Cardinality(S)
           T == Range(C)
<1>0. N \in Nat
  BY FS_CardinalityType
<1>1. PICK from : Arranged(from, S) /\ C = Numbered(from, N)
  BY CorrelatedIs
<1>2. /\ IsFiniteSet(T) /\ Cardinality(T) = N /\ \A e \in T : Row(e)
      /\ Enumerates(C, T)
      /\ \A k \in 1 .. N : Becomes(from[k], ParentAt(from, N, k), k - 1, C[k])
  BY <1>1, NumberedEnumerates
<1>3. Arranged(C, T) /\ Distinct(T)
  BY <1>1, NumberedArranged
<1>4. C \in [1 .. N -> T]
  BY <1>2 DEF Enumerates
<1> HIDE DEF N, T
<1>5. PICK to : Arranged(to, T) /\ Correlated(s) = Numbered(to, N)
  <2>1. Enumerates(s, T)
    BY DEF T
  <2>2. PICK to : Arranged(to, T) /\ Correlated(s) = Numbered(to, Cardinality(T))
    BY <1>2, <2>1, CorrelatedIs
  <2> QED
    BY <1>2, <2>2
<1>6. to = C
  <2>1. Lists(to, FinalOrder(T), T)
    BY <1>2, <1>3, <1>5, ArrangedLists
  <2>2. Lists(C, FinalOrder(T), T)
    BY <1>2, <1>3, ArrangedLists
  <2> QED
    BY <1>2, <2>1, <2>2, ListsUnique
<1>7. ASSUME NEW k \in 1 .. N
      PROVE  Numbered(C, N)[k] = C[k]
  <2>1. Row(C[k])
    BY <1>2, <1>4
  <2>2. /\ C[k].seq = k - 1
        /\ C[k].parent = (IF from[k].parent # NoParent THEN from[k].parent
                          ELSE ParentAt(from, N, k))
    BY <1>2 DEF Becomes
  <2>3. \A j \in 1 .. N : /\ C[j].corr = from[j].corr /\ C[j].type = from[j].type
                          /\ C[j].id = from[j].id
    BY <1>2 DEF Becomes
  <2>4. ParentAt(C, N, k) = ParentAt(from, N, k)
    BY <1>0, <2>3, ParentAtSame
  <2>5. C[k].parent # NoParent \/ ParentAt(C, N, k) = NoParent
    BY <2>2, <2>4
  <2> QED
    BY <1>0, <2>1, <2>2, <2>5, NumberedKeeps
<1>8. Numbered(C, N) = C
  <2>1. Numbered(C, N) = [k \in 1 .. N |-> Numbered(C, N)[k]]
    BY DEF Numbered
  <2>2. C = [k \in 1 .. N |-> C[k]]
    BY <1>4
  <2> QED
    BY <1>7, <2>1, <2>2
<1> QED
  BY <1>5, <1>6, <1>8

-----------------------------------------------------------------------------
(* The parent a statement is given *)

\* The requests of correlation id c.
RequestsOf(from, N, c) ==
    {j \in 1 .. N : from[j].corr = c /\ from[j].type = "http.request"}

FirstRequest(from, N, c) ==
    CHOOSE j \in RequestsOf(from, N, c) : \A i \in RequestsOf(from, N, c) : j <= i

\* Whatever is neither a request nor a result goes to the first request of its
\* correlation id.
LEMMA RootIs ==
    ASSUME NEW N \in Nat, NEW from, NEW k \in 1 .. N, NEW i \in 1 .. N,
           from[k].type \notin {"http.request", "postgres.result"},
           from[i].corr = from[k].corr, from[i].type = "http.request"
    PROVE  LET J == FirstRequest(from, N, from[k].corr)
           IN /\ J \in 1 .. N /\ J <= i
              /\ from[J].corr = from[k].corr /\ from[J].type = "http.request"
              /\ ParentAt(from, N, k) = from[J].id
<1> DEFINE c == from[k].corr
           R == RequestsOf(from, N, c)
           mates == {j \in 1 .. N : from[j].corr = from[k].corr}
           requests == {j \in mates : from[j].type = "http.request"}
<1>1. R = requests
  BY DEF RequestsOf
<1>2. i \in R /\ R \in SUBSET Nat
  BY DEF RequestsOf
<1>3. PICK j \in R : \A l \in R : j <= l
  BY <1>2, LeastExists
<1>4. FirstRequest(from, N, c) = CHOOSE l \in R : \A h \in R : l <= h
  BY DEF FirstRequest
<1> HIDE DEF R
<1>5. FirstRequest(from, N, c) \in R /\ \A l \in R : FirstRequest(from, N, c) <= l
  BY <1>3, <1>4
<1>6. ParentAt(from, N, k) = from[CHOOSE l \in requests : \A h \in requests : l <= h].id
  <2>1. requests # {}
    BY <1>1, <1>2
  <2> QED
    BY <2>1 DEF ParentAt
<1>7. ParentAt(from, N, k) = from[FirstRequest(from, N, c)].id
  BY <1>1, <1>4, <1>6
<1> QED
  BY <1>2, <1>5, <1>7 DEF R, RequestsOf

-----------------------------------------------------------------------------
(* Sorting by sequence *)

\* o lists 1, ..., n in the order in which BySequence takes the events of s.
PutsInOrder(o, n, s) ==
    /\ o \in [1 .. n -> 1 .. n]
    /\ \A j, k \in 1 .. n : o[j] = o[k] => j = k
    /\ \A i \in 1 .. n : \E k \in 1 .. n : o[k] = i
    /\ \A j, k \in 1 .. n : j <= k => s[o[j]].seq <= s[o[k]].seq
    /\ BySequence(s) = [k \in 1 .. n |-> s[o[k]]]

LEMMA SortedBySequence ==
    ASSUME NEW n \in Nat, NEW s, DOMAIN s = 1 .. n, \A i \in 1 .. n : s[i].seq \in Int
    PROVE  \E o : PutsInOrder(o, n, s)
<1> DEFINE D == 1 .. n
           First(i, j) == s[i].seq < s[j].seq \/ (~ (s[j].seq < s[i].seq) /\ i <= j)
           R == {p \in D \X D : First(p[1], p[2])}
           rank == [i \in D |-> Cardinality({j \in D : First(j, i)})]
           o == Ranked(rank)
<1>1. \A i, j \in D : <<i, j>> \in R <=> First(i, j)
  OBVIOUS
<1>2. \A i \in D : UpTo(R, D, i) = {j \in D : First(j, i)}
  BY <1>1 DEF UpTo
<1>3. rank = [i \in D |-> Cardinality(UpTo(R, D, i))]
  BY <1>2
<1>4. IsFiniteSet(D) /\ Cardinality(D) = n
  BY FS_Interval
<1>5. BySequence(s) = [k \in DOMAIN o |-> s[o[k]]]
  BY DEF BySequence, StableSort
<1> HIDE DEF R, rank
<1>6. TotalOrder(R, D)
  <2>1. \A x \in D : <<x, x>> \in R
    BY <1>1
  <2>2. ASSUME NEW x \in D, NEW y \in D
        PROVE  <<x, y>> \in R \/ <<y, x>> \in R
    <3>1. s[x].seq \in Int /\ s[y].seq \in Int
      OBVIOUS
    <3>2. First(x, y) \/ First(y, x)
      BY <3>1
    <3> QED
      BY <1>1, <3>2
  <2>3. ASSUME NEW x \in D, NEW y \in D, <<x, y>> \in R, <<y, x>> \in R
        PROVE  x = y
    <3>1. First(x, y) /\ First(y, x) /\ s[x].seq \in Int /\ s[y].seq \in Int
      BY <1>1, <2>3
    <3> QED
      BY <3>1
  <2>4. ASSUME NEW x \in D, NEW y \in D, NEW z \in D, <<x, y>> \in R, <<y, z>> \in R
        PROVE  <<x, z>> \in R
    <3>1. /\ First(x, y) /\ First(y, z)
          /\ s[x].seq \in Int /\ s[y].seq \in Int /\ s[z].seq \in Int
      BY <1>1, <2>4
    <3>2. First(x, z)
      BY <3>1
    <3> QED
      BY <1>1, <3>2
  <2> QED
    BY <2>1, <2>2, <2>3, <2>4 DEF TotalOrder
<1>7. Lists(o, R, D)
  BY <1>3, <1>4, <1>6, RankedLists
<1> HIDE DEF o
<1>8. Enumerates(o, D) /\ \A j, k \in D : <<o[j], o[k]>> \in R <=> j <= k
  BY <1>4, <1>7 DEF Lists
<1>9. /\ o \in [D -> D] /\ \A j, k \in D : o[j] = o[k] => j = k
      /\ \A i \in D : \E k \in D : o[k] = i
  BY <1>4, <1>8 DEF Enumerates
<1>10. ASSUME NEW j \in D, NEW k \in D, j <= k
       PROVE  s[o[j]].seq <= s[o[k]].seq
  <2>1. o[j] \in D /\ o[k] \in D
    BY <1>9
  <2>2. First(o[j], o[k])
    BY <1>1, <1>8, <1>10, <2>1
  <2> QED
    BY <2>1, <2>2
<1>11. PutsInOrder(o, n, s)
  BY <1>5, <1>9, <1>10 DEF PutsInOrder
<1> QED
  BY <1>11
=============================================================================
