------------------------------ MODULE DataFacts ------------------------------
(***************************************************************************)
(* Facts about data that the proofs share.  The slot of a sample or a line *)
(* is its index modulo the size of a ring: m_ring of the logger and the    *)
(* waterfall's RingBuffer rest on that.  The waterfall's and the spectrum's*)
(* autoscaling rest on least and greatest elements and on sums of counts.  *)
(***************************************************************************)
EXTENDS Integers, Functions, FiniteSetsExt, FiniteSetTheorems, TLAPS

-----------------------------------------------------------------------------
(* Slots. *)


\* Division with remainder: an index is whole turns of the ring plus its slot.
LEMMA Division ==
  ASSUME NEW N \in Nat \ {0}, NEW i \in Int
  PROVE  \E q \in Int : i = N * q + (i % N)
<1>1. i \div N \in Int /\ i = N * (i \div N) + (i % N)
  BY SMTT(10)
<1> QED BY <1>1

\* A slot lies within the ring.
LEMMA SlotInRange ==
  ASSUME NEW N \in Nat \ {0}, NEW i \in Int
  PROVE  i % N \in 0..N-1
OBVIOUS

\* The slot is the only remainder an index has.
LEMMA SlotUnique ==
  ASSUME NEW N \in Nat \ {0}, NEW i \in Int, NEW q \in Int, NEW r \in 0..N-1,
         i = N * q + r
  PROVE  i % N = r
BY SMTT(10)

LEMMA MultipleBound ==
  ASSUME NEW N \in Nat \ {0}, NEW d \in Int, d > 0
  PROVE  N * d >= N
BY SMTT(10)

\* Indices less than one turn apart have different slots.
LEMMA SlotsDistinct ==
  ASSUME NEW N \in Nat \ {0}, NEW i \in Int, NEW j \in Int, i < j, j < i + N
  PROVE  i % N # j % N
<1> SUFFICES ASSUME i % N = j % N PROVE FALSE
  OBVIOUS
<1>1. PICK p \in Int : i = N * p + (i % N)
  BY Division
<1>2. PICK q \in Int : j = N * q + (j % N)
  BY Division
<1>3. j - i = N * (q - p)
  BY <1>1, <1>2, SlotInRange
<1>4. q - p > 0
  BY <1>3, SMTT(10)
<1> QED BY <1>3, <1>4, MultipleBound

\* Before the end of the ring the slot advances with the index.
LEMMA SlotBeforeWrap ==
  ASSUME NEW N \in Nat \ {0}, NEW h \in Int, NEW k \in Nat, k < N - (h % N)
  PROVE  (h + k) % N = (h % N) + k
<1> DEFINE s == h % N
<1>1. PICK q \in Int : h = N * q + s
  BY Division
<1>2. s + k \in 0..N-1
  BY SlotInRange
<1>3. s \in Int /\ h + k \in Int
  BY SlotInRange
<1> HIDE DEF s
<1>4. h + k = N * q + (s + k)
  BY <1>1, <1>3
<1>5. (h + k) % N = s + k
  BY <1>2, <1>3, <1>4, SlotUnique
<1> QED BY <1>5 DEF s

\* Past the end it starts over at the ring's beginning.
LEMMA SlotAfterWrap ==
  ASSUME NEW N \in Nat \ {0}, NEW h \in Int, NEW k \in Nat,
         k >= N - (h % N), k < N
  PROVE  (h + k) % N = (h % N) + k - N
<1> DEFINE s == h % N
<1>1. PICK q \in Int : h = N * q + s
  BY Division
<1>2. s + k - N \in 0..N-1
  BY SlotInRange
<1>3. s \in Int /\ h + k \in Int
  BY SlotInRange
<1> HIDE DEF s
<1>4. N * (q + 1) = N * q + N
  OBVIOUS
<1>5. h + k = N * (q + 1) + (s + k - N)
  BY <1>1, <1>3, <1>4
<1>6. (h + k) % N = s + k - N
  <2>1. \A p \in Int, r \in 0..N-1 : h + k = N * p + r => (h + k) % N = r
    BY <1>3, SlotUnique
  <2> QED BY <2>1, <1>2, <1>5, q + 1 \in Int
<1> QED BY <1>6 DEF s

\* A whole turn leads back to the same slot.
LEMMA WholeTurn ==
  ASSUME NEW N \in Nat \ {0}, NEW k \in Int
  PROVE  (N + k) % N = k % N
<1> DEFINE s == k % N
<1>1. PICK q \in Int : k = N * q + s
  BY Division
<1>2. s \in 0..N-1
  BY SlotInRange
<1> HIDE DEF s
<1>3. N * (q + 1) = N * q + N
  OBVIOUS
<1>4. N + k = N * (q + 1) + s
  BY <1>1, <1>2, <1>3
<1>5. (N + k) % N = s
  <2>1. \A p \in Int, r \in 0..N-1 : N + k = N * p + r => (N + k) % N = r
    <3>1. N + k \in Int
      OBVIOUS
    <3> QED BY <3>1, SlotUnique
  <2> QED BY <2>1, <1>2, <1>4, q + 1 \in Int
<1> QED BY <1>5 DEF s

\* The slot of a slot's successors is that of the index's.
LEMMA SlotOfSlot ==
  ASSUME NEW N \in Nat \ {0}, NEW i \in Int, NEW k \in Int
  PROVE  ((i % N) + k) % N = (i + k) % N
<1> DEFINE s == i % N
           r == (i + k) % N
<1>1. PICK p \in Int : i = N * p + s
  BY Division
<1>2. PICK q \in Int : i + k = N * q + r
  BY Division, i + k \in Int
<1>3. s \in 0..N-1 /\ r \in 0..N-1
  BY SlotInRange, i + k \in Int
<1> HIDE DEF s, r
<1>4. N * (q - p) = N * q - N * p
  OBVIOUS
<1>5. s + k = N * (q - p) + r
  BY <1>1, <1>2, <1>3, <1>4
<1>6. (s + k) % N = r
  <2>1. \A d \in Int, t \in 0..N-1 : s + k = N * d + t => (s + k) % N = t
    BY SlotUnique, <1>3, s + k \in Int
  <2> QED BY <2>1, <1>3, <1>5, q - p \in Int
<1> QED BY <1>6 DEF s, r

-----------------------------------------------------------------------------
(* Least and greatest elements.                                            *)

\* Among the subsets of a finite set with some property one is minimal.  This
\* is induction over finite sets, said of a set of counterexamples.
LEMMA MinimalSubset ==
  ASSUME NEW S, IsFiniteSet(S), NEW B \in SUBSET (SUBSET S), B # {}
  PROVE  \E T \in B : \A U \in B : U \subseteq T => U = T
<1>1. FiniteSubsetsOf(S) = SUBSET S
  BY FS_FiniteSubsetsOfFinite
<1>2. \E T \in B : \A U \in B : ~ (<<U, T>> \in StrictSubsetOrdering(S))
  BY <1>1, FS_StrictSubsetOrderingWellFounded, WFMin
<1> QED BY <1>2 DEF StrictSubsetOrdering

\* What a function gives for finitely many arguments is finite.
LEMMA ImageIsFinite ==
  ASSUME NEW S, IsFiniteSet(S), NEW f
  PROVE  IsFiniteSet({f[x] : x \in S})
<1> DEFINE T == {f[x] : x \in S}
           g == [x \in S |-> f[x]]
<1>1. g \in Surjection(S, T)
  BY DEF Surjection
<1> HIDE DEF T, g
<1>2. \A h \in Surjection(S, T) : IsFiniteSet(T)
  BY FS_Surjection
<1> QED BY <1>1, <1>2 DEF T

\* A finite set of numbers has a greatest element.
LEMMA MaxOf ==
  ASSUME NEW S, S \subseteq Int, IsFiniteSet(S), S # {}
  PROVE  Max(S) \in S /\ \A y \in S : Max(S) >= y
<1> DEFINE Above(x) == {y \in S : y >= x}
           B == {b \in SUBSET S : \E x \in S : b = Above(x)}
<1>1. PICK T \in B : \A U \in B : U \subseteq T => U = T
  <2>1. B \in SUBSET (SUBSET S) /\ B # {}
    OBVIOUS
  <2> HIDE DEF B
  <2>2. IsFiniteSet(S)
    OBVIOUS
  <2> QED BY ONLY <2>1, <2>2, MinimalSubset
<1>2. PICK x \in S : T = Above(x)
  OBVIOUS
<1>3. ASSUME NEW y \in S PROVE x >= y
  <2> SUFFICES ASSUME y > x PROVE FALSE
    OBVIOUS
  <2>1. Above(y) \in B /\ x \notin Above(y) /\ x \in Above(x)
    OBVIOUS
  <2>2. Above(y) \subseteq Above(x)
    <3> SUFFICES ASSUME NEW z \in S, z >= y PROVE z >= x
      OBVIOUS
    <3>1. x \in Int /\ y \in Int /\ z \in Int
      OBVIOUS
    <3> QED BY <3>1
  <2> HIDE DEF B
  <2> QED BY <1>1, <1>2, <2>1, <2>2
<1> QED BY <1>3 DEF Max

\* And a least one.
LEMMA MinOf ==
  ASSUME NEW S, S \subseteq Int, IsFiniteSet(S), S # {}
  PROVE  Min(S) \in S /\ \A y \in S : Min(S) =< y
<1> DEFINE Below(x) == {y \in S : y =< x}
           B == {b \in SUBSET S : \E x \in S : b = Below(x)}
<1>1. PICK T \in B : \A U \in B : U \subseteq T => U = T
  <2>1. B \in SUBSET (SUBSET S) /\ B # {}
    OBVIOUS
  <2> HIDE DEF B
  <2>2. IsFiniteSet(S)
    OBVIOUS
  <2> QED BY ONLY <2>1, <2>2, MinimalSubset
<1>2. PICK x \in S : T = Below(x)
  OBVIOUS
<1>3. ASSUME NEW y \in S PROVE x =< y
  <2> SUFFICES ASSUME y < x PROVE FALSE
    OBVIOUS
  <2>1. Below(y) \in B /\ x \notin Below(y) /\ x \in Below(x)
    OBVIOUS
  <2>2. Below(y) \subseteq Below(x)
    <3> SUFFICES ASSUME NEW z \in S, z =< y PROVE z =< x
      OBVIOUS
    <3>1. x \in Int /\ y \in Int /\ z \in Int
      OBVIOUS
    <3> QED BY <3>1
  <2> HIDE DEF B
  <2> QED BY <1>1, <1>2, <2>1, <2>2
<1> QED BY <1>3 DEF Min

\* Whatever is in the set and at most all of it is the least element.
LEMMA MinIs ==
  ASSUME NEW S, S \subseteq Int, NEW x \in S, \A y \in S : x =< y
  PROVE  Min(S) = x
<1>1. \A z \in S : (\A y \in S : z =< y) => z = x
  OBVIOUS
<1> QED BY <1>1 DEF Min

LEMMA MaxIs ==
  ASSUME NEW S, S \subseteq Int, NEW x \in S, \A y \in S : x >= y
  PROVE  Max(S) = x
<1>1. \A z \in S : (\A y \in S : z >= y) => z = x
  OBVIOUS
<1> QED BY <1>1 DEF Max

-----------------------------------------------------------------------------
(* Sums. *)

\* The sizes of disjoint sets sum up to the size of their union.
LEMMA SumOfSizes ==
  ASSUME NEW S, IsFiniteSet(S), NEW c, NEW P,
         \A q \in S : IsFiniteSet(P[q]) /\ c[q] = Cardinality(P[q]),
         \A p, q \in S : p # q => P[p] \cap P[q] = {}
  PROVE  SumFunctionOnSet(c, S) = Cardinality(UNION {P[q] : q \in S})
<1> DEFINE All(s) == UNION {P[q] : q \in s}
           g == [s \in SUBSET S |-> Cardinality(All(s))]
           Rhs(f, s) == IF s = {} THEN 0
                        ELSE c[CHOOSE x \in s : TRUE] + f[s \ {CHOOSE x \in s : TRUE}]
<1>1. ASSUME NEW s \in SUBSET S
      PROVE  IsFiniteSet(All(s))
  <2>1. IsFiniteSet(s)
    BY FS_Subset
  <2>2. IsFiniteSet({P[q] : q \in s})
    BY <2>1, ImageIsFinite
  <2> QED BY <2>2, FS_UNION
<1>2. ASSUME NEW s \in SUBSET S PROVE g[s] = Rhs(g, s)
  <2>1. CASE s = {}
    BY <2>1, FS_EmptySet
  <2>2. CASE s # {}
    <3> DEFINE x == CHOOSE y \in s : TRUE
    <3>1. x \in s
      BY <2>2
    <3> HIDE DEF x
    <3>2. s \ {x} \in SUBSET S /\ x \in S
      BY <3>1
    <3>3. All(s) = P[x] \cup All(s \ {x}) /\ P[x] \cap All(s \ {x}) = {}
      BY <3>1
    <3>4. IsFiniteSet(P[x]) /\ IsFiniteSet(All(s \ {x}))
      BY <3>2, <1>1
    <3> HIDE DEF All
    <3>5. Cardinality(All(s)) = Cardinality(P[x]) + Cardinality(All(s \ {x}))
      <4>1. Cardinality(P[x]) \in Nat /\ Cardinality(All(s \ {x})) \in Nat
        BY <3>4, FS_CardinalityType
      <4>2. Cardinality(P[x] \cup All(s \ {x}))
              = Cardinality(P[x]) + Cardinality(All(s \ {x}))
                - Cardinality(P[x] \cap All(s \ {x}))
        BY <3>4, FS_Union
      <4>3. Cardinality(P[x] \cap All(s \ {x})) = 0
        BY <3>3, FS_EmptySet
      <4> QED BY <4>1, <4>2, <4>3, <3>3
    <3>6. g[s] = c[x] + g[s \ {x}]
      BY <3>2, <3>5
    <3> HIDE DEF g
    <3> QED BY <3>6, <2>2 DEF x
  <2> QED BY <2>1, <2>2
<1>3. ASSUME NEW h, h = [s \in SUBSET S |-> Rhs(h, s)] PROVE h = g
  <2> SUFFICES ASSUME NEW s0 \in SUBSET S, h[s0] # g[s0] PROVE FALSE
    BY <1>3
  <2> DEFINE B == {s \in SUBSET S : h[s] # g[s]}
  <2>1. PICK T \in B : \A U \in B : U \subseteq T => U = T
    <3>1. B \in SUBSET (SUBSET S) /\ B # {}
      OBVIOUS
    <3> HIDE DEF B
    <3> QED BY <3>1, MinimalSubset
  <2>2. h[T] = Rhs(h, T) /\ g[T] = Rhs(g, T)
    <3> HIDE DEF g, Rhs
    <3>1. T \in SUBSET S
      OBVIOUS
    <3>2. h[T] = Rhs(h, T)
      BY <1>3, <3>1
    <3> QED BY <1>2, <3>1, <3>2
  <2>3. T # {}
    <3> HIDE DEF g
    <3> QED BY <2>2
  <2> DEFINE x == CHOOSE y \in T : TRUE
  <2>4. x \in T
    BY <2>3
  <2>5. h[T \ {x}] = g[T \ {x}]
    <3> HIDE DEF x, g
    <3>1. T \ {x} \notin B
      BY <2>1, <2>4
    <3> QED BY <3>1
  <2>6. h[T] = g[T]
    <3> HIDE DEF g
    <3> QED BY <2>2, <2>3, <2>5
  <2> QED BY <2>6
<1>4. g = [s \in SUBSET S |-> Rhs(g, s)]
  <2> HIDE DEF Rhs
  <2>1. \A s \in SUBSET S : g[s] = Rhs(g, s)
    BY <1>2
  <2>2. [s \in SUBSET S |-> g[s]] = [s \in SUBSET S |-> Rhs(g, s)]
    BY <2>1, Zenon
  <2>3. g = [s \in SUBSET S |-> g[s]]
    BY Zenon
  <2> QED BY <2>2, <2>3, Zenon
<1> HIDE DEF g
<1>5. SumFunctionOnSet(c, S) = g[S]
  <2>1. \A h : h = [s \in SUBSET S |-> Rhs(h, s)] => h = g
    BY <1>3
  <2> QED BY <2>1, <1>4, Zenon DEF SumFunctionOnSet, FoldFunctionOnSet, MapThenFoldSet
<1> QED BY <1>5 DEF g
=============================================================================
