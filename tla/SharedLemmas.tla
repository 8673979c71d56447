----------------------------- MODULE SharedLemmas ------------------------------
(***************************************************************************)
(* Facts that the proofs of several components rest on: of sequences and   *)
(* what appending to them changes; of the natural numbers, of sequences    *)
(* and of finite sets, that induction over them is sound; of functions     *)
(* defined from the value one before, that there are such; of sums over a  *)
(* finite set, that they are the same in any order, by rows or by columns; *)
(* of loops that keep some members of a sequence; of how often a sequence  *)
(* has the members of a set; and of averages, where they lie.              *)
(***************************************************************************)
EXTENDS Integers, Sequences, Functions, FiniteSetTheorems, TLAPS

-------------------------------------------------------------------------------
(* Sequences without repetition.                                             *)

LEMMA EmptyRange == Range(<<>>) = {} /\ IsInjective(<<>>)
  BY DEF Range, IsInjective

LEMMA AppendsNew ==
  ASSUME NEW S, NEW s \in Seq(S), NEW e \in S, IsInjective(s), e \notin Range(s)
  PROVE  /\ Append(s, e) \in Seq(S)
         /\ IsInjective(Append(s, e))
         /\ Range(Append(s, e)) = Range(s) \cup {e}
  <1> DEFINE t == Append(s, e)
  <1>1. /\ t \in Seq(S) /\ Len(t) = Len(s) + 1 /\ Len(s) \in Nat
        /\ DOMAIN s = 1..Len(s) /\ DOMAIN t = 1..Len(t)
        /\ \A i \in 1..Len(s) : t[i] = s[i]
        /\ t[Len(s) + 1] = e
    OBVIOUS
  <1>2. IsInjective(t)
    BY <1>1 DEF IsInjective, Range
  <1>3. Range(t) = Range(s) \cup {e}
    BY <1>1 DEF Range
  <1> QED
    BY <1>1, <1>2, <1>3

LEMMA AppendRange ==
  ASSUME NEW S, NEW s \in Seq(S), NEW e \in S
  PROVE  /\ Append(s, e) \in Seq(S)
         /\ Range(Append(s, e)) = Range(s) \cup {e}
  <1> DEFINE t == Append(s, e)
  <1>1. /\ t \in Seq(S) /\ Len(t) = Len(s) + 1 /\ Len(s) \in Nat
        /\ DOMAIN s = 1..Len(s) /\ DOMAIN t = 1..Len(t)
        /\ \A i \in 1..Len(s) : t[i] = s[i]
        /\ t[Len(s) + 1] = e
    OBVIOUS
  <1>2. Range(t) = Range(s) \cup {e}
    BY <1>1 DEF Range
  <1> QED
    BY <1>1, <1>2

LEMMA LastAppended ==
  ASSUME NEW S, NEW s \in Seq(S), NEW e \in S
  PROVE  /\ Append(s, e) \in Seq(S) /\ Append(s, e) # <<>>
         /\ Append(s, e)[Len(Append(s, e))] = e
  <1>1. /\ Append(s, e) \in Seq(S) /\ Len(s) \in Nat
        /\ Len(Append(s, e)) = Len(s) + 1 /\ Append(s, e)[Len(s) + 1] = e
    OBVIOUS
  <1>2. Append(s, e) # <<>>
    BY <1>1
  <1> QED
    BY <1>1, <1>2

LEMMA LastOfTail ==
  ASSUME NEW S, NEW s \in Seq(S), s # <<>>
  PROVE  /\ Head(s) \in S /\ Tail(s) \in Seq(S)
         /\ Tail(s) # <<>> => Tail(s)[Len(Tail(s))] = s[Len(s)]
         /\ Tail(s) = <<>> => Head(s) = s[Len(s)]
  <1> DEFINE t == Tail(s)
  <1>1. /\ Len(s) \in Nat /\ Len(s) > 0 /\ Len(t) = Len(s) - 1
        /\ Head(s) \in S /\ t \in Seq(S) /\ Head(s) = s[1]
        /\ \A i \in 1..Len(t) : t[i] = s[i + 1]
    OBVIOUS
  <1> HIDE DEF t
  <1>2. t = <<>> => Len(s) = 1
    <2>1. t = <<>> => Len(t) = 0
      OBVIOUS
    <2> QED
      BY <1>1, <2>1
  <1>3. t # <<>> => Len(t) \in 1..Len(t) /\ Len(t) + 1 = Len(s)
    <2>1. t # <<>> => Len(t) # 0
      BY <1>1
    <2> QED
      BY <1>1, <2>1
  <1> QED
    BY <1>1, <1>2, <1>3 DEF t

LEMMA EndOfSequence ==
  ASSUME NEW S, NEW s \in Seq(S), NEW k \in 0..Len(s)
  PROVE  /\ SubSeq(s, k + 1, Len(s)) \in Seq(S)
         /\ Len(SubSeq(s, k + 1, Len(s))) = Len(s) - k
         /\ \A n \in 1..Len(s) - k : SubSeq(s, k + 1, Len(s))[n] = s[k + n] /\ k + n \in 1..Len(s)
  OBVIOUS

LEMMA SameSequences ==
  ASSUME NEW S, NEW s \in Seq(S), NEW t \in Seq(S), Len(s) = Len(t), \A n \in 1..Len(s) : s[n] = t[n]
  PROVE  s = t
  OBVIOUS

LEMMA TakesHead ==
  ASSUME NEW S, NEW s \in Seq(S), s # <<>>, IsInjective(s)
  PROVE  /\ Head(s) \in S
         /\ Tail(s) \in Seq(S)
         /\ IsInjective(Tail(s))
         /\ Head(s) \in Range(s)
         /\ Range(Tail(s)) = Range(s) \ {Head(s)}
  <1> DEFINE t == Tail(s)
  <1>1. /\ Len(s) \in Nat /\ Len(s) > 0 /\ Len(t) = Len(s) - 1
        /\ t \in Seq(S)
        /\ DOMAIN s = 1..Len(s) /\ DOMAIN t = 1..Len(t)
        /\ \A i \in 1..Len(t) : t[i] = s[i + 1]
        /\ Head(s) = s[1] /\ s[1] \in S
    OBVIOUS
  <1>2. IsInjective(t)
    BY <1>1 DEF IsInjective
  <1>3. Head(s) \in Range(s)
    BY <1>1 DEF Range
  <1>4. ASSUME NEW x \in Range(t) PROVE x \in Range(s) /\ x # Head(s)
    <2>1. PICK i \in 1..Len(t) : x = s[i + 1]
      BY <1>1, <1>4 DEF Range
    <2>2. i + 1 \in 1..Len(s) /\ i + 1 # 1
      BY <1>1, <2>1
    <2> QED
      BY <1>1, <2>1, <2>2 DEF IsInjective, Range
  <1>5. ASSUME NEW x \in Range(s), x # Head(s) PROVE x \in Range(t)
    <2>1. PICK i \in 1..Len(s) : x = s[i]
      BY <1>1, <1>5 DEF Range
    <2>2. i # 1 /\ i - 1 \in 1..Len(t) /\ t[i - 1] = s[i]
      BY <1>1, <1>5, <2>1
    <2> QED
      BY <1>1, <2>1, <2>2 DEF Range
  <1> QED
    BY <1>1, <1>2, <1>3, <1>4, <1>5

-------------------------------------------------------------------------------
(* Induction, for a set instead of a predicate.                              *)

\* A number is the cardinality of the interval up to it, and finite sets are well-founded.
LEMMA LeastNumber ==
  ASSUME NEW T, T \subseteq Nat, T # {}
  PROVE  \E n \in T : \A m \in T : n <= m
  <1> DEFINE Upto(n) == 1..n
             Intervals == {Upto(n) : n \in T}
  <1>1. Intervals \subseteq FiniteSubsetsOf(Nat) /\ Intervals # {}
    BY FS_Interval DEF FiniteSubsetsOf
  <1>2. PICK x \in Intervals : \A y \in Intervals : <<y, x>> \notin StrictSubsetOrdering(Nat)
    BY <1>1, FS_StrictSubsetOrderingWellFounded, WFMin
  <1>3. PICK n \in T : x = Upto(n)
    BY <1>2
  <1>4. ASSUME NEW m \in T, m < n
        PROVE  FALSE
    <2>1. Upto(m) \subseteq Upto(n) /\ n \in Upto(n) /\ n \notin Upto(m)
      BY <1>4
    <2>2. Upto(m) # Upto(n) /\ Upto(m) \in SUBSET Nat /\ Upto(n) \in SUBSET Nat
      BY <2>1
    <2>3. <<Upto(m), Upto(n)>> \in StrictSubsetOrdering(Nat)
      BY <2>1, <2>2 DEF StrictSubsetOrdering
    <2> QED
      BY <1>2, <1>3, <2>3
  <1> QED
    BY <1>4

LEMMA SetInduction ==
  ASSUME NEW T, T \subseteq Nat, 0 \in T, \A n \in T : n + 1 \in T
  PROVE  T = Nat
  <1> SUFFICES ASSUME Nat \ T # {} PROVE FALSE
    OBVIOUS
  <1>1. PICK n \in Nat \ T : \A m \in Nat \ T : n <= m
    BY LeastNumber
  <1>2. n - 1 \in Nat /\ n - 1 \in T
    BY <1>1
  <1> QED
    BY <1>1, <1>2

\* What a sequence keeps when an element is appended holds of every sequence.
LEMMA SequenceInduction ==
  ASSUME NEW T, NEW P, <<>> \in P, \A s \in Seq(T) : \A e \in T : s \in P => Append(s, e) \in P
  PROVE  Seq(T) \subseteq P
  <1> DEFINE N == {n \in Nat : \A s \in Seq(T) : Len(s) = n => s \in P}
  <1>1. 0 \in N
    OBVIOUS
  <1>2. ASSUME NEW n \in N PROVE n + 1 \in N
    <2>1. n \in Nat /\ \A s \in Seq(T) : Len(s) = n => s \in P
      BY <1>2
    <2> HIDE DEF N
    <2>2. ASSUME NEW s \in Seq(T), Len(s) = n + 1 PROVE s \in P
      <3>1. PICK t : t = SubSeq(s, 1, n)
        OBVIOUS
      <3>2. t \in Seq(T) /\ Len(t) = n /\ \A i \in 1..n : t[i] = s[i]
        BY <2>1, <2>2, <3>1
      <3>3. s[n + 1] \in T
        BY <2>1, <2>2
      <3>4. PICK u : u = Append(t, s[n + 1])
        OBVIOUS
      <3>5. u \in Seq(T) /\ Len(u) = n + 1 /\ \A i \in 1..n + 1 : u[i] = s[i]
        BY <2>1, <3>2, <3>3, <3>4
      <3>6. u = s
        BY <2>2, <3>5, SameSequences
      <3> QED
        BY <2>1, <3>2, <3>3, <3>4, <3>6
    <2>3. n + 1 \in Nat
      BY <2>1
    <2> QED
      BY <2>2, <2>3 DEF N
  <1>3. N = Nat
    <2> HIDE DEF N
    <2>1. N \subseteq Nat
      BY DEF N
    <2> QED
      BY <1>1, <1>2, <2>1, SetInduction
  <1>4. ASSUME NEW s \in Seq(T) PROVE s \in P
    <2>1. Len(s) \in N
      BY <1>3
    <2> QED
      BY <2>1
  <1> QED
    BY <1>4

\* A function that is defined from its value one before exists: G says how.
StepFunctions(V) == [Nat \X V -> V]

Follows(f, V, a, G, n) ==
  f \in [0..n -> V] /\ f[0] = a /\ \A i \in 1..n : f[i] = G[<<i, f[i - 1]>>]

LEMMA RecursionExists ==
  ASSUME NEW V, NEW a \in V, NEW G \in StepFunctions(V), NEW n \in Nat
  PROVE  \E f : Follows(f, V, a, G, n)
  <1> USE DEF StepFunctions
  <1> DEFINE Defined(f, k) == f[0] = a /\ \A i \in 1..k : f[i] = G[<<i, f[i - 1]>>]
             T == {k \in Nat : \E f \in [0..k -> V] : Defined(f, k)}
  <1>1. 0 \in T
    <2>1. [i \in 0..0 |-> a] \in [0..0 -> V] /\ Defined([i \in 0..0 |-> a], 0)
      OBVIOUS
    <2> QED
      BY <2>1
  <1>2. ASSUME NEW k \in T
        PROVE  k + 1 \in T
    <2>1. PICK f \in [0..k -> V] : Defined(f, k)
      BY <1>2
    <2> DEFINE g == [i \in 0..k + 1 |-> IF i = k + 1 THEN G[<<k + 1, f[k]>>] ELSE f[i]]
    <2>2. k \in Nat /\ f[k] \in V /\ G[<<k + 1, f[k]>>] \in V
      BY <1>2, <2>1
    <2>3. g \in [0..k + 1 -> V] /\ \A i \in 0..k : g[i] = f[i]
      BY <2>2
    <2>4. g[k + 1] = G[<<k + 1, f[k]>>] /\ g[k] = f[k]
      BY <2>2, <2>3
    <2> HIDE DEF g
    <2>5. g[0] = a
      BY <2>1, <2>2, <2>3
    <2>6. ASSUME NEW i \in 1..k + 1
          PROVE  g[i] = G[<<i, g[i - 1]>>]
      <3>1. CASE i = k + 1
        <4>1. i - 1 = k
          BY <2>2, <3>1
        <4> QED
          BY <2>4, <3>1, <4>1
      <3>2. CASE i # k + 1
        <4>1. i \in 1..k /\ i \in 0..k /\ i - 1 \in 0..k
          BY <2>2, <3>2
        <4> QED
          BY <2>1, <2>3, <4>1
      <3> QED
        BY <3>1, <3>2
    <2>7. Defined(g, k + 1) /\ k + 1 \in Nat
      BY <2>2, <2>5, <2>6
    <2> QED
      BY <2>3, <2>7
  <1>3. T = Nat
    <2> HIDE DEF T
    <2>1. T \subseteq Nat
      BY DEF T
    <2> QED
      BY <1>1, <1>2, <2>1, SetInduction
  <1> QED
    BY <1>3 DEF Follows

\* Where a step of a loop does not leave, the loop stays.
LEMMA LoopStays ==
  ASSUME NEW V, NEW n \in Nat, NEW f, f[0] \in V, \A i \in 1..n : f[i - 1] \in V => f[i] \in V
  PROVE  \A i \in 0..n : f[i] \in V
  <1> DEFINE T == {k \in Nat : k <= n => f[k] \in V}
  <1>1. ASSUME NEW k \in T PROVE k + 1 \in T
    <2>1. CASE k + 1 <= n
      <3>1. k \in Nat /\ f[k] \in V /\ k + 1 \in 1..n /\ (k + 1) - 1 = k
        BY <1>1, <2>1
      <3> QED
        BY <3>1
    <2>2. CASE ~(k + 1 <= n)
      BY <1>1, <2>2
    <2> QED
      BY <2>1, <2>2
  <1>2. T \subseteq Nat /\ 0 \in T
    OBVIOUS
  <1>3. T = Nat
    <2> HIDE DEF T
    <2> QED
      BY <1>1, <1>2, SetInduction
  <1> QED
    BY <1>3


-------------------------------------------------------------------------------
(* Finite sets, and sums over them.                                          *)

\* What holds of a set when it holds of the set without any one of its elements holds of
\* every finite set.
LEMMA FiniteInduction ==
  ASSUME NEW S, IsFiniteSet(S), NEW P,
         \A T \in SUBSET S : (\A x \in T : T \ {x} \in P) => T \in P
  PROVE  \A T \in SUBSET S : T \in P
  <1> DEFINE N == {n \in Nat : \A T \in SUBSET S : Cardinality(T) = n => T \in P}
  <1>1. 0 \in N
    <2>1. ASSUME NEW T \in SUBSET S, Cardinality(T) = 0 PROVE T = {}
      BY <2>1, FS_Subset, FS_EmptySet
    <2> QED
      BY <2>1
  <1>2. ASSUME NEW n \in N PROVE n + 1 \in N
    <2>1. ASSUME NEW T \in SUBSET S, Cardinality(T) = n + 1 PROVE T \in P
      <3>1. ASSUME NEW x \in T PROVE T \ {x} \in P
        <4>1. n \in Nat /\ \A U \in SUBSET S : Cardinality(U) = n => U \in P
          BY <1>2
        <4> HIDE DEF N
        <4>2. IsFiniteSet(T)
          BY FS_Subset
        <4>3. Cardinality(T \ {x}) = Cardinality(T) - 1
          BY <3>1, <4>2, FS_RemoveElement
        <4>4. Cardinality(T \ {x}) = n /\ T \ {x} \in SUBSET S
          BY <2>1, <4>1, <4>3
        <4> QED
          BY <4>1, <4>4
      <3> QED
        BY <3>1
    <2> QED
      BY <1>2, <2>1
  <1>3. N = Nat
    <2> HIDE DEF N
    <2>1. N \subseteq Nat
      BY DEF N
    <2> QED
      BY <1>1, <1>2, <2>1, SetInduction
  <1>4. ASSUME NEW T \in SUBSET S PROVE T \in P
    <2>1. Cardinality(T) \in N
      BY <1>3, FS_Subset, FS_CardinalityType
    <2> QED
      BY <2>1
  <1> QED
    BY <1>4

\* What the fold of a sum computes for each subset on its way.
SumsTo(it, f, S) ==
  /\ it \in [SUBSET S -> Int]
  /\ \A s \in SUBSET S :
        it[s] = IF s = {} THEN 0
                ELSE f[CHOOSE x \in s : TRUE] + it[s \ {CHOOSE x \in s : TRUE}]

LEMMA SumExists ==
  ASSUME NEW S, IsFiniteSet(S), NEW f, \A x \in S : f[x] \in Int
  PROVE  \E it : SumsTo(it, f, S)
  <1> DEFINE One(s) == CHOOSE x \in s : TRUE
             V == [SUBSET S -> Int]
             none == [s \in SUBSET S |-> 0]
             G == [w \in Nat \X V |-> [s \in SUBSET S |->
                     IF s = {} THEN 0 ELSE f[One(s)] + w[2][s \ {One(s)}]]]
             size == Cardinality(S)
  <1>1. size \in Nat
    BY FS_CardinalityType
  <1>2. \A s \in SUBSET S : s # {} => One(s) \in s
    OBVIOUS
  <1>3. none \in V
    OBVIOUS
  <1>4. G \in StepFunctions(V)
    <2> SUFFICES ASSUME NEW w \in Nat \X V
                 PROVE  [s \in SUBSET S |-> IF s = {} THEN 0 ELSE f[One(s)] + w[2][s \ {One(s)}]] \in V
      BY DEF StepFunctions
    <2>1. ASSUME NEW s \in SUBSET S, s # {}
          PROVE  f[One(s)] + w[2][s \ {One(s)}] \in Int
      <3> HIDE DEF One
      <3>1. f[One(s)] \in Int /\ s \ {One(s)} \in SUBSET S
        BY <1>2, <2>1
      <3> QED
        BY <3>1
    <2> QED
      BY <2>1
  <1>5. PICK h : Follows(h, V, none, G, size)
    <2> HIDE DEF V, none, G, size
    <2> QED
      BY <1>1, <1>3, <1>4, RecursionExists
  <1>6. /\ h \in [0..size -> V] /\ h[0] = none
        /\ \A i \in 1..size : h[i] = G[<<i, h[i - 1]>>]
    <2> HIDE DEF V, none, G, size
    <2> QED
      BY <1>5 DEF Follows
  <1>7. ASSUME NEW i \in 1..size, NEW s \in SUBSET S
        PROVE  h[i][s] = IF s = {} THEN 0 ELSE f[One(s)] + h[i - 1][s \ {One(s)}]
    <2>1. i \in Nat /\ h[i - 1] \in V /\ h[i] = G[<<i, h[i - 1]>>]
      <3> HIDE DEF V, none, G, size
      <3> QED
        BY <1>1, <1>6
    <2>2. <<i, h[i - 1]>> \in Nat \X V
      BY <2>1
    <2> HIDE DEF V, One
    <2> QED
      BY <2>1, <2>2
  <1> DEFINE it == [s \in SUBSET S |-> h[Cardinality(s)][s]]
  <1>8. \A s \in SUBSET S : IsFiniteSet(s) /\ Cardinality(s) \in 0..size
    BY FS_Subset, FS_CardinalityType, <1>1
  <1>9. it \in [SUBSET S -> Int]
    <2> HIDE DEF size
    <2> QED
      BY <1>6, <1>8
  <1>10. ASSUME NEW s \in SUBSET S
         PROVE  it[s] = IF s = {} THEN 0 ELSE f[One(s)] + it[s \ {One(s)}]
    <2>1. CASE s = {}
      BY <1>6, <2>1, FS_EmptySet
    <2>2. CASE s # {}
      <3>1. One(s) \in s
        BY <1>2, <2>2
      <3> HIDE DEF One
      <3>2. Cardinality(s \ {One(s)}) = Cardinality(s) - 1 /\ s \ {One(s)} \in SUBSET S
        BY <1>8, <3>1, FS_RemoveElement
      <3>3. Cardinality(s) \in 1..size
        BY <1>1, <1>8, <2>2, FS_EmptySet
      <3>4. h[Cardinality(s)][s] = f[One(s)] + h[Cardinality(s) - 1][s \ {One(s)}]
        BY <1>7, <2>2, <3>3
      <3> QED
        BY <2>2, <3>2, <3>4
    <2> QED
      BY <2>1, <2>2
  <1> HIDE DEF it
  <1>11. SumsTo(it, f, S)
    BY <1>9, <1>10 DEF SumsTo
  <1> QED
    BY <1>11

\* It does not depend on the order the elements are taken in.
IsSum(it, f, S) ==
  /\ it \in [SUBSET S -> Int]
  /\ it[{}] = 0
  /\ \A s \in SUBSET S : \A x \in s : it[s] = f[x] + it[s \ {x}]

LEMMA SumInAnyOrder ==
  ASSUME NEW S, IsFiniteSet(S), NEW f, \A x \in S : f[x] \in Int, NEW it, SumsTo(it, f, S)
  PROVE  IsSum(it, f, S)
  <1> DEFINE P == {s \in SUBSET S : \A x \in s : it[s] = f[x] + it[s \ {x}]}
  <1>1. /\ it \in [SUBSET S -> Int] /\ it[{}] = 0
        /\ \A s \in SUBSET S : s # {} =>
              \E y \in s : it[s] = f[y] + it[s \ {y}]
    BY DEF SumsTo
  <1>2. ASSUME NEW T \in SUBSET S, \A z \in T : T \ {z} \in P PROVE T \in P
    <2>1. ASSUME NEW x \in T PROVE it[T] = f[x] + it[T \ {x}]
      <3>1. PICK y \in T : it[T] = f[y] + it[T \ {y}]
        BY <1>1, <2>1
      <3>2. CASE x # y
        <4>1. T \ {y} \in P /\ T \ {x} \in P
          BY <1>2, <2>1, <3>1
        <4>2. it[T \ {y}] = f[x] + it[(T \ {y}) \ {x}] /\ it[T \ {x}] = f[y] + it[(T \ {x}) \ {y}]
          BY <2>1, <3>1, <3>2, <4>1
        <4>3. PICK r \in SUBSET S : (T \ {y}) \ {x} = r /\ (T \ {x}) \ {y} = r
          OBVIOUS
        <4>4. f[x] \in Int /\ f[y] \in Int /\ it[r] \in Int
          BY <1>1
        <4>5. it[T \ {y}] = f[x] + it[r] /\ it[T \ {x}] = f[y] + it[r]
          BY <4>2, <4>3
        <4>6. f[y] + (f[x] + it[r]) = f[x] + (f[y] + it[r])
          BY <4>4
        <4> QED
          BY <3>1, <4>5, <4>6
      <3> QED
        BY <3>1, <3>2
    <2> QED
      BY <2>1
  <1>3. \A T \in SUBSET S : T \in P
    <2> HIDE DEF P
    <2> QED
      BY <1>2, FiniteInduction
  <1> QED
    BY <1>1, <1>3 DEF IsSum

LEMMA SumOfEqual ==
  ASSUME NEW S, IsFiniteSet(S), NEW U, NEW f, NEW g, NEW it, NEW jt, S \subseteq U,
         \A x \in S : f[x] = g[x], \A x \in S : f[x] \in Int,
         IsSum(it, f, S), IsSum(jt, g, U)
  PROVE  it[S] = jt[S]
  <1> DEFINE P == {s \in SUBSET S : it[s] = jt[s]}
  <1>1. ASSUME NEW T \in SUBSET S, \A z \in T : T \ {z} \in P PROVE T \in P
    <2>1. CASE T = {}
      BY <2>1 DEF IsSum
    <2>2. CASE T # {}
      <3>1. PICK x \in T : TRUE
        BY <2>2
      <3>2. it[T \ {x}] = jt[T \ {x}]
        BY <1>1, <3>1
      <3>3. it[T] = f[x] + it[T \ {x}] /\ jt[T] = g[x] + jt[T \ {x}] /\ f[x] = g[x]
        BY <3>1 DEF IsSum
      <3> QED
        BY <3>2, <3>3
    <2> QED
      BY <2>1, <2>2
  <1>2. \A T \in SUBSET S : T \in P
    <2> HIDE DEF P
    <2> QED
      BY <1>1, FiniteInduction
  <1> QED
    BY <1>2

\* The sum of the values of a function.
TotalOf(f) == FoldFunction(+, 0, f)

LEMMA TotalIsSum ==
  ASSUME NEW S, IsFiniteSet(S), NEW f, DOMAIN f = S, \A x \in S : f[x] \in Int
  PROVE  \E it : IsSum(it, f, S) /\ TotalOf(f) = it[S]
  <1> DEFINE Body(it) == [s \in SUBSET S |->
                IF s = {} THEN 0 ELSE f[CHOOSE x \in s : TRUE] + it[s \ {CHOOSE x \in s : TRUE}]]
             chosen == CHOOSE it : it = Body(it)
  <1>1. PICK jt : SumsTo(jt, f, S)
    BY SumExists
  <1>2. jt = Body(jt)
    BY <1>1 DEF SumsTo
  <1>3. chosen = Body(chosen)
    <2> HIDE DEF Body
    <2> QED
      BY <1>2
  <1>4. TotalOf(f) = chosen[S]
    BY DEF TotalOf, FoldFunction, FoldFunctionOnSet, MapThenFoldSet
  <1> HIDE DEF chosen
  <1>5. DOMAIN chosen = SUBSET S
    BY <1>3
  <1>6. \A s \in SUBSET S : chosen[s] = IF s = {} THEN 0
            ELSE f[CHOOSE x \in s : TRUE] + chosen[s \ {CHOOSE x \in s : TRUE}]
    BY <1>3
  <1>7. \A s \in SUBSET S : chosen[s] = jt[s]
    <2> DEFINE P == {s \in SUBSET S : chosen[s] = jt[s]}
    <2>1. ASSUME NEW T \in SUBSET S, \A z \in T : T \ {z} \in P PROVE T \in P
      <3>1. CASE T = {}
        BY <1>1, <1>6, <3>1 DEF SumsTo
      <3>2. CASE T # {}
        <4> DEFINE y == CHOOSE x \in T : TRUE
        <4>1. y \in T
          BY <3>2
        <4>2. chosen[T] = f[y] + chosen[T \ {y}]
          BY <1>6, <3>2
        <4>3. jt[T] = f[y] + jt[T \ {y}]
          BY <1>1, <3>2 DEF SumsTo
        <4>4. T \ {y} \in P
          BY <2>1, <4>1
        <4> HIDE DEF y
        <4> QED
          BY <4>2, <4>3, <4>4
      <3> QED
        BY <3>1, <3>2
    <2>2. \A T \in SUBSET S : T \in P
      <3> HIDE DEF P
      <3> QED
        BY <2>1, FiniteInduction
    <2> QED
      BY <2>2
  <1>8. IsSum(jt, f, S) /\ TotalOf(f) = jt[S]
    BY <1>1, <1>4, <1>7, SumInAnyOrder
  <1> QED
    BY <1>8

\* The sum of the values at some of the arguments.
TotalOver(f, T) == TotalOf([y \in T |-> f[y]])

\* What the proofs about sums use: one element more adds its value, and no element is 0.
LEMMA TotalOfNone == ASSUME NEW f, DOMAIN f = {} PROVE TotalOf(f) = 0
  <1>1. IsFiniteSet({})
    BY FS_EmptySet
  <1>2. PICK it : IsSum(it, f, {}) /\ TotalOf(f) = it[{}]
    BY <1>1, TotalIsSum
  <1> QED
    BY <1>2 DEF IsSum

LEMMA TotalWithOne ==
  ASSUME NEW S, IsFiniteSet(S), NEW f \in [S -> Int], NEW x \in S
  PROVE  /\ TotalOf(f) = f[x] + TotalOver(f, S \ {x})
         /\ TotalOf(f) \in Int /\ TotalOver(f, S \ {x}) \in Int
  <1> DEFINE g == [y \in S \ {x} |-> f[y]]
  <1>1. PICK it : IsSum(it, f, S) /\ TotalOf(f) = it[S]
    <2>1. DOMAIN f = S /\ \A y \in S : f[y] \in Int
      OBVIOUS
    <2> QED
      BY <2>1, TotalIsSum
  <1>2. IsFiniteSet(S \ {x}) /\ DOMAIN g = S \ {x} /\ \A y \in S \ {x} : g[y] \in Int /\ g[y] = f[y]
    BY FS_RemoveElement
  <1> HIDE DEF g
  <1>3. PICK jt : IsSum(jt, g, S \ {x}) /\ TotalOf(g) = jt[S \ {x}]
    BY <1>2, TotalIsSum
  <1>4. jt[S \ {x}] = it[S \ {x}]
    BY <1>1, <1>2, <1>3, SumOfEqual
  <1>5. it[S] = f[x] + it[S \ {x}] /\ it[S] \in Int /\ it[S \ {x}] \in Int
    BY <1>1 DEF IsSum
  <1>6. TotalOver(f, S \ {x}) = TotalOf(g)
    BY DEF TotalOver, g
  <1> QED
    BY <1>1, <1>3, <1>4, <1>5, <1>6


LEMMA TotalSteps ==
  ASSUME NEW S, IsFiniteSet(S), NEW f \in [S -> Int]
  PROVE  /\ TotalOver(f, {}) = 0 /\ TotalOver(f, S) = TotalOf(f)
         /\ \A T \in SUBSET S : TotalOver(f, T) \in Int
         /\ \A T \in SUBSET S : \A x \in T : TotalOver(f, T) = f[x] + TotalOver(f, T \ {x})
  <1>1. TotalOver(f, {}) = 0
    BY TotalOfNone DEF TotalOver
  <1>2. TotalOver(f, S) = TotalOf(f)
    <2>1. [y \in S |-> f[y]] = f
      OBVIOUS
    <2> QED
      BY <2>1 DEF TotalOver
  <1>3. ASSUME NEW T \in SUBSET S, NEW x \in T
        PROVE  TotalOver(f, T) = f[x] + TotalOver(f, T \ {x}) /\ TotalOver(f, T) \in Int
    <2> DEFINE g == [y \in T |-> f[y]]
               rest == [y \in T \ {x} |-> f[y]]
    <2>1. IsFiniteSet(T) /\ g \in [T -> Int] /\ g[x] = f[x]
      BY FS_Subset
    <2>2. [y \in T \ {x} |-> g[y]] = rest
      OBVIOUS
    <2>3. TotalOver(f, T) = TotalOf(g) /\ TotalOver(f, T \ {x}) = TotalOf(rest)
      BY DEF TotalOver
    <2>4. TotalOver(g, T \ {x}) = TotalOf(rest)
      BY <2>2 DEF TotalOver
    <2> HIDE DEF g, rest
    <2>5. TotalOf(g) = g[x] + TotalOver(g, T \ {x}) /\ TotalOf(g) \in Int
      BY <2>1, TotalWithOne
    <2> QED
      BY <2>1, <2>3, <2>4, <2>5
  <1>4. ASSUME NEW T \in SUBSET S PROVE TotalOver(f, T) \in Int
    <2>1. CASE T = {}
      BY <1>1, <2>1
    <2>2. CASE T # {}
      BY <1>3, <2>2
    <2> QED
      BY <2>1, <2>2
  <1> QED
    BY <1>1, <1>2, <1>3, <1>4

LEMMA TotalOfNats ==
  ASSUME NEW S, IsFiniteSet(S), NEW f \in [S -> Nat]
  PROVE  TotalOf(f) \in Nat /\ \A x \in S : f[x] <= TotalOf(f)
  <1> DEFINE P == {T \in SUBSET S : TotalOver(f, T) \in Nat}
  <1>1. f \in [S -> Int]
    OBVIOUS
  <1>2. ASSUME NEW T \in SUBSET S, \A z \in T : T \ {z} \in P PROVE T \in P
    <2>1. CASE T = {}
      BY <1>1, <2>1, TotalSteps
    <2>2. CASE T # {}
      <3>1. PICK x \in T : TRUE
        BY <2>2
      <3>2. TotalOver(f, T) = f[x] + TotalOver(f, T \ {x})
        BY <1>1, <3>1, TotalSteps
      <3>3. TotalOver(f, T \ {x}) \in Nat /\ f[x] \in Nat
        BY <1>2, <3>1
      <3> QED
        BY <3>2, <3>3
    <2> QED
      BY <2>1, <2>2
  <1>3. \A T \in SUBSET S : T \in P
    <2> HIDE DEF P
    <2> QED
      BY <1>2, FiniteInduction
  <1>4. ASSUME NEW x \in S PROVE f[x] <= TotalOf(f)
    <2>1. TotalOf(f) = f[x] + TotalOver(f, S \ {x})
      BY <1>1, TotalWithOne
    <2>2. TotalOver(f, S \ {x}) \in Nat /\ f[x] \in Nat
      BY <1>3
    <2> QED
      BY <2>1, <2>2
  <1>5. TotalOver(f, S) = TotalOf(f)
    BY <1>1, TotalSteps
  <1> QED
    BY <1>3, <1>4, <1>5

LEMMA TotalChanged ==
  ASSUME NEW S, IsFiniteSet(S), NEW f \in [S -> Int], NEW x \in S, NEW v \in Int
  PROVE  TotalOf([f EXCEPT ![x] = v]) = TotalOf(f) - f[x] + v
  <1> DEFINE g == [f EXCEPT ![x] = v]
  <1>1. g \in [S -> Int] /\ g[x] = v
    OBVIOUS
  <1>2. TotalOver(g, S \ {x}) = TotalOver(f, S \ {x})
    <2>1. [y \in S \ {x} |-> g[y]] = [y \in S \ {x} |-> f[y]]
      OBVIOUS
    <2> QED
      BY <2>1 DEF TotalOver
  <1> HIDE DEF g
  <1>3. TotalOf(g) = g[x] + TotalOver(g, S \ {x})
    BY <1>1, TotalWithOne
  <1>4. TotalOf(f) = f[x] + TotalOver(f, S \ {x}) /\ TotalOver(f, S \ {x}) \in Int
    BY TotalWithOne
  <1>5. TotalOf(g) = TotalOf(f) - f[x] + v
    BY <1>1, <1>2, <1>3, <1>4
  <1> QED
    BY <1>5 DEF g

LEMMA TotalOfSums ==
  ASSUME NEW S, IsFiniteSet(S), NEW f \in [S -> Int], NEW g \in [S -> Int]
  PROVE  TotalOf([x \in S |-> f[x] + g[x]]) = TotalOf(f) + TotalOf(g)
  <1> DEFINE h == [x \in S |-> f[x] + g[x]]
             P == {T \in SUBSET S : TotalOver(h, T) = TotalOver(f, T) + TotalOver(g, T)}
  <1>1. h \in [S -> Int] /\ \A x \in S : h[x] = f[x] + g[x]
    OBVIOUS
  <1> HIDE DEF h
  <1>5. /\ TotalOver(h, {}) = 0
        /\ \A T \in SUBSET S : \A x \in T : TotalOver(h, T) = h[x] + TotalOver(h, T \ {x})
    BY <1>1, TotalSteps
  <1>6. /\ TotalOver(f, {}) = 0 /\ \A T \in SUBSET S : TotalOver(f, T) \in Int
        /\ \A T \in SUBSET S : \A x \in T : TotalOver(f, T) = f[x] + TotalOver(f, T \ {x})
    BY TotalSteps
  <1>7. /\ TotalOver(g, {}) = 0 /\ \A T \in SUBSET S : TotalOver(g, T) \in Int
        /\ \A T \in SUBSET S : \A x \in T : TotalOver(g, T) = g[x] + TotalOver(g, T \ {x})
    BY TotalSteps
  <1>2. ASSUME NEW T \in SUBSET S, \A z \in T : T \ {z} \in P PROVE T \in P
    <2>1. CASE T = {}
      BY <1>5, <1>6, <1>7, <2>1
    <2>2. CASE T # {}
      <3>1. PICK x \in T : TRUE
        BY <2>2
      <3>2. T \ {x} \in P
        BY <1>2, <3>1
      <3>3. /\ TotalOver(h, T) = h[x] + TotalOver(h, T \ {x})
            /\ TotalOver(f, T) = f[x] + TotalOver(f, T \ {x})
            /\ TotalOver(g, T) = g[x] + TotalOver(g, T \ {x})
            /\ TotalOver(f, T \ {x}) \in Int /\ TotalOver(g, T \ {x}) \in Int
        <4>1. T \ {x} \in SUBSET S
          OBVIOUS
        <4> QED
          BY <1>5, <1>6, <1>7, <3>1, <4>1, Zenon
      <3>4. f[x] \in Int /\ g[x] \in Int /\ h[x] = f[x] + g[x]
        BY <1>1, <3>1
      <3> QED
        BY <3>2, <3>3, <3>4
    <2> QED
      BY <2>1, <2>2
  <1>3. S \in P
    <2> HIDE DEF P
    <2> QED
      BY <1>2, FiniteInduction
  <1>4. TotalOver(h, S) = TotalOf(h) /\ TotalOver(f, S) = TotalOf(f) /\ TotalOver(g, S) = TotalOf(g)
    BY <1>1, TotalSteps
  <1> QED
    BY <1>3, <1>4 DEF h

\* The sums of the rows and of the columns of a table come to the same.
LEMMA TotalByRowsOrColumns ==
  ASSUME NEW A, IsFiniteSet(A), NEW B, IsFiniteSet(B), NEW F \in [A -> [B -> Int]]
  PROVE  TotalOf([a \in A |-> TotalOf(F[a])])
         = TotalOf([b \in B |-> TotalOf([a \in A |-> F[a][b]])])
  <1> DEFINE rows == [a \in A |-> TotalOf(F[a])]
             column(b) == [a \in A |-> F[a][b]]
             columns(T) == [b \in B |-> TotalOver(column(b), T)]
             P == {T \in SUBSET A : TotalOver(rows, T) = TotalOf(columns(T))}
  <1>1. \A a \in A : TotalOf(F[a]) \in Int
    BY TotalSteps
  <1>2. rows \in [A -> Int]
    BY <1>1
  <1>3. \A b \in B : column(b) \in [A -> Int]
    OBVIOUS
  <1>4. \A b \in B, T \in SUBSET A :
            /\ TotalOver(column(b), T) \in Int
            /\ \A a \in T : TotalOver(column(b), T) = F[a][b] + TotalOver(column(b), T \ {a})
    <2>1. \A b \in B : \A a \in A : column(b)[a] = F[a][b]
      OBVIOUS
    <2> HIDE DEF column
    <2> QED
      BY <1>3, <2>1, TotalSteps
  <1>5. \A T \in SUBSET A : columns(T) \in [B -> Int]
    <2> HIDE DEF column
    <2> QED
      BY <1>4
  <1>6. ASSUME NEW T \in SUBSET A, \A z \in T : T \ {z} \in P PROVE T \in P
    <2>1. CASE T = {}
      <3>1. columns(T) = [b \in B |-> 0]
        <4>1. \A b \in B : TotalOver(column(b), T) = 0
          <5> HIDE DEF column
          <5> QED
            BY <1>3, <2>1, TotalSteps
        <4> HIDE DEF column
        <4> QED
          BY <4>1
      <3>2. TotalOf([b \in B |-> 0]) = 0
        <4> DEFINE zero == [b \in B |-> 0]
        <4>1. zero \in [B -> Int] /\ [b \in B |-> zero[b] + zero[b]] = zero
          OBVIOUS
        <4> HIDE DEF zero
        <4>2. TotalOf(zero) = TotalOf(zero) + TotalOf(zero) /\ TotalOf(zero) \in Int
          BY <4>1, TotalOfSums, TotalSteps
        <4>3. PICK k \in Int : k = TotalOf(zero)
          BY <4>2, Zenon
        <4>4. k = k + k
          BY <4>2, <4>3, Zenon
        <4>5. k = 0
          BY <4>4
        <4> QED
          BY <4>3, <4>5, Zenon DEF zero
      <3>3. TotalOver(rows, T) = 0
        <4> HIDE DEF rows
        <4> QED
          BY <1>2, <2>1, TotalSteps
      <3> QED
        BY <3>1, <3>2, <3>3
    <2>2. CASE T # {}
      <3>1. PICK a \in T : TRUE
        BY <2>2
      <3>2. T \ {a} \in P
        BY <1>6, <3>1
      <3>3. TotalOver(rows, T) = TotalOf(F[a]) + TotalOver(rows, T \ {a})
        <4>1. rows[a] = TotalOf(F[a])
          OBVIOUS
        <4> HIDE DEF rows
        <4> QED
          BY <1>2, <3>1, <4>1, TotalSteps
      <3>4. columns(T) = [b \in B |-> F[a][b] + columns(T \ {a})[b]]
        <4> HIDE DEF column
        <4> QED
          BY <1>4, <3>1
      <3>5. columns(T \ {a}) \in [B -> Int] /\ F[a] \in [B -> Int]
        BY <1>5, <3>1
      <3>6. PICK r, c : r = F[a] /\ c = columns(T \ {a})
        OBVIOUS
      <3> HIDE DEF columns, rows
      <3>7. columns(T) = [b \in B |-> r[b] + c[b]] /\ r \in [B -> Int] /\ c \in [B -> Int]
        BY <3>4, <3>5, <3>6
      <3>8. TotalOf(columns(T)) = TotalOf(r) + TotalOf(c)
        BY <3>7, TotalOfSums
      <3> QED
        BY <3>2, <3>3, <3>6, <3>8
    <2> QED
      BY <2>1, <2>2
  <1>7. A \in P
    <2> HIDE DEF P
    <2> QED
      BY <1>6, FiniteInduction
  <1>8. TotalOver(rows, A) = TotalOf(rows) /\ \A b \in B : TotalOver(column(b), A) = TotalOf(column(b))
    <2> HIDE DEF rows, column
    <2> QED
      BY <1>2, <1>3, TotalSteps
  <1>9. columns(A) = [b \in B |-> TotalOf(column(b))]
    <2> HIDE DEF column
    <2> QED
      BY <1>8
  <1> QED
    BY <1>7, <1>8, <1>9

\* What falls into each of several classes adds up to what falls into any of them.
LEMMA TotalOfClasses ==
  ASSUME NEW S, IsFiniteSet(S), NEW D, IsFiniteSet(D), NEW h
  PROVE  TotalOf([t \in S |-> Cardinality({n \in D : h[n] = t})])
         = Cardinality({n \in D : h[n] \in S})
  <1> DEFINE class(t) == {n \in D : h[n] = t}
             f == [t \in S |-> Cardinality(class(t))]
             any(T) == {n \in D : h[n] \in T}
             P == {T \in SUBSET S : TotalOver(f, T) = Cardinality(any(T))}
  <1>1. \A t : IsFiniteSet(class(t)) /\ Cardinality(class(t)) \in Nat
    BY FS_Subset, FS_CardinalityType
  <1>2. f \in [S -> Int]
    BY <1>1
  <1>3. ASSUME NEW T \in SUBSET S, \A z \in T : T \ {z} \in P PROVE T \in P
    <2>1. CASE T = {}
      <3>1. any(T) = {}
        BY <2>1
      <3>2. TotalOver(f, T) = 0
        <4> HIDE DEF f
        <4> QED
          BY <1>2, <2>1, TotalSteps
      <3> QED
        BY <3>1, <3>2, FS_EmptySet
    <2>2. CASE T # {}
      <3>1. PICK t \in T : TRUE
        BY <2>2
      <3>2. TotalOver(f, T \ {t}) = Cardinality(any(T \ {t}))
        BY <1>3, <3>1
      <3>3. TotalOver(f, T) = f[t] + TotalOver(f, T \ {t}) /\ f[t] = Cardinality(class(t))
        <4>1. f[t] = Cardinality(class(t))
          BY <3>1
        <4> HIDE DEF f
        <4> QED
          BY <1>2, <3>1, <4>1, TotalSteps
      <3>4. any(T) = class(t) \cup any(T \ {t}) /\ class(t) \cap any(T \ {t}) = {}
        BY <3>1
      <3>5. IsFiniteSet(class(t)) /\ IsFiniteSet(any(T \ {t}))
        BY FS_Subset
      <3> HIDE DEF class, any, f
      <3>6. Cardinality(any(T)) = Cardinality(class(t)) + Cardinality(any(T \ {t}))
        <4>1. /\ Cardinality(class(t) \cup any(T \ {t})) = Cardinality(class(t))
                    + Cardinality(any(T \ {t})) - Cardinality(class(t) \cap any(T \ {t}))
              /\ Cardinality(class(t)) \in Nat /\ Cardinality(any(T \ {t})) \in Nat
          BY <3>5, FS_Union, FS_CardinalityType
        <4>2. Cardinality(class(t) \cap any(T \ {t})) = 0
          BY <3>4, FS_EmptySet
        <4> QED
          BY <3>4, <4>1, <4>2
      <3> QED
        BY <3>2, <3>3, <3>6
    <2> QED
      BY <2>1, <2>2
  <1>4. S \in P
    <2> HIDE DEF P
    <2> QED
      BY <1>3, FiniteInduction
  <1>5. TotalOver(f, S) = TotalOf(f)
    <2> HIDE DEF f
    <2> QED
      BY <1>2, TotalSteps
  <1> QED
    BY <1>4, <1>5


-------------------------------------------------------------------------------
(* The loop that keeps some of a sequence: those at the places in I.          *)

KeepingLoop(f, s, I) ==
  f = [n \in 0..Len(s) |-> IF n = 0 THEN <<>>
                           ELSE IF n \in I THEN Append(f[n - 1], s[n]) ELSE f[n - 1]]

LEMMA KeepingLoopExists ==
  ASSUME NEW T, NEW s \in Seq(T), NEW I
  PROVE  \E f : KeepingLoop(f, s, I)
  <1> DEFINE G == [p \in Nat \X Seq(T) |->
                     IF p[1] \in 1..Len(s) /\ p[1] \in I THEN Append(p[2], s[p[1]]) ELSE p[2]]
  <1>1. Len(s) \in Nat /\ \A i \in 1..Len(s) : s[i] \in T
    OBVIOUS
  <1>2. G \in StepFunctions(Seq(T)) /\ <<>> \in Seq(T)
    BY <1>1 DEF StepFunctions
  <1>3. PICK f : Follows(f, Seq(T), <<>>, G, Len(s))
    <2> HIDE DEF G
    <2> QED
      BY <1>1, <1>2, RecursionExists
  <1>4. ASSUME NEW i \in 1..Len(s)
        PROVE  f[i] = IF i \in I THEN Append(f[i - 1], s[i]) ELSE f[i - 1]
    <2>1. i \in Nat /\ i - 1 \in 0..Len(s) /\ f[i - 1] \in Seq(T)
      BY <1>1, <1>3 DEF Follows
    <2> QED
      BY <1>3, <2>1 DEF Follows
  <1>5. f[0] = <<>> /\ f = [i \in 0..Len(s) |-> f[i]] /\ \A i \in 0..Len(s) : i # 0 => i \in 1..Len(s)
    BY <1>1, <1>3 DEF Follows
  <1> HIDE DEF G
  <1>6. KeepingLoop(f, s, I)
    BY <1>4, <1>5 DEF KeepingLoop
  <1> QED
    BY <1>6

\* Where the places are the last ones, what is kept is the end of the sequence.
LEMMA KeepsTheEnd ==
  ASSUME NEW T, NEW s \in Seq(T), NEW I, NEW f, KeepingLoop(f, s, I),
         \A m, n \in 1..Len(s) : m <= n /\ m \in I => n \in I
  PROVE  \E k \in 0..Len(s) :
            /\ \A n \in 1..Len(s) : n \in I <=> n > k
            /\ f[Len(s)] = SubSeq(s, k + 1, Len(s))
  <1>1. Len(s) \in Nat /\ \A i \in 1..Len(s) : s[i] \in T
    OBVIOUS
  <1>2. PICK k \in 0..Len(s) : \A n \in 1..Len(s) : n \in I <=> n > k
    <2> DEFINE K == {n \in Nat : \A m \in 1..Len(s) : m > n => m \in I}
    <2>1. Len(s) \in K
      BY <1>1
    <2>2. PICK k \in K : \A m \in K : k <= m
      <3> HIDE DEF K
      <3>1. K \subseteq Nat
        BY DEF K
      <3> QED
        BY <2>1, <3>1, LeastNumber
    <2>3. k \in Nat /\ k <= Len(s) /\ \A m \in 1..Len(s) : m > k => m \in I
      BY <2>1, <2>2
    <2>4. ASSUME NEW n \in 1..Len(s), n \in I, n <= k PROVE FALSE
      <3>1. k - 1 \in Nat
        BY <1>1, <2>3, <2>4
      <3>2. \A m \in 1..Len(s) : m > k - 1 => m \in I
        BY <1>1, <2>3, <2>4
      <3>3. k - 1 \in K
        BY <3>1, <3>2
      <3> HIDE DEF K
      <3> QED
        BY <2>2, <2>3, <3>3
    <2> QED
      BY <1>1, <2>3, <2>4
  <1>3. /\ f[0] = <<>>
        /\ \A n \in 1..Len(s) : f[n] = IF n \in I THEN Append(f[n - 1], s[n]) ELSE f[n - 1]
    <2>1. \A n \in 0..Len(s) : f[n] = IF n = 0 THEN <<>>
                           ELSE IF n \in I THEN Append(f[n - 1], s[n]) ELSE f[n - 1]
      BY DEF KeepingLoop
    <2>2. 0 \in 0..Len(s) /\ \A n \in 1..Len(s) : n \in 0..Len(s) /\ n # 0
      BY <1>1
    <2> QED
      BY <2>1, <2>2
  <1> DEFINE N == {n \in Nat : n <= Len(s) => f[n] = IF n <= k THEN <<>> ELSE SubSeq(s, k + 1, n)}
  <1>4. 0 \in N
    BY <1>3
  <1>5. ASSUME NEW n \in N PROVE n + 1 \in N
    <2>1. n \in Nat /\ n + 1 \in Nat
      OBVIOUS
    <2> SUFFICES ASSUME n + 1 <= Len(s)
                 PROVE  f[n + 1] = IF n + 1 <= k THEN <<>> ELSE SubSeq(s, k + 1, n + 1)
      BY <2>1
    <2>2. n + 1 \in 1..Len(s) /\ (n + 1) - 1 = n
      BY <1>1, <2>1
    <2>3. f[n] = IF n <= k THEN <<>> ELSE SubSeq(s, k + 1, n)
      BY <1>1, <2>1
    <2>4. f[n + 1] = IF n + 1 \in I THEN Append(f[n], s[n + 1]) ELSE f[n]
      BY <1>3, <2>2
    <2> HIDE DEF N
    <2>5. CASE n + 1 <= k
      BY <1>1, <1>2, <2>1, <2>2, <2>3, <2>4, <2>5
    <2>6. CASE n = k
      <3>1. f[n] = <<>> /\ f[n + 1] = Append(<<>>, s[n + 1])
        BY <1>1, <1>2, <2>1, <2>2, <2>3, <2>4, <2>6
      <3>2. SubSeq(s, k + 1, n + 1) = Append(<<>>, s[n + 1])
        <4>1. PICK r : r = SubSeq(s, n + 1, n + 1)
          OBVIOUS
        <4>2. r \in Seq(T) /\ Len(r) = 1 /\ r[1] = s[n + 1]
          BY <1>1, <2>1, <2>2, <4>1
        <4>3. r = <<s[n + 1]>>
          BY <4>2
        <4>4. Append(<<>>, s[n + 1]) = <<s[n + 1]>>
          OBVIOUS
        <4> QED
          BY <2>6, <4>1, <4>3, <4>4
      <3> QED
        BY <1>2, <2>1, <2>6, <3>1, <3>2
    <2>7. CASE n > k
      <3>1. f[n + 1] = Append(SubSeq(s, k + 1, n), s[n + 1])
        BY <1>1, <1>2, <2>1, <2>2, <2>3, <2>4, <2>7
      <3>2. SubSeq(s, k + 1, n + 1) = Append(SubSeq(s, k + 1, n), s[n + 1])
        BY <1>1, <1>2, <2>1, <2>2, <2>7
      <3> QED
        BY <1>2, <2>1, <2>7, <3>1, <3>2
    <2> QED
      BY <1>2, <2>1, <2>5, <2>6, <2>7
  <1>6. Len(s) \in N
    <2> HIDE DEF N
    <2>1. N \subseteq Nat
      BY DEF N
    <2> QED
      BY <1>1, <1>4, <1>5, <2>1, SetInduction
  <1>7. f[Len(s)] = SubSeq(s, k + 1, Len(s))
    <2>1. f[Len(s)] = IF Len(s) <= k THEN <<>> ELSE SubSeq(s, k + 1, Len(s))
      BY <1>1, <1>6
    <2>2. CASE Len(s) <= k
      <3>1. SubSeq(s, k + 1, Len(s)) = <<>>
        BY <1>1, <1>2, <2>2
      <3> QED
        BY <2>1, <2>2, <3>1
    <2> QED
      BY <2>1, <2>2
  <1> QED
    BY <1>2, <1>7


-------------------------------------------------------------------------------
(* How many of a sequence, or of the values of a function, are in a set.      *)

OneIf(x, P) == IF x \in P THEN 1 ELSE 0
CountIn(s, P) == Cardinality({n \in DOMAIN s : s[n] \in P})

LEMMA CountsAre ==
  ASSUME NEW s, IsFiniteSet(DOMAIN s), NEW P
  PROVE  CountIn(s, P) \in Nat /\ IsFiniteSet({n \in DOMAIN s : s[n] \in P})
  BY FS_Subset, FS_CardinalityType DEF CountIn

LEMMA CountAppended ==
  ASSUME NEW S, NEW s \in Seq(S), NEW e \in S, NEW P
  PROVE  CountIn(Append(s, e), P) = CountIn(s, P) + OneIf(e, P) /\ CountIn(s, P) \in Nat
  <1> DEFINE t == Append(s, e)
             A == {n \in DOMAIN s : s[n] \in P}
             B == {n \in DOMAIN t : t[n] \in P}
             last == Len(s) + 1
  <1>1. /\ Len(s) \in Nat /\ DOMAIN s = 1..Len(s) /\ DOMAIN t = 1..last
        /\ \A n \in 1..Len(s) : t[n] = s[n]
        /\ t[last] = e
    OBVIOUS
  <1>2. IsFiniteSet(DOMAIN s)
    <2>1. Len(s) \in Int
      BY <1>1
    <2>2. IsFiniteSet(1..Len(s))
      BY <2>1, FS_Interval
    <2> QED
      BY <1>1, <2>2
  <1>3. IsFiniteSet(A) /\ Cardinality(A) \in Nat
    BY <1>2, FS_Subset, FS_CardinalityType
  <1>4. last \notin A
    BY <1>1
  <1>5. B = IF e \in P THEN A \cup {last} ELSE A
    <2> HIDE DEF t
    <2>1. \A n \in 1..last : n = last \/ n \in 1..Len(s)
      BY <1>1
    <2>2. last \in 1..last /\ \A n \in 1..Len(s) : n \in 1..last /\ n # last
      BY <1>1
    <2> HIDE DEF last
    <2> QED
      BY <1>1, <2>1, <2>2
  <1>6. Cardinality(B) = Cardinality(A) + OneIf(e, P)
    <2> HIDE DEF A, B, last, t
    <2>1. Cardinality(A \cup {last}) = Cardinality(A) + 1
      BY <1>3, <1>4, FS_AddElement
    <2> QED
      BY <1>3, <1>5, <2>1 DEF OneIf
  <1> QED
    BY <1>3, <1>6 DEF CountIn

LEMMA CountChanged ==
  ASSUME NEW D, IsFiniteSet(D), NEW f, DOMAIN f = D, NEW g, DOMAIN g = D, NEW d \in D,
         \A n \in D \ {d} : g[n] = f[n], NEW P
  PROVE  /\ CountIn(g, P) = CountIn(f, P) - OneIf(f[d], P) + OneIf(g[d], P)
         /\ CountIn(f, P) \in Nat
  <1> DEFINE rest == {n \in D \ {d} : f[n] \in P}
             A == {n \in D : f[n] \in P}
             B == {n \in D : g[n] \in P}
  <1>2. IsFiniteSet(rest) /\ Cardinality(rest) \in Nat /\ d \notin rest
    BY FS_Subset, FS_CardinalityType
  <1>3. A = IF f[d] \in P THEN rest \cup {d} ELSE rest
    OBVIOUS
  <1>4. B = IF g[d] \in P THEN rest \cup {d} ELSE rest
    OBVIOUS
  <1> HIDE DEF rest, A, B
  <1>5. Cardinality(rest \cup {d}) = Cardinality(rest) + 1
    BY <1>2, FS_AddElement
  <1>6. Cardinality(A) = Cardinality(rest) + OneIf(f[d], P) /\ Cardinality(B) = Cardinality(rest) + OneIf(g[d], P)
    BY <1>2, <1>3, <1>4, <1>5 DEF OneIf
  <1>7. Cardinality(A) \in Nat /\ Cardinality(B) = Cardinality(A) - OneIf(f[d], P) + OneIf(g[d], P)
    BY <1>2, <1>6 DEF OneIf
  <1>8. CountIn(f, P) = Cardinality(A) /\ CountIn(g, P) = Cardinality(B)
    BY DEF CountIn, A, B
  <1> QED
    BY <1>7, <1>8


LEMMA TotalOfZeros ==
  ASSUME NEW S, IsFiniteSet(S)
  PROVE  TotalOf([x \in S |-> 0]) = 0
  <1> DEFINE f == [x \in S |-> 0]
             P == {T \in SUBSET S : TotalOver(f, T) = 0}
  <1>1. f \in [S -> Int] /\ \A x \in S : f[x] = 0
    OBVIOUS
  <1> HIDE DEF f
  <1>2. ASSUME NEW T \in SUBSET S, \A z \in T : T \ {z} \in P PROVE T \in P
    <2>1. CASE T = {}
      BY <1>1, <2>1, TotalSteps
    <2>2. CASE T # {}
      <3>1. PICK x \in T : TRUE
        BY <2>2
      <3>2. TotalOver(f, T) = f[x] + TotalOver(f, T \ {x})
        BY <1>1, <3>1, TotalSteps
      <3>3. TotalOver(f, T \ {x}) = 0 /\ f[x] = 0
        BY <1>1, <1>2, <3>1
      <3> QED
        BY <3>2, <3>3
    <2> QED
      BY <2>1, <2>2
  <1>3. \A T \in SUBSET S : T \in P
    <2> HIDE DEF P
    <2> QED
      BY <1>2, FiniteInduction
  <1>4. TotalOver(f, S) = TotalOf(f)
    BY <1>1, TotalSteps
  <1>5. TotalOf(f) = 0
    BY <1>3, <1>4
  <1> QED
    BY <1>5 DEF f


LEMMA TotalAppended ==
  ASSUME NEW s \in Seq(Int), NEW e \in Int
  PROVE  TotalOf(Append(s, e)) = TotalOf(s) + e /\ TotalOf(s) \in Int
  <1> DEFINE t == Append(s, e)
             S == 1..Len(t)
             x == Len(t)
  <1>1. /\ t \in Seq(Int) /\ Len(s) \in Nat /\ Len(t) = Len(s) + 1 /\ t[x] = e /\ x \in S
        /\ S \ {x} = 1..Len(s) /\ \A n \in 1..Len(s) : t[n] = s[n]
    OBVIOUS
  <1>2. t \in [S -> Int] /\ IsFiniteSet(S) /\ s = [n \in 1..Len(s) |-> s[n]]
    <2>1. Len(t) \in Int
      BY <1>1
    <2>2. IsFiniteSet(1..Len(t))
      BY <2>1, FS_Interval
    <2>3. t \in [S -> Int]
      <3>1. t \in [1..Len(t) -> Int]
        <4> HIDE DEF t, S
        <4> QED
          BY <1>1
      <3> QED
        BY <3>1
    <2>4. s = [n \in 1..Len(s) |-> s[n]]
      OBVIOUS
    <2> QED
      BY <2>2, <2>3, <2>4
  <1>3. [y \in S \ {x} |-> t[y]] = s
    <2> HIDE DEF t, x, S
    <2> QED
      BY <1>1, <1>2
  <1> HIDE DEF t, x, S
  <1>4. TotalOf(t) = t[x] + TotalOver(t, S \ {x}) /\ TotalOver(t, S \ {x}) \in Int
    BY <1>1, <1>2, TotalWithOne
  <1>5. TotalOver(t, S \ {x}) = TotalOf(s)
    BY <1>3 DEF TotalOver
  <1>6. TotalOf(t) = TotalOf(s) + e /\ TotalOf(s) \in Int
    BY <1>1, <1>4, <1>5
  <1> QED
    BY <1>6 DEF t

LEMMA TotalOfEmpty == TotalOf(<<>>) = 0
  <1>1. DOMAIN <<>> = {}
    OBVIOUS
  <1> QED
    BY <1>1, TotalOfNone


\* A sum lies between as many of the least and as many of the greatest.
LEMMA TotalBetween ==
  ASSUME NEW S, IsFiniteSet(S), NEW f \in [S -> Int], NEW low \in Int, NEW high \in Int,
         \A x \in S : low <= f[x] /\ f[x] <= high
  PROVE  /\ TotalOf(f) \in Int
         /\ low * Cardinality(S) <= TotalOf(f) /\ TotalOf(f) <= high * Cardinality(S)
  <1> DEFINE P == {T \in SUBSET S : /\ low * Cardinality(T) <= TotalOver(f, T)
                                    /\ TotalOver(f, T) <= high * Cardinality(T)}
  <1>1. ASSUME NEW T \in SUBSET S, \A z \in T : T \ {z} \in P PROVE T \in P
    <2>1. CASE T = {}
      BY <2>1, TotalSteps, FS_EmptySet
    <2>2. CASE T # {}
      <3>1. PICK x \in T : TRUE
        BY <2>2
      <3>2. T \ {x} \in P /\ IsFiniteSet(T)
        BY <1>1, <3>1, FS_Subset
      <3>3. TotalOver(f, T) = f[x] + TotalOver(f, T \ {x}) /\ TotalOver(f, T \ {x}) \in Int
        BY <3>1, TotalSteps
      <3>4. Cardinality(T) \in Nat /\ Cardinality(T \ {x}) = Cardinality(T) - 1
        BY <3>1, <3>2, FS_CardinalityType, FS_RemoveElement
      <3>5. PICK n \in Int, s \in Int, e \in Int :
               n = Cardinality(T \ {x}) /\ s = TotalOver(f, T \ {x}) /\ e = f[x]
        BY <3>3, <3>4
      <3>6. low * n <= s /\ s <= high * n /\ low <= e /\ e <= high
        BY <3>2, <3>5
      <3>7. Cardinality(T) = n + 1 /\ TotalOver(f, T) = e + s
        BY <3>3, <3>4, <3>5
      <3>8. low * (n + 1) = low * n + low /\ high * (n + 1) = high * n + high
        BY <3>5
      <3>9. low * (n + 1) <= e + s /\ e + s <= high * (n + 1)
        <4>1. PICK a \in Int, b \in Int : a = low * n /\ b = high * n
          BY <3>5
        <4> QED
          BY <3>5, <3>6, <3>8, <4>1
      <3> QED
        BY <3>7, <3>9
    <2> QED
      BY <2>1, <2>2
  <1>2. \A T \in SUBSET S : T \in P
    <2> HIDE DEF P
    <2> QED
      BY <1>1, FiniteInduction
  <1>3. S \in P /\ TotalOver(f, S) = TotalOf(f) /\ TotalOver(f, S) \in Int
    BY <1>2, TotalSteps
  <1> QED
    BY <1>3

\* And so does their mean between the least and the greatest.
LEMMA QuotientBetween ==
  ASSUME NEW n \in Nat \ {0}, NEW s \in Int, NEW low \in Int, NEW high \in Int,
         low * n <= s, s <= high * n
  PROVE  s \div n \in low..high
  <1>1. PICK q \in Int, r \in Int : q = s \div n /\ r = s % n /\ s = n * q + r /\ 0 <= r /\ r < n
    OBVIOUS
  <1>2. ASSUME q < low PROVE FALSE
    <2>1. PICK d \in Nat : low = (q + 1) + d
      <3>1. low - (q + 1) \in Nat /\ low = (q + 1) + (low - (q + 1))
        BY <1>2
      <3> QED
        BY <3>1
    <2>2. low * n = n * q + n + d * n
      BY <2>1
    <2>3. d * n \in Nat
      BY <2>1
    <2> QED
      BY <1>1, <2>2, <2>3
  <1>3. ASSUME q > high PROVE FALSE
    <2>1. PICK d \in Nat : q = (high + 1) + d
      <3>1. q - (high + 1) \in Nat /\ q = (high + 1) + (q - (high + 1))
        BY <1>3
      <3> QED
        BY <3>1
    <2>2. n * q = high * n + n + d * n
      BY <2>1
    <2>3. d * n \in Nat
      BY <2>1
    <2> QED
      BY <1>1, <2>2, <2>3
  <1> QED
    BY <1>1, <1>2, <1>3

\* A finite set of numbers with an element has a least and a greatest one.
LEMMA FiniteHasEnds ==
  ASSUME NEW S, IsFiniteSet(S), S \subseteq Nat, S # {}
  PROVE  /\ \E x \in S : \A y \in S : x <= y
         /\ \E x \in S : \A y \in S : y <= x
  <1> DEFINE P == {T \in SUBSET S : T # {} => \E x \in T : \A y \in T : y <= x}
  <1>1. ASSUME NEW T \in SUBSET S, \A z \in T : T \ {z} \in P PROVE T \in P
    <2>1. ASSUME T # {} PROVE \E x \in T : \A y \in T : y <= x
      <3>1. PICK z \in T : TRUE
        BY <2>1
      <3>2. T \ {z} \in P
        BY <1>1
      <3>3. CASE T \ {z} = {}
        <4>1. T = {z} /\ z \in Nat
          BY <3>3
        <4> QED
          BY <4>1
      <3>4. CASE T \ {z} # {}
        <4>1. PICK x \in T \ {z} : \A y \in T \ {z} : y <= x
          BY <3>2, <3>4
        <4>2. x \in Nat /\ z \in Nat /\ \A y \in T : y \in Nat /\ (y = z \/ y <= x)
          BY <4>1
        <4>3. CASE z <= x
          BY <4>1, <4>2, <4>3
        <4>4. CASE x <= z
          BY <4>1, <4>2, <4>4
        <4> QED
          BY <4>2, <4>3, <4>4
      <3> QED
        BY <3>3, <3>4
    <2> QED
      BY <2>1
  <1>2. \A T \in SUBSET S : T \in P
    <2> HIDE DEF P
    <2> QED
      BY <1>1, FiniteInduction
  <1>3. \E x \in S : \A y \in S : y <= x
    BY <1>2
  <1>4. \E x \in S : \A y \in S : x <= y
    BY LeastNumber
  <1> QED
    BY <1>3, <1>4
===============================================================================
