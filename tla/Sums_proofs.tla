------------------------------ MODULE Sums_proofs ------------------------------
(****************************************************************************)
(* What a sum over a finite set is, for any function of integers: the facts *)
(* about SumFunctionOnSet of the Functions module that the proofs of this   *)
(* project cite.  Its definition picks the elements in an order of its own; *)
(* the lemmas show that the order does not matter.                          *)
(****************************************************************************)
EXTENDS Functions, FiniteSetTheorems, TLAPS

\* Induction over the subsets of a finite set: what holds of a set whenever it
\* holds of all smaller ones holds of all.
LEMMA SubsetInduction ==
    ASSUME NEW S, IsFiniteSet(S), NEW P,
           ASSUME NEW T \in SUBSET S, \A U \in SUBSET T : U # T => U \in P
           PROVE  T \in P
    PROVE  \A T \in SUBSET S : T \in P
<1> SUFFICES ASSUME NEW T0 \in SUBSET S, T0 \notin P PROVE FALSE
  OBVIOUS
<1> DEFINE R == StrictSubsetOrdering(S)
           Bad == {T \in SUBSET S : T \notin P}
<1>1. IsWellFoundedOn(R, SUBSET S)
  <2>1. FiniteSubsetsOf(S) = SUBSET S
    BY FS_FiniteSubsetsOfFinite
  <2>2. IsWellFoundedOn(StrictSubsetOrdering(S), FiniteSubsetsOf(S))
    BY FS_StrictSubsetOrderingWellFounded, Zenon
  <2> QED
    BY <2>1, <2>2
<1>2. PICK T \in Bad : \A U \in Bad : ~ <<U, T>> \in R
  <2> HIDE DEF R
  <2>1. Bad \subseteq SUBSET S /\ T0 \in Bad
    OBVIOUS
  <2> HIDE DEF Bad
  <2> QED
    BY <1>1, <2>1, WFMin
<1>3. \A U \in SUBSET T : U # T => U \in P
  BY <1>2 DEF StrictSubsetOrdering
<1>4. T \in P
  BY <1>2, <1>3
<1> QED
  BY <1>2, <1>4

\* The recursion that the sum of f over T is defined by.
Pick(s) == CHOOSE x \in s : TRUE
IsIter(iter, f, T) ==
    iter = [s \in SUBSET T |-> IF s = {} THEN 0 ELSE f[Pick(s)] + iter[s \ {Pick(s)}]]

LEMMA SumIsChosen ==
    ASSUME NEW f, NEW T
    PROVE  SumFunctionOnSet(f, T) = (CHOOSE iter : IsIter(iter, f, T))[T]
BY DEF SumFunctionOnSet, FoldFunctionOnSet, MapThenFoldSet, IsIter, Pick

\* There is one such recursion at most, ...
LEMMA IterUnique ==
    ASSUME NEW f, NEW T, IsFiniteSet(T), NEW a, NEW b, IsIter(a, f, T), IsIter(b, f, T)
    PROVE  a = b
<1> DEFINE P == {s \in SUBSET T : a[s] = b[s]}
<1>1. ASSUME NEW s \in SUBSET T, \A u \in SUBSET s : u # s => u \in P
      PROVE  s \in P
  <2>1. CASE s = {}
    BY <2>1 DEF IsIter
  <2>2. CASE s # {}
    <3>1. Pick(s) \in s
      BY <2>2 DEF Pick
    <3>2. a[s \ {Pick(s)}] = b[s \ {Pick(s)}]
      BY <1>1, <3>1
    <3> QED
      BY <2>2, <3>2 DEF IsIter
  <2> QED
    BY <2>1, <2>2
<1>2. \A s \in SUBSET T : s \in P
  <2> HIDE DEF P
  <2> QED
    BY <1>1, SubsetInduction
<1> QED
  BY <1>2 DEF IsIter

\* ... and one there is, whose values are the sums of the subsets.
LEMMA SumsIterate ==
    ASSUME NEW f, NEW S, IsFiniteSet(S)
    PROVE  \A T \in SUBSET S : IsIter([s \in SUBSET T |-> SumFunctionOnSet(f, s)], f, T)
<1> DEFINE Sums(T) == [s \in SUBSET T |-> SumFunctionOnSet(f, s)]
           P == {T \in SUBSET S : IsIter(Sums(T), f, T)}
           Value(s) == IF s = {} THEN 0 ELSE f[Pick(s)] + SumFunctionOnSet(f, s \ {Pick(s)})
<1>1. ASSUME NEW T \in SUBSET S, \A U \in SUBSET T : U # T => U \in P
      PROVE  T \in P
  <2>1. ASSUME NEW s \in SUBSET T, s # {}
        PROVE  Pick(s) \in s /\ s \ {Pick(s)} \in SUBSET T /\ s \ {Pick(s)} # T
    BY <2>1 DEF Pick
  <2>2. ASSUME NEW s \in SUBSET T, s # T
        PROVE  SumFunctionOnSet(f, s) = Value(s)
    <3>1. Sums(s)[s] = (IF s = {} THEN 0 ELSE f[Pick(s)] + Sums(s)[s \ {Pick(s)}])
      BY <1>1, <2>2 DEF IsIter
    <3>2. Sums(s)[s] = SumFunctionOnSet(f, s)
      OBVIOUS
    <3>3. s # {} => Sums(s)[s \ {Pick(s)}] = SumFunctionOnSet(f, s \ {Pick(s)})
      BY <2>1
    <3> QED
      BY <3>1, <3>2, <3>3
  <2> DEFINE it == [s \in SUBSET T |-> IF s = T THEN Value(T) ELSE SumFunctionOnSet(f, s)]
  <2>3. IsIter(it, f, T)
    <3>1. ASSUME NEW s \in SUBSET T
          PROVE  it[s] = IF s = {} THEN 0 ELSE f[Pick(s)] + it[s \ {Pick(s)}]
      <4>1. it[s] = Value(s)
        BY <2>2
      <4>2. s # {} => it[s \ {Pick(s)}] = SumFunctionOnSet(f, s \ {Pick(s)})
        BY <2>1
      <4> QED
        BY <4>1, <4>2
    <3>2. it = [s \in SUBSET T |-> it[s]]
      OBVIOUS
    <3> HIDE DEF it
    <3> QED
      BY <3>1, <3>2 DEF IsIter
  <2>4. IsFiniteSet(T)
    BY FS_Subset
  <2>5. it = CHOOSE iter : IsIter(iter, f, T)
    <3> HIDE DEF it
    <3>1. \A iter : IsIter(iter, f, T) => iter = it
      BY <2>3, <2>4, IterUnique
    <3> QED
      BY <2>3, <3>1
  <2>6. SumFunctionOnSet(f, T) = it[T]
    <3> HIDE DEF it
    <3> QED
      BY <2>5, SumIsChosen
  <2>7. it = Sums(T)
    <3>1. \A s \in SUBSET T : it[s] = SumFunctionOnSet(f, s)
      BY <2>6
    <3> QED
      BY <3>1
  <2> QED
    <3> HIDE DEF it, Sums
    <3> QED
      BY <2>3, <2>7
<1> QED
  <2>1. \A T \in SUBSET S : T \in P
    <3> HIDE DEF P
    <3> QED
      BY <1>1, SubsetInduction
  <2> QED
    BY <2>1

\* The sum over no element, and over one more than a sum that is known.
LEMMA SumEmpty == ASSUME NEW f PROVE SumFunctionOnSet(f, {}) = 0
<1>1. IsIter([s \in SUBSET {} |-> SumFunctionOnSet(f, s)], f, {})
  BY SumsIterate, FS_EmptySet
<1> QED
  BY <1>1 DEF IsIter

LEMMA SumPicks ==
    ASSUME NEW f, NEW S, IsFiniteSet(S), S # {}
    PROVE  SumFunctionOnSet(f, S) = f[Pick(S)] + SumFunctionOnSet(f, S \ {Pick(S)})
<1> DEFINE it == [s \in SUBSET S |-> SumFunctionOnSet(f, s)]
<1>1. IsIter(it, f, S)
  BY SumsIterate
<1>2. it[S] = f[Pick(S)] + it[S \ {Pick(S)}]
  <2> HIDE DEF it
  <2> QED
    BY <1>1 DEF IsIter
<1> QED
  BY <1>2

-----------------------------------------------------------------------------
(* Sums of integers.                                                        *)

LEMMA SumType ==
    ASSUME NEW S, IsFiniteSet(S), NEW f, \A x \in S : f[x] \in Int
    PROVE  SumFunctionOnSet(f, S) \in Int
<1> DEFINE P == {T \in SUBSET S : SumFunctionOnSet(f, T) \in Int}
<1>1. ASSUME NEW T \in SUBSET S, \A U \in SUBSET T : U # T => U \in P
      PROVE  T \in P
  <2>1. CASE T = {}
    BY <2>1, SumEmpty
  <2>2. CASE T # {}
    <3>1. Pick(T) \in T
      BY <2>2 DEF Pick
    <3>2. SumFunctionOnSet(f, T \ {Pick(T)}) \in Int
      BY <1>1, <3>1
    <3>3. SumFunctionOnSet(f, T) = f[Pick(T)] + SumFunctionOnSet(f, T \ {Pick(T)})
      BY <2>2, SumPicks, FS_Subset
    <3> QED
      BY <3>1, <3>2, <3>3
  <2> QED
    BY <2>1, <2>2
<1> HIDE DEF P
<1>2. \A T \in SUBSET S : T \in P
  BY <1>1, SubsetInduction
<1> QED
  BY <1>2 DEF P

\* Any element may be taken first.
LEMMA SumTakes ==
    ASSUME NEW S, IsFiniteSet(S), NEW f, \A x \in S : f[x] \in Int, NEW y \in S
    PROVE  SumFunctionOnSet(f, S) = f[y] + SumFunctionOnSet(f, S \ {y})
<1> DEFINE Taken(T, x) == SumFunctionOnSet(f, T) = f[x] + SumFunctionOnSet(f, T \ {x})
           P == {T \in SUBSET S : \A x \in T : Taken(T, x)}
<1>1. ASSUME NEW T \in SUBSET S, \A U \in SUBSET T : U # T => U \in P
      PROVE  T \in P
  <2> SUFFICES ASSUME NEW x \in T PROVE Taken(T, x)
    OBVIOUS
  <2> DEFINE p == Pick(T)
             Sum(U) == SumFunctionOnSet(f, U)
  <2>1. p \in T
    BY DEF Pick
  <2>2. Sum(T) = f[p] + Sum(T \ {p})
    BY SumPicks, FS_Subset
  <2>3. CASE p = x
    BY <2>2, <2>3
  <2>4. CASE p # x
    <3>1. T \ {p} \in P /\ T \ {x} \in P
      BY <1>1, <2>1
    <3>2. Sum(T \ {p}) = f[x] + Sum((T \ {p}) \ {x}) /\ Sum(T \ {x}) = f[p] + Sum((T \ {x}) \ {p})
      BY <2>1, <2>4, <3>1
    <3>3. (T \ {p}) \ {x} = (T \ {x}) \ {p}
      OBVIOUS
    <3>4. f[x] \in Int /\ f[p] \in Int /\ Sum((T \ {x}) \ {p}) \in Int
      <4>1. (T \ {x}) \ {p} \in SUBSET S
        OBVIOUS
      <4>2. IsFiniteSet((T \ {x}) \ {p})
        BY <4>1, FS_Subset
      <4> QED
        BY <2>1, <4>1, <4>2, SumType
    <3> HIDE DEF p, Sum
    <3> QED
      <4> DEFINE rest == Sum((T \ {x}) \ {p})
      <4>1. Sum(T) = f[p] + (f[x] + rest) /\ Sum(T \ {x}) = f[p] + rest /\ rest \in Int
        BY <2>2, <3>2, <3>3, <3>4
      <4> HIDE DEF rest
      <4>2. Sum(T) = f[x] + Sum(T \ {x})
        BY <4>1, <3>4
      <4> QED
        BY <4>2 DEF Sum
  <2> QED
    BY <2>3, <2>4
<1> HIDE DEF P
<1>2. S \in P
  <2>1. \A T \in SUBSET S : T \in P
    BY <1>1, SubsetInduction
  <2> QED
    BY <2>1
<1> QED
  BY <1>2 DEF P

\* A sum of sums, each of them scaled: sums are linear.
LEMMA SumLinear ==
    ASSUME NEW S, IsFiniteSet(S), NEW a \in Int, NEW b \in Int, NEW f, NEW g, NEW h,
           \A x \in S : f[x] \in Int /\ g[x] \in Int /\ h[x] = a * f[x] + b * g[x]
    PROVE  SumFunctionOnSet(h, S) = a * SumFunctionOnSet(f, S) + b * SumFunctionOnSet(g, S)
<1> DEFINE Linear(T) == SumFunctionOnSet(h, T)
                          = a * SumFunctionOnSet(f, T) + b * SumFunctionOnSet(g, T)
           P == {T \in SUBSET S : Linear(T)}
<1>1. ASSUME NEW T \in SUBSET S, \A U \in SUBSET T : U # T => U \in P
      PROVE  T \in P
  <2>1. CASE T = {}
    <3>1. a * 0 + b * 0 = 0
      OBVIOUS
    <3> QED
      BY <2>1, <3>1, SumEmpty
  <2>2. CASE T # {}
    <3> DEFINE p == Pick(T)
               U == T \ {p}
    <3>1. p \in T
      BY <2>2 DEF Pick
    <3>2. U \in SUBSET T /\ U # T /\ U \in SUBSET S /\ IsFiniteSet(T) /\ IsFiniteSet(U)
      BY <3>1, FS_Subset
    <3>3. Linear(U)
      BY <1>1, <3>2
    <3>4. /\ SumFunctionOnSet(f, T) = f[p] + SumFunctionOnSet(f, U)
          /\ SumFunctionOnSet(g, T) = g[p] + SumFunctionOnSet(g, U)
          /\ SumFunctionOnSet(h, T) = h[p] + SumFunctionOnSet(h, U)
      BY <2>2, <3>2, SumPicks
    <3>5. SumFunctionOnSet(f, U) \in Int /\ SumFunctionOnSet(g, U) \in Int
      BY <3>2, SumType
    <3>6. f[p] \in Int /\ g[p] \in Int /\ h[p] = a * f[p] + b * g[p]
      BY <3>1
    <3>7. \A u, v, w, z \in Int : (a * u + b * v) + (a * w + b * z) = a * (u + w) + b * (v + z)
      OBVIOUS
    <3> HIDE DEF p, U
    <3> QED
      BY <3>3, <3>4, <3>5, <3>6, <3>7
  <2> QED
    BY <2>1, <2>2
<1> HIDE DEF P
<1>2. S \in P
  <2>1. \A T \in SUBSET S : T \in P
    BY <1>1, SubsetInduction
  <2> QED
    BY <2>1
<1> QED
  BY <1>2 DEF P

LEMMA SumScaled ==
    ASSUME NEW S, IsFiniteSet(S), NEW a \in Int, NEW f, NEW h,
           \A x \in S : f[x] \in Int /\ h[x] = a * f[x]
    PROVE  SumFunctionOnSet(h, S) = a * SumFunctionOnSet(f, S)
<1>1. PICK b \in Int : b = 0
  OBVIOUS
<1>2. \A x \in S : f[x] \in Int /\ f[x] \in Int /\ h[x] = a * f[x] + b * f[x]
  BY <1>1
<1>3. SumFunctionOnSet(h, S) = a * SumFunctionOnSet(f, S) + b * SumFunctionOnSet(f, S)
  BY <1>2, SumLinear
<1>4. SumFunctionOnSet(f, S) \in Int
  BY SumType
<1> QED
  BY <1>1, <1>3, <1>4

LEMMA SumEqual ==
    ASSUME NEW S, IsFiniteSet(S), NEW f, NEW g, \A x \in S : f[x] \in Int /\ g[x] = f[x]
    PROVE  SumFunctionOnSet(g, S) = SumFunctionOnSet(f, S)
<1>1. PICK a \in Int : a = 1
  OBVIOUS
<1>2. \A x \in S : f[x] \in Int /\ g[x] = a * f[x]
  BY <1>1
<1>3. SumFunctionOnSet(g, S) = a * SumFunctionOnSet(f, S)
  BY <1>2, SumScaled
<1>4. SumFunctionOnSet(f, S) \in Int
  BY SumType
<1> QED
  BY <1>1, <1>3, <1>4

LEMMA SumOpposite ==
    ASSUME NEW S, IsFiniteSet(S), NEW f, NEW g, \A x \in S : f[x] \in Int /\ g[x] = -f[x]
    PROVE  SumFunctionOnSet(g, S) = -SumFunctionOnSet(f, S)
<1>1. PICK a \in Int : a = -1
  OBVIOUS
<1>2. \A x \in S : f[x] \in Int /\ g[x] = a * f[x]
  BY <1>1
<1>3. SumFunctionOnSet(g, S) = a * SumFunctionOnSet(f, S)
  BY <1>2, SumScaled
<1>4. SumFunctionOnSet(f, S) \in Int
  BY SumType
<1> QED
  BY <1>1, <1>3, <1>4

LEMMA SumPlus ==
    ASSUME NEW S, IsFiniteSet(S), NEW f, NEW g, NEW h,
           \A x \in S : f[x] \in Int /\ g[x] \in Int /\ h[x] = f[x] + g[x]
    PROVE  SumFunctionOnSet(h, S) = SumFunctionOnSet(f, S) + SumFunctionOnSet(g, S)
<1>1. PICK a \in Int : a = 1
  OBVIOUS
<1>2. \A x \in S : f[x] \in Int /\ g[x] \in Int /\ h[x] = a * f[x] + a * g[x]
  BY <1>1
<1>3. SumFunctionOnSet(h, S) = a * SumFunctionOnSet(f, S) + a * SumFunctionOnSet(g, S)
  BY <1>2, SumLinear
<1>4. SumFunctionOnSet(f, S) \in Int /\ SumFunctionOnSet(g, S) \in Int
  BY SumType
<1> QED
  BY <1>1, <1>3, <1>4

LEMMA SumOfZeros ==
    ASSUME NEW S, IsFiniteSet(S), NEW f, \A x \in S : f[x] = 0
    PROVE  SumFunctionOnSet(f, S) = 0
<1>1. PICK a \in Int : a = 0
  OBVIOUS
<1>2. \A x \in S : f[x] \in Int /\ f[x] = a * f[x]
  BY <1>1
<1>3. SumFunctionOnSet(f, S) = a * SumFunctionOnSet(f, S)
  BY <1>2, SumScaled
<1>4. SumFunctionOnSet(f, S) \in Int
  BY <1>2, SumType
<1> QED
  BY <1>1, <1>3, <1>4

\* The elements may be summed in two parts.
LEMMA SumSplit ==
    ASSUME NEW S, IsFiniteSet(S), NEW f, \A x \in S : f[x] \in Int, NEW A \in SUBSET S
    PROVE  SumFunctionOnSet(f, S) = SumFunctionOnSet(f, A) + SumFunctionOnSet(f, S \ A)
<1> DEFINE Split(T) == SumFunctionOnSet(f, (S \ A) \cup T)
                         = SumFunctionOnSet(f, T) + SumFunctionOnSet(f, S \ A)
           P == {T \in SUBSET A : Split(T)}
<1>1. ASSUME NEW T \in SUBSET A, \A U \in SUBSET T : U # T => U \in P
      PROVE  T \in P
  <2>1. CASE T = {}
    <3>1. SumFunctionOnSet(f, S \ A) \in Int
      BY SumType, FS_Subset
    <3>2. (S \ A) \cup T = S \ A
      BY <2>1
    <3> QED
      BY <2>1, <3>1, <3>2, SumEmpty
  <2>2. CASE T # {}
    <3>1. PICK x \in T : TRUE
      BY <2>2
    <3> DEFINE U == T \ {x}
               B == (S \ A) \cup T
    <3>2. U \in SUBSET T /\ U # T /\ T \in SUBSET S /\ B \in SUBSET S /\ B \ {x} = (S \ A) \cup U
          /\ U \in SUBSET S
      BY <3>1
    <3>3. IsFiniteSet(T) /\ IsFiniteSet(B) /\ IsFiniteSet(U) /\ IsFiniteSet(S \ A)
      BY <3>2, FS_Subset
    <3>4. SumFunctionOnSet(f, T) = f[x] + SumFunctionOnSet(f, U)
      BY <3>1, <3>2, <3>3, SumTakes
    <3>5. SumFunctionOnSet(f, B) = f[x] + SumFunctionOnSet(f, B \ {x})
      BY <3>1, <3>2, <3>3, SumTakes
    <3>6. Split(U)
      BY <1>1, <3>2
    <3>7. f[x] \in Int /\ SumFunctionOnSet(f, U) \in Int /\ SumFunctionOnSet(f, S \ A) \in Int
      <4>1. \A y \in U : f[y] \in Int
        BY <3>2
      <4>2. \A y \in S \ A : f[y] \in Int
        OBVIOUS
      <4> QED
        BY <3>1, <3>2, <3>3, <4>1, <4>2, SumType
    <3>9. SumFunctionOnSet(f, B \ {x}) = SumFunctionOnSet(f, U) + SumFunctionOnSet(f, S \ A)
      BY <3>2, <3>6
    <3> HIDE DEF U, B
    <3>8. SumFunctionOnSet(f, B) = SumFunctionOnSet(f, T) + SumFunctionOnSet(f, S \ A)
      BY <3>4, <3>5, <3>9, <3>7
    <3> QED
      BY <3>8 DEF B
  <2> QED
    BY <2>1, <2>2
<1>2. Split(A)
  <2>1. IsFiniteSet(A)
    BY FS_Subset
  <2> HIDE DEF P
  <2>2. \A T \in SUBSET A : T \in P
    BY <1>1, <2>1, SubsetInduction
  <2>3. A \in P
    BY <2>2
  <2> QED
    BY <2>3 DEF P
<1>3. (S \ A) \cup A = S
  OBVIOUS
<1> QED
  BY <1>2, <1>3

LEMMA SumOfNaturals ==
    ASSUME NEW S, IsFiniteSet(S), NEW f, \A x \in S : f[x] \in Nat
    PROVE  SumFunctionOnSet(f, S) \in Nat
<1> DEFINE P == {T \in SUBSET S : SumFunctionOnSet(f, T) \in Nat}
<1>1. ASSUME NEW T \in SUBSET S, \A U \in SUBSET T : U # T => U \in P
      PROVE  T \in P
  <2>1. CASE T = {}
    BY <2>1, SumEmpty
  <2>2. CASE T # {}
    <3>1. Pick(T) \in T
      BY <2>2 DEF Pick
    <3>2. SumFunctionOnSet(f, T \ {Pick(T)}) \in Nat
      BY <1>1, <3>1
    <3>3. SumFunctionOnSet(f, T) = f[Pick(T)] + SumFunctionOnSet(f, T \ {Pick(T)})
      BY <2>2, SumPicks, FS_Subset
    <3> QED
      BY <3>1, <3>2, <3>3
  <2> QED
    BY <2>1, <2>2
<1> HIDE DEF P
<1>2. \A T \in SUBSET S : T \in P
  BY <1>1, SubsetInduction
<1> QED
  BY <1>2 DEF P

\* A part of naturals does not sum to more than all of them.
LEMMA SumOfFewer ==
    ASSUME NEW S, IsFiniteSet(S), NEW f, \A x \in S : f[x] \in Nat, NEW A \in SUBSET S
    PROVE  SumFunctionOnSet(f, A) <= SumFunctionOnSet(f, S)
<1>1. IsFiniteSet(S \ A) /\ IsFiniteSet(A)
  BY FS_Subset
<1>2. SumFunctionOnSet(f, S \ A) \in Nat /\ SumFunctionOnSet(f, A) \in Nat
  BY <1>1, SumOfNaturals
<1> QED
  BY <1>2, SumSplit

LEMMA FiniteImage == ASSUME NEW S, IsFiniteSet(S), NEW q PROVE IsFiniteSet({q[x] : x \in S})
<1> DEFINE T == {q[x] : x \in S}
           r == [x \in S |-> q[x]]
<1>1. r \in Surjection(S, T)
  BY DEF Surjection
<1> HIDE DEF r, T
<1>2. IsFiniteSet(T)
  BY <1>1, FS_Surjection
<1> QED
  BY <1>2 DEF T

\* Elements may be renamed.
LEMMA SumRenamed ==
    ASSUME NEW S, IsFiniteSet(S), NEW f, \A x \in S : f[x] \in Int,
           NEW g, NEW q, \A x \in S : g[q[x]] = f[x],
           \A x, y \in S : q[x] = q[y] => x = y
    PROVE  SumFunctionOnSet(g, {q[x] : x \in S}) = SumFunctionOnSet(f, S)
<1> DEFINE Image(T) == {q[x] : x \in T}
           P == {T \in SUBSET S : SumFunctionOnSet(g, Image(T)) = SumFunctionOnSet(f, T)}
<1>1. ASSUME NEW T \in SUBSET S, \A U \in SUBSET T : U # T => U \in P
      PROVE  T \in P
  <2>1. CASE T = {}
    <3>1. Image(T) = {}
      BY <2>1
    <3> QED
      BY <2>1, <3>1, SumEmpty
  <2>2. CASE T # {}
    <3>1. PICK x \in T : TRUE
      BY <2>2
    <3>2. Image(T) \ {q[x]} = Image(T \ {x})
      BY <3>1
    <3>3. IsFiniteSet(T)
      BY FS_Subset
    <3>4. IsFiniteSet(Image(T))
      BY <3>3, FiniteImage
    <3>5. q[x] \in Image(T) /\ \A z \in Image(T) : g[z] \in Int
      BY <3>1
    <3>6. SumFunctionOnSet(g, Image(T)) = g[q[x]] + SumFunctionOnSet(g, Image(T) \ {q[x]})
      <4> HIDE DEF Image
      <4> QED
        BY <3>4, <3>5, SumTakes
    <3>7. SumFunctionOnSet(f, T) = f[x] + SumFunctionOnSet(f, T \ {x})
      BY <3>1, <3>3, SumTakes
    <3>8. SumFunctionOnSet(g, Image(T \ {x})) = SumFunctionOnSet(f, T \ {x})
      BY <1>1, <3>1
    <3> HIDE DEF Image
    <3>9. SumFunctionOnSet(g, Image(T)) = SumFunctionOnSet(f, T)
      BY <3>1, <3>2, <3>6, <3>7, <3>8
    <3> QED
      BY <3>9
  <2> QED
    BY <2>1, <2>2
<1> HIDE DEF P
<1>2. S \in P
  <2>1. \A T \in SUBSET S : T \in P
    BY <1>1, SubsetInduction
  <2> QED
    BY <2>1
<1> QED
  BY <1>2 DEF P

\* Naturals each found among others, at places of their own, sum to no more.
LEMMA SumInto ==
    ASSUME NEW S, IsFiniteSet(S), NEW f, \A x \in S : f[x] \in Nat,
           NEW T, IsFiniteSet(T), NEW g, \A y \in T : g[y] \in Nat,
           NEW q, \A x \in S : q[x] \in T /\ g[q[x]] = f[x],
           \A x, y \in S : q[x] = q[y] => x = y
    PROVE  SumFunctionOnSet(f, S) <= SumFunctionOnSet(g, T)
<1> DEFINE Image == {q[x] : x \in S}
<1>1. Image \in SUBSET T
  OBVIOUS
<1>2. SumFunctionOnSet(g, Image) <= SumFunctionOnSet(g, T)
  <2> HIDE DEF Image
  <2> QED
    BY <1>1, SumOfFewer
<1>3. SumFunctionOnSet(g, Image) = SumFunctionOnSet(f, S)
  BY SumRenamed
<1> QED
  BY <1>2, <1>3

-----------------------------------------------------------------------------
(* Sums of a few elements.                                                  *)

LEMMA SumOfOne ==
    ASSUME NEW S, IsFiniteSet(S), NEW f, \A x \in S : f[x] \in Int,
           NEW y \in S, \A x \in S : x # y => f[x] = 0
    PROVE  SumFunctionOnSet(f, S) = f[y]
<1>1. SumFunctionOnSet(f, S \ {y}) = 0
  <2>1. IsFiniteSet(S \ {y})
    BY FS_Subset
  <2> QED
    BY <2>1, SumOfZeros
<1> QED
  BY <1>1, SumTakes

\* A sum of one element more.
LEMMA SumMore ==
    ASSUME NEW S, IsFiniteSet(S), NEW f, \A x \in S : f[x] \in Int,
           NEW y, y \notin S, f[y] \in Int
    PROVE  SumFunctionOnSet(f, S \cup {y}) = SumFunctionOnSet(f, S) + f[y]
<1>1. IsFiniteSet(S \cup {y})
  BY FS_AddElement
<1>2. (S \cup {y}) \ {y} = S /\ y \in S \cup {y} /\ \A x \in S \cup {y} : f[x] \in Int
  OBVIOUS
<1>3. SumFunctionOnSet(f, S \cup {y}) = f[y] + SumFunctionOnSet(f, S)
  BY <1>1, <1>2, SumTakes
<1>4. SumFunctionOnSet(f, S) \in Int
  BY SumType
<1> QED
  BY <1>3, <1>4

\* The sum along an interval.
LEMMA SumAlong ==
    ASSUME NEW f, NEW m \in Int, NEW n \in Int, m <= n, \A i \in m .. n : f[i] \in Int
    PROVE  SumFunctionOnSet(f, m .. n) = SumFunctionOnSet(f, m .. n - 1) + f[n]
<1> DEFINE S == m .. n - 1
<1>1. IsFiniteSet(S)
  BY FS_Interval
<1>2. n \notin S /\ f[n] \in Int /\ (\A x \in S : f[x] \in Int) /\ S \cup {n} = m .. n
  OBVIOUS
<1> HIDE DEF S
<1>3. SumFunctionOnSet(f, S \cup {n}) = SumFunctionOnSet(f, S) + f[n]
  BY <1>1, <1>2, SumMore
<1> QED
  BY <1>2, <1>3 DEF S

LEMMA SumAt ==
    ASSUME NEW f, NEW m \in Int, f[m] \in Int
    PROVE  SumFunctionOnSet(f, m .. m) = f[m]
<1>1. IsFiniteSet({m}) /\ m \in {m} /\ \A x \in {m} : f[x] \in Int
  BY FS_Singleton
<1>2. SumFunctionOnSet(f, {m}) = f[m]
  BY <1>1, SumOfOne
<1>3. m .. m = {m}
  OBVIOUS
<1> QED
  BY <1>2, <1>3

\* Rows and columns of matrices have two, three or four elements.
LEMMA SumTo2 ==
    ASSUME NEW f, f[0] \in Int, f[1] \in Int
    PROVE  SumFunctionOnSet(f, 0 .. 1) = f[0] + f[1]
<1>1. SumFunctionOnSet(f, 0 .. 0) = f[0]
  BY SumAt
<1>2. \A i \in 0 .. 1 : f[i] \in Int
  BY SMT
<1>3. SumFunctionOnSet(f, 0 .. 1) = SumFunctionOnSet(f, 0 .. 0) + f[1]
  <2>1. 0 \in Int /\ 1 \in Int /\ 0 <= 1 /\ 1 - 1 = 0
    OBVIOUS
  <2>2. SumFunctionOnSet(f, 0 .. 1) = SumFunctionOnSet(f, 0 .. 1 - 1) + f[1]
    BY <1>2, <2>1, SumAlong, Zenon
  <2> QED
    BY <2>1, <2>2
<1> QED
  BY <1>1, <1>3

LEMMA SumTo3 ==
    ASSUME NEW f, f[0] \in Int, f[1] \in Int, f[2] \in Int
    PROVE  SumFunctionOnSet(f, 0 .. 2) = f[0] + f[1] + f[2]
<1>1. SumFunctionOnSet(f, 0 .. 1) = f[0] + f[1]
  BY SumTo2
<1>2. \A i \in 0 .. 2 : f[i] \in Int
  BY SMT
<1>3. SumFunctionOnSet(f, 0 .. 2) = SumFunctionOnSet(f, 0 .. 1) + f[2]
  <2>1. 0 \in Int /\ 2 \in Int /\ 0 <= 2 /\ 2 - 1 = 1
    OBVIOUS
  <2>2. SumFunctionOnSet(f, 0 .. 2) = SumFunctionOnSet(f, 0 .. 2 - 1) + f[2]
    BY <1>2, <2>1, SumAlong, Zenon
  <2> QED
    BY <2>1, <2>2
<1> QED
  BY <1>1, <1>3

LEMMA SumTo4 ==
    ASSUME NEW f, f[0] \in Int, f[1] \in Int, f[2] \in Int, f[3] \in Int
    PROVE  SumFunctionOnSet(f, 0 .. 3) = f[0] + f[1] + f[2] + f[3]
<1>1. SumFunctionOnSet(f, 0 .. 2) = f[0] + f[1] + f[2]
  BY SumTo3
<1>2. \A i \in 0 .. 3 : f[i] \in Int
  BY SMT
<1>3. SumFunctionOnSet(f, 0 .. 3) = SumFunctionOnSet(f, 0 .. 2) + f[3]
  <2>1. 0 \in Int /\ 3 \in Int /\ 0 <= 3 /\ 3 - 1 = 2
    OBVIOUS
  <2>2. SumFunctionOnSet(f, 0 .. 3) = SumFunctionOnSet(f, 0 .. 3 - 1) + f[3]
    BY <1>2, <2>1, SumAlong, Zenon
  <2> QED
    BY <2>1, <2>2
<1> QED
  BY <1>1, <1>3

\* The four pairs of two neighbours each.
LEMMA SumOfSquare ==
    ASSUME NEW x \in Int, NEW y \in Int, NEW f,
           \A c \in {x, x + 1} \X {y, y + 1} : f[c] \in Int
    PROVE  SumFunctionOnSet(f, {x, x + 1} \X {y, y + 1})
             = f[<<x, y>>] + f[<<x + 1, y>>] + f[<<x, y + 1>>] + f[<<x + 1, y + 1>>]
<1> DEFINE a == <<x, y>>
           b == <<x + 1, y>>
           c == <<x, y + 1>>
           d == <<x + 1, y + 1>>
           S1 == {a}
           S2 == S1 \cup {b}
           S3 == S2 \cup {c}
           S4 == S3 \cup {d}
<1>1. b \notin S1 /\ c \notin S2 /\ d \notin S3 /\ S4 = {x, x + 1} \X {y, y + 1}
  OBVIOUS
<1> HIDE DEF a, b, c, d
<1>2. f[a] \in Int /\ f[b] \in Int /\ f[c] \in Int /\ f[d] \in Int
  BY DEF a, b, c, d
<1>3. IsFiniteSet(S1) /\ \A z \in S1 : f[z] \in Int
  BY <1>2, FS_Singleton
<1>4. SumFunctionOnSet(f, S1) = f[a]
  BY <1>3, SumOfOne
<1> HIDE DEF S1
<1>5. SumFunctionOnSet(f, S2) = SumFunctionOnSet(f, S1) + f[b]
  BY <1>1, <1>2, <1>3, SumMore
<1>6. IsFiniteSet(S2)
  BY <1>3, FS_AddElement
<1>7. \A z \in S2 : f[z] \in Int
  BY <1>2, <1>3
<1> HIDE DEF S2
<1>8. SumFunctionOnSet(f, S3) = SumFunctionOnSet(f, S2) + f[c]
  BY <1>1, <1>2, <1>6, <1>7, SumMore
<1>9. IsFiniteSet(S3)
  BY <1>6, FS_AddElement
<1>10. \A z \in S3 : f[z] \in Int
  BY <1>2, <1>7
<1> HIDE DEF S3
<1>11. SumFunctionOnSet(f, S4) = SumFunctionOnSet(f, S3) + f[d]
  BY <1>1, <1>2, <1>9, <1>10, SumMore
<1>12. SumFunctionOnSet(f, S4) = f[a] + f[b] + f[c] + f[d]
  BY <1>4, <1>5, <1>8, <1>11
<1> QED
  BY <1>1, <1>12 DEF a, b, c, d

\* A sum of four sums.
LEMMA SumOfFourFunctions ==
    ASSUME NEW S, IsFiniteSet(S), NEW f1, NEW f2, NEW f3, NEW f4, NEW h,
           \A x \in S : f1[x] \in Int /\ f2[x] \in Int /\ f3[x] \in Int /\ f4[x] \in Int,
           \A x \in S : h[x] = f1[x] + f2[x] + f3[x] + f4[x]
    PROVE  SumFunctionOnSet(h, S) = SumFunctionOnSet(f1, S) + SumFunctionOnSet(f2, S)
                                      + SumFunctionOnSet(f3, S) + SumFunctionOnSet(f4, S)
<1> DEFINE f12 == [x \in S |-> f1[x] + f2[x]]
           f34 == [x \in S |-> f3[x] + f4[x]]
<1>1. /\ \A x \in S : f12[x] = f1[x] + f2[x] /\ f34[x] = f3[x] + f4[x]
      /\ \A x \in S : f12[x] \in Int /\ f34[x] \in Int /\ h[x] = f12[x] + f34[x]
  OBVIOUS
<1> HIDE DEF f12, f34
<1>2. SumFunctionOnSet(h, S) = SumFunctionOnSet(f12, S) + SumFunctionOnSet(f34, S)
  BY <1>1, SumPlus
<1>3. SumFunctionOnSet(f12, S) = SumFunctionOnSet(f1, S) + SumFunctionOnSet(f2, S)
  BY <1>1, SumPlus
<1>4. SumFunctionOnSet(f34, S) = SumFunctionOnSet(f3, S) + SumFunctionOnSet(f4, S)
  BY <1>1, SumPlus
<1>5. /\ SumFunctionOnSet(f1, S) \in Int /\ SumFunctionOnSet(f2, S) \in Int
      /\ SumFunctionOnSet(f3, S) \in Int /\ SumFunctionOnSet(f4, S) \in Int
  BY SumType
<1> QED
  BY <1>2, <1>3, <1>4, <1>5

\* A sum over pairs, taken the other way round.
LEMMA SumSwapped ==
    ASSUME NEW A, NEW f, NEW h, IsFiniteSet(A),
           \A i, j \in A : f[<<i, j>>] \in Int /\ h[<<j, i>>] = f[<<i, j>>]
    PROVE  SumFunctionOnSet(h, A \X A) = SumFunctionOnSet(f, A \X A)
<1> DEFINE S == A \X A
           q == [c \in S |-> <<c[2], c[1]>>]
<1>1. IsFiniteSet(S)
  BY FS_Product
<1>2. \A c \in S : q[c] = <<c[2], c[1]>> /\ c = <<c[1], c[2]>> /\ c[1] \in A /\ c[2] \in A
  OBVIOUS
<1>3. \A c \in S : f[c] \in Int /\ h[q[c]] = f[c]
  BY <1>2
<1>4. \A c, d \in S : q[c] = q[d] => c = d
  BY <1>2
<1>5. {q[c] : c \in S} = S
  <2>1. ASSUME NEW c \in S PROVE q[c] \in S
    BY <1>2
  <2>2. ASSUME NEW c \in S PROVE \E d \in S : q[d] = c
    <3> DEFINE d == <<c[2], c[1]>>
    <3>1. d \in S /\ d[1] = c[2] /\ d[2] = c[1]
      BY <1>2
    <3>2. q[d] = c
      BY <1>2, <3>1
    <3> QED
      BY <3>1, <3>2
  <2> HIDE DEF q, S
  <2> QED
    BY <2>1, <2>2
<1> HIDE DEF q, S
<1>6. SumFunctionOnSet(h, {q[c] : c \in S}) = SumFunctionOnSet(f, S)
  BY <1>1, <1>3, <1>4, SumRenamed
<1> QED
  BY <1>5, <1>6 DEF S

\* Induction along the natural numbers, over a set.
LEMMA UpTo ==
    ASSUME NEW P, 0 \in P, \A n \in Nat : n \in P => n + 1 \in P
    PROVE  Nat \subseteq P
<1> SUFFICES ASSUME NEW n \in Nat PROVE n \in P
  OBVIOUS
<1> DEFINE S == 0 .. n
           Q == {T \in SUBSET S : \A m \in S : T = 0 .. m => m \in P}
<1>1. IsFiniteSet(S)
  BY FS_Interval
<1>2. ASSUME NEW T \in SUBSET S, \A U \in SUBSET T : U # T => U \in Q
      PROVE  T \in Q
  <2> SUFFICES ASSUME NEW m \in S, T = 0 .. m PROVE m \in P
    OBVIOUS
  <2>1. CASE m = 0
    BY <2>1
  <2>2. CASE m # 0
    <3>1. m - 1 \in S /\ m - 1 \in Nat /\ 0 .. m - 1 \in SUBSET T /\ 0 .. m - 1 # T
      BY <2>2
    <3>2. 0 .. m - 1 \in Q
      BY <1>2, <3>1
    <3>3. m - 1 \in P
      BY <3>1, <3>2
    <3> QED
      BY <3>1, <3>3
  <2> QED
    BY <2>1, <2>2
<1> HIDE DEF Q, S
<1>3. \A T \in SUBSET S : T \in Q
  BY <1>1, <1>2, SubsetInduction
<1>4. S \in Q
  BY <1>3
<1> QED
  BY <1>4 DEF Q, S

\* The sum over pairs, row by row.
RowSums(f, A, B, r) ==
    \A b \in B : /\ \A a \in A : f[<<a, b>>] \in Int
                 /\ r[b] = SumFunctionOnSet([a \in A |-> f[<<a, b>>]], A)
LEMMA SumOfPairs ==
    ASSUME NEW A, NEW B, NEW f, NEW r, IsFiniteSet(A), IsFiniteSet(B), RowSums(f, A, B, r)
    PROVE  SumFunctionOnSet(f, A \X B) = SumFunctionOnSet(r, B)
<1>0. /\ \A a \in A, b \in B : f[<<a, b>>] \in Int
      /\ \A b \in B : r[b] = SumFunctionOnSet([a \in A |-> f[<<a, b>>]], A)
  BY DEF RowSums
<1> DEFINE P == {T \in SUBSET B : SumFunctionOnSet(f, A \X T) = SumFunctionOnSet(r, T)}
<1>1. ASSUME NEW b \in B
      PROVE  r[b] \in Int /\ SumFunctionOnSet(f, A \X {b}) = r[b]
  <2> DEFINE h == [a \in A |-> f[<<a, b>>]]
             q == [a \in A |-> <<a, b>>]
  <2>1. \A a \in A : h[a] \in Int /\ f[q[a]] = h[a]
    BY <1>0
  <2>2. \A x, y \in A : q[x] = q[y] => x = y
    OBVIOUS
  <2>3. {q[a] : a \in A} = A \X {b}
    OBVIOUS
  <2>4. r[b] = SumFunctionOnSet(h, A)
    BY <1>0
  <2> HIDE DEF h, q
  <2>5. SumFunctionOnSet(h, A) \in Int
    BY <2>1, SumType
  <2>6. SumFunctionOnSet(f, {q[a] : a \in A}) = SumFunctionOnSet(h, A)
    BY <2>1, <2>2, SumRenamed
  <2> QED
    BY <2>3, <2>4, <2>5, <2>6
<1>2. ASSUME NEW T \in SUBSET B, \A U \in SUBSET T : U # T => U \in P
      PROVE  T \in P
  <2>1. CASE T = {}
    <3>1. A \X T = {}
      BY <2>1
    <3> QED
      BY <2>1, <3>1, SumEmpty
  <2>2. CASE T # {}
    <3>1. PICK b \in T : TRUE
      BY <2>2
    <3> DEFINE U == T \ {b}
               S == A \X T
               R == A \X {b}
    <3>2. U \in SUBSET T /\ U # T /\ b \in B
      BY <3>1
    <3>3. SumFunctionOnSet(f, A \X U) = SumFunctionOnSet(r, U)
      BY <1>2, <3>2
    <3>4. IsFiniteSet(T) /\ IsFiniteSet(S)
      <4>1. IsFiniteSet(T)
        BY FS_Subset
      <4> QED
        BY <4>1, FS_Product
    <3>5. SumFunctionOnSet(r, T) = r[b] + SumFunctionOnSet(r, U)
      <4>1. \A x \in T : r[x] \in Int
        BY <1>1
      <4> QED
        BY <3>4, <4>1, SumTakes
    <3>6. R \in SUBSET S /\ S \ R = A \X U /\ \A x \in S : f[x] \in Int
      BY <1>0
    <3> HIDE DEF S, R, U
    <3>7. SumFunctionOnSet(f, S) = SumFunctionOnSet(f, R) + SumFunctionOnSet(f, S \ R)
      BY <3>4, <3>6, SumSplit
    <3>8. SumFunctionOnSet(f, R) = r[b]
      BY <1>1, <3>2 DEF R
    <3>9. SumFunctionOnSet(f, S) = SumFunctionOnSet(r, T)
      BY <3>3, <3>5, <3>6, <3>7, <3>8
    <3> QED
      BY <3>9 DEF S
  <2> QED
    BY <2>1, <2>2
<1> HIDE DEF P
<1>3. \A T \in SUBSET B : T \in P
  BY <1>2, SubsetInduction
<1>4. B \in P
  BY <1>3
<1> QED
  BY <1>4 DEF P
================================================================================
