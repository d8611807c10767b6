-------------------------- MODULE DistributionProofs --------------------------
(***************************************************************************)
(* Facts about folds and sums over finite sets, and then about the         *)
(* operations of Distribution, for any validators, delegations, shares and *)
(* rates: what an operation changes, what makes the account of a validator *)
(* fit, and that every operation leaves it fitting.                        *)
(***************************************************************************)
EXTENDS Distribution, LegacyDecProofs, FiniteSetTheorems, WellFoundedInduction, TLAPS

-----------------------------------------------------------------------------
(* Folds and sums.                                                         *)

\* The element of a set a fold takes next.
Chosen(s) == CHOOSE x \in s : TRUE

\* It is one of them.
LEMMA ChosenIsElement ==
    ASSUME NEW s, s # {}
    PROVE  Chosen(s) \in s
  BY DEF Chosen

\* Of some subsets of a finite set one has no other of them inside it.
LEMMA LeastSubset ==
    ASSUME NEW S, IsFiniteSet(S), NEW C \in SUBSET SUBSET S, C # {}
    PROVE  \E T \in C : \A U \in C : ~ (U \subseteq T /\ U # T)
<1> DEFINE R == StrictSubsetOrdering(S)
<1>1. PICK T \in C : \A U \in C : <<U, T>> \notin R
  <2>1. IsWellFoundedOn(R, SUBSET S)
    BY FS_StrictSubsetOrderingWellFounded, FS_FiniteSubsetsOfFinite
  <2> HIDE DEF R
  <2>. QED
    BY <2>1, WFMin
<1>. QED
  BY <1>1 DEF StrictSubsetOrdering

\* What holds of a fold over no element, and over one element more, holds of it.
\* h is the fold of every subset.
LEMMA FoldHolds ==
    ASSUME NEW S, IsFiniteSet(S), NEW h, NEW P,
           <<{}, h[{}]>> \in P,
           ASSUME NEW s \in SUBSET S, s # {},
                  <<s \ {Chosen(s)}, h[s \ {Chosen(s)}]>> \in P
           PROVE  <<s, h[s]>> \in P
    PROVE  \A s \in SUBSET S : <<s, h[s]>> \in P
<1> DEFINE C == {s \in SUBSET S : <<s, h[s]>> \notin P}
<1> SUFFICES ASSUME C # {}
             PROVE  FALSE
  OBVIOUS
<1>1. PICK T \in C : \A U \in C : ~ (U \subseteq T /\ U # T)
  <2>1. C \in SUBSET SUBSET S
    OBVIOUS
  <2> HIDE DEF C
  <2>. QED
    BY <2>1, LeastSubset
<1>2. T # {}
  OBVIOUS
<1>3. T \ {Chosen(T)} \subseteq T /\ T \ {Chosen(T)} # T /\ T \ {Chosen(T)} \in SUBSET S
  BY <1>2, ChosenIsElement
<1>4. <<T \ {Chosen(T)}, h[T \ {Chosen(T)}]>> \in P
  BY <1>1, <1>3
<1>. QED
  BY <1>2, <1>4

\* A non-empty set of numbers has a least one.
LEMMA LeastNumber ==
    ASSUME NEW S \in SUBSET Nat, S # {}
    PROVE  \E d \in S : \A e \in S : ~ (e < d)
<1> DEFINE R == OpToRel(<, Nat)
<1>1. PICK d \in S : \A e \in S : <<e, d>> \notin R
  <2> HIDE DEF R
  <2>1. IsWellFoundedOn(R, Nat)
    BY NatLessThanWellFounded DEF R
  <2>. QED
    BY <2>1, WFMin
<1>. QED
  BY <1>1 DEF OpToRel

\* h is the fold of g from base over every subset of S.
IsFold(h, base, g, S) ==
    \A s \in SUBSET S :
       h[s] = IF s = {} THEN base ELSE g[<<Chosen(s), h[s \ {Chosen(s)}]>>]

\* A fold by a function is defined for every finite set.
LEMMA FoldExists ==
    ASSUME NEW S, IsFiniteSet(S), NEW V, NEW base \in V, NEW g \in [S \X V -> V]
    PROVE  \E h \in [SUBSET S -> V] : IsFold(h, base, g, S)
<1> DEFINE Below(n) == {s \in SUBSET S : Cardinality(s) <= n}
           Of(h, s) == IF s = {} THEN base
                       ELSE g[<<Chosen(s), h[s \ {Chosen(s)}]>>]
           E(n) == \E h \in [Below(n) -> V] : \A s \in Below(n) : h[s] = Of(h, s)
           B == {n \in Nat : ~ E(n)}
<1>1. \A s \in SUBSET S :
         /\ Cardinality(s) \in Nat
         /\ Cardinality(s) <= Cardinality(S)
         /\ Cardinality(s) = 0 => s = {}
         /\ s # {} => /\ Chosen(s) \in S
                      /\ s \ {Chosen(s)} \in SUBSET S
                      /\ Cardinality(s \ {Chosen(s)}) = Cardinality(s) - 1
  <2> SUFFICES ASSUME NEW s \in SUBSET S
               PROVE  /\ Cardinality(s) \in Nat
                      /\ Cardinality(s) <= Cardinality(S)
                      /\ Cardinality(s) = 0 => s = {}
                      /\ s # {} => /\ Chosen(s) \in S
                                   /\ s \ {Chosen(s)} \in SUBSET S
                                   /\ Cardinality(s \ {Chosen(s)}) = Cardinality(s) - 1
    OBVIOUS
  <2>1. IsFiniteSet(s) /\ Cardinality(s) <= Cardinality(S)
    BY FS_Subset
  <2>2. Cardinality(s) \in Nat /\ (Cardinality(s) = 0 => s = {})
    BY <2>1, FS_CardinalityType, FS_EmptySet
  <2>3. s # {} => Chosen(s) \in s
    BY ChosenIsElement
  <2>4. s # {} => Cardinality(s \ {Chosen(s)}) = Cardinality(s) - 1
    BY <2>1, <2>3, FS_RemoveElement
  <2>. QED
    BY <2>1, <2>2, <2>3, <2>4
<1>2. E(0)
  <2> DEFINE h == [s \in Below(0) |-> base]
  <2>1. ASSUME NEW s \in Below(0)
        PROVE  s = {}
    <3>1. s \in SUBSET S /\ Cardinality(s) <= 0
      OBVIOUS
    <3>2. Cardinality(s) \in Nat /\ (Cardinality(s) = 0 => s = {})
      BY <1>1, <3>1, Zenon
    <3>. QED
      BY <3>1, <3>2
  <2>2. h \in [Below(0) -> V] /\ \A s \in Below(0) : h[s] = Of(h, s)
    BY <2>1
  <2>. QED
    BY <2>2
<1>3. ASSUME NEW n \in Nat, E(n)
      PROVE  E(n + 1)
  <2>1. PICK h \in [Below(n) -> V] : \A s \in Below(n) : h[s] = Of(h, s)
    BY <1>3
  <2> DEFINE k == [s \in Below(n + 1) |-> IF s \in Below(n) THEN h[s] ELSE Of(h, s)]
  <2>2. ASSUME NEW s \in Below(n + 1)
        PROVE  k[s] \in V /\ k[s] = Of(k, s)
    <3>1. s # {} => /\ s \ {Chosen(s)} \in Below(n)
                    /\ s \ {Chosen(s)} \in Below(n + 1)
                    /\ Chosen(s) \in S
      BY <1>1
    <3>2. k[s] = Of(h, s)
      BY <2>1
    <3>3. s # {} => k[s \ {Chosen(s)}] = h[s \ {Chosen(s)}] /\ h[s \ {Chosen(s)}] \in V
      BY <3>1
    <3> HIDE DEF k
    <3>. QED
      BY <3>1, <3>2, <3>3
  <2>3. k = [s \in Below(n + 1) |-> k[s]]
    OBVIOUS
  <2> HIDE DEF k, Below, Of
  <2>4. k \in [Below(n + 1) -> V]
    BY <2>2, <2>3
  <2>. QED
    BY <2>2, <2>4
<1>4. B = {}
  <2> HIDE DEF E
  <2> SUFFICES ASSUME B # {}
               PROVE  FALSE
    OBVIOUS
  <2>1. PICK d \in B : \A e \in B : ~ (e < d)
    BY LeastNumber
  <2>2. d \in Nat /\ d # 0
    BY <1>2
  <2>3. d - 1 \in Nat /\ d - 1 < d
    BY <2>2
  <2>4. E(d - 1)
    BY <2>1, <2>3
  <2>5. E((d - 1) + 1)
    BY <1>3, <2>3, <2>4
  <2>. QED
    BY <2>2, <2>5
<1>5. Cardinality(S) \in Nat
  BY FS_CardinalityType
<1>6. Below(Cardinality(S)) = SUBSET S
  BY <1>1
<1>7. E(Cardinality(S))
  BY <1>4, <1>5
<1> HIDE DEF Below
<1>. QED
  BY <1>6, <1>7 DEF IsFold

\* h is the fold by g over every part of S, as a function of its own values.
IsRun(h, base, g, S) ==
    h = [s \in SUBSET S |-> IF s = {} THEN base ELSE g[<<Chosen(s), h[s \ {Chosen(s)}]>>]]

\* Such a fold exists, and it stays in P.
RunsInto(g, base, S, P) ==
    \E h : IsRun(h, base, g, S) /\ \A s \in SUBSET S : <<s, h[s]>> \in P

\* One step of a fold by g stays in P.
Keeps(g, S, V, P) ==
    \A s \in SUBSET S : \A t \in V :
       s # {} /\ <<s \ {Chosen(s)}, t>> \in P => <<s, g[<<Chosen(s), t>>]>> \in P

\* A fold that never leaves P is defined, though the function is not known to
\* return a value of V elsewhere.
LEMMA FoldRuns ==
    ASSUME NEW S, IsFiniteSet(S), NEW V, NEW base \in V, NEW g,
           NEW P \in SUBSET ((SUBSET S) \X V),
           <<{}, base>> \in P,
           Keeps(g, S, V, P)
    PROVE  RunsInto(g, base, S, P)
<1> DEFINE k == [p \in S \X V |-> IF g[p] \in V THEN g[p] ELSE base]
<1>1. k \in [S \X V -> V]
  OBVIOUS
<1>2. \A p \in S \X V : g[p] \in V => k[p] = g[p]
  OBVIOUS
<1> HIDE DEF k
<1>3. PICK h \in [SUBSET S -> V] : IsFold(h, base, k, S)
  BY <1>1, FoldExists, Zenon
<1>4. \A s \in SUBSET S :
         h[s] = IF s = {} THEN base ELSE k[<<Chosen(s), h[s \ {Chosen(s)}]>>]
  BY <1>3, Zenon DEF IsFold
<1>5. ASSUME NEW s \in SUBSET S, s # {}, <<s \ {Chosen(s)}, h[s \ {Chosen(s)}]>> \in P
      PROVE  /\ <<s, h[s]>> \in P
             /\ h[s] = g[<<Chosen(s), h[s \ {Chosen(s)}]>>]
  <2> DEFINE p == <<Chosen(s), h[s \ {Chosen(s)}]>>
  <2>1. Chosen(s) \in S /\ s \ {Chosen(s)} \in SUBSET S
    BY <1>5, ChosenIsElement
  <2>2. h[s \ {Chosen(s)}] \in V
    BY <2>1
  <2>3. <<s, g[p]>> \in P
    BY <1>5, <2>2 DEF Keeps
  <2>4. g[p] \in V /\ p \in S \X V
    BY <2>1, <2>2, <2>3
  <2> HIDE DEF p
  <2>5. h[s] = k[p]
    BY <1>4, <1>5 DEF p
  <2>. QED
    BY <1>2, <2>3, <2>4, <2>5 DEF p
<1>6. <<{}, h[{}]>> \in P
  BY <1>4
<1>7. \A s \in SUBSET S : <<s, h[s]>> \in P
  BY <1>5, <1>6, FoldHolds
<1>8. ASSUME NEW s \in SUBSET S
      PROVE  h[s] = IF s = {} THEN base ELSE g[<<Chosen(s), h[s \ {Chosen(s)}]>>]
  <2>1. CASE s = {}
    BY <1>4, <2>1
  <2>2. CASE s # {}
    <3>1. s \ {Chosen(s)} \in SUBSET S
      OBVIOUS
    <3>2. <<s \ {Chosen(s)}, h[s \ {Chosen(s)}]>> \in P
      BY <1>7, <3>1
    <3>. QED
      BY <1>5, <2>2, <3>2
  <2>. QED
    BY <2>1, <2>2
<1>9. IsRun(h, base, g, S)
  <2>1. h = [s \in SUBSET S |-> h[s]]
    BY <1>3
  <2>. QED
    BY <1>8, <2>1 DEF IsRun
<1>. QED
  BY <1>7, <1>9 DEF RunsInto

-----------------------------------------------------------------------------
(* Sums. *)

\* What the sum over a set is, from a sum over one less.
SumBody(f, h, s) == IF s = {} THEN 0 ELSE f[Chosen(s)] + h[s \ {Chosen(s)}]

\* h is the sum of f over every subset of S.
IsSum(h, f, S) ==
    /\ h \in [SUBSET S -> Int]
    /\ \A s \in SUBSET S : h[s] = SumBody(f, h, s) /\ SumFunctionOnSet(f, s) = h[s]

\* A sum is a fold, and the same one for a part of the set.
LEMMA SumUnfolds ==
    ASSUME NEW S, IsFiniteSet(S), NEW f, \A x \in S : f[x] \in Int
    PROVE  \E h : IsSum(h, f, S)
<1> DEFINE g == [p \in S \X Int |-> f[p[1]] + p[2]]
<1>1. g \in [S \X Int -> Int]
  OBVIOUS
<1>2. PICK h \in [SUBSET S -> Int] : IsFold(h, 0, g, S)
  <2> HIDE DEF g
  <2>1. 0 \in Int
    OBVIOUS
  <2>. QED
    BY <1>1, <2>1, FoldExists, Zenon
<1>3. ASSUME NEW s \in SUBSET S
      PROVE  h[s] = SumBody(f, h, s)
  <2>1. CASE s = {}
    BY <1>2, <2>1 DEF SumBody, IsFold
  <2>2. CASE s # {}
    <3>1. Chosen(s) \in S /\ s \ {Chosen(s)} \in SUBSET S
      BY <2>2, ChosenIsElement
    <3>2. g[<<Chosen(s), h[s \ {Chosen(s)}]>>] = f[Chosen(s)] + h[s \ {Chosen(s)}]
      BY <3>1
    <3> HIDE DEF g
    <3>. QED
      BY <1>2, <2>2, <3>2 DEF SumBody, IsFold
  <2>. QED
    BY <2>1, <2>2
<1>4. ASSUME NEW T \in SUBSET S
      PROVE  SumFunctionOnSet(f, T) = h[T]
  <2> DEFINE P(k) == k = [s \in SUBSET T |-> SumBody(f, k, s)]
             k == CHOOSE j : P(j)
  <2>1. \E j : P(j)
    <3> DEFINE j == [s \in SUBSET T |-> h[s]]
    <3>1. ASSUME NEW s \in SUBSET T
          PROVE  j[s] = SumBody(f, j, s)
      <4>1. s \in SUBSET S /\ s \ {Chosen(s)} \in SUBSET T
        OBVIOUS
      <4>2. j[s] = h[s] /\ j[s \ {Chosen(s)}] = h[s \ {Chosen(s)}]
        BY <4>1
      <4> HIDE DEF j
      <4>. QED
        BY <1>3, <4>1, <4>2 DEF SumBody
    <3>2. j = [s \in SUBSET T |-> j[s]]
      OBVIOUS
    <3> HIDE DEF j
    <3>3. j = [s \in SUBSET T |-> SumBody(f, j, s)]
      BY <3>1, <3>2
    <3>. QED
      BY <3>3
  <2>2. P(k)
    <3> HIDE DEF P
    <3>. QED
      BY <2>1, Zenon
  <2>3. SumFunctionOnSet(f, T) = k[T]
    BY Zenon DEF SumFunctionOnSet, FoldFunctionOnSet, MapThenFoldSet, SumBody, Chosen
  <2> HIDE DEF k
  <2>4. \A s \in SUBSET T : k[s] = SumBody(f, k, s)
    BY <2>2
  <2>5. \A s \in SUBSET T : <<s, k[s]>> \in {<<s2, h[s2]>> : s2 \in SUBSET S}
    <3> DEFINE Q == {<<s2, h[s2]>> : s2 \in SUBSET S}
    <3>1. IsFiniteSet(T)
      BY FS_Subset
    <3>2. <<{}, k[{}]>> \in Q
      BY <2>4, <1>3 DEF SumBody
    <3>3. ASSUME NEW s \in SUBSET T, s # {},
                 <<s \ {Chosen(s)}, k[s \ {Chosen(s)}]>> \in Q
          PROVE  <<s, k[s]>> \in Q
      <4>1. k[s \ {Chosen(s)}] = h[s \ {Chosen(s)}]
        BY <3>3
      <4>2. k[s] = h[s]
        BY <2>4, <1>3, <4>1 DEF SumBody
      <4>. QED
        BY <4>2
    <3> HIDE DEF Q
    <3>4. \A s \in SUBSET T : <<s, k[s]>> \in Q
      BY <3>1, <3>2, <3>3, FoldHolds
    <3>. QED
      BY <3>4 DEF Q
  <2>6. k[T] = h[T]
    BY <2>5
  <2>. QED
    BY <2>3, <2>6
<1>. QED
  BY <1>3, <1>4 DEF IsSum

\* A sum of integers is an integer.
LEMMA SumType ==
    ASSUME NEW S, IsFiniteSet(S), NEW f, \A x \in S : f[x] \in Int
    PROVE  SumFunctionOnSet(f, S) \in Int
<1>1. PICK h : IsSum(h, f, S)
  BY SumUnfolds, Zenon
<1>2. S \in SUBSET S
  OBVIOUS
<1>. QED
  BY <1>1, <1>2 DEF IsSum

\* A sum over nothing.
LEMMA SumEmpty ==
    ASSUME NEW f
    PROVE  SumFunctionOnSet(f, {}) = 0
<1>1. IsFiniteSet({}) /\ \A x \in {} : f[x] \in Int
  BY FS_EmptySet
<1>2. PICK h : IsSum(h, f, {})
  BY <1>1, SumUnfolds, Zenon
<1>3. {} \in SUBSET {}
  OBVIOUS
<1>. QED
  BY <1>2, <1>3 DEF SumBody, IsSum

\* Any element can be taken out of a sum.
LEMMA SumTakes ==
    ASSUME NEW S, IsFiniteSet(S), NEW f, \A x \in S : f[x] \in Int, NEW x \in S
    PROVE  SumFunctionOnSet(f, S) = f[x] + SumFunctionOnSet(f, S \ {x})
<1>1. PICK h : IsSum(h, f, S)
  BY SumUnfolds, Zenon
<1> DEFINE Takes(s, y) == h[s] = f[y] + h[s \ {y}]
           C == {s \in SUBSET S : \E y \in s : ~ Takes(s, y)}
<1>2. C = {}
  <2> SUFFICES ASSUME C # {}
               PROVE  FALSE
    OBVIOUS
  <2>1. PICK T \in C : \A U \in C : ~ (U \subseteq T /\ U # T)
    <3>1. C \in SUBSET SUBSET S
      OBVIOUS
    <3> HIDE DEF C
    <3>. QED
      BY <3>1, LeastSubset
  <2>2. PICK y \in T : ~ Takes(T, y)
    OBVIOUS
  <2> DEFINE c == Chosen(T)
  <2>3. T \in SUBSET S /\ T # {} /\ c \in T /\ c \in S /\ y \in S
    BY ChosenIsElement
  <2> HIDE DEF c
  <2>4. h[T] = f[c] + h[T \ {c}]
    BY <1>1, <2>3 DEF SumBody, c, IsSum
  <2>5. CASE c = y
    BY <2>2, <2>4, <2>5
  <2>6. CASE c # y
    <3>1. T \ {c} \in SUBSET S /\ T \ {y} \in SUBSET S /\ y \in T \ {c} /\ c \in T \ {y}
      BY <2>3, <2>6
    <3>2. T \ {c} \notin C /\ T \ {y} \notin C
      BY <2>1, <2>3
    <3>3. Takes(T \ {c}, y) /\ Takes(T \ {y}, c)
      BY <3>1, <3>2
    <3>4. (T \ {c}) \ {y} = (T \ {y}) \ {c}
      OBVIOUS
    <3>5. f[c] \in Int /\ f[y] \in Int /\ h[(T \ {c}) \ {y}] \in Int
      BY <1>1, <2>3 DEF IsSum
    <3>6. /\ h[T \ {c}] = f[y] + h[(T \ {c}) \ {y}]
          /\ h[T \ {y}] = f[c] + h[(T \ {c}) \ {y}]
      BY <3>3, <3>4
    <3>. QED
      BY <2>2, <2>4, <3>5, <3>6
  <2>. QED
    BY <2>5, <2>6
<1>3. S \in SUBSET S /\ S \ {x} \in SUBSET S
  OBVIOUS
<1>. QED
  BY <1>1, <1>2, <1>3 DEF IsSum

\* Two sums over a set differ by no more than their terms do.
LEMMA SumGrows ==
    ASSUME NEW S, IsFiniteSet(S), NEW f, NEW g, NEW c \in Int,
           \A x \in S : f[x] \in Int /\ g[x] \in Int /\ g[x] <= f[x] + c
    PROVE  SumFunctionOnSet(g, S) <= SumFunctionOnSet(f, S) + c * Cardinality(S)
<1> DEFINE Grows(s) == SumFunctionOnSet(g, s)
                          <= SumFunctionOnSet(f, s) + c * Cardinality(s)
           C == {s \in SUBSET S : ~ Grows(s)}
<1>1. C = {}
  <2> SUFFICES ASSUME C # {}
               PROVE  FALSE
    OBVIOUS
  <2>1. PICK T \in C : \A U \in C : ~ (U \subseteq T /\ U # T)
    <3>1. C \in SUBSET SUBSET S
      OBVIOUS
    <3> HIDE DEF C
    <3>. QED
      BY <3>1, LeastSubset
  <2>2. T \in SUBSET S /\ ~ Grows(T)
    OBVIOUS
  <2>3. IsFiniteSet(T)
    BY <2>2, FS_Subset
  <2>4. CASE T = {}
    <3>1. SumFunctionOnSet(g, T) = 0 /\ SumFunctionOnSet(f, T) = 0
      BY <2>4, SumEmpty
    <3>2. Cardinality(T) = 0
      BY <2>4, FS_EmptySet
    <3>. QED
      BY <2>2, <3>1, <3>2
  <2>5. CASE T # {}
    <3>1. PICK x \in T : TRUE
      BY <2>5
    <3> DEFINE R == T \ {x}
    <3>2. R \in SUBSET S /\ R \notin C
      BY <2>1, <2>2, <3>1
    <3>3. Grows(R)
      BY <3>2
    <3>4. IsFiniteSet(R) /\ Cardinality(T) = Cardinality(R) + 1 /\ Cardinality(R) \in Nat
      <4>1. IsFiniteSet(R) /\ Cardinality(R) = Cardinality(T) - 1
        BY <2>3, <3>1, FS_RemoveElement
      <4>2. Cardinality(R) \in Nat /\ Cardinality(T) \in Nat
        BY <2>3, <4>1, FS_CardinalityType
      <4>. QED
        BY <4>1, <4>2
    <3>5. /\ f[x] \in Int /\ g[x] \in Int /\ g[x] <= f[x] + c
          /\ \A y \in T : f[y] \in Int /\ g[y] \in Int
          /\ \A y \in R : f[y] \in Int /\ g[y] \in Int
      BY <2>2, <3>1
    <3>6. /\ SumFunctionOnSet(f, T) = f[x] + SumFunctionOnSet(f, R)
          /\ SumFunctionOnSet(g, T) = g[x] + SumFunctionOnSet(g, R)
      BY <2>3, <3>1, <3>5, SumTakes
    <3>7. SumFunctionOnSet(f, R) \in Int /\ SumFunctionOnSet(g, R) \in Int
      BY <3>4, <3>5, SumType
    <3>8. c * Cardinality(T) = c * Cardinality(R) + c
      BY <3>4
    <3>9. c * Cardinality(R) \in Int
      BY <3>4
    <3> HIDE DEF R
    <3>. QED
      BY <2>2, <3>3, <3>5, <3>6, <3>7, <3>8, <3>9
  <2>. QED
    BY <2>4, <2>5
<1>2. S \in SUBSET S
  OBVIOUS
<1>. QED
  BY <1>1, <1>2

\* Sums compare as what they add does.
LEMMA SumLeq ==
    ASSUME NEW S, IsFiniteSet(S), NEW f, NEW g,
           \A x \in S : f[x] \in Int /\ g[x] \in Int /\ g[x] <= f[x]
    PROVE  SumFunctionOnSet(g, S) <= SumFunctionOnSet(f, S)
<1>1. \A c : c = 0 => /\ c \in Int
                     /\ \A x \in S : f[x] \in Int /\ g[x] \in Int /\ g[x] <= f[x] + c
  OBVIOUS
<1>2. \A c : c = 0 => SumFunctionOnSet(g, S) <= SumFunctionOnSet(f, S) + c * Cardinality(S)
  BY <1>1, SumGrows, Zenon
<1>3. SumFunctionOnSet(f, S) \in Int /\ Cardinality(S) \in Nat
  BY SumType, FS_CardinalityType
<1>. QED
  BY <1>2, <1>3

\* Equal terms have equal sums.
LEMMA SumSame ==
    ASSUME NEW S, IsFiniteSet(S), NEW f, NEW g,
           \A x \in S : f[x] \in Int /\ g[x] = f[x]
    PROVE  SumFunctionOnSet(g, S) = SumFunctionOnSet(f, S)
<1>1. \A x \in S : f[x] \in Int /\ g[x] \in Int /\ g[x] <= f[x] /\ f[x] <= g[x]
  OBVIOUS
<1>2. /\ SumFunctionOnSet(g, S) <= SumFunctionOnSet(f, S)
      /\ SumFunctionOnSet(f, S) <= SumFunctionOnSet(g, S)
  BY <1>1, SumLeq
<1>3. SumFunctionOnSet(f, S) \in Int /\ SumFunctionOnSet(g, S) \in Int
  BY <1>1, SumType
<1>. QED
  BY <1>2, <1>3

\* One term changes.
LEMMA SumChanges ==
    ASSUME NEW S, IsFiniteSet(S), NEW f, NEW g, NEW x \in S,
           \A y \in S : f[y] \in Int /\ g[y] \in Int,
           \A y \in S \ {x} : g[y] = f[y]
    PROVE  SumFunctionOnSet(g, S) = SumFunctionOnSet(f, S) + g[x] - f[x]
<1> DEFINE R == S \ {x}
<1>1. IsFiniteSet(R) /\ \A y \in R : f[y] \in Int /\ g[y] = f[y]
  BY FS_RemoveElement
<1>2. SumFunctionOnSet(g, R) = SumFunctionOnSet(f, R) /\ SumFunctionOnSet(f, R) \in Int
  <2> HIDE DEF R
  <2>. QED
    BY <1>1, SumSame, SumType
<1>3. /\ SumFunctionOnSet(f, S) = f[x] + SumFunctionOnSet(f, R)
      /\ SumFunctionOnSet(g, S) = g[x] + SumFunctionOnSet(g, R)
  BY SumTakes
<1>. QED
  BY <1>2, <1>3

\* A sum of naturals is a natural.
LEMMA SumNat ==
    ASSUME NEW S, IsFiniteSet(S), NEW f, \A x \in S : f[x] \in Nat
    PROVE  SumFunctionOnSet(f, S) \in Nat
<1> DEFINE z == [x \in S |-> 0]
<1>1. \A x \in S : f[x] \in Int /\ z[x] \in Int /\ z[x] <= f[x] /\ z[x] <= z[x] + 0
  OBVIOUS
<1>2. SumFunctionOnSet(z, S) >= 0
  <2> DEFINE C == {s \in SUBSET S : SumFunctionOnSet(z, s) # 0}
  <2>1. C = {}
    <3> SUFFICES ASSUME C # {}
                 PROVE  FALSE
      OBVIOUS
    <3>1. PICK T \in C : \A U \in C : ~ (U \subseteq T /\ U # T)
      <4>1. C \in SUBSET SUBSET S
        OBVIOUS
      <4> HIDE DEF C
      <4>. QED
        BY <4>1, LeastSubset
    <3>2. T # {}
      BY SumEmpty
    <3>3. PICK x \in T : TRUE
      BY <3>2
    <3>4. IsFiniteSet(T) /\ \A y \in T : z[y] \in Int
      BY FS_Subset
    <3>5. SumFunctionOnSet(z, T) = z[x] + SumFunctionOnSet(z, T \ {x})
      <4> HIDE DEF z
      <4>. QED
        BY <3>3, <3>4, SumTakes
    <3>6. z[x] = 0 /\ SumFunctionOnSet(z, T \ {x}) = 0
      BY <3>1, <3>3
    <3>. QED
      BY <3>5, <3>6
  <2>2. S \in SUBSET S
    OBVIOUS
  <2>. QED
    BY <2>1, <2>2
<1>3. SumFunctionOnSet(z, S) <= SumFunctionOnSet(f, S)
  <2> HIDE DEF z
  <2>. QED
    BY <1>1, SumLeq
<1>4. SumFunctionOnSet(z, S) \in Int /\ SumFunctionOnSet(f, S) \in Int
  <2> HIDE DEF z
  <2>. QED
    BY <1>1, SumType
<1>. QED
  BY <1>2, <1>3, <1>4

\* A sum of sums.
LEMMA SumAdds ==
    ASSUME NEW S, IsFiniteSet(S), NEW f, NEW g, NEW k,
           \A x \in S : f[x] \in Int /\ g[x] \in Int /\ k[x] = f[x] + g[x]
    PROVE  SumFunctionOnSet(k, S) = SumFunctionOnSet(f, S) + SumFunctionOnSet(g, S)
<1> DEFINE C == {s \in SUBSET S : SumFunctionOnSet(k, s)
                                     # SumFunctionOnSet(f, s) + SumFunctionOnSet(g, s)}
<1>1. C = {}
  <2> SUFFICES ASSUME C # {}
               PROVE  FALSE
    OBVIOUS
  <2>1. PICK T \in C : \A U \in C : ~ (U \subseteq T /\ U # T)
    <3>1. C \in SUBSET SUBSET S
      OBVIOUS
    <3> HIDE DEF C
    <3>. QED
      BY <3>1, LeastSubset
  <2>2. T # {}
    <3> SUFFICES ASSUME T = {}
                 PROVE  FALSE
      OBVIOUS
    <3>1. SumFunctionOnSet(f, T) = 0 /\ SumFunctionOnSet(g, T) = 0 /\ SumFunctionOnSet(k, T) = 0
      BY SumEmpty
    <3>2. SumFunctionOnSet(k, T) # SumFunctionOnSet(f, T) + SumFunctionOnSet(g, T)
      BY <2>1
    <3>. QED
      BY <3>1, <3>2
  <2>3. PICK x \in T : TRUE
    BY <2>2
  <2> DEFINE R == T \ {x}
  <2>4. IsFiniteSet(T) /\ IsFiniteSet(R) /\ R \in SUBSET S
    BY FS_Subset, FS_RemoveElement
  <2>5. /\ \A y \in T : f[y] \in Int /\ g[y] \in Int /\ k[y] \in Int
        /\ \A y \in R : f[y] \in Int /\ g[y] \in Int /\ k[y] \in Int
        /\ k[x] = f[x] + g[x]
    OBVIOUS
  <2>6. /\ SumFunctionOnSet(f, T) = f[x] + SumFunctionOnSet(f, R)
        /\ SumFunctionOnSet(g, T) = g[x] + SumFunctionOnSet(g, R)
        /\ SumFunctionOnSet(k, T) = k[x] + SumFunctionOnSet(k, R)
    BY <2>3, <2>4, <2>5, SumTakes
  <2>7. R \notin C
    BY <2>1, <2>3
  <2>8. SumFunctionOnSet(k, R) = SumFunctionOnSet(f, R) + SumFunctionOnSet(g, R)
    BY <2>4, <2>7
  <2>9. SumFunctionOnSet(f, R) \in Int /\ SumFunctionOnSet(g, R) \in Int
    <3> HIDE DEF R
    <3>. QED
      BY <2>4, <2>5, SumType
  <2>10. SumFunctionOnSet(k, T) # SumFunctionOnSet(f, T) + SumFunctionOnSet(g, T)
    BY <2>1
  <2> HIDE DEF R, C
  <2>. QED
    BY <2>3, <2>5, <2>6, <2>8, <2>9, <2>10
<1>2. S \in SUBSET S
  OBVIOUS
<1>. QED
  BY <1>1, <1>2

\* Every term times n.
LEMMA SumScales ==
    ASSUME NEW S, IsFiniteSet(S), NEW f, NEW g, NEW n \in Int,
           \A x \in S : f[x] \in Int /\ g[x] = n * f[x]
    PROVE  SumFunctionOnSet(g, S) = n * SumFunctionOnSet(f, S)
<1> DEFINE C == {s \in SUBSET S : SumFunctionOnSet(g, s) # n * SumFunctionOnSet(f, s)}
<1>1. C = {}
  <2> SUFFICES ASSUME C # {}
               PROVE  FALSE
    OBVIOUS
  <2>1. PICK T \in C : \A U \in C : ~ (U \subseteq T /\ U # T)
    <3>1. C \in SUBSET SUBSET S
      OBVIOUS
    <3> HIDE DEF C
    <3>. QED
      BY <3>1, LeastSubset
  <2>2. T # {}
    <3> SUFFICES ASSUME T = {}
                 PROVE  FALSE
      OBVIOUS
    <3>1. SumFunctionOnSet(f, T) = 0 /\ SumFunctionOnSet(g, T) = 0
      BY SumEmpty
    <3>2. SumFunctionOnSet(g, T) # n * SumFunctionOnSet(f, T)
      BY <2>1
    <3>. QED
      BY <3>1, <3>2
  <2>3. PICK x \in T : TRUE
    BY <2>2
  <2> DEFINE R == T \ {x}
  <2>4. IsFiniteSet(T) /\ IsFiniteSet(R) /\ R \in SUBSET S
    BY FS_Subset, FS_RemoveElement
  <2>5. /\ \A y \in T : f[y] \in Int /\ g[y] \in Int
        /\ \A y \in R : f[y] \in Int /\ g[y] \in Int
        /\ g[x] = n * f[x]
    OBVIOUS
  <2>6. /\ SumFunctionOnSet(f, T) = f[x] + SumFunctionOnSet(f, R)
        /\ SumFunctionOnSet(g, T) = g[x] + SumFunctionOnSet(g, R)
    BY <2>3, <2>4, <2>5, SumTakes
  <2>7. R \notin C
    BY <2>1, <2>3
  <2>8. SumFunctionOnSet(g, R) = n * SumFunctionOnSet(f, R)
    BY <2>4, <2>7
  <2>9. SumFunctionOnSet(f, R) \in Int /\ f[x] \in Int
    <3> HIDE DEF R
    <3>. QED
      BY <2>3, <2>4, <2>5, SumType
  <2>10. SumFunctionOnSet(g, T) # n * SumFunctionOnSet(f, T)
    BY <2>1
  <2> HIDE DEF R, C
  <2>11. n * (f[x] + SumFunctionOnSet(f, R)) = n * f[x] + n * SumFunctionOnSet(f, R)
    BY <2>9
  <2>. QED
    BY <2>5, <2>6, <2>8, <2>10, <2>11
<1>2. S \in SUBSET S
  OBVIOUS
<1>. QED
  BY <1>1, <1>2

\* Leaving out naturals does not make a sum greater.
LEMMA SumSubset ==
    ASSUME NEW S, IsFiniteSet(S), NEW L \in SUBSET S, NEW f, \A x \in S : f[x] \in Nat
    PROVE  SumFunctionOnSet(f, L) <= SumFunctionOnSet(f, S)
<1> DEFINE C == {s \in SUBSET S : /\ L \subseteq s
                                  /\ ~ (SumFunctionOnSet(f, L) <= SumFunctionOnSet(f, s))}
<1>1. C = {}
  <2> SUFFICES ASSUME C # {}
               PROVE  FALSE
    OBVIOUS
  <2>1. PICK T \in C : \A U \in C : ~ (U \subseteq T /\ U # T)
    <3>1. C \in SUBSET SUBSET S
      OBVIOUS
    <3> HIDE DEF C
    <3>. QED
      BY <3>1, LeastSubset
  <2>2. /\ T \subseteq S /\ L \subseteq T
        /\ ~ (SumFunctionOnSet(f, L) <= SumFunctionOnSet(f, T))
    BY <2>1
  <2>3. IsFiniteSet(T) /\ IsFiniteSet(L)
    BY <2>2, FS_Subset
  <2>4. SumFunctionOnSet(f, L) \in Int
    <3>1. \A x \in L : f[x] \in Int
      OBVIOUS
    <3>. QED
      BY <2>3, <3>1, SumType
  <2>5. PICK x \in T : x \notin L
    <3>1. T # L
      BY <2>2, <2>4
    <3>. QED
      BY <2>2, <3>1
  <2> DEFINE R == T \ {x}
  <2>6. R \in SUBSET S /\ L \subseteq R /\ R \notin C /\ IsFiniteSet(R)
    BY <2>1, <2>2, <2>3, <2>5, FS_RemoveElement
  <2>7. SumFunctionOnSet(f, L) <= SumFunctionOnSet(f, R)
    BY <2>6
  <2>8. (\A y \in T : f[y] \in Int) /\ (\A y \in R : f[y] \in Int) /\ f[x] \in Nat
    BY <2>2
  <2> HIDE DEF R, C
  <2>9. SumFunctionOnSet(f, R) \in Int
    BY <2>6, <2>8, SumType
  <2>10. SumFunctionOnSet(f, T) = f[x] + SumFunctionOnSet(f, R)
    BY <2>3, <2>8, SumTakes DEF R
  <2>. QED
    BY <2>2, <2>4, <2>7, <2>8, <2>9, <2>10
<1>2. S \in SUBSET S
  OBVIOUS
<1>. QED
  BY <1>1, <1>2

\* A sum of ones counts.
LEMMA SumCounts ==
    ASSUME NEW S, IsFiniteSet(S), NEW f, NEW T \in SUBSET S,
           \A x \in S : f[x] = IF x \in T THEN 1 ELSE 0
    PROVE  SumFunctionOnSet(f, S) = Cardinality(T)
<1> DEFINE C == {s \in SUBSET S : SumFunctionOnSet(f, s) # Cardinality(s \cap T)}
<1>1. C = {}
  <2> SUFFICES ASSUME C # {}
               PROVE  FALSE
    OBVIOUS
  <2>1. PICK U \in C : \A W \in C : ~ (W \subseteq U /\ W # U)
    <3>1. C \in SUBSET SUBSET S
      OBVIOUS
    <3> HIDE DEF C
    <3>. QED
      BY <3>1, LeastSubset
  <2>2. U # {}
    <3> SUFFICES ASSUME U = {}
                 PROVE  FALSE
      OBVIOUS
    <3>1. SumFunctionOnSet(f, U) = 0 /\ U \cap T = {}
      BY SumEmpty
    <3>2. Cardinality(U \cap T) = 0
      BY <3>1, FS_EmptySet
    <3>. QED
      BY <2>1, <3>1, <3>2
  <2>3. PICK x \in U : TRUE
    BY <2>2
  <2> DEFINE R == U \ {x}
  <2>4. IsFiniteSet(U) /\ R \in SUBSET S /\ U \in SUBSET S
    BY FS_Subset
  <2>5. \A y \in U : f[y] \in Int
    OBVIOUS
  <2>6. SumFunctionOnSet(f, U) = f[x] + SumFunctionOnSet(f, R)
    BY <2>3, <2>4, <2>5, SumTakes
  <2>7. R \notin C
    BY <2>1, <2>3
  <2>8. SumFunctionOnSet(f, R) = Cardinality(R \cap T)
    BY <2>4, <2>7
  <2>9. IsFiniteSet(U \cap T)
    BY <2>4, FS_Subset
  <2>10. R \cap T = (U \cap T) \ {x}
    OBVIOUS
  <2>11. Cardinality(R \cap T) = IF x \in U \cap T THEN Cardinality(U \cap T) - 1
                                 ELSE Cardinality(U \cap T)
    <3>1. CASE x \in U \cap T
      <4>. DEFINE V == U \cap T
      <4>1. x \in V /\ IsFiniteSet(V)
        BY <2>9, <3>1
      <4>2. R \cap T = V \ {x}
        BY <2>10
      <4>. HIDE DEF V, R
      <4>3. Cardinality(V \ {x}) = Cardinality(V) - 1
        BY <4>1, FS_RemoveElement
      <4>4. QED
        BY <4>1, <4>2, <4>3 DEF V
    <3>2. CASE x \notin U \cap T
      <4>1. R \cap T = U \cap T
        BY <2>10, <3>2
      <4>2. QED
        BY <3>2, <4>1
    <3>3. QED
      BY <3>1, <3>2
  <2>12. Cardinality(U \cap T) \in Nat
    BY <2>9, FS_CardinalityType
  <2>13. SumFunctionOnSet(f, U) # Cardinality(U \cap T)
    BY <2>1
  <2>14. f[x] = IF x \in U \cap T THEN 1 ELSE 0
    BY <2>3, <2>4
  <2> HIDE DEF R, C
  <2>. QED
    BY <2>6, <2>8, <2>11, <2>12, <2>13, <2>14
<1>2. S \in SUBSET S /\ S \cap T = T
  OBVIOUS
<1>. QED
  BY <1>1, <1>2

-----------------------------------------------------------------------------
(* A delegation's way through the slashes, one period at a time.           *)

\* One period of a way w.
Step(s, d, p, height, w) ==
    IF TookSlash(s, d, p, height)
    THEN [from    |-> p,
          stake   |-> (w.stake * (One - s.validators[ValidatorOf[d]].slashes[p].fraction))
                         \div One,
          rewards |-> w.rewards + Earned(s, ValidatorOf[d], w.from, p, w.stake)]
    ELSE w

\* The way to a period, from the one before it.
WalkBody(s, d, height, walk, p) ==
    IF p = s.infos[d].period
    THEN [from |-> p, stake |-> s.infos[d].stake, rewards |-> 0]
    ELSE Step(s, d, p, height, walk[p - 1])

\* walk is the function Through defines.
IsWalk(walk, s, d, ending, height) ==
    walk = [p \in s.infos[d].period..ending |-> WalkBody(s, d, height, walk, p)]

\* That function exists, up to any period.
LEMMA WalkExists ==
    ASSUME NEW s, NEW d, NEW height, s.infos[d].period \in Nat, NEW n \in Nat
    PROVE  \E walk : IsWalk(walk, s, d, s.infos[d].period + n, height)
<1> DEFINE start == s.infos[d].period
           E(m) == \E walk : IsWalk(walk, s, d, start + m, height)
           B == {m \in Nat : ~ E(m)}
<1>1. E(0)
  <2> DEFINE walk == [p \in start..(start + 0) |->
                         [from |-> p, stake |-> s.infos[d].stake, rewards |-> 0]]
  <2>1. walk = [p \in start..(start + 0) |-> WalkBody(s, d, height, walk, p)]
    <3>1. \A p \in start..(start + 0) : p = start
      OBVIOUS
    <3>. QED
      BY <3>1 DEF WalkBody
  <2>. QED
    BY <2>1 DEF IsWalk
<1>2. ASSUME NEW m \in Nat, E(m)
      PROVE  E(m + 1)
  <2>1. PICK walk : IsWalk(walk, s, d, start + m, height)
    BY <1>2
  <2> DEFINE next == [p \in start..(start + (m + 1)) |->
                         IF p \in start..(start + m) THEN walk[p]
                         ELSE WalkBody(s, d, height, walk, p)]
  <2>2. ASSUME NEW p \in start..(start + (m + 1))
        PROVE  next[p] = WalkBody(s, d, height, next, p)
    <3>1. next[p] = WalkBody(s, d, height, walk, p)
      <4>1. p \in start..(start + m) => walk[p] = WalkBody(s, d, height, walk, p)
        BY <2>1 DEF IsWalk
      <4>. QED
        BY <4>1
    <3>2. p # start => next[p - 1] = walk[p - 1]
      <4>1. p # start => /\ p - 1 \in start..(start + m)
                         /\ p - 1 \in start..(start + (m + 1))
        OBVIOUS
      <4>. QED
        BY <4>1
    <3> HIDE DEF next
    <3>. QED
      BY <3>1, <3>2 DEF WalkBody
  <2>3. next = [p \in start..(start + (m + 1)) |-> next[p]]
    OBVIOUS
  <2> HIDE DEF next
  <2>4. next = [p \in start..(start + (m + 1)) |-> WalkBody(s, d, height, next, p)]
    BY <2>2, <2>3
  <2>. QED
    BY <2>4 DEF IsWalk
<1>3. B = {}
  <2> HIDE DEF E
  <2> SUFFICES ASSUME B # {}
               PROVE  FALSE
    OBVIOUS
  <2>1. PICK m \in B : \A k \in B : ~ (k < m)
    BY LeastNumber
  <2>2. m \in Nat /\ m # 0
    BY <1>1
  <2>3. m - 1 \in Nat /\ m - 1 < m
    BY <2>2
  <2>4. E(m - 1)
    BY <2>1, <2>3
  <2>5. E((m - 1) + 1)
    BY <1>2, <2>3, <2>4
  <2>. QED
    BY <2>2, <2>5
<1>. QED
  BY <1>3

\* A walk to a period passes those before it as the walks to them do.
LEMMA WalksAgree ==
    ASSUME NEW s, NEW d, NEW height, s.infos[d].period \in Nat,
           NEW n \in Nat, NEW m \in s.infos[d].period..n,
           NEW walk, IsWalk(walk, s, d, n, height),
           NEW k, IsWalk(k, s, d, m, height)
    PROVE  k[m] = walk[m]
<1> DEFINE start == s.infos[d].period
           B == {p \in Nat : p \in start..m /\ k[p] # walk[p]}
<1> SUFFICES ASSUME B # {}
             PROVE  FALSE
  <2>1. m \in Nat /\ m \in start..m
    OBVIOUS
  <2>. QED
    BY <2>1
<1>1. PICK p \in B : \A q \in B : ~ (q < p)
  <2>1. B \in SUBSET Nat
    OBVIOUS
  <2> HIDE DEF B
  <2>. QED
    BY <2>1, LeastNumber
<1>2. p \in start..m /\ p \in start..n /\ k[p] # walk[p]
  OBVIOUS
<1>3. /\ k[p] = WalkBody(s, d, height, k, p)
      /\ walk[p] = WalkBody(s, d, height, walk, p)
  BY <1>2 DEF IsWalk
<1>4. p # start
  BY <1>2, <1>3 DEF WalkBody
<1>5. p - 1 \in start..m /\ p - 1 \in Nat /\ p - 1 < p
  BY <1>2, <1>4
<1>6. k[p - 1] = walk[p - 1]
  BY <1>1, <1>5
<1>. QED
  BY <1>2, <1>3, <1>4, <1>6 DEF WalkBody

\* Through is the value of any such function.
LEMMA ThroughIs ==
    ASSUME NEW s, NEW d, NEW height, s.infos[d].period \in Nat,
           NEW n \in Nat, NEW m \in s.infos[d].period..n,
           NEW walk, IsWalk(walk, s, d, n, height)
    PROVE  Through(s, d, m, height) = walk[m]
<1> DEFINE P(w) == w = [p \in s.infos[d].period..m |-> WalkBody(s, d, height, w, p)]
           k == CHOOSE w : P(w)
<1>1. \E w : P(w)
  <2>1. m - s.infos[d].period \in Nat /\ s.infos[d].period + (m - s.infos[d].period) = m
    OBVIOUS
  <2>2. \E w : IsWalk(w, s, d, s.infos[d].period + (m - s.infos[d].period), height)
    BY <2>1, WalkExists
  <2>. QED
    BY <2>1, <2>2 DEF IsWalk
<1>2. P(k)
  <2> HIDE DEF P
  <2>. QED
    BY <1>1, Zenon
<1>3. Through(s, d, m, height) = k[m]
  BY Zenon DEF Through, WalkBody, Step
<1> HIDE DEF k, P
<1>4. IsWalk(k, s, d, m, height)
  BY <1>2 DEF IsWalk, P
<1>5. k[m] = walk[m]
  BY <1>4, WalksAgree
<1>. QED
  BY <1>3, <1>5

\* The way starts with the stake and no rewards, and goes on with one step for
\* each period.
LEMMA ThroughUnfolds ==
    ASSUME NEW s, NEW d, NEW height, s.infos[d].period \in Nat
    PROVE  /\ Through(s, d, s.infos[d].period, height) =
                 [from |-> s.infos[d].period, stake |-> s.infos[d].stake, rewards |-> 0]
           /\ \A p \in Nat :
                 s.infos[d].period <= p =>
                    Through(s, d, p + 1, height) =
                       Step(s, d, p + 1, height, Through(s, d, p, height))
<1> DEFINE start == s.infos[d].period
<1>1. Through(s, d, start, height) = [from |-> start, stake |-> s.infos[d].stake, rewards |-> 0]
  <2>1. PICK walk : IsWalk(walk, s, d, start + 0, height)
    BY WalkExists
  <2>2. start \in start..(start + 0) /\ start + 0 \in Nat
    OBVIOUS
  <2>3. Through(s, d, start, height) = walk[start]
    BY <2>1, <2>2, ThroughIs
  <2>. QED
    BY <2>1, <2>2, <2>3 DEF IsWalk, WalkBody
<1>2. ASSUME NEW p \in Nat, start <= p
      PROVE  Through(s, d, p + 1, height) = Step(s, d, p + 1, height, Through(s, d, p, height))
  <2>1. (p + 1) - start \in Nat /\ start + ((p + 1) - start) = p + 1 /\ p + 1 \in Nat
    BY <1>2
  <2>2. PICK walk : IsWalk(walk, s, d, p + 1, height)
    BY <2>1, WalkExists
  <2>3. p \in start..(p + 1) /\ p + 1 \in start..(p + 1) /\ p + 1 # start /\ (p + 1) - 1 = p
    BY <1>2
  <2>4. Through(s, d, p + 1, height) = walk[p + 1] /\ Through(s, d, p, height) = walk[p]
    BY <2>1, <2>2, <2>3, ThroughIs
  <2>. QED
    BY <2>2, <2>3, <2>4 DEF IsWalk, WalkBody
<1>. QED
  BY <1>1, <1>2

-----------------------------------------------------------------------------
(* What the operations change, field by field.                             *)

\* The fields of a validator's record and of a delegation's.
RecordTyped(val) ==
    /\ val.tokens \in Nat
    /\ val.outstanding \in Nat
    /\ val.commission \in Nat
    /\ val.current \in Nat
    /\ val.period \in Nat /\ val.period <= MaxPeriod
    /\ DOMAIN val.history = Periods
    /\ DOMAIN val.slashes = Periods
    /\ \A p \in Periods : /\ val.history[p] = [ratio |-> val.history[p].ratio,
                                               refs  |-> val.history[p].refs]
                          /\ val.history[p].ratio \in Nat
                          /\ val.history[p].refs \in 0..2
                          /\ val.slashes[p].height \in Nat
                          /\ val.slashes[p].fraction \in 0..One

InfoTyped(info) ==
    /\ info.period \in Nat /\ info.period <= MaxPeriod
    /\ info.stake \in Nat
    /\ info.height \in Nat

\* What the type of a record says, field by field.
LEMMA RecordIsTyped ==
    ASSUME NEW val \in ValidatorRecord
    PROVE  RecordTyped(val)
<1>1. /\ val.history \in [Periods -> [ratio : Nat, refs : 0..2]]
      /\ val.slashes \in [Periods -> [height : Nat, fraction : 0..One]]
      /\ val.period \in Periods
      /\ val.tokens \in Nat /\ val.outstanding \in Nat
      /\ val.commission \in Nat /\ val.current \in Nat
  BY DEF ValidatorRecord
<1>2. \A p \in Periods : /\ val.history[p] \in [ratio : Nat, refs : 0..2]
                         /\ val.slashes[p] \in [height : Nat, fraction : 0..One]
  BY <1>1
<1>3. \A p \in Periods : /\ val.history[p] = [ratio |-> val.history[p].ratio,
                                              refs  |-> val.history[p].refs]
                         /\ val.history[p].ratio \in Nat
                         /\ val.history[p].refs \in 0..2
                         /\ val.slashes[p].height \in Nat
                         /\ val.slashes[p].fraction \in 0..One
  BY <1>2
<1>4. val.period \in Nat /\ val.period <= MaxPeriod
  BY <1>1, DistributionAssumption DEF Periods
<1>. QED
  BY <1>1, <1>3, <1>4 DEF RecordTyped

\* What the type of a store says, field by field.
LEMMA StoreIsTyped ==
    ASSUME NEW s \in StoreType
    PROVE  /\ DOMAIN s.validators = Validators
           /\ \A v \in Validators : RecordTyped(s.validators[v])
           /\ \A d \in Delegations : InfoTyped(s.infos[d])
           /\ s.community \in Nat
           /\ s.balance \in Nat
           /\ DOMAIN s.wallets = Owners
           /\ \A o \in Owners : s.wallets[o] \in Nat
           /\ s.panic \in BOOLEAN
<1>1. /\ s.validators \in [Validators -> ValidatorRecord]
      /\ s.infos \in [Delegations -> StartingInfo]
      /\ s.community \in Nat
      /\ s.balance \in Nat
      /\ s.wallets \in [Owners -> Nat]
      /\ s.panic \in BOOLEAN
  BY DEF StoreType
<1>2. \A v \in Validators : RecordTyped(s.validators[v])
  BY <1>1, RecordIsTyped
<1>3. ASSUME NEW d \in Delegations
      PROVE  InfoTyped(s.infos[d])
  <2>1. s.infos[d] \in StartingInfo
    BY <1>1
  <2>. QED
    BY <2>1, DistributionAssumption DEF StartingInfo, InfoTyped, Periods
<1>. QED
  BY <1>1, <1>2, <1>3

\* The type of an entry of a history and of a slash event.
LEMMA EntryIsTyped ==
    ASSUME NEW s \in StoreType, NEW v \in Validators, NEW p \in Periods
    PROVE  /\ p \in Nat /\ p <= MaxPeriod
           /\ s.validators[v].history[p].ratio \in Nat
           /\ s.validators[v].history[p].refs \in Nat
           /\ s.validators[v].history[p].refs <= 2
           /\ s.validators[v].slashes[p].height \in Nat
           /\ s.validators[v].slashes[p].fraction \in Nat
           /\ s.validators[v].slashes[p].fraction <= One
<1>1. RecordTyped(s.validators[v])
  BY StoreIsTyped
<1>2. /\ s.validators[v].history[p].ratio \in Nat
      /\ s.validators[v].history[p].refs \in 0..2
      /\ s.validators[v].slashes[p].height \in Nat
      /\ s.validators[v].slashes[p].fraction \in 0..One
  BY <1>1, Zenon DEF RecordTyped
<1>. QED
  BY <1>2, DistributionAssumption, OneAssumption DEF Periods

\* The type of what a delegation counts from.
LEMMA InfoIsTyped ==
    ASSUME NEW s \in StoreType, NEW d \in Delegations
    PROVE  /\ ValidatorOf[d] \in Validators
           /\ d \in DelegationsTo(ValidatorOf[d])
           /\ s.infos[d].period \in Nat
           /\ s.infos[d].period \in Periods
           /\ s.infos[d].stake \in Nat
           /\ s.infos[d].height \in Nat
<1>1. InfoTyped(s.infos[d])
  BY StoreIsTyped
<1>. QED
  BY <1>1, DistributionAssumption DEF InfoTyped, DelegationsTo, Periods

\* What a token earned in a period, and what a validator without tokens loses.
EarnedInPeriod(val) == IF val.tokens = 0 THEN 0 ELSE val.current \div val.tokens
LostInPeriod(val) == IF val.tokens = 0 THEN val.current ELSE 0

\* A period ends.
Incremented(s, t, v) ==
    LET old    == s.validators[v]
        new    == t.validators[v]
        last   == old.period - 1
        earned == EarnedInPeriod(old)
        lost   == LostInPeriod(old)
    IN  /\ t.infos = s.infos
        /\ t.wallets = s.wallets
        /\ t.balance = s.balance
        /\ t.community = s.community + lost
        /\ DOMAIN t.validators = Validators
        /\ \A w \in Validators \ {v} : t.validators[w] = s.validators[w]
        /\ new.tokens = old.tokens
        /\ new.outstanding = old.outstanding - lost
        /\ new.commission = old.commission
        /\ new.current = 0
        /\ new.period = old.period + 1
        /\ new.slashes = old.slashes
        /\ DOMAIN new.history = Periods
        /\ new.history[last] = Dereferenced(old.history[last])
        /\ new.history[old.period] = [ratio |-> old.history[last].ratio + earned, refs |-> 1]
        /\ \A p \in Periods \ {last, old.period} : new.history[p] = old.history[p]
        /\ t.panic = (s.panic \/ old.history[last].refs = 0)

\* The end of a period changes that and nothing else.
LEMMA IncrementFields ==
    ASSUME NEW s \in StoreType, NEW v \in Validators,
           s.validators[v].period >= 1, s.validators[v].period < MaxPeriod
    PROVE  Incremented(s, IncrementPeriod(s, v), v)
<1> DEFINE old == s.validators[v]
           last == old.period - 1
<1>1. /\ last \in Periods /\ old.period \in Periods /\ last # old.period
      /\ DOMAIN old.history = Periods
      /\ DOMAIN s.validators = Validators
  BY StoreIsTyped, DistributionAssumption DEF RecordTyped, Periods
<1>. QED
  BY <1>1 DEF Incremented, IncrementPeriod, EarnedInPeriod, LostInPeriod, StoreType,
             ValidatorRecord

\* A delegation counts from the last period that ended.
Initialized(s, t, d, height) ==
    LET v    == ValidatorOf[d]
        old  == s.validators[v]
        new  == t.validators[v]
        last == old.period - 1
    IN  /\ t.infos = [s.infos EXCEPT ![d] = [period |-> last, stake |-> StakeOf(s, d),
                                             height |-> height]]
        /\ t.wallets = s.wallets
        /\ t.balance = s.balance
        /\ t.community = s.community
        /\ DOMAIN t.validators = Validators
        /\ \A w \in Validators \ {v} : t.validators[w] = s.validators[w]
        /\ new.tokens = old.tokens
        /\ new.outstanding = old.outstanding
        /\ new.commission = old.commission
        /\ new.current = old.current
        /\ new.period = old.period
        /\ new.slashes = old.slashes
        /\ DOMAIN new.history = Periods
        /\ new.history[last] = [ratio |-> old.history[last].ratio,
                                refs  |-> old.history[last].refs + 1]
        /\ \A p \in Periods \ {last} : new.history[p] = old.history[p]
        /\ t.panic = (s.panic \/ old.history[last].refs > 2)

\* The start of a delegation changes that and nothing else.
LEMMA InitializeFields ==
    ASSUME NEW s \in StoreType, NEW d \in Delegations, NEW height,
           s.validators[ValidatorOf[d]].period >= 1
    PROVE  Initialized(s, InitializeDelegation(s, d, height), d, height)
<1> DEFINE v == ValidatorOf[d]
           old == s.validators[v]
           last == old.period - 1
<1>1. /\ last \in Periods
      /\ v \in Validators
      /\ DOMAIN old.history = Periods
      /\ DOMAIN s.validators = Validators
  BY StoreIsTyped, DistributionAssumption DEF RecordTyped, Periods
<1> DEFINE t == InitializeDelegation(s, d, height)
           new == t.validators[v]
           entry == [ratio |-> old.history[last].ratio, refs |-> old.history[last].refs + 1]
<1>2. old.history[last] = [ratio |-> old.history[last].ratio, refs |-> old.history[last].refs]
  BY <1>1, StoreIsTyped DEF RecordTyped
<1>3. /\ t.validators = [s.validators EXCEPT ![v] = [old EXCEPT !.history =
                            [old.history EXCEPT ![last] =
                                [old.history[last] EXCEPT !.refs = @ + 1]]]]
      /\ t.infos = [s.infos EXCEPT ![d] = [period |-> last, stake |-> StakeOf(s, d),
                                           height |-> height]]
      /\ t.wallets = s.wallets
      /\ t.balance = s.balance
      /\ t.community = s.community
      /\ t.panic = (s.panic \/ old.history[last].refs > 2)
  BY DEF InitializeDelegation, StoreType
<1>4. [old.history[last] EXCEPT !.refs = @ + 1] = entry
  <2>1. \A r, a, b : r = [ratio |-> a, refs |-> b] =>
                       [r EXCEPT !.refs = @ + 1] = [ratio |-> a, refs |-> r.refs + 1]
    OBVIOUS
  <2>. QED
    BY <1>2, <2>1
<1>5. new = [old EXCEPT !.history = [old.history EXCEPT ![last] = entry]]
  BY <1>1, <1>3, <1>4
<1>6. old \in ValidatorRecord
  BY <1>1 DEF StoreType
<1>7. /\ new.tokens = old.tokens
      /\ new.outstanding = old.outstanding
      /\ new.commission = old.commission
      /\ new.current = old.current
      /\ new.period = old.period
      /\ new.slashes = old.slashes
      /\ new.history = [old.history EXCEPT ![last] = entry]
  BY <1>5, <1>6 DEF ValidatorRecord
<1>8. /\ DOMAIN new.history = Periods
      /\ new.history[last] = entry
      /\ \A p \in Periods \ {last} : new.history[p] = old.history[p]
  BY <1>1, <1>7
<1>9. /\ DOMAIN t.validators = Validators
      /\ \A w \in Validators \ {v} : t.validators[w] = s.validators[w]
  BY <1>1, <1>3
<1>10. Initialized(s, t, d, height)
  <2> HIDE DEF t
  <2>. QED
    BY <1>3, <1>7, <1>8, <1>9 DEF Initialized
<1>. QED
  BY <1>10

-----------------------------------------------------------------------------
(* Stakes. *)

\* A quotient is the greatest number whose product stays below the dividend.
LEMMA Quotient ==
    ASSUME NEW a \in Nat, NEW b \in Nat \ {0}, NEW x \in Nat
    PROVE  /\ a \div b \in Nat
           /\ b * (a \div b) <= a
           /\ x <= a \div b <=> b * x <= a
<1> DEFINE q == a \div b
           r == a % b
<1>1. q \in Int /\ r \in 0..(b - 1) /\ a = b * q + r /\ q >= 0
  <2>1. a \in Int /\ a >= 0
    OBVIOUS
  <2>. QED
    BY <2>1, Division
<1> HIDE DEF q, r
<1>2. b * x <= a => x <= q
  <2>1. x >= q + 1 => b * x >= b * (q + 1)
    BY <1>1
  <2>2. b * (q + 1) = b * q + b
    BY <1>1
  <2>. QED
    BY <1>1, <2>1, <2>2
<1>3. x <= q => b * x <= b * q
  BY <1>1
<1>4. b * q <= a
  BY <1>1
<1>5. b * x \in Int /\ b * q \in Int
  BY <1>1
<1>. QED
  BY <1>1, <1>2, <1>3, <1>4, <1>5 DEF q

\* A common factor cancels.
LEMMA Cancel ==
    ASSUME NEW c \in Nat \ {0}, NEW x \in Int, NEW y \in Int
    PROVE  c * x <= c * y <=> x <= y
<1>1. x >= y + 1 => c * x >= c * (y + 1)
  OBVIOUS
<1>2. c * (y + 1) = c * y + c
  OBVIOUS
<1>3. x <= y => c * x <= c * y
  OBVIOUS
<1>4. c * x \in Int /\ c * y \in Int
  OBVIOUS
<1>. QED
  BY <1>1, <1>2, <1>3, <1>4

\* The delegations to a validator have some of its shares.
LEMMA SharesAreTyped ==
    ASSUME NEW d \in Delegations
    PROVE  /\ ValidatorOf[d] \in Validators
           /\ Shares[d] \in Nat \ {0}
           /\ TotalShares(ValidatorOf[d]) \in Nat \ {0}
<1> DEFINE v == ValidatorOf[d]
           S == DelegationsTo(v)
<1>1. v \in Validators /\ d \in S /\ S \subseteq Delegations
  BY DistributionAssumption DEF DelegationsTo
<1>2. \A e \in S : Shares[e] \in Nat \ {0}
  BY <1>1, DistributionAssumption
<1>3. IsFiniteSet(S) /\ IsFiniteSet(S \ {d})
  BY <1>1, DistributionAssumption, FS_Subset
<1>4. (\A e \in S : Shares[e] \in Int) /\ (\A e \in S \ {d} : Shares[e] \in Nat)
  BY <1>2
<1> HIDE DEF S
<1>5. SumFunctionOnSet(Shares, S) = Shares[d] + SumFunctionOnSet(Shares, S \ {d})
  BY <1>1, <1>3, <1>4, SumTakes
<1>6. SumFunctionOnSet(Shares, S \ {d}) \in Nat
  BY <1>3, <1>4, SumNat
<1>7. Shares[d] \in Nat \ {0}
  BY <1>1, <1>2
<1>8. SumFunctionOnSet(Shares, S) \in Nat \ {0}
  BY <1>5, <1>6, <1>7
<1>. QED
  BY <1>1, <1>7, <1>8 DEF TotalShares, S

\* A delegation has its part of the tokens, by its shares.
LEMMA StakeBound ==
    ASSUME NEW s \in StoreType, NEW d \in Delegations, NEW x \in Nat
    PROVE  /\ StakeOf(s, d) \in Nat
           /\ x <= StakeOf(s, d)
                <=> TotalShares(ValidatorOf[d]) * x
                       <= Shares[d] * s.validators[ValidatorOf[d]].tokens * One
<1> DEFINE v == ValidatorOf[d]
           n == TotalShares(v)
           T == s.validators[v].tokens
<1>1. v \in Validators /\ n \in Nat \ {0} /\ Shares[d] \in Nat
  BY SharesAreTyped
<1>2. T \in Nat
  BY <1>1, StoreIsTyped DEF RecordTyped
<1> HIDE DEF n, T
<1>3. StakeOf(s, d) = (Shares[d] * T * One) \div n
  BY DEF StakeOf, n, T
<1>4. Shares[d] * T * One \in Nat
  BY <1>1, <1>2, OneAssumption
<1>5. /\ StakeOf(s, d) \in Nat
      /\ x <= StakeOf(s, d) <=> n * x <= Shares[d] * T * One
  BY <1>1, <1>3, <1>4, Quotient
<1>. QED
  BY <1>5 DEF n, T

\* A delegation's stake, rounded, is not below the stake cut to the precision.
LEMMA CurrentStakeBound ==
    ASSUME NEW s \in StoreType, NEW d \in Delegations
    PROVE  /\ CurrentStake(s, d) \in Nat
           /\ StakeOf(s, d) <= CurrentStake(s, d)
<1> DEFINE v == ValidatorOf[d]
           n == TotalShares(v)
           a == Shares[d] * s.validators[v].tokens
           m == (a * One) * One * One
           x == StakeOf(s, d)
           y == m \div (n * One)
<1>1. v \in Validators /\ n \in Nat \ {0} /\ Shares[d] \in Nat
  BY SharesAreTyped
<1>2. a \in Nat
  BY <1>1, StoreIsTyped DEF RecordTyped
<1>3. One \in Nat \ {0}
  BY OneAssumption
<1>4. x \in Nat /\ n * x <= a * One
  <2>1. x \in Nat
    BY StakeBound
  <2>2. x <= x
    BY <2>1
  <2>. QED
    BY <2>1, <2>2, StakeBound
<1> HIDE DEF a, n, x
<1>5. m \in Nat /\ n * One \in Nat \ {0} /\ a * One \in Nat
  BY <1>1, <1>2, <1>3
<1>6. CurrentStake(s, d) = RoundHalfEven(y, One)
  <2>1. CurrentStake(s, d) = DecQuo(a * One, n * One)
    BY DEF CurrentStake, DecFromInt, a, n
  <2>2. ~ (a * One < 0)
    BY <1>5
  <2>. QED
    BY <2>1, <2>2 DEF DecQuo, Magnitude, Signed
<1>7. y \in Nat /\ x * One <= y
  <2>1. x * One \in Nat
    BY <1>3, <1>4
  <2>2. y \in Nat /\ (x * One <= y <=> (n * One) * (x * One) <= m)
    <3> HIDE DEF m
    <3>. QED
      BY <1>5, <2>1, Quotient
  <2>3. (n * One) * (x * One) <= m
    <3>1. (n * One) * (x * One) = (n * x) * (One * One)
      BY <1>1, <1>3, <1>4
    <3>2. (a * One) * (One * One) = m
      BY <1>2, <1>3
    <3>3. One * One \in Nat /\ n * x \in Nat
      BY <1>1, <1>3, <1>4
    <3>4. (n * x) * (One * One) <= (a * One) * (One * One)
      <4>1. \A i \in Nat, j \in Nat, c \in Nat : i <= j => i * c <= j * c
        OBVIOUS
      <4>. QED
        BY <1>4, <1>5, <3>3, <4>1
    <3>. QED
      BY <3>1, <3>2, <3>4
  <2>. QED
    BY <2>2, <2>3
<1> HIDE DEF y
<1>8. RoundHalfEven(y, One) \in Nat
  BY <1>3, <1>7, RoundHalfEvenNat
<1>9. x <= y \div One /\ y \div One \in Nat
  <2>1. One * x <= y
    BY <1>3, <1>4, <1>7
  <2>. QED
    BY <1>3, <1>4, <1>7, <2>1, Quotient
<1>10. y \div One <= RoundHalfEven(y, One)
  BY <1>9 DEF RoundHalfEven
<1>. QED
  BY <1>4, <1>6, <1>8, <1>9, <1>10 DEF x

\* A part of the tokens, rounded up, is not less than that part, and no more
\* than all.
LEMMA FractionBound ==
    ASSUME NEW T \in Nat, NEW b \in 1..T
    PROVE  /\ FractionOf(b, T) \in 1..One
           /\ b * One <= T * FractionOf(b, T)
<1> DEFINE f == FractionOf(b, T)
           a == b * One + T - 1
<1>1. One \in Nat \ {0} /\ b \in Nat \ {0} /\ T \in Nat \ {0}
  BY OneAssumption
<1>2. b * One \in Nat \ {0} /\ T * One \in Nat
  BY <1>1
<1>3. a \in Nat /\ a + 1 = b * One + T
  BY <1>1, <1>2
<1>4. f = a \div T
  BY DEF FractionOf
<1> HIDE DEF a, f
<1>5. f \in Nat /\ T * f <= a /\ \A x \in Nat : x <= f <=> T * x <= a
  BY <1>1, <1>3, <1>4, Quotient
<1>6. f + 1 \in Nat /\ ~ (f + 1 <= f)
  BY <1>5
<1>7. ~ (T * (f + 1) <= a)
  BY <1>5, <1>6
<1>8. T * (f + 1) = T * f + T
  BY <1>1, <1>5
<1>9. b * One <= T * f
  <2>1. T * f \in Nat
    BY <1>1, <1>5
  <2>. QED
    BY <1>1, <1>2, <1>3, <1>7, <1>8, <2>1
<1>10. f >= 1
  <2>1. T * 1 <= a
    BY <1>1, <1>2, <1>3
  <2>. QED
    BY <1>5, <2>1
<1>11. f <= One
  <2>1. b * One <= T * One
    <3>1. \A i \in Nat, j \in Nat, c \in Nat : i <= j => i * c <= j * c
      OBVIOUS
    <3>. QED
      BY <1>1, <3>1
  <2>2. T * (One + 1) = T * One + T
    BY <1>1
  <2>3. ~ (T * (One + 1) <= a)
    BY <1>1, <1>2, <1>3, <2>1, <2>2
  <2>4. One + 1 \in Nat
    BY <1>1
  <2>5. ~ (One + 1 <= f)
    BY <1>5, <2>3, <2>4
  <2>. QED
    BY <1>1, <1>5, <2>5
<1>. QED
  BY <1>1, <1>5, <1>9, <1>10, <1>11 DEF f

\* A slash leaves a cut stake within the delegation's part of the tokens: the
\* fraction is rounded up, and the stake down.
LEMMA SlashedStake ==
    ASSUME NEW T \in Nat, NEW b \in 0..T, NEW f \in 0..One, b * One <= T * f,
           NEW S \in Nat, NEW n \in Nat \ {0}, NEW x \in Nat, n * x <= S * T * One
    PROVE  /\ (x * (One - f)) \div One \in Nat
           /\ n * ((x * (One - f)) \div One) <= S * (T - b) * One
<1> DEFINE y == (x * (One - f)) \div One
           g == One - f
<1>1. One \in Nat \ {0} /\ f \in Nat /\ g \in Nat /\ b \in Nat /\ T - b \in Nat /\ x * g \in Nat
  BY OneAssumption
<1>2. y \in Nat /\ One * y <= x * g
  BY <1>1, Quotient
<1> HIDE DEF y
<1>3. T * g <= (T - b) * One
  <2>1. T * g = T * One - T * f
    BY <1>1
  <2>2. (T - b) * One = T * One - b * One
    BY <1>1
  <2>3. T * One \in Int /\ T * f \in Int /\ b * One \in Int
    BY <1>1
  <2>. QED
    BY <2>1, <2>2, <2>3
<1> HIDE DEF g
<1>4. One * (n * y) <= One * (S * (T - b) * One)
  <2>0. \A i \in Nat, j \in Nat, c \in Nat : i <= j => c * i <= c * j /\ i * c <= j * c
    OBVIOUS
  <2>1. One * (n * y) = n * (One * y)
    BY <1>1, <1>2
  <2>2. n * (One * y) <= n * (x * g)
    <3>1. One * y \in Nat
      BY <1>1, <1>2
    <3>. QED
      BY <1>1, <1>2, <2>0, <3>1
  <2>3. n * (x * g) = (n * x) * g
    BY <1>1
  <2>4. (n * x) * g <= (S * T * One) * g
    <3>1. n * x \in Nat /\ S * T * One \in Nat
      BY <1>1
    <3>. QED
      BY <1>1, <2>0, <3>1
  <2>5. (S * T * One) * g = (S * One) * (T * g)
    BY <1>1
  <2>6. (S * One) * (T * g) <= (S * One) * ((T - b) * One)
    <3>1. S * One \in Nat /\ T * g \in Nat /\ (T - b) * One \in Nat
      BY <1>1
    <3>. QED
      BY <1>3, <2>0, <3>1
  <2>7. (S * One) * ((T - b) * One) = One * (S * (T - b) * One)
    BY <1>1
  <2>8. /\ One * (n * y) \in Int /\ n * (One * y) \in Int /\ n * (x * g) \in Int
        /\ (n * x) * g \in Int /\ (S * T * One) * g \in Int /\ (S * One) * (T * g) \in Int
        /\ (S * One) * ((T - b) * One) \in Int /\ One * (S * (T - b) * One) \in Int
    BY <1>1, <1>2
  <2>. QED
    BY <2>1, <2>2, <2>3, <2>4, <2>5, <2>6, <2>7, <2>8
<1>5. n * y <= S * (T - b) * One
  <2>1. n * y \in Int /\ S * (T - b) * One \in Int
    BY <1>1, <1>2
  <2>. QED
    BY <1>1, <1>4, <2>1, Cancel
<1>. QED
  BY <1>2, <1>5 DEF y, g

-----------------------------------------------------------------------------
(* What holds of a store between the operations.                           *)

\* The last period that ended.
Ended(s, v) == s.validators[v].period - 1

\* A period at which one of some delegations counts.
CountedAt(s, L, p) == \E d \in L : s.infos[d].period = p

\* A condition as a number.
Bit(b) == IF b THEN 1 ELSE 0

\* The references of the history: one for the last period, one for the
\* delegation that counts from it, one for its slash.
RefsFit(s, L, v) ==
    /\ s.validators[v].period >= 1
    /\ \A p \in Periods :
          s.validators[v].history[p].refs =
             Bit(p = Ended(s, v)) + Bit(CountedAt(s, L, p))
               + Bit(s.validators[v].slashes[p].fraction > 0)

\* Slashes are of periods that ended.
SlashesFit(s, v, h) ==
    \A p \in Periods :
       /\ s.validators[v].slashes[p].fraction > 0 =>
             /\ p < s.validators[v].period
             /\ s.validators[v].slashes[p].height <= h
       /\ s.validators[v].slashes[p].fraction = 0 => s.validators[v].slashes[p] = NoSlash

\* What a token earned only grows.
RatiosGrow(s, v) ==
    \A p, q \in Periods :
       /\ p <= q
       /\ s.validators[v].history[p].refs > 0
       /\ s.validators[v].history[q].refs > 0
       => s.validators[v].history[p].ratio <= s.validators[v].history[q].ratio

\* A delegation counts from the end of a period without a slash, and the slashes
\* after it are of later heights.
CountsFrom(s, d, h) ==
    LET val  == s.validators[ValidatorOf[d]]
        info == s.infos[d]
    IN  /\ info.period < val.period
        /\ info.height <= h
        /\ val.slashes[info.period].fraction = 0
        /\ \A p \in Periods :
              p > info.period /\ val.slashes[p].fraction > 0 =>
                 info.height < val.slashes[p].height

\* Delegations of a validator count from different periods.
Distinct(s, L) ==
    \A d, e \in L : d # e => s.infos[d].period # s.infos[e].period

\* A delegation's way to the last period.
Way(s, d, h) == Through(s, d, Ended(s, ValidatorOf[d]), h)

\* It ends where it started or at a slash, with a stake within the delegation's
\* part of the tokens.
WayFits(s, d, h) ==
    LET val == s.validators[ValidatorOf[d]]
        way == Way(s, d, h)
    IN  /\ way.from \in s.infos[d].period..Ended(s, ValidatorOf[d])
        /\ way.from = s.infos[d].period \/ val.slashes[way.from].fraction > 0
        /\ way.stake \in Nat
        /\ way.stake <= StakeOf(s, d)
        /\ way.rewards \in Nat

\* What a delegation earned up to the last period, in units of 1/One squared.
Owed(s, d, h) ==
    LET history == s.validators[ValidatorOf[d]].history
        way     == Way(s, d, h)
    IN  One * way.rewards
          + (history[Ended(s, ValidatorOf[d])].ratio - history[way.from].ratio) * way.stake

\* Outstanding covers the commission, what is not yet divided and what
\* delegations earned.
Covered(s, L, v, h) ==
    One * (s.validators[v].commission + s.validators[v].current)
       + SumFunctionOnSet([d \in L |-> Owed(s, d, h)], L)
       <= One * s.validators[v].outstanding

\* The account of a validator, with the delegations L that count.
Fits(s, L, v, h) ==
    /\ RefsFit(s, L, v)
    /\ SlashesFit(s, v, h)
    /\ RatiosGrow(s, v)
    /\ \A d \in L : CountsFrom(s, d, h)
    /\ \A d \in L : WayFits(s, d, h)
    /\ Distinct(s, L)
    /\ Covered(s, L, v, h)

\* The module's account holds what is outstanding and the community's.
Account(s) ==
    DecFromInt(s.balance) =
        s.community + SumFunctionOnSet([v \in Validators |-> s.validators[v].outstanding],
                                       Validators)

\* The invariant of a store at height h, with the delegations D that count.
Sound(s, D, h) ==
    /\ s \in StoreType
    /\ ~ s.panic
    /\ Account(s)
    /\ \A v \in Validators : Fits(s, D \cap DelegationsTo(v), v, h)

\* There is room for a period for each of the delegations U.
RoomFor(s, U) ==
    \A v \in Validators :
       s.validators[v].period + Cardinality(U \cap DelegationsTo(v)) <= MaxPeriod

-----------------------------------------------------------------------------
(* What a delegation's way depends on.                                     *)

\* A way goes through periods with a slash only, and depends on nothing but
\* these and its start.
SameWay(s, t, d, n, h, k) ==
    LET start == s.infos[d].period
        old   == s.validators[ValidatorOf[d]]
        new   == t.validators[ValidatorOf[d]]
    IN  /\ t.infos[d] = s.infos[d]
        /\ new.history[start].ratio = old.history[start].ratio
        /\ \A p \in Nat :
              start < p /\ p <= n =>
                 /\ TookSlash(t, d, p, k) => TookSlash(s, d, p, h)
                 /\ TookSlash(s, d, p, h) =>
                       /\ TookSlash(t, d, p, k)
                       /\ new.slashes[p] = old.slashes[p]
                       /\ new.history[p].ratio = old.history[p].ratio

\* Such a way is the same in both stores.
LEMMA WayStable ==
    ASSUME NEW s, NEW t, NEW d, NEW h, NEW k,
           s.infos[d].period \in Nat,
           NEW n \in Nat, s.infos[d].period <= n,
           SameWay(s, t, d, n, h, k)
    PROVE  Through(t, d, n, k) = Through(s, d, n, h)
<1> DEFINE v == ValidatorOf[d]
           start == s.infos[d].period
           Same(p) == Through(t, d, p, k) = Through(s, d, p, h)
           Kept(p) == t.validators[v].history[Through(s, d, p, h).from].ratio
                         = s.validators[v].history[Through(s, d, p, h).from].ratio
           B == {p \in Nat : start <= p /\ p <= n /\ ~ (Same(p) /\ Kept(p))}
<1>1. ASSUME NEW p \in Nat, start <= p, p <= n,
             \A q \in Nat : start <= q /\ q < p => Same(q) /\ Kept(q)
      PROVE  Same(p) /\ Kept(p)
  <2>1. /\ Through(s, d, start, h) = [from |-> start, stake |-> s.infos[d].stake, rewards |-> 0]
        /\ \A q \in Nat : start <= q =>
              Through(s, d, q + 1, h) = Step(s, d, q + 1, h, Through(s, d, q, h))
    BY ThroughUnfolds
  <2>2. /\ Through(t, d, start, k) = [from |-> start, stake |-> s.infos[d].stake, rewards |-> 0]
        /\ \A q \in Nat : start <= q =>
              Through(t, d, q + 1, k) = Step(t, d, q + 1, k, Through(t, d, q, k))
    <3>1. t.infos[d] = s.infos[d]
      BY DEF SameWay
    <3>2. t.infos[d].period \in Nat
      BY <3>1
    <3>. QED
      BY <3>1, <3>2, ThroughUnfolds
  <2>3. CASE p = start
    <3>1. t.validators[v].history[start].ratio = s.validators[v].history[start].ratio
      BY DEF SameWay
    <3>2. Through(s, d, p, h).from = start
      BY <2>1, <2>3
    <3>3. Same(p)
      BY <2>1, <2>2, <2>3
    <3>. QED
      BY <3>1, <3>2, <3>3
  <2>4. CASE p # start
    <3> DEFINE q == p - 1
               w == Through(s, d, q, h)
    <3>1. q \in Nat /\ start <= q /\ q <= n /\ q < p /\ p = q + 1 /\ start < p
      BY <1>1, <2>4
    <3>2. Same(q) /\ Kept(q)
      BY <1>1, <3>1
    <3> HIDE DEF q
    <3>3. /\ Through(s, d, p, h) = Step(s, d, p, h, w)
          /\ Through(t, d, p, k) = Step(t, d, p, k, w)
      <4>1. Through(s, d, q + 1, h) = Step(s, d, q + 1, h, Through(s, d, q, h))
        BY <2>1, <3>1
      <4>2. Through(t, d, q + 1, k) = Step(t, d, q + 1, k, Through(t, d, q, k))
        BY <2>2, <3>1
      <4>. QED
        BY <3>1, <3>2, <4>1, <4>2
    <3>4. /\ TookSlash(t, d, p, k) <=> TookSlash(s, d, p, h)
          /\ TookSlash(s, d, p, h) =>
                /\ t.validators[v].slashes[p] = s.validators[v].slashes[p]
                /\ t.validators[v].history[p].ratio = s.validators[v].history[p].ratio
      BY <1>1, <3>1 DEF SameWay
    <3>5. t.validators[v].history[w.from].ratio = s.validators[v].history[w.from].ratio
      BY <3>2
    <3> HIDE DEF w
    <3>6. CASE TookSlash(s, d, p, h)
      <4>1. Earned(t, v, w.from, p, w.stake) = Earned(s, v, w.from, p, w.stake)
        BY <3>4, <3>5, <3>6 DEF Earned
      <4>2. Same(p)
        BY <3>3, <3>4, <3>6, <4>1 DEF Step
      <4>3. Through(s, d, p, h).from = p
        BY <3>3, <3>6 DEF Step
      <4>. QED
        BY <3>4, <3>6, <4>2, <4>3
    <3>7. CASE ~ TookSlash(s, d, p, h)
      <4>1. Through(s, d, p, h) = w /\ Through(t, d, p, k) = w
        BY <3>3, <3>4, <3>7 DEF Step
      <4>. QED
        BY <3>5, <4>1
    <3>. QED
      BY <3>6, <3>7
  <2>. QED
    BY <2>3, <2>4
<1> HIDE DEF Same, Kept
<1>2. B = {}
  <2> SUFFICES ASSUME B # {}
               PROVE  FALSE
    OBVIOUS
  <2>1. PICK p \in B : \A q \in B : ~ (q < p)
    <3>1. B \in SUBSET Nat
      OBVIOUS
    <3> HIDE DEF B
    <3>. QED
      BY <3>1, LeastNumber
  <2>2. p \in Nat /\ start <= p /\ p <= n /\ ~ (Same(p) /\ Kept(p))
    OBVIOUS
  <2>3. ASSUME NEW q \in Nat, start <= q, q < p
        PROVE  Same(q) /\ Kept(q)
    <3>1. q <= n /\ q \notin B
      BY <2>1, <2>2, <2>3
    <3>. QED
      BY <2>3, <3>1
  <2>. QED
    BY <1>1, <2>2, <2>3
<1>3. Same(n)
  BY <1>2
<1>. QED
  BY <1>3 DEF Same

\* The slashes after the period a delegation counts from are those it takes.
LEMMA SlashesTaken ==
    ASSUME NEW s \in StoreType, NEW d \in Delegations, NEW h \in Nat,
           CountsFrom(s, d, h), SlashesFit(s, ValidatorOf[d], h),
           NEW p \in Periods, s.infos[d].period < p
    PROVE  TookSlash(s, d, p, h) <=> s.validators[ValidatorOf[d]].slashes[p].fraction > 0
<1>1. /\ s.validators[ValidatorOf[d]].slashes[p].height \in Nat
      /\ s.validators[ValidatorOf[d]].slashes[p].fraction \in Nat
      /\ s.infos[d].height \in Nat
  BY EntryIsTyped, InfoIsTyped
<1>. QED
  BY <1>1, SMTT(30) DEF TookSlash, CountsFrom, SlashesFit

\* A validator's period and the last that ended.
LEMMA PeriodIsTyped ==
    ASSUME NEW s \in StoreType, NEW v \in Validators, NEW L, RefsFit(s, L, v)
    PROVE  /\ s.validators[v].period \in Nat
           /\ s.validators[v].period \in Periods
           /\ s.validators[v].period >= 1
           /\ s.validators[v].period <= MaxPeriod
           /\ Ended(s, v) \in Nat
           /\ Ended(s, v) \in Periods
           /\ s.validators[v].period = Ended(s, v) + 1
<1>1. s.validators[v].period \in Nat /\ s.validators[v].period <= MaxPeriod
  <2>1. RecordTyped(s.validators[v])
    BY StoreIsTyped
  <2>. QED
    BY <2>1, Zenon DEF RecordTyped
<1>2. s.validators[v].period >= 1
  BY DEF RefsFit
<1>. QED
  BY <1>1, <1>2, DistributionAssumption DEF Ended, Periods

\* What one operation has to keep of a history for a delegation to go the same way.
KeepsHistory(s, t, d, n) ==
    LET old == s.validators[ValidatorOf[d]]
        new == t.validators[ValidatorOf[d]]
    IN  /\ t.infos[d] = s.infos[d]
        /\ \A p \in Periods :
              p <= n => /\ new.slashes[p] = old.slashes[p]
                        /\ p = s.infos[d].period \/ old.slashes[p].fraction > 0 =>
                              new.history[p].ratio = old.history[p].ratio

\* A way to period n is the same when the history up to n is kept.
LEMMA WayKept ==
    ASSUME NEW s \in StoreType, NEW t \in StoreType, NEW d \in Delegations,
           NEW h \in Nat, NEW k \in Nat, NEW n \in Periods,
           CountsFrom(s, d, h), SlashesFit(s, ValidatorOf[d], h),
           CountsFrom(t, d, k), SlashesFit(t, ValidatorOf[d], k),
           s.infos[d].period <= n,
           KeepsHistory(s, t, d, n)
    PROVE  Through(t, d, n, k) = Through(s, d, n, h)
<1> DEFINE v == ValidatorOf[d]
           start == s.infos[d].period
<1>1. /\ start \in Nat /\ start \in Periods
      /\ n \in Nat /\ n <= MaxPeriod
      /\ t.infos[d] = s.infos[d]
  BY InfoIsTyped, EntryIsTyped DEF KeepsHistory
<1>2. t.validators[v].history[start].ratio = s.validators[v].history[start].ratio
  BY <1>1 DEF KeepsHistory
<1>3. ASSUME NEW p \in Nat, start < p, p <= n
      PROVE  /\ TookSlash(t, d, p, k) => TookSlash(s, d, p, h)
             /\ TookSlash(s, d, p, h) =>
                   /\ TookSlash(t, d, p, k)
                   /\ t.validators[v].slashes[p] = s.validators[v].slashes[p]
                   /\ t.validators[v].history[p].ratio = s.validators[v].history[p].ratio
  <2>1. p \in Periods
    BY <1>1, <1>3, DistributionAssumption DEF Periods
  <2>2. TookSlash(s, d, p, h) <=> s.validators[v].slashes[p].fraction > 0
    BY <1>3, <2>1, SlashesTaken
  <2>3. TookSlash(t, d, p, k) <=> t.validators[v].slashes[p].fraction > 0
    BY <1>1, <1>3, <2>1, SlashesTaken
  <2>4. /\ t.validators[v].slashes[p] = s.validators[v].slashes[p]
        /\ s.validators[v].slashes[p].fraction > 0 =>
              t.validators[v].history[p].ratio = s.validators[v].history[p].ratio
    BY <1>3, <2>1 DEF KeepsHistory
  <2>. QED
    BY <2>2, <2>3, <2>4
<1>4. SameWay(s, t, d, n, h, k)
  BY <1>1, <1>2, <1>3 DEF SameWay
<1>. QED
  BY <1>1, <1>4, WayStable

\* The delegations L to a validator that count.
LEMMA LinkIsTyped ==
    ASSUME NEW s \in StoreType, NEW v \in Validators, NEW L \in SUBSET DelegationsTo(v),
           NEW d \in L
    PROVE  /\ d \in Delegations
           /\ ValidatorOf[d] = v
  BY DEF DelegationsTo

\* The account of a validator is the same in another store that keeps it, and at
\* a later height.
LEMMA FitsKept ==
    ASSUME NEW s \in StoreType, NEW t \in StoreType,
           NEW v \in Validators, NEW L \in SUBSET DelegationsTo(v),
           NEW h \in Nat, NEW k \in Nat, h <= k,
           t.validators[v] = s.validators[v],
           \A d \in L : t.infos[d] = s.infos[d],
           Fits(s, L, v, h)
    PROVE  /\ Fits(t, L, v, k)
           /\ \A d \in L : Way(t, d, k) = Way(s, d, h)
<1>1. RefsFit(t, L, v)
  <2>1. \A p \in Periods : CountedAt(t, L, p) <=> CountedAt(s, L, p)
    BY DEF CountedAt
  <2>2. RefsFit(s, L, v)
    BY DEF Fits
  <2>3. \A p \in Periods : Bit(CountedAt(t, L, p)) = Bit(CountedAt(s, L, p))
    BY <2>1 DEF Bit
  <2>. QED
    BY <2>2, <2>3, Zenon DEF RefsFit, Ended
<1>2. SlashesFit(t, v, k) /\ SlashesFit(s, v, h)
  <2>1. SlashesFit(s, v, h)
    BY DEF Fits
  <2>2. \A p \in Periods : s.validators[v].slashes[p].height \in Nat
    BY EntryIsTyped
  <2>. QED
    BY <2>1, <2>2 DEF SlashesFit
<1>3. RatiosGrow(t, v)
  BY DEF Fits, RatiosGrow
<1>4. Distinct(t, L)
  BY DEF Fits, Distinct
<1>5. ASSUME NEW d \in L
      PROVE  /\ CountsFrom(t, d, k)
             /\ Way(t, d, k) = Way(s, d, h)
             /\ WayFits(t, d, k)
             /\ Owed(t, d, k) = Owed(s, d, h)
  <2>1. d \in Delegations /\ ValidatorOf[d] = v
    BY LinkIsTyped
  <2>2. CountsFrom(s, d, h) /\ WayFits(s, d, h)
    BY DEF Fits
  <2>3. s.infos[d].height \in Nat
    BY <2>1, InfoIsTyped
  <2>4. t.infos[d] = s.infos[d]
    OBVIOUS
  <2>5. CountsFrom(t, d, k)
    BY <2>1, <2>2, <2>3, <2>4 DEF CountsFrom
  <2>6. Ended(s, v) \in Periods /\ s.infos[d].period <= Ended(s, v) /\ Ended(t, v) = Ended(s, v)
    <3>1. RefsFit(s, L, v)
      BY DEF Fits
    <3>2. Ended(s, v) \in Periods /\ Ended(s, v) = s.validators[v].period - 1
      BY <3>1, PeriodIsTyped DEF Ended
    <3>3. s.infos[d].period <= Ended(s, v)
      BY <2>1, <2>2, <3>1, PeriodIsTyped, InfoIsTyped DEF CountsFrom
    <3>4. Ended(t, v) = Ended(s, v)
      BY DEF Ended
    <3>. QED
      BY <3>2, <3>3, <3>4
  <2>7. KeepsHistory(s, t, d, Ended(s, v))
    BY <2>1, <2>4 DEF KeepsHistory
  <2>8. Way(t, d, k) = Way(s, d, h)
    BY <1>2, <2>1, <2>2, <2>5, <2>6, <2>7, WayKept DEF Way
  <2>9. WayFits(t, d, k)
    BY <2>1, <2>2, <2>4, <2>6, <2>8 DEF WayFits, StakeOf
  <2>. QED
    BY <2>1, <2>5, <2>6, <2>8, <2>9 DEF Owed
<1>6. Covered(t, L, v, k)
  <2>1. [d \in L |-> Owed(t, d, k)] = [d \in L |-> Owed(s, d, h)]
    BY <1>5
  <2>. QED
    BY <2>1 DEF Fits, Covered
<1>. QED
  BY <1>1, <1>2, <1>3, <1>4, <1>5, <1>6 DEF Fits

\* Bit is 0 or 1.
LEMMA BitType ==
    ASSUME NEW b
    PROVE  /\ Bit(b) \in {0, 1}
           /\ b => Bit(b) = 1
           /\ ~ b => Bit(b) = 0
  BY DEF Bit

\* What someone needs of a history is there.
LEMMA Referenced ==
    ASSUME NEW s, NEW v, NEW L, RefsFit(s, L, v), NEW p \in Periods,
           p = Ended(s, v) \/ CountedAt(s, L, p) \/ s.validators[v].slashes[p].fraction > 0
    PROVE  s.validators[v].history[p].refs > 0
<1> DEFINE a == Bit(p = Ended(s, v))
           b == Bit(CountedAt(s, L, p))
           c == Bit(s.validators[v].slashes[p].fraction > 0)
<1>1. s.validators[v].history[p].refs = a + b + c
  BY DEF RefsFit
<1>2. a \in {0, 1} /\ b \in {0, 1} /\ c \in {0, 1} /\ (a = 1 \/ b = 1 \/ c = 1)
  BY BitType
<1> HIDE DEF a, b, c
<1>. QED
  BY <1>1, <1>2

\* A delegation's way, and what it earned on it, in a store that fits.
LEMMA OwedType ==
    ASSUME NEW s \in StoreType, NEW v \in Validators, NEW L \in SUBSET DelegationsTo(v),
           NEW h \in Nat, Fits(s, L, v, h), NEW d \in L
    PROVE  /\ Way(s, d, h).from \in Nat
           /\ Way(s, d, h).from \in Periods
           /\ s.infos[d].period <= Way(s, d, h).from
           /\ Way(s, d, h).from <= Ended(s, v)
           /\ Way(s, d, h).from = s.infos[d].period
                 \/ s.validators[v].slashes[Way(s, d, h).from].fraction > 0
           /\ Way(s, d, h).stake \in Nat
           /\ Way(s, d, h).stake <= StakeOf(s, d)
           /\ Way(s, d, h).rewards \in Nat
           /\ s.validators[v].history[Way(s, d, h).from].refs > 0
           /\ s.validators[v].history[Way(s, d, h).from].ratio
                 <= s.validators[v].history[Ended(s, v)].ratio
           /\ Owed(s, d, h) \in Nat
<1> DEFINE w == Way(s, d, h)
           last == Ended(s, v)
           val == s.validators[v]
<1>1. d \in Delegations /\ ValidatorOf[d] = v
  BY LinkIsTyped
<1>2. WayFits(s, d, h) /\ RefsFit(s, L, v) /\ RatiosGrow(s, v)
  BY DEF Fits
<1>3. last \in Nat /\ last \in Periods /\ s.infos[d].period \in Nat
  BY <1>1, <1>2, PeriodIsTyped, InfoIsTyped
<1>4. /\ w.from \in s.infos[d].period..last
      /\ w.from = s.infos[d].period \/ val.slashes[w.from].fraction > 0
      /\ w.stake \in Nat
      /\ w.stake <= StakeOf(s, d)
      /\ w.rewards \in Nat
  BY <1>1, <1>2, Zenon DEF WayFits
<1> HIDE DEF w, last
<1>5. w.from \in Nat /\ w.from \in Periods /\ s.infos[d].period <= w.from /\ w.from <= last
  BY <1>3, <1>4, DistributionAssumption DEF Periods
<1>6. val.history[w.from].refs > 0 /\ val.history[last].refs > 0
  <2>1. w.from = s.infos[d].period => CountedAt(s, L, w.from)
    BY DEF CountedAt
  <2>. QED
    BY <1>2, <1>3, <1>4, <1>5, <2>1, Referenced DEF last
<1>7. /\ val.history[w.from].ratio <= val.history[last].ratio
      /\ val.history[w.from].ratio \in Nat
      /\ val.history[last].ratio \in Nat
  <2>1. val.history[w.from].ratio <= val.history[last].ratio
    BY <1>2, <1>3, <1>5, <1>6 DEF RatiosGrow
  <2>2. val.history[w.from].ratio \in Nat /\ val.history[last].ratio \in Nat
    BY <1>3, <1>5, EntryIsTyped
  <2>. QED
    BY <2>1, <2>2
<1>8. Owed(s, d, h) \in Nat
  <2>1. Owed(s, d, h)
           = One * w.rewards + (val.history[last].ratio - val.history[w.from].ratio) * w.stake
    BY <1>1 DEF Owed, w, last
  <2>2. \A r \in Nat, a \in Nat, b \in Nat, x \in Nat :
           a <= b => One * r + (b - a) * x \in Nat
    BY OneAssumption
  <2> HIDE DEF val
  <2>3. One * w.rewards + (val.history[last].ratio - val.history[w.from].ratio) * w.stake \in Nat
    BY <1>4, <1>7, <2>2, Zenon
  <2>. QED
    BY <2>1, <2>3
<1>. QED
  BY <1>1, <1>4, <1>5, <1>6, <1>7, <1>8 DEF w, last

\* Part of a validator's delegations is finite.
LEMMA LinksFinite ==
    ASSUME NEW v, NEW L \in SUBSET DelegationsTo(v)
    PROVE  /\ IsFiniteSet(L)
           /\ Cardinality(L) \in Nat
           /\ Cardinality(L) <= Cardinality(DelegationsTo(v))
           /\ IsFiniteSet(DelegationsTo(v))
           /\ Cardinality(DelegationsTo(v)) \in Nat
<1>1. IsFiniteSet(DelegationsTo(v))
  BY DistributionAssumption, FS_Subset DEF DelegationsTo
<1>2. IsFiniteSet(L) /\ Cardinality(L) <= Cardinality(DelegationsTo(v))
  BY <1>1, FS_Subset
<1>. QED
  BY <1>1, <1>2, FS_CardinalityType

\* What all of them earned.
AllOwed(s, L, h) == SumFunctionOnSet([d \in L |-> Owed(s, d, h)], L)

\* The amounts Covered compares are naturals, and commission and rewards of the
\* period are outstanding.
LEMMA CoverType ==
    ASSUME NEW s \in StoreType, NEW v \in Validators, NEW L \in SUBSET DelegationsTo(v),
           NEW h \in Nat, Fits(s, L, v, h)
    PROVE  /\ AllOwed(s, L, h) \in Nat
           /\ s.validators[v].commission \in Nat
           /\ s.validators[v].current \in Nat
           /\ s.validators[v].outstanding \in Nat
           /\ s.validators[v].tokens \in Nat
           /\ One * (s.validators[v].commission + s.validators[v].current) + AllOwed(s, L, h)
                 <= One * s.validators[v].outstanding
           /\ s.validators[v].commission + s.validators[v].current
                 <= s.validators[v].outstanding
<1> DEFINE val == s.validators[v]
           f == [d \in L |-> Owed(s, d, h)]
<1>1. AllOwed(s, L, h) \in Nat
  <2>1. \A d \in L : f[d] \in Nat
    BY OwedType
  <2>2. IsFiniteSet(L)
    BY LinksFinite
  <2> HIDE DEF f
  <2>3. SumFunctionOnSet(f, L) \in Nat
    BY <2>1, <2>2, SumNat
  <2>. QED
    BY <2>3 DEF AllOwed, f
<1>2. val.commission \in Nat /\ val.current \in Nat /\ val.outstanding \in Nat /\ val.tokens \in Nat
  <2>1. RecordTyped(val)
    BY StoreIsTyped
  <2>. QED
    BY <2>1, Zenon DEF RecordTyped
<1>3. One * (val.commission + val.current) + AllOwed(s, L, h) <= One * val.outstanding
  BY DEF Fits, Covered, AllOwed
<1>4. One * (val.commission + val.current) <= One * val.outstanding
  BY <1>1, <1>2, <1>3, OneAssumption
<1>5. val.commission + val.current <= val.outstanding
  BY <1>2, <1>4, OneAssumption, Cancel
<1>. QED
  BY <1>1, <1>2, <1>3, <1>5

\* Nothing is kept for periods that have not ended.
LEMMA NothingAhead ==
    ASSUME NEW s \in StoreType, NEW v \in Validators, NEW L \in SUBSET DelegationsTo(v),
           NEW h \in Nat, Fits(s, L, v, h),
           NEW p \in Periods, s.validators[v].period <= p
    PROVE  /\ s.validators[v].history[p].refs = 0
           /\ ~ CountedAt(s, L, p)
           /\ s.validators[v].slashes[p].fraction = 0
<1>1. RefsFit(s, L, v) /\ SlashesFit(s, v, h) /\ \A d \in L : CountsFrom(s, d, h)
  BY DEF Fits
<1>2. p \in Nat /\ s.validators[v].period \in Nat /\ p # Ended(s, v)
  BY <1>1, EntryIsTyped, PeriodIsTyped
<1>3. ~ CountedAt(s, L, p)
  <2> SUFFICES ASSUME NEW d \in L, s.infos[d].period = p
               PROVE  FALSE
    BY DEF CountedAt
  <2>1. ValidatorOf[d] = v /\ CountsFrom(s, d, h)
    BY <1>1, LinkIsTyped
  <2>2. s.infos[d].period < s.validators[v].period
    BY <2>1 DEF CountsFrom
  <2>. QED
    BY <1>2, <2>2
<1>4. s.validators[v].slashes[p].fraction = 0
  <2>1. s.validators[v].slashes[p].fraction \in Nat
    BY EntryIsTyped
  <2>. QED
    BY <1>1, <1>2, <2>1 DEF SlashesFit
<1>5. s.validators[v].history[p].refs =
         Bit(p = Ended(s, v)) + Bit(CountedAt(s, L, p))
            + Bit(s.validators[v].slashes[p].fraction > 0)
  BY <1>1 DEF RefsFit
<1>6. /\ Bit(p = Ended(s, v)) = 0
      /\ Bit(CountedAt(s, L, p)) = 0
      /\ Bit(s.validators[v].slashes[p].fraction > 0) = 0
  BY <1>2, <1>3, <1>4 DEF Bit
<1>. QED
  BY <1>3, <1>4, <1>5, <1>6

\* An entry with one reference less.
LEMMA DereferencedIs ==
    ASSUME NEW e, NEW a, NEW b \in Nat, e = [ratio |-> a, refs |-> b]
    PROVE  /\ Dereferenced(e).refs = IF b <= 1 THEN 0 ELSE b - 1
           /\ Dereferenced(e).refs > 0 => Dereferenced(e).ratio = a
           /\ Dereferenced(e) = [ratio |-> Dereferenced(e).ratio, refs |-> Dereferenced(e).refs]
           /\ Dereferenced(e).ratio \in {0, a}
<1>1. CASE b <= 1
  BY <1>1 DEF Dereferenced, Absent
<1>2. CASE ~ (b <= 1)
  <2>1. Dereferenced(e) = [ratio |-> a, refs |-> b - 1]
    BY <1>2 DEF Dereferenced
  <2>. QED
    BY <1>2, <2>1
<1>. QED
  BY <1>1, <1>2

\* What a period earned and lost is within the period's rewards.
LEMMA PeriodAmounts ==
    ASSUME NEW s \in StoreType, NEW v \in Validators
    PROVE  /\ EarnedInPeriod(s.validators[v]) \in Nat
           /\ LostInPeriod(s.validators[v]) \in Nat
           /\ LostInPeriod(s.validators[v]) <= s.validators[v].current
           /\ EarnedInPeriod(s.validators[v]) * s.validators[v].tokens
                 <= s.validators[v].current - LostInPeriod(s.validators[v])
<1> DEFINE val == s.validators[v]
           q == val.current \div val.tokens
<1>1. val.tokens \in Nat /\ val.current \in Nat
  <2>1. RecordTyped(val)
    BY StoreIsTyped
  <2>. QED
    BY <2>1, Zenon DEF RecordTyped
<1>2. val.tokens # 0 => q \in Nat /\ val.tokens * q <= val.current
  BY <1>1, Quotient
<1> HIDE DEF q
<1>3. CASE val.tokens = 0
  <2>1. EarnedInPeriod(val) = 0 /\ LostInPeriod(val) = val.current
    BY <1>3 DEF EarnedInPeriod, LostInPeriod
  <2>. QED
    BY <1>1, <1>3, <2>1
<1>4. CASE val.tokens # 0
  <2>1. EarnedInPeriod(val) = q /\ LostInPeriod(val) = 0
    BY <1>4 DEF EarnedInPeriod, LostInPeriod, q
  <2>2. q * val.tokens = val.tokens * q
    BY <1>1, <1>2, <1>4
  <2>. QED
    BY <1>1, <1>2, <1>4, <2>1, <2>2
<1>. QED
  BY <1>3, <1>4

-----------------------------------------------------------------------------
(* A period ends.                                                          *)

\* The store keeps its type when a period ends.
LEMMA IncrementType ==
    ASSUME NEW s \in StoreType, NEW v \in Validators, NEW L \in SUBSET DelegationsTo(v),
           NEW h \in Nat, Fits(s, L, v, h), s.validators[v].period < MaxPeriod
    PROVE  IncrementPeriod(s, v) \in StoreType
<1> DEFINE val == s.validators[v]
           last == val.period - 1
           earned == EarnedInPeriod(val)
           lost == LostInPeriod(val)
           entry == [ratio |-> val.history[last].ratio + earned, refs |-> 1]
           new == [val EXCEPT !.outstanding = @ - lost,
                              !.current = 0,
                              !.period = @ + 1,
                              !.history[last] = Dereferenced(@),
                              !.history[val.period] = entry]
           bad == s.panic \/ val.history[last].refs = 0
<1>1. RefsFit(s, L, v)
  BY DEF Fits
<1>2. /\ last \in Periods /\ val.period \in Periods /\ val.period \in Nat
      /\ val.period + 1 \in Periods
  BY <1>1, PeriodIsTyped, DistributionAssumption DEF Ended, Periods
<1>3. val \in ValidatorRecord /\ val.history[last] \in [ratio : Nat, refs : 0..2]
  BY <1>2 DEF StoreType, ValidatorRecord
<1>4. earned \in Nat /\ lost \in Nat /\ lost <= val.outstanding
  BY PeriodAmounts, CoverType
<1>5. Dereferenced(val.history[last]) \in [ratio : Nat, refs : 0..2]
  BY <1>3 DEF Dereferenced, Absent
<1>6. entry \in [ratio : Nat, refs : 0..2]
  BY <1>3, <1>4
<1>7. val.outstanding - lost \in Nat
  BY <1>4, CoverType
<1> HIDE DEF last, earned, lost, entry
<1>8. new \in ValidatorRecord
  BY <1>2, <1>3, <1>5, <1>6, <1>7 DEF ValidatorRecord
<1>9. s.community + lost \in Nat
  BY <1>4 DEF StoreType
<1>10. IncrementPeriod(s, v) = [s EXCEPT !.community = @ + lost,
                                         !.validators[v] = new,
                                         !.panic = bad]
  BY DEF IncrementPeriod, EarnedInPeriod, LostInPeriod, last, earned, lost, entry, bad
<1>11. bad \in BOOLEAN
  BY DEF bad
<1> DEFINE vals == [s.validators EXCEPT ![v] = new]
           community == s.community + lost
<1>12. vals \in [Validators -> ValidatorRecord]
  <2> HIDE DEF new
  <2>. QED
    BY <1>8 DEF StoreType
<1>13. IncrementPeriod(s, v) = [s EXCEPT !.community = community, !.validators = vals,
                                         !.panic = bad]
  <2> HIDE DEF new, bad
  <2>. QED
    BY <1>10
<1>14. community \in Nat
  BY <1>9
<1> HIDE DEF vals, community, bad
<1>. QED
  BY <1>11, <1>12, <1>13, <1>14 DEF StoreType

\* The history after a period ends: the last entry goes with its last reference.
LEMMA IncrementHistory ==
    ASSUME NEW s \in StoreType, NEW t \in StoreType,
           NEW v \in Validators, NEW L \in SUBSET DelegationsTo(v),
           NEW h \in Nat, Fits(s, L, v, h), s.validators[v].period < MaxPeriod,
           Incremented(s, t, v)
    PROVE  /\ Ended(t, v) = Ended(s, v) + 1
           /\ Ended(t, v) = s.validators[v].period
           /\ Ended(t, v) \in Periods
           /\ t.validators[v].slashes = s.validators[v].slashes
           /\ t.validators[v].history[Ended(t, v)].refs = 1
           /\ t.validators[v].history[Ended(t, v)].ratio
                 = s.validators[v].history[Ended(s, v)].ratio + EarnedInPeriod(s.validators[v])
           /\ \A p \in Periods \ {Ended(t, v)} :
                 /\ t.validators[v].history[p].refs
                       = s.validators[v].history[p].refs - Bit(p = Ended(s, v))
                 /\ t.validators[v].history[p].refs > 0 =>
                       t.validators[v].history[p].ratio = s.validators[v].history[p].ratio
           /\ t.panic = s.panic
<1> DEFINE val == s.validators[v]
           new == t.validators[v]
           last == val.period - 1
           entry == [ratio |-> val.history[last].ratio + EarnedInPeriod(val), refs |-> 1]
<1>1. RefsFit(s, L, v)
  BY DEF Fits
<1>2. /\ last = Ended(s, v) /\ last \in Periods /\ last \in Nat
      /\ val.period \in Periods /\ val.period = last + 1
  BY <1>1, PeriodIsTyped DEF Ended
<1>3. /\ new.period = val.period + 1
      /\ new.slashes = val.slashes
      /\ new.history[last] = Dereferenced(val.history[last])
      /\ new.history[val.period] = entry
      /\ \A p \in Periods \ {last, val.period} : new.history[p] = val.history[p]
      /\ t.panic = (s.panic \/ val.history[last].refs = 0)
  BY Zenon DEF Incremented
<1>4. Ended(t, v) = val.period
  BY <1>2, <1>3 DEF Ended
<1>5. val.history[last].refs > 0
  BY <1>1, <1>2, Referenced
<1>6. /\ val.history[last] = [ratio |-> val.history[last].ratio, refs |-> val.history[last].refs]
      /\ val.history[last].refs \in Nat
  <2>1. RecordTyped(val)
    BY StoreIsTyped
  <2>2. val.history[last] = [ratio |-> val.history[last].ratio, refs |-> val.history[last].refs]
    BY <1>2, <2>1, Zenon DEF RecordTyped
  <2>. QED
    BY <1>2, <2>2, EntryIsTyped
<1> HIDE DEF last
<1>7. /\ new.history[last].refs = val.history[last].refs - 1
      /\ new.history[last].refs > 0 => new.history[last].ratio = val.history[last].ratio
  <2>1. /\ new.history[last].refs = IF val.history[last].refs <= 1 THEN 0
                                    ELSE val.history[last].refs - 1
        /\ new.history[last].refs > 0 => new.history[last].ratio = val.history[last].ratio
    BY <1>3, <1>6, DereferencedIs
  <2>. QED
    BY <1>5, <1>6, <2>1
<1>8. ASSUME NEW p \in Periods, p # val.period
      PROVE  /\ new.history[p].refs = val.history[p].refs - Bit(p = last)
             /\ new.history[p].refs > 0 => new.history[p].ratio = val.history[p].ratio
  <2>1. CASE p = last
    <3>1. Bit(p = last) = 1
      BY <2>1 DEF Bit
    <3>. QED
      BY <1>7, <2>1, <3>1
  <2>2. CASE p # last
    <3>1. Bit(p = last) = 0
      BY <2>2 DEF Bit
    <3>2. new.history[p] = val.history[p] /\ val.history[p].refs \in Nat
      BY <1>3, <1>8, <2>2, EntryIsTyped
    <3>. QED
      BY <3>1, <3>2
  <2>. QED
    BY <2>1, <2>2
<1>9. t.panic = s.panic
  <2>1. s.panic \in BOOLEAN /\ val.history[last].refs # 0
    BY <1>5, <1>6, StoreIsTyped
  <2>. QED
    BY <1>3, <2>1
<1>10. new.history[val.period].refs = 1
       /\ new.history[val.period].ratio = val.history[last].ratio + EarnedInPeriod(val)
  BY <1>3
<1> HIDE DEF val, new
<1>. QED
  BY <1>2, <1>3, <1>4, <1>8, <1>9, <1>10, SMTT(30) DEF val, new

\* After a period ends the references, slashes, ratios and starts fit.
LEMMA IncrementShape ==
    ASSUME NEW s \in StoreType, NEW t \in StoreType,
           NEW v \in Validators, NEW L \in SUBSET DelegationsTo(v),
           NEW h \in Nat, Fits(s, L, v, h), s.validators[v].period < MaxPeriod,
           Incremented(s, t, v)
    PROVE  /\ RefsFit(t, L, v)
           /\ SlashesFit(t, v, h)
           /\ RatiosGrow(t, v)
           /\ \A d \in L : CountsFrom(t, d, h)
           /\ Distinct(t, L)
<1> DEFINE val == s.validators[v]
           new == t.validators[v]
           last == Ended(s, v)
           end == Ended(t, v)
<1>1. RefsFit(s, L, v) /\ SlashesFit(s, v, h) /\ RatiosGrow(s, v)
      /\ (\A d \in L : CountsFrom(s, d, h)) /\ Distinct(s, L)
  BY DEF Fits
<1>2. /\ last \in Periods /\ last \in Nat /\ val.period = last + 1
      /\ end = last + 1 /\ end \in Periods
      /\ new.slashes = val.slashes
      /\ new.history[end].refs = 1
      /\ new.history[end].ratio = val.history[last].ratio + EarnedInPeriod(val)
      /\ \A p \in Periods \ {end} :
            /\ new.history[p].refs = val.history[p].refs - Bit(p = last)
            /\ new.history[p].refs > 0 => new.history[p].ratio = val.history[p].ratio
  <2>1. last \in Periods /\ last \in Nat /\ val.period = last + 1
    BY <1>1, PeriodIsTyped
  <2>. QED
    BY <2>1, IncrementHistory
<1>3. t.infos = s.infos /\ new.period = end + 1
  BY <1>2 DEF Incremented, Ended
<1>4. /\ ~ CountedAt(s, L, end)
      /\ val.slashes[end].fraction = 0
  <2>1. s.validators[v].period <= end
    BY <1>2
  <2> HIDE DEF end
  <2>. QED
    BY <1>2, <2>1, NothingAhead
<1> HIDE DEF val, new, last, end
<1>5. RefsFit(t, L, v)
  <2>1. ASSUME NEW p \in Periods
        PROVE  new.history[p].refs = Bit(p = end) + Bit(CountedAt(t, L, p))
                                        + Bit(new.slashes[p].fraction > 0)
    <3>1. CountedAt(t, L, p) <=> CountedAt(s, L, p)
      BY <1>3 DEF CountedAt
    <3>2. Bit(CountedAt(t, L, p)) = Bit(CountedAt(s, L, p))
      BY <3>1 DEF Bit
    <3>3. CASE p = end
      <4>1. Bit(p = end) = 1 /\ Bit(CountedAt(s, L, p)) = 0
            /\ Bit(new.slashes[p].fraction > 0) = 0
        BY <1>2, <1>4, <3>3 DEF Bit
      <4>. QED
        BY <1>2, <3>2, <3>3, <4>1
    <3>4. CASE p # end
      <4>1. val.history[p].refs = Bit(p = last) + Bit(CountedAt(s, L, p))
                                     + Bit(val.slashes[p].fraction > 0)
        BY <1>1 DEF RefsFit, val, last
      <4>2. Bit(p = end) = 0
        BY <3>4 DEF Bit
      <4>3. /\ Bit(p = last) \in {0, 1} /\ Bit(CountedAt(s, L, p)) \in {0, 1}
            /\ Bit(val.slashes[p].fraction > 0) \in {0, 1}
        BY BitType
      <4>4. new.history[p].refs = val.history[p].refs - Bit(p = last)
        BY <1>2, <3>4
      <4>5. Bit(new.slashes[p].fraction > 0) = Bit(val.slashes[p].fraction > 0)
        BY <1>2
      <4>. QED
        BY <3>2, <4>1, <4>2, <4>3, <4>4, <4>5
    <3>. QED
      BY <3>3, <3>4
  <2>2. new.period >= 1
    BY <1>2, <1>3
  <2>. QED
    BY <2>1, <2>2 DEF RefsFit, new, end
<1>6. SlashesFit(t, v, h)
  BY <1>1, <1>2, <1>3, EntryIsTyped DEF SlashesFit, val, new
<1>7. RatiosGrow(t, v)
  <2> SUFFICES ASSUME NEW p \in Periods, NEW q \in Periods, p <= q,
                      new.history[p].refs > 0, new.history[q].refs > 0
               PROVE  new.history[p].ratio <= new.history[q].ratio
    BY DEF RatiosGrow, new
  <2>1. /\ p \in Nat /\ q \in Nat
        /\ val.history[p].refs \in Nat /\ val.history[q].refs \in Nat
        /\ val.history[last].refs > 0 /\ val.history[last].refs \in Nat
        /\ val.history[p].ratio \in Nat /\ val.history[q].ratio \in Nat
        /\ val.history[last].ratio \in Nat
        /\ EarnedInPeriod(val) \in Nat
        /\ Bit(p = last) \in {0, 1} /\ Bit(q = last) \in {0, 1}
    BY <1>1, <1>2, EntryIsTyped, Referenced, PeriodAmounts, BitType DEF val, last
  <2>2. ASSUME NEW r \in Periods, r # end, new.history[r].refs > 0, r \in Nat,
               val.history[r].refs \in Nat, Bit(r = last) \in {0, 1}
        PROVE  /\ val.history[r].refs > 0
               /\ new.history[r].ratio = val.history[r].ratio
               /\ r <= last
    <3>1. /\ new.history[r].refs = val.history[r].refs - Bit(r = last)
          /\ new.history[r].ratio = val.history[r].ratio
      BY <1>2, <2>2
    <3>2. val.history[r].refs > 0
      BY <2>2, <3>1
    <3>3. s.validators[v].period <= r => s.validators[v].history[r].refs = 0
      BY NothingAhead
    <3>. QED
      BY <1>2, <2>2, <3>1, <3>2, <3>3 DEF val
  <2>3. CASE p = end
    <3>1. CASE q = end
      BY <1>2, <2>1, <2>3, <3>1
    <3>2. CASE q # end
      BY <1>2, <2>1, <2>2, <2>3, <3>2
    <3>. QED
      BY <3>1, <3>2
  <2>4. CASE p # end
    <3>1. /\ val.history[p].refs > 0
          /\ new.history[p].ratio = val.history[p].ratio
          /\ p <= last
      BY <2>1, <2>2, <2>4
    <3>2. CASE q = end
      <4>1. val.history[p].ratio <= val.history[last].ratio
        BY <1>1, <1>2, <2>1, <3>1 DEF RatiosGrow, val
      <4>. QED
        BY <1>2, <2>1, <3>1, <3>2, <4>1
    <3>3. CASE q # end
      <4>1. val.history[q].refs > 0 /\ new.history[q].ratio = val.history[q].ratio
        BY <2>1, <2>2, <3>3
      <4>2. val.history[p].ratio <= val.history[q].ratio
        BY <1>1, <3>1, <4>1 DEF RatiosGrow, val
      <4>. QED
        BY <3>1, <4>1, <4>2
    <3>. QED
      BY <3>2, <3>3
  <2>. QED
    BY <2>3, <2>4
<1>8. ASSUME NEW d \in L
      PROVE  CountsFrom(t, d, h)
  <2>1. d \in Delegations /\ ValidatorOf[d] = v
    BY LinkIsTyped
  <2>2. CountsFrom(s, d, h) /\ s.infos[d].period \in Nat
    BY <1>1, <2>1, InfoIsTyped
  <2>. QED
    BY <1>2, <1>3, <2>1, <2>2 DEF CountsFrom, val, new
<1>9. Distinct(t, L)
  BY <1>1, <1>3 DEF Distinct
<1>. QED
  BY <1>5, <1>6, <1>7, <1>8, <1>9

\* Nobody's way changes when a period ends, and all earn what it brought.
LEMMA IncrementWays ==
    ASSUME NEW s \in StoreType, NEW t \in StoreType,
           NEW v \in Validators, NEW L \in SUBSET DelegationsTo(v),
           NEW h \in Nat, Fits(s, L, v, h), s.validators[v].period < MaxPeriod,
           Incremented(s, t, v), NEW d \in L
    PROVE  /\ Way(t, d, h) = Way(s, d, h)
           /\ WayFits(t, d, h)
           /\ t.validators[v].history[Way(s, d, h).from].ratio
                 = s.validators[v].history[Way(s, d, h).from].ratio
           /\ Owed(t, d, h)
                 = Owed(s, d, h) + EarnedInPeriod(s.validators[v]) * Way(s, d, h).stake
<1> DEFINE val == s.validators[v]
           new == t.validators[v]
           last == Ended(s, v)
           end == Ended(t, v)
           start == s.infos[d].period
           w == Way(s, d, h)
<1>1. /\ RefsFit(s, L, v) /\ SlashesFit(s, v, h) /\ CountsFrom(s, d, h)
      /\ RefsFit(t, L, v) /\ SlashesFit(t, v, h) /\ CountsFrom(t, d, h)
  BY IncrementShape DEF Fits
<1>2. d \in Delegations /\ ValidatorOf[d] = v /\ start \in Nat /\ start \in Periods
  BY LinkIsTyped, InfoIsTyped
<1>3. last \in Periods /\ last \in Nat /\ end = last + 1 /\ end \in Periods
      /\ val.period = last + 1
  BY <1>1, PeriodIsTyped, IncrementHistory
<1>4. start <= last
  BY <1>1, <1>2, <1>3 DEF CountsFrom
<1>5. t.infos = s.infos
  BY DEF Incremented
<1>6. ASSUME NEW p \in Periods, p <= last, p = start \/ val.slashes[p].fraction > 0
      PROVE  /\ p # end
             /\ new.history[p].ratio = val.history[p].ratio
  <2>1. p \in Nat /\ p # end
    BY <1>3, <1>6, EntryIsTyped
  <2>2. start = p => CountedAt(t, L, p)
    BY <1>5 DEF CountedAt
  <2>3. new.slashes = val.slashes
    BY IncrementHistory
  <2>4. new.history[p].refs > 0
    BY <1>1, <1>6, <2>2, <2>3, Referenced
  <2>. QED
    BY <2>1, <2>4, IncrementHistory
<1>7. KeepsHistory(s, t, d, last)
  <2>1. new.slashes = val.slashes
    BY IncrementHistory
  <2>. QED
    BY <1>2, <1>5, <1>6, <2>1 DEF KeepsHistory
<1>8. Through(t, d, last, h) = Through(s, d, last, h)
  BY <1>1, <1>2, <1>3, <1>4, <1>7, WayKept
<1>9. Through(t, d, end, h) = Through(t, d, last, h)
  <2>1. ~ TookSlash(t, d, end, h)
    <3>1. s.validators[v].period <= end
      BY <1>3
    <3>2. val.slashes[end].fraction = 0
      BY <1>3, <3>1, NothingAhead
    <3>3. new.slashes[end].fraction = 0
      BY <3>2, IncrementHistory
    <3>. QED
      BY <1>2, <3>3 DEF TookSlash
  <2>2. t.infos[d].period = start
    BY <1>5
  <2>3. Through(t, d, last + 1, h) = Step(t, d, last + 1, h, Through(t, d, last, h))
    BY <1>2, <1>3, <1>4, <2>2, ThroughUnfolds, ZenonT(40)
  <2>. QED
    BY <1>3, <2>1, <2>3 DEF Step
<1>10. Way(t, d, h) = w
  BY <1>2, <1>8, <1>9 DEF Way
<1>11. /\ w.from \in Nat /\ w.from \in Periods
       /\ start <= w.from /\ w.from <= last
       /\ w.from = start \/ val.slashes[w.from].fraction > 0
       /\ w.stake \in Nat
       /\ w.stake <= StakeOf(s, d)
       /\ w.rewards \in Nat
  BY OwedType
<1> HIDE DEF w
<1>12. new.history[w.from].ratio = val.history[w.from].ratio
  BY <1>6, <1>11
<1>13. WayFits(t, d, h)
  <2>1. new.tokens = val.tokens
    BY DEF Incremented
  <2>2. StakeOf(t, d) = StakeOf(s, d)
    BY <1>2, <2>1 DEF StakeOf
  <2>3. w.from \in start..end
    BY <1>2, <1>3, <1>11
  <2>4. new.slashes = val.slashes
    BY IncrementHistory
  <2>. QED
    BY <1>2, <1>5, <1>10, <1>11, <2>2, <2>3, <2>4 DEF WayFits
<1>14. Owed(t, d, h) = Owed(s, d, h) + EarnedInPeriod(val) * w.stake
  <2>1. Owed(t, d, h)
           = One * w.rewards + (new.history[end].ratio - new.history[w.from].ratio) * w.stake
    BY <1>2, <1>10 DEF Owed
  <2>2. Owed(s, d, h)
           = One * w.rewards + (val.history[last].ratio - val.history[w.from].ratio) * w.stake
    BY <1>2 DEF Owed, w
  <2>3. new.history[end].ratio = val.history[last].ratio + EarnedInPeriod(val)
    BY IncrementHistory
  <2>4. /\ val.history[last].ratio \in Nat /\ val.history[w.from].ratio \in Nat
        /\ EarnedInPeriod(val) \in Nat
    BY <1>3, <1>11, EntryIsTyped, PeriodAmounts
  <2>5. One * w.rewards \in Nat
    BY <1>11, OneAssumption
  <2> DEFINE o == One * w.rewards
             a == val.history[last].ratio
             b == val.history[w.from].ratio
             e == EarnedInPeriod(val)
             x == w.stake
  <2>6. o \in Nat /\ a \in Nat /\ b \in Nat /\ e \in Nat /\ x \in Nat
    BY <1>11, <2>4, <2>5
  <2>7. Owed(t, d, h) = o + ((a + e) - b) * x
    BY <1>12, <2>1, <2>3
  <2>8. Owed(s, d, h) = o + (a - b) * x
    BY <2>2
  <2> HIDE DEF o, a, b, e, x
  <2>9. o + ((a + e) - b) * x = (o + (a - b) * x) + e * x
    BY <2>6
  <2>10. Owed(t, d, h) = Owed(s, d, h) + e * x
    BY <2>7, <2>8, <2>9
  <2>. QED
    BY <2>10 DEF e, x
<1>. QED
  BY <1>10, <1>12, <1>13, <1>14 DEF w

\* What delegations would earn in a period with the whole of their stakes.
WithAllStakes(s, v, L) ==
    [d \in L |-> EarnedInPeriod(s.validators[v]) * StakeOf(s, d)]

\* It is no more than the period had: all stakes together are not more than the
\* tokens.
LEMMA AllEarned ==
    ASSUME NEW s \in StoreType, NEW v \in Validators, NEW L \in SUBSET DelegationsTo(v)
    PROVE  SumFunctionOnSet(WithAllStakes(s, v, L), L)
              <= One * (s.validators[v].current - LostInPeriod(s.validators[v]))
<1> DEFINE val == s.validators[v]
           n == TotalShares(v)
           e == EarnedInPeriod(val)
           c == val.current - LostInPeriod(val)
           T == val.tokens
           k == e * (T * One)
           part == [d \in L |-> Shares[d]]
           f == WithAllStakes(s, v, L)
           g == [d \in L |-> n * f[d]]
           a == [d \in L |-> k * part[d]]
           A == SumFunctionOnSet(f, L)
           P == SumFunctionOnSet(part, L)
<1>1. T \in Nat /\ e \in Nat /\ c \in Nat /\ e * T <= c /\ One \in Nat
  <2>1. RecordTyped(val)
    BY StoreIsTyped
  <2>2. val.tokens \in Nat /\ val.current \in Nat
    BY <2>1, Zenon DEF RecordTyped
  <2>. QED
    BY <2>2, PeriodAmounts, OneAssumption
<1>2. IsFiniteSet(L) /\ IsFiniteSet(DelegationsTo(v))
  BY LinksFinite
<1>3. CASE L = {}
  <2>1. A = 0
    BY <1>3, SumEmpty, Zenon
  <2>2. One * c >= 0
    BY <1>1
  <2>. QED
    BY <2>1, <2>2
<1>4. CASE L # {}
  <2>1. \A d \in L : d \in Delegations /\ ValidatorOf[d] = v
    BY LinkIsTyped
  <2>2. n \in Nat \ {0}
    <3>1. PICK d \in L : TRUE
      BY <1>4
    <3>. QED
      BY <2>1, <3>1, SharesAreTyped
  <2>3. \A d \in L : part[d] \in Nat
    BY <2>1, SharesAreTyped
  <2> HIDE DEF n, e, T, c
  <2>4. k \in Nat
    BY <1>1
  <2>5. ASSUME NEW d \in L
        PROVE  /\ f[d] \in Int /\ g[d] \in Int /\ a[d] \in Int
               /\ g[d] <= a[d]
    <3> DEFINE m == StakeOf(s, d)
    <3>1. m \in Nat /\ n * m <= part[d] * T * One
      <4>1. m \in Nat
        BY <2>1, StakeBound
      <4>2. m <= m
        BY <4>1
      <4>3. n * m <= Shares[d] * T * One
        BY <2>1, <4>1, <4>2, StakeBound DEF n, T
      <4>. QED
        BY <4>1, <4>3
    <3>2. f[d] = e * m
      BY DEF WithAllStakes, e
    <3>3. part[d] \in Nat
      BY <2>3
    <3> HIDE DEF m
    <3> DEFINE p == part[d]
    <3>4. p \in Nat /\ n * m <= p * T * One
      BY <3>1, <3>3
    <3>5. g[d] = n * (e * m) /\ a[d] = k * p
      BY <3>2
    <3> HIDE DEF p, f, g, a, part
    <3>6. n * (e * m) = e * (n * m) /\ k * p = e * (p * T * One)
      BY <1>1, <2>2, <3>1, <3>4
    <3>7. n * m \in Nat /\ p * T * One \in Nat
      BY <1>1, <2>2, <3>1, <3>4
    <3>8. \A i \in Nat, j \in Nat, x \in Nat : i <= j => x * i <= x * j
      OBVIOUS
    <3>9. e * (n * m) <= e * (p * T * One)
      BY <1>1, <3>4, <3>7, <3>8
    <3>10. e * m \in Int /\ n * (e * m) \in Int /\ k * p \in Int
      BY <1>1, <2>2, <2>4, <3>1, <3>4
    <3>. QED
      BY <3>2, <3>5, <3>6, <3>9, <3>10
  <2>6. A \in Int
    <3> HIDE DEF f
    <3>. QED
      BY <1>2, <2>5, SumType
  <2>7. SumFunctionOnSet(g, L) = n * A
    <3>1. \A d \in L : f[d] \in Int /\ g[d] = n * f[d]
      BY <2>5
    <3> HIDE DEF f, g
    <3>. QED
      BY <1>2, <2>2, <3>1, SumScales
  <2>8. SumFunctionOnSet(a, L) = k * P
    <3>1. \A d \in L : part[d] \in Int /\ a[d] = k * part[d]
      BY <2>3
    <3> HIDE DEF part, a, k
    <3>. QED
      BY <1>2, <2>4, <3>1, SumScales
  <2>9. n * A <= k * P
    <3>1. SumFunctionOnSet(g, L) <= SumFunctionOnSet(a, L)
      <4> HIDE DEF g, a
      <4>. QED
        BY <1>2, <2>5, SumLeq
    <3>. QED
      BY <2>7, <2>8, <3>1
  <2>10. P \in Nat /\ P <= n
    <3>1. P \in Nat
      <4> HIDE DEF part
      <4>. QED
        BY <1>2, <2>3, SumNat
    <3>2. \A d \in DelegationsTo(v) : Shares[d] \in Nat
      BY DistributionAssumption DEF DelegationsTo
    <3>3. P = SumFunctionOnSet(Shares, L)
      <4>1. \A d \in L : Shares[d] \in Int /\ part[d] = Shares[d]
        BY <3>2
      <4> HIDE DEF part
      <4>. QED
        BY <1>2, <4>1, SumSame
    <3>4. SumFunctionOnSet(Shares, L) <= SumFunctionOnSet(Shares, DelegationsTo(v))
      BY <1>2, <3>2, SumSubset
    <3>. QED
      BY <3>1, <3>3, <3>4 DEF TotalShares, n
  <2> HIDE DEF A, P, k
  <2>11. n * A <= n * k
    <3>1. k * P <= k * n
      BY <2>2, <2>4, <2>10
    <3>2. k * n = n * k /\ k * P \in Int /\ k * n \in Int /\ n * A \in Int
      BY <2>2, <2>4, <2>6, <2>10
    <3>. QED
      BY <2>9, <3>1, <3>2
  <2>12. A <= k
    BY <2>2, <2>4, <2>6, <2>11, Cancel
  <2>13. k <= One * c
    <3>1. k = One * (e * T)
      BY <1>1 DEF k
    <3>2. One * (e * T) <= One * c
      <4>1. e * T \in Nat
        BY <1>1
      <4>2. \A i \in Nat, j \in Nat, x \in Nat : i <= j => x * i <= x * j
        OBVIOUS
      <4>. QED
        BY <1>1, <4>1, <4>2
    <3>. QED
      BY <3>1, <3>2
  <2>14. One * c \in Int
    BY <1>1
  <2>15. A <= One * c
    BY <2>4, <2>6, <2>12, <2>13, <2>14
  <2>. QED
    BY <2>15 DEF A, c
<1>. QED
  BY <1>3, <1>4

\* What all earned grows by no more than the period had.
LEMMA IncrementOwed ==
    ASSUME NEW s \in StoreType, NEW t \in StoreType,
           NEW v \in Validators, NEW L \in SUBSET DelegationsTo(v),
           NEW h \in Nat, Fits(s, L, v, h), s.validators[v].period < MaxPeriod,
           Incremented(s, t, v)
    PROVE  AllOwed(t, L, h)
              <= AllOwed(s, L, h)
                   + One * (s.validators[v].current - LostInPeriod(s.validators[v]))
<1> DEFINE val == s.validators[v]
           f == [d \in L |-> Owed(s, d, h)]
           g == [d \in L |-> Owed(t, d, h)]
           w == WithAllStakes(s, v, L)
           k == [d \in L |-> f[d] + w[d]]
           gain == One * (val.current - LostInPeriod(val))
<1>1. AllOwed(s, L, h) = SumFunctionOnSet(f, L) /\ AllOwed(t, L, h) = SumFunctionOnSet(g, L)
  BY DEF AllOwed
<1>2. IsFiniteSet(L)
  BY LinksFinite
<1>3. gain \in Int
  <2>1. val.current \in Nat /\ LostInPeriod(val) \in Nat
    BY CoverType, PeriodAmounts
  <2>. QED
    BY <2>1, OneAssumption
<1>4. ASSUME NEW d \in L
      PROVE  /\ f[d] \in Int /\ w[d] \in Int /\ g[d] \in Int /\ k[d] \in Int
             /\ g[d] <= k[d] /\ k[d] = f[d] + w[d]
  <2> DEFINE e == EarnedInPeriod(val)
             m == StakeOf(s, d)
             y == Way(s, d, h).stake
  <2>1. f[d] \in Nat /\ y \in Nat /\ y <= m
    BY OwedType
  <2>2. e \in Nat
    BY PeriodAmounts
  <2>3. m \in Nat
    <3>1. d \in Delegations
      BY LinkIsTyped
    <3>. QED
      BY <3>1, StakeBound
  <2>4. g[d] = f[d] + e * y
    BY IncrementWays
  <2>5. w[d] = e * m /\ k[d] = f[d] + w[d]
    BY DEF WithAllStakes
  <2> HIDE DEF e, m, y, f, g, w, k
  <2>6. e * y <= e * m /\ e * y \in Nat /\ e * m \in Nat
    BY <2>1, <2>2, <2>3
  <2>. QED
    BY <2>1, <2>4, <2>5, <2>6
<1>5. SumFunctionOnSet(w, L) <= gain
  BY AllEarned
<1> HIDE DEF f, g, w, k, gain
<1>6. SumFunctionOnSet(g, L) <= SumFunctionOnSet(k, L)
  BY <1>2, <1>4, SumLeq
<1>7. SumFunctionOnSet(k, L) = SumFunctionOnSet(f, L) + SumFunctionOnSet(w, L)
  BY <1>2, <1>4, SumAdds
<1>8. /\ SumFunctionOnSet(f, L) \in Int /\ SumFunctionOnSet(g, L) \in Int
      /\ SumFunctionOnSet(w, L) \in Int
  BY <1>2, <1>4, SumType
<1>9. SumFunctionOnSet(g, L) <= SumFunctionOnSet(f, L) + gain
  BY <1>3, <1>5, <1>6, <1>7, <1>8
<1>. QED
  BY <1>1, <1>9 DEF gain

\* A period that just ended: nobody counts from it, and it has no slash.
FreshPeriod(s, L, v) ==
    /\ s.validators[v].history[Ended(s, v)].refs = 1
    /\ s.validators[v].slashes[Ended(s, v)].fraction = 0
    /\ ~ CountedAt(s, L, Ended(s, v))

\* A period ends, and the account of the validator still fits: the last period is
\* a fresh one, that nobody counts from and without a slash.
LEMMA IncrementFits ==
    ASSUME NEW s \in StoreType, NEW t,
           NEW v \in Validators, NEW L \in SUBSET DelegationsTo(v),
           NEW h \in Nat, Fits(s, L, v, h), s.validators[v].period < MaxPeriod,
           t = IncrementPeriod(s, v)
    PROVE  /\ t \in StoreType
           /\ Incremented(s, t, v)
           /\ t.panic = s.panic
           /\ Fits(t, L, v, h)
           /\ FreshPeriod(t, L, v)
<1>1. t \in StoreType
  BY IncrementType
<1>2. Incremented(s, t, v)
  <2>1. s.validators[v].period >= 1
    BY DEF Fits, RefsFit
  <2>. QED
    BY <2>1, IncrementFields
<1>3. /\ t.panic = s.panic
      /\ t.validators[v].history[Ended(t, v)].refs = 1
      /\ t.validators[v].slashes = s.validators[v].slashes
      /\ Ended(t, v) \in Periods
      /\ Ended(t, v) = s.validators[v].period
  BY <1>1, <1>2, IncrementHistory
<1>4. s.validators[v].period <= Ended(t, v)
  <2>1. RefsFit(s, L, v)
    BY DEF Fits
  <2>. QED
    BY <1>3, <2>1, PeriodIsTyped
<1>5. s.validators[v].slashes[Ended(t, v)].fraction = 0 /\ ~ CountedAt(s, L, Ended(t, v))
  BY <1>3, <1>4, NothingAhead
<1>6. ~ CountedAt(t, L, Ended(t, v))
  BY <1>2, <1>5 DEF CountedAt, Incremented
<1>7. Covered(t, L, v, h)
  <2> DEFINE old == s.validators[v]
             new == t.validators[v]
             lost == LostInPeriod(old)
  <2>1. /\ new.commission = old.commission
        /\ new.current = 0
        /\ new.outstanding = old.outstanding - lost
    BY <1>2 DEF Incremented
  <2>2. /\ AllOwed(s, L, h) \in Nat
        /\ old.commission \in Nat /\ old.current \in Nat /\ old.outstanding \in Nat
        /\ One * (old.commission + old.current) + AllOwed(s, L, h) <= One * old.outstanding
        /\ lost \in Nat
    BY CoverType, PeriodAmounts
  <2>3. AllOwed(t, L, h) <= AllOwed(s, L, h) + One * (old.current - lost)
    BY <1>1, <1>2, IncrementOwed
  <2>4. AllOwed(t, L, h) \in Int
    <3> DEFINE g == [d \in L |-> Owed(t, d, h)]
    <3>1. ASSUME NEW d \in L
          PROVE  g[d] \in Int
      <4> DEFINE e == EarnedInPeriod(old)
                 y == Way(s, d, h).stake
                 o == Owed(s, d, h)
      <4>1. g[d] = o + e * y
        BY <1>1, <1>2, IncrementWays
      <4>2. o \in Nat /\ e \in Nat /\ y \in Nat
        BY OwedType, PeriodAmounts
      <4> HIDE DEF o, e, y, g
      <4>. QED
        BY <4>1, <4>2
    <3>2. IsFiniteSet(L)
      BY LinksFinite
    <3> HIDE DEF g
    <3>3. SumFunctionOnSet(g, L) \in Int
      BY <3>1, <3>2, SumType
    <3>. QED
      BY <3>3 DEF AllOwed, g
  <2> DEFINE a == AllOwed(s, L, h)
             b == AllOwed(t, L, h)
             c == old.commission
             r == old.current
             o == old.outstanding
  <2>5. One * (c + 0) + b <= One * (o - lost)
    <3>1. /\ a \in Nat /\ b \in Int /\ c \in Nat /\ r \in Nat /\ o \in Nat /\ lost \in Nat
          /\ One \in Nat
          /\ One * (c + r) + a <= One * o
          /\ b <= a + One * (r - lost)
      BY <2>2, <2>3, <2>4, OneAssumption
    <3> HIDE DEF a, b, c, r, o, lost
    <3>2. /\ One * (c + r) = One * c + One * r
          /\ One * (r - lost) = One * r - One * lost
          /\ One * (o - lost) = One * o - One * lost
          /\ One * (c + 0) = One * c
      BY <3>1
    <3>3. One * c \in Int /\ One * r \in Int /\ One * o \in Int /\ One * lost \in Int
      BY <3>1
    <3>. QED
      BY <3>1, <3>2, <3>3
  <2>. QED
    BY <2>1, <2>5 DEF Covered, AllOwed
<1>8. /\ RefsFit(t, L, v) /\ SlashesFit(t, v, h) /\ RatiosGrow(t, v)
      /\ (\A d \in L : CountsFrom(t, d, h)) /\ Distinct(t, L)
  BY <1>1, <1>2, IncrementShape
<1>9. \A d \in L : WayFits(t, d, h)
  BY <1>1, <1>2, IncrementWays
<1>10. Fits(t, L, v, h)
  BY <1>7, <1>8, <1>9 DEF Fits
<1>. QED
  BY <1>1, <1>2, <1>3, <1>5, <1>6, <1>10 DEF FreshPeriod

-----------------------------------------------------------------------------
(* A delegation starts to count.                                           *)

\* The store keeps its type when a delegation starts to count.
LEMMA InitializeType ==
    ASSUME NEW s \in StoreType, NEW d \in Delegations, NEW h \in Nat,
           NEW t, Initialized(s, t, d, h), t = InitializeDelegation(s, d, h),
           s.validators[ValidatorOf[d]].period >= 1,
           s.validators[ValidatorOf[d]].history[Ended(s, ValidatorOf[d])].refs <= 1
    PROVE  t \in StoreType
<1> DEFINE v == ValidatorOf[d]
           val == s.validators[v]
           last == Ended(s, v)
           entry == [val.history[last] EXCEPT !.refs = @ + 1]
           new == [val EXCEPT !.history[last] = entry]
           info == [period |-> last, stake |-> StakeOf(s, d), height |-> h]
           bad == s.panic \/ val.history[last].refs > 2
<1>1. v \in Validators
  BY InfoIsTyped
<1>2. val \in ValidatorRecord
  BY <1>1 DEF StoreType
<1>3. last \in Periods
  <2>1. RecordTyped(val)
    BY <1>1, StoreIsTyped
  <2>2. val.period \in Nat /\ val.period <= MaxPeriod
    BY <2>1, Zenon DEF RecordTyped
  <2>. QED
    BY <2>2, DistributionAssumption DEF Ended, Periods
<1>4. entry \in [ratio : Nat, refs : 0..2]
  <2>1. val.history[last] \in [ratio : Nat, refs : 0..2]
    BY <1>2, <1>3 DEF ValidatorRecord
  <2> HIDE DEF val, last
  <2>2. val.history[last].refs \in 0..1
    BY <2>1 DEF val, last
  <2>. QED
    BY <2>1, <2>2
<1>5. info \in StartingInfo
  BY <1>3, StakeBound DEF StartingInfo
<1>6. t = [s EXCEPT !.validators[v] = new, !.infos[d] = info, !.panic = bad]
  BY DEF InitializeDelegation, Ended
<1> HIDE DEF last, entry, info, bad
<1>7. new \in ValidatorRecord
  BY <1>2, <1>3, <1>4 DEF ValidatorRecord
<1> DEFINE vals == [s.validators EXCEPT ![v] = new]
           infos == [s.infos EXCEPT ![d] = info]
<1>8. vals \in [Validators -> ValidatorRecord] /\ infos \in [Delegations -> StartingInfo]
  <2> HIDE DEF new
  <2>. QED
    BY <1>5, <1>7 DEF StoreType
<1>9. bad \in BOOLEAN
  BY DEF bad
<1>10. t = [s EXCEPT !.validators = vals, !.infos = infos, !.panic = bad]
  <2> HIDE DEF new
  <2>. QED
    BY <1>6
<1> HIDE DEF vals, infos
<1>. QED
  BY <1>8, <1>9, <1>10 DEF StoreType

\* What holds of the account when d has joined L.
Joined(s, t, L, d, v, h) ==
    /\ RefsFit(t, L \cup {d}, v)
    /\ SlashesFit(t, v, h)
    /\ RatiosGrow(t, v)
    /\ \A e \in L \cup {d} : CountsFrom(t, e, h)
    /\ Distinct(t, L \cup {d})
    /\ Ended(t, v) = Ended(s, v)
    /\ \A p \in Periods : t.validators[v].history[p].ratio = s.validators[v].history[p].ratio
    /\ t.validators[v].slashes = s.validators[v].slashes
    /\ t.validators[v].tokens = s.validators[v].tokens
    /\ \A e \in L : e # d /\ t.infos[e] = s.infos[e]
    /\ t.infos[d] = [period |-> Ended(s, v), stake |-> StakeOf(s, d), height |-> h]
    /\ t.panic = s.panic

\* A start from a fresh period does that.
LEMMA InitializeShape ==
    ASSUME NEW s \in StoreType, NEW t \in StoreType, NEW d \in Delegations,
           NEW v \in Validators, v = ValidatorOf[d],
           NEW L \in SUBSET DelegationsTo(v), d \notin L,
           NEW h \in Nat, Fits(s, L, v, h),
           FreshPeriod(s, L, v),
           Initialized(s, t, d, h)
    PROVE  Joined(s, t, L, d, v, h)
<1> DEFINE val == s.validators[v]
           new == t.validators[v]
           last == Ended(s, v)
<1>1. /\ RefsFit(s, L, v) /\ SlashesFit(s, v, h) /\ RatiosGrow(s, v)
      /\ (\A e \in L : CountsFrom(s, e, h)) /\ Distinct(s, L)
  BY DEF Fits
<1>2. /\ last \in Periods /\ last \in Nat /\ val.period = last + 1
      /\ val.period \in Nat /\ val.period >= 1 /\ val.period - 1 = last
  BY <1>1, PeriodIsTyped
<1>3. /\ t.infos = [s.infos EXCEPT ![d] = [period |-> val.period - 1, stake |-> StakeOf(s, d),
                                           height |-> h]]
      /\ new.tokens = val.tokens
      /\ new.period = val.period
      /\ new.slashes = val.slashes
      /\ new.history[val.period - 1] = [ratio |-> val.history[val.period - 1].ratio,
                                        refs  |-> val.history[val.period - 1].refs + 1]
      /\ \A p \in Periods \ {val.period - 1} : new.history[p] = val.history[p]
      /\ t.panic = (s.panic \/ val.history[val.period - 1].refs > 2)
  BY Zenon DEF Initialized
<1>4. /\ Ended(t, v) = last
      /\ \A e \in L : e # d /\ e \in Delegations /\ t.infos[e] = s.infos[e]
      /\ t.infos[d] = [period |-> last, stake |-> StakeOf(s, d), height |-> h]
  <2>1. \A e \in L : e # d /\ e \in Delegations
    BY LinkIsTyped
  <2>2. DOMAIN s.infos = Delegations
    BY DEF StoreType
  <2>. QED
    BY <1>2, <1>3, <2>1, <2>2 DEF Ended
<1>5. /\ new.history[last].refs = 2
      /\ new.history[last].ratio = val.history[last].ratio
      /\ \A p \in Periods \ {last} : new.history[p] = val.history[p]
  BY <1>2, <1>3, SMTT(30) DEF FreshPeriod
<1>6. t.panic = s.panic
  <2>1. ~ (val.history[val.period - 1].refs > 2) /\ s.panic \in BOOLEAN
    BY <1>2, StoreIsTyped DEF FreshPeriod
  <2>. QED
    BY <1>3, <2>1
<1>7. val.history[last].refs = 1 /\ val.slashes[last].fraction = 0 /\ ~ CountedAt(s, L, last)
  BY DEF FreshPeriod
<1> HIDE DEF val, new, last
<1>8. RefsFit(t, L \cup {d}, v)
  <2>1. ASSUME NEW p \in Periods
        PROVE  new.history[p].refs = Bit(p = last) + Bit(CountedAt(t, L \cup {d}, p))
                                        + Bit(new.slashes[p].fraction > 0)
    <3>1. CountedAt(t, L \cup {d}, p) <=> CountedAt(s, L, p) \/ p = last
      BY <1>4 DEF CountedAt
    <3>2. CASE p = last
      <4>1. Bit(p = last) = 1 /\ Bit(CountedAt(t, L \cup {d}, p)) = 1
            /\ Bit(new.slashes[p].fraction > 0) = 0
        BY <1>3, <1>7, <3>1, <3>2 DEF Bit
      <4>. QED
        BY <1>5, <3>2, <4>1
    <3>3. CASE p # last
      <4>1. val.history[p].refs = Bit(p = last) + Bit(CountedAt(s, L, p))
                                     + Bit(val.slashes[p].fraction > 0)
        BY <1>1 DEF RefsFit, val, last
      <4>2. Bit(CountedAt(t, L \cup {d}, p)) = Bit(CountedAt(s, L, p))
        BY <3>1, <3>3 DEF Bit
      <4>. QED
        BY <1>3, <1>5, <3>3, <4>1, <4>2
    <3>. QED
      BY <3>2, <3>3
  <2>2. new.period >= 1
    BY <1>2, <1>3
  <2>. QED
    BY <1>4, <2>1, <2>2 DEF RefsFit, new
<1>9. SlashesFit(t, v, h)
  <2>1. t.validators[v].slashes = s.validators[v].slashes
        /\ t.validators[v].period = s.validators[v].period
    BY <1>3 DEF val, new
  <2>. QED
    BY <1>1, <2>1, Zenon DEF SlashesFit
<1>10. \A p \in Periods : /\ new.history[p].ratio = val.history[p].ratio
                          /\ new.history[p].refs > 0 => val.history[p].refs > 0
  BY <1>5, <1>7
<1>11. RatiosGrow(t, v)
  BY <1>1, <1>10 DEF RatiosGrow, val, new
<1>12. ASSUME NEW e \in L \cup {d}
       PROVE  CountsFrom(t, e, h)
  <2>1. CASE e \in L
    <3>1. CountsFrom(s, e, h) /\ ValidatorOf[e] = v
      BY <1>1, <2>1, LinkIsTyped
    <3>. QED
      BY <1>3, <1>4, <2>1, <3>1 DEF CountsFrom, val, new
  <2>2. CASE e = d
    <3>1. ASSUME NEW p \in Periods, p > last, new.slashes[p].fraction > 0
          PROVE  FALSE
      <4>1. p \in Nat
        BY EntryIsTyped
      <4>2. s.validators[v].period <= p
        BY <1>2, <3>1, <4>1 DEF val
      <4>3. val.slashes[p].fraction = 0
        BY <4>2, NothingAhead DEF val
      <4>. QED
        BY <1>3, <3>1, <4>3
    <3>2. last < new.period /\ new.slashes[last].fraction = 0
      BY <1>2, <1>3, <1>7
    <3>. QED
      BY <1>4, <2>2, <3>1, <3>2 DEF CountsFrom, new
  <2>. QED
    BY <2>1, <2>2
<1>13. Distinct(t, L \cup {d})
  <2>1. \A e \in L : s.infos[e].period # last
    BY <1>7 DEF CountedAt
  <2>. QED
    BY <1>1, <1>4, <2>1 DEF Distinct
<1>. QED
  BY <1>3, <1>4, <1>6, <1>8, <1>9, <1>10, <1>11, <1>12, <1>13 DEF val, new, last, Joined

\* The way of a delegation is the same in both stores, and its last ratio.
KeepsWay(s, t, d, h) ==
    /\ t.infos[d] = s.infos[d]
    /\ Way(t, d, h) = Way(s, d, h)
    /\ t.validators[ValidatorOf[d]].history[Way(s, d, h).from].ratio
          = s.validators[ValidatorOf[d]].history[Way(s, d, h).from].ratio

\* A delegation's way and what it earned, when an operation keeps its history.
LEMMA OwedKept ==
    ASSUME NEW s \in StoreType, NEW t \in StoreType,
           NEW v \in Validators, NEW L \in SUBSET DelegationsTo(v),
           NEW h \in Nat, Fits(s, L, v, h), NEW d \in L,
           CountsFrom(t, d, h), SlashesFit(t, v, h),
           Ended(t, v) = Ended(s, v),
           t.validators[v].slashes = s.validators[v].slashes,
           t.validators[v].tokens = s.validators[v].tokens,
           t.infos[d] = s.infos[d],
           \A p \in Periods :
              p = Ended(s, v) \/ p = s.infos[d].period \/ s.validators[v].slashes[p].fraction > 0
              => t.validators[v].history[p].ratio = s.validators[v].history[p].ratio
    PROVE  /\ KeepsWay(s, t, d, h)
           /\ WayFits(t, d, h)
           /\ Owed(t, d, h) = Owed(s, d, h)
<1> DEFINE w == Way(s, d, h)
           last == Ended(s, v)
<1>1. RefsFit(s, L, v) /\ SlashesFit(s, v, h) /\ CountsFrom(s, d, h) /\ WayFits(s, d, h)
  BY DEF Fits
<1>2. d \in Delegations /\ ValidatorOf[d] = v
  BY LinkIsTyped
<1>3. last \in Periods /\ last \in Nat /\ s.validators[v].period = last + 1
  BY <1>1, PeriodIsTyped
<1>4. s.infos[d].period \in Nat /\ s.infos[d].period <= last
  BY <1>1, <1>2, <1>3, InfoIsTyped DEF CountsFrom
<1>5. KeepsHistory(s, t, d, last)
  BY <1>2 DEF KeepsHistory
<1>6. Way(t, d, h) = w
  <2>1. Through(t, d, last, h) = Through(s, d, last, h)
    BY <1>1, <1>2, <1>3, <1>4, <1>5, WayKept
  <2>. QED
    BY <1>2, <2>1 DEF Way
<1>7. w.from \in Periods /\ (w.from = s.infos[d].period \/ s.validators[v].slashes[w.from].fraction > 0)
  BY OwedType
<1>8. /\ t.validators[v].history[last].ratio = s.validators[v].history[last].ratio
      /\ t.validators[v].history[w.from].ratio = s.validators[v].history[w.from].ratio
  <2> HIDE DEF w, last
  <2>1. last = Ended(s, v)
    BY DEF last
  <2>. QED
    BY <1>3, <1>7, <2>1
<1>9. StakeOf(t, d) = StakeOf(s, d)
  BY <1>2 DEF StakeOf
<1>10. WayFits(t, d, h)
  BY <1>1, <1>2, <1>6, <1>9 DEF WayFits
<1>11. Owed(t, d, h) = Owed(s, d, h)
  BY <1>2, <1>6, <1>8 DEF Owed
<1>12. KeepsWay(s, t, d, h)
  BY <1>2, <1>6, <1>8 DEF KeepsWay
<1>. QED
  BY <1>10, <1>11, <1>12

\* What the others earned, when one delegation joins them or leaves.
LEMMA AllOwedTakes ==
    ASSUME NEW s, NEW t, NEW v, NEW L \in SUBSET DelegationsTo(v), NEW d \in L, NEW h,
           \A e \in L : Owed(s, e, h) \in Int,
           \A e \in L \ {d} : Owed(t, e, h) = Owed(s, e, h)
    PROVE  AllOwed(s, L, h) = Owed(s, d, h) + AllOwed(t, L \ {d}, h)
<1> DEFINE f == [e \in L |-> Owed(s, e, h)]
           g == [e \in L \ {d} |-> Owed(t, e, h)]
<1>1. IsFiniteSet(L) /\ IsFiniteSet(L \ {d})
  BY LinksFinite, FS_RemoveElement
<1>2. (\A e \in L : f[e] \in Int) /\ (\A e \in L \ {d} : f[e] \in Int /\ g[e] = f[e])
  OBVIOUS
<1>3. f[d] = Owed(s, d, h)
  OBVIOUS
<1> HIDE DEF f, g
<1>4. SumFunctionOnSet(f, L) = f[d] + SumFunctionOnSet(f, L \ {d})
  BY <1>1, <1>2, SumTakes
<1>5. SumFunctionOnSet(g, L \ {d}) = SumFunctionOnSet(f, L \ {d})
  BY <1>1, <1>2, SumSame
<1>. QED
  BY <1>3, <1>4, <1>5 DEF AllOwed, f, g

\* A delegation starts to count from a fresh period, and the account of its
\* validator fits with one more.
LEMMA InitializeFits ==
    ASSUME NEW s \in StoreType, NEW t, NEW d \in Delegations,
           NEW v \in Validators, v = ValidatorOf[d],
           NEW L \in SUBSET DelegationsTo(v), d \notin L,
           NEW h \in Nat, Fits(s, L, v, h),
           FreshPeriod(s, L, v),
           t = InitializeDelegation(s, d, h)
    PROVE  /\ t \in StoreType
           /\ Initialized(s, t, d, h)
           /\ t.panic = s.panic
           /\ Fits(t, L \cup {d}, v, h)
           /\ \A e \in L : KeepsWay(s, t, e, h)
<1> DEFINE M == L \cup {d}
           last == Ended(s, v)
<1>1. s.validators[v].period >= 1
  BY DEF Fits, RefsFit
<1>2. Initialized(s, t, d, h)
  BY <1>1, InitializeFields
<1>3. t \in StoreType
  <2>1. s.validators[ValidatorOf[d]].history[Ended(s, ValidatorOf[d])].refs <= 1
    BY DEF FreshPeriod
  <2>. QED
    BY <1>1, <1>2, <2>1, InitializeType
<1>4. /\ RefsFit(t, M, v)
      /\ SlashesFit(t, v, h)
      /\ RatiosGrow(t, v)
      /\ \A e \in M : CountsFrom(t, e, h)
      /\ Distinct(t, M)
      /\ Ended(t, v) = Ended(s, v)
      /\ \A p \in Periods : t.validators[v].history[p].ratio = s.validators[v].history[p].ratio
      /\ t.validators[v].slashes = s.validators[v].slashes
      /\ t.validators[v].tokens = s.validators[v].tokens
      /\ \A e \in L : e # d /\ t.infos[e] = s.infos[e]
      /\ t.infos[d] = [period |-> last, stake |-> StakeOf(s, d), height |-> h]
      /\ t.panic = s.panic
  <2>1. Joined(s, t, L, d, v, h)
    BY <1>2, <1>3, InitializeShape
  <2>. QED
    BY <2>1 DEF Joined
<1>5. ASSUME NEW e \in L
      PROVE  /\ KeepsWay(s, t, e, h)
             /\ WayFits(t, e, h)
             /\ Owed(t, e, h) = Owed(s, e, h)
             /\ Owed(s, e, h) \in Nat
  <2>1. Owed(s, e, h) \in Nat
    BY OwedType
  <2>2. /\ CountsFrom(t, e, h)
        /\ t.infos[e] = s.infos[e]
        /\ \A p \in Periods :
              p = Ended(s, v) \/ p = s.infos[e].period \/ s.validators[v].slashes[p].fraction > 0
              => t.validators[v].history[p].ratio = s.validators[v].history[p].ratio
    BY <1>4
  <2>3. /\ SlashesFit(t, v, h)
        /\ Ended(t, v) = Ended(s, v)
        /\ t.validators[v].slashes = s.validators[v].slashes
        /\ t.validators[v].tokens = s.validators[v].tokens
    BY <1>4
  <2>4. KeepsWay(s, t, e, h) /\ WayFits(t, e, h) /\ Owed(t, e, h) = Owed(s, e, h)
    BY <1>3, <2>2, <2>3, OwedKept
  <2>. QED
    BY <2>1, <2>4
<1>6. last \in Periods /\ last \in Nat
  BY PeriodIsTyped DEF Fits
<1>7. Way(t, d, h) = [from |-> last, stake |-> StakeOf(s, d), rewards |-> 0]
  <2>1. t.infos[d].period = last /\ t.infos[d].stake = StakeOf(s, d)
    BY <1>4
  <2>2. t.infos[d].period \in Nat
    BY <1>6, <2>1
  <2>3. Through(t, d, t.infos[d].period, h)
           = [from |-> t.infos[d].period, stake |-> t.infos[d].stake, rewards |-> 0]
    BY <2>2, ThroughUnfolds
  <2>. QED
    BY <1>4, <2>1, <2>3 DEF Way
<1>8. StakeOf(s, d) \in Nat /\ StakeOf(t, d) = StakeOf(s, d)
  BY <1>4, StakeBound DEF StakeOf
<1> HIDE DEF last
<1>9. WayFits(t, d, h)
  <2>1. last \in last..last
    BY <1>6
  <2>2. Ended(t, ValidatorOf[d]) = last /\ t.infos[d].period = last
    BY <1>4 DEF last
  <2>. QED
    BY <1>7, <1>8, <2>1, <2>2 DEF WayFits
<1>10. Owed(t, d, h) = 0
  <2> DEFINE a == t.validators[v].history[last].ratio
  <2>1. Ended(t, ValidatorOf[d]) = last
    BY <1>4 DEF last
  <2>2. Owed(t, d, h) = One * 0 + (a - a) * StakeOf(s, d)
    BY <1>7, <2>1 DEF Owed
  <2>3. a \in Nat
    BY <1>3, <1>6, EntryIsTyped
  <2> HIDE DEF a
  <2>. QED
    BY <1>8, <2>2, <2>3, OneAssumption
<1>11. AllOwed(t, M, h) = AllOwed(s, L, h)
  <2>1. M \in SUBSET DelegationsTo(v) /\ d \in M /\ M \ {d} = L
    BY InfoIsTyped
  <2>2. \A e \in M : Owed(t, e, h) \in Int
    BY <1>5, <1>10
  <2>3. \A e \in M \ {d} : Owed(s, e, h) = Owed(t, e, h)
    BY <1>5, <2>1
  <2>4. AllOwed(t, M, h) = Owed(t, d, h) + AllOwed(s, M \ {d}, h)
    <3> HIDE DEF M
    <3>. QED
      BY <2>1, <2>2, <2>3, AllOwedTakes
  <2>5. AllOwed(s, L, h) \in Nat
    BY CoverType
  <2>6. AllOwed(t, M, h) = 0 + AllOwed(s, L, h)
    <3> HIDE DEF M
    <3>. QED
      BY <1>10, <2>1, <2>4, Zenon
  <2>. QED
    BY <2>5, <2>6
<1>12. Covered(t, M, v, h)
  <2>1. /\ t.validators[v].commission = s.validators[v].commission
        /\ t.validators[v].current = s.validators[v].current
        /\ t.validators[v].outstanding = s.validators[v].outstanding
    BY <1>2, Zenon DEF Initialized
  <2>2. One * (s.validators[v].commission + s.validators[v].current) + AllOwed(s, L, h)
           <= One * s.validators[v].outstanding
    BY CoverType
  <2>. QED
    BY <1>11, <2>1, <2>2 DEF Covered, AllOwed
<1>13. \A e \in M : WayFits(t, e, h)
  BY <1>5, <1>9
<1>14. Fits(t, M, v, h)
  <2> HIDE DEF M
  <2>. QED
    BY <1>4, <1>12, <1>13 DEF Fits
<1>. QED
  BY <1>2, <1>3, <1>4, <1>5, <1>14

-----------------------------------------------------------------------------
(* A delegation is paid.                                                   *)

\* What a delegation earned up to the last period, in units of 1/One.
Due(s, d, h) ==
    LET history == s.validators[ValidatorOf[d]].history
        way     == Way(s, d, h)
    IN  IF s.infos[d].height = h THEN 0
        ELSE way.rewards
               + ((history[Ended(s, ValidatorOf[d])].ratio - history[way.from].ratio)
                    * way.stake) \div One

\* The check of a stake never panics, and nobody is paid more than he earned.
LEMMA RewardsAreDue ==
    ASSUME NEW s \in StoreType, NEW v \in Validators, NEW L \in SUBSET DelegationsTo(v),
           NEW h \in Nat, Fits(s, L, v, h), NEW d \in L
    PROVE  /\ RewardsOf(s, d, Ended(s, v), h) = [rewards |-> Due(s, d, h), panic |-> FALSE]
           /\ Due(s, d, h) \in Nat
           /\ One * Due(s, d, h) <= Owed(s, d, h)
<1> DEFINE w == Way(s, d, h)
           last == Ended(s, v)
           val == s.validators[v]
           diff == val.history[last].ratio - val.history[w.from].ratio
           q == (diff * w.stake) \div One
<1>1. d \in Delegations /\ ValidatorOf[d] = v
  BY LinkIsTyped
<1>2. /\ w.from \in Periods
      /\ w.stake \in Nat
      /\ w.stake <= StakeOf(s, d)
      /\ w.rewards \in Nat
      /\ val.history[w.from].ratio <= val.history[last].ratio
  BY OwedType
<1>3. last \in Periods
  BY PeriodIsTyped DEF Fits
<1>4. diff \in Nat
  <2>1. val.history[w.from].ratio \in Nat /\ val.history[last].ratio \in Nat
    BY <1>2, <1>3, EntryIsTyped
  <2>. QED
    BY <1>2, <2>1
<1>5. CurrentStake(s, d) \in Nat /\ w.stake <= CurrentStake(s, d)
  <2> HIDE DEF w
  <2>. QED
    BY <1>1, <1>2, CurrentStakeBound, StakeBound
<1>6. w = Through(s, d, last, h)
  BY <1>1 DEF Way
<1>7. q \in Nat /\ One * q <= diff * w.stake
  <2> HIDE DEF w, diff
  <2>1. diff * w.stake \in Nat /\ One \in Nat \ {0}
    BY <1>2, <1>4, OneAssumption
  <2>. QED
    BY <2>1, Quotient
<1>8. RewardsOf(s, d, last, h) = [rewards |-> Due(s, d, h), panic |-> FALSE]
  <2>1. Earned(s, v, w.from, last, w.stake) = q
    BY DEF Earned
  <2>2. ~ (w.stake > CurrentStake(s, d) + 3)
    BY <1>2, <1>5
  <2>3. Due(s, d, h) = IF s.infos[d].height = h THEN 0 ELSE w.rewards + q
    BY <1>1 DEF Due
  <2>4. (w.stake > CurrentStake(s, d) + 3) = FALSE
    BY <2>2
  <2>5. (IF w.stake <= CurrentStake(s, d) THEN w.stake ELSE CurrentStake(s, d)) = w.stake
    BY <1>5
  <2>6. RewardsOf(s, d, last, h) =
           IF s.infos[d].height = h THEN [rewards |-> 0, panic |-> FALSE]
           ELSE [rewards |-> w.rewards + Earned(s, v, w.from, last, w.stake),
                 panic   |-> w.stake > CurrentStake(s, d) + 3]
    <3> HIDE DEF w
    <3>. QED
      BY <1>1, <1>6, <2>5, Zenon DEF RewardsOf
  <2> HIDE DEF w, q, last
  <2>. QED
    BY <2>1, <2>3, <2>4, <2>6, Zenon
<1>9. Due(s, d, h) = 0 \/ Due(s, d, h) = w.rewards + q
  BY <1>1 DEF Due
<1>10. Owed(s, d, h) = One * w.rewards + diff * w.stake /\ Owed(s, d, h) \in Nat
  BY <1>1, OwedType DEF Owed
<1> HIDE DEF w, q, diff
<1>11. One * (w.rewards + q) = One * w.rewards + One * q
       /\ One * w.rewards \in Nat /\ One * q \in Nat /\ diff * w.stake \in Nat /\ One * 0 = 0
  BY <1>2, <1>4, <1>7, OneAssumption
<1>12. Due(s, d, h) \in Nat
  BY <1>2, <1>7, <1>9
<1>13. One * Due(s, d, h) <= Owed(s, d, h)
  <2>1. CASE Due(s, d, h) = 0
    BY <1>10, <1>11, <2>1
  <2>2. CASE Due(s, d, h) = w.rewards + q
    BY <1>7, <1>10, <1>11, <2>2
  <2>. QED
    BY <1>9, <2>1, <2>2
<1>. QED
  BY <1>8, <1>12, <1>13

\* What is due to one is outstanding.
LEMMA DueIsOutstanding ==
    ASSUME NEW s \in StoreType, NEW v \in Validators, NEW L \in SUBSET DelegationsTo(v),
           NEW h \in Nat, Fits(s, L, v, h), NEW d \in L
    PROVE  /\ AllOwed(s, L, h) = Owed(s, d, h) + AllOwed(s, L \ {d}, h)
           /\ AllOwed(s, L \ {d}, h) \in Nat
           /\ Due(s, d, h) <= s.validators[v].outstanding
<1>1. \A e \in L : Owed(s, e, h) \in Nat
  BY OwedType
<1>2. AllOwed(s, L, h) = Owed(s, d, h) + AllOwed(s, L \ {d}, h)
  <2>1. \A e \in L : Owed(s, e, h) \in Int
    BY <1>1
  <2>. QED
    BY <2>1, AllOwedTakes
<1>3. AllOwed(s, L \ {d}, h) \in Nat
  <2> DEFINE g == [e \in L \ {d} |-> Owed(s, e, h)]
  <2>1. IsFiniteSet(L \ {d}) /\ \A e \in L \ {d} : g[e] \in Nat
    BY <1>1, LinksFinite, FS_RemoveElement
  <2> HIDE DEF g
  <2>2. SumFunctionOnSet(g, L \ {d}) \in Nat
    BY <2>1, SumNat
  <2>. QED
    BY <2>2 DEF AllOwed, g
<1>4. /\ s.validators[v].commission \in Nat /\ s.validators[v].current \in Nat
      /\ s.validators[v].outstanding \in Nat
      /\ One * (s.validators[v].commission + s.validators[v].current) + AllOwed(s, L, h)
            <= One * s.validators[v].outstanding
  BY CoverType
<1>5. Due(s, d, h) \in Nat /\ One * Due(s, d, h) <= Owed(s, d, h) /\ Owed(s, d, h) \in Nat
  BY <1>1, RewardsAreDue
<1>6. One * (s.validators[v].commission + s.validators[v].current) \in Nat
  BY <1>4, OneAssumption
<1>7. One * Due(s, d, h) <= One * s.validators[v].outstanding
  <2>1. One * Due(s, d, h) \in Nat /\ One * s.validators[v].outstanding \in Nat
    BY <1>4, <1>5, OneAssumption
  <2>. QED
    BY <1>2, <1>3, <1>4, <1>5, <1>6, <2>1
<1>8. Due(s, d, h) <= s.validators[v].outstanding
  BY <1>4, <1>5, <1>7, OneAssumption, Cancel
<1>. QED
  BY <1>2, <1>3, <1>8

-----------------------------------------------------------------------------
(* The module's account.                                                   *)

\* All that is outstanding.
AllOutstanding(s) ==
    SumFunctionOnSet([v \in Validators |-> s.validators[v].outstanding], Validators)

\* It is a natural, and one validator's part is within it.
LEMMA OutstandingType ==
    ASSUME NEW s \in StoreType, NEW v \in Validators
    PROVE  /\ AllOutstanding(s) \in Nat
           /\ s.validators[v].outstanding \in Nat
           /\ s.validators[v].outstanding <= AllOutstanding(s)
<1> DEFINE f == [w \in Validators |-> s.validators[w].outstanding]
<1>1. ASSUME NEW w \in Validators
      PROVE  f[w] \in Nat
  <2>1. RecordTyped(s.validators[w])
    BY StoreIsTyped
  <2>. QED
    BY <2>1, Zenon DEF RecordTyped
<1>2. IsFiniteSet(Validators) /\ IsFiniteSet(Validators \ {v})
  BY DistributionAssumption, FS_RemoveElement
<1>3. f[v] = s.validators[v].outstanding
  OBVIOUS
<1> HIDE DEF f
<1>4. SumFunctionOnSet(f, Validators) \in Nat /\ SumFunctionOnSet(f, Validators \ {v}) \in Nat
  BY <1>1, <1>2, SumNat
<1>5. SumFunctionOnSet(f, Validators) = f[v] + SumFunctionOnSet(f, Validators \ {v})
  <2>1. \A w \in Validators : f[w] \in Int
    BY <1>1
  <2>. QED
    BY <1>2, <2>1, SumTakes
<1>6. AllOutstanding(s) = SumFunctionOnSet(f, Validators)
  BY DEF AllOutstanding, f
<1>. QED
  BY <1>1, <1>3, <1>4, <1>5, <1>6

\* It changes by what one validator's part does.
LEMMA OutstandingChanges ==
    ASSUME NEW s \in StoreType, NEW t \in StoreType, NEW v \in Validators,
           \A w \in Validators \ {v} : t.validators[w].outstanding = s.validators[w].outstanding
    PROVE  AllOutstanding(t)
              = AllOutstanding(s) + t.validators[v].outstanding - s.validators[v].outstanding
<1> DEFINE f == [w \in Validators |-> s.validators[w].outstanding]
           g == [w \in Validators |-> t.validators[w].outstanding]
<1>1. \A w \in Validators : f[w] \in Int /\ g[w] \in Int
  BY OutstandingType
<1>2. \A w \in Validators \ {v} : g[w] = f[w]
  OBVIOUS
<1>3. f[v] = s.validators[v].outstanding /\ g[v] = t.validators[v].outstanding
  OBVIOUS
<1>4. IsFiniteSet(Validators)
  BY DistributionAssumption
<1> HIDE DEF f, g
<1>5. SumFunctionOnSet(g, Validators) = SumFunctionOnSet(f, Validators) + g[v] - f[v]
  BY <1>1, <1>2, <1>4, SumChanges
<1>. QED
  BY <1>3, <1>5 DEF AllOutstanding, f, g

\* Account in plain terms.
LEMMA AccountIs ==
    ASSUME NEW s
    PROVE  Account(s) <=> s.balance * One = s.community + AllOutstanding(s)
  BY DEF Account, AllOutstanding, DecFromInt

\* What a validator's account and the community's gain, the module's account gains.
LEMMA AccountKept ==
    ASSUME NEW s \in StoreType, NEW t \in StoreType, NEW v \in Validators,
           \A w \in Validators \ {v} : t.validators[w].outstanding = s.validators[w].outstanding,
           t.balance * One - t.community - t.validators[v].outstanding
              = s.balance * One - s.community - s.validators[v].outstanding,
           Account(s)
    PROVE  Account(t)
<1>1. AllOutstanding(t)
         = AllOutstanding(s) + t.validators[v].outstanding - s.validators[v].outstanding
  BY OutstandingChanges
<1>2. s.balance * One = s.community + AllOutstanding(s)
  BY AccountIs
<1>3. /\ s.balance \in Nat /\ s.community \in Nat /\ t.balance \in Nat /\ t.community \in Nat
      /\ AllOutstanding(s) \in Nat /\ AllOutstanding(t) \in Nat
      /\ s.validators[v].outstanding \in Nat /\ t.validators[v].outstanding \in Nat
  BY StoreIsTyped, OutstandingType
<1>4. s.balance * One \in Int /\ t.balance * One \in Int
  BY <1>3, OneAssumption
<1>5. t.balance * One = t.community + AllOutstanding(t)
  BY <1>1, <1>2, <1>3, <1>4
<1>. QED
  BY <1>5, AccountIs

\* A delegation to v is paid an amount and no longer counts.
PaidOut(s, t, d, v, amount) ==
    LET old   == s.validators[v]
        new   == t.validators[v]
        start == s.infos[d].period
        coins == TruncateInt(amount)
    IN  /\ t.infos = s.infos
        /\ t.wallets = [s.wallets EXCEPT ![d] = s.wallets[d] + coins]
        /\ t.balance = s.balance - coins
        /\ t.community = s.community + amount - DecFromInt(coins)
        /\ DOMAIN t.validators = Validators
        /\ \A w \in Validators \ {v} : t.validators[w] = s.validators[w]
        /\ new.tokens = old.tokens
        /\ new.outstanding = old.outstanding - amount
        /\ new.commission = old.commission
        /\ new.current = old.current
        /\ new.period = old.period
        /\ new.slashes = old.slashes
        /\ DOMAIN new.history = Periods
        /\ new.history[start] = Dereferenced(old.history[start])
        /\ \A p \in Periods \ {start} : new.history[p] = old.history[p]
        /\ t.panic = s.panic

\* A payment of what is due changes that, and every amount keeps its type.
LEMMA PaidFields ==
    ASSUME NEW s \in StoreType, NEW v \in Validators, NEW L \in SUBSET DelegationsTo(v),
           NEW h \in Nat, Fits(s, L, v, h), Account(s), NEW d \in L,
           NEW calc, calc = RewardsOf(s, d, Ended(s, v), h),
           NEW t, t = Paid(s, d, calc)
    PROVE  /\ t \in StoreType
           /\ PaidOut(s, t, d, v, Due(s, d, h))
<1> DEFINE val == s.validators[v]
           start == s.infos[d].period
           owed == Due(s, d, h)
           coins == TruncateInt(owed)
           new == [val EXCEPT !.outstanding = val.outstanding - owed,
                              !.history[start] = Dereferenced(@)]
           wallets == [s.wallets EXCEPT ![d] = s.wallets[d] + coins]
           vals == [s.validators EXCEPT ![v] = new]
           community == s.community + owed - DecFromInt(coins)
<1>1. d \in Delegations /\ ValidatorOf[d] = v /\ start \in Periods
  BY LinkIsTyped, InfoIsTyped
<1>2. calc = [rewards |-> owed, panic |-> FALSE] /\ owed \in Nat /\ owed <= val.outstanding
      /\ val.outstanding \in Nat
  BY RewardsAreDue, DueIsOutstanding, OutstandingType
<1>3. /\ coins \in Nat
      /\ owed - coins * One \in Nat
  <2>1. coins \in Nat /\ owed - coins * One \in 0..(One - 1)
    BY <1>2, TruncateIntWhole DEF DecFromInt
  <2>. QED
    BY <2>1, OneAssumption
<1>4. val.history[start].refs # 0
  <2>1. CountedAt(s, L, start) /\ RefsFit(s, L, v)
    BY DEF CountedAt, Fits
  <2>2. val.history[start].refs > 0
    BY <1>1, <2>1, Referenced
  <2>. QED
    BY <1>1, <2>2, EntryIsTyped
<1>5. s.panic \in BOOLEAN /\ s.community \in Nat /\ s.balance \in Nat
  BY StoreIsTyped
<1>6. s.balance - coins \in Nat
  <2>1. val.outstanding <= AllOutstanding(s) /\ AllOutstanding(s) \in Nat
    BY OutstandingType
  <2>2. s.balance * One = s.community + AllOutstanding(s)
    BY AccountIs
  <2> HIDE DEF coins, owed, val
  <2>3. coins * One <= s.balance * One
    <3>1. coins * One \in Int /\ s.balance * One \in Int
      BY <1>3, <1>5, OneAssumption
    <3>. QED
      BY <1>2, <1>3, <1>5, <2>1, <2>2, <3>1
  <2>4. One * coins <= One * s.balance
    BY <1>3, <1>5, <2>3, OneAssumption
  <2>5. coins <= s.balance
    BY <1>3, <1>5, <2>4, OneAssumption, Cancel
  <2>. QED
    BY <1>3, <1>5, <2>5
<1>7. (IF calc.rewards <= val.outstanding THEN calc.rewards ELSE val.outstanding) = owed
      /\ calc.panic = FALSE
  BY <1>2
<1>8. t = [s EXCEPT !.wallets = wallets,
                    !.balance = s.balance - coins,
                    !.community = community,
                    !.validators = vals,
                    !.panic = s.panic]
  <2>1. t = [s EXCEPT
               !.wallets[d] = @ + coins,
               !.balance = @ - coins,
               !.community = @ + owed - DecFromInt(coins),
               !.validators[v] = new,
               !.panic = @ \/ calc.panic \/ val.history[start].refs = 0]
    <3> HIDE DEF owed
    <3>. QED
      BY <1>1, <1>7, Zenon DEF Paid
  <2>2. (s.panic \/ calc.panic \/ val.history[start].refs = 0) = s.panic
    BY <1>4, <1>5, <1>7
  <2>3. v \in DOMAIN s.validators /\ d \in DOMAIN s.wallets
    BY <1>1, StoreIsTyped DEF Owners
  <2> DEFINE bad == s.panic \/ calc.panic \/ val.history[start].refs = 0
  <2>5. t = [s EXCEPT
               !.wallets = wallets,
               !.balance = s.balance - coins,
               !.community = community,
               !.validators[v] = new,
               !.panic = bad]
    <3> HIDE DEF coins, owed, bad, new
    <3>1. t = [s EXCEPT
               !.wallets[d] = @ + coins,
               !.balance = @ - coins,
               !.community = @ + owed - DecFromInt(coins),
               !.validators[v] = new,
               !.panic = bad]
      BY <2>1, Zenon DEF bad
    <3>. QED
      BY <2>3, <3>1
  <2>6. bad = s.panic
    BY <2>2
  <2> HIDE DEF bad, coins, owed, community, wallets, new
  <2>. QED
    BY <2>3, <2>5, <2>6
<1>9. Dereferenced(val.history[start]) \in [ratio : Nat, refs : 0..2]
  <2>1. val.history[start] \in [ratio : Nat, refs : 0..2]
    BY <1>1 DEF StoreType, ValidatorRecord
  <2> HIDE DEF val, start
  <2>. QED
    BY <2>1 DEF Dereferenced, Absent
<1>10. val \in ValidatorRecord
  BY DEF StoreType
<1>11. new \in ValidatorRecord
  <2>1. val.outstanding - owed \in Nat
    BY <1>2
  <2> HIDE DEF val, owed, start
  <2>. QED
    BY <1>1, <1>9, <1>10, <2>1 DEF ValidatorRecord
<1>12. t \in StoreType
  <2>1. vals \in [Validators -> ValidatorRecord]
    <3> HIDE DEF new
    <3>. QED
      BY <1>11 DEF StoreType
  <2>2. wallets \in [Owners -> Nat]
    <3>1. s.wallets \in [Owners -> Nat] /\ d \in Owners
      BY <1>1 DEF StoreType, Owners
    <3> HIDE DEF coins
    <3>. QED
      BY <1>3, <3>1
  <2>3. community \in Nat
    <3> HIDE DEF coins, owed
    <3>. QED
      BY <1>2, <1>3, <1>5, OneAssumption DEF DecFromInt
  <2> HIDE DEF vals, wallets, community, coins
  <2>. QED
    BY <1>5, <1>6, <1>8, <2>1, <2>2, <2>3 DEF StoreType
<1>13. PaidOut(s, t, d, v, owed)
  <2>1. /\ t.infos = s.infos
        /\ t.wallets = wallets
        /\ t.balance = s.balance - coins
        /\ t.community = community
        /\ t.validators = vals
        /\ t.panic = s.panic
    <3> HIDE DEF vals, wallets, community, coins
    <3>. QED
      BY <1>8 DEF StoreType
  <2>2. /\ DOMAIN t.validators = Validators
        /\ \A w \in Validators \ {v} : t.validators[w] = s.validators[w]
        /\ t.validators[v] = new
    <3> HIDE DEF new
    <3>. QED
      BY <2>1 DEF StoreType
  <2> DEFINE kept == Dereferenced(val.history[start])
  <2>3. /\ new.tokens = val.tokens
        /\ new.outstanding = val.outstanding - owed
        /\ new.commission = val.commission
        /\ new.current = val.current
        /\ new.period = val.period
        /\ new.slashes = val.slashes
        /\ new.history = [val.history EXCEPT ![start] = kept]
    <3> HIDE DEF val, owed, start
    <3>. QED
      BY <1>10 DEF ValidatorRecord
  <2>4. DOMAIN val.history = Periods
    BY <1>10 DEF ValidatorRecord
  <2>5. /\ DOMAIN new.history = Periods
        /\ new.history[start] = kept
        /\ \A p \in Periods \ {start} : new.history[p] = val.history[p]
    <3> HIDE DEF new, kept, val, start
    <3>. QED
      BY <1>1, <2>3, <2>4
  <2> HIDE DEF new, kept, owed, coins
  <2>. QED
    BY <2>1, <2>2, <2>3, <2>5 DEF PaidOut, kept, coins
<1>. QED
  BY <1>12, <1>13

\* A delegation is paid after its period ended, and the account of its validator
\* fits without it.
LEMMA PaidFits ==
    ASSUME NEW s \in StoreType, NEW t \in StoreType,
           NEW v \in Validators, NEW L \in SUBSET DelegationsTo(v),
           NEW h \in Nat, Fits(s, L, v, h), FreshPeriod(s, L, v), NEW d \in L,
           PaidOut(s, t, d, v, Due(s, d, h))
    PROVE  /\ Fits(t, L \ {d}, v, h)
           /\ FreshPeriod(t, L \ {d}, v)
           /\ Account(s) => Account(t)
           /\ \A e \in L \ {d} : KeepsWay(s, t, e, h)
<1> DEFINE val == s.validators[v]
           new == t.validators[v]
           last == Ended(s, v)
           start == s.infos[d].period
           M == L \ {d}
           amount == Due(s, d, h)
           coins == TruncateInt(amount)
<1>1. /\ RefsFit(s, L, v) /\ SlashesFit(s, v, h) /\ RatiosGrow(s, v)
      /\ (\A e \in L : CountsFrom(s, e, h)) /\ Distinct(s, L)
  BY DEF Fits
<1>2. /\ last \in Periods /\ last \in Nat /\ val.period = last + 1
      /\ val.period \in Nat /\ val.period >= 1 /\ val.period - 1 = last
  BY <1>1, PeriodIsTyped
<1>3. /\ t.infos = s.infos
      /\ t.balance = s.balance - coins
      /\ t.community = s.community + amount - DecFromInt(coins)
      /\ \A w \in Validators \ {v} : t.validators[w] = s.validators[w]
      /\ new.tokens = val.tokens
      /\ new.outstanding = val.outstanding - amount
      /\ new.commission = val.commission
      /\ new.current = val.current
      /\ new.period = val.period
      /\ new.slashes = val.slashes
      /\ new.history[start] = Dereferenced(val.history[start])
      /\ \A p \in Periods \ {start} : new.history[p] = val.history[p]
  BY Zenon DEF PaidOut
<1>4. d \in Delegations /\ ValidatorOf[d] = v /\ start \in Nat /\ start \in Periods
  BY LinkIsTyped, InfoIsTyped
<1>5. val.history[last].refs = 1 /\ val.slashes[last].fraction = 0 /\ ~ CountedAt(s, L, last)
  BY DEF FreshPeriod
<1>6. start # last
  BY <1>5 DEF CountedAt
<1>7. val.slashes[start].fraction = 0
  BY <1>1, <1>4 DEF CountsFrom
<1>8. \A e \in M : e \in L /\ e # d /\ s.infos[e].period # start
  BY <1>1 DEF Distinct
<1>9. Ended(t, v) = last
  BY <1>3 DEF Ended
<1> HIDE DEF val, new, last, start, amount, coins
<1>10. val.history[start].refs = 1 /\ new.history[start].refs = 0
  <2>1. val.history[start].refs = Bit(start = last) + Bit(CountedAt(s, L, start))
                                     + Bit(val.slashes[start].fraction > 0)
    BY <1>1, <1>4 DEF RefsFit, val, last
  <2>2. CountedAt(s, L, start)
    BY DEF CountedAt, start
  <2>3. /\ Bit(start = last) = 0 /\ Bit(CountedAt(s, L, start)) = 1
        /\ Bit(val.slashes[start].fraction > 0) = 0
    BY <1>6, <1>7, <2>2 DEF Bit
  <2>4. val.history[start].refs = 1
    BY <2>1, <2>3
  <2>. QED
    BY <1>3, <2>4 DEF Dereferenced, Absent
<1>11. RefsFit(t, M, v)
  <2>1. ASSUME NEW p \in Periods
        PROVE  new.history[p].refs = Bit(p = last) + Bit(CountedAt(t, M, p))
                                        + Bit(new.slashes[p].fraction > 0)
    <3>1. CASE p = start
      <4>1. ~ CountedAt(t, M, p)
        BY <1>3, <1>8, <3>1 DEF CountedAt
      <4>2. /\ Bit(p = last) = 0 /\ Bit(CountedAt(t, M, p)) = 0
            /\ Bit(new.slashes[p].fraction > 0) = 0
        BY <1>3, <1>6, <1>7, <3>1, <4>1 DEF Bit
      <4>. QED
        BY <1>10, <3>1, <4>2
    <3>2. CASE p # start
      <4>1. CountedAt(t, M, p) <=> CountedAt(s, L, p)
        <5>1. s.infos[d].period # p
          BY <3>2 DEF start
        <5>. QED
          BY <1>3, <5>1 DEF CountedAt
      <4>2. Bit(CountedAt(t, M, p)) = Bit(CountedAt(s, L, p))
        BY <4>1 DEF Bit
      <4>3. val.history[p].refs = Bit(p = last) + Bit(CountedAt(s, L, p))
                                     + Bit(val.slashes[p].fraction > 0)
        BY <1>1 DEF RefsFit, val, last
      <4>. QED
        BY <1>3, <3>2, <4>2, <4>3
    <3>. QED
      BY <3>1, <3>2
  <2>2. new.period >= 1
    BY <1>2, <1>3
  <2>. QED
    BY <1>9, <2>1, <2>2 DEF RefsFit, new
<1>12. SlashesFit(t, v, h)
  <2>1. t.validators[v].slashes = s.validators[v].slashes
        /\ t.validators[v].period = s.validators[v].period
    BY <1>3 DEF val, new
  <2>. QED
    BY <1>1, <2>1, Zenon DEF SlashesFit
<1>13. RatiosGrow(t, v)
  <2>1. \A p \in Periods : new.history[p].refs > 0 => new.history[p] = val.history[p]
    BY <1>3, <1>10
  <2>. QED
    BY <1>1, <2>1 DEF RatiosGrow, val, new
<1>14. ASSUME NEW e \in M
       PROVE  /\ CountsFrom(t, e, h)
              /\ KeepsWay(s, t, e, h)
              /\ WayFits(t, e, h)
              /\ Owed(t, e, h) = Owed(s, e, h)
  <2>1. e \in L /\ ValidatorOf[e] = v /\ CountsFrom(s, e, h)
    BY <1>1, LinkIsTyped
  <2>2. CountsFrom(t, e, h)
    <3>1. t.validators[v].slashes = s.validators[v].slashes
          /\ t.validators[v].period = s.validators[v].period
          /\ t.infos[e] = s.infos[e]
      BY <1>3 DEF val, new
    <3>. QED
      BY <2>1, <3>1, Zenon DEF CountsFrom
  <2>3. ASSUME NEW p \in Periods,
               p = last \/ p = s.infos[e].period \/ val.slashes[p].fraction > 0
        PROVE  new.history[p].ratio = val.history[p].ratio
    <3>1. p # start
      BY <1>6, <1>7, <1>8, <2>3
    <3>. QED
      BY <1>3, <3>1
  <2>4. /\ t.validators[v].slashes = s.validators[v].slashes
        /\ t.validators[v].tokens = s.validators[v].tokens
        /\ t.infos[e] = s.infos[e]
        /\ Ended(t, v) = Ended(s, v)
        /\ \A p \in Periods :
              p = Ended(s, v) \/ p = s.infos[e].period \/ s.validators[v].slashes[p].fraction > 0
              => t.validators[v].history[p].ratio = s.validators[v].history[p].ratio
    BY <1>3, <1>9, <2>3 DEF val, new, last
  <2>. QED
    BY <1>12, <2>1, <2>2, <2>4, OwedKept
<1>15. Distinct(t, M)
  BY <1>1, <1>3 DEF Distinct
<1>16. Covered(t, M, v, h)
  <2>1. AllOwed(t, M, h) = AllOwed(s, M, h)
    <3>1. [e \in M |-> Owed(t, e, h)] = [e \in M |-> Owed(s, e, h)]
      BY <1>14
    <3>. QED
      BY <3>1 DEF AllOwed
  <2>2. /\ AllOwed(s, L, h) = Owed(s, d, h) + AllOwed(s, M, h)
        /\ AllOwed(s, M, h) \in Nat
        /\ Owed(s, d, h) \in Nat
        /\ amount \in Nat
        /\ One * amount <= Owed(s, d, h)
    <3>1. /\ AllOwed(s, L, h) = Owed(s, d, h) + AllOwed(s, L \ {d}, h)
          /\ AllOwed(s, L \ {d}, h) \in Nat
      BY DueIsOutstanding
    <3>2. Owed(s, d, h) \in Nat
      BY OwedType
    <3>3. Due(s, d, h) \in Nat /\ One * Due(s, d, h) <= Owed(s, d, h)
      BY RewardsAreDue
    <3>. QED
      BY <3>1, <3>2, <3>3 DEF amount
  <2>3. /\ val.commission \in Nat /\ val.current \in Nat /\ val.outstanding \in Nat
        /\ One * (val.commission + val.current) + AllOwed(s, L, h) <= One * val.outstanding
    BY CoverType DEF val
  <2>4. /\ One * (val.outstanding - amount) = One * val.outstanding - One * amount
        /\ One * (val.commission + val.current) \in Int
        /\ One * val.outstanding \in Int /\ One * amount \in Int
    BY <2>2, <2>3, OneAssumption
  <2>5. One * (val.commission + val.current) + AllOwed(t, M, h)
           <= One * (val.outstanding - amount)
    <3> HIDE DEF M
    <3>. QED
      BY <2>1, <2>2, <2>3, <2>4
  <2>. QED
    BY <1>3, <2>5 DEF Covered, AllOwed, val, new
<1>17. Fits(t, M, v, h)
  <2> HIDE DEF M
  <2>. QED
    BY <1>11, <1>12, <1>13, <1>14, <1>15, <1>16 DEF Fits
<1>18. FreshPeriod(t, M, v)
  <2>1. ~ CountedAt(t, M, last)
    BY <1>3, <1>5 DEF CountedAt
  <2>2. new.history[last].refs = 1 /\ new.slashes[last].fraction = 0
    BY <1>2, <1>3, <1>5, <1>6
  <2>. QED
    BY <1>9, <2>1, <2>2 DEF FreshPeriod, new
<1>19. Account(s) => Account(t)
  <2>1. amount \in Nat /\ coins \in Nat
    BY RewardsAreDue, TruncateIntWhole DEF amount, coins
  <2>2. s.balance \in Nat /\ s.community \in Nat /\ val.outstanding \in Nat
    BY StoreIsTyped, CoverType DEF val
  <2>3. (s.balance - coins) * One = s.balance * One - coins * One
        /\ s.balance * One \in Int /\ coins * One \in Int
    BY <2>1, <2>2, OneAssumption
  <2>4. t.balance * One - t.community - new.outstanding
           = s.balance * One - s.community - val.outstanding
    BY <1>3, <2>1, <2>2, <2>3 DEF DecFromInt
  <2>5. \A w \in Validators \ {v} : t.validators[w].outstanding = s.validators[w].outstanding
    BY <1>3
  <2>. QED
    BY <2>4, <2>5, AccountKept DEF val, new
<1>. QED
  BY <1>14, <1>17, <1>18, <1>19

-----------------------------------------------------------------------------
(* A delegation withdraws its rewards.                                     *)

\* What a delegation would be due if the period ended.
NextDue(s, d, h) ==
    LET val == s.validators[ValidatorOf[d]]
        way == Way(s, d, h)
    IN  IF s.infos[d].height = h THEN 0
        ELSE way.rewards
               + (((val.history[Ended(s, ValidatorOf[d])].ratio + EarnedInPeriod(val))
                     - val.history[way.from].ratio) * way.stake) \div One

\* A query computes that.
LEMMA PendingIs ==
    ASSUME NEW s \in StoreType, NEW v \in Validators, NEW L \in SUBSET DelegationsTo(v),
           NEW h \in Nat, Fits(s, L, v, h), s.validators[v].period < MaxPeriod, NEW d \in L
    PROVE  /\ Due(IncrementPeriod(s, v), d, h) = NextDue(s, d, h)
           /\ Pending(s, d, h) = TruncateInt(NextDue(s, d, h))
           /\ KeepsWay(s, IncrementPeriod(s, v), d, h)
<1> DEFINE t == IncrementPeriod(s, v)
           w == Way(s, d, h)
<1>1. d \in Delegations /\ ValidatorOf[d] = v
  BY LinkIsTyped
<1>2. t \in StoreType /\ Incremented(s, t, v) /\ Fits(t, L, v, h)
  BY IncrementFits
<1> HIDE DEF t
<1>3. /\ Way(t, d, h) = w
      /\ t.validators[v].history[w.from].ratio = s.validators[v].history[w.from].ratio
  BY <1>2, IncrementWays
<1>4. t.validators[v].history[Ended(t, v)].ratio
         = s.validators[v].history[Ended(s, v)].ratio + EarnedInPeriod(s.validators[v])
  BY <1>2, IncrementHistory
<1>5. t.infos = s.infos
  BY <1>2 DEF Incremented
<1>6. Due(t, d, h) = NextDue(s, d, h)
  <2> DEFINE r == t.validators[v].history[Ended(t, v)].ratio
             q == s.validators[v].history[Ended(s, v)].ratio + EarnedInPeriod(s.validators[v])
             f == s.validators[v].history[w.from].ratio
  <2>1. Due(t, d, h) = IF s.infos[d].height = h THEN 0
                       ELSE w.rewards + ((r - f) * w.stake) \div One
    BY <1>1, <1>3, <1>5, Zenon DEF Due
  <2>2. NextDue(s, d, h) = IF s.infos[d].height = h THEN 0
                           ELSE w.rewards + ((q - f) * w.stake) \div One
    BY <1>1, Zenon DEF NextDue
  <2>3. r = q
    BY <1>4
  <2> HIDE DEF r, q, f, w
  <2>. QED
    BY <2>1, <2>2, <2>3
<1>7. RewardsOf(t, d, Ended(t, v), h).rewards = Due(t, d, h)
  BY <1>2, RewardsAreDue
<1>8. Pending(s, d, h) = TruncateInt(RewardsOf(t, d, Ended(t, v), h).rewards)
  BY <1>1, Zenon DEF Pending, t, Ended
<1>9. KeepsWay(s, t, d, h)
  BY <1>1, <1>3, <1>5 DEF KeepsWay
<1>. QED
  BY <1>6, <1>7, <1>8, <1>9 DEF t

\* Ways that are kept and ratios that are the same make for the same dues.
LEMMA NextDueKept ==
    ASSUME NEW s, NEW t, NEW d, NEW h, KeepsWay(s, t, d, h),
           t.validators[ValidatorOf[d]].history[Ended(t, ValidatorOf[d])].ratio
               + EarnedInPeriod(t.validators[ValidatorOf[d]])
              = s.validators[ValidatorOf[d]].history[Ended(s, ValidatorOf[d])].ratio
                  + EarnedInPeriod(s.validators[ValidatorOf[d]])
    PROVE  NextDue(t, d, h) = NextDue(s, d, h)
<1> DEFINE v == ValidatorOf[d]
           w == Way(s, d, h)
           r == t.validators[v].history[Ended(t, v)].ratio + EarnedInPeriod(t.validators[v])
           q == s.validators[v].history[Ended(s, v)].ratio + EarnedInPeriod(s.validators[v])
           f == s.validators[v].history[w.from].ratio
<1>1. /\ t.infos[d] = s.infos[d]
      /\ Way(t, d, h) = w
      /\ t.validators[v].history[w.from].ratio = f
  BY DEF KeepsWay
<1>2. NextDue(t, d, h) = IF s.infos[d].height = h THEN 0
                         ELSE w.rewards + ((r - f) * w.stake) \div One
  BY <1>1, Zenon DEF NextDue
<1>3. NextDue(s, d, h) = IF s.infos[d].height = h THEN 0
                         ELSE w.rewards + ((q - f) * w.stake) \div One
  BY Zenon DEF NextDue
<1>4. r = q
  OBVIOUS
<1> HIDE DEF r, q, f, w
<1>. QED
  BY <1>2, <1>3, <1>4

\* Two operations that keep a way keep it together.
LEMMA WaysCompose ==
    ASSUME NEW s, NEW t, NEW u, NEW d, NEW h, KeepsWay(s, t, d, h), KeepsWay(t, u, d, h)
    PROVE  KeepsWay(s, u, d, h)
BY DEF KeepsWay

\* The account after a period ends, or a delegation starts to count.
LEMMA IncrementAccount ==
    ASSUME NEW s \in StoreType, NEW t \in StoreType, NEW v \in Validators,
           Incremented(s, t, v), Account(s)
    PROVE  Account(t)
<1> DEFINE lost == LostInPeriod(s.validators[v])
<1>1. /\ t.balance = s.balance
      /\ t.community = s.community + lost
      /\ t.validators[v].outstanding = s.validators[v].outstanding - lost
      /\ \A w \in Validators \ {v} : t.validators[w] = s.validators[w]
  BY Zenon DEF Incremented
<1>2. lost \in Nat /\ s.community \in Nat /\ s.balance \in Nat
      /\ s.validators[v].outstanding \in Nat
  BY PeriodAmounts, StoreIsTyped, OutstandingType
<1> HIDE DEF lost
<1>3. s.balance * One \in Int
  BY <1>2, OneAssumption
<1>4. t.balance * One - t.community - t.validators[v].outstanding
         = s.balance * One - s.community - s.validators[v].outstanding
  BY <1>1, <1>2, <1>3
<1>5. \A w \in Validators \ {v} : t.validators[w].outstanding = s.validators[w].outstanding
  BY <1>1
<1>. QED
  BY <1>4, <1>5, AccountKept

\* A delegation that starts to count moves no amount.
LEMMA InitializeAccount ==
    ASSUME NEW s \in StoreType, NEW t \in StoreType, NEW d \in Delegations, NEW h,
           Initialized(s, t, d, h), Account(s)
    PROVE  Account(t)
<1> DEFINE v == ValidatorOf[d]
<1>1. /\ t.balance = s.balance
      /\ t.community = s.community
      /\ t.validators[v].outstanding = s.validators[v].outstanding
      /\ \A w \in Validators \ {v} : t.validators[w] = s.validators[w]
  BY Zenon DEF Initialized
<1>2. v \in Validators
  BY InfoIsTyped
<1>3. t.balance * One - t.community - t.validators[v].outstanding
         = s.balance * One - s.community - s.validators[v].outstanding
  BY <1>1
<1>4. \A w \in Validators \ {v} : t.validators[w].outstanding = s.validators[w].outstanding
  BY <1>1
<1> HIDE DEF v
<1>. QED
  BY <1>2, <1>3, <1>4, AccountKept

\* What holds after a withdrawal by d.
Withdrawn(s, t, L, d, v, h) ==
    /\ t \in StoreType
    /\ t.panic = s.panic
    /\ Account(t)
    /\ Fits(t, L, v, h)
    /\ t.validators[v].period = s.validators[v].period + 1
    /\ \A w \in Validators \ {v} : t.validators[w] = s.validators[w]
    /\ \A e \in Delegations \ {d} : t.infos[e] = s.infos[e]
    /\ t.wallets = [s.wallets EXCEPT ![d] = s.wallets[d] + TruncateInt(NextDue(s, d, h))]
    /\ \A e \in L \ {d} : NextDue(t, e, h) = NextDue(s, e, h)

\* A withdrawal leaves the validator's account fitting, and nobody else is due
\* anything else than before it.
LEMMA WithdrawFits ==
    ASSUME NEW s \in StoreType, NEW v \in Validators, NEW L \in SUBSET DelegationsTo(v),
           NEW h \in Nat, Fits(s, L, v, h), Account(s), s.validators[v].period < MaxPeriod,
           NEW d \in L
    PROVE  Withdrawn(s, WithdrawRewards(s, d, h), L, d, v, h)
<1> DEFINE a == IncrementPeriod(s, v)
           b == Paid(a, d, RewardsOf(a, d, Ended(a, v), h))
           t == InitializeDelegation(b, d, h)
           M == L \ {d}
<1>1. d \in Delegations /\ v = ValidatorOf[d] /\ d \in DelegationsTo(v)
  BY LinkIsTyped, InfoIsTyped
<1>2. t = WithdrawRewards(s, d, h)
  BY <1>1, Zenon DEF WithdrawRewards, Ended
<1>3. /\ a \in StoreType
      /\ Incremented(s, a, v)
      /\ a.panic = s.panic
      /\ Fits(a, L, v, h)
      /\ FreshPeriod(a, L, v)
  BY IncrementFits
<1>4. /\ Due(a, d, h) = NextDue(s, d, h)
      /\ \A e \in L : KeepsWay(s, a, e, h)
  BY PendingIs
<1> HIDE DEF a
<1>5. Account(a)
  BY <1>3, IncrementAccount
<1>6. b \in StoreType /\ PaidOut(a, b, d, v, Due(a, d, h))
  BY <1>3, <1>5, PaidFields
<1> HIDE DEF b
<1>7. /\ Fits(b, M, v, h)
      /\ FreshPeriod(b, M, v)
      /\ Account(b)
      /\ \A e \in M : KeepsWay(a, b, e, h)
  BY <1>3, <1>5, <1>6, PaidFits
<1>8. M \in SUBSET DelegationsTo(v) /\ d \notin M /\ M \cup {d} = L
  OBVIOUS
<1>9. /\ t \in StoreType
      /\ Initialized(b, t, d, h)
      /\ t.panic = b.panic
      /\ Fits(t, M \cup {d}, v, h)
      /\ \A e \in M : KeepsWay(b, t, e, h)
  <2> HIDE DEF M, t
  <2>1. t = InitializeDelegation(b, d, h)
    BY DEF t
  <2>. QED
    BY <1>1, <1>6, <1>7, <1>8, <2>1, InitializeFits
<1> HIDE DEF t
<1>10. Account(t)
  BY <1>1, <1>6, <1>7, <1>9, InitializeAccount
<1>11. /\ a.infos = s.infos
       /\ a.wallets = s.wallets
       /\ \A w \in Validators \ {v} : a.validators[w] = s.validators[w]
       /\ a.validators[v].period = s.validators[v].period + 1
       /\ a.validators[v].current = 0
  BY <1>3, Zenon DEF Incremented
<1>12. /\ b.infos = a.infos
       /\ b.wallets = [a.wallets EXCEPT ![d] = a.wallets[d] + TruncateInt(Due(a, d, h))]
       /\ \A w \in Validators \ {v} : b.validators[w] = a.validators[w]
       /\ b.validators[v].period = a.validators[v].period
       /\ b.validators[v].current = a.validators[v].current
       /\ b.validators[v].tokens = a.validators[v].tokens
       /\ b.panic = a.panic
  BY <1>6, Zenon DEF PaidOut
<1>13. /\ \E info : t.infos = [b.infos EXCEPT ![d] = info]
       /\ t.wallets = b.wallets
       /\ \A w \in Validators \ {v} : t.validators[w] = b.validators[w]
       /\ t.validators[v].period = b.validators[v].period
       /\ t.validators[v].current = b.validators[v].current
       /\ t.validators[v].tokens = b.validators[v].tokens
  BY <1>1, <1>9, Zenon DEF Initialized
<1>14. \A e \in Delegations \ {d} : t.infos[e] = s.infos[e]
  <2>1. DOMAIN b.infos = Delegations
    BY <1>6 DEF StoreType
  <2>. QED
    BY <1>11, <1>12, <1>13, <2>1
<1>15. t.validators[v].history[Ended(t, v)].ratio + EarnedInPeriod(t.validators[v])
          = s.validators[v].history[Ended(s, v)].ratio + EarnedInPeriod(s.validators[v])
  <2> DEFINE last == Ended(a, v)
  <2>1. Ended(b, v) = last /\ Ended(t, v) = last
    BY <1>12, <1>13 DEF Ended
  <2>2. last \in Periods
    <3>1. RefsFit(a, L, v)
      BY <1>3 DEF Fits
    <3>. QED
      BY <1>3, <3>1, PeriodIsTyped
  <2>3. a.infos[d].period # last
    BY <1>3 DEF FreshPeriod, CountedAt
  <2>4. b.validators[v].history[last] = a.validators[v].history[last]
    BY <1>6, <2>2, <2>3, Zenon DEF PaidOut
  <2>5. t.validators[v].history[last].ratio = b.validators[v].history[last].ratio
    <3>1. t.validators[v].history[Ended(b, v)]
            = [ratio |-> b.validators[v].history[Ended(b, v)].ratio,
               refs  |-> b.validators[v].history[Ended(b, v)].refs + 1]
      BY <1>1, <1>9, Zenon DEF Initialized, Ended
    <3>. QED
      BY <2>1, <3>1
  <2>6. a.validators[v].history[last].ratio
          = s.validators[v].history[Ended(s, v)].ratio + EarnedInPeriod(s.validators[v])
    BY <1>3, IncrementHistory
  <2>7. EarnedInPeriod(t.validators[v]) = 0
    <3>1. t.validators[v].current = 0
      BY <1>11, <1>12, <1>13
    <3>2. t.validators[v].tokens \in Nat
      BY <1>9, CoverType, <1>8
    <3>. QED
      BY <3>1, <3>2 DEF EarnedInPeriod
  <2>8. t.validators[v].history[last].ratio \in Nat
    BY <1>9, <2>2, EntryIsTyped
  <2>. QED
    BY <2>1, <2>4, <2>5, <2>6, <2>7, <2>8
<1>16. ASSUME NEW e \in L \ {d}
       PROVE  NextDue(t, e, h) = NextDue(s, e, h)
  <2>1. ValidatorOf[e] = v
    BY LinkIsTyped
  <2>2. KeepsWay(s, a, e, h)
    BY <1>4
  <2>3. KeepsWay(a, b, e, h)
    BY <1>7
  <2>4. KeepsWay(b, t, e, h)
    BY <1>9
  <2>5. KeepsWay(s, b, e, h)
    BY <2>2, <2>3, WaysCompose
  <2>6. KeepsWay(s, t, e, h)
    BY <2>4, <2>5, WaysCompose
  <2>. QED
    BY <1>15, <2>1, <2>6, NextDueKept
<1>17. Fits(t, L, v, h)
  BY <1>8, <1>9
<1>18. /\ t.panic = s.panic
       /\ t.validators[v].period = s.validators[v].period + 1
       /\ \A w \in Validators \ {v} : t.validators[w] = s.validators[w]
       /\ t.wallets = [s.wallets EXCEPT ![d] = s.wallets[d] + TruncateInt(NextDue(s, d, h))]
  BY <1>3, <1>4, <1>9, <1>11, <1>12, <1>13
<1>19. Withdrawn(s, t, L, d, v, h)
  BY <1>9, <1>10, <1>14, <1>16, <1>17, <1>18, Zenon DEF Withdrawn
<1>. QED
  BY <1>2, <1>19

=============================================================================
