------------------------------ MODULE Counting ------------------------------
(***************************************************************************)
(* Facts about numbers and lists that the proofs of the components rest    *)
(* on: division, how a number of handlers changes when one of them takes a *)
(* step, how a sum over a finite set does, that a finite set can be listed *)
(* in a given order, and that the pages of a list make it up again.        *)
(***************************************************************************)
EXTENDS Paging, FiniteSetTheorems, SequenceTheorems, TLAPS

\* What \div means, for a positive divisor.
LEMMA Division ==
  ASSUME NEW n \in Int, NEW d \in Nat \ {0}
  PROVE  /\ n \div d \in Int
         /\ d * (n \div d) <= n
         /\ n < d * (n \div d) + d
OBVIOUS

\* A factor may be cancelled from an inequality.
LEMMA Cancel ==
  ASSUME NEW d \in Nat \ {0}, NEW x \in Int, NEW y \in Int, d * x < d * y
  PROVE  x < y
OBVIOUS

\* A multiple is larger by a divisor at least when its factor is larger.
LEMMA NextMultiple ==
  ASSUME NEW b \in Nat \ {0}, NEW p \in Int, NEW q \in Int, p < q
  PROVE  p * b <= (q - 1) * b
BY Z3

-----------------------------------------------------------------------------
(* Cardinalities.                                                          *)

One(condition) == IF condition THEN 1 ELSE 0

\* Two sets of handlers that differ in k at most.
LEMMA CountStep ==
  ASSUME NEW C, IsFiniteSet(C), NEW S \in SUBSET C, NEW T \in SUBSET C, NEW k \in C,
         S \ {k} = T \ {k}
  PROVE  /\ Cardinality(S) \in Nat /\ Cardinality(T) \in Nat
         /\ Cardinality(T) = Cardinality(S) + One(k \in T) - One(k \in S)
<1>1. IsFiniteSet(S) /\ IsFiniteSet(T)
  BY FS_Subset
<1>2. Cardinality(S) \in Nat /\ Cardinality(T) \in Nat
  BY <1>1, FS_CardinalityType
<1>3. Cardinality(S \ {k}) = IF k \in S THEN Cardinality(S) - 1 ELSE Cardinality(S)
  BY <1>1, FS_RemoveElement, Zenon
<1>4. Cardinality(T \ {k}) = IF k \in T THEN Cardinality(T) - 1 ELSE Cardinality(T)
  BY <1>1, FS_RemoveElement, Zenon
<1> QED
  BY <1>2, <1>3, <1>4 DEF One

\* Among finitely many there are no more than all.
LEMMA CountBound ==
  ASSUME NEW C, IsFiniteSet(C), NEW S \in SUBSET C
  PROVE  Cardinality(S) \in Nat /\ Cardinality(C) \in Nat /\ Cardinality(S) <= Cardinality(C)
BY FS_Subset, FS_CardinalityType

-----------------------------------------------------------------------------
\* A function on the subsets of S that adds f up, as Folds defines it.
Adds(g, f, S) ==
  g = [s \in SUBSET S |->
         IF s = {} THEN 0
         ELSE f[CHOOSE x \in s : TRUE] + g[s \ {CHOOSE x \in s : TRUE}]]

LEMMA SumIs ==
  ASSUME NEW f, NEW S
  PROVE  SumFunctionOnSet(f, S) = (CHOOSE g : Adds(g, f, S))[S]
  BY Zenon DEF SumFunctionOnSet, FoldFunctionOnSet, MapThenFoldSet, Adds

LEMMA SetInduction ==
  ASSUME NEW S, IsFiniteSet(S), NEW Good,
         \A T \in SUBSET S : (\A U \in SUBSET T : U # T => U \in Good) => T \in Good
  PROVE  S \in Good
  <1> DEFINE Bad == {T \in SUBSET S : T \notin Good}
  <1> SUFFICES ASSUME Bad # {} PROVE FALSE
    OBVIOUS
  <1>1. FiniteSubsetsOf(S) = SUBSET S
    BY FS_FiniteSubsetsOfFinite
  <1>2. IsWellFoundedOn(StrictSubsetOrdering(S), SUBSET S)
    <2>1. IsWellFoundedOn(StrictSubsetOrdering(S), FiniteSubsetsOf(S))
      BY FS_StrictSubsetOrderingWellFounded
    <2> QED
      BY <1>1, <2>1
  <1>3. PICK T \in Bad : \A U \in Bad : <<U, T>> \notin StrictSubsetOrdering(S)
    <2> Bad \subseteq SUBSET S
      OBVIOUS
    <2> HIDE DEF Bad
    <2> QED
      BY <1>2, WFMin
  <1>4. \A U \in SUBSET T : U # T => U \in Good
    BY <1>3 DEF StrictSubsetOrdering
  <1> QED
    BY <1>3, <1>4

\* Two such functions agree where both are defined.
LEMMA AddsAgree ==
  ASSUME NEW f, NEW S, NEW T, NEW g, NEW h, Adds(g, f, S), Adds(h, f, T),
         NEW U \in SUBSET (S \cap T), IsFiniteSet(U)
  PROVE  g[U] = h[U]
  <1> DEFINE Good == {V \in SUBSET U : g[V] = h[V]}
  <1>1. ASSUME NEW V \in SUBSET U, \A W \in SUBSET V : W # V => W \in Good
        PROVE  V \in Good
    <2>1. V \in SUBSET S /\ V \in SUBSET T
      OBVIOUS
    <2>2. CASE V = {}
      <3>1. g[V] = 0 /\ h[V] = 0
        BY <2>1, <2>2 DEF Adds
      <3> QED
        BY <3>1
    <2>3. CASE V # {}
      <3> DEFINE x == CHOOSE x \in V : TRUE
                 W == V \ {x}
      <3>1. x \in V
        BY <2>3
      <3>2. W \in SUBSET V /\ W # V
        BY <3>1
      <3>3. g[W] = h[W]
        BY <1>1, <3>2
      <3>4. g[V] = f[x] + g[W]
        BY <2>1, <2>3 DEF Adds
      <3>5. h[V] = f[x] + h[W]
        BY <2>1, <2>3 DEF Adds
      <3> QED
        BY <3>3, <3>4, <3>5
    <2> QED
      BY <2>2, <2>3
  <1> HIDE DEF Good
  <1>2. U \in Good
    BY <1>1, SetInduction
  <1> QED
    BY <1>2 DEF Good

\* A sum is the sum without an element chosen from it, plus that element: the
\* function that Folds chooses exists.
LEMMA SumChoice ==
  ASSUME NEW f, NEW S, IsFiniteSet(S)
  PROVE  SumFunctionOnSet(f, S) =
           IF S = {} THEN 0
           ELSE f[CHOOSE x \in S : TRUE] + SumFunctionOnSet(f, S \ {CHOOSE x \in S : TRUE})
  <1> DEFINE c(s) == CHOOSE x \in s : TRUE
             Fun(s) == CHOOSE g : Adds(g, f, s)
             Good == {T \in SUBSET S : Adds(Fun(T), f, T)}
             F(s) == Fun(s)[s]
  <1>1. \A s : F(s) = SumFunctionOnSet(f, s)
    BY SumIs
  <1>2. \A s : s # {} => c(s) \in s
    OBVIOUS
  <1>3. ASSUME NEW s \in SUBSET S, s = {}, Adds(Fun(s), f, s)
        PROVE  F(s) = 0
    <2> DEFINE g == Fun(s)
    <2>1. Adds(g, f, s)
      BY <1>3
    <2> HIDE DEF g
    <2>2. g[s] = 0
      BY <1>3, <2>1 DEF Adds
    <2> QED
      BY <2>2 DEF g
  <1>4. ASSUME NEW s \in SUBSET S, s # {}, Adds(Fun(s), f, s),
               Adds(Fun(s \ {c(s)}), f, s \ {c(s)})
        PROVE  F(s) = f[c(s)] + F(s \ {c(s)})
    <2> DEFINE g == Fun(s)
               u == s \ {c(s)}
               h == Fun(u)
    <2>1. Adds(g, f, s) /\ Adds(h, f, u)
      BY <1>4
    <2>2. IsFiniteSet(u) /\ u \in SUBSET (s \cap u)
      BY FS_Subset
    <2> HIDE DEF g, h
    <2>3. g[s] = f[c(s)] + g[u]
      BY <1>4, <2>1 DEF Adds
    <2>4. g[u] = h[u]
      <3> HIDE DEF u
      <3> QED
        BY <2>1, <2>2, AddsAgree
    <2> QED
      BY <2>3, <2>4 DEF g, h
  <1> HIDE DEF Fun, F
  <1>5. ASSUME NEW T \in SUBSET S, \A U \in SUBSET T : U # T => U \in Good
        PROVE  T \in Good
    <2> DEFINE h == [s \in SUBSET T |-> IF s = {} THEN 0 ELSE f[c(s)] + F(s \ {c(s)})]
    <2>1. ASSUME NEW s \in SUBSET T, s # T
          PROVE  F(s) = h[s]
      <3>1. s \in SUBSET S /\ Adds(Fun(s), f, s)
        BY <1>5, <2>1
      <3>2. CASE s = {}
        BY <1>3, <3>1, <3>2
      <3>3. CASE s # {}
        <4>1. s \ {c(s)} \in SUBSET T /\ s \ {c(s)} # T
          BY <2>1
        <4>2. Adds(Fun(s \ {c(s)}), f, s \ {c(s)})
          BY <1>5, <4>1
        <4> QED
          BY <1>4, <3>1, <3>3, <4>2
      <3> QED
        BY <3>2, <3>3
    <2>2. ASSUME NEW s \in SUBSET T, s # {}
          PROVE  F(s \ {c(s)}) = h[s \ {c(s)}]
      <3>1. s \ {c(s)} \in SUBSET T /\ s \ {c(s)} # T
        BY <1>2, <2>2
      <3> QED
        BY <2>1, <3>1
    <2> DEFINE k == [s \in SUBSET T |-> IF s = {} THEN 0 ELSE f[c(s)] + h[s \ {c(s)}]]
    <2>3. h = k
      <3>1. \A s \in SUBSET T : s # {} => f[c(s)] + F(s \ {c(s)}) = f[c(s)] + h[s \ {c(s)}]
        BY <2>2
      <3> HIDE DEF c
      <3>2. \A s \in SUBSET T : h[s] = k[s]
        BY <3>1, Zenon
      <3> QED
        BY <3>2, Zenon
    <2>4. Adds(h, f, T)
      <3> HIDE DEF h
      <3> QED
        BY <2>3 DEF Adds
    <2>5. Adds(Fun(T), f, T)
      BY <2>4 DEF Fun
    <2> QED
      BY <2>5
  <1>6. \A T \in SUBSET S : T \in Good
    <2> HIDE DEF Good
    <2> TAKE T \in SUBSET S
    <2>1. IsFiniteSet(T)
      BY FS_Subset
    <2> QED
      BY <1>5, <2>1, SetInduction
  <1>7. CASE S = {}
    <2>1. F(S) = 0
      BY <1>3, <1>6, <1>7
    <2> QED
      BY <1>1, <1>7, <2>1
  <1>8. CASE S # {}
    <2>1. F(S) = f[c(S)] + F(S \ {c(S)})
      BY <1>4, <1>6, <1>8
    <2> QED
      BY <1>1, <1>8, <2>1
  <1> QED
    BY <1>7, <1>8

LEMMA SumEmpty ==
  ASSUME NEW f
  PROVE  SumFunctionOnSet(f, {}) = 0
  BY SumChoice, FS_EmptySet

\* The order in which the elements are added does not matter.
LEMMA SumElement ==
  ASSUME NEW D, NEW f \in [D -> Int], NEW S \in SUBSET D, IsFiniteSet(S)
  PROVE  /\ SumFunctionOnSet(f, S) \in Int
         /\ \A x \in S : SumFunctionOnSet(f, S) = f[x] + SumFunctionOnSet(f, S \ {x})
  <1> DEFINE Sum(T) == SumFunctionOnSet(f, T)
             Good == {T \in SUBSET S : /\ Sum(T) \in Int
                                       /\ \A x \in T : Sum(T) = f[x] + Sum(T \ {x})}
  <1>1. ASSUME NEW T \in SUBSET S, \A U \in SUBSET T : U # T => U \in Good
        PROVE  T \in Good
    <2>1. CASE T = {}
      BY <2>1, SumEmpty
    <2>2. CASE T # {}
      <3> DEFINE c == CHOOSE x \in T : TRUE
      <3>1. c \in T /\ c \in D /\ f[c] \in Int
        BY <2>2
      <3>2. Sum(T) = f[c] + Sum(T \ {c})
        <4>1. IsFiniteSet(T)
          BY FS_Subset
        <4> QED
          BY <2>2, <4>1, SumChoice
      <3> HIDE DEF c
      <3>3. T \ {c} \in SUBSET T /\ T \ {c} # T
        BY <3>1
      <3>4. /\ Sum(T \ {c}) \in Int
            /\ \A x \in T \ {c} : Sum(T \ {c}) = f[x] + Sum((T \ {c}) \ {x})
        <4> HIDE DEF Sum
        <4> QED
          BY <1>1, <3>3
      <3>5. ASSUME NEW x \in T, x # c
            PROVE  Sum(T) = f[x] + Sum(T \ {x})
        <4>1. T \ {x} \in SUBSET T /\ T \ {x} # T /\ c \in T \ {x} /\ f[x] \in Int
          BY <3>1, <3>5
        <4> HIDE DEF Sum
        <4>2. /\ Sum(T \ {x}) = f[c] + Sum((T \ {x}) \ {c})
              /\ Sum(T \ {x}) \in Int
          BY <1>1, <4>1
        <4>3. (T \ {x}) \ {c} = (T \ {c}) \ {x}
          OBVIOUS
        <4>4. (T \ {x}) \ {c} \in SUBSET T /\ (T \ {x}) \ {c} # T
          BY <4>1
        <4>5. Sum((T \ {x}) \ {c}) \in Int
          BY <1>1, <4>4
        <4>6. Sum(T \ {c}) = f[x] + Sum((T \ {x}) \ {c})
          BY <3>4, <3>5, <4>3
        <4> QED
          BY <3>1, <3>2, <4>1, <4>2, <4>5, <4>6
      <3>6. Sum(T) \in Int
        <4> HIDE DEF Sum
        <4> QED
          BY <3>1, <3>2, <3>4
      <3> HIDE DEF Sum
      <3> QED
        BY <3>2, <3>5, <3>6
    <2> QED
      BY <2>1, <2>2
  <1> HIDE DEF Good
  <1>2. S \in Good
    BY <1>1, SetInduction
  <1> QED
    BY <1>2 DEF Good

\* Larger summands give no smaller sum.
LEMMA SumMonotone ==
  ASSUME NEW D, NEW f \in [D -> Int], NEW E, NEW g \in [E -> Int],
         NEW S \in SUBSET (D \cap E), IsFiniteSet(S), \A x \in S : f[x] <= g[x]
  PROVE  SumFunctionOnSet(f, S) <= SumFunctionOnSet(g, S)
  <1> DEFINE F(T) == SumFunctionOnSet(f, T)
             G(T) == SumFunctionOnSet(g, T)
             Good == {T \in SUBSET S : F(T) <= G(T)}
  <1>1. ASSUME NEW T \in SUBSET S, \A U \in SUBSET T : U # T => U \in Good
        PROVE  T \in Good
    <2>1. CASE T = {}
      BY <2>1, SumEmpty
    <2>2. CASE T # {}
      <3>1. PICK x \in T : TRUE
        BY <2>2
      <3>2. T \ {x} \in SUBSET T /\ T \ {x} # T /\ T \in SUBSET D /\ T \in SUBSET E
        OBVIOUS
      <3>3. IsFiniteSet(T) /\ IsFiniteSet(T \ {x})
        BY FS_Subset
      <3>4. F(T) = f[x] + F(T \ {x}) /\ F(T) \in Int
        BY <3>2, <3>3, SumElement
      <3>5. G(T) = g[x] + G(T \ {x}) /\ G(T) \in Int
        BY <3>2, <3>3, SumElement
      <3>6. F(T \ {x}) \in Int /\ G(T \ {x}) \in Int
        BY <3>2, <3>3, SumElement
      <3> HIDE DEF F, G
      <3>7. F(T \ {x}) <= G(T \ {x})
        BY <1>1, <3>2
      <3>8. f[x] \in Int /\ g[x] \in Int /\ f[x] <= g[x]
        BY <3>2
      <3> QED
        BY <3>4, <3>5, <3>6, <3>7, <3>8
    <2> QED
      BY <2>1, <2>2
  <1> HIDE DEF Good
  <1>2. S \in Good
    BY <1>1, SetInduction
  <1> QED
    BY <1>2 DEF Good

\* Sums of functions that agree.
LEMMA SumEqual ==
  ASSUME NEW D, NEW f \in [D -> Int], NEW E, NEW g \in [E -> Int],
         NEW S \in SUBSET (D \cap E), IsFiniteSet(S), \A x \in S : f[x] = g[x]
  PROVE  SumFunctionOnSet(f, S) = SumFunctionOnSet(g, S)
  <1>1. SumFunctionOnSet(f, S) \in Int /\ SumFunctionOnSet(g, S) \in Int
    BY SumElement
  <1>2. \A x \in S : f[x] \in Int /\ f[x] <= g[x] /\ g[x] <= f[x]
    OBVIOUS
  <1>3. SumFunctionOnSet(f, S) <= SumFunctionOnSet(g, S)
    BY <1>2, SumMonotone
  <1>4. SumFunctionOnSet(g, S) <= SumFunctionOnSet(f, S)
    BY <1>2, SumMonotone
  <1> QED
    BY <1>1, <1>3, <1>4

\* How a sum changes with one of its summands.
LEMMA SumStep ==
  ASSUME NEW D, NEW f \in [D -> Int], NEW g \in [D -> Int],
         NEW S \in SUBSET D, IsFiniteSet(S), NEW x \in D,
         \A y \in D : y # x => g[y] = f[y]
  PROVE  /\ SumFunctionOnSet(f, S) \in Int
         /\ SumFunctionOnSet(g, S) \in Int
         /\ SumFunctionOnSet(g, S) =
              IF x \in S THEN SumFunctionOnSet(f, S) + (g[x] - f[x])
              ELSE SumFunctionOnSet(f, S)
  <1> DEFINE F(T) == SumFunctionOnSet(f, T)
             G(T) == SumFunctionOnSet(g, T)
  <1>1. IsFiniteSet(S \ {x}) /\ S \ {x} \in SUBSET D
    BY FS_Subset
  <1>2. F(S \ {x}) = G(S \ {x})
    BY <1>1, SumEqual
  <1>3. /\ F(S) \in Int /\ G(S) \in Int
        /\ F(S \ {x}) \in Int /\ G(S \ {x}) \in Int
    BY <1>1, SumElement
  <1>4. CASE x \in S
    <2>1. F(S) = f[x] + F(S \ {x}) /\ G(S) = g[x] + G(S \ {x})
      BY <1>4, SumElement
    <2> HIDE DEF F, G
    <2>2. G(S) = F(S) + (g[x] - f[x])
      BY <1>2, <1>3, <2>1
    <2> QED
      BY <1>3, <1>4, <2>2 DEF F, G
  <1>5. CASE x \notin S
    <2>1. S \ {x} = S
      BY <1>5
    <2> QED
      BY <1>2, <1>3, <1>5, <2>1
  <1> QED
    BY <1>4, <1>5

\* Sums over more of what is not negative.
LEMMA SumSubset ==
  ASSUME NEW D, NEW f \in [D -> Nat], NEW S \in SUBSET D, IsFiniteSet(S), NEW T \in SUBSET S
  PROVE  /\ SumFunctionOnSet(f, T) \in Nat
         /\ SumFunctionOnSet(f, S) \in Nat
         /\ SumFunctionOnSet(f, T) <= SumFunctionOnSet(f, S)
  <1> DEFINE F(U) == SumFunctionOnSet(f, U)
             Good == {U \in SUBSET S : F(U) \in Nat /\ F(U \cap T) \in Nat /\ F(U \cap T) <= F(U)}
  <1>0. f \in [D -> Int]
    OBVIOUS
  <1>1. ASSUME NEW U \in SUBSET S, \A V \in SUBSET U : V # U => V \in Good
        PROVE  U \in Good
    <2>1. CASE U = {}
      <3>1. U \cap T = {} /\ F({}) = 0
        BY <2>1, SumEmpty
      <3> QED
        BY <2>1, <3>1
    <2>2. CASE U # {}
      <3>1. PICK x \in U : TRUE
        BY <2>2
      <3>2. U \ {x} \in SUBSET U /\ U \ {x} # U /\ U \in SUBSET D /\ f[x] \in Nat
        OBVIOUS
      <3>3. IsFiniteSet(U) /\ IsFiniteSet(U \cap T)
        BY FS_Subset
      <3>4. F(U) = f[x] + F(U \ {x})
        BY <1>0, <3>2, <3>3, SumElement
      <3>5. CASE x \in T
        <4>1. x \in U \cap T /\ U \cap T \in SUBSET D /\ (U \cap T) \ {x} = (U \ {x}) \cap T
          BY <3>5
        <4>2. F(U \cap T) = f[x] + F((U \ {x}) \cap T)
          BY <1>0, <3>3, <4>1, SumElement
        <4> HIDE DEF F
        <4>3. F(U \ {x}) \in Nat /\ F((U \ {x}) \cap T) \in Nat /\ F((U \ {x}) \cap T) <= F(U \ {x})
          BY <1>1, <3>2
        <4> QED
          BY <3>2, <3>4, <4>2, <4>3
      <3>6. CASE x \notin T
        <4>1. U \cap T = (U \ {x}) \cap T
          BY <3>6
        <4> HIDE DEF F
        <4>2. F(U \ {x}) \in Nat /\ F((U \ {x}) \cap T) \in Nat /\ F((U \ {x}) \cap T) <= F(U \ {x})
          BY <1>1, <3>2
        <4>3. F(U \cap T) = F((U \ {x}) \cap T)
          BY <4>1
        <4> QED
          BY <3>2, <3>4, <4>2, <4>3
      <3> QED
        BY <3>5, <3>6
    <2> QED
      BY <2>1, <2>2
  <1> HIDE DEF Good
  <1>2. S \in Good
    BY <1>1, SetInduction
  <1>3. S \cap T = T
    OBVIOUS
  <1> QED
    BY <1>2, <1>3 DEF Good

LEMMA SumZero ==
  ASSUME NEW S, IsFiniteSet(S)
  PROVE  SumFunctionOnSet([x \in S |-> 0], S) = 0
  <1> DEFINE f == [x \in S |-> 0]
             Good == {T \in SUBSET S : SumFunctionOnSet(f, T) = 0}
  <1>1. f \in [S -> Int] /\ \A x \in S : f[x] = 0
    OBVIOUS
  <1> HIDE DEF f
  <1>2. ASSUME NEW T \in SUBSET S, \A U \in SUBSET T : U # T => U \in Good
        PROVE  T \in Good
    <2>1. CASE T = {}
      BY <2>1, SumEmpty
    <2>2. CASE T # {}
      <3>1. PICK x \in T : TRUE
        BY <2>2
      <3>2. T \ {x} \in Good
        BY <1>2, <3>1
      <3>3. IsFiniteSet(T)
        BY FS_Subset
      <3>4. SumFunctionOnSet(f, T) = f[x] + SumFunctionOnSet(f, T \ {x})
        BY <1>1, <3>1, <3>3, SumElement
      <3> QED
        BY <1>1, <3>1, <3>2, <3>4
    <2> QED
      BY <2>1, <2>2
  <1>3. S \in Good
    <2> HIDE DEF Good
    <2> QED
      BY <1>2, SetInduction
  <1> QED
    BY <1>3 DEF f

\* Functions to the integers that differ at x at most; and such functions of
\* two arguments, which differ by d.
Changes(f, g, D, x) ==
  /\ f \in [D -> Int] /\ g \in [D -> Int] /\ x \in D
  /\ \A y \in D : y # x => g[y] = f[y]
Changes2(F, G, D, E, x, y, d) ==
  /\ F \in [D -> [E -> Int]] /\ G \in [D -> [E -> Int]]
  /\ x \in D /\ y \in E /\ d \in Int /\ G[x][y] = F[x][y] + d
  /\ \A v \in D, w \in E : v # x \/ w # y => G[v][w] = F[v][w]

LEMMA SumChange ==
  ASSUME NEW f, NEW g, NEW D, NEW x, Changes(f, g, D, x), NEW S \in SUBSET D, IsFiniteSet(S)
  PROVE  /\ SumFunctionOnSet(f, S) \in Int
         /\ SumFunctionOnSet(g, S) =
              SumFunctionOnSet(f, S) + (IF x \in S THEN g[x] - f[x] ELSE 0)
  BY SumStep DEF Changes

LEMMA Sum2Change ==
  ASSUME NEW F, NEW G, NEW D, NEW E, NEW r, NEW n, NEW d, Changes2(F, G, D, E, r, n, d),
         IsFiniteSet(E)
  PROVE  /\ \A x \in D : /\ SumFunctionOnSet(F[x], E) \in Int
                         /\ SumFunctionOnSet(G[x], E) \in Int
                         /\ x # r => SumFunctionOnSet(G[x], E) = SumFunctionOnSet(F[x], E)
         /\ SumFunctionOnSet(G[r], E) = SumFunctionOnSet(F[r], E) + d
  <1>1. ASSUME NEW x \in D
        PROVE  /\ SumFunctionOnSet(F[x], E) \in Int
               /\ SumFunctionOnSet(G[x], E) \in Int
               /\ x # r => SumFunctionOnSet(G[x], E) = SumFunctionOnSet(F[x], E)
    <2>1. F[x] \in [E -> Int] /\ G[x] \in [E -> Int] /\ E \in SUBSET E
      BY DEF Changes2
    <2>2. ASSUME x # r
          PROVE  G[x] = F[x]
      <3>1. \A m \in E : F[x][m] = G[x][m]
        BY <2>2 DEF Changes2
      <3> QED
        BY <2>1, <3>1
    <2> QED
      BY <2>1, <2>2, SumElement
  <1>2. SumFunctionOnSet(G[r], E) = SumFunctionOnSet(F[r], E) + d
    <2>1. Changes(F[r], G[r], E, n) /\ r \in D /\ n \in E /\ E \in SUBSET E
      BY DEF Changes, Changes2
    <2>2. G[r][n] - F[r][n] = d
      BY DEF Changes2
    <2>3. SumFunctionOnSet(F[r], E) \in Int
      BY <1>1, <2>1
    <2>4. SumFunctionOnSet(G[r], E) =
            SumFunctionOnSet(F[r], E) + (IF n \in E THEN G[r][n] - F[r][n] ELSE 0)
      BY <2>1, SumChange
    <2> QED
      BY <2>1, <2>2, <2>3, <2>4
  <1> QED
    BY <1>1, <1>2

\* What each of the owners has of D.
PerOwner(f, own, D, O) == [o \in O |-> SumFunctionOnSet(f, {x \in D : own[x] = o})]

\* Adding that up counts everything once.
LEMMA SumByOwner ==
  ASSUME NEW D, IsFiniteSet(D), NEW O, IsFiniteSet(O),
         NEW own, \A x \in D : own[x] \in O, NEW f \in [D -> Int]
  PROVE  SumFunctionOnSet(PerOwner(f, own, D, O), O) = SumFunctionOnSet(f, D)
  <1> DEFINE Of(T, o) == {x \in T : own[x] = o}
             H(T) == [o \in O |-> SumFunctionOnSet(f, Of(T, o))]
             Good == {T \in SUBSET D : SumFunctionOnSet(H(T), O) = SumFunctionOnSet(f, T)}
  <1>1. \A T \in SUBSET D : /\ H(T) \in [O -> Int]
                            /\ \A o \in O : H(T)[o] = SumFunctionOnSet(f, Of(T, o))
    <2>1. ASSUME NEW T \in SUBSET D, NEW o \in O
          PROVE  SumFunctionOnSet(f, Of(T, o)) \in Int
      <3>1. Of(T, o) \in SUBSET D /\ IsFiniteSet(Of(T, o))
        BY FS_Subset
      <3> QED
        BY <3>1, SumElement
    <2> QED
      BY <2>1
  <1>2. ASSUME NEW T \in SUBSET D, \A U \in SUBSET T : U # T => U \in Good
        PROVE  T \in Good
    <2>1. CASE T = {}
      <3>1. \A o \in O : Of(T, o) = {}
        BY <2>1
      <3>2. H(T) = [o \in O |-> 0]
        BY <3>1, SumEmpty
      <3>3. SumFunctionOnSet(H(T), O) = 0
        BY <3>2, SumZero
      <3>4. SumFunctionOnSet(f, T) = 0
        BY <2>1, SumEmpty
      <3> QED
        BY <3>3, <3>4
    <2>2. CASE T # {}
      <3>1. PICK x \in T : TRUE
        BY <2>2
      <3> DEFINE U == T \ {x}
                 k == own[x]
      <3>2. U \in SUBSET D /\ U \in Good /\ k \in O /\ x \in D
        BY <1>2, <3>1
      <3>3. \A o \in O : o # k => Of(T, o) = Of(U, o)
        OBVIOUS
      <3>4. x \in Of(T, k) /\ Of(T, k) \ {x} = Of(U, k)
        BY <3>1
      <3>5. IsFiniteSet(T) /\ IsFiniteSet(Of(T, k)) /\ Of(T, k) \in SUBSET D
        BY FS_Subset
      <3>6. SumFunctionOnSet(f, Of(T, k)) = f[x] + SumFunctionOnSet(f, Of(T, k) \ {x})
        BY <3>4, <3>5, SumElement
      <3>7. SumFunctionOnSet(f, T) = f[x] + SumFunctionOnSet(f, U)
        BY <3>1, <3>5, SumElement
      <3>8. f[x] \in Int /\ SumFunctionOnSet(f, U) \in Int
        BY <3>2, FS_Subset, SumElement
      <3>9. SumFunctionOnSet(H(U), O) = SumFunctionOnSet(f, U)
        BY <3>2
      <3>10. PICK h \in [O -> Int], g \in [O -> Int] :
               /\ h = H(U) /\ g = H(T)
               /\ \A o \in O : h[o] = SumFunctionOnSet(f, Of(U, o))
               /\ \A o \in O : g[o] = SumFunctionOnSet(f, Of(T, o))
        <4> HIDE DEF H, Of
        <4> QED
          BY <1>1, <3>2
      <3> HIDE DEF Of, H, Good
      <3>11. Changes(h, g, O, k)
        BY <3>2, <3>3, <3>10 DEF Changes
      <3>12. g[k] - h[k] = f[x]
        <4>1. g[k] = f[x] + h[k] /\ h[k] \in Int
          BY <3>2, <3>4, <3>6, <3>10
        <4> QED
          BY <3>8, <4>1
      <3>13. O \in SUBSET O
        OBVIOUS
      <3>14. SumFunctionOnSet(g, O) =
               SumFunctionOnSet(h, O) + (IF k \in O THEN g[k] - h[k] ELSE 0)
        BY <3>11, <3>13, SumChange
      <3>15. SumFunctionOnSet(g, O) = SumFunctionOnSet(f, T)
        BY <3>2, <3>7, <3>8, <3>9, <3>10, <3>12, <3>14
      <3> QED
        BY <3>10, <3>15 DEF Good
    <2> QED
      BY <2>1, <2>2
  <1>3. D \in Good
    <2> HIDE DEF Good
    <2> QED
      BY <1>2, SetInduction
  <1> QED
    BY <1>3 DEF PerOwner

\* Counting the elements of T is adding one for each.
LEMMA SumOfOnes ==
  ASSUME NEW D, NEW f \in [D -> Int], NEW T \in SUBSET D, IsFiniteSet(T), \A x \in T : f[x] = 1
  PROVE  SumFunctionOnSet(f, T) = Cardinality(T)
  <1> DEFINE Good == {U \in SUBSET T : SumFunctionOnSet(f, U) = Cardinality(U)}
  <1>1. ASSUME NEW U \in SUBSET T, \A V \in SUBSET U : V # U => V \in Good
        PROVE  U \in Good
    <2>1. CASE U = {}
      BY <2>1, SumEmpty, FS_EmptySet
    <2>2. CASE U # {}
      <3>1. PICK x \in U : TRUE
        BY <2>2
      <3>2. U \ {x} \in Good
        BY <1>1, <3>1
      <3>3. IsFiniteSet(U) /\ U \in SUBSET D
        BY FS_Subset
      <3>4. SumFunctionOnSet(f, U) = f[x] + SumFunctionOnSet(f, U \ {x})
        BY <3>1, <3>3, SumElement
      <3>5. Cardinality(U \ {x}) = Cardinality(U) - 1 /\ Cardinality(U) \in Nat
        BY <3>1, <3>3, FS_RemoveElement, FS_CardinalityType
      <3> QED
        BY <3>1, <3>2, <3>4, <3>5
    <2> QED
      BY <2>1, <2>2
  <1>2. T \in Good
    <2> HIDE DEF Good
    <2> QED
      BY <1>1, SetInduction
  <1> QED
    BY <1>2

\* A sum lies between as many of the least and as many of the greatest summand.
LEMMA SumBetween ==
  ASSUME NEW D, NEW f \in [D -> Int], NEW T \in SUBSET D, IsFiniteSet(T),
         NEW lo \in Int, NEW hi \in Int, \A x \in T : lo <= f[x] /\ f[x] <= hi
  PROVE  /\ lo * Cardinality(T) <= SumFunctionOnSet(f, T)
         /\ SumFunctionOnSet(f, T) <= hi * Cardinality(T)
  <1> DEFINE Good == {U \in SUBSET T : /\ lo * Cardinality(U) <= SumFunctionOnSet(f, U)
                                       /\ SumFunctionOnSet(f, U) <= hi * Cardinality(U)}
  <1>1. ASSUME NEW U \in SUBSET T, \A V \in SUBSET U : V # U => V \in Good
        PROVE  U \in Good
    <2>1. CASE U = {}
      BY <2>1, SumEmpty, FS_EmptySet
    <2>2. CASE U # {}
      <3>1. PICK x \in U : TRUE
        BY <2>2
      <3>2. IsFiniteSet(U) /\ U \in SUBSET D
        BY FS_Subset
      <3>3. PICK sum \in Int, rest \in Int :
              /\ sum = SumFunctionOnSet(f, U) /\ rest = SumFunctionOnSet(f, U \ {x})
              /\ sum = f[x] + rest
        <4>1. U \ {x} \in SUBSET D /\ IsFiniteSet(U \ {x})
          BY <3>2, FS_Subset
        <4> QED
          BY <3>1, <3>2, <4>1, SumElement
      <3>4. PICK n \in Int : n = Cardinality(U \ {x}) /\ Cardinality(U) = n + 1
        <4>1. Cardinality(U \ {x}) = Cardinality(U) - 1 /\ Cardinality(U) \in Nat
          BY <3>1, <3>2, FS_RemoveElement, FS_CardinalityType
        <4> QED
          BY <4>1
      <3>5. lo * n <= rest /\ rest <= hi * n
        BY <1>1, <3>1, <3>3, <3>4
      <3>6. lo * (n + 1) <= sum /\ sum <= hi * (n + 1)
        <4>1. lo * (n + 1) = lo * n + lo /\ hi * (n + 1) = hi * n + hi
          OBVIOUS
        <4>2. f[x] \in Int /\ lo <= f[x] /\ f[x] <= hi
          BY <3>1
        <4>3. PICK y \in Int, a \in Int, b \in Int : y = f[x] /\ a = lo * n /\ b = hi * n
          BY <4>2
        <4> QED
          BY <3>3, <3>5, <4>1, <4>2, <4>3
      <3> QED
        BY <3>3, <3>4, <3>6
    <2> QED
      BY <2>1, <2>2
  <1>2. T \in Good
    <2> HIDE DEF Good
    <2> QED
      BY <1>1, SetInduction
  <1> QED
    BY <1>2

\* Summands that are 0 can be left out.
LEMMA SumNulls ==
  ASSUME NEW D, NEW f \in [D -> Int], NEW S \in SUBSET D, IsFiniteSet(S), NEW T \in SUBSET S,
         \A x \in S \ T : f[x] = 0
  PROVE  SumFunctionOnSet(f, S) = SumFunctionOnSet(f, T)
  <1> DEFINE Good == {U \in SUBSET S : SumFunctionOnSet(f, U) = SumFunctionOnSet(f, U \cap T)}
  <1>1. ASSUME NEW U \in SUBSET S, \A V \in SUBSET U : V # U => V \in Good
        PROVE  U \in Good
    <2>1. IsFiniteSet(U) /\ U \in SUBSET D /\ IsFiniteSet(U \cap T) /\ U \cap T \in SUBSET D
      BY FS_Subset
    <2>2. CASE U \subseteq T
      <3>1. U \cap T = U
        BY <2>2
      <3> QED
        BY <3>1
    <2>3. CASE ~(U \subseteq T)
      <3>1. PICK x \in U : x \notin T
        BY <2>3
      <3>2. U \ {x} \in Good /\ (U \ {x}) \cap T = U \cap T /\ f[x] = 0
        BY <1>1, <3>1
      <3>3. SumFunctionOnSet(f, U) = f[x] + SumFunctionOnSet(f, U \ {x})
        BY <2>1, <3>1, SumElement
      <3>4. SumFunctionOnSet(f, U \ {x}) \in Int
        BY <2>1, FS_Subset, SumElement
      <3>5. SumFunctionOnSet(f, U \ {x}) = SumFunctionOnSet(f, U \cap T)
        BY <3>2
      <3>6. SumFunctionOnSet(f, U) = SumFunctionOnSet(f, U \ {x})
        BY <3>2, <3>3, <3>4
      <3> QED
        BY <3>5, <3>6
    <2> QED
      BY <2>2, <2>3
  <1>2. S \in Good
    <2> HIDE DEF Good
    <2> QED
      BY <1>1, SetInduction
  <1>3. S \cap T = T
    OBVIOUS
  <1> QED
    BY <1>2, <1>3

\* A sum is at least the number of its summands that are not 0, and no more when
\* none is above 1.
LEMMA SumCounts ==
  ASSUME NEW D, NEW f \in [D -> Nat], NEW S \in SUBSET D, IsFiniteSet(S), NEW T \in SUBSET S
  PROVE  /\ (\A x \in T : f[x] > 0) => Cardinality(T) <= SumFunctionOnSet(f, S)
         /\ (\A x \in S : f[x] <= 1 /\ (f[x] > 0 => x \in T)) => SumFunctionOnSet(f, S) <= Cardinality(T)
  <1>1. IsFiniteSet(T) /\ T \in SUBSET D /\ Cardinality(T) \in Nat
    BY FS_Subset, FS_CardinalityType
  <1>2. /\ SumFunctionOnSet(f, T) \in Nat /\ SumFunctionOnSet(f, S) \in Nat
        /\ SumFunctionOnSet(f, T) <= SumFunctionOnSet(f, S)
    BY SumSubset
  <1>3. ASSUME \A x \in T : f[x] > 0
        PROVE  Cardinality(T) <= SumFunctionOnSet(f, S)
    <2> DEFINE ones == [x \in D |-> 1]
    <2>1. ones \in [D -> Int] /\ \A x \in T : ones[x] = 1 /\ ones[x] <= f[x]
      BY <1>1, <1>3
    <2> HIDE DEF ones
    <2>2. SumFunctionOnSet(ones, T) = Cardinality(T)
      BY <1>1, <2>1, SumOfOnes
    <2>3. SumFunctionOnSet(ones, T) <= SumFunctionOnSet(f, T)
      BY <1>1, <2>1, SumMonotone
    <2> QED
      BY <1>1, <1>2, <2>2, <2>3
  <1>4. ASSUME \A x \in S : f[x] <= 1 /\ (f[x] > 0 => x \in T)
        PROVE  SumFunctionOnSet(f, S) <= Cardinality(T)
    <2> DEFINE h == [x \in D |-> IF x \in T THEN 1 ELSE 0]
    <2>1. /\ h \in [D -> Int] /\ \A x \in S : f[x] <= h[x]
          /\ \A x \in T : h[x] = 1
          /\ \A x \in S \ T : h[x] = 0
      BY <1>1, <1>4
    <2> HIDE DEF h
    <2>2. SumFunctionOnSet(h, T) = Cardinality(T)
      BY <1>1, <2>1, SumOfOnes
    <2>3. SumFunctionOnSet(f, S) <= SumFunctionOnSet(h, S)
      <3>1. f \in [D -> Int] /\ S \in SUBSET (D \cap D)
        OBVIOUS
      <3> QED
        BY <2>1, <3>1, SumMonotone
    <2>4. SumFunctionOnSet(h, S) = SumFunctionOnSet(h, T)
      BY <1>1, <2>1, SumNulls
    <2> QED
      BY <1>1, <1>2, <2>2, <2>3, <2>4
  <1> QED
    BY <1>3, <1>4

-----------------------------------------------------------------------------
(* Lists.                                                                  *)

\* R orders the elements of S.
Orders(R, S) ==
  /\ \A x, y \in S : x # y => <<x, y>> \in R \/ <<y, x>> \in R
  /\ \A x, y, z \in S : <<x, y>> \in R /\ <<y, z>> \in R => <<x, z>> \in R

\* Among finitely many there is a last one.
LEMMA LastExists ==
  ASSUME NEW S, IsFiniteSet(S), S # {}, NEW R, Orders(R, S)
  PROVE  \E x \in S : \A y \in S \ {x} : <<y, x>> \in R
  <1> DEFINE Good == {T \in SUBSET S :
                        T # {} => \E x \in T : \A y \in T \ {x} : <<y, x>> \in R}
  <1>1. ASSUME NEW T \in SUBSET S, \A U \in SUBSET T : U # T => U \in Good
        PROVE  T \in Good
    <2> SUFFICES ASSUME T # {}
                 PROVE  \E x \in T : \A y \in T \ {x} : <<y, x>> \in R
      OBVIOUS
    <2>1. PICK a \in T : TRUE
      OBVIOUS
    <2>2. CASE T = {a}
      BY <2>1, <2>2
    <2>3. CASE T # {a}
      <3>1. T \ {a} # {} /\ T \ {a} \in Good
        BY <1>1, <2>1, <2>3
      <3>2. PICK m \in T \ {a} : \A y \in (T \ {a}) \ {m} : <<y, m>> \in R
        BY <3>1
      <3>3. CASE <<a, m>> \in R
        BY <3>2, <3>3
      <3>4. CASE <<m, a>> \in R
        BY <2>1, <3>2, <3>4 DEF Orders
      <3> QED
        BY <2>1, <3>2, <3>3, <3>4 DEF Orders
    <2> QED
      BY <2>2, <2>3
  <1> HIDE DEF Good
  <1>2. S \in Good
    BY <1>1, SetInduction
  <1> QED
    BY <1>2 DEF Good

\* So they can be listed in order.
LEMMA ListExists ==
  ASSUME NEW S, IsFiniteSet(S), NEW R, Orders(R, S)
  PROVE  \E list \in [1..Cardinality(S) -> S] :
           \A i, j \in 1..Cardinality(S) : i < j => <<list[i], list[j]>> \in R
  <1> DEFINE Good == {T \in SUBSET S :
                        \E list \in [1..Cardinality(T) -> T] :
                          \A i, j \in 1..Cardinality(T) : i < j => <<list[i], list[j]>> \in R}
  <1>1. ASSUME NEW T \in SUBSET S, \A U \in SUBSET T : U # T => U \in Good
        PROVE  T \in Good
    <2>1. IsFiniteSet(T) /\ Orders(R, T)
      BY FS_Subset DEF Orders
    <2>2. CASE T = {}
      <3>1. Cardinality(T) = 0 /\ 1..0 = {}
        BY <2>2, FS_EmptySet
      <3>2. [i \in 1..0 |-> 0] \in [1..0 -> T]
        BY <3>1
      <3> QED
        BY <3>1, <3>2
    <2>3. CASE T # {}
      <3>1. PICK x \in T : \A y \in T \ {x} : <<y, x>> \in R
        BY <2>1, <2>3, LastExists
      <3> DEFINE U == T \ {x}
                 n == Cardinality(U)
      <3>a. U \in SUBSET T /\ U # T
        BY <3>1
      <3>b. U \in Good
        BY <1>1, <3>a
      <3>c. IsFiniteSet(U) /\ n \in Nat /\ Cardinality(T) \in Nat
        BY <2>1, <3>a, FS_Subset, FS_CardinalityType
      <3>d. n = Cardinality(T) - 1
        BY <2>1, <3>1, FS_RemoveElement, Zenon
      <3>2. U \in Good /\ n \in Nat /\ Cardinality(T) = n + 1
        <4>1. \A a, b \in Nat : a = b - 1 => b = a + 1
          OBVIOUS
        <4> QED
          BY <3>b, <3>c, <3>d, <4>1
      <3>3. PICK old \in [1..n -> U] : \A i, j \in 1..n : i < j => <<old[i], old[j]>> \in R
        BY <3>2
      <3> DEFINE list == [i \in 1..(n + 1) |-> IF i = n + 1 THEN x ELSE old[i]]
      <3> HIDE DEF n
      <3>4. \A i \in 1..(n + 1) : i = n + 1 \/ i \in 1..n
        BY <3>2
      <3>5. list \in [1..(n + 1) -> T]
        BY <3>1, <3>3, <3>4
      <3>6. ASSUME NEW i \in 1..(n + 1), NEW j \in 1..(n + 1), i < j
            PROVE  <<list[i], list[j]>> \in R
        <4>1. i \in 1..n /\ i # n + 1 /\ (j = n + 1 \/ (j \in 1..n /\ j # n + 1))
          BY <3>2, <3>6
        <4> QED
          BY <3>1, <3>3, <3>6, <4>1
      <3> HIDE DEF list
      <3> QED
        BY <3>2, <3>5, <3>6
    <2> QED
      BY <2>2, <2>3
  <1> HIDE DEF Good
  <1>2. S \in Good
    BY <1>1, SetInduction
  <1> QED
    BY <1>2 DEF Good

\* A finite set of integers has a largest one.
LEMMA LargestExists ==
  ASSUME NEW I, IsFiniteSet(I), I # {}, I \subseteq Int
  PROVE  \E m \in I : \A i \in I : i <= m
  <1>0. PICK R : R = {p \in I \X I : p[1] < p[2]}
    OBVIOUS
  <1>1. \A x, y \in I : <<x, y>> \in R <=> x < y
    BY <1>0
  <1>2. Orders(R, I)
    <2>1. \A x, y \in I : x # y => x < y \/ y < x
      OBVIOUS
    <2>2. \A x, y, z \in I : x < y /\ y < z => x < z
      OBVIOUS
    <2> QED
      BY <1>1, <2>1, <2>2, Zenon DEF Orders
  <1>3. PICK m \in I : \A i \in I \ {m} : <<i, m>> \in R
    BY <1>2, LastExists
  <1>4. \A i \in I : i # m => i < m
    BY <1>1, <1>3
  <1>5. \A i \in I : i <= m
    BY <1>4
  <1> QED
    BY <1>5

\* Numbers from one on without a gap.
LEMMA InitialSegment ==
  ASSUME NEW n \in Nat, NEW I \in SUBSET (1..n),
         \A i \in I, j \in 1..n : j < i => j \in I
  PROVE  Cardinality(I) \in Nat /\ Cardinality(I) <= n /\ I = 1..Cardinality(I)
  <1> DEFINE Upto(k) == 1..k
  <1>5. \A k \in Nat : IsFiniteSet(Upto(k)) /\ Cardinality(Upto(k)) = k
    <2> TAKE k \in Nat
    <2>1. 1 \in Int /\ k \in Int
      OBVIOUS
    <2>2. /\ IsFiniteSet(1..k)
          /\ Cardinality(1..k) = IF 1 > k THEN 0 ELSE k - 1 + 1
      BY <2>1, FS_Interval, Zenon
    <2>3. (IF 1 > k THEN 0 ELSE k - 1 + 1) = k
      OBVIOUS
    <2> QED
      BY <2>2, <2>3
  <1>1. IsFiniteSet(1..n) /\ IsFiniteSet(I) /\ Cardinality(1..n) = n
    <2>1. IsFiniteSet(1..n) /\ Cardinality(1..n) = n
      BY <1>5
    <2> QED
      BY <2>1, FS_Subset
  <1>2. Cardinality(I) \in Nat /\ Cardinality(I) <= n
    BY <1>1, FS_Subset, FS_CardinalityType
  <1>3. CASE I = {}
    <2>1. Cardinality(I) = 0
      BY <1>3, FS_EmptySet
    <2> QED
      BY <1>2, <1>3, <2>1
  <1>4. CASE I # {}
    <2>6. \A i \in I : i \in 1..n /\ i \in Int
      OBVIOUS
    <2>8. IsFiniteSet(I) /\ I \subseteq Int
      BY <1>1
    <2>3. PICK m \in I : \A i \in I : i <= m
      BY <1>4, <2>8, LargestExists
    <2>4. I = 1..m
      <3>1. \A i \in 1..m : i \in I
        BY <2>6
      <3>2. \A i \in I : i \in 1..m
        BY <2>3, <2>6
      <3> QED
        BY <3>1, <3>2
    <2>5. Cardinality(1..m) = m
      BY <1>5, <2>6
    <2> QED
      BY <1>2, <2>4, <2>5
  <1> QED
    BY <1>3, <1>4

\* A set of which every list is of elements, each once, in a given order.
LEMMA ListsOfSet ==
  ASSUME NEW S, IsFiniteSet(S), NEW list \in SetToSeqs(S)
  PROVE  /\ list \in Seq(S)
         /\ Len(list) = Cardinality(S) /\ Cardinality(S) \in Nat
         /\ \A i, j \in 1..Len(list) : list[i] = list[j] => i = j
         /\ \A x \in S : \E i \in 1..Len(list) : list[i] = x
  <1> DEFINE n == Cardinality(S)
  <1>1. n \in Nat /\ 1 \in Int /\ n \in Int
    BY FS_CardinalityType
  <1>2. list \in [1..n -> S] /\ \A i, j \in 1..n : i # j => list[i] # list[j]
    BY DEF SetToSeqs
  <1> HIDE DEF n
  <1>3. list \in Seq(S) /\ Len(list) = n
    BY <1>1, <1>2
  <1>4. list \in Injection(1..n, S)
    BY <1>2 DEF Injection, IsInjective
  <1>5. Cardinality(1..n) = n
    <2>1. Cardinality(1..n) = IF 1 > n THEN 0 ELSE n - 1 + 1
      BY <1>1, FS_Interval, Zenon
    <2> QED
      BY <1>1, <2>1
  <1>6. list \in Surjection(1..n, S)
    BY <1>4, <1>5, FS_Injection DEF n
  <1> QED
    BY <1>1, <1>2, <1>3, <1>6 DEF Surjection, n

\* An order has a list, and what ORDER BY chooses is in it.
LEMMA OrderedListExists ==
  ASSUME NEW S, IsFiniteSet(S), NEW R, Orders(R, S), \A x \in S : <<x, x>> \notin R
  PROVE  \E list \in SetToSeqs(S) :
           \A i, j \in 1..Len(list) : i < j => <<list[i], list[j]>> \in R
  <1>1. PICK n : n = Cardinality(S)
    OBVIOUS
  <1>2. n \in Nat
    BY <1>1, FS_CardinalityType
  <1>3. PICK list \in [1..n -> S] :
          \A i, j \in 1..n : i < j => <<list[i], list[j]>> \in R
    BY <1>1, ListExists
  <1>4. Len(list) = n
    BY <1>2, <1>3
  <1>5. ASSUME NEW i \in 1..n, NEW j \in 1..n, i # j
        PROVE  list[i] # list[j]
    <2>1. i < j \/ j < i
      BY <1>5
    <2>2. <<list[i], list[j]>> \in R \/ <<list[j], list[i]>> \in R
      BY <1>3, <2>1
    <2>3. list[i] \in S
      BY <1>3
    <2> QED
      BY <2>2, <2>3
  <1> QED
    BY <1>1, <1>3, <1>4, <1>5 DEF SetToSeqs

\* Pieces of a list, each from where the one before it ends, make it up.
LEMMA PiecesFlatten ==
  ASSUME NEW S, NEW list \in Seq(S), NEW n \in Nat \ {0}, NEW pieces, NEW cut,
         pieces \in [1..n -> Seq(S)],
         cut \in [0..n -> 0..Len(list)], cut[0] = 0, cut[n] = Len(list),
         \A p \in 1..n :
           cut[p - 1] <= cut[p] /\ pieces[p] = SubSeq(list, cut[p - 1] + 1, cut[p])
  PROVE  FlattenSeq(pieces) = list
  <1> DEFINE Joined(f) ==
               f = [p \in 1..n |-> IF p = 1 THEN pieces[p] ELSE f[p - 1] \o pieces[p]]
             h == [p \in 1..n |-> SubSeq(list, 1, cut[p])]
             F == CHOOSE f : Joined(f)
  <1>1. Len(pieces) = n
    OBVIOUS
  <1>2. ASSUME NEW p \in 1..n, p # 1
        PROVE  h[p - 1] \o pieces[p] = h[p] /\ p - 1 \in 1..n
    <2>1. PICK a, b, l : a = cut[p - 1] /\ b = cut[p] /\ l = Len(list)
      OBVIOUS
    <2>2. p - 1 \in 1..n /\ p - 1 \in 0..n /\ p \in 0..n
      BY <1>2
    <2>3. a \in 0..l /\ b \in 0..l /\ a <= b /\ l \in Nat
      BY <2>1, <2>2, LenProperties
    <2>4. 1 \in 1..(l + 1) /\ a \in (1 - 1)..l /\ b \in a..l
      BY <2>3
    <2>5. SubSeq(list, 1, a) \o SubSeq(list, a + 1, b) = SubSeq(list, 1, b)
      BY <2>1, <2>4, ConcatAdjacentSubSeq
    <2> QED
      BY <2>1, <2>2, <2>5
  <1>3. h[1] = pieces[1]
    <2>1. 1 \in 1..n /\ 1 - 1 = 0 /\ 0 + 1 = 1
      OBVIOUS
    <2> QED
      BY <2>1
  <1>4. Joined(h)
    <2>1. \A p \in 1..n : h[p] = IF p = 1 THEN pieces[p] ELSE h[p - 1] \o pieces[p]
      BY <1>2, <1>3
    <2>2. h = [p \in 1..n |-> h[p]]
      OBVIOUS
    <2> HIDE DEF h
    <2> QED
      BY <2>1, <2>2
  <1>5. Joined(F)
    <2> HIDE DEF h, Joined
    <2> QED
      BY <1>4
  <1> DEFINE I == {p \in 1..n : \A q \in 1..p : F[q] = h[q]}
  <1> HIDE DEF F, h
  <1>5a. /\ I \in SUBSET (1..n)
         /\ \A p \in 1..n : p \in I <=> \A q \in 1..p : F[q] = h[q]
    OBVIOUS
  <1> HIDE DEF I
  <1>6. I = 1..Cardinality(I) /\ Cardinality(I) \in Nat /\ Cardinality(I) <= n
    <2>1. I \in SUBSET (1..n)
      BY <1>5a
    <2>2. ASSUME NEW i \in I, NEW j \in 1..n, j < i
          PROVE  j \in I
      <3>1. i \in 1..n /\ \A q \in 1..j : q \in 1..i
        BY <1>5a, <2>2
      <3> QED
        BY <1>5a, <3>1
    <2> QED
      BY <2>1, <2>2, InitialSegment
  <1>7. PICK c : c = Cardinality(I)
    OBVIOUS
  <1>8. c = n
    <2>1. c \in Nat /\ c <= n /\ I = 1..c
      BY <1>6, <1>7
    <2>2. SUFFICES ASSUME c < n
                   PROVE  FALSE
      BY <2>1
    <2>3. PICK p : p = c + 1
      OBVIOUS
    <2>4. /\ p \in 1..n /\ p \notin 1..c
          /\ \A q \in 1..p : q = p \/ q \in 1..c
          /\ p # 1 => p - 1 \in 1..c /\ p - 1 \in 1..n
      BY <2>1, <2>2, <2>3
    <2>7. \A q \in 1..c : F[q] = h[q]
      <3> SUFFICES ASSUME NEW q \in 1..c
                   PROVE  F[q] = h[q]
        OBVIOUS
      <3>1. q \in I /\ q \in 1..n /\ q \in 1..q
        BY <2>1
      <3> QED
        BY <1>5a, <3>1
    <2>5. F[p] = IF p = 1 THEN pieces[p] ELSE F[p - 1] \o pieces[p]
      BY <1>5, <2>4
    <2>6. F[p] = h[p]
      <3>1. CASE p = 1
        BY <1>3, <2>5, <3>1
      <3>2. CASE p # 1
        <4>2. F[p - 1] = h[p - 1]
          BY <2>7, <2>4, <3>2
        <4> QED
          BY <1>2, <2>4, <2>5, <3>2, <4>2
      <3> QED
        BY <3>1, <3>2
    <2>8. \A q \in 1..p : F[q] = h[q]
      BY <2>4, <2>6, <2>7
    <2>9. p \in I
      BY <1>5a, <2>4, <2>8
    <2> QED
      BY <2>1, <2>4, <2>9
  <1>9. F[n] = h[n]
    <2>1. n \in I /\ n \in 1..n
      BY <1>6, <1>7, <1>8
    <2> QED
      BY <1>5a, <2>1
  <1>10. h[n] = list
    <2>1. n \in 1..n
      OBVIOUS
    <2> QED
      BY <2>1, SubSeqFull DEF h
  <1>11. FlattenSeq(pieces) = F[n]
    BY <1>1 DEF FlattenSeq, F
  <1> QED
    BY <1>9, <1>10, <1>11

\* Where the pages of a list end.
PageEnd(total, limit, p) ==
  IF p = TotalPages(total, limit) THEN total ELSE p * LimitOf(limit)

\* Page by page through a list of some length, from its start to its end.
LEMMA PageEnds ==
  ASSUME NEW total \in Nat, NEW limit \in Int
  PROVE  /\ TotalPages(total, limit) \in Nat
         /\ TotalPages(total, limit) = 0 <=> total = 0
         /\ PageEnd(total, limit, 0) = 0
         /\ \A p \in 0..TotalPages(total, limit) : PageEnd(total, limit, p) \in 0..total
         /\ \A p \in 1..TotalPages(total, limit) :
              /\ PageEnd(total, limit, p - 1) <= PageEnd(total, limit, p)
              /\ Skip(p, limit) = PageEnd(total, limit, p - 1)
              /\ PageEnd(total, limit, p) =
                   IF Skip(p, limit) + LimitOf(limit) < total
                   THEN Skip(p, limit) + LimitOf(limit) ELSE total
  <1> DEFINE L == LimitOf(limit)
             t == TotalPages(total, limit)
  <1>1. L \in Nat \ {0}
    BY DEF LimitOf
  <1>2. t \in Nat /\ L * t <= total + L - 1 /\ total + L - 1 < L * t + L
    <2>1. total + L - 1 \in Nat
      BY <1>1
    <2> HIDE DEF L
    <2>2. /\ (total + L - 1) \div L \in Nat
          /\ L * ((total + L - 1) \div L) <= total + L - 1
          /\ total + L - 1 < L * ((total + L - 1) \div L) + L
      BY <1>1, <2>1, Division
    <2> QED
      BY <2>2 DEF TotalPages, L
  <1>3. \A p \in 1..t : Skip(p, limit) = (p - 1) * L
    BY DEF Skip, PageOf
  <1> HIDE DEF L, t
  <1>5. t = 0 <=> total = 0
    <2>1. t = 0 => total = 0
      <3>1. SUFFICES ASSUME t = 0
                     PROVE  total = 0
        OBVIOUS
      <3>2. L * t = 0
        BY <1>1, <3>1
      <3> QED
        BY <1>1, <1>2, <3>2
    <2>2. t # 0 => total # 0
      <3>1. SUFFICES ASSUME t # 0, total = 0
                     PROVE  FALSE
        OBVIOUS
      <3>2. L * t >= L
        BY <1>1, <1>2, <3>1, Z3
      <3> QED
        BY <1>1, <1>2, <3>1, <3>2
    <2> QED
      BY <2>1, <2>2
  <1>6. ASSUME NEW p \in 0..t, p # t
        PROVE  p * L \in Nat /\ p * L < total
    <2>1. p < t /\ p \in Int
      BY <1>2, <1>6
    <2>2. p * L <= (t - 1) * L
      BY <1>1, <1>2, <2>1, NextMultiple
    <2>3. (t - 1) * L = L * t - L /\ p * L \in Nat
      BY <1>1, <1>2, Z3
    <2> QED
      BY <1>1, <1>2, <2>2, <2>3
  <1>7. ASSUME NEW p \in 1..t
        PROVE  /\ p - 1 \in 0..t /\ p - 1 # t /\ p \in 0..t
               /\ (p - 1) * L + L = p * L
               /\ (p - 1) * L <= p * L
    BY <1>1, <1>2, Z3
  <1> DEFINE E(p) == IF p = t THEN total ELSE p * L
  <1>8. E(0) = 0
    BY <1>1, <1>5
  <1>9. \A p \in 0..t : E(p) \in 0..total
    BY <1>6
  <1>10. ASSUME NEW p \in 1..t
         PROVE  /\ E(p - 1) <= E(p)
                /\ (p - 1) * L = E(p - 1)
                /\ E(p) = IF (p - 1) * L + L < total THEN (p - 1) * L + L ELSE total
    <2>1. E(p - 1) = (p - 1) * L /\ (p - 1) * L \in Nat /\ (p - 1) * L < total
      BY <1>6, <1>7
    <2>2. CASE p = t
      <3>1. p * L >= total
        <4>1. L * t = t * L
          BY <1>1, <1>2
        <4> QED
          BY <1>1, <1>2, <2>2, <4>1
      <3>2. PICK a \in Nat, b \in Int : a = (p - 1) * L /\ b = p * L
        BY <1>1, <2>1
      <3>3. a + L = b /\ a < total /\ b >= total
        BY <1>7, <2>1, <3>1, <3>2
      <3>4. E(p) = total /\ E(p - 1) = a
        BY <2>1, <2>2, <3>2
      <3> HIDE DEF E
      <3> QED
        BY <1>1, <3>2, <3>3, <3>4
    <2>3. CASE p # t
      <3>1. p * L \in Nat /\ p * L < total
        BY <1>6, <1>7, <2>3
      <3> QED
        BY <1>7, <2>1, <2>3, <3>1
    <2> QED
      BY <2>2, <2>3
  <1>11. \A p : PageEnd(total, limit, p) = E(p)
    BY DEF PageEnd, t, L
  <1> HIDE DEF E
  <1> QED
    BY <1>2, <1>3, <1>5, <1>8, <1>9, <1>10, <1>11 DEF t, L

\* The pages of a list, one after the other, are the list.
LEMMA PagesFlatten ==
  ASSUME NEW S, NEW list \in Seq(S), NEW limit \in Int
  PROVE  FlattenSeq([p \in 1..TotalPages(Len(list), limit) |-> PageRows(list, p, limit)])
           = list
  <1>1. PICK n : n = Len(list)
    OBVIOUS
  <1>2. PICK t : t = TotalPages(n, limit)
    OBVIOUS
  <1>3. n \in Nat
    BY <1>1, LenProperties
  <1>4. PICK cut : cut = [p \in 0..t |-> PageEnd(n, limit, p)]
    OBVIOUS
  <1>5. PICK pieces : pieces = [p \in 1..t |-> PageRows(list, p, limit)]
    OBVIOUS
  <1>6. t \in Nat /\ (t = 0 <=> n = 0)
    BY <1>2, <1>3, PageEnds
  <1>7. cut \in [0..t -> 0..n] /\ cut[0] = 0 /\ cut[t] = n
    <2>1. \A p \in 0..t : PageEnd(n, limit, p) \in 0..n
      BY <1>2, <1>3, PageEnds
    <2>2. PageEnd(n, limit, 0) = 0 /\ PageEnd(n, limit, t) = n
      BY <1>2, <1>3, PageEnds DEF PageEnd
    <2> QED
      BY <1>4, <1>6, <2>1, <2>2
  <1>8. ASSUME NEW p \in 1..t
        PROVE  /\ cut[p - 1] <= cut[p] /\ cut[p - 1] \in 0..n /\ cut[p] \in 0..n
               /\ pieces[p] = SubSeq(list, cut[p - 1] + 1, cut[p])
    <2>1. p \in 0..t /\ p - 1 \in 0..t
      BY <1>6
    <2>2. /\ PageEnd(n, limit, p - 1) <= PageEnd(n, limit, p)
          /\ Skip(p, limit) = PageEnd(n, limit, p - 1)
          /\ PageEnd(n, limit, p) = IF Skip(p, limit) + LimitOf(limit) < n
                                    THEN Skip(p, limit) + LimitOf(limit) ELSE n
      BY <1>2, <1>3, PageEnds
    <2>3. cut[p] = PageEnd(n, limit, p) /\ cut[p - 1] = PageEnd(n, limit, p - 1)
      BY <1>4, <2>1
    <2>4. PageRows(list, p, limit) = SubSeq(list, cut[p - 1] + 1, cut[p])
      BY <1>1, <2>2, <2>3, Zenon DEF PageRows
    <2> QED
      BY <1>5, <1>7, <2>1, <2>2, <2>3, <2>4
  <1>9. pieces \in [1..t -> Seq(S)]
    <2>1. ASSUME NEW p \in 1..t
          PROVE  pieces[p] \in Seq(S)
      <3>1. PICK a, b : a = cut[p - 1] + 1 /\ b = cut[p]
        OBVIOUS
      <3>2. a \in Int /\ b \in Int /\ \A i \in a..b : i \in 1..n
        BY <1>3, <1>8, <3>1
      <3>3. \A i \in a..b : list[i] \in S
        BY <1>1, <3>2, ElementOfSeq
      <3>4. SubSeq(list, a, b) \in Seq(S)
        BY <3>2, <3>3, SubSeqProperties
      <3> QED
        BY <1>8, <3>1, <3>4
    <2> QED
      BY <1>5, <2>1
  <1>10. FlattenSeq(pieces) = list
    <2>1. CASE t = 0
      <3>1. pieces = << >> /\ list = << >>
        BY <1>1, <1>5, <1>6, <2>1
      <3> QED
        BY <3>1 DEF FlattenSeq
    <2>2. CASE t # 0
      <3>1. t \in Nat \ {0}
        BY <1>6, <2>2
      <3> QED
        BY <1>1, <1>7, <1>8, <1>9, <3>1, PiecesFlatten
    <2> QED
      BY <2>1, <2>2
  <1> QED
    BY <1>1, <1>2, <1>5, <1>10

\* A list read backwards.
LEMMA Reversed ==
  ASSUME NEW S, NEW list \in Seq(S)
  PROVE  /\ Reverse(list) \in Seq(S) /\ Len(Reverse(list)) = Len(list)
         /\ \A i \in 1..Len(list) : Reverse(list)[i] = list[Len(list) - i + 1]
  <1>1. Len(list) \in Nat /\ \A i \in 1..Len(list) : list[i] \in S
    BY LenProperties, ElementOfSeq
  <1>2. \A i \in 1..Len(list) : Len(list) - i + 1 \in 1..Len(list)
    BY <1>1
  <1>3. Reverse(list) \in [1..Len(list) -> S]
    BY <1>1, <1>2 DEF Reverse
  <1> QED
    BY <1>1, <1>3 DEF Reverse

\* A piece of a list read backwards is a piece of the list read backwards.
LEMMA ReversedPiece ==
  ASSUME NEW S, NEW list \in Seq(S), NEW a \in 0..Len(list), NEW b \in a..Len(list)
  PROVE  Reverse(SubSeq(list, a + 1, b)) =
           SubSeq(Reverse(list), Len(list) - b + 1, Len(list) - a)
  <1>1. PICK n : n = Len(list)
    OBVIOUS
  <1>2. n \in Nat /\ a \in 0..n /\ b \in a..n /\ a \in Int /\ b \in Int /\ a <= b
    BY <1>1, LenProperties
  <1>3. PICK piece : piece = SubSeq(list, a + 1, b)
    OBVIOUS
  <1>4. PICK back : back = Reverse(list)
    OBVIOUS
  <1>5. PICK other : other = SubSeq(back, n - b + 1, n - a)
    OBVIOUS
  <1>6. back \in Seq(S) /\ Len(back) = n /\ \A i \in 1..n : back[i] = list[n - i + 1]
    BY <1>1, <1>4, Reversed
  <1>7. /\ piece \in Seq(S) /\ Len(piece) = b - a
        /\ \A i \in 1..(b - a) : piece[i] = list[a + i]
    <2>1. a + 1 \in Int /\ \A i \in (a + 1)..b : i \in 1..Len(list)
      BY <1>1, <1>2
    <2>2. \A i \in (a + 1)..b : list[i] \in S
      BY <2>1, ElementOfSeq
    <2>3. /\ piece \in Seq(S) /\ Len(piece) = IF a + 1 <= b THEN b - (a + 1) + 1 ELSE 0
          /\ \A i \in 1..(b - (a + 1) + 1) : piece[i] = list[a + 1 + i - 1]
      BY <1>2, <1>3, <2>1, <2>2, SubSeqProperties
    <2> QED
      BY <1>2, <2>3
  <1>8. /\ other \in Seq(S) /\ Len(other) = b - a
        /\ \A i \in 1..(b - a) : other[i] = back[n - b + i]
    <2>1. /\ n - b + 1 \in Int /\ n - a \in Int
          /\ \A i \in (n - b + 1)..(n - a) : i \in 1..Len(back)
      BY <1>2, <1>6
    <2>2. \A i \in (n - b + 1)..(n - a) : back[i] \in S
      BY <1>6, <2>1, ElementOfSeq
    <2>3. /\ other \in Seq(S)
          /\ Len(other) = IF n - b + 1 <= n - a THEN n - a - (n - b + 1) + 1 ELSE 0
          /\ \A i \in 1..(n - a - (n - b + 1) + 1) : other[i] = back[n - b + 1 + i - 1]
      BY <1>5, <2>1, <2>2, SubSeqProperties
    <2> QED
      BY <1>2, <2>3
  <1>9. /\ Reverse(piece) \in Seq(S) /\ Len(Reverse(piece)) = b - a
        /\ \A i \in 1..(b - a) : Reverse(piece)[i] = piece[b - a - i + 1]
    <2>1. /\ Reverse(piece) \in Seq(S) /\ Len(Reverse(piece)) = Len(piece)
          /\ \A i \in 1..Len(piece) : Reverse(piece)[i] = piece[Len(piece) - i + 1]
      BY <1>7, Reversed
    <2> QED
      BY <1>7, <2>1
  <1>10. ASSUME NEW i \in 1..(b - a)
         PROVE  Reverse(piece)[i] = other[i]
    <2>1. /\ b - a - i + 1 \in 1..(b - a)
          /\ n - b + i \in 1..n
          /\ a + (b - a - i + 1) = n - (n - b + i) + 1
      BY <1>2
    <2>2. Reverse(piece)[i] = list[a + (b - a - i + 1)]
      BY <1>7, <1>9, <2>1
    <2>3. other[i] = list[n - (n - b + i) + 1]
      BY <1>6, <1>8, <2>1
    <2> QED
      BY <2>1, <2>2, <2>3
  <1>11. Reverse(piece) = other
    BY <1>8, <1>9, <1>10, SeqEqual
  <1> QED
    BY <1>1, <1>3, <1>4, <1>5, <1>11

\* The pages from the last to the first, each read backwards, are the list
\* read backwards.
LEMMA PagesFlattenBackwards ==
  ASSUME NEW S, NEW list \in Seq(S), NEW limit \in Int, NEW t,
         t = TotalPages(Len(list), limit)
  PROVE  FlattenSeq([p \in 1..t |-> Reverse(PageRows(list, t + 1 - p, limit))])
           = Reverse(list)
  <1>1. PICK n : n = Len(list)
    OBVIOUS
  <1>3. n \in Nat
    BY <1>1, LenProperties
  <1>b. PICK back : back = Reverse(list)
    OBVIOUS
  <1>c. back \in Seq(S) /\ Len(back) = n
    BY <1>1, <1>b, Reversed
  <1>4. PICK cut : cut = [p \in 0..t |-> n - PageEnd(n, limit, t - p)]
    OBVIOUS
  <1>5. PICK pieces : pieces = [p \in 1..t |-> Reverse(PageRows(list, t + 1 - p, limit))]
    OBVIOUS
  <1>6. t \in Nat /\ (t = 0 <=> n = 0)
    BY <1>1, <1>3, PageEnds
  <1>7. cut \in [0..t -> 0..n] /\ cut[0] = 0 /\ cut[t] = n
    <2>1. \A p \in 0..t : PageEnd(n, limit, p) \in 0..n
      BY <1>1, <1>3, PageEnds
    <2>2. PageEnd(n, limit, 0) = 0 /\ PageEnd(n, limit, t) = n
      BY <1>1, <1>3, PageEnds DEF PageEnd
    <2>3. \A p \in 0..t : t - p \in 0..t /\ n - PageEnd(n, limit, t - p) \in 0..n
      BY <1>3, <1>6, <2>1
    <2>4. cut \in [0..t -> 0..n]
      BY <1>4, <2>3
    <2>5. cut[0] = n - PageEnd(n, limit, t) /\ cut[t] = n - PageEnd(n, limit, 0)
      BY <1>4, <1>6
    <2> QED
      BY <1>3, <2>2, <2>4, <2>5
  <1>8. ASSUME NEW p \in 1..t
        PROVE  /\ cut[p - 1] <= cut[p] /\ cut[p - 1] \in 0..n /\ cut[p] \in 0..n
               /\ pieces[p] = SubSeq(back, cut[p - 1] + 1, cut[p])
    <2>0. PICK q : q = t + 1 - p
      OBVIOUS
    <2>1. /\ p \in 0..t /\ p - 1 \in 0..t /\ q \in 1..t
          /\ t - p = q - 1 /\ t - (p - 1) = q
      BY <1>6, <2>0
    <2>a. PICK a, b : a = PageEnd(n, limit, q - 1) /\ b = PageEnd(n, limit, q)
      OBVIOUS
    <2>2. /\ a <= b /\ Skip(q, limit) = a
          /\ b = IF Skip(q, limit) + LimitOf(limit) < n
                 THEN Skip(q, limit) + LimitOf(limit) ELSE n
      BY <1>1, <1>3, <2>1, <2>a, PageEnds
    <2>3. cut[p] = n - a /\ cut[p - 1] = n - b
      BY <1>4, <2>1, <2>a
    <2>4. PageRows(list, q, limit) = SubSeq(list, a + 1, b)
      BY <1>1, <2>2, Zenon DEF PageRows
    <2>5. a \in 0..n /\ b \in 0..n
      <3>1. q - 1 \in 0..t /\ q \in 0..t
        BY <1>6, <2>1
      <3> QED
        BY <1>1, <1>3, <2>a, <3>1, PageEnds
    <2>6. b \in a..n
      BY <2>2, <2>5
    <2>7. Reverse(SubSeq(list, a + 1, b)) = SubSeq(back, n - b + 1, n - a)
      BY <1>1, <1>b, <2>5, <2>6, ReversedPiece
    <2>8. pieces[p] = Reverse(PageRows(list, q, limit))
      BY <1>5, <2>0
    <2>9. pieces[p] = SubSeq(back, cut[p - 1] + 1, cut[p])
      BY <2>3, <2>4, <2>7, <2>8, Zenon
    <2>10. a <= b
      BY <2>2
    <2>11. n - b <= n - a /\ n - b \in 0..n /\ n - a \in 0..n
      BY <1>3, <2>5, <2>10
    <2> QED
      BY <2>3, <2>9, <2>11
  <1>9. pieces \in [1..t -> Seq(S)]
    <2>1. ASSUME NEW p \in 1..t
          PROVE  pieces[p] \in Seq(S)
      <3>1. PICK a, b : a = cut[p - 1] + 1 /\ b = cut[p]
        OBVIOUS
      <3>2. a \in Int /\ b \in Int /\ \A i \in a..b : i \in 1..n
        BY <1>3, <1>8, <3>1
      <3>3. \A i \in a..b : back[i] \in S
        BY <1>c, <3>2, ElementOfSeq
      <3>4. SubSeq(back, a, b) \in Seq(S)
        BY <3>2, <3>3, SubSeqProperties
      <3> QED
        BY <1>8, <3>1, <3>4
    <2> QED
      BY <1>5, <2>1
  <1>10. FlattenSeq(pieces) = back
    <2>1. CASE t = 0
      <3>1. pieces = << >> /\ back = << >>
        BY <1>c, <1>5, <1>6, <2>1
      <3> QED
        BY <3>1 DEF FlattenSeq
    <2>2. CASE t # 0
      <3>1. t \in Nat \ {0}
        BY <1>6, <2>2
      <3> QED
        BY <1>c, <1>7, <1>8, <1>9, <3>1, PiecesFlatten
    <2> QED
      BY <2>1, <2>2
  <1> QED
    BY <1>b, <1>5, <1>10
=============================================================================
