----------------------------- MODULE SumsProofs -----------------------------
(***************************************************************************)
(* Sums of a function over finite sets.  SumFunctionOnSet is a recursive   *)
(* function on the subsets of a set, over their elements in the order in   *)
(* which CHOOSE takes them.  It is shown to be well defined and not to     *)
(* depend on that order.  Induction over the finite subsets of a set takes *)
(* a smallest one of those for which a statement fails; so does induction  *)
(* over the numbers.                                                       *)
(***************************************************************************)
EXTENDS FiniteSetTheorems, TLAPS

\* Of a set of finite subsets of S one has no proper subset in the set.
LEMMA SmallestSet ==
    ASSUME NEW S, IsFiniteSet(S), NEW B, B \subseteq SUBSET S, B # {}
    PROVE  \E s \in B : \A t \in B : t \subseteq s => t = s
<1> DEFINE R == StrictSubsetOrdering(S)
<1>1. IsWellFoundedOn(R, SUBSET S)
  BY FS_StrictSubsetOrderingWellFounded, FS_FiniteSubsetsOfFinite
<1>2. PICK s \in B : \A t \in B : ~(<<t, s>> \in R)
  <2> HIDE DEF R
  <2> QED
    BY <1>1, WFMin
<1>3. ASSUME NEW t \in B, t \subseteq s PROVE t = s
  <2>1. <<t, s>> \in (SUBSET S) \X (SUBSET S)
    OBVIOUS
  <2> QED
    BY <1>2, <1>3, <2>1 DEF StrictSubsetOrdering
<1> QED
  BY <1>3

\* Induction over the numbers: a set of them has a least one.
LEMMA LeastNumber ==
    ASSUME NEW B, B \subseteq Nat, B # {}
    PROVE  \E m \in B : \A k \in B : m <= k
<1>1. PICK n \in B : TRUE
  OBVIOUS
<1> DEFINE S == 1 .. n
           C == {1 .. m : m \in {j \in B : j <= n}}
<1>2. n \in Nat /\ IsFiniteSet(S)
  BY <1>1, FS_Interval
<1>3. C \subseteq SUBSET S
  BY <1>2
<1>4. S \in C
  BY <1>1, <1>2
<1> HIDE DEF C, S
<1>5. PICK s \in C : \A t \in C : t \subseteq s => t = s
  BY <1>2, <1>3, <1>4, SmallestSet
<1>6. PICK m \in B : m <= n /\ s = 1 .. m
  BY <1>5 DEF C
<1>7. ASSUME NEW k \in B, k < m PROVE FALSE
  <2>1. k \in Nat /\ m \in Nat /\ k <= n
    BY <1>2, <1>6, <1>7
  <2>2. 1 .. k \in C
    BY <2>1, <1>7 DEF C
  <2>3. 1 .. k \subseteq s
    BY <2>1, <1>6, <1>7
  <2>4. 1 .. k = 1 .. m
    BY <1>5, <1>6, <2>2, <2>3
  <2>5. m \in 1 .. m
    BY <1>7, <2>1
  <2> QED
    BY <1>7, <2>1, <2>4, <2>5
<1> QED
  BY <1>6, <1>7
-----------------------------------------------------------------------------
(* The recursive function *)

One(s) == CHOOSE x \in s : TRUE

\* g sums f over the subsets of U.
Sums(g, f, U) ==
    g = [s \in SUBSET U |-> IF s = {} THEN 0
                            ELSE f[One(s)] + g[s \ {One(s)}]]

SumsOf(f, U) == CHOOSE g : Sums(g, f, U)

LEMMA OneOf == ASSUME NEW s, s # {} PROVE One(s) \in s
BY DEF One

LEMMA SumUnfold ==
    ASSUME NEW f, NEW U
    PROVE  SumFunctionOnSet(f, U) = SumsOf(f, U)[U]
BY DEF SumFunctionOnSet, FoldFunctionOnSet, MapThenFoldSet, Sums, SumsOf, One

LEMMA SumsAt ==
    ASSUME NEW f, NEW g, NEW U, Sums(g, f, U), NEW s \in SUBSET U
    PROVE  /\ s = {} => g[s] = 0
           /\ s # {} => g[s] = f[One(s)] + g[s \ {One(s)}]
<1>1. g[s] = [t \in SUBSET U |-> IF t = {} THEN 0
                                 ELSE f[One(t)] + g[t \ {One(t)}]][s]
  BY DEF Sums
<1> QED
  BY <1>1

\* Where two of them are defined they agree.
LEMMA SumsAgree ==
    ASSUME NEW f, NEW g, NEW h, NEW U, NEW V, IsFiniteSet(U),
           Sums(g, f, U), Sums(h, f, V), NEW s \in SUBSET U, s \subseteq V
    PROVE  g[s] = h[s]
<1> DEFINE B == {t \in SUBSET U : t \subseteq V /\ g[t] # h[t]}
<1> SUFFICES ASSUME B # {} PROVE FALSE
  OBVIOUS
<1>1. PICK t \in B : \A r \in B : r \subseteq t => r = t
  <2>1. B \subseteq SUBSET U
    OBVIOUS
  <2> HIDE DEF B
  <2> QED
    BY <2>1, SmallestSet
<1>2. t # {}
  BY <1>1, SumsAt
<1>3. One(t) \in t /\ t \ {One(t)} \subseteq t /\ t \ {One(t)} # t
  BY <1>2, OneOf
<1>4. g[t \ {One(t)}] = h[t \ {One(t)}]
  BY <1>1, <1>3
<1>5. g[t] = f[One(t)] + g[t \ {One(t)}] /\ h[t] = f[One(t)] + h[t \ {One(t)}]
  BY <1>2, SumsAt
<1> QED
  BY <1>4, <1>5

LEMMA SumsExist ==
    ASSUME NEW f, NEW S, IsFiniteSet(S), NEW U \in SUBSET S
    PROVE  Sums(SumsOf(f, U), f, U)
<1> DEFINE B == {t \in SUBSET S : ~Sums(SumsOf(f, t), f, t)}
<1> SUFFICES ASSUME B # {} PROVE FALSE
  OBVIOUS
<1>1. PICK V \in B : \A r \in B : r \subseteq V => r = V
  <2>1. B \subseteq SUBSET S
    OBVIOUS
  <2> HIDE DEF B
  <2> QED
    BY <2>1, SmallestSet
<1>2. ASSUME NEW t, t \subseteq V, t # V PROVE Sums(SumsOf(f, t), f, t)
  BY <1>1, <1>2
<1>3. ASSUME NEW t, t \subseteq V PROVE IsFiniteSet(t)
  BY <1>1, <1>3, FS_Subset
<1> DEFINE h == [s \in SUBSET V |->
                    IF s = {} THEN 0
                    ELSE LET r == s \ {One(s)}
                         IN  f[One(s)] + SumsOf(f, r)[r]]
<1>4. ASSUME NEW s \in SUBSET V, s # {}
      PROVE  LET r == s \ {One(s)} IN h[r] = SumsOf(f, r)[r]
  <2> DEFINE r == s \ {One(s)}
  <2>1. r \in SUBSET V /\ r # V /\ IsFiniteSet(r)
    BY <1>3, <1>4, OneOf
  <2>2. Sums(SumsOf(f, r), f, r)
    BY <1>2, <2>1
  <2>3. CASE r = {}
    BY <2>2, <2>3, SumsAt
  <2>4. CASE r # {}
    <3> DEFINE q == r \ {One(r)}
    <3> HIDE DEF r
    <3>1. q \in SUBSET V /\ q # V /\ q \subseteq r /\ q \in SUBSET q
      BY <2>1, <2>4, OneOf
    <3>2. Sums(SumsOf(f, q), f, q)
      BY <1>2, <3>1
    <3>3. h[r] = f[One(r)] + SumsOf(f, q)[q]
      BY <2>1, <2>4
    <3>4. SumsOf(f, r)[r] = f[One(r)] + SumsOf(f, r)[q]
      BY <2>2, <2>4, SumsAt
    <3>5. SumsOf(f, r)[q] = SumsOf(f, q)[q]
      BY <2>1, <2>2, <3>1, <3>2, SumsAgree
    <3> QED
      BY <3>3, <3>4, <3>5 DEF r
  <2> QED
    BY <2>3, <2>4
<1>5. Sums(h, f, V)
  <2>1. h = [s \in SUBSET V |-> IF s = {} THEN 0
                                ELSE f[One(s)] + h[s \ {One(s)}]]
    <3>1. \A s \in SUBSET V : s # {} =>
              h[s \ {One(s)}] = SumsOf(f, s \ {One(s)})[s \ {One(s)}]
      BY <1>4
    <3>2. \A s \in SUBSET V :
              h[s] = IF s = {} THEN 0 ELSE f[One(s)] + h[s \ {One(s)}]
      BY <3>1
    <3>3. h = [s \in SUBSET V |-> h[s]]
      OBVIOUS
    <3> HIDE DEF h
    <3> QED
      BY <3>2, <3>3
  <2> QED
    BY <2>1 DEF Sums
<1>6. Sums(SumsOf(f, V), f, V)
  BY <1>5 DEF SumsOf
<1> QED
  BY <1>1, <1>6
-----------------------------------------------------------------------------
(* Sums *)

LEMMA SumOfNone == ASSUME NEW f PROVE SumFunctionOnSet(f, {}) = 0
<1>1. IsFiniteSet({})
  BY FS_EmptySet
<1>2. Sums(SumsOf(f, {}), f, {})
  BY <1>1, SumsExist
<1> QED
  BY <1>2, SumsAt, SumUnfold

LEMMA SumFromOne ==
    ASSUME NEW f, NEW S, IsFiniteSet(S), S # {}
    PROVE  SumFunctionOnSet(f, S) = f[One(S)] + SumFunctionOnSet(f, S \ {One(S)})
<1> DEFINE r == S \ {One(S)}
<1>1. r \in SUBSET S /\ IsFiniteSet(r) /\ S \in SUBSET S /\ r \in SUBSET r
  BY FS_Subset
<1> HIDE DEF r
<1>2. Sums(SumsOf(f, S), f, S) /\ Sums(SumsOf(f, r), f, r)
  BY <1>1, SumsExist
<1>3. SumsOf(f, S)[r] = SumsOf(f, r)[r]
  BY <1>1, <1>2, SumsAgree
<1>4. SumsOf(f, S)[S] = f[One(S)] + SumsOf(f, S)[r]
  BY <1>1, <1>2, SumsAt DEF r
<1> QED
  BY <1>3, <1>4, SumUnfold DEF r

\* A sum of members of a set that is closed under addition is one.
LEMMA SumStaysIn ==
    ASSUME NEW f, NEW S, IsFiniteSet(S),
           NEW Y, 0 \in Y, \A i, j \in Y : i + j \in Y, \A x \in S : f[x] \in Y
    PROVE  SumFunctionOnSet(f, S) \in Y
<1> DEFINE Sum(t) == SumFunctionOnSet(f, t)
           B == {t \in SUBSET S : Sum(t) \notin Y}
<1> SUFFICES ASSUME B # {} PROVE FALSE
  OBVIOUS
<1>1. PICK t \in B : \A r \in B : r \subseteq t => r = t
  <2>1. B \subseteq SUBSET S
    OBVIOUS
  <2> HIDE DEF B
  <2> QED
    BY <2>1, SmallestSet
<1>2. t # {}
  <2>1. Sum({}) = 0
    BY SumOfNone
  <2>2. Sum(t) \notin Y
    BY <1>1
  <2> HIDE DEF Sum
  <2> QED
    BY <2>1, <2>2
<1>3. /\ One(t) \in t /\ IsFiniteSet(t)
      /\ t \ {One(t)} \subseteq t /\ t \ {One(t)} # t
  BY <1>1, <1>2, OneOf, FS_Subset
<1>4. Sum(t \ {One(t)}) \in Y /\ f[One(t)] \in Y
  BY <1>1, <1>3
<1>5. Sum(t) = f[One(t)] + Sum(t \ {One(t)})
  BY <1>2, <1>3, SumFromOne
<1> QED
  BY <1>1, <1>4, <1>5

LEMMA SumIsInt ==
    ASSUME NEW f, NEW S, IsFiniteSet(S), \A x \in S : f[x] \in Int
    PROVE  SumFunctionOnSet(f, S) \in Int
BY SumStaysIn

LEMMA SumIsNat ==
    ASSUME NEW f, NEW S, IsFiniteSet(S), \A x \in S : f[x] \in Nat
    PROVE  SumFunctionOnSet(f, S) \in Nat
<1> DEFINE Y == Nat
<1>1. 0 \in Y /\ (\A i, j \in Y : i + j \in Y) /\ \A x \in S : f[x] \in Y
  OBVIOUS
<1> HIDE DEF Y
<1>2. SumFunctionOnSet(f, S) \in Y
  BY <1>1, SumStaysIn
<1> QED
  BY <1>2 DEF Y

\* Whichever element is taken first.
LEMMA SumTakes ==
    ASSUME NEW f, NEW S, IsFiniteSet(S), \A x \in S : f[x] \in Int, NEW x \in S
    PROVE  SumFunctionOnSet(f, S) = f[x] + SumFunctionOnSet(f, S \ {x})
<1> DEFINE Sum(t) == SumFunctionOnSet(f, t)
           B == {t \in SUBSET S : \E y \in t : Sum(t) # f[y] + Sum(t \ {y})}
<1> SUFFICES ASSUME B # {} PROVE FALSE
  BY DEF B
<1>1. PICK t \in B : \A r \in B : r \subseteq t => r = t
  <2>1. B \subseteq SUBSET S
    OBVIOUS
  <2> HIDE DEF B
  <2> QED
    BY <2>1, SmallestSet
<1>2. PICK y \in t : Sum(t) # f[y] + Sum(t \ {y})
  BY <1>1
<1> DEFINE c == One(t)
           tc == t \ {c}
           ty == t \ {y}
           tcy == t \ {c, y}
<1>3. /\ c \in t /\ IsFiniteSet(t) /\ Sum(t) = f[c] + Sum(tc)
      /\ tc \in SUBSET S /\ ty \in SUBSET S /\ tcy \in SUBSET S
      /\ IsFiniteSet(tcy)
  <2>1. c \in t
    BY <1>2, OneOf
  <2>2. IsFiniteSet(t) /\ IsFiniteSet(tcy)
    BY <1>1, FS_Subset
  <2>3. Sum(t) = f[c] + Sum(tc)
    BY <1>2, <2>2, SumFromOne
  <2> QED
    BY <1>1, <2>1, <2>2, <2>3
<1>4. c # y
  BY <1>2, <1>3
<1>5. Sum(tc) = f[y] + Sum(tcy)
  <2>1. tc \notin B /\ y \in tc /\ tc \ {y} = tcy
    BY <1>1, <1>2, <1>3, <1>4
  <2> QED
    BY <1>3, <2>1
<1>6. Sum(ty) = f[c] + Sum(tcy)
  <2>1. ty \notin B /\ c \in ty /\ ty \ {c} = tcy
    BY <1>1, <1>2, <1>3, <1>4
  <2> QED
    BY <1>3, <2>1
<1>7. Sum(tcy) \in Int /\ f[c] \in Int /\ f[y] \in Int
  BY <1>1, <1>2, <1>3, SumIsInt
<1> HIDE DEF Sum
<1> QED
  BY <1>2, <1>3, <1>5, <1>6, <1>7

\* Functions that agree on a set have the same sum over it.
LEMMA SumAgrees ==
    ASSUME NEW f, NEW g, NEW S, IsFiniteSet(S), \A x \in S : f[x] = g[x]
    PROVE  SumFunctionOnSet(f, S) = SumFunctionOnSet(g, S)
<1> DEFINE B == {t \in SUBSET S : SumFunctionOnSet(f, t) # SumFunctionOnSet(g, t)}
<1> SUFFICES ASSUME B # {} PROVE FALSE
  OBVIOUS
<1>1. PICK t \in B : \A r \in B : r \subseteq t => r = t
  <2>1. B \subseteq SUBSET S
    OBVIOUS
  <2> HIDE DEF B
  <2> QED
    BY <2>1, SmallestSet
<1>2. t # {}
  BY <1>1, SumOfNone
<1>3. /\ One(t) \in t /\ IsFiniteSet(t)
      /\ t \ {One(t)} \subseteq t /\ t \ {One(t)} # t
  BY <1>1, <1>2, OneOf, FS_Subset
<1>4. /\ SumFunctionOnSet(f, t \ {One(t)}) = SumFunctionOnSet(g, t \ {One(t)})
      /\ f[One(t)] = g[One(t)]
  BY <1>1, <1>3
<1>5. /\ SumFunctionOnSet(f, t) = f[One(t)] + SumFunctionOnSet(f, t \ {One(t)})
      /\ SumFunctionOnSet(g, t) = g[One(t)] + SumFunctionOnSet(g, t \ {One(t)})
  BY <1>2, <1>3, SumFromOne
<1> QED
  BY <1>1, <1>4, <1>5

\* What x contributes to the sum of f over S.
Summand(f, S, x) == IF x \in S THEN f[x] ELSE 0

\* Function and set may change together at one argument, which may come or go.
LEMMA SumMoves ==
    ASSUME NEW f, NEW S, IsFiniteSet(S), \A y \in S : f[y] \in Int,
           NEW g, NEW T, \A y \in T : g[y] \in Int,
           NEW x, T \ {x} = S \ {x}, \A y \in S \ {x} : g[y] = f[y]
    PROVE  /\ IsFiniteSet(T)
           /\ SumFunctionOnSet(g, T) - Summand(g, T, x)
                  = SumFunctionOnSet(f, S) - Summand(f, S, x)
<1> DEFINE r == S \ {x}
<1>1. IsFiniteSet(r) /\ \A y \in r : f[y] \in Int
  BY FS_Subset
<1>2. S \ {x} = r /\ T \ {x} = r /\ x \notin r
  OBVIOUS
<1>3. /\ x \in S => S = r \cup {x}
      /\ x \notin S => S = r
      /\ x \in T => T = r \cup {x}
      /\ x \notin T => T = r
  OBVIOUS
<1>4. SumFunctionOnSet(g, r) = SumFunctionOnSet(f, r)
  BY <1>1, SumAgrees
<1> HIDE DEF r
<1>5. SumFunctionOnSet(f, r) \in Int
  BY <1>1, SumIsInt
<1>6. IsFiniteSet(T)
  BY <1>1, <1>3, FS_AddElement
<1>7. SumFunctionOnSet(f, S) - Summand(f, S, x) = SumFunctionOnSet(f, r)
  <2>1. CASE x \in S
    <3>1. SumFunctionOnSet(f, S) = f[x] + SumFunctionOnSet(f, r) /\ f[x] \in Int
      BY <1>2, <2>1, SumTakes
    <3> QED
      BY <1>5, <2>1, <3>1 DEF Summand
  <2>2. CASE x \notin S
    BY <1>3, <1>5, <2>2 DEF Summand
  <2> QED
    BY <2>1, <2>2
<1>8. SumFunctionOnSet(g, T) - Summand(g, T, x) = SumFunctionOnSet(g, r)
  <2>1. CASE x \in T
    <3>1. SumFunctionOnSet(g, T) = g[x] + SumFunctionOnSet(g, r) /\ g[x] \in Int
      BY <1>2, <1>6, <2>1, SumTakes
    <3> QED
      BY <1>4, <1>5, <2>1, <3>1 DEF Summand
  <2>2. CASE x \notin T
    BY <1>3, <1>4, <1>5, <2>2 DEF Summand
  <2> QED
    BY <2>1, <2>2
<1> QED
  BY <1>4, <1>6, <1>7, <1>8

\* The sum over a set is that over a part of it and that over the rest.
LEMMA SumSplits ==
    ASSUME NEW f, NEW S, IsFiniteSet(S), \A x \in S : f[x] \in Int,
           NEW T \in SUBSET S
    PROVE  SumFunctionOnSet(f, S)
               = SumFunctionOnSet(f, T) + SumFunctionOnSet(f, S \ T)
<1> DEFINE Sum(t) == SumFunctionOnSet(f, t)
           B == {t \in SUBSET T : Sum(S) # Sum(t) + Sum(S \ t)}
<1>0. IsFiniteSet(T)
  BY FS_Subset
<1> SUFFICES ASSUME B # {} PROVE FALSE
  OBVIOUS
<1>1. PICK t \in B : \A r \in B : r \subseteq t => r = t
  <2>1. B \subseteq SUBSET T
    OBVIOUS
  <2> HIDE DEF B
  <2> QED
    BY <1>0, <2>1, SmallestSet
<1>2. t # {}
  <2>1. S \ {} = S /\ Sum({}) = 0 /\ Sum(S) \in Int
    BY SumOfNone, SumIsInt
  <2>2. Sum(S) # Sum(t) + Sum(S \ t)
    BY <1>1
  <2> HIDE DEF Sum
  <2>3. ASSUME t = {} PROVE FALSE
    BY <2>1, <2>2, <2>3
  <2> QED
    BY <2>3
<1> DEFINE c == One(t)
           r == t \ {c}
<1>3. c \in t /\ c \in S /\ r \subseteq t /\ r # t /\ r \in SUBSET T
  BY <1>1, <1>2, OneOf
<1>4. /\ IsFiniteSet(t) /\ IsFiniteSet(r) /\ IsFiniteSet(S \ r)
      /\ IsFiniteSet(S \ t)
  BY <1>1, <1>3, FS_Subset
<1>5. Sum(S) = Sum(r) + Sum(S \ r)
  BY <1>1, <1>3
<1>6. Sum(t) = f[c] + Sum(r)
  BY <1>1, <1>3, <1>4, SumTakes
<1>7. Sum(S \ r) = f[c] + Sum(S \ t)
  <2>1. c \in S \ r /\ (S \ r) \ {c} = S \ t
    BY <1>1, <1>3
  <2> QED
    BY <1>4, <2>1, SumTakes
<1>8. /\ Sum(r) \in Int /\ Sum(S \ t) \in Int /\ f[c] \in Int
  BY <1>1, <1>3, <1>4, SumIsInt
<1>9. Sum(S) # Sum(t) + Sum(S \ t)
  BY <1>1
<1> HIDE DEF Sum
<1> QED
  BY <1>5, <1>6, <1>7, <1>8, <1>9

LEMMA SumOfOne ==
    ASSUME NEW f, NEW x, f[x] \in Int
    PROVE  SumFunctionOnSet(f, {x}) = f[x]
<1> DEFINE S == {x}
<1>1. IsFiniteSet(S) /\ x \in S /\ \A y \in S : f[y] \in Int
  BY FS_Singleton
<1>2. S \ {x} = {}
  OBVIOUS
<1> HIDE DEF S
<1>3. SumFunctionOnSet(f, S) = f[x] + 0
  BY <1>1, <1>2, SumTakes, SumOfNone
<1> QED
  BY <1>3 DEF S
=============================================================================
