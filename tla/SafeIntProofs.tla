--------------------------- MODULE SafeIntProofs ---------------------------
(***************************************************************************)
(* For every width: a checked operation never loses anything, and nothing  *)
(* is refused that would have fitted.                                      *)
(***************************************************************************)
EXTENDS SafeInt, TLAPS

-----------------------------------------------------------------------------
(* Division and products *)

\* What the checks of a product rest on: a factor is within the quotient
\* exactly when the product is within the dividend.
LEMMA QuotientBounds ==
    ASSUME NEW n \in Nat, NEW d \in Nat \ {0}, NEW q \in Int
    PROVE  q <= n \div d <=> q * d <= n
<1> DEFINE k == n \div d
<1>1. k \in Int /\ d * k <= n /\ n < d * k + d
  OBVIOUS
<1>2. ASSUME q <= k PROVE q * d <= n
  <2>1. q * d <= k * d
    BY <1>1, <1>2
  <2> QED BY <2>1, <1>1
<1>3. ASSUME q > k PROVE q * d > n
  <2>1. q >= k + 1
    BY <1>1, <1>3
  <2>2. q * d >= (k + 1) * d
    BY <1>1, <2>1
  <2>3. (k + 1) * d = d * k + d
    BY <1>1
  <2> QED BY <2>2, <2>3, <1>1
<1> QED BY <1>1, <1>2, <1>3

LEMMA BoundsOfT == MaxT \in Nat \ {0} /\ MinT \in Int /\ MinT = -MaxT - 1
BY WidthAssumption DEF MinT

\* A result that is a value of T is not changed by the reduction.
LEMMA WrapKeeps == ASSUME NEW n \in T PROVE Wrap(n) = n
<1> DEFINE m == n - MinT
           s == MaxT - MinT + 1
<1>1. m \in Nat /\ s \in Nat \ {0} /\ m < s
  BY BoundsOfT DEF T
<1>2. m % s = m
  BY <1>1
<1> QED BY <1>2, BoundsOfT DEF Wrap, T

-----------------------------------------------------------------------------
(* Each check holds exactly when the result is a value of T *)

LEMMA AddFits == ASSUME NEW a \in T, NEW b \in T
                 PROVE  CanAdd(a, b) <=> a + b \in T
BY BoundsOfT DEF CanAdd, T

LEMMA SubFits == ASSUME NEW a \in T, NEW b \in T
                 PROVE  CanSub(a, b) <=> a - b \in T
BY BoundsOfT DEF CanSub, T

LEMMA MulFits == ASSUME NEW a \in T, NEW b \in T
                 PROVE  CanMul(a, b) <=> a * b \in T
<1>1. a \in Int /\ b \in Int /\ a * b \in Int
  BY BoundsOfT DEF T
<1>2. CASE a > 0 /\ b > 0
  <2>1. CanMul(a, b) <=> a <= MaxT \div b
    BY <1>1, <1>2, BoundsOfT DEF CanMul, Quotient, Magnitude
  <2>2. a <= MaxT \div b <=> a * b <= MaxT
    <3>1. b \in Nat \ {0} /\ MaxT \in Nat
      BY <1>1, <1>2, BoundsOfT
    <3> QED BY <3>1, <1>1, QuotientBounds
  <2>3. a * b > 0
    BY <1>1, <1>2
  <2> QED BY <2>1, <2>2, <2>3, <1>1, BoundsOfT DEF T
<1>3. CASE a > 0 /\ b <= 0
  <2>1. CanMul(a, b) <=> -b <= (MaxT + 1) \div a
    <3>1. Quotient(MinT, a) = -((MaxT + 1) \div a)
      BY <1>1, <1>3, BoundsOfT DEF Quotient, Magnitude
    <3>2. CanMul(a, b) <=> b >= Quotient(MinT, a)
      BY <1>1, <1>3 DEF CanMul
    <3>3. (MaxT + 1) \div a \in Int
      BY <1>1, <1>3, BoundsOfT
    <3> QED BY <3>1, <3>2, <3>3, <1>1
  <2>2. -b <= (MaxT + 1) \div a <=> (-b) * a <= MaxT + 1
    <3>1. a \in Nat \ {0} /\ MaxT + 1 \in Nat /\ -b \in Int
      BY <1>1, <1>3, BoundsOfT
    <3> QED BY <3>1, QuotientBounds
  <2>3. (-b) * a = -(a * b) /\ a * b <= 0
    BY <1>1, <1>3
  <2> QED BY <2>1, <2>2, <2>3, <1>1, BoundsOfT DEF T
<1>4. CASE a <= 0 /\ b > 0
  <2>1. CanMul(a, b) <=> -a <= (MaxT + 1) \div b
    <3>1. Quotient(MinT, b) = -((MaxT + 1) \div b)
      BY <1>1, <1>4, BoundsOfT DEF Quotient, Magnitude
    <3>2. CanMul(a, b) <=> a >= Quotient(MinT, b)
      BY <1>1, <1>4 DEF CanMul
    <3>3. (MaxT + 1) \div b \in Int
      BY <1>1, <1>4, BoundsOfT
    <3> QED BY <3>1, <3>2, <3>3, <1>1
  <2>2. -a <= (MaxT + 1) \div b <=> (-a) * b <= MaxT + 1
    <3>1. b \in Nat \ {0} /\ MaxT + 1 \in Nat /\ -a \in Int
      BY <1>1, <1>4, BoundsOfT
    <3> QED BY <3>1, QuotientBounds
  <2>3. (-a) * b = -(a * b) /\ a * b <= 0
    BY <1>1, <1>4
  <2> QED BY <2>1, <2>2, <2>3, <1>1, BoundsOfT DEF T
<1>5. CASE a < 0 /\ b <= 0
  <2>1. CanMul(a, b) <=> -b <= MaxT \div (-a)
    <3>1. Quotient(MaxT, a) = -(MaxT \div (-a))
      BY <1>1, <1>5, BoundsOfT DEF Quotient, Magnitude
    <3>2. CanMul(a, b) <=> b >= Quotient(MaxT, a)
      BY <1>1, <1>5 DEF CanMul
    <3>3. MaxT \div (-a) \in Int
      BY <1>1, <1>5, BoundsOfT
    <3> QED BY <3>1, <3>2, <3>3, <1>1
  <2>2. -b <= MaxT \div (-a) <=> (-b) * (-a) <= MaxT
    <3>1. -a \in Nat \ {0} /\ MaxT \in Nat /\ -b \in Int
      BY <1>1, <1>5, BoundsOfT
    <3> QED BY <3>1, QuotientBounds
  <2>3. (-b) * (-a) = a * b /\ a * b >= 0
    BY <1>1, <1>5
  <2> QED BY <2>1, <2>2, <2>3, <1>1, BoundsOfT DEF T
<1>6. CASE a = 0 /\ b <= 0
  BY <1>1, <1>6, BoundsOfT DEF CanMul, T
<1> QED BY <1>1, <1>2, <1>3, <1>4, <1>5, <1>6

\* What is left of a division is closer to zero than the divisor, and the
\* quotient no further from it than the dividend.
LEMMA DivisionBounds ==
    ASSUME NEW n \in Nat, NEW d \in Nat \ {0}
    PROVE  /\ n \div d \in 0 .. n
           /\ n - d * (n \div d) \in 0 .. d - 1
           /\ d > 1 /\ n > 0 => n \div d < n
<1> DEFINE k == n \div d
<1>1. k \in Int /\ d * k <= n /\ n < d * k + d
  OBVIOUS
<1>2. k >= 0
  <2> SUFFICES ASSUME k <= -1 PROVE FALSE
    BY <1>1
  <2>1. d * k <= d * (-1)
    BY <1>1
  <2> QED BY <2>1, <1>1
<1>3. k <= d * k
  BY <1>1, <1>2
<1>4. d > 1 /\ k > 0 => k < d * k
  BY <1>1
<1> QED BY <1>1, <1>2, <1>3, <1>4

LEMMA DivFits == ASSUME NEW a \in T, NEW b \in T, b # 0
                 PROVE  CanDiv(a, b) <=> Quotient(a, b) \in T
<1> DEFINE n == Magnitude(a)
           d == Magnitude(b)
           k == n \div d
<1>1. /\ a \in Int /\ b \in Int /\ n \in Nat /\ d \in Nat \ {0}
      /\ n <= MaxT + 1 /\ (n = MaxT + 1 <=> a = MinT)
      /\ (d = 1 <=> b \in {-1, 1})
  BY BoundsOfT DEF T, Magnitude
<1>2. k \in 0 .. n /\ (d > 1 /\ n > 0 => k < n) /\ (d = 1 => k = n)
  <2>1. n \in Nat /\ d \in Nat \ {0}
    BY <1>1
  <2> HIDE DEF n, d
  <2>2. k \in 0 .. n /\ n - d * k \in 0 .. d - 1 /\ (d > 1 /\ n > 0 => k < n)
    BY <2>1, DivisionBounds
  <2>3. d = 1 => n - d * k = 0 /\ d * k = k
    BY <2>1, <2>2
  <2> QED BY <2>1, <2>2, <2>3
<1>3. Quotient(a, b) = IF (a < 0) = (b < 0) THEN k ELSE -k
  BY DEF Quotient
<1> HIDE DEF n, d, k
<1>4. CASE (a < 0) = (b < 0)
  BY <1>1, <1>2, <1>3, <1>4, BoundsOfT DEF CanDiv, T
<1>5. CASE (a < 0) # (b < 0)
  BY <1>1, <1>2, <1>3, <1>5, BoundsOfT DEF CanDiv, T
<1> QED BY <1>4, <1>5

LEMMA RemFits == ASSUME NEW a \in T, NEW b \in T, b # 0
                 PROVE  Remainder(a, b) \in T
<1> DEFINE n == Magnitude(a)
           d == Magnitude(b)
           k == n \div d
<1>1. /\ a \in Int /\ b \in Int /\ n \in Nat /\ d \in Nat \ {0}
      /\ d <= MaxT + 1
      /\ n = (IF a < 0 THEN -a ELSE a) /\ d = (IF b < 0 THEN -b ELSE b)
  BY BoundsOfT DEF T, Magnitude
<1>2. k \in Nat /\ n - d * k \in 0 .. d - 1
  <2>1. n \in Nat /\ d \in Nat \ {0}
    BY <1>1
  <2> HIDE DEF n, d
  <2>2. k \in 0 .. n /\ n - d * k \in 0 .. d - 1
    BY <2>1, DivisionBounds
  <2> QED BY <2>1, <2>2
<1>3. Quotient(a, b) = IF (a < 0) = (b < 0) THEN k ELSE -k
  BY DEF Quotient
<1> HIDE DEF n, d, k
<1>4. Remainder(a, b) = IF a < 0 THEN -(n - d * k) ELSE n - d * k
  <2>1. b * Quotient(a, b) = IF a < 0 THEN -(d * k) ELSE d * k
    BY <1>1, <1>2, <1>3
  <2> QED BY <2>1, <1>1, <1>2 DEF Remainder
<1> QED BY <1>1, <1>2, <1>4, BoundsOfT DEF T

LEMMA NegFits == ASSUME NEW a \in T PROVE CanNegate(a) <=> -a \in T
BY BoundsOfT DEF CanNegate, T

-----------------------------------------------------------------------------
(* The register *)

IInv == value \in T /\ exact = value

LEMMA InitInv == Init => IInv
BY BoundsOfT DEF Init, IInv, T

LEMMA StepInv == IInv /\ [Next]_registerVars => IInv'
<1> SUFFICES ASSUME IInv, [Next]_registerVars PROVE IInv'
  OBVIOUS
<1> USE DEF IInv
<1>1. ASSUME NEW b \in T, Add(b) PROVE IInv'
  BY <1>1, AddFits, WrapKeeps DEF Add
<1>2. ASSUME NEW b \in T, Subtract(b) PROVE IInv'
  BY <1>2, SubFits, WrapKeeps DEF Subtract
<1>3. ASSUME NEW b \in T, Multiply(b) PROVE IInv'
  BY <1>3, MulFits, WrapKeeps DEF Multiply
<1>4. ASSUME NEW b \in T, Divide(b) PROVE IInv'
  <2>1. b # 0
    BY <1>4 DEF Divide, CanDiv
  <2> QED BY <1>4, <2>1, DivFits, WrapKeeps DEF Divide
<1>5. ASSUME NEW b \in T, Modulo(b) PROVE IInv'
  <2>1. b # 0
    BY <1>5 DEF Modulo, CanDiv
  <2> QED BY <1>5, <2>1, RemFits, WrapKeeps DEF Modulo
<1>6. ASSUME Negate PROVE IInv'
  BY <1>6, NegFits, WrapKeeps DEF Negate
<1>7. ASSUME UNCHANGED registerVars PROVE IInv'
  BY <1>7 DEF registerVars
<1> QED BY <1>1, <1>2, <1>3, <1>4, <1>5, <1>6, <1>7 DEF Next

\* Of the value alone, whatever it stands for.
LEMMA StepInT == value \in T /\ [Next]_registerVars => value' \in T
<1> SUFFICES ASSUME value \in T, [Next]_registerVars PROVE value' \in T
  OBVIOUS
<1>1. ASSUME NEW b \in T, Add(b) \/ Subtract(b) \/ Multiply(b) PROVE value' \in T
  BY <1>1, AddFits, SubFits, MulFits, WrapKeeps DEF Add, Subtract, Multiply
<1>2. ASSUME NEW b \in T, Divide(b) \/ Modulo(b) PROVE value' \in T
  <2>1. b # 0
    BY <1>2 DEF Divide, Modulo, CanDiv
  <2> QED BY <1>2, <2>1, DivFits, RemFits, WrapKeeps DEF Divide, Modulo
<1>3. ASSUME Negate PROVE value' \in T
  BY <1>3, NegFits, WrapKeeps DEF Negate
<1> QED BY <1>1, <1>2, <1>3 DEF Next, registerVars

LEMMA Invariance == Spec => []IInv
BY InitInv, StepInv, PTL DEF Spec

\* A checked integer of any width is the integer, whatever it went through.
THEOREM NothingLost == Spec => []Exact
<1>1. IInv => Exact
  BY DEF IInv, Exact
<1> QED BY <1>1, Invariance, PTL

\* No operation is refused whose result is a value of the type.
THEOREM NothingElseRefused == Spec => []OnlyOverflowRefused
<1>1. IInv => OnlyOverflowRefused
  BY AddFits, SubFits, MulFits, DivFits, NegFits
     DEF IInv, OnlyOverflowRefused
<1> QED BY <1>1, Invariance, PTL
=============================================================================
