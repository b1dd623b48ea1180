---------------------------- MODULE AmountsProofs ----------------------------
(***************************************************************************)
(* Proofs about Amounts, for integers and symbols of every width: the      *)
(* amount read from a text is what the text denotes, unless its decimals   *)
(* are too many for an int8, and no text is refused that denotes an amount *)
(* an asset can hold.                                                      *)
(***************************************************************************)
EXTENDS Amounts, SafeIntProofs, SumsProofs

-----------------------------------------------------------------------------
(* Powers of ten *)

\* g holds the powers up to the n-th.
Powers(g, n) ==
    g = [m \in 0 .. n |-> IF m = 0 THEN 1 ELSE 10 * g[m - 1]]

PowersTo(n) == CHOOSE g : Powers(g, n)

LEMMA PowersAt ==
    ASSUME NEW n \in Nat, NEW g, Powers(g, n), NEW m \in 0 .. n
    PROVE  g[m] = IF m = 0 THEN 1 ELSE 10 * g[m - 1]
<1>1. g[m] = [k \in 0 .. n |-> IF k = 0 THEN 1 ELSE 10 * g[k - 1]][m]
  BY DEF Powers
<1> QED
  BY <1>1

LEMMA PowersExist ==
    ASSUME NEW n \in Nat
    PROVE  Powers(PowersTo(n), n)
<1> DEFINE B == {k \in Nat : ~\E g : Powers(g, k)}
<1>1. SUFFICES ASSUME B # {} PROVE FALSE
  BY DEF PowersTo
<1>2. PICK k \in B : \A j \in B : k <= j
  <2>1. B \subseteq Nat
    OBVIOUS
  <2> HIDE DEF B
  <2> QED
    BY <1>1, <2>1, LeastNumber
<1>3. CASE k = 0
  <2> DEFINE g == [m \in 0 .. 0 |-> 1]
  <2>1. g = [m \in 0 .. 0 |-> IF m = 0 THEN 1 ELSE 10 * g[m - 1]]
    OBVIOUS
  <2>2. Powers(g, 0)
    BY <2>1 DEF Powers
  <2> HIDE DEF g
  <2> QED
    BY <1>3, <2>2
<1>4. CASE k # 0
  <2>1. k \in Nat /\ k - 1 \in Nat /\ k - 1 \notin B
    BY <1>2, <1>4
  <2>2. PICK h : Powers(h, k - 1)
    BY <2>1
  <2> DEFINE g == [m \in 0 .. k |-> IF m = k THEN 10 * h[k - 1] ELSE h[m]]
  <2>3. ASSUME NEW m \in 0 .. k
        PROVE  g[m] = IF m = 0 THEN 1 ELSE 10 * g[m - 1]
    <3>1. CASE m = k
      <4>1. g[m] = 10 * h[k - 1] /\ g[m - 1] = h[k - 1] /\ m # 0
        BY <1>4, <2>1, <3>1
      <4> QED
        BY <4>1
    <3>2. CASE m # k
      <4>1. m \in 0 .. k - 1 /\ g[m] = h[m] /\ (m # 0 => g[m - 1] = h[m - 1])
        BY <2>1, <3>2
      <4>2. h[m] = IF m = 0 THEN 1 ELSE 10 * h[m - 1]
        BY <2>1, <2>2, <4>1, PowersAt
      <4> HIDE DEF g
      <4> QED
        BY <4>1, <4>2
    <3> QED
      BY <3>1, <3>2
  <2>4. g = [m \in 0 .. k |-> g[m]]
    OBVIOUS
  <2> HIDE DEF g
  <2>5. Powers(g, k)
    BY <2>3, <2>4 DEF Powers
  <2> QED
    BY <2>5
<1> QED
  BY <1>3, <1>4

LEMMA PowersAgree ==
    ASSUME NEW n \in Nat, NEW k \in Nat, NEW g, Powers(g, n), NEW h, Powers(h, k),
           NEW m \in Nat, m <= n, m <= k
    PROVE  g[m] = h[m]
<1> DEFINE B == {j \in Nat : j <= n /\ j <= k /\ g[j] # h[j]}
<1> SUFFICES ASSUME B # {} PROVE FALSE
  OBVIOUS
<1>1. PICK j \in B : \A i \in B : j <= i
  <2>1. B \subseteq Nat
    OBVIOUS
  <2> HIDE DEF B
  <2> QED
    BY <2>1, LeastNumber
<1>2. /\ g[j] = IF j = 0 THEN 1 ELSE 10 * g[j - 1]
      /\ h[j] = IF j = 0 THEN 1 ELSE 10 * h[j - 1]
  BY <1>1, PowersAt
<1>3. j # 0 => g[j - 1] = h[j - 1]
  BY <1>1
<1> QED
  BY <1>1, <1>2, <1>3

LEMMA Power10Unfold ==
    \A n \in Nat : Power10[n] = IF n = 0 THEN 1 ELSE 10 * Power10[n - 1]
<1> DEFINE Def(g) == [n \in Nat |-> IF n = 0 THEN 1 ELSE 10 * g[n - 1]]
           G == [n \in Nat |-> PowersTo(n)[n]]
<1>1. ASSUME NEW n \in Nat
      PROVE  G[n] = IF n = 0 THEN 1 ELSE 10 * G[n - 1]
  <2>1. Powers(PowersTo(n), n)
    BY PowersExist
  <2>2. PowersTo(n)[n] = IF n = 0 THEN 1 ELSE 10 * PowersTo(n)[n - 1]
    BY <2>1, PowersAt
  <2>3. CASE n = 0
    BY <2>2, <2>3
  <2>4. CASE n # 0
    <3>1. n - 1 \in Nat /\ n - 1 <= n /\ n - 1 <= n - 1
      BY <2>4
    <3>2. Powers(PowersTo(n - 1), n - 1)
      BY <3>1, PowersExist
    <3>3. PowersTo(n)[n - 1] = PowersTo(n - 1)[n - 1]
      BY <2>1, <3>1, <3>2, PowersAgree
    <3> QED
      BY <2>2, <2>4, <3>1, <3>3
  <2> QED
    BY <2>3, <2>4
<1>2. G = [n \in Nat |-> G[n]]
  OBVIOUS
<1> HIDE DEF G
<1>3. G = Def(G)
  BY <1>1, <1>2
<1>4. Power10 = CHOOSE g : g = Def(g)
  BY DEF Power10
<1>5. Power10 = Def(Power10)
  BY <1>3, <1>4
<1>6. ASSUME NEW n \in Nat
      PROVE  Power10[n] = IF n = 0 THEN 1 ELSE 10 * Power10[n - 1]
  <2>1. Power10[n] = Def(Power10)[n]
    BY <1>5
  <2> QED
    BY <2>1
<1> QED
  BY <1>6

LEMMA Power10Positive ==
    ASSUME NEW n \in Nat
    PROVE  Power10[n] \in Nat \ {0}
<1> DEFINE B == {k \in Nat : Power10[k] \notin Nat \ {0}}
<1> SUFFICES ASSUME B # {} PROVE FALSE
  OBVIOUS
<1>1. PICK k \in B : \A j \in B : k <= j
  <2>1. B \subseteq Nat
    OBVIOUS
  <2> HIDE DEF B
  <2> QED
    BY <2>1, LeastNumber
<1>2. k # 0 => k - 1 \in Nat /\ Power10[k - 1] \in Nat \ {0}
  BY <1>1
<1>3. Power10[k] = IF k = 0 THEN 1 ELSE 10 * Power10[k - 1]
  BY <1>1, Power10Unfold
<1> QED
  BY <1>1, <1>2, <1>3

\* They grow.
LEMMA Power10Grows ==
    ASSUME NEW m \in Nat, NEW n \in Nat, m <= n
    PROVE  Power10[m] <= Power10[n]
<1> DEFINE B == {k \in Nat : m <= k /\ ~(Power10[m] <= Power10[k])}
<1> SUFFICES ASSUME B # {} PROVE FALSE
  OBVIOUS
<1>1. PICK k \in B : \A j \in B : k <= j
  <2>1. B \subseteq Nat
    OBVIOUS
  <2> HIDE DEF B
  <2> QED
    BY <2>1, LeastNumber
<1>2. k # m /\ Power10[m] \in Nat \ {0} /\ Power10[k] \in Nat \ {0}
  BY <1>1, Power10Positive
<1>3. k - 1 \in Nat /\ m <= k - 1 /\ k - 1 \notin B /\ k # 0
  BY <1>1, <1>2
<1>4. Power10[m] <= Power10[k - 1]
  BY <1>3
<1>5. Power10[k] = 10 * Power10[k - 1] /\ Power10[k - 1] \in Nat \ {0}
  BY <1>1, <1>3, Power10Unfold, Power10Positive
<1> QED
  BY <1>1, <1>2, <1>4, <1>5
-----------------------------------------------------------------------------
(* What a text denotes *)

\* A text whose decimals a symbol may have: none of the conversions changes its
\* numbers.
LEMMA Converted ==
    ASSUME NEW t \in Text, t.digits <= MaxDigits
    PROVE  /\ DecimalsOf(t.digits) = t.digits
           /\ PrecisionOf(t.digits) = Power10[t.digits]
           /\ Power10[t.digits] \in T /\ Power10[t.digits] > 0
           /\ t.frac \in Nat /\ t.frac <= MaxT /\ t.frac < Power10[t.digits]
           /\ Wrap(t.frac) = t.frac
           /\ Signed(FractionSign(t), t.frac) \in T
<1>1. /\ t.neg \in BOOLEAN /\ t.digits \in Nat /\ MaxDigits \in Nat
      /\ t.frac \in 0 .. Power10[t.digits] - 1 /\ Power10[MaxDigits] <= MaxT
      /\ ByteSpan \in Nat /\ MaxDigits < ByteSpan \div 2
  BY TextAssumption
<1>2. DecimalsOf(t.digits) = t.digits
  <2> DEFINE half == ByteSpan \div 2
  <2>1. half \in Nat /\ half <= ByteSpan
    BY <1>1
  <2>2. t.digits < ByteSpan /\ ByteSpan > 0
    BY <1>1, <2>1
  <2>3. t.digits % ByteSpan = t.digits
    BY <1>1, <2>2
  <2> QED
    BY <1>1, <2>3 DEF DecimalsOf
<1>3. PrecisionOf(t.digits) = Power10[t.digits]
  BY <1>1, Power10Unfold DEF PrecisionOf
<1>4. /\ Power10[t.digits] \in Nat \ {0} /\ Power10[MaxDigits] \in Nat \ {0}
      /\ Power10[t.digits] <= Power10[MaxDigits]
  BY <1>1, Power10Positive, Power10Grows
<1>5. Power10[t.digits] \in T /\ t.frac \in Nat /\ t.frac <= MaxT
  BY <1>1, <1>4, BoundsOfT DEF T
<1>6. t.frac \in T /\ -t.frac \in T
  BY <1>5, BoundsOfT DEF T
<1>7. Wrap(t.frac) = t.frac
  BY <1>6, WrapKeeps
<1> QED
  BY <1>1, <1>2, <1>3, <1>4, <1>5, <1>6, <1>7 DEF FractionSign, Signed

\* The number of decimals is an int8 where it is checked: that of these texts is
\* not changed.
FewDecimals == \A t \in Text : t.digits < ByteSpan \div 2

\* Of them, one with more decimals than a symbol may have is refused.
LEMMA DecimalsChecked ==
    ASSUME FewDecimals, NEW t \in Text, Accepts(t)
    PROVE  t.digits <= MaxDigits
<1>1. /\ t.digits \in Nat /\ MaxDigits \in Nat
      /\ ByteSpan \in Nat /\ t.digits < ByteSpan \div 2
  BY TextAssumption DEF FewDecimals
<1> DEFINE half == ByteSpan \div 2
<1>2. half \in Nat /\ half <= ByteSpan
  BY <1>1
<1>3. t.digits < ByteSpan /\ ByteSpan > 0
  BY <1>1, <1>2
<1>4. t.digits % ByteSpan = t.digits
  BY <1>1, <1>3
<1>5. DecimalsOf(t.digits) = t.digits
  BY <1>1, <1>4 DEF DecimalsOf
<1> QED
  BY <1>5 DEF Accepts, precision_from_decimals

\* The amount is what the text denotes.
LEMMA AmountDenotes ==
    ASSUME FewDecimals, NEW t \in Text, Accepts(t)
    PROVE  /\ AmountOf(t) = Signed(t.neg, t.whole * Power10[t.digits] + t.frac)
           /\ AmountOf(t) \in T
<1> DEFINE p == Power10[t.digits]
           whole == Signed(t.neg, t.whole)
           fract == Signed(FractionSign(t), t.frac)
<1>1. t.neg \in BOOLEAN /\ t.whole \in Nat
  BY TextAssumption
<1>2. /\ DecimalsOf(t.digits) = t.digits /\ PrecisionOf(t.digits) = p /\ p \in T
      /\ Wrap(t.frac) = t.frac /\ fract \in T /\ t.frac \in Nat /\ p > 0
  BY DecimalsChecked, Converted
<1>3. whole \in T /\ CanMul(whole, p) /\ CanAdd(whole * p, fract)
  BY <1>2 DEF Accepts, ParsesAsInt
<1>4. whole * p \in T
  BY <1>2, <1>3, MulFits
<1>5. whole * p + fract \in T
  BY <1>2, <1>3, <1>4, AddFits
<1>6. AmountOf(t) = whole * p + fract
  BY <1>2, <1>5, WrapKeeps DEF AmountOf
<1>7. p \in Int /\ \A x, y, z \in Int : (-x) * y + (-z) = -(x * y + z)
  BY <1>2, BoundsOfT DEF T
<1>8. whole * p + fract = Signed(t.neg, t.whole * p + t.frac)
  <2> HIDE DEF p
  <2>1. CASE t.neg
    <3>1. whole = -t.whole /\ fract = -t.frac
      BY <2>1 DEF Signed, FractionSign
    <3>2. (-t.whole) * p + (-t.frac) = -(t.whole * p + t.frac)
      BY <1>1, <1>2, <1>7
    <3> QED
      BY <2>1, <3>1, <3>2 DEF Signed
  <2>2. CASE ~t.neg
    BY <2>2 DEF Signed, FractionSign
  <2> QED
    BY <2>1, <2>2
<1> QED
  BY <1>5, <1>6, <1>8

\* A text of an amount that fits passes every check.
LEMMA FittingAccepted ==
    ASSUME NEW t \in Text, t.digits <= MaxDigits,
           t.whole * Power10[t.digits] + t.frac <= MaxAmount
    PROVE  Accepts(t)
<1> DEFINE p == Power10[t.digits]
           whole == Signed(t.neg, t.whole)
           fract == Signed(FractionSign(t), t.frac)
           amount == t.whole * p + t.frac
<1>1. /\ t.neg \in BOOLEAN /\ t.whole \in Nat /\ t.digits \in Nat
      /\ MaxDigits \in Nat /\ Power10[MaxDigits] <= MaxT
      /\ MaxAmount \in Nat /\ MaxAmount <= MaxT
  BY TextAssumption, BoundsOfT
<1>2. /\ DecimalsOf(t.digits) = t.digits /\ PrecisionOf(t.digits) = p
      /\ p \in T /\ p > 0 /\ t.frac \in Nat /\ t.frac <= MaxT
      /\ Wrap(t.frac) = t.frac /\ fract \in T
  BY Converted
<1>3. p \in Nat \ {0} /\ amount \in Nat /\ amount <= MaxAmount
  <2>1. p \in Nat \ {0}
    BY <1>1, Power10Positive
  <2> HIDE DEF p
  <2> QED
    BY <1>1, <1>2, <2>1 DEF p
<1>4. t.whole * p \in Nat /\ t.whole <= t.whole * p /\ t.whole * p <= MaxAmount
  <2>1. \A x \in Nat, y \in Nat \ {0} : x * y \in Nat /\ x <= x * y
    OBVIOUS
  <2> HIDE DEF p
  <2>2. t.whole * p \in Nat /\ t.whole <= t.whole * p
    BY <1>1, <1>3, <2>1
  <2> QED
    BY <1>1, <1>2, <1>3, <2>2
<1>5. whole \in T
  BY <1>1, <1>4, BoundsOfT DEF T, Signed
<1>6. whole * p = Signed(t.neg, t.whole * p)
  <2> HIDE DEF p
  <2>1. \A x, y \in Int : (-x) * y = -(x * y)
    OBVIOUS
  <2> QED
    BY <1>1, <1>3, <2>1 DEF Signed
<1>7. whole * p \in T
  BY <1>1, <1>4, <1>6, BoundsOfT DEF T, Signed
<1>8. whole * p + fract = Signed(t.neg, amount)
  <2> DEFINE product == t.whole * p
  <2>1. product \in Nat /\ whole * p = Signed(t.neg, product)
    BY <1>4, <1>6
  <2>2. amount = product + t.frac
    OBVIOUS
  <2> HIDE DEF product, amount, p, whole
  <2>3. Signed(t.neg, product) + fract = Signed(t.neg, amount)
    BY <1>1, <1>2, <2>1, <2>2 DEF Signed, FractionSign
  <2> QED
    BY <2>1, <2>3
<1>9. Signed(t.neg, amount) \in -MaxAmount .. MaxAmount /\ Signed(t.neg, amount) \in T
  <2> HIDE DEF amount
  <2> QED
    BY <1>1, <1>3, BoundsOfT DEF T, Signed
<1>10. AmountOf(t) \in -MaxAmount .. MaxAmount
  BY <1>2, <1>8, <1>9, WrapKeeps DEF AmountOf
<1>11. CanMul(whole, p) /\ CanAdd(whole * p, fract)
  BY <1>2, <1>5, <1>7, <1>8, <1>9, MulFits, AddFits
<1>12. ParsesAsUint(t.frac)
  BY <1>2, BoundsOfT DEF ParsesAsUint
<1>13. CanMul(t.frac, -1)
  <2>1. t.frac \in T /\ -1 \in T /\ t.frac * (-1) \in T
    BY <1>2, BoundsOfT DEF T
  <2> QED
    BY <2>1, MulFits
<1>14. precision_from_decimals(t.digits)
  <2>1. ASSUME NEW k \in 0 .. t.digits - 1 PROVE CanMul(Power10[k], 10)
    <3>1. k \in Nat /\ k + 1 \in Nat /\ k + 1 <= MaxDigits /\ 1 <= MaxDigits
      BY <1>1, <2>1
    <3>2. /\ Power10[k] \in Nat \ {0} /\ Power10[k + 1] = 10 * Power10[k]
          /\ Power10[k + 1] <= Power10[MaxDigits]
      BY <1>1, <3>1, Power10Unfold, Power10Positive, Power10Grows
    <3>3. Power10[MaxDigits] \in Nat
      BY <1>1, Power10Positive
    <3>4. 10 * Power10[k] <= MaxT /\ 10 <= MaxT
      BY <1>1, <3>2, <3>3, BoundsOfT
    <3>5. Power10[k] \in T /\ 10 \in T /\ Power10[k] * 10 \in T
      BY <3>2, <3>4, BoundsOfT DEF T
    <3> QED
      BY <3>5, MulFits
  <2> QED
    BY <2>1 DEF precision_from_decimals
<1> QED
  BY <1>2, <1>5, <1>10, <1>11, <1>12, <1>13, <1>14 DEF Accepts, ParsesAsInt
-----------------------------------------------------------------------------
(* The register *)

\* Whatever the texts, the register holds a value of T.
Stored == value \in T

LEMMA InT == AmountSpec => []Stored
<1>1. Stored /\ [Next \/ AmountNext]_registerVars => Stored'
  <2> SUFFICES ASSUME value \in T, [Next \/ AmountNext]_registerVars
               PROVE  value' \in T
    BY DEF Stored
  <2>1. CASE [Next]_registerVars
    BY <2>1, StepInT
  <2>2. ASSUME NEW t \in Text, asset_from_string(t) PROVE value' \in T
    <3>1. value' \in -MaxAmount .. MaxAmount
      BY <2>2 DEF asset_from_string, Accepts
    <3> QED
      BY <3>1, TextAssumption, BoundsOfT DEF T
  <2> QED
    BY <2>1, <2>2 DEF AmountNext
<1>2. Init => Stored
  BY BoundsOfT DEF Init, Stored, T
<1> QED
  BY <1>1, <1>2, PTL DEF AmountSpec

\* A checked integer is the integer and a price is what its text denotes,
\* whatever operations it went through: of texts whose number of decimals an
\* int8 holds (utils.hpp:144-187, safe.hpp:37-95).
THEOREM PricesExact ==
    ASSUME FewDecimals
    PROVE  AmountSpec => []Exact
<1>1. IInv /\ [Next \/ AmountNext]_registerVars => IInv'
  <2> SUFFICES ASSUME IInv, [Next \/ AmountNext]_registerVars PROVE IInv'
    OBVIOUS
  <2>1. CASE [Next]_registerVars
    BY <2>1, StepInv
  <2>2. ASSUME NEW t \in Text, asset_from_string(t) PROVE IInv'
    <3>1. AmountOf(t) = Signed(t.neg, t.whole * Power10[t.digits] + t.frac)
          /\ AmountOf(t) \in T
      BY <2>2, AmountDenotes DEF asset_from_string
    <3> QED
      BY <2>2, <3>1 DEF asset_from_string, IInv
  <2> QED
    BY <2>1, <2>2 DEF AmountNext
<1>2. IInv => Exact
  BY DEF IInv, Exact
<1> QED
  BY <1>1, <1>2, InitInv, PTL DEF AmountSpec

\* Every price that fits an asset can be written, and every result that fits
\* its type computed, whatever other texts there are (utils.hpp:144-187,
\* safe.hpp:37-95).
THEOREM PricesAccepted == AmountSpec => []RefusedOnlyIfTooLarge
<1>1. Stored => OnlyOverflowRefused
  BY AddFits, SubFits, MulFits, DivFits, NegFits
     DEF OnlyOverflowRefused, Stored
<1>2. Stored => RefusedOnlyIfTooLarge
  BY <1>1, FittingAccepted DEF RefusedOnlyIfTooLarge
<1> QED
  BY <1>2, InT, PTL
=============================================================================
