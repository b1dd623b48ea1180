------------------------------ MODULE Amounts ------------------------------
(***************************************************************************)
(* utils.hpp: asset_from_string, which did.admin reads its prices with,    *)
(* and the conversions it makes.  The amount of an asset is computed in    *)
(* checked integers; the conversions before it are not checked.            *)
(*                                                                         *)
(* A text is what the digits before and after the point denote.  Splitting *)
(* it at the space and at the point is abstracted, and a text without      *)
(* either, or with other characters than digits and a sign, is left out.   *)
(***************************************************************************)
EXTENDS SafeInt

CONSTANTS
    Text,           \* [neg, whole, digits, frac], digits of them after the point
    MaxDigits,      \* 18, the most decimals of a symbol
    ByteSpan,       \* number of uint8 values, 256 in the code
    MaxAmount       \* asset::max_amount

\* 10^n for the numbers of decimals that occur.
Power10[n \in Nat] == IF n = 0 THEN 1 ELSE 10 * Power10[n - 1]

ASSUME TextAssumption ==
    /\ MaxDigits \in Nat /\ Power10[MaxDigits] <= MaxT
    /\ ByteSpan \in Nat /\ MaxDigits < ByteSpan \div 2
    /\ MaxAmount \in 1 .. MaxT
    /\ \A t \in Text :
          /\ t.neg \in BOOLEAN /\ t.whole \in Nat /\ t.digits \in Nat
          /\ t.frac \in 0 .. Power10[t.digits] - 1

-----------------------------------------------------------------------------

Signed(neg, n) == IF neg THEN -n ELSE n

\* strtoll and strtoull set errno when the number is out of their range.
ParsesAsInt(n) == n \in T
ParsesAsUint(n) == n \in 0 .. MaxT - MinT

\* The number of decimals is a uint8 in the symbol and an int8 in
\* precision_from_decimals, where a negative one counts as none.
DecimalsOf(digits) ==
    LET byte == digits % ByteSpan
    IN  IF byte < ByteSpan \div 2 THEN byte ELSE byte - ByteSpan

PrecisionOf(decimals) == IF decimals > 0 THEN Power10[decimals] ELSE 1

precision_from_decimals(decimals) ==
    /\ decimals <= MaxDigits
    /\ \A k \in 0 .. decimals - 1 : CanMul(Power10[k], 10)

\* Fault: the sign is that of the whole part, which -0 does not have.
FractionSign_ofWhole(text) == text.neg /\ text.whole > 0

FractionSign(text) == text.neg

\* The amount, as the built-in operations compute it.
AmountOf(text) ==
    Wrap(Signed(text.neg, text.whole) * PrecisionOf(DecimalsOf(text.digits))
             + Signed(FractionSign(text), Wrap(text.frac)))    \* uint64 to int64

\* The checks of the conversions, of the checked integers and of the asset.
Accepts(text) ==
    LET whole == Signed(text.neg, text.whole)
        fract == Wrap(text.frac)
        decimals == DecimalsOf(text.digits)
        p10 == PrecisionOf(decimals)
    IN  /\ ParsesAsInt(whole)
        /\ ParsesAsUint(text.frac)
        /\ FractionSign(text) => CanMul(fract, -1)
        /\ precision_from_decimals(decimals)
        /\ CanMul(whole, p10)
        /\ CanAdd(whole * p10, Signed(FractionSign(text), fract))
        /\ AmountOf(text) \in -MaxAmount .. MaxAmount

\* A new asset takes the place of the register's value.
asset_from_string(text) ==
    /\ value = 0 /\ exact = 0                   \* default initialised
    /\ Accepts(text)
    /\ value' = AmountOf(text)
    /\ exact' = Signed(text.neg,
                       text.whole * Power10[text.digits] + text.frac)

AmountNext == \E t \in Text : asset_from_string(t)

AmountSpec == Init /\ [][Next \/ AmountNext]_registerVars
-----------------------------------------------------------------------------
(* Properties *)

\* Every price that fits an asset can be written, and every result that fits
\* its type computed: refused are amounts that are too large and texts of too
\* many decimals (utils.hpp:144-187, safe.hpp:37-95).
RefusedOnlyIfTooLarge ==
    /\ OnlyOverflowRefused
    /\ \A t \in Text :
          LET amount == t.whole * Power10[t.digits] + t.frac
          IN  t.digits <= MaxDigits /\ amount <= MaxAmount => Accepts(t)
=============================================================================
