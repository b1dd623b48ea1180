------------------------------ MODULE SafeInt ------------------------------
(***************************************************************************)
(* safe.hpp: safe<T>, an integer of a built-in signed type whose operators *)
(* abort before the built-in operation could overflow.                     *)
(*                                                                         *)
(* One register goes through any sequence of operations; an operation that *)
(* aborts is no step.  What the built-in operation computes is reduced to  *)
(* the width of T: the properties say that nothing is ever lost by it.     *)
(***************************************************************************)
EXTENDS Integers

CONSTANT MaxT       \* std::numeric_limits<T>::max()

ASSUME WidthAssumption == MaxT \in Nat \ {0}

MinT == -MaxT - 1
T == MinT .. MaxT

\* The low bits of an integer, as a value of T.
Wrap(n) == ((n - MinT) % (MaxT - MinT + 1)) + MinT

VARIABLES
    value,      \* safe<T>::value
    exact       \* history: the integer the same operations give

registerVars == <<value, exact>>

-----------------------------------------------------------------------------
(* The checks *)

\* C++ division rounds towards zero.
Magnitude(n) == IF n < 0 THEN -n ELSE n
Quotient(a, b) ==
    IF (a < 0) = (b < 0) THEN Magnitude(a) \div Magnitude(b)
                         ELSE -(Magnitude(a) \div Magnitude(b))
Remainder(a, b) == a - b * Quotient(a, b)

CanAdd(a, b) ==
    /\ b > 0 => a <= MaxT - b
    /\ b < 0 => a >= MinT - b

CanSub(a, b) ==
    /\ b > 0 => a >= MinT + b
    /\ b < 0 => a <= MaxT + b

\* Fault: a product that equals the bound is refused.
CanMul_strict(a, b) ==
    /\ a > 0 /\ b > 0  => a < Quotient(MaxT, b)
    /\ a > 0 /\ b <= 0 => b >= Quotient(MinT, a)
    /\ a <= 0 /\ b > 0 => a >= Quotient(MinT, b)
    /\ a < 0 /\ b <= 0 => b >= Quotient(MaxT, a)

CanMul(a, b) ==
    /\ a > 0 /\ b > 0  => a <= Quotient(MaxT, b)
    /\ a > 0 /\ b <= 0 => b >= Quotient(MinT, a)
    /\ a <= 0 /\ b > 0 => a >= Quotient(MinT, b)
    /\ a < 0 /\ b <= 0 => b >= Quotient(MaxT, a)

\* Of both / and %.
CanDiv(a, b) == b # 0 /\ ~(a = MinT /\ b = -1)

CanNegate(a) == a # MinT
-----------------------------------------------------------------------------
(* Operations *)

Init == value = 0 /\ exact = 0

Add(b) ==
    /\ CanAdd(value, b)
    /\ value' = Wrap(value + b)
    /\ exact' = exact + b

Subtract(b) ==
    /\ CanSub(value, b)
    /\ value' = Wrap(value - b)
    /\ exact' = exact - b

Multiply(b) ==
    /\ CanMul(value, b)
    /\ value' = Wrap(value * b)
    /\ exact' = exact * b

Divide(b) ==
    /\ CanDiv(value, b)
    /\ value' = Wrap(Quotient(value, b))
    /\ exact' = Quotient(exact, b)

Modulo(b) ==
    /\ CanDiv(value, b)
    /\ value' = Wrap(Remainder(value, b))
    /\ exact' = Remainder(exact, b)

Negate ==
    /\ CanNegate(value)
    /\ value' = Wrap(-value)
    /\ exact' = -exact

Next ==
    \/ \E b \in T : \/ Add(b) \/ Subtract(b) \/ Multiply(b)
                    \/ Divide(b) \/ Modulo(b)
    \/ Negate

Spec == Init /\ [][Next]_registerVars
-----------------------------------------------------------------------------
(* Properties *)

\* A checked integer is the integer, whatever operations it went through:
\* every result that the width would change was refused (safe.hpp:37-95).
Exact == value = exact

\* Nothing else is refused: an operation whose result is a value of T is
\* carried out, at the bounds of T as well (safe.hpp:37-95).
OnlyOverflowRefused ==
    /\ \A b \in T :
          /\ value + b \in T => CanAdd(value, b)
          /\ value - b \in T => CanSub(value, b)
          /\ value * b \in T => CanMul(value, b)
          /\ b # 0 /\ Quotient(value, b) \in T => CanDiv(value, b)
    /\ -value \in T => CanNegate(value)
=============================================================================
