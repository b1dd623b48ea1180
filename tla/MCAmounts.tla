----------------------------- MODULE MCAmounts -----------------------------
(***************************************************************************)
(* An instance of Amounts for TLC: integers of 8 bits, which hold 10^2 and *)
(* not 10^3 as 64 bits hold 10^18 and not 10^19; assets of up to 63 units  *)
(* as max_amount is 2^62 - 1; texts of up to 3 decimals, up to and beyond  *)
(* what parses.                                                            *)
(***************************************************************************)
EXTENDS Amounts

Fractions(digits) ==
    CASE digits = 0 -> {0}
      [] digits = 1 -> 0 .. 9
      [] digits = 2 -> 0 .. 99
      [] OTHER      -> {0, 7, 130, 255, 256, 999}

MCText ==
    UNION {[neg : BOOLEAN, whole : 0 .. 130,
            digits : {d}, frac : Fractions(d)] : d \in 0 .. 3}
=============================================================================
