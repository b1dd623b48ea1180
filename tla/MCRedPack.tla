----------------------------- MODULE MCRedPack -----------------------------
(* Instances of RedPack for TLC. *)
EXTENDS RedPack

CONSTANTS amax, coarse

\* amax has 8 decimals, as on the chain; coarse is a token with 2.
MCPrecision == [t \in {amax, coarse} |-> IF t = amax THEN 8 ELSE 2]

\* 3 receivers, 4 that two accounts cannot exhaust; for DID holders also none,
\* and a count below zero.
MCCount == {-1, 0, 3, 4}
=============================================================================
