---------------------------- MODULE MCDidRebind ----------------------------
(***************************************************************************)
(* An instance of DidSystem for TLC: the ledger and did.admin, before      *)
(* amax.did has any vendor.  One DID, its issuer and two holders.  Number  *)
(* 3 names DID 1 when it is cut to an id of two values.                    *)
(***************************************************************************)
EXTENDS DidSystem, TLC

CONSTANTS issuer, holder, other

Holders == Permutations({holder, other})

RebindSymbol == {[id |-> 1, parent |-> 0]}
=============================================================================
