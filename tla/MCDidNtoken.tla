---------------------------- MODULE MCDidNtoken ----------------------------
(***************************************************************************)
(* Instances of DidNtoken for TLC: one token and several holders, or the   *)
(* catalog: up to three tokens, an issuer and a holder, ids the contract   *)
(* assigns, uris, notaries and symbols nobody created.                     *)
(***************************************************************************)
EXTENDS DidNtoken, FiniteSets

CONSTANTS issuer, holder, other

Sym(id, parent) == [id |-> id, parent |-> parent]
LedgerSymbol == {Sym(1, 0)}
\* Created after token 1, a token of id 0 gets the id 2 and keeps the parent 1;
\* the symbol of id 2 and parent 0 is then a phantom.
CatalogSymbol == {Sym(0, 1), Sym(1, 0), Sym(2, 1), Sym(2, 0)}

\* Bound on the rows of the catalog: two tokens with three balances, or one
\* token with four.
FewRows == Cardinality(DOMAIN accounts) + Cardinality(DOMAIN nstats) <= 5
=============================================================================
