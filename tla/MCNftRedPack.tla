---------------------------- MODULE MCNftRedPack ----------------------------
(***************************************************************************)
(* Instances of NftRedPack for TLC: one NFT, two receivers and two senders *)
(* who are interchangeable, two codes.                                     *)
(***************************************************************************)
EXTENDS NftRedPack, TLC

CONSTANTS a1, a2, s1, s2, contract, symbol

Users == {p @@ q : p \in Permutations({a1, a2}), q \in Permutations({s1, s2})}

OneNft == {<<contract, symbol>>}
=============================================================================
