---------------------------- MODULE MCDidRecover ----------------------------
(***************************************************************************)
(* An instance of DidRecover for TLC: one DID, its issuer and a user, who  *)
(* both may lose their account, and one submitter.                         *)
(***************************************************************************)
EXTENDS DidRecover

RecoverDid == [id |-> 1, parent |-> 0]
RecoverSymbol == {RecoverDid}
=============================================================================
