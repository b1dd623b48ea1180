------------------------------ MODULE Recovery ------------------------------
(***************************************************************************)
(* What did.recover promises the owner of an account: a claim that the     *)
(* account is lost goes through its checks in order and one at a time, an  *)
(* account is recovered only after the identity of the claimant was        *)
(* verified, and is recovered once.                                        *)
(***************************************************************************)

CONSTANT Account

VARIABLE stage      \* how far the claim on each account is

Stage == {"none", "filed", "verified", "recovered"}

Init == stage = [a \in Account |-> "none"]

Advance(a, from, to) ==
    /\ stage[a] = from
    /\ stage' = [stage EXCEPT ![a] = to]

\* A claim that is refused, or that nobody checks in time, is dropped.
Next ==
    \E a \in Account :
        \/ Advance(a, "none", "filed")
        \/ Advance(a, "filed", "verified")
        \/ Advance(a, "filed", "none")
        \/ Advance(a, "verified", "recovered")
        \/ Advance(a, "verified", "none")

Spec == Init /\ [][Next]_stage
=============================================================================
