------------------------------- MODULE Escrow -------------------------------
(***************************************************************************)
(* What a red packet contract promises its senders: every deposit is kept  *)
(* apart under its code, what leaves the vault is taken from one deposit   *)
(* and never exceeds what that deposit still holds, and closing a deposit  *)
(* gives back exactly the rest.                                            *)
(***************************************************************************)
EXTENDS Integers, Table

CONSTANTS Code, Token, Amount

VARIABLES
    held,       \* table of open deposits: [token, amount] by code
    vault       \* what the contract owns of each token

escrowVars == <<held, vault>>

Init ==
    /\ held = EmptyTable
    /\ vault = [t \in Token |-> 0]

Deposit(code, token, amount) ==
    /\ code \notin DOMAIN held
    /\ amount > 0
    /\ held' = Put(held, code, [token |-> token, amount |-> amount])
    /\ vault' = [vault EXCEPT ![token] = @ + amount]

\* Some of a deposit is paid out; what is left of it stays under its code.
Pay(code) ==
    /\ DOMAIN held' = DOMAIN held
    /\ LET left == held'[code].amount
       IN  /\ left >= 0 /\ left < held[code].amount
           /\ held' = [held EXCEPT ![code].amount = left]
           /\ vault' = [vault EXCEPT
                           ![held[code].token] = @ - (held[code].amount - left)]

Close(code) ==
    /\ held' = Drop(held, {code})
    /\ vault' = [vault EXCEPT ![held[code].token] = @ - held[code].amount]

Next ==
    \/ \E c \in Code, t \in Token, a \in Amount : Deposit(c, t, a)
    \/ \E c \in DOMAIN held : Pay(c) \/ Close(c)

Spec == Init /\ [][Next]_escrowVars
=============================================================================
