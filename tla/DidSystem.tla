----------------------------- MODULE DidSystem -----------------------------
(***************************************************************************)
(* The did.ntoken ledger with the two contracts that act on it: amax.did   *)
(* sends DID tokens to the applicants it approves, did.admin rebinds them. *)
(* A transaction of either is one step, with the inline actions it sends;  *)
(* steps of different contracts, of the issuer and of the holders          *)
(* interleave.  The account of amax.did acts only through its code.        *)
(***************************************************************************)
EXTENDS AmaxDid, DidAdmin

\* The contracts send one unit, of DIDs that callers of the ledger name too.
ASSUME SystemAssumption ==
    /\ 1 \in Amount
    /\ \A n \in DidNumber : DidOf(n).symbol \in Symbol

systemVars == <<ntokenVars, amaxdidVars, adminBank>>

SystemInit == Init /\ KycInit /\ adminBank = 0

LedgerStep ==
    /\ \/ IssuerNext
       \/ AdminNext
       \/ \E a \in Account \ {DidContract}, b \in Account, q \in Assets :
              transfer(a, b, q)
    /\ UNCHANGED <<amaxdidVars, adminBank>>

KycStep == KycNext /\ UNCHANGED adminBank

RebindStep ==
    /\ \E a \in Account \ {DidContract}, b \in Account, q \in Payment,
          n \in DidNumber : onpaytransfer(a, q, n, b)
    /\ UNCHANGED amaxdidVars

SystemNext == LedgerStep \/ KycStep \/ RebindStep

SystemSpec == SystemInit /\ [][SystemNext]_systemVars
-----------------------------------------------------------------------------
(* Properties *)

\* The order o is settled in this step, for its applicant a.
SettledFor(o, a) == orders[o].applicant = a /\ o \notin DOMAIN orders'

\* The stock of amax.did reaches only applicants: it falls when the issuer
\* burns of it or, by one, in the very step that settles the order of a user
\* who had none, who has it afterwards, and whose charge is collected
\* (amax.did.cpp:98-127, did.ntoken.cpp:205).
StockForOrders ==
    [][\A s \in Symbol :
          BalanceOf(DidContract, s)' < BalanceOf(DidContract, s) =>
              \/ SupplyOf(s)' < SupplyOf(s)
              \/ \E o \in DOMAIN orders, a \in Account :
                     /\ SettledFor(o, a)
                     /\ BalanceOf(a, s) = 0 /\ BalanceOf(a, s)' = 1
                     /\ BalanceOf(DidContract, s)'
                            = BalanceOf(DidContract, s) - 1
                     /\ bank' < bank]_accounts

\* The order o is settled in this step and its applicant gets a DID.
Delivered(o) ==
    \E a \in Account, s \in Symbol :
        SettledFor(o, a) /\ BalanceOf(a, s)' > BalanceOf(a, s)

\* The DID and the reward go together: no apples are spent on anybody who gets
\* no DID in that step, on his order, and nobody gets his without a reward
\* while the lease has apples left (amax.did.cpp:98-104, 214-220).
RewardWithDid ==
    [][/\ apples' < apples => \E o \in DOMAIN orders : Delivered(o)
       /\ apples > 0 => \A o \in DOMAIN orders :
                            Delivered(o) => apples' < apples
      ]_<<apples, orders>>

\* What settling the open orders still takes out of the contract.
Charges == [v \in DOMAIN vendors |-> vendors[v].charge]
Dues == [o \in DOMAIN orders |->
            SumFunctionOnSet(Charges,
                             VendorRows(orders[o].vendor, orders[o].level))]
Owed == SumFunctionOnSet(Dues, DOMAIN orders)

\* Unless a vendor's charge is changed while its orders are open, every step
\* leaves the contract at least as able to settle the open orders as it was:
\* an order brings what settling it takes, and is settled once
\* (amax.did.cpp:61, 111-127).
ChargesCover ==
    [][(\A v \in DOMAIN vendors : vendors[v].charge = vendors'[v].charge)
          => (bank - Owed)' >= bank - Owed]_<<bank, orders, vendors>>

\* A DID leaves a holder without the permission to send only when the issuer
\* burns it, when it is returned to an account allowed to receive it, or when
\* did.admin is paid for moving it (did.admin.cpp:32-46, did.ntoken.cpp:207).
BoundUnlessPaid ==
    [][\A a \in Account, s \in Symbol :
          BalanceOf(a, s)' < BalanceOf(a, s) /\ ~AllowSend(a, s) =>
              \/ SupplyOf(s)' < SupplyOf(s)
              \/ \E b \in Account : /\ AllowRecv(b, s)
                                    /\ BalanceOf(b, s)' > BalanceOf(b, s)
              \/ /\ adminBank' > adminBank
                 /\ BalanceOf(a, s)' = BalanceOf(a, s) - 1]_accounts
=============================================================================
