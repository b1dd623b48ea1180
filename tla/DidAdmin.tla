------------------------------ MODULE DidAdmin ------------------------------
(***************************************************************************)
(* did.admin: sells rebinds of DID tokens.  An AMAX payment whose memo     *)
(* names a DID and an account moves one unit of the payer's DID there; the *)
(* contract keeps no table.                                                *)
(***************************************************************************)
EXTENDS DidNtoken

CONSTANTS
    DidNumber,      \* the uint64 DID numbers memos name
    Payment,        \* AMAX quantities of payments, in units of 0.05 AMAX
    MaxAdminBank    \* bound on the AMAX did.admin collects

MinPayment == 2     \* 0.1 AMAX
BurnQuant == 1      \* 0.05 AMAX, sent to the account oooo

ASSUME PaymentAssumption ==
    /\ Payment \subseteq Nat
    /\ MaxAdminBank \in Nat

VARIABLE adminBank      \* the AMAX did.admin owns

\* nasset takes the number as a uint32.
DidOf(number) == [symbol |-> [id |-> number % IdSpan, parent |-> 0],
                  amount |-> 1]

\* Fault: the rebind is carried out for any payment.
onpaytransfer_freeOfCharge(from, quant, number, dest) ==
    /\ adminBank' = adminBank
    /\ rebind(from, dest, DidOf(number))

onpaytransfer(from, quant, number, dest) ==
    /\ quant >= MinPayment
    /\ adminBank + quant - BurnQuant <= MaxAdminBank        \* bound
    /\ adminBank' = adminBank + quant - BurnQuant
    /\ rebind(from, dest, DidOf(number))
=============================================================================
