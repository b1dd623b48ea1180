----------------------------- MODULE DidRecover -----------------------------
(***************************************************************************)
(* did.recover: a fee opens an order that an account was lost; submitters  *)
(* with the authority for it verify the claimant's DID and then approve    *)
(* the recast of the account's assets, and an order nobody verified can be *)
(* deleted once it has expired.                                            *)
(*                                                                         *)
(* The contract reads the balances of did.ntoken, whose steps interleave   *)
(* with its own.  The fee is passed on to the collector in the same        *)
(* transaction, or kept when the collector is the contract: nothing the    *)
(* contract owns is ever read or spent.                                    *)
(***************************************************************************)
EXTENDS DidNtoken

CONSTANTS
    DidSymbol,      \* the symbol whose raw value is DID_SYMBOL_ID
    Submitter,      \* accounts that act on orders
    ActionType,     \* names of actions that setauth is called with
    RecoverFee,     \* quantities of the fee, and paid
    NoFee,          \* the fee before init
    Expiry,         \* order_expiry_duration
    MaxNow,         \* bound on the clock
    MaxRecover      \* bound on last_order_id

ASSUME RecoverAssumption ==
    /\ DidSymbol \in Symbol
    /\ NoFee \notin RecoverFee
    /\ Expiry \in Nat
    /\ MaxNow \in Nat
    /\ MaxRecover \in Nat

VARIABLES
    recorders,      \* table recorders: the orders, by id
    auths,          \* table auths: sets of action types, by account
    feeInfo,        \* _gstate.fee_info
    lastOrderId,    \* _gstate.last_order_id
    now             \* the clock

recoverVars == <<recorders, auths, feeInfo, lastOrderId, now>>

-----------------------------------------------------------------------------

RecoverInit ==
    /\ recorders = EmptyTable
    /\ auths = EmptyTable
    /\ feeInfo = NoFee
    /\ lastOrderId = 0
    /\ now = 0

init(fee) ==
    /\ feeInfo' = fee
    /\ UNCHANGED <<recorders, auths, lastOrderId, now, ntokenVars>>

setauth(auth, actions) ==
    /\ auths' = Put(auths, auth, actions)
    /\ UNCHANGED <<recorders, feeInfo, lastOrderId, now, ntokenVars>>

delauth(account) ==
    /\ account \in DOMAIN auths
    /\ auths' = Drop(auths, {account})
    /\ UNCHANGED <<recorders, feeInfo, lastOrderId, now, ntokenVars>>

\* What is asked of the lost account: a row of the DID, whatever it holds.
DidRow(lost) == HasRow(accounts, lost, DidSymbol)

NewOrder(owner, lost) ==
    [lost |-> lost, owner |-> owner, status |-> "pending",
     certification |-> "pending", recast |-> "pending",
     expiredAt |-> now + Expiry]

\* Fault: the account index is not searched for an order on the account.
on_amax_transfer_again(from, quant, lost) ==
    /\ quant = feeInfo
    /\ from # lost
    /\ DidRow(lost)
    /\ lastOrderId < MaxRecover
    /\ lastOrderId' = lastOrderId + 1
    /\ recorders' = Put(recorders, lastOrderId + 1, NewOrder(from, lost))
    /\ UNCHANGED <<auths, feeInfo, now, ntokenVars>>

\* Fault: the balances of did.ntoken are not looked up.
on_amax_transfer_anyAccount(from, quant, lost) ==
    /\ quant = feeInfo
    /\ from # lost
    /\ \A o \in DOMAIN recorders : recorders[o].lost # lost
    /\ lastOrderId < MaxRecover
    /\ lastOrderId' = lastOrderId + 1
    /\ recorders' = Put(recorders, lastOrderId + 1, NewOrder(from, lost))
    /\ UNCHANGED <<auths, feeInfo, now, ntokenVars>>

\* Fault: the id is counted after it is used.
on_amax_transfer_oldId(from, quant, lost) ==
    /\ quant = feeInfo
    /\ from # lost
    /\ DidRow(lost)
    /\ \A o \in DOMAIN recorders : recorders[o].lost # lost
    /\ lastOrderId < MaxRecover
    /\ lastOrderId' = lastOrderId + 1
    /\ recorders' = Put(recorders, lastOrderId, NewOrder(from, lost))
    /\ UNCHANGED <<auths, feeInfo, now, ntokenVars>>

on_amax_transfer(from, quant, lost) ==
    /\ quant = feeInfo
    /\ from # lost
    /\ DidRow(lost)
    /\ \A o \in DOMAIN recorders : recorders[o].lost # lost
    /\ lastOrderId < MaxRecover                             \* bound
    /\ lastOrderId' = lastOrderId + 1
    /\ recorders' = Put(recorders, lastOrderId + 1, NewOrder(from, lost))
    /\ UNCHANGED <<auths, feeInfo, now, ntokenVars>>

\* _check_action_auth
Authorised(submitter, action) ==
    submitter \in DOMAIN auths /\ action \in auths[submitter]

Others == UNCHANGED <<auths, feeInfo, lastOrderId, now, ntokenVars>>

\* Fault: the authority asked for is that of the recast.
verifydid_otherAuth(submitter, order, passed) ==
    /\ Authorised(submitter, "assetrecast")
    /\ order \in DOMAIN recorders
    /\ recorders[order].status = "pending"
    /\ recorders[order].certification # "finished"
    /\ recorders' = IF passed
                    THEN [recorders EXCEPT ![order].certification = "finished"]
                    ELSE Drop(recorders, {order})
    /\ Others

\* The order may have expired: the check of did_expired_at is commented out.
verifydid(submitter, order, passed) ==
    /\ Authorised(submitter, "verifydid")
    /\ order \in DOMAIN recorders
    /\ recorders[order].status = "pending"
    /\ recorders[order].certification # "finished"
    /\ recorders' = IF passed
                    THEN [recorders EXCEPT ![order].certification = "finished"]
                    ELSE Drop(recorders, {order})
    /\ Others

\* Fault: the certification of the claimant is not waited for.
assetrecast_unverified(submitter, order, passed) ==
    /\ Authorised(submitter, "assetrecast")
    /\ order \in DOMAIN recorders
    /\ recorders[order].status = "pending"
    /\ recorders[order].recast # "finished"
    /\ recorders' = IF passed
                    THEN [recorders EXCEPT ![order].recast = "finished",
                                           ![order].status = "finished"]
                    ELSE Drop(recorders, {order})
    /\ Others

assetrecast(submitter, order, passed) ==
    /\ Authorised(submitter, "assetrecast")
    /\ order \in DOMAIN recorders
    /\ recorders[order].status = "pending"
    /\ recorders[order].certification = "finished"
    /\ recorders[order].recast # "finished"
    /\ recorders' = IF passed
                    THEN [recorders EXCEPT ![order].recast = "finished",
                                           ![order].status = "finished"]
                    ELSE Drop(recorders, {order})
    /\ Others

\* Fault: an order that was verified is deleted as well.
delorder_anyStatus(order) ==
    /\ order \in DOMAIN recorders
    /\ recorders[order].expiredAt < now
    /\ recorders' = Drop(recorders, {order})
    /\ Others

\* Fault: only an order whose certification failed is deleted.
delorder_onlyFailed(order) ==
    /\ order \in DOMAIN recorders
    /\ recorders[order].certification = "failed"
    /\ recorders[order].expiredAt < now
    /\ recorders' = Drop(recorders, {order})
    /\ Others

\* Any account may delete an order that expired before it was verified.
delorder(order) ==
    /\ order \in DOMAIN recorders
    /\ recorders[order].certification \in {"pending", "failed"}
    /\ recorders[order].expiredAt < now
    /\ recorders' = Drop(recorders, {order})
    /\ Others

tick ==
    /\ now < MaxNow                                         \* bound
    /\ now' = now + 1
    /\ UNCHANGED <<recorders, auths, feeInfo, lastOrderId, ntokenVars>>

RecoverNext ==
    \/ \E q \in RecoverFee : init(q)
    \/ \E a \in Submitter, acts \in SUBSET ActionType : setauth(a, acts)
    \/ \E a \in Submitter : delauth(a)
    \/ \E a, b \in Account, q \in RecoverFee : on_amax_transfer(a, q, b)
    \/ \E a \in Submitter, o \in DOMAIN recorders, ok \in BOOLEAN :
           verifydid(a, o, ok) \/ assetrecast(a, o, ok)
    \/ \E o \in DOMAIN recorders : delorder(o)
    \/ tick

LedgerStep == Next /\ UNCHANGED recoverVars

\* Time passes, and whoever an expired order stands in the way of deletes it:
\* any account may.  Nothing else is promised to happen.
RecoverFairness ==
    /\ WF_<<ntokenVars, recoverVars>>(tick)
    /\ \A o \in 1 .. MaxRecover : WF_<<ntokenVars, recoverVars>>(delorder(o))

RecoverSpec ==
    /\ Init /\ RecoverInit
    /\ [][LedgerStep \/ RecoverNext]_<<ntokenVars, recoverVars>>
    /\ RecoverFairness
-----------------------------------------------------------------------------
(* Properties *)

OrderStatus == {"pending", "finished", "failed"}

RecoverOrder == [lost : Account, owner : Account, status : OrderStatus,
                 certification : OrderStatus, recast : OrderStatus,
                 expiredAt : Nat]
AuthRow == SUBSET ActionType

\* Type invariant: ids are those given out so far.
RecoverTypeOK ==
    /\ DOMAIN recorders \subseteq 1 .. lastOrderId
    /\ \A o \in DOMAIN recorders : recorders[o] \in RecoverOrder
    /\ DOMAIN auths \subseteq Submitter
    /\ \A a \in DOMAIN auths : auths[a] \in AuthRow
    /\ feeInfo \in RecoverFee \cup {NoFee}
    /\ lastOrderId \in Nat
    /\ now \in Nat

\* An account has at most one order, finished or not, and never one filed by
\* itself (did.recover.cpp:186, 192-196).
OneOrderPerAccount ==
    \A o, p \in DOMAIN recorders :
        /\ recorders[o].owner # recorders[o].lost
        /\ recorders[o].lost = recorders[p].lost => o = p

\* The statuses of an order agree: the recast is approved exactly when the
\* order is finished, only after the certification, and no row is kept of what
\* failed (did.recover.cpp:65-77, 109-122).
StatusesAgree ==
    \A o \in DOMAIN recorders :
        LET r == recorders[o]
        IN  /\ r.status = r.recast
            /\ r.recast = "finished" => r.certification = "finished"
            /\ "failed" \notin {r.status, r.certification, r.recast}

\* The row of did.ntoken that opened an order is there as long as the order:
\* no step of the ledger erases a balance (did.recover.cpp:188-190).
LostHasRow ==
    \A o \in DOMAIN recorders : DidRow(recorders[o].lost)

\* Orders advance, and fail before they expire, only while some submitter has
\* the authority for that stage (did.recover.cpp:57, 100, 176-182).
ByAuthority ==
    [][\A o \in DOMAIN recorders :
          LET r == recorders[o]
              gone == o \notin DOMAIN recorders'
              needs(action) == \E a \in Submitter : Authorised(a, action)
          IN  /\ r.certification = "pending" /\ gone /\ now <= r.expiredAt =>
                     needs("verifydid")
              /\ r.certification = "pending" /\ ~gone /\ recorders'[o] # r =>
                     needs("verifydid")
              /\ r.certification = "finished" /\ (gone \/ recorders'[o] # r) =>
                     needs("assetrecast") /\ r.status # "finished"
      ]_recorders

Unverified(o) ==
    o \in DOMAIN recorders /\ recorders[o].certification = "pending"

\* No submitter is needed to get rid of an order nobody verifies: whatever is
\* granted and revoked, it is verified, refused or deleted, and the account it
\* names can be claimed again (did.recover.cpp:127-145, 192-196).  Of the
\* orders that expire before the clock's bound.
NoOrderStaysUnverified ==
    \A o \in 1 .. MaxRecover :
        Unverified(o) /\ recorders[o].expiredAt < MaxNow ~> ~Unverified(o)

\* Every account's claim goes through the stages of Recovery.
HasOrder(a) == \E o \in DOMAIN recorders : recorders[o].lost = a
HasVerified(a) ==
    \E o \in DOMAIN recorders :
        recorders[o].lost = a /\ recorders[o].certification = "finished"
HasRecovered(a) ==
    \E o \in DOMAIN recorders :
        recorders[o].lost = a /\ recorders[o].status = "finished"

StageOf(a) ==
    IF HasRecovered(a) THEN "recovered"
    ELSE IF HasVerified(a) THEN "verified"
    ELSE IF HasOrder(a) THEN "filed"
    ELSE "none"

TheRecovery == INSTANCE Recovery WITH stage <- [a \in Account |-> StageOf(a)]

\* did.recover implements Recovery (did.recover.cpp:55-145).
Recovers == TheRecovery!Spec
=============================================================================
