-------------------------- MODULE DidRecoverProofs --------------------------
(***************************************************************************)
(* For any accounts, submitters and authorities, and any behaviour of the  *)
(* ledger: the orders of did.recover stay well formed, one to an account,  *)
(* and the contract implements Recovery.                                   *)
(***************************************************************************)
EXTENDS DidRecover, TLAPS

IInv == RecoverTypeOK /\ OneOrderPerAccount /\ StatusesAgree /\ LostHasRow

AnyStep == [LedgerStep \/ RecoverNext]_<<ntokenVars, recoverVars>>

-----------------------------------------------------------------------------
(* What a step does to the table of orders *)

\* The row of a new order.
FiledRow(r) ==
    /\ r \in RecoverOrder
    /\ r.owner # r.lost
    /\ r.status = "pending" /\ r.certification = "pending"
    /\ r.recast = "pending"
    /\ DidRow(r.lost)

Files(r) ==
    /\ FiledRow(r)
    /\ \A o \in DOMAIN recorders : recorders[o].lost # r.lost
    /\ lastOrderId' = lastOrderId + 1
    /\ recorders' = Put(recorders, lastOrderId + 1, r)

Verifies(o) ==
    /\ o \in DOMAIN recorders
    /\ recorders[o].status = "pending"
    /\ recorders[o].certification # "finished"
    /\ recorders' = [recorders EXCEPT ![o].certification = "finished"]

Recasts(o) ==
    /\ o \in DOMAIN recorders
    /\ recorders[o].status = "pending"
    /\ recorders[o].certification = "finished"
    /\ recorders' = [recorders EXCEPT ![o].recast = "finished",
                                      ![o].status = "finished"]

Drops(o) ==
    /\ o \in DOMAIN recorders
    /\ \/ recorders[o].status = "pending"
       \/ recorders[o].certification \in {"pending", "failed"}
    /\ recorders' = Drop(recorders, {o})

\* Rows of the ledger are never erased.
LEMMA RowsStay ==
    ASSUME Next PROVE DOMAIN accounts \subseteq DOMAIN accounts'
<1>1. ASSUME NEW to, NEW q
      PROVE  DOMAIN accounts \subseteq DOMAIN add_balance(accounts, to, q)
  BY DEF add_balance, Put
<1>2. ASSUME NEW owner, NEW q
      PROVE  DOMAIN accounts = DOMAIN sub_balance(accounts, owner, q)
  BY DEF sub_balance
<1>3. ASSUME NEW from, NEW to, NEW q
      PROVE  DOMAIN accounts \subseteq
                 DOMAIN add_balance(sub_balance(accounts, from, q), to, q)
  BY <1>2 DEF add_balance, Put
<1>4. CASE IssuerNext
  <2>1. ASSUME NEW i, NEW a, NEW s, NEW snd, NEW rcv,
               setacctperms(i, a, s, snd, rcv)
        PROVE  DOMAIN accounts \subseteq DOMAIN accounts'
    BY <2>1 DEF setacctperms, Put
  <2> QED
    BY <1>1, <1>2, <1>4, <2>1 DEF IssuerNext, create, issue, retire, burn
<1>5. CASE AdminNext
  BY <1>5 DEF AdminNext, setnotary, settokenuri, notarize, reclaim, ntokenVars
<1>6. CASE RebindNext
  BY <1>3, <1>6 DEF RebindNext, rebind
<1>7. CASE HolderNext
  BY <1>3, <1>7 DEF HolderNext, transfer
<1> QED
  BY <1>4, <1>5, <1>6, <1>7 DEF Next

LEMMA DidRowsStay ==
    ASSUME AnyStep, NEW a, DidRow(a) PROVE DidRow(a)'
<1>1. DOMAIN accounts \subseteq DOMAIN accounts'
  <2>1. CASE Next
    BY <2>1, RowsStay
  <2>2. CASE RecoverNext \/ UNCHANGED ntokenVars
    BY <2>2 DEF RecoverNext, init, setauth, delauth, on_amax_transfer, verifydid,
                assetrecast, delorder, tick, Others, ntokenVars
  <2> QED
    BY <2>1, <2>2 DEF AnyStep, LedgerStep
<1> QED
  BY <1>1 DEF DidRow, HasRow

\* The five kinds of steps, as far as the orders are concerned.
LEMMA Kinds ==
    ASSUME IInv, AnyStep
    PROVE  /\ \A a \in DOMAIN auths' : auths'[a] \in AuthRow
           /\ DOMAIN auths' \subseteq Submitter
           /\ feeInfo' \in RecoverFee \cup {NoFee}
           /\ now' \in Nat
           /\ \/ recorders' = recorders /\ lastOrderId' = lastOrderId
              \/ \E r \in RecoverOrder : Files(r)
              \/ /\ lastOrderId' = lastOrderId
                 /\ \E o \in DOMAIN recorders :
                        Verifies(o) \/ Recasts(o) \/ Drops(o)
<1> USE DEF IInv, RecoverTypeOK
<1> DEFINE Rest == /\ \A a \in DOMAIN auths' : auths'[a] \in AuthRow
                   /\ DOMAIN auths' \subseteq Submitter
                   /\ feeInfo' \in RecoverFee \cup {NoFee}
                   /\ now' \in Nat
           Kind == \/ recorders' = recorders /\ lastOrderId' = lastOrderId
                   \/ \E r \in RecoverOrder : Files(r)
                   \/ /\ lastOrderId' = lastOrderId
                      /\ \E o \in DOMAIN recorders :
                             Verifies(o) \/ Recasts(o) \/ Drops(o)
<1>1. ASSUME UNCHANGED <<auths, feeInfo, now>> PROVE Rest
  BY <1>1
<1>2. ASSUME NEW q \in RecoverFee, init(q) PROVE Rest /\ Kind
  BY <1>2 DEF init
<1>3. ASSUME NEW a \in Submitter, NEW acts \in SUBSET ActionType,
             setauth(a, acts)
      PROVE  Rest /\ Kind
  BY <1>3 DEF setauth, Put, AuthRow
<1>4. ASSUME NEW a \in Submitter, delauth(a) PROVE Rest /\ Kind
  BY <1>4 DEF delauth, Drop
<1>5. ASSUME NEW a \in Account, NEW b \in Account, NEW q \in RecoverFee,
             on_amax_transfer(a, q, b)
      PROVE  Rest /\ Kind
  <2> DEFINE r == NewOrder(a, b)
  <2>1. r \in RecoverOrder
    BY RecoverAssumption DEF NewOrder, RecoverOrder, OrderStatus
  <2>2. FiledRow(r) /\ r.lost = b
    BY <1>5, <2>1 DEF on_amax_transfer, NewOrder, FiledRow
  <2> HIDE DEF r
  <2>3. Files(r)
    BY <1>5, <2>2 DEF on_amax_transfer, Files, r
  <2> QED
    BY <1>1, <1>5, <2>1, <2>3 DEF on_amax_transfer
<1>6. ASSUME NEW a \in Submitter, NEW o \in DOMAIN recorders,
             NEW ok \in BOOLEAN, verifydid(a, o, ok)
      PROVE  Rest /\ Kind
  <2>1. UNCHANGED <<auths, feeInfo, now, lastOrderId>>
    BY <1>6 DEF verifydid, Others
  <2>2. Verifies(o) \/ Drops(o)
    BY <1>6 DEF verifydid, Verifies, Drops
  <2> QED
    BY <1>1, <2>1, <2>2
<1>7. ASSUME NEW a \in Submitter, NEW o \in DOMAIN recorders,
             NEW ok \in BOOLEAN, assetrecast(a, o, ok)
      PROVE  Rest /\ Kind
  <2>1. UNCHANGED <<auths, feeInfo, now, lastOrderId>>
    BY <1>7 DEF assetrecast, Others
  <2>2. Recasts(o) \/ Drops(o)
    BY <1>7 DEF assetrecast, Recasts, Drops
  <2> QED
    BY <1>1, <2>1, <2>2
<1>8. ASSUME NEW o \in DOMAIN recorders, delorder(o) PROVE Rest /\ Kind
  <2>1. UNCHANGED <<auths, feeInfo, now, lastOrderId>>
    BY <1>8 DEF delorder, Others
  <2>2. Drops(o)
    BY <1>8 DEF delorder, Drops
  <2> QED
    BY <1>1, <2>1, <2>2
<1>9. ASSUME tick PROVE Rest /\ Kind
  BY <1>9 DEF tick
<1>10. ASSUME UNCHANGED recoverVars PROVE Rest /\ Kind
  BY <1>10 DEF recoverVars
<1> HIDE DEF Rest, Kind
<1>11. Rest /\ Kind
  <2>1. CASE RecoverNext
    BY <2>1, <1>2, <1>3, <1>4, <1>5, <1>6, <1>7, <1>8, <1>9 DEF RecoverNext
  <2> QED
    BY <2>1, <1>10 DEF AnyStep, LedgerStep
<1> QED
  BY <1>11 DEF Rest, Kind
-----------------------------------------------------------------------------
(* The inductive invariant *)

\* Whatever a kind of step does, it keeps orders well formed, one to an account.
Orders ==
    /\ DOMAIN recorders \subseteq 1 .. lastOrderId
    /\ \A o \in DOMAIN recorders : recorders[o] \in RecoverOrder
    /\ lastOrderId \in Nat
    /\ OneOrderPerAccount
    /\ StatusesAgree

LEMMA FilingKeepsOrders ==
    ASSUME Orders, NEW r \in RecoverOrder, Files(r) PROVE Orders'
<1> DEFINE new == lastOrderId + 1
<1>1. /\ FiledRow(r) /\ lastOrderId \in Nat /\ new \notin DOMAIN recorders
      /\ \A o \in DOMAIN recorders : recorders[o].lost # r.lost
  BY DEF Orders, Files
<1>2. /\ DOMAIN recorders' = DOMAIN recorders \cup {new}
      /\ recorders'[new] = r
      /\ \A o \in DOMAIN recorders : recorders'[o] = recorders[o]
  BY <1>1 DEF Files, Put
<1>3. /\ DOMAIN recorders' \subseteq 1 .. lastOrderId' /\ lastOrderId' \in Nat
      /\ \A o \in DOMAIN recorders' : recorders'[o] \in RecoverOrder
  BY <1>1, <1>2 DEF Orders, Files
<1>4. OneOrderPerAccount'
  BY <1>1, <1>2 DEF Orders, OneOrderPerAccount, FiledRow
<1>5. StatusesAgree'
  BY <1>1, <1>2 DEF Orders, StatusesAgree, FiledRow
<1> QED
  BY <1>3, <1>4, <1>5 DEF Orders

LEMMA UpdateKeepsOrders ==
    ASSUME Orders, lastOrderId' = lastOrderId,
           NEW o \in DOMAIN recorders, Verifies(o) \/ Recasts(o)
    PROVE  Orders'
<1>1. /\ DOMAIN recorders' = DOMAIN recorders
      /\ \A p \in DOMAIN recorders \ {o} : recorders'[p] = recorders[p]
  BY DEF Verifies, Recasts
<1>2. recorders[o] \in RecoverOrder
  BY DEF Orders
<1>3. /\ recorders'[o] \in RecoverOrder
      /\ recorders'[o].lost = recorders[o].lost
      /\ recorders'[o].owner = recorders[o].owner
      /\ recorders'[o].status = recorders'[o].recast
      /\ recorders'[o].recast = "finished" =>
             recorders'[o].certification = "finished"
      /\ "failed" \notin {recorders'[o].status, recorders'[o].certification,
                          recorders'[o].recast}
  <2>1. CASE Verifies(o)
    BY <1>2, <2>1 DEF Verifies, Orders, StatusesAgree, RecoverOrder, OrderStatus
  <2>2. CASE Recasts(o)
    BY <1>2, <2>2 DEF Recasts, Orders, StatusesAgree, RecoverOrder, OrderStatus
  <2> QED
    BY <2>1, <2>2
<1>4. OneOrderPerAccount'
  BY <1>1, <1>3 DEF Orders, OneOrderPerAccount
<1>5. StatusesAgree'
  BY <1>1, <1>3 DEF Orders, StatusesAgree
<1> QED
  BY <1>1, <1>3, <1>4, <1>5 DEF Orders

LEMMA DropKeepsOrders ==
    ASSUME Orders, lastOrderId' = lastOrderId,
           NEW o \in DOMAIN recorders, Drops(o)
    PROVE  Orders'
<1>1. /\ DOMAIN recorders' = DOMAIN recorders \ {o}
      /\ \A p \in DOMAIN recorders \ {o} : recorders'[p] = recorders[p]
  BY DEF Drops, Drop
<1> QED
  BY <1>1 DEF Orders, OneOrderPerAccount, StatusesAgree

\* The accounts orders are about: those of before, and the one of a new order.
LEMMA LostRowsKept ==
    ASSUME IInv, AnyStep PROVE LostHasRow'
<1> USE DEF IInv, LostHasRow
<1>1. \A a : DidRow(a) => DidRow(a)'
  BY DidRowsStay
<1>2. CASE recorders' = recorders
  BY <1>1, <1>2
<1>3. ASSUME NEW r \in RecoverOrder, Files(r) PROVE LostHasRow'
  <2>1. DidRow(r.lost)'
    BY <1>1, <1>3 DEF Files, FiledRow
  <2>2. /\ DOMAIN recorders' = DOMAIN recorders \cup {lastOrderId + 1}
        /\ \A o \in DOMAIN recorders' :
               \/ recorders'[o] = r
               \/ o \in DOMAIN recorders /\ recorders'[o] = recorders[o]
    BY <1>3 DEF Files, Put
  <2> QED
    BY <1>1, <2>1, <2>2
<1>4. ASSUME NEW o \in DOMAIN recorders, Verifies(o) \/ Recasts(o) \/ Drops(o)
      PROVE  LostHasRow'
  <2>1. recorders[o] \in RecoverOrder
    BY DEF RecoverTypeOK
  <2>2. \A p \in DOMAIN recorders' :
            p \in DOMAIN recorders /\ recorders'[p].lost = recorders[p].lost
    BY <1>4, <2>1 DEF Verifies, Recasts, Drops, Drop, RecoverOrder
  <2> QED
    BY <1>1, <2>2
<1> QED
  BY <1>2, <1>3, <1>4, Kinds

LEMMA InitInv == Init /\ RecoverInit => IInv
BY DEF Init, RecoverInit, EmptyTable, IInv, RecoverTypeOK, OneOrderPerAccount,
       StatusesAgree, LostHasRow

LEMMA StepInv == IInv /\ AnyStep => IInv'
<1> SUFFICES ASSUME IInv, AnyStep PROVE IInv'
  OBVIOUS
<1>1. Orders
  BY DEF IInv, Orders, RecoverTypeOK
<1>2. Orders'
  <2>1. CASE recorders' = recorders /\ lastOrderId' = lastOrderId
    BY <1>1, <2>1 DEF Orders, OneOrderPerAccount, StatusesAgree
  <2> QED
    BY <1>1, <2>1, Kinds, FilingKeepsOrders, UpdateKeepsOrders, DropKeepsOrders
<1>3. RecoverTypeOK'
  BY <1>2, Kinds DEF Orders, RecoverTypeOK
<1> QED
  BY <1>2, <1>3, LostRowsKept DEF Orders, IInv

LEMMA Invariance == RecoverSpec => []IInv
BY InitInv, StepInv, PTL DEF RecoverSpec, AnyStep

\* Orders are well formed and under ids given out.
THEOREM TypeCorrect == RecoverSpec => []RecoverTypeOK
BY Invariance, PTL DEF IInv

\* No account has two orders, or one it filed itself.
THEOREM OneOrder == RecoverSpec => []OneOrderPerAccount
BY Invariance, PTL DEF IInv

\* The statuses of every order agree.
THEOREM StatusesOfOrders == RecoverSpec => []StatusesAgree
BY Invariance, PTL DEF IInv

\* Every order is about an account with a row in the ledger.
THEOREM RowBehindOrder == RecoverSpec => []LostHasRow
BY Invariance, PTL DEF IInv
-----------------------------------------------------------------------------
(* Who passes an order *)

\* The stages of an order are passed by submitters with the authority for
\* each, at that moment.
THEOREM PassedByAuthority == RecoverSpec => ByAuthority
<1> DEFINE needs(action) == \E a \in Submitter : Authorised(a, action)
           Passed(o) ==
               LET r == recorders[o]
                   gone == o \notin DOMAIN recorders'
               IN  /\ r.certification = "pending" /\ gone /\ now <= r.expiredAt =>
                          needs("verifydid")
                   /\ r.certification = "pending" /\ ~gone /\ recorders'[o] # r =>
                          needs("verifydid")
                   /\ r.certification = "finished" /\ (gone \/ recorders'[o] # r)
                          => needs("assetrecast") /\ r.status # "finished"
<1>1. ASSUME IInv, AnyStep, recorders' # recorders, NEW o \in DOMAIN recorders
      PROVE  Passed(o)
  <2> USE <1>1 DEF IInv, RecoverTypeOK
  <2>1. recorders[o] \in RecoverOrder /\ now \in Nat
    OBVIOUS
  <2>2. ASSUME NEW a \in Account, NEW b \in Account, NEW q \in RecoverFee,
               on_amax_transfer(a, q, b)
        PROVE  Passed(o)
    <3>1. o # lastOrderId + 1
      OBVIOUS
    <3> QED
      BY <2>2, <3>1 DEF on_amax_transfer, Put
  <2>3. ASSUME NEW a \in Submitter, NEW p \in DOMAIN recorders,
               NEW ok \in BOOLEAN, verifydid(a, p, ok)
        PROVE  Passed(o)
    <3>1. CASE o = p
      BY <2>3, <3>1 DEF verifydid
    <3>2. CASE o # p
      BY <2>3, <3>2 DEF verifydid, Drop
    <3> QED
      BY <3>1, <3>2
  <2>4. ASSUME NEW a \in Submitter, NEW p \in DOMAIN recorders,
               NEW ok \in BOOLEAN, assetrecast(a, p, ok)
        PROVE  Passed(o)
    <3>1. CASE o = p
      BY <2>4, <3>1 DEF assetrecast
    <3>2. CASE o # p
      BY <2>4, <3>2 DEF assetrecast, Drop
    <3> QED
      BY <3>1, <3>2
  <2>5. ASSUME NEW p \in DOMAIN recorders, delorder(p) PROVE Passed(o)
    <3>1. CASE o = p
      <4>1. recorders[o].expiredAt \in Nat /\ recorders[o].expiredAt < now
        BY <2>1, <2>5, <3>1 DEF delorder, RecoverOrder
      <4> QED
        BY <2>1, <2>5, <3>1, <4>1 DEF delorder, Drop
    <3>2. CASE o # p
      BY <2>5, <3>2 DEF delorder, Drop
    <3> QED
      BY <3>1, <3>2
  <2> HIDE DEF Passed
  <2>6. ASSUME RecoverNext PROVE Passed(o)
    BY <2>2, <2>3, <2>4, <2>5, <2>6
       DEF RecoverNext, init, setauth, delauth, tick
  <2> QED
    BY <2>6 DEF AnyStep, LedgerStep, recoverVars
<1>2. IInv /\ AnyStep => [\A o \in DOMAIN recorders : Passed(o)]_recorders
  BY <1>1
<1> QED
  BY Invariance, <1>2, PTL DEF RecoverSpec, AnyStep, ByAuthority
-----------------------------------------------------------------------------
(* The refinement *)

\* The stage of an account's claim, read off a table of orders.
StageIn(recs, a) ==
    IF \E o \in DOMAIN recs : recs[o].lost = a /\ recs[o].status = "finished"
    THEN "recovered"
    ELSE IF \E o \in DOMAIN recs :
                recs[o].lost = a /\ recs[o].certification = "finished"
    THEN "verified"
    ELSE IF \E o \in DOMAIN recs : recs[o].lost = a THEN "filed"
    ELSE "none"

RowStage(r) ==
    IF r.status = "finished" THEN "recovered"
    ELSE IF r.certification = "finished" THEN "verified" ELSE "filed"

OneEach(recs) ==
    \A o, p \in DOMAIN recs : recs[o].lost = recs[p].lost => o = p

LEMMA StageNow == ASSUME NEW a PROVE StageOf(a) = StageIn(recorders, a)
BY DEF StageOf, StageIn, HasRecovered, HasVerified, HasOrder

LEMMA StageNext == ASSUME NEW a PROVE StageOf(a)' = StageIn(recorders', a)
BY DEF StageOf, StageIn, HasRecovered, HasVerified, HasOrder

LEMMA StageOfOrder ==
    ASSUME NEW recs, OneEach(recs), NEW o \in DOMAIN recs
    PROVE  StageIn(recs, recs[o].lost) = RowStage(recs[o])
BY DEF OneEach, StageIn, RowStage

LEMMA StageOfNobody ==
    ASSUME NEW recs, NEW a, \A o \in DOMAIN recs : recs[o].lost # a
    PROVE  StageIn(recs, a) = "none"
BY DEF StageIn

\* A claim does not move with the orders about other accounts.
LEMMA StageElsewhere ==
    ASSUME NEW old, NEW new, NEW a,
           \A o \in DOMAIN old : old[o].lost = a =>
               o \in DOMAIN new /\ new[o] = old[o],
           \A o \in DOMAIN new : new[o].lost = a =>
               o \in DOMAIN old /\ new[o] = old[o]
    PROVE  StageIn(new, a) = StageIn(old, a)
BY DEF StageIn

Stages == [a \in Account |-> StageOf(a)]

\* One claim goes from one stage to another, and no other moves.
LEMMA OneClaim ==
    ASSUME NEW b \in Account, NEW from, NEW to,
           StageIn(recorders, b) = from, StageIn(recorders', b) = to,
           \A a \in Account \ {b} :
               StageIn(recorders', a) = StageIn(recorders, a)
    PROVE  TheRecovery!Advance(b, from, to)
<1>1. Stages[b] = from
  BY StageNow DEF Stages
<1>2. Stages' = [Stages EXCEPT ![b] = to]
  BY StageNow, StageNext DEF Stages
<1> QED
  BY <1>1, <1>2 DEF TheRecovery!Advance, Stages

LEMMA FilingAdvances ==
    ASSUME Orders, NEW r \in RecoverOrder, Files(r)
    PROVE  TheRecovery!Advance(r.lost, "none", "filed")
<1> DEFINE new == lastOrderId + 1
<1>1. /\ FiledRow(r) /\ new \notin DOMAIN recorders /\ r.lost \in Account
      /\ \A o \in DOMAIN recorders : recorders[o].lost # r.lost
  BY DEF Orders, Files, RecoverOrder
<1>2. /\ DOMAIN recorders' = DOMAIN recorders \cup {new}
      /\ recorders'[new] = r
      /\ \A o \in DOMAIN recorders : recorders'[o] = recorders[o]
  BY <1>1 DEF Files, Put
<1> HIDE DEF new
<1>3. StageIn(recorders, r.lost) = "none"
  BY <1>1, StageOfNobody
<1>4. StageIn(recorders', r.lost) = "filed"
  BY <1>1, <1>2 DEF FiledRow, StageIn
<1>5. ASSUME NEW a \in Account \ {r.lost}
      PROVE  StageIn(recorders', a) = StageIn(recorders, a)
  BY <1>2, StageElsewhere
<1> QED
  BY <1>1, <1>3, <1>4, <1>5, OneClaim

LEMMA OtherClaimsStay ==
    ASSUME Orders, NEW o \in DOMAIN recorders,
           Verifies(o) \/ Recasts(o) \/ Drops(o),
           NEW a \in Account \ {recorders[o].lost}
    PROVE  StageIn(recorders', a) = StageIn(recorders, a)
<1>1. /\ DOMAIN recorders' \subseteq DOMAIN recorders
      /\ \A p \in DOMAIN recorders \ {o} :
             p \in DOMAIN recorders' /\ recorders'[p] = recorders[p]
      /\ o \in DOMAIN recorders' => recorders'[o].lost = recorders[o].lost
  <2>1. recorders[o] \in RecoverOrder
    BY DEF Orders
  <2> QED
    BY <2>1 DEF Verifies, Recasts, Drops, Drop, RecoverOrder
<1> QED
  BY <1>1, StageElsewhere

\* Every step of did.recover is a step of Recovery, or none.
LEMMA StepRefines ==
    ASSUME IInv, AnyStep
    PROVE  TheRecovery!Next \/ Stages' = Stages
<1>1. Orders /\ Orders' /\ OneEach(recorders) /\ OneEach(recorders')
  <2>1. IInv'
    BY StepInv
  <2> QED
    BY <2>1 DEF IInv, RecoverTypeOK, Orders, OneOrderPerAccount, OneEach
<1>2. CASE recorders' = recorders
  BY <1>2, StageNow, StageNext DEF Stages
<1>3. ASSUME NEW r \in RecoverOrder, Files(r) PROVE TheRecovery!Next
  BY <1>1, <1>3, FilingAdvances DEF TheRecovery!Next, RecoverOrder
<1>4. ASSUME NEW o \in DOMAIN recorders, Verifies(o) \/ Recasts(o) \/ Drops(o)
      PROVE  TheRecovery!Next
  <2> DEFINE b == recorders[o].lost
             from == StageIn(recorders, b)
             to == StageIn(recorders', b)
  <2>1. recorders[o] \in RecoverOrder /\ b \in Account
    BY <1>1 DEF Orders, RecoverOrder
  <2>2. from = RowStage(recorders[o])
    BY <1>1, StageOfOrder
  <2>3. \A a \in Account \ {b} :
            StageIn(recorders', a) = StageIn(recorders, a)
    BY <1>1, <1>4, OtherClaimsStay
  <2>4. CASE Verifies(o)
    <3>1. from = "filed"
      BY <2>2, <2>4 DEF Verifies, RowStage
    <3>2. /\ o \in DOMAIN recorders' /\ recorders'[o].lost = b
          /\ RowStage(recorders'[o]) = "verified"
      BY <2>1, <2>4 DEF Verifies, RowStage, RecoverOrder
    <3>3. to = "verified"
      BY <1>1, <3>2, StageOfOrder
    <3> HIDE DEF b, from, to
    <3>4. TheRecovery!Advance(b, "filed", "verified")
      BY <2>1, <2>3, <3>1, <3>3, OneClaim DEF from, to
    <3> QED
      BY <2>1, <3>4 DEF TheRecovery!Next
  <2>5. CASE Recasts(o)
    <3>1. from = "verified"
      BY <2>2, <2>5 DEF Recasts, RowStage
    <3>2. /\ o \in DOMAIN recorders' /\ recorders'[o].lost = b
          /\ RowStage(recorders'[o]) = "recovered"
      BY <2>1, <2>5 DEF Recasts, RowStage, RecoverOrder
    <3>3. to = "recovered"
      BY <1>1, <3>2, StageOfOrder
    <3> HIDE DEF b, from, to
    <3>4. TheRecovery!Advance(b, "verified", "recovered")
      BY <2>1, <2>3, <3>1, <3>3, OneClaim DEF from, to
    <3> QED
      BY <2>1, <3>4 DEF TheRecovery!Next
  <2>6. CASE Drops(o)
    <3>1. from \in {"filed", "verified"}
      BY <1>1, <2>2, <2>6 DEF Drops, RowStage, Orders, StatusesAgree
    <3>2. \A p \in DOMAIN recorders' : recorders'[p].lost # b
      BY <1>1, <2>6 DEF Drops, Drop, OneEach
    <3>3. to = "none"
      BY <3>2, StageOfNobody
    <3> HIDE DEF b, from, to
    <3>4. TheRecovery!Advance(b, from, "none")
      BY <2>1, <2>3, <3>3, OneClaim DEF from, to
    <3> QED
      BY <2>1, <3>1, <3>4 DEF TheRecovery!Next
  <2> QED
    BY <1>4, <2>4, <2>5, <2>6
<1> QED
  BY <1>2, <1>3, <1>4, Kinds

\* did.recover implements Recovery: claims are checked in order, an account is
\* recovered only after the claimant was verified, and once.
THEOREM ImplementsRecovery == RecoverSpec => Recovers
<1>1. Init /\ RecoverInit => TheRecovery!Init
  BY StageNow, StageOfNobody
     DEF RecoverInit, EmptyTable, TheRecovery!Init
<1>2. IInv /\ AnyStep =>
          [TheRecovery!Next]_([a \in Account |-> StageOf(a)])
  BY StepRefines DEF Stages
<1> QED
  BY Invariance, <1>1, <1>2, PTL
     DEF RecoverSpec, AnyStep, Recovers, TheRecovery!Spec
=============================================================================
