-------------------------- MODULE DidSystemProofs --------------------------
(***************************************************************************)
(* Proofs about amax.did and did.admin on the ledger of did.ntoken, for    *)
(* every set of accounts, vendors, levels, charges and rewards.            *)
(***************************************************************************)
EXTENDS DidSystem, DidNtokenProofs

-----------------------------------------------------------------------------
(* The inductive invariant of amax.did *)

\* An account and a level name one vendor row (addvendor searches the index).
VendorsApart ==
    \A v, w \in DOMAIN vendors :
        vendors[v].account = vendors[w].account /\ vendors[v].level = vendors[w].level
            => v = w

\* The row an order was filed under is still there: vendors are not deleted.
OrdersPlaced ==
    \A o \in DOMAIN orders :
        \E v \in DOMAIN vendors : /\ vendors[v].account = orders[o].vendor
                                  /\ vendors[v].level = orders[o].level

\* No vendor works for nothing, and no user is rewarded nothing.
Priced ==
    \A v \in DOMAIN vendors : vendors[v].charge > 0 /\ vendors[v].reward > 0

KycInv ==
    /\ KycTypeOK
    /\ OneOrderEach
    /\ PendingsOpen
    /\ VendorsApart
    /\ OrdersPlaced
    /\ Priced

\* The numbers among the fields.
LEMMA KycNumbers ==
    ASSUME KycTypeOK
    PROVE  /\ bank \in Nat /\ apples \in Nat
           /\ kycState.lastOrder \in Nat /\ kycState.lastVendor \in Nat
           /\ \A v \in DOMAIN vendors :
                 /\ vendors[v].charge \in Nat /\ vendors[v].reward \in Nat
                 /\ vendors[v].nft \in Symbol
                 /\ vendors[v].account \in Vendor
                 /\ vendors[v].level \in 0 .. KycSpan - 1
           /\ \A o \in DOMAIN orders :
                 /\ orders[o].applicant \in Account
                 /\ orders[o].vendor \in Vendor
                 /\ orders[o].level \in 0 .. KycSpan - 1
           /\ kycState.lastOrder + 1 \notin DOMAIN orders
           /\ kycState.lastVendor + 1 \notin DOMAIN vendors
<1>1. /\ bank \in Nat /\ apples \in Nat
      /\ kycState.lastOrder \in Nat /\ kycState.lastVendor \in Nat
  BY DEF KycTypeOK
<1>2. \A v \in DOMAIN vendors :
         /\ vendors[v].charge \in Nat /\ vendors[v].reward \in Nat
         /\ vendors[v].nft \in Symbol
         /\ vendors[v].account \in Vendor
         /\ vendors[v].level \in 0 .. KycSpan - 1
  BY AmaxDidAssumption DEF KycTypeOK, VendorRow
<1>3. \A o \in DOMAIN orders :
         /\ orders[o].applicant \in Account
         /\ orders[o].vendor \in Vendor
         /\ orders[o].level \in 0 .. KycSpan - 1
  BY DEF KycTypeOK, OrderRow
<1>4. /\ DOMAIN orders \subseteq 1 .. kycState.lastOrder
      /\ DOMAIN vendors \subseteq 1 .. kycState.lastVendor
  BY DEF KycTypeOK
<1>5. \A n \in Nat : n + 1 \notin 1 .. n
  OBVIOUS
<1> QED
  BY <1>1, <1>2, <1>3, <1>4, <1>5

-----------------------------------------------------------------------------
(* Each action of amax.did preserves it *)

\* init, setadmin, setcollector, refuel and plant: neither tables nor counters.
LEMMA SettingsStep ==
    ASSUME KycInv, UNCHANGED <<vendors, orders, pendings>>,
           kycState' \in [admin : KycAdmin \cup {NoName}, nftContract : BOOLEAN,
                          feeCollector : Collector \cup {NoName},
                          lastOrder : {kycState.lastOrder},
                          lastVendor : {kycState.lastVendor}],
           bank' \in Nat, apples' \in Nat
    PROVE  KycInv'
<1> USE DEF KycInv
<1>1. kycState.lastOrder \in Nat /\ kycState.lastVendor \in Nat
  BY KycNumbers
<1>2. KycTypeOK'
  BY <1>1 DEF KycTypeOK
<1>3. OneOrderEach' /\ PendingsOpen' /\ VendorsApart' /\ OrdersPlaced' /\ Priced'
  BY DEF OneOrderEach, PendingsOpen, VendorsApart, OrdersPlaced, Priced
<1> QED
  BY <1>2, <1>3

LEMMA AddVendorStep ==
    ASSUME KycInv, NEW account \in Vendor, NEW level \in KycLevel,
           level < KycSpan, NEW reward \in Reward, NEW charge \in Charge,
           NEW nft \in Symbol, addvendor(account, level, reward, charge, nft)
    PROVE  KycInv'
<1> USE DEF KycInv
<1> DEFINE v == kycState.lastVendor + 1
           row == [account |-> account, level |-> level, reward |-> reward,
                   charge |-> charge, nft |-> nft, status |-> "running"]
<1>1. /\ reward > 0 /\ charge > 0 /\ VendorRows(account, level) = {}
      /\ kycState' = [kycState EXCEPT !.lastVendor = @ + 1]
      /\ vendors' = Put(vendors, v, row)
      /\ UNCHANGED <<orders, pendings, bank, apples>>
  BY DEF addvendor
<1>2. /\ row \in VendorRow /\ row.account = account /\ row.level = level
      /\ row.charge = charge /\ row.reward = reward
  BY AmaxDidAssumption DEF VendorRow, Status
<1>3. v \notin DOMAIN vendors /\ kycState.lastVendor \in Nat
  BY KycNumbers
<1> HIDE DEF row
<1>4. /\ DOMAIN vendors' = DOMAIN vendors \cup {v}
      /\ vendors'[v] = row
      /\ \A w \in DOMAIN vendors : vendors'[w] = vendors[w]
  BY <1>1, <1>3 DEF Put
<1>5. kycState' \in [admin : KycAdmin \cup {NoName}, nftContract : BOOLEAN,
                     feeCollector : Collector \cup {NoName},
                     lastOrder : Nat, lastVendor : Nat]
      /\ kycState'.lastVendor = v /\ kycState'.lastOrder = kycState.lastOrder
  BY <1>1, <1>3 DEF KycTypeOK
<1>6. DOMAIN vendors' \subseteq 1 .. kycState'.lastVendor
  BY <1>3, <1>4, <1>5 DEF KycTypeOK
<1> HIDE DEF v
<1>7. KycTypeOK'
  <2>1. \A w \in DOMAIN vendors' : vendors'[w] \in VendorRow
    BY <1>2, <1>4 DEF KycTypeOK
  <2> QED
    BY <1>1, <1>5, <1>6, <2>1 DEF KycTypeOK
<1>8. \A w \in DOMAIN vendors :
         ~(vendors[w].account = account /\ vendors[w].level = level)
  BY <1>1 DEF VendorRows
<1>9. VendorsApart'
  <2> SUFFICES ASSUME NEW w \in DOMAIN vendors', NEW x \in DOMAIN vendors',
                      vendors'[w].account = vendors'[x].account,
                      vendors'[w].level = vendors'[x].level
               PROVE  w = x
    BY DEF VendorsApart
  <2>1. CASE w \in DOMAIN vendors /\ x \in DOMAIN vendors
    BY <1>4, <2>1 DEF VendorsApart
  <2>2. CASE w = v /\ x \in DOMAIN vendors
    BY <1>2, <1>4, <1>8, <2>2
  <2>3. CASE x = v /\ w \in DOMAIN vendors
    BY <1>2, <1>4, <1>8, <2>3
  <2> QED
    BY <1>4, <2>1, <2>2, <2>3
<1>10. OrdersPlaced' /\ Priced'
  BY <1>1, <1>2, <1>4 DEF OrdersPlaced, Priced
<1>11. OneOrderEach' /\ PendingsOpen'
  BY <1>1 DEF OneOrderEach, PendingsOpen
<1> QED
  BY <1>7, <1>9, <1>10, <1>11

\* chgvendor leaves the account and the level of every row as they are.
LEMMA VendorChange ==
    ASSUME KycTypeOK, NEW v \in DOMAIN vendors, NEW status \in Status,
           NEW reward \in Reward, NEW charge \in Charge, NEW nft \in Symbol,
           chgvendor(v, status, reward, charge, nft)
    PROVE  /\ DOMAIN vendors' = DOMAIN vendors
           /\ \A w \in DOMAIN vendors :
                 /\ vendors'[w] \in VendorRow
                 /\ vendors'[w].account = vendors[w].account
                 /\ vendors'[w].level = vendors[w].level
                 /\ vendors[w].charge > 0 => vendors'[w].charge > 0
                 /\ vendors[w].reward > 0 => vendors'[w].reward > 0
<1> DEFINE old == vendors[v]
           rew == IF reward > 0 THEN reward ELSE old.reward
           chg == IF charge > 0 THEN charge ELSE old.charge
           tok == IF nft.id > 0 THEN nft ELSE old.nft
           row == [old EXCEPT !.status = status, !.reward = rew,
                              !.charge = chg, !.nft = tok]
<1>1. old \in VendorRow /\ \A w \in DOMAIN vendors : vendors[w] \in VendorRow
  BY DEF KycTypeOK
<1>2. vendors' = [vendors EXCEPT
                     ![v].status = status,
                     ![v].reward = IF reward > 0 THEN reward ELSE @,
                     ![v].charge = IF charge > 0 THEN charge ELSE @,
                     ![v].nft = IF nft.id > 0 THEN nft ELSE @]
  BY DEF chgvendor
<1> DEFINE one == [old EXCEPT !.status = status]
           two == [one EXCEPT !.reward = IF reward > 0 THEN reward ELSE @]
           three == [two EXCEPT !.charge = IF charge > 0 THEN charge ELSE @]
           four == [three EXCEPT !.nft = IF nft.id > 0 THEN nft ELSE @]
<1>3. /\ DOMAIN vendors' = DOMAIN vendors
      /\ vendors'[v] = four
      /\ \A w \in DOMAIN vendors \ {v} : vendors'[w] = vendors[w]
  BY <1>2
<1> HIDE DEF old
<1>4. one \in VendorRow /\ one = [one EXCEPT !.status = status]
      /\ one.account = old.account /\ one.level = old.level
      /\ one.charge = old.charge /\ one.reward = old.reward
  BY <1>1 DEF VendorRow
<1> HIDE DEF one
<1>5. two \in VendorRow
      /\ two.account = old.account /\ two.level = old.level
      /\ two.charge = old.charge /\ (old.reward > 0 => two.reward > 0)
  BY <1>4 DEF VendorRow
<1> HIDE DEF two
<1>6. three \in VendorRow
      /\ three.account = old.account /\ three.level = old.level
      /\ three.reward = two.reward /\ (old.charge > 0 => three.charge > 0)
  BY <1>5 DEF VendorRow
<1> HIDE DEF three
<1>7. four \in VendorRow
      /\ four.account = old.account /\ four.level = old.level
      /\ four.reward = three.reward /\ four.charge = three.charge
  BY <1>6 DEF VendorRow
<1> HIDE DEF four
<1> USE DEF old
<1>8. vendors'[v] \in VendorRow
      /\ vendors'[v].account = vendors[v].account
      /\ vendors'[v].level = vendors[v].level
      /\ (vendors[v].charge > 0 => vendors'[v].charge > 0)
      /\ (vendors[v].reward > 0 => vendors'[v].reward > 0)
  BY <1>3, <1>5, <1>6, <1>7
<1> QED
  BY <1>1, <1>3, <1>8

LEMMA ChgVendorStep ==
    ASSUME KycInv, NEW v \in DOMAIN vendors, NEW status \in Status,
           NEW reward \in Reward, NEW charge \in Charge, NEW nft \in Symbol,
           chgvendor(v, status, reward, charge, nft)
    PROVE  KycInv'
<1> USE DEF KycInv
<1>1. /\ DOMAIN vendors' = DOMAIN vendors
      /\ \A w \in DOMAIN vendors :
            /\ vendors'[w] \in VendorRow
            /\ vendors'[w].account = vendors[w].account
            /\ vendors'[w].level = vendors[w].level
            /\ vendors[w].charge > 0 => vendors'[w].charge > 0
            /\ vendors[w].reward > 0 => vendors'[w].reward > 0
  BY VendorChange
<1>2. UNCHANGED <<orders, pendings, kycState, bank, apples>>
  BY DEF chgvendor
<1>3. KycTypeOK'
  BY <1>1, <1>2 DEF KycTypeOK
<1>4. VendorsApart' /\ OrdersPlaced' /\ Priced'
  BY <1>1, <1>2 DEF VendorsApart, OrdersPlaced, Priced
<1>5. OneOrderEach' /\ PendingsOpen'
  BY <1>2 DEF OneOrderEach, PendingsOpen
<1> QED
  BY <1>3, <1>4, <1>5

\* A level that a row has is not changed by the cast to uint32.
LEMMA LevelKept ==
    ASSUME NEW l \in 0 .. KycSpan - 1
    PROVE  l % KycSpan = l
BY AmaxDidAssumption

\* What a paid order adds: the order o.
Placed(o, from, quant, account, level) ==
    /\ from # DidContract /\ ~HasOrder(from) /\ o \notin DOMAIN orders
    /\ DOMAIN orders' = DOMAIN orders \cup {o}
    /\ \A p \in DOMAIN orders : orders'[p] = orders[p]
    /\ orders'[o] = [applicant |-> from, vendor |-> account, level |-> level]
    /\ \E v \in DOMAIN vendors :
          /\ vendors[v].account = account
          /\ vendors[v].level = level /\ vendors[v].charge = quant
    /\ level \in 0 .. KycSpan - 1
    /\ bank' = bank + quant
    /\ kycState' = [kycState EXCEPT !.lastOrder = @ + 1]
    /\ UNCHANGED <<vendors, pendings, apples, ntokenVars>>

LEMMA OrderPlaced ==
    ASSUME KycInv, NEW from \in Account, NEW quant \in Charge,
           NEW account \in Vendor, NEW level \in KycLevel,
           ontransfer(from, quant, account, level)
    PROVE  Placed(kycState.lastOrder + 1, from, quant, account, level)
<1> DEFINE o == kycState.lastOrder + 1
<1>1. PICK v \in DOMAIN vendors :
          /\ vendors[v].account = account
          /\ vendors[v].level = level /\ vendors[v].charge = quant
  BY DEF ontransfer, VendorRows
<1>2. level \in 0 .. KycSpan - 1
  BY <1>1, KycNumbers DEF KycInv
<1>3. level % KycSpan = level
  BY <1>2, LevelKept
<1>4. /\ orders' = Put(orders, o, [applicant |-> from, vendor |-> account,
                                   level |-> level])
      /\ from # DidContract /\ ~HasOrder(from) /\ bank' = bank + quant
      /\ kycState' = [kycState EXCEPT !.lastOrder = @ + 1]
      /\ UNCHANGED <<vendors, pendings, apples, ntokenVars>>
  BY <1>3 DEF ontransfer
<1>5. o \notin DOMAIN orders
  BY KycNumbers DEF KycInv
<1> HIDE DEF o
<1>6. /\ DOMAIN orders' = DOMAIN orders \cup {o}
      /\ \A p \in DOMAIN orders : orders'[p] = orders[p]
      /\ orders'[o] = [applicant |-> from, vendor |-> account, level |-> level]
  BY <1>4, <1>5 DEF Put
<1> QED
  BY <1>1, <1>2, <1>4, <1>5, <1>6 DEF o, Placed

LEMMA OrderStep ==
    ASSUME KycInv, NEW from \in Account, NEW quant \in Charge,
           NEW account \in Vendor, NEW level \in KycLevel,
           ontransfer(from, quant, account, level)
    PROVE  KycInv'
<1> USE DEF KycInv
<1> DEFINE o == kycState.lastOrder + 1
<1>0. Placed(o, from, quant, account, level)
  BY OrderPlaced
<1>1. /\ from # DidContract /\ ~HasOrder(from) /\ o \notin DOMAIN orders
      /\ DOMAIN orders' = DOMAIN orders \cup {o}
      /\ \A p \in DOMAIN orders : orders'[p] = orders[p]
      /\ orders'[o] = [applicant |-> from, vendor |-> account, level |-> level]
      /\ \E v \in DOMAIN vendors : /\ vendors[v].account = account
                                   /\ vendors[v].level = level
      /\ level \in 0 .. KycSpan - 1
      /\ bank' = bank + quant
      /\ kycState' = [kycState EXCEPT !.lastOrder = @ + 1]
      /\ UNCHANGED <<vendors, pendings, apples>>
  BY <1>0 DEF Placed
<1>2. bank' \in Nat
  BY <1>1, KycNumbers, AmaxDidAssumption
<1>3. kycState' \in [admin : KycAdmin \cup {NoName}, nftContract : BOOLEAN,
                     feeCollector : Collector \cup {NoName},
                     lastOrder : Nat, lastVendor : Nat]
      /\ kycState'.lastOrder = o /\ kycState'.lastVendor = kycState.lastVendor
  BY <1>1, KycNumbers DEF KycTypeOK
<1>4. DOMAIN orders' \subseteq 1 .. kycState'.lastOrder
  BY <1>1, <1>3, KycNumbers DEF KycTypeOK
<1> HIDE DEF o
<1>5. \A p \in DOMAIN orders' : orders'[p] \in OrderRow
  BY <1>1 DEF KycTypeOK, OrderRow
<1>6. KycTypeOK'
  BY <1>1, <1>2, <1>3, <1>4, <1>5 DEF KycTypeOK
<1>7. OneOrderEach'
  BY <1>1 DEF OneOrderEach, HasOrder
<1>8. PendingsOpen' /\ OrdersPlaced'
  BY <1>1 DEF PendingsOpen, OrdersPlaced
<1>9. VendorsApart' /\ Priced'
  BY <1>1 DEF VendorsApart, Priced
<1> QED
  BY <1>6, <1>7, <1>8, <1>9

\* An order that is settled takes its pending mark with it.
LEMMA CloseStep ==
    ASSUME KycInv, NEW o \in DOMAIN orders, NEW v \in DOMAIN vendors,
           Close(o, v), apples' \in Nat
    PROVE  KycInv'
<1> USE DEF KycInv
<1>1. /\ bank >= vendors[v].charge /\ bank' = bank - vendors[v].charge
      /\ orders' = Drop(orders, {o})
  BY DEF Close
<1>2. pendings' = pendings \ {o} /\ UNCHANGED <<vendors, kycState>>
  BY DEF Close
<1>3. /\ DOMAIN orders' = DOMAIN orders \ {o}
      /\ \A p \in DOMAIN orders \ {o} : orders'[p] = orders[p]
  BY <1>1 DEF Drop
<1>4. bank' \in Nat
  BY <1>1, KycNumbers
<1>5. KycTypeOK'
  BY <1>2, <1>3, <1>4 DEF KycTypeOK
<1>6. OneOrderEach'
  BY <1>3 DEF OneOrderEach
<1>7. PendingsOpen'
  BY <1>2, <1>3 DEF PendingsOpen
<1>8. OrdersPlaced' /\ VendorsApart' /\ Priced'
  BY <1>2, <1>3 DEF OrdersPlaced, VendorsApart, Priced
<1> QED
  BY <1>5, <1>6, <1>7, <1>8

\* The farm pays the reward it is asked for, or nothing.
LEMMA RewardPaid ==
    ASSUME apples \in Nat, NEW reward \in Nat, _reward_farmer(reward)
    PROVE  /\ apples' \in Nat
           /\ apples' = IF apples = 0 THEN 0 ELSE apples - reward
BY DEF _reward_farmer

LEMMA KycStepInv ==
    ASSUME KycInv, KycNext
    PROVE  KycInv'
<1> USE DEF KycInv
<1>0. /\ bank \in Nat /\ apples \in Nat
      /\ kycState \in [admin : KycAdmin \cup {NoName}, nftContract : BOOLEAN,
                       feeCollector : Collector \cup {NoName},
                       lastOrder : {kycState.lastOrder},
                       lastVendor : {kycState.lastVendor}]
  BY DEF KycTypeOK
<1> DEFINE Settings == [admin : KycAdmin \cup {NoName}, nftContract : BOOLEAN,
                        feeCollector : Collector \cup {NoName},
                        lastOrder : {kycState.lastOrder},
                        lastVendor : {kycState.lastVendor}]
<1>1. ASSUME kycState' \in Settings,
             UNCHANGED <<vendors, orders, pendings, bank, apples>>
      PROVE  KycInv'
  BY <1>0, <1>1, SettingsStep
<1>2. ASSUME NEW a \in KycAdmin, NEW c \in Collector, init(a, c) PROVE KycInv'
  <2>1. kycState' \in Settings
    BY <1>0, <1>2 DEF init
  <2> QED
    BY <1>1, <1>2, <2>1 DEF init
<1>3. ASSUME NEW a \in KycAdmin, setadmin(a) PROVE KycInv'
  <2>1. kycState' \in Settings
    BY <1>0, <1>3 DEF setadmin
  <2> QED
    BY <1>1, <1>3, <2>1 DEF setadmin
<1>4. ASSUME NEW c \in Collector, setcollector(c) PROVE KycInv'
  <2>1. kycState' \in Settings
    BY <1>0, <1>4 DEF setcollector
  <2> QED
    BY <1>1, <1>4, <2>1 DEF setcollector
<1>5. ASSUME NEW q \in Charge, refuel(q) PROVE KycInv'
  <2>1. bank' \in Nat
    BY <1>0, <1>5, AmaxDidAssumption DEF refuel
  <2> QED
    BY <1>0, <1>5, <2>1, SettingsStep DEF refuel
<1>6. ASSUME NEW q \in 1 .. MaxApples, plant(q) PROVE KycInv'
  <2>1. apples' \in Nat
    BY <1>0, <1>6, AmaxDidAssumption DEF plant
  <2> QED
    BY <1>0, <1>6, <2>1, SettingsStep DEF plant
<1> HIDE DEF Settings
<1>7. ASSUME NEW o \in DOMAIN orders, addpending(o) PROVE KycInv'
  <2>1. pendings' = pendings \cup {o}
        /\ UNCHANGED <<vendors, orders, kycState, bank, apples>>
    BY <1>7 DEF addpending
  <2>2. PendingsOpen'
    BY <2>1 DEF PendingsOpen
  <2>3. KycTypeOK' /\ OneOrderEach' /\ VendorsApart' /\ OrdersPlaced' /\ Priced'
    BY <2>1 DEF KycTypeOK, OneOrderEach, VendorsApart, OrdersPlaced, Priced
  <2> QED
    BY <2>2, <2>3
<1>8. ASSUME NEW o \in DOMAIN orders, approve(o) PROVE KycInv'
  <2>1. PICK v \in DOMAIN vendors : Close(o, v) /\ _reward_farmer(vendors[v].reward)
    BY <1>8 DEF approve, VendorRows
  <2>2. apples' \in Nat
    BY <1>0, <2>1, KycNumbers, RewardPaid
  <2> QED
    BY <2>1, <2>2, CloseStep
<1>9. ASSUME NEW o \in DOMAIN orders, reject(o) PROVE KycInv'
  <2>1. PICK v \in DOMAIN vendors : Close(o, v)
    BY <1>9 DEF reject, VendorRows
  <2>2. apples' \in Nat
    BY <1>0, <1>9 DEF reject
  <2> QED
    BY <2>1, <2>2, CloseStep
<1> QED
  BY <1>2, <1>3, <1>4, <1>5, <1>6, <1>7, <1>8, <1>9, AddVendorStep,
     ChgVendorStep, OrderStep DEF KycNext

LEMMA KycInitInv == KycInit => KycInv
BY DEF KycInit, EmptyTable, KycInv, KycTypeOK, OneOrderEach, PendingsOpen,
       VendorsApart, OrdersPlaced, Priced

LEMMA KycStutter == ASSUME KycInv, UNCHANGED amaxdidVars PROVE KycInv'
BY DEF amaxdidVars, KycInv, KycTypeOK, OneOrderEach, PendingsOpen,
       VendorsApart, OrdersPlaced, Priced

LEMMA KycInvariance == SystemSpec => []KycInv
<1>1. SystemInit => KycInv
  BY KycInitInv DEF SystemInit
<1>2. KycInv /\ [SystemNext]_systemVars => KycInv'
  BY KycStepInv, KycStutter
     DEF SystemNext, LedgerStep, KycStep, RebindStep, systemVars
<1> QED
  BY <1>1, <1>2, PTL DEF SystemSpec

\* Every order, vendor row and setting has the types the code gives it.
THEOREM KycTypes == SystemSpec => []KycTypeOK
<1>1. KycInv => KycTypeOK
  BY DEF KycInv
<1> QED
  BY KycInvariance, <1>1, PTL

\* However vendors are added and changed while orders are open, an applicant
\* has one open order at most (amax.did.cpp:46, 64-67).
THEOREM OneOpenOrder == SystemSpec => []OneOrderEach
<1>1. KycInv => OneOrderEach
  BY DEF KycInv
<1> QED
  BY KycInvariance, <1>1, PTL

\* Settling an order leaves no pending mark behind (amax.did.cpp:127-129).
THEOREM PendingsOfOrders == SystemSpec => []PendingsOpen
<1>1. KycInv => PendingsOpen
  BY DEF KycInv
<1> QED
  BY KycInvariance, <1>1, PTL

\* The one row an order is settled against.
LEMMA VendorOfOrder ==
    ASSUME KycInv, NEW o \in DOMAIN orders
    PROVE  \E v \in DOMAIN vendors :
               VendorRows(orders[o].vendor, orders[o].level) = {v}
<1> PICK v \in DOMAIN vendors : /\ vendors[v].account = orders[o].vendor
                                /\ vendors[v].level = orders[o].level
  BY DEF KycInv, OrdersPlaced
<1>1. VendorRows(orders[o].vendor, orders[o].level) = {v}
  BY DEF KycInv, VendorsApart, VendorRows
<1> QED
  BY <1>1

\* Every order is settled against exactly one vendor row (amax.did.cpp:94).
THEOREM OneVendor == SystemSpec => []OneVendorForOrder
<1>1. KycInv => OneVendorForOrder
  <2> SUFFICES ASSUME KycInv, NEW o \in DOMAIN orders
               PROVE  Cardinality(VendorRows(orders[o].vendor,
                                             orders[o].level)) = 1
    BY DEF OneVendorForOrder
  <2>1. PICK v \in DOMAIN vendors :
            VendorRows(orders[o].vendor, orders[o].level) = {v}
    BY VendorOfOrder
  <2> QED
    BY <2>1, FS_Singleton
<1> QED
  BY KycInvariance, <1>1, PTL

-----------------------------------------------------------------------------
(* The system implements the ledger *)

\* An approval's transfer is one a holder may make, and a paid rebind one
\* that did.admin may ask for: what the contracts do to the ledger, the ledger
\* in an arbitrary environment does.
LEMMA ApprovalTransfers ==
    ASSUME KycTypeOK, NEW o \in DOMAIN orders, approve(o)
    PROVE  \E v \in DOMAIN vendors :
              /\ [symbol |-> vendors[v].nft, amount |-> 1] \in Assets
              /\ vendors[v].nft \in Symbol /\ orders[o].applicant \in Account
              /\ v \in VendorRows(orders[o].vendor, orders[o].level)
              /\ Close(o, v) /\ _reward_farmer(vendors[v].reward)
              /\ transfer(DidContract, orders[o].applicant,
                          [symbol |-> vendors[v].nft, amount |-> 1])
<1>1. PICK v \in VendorRows(orders[o].vendor, orders[o].level) :
          /\ Close(o, v) /\ _reward_farmer(vendors[v].reward)
          /\ transfer(DidContract, orders[o].applicant,
                      [symbol |-> vendors[v].nft, amount |-> 1])
  BY DEF approve
<1>2. v \in DOMAIN vendors
  BY DEF VendorRows
<1>3. vendors[v].nft \in Symbol /\ orders[o].applicant \in Account
  BY <1>2, KycNumbers
<1>4. [symbol |-> vendors[v].nft, amount |-> 1] \in Assets
  BY <1>3, SystemAssumption DEF Assets
<1> QED
  BY <1>1, <1>2, <1>3, <1>4

\* Only an account of the chain has a row on the ledger.
LEMMA HolderExists ==
    ASSUME AcctTable(accounts), NEW from, NEW q \in Asset,
           CanSub(accounts, from, q)
    PROVE  from \in Account
<1>1. AcctKey(from, q.symbol) \in DOMAIN accounts
  BY DEF CanSub, HasRow
<1>2. PICK a \in Account :
          AcctKey(from, q.symbol)
              = AcctKey(a, accounts[AcctKey(from, q.symbol)].symbol)
  BY <1>1 DEF AcctTable
<1> QED
  BY <1>2 DEF AcctKey

LEMMA ApprovalIsTransfer ==
    ASSUME KycTypeOK, IInv, NEW o \in DOMAIN orders, approve(o)
    PROVE  HolderNext
<1>1. PICK v \in DOMAIN vendors :
          /\ [symbol |-> vendors[v].nft, amount |-> 1] \in Assets
          /\ orders[o].applicant \in Account
          /\ transfer(DidContract, orders[o].applicant,
                      [symbol |-> vendors[v].nft, amount |-> 1])
  BY ApprovalTransfers
<1> DEFINE q == [symbol |-> vendors[v].nft, amount |-> 1]
<1>2. q \in Assets /\ transfer(DidContract, orders[o].applicant, q)
  BY <1>1
<1> HIDE DEF q
<1>3. DidContract \in Account
  BY <1>2, HolderExists, AssetsAreAssets DEF transfer, IInv, TypeOK
<1> QED
  BY <1>1, <1>2, <1>3 DEF HolderNext

LEMMA PaymentIsRebind ==
    ASSUME NEW a \in Account, NEW b \in Account, NEW q, NEW n \in DidNumber,
           onpaytransfer(a, q, n, b)
    PROVE  RebindNext
<1> DEFINE s == [id |-> n % IdSpan, parent |-> 0]
<1>1. s \in Symbol /\ s.parent = 0
  BY SystemAssumption DEF DidOf
<1>2. DidOf(n) = [symbol |-> s, amount |-> 1] /\ rebind(a, b, DidOf(n))
  BY DEF DidOf, onpaytransfer
<1> HIDE DEF s
<1>3. rebind(a, b, [symbol |-> s, amount |-> 1])
  BY <1>2
<1> QED
  BY <1>1, <1>3 DEF RebindNext

\* Of the ledger amax.did only ever uses transfer, and only to approve.
LEMMA OnlyApproval ==
    ASSUME KycNext
    PROVE  (\E o \in DOMAIN orders : approve(o)) \/ UNCHANGED ntokenVars
<1>1. ASSUME NEW a, NEW c, init(a, c) \/ setadmin(a) \/ setcollector(c)
      PROVE  UNCHANGED ntokenVars
  BY <1>1 DEF init, setadmin, setcollector
<1>2. ASSUME NEW a, NEW l, NEW r, NEW c, NEW s, addvendor(a, l, r, c, s)
      PROVE  UNCHANGED ntokenVars
  BY <1>2 DEF addvendor
<1>3. ASSUME NEW v, NEW st, NEW r, NEW c, NEW s, chgvendor(v, st, r, c, s)
      PROVE  UNCHANGED ntokenVars
  BY <1>3 DEF chgvendor
<1>4. ASSUME NEW q, refuel(q) \/ plant(q) PROVE UNCHANGED ntokenVars
  BY <1>4 DEF refuel, plant
<1>5. ASSUME NEW a, NEW q, NEW w, NEW l, ontransfer(a, q, w, l)
      PROVE  UNCHANGED ntokenVars
  BY <1>5 DEF ontransfer
<1>6. ASSUME NEW o, addpending(o) \/ reject(o) PROVE UNCHANGED ntokenVars
  BY <1>6 DEF addpending, reject
<1> QED
  BY <1>1, <1>2, <1>3, <1>4, <1>5, <1>6 DEF KycNext

LEMMA KycLedgerStep ==
    ASSUME KycTypeOK, IInv, KycNext
    PROVE  HolderNext \/ UNCHANGED ntokenVars
BY OnlyApproval, ApprovalIsTransfer

\* The ledger with amax.did and did.admin acting on it is an instance of the
\* ledger in an arbitrary environment, so that what is proved of the one holds
\* of the other (did.ntoken.cpp:183-233, amax.did.cpp:98-104, did.admin.cpp:46).
THEOREM SystemImplementsLedger == SystemSpec => Spec
<1>1. SystemInit => Init
  BY DEF SystemInit
<1>2. KycInv /\ IInv /\ [SystemNext]_systemVars => [Next]_ntokenVars
  <2> SUFFICES ASSUME KycInv, IInv, [SystemNext]_systemVars
               PROVE  Next \/ UNCHANGED ntokenVars
    OBVIOUS
  <2>1. CASE LedgerStep
    BY <2>1 DEF LedgerStep, Next, HolderNext
  <2>2. CASE KycStep
    BY <2>2, KycLedgerStep DEF KycStep, KycInv, Next
  <2>3. CASE RebindStep
    BY <2>3, PaymentIsRebind DEF RebindStep, Next
  <2>4. CASE UNCHANGED systemVars
    BY <2>4 DEF systemVars
  <2> QED
    BY <2>1, <2>2, <2>3, <2>4 DEF SystemNext
<1>3. IInv /\ [Next]_ntokenVars => IInv'
  BY NextStep
<1> QED
  BY <1>1, <1>2, <1>3, InitInv, KycInvariance, PTL DEF SystemSpec, Spec

\* The ledger's invariant in the composed system.
LEMMA SystemLedger == SystemSpec => []IInv
BY SystemImplementsLedger, Invariance, PTL

\* So the ledger's promises hold of it.
THEOREM LedgerPromisesKept ==
    SystemSpec => /\ []SupplyAtMostMax /\ []SupplyIsSum
                  /\ Conservation /\ SoulBound /\ PermissionsStay
BY SystemImplementsLedger, SupplyBounded, SupplyInAccounts, TokensConserved,
   HoldersBound, PermissionsOfAccounts, PTL

-----------------------------------------------------------------------------
(* Who may take a token from whom *)

\* What the issuer takes leaves circulation.
LEMMA IssuerTakes ==
    ASSUME IInv, IssuerNext \/ AdminNext, NEW x \in Account,
           NEW s \in AnySymbol, BalanceOf(x, s)' < BalanceOf(x, s)
    PROVE  SupplyOf(s)' < SupplyOf(s)
<1> USE DEF IInv, TypeOK
<1>1. BalanceOf(x, s) \in Int
  BY BalanceNow
<1>2. ASSUME UNCHANGED accounts PROVE FALSE
  BY <1>1, <1>2 DEF BalanceOf, Holding, HasRow
<1>3. ASSUME NEW i \in Account, NEW q \in Asset, issue(i, q) PROVE FALSE
  <2>1. BalanceOf(x, s)' >= BalanceOf(x, s)
    BY <1>3, IssueMoves
  <2>2. accounts' = add_balance(accounts, i, q)
    BY <1>3 DEF issue
  <2>3. BalanceOf(x, s)' \in Int
    BY <1>1, <2>2, BalanceNow, HoldingAfterAdd DEF Asset
  <2> QED
    BY <1>1, <2>1, <2>3
<1>4. ASSUME NEW i \in Account, NEW a \in Account, NEW q \in Asset,
             retire(i, q) \/ burn(i, a, q)
      PROVE  SupplyOf(s)' < SupplyOf(s)
  <2>1. Usable(q)
    BY <1>4 DEF retire, burn
  <2>2. PICK owner \in Account :
            /\ CanSub(accounts, owner, q)
            /\ nstats' = SubSupply(q)
            /\ accounts' = sub_balance(accounts, owner, q)
    BY <1>4 DEF retire, burn
  <2>3. /\ SupplyOf(s) \in Int
        /\ SupplyOf(s)' = IF s = q.symbol THEN SupplyOf(s) - q.amount
                          ELSE SupplyOf(s)
        /\ BalanceOf(x, s)' = IF x = owner /\ s = q.symbol
                              THEN BalanceOf(x, s) - q.amount
                              ELSE BalanceOf(x, s)
    BY <2>1, <2>2, DestroyMoves
  <2>4. q.amount \in Int /\ q.amount > 0
    BY <2>1, UsableRow
  <2> QED
    BY <1>1, <2>3, <2>4
<1>5. ASSUME NEW i \in Account, NEW a \in Account, NEW c \in Symbol,
             NEW snd, NEW rcv, setacctperms(i, a, c, snd, rcv)
      PROVE  FALSE
  <2>1. c \in AnySymbol
    BY SymbolAssumption DEF AnySymbol
  <2>2. BalanceOf(x, s)' = BalanceOf(x, s)
    BY <1>5, <2>1, PermsKeepHoldings
  <2> QED
    BY <1>1, <2>2
<1>6. CASE IssuerNext
  BY <1>2, <1>3, <1>4, <1>5, <1>6, AssetsAreAssets DEF IssuerNext, create
<1>7. CASE AdminNext
  <2>1. ASSUME NEW a \in Account, NEW c \in Symbol, reclaim(a, c)
        PROVE  UNCHANGED accounts
    BY <2>1, ReclaimAborts, SymbolAssumption DEF AnySymbol, ntokenVars
  <2> QED
    BY <1>2, <1>7, <2>1 DEF AdminNext, setnotary, settokenuri, notarize
<1> QED
  BY <1>6, <1>7

\* A transfer takes from its sender, who may send or returns the token to an
\* account that may receive it, and gives to an account that has none.
LEMMA TransferTakes ==
    ASSUME IInv, NEW a \in Account, NEW b \in Account, NEW q \in Asset,
           transfer(a, b, q), NEW x \in Account, NEW s \in AnySymbol,
           BalanceOf(x, s)' < BalanceOf(x, s)
    PROVE  /\ x = a /\ s = q.symbol
           /\ BalanceOf(x, s)' = BalanceOf(x, s) - q.amount
           /\ BalanceOf(b, s) = 0 /\ BalanceOf(b, s)' = q.amount
           /\ q.amount > 0
           /\ AllowSend(a, s) \/ AllowRecv(b, s)
<1> USE DEF IInv, TypeOK
<1>1. \A y \in Account :
          /\ BalanceOf(y, s) \in Int
          /\ BalanceOf(y, s)' =
                 BalanceOf(y, s)
                 - (IF y = a /\ s = q.symbol THEN q.amount ELSE 0)
                 + (IF y = b /\ s = q.symbol THEN q.amount ELSE 0)
  BY MoveMoves, BalanceNow DEF transfer
<1>2. a # b /\ q.amount \in Int /\ q.amount > 0
  BY DEF transfer, Usable, Asset
<1>3. x = a /\ s = q.symbol
  BY <1>1, <1>2
<1>4. BalanceOf(x, s)' = BalanceOf(x, s) - q.amount
  BY <1>1, <1>2, <1>3
<1>5. BalanceOf(b, s) = 0
  BY <1>3 DEF transfer, BalanceOf, Holding
<1>6. BalanceOf(b, s)' = q.amount
  BY <1>1, <1>2, <1>3, <1>5
<1>7. AllowSend(a, s) \/ AllowRecv(b, s)
  BY <1>3 DEF transfer, MayTransfer, AllowSend, AllowRecv, CanSub
<1> QED
  BY <1>2, <1>3, <1>4, <1>5, <1>6, <1>7

\* A paid rebind takes one unit from who paid for it.
LEMMA RebindTakes ==
    ASSUME IInv, NEW a \in Account, NEW b \in Account, NEW q,
           NEW n \in DidNumber, onpaytransfer(a, q, n, b),
           NEW x \in Account, NEW s \in AnySymbol,
           BalanceOf(x, s)' < BalanceOf(x, s)
    PROVE  x = a /\ BalanceOf(x, s)' = BalanceOf(x, s) - 1
<1> USE DEF IInv, TypeOK
<1> DEFINE d == DidOf(n)
<1>1. d \in Asset /\ d.amount = 1
  <2>1. d.symbol \in AnySymbol
    BY SystemAssumption, SymbolAssumption DEF AnySymbol
  <2>2. d = [symbol |-> d.symbol, amount |-> 1] /\ d.amount = 1
    BY DEF DidOf
  <2> HIDE DEF d
  <2> QED
    BY <2>1, <2>2 DEF Asset
<1> HIDE DEF d
<1>2. rebind(a, b, d)
  BY DEF onpaytransfer, d
<1>3. BalanceOf(x, s) \in Int
  BY BalanceNow
<1>4. BalanceOf(x, s)' =
          BalanceOf(x, s)
          - (IF x = a /\ s = d.symbol THEN d.amount ELSE 0)
          + (IF x = b /\ s = d.symbol THEN d.amount ELSE 0)
  BY <1>1, <1>2, MoveMoves DEF rebind
<1> QED
  BY <1>1, <1>3, <1>4

LEMMA AdminBankIsInt == SystemSpec => [](adminBank \in Int)
<1>1. SystemInit => adminBank \in Int
  BY DEF SystemInit
<1>2. adminBank \in Int /\ [SystemNext]_systemVars => (adminBank \in Int)'
  <2> SUFFICES ASSUME adminBank \in Int, [SystemNext]_systemVars
               PROVE  adminBank' \in Int
    OBVIOUS
  <2>1. CASE RebindStep
    BY <2>1, PaymentAssumption DEF RebindStep, onpaytransfer, BurnQuant
  <2>2. CASE UNCHANGED adminBank
    BY <2>2
  <2> QED
    BY <2>1, <2>2 DEF SystemNext, LedgerStep, KycStep, systemVars
<1> QED
  BY <1>1, <1>2, PTL DEF SystemSpec

\* A DID leaves a holder who may not send it only to its issuer, to an account
\* that may receive it, or for a payment to did.admin (did.admin.cpp:32-46).
THEOREM BoundOrPaid == SystemSpec => BoundUnlessPaid
<1> DEFINE Lost(x, s) ==
               \/ SupplyOf(s)' < SupplyOf(s)
               \/ \E b \in Account : /\ AllowRecv(b, s)
                                     /\ BalanceOf(b, s)' > BalanceOf(b, s)
               \/ /\ adminBank' > adminBank
                  /\ BalanceOf(x, s)' = BalanceOf(x, s) - 1
           Body == \A a \in Account, s \in Symbol :
               BalanceOf(a, s)' < BalanceOf(a, s) /\ ~AllowSend(a, s) =>
                   \/ SupplyOf(s)' < SupplyOf(s)
                   \/ \E b \in Account : /\ AllowRecv(b, s)
                                         /\ BalanceOf(b, s)' > BalanceOf(b, s)
                   \/ /\ adminBank' > adminBank
                      /\ BalanceOf(a, s)' = BalanceOf(a, s) - 1
<1>1. ASSUME KycInv, IInv, adminBank \in Int, SystemNext,
             NEW x \in Account, NEW s \in Symbol,
             BalanceOf(x, s)' < BalanceOf(x, s), ~AllowSend(x, s)
      PROVE  Lost(x, s)
  <2>1. s \in AnySymbol
    BY SymbolAssumption DEF AnySymbol
  <2>2. CASE IssuerNext \/ AdminNext
    BY <1>1, <2>1, <2>2, IssuerTakes
  <2>3. ASSUME NEW a \in Account, NEW b \in Account, NEW q \in Asset,
               transfer(a, b, q)
        PROVE  Lost(x, s)
    <3>1. /\ BalanceOf(b, s) = 0 /\ BalanceOf(b, s)' = q.amount /\ q.amount > 0
          /\ x = a /\ (AllowSend(a, s) \/ AllowRecv(b, s))
      BY <1>1, <2>1, <2>3, TransferTakes
    <3> QED
      BY <1>1, <3>1
  <2>4. CASE KycStep
    <3>1. CASE HolderNext
      BY <2>3, <3>1, AssetsAreAssets DEF HolderNext
    <3>2. CASE UNCHANGED ntokenVars
      <4>1. BalanceOf(x, s)' = BalanceOf(x, s) /\ BalanceOf(x, s) \in Int
        BY <1>1, <2>1, <3>2, BalanceNow
           DEF ntokenVars, BalanceOf, Holding, HasRow, IInv, TypeOK
      <4> QED
        BY <1>1, <4>1
    <3> QED
      BY <1>1, <2>4, <3>1, <3>2, KycLedgerStep DEF KycStep, KycInv
  <2>5. ASSUME NEW a \in Account, NEW b \in Account, NEW q \in Payment,
               NEW n \in DidNumber, onpaytransfer(a, q, n, b)
        PROVE  Lost(x, s)
    <3>1. BalanceOf(x, s)' = BalanceOf(x, s) - 1
      BY <1>1, <2>1, <2>5, RebindTakes
    <3>2. adminBank' > adminBank
      BY <1>1, <2>5, PaymentAssumption DEF onpaytransfer, MinPayment, BurnQuant
    <3> QED
      BY <3>1, <3>2
  <2> HIDE DEF Lost
  <2> QED
    BY <1>1, <2>2, <2>3, <2>4, <2>5, AssetsAreAssets
       DEF SystemNext, LedgerStep, RebindStep
<1>2. KycInv /\ IInv /\ adminBank \in Int /\ [SystemNext]_systemVars
          => [Body]_accounts
  BY <1>1 DEF systemVars, ntokenVars
<1> QED
  BY <1>2, KycInvariance, SystemLedger, AdminBankIsInt, PTL
     DEF SystemSpec, BoundUnlessPaid

-----------------------------------------------------------------------------
(* What an approval gives, and what it takes *)

LEMMA OrderDropped ==
    ASSUME NEW o \in DOMAIN orders, NEW v, Close(o, v)
    PROVE  /\ DOMAIN orders' = DOMAIN orders \ {o}
           /\ \A p \in DOMAIN orders \ {o} : orders'[p] = orders[p]
           /\ bank' = bank - vendors[v].charge
           /\ UNCHANGED vendors
BY DEF Close, Drop

\* The applicant whose order is settled had none of the DID and gets one, out
\* of the contract's stock; the charge is spent, and the reward if there is one.
LEMMA ApprovalDelivers ==
    ASSUME KycInv, IInv, NEW o \in DOMAIN orders, approve(o)
    PROVE  /\ bank' < bank
           /\ apples > 0 => apples' < apples
           /\ \E a \in Account, s \in Symbol :
                 /\ SettledFor(o, a)
                 /\ BalanceOf(a, s) = 0 /\ BalanceOf(a, s)' = 1
                 /\ \A r \in AnySymbol, x \in Account :
                       BalanceOf(x, r)' < BalanceOf(x, r) =>
                           r = s /\ BalanceOf(x, r)' = BalanceOf(x, r) - 1
<1>1. PICK v \in DOMAIN vendors :
          /\ [symbol |-> vendors[v].nft, amount |-> 1] \in Assets
          /\ vendors[v].nft \in Symbol /\ orders[o].applicant \in Account
          /\ Close(o, v) /\ _reward_farmer(vendors[v].reward)
          /\ transfer(DidContract, orders[o].applicant,
                      [symbol |-> vendors[v].nft, amount |-> 1])
  BY ApprovalTransfers DEF KycInv
<1>2. PICK a \in Account, s \in Symbol :
          /\ a = orders[o].applicant
          /\ transfer(DidContract, a, [symbol |-> s, amount |-> 1])
  BY <1>1
<1>3. /\ vendors[v].charge > 0 /\ vendors[v].reward > 0
      /\ vendors[v].charge \in Nat /\ vendors[v].reward \in Nat
      /\ bank \in Nat /\ apples \in Nat
  BY <1>1, KycNumbers DEF KycInv, Priced
<1>4. bank' < bank
  <2>1. bank' = bank - vendors[v].charge
    BY <1>1, OrderDropped
  <2> QED
    BY <1>3, <2>1
<1>5. apples > 0 => apples' < apples
  BY <1>1, <1>3, RewardPaid
<1>6. SettledFor(o, a)
  BY <1>1, <1>2, OrderDropped DEF SettledFor
<1> DEFINE q == [symbol |-> s, amount |-> 1]
<1>7. q \in Asset /\ q.symbol = s /\ q.amount = 1 /\ s \in AnySymbol
  BY SymbolAssumption DEF AnySymbol, Asset
<1> HIDE DEF q
<1>8. /\ transfer(DidContract, a, q) /\ DidContract # a
      /\ CanSub(accounts, DidContract, q) /\ UNCHANGED nstats
      /\ HasRow(accounts, a, s) => accounts[AcctKey(a, s)].amount = 0
      /\ accounts' = add_balance(sub_balance(accounts, DidContract, q), a, q)
  <2>1. transfer(DidContract, a, q)
    BY <1>2 DEF q
  <2> QED
    BY <1>7, <2>1 DEF transfer
<1>9. DidContract \in Account
  BY <1>7, <1>8, HolderExists DEF IInv, TypeOK
<1>10. BalanceOf(a, s) = 0
  BY <1>8 DEF BalanceOf, Holding
<1>11. BalanceOf(a, s)' = 1
  <2>1. BalanceOf(a, s)' =
            BalanceOf(a, s)
            - (IF a = DidContract /\ s = q.symbol THEN q.amount ELSE 0)
            + (IF a = a /\ s = q.symbol THEN q.amount ELSE 0)
    BY <1>7, <1>8, <1>9, MoveMoves
  <2> QED
    BY <1>7, <1>8, <1>10, <2>1
<1>12. ASSUME NEW r \in AnySymbol, NEW x \in Account,
              BalanceOf(x, r)' < BalanceOf(x, r)
       PROVE  r = s /\ BalanceOf(x, r)' = BalanceOf(x, r) - 1
  BY <1>7, <1>8, <1>9, <1>12, TransferTakes
<1> QED
  BY <1>4, <1>5, <1>6, <1>10, <1>11, <1>12

\* Nobody outside the chain's accounts holds anything.
LEMMA NoAccountNoHolding ==
    ASSUME NEW acnts, AcctTable(acnts), NEW a, a \notin Account, NEW s
    PROVE  Holding(acnts, a, s) = 0
<1>1. ASSUME AcctKey(a, s) \in DOMAIN acnts PROVE FALSE
  <2>1. PICK b \in Account :
            AcctKey(a, s) = AcctKey(b, acnts[AcctKey(a, s)].symbol)
    BY <1>1 DEF AcctTable
  <2> QED
    BY <2>1 DEF AcctKey
<1> QED
  BY <1>1 DEF Holding, HasRow

\* The contract's stock of DIDs goes to applicants whose order is settled in
\* the same step, one each (amax.did.cpp:98-127).
THEOREM StockGoesToApplicants == SystemSpec => StockForOrders
<1> DEFINE Spent(s) ==
               \/ SupplyOf(s)' < SupplyOf(s)
               \/ \E o \in DOMAIN orders, a \in Account :
                      /\ SettledFor(o, a)
                      /\ BalanceOf(a, s) = 0 /\ BalanceOf(a, s)' = 1
                      /\ BalanceOf(DidContract, s)'
                             = BalanceOf(DidContract, s) - 1
                      /\ bank' < bank
           Body == \A s \in Symbol :
               BalanceOf(DidContract, s)' < BalanceOf(DidContract, s) =>
                   \/ SupplyOf(s)' < SupplyOf(s)
                   \/ \E o \in DOMAIN orders, a \in Account :
                          /\ SettledFor(o, a)
                          /\ BalanceOf(a, s) = 0 /\ BalanceOf(a, s)' = 1
                          /\ BalanceOf(DidContract, s)'
                                 = BalanceOf(DidContract, s) - 1
                          /\ bank' < bank
<1>1. ASSUME KycInv, IInv, IInv', SystemNext, NEW s \in Symbol,
             BalanceOf(DidContract, s)' < BalanceOf(DidContract, s)
      PROVE  Spent(s)
  <2>1. s \in AnySymbol
    BY SymbolAssumption DEF AnySymbol
  <2>2. DidContract \in Account
    <3> SUFFICES ASSUME DidContract \notin Account PROVE FALSE
      OBVIOUS
    <3>1. AcctTable(accounts) /\ AcctTable(accounts')
      BY <1>1 DEF IInv, TypeOK, AcctTable
    <3>2. Holding(accounts, DidContract, s) = 0
          /\ Holding(accounts', DidContract, s) = 0
      BY <3>1, NoAccountNoHolding
    <3>3. BalanceOf(DidContract, s) = 0 /\ BalanceOf(DidContract, s)' = 0
      BY <3>2 DEF BalanceOf, Holding, HasRow
    <3> QED
      BY <1>1, <3>3
  <2>3. CASE IssuerNext \/ AdminNext
    BY <1>1, <2>1, <2>2, <2>3, IssuerTakes
  <2>4. ASSUME NEW a \in Account \ {DidContract}, NEW b \in Account,
               NEW q \in Assets, transfer(a, b, q)
        PROVE  FALSE
    BY <1>1, <2>1, <2>2, <2>4, TransferTakes, AssetsAreAssets
  <2>5. ASSUME NEW a \in Account \ {DidContract}, NEW b \in Account,
               NEW q \in Payment, NEW n \in DidNumber, onpaytransfer(a, q, n, b)
        PROVE  FALSE
    BY <1>1, <2>1, <2>2, <2>5, RebindTakes
  <2>6. ASSUME NEW o \in DOMAIN orders, approve(o) PROVE Spent(s)
    <3>1. PICK a \in Account, t \in Symbol :
              /\ SettledFor(o, a) /\ bank' < bank
              /\ BalanceOf(a, t) = 0 /\ BalanceOf(a, t)' = 1
              /\ \A r \in AnySymbol, x \in Account :
                    BalanceOf(x, r)' < BalanceOf(x, r) =>
                        r = t /\ BalanceOf(x, r)' = BalanceOf(x, r) - 1
      BY <1>1, <2>6, ApprovalDelivers
    <3>2. s = t /\ BalanceOf(DidContract, s)' = BalanceOf(DidContract, s) - 1
      BY <1>1, <2>1, <2>2, <3>1
    <3> QED
      BY <3>1, <3>2
  <2>7. CASE KycStep
    <3>1. CASE UNCHANGED ntokenVars
      <4>1. BalanceOf(DidContract, s)' = BalanceOf(DidContract, s)
            /\ BalanceOf(DidContract, s) \in Int
        BY <1>1, <2>1, <2>2, <3>1, BalanceNow
           DEF ntokenVars, BalanceOf, Holding, HasRow, IInv, TypeOK
      <4> QED
        BY <1>1, <4>1
    <3> QED
      BY <2>6, <2>7, <3>1, OnlyApproval DEF KycStep
  <2> HIDE DEF Spent
  <2> QED
    BY <1>1, <2>3, <2>4, <2>5, <2>7 DEF SystemNext, LedgerStep, RebindStep
<1>2. KycInv /\ IInv /\ IInv' /\ [SystemNext]_systemVars => [Body]_accounts
  BY <1>1 DEF systemVars, ntokenVars
<1> QED
  BY <1>2, KycInvariance, SystemLedger, PTL DEF SystemSpec, StockForOrders

\* An order that is gone was settled.
LEMMA OrderClosed ==
    ASSUME KycInv, KycNext, NEW o \in DOMAIN orders, o \notin DOMAIN orders'
    PROVE  approve(o) \/ reject(o)
<1>1. ASSUME UNCHANGED orders PROVE FALSE
  BY <1>1
<1>2. ASSUME NEW a \in Account, NEW q \in Charge, NEW w \in Vendor,
             NEW l \in KycLevel, ontransfer(a, q, w, l)
      PROVE  FALSE
  BY <1>2, OrderPlaced DEF Placed
<1>3. ASSUME NEW p \in DOMAIN orders, approve(p) PROVE p = o
  <2>1. PICK v : Close(p, v)
    BY <1>3 DEF approve
  <2> QED
    BY <2>1, OrderDropped
<1>4. ASSUME NEW p \in DOMAIN orders, reject(p) PROVE p = o
  <2>1. PICK v : Close(p, v)
    BY <1>4 DEF reject
  <2> QED
    BY <2>1, OrderDropped
<1>5. ASSUME NEW a, NEW c, init(a, c) \/ setadmin(a) \/ setcollector(c)
      PROVE  FALSE
  BY <1>1, <1>5 DEF init, setadmin, setcollector
<1>6. ASSUME NEW a, NEW l, NEW r, NEW c, NEW s, addvendor(a, l, r, c, s)
      PROVE  FALSE
  BY <1>1, <1>6 DEF addvendor
<1>7. ASSUME NEW v, NEW st, NEW r, NEW c, NEW s, chgvendor(v, st, r, c, s)
      PROVE  FALSE
  BY <1>1, <1>7 DEF chgvendor
<1>8. ASSUME NEW q, refuel(q) \/ plant(q) PROVE FALSE
  BY <1>1, <1>8 DEF refuel, plant
<1>9. ASSUME NEW p, addpending(p) PROVE FALSE
  BY <1>1, <1>9 DEF addpending
<1> QED
  BY <1>2, <1>3, <1>4, <1>5, <1>6, <1>7, <1>8, <1>9 DEF KycNext

\* Apples are spent by approvals alone.
LEMMA ApplesSpent ==
    ASSUME KycInv, KycNext, apples' < apples
    PROVE  \E o \in DOMAIN orders : approve(o)
<1>0. apples \in Nat
  BY KycNumbers DEF KycInv
<1>1. ASSUME UNCHANGED apples PROVE FALSE
  BY <1>0, <1>1
<1>2. ASSUME NEW a, NEW c, init(a, c) \/ setadmin(a) \/ setcollector(c)
      PROVE  FALSE
  BY <1>1, <1>2 DEF init, setadmin, setcollector
<1>3. ASSUME NEW a, NEW l, NEW r, NEW c, NEW s, addvendor(a, l, r, c, s)
      PROVE  FALSE
  BY <1>1, <1>3 DEF addvendor
<1>4. ASSUME NEW v, NEW st, NEW r, NEW c, NEW s, chgvendor(v, st, r, c, s)
      PROVE  FALSE
  BY <1>1, <1>4 DEF chgvendor
<1>5. ASSUME NEW q, refuel(q) PROVE FALSE
  BY <1>1, <1>5 DEF refuel
<1>6. ASSUME NEW a, NEW q, NEW w, NEW l, ontransfer(a, q, w, l) PROVE FALSE
  BY <1>1, <1>6 DEF ontransfer
<1>7. ASSUME NEW o, addpending(o) \/ reject(o) PROVE FALSE
  BY <1>1, <1>7 DEF addpending, reject
<1>8. ASSUME NEW q \in 1 .. MaxApples, plant(q) PROVE FALSE
  <2>1. apples' = apples + q /\ q \in Nat
    BY <1>8, AmaxDidAssumption DEF plant
  <2> QED
    BY <1>0, <2>1
<1> QED
  BY <1>2, <1>3, <1>4, <1>5, <1>6, <1>7, <1>8 DEF KycNext

\* Apples are spent only with a DID, and no DID goes out without a reward while
\* the lease has apples left (amax.did.cpp:98-104, 214-220).
THEOREM RewardsWithDids == SystemSpec => RewardWithDid
<1> DEFINE Body == /\ apples' < apples => \E o \in DOMAIN orders : Delivered(o)
                   /\ apples > 0 => \A o \in DOMAIN orders :
                                        Delivered(o) => apples' < apples
<1>1. ASSUME KycInv, IInv, KycNext PROVE Body
  <2>0. apples \in Nat
    BY <1>1, KycNumbers DEF KycInv
  <2>1. ASSUME apples' < apples PROVE \E o \in DOMAIN orders : Delivered(o)
    <3>1. PICK o \in DOMAIN orders : approve(o)
      BY <1>1, <2>1, ApplesSpent
    <3>2. PICK a \in Account, s \in Symbol :
              /\ SettledFor(o, a)
              /\ BalanceOf(a, s) = 0 /\ BalanceOf(a, s)' = 1
      BY <1>1, <3>1, ApprovalDelivers
    <3>3. BalanceOf(a, s)' > BalanceOf(a, s)
      BY <3>2
    <3> QED
      BY <3>2, <3>3 DEF Delivered
  <2>2. ASSUME apples > 0, NEW o \in DOMAIN orders, Delivered(o)
        PROVE  apples' < apples
    <3>1. PICK a \in Account, s \in Symbol :
              SettledFor(o, a) /\ BalanceOf(a, s)' > BalanceOf(a, s)
      BY <2>2 DEF Delivered
    <3>2. approve(o) \/ reject(o)
      BY <1>1, <3>1, OrderClosed DEF SettledFor
    <3>3. ASSUME reject(o) PROVE FALSE
      <4>1. BalanceOf(a, s)' = BalanceOf(a, s)
        BY <3>3 DEF reject, ntokenVars, BalanceOf, Holding, HasRow
      <4>2. BalanceOf(a, s) \in Int
        BY <1>1, BalanceNow, SymbolAssumption DEF IInv, TypeOK, AnySymbol
      <4> QED
        BY <3>1, <4>1, <4>2
    <3> QED
      BY <1>1, <2>2, <3>2, <3>3, ApprovalDelivers
  <2> QED
    BY <2>1, <2>2
<1>2. KycInv /\ IInv /\ [SystemNext]_systemVars => [Body]_(<<apples, orders>>)
  <2> HIDE DEF Body
  <2> QED
    BY <1>1 DEF SystemNext, LedgerStep, KycStep, RebindStep, systemVars,
                amaxdidVars
<1> QED
  BY <1>2, KycInvariance, SystemLedger, PTL DEF SystemSpec, RewardWithDid

-----------------------------------------------------------------------------
(* The charges the contract holds *)

\* What settling the order r takes, under the vendor rows vs.
Due(vs, r) ==
    SumFunctionOnSet(
        [v \in DOMAIN vs |-> vs[v].charge],
        {v \in DOMAIN vs : vs[v].account = r.vendor /\ vs[v].level = r.level})

LEMMA DuesNow ==
    /\ Dues = [o \in DOMAIN orders |-> Due(vendors, orders[o])]
    /\ Dues' = [o \in DOMAIN orders' |-> Due(vendors', orders'[o])]
BY DEF Dues, Due, Charges, VendorRows

\* It is the charge of the one row the order was filed under.
LEMMA DueIsCharge ==
    ASSUME NEW vs, NEW r, NEW v \in DOMAIN vs, vs[v].charge \in Int,
           vs[v].account = r.vendor, vs[v].level = r.level,
           \A w \in DOMAIN vs :
               vs[w].account = r.vendor /\ vs[w].level = r.level => w = v
    PROVE  Due(vs, r) = vs[v].charge
<1> DEFINE f == [w \in DOMAIN vs |-> vs[w].charge]
<1>1. {w \in DOMAIN vs : vs[w].account = r.vendor /\ vs[w].level = r.level} = {v}
  OBVIOUS
<1>2. f[v] = vs[v].charge
  OBVIOUS
<1> HIDE DEF f
<1>3. SumFunctionOnSet(f, {v}) = f[v]
  BY <1>2, SumOfOne
<1> QED
  BY <1>1, <1>2, <1>3 DEF f, Due

\* The vendor rows there are keep their account, level and charge.
RowsStay ==
    \A v \in DOMAIN vendors :
        /\ v \in DOMAIN vendors'
        /\ vendors'[v].account = vendors[v].account
        /\ vendors'[v].level = vendors[v].level
        /\ vendors'[v].charge = vendors[v].charge

LEMMA DuesStay ==
    ASSUME KycInv, KycInv', RowsStay, NEW o \in DOMAIN orders,
           NEW r, r = orders[o]
    PROVE  Due(vendors', r) = Due(vendors, r)
<1>1. PICK v \in DOMAIN vendors :
          vendors[v].account = r.vendor /\ vendors[v].level = r.level
  BY DEF KycInv, OrdersPlaced
<1>2. vendors[v].charge \in Int
  BY <1>1, KycNumbers DEF KycInv
<1>3. \A w \in DOMAIN vendors :
          vendors[w].account = r.vendor /\ vendors[w].level = r.level => w = v
  BY <1>1 DEF KycInv, VendorsApart
<1>4. Due(vendors, r) = vendors[v].charge
  BY <1>1, <1>2, <1>3, DueIsCharge
<1>5. /\ v \in DOMAIN vendors' /\ vendors'[v].charge = vendors[v].charge
      /\ vendors'[v].account = r.vendor /\ vendors'[v].level = r.level
  BY <1>1 DEF RowsStay
<1>6. \A w \in DOMAIN vendors' :
          vendors'[w].account = r.vendor /\ vendors'[w].level = r.level => w = v
  BY <1>5 DEF KycInv, VendorsApart
<1>7. Due(vendors', r) = vendors'[v].charge
  <2> DEFINE vs == vendors'
  <2>1. /\ v \in DOMAIN vs /\ vs[v].charge \in Int
        /\ vs[v].account = r.vendor /\ vs[v].level = r.level
        /\ \A w \in DOMAIN vs :
               vs[w].account = r.vendor /\ vs[w].level = r.level => w = v
    BY <1>2, <1>5, <1>6
  <2> HIDE DEF vs
  <2>2. Due(vs, r) = vs[v].charge
    BY <2>1, DueIsCharge
  <2> QED
    BY <2>2 DEF vs
<1> QED
  BY <1>4, <1>5, <1>7

\* What open orders take is a number, and there are finitely many of them.
OwedCounts ==
    /\ IsFiniteSet(DOMAIN orders)
    /\ \A o \in DOMAIN orders : Due(vendors, orders[o]) \in Int

LEMMA DuesAreInts == KycInv => OwedCounts
<1> SUFFICES ASSUME KycInv PROVE OwedCounts
  OBVIOUS
<1>1. IsFiniteSet(DOMAIN orders)
  <2>1. DOMAIN orders \subseteq 1 .. kycState.lastOrder
        /\ kycState.lastOrder \in Int
    BY DEF KycInv, KycTypeOK
  <2> QED
    BY <2>1, FS_Interval, FS_Subset
<1>2. ASSUME NEW o \in DOMAIN orders PROVE Due(vendors, orders[o]) \in Int
  <2> DEFINE r == orders[o]
  <2>1. PICK v \in DOMAIN vendors :
            vendors[v].account = r.vendor /\ vendors[v].level = r.level
    BY DEF KycInv, OrdersPlaced
  <2>2. vendors[v].charge \in Int
    BY <2>1, KycNumbers DEF KycInv
  <2>3. \A w \in DOMAIN vendors :
            vendors[w].account = r.vendor /\ vendors[w].level = r.level => w = v
    BY <2>1 DEF KycInv, VendorsApart
  <2> QED
    BY <2>1, <2>2, <2>3, DueIsCharge
<1> QED
  BY <1>1, <1>2 DEF OwedCounts

\* What is owed moves by what is owed for the one order that comes or goes.
LEMMA OwedMoves ==
    ASSUME KycInv, KycInv', RowsStay, NEW o,
           DOMAIN orders' \ {o} = DOMAIN orders \ {o},
           \A p \in DOMAIN orders \ {o} : orders'[p] = orders[p]
    PROVE  /\ Owed \in Int /\ Owed' \in Int
           /\ Owed' - Summand(Dues', DOMAIN orders', o)
                  = Owed - Summand(Dues, DOMAIN orders, o)
<1> DEFINE f == [p \in DOMAIN orders |-> Due(vendors, orders[p])]
           g == [p \in DOMAIN orders' |-> Due(vendors', orders'[p])]
           S == DOMAIN orders
           T == DOMAIN orders'
<1>1. IsFiniteSet(S) /\ \A p \in S : f[p] \in Int
  BY DuesAreInts DEF OwedCounts
<1>2. IsFiniteSet(T) /\ \A p \in T : g[p] \in Int
  <2>1. (KycInv => OwedCounts)'
    BY DuesAreInts, PTL
  <2>2. OwedCounts'
    BY <2>1
  <2> QED
    BY <2>2 DEF OwedCounts, Due
<1>3. \A p \in S \ {o} : g[p] = f[p]
  BY DuesStay
<1>4. T \ {o} = S \ {o}
  OBVIOUS
<1>5. Dues = f /\ Dues' = g
  BY DuesNow
<1> HIDE DEF f, g, S, T
<1>6. SumFunctionOnSet(f, S) \in Int /\ SumFunctionOnSet(g, T) \in Int
  BY <1>1, <1>2, SumIsInt
<1>7. SumFunctionOnSet(g, T) - Summand(g, T, o)
          = SumFunctionOnSet(f, S) - Summand(f, S, o)
  BY <1>1, <1>2, <1>3, <1>4, SumMoves
<1> QED
  BY <1>5, <1>6, <1>7 DEF Owed, S, T

\* Every step that changes the orders changes the bank by what they take.
LEMMA ChargesStep ==
    ASSUME KycInv, KycInv', KycNext,
           \A v \in DOMAIN vendors : vendors[v].charge = vendors'[v].charge
    PROVE  (bank - Owed)' >= bank - Owed
<1> USE DEF Summand
<1>0. bank \in Int /\ bank' \in Int
  BY DEF KycInv, KycTypeOK
<1>1. ASSUME RowsStay, UNCHANGED orders, bank' >= bank
      PROVE  (bank - Owed)' >= bank - Owed
  <2> PICK o : o \notin DOMAIN orders
    BY KycNumbers DEF KycInv
  <2>1. /\ Owed \in Int /\ Owed' \in Int
        /\ Owed' - Summand(Dues', DOMAIN orders', o)
               = Owed - Summand(Dues, DOMAIN orders, o)
    BY <1>1, OwedMoves
  <2>2. Summand(Dues', DOMAIN orders', o) = 0 /\ Summand(Dues, DOMAIN orders, o) = 0
    BY <1>1
  <2>3. Owed' = Owed
    <3> HIDE DEF Summand
    <3> QED
      BY <2>1, <2>2
  <2>4. bank' >= bank
    BY <1>1
  <2>5. \A b, c, x \in Int : c >= b => c - x >= b - x
    OBVIOUS
  <2>6. bank' - Owed' >= bank - Owed
    BY <1>0, <2>1, <2>3, <2>4, <2>5
  <2> QED
    BY <2>6
<1>2. ASSUME UNCHANGED vendors PROVE RowsStay
  BY <1>2 DEF RowsStay
<1>3. ASSUME NEW a \in Account, NEW q \in Charge, NEW w \in Vendor,
             NEW l \in KycLevel, ontransfer(a, q, w, l)
      PROVE  (bank - Owed)' >= bank - Owed
  <2> DEFINE o == kycState.lastOrder + 1
             r == [applicant |-> a, vendor |-> w, level |-> l]
  <2>1. Placed(o, a, q, w, l)
    BY <1>3, OrderPlaced
  <2> HIDE DEF o
  <2>2. /\ o \notin DOMAIN orders /\ DOMAIN orders' = DOMAIN orders \cup {o}
        /\ \A p \in DOMAIN orders : orders'[p] = orders[p]
        /\ orders'[o] = r /\ bank' = bank + q /\ UNCHANGED vendors
    BY <2>1 DEF Placed
  <2>3. PICK v \in DOMAIN vendors : /\ vendors[v].account = w
                                    /\ vendors[v].level = l
                                    /\ vendors[v].charge = q
    BY <2>1 DEF Placed
  <2>4. /\ r.vendor = w /\ r.level = l /\ q \in Int
        /\ \A x \in DOMAIN vendors :
              vendors[x].account = r.vendor /\ vendors[x].level = r.level => x = v
    BY <2>3, AmaxDidAssumption DEF KycInv, VendorsApart
  <2> HIDE DEF r
  <2>5. Due(vendors', r) = q
    BY <2>2, <2>3, <2>4, DueIsCharge
  <2>6. Summand(Dues', DOMAIN orders', o) = q
    BY <2>2, <2>5, DuesNow
  <2>7. Summand(Dues, DOMAIN orders, o) = 0
    BY <2>2
  <2>8. /\ Owed \in Int /\ Owed' \in Int
        /\ Owed' - Summand(Dues', DOMAIN orders', o)
               = Owed - Summand(Dues, DOMAIN orders, o)
    BY <1>2, <2>2, OwedMoves
  <2>9. Owed' = Owed + q
    BY <2>4, <2>6, <2>7, <2>8
  <2> QED
    BY <1>0, <2>2, <2>4, <2>8, <2>9
<1>4. ASSUME NEW o \in DOMAIN orders,
             NEW v \in VendorRows(orders[o].vendor, orders[o].level), Close(o, v)
      PROVE  (bank - Owed)' >= bank - Owed
  <2>1. /\ DOMAIN orders' = DOMAIN orders \ {o}
        /\ \A p \in DOMAIN orders \ {o} : orders'[p] = orders[p]
        /\ bank' = bank - vendors[v].charge /\ UNCHANGED vendors
    BY <1>4, OrderDropped
  <2>2. /\ v \in DOMAIN vendors /\ vendors[v].account = orders[o].vendor
        /\ vendors[v].level = orders[o].level
    BY DEF VendorRows
  <2>3. /\ vendors[v].charge \in Int
        /\ \A x \in DOMAIN vendors :
              vendors[x].account = orders[o].vendor
                  /\ vendors[x].level = orders[o].level => x = v
    BY <2>2, KycNumbers DEF KycInv, VendorsApart
  <2>4. Due(vendors, orders[o]) = vendors[v].charge
    BY <2>2, <2>3, DueIsCharge
  <2>5. /\ Summand(Dues, DOMAIN orders, o) = vendors[v].charge
        /\ Summand(Dues', DOMAIN orders', o) = 0
    BY <2>1, <2>4, DuesNow
  <2>6. /\ Owed \in Int /\ Owed' \in Int
        /\ Owed' - Summand(Dues', DOMAIN orders', o)
               = Owed - Summand(Dues, DOMAIN orders, o)
    BY <1>2, <2>1, OwedMoves
  <2>7. Owed' - 0 = Owed - vendors[v].charge
    BY <2>5, <2>6
  <2> QED
    BY <1>0, <2>1, <2>3, <2>6, <2>7
<1>5. ASSUME NEW a, NEW c, init(a, c) \/ setadmin(a) \/ setcollector(c)
      PROVE  (bank - Owed)' >= bank - Owed
  BY <1>0, <1>1, <1>2, <1>5 DEF init, setadmin, setcollector
<1>6. ASSUME NEW a \in Vendor, NEW l \in KycLevel, NEW r \in Reward,
             NEW c \in Charge, NEW s \in Symbol, addvendor(a, l, r, c, s)
      PROVE  (bank - Owed)' >= bank - Owed
  <2>1. /\ kycState.lastVendor + 1 \notin DOMAIN vendors
        /\ UNCHANGED <<orders, bank>>
    BY <1>6, KycNumbers DEF KycInv, addvendor
  <2>2. \A v \in DOMAIN vendors : v \in DOMAIN vendors' /\ vendors'[v] = vendors[v]
    BY <1>6, <2>1 DEF addvendor, Put
  <2>3. RowsStay
    BY <2>2 DEF RowsStay
  <2> QED
    BY <1>0, <1>1, <2>1, <2>3
<1>7. ASSUME NEW v \in DOMAIN vendors, NEW st \in Status, NEW r \in Reward,
             NEW c \in Charge, NEW s \in Symbol, chgvendor(v, st, r, c, s)
      PROVE  (bank - Owed)' >= bank - Owed
  <2>1. RowsStay
    BY <1>7, VendorChange DEF KycInv, RowsStay
  <2>2. UNCHANGED <<orders, bank>>
    BY <1>7 DEF chgvendor
  <2> QED
    BY <1>0, <1>1, <2>1, <2>2
<1>8. ASSUME NEW q \in Nat, refuel(q) \/ plant(q)
      PROVE  (bank - Owed)' >= bank - Owed
  <2>1. UNCHANGED <<orders, vendors>> /\ bank' >= bank
    BY <1>0, <1>8 DEF refuel, plant
  <2> QED
    BY <1>1, <1>2, <2>1
<1>9. ASSUME NEW o, addpending(o) PROVE (bank - Owed)' >= bank - Owed
  BY <1>0, <1>1, <1>2, <1>9 DEF addpending
<1>10. ASSUME NEW o \in DOMAIN orders, approve(o) \/ reject(o)
       PROVE  (bank - Owed)' >= bank - Owed
  <2>1. PICK v \in VendorRows(orders[o].vendor, orders[o].level) : Close(o, v)
    BY <1>10 DEF approve, reject
  <2> QED
    BY <1>4, <2>1
<1> QED
  BY <1>3, <1>5, <1>6, <1>7, <1>8, <1>9, <1>10, AmaxDidAssumption DEF KycNext

\* While no charge is changed, the contract stays as able to settle its open
\* orders as it was: what an order brings is what settling it takes, and it is
\* taken once (amax.did.cpp:61, 111-127).
THEOREM ChargesCoverOrders == SystemSpec => ChargesCover
<1> DEFINE Body ==
        (\A v \in DOMAIN vendors : vendors[v].charge = vendors'[v].charge)
            => (bank - Owed)' >= bank - Owed
<1>1. KycInv /\ [SystemNext]_systemVars => KycInv'
  BY KycStepInv, KycStutter
     DEF SystemNext, LedgerStep, KycStep, RebindStep, systemVars
<1>2. KycInv /\ KycInv' /\ [SystemNext]_systemVars
          => [Body]_(<<bank, orders, vendors>>)
  <2> HIDE DEF Body
  <2>1. ASSUME KycInv, KycInv', KycNext PROVE Body
    BY <2>1, ChargesStep DEF Body
  <2> QED
    BY <2>1 DEF SystemNext, LedgerStep, KycStep, RebindStep, systemVars,
                amaxdidVars
<1> QED
  BY <1>1, <1>2, KycInvariance, PTL DEF SystemSpec, ChargesCover
=============================================================================
