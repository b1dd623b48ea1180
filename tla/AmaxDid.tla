------------------------------ MODULE AmaxDid ------------------------------
(***************************************************************************)
(* amax.did: users pay a vendor's charge to have their identity checked;   *)
(* the admin settles the order, and a user who passed is sent a DID token  *)
(* out of the contract's own stock on the did.ntoken ledger.               *)
(*                                                                         *)
(* Settling sends the charge of the vendor's row to the fee collector and, *)
(* for a user who passed, a reward out of the contract's lease with        *)
(* aplink.farm.  The farm is external: of it there is what the lease has   *)
(* left, which the contract reads.  Handlers of the admin need the         *)
(* authority of the contract or of _gstate.admin.                          *)
(***************************************************************************)
EXTENDS DidNtoken

CONSTANTS
    DidContract,    \* the account of amax.did, in Account once it is deployed
    Vendor,         \* vendor accounts
    KycLevel,       \* the uint64 levels that memos name
    KycSpan,        \* number of uint32 values, 2^32 in the code
    Charge,         \* quantities of AMAX paid and charged
    Reward,         \* quantities of apples rewarded
    KycAdmin,       \* accounts named as admin
    Collector,      \* accounts named as fee collector
    NoName,         \* the empty name
    MaxOrder,       \* bound on last_order_idx
    MaxVendor,      \* bound on last_vendor_id
    MaxBank,        \* bound on refuelling
    MaxApples       \* bound on the apples of the lease

Status == {"running", "stop"}

ASSUME AmaxDidAssumption ==
    /\ KycLevel \subseteq Nat
    /\ KycSpan \in Nat \ {0}
    /\ Charge \subseteq Nat
    /\ MaxOrder \in Nat
    /\ MaxVendor \in Nat
    /\ Reward \subseteq Nat
    /\ MaxBank \in Nat
    /\ MaxApples \in Nat

VARIABLES
    vendors,        \* table vendorinfo, by id
    orders,         \* table orders, by id
    pendings,       \* table pendings: ids of orders
    kycState,       \* the global singleton
    bank,           \* the AMAX amax.did owns
    apples          \* available_apples of its lease with aplink.farm

amaxdidVars == <<vendors, orders, pendings, kycState, bank, apples>>

-----------------------------------------------------------------------------

KycInit ==
    /\ vendors = EmptyTable
    /\ orders = EmptyTable
    /\ pendings = {}
    /\ kycState = [admin |-> NoName, nftContract |-> FALSE,
                   feeCollector |-> NoName, lastOrder |-> 0, lastVendor |-> 0]
    /\ bank = 0
    /\ apples = 0

\* init names did.ntoken as the nft contract.
init(admin, collector) ==
    /\ kycState' = [kycState EXCEPT !.admin = admin, !.nftContract = TRUE,
                                    !.feeCollector = collector]
    /\ UNCHANGED <<vendors, orders, pendings, bank, apples, ntokenVars>>

setadmin(admin) ==
    /\ kycState' = [kycState EXCEPT !.admin = admin]
    /\ UNCHANGED <<vendors, orders, pendings, bank, apples, ntokenVars>>

setcollector(collector) ==
    /\ kycState' = [kycState EXCEPT !.feeCollector = collector]
    /\ UNCHANGED <<vendors, orders, pendings, bank, apples, ntokenVars>>

\* The rows of a vendor account and a level: the index vendoridx.
VendorRows(account, level) ==
    {v \in DOMAIN vendors :
        vendors[v].account = account /\ vendors[v].level = level}

\* Fault: the vendor may be added again.
addvendor_again(account, level, reward, charge, nft) ==
    /\ reward > 0
    /\ charge > 0
    /\ kycState.lastVendor < MaxVendor
    /\ kycState' = [kycState EXCEPT !.lastVendor = @ + 1]
    /\ vendors' = Put(vendors, kycState.lastVendor + 1,
                      [account |-> account, level |-> level, reward |-> reward,
                       charge |-> charge, nft |-> nft, status |-> "running"])
    /\ UNCHANGED <<orders, pendings, bank, apples, ntokenVars>>

\* Fault: last_vendor_id is not kept.
addvendor_idNotCounted(account, level, reward, charge, nft) ==
    /\ reward > 0
    /\ charge > 0
    /\ VendorRows(account, level) = {}
    /\ kycState.lastVendor < MaxVendor
    /\ vendors' = Put(vendors, kycState.lastVendor + 1,
                      [account |-> account, level |-> level, reward |-> reward,
                       charge |-> charge, nft |-> nft, status |-> "running"])
    /\ UNCHANGED <<orders, pendings, kycState, bank, apples, ntokenVars>>

addvendor(account, level, reward, charge, nft) ==
    /\ reward > 0
    /\ charge > 0
    /\ VendorRows(account, level) = {}
    /\ kycState.lastVendor < MaxVendor                      \* bound
    /\ kycState' = [kycState EXCEPT !.lastVendor = @ + 1]
    /\ vendors' = Put(vendors, kycState.lastVendor + 1,
                      [account |-> account, level |-> level, reward |-> reward,
                       charge |-> charge, nft |-> nft, status |-> "running"])
    /\ UNCHANGED <<orders, pendings, bank, apples, ntokenVars>>

\* A reward or a charge of 0 and a token id of 0 leave the row's as they are.
chgvendor(v, status, reward, charge, nft) ==
    /\ v \in DOMAIN vendors
    /\ vendors' = [vendors EXCEPT
                      ![v].status = status,
                      ![v].reward = IF reward > 0 THEN reward ELSE @,
                      ![v].charge = IF charge > 0 THEN charge ELSE @,
                      ![v].nft = IF nft.id > 0 THEN nft ELSE @]
    /\ UNCHANGED <<orders, pendings, kycState, bank, apples, ntokenVars>>

\* ontransfer with the memo "refuel".
refuel(quant) ==
    /\ bank + quant <= MaxBank                              \* bound
    /\ bank' = bank + quant
    /\ UNCHANGED <<vendors, orders, pendings, kycState, apples, ntokenVars>>

HasOrder(applicant) == \E o \in DOMAIN orders : orders[o].applicant = applicant

\* Fault: an applicant may pay for a second order.
ontransfer_again(from, quant, account, level) ==
    /\ from # DidContract
    /\ \E v \in VendorRows(account, level) :
           vendors[v].status = "running" /\ vendors[v].charge = quant
    /\ kycState.lastOrder < MaxOrder
    /\ kycState' = [kycState EXCEPT !.lastOrder = @ + 1]
    /\ orders' = Put(orders, kycState.lastOrder + 1,
                     [applicant |-> from, vendor |-> account,
                      level |-> level % KycSpan])
    /\ bank' = bank + quant
    /\ UNCHANGED <<vendors, pendings, apples, ntokenVars>>

\* ontransfer with the memo vendor:level:md5.
ontransfer(from, quant, account, level) ==
    /\ from # DidContract
    /\ \E v \in VendorRows(account, level) :
           vendors[v].status = "running" /\ vendors[v].charge = quant
    /\ ~HasOrder(from)
    /\ kycState.lastOrder < MaxOrder                        \* bound
    /\ kycState' = [kycState EXCEPT !.lastOrder = @ + 1]
    /\ orders' = Put(orders, kycState.lastOrder + 1,
                     [applicant |-> from, vendor |-> account,
                      level |-> level % KycSpan])
    /\ bank' = bank + quant
    /\ UNCHANGED <<vendors, pendings, apples, ntokenVars>>

\* setdidstatus with the status pending.
addpending(o) ==
    /\ o \in DOMAIN orders
    /\ o \notin pendings
    /\ pendings' = pendings \cup {o}
    /\ UNCHANGED <<vendors, orders, kycState, bank, apples, ntokenVars>>

\* Fault: the pending mark stays.
Close_keepsPending(o, v) ==
    /\ kycState.feeCollector # NoName
    /\ bank >= vendors[v].charge
    /\ bank' = bank - vendors[v].charge
    /\ orders' = Drop(orders, {o})
    /\ UNCHANGED <<vendors, kycState, pendings>>

\* Fault: the order stays open.
Close_keepsOrder(o, v) ==
    /\ kycState.feeCollector # NoName
    /\ bank >= vendors[v].charge
    /\ bank' = bank - vendors[v].charge
    /\ pendings' = pendings \ {o}
    /\ UNCHANGED <<vendors, orders, kycState>>

\* What an order that is settled against the vendor row v leaves behind.
Close(o, v) ==
    /\ kycState.feeCollector # NoName
    /\ bank >= vendors[v].charge
    /\ bank' = bank - vendors[v].charge
    /\ orders' = Drop(orders, {o})
    /\ pendings' = pendings \ {o}
    /\ UNCHANGED <<vendors, kycState>>

\* Fault: the reward is sent only if it leaves some of the lease.
_reward_farmer_keepsOne(reward) ==
    IF apples <= reward THEN UNCHANGED apples ELSE apples' = apples - reward

\* Nothing is sent when the lease has nothing left.  The farm refuses a reward
\* that exceeds what is left and one out of a lease that is closed, which
\* available_apples does not tell from an open one: the settlement is no step.
_reward_farmer(reward) ==
    IF apples = 0
    THEN UNCHANGED apples
    ELSE /\ reward <= apples
         /\ apples' = apples - reward

\* setdidstatus with the status ok: the vendor's DID goes from the contract's
\* stock to the applicant, as a transfer of did.ntoken, and a reward with it.
approve(o) ==
    /\ o \in DOMAIN orders
    /\ kycState.nftContract
    /\ \E v \in VendorRows(orders[o].vendor, orders[o].level) :
           /\ Close(o, v)
           /\ transfer(DidContract, orders[o].applicant,
                       [symbol |-> vendors[v].nft, amount |-> 1])
           /\ _reward_farmer(vendors[v].reward)

\* setdidstatus with the status nok: the charge is kept all the same.
reject(o) ==
    /\ o \in DOMAIN orders
    /\ \E v \in VendorRows(orders[o].vendor, orders[o].level) : Close(o, v)
    /\ UNCHANGED <<apples, ntokenVars>>

\* The landlord of the farm adds to the lease.
plant(quantity) ==
    /\ apples + quantity <= MaxApples                       \* bound
    /\ apples' = apples + quantity
    /\ UNCHANGED <<vendors, orders, pendings, kycState, bank, ntokenVars>>

KycNext ==
    \/ \E a \in KycAdmin, c \in Collector : init(a, c)
    \/ \E a \in KycAdmin : setadmin(a)
    \/ \E c \in Collector : setcollector(c)
    \/ \E a \in Vendor, l \in KycLevel, r \in Reward, c \in Charge,
          s \in Symbol : l < KycSpan /\ addvendor(a, l, r, c, s)
    \/ \E v \in DOMAIN vendors, st \in Status, r \in Reward, c \in Charge,
          s \in Symbol : chgvendor(v, st, r, c, s)
    \/ \E q \in Charge : q > 0 /\ refuel(q)
    \/ \E a \in Account, q \in Charge, w \in Vendor, l \in KycLevel :
           ontransfer(a, q, w, l)
    \/ \E o \in DOMAIN orders : addpending(o) \/ approve(o) \/ reject(o)
    \/ \E q \in 1 .. MaxApples : plant(q)
-----------------------------------------------------------------------------
(* Properties *)

VendorRow == [account : Vendor, level : 0 .. KycSpan - 1, reward : Reward,
              charge : Charge, nft : Symbol, status : Status]
OrderRow == [applicant : Account, vendor : Vendor, level : 0 .. KycSpan - 1]

\* Type invariant.
KycTypeOK ==
    /\ DOMAIN vendors \subseteq 1 .. kycState.lastVendor
    /\ \A v \in DOMAIN vendors : vendors[v] \in VendorRow
    /\ DOMAIN orders \subseteq 1 .. kycState.lastOrder
    /\ \A o \in DOMAIN orders : orders[o] \in OrderRow
    /\ kycState \in [admin : KycAdmin \cup {NoName}, nftContract : BOOLEAN,
                     feeCollector : Collector \cup {NoName},
                     lastOrder : Nat, lastVendor : Nat]
    /\ bank \in Nat
    /\ apples \in Nat

\* An applicant has at most one open order, and no order is filed for the
\* contract itself (amax.did.cpp:46, 64-67).
OneOrderEach ==
    \A o, p \in DOMAIN orders :
        /\ orders[o].applicant # DidContract
        /\ orders[o].applicant = orders[p].applicant => o = p

\* An open order is settled against exactly one vendor row, whatever level the
\* memo named and however the rows were changed since (amax.did.cpp:59, 94).
OneVendorForOrder ==
    \A o \in DOMAIN orders :
        Cardinality(VendorRows(orders[o].vendor, orders[o].level)) = 1

\* A pending mark belongs to an open order: settling leaves none behind
\* (amax.did.cpp:90, 127-129).
PendingsOpen == pendings \subseteq DOMAIN orders
=============================================================================
