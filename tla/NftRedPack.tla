----------------------------- MODULE NftRedPack -----------------------------
(***************************************************************************)
(* nft.redpack: red packets of NFTs, one unit per receiver.  Where a fee   *)
(* is registered for the NFT contract a packet is opened by paying it and  *)
(* is funded by a second transfer, of the NFTs; where the fee is zero the  *)
(* NFTs alone open it.  The admin claims units for receivers; deleting a   *)
(* packet returns the NFTs and part of the fee.                            *)
(*                                                                         *)
(* A transaction is atomic, so a failed check is no step; that includes    *)
(* the checks the token contracts make of the transfers the handlers send: *)
(* a positive quantity that the contract owns.  Passwords are abstracted   *)
(* (a wrong one aborts), and so are the NFT balances of the senders.       *)
(***************************************************************************)
EXTENDS Integers, Sequences, FiniteSets, FiniteSetsExt, Table

CONSTANTS
    Sender,         \* accounts that open packets
    Account,        \* accounts the admin claims for
    Code,           \* packet codes, numbers as their order counts
    Nft,            \* <<NFT contract, symbol>> pairs
    Bank,           \* token contracts fees may be registered with
    AmaxToken,      \* the one whose transfers the contract is notified of
    Count,          \* NFT quantities
    Quantity,       \* AMAX quantities paid
    Fee,            \* fees per unit
    FeeSpan,        \* number of uint64 values, 2^64 in the code
    Hours,          \* expiry hours init is called with
    MaxRows,        \* arguments of delclaims
    AdminCode,      \* arguments of delredpacks
    MaxClaims,      \* bound on the claims table
    MaxCoins,       \* bound on the fees collected
    MaxNfts,        \* bound on the units of an NFT the contract owns
    MaxTime         \* bound on the clock

ASSUME NftRedPackAssumption ==
    /\ Code \subseteq Nat /\ AdminCode \subseteq Code
    /\ AmaxToken \in Bank
    /\ Count \subseteq Nat /\ Quantity \subseteq Nat /\ Fee \subseteq Nat
    /\ FeeSpan \in Nat \ {0}
    /\ \A f \in Fee : f < FeeSpan \div 4      \* asset::max_amount
    /\ \A k \in Count : k < FeeSpan \div 2    \* an int64
    /\ Hours \subseteq Nat \ {0}
    /\ MaxRows \subseteq Nat
    /\ MaxClaims \in Nat /\ MaxCoins \in Nat /\ MaxNfts \in Nat
    /\ MaxTime \in Nat

VARIABLES
    packs,      \* table redpacks, by code
    claims,     \* table claims, in the order of their ids
    fees,       \* table fees: [fee, bank] by NFT contract
    gstate,     \* [initialised, hours]
    nfts,       \* what the contract owns of each NFT
    coins,      \* what the contract owns with each bank
    now         \* the clock, in hours since deployment

nftVars == <<packs, claims, fees, gstate, nfts, coins, now>>

Contract(nft) == nft[1]
NftContract == {Contract(n) : n \in Nft}

-----------------------------------------------------------------------------

Init ==
    /\ packs = EmptyTable
    /\ claims = <<>>
    /\ fees = EmptyTable
    /\ gstate = [initialised |-> FALSE, hours |-> 0]
    /\ nfts = [n \in Nft |-> 0]
    /\ coins = [b \in Bank |-> 0]
    /\ now = 0

init(hours) ==
    /\ gstate' = [initialised |-> TRUE, hours |-> hours]
    /\ UNCHANGED <<packs, claims, fees, nfts, coins, now>>

addfee(fee, bank, contract) ==
    /\ fees' = Put(fees, contract, [fee |-> fee, bank |-> bank])
    /\ UNCHANGED <<packs, claims, gstate, nfts, coins, now>>

delfee(contract) ==
    /\ contract \in DOMAIN fees
    /\ fees' = Drop(fees, {contract})
    /\ UNCHANGED <<packs, claims, gstate, nfts, coins, now>>

NewPack(from, nft, count, paid, status) ==
    [sender |-> from, nft |-> nft, total |-> count, remain |-> count,
     fee |-> paid, status |-> status, createdAt |-> now]

\* _calc_fee, as the set of amounts it may answer.  The product is checked as a
\* uint64 and becomes the int64 amount of an asset, whose range is checked.
CalcFee(fee, count) ==
    LET product == fee * count
        amount == IF product < FeeSpan \div 2 THEN product ELSE product - FeeSpan
    IN  {a \in {amount} : product < FeeSpan /\ -a < FeeSpan \div 4
                                            /\ a < FeeSpan \div 4}

on_fee_transfer(from, quantity, code, nft, count) ==
    /\ quantity > 0
    /\ count > 0
    /\ code \notin DOMAIN packs
    /\ Contract(nft) \in DOMAIN fees
    /\ \E due \in CalcFee(fees[Contract(nft)].fee, count) : quantity >= due
    /\ coins[AmaxToken] + quantity <= MaxCoins              \* bound
    /\ packs' = Put(packs, code, NewPack(from, nft, count, quantity, "init"))
    /\ coins' = [coins EXCEPT ![AmaxToken] = @ + quantity]
    /\ UNCHANGED <<claims, fees, gstate, nfts, now>>

\* Fault: the quantity sent is not compared with the packet's.
ontransfer_anyQuantity(from, nft, count, code) ==
    /\ count > 0 /\ nfts[nft] + count <= MaxNfts
    /\ IF code \in DOMAIN packs
       THEN /\ packs[code].sender = from /\ packs[code].nft = nft
            /\ packs[code].status = "init"
            /\ packs' = [packs EXCEPT ![code].status = "created"]
       ELSE /\ Contract(nft) \in DOMAIN fees /\ fees[Contract(nft)].fee = 0
            /\ packs' = Put(packs, code, NewPack(from, nft, count, 0, "created"))
    /\ nfts' = [nfts EXCEPT ![nft] = @ + count]
    /\ UNCHANGED <<claims, fees, gstate, coins, now>>

\* Fault: a packet that was funded may be funded again.
ontransfer_twice(from, nft, count, code) ==
    /\ count > 0 /\ nfts[nft] + count <= MaxNfts
    /\ IF code \in DOMAIN packs
       THEN /\ packs[code].sender = from /\ packs[code].nft = nft
            /\ packs[code].total = count
            /\ packs' = [packs EXCEPT ![code].status = "created"]
       ELSE /\ Contract(nft) \in DOMAIN fees /\ fees[Contract(nft)].fee = 0
            /\ packs' = Put(packs, code, NewPack(from, nft, count, 0, "created"))
    /\ nfts' = [nfts EXCEPT ![nft] = @ + count]
    /\ UNCHANGED <<claims, fees, gstate, coins, now>>

ontransfer(from, nft, count, code) ==
    /\ count > 0
    /\ nfts[nft] + count <= MaxNfts                         \* bound
    /\ IF code \in DOMAIN packs
       THEN /\ packs[code].sender = from /\ packs[code].nft = nft
            /\ packs[code].total = count
            /\ packs[code].status = "init"
            /\ packs' = [packs EXCEPT ![code].status = "created"]
       ELSE /\ Contract(nft) \in DOMAIN fees /\ fees[Contract(nft)].fee = 0
            /\ packs' = Put(packs, code, NewPack(from, nft, count, 0, "created"))
    /\ nfts' = [nfts EXCEPT ![nft] = @ + count]
    /\ UNCHANGED <<claims, fees, gstate, coins, now>>

HasClaimed(claimer, code) ==
    \E i \in DOMAIN claims : claims[i] = [code |-> code, receiver |-> claimer]

\* Fault: the packet's remainder is not reduced.
claimredpack_keepsRemain(claimer, code) ==
    LET p == packs[code]
    IN  /\ gstate.initialised /\ code \in DOMAIN packs /\ p.status = "created"
        /\ ~HasClaimed(claimer, code)
        /\ nfts[p.nft] >= 1 /\ Len(claims) < MaxClaims
        /\ nfts' = [nfts EXCEPT ![p.nft] = @ - 1]
        /\ claims' = Append(claims, [code |-> code, receiver |-> claimer])
        /\ UNCHANGED <<packs, fees, gstate, coins, now>>

claimredpack(claimer, code) ==
    LET p == packs[code]
    IN  /\ gstate.initialised               \* there is an admin to authorise it
        /\ code \in DOMAIN packs
        /\ p.status = "created"
        /\ ~HasClaimed(claimer, code)
        /\ nfts[p.nft] >= 1
        /\ Len(claims) < MaxClaims                          \* bound
        /\ nfts' = [nfts EXCEPT ![p.nft] = @ - 1]
        /\ packs' = [packs EXCEPT
                        ![code].remain = @ - 1,
                        ![code].status = IF p.remain = 1 THEN "finished" ELSE @]
        /\ claims' = Append(claims, [code |-> code, receiver |-> claimer])
        /\ UNCHANGED <<fees, gstate, coins, now>>

Live(c) == packs[c].status = "created"

\* Fault: the fee is not divided among the units.
Refund_undivided(p) == p.fee * p.remain

\* The part of the fee that goes back with what remains of a packet.
Refund(p) == (p.fee \div p.total) * p.remain

Remains == [c \in DOMAIN packs |-> packs[c].remain]
Refunds == [c \in DOMAIN packs |-> Refund(packs[c])]

\* Fault: a deletion pays the fee back and keeps the NFTs.
DelRedpacks_keepsNfts(codes) ==
    LET live == {c \in codes : Live(c)}
        rest(b) == coins[b] - SumFunctionOnSet(Refunds,
            {c \in live : fees[Contract(packs[c].nft)].bank = b})
    IN  /\ \A c \in live : /\ Contract(packs[c].nft) \in DOMAIN fees
                           /\ packs[c].fee > 0 => Refund(packs[c]) > 0
        /\ \A b \in Bank : rest(b) >= 0
        /\ nfts' = nfts
        /\ coins' = [b \in Bank |-> rest(b)]
        /\ packs' = Drop(packs, codes)

\* _del_redpack of each of codes, which are codes of packets.
DelRedpacks(codes) ==
    LET live == {c \in codes : Live(c)}
        bank(c) == fees[Contract(packs[c].nft)].bank
        left(n) == nfts[n] - SumFunctionOnSet(Remains,
                                              {c \in live : packs[c].nft = n})
        rest(b) == coins[b] - SumFunctionOnSet(Refunds,
                                               {c \in live : bank(c) = b})
    IN  /\ \A c \in live : /\ Contract(packs[c].nft) \in DOMAIN fees
                           /\ packs[c].fee > 0 => Refund(packs[c]) > 0
        /\ \A n \in Nft : left(n) >= 0
        /\ \A b \in Bank : rest(b) >= 0
        /\ nfts' = [n \in Nft |-> left(n)]
        /\ coins' = [b \in Bank |-> rest(b)]
        /\ packs' = Drop(packs, codes)

\* The expiry is computed from a redpack_t that was not yet read from the
\* table: its created_at is the epoch, and every time of day is later than any
\* number of hours after it.
cancel(code) ==
    /\ code \in DOMAIN packs
    /\ DelRedpacks({code})
    /\ UNCHANGED <<claims, fees, gstate, now>>

\* Erases the packet and those whose codes follow; nothing is paid back.
delredpacks(code) ==
    /\ code \in DOMAIN packs
    /\ packs' = Drop(packs, {c \in Code : c >= code})
    /\ UNCHANGED <<claims, fees, gstate, nfts, coins, now>>

Expired(c) == now > packs[c].createdAt + gstate.hours

\* The rows delclaims erases: their packet is gone, or has expired and is
\* deleted by the same call.
Erasable(i) == claims[i].code \in DOMAIN packs => Expired(claims[i].code)

\* What is left of the claims when those at the places rows are erased.
Without(rows) ==
    LET kept[n \in 0 .. Len(claims)] ==
            IF n = 0 THEN <<>>
            ELSE IF n \in rows THEN kept[n - 1]
            ELSE Append(kept[n - 1], claims[n])
    IN  kept[Len(claims)]

\* Fault: the claims of an expired packet are erased, the packet is kept.
delclaims_keepsPacks(maxRows) ==
    LET rows == {i \in DOMAIN claims : Erasable(i)}
    IN  /\ rows # {} /\ maxRows > 0
        /\ claims' = Without(rows)
        /\ UNCHANGED <<packs, fees, gstate, nfts, coins, now>>

\* At most maxRows rows are erased, the others are passed over.
delclaims(maxRows) ==
    LET before(i) == Cardinality({j \in 1 .. i - 1 : Erasable(j)})
        rows == {i \in DOMAIN claims : Erasable(i) /\ before(i) < maxRows}
    IN  /\ rows # {}
        /\ DelRedpacks({claims[i].code : i \in rows} \cap DOMAIN packs)
        /\ claims' = Without(rows)
        /\ UNCHANGED <<fees, gstate, now>>

tick ==
    /\ now < MaxTime                                        \* bound
    /\ now' = now + 1
    /\ UNCHANGED <<packs, claims, fees, gstate, nfts, coins>>

Next ==
    \/ \E h \in Hours : init(h)
    \/ \E f \in Fee, b \in Bank, k \in NftContract : addfee(f, b, k)
    \/ \E k \in NftContract : delfee(k)
    \/ \E a \in Sender, q \in Quantity, c \in Code, n \in Nft, k \in Count :
           on_fee_transfer(a, q, c, n, k)
    \/ \E a \in Sender, n \in Nft, k \in Count, c \in Code :
           ontransfer(a, n, k, c)
    \/ \E a \in Account, c \in DOMAIN packs : claimredpack(a, c)
    \/ \E c \in Code : cancel(c)
    \/ \E c \in AdminCode : delredpacks(c)
    \/ \E n \in MaxRows : delclaims(n)
    \/ tick

Spec == Init /\ [][Next]_nftVars
-----------------------------------------------------------------------------
(* Properties *)

Pack == [sender : Sender, nft : Nft, total : Nat, remain : Nat, fee : Nat,
         status : {"init", "created", "finished"}, createdAt : Nat]
Claim == [code : Code, receiver : Account]
FeeRow == [fee : Nat, bank : Bank]

\* Type invariant; a packet's status agrees with what remains of it.
NftTypeOK ==
    /\ DOMAIN packs \subseteq Code
    /\ \A c \in DOMAIN packs :
          /\ packs[c] \in Pack
          /\ packs[c].status = "init" => packs[c].remain = packs[c].total
          /\ packs[c].status = "finished" <=> packs[c].remain = 0
    /\ claims \in Seq(Claim)
    /\ DOMAIN fees \subseteq NftContract
    /\ \A k \in DOMAIN fees : fees[k] \in FeeRow
    /\ gstate \in [initialised : BOOLEAN, hours : Nat]
    /\ nfts \in [Nft -> Nat]
    /\ coins \in [Bank -> Nat]
    /\ now \in Nat

\* What live packets hold of an NFT.
Held(n) ==
    SumFunctionOnSet(Remains, {c \in DOMAIN packs : Live(c) /\ packs[c].nft = n})

\* The contract owns the NFTs of every live packet, all of them at once
\* (redpack.cpp:120-126, 163-172, 201-202).
NftsCover == \A n \in Nft : nfts[n] >= Held(n)

\* NFTs that belong to no live packet come about only in a delredpacks of the
\* admin: every other step, a deletion in the middle of delclaims included,
\* moves exactly what the packets it changes hold (redpack.cpp:133-144,
\* 163-172, 201-210, 219-221).
NftsAccounted ==
    [][\A n \in Nft :
          (nfts[n] - Held(n))' # nfts[n] - Held(n) =>
              \E c \in AdminCode : delredpacks(c)]_<<packs, nfts>>

\* The fees collected cover what deleting the packets pays back, whichever are
\* deleted first (redpack.cpp:73, 84, 205-207).
FeesCover ==
    coins[AmaxToken] >=
        SumFunctionOnSet(Refunds,
                         {c \in DOMAIN packs : packs[c].status # "finished"})

\* Every unit a live packet gave went to another receiver: the claims that
\* prove it outlive every clean-up of the table (redpack.cpp:161, 234-247).
PaidOnce ==
    \A c \in DOMAIN packs :
        Live(c) => Cardinality({a \in Account : HasClaimed(a, c)})
                       >= packs[c].total - packs[c].remain
-----------------------------------------------------------------------------
(* What the contract states and the code does not do *)

\* "redpack not expired yet" (redpack.cpp:191): the NFTs of a live packet are
\* taken back only after it has expired.  Of a contract that init was called
\* for, and stated without delredpacks.
CancelledOnlyExpired ==
    [][\A c \in DOMAIN packs \ DOMAIN packs' :
          gstate.initialised /\ Live(c) => Expired(c)]_packs

\* "not enough" (redpack.cpp:73) and "overflow exception of multiply"
\* (amax.did/include/utils.hpp:39): a packet that is opened by paying has paid
\* for every unit.
UnitsPaidFor ==
    [][\A c \in DOMAIN packs' \ DOMAIN packs :
          LET p == packs'[c]
          IN  p.status = "init" => p.fee >= fees[Contract(p.nft)].fee * p.total
      ]_packs
=============================================================================
