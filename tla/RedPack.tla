------------------------------ MODULE RedPack ------------------------------
(***************************************************************************)
(* did.redpack: token red packets.  A transfer to the contract with a      *)
(* four-part memo opens a packet; the admin claims a share for a receiver; *)
(* anyone may cancel an expired packet, which refunds the sender.          *)
(*                                                                         *)
(* A transaction is atomic, so a failed check is no step; that includes    *)
(* the checks of the token contract on the transfers the handlers send:    *)
(* the quantity is positive and covered by the contract's balance.  The    *)
(* password of a packet is abstracted: claims with a wrong one abort.      *)
(***************************************************************************)
EXTENDS Integers, Sequences, FiniteSets, FiniteSetsExt, Table

CONSTANTS
    Sender,         \* accounts that open packets
    Account,        \* accounts the admin claims for
    Code,           \* packet codes the memos name
    Token,          \* <bank contract, symbol> pairs
    Precision,      \* [Token -> Nat], the symbols' decimals
    DidToken,       \* the tokens DID packets may hold (AMAX|MUSDT|MUSDC|TYCHE)
    Type,           \* packet types the memos name
    Amount,         \* deposited quantities
    Count,          \* receiver counts of the memos, any the int of stoi holds
    WordSpan,       \* number of uint64 values, 2^64 in the code
    Hours,          \* expiry hours init is called with
    Expiry,         \* expiry times whitelist is called with
    MaxRows,        \* arguments of delclaims
    Month,          \* seconds_per_month, in hours
    Fee,            \* listing fees set by setfee, and paid
    MaxTime         \* bound on the clock

Types == {"random", "mean", "didRandom", "didMean"}

MaxAmount == WordSpan \div 4 - 1     \* asset::max_amount

ASSUME RedPackAssumption ==
    /\ \A t \in Token : Precision[t] \in Nat
    /\ DidToken \subseteq Token
    /\ Type \subseteq Types
    /\ WordSpan \in Nat \ {0}
    /\ Amount \subseteq 0 .. MaxAmount
    /\ \A n \in Count : n \in Int /\ -n <= MaxAmount /\ n <= MaxAmount
    /\ Hours \subseteq Nat \ {0}
    /\ Expiry \subseteq Nat
    /\ MaxRows \subseteq Nat
    /\ Fee \subseteq Nat \ {0}
    /\ Month \in Nat
    /\ MaxTime \in Nat

VARIABLES
    packs,      \* table redpacks, by code
    claims,     \* table claims, in the order of their ids
    tokenlist,  \* table tokenlist: expired_time by token
    gstate,     \* [initialised, hours, didSupported]
    fee,        \* _gstate2.fee, 0 until setfee
    bank,       \* what the contract owns of each token
    now         \* the clock, in hours

redpackVars == <<packs, claims, tokenlist, gstate, fee, bank, now>>

-----------------------------------------------------------------------------
(* The shares *)

IsDid(type) == type \in {"didRandom", "didMean"}
IsRandom(type) == type \in {"random", "didRandom"}

\* rand rounds to, and pays at least, the 10^min(precision, 2) smallest units:
\* round_throot and min_value.
Unit(token) ==
    CASE Precision[token] = 0 -> 1
      [] Precision[token] = 1 -> 10
      [] OTHER                -> 100

\* Fault: the integer division is 1 for every precision.
Factors_neverBelowOne(token) == 100 .. 199

\* The values of `rand` in hundredths: 1 / min_unit_throot is an integer
\* division, 1 for a precision up to 2 and 0 above, plus r1 % 100 / 100.
Factors(token) == IF Precision[token] <= 2 THEN 100 .. 199 ELSE 0 .. 99

\* A uint64 as the int64 that the operators of asset take.
Signed(n) == IF n < WordSpan \div 2 THEN n ELSE n - WordSpan

\* A product below zero is converted to the unsigned 0.
rand(token, max, factor) ==
    LET product == IF max < 0 THEN 0 ELSE (max * factor) \div 100
        value == (product \div Unit(token)) * Unit(token)
    IN  IF value < Unit(token) THEN Unit(token) ELSE value

\* Twice the mean of what remains, in uint64: the count makes the quotient one.
TwiceMean(p) ==
    Signed((((p.remain % WordSpan) \div p.remainCount) * 2) % WordSpan)

\* _calc_red_amt, as the set of quantities the block hash may select.
RandomShares(p) ==
    CASE p.remainCount = 1 -> {p.remain}
      [] p.remainCount > 1 /\ TwiceMean(p) \in -MaxAmount .. MaxAmount ->
             {rand(p.token, TwiceMean(p), f) : f \in Factors(p.token)}
      [] OTHER -> {}

\* Fault: the share is of what remains.
MeanShares_ofRemain(p) ==
    CASE p.remainCount = 1 -> {p.remain}
      [] p.remainCount # 1 /\ Signed(p.receiverCount) > 0 ->
             {p.remain \div Signed(p.receiverCount)}
      [] OTHER -> {}

\* A divisor of 0 aborts, and no transfer carries a share below zero.
MeanShares(p) ==
    CASE p.remainCount = 1 -> {p.remain}
      [] p.remainCount # 1 /\ Signed(p.receiverCount) > 0 ->
             {p.total \div Signed(p.receiverCount)}
      [] OTHER -> {}

Shares(p) == IF IsRandom(p.type) THEN RandomShares(p) ELSE MeanShares(p)
-----------------------------------------------------------------------------
(* Actions *)

Init ==
    /\ packs = EmptyTable
    /\ claims = <<>>
    /\ tokenlist = EmptyTable
    /\ gstate = [initialised |-> FALSE, hours |-> 0, didSupported |-> FALSE]
    /\ fee = 0
    /\ bank = [t \in Token |-> 0]
    /\ now = 0

init(hours, didSupported) ==
    /\ gstate' = [initialised |-> TRUE, hours |-> hours,
                  didSupported |-> didSupported]
    /\ UNCHANGED <<packs, claims, tokenlist, fee, bank, now>>

setfee(amount) ==
    /\ fee' = amount
    /\ UNCHANGED <<packs, claims, tokenlist, gstate, bank, now>>

whitelist(token, expired) ==
    /\ tokenlist' = Put(tokenlist, token, expired)
    /\ UNCHANGED <<packs, claims, gstate, fee, bank, now>>

deltoken(token) ==
    /\ token \in DOMAIN tokenlist
    /\ tokenlist' = Drop(tokenlist, {token})
    /\ UNCHANGED <<packs, claims, gstate, fee, bank, now>>

\* on_transfer with a two-part memo.  The coin the fee is paid in is not
\* tracked: the contract keeps it and no handler spends it.
payfee(token, paid) ==
    /\ fee # 0                  \* an unset fee has no contract to compare with
    /\ paid >= fee
    /\ token \in DOMAIN tokenlist => tokenlist[token] < now
    /\ tokenlist' = Put(tokenlist, token, now + Month)
    /\ UNCHANGED <<packs, claims, gstate, fee, bank, now>>

\* on_transfer with a four-part memo.  The count is an int, stored as a uint64.
deposit(from, token, quantity, count, type, code) ==
    /\ quantity > 0
    /\ token \in DOMAIN tokenlist
    /\ tokenlist[token] > now
    /\ code \notin DOMAIN packs
    /\ IF IsDid(type)
       THEN gstate.didSupported /\ token \in DidToken
       ELSE count > 0 /\ quantity \div count >= 100
    /\ packs' = Put(packs, code,
                    [sender |-> from, token |-> token, type |-> type,
                     total |-> quantity, receiverCount |-> count % WordSpan,
                     remain |-> quantity, remainCount |-> count % WordSpan,
                     status |-> "created", createdAt |-> now])
    /\ bank' = [bank EXCEPT ![token] = @ + quantity]
    /\ UNCHANGED <<claims, tokenlist, gstate, fee, now>>

HasClaimed(claimer, code) ==
    \E i \in DOMAIN claims : claims[i] = [code |-> code, receiver |-> claimer]

\* Fault: the packet's remainder is not reduced.
claimredpack_keepsRemain(claimer, code, share, hasDid) ==
    LET p == packs[code]
    IN  /\ gstate.initialised /\ code \in DOMAIN packs /\ p.status = "created"
        /\ (IsDid(p.type) => hasDid) /\ ~HasClaimed(claimer, code)
        /\ share > 0 /\ share <= bank[p.token]
        /\ bank' = [bank EXCEPT ![p.token] = @ - share]
        /\ packs' = [packs EXCEPT
                        ![code].remainCount = @ - 1,
                        ![code].status = IF p.remainCount = 1
                                         THEN "finished" ELSE @]
        /\ claims' = Append(claims, [code |-> code, receiver |-> claimer])
        /\ UNCHANGED <<tokenlist, gstate, fee, now>>

\* Fault: the claim is recorded for the packet's sender.
claimredpack_recordsSender(claimer, code, share, hasDid) ==
    LET p == packs[code]
    IN  /\ gstate.initialised /\ code \in DOMAIN packs /\ p.status = "created"
        /\ (IsDid(p.type) => hasDid) /\ ~HasClaimed(claimer, code)
        /\ share > 0 /\ share <= bank[p.token]
        /\ bank' = [bank EXCEPT ![p.token] = @ - share]
        /\ packs' = [packs EXCEPT
                        ![code].remainCount = @ - 1,
                        ![code].remain = @ - share,
                        ![code].status = IF p.remainCount = 1
                                         THEN "finished" ELSE @]
        /\ claims' = Append(claims, [code |-> code, receiver |-> p.sender])
        /\ UNCHANGED <<tokenlist, gstate, fee, now>>

\* hasDid is what the accounts table of did_contract says of the claimer: some
\* row holds a positive balance.
claimredpack(claimer, code, share, hasDid) ==
    LET p == packs[code]
    IN  /\ gstate.initialised               \* there is an admin to authorise it
        /\ code \in DOMAIN packs
        /\ p.status = "created"
        /\ IsDid(p.type) => hasDid
        /\ ~HasClaimed(claimer, code)
        /\ share > 0 /\ share <= bank[p.token]
        /\ bank' = [bank EXCEPT ![p.token] = @ - share]
        /\ packs' = [packs EXCEPT
                        ![code].remainCount = @ - 1,
                        ![code].remain = @ - share,
                        ![code].status = IF p.remainCount = 1
                                         THEN "finished" ELSE @]
        /\ claims' = Append(claims, [code |-> code, receiver |-> claimer])
        /\ UNCHANGED <<tokenlist, gstate, fee, now>>

\* Fault: the whole deposit is refunded.
cancel_refundsTotal(code) ==
    LET p == packs[code]
    IN  /\ code \in DOMAIN packs /\ p.status = "created"
        /\ now > p.createdAt + gstate.hours
        /\ p.total <= bank[p.token]
        /\ bank' = [bank EXCEPT ![p.token] = @ - p.total]
        /\ packs' = Drop(packs, {code})
        /\ UNCHANGED <<claims, tokenlist, gstate, fee, now>>

\* Fault: the rest of the packet is paid back while its token is listed.
cancel_listedOnly(code) ==
    LET p == packs[code]
    IN  /\ code \in DOMAIN packs
        /\ p.token \in DOMAIN tokenlist
        /\ now > p.createdAt + gstate.hours
        /\ IF p.status = "created"
           THEN /\ p.remain > 0 /\ p.remain <= bank[p.token]
                /\ bank' = [bank EXCEPT ![p.token] = @ - p.remain]
           ELSE UNCHANGED bank
        /\ packs' = Drop(packs, {code})
        /\ UNCHANGED <<claims, tokenlist, gstate, fee, now>>

cancel(code) ==
    LET p == packs[code]
    IN  /\ code \in DOMAIN packs
        /\ now > p.createdAt + gstate.hours
        /\ IF p.status = "created"
           THEN /\ p.remain > 0 /\ p.remain <= bank[p.token]
                /\ bank' = [bank EXCEPT ![p.token] = @ - p.remain]
           ELSE UNCHANGED bank
        /\ packs' = Drop(packs, {code})
        /\ UNCHANGED <<claims, tokenlist, gstate, fee, now>>

\* is_not_exist of delclaims after its first n erasures: the code inserted is
\* the one of the row that follows the erased row.
NotExist[n \in 0 .. Len(claims)] ==
    IF n = 0 THEN {}
    ELSE IF claims[n].code \in NotExist[n - 1] \/ n = Len(claims)
    THEN NotExist[n - 1]
    ELSE NotExist[n - 1] \cup {claims[n + 1].code}

\* delclaims erases the n-th row once it has erased those before it.
Erasable(n) ==
    \/ claims[n].code \in NotExist[n - 1]
    \/ claims[n].code \notin DOMAIN packs

delclaims(maxRows) ==
    LET rows == {n \in 1 .. Len(claims) :
                    n <= maxRows /\ \A m \in 1 .. n : Erasable(m)}
    IN  /\ \E last \in rows :
               /\ \A n \in rows : n <= last
               /\ claims' = SubSeq(claims, last + 1, Len(claims))
        /\ UNCHANGED <<packs, tokenlist, gstate, fee, bank, now>>

tick ==
    /\ now < MaxTime                                        \* bound
    /\ now' = now + 1
    /\ UNCHANGED <<packs, claims, tokenlist, gstate, fee, bank>>

Next ==
    \/ \E h \in Hours, did \in BOOLEAN : init(h, did)
    \/ \E f \in Fee : setfee(f)
    \/ \E t \in Token, e \in Expiry : whitelist(t, e)
    \/ \E t \in Token : deltoken(t)
    \/ \E t \in Token, f \in Fee : payfee(t, f)
    \/ \E a \in Sender, t \in Token, q \in Amount, n \in Count,
          type \in Type, c \in Code : deposit(a, t, q, n, type, c)
    \/ \E a \in Account, c \in DOMAIN packs, hasDid \in BOOLEAN :
           \E share \in Shares(packs[c]) : claimredpack(a, c, share, hasDid)
    \/ \E c \in Code : cancel(c)
    \/ \E n \in MaxRows : delclaims(n)
    \/ tick

\* Time passes, and somebody cancels a packet that may be cancelled: any
\* account may, and its sender gets the rest of it.  Nothing else is promised.
Fairness ==
    /\ WF_redpackVars(tick)
    /\ \A c \in Code : WF_redpackVars(cancel(c))

Spec == Init /\ [][Next]_redpackVars /\ Fairness
-----------------------------------------------------------------------------
(* Properties *)

Pack == [sender : Sender, token : Token, type : Types, total : Nat,
         receiverCount : Nat, remain : Int, remainCount : Int,
         status : {"created", "finished"}, createdAt : Nat]

Claim == [code : Code, receiver : Account]

\* Type invariant.
TypeOK ==
    /\ DOMAIN packs \subseteq Code
    /\ \A c \in DOMAIN packs : packs[c] \in Pack
    /\ claims \in Seq(Claim)
    /\ DOMAIN tokenlist \subseteq Token
    /\ \A t \in DOMAIN tokenlist : tokenlist[t] \in Nat
    /\ gstate \in [initialised : BOOLEAN, hours : Nat, didSupported : BOOLEAN]
    /\ fee \in Fee \cup {0}
    /\ bank \in [Token -> Int]
    /\ now \in Nat

Live(c) == c \in DOMAIN packs /\ packs[c].status = "created"

\* The books balance: what the contract owns of a token is what its packets
\* still hold of it (redpack.cpp:154-166, 246-254, 272-286).
Books ==
    \A t \in Token :
        bank[t] = SumFunctionOnSet([c \in DOMAIN packs |-> packs[c].remain],
                                   {c \in DOMAIN packs : packs[c].token = t})

\* A random packet of a token with more than two decimals can pay everyone who
\* is left: each but the last takes at least 100 units and the last what
\* remains, which is never nothing (redpack.cpp:144, 324-353).
RandomShareLeft ==
    \A c \in DOMAIN packs :
        LET p == packs[c]
        IN  Live(c) /\ p.type = "random" /\ Precision[p.token] > 2 =>
                /\ p.remainCount >= 1
                /\ p.remain > Unit(p.token) * (p.remainCount - 1)

\* A fixed packet has paid equal shares: what it holds is the share of each who
\* is left and the rest of the division, which goes to the last
\* (redpack.cpp:243).
MeanShareLeft ==
    \A c \in DOMAIN packs :
        LET p == packs[c]
        IN  Live(c) /\ p.type = "mean" =>
                /\ p.remainCount >= 1
                /\ p.remain = p.total - (p.receiverCount - p.remainCount)
                                            * (p.total \div p.receiverCount)
                /\ p.remain >= 100 * p.remainCount

\* Every packet is an escrow of its own: no payment takes from another
\* packet's deposit and a cancelled packet is refunded in full.
TheEscrow == INSTANCE Escrow WITH
    held <- [c \in DOMAIN packs |-> [token |-> packs[c].token,
                                     amount |-> packs[c].remain]],
    vault <- bank

Escrowed == TheEscrow!Spec

\* No deposit is locked in: whatever the admin, the white list and the clean-up
\* of the claims do meanwhile, a packet is paid out or its rest goes back to its
\* sender once it has expired (redpack.cpp:267-287).  Of the packets that expire
\* before the clock's bound.
NoDepositStays ==
    \A c \in Code :
        Live(c) /\ packs[c].createdAt + Max(Hours) < MaxTime ~> ~Live(c)
-----------------------------------------------------------------------------
(* What the contract states and the code does not do *)

\* "Can't repeat to receive" (redpack.cpp:234): the rows that the check reads
\* tell of every receiver a live packet has paid.
PaymentsRecorded ==
    \A c \in DOMAIN packs :
        Live(c) =>
            Cardinality({a \in Account : HasClaimed(a, c)})
                >= packs[c].receiverCount - packs[c].remainCount

\* MIN_SINGLE_REDPACK (redpackdb.hpp:20) and "Minimal unit 100"
\* (redpack.cpp:144): a live packet can pay those who are left.
NoOverdraft == \A c \in DOMAIN packs : Live(c) => packs[c].remain >= 0
=============================================================================
