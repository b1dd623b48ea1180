----------------------------- MODULE DidNtoken -----------------------------
(***************************************************************************)
(* did.ntoken: the ledger of DID tokens.  A transaction is atomic: a check *)
(* that fails aborts everything the transaction did, so an aborted         *)
(* transaction is no step at all and every check is a guard.               *)
(* Names that are not accounts (is_account), over-long memos and uris are  *)
(* rejected by the code and are not among the inputs.                      *)
(***************************************************************************)
EXTENDS Integers, FiniteSets, FiniteSetsExt, Table

CONSTANTS
    Account,    \* accounts that exist on the chain
    Issuer,     \* the accounts that create tokens
    Notary,     \* the accounts setnotary is called with
    Id,         \* the uint32 ids tokens may have (bounds available_primary_key)
    Symbol,     \* nsymbols the callers name: records [id, parent]
    IdSpan,     \* number of uint32 values, 2^32 in the code
    Amount,     \* the int64 amounts callers pass
    Uri,        \* token uris
    Self,       \* the name value of did.ntoken, the scope create writes
    NoNotary    \* the default notary of a row

ASSUME IdAssumption ==
    /\ IdSpan \in Nat
    /\ Id \subseteq 0 .. IdSpan - 1
ASSUME SymbolAssumption == Symbol \subseteq [id : Id, parent : Id]
ASSUME AmountAssumption == Amount \subseteq Int
\* Account names are 64-bit values: there are finitely many.
ASSUME AccountAssumption ==
    Account # {} /\ IsFiniteSet(Account) /\ Issuer \subseteq Account
\* The 64-bit value of the name did.ntoken does not fit in 32 bits.
ASSUME SelfAssumption == Self \in Nat /\ Self >= IdSpan

VARIABLES
    nstats,     \* table of token statistics, keyed by <<scope, primary key>>
    accounts,   \* table of balances, keyed by <<owner, raw symbol>>
    notaries    \* _gstate.notaries

ntokenVars == <<nstats, accounts, notaries>>

-----------------------------------------------------------------------------
(* Symbols, assets and rows *)

IsValid(sym) == sym.id > sym.parent

Raw(sym) == sym.parent * IdSpan + sym.id

AnySymbol == [id : Id, parent : Id]
Asset == [symbol : AnySymbol, amount : Int]

StatKey(id) == <<Self, id>>
AcctKey(owner, sym) == <<owner, Raw(sym)>>

StatRow == [symbol : AnySymbol, supply : Int, maxSupply : Int, uri : Uri,
            issuer : Account, notary : Notary \cup {NoNotary}]
AcctRow == [symbol : AnySymbol, amount : Int,
            allowSend : BOOLEAN, allowRecv : BOOLEAN]

Created(id) == StatKey(id) \in DOMAIN nstats
Stat(id) == nstats[StatKey(id)]

HasRow(acnts, owner, sym) == AcctKey(owner, sym) \in DOMAIN acnts

\* account_t of a new row: the permissions default to false.
NewRow(q) == [symbol |-> q.symbol, amount |-> q.amount,
              allowSend |-> FALSE, allowRecv |-> FALSE]

\* The checks of sub_balance.
CanSub(acnts, owner, q) ==
    /\ HasRow(acnts, owner, q.symbol)
    /\ acnts[AcctKey(owner, q.symbol)].amount >= q.amount

sub_balance(acnts, owner, q) ==
    [acnts EXCEPT ![AcctKey(owner, q.symbol)].amount = @ - q.amount]

add_balance(acnts, owner, q) ==
    IF HasRow(acnts, owner, q.symbol)
    THEN [acnts EXCEPT ![AcctKey(owner, q.symbol)].amount = @ + q.amount]
    ELSE Put(acnts, AcctKey(owner, q.symbol), NewRow(q))

\* available_primary_key(): 0 on an empty table, else one past the last row.
AvailableKey ==
    LET used == {id \in Id : Created(id)}
    IN  IF used = {} THEN 0 ELSE Max(used) + 1

-----------------------------------------------------------------------------
(* Actions *)

Init ==
    /\ nstats = EmptyTable
    /\ accounts = EmptyTable
    /\ notaries = {}

\* Fault: the row keeps the symbol as passed, not the id it was assigned.
create_symbolAsPassed(issuer, maximumSupply, symbol, uri) ==
    LET id == IF symbol.id # 0 THEN symbol.id ELSE AvailableKey
    IN  /\ maximumSupply > 0
        /\ \A k \in DOMAIN nstats : nstats[k].uri # uri
        /\ ~Created(symbol.id) /\ id \in Id /\ ~Created(id)
        /\ symbol.id # 0 => symbol.id # symbol.parent
        /\ nstats' = Put(nstats, StatKey(id),
                         [symbol |-> symbol, supply |-> 0,
                          maxSupply |-> maximumSupply, uri |-> uri,
                          issuer |-> issuer, notary |-> NoNotary])
        /\ UNCHANGED <<accounts, notaries>>

create(issuer, maximumSupply, symbol, uri) ==
    LET id == IF symbol.id # 0 THEN symbol.id ELSE AvailableKey
    IN  /\ maximumSupply > 0
        /\ \A k \in DOMAIN nstats : nstats[k].uri # uri
        /\ ~Created(symbol.id)
        /\ symbol.id # 0 => symbol.id # symbol.parent
        /\ id \in Id                            \* bound on the ids
        /\ ~Created(id)
        /\ nstats' = Put(nstats, StatKey(id),
                         [symbol |-> [symbol EXCEPT !.id = id], supply |-> 0,
                          maxSupply |-> maximumSupply, uri |-> uri,
                          issuer |-> issuer, notary |-> NoNotary])
        /\ UNCHANGED <<accounts, notaries>>

setnotary(notary, toAdd) ==
    /\ notaries' = IF toAdd THEN notaries \cup {notary} ELSE notaries \ {notary}
    /\ UNCHANGED <<nstats, accounts>>

settokenuri(id, uri) ==
    /\ Created(id)
    /\ nstats' = [nstats EXCEPT ![StatKey(id)].uri = uri]
    /\ UNCHANGED <<accounts, notaries>>

notarize(notary, id) ==
    /\ notary \in notaries
    /\ Created(id)
    /\ nstats' = [nstats EXCEPT ![StatKey(id)].notary = notary]
    /\ UNCHANGED <<accounts, notaries>>

\* sym is a valid symbol and the symbol of a token that create made.
Genuine(sym) ==
    /\ IsValid(sym)
    /\ Created(sym.id)
    /\ sym = Stat(sym.id).symbol

\* What issue, retire, burn and transfer check of a quantity.
Usable(q) == Genuine(q.symbol) /\ q.amount > 0

AddSupply(q) == [nstats EXCEPT ![StatKey(q.symbol.id)].supply = @ + q.amount]
SubSupply(q) == [nstats EXCEPT ![StatKey(q.symbol.id)].supply = @ - q.amount]

\* Fault: the maximum is compared with the quantity alone.
issue_ignoresSupply(to, q) ==
    /\ Usable(q)
    /\ to = Stat(q.symbol.id).issuer
    /\ q.amount <= Stat(q.symbol.id).maxSupply
    /\ nstats' = AddSupply(q)
    /\ accounts' = add_balance(accounts, to, q)
    /\ UNCHANGED notaries

\* Fault: the symbol is not compared with the one of the statistics row.
issue_anySymbol(to, q) ==
    /\ IsValid(q.symbol) /\ Created(q.symbol.id) /\ q.amount > 0
    /\ to = Stat(q.symbol.id).issuer
    /\ q.amount <= Stat(q.symbol.id).maxSupply - Stat(q.symbol.id).supply
    /\ nstats' = AddSupply(q)
    /\ accounts' = add_balance(accounts, to, q)
    /\ UNCHANGED notaries

issue(to, q) ==
    /\ Usable(q)
    /\ to = Stat(q.symbol.id).issuer
    /\ q.amount <= Stat(q.symbol.id).maxSupply - Stat(q.symbol.id).supply
    /\ nstats' = AddSupply(q)
    /\ accounts' = add_balance(accounts, to, q)
    /\ UNCHANGED notaries

retire(auth, q) ==
    /\ Usable(q)
    /\ auth = Stat(q.symbol.id).issuer
    /\ CanSub(accounts, auth, q)
    /\ nstats' = SubSupply(q)
    /\ accounts' = sub_balance(accounts, auth, q)
    /\ UNCHANGED notaries

\* Fault: the supply stays when the holder's units are burned.
burn_keepsSupply(auth, owner, q) ==
    /\ Usable(q)
    /\ auth = Stat(q.symbol.id).issuer
    /\ CanSub(accounts, owner, q)
    /\ accounts' = sub_balance(accounts, owner, q)
    /\ UNCHANGED <<nstats, notaries>>

burn(auth, owner, q) ==
    /\ Usable(q)
    /\ auth = Stat(q.symbol.id).issuer
    /\ CanSub(accounts, owner, q)
    /\ nstats' = SubSupply(q)
    /\ accounts' = sub_balance(accounts, owner, q)
    /\ UNCHANGED notaries

\* The statistics row reclaim opens: scope and key are both the raw symbol.
ReclaimKey(did) == <<Raw(did), Raw(did)>>

\* The call is made with the authority of amax or armoniaadmin.  When the
\* statistics row is missing the transaction aborts and nothing is kept.
reclaim(target, did) ==
    /\ HasRow(accounts, target, did)
    /\ accounts[AcctKey(target, did)].amount >= 1
    /\ IF ReclaimKey(did) \in DOMAIN nstats
       THEN /\ accounts' = [accounts EXCEPT ![AcctKey(target, did)].amount = 0]
            /\ nstats' = [nstats EXCEPT ![ReclaimKey(did)].supply =
                              @ - accounts[AcctKey(target, did)].amount]
            /\ UNCHANGED notaries
       ELSE UNCHANGED ntokenVars

\* Fault: any receiver with a row will do.
MayTransfer_anyReceiver(from, to, sym) ==
    \/ accounts[AcctKey(from, sym)].allowSend
    \/ HasRow(accounts, to, sym)

\* The permission check: a holder who may not send can still return a token
\* to an account that is allowed to receive it.
MayTransfer(from, to, sym) ==
    \/ accounts[AcctKey(from, sym)].allowSend
    \/ /\ HasRow(accounts, to, sym)
       /\ accounts[AcctKey(to, sym)].allowRecv

\* Fault: a receiver who holds the token already may be sent more.
transfer_toHolders(from, to, q) ==
    /\ from # to
    /\ Usable(q)
    /\ CanSub(accounts, from, q)
    /\ MayTransfer(from, to, q.symbol)
    /\ accounts' = add_balance(sub_balance(accounts, from, q), to, q)
    /\ UNCHANGED <<nstats, notaries>>

transfer(from, to, q) ==
    /\ from # to
    /\ Usable(q)
    /\ CanSub(accounts, from, q)
    /\ HasRow(accounts, to, q.symbol) =>
           accounts[AcctKey(to, q.symbol)].amount = 0
    /\ MayTransfer(from, to, q.symbol)
    /\ accounts' = add_balance(sub_balance(accounts, from, q), to, q)
    /\ UNCHANGED <<nstats, notaries>>

\* Fault: the source keeps what the destination receives.
rebind_copies(from, to, q) ==
    /\ CanSub(accounts, from, q)
    /\ accounts' = add_balance(accounts, to, q)
    /\ UNCHANGED <<nstats, notaries>>

\* Fault: the permissions go along with the DID.
rebind_movesPermissions(from, to, q) ==
    /\ CanSub(accounts, from, q)
    /\ LET moved == add_balance(sub_balance(accounts, from, q), to, q)
           old == accounts[AcctKey(from, q.symbol)]
       IN  accounts' = [moved EXCEPT
               ![AcctKey(to, q.symbol)].allowSend = old.allowSend,
               ![AcctKey(to, q.symbol)].allowRecv = old.allowRecv]
    /\ UNCHANGED <<nstats, notaries>>

rebind(from, to, q) ==
    /\ CanSub(accounts, from, q)
    /\ accounts' = add_balance(sub_balance(accounts, from, q), to, q)
    /\ UNCHANGED <<nstats, notaries>>

setacctperms(issuer, to, sym, allowSend, allowRecv) ==
    /\ Created(sym.id)
    /\ issuer = Stat(sym.id).issuer
    /\ LET old == IF HasRow(accounts, to, sym)
                  THEN accounts[AcctKey(to, sym)]
                  ELSE NewRow([symbol |-> sym, amount |-> 0])
       IN  accounts' = Put(accounts, AcctKey(to, sym),
                           [old EXCEPT !.allowSend = allowSend,
                                       !.allowRecv = allowRecv])
    /\ UNCHANGED <<nstats, notaries>>
-----------------------------------------------------------------------------
(* The specification of the contract in an arbitrary environment *)

\* did.admin, the only caller of rebind, sends nasset(did_id, 0, 1).
Assets == [symbol : Symbol, amount : Amount]

IssuerNext ==
    \/ \E i \in Issuer, max \in Amount, s \in Symbol, u \in Uri :
           create(i, max, s, u)
    \/ \E i \in Account, q \in Assets : issue(i, q)
    \/ \E i \in Account, q \in Assets : retire(i, q)
    \/ \E i, a \in Account, q \in Assets : burn(i, a, q)
    \/ \E i, a \in Account, s \in Symbol, snd, rcv \in BOOLEAN :
           setacctperms(i, a, s, snd, rcv)

AdminNext ==
    \/ \E n \in Notary, add \in BOOLEAN : setnotary(n, add)
    \/ \E id \in Id, u \in Uri : settokenuri(id, u)
    \/ \E n \in Notary, id \in Id : notarize(n, id)
    \/ \E a \in Account, s \in Symbol : reclaim(a, s)

RebindNext ==
    \E a, b \in Account, s \in Symbol :
        s.parent = 0 /\ rebind(a, b, [symbol |-> s, amount |-> 1])

HolderNext == \E a, b \in Account, q \in Assets : transfer(a, b, q)

Next == IssuerNext \/ AdminNext \/ RebindNext \/ HolderNext

Spec == Init /\ [][Next]_ntokenVars
-----------------------------------------------------------------------------
(* Properties *)

\* Amount of the token sym an account holds; 0 when it has no row.
Holding(acnts, a, sym) ==
    IF HasRow(acnts, a, sym) THEN acnts[AcctKey(a, sym)].amount ELSE 0

BalanceOf(a, sym) == Holding(accounts, a, sym)

SupplyOf(sym) ==
    IF Created(sym.id) /\ Stat(sym.id).symbol = sym
    THEN Stat(sym.id).supply
    ELSE 0

StatTable(stats) ==
    \A k \in DOMAIN stats : stats[k] \in StatRow /\ k = StatKey(stats[k].symbol.id)

AcctTable(acnts) ==
    \A k \in DOMAIN acnts :
        /\ acnts[k] \in AcctRow
        /\ \E a \in Account : k = AcctKey(a, acnts[k].symbol)

\* Type invariant: every row is in the scope and under the key the code gives
\* it, and holds values of the field types.
TypeOK ==
    /\ notaries \subseteq Notary
    /\ StatTable(nstats)
    /\ AcctTable(accounts)

\* No token is ever in circulation beyond the maximum its creator declared,
\* through any sequence of issue, retire and burn (did.ntoken.cpp:93, 144).
SupplyAtMostMax ==
    \A k \in DOMAIN nstats : nstats[k].supply <= nstats[k].maxSupply

BackedTable(acnts) ==
    \A k \in DOMAIN acnts :
        acnts[k].amount # 0 =>
            acnts[k].amount > 0 /\ Genuine(acnts[k].symbol)

\* A balance is never negative, and a positive one is a balance of a created,
\* valid token: rows that setacctperms opens under another parent id, and rows
\* of a token whose id does not exceed its parent, stay at zero
\* (did.ntoken.cpp:92, 213, 262-270).
Backed == BackedTable(accounts)

\* The balances of a token add up to its supply (did.ntoken.cpp:95-99,
\* 119-123, 143-154, 215-216, 227-228).
SupplyIsSum ==
    \A s \in AnySymbol :
        SupplyOf(s) =
            SumFunctionOnSet([a \in Account |-> BalanceOf(a, s)], Account)

\* How one step may change the holdings of sym: one account by what the supply
\* changes, or two accounts by opposite amounts under an unchanged supply.
MovesWhole(sym) ==
    \/ \E a \in Account :
           /\ BalanceOf(a, sym)' - BalanceOf(a, sym)
                  = SupplyOf(sym)' - SupplyOf(sym)
           /\ \A b \in Account \ {a} : BalanceOf(b, sym)' = BalanceOf(b, sym)
    \/ \E a, b \in Account :
           /\ a # b
           /\ BalanceOf(a, sym)' + BalanceOf(b, sym)'
                  = BalanceOf(a, sym) + BalanceOf(b, sym)
           /\ SupplyOf(sym)' = SupplyOf(sym)
           /\ \A c \in Account \ {a, b} :
                  BalanceOf(c, sym)' = BalanceOf(c, sym)

\* Every step conserves every token: nothing is created or lost on the way
\* from one account to another, and the supply moves with the balance.
Conservation == [][\A s \in AnySymbol : MovesWhole(s)]_ntokenVars

AllowSend(a, sym) ==
    HasRow(accounts, a, sym) /\ accounts[AcctKey(a, sym)].allowSend
AllowRecv(a, sym) ==
    HasRow(accounts, a, sym) /\ accounts[AcctKey(a, sym)].allowRecv

\* What an account lost of sym was burned, or an account allowed to receive it
\* got it.
BurnedOrReturned(a, sym) ==
    LET lost == BalanceOf(a, sym) - BalanceOf(a, sym)'
    IN  \/ SupplyOf(sym)' = SupplyOf(sym) - lost
        \/ \E b \in Account : /\ AllowRecv(b, sym)
                              /\ BalanceOf(b, sym)' = BalanceOf(b, sym) + lost

\* A token that has a parent is bound to its holder: without the permission to
\* send he loses units only when the issuer burns them or when they go to an
\* account allowed to receive them.  did.admin rebinds tokens without a parent
\* only (did.ntoken.cpp:207-209, 215-228, did.admin.cpp:32-46); what a holder
\* of one of those may lose is BoundUnlessPaid of DidSystem.
SoulBound ==
    [][\A a \in Account, s \in {accounts[k].symbol : k \in DOMAIN accounts} :
          s.parent # 0 /\ ~AllowSend(a, s) /\ BalanceOf(a, s)' < BalanceOf(a, s)
              => BurnedOrReturned(a, s)]_accounts

Permissions(a, sym) == <<AllowSend(a, sym), AllowRecv(a, sym)>>

\* Permissions belong to the account, not to the DID: a step that grants or
\* takes one moves no unit, so who is sent a DID, or has one rebound to him,
\* holds it with the permissions he had (did.ntoken.cpp:215-216, 227-228,
\* 262-279).
PermissionsStay ==
    [][\A a \in Account, s \in AnySymbol :
          Permissions(a, s)' # Permissions(a, s) =>
              \A b \in Account, r \in AnySymbol :
                  BalanceOf(b, r)' = BalanceOf(b, r)]_accounts

-----------------------------------------------------------------------------
(* What the comments of the contract say and the code does not do *)

\* "You can't receive more than one DID token" (did.ntoken.cpp:205): only the
\* issuer's own stock grows from a positive balance.
OneDidPerAccount ==
    [][\A a \in Account, s \in AnySymbol :
          BalanceOf(a, s) > 0 /\ BalanceOf(a, s)' > BalanceOf(a, s)
              => a = Stat(s.id).issuer]_ntokenVars
=============================================================================
