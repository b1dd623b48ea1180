-------------------------- MODULE DidNtokenProofs --------------------------
(***************************************************************************)
(* Proofs about did.ntoken for every set of accounts, symbols and amounts. *)
(***************************************************************************)
EXTENDS DidNtoken, SumsProofs

-----------------------------------------------------------------------------
(* Arithmetic of the raw symbol and the keys it makes *)

\* A number below base*base has one high and one low digit.
LEMMA TwoDigits ==
    ASSUME NEW base \in Nat,
           NEW p \in 0 .. base - 1, NEW q \in 0 .. base - 1,
           NEW i \in 0 .. base - 1, NEW j \in 0 .. base - 1,
           p * base + i = q * base + j
    PROVE  p = q /\ i = j
<1>1. ASSUME NEW x \in Nat, NEW y \in Nat, NEW k \in 0 .. base - 1,
             NEW l \in 0 .. base - 1, x < y
      PROVE  x * base + k < y * base + l
  <2>1. (x + 1) * base <= y * base
    BY <1>1
  <2>2. (x + 1) * base = x * base + base
    OBVIOUS
  <2>3. x * base \in Nat /\ y * base \in Nat /\ (x + 1) * base \in Nat
    OBVIOUS
  <2> HIDE <1>1
  <2> QED
    BY <2>1, <2>2, <2>3
<1>2. ~(p < q)
  BY <1>1
<1>3. ~(q < p)
  BY <1>1
<1>4. p = q
  BY <1>2, <1>3
<1> QED
  BY <1>4

\* nsymbol::raw tells symbols apart: parent_id and id are 32-bit halves.
LEMMA RawInjective ==
    ASSUME NEW s \in AnySymbol, NEW t \in AnySymbol, Raw(s) = Raw(t)
    PROVE  s = t
<1>1. /\ s.id \in 0 .. IdSpan - 1 /\ s.parent \in 0 .. IdSpan - 1
      /\ t.id \in 0 .. IdSpan - 1 /\ t.parent \in 0 .. IdSpan - 1
  BY IdAssumption DEF AnySymbol
<1>2. s.parent = t.parent /\ s.id = t.id
  BY <1>1, TwoDigits, IdAssumption DEF Raw
<1> QED
  BY <1>2 DEF AnySymbol

LEMMA AcctKeyInjective ==
    ASSUME NEW a, NEW b, NEW s \in AnySymbol, NEW t \in AnySymbol,
           AcctKey(a, s) = AcctKey(b, t)
    PROVE  a = b /\ s = t
BY RawInjective DEF AcctKey

LEMMA RawIsInt == ASSUME NEW s \in AnySymbol PROVE Raw(s) \in Nat
<1>1. s.id \in 0 .. IdSpan - 1 /\ s.parent \in 0 .. IdSpan - 1
  BY IdAssumption DEF AnySymbol
<1>2. s.parent * IdSpan \in Nat
  BY <1>1, IdAssumption
<1> QED
  BY <1>1, <1>2 DEF Raw

\* The row reclaim looks up is in no table of statistics: create writes the
\* scope of the contract and a 32-bit key, reclaim reads a row whose scope is
\* its own key.
LEMMA ReclaimKeyUnused ==
    ASSUME NEW did \in AnySymbol, StatTable(nstats)
    PROVE  ReclaimKey(did) \notin DOMAIN nstats
<1> SUFFICES ASSUME ReclaimKey(did) \in DOMAIN nstats
             PROVE  FALSE
  OBVIOUS
<1> DEFINE id == nstats[ReclaimKey(did)].symbol.id
<1>1. ReclaimKey(did) = StatKey(id) /\ id \in Id
  BY DEF StatTable, StatRow, AnySymbol
<1>2. Self = id
  BY <1>1 DEF ReclaimKey, StatKey
<1> QED
  BY <1>1, <1>2, SelfAssumption, IdAssumption

-----------------------------------------------------------------------------
(* The balance helpers *)

\* sub_balance keeps the table well formed and the rows' permissions, and
\* takes q.amount from the owner's holding of that token only.
LEMMA SubBalance ==
    ASSUME NEW acnts, AcctTable(acnts), NEW owner \in Account, NEW q \in Asset,
           CanSub(acnts, owner, q)
    PROVE  LET after == sub_balance(acnts, owner, q)
           IN  /\ AcctTable(after)
               /\ DOMAIN after = DOMAIN acnts
               /\ \A k \in DOMAIN acnts :
                      /\ after[k].symbol = acnts[k].symbol
                      /\ after[k].amount = IF k = AcctKey(owner, q.symbol)
                                           THEN acnts[k].amount - q.amount
                                           ELSE acnts[k].amount
<1> DEFINE key == AcctKey(owner, q.symbol)
           after == sub_balance(acnts, owner, q)
<1>1. key \in DOMAIN acnts
  BY DEF CanSub, HasRow
<1>2. /\ DOMAIN after = DOMAIN acnts
      /\ \A k \in DOMAIN acnts \ {key} : after[k] = acnts[k]
      /\ after[key] = [acnts[key] EXCEPT !.amount = @ - q.amount]
  BY <1>1 DEF sub_balance
<1>3. acnts[key] \in AcctRow /\ q.amount \in Int
  BY <1>1 DEF AcctTable, Asset
<1>4. /\ after[key] \in AcctRow
      /\ after[key].symbol = acnts[key].symbol
      /\ after[key].amount = acnts[key].amount - q.amount
  BY <1>2, <1>3 DEF AcctRow
<1> HIDE DEF after, key
<1>5. AcctTable(after)
  BY <1>2, <1>4 DEF AcctTable
<1> QED
  BY <1>2, <1>4, <1>5 DEF key, after

\* A row has the symbol its key was made from.
LEMMA KeyedBySymbol ==
    ASSUME NEW acnts, AcctTable(acnts), NEW a \in Account,
           NEW s \in AnySymbol, AcctKey(a, s) \in DOMAIN acnts
    PROVE  acnts[AcctKey(a, s)].symbol = s
<1> DEFINE t == acnts[AcctKey(a, s)].symbol
<1>1. t \in AnySymbol /\ \E b \in Account : AcctKey(a, s) = AcctKey(b, t)
  BY DEF AcctTable, AcctRow
<1> QED
  BY <1>1, AcctKeyInjective

\* add_balance keeps the table well formed, opens at most the row of that
\* token, and adds q.amount to the owner's holding of that token only.
LEMMA AddBalance ==
    ASSUME NEW acnts, AcctTable(acnts), NEW owner \in Account, NEW q \in Asset
    PROVE  LET after == add_balance(acnts, owner, q)
               key == AcctKey(owner, q.symbol)
           IN  /\ AcctTable(after)
               /\ DOMAIN after = DOMAIN acnts \cup {key}
               /\ \A k \in DOMAIN acnts \ {key} : after[k] = acnts[k]
               /\ after[key].symbol = q.symbol
               /\ after[key].amount = Holding(acnts, owner, q.symbol) + q.amount
<1> DEFINE key == AcctKey(owner, q.symbol)
           after == add_balance(acnts, owner, q)
<1>1. q.amount \in Int /\ q.symbol \in AnySymbol
  BY DEF Asset
<1>2. CASE key \in DOMAIN acnts
  <2>1. acnts[key] \in AcctRow /\ acnts[key].symbol = q.symbol
    BY <1>1, <1>2, KeyedBySymbol DEF AcctTable
  <2>2. /\ DOMAIN after = DOMAIN acnts
        /\ \A k \in DOMAIN acnts \ {key} : after[k] = acnts[k]
        /\ after[key] = [acnts[key] EXCEPT !.amount = @ + q.amount]
    BY <1>2 DEF add_balance, HasRow
  <2>3. /\ after[key] \in AcctRow
        /\ after[key].symbol = q.symbol
        /\ after[key].amount = Holding(acnts, owner, q.symbol) + q.amount
    BY <1>1, <1>2, <2>1, <2>2 DEF AcctRow, Holding, HasRow
  <2> HIDE DEF after
  <2>4. AcctTable(after)
    BY <2>2, <2>3 DEF AcctTable
  <2> QED
    BY <1>2, <2>2, <2>3, <2>4 DEF after
<1>3. CASE key \notin DOMAIN acnts
  <2>1. /\ DOMAIN after = DOMAIN acnts \cup {key}
        /\ \A k \in DOMAIN acnts \ {key} : after[k] = acnts[k]
        /\ after[key] = NewRow(q)
    BY <1>3 DEF add_balance, HasRow, Put
  <2>2. /\ after[key] \in AcctRow
        /\ after[key].symbol = q.symbol
        /\ after[key].amount = Holding(acnts, owner, q.symbol) + q.amount
    BY <1>1, <1>3, <2>1 DEF AcctRow, NewRow, Holding, HasRow
  <2> HIDE DEF after
  <2>3. AcctTable(after)
    BY <2>1, <2>2 DEF AcctTable
  <2> QED
    BY <2>1, <2>2, <2>3 DEF after
<1> QED
  BY <1>2, <1>3

\* Taking from a backed holding leaves a backed table; only genuine tokens can
\* be taken from.
LEMMA SubBacked ==
    ASSUME NEW acnts, AcctTable(acnts), BackedTable(acnts),
           NEW owner \in Account, NEW q \in Asset,
           CanSub(acnts, owner, q), q.amount > 0
    PROVE  Genuine(q.symbol) /\ BackedTable(sub_balance(acnts, owner, q))
<1> DEFINE key == AcctKey(owner, q.symbol)
           after == sub_balance(acnts, owner, q)
<1>1. /\ q.amount \in Int /\ q.symbol \in AnySymbol
      /\ key \in DOMAIN acnts
      /\ acnts[key].amount >= q.amount
      /\ \A k \in DOMAIN acnts : acnts[k].amount \in Int
  BY DEF Asset, CanSub, HasRow, AcctTable, AcctRow
<1>2. acnts[key].symbol = q.symbol
  BY <1>1, KeyedBySymbol
<1>3. Genuine(q.symbol)
  BY <1>1, <1>2 DEF BackedTable
<1>4. /\ DOMAIN after = DOMAIN acnts
      /\ \A k \in DOMAIN acnts :
             /\ after[k].symbol = acnts[k].symbol
             /\ after[k].amount = IF k = key THEN acnts[k].amount - q.amount
                                  ELSE acnts[k].amount
  BY SubBalance
<1> HIDE DEF after, key
<1>5. BackedTable(after)
  BY <1>1, <1>2, <1>3, <1>4 DEF BackedTable
<1> QED
  BY <1>3, <1>5 DEF after

\* Adding a genuine quantity leaves a backed table.
LEMMA AddBacked ==
    ASSUME NEW acnts, AcctTable(acnts), BackedTable(acnts),
           NEW owner \in Account, NEW q \in Asset,
           Genuine(q.symbol), q.amount > 0
    PROVE  BackedTable(add_balance(acnts, owner, q))
<1> DEFINE key == AcctKey(owner, q.symbol)
           after == add_balance(acnts, owner, q)
<1>1. /\ q.amount \in Int /\ q.symbol \in AnySymbol
      /\ \A k \in DOMAIN acnts : acnts[k].amount \in Int
  BY DEF Asset, AcctTable, AcctRow
<1>2. Holding(acnts, owner, q.symbol) \in Nat
  BY <1>1 DEF Holding, HasRow, BackedTable
<1>3. /\ DOMAIN after = DOMAIN acnts \cup {key}
      /\ \A k \in DOMAIN acnts \ {key} : after[k] = acnts[k]
      /\ after[key].symbol = q.symbol
      /\ after[key].amount = Holding(acnts, owner, q.symbol) + q.amount
  BY AddBalance
<1> HIDE DEF after, key
<1>4. BackedTable(after)
  BY <1>1, <1>2, <1>3 DEF BackedTable
<1> QED
  BY <1>4 DEF after

-----------------------------------------------------------------------------
(* The inductive invariant *)

\* What the three invariants need of each other: a row's key tells its symbol
\* (TypeOK), and a holding is of a token whose row is there (Backed).
IInv == TypeOK /\ SupplyAtMostMax /\ Backed

\* A step adds rows of statistics and never changes what a token is.
RowsKept ==
    \A k \in DOMAIN nstats :
        /\ k \in DOMAIN nstats'
        /\ nstats'[k].symbol = nstats[k].symbol
        /\ nstats'[k].issuer = nstats[k].issuer
        /\ nstats'[k].maxSupply = nstats[k].maxSupply

\* Backed survives a step that keeps the rows and leaves a backed table.
LEMMA BackedKept ==
    ASSUME RowsKept, AcctTable(accounts'), BackedTable(accounts')
    PROVE  Backed'
<1> SUFFICES ASSUME NEW k \in DOMAIN accounts', accounts'[k].amount # 0
             PROVE  (accounts[k].amount > 0 /\ Genuine(accounts[k].symbol))'
  BY DEF Backed, BackedTable
<1> DEFINE s == accounts'[k].symbol
<1>1. s \in AnySymbol
  BY DEF AcctTable, AcctRow
<1>2. accounts'[k].amount > 0 /\ Genuine(s)
  BY DEF BackedTable
<1>3. /\ StatKey(s.id) \in DOMAIN nstats'
      /\ s = nstats'[StatKey(s.id)].symbol
      /\ IsValid(s)
  BY <1>2 DEF RowsKept, Genuine, Created, Stat
<1> QED
  BY <1>2, <1>3 DEF Genuine, Created, Stat, StatKey, IsValid

-----------------------------------------------------------------------------
(* Each action preserves the invariant and keeps the rows of statistics *)

\* A change of the supply of one token that stays within the maximum.
LEMMA SupplyChange ==
    ASSUME StatTable(nstats), SupplyAtMostMax,
           NEW id, Created(id), NEW n \in Int, n <= Stat(id).maxSupply,
           nstats' = [nstats EXCEPT ![StatKey(id)].supply = n]
    PROVE  RowsKept /\ StatTable(nstats)' /\ SupplyAtMostMax'
<1> DEFINE key == StatKey(id)
<1>1. key \in DOMAIN nstats /\ nstats[key] \in StatRow
  BY DEF Created, StatTable
<1>2. /\ DOMAIN nstats' = DOMAIN nstats
      /\ \A k \in DOMAIN nstats \ {key} : nstats'[k] = nstats[k]
      /\ nstats'[key] = [nstats[key] EXCEPT !.supply = n]
  BY <1>1
<1>3. /\ nstats'[key] \in StatRow
      /\ nstats'[key].symbol = nstats[key].symbol
      /\ nstats'[key].issuer = nstats[key].issuer
      /\ nstats'[key].maxSupply = nstats[key].maxSupply
      /\ nstats'[key].supply = n
  BY <1>1, <1>2 DEF StatRow
<1>4. n <= nstats[key].maxSupply
  BY DEF Stat
<1> HIDE DEF key
<1>5. RowsKept
  BY <1>2, <1>3 DEF RowsKept
<1>6. StatTable(nstats)'
  BY <1>2, <1>3, <1>1 DEF StatTable
<1>7. SupplyAtMostMax'
  BY <1>2, <1>3, <1>4 DEF SupplyAtMostMax
<1> QED
  BY <1>5, <1>6, <1>7

\* A change of a field of one row of statistics that no invariant reads.
LEMMA FieldChange ==
    ASSUME StatTable(nstats), SupplyAtMostMax, NEW id, Created(id),
           NEW row \in StatRow,
           row.symbol = Stat(id).symbol, row.issuer = Stat(id).issuer,
           row.supply = Stat(id).supply, row.maxSupply = Stat(id).maxSupply,
           nstats' = [nstats EXCEPT ![StatKey(id)] = row]
    PROVE  RowsKept /\ StatTable(nstats)' /\ SupplyAtMostMax'
<1> DEFINE key == StatKey(id)
<1>1. key \in DOMAIN nstats
  BY DEF Created
<1>2. /\ DOMAIN nstats' = DOMAIN nstats
      /\ \A k \in DOMAIN nstats \ {key} : nstats'[k] = nstats[k]
      /\ nstats'[key] = row
  BY <1>1
<1>3. Stat(id) = nstats[key]
  BY DEF Stat
<1> HIDE DEF key
<1>4. RowsKept
  BY <1>2, <1>3 DEF RowsKept
<1>5. StatTable(nstats)'
  BY <1>2, <1>3, <1>1 DEF StatTable
<1>6. SupplyAtMostMax'
  BY <1>2, <1>3, <1>1 DEF SupplyAtMostMax
<1> QED
  BY <1>4, <1>5, <1>6

LEMMA StatsUnchanged ==
    ASSUME StatTable(nstats), SupplyAtMostMax, UNCHANGED nstats
    PROVE  RowsKept /\ StatTable(nstats)' /\ SupplyAtMostMax'
BY DEF RowsKept, StatTable, SupplyAtMostMax

\* The three parts put together again.
LEMMA Reassemble ==
    ASSUME notaries' \subseteq Notary, RowsKept, StatTable(nstats)',
           SupplyAtMostMax', AcctTable(accounts'), BackedTable(accounts')
    PROVE  RowsKept /\ IInv'
<1>1. AcctTable(accounts)'
  BY DEF AcctTable
<1>2. Backed'
  BY BackedKept
<1> QED
  BY <1>1, <1>2 DEF IInv, TypeOK

LEMMA CreateStep ==
    ASSUME IInv, NEW i \in Issuer, NEW max \in Amount, NEW s \in Symbol,
           NEW u \in Uri, create(i, max, s, u)
    PROVE  RowsKept /\ IInv'
<1> DEFINE id == IF s.id # 0 THEN s.id ELSE AvailableKey
           sym == [s EXCEPT !.id = id]
           row == [symbol |-> sym, supply |-> 0,
                   maxSupply |-> max, uri |-> u,
                   issuer |-> i, notary |-> NoNotary]
<1>1. /\ max > 0 /\ id \in Id /\ ~Created(id)
      /\ nstats' = Put(nstats, StatKey(id), row)
      /\ UNCHANGED <<accounts, notaries>>
  BY DEF create
<1>2. s \in AnySymbol /\ max \in Int /\ i \in Account
  BY SymbolAssumption, AmountAssumption, AccountAssumption DEF AnySymbol
<1> HIDE DEF id
<1>3. sym \in AnySymbol /\ sym.id = id
  BY <1>1, <1>2 DEF AnySymbol
<1> HIDE DEF sym
<1>4. /\ row \in StatRow /\ row.symbol.id = id
      /\ row.supply = 0 /\ row.maxSupply = max
  BY <1>2, <1>3 DEF StatRow
<1> HIDE DEF row
<1>5. /\ DOMAIN nstats' = DOMAIN nstats \cup {StatKey(id)}
      /\ nstats'[StatKey(id)] = row
      /\ \A k \in DOMAIN nstats : nstats'[k] = nstats[k]
  BY <1>1 DEF Put, Created
<1>6. RowsKept
  BY <1>5 DEF RowsKept
<1>7. StatTable(nstats)'
  BY <1>4, <1>5 DEF IInv, TypeOK, StatTable
<1>8. SupplyAtMostMax'
  BY <1>1, <1>2, <1>4, <1>5 DEF IInv, SupplyAtMostMax
<1>9. notaries' \subseteq Notary /\ AcctTable(accounts') /\ BackedTable(accounts')
  BY <1>1 DEF IInv, TypeOK, Backed
<1> QED
  BY <1>6, <1>7, <1>8, <1>9, Reassemble

\* The typing of a quantity a caller names.
LEMMA AssetsAreAssets == ASSUME NEW q \in Assets PROVE q \in Asset
BY SymbolAssumption, AmountAssumption DEF Assets, Asset, AnySymbol

\* What issue, retire and burn may assume of the row they change.
LEMMA UsableRow ==
    ASSUME StatTable(nstats), NEW q \in Asset, Usable(q)
    PROVE  /\ Created(q.symbol.id)
           /\ Genuine(q.symbol)
           /\ q.amount \in Int /\ q.amount > 0
           /\ Stat(q.symbol.id).supply \in Int
           /\ Stat(q.symbol.id).maxSupply \in Int
           /\ Stat(q.symbol.id).issuer \in Account
BY DEF Asset, Usable, Genuine, Created, Stat, StatTable, StatRow

LEMMA IssueStep ==
    ASSUME IInv, NEW i \in Account, NEW q \in Asset, issue(i, q)
    PROVE  RowsKept /\ IInv'
<1> DEFINE id == q.symbol.id
<1> USE DEF IInv, TypeOK, Backed
<1>1. /\ Created(id) /\ Genuine(q.symbol) /\ q.amount \in Int /\ q.amount > 0
      /\ Stat(id).supply \in Int /\ Stat(id).maxSupply \in Int
  BY UsableRow DEF issue
<1>2. /\ Stat(id).supply + q.amount <= Stat(id).maxSupply
      /\ Stat(id).supply + q.amount \in Int
  BY <1>1 DEF issue
<1>3. nstats' = [nstats EXCEPT ![StatKey(id)].supply = Stat(id).supply + q.amount]
  BY DEF issue, AddSupply, Stat
<1>4. RowsKept /\ StatTable(nstats)' /\ SupplyAtMostMax'
  BY <1>1, <1>2, <1>3, SupplyChange
<1>5. accounts' = add_balance(accounts, i, q)
  BY DEF issue
<1>6. AcctTable(accounts')
  BY <1>5, AddBalance
<1>7. BackedTable(accounts')
  BY <1>1, <1>5, AddBacked
<1>8. notaries' \subseteq Notary
  BY DEF issue
<1> QED
  BY <1>4, <1>6, <1>7, <1>8, Reassemble

\* retire and burn: the issuer takes q from owner and from the supply.
LEMMA DestroyStep ==
    ASSUME IInv, NEW owner \in Account, NEW q \in Asset,
           Usable(q), CanSub(accounts, owner, q),
           nstats' = SubSupply(q),
           accounts' = sub_balance(accounts, owner, q),
           UNCHANGED notaries
    PROVE  RowsKept /\ IInv'
<1> DEFINE id == q.symbol.id
<1> USE DEF IInv, TypeOK, Backed
<1>1. /\ Created(id) /\ Genuine(q.symbol) /\ q.amount \in Int /\ q.amount > 0
      /\ Stat(id).supply \in Int /\ Stat(id).maxSupply \in Int
  BY UsableRow
<1>2. Stat(id).supply <= Stat(id).maxSupply
  BY <1>1 DEF SupplyAtMostMax, Created, Stat
<1>3. /\ Stat(id).supply - q.amount <= Stat(id).maxSupply
      /\ Stat(id).supply - q.amount \in Int
  BY <1>1, <1>2
<1>4. nstats' = [nstats EXCEPT ![StatKey(id)].supply = Stat(id).supply - q.amount]
  BY DEF SubSupply, Stat
<1>5. RowsKept /\ StatTable(nstats)' /\ SupplyAtMostMax'
  BY <1>1, <1>3, <1>4, SupplyChange
<1>6. AcctTable(accounts')
  BY SubBalance
<1>7. BackedTable(accounts')
  BY <1>1, SubBacked
<1> QED
  BY <1>5, <1>6, <1>7, Reassemble

\* transfer and rebind: q goes from one account to another, or to itself.
LEMMA MoveStep ==
    ASSUME IInv, NEW from \in Account, NEW to \in Account, NEW q \in Asset,
           CanSub(accounts, from, q), q.amount > 0,
           accounts' = add_balance(sub_balance(accounts, from, q), to, q),
           UNCHANGED <<nstats, notaries>>
    PROVE  RowsKept /\ IInv'
<1> USE DEF IInv, TypeOK, Backed
<1> DEFINE mid == sub_balance(accounts, from, q)
<1>1. AcctTable(mid)
  BY SubBalance
<1>2. Genuine(q.symbol) /\ BackedTable(mid)
  BY SubBacked
<1>3. AcctTable(accounts')
  BY <1>1, AddBalance
<1>4. BackedTable(accounts')
  BY <1>1, <1>2, AddBacked
<1>5. RowsKept /\ StatTable(nstats)' /\ SupplyAtMostMax'
  BY StatsUnchanged
<1> QED
  BY <1>3, <1>4, <1>5, Reassemble

LEMMA UriStep ==
    ASSUME IInv, NEW id \in Id, NEW u \in Uri, settokenuri(id, u)
    PROVE  RowsKept /\ IInv'
<1> DEFINE row == [Stat(id) EXCEPT !.uri = u]
<1> USE DEF IInv, TypeOK, Backed
<1>1. Created(id) /\ UNCHANGED <<accounts, notaries>>
  BY DEF settokenuri
<1>2. Stat(id) \in StatRow
  BY <1>1 DEF StatTable, Stat, Created
<1>3. nstats' = [nstats EXCEPT ![StatKey(id)] = row]
  BY DEF settokenuri, Stat
<1>4. /\ row \in StatRow
      /\ row.symbol = Stat(id).symbol /\ row.issuer = Stat(id).issuer
      /\ row.supply = Stat(id).supply /\ row.maxSupply = Stat(id).maxSupply
  BY <1>2 DEF StatRow
<1> HIDE DEF row
<1>5. RowsKept /\ StatTable(nstats)' /\ SupplyAtMostMax'
  BY <1>1, <1>3, <1>4, FieldChange
<1> QED
  BY <1>1, <1>5, Reassemble

LEMMA NotarizeStep ==
    ASSUME IInv, NEW n \in Notary, NEW id \in Id, notarize(n, id)
    PROVE  RowsKept /\ IInv'
<1> DEFINE row == [Stat(id) EXCEPT !.notary = n]
<1> USE DEF IInv, TypeOK, Backed
<1>1. Created(id) /\ UNCHANGED <<accounts, notaries>>
  BY DEF notarize
<1>2. Stat(id) \in StatRow
  BY <1>1 DEF StatTable, Stat, Created
<1>3. nstats' = [nstats EXCEPT ![StatKey(id)] = row]
  BY DEF notarize, Stat
<1>4. /\ row \in StatRow
      /\ row.symbol = Stat(id).symbol /\ row.issuer = Stat(id).issuer
      /\ row.supply = Stat(id).supply /\ row.maxSupply = Stat(id).maxSupply
  BY <1>2 DEF StatRow
<1> HIDE DEF row
<1>5. RowsKept /\ StatTable(nstats)' /\ SupplyAtMostMax'
  BY <1>1, <1>3, <1>4, FieldChange
<1> QED
  BY <1>1, <1>5, Reassemble

\* setacctperms changes no holding: a new row holds nothing.
LEMMA PermsStep ==
    ASSUME IInv, NEW i \in Account, NEW to \in Account, NEW s \in AnySymbol,
           NEW snd \in BOOLEAN, NEW rcv \in BOOLEAN,
           setacctperms(i, to, s, snd, rcv)
    PROVE  RowsKept /\ IInv'
<1> USE DEF IInv, TypeOK, Backed
<1> DEFINE key == AcctKey(to, s)
           old == IF HasRow(accounts, to, s) THEN accounts[key]
                  ELSE NewRow([symbol |-> s, amount |-> 0])
           row == [old EXCEPT !.allowSend = snd, !.allowRecv = rcv]
<1>1. accounts' = Put(accounts, key, row) /\ UNCHANGED <<nstats, notaries>>
  BY DEF setacctperms
<1>2. /\ old \in AcctRow /\ old.symbol = s
      /\ old.amount # 0 => /\ old.amount > 0 /\ Genuine(old.symbol)
  <2>1. CASE HasRow(accounts, to, s)
    <3>1. key \in DOMAIN accounts /\ old = accounts[key]
      BY <2>1 DEF HasRow
    <3>2. old.symbol = s
      BY <3>1, KeyedBySymbol
    <3> QED
      BY <3>1, <3>2 DEF AcctTable, BackedTable
  <2>2. CASE ~HasRow(accounts, to, s)
    BY <2>2 DEF NewRow, AcctRow
  <2> QED
    BY <2>1, <2>2
<1> HIDE DEF old
<1>3. row \in AcctRow /\ row.symbol = s /\ row.amount = old.amount
  BY <1>2 DEF AcctRow
<1> HIDE DEF row
<1>4. /\ DOMAIN accounts' = DOMAIN accounts \cup {key}
      /\ accounts'[key] = row
      /\ \A k \in DOMAIN accounts \ {key} : accounts'[k] = accounts[k]
  BY <1>1 DEF Put
<1> DEFINE after == accounts'
<1>5. /\ DOMAIN after = DOMAIN accounts \cup {key}
      /\ after[key] = row
      /\ \A k \in DOMAIN accounts \ {key} : after[k] = accounts[k]
  BY <1>4
<1> HIDE DEF after
<1>6. AcctTable(after)
  BY <1>3, <1>5 DEF AcctTable
<1> HIDE DEF key
<1>7. BackedTable(after)
  BY <1>2, <1>3, <1>5 DEF BackedTable
<1>8. RowsKept /\ StatTable(nstats)' /\ SupplyAtMostMax'
  BY <1>1, StatsUnchanged
<1> QED
  BY <1>1, <1>6, <1>7, <1>8, Reassemble DEF after

LEMMA StutterStep ==
    ASSUME IInv, notaries' \subseteq Notary, UNCHANGED <<nstats, accounts>>
    PROVE  RowsKept /\ IInv'
<1> USE DEF IInv, TypeOK, Backed
<1>1. RowsKept /\ StatTable(nstats)' /\ SupplyAtMostMax'
  BY StatsUnchanged
<1> QED
  BY <1>1, Reassemble

\* reclaim never changes anything: the row it needs is not there.
LEMMA ReclaimAborts ==
    ASSUME TypeOK, NEW a \in Account, NEW s \in AnySymbol, reclaim(a, s)
    PROVE  UNCHANGED ntokenVars
BY ReclaimKeyUnused DEF reclaim, TypeOK

LEMMA NextStep ==
    ASSUME IInv, [Next]_ntokenVars
    PROVE  RowsKept /\ IInv'
<1> USE DEF IInv
<1>1. ASSUME NEW i \in Issuer, NEW max \in Amount, NEW s \in Symbol,
             NEW u \in Uri, create(i, max, s, u)
      PROVE  RowsKept /\ IInv'
  BY <1>1, CreateStep
<1>2. ASSUME NEW i \in Account, NEW q \in Assets, issue(i, q)
      PROVE  RowsKept /\ IInv'
  BY <1>2, IssueStep, AssetsAreAssets
<1>3. ASSUME NEW i \in Account, NEW q \in Assets, retire(i, q)
      PROVE  RowsKept /\ IInv'
  BY <1>3, DestroyStep, AssetsAreAssets DEF retire
<1>4. ASSUME NEW i \in Account, NEW a \in Account, NEW q \in Assets,
             burn(i, a, q)
      PROVE  RowsKept /\ IInv'
  BY <1>4, DestroyStep, AssetsAreAssets DEF burn
<1>5. ASSUME NEW i \in Account, NEW a \in Account, NEW s \in Symbol,
             NEW snd \in BOOLEAN, NEW rcv \in BOOLEAN,
             setacctperms(i, a, s, snd, rcv)
      PROVE  RowsKept /\ IInv'
  BY <1>5, PermsStep, SymbolAssumption DEF AnySymbol
<1>6. ASSUME NEW n \in Notary, NEW add \in BOOLEAN, setnotary(n, add)
      PROVE  RowsKept /\ IInv'
  BY <1>6, StutterStep DEF setnotary, TypeOK
<1>7. ASSUME NEW id \in Id, NEW u \in Uri, settokenuri(id, u)
      PROVE  RowsKept /\ IInv'
  BY <1>7, UriStep
<1>8. ASSUME NEW n \in Notary, NEW id \in Id, notarize(n, id)
      PROVE  RowsKept /\ IInv'
  BY <1>8, NotarizeStep
<1>9. ASSUME NEW a \in Account, NEW s \in Symbol, reclaim(a, s)
      PROVE  RowsKept /\ IInv'
  <2>1. UNCHANGED ntokenVars
    BY <1>9, ReclaimAborts, SymbolAssumption DEF AnySymbol
  <2> QED
    BY <2>1, StutterStep DEF ntokenVars, TypeOK
<1>10. ASSUME NEW a \in Account, NEW b \in Account, NEW s \in Symbol,
              rebind(a, b, [symbol |-> s, amount |-> 1])
       PROVE  RowsKept /\ IInv'
  <2> DEFINE q == [symbol |-> s, amount |-> 1]
  <2>1. q \in Asset /\ q.amount > 0
    BY SymbolAssumption DEF Asset, AnySymbol
  <2> HIDE DEF q
  <2>2. rebind(a, b, q)
    BY <1>10 DEF q
  <2> QED
    BY <2>1, <2>2, MoveStep DEF rebind
<1>11. ASSUME NEW a \in Account, NEW b \in Account, NEW q \in Assets,
              transfer(a, b, q)
       PROVE  RowsKept /\ IInv'
  BY <1>11, MoveStep, AssetsAreAssets DEF transfer, Usable
<1>12. CASE UNCHANGED ntokenVars
  BY <1>12, StutterStep DEF ntokenVars, TypeOK
<1> QED
  BY <1>1, <1>2, <1>3, <1>4, <1>5, <1>6, <1>7, <1>8, <1>9, <1>10, <1>11,
     <1>12 DEF Next, IssuerNext, AdminNext, RebindNext, HolderNext

-----------------------------------------------------------------------------
(* What an action does to the holdings and the supplies of one token *)

LEMMA HoldingIsInt ==
    ASSUME NEW acnts, AcctTable(acnts), NEW a \in Account, NEW s \in AnySymbol
    PROVE  Holding(acnts, a, s) \in Int
BY DEF AcctTable, AcctRow, Holding, HasRow

LEMMA HoldingAfterSub ==
    ASSUME NEW acnts, AcctTable(acnts), NEW owner \in Account, NEW q \in Asset,
           CanSub(acnts, owner, q), NEW a \in Account, NEW s \in AnySymbol
    PROVE  Holding(sub_balance(acnts, owner, q), a, s)
               = IF a = owner /\ s = q.symbol
                 THEN Holding(acnts, a, s) - q.amount
                 ELSE Holding(acnts, a, s)
<1> DEFINE after == sub_balance(acnts, owner, q)
<1>1. /\ DOMAIN after = DOMAIN acnts
      /\ \A k \in DOMAIN acnts :
             after[k].amount = IF k = AcctKey(owner, q.symbol)
                               THEN acnts[k].amount - q.amount
                               ELSE acnts[k].amount
  BY SubBalance
<1>2. AcctKey(owner, q.symbol) \in DOMAIN acnts /\ q.symbol \in AnySymbol
  BY DEF CanSub, HasRow, Asset
<1>3. AcctKey(a, s) = AcctKey(owner, q.symbol) <=> a = owner /\ s = q.symbol
  BY <1>2, AcctKeyInjective
<1> HIDE DEF after
<1>4. Holding(after, a, s) = IF a = owner /\ s = q.symbol
                             THEN Holding(acnts, a, s) - q.amount
                             ELSE Holding(acnts, a, s)
  BY <1>1, <1>2, <1>3 DEF Holding, HasRow
<1> QED
  BY <1>4 DEF after

LEMMA HoldingAfterAdd ==
    ASSUME NEW acnts, AcctTable(acnts), NEW owner \in Account, NEW q \in Asset,
           NEW a \in Account, NEW s \in AnySymbol
    PROVE  Holding(add_balance(acnts, owner, q), a, s)
               = IF a = owner /\ s = q.symbol
                 THEN Holding(acnts, a, s) + q.amount
                 ELSE Holding(acnts, a, s)
<1> DEFINE after == add_balance(acnts, owner, q)
           key == AcctKey(owner, q.symbol)
<1>1. /\ DOMAIN after = DOMAIN acnts \cup {key}
      /\ \A k \in DOMAIN acnts \ {key} : after[k] = acnts[k]
      /\ after[key].symbol = q.symbol
      /\ after[key].amount = Holding(acnts, owner, q.symbol) + q.amount
  BY AddBalance, Z3
<1>2. AcctKey(a, s) = key <=> a = owner /\ s = q.symbol
  BY AcctKeyInjective DEF Asset
<1> HIDE DEF after, key
<1>3. Holding(after, a, s) = IF a = owner /\ s = q.symbol
                             THEN Holding(acnts, a, s) + q.amount
                             ELSE Holding(acnts, a, s)
  BY <1>1, <1>2 DEF Holding, HasRow, key
<1> QED
  BY <1>3 DEF after

\* The supply of a token after the supply of the token of q changed by d.
LEMMA SupplyAfter ==
    ASSUME StatTable(nstats), NEW q \in Asset, Genuine(q.symbol), NEW d \in Int,
           nstats' = [nstats EXCEPT ![StatKey(q.symbol.id)].supply = @ + d],
           NEW s \in AnySymbol
    PROVE  /\ SupplyOf(s) \in Int
           /\ SupplyOf(s)' = IF s = q.symbol THEN SupplyOf(s) + d
                             ELSE SupplyOf(s)
<1> DEFINE key == StatKey(q.symbol.id)
<1>1. /\ key \in DOMAIN nstats /\ nstats[key] \in StatRow
      /\ nstats[key].symbol = q.symbol
  BY DEF Genuine, Created, Stat, StatTable
<1>2. /\ DOMAIN nstats' = DOMAIN nstats
      /\ \A k \in DOMAIN nstats \ {key} : nstats'[k] = nstats[k]
      /\ nstats'[key] = [nstats[key] EXCEPT !.supply = @ + d]
  BY <1>1
<1>3. /\ nstats'[key].symbol = q.symbol
      /\ nstats'[key].supply = nstats[key].supply + d
  BY <1>1, <1>2 DEF StatRow
<1>4. StatKey(s.id) = key <=> s.id = q.symbol.id
  BY DEF StatKey
<1>5. SupplyOf(s) \in Int
  BY DEF SupplyOf, StatTable, StatRow, Created, Stat
<1>6. CASE StatKey(s.id) = key
  <2>1. SupplyOf(s) = IF s = q.symbol THEN nstats[key].supply ELSE 0
    BY <1>1, <1>6 DEF SupplyOf, Created, Stat
  <2>2. SupplyOf(s)' = IF s = q.symbol THEN nstats'[key].supply ELSE 0
    BY <1>1, <1>2, <1>3, <1>6 DEF SupplyOf, Created, Stat, StatKey
  <2> QED
    BY <1>3, <1>5, <2>1, <2>2
<1>7. CASE StatKey(s.id) # key
  <2>1. s # q.symbol
    BY <1>4, <1>7
  <2>2. SupplyOf(s)' = SupplyOf(s)
    BY <1>2, <1>7 DEF SupplyOf, Created, Stat, StatKey
  <2> QED
    BY <1>5, <2>1, <2>2
<1> QED
  BY <1>6, <1>7

LEMMA BalanceNow ==
    ASSUME AcctTable(accounts), NEW a \in Account, NEW s \in AnySymbol
    PROVE  /\ BalanceOf(a, s) \in Int
           /\ BalanceOf(a, s) = Holding(accounts, a, s)
           /\ BalanceOf(a, s)' = Holding(accounts', a, s)
<1>1. BalanceOf(a, s)' = Holding(accounts', a, s)
  BY DEF BalanceOf, Holding, HasRow
<1>2. BalanceOf(a, s) = Holding(accounts, a, s)
  BY DEF BalanceOf
<1> QED
  BY <1>1, <1>2, HoldingIsInt

\* A step that changes neither holdings nor supplies.
LEMMA NothingMoves ==
    ASSUME AcctTable(accounts), NEW s \in AnySymbol,
           SupplyOf(s) \in Int, SupplyOf(s)' = SupplyOf(s),
           \A a \in Account : BalanceOf(a, s)' = BalanceOf(a, s)
    PROVE  MovesWhole(s)
<1> PICK a \in Account : TRUE
  BY AccountAssumption
<1>1. BalanceOf(a, s)' - BalanceOf(a, s) = SupplyOf(s)' - SupplyOf(s)
  BY BalanceNow
<1> QED
  BY <1>1 DEF MovesWhole

\* issue: the supply and one holding grow by q.
LEMMA IssueMoves ==
    ASSUME IInv, NEW i \in Account, NEW q \in Asset, issue(i, q),
           NEW s \in AnySymbol
    PROVE  /\ MovesWhole(s)
           /\ \A a \in Account : BalanceOf(a, s)' >= BalanceOf(a, s)
<1> USE DEF IInv, TypeOK
<1>1. Genuine(q.symbol) /\ q.amount \in Int /\ q.amount > 0
  BY UsableRow DEF issue
<1>2. /\ SupplyOf(s) \in Int
      /\ SupplyOf(s)' = IF s = q.symbol THEN SupplyOf(s) + q.amount
                        ELSE SupplyOf(s)
  BY <1>1, SupplyAfter DEF issue, AddSupply
<1>3. accounts' = add_balance(accounts, i, q)
  BY DEF issue
<1>4. \A a \in Account :
          /\ BalanceOf(a, s) \in Int
          /\ BalanceOf(a, s)' = IF a = i /\ s = q.symbol
                                THEN BalanceOf(a, s) + q.amount
                                ELSE BalanceOf(a, s)
  BY <1>3, BalanceNow, HoldingAfterAdd
<1>5. BalanceOf(i, s)' - BalanceOf(i, s) = SupplyOf(s)' - SupplyOf(s)
  BY <1>1, <1>2, <1>4
<1>6. \A a \in Account \ {i} : BalanceOf(a, s)' = BalanceOf(a, s)
  BY <1>4
<1>7. MovesWhole(s)
  BY <1>5, <1>6 DEF MovesWhole
<1>8. \A a \in Account : BalanceOf(a, s)' >= BalanceOf(a, s)
  BY <1>1, <1>4
<1> QED
  BY <1>7, <1>8

\* retire and burn: the supply and one holding shrink by q.
LEMMA DestroyMoves ==
    ASSUME IInv, NEW owner \in Account, NEW q \in Asset,
           Usable(q), CanSub(accounts, owner, q),
           nstats' = SubSupply(q),
           accounts' = sub_balance(accounts, owner, q),
           NEW s \in AnySymbol
    PROVE  /\ MovesWhole(s)
           /\ SupplyOf(s)' = IF s = q.symbol THEN SupplyOf(s) - q.amount
                             ELSE SupplyOf(s)
           /\ SupplyOf(s) \in Int
           /\ \A a \in Account :
                  BalanceOf(a, s)' = IF a = owner /\ s = q.symbol
                                     THEN BalanceOf(a, s) - q.amount
                                     ELSE BalanceOf(a, s)
<1> USE DEF IInv, TypeOK
<1>1. /\ Genuine(q.symbol) /\ q.amount \in Int
      /\ Stat(q.symbol.id).supply \in Int
  BY UsableRow
<1> DEFINE d == 0 - q.amount
<1>2. /\ d \in Int
      /\ Stat(q.symbol.id).supply - q.amount = Stat(q.symbol.id).supply + d
  BY <1>1
<1>3. nstats' = [nstats EXCEPT ![StatKey(q.symbol.id)].supply = @ + d]
  BY <1>2 DEF SubSupply, Stat
<1> HIDE DEF d
<1>4. /\ SupplyOf(s) \in Int
      /\ SupplyOf(s)' = IF s = q.symbol THEN SupplyOf(s) + d
                        ELSE SupplyOf(s)
  BY <1>1, <1>2, <1>3, SupplyAfter
<1> USE DEF d
<1>5. \A a \in Account :
          /\ BalanceOf(a, s) \in Int
          /\ BalanceOf(a, s)' = IF a = owner /\ s = q.symbol
                                THEN BalanceOf(a, s) - q.amount
                                ELSE BalanceOf(a, s)
  BY BalanceNow, HoldingAfterSub
<1>6. BalanceOf(owner, s)' - BalanceOf(owner, s) = SupplyOf(s)' - SupplyOf(s)
  BY <1>1, <1>4, <1>5
<1>7. \A a \in Account \ {owner} : BalanceOf(a, s)' = BalanceOf(a, s)
  BY <1>5
<1>8. MovesWhole(s)
  BY <1>6, <1>7 DEF MovesWhole
<1> QED
  BY <1>1, <1>4, <1>5, <1>8

LEMMA SupplyFixed ==
    ASSUME StatTable(nstats), UNCHANGED nstats, NEW s \in AnySymbol
    PROVE  SupplyOf(s) \in Int /\ SupplyOf(s)' = SupplyOf(s)
BY DEF SupplyOf, StatTable, StatRow, Created, Stat

\* transfer and rebind: what one account loses the other gains.
LEMMA MoveMoves ==
    ASSUME IInv, NEW from \in Account, NEW to \in Account, NEW q \in Asset,
           CanSub(accounts, from, q),
           accounts' = add_balance(sub_balance(accounts, from, q), to, q),
           UNCHANGED nstats, NEW s \in AnySymbol
    PROVE  /\ MovesWhole(s)
           /\ SupplyOf(s)' = SupplyOf(s)
           /\ \A a \in Account :
                  BalanceOf(a, s)' =
                      BalanceOf(a, s)
                      - (IF a = from /\ s = q.symbol THEN q.amount ELSE 0)
                      + (IF a = to /\ s = q.symbol THEN q.amount ELSE 0)
<1> USE DEF IInv, TypeOK
<1> DEFINE mid == sub_balance(accounts, from, q)
<1>1. q.amount \in Int
  BY DEF Asset
<1>2. AcctTable(mid)
  BY SubBalance
<1>3. SupplyOf(s) \in Int /\ SupplyOf(s)' = SupplyOf(s)
  BY SupplyFixed
<1>4. \A a \in Account :
          Holding(mid, a, s) = IF a = from /\ s = q.symbol
                               THEN BalanceOf(a, s) - q.amount
                               ELSE BalanceOf(a, s)
  BY BalanceNow, HoldingAfterSub
<1>5. \A a \in Account : BalanceOf(a, s) \in Int
  BY BalanceNow
<1>6. \A a \in Account :
          BalanceOf(a, s)' = IF a = to /\ s = q.symbol
                             THEN Holding(mid, a, s) + q.amount
                             ELSE Holding(mid, a, s)
  <2> HIDE DEF mid
  <2>1. \A a \in Account :
            Holding(add_balance(mid, to, q), a, s)
                = IF a = to /\ s = q.symbol
                  THEN Holding(mid, a, s) + q.amount
                  ELSE Holding(mid, a, s)
    BY <1>2, HoldingAfterAdd
  <2>2. accounts' = add_balance(mid, to, q)
    BY DEF mid
  <2> QED
    BY <2>1, <2>2, BalanceNow
<1>7. \A a \in Account :
          BalanceOf(a, s)' =
              BalanceOf(a, s)
              - (IF a = from /\ s = q.symbol THEN q.amount ELSE 0)
              + (IF a = to /\ s = q.symbol THEN q.amount ELSE 0)
  BY <1>1, <1>4, <1>5, <1>6
<1>8. MovesWhole(s)
  <2>1. CASE s # q.symbol \/ from = to
    <3>1. \A a \in Account : BalanceOf(a, s)' = BalanceOf(a, s)
      BY <1>1, <1>5, <1>7, <2>1
    <3> QED
      BY <1>3, <3>1, NothingMoves
  <2>2. CASE s = q.symbol /\ from # to
    <3>1. BalanceOf(from, s)' + BalanceOf(to, s)'
              = BalanceOf(from, s) + BalanceOf(to, s)
      BY <1>1, <1>5, <1>7, <2>2
    <3>2. \A c \in Account \ {from, to} : BalanceOf(c, s)' = BalanceOf(c, s)
      BY <1>5, <1>7
    <3> QED
      BY <1>3, <2>2, <3>1, <3>2 DEF MovesWhole
  <2> QED
    BY <2>1, <2>2
<1> QED
  BY <1>3, <1>7, <1>8

\* Rows of statistics that appear, or change in a field no supply reads.
LEMMA SupplyKeptByCreate ==
    ASSUME IInv, NEW i \in Issuer, NEW max \in Amount, NEW c \in Symbol,
           NEW u \in Uri, create(i, max, c, u), NEW s \in AnySymbol
    PROVE  SupplyOf(s) \in Int /\ SupplyOf(s)' = SupplyOf(s)
<1> DEFINE id == IF c.id # 0 THEN c.id ELSE AvailableKey
           row == [symbol |-> [c EXCEPT !.id = id], supply |-> 0,
                   maxSupply |-> max, uri |-> u,
                   issuer |-> i, notary |-> NoNotary]
<1>1. ~Created(id) /\ nstats' = Put(nstats, StatKey(id), row)
  BY DEF create
<1>2. row.supply = 0
  OBVIOUS
<1> HIDE DEF id, row
<1>3. /\ DOMAIN nstats' = DOMAIN nstats \cup {StatKey(id)}
      /\ nstats'[StatKey(id)] = row
      /\ \A k \in DOMAIN nstats : nstats'[k] = nstats[k]
  BY <1>1 DEF Put, Created
<1>4. SupplyOf(s) \in Int
  BY DEF IInv, TypeOK, SupplyOf, StatTable, StatRow, Created, Stat
<1>5. CASE StatKey(s.id) \in DOMAIN nstats
  BY <1>3, <1>4, <1>5 DEF SupplyOf, Created, Stat, StatKey
<1>6. CASE StatKey(s.id) \notin DOMAIN nstats
  BY <1>2, <1>3, <1>4, <1>6 DEF SupplyOf, Created, Stat, StatKey
<1> QED
  BY <1>5, <1>6

LEMMA SupplyKeptByField ==
    ASSUME StatTable(nstats), NEW id, Created(id), NEW row \in StatRow,
           row.symbol = Stat(id).symbol, row.supply = Stat(id).supply,
           nstats' = [nstats EXCEPT ![StatKey(id)] = row], NEW s \in AnySymbol
    PROVE  SupplyOf(s) \in Int /\ SupplyOf(s)' = SupplyOf(s)
<1>1. StatKey(id) \in DOMAIN nstats
  BY DEF Created
<1>2. /\ DOMAIN nstats' = DOMAIN nstats
      /\ \A k \in DOMAIN nstats : /\ nstats'[k].symbol = nstats[k].symbol
                                  /\ nstats'[k].supply = nstats[k].supply
  BY <1>1 DEF Stat
<1>3. SupplyOf(s) \in Int
  BY DEF SupplyOf, StatTable, StatRow, Created, Stat
<1> QED
  BY <1>2, <1>3 DEF SupplyOf, Created, Stat, StatKey

LEMMA PermsKeepHoldings ==
    ASSUME AcctTable(accounts), NEW i, NEW to \in Account, NEW c \in AnySymbol,
           NEW snd, NEW rcv, setacctperms(i, to, c, snd, rcv),
           NEW a \in Account, NEW s \in AnySymbol
    PROVE  BalanceOf(a, s)' = BalanceOf(a, s)
<1> DEFINE key == AcctKey(to, c)
           old == IF HasRow(accounts, to, c) THEN accounts[key]
                  ELSE NewRow([symbol |-> c, amount |-> 0])
           row == [old EXCEPT !.allowSend = snd, !.allowRecv = rcv]
<1>1. accounts' = Put(accounts, key, row)
  BY DEF setacctperms
<1>2. /\ old.amount = IF key \in DOMAIN accounts THEN accounts[key].amount ELSE 0
      /\ row.amount = old.amount
  BY DEF HasRow, NewRow, AcctTable, AcctRow
<1> HIDE DEF old, row
<1>3. /\ DOMAIN accounts' = DOMAIN accounts \cup {key}
      /\ accounts'[key] = row
      /\ \A k \in DOMAIN accounts \ {key} : accounts'[k] = accounts[k]
  BY <1>1 DEF Put
<1> HIDE DEF key
<1>4. Holding(accounts', a, s) = Holding(accounts, a, s)
  BY <1>2, <1>3 DEF Holding, HasRow
<1> QED
  BY <1>4, BalanceNow

\* What a step does to a token sym: nothing, or an issue, a destruction or a
\* move of it.  The actions that change holdings are told from the others.
LEMMA StepMoves ==
    ASSUME IInv, Next, NEW s \in AnySymbol
    PROVE  \/ /\ SupplyOf(s) \in Int /\ SupplyOf(s)' = SupplyOf(s)
              /\ \A a \in Account : BalanceOf(a, s)' = BalanceOf(a, s)
           \/ \E i \in Account, q \in Asset : issue(i, q)
           \/ \E i, a \in Account, q \in Asset : retire(i, q) \/ burn(i, a, q)
           \/ \E a, b \in Account, c \in Symbol :
                  c.parent = 0 /\ rebind(a, b, [symbol |-> c, amount |-> 1])
           \/ \E a, b \in Account, q \in Asset : transfer(a, b, q)
<1> USE DEF IInv, TypeOK
<1> DEFINE Still == /\ SupplyOf(s) \in Int /\ SupplyOf(s)' = SupplyOf(s)
                    /\ \A a \in Account : BalanceOf(a, s)' = BalanceOf(a, s)
<1>0. ASSUME UNCHANGED accounts, SupplyOf(s) \in Int, SupplyOf(s)' = SupplyOf(s)
      PROVE  Still
  BY <1>0 DEF BalanceOf, Holding, HasRow
<1>1. ASSUME NEW i \in Issuer, NEW max \in Amount, NEW c \in Symbol,
             NEW u \in Uri, create(i, max, c, u)
      PROVE  Still
  <2>1. SupplyOf(s) \in Int /\ SupplyOf(s)' = SupplyOf(s)
    BY <1>1, SupplyKeptByCreate
  <2>2. UNCHANGED accounts
    BY <1>1 DEF create
  <2> QED
    BY <1>0, <2>1, <2>2
<1>2. ASSUME NEW i \in Account, NEW a \in Account, NEW c \in Symbol,
             NEW snd \in BOOLEAN, NEW rcv \in BOOLEAN,
             setacctperms(i, a, c, snd, rcv)
      PROVE  Still
  <2>1. c \in AnySymbol
    BY SymbolAssumption DEF AnySymbol
  <2>2. UNCHANGED nstats
    BY <1>2 DEF setacctperms
  <2> QED
    BY <1>2, <2>1, <2>2, PermsKeepHoldings, SupplyFixed
<1>3. ASSUME UNCHANGED <<nstats, accounts>> PROVE Still
  BY <1>0, <1>3, SupplyFixed
<1>4. ASSUME NEW id \in Id, NEW u \in Uri, settokenuri(id, u) PROVE Still
  <2> DEFINE row == [Stat(id) EXCEPT !.uri = u]
  <2>1. Created(id) /\ UNCHANGED accounts
    BY <1>4 DEF settokenuri
  <2>2. Stat(id) \in StatRow
    BY <2>1 DEF StatTable, Stat, Created
  <2>3. nstats' = [nstats EXCEPT ![StatKey(id)] = row]
    BY <1>4 DEF settokenuri, Stat
  <2>4. /\ row \in StatRow /\ row.symbol = Stat(id).symbol
        /\ row.supply = Stat(id).supply
    BY <2>2 DEF StatRow
  <2> HIDE DEF row
  <2> QED
    BY <1>0, <2>1, <2>3, <2>4, SupplyKeptByField
<1>5. ASSUME NEW n \in Notary, NEW id \in Id, notarize(n, id) PROVE Still
  <2> DEFINE row == [Stat(id) EXCEPT !.notary = n]
  <2>1. Created(id) /\ UNCHANGED accounts
    BY <1>5 DEF notarize
  <2>2. Stat(id) \in StatRow
    BY <2>1 DEF StatTable, Stat, Created
  <2>3. nstats' = [nstats EXCEPT ![StatKey(id)] = row]
    BY <1>5 DEF notarize, Stat
  <2>4. /\ row \in StatRow /\ row.symbol = Stat(id).symbol
        /\ row.supply = Stat(id).supply
    BY <2>2 DEF StatRow
  <2> HIDE DEF row
  <2> QED
    BY <1>0, <2>1, <2>3, <2>4, SupplyKeptByField
<1>6. ASSUME NEW a \in Account, NEW c \in Symbol, reclaim(a, c) PROVE Still
  <2>1. UNCHANGED ntokenVars
    BY <1>6, ReclaimAborts, SymbolAssumption DEF AnySymbol
  <2> QED
    BY <1>3, <2>1 DEF ntokenVars
<1>7. ASSUME NEW n \in Notary, NEW add \in BOOLEAN, setnotary(n, add) PROVE Still
  BY <1>3, <1>7 DEF setnotary
<1> HIDE DEF Still
<1>8. CASE IssuerNext
  BY <1>1, <1>2, <1>8, AssetsAreAssets DEF IssuerNext, Still
<1>9. CASE AdminNext
  BY <1>4, <1>5, <1>6, <1>7, <1>9 DEF AdminNext, Still
<1>10. CASE HolderNext
  BY <1>10, AssetsAreAssets DEF HolderNext
<1>11. CASE RebindNext
  BY <1>11, Zenon DEF RebindNext
<1> QED
  BY <1>8, <1>9, <1>10, <1>11 DEF Next

-----------------------------------------------------------------------------
(* Permissions *)

\* The rows of a table keep their permissions in another, whose new rows have
\* none.
GrantsKept(old, new) ==
    /\ DOMAIN old \subseteq DOMAIN new
    /\ \A k \in DOMAIN old : /\ new[k].allowSend = old[k].allowSend
                             /\ new[k].allowRecv = old[k].allowRecv
    /\ \A k \in DOMAIN new \ DOMAIN old : /\ new[k].allowSend = FALSE
                                          /\ new[k].allowRecv = FALSE

LEMMA SubKeepsGrants ==
    ASSUME NEW acnts, AcctTable(acnts), NEW owner \in Account, NEW q \in Asset,
           CanSub(acnts, owner, q)
    PROVE  /\ GrantsKept(acnts, sub_balance(acnts, owner, q))
           /\ DOMAIN sub_balance(acnts, owner, q) = DOMAIN acnts
BY DEF GrantsKept, sub_balance, CanSub, HasRow, AcctTable, AcctRow

LEMMA AddKeepsGrants ==
    ASSUME NEW acnts, AcctTable(acnts), NEW owner \in Account, NEW q \in Asset
    PROVE  GrantsKept(acnts, add_balance(acnts, owner, q))
<1> DEFINE key == AcctKey(owner, q.symbol)
<1>1. CASE key \in DOMAIN acnts
  BY <1>1 DEF GrantsKept, add_balance, HasRow, AcctTable, AcctRow
<1>2. CASE key \notin DOMAIN acnts
  BY <1>2 DEF GrantsKept, add_balance, HasRow, Put, NewRow
<1> QED
  BY <1>1, <1>2

LEMMA MoveKeepsGrants ==
    ASSUME NEW acnts, AcctTable(acnts), NEW from \in Account,
           NEW to \in Account, NEW q \in Asset, CanSub(acnts, from, q)
    PROVE  GrantsKept(acnts, add_balance(sub_balance(acnts, from, q), to, q))
<1> DEFINE mid == sub_balance(acnts, from, q)
<1>1. GrantsKept(acnts, mid) /\ DOMAIN mid = DOMAIN acnts
  BY SubKeepsGrants
<1>2. AcctTable(mid)
  BY SubBalance
<1> HIDE DEF mid
<1>3. GrantsKept(mid, add_balance(mid, to, q))
  BY <1>2, AddKeepsGrants
<1>4. GrantsKept(acnts, add_balance(mid, to, q))
  BY <1>1, <1>3 DEF GrantsKept
<1> QED
  BY <1>4 DEF mid

\* Permissions are read off the table.
LEMMA GrantsNow ==
    ASSUME AcctTable(accounts), GrantsKept(accounts, accounts'),
           NEW a \in Account, NEW s \in AnySymbol
    PROVE  /\ AllowSend(a, s)' <=> AllowSend(a, s)
           /\ AllowRecv(a, s)' <=> AllowRecv(a, s)
<1> DEFINE key == AcctKey(a, s)
<1>1. CASE key \in DOMAIN accounts
  BY <1>1 DEF GrantsKept, AllowSend, AllowRecv, HasRow
<1>2. CASE key \notin DOMAIN accounts
  BY <1>2 DEF GrantsKept, AllowSend, AllowRecv, HasRow
<1> QED
  BY <1>1, <1>2

-----------------------------------------------------------------------------
(* The theorems *)

LEMMA InitInv == Init => IInv
BY DEF Init, IInv, TypeOK, StatTable, AcctTable, SupplyAtMostMax, Backed,
       BackedTable, EmptyTable

LEMMA Invariance == Spec => []IInv
<1>1. IInv /\ [Next]_ntokenVars => IInv'
  BY NextStep
<1> QED
  BY InitInv, <1>1, PTL DEF Spec

\* Every row is where the code puts it and holds values of its types.
THEOREM TypeCorrect == Spec => []TypeOK
<1>1. IInv => TypeOK
  BY DEF IInv
<1> QED
  BY Invariance, <1>1, PTL

\* The supply of no token exceeds the maximum it was created with.
THEOREM SupplyBounded == Spec => []SupplyAtMostMax
<1>1. IInv => SupplyAtMostMax
  BY DEF IInv
<1> QED
  BY Invariance, <1>1, PTL

\* Nobody holds a token that create did not make, or a negative amount.
THEOREM BalancesBacked == Spec => []Backed
<1>1. IInv => Backed
  BY DEF IInv
<1> QED
  BY Invariance, <1>1, PTL

\* A token's symbol, issuer and maximum are fixed when it is created.
THEOREM TokensFixed == Spec => [][RowsKept]_ntokenVars
<1>1. IInv /\ [Next]_ntokenVars => [RowsKept]_ntokenVars
  BY NextStep
<1> QED
  BY Invariance, <1>1, PTL DEF Spec

\* reclaim never takes a DID back: whatever the state, its transaction aborts.
THEOREM ReclaimNeverSucceeds ==
    Spec => [][\A a \in Account, s \in AnySymbol :
                   reclaim(a, s) => UNCHANGED ntokenVars]_ntokenVars
<1>1. IInv => \A a \in Account, s \in AnySymbol :
                  reclaim(a, s) => UNCHANGED ntokenVars
  BY ReclaimAborts DEF IInv
<1> QED
  BY Invariance, <1>1, PTL DEF Spec

\* Every step moves every token as a whole.
LEMMA StepConserves == ASSUME IInv, Next, NEW s \in AnySymbol PROVE MovesWhole(s)
<1> USE DEF IInv, TypeOK
<1>1. CASE /\ SupplyOf(s) \in Int /\ SupplyOf(s)' = SupplyOf(s)
           /\ \A a \in Account : BalanceOf(a, s)' = BalanceOf(a, s)
  BY <1>1, NothingMoves
<1>2. ASSUME NEW i \in Account, NEW q \in Asset, issue(i, q)
      PROVE  MovesWhole(s)
  BY <1>2, IssueMoves
<1>3. ASSUME NEW i \in Account, NEW a \in Account, NEW q \in Asset,
             retire(i, q) \/ burn(i, a, q)
      PROVE  MovesWhole(s)
  BY <1>3, DestroyMoves DEF retire, burn
<1>4. ASSUME NEW a \in Account, NEW b \in Account, NEW c \in Symbol,
             rebind(a, b, [symbol |-> c, amount |-> 1])
      PROVE  MovesWhole(s)
  <2> DEFINE q == [symbol |-> c, amount |-> 1]
  <2>1. q \in Asset
    BY SymbolAssumption DEF Asset, AnySymbol
  <2> HIDE DEF q
  <2>2. rebind(a, b, q)
    BY <1>4 DEF q
  <2> QED
    BY <2>1, <2>2, MoveMoves DEF rebind
<1>5. ASSUME NEW a \in Account, NEW b \in Account, NEW q \in Asset,
             transfer(a, b, q)
      PROVE  MovesWhole(s)
  BY <1>5, MoveMoves DEF transfer
<1> QED
  BY <1>1, <1>2, <1>3, <1>4, <1>5, StepMoves

\* Every step conserves every token.
THEOREM TokensConserved == Spec => Conservation
<1> DEFINE AllWhole == \A s \in AnySymbol : MovesWhole(s)
<1>1. IInv /\ [Next]_ntokenVars => [AllWhole]_ntokenVars
  BY StepConserves
<1> QED
  BY Invariance, <1>1, PTL DEF Spec, Conservation

\* Moving a token as a whole keeps its balances adding up to its supply.
LEMMA WholeMovesSum ==
    ASSUME AcctTable(accounts), AcctTable(accounts'), NEW s \in AnySymbol,
           MovesWhole(s), SupplyOf(s) \in Int, SupplyOf(s)' \in Int,
           NEW f, f = [a \in Account |-> BalanceOf(a, s)],
           NEW g, g = [a \in Account |-> BalanceOf(a, s)'],
           SupplyOf(s) = SumFunctionOnSet(f, Account)
    PROVE  SupplyOf(s)' = SumFunctionOnSet(g, Account)
<1> DEFINE Total(h) == SumFunctionOnSet(h, Account)
<1>1. (\A a \in Account : f[a] \in Int /\ g[a] \in Int) /\ IsFiniteSet(Account)
  <2>1. ASSUME NEW a \in Account PROVE f[a] \in Int /\ g[a] \in Int
    <3>1. f[a] = Holding(accounts, a, s) /\ g[a] = Holding(accounts', a, s)
      BY BalanceNow
    <3> QED
      BY <3>1, HoldingIsInt
  <2> QED
    BY <2>1, AccountAssumption
\* One account changes.
<1>2. ASSUME NEW h, \A a \in Account : h[a] \in Int,
             NEW k, \A a \in Account : k[a] \in Int, NEW x \in Account,
             \A a \in Account \ {x} : k[a] = h[a]
      PROVE  Total(h) \in Int /\ Total(k) = Total(h) + k[x] - h[x]
  <2>1. Total(h) \in Int /\ Total(k) \in Int
    BY <1>1, <1>2, SumIsInt
  <2>2. Total(k) - Summand(k, Account, x) = Total(h) - Summand(h, Account, x)
    BY <1>1, <1>2, SumMoves
  <2>3. Summand(k, Account, x) = k[x] /\ Summand(h, Account, x) = h[x]
    BY DEF Summand
  <2>4. k[x] \in Int /\ h[x] \in Int
    BY <1>2
  <2> HIDE DEF Total
  <2> QED
    BY <2>1, <2>2, <2>3, <2>4
<1> HIDE DEF Total
<1>3. CASE \E a \in Account :
              /\ g[a] - f[a] = SupplyOf(s)' - SupplyOf(s)
              /\ \A b \in Account \ {a} : g[b] = f[b]
  <2> PICK a \in Account : /\ g[a] - f[a] = SupplyOf(s)' - SupplyOf(s)
                           /\ \A b \in Account \ {a} : g[b] = f[b]
    BY <1>3
  <2>1. Total(g) = Total(f) + g[a] - f[a] /\ g[a] \in Int /\ f[a] \in Int
    BY <1>1, <1>2
  <2> QED
    BY <2>1 DEF Total
<1>4. CASE \E a, b \in Account :
              /\ a # b /\ g[a] + g[b] = f[a] + f[b]
              /\ SupplyOf(s)' = SupplyOf(s)
              /\ \A c \in Account \ {a, b} : g[c] = f[c]
  <2> PICK a \in Account, b \in Account :
              /\ a # b /\ g[a] + g[b] = f[a] + f[b]
              /\ SupplyOf(s)' = SupplyOf(s)
              /\ \A c \in Account \ {a, b} : g[c] = f[c]
    BY <1>4
  <2> DEFINE h == [f EXCEPT ![a] = g[a]]
  <2>1. /\ \A c \in Account : h[c] \in Int
        /\ h[a] = g[a] /\ h[b] = f[b]
        /\ \A c \in Account \ {a} : h[c] = f[c]
        /\ \A c \in Account \ {b} : g[c] = h[c]
    BY <1>1
  <2> HIDE DEF h
  <2>2. Total(h) = Total(f) + h[a] - f[a] /\ Total(f) \in Int
    BY <1>1, <1>2, <2>1
  <2>3. Total(g) = Total(h) + g[b] - h[b] /\ Total(h) \in Int
    BY <1>1, <1>2, <2>1
  <2>4. g[a] \in Int /\ g[b] \in Int /\ f[a] \in Int /\ f[b] \in Int
    BY <1>1
  <2>5. Total(h) = Total(f) + g[a] - f[a] /\ Total(g) = Total(h) + g[b] - f[b]
    BY <2>1, <2>2, <2>3
  <2>6. Total(g) = Total(f)
    <3> DEFINE ga == g[a]
               gb == g[b]
               fa == f[a]
               fb == f[b]
    <3>1. ga \in Int /\ gb \in Int /\ fa \in Int /\ fb \in Int /\ ga + gb = fa + fb
      BY <2>4
    <3>2. Total(h) = Total(f) + ga - fa /\ Total(g) = Total(h) + gb - fb
      BY <2>5
    <3> HIDE DEF ga, gb, fa, fb
    <3> QED
      BY <2>2, <2>3, <3>1, <3>2
  <2> QED
    BY <2>6 DEF Total
<1> QED
  BY <1>3, <1>4 DEF MovesWhole

\* The balances of a token add up to its supply, however many accounts there
\* are (did.ntoken.cpp:95-99, 119-123, 143-154, 215-216, 227-228).
THEOREM SupplyInAccounts == Spec => []SupplyIsSum
<1>1. Init => SupplyIsSum
  <2> SUFFICES ASSUME Init, NEW s \in AnySymbol
               PROVE  SupplyOf(s) =
                          SumFunctionOnSet([a \in Account |-> BalanceOf(a, s)], Account)
    BY DEF SupplyIsSum
  <2> DEFINE f == [a \in Account |-> BalanceOf(a, s)]
             zero == {0}
  <2>1. SupplyOf(s) = 0 /\ \A a \in Account : f[a] \in zero
    BY DEF Init, EmptyTable, SupplyOf, Created, BalanceOf, Holding, HasRow
  <2>2. 0 \in zero /\ \A i, j \in zero : i + j \in zero
    OBVIOUS
  <2> HIDE DEF f, zero
  <2>3. SumFunctionOnSet(f, Account) \in zero
    BY <2>1, <2>2, SumStaysIn, AccountAssumption
  <2> QED
    BY <2>1, <2>3 DEF f, zero
<1>2. ASSUME IInv, SupplyIsSum, [Next]_ntokenVars PROVE SupplyIsSum'
  <2>1. IInv'
    BY <1>2, NextStep
  <2>2. CASE UNCHANGED ntokenVars
    BY <1>2, <2>2 DEF ntokenVars, SupplyIsSum, SupplyOf, BalanceOf, Holding,
                      HasRow, Created, Stat
  <2>3. ASSUME Next, NEW s \in AnySymbol
        PROVE  SupplyOf(s)' =
                   SumFunctionOnSet([a \in Account |-> BalanceOf(a, s)'], Account)
    <3> DEFINE f == [a \in Account |-> BalanceOf(a, s)]
               g == [a \in Account |-> BalanceOf(a, s)']
    <3>1. SupplyOf(s) \in Int /\ SupplyOf(s)' \in Int
      BY <1>2, <2>1 DEF IInv, TypeOK, StatTable, StatRow, SupplyOf, Created, Stat
    <3>2. SupplyOf(s) = SumFunctionOnSet(f, Account)
      BY <1>2 DEF SupplyIsSum
    <3>3. AcctTable(accounts) /\ AcctTable(accounts') /\ MovesWhole(s)
      BY <1>2, <2>1, <2>3, StepConserves DEF IInv, TypeOK
    <3>4. f = [a \in Account |-> BalanceOf(a, s)]
          /\ g = [a \in Account |-> BalanceOf(a, s)']
      OBVIOUS
    <3> HIDE DEF f, g
    <3>5. SupplyOf(s)' = SumFunctionOnSet(g, Account)
      BY <3>1, <3>2, <3>3, <3>4, WholeMovesSum
    <3> QED
      BY <3>4, <3>5
  <2> QED
    BY <1>2, <2>2, <2>3 DEF SupplyIsSum
<1>3. IInv /\ SupplyIsSum /\ [Next]_ntokenVars => SupplyIsSum'
  BY <1>2
<1> QED
  BY <1>1, <1>3, Invariance, PTL DEF Spec

\* What a holder who may not send loses of a token that has a parent is burnt
\* by the issuer or goes to an account that may receive it: did.admin rebinds no
\* such token (did.ntoken.cpp:207-209, 215-228, did.admin.cpp:32-46).
THEOREM HoldersBound == Spec => SoulBound
<1> DEFINE Bound ==
               \A a \in Account, s \in {accounts[k].symbol : k \in DOMAIN accounts} :
                   s.parent # 0 /\ ~AllowSend(a, s)
                   /\ BalanceOf(a, s)' < BalanceOf(a, s)
                       => BurnedOrReturned(a, s)
<1>1. ASSUME IInv, Next, NEW x \in Account, NEW s \in AnySymbol, s.parent # 0,
             BalanceOf(x, s)' < BalanceOf(x, s), ~AllowSend(x, s)
      PROVE  BurnedOrReturned(x, s)
  <2> USE <1>1 DEF IInv, TypeOK
  <2>1. \A a \in Account : BalanceOf(a, s) \in Int
    BY BalanceNow
  <2>2. CASE \A a \in Account : BalanceOf(a, s)' = BalanceOf(a, s)
    BY <2>1, <2>2
  <2>3. ASSUME NEW i \in Account, NEW q \in Asset, issue(i, q)
        PROVE  BurnedOrReturned(x, s)
    <3>1. BalanceOf(x, s)' >= BalanceOf(x, s)
      BY <2>3, IssueMoves
    <3>2. BalanceOf(x, s)' \in Int
      <4>1. accounts' = add_balance(accounts, i, q)
        BY <2>3 DEF issue
      <4> QED
        BY <2>1, <4>1, BalanceNow, HoldingAfterAdd DEF Asset
    <3> QED
      BY <2>1, <3>1, <3>2
  <2>4. ASSUME NEW i \in Account, NEW a \in Account, NEW q \in Asset,
               retire(i, q) \/ burn(i, a, q)
        PROVE  BurnedOrReturned(x, s)
    <3>1. Usable(q)
      BY <2>4 DEF retire, burn
    <3>2. PICK owner \in Account :
              /\ CanSub(accounts, owner, q)
              /\ nstats' = SubSupply(q)
              /\ accounts' = sub_balance(accounts, owner, q)
      BY <2>4 DEF retire, burn
    <3>3. /\ SupplyOf(s) \in Int
          /\ SupplyOf(s)' = IF s = q.symbol THEN SupplyOf(s) - q.amount
                            ELSE SupplyOf(s)
          /\ BalanceOf(x, s)' = IF x = owner /\ s = q.symbol
                                THEN BalanceOf(x, s) - q.amount
                                ELSE BalanceOf(x, s)
      BY <3>1, <3>2, DestroyMoves
    <3>4. q.amount \in Int /\ q.amount > 0
      BY <3>1, UsableRow
    <3>5. SupplyOf(s)' = SupplyOf(s) - (BalanceOf(x, s) - BalanceOf(x, s)')
      BY <2>1, <3>3, <3>4
    <3> QED
      BY <3>5 DEF BurnedOrReturned
  <2>5. ASSUME NEW a \in Account, NEW b \in Account, NEW c \in Symbol,
               c.parent = 0, rebind(a, b, [symbol |-> c, amount |-> 1])
        PROVE  BurnedOrReturned(x, s)
    <3> DEFINE q == [symbol |-> c, amount |-> 1]
    <3>1. q \in Asset /\ q.symbol = c /\ q.amount = 1
      BY SymbolAssumption DEF Asset, AnySymbol
    <3> HIDE DEF q
    <3>2. rebind(a, b, q)
      BY <2>5 DEF q
    <3>3. BalanceOf(x, s)' =
              BalanceOf(x, s)
              - (IF x = a /\ s = q.symbol THEN q.amount ELSE 0)
              + (IF x = b /\ s = q.symbol THEN q.amount ELSE 0)
      BY <3>1, <3>2, MoveMoves DEF rebind
    <3>4. x = a /\ s = c
      BY <2>1, <3>1, <3>3
    <3> QED
      BY <1>1, <2>5, <3>4
  <2>6. ASSUME NEW a \in Account, NEW b \in Account, NEW q \in Asset,
               transfer(a, b, q)
        PROVE  BurnedOrReturned(x, s)
    <3>1. \A y \in Account :
              BalanceOf(y, s)' =
                  BalanceOf(y, s)
                  - (IF y = a /\ s = q.symbol THEN q.amount ELSE 0)
                  + (IF y = b /\ s = q.symbol THEN q.amount ELSE 0)
      BY <2>6, MoveMoves DEF transfer
    <3>2. a # b /\ q.amount \in Int /\ q.amount > 0
      BY <2>6 DEF transfer, Usable, Asset
    <3>3. x = a /\ s = q.symbol
      BY <2>1, <3>1, <3>2
    <3>4. BalanceOf(b, s)' = BalanceOf(b, s) + (BalanceOf(x, s) - BalanceOf(x, s)')
      BY <2>1, <3>1, <3>2, <3>3
    <3>5. AllowRecv(b, s)
      BY <2>6, <3>3 DEF transfer, MayTransfer, AllowSend, AllowRecv, CanSub
    <3> QED
      BY <3>4, <3>5 DEF BurnedOrReturned
  <2> QED
    BY <2>2, <2>3, <2>4, <2>5, <2>6, StepMoves
<1>2. IInv => \A k \in DOMAIN accounts : accounts[k].symbol \in AnySymbol
  BY DEF IInv, TypeOK, AcctTable, AcctRow
<1>3. IInv /\ [Next]_ntokenVars => [Bound]_accounts
  BY <1>1, <1>2 DEF ntokenVars
<1> QED
  BY Invariance, <1>3, PTL DEF Spec, SoulBound

\* A step that grants or takes a permission moves no unit of any token, and a
\* step that moves one leaves every permission where it is.
THEOREM PermissionsOfAccounts == Spec => PermissionsStay
<1> DEFINE Granted == \E a \in Account, s \in AnySymbol :
                          \/ ~(AllowSend(a, s)' <=> AllowSend(a, s))
                          \/ ~(AllowRecv(a, s)' <=> AllowRecv(a, s))
           Still == \A b \in Account, r \in AnySymbol :
                        BalanceOf(b, r)' = BalanceOf(b, r)
<1>1. ASSUME IInv, Next, accounts' # accounts PROVE ~Granted \/ Still
  <2> USE <1>1 DEF IInv, TypeOK
  <2>1. ASSUME GrantsKept(accounts, accounts') PROVE ~Granted
    BY <2>1, GrantsNow
  <2> HIDE DEF Granted
  <2>2. ASSUME NEW i \in Account, NEW q \in Asset, issue(i, q)
        PROVE  ~Granted
    BY <2>1, <2>2, AddKeepsGrants DEF issue
  <2>3. ASSUME NEW i \in Account, NEW a \in Account, NEW q \in Asset,
               retire(i, q) \/ burn(i, a, q)
        PROVE  ~Granted
    <3>1. PICK owner \in Account :
              /\ CanSub(accounts, owner, q)
              /\ accounts' = sub_balance(accounts, owner, q)
      BY <2>3 DEF retire, burn
    <3> QED
      BY <2>1, <3>1, SubKeepsGrants
  <2>4. ASSUME NEW a \in Account, NEW b \in Account, NEW q \in Asset,
               rebind(a, b, q) \/ transfer(a, b, q)
        PROVE  ~Granted
    BY <2>1, <2>4, MoveKeepsGrants DEF rebind, transfer
  <2>5. ASSUME NEW a \in Account, NEW b \in Account, NEW c \in Symbol,
               rebind(a, b, [symbol |-> c, amount |-> 1])
        PROVE  ~Granted
    <3> DEFINE q == [symbol |-> c, amount |-> 1]
    <3>1. q \in Asset
      BY SymbolAssumption DEF Asset, AnySymbol
    <3> HIDE DEF q
    <3>2. rebind(a, b, q)
      BY <2>5 DEF q
    <3> QED
      BY <2>4, <3>1, <3>2
  <2>6. ASSUME NEW i \in Account, NEW a \in Account, NEW c \in Symbol,
               NEW snd, NEW rcv, setacctperms(i, a, c, snd, rcv)
        PROVE  Still
    <3>1. c \in AnySymbol
      BY SymbolAssumption DEF AnySymbol
    <3> QED
      BY <2>6, <3>1, PermsKeepHoldings
  <2> HIDE DEF Still
  <2>7. CASE IssuerNext
    BY <2>2, <2>3, <2>6, <2>7, AssetsAreAssets DEF IssuerNext, create
  <2>8. CASE AdminNext
    <3>1. ASSUME NEW a \in Account, NEW c \in Symbol, reclaim(a, c)
          PROVE  UNCHANGED accounts
      BY <3>1, ReclaimAborts, SymbolAssumption DEF AnySymbol, ntokenVars
    <3> QED
      BY <2>8, <3>1 DEF AdminNext, setnotary, settokenuri, notarize
  <2>9. CASE HolderNext
    BY <2>4, <2>9, AssetsAreAssets DEF HolderNext
  <2>10. CASE RebindNext
    BY <2>5, <2>10, Zenon DEF RebindNext
  <2> QED
    BY <2>7, <2>8, <2>9, <2>10 DEF Next
<1> DEFINE Body == \A a \in Account, s \in AnySymbol :
                       Permissions(a, s)' # Permissions(a, s) => Still
<1>2. IInv /\ [Next]_ntokenVars => [Body]_accounts
  <2> SUFFICES ASSUME IInv, [Next]_ntokenVars, accounts' # accounts,
                      NEW a \in Account, NEW s \in AnySymbol,
                      Permissions(a, s)' # Permissions(a, s)
               PROVE  Still
    OBVIOUS
  <2>1. Next
    BY DEF ntokenVars
  <2>2. Granted
    BY DEF Permissions, AllowSend, AllowRecv
  <2> QED
    BY <1>1, <2>1, <2>2
<1> QED
  BY Invariance, <1>2, PTL DEF Spec, PermissionsStay
=============================================================================
