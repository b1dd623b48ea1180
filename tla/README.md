# A verification project for did.contracts

did.contracts is a set of six AMAX (EOSIO) smart contracts that issue, deliver,
move and use *DID tokens*: one non-fungible unit that says its holder's
identity was verified. This directory models their C++ code in TLA+, checks the
models with TLC on small instances, and proves the core results for every
instance with TLAPS.

Paths below are relative to `src/contracts/` unless they start with `src/`.

## 1. The system

### Execution model

A contract only reacts. An *action* runs when somebody sends a transaction, and
a *notification handler* runs when a token contract tells it that it received a
transfer. A transaction, with all the inline actions and notifications it
causes, is executed atomically: one failed `check` anywhere undoes everything.
Transactions are totally ordered. In the models therefore:

- one transaction is one step; the conjuncts of an action that are not
  assignments are the checks of the code, and a failed check is no step;
- the inline actions a handler sends are conjuncts of the same step, including
  what the receiving contract checks (a transfer must be positive and covered);
- concurrency is the order in which transactions of different accounts arrive,
  which is not constrained at all: `Next` is the disjunction of every action with every
  argument in the bounds;
- no code in the repository makes a transaction happen. Fairness is therefore
  assumed of two kinds of steps only: time passes, and an action *any* account
  may call, and one account loses by not calling, is called sooner or later
  while it stays possible: `cancel` of did.redpack, which returns a sender's
  deposit, and `delorder` of did.recover, which clears the way for another
  claim. Both are weak fairness, and they are all the liveness properties
  (`NoDepositStays`, `NoOrderStaysUnverified`) rest on: administrators,
  submitters and receivers may stop at any point. nft.redpack has a `cancel` of
  the same kind and no such property, since its cancellation really can become
  impossible: it is refunded through a fee row that may be gone. Elsewhere an
  operation is shown to be *still possible* when it is needed: `RandomShareLeft`,
  `MeanShareLeft`, `ChargesCover` and `FeesCover` say that what is owed can be paid.

Time is the block time. Contracts that compare it (`did.recover`,
`did.redpack`, `nft.redpack`) have a variable `now` that `tick` advances in the
unit of the code's limits.

### Components

**did.ntoken**, the ledger (`did.ntoken/src/did.ntoken.cpp`).
*State*: table `tokenstats` (symbol, uri, issuer, notary, supply, maximum) in
the scope of the contract; table `accounts` (balance, allow_send, allow_recv) in the
scope of each owner; the set of notaries in `global`.
*Operations*: `create`, `settokenuri`, `setnotary`, `notarize`, `issue`,
`retire`, `burn`, `reclaim`, `transfer`, `setacctperms`, `rebind`.
*Hard*: two tables whose rows are written by different statements and must
agree over any sequence; scopes and keys that differ between the writer and the
reader; rows created with a zero balance; permissions that bind a token to its holder.
*Correct when*: supplies are the sums of the balances and below their maximum,
nothing appears or disappears, a balance is of a token that exists, and a DID
leaves a holder without permission in the allowed ways only.

**did.admin** (`did.admin/src/did.admin.cpp`). *State*: none but the payments it
collects. *Operations*: `onpaytransfer` (a payment whose memo names a DID and a
destination; forwards the payment, sends an inline `rebind` to the ledger);
`empty`, which always aborts. *Hard*: a 64-bit number from a memo cut to 32
bits. *Correct when*: a rebind moves one unit of the payer's own DID and is paid.

**amax.did** (`amax.did/src/amax.did.cpp`). *State*: tables `order`, `pending`,
`vendorinfo`, and `global` (admin, collector, DID symbol, last ids); the pooled
AMAX it was paid; and, in the ledger, its stock of DID tokens. *Operations*: `init`,
`setadmin`, `setcollector`, `ontransfer` (a payment that opens an order, or a refuel), `addvendor`, `chgvendor`,
`setdidstatus` (pending, approval, refusal), `auditlog`. *Hard*: an order is
opened at one price and settled at the current one; the vendor is found again
by a composite key at settlement; the stock, the applicant's balance and the pool
may have changed between the two; a reward is sent out of a lease with another contract, which may
be empty, low or closed. *Correct when*: an applicant has one open order, an order
finds exactly its vendor, pending marks are of open orders, the stock goes to paying applicants
only and the reward with it, and open orders can be settled out of what was paid.

**did.recover** (`did.recover/src/did.recover.cpp`). *State*: tables `orders`,
`auths`, and `global` (fee taker, last id); it reads the ledger's `accounts`. *Operations*: `init`,
`setauth`, `delauth`, the notified payment that files an order, `verifydid`, `assetrecast`,
`delorder`. *Hard*: a three-stage workflow with two independent statuses,
expiry, and authorities that change between the stages. *Correct when*: it
implements the recovery protocol of `Recovery.tla`, each stage passed by an
authority for that stage at that moment.

**did.redpack** (`did.redpack/src/redpack.cpp`). *State*: tables `redpacks`,
`claims`, `tokenlist`, the two `global` rows, and one pooled balance per token. *Operations*:
`on_transfer` (a payment that lists a token, or a deposit that opens a packet),
`claimredpack` (random or equal shares), `cancel`, `delclaims`, `init`, `setfee`,
`whitelist`, `deltoken`. *Hard*: all packets of a token share one balance; shares are random and
rounded and have a minimum; claims outlive packets. *Correct when*: it keeps
each packet apart (`Escrow.tla`), the receivers left can always be paid, and
every payment is recorded until its packet is gone.

**nft.redpack** (`nft.redpack/src/redpack.cpp`). *State*: tables `redpacks`,
`claims`, `fees`, `global`; the NFTs and fees it owns. *Operations*: `init`, `addfee`, `delfee`,
the fee payment and the NFT transfer that open and fund a packet,
`claimredpack`, `cancel`, `delredpacks`, `delclaims`. *Hard*: opening takes two
transfers that may be repeated, differ or never come; the refund depends on a
fee row that may have changed; clean-up deletes packets and claims in one
limited pass. *Correct when*: it owns what live packets hold, no unit goes
astray, refunds are covered, and a receiver is served once.

### How the components interact

```
  payer --AMAX--> did.admin --inline rebind-------> did.ntoken <--reads accounts-- did.recover
  applicant --AMAX--> amax.did --inline transfer--> did.ntoken
                      amax.did --inline allocate--> aplink.farm (external)
  sender --tokens--> did.redpack --inline transfer--> token contracts (external)
  sender --NFTs, fee--> nft.redpack --inline transfer--> NFT and token contracts (external)
```

`did.redpack` also reads the ledger's balances of DID symbols for packets that
are for DID holders. There are no callbacks other than transfer notifications,
and no deferred transactions.

**Helpers** (`utils.hpp`, `safe.hpp`; `did.admin`, `did.recover` and `amax.did` keep the same copies, `wasm_db.hpp` beside them).
*State*: the value of a `safe<T>`. *Operations*: its checked operators;
`asset_from_string`, which did.admin reads its price and its burn quantity
with; `to_uint64` of memos; `multiply` of nft.redpack's fee. *Hard*: each sign
case of a product has another bound; conversions between widths and signs that
no operator checks. *Correct when*: nothing is lost to a width, and nothing is
refused that fits.

## 2. Modules

| module | models | composed of |
| --- | --- | --- |
| `Table` | a multi-index table as a finite function: `Put`, `Drop`, `EmptyTable` | – |
| `DidNtoken` | did.ntoken | `Table` |
| `SumsProofs` | lemmas about sums over finite sets | `TLAPS` |
| `DidNtokenProofs` | its theorems | `DidNtoken`, `SumsProofs` |
| `DidAdmin` | did.admin, acting on the ledger | `DidNtoken` |
| `AmaxDid` | amax.did, acting on the ledger | `DidNtoken` |
| `DidSystem` | ledger + amax.did + did.admin, interleaved with issuer and holders | `AmaxDid`, `DidAdmin` |
| `DidSystemProofs` | its theorems, among them those about amax.did and did.admin | `DidSystem`, `DidNtokenProofs` |
| `Recovery` | abstract: the stages of a recovery claim | – |
| `DidRecover` | did.recover reading the ledger; implements `Recovery` | `DidNtoken`, `Recovery` |
| `DidRecoverProofs` | its theorems | `DidRecover`, `TLAPS` |
| `Escrow` | abstract: deposits kept apart in one vault | `Table` |
| `RedPack` | did.redpack; implements `Escrow` | `Table`, `Escrow` |
| `RedPackProofs` | its theorems | `RedPack`, `SumsProofs` |
| `NftRedPack` | nft.redpack | `Table` |
| `NftRedPackProofs` | its theorems | `NftRedPack`, `SumsProofs` |
| `SafeInt` | safe.hpp: checked integers of any width | – |
| `SafeIntProofs` | its theorems | `SafeInt`, `TLAPS` |
| `Amounts` | utils.hpp: prices read from texts, with checked integers | `SafeInt` |
| `AmountsProofs` | its theorems | `Amounts`, `SafeIntProofs`, `SumsProofs` |
| `MC*` | constants and symmetry for TLC | the module they name |

Actions carry the names of the contract's actions and handlers, tables the
names of the tables. Where a handler branches on an argument into different
operations, each branch is an action: `setdidstatus` of amax.did is `addpending`,
`approve` and `reject`, its `ontransfer` also `refuel`; `on_transfer` of did.redpack is `payfee`
and `deposit`. Operators named
`x_y` whose comment begins with *Fault* are faulty variants of `x`; no specification
uses them. They record, for every property, a plausible bug
that the property detects.

### State and actions against the code

- A table is a function from keys to rows, and its key is the code's primary
  key. In `DidNtoken` the key of `nstats` is the pair of *scope* and
  primary key, because the code uses more than one scope: `create` writes
  `(Self, id)` while `reclaim` looks for `(raw symbol, raw symbol)`. `Raw` is the 64-bit `raw()` of a
  symbol with `IdSpan` in the place of 2^32.
- `AnySymbol` of `DidNtoken` is wider than the symbols in use: actions are
  called with assets of any symbol, and the code often uses only its id.
- An id that `create` is not given is the highest id plus one, 0 on an empty
  table, as `available_primary_key()` returns it.
- `cancel` of `NftRedPack` has no expiry guard although the code has a check:
  the check reads a struct that is not loaded yet and always passes.
- `delclaims` of `RedPack` is a function over the rows in the order of the
  index, with the set of codes taken to be gone, as the loop computes it. That of `NftRedPack` chooses the places of the
  rows that can go and erases rows by place (`Without`), so that of two equal claims one can stay.
- Widths: the DID number of a rebind and the level of an order are cut modulo
  `IdSpan` and `KycSpan`, as the code cuts 64 bits to 32. `CalcFee` of
  `NftRedPack` checks a product as a `uint64` and returns it as the `int64` of an
  asset, with `FeeSpan` in the place of 2^64. `RedPack` stores a receiver count modulo `WordSpan`
(2^64) and reads it back as `Signed` where an operator of asset takes an `int64`; `SafeInt` and `Amounts` have `MaxT` for the largest value.
- `apples` of `AmaxDid` is `available_apples` of the contract's lease, the one
  thing the handler reads of the farm. `plant` is the farm's side. A reward the
  lease does not cover makes the farm abort, so the approval is no step.
- In `Amounts` a text is its sign, the number before the point, and the number and
  count of the digits after it. `exact` of `SafeInt` is a history variable: the integer the same operations give.
- Random numbers: `rand` of did.redpack multiplies twice the mean of what is
  left by a random factor, rounds down to `Unit`, and pays at least that. `Factors` is the set of
  factors the hash can give and a claim chooses one of the resulting shares.

### What is abstracted

Memo texts (an action's arguments are the parsed values), passwords (a wrong
one aborts), account existence (`is_account`), time stamps nothing reads back,
`ipowner` and `paused` of token statistics (written, never read), all of
aplink.farm but what the lease has left, token and NFT balances of accounts outside the
contracts, the fee did.recover forwards, the single-precision rounding
of the random factor. Bounds on unbounded counters are marked `\* bound` in the guards.

## 3. What is checked

Each passing run explores the complete state space of its instance, within the constraint `FewRows` in
`ntoken_catalog` and `Few` in `did_kyc`.

**`did_rebind`** – `MCDidRebind`, `DidRebind.cfg`. The ledger and did.admin.
`SupplyIsSum` and `SupplyAtMostMax` (supply against the balances of all
accounts and the maximum), `Conservation` (every step moves whole amounts: one
balance together with the supply, or two balances against each other),
`BoundUnlessPaid` (a holder without permission to send loses units only to a burn, to
an account allowed to receive, or one at a time while did.admin is paid), `PermissionsStay` (a step that changes a permission moves no unit: a rebind
does not carry the permissions along). *Bounds*: one symbol of an issuer and two
interchangeable holders, up to 3 units, two DID numbers one of which is cut to the other. Three
accounts and 3 units are the least with which a unit can be issued, returned,
rebound and burnt by different parties and a second one be in the way.

**`ntoken_catalog`** – `MCDidNtoken`, `NtokenCatalog.cfg`. `TypeOK` (scope and
key of every row), `Backed` (a positive balance is of a token that was
created with a valid symbol) and `SoulBound`: a token that has a parent leaves a holder
without the permission to send only to a burn or to an account allowed to receive it. did.admin names tokens
without a parent, so no rebind excuses the loss of one that has one. For tokens without a parent nothing of the kind holds of the
ledger alone, since two states do not tell a rebind from a forbidden transfer of one unit; that case is
`BoundUnlessPaid`, where the payment tells them apart.
*Bounds*: ids 0 to 2, amounts of at most one unit, two uris, one notary, an issuer and a holder, two tokens with three balance rows or one token with four (`FewRows`).
Phantom rows need two symbols of one id and assigned ids need
an id already taken: a token asked for with id 0 after token 1 gets id 2 and the parent 1, and the symbol of id 2 and
parent 0 becomes a phantom whose rows `setacctperms` opens. Three rows let a token be transferred while a phantom row stands beside it. The symbol of id 2 and parent 1 is also named
by callers, so that a token with a parent is issued, handed on and returned.

**`did_kyc`** – `MCDidKyc`, `DidKyc.cfg`. amax.did on the ledger.
`OneOrderEach`, `OneVendorForOrder`, `PendingsOpen` on its tables;
`StockForOrders` ties a fall of its stock to the settlement of a paid order, or a burn;
`ChargesCover` says that no step but a change of a charge lowers what the
pool has beyond what settling the open orders takes; `RewardWithDid` that
apples leave the lease exactly in the steps that deliver a DID while there are any. *Bounds*: two orders and two rows of one vendor, one for level 2, there from the start, and one for level 1 that `addvendor`
opens. Memos also name level 5, which is 1 as a `uint32` of `KycSpan` = 4
values: payment searches for the whole number and so finds no row, and no order is stored under the level cut to 1; `addvendor` takes a `uint32` and cannot be given it. Orders are opened and settled on either row while the charges of both change
between 1 and 2 (`chgvendor` takes 0 for no change). A reward of two apples meets a lease that is empty, one short, or just enough. `Few`: at most
one account may send at a time, none is allowed to receive, and at most one of the two rows is stopped; the other
permissions are explored in `did_rebind`. The run starts from the deployed
state (token created, contract initialised), which `KycInit` and the ledger's
`create` lead to, and leaves did.admin out (`DidNumber = {}`): a rebind takes a unit of the payer, and the contract pays for none.

**`redpack`** – `MCRedPack`, `RedPack.cfg`. `Books` (the pooled balance is the sum of what
packets hold), `RandomShareLeft` and `MeanShareLeft` (after any draws, what
remains suffices for everyone left), `Escrowed`: the
contract implements `Escrow`, with `held` the token and the remainder of every packet;
and `NoDepositStays`: under the fairness of the clock and of `cancel`, a packet that
expires before the clock's bound is paid out or refunded.
*Bounds*: two packets of one token, so that one could eat the other; 3
receivers named and two that claim, so that packets expire unfinished, 4 of whom
350 units are too few for, and 0 and −1, which a packet for DID holders may name: -1 is stored as the
largest count of `WordSpan` = 2^20 values; 350
is not divisible by 3; the minimum of 100 units is the code's. A clock of 0 to 2
with an expiry of one hour is the least with which a packet can be cancelled. Random packets
for DID holders are left out here: they can overdraw the pool (run `redpack_overdraft`), after which no
statement about the other packets of the token holds.

**`did_recover`** – `MCDidRecover`, `DidRecover.cfg`. `OneOrderPerAccount`,
`StatusesAgree`, `LostHasRow` (an order is about an account with a ledger row),
`ByAuthority` (a stage is passed by a submitter who has the authority for that
stage at that moment), and `Recovers`: the contract implements `Recovery`, with `stage` read off the order
of the account. `NoOrderStaysUnverified` is the liveness of the protocol: with no
submitter left, an expired order is deleted and its account can be claimed again. *Bounds*: two accounts, three orders, so that both accounts can be claimed and one of them again after a refusal or a deletion, an expiry of one day with the clock at 0 to 2, every subset of
the two authorities.

**`nft_redpack`** – `MCNftRedPack`, `NftRedPack.cfg`. `NftsCover` and
`NftsAccounted` (the contract owns what live packets hold, and a step that changes how many units it owns beyond
those is a step of `delredpacks`: a `cancel`, a claim or a `delclaims` that lost units is excluded), `FeesCover` (fees cover refunds in whatever order
packets are deleted), `PaidOnce` (units given went to distinct receivers, by
claims that outlive every clean-up). *Bounds*: two codes, two senders, so that a transfer can reach the packet of another, packets of one or two units, two
receivers, fees of 0 or 1 held with two banks, payments that divide unevenly, clean-ups of 1
and 3 rows, a clock that passes the expiry.

**`amounts`** – `MCAmounts`, `Amounts.cfg`. `Exact` (the value of a checked integer is the
integer its operations give, and the amount of a price is what the text denotes)
and `RefusedOnlyIfTooLarge` (no operation whose result fits its type aborts, and
no price aborts that fits an asset and has at most `MaxDigits` decimals). That `asset_from_string` does not
abort is its guard, `Accepts`, all of its checks together.
*Bounds*: integers of 8 bits, all 256 of which are reached, with every operand, so the run is exhaustive at that width (the theorems
are for every width); 8 bits hold 10^2 and not 10^3 as 64 bits hold 10^18
and not 10^19; texts with 0 to 3 decimals, with fractions and whole parts at and beyond what parses, "-0.5" among them. Deadlock is checked.

Symmetry is declared only in `did_rebind`, for the two holders, and in `nft_redpack`, for the two receivers and for the two senders, which no constant and no operator tells apart;
every property of these runs is an invariant or a statement about single steps. `CHECK_DEADLOCK FALSE` is set in the runs of
contracts: one that nobody can
call successfully any more, at the bounds of the instance, is not a fault.

### Disagreements the runs show

Each of these runs checks one statement that the repository makes and that its
code does not keep; TLC prints the shortest sequence of transactions.

| run | statement | what the code does |
| --- | --- | --- |
| `ntoken_one_did` | "You can't receive more than one DID token" | `rebind` does not look at the receiver's balance |
| `redpack_recorded` | "Can't repeat to receive" | `delclaims` takes the code of the row *after* the erased one for gone and erases the claims of a live packet |
| `redpack_overdraft` | the least share is 100 units | for tokens of at most two decimals `1 / min_unit_throot` is 1, so that a random share is at least twice the mean, and the last receivers are paid by other packets; the same for DID packets of any token, whose deposit is not checked |
| `nft_cancel` | "redpack not expired yet" | the expiry is computed before the packet is read |
| `nft_fee` | the fee paid is "not enough"; products are checked | the product is checked as unsigned and stored as signed: where the stored value is negative and in the range of an asset, any payment covers it |

That `reclaim`, the action with which "their DID must be claimed back" from the disqualified
(`did.ntoken.hpp:62`), never succeeds is proved (`ReclaimNeverSucceeds`), and has no run of its own.

## 4. What is proved

`DidNtokenProofs` proves of `DidNtoken`'s `Spec`, for all values of the constants
that satisfy the assumptions:

| theorem | says |
| --- | --- |
| `TypeCorrect` | `[]TypeOK`: rows are under their scope and key with values of their types |
| `SupplyBounded` | `[]SupplyAtMostMax` |
| `BalancesBacked` | `[]Backed`: no negative balance; a positive one is of a created, valid token |
| `TokensFixed` | no step removes a token or changes its symbol, issuer or maximum |
| `ReclaimNeverSucceeds` | a call of `reclaim` never changes anything |
| `TokensConserved` | `Conservation` |
| `HoldersBound` | `SoulBound`: a token with a parent stays with a holder who may not send it, unless burnt or returned |
| `PermissionsOfAccounts` | `PermissionsStay` |
| `SupplyInAccounts` | `[]SupplyIsSum` |

*Assumptions*: `IdAssumption` (ids are below `IdSpan`), `SymbolAssumption`
(a symbol is an id and a parent id), `AmountAssumption` (amounts are integers, negative
ones included), `AccountAssumption` (some account exists, issuers are accounts, and there are finitely many: a name is 64 bits)
and `SelfAssumption` (the contract's name, as a number, does not fit in 32 bits, so that it is no id).

*Argument*. The inductive invariant is

    IInv == TypeOK /\ SupplyAtMostMax /\ Backed

The parts lean on each other. `SupplyAtMostMax` needs `TypeOK`: `issue` compares the amount with the row it
finds under the id, and only because every row is under its own key is that the row it then writes.
`Backed` needs `TypeOK` for the balances, since two symbols must not share a row
(`RawInjective`, `AcctKeyInjective`), and needs that the token a balance is of stays what it was: the action
lemmas therefore prove `RowsKept` together with `IInv'`. `Conservation` and `SoulBound` in turn need `Backed`, which says that
a unit a `transfer` or a `rebind` moves is of a token the statistics table knows.

The lemmas `AddBalance` and `SubBalance` describe what
`add_balance` and `sub_balance` do to the table of balances, `SupplyChange` and `FieldChange` what an update of a statistics row does; one lemma per action shows that the action keeps `IInv` and that it keeps the rows of
created tokens; `NextStep` collects them and `Invariance` is `Spec => []IInv`. `Conservation` and
`SoulBound` are action properties and are proved from `IInv` action by action.
`reclaim` aborts because under `TypeOK` every statistics row is in the scope `Self` under an id below `IdSpan`, while the
scope and the key `reclaim` computes are the same number, and `Self` is no id.

`SupplyIsSum` is a sum over all accounts. A step changes the balances `Conservation` names: one together
with the supply, or two that cancel; `SumMoves` of `SumsProofs` turns each into what it does to the sum.

`SumsProofs` has no specification. The sum over a finite set that `SumFunctionOnSet` computes is defined by
taking one element away at a time. The induction theorems of the library are out of reach here, so the
lemmas reason from a smallest counterexample instead: finite sets are well-founded under strict inclusion (`SmallestSet`), as
numbers are (`LeastNumber`). `SumTakes` shows that any element may be taken away first; `SumMoves` says what
changing one summand does, `SumSplits` that the sums of a subset and of the rest are the whole sum.

`SafeIntProofs` proves of `SafeInt`'s `Spec`, for every `MaxT` in `Nat \ {0}` (`WidthAssumption`):

| theorem | says |
| --- | --- |
| `NothingLost` | `[]Exact`: no sequence of operations loses anything to the width |
| `NothingElseRefused` | no operation is refused whose result is a value of the type |

*Argument*. For each operator a lemma (`AddFits`, ..., `NegFits`) says that its check holds exactly
when the result is in `T`. That of a product rests on `QuotientBounds`: an
integer is at most `n \div d` exactly when its product with `d` is at most `n`; quotients rounded towards zero are reduced to it by sign.
`WrapKeeps` says that the reduction to the width leaves values of `T` alone, so
`value \in T /\ Exact` is inductive.

`DidRecoverProofs` proves of `DidRecover`'s `RecoverSpec`, whatever the ledger does beside it:

| theorem | says |
| --- | --- |
| `TypeCorrect` | `[]RecoverTypeOK`: orders are well formed, under ids given out |
| `OneOrder` | `[]OneOrderPerAccount` |
| `StatusesOfOrders` | `[]StatusesAgree` |
| `RowBehindOrder` | `[]LostHasRow` |
| `PassedByAuthority` | `ByAuthority` |
| `ImplementsRecovery` | `Recovers`: the contract implements `Recovery` |

*Assumptions*: those of `DidNtoken`, and `RecoverAssumption` (the DID symbol is a symbol; bounds and the expiry are numbers).

*Argument*. The inductive invariant is

    IInv == RecoverTypeOK /\ OneOrderPerAccount /\ StatusesAgree /\ LostHasRow

Ids above `lastOrderId` are free (`RecoverTypeOK`), so filing an order overwrites none. `LostHasRow` is kept
because the ledger erases no row of `accounts` (`LostRowsKept`). The lemma `Kinds` sorts the steps of contract and ledger: a step
leaves the orders alone, or `Files`, `Verifies`, `Recasts` or `Drops` one of them. Invariant and refinement are both proved
from these five cases. The refinement reads the stage of an account off its order, so it needs that there is
one (`OneOrderPerAccount`) and that its two statuses tell the stage (`StatusesAgree`).

`RedPackProofs` proves of `RedPack`'s `Spec`:

| theorem | says |
| --- | --- |
| `TypeCorrect` | `[]TypeOK` |
| `RandomSharesLast` | `[]RandomShareLeft` |
| `MeanSharesLast` | `[]MeanShareLeft` |
| `BooksBalance` | `[]Books`: the pooled balance of a token is the sum of what its packets hold |
| `EscrowsApart` | `Escrowed`, if every token has more than two decimals and no packet is `didRandom` |

*Assumptions*: `RedPackAssumption` (precisions and times are numbers, deposits are at most `MaxAmount`, the largest amount of an
asset, and receiver counts are integers no larger than that on either side of 0: `WordSpan` stands for 2^64, an `int` of the code is far smaller). The two premises of `EscrowsApart` are
necessary: `redpack_overdraft` is the counterexample without them.

*Argument*. The inductive invariant is

    IInv == TypeOK /\ AllSound

where `Sound` of a packet says that a finished one is empty and, of a live one, `RandomKept` (more than 100 units for
each but one of those who are left), `EqualKept` (what remains is the deposit less the shares paid) and `Funded` (what the
deposit was checked for). `RandLeaves` is the heart: a draw is at most 1.98 times the mean of `r` units among `n`, rounded down to hundreds, so with
`k` hundreds drawn `100 * k * n` is at most `1.98 * r`; `HundredsLeft` turns that into more than `n - 2` hundreds left for `n - 1` receivers.
`EqualLeaves` is its counterpart for equal shares. What remains is never above the deposit and so never above
`MaxAmount`; `TwiceMean` is computed in the words of the code and `MeanDoubled` shows that nothing wraps where the packet is
funded. `DivisorIsCount` does the same for the signed divisor of an equal share. A packet for no receiver, or for a negative number of them,
pays no equal share, which is the first case of `EqualKept`. The refinement follows by `ShareCovered`: under `Sound` no share exceeds what its packet holds.

`Books` is inductive together with `IInv` and the finiteness of the table: an action touches at most one packet,
and pays in or out what it changes that one by; `SumMoves` turns that into what happens to the sum of its token. It holds without the
premises of `EscrowsApart`: a draw that overdraws its packet leaves a negative remainder, which the sum counts.

`DidSystemProofs` proves of `SystemSpec`, the ledger with amax.did and did.admin acting on it:

| theorem | says |
| --- | --- |
| `SystemImplementsLedger` | `SystemSpec => Spec`: every transaction of a client is a step of the ledger, or none |
| `LedgerPromisesKept` | `SupplyAtMostMax`, `SupplyIsSum`, `Conservation`, `SoulBound`, `PermissionsStay` of the composed system |
| `KycTypes` | `[]KycTypeOK`: rows are well formed, under ids given out |
| `OneOpenOrder` | `[]OneOrderEach` |
| `PendingsOfOrders` | `[]PendingsOpen` |
| `OneVendor` | `[]OneVendorForOrder` |
| `BoundOrPaid` | `BoundUnlessPaid` |
| `StockGoesToApplicants` | `StockForOrders` |
| `RewardsWithDids` | `RewardWithDid` |
| `ChargesCoverOrders` | `ChargesCover` |

*Assumptions*: those of `DidNtoken`, and those of its clients (`AmaxDidAssumption`, `PaymentAssumption`: charges, rewards, levels, payments and bounds are
numbers; `SystemAssumption`: one unit is an amount and
the DIDs a memo can name have symbols the ledger is called with, so that what a client sends is what anybody may send).

*Argument*. The inductive invariant of amax.did is

    KycInv == KycTypeOK /\ OneOrderEach /\ PendingsOpen
                /\ VendorsApart /\ OrdersPlaced /\ Priced

`OneVendorForOrder` follows from two parts: an account and a level name at most one vendor row (`VendorsApart`,
which `addvendor` checks with the level already cut), and the row of an open order is there (`OrdersPlaced`: rows are
never erased and `chgvendor` changes neither key). `Priced` says that no vendor works for nothing, so
that an approval really is paid for. The ledger's theorems are not proved again:
`ApprovalIsTransfer` and `PaymentIsRebind` show that the inline action of a client is the ledger's own action with the
client as the caller, which gives `SystemImplementsLedger`, and everything `Spec` implies holds of the
composition. `BoundOrPaid` and `StockGoesToApplicants` say who takes a unit from whom: each begins with the
steps that can take one at all (`IssuerTakes`, `TransferTakes`, `RebindTakes`). `ChargesCoverOrders` compares the pool
with the sum of the current charges of all open orders: `OwedMoves` says what one order filed or settled does to that
sum, and a change of a vendor's row that leaves its charge alone leaves it as it is (`DuesStay`).

`NftRedPackProofs` proves of `NftRedPack`'s `Spec`:

| theorem | says |
| --- | --- |
| `NftTypes` | `[]NftTypeOK` |
| `NftsOfPackets` | `[]NftsCover` |
| `FeesOfPackets` | `[]FeesCover` |
| `NftsGoWithPackets` | `NftsAccounted` |
| `EveryUnitClaimed` | `[]PaidOnce` |

*Assumptions*: `NftRedPackAssumption` (codes, units, payments and times are numbers, AMAX is one of the banks, and fees and units fit an int64).

*Argument*. The inductive invariant `NInv` has the types, that the packets are finitely many, and `Sound` of each: it was opened for at least one
unit (its fee is divided by their number), has given none before it is funded, and is finished exactly when nothing remains.
What the contract owns is compared with sums over packets. `OneRow` handles the steps that touch one
packet. A clean-up erases a set of packets in one step and sends back what each holds: `DroppedSums` and `DeletedSums` split the sums at
that set. `StepAccounts` collects both: a step keeps the units beyond `Held` exactly, or it is `delredpacks`, the one action that
erases a packet that still holds units and sends none back. A refund is at most what the packet's fee was, and falls with every claim because
the fee per unit is rounded before it is multiplied (`RefundFalls`).
`PaidOnce` counts the accounts with a claim. A claim adds one receiver, who had none; a clean-up erases claims only of codes
whose packet is gone after it (`KeptPaid`), for which `WithoutKeeps` says that `Without` keeps every row that was not
chosen, by the recursion it is defined with; a packet opened under a code that has been used owes no receiver yet.

`AmountsProofs` proves of `AmountSpec`, for every width, number of decimals and set of texts:

| theorem | says |
| --- | --- |
| `PricesExact` | `[]Exact` if no text has 128 decimals or more (`FewDecimals`): an accepted price is what its text denotes |
| `PricesAccepted` | `[]RefusedOnlyIfTooLarge`: a price is refused only when it does not fit an asset or has too many decimals |

*Assumptions*: `WidthAssumption` and `TextAssumption` (10^18 fits the integer, bytes hold twice as many decimals as a symbol may
have, and a fraction is below the power of ten of its length). The premise of `PricesExact` is necessary: a number of decimals
from 128 to 255 is negative as an `int8`, passes the check, and the code then scales by 1. `PricesAccepted` needs no premise. The two literals did.admin reads satisfy it.

*Argument*. The checks are those of `SafeInt`, whose lemmas (`MulFits`, `AddFits`, ...) carry over to the two steps of
the computation, and the amount is a value of the type whatever the text (`Stored`). `AmountDenotes` goes from the checks to the result; `FittingAccepted` goes back: an amount that fits
bounds its whole part and its fraction, so that no intermediate result leaves the width.
`Power10` is a recursive function; that it is the one that multiplies by ten, positive and monotone, is shown with `LeastNumber`.

### What stays model-checked

- The liveness properties `NoOrderStaysUnverified` and `NoDepositStays`: the prover does not handle fairness (`ENABLED`).
- `Escrowed` where a premise of `EscrowsApart` fails: the instance of `redpack` satisfies both, and `redpack_overdraft` shows that they are needed.
- `Init` of `did_kyc` starts from the deployed state; the theorems start from `SystemInit`, before `create` and `init`.

## 5. What is not modelled

- Splitting and trimming of texts; `multiply_decimal`, `divide_decimal`, `math.hpp`, which no contract calls; `symbol_from_string`, whose result is the
token `payfee` of did.redpack is given.
- The vendored headers of token, NFT and farm contracts, whose code is not in the repository.
- `src/scripts`, build files, ricardian templates: no behaviour. There are no tests in `src/tests`.

Hazards that no property covers are listed in `PROJECT.json` with the reason: for most of them
no text of the repository says what should happen.

## 6. Plan

Done, in this order: the ledger and its proofs; did.admin and amax.did and
their composition; did.recover with `Recovery`; did.redpack with `Escrow`; nft.redpack; the reward,
the permissions under a rebind, liveness of the two contracts whose code justifies it; checked
arithmetic and the reading of prices, with proofs; the proofs that did.recover implements `Recovery` and did.redpack `Escrow`;
sums over tables and the proofs that rest on them; the proofs about amax.did, did.admin, nft.redpack and prices.

Every invariant and every property of single steps that a passing run checks is a theorem now.

To do, most important first:

1. *Proofs*: what the ledger promises, of did.recover beside it; what `Escrow` itself promises, carried over to did.redpack by its refinement; `Escrowed` token by token, under premises about the packets of that token only.
2. *Model*: amax.did with the vendors of several accounts, whose keys may meet; refunds of nft.redpack under changing fee contracts stated as what
   stays refundable.
