-------------------------- MODULE NftRedPackProofs --------------------------
(***************************************************************************)
(* Proofs about NftRedPack, for every value of its constants: the types,   *)
(* that the contract owns the NFTs of its live packets and the fees it may *)
(* have to pay back, that no unit goes astray, and that every unit a live  *)
(* packet gave went to another receiver.                                   *)
(***************************************************************************)
EXTENDS NftRedPack, SumsProofs, FunctionTheorems

-----------------------------------------------------------------------------
(* Erasing rows of the claims *)

\* g leaves out the rows up to the n-th.
Filters(g, rows, n) ==
    g = [m \in 0 .. n |->
            IF m = 0 THEN <<>>
            ELSE IF m \in rows THEN g[m - 1]
            ELSE Append(g[m - 1], claims[m])]

Filter(rows, n) == CHOOSE g : Filters(g, rows, n)

LEMMA WithoutUnfold ==
    ASSUME NEW rows
    PROVE  Without(rows) = Filter(rows, Len(claims))[Len(claims)]
BY DEF Without, Filter, Filters

LEMMA FiltersAt ==
    ASSUME NEW n \in Nat, NEW rows, NEW g, Filters(g, rows, n), NEW m \in 0 .. n
    PROVE  /\ m = 0 => g[m] = <<>>
           /\ m # 0 /\ m \in rows => g[m] = g[m - 1]
           /\ m # 0 /\ m \notin rows => g[m] = Append(g[m - 1], claims[m])
<1>1. g[m] = [k \in 0 .. n |->
                IF k = 0 THEN <<>>
                ELSE IF k \in rows THEN g[k - 1]
                ELSE Append(g[k - 1], claims[k])][m]
  BY DEF Filters
<1> QED
  BY <1>1

LEMMA FilterExists ==
    ASSUME NEW rows, NEW n \in Nat
    PROVE  Filters(Filter(rows, n), rows, n)
<1> DEFINE B == {k \in Nat : ~\E g : Filters(g, rows, k)}
<1>1. SUFFICES ASSUME B # {} PROVE FALSE
  BY DEF Filter
<1>2. PICK k \in B : \A j \in B : k <= j
  <2>1. B \subseteq Nat
    OBVIOUS
  <2> HIDE DEF B
  <2> QED
    BY <1>1, <2>1, LeastNumber
<1>3. CASE k = 0
  <2> DEFINE g == [m \in 0 .. 0 |-> <<>>]
  <2>1. g = [m \in 0 .. 0 |-> IF m = 0 THEN <<>>
                              ELSE IF m \in rows THEN g[m - 1]
                              ELSE Append(g[m - 1], claims[m])]
    OBVIOUS
  <2>2. Filters(g, rows, 0)
    BY <2>1 DEF Filters
  <2> HIDE DEF g
  <2> QED
    BY <1>3, <2>2
<1>4. CASE k # 0
  <2>1. k \in Nat /\ k - 1 \in Nat /\ k - 1 \notin B
    BY <1>2, <1>4
  <2>2. PICK h : Filters(h, rows, k - 1)
    BY <2>1
  <2> DEFINE next == IF k \in rows THEN h[k - 1] ELSE Append(h[k - 1], claims[k])
             g == [m \in 0 .. k |-> IF m = k THEN next ELSE h[m]]
  <2>3. ASSUME NEW m \in 0 .. k
        PROVE  g[m] = IF m = 0 THEN <<>>
                      ELSE IF m \in rows THEN g[m - 1]
                      ELSE Append(g[m - 1], claims[m])
    <3>1. CASE m = k
      <4>1. g[m] = next /\ g[m - 1] = h[k - 1] /\ m # 0
        BY <1>4, <2>1, <3>1
      <4> QED
        BY <3>1, <4>1
    <3>2. CASE m # k
      <4>1. m \in 0 .. k - 1 /\ g[m] = h[m] /\ (m # 0 => g[m - 1] = h[m - 1])
        BY <2>1, <3>2
      <4>2. /\ m = 0 => h[m] = <<>>
            /\ m # 0 /\ m \in rows => h[m] = h[m - 1]
            /\ m # 0 /\ m \notin rows => h[m] = Append(h[m - 1], claims[m])
        BY <2>1, <2>2, <4>1, FiltersAt
      <4> HIDE DEF g
      <4> QED
        BY <4>1, <4>2
    <3> QED
      BY <3>1, <3>2
  <2>4. g = [m \in 0 .. k |-> g[m]]
    OBVIOUS
  <2> HIDE DEF g
  <2>5. Filters(g, rows, k)
    BY <2>3, <2>4 DEF Filters
  <2> QED
    BY <2>5
<1> QED
  BY <1>3, <1>4

\* What is left are claims, and every row that is not erased is among them.
LEMMA WithoutKeeps ==
    ASSUME NEW C, claims \in Seq(C), NEW rows
    PROVE  /\ Without(rows) \in Seq(C)
           /\ \A i \in DOMAIN claims \ rows :
                  \E k \in DOMAIN Without(rows) : Without(rows)[k] = claims[i]
<1> DEFINE n == Len(claims)
           g == Filter(rows, n)
           Has(s, i) == \E k \in DOMAIN s : s[k] = claims[i]
           Fine(m) == /\ g[m] \in Seq(C)
                      /\ \A i \in 1 .. m : i \notin rows => Has(g[m], i)
           B == {m \in 0 .. n : ~Fine(m)}
<1>1. n \in Nat /\ DOMAIN claims = 1 .. n /\ Filters(g, rows, n)
  BY FilterExists
<1>2. n \in 0 .. n
  BY <1>1
<1>3. ASSUME B # {} PROVE FALSE
  <2>1. PICK m \in B : \A j \in B : m <= j
    <3>1. B \subseteq Nat
      OBVIOUS
    <3> HIDE DEF B
    <3> QED
      BY <1>3, <3>1, LeastNumber
  <2>2. m \in 0 .. n /\ m \in Nat
    BY <2>1
  <2>0. ~Fine(m) /\ \A j \in 0 .. n : j < m => Fine(j)
    BY <2>1, <2>2
  <2> HIDE DEF g, n, B
  <2>3. CASE m = 0
    <3>1. g[m] = <<>> /\ 1 .. m = {} /\ <<>> \in Seq(C)
      BY <1>1, <2>2, <2>3, FiltersAt
    <3>2. Fine(m)
      BY <3>1
    <3> QED
      BY <2>0, <3>2
  <2>4. CASE m # 0
    <3>1. m - 1 \in 0 .. n /\ m - 1 < m
      BY <1>1, <2>2, <2>4
    <3>2. Fine(m - 1)
      BY <2>0, <3>1
    <3>3. CASE m \in rows
      <4>1. g[m] = g[m - 1]
        BY <1>1, <2>2, <2>4, <3>3, FiltersAt
      <4>2. Fine(m)
        BY <1>1, <2>2, <2>4, <3>2, <3>3, <4>1
      <4> QED
        BY <2>0, <4>2
    <3>4. CASE m \notin rows
      <4> DEFINE s == g[m - 1]
      <4>1. g[m] = Append(s, claims[m]) /\ claims[m] \in C /\ s \in Seq(C)
        BY <1>1, <2>2, <2>4, <3>2, <3>4, FiltersAt DEF n
      <4>2. g[m] \in Seq(C)
        BY <4>1
      <4>3. ASSUME NEW i \in 1 .. m, i \notin rows PROVE Has(g[m], i)
        <5>1. CASE i = m
          <6>1. g[m][Len(s) + 1] = claims[m] /\ Len(s) + 1 \in DOMAIN g[m]
            BY <4>1
          <6> QED
            BY <5>1, <6>1
        <5>2. CASE i # m
          <6>1. i \in 1 .. m - 1
            BY <2>2, <5>2
          <6>2. PICK k \in DOMAIN s : s[k] = claims[i]
            BY <3>2, <4>3, <6>1
          <6>3. k \in DOMAIN g[m] /\ g[m][k] = s[k]
            BY <4>1, <6>2
          <6> QED
            BY <6>2, <6>3
        <5> QED
          BY <5>1, <5>2
      <4> QED
        BY <2>0, <4>2, <4>3
    <3> QED
      BY <3>3, <3>4
  <2> QED
    BY <2>3, <2>4
<1>4. Fine(n)
  BY <1>2, <1>3
<1>5. Without(rows) = g[n]
  BY WithoutUnfold
<1> HIDE DEF g, n
<1> QED
  BY <1>1, <1>4, <1>5
-----------------------------------------------------------------------------
(* Types *)

\* A packet is opened for some units, holds all of them until it is funded and
\* none when it is finished.
Sound(p) ==
    /\ p \in Pack
    /\ p.total > 0
    /\ p.status = "init" => p.remain = p.total
    /\ p.status = "finished" <=> p.remain = 0

PacksSound(ps) ==
    /\ DOMAIN ps \subseteq Code
    /\ IsFiniteSet(DOMAIN ps)
    /\ \A c \in DOMAIN ps : Sound(ps[c])

OwnedOK ==
    /\ nfts \in [Nft -> Nat]
    /\ coins \in [Bank -> Nat]

OthersOK ==
    /\ DOMAIN fees \subseteq NftContract
    /\ \A k \in DOMAIN fees : fees[k] \in FeeRow
    /\ gstate \in [initialised : BOOLEAN, hours : Nat]
    /\ now \in Nat

ClaimsOK == claims \in Seq(Claim)

NInv == PacksSound(packs) /\ OwnedOK /\ OthersOK /\ ClaimsOK

LEMMA NInvIsTyped == NInv => NftTypeOK
BY DEF NInv, PacksSound, Sound, OwnedOK, OthersOK, ClaimsOK, NftTypeOK

LEMMA NewPackSound ==
    ASSUME NInv, NEW from \in Sender, NEW nft \in Nft, NEW count \in Count,
           count > 0, NEW paid \in Nat, NEW status \in {"init", "created"}
    PROVE  Sound(NewPack(from, nft, count, paid, status))
<1>1. count \in Nat /\ now \in Nat
  BY NftRedPackAssumption DEF NInv, OthersOK
<1> QED
  BY <1>1 DEF Sound, NewPack, Pack

LEMMA PutSound ==
    ASSUME NEW ps, PacksSound(ps), NEW c \in Code, NEW p, Sound(p)
    PROVE  PacksSound(Put(ps, c, p))
<1>1. DOMAIN Put(ps, c, p) = DOMAIN ps \cup {c}
  BY DEF Put
<1>2. IsFiniteSet(DOMAIN ps \cup {c})
  BY FS_AddElement DEF PacksSound
<1> QED
  BY <1>1, <1>2 DEF Put, PacksSound

LEMMA DropSound ==
    ASSUME NEW ps, PacksSound(ps), NEW codes
    PROVE  PacksSound(Drop(ps, codes))
<1>1. DOMAIN Drop(ps, codes) = DOMAIN ps \ codes
  BY DEF Drop
<1>2. IsFiniteSet(DOMAIN ps \ codes)
  BY FS_Subset DEF PacksSound
<1> QED
  BY <1>1, <1>2 DEF Drop, PacksSound

LEMMA ReplaceSound ==
    ASSUME NEW ps, PacksSound(ps), NEW c, NEW p, Sound(p)
    PROVE  PacksSound([ps EXCEPT ![c] = p])
BY DEF PacksSound

\* What goes back for a unit is a number, at most the fee for all of them.
LEMMA RefundIsNat ==
    ASSUME NEW p, Sound(p)
    PROVE  Refund(p) \in Nat /\ p.remain \in Nat
<1>1. p.fee \in Nat /\ p.total \in Nat /\ p.total > 0 /\ p.remain \in Nat
  BY DEF Sound, Pack
<1>2. p.fee \div p.total \in Nat
  BY <1>1
<1>3. \A x, y \in Nat : x * y \in Nat
  OBVIOUS
<1> QED
  BY <1>1, <1>2, <1>3 DEF Refund

\* Dividing the fee among the units and paying it back for them pays no more.
LEMMA Rounded ==
    ASSUME NEW q \in Nat, NEW k \in Nat, k > 0
    PROVE  (q \div k) * k <= q
OBVIOUS

LEMMA RefundFalls ==
    ASSUME NEW p, Sound(p), NEW q, q.remain = p.remain - 1,
           q.fee = p.fee, q.total = p.total
    PROVE  Refund(q) <= Refund(p)
<1> DEFINE each == p.fee \div p.total
<1>1. p.fee \in Nat /\ p.total \in Nat /\ p.total > 0 /\ p.remain \in Nat
  BY DEF Sound, Pack
<1>2. each \in Nat
  BY <1>1
<1>3. Refund(p) = each * p.remain /\ Refund(q) = each * (p.remain - 1)
  BY DEF Refund
<1> HIDE DEF each
<1>4. \A x, y \in Nat : x * (y - 1) <= x * y
  OBVIOUS
<1> QED
  BY <1>1, <1>2, <1>3, <1>4

\* Sums over packets are sums of numbers.
LEMMA SumsOfPacks ==
    ASSUME PacksSound(packs), NEW S \in SUBSET DOMAIN packs
    PROVE  /\ IsFiniteSet(S)
           /\ \A c \in S : Remains[c] \in Nat /\ Refunds[c] \in Nat
           /\ SumFunctionOnSet(Remains, S) \in Nat
           /\ SumFunctionOnSet(Refunds, S) \in Nat
<1>1. IsFiniteSet(S)
  BY FS_Subset DEF PacksSound
<1>2. \A c \in S : Remains[c] \in Nat /\ Refunds[c] \in Nat
  BY RefundIsNat DEF Remains, Refunds, PacksSound
<1> QED
  BY <1>1, <1>2, SumIsNat

\* The packet a claim leaves.
Claimed(p) ==
    [p EXCEPT !.remain = @ - 1,
              !.status = IF p.remain = 1 THEN "finished" ELSE @]

LEMMA ClaimedSound ==
    ASSUME NEW p, Sound(p), p.status = "created"
    PROVE  /\ Sound(Claimed(p))
           /\ p.remain > 0 /\ Claimed(p).remain = p.remain - 1
           /\ Claimed(p).total = p.total /\ Claimed(p).fee = p.fee
           /\ Claimed(p).nft = p.nft
           /\ Claimed(p).status = IF p.remain = 1 THEN "finished" ELSE "created"
<1> DEFINE left == p.remain - 1
           q == [p EXCEPT !.remain = left]
           st == IF p.remain = 1 THEN "finished" ELSE "created"
           r == [q EXCEPT !.status = st]
<1>1. /\ p.remain \in Nat /\ p.remain # 0 /\ p \in Pack /\ left \in Nat
      /\ p.total \in Nat /\ p.total > 0 /\ left = p.remain - 1
      /\ st \in {"init", "created", "finished"}
  BY DEF Sound, Pack
<1>2. Claimed(p) = r
  BY <1>1 DEF Claimed, Pack
<1> HIDE DEF left, st
<1>3. /\ q \in Pack /\ q.remain = left /\ q.total = p.total
      /\ q.fee = p.fee /\ q.nft = p.nft
  BY <1>1 DEF Pack
<1> HIDE DEF q
<1>4. /\ r \in Pack /\ r.remain = left /\ r.total = p.total
      /\ r.fee = p.fee /\ r.nft = p.nft /\ r.status = st
  BY <1>1, <1>3 DEF Pack
<1> HIDE DEF r
<1>5. /\ Claimed(p) \in Pack /\ Claimed(p).remain = p.remain - 1
      /\ Claimed(p).total = p.total /\ Claimed(p).fee = p.fee
      /\ Claimed(p).nft = p.nft
      /\ Claimed(p).status = IF p.remain = 1 THEN "finished" ELSE "created"
  BY <1>1, <1>2, <1>4 DEF st
<1> QED
  BY <1>1, <1>5 DEF Sound

LEMMA InitTyped == Init => NInv
<1> SUFFICES ASSUME Init PROVE NInv
  OBVIOUS
<1>1. DOMAIN packs = {} /\ DOMAIN fees = {}
  BY DEF Init, EmptyTable
<1>2. PacksSound(packs)
  BY <1>1, FS_EmptySet DEF PacksSound
<1>3. OwnedOK /\ OthersOK /\ ClaimsOK
  BY <1>1 DEF Init, OwnedOK, OthersOK, ClaimsOK
<1> QED
  BY <1>2, <1>3 DEF NInv

\* Deleting packets keeps the types.
LEMMA DeletedTyped ==
    ASSUME NInv, NEW codes \in SUBSET DOMAIN packs, DelRedpacks(codes)
    PROVE  PacksSound(packs') /\ OwnedOK'
<1> DEFINE live == {c \in codes : Live(c)}
           bank(c) == fees[Contract(packs[c].nft)].bank
           goes(n) == SumFunctionOnSet(Remains, {c \in live : packs[c].nft = n})
           pays(b) == SumFunctionOnSet(Refunds, {c \in live : bank(c) = b})
<1>1. \A n \in Nft : goes(n) \in Nat
  BY SumsOfPacks DEF NInv
<1>2. \A b \in Bank : pays(b) \in Nat
  BY SumsOfPacks DEF NInv
<1>3. /\ nfts' = [n \in Nft |-> nfts[n] - goes(n)]
      /\ \A n \in Nft : nfts[n] - goes(n) >= 0
  BY DEF DelRedpacks
<1>4. /\ coins' = [b \in Bank |-> coins[b] - pays(b)]
      /\ \A b \in Bank : coins[b] - pays(b) >= 0
  BY DEF DelRedpacks
<1>5. (\A n \in Nft : nfts[n] \in Nat) /\ \A b \in Bank : coins[b] \in Nat
  BY DEF NInv, OwnedOK
<1>6. packs' = Drop(packs, codes)
  BY DEF DelRedpacks
<1> HIDE DEF goes, pays
<1>7. nfts' \in [Nft -> Nat]
  BY <1>1, <1>3, <1>5
<1>8. coins' \in [Bank -> Nat]
  BY <1>2, <1>4, <1>5
<1> QED
  BY <1>6, <1>7, <1>8, DropSound DEF NInv, OwnedOK

\* The packet its NFTs leave funded.
Funded(p) == [p EXCEPT !.status = "created"]

LEMMA FundedSound ==
    ASSUME NEW p, Sound(p), p.status = "init"
    PROVE  /\ Sound(Funded(p))
           /\ Funded(p).remain = p.remain /\ Funded(p).total = p.total
           /\ Funded(p).fee = p.fee /\ Funded(p).nft = p.nft
           /\ Funded(p).status = "created"
<1>1. /\ Funded(p) \in Pack
      /\ Funded(p).remain = p.remain /\ Funded(p).total = p.total
      /\ Funded(p).fee = p.fee /\ Funded(p).nft = p.nft
      /\ Funded(p).status = "created"
  BY DEF Sound, Pack, Funded
<1> HIDE DEF Funded
<1>2. p.remain = p.total /\ p.total \in Nat /\ p.total > 0 /\ p.remain # 0
  BY DEF Sound, Pack
<1> QED
  BY <1>1, <1>2 DEF Sound

\* Handlers that leave the packets and what the contract owns alone.
LEMMA OtherStepsTyped ==
    ASSUME NInv, [Next]_nftVars
    PROVE  \/ UNCHANGED <<packs, claims, nfts, coins>> /\ OthersOK' /\ ClaimsOK'
           \/ \E a \in Sender, q \in Quantity, c \in Code, n \in Nft, k \in Count :
                  on_fee_transfer(a, q, c, n, k)
           \/ \E a \in Sender, n \in Nft, k \in Count, c \in Code :
                  ontransfer(a, n, k, c)
           \/ \E a \in Account, c \in DOMAIN packs : claimredpack(a, c)
           \/ \E c \in Code : cancel(c)
           \/ \E c \in AdminCode : delredpacks(c)
           \/ \E n \in MaxRows : delclaims(n)
<1> DEFINE Same == UNCHANGED <<packs, claims, nfts, coins>> /\ OthersOK' /\ ClaimsOK'
<1>1. ASSUME NEW h \in Hours, init(h) PROVE Same
  BY <1>1, NftRedPackAssumption DEF init, NInv, OthersOK, ClaimsOK
<1>2. ASSUME NEW f \in Fee, NEW b \in Bank, NEW k \in NftContract, addfee(f, b, k)
      PROVE  Same
  <2>1. [fee |-> f, bank |-> b] \in FeeRow
    BY NftRedPackAssumption DEF FeeRow
  <2>2. fees' = Put(fees, k, [fee |-> f, bank |-> b])
    BY <1>2 DEF addfee
  <2>3. DOMAIN fees' \subseteq NftContract /\ \A j \in DOMAIN fees' : fees'[j] \in FeeRow
    BY <2>1, <2>2 DEF Put, NInv, OthersOK
  <2> QED
    BY <1>2, <2>3 DEF addfee, NInv, OthersOK, ClaimsOK
<1>3. ASSUME NEW k \in NftContract, delfee(k) PROVE Same
  <2>1. fees' = Drop(fees, {k})
    BY <1>3 DEF delfee
  <2>2. DOMAIN fees' \subseteq NftContract /\ \A j \in DOMAIN fees' : fees'[j] \in FeeRow
    BY <2>1 DEF Drop, NInv, OthersOK
  <2> QED
    BY <1>3, <2>2 DEF delfee, NInv, OthersOK, ClaimsOK
<1>4. ASSUME tick PROVE Same
  BY <1>4 DEF tick, NInv, OthersOK, ClaimsOK
<1>5. ASSUME UNCHANGED nftVars PROVE Same
  BY <1>5 DEF nftVars, NInv, OthersOK, ClaimsOK
<1> HIDE DEF Same
<1>6. ASSUME ~Same
      PROVE  \/ \E a \in Sender, q \in Quantity, c \in Code, n \in Nft, k \in Count :
                    on_fee_transfer(a, q, c, n, k)
             \/ \E a \in Sender, n \in Nft, k \in Count, c \in Code :
                    ontransfer(a, n, k, c)
             \/ \E a \in Account, c \in DOMAIN packs : claimredpack(a, c)
             \/ \E c \in Code : cancel(c)
             \/ \E c \in AdminCode : delredpacks(c)
             \/ \E n \in MaxRows : delclaims(n)
  BY <1>1, <1>2, <1>3, <1>4, <1>5, <1>6 DEF Next
<1> QED
  BY <1>6 DEF Same

\* What an opened, a funded and a claimed packet do to the tables.
LEMMA FeeTransferDoes ==
    ASSUME NInv, NEW a \in Sender, NEW q \in Quantity, NEW c \in Code,
           NEW n \in Nft, NEW k \in Count, on_fee_transfer(a, q, c, n, k)
    PROVE  LET p == NewPack(a, n, k, q, "init")
           IN  /\ Sound(p) /\ c \notin DOMAIN packs
               /\ p.status = "init" /\ p.fee = q /\ p.remain = k /\ p.total = k
               /\ q \in Nat /\ k \in Nat /\ k > 0
               /\ packs' = Put(packs, c, p)
               /\ coins' = [coins EXCEPT ![AmaxToken] = @ + q]
               /\ UNCHANGED <<claims, fees, gstate, nfts, now>>
<1>1. q \in Nat /\ k \in Nat /\ k > 0
  BY NftRedPackAssumption DEF on_fee_transfer
<1>2. Sound(NewPack(a, n, k, q, "init"))
  BY <1>1, NewPackSound
<1>3. /\ c \notin DOMAIN packs
      /\ packs' = Put(packs, c, NewPack(a, n, k, q, "init"))
      /\ coins' = [coins EXCEPT ![AmaxToken] = @ + q]
      /\ UNCHANGED <<claims, fees, gstate, nfts, now>>
  BY DEF on_fee_transfer
<1> QED
  BY <1>1, <1>2, <1>3 DEF NewPack

LEMMA TransferDoes ==
    ASSUME NInv, NEW a \in Sender, NEW n \in Nft, NEW k \in Count, NEW c \in Code,
           ontransfer(a, n, k, c)
    PROVE  /\ k \in Nat
           /\ nfts' = [nfts EXCEPT ![n] = @ + k]
           /\ UNCHANGED <<claims, fees, gstate, coins, now>>
           /\ \E p : /\ Sound(p) /\ p.nft = n /\ p.total = k /\ p.remain = k
                     /\ p.status = "created"
                     /\ packs' = Put(packs, c, p)
                     /\ IF c \in DOMAIN packs
                        THEN /\ packs[c].status = "init" /\ packs[c].nft = n
                             /\ Refund(p) = Refund(packs[c])
                        ELSE Refund(p) = 0
<1>1. k \in Nat /\ k > 0
  BY NftRedPackAssumption DEF ontransfer
<1>2. /\ nfts' = [nfts EXCEPT ![n] = @ + k]
      /\ UNCHANGED <<claims, fees, gstate, coins, now>>
  BY DEF ontransfer
<1>3. CASE c \in DOMAIN packs
  <2> DEFINE p == packs[c]
  <2>1. Sound(p)
    BY <1>3 DEF NInv, PacksSound
  <2>2. /\ p.nft = n /\ p.total = k /\ p.status = "init"
        /\ packs' = [packs EXCEPT ![c].status = "created"]
    BY <1>3 DEF ontransfer
  <2>3. packs' = [packs EXCEPT ![c] = Funded(p)]
    BY <2>2 DEF Funded
  <2>4. packs' = Put(packs, c, Funded(p))
    BY <1>3, <2>3 DEF Put
  <2> HIDE DEF p
  <2>5. /\ Sound(Funded(p)) /\ Funded(p).nft = n /\ Funded(p).remain = k
        /\ Funded(p).total = k
        /\ Funded(p).status = "created" /\ Refund(Funded(p)) = Refund(p)
    BY <2>1, <2>2, FundedSound DEF Refund, Sound
  <2> QED
    BY <1>1, <1>2, <1>3, <2>2, <2>4, <2>5 DEF p
<1>4. CASE c \notin DOMAIN packs
  <2> DEFINE p == NewPack(a, n, k, 0, "created")
  <2>1. packs' = Put(packs, c, p)
    BY <1>4 DEF ontransfer
  <2>2. Sound(p)
    BY <1>1, NewPackSound
  <2>3. /\ p.nft = n /\ p.remain = k /\ p.total = k /\ p.fee = 0
        /\ p.status = "created"
    BY DEF NewPack
  <2> HIDE DEF p
  <2>4. Refund(p) = 0
    BY <1>1, <2>3 DEF Refund
  <2> QED
    BY <1>1, <1>2, <1>4, <2>1, <2>2, <2>3, <2>4
<1> QED
  BY <1>3, <1>4

LEMMA ClaimDoes ==
    ASSUME NInv, NEW a \in Account, NEW c \in DOMAIN packs, claimredpack(a, c)
    PROVE  LET p == packs[c]
           IN  /\ Sound(p) /\ p.status = "created" /\ p.nft \in Nft
               /\ packs' = [packs EXCEPT ![c] = Claimed(p)]
               /\ nfts[p.nft] >= 1
               /\ nfts' = [nfts EXCEPT ![p.nft] = @ - 1]
               /\ ~HasClaimed(a, c)
               /\ claims' = Append(claims, [code |-> c, receiver |-> a])
               /\ UNCHANGED <<fees, gstate, coins, now>>
<1> DEFINE p == packs[c]
<1>1. Sound(p) /\ p.nft \in Nft
  BY DEF NInv, PacksSound, Sound, Pack
<1>2. packs' = [packs EXCEPT ![c].remain = @ - 1,
                             ![c].status = IF p.remain = 1 THEN "finished" ELSE @]
  BY DEF claimredpack
<1>3. packs' = [packs EXCEPT ![c] = Claimed(p)]
  BY <1>2 DEF Claimed
<1> QED
  BY <1>1, <1>3 DEF claimredpack

LEMMA CancelDoes ==
    ASSUME NEW c \in Code, cancel(c)
    PROVE  /\ {c} \in SUBSET DOMAIN packs /\ DelRedpacks({c})
           /\ UNCHANGED <<claims, fees, gstate, now>>
BY DEF cancel

LEMMA DelclaimsDoes ==
    ASSUME NInv, NEW n \in MaxRows, delclaims(n)
    PROVE  /\ UNCHANGED <<fees, gstate, now>>
           /\ claims' \in Seq(Claim)
           /\ \E codes \in SUBSET DOMAIN packs :
                 /\ DelRedpacks(codes)
                 /\ \A i \in DOMAIN claims :
                       claims[i].code \in DOMAIN packs \ codes =>
                           \E k \in DOMAIN claims' : claims'[k] = claims[i]
<1> DEFINE before(i) == Cardinality({j \in 1 .. i - 1 : Erasable(j)})
           rows == {i \in DOMAIN claims : Erasable(i) /\ before(i) < n}
           codes == {claims[i].code : i \in rows} \cap DOMAIN packs
<1>1. /\ DelRedpacks(codes) /\ claims' = Without(rows)
      /\ UNCHANGED <<fees, gstate, now>>
  BY DEF delclaims
<1>2. claims \in Seq(Claim)
  BY DEF NInv, ClaimsOK
<1>3. /\ Without(rows) \in Seq(Claim)
      /\ \A i \in DOMAIN claims \ rows :
             \E k \in DOMAIN Without(rows) : Without(rows)[k] = claims[i]
  BY <1>2, WithoutKeeps
<1>4. \A i \in rows : claims[i].code \in DOMAIN packs => claims[i].code \in codes
  OBVIOUS
<1>5. codes \in SUBSET DOMAIN packs
  OBVIOUS
<1> HIDE DEF rows, codes
<1> QED
  BY <1>1, <1>3, <1>4, <1>5

LEMMA StepTyped == NInv /\ [Next]_nftVars => NInv'
<1> SUFFICES ASSUME NInv, [Next]_nftVars PROVE NInv'
  OBVIOUS
<1>1. /\ PacksSound(packs) /\ nfts \in [Nft -> Nat] /\ coins \in [Bank -> Nat]
      /\ OthersOK /\ claims \in Seq(Claim) /\ AmaxToken \in Bank
  BY NftRedPackAssumption DEF NInv, OwnedOK, ClaimsOK
<1>2. ASSUME UNCHANGED <<packs, nfts, coins>>, OthersOK', ClaimsOK' PROVE NInv'
  BY <1>1, <1>2 DEF NInv, OwnedOK, PacksSound
<1>3. ASSUME NEW a \in Sender, NEW q \in Quantity, NEW c \in Code, NEW n \in Nft,
             NEW k \in Count, on_fee_transfer(a, q, c, n, k)
      PROVE  NInv'
  <2> DEFINE p == NewPack(a, n, k, q, "init")
  <2>1. /\ Sound(p) /\ packs' = Put(packs, c, p) /\ q \in Nat
        /\ coins' = [coins EXCEPT ![AmaxToken] = @ + q]
        /\ UNCHANGED <<claims, fees, gstate, nfts, now>>
    BY <1>3, FeeTransferDoes
  <2> HIDE DEF p
  <2>2. PacksSound(packs')
    BY <1>1, <2>1, PutSound
  <2>3. coins' \in [Bank -> Nat]
    BY <1>1, <2>1
  <2> QED
    BY <1>1, <2>1, <2>2, <2>3 DEF NInv, OwnedOK, OthersOK, ClaimsOK
<1>4. ASSUME NEW a \in Sender, NEW n \in Nft, NEW k \in Count, NEW c \in Code,
             ontransfer(a, n, k, c)
      PROVE  NInv'
  <2>1. /\ k \in Nat /\ nfts' = [nfts EXCEPT ![n] = @ + k]
        /\ UNCHANGED <<claims, fees, gstate, coins, now>>
        /\ \E p : Sound(p) /\ packs' = Put(packs, c, p)
    BY <1>4, TransferDoes
  <2>2. PacksSound(packs')
    BY <1>1, <2>1, PutSound
  <2>3. nfts' \in [Nft -> Nat]
    BY <1>1, <2>1
  <2> QED
    BY <1>1, <2>1, <2>2, <2>3 DEF NInv, OwnedOK, OthersOK, ClaimsOK
<1>5. ASSUME NEW a \in Account, NEW c \in DOMAIN packs, claimredpack(a, c)
      PROVE  NInv'
  <2> DEFINE p == packs[c]
  <2>1. /\ Sound(p) /\ p.status = "created" /\ p.nft \in Nft
        /\ packs' = [packs EXCEPT ![c] = Claimed(p)]
        /\ nfts[p.nft] >= 1 /\ nfts' = [nfts EXCEPT ![p.nft] = @ - 1]
        /\ claims' = Append(claims, [code |-> c, receiver |-> a])
        /\ UNCHANGED <<fees, gstate, coins, now>>
    BY <1>5, ClaimDoes
  <2> HIDE DEF p
  <2>2. Sound(Claimed(p))
    BY <2>1, ClaimedSound
  <2>3. PacksSound(packs')
    BY <1>1, <2>1, <2>2, ReplaceSound
  <2>4. nfts' \in [Nft -> Nat]
    BY <1>1, <2>1
  <2>5. [code |-> c, receiver |-> a] \in Claim
    BY <1>1 DEF Claim, PacksSound
  <2>6. claims' \in Seq(Claim)
    BY <1>1, <2>1, <2>5
  <2> QED
    BY <1>1, <2>1, <2>3, <2>4, <2>6 DEF NInv, OwnedOK, OthersOK, ClaimsOK
<1>6. ASSUME NEW c \in Code, cancel(c) PROVE NInv'
  <2>1. PacksSound(packs') /\ OwnedOK'
    BY <1>6, CancelDoes, DeletedTyped
  <2>2. UNCHANGED <<claims, fees, gstate, now>>
    BY <1>6, CancelDoes
  <2> QED
    BY <1>1, <2>1, <2>2 DEF NInv, OthersOK, ClaimsOK
<1>7. ASSUME NEW c \in AdminCode, delredpacks(c) PROVE NInv'
  <2>1. PacksSound(packs')
    BY <1>1, <1>7, DropSound DEF delredpacks
  <2> QED
    BY <1>1, <1>7, <2>1 DEF delredpacks, NInv, OwnedOK, OthersOK, ClaimsOK
<1>8. ASSUME NEW n \in MaxRows, delclaims(n) PROVE NInv'
  <2>1. /\ UNCHANGED <<fees, gstate, now>> /\ claims' \in Seq(Claim)
        /\ \E codes \in SUBSET DOMAIN packs : DelRedpacks(codes)
    BY <1>8, DelclaimsDoes
  <2>2. PacksSound(packs') /\ OwnedOK'
    BY <2>1, DeletedTyped
  <2> QED
    BY <1>1, <2>1, <2>2 DEF NInv, OthersOK, ClaimsOK
<1> QED
  BY <1>2, <1>3, <1>4, <1>5, <1>6, <1>7, <1>8, OtherStepsTyped

LEMMA Invariance == Spec => []NInv
BY InitTyped, StepTyped, PTL DEF Spec

\* Type invariant; a packet's status agrees with what remains of it.
THEOREM NftTypes == Spec => []NftTypeOK
BY Invariance, NInvIsTyped, PTL
-----------------------------------------------------------------------------
(* What packets hold and may be paid back *)

HeldOf(ps, n) == {c \in DOMAIN ps : ps[c].status = "created" /\ ps[c].nft = n}
Owing(ps) == {c \in DOMAIN ps : ps[c].status # "finished"}
Owed == SumFunctionOnSet(Refunds, Owing(packs))

LEMMA Holdings ==
    /\ \A n : Held(n) = SumFunctionOnSet(Remains, HeldOf(packs, n))
    /\ FeesCover <=> coins[AmaxToken] >= Owed
BY DEF Held, HeldOf, Live, FeesCover, Owed, Owing

\* The sums over packets whose row the step leaves alone.
LEMMA SumsOfPacksNext ==
    ASSUME PacksSound(packs)', NEW S \in SUBSET DOMAIN packs'
    PROVE  /\ \A c \in S : Remains'[c] \in Nat /\ Refunds'[c] \in Nat
           /\ SumFunctionOnSet(Remains', S) \in Nat
           /\ SumFunctionOnSet(Refunds', S) \in Nat
<1>1. IsFiniteSet(S)
  BY FS_Subset DEF PacksSound
<1>2. \A c \in S : Remains'[c] \in Nat /\ Refunds'[c] \in Nat
  BY RefundIsNat DEF Remains, Refunds, PacksSound
<1> QED
  BY <1>1, <1>2, SumIsNat

LEMMA SameRows ==
    ASSUME PacksSound(packs), NEW S \in SUBSET DOMAIN packs,
           S \subseteq DOMAIN packs', \A c \in S : packs'[c] = packs[c]
    PROVE  /\ SumFunctionOnSet(Remains', S) = SumFunctionOnSet(Remains, S)
           /\ SumFunctionOnSet(Refunds', S) = SumFunctionOnSet(Refunds, S)
<1>1. IsFiniteSet(S)
  BY SumsOfPacks
<1>2. \A c \in S : Remains'[c] = Remains[c] /\ Refunds'[c] = Refunds[c]
  BY DEF Remains, Refunds, Refund
<1> QED
  BY <1>1, <1>2, SumAgrees

\* A step that may change the row of one packet.
LEMMA OneRow ==
    ASSUME NInv, NInv', NEW code, DOMAIN packs' \ {code} = DOMAIN packs \ {code},
           \A c \in DOMAIN packs \ {code} : packs'[c] = packs[c]
    PROVE  /\ \A n \in Nft :
                 /\ Held(n) \in Nat /\ Held(n)' \in Nat
                 /\ Held(n)' - Summand(Remains', HeldOf(packs', n), code)
                        = Held(n) - Summand(Remains, HeldOf(packs, n), code)
           /\ Owed \in Nat /\ Owed' \in Nat
           /\ Owed' - Summand(Refunds', Owing(packs'), code)
                  = Owed - Summand(Refunds, Owing(packs), code)
<1>1. ASSUME NEW n \in Nft
      PROVE  /\ Held(n) \in Nat /\ Held(n)' \in Nat
             /\ Held(n)' - Summand(Remains', HeldOf(packs', n), code)
                    = Held(n) - Summand(Remains, HeldOf(packs, n), code)
  <2> DEFINE S == HeldOf(packs, n)
             T == HeldOf(packs', n)
  <2>1. /\ T \ {code} = S \ {code}
        /\ \A c \in S \ {code} : Remains'[c] = Remains[c]
    BY DEF HeldOf, Remains
  <2>2. S \in SUBSET DOMAIN packs /\ T \in SUBSET DOMAIN packs'
    BY DEF HeldOf
  <2> HIDE DEF S, T
  <2>3. /\ IsFiniteSet(S) /\ \A c \in S : Remains[c] \in Int
        /\ SumFunctionOnSet(Remains, S) \in Nat
    BY <2>2, SumsOfPacks DEF NInv
  <2>4. /\ \A c \in T : Remains'[c] \in Int
        /\ SumFunctionOnSet(Remains', T) \in Nat
    BY <2>2, SumsOfPacksNext DEF NInv
  <2>5. SumFunctionOnSet(Remains', T) - Summand(Remains', T, code)
            = SumFunctionOnSet(Remains, S) - Summand(Remains, S, code)
    BY <2>1, <2>3, <2>4, SumMoves
  <2>6. /\ Held(n) = SumFunctionOnSet(Remains, S)
        /\ Held(n)' = SumFunctionOnSet(Remains', T)
    BY DEF Held, HeldOf, Live, S, T
  <2> QED
    BY <2>3, <2>4, <2>5, <2>6 DEF S, T
<1>2. /\ Owed \in Nat /\ Owed' \in Nat
      /\ Owed' - Summand(Refunds', Owing(packs'), code)
             = Owed - Summand(Refunds, Owing(packs), code)
  <2> DEFINE S == Owing(packs)
             T == Owing(packs')
  <2>1. /\ T \ {code} = S \ {code}
        /\ \A c \in S \ {code} : Refunds'[c] = Refunds[c]
    BY DEF Owing, Refunds, Refund
  <2>2. S \in SUBSET DOMAIN packs /\ T \in SUBSET DOMAIN packs'
    BY DEF Owing
  <2> HIDE DEF S, T
  <2>3. /\ IsFiniteSet(S) /\ \A c \in S : Refunds[c] \in Int
        /\ SumFunctionOnSet(Refunds, S) \in Nat
    BY <2>2, SumsOfPacks DEF NInv
  <2>4. /\ \A c \in T : Refunds'[c] \in Int
        /\ SumFunctionOnSet(Refunds', T) \in Nat
    BY <2>2, SumsOfPacksNext DEF NInv
  <2>5. SumFunctionOnSet(Refunds', T) - Summand(Refunds', T, code)
            = SumFunctionOnSet(Refunds, S) - Summand(Refunds, S, code)
    BY <2>1, <2>3, <2>4, SumMoves
  <2>6. Owed = SumFunctionOnSet(Refunds, S) /\ Owed' = SumFunctionOnSet(Refunds', T)
    BY DEF Owed, S, T
  <2> QED
    BY <2>3, <2>4, <2>5, <2>6 DEF S, T
<1> QED
  BY <1>1, <1>2

\* What is left of the sums when packets are dropped.
LEMMA DroppedSums ==
    ASSUME NInv, NEW codes, packs' = Drop(packs, codes)
    PROVE  /\ \A n \in Nft :
                 Held(n)' = Held(n) - SumFunctionOnSet(Remains, HeldOf(packs, n) \cap codes)
           /\ Owed' = Owed - SumFunctionOnSet(Refunds, Owing(packs) \cap codes)
<1>1. PacksSound(packs)
  BY DEF NInv
<1>2. ASSUME NEW n \in Nft
      PROVE  Held(n)' = Held(n) - SumFunctionOnSet(Remains, HeldOf(packs, n) \cap codes)
  <2> DEFINE S == HeldOf(packs, n)
             U == S \cap codes
             V == S \ U
  <2>1. S \in SUBSET DOMAIN packs /\ U \in SUBSET S
    BY DEF HeldOf
  <2>2. V = HeldOf(packs', n) /\ V \in SUBSET DOMAIN packs
    BY DEF HeldOf, Drop
  <2>3. V \subseteq DOMAIN packs' /\ \A c \in V : packs'[c] = packs[c]
    BY DEF HeldOf, Drop
  <2> HIDE DEF V
  <2>4. SumFunctionOnSet(Remains', V) = SumFunctionOnSet(Remains, V)
    BY <1>1, <2>2, <2>3, SameRows
  <2> HIDE DEF S, U
  <2>5. /\ IsFiniteSet(S) /\ \A c \in S : Remains[c] \in Int
        /\ SumFunctionOnSet(Remains, U) \in Int
        /\ SumFunctionOnSet(Remains, V) \in Int
    BY <1>1, <2>1, <2>2, SumsOfPacks
  <2>6. SumFunctionOnSet(Remains, S)
            = SumFunctionOnSet(Remains, U) + SumFunctionOnSet(Remains, V)
    BY <2>1, <2>5, SumSplits DEF V
  <2>7. Held(n) = SumFunctionOnSet(Remains, S)
    BY Holdings DEF S
  <2>8. Held(n)' = SumFunctionOnSet(Remains', V)
    BY <2>2 DEF Held, HeldOf, Live
  <2> QED
    BY <2>4, <2>5, <2>6, <2>7, <2>8 DEF S, U
<1>3. Owed' = Owed - SumFunctionOnSet(Refunds, Owing(packs) \cap codes)
  <2> DEFINE S == Owing(packs)
             U == S \cap codes
             V == S \ U
  <2>1. S \in SUBSET DOMAIN packs /\ U \in SUBSET S
    BY DEF Owing
  <2>2. V = Owing(packs') /\ V \in SUBSET DOMAIN packs
    BY DEF Owing, Drop
  <2>3. V \subseteq DOMAIN packs' /\ \A c \in V : packs'[c] = packs[c]
    BY DEF Owing, Drop
  <2> HIDE DEF V
  <2>4. SumFunctionOnSet(Refunds', V) = SumFunctionOnSet(Refunds, V)
    BY <1>1, <2>2, <2>3, SameRows
  <2> HIDE DEF S, U
  <2>5. /\ IsFiniteSet(S) /\ \A c \in S : Refunds[c] \in Int
        /\ SumFunctionOnSet(Refunds, U) \in Int
        /\ SumFunctionOnSet(Refunds, V) \in Int
    BY <1>1, <2>1, <2>2, SumsOfPacks
  <2>6. SumFunctionOnSet(Refunds, S)
            = SumFunctionOnSet(Refunds, U) + SumFunctionOnSet(Refunds, V)
    BY <2>1, <2>5, SumSplits DEF V
  <2>7. Owed = SumFunctionOnSet(Refunds, S) /\ Owed' = SumFunctionOnSet(Refunds', V)
    BY <2>2 DEF Owed, S
  <2> QED
    BY <2>4, <2>5, <2>6, <2>7 DEF S, U
<1> QED
  BY <1>2, <1>3

\* Deleting packets pays out what they hold and no more than is owed for them.
LEMMA DeletedSums ==
    ASSUME NInv, NEW codes \in SUBSET DOMAIN packs, DelRedpacks(codes)
    PROVE  /\ \A n \in Nft : nfts'[n] - Held(n)' = nfts[n] - Held(n)
           /\ FeesCover => FeesCover'
<1> DEFINE live == {c \in codes : Live(c)}
           bank(c) == fees[Contract(packs[c].nft)].bank
           goes(n) == SumFunctionOnSet(Remains, {c \in live : packs[c].nft = n})
           due == {c \in live : bank(c) = AmaxToken}
           U == Owing(packs) \cap codes
           paid == SumFunctionOnSet(Refunds, due)
           dropped == SumFunctionOnSet(Refunds, U)
<1>1. PacksSound(packs) /\ OwnedOK /\ AmaxToken \in Bank
  BY NftRedPackAssumption DEF NInv
<1>2. packs' = Drop(packs, codes)
  BY DEF DelRedpacks
<1>3. ASSUME NEW n \in Nft PROVE nfts'[n] - Held(n)' = nfts[n] - Held(n)
  <2>1. nfts'[n] = nfts[n] - goes(n)
    BY DEF DelRedpacks
  <2>2. {c \in live : packs[c].nft = n} = HeldOf(packs, n) \cap codes
    BY DEF HeldOf, Live
  <2>3. Held(n)' = Held(n) - goes(n)
    BY <1>2, <2>2, DroppedSums
  <2>4. HeldOf(packs, n) \in SUBSET DOMAIN packs
        /\ {c \in live : packs[c].nft = n} \in SUBSET DOMAIN packs
    BY DEF HeldOf
  <2>5. Held(n) \in Int /\ goes(n) \in Int /\ nfts[n] \in Int
    BY <1>1, <2>4, Holdings, SumsOfPacks DEF OwnedOK
  <2> HIDE DEF goes
  <2> QED
    BY <2>1, <2>3, <2>5
<1>4. coins'[AmaxToken] = coins[AmaxToken] - paid
  BY <1>1 DEF DelRedpacks
<1>5. Owed' = Owed - dropped
  BY <1>2, DroppedSums
<1>6. /\ due \in SUBSET U /\ U \in SUBSET DOMAIN packs /\ U \ due \in SUBSET DOMAIN packs
      /\ due \in SUBSET DOMAIN packs /\ Owing(packs) \in SUBSET DOMAIN packs
  BY DEF Owing, Live
<1> HIDE DEF due, U
<1>7. /\ IsFiniteSet(U) /\ (\A c \in U : Refunds[c] \in Int)
      /\ SumFunctionOnSet(Refunds, U \ due) \in Nat
      /\ paid \in Int /\ dropped \in Int /\ Owed \in Int
  BY <1>1, <1>6, SumsOfPacks DEF Owed
<1>8. dropped = paid + SumFunctionOnSet(Refunds, U \ due)
  BY <1>6, <1>7, SumSplits
<1>9. coins[AmaxToken] \in Int
  BY <1>1 DEF OwnedOK
<1> HIDE DEF paid, dropped
<1>10. coins[AmaxToken] >= Owed => coins'[AmaxToken] >= Owed'
  BY <1>4, <1>5, <1>7, <1>8, <1>9
<1>11. FeesCover' <=> coins'[AmaxToken] >= Owed'
  BY DEF FeesCover, Owed, Owing
<1> QED
  BY <1>3, <1>10, <1>11, Holdings

\* What the contract owns of an NFT beyond what live packets hold of it changes
\* in a step of delredpacks, and at no other time.
Exact == \A n \in Nft : nfts'[n] - Held(n)' = nfts[n] - Held(n)

Erases ==
    /\ nfts' = nfts
    /\ \E c \in AdminCode : delredpacks(c)
    /\ \A n \in Nft : Held(n)' <= Held(n)

LEMMA StepAccounts ==
    NInv /\ NInv' /\ [Next]_nftVars
        => (Exact \/ Erases) /\ (FeesCover => FeesCover')
<1> SUFFICES ASSUME NInv, NInv', [Next]_nftVars
             PROVE  (Exact \/ Erases) /\ (FeesCover => FeesCover')
  OBVIOUS
<1> DEFINE Kept == (Exact \/ Erases) /\ (FeesCover => FeesCover')
<1>1. /\ PacksSound(packs) /\ nfts \in [Nft -> Nat] /\ coins \in [Bank -> Nat]
      /\ AmaxToken \in Bank
      /\ \A n \in Nft : nfts[n] \in Int /\ nfts'[n] \in Int
      /\ coins[AmaxToken] \in Int /\ coins'[AmaxToken] \in Int
  BY NftRedPackAssumption DEF NInv, OwnedOK
<1>2. FeesCover' <=> coins'[AmaxToken] >= Owed'
  BY DEF FeesCover, Owed, Owing
<1>3. ASSUME UNCHANGED <<packs, nfts, coins>> PROVE Kept
  BY <1>3 DEF Exact, Held, Live, Remains, FeesCover, Refunds, Refund
<1>4. ASSUME NEW a \in Sender, NEW q \in Quantity, NEW c \in Code, NEW n \in Nft,
             NEW k \in Count, on_fee_transfer(a, q, c, n, k)
      PROVE  Kept
  <2> DEFINE p == NewPack(a, n, k, q, "init")
  <2>1. /\ Sound(p) /\ c \notin DOMAIN packs /\ p.status = "init"
        /\ p.fee = q /\ p.remain = k /\ p.total = k
        /\ q \in Nat /\ k \in Nat /\ k > 0
        /\ packs' = Put(packs, c, p)
        /\ coins' = [coins EXCEPT ![AmaxToken] = @ + q]
        /\ nfts' = nfts
    BY <1>4, FeeTransferDoes
  <2> HIDE DEF p
  <2>2. /\ DOMAIN packs' = DOMAIN packs \cup {c} /\ packs'[c] = p
        /\ \A d \in DOMAIN packs \ {c} : packs'[d] = packs[d]
    BY <2>1 DEF Put
  <2>3. /\ \A m \in Nft : /\ c \notin HeldOf(packs', m)
                          /\ c \notin HeldOf(packs, m)
        /\ c \notin Owing(packs) /\ c \in Owing(packs') /\ Refunds'[c] = Refund(p)
    BY <2>1, <2>2 DEF HeldOf, Owing, Refunds, Refund
  <2>4. ASSUME NEW m \in Nft PROVE Held(m)' - 0 = Held(m) - 0
    BY <2>1, <2>2, <2>3, OneRow DEF Summand
  <2>5. \A m \in Nft : Held(m) \in Nat /\ Held(m)' \in Nat
    BY <2>2, OneRow
  <2>6. Exact
    BY <1>1, <2>1, <2>4, <2>5 DEF Exact
  <2>7. Owed' - Refund(p) = Owed - 0 /\ Owed \in Nat /\ Owed' \in Nat
    BY <2>1, <2>2, <2>3, OneRow DEF Summand
  <2>8. Refund(p) \in Nat /\ Refund(p) <= q
    BY <2>1, RefundIsNat, Rounded DEF Refund
  <2>9. coins'[AmaxToken] = coins[AmaxToken] + q
    BY <1>1, <2>1
  <2>10. coins[AmaxToken] >= Owed => coins'[AmaxToken] >= Owed'
    BY <1>1, <2>1, <2>7, <2>8, <2>9
  <2> QED
    BY <1>2, <2>6, <2>10, Holdings
<1>5. ASSUME NEW a \in Sender, NEW n \in Nft, NEW k \in Count, NEW c \in Code,
             ontransfer(a, n, k, c)
      PROVE  Kept
  <2>1. PICK p : /\ Sound(p) /\ p.nft = n /\ p.remain = k /\ p.status = "created"
                 /\ packs' = Put(packs, c, p)
                 /\ IF c \in DOMAIN packs
                    THEN /\ packs[c].status = "init" /\ packs[c].nft = n
                         /\ Refund(p) = Refund(packs[c])
                    ELSE Refund(p) = 0
    BY <1>5, TransferDoes
  <2>2. k \in Nat /\ nfts' = [nfts EXCEPT ![n] = @ + k] /\ coins' = coins
    BY <1>5, TransferDoes
  <2>3. /\ DOMAIN packs' = DOMAIN packs \cup {c} /\ packs'[c] = p
        /\ \A d \in DOMAIN packs \ {c} : packs'[d] = packs[d]
    BY <2>1 DEF Put
  <2>4. Remains'[c] = k /\ Refunds'[c] = Refund(p)
    BY <2>1, <2>3 DEF Remains, Refunds, Refund
  <2>5. \A m \in Nft : Held(m) \in Nat /\ Held(m)' \in Nat
    BY <2>3, OneRow
  <2>6. ASSUME NEW m \in Nft PROVE nfts'[m] - Held(m)' = nfts[m] - Held(m)
    <3>1. c \notin HeldOf(packs, m)
      BY <2>1 DEF HeldOf
    <3>2. Held(m)' - Summand(Remains', HeldOf(packs', m), c) = Held(m) - 0
      BY <2>3, <3>1, OneRow DEF Summand
    <3>3. CASE m = n
      <4>1. c \in HeldOf(packs', m)
        BY <2>1, <2>3, <3>3 DEF HeldOf
      <4>2. Held(m)' - k = Held(m) - 0
        BY <2>4, <3>2, <4>1 DEF Summand
      <4>3. nfts'[m] = nfts[m] + k
        BY <1>1, <2>2, <3>3
      <4> QED
        BY <1>1, <2>2, <2>5, <4>2, <4>3
    <3>4. CASE m # n
      <4>1. c \notin HeldOf(packs', m)
        BY <2>1, <2>3, <3>4 DEF HeldOf
      <4>2. Held(m)' - 0 = Held(m) - 0
        BY <3>2, <4>1 DEF Summand
      <4>3. nfts'[m] = nfts[m]
        BY <1>1, <2>2, <3>4
      <4> QED
        BY <1>1, <2>5, <4>2, <4>3
    <3> QED
      BY <3>3, <3>4
  <2>7. Owed' = Owed
    <3>1. c \in Owing(packs')
      BY <2>1, <2>3 DEF Owing
    <3>2. /\ Owed \in Nat /\ Owed' \in Nat /\ Refund(p) \in Nat
          /\ Owed' - Refund(p) = Owed - Summand(Refunds, Owing(packs), c)
      BY <2>1, <2>3, <2>4, <3>1, OneRow, RefundIsNat DEF Summand
    <3>3. Summand(Refunds, Owing(packs), c) = Refund(p)
      BY <2>1 DEF Summand, Owing, Refunds
    <3> QED
      BY <3>2, <3>3
  <2> QED
    BY <1>2, <2>2, <2>6, <2>7, Holdings DEF Exact
<1>6. ASSUME NEW a \in Account, NEW c \in DOMAIN packs, claimredpack(a, c)
      PROVE  Kept
  <2> DEFINE p == packs[c]
             q == Claimed(p)
  <2>1. /\ Sound(p) /\ p.status = "created" /\ p.nft \in Nft
        /\ packs' = [packs EXCEPT ![c] = q]
        /\ nfts' = [nfts EXCEPT ![p.nft] = @ - 1] /\ coins' = coins
    BY <1>6, ClaimDoes
  <2>2. /\ Sound(q) /\ p.remain > 0 /\ q.remain = p.remain - 1
        /\ q.total = p.total /\ q.fee = p.fee /\ q.nft = p.nft
        /\ q.status = IF p.remain = 1 THEN "finished" ELSE "created"
    BY <2>1, ClaimedSound
  <2>3. Refund(p) \in Nat /\ Refund(q) \in Nat /\ p.remain \in Nat
    BY <2>1, <2>2, RefundIsNat
  <2>4. /\ DOMAIN packs' = DOMAIN packs /\ packs'[c] = q
        /\ \A d \in DOMAIN packs \ {c} : packs'[d] = packs[d]
    BY <2>1
  <2>5. /\ Remains[c] = p.remain /\ Remains'[c] = q.remain
        /\ Refunds[c] = Refund(p) /\ Refunds'[c] = Refund(q)
    BY <2>4 DEF Remains, Refunds, Refund
  <2>6. \A m \in Nft : Held(m) \in Nat /\ Held(m)' \in Nat
    BY <2>4, OneRow
  <2>7. ASSUME NEW m \in Nft
        PROVE  Held(m)' - Summand(Remains', HeldOf(packs', m), c)
                   = Held(m) - Summand(Remains, HeldOf(packs, m), c)
    BY <2>4, OneRow
  <2>8. /\ \A m \in Nft : c \in HeldOf(packs, m) <=> p.nft = m
        /\ \A m \in Nft : c \in HeldOf(packs', m) <=> p.nft = m /\ p.remain # 1
        /\ c \in Owing(packs) /\ (c \in Owing(packs') <=> p.remain # 1)
    BY <2>1, <2>2, <2>4 DEF HeldOf, Owing
  <2>9. /\ Owed \in Nat /\ Owed' \in Nat
        /\ Owed' - Summand(Refunds', Owing(packs'), c) = Owed - Refund(p)
    BY <2>4, <2>5, <2>8, OneRow DEF Summand
  <2>10. Summand(Refunds', Owing(packs'), c) \in Nat
         /\ Summand(Refunds', Owing(packs'), c) <= Refund(p)
    <3>1. CASE p.remain = 1
      BY <2>3, <2>8, <3>1 DEF Summand
    <3>2. CASE p.remain # 1
      <4>1. Refund(q) <= Refund(p)
        BY <2>1, <2>2, RefundFalls
      <4> QED
        BY <2>3, <2>5, <2>8, <3>2, <4>1 DEF Summand
    <3> QED
      BY <3>1, <3>2
  <2> HIDE DEF p, q
  <2>11. Owed' <= Owed
    BY <2>3, <2>9, <2>10
  <2>12. ASSUME NEW m \in Nft PROVE nfts'[m] - Held(m)' = nfts[m] - Held(m)
    <3>1. CASE m = p.nft
      <4>1. nfts'[m] = nfts[m] - 1
        BY <1>1, <2>1, <3>1
      <4>2. Summand(Remains, HeldOf(packs, m), c) = p.remain
        BY <2>5, <2>8, <3>1 DEF Summand
      <4>3. Summand(Remains', HeldOf(packs', m), c) = p.remain - 1
        BY <2>2, <2>3, <2>5, <2>8, <3>1 DEF Summand
      <4> QED
        BY <1>1, <2>3, <2>6, <2>7, <4>1, <4>2, <4>3
    <3>2. CASE m # p.nft
      <4>1. nfts'[m] = nfts[m]
        BY <1>1, <2>1, <3>2
      <4>2. Held(m)' - 0 = Held(m) - 0
        BY <2>7, <2>8, <3>2 DEF Summand
      <4> QED
        BY <1>1, <2>6, <4>1, <4>2
    <3> QED
      BY <3>1, <3>2
  <2> QED
    BY <1>1, <1>2, <2>1, <2>9, <2>11, <2>12, Holdings DEF Exact
<1>7. ASSUME NEW c \in Code, cancel(c) PROVE Kept
  BY <1>7, CancelDoes, DeletedSums DEF Exact
<1>8. ASSUME NEW c \in AdminCode, delredpacks(c) PROVE Kept
  <2> DEFINE codes == {d \in Code : d >= c}
  <2>1. packs' = Drop(packs, codes) /\ nfts' = nfts /\ coins' = coins
    BY <1>8 DEF delredpacks
  <2> HIDE DEF codes
  <2>2. /\ Owing(packs) \in SUBSET DOMAIN packs
        /\ Owing(packs) \cap codes \in SUBSET DOMAIN packs
    BY DEF Owing
  <2>3. /\ Owed \in Nat /\ Owed' = Owed - SumFunctionOnSet(Refunds, Owing(packs) \cap codes)
        /\ SumFunctionOnSet(Refunds, Owing(packs) \cap codes) \in Nat
    BY <1>1, <2>1, <2>2, DroppedSums, SumsOfPacks DEF Owed
  <2>4. FeesCover => FeesCover'
    BY <1>1, <1>2, <2>1, <2>3, Holdings
  <2>5. ASSUME NEW m \in Nft
        PROVE  /\ Held(m) \in Nat
               /\ Held(m)' = Held(m) - SumFunctionOnSet(Remains, HeldOf(packs, m) \cap codes)
               /\ SumFunctionOnSet(Remains, HeldOf(packs, m) \cap codes) \in Nat
    <3>1. /\ HeldOf(packs, m) \in SUBSET DOMAIN packs
          /\ HeldOf(packs, m) \cap codes \in SUBSET DOMAIN packs
      BY DEF HeldOf
    <3> QED
      BY <1>1, <2>1, <3>1, DroppedSums, SumsOfPacks, Holdings
  <2>6. ASSUME NEW m \in Nft PROVE Held(m)' <= Held(m)
    <3> DEFINE gone == SumFunctionOnSet(Remains, HeldOf(packs, m) \cap codes)
    <3>1. Held(m) \in Nat /\ gone \in Nat /\ Held(m)' = Held(m) - gone
      BY <2>5
    <3> HIDE DEF gone
    <3> QED
      BY <3>1
  <2> QED
    BY <1>8, <2>1, <2>4, <2>6 DEF Erases
<1>9. ASSUME NEW n \in MaxRows, delclaims(n) PROVE Kept
  BY <1>9, DelclaimsDoes, DeletedSums DEF Exact
<1> HIDE DEF Kept
<1>10. Kept
  BY <1>3, <1>4, <1>5, <1>6, <1>7, <1>8, <1>9, OtherStepsTyped
<1> QED
  BY <1>10 DEF Kept

\* The contract owns the NFTs of every live packet, all of them at once
\* (redpack.cpp:120-126, 163-172, 201-202).
THEOREM NftsOfPackets == Spec => []NftsCover
<1>1. Init => NftsCover
  <2> SUFFICES ASSUME Init PROVE NftsCover
    OBVIOUS
  <2>1. DOMAIN packs = {} /\ \A n \in Nft : nfts[n] = 0
    BY DEF Init, EmptyTable
  <2>2. \A n : HeldOf(packs, n) = {}
    BY <2>1 DEF HeldOf
  <2>3. \A n : Held(n) = 0
    BY <2>2, Holdings, SumOfNone
  <2> QED
    BY <2>1, <2>3 DEF NftsCover
<1>2. NInv /\ NInv' /\ NftsCover /\ [Next]_nftVars => NftsCover'
  <2> SUFFICES ASSUME NInv, NInv', NftsCover, [Next]_nftVars, NEW n \in Nft
               PROVE  nfts'[n] >= Held(n)'
    BY DEF NftsCover
  <2>1. nfts[n] >= Held(n) /\ nfts[n] \in Int /\ nfts'[n] \in Int
    BY DEF NftsCover, NInv, OwnedOK
  <2>2. /\ HeldOf(packs, n) \in SUBSET DOMAIN packs
        /\ HeldOf(packs', n) \in SUBSET DOMAIN packs'
    BY DEF HeldOf
  <2>3. /\ Held(n) = SumFunctionOnSet(Remains, HeldOf(packs, n))
        /\ Held(n)' = SumFunctionOnSet(Remains', HeldOf(packs', n))
    BY DEF Held, HeldOf, Live
  <2>4. Held(n) \in Nat /\ Held(n)' \in Nat
    BY <2>2, <2>3, SumsOfPacks, SumsOfPacksNext DEF NInv
  <2>5. CASE Exact
    <3>1. nfts'[n] - Held(n)' = nfts[n] - Held(n)
      BY <2>5 DEF Exact
    <3> QED
      BY <2>1, <2>4, <3>1
  <2>6. CASE Erases
    <3>1. nfts'[n] = nfts[n] /\ Held(n)' <= Held(n)
      BY <2>6 DEF Erases
    <3> QED
      BY <2>1, <2>4, <3>1
  <2> QED
    BY <2>5, <2>6, StepAccounts
<1> QED
  BY <1>1, <1>2, Invariance, PTL DEF Spec

\* The fees collected cover what deleting the packets pays back, whichever are
\* deleted first (redpack.cpp:73, 84, 205-207).
THEOREM FeesOfPackets == Spec => []FeesCover
<1>1. Init => FeesCover
  <2> SUFFICES ASSUME Init PROVE FeesCover
    OBVIOUS
  <2>1. DOMAIN packs = {} /\ coins[AmaxToken] = 0
    BY NftRedPackAssumption DEF Init, EmptyTable
  <2>2. Owing(packs) = {}
    BY <2>1 DEF Owing
  <2>3. Owed = 0
    BY <2>2, SumOfNone DEF Owed
  <2> QED
    BY <2>1, <2>3, Holdings
<1>2. NInv /\ NInv' /\ FeesCover /\ [Next]_nftVars => FeesCover'
  BY StepAccounts
<1> QED
  BY <1>1, <1>2, Invariance, PTL DEF Spec

\* NFTs that belong to no live packet come about only in a delredpacks of the
\* admin (redpack.cpp:133-144, 163-172, 201-210, 219-221).
THEOREM NftsGoWithPackets == Spec => NftsAccounted
<1>1. NInv /\ NInv' /\ [Next]_nftVars =>
        [\A n \in Nft :
            (nfts[n] - Held(n))' # nfts[n] - Held(n) =>
                \E c \in AdminCode : delredpacks(c)]_<<packs, nfts>>
  BY StepAccounts DEF Exact, Erases
<1> QED
  BY <1>1, Invariance, PTL DEF Spec, NftsAccounted
-----------------------------------------------------------------------------
(* Receivers *)

Claimers(c) == {a \in Account : HasClaimed(a, c)}

LEMMA ClaimersFinite ==
    ASSUME ClaimsOK, NEW c
    PROVE  IsFiniteSet(Claimers(c)) /\ Cardinality(Claimers(c)) \in Nat
<1> DEFINE places == 1 .. Len(claims)
           f == [i \in places |-> claims[i].receiver]
           T == {f[i] : i \in places}
<1>1. Len(claims) \in Nat /\ DOMAIN claims = places
  BY DEF ClaimsOK
<1>2. IsFiniteSet(places)
  BY <1>1, FS_Interval
<1>3. f \in Surjection(places, T)
  BY DEF Surjection
<1>4. IsFiniteSet(T)
  BY <1>2, <1>3, FS_Surjection
<1>5. Claimers(c) \subseteq T
  BY <1>1 DEF Claimers, HasClaimed
<1> QED
  BY <1>4, <1>5, FS_Subset, FS_CardinalityType

LEMMA ClaimersFiniteNext ==
    ASSUME ClaimsOK', NEW c
    PROVE  IsFiniteSet(Claimers(c)') /\ Cardinality(Claimers(c)') \in Nat
<1> DEFINE places == 1 .. Len(claims')
           f == [i \in places |-> claims'[i].receiver]
           T == {f[i] : i \in places}
<1>1. Len(claims') \in Nat /\ DOMAIN claims' = places
  BY DEF ClaimsOK
<1>2. IsFiniteSet(places)
  BY <1>1, FS_Interval
<1>3. f \in Surjection(places, T)
  BY DEF Surjection
<1>4. IsFiniteSet(T)
  BY <1>2, <1>3, FS_Surjection
<1>5. Claimers(c)' \subseteq T
  BY <1>1 DEF Claimers, HasClaimed
<1> QED
  BY <1>4, <1>5, FS_Subset, FS_CardinalityType

PaidFor(c) ==
    Live(c) => Cardinality(Claimers(c)) >= packs[c].total - packs[c].remain

\* A packet the step leaves alone, whose claims it keeps.
LEMMA KeptPaid ==
    ASSUME ClaimsOK, ClaimsOK', NEW c, PaidFor(c), PacksSound(packs),
           c \in DOMAIN packs, packs'[c] = packs[c],
           Claimers(c) \subseteq Claimers(c)'
    PROVE  PaidFor(c)'
<1>1. /\ IsFiniteSet(Claimers(c)) /\ Cardinality(Claimers(c)) \in Nat
      /\ IsFiniteSet(Claimers(c)') /\ Cardinality(Claimers(c)') \in Nat
  BY ClaimersFinite, ClaimersFiniteNext
<1>2. Cardinality(Claimers(c)) <= Cardinality(Claimers(c)')
  BY <1>1, FS_Subset
<1>3. packs[c].total \in Int /\ packs[c].remain \in Int
  BY DEF PacksSound, Sound, Pack
<1> QED
  BY <1>1, <1>2, <1>3 DEF PaidFor, Live

LEMMA SameClaims ==
    ASSUME NEW c, claims' = claims
    PROVE  Claimers(c)' = Claimers(c)
BY DEF Claimers, HasClaimed

LEMMA StepPays == NInv /\ NInv' /\ PaidOnce /\ [Next]_nftVars => PaidOnce'
<1> SUFFICES ASSUME NInv, NInv', PaidOnce, [Next]_nftVars,
                    NEW code \in DOMAIN packs'
             PROVE  PaidFor(code)'
  BY DEF PaidOnce, PaidFor, Live, Claimers
<1>1. /\ PacksSound(packs) /\ ClaimsOK /\ ClaimsOK'
      /\ \A c \in DOMAIN packs : PaidFor(c)
  BY DEF NInv, PaidOnce, PaidFor, Claimers
<1>2. ASSUME code \in DOMAIN packs, packs'[code] = packs[code], claims' = claims
      PROVE  PaidFor(code)'
  BY <1>1, <1>2, KeptPaid, SameClaims
<1>3. ASSUME packs'[code].total \in Int,
             Live(code)' => packs'[code].remain = packs'[code].total
      PROVE  PaidFor(code)'
  <2>1. Cardinality(Claimers(code)') \in Nat
    BY <1>1, ClaimersFiniteNext
  <2> QED
    BY <1>3, <2>1 DEF PaidFor, Live
<1>4. ASSUME UNCHANGED <<packs, claims, nfts, coins>> PROVE PaidFor(code)'
  BY <1>2, <1>4
<1>5. ASSUME NEW a \in Sender, NEW q \in Quantity, NEW c \in Code, NEW n \in Nft,
             NEW k \in Count, on_fee_transfer(a, q, c, n, k)
      PROVE  PaidFor(code)'
  <2> DEFINE p == NewPack(a, n, k, q, "init")
  <2>1. /\ p.status = "init" /\ k \in Nat /\ p.total = k
        /\ packs' = Put(packs, c, p) /\ claims' = claims
    BY <1>5, FeeTransferDoes
  <2> HIDE DEF p
  <2>2. CASE code = c
    <3>1. packs'[code] = p
      BY <2>1, <2>2 DEF Put
    <3> QED
      BY <1>3, <2>1, <3>1 DEF Live
  <2>3. CASE code # c
    <3>1. code \in DOMAIN packs /\ packs'[code] = packs[code]
      BY <2>1, <2>3 DEF Put
    <3> QED
      BY <1>2, <2>1, <3>1
  <2> QED
    BY <2>2, <2>3
<1>6. ASSUME NEW a \in Sender, NEW n \in Nft, NEW k \in Count, NEW c \in Code,
             ontransfer(a, n, k, c)
      PROVE  PaidFor(code)'
  <2>1. k \in Nat /\ claims' = claims
    BY <1>6, TransferDoes
  <2>2. PICK p : p.total = k /\ p.remain = k /\ packs' = Put(packs, c, p)
    BY <1>6, TransferDoes
  <2>3. CASE code = c
    <3>1. packs'[code] = p
      BY <2>2, <2>3 DEF Put
    <3> QED
      BY <1>3, <2>1, <2>2, <3>1
  <2>4. CASE code # c
    <3>1. code \in DOMAIN packs /\ packs'[code] = packs[code]
      BY <2>2, <2>4 DEF Put
    <3> QED
      BY <1>2, <2>1, <3>1
  <2> QED
    BY <2>3, <2>4
<1>7. ASSUME NEW a \in Account, NEW c \in DOMAIN packs, claimredpack(a, c)
      PROVE  PaidFor(code)'
  <2> DEFINE p == packs[c]
             q == Claimed(p)
             row == [code |-> c, receiver |-> a]
  <2>1. /\ Sound(p) /\ p.status = "created" /\ packs' = [packs EXCEPT ![c] = q]
        /\ ~HasClaimed(a, c) /\ claims' = Append(claims, row)
    BY <1>7, ClaimDoes
  <2>2. p.remain \in Int /\ p.total \in Int /\ q.remain = p.remain - 1 /\ q.total = p.total
    BY <2>1, ClaimedSound DEF Sound, Pack
  <2>3. packs'[c] = q /\ code \in DOMAIN packs /\ \A d \in DOMAIN packs \ {c} : packs'[d] = packs[d]
    BY <2>1
  <2> HIDE DEF q
  <2>4. /\ DOMAIN claims' = DOMAIN claims \cup {Len(claims) + 1}
        /\ \A i \in DOMAIN claims : claims'[i] = claims[i]
        /\ claims'[Len(claims) + 1] = row
    BY <1>1, <2>1 DEF ClaimsOK
  <2>5. /\ \A d : Claimers(d) \subseteq Claimers(d)'
        /\ a \in Claimers(c)' /\ a \notin Claimers(c)
    BY <2>1, <2>4 DEF Claimers, HasClaimed
  <2>6. CASE code # c
    BY <1>1, <2>3, <2>5, <2>6, KeptPaid
  <2>7. CASE code = c
    <3> DEFINE S == Claimers(c)
               T == Claimers(c)'
    <3>1. /\ IsFiniteSet(S) /\ Cardinality(S) \in Nat
          /\ IsFiniteSet(T) /\ Cardinality(T) \in Nat
      BY <1>1, ClaimersFinite, ClaimersFiniteNext
    <3>2. S \cup {a} \subseteq T /\ a \notin S
      BY <2>5
    <3>3. Cardinality(S) >= p.total - p.remain
      BY <1>1, <2>1 DEF PaidFor, Live
    <3> HIDE DEF S, T
    <3>4. /\ Cardinality(S \cup {a}) = Cardinality(S) + 1
          /\ Cardinality(S \cup {a}) <= Cardinality(T)
      BY <3>1, <3>2, FS_AddElement, FS_Subset
    <3> HIDE DEF p
    <3>5. Cardinality(T) >= q.total - q.remain
      BY <2>2, <3>1, <3>3, <3>4
    <3> QED
      BY <2>3, <2>7, <3>5 DEF PaidFor, T
  <2> QED
    BY <2>6, <2>7
<1>8. ASSUME NEW c \in Code, cancel(c) PROVE PaidFor(code)'
  <2>1. packs' = Drop(packs, {c}) /\ claims' = claims
    BY <1>8 DEF cancel, DelRedpacks
  <2>2. code \in DOMAIN packs /\ packs'[code] = packs[code]
    BY <2>1 DEF Drop
  <2> QED
    BY <1>2, <2>1, <2>2
<1>9. ASSUME NEW c \in AdminCode, delredpacks(c) PROVE PaidFor(code)'
  <2> DEFINE codes == {d \in Code : d >= c}
  <2>1. packs' = Drop(packs, codes) /\ claims' = claims
    BY <1>9 DEF delredpacks
  <2>2. code \in DOMAIN packs /\ packs'[code] = packs[code]
    BY <2>1 DEF Drop
  <2> QED
    BY <1>2, <2>1, <2>2
<1>10. ASSUME NEW n \in MaxRows, delclaims(n) PROVE PaidFor(code)'
  <2>1. PICK codes \in SUBSET DOMAIN packs :
            /\ DelRedpacks(codes)
            /\ \A i \in DOMAIN claims :
                  claims[i].code \in DOMAIN packs \ codes =>
                      \E k \in DOMAIN claims' : claims'[k] = claims[i]
    BY <1>10, DelclaimsDoes
  <2>2. packs' = Drop(packs, codes)
    BY <2>1 DEF DelRedpacks
  <2>3. code \in DOMAIN packs \ codes /\ packs'[code] = packs[code]
    BY <2>2 DEF Drop
  <2>4. Claimers(code) \subseteq Claimers(code)'
    BY <2>1, <2>3 DEF Claimers, HasClaimed
  <2> QED
    BY <1>1, <2>3, <2>4, KeptPaid
<1> QED
  BY <1>4, <1>5, <1>6, <1>7, <1>8, <1>9, <1>10, OtherStepsTyped

\* Every unit a live packet gave went to another receiver: the claims that
\* prove it outlive every clean-up of the table (redpack.cpp:161, 234-247).
THEOREM EveryUnitClaimed == Spec => []PaidOnce
<1>1. Init => PaidOnce
  BY DEF Init, EmptyTable, PaidOnce
<1>2. NInv /\ NInv' /\ PaidOnce /\ [Next]_nftVars => PaidOnce'
  BY StepPays
<1> QED
  BY <1>1, <1>2, Invariance, PTL DEF Spec
=============================================================================
