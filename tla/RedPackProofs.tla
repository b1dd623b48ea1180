--------------------------- MODULE RedPackProofs ---------------------------
(***************************************************************************)
(* For any deposits, receivers and tokens: whatever the block hashes give, *)
(* a packet can pay everyone who is left, and packets of tokens with more  *)
(* than two decimals keep their deposits apart.                            *)
(***************************************************************************)
EXTENDS RedPack, SumsProofs

-----------------------------------------------------------------------------
(* Shares *)

LEMMA Division ==
    ASSUME NEW n \in Int, NEW d \in Nat \ {0}
    PROVE  /\ n \div d \in Int
           /\ d * (n \div d) <= n
           /\ n < d * (n \div d) + d
           /\ n >= 0 => n \div d >= 0
OBVIOUS

\* n receivers are left of whom one takes k hundreds: what the others need.
LEMMA HundredsLeft ==
    ASSUME NEW n \in Nat, NEW k \in Nat, n >= 2, k >= 2
    PROVE  100 * (k * n) > 198 * (n - 2 + k)
<1> DEFINE i == n - 2
           j == k - 2
<1>1. i \in Nat /\ j \in Nat /\ n = i + 2 /\ k = j + 2
  OBVIOUS
<1> HIDE DEF i, j
<1>2. j * i \in Nat
  BY <1>1
<1>3. k * n = j * i + 2 * i + 2 * j + 4
  BY <1>1
<1> QED
  BY <1>1, <1>2, <1>3

\* A random share that is not the last leaves more than the minimum for each
\* but one of the others, whatever the factor.
LEMMA RandLeaves ==
    ASSUME NEW t \in Token, Precision[t] > 2,
           NEW r \in Nat, NEW n \in Nat, n >= 2, r > 100 * (n - 1),
           NEW f \in Factors(t)
    PROVE  LET share == rand(t, (r \div n) * 2, f)
           IN  share \in Nat /\ share > 0 /\ r - share > 100 * (n - 2)
<1> DEFINE m == r \div n
           h == ((m * 2) * f) \div 100
           k == h \div 100
           share == rand(t, m * 2, f)
<1>1. Unit(t) = 100 /\ f \in 0 .. 99
  BY RedPackAssumption DEF Unit, Factors
<1>2. m \in Nat /\ n * m <= r
  BY Division
<1>3. (m * 2) * f \in Nat /\ (m * 2) * f <= 198 * m
  BY <1>1, <1>2
<1> HIDE DEF m
<1>4. h \in Nat /\ 100 * h <= (m * 2) * f
  BY <1>3, Division
<1> HIDE DEF h
<1>5. k \in Nat /\ 100 * k <= h
  BY <1>4, Division
<1> HIDE DEF k
<1>6. share = IF 100 * k < 100 THEN 100 ELSE 100 * k
  BY <1>1, <1>2, <1>5 DEF rand, h, k
<1> HIDE DEF share
<1>7. ASSUME k < 2
      PROVE  share \in Nat /\ share > 0 /\ r - share > 100 * (n - 2)
  BY <1>5, <1>6, <1>7
<1>8. ASSUME k >= 2
      PROVE  share \in Nat /\ share > 0 /\ r - share > 100 * (n - 2)
  <2>1. 10000 * k <= 198 * m
    BY <1>2, <1>3, <1>4, <1>5
  <2>2. 10000 * (k * n) <= 198 * (n * m)
    <3>1. (10000 * k) * n <= (198 * m) * n
      BY <2>1, <1>2, <1>5
    <3> QED
      BY <3>1, <1>2, <1>5
  <2>3. n * m \in Nat /\ k * n \in Nat
    BY <1>2, <1>5
  <2>4. 100 * (k * n) > 198 * (n - 2 + k)
    BY <1>5, <1>8, HundredsLeft
  <2>5. r > 100 * (n - 2 + k)
    BY <1>2, <1>5, <2>2, <2>3, <2>4
  <2> QED
    BY <1>5, <1>6, <1>8, <2>5
<1> QED
  BY <1>5, <1>7, <1>8 DEF share, m

LEMMA SmallKept == ASSUME NEW n \in 0 .. MaxAmount
                  PROVE  /\ n % WordSpan = n /\ Signed(n) = n
                         /\ n \in Nat /\ MaxAmount \in Nat
<1>1. WordSpan \in Nat \ {0} /\ MaxAmount \in Int /\ n \in Int
  BY RedPackAssumption DEF MaxAmount
<1>2. n \in Nat /\ n < WordSpan \div 2 /\ n < WordSpan
  BY <1>1 DEF MaxAmount
<1> QED
  BY <1>1, <1>2 DEF Signed

\* A quotient of what fits in an asset, doubled, wraps nothing.
LEMMA MeanDoubled ==
    ASSUME NEW p, p.remain \in 0 .. MaxAmount,
           p.remainCount \in Nat, p.remainCount >= 2
    PROVE  /\ TwiceMean(p) = (p.remain \div p.remainCount) * 2
           /\ TwiceMean(p) \in -MaxAmount .. MaxAmount
<1> DEFINE m == p.remain \div p.remainCount
<1>1. p.remain % WordSpan = p.remain /\ p.remain \in Nat /\ MaxAmount \in Nat
  BY SmallKept
<1>2. m \in Nat /\ p.remainCount * m <= p.remain
  BY <1>1, Division
<1>3. TwiceMean(p) = Signed((m * 2) % WordSpan)
  BY <1>1 DEF TwiceMean
<1> HIDE DEF m
<1>4. m * 2 \in 0 .. MaxAmount
  <2>1. p.remainCount * m >= 2 * m
    BY <1>2
  <2> QED
    BY <1>1, <1>2, <2>1
<1>5. TwiceMean(p) = m * 2
  BY <1>3, <1>4, SmallKept
<1> QED
  BY <1>1, <1>4, <1>5 DEF m

\* Equal shares: what remains is the share of everyone left and the rest.
LEMMA EqualLeaves ==
    ASSUME NEW total \in Nat, NEW count \in Nat, NEW left \in Int,
           2 <= left, left <= count
    PROVE  LET q == total \div count
               remain == total - (count - left) * q
           IN  /\ q \in Nat /\ remain \in Int
               /\ remain - q = total - (count - (left - 1)) * q
               /\ q <= remain
               /\ left * q <= remain
<1> DEFINE q == total \div count
<1>1. q \in Nat /\ count * q <= total
  BY Division
<1> HIDE DEF q
<1>2. /\ (count - left) * q = count * q - left * q
      /\ (count - (left - 1)) * q = count * q - left * q + q
  BY <1>1
<1>3. count * q \in Nat /\ left * q \in Nat /\ q <= left * q
  <2>1. PICK e \in Nat : left = e + 1
    <3>1. left - 1 \in Nat /\ left = (left - 1) + 1
      OBVIOUS
    <3> QED
      BY <3>1
  <2>2. left * q = e * q + q /\ e * q \in Nat
    BY <1>1, <2>1
  <2> QED
    BY <1>1, <2>2
<1> QED
  BY <1>1, <1>2, <1>3 DEF q
-----------------------------------------------------------------------------
(* The inductive invariant *)

\* What is left of a random packet for anybody.
RandomKept(p) ==
    p.status = "created" /\ p.type = "random" /\ Precision[p.token] > 2 =>
        p.remainCount >= 1 /\ p.remain > 100 * (p.remainCount - 1)

\* A packet of equal shares has paid such shares only; one for no receiver, or
\* for a negative count of them, as DID holders' may be, pays nothing.
EqualKept(p) ==
    p.status = "created" /\ ~IsRandom(p.type) =>
        \/ /\ Signed(p.receiverCount) <= 0
           /\ p.remainCount = p.receiverCount /\ p.remain = p.total
        \/ /\ 1 <= p.remainCount /\ p.remainCount <= p.receiverCount
           /\ p.remain = p.total - (p.receiverCount - p.remainCount)
                                       * (p.total \div p.receiverCount)

\* What is asked of deposits that are not for DID holders.
Funded(p) ==
    p.type = "mean" =>
        /\ Signed(p.receiverCount) = p.receiverCount /\ p.receiverCount >= 1
        /\ p.total \div p.receiverCount >= 100

Sound(p) ==
    /\ p \in Pack /\ p.type \in Type
    /\ p.total \in 0 .. MaxAmount /\ p.remain <= p.total
    /\ p.receiverCount < WordSpan
    /\ p.status = "finished" => p.remain = 0
    /\ RandomKept(p) /\ EqualKept(p) /\ Funded(p)

AllSound == DOMAIN packs \subseteq Code /\ \A c \in DOMAIN packs : Sound(packs[c])

IInv == TypeOK /\ AllSound

Opened(from, t, quantity, count, type) ==
    [sender |-> from, token |-> t, type |-> type, total |-> quantity,
     receiverCount |-> count % WordSpan,
     remain |-> quantity, remainCount |-> count % WordSpan,
     status |-> "created", createdAt |-> now]

Claimed(p, share) ==
    [p EXCEPT !.remainCount = @ - 1, !.remain = @ - share,
              !.status = IF p.remainCount = 1 THEN "finished" ELSE @]

LEMMA UnitIsNat == ASSUME NEW t \in Token PROVE Unit(t) \in Nat \ {0}
BY RedPackAssumption DEF Unit

\* The divisor of an equal share is the number of receivers itself.
LEMMA DivisorIsCount ==
    ASSUME NEW n \in Nat, n < WordSpan, Signed(n) > 0
    PROVE  Signed(n) = n /\ n > 0
BY RedPackAssumption DEF Signed

LEMMA SharesAreInts ==
    ASSUME NEW p, Sound(p), NEW share \in Shares(p) PROVE share \in Int
<1>1. p \in Pack /\ p.receiverCount < WordSpan
  BY DEF Sound
<1>2. CASE p.remainCount = 1
  BY <1>1, <1>2 DEF Shares, RandomShares, MeanShares, Pack
<1>3. CASE IsRandom(p.type) /\ p.remainCount # 1
  <2> DEFINE max == TwiceMean(p)
  <2>1. /\ max \in -MaxAmount .. MaxAmount
        /\ \E f \in Factors(p.token) : share = rand(p.token, max, f)
    BY <1>3 DEF Shares, RandomShares
  <2>2. p.token \in Token /\ MaxAmount \in Int
    BY <1>1, RedPackAssumption DEF Pack, MaxAmount
  <2> HIDE DEF max
  <2>3. PICK f \in Factors(p.token) : share = rand(p.token, max, f)
    BY <2>1
  <2> DEFINE product == IF max < 0 THEN 0 ELSE (max * f) \div 100
  <2>4. product \in Int
    <3>1. max \in Int /\ f \in Int /\ max * f \in Int
      BY <2>1, <2>2 DEF Factors
    <3> QED
      BY <3>1, Division
  <2>5. product \div Unit(p.token) \in Int
    BY <2>2, <2>4, UnitIsNat, Division
  <2>6. share = LET value == (product \div Unit(p.token)) * Unit(p.token)
                IN  IF value < Unit(p.token) THEN Unit(p.token) ELSE value
    BY <2>3 DEF rand
  <2> HIDE DEF product
  <2> QED
    BY <2>2, <2>5, <2>6, UnitIsNat
<1>4. CASE ~IsRandom(p.type) /\ p.remainCount # 1
  <2>1. p.total \in Nat /\ p.receiverCount \in Nat
    BY <1>1 DEF Pack
  <2>2. /\ Signed(p.receiverCount) > 0
        /\ share = p.total \div Signed(p.receiverCount)
    BY <1>4 DEF Shares, MeanShares
  <2>3. Signed(p.receiverCount) = p.receiverCount /\ p.receiverCount > 0
    BY <1>1, <2>1, <2>2, DivisorIsCount
  <2> QED
    BY <2>1, <2>2, <2>3, Division
<1> QED
  BY <1>2, <1>3, <1>4

LEMMA OpenedIsSound ==
    ASSUME NEW from \in Sender, NEW t \in Token, NEW quantity \in Amount,
           NEW count \in Count, NEW type \in Type, NEW code \in Code,
           now \in Nat, deposit(from, t, quantity, count, type, code)
    PROVE  Sound(Opened(from, t, quantity, count, type))
<1> DEFINE p == Opened(from, t, quantity, count, type)
           kept == count % WordSpan
<1>1. /\ quantity \in 0 .. MaxAmount /\ quantity > 0 /\ count \in Int
      /\ type \in Types /\ WordSpan \in Nat \ {0}
      /\ ~IsDid(type) => count > 0 /\ quantity \div count >= 100
  BY RedPackAssumption DEF deposit
<1>2. quantity \in Nat /\ kept \in Nat /\ kept < WordSpan
  BY <1>1, SmallKept
<1>3. /\ p.type = type /\ p.token = t /\ p.total = quantity
      /\ p.receiverCount = kept /\ p.remain = quantity
      /\ p.remainCount = kept /\ p.status = "created" /\ p \in Pack
  BY <1>1, <1>2 DEF Opened, Pack
<1> HIDE DEF p, kept
<1>4. ASSUME ~IsDid(type)
      PROVE  /\ kept = count /\ Signed(kept) = kept /\ kept \in Nat \ {0}
             /\ quantity \div kept >= 100 /\ quantity >= 100 * kept
  <2>1. count \in Nat \ {0} /\ quantity \div count >= 100
    BY <1>1, <1>4
  <2> DEFINE q == quantity \div count
  <2>2. q \in Nat /\ q >= 100 /\ count * q <= quantity
    BY <1>2, <2>1, Division
  <2> HIDE DEF q
  <2>3. count * q >= count * 100
    BY <2>1, <2>2
  <2>4. quantity >= 100 * count
    BY <1>2, <2>1, <2>2, <2>3
  <2>5. count \in 0 .. MaxAmount
    BY <1>1, <1>2, <2>1, <2>4, SmallKept
  <2>6. kept = count /\ Signed(kept) = kept
    BY <2>5, SmallKept DEF kept
  <2> QED
    BY <2>1, <2>4, <2>6
<1>5. RandomKept(p)
  <2>1. SUFFICES ASSUME type = "random" PROVE kept >= 1 /\ quantity > 100 * (kept - 1)
    BY <1>3 DEF RandomKept
  <2> QED
    BY <1>2, <1>4, <2>1 DEF IsDid
<1>6. EqualKept(p)
  <2>1. CASE Signed(kept) <= 0
    BY <1>3, <2>1 DEF EqualKept
  <2>2. CASE Signed(kept) > 0
    <3>1. kept > 0
      BY <1>2, <2>2, DivisorIsCount
    <3>2. quantity \div kept \in Int
      BY <1>2, <3>1, Division
    <3>3. quantity = quantity - (kept - kept) * (quantity \div kept)
      BY <1>2, <3>2
    <3> QED
      BY <1>2, <1>3, <3>1, <3>3 DEF EqualKept
  <2>3. Signed(kept) \in Int
    BY <1>1, <1>2 DEF Signed
  <2> QED
    BY <2>1, <2>2, <2>3
<1>7. Funded(p)
  BY <1>3, <1>4 DEF Funded, IsDid
<1> QED
  BY <1>1, <1>2, <1>3, <1>5, <1>6, <1>7 DEF Sound, p

LEMMA ClaimedIsSound ==
    ASSUME NEW p, Sound(p), p.status = "created",
           NEW share \in Shares(p), share > 0
    PROVE  Sound(Claimed(p, share))
<1> DEFINE after == Claimed(p, share)
<1>1. /\ p \in Pack /\ p.type \in Type /\ share \in Int
      /\ p.remain \in Int /\ p.remainCount \in Int /\ p.total \in Nat
      /\ p.receiverCount \in Nat /\ p.token \in Token
  BY SharesAreInts DEF Sound, Pack
<1>2. /\ after \in Pack /\ after.type = p.type /\ after.token = p.token
      /\ after.total = p.total /\ after.receiverCount = p.receiverCount
      /\ after.remain = p.remain - share
      /\ after.remainCount = p.remainCount - 1
      /\ after.status = IF p.remainCount = 1 THEN "finished" ELSE "created"
  <2>1. p = [sender |-> p.sender, token |-> p.token, type |-> p.type,
             total |-> p.total, receiverCount |-> p.receiverCount,
             remain |-> p.remain, remainCount |-> p.remainCount,
             status |-> "created", createdAt |-> p.createdAt]
    BY <1>1 DEF Pack
  <2>2. after = [sender |-> p.sender, token |-> p.token, type |-> p.type,
                 total |-> p.total, receiverCount |-> p.receiverCount,
                 remain |-> p.remain - share, remainCount |-> p.remainCount - 1,
                 status |-> IF p.remainCount = 1 THEN "finished" ELSE "created",
                 createdAt |-> p.createdAt]
    <3> DEFINE one == [p EXCEPT !.remainCount = @ - 1]
               two == [one EXCEPT !.remain = @ - share]
               three == [two EXCEPT !.status = IF p.remainCount = 1
                                               THEN "finished" ELSE @]
    <3>1. after = three
      BY DEF Claimed
    <3>2. one = [sender |-> p.sender, token |-> p.token, type |-> p.type,
                 total |-> p.total, receiverCount |-> p.receiverCount,
                 remain |-> p.remain, remainCount |-> p.remainCount - 1,
                 status |-> "created", createdAt |-> p.createdAt]
      BY <2>1
    <3> HIDE DEF one
    <3>3. two = [sender |-> p.sender, token |-> p.token, type |-> p.type,
                 total |-> p.total, receiverCount |-> p.receiverCount,
                 remain |-> p.remain - share, remainCount |-> p.remainCount - 1,
                 status |-> "created", createdAt |-> p.createdAt]
      BY <3>2
    <3> HIDE DEF two, after
    <3> QED
      BY <3>1, <3>3
  <2> HIDE DEF after
  <2>3. /\ p.sender \in Sender /\ p.token \in Token /\ p.type \in Types
        /\ p.createdAt \in Nat
    BY <1>1 DEF Pack
  <2> QED
    BY <1>1, <2>2, <2>3 DEF Pack
<1> HIDE DEF after
<1>3. Funded(after)
  BY <1>2 DEF Sound, Funded
<1>4. CASE p.remainCount = 1
  <2>1. share = p.remain
    BY <1>4 DEF Shares, RandomShares, MeanShares
  <2> QED
    BY <1>1, <1>2, <1>3, <1>4, <2>1
       DEF Sound, RandomKept, EqualKept, after
<1>5. CASE p.remainCount # 1
  <2>1. RandomKept(after)
    <3>1. SUFFICES ASSUME p.type = "random", Precision[p.token] > 2
                   PROVE  /\ p.remainCount - 1 >= 1
                          /\ p.remain - share > 100 * (p.remainCount - 1 - 1)
      BY <1>2 DEF RandomKept
    <3>2. p.remainCount >= 2 /\ p.remain > 100 * (p.remainCount - 1)
      BY <1>1, <1>5, <3>1 DEF Sound, RandomKept
    <3>3. p.remain \in Nat /\ p.remainCount \in Nat
      BY <1>1, <3>2
    <3>4. PICK f \in Factors(p.token) :
              share = rand(p.token, (p.remain \div p.remainCount) * 2, f)
      <4>1. p.remain \in 0 .. MaxAmount
        BY <3>3, SmallKept DEF Sound
      <4>2. TwiceMean(p) = (p.remain \div p.remainCount) * 2
        BY <3>2, <3>3, <4>1, MeanDoubled
      <4> QED
        BY <1>5, <3>1, <4>2 DEF Shares, IsRandom, RandomShares
    <3>5. p.remain - share > 100 * (p.remainCount - 2)
      BY <1>1, <3>1, <3>2, <3>3, <3>4, RandLeaves
    <3> QED
      BY <1>1, <3>2, <3>5
  <2>2. EqualKept(after)
    <3>1. SUFFICES ASSUME ~IsRandom(p.type) PROVE EqualKept(after)
      BY <1>2 DEF EqualKept
    <3>2. /\ Signed(p.receiverCount) = p.receiverCount /\ p.receiverCount > 0
          /\ share = p.total \div p.receiverCount
      <4>1. /\ Signed(p.receiverCount) > 0
            /\ share = p.total \div Signed(p.receiverCount)
        BY <1>5, <3>1 DEF Shares, MeanShares
      <4> QED
        BY <1>1, <4>1, DivisorIsCount DEF Sound
    <3>3. /\ 2 <= p.remainCount /\ p.remainCount <= p.receiverCount
          /\ p.remain = p.total - (p.receiverCount - p.remainCount) * share
      BY <1>1, <1>5, <3>1, <3>2 DEF Sound, EqualKept
    <3> DEFINE q == p.total \div p.receiverCount
    <3>4. p.total - (p.receiverCount - p.remainCount) * q - q =
              p.total - (p.receiverCount - (p.remainCount - 1)) * q
      BY <1>1, <3>3, EqualLeaves
    <3>5. share = q
      BY <3>2
    <3> HIDE DEF q
    <3>6. p.remain - share =
              p.total - (p.receiverCount - (p.remainCount - 1)) * share
      BY <3>3, <3>4, <3>5
    <3>7. /\ 1 <= p.remainCount - 1 /\ p.remainCount - 1 <= p.receiverCount
          /\ share = after.total \div after.receiverCount
      BY <1>1, <1>2, <3>2, <3>3
    <3> QED
      BY <1>2, <3>6, <3>7 DEF EqualKept
  <2> QED
    BY <1>1, <1>2, <1>3, <1>5, <2>1, <2>2 DEF Sound, after
<1> QED
  BY <1>4, <1>5

LEMMA InitInv == Init => IInv
BY DEF Init, IInv, TypeOK, AllSound, EmptyTable, Claim

LEMMA StepInv == IInv /\ [Next]_redpackVars => IInv'
<1> SUFFICES ASSUME IInv, [Next]_redpackVars PROVE IInv'
  OBVIOUS
<1> USE RedPackAssumption DEF IInv, TypeOK
<1> DEFINE PacksOK == AllSound'
           ClaimsOK == claims' \in Seq(Claim)
           RestOK == /\ DOMAIN tokenlist' \subseteq Token
                     /\ \A t \in DOMAIN tokenlist' : tokenlist'[t] \in Nat
                     /\ gstate' \in [initialised : BOOLEAN, hours : Nat,
                                     didSupported : BOOLEAN]
                     /\ fee' \in Fee \cup {0}
                     /\ bank' \in [Token -> Int]
                     /\ now' \in Nat
           All == PacksOK /\ ClaimsOK /\ RestOK
<1>1. ASSUME UNCHANGED packs PROVE PacksOK
  BY <1>1 DEF AllSound, Sound, RandomKept, EqualKept, Funded
<1>2. ASSUME NEW h \in Hours, NEW did \in BOOLEAN, init(h, did) PROVE All
  BY <1>1, <1>2 DEF init
<1>3. ASSUME NEW f \in Fee, setfee(f) PROVE All
  BY <1>1, <1>3 DEF setfee
<1>4. ASSUME NEW t \in Token, NEW e \in Expiry, whitelist(t, e) PROVE All
  BY <1>1, <1>4 DEF whitelist, Put
<1>5. ASSUME NEW t \in Token, deltoken(t) PROVE All
  BY <1>1, <1>5 DEF deltoken, Drop
<1>6. ASSUME NEW t \in Token, NEW f \in Fee, payfee(t, f) PROVE All
  BY <1>1, <1>6 DEF payfee, Put
<1>7. ASSUME NEW a \in Sender, NEW t \in Token, NEW q \in Amount, NEW n \in Count,
             NEW type \in Type, NEW c \in Code, deposit(a, t, q, n, type, c)
      PROVE  All
  <2>1. Sound(Opened(a, t, q, n, type))
    BY <1>7, OpenedIsSound
  <2>2. packs' = Put(packs, c, Opened(a, t, q, n, type))
    BY <1>7 DEF deposit, Opened
  <2>3. PacksOK
    BY <2>1, <2>2 DEF Put, AllSound
  <2>4. q \in Int
    OBVIOUS
  <2>5. bank' \in [Token -> Int]
    <3>1. bank' = [bank EXCEPT ![t] = @ + q]
      BY <1>7 DEF deposit
    <3> QED
      BY <2>4, <3>1
  <2>6. UNCHANGED <<claims, tokenlist, gstate, fee, now>>
    BY <1>7 DEF deposit
  <2>7. ClaimsOK /\ RestOK
    BY <2>5, <2>6
  <2> QED
    BY <2>3, <2>7
<1>8. ASSUME NEW a \in Account, NEW c \in DOMAIN packs, NEW hasDid \in BOOLEAN,
             NEW share \in Shares(packs[c]), claimredpack(a, c, share, hasDid)
      PROVE  All
  <2>1. Sound(packs[c]) /\ packs[c].status = "created" /\ share > 0
    BY <1>8 DEF claimredpack, AllSound
  <2>2. share \in Int /\ packs[c].token \in Token
    BY <2>1, SharesAreInts DEF Sound, Pack
  <2>3. Sound(Claimed(packs[c], share))
    BY <2>1, ClaimedIsSound
  <2>4. packs' = [packs EXCEPT ![c] = Claimed(packs[c], share)]
    BY <1>8 DEF claimredpack, Claimed
  <2>5. PacksOK
    BY <2>3, <2>4 DEF AllSound
  <2>6. ClaimsOK
    BY <1>8 DEF claimredpack, Claim, AllSound
  <2>7. RestOK
    BY <1>8, <2>2 DEF claimredpack
  <2> QED
    BY <2>5, <2>6, <2>7
<1>9. ASSUME NEW c \in Code, cancel(c) PROVE All
  <2>1. c \in DOMAIN packs /\ packs' = Drop(packs, {c})
    BY <1>9 DEF cancel
  <2>2. packs[c].remain \in Int /\ packs[c].token \in Token
    BY <2>1 DEF AllSound, Sound, Pack
  <2>3. PacksOK
    BY <2>1 DEF Drop, AllSound
  <2>4. ClaimsOK /\ RestOK
    BY <1>9, <2>2 DEF cancel
  <2> QED
    BY <2>3, <2>4
<1>10. ASSUME NEW n \in MaxRows, delclaims(n) PROVE All
  <2>1. PICK last \in 1 .. Len(claims) :
            claims' = SubSeq(claims, last + 1, Len(claims))
    BY <1>10 DEF delclaims
  <2>2. ClaimsOK
    BY <2>1
  <2>3. RestOK
    BY <1>10 DEF delclaims
  <2>4. PacksOK
    BY <1>1, <1>10 DEF delclaims
  <2> QED
    BY <2>2, <2>3, <2>4
<1>11. ASSUME tick PROVE All
  BY <1>1, <1>11 DEF tick
<1>12. ASSUME UNCHANGED redpackVars PROVE All
  BY <1>1, <1>12 DEF redpackVars
<1>13. All
  <2> HIDE DEF All
  <2>1. CASE Next
    BY <1>2, <1>3, <1>4, <1>5, <1>6, <1>7, <1>8, <1>9, <1>10, <1>11, <2>1
       DEF Next
  <2> QED
    BY <1>12, <2>1
<1> QED
  BY <1>13 DEF AllSound, Sound

LEMMA Invariance == Spec => []IInv
BY InitInv, StepInv, PTL DEF Spec
-----------------------------------------------------------------------------
(* Theorems *)

\* Every row of every table stays what its type says, the packets' types
\* included.
THEOREM TypeCorrect == Spec => []TypeOK
<1>1. IInv => TypeOK
  BY DEF IInv
<1> QED
  BY <1>1, Invariance, PTL

\* Whatever the block hashes select, a random packet of a token with more than
\* two decimals keeps the minimum for everyone who is left and something more
\* (redpack.cpp:144, 324-353).
THEOREM RandomSharesLast == Spec => []RandomShareLeft
<1>1. IInv => RandomShareLeft
  <2> SUFFICES ASSUME IInv, NEW c \in DOMAIN packs, Live(c),
                      packs[c].type = "random", Precision[packs[c].token] > 2
               PROVE  /\ packs[c].remainCount >= 1
                      /\ packs[c].remain > Unit(packs[c].token)
                                              * (packs[c].remainCount - 1)
    BY DEF RandomShareLeft
  <2>1. packs[c] \in Pack /\ RandomKept(packs[c])
    BY DEF IInv, AllSound, Sound
  <2>2. Unit(packs[c].token) = 100
    BY <2>1, RedPackAssumption DEF Unit, Pack
  <2> QED
    BY <2>1, <2>2 DEF Live, RandomKept
<1> QED
  BY <1>1, Invariance, PTL

\* However many have claimed of a fixed packet, what is left is the equal share
\* of each who has not, at least the minimum, and the rest of the division
\* (redpack.cpp:144, 243).
THEOREM MeanSharesLast == Spec => []MeanShareLeft
<1>1. IInv => MeanShareLeft
  <2> SUFFICES ASSUME IInv, NEW c \in DOMAIN packs, Live(c),
                      packs[c].type = "mean"
               PROVE  LET p == packs[c]
                      IN  /\ p.remainCount >= 1
                          /\ p.remain = p.total
                                          - (p.receiverCount - p.remainCount)
                                              * (p.total \div p.receiverCount)
                          /\ p.remain >= 100 * p.remainCount
    BY DEF MeanShareLeft
  <2> DEFINE p == packs[c]
             q == p.total \div p.receiverCount
  <2>1. p \in Pack /\ EqualKept(p) /\ Funded(p)
    BY DEF IInv, AllSound, Sound
  <2>2. p.status = "created" /\ p.type = "mean"
    BY DEF Live
  <2> HIDE DEF p
  <2>3. /\ p.total \in Nat /\ p.receiverCount \in Nat /\ p.remainCount \in Int
        /\ p.receiverCount >= 1 /\ q >= 100
    BY <2>1, <2>2 DEF Pack, Funded
  <2>4. /\ 1 <= p.remainCount /\ p.remainCount <= p.receiverCount
        /\ p.remain = p.total - (p.receiverCount - p.remainCount) * q
    BY <2>1, <2>2, <2>3 DEF EqualKept, IsRandom
  <2>5. q \in Nat /\ p.receiverCount * q <= p.total
    BY <2>3, Division
  <2> HIDE DEF q
  <2>6. p.remain >= p.remainCount * q
    <3>1. (p.receiverCount - p.remainCount) * q
              = p.receiverCount * q - p.remainCount * q
      BY <2>3, <2>5
    <3>2. p.receiverCount * q \in Int /\ p.remainCount * q \in Int
      BY <2>3, <2>5
    <3> QED
      BY <2>3, <2>4, <2>5, <3>1, <3>2
  <2>7. p.remainCount * q >= p.remainCount * 100
    BY <2>3, <2>4, <2>5
  <2>8. p.remain >= 100 * p.remainCount
    <3>1. p.remainCount * q \in Int /\ (p.receiverCount - p.remainCount) * q \in Int
      BY <2>3, <2>5
    <3> QED
      BY <2>3, <2>4, <2>6, <2>7, <3>1
  <2> QED
    BY <2>4, <2>8 DEF p, q
<1> QED
  BY <1>1, Invariance, PTL
-----------------------------------------------------------------------------
(* The books *)

Remains(ps) == [c \in DOMAIN ps |-> ps[c].remain]
Holding(ps, t) == {c \in DOMAIN ps : ps[c].token = t}
Total(ps, t) == SumFunctionOnSet(Remains(ps), Holding(ps, t))

Finite == IsFiniteSet(DOMAIN packs)

\* The table ps becomes qs, which may differ in the row of one packet.
LEMMA TotalMoves ==
    ASSUME NEW ps, IsFiniteSet(DOMAIN ps), \A c \in DOMAIN ps : ps[c].remain \in Int,
           NEW qs, \A c \in DOMAIN qs : qs[c].remain \in Int,
           NEW code, DOMAIN qs \ {code} = DOMAIN ps \ {code},
           \A c \in DOMAIN ps \ {code} : qs[c] = ps[c],
           NEW t
    PROVE  /\ IsFiniteSet(DOMAIN qs)
           /\ Total(qs, t) - Summand(Remains(qs), Holding(qs, t), code)
                = Total(ps, t) - Summand(Remains(ps), Holding(ps, t), code)
           /\ Total(ps, t) \in Int /\ Total(qs, t) \in Int
<1> DEFINE f == Remains(ps)
           S == Holding(ps, t)
           g == Remains(qs)
           T == Holding(qs, t)
<1>1. IsFiniteSet(DOMAIN qs)
  <2>1. IsFiniteSet((DOMAIN ps \ {code}) \cup {code})
    BY FS_RemoveElement, FS_AddElement
  <2>2. DOMAIN qs \subseteq (DOMAIN ps \ {code}) \cup {code}
    OBVIOUS
  <2> QED
    BY <2>1, <2>2, FS_Subset
<1>2. S \in SUBSET DOMAIN ps /\ T \in SUBSET DOMAIN qs
  BY DEF Holding
<1>3. IsFiniteSet(S) /\ IsFiniteSet(T)
  BY <1>1, <1>2, FS_Subset
<1>4. (\A c \in S : f[c] \in Int) /\ \A c \in T : g[c] \in Int
  BY DEF Remains, Holding
<1>5. T \ {code} = S \ {code} /\ \A c \in S \ {code} : g[c] = f[c]
  BY DEF Remains, Holding
<1> HIDE DEF f, g, S, T
<1>6. SumFunctionOnSet(f, S) \in Int /\ SumFunctionOnSet(g, T) \in Int
  BY <1>3, <1>4, SumIsInt
<1>7. SumFunctionOnSet(g, T) - Summand(g, T, code)
          = SumFunctionOnSet(f, S) - Summand(f, S, code)
  BY <1>3, <1>4, <1>5, SumMoves
<1> QED
  BY <1>1, <1>6, <1>7 DEF Total, f, g, S, T

\* Only these handlers touch packets and money.
LEMMA OtherSteps ==
    ASSUME [Next]_redpackVars, ~UNCHANGED <<packs, bank>>
    PROVE  \/ \E a \in Sender, t \in Token, q \in Amount, n \in Count,
                type \in Type, c \in Code : deposit(a, t, q, n, type, c)
           \/ \E a \in Account, c \in DOMAIN packs, hasDid \in BOOLEAN :
                  \E share \in Shares(packs[c]) :
                      claimredpack(a, c, share, hasDid)
           \/ \E c \in Code : cancel(c)
<1>1. ASSUME NEW h \in Hours, NEW did \in BOOLEAN, init(h, did) PROVE FALSE
  BY <1>1 DEF init
<1>2. ASSUME NEW f \in Fee, setfee(f) PROVE FALSE
  BY <1>2 DEF setfee
<1>3. ASSUME NEW t \in Token, NEW e \in Expiry, whitelist(t, e) PROVE FALSE
  BY <1>3 DEF whitelist
<1>4. ASSUME NEW t \in Token, deltoken(t) PROVE FALSE
  BY <1>4 DEF deltoken
<1>5. ASSUME NEW t \in Token, NEW f \in Fee, payfee(t, f) PROVE FALSE
  BY <1>5 DEF payfee
<1>6. ASSUME NEW n \in MaxRows, delclaims(n) PROVE FALSE
  BY <1>6 DEF delclaims
<1>7. ASSUME tick PROVE FALSE
  BY <1>7 DEF tick
<1>8. Next
  BY DEF redpackVars
<1> QED
  BY <1>1, <1>2, <1>3, <1>4, <1>5, <1>6, <1>7, <1>8 DEF Next

LEMMA BooksOfTotals == Books <=> \A t \in Token : bank[t] = Total(packs, t)
BY DEF Books, Total, Remains, Holding

LEMMA BooksStep == IInv /\ Finite /\ Books /\ [Next]_redpackVars => Finite' /\ Books'
<1> SUFFICES ASSUME IInv, Finite, Books, [Next]_redpackVars PROVE Finite' /\ Books'
  OBVIOUS
<1> DEFINE Kept == Finite' /\ Books'
<1>1. ASSUME UNCHANGED <<packs, bank>> PROVE Kept
  BY <1>1 DEF Finite, Books
<1>2. /\ bank \in [Token -> Int] /\ IsFiniteSet(DOMAIN packs)
      /\ \A c \in DOMAIN packs :
            packs[c].remain \in Int /\ packs[c].token \in Token /\ Sound(packs[c])
      /\ \A t \in Token : bank[t] = Total(packs, t)
  BY BooksOfTotals DEF IInv, TypeOK, AllSound, Sound, Pack, Finite
<1>3. IInv'
  BY StepInv
<1>4. \A c \in DOMAIN packs' : packs'[c].remain \in Int
  BY <1>3 DEF IInv, AllSound, Sound, Pack
\* A step that changes the bank by what it changes one packet by.
<1>5. ASSUME NEW code, DOMAIN packs' \ {code} = DOMAIN packs \ {code},
             \A c \in DOMAIN packs \ {code} : packs'[c] = packs[c],
             \A t \in Token :
                 bank'[t] - Summand(Remains(packs'), Holding(packs', t), code)
                     = bank[t] - Summand(Remains(packs), Holding(packs, t), code)
      PROVE  Kept
  <2>1. /\ IsFiniteSet(DOMAIN packs')
        /\ \A t \in Token :
              /\ Total(packs', t) - Summand(Remains(packs'), Holding(packs', t), code)
                   = Total(packs, t) - Summand(Remains(packs), Holding(packs, t), code)
              /\ Total(packs', t) \in Int
    BY <1>2, <1>4, <1>5, TotalMoves
  <2>2. bank' \in [Token -> Int]
    BY <1>3 DEF IInv, TypeOK
  <2>3. ASSUME NEW t \in Token
        PROVE  /\ Summand(Remains(packs'), Holding(packs', t), code) \in Int
               /\ Summand(Remains(packs), Holding(packs, t), code) \in Int
    BY <1>2, <1>4 DEF Summand, Remains, Holding
  <2>4. ASSUME NEW t \in Token PROVE bank'[t] = Total(packs', t)
    <3> DEFINE b == Summand(Remains(packs), Holding(packs, t), code)
               a == Summand(Remains(packs'), Holding(packs', t), code)
    <3>1. a \in Int /\ b \in Int /\ bank'[t] \in Int /\ bank[t] \in Int
      BY <1>2, <2>2, <2>3
    <3>2. bank'[t] - a = bank[t] - b /\ Total(packs', t) - a = bank[t] - b
      BY <1>2, <1>5, <2>1
    <3> HIDE DEF a, b
    <3> QED
      BY <2>1, <3>1, <3>2
  <2> QED
    BY <2>1, <2>4 DEF Finite, Books, Total, Remains, Holding
<1> USE DEF Summand, Remains, Holding
<1>6. ASSUME NEW a \in Sender, NEW t \in Token, NEW q \in Amount, NEW n \in Count,
             NEW type \in Type, NEW c \in Code, deposit(a, t, q, n, type, c)
      PROVE  Kept
  <2>1. /\ c \notin DOMAIN packs /\ bank' = [bank EXCEPT ![t] = @ + q]
        /\ packs' = Put(packs, c, Opened(a, t, q, n, type))
    BY <1>6 DEF deposit, Opened
  <2>2. /\ DOMAIN packs' \ {c} = DOMAIN packs \ {c} /\ c \in DOMAIN packs'
        /\ packs'[c].token = t /\ packs'[c].remain = q
        /\ \A d \in DOMAIN packs \ {c} : packs'[d] = packs[d]
    BY <2>1 DEF Put, Opened
  <2>3. q \in Int
    BY RedPackAssumption
  <2>4. ASSUME NEW s \in Token
        PROVE  bank'[s] - Summand(Remains(packs'), Holding(packs', s), c)
                   = bank[s] - Summand(Remains(packs), Holding(packs, s), c)
    BY <1>2, <2>1, <2>2, <2>3
  <2> QED
    BY <1>5, <2>2, <2>4
<1>7. ASSUME NEW a \in Account, NEW c \in DOMAIN packs, NEW hasDid \in BOOLEAN,
             NEW share \in Shares(packs[c]), claimredpack(a, c, share, hasDid)
      PROVE  Kept
  <2> DEFINE p == packs[c]
  <2>1. /\ packs' = [packs EXCEPT ![c] = Claimed(p, share)]
        /\ bank' = [bank EXCEPT ![p.token] = @ - share]
    BY <1>7 DEF claimredpack, Claimed
  <2>2. share \in Int /\ p \in Pack
    BY <1>2, SharesAreInts DEF Sound
  <2>3. Claimed(p, share).token = p.token /\ Claimed(p, share).remain = p.remain - share
    BY <2>2 DEF Claimed, Pack
  <2>4. /\ DOMAIN packs' = DOMAIN packs
        /\ packs'[c].token = p.token /\ packs'[c].remain = p.remain - share
        /\ \A d \in DOMAIN packs \ {c} : packs'[d] = packs[d]
    BY <2>1, <2>3
  <2>5. ASSUME NEW s \in Token
        PROVE  bank'[s] - Summand(Remains(packs'), Holding(packs', s), c)
                   = bank[s] - Summand(Remains(packs), Holding(packs, s), c)
    BY <1>2, <2>1, <2>2, <2>4
  <2> QED
    BY <1>5, <2>4, <2>5
<1>8. ASSUME NEW c \in Code, cancel(c) PROVE Kept
  <2>1. /\ c \in DOMAIN packs /\ packs' = Drop(packs, {c})
        /\ IF packs[c].status = "created"
           THEN bank' = [bank EXCEPT ![packs[c].token] = @ - packs[c].remain]
           ELSE UNCHANGED bank
    BY <1>8 DEF cancel
  <2>2. /\ packs[c].status = "finished" => packs[c].remain = 0
        /\ packs[c].status \in {"created", "finished"}
    BY <1>2, <2>1 DEF Sound, Pack
  <2>3. bank' = [bank EXCEPT ![packs[c].token] = @ - packs[c].remain]
    BY <1>2, <2>1, <2>2
  <2>4. /\ DOMAIN packs' = DOMAIN packs \ {c}
        /\ \A d \in DOMAIN packs \ {c} : packs'[d] = packs[d]
    BY <2>1 DEF Drop
  <2>5. ASSUME NEW s \in Token
        PROVE  bank'[s] - Summand(Remains(packs'), Holding(packs', s), c)
                   = bank[s] - Summand(Remains(packs), Holding(packs, s), c)
    BY <1>2, <2>1, <2>3, <2>4
  <2> QED
    BY <1>5, <2>4, <2>5
<1> HIDE DEF Kept
<1>9. ASSUME ~UNCHANGED <<packs, bank>> PROVE Kept
  BY <1>6, <1>7, <1>8, <1>9, OtherSteps
<1> QED
  BY <1>1, <1>9 DEF Kept

\* The books balance: the contract owns of every token what its packets hold of
\* it (redpack.cpp:154-166, 246-254, 272-286).
THEOREM BooksBalance == Spec => []Books
<1>1. Init => Finite /\ Books
  <2> SUFFICES ASSUME Init PROVE Finite /\ Books
    OBVIOUS
  <2>1. DOMAIN packs = {}
    BY DEF Init, EmptyTable
  <2>2. \A t \in Token : {c \in DOMAIN packs : packs[c].token = t} = {}
    BY <2>1
  <2>3. \A t \in Token : bank[t] = 0
    BY DEF Init
  <2> QED
    BY <2>1, <2>2, <2>3, FS_EmptySet, SumOfNone DEF Finite, Books
<1>2. IInv /\ (Finite /\ Books) /\ [Next]_redpackVars => (Finite /\ Books)'
  BY BooksStep
<1> QED
  BY <1>1, <1>2, Invariance, PTL DEF Spec
-----------------------------------------------------------------------------
(* The escrow *)

\* Where minimum shares are covered, a packet has enough for every share it
\* may be asked for.
LEMMA ShareCovered ==
    ASSUME "didRandom" \notin Type, \A t \in Token : Precision[t] > 2,
           NEW p, Sound(p), p.status = "created", NEW share \in Shares(p)
    PROVE  share \in Int /\ share <= p.remain
<1>1. /\ p \in Pack /\ p.type \in Type /\ share \in Int
      /\ p.remain \in Int /\ p.remainCount \in Int /\ p.total \in Nat
      /\ p.receiverCount \in Nat /\ p.token \in Token
  BY SharesAreInts DEF Sound, Pack
<1>2. CASE p.remainCount = 1
  BY <1>1, <1>2 DEF Shares, RandomShares, MeanShares
<1>3. CASE IsRandom(p.type) /\ p.remainCount # 1
  <2>1. p.type = "random" /\ Precision[p.token] > 2
    BY <1>1, <1>3 DEF IsRandom
  <2>2. p.remainCount >= 2 /\ p.remain > 100 * (p.remainCount - 1)
    BY <1>1, <1>3, <2>1 DEF Sound, RandomKept
  <2>3. p.remain \in Nat /\ p.remainCount \in Nat
    BY <1>1, <2>2
  <2>4. PICK f \in Factors(p.token) :
            share = rand(p.token, (p.remain \div p.remainCount) * 2, f)
    <3>1. p.remain \in 0 .. MaxAmount
      BY <2>3, SmallKept DEF Sound
    <3>2. TwiceMean(p) = (p.remain \div p.remainCount) * 2
      BY <2>2, <2>3, <3>1, MeanDoubled
    <3> QED
      BY <1>3, <3>2 DEF Shares, RandomShares
  <2>5. p.remain - share > 100 * (p.remainCount - 2)
    BY <1>1, <2>1, <2>2, <2>3, <2>4, RandLeaves
  <2> QED
    BY <1>1, <2>2, <2>5
<1>4. CASE ~IsRandom(p.type) /\ p.remainCount # 1
  <2>1. /\ Signed(p.receiverCount) = p.receiverCount /\ p.receiverCount > 0
        /\ share = p.total \div p.receiverCount
    <3>1. /\ Signed(p.receiverCount) > 0
          /\ share = p.total \div Signed(p.receiverCount)
      BY <1>4 DEF Shares, MeanShares
    <3> QED
      BY <1>1, <3>1, DivisorIsCount DEF Sound
  <2> DEFINE q == p.total \div p.receiverCount
  <2>2. /\ 2 <= p.remainCount /\ p.remainCount <= p.receiverCount
        /\ p.remain = p.total - (p.receiverCount - p.remainCount) * q
    BY <1>1, <1>4, <2>1 DEF Sound, EqualKept
  <2>3. q <= p.total - (p.receiverCount - p.remainCount) * q
    BY <1>1, <2>2, EqualLeaves
  <2>4. share = q
    BY <2>1
  <2> HIDE DEF q
  <2> QED
    BY <1>1, <2>2, <2>3, <2>4
<1> QED
  BY <1>2, <1>3, <1>4

LEMMA StepIsEscrow ==
    ASSUME "didRandom" \notin Type, \A t \in Token : Precision[t] > 2
    PROVE  IInv /\ [Next]_redpackVars
               => [TheEscrow!Next]_(TheEscrow!escrowVars)
<1> DEFINE Held == [c \in DOMAIN packs |-> [token |-> packs[c].token,
                                            amount |-> packs[c].remain]]
<1> SUFFICES ASSUME IInv, [Next]_redpackVars
             PROVE  \/ TheEscrow!Next
                    \/ Held' = Held /\ bank' = bank
  BY DEF TheEscrow!escrowVars
<1>1. ASSUME UNCHANGED <<packs, bank>> PROVE Held' = Held /\ bank' = bank
  BY <1>1
<1>2. ASSUME NEW a \in Sender, NEW t \in Token, NEW q \in Amount, NEW n \in Count,
             NEW type \in Type, NEW c \in Code, deposit(a, t, q, n, type, c)
      PROVE  TheEscrow!Next
  <2> DEFINE row == Opened(a, t, q, n, type)
  <2>1. /\ c \notin DOMAIN packs /\ q > 0 /\ packs' = Put(packs, c, row)
        /\ bank' = [bank EXCEPT ![t] = @ + q]
    BY <1>2 DEF deposit, Opened
  <2>2. row.token = t /\ row.remain = q
    BY DEF Opened
  <2> HIDE DEF row
  <2>3. Held' = TheEscrow!Put(Held, c, [token |-> t, amount |-> q])
    BY <2>1, <2>2 DEF Put, TheEscrow!Put
  <2>4. TheEscrow!Deposit(c, t, q)
    BY <2>1, <2>3 DEF TheEscrow!Deposit
  <2> QED
    BY <2>4 DEF TheEscrow!Next
<1>3. ASSUME NEW a \in Account, NEW c \in DOMAIN packs, NEW hasDid \in BOOLEAN,
             NEW share \in Shares(packs[c]), claimredpack(a, c, share, hasDid)
      PROVE  TheEscrow!Next
  <2> DEFINE p == packs[c]
             left == p.remain - share
  <2>1. Sound(p) /\ p.status = "created" /\ share > 0
    BY <1>3 DEF claimredpack, IInv, AllSound
  <2>2. /\ share \in Int /\ share <= p.remain /\ p.remain \in Int
        /\ p.token \in Token /\ bank \in [Token -> Int] /\ p \in Pack
    BY <2>1, ShareCovered DEF Sound, Pack, IInv, TypeOK
  <2>3. /\ packs' = [packs EXCEPT ![c] = Claimed(p, share)]
        /\ bank' = [bank EXCEPT ![p.token] = @ - share]
    BY <1>3 DEF claimredpack, Claimed
  <2>4. Claimed(p, share).token = p.token /\ Claimed(p, share).remain = left
    BY <2>2 DEF Claimed, Pack
  <2>5. DOMAIN Held' = DOMAIN Held
    BY <2>3
  <2>6. /\ Held[c] = [token |-> p.token, amount |-> p.remain]
        /\ Held'[c] = [token |-> p.token, amount |-> left]
    BY <2>3, <2>4
  <2>7. Held' = [Held EXCEPT ![c].amount = left]
    BY <2>3, <2>4
  <2>8. left >= 0 /\ left < p.remain /\ p.remain - left = share
    BY <2>1, <2>2
  <2> HIDE DEF left, p, Held
  <2>9. /\ Held'[c].amount = left /\ Held[c].amount = p.remain
        /\ Held[c].token = p.token
    BY <2>6
  <2>10. bank' = [bank EXCEPT ![Held[c].token] =
                     @ - (Held[c].amount - Held'[c].amount)]
    BY <2>3, <2>8, <2>9
  <2>11. TheEscrow!Pay(c)
    BY <2>5, <2>7, <2>8, <2>9, <2>10 DEF TheEscrow!Pay, Held
  <2>12. c \in DOMAIN Held
    BY DEF Held
  <2> QED
    BY <2>11, <2>12 DEF TheEscrow!Next, Held
<1>4. ASSUME NEW c \in Code, cancel(c) PROVE TheEscrow!Next
  <2>1. /\ c \in DOMAIN packs /\ packs' = Drop(packs, {c})
        /\ IF packs[c].status = "created"
           THEN bank' = [bank EXCEPT ![packs[c].token] = @ - packs[c].remain]
           ELSE UNCHANGED bank
    BY <1>4 DEF cancel
  <2>2. /\ packs[c].status = "finished" => packs[c].remain = 0
        /\ packs[c].status \in {"created", "finished"}
        /\ packs[c].token \in Token /\ bank \in [Token -> Int]
    BY <2>1 DEF IInv, TypeOK, AllSound, Sound, Pack
  <2>3. bank' = [bank EXCEPT ![packs[c].token] = @ - packs[c].remain]
    BY <2>1, <2>2
  <2>4. Held' = TheEscrow!Drop(Held, {c})
    BY <2>1 DEF Drop, TheEscrow!Drop
  <2>5. TheEscrow!Close(c)
    BY <2>1, <2>3, <2>4 DEF TheEscrow!Close
  <2> QED
    BY <2>1, <2>5 DEF TheEscrow!Next
<1>5. CASE ~UNCHANGED <<packs, bank>>
  <2> HIDE DEF Held
  <2> QED
    BY <1>2, <1>3, <1>4, <1>5, OtherSteps
<1> QED
  BY <1>1, <1>5

\* With packets of tokens that have more than two decimals, and no random ones
\* for DID holders, the contract is an escrow: no payment takes from another
\* packet's deposit and what is cancelled is refunded in full
\* (redpack.cpp:154-166, 246-254, 272-286).
THEOREM EscrowsApart ==
    ASSUME "didRandom" \notin Type, \A t \in Token : Precision[t] > 2
    PROVE  Spec => Escrowed
<1>1. Init => TheEscrow!Init
  BY DEF Init, TheEscrow!Init, EmptyTable, TheEscrow!EmptyTable
<1>2. IInv /\ [Next]_redpackVars => [TheEscrow!Next]_(TheEscrow!escrowVars)
  BY StepIsEscrow
<1> QED
  BY <1>1, <1>2, Invariance, PTL DEF Spec, Escrowed, TheEscrow!Spec
=============================================================================
