\* Two codes, two senders, packets of one or two units, fees of 0 or 1 per unit.
CONSTANTS
    a1 = a1
    a2 = a2
    s1 = s1
    s2 = s2
    contract = contract
    symbol = symbol
    Sender = {s1, s2}
    Account = {a1, a2}
    Code = {1, 2}
    Nft <- OneNft
    Bank = {amaxToken, otherToken}
    AmaxToken = amaxToken
    Count = {1, 2}
    Quantity = {1, 3}
    Fee = {0, 1}
    FeeSpan = 32
    Hours = {1}
    MaxRows = {1, 3}
    AdminCode = {2}
    MaxClaims = 3
    MaxCoins = 4
    MaxNfts = 3
    MaxTime = 2
SYMMETRY Users
SPECIFICATION Spec
INVARIANTS NftTypeOK NftsCover FeesCover PaidOnce
PROPERTIES NftsAccounted
CHECK_DEADLOCK FALSE
