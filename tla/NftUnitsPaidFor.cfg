\* Fees whose product with the units reaches 2^63: 4 bits stand for 64.
CONSTANTS
    a1 = a1
    a2 = a2
    s1 = s1
    s2 = s2
    contract = contract
    symbol = symbol
    Sender = {s1}
    Account = {a1, a2}
    Code = {1}
    Nft <- OneNft
    Bank = {amaxToken, otherToken}
    AmaxToken = amaxToken
    Count = {1, 7}
    Quantity = {1, 3}
    Fee = {0, 1, 2}
    FeeSpan = 16
    Hours = {1}
    MaxRows = {1, 3}
    AdminCode = {1}
    MaxClaims = 3
    MaxCoins = 4
    MaxNfts = 7
    MaxTime = 2
SPECIFICATION Spec
PROPERTY UnitsPaidFor
CHECK_DEADLOCK FALSE
