\* Packets that only cancel and delclaims delete.
CONSTANTS
    a1 = a1
    a2 = a2
    s1 = s1
    s2 = s2
    contract = contract
    symbol = symbol
    Sender = {s1}
    Account = {a1, a2}
    Code = {1, 2}
    Nft <- OneNft
    Bank = {amaxToken}
    AmaxToken = amaxToken
    Count = {1, 2}
    Quantity = {1, 3}
    Fee = {0, 1}
    FeeSpan = 32
    Hours = {1}
    MaxRows = {1, 3}
    AdminCode = {}
    MaxClaims = 3
    MaxCoins = 4
    MaxNfts = 3
    MaxTime = 2
SPECIFICATION Spec
PROPERTY CancelledOnlyExpired
CHECK_DEADLOCK FALSE
