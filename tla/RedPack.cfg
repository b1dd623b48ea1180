\* Two packets of one token, two receivers, packets for up to 4 of them, so that
\* some expire unfinished, and for DID holders with no receiver or -1 of them.
CONSTANTS
    amax = amax
    coarse = coarse
    Sender = {sender}
    Account = {a1, a2}
    Code = {c1, c2}
    Token = {amax}
    Precision <- MCPrecision
    DidToken = {amax}
    Type = {"random", "mean", "didMean"}
    Amount = {350}
    Count <- MCCount
    WordSpan = 1048576
    Hours = {1}
    Expiry = {2}
    MaxRows = {1, 3}
    Month = 1
    Fee = {1}
    MaxTime = 2
SPECIFICATION Spec
INVARIANTS TypeOK Books RandomShareLeft MeanShareLeft
PROPERTIES Escrowed NoDepositStays
CHECK_DEADLOCK FALSE
