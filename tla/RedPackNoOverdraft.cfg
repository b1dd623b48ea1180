\* Random packets of a token with 2 decimals, whose shares may exceed the mean
\* twice, and underfunded ones for DID holders.
CONSTANTS
    amax = amax
    coarse = coarse
    Sender = {sender}
    Account = {a1, a2}
    Code = {c1, c2}
    Token = {amax, coarse}
    Precision <- MCPrecision
    DidToken = {amax}
    Type = {"random", "didRandom"}
    Amount = {199, 350}
    Count = {0, 2, 3}
    WordSpan = 1048576
    Hours = {1}
    Expiry = {2}
    MaxRows = {1, 3}
    Month = 1
    Fee = {1}
    MaxTime = 2
SPECIFICATION Spec
INVARIANT NoOverdraft
CHECK_DEADLOCK FALSE
