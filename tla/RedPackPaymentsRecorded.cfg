\* Packets of equal shares whose claim rows are cleaned up.
CONSTANTS
    amax = amax
    coarse = coarse
    Sender = {sender}
    Account = {a1, a2}
    Code = {c1, c2}
    Token = {amax}
    Precision <- MCPrecision
    DidToken = {amax}
    Type = {"mean"}
    Amount = {350}
    Count = {2}
    WordSpan = 1048576
    Hours = {1}
    Expiry = {2}
    MaxRows = {1, 3}
    Month = 1
    Fee = {1}
    MaxTime = 2
SPECIFICATION Spec
INVARIANT PaymentsRecorded
CHECK_DEADLOCK FALSE
