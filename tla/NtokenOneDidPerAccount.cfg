\* One issuer and two interchangeable holders of one token of up to 3 units.
CONSTANTS
    issuer = issuer
    holder = holder
    other = other
    Account = {issuer, holder, other}
    Issuer = {issuer}
    Notary = {}
    Symbol <- LedgerSymbol
    Id = {0, 1}
    IdSpan = 2
    Amount = {0, 1, 2, 3}
    Uri = {uri1}
    Self = 100
    NoNotary = NoNotary
SPECIFICATION Spec
PROPERTY OneDidPerAccount
CHECK_DEADLOCK FALSE
