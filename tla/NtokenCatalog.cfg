\* Tokens 0, 1 and 2, two of them at a time, an issuer and a holder; token 2 has
\* token 1 as its parent when it is created under it.
CONSTANTS
    issuer = issuer
    holder = holder
    other = other
    Account = {issuer, holder}
    Issuer = {issuer}
    Notary = {notary}
    Symbol <- CatalogSymbol
    Id = {0, 1, 2}
    IdSpan = 3
    Amount = {0, 1}
    Uri = {uri1, uri2}
    Self = 100
    NoNotary = NoNotary
SPECIFICATION Spec
INVARIANTS TypeOK Backed
PROPERTIES SoulBound
CHECK_DEADLOCK FALSE
CONSTRAINT FewRows
