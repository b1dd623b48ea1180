\* Two accounts, one submitter, up to three orders that expire after one day.
CONSTANTS
    Account = {issuer, user}
    Issuer = {issuer}
    Notary = {}
    Symbol <- RecoverSymbol
    Id = {0, 1}
    IdSpan = 2
    Amount = {1}
    Uri = {uri1}
    Self = 100
    NoNotary = NoNotary
    DidSymbol <- RecoverDid
    Submitter = {submitter}
    ActionType = {"verifydid", "assetrecast"}
    RecoverFee = {fee}
    NoFee = NoFee
    Expiry = 1
    MaxNow = 2
    MaxRecover = 3
SPECIFICATION RecoverSpec
INVARIANTS RecoverTypeOK OneOrderPerAccount StatusesAgree LostHasRow
PROPERTIES ByAuthority Recovers NoOrderStaysUnverified
CHECK_DEADLOCK FALSE
