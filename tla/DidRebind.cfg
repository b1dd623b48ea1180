\* One issuer and two interchangeable holders of one DID of up to 3 units, who
\* pay did.admin for up to two rebinds.
CONSTANTS
    issuer = issuer
    holder = holder
    other = other
    Account = {issuer, holder, other}
    Issuer = {issuer}
    Notary = {}
    Symbol <- RebindSymbol
    Id = {0, 1}
    IdSpan = 2
    Amount = {0, 1, 2, 3}
    Uri = {uri1}
    Self = 100
    NoNotary = NoNotary
    DidContract = kyc
    Vendor = {}
    KycLevel = {}
    KycSpan = 1
    Charge = {}
    Reward = {}
    KycAdmin = {}
    Collector = {}
    NoName = NoName
    MaxOrder = 0
    MaxVendor = 0
    MaxBank = 0
    MaxApples = 0
    DidNumber = {1, 3}
    Payment = {1, 2, 3}
    MaxAdminBank = 3
SYMMETRY Holders
SPECIFICATION SystemSpec
INVARIANTS SupplyAtMostMax SupplyIsSum
PROPERTIES Conservation BoundUnlessPaid PermissionsStay
CHECK_DEADLOCK FALSE
