\* One DID, its issuer, amax.did and one user; two rows of one vendor and two
\* orders; a lease that may hold half the reward of 2.
CONSTANTS
    issuer = issuer
    kyc = kyc
    user = user
    uri = uri
    admin = admin
    collector = collector
    vendor = vendor
    Account = {issuer, kyc, user}
    Issuer = {issuer}
    Notary = {}
    Symbol <- SystemSymbol
    Id = {0, 1}
    IdSpan = 2
    Amount = {1}
    Uri = {uri}
    Self = 100
    NoNotary = NoNotary
    DidContract = kyc
    Vendor = {vendor}
    KycLevel = {1, 2, 5}
    KycSpan = 4
    Charge = {0, 1, 2}
    Reward = {2}
    KycAdmin = {admin}
    Collector = {collector}
    NoName = NoName
    MaxOrder = 2
    MaxVendor = 2
    MaxBank = 1
    MaxApples = 2
    DidNumber = {}
    Payment = {}
    MaxAdminBank = 0
SPECIFICATION DeployedSpec
INVARIANTS KycTypeOK OneOrderEach OneVendorForOrder PendingsOpen
PROPERTIES StockForOrders ChargesCover RewardWithDid
CHECK_DEADLOCK FALSE
CONSTRAINT Few
