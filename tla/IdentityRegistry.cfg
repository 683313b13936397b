\* Two objects of at most two identities, two applications; a call that waits for
\* signon-ui and one for access at a time, nothing fails.
SPECIFICATION Spec
CONSTANTS
    u = u  p = p  q = q  any = any  a = a  b = b  x = x  y = y  c = c  d = d
    Null = Null
    MaxId = 2
    MaxMethodId = 0
    User = {}
    Method = {}
    Mechanism = {}
    Realm = {}
    Reference = {}
    Token = {any, a, b}
    Pass = {}
    Blob = {}
    Huge = {}
    Peer = {x, y}
    AppId <- AllAppIds
    Access <- TwoAccess
    Any = any
    KeychainId = Null
    Object = {1, 2}
    Call = {c}
    Kinds = {"remove"}
    MaxRetries = 0
    AnyId = FALSE
    MaxAsking = 1
    Infos <- RegistryInfos
    Faults = {}
    Encrypted = FALSE
INVARIANTS MapSound ObjectsListed
PROPERTY IdleDaemonEnds
