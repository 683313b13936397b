\* One object of one identity, stored with a secret that is kept and without; two
\* calls that wait for signon-ui; statements of the database fail; any id may be sent.
SPECIFICATION Spec
CONSTANTS
    u = u  p = p  q = q  any = any  a = a  b = b  x = x  y = y  c = c  d = d
    Null = Null
    MaxId = 1
    MaxMethodId = 0
    User = {u}
    Method = {}
    Mechanism = {}
    Realm = {}
    Reference = {}
    Token = {any}
    Pass = {p, q}
    Blob = {}
    Huge = {}
    Peer = {x}
    AppId <- AllAppIds
    Access <- AllAccess
    Any = any
    KeychainId = Null
    Object = {1}
    Call = {c, d}
    Kinds = {"update", "verify", "remove", "signOut"}
    MaxRetries = 1
    AnyId = TRUE
    MaxAsking = 0
    Infos <- DialogInfos
    Faults = {"exec"}
    Encrypted = TRUE
INVARIANTS TypeOK CacheCoherent WaitingKept
SYMMETRY Symmetry
