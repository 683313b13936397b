\* Two identities with rows in each of the tables of updateIdentity(), found in a
\* database of version 1 or made new.  Its transaction fails at each of the
\* statements that are looked at, and goes on after each of those that are not; one
\* identity at a time may read differently for that.
SPECIFICATION Spec
CONSTANTS
    u = u  p = p  q = q  m = m  k = k  t1 = t1  t2 = t2  r = r
    Null = Null
    MaxId = 2
    MaxMethodId = 1
    User = {}
    Method = {m}
    Mechanism = {k}
    Realm = {r}
    Reference = {}
    Token = {t1, t2}
    Pass = {}
    Blob = {}
    Huge = {}
    Infos <- TableInfos
    OldTables <- TablesOf1
    Faults = {"begin", "exec", "realm", "commit", "method", "mechanism", "token", "acl", "owner",
              "deleteRealms", "deleteAcl", "deleteOwner"}
    MaxMixed = 1
INVARIANTS ReadBack UpdateFailsWhole
