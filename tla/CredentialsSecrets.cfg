\* One identity with its owner, who refers to it; two passwords, one method with two
\* dictionaries of which one is too large; storage that fails, and a daemon that
\* stops between transactions.
SPECIFICATION Spec
CONSTANTS
    u = u  p = p  q = q  m = m  k = k  t1 = t1  t2 = t2  r = r
    Null = Null
    MaxId = 1
    MaxMethodId = 2
    User = {u}
    Method = {m}
    Mechanism = {}
    Realm = {}
    Reference = {r1}
    Token = {t1}
    Pass = {p, q}
    Blob = {b, huge}
    Huge = {huge}
    Infos <- SecretInfos
    OldTables <- NoOldTables
    Faults = {"secrets", "crash"}
    MaxMixed = 0
INVARIANTS TypeOK NotRememberedNotStored NoOldPassword AcceptedDataStored RemovalComplete
