SPECIFICATION Spec
CONSTANTS
    k1 = k1
    k2 = k2
    m1 = m1
    m2 = m2
    x1 = x1
    NoKey = NoKey
    FreeSlot = FreeSlot
    Key = {k1, k2}
    Slot = {1, 2}
    KeyManager = {m1, m2}
    FaultKinds = {"device", "loop", "format", "open", "umount", "close", "slot", "database", "metadata", "tree"}
    Sender = {x1}
    Asks = FALSE
    Removes = FALSE
    Backups = TRUE
    Crashes = TRUE
SYMMETRY Symmetry
INVARIANT StorageTypeOK
INVARIANT SecretsOnMounted
INVARIANT AuthorizedHaveSlots
PROPERTY AuthorizedKeepSlots
