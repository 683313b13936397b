SPECIFICATION FairSpec
CONSTANTS
    k1 = k1
    k2 = k2
    m1 = m1
    m2 = m2
    x1 = x1
    NoKey = NoKey
    FreeSlot = FreeSlot
    Key = {k1, k2}
    Slot = {1, 2}
    KeyManager = {m1}
    FaultKinds = {"slot", "tree"}
    Sender = {x1}
    Asks = TRUE
    Removes = TRUE
    Backups = TRUE
    Crashes = TRUE
INVARIANT MountedReally
INVARIANT SecretsAvailable
INVARIANT KeychainHasSlots
PROPERTY SendersAnswered
