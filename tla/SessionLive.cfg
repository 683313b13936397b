SPECIFICATION FairSpec
CONSTANTS
    r1 = r1
    r2 = r2
    r3 = r3
    s1 = s1
    s2 = s2
    NoReq = NoReq
    Req = {r1, r2}
    Session = {s1, s2}
    SessionOf <- TwoSessions
    UiPolicyOf <- MixedPolicy
    CancelReactions = {"error"}
    EndsDialogs = FALSE
    FaultKinds = {"crash"}
    MaxOut = 1
    MaxFault = 1
    MaxCancel = 0
    MaxRefresh = 1
    StoredId = TRUE
    IdCalls = {"setId", "remove"}
    FirstReady = {TRUE}
INVARIANT OwnAnswer
PROPERTY OwnCredentials
PROPERTY EveryRequestAnswered
\* The session may be destroyed, or have nothing left to do.
CHECK_DEADLOCK FALSE
