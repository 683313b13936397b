SPECIFICATION Spec
CONSTANTS
    r1 = r1
    r2 = r2
    r3 = r3
    s1 = s1
    s2 = s2
    NoReq = NoReq
    Req = {r1, r2}
    Session = {s1, s2}
    SessionOf <- TwoSessions
    UiPolicyOf <- MixedPolicy
    CancelReactions = {"error"}
    EndsDialogs = TRUE
    FaultKinds = {}
    MaxOut = 1
    MaxFault = 0
    MaxCancel = 0
    MaxRefresh = 0
    StoredId = TRUE
    IdCalls = {}
    FirstReady = {TRUE}
INVARIANT UiAnswerHasRequest
\* The session may be destroyed, or have nothing left to do.
CHECK_DEADLOCK FALSE
