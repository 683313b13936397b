SPECIFICATION Spec
CONSTANTS
    r1 = r1
    r2 = r2
    r3 = r3
    s1 = s1
    s2 = s2
    NoReq = NoReq
    Req = {r1, r2}
    Session = {s1, s2}
    SessionOf <- TwoSessions
    UiPolicyOf <- DefaultPolicy
    CancelReactions = {"error"}
    EndsDialogs = TRUE
    FaultKinds = {"crash", "brokenBlob"}
    MaxOut = 1
    MaxFault = 1
    MaxCancel = 1
    MaxRefresh = 0
    StoredId = TRUE
    IdCalls = {}
    FirstReady = {TRUE}
INVARIANT ServedIsActive
INVARIANT ActiveIsAwaited
INVARIANT AnsweredOnce
INVARIANT NoLostStart
INVARIANT DestroyNeverRefuses
\* The session may be destroyed, or have nothing left to do.
CHECK_DEADLOCK FALSE
