\* A stored identity, a session or the service, two calls and two registrations at one time, two versions
\* of the identity; the daemon ends once, or destroys its object, and its activation
\* may fail.  A client whose calls are left waiting stops.
SPECIFICATION Spec
CONSTANTS
    Operation = {1, 2}
    Service = {11, 12}
    MaxVersion = 2
    Objects = {"stored", "session", "service"}
    MaxLost = 1
    Faults = {"denied", "activation"}
INVARIANTS TypeOK InfoCurrent
PROPERTIES EndsOnce CallsEnd
CHECK_DEADLOCK FALSE
