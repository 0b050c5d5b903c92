\* Two processes share the group, three messages, two faults, two attempts.
SPECIFICATION FairSpec
CONSTANTS
    Instances = {a, b}
    NoInstance = none
    k1 = k1
    k2 = k2
    Keys <- MCKeys
    Messages <- MCMessages
    MaxRetries = 2
    MaxLog = 3
    MaxFaults = 2
INVARIANTS
    TypeOK
    AtLeastOnce
    ReplayDeterminism
PROPERTIES
    OffsetAdvancesByOne
    ImplementsDelivery
    EventuallyCommitted
\* The log is bounded: consumers idle when they have read it all.
CHECK_DEADLOCK FALSE
