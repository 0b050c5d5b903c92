\* One process, two messages and no fault at all.
SPECIFICATION FairSpec
CONSTANTS
    Instances = {a}
    NoInstance = none
    k1 = k1
    k2 = k2
    Keys <- MCKeys
    Messages <- MCMessages
    MaxRetries = 2
    MaxLog = 2
    MaxFaults = 0
PROPERTY
    PoisonIsSkipped
\* The log is bounded: the consumer idles when it has read it all.
CHECK_DEADLOCK FALSE
