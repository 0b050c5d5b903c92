\* One process, one message, one fault: the server refuses a good row.
SPECIFICATION Spec
CONSTANTS
    Instances = {a}
    NoInstance = none
    k1 = k1
    k2 = k2
    Keys <- MCKeys
    Messages <- MCMessages
    MaxRetries = 2
    MaxLog = 1
    MaxFaults = 1
INVARIANT
    CommitsOnlyWritten
\* The log is bounded: the consumer idles when it has read it all.
CHECK_DEADLOCK FALSE
