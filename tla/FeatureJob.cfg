\* Two frequencies, one late arrival, every kind of job once besides the loop.
SPECIFICATION FairSpec
CONSTANTS
    Freqs = {1, 2}
    Lookback = 1
    Rolling = 1
    Builts = {{1}, {1, 2}}
    Columns = {FALSE}
    FirstNow = 3
    MaxNow = 6
    Late <- MCLate
    Calls <- MCCalls
    MaxFacts = 1
    MaxStarts = 1
    MaxCrashes = 1
INVARIANTS
    TypeOK
    WholeHistory
    NextPassCovers
    MigrationOwed
PROPERTIES
    NeverOlder
    EventuallySeen
\* run_signals idles between its passes, but never stops.
CHECK_DEADLOCK TRUE
