\* Time passes while nothing runs, then the health check repairs; nothing
\* arrives late and nothing fails.
SPECIFICATION Spec
CONSTANTS
    Freqs = {1, 2}
    Lookback = 1
    Rolling = 1
    Builts = {{1, 2}}
    Columns = {TRUE}
    FirstNow = 5
    MaxNow = 10
    Calls = {}
    Late = {}
    MaxFacts = 0
    MaxStarts = 1
    MaxCrashes = 0
INVARIANT
    ReportedInSync
