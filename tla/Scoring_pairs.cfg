\* One article and one crash.
SPECIFICATION Spec
CONSTANTS
    NArticles = 1
    x = x
    y = y
    Coins <- MCCoins
    Tagger <- MCTagger
    Found <- MCFound
    BatchSize = 2
    Spare = 1
    RetagSize = 1
    MaxPage = 1
    MaxMerges = 0
    MaxCrashes = 1
INVARIANT
    RowPerPair
