\* Two articles; nothing crashes, nobody interrupts a repair, nothing is merged.
SPECIFICATION Spec
CONSTANTS
    NArticles = 2
    x = x
    y = y
    Coins <- MCCoins
    Tagger <- MCTagger
    Found <- MCFound
    BatchSize = 2
    Spare = 1
    RetagSize = 1
    MaxPage = 1
    MaxMerges = 0
    MaxCrashes = 0
INVARIANT
    NoOldScores
