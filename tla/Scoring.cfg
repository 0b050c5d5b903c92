\* Three articles for batches of two, so that the LIMIT cuts one off; two coins,
\* one crash and one merged page of one article. Repairs and arrivals never end.
SPECIFICATION FairSpec
CONSTANTS
    NArticles = 3
    x = x
    y = y
    Coins <- MCCoins
    Tagger <- MCTagger
    Found <- MCFound
    BatchSize = 2
    Spare = 1
    RetagSize = 1
    MaxPage = 1
    MaxMerges = 1
    MaxCrashes = 1
INVARIANTS
    TypeOK
    RightCoinsOnly
    WholeArticles
    RepairHeals
PROPERTIES
    EventuallyScored
