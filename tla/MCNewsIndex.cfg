SPECIFICATION Spec
CONSTANTS
    FeedLists <- FeedListsDef
    Web <- WebDef
    Files <- FilesDef
    StopWords <- StopWordsDef
    Unescaped <- UnescapedDef
    WellFormed <- WellFormedDef
    Lower <- LowerDef
    Code <- CodeDef
    Queries <- QueriesDef
    NumBuckets = 3
    InitialArticles = 1
    MaxShown = 2
    NoUrl = NoUrl
    WholeLine = WholeLine
    Tag = Tag
    Absent = Absent
    Garbage = Garbage
    NULL = NULL
INVARIANTS
    TypeOK
    CountsMatchText
    AnswersRanked
PROPERTY
    EveryFeedIsRead
