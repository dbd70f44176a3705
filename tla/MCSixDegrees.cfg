SPECIFICATION TestSpec
CONSTANTS
    actorFile <- ActorFileDef
    movieFile <- MovieFileDef
    Responses <- ResponsesDef
    MaxLength = 3
    NumToPrint = 1
INVARIANTS
    AnswerIsShortest
    ListsAreRight
PROPERTIES
    CastIsRight
    SearchEnds
