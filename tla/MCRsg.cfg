SPECIFICATION Spec
CONSTANTS
    GrammarFiles <- GrammarFilesDef
    Marked <- MarkedDef
    MaxWords = 6
    NULL = NULL
INVARIANTS
    VersionsAreSentences
    NeverAbortsWhenComplete
