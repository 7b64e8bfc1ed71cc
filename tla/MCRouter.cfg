CONSTANTS
    Characters = {"/", "a", "1", "-"}
    Patterns <- MCPatterns
    Urls <- MCUrls
    Methods = {GET, POST}
    MaxRules = 3
    Optimize <- OptimizeNode
SPECIFICATION RouterSpec
SYMMETRY Symmetry
INVARIANTS
    AnswersLikeRules
    ConflictsRefused
CHECK_DEADLOCK FALSE
