SPECIFICATION Spec
CONSTANTS
    shell = shell
    page = page
    text = text
    name = name
    Doc = {shell, page}
    Site = shell
    Key = {text, name}
    NoKey = NoKey
    TouchedBy <- MCTouchedBy
    Interleaved = FALSE
    MaxEdits = 4
    Scenarios <- MCScenarios
INVARIANTS
    TypeOK
    RouteMatchesStacks
    SyncedMeansSaved
    NoticeIsTrue
PROPERTIES
    UndoIsLinear
    SavesInOrder
    EditReachesServer
CHECK_DEADLOCK FALSE
