SPECIFICATION Spec
CONSTANTS
    Page = {1, 2}
    Site <- MCSite
    SlotName = {"children", "aside"}
    Zone = {"before", "after", "inside"}
    FirstId = 100
    MaxEdits = 2
CHECK_DEADLOCK FALSE
INVARIANTS
    TypeOK
    ParentIndex
    IsTree
    SlotsMatch
    RefsResolve
    NoComponentInItself
    OneContentOutlet
    DropLands
    LooksTheSame
