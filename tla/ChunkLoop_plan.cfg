SPECIFICATION Spec
CONSTANTS
    Floor = 40
    Ceiling = 6
    Documents <- MCDocuments
    Loads <- MCLoads
    Ranges <- MCRanges
    Bases <- MCBases
CHECK_DEADLOCK FALSE
INVARIANTS NothingSkipped RangeStaysValid HeavierNeverWider
