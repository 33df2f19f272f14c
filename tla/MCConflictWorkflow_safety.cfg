SPECIFICATION FairSpec
CONSTANTS
    Branch = {"a", "b", "c", "d"}
    Trunk = "trunk"
    None = None
    Order <- ThreeAndOne
    Parent <- Stack
    Created = {"d"}
    Elsewhere = {"b"}
    Mixed = FALSE
    Depths = {1, 2}
    MaxCommands = 2
    MaxPatches = 2
    MaxConflicts = 2
    MaxHand = 1
    MaxCrashes = 1
    MaxTroubles = 2
INVARIANTS RollbackIsWhole RecordedBaseIsReal RestFollows
PROPERTIES CommitsStay NothingStuck
CHECK_DEADLOCK FALSE
