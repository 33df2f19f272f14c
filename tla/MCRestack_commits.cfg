SPECIFICATION Spec
CONSTANTS
    Branch = {"a", "b", "c"}
    Trunk = "trunk"
    None = None
    Order <- Three
    Shapes <- Stacked
    Kinds <- KindsOfAB
    CheckedOut = {"b"}
    MaxPatches = 2
    MaxEdits = 1
    MaxConflicts = 1
    MaxTroubles = 1
    MaxCrashes = 0
INVARIANTS Coherent WorktreesFollow StacksMoveWhole
PROPERTIES CommitsStay EditsSurvive FilesStay
