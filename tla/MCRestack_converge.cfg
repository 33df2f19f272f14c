SPECIFICATION FairSpec
CONSTANTS
    Branch = {"a", "b", "c"}
    Trunk = "trunk"
    None = None
    Order <- Three
    Shapes <- Stacked
    Kinds <- KindsOfA
    CheckedOut = {"b"}
    MaxPatches = 2
    MaxEdits = 0
    MaxConflicts = 1
    MaxTroubles = 1
    MaxCrashes = 1
PROPERTIES StacksConverge
