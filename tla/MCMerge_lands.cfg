SPECIFICATION Spec
CONSTANTS
    Branch = {"a", "b", "c"}
    Trunk = "main"
    None = None
    Parent <- Stack
    Ship = "ship"
    Setups <- Situations
    MaxCommands = 2
    MaxPatches = 1
    MaxTroubles = 2
INVARIANTS Coherent
PROPERTIES EveryMergeLands DeletedHasLanded DrainDelivers
CHECK_DEADLOCK FALSE
