SPECIFICATION Spec
CONSTANTS
    Branch = {1, 2, 3, 4}
    Trunk = 0
    None = None
    Shapes <- Forms
    MaxPatches = 2
    MaxActs = 3
INVARIANTS Coherent NothingLost
PROPERTIES LeavesInOrder
CHECK_DEADLOCK FALSE
