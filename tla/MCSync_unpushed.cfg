SPECIFICATION Spec
CONSTANTS
    Branch = {"a", "b", "c"}
    Trunk = "trunk"
    None = None
    Parent <- Stack
    Created = {}
    Mains = {None}
    Calls <- Batch
    Busy = FALSE
    MaxPatches = 1
    MaxEvents = 2
PROPERTIES UnpushedWorkStays
