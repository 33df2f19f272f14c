SPECIFICATION Spec
CONSTANTS
    Branch = {"a", "b", "c"}
    Trunk = "trunk"
    None = None
    Parent <- Stack
    Created = {"c"}
    Mains = {None, "b"}
    Calls <- Every
    Busy = TRUE
    MaxPatches = 1
    MaxEvents = 2
INVARIANTS Coherent OwnCommits
PROPERTIES WorkIsKept SyncTidies
