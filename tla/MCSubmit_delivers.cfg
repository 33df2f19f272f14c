SPECIFICATION Spec
CONSTANTS
    Branch = {"a", "b"}
    Trunk = "trunk"
    None = None
    Parent <- Stack
    News <- TopMayBeNew
    Busy = TRUE
    MaxPatches = 1
    MaxEvents = 2
INVARIANTS SubmitDelivers PushesAreRemembered
