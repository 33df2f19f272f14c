SPECIFICATION FairSpec
CONSTANT MaxTriggers = 5
INVARIANTS WaitingHasTimer AtMostOneSync
PROPERTIES EveryTriggerIsSynced CoalescesRequests
