SPECIFICATION FairSpec
CONSTANTS
    Client = {c1}
    Runner = {"webhook", "interval", "manual", "watcher"}
    Setups <- ServersAndBrowsers
    MaxPush = 2
    MaxDrops = 1
    Buffer = 1
    MaxRequests = 1
INVARIANTS TypeOK
PROPERTIES ServedFollowsCheckout ServerConverges BrowsersFollow
