---------------------------- MODULE MCRepoRefresh ----------------------------
(* Servers that nobody watches, with different goroutines or with fetches  *)
(* and rebuilds that fail; and one that a browser watches.                 *)
EXTENDS RepoRefresh

Run(runners, browsers, pushes, faults) ==
    [runners |-> runners, browsers |-> browsers, pushes |-> pushes, faults |-> faults]

ServersAndBrowsers ==
    {Run({"webhook", "interval", "watcher"}, {}, 1, 0),
     Run({"webhook", "interval"}, {}, 2, 0),
     Run({"interval", "manual"}, {}, 1, 1),
     Run({"interval", "watcher"}, {}, 2, 1),
     Run({"interval"}, Client, 2, 1)}
=============================================================================
