# Stackit in TLA+

A verification project for [stackit](../README.md): specifications of its parts
in TLA+, TLC configurations that check them on small instances, and proofs that
TLAPS checks for all instances. `PROJECT.json` lists the parts, the runs, the
properties with a mutant of the code for each, the source lines behind every
definition, the hazards and the theorems.

    tlc -workers 2 -config Coalescer_race.cfg Coalescer.tla     # a run
    tlapm CoalescerProofs.tla                                    # a proof

## The system

Stackit keeps stacks of git branches. A branch's parent, its base revision, its
pull request and its flags are JSON blobs under refs of the repository itself, in
a shared tier (`refs/stackit/metadata/<branch>`, exchanged with collaborators)
and a local one. Commands of the CLI, running in several terminals and
worktrees, are processes over one repository. A server keeps mirrors of
repositories, serves views of them and tells browsers to load them again.

| Part | State it keeps | Operations | What is hard | What makes it correct |
| --- | --- | --- | --- | --- |
| Metadata store (`git/metadata_store.go`, `metadata_cache.go`, `engine/transaction.go`) | metadata refs; per process a cache of records with versions and generations | read, write, delete, transactions with compare-and-swap, retry, clear | processes replace refs between read and write; goroutines share a cache; a process dies anywhere | a write replaces what it was computed from; the cache never pairs a value with another's version; retries get through |
| Engine state (`engine_impl.go`, `state_core.go`) | branch map, children edges, two load gates | lazy loads, rebuild, incremental updates | loads in either order, reads applied late | the maps equal what the refs say; nothing local is lost by loading |
| Branch tracking (`branch_tracking.go`) | parent and base revision per branch | track, untrack, rename, delete, reparent | an update in two transactions; children left behind | no cycle; the base is an ancestor of the branch; own commits stay own |
| Restack (`restack_impl.go`, `engine_sync.go`, `rebase_validator.go`, `actions/restack`) | plan, scratch rebases, worktrees, ref updates, a continuation file | plan, validate, apply, hold, stop at a conflict, continue, abort | commits, edits and other commands while it runs; stale validation; half-done applications | no commit is lost, none is duplicated; branches end up on their parents; worktrees agree with their branches |
| Undo (`undo.go`) | snapshot files and stash refs | take, list, restore, enforce the limit | restoration in several git calls | a restored repository is the one that was recorded |
| Remote metadata (`remote_sync.go`, `metadata_transport.go`) | remote-tracking refs, a hash of what was last synchronized | fetch, diff, accept, reject, push, clean orphans | collaborators change the same branch | a local change is never overwritten silently; replicas converge |
| Submit (`actions/submit`) | pushed branches, pull requests, metadata | push, create, update, record | each step can fail alone; another client may act | a retry completes what is missing and repeats nothing |
| Sync and clean-up (`actions/sync`, `clean_branches.go`) | trunk, merged branches | pull, delete, reparent, restack | deletion and reparenting while commits arrive | no unmerged commit is deleted; children keep their own commits |
| Merge (`actions/merge`) | plan, remote pull requests, consolidation branch | plan, execute, wait, poll | remote state moves during a plan | merges happen bottom up, each once |
| Worktrees (`engine_worktree.go`, `actions/worktree`) | registry and anchors | create, attach, detach, prune | several processes; directories vanish | a registered worktree exists and has its branch |
| History commands (`absorb`, `split`, `fold`, `move`, …) | none of their own | edit, then restack | partial failure | the stack's content is preserved |
| Server registry (`api/registry`, `handlers/onboard.go`, `api/store`) | entries by id and by owner/name, rows, clones | onboard, list, find, close | concurrent onboarding, failure after persisting | the registry's indexes agree; a row has one entry |
| Webhook coalescer (`reposync/coalescer.go`) | per repository: running, pending, generation, timer | trigger, run | a timer that has fired cannot be stopped; deliveries during a sync | syncs never overlap; every delivery is followed by a sync |
| Sync loop, refresh, streams (`reposync/syncer.go`, `registry.go`, `broadcaster.go`, `events.go`, `use-sse.ts`) | the mirror's refs, the engine, channels, the page's view | mirror-fetch, refresh, broadcast, reload | four goroutines, lost deliveries, hung fetches, full channels, reordered responses | the served state goes back only where the checkout does, and converges while the loop runs; browsers follow |
| Server limits (`sse_limit.go`, `ratelimit.go`, `auth`) | slots, buckets, sessions | acquire, release, expire | concurrent handlers | the limits hold and slots come back |
| Stack graph and other pure code (`stack_graph.go`, `hunks.go`, `branchname`) | none | traversals, ranges, formats | boundary cases | they compute what their comments say |
| CLI, TUI, web rendering, configuration | flags, screens, YAML | parsing, drawing | – | not a subject of this project |

Parts interact through the repository's refs (the store, restack, undo, remote
metadata and the server's mirror all write them), through the engine (every
command; the server's refresh rebuilds it), through files beside the repository
(continuation, snapshots) and, in the server, through callbacks (the
coalescer calls the syncer, the watcher and the syncer call Refresh) and channels.

## Modules

### The metadata store

`GitRefs` is git's side: `update-ref --stdin` applies a list of updates when every
one finds the version it demands, and otherwise nothing.  `MetadataStore` is
stackit's: per engine (process) a cache entry per ref, per thread (goroutine) the
operation it is in. An operation (`Jobs`) is a transaction (`tx`, with or without
`WithRetry`, updating or deleting), a standalone write (`direct`), a local flag
(`flag`), the metadata part of a restack, an `untrack`, or an engine's `rebuild`.
A ref's content is the set of marks of the operations that have gone into it, so
that a lost update is a missing mark; a version is the content, as blobs are
content-addressed.

| Steps | Code |
| --- | --- |
| `ReadMetadata`, `ReadLocalMetadata`, `Fetch`, `Prepared` | a read through the cache, or from git with `PutWithSHA`/`PutAbsent` |
| `WriteBegin`, `UpdateRefs`, `UpdateRefsRejected`, `DeleteMetadata` | the git call of a commit, a write, a deletion |
| `MarkRefChanged`, `RecordCommitted`, `WriteDone`, `Forget` | the bookkeeping after it: first the generation, then the records, each its own step |
| `TxRejected`, `WriteRejected`, `RestackRejected` | what a refused update leaves in the cache |
| `ClearMetadataCache`, `Rebuilt` | a rebuild |
| `Restart` | the process dies; a new one has an empty cache |

The cache's `shared` generation is abstracted to its effect, an entry being
trusted or outdated. Blob writing, JSON and the retry's backoff are left out: the
first two fail without an effect on refs, and the last is only time.

`AtomicMetadata` is what transactions promise: operations happen one at a time,
each once. `MetadataStore` with transactions only implements it
(`store_atomic`).

### The webhook coalescer

`Coalescer` is one repository's entry with the timers its deliveries have armed.
A timer is `armed`, `fired` (its callback waits for the mutex) or `syncing`;
every critical section is an action. `SyncOwed` is what it promises, in two bits:
a sync is owed, a sync runs. The entry's deletion makes generations start over,
which is why `Superseded` must also look at `running`, and why the invariant needs
timers in order (below).

### Server refresh

`RepoRefresh` uses `SyncOwed` in place of the coalescer and adds the interval
loop, a manual sync and the ref watcher, each a goroutine with a `pc`; git fetch;
`Refresh` as lock, read, apply, announce; and browsers, each with a channel of
`Buffer` events, open requests, responses under way and a view. A repository's
state is the number of pushes it contains, which is all that the properties
compare. The checkout's refs are of two kinds, `heads` and `metadata`, each with
the version it is at and the number of times it has been changed (`nth`).

A fetch hears the remote's refs (`FetchHears`), looks which of the checkout's differ
(`FetchLooks`), and writes those one by one (`FetchWrites`). The refspecs are forced
(provision/fetch.go:29-33) and nothing keeps two fetches apart, so the later writer
wins, with older content too; a ref that has moved since git looked may be refused
as its lock is taken, and the fetch fails with the rest written. A killed fetch
leaves what it has written. `RebuildReads` reads heads and then metadata, so that what
is served may mix two fetches. What the server serves can therefore go back, as
the checkout can: `ServedFollowsCheckout` says that a refresh never does so by
itself, and `ServerConverges` that in the end, while the loop runs, the remote is what
is served.

Left out: the view's assembly, `branch_switched`, authentication, the web page's
rendering, a metadata read that fails (it is swallowed, and the branch is served as
untracked, engine_internal.go:78), and what a manual sync does after its refresh.
Requests of a page do not fail in the model.

### Revisions

A revision is the sequence of the patches it is made of, so that ancestors are
prefixes, a merge base is a common prefix, and a rebase (`Replay`) moves patches
and drops those that are there already. Who made a patch, and on which branch it
belongs, stays visible through every rebase: a lost commit is a missing patch, and
a foreign one has another branch's name. All modules about branches use it.

### Restack

`Restack` is one validated pass over a stack and everybody else.

| Steps | Code |
| --- | --- |
| `Plan` | `PlanRestack`: per branch an action, a new parent, an old base, the revision to move to (`PlanOf`, `PlainItem`, `AnchorItem`, `FrozenItem`) |
| `ValidateSpec` | the trial rebase of one branch, level by level; it succeeds, conflicts, or is blocked by one below |
| `Collect` | what is applied (`classifyValidatedBranches`, `holdBackConflictedStacks`), and the revisions read before the first move |
| `Inspect` | `git status` in every worktree |
| `HoldBack`, `UpdateRefs`, `UpdateRefsFails`, `MetadataRefresh` | one branch of `restackBranches`' loop: held, moved with its metadata by compare-and-swap, refused, or only its record corrected |
| `ResetWorktree` | the reset that follows a move, a step of its own |
| `Finish`, `Crash` | the command ends, or dies between any two steps |
| `Commit`, `Amend`, `Edit`, `NewFile`, `AdvanceTrunk`, `LandSquashed`, `LandRebased`, `RemoteAdvances` | people, other clones and the remote, between any two steps |

A branch is `plain`, `locked`, `frozen` (it follows its remote branch) or an
`anchor` (it follows trunk). `alive` are the patches the users of a branch want on
it; `late`, `was`, `moved`, `fresh` and `calm` record what properties need to know
of the past. The inspection of all worktrees is one step; the code visits them one
after the other, which changes when a change of one worktree counts as seen and
nothing else. The locks on metadata are `MetadataStore`'s subject and left out
here, and so is the memory an engine keeps of anything but parents (`mem`).
Left out too: parents that have been deleted (`Sync`), the linear-stack check, and
commits made in a worktree that has not been reset yet.

`CommitsStay` takes one window out, the patches `late`: a branch is rebased in a
scratch worktree, its user commits, the pass reads the tip, with the commit, and its
compare-and-swap replaces exactly that tip by the rebased revision without it; the
reset of the clean worktree hides it. From the reading on a moved branch is
refused. `FilesStay` names the cases in which the names that come in are not those
of the parent whose tree is looked at (a branch that changes its parent, one on an
anchor, a frozen one), and asks that nobody else moves a branch in the pass.

### The conflict workflow

`ConflictWorkflow` is the path that rebases in the user's worktree: `restack` moves
branch after branch (`RebaseBranch`, `SecondUpdate`, each update of a ref its own
step), stops at a conflict, saves a continuation, and the user resolves, then
`continue` or `abort`. Beside the refs it keeps what lies in files: the rebase
that is stopped, the continuation, the snapshot with what it recorded, the
rollback marker. `abort` is the marker, the rebase's abort, the restored refs and
worktrees, and the cleared files, in that order and a step each; a crash may come
between any two, and the next `abort` finishes what the marker tells of. People
commit, edit, and abort or continue the rebase by hand. HEAD is restored by a hard
reset when it is on the snapshot's branch and else by a plain checkout, whose failure
is swallowed (`RestoreHead`): it may fail over changes, people's or those that appear
under HEAD when its branch's ref is restored.

Left out: failures of single git calls that only another process's lock causes and
that are swallowed (a metadata ref's or a branch's deletion in a rollback), commits
on a detached HEAD, and, when a rollback leaves HEAD on another branch, the changes
that its restored ref makes appear there.

### Sync

`Sync` is one `stackit sync` with the people who commit, push, merge and close.
Its looking (`FetchTrunk`, `QueryGitHub`, `ListRemote`, in any order), its moving
of what is behind (`PullReads`, `PullWrites`, `ResetTrunk`, `ProcessGitHub`,
`FetchBehind`), its deletions (`PlanDeletions`, `Answer`, `Reparent`,
`DeleteBranches`, `AdoptChildren`) and its restack are steps, and what they decide
from is what was looked at, not what is there. A pull request lands as one squashed
commit, patch number 0; `landed` says what is in it. `waived` collects what users
gave up knowingly (prompts, `--force`, `branch -D`) and what sync cannot see: commits
between `PullReads` and `PullWrites`, and those made after the branch's status was
read. `calm` says that nobody disturbed the sync.

Left out: dirty managed worktrees, locked and frozen branches, utility branches,
prompts about remote metadata, snapshots, clean-up of worktrees and stack metadata,
conflicts in the restack (`Restack`), a failing `ls-remote`, and restack's own
reparenting of parents that landed but were kept.

What has landed, and where a branch's own commits begin when its parent is gone, is
`Landed`, which `Sync` and `Merge` extend.

### Merge

`Merge` is `stackit merge` beside people who commit and merge, on a GitHub that
deletes the heads of merged pull requests or keeps them. `next` and `drain` merge the
lowest pull request (`CheckPR`, `MergeDirectly`, `EnableAutoMerge`, `AwaitMerge`),
then sync (`Look`, `Clean`, `RestackScope`); a drain publishes what that has moved
(`PublishHeads`, `PublishBases`) and plans anew. The wizard and `ship` carry out a plan
of steps (`StepMergePR` to `StepDeleteBranch`, `StepConsolidate`, `MergeShip`,
`EnableShip`, `ClosePRs`). Every step may fail, and the process may die between any
two. `late` are the commits a command cannot see any more or has warned of, `calm`
says that nobody got in its way.

Left out: scopes, `--force`, `--count`, other merge methods, pushes by others,
conflicts, worktrees, locks that users set, remote metadata, several stacks, waiting
for checks as a step of its own. A behaviour has one consolidation.

### Submit

`Submit` is `stackit submit` in steps, each of which may fail alone: the remote's
branches are read, bases of pull requests retargeted, all branches pushed in one
call that git applies per branch, pull requests created or updated at once, the
metadata pushed and the footers written. Others push, change bases, merge, and
commit meanwhile. GitHub is external: a pull request's comparison commit (`from`)
follows a fast-forward of its base branch, stays on a rewrite, and is reset when
the base is set. `SubmitDelivers` says that a submit that says it succeeded has
left what it read on the remote, in pull requests with the right bases, with
metadata recorded; `calm`, `owes` and `apart` record what disturbed it. `apart` are
the branches of which it does not say what the pull request shows: GitHub compared
them with something else since they were recorded, or they were recorded while
their remote branch did not stand on the parent they were recorded with. The second
happens when a submit pushes a stack and dies, the parent is moved away and back
while the next one plans, and moved again: the third finds nothing to do, and the
pull request shows the old parent's commits.

`tracked` are the remote-tracking refs. What `ls-remote` does not list is taken to be
what they say, and so is everything when it fails, which is swallowed
(`Seen`, `ListRemote`; engine_branch_status.go:255-292). A submit that could not list the
remote may find that a branch matches while GitHub has more: `Delivered` then
promises only that GitHub has the branch's commits, possibly under others' that
nothing has fetched.

Left out: titles, bodies and banners as text, GitHub's own stacks, `--force`,
anchors, prompts, empty branches, merged pull requests (`Sync`), flags that narrow
the set, and a failure to write the mark at submit.go:460, which is not fatal.

### Editing a stack

`StackEdits` has the commands that change a stack's shape: create, squash,
move, reorder, insert, pluck, fold (with and without `--keep`), delete, rename,
track, untrack, restack, and git used by hand. A command is begun with what it
read and what is `due` when it is done; its metadata updates, ref updates and
restack are steps of their own, and it may die between them. `own` is what users
put on a branch. Names are numbers, since the order of siblings is alphabetical.
`Forfeited` exempts a `fold --keep` that dies between deleting the parent and
recomputing the kept branch's base.

Left out: conflicts and concurrency (`Restack`, `ConflictWorkflow`,
`MetadataStore`), empty branches, locks, scopes, worktrees, linear stacks, absorb and
split, folds of a branch that is not on its parent's tip, and names that a record
has outlived, for create, rename and `git branch`. A squash's soft reset and amend are
one step.

## Runs

| Run | Asks | Answer |
| --- | --- | --- |
| `store_engines` | two processes, every operation, one dies anywhere and starts again | types; `CacheFollowsOwnWrites`; `CommitReplacesWhatItRead`; `UpdatesAreDroppedOnlyBlindly`; `RejectionsAreOwedToOthers` |
| `store_atomic` | do transactions implement `AtomicMetadata`, does `WithRetry` get through | yes, and yes with fewer rivals than attempts |
| `restack_commits` | three stacked branches of every kind, every scope, users in between | `CommitsStay`, `Coherent` (recorded parents are real), `EditsSurvive`, `FilesStay`, `WorktreesFollow`, `StacksMoveWhole` |
| `restack_converge` | does restacking again and again bring every branch to its parent | yes, after conflicts, held worktrees and a crash |
| `conflict_stops` | stops, continuations, aborts, crashes between their steps | a rollback is whole (HEAD as far as its checkout works), recorded bases are real, what was left to do follows with HEAD attached, no commit is lost, nobody is stuck |
| `sync_passes` | syncs of every mode among people who go on working | only pushed or waived work goes, branches own their commits, no child of a deleted branch is left, and an undisturbed sync tidies |
| `sync_unpushed` | does a merged branch with unpushed commits stay (README.md) | no, if neither the remote nor a tracking ref has it: finding |
| `submit_delivers` | every step may fail, others act | a successful submit has delivered, and a push is remembered |
| `merge_lands` | each command over three branches, commits, merges by hand, failures, crashes | every merge goes to trunk with the branch's own commits; what is deleted has landed; an undisturbed drain delivers |
| `stack_edits` | every command, dying anywhere, in sequences | nothing is lost, branches keep their own commits, commands leave the stack in order |
| `coalescer_race` | five deliveries, late callbacks | no overlap, no stranded delivery, implements `SyncOwed` |
| `refresh_follows` | goroutines refresh, alone and together; lost deliveries, collisions, a failure; a browser | what is served follows the checkout; while the loop runs the server converges and browsers follow |

Bounds. The store has two engines or threads, one branch with both its tiers and
two or three marks: every property is about one operation and a rival, three marks
let an update be lost between two others, and `Retire` reuses marks so that the
number of operations in a behaviour is not bounded. Restarts are bounded by
`MaxCrashes`, attempts by `MaxRetries`. A stack of three branches is the least in
which one is held or has landed with branches above and below it; two patches
(`MaxPatches`) beside those of the branches are a change of the parent and one of
the branch, or two of either. `MaxTroubles` bounds edits, conflicts and crashes
together (1 in the restack runs, 2 in `conflict_stops`); `MaxEvents` does it in
`Sync` and `Submit` for what happens on GitHub, crashes and failures (2), `MaxActs`
in `StackEdits` for commands, crashes and git by hand (3; 4 with one patch has also
passed: 3,911,189 states). The conflict workflow has four branches, one of them
created later and one checked out elsewhere. Five deliveries allow an old callback,
a running sync, a delivery during it, and two more entries after a deletion. In
`refresh_follows` `Setups` says which goroutines run, how many pushes there are and
how many faults: webhook, interval and watcher with one push; webhook and interval
with two; interval and manual with one push and a fault; interval and watcher, and
the interval loop with a browser, with two pushes and a fault. Two fetches and a
push are what it takes to put a ref back, two pushes tell an old version from a new
one and a newer one, and a channel of one event is full as often as one of sixteen
is. In `merge_lands` two commands and two troubles are a failure and its repetition;
two commits, or three commands, have also passed. The acts that are bounded may all
be used up, so `conflict_stops`, `stack_edits` and `merge_lands` do not check for
deadlock.

| Run | Distinct states |
| --- | --- |
| `store_engines` | 889,654 |
| `store_atomic` | 52,857 |
| `restack_commits` | 1,003,168 |
| `restack_converge` | 168,680 |
| `conflict_stops` | 166,604 |
| `sync_passes` | 1,132,344 |
| `submit_delivers` | 609,444 |
| `merge_lands` | 295,564 |
| `stack_edits` | 414,943 |
| `refresh_follows` | 150,413 |

Fairness. Threads, goroutines and browsers run (weak fairness of their steps);
Go's mutex passes to a waiter (strong fairness of `LockRefresh`, since others may
take it in between); timers expire and a ticker ticks. A restack that has begun
goes on (weak fairness of `Passing`), and somebody restacks everything again and
again (strong fairness of `Plan(Branch)`): convergence is what repeated use
promises, nothing starts a restack by itself. In `ConflictWorkflow` a command that
has begun goes on, and whoever is stuck aborts. In `refresh_follows` no fetch has to
return and the interval loop does not have to come round: syncer.go:64-97 gives its
fetches no deadline, and one that hangs stops it for good. `ServerConverges` and
`BrowsersFollow` therefore begin with a premise, `LoopRuns`: they speak of the
behaviours in which the loop fetches again and again. Nobody is
obliged to commit, push, deliver or request anything. The liveness of `sync` is out
of reach at a useful size; `SyncTidies`, about the step that ends one, stands for it.

## Where code and documents disagree

`sync_unpushed` is the one disagreement a run shows. The others were met while
modelling; the modules do what the code does, and properties leave the case out
where it would break them.

Restack and the store.
- docs/metadata.md:434: a restack lists metadata versions after it has read the
  records through the cache (engine_sync.go:193), and overwrites another process's
  update. docs/metadata.md:484: a ref update demands the tip that
  `collectRestackData` read after the validation (engine_sync.go:113), so a commit
  between the trial rebase and that read is overwritten; on the unvalidated path
  (restack_impl.go:671) the window is the rebase itself.
- `MetadataRecord`'s observed absence is not an expectation when it is committed.
- Neither restack nor sync refuses to run while a rebase is stopped:
  git/rebase.go:46-52 answers a conflict because one is in progress, the other
  branch's continuation is saved, and `continue` moves it to the first one's commits
  (executor.go:270's comment). `continue` without a rebase clears a pending
  rollback (abort/action.go:102-104); undo leaves the continuation; an abort resets
  work made after a rebase was aborted by hand; a refused update of `continue`
  leaves HEAD detached (executor.go:238).
- An abort reports success although HEAD stayed elsewhere: the checkout that brings it
  back is not forced and its failure is swallowed (undo.go:679-683), after which the
  continuation is cleared (abort/action.go:105-114, 177) and nothing tells of it. A
  restack stopped from trunk, a rebase ended by hand and an edit are enough.

Sync.
- branch_sync.go:15-18: "fast-forward when someone else pushes". The status is
  read before the objects are fetched, so an unknown commit has no merge base, the
  branch counts as diverged (types.go says unknown is not) and is never pulled.
- `PushParentsToGitHub` runs before cleaning reparents, so a pull request's base
  stays the deleted parent until the next sync. A closed branch on a parent deleted
  by hand, with a child, makes every sync in batch mode fail (`Stuck`). A merged,
  a closed and an open branch in a row: the recomputed base makes the first one's
  commits the last one's own. In preserve mode the parent is set before the
  ancestry check that may fail.

Submit.
- When `ls-remote` fails and a remote-tracking ref is stale, submit finds that
  the branch matches, does not push it and reports that all is up to date, while GitHub
  has another revision (engine_branch_status.go:255-292, submit.go:372-387).
- submit.go:517 says to sync and try again when metadata could not be pushed, and
  nothing tries again; nor does a failed footer (submit.go:1083-1086). After a
  partial failure the recorded base is not the one GitHub compares with (`apart`).
  The lease uses the SHA `ls-remote` has just answered (submit.go:870-883), which
  protects no unseen push (submit.go:772). Pushes of metadata are forced
  (`+refs`, runner.go), so the rejection submit.go:1161-1163 handles cannot happen and
  another user's lock is overwritten (README.md:491).

Editing.
- create, rename and track onto a name that a branch still records as its gone
  parent make a cycle, which move.go:193 and pluck.go:87 check for and
  `TrackBranch` does not; `computeDepth` (stack_graph.go:139-152) then recurses
  without end. Reorder restacks only what is above the first moved branch in the
  old graph; delete only direct children. `TrackBranch` keeps the old base of an
  existing record (branch_tracking.go:70-71). A fold of an unrestacked branch brings
  amended-away commits back, and `fold --keep` on a parent behind its amended
  grandparent makes the old commits the branch's own.

Merge. `EveryMergeLands` and `DrainDelivers` leave out what is not `calm`, and the hook.
- A setup of the run never has a drain beside a ship, and `DrainDelivers` says nothing
  of the two together: once GitHub has merged a consolidation on its own, a drain of a
  branch that is in it finds nothing left to merge and ends with its pull request open
  (TLC finds this when `Setups` mixes `shipLater` with `drain`); its commits are on trunk.
- docs/shipping.md:122 calls `merge drain` equivalent to `merge next --wait` in a
  loop. After `next` merged the bottom branch nothing is pushed or retargeted, so
  where GitHub keeps merged head branches the next one is merged into the merged
  branch, never reaches trunk, and sync deletes it as merged. The same follows when
  a wizard's plan or a drain fails between merge and publication and merge is run
  again (the plan skips merged branches).
- A drain's locks replace a user's, are published as "draining" by the submit
  inside and come back only locally (drain.go:42); a crash leaves them. Ship's
  locks stay when its wait fails; shipped with `--wait=false` and squashed, single
  branches are not detected as merged (docs/shipping.md:580). A wizard deletes
  without looking again, and its restack steps push without a lease. A drain submits
  the branches it has locked with verification on (drain.go:60, submit.go:890): the
  pre-push hook (prepush.go:67), where installed, refuses the drain's own push.

Get and remote metadata (read, not modelled).
- Heads of frozen branches are never fetched by sync (README.md:486,
  branch_sync.go:69); a frozen reset takes the parent's local tip as base; `get` does
  not move trunk; refs of fetched metadata are never pruned, so orphans are not
  seen. Deliveries that never pause for the quiet window postpone the server's
  sync for good, which is what a debounce does.

## Proofs

All hold for arbitrary constants under the assumptions the modules name; TLC
evaluates those on every run, and every invariant below was an invariant of
a run before it was proved.

- `MetadataStoreProofs`: `TypeCorrect`; `AlwaysPaired`; and
  `TransactionsReplaceWhatTheyRead`. The property is about a write at the moment
  git accepts it, so it needs what the reads before it have established:
  `CachePaired` (a cache entry's value is the content of its version),
  `ReadsPaired` (so is what an operation has read, unless it holds no version) and
  `StagesInOrder` (nothing is left to read once a write has begun). Each is
  preserved only with the others, since reads come from the cache and the cache
  from writes.
  `StoreImplementsAtomicMetadata` is the refinement, under `TransactionsOnly`:
  every job is a transaction or a rebuild, as in `store_atomic`. Its invariant
  `MarksOnce` says that operations that run have marks of their own, which are in
  no operation that has landed before they are written, so that an accepted update is
  one step of `AtomicMetadata` and every other step a stutter. With other jobs the
  refinement is false, as a standalone write may overwrite.
  Under `OneThreadPerEngine`, which is a process running one command, as in
  `store_engines`: `CacheFollows`, `RejectionsAreForeign`, `DropsAreBlind`.
  `OwnWrites` adds to the property the steps between an accepted
  update and its bookkeeping (until `RecordCommitted` the cache may be behind, but
  the thread knows what it wrote), and that a read which is under way will not
  undo it. With two threads on an engine the first is false: the other thread may
  read in that gap.
- `SubmitProofs`: `PushesRemembered`. A branch pushed since its pull request was
  written is marked, since the mark precedes the push and only the write of the
  same branch takes it away: `MarkedFirst`, `Settled`.
  `Delivers`. A submit leaves alone what its records call unchanged, so
  the records of every branch have to be true, whether or not a submit is running.
  `StackHolds`: branches are a tree, have their own commits above their base, and
  no branch's own are anywhere but on itself and above it. `GitHubHolds`: GitHub
  compares an open pull request with what its base branch is, or with what it was
  before a rewrite. `RecordsHold`: what is recorded of a branch that is not `apart`
  was made on what GitHub compares it with, and so was its remote branch, unless
  the branch is marked. `CalmHolds`: an undisturbed submit has seen what is still
  so, and what it leaves out needs nothing. Together what GitHub compares a branch
  with reaches up to the branch's base, and what is shown is its own. `TrackHolds`:
  a remote-tracking ref is a part of what the remote has, and what is on top of it there
  is the branch's own, others' additions. So a branch that matches when the remote could
  not be listed is on GitHub all the same, under what others have pushed since
  (`MatchesIs`, `DeliversHere`). The
  assumptions are those of the shape: `Parent` leads to trunk (`Rooted`), and what
  has not been submitted has nothing submitted on it, as a submit takes what is
  below along. The proof found that `apart` had been too small: the scenario above
  needs three branches, and the run has two.
- `RestackProofs`: `TypeCorrect`; `AlwaysCoherent`; `WorktreesAlwaysFollow`;
  `EditsAlwaysSurvive`. `Inv` is the conjunction of `Stacks` (parents come before
  their children, what `was` remembers includes what is), `PlanSound` (each item
  of the plan is one its branch's kind allows, its parent the one that will be
  there), `Placed` (a branch is still to do until it and its parent are where the
  plan has them, or left out with its whole stack), `Worktrees` (a worktree that
  differs from its branch is waiting for its reset, or a command was killed),
  `Idle` and `RealParents`. A recorded base is real because the parent was placed
  before the child, or excluded with it: none of the parts is inductive alone.
  `RealParents` has the hypothesis `AnchorsOnTrunk` (worktree anchors are on trunk
  when the behaviour begins, as the runs' shapes are). The code can create an
  anchor elsewhere (actions/worktree/actions.go:515-535), and
  `restackWorktreeAnchor` then records trunk's revision under that parent
  (restack_impl.go:284). Nothing else proved of `Restack` needs it.
  `StacksAlwaysMoveWhole` and `FilesAlwaysStay` need `PassInv` beside it: trials go
  up the stacks and leave a branch on what it is to be on (`TrialsFollow`), the plan
  moves what is on a branch that moves, and to where that goes (`PlanFollows`), and
  of what is to be moved only what is in conflict or held back is left
  (`Moves`). So a branch, when its turn comes, has been rebased onto what its parent
  is then, which is what the check for untracked files (`Files`) has looked at.
  `CommitsAlwaysStay`. A rebase leaves out what is below the old
  base, so what could be lost is a patch of the branch that is there, too. `Lineage`
  says when it may be: only after it has landed, and then it is on trunk and on
  every revision below the branch that has been rebased since. `PlanLineage` says
  that the plan's old bases and targets respect that although they were read
  earlier, `Trials` that a trial rebase has every patch its branch had when it was
  read, except those `late`.
- `SyncProofs`: `WorkIsAlwaysKept`; `SyncCoherent`. A sync deletes, moves and
  rebases by what it saw, while everything else goes on. `AtHome`: a commit that
  has been neither pushed nor given up is on the branch it was made on; so a commit
  goes only when its own branch loses it. `Lineage`: such a commit is, beside that,
  only on branches created on this one, in tips as in recorded bases, and parents are
  below; so the rebase of a branch, which leaves out what is below its old base or on
  the new one, leaves out nothing of its own. `Remote` and `Seen`: what the remote has,
  or had when sync looked, was pushed; so what was judged neither ahead nor diverged
  was pushed then, whatever came since. `Judgement`: what is to be deleted may go with
  what it was seen to have (`MayGo`), and what is known stays on something that is
  there or about to go (`Standing`), until adoption leaves only the first. A restack's
  recursion has its defining equation because parents lead to trunk, whatever was
  reparented (`LowerIsTree`). The assumption is `Rooted`: `Parent` leads to trunk.
- `ConflictProofs`: `TypeCorrect`; `RollbackIsAlwaysWhole`; `CommitsAlwaysStay`;
  `RestAlwaysFollows`. `Inv` says which command may be where and what it has brought there (`Control`),
  that whatever exists is on something that exists, now and in every snapshot
  (`Stacks`), and per step of a rollback what snapshot and repository have in common
  by then (`Restored`): branches after the refs, metadata only after `DeleteMetadata`,
  HEAD after that. Of HEAD the code can promise only so much (`Whole`): it is back when
  the abort began on the snapshot's branch, or on a detached HEAD, as in a stopped
  rebase, with no changes there; else its checkout may have failed. The marker holds the snapshot that is being restored, so what an
  abort that died leaves behind is the case the next one begins from. The assumptions
  are those of the shape: `Order` has parents before children, and what exists at
  first is on what exists. `CommitsAlwaysStay` and `RestAlwaysFollows` have the
  hypothesis `~Mixed`, under which the run checks them: whoever restacks in the middle of a rebase can have a branch moved
  to another's commits (see "Where code and documents disagree"), and TLC shows it
  with `Mixed` set. `Lineage` says that
  what a branch, a base, a snapshot, the stopped rebase, the continuation or the
  command has of a branch is of it or of those below, so that a rebase leaves out
  nothing of the branch's own; `Faithful` that the stopped rebase has what the branch
  had when its revision was read, unless the branch has moved since, which
  `UpdateBranchRef` then sees, as a new commit is in no revision that was read.
  `RestFollows` is about what was asked for a whole conflict ago, so `Follow` says what
  is left of it at every step: of the owed branches, those before the one that has
  stopped are settled (on their parent's tip, or held back by a worktree), those
  behind it are the continuation's rest, and a pass moves no branch below one it
  leaves alone (`Applied`). A move unsettles only what is above, which comes later in
  the order. That changes here never hold back what continue comes to (`Bare`) is
  because no rebase begins over them. TLC has checked `FollowInv` on the run's
  instance, and refutes `RestFollows` with `Mixed` set.
- `StackLemmas` is what these rest on. A proof by induction over a data structure
  would take an operator as parameter, which the provers cannot instantiate;
  `TreeInduction` and `TreeRecursion` are about sets and functions instead. A
  set that holds a branch whenever it holds its parent holds every branch, and a
  function defined from its value at the parent exists, wherever some sequence lists
  the branches with parents first; both follow from the least number of a set.
  `RootRecursion` has the second without an order, where every branch leads to the
  root; `BeneathIs` says what is below a branch then.
  With them `Downstack`, `Submittable`, `Root`,
  `NearestValid`, `PlanOf`, `Chain` and `FirstTips`, which walk up to trunk, have their
  defining equations. `PickedIs`, `PickedOwn`, `MergeBaseIs` and `ReplayIs` say what the
  operators on revisions return: which patches, in which order, below what.
- `CoalescerProofs`: the invariant `Race` adds to `WaitingHasTimer` and
  `AtMostOneSync` that callbacks carry a generation of an earlier trigger
  (`TimersInOrder`, `CallbacksHaveGen`) and that a running entry has a syncing
  callback. `CoalescerIsSyncOwed` maps every step to a step of `SyncOwed` or none.
- `RepoRefreshProofs`: `Serial` (who is between lock and announcement holds the lock,
  and is alone) makes `ReadsInOrder` inductive: of each ref, what is served was once in
  the checkout, and what a rebuild has read was there no earlier than what it
  will replace. `AlwaysConsistent` states that, `ServedFollows` what it gives: the
  engine moves along the checkout's history, ref by ref, and never back along it,
  though that history may itself return to older content.

Model-checked only: liveness, which is out of the prover's reach
(`RetriesGetThrough`, `EveryTriggerIsSynced`, `ServerConverges`, `BrowsersFollow`,
`StacksConverge`, `NothingStuck`, the liveness half of `CoalescesRequests`);
`ConflictWorkflow`'s `RecordedBaseIsReal` (a parent may come back to a revision it
has had); `Sync`'s `OwnCommits` (what is left on a branch whose parent was closed
depends on every merge and rebase before) and `SyncTidies`; what `Merge` and
`StackEdits` are checked for.

## Plan

1. `RemoteMetadata` and `get`.
2. `EngineState`: the branch map, lazy loads and rebuilds against the refs.
3. `Onboarding`, the registry and stream slots; pure algorithms against reference
   definitions.
4. Proofs: `ConflictWorkflow`'s `RecordedBaseIsReal`; `Sync`'s `OwnCommits`; `StackEdits`'
   ownership of commits, for which `Lineage` is the pattern.

## Not modelled

Rendering, argument parsing, configuration files, GitHub's API beyond its use and
text formats are no subject of this project. Engine state, undo's listing and
limits, worktrees' registry, absorb and split, remote metadata, sessions and
onboarding are not modelled yet; `PROJECT.json` says for each what stands in for it.
