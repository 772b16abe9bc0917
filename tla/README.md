# Loop Troop: verification project

TLA+ models of Loop Troop (`src/`), the model-checking runs over them, and
theorems with proofs that TLAPS checks. Paths below are relative to
`src/src/loop_troop/` unless they say otherwise.

## 1. The system

Loop Troop is one asyncio process that polls GitHub, writes what it sees to a
SQLite log, lets a small model and a label state machine decide which worker an
event is for, and runs the workers one after the other. A second command,
`replay`, writes to the same database. People, CI and GitHub itself change the
same issues, comments and pull requests at any time.

| component | state | operations | interacts with |
|---|---|---|---|
| Sync daemon (`daemon.py`) | stop flag, the batch in hand, the sweep task, checkpoints | self check, cycle (poll, dispatch, work), periodic zombie sweep, shutdown | all of the below |
| Shadow log (`shadow_log.py`) | `raw_events`, `event_state`, `schema_version`, metrics | log, inject, pending, mark dispatched/completed/failed, sweep, migrate | daemon, dispatcher, replay |
| Polling client (`core/github_client.py`) | ETag per page, the installation token | walk pages with conditional requests, retry on rate limits, refresh the token, log items | shadow log, GitHub |
| Dispatcher (`dispatcher.py`) | none of its own | read the issue, look up dependencies, classify, validate, relabel, mark | shadow log, GitHub, model |
| Architect (`architect.py`) | sub-issues created so far | checklist for an issue, sub-issues and tracking comment for a feature | GitHub, model |
| Coder (`coder.py`) | one run's item, attempt, branch | choose item, branch, generate, test, commit, push, propose, tick or flag | workspace, inner loop, pull request manager, GitHub |
| Inner loop (`coder.py`) | patch, files, attempt | Red and Green phases, fixes | sandbox, model, workspace |
| Pull request manager (`coder.py`) | none of its own | open pull requests; conditional tick and flag of checklist items | GitHub |
| Workspace (`core/workspace_manager.py`) | the shared git clone | branch, write, commit, push | coder |
| Reviewer (`reviewer.py`) | one run's head, checks, verdict | CI gate, review, relabel | GitHub, model |
| Replay (`cli.py`) | none of its own | inject an event with a decision | shadow log |
| Conflict resolver (`coder.py`) | one merge in the clone | fetch, merge, resolve, commit, test, push or ask for help | workspace, inner loop, GitHub, model |
| ADR loader, hydrator (`core/adr_loader.py`, `core/context_hydrator.py`) | two caches on disk, by commit | assemble the context of a prompt | clone, all workers |
| Sandbox (`docker_sandbox.py`) | none of its own | run a command with a timeout | inner loop, Docker |
| LLM client, schemas, configuration, evaluation | none that decides anything here | one request, validation, reports | the workers |

What is hard, and where:

* **Interleavings.** The sweep runs between any two awaits of the batch. The
  dispatcher writes a label computed from an issue read several requests
  earlier. Several writers share a checklist comment. A head moves under a review.
* **Crashes.** The process may die between any two transactions or requests: with
  rows marked dispatched, an ETag stored and its page not, a database half
  migrated, sub-issues created and the tracking comment not, a branch pushed and
  the pull request not opened, a cache entry half written.
* **Stale state.** A context is cached by commit while the working tree is what
  the prompt is about; a token is cached while the client waits out a rate limit.
* **Order.** Events enter a feed while its pages are read; four requests of the
  coder have to come in an order that is right at each point of failure.
* **Bounds.** Retries, attempts, iterations.
* **Progress.** An event that cannot be dispatched, a zombie, a circle of
  dependencies, writers that overtake each other.

## 2. Modules

A module stands for one component; those called `MC...` only give constants
values for TLC, those called `...Proofs` hold theorems only, about the module they
are named after (`SyncDaemonProofs` also about `ShadowLogMigration`).

| module | component | run(s) |
|---|---|---|
| `LabelWaterfall` | labels, valid transitions, routes, what each worker accepts and writes | used by the next and by `ReviewCycle` |
| `EventLifecycle` | abstract: what the log promises for one event | as a property of `daemon_safety` |
| `SyncDaemon` | daemon, log, dispatcher, replay, effect of the workers | `daemon_safety`, `daemon_settles` |
| `PollClient` | polling, ETags, pages, the installation token | `poll_feed`, `poll_crash` |
| `ShadowLogMigration` | schema migration by several processes | `migration` |
| `InnerLoopContract` | abstract: what the callers of the inner loop rely on | as a property of `loop_cycle` |
| `InnerLoop` | Red/Green loop, with and without the sandbox | `loop_cycle` |
| `ChecklistComment` | pull request manager, coder and people on one comment | `checklist_writers` |
| `ContextCache` | what the ADR loader and the hydrator cache | used by the next and by `ConflictResolver` |
| `CoderWorker` | coder with workspace, context, push, pull requests | `coder_runs` |
| `ArchitectWorker` | architect and dependency gate | `architect_plans`, `architect_gate` |
| `ReviewCycle` | reviewer, its re-dispatch, CI | `review_cycle` |
| `ConflictResolver` | merge conflict resolver with git's merge state | `conflict_merge` |

Each module also holds a few operators headed "A slip, not the code". They are
wrong variants of an action; putting one in the place of the action makes a
property fail, which is how each property's sensitivity was established
(`PROJECT.json`, "mutants").

### SyncDaemon

A state is a row of `event_state` per event (`status`, `rank`, `overdue`), the
labels and open/closed state on GitHub, and the daemon's memory: program counter,
the batch left to dispatch (`queue`), the batch left to work on (`outcomes`, the
code's list of outcomes with status "dispatched"), the current event and the
label it read (`seen`). `_dispatch_event` is cut at its awaits: `ReadIssue`,
then `Skip`, `Blocked` or `Unblocked`, then one of four outcomes: `Classified`;
`ClassificationFails`, where the classifier cannot be reached and the event is marked
failed; `ClassifierRaises`, where its answer names another route
(`dispatcher.py:266`) or it fails in another way, and the event stays pending; and
`DispatchRaises`, where the event has no type or its label no way to the target.
Then come `ReplaceLabels` and `MarkDispatched`. Each worker is
`StartWorker`, `WorkerFinishes` or `WorkerFails`, `WorkerCompletes`. `Sweep` may
run at any of these, `Crash` too, and `Start` models a start with its first sweep.
The history variable `relabelled` says which issues people have relabelled since
the daemon last read one.

Abstractions: an issue has one workflow label; the classifier's attempts are one
step with all outcomes; an exception of the GitHub client in a place where nobody
catches it is a crash; polling may log any event at any time in its phase, which
contains what `PollClient` does; dependencies are a constant relation and read
at one instant; the timeout of a dispatched row is `Expire`, possible at any time.

Abstract specification: `EventLifecycle` says an event is logged once, taken only
when pending and not in hand, settled only from the hand (or as unclassifiable),
and settled for good; `held <- InHand` is the refinement mapping.

### PollClient

One collection (issue events, or pull requests, sorted newest first) with its
pages, the ETag of every page, and one walk: `StartPoll`, a request that is
`NotModified`, `RateLimited` or `Modified`, `LogItem` one by one, `NextPage`,
`LastPage`. An ETag stands for the content of its page. `Publish` shifts all
pages, `UpdateItem` changes one in place. Pull requests are listed while they are open
(`core/github_client.py:304`), so that one may leave the list (`CloseItem`) and come
back (`ReopenItem`), and those behind it move. Issue events only enter; pull requests
do all of this. A request that fails ends the process (`Fail`), `StartDaemon` starts
another. The store of ETags is persistent. The history variables `fresh` and
`deficit` say whether an item has entered since anything was lost or left, and how
many have left that no new one has made up for.

Each attempt makes its headers anew (pc "headers"), and so asks `GitHubAppAuth`
for a token, which it takes from its cache (`SendWithCachedToken`) or from GitHub
(`SendWithNewToken`). Time is only what the token has `left`: it passes while the
client waits (`Wait`: between polls, in the back-off, which lasts as long as GitHub
says) and while the request is out, there by less than the buffer of the code,
since the client's timeouts are seconds and the buffer is minutes.

### ShadowLogMigration

`_migrate` as the transactions that Python's sqlite3 really makes:
`executescript` commits what is open, each `CREATE` of it is a transaction of its
own, an `ALTER` and an `INSERT` of the version are separate ones where the code
does not put them together. A database starts in any released version; several
processes migrate it; `Kill` interrupts. A table and its indexes are one step.

### InnerLoop

The tree as a function from files to contents, a patch as a function from some
files to contents with a command. TDD and standard mode, the emptied
implementation, timeouts, tautological tests, fixes that replace the whole
patch, exceptions of the sandbox. `HasFixModel` is FALSE for `InnerLoop()` as
the daemon builds it, which then gives up at the first failure; TRUE is the
general case. With a `sandbox` a command has a timeout; the loop the daemon builds
has none, and nothing ends a command that does not end by itself (`Hang`). Docker
that cannot run a command returns a code that is not 0; `lost` remembers that this
has happened. A patch without implementation files has no Red phase
(`src/tests/test_inner_loop.py:510`).

Abstract specification: `InnerLoopContract` has the tree all patches make (`held`),
the trees the present command accepts, and the number of fixes; files may be
emptied before the first fix, a result finds the tree restored, a pass is one of
that tree, and only a raise may leave another tree. `CoderWorker` and
`ConflictResolver` put these steps in the place of the loop. The refinement mapping
takes `held` to the tree with the current patch written, `fixes` to `attempt - 1`.

### ChecklistComment

One comment of checklist items with a revision that GitHub compares with
`If-Match`. Conditional writers are calls of `PRManager`, unconditional ones are
runs of `CoderWorker` (`_set_checklist_state`); people toggle boxes and rewrite
items. The issue's "done" label is part of the state. `CoderWorker` does not call
`PRManager.check_checkbox` today; both are modelled as the code has them.

### CoderWorker

The shared clone is a set of branches, each a set of traces ("what patch n for
this item left behind"), with a working tree; GitHub has branches, pull requests
and labels. `handle_issue` is cut at its requests and git commands. The inner loop
is reduced to its outcomes (passed, failed, raised, with fixes), including the
moment at which files are emptied. Branch names contain issue, item and
profile, so that a bake-off (two profiles on one issue) is two runs.

Between the branch and the first attempt the run puts its context together:
`ReadRules` and `Hydrate` go by way of the two caches (`ContextCache`), whose key
has HEAD and the focus files, but whose entries are of the working tree. The caches
outlive runs and processes. `RulesTorn` and `BudgetExceeded` end the run,
`AbortWriting` leaves a torn entry, `ReadByOthers` is the architect or the reviewer
between two runs. All items name the same files, so that entries are shared as
often as they can be.

### ArchitectWorker

Issues with their label, the "(Depends on: ...)" lines in their comments, and one
run at a time: `PostChecklist` for an issue; `TakePlan`, `CreateIssue` per
sub-issue, `PostTracking`, `Relabel` for a feature. The gate is
`dependencies_for_issue` with its exact and fallback matches. As the code looks
for the lines on the issue itself, people may copy a line there (`CopyLine`),
which is the case `src/tests/test_dispatcher.py:312` tests. A run that dies (`Die`)
is dispatched again after `Restart`: the sweep does that. An issue whose run raised
(`Raise`) or whose classification failed (`ClassificationFails`) is in `failed`: its
event is marked failed, and only another event of that issue, which nobody has to
make, gets it dispatched again. `DispatchRaises` ends the process and leaves the
event pending. Whether a line mentions an issue is a
search for `#1` in its text, which `#12` contains; `Found` does this on the digits
of the numbers, in base `Base`. Titles, in which numbers may stand too, are left
out, and "ready" stands for "needs-adr" as well.

### ReviewCycle

A pull request with its head, every check run of every commit (the client sees
one page of them, `Pages`), its label, its last
review (verdict, commit, and the head at which the diff was read), and the
reviewer cut at its requests. Every write of a label or review is an update of the
pull request, hence an event, hence another review: the cycle is in the model.
`CreateReview` and `ReplaceLabels` stand for both places that send these requests
(`handle_pull_request` and `_submit_terminal_review`). The dispatch may fail
(`ClassificationFails`, which marks the event failed) or end the process
(`DispatchRaises`, `Restart`); a run may raise (`Raise`, marked failed too) or die
(`Die`, dispatched again); `failed` says that the last event dispatched was marked
failed. The model runs the reviewer right after the dispatch; what the queue in between may do is in `SyncDaemon`.

### ConflictResolver

`resolve` on one pull request, cut at its requests and git commands, with what git
keeps between them: `MERGE_HEAD` (`merging`), the unmerged entries of the index,
the conflict markers in the working tree. A commit is how much of the base branch
it has, the files with markers left in it, and whether it holds a resolution that
no test run has passed. A run may die or raise at any point and the next one finds
the clone as it is. Meanwhile the base branch advances, people push to the pull
request, tick the last item or set the label again. No component of the daemon
calls `resolve`; the model starts it on the label its documentation names, as
`src/tests/test_conflict_resolver.py` does, with the branch checked out. That the
model's answer resolves a file is a choice (`Resolve`): it may leave files out. The
inner loop is a parameter of the constructor: with `MayFix` it may pass after a fix
(`FixPasses`), which changes the tree the tests have run on and not the commit made
before them; the one the resolver makes by default has no fix model. The
context the model gets comes by way of the hydrator's cache, under the commit the
merge started from and the files in conflict.

## 3. Runs

| run | question and answer | bounds |
|---|---|---|
| `daemon_safety` | Is an event handed to a worker twice, stranded without a death, moved outside its lifecycle, or a label written that is no transition? No, where a label people change between a read and a write counts as the one that was read, and an injected event may write any. | Four events on two issues: an issue that waits for a pull request, with an event and a ghost run; an approved pull request with an update and an event of a type nobody can dispatch; one edit by people (a label, or closing or reopening); one shutdown or crash. |
| `daemon_settles` | Does every event settle, and does every zombie get freed? Yes, unless an event whose dispatch raises is in the table, or the classifier raises in one life after the other. | Three events: an issue that depends on itself, an issue with an event and a ghost run, two labels people set, one edit, one interruption. |
| `poll_feed` | Does an ETag vouch for what is not logged, is what was lost ever seen, does a request outlive its token? Only after a failure; once as many items have entered as had left, and one more; no. | Pages of two, three to five ids (up to three pages), items that enter, change, leave and come back, one missing at a time (`MaxDeficit`), one failure, one rate-limit retry; a token of three units with a buffer of one. |
| `migration` | Does everyone get the database open, and is it complete? Yes, unless one is killed. | Three processes, any released version, two kills. |
| `loop_cycle` | Does the loop end, keep its contract, and have a real Red phase? Yes, unless a command without a sandbox never ends, and unless Docker could not run the Red tests. | A test file and an implementation file, five contents, two commands, three iterations, with and without a sandbox: all pairs of patches. |
| `checklist_writers` | Is an update lost, an issue labelled too early or never, a writer starved? Not by conditional writers. | Three conditional writers for three items, one unconditional writer, one edit by people; three tries as in the code. |
| `coder_runs` | Is anything pushed that was not tested, proposed with another item's changes, ticked without review, or generated from a context that is not of the tree? No; the last only after an interruption. | Two issues with two items, two profiles, two attempts, two patches, three runs, two interruptions. |
| `architect_plans` | Does a tracked epic have its whole plan, does a line copied to a sub-issue hold it back, is anything blocked for ever? One whole plan; yes; only by circles, by events that failed, and behind these. | Five issues, all plans of one or two parts with all dependencies, nested features, one run that raises or dies, failed classifications at will, numbers in base three. |
| `review_cycle` | Does the label tell the verdict, is red CI approved, is a head left without review? Yes; only if the red check run is on a page that is not asked for; not unless its event has failed, people gave a label without a way to review, or the dispatcher raises for ever. | Two heads, two check runs on pages of one, three starts of check runs, one label by people ("approved" or "done"), one run that raises or dies, failed and raising dispatches at will. |
| `conflict_merge` | Does a pull request get to review without the base, or with a resolution that failed its tests, or is the model shown another merge? Not in the run that resolved, though a later run may finish an older merge; only if a fix made the tests pass; only after an interruption. | Two files, two commits of the base, an inner loop with fixes, three runs, two interruptions. |
| `poll_crash` | *Violation.* Is every event logged? Not after a crash between ETag and log. | Three items, one failure. |
| `architect_gate` | *Violation.* Does a sub-issue wait for its dependencies? No: the gate reads the sub-issue, the lines are on the parent. | Four issues, no interruption. |

Why the bounds are enough. Two actors on one object need two of each; three shows
what an actor does to a bystander. One crash at any point reaches every window;
in `daemon_settles` processes also end by themselves as often as an undispatchable
event makes them. Two pages show what a shift moves over a boundary, a third what
happens behind the page that was not modified. Three tries against three writers
is the tight case: with a fourth conditional writer a writer can starve. Three
runs over two issues give leftovers, a run in between and a return.

Where deadlock is not checked (`CHECK_DEADLOCK FALSE`) the work is finite by its
bounds or by nature: all calls returned, all runs used up, all issues planned,
or a pull request nobody touches any more.

In `conflict_merge` two commits of the base give an old and a new merge, two
files a resolution that is not complete, and three runs with two interruptions a
run that meets what the two before it have left. In `coder_runs` the first
interruption leaves a dirty tree or a torn entry, the second dirties the tree
under an entry that was clean. Two check runs on pages of one are the smallest
CI that has one too many. In base three the issues 3, 4 and 5 begin with 1 and none
but 2 with 2, so that both cases of the search come up. Five issues let a nested
feature be planned, and a run of two sub-issues be interrupted and repeated. In
`poll_feed` one item that leaves at a time is enough to bring an old page back
under its old ETag; what two do is more of the same shift. A token of three units is used while fresh, at the edge
of the buffer and inside it.

## 4. Fairness

* `SyncDaemon`: the service manager restarts the process (`Start`), the main
  coroutine goes on (`MainStep`; each await of it has a timeout or ends), the
  sweep task gets its turn, and time passes (`Expire`). Nothing is assumed of
  what the model answers: it may raise in every life, and `EveryEventSettles`
  says what holds if it does not. Crashes, shutdowns and people's edits come to an
  end (`MaxInterrupts`, `MaxEdits`); `NoZombies` needs nothing of the model.
* `PollClient`: the client goes on and is answered. That the feed moves is not assumed; the
  property says what follows if it does.
* `ShadowLogMigration`: every process goes on until its database is open.
* `InnerLoop`: the run goes on. With a sandbox a command ends at its timeout;
  without one nothing is assumed and `LoopEnds` excepts the command that hangs.
  That the workers of `SyncDaemon` end (`MainStep`) rests on commands that do.
* `ArchitectWorker`: the daemon is started again when it ended and does not rest
  while it has a run to go on with or an event to dispatch, and what others wait
  for is closed in the end. An event that failed is none to dispatch: a run that
  raised is not tried again for lack of another event, one that died is.
* `ReviewCycle`: the daemon polls, dispatches and works, and is started again when
  it ended. That the dispatch succeeds is not assumed.

## 5. Theorems

`SyncDaemonProofs` (for any events, issues, labels, dependencies and bounds):
`TypeCorrect`, `DeliveredOnce`, `StrandedByDeathOnly`, `ImplementsLifecycle` and
`LabelsFollowStateMachine`. All rest on `Invariance`, the inductive invariant
`TypeOK /\ NoDoubleDelivery /\ BatchInv`. `NoDoubleDelivery` alone is not
inductive: at `MarkDispatched` one has to know that the current event was pending
and has left the queue, and at each worker step that the current event has left
the outcomes; `BatchInv` states for each group of program counters what queue,
outcomes and current event are. The label theorem needs `LabelInv` besides: what
was read is still there unless people have relabelled the issue, and what was decided
is a valid transition from it unless the event was injected.

The same module proves about `ShadowLogMigration`, the database the daemon opens
(any number of processes and kills): `OpenIsComplete`, `VersionIsHonest` and
`MigrationTypeCorrect`. The invariant says for each step of a process which
objects it has seen or made, that these are in the schema, that the schema
never shrinks, and that the recorded versions only grow with it.

`ChecklistCommentProofs` (any number of items, writers, tries and people's edits):

* `NoUpdateIsLost` and `DoneIsChecked`. `CopyInv` says a conditional writer whose
  revision still matches holds the present content; that makes its write a change
  of its own item only. `DoneIsChecked` needs that people do not clear boxes and
  holds until an unconditional writer has written; it is stated with that
  condition, and `OnlyConditional` is part of the property.
* `LastTickIsLabelled`: if all boxes were ticked, one call has labelled the issue.
  `TickInv` says that a tick which was written stays, and that with no box open a
  call has labelled, is about to, or has failed on the way. The theorem assumes
  that no two items have the same description: a call finds its item by the
  description, and of two equal ones the second is never ticked.
* `CallsDoNotStarve`: if there are no more callers than tries, nobody gives up.
  `StarveInv` counts: each try of a call but the first was lost to a new version,
  each version is the write of a call that is past writing (`Past`), and the call
  that would give up is not among them. With one caller more TLC finds the
  call that gives up, so the hypothesis is needed.
* `ChecklistTypeCorrect`, with a try left whenever a call is about to read.

`InnerLoopProofs` (any files, contents, commands and number of iterations):
`LoopTypeCorrect`, `FirstPassFollowsRed` and `LoopHonoursContract`, all from
`LoopInvariance`. The refinement is not inductive by itself: that a result finds
the patch in the tree needs `TreeInv`, which says at each step what of the patch
is there, in the Red phase all of it with the implementation emptied; then writing
the files of the patch again gives the tree back. `RedInv` carries what the Red run
has shown to the first run of the Green phase.

`ReviewCycleProofs` (any check runs, page size, heads and bounds):
`ReviewTypeCorrect`, `LabelIsVerdict` and `ApprovalIsGated`, from
`ReviewInvariance`. That the label tells the last verdict is not inductive: between
the write of the review and that of the label the two may differ. `LabelInv` says
that the label is "needs-review" from the dispatch to that write, unless people
have edited it, and that the label written is that of the review created.
`VerdictInv` says which verdicts need no model. `GateInv` says that what the
model knows as red is red on GitHub, and that a run past the gate has seen none of
it or has more check runs than a page. The lemma `PageShowsAll` counts: a page that
is not full shows every check run that is registered; `RegisteredGrows`, that a
page once full stays full.

`CoderWorkerProofs` (any number of issues, items, profiles, runs and interruptions):
`CoderTypeCorrect`, `OnlyTestedIsPushed`, `PullRequestsHoldOwnItem`,
`TickFollowsReview` and `ContextStaysCurrent`, from `CoderInvariance`. None of them
is inductive alone, as each run starts from what others left:

* `HeadInv`: a run is on a branch of its own, which is on GitHub from its push on
  and not before. `TestInv`: what the inner loop has passed is what is committed
  when it is pushed, a fix included.
* `ItemInv`: the copy of the checklist is current until it is written back, and the
  pull request is there, then labelled, before the tick.
* `OwnInv`: a branch that is on GitHub leaves nothing uncommitted or unpushed
  behind, so that a run which starts from it adds only patches of its own; a
  run that starts from any other branch may hold leftovers, but GitHub refuses its
  pull request.
* `CacheInv`: an entry of either cache lies between the commit of its key and what
  is in the tree when HEAD is at that commit (`Sound`), and is the tree as long as
  no run is interrupted. The content of HEAD only grows, so that no old key comes
  back with another content; files the Red phase has emptied are taken back only
  where HEAD has no entry yet.

The next open item of a checklist is the least one. Its existence is proved by
`NatLessThanWellFounded`, which needs no induction over data (`FirstOfIsFirst`).

`ConflictResolverProofs` (any files, commits of the base, runs and interruptions):
`ResolverTypeCorrect`, `ReviewsHaveBase`, `ResolutionsAreTested` and
`ContextFitsMerge`, from `ResolverInvariance`. `MergeInv` says that a merge in
progress, also one a dead run has left, is of a newer base than the branch has;
`BaseInv`, that a run which has not found one merges what it has fetched and has it
from the tests on; `TestedInv`, that a resolution of this run gets to the push by
way of the tests only, and with its commit unproved only if a fix, which is then in the
tree and not committed, made them pass (the theorem has that exception, and none when
`MayFix` is FALSE). `ContextInv` says that without interruptions an entry of the
cache is keyed by a commit the branch has gone on from, or by that of the merge in
hand, which is why no later merge finds it.

`PollClientProofs` (any page size, number of ids, retries, failures and life of the
token): `PollTypeCorrect`, `TokenOutlives` and `EtagsVouch`, from `PollInvariance`.
`TokenOutlives` uses that the buffer is shorter than a token's life and that a request is
out for less than the buffer. `EtagsVouch` needs `WalkInv`: items in hand exist only
while they are logged, and a page was followed by another only if there are ids
enough to fill it, which keeps the walk inside the pages there are although the
feed may be shorter by the time it goes on.

`ArchitectWorkerProofs` (any plans, numbers of issues and interruptions):
`ArchitectTypeCorrect`, `EpicsTrackTheirPlan` and `CopiedLinesAreKept`. That an epic
tracks its plan is known only when its label is written, one request after the
comment and several after the sub-issues: `CreateInv` says that the sub-issues of
the run under way are the last issues there are, in the order of the plan, whatever
earlier runs left before them, and `RelabelInv` that the comment is there when the
label is about to be. `TrackingIsThePlan` turns places of the plan into numbers,
`TrackedStays` keeps what is tracked when issues and lines are added. That a copied
line holds its sub-issue back rests on `LinesInv`, every line anywhere says what the
plan wanted for the issue it is about, and on `OwnLinesCount`: an issue's own line
is among those that count, whichever others are found by its digits.

The assumptions on constants are the `ASSUME`s of the modules: types of the
constants, naturals as bounds, disjoint sets of files and of clients. Four say
more: a commit has finitely many check runs (`ReviewBounds`), a checklist has an
item (`CoderConstants`, `ChecklistType`: `core/schemas.py:118` refuses a plan
without items unless it asks for an ADR, and then there is no checklist), and a
feed has room for one item (`PollBounds`). The proofs found them: without a check
run to count, an item to choose or an id to publish the type invariants or the
counting arguments fail.

Model-checked only: all liveness (`EveryEventSettles`, `NoZombies`,
`LossEndsWithGrowth`, `EveryoneOpens`, `LoopEnds`,
`EveryHeadIsReviewed`, `OnlyStuckIssuesWait`). Liveness under fairness and ENABLED are
out of the prover's reach, so is induction over data (what a recursive definition
computes for every input). All invariants and action properties of the passing
runs are theorems.

## 6. What the models showed

Two disagreements with the documents are listed as findings (`poll_crash`,
`architect_gate`). Other behaviours that came out of the
models, and that the properties are worded around:

* An event of a type `EventType` does not list raises in the dispatcher and ends
  the process, at every restart again; so do a label without a way to
  "needs-review" and an issue that depends on itself (`Poisonous`). A classifier that
  answers with another route, or fails with anything but an HTTP error, does so as
  well, for as long as it gives that answer; hence the first line of
  `EveryEventSettles`, `OnlyStuckIssuesWait` and `EveryHeadIsReviewed`.
* An injected event, and a person's edit between read and write, let the daemon
  write a label that is no valid transition from the label that is there, against
  `docs/backlog/epic-1/03-tier1-dispatcher-label-waterfall.md:15`. Hence `LabelStepsValid`
  excepts the write of an injected event and, where people have relabelled the
  issue since it was read, asks for a transition from the label that was read.
* An event whose classification fails three times, or whose worker raises, is
  failed for good: an issue waits at "needs-planning" and a head stays without a
  review until something else makes another event (`failed`).
* The sweep goes by time only and resets events whose worker is running.
* A migration killed half way leaves a database that later starts cannot open,
  although `docs/backlog/epic-1/02-sqlite-shadow-log.md:12` asks for
  transactions. Hence `EveryoneOpens` says "unless one was killed".
* An update of a pull request on a later page is unseen until the next item
  enters the feed, because a 304 on an earlier page ends the walk. If pull requests
  have been closed meanwhile, that item may only fill their place and bring back
  pages whose ETags are stored; what was lost is found when the list has grown by one
  more (`LossEndsWithGrowth`).
* A fix replaces the tests too: tests that are green at the end need not be the
  ones that were red; and Red is run on emptied files, not on the former code.
* What the Red phase takes for a failing test may be Docker without its image, or a
  container that was killed (`FirstPassWasRed` excepts it). The loop the daemon
  builds has no sandbox, hence no timeout, and its call blocks the event loop.
* After an interruption the coder may show the model less than the working tree
  holds: the entry under HEAD was made before the tree was dirtied, or after it.
  It always has what is committed. An ADR entry torn by a death makes every run at
  that commit raise until HEAD moves; a torn code entry is shown as it is. The
  resolver may show another merge than the one it resolves (`ContextIsOfMerge`).
* A conflict resolver that is given an inner loop with a fix model, and whose tests
  pass after a fix, pushes the commit whose tests have failed
  (`coder.py:1441`); the fix stays uncommitted in the clone. The coder commits once more
  (`coder.py:907`). `docs/backlog/epic-4/04-git-conflict-resolution.md:15` has
  passing tests before the push. `ResolutionPushedIsTested` excepts this case.
* The gate reads one page of check runs, GitHub's default of 30: a red run on the
  next page does not stop an approval. Likewise only the first hundred comments of
  an issue are read for its checklist and its dependencies.
* The unconditional write of the coder undoes ticks made since it read.
  A box flagged `!` counts as checked.
* An item that is given up leaves the clone on its branch, which is never pushed.
  The next item is based on it, passes its tests, is pushed, and GitHub refuses the
  pull request, as its base does not exist there, although
  `docs/backlog/epic-4/02-coder-worker.md:16` has passing work proposed.
* The base of a pull request is the branch the last run left checked out. A run
  that is repeated after a crash finds its own branch and raises. The second
  model of a bake-off works on the next item, as the first one ticked its own.
* A review without any registered check run passes the gate. The diff is asked for
  by number and may be of a newer commit than the review names. The reviewer's
  own writes are updates, so that it reviews the same head again and again.
* A resolution whose tests fail stays committed in the clone. When the label is set
  again the next run finds nothing to merge and pushes it without a test. Hence
  `ResolutionPushedIsTested` is about runs that have resolved something. A clean
  merge is never tested. A run that finds the merge of a dead one finishes it,
  with the base of that time. A pull request of the last item of a checklist cannot
  be resolved, as the resolver looks for an open item first; and what it takes for
  the branch of the pull request is whatever is checked out.
* Dependencies are not checked for circles (`docs/architecture/ADR-0002-recursive-epic-decomposition.md:31` asks for it). If no line names the issue
  all lines count, so that a feature waits for its own sub-issues; copying a
  whole tracking comment to a sub-issue that others depend on makes it depend on
  itself. If the number of a sub-issue begins with that of its feature, the line of
  that sub-issue is the only one that holds back the feature, and a feature whose
  run was interrupted may be planned twice. An interrupted feature waits for its
  sub-issues, and if these wait in a circle so does what depends on the feature.
  Nothing labels an epic as done.

## 7. Not modelled

* Checkpoints: written, read by nothing that decides.
* Cloning, updating and removing a workspace, and `checkout_branch`: nothing in
  `src/` calls them; the run of the coder starts from a clone that is there.
* What test commands write into the tree themselves, and a container that goes on
  after its client has timed out. `build_image`: nothing in `src/` calls it.
* LLM client, configuration, evaluation: one request, settings, or reports; what
  the model answers or raises is a choice in the workers.
* Text: parsing of ADRs, truncation to the budget, prompts, error summaries.
* The clock: ids of pull request events have a resolution of one second. A clock
  of this machine that disagrees with GitHub's by more than the token's buffer.

## 8. Plan

In the order of what matters most; a first version of all modules above stands.

1. A composition of `SyncDaemon`'s queue with the coder: which events let the next
   item of a checklist start, and that a checklist is worked off.
2. Abstract specifications: a checklist as a set of items that are only ever
   ticked, implemented by `ChecklistComment` with conditional writers; a log that only grows and
   takes in what a feed shows, implemented by `PollClient` without failures; a review
   as an atomic verdict on a head.
3. Proofs: the two abstract specifications of 2 as refinements. `VersionIsHonest`
   shows the kind of result still missing elsewhere: one that no run states.

To check: `tlc -config X.cfg M` for each run in `PROJECT.json`, `tlapm M.tla` for
each module of proofs.
