----------------------------- MODULE SyncDaemon -----------------------------
(***************************************************************************)
(* The sync daemon (daemon.py), the event table of its shadow log          *)
(* (shadow_log.py) and the dispatcher (dispatcher.py), with the worker it  *)
(* starts reduced to what it does to labels and event states.              *)
(*                                                                         *)
(* Two coroutines of one asyncio loop share the shadow log: the main loop  *)
(* (poll, dispatch the pending events, run their workers, wait) and the    *)
(* zombie sweep.  They interleave where the main loop awaits, so each      *)
(* action of the main loop is the code from one await to the next.  The    *)
(* replay command is another process that writes the same database.  What  *)
(* is in the database (status, rank, lastRow, overdue) and on GitHub       *)
(* (label, closed) survives a crash, everything else does not.             *)
(*                                                                         *)
(* One number space "Issues" stands for issues and pull requests, which    *)
(* GitHub labels through the same endpoint.                                *)
(***************************************************************************)
EXTENDS Naturals, LabelWaterfall

CONSTANTS
  Events,         \* event ids the feeds and the replay command can produce
  Issues,         \* issue and pull request numbers
  IssueOf,        \* the issue an event is about
  KindOf,         \* "issue", "alien", "pull" or "ghost", see below
  DependsOn,      \* the issues a (Depends on: ...) line of an issue's comments names
  InitialLabel,   \* the workflow label an issue starts with
  EditLabels,     \* the labels people put on issues
  MaxEdits,       \* bound: label and open/closed changes made by people
  MaxInterrupts,  \* bound: crashes and shutdown requests
  NoEvent         \* "cur" when no event is being handled

(* "issue": an item of the issue-events feed whose type EventType lists;    *)
(* "alien": an item of that feed with a type it does not list (GitHub's     *)
(* "unlabeled", "assigned", ...); "pull": an item of the pull-request feed; *)
(* "ghost": an event injected by the replay command with its decision.      *)
Kinds == {"issue", "alien", "pull", "ghost"}

ASSUME IssueOfType == IssueOf \in [Events -> Issues]
ASSUME KindOfType == KindOf \in [Events -> Kinds]
ASSUME DependsOnType == DependsOn \in [Issues -> SUBSET Issues]
ASSUME InitialLabelType == InitialLabel \in [Issues -> LabelState]
ASSUME EditLabelsType == EditLabels \subseteq LabelState
ASSUME BoundsType == MaxEdits \in Nat /\ MaxInterrupts \in Nat
ASSUME NoEventType == NoEvent \notin Events

VARIABLES
  status,      \* event_state.status, "absent" while the event has no row
  rank,        \* raw_events.id, 0 while the event has no row
  lastRow,     \* the largest raw_events.id given out
  overdue,     \* dispatched events whose dispatched_at is past the zombie timeout
  label,       \* the workflow label of every issue, on GitHub
  closed,      \* the issues closed on GitHub
  pc,          \* the await the main loop is at, "down" when there is no process
  queue,       \* the events of the pending snapshot not dispatched yet
  outcomes,    \* the dispatched events of this batch whose worker has not started
  decided,     \* outcome.decision.label_action.label_name of events in hand
  cur,         \* the event the main loop is dispatching or working on
  seen,        \* the label read from GitHub for it
  stopping,    \* _stop_event is set
  edits,       \* changes made by people so far
  relabelled,  \* history: issues people have relabelled since the main loop's last read
  interrupts   \* crashes and shutdown requests so far

table == <<status, rank, lastRow, overdue>>
github == <<label, closed>>
memory == <<pc, queue, outcomes, decided, cur, seen, stopping>>
ledger == <<edits, relabelled, interrupts>>
vars == <<table, github, memory, ledger>>

Status == {"absent", "pending", "dispatched", "completed", "failed"}
Terminal == {"completed", "failed"}
Dispatching == {"dependencies", "classify", "relabel", "mark"}
Working == {"worker", "settle"}
Control == {"down", "pollIssues", "pollPulls", "dispatch", "workers", "wait"}
             \cup Dispatching \cup Working

(* A slip, not the code: the query forgets that dispatched is not pending. *)
PendingOrDispatched == {e \in Events : status[e] \in {"pending", "dispatched"}}

Pending == {e \in Events : status[e] = "pending"}
Earliest(S) == {e \in S : \A f \in S : rank[e] <= rank[f]}

(* The event in the hands of the running daemon: dispatched in this batch  *)
(* and not settled.                                                        *)
InHand == outcomes \cup (IF pc \in Working THEN {cur} ELSE {})

(* The label the dispatcher wants on the issue of event e when it read     *)
(* label l there.                                                          *)
Target(e, l) ==
  CASE KindOf[e] = "ghost" -> "ready"
    [] KindOf[e] = "pull"  -> "needs-review"
    [] OTHER               -> l

OpenDependencies(i) == DependsOn[i] \ closed

Init ==
  /\ status = [e \in Events |-> "absent"]
  /\ rank = [e \in Events |-> 0]
  /\ lastRow = 0
  /\ overdue = {}
  /\ label = InitialLabel
  /\ closed = {}
  /\ pc = "down"
  /\ queue = {}
  /\ outcomes = {}
  /\ decided = [e \in Events |-> NoLabel]
  /\ cur = NoEvent
  /\ seen = NoLabel
  /\ stopping = FALSE
  /\ edits = 0
  /\ relabelled = {}
  /\ interrupts = 0

(***************************************************************************)
(* The process: start, end, and the memory that is lost with it.           *)
(***************************************************************************)

(* A slip, not the code: the timestamp is cleared and the status is not. *)
SweepForgetsStatus ==
  /\ overdue' = {}
  /\ UNCHANGED <<status, rank, lastRow>>

(* sweep_dispatched_events: rows dispatched too long ago are pending again. *)
SweepOverdue ==
  /\ status' = [e \in Events |-> IF e \in overdue THEN "pending" ELSE status[e]]
  /\ overdue' = {}
  /\ UNCHANGED <<rank, lastRow>>

(* A slip, not the code: no sweep before the first sweep interval is over. *)
StartWithoutSweep ==
  /\ pc = "down"
  /\ pc' = "pollIssues"
  /\ UNCHANGED <<table, github, queue, outcomes, decided, cur, seen, stopping, ledger>>

(* run() up to the first request of the first cycle.  The self check writes *)
(* nothing that stays; the sweep coroutine is created before the cycle and  *)
(* sweeps while the first request is on its way.                            *)
Start ==
  /\ pc = "down"
  /\ pc' = "pollIssues"
  /\ SweepOverdue
  /\ UNCHANGED <<github, queue, outcomes, decided, cur, seen, stopping, ledger>>

LoseMemory ==
  /\ pc' = "down"
  /\ queue' = {}
  /\ outcomes' = {}
  /\ decided' = [e \in Events |-> NoLabel]
  /\ cur' = NoEvent
  /\ seen' = NoLabel
  /\ stopping' = FALSE

(* The process is killed, or a request to GitHub, Ollama or SQLite raises  *)
(* where nothing below run() catches it.                                   *)
Crash ==
  /\ pc # "down"
  /\ interrupts < MaxInterrupts
  /\ interrupts' = interrupts + 1
  /\ LoseMemory
  /\ UNCHANGED <<table, github, edits, relabelled>>

(* SIGINT or SIGTERM. *)
RequestShutdown ==
  /\ pc # "down"
  /\ ~stopping
  /\ interrupts < MaxInterrupts
  /\ interrupts' = interrupts + 1
  /\ stopping' = TRUE
  /\ UNCHANGED <<table, github, pc, queue, outcomes, decided, cur, seen, edits, relabelled>>

(* The wait for the poll interval ends; a requested shutdown ends the loop *)
(* here and nowhere else.                                                  *)
NextCycle ==
  /\ pc = "wait"
  /\ ~stopping
  /\ pc' = "pollIssues"
  /\ UNCHANGED <<table, github, queue, outcomes, decided, cur, seen, stopping, ledger>>

StopCleanly ==
  /\ pc = "wait"
  /\ stopping
  /\ LoseMemory
  /\ UNCHANGED <<table, github, ledger>>

(***************************************************************************)
(* Polling.  Each item of a page is logged in a transaction of its own; an *)
(* event already in the table is ignored.  Which items a response carries, *)
(* and which never arrive, is the concern of module PollClient: here any   *)
(* event may be logged in any poll of its feed.                            *)
(***************************************************************************)

LogEvent(e) ==
  /\ status[e] = "absent"
  /\ status' = [status EXCEPT ![e] = "pending"]
  /\ lastRow' = lastRow + 1
  /\ rank' = [rank EXCEPT ![e] = lastRow']
  /\ UNCHANGED <<overdue, github, memory, ledger>>

LogIssueEvent(e) ==
  /\ pc = "pollIssues"
  /\ KindOf[e] \in {"issue", "alien"}
  /\ LogEvent(e)

LogPullRequest(e) ==
  /\ pc = "pollPulls"
  /\ KindOf[e] = "pull"
  /\ LogEvent(e)

(* The replay command, at any time, daemon running or not. *)
InjectReplayEvent(e) ==
  /\ KindOf[e] = "ghost"
  /\ LogEvent(e)

IssuesPolled ==
  /\ pc = "pollIssues"
  /\ pc' = "pollPulls"
  /\ UNCHANGED <<table, github, queue, outcomes, decided, cur, seen, stopping, ledger>>

(* The last response is in, and with no await in between the snapshot of   *)
(* the pending events is taken.                                            *)
PullsPolled ==
  /\ pc = "pollPulls"
  /\ queue' = Pending
  /\ pc' = "dispatch"
  /\ UNCHANGED <<table, github, outcomes, decided, cur, seen, stopping, ledger>>

(***************************************************************************)
(* _dispatch_event, for the events of the snapshot in the order of their   *)
(* rows.                                                                   *)
(***************************************************************************)

(* get_issue returned label[IssueOf[e]], and the target has a route. *)
ReadIssue(e) ==
  /\ pc = "dispatch"
  /\ e \in Earliest(queue)
  /\ Target(e, label[IssueOf[e]]) \in Dispatchable
  /\ cur' = e
  /\ seen' = label[IssueOf[e]]
  /\ relabelled' = {}
  /\ pc' = "dependencies"
  /\ UNCHANGED <<table, github, queue, outcomes, decided, stopping, edits, interrupts>>

(* No workflow label, or one without a route: the event is skipped, and    *)
(* stays pending for every cycle to come.                                  *)
Skip(e) ==
  /\ pc = "dispatch"
  /\ e \in Earliest(queue)
  /\ Target(e, label[IssueOf[e]]) \notin Dispatchable
  /\ queue' = queue \ {e}
  /\ UNCHANGED <<table, github, pc, outcomes, decided, cur, seen, stopping, ledger>>

(* A slip, not the code: the event stays in the snapshot. *)
LeaveCurrentQueued ==
  /\ queue' = queue
  /\ cur' = NoEvent
  /\ seen' = NoLabel
  /\ pc' = "dispatch"

(* The main loop is done with cur without having dispatched it. *)
LeaveCurrent ==
  /\ queue' = queue \ {cur}
  /\ cur' = NoEvent
  /\ seen' = NoLabel
  /\ pc' = "dispatch"

(* A dependency is still open: the event stays pending. *)
Blocked ==
  /\ pc = "dependencies"
  /\ IssueOf[cur] \notin DependsOn[IssueOf[cur]]
  /\ OpenDependencies(IssueOf[cur]) # {}
  /\ LeaveCurrent
  /\ UNCHANGED <<table, github, outcomes, decided, stopping, ledger>>

(* An injected event carries its decision and goes straight to the labels. *)
Unblocked ==
  /\ pc = "dependencies"
  /\ OpenDependencies(IssueOf[cur]) = {}
  /\ IssueOf[cur] \notin DependsOn[IssueOf[cur]]
  /\ pc' = IF KindOf[cur] = "ghost" THEN "relabel" ELSE "classify"
  /\ UNCHANGED <<table, github, queue, outcomes, decided, cur, seen, stopping, ledger>>

(* Ollama failed on every attempt. *)
ClassificationFails ==
  /\ pc = "classify"
  /\ status' = [status EXCEPT ![cur] = "failed"]
  /\ overdue' = overdue \ {cur}
  /\ LeaveCurrent
  /\ UNCHANGED <<rank, lastRow, github, outcomes, decided, stopping, ledger>>

Valid ==
  /\ Target(cur, seen) \in ValidTransitions(seen)
  /\ KindOf[cur] # "alien"

Classified ==
  /\ pc = "classify"
  /\ Valid
  /\ pc' = "relabel"
  /\ UNCHANGED <<table, github, queue, outcomes, decided, cur, seen, stopping, ledger>>

(* A ValueError of _dispatch_event: an issue that depends on itself, a      *)
(* transition that is not allowed, or an event type that is not in          *)
(* EventType.  Nothing above catches it: run() ends, and the event stays    *)
(* pending.                                                                 *)
DispatchRaises ==
  /\ \/ pc = "dependencies" /\ IssueOf[cur] \in DependsOn[IssueOf[cur]]
     \/ pc = "classify" /\ ~Valid
  /\ LoseMemory
  /\ UNCHANGED <<table, github, ledger>>

(* The classifier names another route than the label has, or raises what is *)
(* no httpx.HTTPError (an answer that is no classification, say).  Nothing  *)
(* catches this either, and the model may do it again in every life.        *)
ClassifierRaises ==
  /\ pc = "classify"
  /\ LoseMemory
  /\ UNCHANGED <<table, github, ledger>>

(* replace_issue_labels takes effect on GitHub ... *)
ReplaceLabels ==
  /\ pc = "relabel"
  /\ label' = [label EXCEPT ![IssueOf[cur]] = Target(cur, seen)]
  /\ pc' = "mark"
  /\ UNCHANGED <<table, closed, queue, outcomes, decided, cur, seen, stopping, ledger>>

(* ... and its response is in: the event is marked. *)
MarkDispatched ==
  /\ pc = "mark"
  /\ status' = [status EXCEPT ![cur] = "dispatched"]
  /\ overdue' = overdue \ {cur}
  /\ outcomes' = outcomes \cup {cur}
  /\ decided' = [decided EXCEPT ![cur] = Target(cur, seen)]
  /\ LeaveCurrent
  /\ UNCHANGED <<rank, lastRow, github, stopping, ledger>>

BatchDispatched ==
  /\ pc = "dispatch"
  /\ queue = {}
  /\ pc' = "workers"
  /\ UNCHANGED <<table, github, queue, outcomes, decided, cur, seen, stopping, ledger>>

(***************************************************************************)
(* _run_dispatched_workers, one worker after the other.                    *)
(***************************************************************************)

(* A slip, not the code: the worker relies on the label of the decision. *)
StartWorkerUnread(e) ==
  /\ pc = "workers"
  /\ e \in Earliest(outcomes)
  /\ outcomes' = outcomes \ {e}
  /\ cur' = e
  /\ seen' = decided[e]
  /\ relabelled' = {}
  /\ pc' = "worker"
  /\ UNCHANGED <<table, github, queue, decided, stopping, edits, interrupts>>

(* The worker has read its issue. *)
StartWorker(e) ==
  /\ pc = "workers"
  /\ e \in Earliest(outcomes)
  /\ outcomes' = outcomes \ {e}
  /\ cur' = e
  /\ seen' = label[IssueOf[e]]
  /\ relabelled' = {}
  /\ pc' = "worker"
  /\ UNCHANGED <<table, github, queue, decided, stopping, edits, interrupts>>

(* The worker accepts the label and has finished: it writes a label it      *)
(* computed from what it read, or, the coder that succeeds, none.           *)
WorkerFinishes ==
  /\ pc = "worker"
  /\ seen \in AcceptedBy(decided[cur])
  /\ \/ \E l \in WorkerResults(seen) : label' = [label EXCEPT ![IssueOf[cur]] = l]
     \/ seen = "ready" /\ UNCHANGED label
  /\ pc' = "settle"
  /\ UNCHANGED <<table, closed, queue, outcomes, decided, cur, seen, stopping, ledger>>

SettleCurrent(s) ==
  /\ status' = [status EXCEPT ![cur] = s]
  /\ overdue' = overdue \ {cur}
  /\ decided' = [decided EXCEPT ![cur] = NoLabel]
  /\ cur' = NoEvent
  /\ seen' = NoLabel
  /\ pc' = "workers"
  /\ UNCHANGED <<rank, lastRow, github, queue, outcomes, stopping, ledger>>

(* A slip, not the code: a worker that raises ends the batch ("return" for  *)
(* "continue").                                                             *)
WorkerFailsAndReturns ==
  /\ pc \in Working
  /\ status' = [status EXCEPT ![cur] = "failed"]
  /\ overdue' = overdue \ {cur}
  /\ outcomes' = {}
  /\ cur' = NoEvent
  /\ seen' = NoLabel
  /\ pc' = "wait"
  /\ UNCHANGED <<rank, lastRow, github, queue, decided, stopping, ledger>>

(* The worker raised: it refused the label, something it called failed, or *)
(* the response to its label write was lost.                               *)
WorkerFails ==
  /\ pc \in Working
  /\ SettleCurrent("failed")

WorkerCompletes ==
  /\ pc = "settle"
  /\ SettleCurrent("completed")

BatchWorked ==
  /\ pc = "workers"
  /\ outcomes = {}
  /\ pc' = "wait"
  /\ UNCHANGED <<table, github, queue, outcomes, decided, cur, seen, stopping, ledger>>

(***************************************************************************)
(* Time and the zombie sweep.                                              *)
(***************************************************************************)

Expire(e) ==
  /\ status[e] = "dispatched"
  /\ e \notin overdue
  /\ overdue' = overdue \cup {e}
  /\ UNCHANGED <<status, rank, lastRow, github, memory, ledger>>

(* The sweep runs again at every interval until a shutdown is requested; it *)
(* knows nothing of the batch in progress.                                  *)
Sweep ==
  /\ pc # "down"
  /\ ~stopping
  /\ overdue # {}
  /\ SweepOverdue
  /\ UNCHANGED <<github, memory, ledger>>

(***************************************************************************)
(* People.                                                                 *)
(***************************************************************************)

EditLabel(i, l) ==
  /\ edits < MaxEdits
  /\ label[i] # l
  /\ label' = [label EXCEPT ![i] = l]
  /\ relabelled' = relabelled \cup {i}
  /\ edits' = edits + 1
  /\ UNCHANGED <<table, closed, memory, interrupts>>

CloseOrReopen(i) ==
  /\ edits < MaxEdits
  /\ closed' = IF i \in closed THEN closed \ {i} ELSE closed \cup {i}
  /\ edits' = edits + 1
  /\ UNCHANGED <<table, label, memory, relabelled, interrupts>>

MainStep ==
  \/ IssuesPolled \/ PullsPolled
  \/ \E e \in Events : ReadIssue(e) \/ Skip(e) \/ StartWorker(e)
  \/ Blocked \/ Unblocked
  \/ ClassificationFails \/ Classified \/ DispatchRaises \/ ClassifierRaises
  \/ ReplaceLabels \/ MarkDispatched \/ BatchDispatched
  \/ WorkerFinishes \/ WorkerFails \/ WorkerCompletes \/ BatchWorked
  \/ NextCycle \/ StopCleanly

People ==
  \E i \in Issues : CloseOrReopen(i) \/ \E l \in EditLabels : EditLabel(i, l)

Logging ==
  \E e \in Events : LogIssueEvent(e) \/ LogPullRequest(e) \/ InjectReplayEvent(e)

Next ==
  \/ Start
  \/ MainStep
  \/ Logging
  \/ Sweep
  \/ \E e \in Events : Expire(e)
  \/ Crash \/ RequestShutdown
  \/ People

Spec == Init /\ [][Next]_vars

(* The event loop runs every coroutine that can run, the sweep's timer     *)
(* fires, time passes, and whoever operates the daemon starts it again.    *)
(* Nothing is assumed of polls, people, crashes and shutdown requests.     *)
Fairness ==
  /\ WF_vars(Start)
  /\ WF_vars(MainStep)
  /\ WF_vars(Sweep)
  /\ \A e \in Events : WF_vars(Expire(e))

FairSpec == Spec /\ Fairness

-----------------------------------------------------------------------------
(***************************************************************************)
(* Properties.                                                             *)
(***************************************************************************)

TypeOK ==
  /\ status \in [Events -> Status]
  /\ rank \in [Events -> Nat]
  /\ lastRow \in Nat
  /\ overdue \subseteq Events
  /\ label \in [Issues -> LabelState]
  /\ closed \subseteq Issues
  /\ pc \in Control
  /\ queue \subseteq Events
  /\ outcomes \subseteq Events
  /\ decided \in [Events -> Dispatchable \cup {NoLabel}]
  /\ cur \in Events \cup {NoEvent}
  /\ seen \in LabelState
  /\ stopping \in BOOLEAN
  /\ edits \in Nat
  /\ relabelled \subseteq Issues
  /\ interrupts \in Nat

(* An event the daemon has in hand is not in the batch to be dispatched, and *)
(* is not settled behind the worker's back, although the sweep may have made *)
(* its row pending again while it waited for its worker: within one life of  *)
(* the process no event reaches a worker twice.                              *)
NoDoubleDelivery ==
  /\ queue \subseteq Pending
  /\ \A e \in InHand : e \notin queue /\ status[e] \in {"pending", "dispatched"}
  /\ pc \in Working => cur \notin outcomes

Orphans == {e \in Events : status[e] = "dispatched" /\ e \notin InHand}

(* A row is left dispatched with nobody working on it only by a process that *)
(* died in the middle of a cycle; a shutdown on request finishes the batch   *)
(* and strands nothing, whatever the sweep did meanwhile.                    *)
OnlyDeathStrands ==
  [][Orphans' \subseteq Orphans \/ (pc' = "down" /\ pc # "wait")]_vars

(* The events of the daemon follow the lifecycle of EventLifecycle: logged   *)
(* once, taken only when pending and not in hand, settled only from the hand *)
(* or as unclassifiable, and settled for good.                               *)
Lifecycle == INSTANCE EventLifecycle WITH held <- InHand
FollowsLifecycle == Lifecycle!Spec

(* Every label the daemon writes, except for an injected event, is one the   *)
(* state machine allows from the label the issue has at that moment, though  *)
(* several events of one issue may be in a batch and people relabel at any   *)
(* time; only if they did since the daemon read the issue, hence within one  *)
(* dispatch or one worker, it is from the label that was read.               *)
LabelStepsValid ==
  [][\A i \in Issues :
       /\ label'[i] # label[i] /\ edits' = edits
       /\ ~(pc = "relabel" /\ KindOf[cur] = "ghost")
       => label'[i] \in ValidTransitions(IF i \in relabelled THEN seen ELSE label[i])]_vars

(* No event stays dispatched for ever, even when the process keeps dying.    *)
NoZombies ==
  \A e \in Events : status[e] = "dispatched" ~> status[e] # "dispatched"

(* An event that has no work in it for now: its issue has no label to act    *)
(* on, or waits for a dependency.                                            *)
Idle(e) ==
  \/ Target(e, label[IssueOf[e]]) \notin Dispatchable
  \/ OpenDependencies(IssueOf[e]) # {}

(* An event whose dispatch raises: as long as it is pending, each life of    *)
(* the process ends at it.                                                   *)
Poisonous(e) ==
  LET i == IssueOf[e] IN
  /\ Target(e, label[i]) \in Dispatchable
  /\ \/ i \in DependsOn[i]
     \/ /\ OpenDependencies(i) = {}
        /\ \/ KindOf[e] = "alien"
           \/ KindOf[e] = "pull" /\ "needs-review" \notin ValidTransitions(label[i])

(* Every logged event is in the end settled, or pending with nothing to do,  *)
(* through crashes, shutdowns and the sweep.  Only an event whose dispatch   *)
(* raises, or a classifier that raises in one life after the other, keeps an *)
(* event from that; as the workers of a batch start when all of it has been  *)
(* dispatched, then even the events before the one that raises.              *)
EveryEventSettles ==
  \/ []<><<ClassifierRaises>>_vars
  \/ \A e \in Events :
       <>[](\/ status[e] \in Terminal \cup {"absent"}
            \/ status[e] = "pending" /\ Idle(e)
            \/ \E f \in Events : status[f] = "pending" /\ Poisonous(f))
=============================================================================
