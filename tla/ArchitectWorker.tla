-------------------------- MODULE ArchitectWorker --------------------------
(***************************************************************************)
(* ArchitectWorker (architect.py) and the dependency gate of the           *)
(* dispatcher (dispatcher.py, _blocked_dependencies).  The architect turns *)
(* an issue to be planned into a checklist, and a feature into sub-issues, *)
(* which it creates one by one before it posts the tracking comment with   *)
(* their dependencies on the feature.  The gate looks for dependencies in  *)
(* the comments of the issue it is about to dispatch.                      *)
(*                                                                         *)
(* Every request to GitHub is a step of its own and may be the last of the *)
(* run.  Issues are numbered in the order they are created; the queue of   *)
(* events is left to SyncDaemon.  Here an issue has an event whenever      *)
(* someone touches it, and has to have one until one of them has failed.   *)
(***************************************************************************)
EXTENDS Naturals, Sequences, FiniteSets

CONSTANTS
  Answers,     \* what the model may answer when asked for a FeaturePlan
  Base,        \* in which numbers are written, 10 in the code
  MaxIssues,   \* bound: issues
  MaxAborts    \* bound: runs of the architect that raise or die

ASSUME ArchitectBounds == MaxIssues \in Nat \ {0} /\ MaxAborts \in Nat
ASSUME BaseType == Base \in Nat \ {0, 1}
ASSUME AnswersType ==
  \A p \in Answers : p \in Seq([deps : SUBSET Nat, feature : BOOLEAN])

VARIABLES
  label,    \* the workflow label of every issue; issue 1 is the first feature
  closed,   \* the issues closed
  lines,    \* the "(Depends on: ...)" lines in the comments of every issue
  origin,   \* history: the run that created an issue, and its place in the plan
  failed,   \* the issues whose event was marked failed, and is not tried again
  pc,       \* "idle", "plan", "create", "relabel"; "down" when the process is
  issue,    \* the issue being planned
  plan,     \* the FeaturePlan
  created,  \* created_issues
  target,   \* the label to write
  aborts

github == <<label, closed, lines, origin>>
architectVars == <<github, failed, pc, issue, plan, created, target, aborts>>

Planning == {"feature", "needs-planning"}
Numbers == 1 .. Len(label)

(* FeaturePlan.validate_dependencies; a plan it refuses is asked for again, *)
(* with the error, a bounded number of times, and then the run raises.      *)
ValidPlan(p) ==
  /\ p # <<>>
  /\ \A k \in DOMAIN p : p[k].deps \subseteq DOMAIN p \ {k}

(* The bound on issues, so that a plan fits with room for every feature      *)
(* still to be planned and for every run still to be repeated.               *)
Fits(p) ==
  LET features == {i \in Numbers \ {issue} : label[i] = "feature"}
      parts    == {k \in DOMAIN p : p[k].feature}
  IN  Len(label) + Len(p) + Cardinality(features) + Cardinality(parts)
        + (MaxAborts - aborts) <= MaxIssues

ArchitectInit ==
  /\ label = <<"feature">>
  /\ closed = {}
  /\ lines = <<{}>>
  /\ origin = <<[parent |-> 0, first |-> 1, plan |-> <<>>, place |-> 0]>>
  /\ failed = {}
  /\ pc = "idle"
  /\ issue = 1
  /\ plan = <<>>
  /\ created = <<>>
  /\ target = "feature"
  /\ aborts = 0

(***************************************************************************)
(* The gate.                                                               *)
(***************************************************************************)

(* The digits of j begin with those of i: a search for "#i" finds "#j". *)
Found(i, j) == i = j \/ \E k \in 1 .. MaxIssues : j \div Base ^ k = i

(* The number of the issue is found in the line, as its subject or as a      *)
(* dependency.                                                               *)
Mentions(l, i) == \E j \in {l.about} \cup l.deps : Found(i, j)

(* dependencies_for_issue.  "(Depends on: none)" does not match.  A line that *)
(* mentions the issue is about it; if no line is, all lines are.             *)
Dependencies(i) ==
  LET matching == {l \in lines[i] : l.deps # {}}
      exact == {l \in matching : Mentions(l, i)}
  IN  UNION {l.deps : l \in IF exact # {} THEN exact ELSE matching}

(* A slip, not the code: what has been planned counts as done. *)
UnblockedWhenPlanned(i) ==
  i \notin Dependencies(i) /\ \A d \in Dependencies(i) : d \in closed \/ label[d] \notin Planning

(* _blocked_dependencies is empty.  It raises for an issue that depends on   *)
(* itself, which ValidPlan keeps the architect from writing.                 *)
Unblocked(i) == i \notin Dependencies(i) /\ Dependencies(i) \subseteq closed

(* The event of an issue is next, and is new if the last one failed.         *)
Dispatch(i) ==
  /\ pc = "idle"
  /\ label[i] \in Planning
  /\ Unblocked(i)
  /\ issue' = i
  /\ failed' = failed \ {i}
  /\ pc' = "plan"
  /\ UNCHANGED <<github, plan, created, target, aborts>>

(* The classifier cannot be reached, try after try: mark_failed. *)
ClassificationFails(i) ==
  /\ pc = "idle"
  /\ label[i] \in Planning
  /\ Unblocked(i)
  /\ failed' = failed \cup {i}
  /\ UNCHANGED <<github, pc, issue, plan, created, target, aborts>>

(* A request of the dispatcher fails, or the classifier answers with another *)
(* route or raises: run() ends, and the event stays pending.                 *)
DispatchRaises ==
  /\ pc = "idle"
  /\ \E i \in Numbers : label[i] \in Planning
  /\ pc' = "down"
  /\ UNCHANGED <<github, failed, issue, plan, created, target, aborts>>

(* The next life, which sweeps what the last one had dispatched (SyncDaemon). *)
Restart ==
  /\ pc = "down"
  /\ pc' = "idle"
  /\ UNCHANGED <<github, failed, issue, plan, created, target, aborts>>

(***************************************************************************)
(* _run_micro_plan.                                                        *)
(***************************************************************************)

(* The checklist, or what the missing ADR is about, is posted.  "ready"      *)
(* stands for "needs-adr" too, to which the gate and the architect are as    *)
(* blind.                                                                   *)
PostChecklist ==
  /\ pc = "plan"
  /\ label[issue] = "needs-planning"
  /\ target' = "ready"
  /\ pc' = "relabel"
  /\ UNCHANGED <<label, closed, lines, origin, failed, issue, plan, created, aborts>>

(***************************************************************************)
(* _run_macro_plan.                                                        *)
(***************************************************************************)

TakePlan(p) ==
  /\ pc = "plan"
  /\ label[issue] = "feature"
  /\ ValidPlan(p)
  /\ Fits(p)
  /\ plan' = p
  /\ created' = <<>>
  /\ pc' = "create"
  /\ UNCHANGED <<github, failed, issue, target, aborts>>

CreateIssue ==
  /\ pc = "create"
  /\ Len(created) < Len(plan)
  /\ LET n == Len(label) + 1
         k == Len(created) + 1
     IN  /\ label' = Append(label, IF plan[k].feature THEN "feature" ELSE "needs-planning")
         /\ created' = Append(created, n)
         /\ origin' = Append(origin, [parent |-> issue, plan |-> plan, place |-> k,
                                      first |-> IF k = 1 THEN n ELSE created[1]])
  /\ lines' = Append(lines, {})
  /\ UNCHANGED <<closed, failed, pc, issue, plan, target, aborts>>

(* A slip, not the code: dependencies are taken to be counted from 0. *)
TrackingFromZero ==
  {[about |-> created[k],
    deps |-> {created[d + 1] : d \in plan[k].deps \ {Len(plan)}}] : k \in DOMAIN plan}

(* _render_tracking_comment, which turns places in the plan into numbers. *)
Tracking ==
  {[about |-> created[k], deps |-> {created[d] : d \in plan[k].deps}] : k \in DOMAIN plan}

(* A slip, not the code: a label that is none. *)
PostTrackingMisspelled ==
  /\ pc = "create"
  /\ Len(created) = Len(plan)
  /\ lines' = [lines EXCEPT ![issue] = @ \cup Tracking]
  /\ target' = "epic_tracking"
  /\ pc' = "relabel"
  /\ UNCHANGED <<label, closed, origin, failed, issue, plan, created, aborts>>

PostTracking ==
  /\ pc = "create"
  /\ Len(created) = Len(plan)
  /\ lines' = [lines EXCEPT ![issue] = @ \cup Tracking]
  /\ target' = "epic-tracking"
  /\ pc' = "relabel"
  /\ UNCHANGED <<label, closed, origin, failed, issue, plan, created, aborts>>

(* The run is over, and its local variables are gone. *)
EndRun ==
  /\ issue' = 1
  /\ plan' = <<>>
  /\ created' = <<>>
  /\ target' = "feature"

Relabel ==
  /\ pc = "relabel"
  /\ label' = [label EXCEPT ![issue] = target]
  /\ pc' = "idle"
  /\ EndRun
  /\ UNCHANGED <<closed, lines, origin, failed, aborts>>

(* A request fails, or the model has no valid answer: the daemon catches what *)
(* the worker raises, and marks the event failed.                            *)
Raise ==
  /\ pc \in {"plan", "create", "relabel"}
  /\ aborts < MaxAborts
  /\ aborts' = aborts + 1
  /\ failed' = failed \cup {issue}
  /\ pc' = "idle"
  /\ EndRun
  /\ UNCHANGED github

(* The process dies: the event stays dispatched until the next life. *)
Die ==
  /\ pc \in {"plan", "create", "relabel"}
  /\ aborts < MaxAborts
  /\ aborts' = aborts + 1
  /\ pc' = "down"
  /\ EndRun
  /\ UNCHANGED <<github, failed>>

(***************************************************************************)
(* People.                                                                 *)
(***************************************************************************)

(* What has been planned gets done, or is given up.  Only issues that others *)
(* depend on are closed here: of the others nobody asks.                     *)
Close(i) ==
  /\ label[i] \notin Planning
  /\ i \notin closed
  /\ \E j \in Numbers : \E l \in lines[j] : i \in l.deps
  /\ closed' = closed \cup {i}
  /\ UNCHANGED <<label, lines, origin, failed, pc, issue, plan, created, target, aborts>>

(* The line of a sub-issue is copied from the feature to the sub-issue, so   *)
(* that the gate sees it; one without dependencies would not make a match,   *)
(* and once the sub-issue is planned nobody asks.                            *)
CopyLine(i) ==
  LET own == {l \in lines[origin[i].parent] : l.about = i /\ l.deps # {}} IN
  /\ i # 1 /\ label[i] \in Planning
  /\ ~ own \subseteq lines[i]
  /\ lines' = [lines EXCEPT ![i] = @ \cup own]
  /\ UNCHANGED <<label, closed, origin, failed, pc, issue, plan, created, target, aborts>>

ArchitectStep ==
  \/ PostChecklist \/ CreateIssue \/ PostTracking \/ Relabel
  \/ \E p \in Answers : TakePlan(p)

ArchitectNext ==
  \/ \E i \in Numbers : Dispatch(i) \/ ClassificationFails(i) \/ Close(i) \/ CopyLine(i)
  \/ ArchitectStep
  \/ Raise \/ Die \/ DispatchRaises \/ Restart

ArchitectSpec == ArchitectInit /\ [][ArchitectNext]_architectVars

(* The daemon does not rest while there is an event to dispatch or a run to  *)
(* go on with, it is started again whenever it ended, and what others depend *)
(* on is closed in the end.  Nobody has to touch an issue whose event failed. *)
FairArchitectSpec ==
  /\ ArchitectSpec
  /\ WF_architectVars(ArchitectStep \/ Restart \/ \E i \in Numbers \ failed : Dispatch(i))
  /\ WF_architectVars(\E i \in Numbers : Close(i))

-----------------------------------------------------------------------------
ArchitectTypeOK ==
  /\ label \in Seq(Planning \cup {"epic-tracking", "ready"})
  /\ Len(label) <= MaxIssues
  /\ closed \subseteq Numbers
  /\ lines \in Seq(SUBSET [about : Numbers, deps : SUBSET Numbers])
  /\ origin \in Seq([parent : Numbers \cup {0}, first : Numbers,
                     plan : Answers \cup {<<>>}, place : Nat])
  /\ Len(lines) = Len(label) /\ Len(origin) = Len(label)
  /\ failed \subseteq Numbers
  /\ pc \in {"idle", "plan", "create", "relabel", "down"}
  /\ issue \in Numbers
  /\ plan \in Answers \cup {<<>>}
  /\ created \in Seq(Numbers)
  /\ aborts \in 0 .. MaxAborts

(* What issue i should wait for according to the plan it comes from.         *)
Wanted(i) == {origin[i].first + d - 1 : d \in
                IF i = 1 THEN {} ELSE origin[i].plan[origin[i].place].deps}

(* A feature that is labelled as tracked has, in its tracking comments, one  *)
(* whole plan with the real numbers: every sub-issue of one of its runs with *)
(* the dependencies the plan wants, whatever earlier runs left unfinished.   *)
EpicTracksItsPlan ==
  \A i \in Numbers : label[i] = "epic-tracking" =>
    \E j \in Numbers :
      /\ origin[j].parent = i /\ origin[j].place = 1
      /\ \A k \in 1 .. Len(origin[j].plan) :
           [about |-> j + k - 1, deps |-> Wanted(j + k - 1)] \in lines[i]

(* The line of a sub-issue that was copied to it does what it was written    *)
(* for: wherever the digits of its number turn up, the sub-issue is planned  *)
(* only when all that the plan wanted before it is closed.                   *)
CopiedLinesHold ==
  [][pc = "idle" /\ pc' = "plan" /\ (\E l \in lines[issue'] : l.about = issue' /\ l.deps # {})
       => Wanted(issue') \subseteq closed]_architectVars

(* What issue i waits for: what its plan wants, and for a feature whose run   *)
(* was interrupted after the tracking comment what its sub-issues wait for.  *)
WaitsFor(i) ==
  Wanted(i) \cup UNION {l.deps : l \in IF label[i] = "feature" THEN lines[i] ELSE {}}

(* The issues whose event failed, those that wait in a circle, and those that *)
(* wait for one of these: what is left when the issues that have not failed   *)
(* and wait for none of the others are taken away, again and again.          *)
Stuck ==
  LET left[n \in 0 .. MaxIssues] ==
        IF n = 0 THEN Numbers
        ELSE LET before == left[n - 1]
             IN  {i \in before : i \in failed \/ WaitsFor(i) \cap before # {}}
  IN  left[MaxIssues]

(* Only circular dependencies and failed events keep issues from being        *)
(* planned for ever, whenever the process dies, unless the dispatcher ends    *)
(* one life after the other.                                                 *)
OnlyStuckIssuesWait ==
  \/ []<><<DispatchRaises>>_architectVars
  \/ []<>({i \in Numbers : label[i] = "needs-planning"} \subseteq Stuck)

(* A sub-issue is dispatched only when everything it depends on is closed.   *)
SubIssuesInOrder ==
  [][pc = "idle" /\ pc' = "plan" => Wanted(issue') \subseteq closed]_architectVars
=============================================================================
