-------------------------- MODULE SyncDaemonProofs --------------------------
(***************************************************************************)
(* Proofs about SyncDaemon, for every set of events and issues, every      *)
(* labelling and every bound: type correctness, NoDoubleDelivery, the      *)
(* action properties OnlyDeathStrands and LabelStepsValid, the refinement  *)
(* of EventLifecycle; and about the migration of the database the daemon   *)
(* opens, for any number of processes and crashes.                         *)
(***************************************************************************)
EXTENDS SyncDaemon, ShadowLogMigration, TLAPS

(* What the control point says about the batch; together with the type      *)
(* invariant and NoDoubleDelivery it is inductive.                          *)
BatchInv ==
  /\ pc \in Dispatching => cur \in queue /\ Target(cur, seen) \in Dispatchable
  /\ pc \in Working => cur \in Events
  /\ pc \notin {"dispatch"} \cup Dispatching => queue = {}
  /\ pc \in {"down", "pollIssues", "pollPulls", "wait"} => outcomes = {}
  /\ \A e \in overdue : status[e] = "dispatched"

IInv == TypeOK /\ NoDoubleDelivery /\ BatchInv

-----------------------------------------------------------------------------
(* The labels the daemon writes are workflow labels. *)
LEMMA WrittenLabels ==
  /\ Dispatchable \subseteq WorkflowLabel
  /\ \A l \in LabelState : WorkerResults(l) \subseteq WorkflowLabel
BY DEF Dispatchable, WorkflowLabel, LabelState, NoLabel, WorkerResults

(* A worker that accepts the label it finds leaves a label the state       *)
(* machine of the dispatcher allows from there.                            *)
LEMMA WorkerResultsAreValid ==
  \A l \in LabelState : WorkerResults(l) \subseteq ValidTransitions(l)
BY DEF WorkflowLabel, LabelState, NoLabel, WorkerResults, ValidTransitions

-----------------------------------------------------------------------------
(* At the start nothing is logged and nothing in hand. *)
LEMMA InitIInv == Init => IInv
<1> SUFFICES ASSUME Init PROVE IInv
  OBVIOUS
<1> USE DEF Init, Control, Dispatching, Working
<1>1. TypeOK
  BY InitialLabelType DEF TypeOK, Status, LabelState
<1>2. NoDoubleDelivery
  BY DEF NoDoubleDelivery, InHand
<1>3. BatchInv
  BY DEF BatchInv
<1>4. QED
  BY <1>1, <1>2, <1>3 DEF IInv

(* Every step keeps the inductive invariant. *)
LEMMA NextIInv == IInv /\ [Next]_vars => IInv'
<1> SUFFICES ASSUME IInv, [Next]_vars PROVE IInv'
  OBVIOUS
<1> USE IssueOfType, NoEventType, WrittenLabels DEF IInv, TypeOK, NoDoubleDelivery, BatchInv,
        InHand, Pending, Status, Control, Dispatching, Working, LabelState,
        table, github, memory, ledger
<1>1. CASE Start
  BY <1>1 DEF Start, SweepOverdue
<1>2. CASE Crash
  <2>1. TypeOK'
    <3>1. interrupts' \in Nat
      BY <1>2 DEF Crash
    <3>2. decided' \in [Events -> Dispatchable \cup {NoLabel}] /\ seen' \in LabelState
      BY <1>2 DEF Crash, LoseMemory
    <3>3. QED
      BY <1>2, <3>1, <3>2 DEF Crash, LoseMemory
  <2>2. NoDoubleDelivery' /\ BatchInv'
    BY <1>2 DEF Crash, LoseMemory
  <2>3. QED
    BY <2>1, <2>2
<1>3. CASE RequestShutdown
  BY <1>3 DEF RequestShutdown
<1>4. CASE NextCycle
  BY <1>4 DEF NextCycle
<1>5. CASE StopCleanly
  BY <1>5 DEF StopCleanly, LoseMemory
<1>6. CASE IssuesPolled
  BY <1>6 DEF IssuesPolled
<1>7. CASE PullsPolled
  BY <1>7 DEF PullsPolled, Pending
<1>8. CASE Blocked
  BY <1>8 DEF Blocked, LeaveCurrent
<1>9. CASE Unblocked
  BY <1>9 DEF Unblocked
<1>10. CASE ClassificationFails
  BY <1>10 DEF ClassificationFails, LeaveCurrent
<1>11. CASE Classified
  BY <1>11 DEF Classified
<1>12. CASE DispatchRaises \/ ClassifierRaises
  BY <1>12 DEF DispatchRaises, ClassifierRaises, LoseMemory
<1>13. CASE ReplaceLabels
  BY <1>13 DEF ReplaceLabels
<1>14. CASE MarkDispatched
  BY <1>14 DEF MarkDispatched, LeaveCurrent
<1>15. CASE BatchDispatched
  BY <1>15 DEF BatchDispatched
<1>16. CASE WorkerFinishes
  BY <1>16 DEF WorkerFinishes
<1>17. CASE WorkerFails
  BY <1>17 DEF WorkerFails, SettleCurrent, Terminal
<1>18. CASE WorkerCompletes
  BY <1>18 DEF WorkerCompletes, SettleCurrent, Terminal
<1>19. CASE BatchWorked
  BY <1>19 DEF BatchWorked
<1>20. CASE Sweep
  BY <1>20 DEF Sweep, SweepOverdue
<1>21. ASSUME NEW e \in Events, LogIssueEvent(e) PROVE IInv'
  BY <1>21 DEF LogIssueEvent, LogEvent
<1>22. ASSUME NEW e \in Events, LogPullRequest(e) PROVE IInv'
  BY <1>22 DEF LogPullRequest, LogEvent
<1>23. ASSUME NEW e \in Events, InjectReplayEvent(e) PROVE IInv'
  BY <1>23 DEF InjectReplayEvent, LogEvent
<1>24. ASSUME NEW e \in Events, ReadIssue(e) PROVE IInv'
  BY <1>24 DEF ReadIssue, Earliest
<1>25. ASSUME NEW e \in Events, Skip(e) PROVE IInv'
  BY <1>25 DEF Skip, Earliest
<1>26. ASSUME NEW e \in Events, StartWorker(e) PROVE IInv'
  BY <1>26 DEF StartWorker, Earliest
<1>27. ASSUME NEW e \in Events, Expire(e) PROVE IInv'
  BY <1>27 DEF Expire
<1>28. ASSUME NEW i \in Issues, CloseOrReopen(i) PROVE IInv'
  BY <1>28 DEF CloseOrReopen
<1>29. ASSUME NEW i \in Issues, NEW l \in EditLabels, EditLabel(i, l) PROVE IInv'
  BY <1>29, EditLabelsType DEF EditLabel
<1>30. CASE UNCHANGED vars
  BY <1>30 DEF vars
<1>31. QED
  BY <1>1, <1>2, <1>3, <1>4, <1>5, <1>6, <1>7, <1>8, <1>9, <1>10, <1>11, <1>12, <1>13, <1>14, <1>15, <1>16, <1>17, <1>18, <1>19, <1>20, <1>21, <1>22, <1>23, <1>24, <1>25, <1>26, <1>27, <1>28, <1>29, <1>30
  DEF Next, MainStep, Logging, People

(* Every reachable state satisfies the inductive invariant. *)
THEOREM Invariance == Spec => []IInv
<1>1. Init => IInv
  BY InitIInv
<1>2. IInv /\ [Next]_vars => IInv'
  BY NextIInv
<1>3. QED
  BY <1>1, <1>2, PTL DEF Spec

(* The state of the daemon, the shadow log and GitHub stays well typed. *)
THEOREM TypeCorrect == Spec => []TypeOK
<1>1. IInv => TypeOK
  BY DEF IInv
<1>2. QED
  BY <1>1, Invariance, PTL

(* Within one life of the process no event is delivered twice, whatever the *)
(* sweep, the replay command and people do meanwhile.                       *)
THEOREM DeliveredOnce == Spec => []NoDoubleDelivery
<1>1. IInv => NoDoubleDelivery
  BY DEF IInv
<1>2. QED
  BY <1>1, Invariance, PTL

-----------------------------------------------------------------------------
(* A step leaves a dispatched row in nobody's hand only if the process dies. *)
LEMMA StrandingStep ==
  IInv /\ [Next]_vars =>
    \/ Orphans' \subseteq Orphans
    \/ pc' = "down" /\ pc # "wait"
    \/ UNCHANGED vars
<1> SUFFICES ASSUME IInv, Next PROVE Orphans' \subseteq Orphans \/ (pc' = "down" /\ pc # "wait")
  BY DEF vars
<1> USE DEF IInv, TypeOK, NoDoubleDelivery, BatchInv, Orphans, InHand, Pending, Dispatching,
        Working, table, github, memory, ledger
<1>1. CASE StopCleanly
  BY <1>1 DEF StopCleanly, LoseMemory
<1>2. CASE Crash \/ DispatchRaises \/ ClassifierRaises
  BY <1>2 DEF Crash, DispatchRaises, ClassifierRaises, LoseMemory
<1>3. CASE MarkDispatched
  BY <1>3 DEF MarkDispatched, LeaveCurrent
<1>4. CASE WorkerFails \/ WorkerCompletes
  BY <1>4 DEF WorkerFails, WorkerCompletes, SettleCurrent
<1>5. ASSUME NEW e \in Events, StartWorker(e)
      PROVE  Orphans' \subseteq Orphans
  BY <1>5 DEF StartWorker, Earliest
<1>6. CASE Start \/ Sweep
  BY <1>6 DEF Start, Sweep, SweepOverdue
<1>7. CASE ClassificationFails
  BY <1>7 DEF ClassificationFails, LeaveCurrent
<1>8. CASE Logging
  BY <1>8 DEF Logging, LogIssueEvent, LogPullRequest, InjectReplayEvent, LogEvent
<1>9. CASE IssuesPolled \/ PullsPolled \/ Classified \/ Unblocked \/ Blocked
  BY <1>9 DEF IssuesPolled, PullsPolled, Classified, Unblocked, Blocked, LeaveCurrent
<1>10. CASE ReplaceLabels \/ BatchDispatched \/ WorkerFinishes \/ BatchWorked \/ NextCycle
  BY <1>10 DEF ReplaceLabels, BatchDispatched, WorkerFinishes, BatchWorked, NextCycle
<1>11. ASSUME NEW e \in Events, ReadIssue(e) \/ Skip(e) \/ Expire(e)
       PROVE  Orphans' \subseteq Orphans
  BY <1>11 DEF ReadIssue, Skip, Expire
<1>12. CASE RequestShutdown \/ People
  BY <1>12 DEF RequestShutdown, People, CloseOrReopen, EditLabel
<1>13. QED
  BY <1>1, <1>2, <1>3, <1>4, <1>5, <1>6, <1>7, <1>8, <1>9, <1>10, <1>11, <1>12
  DEF Next, MainStep

(* Only a process that dies inside a cycle strands a dispatched event; a     *)
(* requested shutdown never does.                                            *)
THEOREM StrandedByDeathOnly == Spec => OnlyDeathStrands
<1>1. QED
  BY Invariance, StrandingStep, PTL DEF Spec, OnlyDeathStrands

-----------------------------------------------------------------------------
(* The initial states of the daemon are initial states of the lifecycle. *)
LEMMA LifecycleInit == Init => Lifecycle!Init
BY DEF Init, Lifecycle!Init, InHand, Working

(* Every step of the daemon is one of the lifecycle, or a stutter. *)
LEMMA LifecycleStep == IInv /\ [Next]_vars => [Lifecycle!Next]_(Lifecycle!lifecycleVars)
<1> SUFFICES ASSUME IInv, [Next]_vars
             PROVE  Lifecycle!Next \/ UNCHANGED <<status, InHand>>
  BY DEF Lifecycle!lifecycleVars
<1> USE DEF IInv, TypeOK, NoDoubleDelivery, BatchInv, Pending, Dispatching, Working,
        table, github, memory, ledger
<1>1. CASE Start \/ Sweep
  <2>1. overdue \in SUBSET Events
    OBVIOUS
  <2>2. Lifecycle!Reset(overdue)
    BY <1>1 DEF Start, Sweep, SweepOverdue, Lifecycle!Reset, InHand
  <2>3. QED
    BY <2>1, <2>2 DEF Lifecycle!Next
<1>2. ASSUME NEW e \in Events, LogIssueEvent(e) \/ LogPullRequest(e) \/ InjectReplayEvent(e)
      PROVE  Lifecycle!Next
  <2>1. Lifecycle!Log(e)
    BY <1>2 DEF LogIssueEvent, LogPullRequest, InjectReplayEvent, LogEvent, Lifecycle!Log, InHand
  <2>2. QED
    BY <2>1 DEF Lifecycle!Next
<1>3. CASE Crash \/ DispatchRaises \/ ClassifierRaises
  <2>1. Lifecycle!LoseHeld
    BY <1>3 DEF Crash, DispatchRaises, ClassifierRaises, LoseMemory, Lifecycle!LoseHeld, InHand
  <2>2. QED
    BY <2>1 DEF Lifecycle!Next
<1>4. CASE MarkDispatched
  <2>1. cur \in Events
    BY <1>4 DEF MarkDispatched
  <2>2. cur \notin InHand /\ status[cur] = "pending"
    BY <1>4 DEF MarkDispatched
  <2>3. InHand' = InHand \cup {cur}
    BY <1>4 DEF MarkDispatched, LeaveCurrent, InHand
  <2>4. Lifecycle!Take(cur)
    BY <1>4, <2>2, <2>3 DEF MarkDispatched, Lifecycle!Take
  <2>5. QED
    BY <2>1, <2>4 DEF Lifecycle!Next
<1>5. CASE ClassificationFails
  <2>1. cur \in Events /\ cur \notin InHand /\ status[cur] = "pending"
    BY <1>5 DEF ClassificationFails
  <2>2. InHand' = InHand
    BY <1>5 DEF ClassificationFails, LeaveCurrent, InHand
  <2>3. Lifecycle!Unclassifiable(cur)
    BY <1>5, <2>1, <2>2 DEF ClassificationFails, Lifecycle!Unclassifiable
  <2>4. QED
    BY <2>1, <2>3 DEF Lifecycle!Next
<1>6. CASE WorkerFails \/ WorkerCompletes
  <2>1. cur \in Events /\ cur \in InHand /\ status[cur] \in {"pending", "dispatched"}
    BY <1>6 DEF WorkerFails, WorkerCompletes, InHand
  <2>2. InHand' = InHand \ {cur}
    BY <1>6 DEF WorkerFails, WorkerCompletes, SettleCurrent, InHand
  <2>3. \E s \in Lifecycle!Settled : status' = [status EXCEPT ![cur] = s]
    BY <1>6 DEF WorkerFails, WorkerCompletes, SettleCurrent, Lifecycle!Settled
  <2>4. Lifecycle!Settle(cur)
    BY <2>1, <2>2, <2>3 DEF Lifecycle!Settle, Lifecycle!Settled
  <2>5. QED
    BY <2>1, <2>4 DEF Lifecycle!Next
<1>7. ASSUME NEW e \in Events, StartWorker(e)
      PROVE  UNCHANGED <<status, InHand>>
  BY <1>7 DEF StartWorker, Earliest, InHand
<1>8. CASE StopCleanly
  BY <1>8 DEF StopCleanly, LoseMemory, InHand
<1>9. CASE IssuesPolled \/ PullsPolled \/ Classified \/ Unblocked \/ Blocked
  BY <1>9 DEF IssuesPolled, PullsPolled, Classified, Unblocked, Blocked, LeaveCurrent, InHand
<1>10. CASE ReplaceLabels \/ BatchDispatched \/ WorkerFinishes \/ BatchWorked \/ NextCycle
  BY <1>10 DEF ReplaceLabels, BatchDispatched, WorkerFinishes, BatchWorked, NextCycle, InHand
<1>11. ASSUME NEW e \in Events, ReadIssue(e) \/ Skip(e) \/ Expire(e)
       PROVE  UNCHANGED <<status, InHand>>
  BY <1>11 DEF ReadIssue, Skip, Expire, InHand
<1>12. CASE RequestShutdown \/ People \/ UNCHANGED vars
  BY <1>12 DEF RequestShutdown, People, CloseOrReopen, EditLabel, vars, InHand
<1>13. QED
  BY <1>1, <1>2, <1>3, <1>4, <1>5, <1>6, <1>7, <1>8, <1>9, <1>10, <1>11, <1>12
  DEF Next, MainStep, Logging

(* The daemon, its dispatcher and its sweep implement the event lifecycle.   *)
THEOREM ImplementsLifecycle == Spec => FollowsLifecycle
<1>1. QED
  BY Invariance, LifecycleInit, LifecycleStep, PTL
  DEF Spec, FollowsLifecycle, Lifecycle!Spec

-----------------------------------------------------------------------------
(* Where the dispatcher or a worker goes by what it has read, that is still *)
(* what GitHub has unless people relabelled the issue; and the dispatcher   *)
(* only gets to its label write with an allowed transition or an injected   *)
(* event.                                                                   *)
LabelInv ==
  /\ pc \in {"dependencies", "classify", "relabel", "worker"}
       => IssueOf[cur] \in relabelled \/ seen = label[IssueOf[cur]]
  /\ pc = "relabel" => KindOf[cur] = "ghost" \/ Target(cur, seen) \in ValidTransitions(seen)

(* At the start nothing is read and nothing decided. *)
LEMMA LabelInvInit == Init => LabelInv
BY DEF Init, LabelInv

(* What was read and decided holds until the label is written. *)
LEMMA LabelInvStep == IInv /\ LabelInv /\ [Next]_vars => LabelInv'
<1> SUFFICES ASSUME IInv, LabelInv, [Next]_vars PROVE LabelInv'
  OBVIOUS
<1> USE DEF LabelInv, table, github, memory, ledger
<1>1. CASE Classified
  BY <1>1 DEF Classified, Valid, Target
<1>2. CASE Unblocked
  BY <1>2 DEF Unblocked
<1>3. ASSUME NEW e \in Events, ReadIssue(e) \/ Skip(e) \/ StartWorker(e) \/ Expire(e)
      PROVE  LabelInv'
  BY <1>3 DEF ReadIssue, Skip, StartWorker, Expire, Target
<1>4. CASE Start \/ Sweep
  BY <1>4 DEF Start, Sweep, SweepOverdue, Target
<1>5. CASE Crash \/ StopCleanly \/ DispatchRaises \/ ClassifierRaises
  BY <1>5 DEF Crash, StopCleanly, DispatchRaises, ClassifierRaises, LoseMemory
<1>6. CASE Logging
  BY <1>6 DEF Logging, LogIssueEvent, LogPullRequest, InjectReplayEvent, LogEvent, Target
<1>7. CASE IssuesPolled \/ PullsPolled \/ Blocked \/ ClassificationFails \/ MarkDispatched
  BY <1>7 DEF IssuesPolled, PullsPolled, Blocked, ClassificationFails, MarkDispatched, LeaveCurrent
<1>8. CASE ReplaceLabels \/ BatchDispatched \/ WorkerFinishes \/ BatchWorked \/ NextCycle
  BY <1>8 DEF ReplaceLabels, BatchDispatched, WorkerFinishes, BatchWorked, NextCycle
<1>9. CASE WorkerFails \/ WorkerCompletes
  BY <1>9 DEF WorkerFails, WorkerCompletes, SettleCurrent
<1>10. CASE RequestShutdown \/ UNCHANGED vars
  BY <1>10 DEF RequestShutdown, vars, Target
<1>11. ASSUME NEW i \in Issues, CloseOrReopen(i)
       PROVE  LabelInv'
  BY <1>11 DEF CloseOrReopen, Target
<1>12. ASSUME NEW i \in Issues, NEW l \in EditLabels, EditLabel(i, l)
       PROVE  LabelInv'
  <2>1. label \in [Issues -> LabelState] /\ relabelled \subseteq Issues
    BY DEF IInv, TypeOK
  <2>2. \A j : j \in relabelled' \/ label'[j] = label[j]
    BY <1>12, <2>1 DEF EditLabel
  <2>3. QED
    BY <1>12, <2>2 DEF EditLabel, Target
<1>13. QED
  BY <1>1, <1>2, <1>3, <1>4, <1>5, <1>6, <1>7, <1>8, <1>9, <1>10, <1>11, <1>12
  DEF Next, MainStep, People

(* What LabelStepsValid says of one step. *)
ValidStep ==
  \A i \in Issues :
    /\ label'[i] # label[i] /\ edits' = edits
    /\ ~(pc = "relabel" /\ KindOf[cur] = "ghost")
    => label'[i] \in ValidTransitions(IF i \in relabelled THEN seen ELSE label[i])

(* So the label that is written is a valid transition. *)
LEMMA LabelStep == IInv /\ LabelInv /\ [Next]_vars => ValidStep \/ UNCHANGED vars
<1> SUFFICES ASSUME IInv, LabelInv, Next, NEW i \in Issues,
                    label'[i] # label[i], edits' = edits,
                    ~(pc = "relabel" /\ KindOf[cur] = "ghost")
             PROVE  label'[i] \in ValidTransitions(IF i \in relabelled THEN seen ELSE label[i])
  BY DEF ValidStep
<1>1. label \in [Issues -> LabelState] /\ edits \in Nat /\ seen \in LabelState
  BY DEF IInv, TypeOK
<1>2. CASE ReplaceLabels
  <2>1. i = IssueOf[cur] /\ label'[i] = Target(cur, seen)
    BY <1>1, <1>2 DEF ReplaceLabels
  <2>2. Target(cur, seen) \in ValidTransitions(seen)
    BY <1>2 DEF ReplaceLabels, LabelInv
  <2>3. i \in relabelled \/ seen = label[i]
    BY <1>2, <2>1 DEF ReplaceLabels, LabelInv
  <2>4. QED
    BY <2>1, <2>2, <2>3
<1>3. CASE WorkerFinishes
  <2>1. IssueOf[cur] \in relabelled \/ seen = label[IssueOf[cur]]
    BY <1>3 DEF WorkerFinishes, LabelInv
  <2>2. PICK l \in WorkerResults(seen) : label' = [label EXCEPT ![IssueOf[cur]] = l]
    BY <1>3 DEF WorkerFinishes
  <2>3. i = IssueOf[cur] /\ label'[i] = l
    BY <1>1, <2>2
  <2>4. label'[i] \in ValidTransitions(seen)
    BY <1>1, <2>2, <2>3, WorkerResultsAreValid
  <2>5. QED
    BY <2>1, <2>3, <2>4
<1>4. CASE People
  BY <1>1, <1>4 DEF People, CloseOrReopen, EditLabel
<1>5. label' = label \/ ReplaceLabels \/ WorkerFinishes \/ People
  BY DEF Next, MainStep, Logging, github, Start, Crash, RequestShutdown, StopCleanly, NextCycle,
     LogIssueEvent, LogPullRequest, InjectReplayEvent, LogEvent, IssuesPolled, PullsPolled,
     ReadIssue, Skip, Blocked, Unblocked, ClassificationFails, Classified, DispatchRaises,
     ClassifierRaises, MarkDispatched, BatchDispatched, StartWorker, WorkerFails,
     WorkerCompletes, SettleCurrent, BatchWorked, Expire, Sweep
<1>6. QED
  BY <1>2, <1>3, <1>4, <1>5

(* Dispatcher and workers only ever move an issue along the transitions of   *)
(* the state machine, through any crash, retry, replay and edit: from the    *)
(* label that is there, or, if people relabelled it since it was read, from  *)
(* the one that was read.  Only an injected event's own label is not checked. *)
THEOREM LabelsFollowStateMachine == Spec => LabelStepsValid
<1>1. Init => LabelInv
  BY LabelInvInit
<1>2. IInv /\ LabelInv /\ [Next]_vars => LabelInv'
  BY LabelInvStep
<1>3. IInv /\ LabelInv /\ [Next]_vars => ValidStep \/ UNCHANGED vars
  BY LabelStep
<1>4. LabelStepsValid <=> [][ValidStep]_vars
  BY PTL DEF LabelStepsValid, ValidStep
<1>5. QED
  BY <1>1, <1>2, <1>3, <1>4, Invariance, PTL DEF Spec

-----------------------------------------------------------------------------
(***************************************************************************)
(* The database the daemon opens.  However many processes open it at the   *)
(* same time, and however often one is killed half way, a process that     *)
(* gets through the migration has the whole schema, and so does every      *)
(* version that is recorded.                                               *)
(***************************************************************************)

(* What the database must contain when a process is at a step. *)
Needed(s) ==
  CASE s = "create event_state"        -> {"raw_events"}
    [] s = "create daemon_checkpoints" -> {"raw_events", "event_state", "dispatch_target"}
    [] s = "add dispatch_target"       -> Tables
    [] s = "add error_details"         -> Tables \cup {"dispatch_target"}
    [] s = "to version 3"              -> Tables \cup {"dispatch_target"}
    [] s = "insert 3"                  -> Tables \cup Columns
    [] s = "create llm_metrics"        -> Tables \cup Columns
    [] s = "insert 4"                  -> Schema
    [] s = "open"                      -> Schema
    [] OTHER                           -> {}

MInv ==
  /\ MigrationTypeOK
  /\ \A v \in versions : Released(v) \subseteq schema
  /\ \A p \in Procs : Needed(step[p]) \subseteq schema

-----------------------------------------------------------------------------
(* The two tables above, row by row. *)
LEMMA NeededRows ==
  /\ Needed("closed") = {}
  /\ Needed("create raw_events") = {}
  /\ Needed("create event_state") = {"raw_events"}
  /\ Needed("create daemon_checkpoints") = {"raw_events", "event_state", "dispatch_target"}
  /\ Needed("add dispatch_target") = Tables
  /\ Needed("add error_details") = Tables \cup {"dispatch_target"}
  /\ Needed("to version 3") = Tables \cup {"dispatch_target"}
  /\ Needed("insert 3") = Tables \cup Columns
  /\ Needed("create llm_metrics") = Tables \cup Columns
  /\ Needed("insert 4") = Schema
  /\ Needed("open") = Schema
BY DEF Needed

(* The schema of every released version. *)
LEMMA ReleasedRows ==
  /\ Released(0) = {}
  /\ Released(1) = Tables
  /\ Released(2) = Tables \cup {"dispatch_target"}
  /\ Released(3) = Tables \cup Columns
  /\ Released(4) = Schema
BY DEF Released

(* The current version is one that is recorded, or 0. *)
LEMMA CurrentVersionIsRecorded ==
  ASSUME versions \subseteq 1 .. 4
  PROVE  CurrentVersion \in versions \cup {0}
<1>1. \E v \in versions \cup {0} : \A w \in versions \cup {0} : w <= v
  <2>1. CASE 4 \in versions
    BY <2>1
  <2>2. CASE 4 \notin versions /\ 3 \in versions
    BY <2>2
  <2>3. CASE 4 \notin versions /\ 3 \notin versions /\ 2 \in versions
    BY <2>3
  <2>4. CASE 4 \notin versions /\ 3 \notin versions /\ 2 \notin versions
    BY <2>4
  <2>5. QED
    BY <2>1, <2>2, <2>3, <2>4
<1>2. QED
  BY <1>1 DEF CurrentVersion

(* A database some release has left behind has what its version needs. *)
LEMMA MigrationInitInv == MigrationInit => MInv
<1> SUFFICES ASSUME MigrationInit PROVE MInv
  OBVIOUS
<1>1. PICK v \in 0 .. 4 : schema = Released(v) /\ versions = 0 .. v \ {0}
  BY DEF MigrationInit
<1>2. MigrationTypeOK
  BY <1>1 DEF MigrationInit, MigrationTypeOK, Released, Schema, Tables, Columns, Steps
<1>3. \A w \in versions : Released(w) \subseteq schema
  BY <1>1 DEF Released, Schema, Tables, Columns
<1>4. \A p \in Procs : Needed(step[p]) \subseteq schema
  BY DEF MigrationInit, Needed
<1>5. QED
  BY <1>2, <1>3, <1>4 DEF MInv

(* A step that only adds to the schema and the versions, and brings its      *)
(* process where all that is needed is there, keeps the invariant.           *)
LEMMA GrowingStep ==
  ASSUME MInv, NEW p \in Procs, NEW s \in Steps,
         schema \subseteq schema', schema' \subseteq Schema,
         versions' \subseteq 1 .. 4, crashes' \in Nat,
         \A v \in versions' : Released(v) \subseteq schema',
         Goto(p, s), Needed(s) \subseteq schema'
  PROVE  MInv'
<1>1. MigrationTypeOK'
  BY DEF MInv, MigrationTypeOK, Goto
<1>2. ASSUME NEW q \in Procs PROVE Needed(step'[q]) \subseteq schema'
  <2>1. step'[q] = IF q = p THEN s ELSE step[q]
    BY DEF MInv, MigrationTypeOK, Goto
  <2>2. CASE q = p
    BY <2>1, <2>2
  <2>3. CASE q # p
    BY <2>1, <2>3 DEF MInv
  <2>4. QED
    BY <2>2, <2>3
<1>3. QED
  BY <1>1, <1>2 DEF MInv

(* Every transaction of the ladder keeps the invariant if what it leaves     *)
(* behind is enough for its version rows and for the next step.              *)
LEMMA ApplyStep ==
  ASSUME MInv, NEW p \in Procs, NEW at, NEW objects \in SUBSET Schema,
         NEW rows \in SUBSET (1 .. 4), NEW next \in Steps,
         Apply(p, at, objects, rows, next),
         \A v \in rows : Released(v) \subseteq Needed(at) \cup objects,
         Needed(next) \subseteq Needed(at) \cup objects
  PROVE  MInv'
<1>1. Needed(at) \subseteq schema
  BY DEF MInv, Apply
<1>2. schema \subseteq Schema /\ versions \subseteq 1 .. 4 /\ crashes' \in Nat
  BY DEF MInv, MigrationTypeOK, Apply
<1>3. CASE objects \cap schema = {} /\ rows \cap versions = {}
  <2>1. schema' = schema \cup objects /\ versions' = versions \cup rows /\ Goto(p, next)
    BY <1>3 DEF Apply
  <2>2. \A v \in versions' : Released(v) \subseteq schema'
    BY <1>1, <2>1 DEF MInv
  <2>3. QED
    BY <1>1, <1>2, <2>1, <2>2, GrowingStep
<1>4. CASE ~(objects \cap schema = {} /\ rows \cap versions = {})
  <2>1. schema' = schema /\ versions' = versions /\ Goto(p, "closed")
    BY <1>4 DEF Apply
  <2>2. Needed("closed") = {} /\ "closed" \in Steps
    BY DEF Needed, Steps
  <2>3. \A v \in versions' : Released(v) \subseteq schema'
    BY <2>1 DEF MInv
  <2>4. QED
    BY <1>2, <2>1, <2>2, <2>3, GrowingStep
<1>5. QED
  BY <1>3, <1>4

(* Every step keeps the invariant: the schema never shrinks. *)
LEMMA MigrationStepInv == MInv /\ [MigrationNext]_migrationVars => MInv'
<1> SUFFICES ASSUME MInv, [MigrationNext]_migrationVars PROVE MInv'
  OBVIOUS
<1>1. ASSUME NEW p \in Procs, ReadVersion(p) PROVE MInv'
  <2>1. CurrentVersion \in versions \cup {0} /\ versions \subseteq 1 .. 4
    BY CurrentVersionIsRecorded DEF MInv, MigrationTypeOK
  <2>2. CurrentVersion \in 0 .. 4 /\ Released(CurrentVersion) \subseteq schema
    BY <2>1, ReleasedRows DEF MInv
  <2>3. PICK s \in Steps : Goto(p, s) /\ Needed(s) \subseteq Released(CurrentVersion)
    <3>1. CASE CurrentVersion = 0
      BY <1>1, <3>1, NeededRows, ReleasedRows DEF ReadVersion, Steps
    <3>2. CASE CurrentVersion = 1
      BY <1>1, <3>2, NeededRows, ReleasedRows DEF ReadVersion, Steps
    <3>3. CASE CurrentVersion = 2
      BY <1>1, <3>3, NeededRows, ReleasedRows DEF ReadVersion, Steps
    <3>4. CASE CurrentVersion = 3
      BY <1>1, <3>4, NeededRows, ReleasedRows DEF ReadVersion, Steps
    <3>5. CASE CurrentVersion = 4
      BY <1>1, <3>5, NeededRows, ReleasedRows DEF ReadVersion, Steps
    <3>6. QED
      BY <2>2, <3>1, <3>2, <3>3, <3>4, <3>5
  <2>4. schema' = schema /\ versions' = versions /\ crashes' = crashes
    BY <1>1 DEF ReadVersion
  <2>5. schema' \subseteq Schema /\ versions' \subseteq 1 .. 4 /\ crashes' \in Nat
    BY <2>4 DEF MInv, MigrationTypeOK
  <2>6. \A w \in versions' : Released(w) \subseteq schema'
    BY <2>4 DEF MInv
  <2>7. Needed(s) \subseteq schema' /\ schema \subseteq schema'
    BY <2>2, <2>3, <2>4
  <2>8. QED
    BY <2>3, <2>5, <2>6, <2>7, GrowingStep
<1>2. ASSUME NEW p \in Procs, CreateTables(p) PROVE MInv'
  <2>1. ASSUME Apply(p, "create raw_events", {"raw_events"}, {}, "create event_state") PROVE MInv'
    <3>1. {"raw_events"} \in SUBSET Schema /\ {} \in SUBSET (1 .. 4) /\ "create event_state" \in Steps
      BY DEF Schema, Tables, Columns, Steps
    <3>2. \A v \in {} : Released(v) \subseteq Needed("create raw_events") \cup {"raw_events"}
      BY NeededRows, ReleasedRows DEF Schema, Tables, Columns
    <3>3. Needed("create event_state") \subseteq Needed("create raw_events") \cup {"raw_events"}
      BY NeededRows DEF Schema, Tables, Columns
    <3>4. QED
      BY <2>1, <3>1, <3>2, <3>3, ApplyStep
  <2>2. ASSUME Apply(p, "create event_state", {"event_state", "dispatch_target"}, {}, "create daemon_checkpoints") PROVE MInv'
    <3>1. {"event_state", "dispatch_target"} \in SUBSET Schema /\ {} \in SUBSET (1 .. 4) /\ "create daemon_checkpoints" \in Steps
      BY DEF Schema, Tables, Columns, Steps
    <3>2. \A v \in {} : Released(v) \subseteq Needed("create event_state") \cup {"event_state", "dispatch_target"}
      BY NeededRows, ReleasedRows DEF Schema, Tables, Columns
    <3>3. Needed("create daemon_checkpoints") \subseteq Needed("create event_state") \cup {"event_state", "dispatch_target"}
      BY NeededRows DEF Schema, Tables, Columns
    <3>4. QED
      BY <2>2, <3>1, <3>2, <3>3, ApplyStep
  <2>3. ASSUME Apply(p, "create daemon_checkpoints", {"daemon_checkpoints"}, {}, "to version 3") PROVE MInv'
    <3>1. {"daemon_checkpoints"} \in SUBSET Schema /\ {} \in SUBSET (1 .. 4) /\ "to version 3" \in Steps
      BY DEF Schema, Tables, Columns, Steps
    <3>2. \A v \in {} : Released(v) \subseteq Needed("create daemon_checkpoints") \cup {"daemon_checkpoints"}
      BY NeededRows, ReleasedRows DEF Schema, Tables, Columns
    <3>3. Needed("to version 3") \subseteq Needed("create daemon_checkpoints") \cup {"daemon_checkpoints"}
      BY NeededRows DEF Schema, Tables, Columns
    <3>4. QED
      BY <2>3, <3>1, <3>2, <3>3, ApplyStep
  <2>4. QED
    BY <1>2, <2>1, <2>2, <2>3 DEF CreateTables
<1>3. ASSUME NEW p \in Procs, AddDispatchTarget(p) PROVE MInv'
  <2>1. ASSUME Apply(p, "add dispatch_target", {"dispatch_target"}, {}, "to version 3") PROVE MInv'
    <3>1. {"dispatch_target"} \in SUBSET Schema /\ {} \in SUBSET (1 .. 4) /\ "to version 3" \in Steps
      BY DEF Schema, Tables, Columns, Steps
    <3>2. \A v \in {} : Released(v) \subseteq Needed("add dispatch_target") \cup {"dispatch_target"}
      BY NeededRows, ReleasedRows DEF Schema, Tables, Columns
    <3>3. Needed("to version 3") \subseteq Needed("add dispatch_target") \cup {"dispatch_target"}
      BY NeededRows DEF Schema, Tables, Columns
    <3>4. QED
      BY <2>1, <3>1, <3>2, <3>3, ApplyStep
  <2>2. QED
    BY <1>3, <2>1 DEF AddDispatchTarget
<1>4. ASSUME NEW p \in Procs, ToVersion3(p) PROVE MInv'
  <2>1. ASSUME Apply(p, "to version 3", {"error_details"}, {2, 3}, "create llm_metrics") PROVE MInv'
    <3>1. {"error_details"} \in SUBSET Schema /\ {2, 3} \in SUBSET (1 .. 4) /\ "create llm_metrics" \in Steps
      BY DEF Schema, Tables, Columns, Steps
    <3>2. \A v \in {2, 3} : Released(v) \subseteq Needed("to version 3") \cup {"error_details"}
      BY NeededRows, ReleasedRows DEF Schema, Tables, Columns
    <3>3. Needed("create llm_metrics") \subseteq Needed("to version 3") \cup {"error_details"}
      BY NeededRows DEF Schema, Tables, Columns
    <3>4. QED
      BY <2>1, <3>1, <3>2, <3>3, ApplyStep
  <2>2. QED
    BY <1>4, <2>1 DEF ToVersion3
<1>5. ASSUME NEW p \in Procs, AddErrorDetails(p) PROVE MInv'
  <2>1. ASSUME Apply(p, "add error_details", {"error_details"}, {}, "insert 3") PROVE MInv'
    <3>1. {"error_details"} \in SUBSET Schema /\ {} \in SUBSET (1 .. 4) /\ "insert 3" \in Steps
      BY DEF Schema, Tables, Columns, Steps
    <3>2. \A v \in {} : Released(v) \subseteq Needed("add error_details") \cup {"error_details"}
      BY NeededRows, ReleasedRows DEF Schema, Tables, Columns
    <3>3. Needed("insert 3") \subseteq Needed("add error_details") \cup {"error_details"}
      BY NeededRows DEF Schema, Tables, Columns
    <3>4. QED
      BY <2>1, <3>1, <3>2, <3>3, ApplyStep
  <2>2. ASSUME Apply(p, "insert 3", {}, {3}, "create llm_metrics") PROVE MInv'
    <3>1. PICK o \in SUBSET Schema : o = {}
      OBVIOUS
    <3>2. {3} \in SUBSET (1 .. 4) /\ "create llm_metrics" \in Steps
      BY DEF Steps
    <3>3. \A v \in {3} : Released(v) \subseteq Needed("insert 3") \cup o
      BY NeededRows, ReleasedRows DEF Schema, Tables, Columns
    <3>4. Needed("create llm_metrics") \subseteq Needed("insert 3") \cup o
      BY NeededRows DEF Schema, Tables, Columns
    <3>5. Apply(p, "insert 3", o, {3}, "create llm_metrics")
      BY <2>2, <3>1
    <3>6. QED
      BY <3>2, <3>3, <3>4, <3>5, ApplyStep
  <2>3. QED
    BY <1>5, <2>1, <2>2 DEF AddErrorDetails
<1>6. ASSUME NEW p \in Procs, ToVersion4(p) PROVE MInv'
  <2>1. ASSUME Apply(p, "create llm_metrics", {"llm_metrics"}, {}, "insert 4") PROVE MInv'
    <3>1. {"llm_metrics"} \in SUBSET Schema /\ {} \in SUBSET (1 .. 4) /\ "insert 4" \in Steps
      BY DEF Schema, Tables, Columns, Steps
    <3>2. \A v \in {} : Released(v) \subseteq Needed("create llm_metrics") \cup {"llm_metrics"}
      BY NeededRows, ReleasedRows DEF Schema, Tables, Columns
    <3>3. Needed("insert 4") \subseteq Needed("create llm_metrics") \cup {"llm_metrics"}
      BY NeededRows DEF Schema, Tables, Columns
    <3>4. QED
      BY <2>1, <3>1, <3>2, <3>3, ApplyStep
  <2>2. ASSUME Apply(p, "insert 4", {}, {4}, "open") PROVE MInv'
    <3>1. PICK o \in SUBSET Schema : o = {}
      OBVIOUS
    <3>2. {4} \in SUBSET (1 .. 4) /\ "open" \in Steps
      BY DEF Steps
    <3>3. \A v \in {4} : Released(v) \subseteq Needed("insert 4") \cup o
      BY NeededRows, ReleasedRows DEF Schema, Tables, Columns
    <3>4. Needed("open") \subseteq Needed("insert 4") \cup o
      BY NeededRows DEF Schema, Tables, Columns
    <3>5. Apply(p, "insert 4", o, {4}, "open")
      BY <2>2, <3>1
    <3>6. QED
      BY <3>2, <3>3, <3>4, <3>5, ApplyStep
  <2>3. QED
    BY <1>6, <2>1, <2>2 DEF ToVersion4
<1>7. ASSUME NEW p \in Procs, Close(p) \/ Kill(p) PROVE MInv'
  <2>1. Goto(p, "closed") /\ UNCHANGED <<schema, versions>> /\ crashes' \in Nat
    BY <1>7 DEF Close, Kill, MInv, MigrationTypeOK
  <2>2. schema' \subseteq Schema /\ versions' \subseteq 1 .. 4
    BY <2>1 DEF MInv, MigrationTypeOK
  <2>3. \A w \in versions' : Released(w) \subseteq schema'
    BY <2>1 DEF MInv
  <2>4. "closed" \in Steps
    BY DEF Steps
  <2>5. QED
    BY <2>1, <2>2, <2>3, <2>4, NeededRows, GrowingStep
<1>8. CASE UNCHANGED migrationVars
  BY <1>8 DEF migrationVars, MInv, MigrationTypeOK
<1>9. QED
  BY <1>1, <1>2, <1>3, <1>4, <1>5, <1>6, <1>7, <1>8 DEF MigrationNext, Migrate

(* The inductive invariant of the migration. *)
LEMMA MigrationInvariance == MigrationSpec => []MInv
<1>1. QED
  BY MigrationInitInv, MigrationStepInv, PTL DEF MigrationSpec

(* A process that got through the migration has the whole schema. *)
THEOREM OpenIsComplete == MigrationSpec => []OpenMeansComplete
<1>1. MInv => OpenMeansComplete
  <2> SUFFICES ASSUME MInv, NEW p \in Procs, step[p] = "open" PROVE schema = Schema
    BY DEF OpenMeansComplete
  <2>1. Needed("open") = Schema
    BY DEF Needed
  <2>2. QED
    BY <2>1 DEF MInv, MigrationTypeOK
<1>2. QED
  BY <1>1, MigrationInvariance, PTL

(* A recorded version has its whole schema, whoever was killed where.      *)
THEOREM VersionIsHonest == MigrationSpec => []VersionMeansSchema
<1>1. MInv => VersionMeansSchema
  <2> SUFFICES ASSUME MInv PROVE Released(CurrentVersion) \subseteq schema
    BY DEF VersionMeansSchema
  <2>1. CurrentVersion \in versions \cup {0}
    BY CurrentVersionIsRecorded DEF MInv, MigrationTypeOK
  <2>2. Released(0) = {}
    BY DEF Released
  <2>3. QED
    BY <2>1, <2>2 DEF MInv
<1>2. QED
  BY <1>1, MigrationInvariance, PTL

(* The type invariant: no step of the ladder leaves the five versions or the *)
(* objects of the schema.                                                    *)
THEOREM MigrationTypeCorrect == MigrationSpec => []MigrationTypeOK
<1>1. MInv => MigrationTypeOK
  BY DEF MInv
<1>2. QED
  BY <1>1, MigrationInvariance, PTL
=============================================================================
