---------------------------- MODULE ReviewCycle ----------------------------
(***************************************************************************)
(* One pull request and its reviews: ReviewerWorker (reviewer.py) with the *)
(* dispatcher, which labels the pull request for review whenever it has    *)
(* been updated (dispatcher.py), while commits are pushed, CI runs and     *)
(* people relabel.                                                         *)
(*                                                                         *)
(* Every request is a step of its own.  Commits are numbered in the order  *)
(* they are pushed.  GitHub counts reviews and changes of labels as        *)
(* updates of the pull request, those of the daemon too.                   *)
(***************************************************************************)
EXTENDS Naturals, FiniteSets, FiniteSetsExt, LabelWaterfall

CONSTANTS
  MaxHeads,    \* bound: commits pushed
  CheckRuns,   \* the check runs a commit may have
  PageSize,    \* check runs in GitHub's answer (30; the client asks for one page)
  MaxRuns,     \* bound: times a check run is started
  EditLabels,  \* labels people give the pull request
  MaxEdits,    \* bound: labels given by people
  MaxAborts    \* bound: workers that raise and processes that die

Heads == 1 .. MaxHeads
Verdicts == {"APPROVE", "REQUEST_CHANGES"}

(* A check run: not registered, without a conclusion, or with one that is or *)
(* is not in BLOCKING_CHECK_RUN_CONCLUSIONS.                                *)
Checks == {"none", "running", "green", "red"}

ASSUME ReviewBounds ==
  /\ MaxHeads \in Nat \ {0} /\ MaxRuns \in Nat /\ MaxEdits \in Nat /\ MaxAborts \in Nat
  /\ EditLabels \subseteq LabelState
  /\ PageSize \in Nat \ {0}
  /\ IsFiniteSet(CheckRuns)

VARIABLES
  bakeOff,   \* the title starts with [BAKE-OFF]
  head,      \* the last commit
  ci,        \* every check run of every commit
  label,     \* the workflow label of the pull request
  updated,   \* it has an update that is not an event yet that was dispatched
  last,      \* the last review: its verdict, commit, and the commit of the diff
             \* it is about, 0 if no diff was looked at
  pc,        \* the request the worker is at, "idle" between runs,
             \* and "down" when the process is
  sha,       \* head_sha
  about,     \* the commit that was head when the diff was read
  verdict,   \* review_event
  red,       \* history: the check runs of sha that are red since before the
             \* run began
  failed,    \* the last event dispatched was marked failed, and is not tried again
  ciRuns, edits, aborts

local == <<sha, about, verdict, red>>
counts == <<failed, ciRuns, edits, aborts>>
reviewVars == <<bakeOff, head, ci, label, updated, last, pc, local, counts>>

ReviewInit ==
  /\ bakeOff \in BOOLEAN
  /\ head = 1
  /\ ci = [s \in Heads |-> [c \in CheckRuns |-> "none"]]
  /\ label = NoLabel
  /\ updated = TRUE
  /\ last = [verdict |-> "REQUEST_CHANGES", commit |-> 0, about |-> 0]
  /\ pc = "idle"
  /\ sha = 1 /\ about = 0 /\ verdict = "REQUEST_CHANGES" /\ red = {}
  /\ failed = FALSE /\ ciRuns = 0 /\ edits = 0 /\ aborts = 0

(***************************************************************************)
(* What goes on around the reviewer.                                       *)
(***************************************************************************)

Push ==
  /\ head < MaxHeads
  /\ head' = head + 1
  /\ updated' = TRUE
  /\ UNCHANGED <<bakeOff, ci, label, last, pc, local, counts>>

StartCheck(s, c) ==
  /\ s <= head
  /\ ci[s][c] # "running"
  /\ ciRuns < MaxRuns
  /\ ciRuns' = ciRuns + 1
  /\ ci' = [ci EXCEPT ![s][c] = "running"]
  /\ red' = IF s = sha THEN red \ {c} ELSE red
  /\ UNCHANGED <<bakeOff, head, label, updated, last, pc, sha, about, verdict, failed, edits, aborts>>

FinishCheck(s, c, result) ==
  /\ ci[s][c] = "running"
  /\ ci' = [ci EXCEPT ![s][c] = result]
  /\ UNCHANGED <<bakeOff, head, label, updated, last, pc, local, counts>>

EditLabel(l) ==
  /\ edits < MaxEdits
  /\ label # l
  /\ label' = l
  /\ updated' = TRUE
  /\ edits' = edits + 1
  /\ UNCHANGED <<bakeOff, head, ci, last, pc, local, failed, ciRuns, aborts>>

(* A slip, not the code: a pull request that has its verdict is skipped.    *)
DispatchUnreviewed ==
  /\ pc = "idle"
  /\ updated
  /\ "needs-review" \in ValidTransitions(label)
  /\ IF label \in {"approved", "changes-requested"}
       THEN updated' = FALSE /\ UNCHANGED <<label, pc>>
       ELSE label' = "needs-review" /\ updated' = (label # "needs-review") /\ pc' = "get"
  /\ failed' = FALSE
  /\ UNCHANGED <<bakeOff, head, ci, last, local, ciRuns, edits, aborts>>

(* The update is polled and dispatched: the pull request is labelled, which  *)
(* is an update again if it had another label.                               *)
Dispatch ==
  /\ pc = "idle"
  /\ updated
  /\ "needs-review" \in ValidTransitions(label)
  /\ label' = "needs-review"
  /\ updated' = (label # "needs-review")
  /\ failed' = FALSE
  /\ pc' = "get"
  /\ UNCHANGED <<bakeOff, head, ci, last, local, ciRuns, edits, aborts>>

(* The classifier cannot be reached, try after try: mark_failed. *)
ClassificationFails ==
  /\ pc = "idle"
  /\ updated
  /\ updated' = FALSE
  /\ failed' = TRUE
  /\ UNCHANGED <<bakeOff, head, ci, label, last, pc, local, ciRuns, edits, aborts>>

(* A request of the dispatcher fails, the classifier answers with another    *)
(* route or raises, or the label cannot go to "needs-review": run() ends,    *)
(* and the event stays pending.                                              *)
DispatchRaises ==
  /\ pc = "idle"
  /\ updated
  /\ pc' = "down"
  /\ UNCHANGED <<bakeOff, head, ci, label, updated, last, local, counts>>

Restart ==
  /\ pc = "down"
  /\ pc' = "idle"
  /\ UNCHANGED <<bakeOff, head, ci, label, updated, last, local, counts>>

(***************************************************************************)
(* handle_pull_request.                                                    *)
(***************************************************************************)

(* get_pull_request; a bake-off is refused without looking at it. *)
GetPullRequest ==
  /\ pc = "get"
  /\ label = "needs-review"
  /\ sha' = head
  /\ about' = 0
  /\ verdict' = "REQUEST_CHANGES"
  /\ red' = {c \in CheckRuns : ci[head][c] = "red"}
  /\ pc' = IF bakeOff THEN "review" ELSE "checks"
  /\ UNCHANGED <<bakeOff, head, ci, label, updated, last, counts>>

NotForReview ==
  /\ pc = "get"
  /\ label # "needs-review"
  /\ failed' = TRUE
  /\ pc' = "idle"
  /\ UNCHANGED <<bakeOff, head, ci, label, updated, last, local, ciRuns, edits, aborts>>

Registered(s) == {c \in CheckRuns : ci[s][c] # "none"}

(* What get_check_runs may return: it asks for one page. *)
Pages(s) == kSubset(Min({PageSize, Cardinality(Registered(s))}), Registered(s))

(* A slip, not the code: only runs without a conclusion are blocking. *)
BlockingRunningOnly(s, P) == \E c \in P : ci[s][c] = "running"

(* _blocking_check_runs; no check run at all blocks nothing. *)
Blocking(s, P) == \E c \in P : ci[s][c] \in {"running", "red"}

GateCloses ==
  /\ pc = "checks"
  /\ \E P \in Pages(sha) : Blocking(sha, P)
  /\ pc' = "review"
  /\ UNCHANGED <<bakeOff, head, ci, label, updated, last, local, counts>>

GateOpens ==
  /\ pc = "checks"
  /\ \E P \in Pages(sha) : ~Blocking(sha, P)
  /\ pc' = "diff"
  /\ UNCHANGED <<bakeOff, head, ci, label, updated, last, local, counts>>

(* The diff is asked for by the number of the pull request, not by commit.  *)
GetDiff ==
  /\ pc = "diff"
  /\ about' = head
  /\ pc' = "model"
  /\ UNCHANGED <<bakeOff, head, ci, label, updated, last, sha, verdict, red, counts>>

TakeVerdict(v) ==
  /\ pc = "model"
  /\ verdict' = v
  /\ pc' = "review"
  /\ UNCHANGED <<bakeOff, head, ci, label, updated, last, sha, about, red, counts>>

(* A slip, not the code: a review with a verdict that is none. *)
CreateReviewLowercase ==
  /\ pc = "review"
  /\ last' = [verdict |-> "approve", commit |-> sha, about |-> about]
  /\ updated' = TRUE
  /\ pc' = "relabel"
  /\ UNCHANGED <<bakeOff, head, ci, label, local, counts>>

CreateReview ==
  /\ pc = "review"
  /\ last' = [verdict |-> verdict, commit |-> sha, about |-> about]
  /\ updated' = TRUE
  /\ pc' = "relabel"
  /\ UNCHANGED <<bakeOff, head, ci, label, local, counts>>

TargetLabel(v) == IF v = "APPROVE" THEN "approved" ELSE "changes-requested"

(* A slip, not the code: whatever the verdict, the label is "approved".    *)
ReplaceLabelsIfApproved ==
  /\ pc = "relabel"
  /\ label' = "approved"
  /\ updated' = TRUE
  /\ pc' = "idle"
  /\ UNCHANGED <<bakeOff, head, ci, last, local, counts>>

(* Whatever the label is by now, it is replaced. *)
ReplaceLabels ==
  /\ pc = "relabel"
  /\ label' = TargetLabel(verdict)
  /\ updated' = TRUE
  /\ pc' = "idle"
  /\ UNCHANGED <<bakeOff, head, ci, last, local, counts>>

(* A request fails or the model has no verdict: the daemon catches what the  *)
(* worker raises, and marks the event failed.                                *)
Raise ==
  /\ pc \notin {"idle", "down"}
  /\ aborts < MaxAborts
  /\ aborts' = aborts + 1
  /\ failed' = TRUE
  /\ pc' = "idle"
  /\ UNCHANGED <<bakeOff, head, ci, label, updated, last, local, ciRuns, edits>>

(* The process dies: the sweep of the next one lets the event be dispatched  *)
(* again.                                                                    *)
Die ==
  /\ pc \notin {"idle", "down"}
  /\ aborts < MaxAborts
  /\ aborts' = aborts + 1
  /\ updated' = TRUE
  /\ pc' = "down"
  /\ UNCHANGED <<bakeOff, head, ci, label, last, local, failed, ciRuns, edits>>

DaemonStep ==
  \/ Dispatch \/ Restart
  \/ GetPullRequest \/ NotForReview \/ GateCloses \/ GateOpens
  \/ GetDiff \/ (\E v \in Verdicts : TakeVerdict(v))
  \/ CreateReview \/ ReplaceLabels

ReviewNext ==
  \/ DaemonStep
  \/ ClassificationFails \/ DispatchRaises
  \/ Raise \/ Die
  \/ Push
  \/ \E s \in Heads, c \in CheckRuns :
       StartCheck(s, c) \/ \E r \in {"green", "red"} : FinishCheck(s, c, r)
  \/ \E l \in EditLabels : EditLabel(l)

ReviewSpec == ReviewInit /\ [][ReviewNext]_reviewVars

(* The daemon polls, dispatches and works, and is started again whenever it  *)
(* ended; of all others nothing is assumed.                                  *)
FairReviewSpec == ReviewSpec /\ WF_reviewVars(DaemonStep)

-----------------------------------------------------------------------------
ReviewTypeOK ==
  /\ bakeOff \in BOOLEAN
  /\ head \in Heads
  /\ ci \in [Heads -> [CheckRuns -> Checks]]
  /\ label \in LabelState
  /\ updated \in BOOLEAN
  /\ last \in [verdict : Verdicts, commit : 0 .. head, about : 0 .. head]
  /\ pc \in {"idle", "get", "checks", "diff", "model", "review", "relabel", "down"}
  /\ sha \in 1 .. head /\ about \in 0 .. head
  /\ verdict \in Verdicts
  /\ red \subseteq CheckRuns /\ failed \in BOOLEAN
  /\ ciRuns \in 0 .. MaxRuns /\ edits \in 0 .. MaxEdits /\ aborts \in 0 .. MaxAborts

(* While people leave the label alone it tells the verdict of the last       *)
(* review, through retries, interrupted runs and updates in between.         *)
LabelTellsVerdict ==
  edits = 0 /\ label \in {"approved", "changes-requested"} =>
    label = TargetLabel(last.verdict)

(* A commit with a check run that was red before the run read the pull       *)
(* request and has not been run again is not approved, unless its check runs *)
(* are more than GitHub lists on a page; a bake-off is never approved.       *)
NoApprovalAgainstRed ==
  [][last' # last /\ last'.verdict = "APPROVE" =>
       /\ ~bakeOff
       /\ red = {} \/ Cardinality(Registered(sha)) > PageSize]_reviewVars

(* No push is lost, at whatever point of a review of an older commit it      *)
(* comes, and whenever the process dies: the head is in the end reviewed, and *)
(* if that review is about a diff, about that of the head.  Except that the  *)
(* last event dispatched has failed, that people gave a label that cannot go *)
(* to "needs-review", or that the dispatcher ends one life after the other.  *)
EveryHeadIsReviewed ==
  \/ []<><<DispatchRaises>>_reviewVars
  \/ []<>(\/ last.commit = head /\ last.about \in {0, head}
          \/ failed
          \/ "needs-review" \notin ValidTransitions(label))
=============================================================================
