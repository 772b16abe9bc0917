--------------------------- MODULE LabelWaterfall ---------------------------
(***************************************************************************)
(* The label state machine of the dispatcher (dispatcher.py): the workflow *)
(* labels of an issue or pull request, the transitions the dispatcher      *)
(* accepts, the labels it turns into work, and the labels the workers      *)
(* write when they are done.  A GitHub issue is abstracted to the one      *)
(* workflow label the code looks at (the first it finds); labels outside   *)
(* the workflow do not influence any decision and are left out.            *)
(***************************************************************************)

WorkflowLabel ==
  { "needs-planning", "feature", "needs-adr", "ready", "needs-help",
    "needs-review", "merge-conflict", "epic-tracking", "approved",
    "changes-requested", "done" }

NoLabel == "unlabeled"

LabelState == WorkflowLabel \cup {NoLabel}

(* The row of VALID_LABEL_TRANSITIONS for a label.  "merge-conflict" has no *)
(* row, which the lookup with a default turns into the empty set.           *)
ValidTransitions(from) ==
  CASE from = NoLabel             -> {"needs-planning", "feature", "ready", "needs-review"}
    [] from = "needs-planning"    -> {"needs-planning", "needs-adr", "ready"}
    [] from = "feature"           -> {"feature", "epic-tracking"}
    [] from = "needs-adr"         -> {"needs-adr"}
    [] from = "ready"             -> {"ready", "needs-help", "needs-review", "done"}
    [] from = "needs-help"        -> {"needs-help", "ready"}
    [] from = "needs-review"      -> {"needs-review", "approved", "changes-requested"}
    [] from = "epic-tracking"     -> {"epic-tracking", "done"}
    [] from = "approved"          -> {"approved", "needs-review", "done"}
    [] from = "changes-requested" -> {"changes-requested", "needs-review", "ready"}
    [] from = "done"              -> {"done"}
    [] OTHER                      -> {}

(* The keys of ROUTE_BY_LABEL: the labels that mean there is work to do. *)
Dispatchable == {"needs-planning", "feature", "ready", "needs-review"}

(* The labels a worker accepts on its issue when it was sent there for     *)
(* label decided: the architect serves both planning labels and chooses by *)
(* the label it reads, coder and reviewer insist on their own.             *)
AcceptedBy(decided) ==
  IF decided \in {"needs-planning", "feature"}
    THEN {"needs-planning", "feature"}
    ELSE {decided}

(* A slip, not the code: a label spelled with an underscore. *)
WorkerResultsMisspelled(found) ==
  CASE found = "needs-planning" -> {"needs-adr", "ready"}
    [] found = "feature"        -> {"epic_tracking"}
    [] found = "ready"          -> {"needs-help"}
    [] found = "needs-review"   -> {"approved", "changes-requested"}
    [] OTHER                    -> {}

(* The labels a worker can write on an issue it accepted with label found. *)
(* The coder relabels the issue only when it gives up: when it succeeds it *)
(* labels the pull request it opens, and the issue stays "ready".          *)
WorkerResults(found) ==
  CASE found = "needs-planning" -> {"needs-adr", "ready"}
    [] found = "feature"        -> {"epic-tracking"}
    [] found = "ready"          -> {"needs-help"}
    [] found = "needs-review"   -> {"approved", "changes-requested"}
    [] OTHER                    -> {}
=============================================================================
