---------------------------- MODULE MCSyncDaemon ----------------------------
(***************************************************************************)
(* Small instances of SyncDaemon for TLC.  The configurations choose.      *)
(***************************************************************************)
EXTENDS SyncDaemon, TLC

CONSTANTS e1, e2, e3, e4, i1, i2, none

(* Safety: an issue that waits for a pull request, with an event and a      *)
(* ghost run; and the pull request, which is approved already, with an      *)
(* update and with an event of a type nobody can dispatch, as relabelling   *)
(* it produces.  A label that people set has no way to "needs-review".      *)
SafetyIssueOf == (e1 :> i1) @@ (e2 :> i2) @@ (e3 :> i1) @@ (e4 :> i2)
SafetyKindOf == (e1 :> "issue") @@ (e2 :> "pull") @@ (e3 :> "ghost") @@ (e4 :> "alien")
SafetyDependsOn == (i1 :> {i2}) @@ (i2 :> {})
SafetyLabels == (i1 :> "feature") @@ (i2 :> "approved")
SafetyEdits == {"needs-adr"}

(* Liveness: an event of an issue that depends on itself, and an event and  *)
(* a ghost run of another issue, which people relabel.                      *)
LiveIssueOf == (e1 :> i1) @@ (e2 :> i2) @@ (e3 :> i2)
LiveKindOf == (e1 :> "pull") @@ (e2 :> "issue") @@ (e3 :> "ghost")
LiveDependsOn == (i1 :> {i1}) @@ (i2 :> {})
LiveLabels == (i1 :> "ready") @@ (i2 :> "needs-planning")
LiveEdits == {"ready", "needs-help"}
=============================================================================
