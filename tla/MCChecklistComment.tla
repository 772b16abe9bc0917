------------------------- MODULE MCChecklistComment -------------------------
(***************************************************************************)
(* A small instance of ChecklistComment: three items, a call of PRManager  *)
(* for each, and a run of CoderWorker that works on the first.             *)
(***************************************************************************)
EXTENDS ChecklistComment, TLC

CONSTANTS m1, m2, m3, w

Texts == <<"one", "two", "three">>
Targeted == (m1 :> 1) @@ (m2 :> 2) @@ (m3 :> 3) @@ (w :> 1)
AllTick == (m1 :> "x") @@ (m2 :> "x") @@ (m3 :> "x") @@ (w :> "x")
=============================================================================
