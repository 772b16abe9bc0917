------------------------- MODULE InnerLoopContract -------------------------
(***************************************************************************)
(* What the coder and the conflict resolver rely on when they call the     *)
(* inner loop (coder.py), without its phases, its iterations and the       *)
(* reasons for which it gives up.  CoderWorker and ConflictResolver put    *)
(* these steps in the place of the loop.                                   *)
(*                                                                         *)
(* The tree that is held is the one the patches handed over and written    *)
(* since make.  The loop may empty files of it for a while before its      *)
(* first fix; whatever it returns, the tree is then the one held, and a    *)
(* pass is a pass of that tree; only a loop that raises may leave another  *)
(* one.  Each fix is counted: a result without fixes is about the patch    *)
(* that was handed over.                                                   *)
(***************************************************************************)
EXTENDS Naturals

CONSTANTS
  Trees,     \* contents of the working tree
  MaxFixes,  \* the fixes a call may make
  MayFix     \* whether it may make any

VARIABLES
  tree,     \* the working tree
  held,     \* the tree all patches written make
  accepts,  \* the trees on which the test command at hand exits with 0
  fixes,    \* attempts of the result, less one
  status    \* "idle", "running", "pass", "fail", "raised"

contractVars == <<tree, held, accepts, fixes, status>>

Init ==
  /\ tree \in Trees
  /\ held \in Trees
  /\ accepts \in SUBSET Trees
  /\ fixes = 0
  /\ status = "idle"

Start ==
  /\ status = "idle"
  /\ tree' = held
  /\ status' = "running"
  /\ UNCHANGED <<held, accepts, fixes>>

EmptyFiles ==
  /\ status = "running" /\ tree = held
  /\ fixes = 0
  /\ tree' \in Trees
  /\ UNCHANGED <<held, accepts, fixes, status>>

RestoreFiles ==
  /\ status = "running"
  /\ tree' = held
  /\ UNCHANGED <<held, accepts, fixes, status>>

Fix ==
  /\ status = "running" /\ tree = held
  /\ MayFix /\ fixes < MaxFixes
  /\ tree' \in Trees /\ held' = tree'
  /\ accepts' \in SUBSET Trees
  /\ fixes' = fixes + 1
  /\ UNCHANGED status

Pass ==
  /\ status = "running" /\ tree = held
  /\ held \in accepts
  /\ status' = "pass"
  /\ UNCHANGED <<tree, held, accepts, fixes>>

Fail ==
  /\ status = "running"
  /\ tree' = held
  /\ status' = "fail"
  /\ UNCHANGED <<held, accepts, fixes>>

Raise ==
  /\ status = "running"
  /\ status' = "raised"
  /\ UNCHANGED <<tree, held, accepts, fixes>>

Next ==
  Start \/ EmptyFiles \/ RestoreFiles \/ Fix \/ Pass \/ Fail \/ Raise

Spec == Init /\ [][Next]_contractVars
=============================================================================
