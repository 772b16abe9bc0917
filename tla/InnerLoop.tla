----------------------------- MODULE InnerLoop -----------------------------
(***************************************************************************)
(* InnerLoop (coder.py): the generate-test-fix cycle the coder runs on a   *)
(* patch it has already written into the working tree, in standard mode    *)
(* and in the two phases, Red and Green, of TDD mode.                      *)
(*                                                                         *)
(* A file's content is a model value, a working tree maps every file to    *)
(* its content, and a patch holds whole contents for the files it touches  *)
(* and the command that tests it.  The exit code of a command that runs is *)
(* a function of the tree; that a run times out or never ends, that a      *)
(* command cannot be run, that the sandbox raises and what the model       *)
(* answers are not determined.                                             *)
(*                                                                         *)
(* Commands run in DockerSandbox (docker_sandbox.py), which gives them so  *)
(* many seconds, or without a sandbox, as in the loop the daemon makes,    *)
(* where nothing ends them.                                                *)
(***************************************************************************)
EXTENDS Naturals

CONSTANTS
  TestFiles,      \* paths _is_test_file says yes to
  ImplFiles,      \* all other paths
  Contents,       \* contents of a file
  Blank,          \* the empty content
  Commands,       \* test commands
  Passing,        \* the trees on which each command exits with 0
  Before,         \* the tree before the patch of the item was written
  MaxIterations,  \* max_iterations
  HasFixModel     \* TRUE if the loop was given an LLM client

Files == TestFiles \cup ImplFiles
Trees == [Files -> Contents]

(* files_changed may not be empty in the patch the coder hands over (it     *)
(* refuses such a patch); in a fix it may.                                  *)
Patches == [files : UNION {[F -> Contents] : F \in SUBSET Files}, command : Commands]

ASSUME FilesDisjoint == TestFiles \cap ImplFiles = {}
ASSUME BlankType == Blank \in Contents
ASSUME PassingType == Passing \in [Commands -> SUBSET Trees]
ASSUME BeforeType == Before \in Trees
ASSUME LoopType == MaxIterations \in Nat \ {0} /\ HasFixModel \in BOOLEAN

VARIABLES
  tree,     \* the working tree
  patch,    \* current_patch
  tdd,      \* the item requires a test
  sandbox,  \* the loop was given a DockerSandbox
  pc,       \* "idle", "partition", "red", "green", "returned", "raised", "hung"
  lost,     \* history: a command failed without having been run
  attempt,  \* iteration of the Green phase or of standard mode
  verdict   \* InnerLoopResult.final_status, "none" before

loopVars == <<tree, patch, tdd, sandbox, pc, lost, attempt, verdict>>

Write(t, p) == [f \in Files |-> IF f \in DOMAIN p.files THEN p.files[f] ELSE t[f]]

(* impl_files of _partition_files. *)
ImplOf(p) == DOMAIN p.files \ TestFiles

Blanked(t, p) == [f \in Files |-> IF f \in ImplOf(p) THEN Blank ELSE t[f]]

Passes(t, p) == t \in Passing[p.command]

(* Exit code 0, and any other: that of a command that ran, or that of Docker *)
(* if it has no such image or the container is killed.                      *)
Exits0 ==
  /\ Passes(tree, patch)
  /\ UNCHANGED lost

ExitsNonzero ==
  \/ ~Passes(tree, patch) /\ UNCHANGED lost
  \/ lost' = TRUE

LoopInit ==
  /\ tree = Before
  /\ patch \in {p \in Patches : DOMAIN p.files # {}}
  /\ tdd \in BOOLEAN /\ sandbox \in BOOLEAN
  /\ lost = FALSE
  /\ pc = "idle"
  /\ attempt = 1
  /\ verdict = "none"

(* The coder has written its patch and calls run(). *)
Call ==
  /\ pc = "idle"
  /\ tree' = Write(tree, patch)
  /\ pc' = IF tdd /\ ImplOf(patch) # {} THEN "partition" ELSE "green"
  /\ UNCHANGED <<patch, tdd, sandbox, lost, attempt, verdict>>

Return(v) ==
  /\ pc' = "returned"
  /\ verdict' = v

(***************************************************************************)
(* Red: with the implementation files emptied, the tests must fail.        *)
(***************************************************************************)

BlankImplementation ==
  /\ pc = "partition"
  /\ tree' = Blanked(tree, patch)
  /\ pc' = "red"
  /\ UNCHANGED <<patch, tdd, sandbox, lost, attempt, verdict>>

(* A slip, not the code: the emptied files are left empty. *)
RestoreNothing == tree' = tree

(* The implementation is put back before the outcome of the run is looked at. *)
Restore == tree' = Write(tree, patch)

RedTimesOut ==
  /\ pc = "red"
  /\ sandbox
  /\ Restore
  /\ Return("fail")
  /\ UNCHANGED <<patch, tdd, sandbox, lost, attempt>>

RedTautological ==
  /\ pc = "red"
  /\ Exits0
  /\ Restore
  /\ Return("fail")
  /\ UNCHANGED <<patch, tdd, sandbox, attempt>>

(* A slip, not the code: the exit code of the Red run is not looked at. *)
RedUnchecked ==
  /\ pc = "red"
  /\ Restore
  /\ pc' = "green"
  /\ UNCHANGED <<patch, tdd, sandbox, lost, attempt, verdict>>

RedFails ==
  /\ pc = "red"
  /\ ExitsNonzero
  /\ Restore
  /\ pc' = "green"
  /\ UNCHANGED <<patch, tdd, sandbox, attempt, verdict>>

(***************************************************************************)
(* Green, and standard mode, which is the same loop without a Red phase.   *)
(***************************************************************************)

TimesOut ==
  /\ pc = "green"
  /\ sandbox
  /\ Return("fail")
  /\ UNCHANGED <<tree, patch, tdd, sandbox, lost, attempt>>

TestsPass ==
  /\ pc = "green"
  /\ Exits0
  /\ Return("pass")
  /\ UNCHANGED <<tree, patch, tdd, sandbox, attempt>>

(* Slips, not the code: an iteration too many, and one that is not counted. *)
FixUnbounded(p) ==
  /\ pc = "green"
  /\ ExitsNonzero
  /\ HasFixModel
  /\ attempt <= MaxIterations
  /\ patch' = p
  /\ tree' = Write(tree, p)
  /\ attempt' = attempt + 1
  /\ UNCHANGED <<tdd, sandbox, pc, verdict>>

FixUncounted(p) ==
  /\ pc = "green"
  /\ ExitsNonzero
  /\ attempt < MaxIterations
  /\ HasFixModel
  /\ patch' = p
  /\ tree' = Write(tree, p)
  /\ UNCHANGED <<tdd, sandbox, pc, attempt, verdict>>

(* The model's next patch replaces the current one and is written over the *)
(* tree; what it does not touch stays as the patches before left it.       *)
Fix(p) ==
  /\ pc = "green"
  /\ ExitsNonzero
  /\ attempt < MaxIterations
  /\ HasFixModel
  /\ patch' = p
  /\ tree' = Write(tree, p)
  /\ attempt' = attempt + 1
  /\ UNCHANGED <<tdd, sandbox, pc, verdict>>

(* No iteration or no model left, or the model raised. *)
GiveUp ==
  /\ pc = "green"
  /\ ExitsNonzero
  /\ Return("fail")
  /\ UNCHANGED <<tree, patch, tdd, sandbox, attempt>>

(* Running the command raises (no such command, the sandbox refuses), which *)
(* nothing in the loop catches.                                             *)
SandboxRaises ==
  /\ pc \in {"red", "green"}
  /\ pc' = "raised"
  /\ UNCHANGED <<tree, patch, tdd, sandbox, lost, attempt, verdict>>

(* Nothing ends the run of a command, nor the call of the loop: the event    *)
(* loop of the daemon waits with it.                                        *)
Hang ==
  /\ pc \in {"red", "green"}
  /\ ~sandbox
  /\ pc' = "hung"
  /\ UNCHANGED <<tree, patch, tdd, sandbox, lost, attempt, verdict>>

LoopStep ==
  \/ Call
  \/ BlankImplementation \/ RedTimesOut \/ RedTautological \/ RedFails
  \/ TimesOut \/ TestsPass \/ GiveUp
  \/ \E p \in Patches : Fix(p)
  \/ SandboxRaises \/ Hang

Ended == pc \in {"returned", "raised", "hung"} /\ UNCHANGED loopVars

LoopNext == LoopStep \/ Ended

LoopSpec == LoopInit /\ [][LoopNext]_loopVars

(* A coroutine that can run runs. *)
FairLoopSpec == LoopSpec /\ WF_loopVars(LoopStep)

-----------------------------------------------------------------------------
LoopTypeOK ==
  /\ tree \in Trees
  /\ patch \in Patches
  /\ tdd \in BOOLEAN /\ sandbox \in BOOLEAN /\ lost \in BOOLEAN
  /\ pc \in {"idle", "partition", "red", "green", "returned", "raised", "hung"}
  /\ attempt \in 1 .. MaxIterations
  /\ verdict \in {"none", "pass", "fail"}

(* What the coder relies on (InnerLoopContract): whatever phase the loop     *)
(* returns from, the patch it returns is in the tree, on success that tree   *)
(* has passed the patch's command, and a result after one attempt is about   *)
(* the patch handed over; only a loop that raises may leave files emptied.   *)
(* The coder commits the tree a second time only if attempts > 1.            *)
Status ==
  CASE pc = "idle" -> "idle" [] pc = "raised" -> "raised"
    [] pc = "returned" -> verdict [] OTHER -> "running"

Contract == INSTANCE InnerLoopContract WITH
  held <- Write(tree, patch), accepts <- Passing[patch.command],
  fixes <- attempt - 1, status <- Status,
  MaxFixes <- MaxIterations - 1, MayFix <- HasFixModel

HonoursContract == Contract!Spec

(* In TDD mode a patch with an implementation that succeeds as it was handed *)
(* over has tests that fail without the implementation, unless the command   *)
(* of the Red phase could not be run, which the loop takes for a failure of  *)
(* the tests.                                                                *)
FirstPassWasRed ==
  verdict = "pass" /\ tdd /\ attempt = 1 /\ ImplOf(patch) # {}
    => ~Passes(Blanked(tree, patch), patch) \/ lost

(* Whatever the model answers and however the runs end, the loop ends if it  *)
(* has a sandbox; without one it ends unless the command never does.         *)
LoopEnds == <>(pc \in {"returned", "raised"} \/ (pc = "hung" /\ ~sandbox))
=============================================================================
