-------------------------- MODULE ConflictResolver --------------------------
(***************************************************************************)
(* ConflictResolver.resolve (coder.py) on one pull request: it merges the  *)
(* base branch into the branch of the pull request, has the model resolve  *)
(* the conflicts, commits, tests and pushes.  Every request and every git  *)
(* command is a step of its own, and a run may end between any two: git    *)
(* keeps the merge in progress for the next run.                           *)
(*                                                                         *)
(* A commit is what it has of the base branch, the files in which conflict *)
(* markers are left, and whether it holds a resolution no test run has     *)
(* passed.  The branch of the pull request is checked out, as in the tests *)
(* of the repository; resolve() does not look.  The inner loop may be one  *)
(* that is handed over and writes fixes; the resolver does not commit them. *)
(***************************************************************************)
EXTENDS Naturals, Sequences, ContextCache

CONSTANTS
  Files,      \* files that may be in conflict
  MayFix,     \* the inner loop has a model to ask for fixes; the one resolve()
              \* makes if none is handed over has not
  MaxBase,    \* bound: commits that enter the base branch
  MaxRuns,    \* bound: calls of resolve
  MaxAborts   \* bound: runs that raise or die

ASSUME ResolverBounds ==
  MayFix \in BOOLEAN /\ MaxBase \in Nat /\ MaxRuns \in Nat /\ MaxAborts \in Nat

VARIABLES
  theirs,    \* the base branch: for each commit the files it conflicts in
  remote,    \* the commit of the pull request
  ahead,     \* people have pushed to it what the clone does not have
  label,     \* its label
  unticked,  \* the checklist has an item without a tick
  local,     \* the last commit of the branch in the clone
  merging,   \* MERGE_HEAD, 0 if no merge is in progress
  unmerged,  \* the files unmerged in the index
  markers,   \* the files of the working tree with conflict markers
  dirty,     \* the working tree has changes that are not committed: files that
             \* the Red phase has emptied, or fixes
  code,      \* the cache of ContextHydrator, see ContextCache
  pc,
  fetched,   \* origin/<base_branch>
  target,    \* the label to write
  resolved,  \* this run has committed a resolution
  resumed,   \* history: this run has found a merge in progress
  runs, aborts

clone == <<local, merging, unmerged, markers, dirty>>
github == <<theirs, remote, ahead, label, unticked>>
run == <<fetched, target, resolved, resumed>>
resolverVars == <<github, clone, code, pc, run, runs, aborts>>

(* The files in conflict when commit n of the base branch is merged. *)
Conflicts(n) == UNION {theirs[k] : k \in local.base + 1 .. n}

ResolverInit ==
  /\ theirs = <<>>
  /\ local = [base |-> 0, markers |-> {}, unproved |-> FALSE]
  /\ remote = local
  /\ ahead = FALSE
  /\ label = "merge-conflict"
  /\ unticked = TRUE
  /\ merging = 0 /\ unmerged = {} /\ markers = {} /\ dirty = FALSE
  /\ code = <<>>
  /\ pc = "idle"
  /\ fetched = 0
  /\ target = "needs-help"
  /\ resolved = FALSE /\ resumed = FALSE
  /\ runs = 0 /\ aborts = 0

(* The run is triggered by the label, which it does not look at itself. *)
Begin ==
  /\ pc = "idle"
  /\ label = "merge-conflict"
  /\ runs < MaxRuns
  /\ runs' = runs + 1
  /\ resolved' = FALSE /\ resumed' = FALSE
  /\ pc' = "comments"
  /\ UNCHANGED <<github, clone, code, fetched, target, aborts>>

(* A pull request whose issue has no open item left is refused. *)
NothingUnticked ==
  /\ pc = "comments"
  /\ ~unticked
  /\ pc' = "idle"
  /\ UNCHANGED <<github, clone, code, run, runs, aborts>>

ItemFound ==
  /\ pc = "comments"
  /\ unticked
  /\ pc' = "fetch"
  /\ UNCHANGED <<github, clone, code, run, runs, aborts>>

Fetch ==
  /\ pc = "fetch"
  /\ fetched' = Len(theirs)
  /\ pc' = "merge"
  /\ UNCHANGED <<github, clone, code, target, resolved, resumed, runs, aborts>>

(***************************************************************************)
(* git merge                                                               *)
(***************************************************************************)

(* There is nothing to merge, or nothing in conflict. *)
MergeClean ==
  /\ pc = "merge"
  /\ merging = 0
  /\ Conflicts(fetched) = {}
  /\ local' = [local EXCEPT !.base = fetched]
  /\ pc' = "push"
  /\ UNCHANGED <<code, github, merging, unmerged, markers, dirty, run, runs, aborts>>

MergeConflicts ==
  /\ pc = "merge"
  /\ merging = 0
  /\ Conflicts(fetched) # {}
  /\ merging' = fetched
  /\ unmerged' = Conflicts(fetched)
  /\ markers' = markers \cup Conflicts(fetched)
  /\ pc' = "detect"
  /\ UNCHANGED <<code, github, local, dirty, run, runs, aborts>>

(* A slip, not the code: the exit code of the merge is not looked at. *)
MergeRefusedUnseen ==
  /\ pc = "merge"
  /\ merging # 0 \/ (dirty /\ fetched > local.base)
  /\ resumed' = (merging # 0)
  /\ pc' = "push"
  /\ UNCHANGED <<github, clone, code, fetched, target, resolved, runs, aborts>>

(* git refuses while a merge is in progress, and may refuse when files it    *)
(* would have to change have been changed.                                  *)
MergeRefused ==
  /\ pc = "merge"
  /\ merging # 0 \/ (dirty /\ fetched > local.base)
  /\ resumed' = (merging # 0)
  /\ pc' = "detect"
  /\ UNCHANGED <<github, clone, code, fetched, target, resolved, runs, aborts>>

(***************************************************************************)
(* The resolution.                                                         *)
(***************************************************************************)

ConflictsFound ==
  /\ pc = "detect"
  /\ unmerged # {}
  /\ pc' = "context"
  /\ UNCHANGED <<github, clone, code, run, runs, aborts>>

(* git merge --abort, which does nothing if there is none. *)
MergeAborted ==
  /\ pc = "detect"
  /\ unmerged = {}
  /\ merging' = 0
  /\ markers' = IF merging = 0 THEN markers ELSE local.markers
  /\ dirty' = (dirty /\ merging = 0)
  /\ target' = "needs-help"
  /\ pc' = "label"
  /\ UNCHANGED <<code, github, local, unmerged, fetched, resolved, resumed, runs, aborts>>

(* The context is of the working tree in the middle of the merge; its key is *)
(* of the commit the merge started from, which the base it has tells apart,  *)
(* and of the files in conflict.                                            *)
Here == Key(local.base, unmerged)
InTree == [merging |-> merging, markers |-> markers, dirty |-> dirty]

Hydrate ==
  /\ pc = "context"
  /\ code' = Keep(code, Here, Whole(InTree))
  /\ pc' = "model"
  /\ UNCHANGED <<github, clone, run, runs, aborts>>

(* The conflicts exceed the budget: the merge stays in progress. *)
BudgetExceeded ==
  /\ pc = "context"
  /\ pc' = "idle"
  /\ UNCHANGED <<github, clone, code, run, runs, aborts>>

AbortWriting ==
  /\ pc = "context"
  /\ aborts < MaxAborts
  /\ aborts' = aborts + 1
  /\ code' = Keep(code, Here, Torn(InTree))
  /\ pc' = "idle"
  /\ UNCHANGED <<github, clone, run, runs>>

(* The model may leave out files that are in conflict. *)
Resolve(S) ==
  /\ pc = "model"
  /\ markers' = markers \ S
  /\ pc' = "stage"
  /\ UNCHANGED <<code, github, local, merging, unmerged, dirty, run, runs, aborts>>

(* git add . takes every file for resolved. *)
StageAll ==
  /\ pc = "stage"
  /\ unmerged' = {}
  /\ pc' = "commit"
  /\ UNCHANGED <<code, github, local, merging, markers, dirty, run, runs, aborts>>

CommitMerge ==
  /\ pc = "commit"
  /\ local' = [base |-> merging, markers |-> markers, unproved |-> TRUE]
  /\ merging' = 0
  /\ dirty' = FALSE
  /\ resolved' = TRUE
  /\ pc' = "test"
  /\ UNCHANGED <<code, github, unmerged, markers, fetched, target, resumed, runs, aborts>>

(***************************************************************************)
(* Tests, push and label.                                                  *)
(***************************************************************************)

(* The inner loop passes without a fix: what was committed is what passed. *)
TestsPass ==
  /\ pc = "test"
  /\ local' = [local EXCEPT !.unproved = FALSE]
  /\ pc' = "push"
  /\ UNCHANGED <<code, github, merging, unmerged, markers, dirty, run, runs, aborts>>

(* It passes after fixes, which stay in the working tree: the commit is the  *)
(* one whose tests had failed, and is pushed all the same.                   *)
FixPasses ==
  /\ pc = "test"
  /\ MayFix
  /\ dirty' = TRUE
  /\ pc' = "push"
  /\ UNCHANGED <<code, github, local, merging, unmerged, markers, run, runs, aborts>>

(* A slip, not the code: the failed resolution is pushed for people to see. *)
TestsFailPushed ==
  /\ pc = "test"
  /\ target' = "needs-help"
  /\ remote' = IF ahead THEN remote ELSE local
  /\ pc' = "label"
  /\ UNCHANGED <<code, theirs, ahead, label, unticked, clone, fetched, resolved, resumed, runs, aborts>>

(* The commit stays in the clone, and fixes that were no help in the tree.  *)
TestsFail ==
  /\ pc = "test"
  /\ dirty' \in {dirty, dirty \/ MayFix}
  /\ target' = "needs-help"
  /\ pc' = "label"
  /\ UNCHANGED <<code, github, local, merging, unmerged, markers, fetched, resolved, resumed,
                 runs, aborts>>

Push ==
  /\ pc = "push"
  /\ ~ahead
  /\ remote' = local
  /\ target' = "needs-review"
  /\ pc' = "label"
  /\ UNCHANGED <<code, theirs, ahead, label, unticked, clone, fetched, resolved, resumed, runs, aborts>>

PushRejected ==
  /\ pc = "push"
  /\ ahead
  /\ pc' = "idle"
  /\ UNCHANGED <<github, clone, code, run, runs, aborts>>

(* A slip, not the code: the label is misspelled. *)
ReplaceLabelsMisspelled ==
  /\ pc = "label"
  /\ label' = IF target = "needs-help" THEN "help" ELSE target
  /\ pc' = "idle"
  /\ UNCHANGED <<code, theirs, remote, ahead, unticked, clone, run, runs, aborts>>

ReplaceLabels ==
  /\ pc = "label"
  /\ label' = target
  /\ pc' = "idle"
  /\ UNCHANGED <<code, theirs, remote, ahead, unticked, clone, run, runs, aborts>>

(* The process dies, or a request, the model or the sandbox raises, which    *)
(* leaves the implementation emptied if it does so in the Red phase, and     *)
(* fixes in the tree if it does so later.                                    *)
Abort ==
  /\ pc # "idle"
  /\ aborts < MaxAborts
  /\ aborts' = aborts + 1
  /\ dirty' \in IF pc = "test" THEN BOOLEAN ELSE {dirty}
  /\ pc' = "idle"
  /\ UNCHANGED <<code, github, local, merging, unmerged, markers, run, runs>>

(***************************************************************************)
(* What others do meanwhile.                                               *)
(***************************************************************************)

AdvanceBase(S) ==
  /\ Len(theirs) < MaxBase
  /\ theirs' = Append(theirs, S)
  /\ UNCHANGED <<code, remote, ahead, label, unticked, clone, pc, run, runs, aborts>>

PushByOthers ==
  /\ ~ahead
  /\ ahead' = TRUE
  /\ UNCHANGED <<code, theirs, remote, label, unticked, clone, pc, run, runs, aborts>>

TickLast ==
  /\ unticked
  /\ unticked' = FALSE
  /\ UNCHANGED <<code, theirs, remote, ahead, label, clone, pc, run, runs, aborts>>

LabelConflict ==
  /\ label # "merge-conflict"
  /\ label' = "merge-conflict"
  /\ UNCHANGED <<code, theirs, remote, ahead, unticked, clone, pc, run, runs, aborts>>

ResolverStep ==
  \/ Begin \/ NothingUnticked \/ ItemFound \/ Fetch
  \/ MergeClean \/ MergeConflicts \/ MergeRefused
  \/ ConflictsFound \/ MergeAborted \/ Hydrate \/ BudgetExceeded
  \/ \E S \in SUBSET Files : Resolve(S)
  \/ StageAll \/ CommitMerge \/ TestsPass \/ FixPasses \/ TestsFail
  \/ Push \/ PushRejected \/ ReplaceLabels

ResolverNext ==
  \/ ResolverStep
  \/ Abort \/ AbortWriting
  \/ \E S \in SUBSET Files : AdvanceBase(S)
  \/ PushByOthers \/ TickLast \/ LabelConflict

ResolverSpec == ResolverInit /\ [][ResolverNext]_resolverVars

-----------------------------------------------------------------------------
Commit == [base : 0 .. MaxBase, markers : SUBSET Files, unproved : BOOLEAN]

ResolverTypeOK ==
  /\ theirs \in Seq(SUBSET Files) /\ Len(theirs) <= MaxBase
  /\ remote \in Commit /\ local \in Commit
  /\ ahead \in BOOLEAN /\ unticked \in BOOLEAN
  /\ label \in {"merge-conflict", "needs-review", "needs-help"}
  /\ merging \in 0 .. Len(theirs)
  /\ unmerged \subseteq Files /\ markers \subseteq Files
  /\ dirty \in BOOLEAN
  /\ \A k \in DOMAIN code :
       /\ code[k].of.merging \in 1 .. Len(theirs) /\ code[k].of.dirty \in BOOLEAN
       /\ code[k].of.markers \subseteq Files /\ code[k].whole \in BOOLEAN
  /\ pc \in {"idle", "comments", "fetch", "merge", "detect", "context", "model",
             "stage", "commit", "test", "push", "label"}
  /\ fetched \in 0 .. Len(theirs)
  /\ target \in {"needs-review", "needs-help"}
  /\ resolved \in BOOLEAN /\ resumed \in BOOLEAN
  /\ runs \in 0 .. MaxRuns /\ aborts \in 0 .. MaxAborts

(* A pull request sent to review has what the run has fetched of the base    *)
(* branch, unless the run has finished the merge of an earlier one, of an    *)
(* older base.                                                               *)
ReviewHasBase ==
  [][label' = "needs-review" /\ label # label' =>
       remote.base >= fetched \/ resumed]_resolverVars

(* What a run pushes after it has resolved conflicts has passed the tests as *)
(* a whole, what earlier runs have left in it included, or what it lacks to  *)
(* pass them is a fix that is in the working tree of the clone and nowhere   *)
(* else.  Without a model for fixes it has passed.                           *)
ResolutionPushedIsTested ==
  [][remote' # remote /\ resolved => ~remote'.unproved \/ (MayFix /\ dirty)]_resolverVars

(* The code the model is shown is that of the merge it is asked to resolve,  *)
(* unless a run has been interrupted: a merge given up is followed by one    *)
(* from the same commit and, if the same files are in conflict, by its       *)
(* context.                                                                 *)
ContextIsOfMerge ==
  [][pc = "context" /\ pc' = "model" /\ aborts = 0 => code'[Here] = Whole(InTree)]_resolverVars
=============================================================================
