---------------------------- MODULE CoderWorker ----------------------------
(***************************************************************************)
(* CoderWorker.handle_issue (coder.py) with the git operations of          *)
(* WorkspaceManager (workspace_manager.py), on the one clone all runs      *)
(* share, and with the part of GitHub it writes to.                        *)
(*                                                                         *)
(* The content of a tree or commit is the set of patches it has traces of: *)
(* a patch is what the model produced for an item, numbered, and different *)
(* patches leave different traces.  The inner loop is reduced to what      *)
(* module InnerLoop shows of it: it may write one more patch, a fix, into  *)
(* the tree, and if it succeeds the tree it leaves has passed.  The daemon *)
(* runs one worker at a time; a run that raises and a process that dies    *)
(* leave the same things behind: the clone, the caches of context and      *)
(* GitHub as they are.                                                     *)
(***************************************************************************)
EXTENDS Naturals, Functions, ContextCache

CONSTANTS
  Issues,       \* issue numbers with a checklist
  N,            \* every checklist has the items 1 .. N
  Profiles,     \* "plain", or the model names of ghost runs
  MaxRetries,   \* CoderWorker._max_retries
  MaxPatches,   \* bound: different patches the model produces for an item
  HasFixModel,  \* TRUE if the inner loop can fix (InnerLoop.HasFixModel)
  MaxRuns,      \* bound: runs
  MaxAborts     \* bound: crashes and requests that fail

Indexes == 1 .. N
Branch == [issue : Issues, index : Indexes, profile : Profiles]
Main == [issue |-> 0, index |-> 0, profile |-> "main"]
Patch == [issue : Issues, index : Indexes, number : 0 .. MaxPatches]

ASSUME CoderConstants ==
  /\ Issues \subseteq Nat \ {0}
  /\ N \in Nat \ {0} /\ MaxRetries \in Nat \ {0}
  /\ MaxPatches \in Nat /\ MaxRuns \in Nat /\ MaxAborts \in Nat
  /\ HasFixModel \in BOOLEAN

VARIABLES
  \* the clone
  branches,  \* content of the last commit of every local branch, a function
  head,      \* the branch checked out
  tree,      \* content of the working tree
  \* the caches, see ContextCache
  rules,     \* of ADRLoader
  code,      \* of ContextHydrator
  \* GitHub
  origin,    \* content of every branch pushed, a function
  pulls,     \* pull requests: head, base, and whether labelled for review
  label,     \* "ready" or "needs-help", for every issue
  box,       \* the checklist of every issue
  \* the run
  pc,        \* the step the run is at, "idle" between runs
  issue,     \* issue_number
  index,     \* checklist_item.item_index
  profile,   \* "plain" or the model of a ghost run
  copy,      \* comment_body
  base,      \* base_branch
  attempt,   \* attempt of the loop
  \* history and bounds
  passed,    \* the trees the inner loop has passed
  runs,
  aborts

clone == <<branches, head, tree>>
caches == <<rules, code>>
github == <<origin, pulls, label, box>>
run == <<issue, index, profile, copy, base, attempt>>
counts == <<runs, aborts>>
coderVars == <<clone, caches, github, pc, run, passed, counts>>

Mine == [issue |-> issue, index |-> index, profile |-> profile]

(* Patch 0 stands for the files of an item that the Red phase has emptied. *)
Emptied == [issue |-> issue, index |-> index, number |-> 0]

Unchecked(i) == {k \in Indexes : box[i][k] = " "}
FirstOf(S) == CHOOSE k \in S : \A j \in S : k <= j

Put(f, x, y) == [z \in DOMAIN f \cup {x} |-> IF z = x THEN y ELSE f[z]]

CoderInit ==
  /\ branches = [b \in {Main} |-> {}]
  /\ head = Main
  /\ tree = {}
  /\ rules = <<>> /\ code = <<>>
  /\ origin = [b \in {Main} |-> {}]
  /\ pulls = {}
  /\ label = [i \in Issues |-> "ready"]
  /\ box = [i \in Issues |-> [k \in Indexes |-> " "]]
  /\ pc = "idle"
  /\ issue \in Issues
  /\ index = 1
  /\ profile \in Profiles
  /\ copy = [k \in Indexes |-> " "]
  /\ base = Main
  /\ attempt = 1
  /\ passed = {}
  /\ runs = 0
  /\ aborts = 0

(***************************************************************************)
(* The start of a run.                                                     *)
(***************************************************************************)

(* get_issue; an issue that is not ready is refused. *)
Begin(i, p) ==
  /\ pc = "idle"
  /\ runs < MaxRuns
  /\ label[i] = "ready"
  /\ runs' = runs + 1
  /\ pc' = "comments"
  /\ issue' = i
  /\ profile' = p
  /\ attempt' = 1
  /\ UNCHANGED <<clone, caches, github, index, copy, base, passed, aborts>>

(* The run raises: ValueError, CalledProcessError, HTTPStatusError. *)
Raise ==
  /\ pc' = "idle"
  /\ UNCHANGED <<run, passed, counts>>

(* list_issue_comments, and the first unchecked item if there is one. *)
NothingToDo ==
  /\ pc = "comments"
  /\ Unchecked(issue) = {}
  /\ Raise
  /\ UNCHANGED <<clone, caches, github>>

SelectItem ==
  /\ pc = "comments"
  /\ Unchecked(issue) # {}
  /\ copy' = box[issue]
  /\ index' = FirstOf(Unchecked(issue))
  /\ pc' = "branch"
  /\ UNCHANGED <<clone, caches, github, issue, profile, base, attempt, passed, counts>>

(* git checkout -b: from the branch the last run left checked out, with the *)
(* working tree as it is.                                                   *)
CreateBranch ==
  /\ pc = "branch"
  /\ Mine \notin DOMAIN branches
  /\ base' = head
  /\ branches' = Put(branches, Mine, branches[head])
  /\ head' = Mine
  /\ pc' = "rules"
  /\ UNCHANGED <<caches, tree, github, issue, index, profile, copy, attempt, passed, counts>>

(* ... which fails if an earlier run has made the branch. *)
BranchExists ==
  /\ pc = "branch"
  /\ Mine \in DOMAIN branches
  /\ Raise
  /\ UNCHANGED <<clone, caches, github>>

(***************************************************************************)
(* The context, put together once for all attempts of the run.             *)
(***************************************************************************)

(* The branch made last is at the commit it was made from.  Commits of the  *)
(* clone add to each other, so that the content tells the commit.  All      *)
(* items are taken to name the same files, or none: entries are then shared *)
(* as much as they can be.                                                  *)
Here == Key(branches[head], {})

(* ADRLoader.build_context: what cannot be parsed raises. *)
ReadRules ==
  /\ pc = "rules"
  /\ Look(rules, Here, tree).whole
  /\ rules' = Keep(rules, Here, Whole(tree))
  /\ pc' = "context"
  /\ UNCHANGED <<clone, code, github, run, passed, counts>>

RulesTorn ==
  /\ pc = "rules"
  /\ ~Look(rules, Here, tree).whole
  /\ Raise
  /\ UNCHANGED <<clone, caches, github>>

(* The rules, or the item and the rules, exceed the budget of tokens. *)
BudgetExceeded ==
  /\ pc = "context"
  /\ Raise
  /\ UNCHANGED <<clone, caches, github>>

(* ContextHydrator.hydrate: any text will do, a torn one too. *)
Hydrate ==
  /\ pc = "context"
  /\ code' = Keep(code, Here, Whole(tree))
  /\ pc' = "generate"
  /\ UNCHANGED <<clone, rules, github, run, passed, counts>>

(* The architect and the reviewer read the same clone between the runs of    *)
(* the coder, by way of the same caches.                                    *)
ReadByOthers ==
  /\ pc = "idle"
  /\ rules' = Keep(rules, Here, Whole(tree))
  /\ code' = Keep(code, Here, Whole(tree))
  /\ UNCHANGED <<clone, github, pc, run, passed, counts>>

(* The process dies while it writes an entry. *)
AbortWriting ==
  /\ pc \in {"rules", "context"}
  /\ aborts < MaxAborts
  /\ IF pc = "rules" THEN /\ rules' = Keep(rules, Here, Torn(tree))
                          /\ code' = code
                     ELSE /\ code' = Keep(code, Here, Torn(tree))
                          /\ rules' = rules
  /\ aborts' = aborts + 1
  /\ pc' = "idle"
  /\ UNCHANGED <<clone, github, run, passed, runs>>

(***************************************************************************)
(* The attempts.                                                           *)
(***************************************************************************)

WritePatch(n) ==
  tree' = tree \cup {[issue |-> issue, index |-> index, number |-> n]}

(* _generate_code_patch, _validate_code_patch and _apply_code_patch. *)
Generate(n) ==
  /\ pc = "generate"
  /\ WritePatch(n)
  /\ pc' = "commit"
  /\ UNCHANGED <<caches, branches, head, github, run, passed, counts>>

CommitTree == branches' = [branches EXCEPT ![head] = tree]

(* git add . && git commit, which fails if there is nothing to commit. *)
Commit ==
  /\ pc = "commit"
  /\ tree # branches[head]
  /\ CommitTree
  /\ pc' = "inner loop"
  /\ UNCHANGED <<caches, head, tree, github, run, passed, counts>>

NothingToCommit ==
  /\ pc \in {"commit", "commit fix"}
  /\ tree = branches[head]
  /\ Raise
  /\ UNCHANGED <<clone, caches, github>>

(* The Red phase empties files of the patch for the time of a test run.     *)
EmptyFiles ==
  /\ pc = "inner loop"
  /\ tree' = tree \cup {Emptied}
  /\ pc' = "red"
  /\ UNCHANGED <<caches, branches, head, github, run, passed, counts>>

RestoreFiles ==
  /\ pc = "red"
  /\ tree' = branches[head]
  /\ pc' = "inner loop"
  /\ UNCHANGED <<caches, branches, head, github, run, passed, counts>>

(* The inner loop writes fixes as long as it has a model, passes or fails. *)
FixPatch(n) ==
  /\ pc \in {"inner loop", "fixed"}
  /\ HasFixModel
  /\ WritePatch(n)
  /\ pc' = "fixed"
  /\ UNCHANGED <<caches, branches, head, github, run, passed, counts>>

(* A slip, not the code: the fix of the inner loop is not committed. *)
LoopPassesUnfixed ==
  /\ pc \in {"inner loop", "fixed"}
  /\ passed' = passed \cup {tree}
  /\ pc' = "push"
  /\ UNCHANGED <<clone, caches, github, run, counts>>

LoopPasses ==
  /\ pc \in {"inner loop", "fixed"}
  /\ passed' = passed \cup {tree}
  /\ pc' = IF pc = "fixed" THEN "commit fix" ELSE "push"
  /\ UNCHANGED <<clone, caches, github, run, counts>>

(* A slip, not the code: one attempt too many. *)
LoopFailsOnceMore ==
  /\ pc \in {"inner loop", "fixed"}
  /\ attempt <= MaxRetries
  /\ attempt' = attempt + 1
  /\ pc' = "generate"
  /\ UNCHANGED <<clone, caches, github, issue, index, profile, copy, base, passed, counts>>

LoopFails ==
  /\ pc \in {"inner loop", "fixed"}
  /\ attempt < MaxRetries
  /\ attempt' = attempt + 1
  /\ pc' = "generate"
  /\ UNCHANGED <<clone, caches, github, issue, index, profile, copy, base, passed, counts>>

GiveUp ==
  /\ pc \in {"inner loop", "fixed"}
  /\ attempt = MaxRetries
  /\ pc' = "flag"
  /\ UNCHANGED <<clone, caches, github, run, passed, counts>>

CommitFix ==
  /\ pc = "commit fix"
  /\ tree # branches[head]
  /\ CommitTree
  /\ pc' = "push"
  /\ UNCHANGED <<caches, head, tree, github, run, passed, counts>>

(***************************************************************************)
(* After the tests have passed.                                            *)
(***************************************************************************)

Push ==
  /\ pc = "push"
  /\ origin' = Put(origin, Mine, branches[Mine])
  /\ pc' = "pull"
  /\ UNCHANGED <<clone, caches, pulls, label, box, run, passed, counts>>

(* GitHub takes a pull request between two different branches that it has,  *)
(* once.                                                                    *)
Accepted ==
  /\ base \in DOMAIN origin \ {Mine}
  /\ \A p \in pulls : p.head # Mine \/ p.base # base

OpenPullRequest ==
  /\ pc = "pull"
  /\ Accepted
  /\ pulls' = pulls \cup {[head |-> Mine, base |-> base, review |-> FALSE]}
  /\ pc' = "label pull"
  /\ UNCHANGED <<clone, caches, origin, label, box, run, passed, counts>>

PullRequestRefused ==
  /\ pc = "pull"
  /\ ~Accepted
  /\ Raise
  /\ UNCHANGED <<clone, caches, github>>

(* A slip, not the code: the box is ticked before the label is set. *)
LabelAfterTick ==
  /\ pc = "label pull"
  /\ box' = [box EXCEPT ![issue] = [copy EXCEPT ![index] = "x"]]
  /\ pc' = "tick"
  /\ UNCHANGED <<clone, caches, origin, pulls, label, run, passed, counts>>

LabelPullRequest ==
  /\ pc = "label pull"
  /\ pulls' = {[p EXCEPT !.review = @ \/ p.head = Mine] : p \in pulls}
  /\ pc' = "tick"
  /\ UNCHANGED <<clone, caches, origin, label, box, run, passed, counts>>

(* update_issue_comment with the body that was read at the start. *)
WriteBox(mark) == box' = [box EXCEPT ![issue] = [copy EXCEPT ![index] = mark]]

Tick ==
  /\ pc = "tick"
  /\ WriteBox("x")
  /\ pc' = "idle"
  /\ UNCHANGED <<clone, caches, origin, pulls, label, run, passed, counts>>

(***************************************************************************)
(* After the last attempt has failed.                                      *)
(***************************************************************************)

Flag ==
  /\ pc = "flag"
  /\ WriteBox("!")
  /\ pc' = "ask"
  /\ UNCHANGED <<clone, caches, origin, pulls, label, run, passed, counts>>

AskForHelp ==
  /\ pc = "ask"
  /\ label' = [label EXCEPT ![issue] = "needs-help"]
  /\ pc' = "idle"
  /\ UNCHANGED <<clone, caches, origin, pulls, box, run, passed, counts>>

(* A person has helped. *)
Relabel(i) ==
  /\ label[i] = "needs-help"
  /\ label' = [label EXCEPT ![i] = "ready"]
  /\ UNCHANGED <<clone, caches, origin, pulls, box, pc, run, passed, counts>>

(* The process dies, or a request or the model raises. *)
Abort ==
  /\ pc # "idle"
  /\ aborts < MaxAborts
  /\ aborts' = aborts + 1
  /\ pc' = "idle"
  /\ UNCHANGED <<clone, caches, github, run, passed, runs>>

RunStep ==
  \/ NothingToDo \/ SelectItem \/ CreateBranch \/ BranchExists
  \/ ReadRules \/ RulesTorn \/ BudgetExceeded \/ Hydrate
  \/ \E n \in 1 .. MaxPatches : Generate(n) \/ FixPatch(n)
  \/ Commit \/ NothingToCommit \/ EmptyFiles \/ RestoreFiles
  \/ LoopPasses \/ LoopFails \/ GiveUp \/ CommitFix
  \/ Push \/ OpenPullRequest \/ PullRequestRefused \/ LabelPullRequest \/ Tick
  \/ Flag \/ AskForHelp

CoderNext ==
  \/ \E i \in Issues : Relabel(i) \/ \E p \in Profiles : Begin(i, p)
  \/ RunStep
  \/ ReadByOthers
  \/ Abort \/ AbortWriting

CoderSpec == CoderInit /\ [][CoderNext]_coderVars

-----------------------------------------------------------------------------
Steps ==
  {"idle", "comments", "branch", "rules", "context", "generate", "commit", "inner loop", "red", "fixed",
   "commit fix", "push", "pull", "label pull", "tick", "flag", "ask"}

CoderTypeOK ==
  /\ DOMAIN branches \subseteq Branch \cup {Main}
  /\ \A b \in DOMAIN branches : branches[b] \subseteq Patch
  /\ head \in DOMAIN branches
  /\ tree \subseteq Patch
  /\ \A e \in Range(rules) \cup Range(code) : e.of \subseteq Patch /\ e.whole \in BOOLEAN
  /\ DOMAIN origin \subseteq DOMAIN branches
  /\ \A b \in DOMAIN origin : origin[b] \subseteq Patch
  /\ pulls \subseteq [head : Branch, base : Branch \cup {Main}, review : BOOLEAN]
  /\ label \in [Issues -> {"ready", "needs-help"}]
  /\ box \in [Issues -> [Indexes -> {" ", "x", "!"}]]
  /\ pc \in Steps
  /\ issue \in Issues /\ index \in Indexes /\ profile \in Profiles
  /\ copy \in [Indexes -> {" ", "x", "!"}]
  /\ base \in DOMAIN branches
  /\ attempt \in 1 .. MaxRetries
  /\ passed \subseteq SUBSET Patch
  /\ runs \in 0 .. MaxRuns /\ aborts \in 0 .. MaxAborts

(* What is pushed is, file by file, a tree the inner loop has passed, also   *)
(* when the tree holds what other runs left behind or fixes were made.       *)
PushedIsTested == \A b \in DOMAIN origin \ {Main} : origin[b] \in passed

(* A pull request proposes changes for its own item only: what failed or     *)
(* interrupted runs of other items left in the shared clone is committed to  *)
(* the branches of later runs, but never becomes part of a pull request.     *)
PullRequestHoldsOwnItem ==
  \A p \in pulls : \A c \in origin[p.head] \ origin[p.base] :
    c.issue = p.head.issue /\ c.index = p.head.index

(* What a run shows the model, code and rules, has at least all that is      *)
(* committed at HEAD and at most what is in the working tree, unless what it *)
(* shows of the code was torn when a process died writing it; the rules are  *)
(* never torn.  As long as no run has been interrupted it is the tree.       *)
ContextIsCurrent ==
  [][pc = "context" /\ pc' = "generate" =>
       LET shown == code'[Here]
           told == rules[Here]
           Fits(content) == branches[head] \subseteq content /\ content \subseteq tree
       IN /\ told.whole /\ Fits(told.of)
          /\ ~shown.whole \/ Fits(shown.of)
          /\ aborts = 0 => shown = Whole(tree) /\ told = Whole(tree)]_coderVars

(* A ticked item is in review: its pull request is open and labelled.        *)
TickedIsInReview ==
  \A i \in Issues, k \in Indexes :
    box[i][k] = "x" => \E p \in pulls : p.review /\ p.head.issue = i /\ p.head.index = k
=============================================================================
