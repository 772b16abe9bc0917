-------------------------- MODULE CoderWorkerProofs --------------------------
(***************************************************************************)
(* Proofs about CoderWorker, for any issues, items, profiles, retries,     *)
(* patches, runs and interruptions: type correctness, PushedIsTested,      *)
(* TickedIsInReview, PullRequestHoldsOwnItem and ContextIsCurrent.         *)
(***************************************************************************)
EXTENDS CoderWorker, Sequences, WellFoundedInduction, TLAPS

-----------------------------------------------------------------------------
(* The steps of a run between its first use of its branch and the push ...   *)
Unpushed ==
  {"rules", "context", "generate", "commit", "inner loop", "red", "fixed", "commit fix", "push",
   "flag", "ask"}

(* ... and those after the push. *)
Pushed == {"pull", "label pull", "tick"}

(* A run is on a branch of its own, and pushes it once. *)
HeadInv ==
  /\ pc \in Unpushed \cup Pushed => head = Mine
  /\ pc \in Unpushed => Mine \notin DOMAIN origin
  /\ pc \in Pushed => Mine \in DOMAIN origin

(* What the inner loop has passed is what is committed when it is pushed.    *)
TestInv ==
  /\ branches[head] \subseteq tree
  /\ pc \in {"inner loop", "push"} => tree = branches[head]
  /\ pc \in {"commit fix", "push"} => tree \in passed
  /\ PushedIsTested

(* The copy of the checklist is current until it is written back, and a run  *)
(* that ticks an item has a labelled pull request of its branch.            *)
ItemInv ==
  /\ pc \in {"branch"} \cup (Unpushed \ {"ask"}) \cup Pushed => copy = box[issue]
  /\ pc = "label pull" => \E p \in pulls : p.head = Mine
  /\ pc = "tick" => \E p \in pulls : p.head = Mine /\ p.review
  /\ TickedIsInReview

(* A branch that has been pushed leaves nothing uncommitted or unpushed      *)
(* behind, so that a run which starts from it adds only its own patches;     *)
(* what a run leaves that starts from any other branch is never accepted as  *)
(* a pull request.                                                          *)
OwnInv ==
  /\ head \in DOMAIN origin => tree = branches[head] /\ origin[head] = branches[head]
  /\ pc \in Unpushed \cup Pushed /\ base \in DOMAIN origin =>
       \A c \in tree \ origin[base] : c.issue = issue /\ c.index = index
  /\ \A p \in pulls : p.head \in DOMAIN origin /\ p.base \in DOMAIN origin
  /\ PullRequestHoldsOwnItem

(* The steps at which the tree is as the caches have seen it. *)
Settled == {"idle", "comments", "branch", "rules", "context"}

Entry == [of : SUBSET Patch, whole : BOOLEAN]

(* The content of HEAD only grows, so that the key of an entry is of HEAD or *)
(* of one of its ancestors; as long as it is of HEAD, the entry lies between *)
(* what is committed and what is in the tree, and without interruptions it   *)
(* is the tree when a run begins.  HEAD is at content c, the tree holds t,   *)
(* n runs have been interrupted and the run is at step s.                   *)
Sound(cache, c, t, n, s) ==
  \A k \in DOMAIN cache :
    /\ cache[k] \in Entry
    /\ k = Key(k[1], {})
    /\ k[1] \subseteq c /\ k[1] \subseteq cache[k].of
    /\ k = Key(c, {}) => cache[k].of \subseteq t
    /\ n = 0 => cache[k] = Whole(cache[k].of)
    /\ n = 0 /\ s \in Settled /\ k = Key(c, {}) => cache[k].of = t

(* Emptied files are only taken back where HEAD has no entry yet. *)
CacheInv ==
  /\ Sound(rules, branches[head], tree, aborts, pc)
  /\ Sound(code, branches[head], tree, aborts, pc)
  /\ pc \in (Unpushed \ {"rules", "context", "generate", "commit"}) \cup Pushed =>
       Here \notin DOMAIN rules \cup DOMAIN code
  /\ pc = "context" => Here \in DOMAIN rules /\ rules[Here].whole

CoderInv == CoderTypeOK /\ HeadInv /\ TestInv /\ ItemInv /\ OwnInv /\ CacheInv

-----------------------------------------------------------------------------
(* A nonempty set of item numbers has a first. *)
LEMMA FirstOfIsFirst ==
  ASSUME NEW S, S \subseteq Nat, S # {}
  PROVE  FirstOf(S) \in S
<1> DEFINE R == {ss \in Nat \X Nat : ss[1] < ss[2]}
<1>1. IsWellFoundedOn(R, S)
  <2>1. IsWellFoundedOn(R, Nat)
    BY NatLessThanWellFounded, Zenon DEF OpToRel
  <2>2. QED
    BY <2>1, IsWellFoundedOnSubset
<1>2. \E x \in S : \A y \in S : ~(<<y, x>> \in R)
  BY <1>1, WFMin, Zenon
<1>3. PICK x \in S : \A y \in S : ~(<<y, x>> \in R)
  BY <1>2
<1>4. ASSUME NEW y \in S PROVE x <= y
  <2>1. <<y, x>> \in Nat \X Nat /\ ~(<<y, x>> \in R)
    BY <1>3
  <2>2. ~(y < x)
    BY <2>1
  <2>3. QED
    BY <2>2
<1>5. QED
  BY <1>4 DEF FirstOf

(* Put changes one argument of a function, or adds it. *)
LEMMA PutFacts ==
  ASSUME NEW f, NEW x, NEW y
  PROVE  /\ DOMAIN Put(f, x, y) = DOMAIN f \cup {x}
         /\ Put(f, x, y)[x] = y
         /\ \A z \in DOMAIN f \ {x} : Put(f, x, y)[z] = f[z]
BY DEF Put

(* Keep adds an entry under a key that has none, and changes none. *)
LEMMA KeepFacts ==
  ASSUME NEW cache, NEW key, NEW entry
  PROVE  /\ DOMAIN Keep(cache, key, entry) = DOMAIN cache \cup {key}
         /\ \A k \in DOMAIN cache : Keep(cache, key, entry)[k] = cache[k]
         /\ key \notin DOMAIN cache => Keep(cache, key, entry)[key] = entry
BY DEF Keep

-----------------------------------------------------------------------------
(* The entries of a cache, for the type invariant. *)
Entries(cache) == \A e \in Range(cache) : e.of \subseteq Patch /\ e.whole \in BOOLEAN

(* What is added to a cache has the type of an entry if the content has its. *)
LEMMA EntriesKept ==
  ASSUME NEW cache, NEW key, NEW content, Entries(cache), content \subseteq Patch
  PROVE  Entries(Keep(cache, key, Whole(content))) /\ Entries(Keep(cache, key, Torn(content)))
<1>1. \A k \in DOMAIN cache : cache[k].of \subseteq Patch /\ cache[k].whole \in BOOLEAN
  BY Zenon DEF Entries, Range
<1>2. ASSUME NEW e, e \in {Whole(content), Torn(content)} PROVE Entries(Keep(cache, key, e))
  <2>1. e.of \subseteq Patch /\ e.whole \in BOOLEAN
    <3>1. e.of = content /\ (e.whole = TRUE \/ e.whole = FALSE)
      BY <1>2 DEF Whole, Torn
    <3>2. QED
      BY <3>1, Zenon
  <2>2. \A k \in DOMAIN Keep(cache, key, e) :
          Keep(cache, key, e)[k] = e \/ (k \in DOMAIN cache /\ Keep(cache, key, e)[k] = cache[k])
    BY DEF Keep
  <2>3. ASSUME NEW d \in Range(Keep(cache, key, e))
        PROVE  d.of \subseteq Patch /\ d.whole \in BOOLEAN
    <3>1. PICK k \in DOMAIN Keep(cache, key, e) : d = Keep(cache, key, e)[k]
      BY Zenon DEF Range
    <3>2. d = e \/ (k \in DOMAIN cache /\ d = cache[k])
      BY <2>2, <3>1, Zenon
    <3>3. QED
      BY <1>1, <2>1, <3>2, Zenon
  <2>4. QED
    BY <2>3, Zenon DEF Entries
<1>3. QED
  BY <1>2

PullType == [head : Branch, base : Branch \cup {Main}, review : BOOLEAN]

(* The type invariant, with the part about the caches by cache. *)
TypeButCaches ==
  /\ DOMAIN branches \subseteq Branch \cup {Main}
  /\ \A b \in DOMAIN branches : branches[b] \subseteq Patch
  /\ head \in DOMAIN branches
  /\ tree \subseteq Patch
  /\ DOMAIN origin \subseteq DOMAIN branches
  /\ \A b \in DOMAIN origin : origin[b] \subseteq Patch
  /\ pulls \subseteq PullType
  /\ label \in [Issues -> {"ready", "needs-help"}]
  /\ box \in [Issues -> [Indexes -> {" ", "x", "!"}]]
  /\ pc \in Steps
  /\ issue \in Issues /\ index \in Indexes /\ profile \in Profiles
  /\ copy \in [Indexes -> {" ", "x", "!"}]
  /\ base \in DOMAIN branches
  /\ attempt \in 1 .. MaxRetries
  /\ passed \subseteq SUBSET Patch
  /\ runs \in 0 .. MaxRuns /\ aborts \in 0 .. MaxAborts

(* It says the same. *)
LEMMA TypeSplit == CoderTypeOK <=> TypeButCaches /\ Entries(rules) /\ Entries(code)
BY Zenon DEF CoderTypeOK, TypeButCaches, PullType, Entries

(* The start has the types. *)
LEMMA CoderInitType == CoderInit => TypeButCaches /\ Entries(rules) /\ Entries(code)
<1> SUFFICES ASSUME CoderInit PROVE TypeButCaches /\ Entries(rules) /\ Entries(code)
  OBVIOUS
<1>1. TypeButCaches
  <2>1. DOMAIN branches = {Main} /\ DOMAIN origin = {Main} /\ head = Main /\ base = Main
    BY DEF CoderInit
  <2>2. branches[Main] = {} /\ origin[Main] = {} /\ tree = {} /\ pulls = {}
    BY DEF CoderInit
  <2>3. /\ label \in [Issues -> {"ready", "needs-help"}]
        /\ box \in [Issues -> [Indexes -> {" ", "x", "!"}]]
        /\ copy \in [Indexes -> {" ", "x", "!"}]
        /\ passed = {} /\ pc \in Steps
    BY DEF CoderInit, Steps
  <2>4. /\ issue \in Issues /\ profile \in Profiles /\ index = 1 /\ attempt = 1
        /\ runs = 0 /\ aborts = 0
    BY Zenon DEF CoderInit
  <2>5. /\ index \in Indexes /\ attempt \in 1 .. MaxRetries
        /\ runs \in 0 .. MaxRuns /\ aborts \in 0 .. MaxAborts
    BY CoderConstants, <2>4 DEF Indexes
  <2>6. QED
    BY <2>1, <2>2, <2>3, <2>4, <2>5 DEF TypeButCaches
<1>2. Entries(rules) /\ Entries(code)
  <2>1. rules = <<>> /\ code = <<>>
    BY Zenon DEF CoderInit
  <2>2. DOMAIN rules = {} /\ DOMAIN code = {}
    BY <2>1
  <2>3. QED
    BY <2>2, Zenon DEF Entries, Range
<1>3. QED
  BY <1>1, <1>2

(* The caches are written from the tree. *)
LEMMA CachesType ==
  ASSUME TypeButCaches, Entries(rules), Entries(code), [CoderNext]_coderVars
  PROVE  Entries(rules)' /\ Entries(code)'
<1> DEFINE Kept(c) == {Keep(c, Here, Whole(tree)), Keep(c, Here, Torn(tree)), c}
<1>1. tree \subseteq Patch
  BY DEF TypeButCaches
<1>2. rules' \in Kept(rules) /\ code' \in Kept(code)
  BY DEF CoderNext, RunStep, coderVars, clone, caches, github, run, counts, Raise,
         Begin, NothingToDo, SelectItem, CreateBranch, BranchExists, ReadRules, RulesTorn,
         BudgetExceeded, Hydrate, ReadByOthers, AbortWriting, Generate, FixPatch, Commit,
         NothingToCommit, EmptyFiles, RestoreFiles, LoopPasses, LoopFails, GiveUp, CommitFix,
         Push, OpenPullRequest, PullRequestRefused, LabelPullRequest, Tick, Flag, AskForHelp,
         Relabel, Abort
<1>3. \A c \in Kept(rules) : Entries(c)
  BY <1>1, EntriesKept, Zenon
<1>4. \A c \in Kept(code) : Entries(c)
  BY <1>1, EntriesKept, Zenon
<1>5. Entries(rules') /\ Entries(code')
  BY <1>2, <1>3, <1>4, Zenon
<1>6. QED
  BY <1>5, Zenon DEF Entries

(* The branch of a run and the patches the model writes for its item. *)
LEMMA MineType ==
  ASSUME TypeButCaches
  PROVE  /\ Mine \in Branch
         /\ \A n \in 0 .. MaxPatches : [issue |-> issue, index |-> index, number |-> n] \in Patch
         /\ Emptied \in Patch
<1>1. issue \in Issues /\ index \in Indexes /\ profile \in Profiles
  BY DEF TypeButCaches
<1>2. 0 \in 0 .. MaxPatches
  BY CoderConstants
<1>3. QED
  BY <1>1, <1>2 DEF Mine, Branch, Patch, Emptied

(* Actions that change only the step the run is at, or nothing. *)
LeaveAlone ==
  NothingToDo \/ BranchExists \/ ReadRules \/ RulesTorn \/ BudgetExceeded \/ Hydrate
  \/ NothingToCommit \/ GiveUp \/ PullRequestRefused \/ ReadByOthers \/ UNCHANGED coderVars

(* The types of the variables other than the caches, for the clone. *)
LEMMA CloneType ==
  ASSUME TypeButCaches,
         \/ CreateBranch \/ Commit \/ CommitFix \/ EmptyFiles \/ RestoreFiles
         \/ \E n \in 1 .. MaxPatches : Generate(n) \/ FixPatch(n)
         \/ LeaveAlone
  PROVE  TypeButCaches'
<1>0. /\ Mine \in Branch
      /\ \A n \in 0 .. MaxPatches : [issue |-> issue, index |-> index, number |-> n] \in Patch
      /\ Emptied \in Patch
  BY MineType
<1>1. CASE CreateBranch
  <2>1. /\ DOMAIN branches' = DOMAIN branches \cup {Mine}
        /\ branches'[Mine] = branches[head]
        /\ \A b \in DOMAIN branches \ {Mine} : branches'[b] = branches[b]
    <3>1. branches' = Put(branches, Mine, branches[head])
      BY <1>1 DEF CreateBranch
    <3>2. QED
      BY <3>1 DEF Put
  <2>2. head' = Mine /\ base' = head /\ pc' \in Steps
    BY <1>1 DEF CreateBranch, Steps
  <2>3. QED
    BY <1>0, <1>1, <2>1, <2>2 DEF CreateBranch, TypeButCaches, caches, github, counts
<1>2. CASE Commit \/ CommitFix
  BY <1>2 DEF Commit, CommitFix, CommitTree, TypeButCaches, caches, github, run, counts, Steps
<1>3. CASE EmptyFiles \/ RestoreFiles
  BY <1>0, <1>3 DEF EmptyFiles, RestoreFiles, TypeButCaches, caches, github, run, counts, Steps
<1>4. ASSUME NEW n \in 1 .. MaxPatches, Generate(n) \/ FixPatch(n) PROVE TypeButCaches'
  <2>1. n \in 0 .. MaxPatches
    BY CoderConstants
  <2>2. [issue |-> issue, index |-> index, number |-> n] \in Patch
    BY <1>0, <2>1
  <2>3. tree' \subseteq Patch
    BY <1>4, <2>2 DEF Generate, FixPatch, WritePatch, TypeButCaches
  <2>4. QED
    BY <1>4, <2>3 DEF Generate, FixPatch, TypeButCaches, caches, github, run, counts, Steps
<1>5. CASE LeaveAlone
  BY <1>5 DEF LeaveAlone, TypeButCaches, coderVars, clone, caches, github, run, counts, Raise, Steps,
        NothingToDo, BranchExists, ReadRules, RulesTorn, BudgetExceeded, Hydrate,
        NothingToCommit, GiveUp, PullRequestRefused, ReadByOthers
<1>6. QED
  BY <1>1, <1>2, <1>3, <1>4, <1>5

(* The checklist that is written back. *)
LEMMA WriteBoxType ==
  ASSUME TypeButCaches, NEW mark \in {"x", "!"}, WriteBox(mark)
  PROVE  box' \in [Issues -> [Indexes -> {" ", "x", "!"}]]
BY DEF TypeButCaches, WriteBox

(* The types of the variables other than the caches, for the run and GitHub. *)
LEMMA GitHubType ==
  ASSUME TypeButCaches, HeadInv,
         \/ \E i \in Issues : Relabel(i) \/ \E p \in Profiles : Begin(i, p)
         \/ SelectItem \/ LoopPasses \/ LoopFails \/ Push \/ OpenPullRequest \/ LabelPullRequest
         \/ Tick \/ Flag \/ AskForHelp \/ Abort \/ AbortWriting
  PROVE  TypeButCaches'
<1> USE CoderConstants DEF clone, caches, github, run, counts, Steps
<1>0. Mine \in Branch
  BY MineType
<1>1. ASSUME NEW i \in Issues, Relabel(i) PROVE TypeButCaches'
  BY <1>1 DEF Relabel, TypeButCaches
<1>2. ASSUME NEW i \in Issues, NEW p \in Profiles, Begin(i, p) PROVE TypeButCaches'
  <2>1. runs \in 0 .. MaxRuns /\ runs < MaxRuns /\ runs' = runs + 1 /\ attempt' = 1
    BY <1>2, Zenon DEF Begin, TypeButCaches
  <2>2. runs' \in 0 .. MaxRuns /\ attempt' \in 1 .. MaxRetries
    BY <2>1
  <2>3. QED
    BY <1>2, <2>2 DEF Begin, TypeButCaches
<1>3. CASE SelectItem
  <2>1. Unchecked(issue) \subseteq Nat /\ Unchecked(issue) # {} /\ Unchecked(issue) \subseteq Indexes
    <3>1. Unchecked(issue) \subseteq Indexes
      BY DEF Unchecked
    <3>2. QED
      BY <1>3, <3>1 DEF SelectItem, Indexes
  <2>2. index' \in Indexes
    BY <1>3, <2>1, FirstOfIsFirst DEF SelectItem
  <2>3. QED
    BY <1>3, <2>2 DEF SelectItem, TypeButCaches
<1>4. CASE LoopPasses \/ LoopFails
  <2>1. attempt' \in 1 .. MaxRetries
    <3>1. attempt \in 1 .. MaxRetries
      BY Zenon DEF TypeButCaches
    <3>2. CASE LoopPasses
      BY <3>1, <3>2 DEF LoopPasses
    <3>3. CASE LoopFails
      <4>1. attempt < MaxRetries /\ attempt' = attempt + 1
        BY <3>3, Zenon DEF LoopFails
      <4>2. QED
        BY <3>1, <4>1
    <3>4. QED
      BY <1>4, <3>2, <3>3
  <2>2. passed' \subseteq SUBSET Patch
    BY <1>4 DEF LoopPasses, LoopFails, TypeButCaches
  <2>3. QED
    BY <1>4, <2>1, <2>2 DEF LoopPasses, LoopFails, TypeButCaches
<1>5. CASE Push
  <2>1. Mine \in DOMAIN branches /\ branches[Mine] \subseteq Patch
    BY <1>5 DEF Push, HeadInv, Unpushed, TypeButCaches
  <2>2. /\ DOMAIN origin' = DOMAIN origin \cup {Mine}
        /\ origin'[Mine] = branches[Mine]
        /\ \A b \in DOMAIN origin \ {Mine} : origin'[b] = origin[b]
    <3>1. origin' = Put(origin, Mine, branches[Mine])
      BY <1>5 DEF Push
    <3>2. QED
      BY <3>1 DEF Put
  <2>3. QED
    BY <1>5, <2>1, <2>2 DEF Push, TypeButCaches
<1>6. CASE OpenPullRequest \/ LabelPullRequest
  <2>1. pulls' \subseteq PullType
    <3>1. ASSUME OpenPullRequest PROVE pulls' \subseteq PullType
      <4>1. pulls' = pulls \cup {[head |-> Mine, base |-> base, review |-> FALSE]}
        BY <3>1 DEF OpenPullRequest
      <4>2. base \in Branch \cup {Main} /\ pulls \subseteq PullType
        BY DEF TypeButCaches
      <4>3. [head |-> Mine, base |-> base, review |-> FALSE] \in PullType
        BY <1>0, <4>2 DEF PullType
      <4>4. QED
        BY <4>1, <4>2, <4>3
    <3>2. ASSUME LabelPullRequest PROVE pulls' \subseteq PullType
      BY <3>2 DEF LabelPullRequest, TypeButCaches, PullType
    <3>3. QED
      BY <1>6, <3>1, <3>2
  <2>2. QED
    BY <1>6, <2>1 DEF OpenPullRequest, LabelPullRequest, TypeButCaches
<1>7. CASE Tick \/ Flag
  <2>1. box' \in [Issues -> [Indexes -> {" ", "x", "!"}]]
    BY <1>7, WriteBoxType DEF Tick, Flag
  <2>2. QED
    BY <1>7, <2>1 DEF Tick, Flag, TypeButCaches
<1>8. CASE AskForHelp
  BY <1>8 DEF AskForHelp, TypeButCaches
<1>9. CASE Abort \/ AbortWriting
  <2>1. aborts \in 0 .. MaxAborts /\ aborts < MaxAborts /\ aborts' = aborts + 1
    BY <1>9, Zenon DEF Abort, AbortWriting, TypeButCaches
  <2>2. aborts' \in 0 .. MaxAborts
    BY <2>1
  <2>3. QED
    BY <1>9, <2>2 DEF Abort, AbortWriting, TypeButCaches
<1>10. QED
  BY <1>1, <1>2, <1>3, <1>4, <1>5, <1>6, <1>7, <1>8, <1>9

(* Every step keeps the types, as long as a run is on its branch. *)
LEMMA CoderNextType ==
  ASSUME CoderTypeOK, HeadInv, [CoderNext]_coderVars
  PROVE  CoderTypeOK'
<1>1. TypeButCaches /\ Entries(rules) /\ Entries(code)
  BY TypeSplit
<1>2. Entries(rules)' /\ Entries(code)'
  BY <1>1, CachesType
<1>3. TypeButCaches'
  BY <1>1, CloneType, GitHubType DEF CoderNext, RunStep, LeaveAlone
<1>4. (CoderTypeOK <=> TypeButCaches /\ Entries(rules) /\ Entries(code))'
  BY TypeSplit, PTL
<1>5. QED
  BY <1>2, <1>3, <1>4

-----------------------------------------------------------------------------
(* A branch is made once, by the run that pushes it.                         *)
LEMMA NextHeadInv ==
  ASSUME TypeButCaches, HeadInv, [CoderNext]_coderVars
  PROVE  HeadInv'
<1> USE DEF HeadInv, Unpushed, Pushed, clone, caches, github, run, counts, Mine
<1>1. CASE CreateBranch
  BY <1>1 DEF CreateBranch, TypeButCaches
<1>2. CASE Push
  <2>1. DOMAIN origin' = DOMAIN origin \cup {Mine}
    BY <1>2 DEF Push, Put
  <2>2. QED
    BY <1>2, <2>1 DEF Push
<1>3. CASE \/ ReadRules \/ Hydrate \/ Commit \/ EmptyFiles \/ RestoreFiles
           \/ LoopPasses \/ LoopFails \/ GiveUp \/ CommitFix
           \/ OpenPullRequest \/ LabelPullRequest \/ Flag
  BY <1>3 DEF ReadRules, Hydrate, Commit, EmptyFiles, RestoreFiles, LoopPasses, LoopFails,
              GiveUp, CommitFix, OpenPullRequest, LabelPullRequest, Flag
<1>4. ASSUME NEW n \in 1 .. MaxPatches, Generate(n) \/ FixPatch(n) PROVE HeadInv'
  BY <1>4 DEF Generate, FixPatch
<1>5. CASE \/ NothingToDo \/ SelectItem \/ BranchExists \/ RulesTorn \/ BudgetExceeded
           \/ NothingToCommit \/ PullRequestRefused \/ Tick \/ AskForHelp \/ ReadByOthers
           \/ Abort \/ AbortWriting \/ \E i \in Issues, p \in Profiles : Begin(i, p)
  <2>1. pc' \in {"idle", "comments", "branch"}
    BY <1>5 DEF NothingToDo, SelectItem, BranchExists, RulesTorn, BudgetExceeded, NothingToCommit,
        PullRequestRefused, Tick, AskForHelp, ReadByOthers, Abort, AbortWriting, Begin, Raise
  <2>2. QED
    BY <2>1
<1>6. ASSUME NEW i \in Issues, Relabel(i) PROVE HeadInv'
  BY <1>6 DEF Relabel
<1>7. CASE UNCHANGED coderVars
  BY <1>7 DEF coderVars
<1>8. QED
  BY <1>1, <1>2, <1>3, <1>4, <1>5, <1>6, <1>7 DEF CoderNext, RunStep

-----------------------------------------------------------------------------
(* The tree of the clone only loses what has not been committed, and is      *)
(* committed as the tests have seen it.                                     *)
LEMMA NextTestInv ==
  ASSUME TypeButCaches, HeadInv, TestInv, [CoderNext]_coderVars
  PROVE  TestInv'
<1> USE DEF clone, caches, github, run, counts
<1>0. /\ branches[head] \subseteq tree /\ head \in DOMAIN branches
      /\ \A b \in DOMAIN origin \ {Main} : origin[b] \in passed
      /\ pc \in {"inner loop", "push"} => tree = branches[head]
      /\ pc \in {"commit fix", "push"} => tree \in passed
  BY DEF TestInv, PushedIsTested, TypeButCaches
<1> DEFINE Goal ==
      /\ branches'[head'] \subseteq tree'
      /\ pc' \in {"inner loop", "push"} => tree' = branches'[head']
      /\ pc' \in {"commit fix", "push"} => tree' \in passed'
      /\ \A b \in DOMAIN origin' \ {Main} : origin'[b] \in passed'
<1>1. CASE CreateBranch
  <2>1. branches'[head'] = branches[head]
    BY <1>1 DEF CreateBranch, Put
  <2>2. tree' = tree /\ pc' = "rules" /\ origin' = origin /\ passed' = passed
    BY <1>1 DEF CreateBranch
  <2>3. Goal
    BY <1>0, <2>1, <2>2
  <2>4. QED
    BY <2>3 DEF TestInv, PushedIsTested
<1>2. CASE Commit \/ CommitFix
  <2>1. branches'[head'] = tree' /\ tree' = tree /\ origin' = origin /\ passed' = passed
    BY <1>0, <1>2 DEF Commit, CommitFix, CommitTree
  <2>2. pc' = "inner loop" \/ (pc = "commit fix" /\ pc' = "push")
    <3>1. CASE Commit
      BY <3>1 DEF Commit
    <3>2. CASE CommitFix
      BY <3>2 DEF CommitFix
    <3>3. QED
      BY <1>2, <3>1, <3>2
  <2>3. Goal
    BY <1>0, <2>1, <2>2
  <2>4. QED
    BY <2>3 DEF TestInv, PushedIsTested
<1>3. CASE \/ EmptyFiles \/ RestoreFiles
           \/ \E n \in 1 .. MaxPatches : Generate(n) \/ FixPatch(n)
  <2>1. /\ tree \subseteq tree' \/ tree' = branches[head]
        /\ pc' \in {"commit", "red", "fixed"} \/ (pc' = "inner loop" /\ tree' = branches[head])
    BY <1>3 DEF EmptyFiles, RestoreFiles, Generate, FixPatch, WritePatch
  <2>2. branches' = branches /\ head' = head /\ origin' = origin /\ passed' = passed
    BY <1>3 DEF EmptyFiles, RestoreFiles, Generate, FixPatch
  <2>3. Goal
    BY <1>0, <2>1, <2>2
  <2>4. QED
    BY <2>3 DEF TestInv, PushedIsTested
<1>4. CASE LoopPasses
  <2>1. /\ passed' = passed \cup {tree} /\ UNCHANGED <<branches, head, tree, origin>>
        /\ pc' = "commit fix" \/ (pc' = "push" /\ pc = "inner loop")
    BY <1>4 DEF LoopPasses
  <2>2. Goal
    BY <1>0, <2>1
  <2>3. QED
    BY <2>2 DEF TestInv, PushedIsTested
<1>5. CASE Push
  <2>1. head = Mine /\ pc = "push"
    BY <1>5 DEF Push, HeadInv, Unpushed
  <2>2. UNCHANGED <<branches, head, tree, passed>> /\ pc' = "pull"
    BY <1>5 DEF Push
  <2>3. /\ DOMAIN origin' = DOMAIN origin \cup {Mine}
        /\ origin'[Mine] = branches[head]
        /\ \A b \in DOMAIN origin \ {Mine} : origin'[b] = origin[b]
    BY <1>5, <2>1 DEF Push, Put
  <2>4. Goal
    BY <1>0, <2>1, <2>2, <2>3
  <2>5. QED
    BY <2>4 DEF TestInv, PushedIsTested
<1>6. CASE \/ ReadRules \/ Hydrate \/ LoopFails \/ GiveUp
           \/ OpenPullRequest \/ LabelPullRequest \/ Flag
           \/ NothingToDo \/ SelectItem \/ BranchExists \/ RulesTorn \/ BudgetExceeded
           \/ NothingToCommit \/ PullRequestRefused \/ Tick \/ AskForHelp \/ ReadByOthers
           \/ Abort \/ AbortWriting \/ \E i \in Issues, p \in Profiles : Begin(i, p)
  <2>1. UNCHANGED <<branches, head, tree, origin, passed>>
    BY <1>6 DEF ReadRules, Hydrate, LoopFails, GiveUp, OpenPullRequest, LabelPullRequest, Flag,
        NothingToDo, SelectItem, BranchExists, RulesTorn, BudgetExceeded, NothingToCommit,
        PullRequestRefused, Tick, AskForHelp, ReadByOthers, Abort, AbortWriting, Begin, Raise
  <2>2. pc' \notin {"inner loop", "push", "commit fix"}
    BY <1>6 DEF ReadRules, Hydrate, LoopFails, GiveUp, OpenPullRequest, LabelPullRequest, Flag,
        NothingToDo, SelectItem, BranchExists, RulesTorn, BudgetExceeded, NothingToCommit,
        PullRequestRefused, Tick, AskForHelp, ReadByOthers, Abort, AbortWriting, Begin, Raise
  <2>3. Goal
    BY <1>0, <2>1, <2>2
  <2>4. QED
    BY <2>3 DEF TestInv, PushedIsTested
<1>7. CASE UNCHANGED coderVars \/ \E i \in Issues : Relabel(i)
  <2>1. UNCHANGED <<branches, head, tree, origin, passed, pc>>
    BY <1>7 DEF coderVars, Relabel
  <2>2. Goal
    BY <1>0, <2>1
  <2>3. QED
    BY <2>2 DEF TestInv, PushedIsTested
<1>8. QED
  BY <1>1, <1>2, <1>3, <1>4, <1>5, <1>6, <1>7 DEF CoderNext, RunStep

-----------------------------------------------------------------------------
(* What is written back to the checklist marks one item of the issue.        *)
LEMMA WriteBoxFacts ==
  ASSUME TypeButCaches, copy = box[issue], NEW mark, WriteBox(mark)
  PROVE  \A i \in Issues, k \in Indexes :
           box'[i][k] = IF i = issue /\ k = index THEN mark ELSE box[i][k]
<1> SUFFICES ASSUME NEW i \in Issues, NEW k \in Indexes
             PROVE  box'[i][k] = IF i = issue /\ k = index THEN mark ELSE box[i][k]
  OBVIOUS
<1>1. box' = [box EXCEPT ![issue] = [copy EXCEPT ![index] = mark]]
  BY DEF WriteBox
<1>2. DOMAIN box = Issues /\ DOMAIN copy = Indexes
  BY DEF TypeButCaches
<1>3. QED
  BY <1>1, <1>2

(* Nothing takes a pull request or its label back, and a tick comes last.    *)
LEMMA NextItemInv ==
  ASSUME TypeButCaches, ItemInv, [CoderNext]_coderVars
  PROVE  ItemInv'
<1> USE DEF clone, caches, github, run, counts
<1> DEFINE Listing == {"branch"} \cup (Unpushed \ {"ask"}) \cup Pushed
           Reviewed == \E p \in pulls : p.head = Mine /\ p.review
           Opened == \E p \in pulls : p.head = Mine
<1>0. /\ pc \in Listing => copy = box[issue]
      /\ pc = "label pull" => Opened
      /\ pc = "tick" => Reviewed
      /\ TickedIsInReview
  BY DEF ItemInv
<1>1. CASE SelectItem
  BY <1>0, <1>1 DEF SelectItem, ItemInv, TickedIsInReview
<1>2. CASE OpenPullRequest
  <2>1. Opened'
    <3>1. [head |-> Mine, base |-> base, review |-> FALSE] \in pulls' /\ UNCHANGED run
      BY <1>2 DEF OpenPullRequest
    <3>2. [head |-> Mine, base |-> base, review |-> FALSE].head = Mine'
      BY <3>1 DEF Mine
    <3>3. QED
      BY <3>1, <3>2, Zenon
  <2>2. TickedIsInReview'
    BY <1>0, <1>2 DEF OpenPullRequest, TickedIsInReview
  <2>3. QED
    BY <1>0, <1>2, <2>1, <2>2 DEF OpenPullRequest, ItemInv, Unpushed, Pushed
<1>3. CASE LabelPullRequest
  <2>1. ASSUME NEW p \in pulls
        PROVE  \E q \in pulls' : q.head = p.head /\ (q.review <=> p.review \/ p.head = Mine)
    <3>1. [p EXCEPT !.review = @ \/ p.head = Mine] \in pulls'
      BY <1>3 DEF LabelPullRequest
    <3>2. p \in PullType
      BY DEF TypeButCaches
    <3>3. QED
      BY <3>1, <3>2 DEF PullType
  <2>2. Reviewed'
    BY <1>0, <1>3, <2>1 DEF LabelPullRequest, Mine
  <2>3. TickedIsInReview'
    <3>1. box' = box
      BY <1>3 DEF LabelPullRequest
    <3>2. ASSUME NEW i \in Issues, NEW k \in Indexes, box'[i][k] = "x"
          PROVE  \E q \in pulls' : q.review /\ q.head.issue = i /\ q.head.index = k
      <4>1. box[i][k] = "x"
        BY <3>1, <3>2
      <4>2. PICK p \in pulls : p.review /\ p.head.issue = i /\ p.head.index = k
        BY <1>0, <4>1, Zenon DEF TickedIsInReview
      <4>3. PICK q \in pulls' : q.head = p.head /\ (q.review <=> p.review \/ p.head = Mine)
        BY <2>1
      <4>4. QED
        BY <4>2, <4>3, Zenon
    <3>3. QED
      BY <3>2, Zenon DEF TickedIsInReview
  <2>4. QED
    BY <1>0, <1>3, <2>2, <2>3 DEF LabelPullRequest, ItemInv, Unpushed, Pushed
<1>4. CASE Tick \/ Flag
  <2>1. PICK mark \in {"x", "!"} : WriteBox(mark) /\ (mark = "x" => pc = "tick")
    BY <1>4 DEF Tick, Flag
  <2>2. copy = box[issue]
    BY <1>0, <1>4 DEF Tick, Flag, Unpushed, Pushed
  <2>3. pulls' = pulls /\ pc' \in {"idle", "ask"}
    BY <1>4 DEF Tick, Flag
  <2>4. \A i \in Issues, k \in Indexes :
          box'[i][k] = IF i = issue /\ k = index THEN mark ELSE box[i][k]
    BY <2>1, <2>2, WriteBoxFacts
  <2>5. ASSUME NEW i \in Issues, NEW k \in Indexes, box'[i][k] = "x"
        PROVE  \E p \in pulls : p.review /\ p.head.issue = i /\ p.head.index = k
    <3>1. CASE i = issue /\ k = index
      <4>1. mark = "x" /\ pc = "tick"
        BY <2>1, <2>4, <2>5, <3>1
      <4>2. PICK p \in pulls : p.head = Mine /\ p.review
        BY <1>0, <4>1, Zenon
      <4>3. p.head.issue = i /\ p.head.index = k
        BY <3>1, <4>2 DEF Mine
      <4>4. QED
        BY <4>2, <4>3, Zenon
    <3>2. CASE ~(i = issue /\ k = index)
      <4>1. box[i][k] = "x"
        BY <2>4, <2>5, <3>2
      <4>2. QED
        BY <1>0, <4>1, Zenon DEF TickedIsInReview
    <3>3. QED
      BY <3>1, <3>2
  <2>6. TickedIsInReview'
    BY <2>3, <2>5 DEF TickedIsInReview
  <2>7. QED
    BY <2>3, <2>6 DEF ItemInv, Unpushed, Pushed
<1>5. CASE \/ CreateBranch \/ ReadRules \/ Hydrate \/ Commit \/ CommitFix
           \/ EmptyFiles \/ RestoreFiles \/ LoopPasses \/ LoopFails \/ GiveUp \/ Push
           \/ \E n \in 1 .. MaxPatches : Generate(n) \/ FixPatch(n)
  <2>1. /\ UNCHANGED <<pulls, box, copy, issue>>
        /\ pc \in Listing
        /\ pc' \notin {"label pull", "tick"}
    BY <1>5 DEF CreateBranch, ReadRules, Hydrate, Commit, CommitFix, EmptyFiles, RestoreFiles,
        LoopPasses, LoopFails, GiveUp, Push, Generate, FixPatch, Unpushed, Pushed
  <2>2. QED
    BY <1>0, <2>1 DEF ItemInv, TickedIsInReview
<1>6. CASE \/ NothingToDo \/ BranchExists \/ RulesTorn \/ BudgetExceeded
           \/ NothingToCommit \/ PullRequestRefused \/ AskForHelp \/ ReadByOthers
           \/ Abort \/ AbortWriting \/ \E i \in Issues, p \in Profiles : Begin(i, p)
  <2>1. UNCHANGED <<pulls, box>> /\ pc' \in {"idle", "comments"}
    BY <1>6 DEF NothingToDo, BranchExists, RulesTorn, BudgetExceeded, NothingToCommit,
        PullRequestRefused, AskForHelp, ReadByOthers, Abort, AbortWriting, Begin, Raise
  <2>2. QED
    BY <1>0, <2>1 DEF ItemInv, TickedIsInReview, Unpushed, Pushed
<1>7. CASE UNCHANGED coderVars \/ \E i \in Issues : Relabel(i)
  <2>1. UNCHANGED <<pulls, box, pc, copy, issue, index, profile>>
    BY <1>7 DEF coderVars, Relabel
  <2>2. QED
    BY <1>0, <2>1 DEF ItemInv, TickedIsInReview, Mine
<1>8. QED
  BY <1>1, <1>2, <1>3, <1>4, <1>5, <1>6, <1>7 DEF CoderNext, RunStep

-----------------------------------------------------------------------------
(* What a run adds to the tree are patches of its own item.                  *)
LEMMA WritesOwn ==
  ASSUME NEW n, WritePatch(n) \/ tree' = tree \cup {Emptied}
  PROVE  \A c \in tree' \ tree : c.issue = issue /\ c.index = index
BY DEF WritePatch, Emptied

(* A branch that has been pushed stays as it is, and only a branch that      *)
(* starts from one can become a pull request.                               *)
LEMMA NextOwnInv ==
  ASSUME TypeButCaches, HeadInv, TestInv, OwnInv, [CoderNext]_coderVars
  PROVE  OwnInv'
<1> USE DEF clone, caches, github, run, counts
<1> DEFINE OnBranch == Unpushed \cup Pushed
<1>0. /\ head \in DOMAIN origin => tree = branches[head] /\ origin[head] = branches[head]
      /\ pc \in OnBranch /\ base \in DOMAIN origin =>
           \A c \in tree \ origin[base] : c.issue = issue /\ c.index = index
      /\ \A p \in pulls : p.head \in DOMAIN origin /\ p.base \in DOMAIN origin
      /\ \A p \in pulls : \A c \in origin[p.head] \ origin[p.base] :
           c.issue = p.head.issue /\ c.index = p.head.index
  BY DEF OwnInv, PullRequestHoldsOwnItem
<1> DEFINE Goal ==
      /\ head' \in DOMAIN origin' => tree' = branches'[head'] /\ origin'[head'] = branches'[head']
      /\ pc' \in OnBranch /\ base' \in DOMAIN origin' =>
           \A c \in tree' \ origin'[base'] : c.issue = issue' /\ c.index = index'
      /\ \A p \in pulls' : p.head \in DOMAIN origin' /\ p.base \in DOMAIN origin'
      /\ \A p \in pulls' : \A c \in origin'[p.head] \ origin'[p.base] :
           c.issue = p.head.issue /\ c.index = p.head.index
<1>a. Goal => OwnInv'
  BY DEF OwnInv, PullRequestHoldsOwnItem
<1> SUFFICES Goal
  BY <1>a
<1>1. CASE CreateBranch
  <2>1. /\ head' = Mine /\ Mine \notin DOMAIN origin /\ base' = head /\ tree' = tree
        /\ UNCHANGED <<origin, pulls>>
    BY <1>1 DEF CreateBranch, TypeButCaches
  <2>2. QED
    BY <1>0, <2>1
<1>2. CASE \/ Commit \/ CommitFix \/ EmptyFiles \/ RestoreFiles
           \/ \E n \in 1 .. MaxPatches : Generate(n) \/ FixPatch(n)
  <2>1. /\ UNCHANGED <<head, base, origin, pulls, issue, index>>
        /\ head \notin DOMAIN origin /\ pc \in OnBranch
    BY <1>2 DEF Commit, CommitFix, EmptyFiles, RestoreFiles, Generate, FixPatch, HeadInv, Unpushed
  <2>2. \A c \in tree' \ tree : c.issue = issue /\ c.index = index
    <3>1. CASE Commit \/ CommitFix \/ RestoreFiles
      BY <3>1 DEF Commit, CommitFix, RestoreFiles, TestInv
    <3>2. CASE EmptyFiles \/ \E n \in 1 .. MaxPatches : Generate(n) \/ FixPatch(n)
      BY <3>2, WritesOwn DEF EmptyFiles, Generate, FixPatch
    <3>3. QED
      BY <1>2, <3>1, <3>2
  <2>3. QED
    BY <1>0, <2>1, <2>2
<1>3. CASE Push
  <2>1. head = Mine /\ Mine \notin DOMAIN origin /\ pc \in OnBranch /\ tree = branches[head]
    BY <1>3 DEF Push, HeadInv, Unpushed, TestInv
  <2>2. UNCHANGED <<branches, head, tree, base, pulls, issue, index>> /\ pc' = "pull"
    BY <1>3 DEF Push
  <2>3. /\ DOMAIN origin' = DOMAIN origin \cup {Mine}
        /\ origin'[Mine] = tree
        /\ \A b \in DOMAIN origin : origin'[b] = origin[b]
    BY <1>3, <2>1 DEF Push, Put
  <2>4. QED
    BY <1>0, <2>1, <2>2, <2>3
<1>4. CASE OpenPullRequest
  <2>1. /\ pulls' = pulls \cup {[head |-> Mine, base |-> base, review |-> FALSE]}
        /\ UNCHANGED <<branches, head, tree, base, origin, issue, index>>
        /\ base \in DOMAIN origin /\ pc \in OnBranch /\ pc' \in OnBranch
    BY <1>4 DEF OpenPullRequest, Accepted, Unpushed, Pushed
  <2>2. head = Mine /\ Mine \in DOMAIN origin
    BY <1>4 DEF OpenPullRequest, HeadInv, Unpushed, Pushed
  <2>3. \A c \in origin[Mine] \ origin[base] : c.issue = issue /\ c.index = index
    BY <1>0, <2>1, <2>2
  <2>4. QED
    BY <1>0, <2>1, <2>2, <2>3 DEF Mine
<1>5. CASE LabelPullRequest
  <2>1. UNCHANGED <<branches, head, tree, base, origin, issue, index>> /\ pc \in OnBranch
    BY <1>5 DEF LabelPullRequest, Unpushed, Pushed
  <2>2. \A q \in pulls' : \E p \in pulls : q.head = p.head /\ q.base = p.base
    BY <1>5 DEF LabelPullRequest, TypeButCaches, PullType
  <2>3. QED
    BY <1>0, <2>1, <2>2
<1>6. CASE \/ ReadRules \/ Hydrate \/ LoopPasses \/ LoopFails \/ GiveUp \/ Flag
  <2>1. UNCHANGED <<branches, head, tree, base, origin, pulls, issue, index>> /\ pc \in OnBranch
    BY <1>6 DEF ReadRules, Hydrate, LoopPasses, LoopFails, GiveUp, Flag, Unpushed
  <2>2. QED
    BY <1>0, <2>1
<1>7. CASE \/ NothingToDo \/ SelectItem \/ BranchExists \/ RulesTorn \/ BudgetExceeded
           \/ NothingToCommit \/ PullRequestRefused \/ Tick \/ AskForHelp \/ ReadByOthers
           \/ Abort \/ AbortWriting \/ \E i \in Issues, p \in Profiles : Begin(i, p)
  <2>1. UNCHANGED <<branches, head, tree, origin, pulls>> /\ pc' \in {"idle", "comments", "branch"}
    BY <1>7 DEF NothingToDo, SelectItem, BranchExists, RulesTorn, BudgetExceeded, NothingToCommit,
        PullRequestRefused, Tick, AskForHelp, ReadByOthers, Abort, AbortWriting, Begin, Raise
  <2>2. QED
    BY <1>0, <2>1 DEF Unpushed, Pushed
<1>8. CASE UNCHANGED coderVars \/ \E i \in Issues : Relabel(i)
  <2>1. UNCHANGED <<branches, head, tree, base, origin, pulls, issue, index, pc>>
    BY <1>8 DEF coderVars, Relabel
  <2>2. QED
    BY <1>0, <2>1
<1>9. QED
  BY <1>1, <1>2, <1>3, <1>4, <1>5, <1>6, <1>7, <1>8 DEF CoderNext, RunStep

-----------------------------------------------------------------------------
(* A cache that gets the tree under the key of HEAD stays sound. *)
LEMMA SoundKeep ==
  ASSUME NEW cache, NEW c, NEW t \in SUBSET Patch, NEW n, NEW s, Sound(cache, c, t, n, s), c \subseteq t
  PROVE  Sound(Keep(cache, Key(c, {}), Whole(t)), c, t, n, s)
<1> DEFINE new == Keep(cache, Key(c, {}), Whole(t))
<1>1. Key(c, {}) = Key(Key(c, {})[1], {}) /\ Key(c, {})[1] = c
  BY DEF Key
<1>2. Whole(t) \in Entry /\ Whole(t).of = t
  <2>1. TRUE \in BOOLEAN
    BY Zenon
  <2>2. QED
    BY <2>1 DEF Whole, Entry
<1>3. \A k \in DOMAIN new :
        \/ k \in DOMAIN cache /\ new[k] = cache[k]
        \/ k = Key(c, {}) /\ new[k] = Whole(t)
  BY DEF Keep
<1>4. QED
  BY <1>1, <1>2, <1>3 DEF Sound

(* So it does if what it gets is torn, once a run has been interrupted. *)
LEMMA SoundTorn ==
  ASSUME NEW cache, NEW c, NEW t \in SUBSET Patch, NEW n, NEW m, NEW s, NEW r,
         Sound(cache, c, t, n, s), c \subseteq t, m # 0
  PROVE  /\ Sound(Keep(cache, Key(c, {}), Torn(t)), c, t, m, r)
         /\ Sound(cache, c, t, m, r)
<1> DEFINE new == Keep(cache, Key(c, {}), Torn(t))
<1>1. Key(c, {}) = Key(Key(c, {})[1], {}) /\ Key(c, {})[1] = c
  BY DEF Key
<1>2. Torn(t) \in Entry /\ Torn(t).of = t
  <2>1. FALSE \in BOOLEAN
    BY Zenon
  <2>2. QED
    BY <2>1 DEF Torn, Entry
<1>3. \A k \in DOMAIN new :
        \/ k \in DOMAIN cache /\ new[k] = cache[k]
        \/ k = Key(c, {}) /\ new[k] = Torn(t)
  BY DEF Keep
<1>4. QED
  BY <1>1, <1>2, <1>3 DEF Sound

(* A commit adds to what HEAD was: no cache has an entry for it yet. *)
LEMMA SoundCommit ==
  ASSUME NEW cache, NEW c, NEW t, NEW n, NEW s, NEW r, Sound(cache, c, t, n, s), c \subseteq t, c # t
  PROVE  /\ Sound(cache, t, t, n, r)
         /\ Key(t, {}) \notin DOMAIN cache
<1>1. \A k \in DOMAIN cache : k[1] \subseteq c /\ k[1] # t /\ k[1] \subseteq t
  BY DEF Sound
<1>2. Key(t, {})[1] = t
  BY DEF Key
<1>3. Key(t, {}) \notin DOMAIN cache
  BY <1>1, <1>2
<1>4. QED
  BY <1>1, <1>3 DEF Sound

(* While the tree grows the entry of HEAD is a part of it. *)
LEMMA SoundGrow ==
  ASSUME NEW cache, NEW c, NEW t, NEW u, NEW n, NEW s, NEW r,
         Sound(cache, c, t, n, s), t \subseteq u, r \notin Settled
  PROVE  Sound(cache, c, u, n, r)
BY DEF Sound

(* A cache without an entry for HEAD is sound whatever the tree. *)
LEMMA SoundFresh ==
  ASSUME NEW cache, NEW c, NEW t, NEW u, NEW n, NEW s, NEW r,
         Sound(cache, c, t, n, s), Key(c, {}) \notin DOMAIN cache
  PROVE  Sound(cache, c, u, n, r)
BY DEF Sound

(* A tree that is committed and a tree that stays need no new entry. *)
LEMMA SoundStay ==
  ASSUME NEW cache, NEW c, NEW t, NEW n, NEW s, NEW r,
         Sound(cache, c, t, n, s), t = c \/ s \in Settled \/ r \notin Settled
  PROVE  Sound(cache, c, t, n, r)
<1>1. Key(c, {})[1] = c
  BY DEF Key
<1>2. ASSUME t = c, Key(c, {}) \in DOMAIN cache PROVE cache[Key(c, {})].of = t
  BY <1>1, <1>2 DEF Sound
<1>3. QED
  BY <1>2 DEF Sound

-----------------------------------------------------------------------------
(* The caches: written where HEAD and the tree are as they say, and never    *)
(* read for another tree of the same HEAD that lacks what they say.          *)
LEMMA NextCacheInv ==
  ASSUME TypeButCaches, HeadInv, TestInv, CacheInv, [CoderNext]_coderVars
  PROVE  CacheInv'
<1> USE DEF clone, caches, github, run, counts
<1> DEFINE c == branches[head]
           Late == (Unpushed \ {"rules", "context", "generate", "commit"}) \cup Pushed
           Goal == /\ Sound(rules', c', tree', aborts', pc')
                   /\ Sound(code', c', tree', aborts', pc')
                   /\ pc' \in Late => Key(c', {}) \notin DOMAIN rules' \cup DOMAIN code'
                   /\ pc' = "context" => Key(c', {}) \in DOMAIN rules' /\ rules'[Key(c', {})].whole
<1>0. /\ Sound(rules, c, tree, aborts, pc) /\ Sound(code, c, tree, aborts, pc)
      /\ pc \in Late => Key(c, {}) \notin DOMAIN rules /\ Key(c, {}) \notin DOMAIN code
      /\ pc = "context" => Key(c, {}) \in DOMAIN rules /\ rules[Key(c, {})].whole
      /\ c \subseteq tree /\ tree \in SUBSET Patch
      /\ pc \in {"inner loop", "push"} => tree = c
  BY DEF CacheInv, Here, TestInv, TypeButCaches
<1>a. Goal => CacheInv'
  BY DEF CacheInv, Here
<1> SUFFICES Goal
  BY <1>a
<1> HIDE DEF c
<1>1. CASE CreateBranch
  <2>1. c' = c
    BY <1>1 DEF CreateBranch, Put, c
  <2>2. UNCHANGED <<rules, code, tree, aborts>> /\ pc = "branch" /\ pc' = "rules"
    BY <1>1 DEF CreateBranch
  <2>3. Sound(rules, c, tree, aborts, pc') /\ Sound(code, c, tree, aborts, pc')
    BY <1>0, <2>2, SoundStay DEF Settled
  <2>4. QED
    BY <2>1, <2>2, <2>3 DEF Unpushed, Pushed
<1>2. CASE Commit \/ CommitFix
  <2>1. /\ c' = tree /\ c # tree /\ UNCHANGED <<rules, code, tree, aborts>>
        /\ pc' \in {"inner loop", "push"}
    BY <1>2 DEF Commit, CommitFix, CommitTree, TypeButCaches, c
  <2>2. QED
    BY <1>0, <2>1, SoundCommit
<1>3. CASE EmptyFiles \/ \E n \in 1 .. MaxPatches : Generate(n) \/ FixPatch(n)
  <2>1. /\ tree \subseteq tree' /\ UNCHANGED <<branches, head, rules, code, aborts>>
        /\ pc' \notin Settled /\ pc' # "context"
        /\ pc \in Late \/ pc' = "commit"
    BY <1>3 DEF EmptyFiles, Generate, FixPatch, WritePatch, Settled, Unpushed
  <2>2. c' = c
    BY <2>1 DEF c
  <2>3. QED
    BY <1>0, <2>1, <2>2, SoundGrow DEF Unpushed, Pushed
<1>4. CASE RestoreFiles
  <2>1. UNCHANGED <<branches, head, rules, code, aborts>> /\ pc \in Late /\ pc' = "inner loop"
    BY <1>4 DEF RestoreFiles, Unpushed
  <2>2. c' = c
    BY <2>1 DEF c
  <2>3. QED
    BY <1>0, <2>1, <2>2, SoundFresh
<1>5. CASE ReadRules \/ Hydrate \/ ReadByOthers
  <2>1. /\ UNCHANGED <<branches, head, tree, aborts>> /\ pc \in Settled
        /\ rules' = rules \/ rules' = Keep(rules, Key(c, {}), Whole(tree))
        /\ code' = code \/ code' = Keep(code, Key(c, {}), Whole(tree))
        /\ pc' \in {"idle", "context", "generate"}
    BY <1>5 DEF ReadRules, Hydrate, ReadByOthers, Settled, Here, c
  <2>2. c' = c
    BY <2>1 DEF c
  <2>3. Sound(rules', c, tree, aborts, pc) /\ Sound(code', c, tree, aborts, pc)
    BY <1>0, <2>1, SoundKeep
  <2>4. Sound(rules', c, tree, aborts, pc') /\ Sound(code', c, tree, aborts, pc')
    BY <2>1, <2>3, SoundStay
  <2>5. ASSUME pc' = "context"
        PROVE  Key(c, {}) \in DOMAIN rules' /\ rules'[Key(c, {})].whole
    <3>1. Look(rules, Key(c, {}), tree).whole /\ rules' = Keep(rules, Key(c, {}), Whole(tree))
      BY <1>5, <2>5 DEF ReadRules, Hydrate, ReadByOthers, Here, c
    <3>2. QED
      BY <3>1, Zenon DEF Look, Keep
  <2>6. QED
    BY <2>1, <2>2, <2>4, <2>5 DEF Unpushed, Pushed
<1>6. CASE AbortWriting
  <2>1. /\ UNCHANGED <<branches, head, tree>> /\ pc' = "idle"
        /\ rules' = rules \/ rules' = Keep(rules, Key(c, {}), Torn(tree))
        /\ code' = code \/ code' = Keep(code, Key(c, {}), Torn(tree))
    BY <1>6 DEF AbortWriting, Here, c
  <2>2. aborts' # 0
    <3>1. aborts \in 0 .. MaxAborts /\ aborts' = aborts + 1
      BY <1>6, Zenon DEF AbortWriting, TypeButCaches
    <3>2. QED
      BY <3>1
  <2>3. c' = c
    BY <2>1 DEF c
  <2>4. Sound(rules', c, tree, aborts', pc') /\ Sound(code', c, tree, aborts', pc')
    <3>1. /\ Sound(Keep(rules, Key(c, {}), Torn(tree)), c, tree, aborts', pc')
          /\ Sound(rules, c, tree, aborts', pc')
      BY <1>0, <2>2, SoundTorn
    <3>2. /\ Sound(Keep(code, Key(c, {}), Torn(tree)), c, tree, aborts', pc')
          /\ Sound(code, c, tree, aborts', pc')
      BY <1>0, <2>2, SoundTorn
    <3>3. QED
      BY <2>1, <3>1, <3>2
  <2>5. QED
    BY <2>1, <2>3, <2>4 DEF Unpushed, Pushed
<1>7. CASE Abort
  <2>1. UNCHANGED <<branches, head, tree, rules, code>> /\ pc' = "idle"
    BY <1>7 DEF Abort
  <2>2. aborts' # 0
    <3>1. aborts \in 0 .. MaxAborts /\ aborts' = aborts + 1
      BY <1>7, Zenon DEF Abort, TypeButCaches
    <3>2. QED
      BY <3>1
  <2>3. c' = c
    BY <2>1 DEF c
  <2>4. QED
    BY <1>0, <2>1, <2>2, <2>3, SoundTorn DEF Unpushed, Pushed
<1>8. CASE \/ LoopPasses \/ LoopFails \/ GiveUp \/ Push \/ OpenPullRequest \/ LabelPullRequest
           \/ Flag \/ PullRequestRefused \/ Tick \/ AskForHelp
  <2>1. /\ UNCHANGED <<branches, head, tree, rules, code, aborts>> /\ pc \in Late
        /\ pc' # "context"
    BY <1>8 DEF LoopPasses, LoopFails, GiveUp, Push, OpenPullRequest, LabelPullRequest, Flag,
        PullRequestRefused, Tick, AskForHelp, Raise, Unpushed, Pushed
  <2>2. c' = c
    BY <2>1 DEF c
  <2>3. QED
    BY <1>0, <2>1, <2>2, SoundFresh
<1>9. CASE NothingToCommit
  <2>1. UNCHANGED <<branches, head, tree, rules, code, aborts>> /\ pc' = "idle" /\ tree = c
    BY <1>9 DEF NothingToCommit, Raise, c
  <2>2. c' = c
    BY <2>1 DEF c
  <2>3. QED
    BY <1>0, <2>1, <2>2, SoundStay DEF Unpushed, Pushed
<1>10. CASE \/ NothingToDo \/ SelectItem \/ BranchExists \/ RulesTorn \/ BudgetExceeded
            \/ \E i \in Issues, p \in Profiles : Begin(i, p)
  <2>1. /\ UNCHANGED <<branches, head, tree, rules, code, aborts>>
        /\ pc \in Settled /\ pc' \in {"idle", "comments", "branch"}
    BY <1>10 DEF NothingToDo, SelectItem, BranchExists, RulesTorn, BudgetExceeded, Begin, Raise, Settled
  <2>2. c' = c
    BY <2>1 DEF c
  <2>3. QED
    BY <1>0, <2>1, <2>2, SoundStay DEF Unpushed, Pushed
<1>11. CASE UNCHANGED coderVars \/ \E i \in Issues : Relabel(i)
  <2>1. UNCHANGED <<branches, head, tree, rules, code, aborts, pc>>
    BY <1>11 DEF coderVars, Relabel
  <2>2. c' = c
    BY <2>1 DEF c
  <2>3. QED
    BY <1>0, <2>1, <2>2
<1>12. QED
  BY <1>1, <1>2, <1>3, <1>4, <1>5, <1>6, <1>7, <1>8, <1>9, <1>10, <1>11 DEF CoderNext, RunStep

-----------------------------------------------------------------------------
(* The inductive invariant of the coder worker. *)
THEOREM CoderInvariance == CoderSpec => []CoderInv
<1>1. CoderInit => CoderInv
  <2> SUFFICES ASSUME CoderInit PROVE CoderInv
    OBVIOUS
  <2>1. CoderTypeOK
    BY CoderInitType, TypeSplit
  <2>2. pc = "idle" /\ head = Main /\ tree = {} /\ pulls = {} /\ rules = <<>> /\ code = <<>>
    BY Zenon DEF CoderInit
  <2>3. /\ DOMAIN origin = {Main} /\ origin[Main] = {} /\ branches[Main] = {}
        /\ \A i \in Issues, k \in Indexes : box[i][k] = " "
    BY DEF CoderInit
  <2>4. HeadInv /\ TestInv /\ ItemInv /\ OwnInv
    BY <2>2, <2>3 DEF HeadInv, TestInv, ItemInv, OwnInv, PushedIsTested, TickedIsInReview,
                      PullRequestHoldsOwnItem, Unpushed, Pushed
  <2>5. CacheInv
    <3>1. DOMAIN rules = {} /\ DOMAIN code = {}
      BY <2>2
    <3>2. QED
      BY <2>2, <3>1 DEF CacheInv, Sound, Unpushed, Pushed
  <2>6. QED
    BY <2>1, <2>4, <2>5 DEF CoderInv
<1>2. CoderInv /\ [CoderNext]_coderVars => CoderInv'
  <2> SUFFICES ASSUME CoderInv, [CoderNext]_coderVars PROVE CoderInv'
    OBVIOUS
  <2>1. CoderTypeOK /\ TypeButCaches /\ HeadInv /\ TestInv /\ ItemInv /\ OwnInv /\ CacheInv
    BY TypeSplit DEF CoderInv
  <2>2. QED
    BY <2>1, CoderNextType, NextHeadInv, NextTestInv, NextItemInv, NextOwnInv, NextCacheInv
       DEF CoderInv
<1>3. QED
  BY <1>1, <1>2, PTL DEF CoderSpec

(* The variables of the coder worker have their types. *)
THEOREM CoderTypeCorrect == CoderSpec => []CoderTypeOK
<1>1. CoderInv => CoderTypeOK
  BY DEF CoderInv
<1>2. QED
  BY <1>1, CoderInvariance, PTL

(* Nothing is pushed that the inner loop has not passed as it is             *)
(* (CoderWorker.handle_issue, which commits, tests, commits and pushes).    *)
THEOREM OnlyTestedIsPushed == CoderSpec => []PushedIsTested
<1>1. CoderInv => PushedIsTested
  BY DEF CoderInv, TestInv
<1>2. QED
  BY <1>1, CoderInvariance, PTL

(* No item is ticked without an open pull request labelled for review        *)
(* (CoderWorker.handle_issue, PRManager.open_pull_request).                  *)
THEOREM TickFollowsReview == CoderSpec => []TickedIsInReview
<1>1. CoderInv => TickedIsInReview
  BY DEF CoderInv, ItemInv
<1>2. QED
  BY <1>1, CoderInvariance, PTL

(* No pull request shows patches of another item, whatever the runs before   *)
(* it have left in the clone (WorkspaceManager.create_branch, which branches *)
(* from where the clone is).                                                *)
THEOREM PullRequestsHoldOwnItem == CoderSpec => []PullRequestHoldsOwnItem
<1>1. CoderInv => PullRequestHoldsOwnItem
  BY DEF CoderInv, OwnInv
<1>2. QED
  BY <1>1, CoderInvariance, PTL

(* What the model is shown lies between HEAD and the tree                    *)
(* (ContextHydrator.hydrate and ADRLoader.build_context with their caches). *)
THEOREM ContextStaysCurrent == CoderSpec => ContextIsCurrent
<1> DEFINE Fits(content) == branches[head] \subseteq content /\ content \subseteq tree
           Step == pc = "context" /\ pc' = "generate" =>
                     /\ rules[Here].whole /\ Fits(rules[Here].of)
                     /\ ~code'[Here].whole \/ Fits(code'[Here].of)
                     /\ aborts = 0 => code'[Here] = Whole(tree) /\ rules[Here] = Whole(tree)
<1>1. CoderInv /\ [CoderNext]_coderVars => [Step]_coderVars
  <2> SUFFICES ASSUME CoderInv, CoderNext, pc = "context", pc' = "generate" PROVE Step
    OBVIOUS
  <2> DEFINE c == branches[head]
  <2>1. code' = Keep(code, Here, Whole(tree))
    BY DEF CoderNext, RunStep, Raise, run, Begin, NothingToDo, SelectItem, CreateBranch,
           BranchExists, ReadRules, RulesTorn, BudgetExceeded, Hydrate, ReadByOthers, AbortWriting,
           Generate, FixPatch, Commit, NothingToCommit, EmptyFiles, RestoreFiles, LoopPasses,
           LoopFails, GiveUp, CommitFix, Push, OpenPullRequest, PullRequestRefused,
           LabelPullRequest, Tick, Flag, AskForHelp, Relabel, Abort
  <2>2. /\ Sound(rules, c, tree, aborts, pc) /\ Sound(code, c, tree, aborts, pc)
        /\ Here \in DOMAIN rules /\ rules[Here].whole
        /\ c \subseteq tree /\ tree \in SUBSET Patch
    BY TypeSplit DEF CoderInv, CacheInv, TestInv, TypeButCaches
  <2>3. Sound(code', c, tree, aborts, pc)
    BY <2>1, <2>2, SoundKeep DEF Here
  <2>4. Here \in DOMAIN code'
    BY <2>1 DEF Keep
  <2>5. ASSUME NEW cache, Sound(cache, c, tree, aborts, pc), Here \in DOMAIN cache
        PROVE  Fits(cache[Here].of) /\ (aborts = 0 => cache[Here] = Whole(tree))
    <3>1. Here = Key(c, {}) /\ Here[1] = c
      BY DEF Here, Key
    <3>2. QED
      BY <2>5, <3>1 DEF Sound, Settled
  <2>6. /\ Fits(rules[Here].of) /\ (aborts = 0 => rules[Here] = Whole(tree))
        /\ Fits(code'[Here].of) /\ (aborts = 0 => code'[Here] = Whole(tree))
    BY <2>2, <2>3, <2>4, <2>5
  <2>7. QED
    BY <2>2, <2>6, Zenon
<1>2. QED
  BY <1>1, CoderInvariance, PTL DEF CoderSpec, ContextIsCurrent
=============================================================================
