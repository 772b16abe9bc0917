----------------------- MODULE ConflictResolverProofs -----------------------
(***************************************************************************)
(* Proofs about ConflictResolver, for any files, base branch, number of    *)
(* runs and interruptions: type correctness, ReviewHasBase,                *)
(* ResolutionPushedIsTested and ContextIsOfMerge.                          *)
(***************************************************************************)
EXTENDS ConflictResolver, TLAPS

-----------------------------------------------------------------------------
(* A merge in progress is of a newer base than the branch has, and files are *)
(* unmerged in one only.                                                    *)
MergeInv ==
  /\ local.base <= Len(theirs)
  /\ pc = "merge" => local.base <= fetched
  /\ merging # 0 => local.base < merging
  /\ unmerged # {} => merging # 0
  /\ pc \in {"context", "model", "stage", "commit"} => merging # 0
  /\ pc = "commit" => unmerged = {}

(* A run that has not found a merge in progress merges what it has fetched.  *)
BaseInv ==
  /\ pc \in {"detect", "context", "model", "stage", "commit"} => resumed \/ merging \in {0, fetched}
  /\ pc \in {"test", "push"} => resumed \/ local.base = fetched
  /\ pc = "label" /\ target = "needs-review" => resumed \/ remote.base = fetched

(* A resolution of this run gets to the push by way of the tests only, and   *)
(* if a fix made them pass the fix is in the tree.                           *)
TestedInv ==
  /\ resolved => pc \in {"idle", "test", "push", "label"}
  /\ pc = "push" /\ resolved => ~local.unproved \/ (MayFix /\ dirty)

(* Without interruptions an entry is written for a commit when its merge is  *)
(* resolved, and the branch goes on from there.                             *)
ContextInv ==
  aborts = 0 =>
    \A k \in DOMAIN code :
      /\ k[1] \in Nat
      /\ k[1] < local.base \/ (k[1] = local.base /\ pc \in {"model", "stage", "commit"})

ResolverInv == ResolverTypeOK /\ MergeInv /\ BaseInv /\ TestedInv /\ ContextInv

-----------------------------------------------------------------------------
(* The files in conflict are files, and there are none unless the base       *)
(* branch has commits that the branch lacks.                                *)
LEMMA ConflictsFacts ==
  ASSUME ResolverTypeOK, NEW n \in 0 .. Len(theirs)
  PROVE  /\ Conflicts(n) \subseteq Files
         /\ Conflicts(n) # {} => local.base < n
<1>1. local.base \in Nat /\ theirs \in Seq(SUBSET Files)
  BY ResolverBounds DEF ResolverTypeOK, Commit
<1>2. \A k \in local.base + 1 .. n : k \in 1 .. Len(theirs) /\ theirs[k] \subseteq Files
  BY <1>1
<1>3. QED
  BY <1>1, <1>2 DEF Conflicts

(* The Booleans, and the entries of the cache. *)
Flags ==
  /\ ahead \in BOOLEAN /\ unticked \in BOOLEAN /\ dirty \in BOOLEAN
  /\ resolved \in BOOLEAN /\ resumed \in BOOLEAN

EntryOK(e, top) ==
  /\ e.of.merging \in 1 .. top /\ e.of.dirty \in BOOLEAN
  /\ e.of.markers \subseteq Files /\ e.whole \in BOOLEAN

CodeOK == \A k \in DOMAIN code : EntryOK(code[k], Len(theirs))

(* The rest. *)
RestOK ==
  /\ theirs \in Seq(SUBSET Files) /\ Len(theirs) <= MaxBase
  /\ remote \in Commit /\ local \in Commit
  /\ label \in {"merge-conflict", "needs-review", "needs-help"}
  /\ merging \in 0 .. Len(theirs)
  /\ unmerged \subseteq Files /\ markers \subseteq Files
  /\ pc \in {"idle", "comments", "fetch", "merge", "detect", "context", "model",
             "stage", "commit", "test", "push", "label"}
  /\ fetched \in 0 .. Len(theirs)
  /\ target \in {"needs-review", "needs-help"}
  /\ runs \in 0 .. MaxRuns /\ aborts \in 0 .. MaxAborts

(* Together they are the type invariant. *)
LEMMA ResolverTypeSplit == ResolverTypeOK <=> Flags /\ CodeOK /\ RestOK
BY Zenon DEF ResolverTypeOK, Flags, CodeOK, EntryOK, RestOK

(* The Booleans stay Booleans. *)
LEMMA FlagsKept == Flags /\ [ResolverNext]_resolverVars => Flags'
<1> SUFFICES ASSUME Flags, [ResolverNext]_resolverVars PROVE Flags'
  OBVIOUS
<1> USE DEF Flags, github, clone, run
<1>1. CASE ResolverStep
  <2>1. CASE Begin \/ NothingUnticked \/ ItemFound \/ Fetch \/ MergeClean \/ MergeConflicts
    BY <2>1, Zenon DEF Begin, NothingUnticked, ItemFound, Fetch, MergeClean, MergeConflicts
  <2>2. CASE MergeRefused \/ ConflictsFound \/ MergeAborted \/ Hydrate \/ BudgetExceeded
    BY <2>2, Zenon DEF MergeRefused, ConflictsFound, MergeAborted, Hydrate, BudgetExceeded
  <2>3. CASE StageAll \/ CommitMerge \/ TestsPass \/ FixPasses \/ \E S \in SUBSET Files : Resolve(S)
    BY <2>3, Zenon DEF StageAll, CommitMerge, TestsPass, FixPasses, Resolve
  <2>4. CASE Push \/ PushRejected \/ ReplaceLabels
    BY <2>4, Zenon DEF Push, PushRejected, ReplaceLabels
  <2>5. CASE TestsFail
    <3>1. dirty' = dirty \/ dirty' = (dirty \/ MayFix)
      BY <2>5, Zenon DEF TestsFail
    <3>2. dirty' \in BOOLEAN
      BY <3>1, ResolverBounds, Zenon
    <3> QED
      BY <2>5, <3>2, Zenon DEF TestsFail
  <2>6. QED
    BY <1>1, <2>1, <2>2, <2>3, <2>4, <2>5 DEF ResolverStep
<1>2. CASE Abort
  <2>1. dirty' \in BOOLEAN
    BY <1>2, Zenon DEF Abort
  <2>2. QED
    BY <1>2, <2>1, Zenon DEF Abort
<1>3. CASE \/ AbortWriting \/ (\E S \in SUBSET Files : AdvanceBase(S))
           \/ PushByOthers \/ TickLast \/ LabelConflict
  BY <1>3, Zenon DEF AbortWriting, AdvanceBase, PushByOthers, TickLast, LabelConflict
<1>4. CASE UNCHANGED resolverVars
  BY <1>4, Zenon DEF resolverVars
<1>5. QED
  BY <1>1, <1>2, <1>3, <1>4 DEF ResolverNext

(* The cache gets what is in the tree in the middle of a merge. *)
LEMMA CodeKept ==
  ASSUME Flags, CodeOK, RestOK, MergeInv, [ResolverNext]_resolverVars
  PROVE  CodeOK'
<1> USE DEF github, clone, run
<1>1. CASE Hydrate \/ AbortWriting
  <2>1. PICK e \in {Whole(InTree), Torn(InTree)} : code' = Keep(code, Here, e)
    BY <1>1 DEF Hydrate, AbortWriting
  <2>2. theirs' = theirs /\ pc = "context"
    BY <1>1 DEF Hydrate, AbortWriting
  <2>3. e.of = InTree /\ (e.whole = TRUE \/ e.whole = FALSE)
    BY DEF Whole, Torn
  <2>4. InTree.merging = merging /\ InTree.markers = markers /\ InTree.dirty = dirty
    BY DEF InTree
  <2>5. merging \in 1 .. Len(theirs) /\ markers \subseteq Files
    BY <2>2 DEF MergeInv, RestOK
  <2>6. EntryOK(e, Len(theirs))
    BY <2>3, <2>4, <2>5, Zenon DEF EntryOK, Flags
  <2>7. \A k \in DOMAIN code' : code'[k] = e \/ (k \in DOMAIN code /\ code'[k] = code[k])
    BY <2>1 DEF Keep
  <2>8. QED
    BY <2>2, <2>6, <2>7 DEF CodeOK
<1>2. ASSUME NEW S \in SUBSET Files, AdvanceBase(S) PROVE CodeOK'
  <2>1. Len(theirs') = Len(theirs) + 1 /\ Len(theirs) \in Nat /\ code' = code
    BY <1>2 DEF AdvanceBase, RestOK
  <2>2. 1 .. Len(theirs) \subseteq 1 .. Len(theirs')
    BY <2>1
  <2>3. QED
    BY <2>1, <2>2 DEF CodeOK, EntryOK
<1>3. CASE \/ ResolverStep /\ ~Hydrate
           \/ Abort \/ PushByOthers \/ TickLast \/ LabelConflict \/ UNCHANGED resolverVars
  <2>1. code' = code /\ theirs' = theirs
    BY <1>3 DEF resolverVars, ResolverStep, Begin, NothingUnticked, ItemFound, Fetch, MergeClean,
        MergeConflicts, MergeRefused, ConflictsFound, MergeAborted, BudgetExceeded, Resolve,
        StageAll, CommitMerge, TestsPass, FixPasses, TestsFail, Push, PushRejected, ReplaceLabels,
        Abort, PushByOthers, TickLast, LabelConflict
  <2>2. QED
    BY <2>1 DEF CodeOK
<1>4. QED
  BY <1>1, <1>2, <1>3 DEF ResolverNext

(* A commit of the branch keeps its type. *)
LEMMA RestKept ==
  ASSUME ResolverTypeOK, RestOK, [ResolverNext]_resolverVars
  PROVE  RestOK'
<1> USE DEF github, clone, run, RestOK
<1>1. ASSUME NEW n \in 0 .. Len(theirs)
      PROVE  Conflicts(n) \subseteq Files /\ n \in 0 .. MaxBase
  BY <1>1, ConflictsFacts, ResolverBounds
<1>2. CASE Begin
  <2>1. runs \in 0 .. MaxRuns /\ runs < MaxRuns /\ runs' = runs + 1
    BY <1>2, Zenon DEF Begin
  <2>2. runs' \in 0 .. MaxRuns
    BY <2>1, ResolverBounds
  <2>3. QED
    BY <1>2, <2>2 DEF Begin
<1>3. CASE MergeClean \/ TestsPass \/ CommitMerge
  <2>1. local' \in Commit
    <3>1. CASE MergeClean
      BY <1>1, <3>1 DEF MergeClean, Commit
    <3>2. CASE TestsPass
      BY <3>2 DEF TestsPass, Commit
    <3>3. CASE CommitMerge
      BY <1>1, <3>3 DEF CommitMerge, Commit
    <3>4. QED
      BY <1>3, <3>1, <3>2, <3>3
  <2>2. QED
    BY <1>3, <2>1 DEF MergeClean, TestsPass, CommitMerge
<1>4. CASE MergeConflicts
  BY <1>1, <1>4 DEF MergeConflicts
<1>5. CASE MergeAborted
  <2>1. local.markers \subseteq Files
    BY DEF Commit
  <2>2. QED
    BY <1>5, <2>1 DEF MergeAborted
<1>6. CASE Fetch
  BY <1>6 DEF Fetch
<1>7. CASE \/ NothingUnticked \/ ItemFound \/ MergeRefused \/ ConflictsFound \/ Hydrate
           \/ BudgetExceeded \/ StageAll \/ FixPasses \/ TestsFail
           \/ \E S \in SUBSET Files : Resolve(S)
  BY <1>7 DEF NothingUnticked, ItemFound, MergeRefused, ConflictsFound, Hydrate, BudgetExceeded,
              Resolve, StageAll, FixPasses, TestsFail
<1>8. CASE Push \/ PushRejected \/ ReplaceLabels
  BY <1>8 DEF Push, PushRejected, ReplaceLabels
<1>9. CASE Abort \/ AbortWriting
  <2>1. aborts \in 0 .. MaxAborts /\ aborts < MaxAborts /\ aborts' = aborts + 1
    BY <1>9, Zenon DEF Abort, AbortWriting
  <2>2. aborts' \in 0 .. MaxAborts
    BY <2>1, ResolverBounds
  <2>3. QED
    BY <1>9, <2>2 DEF Abort, AbortWriting
<1>10. ASSUME NEW S \in SUBSET Files, AdvanceBase(S) PROVE RestOK'
  BY <1>10, ResolverBounds DEF AdvanceBase
<1>11. CASE PushByOthers \/ TickLast \/ LabelConflict \/ UNCHANGED resolverVars
  BY <1>11 DEF PushByOthers, TickLast, LabelConflict, resolverVars
<1>12. QED
  BY <1>2, <1>3, <1>4, <1>5, <1>6, <1>7, <1>8, <1>9, <1>10, <1>11 DEF ResolverNext, ResolverStep

(* Every step keeps the types. *)
LEMMA ResolverNextType ==
  ASSUME ResolverTypeOK, MergeInv, [ResolverNext]_resolverVars
  PROVE  ResolverTypeOK'
<1>1. Flags /\ CodeOK /\ RestOK
  BY ResolverTypeSplit
<1>2. Flags' /\ CodeOK' /\ RestOK'
  BY <1>1, FlagsKept, CodeKept, RestKept
<1>3. (ResolverTypeOK <=> Flags /\ CodeOK /\ RestOK)'
  BY ResolverTypeSplit, PTL
<1>4. QED
  BY <1>2, <1>3

-----------------------------------------------------------------------------
(* A merge is begun with a base newer than that of the branch and ends with  *)
(* the commit or the abort of it.                                           *)
LEMMA NextMergeInv ==
  ASSUME ResolverTypeOK, MergeInv, [ResolverNext]_resolverVars
  PROVE  MergeInv'
<1> USE DEF github, clone, run
<1>0. /\ MergeInv /\ local.base \in Nat /\ Len(theirs) \in Nat
      /\ local \in Commit
      /\ fetched \in 0 .. Len(theirs) /\ merging \in 0 .. Len(theirs)
  BY ResolverBounds DEF ResolverTypeOK, Commit
<1>1. CASE MergeClean
  <2>1. local'.base = fetched /\ UNCHANGED <<theirs, merging, unmerged, fetched>> /\ pc' = "push"
    BY <1>0, <1>1 DEF MergeClean, Commit
  <2>2. merging = 0 /\ unmerged = {}
    BY <1>0, <1>1 DEF MergeClean, MergeInv
  <2>3. QED
    BY <1>0, <2>1, <2>2 DEF MergeInv
<1>2. CASE MergeConflicts
  <2>1. local.base < fetched
    BY <1>0, <1>2, ConflictsFacts DEF MergeConflicts
  <2>2. QED
    BY <1>0, <1>2, <2>1 DEF MergeConflicts, MergeInv
<1>3. CASE CommitMerge
  <2>1. local'.base = merging /\ merging' = 0 /\ UNCHANGED <<theirs, unmerged, fetched>> /\ pc' = "test"
    BY <1>3 DEF CommitMerge
  <2>2. unmerged = {}
    BY <1>0, <1>3 DEF CommitMerge, MergeInv
  <2>3. QED
    BY <1>0, <2>1, <2>2 DEF MergeInv
<1>4. CASE TestsPass
  <2>1. local'.base = local.base /\ UNCHANGED <<theirs, unmerged, merging, fetched>> /\ pc' = "push"
    BY <1>0, <1>4 DEF TestsPass, Commit
  <2>2. QED
    BY <1>0, <2>1 DEF MergeInv
<1>5. CASE \/ Begin \/ NothingUnticked \/ ItemFound \/ Fetch \/ MergeRefused
           \/ ConflictsFound \/ MergeAborted \/ Hydrate \/ BudgetExceeded
           \/ (\E S \in SUBSET Files : Resolve(S)) \/ StageAll
  BY <1>0, <1>5 DEF MergeInv, Begin, NothingUnticked, ItemFound, Fetch, MergeRefused,
     ConflictsFound, MergeAborted, Hydrate, BudgetExceeded, Resolve, StageAll
<1>6. CASE \/ FixPasses \/ TestsFail \/ Push \/ PushRejected \/ ReplaceLabels
           \/ Abort \/ AbortWriting
  BY <1>0, <1>6 DEF MergeInv, FixPasses, TestsFail, Push, PushRejected, ReplaceLabels, Abort, AbortWriting
<1>7. ASSUME NEW S \in SUBSET Files, AdvanceBase(S) PROVE MergeInv'
  <2>1. Len(theirs') = Len(theirs) + 1
    BY <1>7 DEF AdvanceBase, ResolverTypeOK
  <2>2. QED
    BY <1>0, <1>7, <2>1 DEF MergeInv, AdvanceBase
<1>8. CASE PushByOthers \/ TickLast \/ LabelConflict \/ UNCHANGED resolverVars
  BY <1>0, <1>8 DEF MergeInv, PushByOthers, TickLast, LabelConflict, resolverVars
<1>9. QED
  BY <1>1, <1>2, <1>3, <1>4, <1>5, <1>6, <1>7, <1>8 DEF ResolverNext, ResolverStep

(* What a run sends to review has the base it has fetched.                   *)
LEMMA NextBaseInv ==
  ASSUME ResolverTypeOK, MergeInv, BaseInv, TestedInv, [ResolverNext]_resolverVars
  PROVE  BaseInv'
<1> USE DEF github, clone, run
<1>0. local \in Commit /\ BaseInv
  BY DEF ResolverTypeOK
<1>1. CASE MergeClean
  BY <1>0, <1>1 DEF MergeClean, Commit, BaseInv
<1>2. CASE MergeRefused
  BY <1>0, <1>2 DEF MergeRefused, BaseInv
<1>3. CASE CommitMerge
  <2>1. merging # 0 /\ (resumed \/ merging = fetched)
    BY <1>0, <1>3 DEF CommitMerge, MergeInv, BaseInv
  <2>2. QED
    BY <1>3, <2>1 DEF CommitMerge, BaseInv
<1>4. CASE TestsPass
  <2>1. local'.base = local.base /\ UNCHANGED <<fetched, resumed>> /\ pc = "test" /\ pc' = "push"
    BY <1>0, <1>4 DEF TestsPass, Commit
  <2>2. QED
    BY <1>0, <2>1 DEF BaseInv
<1>5. CASE Push
  BY <1>0, <1>5 DEF Push, BaseInv
<1>6. CASE \/ MergeConflicts \/ ConflictsFound \/ MergeAborted \/ Hydrate \/ StageAll
           \/ (\E S \in SUBSET Files : Resolve(S)) \/ FixPasses \/ TestsFail
  BY <1>0, <1>6 DEF BaseInv, MergeConflicts, ConflictsFound, MergeAborted, Hydrate, Resolve,
     StageAll, FixPasses, TestsFail
<1>7. CASE \/ Begin \/ NothingUnticked \/ ItemFound \/ Fetch \/ BudgetExceeded
           \/ PushRejected \/ ReplaceLabels \/ Abort \/ AbortWriting
  <2>1. pc' \in {"idle", "comments", "fetch", "merge"}
    BY <1>7 DEF Begin, NothingUnticked, ItemFound, Fetch, BudgetExceeded, PushRejected,
       ReplaceLabels, Abort, AbortWriting
  <2>2. QED
    BY <2>1 DEF BaseInv
<1>8. CASE \/ (\E S \in SUBSET Files : AdvanceBase(S))
           \/ PushByOthers \/ TickLast \/ LabelConflict \/ UNCHANGED resolverVars
  BY <1>0, <1>8 DEF BaseInv, AdvanceBase, PushByOthers, TickLast, LabelConflict, resolverVars
<1>9. QED
  BY <1>1, <1>2, <1>3, <1>4, <1>5, <1>6, <1>7, <1>8 DEF ResolverNext, ResolverStep

(* What a run resolves it pushes after the tests have passed, or not at all; *)
(* a fix that made them pass stays in the tree.                              *)
LEMMA NextTestedInv ==
  ASSUME ResolverTypeOK, TestedInv, [ResolverNext]_resolverVars
  PROVE  TestedInv'
<1> USE DEF github, clone, run
<1>0. local \in Commit /\ TestedInv
  BY DEF ResolverTypeOK
<1>1. CASE TestsPass
  <2>1. ~local'.unproved /\ pc' = "push"
    BY <1>0, <1>1 DEF TestsPass, Commit
  <2>2. QED
    BY <2>1, Zenon DEF TestedInv
<1>2. CASE \/ MergeClean \/ MergeConflicts \/ MergeRefused \/ ConflictsFound \/ MergeAborted
           \/ Hydrate \/ BudgetExceeded \/ (\E S \in SUBSET Files : Resolve(S)) \/ StageAll
           \/ NothingUnticked \/ ItemFound \/ Fetch \/ AbortWriting \/ Begin
  <2>1. ~resolved'
    BY <1>0, <1>2 DEF TestedInv, MergeClean, MergeConflicts, MergeRefused, ConflictsFound,
       MergeAborted, Hydrate, BudgetExceeded, Resolve, StageAll, NothingUnticked, ItemFound, Fetch,
       AbortWriting, Begin
  <2>2. QED
    BY <2>1, Zenon DEF TestedInv
<1>3. CASE CommitMerge \/ TestsFail \/ Push \/ PushRejected \/ ReplaceLabels \/ Abort
  <2>1. pc' \in {"idle", "test", "label"}
    BY <1>3 DEF CommitMerge, TestsFail, Push, PushRejected, ReplaceLabels, Abort
  <2>2. QED
    BY <2>1 DEF TestedInv
<1>4. CASE \/ (\E S \in SUBSET Files : AdvanceBase(S))
           \/ PushByOthers \/ TickLast \/ LabelConflict \/ UNCHANGED resolverVars
  BY <1>0, <1>4 DEF TestedInv, AdvanceBase, PushByOthers, TickLast, LabelConflict, resolverVars
<1>5. CASE FixPasses
  <2>1. dirty' /\ MayFix /\ pc' = "push"
    BY <1>5, Zenon DEF FixPasses
  <2>2. QED
    BY <2>1, Zenon DEF TestedInv
<1>6. QED
  BY <1>1, <1>2, <1>3, <1>4, <1>5 DEF ResolverNext, ResolverStep

(* Where no run has been interrupted HEAD has no entry before the model is   *)
(* asked.                                                                   *)
LEMMA NextContextInv ==
  ASSUME ResolverTypeOK, MergeInv, ContextInv, [ResolverNext]_resolverVars
  PROVE  ContextInv'
<1> USE DEF github, clone, run
<1>0. /\ local \in Commit /\ local.base \in Nat /\ merging \in Nat
      /\ pc = "merge" => local.base <= fetched /\ fetched \in Nat
      /\ pc = "commit" => local.base < merging
      /\ \A k \in DOMAIN code : aborts = 0 =>
           /\ k[1] \in Nat
           /\ k[1] < local.base \/ (k[1] = local.base /\ pc \in {"model", "stage", "commit"})
  BY ResolverBounds DEF ResolverTypeOK, Commit, MergeInv, ContextInv
<1> SUFFICES ASSUME aborts' = 0, NEW k \in DOMAIN code'
             PROVE  /\ k[1] \in Nat
                    /\ \/ k[1] < local'.base
                       \/ k[1] = local'.base /\ pc' \in {"model", "stage", "commit"}
  BY DEF ContextInv
<1>1. CASE MergeClean
  <2>1. local'.base = fetched /\ code' = code /\ aborts' = aborts /\ pc = "merge"
    BY <1>0, <1>1 DEF MergeClean, Commit
  <2>2. k[1] \in Nat /\ k[1] < local.base
    BY <1>0, <2>1
  <2>3. QED
    BY <1>0, <2>1, <2>2
<1>2. CASE CommitMerge
  <2>1. local'.base = merging /\ code' = code /\ aborts' = aborts /\ pc = "commit"
    BY <1>2 DEF CommitMerge
  <2>2. QED
    BY <1>0, <2>1
<1>3. CASE Hydrate
  <2>1. /\ DOMAIN code' = DOMAIN code \cup {Key(local.base, unmerged)}
        /\ local' = local /\ pc' = "model" /\ aborts' = aborts
    BY <1>3 DEF Hydrate, Keep, Here
  <2>2. Key(local.base, unmerged)[1] = local.base
    BY DEF Key
  <2>3. QED
    BY <1>0, <2>1, <2>2
<1>4. CASE Abort \/ AbortWriting
  <2>1. aborts \in 0 .. MaxAborts /\ aborts' = aborts + 1
    BY <1>4, Zenon DEF Abort, AbortWriting, ResolverTypeOK
  <2>2. QED
    BY <2>1
<1>5. CASE TestsPass
  <2>1. local'.base = local.base /\ code' = code /\ aborts' = aborts /\ pc = "test"
    BY <1>0, <1>5 DEF TestsPass, Commit
  <2>2. QED
    BY <1>0, <2>1
<1>6. CASE (\E S \in SUBSET Files : Resolve(S)) \/ StageAll
  BY <1>0, <1>6 DEF Resolve, StageAll
<1>7. CASE \/ MergeConflicts \/ MergeRefused \/ ConflictsFound \/ MergeAborted \/ BudgetExceeded
           \/ NothingUnticked \/ ItemFound \/ Fetch \/ Begin
           \/ FixPasses \/ TestsFail \/ Push \/ PushRejected \/ ReplaceLabels
  <2>1. UNCHANGED <<local, code, aborts>> /\ pc \notin {"model", "stage", "commit"}
    BY <1>7 DEF MergeConflicts, MergeRefused, ConflictsFound, MergeAborted, BudgetExceeded,
       NothingUnticked, ItemFound, Fetch, Begin, FixPasses, TestsFail, Push, PushRejected, ReplaceLabels
  <2>2. QED
    BY <1>0, <2>1
<1>8. CASE \/ (\E S \in SUBSET Files : AdvanceBase(S))
           \/ PushByOthers \/ TickLast \/ LabelConflict \/ UNCHANGED resolverVars
  BY <1>0, <1>8 DEF AdvanceBase, PushByOthers, TickLast, LabelConflict, resolverVars
<1>9. QED
  BY <1>1, <1>2, <1>3, <1>4, <1>5, <1>6, <1>7, <1>8 DEF ResolverNext, ResolverStep

-----------------------------------------------------------------------------
(* The inductive invariant of the resolver. *)
THEOREM ResolverInvariance == ResolverSpec => []ResolverInv
<1>1. ResolverInit => ResolverInv
  <2> SUFFICES ASSUME ResolverInit PROVE ResolverInv
    OBVIOUS
  <2>1. Flags
    BY Zenon DEF ResolverInit, Flags
  <2>2. /\ theirs = <<>> /\ code = <<>> /\ pc = "idle" /\ merging = 0 /\ unmerged = {}
        /\ local = [base |-> 0, markers |-> {}, unproved |-> FALSE] /\ remote = local
        /\ markers = {} /\ fetched = 0 /\ runs = 0 /\ aborts = 0 /\ ~resolved
        /\ label = "merge-conflict" /\ target = "needs-help"
    BY Zenon DEF ResolverInit
  <2>3. local \in Commit
    <3>1. FALSE \in BOOLEAN
      BY Zenon
    <3>2. QED
      BY <2>2, <3>1, ResolverBounds DEF Commit
  <2>4. RestOK
    BY <2>2, <2>3, ResolverBounds DEF RestOK
  <2>5. DOMAIN code = {}
    BY <2>2
  <2>6. CodeOK /\ ContextInv
    BY <2>5 DEF CodeOK, ContextInv
  <2>7. MergeInv /\ BaseInv
    BY <2>2 DEF MergeInv, BaseInv
  <2>8. TestedInv
    BY <2>2, Zenon DEF TestedInv
  <2>9. QED
    BY <2>1, <2>4, <2>6, <2>7, <2>8, ResolverTypeSplit DEF ResolverInv
<1>2. ResolverInv /\ [ResolverNext]_resolverVars => ResolverInv'
  BY ResolverNextType, NextMergeInv, NextBaseInv, NextTestedInv, NextContextInv DEF ResolverInv
<1>3. QED
  BY <1>1, <1>2, PTL DEF ResolverSpec

(* The variables of the resolver have their types. *)
THEOREM ResolverTypeCorrect == ResolverSpec => []ResolverTypeOK
<1>1. ResolverInv => ResolverTypeOK
  BY DEF ResolverInv
<1>2. QED
  BY <1>1, ResolverInvariance, PTL

(* A pull request goes to review with the base the run has fetched, unless   *)
(* the run has finished an older merge (ConflictResolver.resolve).           *)
THEOREM ReviewsHaveBase == ResolverSpec => ReviewHasBase
<1> DEFINE Step == label' = "needs-review" /\ label # label' => remote.base >= fetched \/ resumed
<1>1. ResolverInv /\ [ResolverNext]_resolverVars => [Step]_resolverVars
  <2> SUFFICES ASSUME ResolverInv, ResolverNext, label' = "needs-review", label # label', ~resumed
               PROVE  remote.base >= fetched
    OBVIOUS
  <2>1. ReplaceLabels
    BY DEF github, clone, run, ResolverNext, ResolverStep, Begin, NothingUnticked, ItemFound, Fetch,
       MergeClean, MergeConflicts, MergeRefused, ConflictsFound, MergeAborted, Hydrate,
       BudgetExceeded, Resolve, StageAll, CommitMerge, TestsPass, FixPasses, TestsFail, Push, PushRejected,
       Abort, AbortWriting, AdvanceBase, PushByOthers, TickLast, LabelConflict
  <2>2. remote.base = fetched
    BY <2>1 DEF ReplaceLabels, ResolverInv, BaseInv
  <2>3. fetched \in Nat
    BY DEF ResolverInv, ResolverTypeOK
  <2>4. QED
    BY <2>2, <2>3
<1>2. QED
  BY <1>1, ResolverInvariance, PTL DEF ResolverSpec, ReviewHasBase

(* What a run pushes after it has resolved conflicts has passed the tests,   *)
(* or lacks a fix that is left in the working tree (ConflictResolver.resolve, *)
(* which commits before it tests, and does not commit again).                *)
THEOREM ResolutionsAreTested == ResolverSpec => ResolutionPushedIsTested
<1> DEFINE Step == remote' # remote /\ resolved => ~remote'.unproved \/ (MayFix /\ dirty)
<1>1. ResolverInv /\ [ResolverNext]_resolverVars => [Step]_resolverVars
  <2> SUFFICES ASSUME ResolverInv, ResolverNext, remote' # remote, resolved
               PROVE  ~remote'.unproved \/ (MayFix /\ dirty)
    OBVIOUS
  <2>1. Push
    BY DEF github, clone, run, ResolverNext, ResolverStep, Begin, NothingUnticked, ItemFound, Fetch,
       MergeClean, MergeConflicts, MergeRefused, ConflictsFound, MergeAborted, Hydrate,
       BudgetExceeded, Resolve, StageAll, CommitMerge, TestsPass, FixPasses, TestsFail, PushRejected,
       ReplaceLabels, Abort, AbortWriting, AdvanceBase, PushByOthers, TickLast, LabelConflict
  <2>2. remote' = local /\ pc = "push"
    BY <2>1 DEF Push
  <2>3. ~local.unproved \/ (MayFix /\ dirty)
    BY <2>2, Zenon DEF ResolverInv, TestedInv
  <2>4. QED
    BY <2>2, <2>3
<1>2. QED
  BY <1>1, ResolverInvariance, PTL DEF ResolverSpec, ResolutionPushedIsTested

(* The model is shown the merge it is asked to resolve                       *)
(* (ContextHydrator.hydrate, whose cache keeps entries of other merges).     *)
THEOREM ContextFitsMerge == ResolverSpec => ContextIsOfMerge
<1> DEFINE Step == pc = "context" /\ pc' = "model" /\ aborts = 0 => code'[Here] = Whole(InTree)
<1>1. ResolverInv /\ [ResolverNext]_resolverVars => [Step]_resolverVars
  <2> SUFFICES ASSUME ResolverInv, ResolverNext, pc = "context", pc' = "model", aborts = 0
               PROVE  code'[Here] = Whole(InTree)
    OBVIOUS
  <2>1. Hydrate
    BY DEF github, clone, run, ResolverNext, ResolverStep, Begin, NothingUnticked, ItemFound, Fetch,
       MergeClean, MergeConflicts, MergeRefused, ConflictsFound, MergeAborted, BudgetExceeded,
       Resolve, StageAll, CommitMerge, TestsPass, FixPasses, TestsFail, Push, PushRejected, ReplaceLabels,
       Abort, AbortWriting, AdvanceBase, PushByOthers, TickLast, LabelConflict
  <2>2. \A k \in DOMAIN code : k[1] \in Nat /\ k[1] < local.base
    BY DEF ResolverInv, ContextInv
  <2>3. local.base \in Nat /\ Here[1] = local.base
    BY ResolverBounds DEF ResolverInv, ResolverTypeOK, Commit, Here, Key
  <2>4. Here \notin DOMAIN code
    BY <2>2, <2>3
  <2>5. QED
    BY <2>1, <2>4 DEF Hydrate, Keep
<1>2. QED
  BY <1>1, ResolverInvariance, PTL DEF ResolverSpec, ContextIsOfMerge
=============================================================================
