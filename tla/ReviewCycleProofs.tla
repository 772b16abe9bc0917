-------------------------- MODULE ReviewCycleProofs --------------------------
(***************************************************************************)
(* Proofs about ReviewCycle, for any number of commits, check runs, runs   *)
(* of them, edits and interruptions and for any size of GitHub's pages:    *)
(* type correctness, LabelTellsVerdict and NoApprovalAgainstRed.           *)
(***************************************************************************)
EXTENDS ReviewCycle, FiniteSetTheorems, TLAPS

-----------------------------------------------------------------------------
(* From the dispatch to the write of the new label nobody but people touches *)
(* the label, and the worker writes the label of the review it has created.  *)
LabelInv ==
  /\ edits = 0 /\ pc \notin {"idle", "down"} => label = "needs-review"
  /\ pc = "relabel" => last.verdict = verdict
  /\ LabelTellsVerdict

(* Before the model is asked the verdict is the one that needs no model, and *)
(* for a bake-off it stays that.                                            *)
VerdictInv ==
  /\ pc \in {"checks", "diff", "model"} => ~bakeOff /\ verdict = "REQUEST_CHANGES"
  /\ pc = "review" /\ verdict = "APPROVE" => ~bakeOff

(* No check run known as red shows, or there are more than a page lists. *)
GatePassed == red = {} \/ Cardinality(Registered(sha)) > PageSize

(* What was red before the run read the pull request is red still, and the   *)
(* gate was passed where the model has been asked.                          *)
GateInv ==
  /\ \A c \in red : ci[sha][c] = "red"
  /\ pc \in {"diff", "model"} => GatePassed
  /\ pc = "review" /\ verdict = "APPROVE" => GatePassed

ReviewInv == ReviewTypeOK /\ LabelInv /\ VerdictInv /\ GateInv

-----------------------------------------------------------------------------
(* A page that is not full shows every check run of the commit. *)
LEMMA PageShowsAll ==
  ASSUME NEW s \in Heads, Cardinality(Registered(s)) <= PageSize, NEW P \in Pages(s)
  PROVE  P = Registered(s)
<1>1. IsFiniteSet(Registered(s)) /\ Cardinality(Registered(s)) \in Nat
  BY ReviewBounds, FS_Subset, FS_CardinalityType DEF Registered
<1>2. Min({PageSize, Cardinality(Registered(s))}) = Cardinality(Registered(s))
  BY <1>1, ReviewBounds DEF Min
<1>3. P \in SUBSET Registered(s) /\ Cardinality(P) = Cardinality(Registered(s))
  BY <1>2 DEF Pages, kSubset
<1>4. QED
  BY <1>1, <1>3, FS_Subset

(* Check runs are registered for good, so that a page once full stays full. *)
LEMMA RegisteredGrows ==
  ASSUME ReviewTypeOK, ReviewTypeOK', NEW s \in Heads,
         \A c \in CheckRuns : ci[s][c] # "none" => ci'[s][c] # "none"
  PROVE  Cardinality(Registered(s)) > PageSize => Cardinality(Registered(s)') > PageSize
<1>1. Registered(s) \subseteq Registered(s)'
  BY DEF Registered
<1>2. IsFiniteSet(Registered(s)')
  BY ReviewBounds, FS_Subset DEF Registered
<1>3. /\ Cardinality(Registered(s)) <= Cardinality(Registered(s)')
      /\ Cardinality(Registered(s)) \in Nat
      /\ Cardinality(Registered(s)') \in Nat
  BY <1>1, <1>2, FS_Subset, FS_CardinalityType
<1>4. QED
  BY <1>3, ReviewBounds

-----------------------------------------------------------------------------
(* Every action keeps the types. *)
LEMMA ReviewInitType == ReviewInit => ReviewTypeOK
<1> SUFFICES ASSUME ReviewInit PROVE ReviewTypeOK
  OBVIOUS
<1>1. bakeOff \in BOOLEAN /\ updated \in BOOLEAN /\ failed \in BOOLEAN
  BY Zenon DEF ReviewInit
<1>2. QED
  BY <1>1, ReviewBounds DEF ReviewInit, ReviewTypeOK, Heads, Checks, Verdicts, LabelState

(* What goes on around the reviewer keeps the types. *)
LEMMA AroundType ==
  ASSUME ReviewTypeOK,
         \/ Push \/ Raise \/ Die \/ ClassificationFails \/ DispatchRaises
         \/ \E s \in Heads, c \in CheckRuns :
              StartCheck(s, c) \/ \E r \in {"green", "red"} : FinishCheck(s, c, r)
         \/ \E l \in EditLabels : EditLabel(l)
  PROVE  ReviewTypeOK'
<1> USE ReviewBounds
<1>1. CASE Push
  BY <1>1 DEF ReviewTypeOK, Push, Heads, local, counts
<1>2. CASE Raise \/ Die
  <2>1. failed' \in BOOLEAN /\ updated' \in BOOLEAN
    BY <1>2, Zenon DEF ReviewTypeOK, Raise, Die
  <2>2. aborts' \in 0 .. MaxAborts
    BY <1>2 DEF ReviewTypeOK, Raise, Die
  <2>3. UNCHANGED <<bakeOff, head, ci, label, last, local, ciRuns, edits>> /\ pc' \in {"idle", "down"}
    BY <1>2 DEF Raise, Die
  <2> QED
    BY <2>1, <2>2, <2>3 DEF ReviewTypeOK, local
<1>3. ASSUME NEW s \in Heads, NEW c \in CheckRuns, StartCheck(s, c) PROVE ReviewTypeOK'
  BY <1>3 DEF ReviewTypeOK, StartCheck, Checks
<1>4. ASSUME NEW s \in Heads, NEW c \in CheckRuns, NEW r \in {"green", "red"},
             FinishCheck(s, c, r)
      PROVE  ReviewTypeOK'
  BY <1>4 DEF ReviewTypeOK, FinishCheck, Checks, local, counts
<1>5. ASSUME NEW l \in EditLabels, EditLabel(l) PROVE ReviewTypeOK'
  BY <1>5 DEF ReviewTypeOK, EditLabel, local
<1>6. CASE ClassificationFails \/ DispatchRaises
  BY <1>6 DEF ReviewTypeOK, ClassificationFails, DispatchRaises, local, counts
<1>7. QED
  BY <1>1, <1>2, <1>3, <1>4, <1>5, <1>6

(* The steps of the daemon keep the types. *)
LEMMA DaemonType == ReviewTypeOK /\ DaemonStep => ReviewTypeOK'
<1> SUFFICES ASSUME ReviewTypeOK, DaemonStep PROVE ReviewTypeOK'
  OBVIOUS
<1> USE ReviewBounds DEF ReviewTypeOK, local, counts
<1>1. CASE Dispatch \/ Restart
  BY <1>1 DEF Dispatch, Restart, LabelState, WorkflowLabel
<1>2. CASE GetPullRequest
  BY <1>2 DEF GetPullRequest, Verdicts, Heads
<1>3. CASE NotForReview
  BY <1>3 DEF NotForReview
<1>4. CASE GateCloses \/ GateOpens
  BY <1>4 DEF GateCloses, GateOpens
<1>5. CASE GetDiff
  BY <1>5 DEF GetDiff, Heads
<1>6. ASSUME NEW v \in Verdicts, TakeVerdict(v) PROVE ReviewTypeOK'
  BY <1>6 DEF TakeVerdict
<1>7. CASE CreateReview
  BY <1>7 DEF CreateReview, Heads
<1>8. CASE ReplaceLabels
  BY <1>8 DEF ReplaceLabels, TargetLabel, LabelState, WorkflowLabel
<1>9. QED
  BY <1>1, <1>2, <1>3, <1>4, <1>5, <1>6, <1>7, <1>8 DEF DaemonStep

(* Every step keeps the types. *)
LEMMA ReviewNextType == ReviewTypeOK /\ [ReviewNext]_reviewVars => ReviewTypeOK'
<1> SUFFICES ASSUME ReviewTypeOK, [ReviewNext]_reviewVars PROVE ReviewTypeOK'
  OBVIOUS
<1>1. CASE UNCHANGED reviewVars
  BY <1>1 DEF ReviewTypeOK, reviewVars, local, counts
<1>2. QED
  BY <1>1, AroundType, DaemonType DEF ReviewNext

(* Whatever the bounds, the variables of the review cycle have their types. *)
THEOREM ReviewTypeCorrect == ReviewSpec => []ReviewTypeOK
BY ReviewInitType, ReviewNextType, PTL DEF ReviewSpec

-----------------------------------------------------------------------------
(* The label: only the reviewer's own steps and people write it.             *)
LEMMA NextLabelInv == ReviewInv /\ [ReviewNext]_reviewVars => LabelInv'
<1> SUFFICES ASSUME ReviewInv, [ReviewNext]_reviewVars PROVE LabelInv'
  OBVIOUS
<1> USE DEF LabelInv, LabelTellsVerdict, local, counts
<1>0. LabelInv /\ ReviewTypeOK
  BY DEF ReviewInv
<1>1. CASE \/ Dispatch \/ Restart \/ GetPullRequest \/ NotForReview
           \/ GateCloses \/ GateOpens \/ GetDiff
  BY <1>0, <1>1 DEF Dispatch, Restart, GetPullRequest, NotForReview, GateCloses, GateOpens, GetDiff
<1>2. ASSUME NEW v \in Verdicts, TakeVerdict(v) PROVE LabelInv'
  BY <1>0, <1>2 DEF TakeVerdict
<1>3. CASE CreateReview
  BY <1>0, <1>3 DEF CreateReview
<1>4. CASE ReplaceLabels
  BY <1>0, <1>4 DEF ReplaceLabels, TargetLabel
<1>5. CASE Raise \/ Die \/ ClassificationFails \/ DispatchRaises \/ Push
  BY <1>0, <1>5 DEF Raise, Die, ClassificationFails, DispatchRaises, Push
<1>6. ASSUME NEW s \in Heads, NEW c \in CheckRuns,
             StartCheck(s, c) \/ \E r \in {"green", "red"} : FinishCheck(s, c, r)
      PROVE  LabelInv'
  BY <1>0, <1>6 DEF StartCheck, FinishCheck
<1>7. ASSUME NEW l \in EditLabels, EditLabel(l) PROVE LabelInv'
  BY <1>0, <1>7 DEF EditLabel, ReviewTypeOK
<1>8. CASE UNCHANGED reviewVars
  BY <1>0, <1>8 DEF reviewVars
<1>9. QED
  BY <1>1, <1>2, <1>3, <1>4, <1>5, <1>6, <1>7, <1>8 DEF ReviewNext, DaemonStep

(* The verdict: an approval is the model's, and no model sees a bake-off.    *)
LEMMA NextVerdictInv == ReviewInv /\ [ReviewNext]_reviewVars => VerdictInv'
<1> SUFFICES ASSUME ReviewInv, [ReviewNext]_reviewVars PROVE VerdictInv'
  OBVIOUS
<1> USE DEF VerdictInv, local, counts
<1>0. VerdictInv /\ ReviewTypeOK
  BY DEF ReviewInv
<1>1. CASE DaemonStep
  BY <1>0, <1>1 DEF DaemonStep, Dispatch, Restart, GetPullRequest, NotForReview, GateCloses, GateOpens,
                    GetDiff, TakeVerdict, CreateReview, ReplaceLabels
<1>2. CASE Raise \/ Die \/ ClassificationFails \/ DispatchRaises \/ Push
  BY <1>0, <1>2 DEF Raise, Die, ClassificationFails, DispatchRaises, Push
<1>3. ASSUME NEW s \in Heads, NEW c \in CheckRuns,
             StartCheck(s, c) \/ \E r \in {"green", "red"} : FinishCheck(s, c, r)
      PROVE  VerdictInv'
  BY <1>0, <1>3 DEF StartCheck, FinishCheck
<1>4. ASSUME NEW l \in EditLabels, EditLabel(l) PROVE VerdictInv'
  BY <1>0, <1>4 DEF EditLabel
<1>5. CASE UNCHANGED reviewVars
  BY <1>0, <1>5 DEF reviewVars
<1>6. QED
  BY <1>1, <1>2, <1>3, <1>4, <1>5 DEF ReviewNext

(* What CI does keeps the gate: a red run is restarted before it changes,    *)
(* and then no longer counts.                                               *)
LEMMA CheckGateInv ==
  ASSUME ReviewInv, ReviewTypeOK', NEW s \in Heads, NEW c \in CheckRuns,
         StartCheck(s, c) \/ \E r \in {"green", "red"} : FinishCheck(s, c, r)
  PROVE  GateInv'
<1>0. GateInv /\ ReviewTypeOK /\ sha \in Heads
  BY ReviewBounds DEF ReviewInv, ReviewTypeOK, Heads
<1> PICK t \in Heads : t = sha
  BY <1>0
<1>1. red' \subseteq red /\ sha' = sha /\ pc' = pc /\ verdict' = verdict
  BY DEF StartCheck, FinishCheck, local
<1>2. \A d \in red' : ci'[sha][d] = "red"
  BY <1>0 DEF GateInv, ReviewTypeOK, StartCheck, FinishCheck, local
<1>3. \A d \in CheckRuns : ci[t][d] # "none" => ci'[t][d] # "none"
  BY <1>0 DEF ReviewTypeOK, StartCheck, FinishCheck
<1>4. Cardinality(Registered(t)) > PageSize => Cardinality(Registered(t)') > PageSize
  BY <1>0, <1>3, RegisteredGrows
<1>5. GatePassed => GatePassed'
  BY <1>1, <1>4 DEF GatePassed, Registered
<1>6. QED
  BY <1>0, <1>1, <1>2, <1>5 DEF GateInv

(* A page without a blocking check run shows none that is red. *)
LEMMA GateOpensPassed == ReviewInv /\ GateOpens => GatePassed
<1> SUFFICES ASSUME ReviewInv, GateOpens, ~(Cardinality(Registered(sha)) > PageSize)
             PROVE  red = {}
  BY DEF GatePassed
<1>1. sha \in Heads /\ red \subseteq CheckRuns
  BY ReviewBounds DEF ReviewInv, ReviewTypeOK, Heads
<1>2. PICK P \in Pages(sha) : ~Blocking(sha, P)
  BY DEF GateOpens
<1>3. Cardinality(Registered(sha)) \in Nat
  BY ReviewBounds, FS_Subset, FS_CardinalityType DEF Registered
<1>4. P = Registered(sha)
  BY <1>1, <1>3, ReviewBounds, PageShowsAll
<1>5. ASSUME NEW c \in red PROVE FALSE
  <2>1. ci[sha][c] = "red"
    BY DEF ReviewInv, GateInv
  <2>2. c \in Registered(sha)
    BY <1>1, <2>1 DEF Registered
  <2>3. QED
    BY <1>2, <1>4, <2>1, <2>2 DEF Blocking
<1>6. QED
  BY <1>5

(* The gate: it is passed on the way to the model and stays passed.          *)
LEMMA NextGateInv == ReviewInv /\ [ReviewNext]_reviewVars => GateInv'
<1> SUFFICES ASSUME ReviewInv, [ReviewNext]_reviewVars PROVE GateInv'
  OBVIOUS
<1>0. GateInv /\ ReviewTypeOK /\ VerdictInv /\ ReviewTypeOK'
  BY ReviewNextType DEF ReviewInv
<1>1. ASSUME ci' = ci, sha' = sha PROVE Registered(sha)' = Registered(sha)
  BY <1>1 DEF Registered
<1>2. ASSUME ci' = ci, sha' = sha, red' = red
      PROVE  /\ GatePassed' = GatePassed
             /\ \A c \in red' : ci'[sha'][c] = "red"
  BY <1>0, <1>1, <1>2 DEF GatePassed, GateInv
<1>3. CASE GetPullRequest
  BY <1>0, <1>3 DEF GetPullRequest, GateInv
<1>4. CASE GateOpens
  <2>1. GatePassed
    BY <1>4, GateOpensPassed
  <2>2. QED
    BY <1>0, <1>2, <1>4, <2>1 DEF GateOpens, GateInv, local
<1>5. CASE \/ Dispatch \/ Restart \/ NotForReview \/ GateCloses \/ GetDiff
           \/ CreateReview \/ ReplaceLabels
  BY <1>0, <1>2, <1>5 DEF Dispatch, Restart, NotForReview, GateCloses, GetDiff, CreateReview,
                          ReplaceLabels, GateInv, VerdictInv, local
<1>6. ASSUME NEW v \in Verdicts, TakeVerdict(v) PROVE GateInv'
  BY <1>0, <1>2, <1>6 DEF TakeVerdict, GateInv
<1>7. CASE Raise \/ Die \/ ClassificationFails \/ DispatchRaises \/ Push
  BY <1>0, <1>2, <1>7 DEF Raise, Die, ClassificationFails, DispatchRaises, Push, GateInv, local
<1>8. ASSUME NEW s \in Heads, NEW c \in CheckRuns,
             StartCheck(s, c) \/ \E r \in {"green", "red"} : FinishCheck(s, c, r)
      PROVE  GateInv'
  BY <1>0, <1>8, CheckGateInv
<1>9. ASSUME NEW l \in EditLabels, EditLabel(l) PROVE GateInv'
  BY <1>0, <1>2, <1>9 DEF EditLabel, GateInv, local
<1>10. CASE UNCHANGED reviewVars
  BY <1>0, <1>2, <1>10 DEF reviewVars, GateInv, local
<1>11. QED
  BY <1>3, <1>4, <1>5, <1>6, <1>7, <1>8, <1>9, <1>10 DEF ReviewNext, DaemonStep

(* The inductive invariant of the review cycle. *)
THEOREM ReviewInvariance == ReviewSpec => []ReviewInv
<1>1. ReviewInit => ReviewInv
  <2> SUFFICES ASSUME ReviewInit PROVE ReviewInv
    OBVIOUS
  <2>1. LabelInv /\ VerdictInv
    BY DEF ReviewInit, LabelInv, LabelTellsVerdict, VerdictInv, NoLabel
  <2>2. GateInv
    BY DEF ReviewInit, GateInv
  <2>3. QED
    BY <2>1, <2>2, ReviewInitType DEF ReviewInv
<1>2. ReviewInv /\ [ReviewNext]_reviewVars => ReviewInv'
  BY ReviewNextType, NextLabelInv, NextVerdictInv, NextGateInv DEF ReviewInv
<1>3. QED
  BY <1>1, <1>2, PTL DEF ReviewSpec

(* The label tells the verdict of the last review (ReviewerWorker, which     *)
(* writes the review first and the label after it).                         *)
THEOREM LabelIsVerdict == ReviewSpec => []LabelTellsVerdict
<1>1. ReviewInv => LabelTellsVerdict
  BY DEF ReviewInv, LabelInv
<1>2. QED
  BY <1>1, ReviewInvariance, PTL

(* No approval against a red check run that a page of them shows, and none   *)
(* of a bake-off (_blocking_check_runs and handle_pull_request).            *)
THEOREM ApprovalIsGated == ReviewSpec => NoApprovalAgainstRed
<1> DEFINE Step ==
      last' # last /\ last'.verdict = "APPROVE" =>
        /\ ~bakeOff
        /\ red = {} \/ Cardinality(Registered(sha)) > PageSize
<1>1. ReviewInv /\ [ReviewNext]_reviewVars => [Step]_reviewVars
  <2> SUFFICES ASSUME ReviewInv, ReviewNext, last' # last, last'.verdict = "APPROVE"
               PROVE  ~bakeOff /\ GatePassed
    BY DEF GatePassed
  <2>1. CreateReview
    BY DEF ReviewNext, DaemonStep, Dispatch, Restart, GetPullRequest, NotForReview, GateCloses,
           GateOpens, GetDiff, TakeVerdict, ReplaceLabels, Raise, Die, ClassificationFails,
           DispatchRaises, Push, StartCheck, FinishCheck, EditLabel
  <2>2. pc = "review" /\ verdict = "APPROVE"
    BY <2>1 DEF CreateReview
  <2>3. QED
    BY <2>2 DEF ReviewInv, VerdictInv, GateInv
<1>2. QED
  BY <1>1, ReviewInvariance, PTL DEF ReviewSpec, NoApprovalAgainstRed
=============================================================================
