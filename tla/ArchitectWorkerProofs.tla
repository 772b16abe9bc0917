------------------------ MODULE ArchitectWorkerProofs ------------------------
(***************************************************************************)
(* Proofs about ArchitectWorker, for any plans the model may answer with,  *)
(* any number of issues and any number of interrupted runs: type           *)
(* correctness, EpicTracksItsPlan, and the action property CopiedLinesHold. *)
(***************************************************************************)
EXTENDS ArchitectWorker, SequenceTheorems, FiniteSetTheorems, TLAPS

(* What makes a feature tracked, for one of them. *)
Tracked(i) ==
  \E j \in Numbers :
    /\ origin[j].parent = i /\ origin[j].place = 1
    /\ \A k \in 1 .. Len(origin[j].plan) :
         [about |-> j + k - 1, deps |-> Wanted(j + k - 1)] \in lines[i]

(* The issues there were before the run began. *)
Before == Len(label) - Len(created)

(* While sub-issues are created, those of this run are the last ones, in the *)
(* order of the plan, and what they stand for is remembered with them.       *)
CreateInv ==
  pc = "create" =>
    /\ label[issue] = "feature" /\ plan \in Answers /\ ValidPlan(plan)
    /\ Len(created) <= Len(plan) /\ Before >= 1 /\ Before + Len(plan) <= MaxIssues
    /\ \A k \in 1 .. Len(created) :
         /\ created[k] = Before + k
         /\ origin[Before + k] =
              [parent |-> issue, first |-> Before + 1, plan |-> plan, place |-> k]

(* The label that says so is only written when the comment has been posted.  *)
RelabelInv ==
  /\ pc = "relabel" => target \in {"ready", "epic-tracking"}
  /\ pc = "relabel" /\ target = "epic-tracking" => Tracked(issue)

(* Only the first issue has no feature it comes from. *)
OriginInv == \A i \in Numbers \ {1} : origin[i].parent # 0

ArchitectInv ==
  ArchitectTypeOK /\ OriginInv /\ CreateInv /\ RelabelInv /\ EpicTracksItsPlan

(* The type invariant in two parts: the issues, and the run. *)
Line(n) == [about : 1 .. n, deps : SUBSET (1 .. n)]

Origin(n) ==
  [parent : 1 .. n \cup {0}, first : 1 .. n, plan : Answers \cup {<<>>}, place : Nat]

IssuesOK ==
  /\ label \in Seq(Planning \cup {"epic-tracking", "ready"})
  /\ Len(label) <= MaxIssues
  /\ closed \subseteq Numbers
  /\ lines \in Seq(SUBSET Line(Len(label))) /\ Len(lines) = Len(label)
  /\ origin \in Seq(Origin(Len(label))) /\ Len(origin) = Len(label)

RunOK ==
  /\ failed \subseteq Numbers
  /\ pc \in {"idle", "plan", "create", "relabel", "down"}
  /\ issue \in Numbers
  /\ plan \in Answers \cup {<<>>}
  /\ created \in Seq(Numbers)
  /\ aborts \in 0 .. MaxAborts

(* Together the two parts are the type invariant. *)
LEMMA TypeParts == ArchitectTypeOK <=> IssuesOK /\ RunOK
BY Zenon DEF ArchitectTypeOK, IssuesOK, RunOK, Line, Origin, Numbers

-----------------------------------------------------------------------------
(* A comment only gets more lines, and an issue keeps its number: a feature  *)
(* that is tracked stays so.                                                 *)
LEMMA TrackedStays ==
  ASSUME IssuesOK, Len(label') \in Nat, Len(label) <= Len(label'),
         \A x \in Numbers : origin'[x] = origin[x] /\ lines[x] \subseteq lines'[x]
  PROVE  \A i \in Numbers : Tracked(i) => Tracked(i)'
<1> SUFFICES ASSUME NEW i \in Numbers, Tracked(i) PROVE Tracked(i)'
  OBVIOUS
<1>1. PICK j \in Numbers :
        /\ origin[j].parent = i /\ origin[j].place = 1
        /\ \A k \in 1 .. Len(origin[j].plan) :
             [about |-> j + k - 1, deps |-> Wanted(j + k - 1)] \in lines[i]
  BY DEF Tracked
<1>2. Len(label) \in Nat /\ j \in Numbers'
  BY DEF IssuesOK, Numbers
<1>3. origin'[j] = origin[j]
  OBVIOUS
<1>4. ASSUME NEW k \in 1 .. Len(origin[j].plan)
      PROVE  [about |-> j + k - 1, deps |-> Wanted(j + k - 1)'] \in lines'[i]
  <2>1. lines[i] \subseteq Line(Len(label))
    <3>1. i \in 1 .. Len(lines)
      BY DEF IssuesOK, Numbers
    <3> QED
      BY <3>1, ElementOfSeq DEF IssuesOK
  <2>2. [about |-> j + k - 1, deps |-> Wanted(j + k - 1)] \in lines[i]
    BY <1>1
  <2>3. j + k - 1 \in Numbers
    BY <2>1, <2>2 DEF Line, Numbers
  <2>4. origin'[j + k - 1] = origin[j + k - 1]
    BY <2>3
  <2>5. Wanted(j + k - 1)' = Wanted(j + k - 1)
    BY <2>4, Zenon DEF Wanted
  <2> QED
    BY <2>2, <2>5, Zenon
<1> QED
  BY <1>1, <1>2, <1>3, <1>4, Zenon DEF Tracked

(* EpicTracksItsPlan in these terms. *)
EpicsTracked == \A i \in Numbers : label[i] = "epic-tracking" => Tracked(i)

(* It is the same as the property. *)
LEMMA EpicIsTracked == EpicTracksItsPlan <=> EpicsTracked
BY Zenon DEF EpicTracksItsPlan, EpicsTracked, Tracked

(* One feature, nothing planned. *)
LEMMA InitArchitectInv == ArchitectInit => ArchitectInv
<1> SUFFICES ASSUME ArchitectInit PROVE ArchitectInv
  OBVIOUS
<1>1. /\ label = <<"feature">> /\ closed = {} /\ lines = <<{}>> /\ pc = "idle"
      /\ origin = <<[parent |-> 0, first |-> 1, plan |-> <<>>, place |-> 0]>>
      /\ issue = 1 /\ plan = <<>> /\ created = <<>> /\ aborts = 0 /\ failed = {}
  BY Zenon DEF ArchitectInit
<1>2. Len(label) = 1 /\ Numbers = 1 .. 1 /\ 1 \in Numbers /\ label[1] = "feature"
  BY <1>1 DEF Numbers
<1>3. IssuesOK
  <2>1. label \in Seq(Planning \cup {"epic-tracking", "ready"})
    BY <1>1 DEF Planning
  <2>2. lines \in Seq(SUBSET Line(1)) /\ Len(lines) = 1
    BY <1>1
  <2>3. [parent |-> 0, first |-> 1, plan |-> <<>>, place |-> 0] \in Origin(1)
    <3>1. 0 \in Nat /\ 1 \in 1 .. 1 /\ 0 \in 1 .. 1 \cup {0}
      OBVIOUS
    <3> QED
      BY <3>1, Zenon DEF Origin
  <2>4. origin \in Seq(Origin(1)) /\ Len(origin) = 1
    BY <1>1, <2>3
  <2> QED
    BY <1>1, <1>2, <2>1, <2>2, <2>4, ArchitectBounds DEF IssuesOK
<1>4. RunOK
  BY <1>1, <1>2, EmptySeq, ArchitectBounds DEF RunOK
<1>5. OriginInv /\ EpicTracksItsPlan
  BY <1>1, <1>2, EpicIsTracked DEF OriginInv, EpicsTracked
<1>6. CreateInv /\ RelabelInv
  BY <1>1 DEF CreateInv, RelabelInv
<1> QED
  BY <1>3, <1>4, <1>5, <1>6, TypeParts DEF ArchitectInv
-----------------------------------------------------------------------------
(* Where nothing changes on GitHub, what is tracked stays tracked.           *)
LEMMA GithubKept ==
  ASSUME IssuesOK, OriginInv, EpicTracksItsPlan, UNCHANGED github
  PROVE  /\ IssuesOK' /\ OriginInv' /\ EpicTracksItsPlan'
         /\ \A i \in Numbers : Tracked(i) => Tracked(i)'
         /\ Numbers' = Numbers
<1>1. label' = label /\ closed' = closed /\ lines' = lines /\ origin' = origin
  BY DEF github
<1>2. Numbers' = Numbers
  BY <1>1 DEF Numbers
<1>3. IssuesOK'
  BY <1>1, <1>2, Zenon DEF IssuesOK
<1>4. OriginInv'
  BY <1>1, <1>2, Zenon DEF OriginInv
<1>5. \A i \in Numbers : Tracked(i) => Tracked(i)'
  <2>1. Len(label') \in Nat /\ Len(label) <= Len(label')
    BY <1>1 DEF IssuesOK
  <2>2. \A x \in Numbers : origin'[x] = origin[x] /\ lines[x] \subseteq lines'[x]
    BY <1>1, Zenon
  <2> QED
    BY <2>1, <2>2, TrackedStays
<1>6. EpicTracksItsPlan'
  <2>1. EpicsTracked'
    BY <1>1, <1>2, <1>5, EpicIsTracked, Zenon DEF EpicsTracked
  <2> QED
    BY <2>1, EpicIsTracked, PTL
<1> QED
  BY <1>2, <1>3, <1>4, <1>5, <1>6

(* A run begins: nothing changes on GitHub. *)
LEMMA DispatchStep ==
  ASSUME ArchitectInv, NEW i \in Numbers, Dispatch(i)
  PROVE  ArchitectInv'
<1>1. IssuesOK' /\ OriginInv' /\ EpicTracksItsPlan' /\ Numbers' = Numbers
  BY TypeParts, GithubKept DEF ArchitectInv, Dispatch
<1>2. RunOK'
  BY TypeParts, <1>1 DEF ArchitectInv, Dispatch, RunOK
<1>3. CreateInv' /\ RelabelInv'
  BY DEF Dispatch, CreateInv, RelabelInv
<1> QED
  BY <1>1, <1>2, <1>3, TypeParts, PTL DEF ArchitectInv

(* The dispatcher fails, or the next life begins: only the events know. *)
LEMMA OtherDispatchSteps ==
  ASSUME ArchitectInv,
         (\E i \in Numbers : ClassificationFails(i)) \/ DispatchRaises \/ Restart
  PROVE  ArchitectInv'
<1>0. RunOK
  BY TypeParts DEF ArchitectInv
<1>1. /\ UNCHANGED github /\ pc' \in {"idle", "down"} /\ issue' = issue /\ plan' = plan
      /\ created' = created /\ aborts' = aborts /\ failed' \subseteq Numbers
  BY <1>0 DEF ClassificationFails, DispatchRaises, Restart, RunOK
<1>2. IssuesOK' /\ OriginInv' /\ EpicTracksItsPlan' /\ Numbers' = Numbers
  BY <1>1, TypeParts, GithubKept DEF ArchitectInv
<1>3. RunOK'
  BY <1>0, <1>1, <1>2 DEF RunOK
<1>4. CreateInv' /\ RelabelInv'
  BY <1>1 DEF CreateInv, RelabelInv
<1> QED
  BY <1>2, <1>3, <1>4, TypeParts, PTL DEF ArchitectInv

(* A checklist is posted: nothing the lines are about. *)
LEMMA PostChecklistStep ==
  ASSUME ArchitectInv, PostChecklist
  PROVE  ArchitectInv'
<1>1. IssuesOK' /\ OriginInv' /\ EpicTracksItsPlan' /\ Numbers' = Numbers
  BY TypeParts, GithubKept DEF ArchitectInv, PostChecklist, github
<1>2. RunOK'
  BY TypeParts, <1>1 DEF ArchitectInv, PostChecklist, RunOK
<1>3. CreateInv' /\ RelabelInv'
  BY DEF PostChecklist, CreateInv, RelabelInv
<1> QED
  BY <1>1, <1>2, <1>3, TypeParts, PTL DEF ArchitectInv

(* A plan that fits leaves room for all its sub-issues.                      *)
LEMMA FitsHasRoom ==
  ASSUME IssuesOK, RunOK, NEW p \in Answers, Fits(p)
  PROVE  Len(label) + Len(p) <= MaxIssues
<1> DEFINE features == {i \in Numbers \ {issue} : label[i] = "feature"}
           parts    == {k \in DOMAIN p : p[k].feature}
<1>1. Len(label) \in Nat /\ Len(p) \in Nat /\ DOMAIN p = 1 .. Len(p)
  BY AnswersType DEF IssuesOK
<1>2. Cardinality(features) \in Nat
  <2>1. IsFiniteSet(Numbers) /\ features \subseteq Numbers
    BY <1>1, FS_Interval DEF Numbers
  <2> QED
    BY <2>1, FS_Subset, FS_CardinalityType, Zenon
<1>3. Cardinality(parts) \in Nat
  <2>1. IsFiniteSet(1 .. Len(p)) /\ parts \subseteq 1 .. Len(p)
    BY <1>1, FS_Interval
  <2> QED
    BY <2>1, FS_Subset, FS_CardinalityType, Zenon
<1>4. MaxAborts - aborts \in Nat /\ MaxIssues \in Nat
  BY ArchitectBounds DEF RunOK
<1>5. Len(label) + Len(p) + Cardinality(features) + Cardinality(parts)
        + (MaxAborts - aborts) <= MaxIssues
  BY Zenon DEF Fits
<1> HIDE DEF features, parts
<1> QED
  BY <1>1, <1>2, <1>3, <1>4, <1>5

(* The model has answered: no sub-issue yet, and room for all of them. *)
LEMMA TakePlanStep ==
  ASSUME ArchitectInv, NEW p \in Answers, TakePlan(p)
  PROVE  ArchitectInv'
<1>0. IssuesOK /\ RunOK
  BY TypeParts DEF ArchitectInv
<1>1. IssuesOK' /\ OriginInv' /\ EpicTracksItsPlan' /\ Numbers' = Numbers
  BY <1>0, GithubKept DEF ArchitectInv, TakePlan
<1>2. /\ label[issue] = "feature" /\ ValidPlan(p) /\ Fits(p) /\ plan' = p /\ created' = <<>>
      /\ pc' = "create" /\ issue' = issue /\ aborts' = aborts /\ label' = label
      /\ failed' = failed
  BY DEF TakePlan, github
<1>3. RunOK'
  BY <1>0, <1>1, <1>2, EmptySeq DEF RunOK
<1>4. CreateInv'
  <2>1. Len(label) \in Nat \ {0} /\ Len(p) \in Nat /\ Len(created') = 0
    <3>1. Len(label) >= 1
      BY <1>0 DEF RunOK, IssuesOK, Numbers
    <3> QED
      BY <1>0, <1>2, <3>1, AnswersType DEF IssuesOK
  <2>2. Len(label) + Len(p) <= MaxIssues
    BY <1>0, <1>2, FitsHasRoom
  <2>3. Before' = Len(label)
    BY <1>2, <2>1 DEF Before
  <2>4. ValidPlan(plan)'
    BY <1>2, Zenon DEF ValidPlan
  <2> QED
    BY <1>2, <2>1, <2>2, <2>3, <2>4 DEF CreateInv
<1>5. RelabelInv'
  BY <1>2 DEF RelabelInv
<1> QED
  BY <1>1, <1>3, <1>4, <1>5, TypeParts, PTL DEF ArchitectInv

(* A run that ends leaves its sub-issues behind and nothing else. *)
LEMMA AbortStep ==
  ASSUME ArchitectInv, Raise \/ Die
  PROVE  ArchitectInv'
<1>0. IssuesOK /\ RunOK
  BY TypeParts DEF ArchitectInv
<1>1. UNCHANGED github
  BY DEF Raise, Die
<1>2. /\ pc' \in {"idle", "down"} /\ issue' = 1 /\ plan' = <<>> /\ created' = <<>>
      /\ aborts' = aborts + 1 /\ aborts < MaxAborts
      /\ failed' \subseteq failed \cup {issue}
  BY DEF Raise, Die, EndRun
<1>5. IssuesOK' /\ OriginInv' /\ EpicTracksItsPlan' /\ Numbers' = Numbers
  BY <1>0, <1>1, GithubKept DEF ArchitectInv
<1>3. 1 \in Numbers
  BY <1>0 DEF RunOK, IssuesOK, Numbers
<1>4. RunOK'
  BY <1>0, <1>2, <1>3, <1>5, EmptySeq, ArchitectBounds DEF RunOK
<1>6. CreateInv' /\ RelabelInv'
  BY <1>2 DEF CreateInv, RelabelInv
<1> QED
  BY <1>4, <1>5, <1>6, TypeParts, PTL DEF ArchitectInv
-----------------------------------------------------------------------------
(* Elements of the sequences of issues. *)
LEMMA IssueParts ==
  ASSUME IssuesOK
  PROVE  /\ Len(label) \in Nat /\ DOMAIN label = Numbers
         /\ \A x \in Numbers : /\ label[x] \in Planning \cup {"epic-tracking", "ready"}
                               /\ lines[x] \subseteq Line(Len(label))
                               /\ origin[x] \in Origin(Len(label))
<1>1. Len(label) \in Nat /\ DOMAIN label = Numbers
  BY DEF IssuesOK, Numbers
<1>2. ASSUME NEW x \in Numbers
      PROVE  /\ label[x] \in Planning \cup {"epic-tracking", "ready"}
             /\ lines[x] \subseteq Line(Len(label))
             /\ origin[x] \in Origin(Len(label))
  <2>1. x \in 1 .. Len(label) /\ x \in 1 .. Len(lines) /\ x \in 1 .. Len(origin)
    BY DEF IssuesOK, Numbers
  <2> QED
    BY <2>1, ElementOfSeq DEF IssuesOK
<1> QED
  BY <1>1, <1>2

(* The next sub-issue is the last issue, and the next one of the plan. *)
LEMMA CreateIssueStep ==
  ASSUME ArchitectInv, CreateIssue
  PROVE  ArchitectInv'
<1> DEFINE n == Len(label) + 1
           k == Len(created) + 1
           new == [parent |-> issue, plan |-> plan, place |-> k,
                   first |-> IF k = 1 THEN n ELSE created[1]]
<1>0. IssuesOK /\ RunOK /\ CreateInv
  BY TypeParts DEF ArchitectInv
<1>1. /\ pc = "create" /\ pc' = pc /\ issue' = issue /\ plan' = plan /\ aborts' = aborts
      /\ closed' = closed /\ failed' = failed /\ Len(created) < Len(plan)
      /\ \E l \in Planning : label' = Append(label, l)
      /\ created' = Append(created, n)
      /\ lines' = Append(lines, {})
      /\ origin' = Append(origin, new)
  BY DEF CreateIssue, Planning
<1>2. /\ label[issue] = "feature" /\ plan \in Answers /\ ValidPlan(plan)
      /\ Len(created) <= Len(plan) /\ Before >= 1 /\ Before + Len(plan) <= MaxIssues
      /\ \A x \in 1 .. Len(created) :
           /\ created[x] = Before + x
           /\ origin[Before + x] =
                [parent |-> issue, first |-> Before + 1, plan |-> plan, place |-> x]
  BY <1>0, <1>1 DEF CreateInv
<1>3. /\ Len(label) \in Nat /\ Len(created) \in Nat /\ Len(plan) \in Nat
      /\ MaxIssues \in Nat /\ n \in Nat /\ k \in Nat /\ n = Before + k /\ n <= MaxIssues
      /\ Before \in Nat
  <2>1. Len(label) \in Nat /\ Len(created) \in Nat /\ MaxIssues \in Nat
    BY <1>0, ArchitectBounds DEF IssuesOK, RunOK
  <2>2. Len(plan) \in Nat
    BY <1>2, AnswersType
  <2>3. Before = Len(label) - Len(created)
    BY DEF Before
  <2> QED
    BY <1>1, <1>2, <2>1, <2>2, <2>3
<1>4. new = [parent |-> issue, first |-> Before + 1, plan |-> plan, place |-> k]
  <2>1. (IF k = 1 THEN n ELSE created[1]) = Before + 1
    <3>1. CASE k = 1
      BY <1>3, <3>1
    <3>2. CASE k # 1
      <4>1. 1 \in 1 .. Len(created)
        BY <1>3, <3>2
      <4> QED
        BY <1>2, <3>2, <4>1
    <3> QED
      BY <3>1, <3>2
  <2> QED
    BY <2>1
<1>5. /\ Len(label') = n /\ Numbers' = 1 .. n /\ Numbers \subseteq Numbers' /\ n \notin Numbers
      /\ label'[n] \in Planning
      /\ \A x \in Numbers : label'[x] = label[x] /\ origin'[x] = origin[x] /\ lines'[x] = lines[x]
      /\ lines'[n] = {} /\ origin'[n] = new
      /\ label' \in Seq(Planning \cup {"epic-tracking", "ready"})
      /\ Len(lines') = n /\ Len(origin') = n
  BY <1>0, <1>1, <1>3 DEF IssuesOK, Numbers
<1>6. IssuesOK'
  <2>1. lines' \in Seq(SUBSET Line(n))
    <3>1. SUBSET Line(Len(label)) \subseteq SUBSET Line(n)
      BY <1>3 DEF Line
    <3>2. lines \in Seq(SUBSET Line(n))
      BY <1>0, <3>1, SeqMonotonic DEF IssuesOK
    <3> QED
      BY <1>1, <3>2
  <2>2. origin' \in Seq(Origin(n))
    <3>1. Origin(Len(label)) \subseteq Origin(n)
      BY <1>3 DEF Origin
    <3>2. origin \in Seq(Origin(n))
      BY <1>0, <3>1, SeqMonotonic DEF IssuesOK
    <3>3. new \in Origin(n)
      <4>1. issue \in 1 .. n \cup {0} /\ Before + 1 \in 1 .. n
        BY <1>0, <1>3 DEF RunOK, Numbers
      <4> QED
        BY <1>2, <1>3, <1>4, <4>1 DEF Origin
    <3> HIDE DEF new
    <3> QED
      BY <1>1, <3>2, <3>3
  <2>3. closed' \subseteq Numbers'
    BY <1>0, <1>1, <1>5 DEF IssuesOK
  <2> HIDE DEF n, new
  <2> QED
    BY <1>3, <1>5, <2>1, <2>2, <2>3 DEF IssuesOK
<1>7. RunOK'
  <2>1. created \in Seq(Numbers')
    BY <1>0, <1>5, SeqMonotonic DEF RunOK
  <2>2. n \in Numbers'
    BY <1>3, <1>5
  <2>3. created' \in Seq(Numbers')
    BY <1>1, <2>1, <2>2
  <2>4. issue' \in Numbers' /\ failed' \subseteq Numbers'
    BY <1>0, <1>1, <1>5 DEF RunOK
  <2> QED
    BY <1>0, <1>1, <2>3, <2>4 DEF RunOK
<1>8. OriginInv'
  <2>1. issue # 0
    BY <1>0 DEF RunOK, Numbers
  <2>2. \A x \in Numbers' : x \in Numbers \/ x = n
    BY <1>3, <1>5 DEF Numbers
  <2> QED
    BY <1>4, <1>5, <2>1, <2>2 DEF ArchitectInv, OriginInv
<1>9. CreateInv'
  <2>1. Len(created') = k /\ created'[k] = n /\ \A x \in 1 .. Len(created) : created'[x] = created[x]
    BY <1>0, <1>1, <1>3 DEF RunOK
  <2>2. Before' = Before
    BY <1>3, <1>5, <2>1 DEF Before
  <2>3. label'[issue'] = "feature" /\ ValidPlan(plan)'
    BY <1>0, <1>1, <1>2, <1>5 DEF RunOK, ValidPlan
  <2>4. ASSUME NEW x \in 1 .. k
        PROVE  /\ created'[x] = Before + x
               /\ origin'[Before + x] =
                    [parent |-> issue, first |-> Before + 1, plan |-> plan, place |-> x]
    <3>1. CASE x = k
      BY <1>3, <1>4, <1>5, <2>1, <3>1
    <3>2. CASE x # k
      <4>1. x \in 1 .. Len(created)
        BY <1>3, <3>2
      <4>2. Before + x \in Numbers
        BY <1>3, <4>1 DEF Numbers, Before
      <4> QED
        BY <1>2, <1>5, <2>1, <4>1, <4>2
    <3> QED
      BY <3>1, <3>2
  <2>5. Len(created') <= Len(plan') /\ Before' >= 1 /\ Before' + Len(plan') <= MaxIssues
    BY <1>1, <1>2, <1>3, <2>1, <2>2
  <2>6. \A x \in 1 .. Len(created') :
          /\ created'[x] = Before' + x
          /\ origin'[Before' + x] =
               [parent |-> issue', first |-> Before' + 1, plan |-> plan', place |-> x]
    BY <1>1, <2>1, <2>2, <2>4
  <2>7. plan' \in Answers
    BY <1>1, <1>2
  <2> HIDE DEF n, k, new
  <2> QED
    BY <2>3, <2>5, <2>6, <2>7, Zenon DEF CreateInv
<1>10. RelabelInv'
  BY <1>1 DEF RelabelInv
<1>11. EpicTracksItsPlan'
  <2>1. \A i \in Numbers : Tracked(i) => Tracked(i)'
    BY <1>0, <1>3, <1>5, TrackedStays
  <2>2. EpicsTracked
    BY EpicIsTracked DEF ArchitectInv
  <2>3. \A x \in Numbers' : x \in Numbers \/ x = n
    BY <1>3, <1>5 DEF Numbers
  <2>4. label'[n] # "epic-tracking"
    BY <1>5 DEF Planning
  <2>5. EpicsTracked'
    BY <1>5, <2>1, <2>2, <2>3, <2>4 DEF EpicsTracked
  <2> QED
    BY <2>5, EpicIsTracked, PTL
<1> QED
  BY <1>6, <1>7, <1>8, <1>9, <1>10, <1>11, TypeParts, PTL DEF ArchitectInv
-----------------------------------------------------------------------------
(* The tracking comment: the places of the plan become the numbers of the    *)
(* issues that were created for them.                                        *)
LEMMA TrackingIsThePlan ==
  ASSUME IssuesOK, RunOK, CreateInv, pc = "create", Len(created) = Len(plan)
  PROVE  /\ Tracking \subseteq Line(Len(label))
         /\ \E j \in Numbers :
              /\ origin[j].parent = issue /\ origin[j].place = 1
              /\ \A k \in 1 .. Len(origin[j].plan) :
                   [about |-> j + k - 1, deps |-> Wanted(j + k - 1)] \in Tracking
         /\ \A l \in Tracking : l.deps = Wanted(l.about)
<1>1. /\ plan \in Answers /\ ValidPlan(plan) /\ Before >= 1
      /\ \A x \in 1 .. Len(created) :
           /\ created[x] = Before + x
           /\ origin[Before + x] =
                [parent |-> issue, first |-> Before + 1, plan |-> plan, place |-> x]
  BY DEF CreateInv
<1>2. /\ Len(label) \in Nat /\ Len(created) \in Nat /\ Before \in Nat
      /\ Before + Len(created) = Len(label)
      /\ plan \in Seq([deps : SUBSET Nat, feature : BOOLEAN])
  <2>1. Len(label) \in Nat /\ Len(created) \in Nat
    BY DEF IssuesOK, RunOK
  <2> QED
    BY <1>1, <2>1, AnswersType DEF Before
<1>3. DOMAIN plan = 1 .. Len(created) /\ Len(created) >= 1
  <2>1. plan # <<>>
    BY <1>1 DEF ValidPlan
  <2> QED
    BY <1>2, <2>1
<1>4. \A k \in 1 .. Len(created) : plan[k].deps \subseteq 1 .. Len(created)
  BY <1>1, <1>3 DEF ValidPlan
<1>5. ASSUME NEW x \in 1 .. Len(created)
      PROVE  /\ Before + x \in Numbers /\ created[x] = Before + x
             /\ origin[Before + x] =
                  [parent |-> issue, first |-> Before + 1, plan |-> plan, place |-> x]
  <2>1. Before + x \in Numbers
    BY <1>2 DEF Numbers
  <2> QED
    BY <1>1, <2>1, Zenon
<1>6. Tracking \subseteq Line(Len(label))
  <2> SUFFICES ASSUME NEW k \in 1 .. Len(created)
               PROVE  [about |-> created[k], deps |-> {created[d] : d \in plan[k].deps}]
                        \in Line(Len(label))
    BY <1>3 DEF Tracking
  <2>1. created[k] \in 1 .. Len(label)
    BY <1>5 DEF Numbers
  <2>2. {created[d] : d \in plan[k].deps} \subseteq 1 .. Len(label)
    BY <1>4, <1>5 DEF Numbers
  <2> QED
    BY <2>1, <2>2 DEF Line
<1>7. ASSUME NEW k \in 1 .. Len(created)
      PROVE  /\ [about |-> Before + k, deps |-> Wanted(Before + k)] \in Tracking
             /\ created[k] = Before + k
             /\ Wanted(Before + k) = {created[d] : d \in plan[k].deps}
  <2>1. Before + k # 1
    BY <1>1, <1>2
  <2>2. /\ origin[Before + k].first = Before + 1
        /\ origin[Before + k].plan = plan /\ origin[Before + k].place = k
    <3>1. origin[Before + k] =
            [parent |-> issue, first |-> Before + 1, plan |-> plan, place |-> k]
      BY <1>5, Zenon
    <3> QED
      BY <3>1
  <2>3. Wanted(Before + k) = {(Before + 1) + d - 1 : d \in plan[k].deps}
    BY <2>1, <2>2 DEF Wanted
  <2>4. \A d \in plan[k].deps : (Before + 1) + d - 1 = created[d]
    <3> TAKE d \in plan[k].deps
    <3>1. d \in 1 .. Len(created)
      BY <1>4
    <3>2. (Before + 1) + d - 1 = Before + d
      BY <1>2, <3>1
    <3> QED
      BY <1>5, <3>1, <3>2
  <2>5. Wanted(Before + k) = {created[d] : d \in plan[k].deps}
    BY <2>3, <2>4
  <2>6. created[k] = Before + k
    BY <1>5
  <2> QED
    BY <1>3, <2>5, <2>6 DEF Tracking
<1>8. 1 \in 1 .. Len(created)
  BY <1>2, <1>3
<1>9. /\ Before + 1 \in Numbers
      /\ origin[Before + 1].parent = issue /\ origin[Before + 1].place = 1
      /\ origin[Before + 1].plan = plan
  <2>1. /\ Before + 1 \in Numbers
        /\ origin[Before + 1] =
             [parent |-> issue, first |-> Before + 1, plan |-> plan, place |-> 1]
    BY <1>5, <1>8, Zenon
  <2> QED
    BY <2>1
<1>10. ASSUME NEW k \in 1 .. Len(origin[Before + 1].plan)
       PROVE  [about |-> (Before + 1) + k - 1, deps |-> Wanted((Before + 1) + k - 1)] \in Tracking
  <2>1. k \in 1 .. Len(created) /\ (Before + 1) + k - 1 = Before + k
    BY <1>2, <1>9
  <2> QED
    BY <1>7, <2>1
<1>11. ASSUME NEW l \in Tracking
       PROVE  l.deps = Wanted(l.about)
  <2>1. PICK k \in 1 .. Len(created) :
          l = [about |-> created[k], deps |-> {created[d] : d \in plan[k].deps}]
    BY <1>3 DEF Tracking
  <2>2. l.about = created[k] /\ l.deps = {created[d] : d \in plan[k].deps}
    BY <2>1
  <2> QED
    BY <1>7, <2>2
<1> QED
  BY <1>6, <1>9, <1>10, <1>11, Zenon

(* With the comment the feature is tracked, before its label says so. *)
LEMMA PostTrackingStep ==
  ASSUME ArchitectInv, PostTracking
  PROVE  ArchitectInv'
<1>0. IssuesOK /\ RunOK /\ CreateInv
  BY TypeParts DEF ArchitectInv
<1>1. /\ pc = "create" /\ Len(created) = Len(plan) /\ pc' = "relabel"
      /\ lines' = [lines EXCEPT ![issue] = @ \cup Tracking] /\ target' = "epic-tracking"
      /\ label' = label /\ closed' = closed /\ origin' = origin /\ issue' = issue
      /\ plan' = plan /\ created' = created /\ aborts' = aborts /\ failed' = failed
  BY DEF PostTracking
<1>2. Numbers' = Numbers /\ issue \in Numbers
  BY <1>0, <1>1 DEF Numbers, RunOK
<1>3. Tracking \subseteq Line(Len(label))
  BY <1>0, <1>1, TrackingIsThePlan
<1>4. /\ lines'[issue] = lines[issue] \cup Tracking
      /\ \A x \in Numbers : lines[x] \subseteq lines'[x]
  BY <1>0, <1>1, <1>2 DEF IssuesOK, Numbers
<1>5. IssuesOK'
  <2>1. lines[issue] \cup Tracking \in SUBSET Line(Len(label)) /\ issue \in 1 .. Len(lines)
    BY <1>0, <1>2, <1>3, IssueParts DEF IssuesOK, Numbers
  <2>2. lines' \in Seq(SUBSET Line(Len(label))) /\ Len(lines') = Len(lines)
    BY <1>0, <1>1, <2>1, ExceptSeq DEF IssuesOK
  <2> QED
    BY <1>0, <1>1, <1>2, <2>2 DEF IssuesOK
<1>6. RunOK'
  BY <1>0, <1>1, <1>2 DEF RunOK
<1>7. OriginInv' /\ CreateInv'
  BY <1>1, <1>2 DEF ArchitectInv, OriginInv, CreateInv
<1>8. Tracked(issue)'
  <2>1. PICK j \in Numbers :
          /\ origin[j].parent = issue /\ origin[j].place = 1
          /\ \A k \in 1 .. Len(origin[j].plan) :
               [about |-> j + k - 1, deps |-> Wanted(j + k - 1)] \in Tracking
    BY <1>0, <1>1, TrackingIsThePlan
  <2>2. \A x : Wanted(x)' = Wanted(x)
    BY <1>1 DEF Wanted
  <2>3. \A k \in 1 .. Len(origin[j].plan) :
          [about |-> j + k - 1, deps |-> Wanted(j + k - 1)'] \in lines'[issue]
    BY <1>4, <2>1, <2>2
  <2> QED
    BY <1>1, <1>2, <2>1, <2>3, Zenon DEF Tracked
<1>9. RelabelInv'
  BY <1>1, <1>8 DEF RelabelInv
<1>10. EpicTracksItsPlan'
  <2>1. \A i \in Numbers : Tracked(i) => Tracked(i)'
    <3>1. Len(label') \in Nat /\ Len(label) <= Len(label')
      BY <1>0, <1>1 DEF IssuesOK
    <3> QED
      BY <1>0, <1>1, <1>4, <3>1, TrackedStays
  <2>2. EpicsTracked'
    BY <1>1, <1>2, <2>1, EpicIsTracked DEF ArchitectInv, EpicsTracked
  <2> QED
    BY <2>2, EpicIsTracked, PTL
<1> QED
  BY <1>5, <1>6, <1>7, <1>9, <1>10, TypeParts, PTL DEF ArchitectInv

(* A feature gets its label when it is tracked. *)
LEMMA RelabelStep ==
  ASSUME ArchitectInv, Relabel
  PROVE  ArchitectInv'
<1>0. IssuesOK /\ RunOK /\ RelabelInv
  BY TypeParts DEF ArchitectInv
<1>1. /\ pc = "relabel" /\ label' = [label EXCEPT ![issue] = target]
      /\ pc' = "idle" /\ issue' = 1 /\ plan' = <<>> /\ created' = <<>>
      /\ closed' = closed /\ lines' = lines /\ origin' = origin /\ aborts' = aborts
      /\ failed' = failed
  BY DEF Relabel, EndRun
<1>2. target \in {"ready", "epic-tracking"} /\ (target = "epic-tracking" => Tracked(issue))
  BY <1>0, <1>1 DEF RelabelInv
<1>3. issue \in 1 .. Len(label) /\ Len(label) \in Nat
  BY <1>0 DEF RunOK, IssuesOK, Numbers
<1>4. /\ label' \in Seq(Planning \cup {"epic-tracking", "ready"}) /\ Len(label') = Len(label)
      /\ \A x \in 1 .. Len(label) : label'[x] = IF x = issue THEN target ELSE label[x]
  BY <1>0, <1>1, <1>2, <1>3 DEF IssuesOK
<1>5. Numbers' = Numbers
  BY <1>4 DEF Numbers
<1>6. IssuesOK'
  BY <1>0, <1>1, <1>4, <1>5 DEF IssuesOK
<1>7. RunOK'
  BY <1>0, <1>1, <1>3, <1>5, EmptySeq DEF RunOK, Numbers
<1>8. OriginInv' /\ CreateInv' /\ RelabelInv'
  BY <1>1, <1>5 DEF ArchitectInv, OriginInv, CreateInv, RelabelInv
<1>9. EpicTracksItsPlan'
  <2>1. \A i \in Numbers : Tracked(i) => Tracked(i)'
    BY <1>0, <1>1, <1>3, <1>4, TrackedStays
  <2>2. EpicsTracked'
    BY <1>2, <1>4, <1>5, <2>1, EpicIsTracked DEF ArchitectInv, EpicsTracked, Numbers
  <2> QED
    BY <2>2, EpicIsTracked, PTL
<1> QED
  BY <1>6, <1>7, <1>8, <1>9, TypeParts, PTL DEF ArchitectInv

(* People: an issue is closed, or the line of a sub-issue is copied to it.   *)
LEMMA PeopleSteps ==
  ASSUME ArchitectInv, NEW i \in Numbers, Close(i) \/ CopyLine(i)
  PROVE  ArchitectInv'
<1>0. IssuesOK /\ RunOK
  BY TypeParts DEF ArchitectInv
<1>1. /\ label' = label /\ origin' = origin /\ pc' = pc /\ issue' = issue /\ plan' = plan
      /\ created' = created /\ target' = target /\ aborts' = aborts /\ failed' = failed
  BY DEF Close, CopyLine
<1>2. Numbers' = Numbers /\ Before' = Before
  BY <1>1 DEF Numbers, Before
<1>3. /\ closed' \subseteq Numbers
      /\ lines' \in Seq(SUBSET Line(Len(label))) /\ Len(lines') = Len(lines)
      /\ \A x \in Numbers : lines[x] \subseteq lines'[x]
  <2>1. CASE Close(i)
    BY <1>0, <2>1 DEF Close, IssuesOK
  <2>2. CASE CopyLine(i)
    <3> DEFINE own == {l \in lines[origin[i].parent] : l.about = i /\ l.deps # {}}
    <3>1. /\ i # 1 /\ closed' = closed /\ lines' = [lines EXCEPT ![i] = @ \cup own]
      BY <2>2 DEF CopyLine
    <3>2. origin[i].parent \in Numbers
      BY <1>0, <3>1, IssueParts DEF ArchitectInv, OriginInv, Origin, Numbers
    <3>3. own \subseteq Line(Len(label))
      BY <1>0, <3>2, IssueParts
    <3> HIDE DEF own
    <3>4. lines[i] \cup own \in SUBSET Line(Len(label)) /\ i \in 1 .. Len(lines)
      BY <1>0, <3>3, IssueParts DEF IssuesOK, Numbers
    <3>5. lines' \in Seq(SUBSET Line(Len(label))) /\ Len(lines') = Len(lines)
      BY <1>0, <3>1, <3>4, ExceptSeq DEF IssuesOK
    <3>6. \A x \in Numbers : lines[x] \subseteq lines'[x]
      BY <1>0, <3>1 DEF IssuesOK, Numbers
    <3> QED
      BY <1>0, <3>1, <3>5, <3>6 DEF IssuesOK
  <2> QED
    BY <2>1, <2>2
<1>4. IssuesOK'
  BY <1>0, <1>1, <1>2, <1>3 DEF IssuesOK
<1>5. RunOK'
  BY <1>0, <1>1, <1>2, Zenon DEF RunOK
<1>6. OriginInv'
  BY <1>1, <1>2 DEF ArchitectInv, OriginInv
<1>7. CreateInv'
  BY <1>1, <1>2, Zenon DEF ArchitectInv, CreateInv, ValidPlan
<1>8. \A x \in Numbers : Tracked(x) => Tracked(x)'
  <2>1. Len(label') \in Nat /\ Len(label) <= Len(label')
    BY <1>0, <1>1 DEF IssuesOK
  <2> QED
    BY <1>0, <1>1, <1>3, <2>1, TrackedStays
<1>9. RelabelInv'
  <2>1. issue \in Numbers
    BY <1>0 DEF RunOK
  <2>2. PICK b \in Numbers : b = issue
    BY <2>1
  <2>3. Tracked(b) => Tracked(b)'
    BY <1>8
  <2>4. b = issue /\ b = issue'
    BY <1>1, <2>2
  <2> QED
    BY <1>1, <2>3, <2>4, Zenon DEF ArchitectInv, RelabelInv, Tracked
<1>10. EpicTracksItsPlan'
  <2>1. EpicsTracked'
    BY <1>1, <1>2, <1>8, EpicIsTracked DEF ArchitectInv, EpicsTracked
  <2> QED
    BY <2>1, EpicIsTracked, PTL
<1> QED
  BY <1>4, <1>5, <1>6, <1>7, <1>9, <1>10, TypeParts, PTL DEF ArchitectInv

(* A step of nobody keeps the invariant. *)
LEMMA StutterStep ==
  ASSUME ArchitectInv, UNCHANGED architectVars
  PROVE  ArchitectInv'
<1>0. IssuesOK /\ RunOK
  BY TypeParts DEF ArchitectInv
<1>1. /\ UNCHANGED github /\ pc' = pc /\ issue' = issue /\ plan' = plan /\ created' = created
      /\ target' = target /\ aborts' = aborts /\ failed' = failed
  BY DEF architectVars
<1>2. /\ IssuesOK' /\ OriginInv' /\ EpicTracksItsPlan' /\ Numbers' = Numbers
  BY <1>0, <1>1, GithubKept DEF ArchitectInv
<1>3. RunOK'
  BY <1>0, <1>1, <1>2, Zenon DEF RunOK
<1>4. label' = label /\ origin' = origin /\ lines' = lines
  BY <1>1 DEF github
<1>5. CreateInv'
  BY <1>1, <1>4, Zenon DEF ArchitectInv, CreateInv, ValidPlan, Before
<1>6. RelabelInv'
  <2>1. PICK b \in Numbers : b = issue
    BY <1>0 DEF RunOK
  <2>2. Tracked(b) => Tracked(b)'
    BY <1>0, <1>1, GithubKept DEF ArchitectInv
  <2>3. b = issue /\ b = issue'
    BY <1>1, <2>1
  <2> QED
    BY <1>1, <2>2, <2>3, Zenon DEF ArchitectInv, RelabelInv, Tracked
<1> QED
  BY <1>2, <1>3, <1>5, <1>6, TypeParts, PTL DEF ArchitectInv

(* Every step keeps the invariant. *)
LEMMA NextArchitectInv == ArchitectInv /\ [ArchitectNext]_architectVars => ArchitectInv'
BY DispatchStep, OtherDispatchSteps, PostChecklistStep, TakePlanStep, CreateIssueStep, PostTrackingStep,
   RelabelStep, AbortStep, PeopleSteps, StutterStep
   DEF ArchitectNext, ArchitectStep

(* The inductive invariant: the sub-issues of the run that is under way, in  *)
(* the order of its plan, and the comments of the features that are tracked. *)
THEOREM ArchitectInvariance == ArchitectSpec => []ArchitectInv
<1> QED
  BY InitArchitectInv, NextArchitectInv, PTL DEF ArchitectSpec

(* The type invariant: lines and sub-issues always name issues there are. *)
THEOREM ArchitectTypeCorrect == ArchitectSpec => []ArchitectTypeOK
<1> QED
  BY ArchitectInvariance, PTL DEF ArchitectInv

(* Whatever runs were interrupted and repeated, a feature labelled as        *)
(* tracked has one whole plan in its tracking comments, with the numbers of  *)
(* the sub-issues of one run (_run_macro_plan, _render_tracking_comment).    *)
THEOREM EpicsTrackTheirPlan == ArchitectSpec => []EpicTracksItsPlan
<1> QED
  BY ArchitectInvariance, PTL DEF ArchitectInv

-----------------------------------------------------------------------------
(* Wherever a line of dependencies turns up, it is what the plan wanted for  *)
(* the issue it is about.                                                    *)
LinesInv == \A x \in Numbers : \A l \in lines[x] : l.deps = Wanted(l.about)

(* It stays so when the lines are old ones, or say what the plan wanted.     *)
LEMMA LinesStay ==
  ASSUME IssuesOK, LinesInv, \A x \in Numbers : origin'[x] = origin[x],
         \A x \in Numbers' : \A l \in lines'[x] :
           \/ \E y \in Numbers : l \in lines[y]
           \/ l \in Line(Len(label)) /\ l.deps = Wanted(l.about)
  PROVE  LinesInv'
<1>1. ASSUME NEW x \in Numbers', NEW l \in lines'[x]
      PROVE  l.deps = Wanted(l.about)'
  <2>1. l \in Line(Len(label)) /\ l.deps = Wanted(l.about)
    BY IssueParts DEF LinesInv
  <2>2. l.about \in Numbers
    BY <2>1 DEF Line, Numbers
  <2>3. PICK a \in Numbers : a = l.about
    BY <2>2
  <2>4. origin'[a] = origin[a]
    OBVIOUS
  <2>5. Wanted(a)' = Wanted(a)
    BY <2>4, Zenon DEF Wanted
  <2>6. Wanted(a)' = Wanted(l.about)'
    BY <2>3
  <2> QED
    BY <2>1, <2>3, <2>5, <2>6
<1> QED
  BY <1>1 DEF LinesInv

(* Lines are written by the tracking comment, and copied by people.          *)
LEMMA NextLinesInv ==
  ASSUME ArchitectInv, LinesInv, [ArchitectNext]_architectVars
  PROVE  LinesInv'
<1>0. IssuesOK /\ RunOK /\ CreateInv
  BY TypeParts DEF ArchitectInv
<1>1. CASE origin' = origin /\ lines' = lines /\ Numbers' = Numbers
  BY <1>0, <1>1, LinesStay
<1>2. CASE CreateIssue
  <2>1. /\ \E l \in Planning : label' = Append(label, l)
        /\ lines' = Append(lines, {}) /\ \E o : origin' = Append(origin, o)
    BY <1>2, Zenon DEF CreateIssue, Planning
  <2>2. /\ \A x \in Numbers : origin'[x] = origin[x] /\ lines'[x] = lines[x]
        /\ lines'[Len(label) + 1] = {} /\ Numbers' = 1 .. (Len(label) + 1)
    BY <1>0, <2>1 DEF IssuesOK, Numbers
  <2>3. \A x \in Numbers' : x \in Numbers \/ x = Len(label) + 1
    BY <1>0, <2>2 DEF IssuesOK, Numbers
  <2> QED
    BY <1>0, <2>2, <2>3, LinesStay
<1>3. CASE PostTracking
  <2>1. /\ lines' = [lines EXCEPT ![issue] = @ \cup Tracking]
        /\ origin' = origin /\ Numbers' = Numbers
    BY <1>3 DEF PostTracking, Numbers
  <2>2. Tracking \subseteq Line(Len(label)) /\ \A l \in Tracking : l.deps = Wanted(l.about)
    BY <1>0, <1>3, TrackingIsThePlan DEF PostTracking
  <2>3. \A x \in Numbers : \A l \in lines'[x] : l \in lines[x] \/ l \in Tracking
    BY <1>0, <2>1 DEF IssuesOK, Numbers
  <2> QED
    BY <1>0, <2>1, <2>2, <2>3, LinesStay
<1>4. ASSUME NEW i \in Numbers, CopyLine(i)
      PROVE  LinesInv'
  <2> DEFINE own == {l \in lines[origin[i].parent] : l.about = i /\ l.deps # {}}
  <2>1. /\ i # 1 /\ lines' = [lines EXCEPT ![i] = @ \cup own]
        /\ origin' = origin /\ Numbers' = Numbers
    BY <1>4 DEF CopyLine, Numbers
  <2>2. origin[i].parent \in Numbers
    BY <1>0, <2>1, IssueParts DEF ArchitectInv, OriginInv, Origin, Numbers
  <2>3. \A l \in own : \E y \in Numbers : l \in lines[y]
    BY <2>2
  <2> HIDE DEF own
  <2>4. \A x \in Numbers : \A l \in lines'[x] : l \in lines[x] \/ l \in own
    BY <1>0, <2>1 DEF IssuesOK, Numbers
  <2> QED
    BY <1>0, <2>1, <2>3, <2>4, LinesStay
<1>5. \/ origin' = origin /\ lines' = lines /\ Numbers' = Numbers
      \/ CreateIssue \/ PostTracking \/ \E i \in Numbers : CopyLine(i)
  <2>1. Relabel => origin' = origin /\ lines' = lines /\ Numbers' = Numbers
    BY <1>0 DEF Relabel, IssuesOK, Numbers
  <2>2. \/ origin' = origin /\ lines' = lines /\ label' = label
        \/ Relabel \/ CreateIssue \/ PostTracking \/ \E i \in Numbers : CopyLine(i)
    BY Zenon DEF ArchitectNext, ArchitectStep, Dispatch, ClassificationFails, DispatchRaises,
       Restart, Close, PostChecklist, TakePlan, Raise, Die, architectVars, github
  <2> QED
    BY <2>1, <2>2 DEF Numbers
<1> QED
  BY <1>1, <1>2, <1>3, <1>4, <1>5

(* Every line says what the plan wanted. *)
LEMMA LinesInvariance == ArchitectSpec => []LinesInv
<1>1. ArchitectInit => LinesInv
  BY DEF ArchitectInit, LinesInv, Numbers
<1> QED
  BY <1>1, NextLinesInv, ArchitectInvariance, PTL DEF ArchitectSpec

(* A line about the issue with dependencies is one that counts.              *)
LEMMA OwnLinesCount ==
  ASSUME NEW i, NEW l \in lines[i], l.about = i, l.deps # {}
  PROVE  l.deps \subseteq Dependencies(i)
<1> DEFINE matching == {m \in lines[i] : m.deps # {}}
           exact == {m \in matching : Mentions(m, i)}
<1>1. l \in exact
  BY DEF Mentions, Found
<1>2. Dependencies(i) = UNION {m.deps : m \in IF exact # {} THEN exact ELSE matching}
  BY Zenon DEF Dependencies
<1> HIDE DEF exact, matching
<1> QED
  BY <1>1, <1>2

(* A sub-issue to which its line was copied is planned only when all that    *)
(* its plan wanted before it is closed (_render_tracking_comment,            *)
(* dependencies_for_issue and _blocked_dependencies together).               *)
THEOREM CopiedLinesAreKept == ArchitectSpec => CopiedLinesHold
<1> DEFINE Step ==
      pc = "idle" /\ pc' = "plan" /\ (\E l \in lines[issue'] : l.about = issue' /\ l.deps # {})
        => Wanted(issue') \subseteq closed
<1>1. LinesInv /\ [ArchitectNext]_architectVars => [Step]_architectVars
  <2> SUFFICES ASSUME LinesInv, ArchitectNext, pc = "idle", pc' = "plan",
                      NEW l \in lines[issue'], l.about = issue', l.deps # {}
               PROVE  Wanted(issue') \subseteq closed
    OBVIOUS
  <2>1. PICK i \in Numbers : Dispatch(i)
    BY DEF ArchitectNext, ArchitectStep, ClassificationFails, DispatchRaises, Restart, Close,
           CopyLine, PostChecklist, CreateIssue, PostTracking, Relabel, TakePlan, Raise, Die
  <2>2. issue' = i /\ Dependencies(i) \subseteq closed
    BY <2>1 DEF Dispatch, Unblocked
  <2>3. l \in lines[i] /\ l.about = i
    BY <2>2
  <2>4. l.deps = Wanted(i)
    BY <2>3 DEF LinesInv
  <2>5. l.deps \subseteq Dependencies(i)
    BY <2>3, OwnLinesCount
  <2> QED
    BY <2>2, <2>4, <2>5
<1> QED
  BY <1>1, LinesInvariance, PTL DEF ArchitectSpec, CopiedLinesHold
=============================================================================
