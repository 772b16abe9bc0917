----------------------- MODULE ChecklistCommentProofs -----------------------
(***************************************************************************)
(* That conditional writers lose no update of the checklist comment, that  *)
(* an issue labelled done has no open box until a run of CoderWorker       *)
(* writes the comment, that the last of several ticks labels the issue,    *)
(* and that not all of them give up, for any number of items, clients,     *)
(* tries and edits.                                                        *)
(***************************************************************************)
EXTENDS ChecklistComment, FiniteSetTheorems, TLAPS

(* The part of the type invariant the proofs need. *)
Shape ==
  /\ pc \in [Clients -> {"read", "write", "label", "finished", "failed", "conflict"}]
  /\ DOMAIN copy = Clients
  /\ version \in Nat
  /\ DOMAIN box = Items

(* An ETag that still matches vouches for the copy that came with it. *)
EtagVouchesForCopy ==
  \A c \in Clients :
    /\ copy[c].etag \in Nat
    /\ copy[c].etag <= version
    /\ copy[c].etag = version => copy[c].box = box /\ copy[c].text = text

CopyInv == Shape /\ EtagVouchesForCopy

(* The initial copy is the comment itself. *)
LEMMA InitCopyInv == ChecklistInit => CopyInv
<1> SUFFICES ASSUME ChecklistInit PROVE CopyInv
  OBVIOUS
<1>1. Shape
  BY DEF ChecklistInit, Shape
<1>2. EtagVouchesForCopy
  <2> SUFFICES ASSUME NEW c \in Clients
               PROVE  /\ copy[c].etag \in Nat
                      /\ copy[c].etag <= version
                      /\ copy[c].box = box /\ copy[c].text = text
    BY DEF EtagVouchesForCopy
  <2>1. copy[c] = [box |-> box, text |-> text, etag |-> 0]
    BY DEF ChecklistInit
  <2>2. version = 0
    BY DEF ChecklistInit
  <2> QED
    BY <2>1, <2>2
<1> QED
  BY <1>1, <1>2 DEF CopyInv

(* A write gives the comment a new ETag, so that no older copy matches.      *)
LEMMA NextCopyInv == CopyInv /\ [ChecklistNext]_checklistVars => CopyInv'
<1> SUFFICES ASSUME CopyInv, [ChecklistNext]_checklistVars PROVE CopyInv'
  OBVIOUS
<1> USE DEF CopyInv, Shape, EtagVouchesForCopy
<1>1. ASSUME NEW c \in Clients, Read(c) PROVE CopyInv'
  BY <1>1 DEF Read
<1>2. ASSUME NEW c \in Clients, Write(c) PROVE CopyInv'
  <2>1. Shape'
    BY <1>2 DEF Write, Updated
  <2>2. EtagVouchesForCopy'
    BY <1>2 DEF Write
  <2> QED
    BY <2>1, <2>2
<1>3. ASSUME NEW c \in Clients, Conflict(c) PROVE CopyInv'
  BY <1>3 DEF Conflict
<1>4. ASSUME NEW c \in Clients, LabelDone(c) PROVE CopyInv'
  BY <1>4 DEF LabelDone
<1>5. ASSUME NEW c \in Clients, FailRequest(c) PROVE CopyInv'
  BY <1>5 DEF FailRequest
<1>6. ASSUME NEW k \in Items, NEW m \in PeopleMarks, EditBox(k, m) PROVE CopyInv'
  BY <1>6 DEF EditBox
<1>7. ASSUME NEW k \in Items, Rewrite(k) PROVE CopyInv'
  BY <1>7 DEF Rewrite
<1>8. CASE UNCHANGED checklistVars
  BY <1>8 DEF checklistVars
<1> QED
  BY <1>1, <1>2, <1>3, <1>4, <1>5, <1>6, <1>7, <1>8
     DEF ChecklistNext, ClientStep, PeopleStep

(* A matching ETag always means a current copy.                              *)
THEOREM CopiesAreCurrent == ChecklistSpec => []CopyInv
<1> QED
  BY InitCopyInv, NextCopyInv, PTL DEF ChecklistSpec

(* What a conditional write changes in the comment is its own item.          *)
LEMMA WriteChangesOwnItem ==
  ASSUME CopyInv, NEW c \in Managers, Write(c)
  PROVE  /\ text' = text
         /\ \A k \in Items : box'[k] # box[k] => k \in Targets(c, text)
<1>1. c \in Clients /\ copy[c].etag = version
  BY ClientsDisjoint DEF Write, Match, Clients
<1>2. copy[c].box = box /\ copy[c].text = text
  BY <1>1 DEF CopyInv, EtagVouchesForCopy
<1>3. text' = text
  BY <1>2 DEF Write
<1>4. box' = [k \in Items |-> IF k \in Targets(c, text) THEN MarkOf[c] ELSE box[k]]
  BY <1>2 DEF Write, Updated
<1> QED
  BY <1>3, <1>4

(* Conditional writers never undo what others wrote after they had read the *)
(* comment (PRManager._update_checkbox_with_etag).                           *)
THEOREM NoUpdateIsLost == ChecklistSpec => NoLostUpdate
<1> DEFINE Step ==
      \A c \in Managers :
        pc[c] = "write" /\ pc'[c] # "write" /\ version' # version =>
          /\ text' = text
          /\ \A k \in Items : box'[k] # box[k] => k \in Targets(c, text)
<1>1. CopyInv /\ [ChecklistNext]_checklistVars => [Step]_checklistVars
  <2> SUFFICES ASSUME CopyInv, ChecklistNext, NEW c \in Managers,
                      pc[c] = "write", pc'[c] # "write", version' # version
               PROVE  /\ text' = text
                      /\ \A k \in Items : box'[k] # box[k] => k \in Targets(c, text)
    OBVIOUS
  <2>1. c \in Clients
    BY DEF Clients
  <2>2. ASSUME NEW d \in Clients, ClientStep(d) PROVE Write(d) /\ d = c
    BY <2>1, <2>2 DEF CopyInv, Shape, ClientStep, Read, Write, Conflict, LabelDone, FailRequest
  <2>3. ASSUME PeopleStep PROVE FALSE
    BY <2>3 DEF PeopleStep, Rewrite, EditBox
  <2>4. Write(c)
    BY <2>2, <2>3 DEF ChecklistNext
  <2> QED
    BY <2>4, WriteChangesOwnItem
<1> QED
  BY <1>1, CopiesAreCurrent, PTL DEF ChecklistSpec, NoLostUpdate

-----------------------------------------------------------------------------
(* The strengthening of DoneMeansAllChecked: already the call that is about  *)
(* to label the issue knows that no box is open, and none is reopened.       *)
LabelInv ==
  /\ CopyInv
  /\ OnlyConditional =>
       /\ done => AllItemsChecked(box)
       /\ \A c \in Clients : pc[c] = "label" => AllItemsChecked(box)

(* A box that is not open stays so in a conditional write.                   *)
LEMMA WriteKeepsChecked ==
  ASSUME CopyInv, NEW c \in Managers, Write(c), AllItemsChecked(box)
  PROVE  AllItemsChecked(box')
<1>1. c \in Clients /\ copy[c].etag = version
  BY ClientsDisjoint DEF Write, Match, Clients
<1>2. copy[c].box = box
  BY <1>1 DEF CopyInv, EtagVouchesForCopy
<1>3. MarkOf[c] # " "
  BY <1>1, ChecklistType
<1> QED
  BY <1>2, <1>3 DEF Write, Updated, AllItemsChecked

(* A client that has finished takes no step.                                 *)
LEMMA FinishedStays ==
  ASSUME CopyInv, [ChecklistNext]_checklistVars, OnlyConditional'
  PROVE  OnlyConditional
<1> SUFFICES ASSUME NEW c \in Coders, pc[c] = "finished" PROVE pc'[c] = "finished"
  BY DEF OnlyConditional
<1>1. c \in Clients
  BY DEF Clients
<1>2. ASSUME NEW d \in Clients, ClientStep(d) PROVE pc'[c] = "finished"
  BY <1>1, <1>2 DEF CopyInv, Shape, ClientStep, Read, Write, Conflict, LabelDone, FailRequest
<1>3. ASSUME PeopleStep \/ UNCHANGED checklistVars PROVE pc'[c] = "finished"
  BY <1>3 DEF PeopleStep, Rewrite, EditBox, checklistVars
<1> QED
  BY <1>2, <1>3 DEF ChecklistNext

(* Every step keeps LabelInv when nobody reopens a box.                      *)
LEMMA NextLabelInv ==
  ASSUME " " \notin PeopleMarks, LabelInv, [ChecklistNext]_checklistVars
  PROVE  LabelInv'
<1>1. CopyInv'
  BY NextCopyInv DEF LabelInv
<1> SUFFICES ASSUME OnlyConditional'
             PROVE  /\ done' => AllItemsChecked(box')
                    /\ \A c \in Clients : pc'[c] = "label" => AllItemsChecked(box')
  BY <1>1 DEF LabelInv, AllItemsChecked
<1>0. /\ CopyInv
      /\ done => AllItemsChecked(box)
      /\ \A c \in Clients : pc[c] = "label" => AllItemsChecked(box)
  BY FinishedStays DEF LabelInv
<1> DEFINE Goal == /\ done' => AllItemsChecked(box')
                   /\ \A c \in Clients : pc'[c] = "label" => AllItemsChecked(box')
<1>2. ASSUME NEW c \in Clients, Write(c) PROVE Goal
  <2>1. c \in Managers
    BY <1>0, <1>2 DEF Write, OnlyConditional, Clients, CopyInv, Shape
  <2>2. AllItemsChecked(box) => AllItemsChecked(box')
    BY <1>0, <1>2, <2>1, WriteKeepsChecked
  <2>3. pc'[c] = "label" => AllItemsChecked(box')
    BY <1>0, <1>2 DEF Write, CopyInv, Shape
  <2>4. \A d \in Clients \ {c} : pc'[d] = pc[d]
    BY <1>0, <1>2 DEF Write, CopyInv, Shape
  <2>5. done' = done
    BY <1>2 DEF Write
  <2> QED
    BY <1>0, <2>2, <2>3, <2>4, <2>5 DEF AllItemsChecked
<1>3. ASSUME NEW c \in Clients, Read(c) \/ Conflict(c) \/ FailRequest(c) PROVE Goal
  <2>1. box' = box /\ done' = done
    BY <1>3 DEF Read, Conflict, FailRequest
  <2>2. \A d \in Clients : pc'[d] = "label" => pc[d] = "label"
    BY <1>0, <1>3 DEF Read, Conflict, FailRequest, CopyInv, Shape
  <2> QED
    BY <1>0, <2>1, <2>2 DEF AllItemsChecked
<1>4. ASSUME NEW c \in Clients, LabelDone(c) PROVE Goal
  <2>1. box' = box /\ AllItemsChecked(box)
    BY <1>0, <1>4 DEF LabelDone
  <2> QED
    BY <1>0, <2>1 DEF AllItemsChecked
<1>5. ASSUME NEW k \in Items, NEW m \in PeopleMarks, EditBox(k, m) PROVE Goal
  <2>1. AllItemsChecked(box) => AllItemsChecked(box')
    BY <1>0, <1>5 DEF EditBox, AllItemsChecked, CopyInv, Shape
  <2>2. pc' = pc /\ done' = done
    BY <1>5 DEF EditBox
  <2> QED
    BY <1>0, <2>1, <2>2 DEF AllItemsChecked
<1>6. ASSUME NEW k \in Items, Rewrite(k) PROVE Goal
  <2>1. pc' = pc /\ done' = done /\ box' = box
    BY <1>6 DEF Rewrite
  <2> QED
    BY <1>0, <2>1 DEF AllItemsChecked
<1>7. ASSUME UNCHANGED checklistVars PROVE Goal
  <2>1. pc' = pc /\ done' = done /\ box' = box
    BY <1>7 DEF checklistVars
  <2> QED
    BY <1>0, <2>1 DEF AllItemsChecked
<1> QED
  BY <1>2, <1>3, <1>4, <1>5, <1>6, <1>7 DEF ChecklistNext, ClientStep, PeopleStep

(* An issue is labelled done only when no box of its checklist is open       *)
(* (PRManager.check_checkbox, _all_items_checked).                           *)
THEOREM DoneIsChecked == ChecklistSpec => []DoneMeansAllChecked
<1>1. CASE " " \in PeopleMarks
  <2>1. DoneMeansAllChecked
    BY <1>1 DEF DoneMeansAllChecked
  <2>2. [ChecklistNext]_checklistVars /\ DoneMeansAllChecked => DoneMeansAllChecked'
    BY <1>1 DEF DoneMeansAllChecked
  <2> QED
    BY <2>1, <2>2, PTL DEF ChecklistSpec
<1>2. CASE " " \notin PeopleMarks
  <2>1. ChecklistInit => LabelInv
    BY InitCopyInv DEF ChecklistInit, LabelInv
  <2>2. LabelInv /\ [ChecklistNext]_checklistVars => LabelInv'
    BY <1>2, NextLabelInv
  <2>3. LabelInv => DoneMeansAllChecked
    BY DEF LabelInv, DoneMeansAllChecked, AllItemsChecked
  <2> QED
    BY <2>1, <2>2, <2>3, PTL DEF ChecklistSpec
<1> QED
  BY <1>1, <1>2
-----------------------------------------------------------------------------
(* The type invariant.  A client that is about to read has a try left, and a *)
(* copy has a description for every item.                                    *)
TriesLeft == \A c \in Clients : pc[c] = "read" => tries[c] < MaxTries

CopiesHaveTexts == \A c \in Clients : DOMAIN copy[c].text = Items

ShapeInv == ChecklistTypeOK /\ CopyInv /\ TriesLeft /\ CopiesHaveTexts

(* At the start every client has all its tries. *)
LEMMA InitShapeInv == ChecklistInit => ShapeInv
<1> SUFFICES ASSUME ChecklistInit PROVE ShapeInv
  OBVIOUS
<1>1. CopyInv
  BY InitCopyInv
<1>2. MaxTries \in Nat \ {0} /\ MaxEdits \in Nat /\ DOMAIN TextOf = Items
  BY ChecklistType, Zenon
<1>0. 0 \in Nat /\ 0 \in 0 .. 0 /\ 0 \in 0 .. MaxEdits /\ 0 \in 0 .. MaxTries /\ 0 < MaxTries
  BY <1>2
<1>3. /\ box = [k \in Items |-> " "] /\ text = TextOf /\ version = 0 /\ done = FALSE
      /\ pc = [c \in Clients |-> "read"] /\ tries = [c \in Clients |-> 0] /\ edits = 0
      /\ copy = [c \in Clients |-> [box |-> box, text |-> text, etag |-> 0]]
  BY Zenon DEF ChecklistInit
<1>4. ASSUME NEW c \in Clients
      PROVE  copy[c].box = box /\ copy[c].text = text /\ copy[c].etag = 0
  BY <1>3
<1>5. ChecklistTypeOK
  <2>1. box \in [Items -> Marks]
    BY <1>3 DEF Marks
  <2>2. version \in Nat /\ edits \in 0 .. MaxEdits /\ 0 \in 0 .. version
    BY <1>0, <1>3, Zenon
  <2>3. tries \in [Clients -> 0 .. MaxTries]
    BY <1>0, <1>3, Zenon
  <2>4. /\ done \in BOOLEAN /\ DOMAIN text = Items
        /\ pc \in [Clients -> {"read", "write", "label", "finished", "failed", "conflict"}]
    BY <1>2, <1>3, Zenon
  <2> QED
    BY <1>4, <2>1, <2>2, <2>3, <2>4, Zenon DEF ChecklistTypeOK
<1>6. TriesLeft
  BY <1>0, <1>3, Zenon DEF TriesLeft
<1>7. CopiesHaveTexts
  BY <1>2, <1>3, <1>4, Zenon DEF CopiesHaveTexts
<1> QED
  BY <1>1, <1>5, <1>6, <1>7 DEF ShapeInv

(* Every step keeps the types; a conflict is followed by a read or the end. *)
LEMMA NextShapeInv == ShapeInv /\ [ChecklistNext]_checklistVars => ShapeInv'
<1> SUFFICES ASSUME ShapeInv, [ChecklistNext]_checklistVars PROVE ShapeInv'
  OBVIOUS
<1>0. CopyInv'
  BY NextCopyInv DEF ShapeInv
<1> DEFINE Goal == ChecklistTypeOK' /\ TriesLeft' /\ CopiesHaveTexts'
<1> USE DEF ShapeInv, ChecklistTypeOK, TriesLeft, CopiesHaveTexts
<1>1. ASSUME NEW c \in Clients, Read(c) PROVE Goal
  BY <1>1, ChecklistType DEF Read
<1>2. ASSUME NEW c \in Clients, Write(c) PROVE Goal
  <2>1. Updated(c) \in [Items -> Marks]
    <3>1. MarkOf[c] \in Marks
      BY ChecklistType DEF Marks
    <3>2. copy[c].box \in [Items -> Marks]
      BY <1>2
    <3> QED
      BY <3>1, <3>2 DEF Updated
  <2>2. DOMAIN copy[c].text = Items
    BY <1>2
  <2> QED
    BY <1>2, <2>1, <2>2 DEF Write
<1>3. ASSUME NEW c \in Clients, Conflict(c) PROVE Goal
  BY <1>3, ChecklistType DEF Conflict
<1>4. ASSUME NEW c \in Clients, LabelDone(c) PROVE Goal
  BY <1>4 DEF LabelDone
<1>5. ASSUME NEW c \in Clients, FailRequest(c) PROVE Goal
  BY <1>5 DEF FailRequest
<1>6. ASSUME NEW k \in Items, NEW m \in PeopleMarks, EditBox(k, m) PROVE Goal
  BY <1>6, ChecklistType DEF EditBox
<1>7. ASSUME NEW k \in Items, Rewrite(k) PROVE Goal
  BY <1>7, ChecklistType DEF Rewrite
<1>8. ASSUME UNCHANGED checklistVars PROVE Goal
  BY <1>8 DEF checklistVars
<1> HIDE DEF Goal
<1>9. Goal
  BY <1>1, <1>2, <1>3, <1>4, <1>5, <1>6, <1>7, <1>8
     DEF ChecklistNext, ClientStep, PeopleStep
<1> QED
  BY <1>0, <1>9 DEF Goal

(* The invariant the type theorem and the two below rest on. *)
LEMMA ShapeInvariance == ChecklistSpec => []ShapeInv
<1> QED
  BY InitShapeInv, NextShapeInv, PTL DEF ChecklistSpec

(* The type invariant.  No call makes more tries than it has (_MAX_CONFLICT_ *)
(* RETRIES), and no ETag it holds is one GitHub has yet to give.             *)
THEOREM ChecklistTypeCorrect == ChecklistSpec => []ChecklistTypeOK
<1> QED
  BY ShapeInvariance, PTL DEF ShapeInv
-----------------------------------------------------------------------------
(* The strengthening of LastTickLabels, for calls that all tick: what a call *)
(* has written stays written, and if no box is open, then the call that      *)
(* closed the last one has labelled the issue, is about to, or has failed.   *)
TickInv ==
  /\ ShapeInv
  /\ OnlyConditional /\ edits = 0 =>
       /\ text = TextOf
       /\ \A c \in Managers : pc[c] \in {"label", "finished"} => box[ItemOf[c]] # " "
       /\ (\A c \in Managers : MarkOf[c] = "x") /\ AllItemsChecked(box) =>
            done \/ \E c \in Managers : pc[c] \in {"label", "failed"}

(* The strengthening of NobodyStarves: every try of a call but its first is  *)
(* paid for by a write of another one, and every call writes once at most.   *)
Past == {c \in Managers : pc[c] \in {"label", "finished", "failed"}}

StarveInv ==
  /\ ShapeInv
  /\ OnlyConditional /\ edits = 0 =>
       /\ version <= Cardinality(Past)
       /\ \A c \in Managers :
            /\ pc[c] = "read" => tries[c] <= version
            /\ pc[c] = "write" => tries[c] <= copy[c].etag + 1
            /\ pc[c] = "conflict" => MaxTries <= version
(* A write that keeps OnlyConditional is one of PRManager, on the comment as *)
(* it is.                                                                    *)
LEMMA ConditionalWrite ==
  ASSUME ShapeInv, NEW c \in Clients, Write(c), OnlyConditional'
  PROVE  /\ c \in Managers /\ copy[c].etag = version
         /\ box' = [k \in Items |-> IF k \in Targets(c, text) THEN MarkOf[c] ELSE box[k]]
         /\ text' = text
         /\ pc' = [pc EXCEPT ![c] = IF MarkOf[c] = "x" /\ AllItemsChecked(box')
                                      THEN "label" ELSE "finished"]
<1>0. /\ pc \in [Clients -> {"read", "write", "label", "finished", "failed", "conflict"}]
      /\ EtagVouchesForCopy
  BY Zenon DEF ShapeInv, CopyInv, Shape
<1>1. c \in Managers
  BY <1>0 DEF Write, OnlyConditional, Clients
<1>2. copy[c].etag = version
  BY <1>1, ClientsDisjoint DEF Write, Match
<1>3. copy[c].box = box /\ copy[c].text = text
  BY <1>0, <1>2 DEF EtagVouchesForCopy
<1>4. box' = Updated(c)
  BY DEF Write
<1>5. pc' = [pc EXCEPT ![c] = IF MarkOf[c] = "x" /\ AllItemsChecked(box')
                                THEN "label" ELSE "finished"]
  BY <1>1, <1>4, Zenon DEF Write
<1> QED
  BY <1>1, <1>2, <1>3, <1>4, <1>5 DEF Write, Updated

(* Where descriptions tell the items apart, a tick finds its item.           *)
LEMMA TickFindsItem ==
  ASSUME \A j, k \in Items : TextOf[j] = TextOf[k] => j = k,
         NEW c \in Managers
  PROVE  Targets(c, TextOf) = {ItemOf[c]}
<1>1. ItemOf[c] \in Items /\ c \notin Coders
  BY ChecklistType, ClientsDisjoint DEF Clients
<1>2. {k \in Items : TextOf[k] = TextOf[ItemOf[c]]} = {ItemOf[c]}
  BY <1>1
<1>3. ItemOf[c] <= ItemOf[c]
  BY <1>1, ChecklistType DEF Items
<1> QED
  BY <1>1, <1>2, <1>3 DEF Targets

(* At the start all boxes are open, and there is one. *)
LEMMA InitTickInv == ChecklistInit => TickInv
<1> SUFFICES ASSUME ChecklistInit PROVE TickInv
  OBVIOUS
<1>1. ShapeInv
  BY InitShapeInv
<1>2. /\ box = [k \in Items |-> " "] /\ text = TextOf
      /\ pc = [c \in Clients |-> "read"]
  BY Zenon DEF ChecklistInit
<1>3. 1 \in Items
  BY ChecklistType DEF Items
<1>4. ~ AllItemsChecked(box)
  BY <1>2, <1>3 DEF AllItemsChecked
<1>5. \A c \in Managers : pc[c] = "read"
  BY <1>2 DEF Clients
<1> QED
  BY <1>1, <1>2, <1>4, <1>5 DEF TickInv

(* Every step keeps TickInv where descriptions tell the items apart. *)
LEMMA NextTickInv ==
  ASSUME \A j, k \in Items : TextOf[j] = TextOf[k] => j = k,
         TickInv, [ChecklistNext]_checklistVars
  PROVE  TickInv'
<1>0. ShapeInv /\ ShapeInv' /\ Managers \subseteq Clients
  BY NextShapeInv DEF TickInv, Clients
<1> SUFFICES ASSUME OnlyConditional', edits' = 0
             PROVE  /\ text' = TextOf
                    /\ \A c \in Managers : pc'[c] \in {"label", "finished"} => box'[ItemOf[c]] # " "
                    /\ (\A c \in Managers : MarkOf[c] = "x") /\ AllItemsChecked(box') =>
                         done' \/ \E c \in Managers : pc'[c] \in {"label", "failed"}
  BY <1>0 DEF TickInv, AllItemsChecked
<1> DEFINE Goal ==
      /\ text' = TextOf
      /\ \A c \in Managers : pc'[c] \in {"label", "finished"} => box'[ItemOf[c]] # " "
      /\ (\A c \in Managers : MarkOf[c] = "x") /\ AllItemsChecked(box') =>
           done' \/ \E c \in Managers : pc'[c] \in {"label", "failed"}
<1>1. ASSUME PeopleStep PROVE FALSE
  BY <1>0, <1>1 DEF PeopleStep, EditBox, Rewrite, ShapeInv, ChecklistTypeOK
<1>2. edits = 0
  <2>1. ASSUME NEW c \in Clients, ClientStep(c) PROVE edits' = edits
    BY <2>1 DEF ClientStep, Read, Write, Conflict, LabelDone, FailRequest
  <2> QED
    BY <1>1, <2>1 DEF ChecklistNext, checklistVars
<1>3. /\ text = TextOf
      /\ \A c \in Managers : pc[c] \in {"label", "finished"} => box[ItemOf[c]] # " "
      /\ (\A c \in Managers : MarkOf[c] = "x") /\ AllItemsChecked(box) =>
           done \/ \E c \in Managers : pc[c] \in {"label", "failed"}
  BY <1>0, <1>2, FinishedStays DEF TickInv, ShapeInv
<1>4. pc \in [Clients -> {"read", "write", "label", "finished", "failed", "conflict"}]
  BY <1>0, Zenon DEF ShapeInv, ChecklistTypeOK
<1>5. ASSUME NEW c \in Clients, Write(c) PROVE Goal
  <2>1. c \in Managers /\ Targets(c, text) = {ItemOf[c]}
    BY <1>0, <1>3, <1>5, ConditionalWrite, TickFindsItem
  <2>2. /\ box' = [k \in Items |-> IF k = ItemOf[c] THEN MarkOf[c] ELSE box[k]]
        /\ text' = text
        /\ pc' = [pc EXCEPT ![c] = IF MarkOf[c] = "x" /\ AllItemsChecked(box')
                                     THEN "label" ELSE "finished"]
    BY <1>0, <1>5, <2>1, ConditionalWrite
  <2>3. MarkOf[c] # " " /\ \A d \in Managers : ItemOf[d] \in Items
    BY <1>0, <2>1, ChecklistType
  <2>4. ASSUME NEW d \in Managers, pc'[d] \in {"label", "finished"} PROVE box'[ItemOf[d]] # " "
    BY <1>0, <1>3, <1>4, <2>2, <2>3, <2>4
  <2>5. ASSUME MarkOf[c] = "x", AllItemsChecked(box') PROVE pc'[c] = "label"
    BY <1>4, <2>2, <2>5
  <2> QED
    BY <1>3, <2>1, <2>2, <2>4, <2>5
<1>6. ASSUME NEW c \in Clients, Read(c) \/ Conflict(c) \/ FailRequest(c) PROVE Goal
  <2>1. box' = box /\ text' = text /\ done' = done
    BY <1>6 DEF Read, Conflict, FailRequest
  <2>2. \A d \in Clients : /\ pc'[d] \in {"label", "finished"} => pc[d] \in {"label", "finished"}
                           /\ pc[d] \in {"label", "failed"} => pc'[d] \in {"label", "failed"}
    BY <1>4, <1>6 DEF Read, Conflict, FailRequest
  <2> QED
    BY <1>0, <1>3, <2>1, <2>2 DEF AllItemsChecked
<1>7. ASSUME NEW c \in Clients, LabelDone(c) PROVE Goal
  <2>1. box' = box /\ text' = text /\ done' = TRUE
    BY <1>7 DEF LabelDone
  <2>2. \A d \in Clients : pc'[d] \in {"label", "finished"} => pc[d] \in {"label", "finished"}
    BY <1>4, <1>7 DEF LabelDone
  <2> QED
    BY <1>0, <1>3, <2>1, <2>2
<1>8. ASSUME UNCHANGED checklistVars PROVE Goal
  BY <1>3, <1>8 DEF checklistVars, AllItemsChecked
<1> HIDE DEF Goal
<1>9. Goal
  BY <1>1, <1>5, <1>6, <1>7, <1>8 DEF ChecklistNext, ClientStep
<1> QED
  BY <1>9 DEF Goal

(* If every box has been ticked by calls that went through, the issue is     *)
(* labelled: the last to write sees the boxes of all others                  *)
(* (PRManager.check_checkbox, _all_items_checked).  It takes descriptions    *)
(* that tell the items apart, for it is by them that a call finds its item.  *)
THEOREM LastTickIsLabelled ==
  ASSUME \A j, k \in Items : TextOf[j] = TextOf[k] => j = k
  PROVE  ChecklistSpec => []LastTickLabels
<1>1. TickInv => LastTickLabels
  <2> SUFFICES ASSUME TickInv,
                      \A c \in Managers : pc[c] = "finished" /\ MarkOf[c] = "x",
                      {ItemOf[c] : c \in Managers} = Items,
                      OnlyConditional, edits = 0
               PROVE  done
    BY DEF LastTickLabels
  <2>1. \A k \in Items : box[k] # " "
    BY DEF TickInv
  <2>2. ~ \E c \in Managers : pc[c] \in {"label", "failed"}
    OBVIOUS
  <2> QED
    BY <2>1, <2>2, Zenon DEF TickInv, AllItemsChecked
<1>2. TickInv /\ [ChecklistNext]_checklistVars => TickInv'
  BY NextTickInv
<1> QED
  BY <1>1, <1>2, InitTickInv, PTL DEF ChecklistSpec
(* Who is past the writing stays so, and one who joins is counted.           *)
LEMMA PastGrows ==
  ASSUME IsFiniteSet(Managers),
         pc \in [Clients -> {"read", "write", "label", "finished", "failed", "conflict"}],
         NEW c \in Clients, NEW s \in {"read", "write", "label", "finished", "failed", "conflict"},
         pc[c] \in {"label", "finished", "failed"} => s \in {"label", "finished", "failed"},
         pc' = [pc EXCEPT ![c] = s]
  PROVE  /\ Cardinality(Past) \in Nat /\ Cardinality(Past') \in Nat
         /\ Cardinality(Past) <= Cardinality(Past')
         /\ /\ c \in Managers
            /\ pc[c] \notin {"label", "finished", "failed"}
            /\ s \in {"label", "finished", "failed"}
            => Cardinality(Past') = Cardinality(Past) + 1
<1> DEFINE P == Past
           Q == Past'
<1>0. Managers \subseteq Clients
  BY DEF Clients
<1>1. P \subseteq Managers /\ Q \subseteq Managers /\ P \subseteq Q
  BY <1>0 DEF Past
<1>2. /\ c \in Managers
      /\ pc[c] \notin {"label", "finished", "failed"}
      /\ s \in {"label", "finished", "failed"}
      => c \notin P /\ Q = P \cup {c}
  BY <1>0 DEF Past
<1>3. IsFiniteSet(P) /\ IsFiniteSet(Q)
  BY <1>1, FS_Subset, Zenon
<1> HIDE DEF P, Q
<1>4. Cardinality(P) \in Nat /\ Cardinality(Q) \in Nat /\ Cardinality(P) <= Cardinality(Q)
  BY <1>1, <1>3, FS_Subset, FS_CardinalityType, Zenon
<1>5. c \notin P /\ Q = P \cup {c} => Cardinality(Q) = Cardinality(P) + 1
  BY <1>3, FS_AddElement
<1> QED
  BY <1>2, <1>4, <1>5 DEF P, Q

(* At the start nobody has tried. *)
LEMMA InitStarveInv ==
  ASSUME IsFiniteSet(Managers), ChecklistInit
  PROVE  StarveInv
<1>1. ShapeInv
  BY InitShapeInv
<1>2. /\ pc = [c \in Clients |-> "read"] /\ tries = [c \in Clients |-> 0] /\ version = 0
  BY Zenon DEF ChecklistInit
<1>3. Cardinality(Past) \in Nat
  <2>1. Past \subseteq Managers
    BY DEF Past
  <2> QED
    BY <2>1, FS_Subset, FS_CardinalityType
<1>4. \A c \in Managers : pc[c] = "read" /\ tries[c] = 0
  BY <1>2 DEF Clients
<1> QED
  BY <1>1, <1>2, <1>3, <1>4 DEF StarveInv

(* Every step keeps StarveInv: one write, one new version, one more past it. *)
LEMMA NextStarveInv ==
  ASSUME IsFiniteSet(Managers), StarveInv, [ChecklistNext]_checklistVars
  PROVE  StarveInv'
<1>0. ShapeInv /\ ShapeInv' /\ Managers \subseteq Clients
  BY NextShapeInv DEF StarveInv, Clients
<1> DEFINE Goal ==
      /\ version' <= Cardinality(Past')
      /\ \A c \in Managers :
           /\ pc'[c] = "read" => tries'[c] <= version'
           /\ pc'[c] = "write" => tries'[c] <= copy'[c].etag + 1
           /\ pc'[c] = "conflict" => MaxTries <= version'
<1> SUFFICES ASSUME OnlyConditional', edits' = 0 PROVE Goal
  BY <1>0 DEF StarveInv
<1>1. ASSUME PeopleStep PROVE FALSE
  BY <1>0, <1>1 DEF PeopleStep, EditBox, Rewrite, ShapeInv, ChecklistTypeOK
<1>2. edits = 0
  <2>1. ASSUME NEW c \in Clients, ClientStep(c) PROVE edits' = edits
    BY <2>1 DEF ClientStep, Read, Write, Conflict, LabelDone, FailRequest
  <2> QED
    BY <1>1, <2>1 DEF ChecklistNext, checklistVars
<1>3. /\ version <= Cardinality(Past)
      /\ \A c \in Managers :
           /\ pc[c] = "read" => tries[c] <= version
           /\ pc[c] = "write" => tries[c] <= copy[c].etag + 1
           /\ pc[c] = "conflict" => MaxTries <= version
  BY <1>0, <1>2, FinishedStays DEF StarveInv, ShapeInv
<1>4. /\ pc \in [Clients -> {"read", "write", "label", "finished", "failed", "conflict"}]
      /\ tries \in [Clients -> 0 .. MaxTries] /\ version \in Nat
      /\ \A c \in Clients : copy[c].etag \in 0 .. version
      /\ DOMAIN copy = Clients
      /\ MaxTries \in Nat
  BY <1>0, ChecklistType, Zenon DEF ShapeInv, ChecklistTypeOK, CopyInv, Shape
<1>5. ASSUME NEW c \in Clients, Write(c) PROVE Goal
  <2>1. c \in Managers
    BY <1>0, <1>5, ConditionalWrite
  <2>2. PICK s \in {"label", "finished"} : pc' = [pc EXCEPT ![c] = s]
    BY <1>5 DEF Write
  <2>3. pc[c] = "write" /\ version' = version + 1 /\ copy' = copy /\ tries' = tries
    BY <1>5 DEF Write
  <2>4. Cardinality(Past) \in Nat /\ Cardinality(Past') = Cardinality(Past) + 1
    BY <1>4, <2>1, <2>2, <2>3, PastGrows
  <2>5. version' <= Cardinality(Past')
    BY <1>3, <1>4, <2>3, <2>4
  <2>6. \A d \in Managers : d # c => pc'[d] = pc[d]
    BY <1>0, <1>4, <2>2
  <2>7. pc'[c] \in {"label", "finished"}
    BY <1>4, <2>2
  <2> QED
    BY <1>0, <1>3, <1>4, <2>3, <2>5, <2>6, <2>7
<1>6. ASSUME NEW c \in Clients, Read(c) PROVE Goal
  <2>1. /\ pc' = [pc EXCEPT ![c] = "write"] /\ version' = version /\ pc[c] = "read"
        /\ tries' = [tries EXCEPT ![c] = @ + 1]
        /\ copy' = [copy EXCEPT ![c] = [box |-> box, text |-> text, etag |-> version]]
    BY <1>6, Zenon DEF Read
  <2>2. version' <= Cardinality(Past')
    <3>1. pc[c] \in {"label", "finished", "failed"} => "write" \in {"label", "finished", "failed"}
      BY <2>1
    <3>2. Cardinality(Past) \in Nat /\ Cardinality(Past') \in Nat
          /\ Cardinality(Past) <= Cardinality(Past')
      BY <1>4, <2>1, <3>1, PastGrows
    <3> QED
      BY <1>3, <1>4, <2>1, <3>2
  <2>3. tries'[c] = tries[c] + 1 /\ copy'[c].etag = version /\ pc'[c] = "write"
    BY <1>4, <2>1
  <2>4. \A d \in Clients : d # c => tries'[d] = tries[d] /\ copy'[d] = copy[d] /\ pc'[d] = pc[d]
    BY <1>4, <2>1
  <2> QED
    BY <1>0, <1>3, <1>4, <2>1, <2>2, <2>3, <2>4
<1>7. ASSUME NEW c \in Clients, Conflict(c) PROVE Goal
  <2>1. /\ pc' = [pc EXCEPT ![c] = IF tries[c] >= MaxTries THEN "conflict" ELSE "read"]
        /\ pc[c] = "write" /\ c \notin Coders /\ copy[c].etag # version
        /\ version' = version /\ tries' = tries /\ copy' = copy
    BY <1>7 DEF Conflict, Match
  <2>2. version' <= Cardinality(Past')
    <3>1. PICK s \in {"conflict", "read"} : pc' = [pc EXCEPT ![c] = s]
      BY <2>1
    <3>2. pc[c] \in {"label", "finished", "failed"} => s \in {"label", "finished", "failed"}
      BY <2>1
    <3>3. Cardinality(Past) \in Nat /\ Cardinality(Past') \in Nat
          /\ Cardinality(Past) <= Cardinality(Past')
      BY <1>4, <3>1, <3>2, PastGrows
    <3> QED
      BY <1>3, <1>4, <2>1, <3>3
  <2>3. c \in Managers /\ tries[c] <= version
    BY <1>3, <1>4, <2>1 DEF Clients
  <2>4. pc'[c] = IF tries[c] >= MaxTries THEN "conflict" ELSE "read"
    BY <1>4, <2>1
  <2>5. \A d \in Clients : d # c => pc'[d] = pc[d]
    BY <1>4, <2>1
  <2> QED
    BY <1>0, <1>3, <1>4, <2>1, <2>2, <2>3, <2>4, <2>5
<1>8. ASSUME NEW c \in Clients, LabelDone(c) \/ FailRequest(c) PROVE Goal
  <2>1. PICK s \in {"finished", "failed"} : pc' = [pc EXCEPT ![c] = s]
    BY <1>8 DEF LabelDone, FailRequest
  <2>2. version' = version /\ tries' = tries /\ copy' = copy
    BY <1>8 DEF LabelDone, FailRequest
  <2>3. version' <= Cardinality(Past')
    <3>1. pc[c] \in {"label", "finished", "failed"} => s \in {"label", "finished", "failed"}
      BY <2>1
    <3>2. Cardinality(Past) \in Nat /\ Cardinality(Past') \in Nat
          /\ Cardinality(Past) <= Cardinality(Past')
      BY <1>4, <2>1, <3>1, PastGrows
    <3> QED
      BY <1>3, <1>4, <2>2, <3>2
  <2>4. \A d \in Clients : pc'[d] = pc[d] \/ pc'[d] \in {"finished", "failed"}
    BY <1>4, <2>1
  <2> QED
    BY <1>0, <1>3, <2>2, <2>3, <2>4
<1>9. ASSUME UNCHANGED checklistVars PROVE Goal
  <2>1. version' = version /\ tries' = tries /\ copy' = copy /\ pc' = pc
    BY <1>9 DEF checklistVars
  <2> QED
    BY <1>3, <2>1 DEF Past
<1> HIDE DEF Goal
<1>10. Goal
  BY <1>1, <1>5, <1>6, <1>7, <1>8, <1>9 DEF ChecklistNext, ClientStep
<1> QED
  BY <1>10

(* As many calls as there are tries never make one of them give up with a    *)
(* CheckboxConflictError: a conflict is the write of another call, and each  *)
(* writes once (_update_checkbox_with_etag).                                 *)
THEOREM CallsDoNotStarve ==
  ASSUME IsFiniteSet(Managers), Cardinality(Managers) <= MaxTries
  PROVE  ChecklistSpec => []NobodyStarves
<1>1. StarveInv => NobodyStarves
  <2> SUFFICES ASSUME StarveInv, OnlyConditional, edits = 0,
                      NEW c \in Managers, pc[c] = "conflict"
               PROVE  FALSE
    BY DEF NobodyStarves
  <2>1. MaxTries <= version /\ version <= Cardinality(Past) /\ version \in Nat
    BY DEF StarveInv, ShapeInv, CopyInv, Shape
  <2> DEFINE P == Past
  <2>2. P \subseteq Managers \ {c}
    BY DEF Past
  <2> HIDE DEF P
  <2>3. IsFiniteSet(Managers \ {c}) /\ Cardinality(Managers \ {c}) = Cardinality(Managers) - 1
    BY FS_RemoveElement
  <2>4. Cardinality(P) <= Cardinality(Managers \ {c})
    BY <2>2, <2>3, FS_Subset
  <2>5. Cardinality(P) \in Nat /\ Cardinality(Managers) \in Nat /\ MaxTries \in Nat
    BY <2>2, <2>3, FS_Subset, FS_CardinalityType, ChecklistType, Zenon
  <2>6. version <= Cardinality(P)
    BY <2>1 DEF P
  <2> QED
    BY <2>1, <2>3, <2>4, <2>5, <2>6
<1>2. StarveInv /\ [ChecklistNext]_checklistVars => StarveInv'
  BY NextStarveInv
<1>3. ChecklistInit => StarveInv
  BY InitStarveInv
<1> QED
  BY <1>1, <1>2, <1>3, PTL DEF ChecklistSpec
=============================================================================
