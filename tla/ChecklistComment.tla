-------------------------- MODULE ChecklistComment --------------------------
(***************************************************************************)
(* The checklist comment of an issue and those who write it.  PRManager    *)
(* (coder.py) reads the comment, sets the box of one item and writes the   *)
(* comment back under the condition that it has not changed, with a        *)
(* bounded number of tries; the tick that leaves no box open also labels   *)
(* the issue.  CoderWorker reads the comment when it starts and writes it  *)
(* back when it has finished, without a condition.  People edit it.        *)
(*                                                                         *)
(* Every request to GitHub is a step of its own.  An item is its box and   *)
(* its description, by which PRManager finds it; CoderWorker goes by line. *)
(***************************************************************************)
EXTENDS Naturals

CONSTANTS
  N,             \* the checklist has the items 1 .. N
  TextOf,        \* the description of each item when the clients started
  Managers,      \* calls of check_checkbox and flag_checkbox
  Coders,        \* runs of CoderWorker.handle_issue
  ItemOf,        \* the item each of them is about
  MarkOf,        \* "x" or "!", what it makes of its box
  MaxTries,      \* PRManager._MAX_CONFLICT_RETRIES
  PeopleMarks,   \* what people put into boxes
  MaxEdits       \* bound: edits by people

Clients == Managers \cup Coders
Items == 1 .. N
Marks == {" ", "x", "!"}

ASSUME ClientsDisjoint == Managers \cap Coders = {}
ASSUME ChecklistType ==
  /\ N \in Nat \ {0}
  /\ DOMAIN TextOf = Items
  /\ ItemOf \in [Clients -> Items]
  /\ MarkOf \in [Clients -> {"x", "!"}]
  /\ PeopleMarks \subseteq Marks
  /\ MaxTries \in Nat \ {0} /\ MaxEdits \in Nat

VARIABLES
  box,      \* the boxes of the comment on GitHub
  text,     \* its descriptions
  version,  \* its ETag: changes with every write
  done,     \* the issue is labelled "done"
  pc,       \* "read", "write", "label", "finished", "failed" or "conflict"
  copy,     \* the boxes and descriptions a client has read, with their ETag
  tries,    \* reads of a client so far
  edits     \* edits by people so far

checklistVars == <<box, text, version, done, pc, copy, tries, edits>>

Rewritten == "rewritten"

(* _update_checkbox_by_description: the first item with the description the *)
(* client knows, if there is one; _set_checklist_state: the line.           *)
Targets(c, t) ==
  IF c \in Coders
    THEN {ItemOf[c]}
    ELSE LET found == {k \in Items : t[k] = TextOf[ItemOf[c]]}
         IN  {k \in found : \A j \in found : k <= j}

Updated(c) ==
  [k \in Items |-> IF k \in Targets(c, copy[c].text) THEN MarkOf[c] ELSE copy[c].box[k]]

(* A slip, not the code: one ticked box is taken for all of them. *)
AnyItemChecked(b) == \E k \in Items : b[k] # " "

AllItemsChecked(b) == \A k \in Items : b[k] # " "

ChecklistInit ==
  /\ box = [k \in Items |-> " "]
  /\ text = TextOf
  /\ version = 0
  /\ done = FALSE
  /\ pc = [c \in Clients |-> "read"]
  /\ copy = [c \in Clients |-> [box |-> box, text |-> text, etag |-> 0]]
  /\ tries = [c \in Clients |-> 0]
  /\ edits = 0

Read(c) ==
  /\ pc[c] = "read"
  /\ copy' = [copy EXCEPT ![c] = [box |-> box, text |-> text, etag |-> version]]
  /\ tries' = [tries EXCEPT ![c] = @ + 1]
  /\ pc' = [pc EXCEPT ![c] = "write"]
  /\ UNCHANGED <<box, text, version, done, edits>>

(* A slip, not the code: the ETag is not sent. *)
MatchNothing(c) == TRUE

(* If-Match; CoderWorker does not send it. *)
Match(c) == c \in Coders \/ copy[c].etag = version

(* The comment is replaced as a whole.  Only check_checkbox looks at the    *)
(* boxes afterwards, at those it wrote.                                     *)
Write(c) ==
  /\ pc[c] = "write"
  /\ Match(c)
  /\ box' = Updated(c)
  /\ text' = copy[c].text
  /\ version' = version + 1
  /\ pc' = [pc EXCEPT ![c] =
       IF c \in Managers /\ MarkOf[c] = "x" /\ AllItemsChecked(Updated(c))
         THEN "label" ELSE "finished"]
  /\ UNCHANGED <<done, copy, tries, edits>>

(* A slip, not the code: the last try is not made. *)
ConflictEarly(c) ==
  /\ pc[c] = "write"
  /\ ~Match(c)
  /\ pc' = [pc EXCEPT ![c] = IF tries[c] >= MaxTries - 1 THEN "conflict" ELSE "read"]
  /\ UNCHANGED <<box, text, version, done, copy, tries, edits>>

(* A slip, not the code: one try too many. *)
ConflictLate(c) ==
  /\ pc[c] = "write"
  /\ ~Match(c)
  /\ pc' = [pc EXCEPT ![c] = IF tries[c] > MaxTries THEN "conflict" ELSE "read"]
  /\ UNCHANGED <<box, text, version, done, copy, tries, edits>>

(* 412: read again, or raise CheckboxConflictError. *)
Conflict(c) ==
  /\ pc[c] = "write"
  /\ ~Match(c)
  /\ pc' = [pc EXCEPT ![c] = IF tries[c] >= MaxTries THEN "conflict" ELSE "read"]
  /\ UNCHANGED <<box, text, version, done, copy, tries, edits>>

LabelDone(c) ==
  /\ pc[c] = "label"
  /\ done' = TRUE
  /\ pc' = [pc EXCEPT ![c] = "finished"]
  /\ UNCHANGED <<box, text, version, copy, tries, edits>>

(* A request fails, or the process dies. *)
FailRequest(c) ==
  /\ pc[c] \in {"read", "write", "label"}
  /\ pc' = [pc EXCEPT ![c] = "failed"]
  /\ UNCHANGED <<box, text, version, done, copy, tries, edits>>

EditBox(k, m) ==
  /\ edits < MaxEdits
  /\ box[k] # m
  /\ box' = [box EXCEPT ![k] = m]
  /\ version' = version + 1
  /\ edits' = edits + 1
  /\ UNCHANGED <<text, done, pc, copy, tries>>

Rewrite(k) ==
  /\ edits < MaxEdits
  /\ text[k] # Rewritten
  /\ text' = [text EXCEPT ![k] = Rewritten]
  /\ version' = version + 1
  /\ edits' = edits + 1
  /\ UNCHANGED <<box, done, pc, copy, tries>>

ClientStep(c) ==
  Read(c) \/ Write(c) \/ Conflict(c) \/ LabelDone(c) \/ FailRequest(c)

PeopleStep ==
  \E k \in Items : Rewrite(k) \/ \E m \in PeopleMarks : EditBox(k, m)

ChecklistNext == (\E c \in Clients : ClientStep(c)) \/ PeopleStep

ChecklistSpec == ChecklistInit /\ [][ChecklistNext]_checklistVars

-----------------------------------------------------------------------------
ChecklistTypeOK ==
  /\ box \in [Items -> Marks]
  /\ DOMAIN text = Items
  /\ version \in Nat
  /\ done \in BOOLEAN
  /\ pc \in [Clients -> {"read", "write", "label", "finished", "failed", "conflict"}]
  /\ \A c \in Clients :
       /\ copy[c].box \in [Items -> Marks]
       /\ copy[c].etag \in 0 .. version
  /\ tries \in [Clients -> 0 .. MaxTries]
  /\ edits \in 0 .. MaxEdits

(* No run of CoderWorker has written the comment.                            *)
OnlyConditional == \A c \in Coders : pc[c] # "finished"

(* A conditional write changes the box of its own item and nothing else of   *)
(* what the comment says at that moment, whoever wrote it since the client   *)
(* read it: people, other clients, or a run of CoderWorker.                  *)
NoLostUpdate ==
  [][\A c \in Managers :
       pc[c] = "write" /\ pc'[c] # "write" /\ version' # version =>
         /\ text' = text
         /\ \A k \in Items : box'[k] # box[k] => k \in Targets(c, text)]_checklistVars

(* While people reopen no box and no unconditional write comes in between,   *)
(* an issue is labelled done only when no box of its checklist is open.      *)
DoneMeansAllChecked ==
  done /\ OnlyConditional /\ " " \notin PeopleMarks => \A k \in Items : box[k] # " "

(* When every box has been ticked by calls that went through, one of them    *)
(* has labelled the issue, whatever the order of the ticks: the last one to  *)
(* write sees the boxes of all others.                                       *)
LastTickLabels ==
  /\ \A c \in Managers : pc[c] = "finished" /\ MarkOf[c] = "x"
  /\ {ItemOf[c] : c \in Managers} = Items
  /\ OnlyConditional /\ edits = 0
  => done

(* As many calls as there are tries do not drive each other to give up.      *)
NobodyStarves ==
  OnlyConditional /\ edits = 0 => \A c \in Managers : pc[c] # "conflict"
=============================================================================
