---------------------------- MODULE ContextCache ----------------------------
(***************************************************************************)
(* What ContextHydrator (context_hydrator.py) and ADRLoader                *)
(* (adr_loader.py) keep in ~/.loop-troop/cache between calls: one file per *)
(* commit and set of focus files, written once and never checked again.    *)
(* The key is made of HEAD, the entry of the working tree, which need not  *)
(* be the tree of HEAD; and a process that dies while it writes leaves a   *)
(* torn file under the right name.                                         *)
(*                                                                         *)
(* A cache is a function from keys to entries.  Truncation to the token    *)
(* budget and the text around an entry are left out.                       *)
(***************************************************************************)

Whole(content) == [of |-> content, whole |-> TRUE]
Torn(content) == [of |-> content, whole |-> FALSE]

(* A slip, not the code: the focus files alone make the key. *)
KeyWithoutCommit(commit, focus) == <<focus>>

(* The path of the clone is part of the key too; there is one clone. *)
Key(commit, focus) == <<commit, focus>>

(* What a call works with: the entry if there is one, else what is read now. *)
Look(cache, key, content) ==
  IF key \in DOMAIN cache THEN cache[key] ELSE Whole(content)

(* The cache with an entry under key, one that is there first staying there. *)
Keep(cache, key, entry) ==
  [k \in DOMAIN cache \cup {key} |-> IF k \in DOMAIN cache THEN cache[k] ELSE entry]
=============================================================================
