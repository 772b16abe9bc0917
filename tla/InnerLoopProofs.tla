--------------------------- MODULE InnerLoopProofs ---------------------------
(***************************************************************************)
(* Proofs about InnerLoop, for any files, contents, commands and number of *)
(* iterations: type correctness, FirstPassWasRed, and that the loop        *)
(* implements InnerLoopContract.                                           *)
(***************************************************************************)
EXTENDS InnerLoop, TLAPS

-----------------------------------------------------------------------------
(* Writing a patch makes a tree, and so does emptying its implementation. *)
LEMMA WriteType ==
  ASSUME NEW t \in Trees, NEW p \in Patches
  PROVE  Write(t, p) \in Trees /\ Blanked(t, p) \in Trees
<1>1. \A f \in DOMAIN p.files : p.files[f] \in Contents
  BY DEF Patches
<1>2. QED
  BY <1>1, BlankType DEF Write, Blanked, Trees

(* Writing a patch twice is writing it once. *)
LEMMA WriteTwice ==
  ASSUME NEW t \in Trees, NEW p \in Patches
  PROVE  Write(Write(t, p), p) = Write(t, p)
BY DEF Write, Trees

(* Files that were emptied are files of the patch. *)
LEMMA WriteOverBlank ==
  ASSUME NEW t \in Trees, NEW p \in Patches
  PROVE  Write(Blanked(t, p), p) = Write(t, p)
<1>1. ImplOf(p) \subseteq DOMAIN p.files
  BY DEF ImplOf
<1>2. QED
  BY <1>1 DEF Write, Blanked, Trees

-----------------------------------------------------------------------------
(* What is in the tree at each step of the loop: before a test run of the    *)
(* Green phase, and after the loop has returned, all of the patch; in the    *)
(* Red phase all of it with the implementation emptied.                      *)
TreeInv ==
  /\ pc \in {"partition", "green", "returned"} => Write(tree, patch) = tree
  /\ pc = "red" => tree = Blanked(Write(tree, patch), patch)
  /\ pc \in {"idle", "partition", "red"} => attempt = 1
  /\ pc \in {"partition", "red"} => tdd
  /\ verdict = "none" <=> pc # "returned"

(* A first attempt that is still in the running has a patch without an       *)
(* implementation, or tests that fail without it or could not be run.       *)
RedInv ==
  pc \in {"green", "returned"} /\ verdict # "fail" /\ tdd /\ attempt = 1 /\ ImplOf(patch) # {}
    => ~Passes(Blanked(tree, patch), patch) \/ lost

LInv == LoopTypeOK /\ TreeInv /\ RedInv

(* All of it holds at the start. *)
LEMMA LoopInitInv == LoopInit => LInv
<1> SUFFICES ASSUME LoopInit PROVE LInv
  OBVIOUS
<1>1. tree \in Trees /\ patch \in Patches /\ attempt \in 1 .. MaxIterations
  BY BeforeType, LoopType DEF LoopInit
<1>2. tdd \in BOOLEAN /\ sandbox \in BOOLEAN /\ lost \in BOOLEAN
  BY Zenon DEF LoopInit
<1>3. pc = "idle" /\ attempt = 1 /\ verdict = "none"
  BY DEF LoopInit
<1>4. QED
  BY <1>1, <1>2, <1>3 DEF LInv, LoopTypeOK, TreeInv, RedInv

(* Whatever a nonzero exit code came from, lost keeps its type. *)
LEMMA LostType == LInv /\ ExitsNonzero => lost' \in BOOLEAN
BY Zenon DEF ExitsNonzero, LInv, LoopTypeOK

(* Each action keeps it.  The call: the patch has just been written. *)
LEMMA CallInv == LInv /\ Call => LInv'
<1> SUFFICES ASSUME LInv, Call PROVE LInv'
  OBVIOUS
<1>1. tree' \in Trees /\ Write(tree', patch) = tree'
  BY WriteType, WriteTwice DEF LInv, LoopTypeOK, Call
<1>2. QED
  BY <1>1 DEF LInv, LoopTypeOK, TreeInv, RedInv, Call, Passes, Blanked, ImplOf, Write

(* The Red phase empties implementation files of the patch only. *)
LEMMA BlankInv == LInv /\ BlankImplementation => LInv'
<1> SUFFICES ASSUME LInv, BlankImplementation PROVE LInv'
  OBVIOUS
<1>1. tree' \in Trees /\ tree' = Blanked(Write(tree', patch), patch)
  BY WriteType, WriteOverBlank DEF LInv, LoopTypeOK, TreeInv, BlankImplementation
<1>2. QED
  BY <1>1 DEF LInv, LoopTypeOK, TreeInv, RedInv, BlankImplementation, Write, Blanked, ImplOf

(* However the Red run ends, the patch is back in the tree. *)
LEMMA RedStepInv == LInv /\ (RedTimesOut \/ RedTautological \/ RedFails) => LInv'
<1> SUFFICES ASSUME LInv, RedTimesOut \/ RedTautological \/ RedFails PROVE LInv'
  OBVIOUS
<1>1. /\ pc = "red" /\ tree' = Write(tree, patch) /\ patch' = patch /\ tdd' = tdd
      /\ attempt' = attempt
  BY DEF RedTimesOut, RedTautological, RedFails, Restore
<1>2. tree' \in Trees /\ Write(tree', patch) = tree'
  BY <1>1, WriteType, WriteTwice DEF LInv, LoopTypeOK
<1>3. Blanked(tree', patch) = tree
  BY <1>1 DEF LInv, TreeInv
<1>4. LoopTypeOK'
  BY <1>1, <1>2, LostType DEF LInv, LoopTypeOK, RedTimesOut, RedTautological, RedFails, Return,
     Exits0
<1>5. TreeInv'
  BY <1>1, <1>2 DEF LInv, TreeInv, RedTimesOut, RedTautological, RedFails, Return, Write
<1>6. RedInv'
  <2>1. CASE RedFails
    <3>1. ~Passes(tree, patch) \/ lost'
      BY <2>1, Zenon DEF RedFails, ExitsNonzero
    <3>2. ~Passes(Blanked(tree', patch'), patch') \/ lost'
      BY <1>1, <1>3, <3>1 DEF Blanked, ImplOf
    <3>3. QED
      BY <3>2, Zenon DEF RedInv
  <2>2. CASE RedTimesOut \/ RedTautological
    BY <2>2 DEF RedTimesOut, RedTautological, Return, RedInv
  <2>3. QED
    BY <2>1, <2>2
<1>7. QED
  BY <1>4, <1>5, <1>6 DEF LInv

(* A fix is written whole and is no first attempt any more. *)
LEMMA FixInv == ASSUME NEW p \in Patches PROVE LInv /\ Fix(p) => LInv'
<1> SUFFICES ASSUME LInv, Fix(p) PROVE LInv'
  OBVIOUS
<1>1. tree' \in Trees /\ Write(tree', patch') = tree'
  BY WriteType, WriteTwice DEF LInv, LoopTypeOK, Fix
<1>2. attempt' \in 2 .. MaxIterations
  BY LoopType DEF LInv, LoopTypeOK, Fix
<1>3. lost' \in BOOLEAN
  BY LostType DEF Fix
<1>4. QED
  BY <1>1, <1>2, <1>3 DEF LInv, LoopTypeOK, TreeInv, RedInv, Fix, Write

(* The other steps leave the tree alone. *)
LEMMA EndInv ==
  LInv /\ (TimesOut \/ TestsPass \/ GiveUp \/ SandboxRaises \/ Hang \/ UNCHANGED loopVars) => LInv'
<1> SUFFICES ASSUME LInv,
                    TimesOut \/ TestsPass \/ GiveUp \/ SandboxRaises \/ Hang \/ UNCHANGED loopVars
             PROVE  LInv'
  OBVIOUS
<1> USE DEF LInv, LoopTypeOK, TreeInv, RedInv, Return, Write, Passes, Blanked, ImplOf, Exits0
<1>1. CASE TimesOut \/ GiveUp
  BY <1>1, LostType DEF TimesOut, GiveUp
<1>2. CASE TestsPass
  BY <1>2 DEF TestsPass
<1>3. CASE SandboxRaises \/ Hang
  BY <1>3 DEF SandboxRaises, Hang
<1>4. CASE UNCHANGED loopVars
  BY <1>4 DEF loopVars
<1>5. QED
  BY <1>1, <1>2, <1>3, <1>4

(* All actions together. *)
LEMMA LoopStepInv == LInv /\ [LoopNext]_loopVars => LInv'
BY CallInv, BlankInv, RedStepInv, FixInv, EndInv DEF LoopNext, LoopStep, Ended

(* What holds of the loop at each of its steps. *)
THEOREM LoopInvariance == LoopSpec => []LInv
BY LoopInitInv, LoopStepInv, PTL DEF LoopSpec

(* The type invariant for any files, contents, commands and iterations. *)
THEOREM LoopTypeCorrect == LoopSpec => []LoopTypeOK
BY LoopInvariance, PTL DEF LInv

(* A first pass in TDD mode had tests that fail without the implementation. *)
THEOREM FirstPassFollowsRed == LoopSpec => []FirstPassWasRed
<1>1. LInv => FirstPassWasRed
  BY DEF LInv, TreeInv, RedInv, LoopTypeOK, FirstPassWasRed
<1>2. QED
  BY <1>1, LoopInvariance, PTL

-----------------------------------------------------------------------------
(* The loop starts where the contract does. *)
LEMMA ContractInit == LoopInit => Contract!Init
<1> SUFFICES ASSUME LoopInit PROVE Contract!Init
  OBVIOUS
<1>1. patch \in Patches /\ tree \in Trees
  BY BeforeType DEF LoopInit
<1>2. Passing[patch.command] \in SUBSET Trees
  BY <1>1, PassingType DEF Patches
<1>3. QED
  BY <1>1, <1>2, WriteType DEF LoopInit, Status, Contract!Init

(* Each step of the loop is one of the contract, or none. *)
LEMMA ContractStep == LInv /\ LInv' /\ [LoopNext]_loopVars => [Contract!Next]_Contract!contractVars
<1> SUFFICES ASSUME LInv, LInv', [LoopNext]_loopVars
             PROVE  [Contract!Next]_Contract!contractVars
  OBVIOUS
<1> USE DEF Status, Return
<1>1. /\ tree \in Trees /\ patch \in Patches /\ tree' \in Trees /\ patch' \in Patches
      /\ attempt \in 1 .. MaxIterations /\ MaxIterations \in Nat
  BY LoopType DEF LInv, LoopTypeOK
<1>2. CASE Call
  BY <1>1, <1>2, WriteTwice DEF Call, Contract!Next, Contract!Start, LInv, TreeInv
<1>3. CASE BlankImplementation
  <2>1. Write(tree', patch') = Write(tree, patch) /\ Write(tree, patch) = tree /\ attempt = 1
    BY <1>1, <1>3, WriteOverBlank DEF BlankImplementation, LInv, TreeInv
  <2>2. QED
    BY <1>1, <1>3, <2>1 DEF BlankImplementation, Contract!Next, Contract!EmptyFiles
<1>4. ASSUME RedTimesOut \/ RedTautological \/ RedFails
      PROVE  Contract!Next
  <2>1. Write(tree', patch') = Write(tree, patch) /\ tree' = Write(tree, patch)
    BY <1>1, <1>4, WriteTwice DEF RedTimesOut, RedTautological, RedFails, Restore
  <2>2. QED
    BY <1>4, <2>1 DEF RedTimesOut, RedTautological, RedFails, Contract!Next, Contract!RestoreFiles,
       Contract!Fail
<1>5. CASE TimesOut \/ GiveUp
  BY <1>5 DEF TimesOut, GiveUp, LInv, TreeInv, Contract!Next, Contract!Fail
<1>6. CASE TestsPass
  BY <1>6 DEF TestsPass, Exits0, Passes, LInv, TreeInv, Contract!Next, Contract!Pass
<1>7. ASSUME NEW p \in Patches, Fix(p)
      PROVE  Contract!Next
  <2>1. /\ Write(tree', patch') = tree' /\ Write(tree, patch) = tree
        /\ pc = "green" /\ pc' = "green" /\ HasFixModel /\ attempt < MaxIterations
        /\ attempt' = attempt + 1
    BY <1>7 DEF Fix, LInv, TreeInv
  <2>2. Passing[patch'.command] \in SUBSET Trees
    BY <1>1, PassingType DEF Patches
  <2>3. QED
    BY <1>1, <2>1, <2>2 DEF Contract!Next, Contract!Fix
<1>8. CASE SandboxRaises \/ Hang
  BY <1>8 DEF SandboxRaises, Hang, Contract!Next, Contract!Raise, Contract!contractVars
<1>9. CASE UNCHANGED loopVars
  BY <1>9 DEF loopVars, Contract!contractVars
<1>10. QED
  BY <1>2, <1>3, <1>4, <1>5, <1>6, <1>7, <1>8, <1>9 DEF LoopNext, LoopStep, Ended

(* The loop with its phases and iterations keeps the contract its callers    *)
(* rely on.                                                                  *)
THEOREM LoopHonoursContract == LoopSpec => HonoursContract
BY LoopInvariance, ContractInit, ContractStep, PTL DEF LoopSpec, HonoursContract, Contract!Spec
=============================================================================
