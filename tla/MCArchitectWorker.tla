-------------------------- MODULE MCArchitectWorker --------------------------
(***************************************************************************)
(* A small instance of ArchitectWorker: plans of one or two sub-issues     *)
(* with all dependencies, self-dependencies (which the schema refuses) and *)
(* circles included; the first sub-issue may be a feature again.           *)
(***************************************************************************)
EXTENDS ArchitectWorker

Part(n, features) == [deps : SUBSET (1 .. n), feature : features]

MCAnswers ==
  {<<a>> : a \in Part(1, {FALSE})} \cup
  {<<a, b>> : a \in Part(2, BOOLEAN), b \in Part(2, {FALSE})}
=============================================================================
