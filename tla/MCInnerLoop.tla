---------------------------- MODULE MCInnerLoop ----------------------------
(***************************************************************************)
(* A small instance of InnerLoop: one test file, one implementation file.  *)
(* The test file is absent (blank), a test that passes on anything that is *)
(* not blank ("smoke") or one that wants the new behaviour ("strict");     *)
(* "make" runs it, "true" runs nothing.                                    *)
(***************************************************************************)
EXTENDS InnerLoop

MCContents == {"", "smoke", "strict", "old", "new"}
MCTrees == [{"test_app.py", "app.py"} -> MCContents]

MCPassing ==
  [make |-> {t \in MCTrees :
               \/ t["test_app.py"] \notin {"smoke", "strict"}
               \/ t["test_app.py"] = "smoke" /\ t["app.py"] # ""
               \/ t["test_app.py"] = "strict" /\ t["app.py"] = "new"},
   true |-> MCTrees]

MCBefore == [f \in {"test_app.py", "app.py"} |-> IF f = "app.py" THEN "old" ELSE ""]
=============================================================================
