SPECIFICATION FairLoopSpec
CONSTANTS
  TestFiles = {"test_app.py"}
  ImplFiles = {"app.py"}
  Blank = ""
  Commands = {"make", "true"}
  Contents <- MCContents
  Passing <- MCPassing
  Before <- MCBefore
  MaxIterations = 3
  HasFixModel = TRUE
INVARIANTS LoopTypeOK FirstPassWasRed
PROPERTIES HonoursContract LoopEnds
