SPECIFICATION FairSpec
CONSTANTS
  Calls = {c1}
  Others = {o1}
  Phases = {"commentary", ""}
  MaxItems = 2
  Cap = 2
  MaxExits = 1
INVARIANTS TellsTheTurn 
PROPERTY CallReturns
CHECK_DEADLOCK FALSE
