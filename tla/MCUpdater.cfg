SPECIFICATION Spec
CONSTANTS
  Reqs = {r1, r2}
  Home = home
  None = none
  MaxVersion = 2
  MaxFaults = 1
  Modes = {"docker", "binary"}
  Acts = {"apply", "task", "version", "rollback", "check"}
SYMMETRY Symmetry
VIEW Seen
INVARIANTS TypeOK ActiveOwned OneServer CompletedTrue BackupsTrue RowsFollowed
CHECK_DEADLOCK FALSE
