SPECIFICATION Spec
CONSTANTS
  Reqs = {r1}
  Home = home
  None = none
  MaxVersion = 2
  MaxFaults = 0
  Modes = {"docker"}
  Acts = {"apply"}
INVARIANT RefusedForCause
CHECK_DEADLOCK FALSE
