SPECIFICATION LiveSpec
CONSTANTS
  Conns = {k1, k2, k3}
  Tries = 2
INVARIANTS  OnlyTriggerLingers
PROPERTIES ClientsReleased PortReleased
CHECK_DEADLOCK FALSE
