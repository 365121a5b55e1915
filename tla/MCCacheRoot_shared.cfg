SPECIFICATION Spec
CONSTANTS
  Proc = {p1, p2}
  Modes = {"default", "host"}
  MaxClears = 1
CHECK_DEADLOCK FALSE
SYMMETRY Processes
INVARIANTS UsesOnlyTagged
PROPERTIES HostsLeftAlone TagLasts
