SPECIFICATION CfgSpec
CONSTANTS
  ConfigureCall = {c1, c2}
  Nobody = none
INVARIANT NotStuckConfigured
