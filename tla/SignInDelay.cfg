SPECIFICATION Spec

CONSTANTS
  None = None
  Slots = {s1, s2, s3}
  Free = 2
  Delays <- TwoDelays
  Window = 2

PROPERTIES
  DelaysGrow
  GateOpens
