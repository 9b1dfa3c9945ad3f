\* Major frames of one second, two seconds and half a second.
SPECIFICATION Spec
CHECK_DEADLOCK FALSE
CONSTANTS
  Hz = 3
  Period = 2
  MajorLens = {3, 6, 12}
  FLTs <- SmallFLTs
  StressModes = {TRUE, FALSE}
  MaxNow = 11
INVARIANTS
  FdauTypeOK
  KeepsSchedule
  EachMinorFrameOnce
