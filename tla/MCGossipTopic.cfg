SPECIFICATION FairSpec
CONSTANTS
  SeenCap = 1
  MaxDown = 2
INVARIANTS NoLostWakeup OverlayBeforeBroadcast
PROPERTIES WaitsReturn BothReceive 
CHECK_DEADLOCK FALSE
