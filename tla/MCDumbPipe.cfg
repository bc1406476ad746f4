SPECIFICATION FairSpec
CONSTANTS
  Units <- OneAndTwo
  Window = 1
  Handshake = TRUE
INVARIANTS NoSilentLoss NothingLost
PROPERTIES ImplementsPipe PipeOpens HalfCloseTravels Terminates
CHECK_DEADLOCK FALSE
