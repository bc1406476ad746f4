SPECIFICATION FairSpec
CONSTANTS
  File = {f1, f2}
  Jobs = 1
  Stream = {1, 2, 3}
  ConnOf <- TwoConns
  IdOnly = TRUE
INVARIANTS StoreOutlivesReaders TicketIsServed
PROPERTY InterruptEnds
CHECK_DEADLOCK FALSE
