SPECIFICATION Spec
CONSTANTS
  Port = {"server", "client"}
  QueueCap = 1
  MaxSends = 2
INVARIANTS ReceivedAsSent Accounted
CHECK_DEADLOCK FALSE
