SPECIFICATION Spec
CONSTANTS
    Peers = {p1, p2}
    MaxChanges = 2
CHECK_DEADLOCK FALSE
INVARIANTS NewestInCommon
PROPERTIES AtomicAdmission ReportsEnd HandlersEnd
