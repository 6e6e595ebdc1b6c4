SPECIFICATION Spec
CONSTANTS
    Request = {r1, r2}
    Subscription <- TwoSubscriptions
    Times <- OneEach
    Entered <- Entries
    Session = {x1, x2}
    Overlaps <- ApprovalsAlone
SYMMETRY Symmetry
CONSTRAINT OneDisturbance
CHECK_DEADLOCK FALSE
INVARIANTS
    RequestsInvariant
    UsedCoversHeld
PROPERTIES
    RejectionIsFinal
    QuotaIsKept
