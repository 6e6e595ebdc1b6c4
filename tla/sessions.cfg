SPECIFICATION Spec
CONSTANTS
    a = a
    b = b
    Session = {s1, s2}
    Order <- TwoOrders
    Kind <- RenewAndNew
    Amount <- One
    Credit <- CreditOfNew
    Carry <- Zero
    InitialBalance = 2
    Term = 1
    Adjustment <- Adjust
    SameOrder <- Harmless
    OtherOrder <- HarmlessAcross
    MaxRequests = 5
CHECK_DEADLOCK FALSE
INVARIANTS
    AckedIsGranted
    SessionsInvariant
PROPERTIES
    Serializable
