SPECIFICATION Spec
CONSTANTS
    MaxOrders = 3
    MaxSubs = 3
    MaxNow = 3
    MaxEnd = 99
    Basic = Basic
    Premium = Premium
    NoPlan = NoPlan
    Plan <- TwoPlans
    Tier <- TierLevel
    Catalogue <- Trials
    ListPrice <- RisingPrice
    CalendarDays <- Calendar
    TermDays <- Terms
    ShortTerm <- Short
    LongTerm <- Long
    InitialBalance = 2
    RechargeAmounts = {}
    Retention = 9
    OneAtATime = TRUE
    Redeliver = FALSE
    LossyGateway = FALSE
    AdminTools = {}
    TrialBlocked = FALSE
CHECK_DEADLOCK FALSE
INVARIANTS
    TypeOK
    Solvent
    TimeIsPaidFor
    PaidTimeIsKept
PROPERTIES
    ConsumedNotRefundedAgain
