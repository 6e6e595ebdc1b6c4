SPECIFICATION Spec
CONSTANTS
    MaxOrders = 2
    MaxSubs = 2
    MaxNow = 1
    MaxEnd = 3
    Basic = Basic
    Premium = Premium
    NoPlan = NoPlan
    Plan <- TwoPlans
    Tier <- TierLevel
    Catalogue <- Monthly
    ListPrice <- RisingPrice
    CalendarDays <- Calendar
    TermDays <- Terms
    ShortTerm <- Short
    LongTerm <- Long
    InitialBalance = 0
    RechargeAmounts = {}
    Retention = 9
    OneAtATime = FALSE
    Redeliver = TRUE
    LossyGateway = FALSE
    AdminTools = {"status", "plan"}
    TrialBlocked = FALSE
CHECK_DEADLOCK FALSE
PROPERTIES
    RefundIsFinal
