SPECIFICATION FairSpec
CONSTANTS
    MaxOrders = 2
    MaxSubs = 2
    MaxNow = 2
    MaxEnd = 99
    Basic = Basic
    Premium = Premium
    NoPlan = NoPlan
    Plan <- TwoPlans
    Tier <- TierLevel
    Catalogue <- Entry
    ListPrice <- RisingPrice
    CalendarDays <- Calendar
    TermDays <- Terms
    ShortTerm <- Short
    LongTerm <- Long
    InitialBalance = 2
    RechargeAmounts = {3}
    Retention = 0
    OneAtATime = FALSE
    Redeliver = FALSE
    LossyGateway = TRUE
    AdminTools = {"delete", "plan"}
    TrialBlocked = FALSE
CHECK_DEADLOCK FALSE
INVARIANTS
    LinksJoinOrders
    ChainInvariant
PROPERTIES
    PaymentIsDelivered
