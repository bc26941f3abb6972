\* Deadlock is not checked: a form may be left as it is.
SPECIFICATION IntakeSpec
CONSTANTS
    FilingAgents = {"a1", "a2"}
    Clients = {"ann"}
    TypedPlates = {"P"}
    OnFileFor <- PlateOwner
    FiledUnder <- PlateVariant
    CoversOf <- VariantCovers
    DaysOf <- CoverDays
    PricedFor <- AgentPrices
    Compulsory = {"seats", "flat"}
    Renewals <- Renewal
    MaxRows = 2
    MaxAsked = 1
INVARIANTS ScopesFollowTheirVehicles RequiredStaySelected
CHECK_DEADLOCK FALSE
