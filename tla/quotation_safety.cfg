\* Deadlock is not checked: once the bounds are reached the model is done.
SPECIFICATION MCSpec
CONSTANTS
    q1 = q1
    r1 = r1
    r2 = r2
    Quotations = {q1}
    Reqs = {r1, r2}
    Modes = {"VALUE_PERCENTAGE", "VEHICLE_SEATS_BASED", "FLAT_TIER"}
    Periods = {1}
    Values = {2, 3}
    ValueAt <- Depreciated
    SeatCounts = {1, 2}
    Keys = {2, 4}
    Premiums = {4, 6}
    Rates = {2, 3}
    Threshold = 5
    Bracket = 2
    MaxChanges = 2

    Covers = {"own", "liability", "accident"}
    SolvedCover = "own"
    Menus <- SomeMenus
    Fleets <- SomeFleets
    RiskValues <- SomeRisks
    Selectable <- SomeSelections
    Totals = {60, 75, 90}
    MiscFee = 10

    v1 = v1  p1 = p1  p2 = p2
    Cars = {v1}
    Parties = {p1, p2}
    Plates = {"A1"}
    Identity <- AnyCase
    LineUps <- SomeLineUps
    MaxFilings = 3
    OwnerReqs = {r1, r2}

    Correctable = {"name", "start"}
    Heading = {"name"}
    PeriodStart = "start"
    Texts = {"x", "y", "z"}
    AsIssued <- SaysX
    MaxEndorsed = 2
    MaxCorrections = 2
SYMMETRY Alike
INVARIANT ConvertedOnce
INVARIANT HalvesAgree
INVARIANT FloorHolds
INVARIANTS
    GrossTotalNearTarget FormAgreesWithServer ReopenedIsUnchanged
    OwnersAreOnRecord
    TellsTheChange
PROPERTY NeverRepricedOnceConverted
CHECK_DEADLOCK FALSE
