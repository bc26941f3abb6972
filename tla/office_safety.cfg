\* Deadlock is not checked: once the bounds are reached the model is done.
SPECIFICATION Spec
SYMMETRY Alike
CONSTANTS
    u1 = u1  u2 = u2  e1 = e1  e2 = e2  e3 = e3  n1 = n1  n2 = n2  r1 = r1  r2 = r2
    Users = {u1, u2}
    Admin = u1
    Managed = {u1, u2}
    Emails = {e1, e2, e3}
    AdminEmail = e1
    Roles = {n1, n2}
    AdminRole = n1
    LoginAgents = {}
    Individuals = {}
    Selections <- TwoSelections
    Fields = {"reset", "email", "status", "special", "role"}
    UserReqs = {r1, r2}

    Classes = {"motor"}
    Variants = {"private", "commercial"}
    Coverages = {"own damage"}
    Days = {180}
    Modes = {"VALUE_PERCENTAGE", "VEHICLE_SEATS_BASED"}
    Tables <- SomeTables
    CatalogReqs = {r1, r2}

    Rows = {"c1", "c2", "w1", "w2", "k1", "d1"}
    Above <- SomeAbove
    Tier <- SomeTiers
    Stocked = {"c1", "c2", "w1", "k1"}
    Contents = {"blank", "x", "y"}
    AsStocked = "x"
    MaxClicks = 4
    MaxOthers = 1

    Priced = {"k1", "k2"}
    PeriodDays = {180, 365}
    FirstDay = 180
    OfferedAt <- SomePeriods
    EditorModes = {"PERCENTAGE", "VEHICLE_SEATS_BASED"}
    Figures = {"blank", "new"}
    EditorClicks = 5
INVARIANTS
    GrantsHaveTheirPage AccountsCanBeEntered
    NothingActiveUnderDeleted
    SentAsShown ClosedMeansSaved
CHECK_DEADLOCK FALSE
