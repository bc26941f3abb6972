\* Deadlock is not checked: once the requests are served the model is done.
SPECIFICATION MCSpec
CONSTANTS
    t1 = t1
    p1 = p1
    p2 = p2
    e1 = e1
    e2 = e2
    Txs = {t1}
    Policies = {p1, p2}
    Policy = p1
    Opening <- PolicyIssued
    OpeningCoverages <- OneCoverage
    Amounts = {1, 3}
    DueDates = {3}
    LineLists = {}
    MaxRequests = 3
    Endorsements = {e1, e2}
    RequestTypes = {"CORRECTION"}
    LineTypes = {"ADD", "VALUE"}
    Edits = {"add", "edit", "delete"}
    MiscFee = 1

    Agents = {"acme", "ben", "cid"}
    Employed = {"ben"}
    CompanyOf <- OfAcme
    RatedDays = {180, 365}
    UsualDays = 365
    ModeOf <- RatedAs
    InOrder <- AsListed
    OnOffer <- SoldFor
    RateTexts = {"as agreed", "new"}
    RateClicks = 6
INVARIANT ValuesAreAsApproved
INVARIANT AccountsMatchCoverages
INVARIANT ReplayAgrees
INVARIANT RatesAreWrittenAsShown
CHECK_DEADLOCK FALSE
