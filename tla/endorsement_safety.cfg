\* Deadlock is not checked: once the requests are served the model is done.
SPECIFICATION EndorsementSpec
CONSTANTS
    t1 = t1
    t2 = t2
    p1 = p1
    e1 = e1
    e2 = e2
    e3 = e3
    Txs = {t1, t2}
    Policies = {p1}
    Policy = p1
    Opening <- Issued
    OpeningCoverages <- OneCoverage
    Amounts = {1}
    DueDates = {3}
    LineLists = {}
    MaxRequests = 3
    Endorsements = {e1, e2}
    RequestTypes = {"CORRECTION", "CANCELLATION"}
    LineTypes = {"ADD", "REMOVE"}
    Edits = {"add", "edit", "delete"}
    MiscFee = 1
SYMMETRY Connections
INVARIANT ApprovedExactlyOnce
INVARIANT NumberedWithoutGaps
INVARIANT PremiumMatchesCoverages
PROPERTY DecisionStands
CHECK_DEADLOCK FALSE
