\* Deadlock is not checked: once MaxRequests requests are served the model is done.
SPECIFICATION FairSpec
CONSTANTS
    t1 = t1
    t2 = t2
    p1 = p1
    p2 = p2
    p3 = p3
    Txs = {t1, t2}
    Policies = {p1, p2, p3}
    Opening <- OldAndNew
    Amounts = {1, 2}
    DueDates = {1}
    LineLists <- Single
    MaxRequests = 3
INVARIANT BalancesAgree
PROPERTY PaymentsSettleOldestFirst
PROPERTY EveryRequestEnds
CHECK_DEADLOCK FALSE
