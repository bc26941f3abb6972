------------------------------ MODULE LedgerBackfill ------------------------------
(***************************************************************************)
(* scripts/backfillAgentPayableLedger.js: the one-off script that computes  *)
(* remaining_amount of every bucket row again from the ledger, replaying it *)
(* in creation order with the rules of lib/agentPayables.js.                *)
(***************************************************************************)
EXTENDS AgentPayables

\* The bucket a debit is taken from: the first of its policy that is open.
LastOfPolicy(rows, open, p) ==   \* variant: the newest bucket of the policy
    {b \in DOMAIN open : rows[b].policy = p /\ \A c \in DOMAIN open : rows[c].policy = p => c <= b}

FirstOfPolicy(rows, open, p) ==
    {b \in DOMAIN open : rows[b].policy = p /\ \A c \in DOMAIN open : rows[c].policy = p => b <= c}

\* What a plan takes from bucket b.
TakenFrom(plan, b) == SumOf(LAMBDA k : plan[k].by, {k \in DOMAIN plan : plan[k].row = b})

\* A payment is placed over the buckets opened before it.
Placed(rows, open, n) ==
    LET buckets == [b \in DOMAIN open |-> [rows[b] EXCEPT !.opened = TRUE, !.remaining = open[b]]]
        plan    == Allocation(buckets, n)
    IN  [b \in DOMAIN open |-> open[b] - TakenFrom(plan, b)]

\* remaining_amount of the buckets once row i is replayed, from what it was.
ReplayRow(rows, open, i) ==
    LET row == rows[i]
    IN  CASE IsBucket(row) -> Over(Only(i, row.amount), open)
          [] row.type = "PAYMENT" -> Placed(rows, open, -row.amount)
          [] OTHER -> [b \in DOMAIN open |->
                          IF b \in FirstOfPolicy(rows, open, row.policy) THEN open[b] + row.amount
                          ELSE open[b]]

LastId(rows) == Max({0} \cup DOMAIN rows)

Replay(rows) ==
    LET open[i \in 0..LastId(rows)] ==
            IF i = 0 THEN NoRows
            ELSE IF i \in DOMAIN rows THEN ReplayRow(rows, open[i - 1], i)
            ELSE open[i - 1]
    IN  open[LastId(rows)]

Agrees == \A b \in BucketsOf(ledger) : ledger[b].remaining = Replay(ledger)[b]

-----------------------------------------------------------------------------
\* With one request at a time and no cancellation, replaying the ledger gives
\* back the remaining amounts the live code left: debits, and payments spread
\* over the buckets there were when they were made, come out the same.
ReplayAgrees ==
    (\A i \in DOMAIN ledger : ledger[i].type # "CANCELLED_POLICY") => Agrees

\* The script "replays against every existing row" the "exact same rules" as
\* lib/agentPayables.js (backfillAgentPayableLedger.js:4-6).
ReplayAlwaysAgrees == Agrees
================================================================================
