------------------------------ MODULE AgentPayables ------------------------------
(***************************************************************************)
(* The payable ledger of one agent: lib/agentPayables.js and the database   *)
(* transactions that write it (POST /accounting/payments, the issuance of a *)
(* policy, the approval of an endorsement).  Different agents share no row. *)
(*                                                                         *)
(* A transaction is the list of the statements it has yet to execute; each  *)
(* is one step, at READ COMMITTED: it reads committed rows and its own      *)
(* writes.  An UPDATE locks its row until the transaction ends, and waits   *)
(* while another transaction holds it; what it writes is kept in the        *)
(* transaction and takes effect when it commits.                           *)
(*                                                                         *)
(* Which endorsement is approved when is the subject of                     *)
(* EndorsementApproval; here any two may run at once.                       *)
(***************************************************************************)
EXTENDS SequencesExt, Arrangements

CONSTANTS
    Txs,          \* database connections
    Policies,     \* the agent's policies
    Opening,      \* the ledger to start from, oldest row first
    Amounts,      \* what a policy, an endorsement line or a payment may amount to
    DueDates,     \* due dates a new bucket may get
    LineLists,    \* kinds of the lines of a correction, in order
    MaxRequests   \* bound: requests served

ASSUME LedgerAssumption ==
    /\ IsFiniteSet(Txs)
    /\ Amounts \subseteq Nat
    /\ DueDates \subseteq Nat
    /\ LineLists \subseteq Seq({"credit", "debit"})
    /\ MaxRequests \in Nat

NoPolicy == "no policy"
NoDue    == -1          \* due_date IS NULL

VARIABLES
    ledger,    \* AgentPayableTransaction rows, by id in creation order
    payable,   \* Agent.payable
    tx,        \* what each connection is executing
    served     \* requests begun so far

ledgerVars == <<ledger, payable, tx, served>>

-----------------------------------------------------------------------------
(* Rows by id.                                                               *)

SumOf(op(_), S) == SumFunctionOnSet([i \in S |-> op(i)], S)

\* The rows of `new`, and those of `old` it does not replace.
Over(new, old) ==
    [i \in DOMAIN new \cup DOMAIN old |-> IF i \in DOMAIN new THEN new[i] ELSE old[i]]

Only(i, row) == [j \in {i} |-> row]

-----------------------------------------------------------------------------
(* Ledger rows.  `opened` says that remaining_amount is not NULL.             *)

Row(type, policy, amount, due, opened) ==
    [type |-> type, policy |-> policy, amount |-> amount, due |-> due,
     opened |-> opened, remaining |-> IF opened THEN amount ELSE 0]

\* isBucketTransactionType
IsBucket(row) == row.type = "ISSUANCE" \/ (row.type = "ENDORSEMENT" /\ row.amount >= 0)

BucketsOf(rows) == {i \in DOMAIN rows : IsBucket(rows[i])}

IssuanceRows(rows, p) == {i \in DOMAIN rows : rows[i].type = "ISSUANCE" /\ rows[i].policy = p}

\* orderBy due_date asc nulls last, created_at asc
Older(rows, i, j) ==
    LET a == rows[i].due
        b == rows[j].due
    IN  \/ a # NoDue /\ b = NoDue
        \/ a # NoDue /\ b # NoDue /\ a < b
        \/ a = b /\ i < j

OldestFirst(rows) ==
    Arranged(BucketsOf(rows), LAMBDA i, j : Older(rows, i, j))

-----------------------------------------------------------------------------
(* Statements, each with the rows it locks.                                  *)

AgentRow     == <<"agent">>
PolicyRow(p) == <<"policy", p>>
BucketRow(i) == <<"bucket", i>>

Insert(row)       == [do |-> "insert", row |-> row, locks |-> {}]
UpdateAgent(n)    == [do |-> "agent", by |-> n, locks |-> {AgentRow}]
UpdatePolicy(p)   == [do |-> "policy", locks |-> {PolicyRow(p)}]
Decrement(i, n)   == [do |-> "decrement", row |-> i, by |-> n, locks |-> {BucketRow(i)}]
Allocate(n)       == [do |-> "allocate", by |-> n, locks |-> {}]
ReadComponents(p) == [do |-> "components", policy |-> p, locks |-> {}]
CommitTransaction == [do |-> "commit", locks |-> {}]

\* approveApplicationRecord: the policy's own bucket, then the agent's balance.
Issuance(p, n, due) == <<Insert(Row("ISSUANCE", p, n, due, TRUE)), UpdateAgent(n)>>

PaymentReadsFirst(n) ==   \* variant: the buckets are read before the agent is locked
    <<Insert(Row("PAYMENT", NoPolicy, -n, NoDue, FALSE)), Allocate(n), UpdateAgent(-n)>>

\* POST /accounting/payments
Payment(n) ==
    <<Insert(Row("PAYMENT", NoPolicy, -n, NoDue, FALSE)), UpdateAgent(-n), Allocate(n)>>

\* A line of a correction that adds to what is owed opens a bucket of its own.
CreditNotCached(p, n, due) ==   \* variant: the agent's balance is forgotten
    <<Insert(Row("ENDORSEMENT", p, n, due, TRUE))>>

Credit(p, n, due) == <<Insert(Row("ENDORSEMENT", p, n, due, TRUE)), UpdateAgent(n)>>

\* One that takes from it claws back against the policy's issuance bucket
\* (applyDebitToOriginalBucket), before anything else.
Debit(rows, p, n) ==
    (IF IssuanceRows(rows, p) = {} THEN << >>
     ELSE <<Decrement(CHOOSE i \in IssuanceRows(rows, p) : TRUE, n)>>)
    \o <<Insert(Row("ENDORSEMENT", p, -n, NoDue, FALSE)), UpdateAgent(-n)>>

Line(rows, p, kind, n, due) ==
    IF kind = "credit" THEN Credit(p, n, due) ELSE Debit(rows, p, n)

\* approveEndorsementRecord of a CORRECTION with financial lines; the policy's
\* totals come last.
Correction(rows, p, lines) ==
    FlattenSeq([k \in DOMAIN lines |-> Line(rows, p, lines[k].kind, lines[k].amount, lines[k].due)])
    \o <<UpdatePolicy(p)>>

\* computeCancellationProration: a net below zero is floored, and then nothing
\* moves between the buckets either.
Floored(net)   == net < 0
Deduction(net) == IF net < 0 THEN 0 ELSE net

\* What approveEndorsementRecord of a CANCELLATION writes once it has read the
\* policy's ledger rows (`seen`) and computed what each hands back: each to its
\* own bucket, a debit row to the issuance it was taken from.
Refunds(rows, p, seen, refund) ==
    LET net       == SumFunctionOnSet(refund, seen)
        Target(i) == IF IsBucket(rows[i]) THEN {i} ELSE IssuanceRows(rows, p)
        moved     == IF Floored(net) THEN {} ELSE {i \in seen : refund[i] # 0 /\ Target(i) # {}}
        inOrder   == Arranged(moved, LAMBDA i, j : i < j)
    IN  [k \in DOMAIN inOrder |->
            Decrement(CHOOSE i \in Target(inOrder[k]) : TRUE, refund[inOrder[k]])]
        \o <<Insert(Row("CANCELLED_POLICY", p, -Deduction(net), NoDue, FALSE)),
             UpdateAgent(-Deduction(net))>>

\* What is left of a payment, and planned, once bucket i has had its turn.
Settle(rows, sofar, i) ==
    LET applied == IF sofar.left < rows[i].remaining THEN sofar.left ELSE rows[i].remaining
    IN  IF sofar.left <= 0 \/ rows[i].remaining <= 0 THEN sofar
        ELSE [left |-> sofar.left - applied, last |-> i,
              plan |-> Append(sofar.plan, Decrement(i, applied))]

\* allocatePaymentFifo, over the buckets it read, oldest due first.
Allocation(rows, n) ==
    LET buckets == OldestFirst(rows)
        settled[k \in 0..Len(buckets)] ==
            IF k = 0 THEN [left |-> n, last |-> Last(buckets), plan |-> << >>]
            ELSE Settle(rows, settled[k - 1], buckets[k])
        all == settled[Len(buckets)]
    IN  IF buckets = << >> THEN << >>
        ELSE IF all.left > 0 THEN Append(all.plan, Decrement(all.last, all.left))
        ELSE all.plan

-----------------------------------------------------------------------------
(* Transactions.                                                             *)

NoRows == [i \in {} |-> 0]

Idle == [kind |-> "idle", policy |-> NoPolicy, todo |-> << >>, writes |-> NoRows,
         owes |-> 0, holds |-> {}]

Running(t) == tx[t].kind # "idle"

Statement(t) == Head(tx[t].todo)

\* The transaction's next statement, once it has one, is of the given kind.
About(t, do) == Running(t) /\ Statement(t).do = do

MayLock(t, rows) == \A u \in Txs \ {t} : rows \cap tx[u].holds = {}

\* What t sees of a ledger row, and its writes once it has changed it by n.
Seen(t, i) == IF i \in DOMAIN tx[t].writes THEN tx[t].writes[i] ELSE ledger[i]

Changed(t, i, n) ==
    Over(Only(i, [Seen(t, i) EXCEPT !.opened = TRUE, !.remaining = @ + n]), tx[t].writes)

NewId == 1 + Max({0} \cup DOMAIN ledger \cup UNION {DOMAIN tx[t].writes : t \in Txs})

\* The first statement of t has its locks and is done, and is followed by
\* `more`; `change` is t with its effects.
DoneThen(t, change, more) ==
    /\ MayLock(t, Statement(t).locks)
    /\ tx' = [tx EXCEPT ![t] = [change EXCEPT !.todo = more \o Tail(@),
                                              !.holds = @ \cup Statement(t).locks]]

Done(t, change) == DoneThen(t, change, << >>)

Becomes(t, do) == tx' = [tx EXCEPT ![t].todo[1].do = do]

Begin(t, kind, p, statements) ==
    /\ ~Running(t)
    /\ served < MaxRequests
    /\ served' = served + 1
    /\ tx' = [tx EXCEPT ![t] = [Idle EXCEPT !.kind = kind, !.policy = p,
                                            !.todo = Append(statements, CommitTransaction)]]
    /\ UNCHANGED <<ledger, payable>>

-----------------------------------------------------------------------------
Init ==
    /\ ledger = Opening
    /\ payable = SumOf(LAMBDA i : Opening[i].amount, DOMAIN Opening)
    /\ tx = [t \in Txs |-> Idle]
    /\ served = 0

\* A policy is issued once (PolicyApproval!IssuedExactlyOnce).
IssuePolicy(t, p, n, due) ==
    /\ IssuanceRows(ledger, p) = {}
    /\ \A u \in Txs : ~(tx[u].kind = "issuance" /\ tx[u].policy = p)
    /\ Begin(t, "issuance", p, Issuance(p, n, due))

RecordPayment(t, n) ==
    /\ n > 0
    /\ Begin(t, "payment", NoPolicy, Payment(n))

Endorsable(p) ==
    /\ IssuanceRows(ledger, p) # {}
    /\ ~\E i \in DOMAIN ledger : ledger[i].type = "CANCELLED_POLICY" /\ ledger[i].policy = p

ApproveCorrection(t, p, lines) ==
    /\ Endorsable(p)
    /\ Begin(t, "correction", p, Correction(ledger, p, lines))

\* One cancellation of a policy at a time.
ApproveCancellation(t, p) ==
    /\ Endorsable(p)
    /\ \A u \in Txs : ~(tx[u].kind = "cancellation" /\ tx[u].policy = p)
    /\ Begin(t, "cancellation", p, <<ReadComponents(p)>>)

-----------------------------------------------------------------------------
(* Executing a statement.                                                    *)

InsertRow(t) ==
    /\ About(t, "insert")
    /\ Done(t, [tx[t] EXCEPT !.writes = Over(Only(NewId, Statement(t).row), @)])
    /\ UNCHANGED <<ledger, payable, served>>

IncrementPayable(t) ==
    /\ About(t, "agent")
    /\ Done(t, [tx[t] EXCEPT !.owes = @ + Statement(t).by])
    /\ UNCHANGED <<ledger, payable, served>>

LockPolicy(t) ==
    /\ About(t, "policy")
    /\ Done(t, tx[t])
    /\ UNCHANGED <<ledger, payable, served>>

\* The three statements of decrementBucket: decrement where not NULL; else set
\* where NULL; else the row became non-NULL in between, decrement it.
ApplyDecrement(t) ==
    Done(t, [tx[t] EXCEPT !.writes = Changed(t, Statement(t).row, -Statement(t).by)])

DecrementBucket(t) ==
    /\ About(t, "decrement")
    /\ IF Seen(t, Statement(t).row).opened THEN ApplyDecrement(t) ELSE Becomes(t, "decrementNull")
    /\ UNCHANGED <<ledger, payable, served>>

NoRetry(t) ==   \* variant: a row that became non-NULL is given up on
    tx' = [tx EXCEPT ![t].todo = Tail(@)]

Retry(t) == Becomes(t, "decrementAgain")

DecrementNullBucket(t) ==
    /\ About(t, "decrementNull")
    /\ IF Seen(t, Statement(t).row).opened THEN Retry(t) ELSE ApplyDecrement(t)
    /\ UNCHANGED <<ledger, payable, served>>

DecrementBucketAgain(t) ==
    /\ About(t, "decrementAgain")
    /\ ApplyDecrement(t)
    /\ UNCHANGED <<ledger, payable, served>>

AllocatePayment(t) ==
    /\ About(t, "allocate")
    /\ DoneThen(t, tx[t], Allocation(ledger, Statement(t).by))
    /\ UNCHANGED <<ledger, payable, served>>

\* computeCancellationProration: each component hands back a part of itself.
ReadRefunds(t, p, before) ==
    LET seen == {i \in DOMAIN ledger : /\ ledger[i].policy = p
                                       /\ ledger[i].type \in {"ISSUANCE", "ENDORSEMENT"}}
        Part(n) == IF n >= 0 THEN 0..n ELSE n..0
    IN  \E refund \in [seen -> UNION {Part(ledger[i].amount) : i \in seen}] :
            /\ \A i \in seen : refund[i] \in Part(ledger[i].amount)
            /\ DoneThen(t, tx[t], before \o Refunds(ledger, p, seen, refund))

ComputeRefunds(t) ==
    /\ About(t, "components")
    /\ ReadRefunds(t, Statement(t).policy, <<UpdatePolicy(Statement(t).policy)>>)
    /\ UNCHANGED <<ledger, payable, served>>

Commit(t) ==
    /\ About(t, "commit")
    /\ ledger' = Over(tx[t].writes, ledger)
    /\ payable' = payable + tx[t].owes
    /\ tx' = [tx EXCEPT ![t] = Idle]
    /\ UNCHANGED served

\* Any statement may fail, or the transaction run out of time: it rolls back.
Fail(t) ==
    /\ Running(t)
    /\ tx' = [tx EXCEPT ![t] = Idle]
    /\ UNCHANGED <<ledger, payable, served>>

-----------------------------------------------------------------------------
(* Deadlocks: Postgres aborts a transaction of a cycle of waits.              *)

\* The rows t's next statement has to lock, if it finds them.
Wanted(t) ==
    IF \/ ~Running(t)
       \/ About(t, "decrement") /\ ~Seen(t, Statement(t).row).opened
       \/ About(t, "decrementNull") /\ Seen(t, Statement(t).row).opened
    THEN {} ELSE Statement(t).locks

WaitsFor(t, u) == t # u /\ Wanted(t) \cap tx[u].holds # {}

\* A row has one holder, so each transaction waits for one other at most, and
\* a set in which each waits and each is waited for is made of cycles.
NeverNoticed(t) == FALSE   \* variant: no deadlock detection

Deadlocked(t) ==
    \E S \in SUBSET Txs :
        /\ t \in S
        /\ \A u \in S : \E w \in S : WaitsFor(u, w)
        /\ \A u \in S : \E w \in S : WaitsFor(w, u)

BreakDeadlock(t) ==
    /\ Deadlocked(t)
    /\ tx' = [tx EXCEPT ![t] = Idle]
    /\ UNCHANGED <<ledger, payable, served>>

-----------------------------------------------------------------------------
Request(t) ==
    \/ \E p \in Policies, n \in Amounts, due \in DueDates : IssuePolicy(t, p, n, due)
    \/ \E n \in Amounts : RecordPayment(t, n)
    \/ \E p \in Policies, kinds \in LineLists, due \in DueDates :
          \E amounts \in [DOMAIN kinds -> Amounts] :
              ApproveCorrection(t, p, [k \in DOMAIN kinds |->
                  [kind |-> kinds[k], amount |-> amounts[k], due |-> due]])
    \/ \E p \in Policies : ApproveCancellation(t, p)

Execute(t) ==
    \/ InsertRow(t)
    \/ IncrementPayable(t)
    \/ LockPolicy(t)
    \/ DecrementBucket(t)
    \/ DecrementNullBucket(t)
    \/ DecrementBucketAgain(t)
    \/ AllocatePayment(t)
    \/ ComputeRefunds(t)
    \/ Commit(t)

Next == \E t \in Txs : Request(t) \/ Execute(t) \/ Fail(t) \/ BreakDeadlock(t)

Spec == Init /\ [][Next]_ledgerVars

\* The event loop resumes every request whose statement is answered, and
\* Postgres grants locks and breaks deadlocks.
Fairness == \A t \in Txs : WF_ledgerVars(Execute(t)) /\ WF_ledgerVars(BreakDeadlock(t))

FairSpec == Spec /\ Fairness

-----------------------------------------------------------------------------
LedgerRow ==
    [type : {"ISSUANCE", "ENDORSEMENT", "CANCELLED_POLICY", "PAYMENT"},
     policy : Policies \cup {NoPolicy}, amount : Int, due : Nat \cup {NoDue},
     opened : BOOLEAN, remaining : Int]

\* The table's CHECK constraint on the sign of an amount.
SignOK(row) ==
    /\ row.type = "ISSUANCE" => row.amount >= 0
    /\ row.type \in {"CANCELLED_POLICY", "PAYMENT"} => row.amount <= 0

TypeOK ==
    /\ ledger \in [DOMAIN ledger -> LedgerRow] /\ DOMAIN ledger \subseteq Nat
    /\ payable \in Int
    /\ \A t \in Txs :
          /\ tx[t].kind \in {"idle", "issuance", "payment", "correction", "cancellation"}
          /\ Running(t) <=> tx[t].todo # << >>
          /\ \A i \in DOMAIN tx[t].writes : tx[t].writes[i] \in LedgerRow /\ SignOK(tx[t].writes[i])
          /\ \A u \in Txs \ {t} : tx[t].holds \cap tx[u].holds = {}
          /\ \A u \in Txs \ {t} : DOMAIN tx[t].writes \cap DOMAIN tx[u].writes = {}
    /\ served \in 0..MaxRequests

-----------------------------------------------------------------------------
(* What the ledger guarantees.                                               *)

Owed(rows) == SumOf(LAMBDA i : rows[i].amount, DOMAIN rows)

\* The opening rows that were bucket rows before there were buckets.
Unopened == {i \in DOMAIN Opening : IsBucket(Opening[i]) /\ ~Opening[i].opened}

BucketTotal(rows) == SumOf(LAMBDA i : rows[i].remaining, BucketsOf(rows))

\* Agent.payable is the sum of the ledger whatever writes it at once.
PayableMatchesLedger == payable = Owed(ledger)

\* Payments, debits and refunds reach the buckets to the last cent, so that
\* the buckets carry the whole balance (less what the rows that predate them
\* stood for): two writers of one bucket lose nothing, not even on a row with
\* no remaining_amount yet.
BucketsCarryTheBalance ==
    BucketTotal(ledger) + SumOf(LAMBDA i : Opening[i].amount, Unopened) = payable

\* The three records of one debt, the agent's balance, the rows of the ledger
\* and what is left of its buckets, never disagree.
BalancesAgree == PayableMatchesLedger /\ BucketsCarryTheBalance

\* The ledger to start from: its rows are ones the table admits, the agent has
\* been issued a policy (a payment finds no bucket before that, and changes
\* the balance only), and the buckets carry the balance.
ASSUME OpeningAssumption ==
    /\ Opening \in Seq(LedgerRow)
    /\ \A i \in DOMAIN Opening : SignOK(Opening[i])
    /\ BucketsOf(Opening) # {}
    /\ BucketTotal(Opening) + SumOf(LAMBDA i : Opening[i].amount, Unopened) = Owed(Opening)

\* A payment goes to the oldest bucket that is still outstanding first, and
\* overpays none while another is outstanding: debits, refunds and other
\* payments that run at the same time do not show it stale balances.
PaymentsSettleOldestFirst ==
    [][\A t \in Txs :
        (tx[t].kind = "payment" /\ ~Running(t)' /\ ledger' # ledger) =>
            \A b, c \in BucketsOf(ledger) :
                /\ ledger'[b].remaining < ledger[b].remaining
                /\ \/ Older(ledger, c, b)
                   \/ ledger'[b].remaining < 0
                => ledger'[c].remaining <= 0]_ledgerVars

\* Payments lock the agent before the buckets and debits after, so they can
\* wait on each other for ever; no request is left hanging even so.
EveryRequestEnds == \A t \in Txs : Running(t) ~> ~Running(t)

-----------------------------------------------------------------------------
(* What comments of the code say, and the code does not keep.                *)

\* "totalPayable should already equal Agent.payable" (agentPayables.js:110).
TotalMatchesPayable == BucketTotal(ledger) = payable

\* What a payment cannot place is applied to the last bucket it paid "or, if
\* none had anything left to pay down, the single oldest bucket"
\* (agentPayables.js:74-76).
LeftoverGoesToTheOldest ==
    [][\A t \in Txs :
        (/\ tx[t].kind = "payment" /\ ~Running(t)' /\ ledger' # ledger
         /\ \A b \in BucketsOf(ledger) : ledger[b].remaining <= 0) =>
            \A b, c \in BucketsOf(ledger) :
                ledger'[b].remaining < ledger[b].remaining => ~Older(ledger, c, b)]_ledgerVars

\* remaining_amount is "only ever set on a bucket row (ISSUANCE, or an
\* ADD_COVERAGE ENDORSEMENT credit)" (accounting.js:114-116); those have a
\* due date.
OnlyBucketsAreOpened == \A i \in DOMAIN ledger : ledger[i].opened => ledger[i].due # NoDue
================================================================================
