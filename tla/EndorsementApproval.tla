---------------------------- MODULE EndorsementApproval ----------------------------
(***************************************************************************)
(* The endorsements of one issued policy (routes/endorsements.js): filing,  *)
(* editing the lines, approving and rejecting, by concurrent requests.      *)
(*                                                                         *)
(* An approval reads the endorsement and the policy first and then runs one *)
(* transaction, a list of statements as in AgentPayables, whose ledger      *)
(* statements it shares.  What it writes elsewhere (the decision, the       *)
(* policy's coverages and totals) is kept in `work` until it commits.       *)
(*                                                                         *)
(* A coverage's amount, premium and payable move together here, as one      *)
(* figure, and ledger amounts are not prorated ("Do not apply pro-rated").  *)
(***************************************************************************)
EXTENDS AgentPayables

CONSTANTS
    Policy,            \* the policy endorsed, issued
    Endorsements,      \* requests that may be filed
    RequestTypes,      \* subset of {"CORRECTION", "CANCELLATION"} to be filed
    LineTypes,         \* subset of {"TEXT", "ADD", "REMOVE", "VALUE"} to be filed
    Edits,             \* subset of {"add", "edit", "delete"}: what approvers may do to lines
    OpeningCoverages,  \* PolicyCoverage rows at issuance
    MiscFee            \* the variant's misc_fee at issuance

Coverage == [owed : Int, misc : BOOLEAN, removed : BOOLEAN]

ASSUME EndorsementAssumption ==
    /\ Policy \in Policies
    /\ IsFiniteSet(Endorsements)
    /\ RequestTypes \subseteq {"CORRECTION", "CANCELLATION"}
    /\ LineTypes \subseteq {"TEXT", "ADD", "REMOVE", "VALUE"}
    /\ Edits \subseteq {"add", "edit", "delete"}
    /\ \A i \in DOMAIN Opening : Opening[i].type = "ISSUANCE" /\ Opening[i].opened
    /\ IsFiniteSet(DOMAIN OpeningCoverages) /\ DOMAIN OpeningCoverages \subseteq Nat
    /\ \A c \in DOMAIN OpeningCoverages : OpeningCoverages[c] \in Coverage
    /\ MiscFee \in Int

NoRequest == "no request"

VARIABLES
    request,    \* EndorsementRequest rows, with their EndorsementChange lines
    policyRow,  \* the Policy row: its status, total_premium and misc
    coverage,   \* PolicyCoverage rows, by id
    approvals,  \* EndorsementApprovalHistory rows
    inLease,    \* FOR_ENDORSEMENT in-lease rows, by endorsement
    work        \* what each connection's request has read and is to write

tables == <<request, policyRow, coverage, approvals, inLease>>
vars   == <<ledgerVars, tables, work>>

-----------------------------------------------------------------------------
\* computeChargeTotals, less the taxes.
Active(cov)  == {c \in DOMAIN cov : ~cov[c].removed}
Premium(cov) == SumOf(LAMBDA c : cov[c].owed, {c \in Active(cov) : ~cov[c].misc})
Misc(cov)    == SumOf(LAMBDA c : cov[c].owed, {c \in Active(cov) : cov[c].misc})

\* Nothing read and nothing to write.  `pc` is what the handler does next, and
\* "transaction" while its transaction runs.
Free == [pc |-> "free", request |-> NoRequest, type |-> "CORRECTION", lines |-> NoRows,
         line |-> 0, number |-> 0, misc |-> 0, base |-> 0, decided |-> NoRows, notes |-> << >>,
         cancels |-> FALSE, components |-> {}, covers |-> NoRows, totals |-> NoRows]

End(t) == work' = [work EXCEPT ![t] = Free]

InitEndorsements ==
    /\ Init
    /\ request = [e \in Endorsements |-> [status |-> "UNFILED", type |-> "CORRECTION",
                                          number |-> 0, lines |-> NoRows]]
    /\ policyRow = [status |-> "ACTIVE", total |-> Premium(OpeningCoverages),
                    misc |-> MiscFee + Misc(OpeningCoverages)]
    /\ coverage = OpeningCoverages
    /\ approvals = << >>
    /\ inLease = {}
    /\ work = [t \in Txs |-> Free]

-----------------------------------------------------------------------------
(* Filing: POST /endorsements.                                               *)

Filed == {e \in Endorsements : request[e].status # "UNFILED"}

\* The change lines that can be resolved against the policy as it is; the
\* figures they carry are frozen.
NewLines ==
    { line \in
        {[type |-> "TEXT"]}
        \cup {[type |-> "ADD", by |-> n, misc |-> m] : n \in Amounts, m \in BOOLEAN}
        \cup {[type |-> "REMOVE", coverage |-> c, by |-> coverage[c].owed] : c \in Active(coverage)}
        \cup {[type |-> "VALUE", coverage |-> c, from |-> coverage[c].owed,
               by |-> n - coverage[c].owed] : n \in Amounts, c \in Active(coverage)}
      : line.type \in LineTypes }

FileRead(t, e, type, line) ==
    /\ work[t].pc = "free"
    /\ request[e].status = "UNFILED"
    /\ \A u \in Txs : work[u].request # e
    /\ policyRow.status # "CANCELLED"
    /\ type = "CANCELLATION" =>
          ~\E o \in Filed : request[o].type = "CANCELLATION" /\ request[o].status = "SUBMITTED"
    /\ work' = [work EXCEPT ![t] = [Free EXCEPT !.pc = "fileCount", !.request = e, !.type = type,
                    !.lines = Only(1, IF type = "CORRECTION" THEN line ELSE [type |-> "CANCEL"])]]
    /\ UNCHANGED <<ledgerVars, tables>>

FileCount(t) ==
    /\ work[t].pc = "fileCount"
    /\ work' = [work EXCEPT ![t].pc = "fileInsert", ![t].number = Cardinality(Filed) + 1]
    /\ UNCHANGED <<ledgerVars, tables>>

\* The unique index on (policy_id, sequence_no).
NoIndex(n) == FALSE   \* variant

NumberTaken(n) == \E e \in Filed : request[e].number = n

\* Filed, and answered or (administrators) approved at once; or refused by the
\* unique index, with an error.
FileInsert(t) ==
    LET w == work[t]
    IN  /\ w.pc = "fileInsert"
        /\ IF NumberTaken(w.number)
           THEN End(t) /\ UNCHANGED request
           ELSE /\ request' = [request EXCEPT ![w.request] =
                      [status |-> "SUBMITTED", type |-> w.type, number |-> w.number, lines |-> w.lines]]
                /\ \/ End(t)
                   \/ work' = [work EXCEPT ![t] = [Free EXCEPT !.pc = "approve", !.request = w.request]]
        /\ UNCHANGED <<ledgerVars, policyRow, coverage, approvals, inLease>>

-----------------------------------------------------------------------------
(* Editing the lines: POST, PATCH and DELETE /:id/changes.                   *)

\* A line to add, or to put in the place of another, is resolved against the
\* policy as it is.
EditRead(t, e, edit, i, lines) ==
    /\ edit \in Edits
    /\ work[t].pc = "free"
    /\ served < MaxRequests
    /\ request[e].status = "SUBMITTED"
    /\ request[e].type = "CORRECTION"
    /\ edit = "delete" => Cardinality(DOMAIN request[e].lines) > 1
    /\ work' = [work EXCEPT ![t] = [Free EXCEPT !.pc = edit, !.request = e, !.line = i, !.lines = lines]]
    /\ served' = served + 1
    /\ UNCHANGED <<ledger, payable, tx, tables>>

AddLine(t) ==
    LET e == work[t].request
    IN  /\ work[t].pc = "add"
        /\ request' = [request EXCEPT ![e].lines =
                          Over(Only(1 + Max({0} \cup DOMAIN @), work[t].lines[1]), @)]
        /\ End(t)
        /\ UNCHANGED <<ledgerVars, policyRow, coverage, approvals, inLease>>

\* A line someone else deleted first is an error, here and below.
EditLine(t) ==
    LET w == work[t]
    IN  /\ w.pc = "edit"
        /\ request' = [request EXCEPT ![w.request].lines =
                          [i \in DOMAIN @ |-> IF i = w.line THEN w.lines[1] ELSE @[i]]]
        /\ End(t)
        /\ UNCHANGED <<ledgerVars, policyRow, coverage, approvals, inLease>>

DeleteLine(t) ==
    LET e == work[t].request
        kept == DOMAIN request[e].lines \ {work[t].line}
    IN  /\ work[t].pc = "delete"
        /\ request' = [request EXCEPT ![e].lines = [i \in kept |-> @[i]]]
        /\ End(t)
        /\ UNCHANGED <<ledgerVars, policyRow, coverage, approvals, inLease>>

-----------------------------------------------------------------------------
(* Deciding: approveEndorsementRecord and POST /:id/reject.                  *)

RequestRow(e)  == <<"request", e>>
CoverageRow(c) == <<"coverage", c>>

ClaimAs(e, status)   == [do |-> "claim", request |-> e, status |-> status, locks |-> {RequestRow(e)}]
ReadLivePolicy       == [do |-> "livePolicy", locks |-> {}]
ReadBaseMisc         == [do |-> "baseMisc", locks |-> {}]
CreateCoverage(line) == [do |-> "createCoverage", line |-> line, locks |-> {}]
ReadCoverage(line)   == [do |-> "readCoverage", line |-> line, locks |-> {}]
WriteCoverage(c, change) ==
    [do |-> "writeCoverage", coverage |-> c, change |-> change, locks |-> {CoverageRow(c)}]
ReadCharges          == [do |-> "readCharges", locks |-> {}]
WriteTotals(totals)  == [do |-> "writeTotals", totals |-> totals, locks |-> {PolicyRow(Policy)}]
CancelPolicy         == [do |-> "cancelPolicy", locks |-> {PolicyRow(Policy)}]
ReadOrphans(e)       == [do |-> "readOrphans", request |-> e, locks |-> {}]
RejectOrphan(o)      == [do |-> "rejectOrphan", request |-> o, locks |-> {RequestRow(o)}]
Note(e, decision)    == [do |-> "note", request |-> e, decision |-> decision, locks |-> {}]

IncreasesOnly(by) ==   \* variant: a decrease is not booked
    IF by >= 0 THEN Credit(Policy, by, CHOOSE due \in DueDates : TRUE) ELSE << >>

\* A line's statements; a change of value is a credit or a debit by its sign.
Booked(by) ==
    IF by >= 0 THEN Credit(Policy, by, CHOOSE due \in DueDates : TRUE) ELSE Debit(ledger, Policy, -by)

LineStatements(line) ==
    CASE line.type = "ADD"    -> <<CreateCoverage(line)>> \o Booked(line.by)
      [] line.type = "REMOVE" -> <<ReadCoverage(line)>> \o Debit(ledger, Policy, line.by)
      [] line.type = "VALUE"  -> <<ReadCoverage(line)>> \o Booked(line.by)
      [] OTHER -> << >>

CorrectionStatements(lines) ==
    LET inOrder == Arranged(DOMAIN lines, LAMBDA i, j : i < j)
        changes == FlattenSeq([k \in DOMAIN inOrder |-> LineStatements(lines[inOrder[k]])])
    IN  <<ReadBaseMisc>> \o changes \o (IF changes = << >> THEN << >> ELSE <<ReadCharges>>)

ApproveRead(t, e) ==
    /\ \/ work[t].pc = "free"
       \/ work[t].pc = "approve" /\ work[t].request = e
    /\ request[e].status = "SUBMITTED"
    /\ work' = [work EXCEPT ![t] = [Free EXCEPT !.pc = "readPolicy", !.request = e,
                    !.type = request[e].type, !.lines = request[e].lines]]
    /\ UNCHANGED <<ledgerVars, tables>>

\* The endorsement an administrator just filed was decided by someone else.
ApproveRefused(t) ==
    /\ work[t].pc = "approve"
    /\ request[work[t].request].status # "SUBMITTED"
    /\ End(t)
    /\ UNCHANGED <<ledgerVars, tables>>

ApproveReadPolicy(t) ==
    LET w == work[t]
    IN  /\ w.pc = "readPolicy"
        /\ Begin(t, IF w.type = "CORRECTION" THEN "correction" ELSE "cancellation", Policy,
                 <<ClaimAs(w.request, "APPROVED"), ReadLivePolicy>>
                 \o (IF w.type = "CORRECTION" THEN CorrectionStatements(w.lines)
                     ELSE <<ReadComponents(Policy)>>)
                 \o <<Note(w.request, "APPROVED")>>)
        /\ work' = [work EXCEPT ![t].pc = "transaction", ![t].misc = policyRow.misc]
        /\ UNCHANGED tables

RejectRead(t, e) ==
    /\ work[t].pc = "free"
    /\ request[e].status = "SUBMITTED"
    /\ Begin(t, "correction", Policy, <<ClaimAs(e, "REJECTED"), Note(e, "REJECTED")>>)
    /\ work' = [work EXCEPT ![t] = [Free EXCEPT !.pc = "transaction", !.request = e]]
    /\ UNCHANGED tables

-----------------------------------------------------------------------------
(* The statements of a decision.                                             *)

\* An error thrown inside the transaction.
Rollback(t) ==
    /\ tx' = [tx EXCEPT ![t] = Idle]
    /\ End(t)

Coverages(t) == Over(work[t].covers, coverage)

AlwaysClaims(e) == FALSE   \* variant: the claim does not look at the status

\* updateMany where status is SUBMITTED: another decision that is under way is
\* waited for.
AlreadyDecided(e) == request[e].status # "SUBMITTED"

Claim(t) ==
    LET s == Statement(t)
    IN  /\ About(t, "claim")
        /\ IF AlreadyDecided(s.request) THEN Rollback(t)
           ELSE /\ Done(t, tx[t])
                /\ work' = [work EXCEPT ![t].decided = Over(Only(s.request, s.status), @)]
        /\ UNCHANGED <<ledger, payable, served, tables>>

CheckLivePolicy(t) ==
    /\ About(t, "livePolicy")
    /\ IF policyRow.status = "CANCELLED" THEN Rollback(t)
       ELSE Done(t, tx[t]) /\ UNCHANGED work
    /\ UNCHANGED <<ledger, payable, served, tables>>

\* What of the policy's misc, as read before the transaction, is not coverages.
WholeMisc(t) == work[t].misc   \* variant: the coverages are not backed out

BaseMisc(t) == work[t].misc - Misc(coverage)

ComputeBaseMisc(t) ==
    /\ About(t, "baseMisc")
    /\ Done(t, tx[t])
    /\ work' = [work EXCEPT ![t].base = BaseMisc(t)]
    /\ UNCHANGED <<ledger, payable, served, tables>>

NewCoverage == 1 + Max({0} \cup DOMAIN coverage \cup UNION {DOMAIN work[t].covers : t \in Txs})

InsertCoverage(t) ==
    LET line == Statement(t).line
    IN  /\ About(t, "createCoverage")
        /\ Done(t, tx[t])
        /\ work' = [work EXCEPT ![t].covers =
                        Over(Only(NewCoverage, [owed |-> line.by, misc |-> line.misc, removed |-> FALSE]), @)]
        /\ UNCHANGED <<ledger, payable, served, tables>>

NeverStale(line, row) == FALSE   \* variant

\* A line whose coverage is gone, or (a change of value) is not what it was
\* when the line was filed, fails the approval.
Stale(line, row) == row.removed \/ (line.type = "VALUE" /\ row.owed # line.from)

FindCoverage(t) ==
    LET line == Statement(t).line
        row  == Coverages(t)[line.coverage]
    IN  /\ About(t, "readCoverage")
        /\ IF Stale(line, row) THEN Rollback(t)
           ELSE /\ DoneThen(t, tx[t], <<WriteCoverage(line.coverage,
                        IF line.type = "REMOVE" THEN [removed |-> TRUE] ELSE [owed |-> row.owed + line.by])>>)
                /\ UNCHANGED work
        /\ UNCHANGED <<ledger, payable, served, tables>>

UpdateCoverage(t) ==
    LET s == Statement(t)
    IN  /\ About(t, "writeCoverage")
        /\ Done(t, tx[t])
        /\ work' = [work EXCEPT ![t].covers =
                        Over(Only(s.coverage, Over(s.change, Coverages(t)[s.coverage])), @)]
        /\ UNCHANGED <<ledger, payable, served, tables>>

ComputeCharges(t) ==
    LET cov == Coverages(t)
    IN  /\ About(t, "readCharges")
        /\ DoneThen(t, tx[t], <<WriteTotals([total |-> Premium(cov), misc |-> work[t].base + Misc(cov)])>>)
        /\ UNCHANGED <<ledger, payable, served, tables, work>>

UpdateTotals(t) ==
    /\ About(t, "writeTotals")
    /\ Done(t, tx[t])
    /\ work' = [work EXCEPT ![t].totals = Statement(t).totals]
    /\ UNCHANGED <<ledger, payable, served, tables>>

\* The ledger rows a cancellation refunds a part of.
Components == {i \in DOMAIN ledger : /\ ledger[i].policy = Policy
                                     /\ ledger[i].type \in {"ISSUANCE", "ENDORSEMENT"}}

ComputePolicyRefunds(t) ==
    /\ About(t, "components")
    /\ ReadRefunds(t, Policy, <<CancelPolicy, ReadOrphans(work[t].request)>>)
    /\ work' = [work EXCEPT ![t].components = Components]
    /\ UNCHANGED <<ledger, payable, served, tables>>

SetCancelled(t) ==
    /\ About(t, "cancelPolicy")
    /\ Done(t, tx[t])
    /\ work' = [work EXCEPT ![t].cancels = TRUE]
    /\ UNCHANGED <<ledger, payable, served, tables>>

\* Every other pending endorsement is rejected, with a history row each.
OrphansOf(e) == {o \in Filed \ {e} : request[o].status = "SUBMITTED"}

FindOrphans(t) ==
    LET orphans == SetToSeq(OrphansOf(Statement(t).request))
    IN  /\ About(t, "readOrphans")
        /\ DoneThen(t, tx[t], [k \in DOMAIN orphans |-> RejectOrphan(orphans[k])]
                              \o [k \in DOMAIN orphans |-> Note(orphans[k], "REJECTED")])
        /\ UNCHANGED <<ledger, payable, served, tables, work>>

\* One that was decided while this waited for it is left alone.
UpdateOrphan(t) ==
    LET o == Statement(t).request
    IN  /\ About(t, "rejectOrphan")
        /\ Done(t, tx[t])
        /\ work' = [work EXCEPT ![t].decided =
                        IF AlreadyDecided(o) THEN @ ELSE Over(Only(o, "REJECTED"), @)]
        /\ UNCHANGED <<ledger, payable, served, tables>>

\* The history row, and with an approval the in-lease task.
InsertHistory(t) ==
    LET s == Statement(t)
    IN  /\ About(t, "note")
        /\ Done(t, tx[t])
        /\ work' = [work EXCEPT ![t].notes = Append(@, [request |-> s.request, decision |-> s.decision])]
        /\ UNCHANGED <<ledger, payable, served, tables>>

CommitDecision(t) ==
    LET w == work[t]
    IN  /\ Commit(t)
        /\ request' = [e \in Endorsements |->
                IF e \in DOMAIN w.decided THEN [request[e] EXCEPT !.status = w.decided[e]] ELSE request[e]]
        /\ policyRow' = Over(IF w.cancels THEN [status |-> "CANCELLED"] ELSE NoRows, Over(w.totals, policyRow))
        /\ coverage' = Over(w.covers, coverage)
        /\ approvals' = approvals \o w.notes
        /\ inLease' = inLease \cup {n.request : n \in {k \in Range(w.notes) : k.decision = "APPROVED"}}
        /\ End(t)

\* The statements AgentPayables models.
LedgerStatement(t) ==
    /\ InsertRow(t) \/ IncrementPayable(t) \/ DecrementBucket(t)
    /\ UNCHANGED <<tables, work>>

Abort(t) ==
    /\ Fail(t) \/ BreakDeadlock(t)
    /\ End(t)
    /\ UNCHANGED tables

-----------------------------------------------------------------------------
File(t) ==
    \/ \E e \in Endorsements, type \in RequestTypes, line \in NewLines : FileRead(t, e, type, line)
    \/ FileCount(t)
    \/ FileInsert(t)

Edit(t) ==
    \/ \E e \in Filed :
          \/ \E line \in NewLines : EditRead(t, e, "add", 0, Only(1, line))
          \/ \E i \in DOMAIN request[e].lines :
                \/ \E line \in NewLines : EditRead(t, e, "edit", i, Only(1, line))
                \/ EditRead(t, e, "delete", i, NoRows)
    \/ AddLine(t)
    \/ EditLine(t)
    \/ DeleteLine(t)

Decide(t) ==
    \/ \E e \in Filed : ApproveRead(t, e) \/ RejectRead(t, e)
    \/ ApproveRefused(t)
    \/ ApproveReadPolicy(t)

ExecuteDecision(t) ==
    \/ Claim(t)
    \/ CheckLivePolicy(t)
    \/ ComputeBaseMisc(t)
    \/ InsertCoverage(t)
    \/ FindCoverage(t)
    \/ UpdateCoverage(t)
    \/ ComputeCharges(t)
    \/ UpdateTotals(t)
    \/ ComputePolicyRefunds(t)
    \/ SetCancelled(t)
    \/ FindOrphans(t)
    \/ UpdateOrphan(t)
    \/ InsertHistory(t)
    \/ CommitDecision(t)
    \/ LedgerStatement(t)

NextEndorsement ==
    \E t \in Txs : File(t) \/ Edit(t) \/ Decide(t) \/ ExecuteDecision(t) \/ Abort(t)

EndorsementSpec == InitEndorsements /\ [][NextEndorsement]_vars

-----------------------------------------------------------------------------
Status == {"UNFILED", "SUBMITTED", "APPROVED", "REJECTED"}

EndorsementTypeOK ==
    /\ TypeOK
    /\ \A e \in Endorsements :
          /\ request[e].status \in Status
          /\ request[e].type \in {"CORRECTION", "CANCELLATION"}
          /\ request[e].number \in 0..Cardinality(Endorsements)
          /\ request[e].status = "UNFILED" <=> request[e].number = 0
    /\ policyRow.status \in {"ACTIVE", "CANCELLED"}
    /\ \A c \in DOMAIN coverage : coverage[c] \in Coverage
    /\ \A k \in DOMAIN approvals : approvals[k].decision \in {"APPROVED", "REJECTED"}
    /\ inLease \subseteq Endorsements
    /\ \A t \in Txs :
          /\ work[t].pc = "transaction" <=> Running(t)
          /\ \A c \in DOMAIN work[t].covers : work[t].covers[c] \in Coverage
          /\ DOMAIN work[t].decided \subseteq Endorsements

-----------------------------------------------------------------------------
(* What the handlers guarantee.                                              *)

Approved == {e \in Filed : request[e].status = "APPROVED"}

TimesApproved(e) ==
    Cardinality({k \in DOMAIN approvals : approvals[k] = [request |-> e, decision |-> "APPROVED"]})

\* The endorsements of a policy are numbered from 1 without gaps, though two
\* filings may count the same rows.
NumberedWithoutGaps ==
    {request[e].number : e \in Filed} = 1..Cardinality(Filed)

\* However approvals, rejections and an orphaning cancellation race, an
\* endorsement is approved at most once, and each approval that stands has its
\* history row and its in-lease task.
ApprovedExactlyOnce ==
    /\ inLease = Approved
    /\ \A e \in Endorsements : TimesApproved(e) = IF e \in Approved THEN 1 ELSE 0

\* An approved or rejected endorsement stays as it was decided.
DecisionStands ==
    [][\A e \in Filed : request[e].status # "SUBMITTED" => request'[e].status = request[e].status]_vars

\* The policy's premium is that of its active coverages after any approvals:
\* each reads the coverages once it holds the agent's row, which the other
\* holds to its end.
PremiumMatchesCoverages == policyRow.total = Premium(coverage)

\* A coverage is at the figure of the change of its value approved last, though
\* several may have been filed, added or edited against the same old figure: the
\* others are refused.
ValueLine(k) ==
    LET lines == request[approvals[k].request].lines
    IN  IF approvals[k].decision = "APPROVED" THEN {i \in DOMAIN lines : lines[i].type = "VALUE"} ELSE {}

ChangesValue(k, c) ==
    \E i \in ValueLine(k) : request[approvals[k].request].lines[i].coverage = c

ValuesAreAsApproved ==
    \A k \in DOMAIN approvals : \A i \in ValueLine(k) :
        LET line == request[approvals[k].request].lines[i]
        IN  \/ coverage[line.coverage].owed = line.from + line.by
            \/ \E j \in ValueLine(k) :
                  j > i /\ request[approvals[k].request].lines[j].coverage = line.coverage
            \/ \E later \in DOMAIN approvals : later > k /\ ChangesValue(later, line.coverage)

\* The ledger owes for the policy what its coverages do, when endorsements are
\* decided one at a time and no coverage whose value was changed is removed.
PolicyOwes == SumOf(LAMBDA i : ledger[i].amount, Components)

LedgerMatchesCoverages == PolicyOwes = Premium(coverage) + Misc(coverage)

\* The policy's misc is the "variant misc_fee as frozen at issuance"
\* (endorsements.js:1699-1700) and its coverages of that kind.
MiscMatchesCoverages == policyRow.misc = MiscFee + Misc(coverage)

\* The two figures an approval writes beside the coverages, each in a table of
\* its own, are what the coverages add up to.
AccountsMatchCoverages == LedgerMatchesCoverages /\ MiscMatchesCoverages

-----------------------------------------------------------------------------
(* What comments, answers and the schema say, and concurrent requests break.  *)

\* Pending endorsements of a cancelled policy "can never be approved now"
\* (endorsements.js:1640-1641): none that is approved is recorded as rejected.
HistoryAgrees ==
    \A e \in Approved : \A k \in DOMAIN approvals :
        approvals[k].request = e => approvals[k].decision = "APPROVED"

\* "This policy has been cancelled and can no longer be endorsed"
\* (endorsements.js:1604).
OnlyLivePoliciesAreEndorsed ==
    [][policyRow.status = "CANCELLED" => Approved' = Approved]_vars

\* Cancelling rejects what is pending "so they don't sit in the Endorsement
\* Approval queue forever" (endorsements.js:1642).
NothingPendingOnceCancelled ==
    policyRow.status = "CANCELLED" => \A e \in Filed : request[e].status # "SUBMITTED"

\* A cancellation refunds "Every payable-to-Bethel ledger component on this
\* policy" (endorsements.js:1608-1609): it has seen all there are when it commits.
EveryComponentIsRefunded ==
    [][\A t \in Txs : (work[t].cancels /\ policyRow'.status = "CANCELLED" /\ ~Running(t)')
                      => Components \subseteq work[t].components]_vars

\* "This coverage has already been removed" (endorsements.js:1772): it is
\* removed by one endorsement only.
RemovedOnce ==
    \A d, e \in Approved : d # e =>
        \A i \in DOMAIN request[d].lines, j \in DOMAIN request[e].lines :
            ~(/\ request[d].lines[i].type = "REMOVE" /\ request[e].lines[j].type = "REMOVE"
              /\ request[d].lines[i].coverage = request[e].lines[j].coverage)

\* The lines of an endorsement are "frozen once it's APPROVED/REJECTED"
\* (endorsements.prisma).
LinesAreFrozen ==
    [][\A e \in Filed : request[e].status # "SUBMITTED" => request'[e].lines = request[e].lines]_vars

\* "An endorsement must have at least one change" (endorsements.js:1503).
NeverWithoutLines == \A e \in Filed : request[e].lines # NoRows

================================================================================
