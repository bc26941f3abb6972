----------------------------- MODULE PolicyApproval -----------------------------
(***************************************************************************)
(* From a filed application to an issued policy: createApplicationRecord   *)
(* (routes/policyApplications.js) and the review, change, approve and      *)
(* reject handlers of routes/policyApproval.js, run by concurrent requests *)
(* against one Postgres database at READ COMMITTED.                        *)
(*                                                                         *)
(* A handler is a sequence of awaits, so each of its reads outside a       *)
(* transaction is a step of its own, and what it read is kept in the       *)
(* request until it is used.  A transaction is one step: the transactions  *)
(* here read nothing but the row they claim (whose lock they then hold)    *)
(* and otherwise insert, or increment a column in place, so nothing they   *)
(* write depends on when the statements ran.  A handler that answers with  *)
(* an error rolls its transaction back and its request is idle again.      *)
(*                                                                         *)
(* A filing here covers vehicles and risk addresses that are on file.  It  *)
(* may take one of its vehicles over from its owner (reassign_owner), and  *)
(* PATCH /vehicles/:id edits a vehicle: both read the vehicle's assessment *)
(* date, without a lock, and write back what they read.                    *)
(***************************************************************************)
EXTENDS Integers, Sequences, FiniteSets, FiniteSetsExt, PolicyConflicts

CONSTANTS
    Apps,         \* applications that may be filed
    Agents,       \* agents
    Vehicles,     \* vehicles already on file
    RiskAddresses,\* risk addresses already on file
    Details,      \* values of a vehicle's descriptive columns
    Reqs,         \* requests the server may be serving at once
    Dates,        \* coverage start dates a filing or a change may ask for
    Lengths,      \* coverage period lengths, in days
    AgentOf,      \* the agent each application is filed for
    AssetsOf,     \* the vehicles or the risk address each application covers
    PayableOf,    \* what each application's coverages owe Bethel in total
    Rewritten,    \* bound: the vehicles that filings take over and edits rewrite
    MaxChanges    \* bound: changes recorded, by application

Assets == Vehicles \cup RiskAddresses

NoVehicle == "no vehicle"

ASSUME ParametersAssumption ==
    /\ Dates \subseteq Nat
    /\ Lengths \subseteq Nat \ {0}
    /\ AgentOf \in [Apps -> Agents]
    /\ AssetsOf \in [Apps -> SUBSET Assets]
    /\ PayableOf \in [Apps -> Nat]
    /\ Rewritten \subseteq Vehicles
    /\ NoVehicle \notin Vehicles
    /\ MaxChanges \in [Apps -> Nat]

Statuses == {"UNFILED", "SUBMITTED", "UNDER_REVIEW", "APPROVED", "REJECTED"}
Decided  == {"APPROVED", "REJECTED"}

NotAssessed == -1   \* initial_assessment_date IS NULL
NoApp       == "no application"

VARIABLES
    app,        \* PolicyApplication rows
    changes,    \* PolicyApplicationChange rows of each application, oldest first
    detail,     \* descriptive columns of each Vehicle row
    assessed,   \* initial_assessment_date of each Vehicle row
    policies,   \* Policy rows, with their PolicyVehicle/PolicyAddress rows
    history,    \* ApprovalHistory rows
    ledger,     \* AgentPayableTransaction rows
    payable,    \* Agent.payable
    inLease,    \* InLeaseBacklog FOR_UPLOAD rows, by policy
    req         \* what each request is doing and has read

vars == <<app, changes, detail, assessed, policies, history, ledger, payable, inLease, req>>

-----------------------------------------------------------------------------
(* Requests.  `pc` names the await the handler is about to perform.          *)

Steps == {"idle", "filePolicies", "fileCommit", "approveRead", "approveChanges",
          "approvePending", "approvePolicies", "approveCommit", "rejectCommit",
          "changeCommit", "openUpdate", "vehicleUpdate"}

Idle == [pc |-> "idle", app |-> NoApp, from |-> 0, to |-> 0, renews |-> 0,
         detail |-> [v \in {} |-> 0], unassessed |-> {}, vehicle |-> NoVehicle,
         dated |-> NotAssessed]

\* r answers its client and can serve another request.
Finish(r) == req' = [req EXCEPT ![r] = Idle]

Goto(r, step) == req' = [req EXCEPT ![r].pc = step]

-----------------------------------------------------------------------------
Init ==
    /\ app = [a \in Apps |-> [status |-> "UNFILED", start |-> 0, end |-> 0, renews |-> 0]]
    /\ changes = [a \in Apps |-> << >>]
    /\ detail \in [Vehicles -> Details]
    /\ assessed = [v \in Vehicles |-> NotAssessed]
    /\ policies = << >>
    /\ history = << >>
    /\ ledger = << >>
    /\ payable = [g \in Agents |-> 0]
    /\ inLease = {}
    /\ req = [r \in Reqs |-> Idle]

-----------------------------------------------------------------------------
(* Filing: createApplicationRecord.                                          *)

Filing == {"filePolicies", "fileCommit"}

\* The policy a filing may name as the one it renews (0: none): one of the
\* agent's own, not running past the requested start.
MayRenew(a, start) ==
    {0} \cup {i \in DOMAIN policies :
               AgentOf[policies[i].app] = AgentOf[a] /\ policies[i].expiry <= start}

\* The validations pass and the pending-application query finds nothing.
FileCheckPending(r, a, start, length, renewed) ==
    /\ req[r].pc = "idle"
    /\ app[a].status = "UNFILED"
    /\ \A s \in Reqs : req[s].pc \in Filing => req[s].app # a
    /\ renewed \in MayRenew(a, start)
    /\ ~HasPending(app, AssetsOf, AssetsOf[a], {})
    /\ req' = [req EXCEPT ![r] = [Idle EXCEPT !.pc = "filePolicies", !.app = a,
                                              !.from = start, !.to = start + length,
                                              !.renews = renewed]]
    /\ UNCHANGED <<app, changes, detail, assessed, policies, history, ledger, payable, inLease>>

\* The latest policy of each asset must not run past the requested start; it
\* is what the filing renews unless it named another.
FileCheckPolicies(r) ==
    LET q == req[r]
    IN  /\ q.pc = "filePolicies"
        /\ \/ /\ MayPass(policies, AssetsOf[q.app], q.from)
              /\ \E p \in IF q.renews # 0 THEN {q.renews}
                         ELSE RenewalTargets(policies, AssetsOf[q.app]) :
                    req' = [req EXCEPT ![r].pc = "fileCommit", ![r].renews = p]
           \/ /\ MayBlock(policies, AssetsOf[q.app], q.from)
              /\ Finish(r)
        /\ UNCHANGED <<app, changes, detail, assessed, policies, history, ledger, payable, inLease>>

\* Inside the transaction: the vehicle that changes owner is read, to keep its
\* assessment date if it has one.
FileTakeOver(r, v) ==
    /\ req[r].pc = "fileCommit"
    /\ req[r].vehicle = NoVehicle
    /\ v \in AssetsOf[req[r].app] \cap Rewritten
    /\ req' = [req EXCEPT ![r].vehicle = v, ![r].dated = assessed[v]]
    /\ UNCHANGED <<app, changes, detail, assessed, policies, history, ledger, payable, inLease>>

\* The update after the read: every descriptive column as the form has it, the
\* assessment date as it was read, null included.
RewriteVehicle(q) ==
    /\ \E x \in Details : detail' = [detail EXCEPT ![q.vehicle] = x]
    /\ assessed' = [assessed EXCEPT ![q.vehicle] = q.dated]

\* The application is inserted SUBMITTED, and a vehicle taken over rewritten.
\* POST /policy-applications answers; POST /policy-approval/admin-applications
\* goes on to approve it.
FileCommit(r) ==
    LET q == req[r]
    IN  /\ q.pc = "fileCommit"
        /\ app' = [app EXCEPT ![q.app] = [status |-> "SUBMITTED", start |-> q.from,
                                          end |-> q.to, renews |-> q.renews]]
        /\ \/ Finish(r)
           \/ req' = [req EXCEPT ![r] = [Idle EXCEPT !.pc = "approveRead", !.app = q.app]]
        /\ IF q.vehicle = NoVehicle THEN UNCHANGED <<detail, assessed>> ELSE RewriteVehicle(q)
        /\ UNCHANGED <<changes, policies, history, ledger, payable, inLease>>

-----------------------------------------------------------------------------
(* Vehicles: PATCH /vehicles/:id.                                            *)

EditVehicleRead(r, v) ==
    /\ req[r].pc = "idle"
    /\ v \in Rewritten
    /\ req' = [req EXCEPT ![r] = [Idle EXCEPT !.pc = "vehicleUpdate", !.vehicle = v,
                                              !.dated = assessed[v]]]
    /\ UNCHANGED <<app, changes, detail, assessed, policies, history, ledger, payable, inLease>>

EditVehicleUpdate(r) ==
    /\ req[r].pc = "vehicleUpdate"
    /\ RewriteVehicle(req[r])
    /\ Finish(r)
    /\ UNCHANGED <<app, changes, policies, history, ledger, payable, inLease>>

\* Another vehicle has one of the identifiers the edit asks for.
EditVehicleRefused(r) ==
    /\ req[r].pc = "vehicleUpdate"
    /\ Finish(r)
    /\ UNCHANGED <<app, changes, detail, assessed, policies, history, ledger, payable, inLease>>

-----------------------------------------------------------------------------
(* Review: GET /policy-approval/:id.                                         *)

OpenRead(r, a) ==
    /\ req[r].pc = "idle"
    /\ app[a].status = "SUBMITTED"
    /\ req' = [req EXCEPT ![r] = [Idle EXCEPT !.pc = "openUpdate", !.app = a]]
    /\ UNCHANGED <<app, changes, detail, assessed, policies, history, ledger, payable, inLease>>

\* The conditional update only advances a row that is still SUBMITTED.
OpenUpdate(r) ==
    LET a == req[r].app
    IN  /\ req[r].pc = "openUpdate"
        /\ app' = IF app[a].status = "SUBMITTED"
                  THEN [app EXCEPT ![a].status = "UNDER_REVIEW"] ELSE app
        /\ Finish(r)
        /\ UNCHANGED <<changes, detail, assessed, policies, history, ledger, payable, inLease>>

-----------------------------------------------------------------------------
(* Changes: POST /policy-approval/:id/changes.                               *)

ChangeRead(r, a) ==
    /\ req[r].pc = "idle"
    /\ app[a].status \in PendingStatuses
    /\ req' = [req EXCEPT ![r] = [Idle EXCEPT !.pc = "changeCommit", !.app = a]]
    /\ UNCHANGED <<app, changes, detail, assessed, policies, history, ledger, payable, inLease>>

\* INSURED_FROM_DATE only records the new date, which must differ from the
\* filed one.
ChangeDate(r, d) ==
    LET a == req[r].app
    IN  /\ req[r].pc = "changeCommit"
        /\ Len(changes[a]) < MaxChanges[a]
        /\ d # app[a].start
        /\ changes' = [changes EXCEPT ![a] = Append(@, [type |-> "INSURED_FROM_DATE", to |-> d])]
        /\ Finish(r)
        /\ UNCHANGED <<app, detail, assessed, policies, history, ledger, payable, inLease>>

\* A VEHICLE_* change also corrects the shared Vehicle row.
ChangeVehicle(r, v, x) ==
    LET a == req[r].app
    IN  /\ req[r].pc = "changeCommit"
        /\ Len(changes[a]) < MaxChanges[a]
        /\ v \in AssetsOf[a]
        /\ x # detail[v]
        /\ detail' = [detail EXCEPT ![v] = x]
        /\ changes' = [changes EXCEPT ![a] = Append(@, [type |-> "VEHICLE", vehicle |-> v, to |-> x])]
        /\ Finish(r)
        /\ UNCHANGED <<app, assessed, policies, history, ledger, payable, inLease>>

\* The body is refused (nothing actually changed, or not part of this
\* application) and the transaction rolls back.
ChangeRefused(r) ==
    /\ req[r].pc = "changeCommit"
    /\ Finish(r)
    /\ UNCHANGED <<app, changes, detail, assessed, policies, history, ledger, payable, inLease>>

-----------------------------------------------------------------------------
(* Approval: approveApplicationRecord.                                       *)

VehiclesOf(a) == AssetsOf[a] \cap Vehicles

\* The vehicles whose assessment date the approval is to fill in.
UnassessedOnNewPolicy(a) ==   \* variant: renewals are taken to be assessed
    {v \in VehiclesOf(a) : assessed[v] = NotAssessed /\ app[a].renews = 0}

Unassessed(a) == {v \in VehiclesOf(a) : assessed[v] = NotAssessed}

\* The application, with its vehicles as they are on file right now.
ReadForApproval(r, a) ==
    /\ app[a].status \in PendingStatuses
    /\ req' = [req EXCEPT ![r] =
                 [Idle EXCEPT !.pc = "approveChanges", !.app = a,
                              !.from = app[a].start, !.to = app[a].end,
                              !.detail = [v \in VehiclesOf(a) |-> detail[v]],
                              !.unassessed = Unassessed(a)]]

ApproveRead(r, a) ==
    /\ \/ req[r].pc = "idle"
       \/ req[r].pc = "approveRead" /\ req[r].app = a
    /\ ReadForApproval(r, a)
    /\ UNCHANGED <<app, changes, detail, assessed, policies, history, ledger, payable, inLease>>

\* The application the admin flow just filed was decided by someone else.
AdminApproveRefused(r) ==
    /\ req[r].pc = "approveRead"
    /\ app[req[r].app].status \in Decided
    /\ Finish(r)
    /\ UNCHANGED <<app, changes, detail, assessed, policies, history, ledger, payable, inLease>>

\* The last INSURED_FROM_DATE change of a log, if any.
LastDateChange(log) ==
    {i \in DOMAIN log :
        /\ log[i].type = "INSURED_FROM_DATE"
        /\ \A j \in DOMAIN log : log[j].type = "INSURED_FROM_DATE" => j <= i}

EffectiveDate(start, log) ==
    IF LastDateChange(log) = {} THEN start
    ELSE log[CHOOSE i \in LastDateChange(log) : TRUE].to

\* The period keeps its length when its start moves.
UnshiftedEnd(q, effective) == q.to                             \* variant
ShiftedBackEnd(q, effective) == q.to - (effective - q.from)    \* variant

ShiftedEnd(q, effective) == effective + (q.to - q.from)

ApproveReadChanges(r) ==
    LET q == req[r]
        effective == EffectiveDate(q.from, changes[q.app])
    IN  /\ q.pc = "approveChanges"
        /\ req' = [req EXCEPT ![r].pc = "approvePending", ![r].from = effective,
                              ![r].to = ShiftedEnd(q, effective)]
        /\ UNCHANGED <<app, changes, detail, assessed, policies, history, ledger, payable, inLease>>

ApproveCheckPending(r) ==
    LET q == req[r]
    IN  /\ q.pc = "approvePending"
        /\ IF HasPending(app, AssetsOf, AssetsOf[q.app], {q.app})
           THEN Finish(r) ELSE Goto(r, "approvePolicies")
        /\ UNCHANGED <<app, changes, detail, assessed, policies, history, ledger, payable, inLease>>

ApproveCheckPolicies(r) ==
    LET q == req[r]
    IN  /\ q.pc = "approvePolicies"
        /\ \/ MayPass(policies, AssetsOf[q.app], q.from) /\ Goto(r, "approveCommit")
           \/ MayBlock(policies, AssetsOf[q.app], q.from) /\ Finish(r)
        /\ UNCHANGED <<app, changes, detail, assessed, policies, history, ledger, payable, inLease>>

\* claimPendingApplication's condition.
ClaimableOnceRead(a) == app[a].status # "UNFILED"   \* variant: no condition in the write

Claimable(a) == app[a].status \in PendingStatuses

\* The assessment date the approval gives: the policy's inception.
FiledInception(q) == app[q.app].start   \* variant: the date applied for

AssessmentDate(q) == q.from

\* Everything the approval writes besides the claimed status: the policy and
\* its vehicles, the in-lease row, the assessment date of the vehicles it read
\* as unassessed, the ledger credit and the agent's cached balance.
Issue(q) ==
    LET agent == AgentOf[q.app]
        owed  == PayableOf[q.app]
    IN  /\ policies' = Append(policies,
              [app |-> q.app, assets |-> AssetsOf[q.app], effective |-> q.from,
               expiry |-> q.to, detail |-> q.detail, status |-> "ACTIVE"])
        /\ inLease' = inLease \cup {Len(policies) + 1}
        /\ assessed' = [v \in Vehicles |-> IF v \in q.unassessed THEN AssessmentDate(q) ELSE assessed[v]]
        /\ ledger' = Append(ledger,
              [agent |-> agent, policy |-> Len(policies) + 1, type |-> "ISSUANCE", amount |-> owed])
        /\ payable' = [payable EXCEPT ![agent] = @ + owed]

ApproveCommit(r) ==
    LET q == req[r]
    IN  /\ q.pc = "approveCommit"
        /\ Claimable(q.app)
        /\ app' = [app EXCEPT ![q.app].status = "APPROVED"]
        /\ Issue(q)
        /\ history' = Append(history, [app |-> q.app, decision |-> "APPROVED"])
        /\ Finish(r)
        /\ UNCHANGED <<changes, detail>>

-----------------------------------------------------------------------------
(* Rejection: POST /policy-approval/:id/reject.                              *)

RejectRead(r, a) ==
    /\ req[r].pc = "idle"
    /\ app[a].status \in PendingStatuses
    /\ req' = [req EXCEPT ![r] = [Idle EXCEPT !.pc = "rejectCommit", !.app = a]]
    /\ UNCHANGED <<app, changes, detail, assessed, policies, history, ledger, payable, inLease>>

RejectCommit(r) ==
    LET a == req[r].app
    IN  /\ req[r].pc = "rejectCommit"
        /\ Claimable(a)
        /\ app' = [app EXCEPT ![a].status = "REJECTED"]
        /\ history' = Append(history, [app |-> a, decision |-> "REJECTED"])
        /\ Finish(r)
        /\ UNCHANGED <<changes, detail, assessed, policies, ledger, payable, inLease>>

\* The claim matched no row: someone else decided first, the transaction
\* rolls back and the client gets a 409.
ClaimLost(r) ==
    /\ req[r].pc \in {"approveCommit", "rejectCommit"}
    /\ ~Claimable(req[r].app)
    /\ Finish(r)
    /\ UNCHANGED <<app, changes, detail, assessed, policies, history, ledger, payable, inLease>>

-----------------------------------------------------------------------------
\* A request that names an application is received, or every other step.
Start(r, a) ==
    \/ \E d \in Dates, n \in Lengths, p \in {0} \cup DOMAIN policies :
          FileCheckPending(r, a, d, n, p)
    \/ OpenRead(r, a)
    \/ ChangeRead(r, a)
    \/ ApproveRead(r, a)
    \/ RejectRead(r, a)

Continue(r) ==
    \/ FileCheckPolicies(r)
    \/ \E v \in Vehicles : FileTakeOver(r, v)
    \/ FileCommit(r)
    \/ \E v \in Vehicles : EditVehicleRead(r, v)
    \/ EditVehicleUpdate(r)
    \/ EditVehicleRefused(r)
    \/ OpenUpdate(r)
    \/ \E d \in Dates : ChangeDate(r, d)
    \/ \E v \in Vehicles, x \in Details : ChangeVehicle(r, v, x)
    \/ ChangeRefused(r)
    \/ AdminApproveRefused(r)
    \/ ApproveReadChanges(r)
    \/ ApproveCheckPending(r)
    \/ ApproveCheckPolicies(r)
    \/ ApproveCommit(r)
    \/ RejectCommit(r)
    \/ ClaimLost(r)

Next == \E r \in Reqs : Continue(r) \/ \E a \in Apps : Start(r, a)

Spec == Init /\ [][Next]_vars

-----------------------------------------------------------------------------
(* Type invariant: the rows and the requests hold values of their columns.   *)

KnownDetails == UNION {[S -> Details] : S \in SUBSET Vehicles}

ApplicationRow == [status : Statuses, start : Nat, end : Nat, renews : Nat]
ChangeRow == [type : {"INSURED_FROM_DATE"}, to : Nat]
             \cup [type : {"VEHICLE"}, vehicle : Vehicles, to : Details]
PolicyRow == [app : Apps, assets : SUBSET Assets, effective : Nat, expiry : Nat,
              detail : KnownDetails, status : {"ACTIVE", "CANCELLED"}]
HistoryRow == [app : Apps, decision : Decided]
LedgerRow == [agent : Agents, policy : Nat, type : {"ISSUANCE", "CANCELLED_POLICY"}, amount : Int]
Request == [pc : Steps, app : Apps \cup {NoApp}, from : Nat, to : Nat, renews : Nat,
            detail : KnownDetails, unassessed : SUBSET Vehicles,
            vehicle : Vehicles \cup {NoVehicle}, dated : Nat \cup {NotAssessed}]

\* The requests at work on no application.
Unbound == {"idle", "vehicleUpdate"}

TypeOK ==
    /\ app \in [Apps -> ApplicationRow]
    /\ changes \in [Apps -> Seq(ChangeRow)]
    /\ detail \in [Vehicles -> Details]
    /\ assessed \in [Vehicles -> Nat \cup {NotAssessed}]
    /\ policies \in Seq(PolicyRow)
    /\ history \in Seq(HistoryRow)
    /\ ledger \in Seq(LedgerRow)
    /\ payable \in [Agents -> Nat]
    /\ inLease \subseteq Nat
    /\ req \in [Reqs -> Request]
    /\ \A r \in Reqs : req[r].pc \notin Unbound => req[r].app \in Apps
    /\ \A r \in Reqs : req[r].pc = "vehicleUpdate" => req[r].vehicle \in Vehicles

-----------------------------------------------------------------------------
(* What the handlers guarantee.                                              *)

\* Racing approvals and rejections of one application issue exactly one policy
\* or none: an application is APPROVED exactly when one policy was issued for
\* it, and every policy has its in-lease upload row.  This is what
\* claimPendingApplication inside the transaction is for.
IssuedExactlyOnce ==
    /\ \A a \in Apps : app[a].status = "APPROVED" <=> \E i \in DOMAIN policies : policies[i].app = a
    /\ \A i, j \in DOMAIN policies : policies[i].app = policies[j].app => i = j
    /\ inLease = DOMAIN policies

\* The audit trail agrees with the outcome: a decided application has one
\* ApprovalHistory row, with the decision its status shows, and an undecided
\* one has none.
DecidedExactlyOnce ==
    /\ \A i \in DOMAIN history : app[history[i].app].status = history[i].decision
    /\ \A i, j \in DOMAIN history : history[i].app = history[j].app => i = j
    /\ \A a \in Apps : app[a].status \in Decided => \E i \in DOMAIN history : history[i].app = a

\* The outcome of an application is recorded once, and alike, in the tables it
\* is spread over.
OutcomeIsRecordedOnce == IssuedExactlyOnce /\ DecidedExactlyOnce

\* Agent.payable is what the agent's issued policies owe Bethel, and so is the
\* sum of the ledger it caches, however the approvals interleave.
PayableMatchesPolicies ==
    \A g \in Agents :
        LET issued == {a \in Apps : AgentOf[a] = g /\ app[a].status = "APPROVED"}
            rows   == {i \in DOMAIN ledger : ledger[i].agent = g}
        IN  /\ payable[g] = SumFunctionOnSet(PayableOf, issued)
            /\ payable[g] = SumFunctionOnSet([i \in rows |-> ledger[i].amount], rows)

\* No two active policies insure the same asset on the same day: filings that
\* raced past each other's checks are caught by the re-check at approval.
ExclusiveCover ==
    \A i, j \in DOMAIN policies :
        /\ i # j
        /\ policies[i].status = "ACTIVE" /\ policies[j].status = "ACTIVE"
        /\ policies[i].assets \cap policies[j].assets # {}
        => \/ policies[i].expiry <= policies[j].effective
           \/ policies[j].expiry <= policies[i].effective

\* A policy covers as many days as were applied for, from the date its change
\* log asked for when it was read: the whole log or a prefix of it.
PeriodFollowsChanges ==
    \A i \in DOMAIN policies :
        LET a == policies[i].app
        IN  /\ policies[i].expiry - policies[i].effective = app[a].end - app[a].start
            /\ \E n \in 0..Len(changes[a]) :
                  policies[i].effective = EffectiveDate(app[a].start, SubSeq(changes[a], 1, n))

\* The date a vehicle depreciates from is the inception of one of its policies,
\* although approvals of several applications, edits and filings that take the
\* vehicle over write it from what each of them read earlier.
AssessedAtInception ==
    \A v \in Vehicles :
        assessed[v] # NotAssessed =>
            \E i \in DOMAIN policies :
                v \in policies[i].assets /\ assessed[v] = policies[i].effective

\* A decided application is never reopened nor decided again, whatever a
\* request that read it earlier still has in hand (an opening for review, a
\* second decision).
DecisionIsFinal ==
    [][\A a \in Apps : app[a].status \in Decided => app'[a] = app[a]]_vars

-----------------------------------------------------------------------------
(* The requests, reads and transactions above implement Underwriting: its     *)
(* stages are the statuses, its cover is what the policies insure.            *)

StageOf(status) ==
    CASE status = "UNFILED"  -> "unfiled"
      [] status = "APPROVED" -> "issued"
      [] status = "REJECTED" -> "declined"
      [] OTHER               -> "pending"

PoliciesOf(a) == {i \in DOMAIN policies : policies[i].app = a}

CoverOf(a) ==
    IF PoliciesOf(a) = {} THEN [from |-> 0, to |-> 0]
    ELSE LET p == policies[CHOOSE i \in PoliciesOf(a) : TRUE]
         IN  [from |-> p.effective, to |-> p.expiry]

Promise == INSTANCE Underwriting WITH
    Starts <- Dates, Terms <- Lengths,
    stage  <- [a \in Apps |-> StageOf(app[a].status)],
    term   <- [a \in Apps |-> app[a].end - app[a].start],
    cover  <- [a \in Apps |-> CoverOf(a)],
    owed   <- payable

\* Filings, approvals and rejections that interleave read by read amount to
\* applications decided one at a time: no approval leaves a policy without its
\* debt or a debt without its policy, insures an asset that is insured, or
\* comes after another decision.
IssuesOneAtATime == Promise!Spec

-----------------------------------------------------------------------------
(* What comments and messages of the code say, and the code does not keep.   *)

\* "no further changes can be recorded" once an application is decided
\* (policyApproval.js:390-395).
NoChangeAfterDecision ==
    [][\A a \in Apps : changes'[a] # changes[a] => app[a].status \in PendingStatuses]_vars

\* The issued policy carries every change recorded so far: vehicle changes
\* "already live on the Vehicle/Address rows this reads fresh" and the others
\* "are folded in explicitly" (policyApproval.js:511-514).
IssueCarriesChanges ==
    [][\A a \in Apps :
        (app[a].status # "APPROVED" /\ app'[a].status = "APPROVED") =>
            LET p == policies'[Len(policies')]
            IN  /\ p.effective = EffectiveDate(app[a].start, changes[a])
                /\ \A v \in VehiclesOf(a) : p.detail[v] = detail[v]]_vars

\* "An unconditional block": an asset with an application pending approval is
\* not applied for again (policyConflicts.js:12-15).
PendingIsExclusive ==
    \A a \in Apps :
        app[a].status \in PendingStatuses => ~HasPending(app, AssetsOf, AssetsOf[a], {a})

\* Once a policy of the vehicle is approved, its assessment date is "frozen from
\* here on" (vehicles.js:166-171), "never moved once set" (locations.prisma:100-101).
FrozenOnceAssessed ==
    [][\A v \in Vehicles : assessed[v] # NotAssessed => assessed'[v] = assessed[v]]_vars

\* "Under no circumstance is an application/quotation left as a NEW_POLICY once
\* at least one vehicle on it has prior history" (policyConflicts.js:54-56).
HistoryIsLinked ==
    [][\A a \in Apps :
        (app[a].status = "UNFILED" /\ app'[a].status = "SUBMITTED" /\ app'[a].renews = 0) =>
            \A i \in DOMAIN policies : policies[i].assets \cap AssetsOf[a] = {}]_vars
================================================================================
