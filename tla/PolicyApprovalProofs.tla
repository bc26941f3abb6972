-------------------------- MODULE PolicyApprovalProofs --------------------------
(***************************************************************************)
(* What PolicyApproval guarantees for any number of applications, assets,  *)
(* requests and changes, proved from one inductive invariant.              *)
(***************************************************************************)
EXTENDS PolicyApproval, WellFoundedInduction, TLAPS

-----------------------------------------------------------------------------
(* Lemmas about the operators.                                               *)

\* The date a change log asks for is a date.
LEMMA EffectiveDateType ==
    ASSUME NEW start \in Nat, NEW log \in Seq(ChangeRow)
    PROVE  EffectiveDate(start, log) \in Nat
<1>1. CASE LastDateChange(log) = {}
  BY <1>1 DEF EffectiveDate
<1>2. CASE LastDateChange(log) # {}
  <2>1. PICK i \in LastDateChange(log) : i = CHOOSE k \in LastDateChange(log) : TRUE
    BY <1>2
  <2>2. i \in DOMAIN log /\ log[i].type = "INSURED_FROM_DATE"
    BY <2>1 DEF LastDateChange
  <2>3. log[i] \in ChangeRow
    BY <2>2
  <2>4. log[i].to \in Nat
    BY <2>2, <2>3 DEF ChangeRow
  <2> QED
    BY <1>2, <2>1, <2>4 DEF EffectiveDate
<1> QED
  BY <1>1, <1>2

\* A renewal link is the number of a policy, or 0.
LEMMA RenewalTargetsType ==
    ASSUME NEW S, NEW table \in Seq(S), NEW assets
    PROVE  RenewalTargets(table, assets) \subseteq Nat
BY DEF RenewalTargets, Latest

-----------------------------------------------------------------------------
(* Type correctness.                                                         *)

\* An idle request is a well-formed one.
LEMMA IdleType == Idle \in Request /\ Idle.pc = "idle" /\ Idle.vehicle = NoVehicle
<1>1. [v \in {} |-> 0] \in [{} -> Details]
  OBVIOUS
<1>2. {} \in SUBSET Vehicles
  OBVIOUS
<1>3. [v \in {} |-> 0] \in KnownDetails
  BY <1>1, <1>2 DEF KnownDetails
<1> QED
  BY <1>3 DEF Idle, Request, Steps

\* What a request reads of a vehicle's columns is a value of KnownDetails.
LEMMA KnownDetailsType ==
    ASSUME TypeOK, NEW S \in SUBSET Vehicles
    PROVE  [v \in S |-> detail[v]] \in KnownDetails
<1>1. [v \in S |-> detail[v]] \in [S -> Details]
  BY DEF TypeOK
<1> QED
  BY <1>1 DEF KnownDetails

\* The tables start well-formed.
LEMMA InitTypeOK == Init => TypeOK
<1> SUFFICES ASSUME Init PROVE TypeOK
  OBVIOUS
<1> USE DEF Init
<1>1. app \in [Apps -> ApplicationRow]
  BY DEF ApplicationRow, Statuses
<1>2. /\ req \in [Reqs -> Request]
      /\ \A r \in Reqs : req[r].pc \notin Unbound => req[r].app \in Apps
      /\ \A r \in Reqs : req[r].pc = "vehicleUpdate" => req[r].vehicle \in Vehicles
  BY IdleType DEF Unbound
<1> QED
  BY <1>1, <1>2 DEF TypeOK

\* The requests keep their types when one of them moves to a typed record.
LEMMA RequestsType ==
    ASSUME TypeOK, NEW r \in Reqs, NEW q \in Request, q.pc \notin Unbound => q.app \in Apps,
           q.pc = "vehicleUpdate" => q.vehicle \in Vehicles, req' = [req EXCEPT ![r] = q]
    PROVE  /\ req' \in [Reqs -> Request]
           /\ \A s \in Reqs : req'[s].pc \notin Unbound => req'[s].app \in Apps
           /\ \A s \in Reqs : req'[s].pc = "vehicleUpdate" => req'[s].vehicle \in Vehicles
BY DEF TypeOK

\* Every period in hand or on file is at least a day long.
PeriodsOK ==
    /\ \A a \in Apps : app[a].status # "UNFILED" => app[a].start < app[a].end
    /\ \A r \in Reqs :
          req[r].pc \in Filing \cup {"approveChanges", "approvePending", "approvePolicies",
                                     "approveCommit"} => req[r].from < req[r].to

\* Every step keeps the types; it needs the periods, as an approval subtracts
\* the two ends of one.
LEMMA TypeOKStep == TypeOK /\ PeriodsOK /\ [Next]_vars => TypeOK'
<1> SUFFICES ASSUME TypeOK, PeriodsOK, [Next]_vars PROVE TypeOK'
  OBVIOUS
<1> USE DEF TypeOK, Unbound
<1>0. CASE UNCHANGED vars
  BY <1>0 DEF vars
<1> SUFFICES ASSUME NEW r \in Reqs, Continue(r) \/ \E a \in Apps : Start(r, a)
             PROVE  TypeOK'
  BY <1>0 DEF Next
<1> DEFINE ReqType == /\ req' \in [Reqs -> Request]
                      /\ \A s \in Reqs : req'[s].pc \notin Unbound => req'[s].app \in Apps
                      /\ \A s \in Reqs : req'[s].pc = "vehicleUpdate" => req'[s].vehicle \in Vehicles
<1>f. Finish(r) => ReqType
  BY IdleType, RequestsType DEF Finish, Unbound
<1>w. ASSUME RewriteVehicle(req[r])
      PROVE  detail' \in [Vehicles -> Details] /\ assessed' \in [Vehicles -> Nat \cup {NotAssessed}]
  BY <1>w DEF RewriteVehicle, Request
<1>1. ASSUME NEW a \in Apps, NEW d \in Dates, NEW n \in Lengths,
               NEW p \in {0} \cup DOMAIN policies, FileCheckPending(r, a, d, n, p)
      PROVE  TypeOK'
  <2>0. d \in Nat /\ d + n \in Nat
    BY ParametersAssumption
  <2>1. p \in Nat
    OBVIOUS
  <2>2. [Idle EXCEPT !.pc = "filePolicies", !.app = a, !.from = d, !.to = d + n,
                     !.renews = p] \in Request
    BY <2>0, <2>1, IdleType DEF Request, Steps
  <2> QED
    BY <1>1, <2>2, RequestsType DEF FileCheckPending
<1>2. CASE FileCheckPolicies(r)
  <2>1. CASE Finish(r)
    BY <1>2, <1>f, <2>1 DEF FileCheckPolicies
  <2>2. ASSUME NEW p \in IF req[r].renews # 0 THEN {req[r].renews}
                        ELSE RenewalTargets(policies, AssetsOf[req[r].app]),
               req' = [req EXCEPT ![r].pc = "fileCommit", ![r].renews = p]
        PROVE  TypeOK'
    <3>1. p \in Nat
      <4>1. RenewalTargets(policies, AssetsOf[req[r].app]) \subseteq Nat
        BY RenewalTargetsType
      <4> QED
        BY <4>1 DEF Request
    <3>2. req' = [req EXCEPT ![r] = [req[r] EXCEPT !.pc = "fileCommit", !.renews = p]]
      BY <2>2
    <3>3. [req[r] EXCEPT !.pc = "fileCommit", !.renews = p] \in Request
      BY <3>1 DEF Request, Steps
    <3> QED
      BY <1>2, <3>2, <3>3, RequestsType DEF FileCheckPolicies, Request
  <2> QED
    BY <1>2, <2>1, <2>2 DEF FileCheckPolicies
<1>3. CASE FileCommit(r)
  <2>1. app' \in [Apps -> ApplicationRow]
    BY <1>3 DEF FileCommit, ApplicationRow, Statuses, Request
  <2>2. /\ [Idle EXCEPT !.pc = "approveRead", !.app = req[r].app] \in Request
        /\ [Idle EXCEPT !.pc = "approveRead", !.app = req[r].app].app \in Apps
    BY <1>3, IdleType DEF FileCommit, Request, Steps
  <2>3. ReqType
    BY <1>3, <1>f, <2>2, RequestsType DEF FileCommit, Idle
  <2>4. detail' \in [Vehicles -> Details] /\ assessed' \in [Vehicles -> Nat \cup {NotAssessed}]
    BY <1>3, <1>w DEF FileCommit
  <2> QED
    BY <1>3, <2>1, <2>3, <2>4 DEF FileCommit
<1>t. ASSUME NEW v \in Vehicles, FileTakeOver(r, v) PROVE TypeOK'
  <2>1. [req[r] EXCEPT !.vehicle = v, !.dated = assessed[v]] \in Request
    BY DEF Request
  <2>2. req' = [req EXCEPT ![r] = [req[r] EXCEPT !.vehicle = v, !.dated = assessed[v]]]
    BY <1>t DEF FileTakeOver
  <2>3. ReqType
    BY <1>t, <2>1, <2>2, RequestsType DEF FileTakeOver, Request, Unbound
  <2> QED
    BY <1>t, <2>3 DEF FileTakeOver
<1>v. ASSUME NEW v \in Vehicles, EditVehicleRead(r, v) PROVE TypeOK'
  <2>1. [Idle EXCEPT !.pc = "vehicleUpdate", !.vehicle = v, !.dated = assessed[v]] \in Request
    BY IdleType DEF Request, Steps
  <2> QED
    BY <1>v, <2>1, RequestsType DEF EditVehicleRead, Idle, Unbound
<1>u. CASE EditVehicleUpdate(r) \/ EditVehicleRefused(r)
  BY <1>u, <1>f, <1>w DEF EditVehicleUpdate, EditVehicleRefused
<1>4. ASSUME NEW a \in Apps, OpenRead(r, a) PROVE TypeOK'
  <2>1. [Idle EXCEPT !.pc = "openUpdate", !.app = a] \in Request
    BY IdleType DEF Request, Steps
  <2> QED
    BY <1>4, <2>1, RequestsType DEF OpenRead
<1>5. CASE OpenUpdate(r)
  <2>1. app' \in [Apps -> ApplicationRow]
    BY <1>5, ZenonT(60) DEF OpenUpdate, ApplicationRow, Statuses
  <2> QED
    BY <1>5, <1>f, <2>1 DEF OpenUpdate
<1>6. ASSUME NEW a \in Apps, ChangeRead(r, a) PROVE TypeOK'
  <2>1. [Idle EXCEPT !.pc = "changeCommit", !.app = a] \in Request
    BY IdleType DEF Request, Steps
  <2> QED
    BY <1>6, <2>1, RequestsType DEF ChangeRead
<1>c. ASSUME NEW row \in ChangeRow, req[r].pc = "changeCommit",
             changes' = [changes EXCEPT ![req[r].app] = Append(@, row)]
      PROVE  changes' \in [Apps -> Seq(ChangeRow)]
  <2>1. req[r].app \in Apps
    BY <1>c
  <2> QED
    BY <1>c, <2>1
<1>7. ASSUME NEW d \in Dates, ChangeDate(r, d) PROVE TypeOK'
  <2>1. [type |-> "INSURED_FROM_DATE", to |-> d] \in ChangeRow
    BY ParametersAssumption DEF ChangeRow
  <2> QED
    BY <1>7, <1>f, <1>c, <2>1 DEF ChangeDate
<1>8. ASSUME NEW v \in Vehicles, NEW x \in Details, ChangeVehicle(r, v, x) PROVE TypeOK'
  <2>1. [type |-> "VEHICLE", vehicle |-> v, to |-> x] \in ChangeRow
    BY DEF ChangeRow
  <2> QED
    BY <1>8, <1>f, <1>c, <2>1 DEF ChangeVehicle
<1>9. CASE ChangeRefused(r) \/ AdminApproveRefused(r) \/ ClaimLost(r)
  BY <1>9, <1>f DEF ChangeRefused, AdminApproveRefused, ClaimLost
<1>10. ASSUME NEW a \in Apps, ApproveRead(r, a) PROVE TypeOK'
  <2> DEFINE q == [Idle EXCEPT !.pc = "approveChanges", !.app = a,
                               !.from = app[a].start, !.to = app[a].end,
                               !.detail = [v \in VehiclesOf(a) |-> detail[v]],
                               !.unassessed = Unassessed(a)]
  <2>1. VehiclesOf(a) \in SUBSET Vehicles
    BY DEF VehiclesOf
  <2>2. [v \in VehiclesOf(a) |-> detail[v]] \in KnownDetails
    BY <2>1, KnownDetailsType
  <2>3. Unassessed(a) \in SUBSET Vehicles
    BY <2>1 DEF Unassessed
  <2>4. app[a].start \in Nat /\ app[a].end \in Nat
    BY DEF ApplicationRow
  <2>5. q \in Request
    BY <2>2, <2>3, <2>4, IdleType DEF Request, Steps
  <2> QED
    BY <1>10, <2>5, IdleType, RequestsType DEF ApproveRead, ReadForApproval, Request
<1>11. CASE ApproveReadChanges(r)
  <2> DEFINE effective == EffectiveDate(req[r].from, changes[req[r].app])
             q == [req[r] EXCEPT !.pc = "approvePending", !.from = effective,
                                 !.to = effective + (req[r].to - req[r].from)]
  <2>1. req[r].app \in Apps /\ req[r].from \in Nat /\ req[r].to \in Nat /\ req[r].from < req[r].to
    BY <1>11 DEF ApproveReadChanges, Request, PeriodsOK
  <2>2. effective \in Nat
    BY <2>1, EffectiveDateType
  <2>3. effective + (req[r].to - req[r].from) \in Nat
    BY <2>1, <2>2
  <2> HIDE DEF effective
  <2>4. q \in Request /\ q.app \in Apps
    BY <2>1, <2>2, <2>3 DEF Request, Steps
  <2>5. req' = [req EXCEPT ![r] = q]
    BY <1>11 DEF ApproveReadChanges, ShiftedEnd, effective
  <2>6. ReqType
    BY <2>4, <2>5, RequestsType
  <2> QED
    BY <1>11, <2>6 DEF ApproveReadChanges
<1>12. CASE ApproveCheckPending(r) \/ ApproveCheckPolicies(r)
  <2>1. ASSUME NEW step \in Steps \ {"vehicleUpdate"}, Goto(r, step), req[r].pc \notin Unbound
        PROVE  ReqType
    BY <2>1 DEF Goto, Request
  <2>2. ReqType
    BY <1>12, <1>f, <2>1 DEF ApproveCheckPending, ApproveCheckPolicies, Steps
  <2> QED
    BY <1>12, <2>2 DEF ApproveCheckPending, ApproveCheckPolicies
<1>13. CASE ApproveCommit(r)
  <2> DEFINE q == req[r]
  <2>1. q \in Request /\ q.app \in Apps
    BY <1>13 DEF ApproveCommit
  <2>2. /\ AgentOf[q.app] \in Agents
        /\ AssetsOf[q.app] \in SUBSET Assets
        /\ PayableOf[q.app] \in Nat
    BY <2>1, ParametersAssumption
  <2>3. app' \in [Apps -> ApplicationRow]
    BY <1>13 DEF ApproveCommit, ApplicationRow, Statuses
  <2>4. policies' \in Seq(PolicyRow)
    <3>1. [app |-> q.app, assets |-> AssetsOf[q.app], effective |-> q.from, expiry |-> q.to,
           detail |-> q.detail, status |-> "ACTIVE"] \in PolicyRow
      BY <2>1, <2>2 DEF PolicyRow, Request
    <3> QED
      BY <1>13, <3>1 DEF ApproveCommit, Issue, AssessmentDate
  <2>5. ledger' \in Seq(LedgerRow)
    <3>1. [agent |-> AgentOf[q.app], policy |-> Len(policies) + 1, type |-> "ISSUANCE",
           amount |-> PayableOf[q.app]] \in LedgerRow
      BY <2>2 DEF LedgerRow
    <3> QED
      BY <1>13, <3>1 DEF ApproveCommit, Issue, AssessmentDate
  <2>6. history' \in Seq(HistoryRow)
    <3>1. [app |-> q.app, decision |-> "APPROVED"] \in HistoryRow
      BY <2>1 DEF HistoryRow, Decided
    <3> QED
      BY <1>13, <3>1 DEF ApproveCommit
  <2>7. payable' \in [Agents -> Nat] /\ inLease' \subseteq Nat
    BY <1>13, <2>2 DEF ApproveCommit, Issue, AssessmentDate
  <2>8. assessed' \in [Vehicles -> Nat \cup {NotAssessed}]
    BY <1>13, <2>1 DEF ApproveCommit, Issue, AssessmentDate, Request
  <2>9. ReqType
    BY <1>13, <1>f DEF ApproveCommit
  <2> QED
    BY <1>13, <2>3, <2>4, <2>5, <2>6, <2>7, <2>8, <2>9 DEF ApproveCommit
<1>14. ASSUME NEW a \in Apps, RejectRead(r, a) PROVE TypeOK'
  <2>1. [Idle EXCEPT !.pc = "rejectCommit", !.app = a] \in Request
    BY IdleType DEF Request, Steps
  <2> QED
    BY <1>14, <2>1, RequestsType DEF RejectRead
<1>15. CASE RejectCommit(r)
  <2>1. req[r].app \in Apps
    BY <1>15 DEF RejectCommit
  <2>2. app' \in [Apps -> ApplicationRow]
    BY <1>15 DEF RejectCommit, ApplicationRow, Statuses
  <2>3. [app |-> req[r].app, decision |-> "REJECTED"] \in HistoryRow
    BY <2>1 DEF HistoryRow, Decided
  <2>4. history' \in Seq(HistoryRow)
    BY <1>15, <2>3 DEF RejectCommit
  <2> QED
    BY <1>15, <1>f, <2>2, <2>4 DEF RejectCommit
<1> QED
  BY <1>1, <1>2, <1>3, <1>t, <1>v, <1>u, <1>4, <1>5, <1>6, <1>7, <1>8, <1>9, <1>10, <1>11, <1>12,
     <1>13, <1>14, <1>15
  DEF Start, Continue

-----------------------------------------------------------------------------
(* The inductive invariant.                                                  *)

Approving == {"approveChanges", "approvePending", "approvePolicies", "approveCommit"}

\* A filing in progress is the only one of its application, which is not on
\* file yet; every other request handles an application that is.
FilingIsPrivate ==
    /\ \A r \in Reqs : req[r].pc \in Filing => app[req[r].app].status = "UNFILED"
    /\ \A r, s \in Reqs :
          (req[r].pc \in Filing /\ req[s].pc \in Filing /\ req[r].app = req[s].app) => r = s
    /\ \A r \in Reqs : req[r].pc \notin Filing \cup Unbound => app[req[r].app].status # "UNFILED"

\* The request has checked that no other application is pending for its assets,
\* and its own still is.
HasPassed(r) == /\ req[r].pc \in {"approvePolicies", "approveCommit"}
                /\ app[req[r].app].status \in PendingStatuses

\* At most one application of an asset is past that check: while it is pending
\* it stops every other.
PassedIsExclusive ==
    \A r, s \in Reqs :
        HasPassed(r) /\ HasPassed(s) /\ req[r].app # req[s].app =>
            AssetsOf[req[r].app] \cap AssetsOf[req[s].app] = {}

\* A request about to issue a policy has every policy of its assets behind it.
CheckedIsClear ==
    \A r \in Reqs :
        HasPassed(r) /\ req[r].pc = "approveCommit" =>
            \A i \in DOMAIN policies :
                policies[i].assets \cap AssetsOf[req[r].app] # {} =>
                    policies[i].expiry <= req[r].from

\* The policies of an asset follow one another in the order they were issued.
PoliciesInOrder ==
    /\ \A i \in DOMAIN policies :
          policies[i].status = "ACTIVE" /\ policies[i].effective < policies[i].expiry
    /\ \A i, j \in DOMAIN policies :
          i < j /\ policies[i].assets \cap policies[j].assets # {} =>
              policies[i].expiry <= policies[j].effective

\* An approval dates vehicles of its own application only.
DatesItsOwn ==
    \A r \in Reqs : req[r].pc \in Approving => req[r].unassessed \subseteq VehiclesOf(req[r].app)

\* What an assessment date, on file or in hand, may be.
InceptionOrNone(table, v, date) ==
    date # NotAssessed =>
        \E i \in DOMAIN table : v \in table[i].assets /\ date = table[i].effective

\* A date that is going to be written back is the inception of a policy of the
\* vehicle it was read from, though the vehicle may have another by now.
ReadDatesAreInceptions ==
    \A r \in Reqs :
        req[r].vehicle # NoVehicle => InceptionOrNone(policies, req[r].vehicle, req[r].dated)

IInv == /\ TypeOK
        /\ PeriodsOK
        /\ FilingIsPrivate
        /\ IssuedExactlyOnce
        /\ DecidedExactlyOnce
        /\ PassedIsExclusive
        /\ CheckedIsClear
        /\ PoliciesInOrder
        /\ DatesItsOwn
        /\ ReadDatesAreInceptions
        /\ AssessedAtInception

-----------------------------------------------------------------------------
(* The steps, seen from the tables they write.                               *)

\* Only four steps write the applications, the policies or the history: filing,
\* opening, issuing and rejecting.
LEMMA WritersOnly ==
    ASSUME NEW r \in Reqs, Continue(r) \/ \E a \in Apps : Start(r, a)
    PROVE  \/ FileCommit(r) \/ OpenUpdate(r) \/ ApproveCommit(r) \/ RejectCommit(r)
           \/ UNCHANGED <<app, policies, history, inLease>>
BY DEF Continue, Start, FileCheckPending, OpenRead, ChangeRead, ApproveRead, RejectRead,
       FileCheckPolicies, ChangeDate, ChangeVehicle, ChangeRefused, AdminApproveRefused,
       ApproveReadChanges, ApproveCheckPending, ApproveCheckPolicies, ClaimLost,
       FileTakeOver, EditVehicleRead, EditVehicleUpdate, EditVehicleRefused

\* A step moves one request only.
LEMMA OneRequestMoves ==
    ASSUME TypeOK, NEW r \in Reqs, Continue(r) \/ \E a \in Apps : Start(r, a)
    PROVE  \A s \in Reqs : s # r => req'[s] = req[s]
BY DEF TypeOK, Continue, Start, FileCheckPending, OpenRead, ChangeRead, ApproveRead,
       RejectRead, FileCheckPolicies, FileCommit, OpenUpdate, ChangeDate, ChangeVehicle,
       ChangeRefused, AdminApproveRefused, ApproveReadChanges, ApproveCheckPending,
       ApproveCheckPolicies, ApproveCommit, RejectCommit, ClaimLost, ReadForApproval,
       FileTakeOver, EditVehicleRead, EditVehicleUpdate, EditVehicleRefused, Finish, Goto

\* How an application's row may move in one step.
LEMMA RowMoves ==
    ASSUME TypeOK, NEW r \in Reqs, Continue(r) \/ \E a \in Apps : Start(r, a), NEW a \in Apps
    PROVE  \/ app'[a] = app[a]
           \/ /\ FileCommit(r) /\ a = req[r].app
              /\ app'[a].status = "SUBMITTED"
              /\ app'[a].start = req[r].from /\ app'[a].end = req[r].to
           \/ /\ app'[a].start = app[a].start /\ app'[a].end = app[a].end
              /\ app[a].status \in PendingStatuses
              /\ \/ OpenUpdate(r) /\ app'[a].status = "UNDER_REVIEW"
                 \/ ApproveCommit(r) /\ a = req[r].app /\ app'[a].status = "APPROVED"
                 \/ RejectCommit(r) /\ a = req[r].app /\ app'[a].status = "REJECTED"
<1> USE DEF TypeOK, ApplicationRow
<1>1. CASE FileCommit(r)
  BY <1>1 DEF FileCommit
<1>2. CASE OpenUpdate(r)
  BY <1>2 DEF OpenUpdate, PendingStatuses
<1>3. CASE ApproveCommit(r)
  BY <1>3 DEF ApproveCommit, Claimable
<1>4. CASE RejectCommit(r)
  BY <1>4 DEF RejectCommit, Claimable
<1> QED
  BY <1>1, <1>2, <1>3, <1>4, WritersOnly

\* Where a request may be after the step it takes: it answers, has read a vehicle
\* to edit, begins to file, goes on filing, goes on to approve what it filed, has
\* read a pending application for another purpose or for approval, or goes on
\* approving.
BeginsFiling(r) ==
    /\ req'[r].pc = "filePolicies" /\ req[r].pc = "idle"
    /\ app[req'[r].app].status = "UNFILED"
    /\ \A s \in Reqs : req[s].pc \in Filing => req[s].app # req'[r].app

ReadsPending(r) ==
    /\ req'[r].pc \in {"openUpdate", "changeCommit", "rejectCommit", "approveChanges"}
    /\ app[req'[r].app].status \in PendingStatuses
    /\ req'[r].pc = "approveChanges" =>
          req'[r].unassessed = Unassessed(req'[r].app)

ReadsChanges(r) ==
    /\ req[r].pc = "approveChanges" /\ req'[r].pc = "approvePending"
    /\ req'[r].app = req[r].app /\ req'[r].unassessed = req[r].unassessed

PassesPending(r) ==
    /\ req[r].pc = "approvePending"
    /\ ~HasPending(app, AssetsOf, AssetsOf[req[r].app], {req[r].app})
    /\ req' = [req EXCEPT ![r].pc = "approvePolicies"]

PassesPolicies(r) ==
    /\ req[r].pc = "approvePolicies"
    /\ MayPass(policies, AssetsOf[req[r].app], req[r].from)
    /\ req' = [req EXCEPT ![r].pc = "approveCommit"]

\* A filing that commits answers its client or goes on to approve.
LEMMA FileCommitMoves ==
    ASSUME TypeOK, NEW r \in Reqs, FileCommit(r)
    PROVE  /\ req[r].pc = "fileCommit"
           /\ \/ req'[r].pc = "idle"
              \/ req'[r].pc = "approveRead" /\ req'[r].app = req[r].app
<1>1. CASE Finish(r)
  BY <1>1 DEF Finish, Idle, FileCommit, TypeOK
<1>2. CASE req' = [req EXCEPT ![r] = [Idle EXCEPT !.pc = "approveRead", !.app = req[r].app]]
  <2>1. req'[r] = [Idle EXCEPT !.pc = "approveRead", !.app = req[r].app]
    BY <1>2 DEF TypeOK
  <2> QED
    BY <2>1 DEF FileCommit, Idle
<1> QED
  BY <1>1, <1>2 DEF FileCommit

\* No step moves a request in any other way than those.
LEMMA RequestMoves ==
    ASSUME TypeOK, NEW r \in Reqs, Continue(r) \/ \E a \in Apps : Start(r, a)
    PROVE  \/ req'[r].pc = "idle"
           \/ BeginsFiling(r)
           \/ req'[r].pc = "vehicleUpdate"
           \/ /\ req'[r].pc = "fileCommit" /\ req[r].pc \in Filing
              /\ req'[r].app = req[r].app
           \/ FileCommit(r) /\ req'[r].pc = "approveRead" /\ req'[r].app = req[r].app
           \/ ReadsPending(r)
           \/ ReadsChanges(r)
           \/ PassesPending(r)
           \/ PassesPolicies(r)
<1> USE DEF TypeOK
<1>1. Finish(r) => req'[r].pc = "idle"
  BY DEF Finish, Idle
<1>2. ASSUME NEW a \in Apps, Start(r, a)
      PROVE  BeginsFiling(r) \/ ReadsPending(r)
  <2>1. ASSUME NEW d \in Dates, NEW n \in Lengths,
               NEW p \in {0} \cup DOMAIN policies, FileCheckPending(r, a, d, n, p)
        PROVE  BeginsFiling(r)
    <3>1. req'[r].pc = "filePolicies" /\ req'[r].app = a
      BY <2>1 DEF FileCheckPending, Idle
    <3> QED
      BY <2>1, <3>1 DEF FileCheckPending, BeginsFiling
  <2>2. CASE OpenRead(r, a) \/ ChangeRead(r, a) \/ RejectRead(r, a)
    <3>1. req'[r].pc \in {"openUpdate", "changeCommit", "rejectCommit"} /\ req'[r].app = a
      BY <2>2, ZenonT(60) DEF OpenRead, ChangeRead, RejectRead, Idle
    <3> QED
      BY <2>2, <3>1 DEF OpenRead, ChangeRead, RejectRead, PendingStatuses, ReadsPending
  <2>3. CASE ApproveRead(r, a)
    <3>1. /\ req'[r].pc = "approveChanges" /\ req'[r].app = a
          /\ req'[r].unassessed = Unassessed(a)
      BY <2>3 DEF ApproveRead, ReadForApproval, Idle
    <3> QED
      BY <2>3, <3>1 DEF ApproveRead, ReadForApproval, ReadsPending
  <2> QED
    BY <1>2, <2>1, <2>2, <2>3 DEF Start
<1>3. CASE FileCheckPolicies(r)
  BY <1>1, <1>3 DEF FileCheckPolicies, Request, Filing
<1>t. ASSUME NEW v \in Vehicles, FileTakeOver(r, v)
      PROVE  req'[r].pc = "fileCommit" /\ req[r].pc \in Filing /\ req'[r].app = req[r].app
  BY <1>t DEF FileTakeOver, Request, Filing
<1>v. ASSUME NEW v \in Vehicles, EditVehicleRead(r, v) PROVE req'[r].pc = "vehicleUpdate"
  BY <1>v DEF EditVehicleRead, Idle
<1>4. CASE FileCommit(r)
  BY <1>4, FileCommitMoves
<1>5. CASE ApproveReadChanges(r)
  BY <1>5 DEF ApproveReadChanges, ReadsChanges, Request
<1>6. CASE ApproveCheckPending(r)
  BY <1>1, <1>6 DEF ApproveCheckPending, Goto, PassesPending
<1>7. CASE ApproveCheckPolicies(r)
  BY <1>1, <1>7 DEF ApproveCheckPolicies, Goto, PassesPolicies
<1> QED
  BY <1>1, <1>2, <1>3, <1>t, <1>v, <1>4, <1>5, <1>6, <1>7
  DEF Continue, OpenUpdate, ChangeDate, ChangeVehicle, ChangeRefused, AdminApproveRefused,
      ApproveCommit, RejectCommit, ClaimLost, EditVehicleUpdate, EditVehicleRefused

-----------------------------------------------------------------------------
(* Each part of the invariant is preserved.                                  *)

\* No change of the start date, and no filing, makes a period empty.
LEMMA PeriodsStep ==
    ASSUME TypeOK, PeriodsOK, FilingIsPrivate, [Next]_vars
    PROVE  PeriodsOK'
<1>0. CASE UNCHANGED vars
  BY <1>0 DEF vars, PeriodsOK
<1> SUFFICES ASSUME NEW r \in Reqs, Continue(r) \/ \E a \in Apps : Start(r, a)
             PROVE  PeriodsOK'
  BY <1>0 DEF Next
<1>1. ASSUME NEW a \in Apps, app'[a].status # "UNFILED" PROVE app'[a].start < app'[a].end
  <2>1. CASE FileCommit(r)
    BY <1>1, <2>1, RowMoves DEF FileCommit, PeriodsOK, Filing, PendingStatuses
  <2> QED
    BY <1>1, <2>1, RowMoves DEF PeriodsOK, PendingStatuses
<1> DEFINE Held == Filing \cup {"approveChanges", "approvePending", "approvePolicies",
                                "approveCommit"}
<1>2. ASSUME req'[r].pc \in Held PROVE req'[r].from < req'[r].to
  <2> USE DEF TypeOK, PeriodsOK, Filing
  <2>1. CASE Finish(r)
    BY <1>2, <2>1 DEF Finish, Idle
  <2>2. ASSUME NEW a \in Apps, Start(r, a) PROVE req'[r].from < req'[r].to
    <3>1. ASSUME NEW d \in Dates, NEW n \in Lengths,
               NEW p \in {0} \cup DOMAIN policies, FileCheckPending(r, a, d, n, p)
          PROVE  req'[r].from < req'[r].to
      <4>1. d \in Nat /\ n \in Nat /\ n > 0
        BY ParametersAssumption
      <4>2. req'[r].from = d /\ req'[r].to = d + n
        BY <3>1 DEF FileCheckPending, Idle
      <4> QED
        BY <4>1, <4>2
    <3>2. CASE ApproveRead(r, a)
      BY <3>2 DEF ApproveRead, ReadForApproval, Idle, PendingStatuses
    <3>3. CASE OpenRead(r, a) \/ ChangeRead(r, a) \/ RejectRead(r, a)
      BY <1>2, <3>3, ZenonT(60) DEF OpenRead, ChangeRead, RejectRead, Idle
    <3> QED
      BY <2>2, <3>1, <3>2, <3>3 DEF Start
  <2>3. CASE FileCheckPolicies(r)
    <3>1. CASE Finish(r)
      BY <2>1, <3>1
    <3>2. ASSUME NEW p \in IF req[r].renews # 0 THEN {req[r].renews}
                        ELSE RenewalTargets(policies, AssetsOf[req[r].app]),
                 req' = [req EXCEPT ![r].pc = "fileCommit", ![r].renews = p]
          PROVE  req'[r].from < req'[r].to
      <4>1. req'[r].from = req[r].from /\ req'[r].to = req[r].to
        BY <3>2 DEF Request
      <4> QED
        BY <2>3, <4>1 DEF FileCheckPolicies
    <3> QED
      BY <2>3, <3>1, <3>2 DEF FileCheckPolicies
  <2>t. ASSUME NEW v \in Vehicles, FileTakeOver(r, v) PROVE req'[r].from < req'[r].to
    BY <2>t DEF FileTakeOver, Request
  <2>v. ~\E v \in Vehicles : EditVehicleRead(r, v)
    BY <1>2 DEF EditVehicleRead, Idle
  <2>4. CASE FileCommit(r)
    BY <1>2, <2>1, <2>4 DEF FileCommit, Idle
  <2>5. CASE ApproveReadChanges(r)
    <3> DEFINE effective == EffectiveDate(req[r].from, changes[req[r].app])
    <3>1. req[r].app \in Apps /\ req[r].from \in Nat /\ req[r].to \in Nat /\ req[r].from < req[r].to
      BY <2>5 DEF ApproveReadChanges, Request, Unbound
    <3>2. effective \in Nat
      BY <3>1, EffectiveDateType
    <3>3. req'[r].from = effective /\ req'[r].to = effective + (req[r].to - req[r].from)
      BY <2>5 DEF ApproveReadChanges, ShiftedEnd, Request
    <3> HIDE DEF effective
    <3> QED
      BY <3>1, <3>2, <3>3
  <2>6. CASE ApproveCheckPending(r) \/ ApproveCheckPolicies(r)
    BY <2>1, <2>6, ZenonT(60) DEF ApproveCheckPending, ApproveCheckPolicies, Goto, Request
  <2> QED
    BY <2>1, <2>2, <2>3, <2>t, <2>v, <2>4, <2>5, <2>6
    DEF Continue, OpenUpdate, ChangeDate, ChangeVehicle, ChangeRefused, AdminApproveRefused,
        ApproveCommit, RejectCommit, ClaimLost, EditVehicleUpdate, EditVehicleRefused
<1>3. ASSUME NEW s \in Reqs, req'[s].pc \in Held PROVE req'[s].from < req'[s].to
  BY <1>2, <1>3, OneRequestMoves DEF PeriodsOK
<1> QED
  BY <1>1, <1>3 DEF PeriodsOK

\* An application is filed by one request only, and handled only once filed.
LEMMA FilingStep ==
    ASSUME TypeOK, TypeOK', FilingIsPrivate, [Next]_vars
    PROVE  FilingIsPrivate'
<1>0. CASE UNCHANGED vars
  BY <1>0 DEF vars, FilingIsPrivate
<1> SUFFICES ASSUME NEW r \in Reqs, Continue(r) \/ \E a \in Apps : Start(r, a)
             PROVE  FilingIsPrivate'
  BY <1>0 DEF Next
<1> USE DEF FilingIsPrivate, Unbound
<1>1. \A s \in Reqs : /\ req[s].pc \notin Unbound => req[s].app \in Apps
                      /\ req'[s].pc \notin Unbound => req'[s].app \in Apps
  BY DEF TypeOK
<1>2. \A a \in Apps : app[a].status # "UNFILED" => app'[a].status # "UNFILED"
  BY RowMoves DEF PendingStatuses
<1>3. \A a \in Apps : app[a].status = "UNFILED" /\ app'[a].status # "UNFILED"
                        => a = req[r].app /\ FileCommit(r)
  BY RowMoves DEF PendingStatuses
<1>4. PassesPending(r) => req'[r].pc = "approvePolicies" /\ req'[r].app = req[r].app
  BY DEF PassesPending, TypeOK, Request
<1>5. PassesPolicies(r) => req'[r].pc = "approveCommit" /\ req'[r].app = req[r].app
  BY DEF PassesPolicies, TypeOK, Request
<1>6. ASSUME req'[r].pc \in Filing
      PROVE  /\ app[req'[r].app].status = "UNFILED"
             /\ ~FileCommit(r)
             /\ \A s \in Reqs : s # r /\ req[s].pc \in Filing => req[s].app # req'[r].app
  <2>1. ~FileCommit(r)
    BY <1>6, FileCommitMoves DEF Filing
  <2>2. BeginsFiling(r) \/ (req[r].pc \in Filing /\ req'[r].app = req[r].app)
    BY <1>4, <1>5, <1>6, <2>1, RequestMoves DEF Filing, ReadsPending, ReadsChanges
  <2> QED
    BY <2>1, <2>2 DEF BeginsFiling, Filing
<1>7. ASSUME NEW s \in Reqs, req'[s].pc \in Filing
      PROVE  app'[req'[s].app].status = "UNFILED"
  <2>1. CASE s = r
    BY <1>1, <1>3, <1>6, <1>7, <2>1 DEF Filing
  <2>2. CASE s # r
    <3>1. req'[s] = req[s]
      BY <2>2, OneRequestMoves
    <3>2. FileCommit(r) => req[s].app # req[r].app
      BY <1>7, <2>2, <3>1, FileCommitMoves DEF Filing
    <3> QED
      BY <1>1, <1>3, <1>7, <3>1, <3>2 DEF Filing
  <2> QED
    BY <2>1, <2>2
<1>8. ASSUME NEW s \in Reqs, NEW t \in Reqs, req'[s].pc \in Filing, req'[t].pc \in Filing,
             req'[s].app = req'[t].app
      PROVE  s = t
  <2>1. CASE s = r \/ t = r
    BY <1>6, <1>8, <2>1, OneRequestMoves
  <2>2. CASE s # r /\ t # r
    BY <1>8, <2>2, OneRequestMoves
  <2> QED
    BY <2>1, <2>2
<1>9. ASSUME NEW s \in Reqs, req'[s].pc \notin Filing \cup Unbound
      PROVE  app'[req'[s].app].status # "UNFILED"
  <2>1. CASE s = r /\ FileCommit(r)
    <3>1. req[r].app \in Apps /\ req'[r].app = req[r].app
      BY <1>1, <1>9, <2>1, FileCommitMoves
    <3>2. app'[req[r].app].status = "SUBMITTED"
      BY <2>1, <3>1 DEF FileCommit, TypeOK
    <3> QED
      BY <2>1, <3>1, <3>2
  <2>2. CASE s = r /\ ~FileCommit(r)
    <3>1. app[req'[r].app].status # "UNFILED"
      BY <1>4, <1>5, <1>9, <2>2, RequestMoves
      DEF Filing, PendingStatuses, BeginsFiling, ReadsPending, ReadsChanges, PassesPending,
          PassesPolicies
    <3> QED
      BY <1>1, <1>2, <1>9, <2>2, <3>1
  <2>3. CASE s # r
    BY <1>1, <1>2, <1>9, <2>3, OneRequestMoves
  <2> QED
    BY <2>1, <2>2, <2>3
<1> QED
  BY <1>7, <1>8, <1>9

\* A decision is written with its history row, by whoever claims the row first.
LEMMA DecidedStep ==
    ASSUME TypeOK, FilingIsPrivate, DecidedExactlyOnce, [Next]_vars
    PROVE  DecidedExactlyOnce'
<1> USE DEF DecidedExactlyOnce
<1>0. CASE UNCHANGED vars
  BY <1>0 DEF vars
<1> SUFFICES ASSUME NEW r \in Reqs, Continue(r) \/ \E a \in Apps : Start(r, a)
             PROVE  DecidedExactlyOnce'
  BY <1>0 DEF Next
<1>1. \A i \in DOMAIN history : history[i] \in HistoryRow
  BY DEF TypeOK
<1>2. \A i \in DOMAIN history : history[i].app \in Apps /\ history[i].decision \in Decided
  BY <1>1 DEF HistoryRow
<1>3. CASE UNCHANGED <<app, history>>
  BY <1>3
<1>4. CASE FileCommit(r) \/ OpenUpdate(r)
  <2>1. history' = history
    BY <1>4 DEF FileCommit, OpenUpdate
  <2>2. \A a \in Apps : app[a].status \in Decided => app'[a].status = app[a].status
    <3>1. FileCommit(r) => app[req[r].app].status = "UNFILED"
      BY DEF FileCommit, FilingIsPrivate, Filing
    <3> SUFFICES ASSUME NEW a \in Apps, app[a].status \in Decided
                 PROVE  app'[a].status = app[a].status
      OBVIOUS
    <3> QED
      BY <3>1, RowMoves DEF Decided, PendingStatuses
  <2>3. \A a \in Apps : app'[a].status \in Decided => app[a].status \in Decided
    <3>1. ~ApproveCommit(r) /\ ~RejectCommit(r)
      BY <1>4 DEF FileCommit, OpenUpdate, ApproveCommit, RejectCommit
    <3> SUFFICES ASSUME NEW a \in Apps, app'[a].status \in Decided
                 PROVE  app[a].status \in Decided
      OBVIOUS
    <3> QED
      BY <3>1, RowMoves DEF Decided
  <2> QED
    BY <1>2, <2>1, <2>2, <2>3
<1>5. ASSUME NEW decision \in Decided, NEW a \in Apps, app[a].status \in PendingStatuses,
             app' = [app EXCEPT ![a].status = decision],
             history' = Append(history, [app |-> a, decision |-> decision])
      PROVE  DecidedExactlyOnce'
  <2>1. /\ DOMAIN history' = 1..Len(history) + 1
        /\ DOMAIN history = 1..Len(history) /\ Len(history) \in Nat
        /\ \A i \in 1..Len(history) : history'[i] = history[i]
        /\ history'[Len(history) + 1] = [app |-> a, decision |-> decision]
    BY <1>5 DEF TypeOK
  <2>2. \A i \in 1..Len(history) : history[i].app # a
    BY <1>2, <1>5, <2>1 DEF Decided, PendingStatuses
  <2>3. /\ app'[a].status = decision
        /\ \A b \in Apps : b # a => app'[b] = app[b]
    BY <1>5 DEF TypeOK, ApplicationRow
  <2>4. \A i \in DOMAIN history' : app'[history'[i].app].status = history'[i].decision
    BY <1>2, <2>1, <2>2, <2>3
  <2>5. \A i, j \in DOMAIN history' : history'[i].app = history'[j].app => i = j
    BY <2>1, <2>2
  <2>6. \A b \in Apps : app'[b].status \in Decided =>
                          \E i \in DOMAIN history' : history'[i].app = b
    <3> SUFFICES ASSUME NEW b \in Apps, app'[b].status \in Decided
                 PROVE  \E i \in DOMAIN history' : history'[i].app = b
      OBVIOUS
    <3>1. CASE b = a
      BY <2>1, <3>1
    <3>2. CASE b # a
      <4>1. PICK i \in DOMAIN history : history[i].app = b
        BY <2>3, <3>2
      <4> QED
        BY <2>1, <4>1
    <3> QED
      BY <3>1, <3>2
  <2> QED
    BY <2>4, <2>5, <2>6
<1>6. CASE ApproveCommit(r)
  BY <1>5, <1>6 DEF ApproveCommit, Claimable, Decided, TypeOK, Unbound
<1>7. CASE RejectCommit(r)
  BY <1>5, <1>7 DEF RejectCommit, Claimable, Decided, TypeOK, Unbound
<1> QED
  BY <1>3, <1>4, <1>6, <1>7, WritersOnly

\* What ApproveCommit appends.
LEMMA IssueAppends ==
    ASSUME TypeOK, NEW r \in Reqs, ApproveCommit(r)
    PROVE  /\ DOMAIN policies = 1..Len(policies) /\ Len(policies) \in Nat
           /\ DOMAIN policies' = 1..(Len(policies) + 1)
           /\ \A i \in 1..Len(policies) : policies'[i] = policies[i]
           /\ policies'[Len(policies) + 1].app = req[r].app
           /\ policies'[Len(policies) + 1].assets = AssetsOf[req[r].app]
           /\ policies'[Len(policies) + 1].effective = req[r].from
           /\ policies'[Len(policies) + 1].expiry = req[r].to
           /\ policies'[Len(policies) + 1].status = "ACTIVE"
           /\ inLease' = inLease \cup {Len(policies) + 1}
           /\ req[r].pc = "approveCommit" /\ req[r].app \in Apps
           /\ app[req[r].app].status \in PendingStatuses
           /\ app'[req[r].app].status = "APPROVED"
           /\ \A a \in Apps : a # req[r].app => app'[a] = app[a]
           /\ req'[r].pc = "idle"
<1>1. req[r].app \in Apps
  BY DEF ApproveCommit, TypeOK, Unbound
<1>2. /\ app'[req[r].app].status = "APPROVED"
      /\ \A a \in Apps : a # req[r].app => app'[a] = app[a]
  BY <1>1 DEF ApproveCommit, TypeOK, ApplicationRow
<1>3. req'[r].pc = "idle"
  BY DEF ApproveCommit, Finish, Idle, TypeOK
<1> DEFINE row == [app |-> req[r].app, assets |-> AssetsOf[req[r].app],
                   effective |-> req[r].from, expiry |-> req[r].to,
                   detail |-> req[r].detail, status |-> "ACTIVE"]
<1>4. policies' = Append(policies, row) /\ inLease' = inLease \cup {Len(policies) + 1}
  BY DEF ApproveCommit, Issue, AssessmentDate
<1>5. policies \in Seq(PolicyRow)
  BY DEF TypeOK
<1> HIDE DEF row
<1>6. /\ DOMAIN policies = 1..Len(policies) /\ Len(policies) \in Nat
      /\ DOMAIN policies' = 1..(Len(policies) + 1)
      /\ \A i \in 1..Len(policies) : policies'[i] = policies[i]
      /\ policies'[Len(policies) + 1] = row
  BY <1>4, <1>5
<1>7. /\ row.app = req[r].app /\ row.assets = AssetsOf[req[r].app]
      /\ row.effective = req[r].from /\ row.expiry = req[r].to /\ row.status = "ACTIVE"
  BY DEF row
<1> QED
  BY <1>1, <1>2, <1>3, <1>4, <1>6, <1>7 DEF ApproveCommit, Claimable

\* A policy is inserted only with the transition to APPROVED.
LEMMA IssuedStep ==
    ASSUME TypeOK, FilingIsPrivate, IssuedExactlyOnce, [Next]_vars
    PROVE  IssuedExactlyOnce'
<1> USE DEF IssuedExactlyOnce
<1>0. CASE UNCHANGED vars
  BY <1>0 DEF vars
<1> SUFFICES ASSUME NEW r \in Reqs, Continue(r) \/ \E a \in Apps : Start(r, a)
             PROVE  IssuedExactlyOnce'
  BY <1>0 DEF Next
<1>1. CASE ~ApproveCommit(r)
  <2>1. policies' = policies /\ inLease' = inLease
    BY <1>1, WritersOnly DEF FileCommit, OpenUpdate, RejectCommit
  <2>2. FileCommit(r) => app[req[r].app].status = "UNFILED"
    BY DEF FileCommit, FilingIsPrivate, Filing
  <2>3. \A a \in Apps : app'[a].status = "APPROVED" <=> app[a].status = "APPROVED"
    <3> SUFFICES ASSUME NEW a \in Apps
                 PROVE  app'[a].status = "APPROVED" <=> app[a].status = "APPROVED"
      OBVIOUS
    <3> QED
      BY <1>1, <2>2, RowMoves DEF PendingStatuses
  <2> QED
    BY <2>1, <2>3
<1>2. CASE ApproveCommit(r)
  <2> DEFINE a == req[r].app
             n == Len(policies)
  <2>1. /\ DOMAIN policies = 1..n /\ n \in Nat
        /\ DOMAIN policies' = 1..(n + 1)
        /\ \A i \in 1..n : policies'[i] = policies[i]
        /\ policies'[n + 1].app = a
        /\ inLease' = inLease \cup {n + 1}
        /\ a \in Apps /\ app[a].status \in PendingStatuses
        /\ app'[a].status = "APPROVED"
        /\ \A b \in Apps : b # a => app'[b] = app[b]
    BY <1>2, IssueAppends
  <2> HIDE DEF a, n
  <2>2. \A i \in 1..n : policies[i].app # a
    BY <2>1 DEF PendingStatuses
  <2>3. ASSUME NEW b \in Apps
        PROVE  app'[b].status = "APPROVED" <=> \E i \in DOMAIN policies' : policies'[i].app = b
    <3>1. CASE b = a
      BY <2>1, <3>1
    <3>2. CASE b # a
      <4>1. app'[b].status = "APPROVED" <=> \E i \in 1..n : policies[i].app = b
        BY <2>1, <3>2
      <4>2. ASSUME NEW i \in 1..n, policies[i].app = b
            PROVE  i \in DOMAIN policies' /\ policies'[i].app = b
        BY <2>1, <4>2
      <4>3. ASSUME NEW i \in DOMAIN policies', policies'[i].app = b
            PROVE  i \in 1..n /\ policies[i].app = b
        BY <2>1, <3>2, <4>3
      <4> QED
        BY <4>1, <4>2, <4>3
    <3> QED
      BY <3>1, <3>2
  <2>4. ASSUME NEW i \in DOMAIN policies', NEW j \in DOMAIN policies',
               policies'[i].app = policies'[j].app
        PROVE  i = j
    <3>1. CASE i \in 1..n /\ j \in 1..n
      BY <2>1, <2>4, <3>1
    <3>2. CASE i = n + 1 \/ j = n + 1
      BY <2>1, <2>2, <2>4, <3>2
    <3> QED
      BY <2>1, <3>1, <3>2
  <2>5. inLease' = DOMAIN policies'
    BY <2>1
  <2> QED
    BY <2>3, <2>4, <2>5
<1> QED
  BY <1>1, <1>2

-----------------------------------------------------------------------------
(* The conflict rule, on policies that follow one another.                   *)

\* An asset with a policy has a latest one.
LEMMA LatestExists ==
    ASSUME TypeOK, PoliciesInOrder, NEW x, NEW i \in DOMAIN policies, x \in policies[i].assets
    PROVE  Latest(policies, x) # {}
<1> DEFINE n == Len(policies)
           S == {m \in Nat : m < n /\ x \in policies[n - m].assets}
<1>1. /\ n \in Nat /\ DOMAIN policies = 1..n
      /\ \A j \in 1..n : policies[j] \in PolicyRow
  BY DEF TypeOK
<1>2. \A j \in 1..n : policies[j].effective \in Nat /\ policies[j].expiry \in Nat
  BY <1>1 DEF PolicyRow
<1> HIDE DEF n
<1>3. n - i \in S
  BY <1>1
<1>s. S \in SUBSET Nat /\ S # {}
  BY <1>3
<1> HIDE DEF S
<1>4. PICK m \in S : \A k \in S : m <= k
  <2> DEFINE Smaller == OpToRel(<, Nat)
  <2>1. IsWellFoundedOn(Smaller, Nat)
    BY NatLessThanWellFounded
  <2>2. \A j, k \in Nat : k < j => <<k, j>> \in Smaller
    BY DEF OpToRel
  <2> HIDE DEF Smaller
  <2>3. PICK m \in S : \A k \in S : <<k, m>> \notin Smaller
    BY <1>s, <2>1, WFMin
  <2>4. \A k \in S : ~(k < m)
    BY <1>s, <2>2, <2>3
  <2>5. \A k \in S : m <= k
    BY <1>s, <2>4
  <2> QED
    BY <2>5
<1> USE DEF S
<1>5. n - m \in 1..n /\ x \in policies[n - m].assets
  BY <1>1, <1>4
<1>6. ASSUME NEW j \in 1..n, x \in policies[j].assets
      PROVE  policies[j].effective <= policies[n - m].effective
  <2>1. n - j \in S
    BY <1>1, <1>6
  <2>2. j <= n - m
    <3>1. m <= n - j
      BY <1>4, <2>1
    <3> QED
      BY <1>1, <1>4, <3>1
  <2>3. CASE j = n - m
    BY <1>2, <1>6, <2>3
  <2>4. CASE j < n - m
    <3>1. policies[j].assets \cap policies[n - m].assets # {}
      BY <1>5, <1>6
    <3>2. /\ policies[j].expiry <= policies[n - m].effective
          /\ policies[j].effective < policies[j].expiry
      BY <1>1, <1>5, <2>4, <3>1 DEF PoliciesInOrder
    <3> QED
      BY <1>2, <1>5, <3>2
  <2> QED
    BY <1>1, <1>5, <2>2, <2>3, <2>4
<1> QED
  BY <1>1, <1>5, <1>6 DEF Latest

\* Every policy of an asset has run out when its latest one has.
LEMMA LatestIsLast ==
    ASSUME TypeOK, PoliciesInOrder, NEW x, NEW k \in Latest(policies, x),
           NEW j \in DOMAIN policies, x \in policies[j].assets
    PROVE  policies[j].expiry <= policies[k].expiry
<1>1. /\ k \in DOMAIN policies /\ x \in policies[k].assets
      /\ policies[j].effective <= policies[k].effective
  BY DEF Latest
<1>2. DOMAIN policies \subseteq Int /\ policies[j] \in PolicyRow /\ policies[k] \in PolicyRow
  BY <1>1 DEF TypeOK
<1>3. /\ policies[j].expiry \in Nat /\ policies[k].expiry \in Nat
      /\ policies[j].effective \in Nat /\ policies[k].effective \in Nat
  BY <1>2 DEF PolicyRow
<1>4. policies[j].assets \cap policies[k].assets # {}
  BY <1>1
<1>5. /\ policies[k].effective < policies[k].expiry
      /\ j < k => policies[j].expiry <= policies[k].effective
      /\ k < j => policies[k].expiry <= policies[j].effective
  BY <1>1, <1>4 DEF PoliciesInOrder
<1>6. CASE j = k
  BY <1>3, <1>6
<1> QED
  BY <1>1, <1>2, <1>3, <1>5, <1>6

\* A start date the conflict rule lets pass has every policy of the assets
\* behind it, although the rule looks at the latest one only.
LEMMA PassIsClear ==
    ASSUME TypeOK, PoliciesInOrder, NEW assets, NEW start \in Nat,
           MayPass(policies, assets, start),
           NEW i \in DOMAIN policies, policies[i].assets \cap assets # {}
    PROVE  policies[i].expiry <= start
<1>1. PICK x \in assets : x \in policies[i].assets
  OBVIOUS
<1>2. Latest(policies, x) # {}
  BY <1>1, LatestExists
<1>3. PICK k \in Latest(policies, x) : ~Blocks(policies[k], start)
  BY <1>1, <1>2 DEF MayPass
<1>4. k \in DOMAIN policies
  BY DEF Latest
<1>5. policies[i] \in PolicyRow /\ policies[k] \in PolicyRow
  BY <1>4 DEF TypeOK
<1>6. policies[i].expiry \in Nat /\ policies[k].expiry \in Nat
  BY <1>5 DEF PolicyRow
<1>7. policies[k].status = "ACTIVE"
  BY <1>4 DEF PoliciesInOrder
<1>8. policies[k].expiry <= start
  BY <1>3, <1>6, <1>7 DEF Blocks
<1>9. policies[i].expiry <= policies[k].expiry
  BY <1>1, LatestIsLast
<1> QED
  BY <1>6, <1>8, <1>9

-----------------------------------------------------------------------------
(* Issued policies.                                                          *)

\* A request that is past the pending check after a step was past it before,
\* or is the one that has just passed.
LEMMA PassedBefore ==
    ASSUME TypeOK, TypeOK', FilingIsPrivate,
           NEW r \in Reqs, Continue(r) \/ \E a \in Apps : Start(r, a),
           NEW s \in Reqs, HasPassed(s)'
    PROVE  /\ req'[s].app = req[s].app
           /\ app[req[s].app].status \in PendingStatuses
           /\ HasPassed(s) \/ (s = r /\ PassesPending(r))
           /\ s # r => req'[s] = req[s]
           /\ s = r => PassesPending(r) \/ PassesPolicies(r)
<1>1. /\ req'[s].pc \in {"approvePolicies", "approveCommit"}
      /\ app'[req'[s].app].status \in PendingStatuses
  BY DEF HasPassed
<1>2. s # r => req'[s] = req[s]
  BY OneRequestMoves
<1>3. s = r => PassesPending(r) \/ PassesPolicies(r)
  BY <1>1, RequestMoves DEF BeginsFiling, ReadsPending, ReadsChanges
<1>4. /\ PassesPending(r) => req'[r].app = req[r].app /\ req[r].pc = "approvePending"
      /\ PassesPolicies(r) => req'[r].app = req[r].app /\ req[r].pc = "approvePolicies"
  BY DEF PassesPending, PassesPolicies, TypeOK, Request
<1>5. req'[s].app = req[s].app /\ req[s].pc \in {"approvePending", "approvePolicies", "approveCommit"}
  BY <1>1, <1>2, <1>3, <1>4
<1>6. req[s].app \in Apps /\ app[req[s].app].status # "UNFILED"
  BY <1>5 DEF TypeOK, FilingIsPrivate, Filing, Unbound
<1>7. FileCommit(r) => app[req[r].app].status = "UNFILED"
  BY DEF FileCommit, FilingIsPrivate, Filing
<1>8. app[req[s].app].status \in PendingStatuses
  BY <1>1, <1>5, <1>6, <1>7, RowMoves
<1> QED
  BY <1>1, <1>2, <1>3, <1>4, <1>5, <1>8 DEF HasPassed

\* Two applications of an asset cannot both get past the pending check.
LEMMA PassedStep ==
    ASSUME TypeOK, TypeOK', FilingIsPrivate, PassedIsExclusive, [Next]_vars
    PROVE  PassedIsExclusive'
<1>0. CASE UNCHANGED vars
  BY <1>0 DEF vars, PassedIsExclusive, HasPassed
<1> SUFFICES ASSUME NEW r \in Reqs, Continue(r) \/ \E a \in Apps : Start(r, a),
                    NEW s \in Reqs, NEW t \in Reqs, HasPassed(s)', HasPassed(t)',
                    req'[s].app # req'[t].app
             PROVE  AssetsOf[req'[s].app] \cap AssetsOf[req'[t].app] = {}
  BY <1>0 DEF Next, PassedIsExclusive
<1>1. /\ req'[s].app = req[s].app /\ req'[t].app = req[t].app
      /\ app[req[s].app].status \in PendingStatuses
      /\ app[req[t].app].status \in PendingStatuses
      /\ HasPassed(s) \/ (s = r /\ PassesPending(r))
      /\ HasPassed(t) \/ (t = r /\ PassesPending(r))
  BY PassedBefore
<1>2. req[s].app \in DOMAIN app /\ req[t].app \in DOMAIN app
  <2>1. req[s].pc \notin Unbound /\ req[t].pc \notin Unbound
    BY <1>1 DEF HasPassed, PassesPending, Unbound
  <2> QED
    BY <2>1 DEF TypeOK
<1>3. CASE HasPassed(s) /\ HasPassed(t)
  BY <1>1, <1>3 DEF PassedIsExclusive
<1>4. CASE s = r /\ PassesPending(r)
  BY <1>1, <1>2, <1>4 DEF PassesPending, HasPending
<1>5. CASE t = r /\ PassesPending(r)
  BY <1>1, <1>2, <1>5 DEF PassesPending, HasPending
<1> QED
  BY <1>1, <1>3, <1>4, <1>5

\* While a request is between its policy check and its commit, no policy of
\* its assets is issued.
LEMMA ClearStep ==
    ASSUME TypeOK, TypeOK', FilingIsPrivate, PassedIsExclusive, CheckedIsClear,
           PoliciesInOrder, [Next]_vars
    PROVE  CheckedIsClear'
<1>0. CASE UNCHANGED vars
  BY <1>0 DEF vars, CheckedIsClear, HasPassed
<1> SUFFICES ASSUME NEW r \in Reqs, Continue(r) \/ \E a \in Apps : Start(r, a),
                    NEW s \in Reqs, HasPassed(s)', req'[s].pc = "approveCommit",
                    NEW i \in DOMAIN policies', policies'[i].assets \cap AssetsOf[req'[s].app] # {}
             PROVE  policies'[i].expiry <= req'[s].from
  BY <1>0 DEF Next, CheckedIsClear
<1>1. /\ req'[s].app = req[s].app
      /\ HasPassed(s) \/ (s = r /\ PassesPending(r))
      /\ s # r => req'[s] = req[s]
      /\ s = r => PassesPending(r) \/ PassesPolicies(r)
  BY PassedBefore
<1>2. CASE s = r
  <2>1. PassesPolicies(r) /\ req'[r].from = req[r].from
    BY <1>1, <1>2 DEF PassesPending, PassesPolicies, TypeOK, Request
  <2>2. ~ApproveCommit(r)
    BY <1>2, IssueAppends
  <2>3. policies' = policies
    BY <2>2, WritersOnly DEF FileCommit, OpenUpdate, RejectCommit
  <2>4. req[r].from \in Nat
    BY DEF TypeOK, Request
  <2> QED
    BY <1>1, <1>2, <2>1, <2>3, <2>4, PassIsClear DEF PassesPolicies
<1>3. CASE s # r
  <2>1. req'[s] = req[s] /\ HasPassed(s) /\ req[s].pc = "approveCommit"
    BY <1>1, <1>3
  <2>2. CASE ~ApproveCommit(r)
    <3>1. policies' = policies
      BY <2>2, WritersOnly DEF FileCommit, OpenUpdate, RejectCommit
    <3> QED
      BY <2>1, <3>1 DEF CheckedIsClear
  <2>3. CASE ApproveCommit(r)
    <3>1. /\ DOMAIN policies = 1..Len(policies) /\ Len(policies) \in Nat
          /\ DOMAIN policies' = 1..(Len(policies) + 1)
          /\ \A j \in 1..Len(policies) : policies'[j] = policies[j]
          /\ policies'[Len(policies) + 1].assets = AssetsOf[req[r].app]
          /\ req[r].pc = "approveCommit"
          /\ app[req[r].app].status \in PendingStatuses
          /\ app'[req[r].app].status = "APPROVED"
      BY <2>3, IssueAppends
    <3>2. req[r].app # req[s].app
      BY <2>1, <3>1 DEF HasPassed, PendingStatuses
    <3>3. HasPassed(r)
      BY <3>1 DEF HasPassed
    <3>4. AssetsOf[req[r].app] \cap AssetsOf[req[s].app] = {}
      BY <2>1, <3>2, <3>3 DEF PassedIsExclusive
    <3>5. i \in 1..Len(policies)
      BY <2>1, <3>1, <3>4
    <3>6. policies'[i] = policies[i]
      BY <3>1, <3>5
    <3> QED
      BY <2>1, <3>1, <3>5, <3>6 DEF CheckedIsClear
  <2> QED
    BY <2>2, <2>3
<1> QED
  BY <1>2, <1>3

\* A policy is issued after every other policy of its assets has run out.
LEMMA OrderStep ==
    ASSUME TypeOK, PeriodsOK, CheckedIsClear, PoliciesInOrder, [Next]_vars
    PROVE  PoliciesInOrder'
<1>0. CASE UNCHANGED vars
  BY <1>0 DEF vars, PoliciesInOrder
<1> SUFFICES ASSUME NEW r \in Reqs, Continue(r) \/ \E a \in Apps : Start(r, a)
             PROVE  PoliciesInOrder'
  BY <1>0 DEF Next
<1>1. CASE ~ApproveCommit(r)
  <2>1. policies' = policies
    BY <1>1, WritersOnly DEF FileCommit, OpenUpdate, RejectCommit
  <2> QED
    BY <2>1 DEF PoliciesInOrder
<1>2. CASE ApproveCommit(r)
  <2> DEFINE n == Len(policies)
             q == req[r]
  <2>1. /\ DOMAIN policies = 1..n /\ n \in Nat
        /\ DOMAIN policies' = 1..(n + 1)
        /\ \A j \in 1..n : policies'[j] = policies[j]
        /\ policies'[n + 1].assets = AssetsOf[q.app]
        /\ policies'[n + 1].effective = q.from
        /\ policies'[n + 1].expiry = q.to
        /\ policies'[n + 1].status = "ACTIVE"
    BY <1>2, IssueAppends
  <2>2. q.from < q.to
    BY <1>2, IssueAppends DEF PeriodsOK
  <2>3. HasPassed(r) /\ q.pc = "approveCommit"
    BY <1>2, IssueAppends DEF HasPassed
  <2>4. \A i \in 1..n : policies[i].assets \cap AssetsOf[q.app] # {} => policies[i].expiry <= q.from
    BY <2>1, <2>3 DEF CheckedIsClear
  <2> HIDE DEF n, q
  <2>5. ASSUME NEW i \in DOMAIN policies'
        PROVE  policies'[i].status = "ACTIVE" /\ policies'[i].effective < policies'[i].expiry
    <3>1. CASE i \in 1..n
      BY <2>1, <3>1 DEF PoliciesInOrder
    <3>2. CASE i = n + 1
      BY <2>1, <2>2, <3>2
    <3> QED
      BY <2>1, <3>1, <3>2
  <2>6. ASSUME NEW i \in DOMAIN policies', NEW j \in DOMAIN policies', i < j,
               policies'[i].assets \cap policies'[j].assets # {}
        PROVE  policies'[i].expiry <= policies'[j].effective
    <3>1. CASE j \in 1..n
      <4>1. i \in 1..n
        BY <2>1, <2>6, <3>1
      <4> QED
        BY <2>1, <2>6, <3>1, <4>1 DEF PoliciesInOrder
    <3>2. CASE j = n + 1
      <4>1. i \in 1..n
        BY <2>1, <2>6, <3>2
      <4> QED
        BY <2>1, <2>4, <2>6, <3>2, <4>1
    <3> QED
      BY <2>1, <3>1, <3>2
  <2> QED
    BY <2>5, <2>6 DEF PoliciesInOrder
<1> QED
  BY <1>1, <1>2

-----------------------------------------------------------------------------
(* Assessment dates.                                                         *)

\* An approval still dates vehicles of its own application only.
LEMMA OwnStep ==
    ASSUME TypeOK, DatesItsOwn, [Next]_vars
    PROVE  DatesItsOwn'
<1>0. CASE UNCHANGED vars
  BY <1>0 DEF vars, DatesItsOwn
<1> SUFFICES ASSUME NEW r \in Reqs, Continue(r) \/ \E a \in Apps : Start(r, a),
                    NEW s \in Reqs, req'[s].pc \in Approving
             PROVE  req'[s].unassessed \subseteq VehiclesOf(req'[s].app)
  BY <1>0 DEF Next, DatesItsOwn
<1>1. CASE s = r /\ ReadsPending(r)
  BY <1>1 DEF ReadsPending, Approving, Unassessed
<1>2. CASE s # r \/ ReadsChanges(r) \/ PassesPending(r) \/ PassesPolicies(r)
  <2>1. /\ req'[s].app = req[s].app /\ req'[s].unassessed = req[s].unassessed
        /\ req[s].pc \in Approving
    <3>1. CASE s # r
      BY <3>1, OneRequestMoves
    <3>2. CASE s = r
      BY <1>2, <3>2 DEF ReadsChanges, PassesPending, PassesPolicies, Approving, TypeOK, Request
    <3> QED
      BY <3>1, <3>2
  <2> QED
    BY <2>1 DEF DatesItsOwn
<1> QED
  BY <1>1, <1>2, RequestMoves DEF Approving, BeginsFiling

\* What a request holds of a vehicle is nothing, what it held, or what it has
\* just read.
LEMMA VehicleRead ==
    ASSUME TypeOK, NEW r \in Reqs, Continue(r) \/ \E a \in Apps : Start(r, a),
           req'[r].vehicle # NoVehicle
    PROVE  \/ req'[r].vehicle = req[r].vehicle /\ req'[r].dated = req[r].dated
           \/ req'[r].vehicle \in Vehicles /\ req'[r].dated = assessed[req'[r].vehicle]
<1> USE DEF TypeOK
<1>1. ~Finish(r)
  BY DEF Finish, Idle
<1>2. ASSUME NEW q, q.vehicle = NoVehicle PROVE req' # [req EXCEPT ![r] = q]
  BY <1>2
<1>3. ASSUME NEW a \in Apps, Start(r, a) PROVE FALSE
  BY <1>2, <1>3 DEF Start, FileCheckPending, OpenRead, ChangeRead, ApproveRead,
                    ReadForApproval, RejectRead, Idle
<1>4. ASSUME NEW v \in Vehicles, FileTakeOver(r, v)
      PROVE  req'[r].vehicle \in Vehicles /\ req'[r].dated = assessed[req'[r].vehicle]
  BY <1>4 DEF FileTakeOver, Request
<1>5. ASSUME NEW v \in Vehicles, EditVehicleRead(r, v)
      PROVE  req'[r].vehicle \in Vehicles /\ req'[r].dated = assessed[req'[r].vehicle]
  <2>1. req'[r] = [Idle EXCEPT !.pc = "vehicleUpdate", !.vehicle = v, !.dated = assessed[v]]
    BY <1>5 DEF EditVehicleRead
  <2> QED
    BY <2>1 DEF Idle
<1>6. CASE FileCheckPolicies(r)
  BY <1>1, <1>6 DEF FileCheckPolicies, Request
<1>7. ~FileCommit(r)
  BY <1>1, <1>2 DEF FileCommit, Idle
<1>8. CASE ApproveReadChanges(r) \/ ApproveCheckPending(r) \/ ApproveCheckPolicies(r)
  BY <1>1, <1>8 DEF ApproveReadChanges, ApproveCheckPending, ApproveCheckPolicies, Goto, Request
<1> QED
  BY <1>1, <1>3, <1>4, <1>5, <1>6, <1>7, <1>8
  DEF Continue, OpenUpdate, ChangeDate, ChangeVehicle, ChangeRefused, AdminApproveRefused,
      ApproveCommit, RejectCommit, ClaimLost, EditVehicleUpdate, EditVehicleRefused

\* The date a vehicle has after a step: the one it had, the one a request wrote
\* back, or the inception of the policy just issued for it.
LEMMA DateWritten ==
    ASSUME TypeOK, DatesItsOwn, NEW r \in Reqs, Continue(r) \/ \E a \in Apps : Start(r, a),
           NEW v \in Vehicles
    PROVE  \/ assessed'[v] = assessed[v]
           \/ req[r].vehicle = v /\ assessed'[v] = req[r].dated
           \/ /\ ApproveCommit(r) /\ v \in AssetsOf[req[r].app]
              /\ assessed'[v] = req[r].from
<1>1. CASE RewriteVehicle(req[r])
  BY <1>1 DEF RewriteVehicle, TypeOK
<1>2. CASE FileCommit(r)
  BY <1>1, <1>2 DEF FileCommit
<1>3. CASE EditVehicleUpdate(r)
  BY <1>1, <1>3 DEF EditVehicleUpdate
<1>4. CASE ApproveCommit(r)
  <2>1. assessed'[v] = IF v \in req[r].unassessed THEN req[r].from ELSE assessed[v]
    BY <1>4 DEF ApproveCommit, Issue, AssessmentDate
  <2>2. req[r].unassessed \subseteq VehiclesOf(req[r].app)
    BY <1>4, IssueAppends DEF DatesItsOwn, Approving
  <2> QED
    BY <1>4, <2>1, <2>2 DEF VehiclesOf
<1>5. CASE ~FileCommit(r) /\ ~EditVehicleUpdate(r) /\ ~ApproveCommit(r)
  BY <1>5 DEF Continue, Start, FileCheckPending, OpenRead, ChangeRead, ApproveRead, RejectRead,
     FileCheckPolicies, ChangeDate, ChangeVehicle, ChangeRefused, AdminApproveRefused,
     ApproveReadChanges, ApproveCheckPending, ApproveCheckPolicies, ClaimLost, OpenUpdate,
     RejectCommit, FileTakeOver, EditVehicleRead, EditVehicleRefused
<1> QED
  BY <1>2, <1>3, <1>4, <1>5

\* Policies are only added, so an inception stays one, and an approval gives the
\* inception of the one it adds.
LEMMA InceptionStays ==
    ASSUME TypeOK, NEW r \in Reqs, Continue(r) \/ \E a \in Apps : Start(r, a)
    PROVE  /\ \A i \in DOMAIN policies : i \in DOMAIN policies' /\ policies'[i] = policies[i]
           /\ ApproveCommit(r) =>
                 \E i \in DOMAIN policies' : /\ policies'[i].assets = AssetsOf[req[r].app]
                                             /\ policies'[i].effective = req[r].from
<1>1. CASE ~ApproveCommit(r)
  <2>1. policies' = policies
    BY <1>1, WritersOnly DEF FileCommit, OpenUpdate, RejectCommit
  <2> QED
    BY <1>1, <2>1
<1>2. CASE ApproveCommit(r)
  BY <1>2, IssueAppends
<1> QED
  BY <1>1, <1>2

\* The dates on file and the dates in hand stay inceptions.
LEMMA InceptionsStep ==
    ASSUME TypeOK, DatesItsOwn, ReadDatesAreInceptions, AssessedAtInception, [Next]_vars
    PROVE  ReadDatesAreInceptions' /\ AssessedAtInception'
<1>0. CASE UNCHANGED vars
  BY <1>0 DEF vars, ReadDatesAreInceptions, AssessedAtInception, InceptionOrNone
<1> SUFFICES ASSUME NEW r \in Reqs, Continue(r) \/ \E a \in Apps : Start(r, a)
             PROVE  ReadDatesAreInceptions' /\ AssessedAtInception'
  BY <1>0 DEF Next
<1>1. \A v, date : InceptionOrNone(policies, v, date) => InceptionOrNone(policies', v, date)
  BY InceptionStays DEF InceptionOrNone
<1>2. \A v \in Vehicles : InceptionOrNone(policies', v, assessed[v])
  <2>1. \A v \in Vehicles : InceptionOrNone(policies, v, assessed[v])
    BY DEF AssessedAtInception, InceptionOrNone
  <2> QED
    BY <1>1, <2>1
<1>3. \A s \in Reqs :
         req[s].vehicle # NoVehicle => InceptionOrNone(policies', req[s].vehicle, req[s].dated)
  BY <1>1 DEF ReadDatesAreInceptions
<1>4. ASSUME NEW s \in Reqs, req'[s].vehicle # NoVehicle
      PROVE  InceptionOrNone(policies', req'[s].vehicle, req'[s].dated)
  <2>1. CASE s # r
    BY <1>3, <1>4, <2>1, OneRequestMoves
  <2>2. CASE s = r
    BY <1>2, <1>3, <1>4, <2>2, VehicleRead
  <2> QED
    BY <2>1, <2>2
<1>5. ASSUME NEW v \in Vehicles PROVE InceptionOrNone(policies', v, assessed'[v])
  <2>1. CASE assessed'[v] = assessed[v]
    BY <1>2, <2>1
  <2>2. CASE req[r].vehicle = v /\ assessed'[v] = req[r].dated
    BY <1>3, <2>2, ParametersAssumption
  <2>3. CASE ApproveCommit(r) /\ v \in AssetsOf[req[r].app] /\ assessed'[v] = req[r].from
    BY <2>3, InceptionStays DEF InceptionOrNone
  <2> QED
    BY <2>1, <2>2, <2>3, DateWritten
<1>6. ReadDatesAreInceptions'
  BY <1>4 DEF ReadDatesAreInceptions
<1>7. AssessedAtInception'
  BY <1>5 DEF AssessedAtInception, InceptionOrNone
<1> QED
  BY <1>6, <1>7

-----------------------------------------------------------------------------
(* Theorems.                                                                 *)

\* The invariant holds of an empty database.
LEMMA InitIInv == Init => IInv
<1> SUFFICES ASSUME Init PROVE IInv
  OBVIOUS
<1>1. TypeOK
  BY InitTypeOK
<1>2. \A r \in Reqs : req[r].pc = "idle"
  BY IdleType DEF Init
<1>3. \A a \in Apps : app[a].status = "UNFILED"
  BY DEF Init
<1>4. /\ policies = << >> /\ history = << >> /\ inLease = {}
      /\ assessed = [v \in Vehicles |-> NotAssessed]
  BY DEF Init
<1>5. PeriodsOK /\ FilingIsPrivate /\ DatesItsOwn /\ ReadDatesAreInceptions
  <2>1. \A r \in Reqs : req[r].vehicle = NoVehicle
    BY IdleType DEF Init
  <2> QED
    BY <1>2, <1>3, <2>1
    DEF PeriodsOK, FilingIsPrivate, DatesItsOwn, ReadDatesAreInceptions, Filing, Approving, Unbound
<1>6. PassedIsExclusive /\ CheckedIsClear
  BY <1>2 DEF PassedIsExclusive, CheckedIsClear, HasPassed
<1>7. PoliciesInOrder /\ IssuedExactlyOnce /\ AssessedAtInception
  BY <1>3, <1>4 DEF PoliciesInOrder, IssuedExactlyOnce, AssessedAtInception
<1>8. DecidedExactlyOnce
  BY <1>3, <1>4 DEF DecidedExactlyOnce, Decided
<1> QED
  BY <1>1, <1>5, <1>6, <1>7, <1>8 DEF IInv

\* Every step preserves the invariant: each part from the parts it needs.
LEMMA StepIInv == IInv /\ [Next]_vars => IInv'
<1> SUFFICES ASSUME IInv, [Next]_vars PROVE IInv'
  OBVIOUS
<1> USE DEF IInv
<1>1. TypeOK'
  BY TypeOKStep
<1>2. PeriodsOK' /\ FilingIsPrivate'
  BY <1>1, PeriodsStep, FilingStep
<1>3. IssuedExactlyOnce' /\ DecidedExactlyOnce'
  BY IssuedStep, DecidedStep
<1>4. PassedIsExclusive' /\ CheckedIsClear' /\ PoliciesInOrder'
  BY <1>1, PassedStep, ClearStep, OrderStep
<1>5. DatesItsOwn' /\ ReadDatesAreInceptions' /\ AssessedAtInception'
  BY OwnStep, InceptionsStep
<1> QED
  BY <1>1, <1>2, <1>3, <1>4, <1>5

\* The invariant holds in every reachable state.
THEOREM Invariance == Spec => []IInv
BY InitIInv, StepIInv, PTL DEF Spec

\* Every table and every request holds values of its columns, whatever the
\* interleaving of the handlers of the two route files.
THEOREM TypeCorrect == Spec => []TypeOK
<1>1. IInv => TypeOK
  BY DEF IInv
<1> QED
  BY <1>1, Invariance, PTL

\* However many approvals and rejections of an application race, it is
\* APPROVED exactly when one policy was issued for it, and every policy has its
\* in-lease row: the claim inside approveApplicationRecord's transaction.
THEOREM IssuedOnce == Spec => []IssuedExactlyOnce
<1>1. IInv => IssuedExactlyOnce
  BY DEF IInv
<1> QED
  BY <1>1, Invariance, PTL

\* The ApprovalHistory has one row for a decided application, with the decision
\* its status shows, and none for an undecided one.
THEOREM DecidedOnce == Spec => []DecidedExactlyOnce
<1>1. IInv => DecidedExactlyOnce
  BY DEF IInv
<1> QED
  BY <1>1, Invariance, PTL

\* Whatever requests race, the application, the policy with its in-lease row and
\* the ApprovalHistory tell the same outcome, and tell it once.
THEOREM OutcomeOnce == Spec => []OutcomeIsRecordedOnce
BY IssuedOnce, DecidedOnce, PTL DEF OutcomeIsRecordedOnce

\* As long as nothing is cancelled, no asset is ever insured twice on the same
\* day: the re-check of the conflict rule at approval closes every race left
\* open by the check at filing.
THEOREM NoDoubleCover == Spec => []ExclusiveCover
<1>1. ASSUME TypeOK, PoliciesInOrder PROVE ExclusiveCover
  <2>1. DOMAIN policies \subseteq Int
    BY <1>1 DEF TypeOK
  <2> QED
    BY <1>1, <2>1 DEF PoliciesInOrder, ExclusiveCover
<1>2. IInv => ExclusiveCover
  BY <1>1 DEF IInv
<1> QED
  BY <1>2, Invariance, PTL

\* The date a vehicle depreciates from is the inception of one of its policies,
\* whatever approvals, edits and filings that take it over write back from what
\* they read before.
THEOREM DatedAtInception == Spec => []AssessedAtInception
<1>1. IInv => AssessedAtInception
  BY DEF IInv
<1> QED
  BY <1>1, Invariance, PTL

\* A decided application keeps its decision and its filed period, even from the
\* requests that read it while it was pending.
THEOREM DecisionStays == Spec => DecisionIsFinal
<1>1. ASSUME IInv, [Next]_vars
      PROVE  [\A a \in Apps : app[a].status \in Decided => app'[a] = app[a]]_vars
  <2>1. CASE UNCHANGED vars
    BY <2>1
  <2> SUFFICES ASSUME NEW r \in Reqs, Continue(r) \/ \E a \in Apps : Start(r, a),
                      NEW a \in Apps, app[a].status \in Decided
               PROVE  app'[a] = app[a]
    BY <1>1, <2>1 DEF Next
  <2>2. FileCommit(r) => app[req[r].app].status = "UNFILED"
    BY <1>1 DEF IInv, FileCommit, FilingIsPrivate, Filing
  <2>3. TypeOK
    BY <1>1 DEF IInv
  <2> QED
    BY <2>2, <2>3, RowMoves DEF Decided, PendingStatuses
<1> QED
  BY <1>1, Invariance, PTL DEF Spec, DecisionIsFinal

================================================================================
