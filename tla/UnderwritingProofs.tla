--------------------------- MODULE UnderwritingProofs ---------------------------
(***************************************************************************)
(* That the handlers of PolicyApproval implement Underwriting, the periods *)
(* and debts that rests on, and what is left of it once policies are       *)
(* cancelled (PolicyLifecycle), for any number of applications, assets,    *)
(* requests and changes.  Then what the endorsements of a policy make it     *)
(* say (EndorsedPolicy), for any number of them.                             *)
(***************************************************************************)
EXTENDS EndorsedPolicy, PolicyLifecycle, PolicyApprovalProofs, Sums

-----------------------------------------------------------------------------
(* The inductive invariant of PolicyApprovalProofs, and what it leaves out:  *)
(* where the dates of a period come from.                                    *)

\* Every date on file or in hand is one a filing or a change may ask for, and
\* every period in hand has a length a filing may ask for.
DatesOffered ==
    /\ \A a \in Apps : app[a].status # "UNFILED" =>
          app[a].start \in Dates /\ app[a].end - app[a].start \in Lengths
    /\ \A a \in Apps : \A i \in DOMAIN changes[a] :
          changes[a][i].type = "INSURED_FROM_DATE" => changes[a][i].to \in Dates
    /\ \A r \in Reqs : req[r].pc \in Filing \cup Approving =>
          req[r].from \in Dates /\ req[r].to - req[r].from \in Lengths

\* The date an application's log asked for after one of its changes, or before
\* the first.
AskedFor(a) == {EffectiveDate(app[a].start, SubSeq(changes[a], 1, n)) : n \in 0..Len(changes[a])}

\* An approval holds the filed period until it reads the log, and from then on
\* one as long that starts where the log, or a prefix of it, asks.
PeriodIsAskedFor ==
    \A r \in Reqs : req[r].pc \in Approving =>
        LET a == req[r].app
        IN  /\ req[r].to - req[r].from = app[a].end - app[a].start
            /\ req[r].pc = "approveChanges" => req[r].from = app[a].start
            /\ req[r].pc # "approveChanges" => req[r].from \in AskedFor(a)

\* A policy insures the assets of the application it was issued for.
PoliciesInsureTheirAssets ==
    \A i \in DOMAIN policies : policies[i].assets = AssetsOf[policies[i].app]

PeriodInv == /\ IInv
             /\ DatesOffered
             /\ PeriodIsAskedFor
             /\ PoliciesInsureTheirAssets
             /\ PeriodFollowsChanges

-----------------------------------------------------------------------------
(* The change logs.                                                          *)

\* A log that grows keeps its prefixes.
LEMMA PrefixStays ==
    ASSUME NEW S, NEW log \in Seq(S), NEW row \in S, NEW n \in 0..Len(log)
    PROVE  SubSeq(Append(log, row), 1, n) = SubSeq(log, 1, n)
OBVIOUS

\* The first Len(log) changes of a log are the log.
LEMMA WholeLog ==
    ASSUME NEW S, NEW log \in Seq(S)
    PROVE  SubSeq(log, 1, Len(log)) = log
OBVIOUS

\* The date a log asks for is the filed one or that of one of its changes.
LEMMA EffectiveDateOffered ==
    ASSUME NEW start \in Dates, NEW log \in Seq(ChangeRow),
           \A i \in DOMAIN log : log[i].type = "INSURED_FROM_DATE" => log[i].to \in Dates
    PROVE  EffectiveDate(start, log) \in Dates
<1>1. CASE LastDateChange(log) = {}
  BY <1>1 DEF EffectiveDate
<1>2. CASE LastDateChange(log) # {}
  <2>1. PICK i \in LastDateChange(log) : i = CHOOSE k \in LastDateChange(log) : TRUE
    BY <1>2
  <2>2. log[i].to \in Dates
    BY <2>1 DEF LastDateChange
  <2> QED
    BY <1>2, <2>1, <2>2 DEF EffectiveDate
<1> QED
  BY <1>1, <1>2

\* A step leaves a log alone or appends one change to it, a date among those
\* a change may ask for.
LEMMA LogMoves ==
    ASSUME TypeOK, NEW r \in Reqs, Continue(r) \/ \E a \in Apps : Start(r, a), NEW a \in Apps
    PROVE  \/ changes'[a] = changes[a]
           \/ \E row \in ChangeRow :
                 /\ changes'[a] = Append(changes[a], row)
                 /\ row.type = "INSURED_FROM_DATE" => row.to \in Dates
<1>1. ASSUME NEW d \in Dates, ChangeDate(r, d)
      PROVE  \/ changes'[a] = changes[a]
             \/ \E row \in ChangeRow :
                   /\ changes'[a] = Append(changes[a], row)
                   /\ row.type = "INSURED_FROM_DATE" => row.to \in Dates
  <2>1. [type |-> "INSURED_FROM_DATE", to |-> d] \in ChangeRow
    BY ParametersAssumption DEF ChangeRow
  <2> QED
    BY <1>1, <2>1 DEF ChangeDate, TypeOK
<1>2. ASSUME NEW v \in Vehicles, NEW x \in Details, ChangeVehicle(r, v, x)
      PROVE  \/ changes'[a] = changes[a]
             \/ \E row \in ChangeRow :
                   /\ changes'[a] = Append(changes[a], row)
                   /\ row.type = "INSURED_FROM_DATE" => row.to \in Dates
  <2>1. [type |-> "VEHICLE", vehicle |-> v, to |-> x] \in ChangeRow
    BY DEF ChangeRow
  <2> QED
    BY <1>2, <2>1 DEF ChangeVehicle, TypeOK
<1> QED
  BY <1>1, <1>2 DEF Continue, Start, FileCheckPending, OpenRead, ChangeRead, ApproveRead,
     RejectRead, FileCheckPolicies, FileCommit, OpenUpdate, ChangeRefused,
     AdminApproveRefused, ApproveReadChanges, ApproveCheckPending, ApproveCheckPolicies,
     ApproveCommit, RejectCommit, ClaimLost,
     FileTakeOver, EditVehicleRead, EditVehicleUpdate, EditVehicleRefused

\* A date the log of a filed application once asked for stays one it asked for.
LEMMA AskedForStays ==
    ASSUME TypeOK, FilingIsPrivate, NEW r \in Reqs,
           Continue(r) \/ \E a \in Apps : Start(r, a),
           NEW a \in Apps, app[a].status # "UNFILED"
    PROVE  /\ AskedFor(a) \subseteq AskedFor(a)'
           /\ app'[a].start = app[a].start /\ app'[a].end = app[a].end
<1>1. app'[a].start = app[a].start /\ app'[a].end = app[a].end
  <2>1. FileCommit(r) => app[req[r].app].status = "UNFILED"
    BY DEF FilingIsPrivate, Filing, FileCommit
  <2> QED
    BY <2>1, RowMoves
<1>2. changes[a] \in Seq(ChangeRow)
  BY DEF TypeOK
<1>3. CASE changes'[a] = changes[a]
  BY <1>1, <1>3 DEF AskedFor
<1>4. ASSUME NEW row \in ChangeRow, changes'[a] = Append(changes[a], row)
      PROVE  AskedFor(a) \subseteq AskedFor(a)'
  <2> SUFFICES ASSUME NEW n \in 0..Len(changes[a])
               PROVE  \E m \in 0..Len(changes'[a]) :
                         EffectiveDate(app[a].start, SubSeq(changes[a], 1, n)) =
                         EffectiveDate(app'[a].start, SubSeq(changes'[a], 1, m))
    BY DEF AskedFor
  <2>1. SubSeq(changes'[a], 1, n) = SubSeq(changes[a], 1, n)
    BY <1>2, <1>4, PrefixStays
  <2>2. n \in 0..Len(changes'[a])
    BY <1>2, <1>4
  <2> QED
    BY <1>1, <2>1, <2>2
<1> QED
  BY <1>1, <1>3, <1>4, LogMoves

-----------------------------------------------------------------------------
(* The periods in hand.                                                      *)

\* How the period of a request that files or approves comes to be: asked for
\* by the filing, read with the application, moved to the date of the log, or
\* kept.
AsksFor(r) ==
    /\ req'[r].pc = "filePolicies"
    /\ req'[r].from \in Dates /\ req'[r].to - req'[r].from \in Lengths

ReadsPeriod(r) ==
    /\ req'[r].pc = "approveChanges"
    /\ req'[r].app \in Apps /\ app[req'[r].app].status \in PendingStatuses
    /\ req'[r].from = app[req'[r].app].start /\ req'[r].to = app[req'[r].app].end

MovesPeriod(r) ==
    /\ req[r].pc = "approveChanges" /\ req'[r].pc = "approvePending"
    /\ req'[r].app = req[r].app
    /\ req'[r].from = EffectiveDate(req[r].from, changes[req[r].app])
    /\ req'[r].to - req'[r].from = req[r].to - req[r].from

KeepsPeriod(r) ==
    /\ \/ req[r].pc \in Filing /\ req'[r].pc \in Filing
       \/ /\ req[r].pc \in Approving \ {"approveChanges"}
          /\ req'[r].pc \in Approving \ {"approveChanges"}
    /\ req'[r].app = req[r].app /\ req'[r].from = req[r].from /\ req'[r].to = req[r].to

\* A request in one of those steps took one of those ways there.
LEMMA PeriodMoves ==
    ASSUME TypeOK, PeriodsOK, NEW r \in Reqs, Continue(r) \/ \E a \in Apps : Start(r, a),
           req'[r].pc \in Filing \cup Approving
    PROVE  AsksFor(r) \/ ReadsPeriod(r) \/ MovesPeriod(r) \/ KeepsPeriod(r)
<1> USE DEF TypeOK, Filing, Approving
<1>1. ~Finish(r)
  BY DEF Finish, Idle
<1>2. ASSUME NEW a \in Apps, Start(r, a)
      PROVE  AsksFor(r) \/ ReadsPeriod(r)
  <2>1. ASSUME NEW d \in Dates, NEW n \in Lengths,
               NEW p \in {0} \cup DOMAIN policies, FileCheckPending(r, a, d, n, p)
        PROVE  AsksFor(r)
    <3>1. d \in Nat /\ n \in Nat
      BY ParametersAssumption
    <3>2. req'[r].pc = "filePolicies" /\ req'[r].from = d /\ req'[r].to = d + n
      BY <2>1 DEF FileCheckPending, Idle
    <3> QED
      BY <3>1, <3>2 DEF AsksFor
  <2>2. CASE OpenRead(r, a) \/ ChangeRead(r, a) \/ RejectRead(r, a)
    BY <2>2 DEF OpenRead, ChangeRead, RejectRead, Idle
  <2>3. CASE ApproveRead(r, a)
    BY <2>3 DEF ApproveRead, ReadForApproval, Idle, ReadsPeriod
  <2> QED
    BY <1>2, <2>1, <2>2, <2>3 DEF Start
<1>3. CASE FileCheckPolicies(r)
  BY <1>1, <1>3 DEF FileCheckPolicies, Request, KeepsPeriod
<1>t. ASSUME NEW v \in Vehicles, FileTakeOver(r, v) PROVE KeepsPeriod(r)
  BY <1>t DEF FileTakeOver, Request, KeepsPeriod
<1>v. ~\E v \in Vehicles : EditVehicleRead(r, v)
  BY DEF EditVehicleRead, Idle
<1>4. CASE FileCommit(r)
  BY <1>4, FileCommitMoves
<1>5. CASE ApproveReadChanges(r)
  <2> DEFINE effective == EffectiveDate(req[r].from, changes[req[r].app])
  <2>1. req[r].app \in Apps /\ req[r].from \in Nat /\ req[r].to \in Nat /\ req[r].from < req[r].to
    BY <1>5 DEF ApproveReadChanges, Request, PeriodsOK, Unbound
  <2>2. effective \in Nat
    BY <2>1, EffectiveDateType
  <2>3. /\ req[r].pc = "approveChanges" /\ req'[r].pc = "approvePending"
        /\ req'[r].app = req[r].app /\ req'[r].from = effective
        /\ req'[r].to = effective + (req[r].to - req[r].from)
    BY <1>5 DEF ApproveReadChanges, ShiftedEnd, Request
  <2>4. req'[r].to - req'[r].from = req[r].to - req[r].from
    <3> HIDE DEF effective
    <3> QED
      BY <2>1, <2>2, <2>3
  <2> QED
    BY <2>3, <2>4 DEF MovesPeriod
<1>6. CASE ApproveCheckPending(r) \/ ApproveCheckPolicies(r)
  BY <1>1, <1>6 DEF ApproveCheckPending, ApproveCheckPolicies, Goto, KeepsPeriod, Request
<1> QED
  BY <1>1, <1>2, <1>3, <1>t, <1>v, <1>4, <1>5, <1>6
  DEF Continue, OpenUpdate, ChangeDate, ChangeVehicle, ChangeRefused, AdminApproveRefused,
      ApproveCommit, RejectCommit, ClaimLost, EditVehicleUpdate, EditVehicleRefused

\* No date is invented: what is filed, recorded and issued was asked for.
LEMMA DatesStep ==
    ASSUME TypeOK, TypeOK', PeriodsOK, FilingIsPrivate, DatesOffered, [Next]_vars
    PROVE  DatesOffered'
<1>0. CASE UNCHANGED vars
  BY <1>0 DEF vars, DatesOffered
<1> SUFFICES ASSUME NEW r \in Reqs, Continue(r) \/ \E a \in Apps : Start(r, a)
             PROVE  DatesOffered'
  BY <1>0 DEF Next
<1>1. ASSUME NEW a \in Apps, app'[a].status # "UNFILED"
      PROVE  app'[a].start \in Dates /\ app'[a].end - app'[a].start \in Lengths
  <2>1. CASE FileCommit(r) /\ a = req[r].app
    <3>1. req[r].pc \in Filing
      BY <2>1 DEF FileCommit, Filing
    <3>2. app'[a].start = req[r].from /\ app'[a].end = req[r].to
      BY <2>1 DEF FileCommit, TypeOK
    <3> QED
      BY <3>1, <3>2 DEF DatesOffered
  <2>2. CASE ~(FileCommit(r) /\ a = req[r].app)
    BY <1>1, <2>2, RowMoves DEF DatesOffered, PendingStatuses
  <2> QED
    BY <2>1, <2>2
<1>2. ASSUME NEW a \in Apps, NEW i \in DOMAIN changes'[a],
             changes'[a][i].type = "INSURED_FROM_DATE"
      PROVE  changes'[a][i].to \in Dates
  <2>1. changes[a] \in Seq(ChangeRow)
    BY DEF TypeOK
  <2>2. CASE changes'[a] = changes[a]
    BY <1>2, <2>2 DEF DatesOffered
  <2>3. ASSUME NEW row \in ChangeRow, changes'[a] = Append(changes[a], row),
               row.type = "INSURED_FROM_DATE" => row.to \in Dates
        PROVE  changes'[a][i].to \in Dates
    <3>1. \/ i \in DOMAIN changes[a] /\ changes'[a][i] = changes[a][i]
          \/ changes'[a][i] = row
      BY <2>1, <2>3
    <3> QED
      BY <1>2, <2>3, <3>1 DEF DatesOffered
  <2> QED
    BY <2>2, <2>3, LogMoves
<1>3. ASSUME NEW s \in Reqs, req'[s].pc \in Filing \cup Approving
      PROVE  req'[s].from \in Dates /\ req'[s].to - req'[s].from \in Lengths
  <2>1. CASE s # r
    BY <1>3, <2>1, OneRequestMoves DEF DatesOffered
  <2>2. CASE s = r
    <3>1. CASE AsksFor(r)
      BY <2>2, <3>1 DEF AsksFor
    <3>2. CASE ReadsPeriod(r)
      BY <2>2, <3>2 DEF ReadsPeriod, DatesOffered, PendingStatuses
    <3>3. CASE MovesPeriod(r)
      <4>1. req[r].app \in Apps /\ req[r].from \in Dates /\ req[r].to - req[r].from \in Lengths
        BY <3>3 DEF MovesPeriod, DatesOffered, Approving, TypeOK, Unbound
      <4>2. EffectiveDate(req[r].from, changes[req[r].app]) \in Dates
        BY <4>1, EffectiveDateOffered DEF DatesOffered, TypeOK
      <4> QED
        BY <2>2, <3>3, <4>1, <4>2 DEF MovesPeriod
    <3>4. CASE KeepsPeriod(r)
      BY <2>2, <3>4 DEF KeepsPeriod, DatesOffered
    <3> QED
      BY <1>3, <2>2, <3>1, <3>2, <3>3, <3>4, PeriodMoves
  <2> QED
    BY <2>1, <2>2
<1> QED
  BY <1>1, <1>2, <1>3 DEF DatesOffered

\* An approval keeps the length applied for, and the start the log asked for
\* when it was read, while the log grows under it.
LEMMA AskedStep ==
    ASSUME TypeOK, TypeOK', PeriodsOK, FilingIsPrivate, PeriodIsAskedFor, [Next]_vars
    PROVE  PeriodIsAskedFor'
<1>0. CASE UNCHANGED vars
  BY <1>0 DEF vars, PeriodIsAskedFor, AskedFor
<1> SUFFICES ASSUME NEW r \in Reqs, Continue(r) \/ \E a \in Apps : Start(r, a),
                    NEW s \in Reqs, req'[s].pc \in Approving,
                    NEW a \in Apps, a = req'[s].app
             PROVE  /\ req'[s].to - req'[s].from = app'[a].end - app'[a].start
                    /\ req'[s].pc = "approveChanges" => req'[s].from = app'[a].start
                    /\ req'[s].pc # "approveChanges" => req'[s].from \in AskedFor(a)'
  <2>1. \A s \in Reqs : req'[s].pc \in Approving => req'[s].app \in Apps
    BY DEF TypeOK, Approving, Unbound
  <2> QED
    BY <1>0, <2>1 DEF Next, PeriodIsAskedFor
<1>2. app[a].status # "UNFILED" =>
         /\ AskedFor(a) \subseteq AskedFor(a)'
         /\ app'[a].start = app[a].start /\ app'[a].end = app[a].end
  BY AskedForStays
<1>3. CASE s = r /\ ReadsPeriod(r)
  BY <1>2, <1>3 DEF ReadsPeriod, PendingStatuses
<1>4. CASE s = r /\ MovesPeriod(r)
  <2>1. req[r].pc \in Approving /\ req[r].app = a /\ app[a].status # "UNFILED"
    BY <1>4 DEF MovesPeriod, Approving, FilingIsPrivate, Filing, Unbound
  <2>2. /\ req[r].to - req[r].from = app[a].end - app[a].start
        /\ req[r].from = app[a].start
    BY <1>4, <2>1 DEF MovesPeriod, PeriodIsAskedFor
  <2>3. EffectiveDate(app[a].start, changes[a]) \in AskedFor(a)
    <3>1. changes[a] \in Seq(ChangeRow)
      BY DEF TypeOK
    <3>2. SubSeq(changes[a], 1, Len(changes[a])) = changes[a] /\ Len(changes[a]) \in 0..Len(changes[a])
      BY <3>1, WholeLog
    <3> QED
      BY <3>2 DEF AskedFor
  <2> QED
    BY <1>2, <1>4, <2>1, <2>2, <2>3 DEF MovesPeriod
<1>5. CASE s # r \/ KeepsPeriod(r)
  <2>1. /\ req[s].pc \in Approving /\ req[s].app = a
        /\ req'[s].from = req[s].from /\ req'[s].to = req[s].to
        /\ req'[s].pc = "approveChanges" <=> req[s].pc = "approveChanges"
    <3>1. CASE s # r
      BY <3>1, OneRequestMoves
    <3>2. CASE s = r
      BY <1>5, <3>2 DEF KeepsPeriod, Approving, Filing
    <3> QED
      BY <3>1, <3>2
  <2>2. app[a].status # "UNFILED"
    BY <2>1 DEF Approving, Filing, FilingIsPrivate, Unbound
  <2> QED
    BY <1>2, <2>1, <2>2 DEF PeriodIsAskedFor
<1> QED
  BY <1>3, <1>4, <1>5, PeriodMoves DEF AsksFor, Approving

-----------------------------------------------------------------------------
(* The policies.                                                             *)

\* A policy is issued with the assets of its application and the period its
\* request holds, and neither is touched again.
LEMMA PolicyPeriodsStep ==
    ASSUME TypeOK, TypeOK', FilingIsPrivate, PeriodIsAskedFor, IssuedExactlyOnce,
           PoliciesInsureTheirAssets, PeriodFollowsChanges, [Next]_vars
    PROVE  PoliciesInsureTheirAssets' /\ PeriodFollowsChanges'
<1>0. CASE UNCHANGED vars
  BY <1>0 DEF vars, PoliciesInsureTheirAssets, PeriodFollowsChanges
<1>a. \A i \in DOMAIN policies' : policies'[i].app \in Apps
  <2>1. \A i \in DOMAIN policies' : policies'[i] \in PolicyRow
    BY DEF TypeOK
  <2> QED
    BY <2>1 DEF PolicyRow
<1> SUFFICES ASSUME NEW r \in Reqs, Continue(r) \/ \E a \in Apps : Start(r, a),
                    NEW i \in DOMAIN policies', NEW a \in Apps, a = policies'[i].app
             PROVE  /\ policies'[i].assets = AssetsOf[a]
                    /\ policies'[i].expiry - policies'[i].effective = app'[a].end - app'[a].start
                    /\ policies'[i].effective \in AskedFor(a)'
  BY <1>0, <1>a DEF Next, PoliciesInsureTheirAssets, PeriodFollowsChanges, AskedFor
<1>1. app[a].status # "UNFILED" =>
         /\ AskedFor(a) \subseteq AskedFor(a)'
         /\ app'[a].start = app[a].start /\ app'[a].end = app[a].end
  BY AskedForStays
<1>2. CASE i \in DOMAIN policies /\ policies'[i] = policies[i]
  <2>1. app[a].status = "APPROVED"
    BY <1>2 DEF IssuedExactlyOnce
  <2>2. policies[i].effective \in AskedFor(a)
    BY <1>2 DEF PeriodFollowsChanges, AskedFor
  <2> QED
    BY <1>1, <1>2, <2>1, <2>2 DEF PoliciesInsureTheirAssets, PeriodFollowsChanges
<1>3. CASE ApproveCommit(r) /\ i = Len(policies) + 1
  <2>1. /\ policies'[i].app = req[r].app /\ policies'[i].assets = AssetsOf[req[r].app]
        /\ policies'[i].effective = req[r].from /\ policies'[i].expiry = req[r].to
        /\ req[r].pc = "approveCommit" /\ app[req[r].app].status \in PendingStatuses
    BY <1>3, IssueAppends
  <2>2. a = req[r].app /\ app[a].status # "UNFILED"
    BY <2>1 DEF PendingStatuses
  <2>3. req[r].to - req[r].from = app[a].end - app[a].start /\ req[r].from \in AskedFor(a)
    BY <2>1, <2>2 DEF PeriodIsAskedFor, Approving
  <2> QED
    BY <1>1, <2>1, <2>2, <2>3
<1>4. CASE ~ApproveCommit(r)
  BY <1>2, <1>4, WritersOnly DEF FileCommit, OpenUpdate, RejectCommit
<1>5. ApproveCommit(r) => (i \in DOMAIN policies /\ policies'[i] = policies[i]) \/ i = Len(policies) + 1
  BY IssueAppends
<1> QED
  BY <1>2, <1>3, <1>4, <1>5

-----------------------------------------------------------------------------
(* Theorems.                                                                 *)

\* The invariant holds of an empty database.
LEMMA InitPeriodInv == Init => PeriodInv
<1> SUFFICES ASSUME Init PROVE PeriodInv
  OBVIOUS
<1>1. \A r \in Reqs : req[r].pc = "idle"
  BY IdleType DEF Init
<1>2. /\ \A a \in Apps : app[a].status = "UNFILED" /\ changes[a] = << >>
      /\ policies = << >>
  BY DEF Init
<1>3. DatesOffered /\ PeriodIsAskedFor
  BY <1>1, <1>2 DEF DatesOffered, PeriodIsAskedFor, Filing, Approving
<1>4. PoliciesInsureTheirAssets /\ PeriodFollowsChanges
  BY <1>2 DEF PoliciesInsureTheirAssets, PeriodFollowsChanges
<1> QED
  BY <1>3, <1>4, InitIInv DEF PeriodInv

\* Every step preserves the invariant.
LEMMA StepPeriodInv == PeriodInv /\ [Next]_vars => PeriodInv'
<1> SUFFICES ASSUME PeriodInv, [Next]_vars PROVE PeriodInv'
  OBVIOUS
<1>1. IInv /\ IInv'
  BY StepIInv DEF PeriodInv
<1>2. /\ TypeOK /\ TypeOK' /\ PeriodsOK /\ FilingIsPrivate /\ IssuedExactlyOnce
  BY <1>1 DEF IInv
<1> USE DEF PeriodInv
<1>3. DatesOffered'
  BY <1>2, DatesStep
<1>4. PeriodIsAskedFor'
  BY <1>2, AskedStep
<1>5. PoliciesInsureTheirAssets' /\ PeriodFollowsChanges'
  BY <1>2, PolicyPeriodsStep
<1> QED
  BY <1>1, <1>3, <1>4, <1>5

\* The invariant holds in every reachable state.
THEOREM PeriodInvariance == Spec => []PeriodInv
BY InitPeriodInv, StepPeriodInv, PTL DEF Spec

\* A policy covers as many days as were applied for, and starts on the filed
\* date or on the one the change log asked for when approveApplicationRecord
\* read it, though changes may be recorded between that read and the commit.
THEOREM PeriodsAsAsked == Spec => []PeriodFollowsChanges
<1>1. PeriodInv => PeriodFollowsChanges
  BY DEF PeriodInv
<1> QED
  BY <1>1, PeriodInvariance, PTL

-----------------------------------------------------------------------------
(* The refinement.                                                           *)

\* The cover of an application is the period of its policy, if it has one.
CoverIsThePolicy ==
    /\ \A i \in DOMAIN policies :
          CoverOf(policies[i].app) = [from |-> policies[i].effective, to |-> policies[i].expiry]
    /\ \A a \in Apps : app[a].status # "APPROVED" => CoverOf(a) = [from |-> 0, to |-> 0]

\* It is well defined as there is one policy at most.
LEMMA OnePolicyOneCover == IssuedExactlyOnce => CoverIsThePolicy
<1> SUFFICES ASSUME IssuedExactlyOnce PROVE CoverIsThePolicy
  OBVIOUS
<1>1. ASSUME NEW i \in DOMAIN policies
      PROVE  CoverOf(policies[i].app) =
                 [from |-> policies[i].effective, to |-> policies[i].expiry]
  <2>1. PoliciesOf(policies[i].app) = {i}
    BY DEF PoliciesOf, IssuedExactlyOnce
  <2>2. (CHOOSE j \in PoliciesOf(policies[i].app) : TRUE) = i
    BY <2>1
  <2> QED
    BY <2>1, <2>2 DEF CoverOf
<1>2. ASSUME NEW a \in Apps, app[a].status # "APPROVED"
      PROVE  CoverOf(a) = [from |-> 0, to |-> 0]
  <2>1. PoliciesOf(a) = {}
    BY <1>2 DEF PoliciesOf, IssuedExactlyOnce
  <2> QED
    BY <2>1 DEF CoverOf
<1> QED
  BY <1>1, <1>2 DEF CoverIsThePolicy

\* The applications, policies and balances of a step, as Underwriting sees them.
Stage == [a \in Apps |-> StageOf(app[a].status)]
Term  == [a \in Apps |-> app[a].end - app[a].start]
Cover == [a \in Apps |-> CoverOf(a)]

\* Steps that write neither the applications, nor the policies, nor the
\* balances are none to Underwriting.
LEMMA UnseenSteps ==
    ASSUME UNCHANGED <<app, policies, payable>>
    PROVE  UNCHANGED <<Stage, Term, Cover, payable>>
BY DEF Stage, Term, Cover, CoverOf, PoliciesOf

\* No other step writes them.
LEMMA SeenSteps ==
    ASSUME NEW r \in Reqs, Continue(r) \/ \E a \in Apps : Start(r, a)
    PROVE  \/ FileCommit(r) \/ OpenUpdate(r) \/ ApproveCommit(r) \/ RejectCommit(r)
           \/ UNCHANGED <<app, policies, payable>>
BY DEF Continue, Start, FileCheckPending, OpenRead, ChangeRead, ApproveRead, RejectRead,
       FileCheckPolicies, ChangeDate, ChangeVehicle, ChangeRefused, AdminApproveRefused,
       ApproveReadChanges, ApproveCheckPending, ApproveCheckPolicies, ClaimLost,
       FileTakeOver, EditVehicleRead, EditVehicleUpdate, EditVehicleRefused

\* The insert of createApplicationRecord files the application.
LEMMA CommitFiles ==
    ASSUME PeriodInv, NEW r \in Reqs, FileCommit(r),
           NEW a \in Apps, a = req[r].app
    PROVE  Promise!File(a)
<1> DEFINE n == req[r].to - req[r].from
<1>1. req[r].pc \in Filing
  BY DEF FileCommit, Filing
<1>2. app[a].status = "UNFILED" /\ n \in Lengths
  BY <1>1 DEF PeriodInv, IInv, FilingIsPrivate, DatesOffered
<1>3. /\ app' = [app EXCEPT ![a] = [status |-> "SUBMITTED", start |-> req[r].from,
                                    end |-> req[r].to, renews |-> req[r].renews]]
      /\ policies' = policies /\ payable' = payable
  BY DEF FileCommit
<1>4. app \in [Apps -> ApplicationRow]
  BY DEF PeriodInv, IInv, TypeOK
<1>5. /\ app'[a].status = "SUBMITTED" /\ app'[a].end - app'[a].start = n
      /\ \A b \in Apps : b # a => app'[b] = app[b]
  BY <1>1, <1>3, <1>4
<1> HIDE DEF n
<1>6. Stage[a] = "unfiled"
  BY <1>1, <1>2 DEF Stage, StageOf
<1>7. Stage' = [Stage EXCEPT ![a] = "pending"]
  BY <1>1, <1>5 DEF Stage, StageOf
<1>8. Term' = [Term EXCEPT ![a] = n]
  BY <1>1, <1>5 DEF Term
<1>9. Cover' = Cover
  BY <1>3 DEF Cover, CoverOf, PoliciesOf
<1> QED
  BY <1>2, <1>3, <1>6, <1>7, <1>8, <1>9 DEF Promise!File, Stage, Term, Cover

\* The claim of a rejection declines the application.
LEMMA CommitDeclines ==
    ASSUME PeriodInv, NEW r \in Reqs, RejectCommit(r),
           NEW a \in Apps, a = req[r].app
    PROVE  Promise!Decline(a)
<1>1. app \in [Apps -> ApplicationRow]
  BY DEF PeriodInv, IInv, TypeOK
<1>2. /\ app[a].status \in PendingStatuses
      /\ app' = [app EXCEPT ![a].status = "REJECTED"]
      /\ policies' = policies /\ payable' = payable
  BY DEF RejectCommit, Claimable
<1>3. /\ app'[a].status = "REJECTED"
      /\ app'[a].start = app[a].start /\ app'[a].end = app[a].end
      /\ \A b \in Apps : b # a => app'[b] = app[b]
  BY <1>1, <1>2 DEF ApplicationRow
<1>4. Stage[a] = "pending"
  BY <1>1, <1>2 DEF Stage, StageOf, PendingStatuses
<1>5. Stage' = [Stage EXCEPT ![a] = "declined"]
  BY <1>1, <1>3 DEF Stage, StageOf
<1>6. Term' = Term
  BY <1>3 DEF Term
<1>7. Cover' = Cover
  BY <1>2 DEF Cover, CoverOf, PoliciesOf
<1> QED
  BY <1>2, <1>4, <1>5, <1>6, <1>7 DEF Promise!Decline, Stage, Term, Cover

\* Opening a pending application for review is no step of Underwriting.
LEMMA OpeningIsUnseen ==
    ASSUME PeriodInv, NEW r \in Reqs, OpenUpdate(r)
    PROVE  UNCHANGED <<Stage, Term, Cover, payable>>
<1>1. /\ app \in [Apps -> ApplicationRow]
      /\ policies' = policies /\ payable' = payable
  BY DEF OpenUpdate, PeriodInv, IInv, TypeOK
<1>2. \A b \in Apps : /\ app'[b].start = app[b].start /\ app'[b].end = app[b].end
                      /\ StageOf(app'[b].status) = StageOf(app[b].status)
  BY <1>1 DEF OpenUpdate, ApplicationRow, StageOf
<1>3. Stage' = Stage /\ Term' = Term
  BY <1>2 DEF Stage, Term
<1>4. Cover' = Cover
  BY <1>1 DEF Cover, CoverOf, PoliciesOf
<1> QED
  BY <1>1, <1>3, <1>4

\* The claim of an approval, with all it writes, issues the cover, on days on
\* which no other cover of the assets is in force.
LEMMA CommitIssues ==
    ASSUME PeriodInv, IssuedExactlyOnce', NEW r \in Reqs, ApproveCommit(r),
           NEW a \in Apps, a = req[r].app
    PROVE  Promise!Issue(a)
<1> SUFFICES ASSUME NEW from, from = req[r].from, NEW n, n = Len(policies)
             PROVE  Promise!Issue(a)
  OBVIOUS
<1>1. /\ app \in [Apps -> ApplicationRow]
      /\ IssuedExactlyOnce /\ PoliciesInsureTheirAssets /\ CheckedIsClear /\ TypeOK
  BY IssueAppends DEF PeriodInv, IInv, TypeOK
<1>2. /\ DOMAIN policies = 1..n /\ n \in Nat
      /\ DOMAIN policies' = 1..(n + 1)
      /\ \A i \in 1..n : policies'[i] = policies[i]
      /\ policies'[n + 1].app = a
      /\ policies'[n + 1].effective = from /\ policies'[n + 1].expiry = req[r].to
      /\ req[r].pc = "approveCommit" /\ app[a].status \in PendingStatuses
      /\ app'[a].status = "APPROVED"
      /\ \A b \in Apps : b # a => app'[b] = app[b]
  BY <1>1, IssueAppends
<1>3. app'[a].start = app[a].start /\ app'[a].end = app[a].end
  BY <1>1 DEF ApproveCommit, ApplicationRow
<1>4. from \in Dates /\ req[r].to = from + Term[a]
  <2>1. from \in Dates /\ req[r].to - from = app[a].end - app[a].start
    BY <1>1, <1>2 DEF PeriodInv, DatesOffered, PeriodIsAskedFor, Approving
  <2>2. from \in Nat /\ req[r].to \in Nat
    BY <1>1 DEF TypeOK, Request
  <2>3. Term[a] = app[a].end - app[a].start /\ Term[a] \in Int
    BY <1>1 DEF Term, ApplicationRow
  <2> QED
    BY <2>1, <2>2, <2>3
<1>5. payable' = [payable EXCEPT ![AgentOf[a]] = @ + PayableOf[a]]
  BY DEF ApproveCommit, Issue
<1>6. CoverIsThePolicy /\ CoverIsThePolicy'
  <2>1. (IssuedExactlyOnce => CoverIsThePolicy)'
    BY OnePolicyOneCover, PTL
  <2> QED
    BY <1>1, <2>1, OnePolicyOneCover
<1>7. Cover' = [Cover EXCEPT ![a] = [from |-> from, to |-> from + Term[a]]]
  <2>1. CoverOf(a)' = [from |-> from, to |-> from + Term[a]]
    <3>1. n + 1 \in DOMAIN policies'
      BY <1>2
    <3> QED
      BY <1>2, <1>4, <1>6, <3>1 DEF CoverIsThePolicy
  <2>2. ASSUME NEW b \in Apps, b # a PROVE CoverOf(b)' = CoverOf(b)
    <3>1. CASE app[b].status # "APPROVED"
      BY <1>2, <1>6, <2>2, <3>1 DEF CoverIsThePolicy
    <3>2. CASE app[b].status = "APPROVED"
      <4>1. PICK i \in 1..n : policies[i].app = b
        BY <1>1, <1>2, <3>2 DEF IssuedExactlyOnce
      <4>2. i \in DOMAIN policies' /\ policies'[i] = policies[i]
        BY <1>2
      <4> QED
        BY <1>2, <1>6, <4>1, <4>2, ZenonT(60) DEF CoverIsThePolicy
    <3> QED
      BY <3>1, <3>2
  <2> QED
    BY <1>1, <2>1, <2>2 DEF Cover
<1>8. /\ Stage[a] = "pending"
      /\ Stage' = [Stage EXCEPT ![a] = "issued"]
      /\ Term' = Term
  BY <1>1, <1>2, <1>3 DEF Stage, StageOf, Term, PendingStatuses
<1>9. ASSUME NEW b \in Apps \ {a}, Stage[b] = "issued", AssetsOf[b] \cap AssetsOf[a] # {}
      PROVE  Cover[b].to <= from
  <2>1. app[b].status = "APPROVED"
    BY <1>9 DEF Stage, StageOf
  <2>2. PICK i \in DOMAIN policies : policies[i].app = b
    BY <1>1, <2>1 DEF IssuedExactlyOnce
  <2>3. policies[i].assets \cap AssetsOf[a] # {}
    BY <1>1, <1>9, <2>2 DEF PoliciesInsureTheirAssets
  <2>4. policies[i].expiry <= from
    BY <1>1, <1>2, <2>3 DEF CheckedIsClear, HasPassed
  <2>5. Cover[b].to = policies[i].expiry
    <3>1. CoverOf(b) = [from |-> policies[i].effective, to |-> policies[i].expiry]
      BY <1>6, <2>2 DEF CoverIsThePolicy
    <3> QED
      BY <1>9, <3>1 DEF Cover
  <2> QED
    BY <2>4, <2>5
<1>10. Promise!Free(a, from, from + Term[a])
  BY <1>9 DEF Promise!Free, Stage, Cover
<1> QED
  BY <1>4, <1>5, <1>7, <1>8, <1>10 DEF Promise!Issue, Stage, Term, Cover

\* Concurrent filings, reviews, approvals and rejections amount to applications
\* that are filed, and then issued or declined, one at a time: an approval is
\* one event, with its policy and its debt, on days its assets are free.
THEOREM ImplementsUnderwriting == Spec => IssuesOneAtATime
<1>1. Init => Promise!Init
  <2> SUFFICES ASSUME Init PROVE Promise!Init
    OBVIOUS
  <2>1. \A a \in Apps : app[a] = [status |-> "UNFILED", start |-> 0, end |-> 0, renews |-> 0]
    BY DEF Init
  <2>2. Stage = [a \in Apps |-> "unfiled"] /\ Term = [a \in Apps |-> 0]
    BY <2>1 DEF Stage, StageOf, Term
  <2>3. IssuedExactlyOnce
    BY InitPeriodInv DEF PeriodInv, IInv
  <2>4. Cover = [a \in Apps |-> [from |-> 0, to |-> 0]]
    BY <2>1, <2>3, OnePolicyOneCover DEF Cover, CoverIsThePolicy
  <2> QED
    BY <2>2, <2>4 DEF Init, Promise!Init, Promise!NoCover, Stage, Term, Cover
<1>2. ASSUME PeriodInv, PeriodInv', [Next]_vars
      PROVE  [Promise!Next]_(Promise!promised)
  <2>1. CASE UNCHANGED <<app, policies, payable>>
    BY <2>1, UnseenSteps DEF Promise!promised, Stage, Term, Cover
  <2> SUFFICES ASSUME NEW r \in Reqs, Continue(r) \/ \E a \in Apps : Start(r, a),
                      ~UNCHANGED <<app, policies, payable>>
               PROVE  [Promise!Next]_(Promise!promised)
    BY <1>2, <2>1 DEF Next, vars
  <2>2. CASE OpenUpdate(r)
    BY <1>2, <2>2, OpeningIsUnseen DEF Promise!promised, Stage, Term, Cover
  <2>3. CASE FileCommit(r) \/ ApproveCommit(r) \/ RejectCommit(r)
    <3>1. req[r].pc \notin Unbound
      BY <2>3 DEF FileCommit, ApproveCommit, RejectCommit, Unbound
    <3>2. PICK a \in Apps : a = req[r].app
      BY <1>2, <3>1 DEF PeriodInv, IInv, TypeOK
    <3>3. Promise!File(a) \/ Promise!Issue(a) \/ Promise!Decline(a)
      BY <1>2, <2>3, <3>2, CommitFiles, CommitIssues, CommitDeclines DEF PeriodInv, IInv
    <3> QED
      BY <3>3 DEF Promise!Next
  <2> QED
    BY <2>2, <2>3, SeenSteps
<1> QED
  BY <1>1, <1>2, PeriodInvariance, PTL DEF Spec, IssuesOneAtATime, Promise!Spec

-----------------------------------------------------------------------------
(* The balances.                                                             *)

IssuedTo(g) == {a \in Apps : AgentOf[a] = g /\ app[a].status = "APPROVED"}
RowsOf(g)   == {i \in DOMAIN ledger : ledger[i].agent = g}
Booked(g)   == [i \in RowsOf(g) |-> ledger[i].amount]

\* An agent's balance is what the policies issued to it owe, and the sum of its
\* ledger rows.
BalancesMatch ==
    \A g \in Agents :
        /\ IsFiniteSet(IssuedTo(g))
        /\ payable[g] = SumFunctionOnSet(PayableOf, IssuedTo(g))
        /\ payable[g] = SumFunctionOnSet(Booked(g), RowsOf(g))

\* A ledger has finitely many rows, with amounts that are integers.
LEMMA LedgerType ==
    ASSUME NEW rows \in Seq(LedgerRow), NEW g, NEW S, S = {i \in DOMAIN rows : rows[i].agent = g}
    PROVE  IsFiniteSet(S) /\ \A i \in S : rows[i].amount \in Int
<1>1. IsFiniteSet(DOMAIN rows)
  BY FS_Interval
<1>2. S \subseteq DOMAIN rows
  OBVIOUS
<1>3. IsFiniteSet(S)
  BY <1>1, <1>2, FS_Subset
<1>4. \A i \in DOMAIN rows : rows[i] \in LedgerRow
  OBVIOUS
<1> QED
  BY <1>2, <1>3, <1>4 DEF LedgerRow

\* Only an issue approves an application or moves a balance, and it adds the
\* application, its row and its amount together.
LEMMA BalancesStep ==
    ASSUME TypeOK, FilingIsPrivate, BalancesMatch, [Next]_vars
    PROVE  BalancesMatch'
<1>0. CASE UNCHANGED <<app, ledger, payable>>
  BY <1>0 DEF BalancesMatch, IssuedTo, RowsOf, Booked
<1> SUFFICES ASSUME NEW r \in Reqs, Continue(r) \/ \E a \in Apps : Start(r, a),
                    NEW g \in Agents
             PROVE  /\ IsFiniteSet(IssuedTo(g)')
                    /\ payable'[g] = SumFunctionOnSet(PayableOf, IssuedTo(g)')
                    /\ payable'[g] = SumFunctionOnSet(Booked(g)', RowsOf(g)')
  BY <1>0 DEF Next, vars, BalancesMatch
<1>1. CASE ~ApproveCommit(r)
  <2>1. ledger' = ledger /\ payable' = payable
    BY <1>1 DEF Continue, Start, FileCheckPending, OpenRead, ChangeRead, ApproveRead,
       RejectRead, FileCheckPolicies, FileCommit, OpenUpdate, ChangeDate, ChangeVehicle,
       ChangeRefused, AdminApproveRefused, ApproveReadChanges, ApproveCheckPending,
       ApproveCheckPolicies, RejectCommit, ClaimLost,
       FileTakeOver, EditVehicleRead, EditVehicleUpdate, EditVehicleRefused
  <2>2. IssuedTo(g)' = IssuedTo(g)
    <3>1. FileCommit(r) => app[req[r].app].status = "UNFILED"
      BY DEF FileCommit, FilingIsPrivate, Filing
    <3>2. \A a \in Apps : app'[a].status = "APPROVED" <=> app[a].status = "APPROVED"
      BY <1>1, <3>1, RowMoves DEF PendingStatuses
    <3> QED
      BY <3>2 DEF IssuedTo
  <2>3. RowsOf(g)' = RowsOf(g) /\ Booked(g)' = Booked(g)
    BY <2>1 DEF RowsOf, Booked
  <2> QED
    BY <2>1, <2>2, <2>3 DEF BalancesMatch
<1>2. CASE ApproveCommit(r)
  <2>10. PICK a \in Apps : a = req[r].app
    BY <1>2, IssueAppends
  <2>11. PICK n \in Nat : n = Len(ledger)
    BY DEF TypeOK
  <2> DEFINE row == [agent |-> AgentOf[a], policy |-> Len(policies) + 1, type |-> "ISSUANCE",
                     amount |-> PayableOf[a]]
  <2>1. /\ app[a].status \in PendingStatuses /\ app'[a].status = "APPROVED"
        /\ \A b \in Apps : b # a => app'[b] = app[b]
    BY <1>2, <2>10, IssueAppends
  <2>2. /\ ledger' = Append(ledger, row)
        /\ payable' = [payable EXCEPT ![AgentOf[a]] = @ + PayableOf[a]]
    BY <1>2, <2>10 DEF ApproveCommit, Issue
  <2>3. AgentOf[a] \in Agents /\ \A b \in Apps : PayableOf[b] \in Int
    BY ParametersAssumption
  <2>4. row.agent = AgentOf[a] /\ row.amount = PayableOf[a] /\ row \in LedgerRow
    <3>1. Len(policies) + 1 \in Nat
      BY DEF TypeOK
    <3> QED
      BY <2>3, <3>1, ParametersAssumption DEF LedgerRow
  <2> HIDE DEF row
  <2>5. /\ ledger' \in Seq(LedgerRow)
        /\ DOMAIN ledger = 1..n /\ DOMAIN ledger' = 1..(n + 1)
        /\ \A i \in 1..n : ledger'[i] = ledger[i]
        /\ ledger'[n + 1] = row
    BY <2>2, <2>4, <2>11 DEF TypeOK
  <2>6. /\ IsFiniteSet(IssuedTo(g)) /\ payable[g] \in Int
        /\ payable[g] = SumFunctionOnSet(PayableOf, IssuedTo(g))
        /\ payable[g] = SumFunctionOnSet(Booked(g), RowsOf(g))
    BY DEF BalancesMatch, TypeOK
  <2>7. /\ IsFiniteSet(RowsOf(g)) /\ \A i \in RowsOf(g) : ledger[i].amount \in Int
        /\ IsFiniteSet(RowsOf(g)') /\ \A i \in RowsOf(g)' : ledger'[i].amount \in Int
    BY <2>5, LedgerType DEF RowsOf, TypeOK
  <2>8. CASE g = AgentOf[a]
    <3>1. IssuedTo(g)' = IssuedTo(g) \cup {a} /\ a \notin IssuedTo(g)
      BY <2>1, <2>8 DEF IssuedTo, PendingStatuses
    <3>2. payable'[g] = payable[g] + PayableOf[a]
      BY <2>2, <2>3, <2>8 DEF TypeOK
    <3>3. IsFiniteSet(IssuedTo(g)') /\ payable'[g] = SumFunctionOnSet(PayableOf, IssuedTo(g)')
      <4>1. \A b \in IssuedTo(g) \cup {a} : PayableOf[b] \in Int
        BY <2>3 DEF IssuedTo
      <4>2. SumFunctionOnSet(PayableOf, IssuedTo(g) \cup {a}) =
                PayableOf[a] + SumFunctionOnSet(PayableOf, IssuedTo(g))
        BY <2>6, <3>1, <4>1, SumAdd
      <4> QED
        BY <2>3, <2>6, <3>1, <3>2, <4>2, FS_AddElement
    <3>4. RowsOf(g)' = RowsOf(g) \cup {n + 1} /\ n + 1 \notin RowsOf(g)
      BY <2>4, <2>5, <2>8 DEF RowsOf
    <3>5. payable'[g] = SumFunctionOnSet(Booked(g)', RowsOf(g)')
      <4>1. /\ \A i \in RowsOf(g) \cup {n + 1} : Booked(g)'[i] \in Int
            /\ Booked(g)'[n + 1] = PayableOf[a]
        BY <2>4, <2>5, <2>7, <3>4 DEF Booked
      <4>2. \A i \in RowsOf(g) : Booked(g)'[i] = Booked(g)[i]
        BY <2>5, <3>4 DEF Booked, RowsOf
      <4>3. SumFunctionOnSet(Booked(g)', RowsOf(g) \cup {n + 1}) =
                PayableOf[a] + SumFunctionOnSet(Booked(g)', RowsOf(g))
        BY <2>7, <3>4, <4>1, SumAdd
      <4>4. SumFunctionOnSet(Booked(g)', RowsOf(g)) = payable[g]
        BY <2>6, <2>7, <4>2, SumSame
      <4> QED
        BY <2>3, <2>6, <3>2, <3>4, <4>3, <4>4
    <3> QED
      BY <3>3, <3>5
  <2>9. CASE g # AgentOf[a]
    <3>1. IssuedTo(g)' = IssuedTo(g)
      BY <2>1, <2>9 DEF IssuedTo
    <3>2. payable'[g] = payable[g]
      BY <2>2, <2>9 DEF TypeOK
    <3>3. RowsOf(g)' = RowsOf(g)
      BY <2>4, <2>5, <2>9 DEF RowsOf
    <3>4. Booked(g)' = Booked(g)
      BY <2>5, <3>3 DEF Booked, RowsOf
    <3> QED
      BY <2>6, <3>1, <3>2, <3>3, <3>4
  <2> QED
    BY <2>8, <2>9
<1> QED
  BY <1>1, <1>2

\* However approvals interleave, an agent's cached balance is what its issued
\* policies owe Bethel, and so is the sum of its ledger: the credit and the
\* increment of approveApplicationRecord are in the transaction that claims.
THEOREM PayableIsOwed == Spec => []PayableMatchesPolicies
<1>1. Init => BalancesMatch
  <2> SUFFICES ASSUME Init, NEW g \in Agents
               PROVE  /\ IsFiniteSet(IssuedTo(g))
                      /\ payable[g] = SumFunctionOnSet(PayableOf, IssuedTo(g))
                      /\ payable[g] = SumFunctionOnSet(Booked(g), RowsOf(g))
    BY DEF BalancesMatch
  <2>1. IssuedTo(g) = {} /\ RowsOf(g) = {} /\ payable[g] = 0
    BY DEF Init, IssuedTo, RowsOf
  <2> QED
    BY <2>1, SumEmpty, FS_EmptySet
<1>2. IInv /\ BalancesMatch /\ [Next]_vars => BalancesMatch'
  BY BalancesStep DEF IInv
<1>3. BalancesMatch => PayableMatchesPolicies
  BY DEF BalancesMatch, PayableMatchesPolicies, IssuedTo, RowsOf, Booked
<1> QED
  BY <1>1, <1>2, <1>3, Invariance, PTL DEF Spec

-----------------------------------------------------------------------------
(* Cancellations: PolicyLifecycle.                                           *)

InForce(g) == {i \in DOMAIN policies : policies[i].status = "ACTIVE" /\ AgentOf[policies[i].app] = g}
Credits    == [i \in DOMAIN policies |-> PayableOf[policies[i].app]]

\* What the policies in force could still be refunded is within the balance.
RefundsAreCovered == \A g \in Agents : SumFunctionOnSet(Credits, InForce(g)) <= payable[g]

PoliciesLast == \A i \in DOMAIN policies : policies[i].effective < policies[i].expiry

\* A policy of x is cancelled that was effective no earlier than policy i.
CancelledSince(i, x) ==
    \E k \in DOMAIN policies : /\ x \in policies[k].assets /\ policies[k].status = "CANCELLED"
                               /\ policies[k].effective >= policies[i].effective

\* A request about to issue a policy has the policies in force of its assets
\* behind it, except where one has been cancelled since.
CheckedUnlessCancelled ==
    \A r \in Reqs :
        HasPassed(r) /\ req[r].pc = "approveCommit" =>
            \A i \in DOMAIN policies : \A x \in policies[i].assets \cap AssetsOf[req[r].app] :
                policies[i].status = "ACTIVE" /\ req[r].from < policies[i].expiry =>
                    CancelledSince(i, x)

LifecycleInv == /\ TypeOK
                /\ PeriodsOK
                /\ FilingIsPrivate
                /\ IssuedExactlyOnce
                /\ DecidedExactlyOnce
                /\ PassedIsExclusive
                /\ RefundsAreCovered
                /\ PoliciesLast
                /\ CheckedUnlessCancelled
                /\ OverlapNeedsCancellation

\* The columns of the policies.
LEMMA PolicyColumns ==
    ASSUME TypeOK
    PROVE  /\ DOMAIN policies = 1..Len(policies) /\ Len(policies) \in Nat
           /\ \A i \in DOMAIN policies :
                 /\ policies[i].app \in Apps /\ policies[i].assets \subseteq Assets
                 /\ policies[i].effective \in Nat /\ policies[i].expiry \in Nat
                 /\ policies[i].status \in {"ACTIVE", "CANCELLED"}
<1>1. policies \in Seq(PolicyRow)
  BY DEF TypeOK
<1>2. \A i \in DOMAIN policies : policies[i] \in PolicyRow
  BY <1>1
<1> QED
  BY <1>1, <1>2 DEF PolicyRow

\* An asset that has policies has a latest one, in whatever order they came.
LEMMA SomeIsLatest ==
    ASSUME TypeOK, NEW x, NEW i \in DOMAIN policies, x \in policies[i].assets
    PROVE  Latest(policies, x) # {}
<1> DEFINE S == {j \in DOMAIN policies : x \in policies[j].assets}
           E == {policies[j].effective : j \in S}
<1>1. IsFiniteSet(S)
  <2>1. IsFiniteSet(DOMAIN policies)
    BY PolicyColumns, FS_Interval
  <2> QED
    BY <2>1, FS_Subset
<1>2. IsFiniteSet(E)
  <2> DEFINE f == [j \in S |-> policies[j].effective]
  <2>1. f \in Surjection(S, E)
    BY DEF Surjection
  <2> QED
    BY <1>1, <2>1, FS_Surjection
<1>3. E \in SUBSET Int /\ E # {}
  BY PolicyColumns
<1>4. PICK m \in E : \A e \in E : e <= m
  BY <1>2, <1>3, MaxOfFinite
<1> QED
  BY <1>4 DEF Latest

\* What the rule lets pass overlaps a policy in force only behind a cancelled
\* one: the head of the list does not block, as it has run out or is cancelled.
LEMMA PassUnlessCancelled ==
    ASSUME TypeOK, PoliciesLast, OverlapNeedsCancellation,
           NEW assets, NEW start \in Nat, MayPass(policies, assets, start),
           NEW i \in DOMAIN policies, NEW x \in policies[i].assets \cap assets,
           policies[i].status = "ACTIVE", start < policies[i].expiry
    PROVE  CancelledSince(i, x)
<1>1. Latest(policies, x) # {}
  BY SomeIsLatest
<1>2. PICK m \in Latest(policies, x) : ~Blocks(policies[m], start)
  BY <1>1 DEF MayPass
<1>3. /\ m \in DOMAIN policies /\ x \in policies[m].assets
      /\ policies[i].effective <= policies[m].effective
  BY DEF Latest
<1>4. /\ policies[i].effective \in Nat /\ policies[i].expiry \in Nat
      /\ policies[m].effective \in Nat /\ policies[m].expiry \in Nat
      /\ policies[m].status \in {"ACTIVE", "CANCELLED"}
  BY <1>3, PolicyColumns
<1>5. CASE policies[m].status = "CANCELLED"
  BY <1>3, <1>4, <1>5 DEF CancelledSince
<1>6. CASE policies[m].status = "ACTIVE"
  <2>1. policies[m].expiry <= start
    BY <1>2, <1>4, <1>6 DEF Blocks
  <2>2. policies[m].effective < policies[m].expiry
    BY <1>3 DEF PoliciesLast
  <2>3. policies[i].effective < policies[m].expiry /\ policies[m].effective < policies[i].expiry
    BY <1>3, <1>4, <2>1, <2>2
  <2>4. m # i
    BY <1>4, <2>1
  <2>5. i \in Nat /\ m \in Nat
    BY <1>3, PolicyColumns
  <2>6. x \in policies[i].assets \cap policies[m].assets
    BY <1>3
  <2>7. CASE i < m
    <3>1. PICK k \in DOMAIN policies : /\ x \in policies[k].assets /\ policies[k].status = "CANCELLED"
                                       /\ policies[k].effective >= policies[i].effective
      BY <1>3, <1>6, <2>3, <2>6, <2>7 DEF OverlapNeedsCancellation
    <3> QED
      BY <3>1 DEF CancelledSince
  <2>8. CASE m < i
    <3>1. PICK k \in DOMAIN policies : /\ x \in policies[k].assets /\ policies[k].status = "CANCELLED"
                                       /\ policies[k].effective >= policies[m].effective
      BY <1>3, <1>6, <2>3, <2>6, <2>8 DEF OverlapNeedsCancellation
    <3>2. policies[k].effective \in Nat
      BY PolicyColumns
    <3>3. policies[k].effective >= policies[i].effective
      BY <1>3, <1>4, <3>1, <3>2
    <3> QED
      BY <3>1, <3>3 DEF CancelledSince
  <2> QED
    BY <2>4, <2>5, <2>7, <2>8
<1> QED
  BY <1>4, <1>5, <1>6

\* Nothing but an approval's commit, of the steps of PolicyApproval, writes a
\* policy or a balance.
LEMMA IssuersOnly ==
    ASSUME NEW r \in Reqs, Continue(r) \/ \E a \in Apps : Start(r, a), ~ApproveCommit(r)
    PROVE  policies' = policies /\ payable' = payable
BY DEF Continue, Start, FileCheckPending, OpenRead, ChangeRead, ApproveRead,
       RejectRead, FileCheckPolicies, FileCommit, OpenUpdate, ChangeDate, ChangeVehicle,
       ChangeRefused, AdminApproveRefused, ApproveReadChanges, ApproveCheckPending,
       ApproveCheckPolicies, RejectCommit, ClaimLost,
       FileTakeOver, EditVehicleRead, EditVehicleUpdate, EditVehicleRefused

\* Between its policy check and its commit no policy of a request's assets is
\* issued, so what it has seen stands.
LEMMA UnlessCancelledStep ==
    ASSUME TypeOK, TypeOK', FilingIsPrivate, PassedIsExclusive, CheckedUnlessCancelled,
           PoliciesLast, OverlapNeedsCancellation, [Next]_vars
    PROVE  CheckedUnlessCancelled'
<1>0. CASE UNCHANGED vars
  BY <1>0 DEF vars, CheckedUnlessCancelled, HasPassed, CancelledSince
<1> SUFFICES ASSUME NEW r \in Reqs, Continue(r) \/ \E a \in Apps : Start(r, a),
                    NEW s \in Reqs, HasPassed(s)', req'[s].pc = "approveCommit",
                    NEW i \in DOMAIN policies',
                    NEW x \in policies'[i].assets \cap AssetsOf[req'[s].app],
                    policies'[i].status = "ACTIVE", req'[s].from < policies'[i].expiry
             PROVE  CancelledSince(i, x)'
  BY <1>0 DEF Next, CheckedUnlessCancelled
<1>1. /\ req'[s].app = req[s].app
      /\ HasPassed(s) \/ (s = r /\ PassesPending(r))
      /\ s # r => req'[s] = req[s]
      /\ s = r => PassesPending(r) \/ PassesPolicies(r)
  BY PassedBefore
<1>2. CASE s = r
  <2>1. PassesPolicies(r) /\ req'[r].from = req[r].from
    BY <1>1, <1>2 DEF PassesPending, PassesPolicies, TypeOK, Request
  <2>2. ~ApproveCommit(r)
    BY <1>2, IssueAppends
  <2>3. policies' = policies
    BY <2>2, IssuersOnly
  <2>4. req[r].from \in Nat
    BY DEF TypeOK, Request
  <2>5. MayPass(policies, AssetsOf[req[r].app], req[r].from)
    BY <2>1 DEF PassesPolicies
  <2>6. CancelledSince(i, x)
    BY <1>1, <1>2, <2>1, <2>3, <2>4, <2>5, PassUnlessCancelled
  <2> QED
    BY <2>3, <2>6 DEF CancelledSince
<1>3. CASE s # r
  <2>1. req'[s] = req[s] /\ HasPassed(s) /\ req[s].pc = "approveCommit"
    BY <1>1, <1>3
  <2>2. CASE ~ApproveCommit(r)
    <3>1. policies' = policies
      BY <2>2, IssuersOnly
    <3>2. CancelledSince(i, x)
      BY <2>1, <3>1 DEF CheckedUnlessCancelled
    <3> QED
      BY <3>1, <3>2 DEF CancelledSince
  <2>3. CASE ApproveCommit(r)
    <3>1. /\ DOMAIN policies = 1..Len(policies) /\ Len(policies) \in Nat
          /\ DOMAIN policies' = 1..(Len(policies) + 1)
          /\ \A j \in 1..Len(policies) : policies'[j] = policies[j]
          /\ policies'[Len(policies) + 1].assets = AssetsOf[req[r].app]
          /\ req[r].pc = "approveCommit"
          /\ app[req[r].app].status \in PendingStatuses
          /\ app'[req[r].app].status = "APPROVED"
      BY <2>3, IssueAppends
    <3>2. req[r].app # req[s].app
      BY <2>1, <3>1 DEF HasPassed, PendingStatuses
    <3>3. HasPassed(r)
      BY <3>1 DEF HasPassed
    <3>4. AssetsOf[req[r].app] \cap AssetsOf[req[s].app] = {}
      BY <2>1, <3>2, <3>3 DEF PassedIsExclusive
    <3>5. i \in 1..Len(policies)
      BY <2>1, <3>1, <3>4
    <3>6. policies'[i] = policies[i]
      BY <3>1, <3>5
    <3>7. CancelledSince(i, x)
      BY <2>1, <3>1, <3>5, <3>6 DEF CheckedUnlessCancelled
    <3>8. \A k \in DOMAIN policies : k \in DOMAIN policies' /\ policies'[k] = policies[k]
      BY <3>1
    <3> QED
      BY <3>6, <3>7, <3>8 DEF CancelledSince
  <2> QED
    BY <2>2, <2>3
<1> QED
  BY <1>2, <1>3

\* Policies are issued for a period, and overlap those in force only behind a
\* cancelled one.
LEMMA OverlapStep ==
    ASSUME TypeOK, TypeOK', PeriodsOK, PoliciesLast, CheckedUnlessCancelled, OverlapNeedsCancellation,
           [Next]_vars
    PROVE  PoliciesLast' /\ OverlapNeedsCancellation'
<1>0. CASE UNCHANGED vars
  BY <1>0 DEF vars, PoliciesLast, OverlapNeedsCancellation
<1> SUFFICES ASSUME NEW r \in Reqs, Continue(r) \/ \E a \in Apps : Start(r, a)
             PROVE  PoliciesLast' /\ OverlapNeedsCancellation'
  BY <1>0 DEF Next
<1>1. CASE ~ApproveCommit(r)
  BY <1>1, IssuersOnly DEF PoliciesLast, OverlapNeedsCancellation
<1>2. CASE ApproveCommit(r)
  <2> DEFINE n == Len(policies)
             q == req[r]
  <2>1. /\ DOMAIN policies = 1..n /\ n \in Nat
        /\ DOMAIN policies' = 1..(n + 1)
        /\ \A j \in 1..n : policies'[j] = policies[j]
        /\ policies'[n + 1].assets = AssetsOf[q.app]
        /\ policies'[n + 1].effective = q.from
        /\ policies'[n + 1].expiry = q.to
    BY <1>2, IssueAppends
  <2>2. q.from < q.to
    BY <1>2, IssueAppends DEF PeriodsOK
  <2>3. HasPassed(r) /\ q.pc = "approveCommit"
    BY <1>2, IssueAppends DEF HasPassed
  <2>4. \A i \in DOMAIN policies : \A x \in policies[i].assets \cap AssetsOf[q.app] :
            policies[i].status = "ACTIVE" /\ q.from < policies[i].expiry => CancelledSince(i, x)
    BY <2>3 DEF CheckedUnlessCancelled
  <2> HIDE DEF n, q
  <2>5. PoliciesLast'
    <3> SUFFICES ASSUME NEW i \in DOMAIN policies'
                 PROVE  policies'[i].effective < policies'[i].expiry
      BY DEF PoliciesLast
    <3>1. CASE i \in 1..n
      BY <2>1, <3>1 DEF PoliciesLast
    <3>2. CASE i = n + 1
      BY <2>1, <2>2, <3>2
    <3> QED
      BY <2>1, <3>1, <3>2
  <2>6. ASSUME NEW i \in DOMAIN policies', NEW j \in DOMAIN policies', i < j,
               policies'[i].status = "ACTIVE", policies'[j].status = "ACTIVE",
               policies'[i].effective < policies'[j].expiry,
               policies'[j].effective < policies'[i].expiry,
               NEW x \in policies'[i].assets \cap policies'[j].assets
        PROVE  \E k \in DOMAIN policies' :
                  /\ k < j /\ x \in policies'[k].assets /\ policies'[k].status = "CANCELLED"
                  /\ policies'[k].effective >= policies'[i].effective
    <3>1. i \in 1..n /\ policies'[i] = policies[i]
      BY <2>1, <2>6
    <3>2. CASE j \in 1..n
      <4>1. policies'[j] = policies[j]
        BY <2>1, <3>2
      <4>2. PICK k \in DOMAIN policies :
               /\ k < j /\ x \in policies[k].assets /\ policies[k].status = "CANCELLED"
               /\ policies[k].effective >= policies[i].effective
        BY <2>1, <2>6, <3>1, <3>2, <4>1 DEF OverlapNeedsCancellation
      <4>3. k \in DOMAIN policies' /\ policies'[k] = policies[k]
        BY <2>1
      <4> QED
        BY <3>1, <4>2, <4>3
    <3>3. CASE j = n + 1
      <4>1. x \in policies[i].assets \cap AssetsOf[q.app] /\ q.from < policies[i].expiry
        BY <2>1, <2>6, <3>1, <3>3
      <4>2. CancelledSince(i, x)
        BY <2>1, <2>4, <2>6, <3>1, <4>1
      <4>3. PICK k \in DOMAIN policies :
               /\ x \in policies[k].assets /\ policies[k].status = "CANCELLED"
               /\ policies[k].effective >= policies[i].effective
        BY <4>2 DEF CancelledSince
      <4>4. k \in DOMAIN policies' /\ policies'[k] = policies[k] /\ k < j
        BY <2>1, <3>3
      <4> QED
        BY <3>1, <4>3, <4>4
    <3> QED
      BY <2>1, <3>2, <3>3
  <2>7. OverlapNeedsCancellation'
    BY <2>6 DEF OverlapNeedsCancellation
  <2> QED
    BY <2>5, <2>7
<1> QED
  BY <1>1, <1>2

\* The policies an agent has in force are finitely many, with credits.
LEMMA InForceType ==
    ASSUME TypeOK, NEW g
    PROVE  /\ IsFiniteSet(InForce(g)) /\ InForce(g) \subseteq DOMAIN policies
           /\ \A i \in DOMAIN policies : Credits[i] \in Nat
           /\ SumFunctionOnSet(Credits, InForce(g)) \in Int
<1>1. IsFiniteSet(DOMAIN policies)
  BY PolicyColumns, FS_Interval
<1>2. InForce(g) \subseteq DOMAIN policies
  BY DEF InForce
<1>3. IsFiniteSet(InForce(g))
  BY <1>1, <1>2, FS_Subset
<1>4. \A i \in DOMAIN policies : Credits[i] \in Nat
  BY PolicyColumns, ParametersAssumption DEF Credits
<1>5. \A i \in InForce(g) : Credits[i] \in Int
  BY <1>2, <1>4
<1> HIDE DEF Credits
<1> QED
  BY <1>2, <1>3, <1>4, <1>5, SumType

\* An issue adds its credit to the balance as it puts its policy in force.
LEMMA CoveredStep ==
    ASSUME TypeOK, TypeOK', RefundsAreCovered, [Next]_vars
    PROVE  RefundsAreCovered'
<1>0. CASE UNCHANGED <<policies, payable>>
  BY <1>0 DEF RefundsAreCovered, InForce, Credits
<1> SUFFICES ASSUME NEW r \in Reqs, ApproveCommit(r), NEW g \in Agents
             PROVE  SumFunctionOnSet(Credits, InForce(g))' <= payable'[g]
  BY <1>0, IssuersOnly DEF Next, vars, RefundsAreCovered
<1>1. PICK a \in Apps : a = req[r].app
  BY IssueAppends
<1>2. PICK n \in Nat : n = Len(policies)
  BY IssueAppends
<1>3. /\ DOMAIN policies = 1..n /\ DOMAIN policies' = 1..(n + 1)
      /\ \A i \in 1..n : policies'[i] = policies[i]
      /\ policies'[n + 1].app = a /\ policies'[n + 1].status = "ACTIVE"
  BY <1>1, <1>2, IssueAppends
<1>4. payable' = [payable EXCEPT ![AgentOf[a]] = @ + PayableOf[a]]
  BY <1>1 DEF ApproveCommit, Issue
<1>5. AgentOf[a] \in Agents /\ PayableOf[a] \in Nat /\ payable[g] \in Nat
  BY ParametersAssumption DEF TypeOK
<1>6. /\ \A i \in 1..n : Credits'[i] = Credits[i]
      /\ Credits'[n + 1] = PayableOf[a]
  BY <1>3 DEF Credits
<1>7. /\ IsFiniteSet(InForce(g)) /\ InForce(g) \subseteq 1..n
      /\ \A i \in 1..n : Credits[i] \in Nat
      /\ SumFunctionOnSet(Credits, InForce(g)) \in Int
  BY <1>3, InForceType
<1>8. SumFunctionOnSet(Credits, InForce(g)) <= payable[g]
  BY DEF RefundsAreCovered
<1>9. SumFunctionOnSet(Credits', InForce(g)) = SumFunctionOnSet(Credits, InForce(g))
  <2>1. \A i \in InForce(g) : Credits'[i] = Credits[i]
    BY <1>6, <1>7
  <2> QED
    BY <1>7, <2>1, SumSame
<1>10. CASE g = AgentOf[a]
  <2>1. InForce(g)' = InForce(g) \cup {n + 1} /\ n + 1 \notin InForce(g)
    BY <1>3, <1>10 DEF InForce
  <2>2. \A i \in InForce(g) \cup {n + 1} : Credits'[i] \in Int
    BY <1>5, <1>6, <1>7
  <2>3. SumFunctionOnSet(Credits', InForce(g) \cup {n + 1}) =
            Credits'[n + 1] + SumFunctionOnSet(Credits', InForce(g))
    BY <1>7, <2>1, <2>2, SumAdd
  <2>4. payable'[g] = payable[g] + PayableOf[a]
    BY <1>4, <1>5, <1>10 DEF TypeOK
  <2> QED
    BY <1>5, <1>6, <1>7, <1>8, <1>9, <2>1, <2>3, <2>4
<1>11. CASE g # AgentOf[a]
  <2>1. InForce(g)' = InForce(g)
    BY <1>3, <1>11 DEF InForce
  <2>2. payable'[g] = payable[g]
    BY <1>4, <1>5, <1>11 DEF TypeOK
  <2> QED
    BY <1>8, <1>9, <2>1, <2>2
<1> QED
  BY <1>10, <1>11

\* What a cancellation changes of the policies.
LEMMA CancelMoves ==
    ASSUME TypeOK, NEW i \in DOMAIN policies, NEW p \in Refunds, CancelPolicy(i, p)
    PROVE  /\ policies' \in Seq(PolicyRow) /\ DOMAIN policies' = DOMAIN policies
           /\ Len(policies') = Len(policies)
           /\ \A k \in DOMAIN policies :
                 /\ policies'[k].app = policies[k].app /\ policies'[k].assets = policies[k].assets
                 /\ policies'[k].effective = policies[k].effective
                 /\ policies'[k].expiry = policies[k].expiry
                 /\ k # i => policies'[k].status = policies[k].status
           /\ policies[i].status = "ACTIVE" /\ policies'[i].status = "CANCELLED"
<1>1. policies \in Seq(PolicyRow) /\ \A k \in DOMAIN policies : policies[k] \in PolicyRow
  BY DEF TypeOK
<1> DEFINE row == [policies[i] EXCEPT !.status = "CANCELLED"]
<1>2. policies[i].status = "ACTIVE" /\ policies' = [policies EXCEPT ![i] = row]
  BY DEF CancelPolicy
<1>3. /\ row \in PolicyRow /\ row.app = policies[i].app /\ row.assets = policies[i].assets
      /\ row.effective = policies[i].effective /\ row.expiry = policies[i].expiry
      /\ row.status = "CANCELLED"
  BY <1>1 DEF PolicyRow
<1> HIDE DEF row
<1>4. policies' \in Seq(PolicyRow) /\ DOMAIN policies' = DOMAIN policies /\ Len(policies') = Len(policies)
  BY <1>1, <1>2, <1>3
<1> QED
  BY <1>2, <1>3, <1>4

\* A cancellation refunds no more than the policy's credit, which is in the
\* balance.
LEMMA CancelRefunds ==
    ASSUME TypeOK, RefundsAreCovered, NEW i \in DOMAIN policies, NEW p \in Refunds, CancelPolicy(i, p)
    PROVE  payable' \in [Agents -> Nat] /\ ledger' \in Seq(LedgerRow) /\ RefundsAreCovered'
<1>1. PICK a \in Apps : a = policies[i].app
  BY PolicyColumns
<1>2. PICK g \in Agents : g = AgentOf[a]
  BY ParametersAssumption
<1>3. PICK c \in Nat : c = PayableOf[a]
  BY ParametersAssumption
<1>4. PICK refund \in Nat : refund = (c * p) \div 100 /\ refund <= c
  <2>1. p \in Nat /\ p <= 100
    BY RefundsAssumption
  <2>2. c * p \in Nat /\ c * p <= c * 100
    <3>1. \A m \in Nat : c * m \in Nat
      BY <1>3
    <3>2. c * (100 - p) \in Nat /\ 100 - p \in Nat
      BY <2>1, <3>1
    <3>3. c * (100 - p) = c * 100 - c * p
      BY <2>1
    <3> QED
      BY <2>1, <3>1, <3>2, <3>3
  <2>3. (c * p) \div 100 \in Nat /\ (c * p) \div 100 <= c
    BY <2>2
  <2> QED
    BY <2>3
<1>5. /\ payable' = [payable EXCEPT ![g] = @ - refund]
      /\ ledger' = Append(ledger, [agent |-> g, policy |-> i, type |-> "CANCELLED_POLICY", amount |-> -refund])
  BY <1>1, <1>2, <1>3, <1>4 DEF CancelPolicy
<1>6. payable \in [Agents -> Nat] /\ ledger \in Seq(LedgerRow) /\ i \in Nat
  BY PolicyColumns DEF TypeOK
<1>7. ledger' \in Seq(LedgerRow)
  <2>1. [agent |-> g, policy |-> i, type |-> "CANCELLED_POLICY", amount |-> -refund] \in LedgerRow
    BY <1>6 DEF LedgerRow
  <2> QED
    BY <1>5, <1>6, <2>1
<1>8. Credits' = Credits /\ Credits[i] = c
  BY <1>1, <1>3, CancelMoves DEF Credits
<1>9. /\ InForce(g)' = InForce(g) \ {i} /\ i \in InForce(g)
      /\ \A h \in Agents \ {g} : InForce(h)' = InForce(h)
  BY <1>1, <1>2, CancelMoves DEF InForce
<1>10. /\ IsFiniteSet(InForce(g)) /\ InForce(g) \subseteq DOMAIN policies
       /\ \A k \in DOMAIN policies : Credits[k] \in Nat
  BY InForceType
<1>11. \A k \in InForce(g) : Credits[k] \in Nat /\ Credits[k] \in Int
  BY <1>10
<1>12. SumFunctionOnSet(Credits, InForce(g)) = c + SumFunctionOnSet(Credits, InForce(g) \ {i})
  BY <1>8, <1>9, <1>10, <1>11, SumRemove
<1>13. SumFunctionOnSet(Credits, InForce(g) \ {i}) \in Nat
  <2>1. IsFiniteSet(InForce(g) \ {i})
    BY <1>10, FS_Subset
  <2> QED
    BY <1>11, <2>1, SumOfNats
<1>14. SumFunctionOnSet(Credits, InForce(g)) <= payable[g]
  BY DEF RefundsAreCovered
<1>15. payable[g] - refund \in Nat /\ SumFunctionOnSet(Credits, InForce(g) \ {i}) <= payable[g] - refund
  BY <1>4, <1>6, <1>12, <1>13, <1>14
<1>16. payable' \in [Agents -> Nat]
  BY <1>5, <1>6, <1>15
<1>17. ASSUME NEW h \in Agents PROVE SumFunctionOnSet(Credits, InForce(h))' <= payable'[h]
  <2>1. CASE h = g
    BY <1>5, <1>6, <1>8, <1>9, <1>15, <2>1
  <2>2. CASE h # g
    <3>1. payable'[h] = payable[h] /\ InForce(h)' = InForce(h)
      BY <1>5, <1>6, <1>9, <2>2
    <3> QED
      BY <1>8, <3>1 DEF RefundsAreCovered
  <2> QED
    BY <2>1, <2>2
<1> QED
  BY <1>7, <1>16, <1>17 DEF RefundsAreCovered

\* A cancellation keeps the rest: it takes a policy out of force, which gives
\* those that overlap it less to answer for, and others more reason to.
LEMMA CancelKeeps ==
    ASSUME LifecycleInv, NEW i \in DOMAIN policies, NEW p \in Refunds, CancelPolicy(i, p)
    PROVE  LifecycleInv'
<1> USE DEF LifecycleInv
<1>1. UNCHANGED <<app, changes, detail, assessed, history, inLease, req>>
  BY DEF CancelPolicy
<1>2. /\ policies' \in Seq(PolicyRow) /\ DOMAIN policies' = DOMAIN policies
      /\ \A k \in DOMAIN policies :
            /\ policies'[k].app = policies[k].app /\ policies'[k].assets = policies[k].assets
            /\ policies'[k].effective = policies[k].effective
            /\ policies'[k].expiry = policies[k].expiry
            /\ k # i => policies'[k].status = policies[k].status
      /\ policies[i].status = "ACTIVE" /\ policies'[i].status = "CANCELLED"
  BY CancelMoves
<1>3. payable' \in [Agents -> Nat] /\ ledger' \in Seq(LedgerRow) /\ RefundsAreCovered'
  BY CancelRefunds
<1>4. TypeOK'
  BY <1>1, <1>2, <1>3 DEF TypeOK
<1>5. PeriodsOK' /\ FilingIsPrivate' /\ PassedIsExclusive' /\ DecidedExactlyOnce'
  BY <1>1 DEF PeriodsOK, FilingIsPrivate, PassedIsExclusive, HasPassed, DecidedExactlyOnce
<1>6. IssuedExactlyOnce'
  BY <1>1, <1>2 DEF IssuedExactlyOnce
<1>7. PoliciesLast'
  BY <1>2 DEF PoliciesLast
<1>8. \A k \in DOMAIN policies : policies'[k].status = "ACTIVE" => policies[k].status = "ACTIVE"
  BY <1>2
<1>9. \A k \in DOMAIN policies : policies[k].status = "CANCELLED" => policies'[k].status = "CANCELLED"
  BY <1>2
<1>10. \A k \in DOMAIN policies, x \in Assets : CancelledSince(k, x) => CancelledSince(k, x)'
  BY <1>2, <1>9 DEF CancelledSince
<1>11. \A k \in DOMAIN policies : policies[k].assets \subseteq Assets
  BY PolicyColumns
<1>12. CheckedUnlessCancelled'
  <2> SUFFICES ASSUME NEW r \in Reqs, HasPassed(r), req[r].pc = "approveCommit",
                      NEW k \in DOMAIN policies, NEW x \in policies[k].assets \cap AssetsOf[req[r].app],
                      policies'[k].status = "ACTIVE", req[r].from < policies[k].expiry
               PROVE  CancelledSince(k, x)'
    BY <1>1, <1>2 DEF CheckedUnlessCancelled, HasPassed
  <2>1. CancelledSince(k, x)
    BY <1>8 DEF CheckedUnlessCancelled
  <2> QED
    BY <1>10, <1>11, <2>1
<1>13. OverlapNeedsCancellation'
  <2> SUFFICES ASSUME NEW j \in DOMAIN policies, NEW k \in DOMAIN policies, j < k,
                      policies'[j].status = "ACTIVE", policies'[k].status = "ACTIVE",
                      policies[j].effective < policies[k].expiry,
                      policies[k].effective < policies[j].expiry,
                      NEW x \in policies[j].assets \cap policies[k].assets
               PROVE  \E m \in DOMAIN policies :
                         /\ m < k /\ x \in policies[m].assets /\ policies'[m].status = "CANCELLED"
                         /\ policies[m].effective >= policies[j].effective
    BY <1>2 DEF OverlapNeedsCancellation
  <2>1. \E m \in DOMAIN policies :
                         /\ m < k /\ x \in policies[m].assets /\ policies[m].status = "CANCELLED"
                         /\ policies[m].effective >= policies[j].effective
    BY <1>8 DEF OverlapNeedsCancellation
  <2> QED
    BY <1>9, <2>1
<1> QED
  BY <1>3, <1>4, <1>5, <1>6, <1>7, <1>12, <1>13

\* Nothing is issued at first.
LEMMA InitLifecycleInv == Init => LifecycleInv
<1> SUFFICES ASSUME Init PROVE LifecycleInv
  OBVIOUS
<1>1. policies = << >> /\ DOMAIN policies = {} /\ \A g \in Agents : payable[g] = 0
  BY DEF Init
<1>2. IInv
  BY InitIInv
<1>3. RefundsAreCovered
  <2>1. \A g \in Agents : InForce(g) = {}
    BY <1>1 DEF InForce
  <2>2. \A g \in Agents : SumFunctionOnSet(Credits, InForce(g)) = 0
    BY <2>1, SumEmpty
  <2> QED
    BY <1>1, <2>2 DEF RefundsAreCovered
<1>4. PoliciesLast /\ CheckedUnlessCancelled /\ OverlapNeedsCancellation
  BY <1>1 DEF PoliciesLast, CheckedUnlessCancelled, OverlapNeedsCancellation
<1> QED
  BY <1>2, <1>3, <1>4 DEF IInv, LifecycleInv

\* Every step keeps the invariant: those of PolicyApproval by the lemmas about
\* each part, and a cancellation.
LEMMA StepLifecycleInv == LifecycleInv /\ [LifecycleNext]_vars => LifecycleInv'
<1> SUFFICES ASSUME LifecycleInv, [LifecycleNext]_vars PROVE LifecycleInv'
  OBVIOUS
<1>1. CASE [Next]_vars
  <2> USE DEF LifecycleInv
  <2>1. TypeOK'
    BY <1>1, TypeOKStep
  <2>2. PeriodsOK' /\ FilingIsPrivate'
    BY <1>1, <2>1, PeriodsStep, FilingStep
  <2>3. IssuedExactlyOnce' /\ DecidedExactlyOnce'
    BY <1>1, IssuedStep, DecidedStep
  <2>4. PassedIsExclusive'
    BY <1>1, <2>1, PassedStep
  <2>5. RefundsAreCovered'
    BY <1>1, <2>1, CoveredStep
  <2>6. CheckedUnlessCancelled'
    BY <1>1, <2>1, UnlessCancelledStep
  <2>7. PoliciesLast' /\ OverlapNeedsCancellation'
    BY <1>1, <2>1, OverlapStep
  <2> QED
    BY <2>1, <2>2, <2>3, <2>4, <2>5, <2>6, <2>7
<1>2. ASSUME NEW i \in DOMAIN policies, NEW p \in Refunds, CancelPolicy(i, p)
      PROVE  LifecycleInv'
  BY <1>2, CancelKeeps
<1> QED
  BY <1>1, <1>2 DEF LifecycleNext

\* The invariant of PolicyApproval without the order of its policies holds with
\* cancellations, and with it that an overlap is behind one.
THEOREM LifecycleInvariance == LifecycleSpec => []LifecycleInv
BY InitLifecycleInv, StepLifecycleInv, PTL DEF LifecycleSpec

\* Once policies are cancelled two in force may insure an asset on one day, but
\* only behind a cancelled one: the rule looks at the latest policy of an asset,
\* and a cancelled one hides those before it.
THEOREM OverlapsAreBehindACancellation == LifecycleSpec => []OverlapNeedsCancellation
<1>1. LifecycleInv => OverlapNeedsCancellation
  BY DEF LifecycleInv
<1> QED
  BY <1>1, LifecycleInvariance, PTL

\* The outcome of an application stays recorded once with cancellations too,
\* and the tables keep their types: no refund takes a balance below what the
\* policies in force could still be refunded.
THEOREM OutcomeOnceWithCancellations == LifecycleSpec => [](OutcomeIsRecordedOnce /\ TypeOK)
<1>1. LifecycleInv => OutcomeIsRecordedOnce /\ TypeOK
  BY DEF LifecycleInv, OutcomeIsRecordedOnce
<1> QED
  BY <1>1, LifecycleInvariance, PTL

-----------------------------------------------------------------------------
(* What a policy says once it is endorsed: EndorsedPolicy.                   *)

Wordings == [Correctable -> Texts]

Line == [field : Correctable, from : Texts, to : Texts, at : Nat]

Correction == [status : {"SUBMITTED", "APPROVED", "REJECTED"}, lines : Seq(Line), untouched : BOOLEAN]

\* Lines that can be folded.
Foldable(lines) ==
    /\ Len(lines) \in Nat
    /\ \A i \in 1..Len(lines) : lines[i].field \in Correctable /\ lines[i].to \in Texts

\* What is said after each of some lines, up to the k-th.
IsFold(says, lines, k, f) ==
    f = [i \in 0..k |-> IF i = 0 THEN says ELSE [f[i - 1] EXCEPT ![lines[i].field] = lines[i].to]]

\* The fold of the lines is one step after another.
LEMMA FoldExists ==
    ASSUME NEW says, NEW lines, Len(lines) \in Nat
    PROVE  \E f : IsFold(says, lines, Len(lines), f) /\ FoldLines(says, lines) = f[Len(lines)]
<1> DEFINE N == {k \in Nat : \E f : IsFold(says, lines, k, f)}
<1>1. 0 \in N
  <2> DEFINE f == [i \in 0..0 |-> says]
  <2>1. f = [i \in 0..0 |-> IF i = 0 THEN says ELSE [f[i - 1] EXCEPT ![lines[i].field] = lines[i].to]]
    OBVIOUS
  <2> HIDE DEF f
  <2> QED
    BY <2>1 DEF IsFold
<1>2. ASSUME NEW k \in N PROVE k + 1 \in N
  <2>1. PICK f : IsFold(says, lines, k, f)
    OBVIOUS
  <2> DEFINE g == [i \in 0..(k + 1) |->
                      IF i = k + 1 THEN [f[k] EXCEPT ![lines[k + 1].field] = lines[k + 1].to] ELSE f[i]]
  <2>2. k \in Nat
    OBVIOUS
  <2>3. \A i \in 0..k : f[i] = IF i = 0 THEN says ELSE [f[i - 1] EXCEPT ![lines[i].field] = lines[i].to]
    BY <2>1, Zenon DEF IsFold
  <2>4. \A i \in 0..(k + 1) :
           g[i] = IF i = 0 THEN says ELSE [g[i - 1] EXCEPT ![lines[i].field] = lines[i].to]
    <3> TAKE i \in 0..(k + 1)
    <3>1. CASE i = k + 1
      <4>1. i # 0 /\ i - 1 = k /\ k \in 0..(k + 1) /\ k # k + 1
        BY <2>2, <3>1
      <4>2. g[k] = f[k]
        BY <4>1
      <4> QED
        BY <3>1, <4>1, <4>2
    <3>2. CASE i # k + 1
      <4>1. i \in 0..k
        BY <2>2, <3>2
      <4>2. CASE i = 0
        BY <2>3, <3>2, <4>1, <4>2
      <4>3. CASE i # 0
        <5>1. i - 1 \in 0..(k + 1) /\ i - 1 # k + 1
          BY <2>2, <4>1, <4>3
        <5>2. g[i - 1] = f[i - 1] /\ g[i] = f[i]
          BY <3>2, <5>1
        <5> HIDE DEF g
        <5> QED
          BY <2>3, <4>1, <4>3, <5>2
      <4> QED
        BY <4>2, <4>3
    <3> QED
      BY <3>1, <3>2
  <2>5. g = [i \in 0..(k + 1) |-> g[i]]
    OBVIOUS
  <2> HIDE DEF g
  <2>6. IsFold(says, lines, k + 1, g)
    BY <2>4, <2>5, Zenon DEF IsFold
  <2> QED
    BY <2>2, <2>6
<1>3. N = Nat
  <2>1. N \in SUBSET Nat
    OBVIOUS
  <2> HIDE DEF N
  <2> QED
    BY <1>1, <1>2, <2>1, NatIsInductive
<1>4. PICK f : IsFold(says, lines, Len(lines), f)
  BY <1>3
<1> DEFINE h == CHOOSE f0 : f0 = [i \in 0..Len(lines) |->
                    IF i = 0 THEN says ELSE [f0[i - 1] EXCEPT ![lines[i].field] = lines[i].to]]
<1>5. FoldLines(says, lines) = h[Len(lines)]
  BY DEF FoldLines
<1>6. IsFold(says, lines, Len(lines), h)
  BY <1>4 DEF IsFold
<1> QED
  BY <1>5, <1>6

\* What the fold of lines says: in each field, what the last line of that field
\* changes it to, or what was said before.
LEMMA FoldSays ==
    ASSUME NEW says \in Wordings, NEW lines, Foldable(lines)
    PROVE  /\ FoldLines(says, lines) \in Wordings
           /\ \A d \in Correctable :
                 (\A i \in 1..Len(lines) : lines[i].field # d) => FoldLines(says, lines)[d] = says[d]
           /\ \A j \in 1..Len(lines) :
                 (\A i \in 1..Len(lines) : i > j => lines[i].field # lines[j].field) =>
                     FoldLines(says, lines)[lines[j].field] = lines[j].to
<1>1. Len(lines) \in Nat
  BY DEF Foldable
<1>2. PICK f : IsFold(says, lines, Len(lines), f) /\ FoldLines(says, lines) = f[Len(lines)]
  BY <1>1, FoldExists
<1>3. \A i \in 0..Len(lines) :
         f[i] = IF i = 0 THEN says ELSE [f[i - 1] EXCEPT ![lines[i].field] = lines[i].to]
  BY <1>2, Zenon DEF IsFold
<1> DEFINE Says(k) ==
        /\ f[k] \in Wordings
        /\ \A d \in Correctable : (\A i \in 1..k : lines[i].field # d) => f[k][d] = says[d]
        /\ \A j \in 1..k :
              (\A i \in 1..k : i > j => lines[i].field # lines[j].field) => f[k][lines[j].field] = lines[j].to
    N == {k \in Nat : k <= Len(lines) => Says(k)}
<1>4. 0 \in N
  <2>1. f[0] = says
    <3>1. 0 \in 0..Len(lines)
      BY <1>1
    <3> QED
      BY <1>3, <3>1, Zenon
  <2> QED
    BY <2>1
<1>5. ASSUME NEW k \in N PROVE k + 1 \in N
  <2> SUFFICES ASSUME k + 1 <= Len(lines) PROVE Says(k + 1)
    OBVIOUS
  <2>1. k \in Nat /\ Says(k)
    BY <1>1
  <2> DEFINE line == lines[k + 1]
  <2>2. line.field \in Correctable /\ line.to \in Texts
    BY <1>1, <2>1 DEF Foldable
  <2>3. f[k + 1] = [f[k] EXCEPT ![line.field] = line.to]
    <3>1. k + 1 \in 0..Len(lines) /\ k + 1 # 0 /\ (k + 1) - 1 = k
      BY <1>1, <2>1
    <3> QED
      BY <1>3, <3>1
  <2> DEFINE a == f[k]
             b == f[k + 1]
  <2>4. a \in Wordings /\ b = [a EXCEPT ![line.field] = line.to]
    BY <2>1, <2>3
  <2> HIDE DEF a, b, line
  <2>5. b \in Wordings /\ b[line.field] = line.to /\ \A d \in Correctable : d # line.field => b[d] = a[d]
    BY <2>2, <2>4 DEF Wordings
  <2>6. \A d \in Correctable : (\A i \in 1..(k + 1) : lines[i].field # d) => b[d] = says[d]
    <3> TAKE d \in Correctable
    <3> HAVE \A i \in 1..(k + 1) : lines[i].field # d
    <3>1. d # line.field /\ \A i \in 1..k : lines[i].field # d
      BY <2>1 DEF line
    <3> QED
      BY <2>1, <2>5, <3>1 DEF a
  <2>7. \A j \in 1..(k + 1) :
           (\A i \in 1..(k + 1) : i > j => lines[i].field # lines[j].field) => b[lines[j].field] = lines[j].to
    <3> TAKE j \in 1..(k + 1)
    <3> HAVE \A i \in 1..(k + 1) : i > j => lines[i].field # lines[j].field
    <3>1. CASE j = k + 1
      BY <2>5, <3>1 DEF line
    <3>2. CASE j # k + 1
      <4>1. j \in 1..k /\ k + 1 > j /\ k + 1 \in 1..(k + 1)
        BY <2>1, <3>2
      <4>2. lines[j].field # line.field /\ \A i \in 1..k : i > j => lines[i].field # lines[j].field
        BY <2>1, <4>1 DEF line
      <4>3. a[lines[j].field] = lines[j].to
        BY <2>1, <4>1, <4>2 DEF a
      <4>4. lines[j].field \in Correctable
        BY <1>1, <2>1, <4>1 DEF Foldable
      <4> QED
        BY <2>5, <4>2, <4>3, <4>4
    <3> QED
      BY <3>1, <3>2
  <2> QED
    BY <2>5, <2>6, <2>7 DEF b
<1>6. N = Nat
  <2>1. N \in SUBSET Nat
    OBVIOUS
  <2> HIDE DEF N
  <2> QED
    BY <1>4, <1>5, <2>1, NatIsInductive
<1>7. Says(Len(lines))
  BY <1>1, <1>6
<1> QED
  BY <1>2, <1>7

\* What the policy says after each of some requests, up to the k-th.
IsHistory(c, numbers, k, g) ==
    g = [n \in 0..k |-> IF n = 0 THEN AsIssued
                        ELSE IF n \in numbers THEN FoldLines(g[n - 1], c[n].lines)
                        ELSE g[n - 1]]

FoldedOf(c, numbers) ==
    LET after[n \in 0..Len(c)] ==
            IF n = 0 THEN AsIssued
            ELSE IF n \in numbers THEN FoldLines(after[n - 1], c[n].lines)
            ELSE after[n - 1]
    IN  after[Len(c)]

\* The fold of the requests is one step after another.
LEMMA HistoryExists ==
    ASSUME NEW c, NEW numbers, Len(c) \in Nat
    PROVE  \E g : IsHistory(c, numbers, Len(c), g) /\ FoldedOf(c, numbers) = g[Len(c)]
<1> DEFINE After(n, says) == IF n \in numbers THEN FoldLines(says, c[n].lines) ELSE says
           N == {k \in Nat : \E g : IsHistory(c, numbers, k, g)}
<1>1. 0 \in N
  <2> DEFINE g == [n \in 0..0 |-> AsIssued]
  <2>1. g = [n \in 0..0 |-> IF n = 0 THEN AsIssued
                            ELSE IF n \in numbers THEN FoldLines(g[n - 1], c[n].lines) ELSE g[n - 1]]
    OBVIOUS
  <2> HIDE DEF g
  <2> QED
    BY <2>1 DEF IsHistory
<1>2. ASSUME NEW k \in N PROVE k + 1 \in N
  <2>1. PICK f : IsHistory(c, numbers, k, f)
    OBVIOUS
  <2> DEFINE g == [n \in 0..(k + 1) |-> IF n = k + 1 THEN After(k + 1, f[k]) ELSE f[n]]
  <2>2. k \in Nat
    OBVIOUS
  <2>3. \A n \in 0..k : f[n] = IF n = 0 THEN AsIssued ELSE After(n, f[n - 1])
    BY <2>1, Zenon DEF IsHistory
  <2> HIDE DEF After
  <2>4. \A n \in 0..(k + 1) : g[n] = IF n = 0 THEN AsIssued ELSE After(n, g[n - 1])
    <3> TAKE n \in 0..(k + 1)
    <3>1. CASE n = k + 1
      <4>1. n # 0 /\ n - 1 = k /\ k \in 0..(k + 1) /\ k # k + 1
        BY <2>2, <3>1
      <4>2. g[k] = f[k]
        BY <4>1
      <4> QED
        BY <3>1, <4>1, <4>2
    <3>2. CASE n # k + 1
      <4>1. n \in 0..k /\ g[n] = f[n]
        BY <2>2, <3>2
      <4>2. CASE n = 0
        BY <2>3, <4>1, <4>2
      <4>3. CASE n # 0
        <5>1. n - 1 \in 0..(k + 1) /\ n - 1 # k + 1
          BY <2>2, <4>1, <4>3
        <5>2. g[n - 1] = f[n - 1]
          BY <5>1
        <5> HIDE DEF g
        <5> QED
          BY <2>3, <4>1, <4>3, <5>2
      <4> QED
        BY <4>2, <4>3
    <3> QED
      BY <3>1, <3>2
  <2>5. g = [n \in 0..(k + 1) |-> g[n]]
    OBVIOUS
  <2> HIDE DEF g
  <2>6. IsHistory(c, numbers, k + 1, g)
    BY <2>4, <2>5, Zenon DEF IsHistory, After
  <2> QED
    BY <2>2, <2>6
<1>3. N = Nat
  <2>1. N \in SUBSET Nat
    OBVIOUS
  <2> HIDE DEF N
  <2> QED
    BY <1>1, <1>2, <2>1, NatIsInductive
<1>4. PICK f : IsHistory(c, numbers, Len(c), f)
  BY <1>3
<1> DEFINE h == CHOOSE f0 : f0 = [n \in 0..Len(c) |->
                    IF n = 0 THEN AsIssued
                    ELSE IF n \in numbers THEN FoldLines(f0[n - 1], c[n].lines) ELSE f0[n - 1]]
<1>5. FoldedOf(c, numbers) = h[Len(c)]
  BY DEF FoldedOf
<1>6. IsHistory(c, numbers, Len(c), h)
  BY <1>4 DEF IsHistory
<1> QED
  BY <1>5, <1>6

\* One step of it.
LEMMA HistoryStep ==
    ASSUME NEW c, NEW numbers, NEW k \in Nat, NEW g, IsHistory(c, numbers, k, g)
    PROVE  /\ g[0] = AsIssued
           /\ \A n \in 1..k : /\ n \in numbers => g[n] = FoldLines(g[n - 1], c[n].lines)
                              /\ n \notin numbers => g[n] = g[n - 1]
<1>1. \A n \in 0..k : g[n] = IF n = 0 THEN AsIssued
                             ELSE IF n \in numbers THEN FoldLines(g[n - 1], c[n].lines)
                             ELSE g[n - 1]
  BY Zenon DEF IsHistory
<1>2. 0 \in 0..k /\ \A n \in 1..k : n \in 0..k /\ n # 0
  OBVIOUS
<1> QED
  BY <1>1, <1>2, Zenon

\* Two of them agree as far as the same requests, with the same lines, are folded.
LEMMA HistoriesAgree ==
    ASSUME NEW c, NEW M, NEW m \in Nat, NEW g, IsHistory(c, M, m, g),
           NEW d, NEW N, NEW n \in Nat, NEW h, IsHistory(d, N, n, h),
           NEW k \in Nat, k <= m, k <= n,
           \A i \in 1..k : (i \in M <=> i \in N) /\ (i \in M => c[i].lines = d[i].lines)
    PROVE  g[k] = h[k]
<1> DEFINE P == {i \in Nat : i <= k => g[i] = h[i]}
<1>1. g[0] = h[0]
  BY HistoryStep
<1>2. ASSUME NEW i \in P PROVE i + 1 \in P
  <2> SUFFICES ASSUME i + 1 <= k PROVE g[i + 1] = h[i + 1]
    OBVIOUS
  <2>1. i + 1 \in 1..m /\ i + 1 \in 1..n /\ i + 1 \in 1..k /\ (i + 1) - 1 = i /\ g[i] = h[i]
    OBVIOUS
  <2>2. /\ i + 1 \in M => g[i + 1] = FoldLines(g[i], c[i + 1].lines)
        /\ i + 1 \notin M => g[i + 1] = g[i]
    BY <2>1, HistoryStep
  <2>3. /\ i + 1 \in N => h[i + 1] = FoldLines(h[i], d[i + 1].lines)
        /\ i + 1 \notin N => h[i + 1] = h[i]
    BY <2>1, HistoryStep
  <2> QED
    BY <2>1, <2>2, <2>3
<1>3. P = Nat
  <2>1. P \in SUBSET Nat /\ 0 \in P
    BY <1>1
  <2> HIDE DEF P
  <2> QED
    BY <1>2, <2>1, NatIsInductive
<1> QED
  BY <1>3

\* Where nothing is folded, it says the same on.
LEMMA HistoryRests ==
    ASSUME NEW c, NEW numbers, NEW m \in Nat, NEW g, IsHistory(c, numbers, m, g),
           NEW j \in 0..m, \A i \in 1..m : i > j => i \notin numbers
    PROVE  g[m] = g[j]
<1> DEFINE P == {i \in Nat : j <= i /\ i <= m => g[i] = g[j]}
<1>1. 0 \in P
  OBVIOUS
<1>2. ASSUME NEW i \in P PROVE i + 1 \in P
  <2> SUFFICES ASSUME j <= i + 1, i + 1 <= m PROVE g[i + 1] = g[j]
    OBVIOUS
  <2>1. CASE j = i + 1
    BY <2>1
  <2>2. CASE j # i + 1
    <3>1. i + 1 \in 1..m /\ i + 1 > j /\ (i + 1) - 1 = i /\ j <= i /\ i <= m
      BY <2>2
    <3>2. i + 1 \notin numbers /\ g[i] = g[j]
      BY <3>1
    <3>3. g[i + 1] = g[(i + 1) - 1]
      BY <3>1, <3>2, HistoryStep
    <3> QED
      BY <3>1, <3>2, <3>3
  <2> QED
    BY <2>1, <2>2
<1>3. P = Nat
  <2>1. P \in SUBSET Nat
    OBVIOUS
  <2> HIDE DEF P
  <2> QED
    BY <1>1, <1>2, <2>1, NatIsInductive
<1>4. m \in P
  BY <1>3
<1> QED
  BY <1>4

\* What is folded is all that counts, though requests are filed later.
LEMMA FoldedSame ==
    ASSUME NEW c, NEW d, Len(c) \in Nat, Len(d) \in Nat, Len(c) <= Len(d),
           NEW numbers, numbers \subseteq 1..Len(c), \A n \in numbers : c[n].lines = d[n].lines
    PROVE  FoldedOf(c, numbers) = FoldedOf(d, numbers)
<1>1. PICK g : IsHistory(c, numbers, Len(c), g) /\ FoldedOf(c, numbers) = g[Len(c)]
  BY HistoryExists
<1>2. PICK h : IsHistory(d, numbers, Len(d), h) /\ FoldedOf(d, numbers) = h[Len(d)]
  BY HistoryExists
<1>3. g[Len(c)] = h[Len(c)]
  BY <1>1, <1>2, HistoriesAgree
<1>4. h[Len(d)] = h[Len(c)]
  <2>1. PICK m \in Nat : m = Len(d)
    OBVIOUS
  <2>2. PICK j \in 0..m : j = Len(c)
    BY <2>1
  <2>3. IsHistory(d, numbers, m, h) /\ \A i \in 1..m : i > j => i \notin numbers
    BY <1>2, <2>1, <2>2
  <2>4. h[m] = h[j]
    BY <2>3, HistoryRests
  <2> QED
    BY <2>1, <2>2, <2>4
<1> QED
  BY <1>1, <1>2, <1>3, <1>4

\* Requests are folded into what a policy may say.
LEMMA FoldedType ==
    ASSUME NEW c, Len(c) \in Nat, NEW numbers, \A n \in 1..Len(c) : Foldable(c[n].lines)
    PROVE  FoldedOf(c, numbers) \in Wordings
<1>1. PICK g : IsHistory(c, numbers, Len(c), g) /\ FoldedOf(c, numbers) = g[Len(c)]
  BY HistoryExists
<1> DEFINE P == {i \in Nat : i <= Len(c) => g[i] \in Wordings}
<1>2. 0 \in P
  <2>1. g[0] = AsIssued
    BY <1>1, HistoryStep
  <2>2. AsIssued \in Wordings
    BY EndorsedAssumption DEF Wordings
  <2> QED
    BY <2>1, <2>2
<1>3. ASSUME NEW i \in P PROVE i + 1 \in P
  <2> SUFFICES ASSUME i + 1 <= Len(c) PROVE g[i + 1] \in Wordings
    OBVIOUS
  <2>1. i + 1 \in 1..Len(c) /\ (i + 1) - 1 = i /\ g[i] \in Wordings
    OBVIOUS
  <2>2. /\ i + 1 \in numbers => g[i + 1] = FoldLines(g[i], c[i + 1].lines)
        /\ i + 1 \notin numbers => g[i + 1] = g[i]
    BY <1>1, <2>1, HistoryStep
  <2>3. FoldLines(g[i], c[i + 1].lines) \in Wordings
    BY <2>1, FoldSays
  <2> QED
    BY <2>1, <2>2, <2>3
<1>4. P = Nat
  <2>1. P \in SUBSET Nat
    OBVIOUS
  <2> HIDE DEF P
  <2> QED
    BY <1>2, <1>3, <2>1, NatIsInductive
<1>5. g[Len(c)] \in Wordings
  BY <1>4
<1> QED
  BY <1>1, <1>5

-----------------------------------------------------------------------------

\* What the lines say was said before, each in its field.
Tell(lines, says) == \A i \in DOMAIN lines : lines[i].from = says[lines[i].field] /\ lines[i].from # lines[i].to

ApprovedOf(c)  == {n \in DOMAIN c : c[n].status = "APPROVED"}
UndecidedOf(c) == {n \in DOMAIN c : c[n].status = "SUBMITTED"}
BeforeOf(c, n) == {m \in ApprovedOf(c) : m < n}

\* While one waits and nothing is decided, its lines were filed against what the
\* policy says; once approved, against what the approved ones before it said,
\* and no more of those come.
Told(c) ==
    /\ \A n \in UndecidedOf(c) : c[n].untouched =>
          /\ \A m \in ApprovedOf(c) : m < n
          /\ DifferentFields(c[n].lines) => Tell(c[n].lines, FoldedOf(c, ApprovedOf(c)))
    /\ \A n \in ApprovedOf(c) : c[n].untouched =>
          /\ \A m \in UndecidedOf(c) : m > n
          /\ DifferentFields(c[n].lines) => Tell(c[n].lines, FoldedOf(c, BeforeOf(c, n)))

TellInv == corrections \in Seq(Correction) /\ Told(corrections)

\* Lines on file can be folded.
LEMMA LinesFold ==
    ASSUME NEW lines \in Seq(Line)
    PROVE  Foldable(lines) /\ DOMAIN lines = 1..Len(lines) /\ \A i \in 1..Len(lines) : lines[i] \in Line
<1>1. Len(lines) \in Nat /\ DOMAIN lines = 1..Len(lines) /\ \A i \in 1..Len(lines) : lines[i] \in Line
  OBVIOUS
<1>2. \A x \in Line : x.field \in Correctable /\ x.to \in Texts
  BY DEF Line
<1> QED
  BY <1>1, <1>2 DEF Foldable

\* What a sequence of requests is.
LEMMA RequestsAre ==
    ASSUME NEW c \in Seq(Correction)
    PROVE  /\ Len(c) \in Nat /\ DOMAIN c = 1..Len(c)
           /\ \A n \in 1..Len(c) : /\ c[n] \in Correction /\ c[n].lines \in Seq(Line)
                                  /\ Foldable(c[n].lines)
<1>1. Len(c) \in Nat /\ DOMAIN c = 1..Len(c) /\ \A n \in 1..Len(c) : c[n] \in Correction
  OBVIOUS
<1>2. \A x \in Correction : x.lines \in Seq(Line)
  BY DEF Correction
<1> QED
  BY <1>1, <1>2, LinesFold

\* Up to a request, and up to the one before it with its own lines.
LEMMA FoldUpTo ==
    ASSUME corrections \in Seq(Correction), NEW n \in Approved
    PROVE  Folded({m \in Approved : m <= n}) = FoldLines(Baseline(n), corrections[n].lines)
<1> DEFINE c == corrections
           M == {m \in Approved : m <= n}
           N == {m \in Approved : m < n}
<1>1. Len(c) \in Nat /\ n \in 1..Len(c) /\ Approved \subseteq 1..Len(c)
  BY RequestsAre DEF Approved, Numbers
<1>2. PICK g : IsHistory(c, M, Len(c), g) /\ FoldedOf(c, M) = g[Len(c)]
  BY <1>1, HistoryExists
<1>3. PICK h : IsHistory(c, N, Len(c), h) /\ FoldedOf(c, N) = h[Len(c)]
  BY <1>1, HistoryExists
<1>4. Folded(M) = FoldedOf(c, M) /\ Baseline(n) = FoldedOf(c, N)
  BY DEF Baseline, Before, Folded, FoldedOf
<1> HIDE DEF c
<1>5. n \in M /\ n \notin N /\ n - 1 \in 0..Len(c) /\ n \in 0..Len(c) /\ n - 1 \in Nat
  BY <1>1
<1>6. g[Len(c)] = g[n]
  <2>1. PICK m \in Nat : m = Len(c)
    BY <1>1
  <2>2. PICK j \in 0..m : j = n
    BY <1>5, <2>1
  <2>3. IsHistory(c, M, m, g) /\ \A i \in 1..m : i > j => i \notin M
    BY <1>1, <1>2, <2>1, <2>2
  <2> HIDE DEF M
  <2>4. g[m] = g[j]
    BY <2>3, HistoryRests
  <2> QED
    BY <2>1, <2>2, <2>4
<1>7. h[Len(c)] = h[n - 1]
  <2>1. PICK m \in Nat : m = Len(c)
    BY <1>1
  <2>2. PICK j \in 0..m : j = n - 1
    BY <1>5, <2>1
  <2>3. IsHistory(c, N, m, h) /\ \A i \in 1..m : i > j => i \notin N
    BY <1>1, <1>3, <2>1, <2>2
  <2> HIDE DEF N
  <2>4. h[m] = h[j]
    BY <2>3, HistoryRests
  <2> QED
    BY <2>1, <2>2, <2>4
<1>8. g[n - 1] = h[n - 1]
  <2>1. PICK k \in Nat : k = n - 1
    BY <1>5
  <2>2. k <= Len(c) /\ \A i \in 1..k : (i \in M <=> i \in N) /\ (i \in M => c[i].lines = c[i].lines)
    BY <1>1, <1>5, <2>1
  <2> HIDE DEF M, N
  <2>3. g[k] = h[k]
    BY <1>1, <1>2, <1>3, <2>2, HistoriesAgree
  <2> QED
    BY <2>1, <2>3
<1>9. g[n] = FoldLines(g[n - 1], c[n].lines)
  <2> HIDE DEF M
  <2> QED
    BY <1>1, <1>2, <1>5, HistoryStep
<1> QED
  BY <1>2, <1>3, <1>4, <1>6, <1>7, <1>8, <1>9 DEF c

\* One that tells what was said before says what it changes it to.
LEMMA TellInvTells == TellInv => TellsTheChange
<1> SUFFICES ASSUME TellInv, NEW n \in Approved, corrections[n].untouched,
                    DifferentFields(corrections[n].lines), NEW i \in DOMAIN corrections[n].lines
             PROVE  LET line == corrections[n].lines[i]
                    IN  /\ line.from # line.to
                        /\ line.field \in Heading =>
                              /\ DocumentOf(n).heading[line.field] = line.from
                              /\ Approved \subseteq 1..n => PageOf(n).heading[line.field] = line.to
                        /\ line.field = PeriodStart =>
                              DocumentOf(n).period = line.to /\ PageOf(n).period = line.to
  BY Zenon DEF TellsTheChange
<1> DEFINE lines == corrections[n].lines
           says  == Baseline(n)
<1>1. /\ Len(corrections) \in Nat /\ n \in 1..Len(corrections)
      /\ \A m \in 1..Len(corrections) : Foldable(corrections[m].lines)
      /\ lines \in Seq(Line)
  BY RequestsAre DEF TellInv, Approved, Numbers
<1>2. says \in Wordings
  <2>1. says = FoldedOf(corrections, Before(n))
    BY DEF Folded, FoldedOf, Baseline
  <2> QED
    BY <1>1, <2>1, FoldedType
<1>3. Tell(lines, says)
  <2>1. says = FoldedOf(corrections, BeforeOf(corrections, n))
    BY DEF Folded, FoldedOf, Baseline, Before, BeforeOf, Approved, ApprovedOf, Numbers
  <2> QED
    BY <2>1 DEF TellInv, Told, Approved, ApprovedOf, Numbers, DifferentFields
<1>4. Folded({m \in Approved : m <= n}) = FoldLines(says, lines)
  BY FoldUpTo DEF TellInv
<1>5. Approved \subseteq 1..n => PolicySays = FoldLines(says, lines)
  <2>1. ASSUME Approved \subseteq 1..n PROVE {m \in Approved : m <= n} = Approved
    BY <1>1, <2>1 DEF Approved, Numbers
  <2> QED
    BY <1>4, <2>1 DEF PolicySays
<1>6. /\ DocumentOf(n).heading = HeadingOf(says)
      /\ DocumentOf(n).period = FoldLines(says, lines)[PeriodStart]
      /\ PageOf(n).heading = HeadingOf(PolicySays)
      /\ PageOf(n).period = FoldLines(says, lines)[PeriodStart]
  BY <1>4 DEF DocumentOf, PageOf
<1> HIDE DEF says
<1>7. Foldable(lines) /\ DOMAIN lines = 1..Len(lines) /\ i \in 1..Len(lines) /\ Len(lines) \in Nat
  BY <1>1, LinesFold DEF lines
<1>8. \A j \in 1..Len(lines) : j > i => lines[j].field # lines[i].field
  BY <1>7 DEF lines, DifferentFields
<1> HIDE DEF lines
<1>9. FoldLines(says, lines)[lines[i].field] = lines[i].to
  BY <1>2, <1>7, <1>8, FoldSays
<1>10. says[lines[i].field] = lines[i].from /\ lines[i].from # lines[i].to
  BY <1>3, <1>7 DEF Tell
<1> QED
  BY <1>5, <1>6, <1>9, <1>10 DEF HeadingOf, lines

\* A step that approves none keeps what was told.
LEMMA NoneApproved ==
    ASSUME NEW c \in Seq(Correction), Told(c), NEW d \in Seq(Correction), Len(c) <= Len(d),
           ApprovedOf(d) = ApprovedOf(c), \A n \in UndecidedOf(d) : n \in UndecidedOf(c) \/ n > Len(c),
           \A n \in ApprovedOf(c) : d[n].lines = c[n].lines /\ (d[n].untouched => c[n].untouched),
           \A n \in UndecidedOf(d) : d[n].untouched =>
               /\ \A m \in ApprovedOf(c) : m < n
               /\ DifferentFields(d[n].lines) => Tell(d[n].lines, FoldedOf(c, ApprovedOf(c)))
    PROVE  Told(d)
<1>1. /\ Len(c) \in Nat /\ DOMAIN c = 1..Len(c) /\ Len(d) \in Nat /\ DOMAIN d = 1..Len(d)
      /\ ApprovedOf(c) \subseteq 1..Len(c)
  BY RequestsAre DEF ApprovedOf
<1>2. FoldedOf(d, ApprovedOf(d)) = FoldedOf(c, ApprovedOf(c))
  BY <1>1, FoldedSame
<1>3. ASSUME NEW n \in ApprovedOf(d), d[n].untouched
      PROVE  /\ \A m \in UndecidedOf(d) : m > n
             /\ DifferentFields(d[n].lines) => Tell(d[n].lines, FoldedOf(d, BeforeOf(d, n)))
  <2>1. n \in ApprovedOf(c) /\ c[n].untouched /\ d[n].lines = c[n].lines /\ n \in 1..Len(c)
    BY <1>1, <1>3
  <2>2. /\ \A m \in UndecidedOf(c) : m > n
        /\ DifferentFields(c[n].lines) => Tell(c[n].lines, FoldedOf(c, BeforeOf(c, n)))
    BY <2>1 DEF Told
  <2>3. BeforeOf(d, n) = BeforeOf(c, n) /\ BeforeOf(c, n) \subseteq 1..Len(c)
    BY <1>1 DEF BeforeOf
  <2>4. FoldedOf(d, BeforeOf(d, n)) = FoldedOf(c, BeforeOf(c, n))
    <3>1. \A m \in BeforeOf(c, n) : c[m].lines = d[m].lines
      BY DEF BeforeOf
    <3> QED
      BY <1>1, <2>3, <3>1, FoldedSame
  <2>5. \A m \in UndecidedOf(d) : m > n
    <3>1. \A m \in UndecidedOf(d) : m \in Nat
      BY <1>1 DEF UndecidedOf
    <3> QED
      BY <1>1, <2>1, <2>2, <3>1
  <2> QED
    BY <2>1, <2>2, <2>4, <2>5
<1> QED
  BY <1>2, <1>3 DEF Told

\* An approval touches what else waits, and comes after all before it.
LEMMA ApproveTells == ASSUME TellInv, NEW n \in Numbers, ApproveFiled(n) PROVE TellInv'
<1> DEFINE c == corrections
           d == corrections'
<1>1. /\ Len(c) \in Nat /\ DOMAIN c = 1..Len(c) /\ n \in 1..Len(c) /\ c[n].status = "SUBMITTED"
      /\ ApprovedOf(c) \subseteq 1..Len(c) /\ \A m \in 1..Len(c) : c[m] \in Correction
  BY RequestsAre DEF TellInv, Numbers, ApproveFiled, ApprovedOf
<1>2. Undecided = UndecidedOf(c)
  BY DEF Undecided, UndecidedOf, Numbers
<1> DEFINE t == Touched(n)
<1>3. t = [m \in 1..Len(c) |-> [c[m] EXCEPT !.untouched = c[m].untouched /\ (m = n \/ m \notin UndecidedOf(c))]]
  BY <1>1, <1>2 DEF Touched, Numbers
<1>4. d = [t EXCEPT ![n].status = "APPROVED",
                    ![n].untouched = @ /\ \A m \in UndecidedOf(c) : m >= n]
  BY <1>2 DEF ApproveFiled
<1> HIDE DEF c, d, t
<1>5. ASSUME NEW m \in 1..Len(c)
      PROVE  /\ t[m] \in Correction /\ t[m].status = c[m].status /\ t[m].lines = c[m].lines
             /\ t[m].untouched => c[m].untouched /\ (m = n \/ m \notin UndecidedOf(c))
  <2>1. t[m] = [c[m] EXCEPT !.untouched = c[m].untouched /\ (m = n \/ m \notin UndecidedOf(c))]
    BY <1>3
  <2>2. c[m] \in Correction
    BY <1>1
  <2> QED
    BY <2>1, <2>2 DEF Correction
<1>6. DOMAIN d = 1..Len(c) /\ \A m \in 1..Len(c) \ {n} : d[m] = t[m]
  BY <1>1, <1>3, <1>4
<1>7. /\ d[n] \in Correction /\ d[n].status = "APPROVED" /\ d[n].lines = c[n].lines
      /\ d[n].untouched => t[n].untouched /\ \A m \in UndecidedOf(c) : m >= n
  <2> DEFINE quiet == t[n].untouched /\ \A m \in UndecidedOf(c) : m >= n
  <2>1. d[n] = [t[n] EXCEPT !.status = "APPROVED", !.untouched = quiet]
    BY <1>1, <1>3, <1>4
  <2>2. t[n] \in Correction /\ t[n].lines = c[n].lines
    BY <1>1, <1>5
  <2>3. quiet \in BOOLEAN
    OBVIOUS
  <2> HIDE DEF quiet
  <2>4. d[n].untouched = quiet
    BY <2>1, <2>2 DEF Correction
  <2>5. d[n] \in Correction /\ d[n].status = "APPROVED" /\ d[n].lines = c[n].lines
    BY <2>1, <2>2, <2>3 DEF Correction
  <2> QED
    BY <2>4, <2>5, Zenon DEF quiet
<1>8. d \in Seq(Correction) /\ Len(d) = Len(c)
  <2>1. d = [m \in 1..Len(c) |-> d[m]]
    BY <1>1, <1>3, <1>4
  <2>2. \A m \in 1..Len(c) : d[m] \in Correction
    BY <1>5, <1>6, <1>7
  <2> QED
    BY <1>1, <2>1, <2>2
<1>9. ApprovedOf(d) = ApprovedOf(c) \cup {n} /\ UndecidedOf(d) = UndecidedOf(c) \ {n} /\ n \in UndecidedOf(c)
  BY <1>1, <1>5, <1>6, <1>7 DEF ApprovedOf, UndecidedOf
<1>10. Told(c)
  BY DEF TellInv, c
<1>11. c \in Seq(Correction)
  BY DEF TellInv, c
<1>12. ASSUME NEW m \in UndecidedOf(d) PROVE ~d[m].untouched
  <2>1. m \in 1..Len(c) /\ m # n /\ m \in UndecidedOf(c)
    BY <1>1, <1>9 DEF UndecidedOf
  <2>2. d[m] = t[m] /\ (t[m].untouched => m \notin UndecidedOf(c))
    BY <1>5, <1>6, <2>1
  <2> QED
    BY <2>1, <2>2
<1>13. ASSUME NEW m \in ApprovedOf(d), d[m].untouched
       PROVE  /\ \A k \in UndecidedOf(d) : k > m
              /\ DifferentFields(d[m].lines) => Tell(d[m].lines, FoldedOf(d, BeforeOf(d, m)))
  <2>1. ASSUME NEW k \in ApprovedOf(c) PROVE d[k].lines = c[k].lines
    BY <1>1, <1>5, <1>6, <1>9, <2>1 DEF ApprovedOf, UndecidedOf
  <2>2. CASE m = n
    <3>1. t[n].untouched /\ \A k \in UndecidedOf(c) : k >= n
      BY <1>7, <1>13, <2>2
    <3>2. c[n].untouched
      BY <1>1, <1>5, <3>1
    <3>3. /\ \A k \in ApprovedOf(c) : k < n
          /\ DifferentFields(c[n].lines) => Tell(c[n].lines, FoldedOf(c, ApprovedOf(c)))
      BY <1>9, <1>10, <3>2 DEF Told
    <3>4. BeforeOf(d, n) = ApprovedOf(c)
      BY <1>1, <1>9, <3>3 DEF BeforeOf
    <3>5. FoldedOf(d, ApprovedOf(c)) = FoldedOf(c, ApprovedOf(c))
      BY <1>1, <1>8, <2>1, FoldedSame
    <3>6. \A k \in UndecidedOf(d) : k > n
      BY <1>1, <1>9, <3>1 DEF UndecidedOf
    <3> QED
      BY <1>7, <2>2, <3>3, <3>4, <3>5, <3>6
  <2>3. CASE m # n
    <3>1. m \in ApprovedOf(c) /\ m \in 1..Len(c) /\ d[m] = t[m] /\ t[m].untouched
      BY <1>1, <1>6, <1>9, <1>13, <2>3
    <3>2. c[m].untouched /\ d[m].lines = c[m].lines
      BY <1>5, <3>1
    <3>3. /\ \A k \in UndecidedOf(c) : k > m
          /\ DifferentFields(c[m].lines) => Tell(c[m].lines, FoldedOf(c, BeforeOf(c, m)))
      BY <1>10, <3>1, <3>2 DEF Told
    <3>4. BeforeOf(d, m) = BeforeOf(c, m) /\ BeforeOf(c, m) \subseteq 1..Len(c)
      BY <1>1, <1>9, <3>1, <3>3 DEF BeforeOf
    <3>5. FoldedOf(d, BeforeOf(c, m)) = FoldedOf(c, BeforeOf(c, m))
      <4>1. \A k \in BeforeOf(c, m) : c[k].lines = d[k].lines
        BY <2>1 DEF BeforeOf
      <4> QED
        BY <1>1, <1>8, <3>4, <4>1, FoldedSame
    <3> QED
      BY <1>9, <3>2, <3>3, <3>4, <3>5
  <2> QED
    BY <2>2, <2>3
<1> QED
  BY <1>8, <1>12, <1>13 DEF Told, TellInv, d

\* What a filing's lines change, they change from what the policy says.
LEMMA FiledLinesTell ==
    ASSUME TellInv, NEW k \in Nat, NEW inputs \in [1..k -> Inputs], BatchChanges(inputs),
           NEW lines \in Readings(Batch(inputs))
    PROVE  lines \in Seq(Line) /\ (DifferentFields(lines) => Tell(lines, PolicySays))
<1> DEFINE B == Batch(inputs)
           says == PolicySays
           So(i) == Against(says, inputs, i)
<1>1. says \in Wordings
  <2>1. says = FoldedOf(corrections, Approved)
    BY DEF PolicySays, Folded, FoldedOf
  <2> QED
    BY <2>1, RequestsAre, FoldedType DEF TellInv
<1>2. B = [i \in 1..k |-> ResolvedChange(So(i), inputs[i], 0)]
  BY DEF Batch
<1>3. \A i \in 1..k : Changes(So(i), inputs[i])
  BY DEF BatchChanges
<1>4. PICK p \in [1..k -> 1..k] :
         /\ lines = [i \in 1..k |-> B[p[i]]]
         /\ \A i, j \in 1..k : i # j => p[i] # p[j]
  <2>1. DOMAIN B = 1..k
    BY <1>2
  <2> HIDE DEF B
  <2>2. lines \in Readings(B)
    BY DEF B
  <2> QED
    BY <2>1, <2>2 DEF Readings
<1> HIDE DEF B, says, So
<1>5. \A i \in 1..k : inputs[i].field \in Correctable /\ inputs[i].to \in Texts
  BY DEF Inputs
<1>6. ASSUME NEW j \in 1..k
      PROVE  /\ So(j) \in Wordings
             /\ (\A i \in 1..k : i < j => inputs[i].field # inputs[j].field) =>
                   So(j)[inputs[j].field] = says[inputs[j].field]
  <2> DEFINE q == SubSeq(inputs, 1, j - 1)
  <2>1. Len(q) = j - 1 /\ \A i \in 1..(j - 1) : q[i] = inputs[i] /\ i \in 1..k
    <3>1. inputs \in Seq(Inputs) /\ Len(inputs) = k
      OBVIOUS
    <3> QED
      BY <3>1
  <2>2. So(j) = FoldLines(says, q)
    BY DEF So, Against
  <2> HIDE DEF q
  <2>3. Foldable(q)
    BY <1>5, <2>1 DEF Foldable
  <2>4. inputs[j].field \in Correctable
    BY <1>5
  <2>5. /\ FoldLines(says, q) \in Wordings
        /\ (\A i \in 1..Len(q) : q[i].field # inputs[j].field) =>
              FoldLines(says, q)[inputs[j].field] = says[inputs[j].field]
    BY <1>1, <2>3, <2>4, FoldSays
  <2>6. ASSUME \A i \in 1..k : i < j => inputs[i].field # inputs[j].field
        PROVE  \A i \in 1..Len(q) : q[i].field # inputs[j].field
    BY <2>1, <2>6
  <2> QED
    BY <2>2, <2>5, <2>6
<1>7. \A i \in 1..k :
         /\ B[i] = [field |-> inputs[i].field, from |-> So(i)[inputs[i].field], to |-> inputs[i].to, at |-> 0]
         /\ B[i] \in Line
  <2> TAKE i \in 1..k
  <2>1. B[i] = [field |-> inputs[i].field, from |-> So(i)[inputs[i].field], to |-> inputs[i].to, at |-> 0]
    BY <1>2 DEF ResolvedChange
  <2>2. So(i) \in Wordings /\ inputs[i].field \in Correctable /\ inputs[i].to \in Texts
    BY <1>5, <1>6
  <2>3. So(i)[inputs[i].field] \in Texts
    BY <2>2 DEF Wordings
  <2> QED
    BY <2>1, <2>2, <2>3 DEF Line
<1>7a. \A i \in 1..k :
          B[i].field = inputs[i].field /\ B[i].to = inputs[i].to /\ B[i].from = So(i)[inputs[i].field]
  <2> TAKE i \in 1..k
  <2>1. B[i] = [field |-> inputs[i].field, from |-> So(i)[inputs[i].field], to |-> inputs[i].to, at |-> 0]
    BY <1>7
  <2> QED
    BY <2>1
<1>8. lines \in Seq(Line) /\ DOMAIN lines = 1..k
  <2>1. lines \in [1..k -> Line]
    BY <1>4, <1>7
  <2> QED
    BY <2>1
<1>9. ASSUME DifferentFields(lines), NEW i \in 1..k
      PROVE  lines[i].from = says[lines[i].field] /\ lines[i].from # lines[i].to
  <2>1. p[i] \in 1..k /\ lines[i] = B[p[i]]
    BY <1>4
  <2>2. ASSUME NEW m \in 1..k, m < p[i] PROVE inputs[m].field # inputs[p[i]].field
    <3>1. \E j \in 1..k : p[j] = m
      <4>1. p \in Injection(1..k, 1..k)
        BY <1>4 DEF Injection, IsInjective
      <4>2. IsFiniteSet(1..k)
        BY FS_Interval
      <4>3. p \in Surjection(1..k, 1..k)
        BY <4>1, <4>2, FS_Injection
      <4> QED
        BY <4>3 DEF Surjection
    <3>2. PICK j \in 1..k : p[j] = m
      BY <3>1
    <3>3. j # i /\ lines[j] = B[m]
      BY <1>4, <2>1, <2>2, <3>2
    <3>4. lines[j].field # lines[i].field
      BY <1>8, <1>9, <3>3 DEF DifferentFields
    <3> QED
      BY <1>7a, <2>1, <3>3, <3>4
  <2>3. So(p[i])[inputs[p[i]].field] = says[inputs[p[i]].field]
    BY <1>6, <2>1, <2>2
  <2>4. lines[i].field = inputs[p[i]].field /\ lines[i].to = inputs[p[i]].to
        /\ lines[i].from = So(p[i])[inputs[p[i]].field]
    BY <1>7a, <2>1
  <2>5. inputs[p[i]].to # So(p[i])[inputs[p[i]].field]
    BY <1>3, <2>1 DEF Changes
  <2> QED
    BY <2>3, <2>4, <2>5
<1> QED
  BY <1>8, <1>9 DEF Tell, says

\* A filing is told of at once.
LEMMA FileTells ==
    ASSUME TellInv, NEW k \in Nat, NEW inputs \in [1..k -> Inputs], FileCorrection(inputs)
    PROVE  TellInv'
<1> DEFINE c == corrections
           d == corrections'
<1>1. PICK lines \in Readings(Batch(inputs)) :
         d = Append(c, [status |-> "SUBMITTED", lines |-> lines, untouched |-> TRUE])
  BY DEF FileCorrection
<1>2. lines \in Seq(Line) /\ (DifferentFields(lines) => Tell(lines, PolicySays))
  BY FiledLinesTell DEF FileCorrection
<1>3. PolicySays = FoldedOf(c, ApprovedOf(c))
  BY DEF PolicySays, Folded, FoldedOf, Approved, ApprovedOf, Numbers
<1>4. c \in Seq(Correction) /\ Told(c)
  BY DEF TellInv
<1> DEFINE r == [status |-> "SUBMITTED", lines |-> lines, untouched |-> TRUE]
<1>5. r \in Correction /\ r.status = "SUBMITTED" /\ r.lines = lines
  BY <1>2 DEF Correction
<1>6. d = Append(c, r)
  BY <1>1
<1> HIDE DEF c, d, r
<1>7. /\ d \in Seq(Correction) /\ Len(d) = Len(c) + 1 /\ d[Len(c) + 1] = r /\ Len(c) \in Nat
      /\ DOMAIN c = 1..Len(c) /\ DOMAIN d = 1..(Len(c) + 1) /\ \A n \in 1..Len(c) : d[n] = c[n]
  BY <1>4, <1>5, <1>6
<1>8. /\ ApprovedOf(d) = ApprovedOf(c) /\ ApprovedOf(c) \subseteq 1..Len(c)
      /\ UndecidedOf(d) = UndecidedOf(c) \cup {Len(c) + 1}
  BY <1>5, <1>7 DEF ApprovedOf, UndecidedOf
<1>9. ASSUME NEW n \in UndecidedOf(d), d[n].untouched
      PROVE  /\ \A m \in ApprovedOf(c) : m < n
             /\ DifferentFields(d[n].lines) => Tell(d[n].lines, FoldedOf(c, ApprovedOf(c)))
  <2>1. CASE n = Len(c) + 1
    BY <1>2, <1>3, <1>5, <1>7, <1>8, <2>1
  <2>2. CASE n \in UndecidedOf(c)
    <3>1. d[n] = c[n]
      BY <1>7, <2>2 DEF UndecidedOf
    <3> QED
      BY <1>4, <1>9, <2>2, <3>1 DEF Told
  <2> QED
    BY <1>8, <2>1, <2>2
<1>10. \A n \in ApprovedOf(c) : d[n] = c[n]
  BY <1>7, <1>8
<1>11. Len(c) <= Len(d) /\ \A n \in UndecidedOf(d) : n \in UndecidedOf(c) \/ n > Len(c)
  BY <1>7, <1>8
<1>12. Told(d)
  BY <1>4, <1>7, <1>8, <1>9, <1>10, <1>11, NoneApproved
<1> QED
  BY <1>7, <1>12 DEF TellInv, d

\* A rejection changes nothing that is said.
LEMMA RejectTells == ASSUME TellInv, NEW n \in Numbers, RejectFiled(n) PROVE TellInv'
<1> DEFINE c == corrections
           d == corrections'
<1>1. /\ d = [c EXCEPT ![n].status = "REJECTED"] /\ c \in Seq(Correction) /\ Told(c)
      /\ c[n].status = "SUBMITTED"
  BY DEF RejectFiled, TellInv
<1>2. Len(c) \in Nat /\ DOMAIN c = 1..Len(c) /\ n \in 1..Len(c) /\ \A m \in 1..Len(c) : c[m] \in Correction
  BY <1>1, RequestsAre DEF Numbers
<1> HIDE DEF c, d
<1>3. d[n] = [c[n] EXCEPT !.status = "REJECTED"] /\ \A m \in 1..Len(c) \ {n} : d[m] = c[m]
  BY <1>1, <1>2
<1>4. d[n] \in Correction /\ d[n].status = "REJECTED"
  BY <1>2, <1>3 DEF Correction
<1>5. d \in Seq(Correction) /\ Len(d) = Len(c) /\ DOMAIN d = 1..Len(c)
  <2>1. d = [m \in 1..Len(c) |-> d[m]]
    BY <1>1, <1>2
  <2>2. \A m \in 1..Len(c) : d[m] \in Correction
    BY <1>2, <1>3, <1>4
  <2> QED
    BY <1>2, <2>1, <2>2
<1>6. ApprovedOf(d) = ApprovedOf(c) /\ UndecidedOf(d) = UndecidedOf(c) \ {n}
  BY <1>1, <1>2, <1>3, <1>4, <1>5 DEF ApprovedOf, UndecidedOf
<1>7. \A m \in ApprovedOf(c) : d[m] = c[m]
  BY <1>1, <1>2, <1>3 DEF ApprovedOf
<1>8. \A m \in UndecidedOf(d) : d[m] = c[m] /\ m \in UndecidedOf(c)
  BY <1>2, <1>3, <1>6 DEF UndecidedOf
<1>9. \A m \in UndecidedOf(d) : d[m].untouched =>
         /\ \A i \in ApprovedOf(c) : i < m
         /\ DifferentFields(d[m].lines) => Tell(d[m].lines, FoldedOf(c, ApprovedOf(c)))
  BY <1>1, <1>8 DEF Told
<1>10. Len(c) <= Len(d) /\ \A m \in UndecidedOf(d) : m \in UndecidedOf(c) \/ m > Len(c)
  BY <1>2, <1>5, <1>6
<1>11. Told(d)
  BY <1>1, <1>5, <1>6, <1>7, <1>9, <1>10, NoneApproved
<1> QED
  BY <1>5, <1>11 DEF TellInv, d

\* A change of the lines of a request that waits.
LEMMA LinesTell ==
    ASSUME TellInv, NEW n \in Numbers, corrections[n].status = "SUBMITTED",
           NEW r \in Correction, r.status = "SUBMITTED",
           r.untouched => corrections[n].untouched
                          /\ (DifferentFields(r.lines) => Tell(r.lines, PolicySays)),
           corrections' = [corrections EXCEPT ![n] = r]
    PROVE  TellInv'
<1> DEFINE c == corrections
           d == corrections'
<1>1. d = [c EXCEPT ![n] = r] /\ c \in Seq(Correction) /\ Told(c) /\ c[n].status = "SUBMITTED"
  BY DEF TellInv
<1>2. Len(c) \in Nat /\ DOMAIN c = 1..Len(c) /\ n \in 1..Len(c)
  BY <1>1, RequestsAre DEF Numbers
<1>3. PolicySays = FoldedOf(c, ApprovedOf(c))
  BY DEF PolicySays, Folded, FoldedOf, Approved, ApprovedOf, Numbers
<1>4. r.untouched => c[n].untouched /\ (DifferentFields(r.lines) => Tell(r.lines, FoldedOf(c, ApprovedOf(c))))
  BY <1>3
<1> HIDE DEF c, d
<1>5. d \in Seq(Correction) /\ Len(d) = Len(c) /\ DOMAIN d = 1..Len(c)
      /\ d[n] = r /\ \A m \in 1..Len(c) \ {n} : d[m] = c[m]
  BY <1>1, <1>2
<1>6. ApprovedOf(d) = ApprovedOf(c) /\ UndecidedOf(d) = UndecidedOf(c) /\ n \in UndecidedOf(c)
  BY <1>1, <1>2, <1>5 DEF ApprovedOf, UndecidedOf
<1>7. \A m \in ApprovedOf(c) : d[m] = c[m]
  BY <1>1, <1>2, <1>5 DEF ApprovedOf
<1>8. ASSUME NEW m \in UndecidedOf(d), d[m].untouched
      PROVE  /\ \A i \in ApprovedOf(c) : i < m
             /\ DifferentFields(d[m].lines) => Tell(d[m].lines, FoldedOf(c, ApprovedOf(c)))
  <2>1. CASE m = n
    <3>1. r.untouched /\ d[m] = r
      BY <1>5, <1>8, <2>1
    <3> QED
      BY <1>1, <1>4, <1>6, <2>1, <3>1 DEF Told
  <2>2. CASE m # n
    <3>1. d[m] = c[m] /\ m \in UndecidedOf(c)
      BY <1>2, <1>5, <1>6, <2>2 DEF UndecidedOf
    <3> QED
      BY <1>1, <1>8, <3>1 DEF Told
  <2> QED
    BY <2>1, <2>2
<1>9. Len(c) <= Len(d) /\ \A m \in UndecidedOf(d) : m \in UndecidedOf(c) \/ m > Len(c)
  BY <1>2, <1>5, <1>6
<1>10. Told(d)
  BY <1>1, <1>5, <1>6, <1>7, <1>8, <1>9, NoneApproved
<1> QED
  BY <1>5, <1>10 DEF TellInv, d

\* A line that is added is resolved against the policy and the lines it has.
LEMMA AddTells == ASSUME TellInv, NEW n \in Numbers, NEW input \in Inputs, AddCorrection(n, input) PROVE TellInv'
<1> DEFINE r == corrections[n]
           says == FoldLines(PolicySays, r.lines)
           line == ResolvedChange(says, input, Len(r.lines))
           more == Append(r.lines, line)
           s == [r EXCEPT !.lines = more]
<1>1. /\ r \in Correction /\ r.lines \in Seq(Line) /\ Foldable(r.lines) /\ r.status = "SUBMITTED"
      /\ n \in Undecided /\ corrections \in Seq(Correction) /\ Changes(says, input)
  BY RequestsAre DEF TellInv, Numbers, Undecided, AddCorrection
<1>2. corrections' = [corrections EXCEPT ![n] = s]
  <2>1. corrections' = [corrections EXCEPT ![n].lines = Append(@, ResolvedChange(says, input, Len(@)))]
    BY DEF AddCorrection
  <2> QED
    BY <1>1, <2>1
<1>3. PolicySays \in Wordings
  <2>1. PolicySays = FoldedOf(corrections, Approved)
    BY DEF PolicySays, Folded, FoldedOf
  <2> QED
    BY <2>1, RequestsAre, FoldedType DEF TellInv
<1>4. says \in Wordings
  BY <1>1, <1>3, FoldSays
<1>5. /\ line = [field |-> input.field, from |-> says[input.field], to |-> input.to, at |-> Len(r.lines)]
      /\ input.field \in Correctable /\ input.to \in Texts /\ input.to # says[input.field]
  BY <1>1 DEF ResolvedChange, Inputs, Changes
<1>6. r.untouched => (DifferentFields(r.lines) => Tell(r.lines, PolicySays))
  <2>1. PolicySays = FoldedOf(corrections, ApprovedOf(corrections)) /\ Undecided = UndecidedOf(corrections)
    BY DEF PolicySays, Folded, FoldedOf, Approved, ApprovedOf, Undecided, UndecidedOf, Numbers
  <2> QED
    BY <1>1, <2>1 DEF TellInv, Told
<1>7. \A d \in Correctable : (\A i \in 1..Len(r.lines) : r.lines[i].field # d) => says[d] = PolicySays[d]
  BY <1>1, <1>3, FoldSays
<1>8. line \in Line
  <2>1. says[input.field] \in Texts /\ Len(r.lines) \in Nat
    BY <1>1, <1>4, <1>5 DEF Wordings
  <2> HIDE DEF line, says, r
  <2> QED
    BY <1>5, <2>1 DEF Line
<1> DEFINE lines == r.lines
           k == Len(lines)
<1>9. lines \in Seq(Line) /\ more = Append(lines, line)
  BY <1>1
<1>10. line.field = input.field /\ line.from = says[input.field] /\ line.to = input.to
  BY <1>5
<1> HIDE DEF line, says
<1>11. s \in Correction /\ s.status = "SUBMITTED" /\ s.lines = more /\ s.untouched = r.untouched
  <2>1. more \in Seq(Line)
    BY <1>8, <1>9
  <2> HIDE DEF r, more
  <2> QED
    BY <1>1, <2>1 DEF Correction
<1> HIDE DEF more, lines, s
<1>12. /\ DOMAIN lines = 1..k /\ k \in Nat /\ DOMAIN more = 1..(k + 1) /\ more[k + 1] = line
       /\ \A i \in 1..k : more[i] = lines[i]
  BY <1>8, <1>9
<1>13. ASSUME DifferentFields(lines) => Tell(lines, PolicySays), DifferentFields(more) PROVE Tell(more, PolicySays)
  <2>1. DifferentFields(lines)
    BY <1>12, <1>13 DEF DifferentFields
  <2>2. \A i \in 1..k : lines[i].field # line.field
    <3> TAKE i \in 1..k
    <3>1. i # k + 1 /\ i \in DOMAIN more /\ k + 1 \in DOMAIN more
      BY <1>12
    <3>2. more[i].field # more[k + 1].field
      BY <1>13, <3>1 DEF DifferentFields
    <3> QED
      BY <1>12, <3>2
  <2>3. says[input.field] = PolicySays[input.field]
    BY <1>5, <1>7, <1>10, <2>2 DEF lines
  <2>4. Tell(lines, PolicySays)
    BY <1>13, <2>1
  <2>5. ASSUME NEW i \in DOMAIN more
        PROVE  more[i].from = PolicySays[more[i].field] /\ more[i].from # more[i].to
    <3>1. CASE i = k + 1
      BY <1>5, <1>10, <1>12, <2>3, <3>1
    <3>2. CASE i # k + 1
      <4>1. i \in 1..k
        BY <1>12, <3>2
      <4> QED
        BY <1>12, <2>4, <4>1 DEF Tell
    <3> QED
      BY <3>1, <3>2
  <2> QED
    BY <2>5 DEF Tell
<1>14. s.untouched => r.untouched /\ (DifferentFields(s.lines) => Tell(s.lines, PolicySays))
  BY <1>6, <1>11, <1>13 DEF lines
<1>15. r.status = "SUBMITTED" /\ corrections[n] = r
  BY <1>1
<1> HIDE DEF r
<1> QED
  BY <1>2, <1>11, <1>14, <1>15, LinesTell

\* Lines that are changed otherwise no longer count as left alone.
LEMMA MeddledTells ==
    ASSUME TellInv, NEW n \in Numbers, corrections[n].status = "SUBMITTED", NEW lines \in Seq(Line),
           corrections' = [corrections EXCEPT ![n].lines = lines, ![n].untouched = FALSE]
    PROVE  TellInv'
<1> DEFINE r == [corrections[n] EXCEPT !.lines = lines, !.untouched = FALSE]
<1>1. corrections[n] \in Correction
  BY RequestsAre DEF TellInv, Numbers
<1>2. corrections' = [corrections EXCEPT ![n] = r]
  OBVIOUS
<1>3. r \in Correction /\ r.status = "SUBMITTED" /\ ~r.untouched
  BY <1>1 DEF Correction
<1> HIDE DEF r
<1> QED
  BY <1>2, <1>3, LinesTell

\* A line less is still lines.
LEMMA RemovedLine ==
    ASSUME NEW lines \in Seq(Line), NEW i \in DOMAIN lines PROVE RemoveAt(lines, i) \in Seq(Line)
<1>1. Len(lines) \in Nat /\ i \in 1..Len(lines)
  OBVIOUS
<1>2. SubSeq(lines, 1, i - 1) \in Seq(Line) /\ SubSeq(lines, i + 1, Len(lines)) \in Seq(Line)
  BY <1>1
<1> QED
  BY <1>2 DEF RemoveAt

\* A line is deleted.
LEMMA DeleteTells ==
    ASSUME TellInv, NEW n \in Numbers, NEW i \in DOMAIN corrections[n].lines, DeleteCorrection(n, i)
    PROVE  TellInv'
<1>1. corrections[n].lines \in Seq(Line)
  BY RequestsAre DEF TellInv, Numbers
<1>2. RemoveAt(corrections[n].lines, i) \in Seq(Line)
  BY <1>1, RemovedLine
<1>3. /\ corrections[n].status = "SUBMITTED"
      /\ corrections' = [corrections EXCEPT ![n].lines = RemoveAt(corrections[n].lines, i), ![n].untouched = FALSE]
  BY DEF DeleteCorrection
<1> QED
  BY <1>2, <1>3, MeddledTells

\* A line is edited, and read in another order perhaps.
LEMMA EditTells ==
    ASSUME TellInv, NEW n \in Numbers, NEW i \in DOMAIN corrections[n].lines, NEW input \in Inputs,
           EditCorrection(n, i, input)
    PROVE  TellInv'
<1> DEFINE old == corrections[n].lines
           says == FoldLines(PolicySays, RemoveAt(old, i))
           changed == [old EXCEPT ![i] = ResolvedChange(says, input, old[i].at)]
<1>1. old \in Seq(Line) /\ corrections[n].status = "SUBMITTED" /\ i \in 1..Len(old)
  BY RequestsAre DEF TellInv, Numbers, EditCorrection
<1>2. PICK lines \in Readings(changed) :
         corrections' = [corrections EXCEPT ![n].lines = lines, ![n].untouched = FALSE]
  BY DEF EditCorrection
<1>3. PolicySays \in Wordings
  <2>1. PolicySays = FoldedOf(corrections, Approved)
    BY DEF PolicySays, Folded, FoldedOf
  <2> QED
    BY <2>1, RequestsAre, FoldedType DEF TellInv
<1>4. says \in Wordings
  <2>1. Foldable(RemoveAt(old, i))
    BY <1>1, RemovedLine, LinesFold
  <2> QED
    BY <1>3, <2>1, FoldSays
<1>5. ResolvedChange(says, input, old[i].at) \in Line
  <2>1. old[i].at \in Nat
    <3>1. old[i] \in Line
      BY <1>1
    <3> QED
      BY <3>1 DEF Line
  <2>2. input.field \in Correctable /\ input.to \in Texts /\ says[input.field] \in Texts
    BY <1>4 DEF Inputs, Wordings
  <2> HIDE DEF says
  <2> QED
    BY <2>1, <2>2 DEF ResolvedChange, Line
<1>6. changed \in Seq(Line)
  BY <1>1, <1>5
<1>7. lines \in Seq(Line)
  <2> HIDE DEF changed
  <2>1. PICK p \in [DOMAIN changed -> DOMAIN changed] : lines = [j \in DOMAIN changed |-> changed[p[j]]]
    BY <1>2 DEF Readings
  <2>2. DOMAIN changed = 1..Len(changed) /\ Len(changed) \in Nat /\ \A j \in DOMAIN changed : changed[j] \in Line
    BY <1>6
  <2>3. lines \in [1..Len(changed) -> Line]
    BY <2>1, <2>2
  <2> QED
    BY <2>2, <2>3
<1> QED
  BY <1>1, <1>2, <1>7, MeddledTells

\* An endorsement decided undisturbed tells what it changed, in the policy's
\* document and in its own: the fold of renderEndorsementPdf stops where the
\* policy's document has its page (routes/endorsements.js, routes/policies.js), and
\* lines resolved against the policy as it was filed still tell when it is approved.
THEOREM DocumentsTellTheChange == EndorsedSpec => []TellsTheChange
<1>1. EndorsedInit => TellInv
  <2> SUFFICES ASSUME corrections = << >> PROVE TellInv
    BY DEF EndorsedInit
  <2>1. corrections \in Seq(Correction) /\ DOMAIN corrections = {}
    OBVIOUS
  <2> QED
    BY <2>1 DEF TellInv, Told, ApprovedOf, UndecidedOf
<1>2. TellInv /\ [EndorsedNext]_endorsedVars => TellInv'
  <2> SUFFICES ASSUME TellInv, [EndorsedNext]_endorsedVars PROVE TellInv'
    OBVIOUS
  <2>1. CASE UNCHANGED endorsedVars
    BY <2>1 DEF TellInv, endorsedVars
  <2>2. CASE EndorsedNext
    <3>1. CASE \E k \in 1..MaxCorrections : \E inputs \in [1..k -> Inputs] : FileCorrection(inputs)
      <4>1. PICK k \in 1..MaxCorrections : \E inputs \in [1..k -> Inputs] : FileCorrection(inputs)
        BY <3>1
      <4>2. k \in Nat
        BY EndorsedAssumption
      <4> QED
        BY <4>1, <4>2, FileTells
    <3>2. CASE \E n \in Numbers : ApproveFiled(n)
      BY <3>2, ApproveTells
    <3>3. CASE \E n \in Numbers : RejectFiled(n)
      BY <3>3, RejectTells
    <3>4. CASE \E n \in Numbers, input \in Inputs : AddCorrection(n, input)
      BY <3>4, AddTells
    <3>5. CASE \E n \in Numbers : \E i \in DOMAIN corrections[n].lines : DeleteCorrection(n, i)
      BY <3>5, DeleteTells
    <3>6. CASE \E n \in Numbers : \E i \in DOMAIN corrections[n].lines, input \in Inputs : EditCorrection(n, i, input)
      BY <3>6, EditTells
    <3> QED
      BY <2>2, <3>1, <3>2, <3>3, <3>4, <3>5, <3>6 DEF EndorsedNext
  <2> QED
    BY <2>1, <2>2
<1>3. TellInv => TellsTheChange
  BY TellInvTells
<1> QED
  BY <1>1, <1>2, <1>3, PTL DEF EndorsedSpec
===============================================================================
