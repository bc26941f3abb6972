----------------------------- MODULE VehicleOwnership ----------------------------
(***************************************************************************)
(* Who owns a vehicle that is filed for: the vehicle part of POST            *)
(* /policy-applications and POST /policy-quotations, POST                    *)
(* /policy-quotations/:id/submit, and PATCH /vehicles/:id.                   *)
(*                                                                         *)
(* A filing names vehicles on file for its party, vehicles of others that    *)
(* it takes over, and new ones.  Its checks are queries of their own; its    *)
(* transaction is executed by statements, as what it closes and inserts      *)
(* depends on when they see the rows.  Vehicles have one identifier here     *)
(* of the four, and every period asked for overlaps every other.             *)
(***************************************************************************)
EXTENDS Integers, Sequences, FiniteSets

CONSTANTS
    Cars,        \* Vehicle rows that may exist
    Parties,     \* customers and companies
    Plates,      \* identifiers as they may be written
    Identity,    \* what each stands for, case aside: a function from Plates
    LineUps,     \* what may be filed for: sequences of lines
    MaxFilings,  \* bound on filings
    OwnerReqs    \* requests the server may be serving at once

NoPlate == "no plate"
NoCar   == "no car"
Nobody  == "nobody"

\* A line: a car on file, to be taken over or not, or none and a plate.
LineType == [car : Cars \cup {NoCar}, takeOver : BOOLEAN, plate : Plates \cup {NoPlate}]

ASSUME OwnershipAssumption ==
    /\ LineUps \subseteq Seq(LineType) \ {<< >>} /\ DOMAIN Identity = Plates /\ MaxFilings \in Nat
    /\ \A lines \in LineUps : \A i \in DOMAIN lines : lines[i].car = NoCar => lines[i].plate # NoPlate
    /\ NoCar \notin Cars /\ NoPlate \notin Plates /\ Nobody \notin OwnerReqs

VARIABLES
    car,        \* Vehicle rows: identifier, and whether they are assessed
    ownerships, \* PartyVehicle rows in order of insertion
    filings,    \* quotations and applications, with their vehicles
    rowLock,    \* who has updated a vehicle and not committed
    ownerReq    \* what each request is doing and holds

ownershipVars == <<car, ownerships, filings, rowLock, ownerReq>>

NoLines == [pc |-> "idle", kind |-> "none", party |-> Nobody, lines |-> << >>, at |-> 1, from |-> 0,
            read |-> FALSE, cars |-> << >>, closes |-> {}, writes |-> << >>]

OwnershipInit ==
    /\ car = [v \in Cars |-> [plate |-> NoPlate, assessed |-> FALSE]]
    /\ ownerships = << >>
    /\ filings = << >>
    /\ rowLock = [v \in Cars |-> Nobody]
    /\ ownerReq = [r \in OwnerReqs |-> NoLines]

OnFile(v) == car[v].plate # NoPlate

OpenOf(v) == {i \in DOMAIN ownerships : ownerships[i].car = v /\ ownerships[i].open}

Line(r) == ownerReq[r].lines[ownerReq[r].at]

Finish(r) ==
    /\ ownerReq' = [ownerReq EXCEPT ![r] = NoLines]
    /\ rowLock' = [v \in Cars |-> IF rowLock[v] = r THEN Nobody ELSE rowLock[v]]

\* Refused, failed or rolled back: nothing is written.
Drop(r) == Finish(r) /\ UNCHANGED <<car, ownerships, filings>>

Proceed(r, step) ==
    /\ ownerReq' = [ownerReq EXCEPT ![r].pc = step]
    /\ UNCHANGED <<car, ownerships, filings, rowLock>>

-----------------------------------------------------------------------------
(* The checks of a filing.                                                   *)

FileLines(r, kind, party, lines) ==
    /\ ownerReq[r].pc = "idle"
    /\ Len(filings) < MaxFilings
    /\ ownerReq' = [ownerReq EXCEPT ![r] =
                      [NoLines EXCEPT !.pc = "checkLine", !.kind = kind, !.party = party, !.lines = lines]]
    /\ UNCHANGED <<car, ownerships, filings, rowLock>>

\* assertVehicleIdentifiersUnique, for every vehicle but one: case is ignored.
InUse(plate, except) ==
    \E v \in Cars \ {except} : OnFile(v) /\ Identity[car[v].plate] = Identity[plate]

AnyoneOnFile(party, v) == OnFile(v)   \* variant: a vehicle on file for anybody

OwnedBy(party, v) == \E i \in OpenOf(v) : ownerships[i].party = party

LineAllowed(party, line) ==
    IF line.car = NoCar THEN ~InUse(line.plate, NoCar)
    ELSE IF line.takeOver THEN OnFile(line.car)
    ELSE OwnedBy(party, line.car)

CheckLine(r) ==
    LET q == ownerReq[r]
    IN  /\ q.pc = "checkLine"
        /\ IF ~LineAllowed(q.party, Line(r)) THEN Drop(r)
           ELSE IF q.at < Len(q.lines)
             THEN /\ ownerReq' = [ownerReq EXCEPT ![r].at = @ + 1]
                  /\ UNCHANGED <<car, ownerships, filings, rowLock>>
           ELSE Proceed(r, "checkPending")

NamedCars(r) == {ownerReq[r].lines[i].car : i \in DOMAIN ownerReq[r].lines} \ {NoCar}

\* An application, pending or issued as a policy that is not over, for one of them.
Claimed(cars, status) ==
    \E f \in DOMAIN filings :
        /\ filings[f].kind = "application" /\ filings[f].status = status
        /\ \E i \in DOMAIN filings[f].cars : filings[f].cars[i] \in cars

CheckPendingFor(r) ==
    /\ ownerReq[r].pc = "checkPending"
    /\ IF Claimed(NamedCars(r), "pending") THEN Drop(r) ELSE Proceed(r, "checkPolicies")

CheckPoliciesFor(r) ==
    /\ ownerReq[r].pc = "checkPolicies"
    /\ IF Claimed(NamedCars(r), "active") THEN Drop(r)
       ELSE IF ownerReq[r].from # 0 THEN Proceed(r, "convert")
       ELSE /\ ownerReq' = [ownerReq EXCEPT ![r].pc = "write", ![r].at = 1]
            /\ UNCHANGED <<car, ownerships, filings, rowLock>>

-----------------------------------------------------------------------------
(* Its transaction, line by line.                                            *)

Written(r, row) == IF ownerReq[r].at < Len(ownerReq[r].lines)
                   THEN [row EXCEPT !.pc = "write", !.at = @ + 1]
                   ELSE [row EXCEPT !.pc = "commit"]

\* A vehicle of the party is joined as it is.
WriteOwned(r) ==
    LET line == Line(r)
        q    == ownerReq[r]
    IN  /\ line.car # NoCar /\ ~line.takeOver
        /\ ownerReq' = [ownerReq EXCEPT ![r] = Written(r, [q EXCEPT !.cars = Append(@, line.car)])]
        /\ UNCHANGED <<car, ownerships, filings, rowLock>>

\* No later write of a transaction is of the same vehicle.
LastWrite(writes, i) == \A j \in DOMAIN writes : j > i => writes[j].car # writes[i].car

\* A row as the transaction leaves it; a vehicle on file keeps its identifier.
AfterWrites(v, writes) ==
    IF \A i \in DOMAIN writes : writes[i].car # v THEN car[v]
    ELSE LET w == writes[CHOOSE i \in DOMAIN writes : writes[i].car = v /\ LastWrite(writes, i)]
         IN  [assessed |-> w.assessed, plate |-> IF w.plate # NoPlate THEN w.plate ELSE car[v].plate]

\* One to be taken over is read, and then updated, which locks its row.
WriteRead(r) ==
    /\ Line(r).car # NoCar /\ Line(r).takeOver
    /\ ownerReq' = [ownerReq EXCEPT ![r].pc = "update",
              ![r].read = AfterWrites(Line(r).car, ownerReq[r].writes).assessed]
    /\ UNCHANGED <<car, ownerships, filings, rowLock>>

NotLocked(r, v) == TRUE   \* variant: the row is not updated before its owners are

LockFree(r, v) == rowLock[v] \in {Nobody, r}

WriteUpdate(r) ==
    LET v == Line(r).car
    IN  /\ ownerReq[r].pc = "update"
        /\ LockFree(r, v)
        /\ rowLock' = [rowLock EXCEPT ![v] = r]
        /\ ownerReq' = [ownerReq EXCEPT ![r].pc = "close",
              ![r].writes = Append(@, [car |-> v, assessed |-> ownerReq[r].read, plate |-> NoPlate])]
        /\ UNCHANGED <<car, ownerships, filings>>

\* Ownerships that are open, as this statement sees them, are closed and a new
\* one is opened.
WriteOwner(r) ==
    LET v == Line(r).car
        q == ownerReq[r]
    IN  /\ q.pc = "close"
        /\ ownerReq' = [ownerReq EXCEPT ![r] =
              Written(r, [q EXCEPT !.closes = @ \cup OpenOf(v), !.cars = Append(@, v)])]
        /\ UNCHANGED <<car, ownerships, filings, rowLock>>

\* A new one is inserted; an index refuses, or waits for, the same identifier.
WriteNew(r) ==
    /\ Line(r).car = NoCar
    /\ \A v \in Cars : car[v].plate # Line(r).plate
    /\ \E v \in Cars :
          /\ ~OnFile(v) /\ rowLock[v] = Nobody
          /\ \A s \in OwnerReqs : \A i \in DOMAIN ownerReq[s].writes :
                ownerReq[s].writes[i].plate # Line(r).plate
          /\ rowLock' = [rowLock EXCEPT ![v] = r]
          /\ ownerReq' = [ownerReq EXCEPT ![r] = Written(r,
                [ownerReq[r] EXCEPT !.cars = Append(@, v),
                                     !.writes = Append(@, [car |-> v, assessed |-> FALSE, plate |-> Line(r).plate])])]
    /\ UNCHANGED <<car, ownerships, filings>>

WriteLine(r) == ownerReq[r].pc = "write" /\ (WriteOwned(r) \/ WriteRead(r) \/ WriteNew(r))

\* The ownerships it opens; one it takes over again, it has closed itself.
Opened(r) ==
    LET q == ownerReq[r]
    IN  [i \in DOMAIN q.writes |->
            [car |-> q.writes[i].car, party |-> q.party, open |-> LastWrite(q.writes, i)]]

CommitFiling(r) ==
    LET q == ownerReq[r]
    IN  /\ q.pc = "commit"
        /\ Len(filings) < MaxFilings
        /\ car' = [v \in Cars |-> AfterWrites(v, q.writes)]
        /\ ownerships' = [i \in DOMAIN ownerships |->
                             [ownerships[i] EXCEPT !.open = @ /\ i \notin q.closes]] \o Opened(r)
        /\ filings' = Append(filings, [kind |-> q.kind, party |-> q.party, cars |-> q.cars,
                                       status |-> IF q.kind = "application" THEN "pending" ELSE "quoted"])
        /\ Finish(r)

-----------------------------------------------------------------------------
(* POST /policy-quotations/:id/submit carries over the party and the          *)
(* vehicles, after the rule about what is pending or insured.                *)

SubmitFiling(r, f) ==
    /\ ownerReq[r].pc = "idle"
    /\ filings[f].status = "quoted" /\ Len(filings) < MaxFilings
    /\ ownerReq' = [ownerReq EXCEPT ![r] =
          [NoLines EXCEPT !.pc = "checkPending", !.from = f, !.party = filings[f].party,
             !.lines = [i \in DOMAIN filings[f].cars |->
                          [car |-> filings[f].cars[i], takeOver |-> FALSE, plate |-> NoPlate]]]]
    /\ UNCHANGED <<car, ownerships, filings, rowLock>>

Convert(r) ==
    LET f == ownerReq[r].from
    IN  /\ ownerReq[r].pc = "convert"
        /\ filings[f].status = "quoted" /\ Len(filings) < MaxFilings
        /\ filings' = Append([filings EXCEPT ![f].status = "converted"],
                             [filings[f] EXCEPT !.kind = "application", !.status = "pending"])
        /\ Finish(r)
        /\ UNCHANGED <<car, ownerships>>

\* What becomes of an application: its approval assesses its vehicles.
DecideFiling(f) ==
    /\ filings[f].status = "pending"
    /\ LET cars == {filings[f].cars[i] : i \in DOMAIN filings[f].cars}
       IN  \/ /\ \A v \in cars : rowLock[v] = Nobody
              /\ filings' = [filings EXCEPT ![f].status = "active"]
              /\ car' = [v \in Cars |-> [car[v] EXCEPT !.assessed = @ \/ v \in cars]]
           \/ filings' = [filings EXCEPT ![f].status = "over"] /\ UNCHANGED car
    /\ UNCHANGED <<ownerships, rowLock, ownerReq>>

ExpireFiling(f) ==
    /\ filings[f].status = "active"
    /\ filings' = [filings EXCEPT ![f].status = "over"]
    /\ UNCHANGED <<car, ownerships, rowLock, ownerReq>>

\* PATCH /vehicles/:id, of a vehicle that is somebody's: what it read as the
\* assessment it writes back.
EditVehicleRead(r, v, plate) ==
    /\ ownerReq[r].pc = "idle"
    /\ OpenOf(v) # {}
    /\ ownerReq' = [ownerReq EXCEPT ![r] = [NoLines EXCEPT !.pc = "editCheck", !.read = car[v].assessed,
          !.lines = <<[car |-> v, takeOver |-> FALSE, plate |-> plate]>>]]
    /\ UNCHANGED <<car, ownerships, filings, rowLock>>

EditVehicleCheck(r) ==
    /\ ownerReq[r].pc = "editCheck"
    /\ IF InUse(Line(r).plate, Line(r).car) THEN Drop(r) ELSE Proceed(r, "editWrite")

EditVehicleWrite(r) ==
    /\ ownerReq[r].pc = "editWrite"
    /\ LockFree(r, Line(r).car)
    /\ \A v \in Cars \ {Line(r).car} : car[v].plate # Line(r).plate
    /\ car' = [car EXCEPT ![Line(r).car] = [plate |-> Line(r).plate, assessed |-> ownerReq[r].read]]
    /\ Finish(r)
    /\ UNCHANGED <<ownerships, filings>>

\* A query fails, an index refuses, or Postgres ends a cycle of waits.
OwnershipFails(r) == ownerReq[r].pc # "idle" /\ Drop(r)

OwnershipNext ==
    \/ \E r \in OwnerReqs :
          \/ \E kind \in {"quotation", "application"}, p \in Parties, lines \in LineUps :
                FileLines(r, kind, p, lines)
          \/ CheckLine(r) \/ CheckPendingFor(r) \/ CheckPoliciesFor(r)
          \/ WriteLine(r) \/ WriteUpdate(r) \/ WriteOwner(r) \/ CommitFiling(r)
          \/ \E f \in DOMAIN filings : SubmitFiling(r, f)
          \/ Convert(r)
          \/ \E v \in Cars, plate \in Plates : EditVehicleRead(r, v, plate)
          \/ EditVehicleCheck(r) \/ EditVehicleWrite(r)
          \/ OwnershipFails(r)
    \/ \E f \in DOMAIN filings : DecideFiling(f) \/ ExpireFiling(f)

OwnershipSpec == OwnershipInit /\ [][OwnershipNext]_ownershipVars

-----------------------------------------------------------------------------
(* What filing guarantees.                                                   *)

\* A vehicle on file has one owner: two filings that take it over at once
\* meet at the row of the vehicle, which each updates before it looks for
\* the ownership to close.
OneOpenOwner == \A v \in Cars : OnFile(v) => Cardinality(OpenOf(v)) = 1

\* Whoever files for a vehicle, by any route, owns it or has owned it, and the
\* record of that is kept when it is sold.
FiledByAnOwner ==
    \A f \in DOMAIN filings : \A i \in DOMAIN filings[f].cars :
        \E o \in DOMAIN ownerships :
            ownerships[o].party = filings[f].party /\ ownerships[o].car = filings[f].cars[i]

\* The record of who owned what has one present owner, and every past one a
\* filing rests on.
OwnersAreOnRecord == OneOpenOwner /\ FiledByAnOwner

-----------------------------------------------------------------------------
(* What comments of the code say, and the code does not keep.                *)

\* "already verified as on-file for this customer/company above"
\* (policyApplications.js:665): it may have been sold since, and a quotation
\* of the former owner is submitted without looking.
PendingIsForItsOwner ==
    \A f \in DOMAIN filings : filings[f].status = "pending" =>
        \A i \in DOMAIN filings[f].cars : OwnedBy(filings[f].party, filings[f].cars[i])

\* Identifiers are "unique ... case-insensitively" (vehicleUniqueness.js:4-9);
\* the index, which is what two filings at once meet, minds the case.
PlatesDifferBeyondCase ==
    \A v, w \in Cars : OnFile(v) /\ OnFile(w) /\ v # w => Identity[car[v].plate] # Identity[car[w].plate]
================================================================================
