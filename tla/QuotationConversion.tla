---------------------------- MODULE QuotationConversion ----------------------------
(***************************************************************************)
(* A quotation from filing to its conversion into a policy application     *)
(* (routes/policyQuotations.js): concurrent requests file it, price it     *)
(* again and submit it, while the insured vehicle and the agent's rates    *)
(* they are priced from (lib/coveragePricing.js) are changed by others.    *)
(*                                                                         *)
(* A quotation has one coverage here.  The conflict rule the same requests *)
(* go through is PolicyConflicts.                                          *)
(***************************************************************************)
EXTENDS Integers, FiniteSets, Sequences

CONSTANTS
    Quotations,
    Reqs,        \* requests that may be under way at once
    Modes,       \* pricing modes of the coverages on offer
    Periods,     \* coverage periods
    Values,      \* estimated values of the vehicle
    ValueAt,     \* what it is once assessed, depreciated to the start of a period
    SeatCounts,
    Keys,        \* amounts, or tiers, to pick from
    Premiums,    \* what an agent may ask
    Rates,       \* rates and prices the agent may have
    Threshold, Bracket,   \* of VEHICLE_SEATS_BASED pricing
    MaxChanges   \* bound: changes of the vehicle and of the rates

None == "none"

ASSUME QuotationAssumption ==
    /\ None \notin Quotations \cup Reqs
    /\ Modes \subseteq {"PERCENTAGE", "VALUE_PERCENTAGE", "FLAT_TIER", "VEHICLE_SEATS_BASED"}
    /\ Values \subseteq Nat
    /\ Periods \subseteq Nat
    /\ ValueAt \in [Values -> [Periods -> Nat]]
    /\ SeatCounts \subseteq Nat \ {0}
    /\ Keys \subseteq Nat
    /\ Premiums \subseteq Nat
    /\ Rates \subseteq Nat
    /\ Threshold \in Nat
    /\ Bracket \in Nat \ {0}
    /\ MaxChanges \in Nat

NoPeriod == -1
UnreadCar    == [value |-> 0, seats |-> 0, assessed |-> FALSE]
Unfiled  == [mode |-> None, period |-> NoPeriod, amount |-> 0, premium |-> 0]

VARIABLES
    quotation,     \* PolicyQuotation rows, each with its QuotationCoverage
    applications,  \* PolicyApplication rows, each with its ApplicationCoverage
    lock,          \* who holds the lock of a quotation's row
    vehicle,       \* the Vehicle row: estimated value, seats, whether assessed
    rate,          \* the agent's rate, or price of a tier
    req,           \* what each request has read and does next
    changes        \* changes of the vehicle and the rate so far

vars == <<quotation, applications, lock, vehicle, rate, req, changes>>

-----------------------------------------------------------------------------
(* resolveCoverageRows, for one coverage and one vehicle.                    *)

\* The insured amount, from what the agent picked.
Insured(mode, key, car, period) ==
    CASE mode = "VALUE_PERCENTAGE" -> IF car.assessed THEN ValueAt[car.value][period] ELSE car.value
      [] mode = "VEHICLE_SEATS_BASED" -> car.seats * key
      [] OTHER -> key

\* Whole brackets above the threshold, a fraction counting as one.
Brackets(amount) ==
    IF amount <= Threshold THEN 0 ELSE (amount - Threshold + Bracket - 1) \div Bracket

\* What it owes to Bethel.
Owed(mode, amount, r) ==
    CASE mode = "FLAT_TIER" -> r
      [] mode = "VEHICLE_SEATS_BASED" -> Brackets(amount) * r
      [] OTHER -> amount * r

\* A tier's premium is its price; any other is the agent's.
Charged(mode, premium, owed) == IF mode = "FLAT_TIER" THEN owed ELSE premium

NoFloor(mode, premium, owed) == FALSE   \* variant: the floor is not checked

BelowFloor(mode, premium, owed) == mode # "FLAT_TIER" /\ premium < owed

-----------------------------------------------------------------------------
Idle == [pc |-> "idle", quotation |-> None, terms |-> Unfiled, car |-> UnreadCar, payable |-> 0]

Converted(q) == \E i \in DOMAIN applications : applications[i].source = q

\* The request goes on, or ends with an answer.
Goes(r, change) == req' = [req EXCEPT ![r] = change]
Ends(r)         == req' = [req EXCEPT ![r] = Idle]

Init ==
    /\ quotation = [q \in Quotations |-> Unfiled]
    /\ applications = << >>
    /\ lock = [q \in Quotations |-> None]
    /\ vehicle \in [value : Values, seats : SeatCounts, assessed : {FALSE}]
    /\ rate \in Rates
    /\ req = [r \in Reqs |-> Idle]
    /\ changes = 0

-----------------------------------------------------------------------------
(* POST / and PATCH /:id: read the vehicle, then the rates, then write.       *)

Filed(q) == quotation[q] # Unfiled

\* No two requests file the same quotation.
QuoteRead(r, q) ==
    /\ req[r].pc = "idle"
    /\ ~Converted(q)
    /\ Filed(q) \/ \A s \in Reqs : req[s].quotation # q
    /\ Goes(r, [Idle EXCEPT !.pc = "price", !.quotation = q, !.car = vehicle])
    /\ UNCHANGED <<quotation, applications, lock, vehicle, rate, changes>>

QuotePrice(r, mode, period, key, premium) ==
    LET amount == Insured(mode, key, req[r].car, period)
        owed   == Owed(mode, amount, rate)
    IN  /\ req[r].pc = "price"
        /\ IF BelowFloor(mode, premium, owed) THEN Ends(r)
           ELSE Goes(r, [req[r] EXCEPT !.pc = IF Filed(req[r].quotation) THEN "lock" ELSE "insert",
                            !.car = UnreadCar,
                            !.terms = [mode |-> mode, period |-> period, amount |-> amount,
                                       premium |-> Charged(mode, premium, owed)]])
        /\ UNCHANGED <<quotation, applications, lock, vehicle, rate, changes>>

QuoteInsert(r) ==
    /\ req[r].pc = "insert"
    /\ quotation' = [quotation EXCEPT ![req[r].quotation] = req[r].terms]
    /\ Ends(r)
    /\ UNCHANGED <<applications, lock, vehicle, rate, changes>>

\* Touching the row first locks it.
Lock(r, pc, next) ==
    LET q == req[r].quotation
    IN  /\ req[r].pc = pc
        /\ lock[q] = None
        /\ lock' = [lock EXCEPT ![q] = r]
        /\ Goes(r, [req[r] EXCEPT !.pc = next])
        /\ UNCHANGED <<quotation, applications, vehicle, rate, changes>>

EditLock(r) == Lock(r, "lock", "check")

NotAsked(q) == FALSE   \* variant: the check is not repeated under the lock

ConvertedMeanwhile(q) == Converted(q)

EditCheck(r) ==
    LET q == req[r].quotation
    IN  /\ req[r].pc = "check"
        /\ IF ConvertedMeanwhile(q)
           THEN Ends(r) /\ lock' = [lock EXCEPT ![q] = None]
           ELSE Goes(r, [req[r] EXCEPT !.pc = "write"]) /\ UNCHANGED lock
        /\ UNCHANGED <<quotation, applications, vehicle, rate, changes>>

EditWrite(r) ==
    LET q == req[r].quotation
    IN  /\ req[r].pc = "write"
        /\ quotation' = [quotation EXCEPT ![q] = req[r].terms]
        /\ lock' = [lock EXCEPT ![q] = None]
        /\ Ends(r)
        /\ UNCHANGED <<applications, vehicle, rate, changes>>

-----------------------------------------------------------------------------
(* POST /:id/submit.                                                         *)

SubmitRead(r, q) ==
    /\ req[r].pc = "idle"
    /\ Filed(q) /\ ~Converted(q)
    /\ Goes(r, [Idle EXCEPT !.pc = "reprice", !.quotation = q, !.terms = quotation[q], !.car = vehicle])
    /\ UNCHANGED <<quotation, applications, lock, vehicle, rate, changes>>

\* What the agent had picked: a tier is recovered from the seats of now.
Recoverable(mode, amount, car) ==
    mode = "VEHICLE_SEATS_BASED" =>
        amount % car.seats = 0 /\ (amount \div car.seats) \in Keys

AsPicked(mode, amount, car) ==
    IF mode = "VEHICLE_SEATS_BASED" THEN amount \div car.seats ELSE amount

AnyAmount(fresh, quoted) == FALSE   \* variant: the insured amounts are not compared

Moved(fresh, quoted) == fresh # quoted

\* Priced again at the rates of now; the quotation's amount and premium are
\* kept, and what it owes to Bethel is the new figure.
SubmitPrice(r) ==
    LET terms == req[r].terms
        mode  == terms.mode
        car   == req[r].car
        fresh == Insured(mode, AsPicked(mode, terms.amount, car), car, terms.period)
        owed  == Owed(mode, fresh, rate)
    IN  /\ req[r].pc = "reprice"
        /\ IF \/ ~Recoverable(mode, terms.amount, car)
              \/ BelowFloor(mode, terms.premium, owed)
              \/ Moved(fresh, terms.amount)
           THEN Ends(r)
           ELSE Goes(r, [req[r] EXCEPT !.pc = "lockSubmit", !.car = UnreadCar, !.payable = owed])
        /\ UNCHANGED <<quotation, applications, lock, vehicle, rate, changes>>

SubmitLock(r) == Lock(r, "lockSubmit", "create")

NotUnique(q) == FALSE   \* variant: source_quotation_id is not unique

SourceTaken(q) == Converted(q)

SubmitCreate(r) ==
    LET q == req[r].quotation
        t == req[r].terms
    IN  /\ req[r].pc = "create"
        /\ IF SourceTaken(q) THEN UNCHANGED applications
           ELSE applications' = Append(applications,
                    [source |-> q, mode |-> t.mode, period |-> t.period, amount |-> t.amount,
                     premium |-> t.premium, payable |-> req[r].payable])
        /\ lock' = [lock EXCEPT ![q] = None]
        /\ Ends(r)
        /\ UNCHANGED <<quotation, vehicle, rate, changes>>

\* A request fails or runs out of time; its transaction rolls back.
Fail(r) ==
    /\ req[r].pc # "idle"
    /\ lock' = [q \in Quotations |-> IF lock[q] = r THEN None ELSE lock[q]]
    /\ Ends(r)
    /\ UNCHANGED <<quotation, applications, vehicle, rate, changes>>

-----------------------------------------------------------------------------
(* PATCH /vehicles/:id, and what else changes the prices.                    *)

VehicleRead(r) ==
    /\ req[r].pc = "idle"
    /\ changes < MaxChanges
    /\ changes' = changes + 1
    /\ Goes(r, [Idle EXCEPT !.pc = "vehicle", !.car = vehicle])
    /\ UNCHANGED <<quotation, applications, lock, vehicle, rate>>

\* Writes back the assessment it read, and the value with it.
VehicleWrite(r, value, seats) ==
    LET car == req[r].car
    IN  /\ req[r].pc = "vehicle"
        /\ vehicle' = [value |-> IF car.assessed THEN car.value ELSE value,
                       seats |-> seats, assessed |-> car.assessed]
        /\ Ends(r)
        /\ UNCHANGED <<quotation, applications, lock, rate, changes>>

\* The approval of a policy for the vehicle settles its assessment.
AssessVehicle ==
    /\ ~vehicle.assessed
    /\ changes < MaxChanges
    /\ vehicle' = [vehicle EXCEPT !.assessed = TRUE]
    /\ changes' = changes + 1
    /\ UNCHANGED <<quotation, applications, lock, rate, req>>

\* The agent's rate, or the standard one, is set anew.
ChangeRate(n) ==
    /\ changes < MaxChanges
    /\ n # rate
    /\ rate' = n
    /\ changes' = changes + 1
    /\ UNCHANGED <<quotation, applications, lock, vehicle, req>>

Next ==
    \/ \E r \in Reqs :
          \/ \E q \in Quotations : QuoteRead(r, q) \/ SubmitRead(r, q)
          \/ \E mode \in Modes, period \in Periods, key \in Keys, premium \in Premiums :
                QuotePrice(r, mode, period, key, premium)
          \/ QuoteInsert(r)
          \/ EditLock(r)
          \/ EditCheck(r)
          \/ EditWrite(r)
          \/ SubmitPrice(r)
          \/ SubmitLock(r)
          \/ SubmitCreate(r)
          \/ VehicleRead(r)
          \/ \E value \in Values, seats \in SeatCounts : VehicleWrite(r, value, seats)
          \/ Fail(r)
    \/ AssessVehicle
    \/ \E n \in Rates : ChangeRate(n)

Spec == Init /\ [][Next]_vars

-----------------------------------------------------------------------------
Terms == [mode : Modes, period : Periods, amount : Nat, premium : Nat]

Application ==
    [source : Quotations, mode : Modes, period : Periods, amount : Nat, premium : Nat, payable : Nat]

Vehicles == [value : Values, seats : SeatCounts, assessed : BOOLEAN]

Steps == {"idle", "price", "insert", "lock", "check", "write", "reprice", "lockSubmit", "create", "vehicle"}

Request ==
    [pc : Steps, quotation : Quotations \cup {None}, terms : Terms \cup {Unfiled},
     car : Vehicles \cup {UnreadCar}, payable : Nat]

TypeOK ==
    /\ quotation \in [Quotations -> Terms \cup {Unfiled}]
    /\ applications \in Seq(Application)
    /\ lock \in [Quotations -> Reqs \cup {None}]
    /\ vehicle \in Vehicles
    /\ rate \in Rates
    /\ req \in [Reqs -> Request]
    /\ changes \in 0..MaxChanges

\* A quotation becomes one application at most, however many submit it at once.
ConvertedOnce ==
    \A i, j \in DOMAIN applications : applications[i].source = applications[j].source => i = j

\* A quotation is never priced again once it has become an application: the
\* edit that was under way when it was submitted is refused.
NeverRepricedOnceConverted ==
    [][\A q \in Quotations : Converted(q) => quotation'[q] = quotation[q]]_vars

\* The amount an application insures and what it owes describe one coverage,
\* though one is the quotation's and the other is computed anew.
HalvesAgree ==
    \A i \in DOMAIN applications : \E r \in Rates :
        applications[i].payable = Owed(applications[i].mode, applications[i].amount, r)

\* No application charges less than it owes to Bethel, whatever happened to
\* the rates since it was quoted; except one priced by tier.
FloorHolds ==
    \A i \in DOMAIN applications :
        applications[i].mode # "FLAT_TIER" => applications[i].premium >= applications[i].payable

\* Pricing again stops "a stale, now-underwater quote" from becoming "a real
\* policy" (policyQuotations.js:1324-1325), priced by tier or not.
NeverUnderwater ==
    \A i \in DOMAIN applications : applications[i].premium >= applications[i].payable

\* The row lock is taken "so an in-flight edit and this conversion can't
\* interleave" (policyQuotations.js:1445-1446): what is applied for is what
\* the quotation says.
AppliedAsQuoted ==
    \A i \in DOMAIN applications :
        LET q == quotation[applications[i].source]
        IN  /\ applications[i].mode = q.mode
            /\ applications[i].period = q.period
            /\ applications[i].amount = q.amount
            /\ applications[i].premium = q.premium

\* Once a vehicle is assessed "both the value and the date are frozen from here
\* on" (vehicles.js:169-170), though the update writes back what it had read.
FrozenOnceAssessed ==
    [][vehicle.assessed => vehicle'.assessed /\ vehicle'.value = vehicle.value]_vars
================================================================================
