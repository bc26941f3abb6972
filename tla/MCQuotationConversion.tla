---------------------------- MODULE MCQuotationConversion ----------------------------
(***************************************************************************)
(* Small instances, for TLC, of what policies are made from: quotations,    *)
(* prices, whose vehicles they insure, and what endorsements make them say.   *)
(* They share no state: a behaviour is one of the component in `focus`, the   *)
(* others rest.                                                            *)
(***************************************************************************)
EXTENDS QuotationConversion, CoveragePricing, VehicleOwnership, EndorsedPolicy, TLC

CONSTANTS q1, r1, r2, v1, p1, p2

VARIABLE focus

\* Requests are alike.
Alike == Permutations(Reqs)

\* Quotations: a year later the vehicle is worth one less.
Depreciated == [v \in Values |-> [p \in Periods |-> v - p]]

-----------------------------------------------------------------------------
(* Pricing: a coverage of each kind; the product's, the agent's and the          *)
(* company's tables differ.                                                      *)

NoTables == [rate |-> {}, value |-> {}, flat |-> {}, seats |-> {}, tiers |-> {}]

Cover(mode, max, product, agent, company) ==
    [mode |-> mode, max |-> max, active |-> TRUE, offered |-> TRUE,
     table |-> [product |-> product, agent |-> agent, company |-> company]]

ByValue(bands) == [NoTables EXCEPT !.value = bands]
ByRate(percent, max) == [NoTables EXCEPT !.rate = {[rate |-> percent, max |-> max]}]
ByTier(price) == [NoTables EXCEPT !.flat = {[amount |-> 500, price |-> price]}]
BySeats(price) == [NoTables EXCEPT !.seats = {[threshold |-> 400, bracket |-> 150, price |-> price]}]
ByAmounts(amounts) == [NoTables EXCEPT !.tiers = amounts]

OwnDamage == Cover("VALUE_PERCENTAGE", 0,
                   ByValue({[from |-> 0, rate |-> 15], [from |-> 1500, rate |-> 13]}),
                   NoTables, ByValue({[from |-> 1200, rate |-> 17]}))
LiabilityByRate == Cover("PERCENTAGE", 900, ByRate(9, 0), ByRate(7, 600), NoTables)
LiabilityByTier == Cover("FLAT_TIER", 900, ByTier(11), NoTables, ByTier(12))
Accident(agent, company) == Cover("VEHICLE_SEATS_BASED", 0, BySeats(5), agent, company)

SomeMenus ==
    [own : {OwnDamage},
     liability : {LiabilityByRate, LiabilityByTier, [LiabilityByTier EXCEPT !.offered = FALSE]},
     accident : {Accident(ByAmounts({100, 130}), ByAmounts({130})), Accident(NoTables, NoTables),
                 [Accident(ByAmounts({100}), NoTables) EXCEPT !.active = FALSE]}]

SomeFleets == {<< >>,
               <<[value |-> 1000, seats |-> 5]>>,
               <<[value |-> 1700, seats |-> 4], [value |-> NoValue, seats |-> 5]>>,
               <<[value |-> 1700, seats |-> 4], [value |-> 1333, seats |-> 7]>>}

SomeSelections ==
    [own |-> [amount : {1}, premium : {15, 27}, cars : {{}, {2}}],
     liability |-> [amount : {500, 700}, premium : {7}, cars : {{}, {1}}],
     accident |-> [amount : {100, 130}, premium : {4, 20}, cars : {{}}]]

SomeRisks == {NoValue, 1500}

-----------------------------------------------------------------------------
(* Ownership: a new vehicle under either spelling of one plate, or the one on    *)
(* file, taken over or not.                                                      *)

AnyCase == [p \in Plates |-> "a1"]

SomeLineUps ==
    {<<[car |-> NoCar, takeOver |-> FALSE, plate |-> p]>> : p \in Plates} \cup
    {<<[car |-> v1, takeOver |-> over, plate |-> NoPlate]>> : over \in BOOLEAN}

\* Endorsed policies: every field says x as issued.
SaysX == [d \in Correctable |-> "x"]

-----------------------------------------------------------------------------
MCInit ==
    /\ focus \in {"quotation", "pricing", "ownership", "documents"}
    /\ Init /\ PricingInit /\ OwnershipInit /\ EndorsedInit
    /\ focus # "quotation" => vehicle = (CHOOSE v \in Vehicles : TRUE) /\ rate = (CHOOSE n \in Rates : TRUE)
    /\ focus # "pricing" => menu = (CHOOSE m \in Menus : TRUE) /\ ~employed

MCNext ==
    /\ UNCHANGED focus
    /\ \/ /\ focus = "quotation" /\ Next
          /\ UNCHANGED <<pricingVars, ownershipVars, endorsedVars>>
       \/ /\ focus = "pricing" /\ PricingNext
          /\ UNCHANGED <<vars, ownershipVars, endorsedVars>>
       \/ /\ focus = "ownership" /\ OwnershipNext
          /\ UNCHANGED <<vars, pricingVars, endorsedVars>>
       \/ /\ focus = "documents" /\ EndorsedNext
          /\ UNCHANGED <<vars, pricingVars, ownershipVars>>

MCSpec == MCInit /\ [][MCNext]_<<focus, vars, pricingVars, ownershipVars, endorsedVars>>
================================================================================
