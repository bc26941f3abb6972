----------------------------- MODULE CoveragePricing -----------------------------
(***************************************************************************)
(* What a filing is charged: lib/coveragePricing.js, the rates GET           *)
(* /product-catalog shows an agent, the price the intake forms compute from  *)
(* them before anything is sent, and the form that reopens what was filed.   *)
(*                                                                         *)
(* Amounts are in centavos and rates in thousandths, so that rounding is the *)
(* program's.  A period is the one asked for; a coverage is offered for it   *)
(* or not.  Values are as depreciated.                                       *)
(***************************************************************************)
EXTENDS Integers, FiniteSets, Sequences, Functions, FiniteSetsExt

CONSTANTS
    Covers,       \* coverages of one product variant
    SolvedCover,  \* its gross target coverage
    Menus,        \* what each coverage may be: a set of functions from Covers
    Fleets,       \* vehicles of a Motor filing; none, the filing is for Property
    RiskValues,   \* values of a risk address
    Selectable,   \* for each coverage, what an agent may enter for it
    Totals,       \* target gross totals
    MiscFee       \* of the variant

NoValue == -1
NoTotal == 0

\* Selectable gives [amount, premium, cars] of each coverage, cars = {} being every
\* vehicle.  Menus gives the tables of each by whose they are: sets of rows, at
\* most one of rate ([rate, max]) and of seats ([threshold, bracket, price]), any
\* number of value ([from, rate]), flat ([amount, price]) and tiers (amounts).

PricingModes == {"VALUE_PERCENTAGE", "FLAT_TIER", "VEHICLE_SEATS_BASED", "PERCENTAGE"}

TablesOf ==
    [rate  : SUBSET [rate : Nat, max : Nat],
     value : SUBSET [from : Nat, rate : Nat],
     flat  : SUBSET [amount : Nat, price : Nat],
     seats : SUBSET [threshold : Nat, bracket : Nat \ {0}, price : Nat],
     tiers : SUBSET Nat]

CoverOnMenu ==
    [mode : PricingModes, max : Nat, active : BOOLEAN, offered : BOOLEAN,
     table : [{"product", "agent", "company"} -> TablesOf]]

\* The figures the schemas let in.
ASSUME PricingAssumption ==
    /\ IsFiniteSet(Covers) /\ SolvedCover \in Covers
    /\ Menus \subseteq [Covers -> CoverOnMenu]
    /\ Fleets \subseteq Seq([value : Nat \cup {NoValue}, seats : Nat \ {0}])
    /\ Selectable \in [Covers -> SUBSET [amount : Nat, premium : Nat, cars : SUBSET Nat]]
    /\ MiscFee \in Nat /\ Totals \subseteq Nat \ {0} /\ RiskValues \subseteq Nat \cup {NoValue}

\* A gross target coverage is priced by value when it is chosen; its mode may be
\* changed later.
GrossTargetByValue == \A m \in Menus : m[SolvedCover].mode = "VALUE_PERCENTAGE"

VARIABLES
    menu,      \* the coverages: mode, is_misc, maximum, status, whether offered, tables
    employed,  \* the agent is employed under a company
    filing,    \* what was sent
    bill       \* what the server resolved it to

pricingVars == <<menu, employed, filing, bill>>

NoFiling == [fleet |-> << >>, address |-> NoValue, picks |-> << >>, total |-> NoTotal]
Refused  == [rows |-> {}, charges |-> 0]

-----------------------------------------------------------------------------
\* Math.round of a fraction.
Round(n, d) == (2 * n + d) \div (2 * d)

\* DOC_STAMPS_RATE, VAT_RATE and LGT_RATE, in thousandths.
DocStamps == 125
Vat       == 120
Lgt       == 2
Combined  == 1000 + DocStamps + Vat + Lgt

\* computeChargeTotals: what a sum of premiums comes to.  A misc coverage
\* changes the line it is shown on.
GrandTotal(gross) ==
    gross + Round(gross * DocStamps, 1000) + Round(gross * Vat, 1000) + Round(gross * Lgt, 1000) + MiscFee

SumOf(rows) == SumFunctionOnSet([row \in rows |-> row.premium], rows)

-----------------------------------------------------------------------------
(* Whose rates apply.                                                        *)

RateOwner(e) == IF e THEN "company" ELSE "agent"

Applied(c, field) ==
    LET mine == menu[c].table[RateOwner(employed)][field]
    IN  IF mine # {} THEN mine ELSE menu[c].table["product"][field]

The(S) == CHOOSE x \in S : TRUE

\* The cap of the rate that applies, or the coverage's own.
MaxOf(c) ==
    LET own == menu[c].table[RateOwner(employed)]["rate"]
    IN  IF own # {} /\ The(own).max # 0 THEN The(own).max ELSE menu[c].max

\* findApplicableValueTier.
Eligible(tiers, value) == {t \in tiers : t.from <= value}
TierAt(tiers, value) == CHOOSE t \in Eligible(tiers, value) : \A u \in Eligible(tiers, value) : u.from <= t.from

-----------------------------------------------------------------------------
(* GET /product-catalog and getRequiredCoverageIds.                          *)

HasPricing(c) ==
    CASE menu[c].mode = "PERCENTAGE" -> Applied(c, "rate") # {}
      [] menu[c].mode = "VALUE_PERCENTAGE" -> Applied(c, "value") # {}
      [] menu[c].mode = "VEHICLE_SEATS_BASED" -> Applied(c, "seats") # {} /\ Applied(c, "tiers") # {}
      [] OTHER -> Applied(c, "flat") # {}

Mandatory == {"FLAT_TIER", "VEHICLE_SEATS_BASED"}

\* The rows of either count.
RowsOf(c, field) ==
    menu[c].table["product"][field] \cup menu[c].table[RateOwner(employed)][field]

Required ==
    {c \in Covers :
        /\ menu[c].active /\ menu[c].offered /\ menu[c].mode \in Mandatory
        /\ IF menu[c].mode = "FLAT_TIER" THEN RowsOf(c, "flat") # {}
           ELSE RowsOf(c, "seats") # {} /\ RowsOf(c, "tiers") # {}}

-----------------------------------------------------------------------------
(* resolveCoverageRows.                                                      *)

Picked(f) == DOMAIN f.picks

\* The vehicles a selection is for; 0 is none, for Property.
TargetsOf(f, c) ==
    IF f.fleet = << >> THEN {0}
    ELSE IF f.picks[c].cars = {} THEN DOMAIN f.fleet ELSE f.picks[c].cars

ValueOf(f, i) == IF i = 0 THEN f.address ELSE f.fleet[i].value

\* There is a price for the selection.
Priceable(f, c, i) ==
    LET amount == f.picks[c].amount
    IN  CASE menu[c].mode = "VALUE_PERCENTAGE" ->
                ValueOf(f, i) # NoValue /\ Eligible(Applied(c, "value"), ValueOf(f, i)) # {}
          [] menu[c].mode = "FLAT_TIER" -> \E t \in Applied(c, "flat") : t.amount = amount
          [] menu[c].mode = "VEHICLE_SEATS_BASED" ->
                i # 0 /\ Applied(c, "seats") # {} /\ amount \in Applied(c, "tiers")
          [] OTHER -> Applied(c, "rate") # {} /\ amount <= MaxOf(c)

InsuredFor(f, c, i) ==
    CASE menu[c].mode = "VALUE_PERCENTAGE" -> ValueOf(f, i)
      [] menu[c].mode = "VEHICLE_SEATS_BASED" -> f.fleet[i].seats * f.picks[c].amount
      [] OTHER -> f.picks[c].amount

\* Whole brackets above the threshold, a fraction counting as one.
BracketCharge(s, amount) ==
    IF amount <= s.threshold THEN 0
    ELSE ((amount - s.threshold + s.bracket - 1) \div s.bracket) * s.price

\* What a row owes to Bethel.
OwedFor(f, c, i) ==
    LET amount == InsuredFor(f, c, i)
    IN  CASE menu[c].mode = "VALUE_PERCENTAGE" -> Round(amount * TierAt(Applied(c, "value"), amount).rate, 1000)
          [] menu[c].mode = "FLAT_TIER" -> (CHOOSE t \in Applied(c, "flat") : t.amount = amount).price
          [] menu[c].mode = "VEHICLE_SEATS_BASED" -> BracketCharge(The(Applied(c, "seats")), amount)
          [] OTHER -> Round(amount * The(Applied(c, "rate")).rate, 1000)

\* The premium entered, except that a tier's is its price.
RowFor(f, c, i) ==
    [cover |-> c, car |-> i, insured |-> InsuredFor(f, c, i), owed |-> OwedFor(f, c, i),
     premium |-> IF menu[c].mode = "FLAT_TIER" THEN OwedFor(f, c, i) ELSE f.picks[c].premium]

EnteredRows(f) == UNION {{RowFor(f, c, i) : i \in TargetsOf(f, c)} : c \in Picked(f)}

\* The premium of the gross target coverage is worked out from the total.
Solved(f, c) == f.total # NoTotal /\ c = SolvedCover

PremiumWithFee(f, rows) ==   \* variant: the miscellaneous fee is taken for premium
    LET mine == {row \in rows : row.cover = SolvedCover}
    IN  Round(Round(f.total * 1000, Combined) - SumOf(rows \ mine), Cardinality(mine))

\* "Solve from Gross Total": what is left of the total for each of its rows.
SolvedPremium(f, rows) ==
    LET mine == {row \in rows : row.cover = SolvedCover}
    IN  Round(Round((f.total - MiscFee) * 1000, Combined) - SumOf(rows \ mine), Cardinality(mine))

Resolved(f) ==
    LET rows == EnteredRows(f)
    IN  {IF Solved(f, row.cover) THEN [row EXCEPT !.premium = SolvedPremium(f, rows)] ELSE row : row \in rows}

Offered(f) == \A c \in Picked(f) : menu[c].active /\ menu[c].offered

\* At least one coverage in addition to those that are required.
Complete(f) == Required \subseteq Picked(f) /\ Picked(f) # Required

EveryRowClears(rows) == \A row \in rows : row.premium >= row.owed

\* What was entered clears its floor, even where it is to be solved; only a
\* coverage priced by value waits for that.
EnteredClears(f) ==
    \A row \in EnteredRows(f) :
        row.premium >= row.owed \/ (Solved(f, row.cover) /\ menu[row.cover].mode = "VALUE_PERCENTAGE")

Accepts(f) ==
    /\ Offered(f) /\ Complete(f)
    /\ \A c \in Picked(f) : \A i \in TargetsOf(f, c) : Priceable(f, c, i)
    /\ EnteredClears(f)
    /\ f.total # NoTotal => SolvedCover \in Picked(f)
    /\ EveryRowClears(Resolved(f))

-----------------------------------------------------------------------------
(* resolveCoverageSelection and the gross solve of the forms.  They price    *)
(* from the catalog, round nothing but the premium they send, and add up a   *)
(* coverage over its vehicles.                                               *)

\* An amount that is not entered: 0 counts as none.
Blank(f, i) == ValueOf(f, i) = NoValue \/ (i = 0 /\ ValueOf(f, i) = 0)

Pending(f, c) ==
    \E i \in TargetsOf(f, c) :
        CASE menu[c].mode = "VALUE_PERCENTAGE" ->
                Blank(f, i) \/ Eligible(Applied(c, "value"), ValueOf(f, i)) = {}
          [] menu[c].mode = "FLAT_TIER" -> \A t \in Applied(c, "flat") : t.amount # f.picks[c].amount
          [] menu[c].mode = "VEHICLE_SEATS_BASED" ->
                i = 0 \/ Applied(c, "seats") = {} \/ f.picks[c].amount \notin Applied(c, "tiers")
          [] OTHER -> FALSE

\* In thousandths of a centavo.
PayableShown(f, c, i) ==
    LET amount == InsuredFor(f, c, i)
    IN  CASE menu[c].mode = "VALUE_PERCENTAGE" -> amount * TierAt(Applied(c, "value"), amount).rate
          [] menu[c].mode = "PERCENTAGE" -> amount * The(Applied(c, "rate")).rate
          [] OTHER -> OwedFor(f, c, i) * 1000

HighestPayable(f, c) == Max({PayableShown(f, c, i) : i \in TargetsOf(f, c)})

OncePerCover(f, c, p) == p   \* variant: the vehicles of a coverage are not counted

\* What a coverage adds to the sum of premiums, its premium being p each.
Contribution(f, c, p) ==
    IF menu[c].mode = "FLAT_TIER"
    THEN SumFunctionOnSet([i \in TargetsOf(f, c) |-> OwedFor(f, c, i)], TargetsOf(f, c))
    ELSE p * Cardinality(TargetsOf(f, c))

FixedSum(f) ==
    SumFunctionOnSet([c \in Picked(f) |-> Contribution(f, c, f.picks[c].premium)],
                     Picked(f) \ {SolvedCover})

\* The premium of a coverage in the form, entered or solved.
FormPremium(f, c) ==
    IF ~Solved(f, c) THEN f.picks[c].premium
    ELSE Round((f.total - MiscFee) * 1000 - FixedSum(f) * Combined,
               Combined * Cardinality(TargetsOf(f, c)))

\* handlePreview lets the agent go on.
FormAccepts(f) ==
    /\ \A c \in Picked(f) : menu[c].active /\ menu[c].offered /\ HasPricing(c)
    /\ {c \in Covers : menu[c].active /\ menu[c].offered /\ menu[c].mode \in Mandatory /\ HasPricing(c)}
           \subseteq Picked(f)
    /\ \E c \in Picked(f) : menu[c].mode \notin Mandatory
    /\ f.total # NoTotal => SolvedCover \in Picked(f)
    /\ \A c \in Picked(f) : ~Pending(f, c)
    /\ \A c \in Picked(f) :
          /\ menu[c].mode = "PERCENTAGE" => f.picks[c].amount <= MaxOf(c)
          /\ menu[c].mode = "FLAT_TIER" \/ FormPremium(f, c) >= Round(HighestPayable(f, c), 1000)
          /\ Solved(f, c) => FormPremium(f, c) # 0

FormTotal(f) ==
    GrandTotal(SumFunctionOnSet([c \in Picked(f) |-> Contribution(f, c, FormPremium(f, c))], Picked(f)))

-----------------------------------------------------------------------------
(* EditQuotationDialog's reconstructSelections: the rows of a quotation back  *)
(* into what was entered.                                                    *)

StoredAmount(f, row) == row.insured   \* variant: what is insured is taken for the tier

\* A tier per occupant is recovered from what all of them are insured for.
EnteredAmount(f, row) ==
    IF menu[row.cover].mode = "VEHICLE_SEATS_BASED" THEN Round(row.insured, f.fleet[row.car].seats)
    ELSE row.insured

Reopened(f, rows) ==
    LET Mine(c)  == {row \in rows : row.cover = c}
        First(c) == CHOOSE row \in Mine(c) : \A other \in Mine(c) : row.car <= other.car
        CarsOf(c) == {row.car : row \in Mine(c)} \ {0}
    IN  [f EXCEPT !.total = NoTotal,
                  !.picks = [c \in Picked(f) |->
                     [amount |-> EnteredAmount(f, First(c)), premium |-> First(c).premium,
                      cars |-> IF Cardinality(CarsOf(c)) >= Len(f.fleet) THEN {} ELSE CarsOf(c)]]]

-----------------------------------------------------------------------------
BillOf(f) == IF Accepts(f) THEN [rows |-> Resolved(f), charges |-> GrandTotal(SumOf(Resolved(f)))] ELSE Refused

\* The vehicles a selection names are on the filing.
Filings ==
    UNION {[fleet : {fleet}, address : RiskValues,
            picks : UNION {{p \in [C -> UNION {Selectable[c] : c \in C}] :
                              \A c \in C : p[c] \in Selectable[c] /\ p[c].cars \subseteq DOMAIN fleet} :
                           C \in (SUBSET Covers) \ {{}}},
            total : Totals \cup {NoTotal}] : fleet \in Fleets}

PricingInit ==
    /\ menu \in Menus
    /\ employed \in BOOLEAN
    /\ filing = NoFiling
    /\ bill = Refused

\* POST /policy-quotations and POST /policy-applications price what they are sent.
FileAndPrice ==
    /\ filing = NoFiling
    /\ \E f \in Filings : filing' = f /\ bill' = BillOf(f)
    /\ UNCHANGED <<menu, employed>>

\* The next request starts from nothing.
NextFiling ==
    /\ filing # NoFiling
    /\ filing' = NoFiling /\ bill' = Refused
    /\ UNCHANGED <<menu, employed>>

PricingNext == FileAndPrice \/ NextFiling

PricingSpec == PricingInit /\ [][PricingNext]_pricingVars

-----------------------------------------------------------------------------
Accepted == bill # Refused

\* The total a filing is solved from is what it comes to, but for rounding each
\* row's premium and three of the charges.
GrossTotalNearTarget ==
    Accepted /\ filing.total # NoTotal =>
        LET n   == Cardinality({row \in bill.rows : row.cover = SolvedCover})
            off == bill.charges - filing.total
        IN  2 * 1000 * (IF off < 0 THEN -off ELSE off) <= Combined * (n + 1) + 3000

\* What the form lets through the server accepts, at the total the form shows
\* unless it is solved: the catalog, the form and the resolver, which compute it
\* apart and round at different places, agree on whose rates apply, on what is
\* priced and required, and on every floor.
FormAgreesWithServer ==
    filing # NoFiling /\ FormAccepts(filing) =>
        Accepted /\ (filing.total = NoTotal => bill.charges = FormTotal(filing))

\* Reopened and saved as it is, a quotation stays what it was.
ReopenedIsUnchanged ==
    Accepted => BillOf(Reopened(filing, bill.rows)) = bill

-----------------------------------------------------------------------------
(* What comments of the code say, and the code does not keep.                *)

\* "this coverage's premium is solved backward so the totals come out to
\* exactly that" (lib/coveragePricing.js:333-335).
GrossTotalIsExact == Accepted /\ filing.total # NoTotal => bill.charges = filing.total

\* Whatever is required can be filed: a coverage priced by seats is required of
\* a Property filing too, which has none.
RequiredCanBePriced ==
    filing # NoFiling /\ Required \subseteq Picked(filing) =>
        \A c \in Required : filing.fleet = << >> => menu[c].mode # "VEHICLE_SEATS_BASED"
================================================================================
