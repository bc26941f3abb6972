----------------------------- MODULE ProductCatalog -----------------------------
(***************************************************************************)
(* Administration of the products: routes/catalog.js (classes, variants,    *)
(* coverages, staged deletions), routes/coveragePricing.js (periods and      *)
(* what they cost) and the overrides of routes/agents.js.                   *)
(*                                                                         *)
(* A row is its identity: names, codes, clauses and rates are left out, and *)
(* of a pricing table what matters is for which period it has rows.         *)
(***************************************************************************)
EXTENDS Integers, FiniteSets

CONSTANTS
    Classes, Variants, Coverages,  \* rows that may exist
    Days,                          \* lengths of a period
    Modes,                         \* pricing modes
    Tables,                        \* the pricing tables: whose rows, and which
    CatalogReqs                    \* requests the server may be serving at once

Owners   == {"product", "agent"}
RateRows == {"rate", "value tiers", "flat tiers", "seats", "seat tiers"}

ASSUME CatalogAssumption ==
    /\ Modes \subseteq {"PERCENTAGE", "VALUE_PERCENTAGE", "FLAT_TIER", "VEHICLE_SEATS_BASED"}
    /\ Tables \subseteq Owners \X RateRows

None == "none"

Periods == Coverages \X Days

VARIABLES
    class,       \* InsuranceClass.status, by row
    variant,     \* ProductVariant rows
    coverage,    \* ProductCoverage rows
    offered,     \* CoverageAllowablePeriod rows
    pricing,     \* the tables each of them has rows in
    catalogReq   \* what each request is doing and has read

catalogVars == <<class, variant, coverage, offered, pricing, catalogReq>>

\* What a batch names, and the cascade it has read.
NothingNamed == [classes |-> {}, variants |-> {}, coverages |-> {}, periods |-> {}]

FreeRequest == [pc |-> "idle", row |-> None, parent |-> None, day |-> 0, mode |-> None,
                table |-> <<None, None>>, filled |-> FALSE, batch |-> NothingNamed]

CatalogAnswer(r) == catalogReq' = [catalogReq EXCEPT ![r] = FreeRequest]
CatalogThen(r, step) == catalogReq' = [catalogReq EXCEPT ![r].pc = step]

CatalogBegin(r, request) ==
    /\ catalogReq[r].pc = "idle"
    /\ catalogReq' = [catalogReq EXCEPT ![r] = request]
    /\ UNCHANGED <<class, variant, coverage, offered, pricing>>

CatalogInit ==
    /\ class = [c \in Classes |-> None]
    /\ variant = [v \in Variants |-> [status |-> None, class |-> None, target |-> None]]
    /\ coverage = [c \in Coverages |-> [status |-> None, variant |-> None, mode |-> None]]
    /\ offered = {}
    /\ pricing = [p \in Periods |-> {}]
    /\ catalogReq = [r \in CatalogReqs |-> FreeRequest]

-----------------------------------------------------------------------------
(* Adding rows.  The parent is read first; a code or a name in use, also by a *)
(* row that was deleted, is refused by a lookup or by the unique index.       *)

CreateClass(r, c) ==
    /\ catalogReq[r].pc = "idle"
    /\ class[c] = None
    /\ class' = [class EXCEPT ![c] = "ACTIVE"]
    /\ UNCHANGED <<variant, coverage, offered, pricing, catalogReq>>

ReadClass(r, v, c) ==
    /\ class[c] = "ACTIVE"
    /\ CatalogBegin(r, [FreeRequest EXCEPT !.pc = "createVariant", !.row = v, !.parent = c])

CreateVariant(r) ==
    LET q == catalogReq[r]
    IN  /\ q.pc = "createVariant"
        /\ variant[q.row].status = None
        /\ variant' = [variant EXCEPT ![q.row] = [status |-> "ACTIVE", class |-> q.parent, target |-> None]]
        /\ CatalogAnswer(r)
        /\ UNCHANGED <<class, coverage, offered, pricing>>

ReadVariant(r, c, v, mode) ==
    /\ variant[v].status = "ACTIVE"
    /\ CatalogBegin(r, [FreeRequest EXCEPT !.pc = "createCoverage", !.row = c, !.parent = v, !.mode = mode])

CreateCoverage(r) ==
    LET q == catalogReq[r]
    IN  /\ q.pc = "createCoverage"
        /\ coverage[q.row].status = None
        /\ coverage' = [coverage EXCEPT ![q.row] =
                          [status |-> "ACTIVE", variant |-> q.parent, mode |-> q.mode]]
        /\ CatalogAnswer(r)
        /\ UNCHANGED <<class, variant, offered, pricing>>

CreatePeriod(r, c, d) ==
    /\ catalogReq[r].pc = "idle"
    /\ coverage[c].status # None
    /\ <<c, d>> \notin offered
    /\ offered' = offered \cup {<<c, d>>}
    /\ UNCHANGED <<class, variant, coverage, pricing, catalogReq>>

-----------------------------------------------------------------------------
(* PATCH /product-variants/:id: the coverage whose premium is solved from a   *)
(* target total.                                                             *)

ReadTarget(r, v, c) ==
    /\ variant[v].status # None
    /\ coverage[c].variant = v
    /\ coverage[c].mode = "VALUE_PERCENTAGE"
    /\ CatalogBegin(r, [FreeRequest EXCEPT !.pc = "setTarget", !.row = v, !.parent = c])

SetTarget(r) ==
    /\ catalogReq[r].pc = "setTarget"
    /\ variant' = [variant EXCEPT ![catalogReq[r].row].target = catalogReq[r].parent]
    /\ CatalogAnswer(r)
    /\ UNCHANGED <<class, coverage, offered, pricing>>

ClearTarget(r, v) ==
    /\ catalogReq[r].pc = "idle"
    /\ variant[v].status # None
    /\ variant' = [variant EXCEPT ![v].target = None]
    /\ UNCHANGED <<class, coverage, offered, pricing, catalogReq>>

-----------------------------------------------------------------------------
(* What a period costs.                                                      *)

\* PATCH /coverages/:id/pricing: the mode, for the coverage, and then the
\* scalars of that mode, if they were sent, for the period.
ReadPeriod(r, c, d, mode, filled) ==
    /\ <<c, d>> \in offered
    /\ CatalogBegin(r, [FreeRequest EXCEPT !.pc = "setMode", !.row = c, !.day = d, !.mode = mode,
                                           !.filled = filled])

ScalarsOf(mode) ==
    CASE mode = "PERCENTAGE" -> {"rate"} [] mode = "VEHICLE_SEATS_BASED" -> {"seats"} [] OTHER -> {}

SetMode(r) ==
    LET q == catalogReq[r]
    IN  /\ q.pc = "setMode"
        /\ coverage' = [coverage EXCEPT ![q.row].mode = q.mode]
        /\ IF q.filled /\ ScalarsOf(q.mode) # {} THEN CatalogThen(r, "upsertScalars") ELSE CatalogAnswer(r)
        /\ UNCHANGED <<class, variant, offered, pricing>>

UpsertScalars(r) ==
    LET q == catalogReq[r]
    IN  /\ q.pc = "upsertScalars"
        /\ <<q.row, q.day>> \in offered
        /\ pricing' = [pricing EXCEPT ![<<q.row, q.day>>] = @ \cup ({"product"} \X ScalarsOf(q.mode))]
        /\ CatalogAnswer(r)
        /\ UNCHANGED <<class, variant, coverage, offered>>

\* The PUT routes replace all the rows of one table for a period, the
\* product's or an agent's; none, or an agent's cleared scalars, delete them.
ReadPeriodForRows(r, c, d, table, filled) ==
    /\ <<c, d>> \in offered
    /\ table \notin {<<"product", "rate">>, <<"product", "seats">>}
    /\ CatalogBegin(r, [FreeRequest EXCEPT !.pc = "replaceRows", !.row = c, !.day = d,
                                           !.table = table, !.filled = filled])

\* PUT /agents/:id/netrates replaces the agent's rates of a day for all coverages.
Replaced(q) ==
    IF q.table = <<"agent", "rate">> THEN {p \in Periods : p[2] = q.day} ELSE {<<q.row, q.day>>}

ReplaceRows(r) ==
    LET q == catalogReq[r]
    IN  /\ q.pc = "replaceRows"
        /\ <<q.row, q.day>> \in offered
        /\ pricing' = [p \in Periods |->
                        IF p \notin Replaced(q) THEN pricing[p]
                        ELSE IF q.filled /\ p = <<q.row, q.day>> THEN pricing[p] \cup {q.table}
                        ELSE pricing[p] \ {q.table}]
        /\ CatalogAnswer(r)
        /\ UNCHANGED <<class, variant, coverage, offered>>

-----------------------------------------------------------------------------
(* PATCH /manage-products/batch-delete.                                      *)

BeginBatch(r, batch) ==
    /\ batch # NothingNamed
    /\ CatalogBegin(r, [FreeRequest EXCEPT !.pc = "batchVariants", !.batch = batch])

\* The variants of the classes named, then the coverages of all the variants.
BatchReadVariants(r) ==
    LET b == catalogReq[r].batch
    IN  /\ catalogReq[r].pc = "batchVariants"
        /\ catalogReq' = [catalogReq EXCEPT ![r].pc = "batchCoverages",
              ![r].batch.variants = b.variants \cup {v \in Variants : variant[v].class \in b.classes}]
        /\ UNCHANGED <<class, variant, coverage, offered, pricing>>

NoCascade(b) == b.coverages   \* variant: only the coverages named

WithCoveragesOf(b) == b.coverages \cup {c \in Coverages : coverage[c].variant \in b.variants}

BatchReadCoverages(r) ==
    /\ catalogReq[r].pc = "batchCoverages"
    /\ catalogReq' = [catalogReq EXCEPT ![r].pc = "batchCommit",
          ![r].batch.coverages = WithCoveragesOf(catalogReq[r].batch)]
    /\ UNCHANGED <<class, variant, coverage, offered, pricing>>

\* The tables the transaction empties before it deletes a period.
Emptied == Owners \X {"rate", "value tiers", "flat tiers"}

\* No row of another table refers to the period (ON DELETE RESTRICT).
Deletable(p) == pricing[p] \subseteq Emptied

Deactivate(status) == IF status = None THEN None ELSE "INACTIVE"

BatchCommit(r) ==
    LET b == catalogReq[r].batch
    IN  /\ catalogReq[r].pc = "batchCommit"
        /\ \A p \in b.periods : Deletable(p)
        /\ offered' = offered \ b.periods
        /\ pricing' = [p \in Periods |-> IF p \in b.periods THEN {} ELSE pricing[p]]
        /\ coverage' = [c \in Coverages |-> IF c \in b.coverages
                          THEN [coverage[c] EXCEPT !.status = Deactivate(@)] ELSE coverage[c]]
        /\ variant' = [v \in Variants |-> IF v \in b.variants
                          THEN [variant[v] EXCEPT !.status = Deactivate(@)] ELSE variant[v]]
        /\ class' = [c \in Classes |-> IF c \in b.classes THEN Deactivate(class[c]) ELSE class[c]]
        /\ CatalogAnswer(r)

-----------------------------------------------------------------------------
\* Any query may fail: a unique index or a foreign key refuses, or the
\* database is gone.
CatalogDies(r) ==
    /\ catalogReq[r].pc # "idle"
    /\ CatalogAnswer(r)
    /\ UNCHANGED <<class, variant, coverage, offered, pricing>>

\* A row of one tier is marked, or a class with something else.
Batches ==
    [classes : {{}} \cup {{c} : c \in Classes}, variants : {{}} \cup {{v} : v \in Variants},
     coverages : {{}} \cup {{c} : c \in Coverages}, periods : {{}} \cup {{p} : p \in offered}]

CatalogStart(r) ==
    \/ \E c \in Classes : CreateClass(r, c) \/ \E v \in Variants : ReadClass(r, v, c)
    \/ \E v \in Variants :
          \/ ClearTarget(r, v)
          \/ \E c \in Coverages : ReadTarget(r, v, c) \/ \E mode \in Modes : ReadVariant(r, c, v, mode)
    \/ \E c \in Coverages, d \in Days :
          \/ CreatePeriod(r, c, d)
          \/ \E filled \in BOOLEAN :
                \/ \E mode \in Modes : ReadPeriod(r, c, d, mode, filled)
                \/ \E table \in Tables : ReadPeriodForRows(r, c, d, table, filled)
    \/ \E batch \in Batches : BeginBatch(r, batch)

CatalogContinue(r) ==
    \/ CreateVariant(r) \/ CreateCoverage(r)
    \/ SetTarget(r)
    \/ SetMode(r) \/ UpsertScalars(r) \/ ReplaceRows(r)
    \/ BatchReadVariants(r) \/ BatchReadCoverages(r) \/ BatchCommit(r)
    \/ CatalogDies(r)

CatalogNext == \E r \in CatalogReqs : CatalogStart(r) \/ CatalogContinue(r)

CatalogSpec == CatalogInit /\ [][CatalogNext]_catalogVars

-----------------------------------------------------------------------------
(* What the handlers guarantee, but for one race: a row is added under one    *)
(* that a batch is deleting.  The cascade is read before the transaction, and *)
(* a row that was not there yet when it was read is not in it.                *)

Deleting == {"batchVariants", "batchCoverages", "batchCommit"}

\* q has read the row above the one it adds, and b is to delete that row.
AddsBelow(q, b) ==
    \/ q.pc = "createVariant" /\ q.parent \in b.classes
    \/ /\ q.pc = "createCoverage"
       /\ q.parent \in b.variants \/ variant[q.parent].class \in b.classes

Apart ==
    \A r, s \in CatalogReqs :
        catalogReq[s].pc \in Deleting => ~AddsBelow(catalogReq[r], catalogReq[s].batch)

\* Any number of requests at once, whatever else they add, delete and price.
ApartSpec == CatalogInit /\ [][CatalogNext /\ Apart']_catalogVars

\* No coverage is offered under a variant that is deleted, nor a variant under
\* a class that is: "every variant under a to-be-deleted class, and every
\* coverage under a to-be-deleted variant ... is deactivated too"
\* (catalog.js:710-712).  It holds of ApartSpec and not of CatalogSpec.
NothingActiveUnderDeleted ==
    /\ \A v \in Variants : variant[v].status = "ACTIVE" => class[variant[v].class] = "ACTIVE"
    /\ \A c \in Coverages : coverage[c].status = "ACTIVE" => variant[coverage[c].variant].status = "ACTIVE"

-----------------------------------------------------------------------------
(* What comments of the code say, and the code does not keep.                *)

\* "every tier (class/variant/coverage) and allowable periods are removed
\* together in one request/transaction, whatever the mix" (catalog.js:662-663).
MarkedPeriodsCanBeDeleted ==
    \A r \in CatalogReqs :
        catalogReq[r].pc = "batchCommit" => \A p \in catalogReq[r].batch.periods : Deletable(p)

\* "Must reference a VALUE_PERCENTAGE coverage belonging to this same variant"
\* (catalog.prisma:52-54).
TargetIsPricedByValue ==
    \A v \in Variants : variant[v].target # None =>
        coverage[variant[v].target].mode = "VALUE_PERCENTAGE"
================================================================================
