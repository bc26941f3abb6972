------------------------------- MODULE IntakeForm -------------------------------
(***************************************************************************)
(* The form an agent files from: pages/PolicyApplication.jsx and             *)
(* pages/QuotationCreator.jsx, which share this code, for a Motor filing.    *)
(*                                                                         *)
(* A handler of the form, with the effects React runs after it, is a step;   *)
(* an answer to something the form has asked the server is another, and the   *)
(* handlers see the form as it was when they were called.  Prices and the     *)
(* fields that only have to be filled in are left out.                       *)
(***************************************************************************)
EXTENDS Integers, Sequences, FiniteSets

CONSTANTS
    FilingAgents,  \* agents a filing may be made for
    Clients,       \* customers and companies on file
    TypedPlates,   \* plates an agent may type
    OnFileFor,     \* whose vehicle has the plate; Unclaimed, there is none
    FiledUnder,    \* the variant of the vehicle that has it
    CoversOf,      \* the coverages of each variant
    DaysOf,        \* the periods each is offered for
    PricedFor,     \* those an agent's catalog has prices for: of <<coverage, days>>
    Compulsory,    \* coverages in a mode that is mandatory
    Renewals,      \* policies whose renewal the form may be opened for
    MaxRows, MaxAsked

Unclaimed == "nobody"
Typed     == "typed"       \* a party that is not on file
Added     == "added"       \* one the form has put on file
NoVariant == "no variant"
NoDays    == 0
NoText    == ""            \* a plate not typed yet
Whole     == {0}           \* a coverage that applies to every vehicle

FormVariants == DOMAIN CoversOf

\* A renewal is [plates, client, variant, days, covers].  No period is of no days.
ASSUME IntakeAssumption ==
    /\ FormVariants # {} /\ MaxRows \in Nat \ {0} /\ MaxAsked \in Nat
    /\ \A p \in TypedPlates : OnFileFor[p] \in Clients \cup {Unclaimed} /\ FiledUnder[p] \in FormVariants
    /\ \A v \in FormVariants : \A c \in CoversOf[v] : NoDays \notin DaysOf[c]
    /\ NoText \notin TypedPlates
    /\ \A old \in Renewals : old.plates \in Seq(TypedPlates)

VARIABLES
    form,       \* agent, catalog, party, variant, days, vehicle rows, coverages
    warned,     \* vehiclePolicyHistory: by row, the plate whose policies are shown
    checked,    \* lastCheckedPlateRef: by row, the plate that was looked up
    asked,      \* lookups and catalogs under way
    conflict,   \* plateConflict: the vehicle the agent is asked about
    preview,    \* what the preview shows, if it is open
    saving,     \* what handleConfirmSubmit is waiting for
    created     \* the typed party is on file by now

intakeVars == <<form, warned, checked, asked, conflict, preview, saving, created>>

Nothing == << >>                                    \* a function of no row
Closed  == {}
NoPick == [scope |-> Whole, meant |-> {}, stale |-> FALSE]

\* A row has a tag, which says which one it is wherever it moves to.
EmptyRow(tag) == [plate |-> NoText, match |-> "none", tag |-> tag]

EmptyForm(agent) ==
    [agent |-> agent, catalog |-> agent, party |-> Typed, variant |-> NoVariant, days |-> NoDays,
     rows |-> <<EmptyRow(1)>>, picks |-> Nothing]

Without(f, i) == [x \in DOMAIN f \ {i} |-> f[x]]
Put(f, i, value) == [x \in DOMAIN f \cup {i} |-> IF x = i THEN value ELSE f[x]]

\* The rows without row i: those after it move up.
RowsWithout(rows, i) == [j \in 1..(Len(rows) - 1) |-> IF j < i THEN rows[j] ELSE rows[j + 1]]

NewTag(f) == CHOOSE t \in 1..MaxRows : \A i \in DOMAIN f.rows : f.rows[i].tag # t

-----------------------------------------------------------------------------
(* What a render derives, and the effects that follow it.                    *)

Priced(f, c) == <<c, f.days>> \in PricedFor[f.catalog]

FormCovers(f) == IF f.variant = NoVariant THEN {} ELSE CoversOf[f.variant]

\* requiredCoverages.
RequiredOf(f) == {c \in FormCovers(f) \cap Compulsory : f.days \in DaysOf[c] /\ Priced(f, c)}

MatchedVariants(f) == {FiledUnder[f.rows[i].plate] : i \in {j \in DOMAIN f.rows : f.rows[j].match # "none"}}

\* Vehicles that belonged to another party are gone; coverages keep their rows.
ResetRows(f) ==
    [f EXCEPT !.rows = <<EmptyRow(1)>>,
              !.picks = [c \in DOMAIN @ |-> [f.picks[c] EXCEPT !.stale = f.picks[c].scope # Whole, !.meant = {}]]]

\* The variant follows the vehicles that are on file.
FollowMatched(f, g) ==
    IF MatchedVariants(g) # MatchedVariants(f) /\ Cardinality(MatchedVariants(g)) = 1
    THEN [g EXCEPT !.variant = CHOOSE v \in MatchedVariants(g) : TRUE] ELSE g

\* What is required is selected as soon as it is, and only then.
SelectRequired(f, g) ==
    IF RequiredOf(g) = RequiredOf(f) THEN g
    ELSE [g EXCEPT !.picks = [c \in DOMAIN @ \cup RequiredOf(g) |->
                                 IF c \in DOMAIN g.picks THEN g.picks[c] ELSE NoPick]]

\* The form f, changed to g, as it comes to rest.
Settle(f, g) ==
    LET own == IF g.party = f.party THEN g ELSE ResetRows(g)
    IN  SelectRequired(f, FollowMatched(f, own))

Render(g) == form' = Settle(form, g)

\* The renewalPrefill effect, before the form is shown.
Renewed(f, old) ==
    SelectRequired(f,
        [f EXCEPT !.party = old.client, !.variant = old.variant, !.days = old.days,
                  !.rows = [i \in DOMAIN old.plates |->
                               [plate |-> old.plates[i], match |-> "own", tag |-> i]],
                  !.picks = [c \in old.covers |-> NoPick]])

IntakeInit ==
    /\ \E a \in FilingAgents :
          form \in {EmptyForm(a)} \cup {Renewed(EmptyForm(a), old) : old \in Renewals}
    /\ warned = Nothing /\ checked = Nothing /\ asked = {} /\ conflict = Nothing
    /\ preview = Closed /\ saving = "no" /\ created = FALSE

\* The page behind a dialog cannot be used.
Editing == preview = Closed /\ conflict = Nothing

Unasked == UNCHANGED <<asked, conflict, preview, saving, created>>

-----------------------------------------------------------------------------
(* Whose filing it is.                                                       *)

\* handleFilingAgentChange: the party starts over; the catalog is asked for.
ChangeAgent(a) ==
    /\ Editing /\ a # form.agent /\ Cardinality(asked) < MaxAsked
    /\ Render([form EXCEPT !.agent = a, !.party = Typed])
    /\ asked' = asked \cup {[kind |-> "catalog", agent |-> a]}
    /\ checked' = IF form.party = Typed THEN checked ELSE Nothing
    /\ UNCHANGED <<warned, conflict, preview, saving, created>>

CatalogAnswered(q) ==
    /\ q.kind = "catalog"
    /\ Render([form EXCEPT !.catalog = q.agent])
    /\ asked' = asked \ {q}
    /\ UNCHANGED <<warned, checked, conflict, preview, saving, created>>

\* A client is picked from the list or matched by e-mail, or the agent types
\* somebody else: the vehicles of the other one go.
ChangeParty(client) ==
    /\ Editing /\ client # form.party
    /\ Render([form EXCEPT !.party = client])
    /\ checked' = Nothing
    /\ UNCHANGED warned /\ Unasked

-----------------------------------------------------------------------------
(* Coverages.                                                                *)

\* handleVariantChange, while no vehicle decides it.
ChangeVariant(v) ==
    /\ Editing /\ v # form.variant /\ MatchedVariants(form) = {}
    /\ Render([form EXCEPT !.variant = v, !.days = NoDays, !.picks = Nothing])
    /\ UNCHANGED <<warned, checked>> /\ Unasked

\* togglePeriod: coverages not offered for the new one go.
TogglePeriod(days) ==
    LET next == IF days = form.days THEN NoDays ELSE days
        kept == {c \in DOMAIN form.picks \cap FormCovers(form) : next \in DaysOf[c]}
    IN  /\ Editing /\ \E c \in FormCovers(form) : days \in DaysOf[c]
        /\ Render([form EXCEPT !.days = next, !.picks = [c \in kept |-> @[c]]])
        /\ UNCHANGED <<warned, checked>> /\ Unasked

AnyCover(f, c) == TRUE   \* variant: what is required can be unchecked too

\* toggleCoverage leaves what is required alone.
MayToggle(f, c) == c \notin RequiredOf(f)

ToggleCoverage(c) ==
    /\ Editing /\ form.days \in DaysOf[c] /\ MayToggle(form, c)
    /\ IF c \in DOMAIN form.picks THEN Render([form EXCEPT !.picks = Without(@, c)])
       ELSE Priced(form, c) /\ Render([form EXCEPT !.picks = Put(@, c, NoPick)])
    /\ UNCHANGED <<warned, checked>> /\ Unasked

\* The checkboxes below a coverage: every vehicle, or some of them.
ScopeCoverage(c, scope) ==
    /\ Editing /\ Len(form.rows) > 1
    /\ Render([form EXCEPT !.picks[c] =
                  [scope |-> scope, stale |-> FALSE,
                   meant |-> IF scope = Whole THEN {} ELSE {form.rows[i].tag : i \in scope}]])
    /\ UNCHANGED <<warned, checked>> /\ Unasked

-----------------------------------------------------------------------------
(* Vehicles.                                                                 *)

AddVehicle ==
    /\ Editing /\ Len(form.rows) < MaxRows
    /\ Render([form EXCEPT !.rows = Append(@, EmptyRow(NewTag(form)))])
    /\ UNCHANGED <<warned, checked>> /\ Unasked

NotShifted(scope, i) == scope   \* variant: the rows move, what refers to them does not

\* Positions after row i is gone.
ShiftedScope(scope, i) ==
    IF scope = Whole THEN Whole
    ELSE {IF j > i THEN j - 1 ELSE j : j \in scope \ {i}}

\* removeVehicle: coverages follow; what was looked up by row does not.
RemoveVehicle(i) ==
    /\ Editing /\ Len(form.rows) > 1
    /\ Render([form EXCEPT !.rows = RowsWithout(@, i),
                           !.picks = [c \in DOMAIN @ |->
                              [form.picks[c] EXCEPT !.scope = ShiftedScope(@, i),
                                                    !.meant = @ \ {form.rows[i].tag}]]])
    /\ checked' = Without(checked, i)
    /\ warned' = Without(warned, i)
    /\ Unasked

\* A plate is typed into a row that is not a vehicle on file.
TypePlate(i, plate) ==
    /\ Editing /\ form.rows[i].match = "none" /\ form.rows[i].plate # plate
    /\ Render([form EXCEPT !.rows[i].plate = plate])
    /\ checked' = Without(checked, i)
    /\ UNCHANGED warned /\ Unasked

\* Or one of the party's vehicles is chosen below it.
ChooseVehicle(i, plate) ==
    /\ Editing /\ form.rows[i].match = "none" /\ OnFileFor[plate] = form.party
    /\ Render([form EXCEPT !.rows[i].plate = plate, !.rows[i].match = "own"])
    /\ checked' = Put(checked, i, plate)
    /\ UNCHANGED warned /\ Unasked

\* handlePlateBlur, up to the lookup.  Clicking on anything leaves the field.
LeavePlate(i) ==
    LET row == form.rows[i]
    IN  /\ Editing /\ Cardinality(asked) < MaxAsked
        /\ row.plate # NoText /\ row.match = "none"
        /\ i \in DOMAIN checked => checked[i] # row.plate
        /\ checked' = Put(checked, i, row.plate)
        /\ asked' = asked \cup {[kind |-> "plate", row |-> i, plate |-> row.plate, party |-> form.party]}
        /\ UNCHANGED <<form, warned, conflict, preview, saving, created>>

\* The row becomes a vehicle on file, and its policies are shown.
Match(i, plate, how) ==
    /\ Render([form EXCEPT !.rows = [j \in DOMAIN @ |->
                  IF j = i THEN [@[j] EXCEPT !.plate = plate, !.match = how] ELSE @[j]]])
    /\ warned' = Put(warned, i, plate)

\* handlePlateBlur, after it: for the row and the party it was called with.
PlateAnswered(q) ==
    /\ q.kind = "plate"
    /\ asked' = asked \ {q}
    /\ IF OnFileFor[q.plate] = Unclaimed THEN UNCHANGED <<form, warned, conflict>>
       ELSE IF OnFileFor[q.plate] = q.party THEN Match(q.row, q.plate, "own") /\ UNCHANGED conflict
       ELSE conflict' = <<q.row, q.plate>> /\ UNCHANGED <<form, warned>>
    /\ UNCHANGED <<checked, preview, saving, created>>

\* handleConfirmPlateMatch: the vehicle will be taken over.
ConfirmMatch ==
    /\ conflict # Nothing
    /\ Match(conflict[1], conflict[2], "take")
    /\ conflict' = Nothing
    /\ UNCHANGED <<checked, asked, preview, saving, created>>

\* resetVehicleRow.
ClearRow(i) ==
    /\ Render([form EXCEPT !.rows = [j \in DOMAIN @ |-> IF j = i THEN EmptyRow(@[j].tag) ELSE @[j]]])
    /\ warned' = Without(warned, i)
    /\ checked' = Without(checked, i)

DeclineMatch ==
    /\ conflict # Nothing
    /\ ClearRow(conflict[1])
    /\ conflict' = Nothing
    /\ UNCHANGED <<asked, preview, saving, created>>

UseDifferentVehicle(i) ==
    /\ Editing /\ form.rows[i].match # "none"
    /\ ClearRow(i)
    /\ Unasked

-----------------------------------------------------------------------------
(* Preview and save.                                                         *)

\* What the preview is made of, and what is sent.
Payload(f) ==
    [party |-> f.party, variant |-> f.variant, days |-> f.days, catalog |-> f.catalog,
     rows |-> [i \in DOMAIN f.rows |-> <<f.rows[i].plate, f.rows[i].match>>],
     picks |-> [c \in DOMAIN f.picks |-> f.picks[c].scope]]

\* handlePreview's checks; a coverage that is not the variant's ends in an error.
ReadyToPreview(f) ==
    /\ DOMAIN f.picks \subseteq FormCovers(f)
    /\ RequiredOf(f) \subseteq DOMAIN f.picks /\ DOMAIN f.picks # RequiredOf(f)
    /\ f.days # NoDays
    /\ Cardinality(MatchedVariants(f)) <= 1
    /\ \E i \in DOMAIN f.rows : f.rows[i].plate # NoText
    /\ \A c \in DOMAIN f.picks : LET s == f.picks[c].scope
                                 IN  s = Whole \/ (s # {} /\ s \subseteq DOMAIN f.rows)

OpenPreview ==
    /\ Editing /\ ReadyToPreview(form)
    /\ preview' = {Payload(form)}
    /\ UNCHANGED <<form, warned, checked, asked, conflict, saving, created>>

\* "Back to edit", or a click beside the dialog, even while it saves.
ClosePreview ==
    /\ preview # Closed /\ conflict = Nothing
    /\ preview' = Closed
    /\ UNCHANGED <<form, warned, checked, asked, conflict, saving, created>>

\* handleConfirmSubmit: a party that is typed is put on file first.
Confirm ==
    /\ preview # Closed /\ conflict = Nothing /\ saving = "no"
    /\ saving' = IF form.party = Typed THEN "party" ELSE "filing"
    /\ UNCHANGED <<form, warned, checked, asked, conflict, preview, created>>

\* One that is on file already is refused.
PartySaved ==
    /\ saving = "party"
    /\ \/ ~created /\ created' = TRUE /\ saving' = "filing"
       \/ created' = created /\ saving' = "no"
    /\ UNCHANGED <<form, warned, checked, asked, conflict, preview>>

\* All is reset but the party, whose id is kept; or the server refuses.
FilingSaved ==
    /\ saving = "filing"
    /\ saving' = "no"
    /\ \/ /\ form' = [EmptyForm(form.agent) EXCEPT
                        !.catalog = form.catalog,
                        !.party = IF form.party = Typed THEN Added ELSE form.party]
          /\ checked' = Nothing /\ preview' = Closed /\ created' = FALSE
          /\ UNCHANGED <<warned, asked, conflict>>
       \/ UNCHANGED <<form, warned, checked, asked, conflict, preview, created>>

-----------------------------------------------------------------------------
UseForm ==
    \/ \E a \in FilingAgents : ChangeAgent(a)
    \/ \E client \in Clients \cup {Typed} : ChangeParty(client)
    \/ \E v \in FormVariants : ChangeVariant(v)
    \/ \E days \in UNION {DaysOf[c] : c \in DOMAIN DaysOf} : TogglePeriod(days)
    \/ \E c \in FormCovers(form) : ToggleCoverage(c)
    \/ \E c \in DOMAIN form.picks, scope \in {Whole} \cup SUBSET DOMAIN form.rows : ScopeCoverage(c, scope)
    \/ AddVehicle
    \/ \E i \in DOMAIN form.rows :
          \/ RemoveVehicle(i) \/ LeavePlate(i) \/ UseDifferentVehicle(i)
          \/ \E plate \in TypedPlates : TypePlate(i, plate) \/ ChooseVehicle(i, plate)
    \/ ConfirmMatch \/ DeclineMatch
    \/ OpenPreview \/ ClosePreview \/ Confirm

ServerAnswers ==
    \/ \E q \in asked : CatalogAnswered(q) \/ PlateAnswered(q)
    \/ PartySaved \/ FilingSaved

IntakeNext == UseForm \/ ServerAnswers

IntakeSpec == IntakeInit /\ [][IntakeNext]_intakeVars

-----------------------------------------------------------------------------
(* What the form guarantees.                                                 *)

\* A coverage that was limited to some vehicles is for those, whatever rows
\* are removed, added, matched or cleared, until the party changes.
ScopesFollowTheirVehicles ==
    \A c \in DOMAIN form.picks :
        LET pick == form.picks[c]
        IN  pick.scope # Whole /\ ~pick.stale =>
                pick.scope = {i \in DOMAIN form.rows : form.rows[i].tag \in pick.meant}

\* What is required of the variant, for the period, at the prices shown, is
\* selected, though it is selected only when that changes, and the variant,
\* the period, the catalog and the selection change apart.
RequiredStaySelected == RequiredOf(form) \subseteq DOMAIN form.picks

-----------------------------------------------------------------------------
(* What comments of the code say, and the code does not keep.                *)

\* "while the dialog is open the form behind it is inert, so it can't change
\* anyway" (QuotationCreator.jsx:2181-2183): an answer may still come.
PreviewShowsTheForm == preview \subseteq {Payload(form)}

\* References to rows "need the same treatment or they'd silently point at the
\* wrong (or a nonexistent) vehicle" (QuotationCreator.jsx:1694-1696), and do
\* when the party changes.
ScopesNameRows ==
    \A c \in DOMAIN form.picks : form.picks[c].scope # Whole => form.picks[c].scope \subseteq DOMAIN form.rows

\* "{ [vehicleRowIndex]: latest_policy-or-null }" (QuotationCreator.jsx:939):
\* what is shown at a row is about the vehicle in it.
WarningsAreForTheirRow ==
    \A i \in DOMAIN warned : i \in DOMAIN form.rows /\ form.rows[i].plate = warned[i]

\* "already this party's own vehicle" (QuotationCreator.jsx:1730-1731).
OwnVehiclesAreTheParty ==
    \A i \in DOMAIN form.rows : form.rows[i].match = "own" => OnFileFor[form.rows[i].plate] = form.party

\* The coverages selected are the variant's.
SelectionsAreOfTheVariant == DOMAIN form.picks \subseteq FormCovers(form)

\* Prices are the filing agent's, once they have been loaded.
CatalogIsTheAgents == (\A q \in asked : q.kind # "catalog") => form.catalog = form.agent

\* A party put on file is remembered when the filing fails, as it is when it
\* succeeds: saving again puts it on file again, which is refused.
CreatedPartyIsKept == created /\ saving = "no" => form.party # Typed
================================================================================
