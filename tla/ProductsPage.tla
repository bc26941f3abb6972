------------------------------ MODULE ProductsPage ------------------------------
(***************************************************************************)
(* The page where products are administered (pages/ManageProducts.jsx): the *)
(* tree of classes, variants, coverages and periods as it was last loaded,  *)
(* the rows marked for deletion, and the dialogs that add and edit rows,     *)
(* which stay mounted and keep their draft.  Editing a coverage is           *)
(* PricingEditor's.                                                        *)
(*                                                                         *)
(* A row's contents are one text.  The administrator holds every permission *)
(* of the page.  The server carries a change out and answers in one step;    *)
(* a list it has read may arrive later.                                      *)
(***************************************************************************)
EXTENDS Integers, FiniteSets

CONSTANTS
    Rows,       \* rows there may be, of the four tiers
    Above,      \* what each is under: a row, or the page for a class
    Tier,       \* the tier of each
    Stocked,    \* rows there are when the page is opened
    Contents,   \* what may be typed
    AsStocked,  \* what those rows say then
    MaxClicks,  \* bound on what the administrator does
    MaxOthers   \* bound on what other administrators do

Top   == "page"
NoText == "blank"

Adds  == {"class", "variant", "coverage", "period"}
Edits == {"editClass", "editVariant"}

ASSUME ProductsAssumption ==
    /\ Above \in [Rows -> Rows \cup {Top}] /\ Tier \in [Rows -> Adds] /\ Stocked \subseteq Rows
    /\ AsStocked \in Contents \ {NoText} /\ MaxClicks \in Nat /\ MaxOthers \in Nat
    /\ Top \notin Rows
    /\ \A r \in Rows : IF Tier[r] = "class" THEN Above[r] = Top
                      ELSE Above[r] \in Rows /\ Tier[Above[r]] = (CASE Tier[r] = "variant"  -> "class"
                                                                    [] Tier[r] = "coverage" -> "variant"
                                                                    [] Tier[r] = "period"   -> "coverage")

VARIABLES
    stock,    \* the rows on the server
    page,     \* the list, what it was filtered by, the filter, the marks, what is under way
    dialog,   \* each dialog: its draft, what it is reverted to, whose it is
    calls,    \* changes sent, lists asked for and read
    removed,  \* rows that were struck out in a deletion that went through
    spent     \* how much this and other administrators have done

productsVars == <<stock, page, dialog, calls, removed, spent>>

ClosedDialog == [open |-> FALSE, target |-> Top, ref |-> Top,
                 form |-> [text |-> NoText, for |-> Top], original |-> [text |-> NoText, for |-> Top]]

Loading(by, filter) == [what |-> "list", by |-> by, filter |-> filter, read |-> FALSE, got |-> {}]

ProductsInit ==
    /\ stock = [r \in Rows |-> [status |-> IF r \in Stocked THEN "ACTIVE" ELSE "none", text |-> AsStocked]]
    /\ page = [list |-> {}, filter |-> "ACTIVE", listed |-> "ACTIVE", loading |-> TRUE,
               marks |-> {}, deleting |-> FALSE, saving |-> FALSE]
    /\ dialog = [k \in Adds \cup Edits |-> ClosedDialog]
    /\ calls = {Loading("page", "ACTIVE")}
    /\ removed = {}
    /\ spent = [clicks |-> 0, others |-> 0]

-----------------------------------------------------------------------------
(* The list.  Every tier is filtered, and a row is under those above it.      *)

Passes(r, filter) ==
    IF Tier[r] = "period" THEN stock[r].status = "ACTIVE"
    ELSE IF filter = "ALL" THEN stock[r].status # "none" ELSE stock[r].status = filter

Chain[r \in Rows] == {r} \cup IF Above[r] = Top THEN {} ELSE Chain[Above[r]]

ListOf(filter) ==
    {[row |-> r, text |-> stock[r].text] : r \in {s \in Rows : \A a \in Chain[s] : Passes(a, filter)}}

Shown == {entry.row : entry \in page.list}

LoadRead(l) ==
    /\ l.what = "list" /\ ~l.read
    /\ calls' = (calls \ {l}) \cup {[l EXCEPT !.read = TRUE, !.got = ListOf(l.filter)]}
    /\ UNCHANGED <<stock, page, dialog, removed, spent>>

\* Whoever waits for the list goes on, whether it came or not.
Loaded(l, pg) ==
    /\ page' = [pg EXCEPT !.loading = FALSE, !.deleting = @ /\ l.by # "delete",
                          !.saving = @ /\ l.by \notin Adds \cup Edits]
    /\ calls' = calls \ {l}
    /\ UNCHANGED <<stock, dialog, removed, spent>>

LoadArrives(l) == l.what = "list" /\ l.read /\ Loaded(l, [page EXCEPT !.list = l.got, !.listed = l.filter])
LoadFails(l)   == l.what = "list" /\ Loaded(l, page)

Click == spent.clicks < MaxClicks /\ spent' = [spent EXCEPT !.clicks = @ + 1]

\* While a list is loaded there is nothing else on the page; behind a dialog
\* the page is inert.
OnPage == ~page.loading /\ \A k \in DOMAIN dialog : ~dialog[k].open

ChooseFilter(filter) ==
    /\ OnPage /\ filter # page.filter /\ Click
    /\ page' = [page EXCEPT !.filter = filter, !.loading = TRUE]
    /\ calls' = calls \cup {Loading("page", filter)}
    /\ UNCHANGED <<stock, dialog, removed>>

-----------------------------------------------------------------------------
(* Deletions are marked, and sent together.                                  *)

Struck(r) == r \in page.marks \/ (Tier[r] # "period" /\ Chain[r] \cap page.marks # {})

\* What goes with the row above it is brought back with that; a period, alone.
Mark(r) ==
    /\ OnPage /\ r \in Shown /\ Click
    /\ Struck(r) => r \in page.marks
    /\ page' = [page EXCEPT !.marks = IF r \in @ THEN @ \ {r} ELSE @ \cup {r}]
    /\ UNCHANGED <<stock, dialog, calls, removed>>

Discard ==
    /\ OnPage /\ page.marks # {} /\ ~page.deleting /\ Click
    /\ page' = [page EXCEPT !.marks = {}]
    /\ UNCHANGED <<stock, dialog, calls, removed>>

SaveDeletes ==
    /\ OnPage /\ page.marks # {} /\ ~page.deleting /\ Click
    /\ page' = [page EXCEPT !.deleting = TRUE]
    /\ calls' = calls \cup {[what |-> "delete", rows |-> page.marks, filter |-> page.filter,
                             struck |-> {r \in Shown : Struck(r)}]}
    /\ UNCHANGED <<stock, dialog, removed>>

OneTierDown(rows) == rows \cup {r \in Rows : Tier[r] = "variant" /\ Above[r] \in rows}   \* variant: no coverages

\* PATCH /manage-products/batch-delete: the variants under the classes, then
\* the coverages under all the variants.
Cascade(rows) ==
    LET variants == rows \cup {r \in Rows : Tier[r] = "variant" /\ Above[r] \in rows}
    IN  variants \cup {r \in Rows : Tier[r] = "coverage" /\ Above[r] \in variants}

Without(rows) ==
    [r \in Rows |-> IF r \in Cascade(rows) /\ stock[r].status # "none"
                    THEN [stock[r] EXCEPT !.status = "INACTIVE"] ELSE stock[r]]

Deleted(c) ==
    /\ c.what = "delete"
    /\ stock' = Without(c.rows)
    /\ removed' = removed \cup c.struck
    /\ page' = [page EXCEPT !.marks = {}, !.loading = TRUE]
    /\ calls' = (calls \ {c}) \cup {Loading("delete", c.filter)}
    /\ UNCHANGED <<dialog, spent>>

DeleteFails(c) ==
    /\ c.what = "delete"
    /\ page' = [page EXCEPT !.deleting = FALSE]
    /\ calls' = calls \ {c}
    /\ UNCHANGED <<stock, dialog, removed, spent>>

-----------------------------------------------------------------------------
(* Opening a dialog.  Its draft is kept, unless it was another row's.         *)

AnyDraft(k, row, fresh) == [dialog[k] EXCEPT !.ref = row]   \* variant: whatever was typed last

DraftFor(k, row, fresh) ==
    IF dialog[k].ref = row THEN dialog[k]
    ELSE [dialog[k] EXCEPT !.ref = row, !.form = fresh, !.original = fresh]

Open(k, row, text) ==
    /\ OnPage /\ Click
    /\ dialog' = [dialog EXCEPT ![k] = [DraftFor(k, row, [text |-> text, for |-> row])
                                        EXCEPT !.open = TRUE, !.target = row]]
    /\ UNCHANGED <<stock, page, calls, removed>>

\* The row's buttons are there when it is not struck out, but for a period's.
Unmarked(tier) == {r \in Shown : Tier[r] = tier /\ ~Struck(r)}
Says(r) == (CHOOSE entry \in page.list : entry.row = r).text

OpenClassDialog         == Open("class", Top, NoText)
OpenVariantDialog(row)  == row \in Unmarked("class") /\ Open("variant", row, NoText)
OpenCoverageDialog(row) == row \in Unmarked("variant") /\ Open("coverage", row, NoText)
OpenAddPeriod(row)      == row \in Shown /\ Tier[row] = "coverage" /\ Open("period", row, NoText)
OpenEditClass(row)      == row \in Unmarked("class") /\ Open("editClass", row, Says(row))
OpenEditVariant(row)    == row \in Unmarked("variant") /\ Open("editVariant", row, Says(row))

InDialog(k) == dialog[k].open /\ ~page.loading

Dirty(k) == dialog[k].form.text # dialog[k].original.text

TypeIn(k, text) ==
    /\ InDialog(k) /\ Click
    /\ dialog' = [dialog EXCEPT ![k].form = [text |-> text, for |-> dialog[k].target]]
    /\ UNCHANGED <<stock, page, calls, removed>>

\* The buttons are disabled while it is saved; a click beside it closes it.
Leave(k) ==
    /\ InDialog(k)
    /\ dialog' = [dialog EXCEPT ![k].open = FALSE]
    /\ UNCHANGED <<stock, page, calls, removed, spent>>

CancelEditClass ==
    /\ InDialog("editClass") /\ Dirty("editClass") /\ ~page.saving
    /\ dialog' = [dialog EXCEPT !["editClass"].form = dialog["editClass"].original]
    /\ UNCHANGED <<stock, page, calls, removed, spent>>

CancelEditVariant ==
    /\ InDialog("editVariant") /\ Dirty("editVariant") /\ ~page.saving
    /\ dialog' = [dialog EXCEPT !["editVariant"].form = dialog["editVariant"].original]
    /\ UNCHANGED <<stock, page, calls, removed, spent>>

-----------------------------------------------------------------------------
(* Saving it.  One save is under way at a time, whichever dialog it is of.    *)

Submit(k) ==
    /\ InDialog(k) /\ ~page.saving /\ Click
    /\ page' = [page EXCEPT !.saving = TRUE]
    /\ calls' = calls \cup {[what |-> k, target |-> dialog[k].target, form |-> dialog[k].form,
                             filter |-> page.filter]}
    /\ UNCHANGED <<stock, dialog, removed>>

Filled(k) == dialog[k].form.text # NoText

SubmitClass       == Filled("class") /\ Submit("class")
SubmitVariant     == Filled("variant") /\ Submit("variant")
SubmitCoverage    == Filled("coverage") /\ Submit("coverage")
SubmitPeriod      == Filled("period") /\ Submit("period")
SubmitEditClass   == Dirty("editClass") /\ Filled("editClass") /\ Submit("editClass")
SubmitEditVariant == Dirty("editVariant") /\ Submit("editVariant")

\* The dialog is closed and the page loaded by the filter it had at the click.
Saved(c, form) ==
    /\ dialog' = [dialog EXCEPT ![c.what].open = FALSE, ![c.what].form = form]
    /\ page' = [page EXCEPT !.loading = TRUE]
    /\ calls' = (calls \ {c}) \cup {Loading(c.what, c.filter)}
    /\ UNCHANGED <<removed, spent>>

Added(c, r) ==
    /\ c.what \in Adds
    /\ stock[r].status = "none" /\ Tier[r] = c.what /\ Above[r] = c.target
    /\ c.what \in {"variant", "coverage"} => stock[c.target].status = "ACTIVE"
    /\ stock' = [stock EXCEPT ![r] = [status |-> "ACTIVE", text |-> c.form.text]]
    /\ Saved(c, [text |-> NoText, for |-> dialog[c.what].ref])

\* A draft that was edited stays, and so does what it is reverted to.
RowEdited(c) ==
    /\ c.what \in Edits /\ c.form.text # NoText
    /\ stock' = [stock EXCEPT ![c.target].text = c.form.text]
    /\ Saved(c, dialog[c.what].form)

SaveFails(c) ==
    /\ c.what \in Adds \cup Edits
    /\ page' = [page EXCEPT !.saving = FALSE]
    /\ calls' = calls \ {c}
    /\ UNCHANGED <<stock, dialog, removed, spent>>

-----------------------------------------------------------------------------
\* Another administrator, by the same requests.
OthersChange(r, text) ==
    /\ spent.others < MaxOthers /\ stock[r].status = "ACTIVE"
    /\ spent' = [spent EXCEPT !.others = @ + 1]
    /\ stock' \in {Without({r}), [stock EXCEPT ![r].text = text]}
    /\ UNCHANGED <<page, dialog, calls, removed>>

InDialogs ==
    \/ OpenClassDialog \/ CancelEditClass \/ CancelEditVariant
    \/ \E r \in Rows :
          \/ OpenVariantDialog(r) \/ OpenCoverageDialog(r) \/ OpenAddPeriod(r)
          \/ OpenEditClass(r) \/ OpenEditVariant(r)
    \/ \E k \in Adds \cup Edits : Leave(k) \/ \E text \in Contents : TypeIn(k, text)
    \/ SubmitClass \/ SubmitVariant \/ SubmitCoverage \/ SubmitPeriod
    \/ SubmitEditClass \/ SubmitEditVariant

ProductsNext ==
    \/ \E filter \in {"ACTIVE", "INACTIVE", "ALL"} : ChooseFilter(filter)
    \/ \E r \in Rows : Mark(r) \/ \E text \in Contents \ {NoText} : OthersChange(r, text)
    \/ Discard \/ SaveDeletes
    \/ InDialogs
    \/ \E c \in calls :
          \/ LoadRead(c) \/ LoadArrives(c) \/ LoadFails(c)
          \/ Deleted(c) \/ DeleteFails(c)
          \/ RowEdited(c) \/ SaveFails(c) \/ \E r \in Rows : Added(c, r)

ProductsSpec == ProductsInit /\ [][ProductsNext]_productsVars

-----------------------------------------------------------------------------
(* What the page guarantees.                                                 *)

\* "the draft is only replaced when the openXxx() function below is called for
\* a genuinely different target" (ManageProducts.jsx:136-139): nothing typed
\* for one row is sent for another, whichever dialogs are left and opened, also
\* while one is saved.
DraftsAreForTheirRow == \A c \in calls : c.what \in Adds \cup Edits => c.form.for = c.target

\* What was struck out when deletions were saved is gone, though the page and
\* the server each work out what goes with a row.
StruckOutIsRemoved == \A r \in removed : stock[r].status = "INACTIVE"

SentAsShown == DraftsAreForTheirRow /\ StruckOutIsRemoved

-----------------------------------------------------------------------------
(* What comments of the code say, and the code does not keep.                *)

\* A draft is "cleared entirely after a successful save"
\* (ManageProducts.jsx:138-139): an edited one is not, nor what it is reverted
\* to.  With nobody else at it, a row of a dialog nobody typed in says what it did.
EditsStartFromTheRow ==
    \A k \in Edits :
        LET d == dialog[k]
        IN  spent.others = 0 /\ d.open /\ ~page.saving => d.original.text = stock[d.target].text

\* "Active only", "Inactive only" (ManageProducts.jsx:589-590): a save reloads by
\* the filter of when it was clicked.
ListIsOfTheFilter == OnPage => page.listed = page.filter

\* "switching to All/Inactive Only is for auditing what's been removed"
\* (ManageProducts.jsx:211-213): of a class that is still there, it shows nothing.
RemovedAreListed ==
    OnPage /\ page.listed = "INACTIVE" /\ calls = {} /\ spent.others = 0 =>
        {r \in removed : Tier[r] # "period"} \subseteq Shown
================================================================================
