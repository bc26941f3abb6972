------------------------------ MODULE PricingEditor ------------------------------
(***************************************************************************)
(* Editing a coverage on the products page: the dialog of                   *)
(* pages/ManageProducts.jsx for its details, and in it                       *)
(* components/CoveragePricingEditor.jsx for its maximum, its mode and what   *)
(* each of its periods costs.  One Save writes both, in up to five requests; *)
(* whatever makes the page load its list again takes the editor off it, and  *)
(* a new one comes with the list.                                            *)
(*                                                                         *)
(* Names, codes and the clause are one text, and so is a table of rates.  A  *)
(* write and its answer are one step; what a read finds may arrive later.    *)
(***************************************************************************)
EXTENDS Integers, Sequences, FiniteSets

CONSTANTS
    Priced,       \* coverages
    PeriodDays,   \* lengths of a period there may be
    FirstDay,     \* the shortest; every coverage has it
    OfferedAt,    \* the periods each coverage has to begin with
    EditorModes,  \* pricing modes in use
    Figures,      \* what may be entered
    EditorClicks  \* bound on what the administrator does

NoFigure == "blank"
NoCover  == "no coverage"
AsBefore == "as before"

ASSUME EditorAssumption ==
    /\ EditorModes \subseteq {"PERCENTAGE", "VALUE_PERCENTAGE", "FLAT_TIER", "VEHICLE_SEATS_BASED"}
    /\ "PERCENTAGE" \in EditorModes /\ EditorClicks \in Nat /\ NoCover \notin Priced
    /\ \A d \in PeriodDays : FirstDay <= d
    /\ \A c \in Priced : FirstDay \in OfferedAt[c] /\ OfferedAt[c] \subseteq PeriodDays

\* What a mode needs: scalars, and tables of tiers.
Scalars(mode) == CASE mode = "PERCENTAGE" -> {"rate"} [] mode = "VEHICLE_SEATS_BASED" -> {"seats"} [] OTHER -> {}
TiersOf(mode) == CASE mode = "VALUE_PERCENTAGE"    -> {"value tiers"}
                   [] mode = "FLAT_TIER"           -> {"flat tiers"}
                   [] mode = "VEHICLE_SEATS_BASED" -> {"seat tiers"}
                   [] OTHER                        -> {}
Parts == UNION {Scalars(m) \cup TiersOf(m) : m \in EditorModes}

VARIABLES
    cover,    \* ProductCoverage rows: details, maximum, mode, and its periods with what they cost
    listed,   \* the page's copy of their details, maximum and periods; what it waits for
    edit,     \* the dialog: whose it is, its details, and what they are reverted to
    editor,   \* the pricing editor in it
    reads,    \* prices asked for, by the editor that is there
    save,     \* the save under way, or the last one
    clicks

editorVars == <<cover, listed, edit, editor, reads, save, clicks>>

Unpriced == [p \in Parts |-> NoFigure]

Copied(c) == [details |-> cover[c].details, max |-> cover[c].max, days |-> DOMAIN cover[c].prices]

Gone == [of |-> NoCover]

NotSaving == [step |-> "idle"]

EditorInit ==
    /\ cover = [c \in Priced |-> [details |-> AsBefore, max |-> AsBefore, mode |-> "PERCENTAGE",
                                  prices |-> [d \in OfferedAt[c] |-> [p \in Parts |-> AsBefore]]]]
    /\ listed = [copy |-> [c \in Priced |-> Copied(c)], waiting |-> {}, loading |-> FALSE]
    /\ edit = [open |-> FALSE, of |-> NoCover, copy |-> << >>, ref |-> NoCover,
               form |-> [text |-> NoFigure, for |-> NoCover], original |-> [text |-> NoFigure, for |-> NoCover]]
    /\ editor = Gone
    /\ reads = {}
    /\ save = NotSaving
    /\ clicks = 0

Saving == save.step \notin {"idle", "done"}

\* Something is done on the page; while a coverage is saved, nothing stops it.
\* A save that nothing happened to since it began is alone.
Do ==
    /\ ~listed.loading /\ clicks < EditorClicks
    /\ clicks' = clicks + 1

Meddled == IF Saving THEN [save EXCEPT !.alone = FALSE] ELSE save

-----------------------------------------------------------------------------
(* An editor is new when it is put on the page: it starts from the copy that   *)
(* it was opened with, and asks for the prices of the first period.           *)

Read(of, day, at) == [of |-> of, day |-> day, at |-> at, done |-> FALSE, got |-> << >>]

Mounted(of, copy, at) ==
    LET start == [max |-> copy.max, mode |-> "PERCENTAGE", prices |-> Unpriced, for |-> FirstDay]
    IN  /\ editor' = [of |-> of, by |-> at, days |-> copy.days, day |-> FirstDay, reading |-> TRUE,
                      draft |-> start, original |-> start]
        /\ reads' = {Read(of, FirstDay, at)}

\* openEditCoverage: the details are kept if it is the coverage of before, and
\* the editor, which has the coverage for its key, too.
OpenEditCoverage(c) ==
    /\ Do /\ ~edit.open
    /\ LET fresh == [text |-> listed.copy[c].details, for |-> c]
           kept  == IF edit.ref = c THEN edit ELSE [edit EXCEPT !.ref = c, !.form = fresh, !.original = fresh]
       IN  edit' = [kept EXCEPT !.open = TRUE, !.of = c, !.copy = listed.copy[c]]
    /\ IF editor.of = c THEN UNCHANGED <<editor, reads>> ELSE Mounted(c, listed.copy[c], clicks)
    /\ save' = Meddled
    /\ UNCHANGED <<cover, listed>>

\* The buttons are disabled while it is saved; a click beside it closes it.
CloseEditCoverage ==
    /\ Do /\ edit.open
    /\ edit' = [edit EXCEPT !.open = FALSE]
    /\ save' = Meddled
    /\ UNCHANGED <<cover, listed, editor, reads>>

PricesRead(r) ==
    /\ ~r.done
    /\ reads' = (reads \ {r}) \cup
          {[r EXCEPT !.done = TRUE, !.got = [mode |-> cover[r.of].mode, prices |-> cover[r.of].prices[r.day]]]}
    /\ UNCHANGED <<cover, listed, edit, editor, save, clicks>>

\* Whatever period is chosen by now, and whatever was entered since.
PricesArrive(r) ==
    /\ r.done
    /\ LET as(was) == [max |-> was.max, mode |-> r.got.mode, prices |-> r.got.prices, for |-> r.day]
       IN  editor' = [editor EXCEPT !.reading = FALSE, !.draft = as(@), !.original = as(@)]
    /\ reads' = reads \ {r}
    /\ save' = Meddled
    /\ UNCHANGED <<cover, listed, edit, clicks>>

PricesFail(r) ==
    /\ editor' = [editor EXCEPT !.reading = FALSE]
    /\ reads' = reads \ {r}
    /\ UNCHANGED <<cover, listed, edit, save, clicks>>

-----------------------------------------------------------------------------
(* What is entered.                                                          *)

InEdit == edit.open /\ ~listed.loading

Entered(draft) ==
    /\ Do /\ edit.open
    /\ editor' = [editor EXCEPT !.draft = draft]
    /\ save' = Meddled
    /\ UNCHANGED <<cover, listed, edit, reads>>

EnterMaximum(text) == InEdit /\ Entered([editor.draft EXCEPT !.max = text])
ChooseMode(mode)   == InEdit /\ ~editor.reading /\ Entered([editor.draft EXCEPT !.mode = mode])

EnterPrice(p, text) ==
    /\ InEdit /\ ~editor.reading /\ p \in Scalars(editor.draft.mode) \cup TiersOf(editor.draft.mode)
    /\ Entered([editor.draft EXCEPT !.prices[p] = text])

EnterDetails(text) ==
    /\ Do /\ edit.open
    /\ edit' = [edit EXCEPT !.form = [text |-> text, for |-> edit.of]]
    /\ save' = Meddled
    /\ UNCHANGED <<cover, listed, editor, reads>>

ChoosePeriod(d) ==
    /\ Do /\ edit.open /\ d \in editor.days \ {editor.day}
    /\ editor' = [editor EXCEPT !.day = d, !.reading = TRUE]
    /\ reads' = reads \cup {Read(editor.of, d, clicks)}
    /\ save' = Meddled
    /\ UNCHANGED <<cover, listed, edit>>

\* handleCreatePeriod.  The page loads its list again, and takes the editor
\* off meanwhile, with what was entered.
CreateEditorPeriod(d) ==
    /\ Do /\ edit.open /\ d \notin editor.days \cup DOMAIN cover[editor.of].prices
    /\ cover' = [cover EXCEPT ![editor.of].prices =
                   [e \in DOMAIN @ \cup {d} |-> IF e = d THEN Unpriced ELSE @[e]]]
    /\ listed' = [listed EXCEPT !.waiting = @ \cup {"changed"}, !.loading = TRUE]
    /\ editor' = Gone /\ reads' = {}
    /\ save' = Meddled
    /\ UNCHANGED edit

DetailsDirty == edit.form.text # edit.original.text
PricingDirty == editor.draft # editor.original

CancelEditCoverage ==
    /\ Do /\ edit.open /\ (DetailsDirty \/ PricingDirty) /\ ~Saving
    /\ edit' = [edit EXCEPT !.form = edit.original]
    /\ editor' = [editor EXCEPT !.draft = editor.original]
    /\ UNCHANGED <<cover, listed, reads, save>>

-----------------------------------------------------------------------------
(* Saving.                                                                   *)

\* What was entered for the mode that is chosen.
PricesAsked(e) ==
    LET d == e.draft  o == e.original
    IN  (IF d.max # o.max THEN {<<"max", e.of, d.max>>} ELSE {})
        \cup (IF d.mode # o.mode THEN {<<"mode", e.of, d.mode>>} ELSE {})
        \cup {<<p, e.of, e.day, d.prices[p]>> :
                p \in {q \in Scalars(d.mode) \cup TiersOf(d.mode) : d.prices[q] # o.prices[q]}}

ModeIsSentWithScalars(d, o) == \E p \in Scalars(d.mode) : d.prices[p] # o.prices[p]   \* variant: or not at all

ModeIsSent(d, o) == d.mode # o.mode \/ \E p \in Scalars(d.mode) : d.prices[p] # o.prices[p]

\* The requests of handleSave, in order.  Tiers are sent whether they changed.
Requests(d, o) ==
    (IF d.max # o.max THEN <<"max">> ELSE << >>)
    \o (IF TiersOf(d.mode) # {} THEN <<"tiers">> ELSE << >>)
    \o (IF ModeIsSent(d, o) THEN <<"mode">> ELSE << >>)

\* The editor that is on the page by now is told to save; there may be none.
Started(sv) ==
    IF editor = Gone THEN NotSaving
    ELSE [sv EXCEPT !.step = "requests", !.todo = Requests(editor.draft, editor.original),
            !.job = [of |-> editor.of, day |-> editor.day, draft |-> editor.draft, by |-> editor.by]]

SaveEditCoverage ==
    /\ Do /\ edit.open /\ ~Saving
    /\ DetailsDirty \/ PricingDirty
    /\ DetailsDirty => edit.form.text # NoFigure
    /\ LET asked == PricesAsked(editor) \cup
                      (IF DetailsDirty THEN {<<"details", edit.of, edit.form.text>>} ELSE {})
           sv    == [step |-> "details", of |-> edit.of, form |-> edit.form, pricing |-> PricingDirty,
                     job |-> << >>, todo |-> << >>, alone |-> TRUE, asked |-> asked, written |-> {}]
       IN  save' = IF DetailsDirty THEN sv ELSE Started(sv)
    /\ UNCHANGED <<cover, listed, edit, editor, reads>>

Reload(waiting) ==
    /\ listed' = [listed EXCEPT !.waiting = @ \cup waiting, !.loading = TRUE]
    /\ editor' = Gone /\ reads' = {}

\* PATCH /coverages/:id.  What the details are reverted to is set, whosever
\* dialog it is by now.
DetailsSaved ==
    /\ save.step = "details"
    /\ cover' = [cover EXCEPT ![save.of].details = save.form.text]
    /\ edit' = [edit EXCEPT !.original = save.form]
    /\ LET sv == [save EXCEPT !.written = @ \cup {<<"details", save.of, save.form.text>>}]
       IN  save' = IF save.pricing THEN Started(sv) ELSE [sv EXCEPT !.step = "reload"]
    /\ IF save.pricing THEN UNCHANGED <<listed, editor, reads>> ELSE Reload({"saved"})
    /\ UNCHANGED clicks

\* A scalar left blank is an error before it is sent.
ScalarsGiven(parts) == \A p \in parts : save.job.draft.prices[p] # NoFigure

Put(parts) ==
    [d \in DOMAIN cover[save.job.of].prices |->
        [p \in Parts |-> IF d = save.job.day /\ p \in parts THEN save.job.draft.prices[p]
                         ELSE cover[save.job.of].prices[d][p]]]

Acknowledged(what, parts) ==
    LET job == save.job
    IN  [save EXCEPT !.todo = Tail(@), !.written = @ \cup what \cup
            {<<p, job.of, job.day, job.draft.prices[p]>> : p \in parts}]

NextRequest(kind) == save.step = "requests" /\ save.todo # << >> /\ Head(save.todo) = kind

MaximumSaved ==
    LET job == save.job
    IN  /\ NextRequest("max") /\ job.draft.max # NoFigure
        /\ cover' = [cover EXCEPT ![job.of].max = job.draft.max]
        /\ save' = Acknowledged({<<"max", job.of, job.draft.max>>}, {})
        /\ UNCHANGED <<listed, edit, editor, reads, clicks>>

TiersSaved ==
    LET parts == TiersOf(save.job.draft.mode)
    IN  /\ NextRequest("tiers")
        /\ cover' = [cover EXCEPT ![save.job.of].prices = Put(parts)]
        /\ save' = Acknowledged({}, parts)
        /\ UNCHANGED <<listed, edit, editor, reads, clicks>>

\* PATCH /coverages/:id/pricing, which may fail between the two.
ModeSaved ==
    LET job   == save.job
        parts == Scalars(job.draft.mode)
        moded == [cover EXCEPT ![job.of].mode = job.draft.mode]
    IN  /\ NextRequest("mode") /\ ScalarsGiven(parts)
        /\ \/ /\ cover' = [moded EXCEPT ![job.of].prices = Put(parts)]
              /\ save' = Acknowledged({<<"mode", job.of, job.draft.mode>>}, parts)
           \/ cover' = moded /\ save' = NotSaving
        /\ UNCHANGED <<listed, edit, editor, reads, clicks>>

\* The maximum counts as saved; then the prices are read, and the list loaded
\* twice: by the editor, and by the dialog before it closes.
PricingSaved ==
    /\ save.step = "requests" /\ save.todo = << >>
    /\ save' = [save EXCEPT !.step = "refresh"]
    /\ editor' = IF editor # Gone /\ editor.by = save.job.by
                 THEN [editor EXCEPT !.original.max = save.job.draft.max] ELSE editor
    /\ UNCHANGED <<cover, listed, edit, reads, clicks>>

Refreshed ==
    /\ save.step = "refresh"
    /\ save' = [save EXCEPT !.step = "reload"]
    /\ Reload({"changed", "saved"})
    /\ UNCHANGED <<cover, edit, clicks>>

\* A request fails: the dialog stays open.
SaveCoverageFails ==
    /\ save.step \in {"details", "requests", "refresh"}
    /\ save' = NotSaving
    /\ UNCHANGED <<cover, listed, edit, editor, reads, clicks>>

\* The list arrives, or does not; the page is shown again, and with it a new
\* editor.  The save is over, and the dialog closed, with the one it waits for.
ListArrives(w) ==
    /\ w \in listed.waiting
    /\ \E copy \in {listed.copy, [c \in Priced |-> Copied(c)]} :
          listed' = [copy |-> copy, waiting |-> listed.waiting \ {w}, loading |-> FALSE]
    /\ IF w = "saved"
       THEN edit' = [edit EXCEPT !.open = FALSE] /\ save' = [save EXCEPT !.step = "done"]
       ELSE UNCHANGED <<edit, save>>
    /\ IF editor = Gone THEN Mounted(edit.of, edit.copy, clicks) ELSE UNCHANGED <<editor, reads>>
    /\ UNCHANGED <<cover, clicks>>

EditorNext ==
    \/ \E c \in Priced : OpenEditCoverage(c)
    \/ CloseEditCoverage \/ CancelEditCoverage \/ SaveEditCoverage
    \/ \E text \in Figures :
          \/ EnterMaximum(text) \/ EnterDetails(text) \/ \E p \in Parts : EnterPrice(p, text)
    \/ \E mode \in EditorModes : ChooseMode(mode)
    \/ \E d \in PeriodDays : ChoosePeriod(d) \/ CreateEditorPeriod(d)
    \/ \E r \in reads : PricesRead(r) \/ PricesArrive(r) \/ PricesFail(r)
    \/ DetailsSaved \/ MaximumSaved \/ TiersSaved \/ ModeSaved
    \/ PricingSaved \/ Refreshed \/ SaveCoverageFails
    \/ \E w \in {"changed", "saved"} : ListArrives(w)

EditorSpec == EditorInit /\ [][EditorNext]_editorVars

-----------------------------------------------------------------------------
(* What one Save guarantees.                                                 *)

\* The dialog closes by itself only once everything that was entered, for the
\* mode chosen, is written, whichever of the requests failed, now or in an
\* earlier try, and whatever of it had been written by then; unless the dialog
\* was used, or prices arrived in it, meanwhile.
ClosedMeansSaved == save.step = "done" /\ save.alone => save.asked \subseteq save.written

-----------------------------------------------------------------------------
(* What comments of the code say, and the code does not keep.                *)

\* "saving one period's tiers never touches another period's"
\* (routes/coveragePricing.js:188-189): nor would it, if what is sent were that
\* period's; but prices may be saved while another period's are read, and may
\* arrive after those.
PricesAreOfThePeriod ==
    save.step = "requests" /\ "tiers" \in {save.todo[i] : i \in DOMAIN save.todo} =>
        save.job.draft.for = save.job.day

\* "one Cancel reverts both back to their last-loaded values"
\* (ManageProducts.jsx:410-411): a save that was left sets them for the coverage
\* opened since.
RevertsToItsOwn == edit.original.for = edit.ref

\* The editor follows "a fresh coverage, or one whose periods changed under it"
\* (CoveragePricingEditor.jsx:123-124): it has the periods, and the maximum, of
\* when it was put on the page.
EditorHasThePeriods ==
    edit.open /\ ~listed.loading /\ listed.waiting = {} => editor.days = DOMAIN cover[editor.of].prices
================================================================================
