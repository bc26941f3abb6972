------------------------------ MODULE ReviewDialog ------------------------------
(***************************************************************************)
(* The dialog an approver reviews and decides in: ApplicationReviewDialog.jsx  *)
(* and EndorsementReviewDialog.jsx.  It stays mounted: closing it keeps what it  *)
(* shows, opening another filing starts over, and what was asked for the one      *)
(* before is answered all the same.                                               *)
(*                                                                         *)
(* Calls are answered in any order.  Everybody else who works on the filings is     *)
(* one action.                                                                    *)
(***************************************************************************)
EXTENDS Integers, FiniteSets

CONSTANTS
    Items,      \* filings in the queue
    MaxLines,   \* changes recorded to each
    MaxBeside   \* calls under way when another is made

NoItem == "no item"

ASSUME DialogAssumption == NoItem \notin Items /\ MaxLines \in Nat /\ MaxBeside \in Nat

VARIABLES
    queue,      \* whose dialog it is: of "applications" or of "endorsements"
    stands,     \* of each filing: "pending" or "decided"
    lines,      \* the changes recorded to it
    made,       \* how many have ever been
    dialog,     \* what the dialog shows
    inputs,     \* what the approver has typed: for which filing, out of whose details
    calls,      \* under way
    mine        \* changes this approver was told are recorded

serverVars == <<stands, lines, made>>
dialogVars == <<queue, stands, lines, made, dialog, inputs, calls, mine>>

NoForm   == [for |-> NoItem, from |-> NoItem, line |-> 0]
NoInputs == [form |-> NoForm, ready |-> NoItem]

DialogInit ==
    /\ queue \in {"applications", "endorsements"}
    /\ stands = [i \in Items |-> "pending"]
    /\ lines = [i \in Items |-> {}] /\ made = [i \in Items |-> 0]
    /\ dialog = [open |-> FALSE, of |-> NoItem, detail |-> {}, pdf |-> {}, loading |-> TRUE,
                 failed |-> FALSE, outcome |-> {}, busy |-> {}]
    /\ inputs = NoInputs
    /\ calls = {} /\ mine = [i \in Items |-> {}]

Snapshot(i) == [of |-> i, status |-> stands[i], lines |-> lines[i]]

-----------------------------------------------------------------------------
(* Calls: what each is for, and whose details were shown when it was made.        *)

Free == Cardinality(calls) <= MaxBeside

Sent(others, what, item, shown, line, after) ==
    others \cup {[id |-> CHOOSE n \in 1..MaxBeside + 2 : \A c \in others : c.what = what /\ c.of = item => c.id # n,
                  what |-> what, of |-> item, shown |-> shown, line |-> line, after |-> after,
                  live |-> TRUE, served |-> FALSE, got |-> {}]}

\* Buttons are disabled by what their handler still waits for.
Busy(what) == \E c \in calls : c.what = what \/ c.after = what

StillHeard(others) == others   \* variant: the effect does not cancel what it asked for before

\* The effect that fetches the PDF drops the answer to what it asked for before.
Silenced(others) == {[c EXCEPT !.live = @ /\ c.what # "pdf"] : c \in others}

AskPdf(others, item) == Sent(Silenced(others), "pdf", item, NoItem, 0, "")
AskLoad(others, item, after) == Sent(others, "load", item, NoItem, 0, after)

\* A read is served some time before it is answered, or fails.
Reads(c) ==
    /\ c.what \in {"load", "pdf"} /\ ~c.served
    /\ \E got \in {{}, {Snapshot(c.of)}} :
          calls' = (calls \ {c}) \cup {[c EXCEPT !.served = TRUE, !.got = got]}
    /\ UNCHANGED <<queue, stands, lines, made, dialog, inputs, mine>>

\* What a command does to a filing that is pending.
Does(c) ==
    /\ stands[c.of] = "pending"
    /\ CASE c.what = "save" /\ c.line = 0 ->
               /\ made[c.of] < MaxLines
               /\ made' = [made EXCEPT ![c.of] = @ + 1]
               /\ lines' = [lines EXCEPT ![c.of] = @ \cup {made'[c.of]}]
               /\ UNCHANGED stands
         [] c.what = "save" /\ c.line # 0 -> c.line \in lines[c.of] /\ UNCHANGED serverVars
         [] c.what = "delete" ->
               /\ c.line \in lines[c.of]
               /\ lines' = [lines EXCEPT ![c.of] = @ \ {c.line}]
               /\ UNCHANGED <<stands, made>>
         [] OTHER -> stands' = [stands EXCEPT ![c.of] = "decided"] /\ UNCHANGED <<lines, made>>

\* Somebody else decides on a filing, or records a change to it.
Elsewhere(i) ==
    /\ stands[i] = "pending"
    /\ \/ stands' = [stands EXCEPT ![i] = "decided"] /\ UNCHANGED <<lines, made>>
       \/ /\ made[i] < MaxLines
          /\ made' = [made EXCEPT ![i] = @ + 1]
          /\ lines' = [lines EXCEPT ![i] = @ \cup {made'[i]}]
          /\ UNCHANGED stands
    /\ UNCHANGED <<queue, dialog, inputs, calls, mine>>

-----------------------------------------------------------------------------
(* Opening and closing.                                                          *)

KeepsTick(typed) == [NoInputs EXCEPT !.ready = typed.ready]   \* variant: the tick is not taken back

StartsOver(typed) == NoInputs

\* A row of the list is clicked.  The effects run when the filing is another one.
OpenItem(i) ==
    /\ ~dialog.open
    /\ IF i = dialog.of
       THEN dialog' = [dialog EXCEPT !.open = TRUE] /\ UNCHANGED <<inputs, calls>>
       ELSE /\ Free
            /\ dialog' = [dialog EXCEPT !.open = TRUE, !.of = i, !.pdf = {}, !.loading = TRUE,
                                        !.failed = FALSE, !.outcome = {}]
            /\ inputs' = StartsOver(inputs)
            /\ calls' = AskPdf(AskLoad(calls, i, ""), i)
    /\ UNCHANGED <<queue, stands, lines, made, mine>>

\* Also while a handler of the dialog still waits.
Close ==
    /\ dialog.open
    /\ dialog' = [dialog EXCEPT !.open = FALSE]
    /\ UNCHANGED <<queue, stands, lines, made, inputs, calls, mine>>

-----------------------------------------------------------------------------
(* What the approver does.                                                       *)

Visible == dialog.open /\ ~dialog.loading /\ ~dialog.failed
Detail  == CHOOSE d \in dialog.detail : TRUE
Over    == Detail.status # "pending" \/ dialog.outcome # {}

Types(typed) ==
    /\ Visible /\ typed # inputs
    /\ inputs' = typed
    /\ UNCHANGED <<queue, stands, lines, made, dialog, calls, mine>>

\* "Create Change" or "Add Change" starts an empty form; a change of an
\* endorsement can be edited.  Its fields start from the details shown.
StartForm(l) ==
    /\ Visible /\ ~Over /\ l \in {0} \cup (IF queue = "endorsements" THEN Detail.lines ELSE {})
    /\ Types([inputs EXCEPT !.form = [for |-> dialog.of, from |-> Detail.of, line |-> l]])

CancelForm == Types([inputs EXCEPT !.form = NoForm])

\* "I have reviewed ..." is ticked, or a reason for rejecting is typed.
Prepare == Visible /\ ~Over /\ Types([inputs EXCEPT !.ready = dialog.of])

\* handleCreateChange, handleSaveChange.
Save ==
    /\ Visible /\ Free /\ inputs.form # NoForm /\ ~Busy("save")
    /\ calls' = Sent(calls, "save", dialog.of, inputs.form.from, inputs.form.line, "")
    /\ UNCHANGED <<queue, stands, lines, made, dialog, inputs, mine>>

\* handleDeleteChange.
DeleteLine(l) ==
    /\ Visible /\ ~Over /\ Free /\ queue = "endorsements" /\ l \in Detail.lines
    /\ ~\E c \in calls : c.what = "delete" /\ c.line = l
    /\ calls' = Sent(calls, "delete", dialog.of, Detail.of, l, "")
    /\ UNCHANGED <<queue, stands, lines, made, dialog, inputs, mine>>

\* handleApprove, behind the tick; handleReject, behind a reason.
DecideNow(what) ==
    /\ Visible /\ ~Over /\ Free /\ ~Busy(what)
    /\ inputs.ready # NoItem
    /\ calls' = Sent(calls, what, dialog.of, Detail.of, 0, "")
    /\ UNCHANGED <<queue, stands, lines, made, dialog, inputs, mine>>

-----------------------------------------------------------------------------
(* What an answer does: to the dialog, whichever filing is open by then.         *)

Rest(c) == calls \ {c}

NoReload(c) == Rest(c)   \* variant: the PDF is left as it was

\* pdfReloadKey: the PDF of the filing that is open is fetched again.
Reload(c) == AskPdf(Rest(c), dialog.of)

LoadAnswered(c) ==
    /\ c.what = "load"
    /\ dialog' = [dialog EXCEPT !.loading = FALSE,
                                !.detail = IF c.got = {} THEN @ ELSE c.got,
                                !.failed = @ \/ c.got = {},
                                !.pdf = IF c.after = "" THEN @ ELSE {}]
    /\ calls' = IF c.after = "" THEN Rest(c) ELSE Reload(c)
    /\ UNCHANGED <<inputs, mine>>

PdfAnswered(c) ==
    /\ c.what = "pdf"
    /\ dialog' = IF c.live THEN [dialog EXCEPT !.pdf = c.got] ELSE dialog
    /\ calls' = Rest(c)
    /\ UNCHANGED <<inputs, mine>>

\* The form closes; load is the one of the filing the handler was made for.
ChangeAnswered(c) ==
    /\ c.what \in {"save", "delete"} /\ Does(c)
    /\ LET line == IF c.line = 0 THEN made'[c.of] ELSE c.line
       IN  IF c.what = "save"
           THEN inputs' = [inputs EXCEPT !.form = NoForm] /\ mine' = [mine EXCEPT ![c.of] = @ \cup {line}]
           ELSE inputs' = inputs /\ mine' = [mine EXCEPT ![c.of] = @ \ {line}]
    /\ dialog' = [dialog EXCEPT !.loading = TRUE, !.failed = FALSE]
    /\ calls' = AskLoad(Rest(c), c.of, c.what)

\* It is said of the filing that is open.  An endorsement's document is fetched again.
DecisionAnswered(c) ==
    /\ c.what \in {"approve", "reject"} /\ Does(c)
    /\ IF queue = "applications"
       THEN dialog' = [dialog EXCEPT !.outcome = {c.of}] /\ calls' = Rest(c)
       ELSE dialog' = [dialog EXCEPT !.outcome = {c.of}, !.pdf = {}] /\ calls' = Reload(c)
    /\ UNCHANGED <<inputs, mine>>

\* Refused, or lost on the way there or back: an error is shown, one of a
\* deletion in the place of the details.
CommandFailed(c) ==
    /\ c.what \notin {"load", "pdf"}
    /\ Does(c) \/ UNCHANGED serverVars
    /\ dialog' = [dialog EXCEPT !.failed = @ \/ c.what = "delete"]
    /\ calls' = Rest(c)
    /\ UNCHANGED <<inputs, mine>>

Answers(c) ==
    /\ \/ c.served /\ (LoadAnswered(c) \/ PdfAnswered(c)) /\ UNCHANGED serverVars
       \/ ChangeAnswered(c) \/ DecisionAnswered(c) \/ CommandFailed(c)
    /\ UNCHANGED queue

DialogNext ==
    \/ \E i \in Items : OpenItem(i) \/ Elsewhere(i)
    \/ \E l \in 0..MaxLines : StartForm(l) \/ DeleteLine(l)
    \/ Close \/ CancelForm \/ Prepare \/ Save
    \/ \E what \in {"approve", "reject"} : DecideNow(what)
    \/ \E c \in calls : Reads(c) \/ Answers(c)

DialogSpec == DialogInit /\ [][DialogNext]_dialogVars

-----------------------------------------------------------------------------
(* What the dialog guarantees.                                                   *)

\* The document on the left is the one of the filing that is open, however late
\* the one asked for before it comes.
PdfIsOfTheOneOpened == \A p \in dialog.pdf : p.of = dialog.of

\* Nothing typed or ticked for one filing can be sent for another.
InputIsForTheOneOpened ==
    {inputs.form.for, inputs.ready} \subseteq {NoItem, dialog.of}

\* Once nothing is under way, the document contains every change this approver
\* was told is recorded, whatever was open or closed in between.
PdfShowsMyChanges ==
    calls = {} => \A p \in dialog.pdf : mine[p.of] \cap lines[p.of] \subseteq p.lines

\* What is on the left can be decided on: it is the right document, and not an
\* older copy than this approver was told of.
PdfIsCurrent == PdfIsOfTheOneOpened /\ PdfShowsMyChanges

-----------------------------------------------------------------------------
(* What the code says, and does not keep: load has no such guard.                *)

\* "I have reviewed this application and every recorded change above, and
\* confirm this policy should be approved" (ApplicationReviewDialog.jsx:774-775):
\* the details above are those of the filing that is decided.
DecidedAsShown == \A c \in calls : c.what \in {"approve", "reject"} => c.shown = c.of

\* A change is made out of the details of the filing it is recorded to.
ChangesStartFromTheirFiling == inputs.form.from \in {NoItem, inputs.form.for}

\* "Approved" is said of the filing that was.
OutcomeIsOfTheOneOpened == dialog.outcome \subseteq {dialog.of}
================================================================================
