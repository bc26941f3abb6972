----------------------------- MODULE InLeaseBacklog -----------------------------
(***************************************************************************)
(* What is left to enter in Bethel's in-lease system: the tasks of          *)
(* routes/inLeaseBacklog.js, one per policy issued and per endorsement      *)
(* approved, the page pages/InLeaseBacklogs.jsx that lists their policies,   *)
(* and its dialog components/InLeaseDetailDialog.jsx, from which the first   *)
(* task that is left is copied out and marked as done.                      *)
(*                                                                         *)
(* A task is known by its place in the order of created_at, a time before   *)
(* its transaction commits: one may turn up before others of its policy.    *)
(***************************************************************************)
EXTENDS Integers, FiniteSets, FiniteSetsExt

CONSTANTS
    Issued,     \* policies
    TaskPlaces, \* places of tasks
    MaxDeeds    \* bound on what the one at the page does

NoPolicy == "no policy"
NoTask   == 0
NoOne   == "nobody"
Me       == "me"
Other    == "somebody else"

ASSUME InLeaseAssumption ==
    TaskPlaces \subseteq Nat \ {NoTask} /\ NoPolicy \notin Issued /\ MaxDeeds \in Nat

VARIABLES
    tasks,     \* InLeaseBacklog rows: the policy of each, and who accomplished it
    marking,   \* handlers that mark a task as done or undone
    backlog,   \* the page: its filter, its rows, its loads
    detail,    \* the dialog
    deeds

inLeaseVars == <<tasks, marking, backlog, detail, deeds>>

Chosen == {"", "PENDING", "ACCOMPLISHED"}

NotThere == [of |-> NoPolicy]

InLeaseInit ==
    /\ tasks = << >>
    /\ marking = {}
    /\ backlog = [filter |-> "", rows |-> {}, loads |-> {""}, loading |-> TRUE]
    /\ detail = NotThere
    /\ deeds = 0

AtThePage == deeds < MaxDeeds /\ deeds' = deeds + 1

TasksOf(p) == {n \in DOMAIN tasks : tasks[n].of = p}

\* What is read of a policy: its tasks, and who did each.
Found(p) == [n \in TasksOf(p) |-> tasks[n].by]

Left(found) == {n \in DOMAIN found : found[n] = NoOne}

\* The earliest task that is left.
CurrentTaskOf(found) == IF Left(found) = {} THEN NoTask ELSE Min(Left(found))

Status(found) == IF CurrentTaskOf(found) = NoTask THEN "ACCOMPLISHED" ELSE "PENDING"

\* A policy is issued, or an endorsement of one approved.
TaskIsMade(p, n) ==
    /\ n \notin DOMAIN tasks
    /\ TasksOf(p) # {} => n > Min(TasksOf(p))
    /\ tasks' = [m \in DOMAIN tasks \cup {n} |-> IF m = n THEN [of |-> p, by |-> NoOne] ELSE tasks[m]]
    /\ UNCHANGED <<marking, backlog, detail, deeds>>

-----------------------------------------------------------------------------
(* The page.                                                                *)

LoadsBacklogs(filter) == [backlog EXCEPT !.loads = @ \cup {filter}, !.loading = TRUE]

FilterChange(filter) ==
    /\ detail = NotThere /\ filter # backlog.filter
    /\ AtThePage
    /\ backlog' = [LoadsBacklogs(filter) EXCEPT !.filter = filter]
    /\ UNCHANGED <<tasks, marking, detail>>

\* Policies arrive that some filter asked for.
RowsArrive(filter) ==
    /\ filter \in backlog.loads
    /\ backlog' = [backlog EXCEPT !.loads = @ \ {filter}, !.loading = FALSE, !.rows =
            {p \in Issued : TasksOf(p) # {} /\ filter \in {"", Status(Found(p))}}]
    /\ UNCHANGED <<tasks, marking, detail, deeds>>

RowsFail(filter) ==
    /\ filter \in backlog.loads
    /\ backlog' = [backlog EXCEPT !.loads = @ \ {filter}, !.loading = FALSE]
    /\ UNCHANGED <<tasks, marking, detail, deeds>>

-----------------------------------------------------------------------------
(* The dialog.  It is mounted when it is opened and gone when it is closed;   *)
(* its handlers go on.                                                      *)

OpenDetail(p) ==
    /\ detail = NotThere /\ ~backlog.loading
    /\ AtThePage
    /\ detail' = [of |-> p, since |-> deeds', loading |-> TRUE, found |-> << >>,
                  ticked |-> FALSE, submitting |-> FALSE, for |-> NoTask]
    /\ UNCHANGED <<tasks, marking, backlog>>

Arrived(shown) == [shown EXCEPT !.loading = FALSE, !.found = Found(shown.of)]

\* What the dialog asks for when it is mounted.
DetailArrives ==
    /\ detail # NotThere /\ detail.loading /\ ~detail.submitting
    /\ \/ detail' = Arrived(detail)
       \/ detail' = [detail EXCEPT !.loading = FALSE]
    /\ UNCHANGED <<tasks, marking, backlog, deeds>>

CloseDetail ==
    /\ detail # NotThere
    /\ detail' = NotThere
    /\ UNCHANGED <<tasks, marking, backlog, deeds>>

Shows == detail # NotThere /\ ~detail.loading /\ DOMAIN detail.found # {}

ShownTask == CurrentTaskOf(detail.found)

\* "I have duly submitted this policy in In-Lease", said of the task shown.
Tick ==
    /\ Shows /\ ShownTask # NoTask
    /\ AtThePage
    /\ detail' = [detail EXCEPT !.ticked = ~@, !.for = IF detail.ticked THEN NoTask ELSE ShownTask]
    /\ UNCHANGED <<tasks, marking, backlog>>

Handler(who, what, n, said) ==
    [who |-> who, what |-> what, task |-> n, said |-> said, step |-> "check",
     filter |-> backlog.filter, dialog |-> IF who = Me THEN detail.since ELSE 0]

Submits(what, n, said) ==
    /\ Shows /\ ~detail.submitting
    /\ AtThePage
    /\ marking' = marking \cup {Handler(Me, what, n, said)}
    /\ detail' = [detail EXCEPT !.submitting = TRUE]
    /\ UNCHANGED <<tasks, backlog>>

SubmitDone == Shows /\ ShownTask # NoTask /\ detail.ticked /\ Submits("accomplish", ShownTask, detail.for)

\* Undo is offered once nothing is left, for the last task.
SubmitUndo == Shows /\ ShownTask = NoTask /\ Submits("undo", Max(DOMAIN detail.found), NoTask)

\* Somebody else, at a dialog of their own.
OtherMarks(n, what) ==
    /\ \A h \in marking : h.who # Other
    /\ marking' = marking \cup {Handler(Other, what, n, n)}
    /\ UNCHANGED <<tasks, backlog, detail, deeds>>

-----------------------------------------------------------------------------
(* POST /:id/accomplish and POST /:id/undo, a check and an update; and what     *)
(* the handler that sent one does then.                                     *)

IsDone(n) == tasks[n].by # NoOne

\* The dialog a handler belongs to is still there.
Mounted(h) == h.who = Me /\ detail # NotThere /\ detail.since = h.dialog

At(h, step) == marking' = (marking \ {h}) \cup {[h EXCEPT !.step = step]}

MarkCheck(h) ==
    /\ h.step = "check" /\ IsDone(h.task) = (h.what = "undo")
    /\ At(h, "update")
    /\ UNCHANGED <<tasks, backlog, detail, deeds>>

TickOutlives(shown, what) == [shown EXCEPT !.loading = TRUE]   \* variant: the tick is not taken back

\* The tick is taken back, and what is left now is loaded.
AfterMark(shown, what) ==
    IF what = "accomplish" THEN [shown EXCEPT !.loading = TRUE, !.ticked = FALSE, !.for = NoTask]
    ELSE [shown EXCEPT !.loading = TRUE]

MarkUpdate(h) ==
    /\ h.step = "update"
    /\ tasks' = [tasks EXCEPT ![h.task].by = IF h.what = "undo" THEN NoOne ELSE h.who]
    /\ IF h.who = Me THEN At(h, "load") ELSE marking' = marking \ {h}
    /\ detail' = IF Mounted(h) THEN AfterMark(detail, h.what) ELSE detail
    /\ UNCHANGED <<backlog, deeds>>

\* Refused or failed, the update done or not: nothing is loaded, the tick stays.
MarkFails(h) ==
    /\ h.step \in {"check", "update"}
    /\ \/ UNCHANGED tasks
       \/ /\ h.step = "update"
          /\ tasks' = [tasks EXCEPT ![h.task].by = IF h.what = "undo" THEN NoOne ELSE h.who]
    /\ marking' = marking \ {h}
    /\ detail' = IF Mounted(h) THEN [detail EXCEPT !.submitting = FALSE] ELSE detail
    /\ UNCHANGED <<backlog, deeds>>

\* Once the dialog has loaded, or failed to, the page loads, by the filter it
\* had when the dialog was open.
MarkLoads(h) ==
    /\ h.step = "load"
    /\ \/ detail' = IF Mounted(h) THEN [Arrived(detail) EXCEPT !.submitting = FALSE] ELSE detail
       \/ Mounted(h) /\ detail' = [detail EXCEPT !.loading = FALSE, !.submitting = FALSE]
    /\ backlog' = LoadsBacklogs(h.filter)
    /\ marking' = marking \ {h}
    /\ UNCHANGED <<tasks, deeds>>

InLeaseNext ==
    \/ \E p \in Issued, n \in TaskPlaces : TaskIsMade(p, n)
    \/ \E filter \in Chosen : FilterChange(filter)
    \/ \E filter \in Chosen : RowsArrive(filter)
    \/ \E filter \in Chosen : RowsFail(filter)
    \/ \E p \in backlog.rows : OpenDetail(p)
    \/ DetailArrives \/ CloseDetail \/ Tick \/ SubmitDone \/ SubmitUndo
    \/ \E n \in DOMAIN tasks, what \in {"accomplish", "undo"} : OtherMarks(n, what)
    \/ \E h \in marking : MarkCheck(h) \/ MarkUpdate(h) \/ MarkFails(h) \/ MarkLoads(h)

InLeaseSpec == InLeaseInit /\ [][InLeaseNext]_inLeaseVars

-----------------------------------------------------------------------------
(* What the dialog guarantees.                                               *)

\* What is marked as done at this dialog is the task it was confirmed for,
\* whatever was done, undone or added meanwhile, and whatever failed: a tick
\* that outlives a submission is not taken for the next task.
ConfirmedForItsTask == \A h \in marking : h.what = "accomplish" => h.said = h.task

-----------------------------------------------------------------------------
(* What comments and answers of the code say, and concurrent requests break.  *)

\* "This task has already been accomplished" (inLeaseBacklog.js:275): by one
\* person, until it is undone.
AccomplishedOnce ==
    [][\A n \in DOMAIN tasks : IsDone(n) => tasks'[n].by \in {tasks[n].by, NoOne}]_inLeaseVars

\* "one task at a time", the "earliest unaccomplished" first
\* (inLeaseBacklog.js:19-21, 205-209).
WorkedInOrder ==
    [][\A n \in DOMAIN tasks : ~IsDone(n) /\ tasks'[n].by = Me =>
          \A m \in TasksOf(tasks[n].of) : m < n => IsDone(m)]_inLeaseVars
================================================================================
