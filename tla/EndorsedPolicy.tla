----------------------------- MODULE EndorsedPolicy -----------------------------
(***************************************************************************)
(* What an endorsed policy says.  A correction is not written to the policy:   *)
(* every read folds the approved ones over it, in the order of their numbers     *)
(* (routes/policies.js, foldEndorsementChanges), and every document of an          *)
(* endorsement folds those before it (routes/endorsements.js).                      *)
(*                                                                         *)
(* What can be corrected is a field: a plate, the insured's name, the address, a     *)
(* clause, the day the period starts, whose length is kept.  Of a document only what   *)
(* a correction bears on is here: the name and address at its head, the day the        *)
(* period ends, which says when it starts, and the lines; not the charges.  A handler   *)
(* is one step; EndorsementApproval has their interleavings.                           *)
(***************************************************************************)
EXTENDS Integers, Sequences, SequencesExt

CONSTANTS
    Correctable,   \* what can be corrected
    Heading,       \* of these, the insured's name and address
    PeriodStart,   \* and the day the period starts
    Texts,         \* what a field may say
    AsIssued,      \* what the policy says in each, as issued
    MaxEndorsed,   \* requests filed
    MaxCorrections \* lines of a request

ASSUME EndorsedAssumption ==
    /\ AsIssued \in [Correctable -> Texts]
    /\ Heading \subseteq Correctable /\ PeriodStart \in Correctable
    /\ MaxEndorsed \in Nat /\ MaxCorrections \in Nat \ {0}

VARIABLE corrections    \* the requests, by sequence_no

endorsedVars == corrections

Numbers == DOMAIN corrections

Approved == {n \in Numbers : corrections[n].status = "APPROVED"}
Undecided == {n \in Numbers : corrections[n].status = "SUBMITTED"}

-----------------------------------------------------------------------------
(* The fold.                                                                     *)

FoldLines(says, lines) ==
    LET after[i \in 0..Len(lines)] ==
            IF i = 0 THEN says ELSE [after[i - 1] EXCEPT ![lines[i].field] = lines[i].to]
    IN  after[Len(lines)]

\* The policy with the lines of some requests over it, lowest number first.
Folded(numbers) ==
    LET after[n \in 0..Len(corrections)] ==
            IF n = 0 THEN AsIssued
            ELSE IF n \in numbers THEN FoldLines(after[n - 1], corrections[n].lines)
            ELSE after[n - 1]
    IN  after[Len(corrections)]

\* applyEndorsementsToPolicyDetail.
PolicySays == Folded(Approved)

HeadingOf(says) == [f \in Heading |-> says[f]]

\* The policy's document has a page for each approved endorsement: with the name
\* and address of the policy as it is now, the period as of that endorsement, and
\* its lines.
PageOf(n) ==
    [heading |-> HeadingOf(PolicySays),
     period  |-> Folded({m \in Approved : m <= n})[PeriodStart],
     lines   |-> corrections[n].lines]

AllOthers(n) == Approved \ {n}   \* variant: what is approved, but for itself

Before(n) == {m \in Approved : m < n}

Baseline(n) == Folded(Before(n))

\* renderEndorsementPdf: its own document has the name and address from before it.
DocumentOf(n) ==
    [heading |-> HeadingOf(Baseline(n)),
     period  |-> FoldLines(Baseline(n), corrections[n].lines)[PeriodStart],
     lines   |-> corrections[n].lines]

\* GET /:id: what the review dialog shows as the current values.
ReferenceOf(n) == Folded(Approved \ {n})

-----------------------------------------------------------------------------
(* Lines.                                                                        *)

Inputs == [field : Correctable, to : Texts]

\* resolveEndorsementChange: change_from is what it is now, and has to change.
ResolvedChange(says, input, at) ==
    [field |-> input.field, from |-> says[input.field], to |-> input.to, at |-> at]

Changes(says, input) == input.to # says[input.field]

\* The inputs of one filing, each against what those before it leave behind.
Against(says, inputs, i) == FoldLines(says, SubSeq(inputs, 1, i - 1))

AsIssuedOnly(inputs) ==   \* variant: approved endorsements are left out
    [i \in DOMAIN inputs |-> ResolvedChange(Against(AsIssued, inputs, i), inputs[i], 0)]

\* resolveEndorsementChangeBatch.
Batch(inputs) ==
    [i \in DOMAIN inputs |-> ResolvedChange(Against(PolicySays, inputs, i), inputs[i], 0)]

BatchChanges(inputs) ==
    \A i \in DOMAIN inputs : Changes(Against(PolicySays, inputs, i), inputs[i])

\* Lines are read by created_at, which those of one filing share.
Readings(lines) ==
    {[i \in DOMAIN lines |-> lines[p[i]]] :
        p \in {q \in [DOMAIN lines -> DOMAIN lines] :
                 /\ \A i, j \in DOMAIN lines : i # j => q[i] # q[j]
                 /\ \A i, j \in DOMAIN lines : i < j => lines[q[i]].at <= lines[q[j]].at}}

-----------------------------------------------------------------------------
EndorsedInit == corrections = << >>

\* POST /endorsements.
FileCorrection(inputs) ==
    /\ Len(corrections) < MaxEndorsed
    /\ BatchChanges(inputs)
    /\ \E lines \in Readings(Batch(inputs)) :
          corrections' = Append(corrections, [status |-> "SUBMITTED", lines |-> lines, untouched |-> TRUE])

\* Its other requests are not waited for: any may be decided first.
Touched(n) == [m \in Numbers |-> [corrections[m] EXCEPT !.untouched = @ /\ (m = n \/ m \notin Undecided)]]

\* POST /:id/approve.
ApproveFiled(n) ==
    /\ corrections[n].status = "SUBMITTED"
    /\ corrections' = [Touched(n) EXCEPT ![n].status = "APPROVED",
                                         ![n].untouched = @ /\ \A m \in Undecided : m >= n]

RejectFiled(n) ==
    /\ corrections[n].status = "SUBMITTED"
    /\ corrections' = [corrections EXCEPT ![n].status = "REJECTED"]

\* POST /:id/changes: against the policy and the lines it has.
AddCorrection(n, input) ==
    LET r == corrections[n]
        says == FoldLines(PolicySays, r.lines)
    IN  /\ r.status = "SUBMITTED" /\ Len(r.lines) < MaxCorrections
        /\ Changes(says, input)
        /\ corrections' = [corrections EXCEPT ![n].lines = Append(@, ResolvedChange(says, input, Len(@)))]

\* PATCH /:id/changes/:changeId: against the other lines, those after it too.
EditCorrection(n, i, input) ==
    LET r == corrections[n]
        says == FoldLines(PolicySays, RemoveAt(r.lines, i))
    IN  /\ r.status = "SUBMITTED" /\ input.field = r.lines[i].field
        /\ Changes(says, input)
        /\ \E lines \in Readings([r.lines EXCEPT ![i] = ResolvedChange(says, input, @.at)]) :
              corrections' = [corrections EXCEPT ![n].lines = lines, ![n].untouched = FALSE]

\* DELETE /:id/changes/:changeId: not the last one.
DeleteCorrection(n, i) ==
    /\ corrections[n].status = "SUBMITTED" /\ Len(corrections[n].lines) > 1
    /\ corrections' = [corrections EXCEPT ![n].lines = RemoveAt(@, i), ![n].untouched = FALSE]

EndorsedNext ==
    \/ \E k \in 1..MaxCorrections : \E inputs \in [1..k -> Inputs] : FileCorrection(inputs)
    \/ \E n \in Numbers :
          \/ ApproveFiled(n) \/ RejectFiled(n)
          \/ \E input \in Inputs : AddCorrection(n, input)
          \/ \E i \in DOMAIN corrections[n].lines :
                DeleteCorrection(n, i) \/ \E input \in Inputs : EditCorrection(n, i, input)

EndorsedSpec == EndorsedInit /\ [][EndorsedNext]_endorsedVars

-----------------------------------------------------------------------------
(* What the reads guarantee.                                                     *)

DifferentFields(lines) == \A i, j \in DOMAIN lines : i # j => lines[i].field # lines[j].field

\* An endorsement that was decided with no other one approved meanwhile and
\* none before it left, whose lines were left alone and are of different fields,
\* tells what it changed, whatever is filed, approved or rejected after it: each
\* line says "from" what its document prints above it, the name or the address,
\* to something else; a period it moves ends, in its own document and on its page
\* in the policy's, where the line moves it to; and while it is the last one that
\* page is headed by the new name and address.
TellsTheChange ==
    \A n \in Approved :
        LET lines == corrections[n].lines
        IN  corrections[n].untouched /\ DifferentFields(lines) =>
                \A i \in DOMAIN lines :
                    /\ lines[i].from # lines[i].to
                    /\ lines[i].field \in Heading =>
                          /\ DocumentOf(n).heading[lines[i].field] = lines[i].from
                          /\ Approved \subseteq 1..n => PageOf(n).heading[lines[i].field] = lines[i].to
                    /\ lines[i].field = PeriodStart =>
                          DocumentOf(n).period = lines[i].to /\ PageOf(n).period = lines[i].to

-----------------------------------------------------------------------------
(* What comments of the code say, and the code does not keep.                    *)

\* "for an already-APPROVED endorsement with nothing approved after it, 'before
\* + its own changes' and 'the policy's current state' are the same thing"
\* (endorsements.js:726-729): not when one with a higher number was approved
\* first.
ApprovedDocumentIsThePolicy ==
    [][\A n \in Numbers : ApproveFiled(n) =>
          FoldLines(Baseline(n), corrections[n].lines)' = PolicySays']_endorsedVars

\* "its reference view shows the state right *before* itself, same as
\* renderEndorsementPdf's own baseline" (endorsements.js:1253-1255).
ReferenceIsTheBaseline == \A n \in Numbers : ReferenceOf(n) = Baseline(n)

\* "so two lines in one endorsement that touch the same field chain correctly"
\* (endorsements.js:500-501): they are read in either order.
BatchesChain ==
    \A n \in Numbers :
        LET lines == corrections[n].lines
        IN  corrections[n].untouched =>
                \A i, j \in DOMAIN lines :
                    (i < j /\ lines[i].field = lines[j].field /\ lines[i].at = lines[j].at) => lines[j].from = lines[i].to

\* A document that was sent says the same when it is exported again.
DocumentsStand ==
    [][\A n \in Approved : n \in Approved' => DocumentOf(n)' = DocumentOf(n)]_endorsedVars
================================================================================
