------------------------------ MODULE PagesProofs ------------------------------
(***************************************************************************)
(* Proofs about the pages filings are reviewed and worked from: what is     *)
(* typed and confirmed is for what is on the page, however late answers     *)
(* come, for any filings, changes, policies, tasks and calls under way; and  *)
(* a page of the list is one of the list, for any pages and page sizes.      *)
(***************************************************************************)
EXTENDS ReviewQueue, Sums, ReviewDialog, InLeaseBacklog, IntakeForm, FiniteSetTheorems, TLAPS

-----------------------------------------------------------------------------
(* The dialog a filing is reviewed in: the inductive invariant.             *)

DialogFields == {"open", "of", "detail", "pdf", "loading", "failed", "outcome", "busy"}
InputFields  == {"form", "ready"}
CallFields   == {"id", "what", "of", "shown", "line", "after", "live", "served", "got"}

Commands == {"save", "delete", "approve", "reject"}

\* Nothing is asked for before a filing is opened.
Opened ==
    /\ DOMAIN dialog = DialogFields /\ dialog.of \in Items \cup {NoItem}
    /\ dialog.of = NoItem => ~dialog.open /\ calls = {} /\ dialog.pdf = {}

\* A read is of its filing; only a PDF that was asked for the filing that is
\* open is still listened for.
CallsAreSound ==
    \A c \in calls :
        /\ DOMAIN c = CallFields /\ c.of \in Items /\ c.what \in {"load", "pdf"} \cup Commands
        /\ c.what = "pdf" => /\ \A p \in c.got : p.of = c.of
                             /\ c.live => c.of = dialog.of

\* Changes are numbered as they are made, those this approver made too.
ChangesAreNumbered ==
    /\ DOMAIN stands = Items /\ DOMAIN lines = Items /\ DOMAIN made = Items /\ DOMAIN mine = Items
    /\ \A i \in Items : made[i] \in Nat /\ lines[i] \subseteq 1..made[i] /\ mine[i] \subseteq 1..made[i]

InputsAreForIt == DOMAIN inputs = InputFields /\ InputIsForTheOneOpened

\* A copy of a document has every change this approver was told of.
HasMine(copies) == \A p \in copies : mine[p.of] \cap lines[p.of] \subseteq p.lines

Listened(c) == c.what = "pdf" /\ c.live

Reloads(c) == c.what = "load" /\ c.after # ""

\* The document shown has them, or another is on its way, or will be asked for
\* once the details that are loaded after a change have come.
PdfWillBeCurrent ==
    \/ \E c \in calls : Reloads(c)
    \/ /\ \A c \in calls : Listened(c) /\ c.served => HasMine(c.got)
       /\ HasMine(dialog.pdf) \/ \E c \in calls : Listened(c)

DialogInv ==
    /\ Opened
    /\ CallsAreSound
    /\ ChangesAreNumbered
    /\ InputsAreForIt
    /\ PdfIsOfTheOneOpened
    /\ PdfWillBeCurrent

\* Nothing is open and nothing is under way at first.
LEMMA InitDialogInv == ASSUME DialogInit PROVE DialogInv
<1>1. calls = {} /\ inputs = NoInputs /\ dialog.pdf = {} /\ dialog.of = NoItem /\ ~dialog.open
  BY DEF DialogInit
<1>2. Opened
  BY <1>1 DEF DialogInit, Opened, DialogFields
<1>3. ChangesAreNumbered
  BY DEF DialogInit, ChangesAreNumbered
<1>4. InputsAreForIt
  BY <1>1 DEF InputsAreForIt, InputIsForTheOneOpened, NoInputs, NoForm, InputFields
<1> QED
  BY <1>1, <1>2, <1>3, <1>4 DEF DialogInv, CallsAreSound, PdfIsOfTheOneOpened, PdfWillBeCurrent, HasMine

-----------------------------------------------------------------------------
(* Its calls.                                                                *)

\* A call as it is made.
Made(c, what, item, after) ==
    /\ DOMAIN c = CallFields
    /\ c.what = what /\ c.of = item /\ c.after = after
    /\ c.live = TRUE /\ c.served = FALSE /\ c.got = {}

\* A call that is no longer listened for: all else is as it was.
Quieted(c, d) ==
    /\ DOMAIN c = CallFields
    /\ c.what = d.what /\ c.of = d.of /\ c.after = d.after
    /\ c.served = d.served /\ c.got = d.got
    /\ ~Listened(c)

\* What is under way has one call more.
OneMore(now, others, what, item, after) ==
    \E c : now = others \cup {c} /\ Made(c, what, item, after)

\* What is sent is one call more.
LEMMA SentIs ==
    ASSUME NEW others, NEW what, NEW item, NEW shown, NEW line, NEW after
    PROVE  OneMore(Sent(others, what, item, shown, line, after), others, what, item, after)
<1> DEFINE n == CHOOSE n \in 1..MaxBeside + 2 :
                   \A c \in others : c.what = what /\ c.of = item => c.id # n
           c == [id |-> n, what |-> what, of |-> item, shown |-> shown, line |-> line, after |-> after,
                 live |-> TRUE, served |-> FALSE, got |-> {}]
<1>1. Sent(others, what, item, shown, line, after) = others \cup {c}
  BY DEF Sent
<1> HIDE DEF n
<1>2. Made(c, what, item, after)
  BY DEF Made, CallFields
<1>3. \E d : d = c
  OBVIOUS
<1> HIDE DEF c
<1>4. PICK d : d = c
  BY <1>3
<1> QED
  BY <1>1, <1>2, <1>4 DEF OneMore

AreCalls(others) == \A c \in others : DOMAIN c = CallFields

\* What is under way is what was, no longer listened for, and one PDF asked for.
OnlyHeard(now, others, item) ==
    \E c \in now : /\ Made(c, "pdf", item, "")
                   /\ \A q \in now : q = c \/ \E d \in others : Quieted(q, d)

\* A document asked for is the only one listened for from then on.
LEMMA PdfAsked ==
    ASSUME NEW others, NEW item, AreCalls(others)
    PROVE  OnlyHeard(AskPdf(others, item), others, item)
<1>1. OneMore(AskPdf(others, item), Silenced(others), "pdf", item, "")
  BY SentIs DEF AskPdf
<1>2. PICK c : AskPdf(others, item) = Silenced(others) \cup {c} /\ Made(c, "pdf", item, "")
  BY <1>1 DEF OneMore
<1>3. ASSUME NEW d \in others
      PROVE  Quieted([d EXCEPT !.live = d.live /\ d.what # "pdf"], d)
  <2>1. DOMAIN d = CallFields
    BY DEF AreCalls
  <2> QED
    BY <2>1 DEF CallFields, Quieted, Listened
<1>4. \A q \in Silenced(others) : \E d \in others : Quieted(q, d)
  BY <1>3 DEF Silenced
<1> QED
  BY <1>2, <1>4 DEF OnlyHeard


\* Reading, sending and answering take a call out, or add one.
LEMMA SentKeeps ==
    ASSUME DialogInv, NEW what, NEW now, NEW item \in Items, NEW after,
           what \in {"load"} \cup Commands, OneMore(now, calls, what, item, after),
           calls' = now, dialog.of # NoItem,
           UNCHANGED <<dialog, inputs, stands, lines, made, mine>>
    PROVE  DialogInv'
<1>1. PICK c : calls' = calls \cup {c} /\ Made(c, what, item, after)
  BY DEF OneMore
<1>2. Opened'
  BY DEF DialogInv, Opened
<1>3. CallsAreSound'
  BY <1>1 DEF DialogInv, CallsAreSound, Made, Commands
<1>4. ChangesAreNumbered' /\ InputsAreForIt' /\ PdfIsOfTheOneOpened'
  BY DEF DialogInv, ChangesAreNumbered, InputsAreForIt, InputIsForTheOneOpened, PdfIsOfTheOneOpened
<1>5. PdfWillBeCurrent'
  <2>1. ~Listened(c)
    BY <1>1 DEF Made, Listened, Commands
  <2> QED
    BY <1>1, <2>1 DEF DialogInv, PdfWillBeCurrent, Listened, Reloads, HasMine
<1> QED
  BY <1>2, <1>3, <1>4, <1>5 DEF DialogInv

-----------------------------------------------------------------------------
(* What the server holds.                                                    *)

\* A step of the server adds no change this approver was told of before.
Moved ==
    /\ DOMAIN stands' = Items /\ DOMAIN lines' = Items /\ DOMAIN made' = Items
    /\ \A i \in Items : /\ made'[i] \in Nat /\ made[i] <= made'[i]
                        /\ lines'[i] \subseteq 1..made'[i]
                        /\ mine[i] \cap lines'[i] \subseteq lines[i]

\* One more change to a filing has a number nobody was told of.
LEMMA OneMoreLine ==
    ASSUME ChangesAreNumbered, NEW i \in Items, stands' = stands,
           made' = [made EXCEPT ![i] = made[i] + 1],
           lines' = [lines EXCEPT ![i] = lines[i] \cup {made'[i]}]
    PROVE  Moved
<1>1. made'[i] = made[i] + 1 /\ made[i] \in Nat /\ made[i] + 1 \notin mine[i]
  BY DEF ChangesAreNumbered
<1>2. ASSUME NEW j \in Items
      PROVE  /\ made'[j] \in Nat /\ made[j] <= made'[j] /\ lines'[j] \subseteq 1..made'[j]
             /\ mine[j] \cap lines'[j] \subseteq lines[j]
  <2>1. CASE j = i
    BY <1>1, <2>1 DEF ChangesAreNumbered
  <2>2. CASE j # i
    BY <2>2 DEF ChangesAreNumbered
  <2> QED
    BY <2>1, <2>2
<1> QED
  BY <1>2 DEF Moved, ChangesAreNumbered

\* Somebody else's step.
LEMMA ElsewhereMoves == ASSUME ChangesAreNumbered, NEW i \in Items, Elsewhere(i) PROVE Moved
<1>1. CASE stands' = [stands EXCEPT ![i] = "decided"] /\ UNCHANGED <<lines, made>>
  BY <1>1 DEF ChangesAreNumbered, Moved
<1>2. CASE /\ made' = [made EXCEPT ![i] = @ + 1]
           /\ lines' = [lines EXCEPT ![i] = @ \cup {made'[i]}]
           /\ UNCHANGED stands
  BY <1>2, OneMoreLine
<1> QED
  BY <1>1, <1>2 DEF Elsewhere

\* What a command does; the line it is about is one of the filing's.
LEMMA DoesMoves ==
    ASSUME ChangesAreNumbered, NEW c, c.of \in Items, c.what \in Commands, Does(c)
    PROVE  /\ Moved
           /\ c.what = "save" /\ c.line = 0 => made'[c.of] \in 1..made'[c.of]
           /\ c.what = "save" /\ c.line # 0 => c.line \in lines'[c.of]
<1>1. CASE c.what = "save" /\ c.line = 0
  <2>1. /\ made' = [made EXCEPT ![c.of] = @ + 1]
        /\ lines' = [lines EXCEPT ![c.of] = @ \cup {made'[c.of]}]
        /\ UNCHANGED stands
    BY <1>1 DEF Does
  <2>2. made'[c.of] \in 1..made'[c.of]
    BY <2>1 DEF ChangesAreNumbered
  <2> QED
    BY <1>1, <2>1, <2>2, OneMoreLine
<1>2. CASE c.what = "save" /\ c.line # 0
  <2>1. c.line \in lines[c.of] /\ UNCHANGED <<stands, lines, made>>
    BY <1>2 DEF Does, serverVars
  <2> QED
    BY <1>2, <2>1 DEF ChangesAreNumbered, Moved
<1>3. CASE c.what = "delete"
  <2>1. lines' = [lines EXCEPT ![c.of] = @ \ {c.line}] /\ UNCHANGED <<stands, made>>
    BY <1>3 DEF Does
  <2>2. ASSUME NEW j \in Items PROVE lines'[j] \subseteq lines[j]
    <3>1. CASE j = c.of
      BY <2>1, <3>1 DEF ChangesAreNumbered
    <3>2. CASE j # c.of
      BY <2>1, <3>2 DEF ChangesAreNumbered
    <3> QED
      BY <3>1, <3>2
  <2> QED
    BY <1>3, <2>1, <2>2 DEF ChangesAreNumbered, Moved
<1>4. CASE c.what \in {"approve", "reject"}
  <2>1. stands' = [stands EXCEPT ![c.of] = "decided"] /\ UNCHANGED <<lines, made>>
    BY <1>4 DEF Does
  <2> QED
    BY <1>4, <2>1 DEF ChangesAreNumbered, Moved
<1> QED
  BY <1>1, <1>2, <1>3, <1>4 DEF Commands

\* Then the changes are numbered still, and a copy that had them has them.
LEMMA MovedKeeps ==
    ASSUME ChangesAreNumbered, Moved, mine' = mine
    PROVE  /\ ChangesAreNumbered'
           /\ \A copies : HasMine(copies) /\ (\A p \in copies : p.of \in Items)
                             => \A p \in copies : mine'[p.of] \cap lines'[p.of] \subseteq p.lines
<1>1. ASSUME NEW i \in Items PROVE mine'[i] \subseteq 1..made'[i]
  <2>1. made[i] \in Nat /\ made'[i] \in Nat /\ made[i] <= made'[i] /\ mine'[i] \subseteq 1..made[i]
    BY DEF ChangesAreNumbered, Moved
  <2> QED
    BY <2>1
<1> QED
  BY <1>1 DEF ChangesAreNumbered, Moved, HasMine

-----------------------------------------------------------------------------
(* The invariant, step by step.                                              *)

\* Typing, ticking and closing send nothing.
LEMMA QuietKeeps ==
    ASSUME DialogInv, Opened', dialog'.of = dialog.of, dialog'.pdf = dialog.pdf,
           InputsAreForIt', UNCHANGED <<calls, stands, lines, made, mine>>
    PROVE  DialogInv'
<1>1. CallsAreSound' /\ ChangesAreNumbered' /\ PdfIsOfTheOneOpened'
  BY DEF DialogInv, CallsAreSound, ChangesAreNumbered, PdfIsOfTheOneOpened
<1>2. PdfWillBeCurrent'
  BY DEF DialogInv, PdfWillBeCurrent, HasMine
<1> QED
  BY <1>1, <1>2 DEF DialogInv

\* What is typed or ticked is for the filing that is open.
LEMMA TypesKeeps ==
    ASSUME DialogInv,
           (\E l \in 0..MaxLines : StartForm(l)) \/ CancelForm \/ Prepare
    PROVE  DialogInv'
<1>1. PICK typed : Types(typed) /\ DOMAIN typed = InputFields
                   /\ {typed.form.for, typed.ready} \subseteq {NoItem, dialog.of}
  <2>1. ASSUME NEW l \in 0..MaxLines, StartForm(l)
        PROVE  \E typed : Types(typed) /\ DOMAIN typed = InputFields
                          /\ {typed.form.for, typed.ready} \subseteq {NoItem, dialog.of}
    <3> DEFINE typed == [inputs EXCEPT !.form = [for |-> dialog.of, from |-> Detail.of, line |-> l]]
    <3>1. Types(typed)
      BY <2>1 DEF StartForm
    <3>2. DOMAIN typed = InputFields /\ {typed.form.for, typed.ready} \subseteq {NoItem, dialog.of}
      BY DEF DialogInv, InputsAreForIt, InputIsForTheOneOpened, InputFields
    <3> HIDE DEF typed
    <3> QED
      BY <3>1, <3>2
  <2>2. ASSUME CancelForm
        PROVE  \E typed : Types(typed) /\ DOMAIN typed = InputFields
                          /\ {typed.form.for, typed.ready} \subseteq {NoItem, dialog.of}
    <3> DEFINE typed == [inputs EXCEPT !.form = NoForm]
    <3>1. Types(typed)
      BY <2>2 DEF CancelForm
    <3>2. DOMAIN typed = InputFields /\ {typed.form.for, typed.ready} \subseteq {NoItem, dialog.of}
      BY DEF DialogInv, InputsAreForIt, InputIsForTheOneOpened, InputFields, NoForm
    <3> HIDE DEF typed
    <3> QED
      BY <3>1, <3>2
  <2>3. ASSUME Prepare
        PROVE  \E typed : Types(typed) /\ DOMAIN typed = InputFields
                          /\ {typed.form.for, typed.ready} \subseteq {NoItem, dialog.of}
    <3> DEFINE typed == [inputs EXCEPT !.ready = dialog.of]
    <3>1. Types(typed)
      BY <2>3 DEF Prepare
    <3>2. DOMAIN typed = InputFields /\ {typed.form.for, typed.ready} \subseteq {NoItem, dialog.of}
      BY DEF DialogInv, InputsAreForIt, InputIsForTheOneOpened, InputFields
    <3> HIDE DEF typed
    <3> QED
      BY <3>1, <3>2
  <2> QED
    BY <2>1, <2>2, <2>3
<1>2. inputs' = typed /\ UNCHANGED <<calls, stands, lines, made, mine, dialog>>
  BY <1>1 DEF Types
<1>3. Opened' /\ InputsAreForIt'
  BY <1>1, <1>2 DEF DialogInv, Opened, InputsAreForIt, InputIsForTheOneOpened
<1> QED
  BY <1>2, <1>3, QuietKeeps

\* Closing leaves everything where it is.
LEMMA CloseKeeps == ASSUME DialogInv, Close PROVE DialogInv'
<1>1. Opened' /\ dialog'.of = dialog.of /\ dialog'.pdf = dialog.pdf
  BY DEF Close, DialogInv, Opened, DialogFields
<1>2. InputsAreForIt'
  BY <1>1 DEF Close, DialogInv, InputsAreForIt, InputIsForTheOneOpened
<1> QED
  BY <1>1, <1>2, QuietKeeps DEF Close

\* A command is sent for the filing that is open.
LEMMA CommandSent ==
    ASSUME DialogInv,
           \/ Save
           \/ \E l \in 0..MaxLines : DeleteLine(l)
           \/ \E what \in {"approve", "reject"} : DecideNow(what)
    PROVE  DialogInv'
<1>1. dialog.of \in Items /\ dialog.of # NoItem
  BY DialogAssumption DEF Save, DeleteLine, DecideNow, Visible, DialogInv, Opened
<1>2. UNCHANGED <<dialog, inputs, stands, lines, made, mine>>
  BY DEF Save, DeleteLine, DecideNow
<1>3. ASSUME NEW what, what \in Commands, OneMore(calls', calls, what, dialog.of, "")
      PROVE  DialogInv'
  BY <1>1, <1>2, <1>3, SentKeeps
<1>4. CASE Save
  BY <1>3, <1>4, SentIs DEF Save, Commands
<1>5. ASSUME NEW l \in 0..MaxLines, DeleteLine(l) PROVE DialogInv'
  BY <1>3, <1>5, SentIs DEF DeleteLine, Commands
<1>6. ASSUME NEW what \in {"approve", "reject"}, DecideNow(what) PROVE DialogInv'
  <2>1. OneMore(calls', calls, what, dialog.of, "")
    BY <1>6, SentIs DEF DecideNow
  <2> QED
    BY <2>1, <1>3 DEF Commands
<1> QED
  BY <1>4, <1>5, <1>6

\* Somebody else's step is not seen by the dialog.
LEMMA ElsewhereKeeps == ASSUME DialogInv, NEW i \in Items, Elsewhere(i) PROVE DialogInv'
<1>1. UNCHANGED <<queue, dialog, inputs, calls, mine>>
  BY DEF Elsewhere
<1>2. Moved
  BY ElsewhereMoves DEF DialogInv
<1>3. /\ ChangesAreNumbered'
      /\ \A copies : HasMine(copies) /\ (\A p \in copies : p.of \in Items)
                             => \A p \in copies : mine'[p.of] \cap lines'[p.of] \subseteq p.lines
  BY <1>1, <1>2, MovedKeeps DEF DialogInv
<1>4. Opened' /\ CallsAreSound' /\ InputsAreForIt' /\ PdfIsOfTheOneOpened'
  BY <1>1 DEF DialogInv, Opened, CallsAreSound, InputsAreForIt, InputIsForTheOneOpened, PdfIsOfTheOneOpened
<1>5. \A p \in dialog.pdf : p.of \in Items
  BY DEF DialogInv, Opened, PdfIsOfTheOneOpened
<1>6. \A c \in calls : Listened(c) => \A p \in c.got : p.of \in Items
  BY DEF DialogInv, CallsAreSound, Listened
<1>7. PdfWillBeCurrent'
  BY <1>1, <1>3, <1>5, <1>6 DEF DialogInv, PdfWillBeCurrent, HasMine
<1> QED
  BY <1>3, <1>4, <1>7 DEF DialogInv

\* A read gets what is recorded when it is served.
LEMMA ReadsKeeps == ASSUME DialogInv, NEW c \in calls, Reads(c) PROVE DialogInv'
<1>1. PICK got \in {{}, {Snapshot(c.of)}} :
          calls' = (calls \ {c}) \cup {[c EXCEPT !.served = TRUE, !.got = got]}
  BY DEF Reads
<1>2. UNCHANGED <<stands, lines, made, dialog, inputs, mine>>
  BY DEF Reads
<1> DEFINE d == [c EXCEPT !.served = TRUE, !.got = got]
<1>3. DOMAIN c = CallFields
  BY DEF DialogInv, CallsAreSound
<1>4. /\ DOMAIN d = CallFields /\ d.what = c.what /\ d.of = c.of /\ d.after = c.after
      /\ d.live = c.live /\ d.got = got
  BY <1>3 DEF CallFields
<1> HIDE DEF d
<1>5. calls' = (calls \ {c}) \cup {d}
  BY <1>1 DEF d
<1>6. \A p \in got : p.of = c.of /\ p.lines = lines[c.of]
  BY DEF Snapshot
<1>7. Opened' /\ ChangesAreNumbered' /\ InputsAreForIt' /\ PdfIsOfTheOneOpened'
  BY <1>2, <1>5 DEF DialogInv, Opened, ChangesAreNumbered, InputsAreForIt, InputIsForTheOneOpened, PdfIsOfTheOneOpened
<1>8. CallsAreSound'
  BY <1>2, <1>4, <1>5, <1>6 DEF DialogInv, CallsAreSound
<1>9. PdfWillBeCurrent'
  <2>1. (Reloads(c) => Reloads(d)) /\ (Listened(c) => Listened(d)) /\ HasMine(d.got)
    BY <1>4, <1>6 DEF Reloads, Listened, HasMine
  <2> QED
    BY <1>2, <1>5, <2>1 DEF DialogInv, PdfWillBeCurrent, HasMine, Listened, Reloads
<1> QED
  BY <1>7, <1>8, <1>9 DEF DialogInv

\* When the document is asked for again, nothing else is listened for.
LEMMA AskedAgain ==
    ASSUME NEW others, NEW item \in Items, calls' = AskPdf(others, item),
           \A c \in others : /\ DOMAIN c = CallFields /\ c.of \in Items
                             /\ c.what \in {"load", "pdf"} \cup Commands
                             /\ c.what = "pdf" => \A p \in c.got : p.of = c.of,
           dialog'.of = item, dialog'.pdf = {}
    PROVE  CallsAreSound' /\ PdfIsOfTheOneOpened' /\ PdfWillBeCurrent'
<1>1. PICK c \in calls' :
         /\ Made(c, "pdf", item, "")
         /\ \A q \in calls' : q = c \/ \E d \in others : Quieted(q, d)
  <2>1. AreCalls(others)
    BY DEF AreCalls
  <2>2. OnlyHeard(calls', others, item)
    BY <2>1, PdfAsked
  <2> QED
    BY <2>2 DEF OnlyHeard
<1>2. Listened(c) /\ ~c.served
  BY <1>1 DEF Made, Listened
<1>3. ASSUME NEW q \in calls', q # c
      PROVE  /\ ~Listened(q) /\ DOMAIN q = CallFields /\ q.of \in Items
             /\ q.what \in {"load", "pdf"} \cup Commands
             /\ q.what = "pdf" => (\A p \in q.got : p.of = q.of) /\ ~q.live
  <2>1. PICK d \in others : Quieted(q, d)
    BY <1>1, <1>3
  <2> QED
    BY <2>1 DEF Quieted, Listened
<1>4. CallsAreSound'
  BY <1>1, <1>3 DEF CallsAreSound, Made
<1>5. PdfWillBeCurrent'
  <2>1. \A q \in calls' : ~(Listened(q) /\ q.served)
    BY <1>2, <1>3
  <2>2. (\E q \in calls : Listened(q))'
    BY <1>2 DEF Listened
  <2>3. (\A q \in calls : Listened(q) /\ q.served => HasMine(q.got))'
    BY <2>1 DEF Listened
  <2> QED
    BY <2>2, <2>3 DEF PdfWillBeCurrent
<1> QED
  BY <1>4, <1>5 DEF PdfIsOfTheOneOpened

\* Opening another filing takes nothing over from the one before.
LEMMA OpenKeeps == ASSUME DialogInv, NEW i \in Items, OpenItem(i) PROVE DialogInv'
<1>1. CASE i = dialog.of
  <2>1. dialog' = [dialog EXCEPT !.open = TRUE] /\ UNCHANGED <<inputs, calls, stands, lines, made, mine>>
    BY <1>1 DEF OpenItem
  <2>2. Opened' /\ dialog'.of = dialog.of /\ dialog'.pdf = dialog.pdf
    BY <1>1, <2>1, DialogAssumption DEF DialogInv, Opened, DialogFields
  <2>3. InputsAreForIt'
    BY <2>1, <2>2 DEF DialogInv, InputsAreForIt, InputIsForTheOneOpened
  <2> QED
    BY <2>1, <2>2, <2>3, QuietKeeps
<1>2. CASE i # dialog.of
  <2>1. /\ dialog' = [dialog EXCEPT !.open = TRUE, !.of = i, !.pdf = {}, !.loading = TRUE,
                                    !.failed = FALSE, !.outcome = {}]
        /\ inputs' = NoInputs
        /\ calls' = AskPdf(AskLoad(calls, i, ""), i)
        /\ UNCHANGED <<stands, lines, made, mine>>
    BY <1>2 DEF OpenItem, StartsOver
  <2>2. DOMAIN dialog' = DialogFields /\ dialog'.of = i /\ dialog'.pdf = {}
    BY <2>1 DEF DialogInv, Opened, DialogFields
  <2>3. Opened'
    BY <2>2, DialogAssumption DEF Opened
  <2>4. InputsAreForIt'
    BY <2>1 DEF InputsAreForIt, InputIsForTheOneOpened, NoInputs, NoForm, InputFields
  <2>5. ChangesAreNumbered'
    BY <2>1 DEF DialogInv, ChangesAreNumbered
  <2> DEFINE others == AskLoad(calls, i, "")
  <2>6. OneMore(others, calls, "load", i, "")
    BY SentIs DEF AskLoad
  <2>7. calls' = AskPdf(others, i)
    BY <2>1
  <2> HIDE DEF others
  <2>8. PICK c : others = calls \cup {c} /\ Made(c, "load", i, "")
    BY <2>6 DEF OneMore
  <2>9. \A q \in others : /\ DOMAIN q = CallFields /\ q.of \in Items
                          /\ q.what \in {"load", "pdf"} \cup Commands
                          /\ q.what = "pdf" => \A p \in q.got : p.of = q.of
    BY <2>8 DEF DialogInv, CallsAreSound, Made
  <2>10. CallsAreSound' /\ PdfIsOfTheOneOpened' /\ PdfWillBeCurrent'
    BY <2>2, <2>7, <2>9, AskedAgain
  <2> QED
    BY <2>3, <2>4, <2>5, <2>10 DEF DialogInv
<1> QED
  BY <1>1, <1>2

\* What is under way when a call is answered.
LEMMA RestIsSound ==
    ASSUME DialogInv, NEW c \in calls
    PROVE  /\ dialog.of \in Items
           /\ \A q \in Rest(c) : /\ q \in calls /\ DOMAIN q = CallFields /\ q.of \in Items
                                 /\ q.what \in {"load", "pdf"} \cup Commands
                                 /\ q.what = "pdf" => \A p \in q.got : p.of = q.of
  BY DEF DialogInv, CallsAreSound, Opened, Rest

\* Details loaded after a change have the document fetched again.
LEMMA LoadKeeps ==
    ASSUME DialogInv, NEW c \in calls, LoadAnswered(c), UNCHANGED serverVars
    PROVE  DialogInv'
<1>1. DOMAIN dialog' = DialogFields /\ dialog'.of = dialog.of
  BY DEF LoadAnswered, DialogInv, Opened, DialogFields
<1>2. UNCHANGED <<inputs, mine, stands, lines, made>>
  BY DEF LoadAnswered, serverVars
<1>3. ChangesAreNumbered' /\ InputsAreForIt'
  BY <1>1, <1>2 DEF DialogInv, ChangesAreNumbered, InputsAreForIt, InputIsForTheOneOpened
<1>4. dialog.of \in Items /\ dialog.of # NoItem
  BY RestIsSound, DialogAssumption
<1>5. Opened'
  BY <1>1, <1>4 DEF Opened
<1>6. CASE c.after = ""
  <2>1. calls' = calls \ {c} /\ dialog'.pdf = dialog.pdf
    BY <1>6 DEF LoadAnswered, Rest, DialogInv, Opened, DialogFields
  <2>2. ~Reloads(c) /\ ~Listened(c)
    BY <1>6 DEF LoadAnswered, Reloads, Listened
  <2>3. CallsAreSound' /\ PdfIsOfTheOneOpened'
    BY <1>1, <2>1 DEF DialogInv, CallsAreSound, PdfIsOfTheOneOpened
  <2>4. PdfWillBeCurrent'
    BY <1>2, <2>1, <2>2 DEF DialogInv, PdfWillBeCurrent, HasMine, Listened, Reloads
  <2> QED
    BY <1>3, <1>5, <2>3, <2>4 DEF DialogInv
<1>7. CASE c.after # ""
  <2>1. calls' = AskPdf(Rest(c), dialog.of) /\ dialog'.pdf = {}
    BY <1>7 DEF LoadAnswered, Reload, DialogInv, Opened, DialogFields
  <2>2. CallsAreSound' /\ PdfIsOfTheOneOpened' /\ PdfWillBeCurrent'
    BY <1>1, <2>1, RestIsSound, AskedAgain
  <2> QED
    BY <1>3, <1>5, <2>2 DEF DialogInv
<1> QED
  BY <1>6, <1>7

\* A document that is listened for is shown.
LEMMA PdfKeeps ==
    ASSUME DialogInv, NEW c \in calls, c.served, PdfAnswered(c), UNCHANGED serverVars
    PROVE  DialogInv'
<1>1. UNCHANGED <<inputs, mine, stands, lines, made>> /\ calls' = calls \ {c} /\ c.what = "pdf"
  BY DEF PdfAnswered, serverVars, Rest
<1>2. /\ DOMAIN dialog' = DialogFields /\ dialog'.of = dialog.of
      /\ dialog'.pdf = IF c.live THEN c.got ELSE dialog.pdf
  BY DEF PdfAnswered, DialogInv, Opened, DialogFields
<1>3. ChangesAreNumbered' /\ InputsAreForIt'
  BY <1>1, <1>2 DEF DialogInv, ChangesAreNumbered, InputsAreForIt, InputIsForTheOneOpened
<1>4. Opened'
  BY <1>2, RestIsSound, DialogAssumption DEF Opened
<1>5. CallsAreSound'
  BY <1>1, <1>2 DEF DialogInv, CallsAreSound
<1>6. PdfIsOfTheOneOpened'
  BY <1>1, <1>2 DEF DialogInv, CallsAreSound, PdfIsOfTheOneOpened
<1>7. PdfWillBeCurrent'
  <2>1. ~Reloads(c)
    BY <1>1 DEF Reloads
  <2>2. CASE c.live
    BY <1>1, <1>2, <2>1, <2>2 DEF DialogInv, PdfWillBeCurrent, HasMine, Listened, Reloads
  <2>3. CASE ~c.live
    BY <1>1, <1>2, <2>1, <2>3 DEF DialogInv, PdfWillBeCurrent, HasMine, Listened, Reloads
  <2> QED
    BY <2>2, <2>3
<1> QED
  BY <1>3, <1>4, <1>5, <1>6, <1>7 DEF DialogInv

\* A change this approver is told of has the details loaded, and then the document.
LEMMA ChangeKeeps == ASSUME DialogInv, NEW c \in calls, ChangeAnswered(c) PROVE DialogInv'
<1>1. /\ DOMAIN dialog' = DialogFields /\ dialog'.of = dialog.of /\ dialog'.pdf = dialog.pdf
  BY DEF ChangeAnswered, DialogInv, Opened, DialogFields
<1>2. dialog.of \in Items /\ dialog.of # NoItem
  BY RestIsSound, DialogAssumption
<1>3. Opened'
  BY <1>1, <1>2 DEF Opened
<1>4. c.what \in {"save", "delete"} /\ Does(c) /\ c.of \in Items
  BY DEF ChangeAnswered, DialogInv, CallsAreSound
<1>5. /\ Moved
      /\ c.what = "save" /\ c.line = 0 => made'[c.of] \in 1..made'[c.of]
      /\ c.what = "save" /\ c.line # 0 => c.line \in lines'[c.of]
  <2>1. c.what \in Commands /\ ChangesAreNumbered
    BY <1>4 DEF Commands, DialogInv
  <2> QED
    BY <1>4, <2>1, DoesMoves
<1>6. ChangesAreNumbered'
  <2>1. ASSUME NEW i \in Items PROVE mine[i] \subseteq 1..made'[i]
    <3>1. made[i] \in Nat /\ made'[i] \in Nat /\ made[i] <= made'[i] /\ mine[i] \subseteq 1..made[i]
      BY <1>5 DEF Moved, DialogInv, ChangesAreNumbered
    <3> QED
      BY <3>1
  <2>2. DOMAIN mine = Items
    BY DEF DialogInv, ChangesAreNumbered
  <2>3. CASE c.what = "save"
    <3> DEFINE line == IF c.line = 0 THEN made'[c.of] ELSE c.line
    <3>1. mine' = [mine EXCEPT ![c.of] = @ \cup {line}]
      BY <2>3 DEF ChangeAnswered
    <3>2. line \in 1..made'[c.of]
      BY <1>4, <1>5, <2>3 DEF Moved
    <3> HIDE DEF line
    <3>3. \A i \in Items : mine'[i] \subseteq 1..made'[i]
      BY <2>1, <2>2, <3>1, <3>2
    <3> QED
      BY <1>5, <2>2, <3>1, <3>3 DEF ChangesAreNumbered, Moved
  <2>4. CASE c.what # "save"
    <3> DEFINE line == IF c.line = 0 THEN made'[c.of] ELSE c.line
    <3>1. mine' = [mine EXCEPT ![c.of] = @ \ {line}]
      BY <2>4 DEF ChangeAnswered
    <3> HIDE DEF line
    <3>2. \A i \in Items : mine'[i] \subseteq 1..made'[i]
      BY <2>1, <2>2, <3>1
    <3> QED
      BY <1>5, <2>2, <3>1, <3>2 DEF ChangesAreNumbered, Moved
  <2> QED
    BY <2>3, <2>4
<1>7. InputsAreForIt'
  <2>1. inputs' = [inputs EXCEPT !.form = NoForm] \/ inputs' = inputs
    BY DEF ChangeAnswered
  <2>2. CASE inputs' = [inputs EXCEPT !.form = NoForm]
    BY <1>1, <2>2 DEF DialogInv, InputsAreForIt, InputIsForTheOneOpened, InputFields, NoForm
  <2>3. CASE inputs' = inputs
    BY <1>1, <2>3 DEF DialogInv, InputsAreForIt, InputIsForTheOneOpened
  <2> QED
    BY <2>1, <2>2, <2>3
<1>8. OneMore(calls', Rest(c), "load", c.of, c.what)
  BY SentIs DEF ChangeAnswered, AskLoad
<1>9. PICK q : calls' = Rest(c) \cup {q} /\ Made(q, "load", c.of, c.what)
  BY <1>8 DEF OneMore
<1>10. CallsAreSound'
  BY <1>1, <1>4, <1>9 DEF DialogInv, CallsAreSound, Rest, Made
<1>11. PdfIsOfTheOneOpened'
  BY <1>1 DEF DialogInv, PdfIsOfTheOneOpened
<1>12. PdfWillBeCurrent'
  <2>1. Reloads(q)
    BY <1>4, <1>9 DEF Reloads, Made
  <2> QED
    BY <1>9, <2>1 DEF PdfWillBeCurrent, Reloads
<1> QED
  BY <1>3, <1>6, <1>7, <1>10, <1>11, <1>12 DEF DialogInv

\* A command that is over, and changed what the dialog shows of the document nowhere.
LEMMA OverKeeps ==
    ASSUME DialogInv, NEW c \in calls, c.what \in Commands, Does(c) \/ UNCHANGED serverVars,
           DOMAIN dialog' = DialogFields, dialog'.of = dialog.of, dialog'.pdf = dialog.pdf,
           calls' = Rest(c), UNCHANGED <<inputs, mine>>
    PROVE  DialogInv'
<1>1. Opened'
  BY RestIsSound, DialogAssumption DEF Opened
<1>2. InputsAreForIt' /\ PdfIsOfTheOneOpened'
  BY DEF DialogInv, InputsAreForIt, InputIsForTheOneOpened, PdfIsOfTheOneOpened
<1>3. CallsAreSound'
  BY DEF DialogInv, CallsAreSound, Rest
<1>4. c.of \in Items
  BY DEF DialogInv, CallsAreSound
<1>5. Moved
  <2>1. CASE Does(c)
    BY <1>4, <2>1, DoesMoves DEF DialogInv
  <2>2. CASE UNCHANGED serverVars
    BY <2>2 DEF serverVars, Moved, DialogInv, ChangesAreNumbered
  <2> QED
    BY <2>1, <2>2
<1>6. /\ ChangesAreNumbered'
      /\ \A copies : HasMine(copies) /\ (\A p \in copies : p.of \in Items)
                        => \A p \in copies : mine'[p.of] \cap lines'[p.of] \subseteq p.lines
  BY <1>5, MovedKeeps DEF DialogInv
<1>7. \A p \in dialog.pdf : p.of \in Items
  BY RestIsSound DEF DialogInv, PdfIsOfTheOneOpened
<1>8. \A q \in calls : Listened(q) => \A p \in q.got : p.of \in Items
  BY DEF DialogInv, CallsAreSound, Listened
<1>9. ~Listened(c) /\ ~Reloads(c)
  BY DEF Commands, Listened, Reloads
<1>10. PdfWillBeCurrent'
  BY <1>6, <1>7, <1>8, <1>9 DEF DialogInv, PdfWillBeCurrent, HasMine, Listened, Reloads, Rest
<1> QED
  BY <1>1, <1>2, <1>3, <1>6, <1>10 DEF DialogInv

\* A decision: an endorsement's document is fetched again.
LEMMA DecisionKeeps == ASSUME DialogInv, NEW c \in calls, DecisionAnswered(c) PROVE DialogInv'
<1>1. c.what \in Commands /\ c.what \in {"approve", "reject"} /\ Does(c) /\ UNCHANGED <<inputs, mine>>
  BY DEF DecisionAnswered, Commands
<1>2. CASE queue = "applications"
  <2>1. dialog' = [dialog EXCEPT !.outcome = {c.of}] /\ calls' = Rest(c)
    BY <1>2 DEF DecisionAnswered
  <2>2. DOMAIN dialog' = DialogFields /\ dialog'.of = dialog.of /\ dialog'.pdf = dialog.pdf
    BY <2>1 DEF DialogInv, Opened, DialogFields
  <2> QED
    BY <1>1, <2>1, <2>2, OverKeeps
<1>3. CASE queue # "applications"
  <2>1. dialog' = [dialog EXCEPT !.outcome = {c.of}, !.pdf = {}] /\ calls' = AskPdf(Rest(c), dialog.of)
    BY <1>3 DEF DecisionAnswered, Reload
  <2>2. DOMAIN dialog' = DialogFields /\ dialog'.of = dialog.of /\ dialog'.pdf = {}
    BY <2>1 DEF DialogInv, Opened, DialogFields
  <2>3. Opened'
    BY <2>2, RestIsSound, DialogAssumption DEF Opened
  <2>4. InputsAreForIt'
    BY <1>1, <2>2 DEF DialogInv, InputsAreForIt, InputIsForTheOneOpened
  <2>5. c.of \in Items
    BY DEF DialogInv, CallsAreSound
  <2>6. ChangesAreNumbered'
    <3>1. Moved
      BY <1>1, <2>5, DoesMoves DEF DialogInv
    <3> QED
      BY <1>1, <3>1, MovedKeeps DEF DialogInv
  <2>7. CallsAreSound' /\ PdfIsOfTheOneOpened' /\ PdfWillBeCurrent'
    BY <2>1, <2>2, RestIsSound, AskedAgain
  <2> QED
    BY <2>3, <2>4, <2>6, <2>7 DEF DialogInv
<1> QED
  BY <1>2, <1>3

\* Any answer.
LEMMA AnswersKeep == ASSUME DialogInv, NEW c \in calls, Answers(c) PROVE DialogInv'
<1>1. CASE c.served /\ LoadAnswered(c) /\ UNCHANGED serverVars
  BY <1>1, LoadKeeps
<1>2. CASE c.served /\ PdfAnswered(c) /\ UNCHANGED serverVars
  BY <1>2, PdfKeeps
<1>3. CASE ChangeAnswered(c)
  BY <1>3, ChangeKeeps
<1>4. CASE DecisionAnswered(c)
  BY <1>4, DecisionKeeps
<1>5. CASE CommandFailed(c)
  <2>1. /\ DOMAIN dialog' = DialogFields /\ dialog'.of = dialog.of /\ dialog'.pdf = dialog.pdf
    BY <1>5 DEF CommandFailed, DialogInv, Opened, DialogFields
  <2>2. c.what \in Commands
    BY <1>5 DEF CommandFailed, DialogInv, CallsAreSound
  <2> QED
    BY <1>5, <2>1, <2>2, OverKeeps DEF CommandFailed
<1> QED
  BY <1>1, <1>2, <1>3, <1>4, <1>5 DEF Answers

\* Every step of the dialog, of its calls and of everybody else.
LEMMA StepDialogInv == ASSUME DialogInv, [DialogNext]_dialogVars PROVE DialogInv'
<1>1. ASSUME NEW i \in Items, OpenItem(i) PROVE DialogInv'
  BY <1>1, OpenKeeps
<1>2. ASSUME NEW i \in Items, Elsewhere(i) PROVE DialogInv'
  BY <1>2, ElsewhereKeeps
<1>3. CASE (\E l \in 0..MaxLines : StartForm(l)) \/ CancelForm \/ Prepare
  BY <1>3, TypesKeeps
<1>4. CASE \/ Save
           \/ \E l \in 0..MaxLines : DeleteLine(l)
           \/ \E what \in {"approve", "reject"} : DecideNow(what)
  BY <1>4, CommandSent
<1>5. CASE Close
  BY <1>5, CloseKeeps
<1>6. ASSUME NEW c \in calls, Reads(c) PROVE DialogInv'
  BY <1>6, ReadsKeeps
<1>7. ASSUME NEW c \in calls, Answers(c) PROVE DialogInv'
  BY <1>7, AnswersKeep
<1>8. CASE UNCHANGED dialogVars
  <2>1. UNCHANGED <<queue, stands, lines, made, dialog, inputs, calls, mine>>
    BY <1>8 DEF dialogVars
  <2>2. Opened' /\ InputsAreForIt'
    BY <2>1 DEF DialogInv, Opened, InputsAreForIt, InputIsForTheOneOpened
  <2> QED
    BY <2>1, <2>2, QuietKeeps
<1> QED
  BY <1>1, <1>2, <1>3, <1>4, <1>5, <1>6, <1>7, <1>8 DEF DialogNext

\* What the invariant says of a dialog nobody waits for.
LEMMA DialogInvIsCurrent ==
    ASSUME DialogInv PROVE PdfIsCurrent /\ InputIsForTheOneOpened
  BY DEF DialogInv, PdfIsCurrent, PdfShowsMyChanges, PdfWillBeCurrent, HasMine, InputsAreForIt

\* Nothing typed or ticked for one filing can be sent for another
\* (ApplicationReviewDialog.jsx, EndorsementReviewDialog.jsx).
THEOREM InputStaysWithItsFiling == DialogSpec => []InputIsForTheOneOpened
<1>1. DialogInit => DialogInv
  BY InitDialogInv
<1>2. DialogInv /\ [DialogNext]_dialogVars => DialogInv'
  BY StepDialogInv
<1>3. DialogInv => InputIsForTheOneOpened
  BY DialogInvIsCurrent
<1> QED
  BY <1>1, <1>2, <1>3, PTL DEF DialogSpec

\* The document on the left is the one of the filing that is open, and once
\* nothing is under way it has every change the approver was told of
\* (pdfReloadKey in ApplicationReviewDialog.jsx, EndorsementReviewDialog.jsx).
THEOREM DocumentIsCurrent == DialogSpec => []PdfIsCurrent
<1>1. DialogInit => DialogInv
  BY InitDialogInv
<1>2. DialogInv /\ [DialogNext]_dialogVars => DialogInv'
  BY StepDialogInv
<1>3. DialogInv => PdfIsCurrent
  BY DialogInvIsCurrent
<1> QED
  BY <1>1, <1>2, <1>3, PTL DEF DialogSpec

-----------------------------------------------------------------------------
(* The dialog a task of the in-lease backlog is marked from.                 *)

DetailFields  == {"of", "since", "loading", "found", "ticked", "submitting", "for"}
HandlerFields == {"who", "what", "task", "said", "step", "filter", "dialog"}

\* A tick is about the task that is shown, and nothing is loading that could
\* put another in its place.
TickIsOfTheTask(shown) ==
    shown.ticked = TRUE =>
       /\ shown.loading = FALSE
       /\ CurrentTaskOf(shown.found) # NoTask /\ shown.for = CurrentTaskOf(shown.found)

DetailIsSound ==
    detail # NotThere => /\ DOMAIN detail = DetailFields
                         /\ detail.loading \in BOOLEAN /\ detail.ticked \in BOOLEAN /\ detail.submitting \in BOOLEAN
                         /\ detail.since \in Nat /\ detail.since <= deeds
                         /\ TickIsOfTheTask(detail)

\* A handler was made at a dialog opened before; what it marks was confirmed.
HandlersAreSound ==
    \A h \in marking :
        /\ DOMAIN h = HandlerFields
        /\ h.who = Me => h.dialog \in Nat /\ h.dialog <= deeds
        /\ h.what = "accomplish" => h.said = h.task

\* The dialog waits for one handler at most.  While that one has not marked,
\* nothing is loading; once it has, the dialog loads.  Undo is of a dialog with
\* no task left to tick.
DialogWaits(h) ==
    /\ detail.submitting = TRUE
    /\ h.step = "load" => detail.loading = TRUE
    /\ h.step # "load" /\ h.what # "accomplish" => CurrentTaskOf(detail.found) = NoTask

OneIsWaitedFor ==
    /\ \A h \in marking : Mounted(h) => DialogWaits(h)
    /\ \A g, h \in marking : Mounted(g) /\ Mounted(h) => g = h

BacklogInv ==
    /\ deeds \in Nat
    /\ DetailIsSound
    /\ HandlersAreSound
    /\ OneIsWaitedFor

\* Nobody is at the dialog at first.
LEMMA InitBacklogInv == ASSUME InLeaseInit PROVE BacklogInv
  BY DEF InLeaseInit, BacklogInv, DetailIsSound, HandlersAreSound, OneIsWaitedFor

\* What is done at the page, and what others do to the tasks, leaves the dialog
\* and its handlers alone.
LEMMA BesideKeeps ==
    ASSUME BacklogInv, UNCHANGED <<marking, detail>>, deeds' \in Nat, deeds <= deeds'
    PROVE  BacklogInv'
<1>1. DetailIsSound'
  <2>1. ASSUME NEW n \in Nat, n <= deeds PROVE n <= deeds'
    BY <2>1 DEF BacklogInv
  <2> QED
    BY <2>1 DEF BacklogInv, DetailIsSound
<1>2. HandlersAreSound'
  <2>1. ASSUME NEW n \in Nat, n <= deeds PROVE n <= deeds'
    BY <2>1 DEF BacklogInv
  <2> QED
    BY <2>1 DEF BacklogInv, HandlersAreSound
<1>3. OneIsWaitedFor'
  BY DEF BacklogInv, OneIsWaitedFor, Mounted, DialogWaits
<1> QED
  BY <1>1, <1>2, <1>3 DEF BacklogInv

\* A dialog that is opened is nobody's before.
LEMMA OpenDetailKeeps ==
    ASSUME BacklogInv, NEW p, OpenDetail(p)
    PROVE  BacklogInv'
<1>1. deeds \in Nat /\ deeds' = deeds + 1 /\ marking' = marking
  BY DEF OpenDetail, AtThePage, BacklogInv
<1>2. /\ DOMAIN detail' = DetailFields /\ detail'.since = deeds' /\ detail'.ticked = FALSE
      /\ detail'.loading = TRUE /\ detail'.submitting = FALSE
  BY DEF OpenDetail, DetailFields
<1>3. DetailIsSound'
  <2>1. detail'.since \in Nat /\ detail'.since <= deeds'
    BY <1>1, <1>2
  <2>2. TickIsOfTheTask(detail')
    BY <1>2, Zenon DEF TickIsOfTheTask
  <2>3. detail'.loading \in BOOLEAN /\ detail'.ticked \in BOOLEAN /\ detail'.submitting \in BOOLEAN
    BY <1>2, Zenon
  <2> QED
    BY <1>2, <2>1, <2>2, <2>3, Zenon DEF DetailIsSound
<1>4. ASSUME NEW h \in marking
      PROVE  /\ DOMAIN h = HandlerFields
             /\ h.who = Me => h.dialog \in Nat /\ h.dialog <= deeds' /\ h.dialog # deeds'
             /\ h.what = "accomplish" => h.said = h.task
  <2>1. h.who = Me => h.dialog \in Nat /\ h.dialog <= deeds
    BY DEF BacklogInv, HandlersAreSound
  <2> QED
    BY <1>1, <2>1 DEF BacklogInv, HandlersAreSound
<1>5. HandlersAreSound'
  BY <1>1, <1>4 DEF HandlersAreSound
<1>6. OneIsWaitedFor'
  BY <1>1, <1>2, <1>4 DEF OneIsWaitedFor, Mounted
<1> QED
  BY <1>1, <1>3, <1>5, <1>6 DEF BacklogInv

\* What the dialog asked for when it was mounted comes while nobody is waited for.
LEMMA DetailArrivesKeeps == ASSUME BacklogInv, DetailArrives PROVE BacklogInv'
<1>1. UNCHANGED <<marking, deeds>> /\ detail # NotThere /\ detail.loading /\ ~detail.submitting
  BY DEF DetailArrives
<1>2. /\ DOMAIN detail = DetailFields /\ detail.since \in Nat /\ detail.since <= deeds
      /\ detail.submitting = FALSE /\ detail.loading = TRUE
      /\ detail.loading \in BOOLEAN /\ detail.ticked \in BOOLEAN /\ detail.submitting \in BOOLEAN
  BY <1>1 DEF BacklogInv, DetailIsSound
<1>8. detail.ticked = FALSE
  BY <1>1, <1>2 DEF BacklogInv, DetailIsSound, TickIsOfTheTask
<1>3. /\ DOMAIN detail' = DetailFields /\ detail'.since = detail.since /\ detail'.ticked = FALSE
      /\ detail'.loading = FALSE /\ detail'.submitting = FALSE
  BY <1>8, <1>2 DEF DetailArrives, Arrived, DetailFields
<1>4. DetailIsSound'
  BY <1>1, <1>2, <1>3 DEF DetailIsSound, TickIsOfTheTask
<1>5. HandlersAreSound'
  BY <1>1 DEF BacklogInv, HandlersAreSound
<1>6. ASSUME NEW h \in marking, Mounted(h) PROVE FALSE
  BY <1>2, <1>6 DEF BacklogInv, OneIsWaitedFor, DialogWaits
<1>7. OneIsWaitedFor'
  BY <1>1, <1>3, <1>6 DEF OneIsWaitedFor, Mounted
<1> QED
  BY <1>1, <1>4, <1>5, <1>7 DEF BacklogInv

\* A dialog that is closed waits for nobody; its handlers go on.
LEMMA CloseDetailKeeps == ASSUME BacklogInv, CloseDetail PROVE BacklogInv'
  BY DEF CloseDetail, BacklogInv, DetailIsSound, HandlersAreSound, OneIsWaitedFor, Mounted

\* A tick is of the task that is shown.
LEMMA TickKeeps == ASSUME BacklogInv, Tick PROVE BacklogInv'
<1>1. deeds \in Nat /\ deeds' = deeds + 1 /\ marking' = marking /\ detail # NotThere
  BY DEF Tick, AtThePage, BacklogInv, Shows
<1>2. /\ DOMAIN detail = DetailFields /\ detail.since \in Nat /\ detail.since <= deeds
      /\ detail.loading \in BOOLEAN /\ detail.ticked \in BOOLEAN /\ detail.submitting \in BOOLEAN /\ detail.loading = FALSE
  BY <1>1 DEF BacklogInv, DetailIsSound, Tick, Shows
<1>3. /\ DOMAIN detail' = DetailFields /\ detail'.since = detail.since
      /\ detail'.loading = FALSE /\ detail'.found = detail.found
      /\ detail'.submitting = detail.submitting
      /\ detail'.ticked = ~detail.ticked
      /\ detail'.for = IF detail.ticked THEN NoTask ELSE CurrentTaskOf(detail.found)
  BY <1>2 DEF Tick, ShownTask, DetailFields
<1>4. CurrentTaskOf(detail.found) # NoTask
  BY DEF Tick, ShownTask
<1>5. TickIsOfTheTask(detail')
  BY <1>2, <1>3, <1>4 DEF TickIsOfTheTask
<1>6. DetailIsSound'
  <2>1. detail'.since \in Nat /\ detail'.since <= deeds'
    BY <1>1, <1>2, <1>3
  <2>2. detail'.loading \in BOOLEAN /\ detail'.ticked \in BOOLEAN /\ detail'.submitting \in BOOLEAN
    BY <1>2, <1>3, Zenon
  <2> QED
    BY <1>3, <1>5, <2>1, <2>2, Zenon DEF DetailIsSound
<1>7. HandlersAreSound'
  <2>1. ASSUME NEW n \in Nat, n <= deeds PROVE n <= deeds'
    BY <1>1, <2>1
  <2> QED
    BY <1>1, <2>1 DEF BacklogInv, HandlersAreSound
<1>8. OneIsWaitedFor'
  BY <1>1, <1>2, <1>3 DEF BacklogInv, OneIsWaitedFor, Mounted, DialogWaits
<1> QED
  BY <1>1, <1>6, <1>7, <1>8 DEF BacklogInv

\* A mark is sent of the task that is shown, which a tick was of; nobody else
\* is waited for.
LEMMA SubmitKeeps == ASSUME BacklogInv, SubmitDone \/ SubmitUndo PROVE BacklogInv'
<1>1. PICK what, n, said :
         /\ Submits(what, n, said)
         /\ what = "accomplish" => n = CurrentTaskOf(detail.found) /\ detail.ticked /\ said = detail.for
         /\ what # "accomplish" => CurrentTaskOf(detail.found) = NoTask
  BY DEF SubmitDone, SubmitUndo, ShownTask
<1>2. deeds \in Nat /\ deeds' = deeds + 1 /\ detail # NotThere /\ ~detail.submitting
  BY <1>1 DEF Submits, Shows, AtThePage, BacklogInv
<1>3. /\ DOMAIN detail = DetailFields /\ detail.since \in Nat /\ detail.since <= deeds
      /\ detail.loading \in BOOLEAN /\ detail.ticked \in BOOLEAN /\ detail.submitting \in BOOLEAN
      /\ detail.loading = FALSE /\ detail.submitting = FALSE /\ TickIsOfTheTask(detail)
  BY <1>1, <1>2 DEF BacklogInv, DetailIsSound, Submits, Shows
<1>4. /\ DOMAIN detail' = DetailFields /\ detail'.since = detail.since
      /\ detail'.loading = FALSE /\ detail'.ticked = detail.ticked /\ detail'.submitting = TRUE
      /\ detail'.found = detail.found /\ detail'.for = detail.for
  BY <1>1, <1>3 DEF Submits, DetailFields
<1>5. what = "accomplish" => said = n
  BY <1>1, <1>3 DEF TickIsOfTheTask
<1> DEFINE h == Handler(Me, what, n, said)
<1>6. /\ marking' = marking \cup {h}
      /\ DOMAIN h = HandlerFields /\ h.who = Me /\ h.what = what /\ h.task = n /\ h.said = said
      /\ h.step = "check" /\ h.dialog = detail.since
  BY <1>1 DEF Submits, Handler, HandlerFields
<1> HIDE DEF h
<1>7. DetailIsSound'
  <2>1. detail'.since \in Nat /\ detail'.since <= deeds'
    BY <1>2, <1>3, <1>4
  <2>2. TickIsOfTheTask(detail')
    BY <1>3, <1>4 DEF TickIsOfTheTask
  <2>3. detail'.loading \in BOOLEAN /\ detail'.ticked \in BOOLEAN /\ detail'.submitting \in BOOLEAN
    BY <1>3, <1>4, Zenon
  <2> QED
    BY <1>4, <2>1, <2>2, <2>3, Zenon DEF DetailIsSound
<1>8. HandlersAreSound'
  <2>1. ASSUME NEW m \in Nat, m <= deeds PROVE m <= deeds'
    BY <1>2, <2>1
  <2> QED
    BY <1>3, <1>5, <1>6, <2>1 DEF BacklogInv, HandlersAreSound
<1>9. \A g \in marking : ~(g.who = Me /\ detail.since = g.dialog)
  BY <1>2, <1>3 DEF BacklogInv, OneIsWaitedFor, DialogWaits, Mounted
<1>10. OneIsWaitedFor'
  <2>1. \A g \in marking' : Mounted(g)' => g = h
    BY <1>4, <1>6, <1>9 DEF Mounted
  <2>2. /\ detail'.submitting = TRUE /\ h.step # "load"
        /\ h.what # "accomplish" => CurrentTaskOf(detail'.found) = NoTask
    BY <1>1, <1>4, <1>6
  <2>3. \A g \in marking' : Mounted(g)' => DialogWaits(g)'
    BY <2>1, <2>2 DEF DialogWaits
  <2>4. \A f, g \in marking' : Mounted(f)' /\ Mounted(g)' => f = g
    BY <2>1
  <2> QED
    BY <2>3, <2>4 DEF OneIsWaitedFor
<1> QED
  BY <1>2, <1>7, <1>8, <1>10 DEF BacklogInv

\* Others mark at dialogs of their own.
LEMMA OtherKeeps ==
    ASSUME BacklogInv, NEW n, NEW what, OtherMarks(n, what)
    PROVE  BacklogInv'
<1> DEFINE h == Handler(Other, what, n, n)
<1>1. /\ marking' = marking \cup {h}
      /\ DOMAIN h = HandlerFields /\ h.who = Other /\ h.task = n /\ h.said = n
  BY DEF OtherMarks, Handler, HandlerFields
<1> HIDE DEF h
<1>2. UNCHANGED <<detail, deeds>> /\ h.who # Me
  BY <1>1 DEF OtherMarks, Other, Me
<1>3. DetailIsSound'
  BY <1>2 DEF BacklogInv, DetailIsSound
<1>4. HandlersAreSound'
  BY <1>1, <1>2 DEF BacklogInv, HandlersAreSound
<1>5. OneIsWaitedFor'
  BY <1>1, <1>2 DEF BacklogInv, OneIsWaitedFor, Mounted, DialogWaits
<1> QED
  BY <1>2, <1>3, <1>4, <1>5 DEF BacklogInv

\* Handlers that go on, or are over, leave a dialog that waits for them sound.
LEMMA MarkCheckKeeps == ASSUME BacklogInv, NEW h \in marking, MarkCheck(h) PROVE BacklogInv'
<1>1. UNCHANGED <<detail, deeds>> /\ h.step = "check"
  BY DEF MarkCheck
<1> DEFINE g == [h EXCEPT !.step = "update"]
<1>2. marking' = (marking \ {h}) \cup {g}
  BY DEF MarkCheck, At
<1>3. DOMAIN h = HandlerFields
  BY DEF BacklogInv, HandlersAreSound
<1>4. /\ DOMAIN g = HandlerFields /\ g.who = h.who /\ g.what = h.what /\ g.task = h.task
      /\ g.said = h.said /\ g.step = "update" /\ g.dialog = h.dialog
  BY <1>3 DEF HandlerFields
<1> HIDE DEF g
<1>5. DetailIsSound'
  BY <1>1 DEF BacklogInv, DetailIsSound
<1>6. HandlersAreSound'
  BY <1>1, <1>2, <1>4 DEF BacklogInv, HandlersAreSound
<1>7. OneIsWaitedFor'
  BY <1>1, <1>2, <1>4 DEF BacklogInv, OneIsWaitedFor, Mounted, DialogWaits
<1> QED
  BY <1>1, <1>5, <1>6, <1>7 DEF BacklogInv

\* Once a task is marked the tick is gone: what is loaded then may have another.
LEMMA MarkUpdateKeeps == ASSUME BacklogInv, NEW h \in marking, MarkUpdate(h) PROVE BacklogInv'
<1>1. UNCHANGED deeds /\ h.step = "update"
  BY DEF MarkUpdate
<1> DEFINE g == [h EXCEPT !.step = "load"]
<1>2. marking' = IF h.who = Me THEN (marking \ {h}) \cup {g} ELSE marking \ {h}
  BY DEF MarkUpdate, At
<1>3. DOMAIN h = HandlerFields
  BY DEF BacklogInv, HandlersAreSound
<1>4. /\ DOMAIN g = HandlerFields /\ g.who = h.who /\ g.what = h.what /\ g.task = h.task
      /\ g.said = h.said /\ g.step = "load" /\ g.dialog = h.dialog
  BY <1>3 DEF HandlerFields
<1> HIDE DEF g
<1>5. HandlersAreSound'
  BY <1>1, <1>2, <1>4 DEF BacklogInv, HandlersAreSound
<1>6. CASE Mounted(h)
  <2>1. /\ detail # NotThere /\ DOMAIN detail = DetailFields
        /\ detail.loading \in BOOLEAN /\ detail.ticked \in BOOLEAN /\ detail.submitting \in BOOLEAN
        /\ detail.since \in Nat /\ detail.since <= deeds /\ TickIsOfTheTask(detail)
        /\ detail.submitting = TRUE
        /\ h.what # "accomplish" => CurrentTaskOf(detail.found) = NoTask
    BY <1>1, <1>6 DEF BacklogInv, DetailIsSound, OneIsWaitedFor, DialogWaits, Mounted
  <2>2. h.what # "accomplish" => detail.ticked = FALSE
    BY <2>1 DEF TickIsOfTheTask
  <2>3. detail' = AfterMark(detail, h.what)
    BY <1>6 DEF MarkUpdate
  <2>4. /\ DOMAIN detail' = DetailFields /\ detail'.since = detail.since
        /\ detail'.submitting = TRUE /\ detail'.loading = TRUE /\ detail'.ticked = FALSE
    BY <2>1, <2>2, <2>3 DEF AfterMark, DetailFields
  <2>5. DetailIsSound'
    BY <1>1, <2>1, <2>4 DEF DetailIsSound, TickIsOfTheTask
  <2>6. \A f \in marking : Mounted(f) => f = h
    BY <1>6 DEF BacklogInv, OneIsWaitedFor
  <2>7. \A f \in marking' : Mounted(f)' => f = g
    <3>1. ASSUME NEW f \in marking', Mounted(f)', f # g PROVE FALSE
      <4>1. f \in marking /\ f # h
        BY <1>2, <3>1
      <4>2. Mounted(f)
        BY <2>1, <2>4, <3>1 DEF Mounted
      <4> QED
        BY <2>6, <4>1, <4>2
    <3> QED
      BY <3>1
  <2>8. DialogWaits(g)'
    BY <1>4, <2>4 DEF DialogWaits
  <2>9. \A f \in marking' : Mounted(f)' => DialogWaits(f)'
    BY <2>7, <2>8
  <2>10. \A e, f \in marking' : Mounted(e)' /\ Mounted(f)' => e = f
    BY <2>7
  <2>11. OneIsWaitedFor'
    BY <2>9, <2>10 DEF OneIsWaitedFor
  <2> QED
    BY <1>1, <1>5, <2>5, <2>11 DEF BacklogInv
<1>7. CASE ~Mounted(h)
  <2>1. detail' = detail
    BY <1>7 DEF MarkUpdate
  <2>2. DetailIsSound'
    BY <1>1, <2>1 DEF BacklogInv, DetailIsSound
  <2>3. \A f \in marking' : Mounted(f)' => f \in marking /\ Mounted(f)
    BY <1>2, <1>4, <1>7, <2>1 DEF Mounted
  <2>4. \A f \in marking' : Mounted(f)' => DialogWaits(f)'
    BY <2>1, <2>3 DEF BacklogInv, OneIsWaitedFor, DialogWaits
  <2>5. \A e, f \in marking' : Mounted(e)' /\ Mounted(f)' => e = f
    BY <2>3 DEF BacklogInv, OneIsWaitedFor
  <2>6. OneIsWaitedFor'
    BY <2>4, <2>5 DEF OneIsWaitedFor
  <2> QED
    BY <1>1, <1>5, <2>2, <2>6 DEF BacklogInv
<1> QED
  BY <1>6, <1>7

\* A handler that is over is waited for no longer.  It loaded, with the tick
\* taken back before, or it failed, and loads nothing.
LEMMA MarkOverKeeps ==
    ASSUME BacklogInv, NEW h \in marking, MarkFails(h) \/ MarkLoads(h)
    PROVE  BacklogInv'
<1>1. UNCHANGED deeds /\ marking' = marking \ {h}
  BY DEF MarkFails, MarkLoads
<1>2. HandlersAreSound'
  BY <1>1 DEF BacklogInv, HandlersAreSound
<1>3. CASE Mounted(h)
  <2>1. /\ detail # NotThere /\ DOMAIN detail = DetailFields
        /\ detail.loading \in BOOLEAN /\ detail.ticked \in BOOLEAN /\ detail.submitting \in BOOLEAN
        /\ detail.since \in Nat /\ detail.since <= deeds /\ TickIsOfTheTask(detail)
        /\ h.step = "load" => detail.loading = TRUE
    BY <1>3 DEF BacklogInv, DetailIsSound, OneIsWaitedFor, DialogWaits, Mounted
  <2>2. /\ DOMAIN detail' = DetailFields /\ detail'.since = detail.since /\ detail'.ticked = detail.ticked
        /\ detail'.loading \in BOOLEAN /\ detail'.submitting = FALSE
        /\ TickIsOfTheTask(detail')
    <3>1. CASE MarkFails(h)
      <4>1. detail' = [detail EXCEPT !.submitting = FALSE]
        BY <1>3, <3>1 DEF MarkFails
      <4> QED
        BY <2>1, <4>1 DEF TickIsOfTheTask, DetailFields
    <3>2. CASE MarkLoads(h)
      <4>1. detail.ticked = FALSE
        BY <2>1, <3>2 DEF MarkLoads, TickIsOfTheTask
      <4>2. \/ detail' = [Arrived(detail) EXCEPT !.submitting = FALSE]
            \/ detail' = [detail EXCEPT !.loading = FALSE, !.submitting = FALSE]
        BY <1>3, <3>2 DEF MarkLoads
      <4>3. /\ DOMAIN detail' = DetailFields /\ detail'.since = detail.since /\ detail'.ticked = detail.ticked
            /\ detail'.loading = FALSE /\ detail'.submitting = FALSE
        BY <2>1, <4>2 DEF Arrived, DetailFields
      <4> QED
        BY <4>1, <4>3 DEF TickIsOfTheTask
    <3> QED
      BY <3>1, <3>2
  <2>3. DetailIsSound'
    BY <1>1, <2>1, <2>2 DEF DetailIsSound
  <2>4. \A f \in marking' : ~Mounted(f)'
    <3>1. ASSUME NEW f \in marking', Mounted(f)' PROVE FALSE
      <4>1. f \in marking /\ f # h
        BY <1>1
      <4>2. Mounted(f)
        BY <2>1, <2>2, <3>1 DEF Mounted
      <4> QED
        BY <1>3, <4>1, <4>2 DEF BacklogInv, OneIsWaitedFor
    <3> QED
      BY <3>1
  <2>5. OneIsWaitedFor'
    BY <2>4 DEF OneIsWaitedFor
  <2> QED
    BY <1>1, <1>2, <2>3, <2>5 DEF BacklogInv
<1>4. CASE ~Mounted(h)
  <2>1. detail' = detail
    BY <1>4 DEF MarkFails, MarkLoads
  <2>2. DetailIsSound'
    BY <1>1, <2>1 DEF BacklogInv, DetailIsSound
  <2>3. OneIsWaitedFor'
    BY <1>1, <2>1 DEF BacklogInv, OneIsWaitedFor, Mounted, DialogWaits
  <2> QED
    BY <1>1, <1>2, <2>2, <2>3 DEF BacklogInv
<1> QED
  BY <1>3, <1>4

\* Every step of the page, of the dialog, of its handlers and of others.
LEMMA StepBacklogInv == ASSUME BacklogInv, [InLeaseNext]_inLeaseVars PROVE BacklogInv'
<1>1. deeds \in Nat
  BY DEF BacklogInv
<1>2. ASSUME NEW p, NEW n, TaskIsMade(p, n) PROVE BacklogInv'
  BY <1>1, <1>2, BesideKeeps DEF TaskIsMade
<1>3. ASSUME NEW filter, FilterChange(filter) PROVE BacklogInv'
  BY <1>1, <1>3, BesideKeeps DEF FilterChange, AtThePage
<1>4. ASSUME NEW filter, RowsArrive(filter) \/ RowsFail(filter) PROVE BacklogInv'
  BY <1>1, <1>4, BesideKeeps DEF RowsArrive, RowsFail
<1>5. ASSUME NEW p, OpenDetail(p) PROVE BacklogInv'
  BY <1>5, OpenDetailKeeps
<1>6. ASSUME NEW n, NEW what, OtherMarks(n, what) PROVE BacklogInv'
  BY <1>6, OtherKeeps
<1>7. ASSUME NEW h \in marking, MarkCheck(h) \/ MarkUpdate(h) \/ MarkFails(h) \/ MarkLoads(h)
      PROVE  BacklogInv'
  BY <1>7, MarkCheckKeeps, MarkUpdateKeeps, MarkOverKeeps
<1>8. CASE UNCHANGED inLeaseVars
  BY <1>1, <1>8, BesideKeeps DEF inLeaseVars
<1>9. CASE DetailArrives \/ CloseDetail \/ Tick \/ SubmitDone \/ SubmitUndo
  BY <1>9, DetailArrivesKeeps, CloseDetailKeeps, TickKeeps, SubmitKeeps
<1> QED
  BY <1>2, <1>3, <1>4, <1>5, <1>6, <1>7, <1>8, <1>9 DEF InLeaseNext

\* What is marked as done at the dialog is the task it was confirmed for, though
\* the tick outlives a submission that failed (InLeaseDetailDialog.jsx).
THEOREM TasksAreConfirmed == InLeaseSpec => []ConfirmedForItsTask
<1>1. InLeaseInit => BacklogInv
  BY InitBacklogInv
<1>2. BacklogInv /\ [InLeaseNext]_inLeaseVars => BacklogInv'
  BY StepBacklogInv
<1>3. BacklogInv => ConfirmedForItsTask
  BY DEF BacklogInv, HandlersAreSound, ConfirmedForItsTask
<1> QED
  BY <1>1, <1>2, <1>3, PTL DEF InLeaseSpec

-----------------------------------------------------------------------------
(* The form filings are made from.                                           *)

FormFields == {"agent", "catalog", "party", "variant", "days", "rows", "picks"}

Rows == [plate : TypedPlates \cup {NoText}, match : {"none", "own", "take"}, tag : Nat]

TagsDiffer(rows) == \A i, j \in DOMAIN rows : rows[i].tag = rows[j].tag => i = j

TagsOf(rows) == {rows[i].tag : i \in DOMAIN rows}

\* A coverage limited to some vehicles names the rows they are in.
ScopeHolds(rows, pick) ==
    /\ DOMAIN pick = {"scope", "meant", "stale"}
    /\ pick.scope # Whole /\ ~pick.stale =>
          /\ pick.meant \subseteq TagsOf(rows)
          /\ pick.scope = {i \in DOMAIN rows : rows[i].tag \in pick.meant}

ScopesHold(rows, picks) == \A c \in DOMAIN picks : ScopeHolds(rows, picks[c])

FormIsSound(f) ==
    /\ DOMAIN f = FormFields
    /\ f.rows \in Seq(Rows)
    /\ TagsDiffer(f.rows)
    /\ ScopesHold(f.rows, f.picks)

HasRequired(f) == RequiredOf(f) \subseteq DOMAIN f.picks

\* What is looked up is a plate that was typed.
AskedIsSound ==
    /\ \A q \in asked : q.kind = "plate" => q.plate \in TypedPlates
    /\ conflict # Nothing => conflict[2] \in TypedPlates

FormInv == FormIsSound(form) /\ HasRequired(form) /\ AskedIsSound

\* A row that is empty.
LEMMA EmptyRowIs ==
    ASSUME NEW t \in Nat
    PROVE  /\ EmptyRow(t) \in Rows /\ EmptyRow(t).tag = t
           /\ <<EmptyRow(t)>> \in Seq(Rows) /\ TagsDiffer(<<EmptyRow(t)>>)
<1>1. EmptyRow(t) \in Rows /\ EmptyRow(t).tag = t
  BY DEF EmptyRow, Rows
<1>2. \A r \in Rows : <<r>> \in Seq(Rows) /\ DOMAIN <<r>> = {1}
  OBVIOUS
<1> QED
  BY <1>1, <1>2 DEF TagsDiffer

\* What a selected coverage is when nothing is said of it.
LEMMA NoPickHolds == ASSUME NEW rows PROVE ScopeHolds(rows, NoPick)
  BY DEF ScopeHolds, NoPick

\* The form without vehicles.
LEMMA ResetRowsIs ==
    ASSUME NEW g, FormIsSound(g)
    PROVE  /\ FormIsSound(ResetRows(g))
           /\ DOMAIN ResetRows(g).picks = DOMAIN g.picks
<1> DEFINE r == ResetRows(g)
<1>1. /\ DOMAIN r = FormFields /\ r.rows = <<EmptyRow(1)>>
      /\ r.picks = [c \in DOMAIN g.picks |->
                       [g.picks[c] EXCEPT !.stale = g.picks[c].scope # Whole, !.meant = {}]]
  BY DEF FormIsSound, ResetRows, FormFields
<1> HIDE DEF r
<1>2. ASSUME NEW c \in DOMAIN g.picks PROVE ScopeHolds(r.rows, r.picks[c])
  <2>1. DOMAIN g.picks[c] = {"scope", "meant", "stale"}
    BY DEF FormIsSound, ScopesHold, ScopeHolds
  <2> DEFINE p == g.picks[c]
             old == p.scope # Whole
  <2>2. r.picks[c] = [p EXCEPT !.stale = old, !.meant = {}]
    BY <1>1
  <2>3. old <=> p.scope # Whole
    OBVIOUS
  <2> HIDE DEF old, p
  <2>4. DOMAIN p = {"scope", "meant", "stale"}
    BY <2>1 DEF p
  <2>5. /\ DOMAIN r.picks[c] = {"scope", "meant", "stale"}
        /\ r.picks[c].scope = p.scope /\ r.picks[c].stale = old
    BY <2>2, <2>4
  <2> QED
    BY <2>3, <2>5, Zenon DEF ScopeHolds
<1>3. r.rows \in Seq(Rows) /\ TagsDiffer(r.rows)
  BY <1>1, EmptyRowIs
<1>4. DOMAIN r.picks = DOMAIN g.picks
  BY <1>1
<1>5. FormIsSound(r)
  BY <1>1, <1>2, <1>3, <1>4 DEF FormIsSound, ScopesHold
<1> QED
  BY <1>4, <1>5 DEF r

\* The variant and nothing else follows the vehicles on file.
LEMMA FollowMatchedIs ==
    ASSUME NEW f, NEW g, FormIsSound(g)
    PROVE  /\ FormIsSound(FollowMatched(f, g))
           /\ DOMAIN FollowMatched(f, g).picks = DOMAIN g.picks
<1>1. CASE FollowMatched(f, g) = g
  BY <1>1
<1>2. CASE FollowMatched(f, g) # g
  <2> DEFINE v == CHOOSE v \in MatchedVariants(g) : TRUE
             h == [g EXCEPT !.variant = v]
  <2>1. FollowMatched(f, g) = h
    BY <1>2 DEF FollowMatched
  <2> HIDE DEF v
  <2>2. DOMAIN h = FormFields /\ h.rows = g.rows /\ h.picks = g.picks
    BY DEF FormIsSound, FormFields
  <2> HIDE DEF h
  <2> QED
    BY <2>1, <2>2 DEF FormIsSound
<1> QED
  BY <1>1, <1>2

\* What is required is selected when that changes; else it is as it was.
LEMMA SelectRequiredIs ==
    ASSUME NEW f, NEW g, FormIsSound(g)
    PROVE  /\ FormIsSound(SelectRequired(f, g))
           /\ RequiredOf(SelectRequired(f, g)) = RequiredOf(g)
           /\ RequiredOf(g) # RequiredOf(f) => HasRequired(SelectRequired(f, g))
           /\ RequiredOf(g) = RequiredOf(f) => SelectRequired(f, g) = g
<1>1. CASE RequiredOf(g) = RequiredOf(f)
  BY <1>1 DEF SelectRequired
<1>2. CASE RequiredOf(g) # RequiredOf(f)
  <2> DEFINE req == RequiredOf(g)
             h == SelectRequired(f, g)
  <2>1. h = [g EXCEPT !.picks = [c \in DOMAIN @ \cup req |->
                                 IF c \in DOMAIN g.picks THEN g.picks[c] ELSE NoPick]]
    BY <1>2 DEF SelectRequired
  <2> HIDE DEF req, h
  <2>2. /\ DOMAIN h = FormFields /\ h.rows = g.rows /\ h.variant = g.variant /\ h.days = g.days
        /\ h.catalog = g.catalog
        /\ h.picks = [c \in DOMAIN g.picks \cup req |->
                        IF c \in DOMAIN g.picks THEN g.picks[c] ELSE NoPick]
    BY <2>1 DEF FormIsSound, FormFields
  <2>3. ScopesHold(h.rows, h.picks)
    BY <2>2, NoPickHolds DEF FormIsSound, ScopesHold
  <2>4. FormIsSound(h)
    BY <2>2, <2>3 DEF FormIsSound
  <2>5. RequiredOf(h) = req
    BY <2>2 DEF RequiredOf, FormCovers, Priced, req
  <2>6. DOMAIN h.picks = DOMAIN g.picks \cup req
    BY <2>2
  <2> QED
    BY <1>2, <2>4, <2>5, <2>6 DEF HasRequired, h, req
<1> QED
  BY <1>1, <1>2

\* A form that comes to rest after f was changed to g is sound if g is, and has
\* what is required if that is what was required of f, and g has it.
LEMMA SettleIs ==
    ASSUME NEW f, NEW g, FormIsSound(g), RequiredOf(f) \subseteq DOMAIN g.picks
    PROVE  FormIsSound(Settle(f, g)) /\ HasRequired(Settle(f, g))
<1> DEFINE own == IF g.party = f.party THEN g ELSE ResetRows(g)
           h == FollowMatched(f, own)
<1>1. FormIsSound(own) /\ DOMAIN own.picks = DOMAIN g.picks
  BY ResetRowsIs
<1>2. Settle(f, g) = SelectRequired(f, h)
  BY DEF Settle
<1> HIDE DEF own
<1>3. FormIsSound(h) /\ DOMAIN h.picks = DOMAIN g.picks
  BY <1>1, FollowMatchedIs
<1> HIDE DEF h
<1>4. CASE RequiredOf(h) = RequiredOf(f)
  BY <1>2, <1>3, <1>4, SelectRequiredIs DEF HasRequired
<1>5. CASE RequiredOf(h) # RequiredOf(f)
  BY <1>2, <1>3, <1>5, SelectRequiredIs
<1> QED
  BY <1>4, <1>5

\* The same, when neither the party nor the vehicles changed: then the variant
\* does not follow, and what is required is known.
LEMMA SettleInPlaceIs ==
    ASSUME NEW f, NEW g, FormIsSound(g), g.party = f.party, g.rows = f.rows,
           RequiredOf(g) = RequiredOf(f) => RequiredOf(g) \subseteq DOMAIN g.picks
    PROVE  FormIsSound(Settle(f, g)) /\ HasRequired(Settle(f, g))
<1>1. MatchedVariants(g) = MatchedVariants(f)
  BY DEF MatchedVariants
<1>2. Settle(f, g) = SelectRequired(f, g)
  BY <1>1 DEF Settle, FollowMatched
<1>3. CASE RequiredOf(g) = RequiredOf(f)
  BY <1>2, <1>3, SelectRequiredIs DEF HasRequired
<1>4. CASE RequiredOf(g) # RequiredOf(f)
  BY <1>2, <1>4, SelectRequiredIs
<1> QED
  BY <1>3, <1>4

\* A function of 1 to n is a sequence.
LEMMA RowsAreSeq ==
    ASSUME NEW n \in Nat, NEW rows \in [1..n -> Rows]
    PROVE  rows \in Seq(Rows) /\ Len(rows) = n /\ DOMAIN rows = 1..n
  OBVIOUS

\* Rows that change and stay where they are.
LEMMA SameTags ==
    ASSUME NEW f, FormIsSound(f), NEW g, DOMAIN g = FormFields, g.rows \in Seq(Rows),
           g.picks = f.picks, DOMAIN g.rows = DOMAIN f.rows,
           \A i \in DOMAIN f.rows : g.rows[i].tag = f.rows[i].tag
    PROVE  FormIsSound(g)
<1>1. TagsDiffer(g.rows)
  BY DEF FormIsSound, TagsDiffer
<1>2. TagsOf(g.rows) = TagsOf(f.rows)
  BY DEF TagsOf
<1>3. \A m : {i \in DOMAIN g.rows : g.rows[i].tag \in m} = {i \in DOMAIN f.rows : f.rows[i].tag \in m}
  OBVIOUS
<1>4. ASSUME NEW pick, ScopeHolds(f.rows, pick) PROVE ScopeHolds(g.rows, pick)
  BY <1>2, <1>3, <1>4 DEF ScopeHolds
<1>5. ScopesHold(g.rows, g.picks)
  BY <1>4 DEF FormIsSound, ScopesHold
<1> QED
  BY <1>1, <1>5 DEF FormIsSound

\* What a render leaves, of a form whose vehicles are the same rows.
LEMMA RenderKeeps ==
    ASSUME FormInv, NEW g, FormIsSound(g), DOMAIN g.picks = DOMAIN form.picks, Render(g)
    PROVE  FormIsSound(form') /\ HasRequired(form')
<1>1. RequiredOf(form) \subseteq DOMAIN g.picks
  BY DEF FormInv, HasRequired
<1>2. FormIsSound(Settle(form, g)) /\ HasRequired(Settle(form, g))
  BY <1>1, SettleIs
<1> QED
  BY <1>2 DEF Render

\* A tag no row has, while there are fewer rows than tags.
LEMMA NewTagIs ==
    ASSUME NEW f, f.rows \in Seq(Rows), Len(f.rows) < MaxRows
    PROVE  NewTag(f) \in Nat /\ \A i \in DOMAIN f.rows : f.rows[i].tag # NewTag(f)
<1> DEFINE n == Len(f.rows)
           tags == TagsOf(f.rows)
<1>1. n \in Nat /\ DOMAIN f.rows = 1..n
  OBVIOUS
<1>2. tags = {f.rows[i].tag : i \in 1..n}
  BY <1>1 DEF TagsOf
<1>3. IsFiniteSet(1..n) /\ Cardinality(1..n) = n
  BY <1>1, FS_Interval
<1>4. IsFiniteSet(tags) /\ Cardinality(tags) <= n
  <2> DEFINE tagOf == [i \in 1..n |-> f.rows[i].tag]
  <2>1. tagOf \in Surjection(1..n, tags)
    BY <1>2 DEF Surjection
  <2> QED
    BY <1>3, <2>1, FS_Surjection
<1>5. IsFiniteSet(1..MaxRows) /\ Cardinality(1..MaxRows) = MaxRows
  BY IntakeAssumption, FS_Interval
<1>6. \E t \in 1..MaxRows : t \notin tags
  <2> SUFFICES ASSUME 1..MaxRows \subseteq tags PROVE FALSE
    OBVIOUS
  <2>1. Cardinality(1..MaxRows) <= Cardinality(tags)
    BY <1>4, FS_Subset
  <2>2. Cardinality(tags) \in Nat
    BY <1>4, FS_CardinalityType
  <2> QED
    BY <1>1, <1>4, <1>5, <2>1, <2>2, IntakeAssumption
<1>7. \E t \in 1..MaxRows : \A i \in DOMAIN f.rows : f.rows[i].tag # t
  BY <1>6 DEF TagsOf
<1>8. NewTag(f) \in 1..MaxRows /\ \A i \in DOMAIN f.rows : f.rows[i].tag # NewTag(f)
  BY <1>7 DEF NewTag
<1> QED
  BY <1>8

-----------------------------------------------------------------------------
(* The invariant of the form, handler by handler.                            *)

\* The form as it is opened: empty, or filled from a policy to renew.
LEMMA InitFormInv == ASSUME IntakeInit PROVE FormInv
<1>1. AskedIsSound
  BY DEF IntakeInit, AskedIsSound, Nothing
<1>2. ASSUME NEW a
      PROVE  FormIsSound(EmptyForm(a)) /\ RequiredOf(EmptyForm(a)) = {} /\ DOMAIN EmptyForm(a) = FormFields
  <2> DEFINE f == EmptyForm(a)
  <2>1. DOMAIN f = FormFields /\ f.rows = <<EmptyRow(1)>> /\ f.picks = << >> /\ f.variant = NoVariant
    BY DEF EmptyForm, FormFields, Nothing
  <2> HIDE DEF f
  <2>2. DOMAIN f.picks = {}
    BY <2>1
  <2>3. f.rows \in Seq(Rows) /\ TagsDiffer(f.rows)
    BY <2>1, EmptyRowIs
  <2>4. FormIsSound(f)
    BY <2>1, <2>2, <2>3 DEF FormIsSound, ScopesHold
  <2>5. RequiredOf(f) = {}
    BY <2>1 DEF RequiredOf, FormCovers
  <2> QED
    BY <2>1, <2>4, <2>5 DEF f
<1>3. ASSUME NEW a, NEW old \in Renewals
      PROVE  FormIsSound(Renewed(EmptyForm(a), old)) /\ HasRequired(Renewed(EmptyForm(a), old))
  <2> DEFINE f == EmptyForm(a)
             rows == [i \in DOMAIN old.plates |->
                         [plate |-> old.plates[i], match |-> "own", tag |-> i]]
             picks == [c \in old.covers |-> NoPick]
             g == [f EXCEPT !.party = old.client, !.variant = old.variant, !.days = old.days,
                            !.rows = rows, !.picks = picks]
  <2>1. Renewed(f, old) = SelectRequired(f, g)
    BY DEF Renewed
  <2>2. old.plates \in Seq(TypedPlates)
    BY IntakeAssumption
  <2>3. DOMAIN old.plates = 1..Len(old.plates) /\ Len(old.plates) \in Nat
    BY <2>2
  <2>4. rows \in [1..Len(old.plates) -> Rows] /\ \A i \in DOMAIN rows : rows[i].tag = i
    BY <2>2, <2>3 DEF Rows
  <2>5. rows \in Seq(Rows)
    BY <2>3, <2>4, RowsAreSeq
  <2>6. TagsDiffer(rows)
    BY <2>4 DEF TagsDiffer
  <2> HIDE DEF rows
  <2>7. ScopesHold(rows, picks)
    BY NoPickHolds DEF ScopesHold
  <2> HIDE DEF picks, f
  <2>8. DOMAIN f = FormFields /\ RequiredOf(f) = {}
    BY <1>2 DEF f
  <2>9. DOMAIN g = FormFields /\ g.rows = rows /\ g.picks = picks
    BY <2>8 DEF FormFields
  <2> HIDE DEF g
  <2>10. FormIsSound(g)
    BY <2>5, <2>6, <2>7, <2>9 DEF FormIsSound
  <2>11. FormIsSound(SelectRequired(f, g)) /\ HasRequired(SelectRequired(f, g))
    BY <2>8, <2>10, SelectRequiredIs DEF HasRequired
  <2> QED
    BY <2>1, <2>11 DEF f
<1>4. PICK a \in FilingAgents :
         form \in {EmptyForm(a)} \cup {Renewed(EmptyForm(a), old) : old \in Renewals}
  BY DEF IntakeInit
<1>5. FormIsSound(form) /\ HasRequired(form)
  <2>1. CASE form = EmptyForm(a)
    BY <1>2, <2>1 DEF HasRequired
  <2>2. ASSUME NEW old \in Renewals, form = Renewed(EmptyForm(a), old)
        PROVE  FormIsSound(form) /\ HasRequired(form)
    BY <1>3, <2>2
  <2> QED
    BY <1>4, <2>1, <2>2
<1> QED
  BY <1>1, <1>5 DEF FormInv

\* The agent, the prices and the party change, and no row or coverage.
LEMMA PartyKeeps ==
    ASSUME FormInv,
           \/ \E a \in FilingAgents : ChangeAgent(a)
           \/ \E q \in asked : CatalogAnswered(q)
           \/ \E client \in Clients \cup {Typed} : ChangeParty(client)
    PROVE  FormInv'
<1>1. DOMAIN form = FormFields
  BY DEF FormInv, FormIsSound
<1>2. ASSUME NEW g, DOMAIN g = FormFields, g.rows = form.rows, g.picks = form.picks, Render(g)
      PROVE  FormIsSound(form') /\ HasRequired(form')
  BY <1>2, RenderKeeps DEF FormInv, FormIsSound
<1>3. ASSUME NEW a \in FilingAgents, ChangeAgent(a) PROVE FormInv'
  <2> DEFINE g == [form EXCEPT !.agent = a, !.party = Typed]
  <2>1. Render(g) /\ asked' = asked \cup {[kind |-> "catalog", agent |-> a]} /\ conflict' = conflict
    BY <1>3 DEF ChangeAgent
  <2>2. DOMAIN g = FormFields /\ g.rows = form.rows /\ g.picks = form.picks
    BY <1>1 DEF FormFields
  <2> HIDE DEF g
  <2>3. AskedIsSound'
    BY <2>1 DEF FormInv, AskedIsSound
  <2> QED
    BY <1>2, <2>1, <2>2, <2>3 DEF FormInv
<1>4. ASSUME NEW q \in asked, CatalogAnswered(q) PROVE FormInv'
  <2> DEFINE g == [form EXCEPT !.catalog = q.agent]
  <2>1. Render(g) /\ asked' = asked \ {q} /\ conflict' = conflict
    BY <1>4 DEF CatalogAnswered
  <2>2. DOMAIN g = FormFields /\ g.rows = form.rows /\ g.picks = form.picks
    BY <1>1 DEF FormFields
  <2> HIDE DEF g
  <2>3. AskedIsSound'
    BY <2>1 DEF FormInv, AskedIsSound
  <2> QED
    BY <1>2, <2>1, <2>2, <2>3 DEF FormInv
<1>5. ASSUME NEW client, ChangeParty(client) PROVE FormInv'
  <2> DEFINE g == [form EXCEPT !.party = client]
  <2>1. Render(g) /\ UNCHANGED <<asked, conflict>>
    BY <1>5 DEF ChangeParty, Unasked
  <2>2. DOMAIN g = FormFields /\ g.rows = form.rows /\ g.picks = form.picks
    BY <1>1 DEF FormFields
  <2> HIDE DEF g
  <2>3. AskedIsSound'
    BY <2>1 DEF FormInv, AskedIsSound
  <2> QED
    BY <1>2, <2>1, <2>2, <2>3 DEF FormInv
<1> QED
  BY <1>3, <1>4, <1>5

\* Coverages change, and no vehicle: what is required is known at once.
LEMMA InPlaceKeeps ==
    ASSUME FormInv, NEW g, Render(g), UNCHANGED <<asked, conflict>>,
           DOMAIN g = FormFields, g.rows = form.rows, g.party = form.party,
           ScopesHold(form.rows, g.picks),
           RequiredOf(g) = RequiredOf(form) => RequiredOf(g) \subseteq DOMAIN g.picks
    PROVE  FormInv'
<1>1. FormIsSound(g)
  BY DEF FormInv, FormIsSound
<1>2. FormIsSound(Settle(form, g)) /\ HasRequired(Settle(form, g))
  BY <1>1, SettleInPlaceIs
<1>3. AskedIsSound'
  BY DEF FormInv, AskedIsSound
<1> QED
  BY <1>2, <1>3 DEF FormInv, Render

\* Another variant has no coverage selected and no period, so that nothing is
\* required of it yet.
LEMMA VariantKeeps == ASSUME FormInv, NEW v \in FormVariants, ChangeVariant(v) PROVE FormInv'
<1> DEFINE g == [form EXCEPT !.variant = v, !.days = NoDays, !.picks = Nothing]
<1>1. Render(g) /\ UNCHANGED <<asked, conflict>>
  BY DEF ChangeVariant, Unasked
<1>2. /\ DOMAIN g = FormFields /\ g.rows = form.rows /\ g.party = form.party
      /\ g.picks = << >> /\ g.variant = v /\ g.days = NoDays
  BY DEF FormInv, FormIsSound, FormFields, Nothing
<1> HIDE DEF g
<1>3. ScopesHold(form.rows, g.picks)
  <2>1. DOMAIN g.picks = {}
    BY <1>2
  <2> QED
    BY <2>1 DEF ScopesHold
<1>4. RequiredOf(g) = {}
  <2>1. FormCovers(g) \subseteq CoversOf[v]
    BY <1>2 DEF FormCovers
  <2>2. \A c \in CoversOf[v] : NoDays \notin DaysOf[c]
    BY IntakeAssumption
  <2> QED
    BY <1>2, <2>1, <2>2 DEF RequiredOf
<1> QED
  BY <1>1, <1>2, <1>3, <1>4, InPlaceKeeps

\* Another period keeps what is offered for it.
LEMMA PeriodKeeps == ASSUME FormInv, NEW days, TogglePeriod(days) PROVE FormInv'
<1> DEFINE next == IF days = form.days THEN NoDays ELSE days
           kept == {c \in DOMAIN form.picks \cap FormCovers(form) : next \in DaysOf[c]}
           picks == [c \in kept |-> form.picks[c]]
           g == [form EXCEPT !.days = next, !.picks = picks]
<1>1. Render(g) /\ UNCHANGED <<asked, conflict>>
  BY DEF TogglePeriod, Unasked
<1> HIDE DEF next
<1>2. ScopesHold(form.rows, picks)
  BY DEF FormInv, FormIsSound, ScopesHold
<1>3. DOMAIN picks = kept
  OBVIOUS
<1> HIDE DEF picks
<1>4. /\ DOMAIN g = FormFields /\ g.rows = form.rows /\ g.party = form.party
      /\ g.picks = picks /\ g.days = next /\ g.variant = form.variant
  BY DEF FormInv, FormIsSound, FormFields
<1> HIDE DEF g
<1>5. ASSUME RequiredOf(g) = RequiredOf(form), NEW c \in RequiredOf(g) PROVE c \in kept
  <2>1. c \in DOMAIN form.picks
    BY <1>5 DEF FormInv, HasRequired
  <2>2. c \in FormCovers(form) /\ next \in DaysOf[c]
    BY <1>4, <1>5 DEF RequiredOf, FormCovers
  <2> QED
    BY <2>1, <2>2
<1> QED
  BY <1>1, <1>2, <1>3, <1>4, <1>5, InPlaceKeeps

\* A coverage is selected, or one is not any more that need not be.
LEMMA CoverageKeeps == ASSUME FormInv, NEW c, ToggleCoverage(c) PROVE FormInv'
<1>1. UNCHANGED <<asked, conflict>> /\ c \notin RequiredOf(form)
  BY DEF ToggleCoverage, Unasked, MayToggle
<1>2. ASSUME NEW picks, ScopesHold(form.rows, picks), RequiredOf(form) \subseteq DOMAIN picks,
             Render([form EXCEPT !.picks = picks])
      PROVE  FormInv'
  <2> DEFINE g == [form EXCEPT !.picks = picks]
  <2>1. DOMAIN g = FormFields /\ g.rows = form.rows /\ g.party = form.party /\ g.picks = picks
    BY DEF FormInv, FormIsSound, FormFields
  <2>2. Render(g)
    BY <1>2
  <2> HIDE DEF g
  <2> QED
    BY <1>1, <1>2, <2>1, <2>2, InPlaceKeeps
<1>3. ScopesHold(form.rows, form.picks) /\ RequiredOf(form) \subseteq DOMAIN form.picks
  BY DEF FormInv, FormIsSound, HasRequired
<1>4. CASE c \in DOMAIN form.picks
  <2> DEFINE picks == Without(form.picks, c)
  <2>1. ScopesHold(form.rows, picks) /\ DOMAIN picks = DOMAIN form.picks \ {c}
    BY <1>3 DEF Without, ScopesHold
  <2>2. Render([form EXCEPT !.picks = picks])
    BY <1>4 DEF ToggleCoverage
  <2> HIDE DEF picks
  <2> QED
    BY <1>1, <1>2, <1>3, <2>1, <2>2
<1>5. CASE c \notin DOMAIN form.picks
  <2> DEFINE picks == Put(form.picks, c, NoPick)
  <2>1. ScopesHold(form.rows, picks) /\ DOMAIN picks = DOMAIN form.picks \cup {c}
    BY <1>3, NoPickHolds DEF Put, ScopesHold
  <2>2. Render([form EXCEPT !.picks = picks])
    BY <1>5 DEF ToggleCoverage
  <2> HIDE DEF picks
  <2> QED
    BY <1>2, <1>3, <2>1, <2>2
<1> QED
  BY <1>4, <1>5

\* A coverage is limited to some of the rows there are.
LEMMA ScopeKeeps ==
    ASSUME FormInv, NEW c \in DOMAIN form.picks, NEW scope \in {Whole} \cup SUBSET DOMAIN form.rows,
           ScopeCoverage(c, scope)
    PROVE  FormInv'
<1> DEFINE pick == [scope |-> scope, stale |-> FALSE,
                    meant |-> IF scope = Whole THEN {} ELSE {form.rows[i].tag : i \in scope}]
           picks == [form.picks EXCEPT ![c] = pick]
           g == [form EXCEPT !.picks = picks]
<1>1. Render(g) /\ UNCHANGED <<asked, conflict>>
  BY DEF ScopeCoverage, Unasked
<1>2. TagsDiffer(form.rows)
  BY DEF FormInv, FormIsSound
<1>3. ScopeHolds(form.rows, pick)
  <2>1. CASE scope = Whole
    BY <2>1 DEF ScopeHolds
  <2>2. CASE scope # Whole
    <3>1. scope \subseteq DOMAIN form.rows
      BY <2>2
    <3>2. pick.meant = {form.rows[i].tag : i \in scope} /\ pick.scope = scope
      BY <2>2
    <3> HIDE DEF pick
    <3>3. pick.meant \subseteq TagsOf(form.rows)
      BY <3>1, <3>2 DEF TagsOf
    <3>4. pick.scope = {i \in DOMAIN form.rows : form.rows[i].tag \in pick.meant}
      BY <1>2, <3>1, <3>2 DEF TagsDiffer
    <3>5. DOMAIN pick = {"scope", "meant", "stale"}
      BY DEF pick
    <3> QED
      BY <3>3, <3>4, <3>5 DEF ScopeHolds
  <2> QED
    BY <2>1, <2>2
<1> HIDE DEF pick
<1>4. ScopesHold(form.rows, picks) /\ DOMAIN picks = DOMAIN form.picks
  BY <1>3 DEF FormInv, FormIsSound, ScopesHold
<1> HIDE DEF picks
<1>5. DOMAIN g = FormFields /\ g.rows = form.rows /\ g.party = form.party /\ g.picks = picks
  BY DEF FormInv, FormIsSound, FormFields
<1> HIDE DEF g
<1> QED
  BY <1>1, <1>4, <1>5, InPlaceKeeps DEF FormInv, HasRequired

\* A vehicle more has a tag no coverage means.
LEMMA AddVehicleKeeps == ASSUME FormInv, AddVehicle PROVE FormInv'
<1> DEFINE t == NewTag(form)
           rows == Append(form.rows, EmptyRow(t))
           g == [form EXCEPT !.rows = rows]
           n == Len(form.rows)
<1>1. Render(g) /\ UNCHANGED <<asked, conflict>> /\ n < MaxRows
  BY DEF AddVehicle, Unasked
<1>2. form.rows \in Seq(Rows) /\ TagsDiffer(form.rows) /\ ScopesHold(form.rows, form.picks)
  BY DEF FormInv, FormIsSound
<1>3. n \in Nat /\ DOMAIN form.rows = 1..n
  BY <1>2
<1>4. t \in Nat /\ \A i \in 1..n : form.rows[i].tag # t
  BY <1>1, <1>2, <1>3, NewTagIs
<1> HIDE DEF t
<1>5. EmptyRow(t) \in Rows /\ EmptyRow(t).tag = t
  BY <1>4, EmptyRowIs
<1>6. /\ rows \in Seq(Rows) /\ DOMAIN rows = 1..(n + 1)
      /\ \A i \in 1..n : rows[i] = form.rows[i]
      /\ rows[n + 1] = EmptyRow(t)
  BY <1>2, <1>3, <1>5
<1> HIDE DEF rows, n
<1>7. TagsDiffer(rows)
  <2> SUFFICES ASSUME NEW i \in 1..(n + 1), NEW j \in 1..(n + 1), rows[i].tag = rows[j].tag
               PROVE  i = j
    BY <1>6 DEF TagsDiffer
  <2>1. (i \in 1..n \/ i = n + 1) /\ (j \in 1..n \/ j = n + 1)
    BY <1>3
  <2> QED
    BY <1>2, <1>3, <1>4, <1>5, <1>6, <2>1 DEF TagsDiffer
<1>8. ASSUME NEW pick, ScopeHolds(form.rows, pick) PROVE ScopeHolds(rows, pick)
  <2>1. TagsOf(form.rows) \subseteq TagsOf(rows) /\ t \notin TagsOf(form.rows)
    BY <1>3, <1>4, <1>6 DEF TagsOf
  <2>2. ASSUME pick.meant \subseteq TagsOf(form.rows)
        PROVE  {i \in DOMAIN rows : rows[i].tag \in pick.meant}
                   = {i \in DOMAIN form.rows : form.rows[i].tag \in pick.meant}
    <3>1. \A i \in 1..(n + 1) : i \in 1..n \/ i = n + 1
      BY <1>3
    <3>2. 1..n \subseteq 1..(n + 1)
      BY <1>3
    <3>3. rows[n + 1].tag \notin pick.meant
      BY <1>5, <1>6, <2>1, <2>2
    <3> QED
      BY <1>3, <1>6, <3>1, <3>2, <3>3
  <2> QED
    BY <1>8, <2>1, <2>2 DEF ScopeHolds
<1>9. ScopesHold(rows, form.picks)
  BY <1>2, <1>8 DEF ScopesHold
<1>10. DOMAIN g = FormFields /\ g.rows = rows /\ g.picks = form.picks
  BY DEF FormInv, FormIsSound, FormFields
<1> HIDE DEF g
<1>11. FormIsSound(g)
  BY <1>6, <1>7, <1>9, <1>10 DEF FormIsSound
<1>12. AskedIsSound'
  BY <1>1 DEF FormInv, AskedIsSound
<1> QED
  BY <1>1, <1>10, <1>11, <1>12, RenderKeeps DEF FormInv

\* Rows after one that is removed move up, and the coverages limited to them
\* follow.
LEMMA RemoveVehicleKeeps ==
    ASSUME FormInv, NEW i \in DOMAIN form.rows, RemoveVehicle(i)
    PROVE  FormInv'
<1> DEFINE gone == form.rows[i].tag
           n == Len(form.rows)
           rows == RowsWithout(form.rows, i)
           picks == [c \in DOMAIN form.picks |->
                       [form.picks[c] EXCEPT !.scope = ShiftedScope(form.picks[c].scope, i),
                                             !.meant = form.picks[c].meant \ {gone}]]
           g == [form EXCEPT !.rows = rows, !.picks = picks]
<1>1. Render(g) /\ UNCHANGED <<asked, conflict>> /\ n > 1
  BY DEF RemoveVehicle, Unasked
<1>2. form.rows \in Seq(Rows) /\ TagsDiffer(form.rows) /\ ScopesHold(form.rows, form.picks)
  BY DEF FormInv, FormIsSound
<1>3. n \in Nat /\ DOMAIN form.rows = 1..n /\ i \in 1..n
  BY <1>2
<1>4. /\ rows \in Seq(Rows) /\ DOMAIN rows = 1..(n - 1)
      /\ \A j \in 1..(n - 1) : rows[j] = IF j < i THEN form.rows[j] ELSE form.rows[j + 1]
  <2>1. rows = [j \in 1..(n - 1) |-> IF j < i THEN form.rows[j] ELSE form.rows[j + 1]]
    BY DEF RowsWithout
  <2>2. n - 1 \in Nat /\ \A j \in 1..(n - 1) : j \in 1..n /\ j + 1 \in 1..n
    BY <1>1, <1>3
  <2>3. \A j \in 1..n : form.rows[j] \in Rows
    BY <1>2, <1>3
  <2>4. rows \in [1..(n - 1) -> Rows]
    BY <2>1, <2>2, <2>3
  <2> HIDE DEF rows, n
  <2> QED
    BY <2>1, <2>2, <2>4, RowsAreSeq
<1> HIDE DEF rows, n
<1> DEFINE Before(j) == IF j < i THEN j ELSE j + 1
<1>5. /\ \A j \in 1..(n - 1) : Before(j) \in 1..n /\ Before(j) # i /\ rows[j] = form.rows[Before(j)]
      /\ \A j, k \in 1..(n - 1) : Before(j) = Before(k) => j = k
      /\ \A k \in 1..n : k # i => \E j \in 1..(n - 1) : k = Before(j)
  <2>1. ASSUME NEW j \in 1..(n - 1)
        PROVE  Before(j) \in 1..n /\ Before(j) # i /\ rows[j] = form.rows[Before(j)]
    BY <1>3, <1>4
  <2>2. ASSUME NEW j \in 1..(n - 1), NEW k \in 1..(n - 1), Before(j) = Before(k)
        PROVE  j = k
    BY <1>3, <2>2
  <2>3. ASSUME NEW k \in 1..n, k # i PROVE \E j \in 1..(n - 1) : k = Before(j)
    <3>1. CASE k < i
      <4>1. k \in 1..(n - 1) /\ k = Before(k)
        BY <1>3, <3>1
      <4> QED
        BY <4>1
    <3>2. CASE k > i
      <4>1. k - 1 \in 1..(n - 1) /\ k = Before(k - 1)
        BY <1>3, <3>2
      <4> QED
        BY <4>1
    <3> QED
      BY <1>3, <2>3, <3>1, <3>2
  <2> QED
    BY <2>1, <2>2, <2>3
<1>6. TagsDiffer(rows)
  <2> SUFFICES ASSUME NEW j \in 1..(n - 1), NEW k \in 1..(n - 1), rows[j].tag = rows[k].tag
               PROVE  j = k
    BY <1>4 DEF TagsDiffer
  <2>1. Before(j) \in 1..n /\ Before(k) \in 1..n /\ form.rows[Before(j)].tag = form.rows[Before(k)].tag
    BY <1>5
  <2> HIDE DEF Before
  <2>2. Before(j) = Before(k)
    BY <1>2, <1>3, <2>1 DEF TagsDiffer
  <2> QED
    BY <1>5, <2>2
<1>7. ASSUME NEW c \in DOMAIN form.picks PROVE ScopeHolds(rows, picks[c])
  <2> DEFINE p == form.picks[c]
             q == picks[c]
  <2>1. DOMAIN p = {"scope", "meant", "stale"}
    BY <1>2 DEF ScopesHold, ScopeHolds
  <2>2. q = [p EXCEPT !.scope = ShiftedScope(p.scope, i), !.meant = p.meant \ {gone}]
    OBVIOUS
  <2> SUFFICES ScopeHolds(rows, q)
    OBVIOUS
  <2> HIDE DEF p, q
  <2>3. /\ DOMAIN q = {"scope", "meant", "stale"}
        /\ q.scope = ShiftedScope(p.scope, i) /\ q.meant = p.meant \ {gone}
        /\ q.stale = p.stale
    BY <2>1, <2>2
  <2>4. CASE p.scope = Whole
    BY <2>3, <2>4 DEF ShiftedScope, ScopeHolds
  <2>5. CASE p.scope # Whole /\ ~p.stale
    <3>1. /\ p.meant \subseteq TagsOf(form.rows)
          /\ p.scope = {k \in 1..n : form.rows[k].tag \in p.meant}
      BY <1>2, <1>3, <2>5 DEF ScopesHold, ScopeHolds, p
    <3>2. q.scope = {IF k > i THEN k - 1 ELSE k : k \in p.scope \ {i}}
      BY <2>3, <2>5 DEF ShiftedScope
    <3>3. q.meant \subseteq TagsOf(rows)
      <4> SUFFICES ASSUME NEW m \in p.meant, m # gone PROVE \E j \in 1..(n - 1) : rows[j].tag = m
        BY <1>4, <2>3 DEF TagsOf
      <4>1. PICK k \in 1..n : form.rows[k].tag = m
        BY <1>3, <3>1 DEF TagsOf
      <4>2. k # i
        BY <4>1
      <4>3. PICK j \in 1..(n - 1) : k = Before(j)
        BY <1>5, <4>2
      <4> HIDE DEF Before
      <4> QED
        BY <1>5, <4>1, <4>3
    <3>4. ASSUME NEW k \in p.scope \ {i}
          PROVE  (IF k > i THEN k - 1 ELSE k) \in {j \in 1..(n - 1) : rows[j].tag \in q.meant}
      <4>1. k \in 1..n /\ form.rows[k].tag \in p.meant /\ k # i
        BY <3>1, <3>4
      <4>2. form.rows[k].tag # gone
        BY <1>2, <1>3, <4>1 DEF TagsDiffer
      <4> DEFINE j == IF k > i THEN k - 1 ELSE k
      <4>3. j \in 1..(n - 1) /\ Before(j) = k
        BY <1>3, <4>1
      <4> HIDE DEF j, Before
      <4>4. rows[j].tag \in q.meant
        BY <1>5, <2>3, <4>1, <4>2, <4>3
      <4> QED
        BY <4>3, <4>4 DEF j
    <3>5. ASSUME NEW j \in 1..(n - 1), rows[j].tag \in q.meant
          PROVE  \E k \in p.scope \ {i} : j = IF k > i THEN k - 1 ELSE k
      <4> DEFINE k == Before(j)
      <4>1. k \in 1..n /\ k # i /\ j = IF k > i THEN k - 1 ELSE k
        BY <1>3
      <4> HIDE DEF k
      <4>2. form.rows[k].tag \in p.meant
        BY <1>5, <2>3, <3>5 DEF k
      <4> QED
        BY <3>1, <4>1, <4>2
    <3>6. q.scope = {j \in DOMAIN rows : rows[j].tag \in q.meant}
      BY <1>4, <3>2, <3>4, <3>5
    <3> QED
      BY <2>3, <3>3, <3>6 DEF ScopeHolds
  <2>6. CASE p.stale
    BY <2>3, <2>6 DEF ScopeHolds
  <2> QED
    BY <2>4, <2>5, <2>6
<1>8. DOMAIN picks = DOMAIN form.picks
  OBVIOUS
<1> HIDE DEF picks
<1>9. DOMAIN g = FormFields /\ g.rows = rows /\ g.picks = picks
  BY DEF FormInv, FormIsSound, FormFields
<1> HIDE DEF g
<1>10. FormIsSound(g)
  BY <1>4, <1>6, <1>7, <1>8, <1>9 DEF FormIsSound, ScopesHold
<1>11. AskedIsSound'
  BY <1>1 DEF FormInv, AskedIsSound
<1> QED
  BY <1>1, <1>8, <1>9, <1>10, <1>11, RenderKeeps DEF FormInv

\* A row that is changed, or none.
LEMMA RowChanged ==
    ASSUME FormInv, NEW g, NEW i, NEW rows,
           DOMAIN g = FormFields, g.rows = rows, g.picks = form.picks,
           rows = [j \in DOMAIN form.rows |-> IF j = i THEN rows[i] ELSE form.rows[j]],
           i \in DOMAIN form.rows => rows[i] \in Rows /\ rows[i].tag = form.rows[i].tag,
           Render(g)
    PROVE  FormIsSound(form') /\ HasRequired(form')
<1> DEFINE n == Len(form.rows)
<1>1. form.rows \in Seq(Rows)
  BY DEF FormInv, FormIsSound
<1>2. n \in Nat /\ DOMAIN form.rows = 1..n /\ \A j \in 1..n : form.rows[j] \in Rows
  BY <1>1
<1> HIDE DEF n
<1>3. rows \in [1..n -> Rows] /\ \A j \in 1..n : rows[j].tag = form.rows[j].tag
  BY <1>2
<1>4. rows \in Seq(Rows) /\ DOMAIN rows = 1..n
  BY <1>2, <1>3, RowsAreSeq
<1>5. FormIsSound(g)
  BY <1>2, <1>3, <1>4, SameTags DEF FormInv
<1> QED
  BY <1>5, RenderKeeps

\* A plate is typed, or one of the party's vehicles chosen.
LEMMA PlateKeeps ==
    ASSUME FormInv, NEW i \in DOMAIN form.rows, NEW plate \in TypedPlates,
           TypePlate(i, plate) \/ ChooseVehicle(i, plate)
    PROVE  FormInv'
<1>1. form.rows[i] \in Rows
  BY DEF FormInv, FormIsSound
<1>2. ASSUME NEW row, row \in Rows, row.tag = form.rows[i].tag,
             Render([form EXCEPT !.rows = [form.rows EXCEPT ![i] = row]])
      PROVE  FormIsSound(form') /\ HasRequired(form')
  <2> DEFINE rows == [form.rows EXCEPT ![i] = row]
             g == [form EXCEPT !.rows = rows]
  <2>1. rows[i] = row
    OBVIOUS
  <2>2. rows = [j \in DOMAIN form.rows |-> IF j = i THEN rows[i] ELSE form.rows[j]]
    OBVIOUS
  <2>3. Render(g)
    BY <1>2
  <2> HIDE DEF rows
  <2>4. DOMAIN g = FormFields /\ g.rows = rows /\ g.picks = form.picks
    BY DEF FormInv, FormIsSound, FormFields
  <2> HIDE DEF g
  <2> QED
    BY <1>2, <2>1, <2>2, <2>3, <2>4, RowChanged
<1>3. UNCHANGED <<asked, conflict>>
  BY DEF TypePlate, ChooseVehicle, Unasked
<1>4. CASE TypePlate(i, plate)
  <2> DEFINE row == [form.rows[i] EXCEPT !.plate = plate]
  <2>1. row \in Rows /\ row.tag = form.rows[i].tag
    BY <1>1 DEF Rows
  <2>2. Render([form EXCEPT !.rows = [form.rows EXCEPT ![i] = row]])
    BY <1>4 DEF TypePlate
  <2> HIDE DEF row
  <2> QED
    BY <1>2, <1>3, <2>1, <2>2 DEF FormInv, AskedIsSound
<1>5. CASE ChooseVehicle(i, plate)
  <2> DEFINE row == [form.rows[i] EXCEPT !.plate = plate, !.match = "own"]
  <2>1. row \in Rows /\ row.tag = form.rows[i].tag
    BY <1>1 DEF Rows
  <2>2. Render([form EXCEPT !.rows = [form.rows EXCEPT ![i] = row]])
    BY <1>5 DEF ChooseVehicle
  <2> HIDE DEF row
  <2> QED
    BY <1>2, <1>3, <2>1, <2>2 DEF FormInv, AskedIsSound
<1> QED
  BY <1>4, <1>5

\* A plate that is left is looked up.
LEMMA LeaveKeeps ==
    ASSUME FormInv, NEW i \in DOMAIN form.rows, LeavePlate(i)
    PROVE  FormInv'
<1>1. form.rows[i] \in Rows
  BY DEF FormInv, FormIsSound
<1>2. form.rows[i].plate \in TypedPlates
  BY <1>1 DEF LeavePlate, Rows
<1>3. /\ asked' = asked \cup {[kind |-> "plate", row |-> i, plate |-> form.rows[i].plate, party |-> form.party]}
      /\ UNCHANGED <<form, conflict>>
  BY DEF LeavePlate
<1>4. AskedIsSound'
  BY <1>2, <1>3 DEF FormInv, AskedIsSound
<1> QED
  BY <1>3, <1>4 DEF FormInv, FormIsSound, HasRequired

\* The row of a plate that was looked up, if it is still there, is a vehicle on
\* file from then on.
LEMMA MatchIs ==
    ASSUME FormInv, NEW i, NEW plate \in TypedPlates, NEW how \in {"own", "take"}, Match(i, plate, how)
    PROVE  FormIsSound(form') /\ HasRequired(form')
<1> DEFINE rows == [j \in DOMAIN form.rows |->
                      IF j = i THEN [form.rows[j] EXCEPT !.plate = plate, !.match = how] ELSE form.rows[j]]
           g == [form EXCEPT !.rows = rows]
<1>1. Render(g)
  BY DEF Match
<1>2. i \in DOMAIN form.rows => rows[i] \in Rows /\ rows[i].tag = form.rows[i].tag
  <2> SUFFICES ASSUME i \in DOMAIN form.rows
               PROVE  rows[i] \in Rows /\ rows[i].tag = form.rows[i].tag
    OBVIOUS
  <2>1. form.rows[i] \in Rows
    BY DEF FormInv, FormIsSound
  <2>2. rows[i] = [form.rows[i] EXCEPT !.plate = plate, !.match = how]
    OBVIOUS
  <2> HIDE DEF rows
  <2> QED
    BY <2>1, <2>2 DEF Rows
<1>3. rows = [j \in DOMAIN form.rows |-> IF j = i THEN rows[i] ELSE form.rows[j]]
  OBVIOUS
<1> HIDE DEF rows
<1>4. DOMAIN g = FormFields /\ g.rows = rows /\ g.picks = form.picks
  BY DEF FormInv, FormIsSound, FormFields
<1> HIDE DEF g
<1> QED
  BY <1>1, <1>2, <1>3, <1>4, RowChanged

\* A row that is cleared keeps its tag.
LEMMA ClearRowIs ==
    ASSUME FormInv, NEW i, ClearRow(i)
    PROVE  FormIsSound(form') /\ HasRequired(form')
<1> DEFINE rows == [j \in DOMAIN form.rows |->
                      IF j = i THEN EmptyRow(form.rows[j].tag) ELSE form.rows[j]]
           g == [form EXCEPT !.rows = rows]
<1>1. Render(g)
  BY DEF ClearRow
<1>2. i \in DOMAIN form.rows => rows[i] \in Rows /\ rows[i].tag = form.rows[i].tag
  <2> SUFFICES ASSUME i \in DOMAIN form.rows
               PROVE  rows[i] \in Rows /\ rows[i].tag = form.rows[i].tag
    OBVIOUS
  <2>1. form.rows[i] \in Rows
    BY DEF FormInv, FormIsSound
  <2>2. rows[i] = EmptyRow(form.rows[i].tag) /\ form.rows[i].tag \in Nat
    BY <2>1 DEF Rows
  <2> HIDE DEF rows
  <2> QED
    BY <2>2, EmptyRowIs
<1>3. rows = [j \in DOMAIN form.rows |-> IF j = i THEN rows[i] ELSE form.rows[j]]
  OBVIOUS
<1> HIDE DEF rows
<1>4. DOMAIN g = FormFields /\ g.rows = rows /\ g.picks = form.picks
  BY DEF FormInv, FormIsSound, FormFields
<1> HIDE DEF g
<1> QED
  BY <1>1, <1>2, <1>3, <1>4, RowChanged

\* What was asked of a plate is answered: the row is matched, or the agent is
\* asked what to do.
LEMMA MatchKeeps ==
    ASSUME FormInv,
           \/ \E q \in asked : PlateAnswered(q)
           \/ ConfirmMatch \/ DeclineMatch
           \/ \E i \in DOMAIN form.rows : UseDifferentVehicle(i)
    PROVE  FormInv'
<1>1. ASSUME NEW q \in asked, PlateAnswered(q) PROVE FormInv'
  <2>1. asked' = asked \ {q} /\ q.plate \in TypedPlates
    BY <1>1 DEF PlateAnswered, FormInv, AskedIsSound
  <2>2. CASE UNCHANGED <<form, conflict>>
    BY <2>1, <2>2 DEF FormInv, FormIsSound, HasRequired, AskedIsSound
  <2>3. CASE Match(q.row, q.plate, "own") /\ UNCHANGED conflict
    BY <2>1, <2>3, MatchIs DEF FormInv, AskedIsSound
  <2>4. CASE conflict' = <<q.row, q.plate>> /\ UNCHANGED form
    BY <2>1, <2>4 DEF FormInv, FormIsSound, HasRequired, AskedIsSound
  <2> QED
    BY <1>1, <2>2, <2>3, <2>4 DEF PlateAnswered
<1>2. CASE ConfirmMatch
  <2>1. conflict[2] \in TypedPlates
    BY <1>2 DEF ConfirmMatch, FormInv, AskedIsSound
  <2>2. FormIsSound(form') /\ HasRequired(form')
    BY <1>2, <2>1, MatchIs DEF ConfirmMatch
  <2> QED
    BY <1>2, <2>2 DEF ConfirmMatch, FormInv, AskedIsSound
<1>3. CASE DeclineMatch
  <2>1. FormIsSound(form') /\ HasRequired(form')
    BY <1>3, ClearRowIs DEF DeclineMatch
  <2> QED
    BY <1>3, <2>1 DEF DeclineMatch, FormInv, AskedIsSound
<1>4. ASSUME NEW i \in DOMAIN form.rows, UseDifferentVehicle(i) PROVE FormInv'
  <2>1. FormIsSound(form') /\ HasRequired(form')
    BY <1>4, ClearRowIs DEF UseDifferentVehicle
  <2> QED
    BY <1>4, <2>1 DEF UseDifferentVehicle, Unasked, FormInv, AskedIsSound
<1> QED
  BY <1>1, <1>2, <1>3, <1>4

\* The preview leaves the form alone; once it is saved the form is empty.
LEMMA SaveKeeps ==
    ASSUME FormInv, OpenPreview \/ ClosePreview \/ Confirm \/ PartySaved \/ FilingSaved \/ UNCHANGED intakeVars
    PROVE  FormInv'
<1>1. CASE UNCHANGED <<form, asked, conflict>>
  BY <1>1 DEF FormInv, FormIsSound, HasRequired, AskedIsSound
<1>2. ASSUME NEW party,
             form' = [EmptyForm(form.agent) EXCEPT !.catalog = form.catalog, !.party = party]
      PROVE  FormIsSound(form') /\ HasRequired(form')
  <2> DEFINE f == EmptyForm(form.agent)
  <2>1. /\ DOMAIN f = FormFields /\ f.rows = <<EmptyRow(1)>> /\ f.picks = << >> /\ f.variant = NoVariant
    BY DEF EmptyForm, FormFields, Nothing
  <2> HIDE DEF f
  <2>2. /\ DOMAIN form' = FormFields /\ form'.rows = <<EmptyRow(1)>> /\ form'.picks = << >>
        /\ form'.variant = NoVariant
    BY <1>2, <2>1 DEF FormFields, f
  <2>3. form'.rows \in Seq(Rows) /\ TagsDiffer(form'.rows)
    BY <2>2, EmptyRowIs
  <2>4. DOMAIN form'.picks = {}
    BY <2>2
  <2>5. FormIsSound(form')
    BY <2>2, <2>3, <2>4 DEF FormIsSound, ScopesHold
  <2>6. RequiredOf(form') = {}
    BY <2>2 DEF RequiredOf, FormCovers
  <2> QED
    BY <2>5, <2>6 DEF HasRequired
<1>3. CASE FilingSaved
  <2>1. CASE UNCHANGED <<form, asked, conflict>>
    BY <1>1, <2>1
  <2>2. CASE /\ form' = [EmptyForm(form.agent) EXCEPT
                        !.catalog = form.catalog,
                        !.party = IF form.party = Typed THEN Added ELSE form.party]
             /\ UNCHANGED <<asked, conflict>>
    BY <1>2, <2>2 DEF FormInv, AskedIsSound
  <2> QED
    BY <1>3, <2>1, <2>2 DEF FilingSaved
<1> QED
  BY <1>1, <1>3 DEF OpenPreview, ClosePreview, Confirm, PartySaved, intakeVars

\* Every handler of the form, and every answer to it.
LEMMA StepFormInv == ASSUME FormInv, [IntakeNext]_intakeVars PROVE FormInv'
<1>1. CASE UseForm
  <2>1. CASE \/ \E a \in FilingAgents : ChangeAgent(a)
             \/ \E client \in Clients \cup {Typed} : ChangeParty(client)
    BY <2>1, PartyKeeps
  <2>2. CASE \E v \in FormVariants : ChangeVariant(v)
    BY <2>2, VariantKeeps
  <2>3. CASE \E days \in UNION {DaysOf[c] : c \in DOMAIN DaysOf} : TogglePeriod(days)
    BY <2>3, PeriodKeeps
  <2>4. CASE \E c \in FormCovers(form) : ToggleCoverage(c)
    BY <2>4, CoverageKeeps
  <2>5. CASE \E c \in DOMAIN form.picks, scope \in {Whole} \cup SUBSET DOMAIN form.rows : ScopeCoverage(c, scope)
    BY <2>5, ScopeKeeps
  <2>6. CASE AddVehicle
    BY <2>6, AddVehicleKeeps
  <2>7. ASSUME NEW i \in DOMAIN form.rows,
               \/ RemoveVehicle(i) \/ LeavePlate(i) \/ UseDifferentVehicle(i)
               \/ \E plate \in TypedPlates : TypePlate(i, plate) \/ ChooseVehicle(i, plate)
        PROVE  FormInv'
    BY <2>7, RemoveVehicleKeeps, LeaveKeeps, MatchKeeps, PlateKeeps
  <2>8. CASE ConfirmMatch \/ DeclineMatch
    BY <2>8, MatchKeeps
  <2>9. CASE OpenPreview \/ ClosePreview \/ Confirm
    BY <2>9, SaveKeeps
  <2> QED
    BY <1>1, <2>1, <2>2, <2>3, <2>4, <2>5, <2>6, <2>7, <2>8, <2>9 DEF UseForm
<1>2. CASE ServerAnswers
  BY <1>2, PartyKeeps, MatchKeeps, SaveKeeps DEF ServerAnswers
<1>3. CASE UNCHANGED intakeVars
  BY <1>3, SaveKeeps
<1> QED
  BY <1>1, <1>2, <1>3 DEF IntakeNext

\* A coverage that was limited to some vehicles is for those, whatever rows are
\* removed, added, matched or cleared, until the party changes (removeVehicle,
\* shiftVehicleIndicesAfterRemoval in QuotationCreator.jsx, PolicyApplication.jsx).
THEOREM ScopesStayWithTheirVehicles == IntakeSpec => []ScopesFollowTheirVehicles
<1>1. IntakeInit => FormInv
  BY InitFormInv
<1>2. FormInv /\ [IntakeNext]_intakeVars => FormInv'
  BY StepFormInv
<1>3. FormInv => ScopesFollowTheirVehicles
  BY DEF FormInv, FormIsSound, ScopesHold, ScopeHolds, ScopesFollowTheirVehicles
<1> QED
  BY <1>1, <1>2, <1>3, PTL DEF IntakeSpec

\* What is required of the variant, for the period, at the prices shown, is
\* selected, however the four change (requiredCoverages and the effect that
\* selects them in QuotationCreator.jsx, PolicyApplication.jsx).
THEOREM RequiredAreSelected == IntakeSpec => []RequiredStaySelected
<1>1. IntakeInit => FormInv
  BY InitFormInv
<1>2. FormInv /\ [IntakeNext]_intakeVars => FormInv'
  BY StepFormInv
<1>3. FormInv => RequiredStaySelected
  BY DEF FormInv, HasRequired, RequiredStaySelected
<1> QED
  BY <1>1, <1>2, <1>3, PTL DEF IntakeSpec

-----------------------------------------------------------------------------
(* The list by priority: what its queries return.                           *)

Members(s, filter) == {n \in Filed : standing[n] = s /\ s \in filter}

\* What a query has first of two.
Comes(s) == {d \in Nat \X Nat : IF s = "pending" THEN d[1] < d[2] ELSE d[1] > d[2]}

\* The smaller and the larger of two numbers.
LEMMA OfTwo ==
    ASSUME NEW a \in Int, NEW b \in Int
    PROVE  /\ Min({a, b}) = IF a <= b THEN a ELSE b
           /\ Max({a, b}) = IF a <= b THEN b ELSE a
BY DEF Min, Max

\* A bucket is what there is of it, each once, in its order.
LEMMA BucketLists ==
    ASSUME standing \in Seq(Standings), NEW s \in Standings, NEW filter
    PROVE  /\ Members(s, filter) \subseteq Nat /\ IsFiniteSet(Members(s, filter))
           /\ Cardinality(Members(s, filter)) \in Nat
           /\ StrictOrder(Comes(s), Members(s, filter))
           /\ ListsInOrder(Bucket(s, filter), Members(s, filter), Comes(s))
           /\ Bucket(s, filter) \in Seq(Members(s, filter))
           /\ Len(Bucket(s, filter)) = Cardinality(Members(s, filter))
<1> DEFINE M == Members(s, filter)
           order == Comes(s)
           list == Bucket(s, filter)
           n == Cardinality(M)
<1>1. M \subseteq Nat /\ IsFiniteSet(M)
  <2>1. Filed = 1..Len(standing) /\ Len(standing) \in Nat
    BY DEF Filed
  <2>2. IsFiniteSet(1..Len(standing))
    BY <2>1, FS_Interval
  <2> QED
    BY <2>1, <2>2, FS_Subset DEF Members
<1>2. n \in Nat
  BY <1>1, FS_CardinalityType
<1>3. StrictOrder(order, M)
  <2> HIDE DEF M
  <2> QED
    BY <1>1 DEF StrictOrder, Comes
<1>4. list = [k \in 1..n |-> CHOOSE i \in M : Cardinality({j \in M : IF s = "pending" THEN j < i ELSE j > i}) = k - 1]
  BY DEF Bucket, Arranged, Members
<1> HIDE DEF M, list, order
<1>5. \A i \in M : Below(M, order, i) = {j \in M : IF s = "pending" THEN j < i ELSE j > i}
  BY <1>1 DEF Below, Comes, order
<1>6. ASSUME NEW k \in 1..n
      PROVE  list[k] \in M /\ Cardinality(Below(M, order, list[k])) = k - 1
  <2>1. k - 1 \in 0..(Cardinality(M) - 1)
    BY <1>2
  <2>2. PICK c \in M : Cardinality(Below(M, order, c)) = k - 1
    <3>1. IsFiniteSet(M)
      BY <1>1
    <3>2. \A l \in 0..(Cardinality(M) - 1) : \E i \in M : Cardinality(Below(M, order, i)) = l
      BY <1>3, <3>1, RankIsTaken
    <3> QED
      BY <2>1, <3>2
  <2>3. Cardinality({j \in M : IF s = "pending" THEN j < c ELSE j > c}) = k - 1
    BY <1>5, <2>2
  <2>4. list[k] = CHOOSE i \in M : Cardinality({j \in M : IF s = "pending" THEN j < i ELSE j > i}) = k - 1
    BY <1>4
  <2>5. list[k] \in M
        /\ Cardinality({j \in M : IF s = "pending" THEN j < list[k] ELSE j > list[k]}) = k - 1
    BY <2>3, <2>4
  <2> QED
    BY <1>5, <2>5
<1>7. list \in [1..n -> M]
  BY <1>4, <1>6
<1>8. ListsInOrder(list, M, order)
  BY <1>6, <1>7 DEF ListsInOrder
<1>9. list \in Seq(M) /\ Len(list) = n
  BY <1>2, <1>7, RankedIsSeq
<1> QED
  BY <1>1, <1>2, <1>3, <1>8, <1>9 DEF M, list, order

\* How much of a list of `len` there is after `skip`, up to `take`.
LeftAfter(len, skip, take) ==
    IF skip >= len THEN 0 ELSE IF skip + take <= len THEN take ELSE len - skip

\* part is the n that follow the first `skip` of a list.
IsPart(part, list, skip, n) ==
    /\ n \in Nat /\ Len(part) = n
    /\ \A i \in 1..n : skip + i \in 1..Len(list) /\ part[i] = list[skip + i]

\* What a query with skip and take returns.
LEMMA FetchIs ==
    ASSUME NEW X, NEW b, b \in Seq(X), NEW skip, skip \in Nat, NEW take, take \in Nat
    PROVE  /\ Fetch(b, skip, take) \in Seq(X)
           /\ IsPart(Fetch(b, skip, take), b, skip, LeftAfter(Len(b), skip, take))
<1> DEFINE m == LeftAfter(Len(b), skip, take)
           f == [i \in 1..m |-> b[skip + i]]
           e == Min({skip + take, Len(b)})
<1>1. Len(b) \in Nat /\ DOMAIN b = 1..Len(b)
  OBVIOUS
<1>2. m \in Nat /\ e \in Nat /\ e <= Len(b)
      /\ (e < skip + 1 => m = 0) /\ (e >= skip + 1 => m = e - skip)
  <2>1. PICK len \in Nat : len = Len(b)
    BY <1>1
  <2>2. e = IF skip + take <= len THEN skip + take ELSE len
    BY <2>1, OfTwo
  <2>3. m = IF skip >= len THEN 0 ELSE IF skip + take <= len THEN take ELSE len - skip
    BY <2>1 DEF LeftAfter
  <2> HIDE DEF e, m
  <2> QED
    BY <2>1, <2>2, <2>3
<1> HIDE DEF e, m
<1>3. Fetch(b, skip, take) = SubSeq(b, skip + 1, e)
  BY DEF Fetch, e
<1>4. f \in [1..m -> X] /\ \A i \in 1..m : skip + i \in 1..Len(b)
  BY <1>1, <1>2
<1>5. f \in Seq(X) /\ Len(f) = m
  BY <1>2, <1>4, RankedIsSeq
<1>6. SubSeq(b, skip + 1, e) = f
  <2>1. SubSeq(b, skip + 1, e) = [i \in 1..(e - (skip + 1) + 1) |-> b[i + (skip + 1) - 1]]
    BY <1>1, <1>2
  <2> QED
    BY <1>1, <1>2, <2>1
<1> QED
  BY <1>2, <1>3, <1>4, <1>5, <1>6 DEF IsPart, m

\* The list in one piece is the one bucket and then the other.
LEMMA ListedIs ==
    ASSUME NEW filter
    PROVE  Listed(filter) = Marked(Bucket("pending", filter), "pending")
                              \o Marked(Bucket("decided", filter), "decided")
BY DEF Listed, Bucket, Arranged

Entries == Nat \X Standings

\* A bucket marked is a list of entries, each with its standing.
LEMMA MarkedIs ==
    ASSUME NEW numbers \in Seq(Nat), NEW s \in Standings
    PROVE  /\ Marked(numbers, s) \in Seq(Entries)
           /\ Len(Marked(numbers, s)) = Len(numbers)
           /\ \A i \in 1..Len(numbers) : Marked(numbers, s)[i] = <<numbers[i], s>>
<1>1. DOMAIN numbers = 1..Len(numbers) /\ Len(numbers) \in Nat
      /\ \A i \in 1..Len(numbers) : numbers[i] \in Nat
  OBVIOUS
<1>2. Marked(numbers, s) = [i \in 1..Len(numbers) |-> <<numbers[i], s>>]
  BY <1>1 DEF Marked
<1>3. Marked(numbers, s) \in [1..Len(numbers) -> Entries]
  BY <1>1, <1>2 DEF Entries
<1> QED
  BY <1>1, <1>2, <1>3, RankedIsSeq

\* What fetchByPriority takes of a bucket p of pending and of one d of decided.
PendingRows(p, skip, size) ==
    IF skip >= Len(p) THEN << >> ELSE Fetch(p, skip, Min({size, Len(p) - skip}))

DecidedRows(p, d, skip, size) ==
    Fetch(d, Max({0, skip - Len(p)}), size - Len(PendingRows(p, skip, size)))

\* How much it takes of each, and from where.
Taken(p, skip, size)       == LeftAfter(Len(p), skip, size)
DecidedFrom(p, skip)       == IF skip >= Len(p) THEN skip - Len(p) ELSE 0
TakenThen(p, d, skip, size) == LeftAfter(Len(d), DecidedFrom(p, skip), size - Taken(p, skip, size))

\* The two queries of fetchByPriority return such parts.
LEMMA PartsAre ==
    ASSUME NEW p, p \in Seq(Nat), NEW d, d \in Seq(Nat), NEW skip, skip \in Nat,
           NEW size, size \in Nat
    PROVE  /\ Taken(p, skip, size) <= size /\ DecidedFrom(p, skip) \in Nat
           /\ PendingRows(p, skip, size) \in Seq(Nat)
           /\ IsPart(PendingRows(p, skip, size), p, skip, Taken(p, skip, size))
           /\ DecidedRows(p, d, skip, size) \in Seq(Nat)
           /\ IsPart(DecidedRows(p, d, skip, size), d, DecidedFrom(p, skip),
                     TakenThen(p, d, skip, size))
<1>1. PICK P \in Nat : P = Len(p)
  OBVIOUS
<1>2. PICK a \in Nat : a = Taken(p, skip, size) /\ a = LeftAfter(P, skip, size) /\ a <= size
  <2>1. LeftAfter(P, skip, size) \in Nat /\ LeftAfter(P, skip, size) <= size
    BY DEF LeftAfter
  <2> QED
    BY <1>1, <2>1 DEF Taken
<1>3. PICK from \in Nat : from = DecidedFrom(p, skip)
  <2>1. CASE skip >= P
    BY <1>1, <2>1 DEF DecidedFrom
  <2>2. CASE ~(skip >= P)
    BY <1>1, <2>2 DEF DecidedFrom
  <2> QED
    BY <2>1, <2>2
<1>4. PendingRows(p, skip, size) \in Seq(Nat) /\ IsPart(PendingRows(p, skip, size), p, skip, a)
  <2>1. CASE skip >= P
    <3>1. PendingRows(p, skip, size) = << >> /\ a = 0
      BY <1>1, <1>2, <2>1 DEF PendingRows, LeftAfter
    <3> QED
      BY <3>1 DEF IsPart
  <2>2. CASE ~(skip >= P)
    <3>1. PICK take \in Nat : take = IF size <= P - skip THEN size ELSE P - skip
      <4>1. P - skip \in Nat
        BY <2>2
      <4> QED
        BY <4>1
    <3>2. Min({size, P - skip}) = take
      <4>1. P - skip \in Int /\ size \in Int
        OBVIOUS
      <4> QED
        BY <3>1, <4>1, OfTwo
    <3>3. PendingRows(p, skip, size) = Fetch(p, skip, take)
      BY <1>1, <2>2, <3>2 DEF PendingRows
    <3>4. a = LeftAfter(Len(p), skip, take)
      BY <1>1, <1>2, <2>2, <3>1 DEF LeftAfter
    <3>5. /\ Fetch(p, skip, take) \in Seq(Nat)
          /\ IsPart(Fetch(p, skip, take), p, skip, LeftAfter(Len(p), skip, take))
      BY FetchIs
    <3> QED
      BY <3>3, <3>4, <3>5
  <2> QED
    BY <2>1, <2>2
<1>5. Max({0, skip - Len(p)}) = from
  <2>1. skip - P \in Int /\ 0 \in Int
    OBVIOUS
  <2>2. Max({0, skip - P}) = IF 0 <= skip - P THEN skip - P ELSE 0
    BY <2>1, OfTwo
  <2> QED
    BY <1>1, <1>3, <2>2 DEF DecidedFrom
<1>6. PICK rest \in Nat : rest = size - a
  BY <1>2
<1>7. DecidedRows(p, d, skip, size) = Fetch(d, from, rest)
  BY <1>4, <1>5, <1>6 DEF DecidedRows, IsPart
<1>8. Fetch(d, from, rest) \in Seq(Nat) /\ IsPart(Fetch(d, from, rest), d, from, LeftAfter(Len(d), from, rest))
  BY FetchIs
<1>9. TakenThen(p, d, skip, size) = LeftAfter(Len(d), from, rest)
  BY <1>2, <1>3, <1>6 DEF TakenThen
<1> QED
  BY <1>2, <1>3, <1>4, <1>7, <1>8, <1>9

\* a of P and b of D, from there on, are taken; and the part taken of the one
\* list is as long as the two are, and lies where they do.
AreTaken(P, D, skip, size, a, from, b) ==
    /\ a <= size /\ a = LeftAfter(P, skip, size)
    /\ from = IF skip >= P THEN skip - P ELSE 0
    /\ b = LeftAfter(D, from, size - a)

TheyMeet(P, D, skip, size, a, from, b) ==
    /\ LeftAfter(P + D, skip, size) = a + b
    /\ \A i \in 1..(a + b) :
          IF i <= a THEN i \in 1..a /\ skip + i \in 1..P
                    ELSE /\ i - a \in 1..b /\ ~(skip + i <= P)
                         /\ skip + i - P = from + (i - a) /\ skip + i - P \in 1..D

\* Wherever the two buckets meet on a page, they meet.
LEMMA PartsMeet ==
    ASSUME NEW P \in Nat, NEW D \in Nat, NEW skip \in Nat, NEW size \in Nat,
           NEW a \in Nat, NEW from \in Nat, NEW b \in Nat,
           AreTaken(P, D, skip, size, a, from, b)
    PROVE  TheyMeet(P, D, skip, size, a, from, b)
<1> SUFFICES ASSUME a <= size,
                    a = LeftAfter(P, skip, size), from = (IF skip >= P THEN skip - P ELSE 0),
                    b = LeftAfter(D, from, size - a)
             PROVE  /\ LeftAfter(P + D, skip, size) = a + b
                    /\ \A i \in 1..(a + b) :
                          IF i <= a THEN i \in 1..a /\ skip + i \in 1..P
                                    ELSE /\ i - a \in 1..b /\ ~(skip + i <= P)
                                         /\ skip + i - P = from + (i - a) /\ skip + i - P \in 1..D
  BY DEF AreTaken, TheyMeet
<1>1. a = IF skip >= P THEN 0 ELSE IF skip + size <= P THEN size ELSE P - skip
  BY DEF LeftAfter
<1>2. b = IF from >= D THEN 0 ELSE IF from + (size - a) <= D THEN size - a ELSE D - from
  BY DEF LeftAfter
<1>3. CASE skip >= P
  <2>1. a = 0 /\ from = skip - P
    BY <1>1, <1>3
  <2> QED
    BY <1>2, <1>3, <2>1 DEF LeftAfter
<1>4. CASE ~(skip >= P) /\ skip + size <= P
  <2>1. a = size /\ from = 0 /\ b = 0
    BY <1>1, <1>2, <1>4
  <2> QED
    BY <1>4, <2>1 DEF LeftAfter
<1>5. CASE ~(skip >= P) /\ ~(skip + size <= P)
  <2>1. a = P - skip /\ from = 0
    BY <1>1, <1>5
  <2>2. b = IF skip + size <= P + D THEN size - a ELSE D
    BY <1>2, <1>5, <2>1
  <2> QED
    BY <1>5, <2>1, <2>2 DEF LeftAfter
<1> QED
  BY <1>3, <1>4, <1>5

\* One list after another.
LEMMA AfterOneAnother ==
    ASSUME NEW X, NEW u \in Seq(X), NEW v \in Seq(X),
           NEW m \in Nat, m = Len(u), NEW n \in Nat, n = Len(v)
    PROVE  /\ u \o v \in Seq(X) /\ Len(u \o v) = m + n
           /\ \A i \in 1..(m + n) : (u \o v)[i] = IF i <= m THEN u[i] ELSE v[i - m]
<1>1. u \o v \in Seq(X) /\ Len(u \o v) = m + n
  OBVIOUS
<1>2. \A i \in 1..(m + n) : (u \o v)[i] = IF i <= m THEN u[i] ELSE v[i - m]
  OBVIOUS
<1> QED
  BY <1>1, <1>2

\* A page is of the two buckets as if they were one list, wherever they meet.
LEMMA PageIsOne ==
    ASSUME NEW p \in Seq(Nat), NEW d \in Seq(Nat), NEW skip \in Nat, NEW size \in Nat
    PROVE  Marked(PendingRows(p, skip, size), "pending") \o Marked(DecidedRows(p, d, skip, size), "decided")
               = Fetch(Marked(p, "pending") \o Marked(d, "decided"), skip, size)
<1> DEFINE first == PendingRows(p, skip, size)
           second == DecidedRows(p, d, skip, size)
           mp == Marked(p, "pending")
           md == Marked(d, "decided")
           mf == Marked(first, "pending")
           ms == Marked(second, "decided")
           whole == mp \o md
           page == mf \o ms
<1>1. PICK P \in Nat : P = Len(p)
  OBVIOUS
<1>2. PICK D \in Nat : D = Len(d)
  OBVIOUS
<1>3. /\ Taken(p, skip, size) <= size /\ DecidedFrom(p, skip) \in Nat
      /\ first \in Seq(Nat) /\ IsPart(first, p, skip, Taken(p, skip, size))
      /\ second \in Seq(Nat)
      /\ IsPart(second, d, DecidedFrom(p, skip), TakenThen(p, d, skip, size))
  BY PartsAre
<1> HIDE DEF first, second
<1>4. PICK a \in Nat : a = Taken(p, skip, size) /\ a = LeftAfter(P, skip, size)
  BY <1>1, <1>3 DEF IsPart, Taken
<1>5. PICK from \in Nat : from = DecidedFrom(p, skip) /\ from = IF skip >= P THEN skip - P ELSE 0
  BY <1>1, <1>3 DEF DecidedFrom
<1>6. PICK b \in Nat : b = TakenThen(p, d, skip, size) /\ b = LeftAfter(D, from, size - a)
  BY <1>2, <1>3, <1>4, <1>5 DEF IsPart, TakenThen
<1>7. /\ Len(first) = a /\ \A i \in 1..a : first[i] = p[skip + i]
      /\ Len(second) = b /\ \A i \in 1..b : second[i] = d[from + i]
  BY <1>3, <1>4, <1>5, <1>6 DEF IsPart
<1>8. "pending" \in Standings /\ "decided" \in Standings
  BY DEF Standings
<1>9. /\ mp \in Seq(Entries) /\ Len(mp) = P /\ \A i \in 1..P : mp[i] = <<p[i], "pending">>
      /\ md \in Seq(Entries) /\ Len(md) = D /\ \A i \in 1..D : md[i] = <<d[i], "decided">>
  BY <1>1, <1>2, <1>8, MarkedIs
<1>10. /\ mf \in Seq(Entries) /\ Len(mf) = a /\ \A i \in 1..a : mf[i] = <<first[i], "pending">>
       /\ ms \in Seq(Entries) /\ Len(ms) = b /\ \A i \in 1..b : ms[i] = <<second[i], "decided">>
  BY <1>3, <1>7, <1>8, MarkedIs
<1> HIDE DEF mp, md, mf, ms
<1>11. /\ whole \in Seq(Entries) /\ Len(whole) = P + D
       /\ \A i \in 1..(P + D) : whole[i] = IF i <= P THEN mp[i] ELSE md[i - P]
  <2>1. mp \in Seq(Entries) /\ md \in Seq(Entries) /\ P = Len(mp) /\ D = Len(md)
    BY <1>9
  <2> QED
    BY <2>1, AfterOneAnother
<1>12. /\ page \in Seq(Entries) /\ Len(page) = a + b
       /\ \A i \in 1..(a + b) : page[i] = IF i <= a THEN mf[i] ELSE ms[i - a]
  <2>1. mf \in Seq(Entries) /\ ms \in Seq(Entries) /\ a = Len(mf) /\ b = Len(ms)
    BY <1>10
  <2> QED
    BY <2>1, AfterOneAnother
<1> HIDE DEF whole, page
<1>13. /\ LeftAfter(P + D, skip, size) = a + b
       /\ \A i \in 1..(a + b) :
             IF i <= a THEN i \in 1..a /\ skip + i \in 1..P
                       ELSE /\ i - a \in 1..b /\ ~(skip + i <= P)
                            /\ skip + i - P = from + (i - a) /\ skip + i - P \in 1..D
  <2>1. AreTaken(P, D, skip, size, a, from, b)
    BY <1>3, <1>4, <1>5, <1>6 DEF AreTaken
  <2>2. TheyMeet(P, D, skip, size, a, from, b)
    BY <2>1, PartsMeet
  <2> QED
    BY <2>2 DEF TheyMeet
<1>14. /\ Fetch(whole, skip, size) \in Seq(Entries) /\ Len(Fetch(whole, skip, size)) = a + b
       /\ \A i \in 1..(a + b) : skip + i \in 1..(P + D) /\ Fetch(whole, skip, size)[i] = whole[skip + i]
  <2>1. /\ Fetch(whole, skip, size) \in Seq(Entries)
        /\ IsPart(Fetch(whole, skip, size), whole, skip, LeftAfter(Len(whole), skip, size))
    BY <1>11, FetchIs
  <2> QED
    BY <1>11, <1>13, <2>1 DEF IsPart
<1>15. ASSUME NEW i \in 1..(a + b) PROVE page[i] = whole[skip + i]
  <2>1. skip + i \in 1..(P + D)
    BY <1>14
  <2>2. CASE i <= a
    <3>1. i \in 1..a /\ skip + i \in 1..P
      BY <1>13, <2>2
    <3>2. page[i] = <<p[skip + i], "pending">>
      BY <1>7, <1>10, <1>12, <2>2, <3>1
    <3>3. whole[skip + i] = mp[skip + i]
      BY <1>11, <2>1, <3>1
    <3> QED
      BY <1>9, <3>1, <3>2, <3>3
  <2>3. CASE ~(i <= a)
    <3>1. /\ i - a \in 1..b /\ ~(skip + i <= P)
          /\ skip + i - P = from + (i - a) /\ skip + i - P \in 1..D
      BY <1>13, <2>3
    <3>2. page[i] = <<d[from + (i - a)], "decided">>
      BY <1>7, <1>10, <1>12, <2>3, <3>1
    <3>3. whole[skip + i] = md[skip + i - P]
      <4>1. \A k \in 1..(P + D) : ~(k <= P) => whole[k] = md[k - P]
        BY <1>11
      <4> QED
        BY <2>1, <3>1, <4>1
    <3>4. md[skip + i - P] = <<d[skip + i - P], "decided">>
      BY <1>9, <3>1
    <3> QED
      BY <3>1, <3>2, <3>3, <3>4
  <2> QED
    BY <2>2, <2>3
<1>16. page = Fetch(whole, skip, size)
  <2>1. page = [i \in 1..(a + b) |-> page[i]]
    BY <1>12
  <2>2. Fetch(whole, skip, size) = [i \in 1..(a + b) |-> Fetch(whole, skip, size)[i]]
    BY <1>14
  <2> QED
    BY <1>14, <1>15, <2>1, <2>2
<1> QED
  BY <1>16 DEF page, whole, mp, md, mf, ms, first, second

-----------------------------------------------------------------------------
(* A page under way, between its queries.                                    *)

LoadTypes ==
    [of : Looks, step : {"count", "pending", "decided", "answered"}, count : Nat,
     got : Seq(Entries), quiet : BOOLEAN, waiting : SUBSET Nat]

Got(l) == {l.got[i] : i \in DOMAIN l.got}

\* What is pending and was filed before n.
Ahead(n, filter) == Below(Members("pending", filter), Comes("pending"), n)

Counted(l) ==
    l.step \in {"pending", "decided"} /\ l.quiet => l.count = Len(Bucket("pending", l.of.filter))

\* Until the rows are fetched the count reaches what has been waiting: what is
\* ahead of it can only be decided.
CountReaches(l) ==
    l.step = "pending" => \A n \in l.waiting : Cardinality(Ahead(n, l.of.filter)) < l.count

\* A first page that is not full has all that has been waiting.
PendingTaken(l) ==
    l.step = "decided" =>
        /\ Len(l.got) <= PageSize /\ \A g \in Got(l) : g[2] = "pending"
        /\ l.quiet => l.got = Marked(PendingRows(Bucket("pending", l.of.filter), Skip(l.of), PageSize), "pending")
        /\ l.of.page = 0 /\ Len(l.got) < PageSize => \A n \in l.waiting : <<n, "pending">> \in Got(l)

Complete(l) ==
    l.step = "answered" =>
        /\ l.quiet => l.got = Fetch(Listed(l.of.filter), Skip(l.of), PageSize)
        /\ l.of.page = 0 /\ (\E g \in Got(l) : g[2] = "decided") =>
              \A n \in l.waiting : <<n, "pending">> \in Got(l)

Sound(l) ==
    /\ l \in LoadTypes /\ l.waiting \subseteq Members("pending", l.of.filter)
    /\ Counted(l) /\ CountReaches(l) /\ PendingTaken(l) /\ Complete(l)

\* The inductive invariant of the list.
QueueInv ==
    /\ standing \in Seq(Standings) /\ look \in Looks /\ decisions \subseteq Filed \X Looks
    /\ \A l \in loads : Sound(l)

-----------------------------------------------------------------------------
(* Steps.                                                                    *)

\* While nothing is filed or decided, a page under way stays as it is.
LEMMA StaysSound ==
    ASSUME UNCHANGED standing, NEW l, Sound(l)
    PROVE  Sound(l)'
<1>1. \A s, filter : Members(s, filter)' = Members(s, filter)
  BY DEF Members, Filed
<1>2. ASSUME NEW s, NEW filter PROVE Bucket(s, filter)' = Bucket(s, filter)
  BY DEF Bucket, Arranged, Filed
<1>3. ASSUME NEW filter PROVE Listed(filter)' = Listed(filter)
  BY DEF Listed, Arranged, Marked, Filed
<1>4. \A n, filter : Ahead(n, filter)' = Ahead(n, filter)
  BY <1>1 DEF Ahead, Below
<1> QED
  BY <1>1, <1>2, <1>3, <1>4 DEF Sound, Counted, CountReaches, PendingTaken, Complete

\* A page asked for has not counted yet.
LEMMA StartsSound ==
    ASSUME NEW l \in LoadTypes, l.step = "count", l.waiting \subseteq Members("pending", l.of.filter)'
    PROVE  Sound(l)'
BY DEF Sound, Counted, CountReaches, PendingTaken, Complete

\* A filing or a decision leaves it sound: what stays waiting is still pending,
\* and no more is ahead of it.
LEMMA DisturbedIsSound ==
    ASSUME standing \in Seq(Standings), NEW l, Sound(l), NEW gone,
           l.waiting \ gone \subseteq Members("pending", l.of.filter)',
           \A n \in l.waiting \ gone : Ahead(n, l.of.filter)' \subseteq Ahead(n, l.of.filter)
    PROVE  Sound([l EXCEPT !.quiet = FALSE, !.waiting = @ \ gone])'
<1> DEFINE m == [l EXCEPT !.quiet = FALSE, !.waiting = @ \ gone]
<1>1. l \in LoadTypes
  BY DEF Sound
<1>2. m \in LoadTypes
  BY <1>1 DEF LoadTypes
<1>3. /\ m.of = l.of /\ m.step = l.step /\ m.count = l.count /\ m.got = l.got
      /\ m.quiet = FALSE /\ m.waiting = l.waiting \ gone
  BY <1>1 DEF LoadTypes
<1> HIDE DEF m
<1>4. Got(m) = Got(l)
  BY <1>3 DEF Got
<1>5. ASSUME NEW n \in m.waiting, m.step = "pending"
      PROVE  Cardinality(Ahead(n, m.of.filter)') < m.count
  <2> DEFINE A == Ahead(n, l.of.filter)
             B == Ahead(n, l.of.filter)'
  <2>1. B \subseteq A
    BY <1>3, <1>5
  <2>2. IsFiniteSet(A)
    <3>1. IsFiniteSet(Members("pending", l.of.filter))
      BY BucketLists DEF Standings
    <3>2. A \subseteq Members("pending", l.of.filter)
      BY DEF Ahead, Below
    <3> QED
      BY <3>1, <3>2, FS_Subset
  <2>3. Cardinality(A) < l.count
    BY <1>3, <1>5 DEF Sound, CountReaches
  <2>4. l.count \in Nat
    BY <1>1 DEF LoadTypes
  <2> HIDE DEF A, B
  <2>5. Cardinality(B) <= Cardinality(A) /\ Cardinality(A) \in Nat /\ Cardinality(B) \in Nat
    BY <2>1, <2>2, FS_Subset, FS_CardinalityType
  <2>6. Cardinality(B) < l.count
    BY <2>3, <2>4, <2>5
  <2> QED
    BY <1>3, <2>6 DEF B
<1>6. Counted(m)' /\ CountReaches(m)'
  BY <1>3, <1>5 DEF Counted, CountReaches
<1>7. PendingTaken(m)' /\ Complete(m)'
  BY <1>3, <1>4 DEF Sound, PendingTaken, Complete
<1>8. Sound(m)'
  BY <1>2, <1>3, <1>6, <1>7 DEF Sound
<1> QED
  BY <1>8 DEF m

\* Counting.
LEMMA CountIsSound ==
    ASSUME standing \in Seq(Standings), NEW l, Sound(l), l.step = "count"
    PROVE  Sound([l EXCEPT !.step = "pending", !.count = Len(Bucket("pending", l.of.filter))])
<1> DEFINE filter == l.of.filter
           M == Members("pending", filter)
           c == Len(Bucket("pending", filter))
           m == [l EXCEPT !.step = "pending", !.count = c]
<1>1. l \in LoadTypes /\ l.waiting \subseteq M
  BY DEF Sound
<1>2. /\ IsFiniteSet(M) /\ StrictOrder(Comes("pending"), M) /\ c = Cardinality(M) /\ c \in Nat
  <2>1. "pending" \in Standings
    BY DEF Standings
  <2> QED
    BY <2>1, BucketLists
<1> HIDE DEF M, c
<1>3. m \in LoadTypes
  BY <1>1, <1>2 DEF LoadTypes
<1>4. /\ m.of = l.of /\ m.step = "pending" /\ m.count = c /\ m.waiting = l.waiting
  BY <1>1 DEF LoadTypes
<1> HIDE DEF m
<1>5. ASSUME NEW n \in m.waiting PROVE Cardinality(Ahead(n, m.of.filter)) < m.count
  <2>1. n \in M
    BY <1>1, <1>4
  <2>2. Cardinality(Below(M, Comes("pending"), n)) \in 0..(Cardinality(M) - 1)
    <3>1. IsFiniteSet(M) /\ StrictOrder(Comes("pending"), M)
      BY <1>2
    <3> QED
      BY <2>1, <3>1, RankIsTaken
  <2> QED
    BY <1>2, <1>4, <2>2 DEF Ahead, M
<1>6. Counted(m)
  BY <1>4 DEF Counted, c
<1>7. CountReaches(m) /\ PendingTaken(m) /\ Complete(m)
  BY <1>4, <1>5 DEF CountReaches, PendingTaken, Complete
<1>8. Sound(m)
  BY <1>1, <1>3, <1>4, <1>6, <1>7 DEF Sound, M
<1> QED
  BY <1>8 DEF m, c

\* The first page skips nothing.
LEMMA SkipIsNat ==
    ASSUME NEW q \in Looks
    PROVE  Skip(q) \in Nat /\ (q.page = 0 => Skip(q) = 0)
<1>1. q.page \in Nat /\ PageSize \in Nat
  BY QueueAssumption DEF Looks
<1>2. \A x, y \in Nat : x * y \in Nat /\ (x = 0 => x * y = 0)
  OBVIOUS
<1> QED
  BY <1>1, <1>2 DEF Skip

\* The rows of what is pending.
LEMMA FetchPendingIsSound ==
    ASSUME standing \in Seq(Standings), NEW l, Sound(l), l.step = "pending",
           NEW got, got = IF Skip(l.of) >= l.count THEN << >>
                          ELSE Fetch(Bucket("pending", l.of.filter), Skip(l.of), PendingTake(l))
    PROVE  Sound([l EXCEPT !.step = "decided", !.got = Marked(got, "pending")])
<1> DEFINE filter == l.of.filter
           M == Members("pending", filter)
           list == Bucket("pending", filter)
           mk == Marked(got, "pending")
           m == [l EXCEPT !.step = "decided", !.got = mk]
<1>1. /\ l \in LoadTypes /\ l.waiting \subseteq M /\ l.of \in Looks /\ Skip(l.of) \in Nat
      /\ l.of.page = 0 => Skip(l.of) = 0
  BY SkipIsNat DEF Sound, LoadTypes
<1>2. /\ M \subseteq Nat /\ IsFiniteSet(M) /\ StrictOrder(Comes("pending"), M)
      /\ ListsInOrder(list, M, Comes("pending")) /\ list \in Seq(M)
      /\ Len(list) = Cardinality(M) /\ Cardinality(M) \in Nat
  BY BucketLists DEF Standings
<1>3. list \in Seq(Nat)
  BY <1>2
<1>4. PICK count \in Nat : count = l.count
  BY <1>1 DEF LoadTypes
<1>5. PICK skip \in Nat : skip = Skip(l.of)
  BY <1>1
<1>6. PICK size \in Nat : size = PageSize
  BY QueueAssumption
<1>7. PICK len \in Nat : len = Len(list)
  BY <1>2
<1> HIDE DEF M, list
<1>8. ASSUME ~(skip >= count)
      PROVE  \E take \in Nat :
                /\ take = IF size <= count - skip THEN size ELSE count - skip
                /\ got = Fetch(list, skip, take)
                /\ got \in Seq(Nat) /\ IsPart(got, list, skip, LeftAfter(len, skip, take))
  <2>1. PICK take \in Nat : take = IF size <= count - skip THEN size ELSE count - skip
    <3>1. count - skip \in Nat
      BY <1>8
    <3> QED
      BY <3>1
  <2>2. PendingTake(l) = take
    <3>1. size \in Int /\ count - skip \in Int
      OBVIOUS
    <3> QED
      BY <1>4, <1>5, <1>6, <2>1, <3>1, OfTwo DEF PendingTake
  <2>3. got = Fetch(list, skip, take)
    BY <1>4, <1>5, <1>8, <2>2 DEF list
  <2>4. /\ Fetch(list, skip, take) \in Seq(Nat)
        /\ IsPart(Fetch(list, skip, take), list, skip, LeftAfter(Len(list), skip, take))
    BY <1>3, FetchIs
  <2> QED
    BY <1>7, <2>1, <2>3, <2>4
<1>9. got \in Seq(Nat) /\ Len(got) <= size
  <2>1. CASE skip >= count
    <3>1. got = << >>
      BY <1>4, <1>5, <2>1
    <3>2. << >> \in Seq(Nat) /\ Len(<< >>) <= size
      OBVIOUS
    <3> QED
      BY <3>1, <3>2
  <2>2. CASE ~(skip >= count)
    <3>1. PICK take \in Nat :
                /\ take = IF size <= count - skip THEN size ELSE count - skip
                /\ got \in Seq(Nat) /\ IsPart(got, list, skip, LeftAfter(len, skip, take))
      BY <1>8, <2>2
    <3>2. LeftAfter(len, skip, take) <= take /\ take <= size /\ LeftAfter(len, skip, take) \in Nat
      BY <2>2, <3>1 DEF LeftAfter
    <3> QED
      BY <3>1, <3>2 DEF IsPart
  <2> QED
    BY <2>1, <2>2
<1>10. mk \in Seq(Entries) /\ Len(mk) = Len(got) /\ \A i \in 1..Len(got) : mk[i] = <<got[i], "pending">>
  <2>1. "pending" \in Standings
    BY DEF Standings
  <2> QED
    BY <1>9, <2>1, MarkedIs
<1> HIDE DEF mk
<1>11. m \in LoadTypes
  BY <1>1, <1>10 DEF LoadTypes
<1>12. /\ m.of = l.of /\ m.step = "decided" /\ m.count = l.count /\ m.got = mk
       /\ m.quiet = l.quiet /\ m.waiting = l.waiting
  BY <1>1 DEF LoadTypes
<1> HIDE DEF m
<1>13. Len(m.got) <= PageSize /\ \A g \in Got(m) : g[2] = "pending"
  <2>1. \A i \in DOMAIN mk : mk[i][2] = "pending"
    BY <1>10
  <2> QED
    BY <1>6, <1>9, <1>10, <1>12, <2>1 DEF Got
<1>14. ASSUME l.quiet PROVE m.got = Marked(PendingRows(list, Skip(l.of), PageSize), "pending")
  <2>1. l.count = Len(list)
    BY <1>14 DEF Sound, Counted, list
  <2>2. got = PendingRows(list, Skip(l.of), PageSize)
    BY <2>1 DEF PendingRows, PendingTake, list
  <2> QED
    BY <1>12, <2>2 DEF mk
<1>15. ASSUME l.of.page = 0, Len(mk) < size, NEW n \in l.waiting
       PROVE  <<n, "pending">> \in Got(m)
  <2>1. n \in M
    BY <1>1
  <2>2. PICK before \in Nat : before = Cardinality(Below(M, Comes("pending"), n))
                              /\ before + 1 \in 1..len /\ list[before + 1] = n
    <3>1. IsFiniteSet(M) /\ StrictOrder(Comes("pending"), M) /\ ListsInOrder(list, M, Comes("pending"))
      BY <1>2
    <3>2. \A c \in M : Cardinality(Below(M, Comes("pending"), c)) + 1 \in 1..Cardinality(M)
                       /\ list[Cardinality(Below(M, Comes("pending"), c)) + 1] = c
      BY <3>1, ListedInOrder
    <3>3. Below(M, Comes("pending"), n) \subseteq M
      BY DEF Below
    <3>4. Cardinality(Below(M, Comes("pending"), n)) \in Nat
      BY <3>1, <3>3, FS_Subset, FS_CardinalityType
    <3> QED
      BY <1>2, <1>7, <2>1, <3>2, <3>4
  <2>3. before < count
    BY <1>4, <2>2 DEF Sound, CountReaches, Ahead, M
  <2>4. skip = 0 /\ ~(skip >= count)
    BY <1>1, <1>5, <1>15, <2>3
  <2>5. PICK take \in Nat :
                /\ take = IF size <= count - skip THEN size ELSE count - skip
                /\ IsPart(got, list, skip, LeftAfter(len, skip, take))
    BY <1>8, <2>4
  <2>6. Len(got) = LeftAfter(len, skip, take) /\ Len(got) < size
    BY <1>10, <1>15, <2>5 DEF IsPart
  <2>7. before + 1 \in 1..LeftAfter(len, skip, take)
    BY <2>2, <2>3, <2>4, <2>5, <2>6 DEF LeftAfter
  <2>8. got[before + 1] = n
    BY <2>2, <2>4, <2>5, <2>7 DEF IsPart
  <2>9. before + 1 \in DOMAIN mk /\ mk[before + 1] = <<n, "pending">>
    BY <1>10, <2>6, <2>7, <2>8
  <2> QED
    BY <1>12, <2>9 DEF Got
<1>16. PendingTaken(m)
  BY <1>6, <1>12, <1>13, <1>14, <1>15 DEF PendingTaken, list
<1>17. Counted(m) /\ CountReaches(m) /\ Complete(m)
  BY <1>12 DEF Sound, Counted, CountReaches, Complete
<1>18. Sound(m)
  BY <1>1, <1>11, <1>12, <1>16, <1>17 DEF Sound, M
<1> QED
  BY <1>18 DEF m, mk

\* The rows of what is decided, after them.
LEMMA FetchDecidedIsSound ==
    ASSUME standing \in Seq(Standings), NEW l, Sound(l), l.step = "decided",
           NEW got, got = Fetch(Bucket("decided", l.of.filter), DecidedSkip(l), PageSize - Len(l.got))
    PROVE  Sound([l EXCEPT !.step = "answered", !.got = @ \o Marked(got, "decided")])
<1> DEFINE filter == l.of.filter
           p == Bucket("pending", filter)
           d == Bucket("decided", filter)
           mk == Marked(got, "decided")
           m == [l EXCEPT !.step = "answered", !.got = @ \o mk]
<1>1. /\ l \in LoadTypes /\ l.of \in Looks /\ Skip(l.of) \in Nat /\ l.count \in Nat
      /\ l.got \in Seq(Entries) /\ PageSize \in Nat
  BY SkipIsNat, QueueAssumption DEF Sound, LoadTypes
<1>2. p \in Seq(Nat) /\ d \in Seq(Nat)
  <2>1. \A s \in Standings : Members(s, filter) \subseteq Nat /\ Bucket(s, filter) \in Seq(Members(s, filter))
    BY BucketLists
  <2> QED
    BY <2>1 DEF Standings
<1> HIDE DEF p, d
<1>3. /\ Len(l.got) <= PageSize /\ \A g \in Got(l) : g[2] = "pending"
      /\ l.quiet => l.count = Len(p) /\ l.got = Marked(PendingRows(p, Skip(l.of), PageSize), "pending")
      /\ l.of.page = 0 /\ Len(l.got) < PageSize => \A n \in l.waiting : <<n, "pending">> \in Got(l)
  BY DEF Sound, PendingTaken, Counted, p
<1>4. PICK rest \in Nat : rest = PageSize - Len(l.got)
  <2>1. PICK size \in Nat : size = PageSize
    BY <1>1
  <2>2. PICK len \in Nat : len = Len(l.got)
    BY <1>1
  <2>3. size - len \in Nat
    BY <1>3, <2>1, <2>2
  <2> QED
    BY <2>1, <2>2, <2>3
<1>5. PICK from \in Nat : from = DecidedSkip(l)
  <2>1. PICK x \in Int : x = Skip(l.of) - l.count
    BY <1>1
  <2>2. DecidedSkip(l) = IF 0 <= x THEN x ELSE 0
    <3>1. Max({0, x}) = IF 0 <= x THEN x ELSE 0
      <4>1. 0 \in Int /\ x \in Int
        OBVIOUS
      <4> QED
        BY <4>1, OfTwo
    <3> QED
      BY <2>1, <3>1 DEF DecidedSkip
  <2> QED
    BY <2>1, <2>2
<1>6. got \in Seq(Nat) /\ IsPart(got, d, from, LeftAfter(Len(d), from, rest))
  <2>1. got = Fetch(d, from, rest)
    BY <1>4, <1>5 DEF d
  <2> QED
    BY <1>2, <2>1, FetchIs
<1>7. mk \in Seq(Entries) /\ Len(mk) = Len(got) /\ \A i \in 1..Len(got) : mk[i] = <<got[i], "decided">>
  <2>1. "decided" \in Standings
    BY DEF Standings
  <2> QED
    BY <1>6, <2>1, MarkedIs
<1> HIDE DEF mk
<1>8. PICK x \in Nat : x = Len(l.got)
  BY <1>1
<1>9. PICK y \in Nat : y = Len(mk)
  BY <1>7
<1>10. /\ l.got \o mk \in Seq(Entries) /\ Len(l.got \o mk) = x + y
       /\ \A i \in 1..(x + y) : (l.got \o mk)[i] = IF i <= x THEN l.got[i] ELSE mk[i - x]
  <2>1. PICK u \in Seq(Entries) : u = l.got
    BY <1>1
  <2>2. PICK v \in Seq(Entries) : v = mk
    BY <1>7
  <2>3. x = Len(u) /\ y = Len(v)
    BY <1>8, <1>9, <2>1, <2>2
  <2>4. /\ u \o v \in Seq(Entries) /\ Len(u \o v) = x + y
        /\ \A i \in 1..(x + y) : (u \o v)[i] = IF i <= x THEN u[i] ELSE v[i - x]
    BY <2>3, AfterOneAnother
  <2> QED
    BY <2>1, <2>2, <2>4
<1>11. m \in LoadTypes
  BY <1>1, <1>10 DEF LoadTypes
<1>12. /\ m.of = l.of /\ m.step = "answered" /\ m.got = l.got \o mk
       /\ m.quiet = l.quiet /\ m.waiting = l.waiting
  BY <1>1 DEF LoadTypes
<1> HIDE DEF m
<1>13. ASSUME l.quiet PROVE m.got = Fetch(Listed(filter), Skip(l.of), PageSize)
  <2>1. l.count = Len(p) /\ l.got = Marked(PendingRows(p, Skip(l.of), PageSize), "pending")
    BY <1>3, <1>13
  <2>2. PendingRows(p, Skip(l.of), PageSize) \in Seq(Nat)
    BY <1>1, <1>2, PartsAre
  <2>3. Len(l.got) = Len(PendingRows(p, Skip(l.of), PageSize))
    BY <2>1, <2>2, MarkedIs DEF Standings
  <2>4. got = DecidedRows(p, d, Skip(l.of), PageSize)
    BY <2>1, <2>3 DEF DecidedRows, DecidedSkip, d
  <2>5. m.got = Marked(PendingRows(p, Skip(l.of), PageSize), "pending")
                  \o Marked(DecidedRows(p, d, Skip(l.of), PageSize), "decided")
    BY <1>12, <2>1, <2>4 DEF mk
  <2>6. m.got = Fetch(Marked(p, "pending") \o Marked(d, "decided"), Skip(l.of), PageSize)
    <3>1. PICK skip \in Nat : skip = Skip(l.of)
      BY <1>1
    <3>2. PICK size \in Nat : size = PageSize
      BY <1>1
    <3>3. Marked(PendingRows(p, skip, size), "pending") \o Marked(DecidedRows(p, d, skip, size), "decided")
             = Fetch(Marked(p, "pending") \o Marked(d, "decided"), skip, size)
      BY <1>2, PageIsOne
    <3> QED
      BY <2>5, <3>1, <3>2, <3>3
  <2> QED
    BY <2>6, ListedIs DEF p, d
<1>14. ASSUME l.of.page = 0, NEW g \in Got(m), g[2] = "decided", NEW n \in l.waiting
       PROVE  <<n, "pending">> \in Got(m)
  <2>1. PICK i \in 1..(x + y) : g = m.got[i]
    BY <1>10, <1>12, <1>14 DEF Got
  <2>2. ~(i <= x)
    <3>1. SUFFICES ASSUME i <= x PROVE FALSE
      OBVIOUS
    <3>2. g = l.got[i]
      BY <1>10, <1>12, <2>1, <3>1
    <3>3. i \in DOMAIN l.got
      BY <1>1, <1>8, <3>1
    <3>4. g[2] = "pending"
      BY <1>3, <3>2, <3>3 DEF Got
    <3> QED
      BY <1>14, <3>4
  <2>3. y > 0
    BY <2>2
  <2>4. LeftAfter(Len(d), from, rest) > 0 /\ Len(d) \in Nat
    BY <1>2, <1>6, <1>7, <1>9, <2>3 DEF IsPart
  <2>5. rest > 0
    BY <2>4 DEF LeftAfter
  <2>6. Len(l.got) < PageSize
    BY <1>1, <1>4, <1>8, <2>5
  <2>7. <<n, "pending">> \in Got(l)
    BY <1>3, <1>14, <2>6
  <2>8. PICK j \in 1..x : l.got[j] = <<n, "pending">>
    <3>1. PICK j \in DOMAIN l.got : l.got[j] = <<n, "pending">>
      BY <2>7 DEF Got
    <3>2. DOMAIN l.got = 1..x
      BY <1>1, <1>8
    <3> QED
      BY <3>1, <3>2
  <2>9. j \in DOMAIN (l.got \o mk) /\ (l.got \o mk)[j] = <<n, "pending">>
    BY <1>10, <2>8
  <2> QED
    BY <1>12, <2>9 DEF Got
<1>15. Complete(m)
  BY <1>12, <1>13, <1>14 DEF Complete
<1>16. Counted(m) /\ CountReaches(m) /\ PendingTaken(m)
  BY <1>12 DEF Counted, CountReaches, PendingTaken
<1>17. Sound(m)
  BY <1>11, <1>12, <1>15, <1>16 DEF Sound
<1> QED
  BY <1>17 DEF m, mk

\* What is filed is new, and after all there is.
LEMMA FileIsSound ==
    ASSUME QueueInv, File
    PROVE  QueueInv'
<1>1. /\ standing \in Seq(Standings) /\ Filed = 1..Len(standing) /\ Len(standing) \in Nat
  BY DEF QueueInv, Filed
<1>2. PICK new \in Nat : new = Len(standing) + 1
  BY <1>1
<1>3. /\ standing' \in Seq(Standings) /\ Filed' = 1..new
      /\ standing'[new] = "pending" /\ \A n \in Filed : standing'[n] = standing[n]
  BY <1>1, <1>2 DEF File, Filed, Standings
<1>4. Filed \subseteq Filed' /\ Filed' = Filed \cup {new} /\ \A n \in Filed : n < new
  BY <1>1, <1>2, <1>3
<1>5. ASSUME NEW filter
      PROVE  /\ Members("pending", filter) \subseteq Members("pending", filter)'
             /\ \A n \in Members("pending", filter) : Ahead(n, filter)' \subseteq Ahead(n, filter)
  <2>1. Members("pending", filter) \subseteq Members("pending", filter)'
    BY <1>3, <1>4 DEF Members
  <2>2. Members("pending", filter)' \subseteq Members("pending", filter) \cup {new}
    BY <1>3, <1>4 DEF Members
  <2>3. \A n \in Members("pending", filter) : <<new, n>> \notin Comes("pending")
    BY <1>1, <1>4 DEF Members, Comes
  <2>4. \A n : Ahead(n, filter)' = {j \in Members("pending", filter)' : <<j, n>> \in Comes("pending")}
    BY DEF Ahead, Below
  <2>5. \A n : Ahead(n, filter) = {j \in Members("pending", filter) : <<j, n>> \in Comes("pending")}
    BY DEF Ahead, Below
  <2> QED
    BY <2>1, <2>2, <2>3, <2>4, <2>5
<1>6. ASSUME NEW l \in loads PROVE Sound([l EXCEPT !.quiet = FALSE, !.waiting = @ \ {}])'
  <2>1. Sound(l) /\ l.waiting \subseteq Members("pending", l.of.filter)
    BY DEF QueueInv, Sound
  <2>2. l.waiting \ {} \subseteq Members("pending", l.of.filter)'
    BY <1>5, <2>1
  <2>3. \A n \in l.waiting \ {} : Ahead(n, l.of.filter)' \subseteq Ahead(n, l.of.filter)
    BY <1>5, <2>1
  <2> QED
    BY <1>1, <2>1, <2>2, <2>3, DisturbedIsSound
<1>7. \A l \in loads' : Sound(l)'
  BY <1>6 DEF File, Disturbed
<1>8. look' \in Looks /\ decisions' \subseteq (Filed \X Looks)'
  BY <1>4 DEF QueueInv, File
<1> QED
  BY <1>3, <1>7, <1>8 DEF QueueInv

\* What a decision takes out of the pending bucket.
LEMMA DecidedLeaves ==
    ASSUME QueueInv, NEW n \in Filed,
           standing' = [standing EXCEPT ![n] = "decided"]
    PROVE  /\ standing' \in Seq(Standings) /\ Filed' = Filed
           /\ \A filter : Members("pending", filter)' = Members("pending", filter) \ {n}
           /\ \A l \in Disturbed({n}) : Sound(l)'
<1>1. /\ standing \in Seq(Standings) /\ Filed = 1..Len(standing) /\ Len(standing) \in Nat
  BY DEF QueueInv, Filed
<1>2. /\ standing' \in Seq(Standings) /\ Filed' = Filed
      /\ standing'[n] = "decided" /\ \A i \in Filed \ {n} : standing'[i] = standing[i]
  BY <1>1 DEF Filed, Standings
<1>3. ASSUME NEW filter PROVE Members("pending", filter)' = Members("pending", filter) \ {n}
  BY <1>2 DEF Members
<1>4. ASSUME NEW filter, NEW i PROVE Ahead(i, filter)' \subseteq Ahead(i, filter)
  BY <1>3 DEF Ahead, Below
<1>5. ASSUME NEW l \in loads PROVE Sound([l EXCEPT !.quiet = FALSE, !.waiting = @ \ {n}])'
  <2>1. Sound(l) /\ l.waiting \subseteq Members("pending", l.of.filter)
    BY DEF QueueInv, Sound
  <2>2. l.waiting \ {n} \subseteq Members("pending", l.of.filter)'
    BY <1>3, <2>1
  <2>3. \A i \in l.waiting \ {n} : Ahead(i, l.of.filter)' \subseteq Ahead(i, l.of.filter)
    BY <1>4
  <2> QED
    BY <1>1, <2>1, <2>2, <2>3, DisturbedIsSound
<1>6. \A l \in Disturbed({n}) : Sound(l)'
  BY <1>5 DEF Disturbed
<1> QED
  BY <1>2, <1>3, <1>6

\* A decision by anybody.
LEMMA DecideIsSound ==
    ASSUME QueueInv, NEW n \in Filed, Decide(n)
    PROVE  QueueInv'
<1>1. /\ standing' \in Seq(Standings) /\ Filed' = Filed /\ \A l \in Disturbed({n}) : Sound(l)'
  BY DecidedLeaves DEF Decide
<1> QED
  BY <1>1 DEF QueueInv, Decide

\* A page asked for, among others under way.
LEMMA LookIsSound ==
    ASSUME QueueInv, NEW q \in Looks, Look(q)
    PROVE  QueueInv'
<1>1. UNCHANGED standing /\ loads' = loads \cup {Load(q)} /\ look' = q /\ UNCHANGED decisions
  BY DEF Look
<1>2. PICK w : w = Members("pending", q.filter)
  OBVIOUS
<1>3. PICK fresh : fresh = Load(q)
  OBVIOUS
<1>4. Sound(fresh)'
  <2>1. w \subseteq Nat
    BY <1>2, BucketLists DEF QueueInv, Standings
  <2>2. fresh = [of |-> q, step |-> "count", count |-> 0, got |-> << >>, quiet |-> TRUE, waiting |-> w]
    BY <1>2, <1>3 DEF Load, Members
  <2>3. fresh \in LoadTypes /\ fresh.step = "count" /\ fresh.of = q /\ fresh.waiting = w
    BY <2>1, <2>2 DEF LoadTypes
  <2>4. w \subseteq Members("pending", q.filter)'
    BY <1>1, <1>2 DEF Members, Filed
  <2> QED
    BY <2>3, <2>4, StartsSound
<1>5. \A l \in loads : Sound(l)'
  BY <1>1, StaysSound DEF QueueInv
<1>6. \A l \in loads' : Sound(l)'
  BY <1>1, <1>3, <1>4, <1>5
<1> QED
  BY <1>1, <1>6 DEF QueueInv, Filed

\* The approver's own decision, and the page loaded after it.
LEMMA DecisionMadeIsSound ==
    ASSUME QueueInv, NEW d \in decisions, DecisionMade(d)
    PROVE  QueueInv'
<1> DEFINE n == d[1]
           q == d[2]
<1>1. n \in Filed /\ q \in Looks /\ standing \in Seq(Standings)
  BY DEF QueueInv
<1>2. look' = look /\ decisions' \subseteq decisions
  BY DEF DecisionMade
<1>3. CASE standing[n] = "pending"
  <2>1. PICK w : w = Members("pending", q.filter)
    OBVIOUS
  <2>2. PICK fresh : fresh = [Load(q) EXCEPT !.waiting = @ \ {n}]
    OBVIOUS
  <2>3. standing' = [standing EXCEPT ![n] = "decided"] /\ loads' = Disturbed({n}) \cup {fresh}
    BY <1>3, <2>2 DEF DecisionMade
  <2>4. /\ standing' \in Seq(Standings) /\ Filed' = Filed
        /\ \A filter : Members("pending", filter)' = Members("pending", filter) \ {n}
        /\ \A l \in Disturbed({n}) : Sound(l)'
    BY <1>1, <2>3, DecidedLeaves
  <2>5. w \subseteq Nat
    BY <1>1, <2>1, BucketLists DEF Standings
  <2>6. Load(q) \in LoadTypes /\ Load(q).step = "count" /\ Load(q).of = q /\ Load(q).waiting = w
    <3>1. Load(q) = [of |-> q, step |-> "count", count |-> 0, got |-> << >>, quiet |-> TRUE, waiting |-> w]
      BY <2>1 DEF Load, Members
    <3> QED
      BY <1>1, <2>5, <3>1 DEF LoadTypes
  <2>7. fresh \in LoadTypes /\ fresh.step = "count" /\ fresh.of = q /\ fresh.waiting = w \ {n}
    BY <2>2, <2>5, <2>6 DEF LoadTypes
  <2>8. fresh.waiting \subseteq Members("pending", fresh.of.filter)'
    BY <2>1, <2>4, <2>7
  <2>9. Sound(fresh)'
    BY <2>7, <2>8, StartsSound
  <2>10. \A l \in loads' : Sound(l)'
    BY <2>3, <2>4, <2>9
  <2> QED
    BY <1>2, <2>4, <2>10 DEF QueueInv
<1>4. CASE standing[n] # "pending"
  <2>1. UNCHANGED <<standing, loads>>
    BY <1>4 DEF DecisionMade
  <2>2. \A l \in loads' : Sound(l)'
    BY <2>1, StaysSound DEF QueueInv
  <2> QED
    BY <1>2, <2>1, <2>2 DEF QueueInv, Filed
<1> QED
  BY <1>3, <1>4

\* A query of one page, beside the others.
LEMMA ProceedsSoundly ==
    ASSUME QueueInv, NEW l \in loads, NEW next, Sound(next), Proceeds(l, next)
    PROVE  QueueInv'
<1>1. UNCHANGED <<standing, look, decisions>> /\ loads' = (loads \ {l}) \cup {next}
  BY DEF Proceeds
<1>2. \A k \in loads' : Sound(k)'
  BY <1>1, StaysSound DEF QueueInv
<1> QED
  BY <1>1, <1>2 DEF QueueInv, Filed

\* Every step keeps the invariant.
LEMMA QueueStep ==
    QueueInv /\ [QueueNext]_queueVars => QueueInv'
<1> SUFFICES ASSUME QueueInv, [QueueNext]_queueVars
             PROVE  QueueInv'
  OBVIOUS
<1>1. CASE File
  BY <1>1, FileIsSound
<1>2. ASSUME NEW n \in Filed, Decide(n) PROVE QueueInv'
  BY <1>2, DecideIsSound
<1>3. ASSUME NEW n \in Filed, DecideOn(n) PROVE QueueInv'
  <2>1. UNCHANGED <<standing, look, loads>> /\ decisions' = {<<n, look>>}
    BY <1>3 DEF DecideOn
  <2>2. \A l \in loads' : Sound(l)'
    BY <2>1, StaysSound DEF QueueInv
  <2> QED
    BY <2>1, <2>2 DEF QueueInv, Filed
<1>4. ASSUME NEW q \in Looks, Look(q) PROVE QueueInv'
  BY <1>4, LookIsSound
<1>5. ASSUME NEW d \in decisions, DecisionMade(d) PROVE QueueInv'
  BY <1>5, DecisionMadeIsSound
<1>6. ASSUME NEW l \in loads, Count(l) PROVE QueueInv'
  <2>1. Sound(l) /\ standing \in Seq(Standings) /\ l.step = "count"
    BY <1>6 DEF QueueInv, Count
  <2>2. Sound([l EXCEPT !.step = "pending", !.count = Len(Bucket("pending", l.of.filter))])
    BY <2>1, CountIsSound
  <2> QED
    BY <1>6, <2>2, ProceedsSoundly DEF Count
<1>7. ASSUME NEW l \in loads, FetchPending(l) PROVE QueueInv'
  <2>1. Sound(l) /\ standing \in Seq(Standings) /\ l.step = "pending"
    BY <1>7 DEF QueueInv, FetchPending
  <2>2. PICK got : got = IF Skip(l.of) >= l.count THEN << >>
                          ELSE Fetch(Bucket("pending", l.of.filter), Skip(l.of), PendingTake(l))
    OBVIOUS
  <2>3. Sound([l EXCEPT !.step = "decided", !.got = Marked(got, "pending")])
    BY <2>1, <2>2, FetchPendingIsSound
  <2>4. Proceeds(l, [l EXCEPT !.step = "decided", !.got = Marked(got, "pending")])
    BY <1>7, <2>2 DEF FetchPending
  <2> QED
    BY <2>3, <2>4, ProceedsSoundly
<1>8. ASSUME NEW l \in loads, FetchDecided(l) PROVE QueueInv'
  <2>1. Sound(l) /\ standing \in Seq(Standings) /\ l.step = "decided"
    BY <1>8 DEF QueueInv, FetchDecided
  <2>2. PICK got : got = Fetch(Bucket("decided", l.of.filter), DecidedSkip(l), PageSize - Len(l.got))
    OBVIOUS
  <2>3. Sound([l EXCEPT !.step = "answered", !.got = @ \o Marked(got, "decided")])
    BY <2>1, <2>2, FetchDecidedIsSound
  <2>4. Proceeds(l, [l EXCEPT !.step = "answered", !.got = @ \o Marked(got, "decided")])
    BY <1>8, <2>2 DEF FetchDecided
  <2> QED
    BY <2>3, <2>4, ProceedsSoundly
<1>9. ASSUME NEW l \in loads, Answered(l) PROVE QueueInv'
  <2>1. UNCHANGED <<standing, look, decisions>> /\ loads' \subseteq loads
    BY <1>9 DEF Answered
  <2>2. \A k \in loads' : Sound(k)'
    BY <2>1, StaysSound DEF QueueInv
  <2> QED
    BY <2>1, <2>2 DEF QueueInv, Filed
<1>10. CASE UNCHANGED queueVars
  <2>1. UNCHANGED <<standing, look, loads, decisions>>
    BY <1>10 DEF queueVars
  <2>2. \A l \in loads' : Sound(l)'
    BY <2>1, StaysSound DEF QueueInv
  <2> QED
    BY <2>1, <2>2 DEF QueueInv, Filed
<1> QED
  BY <1>1, <1>2, <1>3, <1>4, <1>5, <1>6, <1>7, <1>8, <1>9, <1>10 DEF QueueNext

\* It holds at first, with nothing filed.
LEMMA QueueStart ==
    QueueInit => QueueInv
<1> SUFFICES ASSUME QueueInit PROVE QueueInv
  OBVIOUS
<1>1. standing \in Seq(Standings) /\ loads = {} /\ decisions = {}
  BY DEF QueueInit
<1>2. look \in Looks
  BY QueueAssumption DEF QueueInit, Looks, Filters
<1> QED
  BY <1>1, <1>2 DEF QueueInv

\* And it has what is to be shown.
LEMMA SoundPages ==
    QueueInv => PageIsOfTheList
<1> SUFFICES ASSUME QueueInv, NEW l \in loads, l.step = "answered"
             PROVE  /\ l.quiet => l.got = Fetch(Listed(l.of.filter), Skip(l.of), PageSize)
                    /\ l.of.page = 0 /\ (\E g \in Got(l) : g[2] = "decided") =>
                          \A n \in l.waiting : <<n, "pending">> \in Got(l)
  BY DEF PageIsOfTheList, QuietPageIsTheList, PendingOutranksDecided, Got
<1> QED
  BY DEF QueueInv, Sound, Complete

\* A page that nothing was filed or decided during is that part of the list, in
\* order, wherever the two buckets meet on it; and on the first page, however
\* filings and decisions fall between its three queries, something decided is
\* only below all that was pending all along (fetchByPriority).
THEOREM PagesAreOfTheList == QueueSpec => []PageIsOfTheList
BY QueueStart, QueueStep, SoundPages, PTL DEF QueueSpec
===============================================================================
