------------------------------- MODULE AgentRates -------------------------------
(***************************************************************************)
(* The dialog of pages/MyAgents.jsx in which an agent's own rates are set,  *)
(* one period at a time, and the routes of routes/agents.js it reads from   *)
(* and saves to.  The dialog stays mounted: what it shows is loaded again    *)
(* when the agent or the period changes, and kept when it is closed.  One    *)
(* Save is a request for all net rates and one for each table that changed.  *)
(*                                                                         *)
(* A table of tiers is one text, and so are the scalars of a coverage.  One  *)
(* that names an amount twice is refused in its turn, as a request that      *)
(* fails.                                                                   *)
(***************************************************************************)
EXTENDS Integers, Sequences, SequencesExt, FiniteSets

CONSTANTS
    Agents,     \* on the roster
    Employed,   \* those priced as the company they work for
    CompanyOf,  \* that company
    RatedDays,  \* periods there are
    UsualDays,  \* the one the dialog starts from
    ModeOf,     \* how each coverage is priced
    InOrder,    \* the coverages, in the order they are listed in
    OnOffer,    \* those of each period
    RateTexts,  \* what may be entered
    RateClicks  \* bound on what the administrator does

NoAgent == "no agent"
NoDays  == 0
NoRate  == "blank"
AsAgreed == "as agreed"

ASSUME RatesAssumption ==
    /\ Employed \subseteq Agents /\ NoAgent \notin Agents
    /\ \A a \in Employed : CompanyOf[a] \in Agents \ Employed
    /\ UsualDays \in RatedDays /\ NoDays \notin RatedDays
    /\ \A d \in RatedDays : OnOffer[d] \subseteq ToSet(InOrder)
    /\ InOrder \in Seq(ToSet(InOrder)) /\ RateClicks \in Nat

PartsOf(c) == CASE ModeOf[c] = "PERCENTAGE"          -> <<"net rate">>
                [] ModeOf[c] = "VEHICLE_SEATS_BASED" -> <<"scalars", "tiers">>
                [] OTHER                             -> <<"tiers">>

Percent(d) == {c \in OnOffer[d] : ModeOf[c] = "PERCENTAGE"}

Entry(c, figure) == [p \in ToSet(PartsOf(c)) |-> figure]

VARIABLES
    onFile,   \* each agent's rates for each period
    rates,    \* the dialog; and (a ghost) whose rates it shows, for which period
    asked,    \* rates asked for, and not arrived
    saving,   \* the save under way
    done      \* clicks

ratesVars == <<onFile, rates, asked, saving, done>>

NoOnesRates == <<NoAgent, NoDays>>

NotSaved == [agent |-> NoAgent]

\* A company has agreed on every table of every coverage, others on none.
RatesInit ==
    /\ onFile = [a \in Agents |-> [d \in RatedDays |-> [c \in OnOffer[d] |->
                    Entry(c, IF \E e \in Employed : CompanyOf[e] = a THEN AsAgreed ELSE NoRate)]]]
    /\ rates = [agent |-> NoAgent, open |-> FALSE, days |-> NoDays, loading |-> TRUE,
                inherited |-> FALSE, of |-> NoOnesRates, loaded |-> << >>, shown |-> << >>]
    /\ asked = {}
    /\ saving = NotSaved
    /\ done = 0

Saves == saving # NotSaved

Clicked == done < RateClicks /\ done' = done + 1

-----------------------------------------------------------------------------
(* Loading.                                                                 *)

Ask(a, d) == {[at |-> done', agent |-> a, days |-> d, served |-> FALSE, inherited |-> FALSE, found |-> << >>]}

\* A row of the roster is clicked.  Its rates are loaded if it is another
\* agent's, once there is a period to load them for.
ManageRates(a) ==
    /\ ~rates.open
    /\ Clicked
    /\ IF a # rates.agent /\ rates.days # NoDays
       THEN /\ rates' = [rates EXCEPT !.agent = a, !.open = TRUE, !.loading = TRUE]
            /\ asked' = asked \cup Ask(a, rates.days)
       ELSE rates' = [rates EXCEPT !.agent = a, !.open = TRUE] /\ UNCHANGED asked
    /\ UNCHANGED <<onFile, saving>>

\* The periods arrive, and the usual one is chosen.  They are asked for again
\* for each agent, and then change nothing.
PeriodsArriveFirst ==
    /\ rates.agent # NoAgent /\ rates.days = NoDays
    /\ rates' = [rates EXCEPT !.days = UsualDays, !.loading = TRUE]
    /\ UNCHANGED <<onFile, saving, done>>
    /\ asked' = asked \cup Ask(rates.agent, UsualDays)

ChoosePeriod(d) ==
    /\ rates.open /\ ~rates.loading /\ d # rates.days
    /\ Clicked
    /\ rates' = [rates EXCEPT !.days = d, !.loading = TRUE]
    /\ asked' = asked \cup Ask(rates.agent, d)
    /\ UNCHANGED <<onFile, saving>>

\* GET /:id/netrates: an employee's are those of the company.
ReadNetrates(q) ==
    /\ ~q.served
    /\ LET owner == IF q.agent \in Employed THEN CompanyOf[q.agent] ELSE q.agent
       IN  asked' = (asked \ {q}) \cup
               {[q EXCEPT !.served = TRUE, !.inherited = q.agent \in Employed,
                          !.found = onFile[owner][q.days]]}
    /\ UNCHANGED <<onFile, rates, saving, done>>

\* An entry for every coverage that has a figure of its own.
FormOf(found) ==
    [c \in {c \in DOMAIN found : found[c] # Entry(c, NoRate)} |-> found[c]]

\* Whatever arrives is shown, whichever agent and period it was asked for.
NetratesArrive(q) ==
    /\ q.served
    /\ rates' = [rates EXCEPT !.loading = FALSE, !.inherited = q.inherited,
                              !.of = <<q.agent, q.days>>, !.loaded = q.found, !.shown = FormOf(q.found)]
    /\ asked' = asked \ {q}
    /\ UNCHANGED <<onFile, saving, done>>

NetratesFail(q) ==
    /\ rates' = [rates EXCEPT !.loading = FALSE]
    /\ asked' = asked \ {q}
    /\ UNCHANGED <<onFile, saving, done>>

-----------------------------------------------------------------------------
(* Entering.  Nothing stops it while a save is under way.                    *)

Enters ==
    /\ rates.open /\ ~rates.loading /\ ~rates.inherited
    /\ Clicked
    /\ UNCHANGED <<onFile, asked, saving>>

\* A coverage is checked, with everything blank, or unchecked.
ToggleOverride(c) ==
    /\ Enters
    /\ rates' = [rates EXCEPT !.shown =
                    IF c \in DOMAIN @ THEN [k \in DOMAIN @ \ {c} |-> @[k]]
                    ELSE [k \in DOMAIN @ \cup {c} |-> IF k = c THEN Entry(c, NoRate) ELSE @[k]]]

EnterRate(c, p, figure) ==
    /\ Enters
    /\ c \in DOMAIN rates.shown /\ p \in DOMAIN rates.shown[c] /\ rates.shown[c][p] # figure
    /\ rates' = [rates EXCEPT !.shown[c][p] = figure]

\* Cancel, or Close: what was entered stays.
LeaveRates ==
    /\ rates.open
    /\ Clicked
    /\ rates' = [rates EXCEPT !.open = FALSE]
    /\ UNCHANGED <<onFile, asked, saving>>

-----------------------------------------------------------------------------
(* Saving: with the agent, the period, what is shown and what was loaded as    *)
(* they are when Save is clicked.                                            *)

ShownIn(s, c, p) == IF c \in DOMAIN s.shown THEN s.shown[c][p] ELSE NoRate

AllNetRates == <<"every coverage", "net rate">>

TableChanged(s, step) ==
    /\ step[2] \in ToSet(PartsOf(step[1]))
    /\ ShownIn(s, step[1], step[2]) # s.loaded[step[1]][step[2]]

IfChanged(s, step) == IF TableChanged(s, step) THEN <<step>> ELSE << >>

\* The tables of a coverage that was listed.
TablesOf(s, c) ==
    IF c \in DOMAIN s.loaded THEN IfChanged(s, <<c, "scalars">>) \o IfChanged(s, <<c, "tiers">>) ELSE << >>

\* All net rates, then each table that changed, in the order of the coverages.
StepsOf(s) == <<AllNetRates>> \o FlattenSeq([i \in DOMAIN InOrder |-> TablesOf(s, InOrder[i])])

\* Every coverage that is checked has all its figures.
Complete(shown) == \A c \in DOMAIN shown : \A p \in DOMAIN shown[c] : shown[c][p] # NoRate

SaveRates ==
    /\ rates.open /\ ~rates.loading /\ ~rates.inherited /\ ~Saves
    /\ Complete(rates.shown)
    /\ Clicked
    /\ LET s == [agent |-> rates.agent, days |-> rates.days, shown |-> rates.shown,
                 loaded |-> rates.loaded, todo |-> << >>]
       IN  saving' = [s EXCEPT !.todo = StepsOf(s)]
    /\ UNCHANGED <<onFile, rates, asked>>

\* variant: rates of employees are written like any others
RefusedUnlessOffered(s, step) ==
    IF step = AllNetRates
    THEN \E c \in DOMAIN s.shown : ModeOf[c] = "PERCENTAGE" /\ c \notin OnOffer[s.days]
    ELSE step[1] \notin OnOffer[s.days]

\* An employee's own rates are not read, and cannot be written; nor can those
\* of a coverage that is not offered for the period.
Refused(s, step) == s.agent \in Employed \/ RefusedUnlessOffered(s, step)

\* variant: net rates that are not sent are left as they were
Upserted(of, s, step) ==
    IF step = AllNetRates
    THEN [c \in DOMAIN of |-> IF c \in Percent(s.days) \cap DOMAIN s.shown THEN s.shown[c] ELSE of[c]]
    ELSE [of EXCEPT ![step[1]][step[2]] = ShownIn(s, step[1], step[2])]

\* All net rates of the period are replaced, or one table is.
Replacing(of, s, step) ==
    IF step = AllNetRates
    THEN [c \in DOMAIN of |-> IF c \in Percent(s.days)
                              THEN Entry(c, ShownIn(s, c, "net rate")) ELSE of[c]]
    ELSE [of EXCEPT ![step[1]][step[2]] = ShownIn(s, step[1], step[2])]

Writes ==
    LET of == onFile[saving.agent][saving.days]
    IN  onFile' = [onFile EXCEPT ![saving.agent][saving.days] = Replacing(of, saving, Head(saving.todo))]

SaveRequest ==
    /\ Saves /\ saving.todo # << >>
    /\ ~Refused(saving, Head(saving.todo))
    /\ Writes
    /\ saving' = [saving EXCEPT !.todo = Tail(@)]
    /\ UNCHANGED <<rates, asked, done>>

\* A request is refused or fails, or its answer is lost: the rest is not sent.
SaveFails ==
    /\ Saves /\ saving.todo # << >>
    /\ \/ UNCHANGED onFile
       \/ ~Refused(saving, Head(saving.todo)) /\ Writes
    /\ saving' = NotSaved
    /\ UNCHANGED <<rates, asked, done>>

\* The dialog is closed, whoever's it has become.  What was loaded stays as it was.
SaveSucceeds ==
    /\ Saves /\ saving.todo = << >>
    /\ rates' = [rates EXCEPT !.open = FALSE]
    /\ saving' = NotSaved
    /\ UNCHANGED <<onFile, asked, done>>

RatesNext ==
    \/ \E a \in Agents : ManageRates(a)
    \/ PeriodsArriveFirst
    \/ \E d \in RatedDays : ChoosePeriod(d)
    \/ \E q \in asked : ReadNetrates(q) \/ NetratesArrive(q) \/ NetratesFail(q)
    \/ \E c \in DOMAIN rates.loaded : ToggleOverride(c)
    \/ \E c \in DOMAIN rates.shown, figure \in RateTexts \cup {NoRate} :
          \E p \in DOMAIN rates.shown[c] : EnterRate(c, p, figure)
    \/ LeaveRates
    \/ SaveRates \/ SaveRequest \/ SaveFails \/ SaveSucceeds

RatesSpec == RatesInit /\ [][RatesNext]_ratesVars

-----------------------------------------------------------------------------
(* What the dialog guarantees.                                               *)

\* Once every request of a Save is answered, the agent's net rates are those
\* that were shown, and a table on file is another than the one shown only where
\* the one shown is as it was loaded, whatever failed before, whichever agent's
\* the rates were loaded for, and whatever the dialog shows by now.
SavedAsShown ==
    Saves /\ saving.todo = << >> =>
        LET file == onFile[saving.agent][saving.days]
        IN  \A c \in DOMAIN file, p \in {"net rate", "scalars", "tiers"} :
                p \in DOMAIN file[c] /\ (p = "net rate" \/ c \in DOMAIN saving.loaded) =>
                    \/ file[c][p] = ShownIn(saving, c, p)
                    \/ p # "net rate" /\ ShownIn(saving, c, p) = saving.loaded[c][p]

\* Employees have no rates of their own, though the dialog may show another
\* agent's as theirs, to be edited and saved.
EmployeesFollowTheirCompany ==
    \A e \in Employed, d \in RatedDays : FormOf(onFile[e][d]) = << >>

RatesAreWrittenAsShown == SavedAsShown /\ EmployeesFollowTheirCompany

-----------------------------------------------------------------------------
(* What comments of the code say, and the page does not keep.                *)

\* What is sent is what "actually changed (added, edited, or removed)"
\* (MyAgents.jsx:224-226): with it, everything shown is on file.
SavedIsOnFile ==
    Saves /\ saving.todo = << >> =>
        \A c \in DOMAIN saving.loaded \cap OnOffer[saving.days], p \in {"net rate", "scalars", "tiers"} :
            p \in ToSet(PartsOf(c)) => onFile[saving.agent][saving.days][c][p] = ShownIn(saving, c, p)

\* "what's shown below" is this agent's, or the "company's own rates"
\* (MyAgents.jsx:94-99), and for the period chosen: not of the agent managed
\* before, nor nobody's because they failed to load.
RatesAreTheAgents == rates.open /\ ~rates.loading => rates.of = <<rates.agent, rates.days>>
================================================================================
