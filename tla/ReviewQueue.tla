------------------------------ MODULE ReviewQueue ------------------------------
(***************************************************************************)
(* The list approvers work from: fetchByPriority (lib/priorityPagination.js)   *)
(* behind GET /policy-approval and GET /endorsements, and the page that shows   *)
(* it (pages/PolicyApproval.jsx; pages/EndorsementApproval.jsx is the same).     *)
(*                                                                         *)
(* What is filed is numbered in the order it was: what is pending comes first,    *)
(* oldest first, then what is decided, newest first.  The three queries of a       *)
(* page are statements of their own, with filings and decisions in between.        *)
(***************************************************************************)
EXTENDS Sequences, FiniteSetsExt, Arrangements

CONSTANTS
    MaxFiled,   \* filings made
    PageSize,   \* rows of a page
    MaxPage,    \* pages an approver looks at
    MaxLoads    \* pages under way at a time

ASSUME QueueAssumption ==
    /\ MaxFiled \in Nat /\ PageSize \in Nat \ {0} /\ MaxPage \in Nat /\ MaxLoads \in Nat

Standings == {"pending", "decided"}
Filters   == {Standings, {"pending"}, {"decided"}}    \* the status filter
Looks     == [page : 0..MaxPage, filter : Filters]

VARIABLES
    standing,   \* what has been filed, and where each of them stands
    look,       \* the page and the filter chosen
    listed,     \* the rows shown, of which look
    loads,      \* pages under way
    decisions   \* decisions the approver waits for: the look each was made from

queueVars == <<standing, look, listed, loads, decisions>>

Filed == DOMAIN standing

NewestFirst(s, filter) ==   \* variant: both buckets newest first
    Arranged({n \in Filed : standing[n] = s /\ s \in filter}, LAMBDA a, b : a > b)

\* One bucket of the list, as a query returns it.
Bucket(s, filter) ==
    LET members == {n \in Filed : standing[n] = s /\ s \in filter}
    IN  Arranged(members, LAMBDA a, b : IF s = "pending" THEN a < b ELSE a > b)

Skip(q) == q.page * PageSize

\* findMany with skip and take.
Fetch(bucket, skip, take) == SubSeq(bucket, skip + 1, Min({skip + take, Len(bucket)}))

Marked(numbers, s) == [i \in DOMAIN numbers |-> <<numbers[i], s>>]

QueueInit ==
    /\ standing = << >> /\ look = [page |-> 0, filter |-> Standings]
    /\ listed = [of |-> [page |-> 0, filter |-> Standings], shown |-> << >>]
    /\ loads = {} /\ decisions = {}

-----------------------------------------------------------------------------
(* Filings and decisions, by anybody.  A page under way is no longer quiet, and *)
(* what is decided has not stayed pending.                                      *)

Disturbed(decided) ==
    {[l EXCEPT !.quiet = FALSE, !.waiting = @ \ decided] : l \in loads}

File ==
    /\ Len(standing) < MaxFiled
    /\ standing' = Append(standing, "pending")
    /\ loads' = Disturbed({})
    /\ UNCHANGED <<look, listed, decisions>>

Decide(n) ==
    /\ standing[n] = "pending"
    /\ standing' = [standing EXCEPT ![n] = "decided"]
    /\ loads' = Disturbed({n})
    /\ UNCHANGED <<look, listed, decisions>>

-----------------------------------------------------------------------------
(* The page.                                                                    *)

Load(q) ==
    [of |-> q, step |-> "count", count |-> 0, got |-> << >>, quiet |-> TRUE,
     waiting |-> IF "pending" \in q.filter THEN {n \in Filed : standing[n] = "pending"} ELSE {}]

\* Another page; or another filter, from its first page.
Look(q) ==
    /\ q # look /\ (q.filter # look.filter => q.page = 0)
    /\ Cardinality(loads) < MaxLoads
    /\ look' = q
    /\ loads' = loads \cup {Load(q)}
    /\ UNCHANGED <<standing, listed, decisions>>

\* A row is opened and decided on; the dialog keeps the page's handler of then.
DecideOn(n) ==
    /\ <<n, "pending">> \in {listed.shown[i] : i \in DOMAIN listed.shown}
    /\ decisions = {}
    /\ decisions' = {<<n, look>>}
    /\ UNCHANGED <<standing, look, listed, loads>>

\* onApproved: the page is loaded again, for the look the handler was made for.
DecisionMade(d) ==
    /\ Cardinality(loads) < MaxLoads
    /\ decisions' = decisions \ {d}
    /\ IF standing[d[1]] = "pending"
       THEN /\ standing' = [standing EXCEPT ![d[1]] = "decided"]
            /\ loads' = Disturbed({d[1]}) \cup
                          {[Load(d[2]) EXCEPT !.waiting = @ \ {d[1]}]}
       ELSE UNCHANGED <<standing, loads>>
    /\ UNCHANGED <<look, listed>>

-----------------------------------------------------------------------------
(* fetchByPriority.                                                             *)

Proceeds(l, next) ==
    /\ loads' = (loads \ {l}) \cup {next}
    /\ UNCHANGED <<standing, look, listed, decisions>>

Count(l) ==
    /\ l.step = "count"
    /\ Proceeds(l, [l EXCEPT !.step = "pending", !.count = Len(Bucket("pending", l.of.filter))])

PendingTake(l) == Min({PageSize, l.count - Skip(l.of)})

FetchPending(l) ==
    /\ l.step = "pending"
    /\ LET got == IF Skip(l.of) >= l.count THEN << >>
                  ELSE Fetch(Bucket("pending", l.of.filter), Skip(l.of), PendingTake(l))
       IN  Proceeds(l, [l EXCEPT !.step = "decided", !.got = Marked(got, "pending")])

SkipOnly(l) == Skip(l.of)   \* variant: each bucket is skipped into from its own start

\* The list is one: what the pending bucket took off the skip is taken off here.
DecidedSkip(l) == Max({0, Skip(l.of) - l.count})

FetchDecided(l) ==
    /\ l.step = "decided"
    /\ LET rest == PageSize - Len(l.got)
           got == Fetch(Bucket("decided", l.of.filter), DecidedSkip(l), rest)
       IN  Proceeds(l, [l EXCEPT !.step = "answered", !.got = @ \o Marked(got, "decided")])

\* The answer is shown, whatever has been asked for since.
Answered(l) ==
    /\ l.step = "answered"
    /\ listed' = [of |-> l.of, shown |-> l.got]
    /\ loads' = loads \ {l}
    /\ UNCHANGED <<standing, look, decisions>>

QueueNext ==
    \/ File \/ \E n \in Filed : Decide(n) \/ DecideOn(n)
    \/ \E q \in Looks : Look(q)
    \/ \E d \in decisions : DecisionMade(d)
    \/ \E l \in loads : Count(l) \/ FetchPending(l) \/ FetchDecided(l) \/ Answered(l)

QueueSpec == QueueInit /\ [][QueueNext]_queueVars

-----------------------------------------------------------------------------
(* The list, in one piece.                                                      *)
Listed(filter) ==
    LET of(s, before(_, _)) ==
            Marked(Arranged({n \in Filed : standing[n] = s /\ s \in filter}, before), s)
    IN  of("pending", LAMBDA a, b : a < b) \o of("decided", LAMBDA a, b : a > b)

\* A page that nothing was filed or decided during is that part of the list,
\* wherever the two buckets meet: the pages hold every row once, in order.
QuietPageIsTheList ==
    \A l \in loads : l.step = "answered" /\ l.quiet =>
        l.got = Fetch(Listed(l.of.filter), Skip(l.of), PageSize)

\* However filings and decisions fall between its queries, the first page shows
\* something decided only below everything that was pending all along.
PendingOutranksDecided ==
    \A l \in loads :
        LET got == {l.got[i] : i \in DOMAIN l.got}
        IN  l.step = "answered" /\ l.of.page = 0 /\ (\E g \in got : g[2] = "decided") =>
                \A n \in l.waiting : <<n, "pending">> \in got

\* A page that arrives is one of the list: all of it when nothing happened
\* meanwhile, and still the pending first when something did.
PageIsOfTheList == QuietPageIsTheList /\ PendingOutranksDecided

-----------------------------------------------------------------------------
\* What is shown is the page and filter chosen, once nothing is under way.  Not
\* kept: an earlier answer may come last, and a decision loads the look it was
\* made from (PolicyApproval.jsx:124-138).
ShownIsTheLook == loads = {} => listed.of = look
================================================================================
