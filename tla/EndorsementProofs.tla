---------------------------- MODULE EndorsementProofs ----------------------------
(***************************************************************************)
(* Proofs about the endorsements of one policy: they are numbered without   *)
(* gaps, each is approved once at most, a decision stands, and the policy's *)
(* premium is that of its coverages, however the requests interleave.       *)
(***************************************************************************)
EXTENDS EndorsementApproval, AgentPayablesProofs

-----------------------------------------------------------------------------
(* The inductive invariant.                                                  *)

Verdicts == {"APPROVED", "REJECTED"}

HistoryRow == [request : Endorsements, decision : Verdicts]

FiledIn(req) == {e \in Endorsements : req[e].status # "UNFILED"}

List(q) == q \in Seq({q[i] : i \in DOMAIN q})

\* A statement of a decision about e other than its claim, its history row and
\* its commit.
Ordinary(s, e) ==
    /\ "do" \in DOMAIN s
    /\ s.do \notin {"claim", "commit"}
    /\ s.do = "note" => s.request \in Endorsements /\ s.decision = "REJECTED"
    /\ s.do = "readOrphans" => s.request = e
    /\ s.do = "rejectOrphan" => /\ s.request \in Endorsements \ {e}
                                /\ s.locks = {RequestRow(s.request)}
    /\ s.do = "agent" => AgentRow \in s.locks

\* What is left to do once the endorsement is claimed ends in its history row
\* and the commit.
Ends(q, e, verdict) ==
    /\ Len(q) >= 2
    /\ q[Len(q)] = CommitTransaction
    /\ q[Len(q) - 1] = Note(e, verdict)
    /\ \A i \in 1..(Len(q) - 2) : Ordinary(q[i], e)

Decided(v, verdict) == v.request \in DOMAIN v.decided /\ v.decided[v.request] = verdict

Unclaimed(x, v, verdict) ==
    /\ x.todo # << >>
    /\ Head(x.todo) = ClaimAs(v.request, verdict)
    /\ Ends(Tail(x.todo), v.request, verdict)
    /\ v.decided = NoRows
    /\ v.notes = << >>

Claimed(x, v, verdict) ==
    /\ Ends(x.todo, v.request, verdict)
    /\ Decided(v, verdict)
    /\ \A k \in 1..Len(v.notes) : v.notes[k].decision = "REJECTED"

Noted(x, v, verdict) ==
    /\ x.todo = <<CommitTransaction>>
    /\ Decided(v, verdict)
    /\ Len(v.notes) >= 1
    /\ v.notes[Len(v.notes)] = [request |-> v.request, decision |-> verdict]
    /\ \A k \in 1..(Len(v.notes) - 1) : v.notes[k].decision = "REJECTED"

\* What a decision is to write has been claimed, and is still undecided for
\* everyone else.
ClaimsHeld(x, v, req) ==
    \A o \in DOMAIN v.decided :
        /\ o \in Endorsements /\ req[o].status = "SUBMITTED" /\ RequestRow(o) \in x.holds
        /\ v.decided[o] \in Verdicts /\ (o # v.request => v.decided[o] = "REJECTED")

CoverageWork == {"createCoverage", "readCoverage", "writeCoverage"}
ChargeWork   == {"readCharges", "writeTotals"}

Totals(v, cov, totals) ==
    DOMAIN totals = {"total", "misc"} /\ totals.total = Premium(Over(v.covers, cov))

\* The work on the coverages is followed by that on the totals, once; the
\* agent's row is held from before they are read until the commit.
Charged(q, holds, v, cov) ==
    LET Charging(j) == j \in 1..Len(q) /\ q[j].do \in ChargeWork
    IN  /\ \A j, k \in 1..Len(q) : Charging(j) /\ Charging(k) => j = k
        /\ \A i \in 1..Len(q) : q[i].do \in CoverageWork =>
               \E j \in 1..Len(q) : j > i /\ q[j].do = "readCharges"
        /\ \A j \in 1..Len(q) : q[j].do = "readCharges" =>
               AgentRow \in holds \/ \E i \in 1..(j - 1) : q[i].do = "agent"
        /\ \A j \in 1..Len(q) : q[j].do = "writeTotals" =>
               AgentRow \in holds /\ Totals(v, cov, q[j].totals)
        /\ v.totals # NoRows => /\ AgentRow \in holds /\ Totals(v, cov, v.totals)
                                /\ \A j \in 1..Len(q) : ~Charging(j)
        /\ v.covers # NoRows => v.totals # NoRows \/ \E j \in 1..Len(q) : Charging(j)

Decision(x, v, req, cov) ==
    /\ List(x.todo) /\ v.notes \in Seq(HistoryRow)
    /\ \E verdict \in Verdicts :
          Unclaimed(x, v, verdict) \/ Claimed(x, v, verdict) \/ Noted(x, v, verdict)
    /\ ClaimsHeld(x, v, req)
    /\ Charged(x.todo, x.holds, v, cov)

\* One connection: its transaction x and its handler v.
Filing == {"fileCount", "fileInsert"}

\* Nothing is written before the transaction begins.
Blank(v) == v.decided = NoRows /\ v.notes = << >> /\ v.covers = NoRows /\ v.totals = NoRows

Handling(v, req) ==
    /\ DOMAIN v = DOMAIN Free
    /\ v.pc # "transaction" => Blank(v)
    /\ IsFiniteSet(DOMAIN v.lines)
    /\ v.pc \in Filing => v.request \in Endorsements /\ req[v.request].status = "UNFILED"
    /\ v.pc = "fileInsert" => v.number \in 1..(Cardinality(FiledIn(req)) + 1)
    /\ v.pc \notin Filing \cup {"free"} => v.request \in FiledIn(req)

Connection(x, v, req, cov) ==
    /\ DOMAIN x = Fields
    /\ IsFiniteSet(DOMAIN x.writes)
    /\ Handling(v, req)
    /\ v.pc = "transaction" <=> x.kind # "idle"
    /\ IF x.kind = "idle" THEN x.holds = {} ELSE Decision(x, v, req, cov)

Aside(x, v, y, w) ==
    /\ x.holds \cap y.holds = {}
    /\ v.pc \in Filing /\ w.pc \in Filing => v.request # w.request

Connected(req, cov) ==
    /\ tx = [t \in Txs |-> tx[t]] /\ work = [t \in Txs |-> work[t]]
    /\ \A t \in Txs : Connection(tx[t], work[t], req, cov)
    /\ \A t, u \in Txs : t # u => Aside(tx[t], work[t], tx[u], work[u])

Numbers(req) == {req[e].number : e \in FiledIn(req)} = 1..Cardinality(FiledIn(req))

RequestFields == {"status", "type", "number", "lines"}

Requests(req) ==
    /\ DOMAIN req = Endorsements
    /\ \A e \in Endorsements : /\ DOMAIN req[e] = RequestFields
                               /\ req[e].status \in Status
                               /\ IsFiniteSet(DOMAIN req[e].lines)
    /\ Numbers(req)

History == approvals \in Seq(HistoryRow) /\ ApprovedExactlyOnce

Totalled == "total" \in DOMAIN policyRow /\ PremiumMatchesCoverages

EndorsementInv ==
    /\ IsFiniteSet(DOMAIN ledger)
    /\ Requests(request)
    /\ History
    /\ Totalled
    /\ Connected(request, coverage)

-----------------------------------------------------------------------------
(* Lists.                                                                    *)

\* A sequence is a list.
LEMMA SeqIsList ==
    ASSUME NEW X, NEW q \in Seq(X)
    PROVE  List(q)
BY DEF List

\* What is put in the place of a list's first element, and what comes after.
LEMMA Spliced ==
    ASSUME NEW q, List(q), q # << >>, NEW more, List(more)
    PROVE  /\ List(more \o Tail(q))
           /\ Len(q) \in Nat /\ Len(q) >= 1 /\ Len(more) \in Nat
           /\ Len(more \o Tail(q)) = Len(more) + Len(q) - 1
           /\ \A i \in 1..Len(more) : (more \o Tail(q))[i] = more[i]
           /\ \A i \in (Len(more) + 1)..(Len(more) + Len(q) - 1) :
                 (more \o Tail(q))[i] = q[i - Len(more) + 1]
           /\ Head(q) = q[1]
<1> DEFINE X == {q[i] : i \in DOMAIN q}
           Y == {more[i] : i \in DOMAIN more}
           Z == X \cup Y
<1>1. q \in Seq(Z) /\ more \in Seq(Z)
  <2>1. q \in Seq(X) /\ more \in Seq(Y)
    BY DEF List
  <2> HIDE DEF X, Y
  <2> QED
    BY <2>1
<1> HIDE DEF Z
<1>2. Tail(q) \in Seq(Z) /\ Len(q) \in Nat /\ Len(q) >= 1 /\ Len(Tail(q)) = Len(q) - 1
  BY <1>1
<1>3. \A i \in 1..(Len(q) - 1) : Tail(q)[i] = q[i + 1]
  BY <1>1
<1>4. more \o Tail(q) \in Seq(Z) /\ Len(more \o Tail(q)) = Len(more) + Len(q) - 1
  BY <1>1, <1>2
<1>5. \A i \in 1..Len(more) : (more \o Tail(q))[i] = more[i]
  BY <1>1, <1>2
<1>6. ASSUME NEW i \in (Len(more) + 1)..(Len(more) + Len(q) - 1)
      PROVE  (more \o Tail(q))[i] = q[i - Len(more) + 1]
  <2>1. Len(more) \in Nat
    BY <1>1
  <2>2. (more \o Tail(q))[i] = Tail(q)[i - Len(more)]
    BY <1>1, <1>2
  <2>3. i - Len(more) \in 1..(Len(q) - 1) /\ (i - Len(more)) + 1 = i - Len(more) + 1
    BY <1>2, <2>1
  <2> QED
    BY <1>3, <2>2, <2>3
<1>7. List(more \o Tail(q))
  BY <1>4, SeqIsList
<1> QED
  BY <1>1, <1>2, <1>4, <1>5, <1>6, <1>7

\* The end of a list is not disturbed by doing its first statement, whatever
\* ordinary statements that leads to.
LEMMA EndStays ==
    ASSUME NEW q, List(q), NEW e, NEW verdict, Ends(q, e, verdict), Len(q) > 2,
           NEW more, List(more), \A i \in 1..Len(more) : Ordinary(more[i], e)
    PROVE  Ends(more \o Tail(q), e, verdict)
<1> DEFINE r == more \o Tail(q)
           m == Len(more)
           n == Len(q)
<1>1. q # << >>
  <2> SUFFICES ASSUME q = << >> PROVE FALSE
    OBVIOUS
  <2> QED
    BY Len(<< >>) = 0
<1>2. /\ n \in Nat /\ n > 2 /\ m \in Nat /\ Len(r) = m + n - 1
      /\ \A i \in 1..m : r[i] = more[i]
      /\ \A i \in (m + 1)..(m + n - 1) : r[i] = q[i - m + 1]
  BY <1>1, Spliced
<1>3. /\ q[n] = CommitTransaction /\ q[n - 1] = Note(e, verdict)
      /\ \A i \in 1..(n - 2) : Ordinary(q[i], e)
  BY DEF Ends
<1> HIDE DEF r, m, n
<1>4. r[Len(r)] = CommitTransaction
  <2>1. Len(r) \in (m + 1)..(m + n - 1) /\ Len(r) - m + 1 = n
    BY <1>2
  <2> QED
    BY <1>2, <1>3, <2>1
<1>5. r[Len(r) - 1] = Note(e, verdict)
  <2>1. Len(r) - 1 \in (m + 1)..(m + n - 1) /\ (Len(r) - 1) - m + 1 = n - 1
    BY <1>2
  <2> QED
    BY <1>2, <1>3, <2>1
<1>6. ASSUME NEW i \in 1..(Len(r) - 2) PROVE Ordinary(r[i], e)
  <2>1. CASE i \in 1..m
    BY <1>2, <2>1 DEF m
  <2>2. CASE i \notin 1..m
    <3>1. i \in (m + 1)..(m + n - 1) /\ i - m + 1 \in 1..(n - 2)
      BY <1>2, <2>2
    <3> QED
      BY <1>2, <1>3, <3>1
  <2> QED
    BY <2>1, <2>2
<1>7. Len(r) >= 2
  BY <1>2
<1> QED
  BY <1>4, <1>5, <1>6, <1>7 DEF Ends, r

\* Nor are the coverages and the totals left out of step.
LEMMA ChargedStays ==
    ASSUME NEW q, List(q), q # << >>, NEW holds, NEW v, NEW cov, Charged(q, holds, v, cov),
           q[1].do \notin ChargeWork,
           NEW held, holds \subseteq held, q[1].do = "agent" => AgentRow \in held,
           NEW more, List(more),
           \A i \in 1..Len(more) : /\ more[i].do \notin ChargeWork
                                   /\ more[i].do \in CoverageWork => q[1].do \in CoverageWork,
           NEW w, w.totals = v.totals, w.covers = v.covers \/ q[1].do \in CoverageWork
    PROVE  Charged(more \o Tail(q), held, w, cov)
<1> DEFINE r == more \o Tail(q)
           m == Len(more)
           n == Len(q)
<1>1. /\ n \in Nat /\ n >= 1 /\ m \in Nat /\ Len(r) = m + n - 1
      /\ \A i \in 1..m : r[i] = more[i]
      /\ \A i \in (m + 1)..(m + n - 1) : r[i] = q[i - m + 1]
  BY Spliced
<1>2. /\ \A j, k \in 1..n : q[j].do \in ChargeWork /\ q[k].do \in ChargeWork => j = k
      /\ \A i \in 1..n : q[i].do \in CoverageWork =>
             \E j \in 1..n : j > i /\ q[j].do = "readCharges"
      /\ \A j \in 1..n : q[j].do = "readCharges" =>
             AgentRow \in holds \/ \E i \in 1..(j - 1) : q[i].do = "agent"
      /\ \A j \in 1..n : q[j].do = "writeTotals" =>
             AgentRow \in holds /\ Totals(v, cov, q[j].totals)
      /\ v.totals # NoRows => /\ AgentRow \in holds /\ Totals(v, cov, v.totals)
                              /\ \A j \in 1..n : q[j].do \notin ChargeWork
      /\ v.covers # NoRows => v.totals # NoRows \/ \E j \in 1..n : q[j].do \in ChargeWork
  BY DEF Charged
<1> HIDE DEF r, m, n
<1>3. \A i \in 1..m : r[i].do \notin ChargeWork
  BY <1>1 DEF m
<1>4. \A i \in 1..Len(r) : i \in 1..m \/ (i \in (m + 1)..(m + n - 1) /\ i - m + 1 \in 2..n)
  BY <1>1
<1>5. \A j \in 2..n : m + j - 1 \in (m + 1)..(m + n - 1) /\ m + j - 1 \in 1..Len(r) /\ r[m + j - 1] = q[j]
  <2> SUFFICES ASSUME NEW j \in 2..n
               PROVE  m + j - 1 \in (m + 1)..(m + n - 1) /\ m + j - 1 \in 1..Len(r) /\ r[m + j - 1] = q[j]
    OBVIOUS
  <2>1. m + j - 1 \in (m + 1)..(m + n - 1) /\ m + j - 1 \in 1..Len(r) /\ (m + j - 1) - m + 1 = j
    BY <1>1
  <2> QED
    BY <1>1, <2>1
<1>6. q[1].do \in CoverageWork =>
         /\ v.totals = NoRows /\ \A j \in 1..n : q[j].do # "writeTotals"
         /\ \E j \in 2..n : q[j].do = "readCharges"
  <2> SUFFICES ASSUME q[1].do \in CoverageWork
               PROVE  /\ v.totals = NoRows /\ \A j \in 1..n : q[j].do # "writeTotals"
                      /\ \E j \in 2..n : q[j].do = "readCharges"
    OBVIOUS
  <2>1. 1 \in 1..n
    BY <1>1
  <2>2. PICK j \in 1..n : j > 1 /\ q[j].do = "readCharges"
    BY <1>2, <2>1
  <2>3. j \in 2..n
    BY <1>1, <2>2
  <2>4. q[j].do \in ChargeWork /\ q[j].do # "writeTotals"
    BY <2>2 DEF ChargeWork
  <2>5. \A k \in 1..n : q[k].do = "writeTotals" => q[k].do \in ChargeWork
    BY DEF ChargeWork
  <2> QED
    BY <1>2, <2>2, <2>3, <2>4, <2>5
<1>7. w.covers = v.covers => \A totals : Totals(v, cov, totals) => Totals(w, cov, totals)
  BY DEF Totals
<1>a. ASSUME NEW j \in 1..Len(r), NEW k \in 1..Len(r), r[j].do \in ChargeWork, r[k].do \in ChargeWork
      PROVE  j = k
  <2>1. /\ j \in (m + 1)..(m + n - 1) /\ j - m + 1 \in 2..n
        /\ k \in (m + 1)..(m + n - 1) /\ k - m + 1 \in 2..n
    BY <1>3, <1>4, <1>a
  <2>2. q[j - m + 1].do \in ChargeWork /\ q[k - m + 1].do \in ChargeWork
    BY <1>1, <1>a, <2>1
  <2>3. j - m + 1 \in 1..n /\ k - m + 1 \in 1..n
    BY <1>1, <2>1
  <2>4. j - m + 1 = k - m + 1
    BY <1>2, <2>2, <2>3
  <2> QED
    BY <1>1, <2>4
<1>b. ASSUME NEW i \in 1..Len(r), r[i].do \in CoverageWork
      PROVE  \E j \in 1..Len(r) : j > i /\ r[j].do = "readCharges"
  <2>1. CASE i \in 1..m
    <3>1. q[1].do \in CoverageWork
      BY <1>1, <1>b, <2>1 DEF m
    <3>2. PICK j \in 2..n : q[j].do = "readCharges"
      BY <1>6, <3>1
    <3>3. m + j - 1 > i
      BY <1>1, <2>1
    <3> QED
      BY <1>5, <3>2, <3>3
  <2>2. CASE i \notin 1..m
    <3>1. i \in (m + 1)..(m + n - 1) /\ i - m + 1 \in 2..n /\ i - m + 1 \in 1..n
      BY <1>1, <1>4, <2>2
    <3>2. q[i - m + 1].do \in CoverageWork
      BY <1>1, <1>b, <3>1
    <3>3. PICK j \in 1..n : j > i - m + 1 /\ q[j].do = "readCharges"
      BY <1>2, <3>1, <3>2
    <3>4. j \in 2..n /\ m + j - 1 > i
      BY <1>1, <3>1, <3>3
    <3> QED
      BY <1>5, <3>3, <3>4
  <2> QED
    BY <2>1, <2>2
<1>c. ASSUME NEW j \in 1..Len(r), r[j].do = "readCharges"
      PROVE  AgentRow \in held \/ \E i \in 1..(j - 1) : r[i].do = "agent"
  <2>1. j \in (m + 1)..(m + n - 1) /\ j - m + 1 \in 2..n
    BY <1>3, <1>4, <1>c DEF ChargeWork
  <2>2. q[j - m + 1].do = "readCharges" /\ j - m + 1 \in 1..n
    BY <1>1, <1>c, <2>1
  <2>3. CASE AgentRow \in holds
    BY <2>3
  <2>4. ASSUME NEW i \in 1..((j - m + 1) - 1), q[i].do = "agent"
        PROVE  AgentRow \in held \/ \E k \in 1..(j - 1) : r[k].do = "agent"
    <3>1. CASE i = 1
      BY <2>4, <3>1
    <3>2. CASE i # 1
      <4>1. i \in 2..n /\ m + i - 1 \in 1..(j - 1)
        BY <1>1, <2>1, <3>2
      <4>2. r[m + i - 1].do = "agent"
        BY <1>5, <2>4, <4>1
      <4> QED
        BY <4>1, <4>2
    <3> QED
      BY <3>1, <3>2
  <2> QED
    BY <1>2, <2>2, <2>3, <2>4
<1>d. ASSUME NEW j \in 1..Len(r), r[j].do = "writeTotals"
      PROVE  AgentRow \in held /\ Totals(w, cov, r[j].totals)
  <2>1. j \in (m + 1)..(m + n - 1) /\ j - m + 1 \in 2..n
    BY <1>3, <1>4, <1>d DEF ChargeWork
  <2>2. q[j - m + 1] = r[j] /\ j - m + 1 \in 1..n
    BY <1>1, <2>1
  <2>3. AgentRow \in holds /\ Totals(v, cov, r[j].totals)
    BY <1>2, <1>d, <2>2
  <2>4. w.covers = v.covers
    BY <1>6, <1>d, <2>2
  <2> QED
    BY <1>7, <2>3, <2>4
<1>e. ASSUME w.totals # NoRows
      PROVE  AgentRow \in held /\ Totals(w, cov, w.totals) /\ \A j \in 1..Len(r) : r[j].do \notin ChargeWork
  <2>1. AgentRow \in holds /\ Totals(v, cov, v.totals) /\ \A j \in 1..n : q[j].do \notin ChargeWork
    BY <1>2, <1>e
  <2>2. ASSUME NEW j \in 1..Len(r) PROVE r[j].do \notin ChargeWork
    <3>1. CASE j \in 1..m
      BY <1>3, <3>1
    <3>2. CASE j \notin 1..m
      <4>1. j \in (m + 1)..(m + n - 1) /\ j - m + 1 \in 1..n
        BY <1>1, <1>4, <3>2
      <4> QED
        BY <1>1, <2>1, <4>1
    <3> QED
      BY <3>1, <3>2
  <2>3. w.covers = v.covers
    BY <1>6, <1>e
  <2>4. Totals(w, cov, w.totals)
    BY <1>7, <2>1, <2>3
  <2> QED
    BY <2>1, <2>2, <2>4
<1>f. ASSUME w.covers # NoRows
      PROVE  w.totals # NoRows \/ \E j \in 1..Len(r) : r[j].do \in ChargeWork
  <2>1. v.totals # NoRows \/ \E j \in 1..n : q[j].do \in ChargeWork
    <3>1. CASE w.covers = v.covers
      BY <1>2, <1>f, <3>1
    <3>2. CASE q[1].do \in CoverageWork
      <4>1. PICK j \in 2..n : q[j].do = "readCharges"
        BY <1>6, <3>2
      <4>2. j \in 1..n /\ q[j].do \in ChargeWork
        BY <1>1, <4>1 DEF ChargeWork
      <4> QED
        BY <4>2
    <3> QED
      BY <3>1, <3>2
  <2>2. ASSUME NEW j \in 1..n, q[j].do \in ChargeWork
        PROVE  \E i \in 1..Len(r) : r[i].do \in ChargeWork
    <3>1. j \in 2..n
      BY <1>1, <2>2
    <3> QED
      BY <1>5, <2>2, <3>1
  <2> QED
    BY <2>1, <2>2
<1> QED
  BY <1>a, <1>b, <1>c, <1>d, <1>e, <1>f DEF Charged, r

\* How far a decision is, by the statement it is at.
LEMMA AtHead ==
    ASSUME NEW x, NEW v, NEW req, NEW cov, Decision(x, v, req, cov)
    PROVE  /\ x.todo # << >> /\ List(x.todo) /\ Head(x.todo) = x.todo[1]
           /\ Len(x.todo) \in Nat /\ Len(x.todo) >= 1
           /\ \/ /\ Head(x.todo).do = "claim"
                 /\ \E verdict \in Verdicts : Unclaimed(x, v, verdict)
              \/ /\ Head(x.todo).do = "commit"
                 /\ \E verdict \in Verdicts : Noted(x, v, verdict)
              \/ /\ Head(x.todo).do = "note" /\ Len(x.todo) = 2
                 /\ \E verdict \in Verdicts :
                       Claimed(x, v, verdict) /\ Head(x.todo) = Note(v.request, verdict)
              \/ /\ Head(x.todo).do \notin {"claim", "commit"} /\ Len(x.todo) > 2
                 /\ Ordinary(Head(x.todo), v.request)
                 /\ \E verdict \in Verdicts : Claimed(x, v, verdict)
<1>1. List(x.todo)
  BY DEF Decision
<1>2. PICK verdict \in Verdicts :
          Unclaimed(x, v, verdict) \/ Claimed(x, v, verdict) \/ Noted(x, v, verdict)
  BY DEF Decision
<1>3. ASSUME x.todo # << >> PROVE Head(x.todo) = x.todo[1] /\ Len(x.todo) \in Nat /\ Len(x.todo) >= 1
  BY <1>1, <1>3, Spliced
<1>4. CASE Unclaimed(x, v, verdict)
  <2>1. x.todo # << >> /\ Head(x.todo) = ClaimAs(v.request, verdict)
    BY <1>4 DEF Unclaimed
  <2>2. Head(x.todo).do = "claim"
    BY <2>1 DEF ClaimAs
  <2> QED
    BY <1>1, <1>3, <1>4, <2>1, <2>2
<1>5. CASE Noted(x, v, verdict)
  <2>1. x.todo = <<CommitTransaction>>
    BY <1>5 DEF Noted
  <2>2. x.todo # << >> /\ Head(x.todo) = CommitTransaction
    BY <2>1
  <2>3. Head(x.todo).do = "commit"
    BY <2>2 DEF CommitTransaction
  <2> QED
    BY <1>1, <1>3, <1>5, <2>2, <2>3
<1>6. CASE Claimed(x, v, verdict)
  <2> DEFINE n == Len(x.todo)
  <2>1. /\ n >= 2 /\ x.todo[n - 1] = Note(v.request, verdict)
        /\ \A i \in 1..(n - 2) : Ordinary(x.todo[i], v.request)
    BY <1>6 DEF Claimed, Ends
  <2>2. x.todo # << >>
    <3> SUFFICES ASSUME x.todo = << >> PROVE FALSE
      OBVIOUS
    <3> QED
      BY <2>1, Len(<< >>) = 0
  <2>3. Head(x.todo) = x.todo[1] /\ n \in Nat
    BY <1>3, <2>2
  <2>4. CASE n = 2
    <3>1. Head(x.todo) = Note(v.request, verdict)
      BY <2>1, <2>3, <2>4
    <3>2. Head(x.todo).do = "note"
      BY <3>1 DEF Note
    <3> QED
      BY <1>1, <1>3, <1>6, <2>2, <2>4, <3>1, <3>2
  <2>5. CASE n # 2
    <3>1. n > 2 /\ 1 \in 1..(n - 2)
      <4>1. n >= 2 /\ n \in Nat
        BY <2>1, <2>3
      <4> HIDE DEF n
      <4> QED
        BY <2>5, <4>1
    <3>2. Ordinary(Head(x.todo), v.request)
      BY <2>1, <2>3, <3>1
    <3>3. Head(x.todo).do \notin {"claim", "commit"}
      BY <3>2 DEF Ordinary
    <3> QED
      BY <1>1, <1>3, <1>6, <2>2, <3>1, <3>2, <3>3
  <2> QED
    BY <2>4, <2>5
<1> QED
  BY <1>2, <1>4, <1>5, <1>6

\* Statements that one of a decision about e, of the given kind, may lead to.
Continues(more, e, do) ==
    /\ List(more)
    /\ \A i \in 1..Len(more) : /\ Ordinary(more[i], e) /\ more[i].do \notin ChargeWork
                               /\ more[i].do \in CoverageWork => do \in CoverageWork

\* What a statement leaves of the transaction, and of the handler's work.
Alike(change, x) ==
    /\ DOMAIN change = Fields /\ change.kind = x.kind
    /\ change.todo = x.todo /\ change.holds = x.holds /\ IsFiniteSet(DOMAIN change.writes)

AlikeWork(w, v) ==
    /\ DOMAIN w = DOMAIN Free /\ w.pc = v.pc /\ w.request = v.request /\ w.lines = v.lines

\* A decision goes on once an ordinary statement of it is done.
LEMMA OrdinaryDone ==
    ASSUME NEW x, NEW v, NEW req, NEW cov, Decision(x, v, req, cov),
           Head(x.todo).do \notin {"claim", "commit", "note"} \cup ChargeWork,
           NEW more, Continues(more, v.request, Head(x.todo).do),
           NEW y, y.todo = more \o Tail(x.todo), x.holds \subseteq y.holds,
           Head(x.todo).do = "agent" => AgentRow \in y.holds,
           NEW w, w.request = v.request, w.notes = v.notes, w.totals = v.totals,
           w.covers = v.covers \/ Head(x.todo).do \in CoverageWork,
           \A verdict \in Verdicts : Decided(v, verdict) => Decided(w, verdict),
           ClaimsHeld(y, w, req)
    PROVE  Decision(y, w, req, cov)
<1>0. /\ List(more)
      /\ \A i \in 1..Len(more) :
             /\ Ordinary(more[i], v.request) /\ more[i].do \notin ChargeWork
             /\ more[i].do \in CoverageWork => Head(x.todo).do \in CoverageWork
  BY DEF Continues
<1>1. /\ x.todo # << >> /\ List(x.todo) /\ Head(x.todo) = x.todo[1] /\ Len(x.todo) > 2
      /\ Ordinary(Head(x.todo), v.request)
      /\ \E verdict \in Verdicts : Claimed(x, v, verdict)
  BY AtHead
<1>2. PICK verdict \in Verdicts : Claimed(x, v, verdict)
  BY <1>1
<1>3. Ends(y.todo, w.request, verdict)
  <2>1. Ends(x.todo, v.request, verdict)
    BY <1>2 DEF Claimed
  <2>2. Ends(more \o Tail(x.todo), v.request, verdict)
    BY <1>0, <1>1, <2>1, EndStays
  <2> QED
    BY <2>2
<1>4. Claimed(y, w, verdict)
  BY <1>2, <1>3 DEF Claimed
<1>5. List(y.todo)
  BY <1>0, <1>1, Spliced
<1>6. Charged(y.todo, y.holds, w, cov)
  <2>1. Charged(x.todo, x.holds, v, cov)
    BY DEF Decision
  <2> QED
    BY <1>0, <1>1, <2>1, ChargedStays
<1>7. w.notes \in Seq(HistoryRow)
  BY DEF Decision
<1> QED
  BY <1>4, <1>5, <1>6, <1>7 DEF Decision

\* Nothing more to do.
LEMMA NothingMore == \A e, do : Continues(<< >>, e, do)
<1>1. << >> \in Seq({}) /\ Len(<< >>) = 0
  OBVIOUS
<1>2. List(<< >>)
  BY <1>1, SeqIsList
<1> QED
  BY <1>1, <1>2 DEF Continues

\* One statement more.
LEMMA OneMore ==
    ASSUME NEW s, NEW e, NEW do, Ordinary(s, e), s.do \notin ChargeWork,
           s.do \in CoverageWork => do \in CoverageWork
    PROVE  Continues(<<s>>, e, do)
<1>1. <<s>> \in Seq({s}) /\ Len(<<s>>) = 1 /\ <<s>>[1] = s
  OBVIOUS
<1>2. List(<<s>>)
  BY <1>1, SeqIsList
<1> QED
  BY <1>1, <1>2 DEF Continues

-----------------------------------------------------------------------------
(* One connection's step.                                                    *)

\* A step of one connection that changes no table.
LEMMA OneConnection ==
    ASSUME EndorsementInv, NEW t \in Txs, NEW y, NEW w,
           tx' = [tx EXCEPT ![t] = y], work' = [work EXCEPT ![t] = w],
           UNCHANGED <<ledger, tables>>,
           Connection(y, w, request, coverage),
           \A u \in Txs \ {t} : Aside(y, w, tx[u], work[u])
    PROVE  EndorsementInv'
<1>1. UNCHANGED <<ledger, request, policyRow, coverage, approvals, inLease>>
  BY DEF tables
<1>2. /\ tx = [u \in Txs |-> tx[u]] /\ work = [u \in Txs |-> work[u]]
      /\ \A u \in Txs : Connection(tx[u], work[u], request, coverage)
      /\ \A u, z \in Txs : u # z => Aside(tx[u], work[u], tx[z], work[z])
  BY DEF EndorsementInv, Connected
<1>3. /\ tx' = [u \in Txs |-> tx'[u]] /\ work' = [u \in Txs |-> work'[u]]
      /\ tx'[t] = y /\ work'[t] = w
      /\ \A u \in Txs \ {t} : tx'[u] = tx[u] /\ work'[u] = work[u]
  BY <1>2
<1>4. \A u \in Txs : Connection(tx'[u], work'[u], request', coverage')
  BY <1>1, <1>2, <1>3
<1>5. \A u \in Txs \ {t} : Aside(tx[u], work[u], y, w)
  BY DEF Aside
<1>6. \A u, z \in Txs : u # z => Aside(tx'[u], work'[u], tx'[z], work'[z])
  BY <1>2, <1>3, <1>5
<1>7. Connected(request, coverage)'
  BY <1>3, <1>4, <1>6 DEF Connected
<1>8. IsFiniteSet(DOMAIN ledger)' /\ Requests(request)' /\ History' /\ Totalled'
  <2>1. IsFiniteSet(DOMAIN ledger) /\ Requests(request) /\ History /\ Totalled
    BY DEF EndorsementInv
  <2>2. (IsFiniteSet(DOMAIN ledger) /\ Requests(request))'
    BY <1>1, <2>1
  <2>3. History'
    BY <1>1, <2>1 DEF History, ApprovedExactlyOnce, Approved, Filed, TimesApproved
  <2>4. Totalled'
    BY <1>1, <2>1 DEF Totalled, PremiumMatchesCoverages
  <2> QED
    BY <2>2, <2>3, <2>4
<1> QED
  BY <1>7, <1>8 DEF EndorsementInv

\* What holds of one connection.
LEMMA OfConnection ==
    ASSUME EndorsementInv, NEW t \in Txs
    PROVE  /\ Connection(tx[t], work[t], request, coverage)
           /\ DOMAIN tx = Txs /\ DOMAIN work = Txs
           /\ work = [work EXCEPT ![t] = work[t]] /\ tx = [tx EXCEPT ![t] = tx[t]]
           /\ \A u \in Txs \ {t} : Aside(tx[t], work[t], tx[u], work[u])
           /\ \A u \in Txs \ {t} : Aside(tx[u], work[u], tx[t], work[t])
<1>1. /\ tx = [u \in Txs |-> tx[u]] /\ work = [u \in Txs |-> work[u]]
      /\ \A u \in Txs : Connection(tx[u], work[u], request, coverage)
      /\ \A u, z \in Txs : u # z => Aside(tx[u], work[u], tx[z], work[z])
  BY DEF EndorsementInv, Connected
<1>2. DOMAIN tx = Txs /\ DOMAIN work = Txs
  BY <1>1
<1>3. work = [work EXCEPT ![t] = work[t]] /\ tx = [tx EXCEPT ![t] = tx[t]]
  BY <1>1
<1> QED
  BY <1>1, <1>2, <1>3

\* A connection whose transaction executes a statement.
LEMMA AtStatementOf ==
    ASSUME EndorsementInv, NEW t \in Txs, Running(t)
    PROVE  /\ Decision(tx[t], work[t], request, coverage)
           /\ work[t].pc = "transaction" /\ work[t].request \in FiledIn(request)
           /\ DOMAIN tx[t] = Fields /\ DOMAIN work[t] = DOMAIN Free
           /\ IsFiniteSet(DOMAIN tx[t].writes) /\ IsFiniteSet(DOMAIN work[t].lines)
           /\ tx[t].kind # "idle"
<1>1. Connection(tx[t], work[t], request, coverage) /\ tx[t].kind # "idle"
  BY OfConnection DEF Running
<1>2. work[t].pc = "transaction" /\ work[t].pc \notin Filing \cup {"free"}
  BY <1>1 DEF Connection, Filing
<1> QED
  BY <1>1, <1>2 DEF Connection, Handling

\* The names of the fields of a handler's work.
LEMMA FreeFields ==
    DOMAIN Free = {"pc", "request", "type", "lines", "line", "number", "misc", "base", "decided",
                   "notes", "cancels", "components", "covers", "totals"}
BY DEF Free

\* A statement that is done, with its locks, leaves the others' alone; the
\* handler has noted w, and the decision goes on.
LEMMA StatementOfDecision ==
    ASSUME EndorsementInv, NEW t \in Txs, Running(t),
           NEW change, Alike(change, tx[t]),
           NEW more, DoneThen(t, change, more),
           NEW w, AlikeWork(w, work[t]), work' = [work EXCEPT ![t] = w],
           UNCHANGED <<ledger, tables>>,
           \A y : /\ y.todo = more \o Tail(tx[t].todo)
                  /\ y.holds = tx[t].holds \cup Head(tx[t].todo).locks
                  => Decision(y, w, request, coverage)
    PROVE  EndorsementInv'
<1> DEFINE x == tx[t]
           v == work[t]
           y == [change EXCEPT !.todo = more \o Tail(@), !.holds = @ \cup Statement(t).locks]
<1>1. /\ v.pc = "transaction" /\ v.request \in FiledIn(request)
      /\ IsFiniteSet(DOMAIN v.lines) /\ x.kind # "idle"
  BY AtStatementOf
<1>2. tx' = [tx EXCEPT ![t] = y] /\ \A u \in Txs \ {t} : Statement(t).locks \cap tx[u].holds = {}
  BY DEF DoneThen, MayLock
<1>3. /\ DOMAIN y = Fields /\ y.kind = x.kind /\ y.writes = change.writes
      /\ y.todo = more \o Tail(x.todo) /\ y.holds = x.holds \cup Statement(t).locks
  BY FieldsAre DEF Alike
<1> HIDE DEF y
<1>4. Decision(y, w, request, coverage)
  BY <1>3 DEF Statement
<1>5. Handling(w, request)
  BY <1>1 DEF Handling, Filing, AlikeWork
<1>6. Connection(y, w, request, coverage)
  BY <1>1, <1>3, <1>4, <1>5 DEF Connection, Alike, AlikeWork
<1>7. \A u \in Txs \ {t} : Aside(y, w, tx[u], work[u])
  <2> SUFFICES ASSUME NEW u \in Txs \ {t} PROVE Aside(y, w, tx[u], work[u])
    OBVIOUS
  <2>1. Aside(x, v, tx[u], work[u])
    BY OfConnection
  <2> QED
    BY <1>2, <1>3, <2>1 DEF Aside, AlikeWork
<1> QED
  BY <1>2, <1>6, <1>7, OneConnection

\* Claims stand while their locks are held.
LEMMA ClaimsKept ==
    ASSUME NEW x, NEW v, NEW req, ClaimsHeld(x, v, req),
           NEW y, x.holds \subseteq y.holds,
           NEW w, w.decided = v.decided, w.request = v.request
    PROVE  ClaimsHeld(y, w, req)
BY DEF ClaimsHeld

\* An ordinary statement of a decision, done.
LEMMA OrdinaryStatement ==
    ASSUME EndorsementInv, NEW t \in Txs, Running(t),
           Statement(t).do \notin {"claim", "commit", "note"} \cup ChargeWork,
           NEW change, Alike(change, tx[t]),
           NEW more, Continues(more, work[t].request, Statement(t).do), DoneThen(t, change, more),
           NEW w, AlikeWork(w, work[t]), w.notes = work[t].notes, w.totals = work[t].totals,
           w.covers = work[t].covers \/ Statement(t).do \in CoverageWork,
           \A verdict \in Verdicts : Decided(work[t], verdict) => Decided(w, verdict),
           \A y : y.holds = tx[t].holds \cup Statement(t).locks => ClaimsHeld(y, w, request),
           work' = [work EXCEPT ![t] = w], UNCHANGED <<ledger, tables>>
    PROVE  EndorsementInv'
<1>1. Decision(tx[t], work[t], request, coverage)
  BY AtStatementOf
<1>2. ASSUME NEW y, y.todo = more \o Tail(tx[t].todo),
             y.holds = tx[t].holds \cup Head(tx[t].todo).locks
      PROVE  Decision(y, w, request, coverage)
  <2>1. ClaimsHeld(y, w, request)
    BY <1>2 DEF Statement
  <2>2. Head(tx[t].todo).do = "agent" => AgentRow \in y.holds
    BY <1>1, <1>2, AtHead DEF Ordinary
  <2> QED
    BY <1>1, <1>2, <2>1, <2>2, OrdinaryDone DEF Statement, AlikeWork
<1> QED
  BY <1>2, StatementOfDecision

\* One of those that only changes the transaction's writes and balance, or
\* what the handler has read.
LEMMA PlainStatement ==
    ASSUME EndorsementInv, NEW t \in Txs, Running(t),
           Statement(t).do \notin {"claim", "commit", "note"} \cup ChargeWork,
           NEW change, Alike(change, tx[t]),
           NEW more, Continues(more, work[t].request, Statement(t).do), DoneThen(t, change, more),
           NEW w, AlikeWork(w, work[t]), w.notes = work[t].notes, w.totals = work[t].totals,
           w.decided = work[t].decided,
           w.covers = work[t].covers \/ Statement(t).do \in CoverageWork,
           work' = [work EXCEPT ![t] = w], UNCHANGED <<ledger, tables>>
    PROVE  EndorsementInv'
<1>1. ClaimsHeld(tx[t], work[t], request)
  BY AtStatementOf DEF Decision
<1>2. ASSUME NEW y, y.holds = tx[t].holds \cup Statement(t).locks PROVE ClaimsHeld(y, w, request)
  BY <1>1, <1>2, ClaimsKept DEF AlikeWork
<1>3. \A verdict \in Verdicts : Decided(work[t], verdict) => Decided(w, verdict)
  BY DEF Decided, AlikeWork
<1> QED
  BY <1>2, <1>3, OrdinaryStatement

-----------------------------------------------------------------------------
(* The statements the ledger has.                                            *)

\* Rows put over others are finitely many if both are.
LEMMA OverFinite ==
    ASSUME NEW i, NEW row, NEW rows, IsFiniteSet(DOMAIN rows)
    PROVE  IsFiniteSet(DOMAIN Over(Only(i, row), rows))
<1>1. DOMAIN Over(Only(i, row), rows) = DOMAIN rows \cup {i}
  BY DEF Over, Only
<1> QED
  BY <1>1, FS_AddElement

\* What a statement may change of a transaction, writes and owes, keeps its other fields.
LEMMA TransactionFields ==
    ASSUME NEW x, DOMAIN x = Fields, IsFiniteSet(DOMAIN x.writes)
    PROVE  /\ Alike(x, x)
           /\ \A rows : IsFiniteSet(DOMAIN rows) => Alike([x EXCEPT !.writes = rows], x)
           /\ \A n : Alike([x EXCEPT !.owes = n], x)
BY FieldsAre DEF Alike

\* A statement that changes no more than the transaction's writes and balance.
LEMMA LedgerStatementStays ==
    ASSUME EndorsementInv, NEW t \in Txs, Running(t),
           Statement(t).do \notin {"claim", "commit", "note"} \cup ChargeWork,
           NEW change, Alike(change, tx[t]), Done(t, change), UNCHANGED <<ledger, tables, work>>
    PROVE  EndorsementInv'
<1>1. AlikeWork(work[t], work[t])
  BY AtStatementOf DEF AlikeWork
<1>2. work' = [work EXCEPT ![t] = work[t]] /\ UNCHANGED <<ledger, tables>>
  BY OfConnection
<1>3. Continues(<< >>, work[t].request, Statement(t).do)
  BY NothingMore
<1>4. DoneThen(t, change, << >>)
  BY DEF Done
<1> QED
  BY <1>1, <1>2, <1>3, <1>4, PlainStatement

\* INSERT of a ledger row.
LEMMA InsertRowStays ==
    ASSUME EndorsementInv, NEW t \in Txs, InsertRow(t), UNCHANGED <<tables, work>>
    PROVE  EndorsementInv'
<1> DEFINE rows == Over(Only(NewId, Statement(t).row), tx[t].writes)
           change == [tx[t] EXCEPT !.writes = rows]
<1>1. Running(t) /\ Statement(t).do = "insert" /\ Done(t, change) /\ UNCHANGED ledger
  BY DEF InsertRow, About
<1>2. IsFiniteSet(DOMAIN rows)
  BY <1>1, AtStatementOf, OverFinite
<1> HIDE DEF rows
<1>3. Alike(change, tx[t])
  BY <1>1, <1>2, AtStatementOf, TransactionFields
<1>4. Statement(t).do \notin {"claim", "commit", "note"} \cup ChargeWork
  BY <1>1 DEF ChargeWork
<1> HIDE DEF change
<1> QED
  BY <1>1, <1>3, <1>4, LedgerStatementStays

\* The agent's payable is credited or debited: it locks the agent's row.
LEMMA IncrementPayableStays ==
    ASSUME EndorsementInv, NEW t \in Txs, IncrementPayable(t), UNCHANGED <<tables, work>>
    PROVE  EndorsementInv'
<1> DEFINE n == tx[t].owes + Statement(t).by
           change == [tx[t] EXCEPT !.owes = n]
<1>1. Running(t) /\ Statement(t).do = "agent" /\ Done(t, change) /\ UNCHANGED ledger
  BY DEF IncrementPayable, About
<1> HIDE DEF n
<1>3. Alike(change, tx[t])
  BY <1>1, AtStatementOf, TransactionFields
<1>4. Statement(t).do \notin {"claim", "commit", "note"} \cup ChargeWork
  BY <1>1 DEF ChargeWork
<1> HIDE DEF change
<1> QED
  BY <1>1, <1>3, <1>4, LedgerStatementStays

\* The first element of a list replaced.
LEMMA FirstIs ==
    ASSUME NEW q, List(q), q # << >>, NEW s
    PROVE  [q EXCEPT ![1] = s] = <<s>> \o Tail(q) /\ List(<<s>>)
<1> DEFINE X == {q[i] : i \in DOMAIN q} \cup {s}
<1>1. q \in Seq(X) /\ <<s>> \in Seq(X)
  <2>1. q \in Seq({q[i] : i \in DOMAIN q})
    BY DEF List
  <2> DEFINE Y == {q[i] : i \in DOMAIN q}
  <2>2. q \in Seq(Y)
    BY <2>1
  <2> HIDE DEF Y
  <2> QED
    BY <2>2
<1> HIDE DEF X
<1>2. [q EXCEPT ![1] = s] = <<s>> \o Tail(q)
  BY <1>1
<1> QED
  BY <1>1, <1>2, SeqIsList

\* A debit of a bucket, which leads to at most a further statement on the ledger.
LEMMA DecrementBucketStays ==
    ASSUME EndorsementInv, NEW t \in Txs, DecrementBucket(t), UNCHANGED <<tables, work>>
    PROVE  EndorsementInv'
<1> DEFINE x == tx[t]
<1>1. /\ Running(t) /\ Statement(t).do = "decrement" /\ UNCHANGED ledger
      /\ ApplyDecrement(t) \/ Becomes(t, "decrementNull")
  BY DEF DecrementBucket, About
<1>2. /\ DOMAIN x = Fields /\ IsFiniteSet(DOMAIN x.writes) /\ DOMAIN work[t] = DOMAIN Free
      /\ Decision(x, work[t], request, coverage) /\ work[t].pc = "transaction" /\ x.kind # "idle"
      /\ work[t].request \in FiledIn(request) /\ IsFiniteSet(DOMAIN work[t].lines)
  BY <1>1, AtStatementOf
<1>5. work' = [work EXCEPT ![t] = work[t]] /\ UNCHANGED <<ledger, tables>>
  BY <1>1, OfConnection
<1>6. Statement(t).do \notin {"claim", "commit", "note"} \cup ChargeWork
  BY <1>1 DEF ChargeWork
<1>7. CASE ApplyDecrement(t)
  <2> DEFINE rows == Changed(t, Statement(t).row, -Statement(t).by)
             change == [x EXCEPT !.writes = rows]
  <2>1. Done(t, change)
    BY <1>7 DEF ApplyDecrement
  <2>2. IsFiniteSet(DOMAIN rows)
    BY <1>2, OverFinite DEF Changed
  <2> HIDE DEF rows
  <2>3. Alike(change, x)
    BY <1>2, <2>2, TransactionFields
  <2> HIDE DEF change
  <2> QED
    BY <1>1, <1>5, <1>6, <2>1, <2>3, LedgerStatementStays
<1>8. CASE Becomes(t, "decrementNull")
  <2> DEFINE q == x.todo
             s == [q[1] EXCEPT !.do = "decrementNull"]
             y == [x EXCEPT !.todo = [q EXCEPT ![1] = s]]
  <2>1. tx' = [tx EXCEPT ![t] = y]
    BY <1>8 DEF Becomes
  <2>2. DOMAIN y = Fields /\ y.kind = x.kind /\ y.holds = x.holds /\ y.writes = x.writes
        /\ y.todo = [q EXCEPT ![1] = s]
    BY <1>2, FieldsAre
  <2>3. q # << >> /\ List(q) /\ Head(q) = q[1] /\ Ordinary(q[1], work[t].request)
    BY <1>1, <1>2, AtHead DEF Statement
  <2>4. y.todo = <<s>> \o Tail(q) /\ List(<<s>>)
    BY <2>2, <2>3, FirstIs
  <2>5. s.do = "decrementNull"
    BY <2>3 DEF Ordinary
  <2>6. Ordinary(s, work[t].request) /\ s.do \notin ChargeWork /\ s.do \notin CoverageWork
    BY <2>3, <2>5 DEF Ordinary, ChargeWork, CoverageWork
  <2> HIDE DEF s, y
  <2>7. Continues(<<s>>, work[t].request, Head(q).do)
    BY <2>6, OneMore
  <2>8. Head(q).do \notin {"claim", "commit", "note"} \cup ChargeWork /\ Head(q).do # "agent"
    BY <1>1, <1>6 DEF Statement
  <2>9. ClaimsHeld(y, work[t], request)
    BY <1>2, <2>2, ClaimsKept DEF Decision
  <2>10. Decision(y, work[t], request, coverage)
    BY <1>2, <2>2, <2>4, <2>7, <2>8, <2>9, OrdinaryDone
  <2>11. Connection(y, work[t], request, coverage)
    <3>1. Handling(work[t], request)
      BY OfConnection DEF Connection
    <3> QED
      BY <1>2, <2>2, <2>10, <3>1 DEF Connection
  <2>12. \A u \in Txs \ {t} : Aside(y, work[t], tx[u], work[u])
    BY <2>2, OfConnection DEF Aside
  <2> QED
    BY <1>5, <2>1, <2>11, <2>12, OneConnection
<1> QED
  BY <1>1, <1>7, <1>8

-----------------------------------------------------------------------------
(* The statements of a decision.                                             *)

\* An error ends the transaction and the request.
LEMMA RollbackStays ==
    ASSUME EndorsementInv, NEW t \in Txs, tx' = [tx EXCEPT ![t] = Idle], End(t),
           UNCHANGED <<ledger, tables>>
    PROVE  EndorsementInv'
<1>1. /\ DOMAIN Idle = Fields /\ Idle.kind = "idle" /\ Idle.holds = {} /\ DOMAIN Idle.writes = {}
  BY FieldsAre DEF Fields, NoRows
<1>2. Free.pc = "free" /\ DOMAIN Free.lines = {} /\ Blank(Free)
  BY DEF Free, NoRows, Blank
<1>3. IsFiniteSet({})
  BY FS_EmptySet
<1>4. Handling(Free, request)
  BY <1>2, <1>3 DEF Handling, Filing
<1>5. Connection(Idle, Free, request, coverage)
  BY <1>1, <1>2, <1>3, <1>4 DEF Connection
<1>6. \A u \in Txs \ {t} : Aside(Idle, Free, tx[u], work[u])
  BY <1>1, <1>2 DEF Aside, Filing
<1> QED
  BY <1>5, <1>6, OneConnection DEF End

\* What a step of a decision starts from.
LEMMA Executing ==
    ASSUME EndorsementInv, NEW t \in Txs, NEW do, About(t, do)
    PROVE  /\ Running(t) /\ Statement(t).do = do
           /\ Alike(tx[t], tx[t]) /\ DOMAIN work[t] = DOMAIN Free
           /\ Decision(tx[t], work[t], request, coverage)
           /\ do \notin {"claim", "commit", "note"} => Ordinary(Statement(t), work[t].request)
<1>1. Running(t) /\ Statement(t).do = do
  BY DEF About
<1>2. Alike(tx[t], tx[t]) /\ DOMAIN work[t] = DOMAIN Free
  BY <1>1, AtStatementOf, TransactionFields
<1>3. Decision(tx[t], work[t], request, coverage)
  BY <1>1, AtStatementOf
<1>4. do \notin {"claim", "commit", "note"} => Ordinary(Statement(t), work[t].request)
  BY <1>1, <1>3, AtHead DEF Statement
<1> QED
  BY <1>1, <1>2, <1>3, <1>4

\* The policy is read again: cancelled, the approval fails.
LEMMA CheckLivePolicyStays ==
    ASSUME EndorsementInv, NEW t \in Txs, CheckLivePolicy(t) PROVE EndorsementInv'
<1>1. About(t, "livePolicy") /\ UNCHANGED <<ledger, tables>>
  BY DEF CheckLivePolicy
<1>2. /\ Running(t) /\ Statement(t).do = "livePolicy" /\ Alike(tx[t], tx[t])
  BY <1>1, Executing
<1>3. Statement(t).do \notin {"claim", "commit", "note"} \cup ChargeWork
  BY <1>2 DEF ChargeWork
<1>4. CASE Rollback(t)
  BY <1>1, <1>4, RollbackStays DEF Rollback
<1>5. CASE Done(t, tx[t]) /\ UNCHANGED work
  BY <1>1, <1>2, <1>3, <1>5, LedgerStatementStays
<1> QED
  BY <1>4, <1>5 DEF CheckLivePolicy

\* The misc that is not coverages is backed out.
LEMMA ComputeBaseMiscStays ==
    ASSUME EndorsementInv, NEW t \in Txs, ComputeBaseMisc(t) PROVE EndorsementInv'
<1> DEFINE z == BaseMisc(t)
           w == [work[t] EXCEPT !.base = z]
<1>1. /\ About(t, "baseMisc") /\ UNCHANGED <<ledger, tables>>
      /\ DoneThen(t, tx[t], << >>) /\ work' = [work EXCEPT ![t] = w]
  BY DEF ComputeBaseMisc, Done
<1>2. /\ Running(t) /\ Statement(t).do = "baseMisc" /\ Alike(tx[t], tx[t])
      /\ DOMAIN work[t] = DOMAIN Free
  BY <1>1, Executing
<1>3. Statement(t).do \notin {"claim", "commit", "note"} \cup ChargeWork
  BY <1>2 DEF ChargeWork
<1> HIDE DEF z
<1>4. /\ AlikeWork(w, work[t]) /\ w.notes = work[t].notes /\ w.totals = work[t].totals
      /\ w.decided = work[t].decided /\ w.covers = work[t].covers
  BY <1>2, FreeFields DEF AlikeWork
<1>5. Continues(<< >>, work[t].request, Statement(t).do)
  BY NothingMore
<1> HIDE DEF w
<1> QED
  BY <1>1, <1>2, <1>3, <1>4, <1>5, PlainStatement

\* A coverage is added; the totals are still to be computed.
LEMMA InsertCoverageStays ==
    ASSUME EndorsementInv, NEW t \in Txs, InsertCoverage(t) PROVE EndorsementInv'
<1> DEFINE line == Statement(t).line
           z == Over(Only(NewCoverage, [owed |-> line.by, misc |-> line.misc, removed |-> FALSE]),
                     work[t].covers)
           w == [work[t] EXCEPT !.covers = z]
<1>1. /\ About(t, "createCoverage") /\ UNCHANGED <<ledger, tables>>
      /\ DoneThen(t, tx[t], << >>) /\ work' = [work EXCEPT ![t] = w]
  BY DEF InsertCoverage, Done
<1>2. /\ Running(t) /\ Statement(t).do = "createCoverage" /\ Alike(tx[t], tx[t])
      /\ DOMAIN work[t] = DOMAIN Free
  BY <1>1, Executing
<1>3. Statement(t).do \notin {"claim", "commit", "note"} \cup ChargeWork
      /\ Statement(t).do \in CoverageWork
  BY <1>2 DEF ChargeWork, CoverageWork
<1> HIDE DEF z
<1>4. /\ AlikeWork(w, work[t]) /\ w.notes = work[t].notes /\ w.totals = work[t].totals
      /\ w.decided = work[t].decided
  BY <1>2, FreeFields DEF AlikeWork
<1>5. Continues(<< >>, work[t].request, Statement(t).do)
  BY NothingMore
<1> HIDE DEF w
<1> QED
  BY <1>1, <1>2, <1>3, <1>4, <1>5, PlainStatement

\* A coverage is removed or changed; the totals are still to be computed.
LEMMA UpdateCoverageStays ==
    ASSUME EndorsementInv, NEW t \in Txs, UpdateCoverage(t) PROVE EndorsementInv'
<1> DEFINE s == Statement(t)
           z == Over(Only(s.coverage, Over(s.change, Coverages(t)[s.coverage])), work[t].covers)
           w == [work[t] EXCEPT !.covers = z]
<1>1. /\ About(t, "writeCoverage") /\ UNCHANGED <<ledger, tables>>
      /\ DoneThen(t, tx[t], << >>) /\ work' = [work EXCEPT ![t] = w]
  BY DEF UpdateCoverage, Done
<1>2. /\ Running(t) /\ Statement(t).do = "writeCoverage" /\ Alike(tx[t], tx[t])
      /\ DOMAIN work[t] = DOMAIN Free
  BY <1>1, Executing
<1>3. Statement(t).do \notin {"claim", "commit", "note"} \cup ChargeWork
      /\ Statement(t).do \in CoverageWork
  BY <1>2 DEF ChargeWork, CoverageWork
<1> HIDE DEF z
<1>4. /\ AlikeWork(w, work[t]) /\ w.notes = work[t].notes /\ w.totals = work[t].totals
      /\ w.decided = work[t].decided
  BY <1>2, FreeFields DEF AlikeWork
<1>5. Continues(<< >>, work[t].request, Statement(t).do)
  BY NothingMore
<1> HIDE DEF w
<1> QED
  BY <1>1, <1>2, <1>3, <1>4, <1>5, PlainStatement

\* A coverage is read, to be written or found stale.
LEMMA FindCoverageStays ==
    ASSUME EndorsementInv, NEW t \in Txs, FindCoverage(t) PROVE EndorsementInv'
<1> DEFINE line == Statement(t).line
           row  == Coverages(t)[line.coverage]
           s == WriteCoverage(line.coverage,
                    IF line.type = "REMOVE" THEN [removed |-> TRUE] ELSE [owed |-> row.owed + line.by])
<1>1. /\ About(t, "readCoverage") /\ UNCHANGED <<ledger, tables>>
      /\ Rollback(t) \/ (DoneThen(t, tx[t], <<s>>) /\ UNCHANGED work)
  BY DEF FindCoverage
<1>2. /\ Running(t) /\ Statement(t).do = "readCoverage" /\ Alike(tx[t], tx[t])
      /\ DOMAIN work[t] = DOMAIN Free
  BY <1>1, Executing
<1>3. Statement(t).do \notin {"claim", "commit", "note"} \cup ChargeWork
      /\ Statement(t).do \in CoverageWork
  BY <1>2 DEF ChargeWork, CoverageWork
<1>4. s.do = "writeCoverage" /\ "do" \in DOMAIN s
  BY DEF WriteCoverage
<1> HIDE DEF s
<1>5. Continues(<<s>>, work[t].request, Statement(t).do)
  <2>1. Ordinary(s, work[t].request)
    BY <1>4 DEF Ordinary
  <2> QED
    BY <1>3, <1>4, <2>1, OneMore DEF ChargeWork
<1>6. CASE Rollback(t)
  BY <1>1, <1>6, RollbackStays DEF Rollback
<1>7. CASE DoneThen(t, tx[t], <<s>>) /\ UNCHANGED work
  <2>1. work' = [work EXCEPT ![t] = work[t]]
    BY <1>7, OfConnection
  <2>2. AlikeWork(work[t], work[t])
    BY <1>2, FreeFields DEF AlikeWork
  <2> QED
    BY <1>1, <1>2, <1>3, <1>5, <1>7, <2>1, <2>2, PlainStatement
<1> QED
  BY <1>1, <1>6, <1>7

\* The policy is cancelled; its totals are left alone.
LEMMA SetCancelledStays ==
    ASSUME EndorsementInv, NEW t \in Txs, SetCancelled(t) PROVE EndorsementInv'
<1> DEFINE w == [work[t] EXCEPT !.cancels = TRUE]
<1>1. /\ About(t, "cancelPolicy") /\ UNCHANGED <<ledger, tables>>
      /\ DoneThen(t, tx[t], << >>) /\ work' = [work EXCEPT ![t] = w]
  BY DEF SetCancelled, Done
<1>2. /\ Running(t) /\ Statement(t).do = "cancelPolicy" /\ Alike(tx[t], tx[t])
      /\ DOMAIN work[t] = DOMAIN Free
  BY <1>1, Executing
<1>3. Statement(t).do \notin {"claim", "commit", "note"} \cup ChargeWork
  BY <1>2 DEF ChargeWork
<1>4. /\ AlikeWork(w, work[t]) /\ w.notes = work[t].notes /\ w.totals = work[t].totals
      /\ w.decided = work[t].decided /\ w.covers = work[t].covers
  BY <1>2, FreeFields DEF AlikeWork
<1>5. Continues(<< >>, work[t].request, Statement(t).do)
  BY NothingMore
<1> HIDE DEF w
<1> QED
  BY <1>1, <1>2, <1>3, <1>4, <1>5, PlainStatement

\* Two lists that may follow, one after the other, may.
LEMMA BothContinue ==
    ASSUME NEW a, NEW b, NEW e, NEW do, Continues(a, e, do), Continues(b, e, do)
    PROVE  Continues(a \o b, e, do)
<1> DEFINE X == {a[i] : i \in DOMAIN a}
           Y == {b[i] : i \in DOMAIN b}
           Z == X \cup Y
<1>1. a \in Seq(X) /\ b \in Seq(Y)
  BY DEF Continues, List
<1>2. a \in Seq(Z) /\ b \in Seq(Z)
  <2> HIDE DEF X, Y
  <2> QED
    BY <1>1
<1> HIDE DEF Z
<1>3. /\ a \o b \in Seq(Z) /\ Len(a) \in Nat /\ Len(b) \in Nat
      /\ Len(a \o b) = Len(a) + Len(b)
      /\ \A i \in 1..Len(a) : (a \o b)[i] = a[i]
  BY <1>2
<1>4. \A i \in 1..(Len(a) + Len(b)) : i \notin 1..Len(a) => (a \o b)[i] = b[i - Len(a)]
  BY <1>2, <1>3
<1>5. \A i \in 1..(Len(a) + Len(b)) : i \notin 1..Len(a) => i - Len(a) \in 1..Len(b)
  BY <1>3
<1>6. List(a \o b)
  BY <1>3, SeqIsList
<1>7. ASSUME NEW i \in 1..Len(a \o b)
      PROVE  /\ Ordinary((a \o b)[i], e) /\ (a \o b)[i].do \notin ChargeWork
             /\ (a \o b)[i].do \in CoverageWork => do \in CoverageWork
  <2>1. CASE i \in 1..Len(a)
    BY <1>3, <2>1 DEF Continues
  <2>2. CASE i \notin 1..Len(a)
    <3>1. i \in 1..(Len(a) + Len(b))
      BY <1>3
    <3>2. (a \o b)[i] = b[i - Len(a)] /\ i - Len(a) \in 1..Len(b)
      BY <1>4, <1>5, <2>2, <3>1
    <3> QED
      BY <3>2 DEF Continues
  <2> QED
    BY <2>1, <2>2
<1> QED
  BY <1>6, <1>7 DEF Continues

\* A list given by its positions.
LEMMA PositionsContinue ==
    ASSUME NEW n \in Nat, NEW q, q = [k \in 1..n |-> q[k]], NEW e, NEW do,
           \A k \in 1..n : /\ Ordinary(q[k], e) /\ q[k].do \notin ChargeWork
                           /\ q[k].do \notin CoverageWork
    PROVE  Continues(q, e, do)
<1> DEFINE X == {q[k] : k \in 1..n}
<1>1. q \in [1..n -> X]
  BY q = [k \in 1..n |-> q[k]]
<1> HIDE DEF X
<1>2. q \in Seq(X) /\ Len(q) = n
  BY <1>1, RankedIsSeq
<1> QED
  BY <1>2, SeqIsList DEF Continues

\* Statements of the ledger are ordinary ones.
LEMMA LedgerOrdinary ==
    ASSUME NEW e, NEW i, NEW n, NEW row, NEW s,
           s = Decrement(i, n) \/ s = Insert(row) \/ s = UpdateAgent(n)
    PROVE  Ordinary(s, e) /\ s.do \notin ChargeWork /\ s.do \notin CoverageWork
BY DEF Decrement, Insert, UpdateAgent, Ordinary, ChargeWork, CoverageWork

\* So are those that refund a policy.
LEMMA RefundsContinue ==
    ASSUME NEW rows, NEW p, NEW seen, IsFiniteSet(seen), NEW refund, NEW e, NEW do
    PROVE  Continues(Refunds(rows, p, seen, refund), e, do)
<1> DEFINE net       == SumFunctionOnSet(refund, seen)
           Target(i) == IF IsBucket(rows[i]) THEN {i} ELSE IssuanceRows(rows, p)
           moved     == IF Floored(net) THEN {} ELSE {i \in seen : refund[i] # 0 /\ Target(i) # {}}
           inOrder   == Arranged(moved, LAMBDA i, j : i < j)
           takes     == [k \in DOMAIN inOrder |->
                            Decrement(CHOOSE i \in Target(inOrder[k]) : TRUE, refund[inOrder[k]])]
           n         == Cardinality(moved)
           row       == Insert(Row("CANCELLED_POLICY", p, -Deduction(net), NoDue, FALSE))
           agent     == UpdateAgent(-Deduction(net))
<1>1. n \in Nat
  <2>1. moved \subseteq seen
    OBVIOUS
  <2> HIDE DEF moved
  <2> QED
    BY <2>1, FS_Subset, FS_CardinalityType
<1>2. DOMAIN inOrder = 1..n
  BY DEF Arranged
<1>3. takes = [k \in 1..n |-> takes[k]]
  <2> HIDE DEF inOrder, n
  <2> QED
    BY <1>2
<1>4. \A k \in 1..n : takes[k] = Decrement(CHOOSE i \in Target(inOrder[k]) : TRUE, refund[inOrder[k]])
  <2> HIDE DEF inOrder, n
  <2> QED
    BY <1>2
<1>5. Refunds(rows, p, seen, refund) = takes \o <<row, agent>>
  BY DEF Refunds
<1> HIDE DEF takes, n
<1>6. \A k \in 1..n : /\ Ordinary(takes[k], e) /\ takes[k].do \notin ChargeWork
                      /\ takes[k].do \notin CoverageWork
  <2> HIDE DEF inOrder
  <2> QED
    BY <1>4, LedgerOrdinary
<1>7. Continues(takes, e, do)
  BY <1>1, <1>3, <1>6, PositionsContinue
<1>8. Continues(<<row>>, e, do) /\ Continues(<<agent>>, e, do)
  <2>1. /\ Ordinary(row, e) /\ row.do \notin ChargeWork /\ row.do \notin CoverageWork
        /\ Ordinary(agent, e) /\ agent.do \notin ChargeWork /\ agent.do \notin CoverageWork
    BY LedgerOrdinary
  <2> QED
    BY <2>1, OneMore
<1>9. Continues(<<row, agent>>, e, do)
  <2>1. <<row, agent>> = <<row>> \o <<agent>>
    BY TwoInARow
  <2> QED
    BY <1>8, <2>1, BothContinue
<1> QED
  BY <1>5, <1>7, <1>9, BothContinue

\* A cancellation goes on with what it hands back, and is ordinary in that.
LEMMA RefundsFollow ==
    ASSUME EndorsementInv, NEW t \in Txs, ComputePolicyRefunds(t)
    PROVE  \E more : /\ DoneThen(t, tx[t], more)
                     /\ Continues(more, work[t].request, Statement(t).do)
<1> DEFINE e == work[t].request
           seen == {i \in DOMAIN ledger : /\ ledger[i].policy = Policy
                                          /\ ledger[i].type \in {"ISSUANCE", "ENDORSEMENT"}}
           before == <<CancelPolicy, ReadOrphans(e)>>
<1>1. PICK refund : DoneThen(t, tx[t], before \o Refunds(ledger, Policy, seen, refund))
  BY DEF ComputePolicyRefunds, ReadRefunds
<1>2. IsFiniteSet(seen)
  <2>1. IsFiniteSet(DOMAIN ledger) /\ seen \subseteq DOMAIN ledger
    BY DEF EndorsementInv
  <2> HIDE DEF seen
  <2> QED
    BY <2>1, FS_Subset
<1> HIDE DEF seen
<1>3. Continues(before, e, Statement(t).do)
  <2>1. /\ Ordinary(CancelPolicy, e) /\ CancelPolicy.do \notin ChargeWork \cup CoverageWork
        /\ Ordinary(ReadOrphans(e), e) /\ ReadOrphans(e).do \notin ChargeWork \cup CoverageWork
    BY DEF CancelPolicy, ReadOrphans, Ordinary, ChargeWork, CoverageWork
  <2>2. /\ Continues(<<CancelPolicy>>, e, Statement(t).do)
        /\ Continues(<<ReadOrphans(e)>>, e, Statement(t).do)
    BY <2>1, OneMore
  <2>3. before = <<CancelPolicy>> \o <<ReadOrphans(e)>>
    BY TwoInARow
  <2> QED
    BY <2>2, <2>3, BothContinue
<1> HIDE DEF before
<1>4. Continues(before \o Refunds(ledger, Policy, seen, refund), e, Statement(t).do)
  BY <1>2, <1>3, RefundsContinue, BothContinue
<1> QED
  BY <1>1, <1>4

\* The refunds of a cancellation are ordinary statements, and so are the two after them.
LEMMA ComputePolicyRefundsStays ==
    ASSUME EndorsementInv, NEW t \in Txs, ComputePolicyRefunds(t) PROVE EndorsementInv'
<1> DEFINE z == Components
           w == [work[t] EXCEPT !.components = z]
<1>1. /\ About(t, "components") /\ UNCHANGED <<ledger, tables>>
      /\ work' = [work EXCEPT ![t] = w]
  BY DEF ComputePolicyRefunds
<1>2. PICK more : /\ DoneThen(t, tx[t], more)
                  /\ Continues(more, work[t].request, Statement(t).do)
  BY RefundsFollow
<1>3. /\ Running(t) /\ Statement(t).do = "components" /\ Alike(tx[t], tx[t])
      /\ DOMAIN work[t] = DOMAIN Free
  BY <1>1, Executing
<1>4. Statement(t).do \notin {"claim", "commit", "note"} \cup ChargeWork
  BY <1>3 DEF ChargeWork
<1> HIDE DEF z
<1>5. /\ AlikeWork(w, work[t]) /\ w.notes = work[t].notes /\ w.totals = work[t].totals
      /\ w.decided = work[t].decided /\ w.covers = work[t].covers
  BY <1>3, FreeFields DEF AlikeWork
<1> HIDE DEF w
<1> QED
  BY <1>1, <1>2, <1>3, <1>4, <1>5, PlainStatement

\* The elements of a finite set in some order.
LEMMA SetToSeqIs ==
    ASSUME NEW S, IsFiniteSet(S)
    PROVE  /\ Cardinality(S) \in Nat
           /\ SetToSeq(S) \in [1..Cardinality(S) -> S]
<1> DEFINE n == Cardinality(S)
<1>1. n \in Nat /\ ExistsBijection(1..n, S)
  BY FS_CardinalityType
<1>2. PICK f \in [1..n -> S] : IsInjective(f)
  BY <1>1 DEF ExistsBijection, Bijection, Injection
<1>3. SetToSeq(S) = CHOOSE g \in [1..n -> S] : IsInjective(g)
  BY DEF SetToSeq
<1> HIDE DEF n
<1>4. SetToSeq(S) \in [1..n -> S]
  BY <1>2, <1>3
<1> QED
  BY <1>1, <1>4 DEF n

\* Orphans are other endorsements, each rejected with a history row.
LEMMA OrphansFollow ==
    ASSUME EndorsementInv, NEW t \in Txs, FindOrphans(t)
    PROVE  \E more : /\ DoneThen(t, tx[t], more)
                     /\ Continues(more, work[t].request, Statement(t).do)
<1> DEFINE e == work[t].request
           do == Statement(t).do
           orphans == SetToSeq(OrphansOf(Statement(t).request))
           rejects == [k \in DOMAIN orphans |-> RejectOrphan(orphans[k])]
           notes == [k \in DOMAIN orphans |-> Note(orphans[k], "REJECTED")]
<1>1. About(t, "readOrphans") /\ DoneThen(t, tx[t], rejects \o notes)
  BY DEF FindOrphans
<1>2. do = "readOrphans" /\ Statement(t).request = e
  BY <1>1, Executing DEF Ordinary
<1>3. OrphansOf(Statement(t).request) \subseteq Endorsements \ {e}
  BY <1>2 DEF OrphansOf, Filed
<1>4. IsFiniteSet(OrphansOf(Statement(t).request))
  BY <1>3, FS_Subset, EndorsementAssumption
<1> DEFINE n == Cardinality(OrphansOf(Statement(t).request))
<1>5. n \in Nat /\ orphans \in [1..n -> Endorsements \ {e}]
  BY <1>3, <1>4, SetToSeqIs
<1> HIDE DEF n, orphans
<1>6. /\ rejects = [k \in 1..n |-> rejects[k]] /\ notes = [k \in 1..n |-> notes[k]]
      /\ \A k \in 1..n : /\ orphans[k] \in Endorsements \ {e}
                         /\ rejects[k] = RejectOrphan(orphans[k])
                         /\ notes[k] = Note(orphans[k], "REJECTED")
  BY <1>5
<1> HIDE DEF rejects, notes
<1>7. \A k \in 1..n : Ordinary(rejects[k], e) /\ rejects[k].do \notin ChargeWork
                      /\ rejects[k].do \notin CoverageWork
  <2> SUFFICES ASSUME NEW o \in Endorsements \ {e}
               PROVE  /\ Ordinary(RejectOrphan(o), e) /\ RejectOrphan(o).do \notin ChargeWork
                      /\ RejectOrphan(o).do \notin CoverageWork
    BY <1>6
  <2> QED
    BY DEF Ordinary, RejectOrphan, ChargeWork, CoverageWork
<1>8. \A k \in 1..n : Ordinary(notes[k], e) /\ notes[k].do \notin ChargeWork
                      /\ notes[k].do \notin CoverageWork
  <2> SUFFICES ASSUME NEW o \in Endorsements \ {e}
               PROVE  /\ Ordinary(Note(o, "REJECTED"), e) /\ Note(o, "REJECTED").do \notin ChargeWork
                      /\ Note(o, "REJECTED").do \notin CoverageWork
    BY <1>6
  <2> QED
    BY DEF Ordinary, Note, ChargeWork, CoverageWork
<1>9. Continues(rejects, e, do) /\ Continues(notes, e, do)
  BY <1>5, <1>6, <1>7, <1>8, PositionsContinue
<1>10. Continues(rejects \o notes, e, do)
  BY <1>9, BothContinue
<1> QED
  BY <1>1, <1>10

\* Looking for the orphans keeps the invariant.
LEMMA FindOrphansStays ==
    ASSUME EndorsementInv, NEW t \in Txs, FindOrphans(t) PROVE EndorsementInv'
<1>1. About(t, "readOrphans") /\ UNCHANGED <<ledger, tables, work>>
  BY DEF FindOrphans, tables
<1>2. PICK more : /\ DoneThen(t, tx[t], more)
                  /\ Continues(more, work[t].request, Statement(t).do)
  BY OrphansFollow
<1>3. /\ Running(t) /\ Statement(t).do = "readOrphans" /\ Alike(tx[t], tx[t])
      /\ DOMAIN work[t] = DOMAIN Free
  BY <1>1, Executing
<1>4. Statement(t).do \notin {"claim", "commit", "note"} \cup ChargeWork
  BY <1>3 DEF ChargeWork
<1>5. work' = [work EXCEPT ![t] = work[t]] /\ AlikeWork(work[t], work[t])
  BY <1>1, <1>3, OfConnection DEF AlikeWork
<1> QED
  BY <1>1, <1>2, <1>3, <1>4, <1>5, PlainStatement

\* An orphan is claimed under its row's lock, or left as it was decided.
LEMMA UpdateOrphanStays ==
    ASSUME EndorsementInv, NEW t \in Txs, UpdateOrphan(t) PROVE EndorsementInv'
<1> DEFINE v == work[t]
           o == Statement(t).request
           z == IF AlreadyDecided(o) THEN v.decided ELSE Over(Only(o, "REJECTED"), v.decided)
           w == [v EXCEPT !.decided = z]
<1>1. /\ About(t, "rejectOrphan") /\ UNCHANGED <<ledger, tables>>
      /\ DoneThen(t, tx[t], << >>) /\ work' = [work EXCEPT ![t] = w]
  BY DEF UpdateOrphan, Done
<1>2. /\ Running(t) /\ Statement(t).do = "rejectOrphan" /\ Alike(tx[t], tx[t])
      /\ DOMAIN v = DOMAIN Free /\ ClaimsHeld(tx[t], v, request)
      /\ o \in Endorsements \ {v.request} /\ Statement(t).locks = {RequestRow(o)}
  BY <1>1, Executing DEF Ordinary, Decision
<1>3. Statement(t).do \notin {"claim", "commit", "note"} \cup ChargeWork
  BY <1>2 DEF ChargeWork
<1>4. /\ AlikeWork(w, v) /\ w.notes = v.notes /\ w.totals = v.totals
      /\ w.decided = z /\ w.covers = v.covers /\ w.request = v.request
  BY <1>2, FreeFields DEF AlikeWork
<1>5. \A p \in DOMAIN z : \/ p \in DOMAIN v.decided /\ z[p] = v.decided[p]
                          \/ p = o /\ ~AlreadyDecided(o) /\ z[p] = "REJECTED"
  BY DEF Over, Only
<1>6. v.request \in DOMAIN v.decided => v.request \in DOMAIN z /\ z[v.request] = v.decided[v.request]
  BY <1>2 DEF Over, Only
<1> HIDE DEF z, w
<1>7. ASSUME NEW y, y.holds = tx[t].holds \cup Statement(t).locks PROVE ClaimsHeld(y, w, request)
  <2>1. RequestRow(o) \in y.holds /\ tx[t].holds \subseteq y.holds
    BY <1>2, <1>7
  <2> QED
    BY <1>2, <1>4, <1>5, <2>1 DEF ClaimsHeld, AlreadyDecided, Verdicts
<1>8. \A verdict \in Verdicts : Decided(v, verdict) => Decided(w, verdict)
  BY <1>4, <1>6 DEF Decided
<1>9. Continues(<< >>, v.request, Statement(t).do)
  BY NothingMore
<1> QED
  BY <1>1, <1>2, <1>3, <1>4, <1>7, <1>8, <1>9, OrdinaryStatement

\* A list of one element.
LEMMA OneElement ==
    ASSUME NEW X, NEW q \in Seq(X), Len(q) = 1
    PROVE  q = <<q[1]>>
<1>1. q \in [1..1 -> X]
  BY SeqIsFunction
<1>2. <<q[1]>> \in [1..1 -> X] /\ <<q[1]>>[1] = q[1]
  OBVIOUS
<1>3. \A i \in 1..1 : i = 1
  OBVIOUS
<1> QED
  BY <1>1, <1>2, <1>3

\* A list after its first element.
LEMMA Dropped ==
    ASSUME NEW q, List(q), q # << >>
    PROVE  /\ << >> \o Tail(q) = Tail(q)
           /\ List(Tail(q)) /\ Len(q) \in Nat /\ Len(q) >= 1 /\ Len(Tail(q)) = Len(q) - 1
           /\ \A i \in 1..(Len(q) - 1) : Tail(q)[i] = q[i + 1]
           /\ Len(q) = 2 => Tail(q) = <<q[2]>>
<1> DEFINE X == {q[i] : i \in DOMAIN q}
<1>1. q \in Seq(X)
  BY DEF List
<1> HIDE DEF X
<1>2. /\ << >> \o Tail(q) = Tail(q) /\ Tail(q) \in Seq(X)
      /\ Len(q) \in Nat /\ Len(q) >= 1 /\ Len(Tail(q)) = Len(q) - 1
  BY <1>1
<1>3. \A i \in 1..(Len(q) - 1) : Tail(q)[i] = q[i + 1]
  BY <1>1
<1>4. Len(q) = 2 => Tail(q) = <<q[2]>>
  <2> SUFFICES ASSUME Len(q) = 2 PROVE Tail(q) = <<q[2]>>
    OBVIOUS
  <2>1. Len(Tail(q)) = 1 /\ Tail(q)[1] = q[2]
    BY <1>2, <1>3
  <2> QED
    BY <1>2, <2>1, OneElement
<1> QED
  BY <1>2, <1>3, <1>4, SeqIsList

\* A statement done, the coverages and the totals are still in step.
LEMMA ChargedOn ==
    ASSUME NEW q, List(q), q # << >>, NEW holds, NEW v, NEW cov, Charged(q, holds, v, cov),
           q[1].do \notin ChargeWork, q[1].do # "agent",
           NEW held, holds \subseteq held, NEW w, w.totals = v.totals, w.covers = v.covers
    PROVE  Charged(Tail(q), held, w, cov)
<1> DEFINE more == << >>
<1>1. List(more) /\ Len(more) = 0
  BY NothingMore, Len(<< >>) = 0 DEF Continues
<1>2. more \o Tail(q) = Tail(q)
  BY Dropped
<1> HIDE DEF more
<1>3. \A i \in 1..Len(more) : /\ more[i].do \notin ChargeWork
                              /\ more[i].do \in CoverageWork => q[1].do \in CoverageWork
  BY <1>1
<1>4. Charged(more \o Tail(q), held, w, cov)
  BY <1>1, <1>3, ChargedStays
<1> QED
  BY <1>2, <1>4

\* The endorsement is claimed only while it is undecided, and its row stays
\* locked.
LEMMA ClaimStays ==
    ASSUME EndorsementInv, NEW t \in Txs, Claim(t) PROVE EndorsementInv'
<1> DEFINE v == work[t]
           x == tx[t]
           s == Statement(t)
           w == [v EXCEPT !.decided = Over(Only(s.request, s.status), v.decided)]
<1>1. /\ About(t, "claim") /\ UNCHANGED <<ledger, tables>>
      /\ \/ Rollback(t)
         \/ /\ ~AlreadyDecided(s.request) /\ DoneThen(t, x, << >>)
            /\ work' = [work EXCEPT ![t] = w]
  BY DEF Claim, Done
<1>2. CASE Rollback(t)
  BY <1>1, <1>2, RollbackStays DEF Rollback
<1>3. CASE ~AlreadyDecided(s.request) /\ DoneThen(t, x, << >>) /\ work' = [work EXCEPT ![t] = w]
  <2>1. /\ Running(t) /\ s.do = "claim" /\ Alike(x, x) /\ DOMAIN v = DOMAIN Free
        /\ Decision(x, v, request, coverage)
    BY <1>1, Executing
  <2>2. v.request \in Endorsements
    BY <2>1, AtStatementOf DEF FiledIn
  <2>3. /\ x.todo # << >> /\ List(x.todo) /\ Head(x.todo) = x.todo[1] /\ s = Head(x.todo)
        /\ \E verdict \in Verdicts : Unclaimed(x, v, verdict)
    BY <2>1, AtHead DEF Statement
  <2>4. PICK verdict \in Verdicts : Unclaimed(x, v, verdict)
    BY <2>3
  <2>5. /\ s = ClaimAs(v.request, verdict) /\ Ends(Tail(x.todo), v.request, verdict)
        /\ v.decided = NoRows /\ v.notes = << >>
    BY <2>3, <2>4 DEF Unclaimed
  <2>6. s.request = v.request /\ s.status = verdict /\ s.locks = {RequestRow(v.request)}
    BY <2>5 DEF ClaimAs
  <2>7. /\ DOMAIN w.decided = {v.request} /\ w.decided[v.request] = verdict
        /\ AlikeWork(w, v) /\ w.notes = v.notes /\ w.totals = v.totals /\ w.covers = v.covers
        /\ w.request = v.request
    BY <2>1, <2>5, <2>6, FreeFields DEF AlikeWork, Over, Only, NoRows
  <2> HIDE DEF w
  <2>9. ASSUME NEW y, y.todo = << >> \o Tail(x.todo), y.holds = x.holds \cup Head(x.todo).locks
        PROVE  Decision(y, w, request, coverage)
    <3>1. y.todo = Tail(x.todo) /\ List(y.todo)
      BY <2>3, <2>9, Dropped
    <3>2. Claimed(y, w, verdict)
      <4>1. Ends(y.todo, w.request, verdict) /\ Decided(w, verdict)
        BY <2>5, <2>7, <3>1 DEF Decided
      <4>2. \A k \in 1..Len(w.notes) : w.notes[k].decision = "REJECTED"
        BY <2>5, <2>7, Len(<< >>) = 0
      <4> QED
        BY <4>1, <4>2 DEF Claimed
    <3>3. ClaimsHeld(y, w, request)
      BY <1>3, <2>2, <2>3, <2>6, <2>7, <2>9 DEF ClaimsHeld, AlreadyDecided
    <3>4. Charged(y.todo, y.holds, w, coverage)
      <4>1. Charged(x.todo, x.holds, v, coverage)
        BY <2>1 DEF Decision
      <4>2. x.todo[1].do \notin ChargeWork /\ x.todo[1].do # "agent"
        BY <2>1, <2>3 DEF ChargeWork
      <4>3. Charged(Tail(x.todo), y.holds, w, coverage)
        BY <2>3, <2>7, <2>9, <4>1, <4>2, ChargedOn
      <4> QED
        BY <3>1, <4>3
    <3>5. w.notes \in Seq(HistoryRow)
      BY <2>1, <2>7 DEF Decision
    <3> QED
      BY <3>1, <3>2, <3>3, <3>4, <3>5 DEF Decision
  <2> QED
    BY <1>1, <1>3, <2>1, <2>7, <2>9, StatementOfDecision
<1> QED
  BY <1>1, <1>2, <1>3

\* The totals are computed when the coverages are final, and the agent's row is
\* held.
LEMMA ChargesComputed ==
    ASSUME NEW q, List(q), q # << >>, NEW holds, NEW v, NEW cov, Charged(q, holds, v, cov),
           q[1].do = "readCharges", NEW held, holds \subseteq held,
           NEW s, s.do = "writeTotals", Totals(v, cov, s.totals),
           NEW r, r = <<s>> \o Tail(q)
    PROVE  List(r) /\ Charged(r, held, v, cov)
<1> DEFINE n == Len(q)
<1> DEFINE one == <<s>>
<1>0. one \in Seq({s}) /\ Len(one) = 1 /\ one[1] = s
  OBVIOUS
<1>1. /\ List(r) /\ n \in Nat /\ n >= 1 /\ Len(r) = 1 + n - 1
      /\ \A i \in 1..1 : r[i] = one[i]
      /\ \A i \in (1 + 1)..(1 + n - 1) : r[i] = q[i - 1 + 1]
  <2>1. r = one \o Tail(q)
    OBVIOUS
  <2> HIDE DEF one
  <2>2. List(one)
    BY <1>0, SeqIsList
  <2>3. /\ List(one \o Tail(q))
        /\ Len(q) \in Nat /\ Len(q) >= 1 /\ Len(one) \in Nat
        /\ Len(one \o Tail(q)) = Len(one) + Len(q) - 1
        /\ \A i \in 1..Len(one) : (one \o Tail(q))[i] = one[i]
        /\ \A i \in (Len(one) + 1)..(Len(one) + Len(q) - 1) :
              (one \o Tail(q))[i] = q[i - Len(one) + 1]
    BY <2>2, Spliced
  <2> QED
    BY <1>0, <2>1, <2>3
<1> HIDE DEF one
<1>2. Len(r) = n /\ r[1] = s /\ 1 \in 1..n
  BY <1>0, <1>1
<1>3. \A i \in 1..n : i # 1 => r[i] = q[i]
  <2> SUFFICES ASSUME NEW i \in 1..n, i # 1 PROVE r[i] = q[i]
    OBVIOUS
  <2>1. i \in (1 + 1)..(1 + n - 1) /\ i - 1 + 1 = i
    BY <1>1
  <2> QED
    BY <1>1, <2>1
<1>4. /\ \A j, k \in 1..n : q[j].do \in ChargeWork /\ q[k].do \in ChargeWork => j = k
      /\ \A i \in 1..n : q[i].do \in CoverageWork =>
             \E j \in 1..n : j > i /\ q[j].do = "readCharges"
      /\ \A j \in 1..n : q[j].do = "readCharges" =>
             AgentRow \in holds \/ \E i \in 1..(j - 1) : q[i].do = "agent"
      /\ v.totals # NoRows => \A j \in 1..n : q[j].do \notin ChargeWork
  BY DEF Charged
<1> HIDE DEF n
<1>5. AgentRow \in held
  <2>1. \A i \in 1..(1 - 1) : FALSE
    OBVIOUS
  <2> QED
    BY <1>2, <1>4, <2>1
<1>6. \A j \in 1..n : q[j].do \in ChargeWork => j = 1
  BY <1>2, <1>4 DEF ChargeWork
<1>7. \A i \in 1..n : q[i].do \notin CoverageWork
  <2> SUFFICES ASSUME NEW i \in 1..n, q[i].do \in CoverageWork PROVE FALSE
    OBVIOUS
  <2>1. PICK j \in 1..n : j > i /\ q[j].do = "readCharges"
    BY <1>4
  <2>2. j = 1
    BY <1>6, <2>1 DEF ChargeWork
  <2> QED
    BY <1>1, <2>1, <2>2
<1>8. v.totals = NoRows
  BY <1>2, <1>4 DEF ChargeWork
<1>9. \A j \in 1..n : /\ r[j].do \in ChargeWork => j = 1
                      /\ r[j].do \notin CoverageWork
                      /\ r[j].do # "readCharges"
                      /\ r[j].do = "writeTotals" => r[j] = s
  <2> SUFFICES ASSUME NEW j \in 1..n
               PROVE  /\ r[j].do \in ChargeWork => j = 1
                      /\ r[j].do \notin CoverageWork
                      /\ r[j].do # "readCharges"
                      /\ r[j].do = "writeTotals" => r[j] = s
    OBVIOUS
  <2>1. CASE j = 1
    BY <1>2, <2>1 DEF ChargeWork, CoverageWork
  <2>2. CASE j # 1
    <3>1. r[j] = q[j]
      BY <1>3, <2>2
    <3>2. q[j].do \notin ChargeWork /\ q[j].do \notin CoverageWork
      BY <1>6, <1>7, <2>2
    <3> QED
      BY <3>1, <3>2 DEF ChargeWork
  <2> QED
    BY <2>1, <2>2
<1>10. \E j \in 1..n : r[j].do \in ChargeWork
  BY <1>2 DEF ChargeWork
<1>11. Charged(r, held, v, cov)
  BY <1>2, <1>5, <1>8, <1>9, <1>10 DEF Charged
<1> QED
  BY <1>1, <1>11

\* The totals are those of the coverages until the commit.
LEMMA TotalsWritten ==
    ASSUME NEW q, List(q), q # << >>, NEW holds, NEW v, NEW cov, Charged(q, holds, v, cov),
           q[1].do = "writeTotals", NEW held, holds \subseteq held,
           NEW w, w.totals = q[1].totals, w.covers = v.covers
    PROVE  Charged(Tail(q), held, w, cov)
<1> DEFINE r == Tail(q)
           n == Len(q)
<1>1. /\ n \in Nat /\ n >= 1 /\ Len(r) = n - 1
      /\ \A i \in 1..(n - 1) : r[i] = q[i + 1]
  BY Dropped
<1>2. /\ \A j, k \in 1..n : q[j].do \in ChargeWork /\ q[k].do \in ChargeWork => j = k
      /\ \A i \in 1..n : q[i].do \in CoverageWork =>
             \E j \in 1..n : j > i /\ q[j].do = "readCharges"
      /\ \A j \in 1..n : q[j].do = "writeTotals" =>
             AgentRow \in holds /\ Totals(v, cov, q[j].totals)
  BY DEF Charged
<1> HIDE DEF r, n
<1>3. 1 \in 1..n
  BY <1>1
<1>4. \A j \in 1..n : q[j].do \in ChargeWork => j = 1
  BY <1>2, <1>3 DEF ChargeWork
<1>5. \A i \in 1..n : q[i].do \notin CoverageWork
  <2> SUFFICES ASSUME NEW i \in 1..n, q[i].do \in CoverageWork PROVE FALSE
    OBVIOUS
  <2>1. PICK j \in 1..n : j > i /\ q[j].do = "readCharges"
    BY <1>2
  <2>2. j = 1
    BY <1>4, <2>1 DEF ChargeWork
  <2> QED
    BY <1>1, <2>1, <2>2
<1>6. \A j \in 1..Len(r) : r[j].do \notin ChargeWork /\ r[j].do \notin CoverageWork
  <2> SUFFICES ASSUME NEW j \in 1..Len(r) PROVE r[j].do \notin ChargeWork /\ r[j].do \notin CoverageWork
    OBVIOUS
  <2>1. j + 1 \in 1..n /\ j + 1 # 1 /\ r[j] = q[j + 1]
    BY <1>1
  <2> QED
    BY <1>4, <1>5, <2>1
<1>7. AgentRow \in held /\ Totals(w, cov, w.totals)
  BY <1>2, <1>3 DEF Totals
<1>8. w.totals # NoRows
  <2>1. DOMAIN w.totals = {"total", "misc"} /\ DOMAIN NoRows = {}
    BY <1>7 DEF Totals, NoRows
  <2> QED
    BY <2>1
<1>9. \A j \in 1..Len(r) : r[j].do # "readCharges" /\ r[j].do # "writeTotals"
  BY <1>6 DEF ChargeWork
<1> QED
  BY <1>6, <1>7, <1>8, <1>9 DEF Charged, r

\* The end of a list, its first statement done.
LEMMA EndsOn ==
    ASSUME NEW q, List(q), NEW e, NEW verdict, Ends(q, e, verdict), Len(q) > 2
    PROVE  Ends(Tail(q), e, verdict)
<1> DEFINE more == << >>
<1>1. List(more) /\ Len(more) = 0
  BY NothingMore, Len(<< >>) = 0 DEF Continues
<1>2. q # << >>
  <2> SUFFICES ASSUME q = << >> PROVE FALSE
    OBVIOUS
  <2> QED
    BY Len(<< >>) = 0
<1>3. more \o Tail(q) = Tail(q)
  BY <1>2, Dropped
<1> HIDE DEF more
<1>4. \A i \in 1..Len(more) : Ordinary(more[i], e)
  BY <1>1
<1>5. Ends(more \o Tail(q), e, verdict)
  BY <1>1, <1>4, EndStays
<1> QED
  BY <1>3, <1>5

\* Another statement put in its place.
LEMMA EndsOneMore ==
    ASSUME NEW q, List(q), NEW e, NEW verdict, Ends(q, e, verdict), Len(q) > 2,
           NEW s, Ordinary(s, e), NEW r, r = <<s>> \o Tail(q)
    PROVE  Ends(r, e, verdict)
<1> DEFINE more == <<s>>
<1>1. more \in Seq({s}) /\ Len(more) = 1 /\ more[1] = s
  OBVIOUS
<1>2. r = more \o Tail(q)
  OBVIOUS
<1> HIDE DEF more
<1>3. \A i \in 1..Len(more) : Ordinary(more[i], e)
  <2>1. \A i \in 1..1 : i = 1
    OBVIOUS
  <2> QED
    BY <1>1, <2>1
<1>4. List(more)
  BY <1>1, SeqIsList
<1> QED
  BY <1>2, <1>3, <1>4, EndStays

\* The totals are computed once the agent's row is held.
LEMMA ComputeChargesStays ==
    ASSUME EndorsementInv, NEW t \in Txs, ComputeCharges(t) PROVE EndorsementInv'
<1> DEFINE v == work[t]
           x == tx[t]
           cov == Coverages(t)
           s == WriteTotals([total |-> Premium(cov), misc |-> v.base + Misc(cov)])
<1>1. /\ About(t, "readCharges") /\ UNCHANGED <<ledger, tables, work>>
      /\ DoneThen(t, x, <<s>>)
  BY DEF ComputeCharges, tables
<1>2. /\ Running(t) /\ Statement(t).do = "readCharges" /\ Alike(x, x) /\ DOMAIN v = DOMAIN Free
      /\ Decision(x, v, request, coverage)
  BY <1>1, Executing
<1>3. /\ x.todo # << >> /\ List(x.todo) /\ Head(x.todo) = x.todo[1] /\ Statement(t) = Head(x.todo)
      /\ Len(x.todo) > 2 /\ \E verdict \in Verdicts : Claimed(x, v, verdict)
  BY <1>2, AtHead DEF Statement
<1>4. s.do = "writeTotals" /\ "do" \in DOMAIN s /\ Totals(v, coverage, s.totals)
  <2>1. s.totals = [total |-> Premium(cov), misc |-> v.base + Misc(cov)] /\ s.do = "writeTotals"
        /\ "do" \in DOMAIN s
    BY DEF WriteTotals
  <2>2. cov = Over(v.covers, coverage)
    BY DEF Coverages
  <2> QED
    BY <2>1, <2>2 DEF Totals
<1> HIDE DEF s
<1>5. Ordinary(s, v.request)
  BY <1>4 DEF Ordinary
<1>6. ASSUME NEW y, y.todo = <<s>> \o Tail(x.todo), y.holds = x.holds \cup Head(x.todo).locks
      PROVE  Decision(y, v, request, coverage)
  <2>1. Charged(x.todo, x.holds, v, coverage) /\ ClaimsHeld(x, v, request) /\ v.notes \in Seq(HistoryRow)
    BY <1>2 DEF Decision
  <2>2. x.todo[1].do = "readCharges" /\ x.holds \subseteq y.holds
    BY <1>2, <1>3, <1>6
  <2>3. List(y.todo) /\ Charged(y.todo, y.holds, v, coverage)
    BY <1>3, <1>4, <1>6, <2>1, <2>2, ChargesComputed
  <2>4. PICK verdict \in Verdicts : Claimed(x, v, verdict)
    BY <1>3
  <2>5. Ends(y.todo, v.request, verdict)
    <3>1. Ends(x.todo, v.request, verdict)
      BY <2>4 DEF Claimed
    <3> QED
      BY <1>3, <1>5, <1>6, <3>1, EndsOneMore
  <2>6. Claimed(y, v, verdict)
    BY <2>4, <2>5 DEF Claimed
  <2>7. ClaimsHeld(y, v, request)
    BY <2>1, <2>2, ClaimsKept
  <2> QED
    BY <2>1, <2>3, <2>6, <2>7 DEF Decision
<1>7. work' = [work EXCEPT ![t] = v] /\ AlikeWork(v, v)
  BY <1>1, <1>2, OfConnection DEF AlikeWork
<1> QED
  BY <1>1, <1>2, <1>6, <1>7, StatementOfDecision

\* The totals are written as they were computed, under the agent's row.
LEMMA UpdateTotalsStays ==
    ASSUME EndorsementInv, NEW t \in Txs, UpdateTotals(t) PROVE EndorsementInv'
<1> DEFINE v == work[t]
           x == tx[t]
           w == [v EXCEPT !.totals = Statement(t).totals]
<1>1. /\ About(t, "writeTotals") /\ UNCHANGED <<ledger, tables>>
      /\ DoneThen(t, x, << >>) /\ work' = [work EXCEPT ![t] = w]
  BY DEF UpdateTotals, Done
<1>2. /\ Running(t) /\ Statement(t).do = "writeTotals" /\ Alike(x, x) /\ DOMAIN v = DOMAIN Free
      /\ Decision(x, v, request, coverage)
  BY <1>1, Executing
<1>3. /\ x.todo # << >> /\ List(x.todo) /\ Head(x.todo) = x.todo[1] /\ Statement(t) = Head(x.todo)
      /\ Len(x.todo) > 2 /\ \E verdict \in Verdicts : Claimed(x, v, verdict)
  BY <1>2, AtHead DEF Statement
<1>4. /\ AlikeWork(w, v) /\ w.notes = v.notes /\ w.totals = x.todo[1].totals
      /\ w.decided = v.decided /\ w.covers = v.covers /\ w.request = v.request
  BY <1>2, <1>3, FreeFields DEF AlikeWork
<1> HIDE DEF w
<1>5. ASSUME NEW y, y.todo = << >> \o Tail(x.todo), y.holds = x.holds \cup Head(x.todo).locks
      PROVE  Decision(y, w, request, coverage)
  <2>1. Charged(x.todo, x.holds, v, coverage) /\ ClaimsHeld(x, v, request) /\ v.notes \in Seq(HistoryRow)
    BY <1>2 DEF Decision
  <2>2. x.todo[1].do = "writeTotals" /\ x.holds \subseteq y.holds
    BY <1>2, <1>3, <1>5
  <2>3. List(y.todo) /\ y.todo = Tail(x.todo)
    BY <1>3, <1>5, Dropped
  <2>4. Charged(y.todo, y.holds, w, coverage)
    BY <1>3, <1>4, <2>1, <2>2, <2>3, TotalsWritten
  <2>5. PICK verdict \in Verdicts : Claimed(x, v, verdict)
    BY <1>3
  <2>6. Ends(y.todo, v.request, verdict)
    BY <1>3, <2>3, <2>5, EndsOn DEF Claimed
  <2>7. Claimed(y, w, verdict)
    BY <1>4, <2>5, <2>6 DEF Claimed, Decided
  <2>8. ClaimsHeld(y, w, request)
    BY <1>4, <2>1, <2>2, ClaimsKept
  <2> QED
    BY <1>4, <2>1, <2>3, <2>4, <2>7, <2>8 DEF Decision
<1> QED
  BY <1>1, <1>2, <1>4, <1>5, StatementOfDecision

\* The history row of the decision, or of an endorsement it rejects besides.
LEMMA InsertHistoryStays ==
    ASSUME EndorsementInv, NEW t \in Txs, InsertHistory(t) PROVE EndorsementInv'
<1> DEFINE v == work[t]
           x == tx[t]
           s == Statement(t)
           note == [request |-> s.request, decision |-> s.decision]
           w == [v EXCEPT !.notes = Append(v.notes, note)]
<1>1. /\ About(t, "note") /\ UNCHANGED <<ledger, tables>>
      /\ DoneThen(t, x, << >>) /\ work' = [work EXCEPT ![t] = w]
  BY DEF InsertHistory, Done
<1>2. /\ Running(t) /\ s.do = "note" /\ Alike(x, x) /\ DOMAIN v = DOMAIN Free
      /\ Decision(x, v, request, coverage)
  BY <1>1, Executing
<1>3. /\ x.todo # << >> /\ List(x.todo) /\ Head(x.todo) = x.todo[1] /\ s = Head(x.todo)
      /\ \/ /\ Len(x.todo) = 2
            /\ \E verdict \in Verdicts : Claimed(x, v, verdict) /\ s = Note(v.request, verdict)
         \/ /\ Len(x.todo) > 2 /\ Ordinary(s, v.request)
            /\ \E verdict \in Verdicts : Claimed(x, v, verdict)
  BY <1>2, AtHead DEF Statement
<1>4. /\ AlikeWork(w, v) /\ w.notes = Append(v.notes, note) /\ w.totals = v.totals
      /\ w.decided = v.decided /\ w.covers = v.covers /\ w.request = v.request
  BY <1>2, FreeFields DEF AlikeWork
<1> HIDE DEF w
<1>5. /\ Charged(x.todo, x.holds, v, coverage) /\ ClaimsHeld(x, v, request)
      /\ v.notes \in Seq(HistoryRow)
  BY <1>2 DEF Decision
<1>6. note \in HistoryRow
  <2>1. v.request \in Endorsements
    BY <1>2, AtStatementOf DEF FiledIn
  <2> QED
    BY <1>2, <1>3, <2>1 DEF HistoryRow, Ordinary, Note, Verdicts
<1> HIDE DEF note
<1>7. /\ w.notes \in Seq(HistoryRow) /\ Len(v.notes) \in Nat /\ Len(w.notes) = Len(v.notes) + 1
      /\ \A k \in 1..Len(v.notes) : w.notes[k] = v.notes[k]
      /\ w.notes[Len(w.notes)] = note
  <2>1. Append(v.notes, note) \in Seq(HistoryRow) /\ Len(Append(v.notes, note)) = Len(v.notes) + 1
        /\ Len(v.notes) \in Nat
    BY <1>5, <1>6
  <2>2. /\ \A k \in 1..Len(v.notes) : Append(v.notes, note)[k] = v.notes[k]
        /\ Append(v.notes, note)[Len(v.notes) + 1] = note
    BY <1>5, <1>6, AppendIs
  <2> QED
    BY <1>4, <2>1, <2>2
<1>8. ASSUME NEW y, y.todo = << >> \o Tail(x.todo), y.holds = x.holds \cup Head(x.todo).locks
      PROVE  Decision(y, w, request, coverage)
  <2>1. x.todo[1].do = "note" /\ x.holds \subseteq y.holds
    BY <1>2, <1>3, <1>8
  <2>2. List(y.todo) /\ y.todo = Tail(x.todo)
    BY <1>3, <1>8, Dropped
  <2>3. Charged(y.todo, y.holds, w, coverage)
    <3>1. x.todo[1].do \notin ChargeWork /\ x.todo[1].do # "agent"
      BY <2>1 DEF ChargeWork
    <3> QED
      BY <1>3, <1>4, <1>5, <2>1, <2>2, <3>1, ChargedOn
  <2>4. ClaimsHeld(y, w, request)
    BY <1>4, <1>5, <2>1, ClaimsKept
  <2>5. CASE Len(x.todo) = 2
    <3>1. PICK verdict \in Verdicts : Claimed(x, v, verdict) /\ s = Note(v.request, verdict)
      BY <1>3, <2>5
    <3>2. note = [request |-> v.request, decision |-> verdict]
      BY <3>1 DEF note, Note
    <3>3. y.todo = <<CommitTransaction>>
      BY <1>3, <2>2, <2>5, <3>1, Dropped DEF Claimed, Ends
    <3>4. \A k \in 1..(Len(w.notes) - 1) : w.notes[k].decision = "REJECTED"
      <4>1. Len(w.notes) - 1 = Len(v.notes)
        BY <1>7
      <4> QED
        BY <1>7, <3>1, <4>1 DEF Claimed
    <3>5. Noted(y, w, verdict)
      BY <1>4, <1>7, <3>1, <3>2, <3>3, <3>4 DEF Noted, Claimed, Decided
    <3> QED
      BY <1>7, <2>2, <2>3, <2>4, <3>5 DEF Decision
  <2>6. CASE Len(x.todo) # 2
    <3>1. PICK verdict \in Verdicts : Claimed(x, v, verdict)
      BY <1>3
    <3>2. Ends(y.todo, v.request, verdict)
      BY <1>3, <2>2, <2>6, <3>1, EndsOn DEF Claimed
    <3>3. note.decision = "REJECTED"
      BY <1>2, <1>3, <2>6 DEF Ordinary, note
    <3>4. \A k \in 1..Len(w.notes) : w.notes[k].decision = "REJECTED"
      <4>1. \A k \in 1..Len(w.notes) : k \in 1..Len(v.notes) \/ k = Len(w.notes)
        BY <1>7
      <4> QED
        BY <1>7, <3>1, <3>3, <4>1 DEF Claimed
    <3>5. Claimed(y, w, verdict)
      BY <1>4, <3>1, <3>2, <3>4 DEF Claimed, Decided
    <3> QED
      BY <1>7, <2>2, <2>3, <2>4, <3>5 DEF Decision
  <2> QED
    BY <2>5, <2>6
<1> QED
  BY <1>1, <1>2, <1>4, <1>8, StatementOfDecision

-----------------------------------------------------------------------------
(* The handlers outside their transactions.                                  *)

\* Tables with the same rows.
SameRows(new, old) == DOMAIN new = DOMAIN old /\ \A i \in DOMAIN old : new[i] = old[i]

\* What another connection's commit, or a handler, may change under one.
LEMMA ConnectionStays ==
    ASSUME NEW x, NEW v, NEW req, NEW cov, Connection(x, v, req, cov), NEW req2, NEW cov2,
           FiledIn(req) \subseteq FiledIn(req2),
           v.pc \in Filing => req2[v.request].status = "UNFILED",
           Cardinality(FiledIn(req)) \in Nat, Cardinality(FiledIn(req2)) \in Nat,
           Cardinality(FiledIn(req)) <= Cardinality(FiledIn(req2)),
           \A o \in Endorsements :
               req[o].status = "SUBMITTED" /\ RequestRow(o) \in x.holds => req2[o].status = "SUBMITTED",
           SameRows(cov2, cov) \/ AgentRow \notin x.holds
    PROVE  Connection(x, v, req2, cov2)
<1>1. Handling(v, req2)
  <2>1. Handling(v, req)
    BY DEF Connection
  <2>2. \A n \in 1..(Cardinality(FiledIn(req)) + 1) : n \in 1..(Cardinality(FiledIn(req2)) + 1)
    OBVIOUS
  <2> QED
    BY <2>1, <2>2 DEF Handling
<1>2. CASE x.kind = "idle"
  BY <1>1, <1>2 DEF Connection
<1>3. CASE x.kind # "idle"
  <2>1. Decision(x, v, req, cov)
    BY <1>3 DEF Connection
  <2>2. ClaimsHeld(x, v, req2)
    BY <2>1 DEF Decision, ClaimsHeld
  <2>3. Charged(x.todo, x.holds, v, cov2)
    <3>1. Charged(x.todo, x.holds, v, cov)
      BY <2>1 DEF Decision
    <3>2. CASE SameRows(cov2, cov)
      <4>1. Over(v.covers, cov2) = Over(v.covers, cov)
        BY <3>2 DEF Over, SameRows
      <4>2. \A totals : Totals(v, cov, totals) => Totals(v, cov2, totals)
        BY <4>1 DEF Totals
      <4> QED
        BY <3>1, <4>2 DEF Charged
    <3>3. CASE AgentRow \notin x.holds
      BY <3>1, <3>3 DEF Charged
    <3> QED
      BY <3>2, <3>3
  <2>4. Decision(x, v, req2, cov2)
    BY <2>1, <2>2, <2>3 DEF Decision
  <2> QED
    BY <1>1, <1>3, <2>4 DEF Connection
<1> QED
  BY <1>2, <1>3

\* A step of one connection, whatever tables it changes.
LEMMA OneConnectionAnd ==
    ASSUME EndorsementInv, NEW t \in Txs, NEW y, NEW w,
           tx' = [tx EXCEPT ![t] = y], work' = [work EXCEPT ![t] = w],
           Connection(y, w, request', coverage'),
           \A u \in Txs \ {t} : Connection(tx[u], work[u], request', coverage'),
           \A u \in Txs \ {t} : Aside(y, w, tx[u], work[u]),
           IsFiniteSet(DOMAIN ledger'), Requests(request'), History', Totalled'
    PROVE  EndorsementInv'
<1>1. /\ tx = [u \in Txs |-> tx[u]] /\ work = [u \in Txs |-> work[u]]
      /\ \A u, z \in Txs : u # z => Aside(tx[u], work[u], tx[z], work[z])
  BY DEF EndorsementInv, Connected
<1>2. /\ tx' = [u \in Txs |-> tx'[u]] /\ work' = [u \in Txs |-> work'[u]]
      /\ tx'[t] = y /\ work'[t] = w
      /\ \A u \in Txs \ {t} : tx'[u] = tx[u] /\ work'[u] = work[u]
  BY <1>1
<1>3. \A u \in Txs : Connection(tx'[u], work'[u], request', coverage')
  BY <1>2
<1>4. \A u \in Txs \ {t} : Aside(tx[u], work[u], y, w)
  BY DEF Aside
<1>5. \A u, z \in Txs : u # z => Aside(tx'[u], work'[u], tx'[z], work'[z])
  BY <1>1, <1>2, <1>4
<1>6. Connected(request, coverage)'
  BY <1>2, <1>3, <1>5 DEF Connected
<1> QED
  BY <1>6 DEF EndorsementInv

\* A handler outside its transaction.
LEMMA Outside ==
    ASSUME EndorsementInv, NEW t \in Txs, work[t].pc # "transaction"
    PROVE  /\ Handling(work[t], request) /\ ~Running(t)
           /\ tx[t].kind = "idle" /\ tx[t].holds = {} /\ DOMAIN tx[t] = Fields
           /\ IsFiniteSet(DOMAIN tx[t].writes)
           /\ \A w, req, cov : Handling(w, req) /\ w.pc # "transaction" => Connection(tx[t], w, req, cov)
<1>1. Connection(tx[t], work[t], request, coverage)
  BY OfConnection
<1> QED
  BY <1>1 DEF Connection, Running

\* A step of a handler outside its transaction.
LEMMA HandlerStep ==
    ASSUME EndorsementInv, NEW t \in Txs, work[t].pc # "transaction",
           NEW w, Handling(w, request), w.pc # "transaction",
           w.pc \in Filing => \A u \in Txs \ {t} : work[u].pc \in Filing => work[u].request # w.request,
           work' = [work EXCEPT ![t] = w], UNCHANGED <<ledger, tx, tables>>
    PROVE  EndorsementInv'
<1>1. tx' = [tx EXCEPT ![t] = tx[t]]
  BY OfConnection
<1>2. Connection(tx[t], w, request, coverage) /\ tx[t].holds = {}
  BY Outside
<1>3. \A u \in Txs \ {t} : Aside(tx[t], w, tx[u], work[u])
  BY <1>2 DEF Aside
<1> QED
  BY <1>1, <1>2, <1>3, OneConnection

\* Nothing to do.
LEMMA FreeHandling ==
    /\ DOMAIN Free = {"pc", "request", "type", "lines", "line", "number", "misc", "base", "decided",
                      "notes", "cancels", "components", "covers", "totals"}
    /\ Free.pc = "free" /\ IsFiniteSet(DOMAIN Free.lines)
    /\ Free.decided = NoRows /\ Free.notes = << >> /\ Free.covers = NoRows /\ Free.totals = NoRows
    /\ \A req : Handling(Free, req)
<1>1. /\ Free.pc = "free" /\ DOMAIN Free.lines = {}
      /\ Free.decided = NoRows /\ Free.notes = << >> /\ Free.covers = NoRows /\ Free.totals = NoRows
  BY DEF Free, NoRows
<1>2. IsFiniteSet(DOMAIN Free.lines)
  BY <1>1, FS_EmptySet
<1> QED
  BY <1>1, <1>2, FreeFields DEF Handling, Filing, Blank

\* One line.
LEMMA OnlyFinite == ASSUME NEW i, NEW row PROVE IsFiniteSet(DOMAIN Only(i, row))
<1>1. DOMAIN Only(i, row) = {i}
  BY DEF Only
<1> QED
  BY <1>1, FS_Singleton

\* The filed endorsements are finitely many.
LEMMA FiledFinite ==
    ASSUME NEW req
    PROVE  IsFiniteSet(FiledIn(req)) /\ Cardinality(FiledIn(req)) \in Nat
<1>1. FiledIn(req) \subseteq Endorsements
  BY DEF FiledIn
<1> QED
  BY <1>1, EndorsementAssumption, FS_Subset, FS_CardinalityType

\* No two filings are of one endorsement.
LEMMA FileReadStays ==
    ASSUME EndorsementInv, NEW t \in Txs, NEW e \in Endorsements, NEW type, NEW line,
           FileRead(t, e, type, line)
    PROVE  EndorsementInv'
<1> DEFINE lines == Only(1, IF type = "CORRECTION" THEN line ELSE [type |-> "CANCEL"])
           w == [Free EXCEPT !.pc = "fileCount", !.request = e, !.type = type, !.lines = lines]
<1>1. /\ work[t].pc = "free" /\ request[e].status = "UNFILED"
      /\ \A u \in Txs : work[u].request # e
      /\ work' = [work EXCEPT ![t] = w] /\ UNCHANGED <<ledger, tx, tables>>
  BY DEF FileRead, ledgerVars
<1>2. IsFiniteSet(DOMAIN lines)
  BY OnlyFinite
<1> HIDE DEF lines
<1>3. DOMAIN w = DOMAIN Free /\ w.pc = "fileCount" /\ w.request = e /\ w.lines = lines
      /\ Blank(w)
  BY FreeFields, FreeHandling DEF Blank
<1> HIDE DEF w
<1>4. Handling(w, request)
  BY <1>1, <1>2, <1>3 DEF Handling, Filing
<1> QED
  BY <1>1, <1>3, <1>4, HandlerStep

\* A count is at most one short of what is filed.
LEMMA FileCountStays ==
    ASSUME EndorsementInv, NEW t \in Txs, FileCount(t) PROVE EndorsementInv'
<1> DEFINE v == work[t]
           n == Cardinality(Filed) + 1
           w == [v EXCEPT !.pc = "fileInsert", !.number = n]
<1>1. v.pc = "fileCount" /\ UNCHANGED <<ledger, tx, tables>>
  BY DEF FileCount, ledgerVars
<1>2. work' = [work EXCEPT ![t] = w]
  BY DEF FileCount
<1>3. Handling(v, request)
  BY <1>1, Outside
<1>4. n \in 1..(Cardinality(FiledIn(request)) + 1)
  <2>1. Filed = FiledIn(request)
    BY DEF Filed, FiledIn
  <2>2. n = Cardinality(FiledIn(request)) + 1 /\ Cardinality(FiledIn(request)) \in Nat
    BY <2>1, FiledFinite
  <2> HIDE DEF n
  <2> QED
    BY <2>2
<1> HIDE DEF n
<1>5. DOMAIN w = DOMAIN Free /\ w.pc = "fileInsert" /\ w.request = v.request /\ w.lines = v.lines
      /\ w.number = n /\ Blank(w)
  BY <1>1, <1>3, FreeFields DEF Handling, Blank
<1> HIDE DEF w
<1>6. Handling(w, request)
  BY <1>1, <1>3, <1>4, <1>5 DEF Handling, Filing
<1>7. \A u \in Txs \ {t} : work[u].pc \in Filing => work[u].request # w.request
  BY <1>1, <1>5, OfConnection DEF Aside, Filing
<1> QED
  BY <1>1, <1>2, <1>5, <1>6, <1>7, HandlerStep

\* An edit is of a filed endorsement.
LEMMA EditReadStays ==
    ASSUME EndorsementInv, NEW t \in Txs, NEW e \in Filed, NEW edit, NEW i, NEW lines,
           IsFiniteSet(DOMAIN lines), EditRead(t, e, edit, i, lines)
    PROVE  EndorsementInv'
<1> DEFINE w == [Free EXCEPT !.pc = edit, !.request = e, !.line = i, !.lines = lines]
<1>1. /\ work[t].pc = "free" /\ work' = [work EXCEPT ![t] = w] /\ UNCHANGED <<ledger, tx, tables>>
  BY DEF EditRead
<1>2. DOMAIN w = DOMAIN Free /\ w.pc = edit /\ w.request = e /\ w.lines = lines
      /\ Blank(w)
  BY FreeFields, FreeHandling DEF Blank
<1> HIDE DEF w
<1>3. edit \in {"add", "edit", "delete"} /\ e \in FiledIn(request)
  BY EndorsementAssumption DEF EditRead, Filed, FiledIn
<1>4. Handling(w, request)
  BY <1>2, <1>3 DEF Handling, Filing
<1>5. w.pc \notin Filing /\ w.pc # "transaction"
  BY <1>2, <1>3 DEF Filing
<1> QED
  BY <1>1, <1>4, <1>5, HandlerStep

\* An approval is of a filed endorsement.
LEMMA ApproveReadStays ==
    ASSUME EndorsementInv, NEW t \in Txs, NEW e \in Filed, ApproveRead(t, e)
    PROVE  EndorsementInv'
<1> DEFINE w == [Free EXCEPT !.pc = "readPolicy", !.request = e, !.type = request[e].type,
                             !.lines = request[e].lines]
<1>1. /\ work[t].pc # "transaction" /\ work' = [work EXCEPT ![t] = w]
      /\ UNCHANGED <<ledger, tx, tables>>
  BY DEF ApproveRead, ledgerVars
<1>2. e \in FiledIn(request) /\ IsFiniteSet(DOMAIN request[e].lines)
  BY DEF Filed, FiledIn, EndorsementInv, Requests
<1>3. DOMAIN w = DOMAIN Free /\ w.pc = "readPolicy" /\ w.request = e /\ w.lines = request[e].lines
      /\ Blank(w)
  BY FreeFields, FreeHandling DEF Blank
<1> HIDE DEF w
<1>4. Handling(w, request)
  BY <1>2, <1>3 DEF Handling, Filing
<1>5. w.pc \notin Filing /\ w.pc # "transaction"
  BY <1>3 DEF Filing
<1> QED
  BY <1>1, <1>4, <1>5, HandlerStep

\* An administrator's approval of what someone else decided ends there.
LEMMA ApproveRefusedStays ==
    ASSUME EndorsementInv, NEW t \in Txs, ApproveRefused(t) PROVE EndorsementInv'
<1>1. /\ work[t].pc # "transaction" /\ work' = [work EXCEPT ![t] = Free]
      /\ UNCHANGED <<ledger, tx, tables>>
  BY DEF ApproveRefused, End, ledgerVars
<1>2. Free.pc \notin Filing /\ Free.pc # "transaction"
  BY FreeHandling DEF Filing
<1> QED
  BY <1>1, <1>2, FreeHandling, HandlerStep

\* e's row and no other is written.
Writes(req, e, row) == req = [request EXCEPT ![e] = row]

\* The filings of a policy are numbered one after the other: one that counted
\* the same rows as another is refused by the unique index.
LEMMA NumberedNext ==
    ASSUME Requests(request), NEW e \in Endorsements, request[e].status = "UNFILED",
           NEW row, DOMAIN row = RequestFields, row.status = "SUBMITTED", IsFiniteSet(DOMAIN row.lines),
           row.number \in 1..(Cardinality(FiledIn(request)) + 1), ~NumberTaken(row.number),
           NEW req, Writes(req, e, row)
    PROVE  /\ Requests(req) /\ FiledIn(req) = FiledIn(request) \cup {e}
           /\ Cardinality(FiledIn(request)) \in Nat
           /\ Cardinality(FiledIn(req)) = Cardinality(FiledIn(request)) + 1
           /\ req[e] = row /\ \A o \in Endorsements \ {e} : req[o] = request[o]
<1> DEFINE n == Cardinality(FiledIn(request))
<1>1. /\ DOMAIN request = Endorsements /\ Numbers(request)
      /\ \A o \in Endorsements : /\ DOMAIN request[o] = RequestFields
                                 /\ request[o].status \in Status
                                 /\ IsFiniteSet(DOMAIN request[o].lines)
  BY DEF Requests
<1>2. req[e] = row /\ DOMAIN req = Endorsements /\ \A o \in Endorsements \ {e} : req[o] = request[o]
  BY <1>1 DEF Writes
<1>3. FiledIn(req) = FiledIn(request) \cup {e} /\ e \notin FiledIn(request)
  BY <1>2 DEF FiledIn
<1>4. n \in Nat /\ Cardinality(FiledIn(req)) = n + 1
  BY <1>3, FiledFinite, FS_AddElement
<1>5. {request[o].number : o \in FiledIn(request)} = 1..n
  BY <1>1 DEF Numbers
<1>6. row.number \notin {request[o].number : o \in FiledIn(request)}
  BY DEF NumberTaken, Filed, FiledIn
<1> HIDE DEF n
<1>7. row.number = n + 1
  <2>1. row.number \in 1..(n + 1)
    BY DEF n
  <2> QED
    BY <1>4, <1>5, <1>6, <2>1
<1>8. {req[o].number : o \in FiledIn(req)} = {request[o].number : o \in FiledIn(request)} \cup {n + 1}
  <2>1. FiledIn(request) \subseteq Endorsements \ {e}
    BY <1>3 DEF FiledIn
  <2> DEFINE F == FiledIn(request)
  <2>2. \A o \in F : req[o].number = request[o].number
    BY <1>2, <2>1
  <2>3. req[e].number = n + 1
    BY <1>2, <1>7
  <2>4. FiledIn(req) = F \cup {e}
    BY <1>3
  <2> HIDE DEF F
  <2>5. {req[o].number : o \in F \cup {e}} = {req[o].number : o \in F} \cup {req[e].number}
    OBVIOUS
  <2>6. {req[o].number : o \in F} = {request[o].number : o \in F}
    BY <2>2
  <2> QED
    BY <2>3, <2>4, <2>5, <2>6 DEF F
<1>9. Numbers(req)
  <2>1. 1..(n + 1) = 1..n \cup {n + 1}
    BY <1>4
  <2> QED
    BY <1>4, <1>5, <1>8, <2>1 DEF Numbers
<1>10. Requests(req)
  <2>1. \A o \in Endorsements : /\ DOMAIN req[o] = RequestFields /\ req[o].status \in Status
                                /\ IsFiniteSet(DOMAIN req[o].lines)
    BY <1>1, <1>2 DEF Status
  <2> QED
    BY <1>2, <1>9, <2>1 DEF Requests
<1> QED
  BY <1>2, <1>3, <1>4, <1>10 DEF n

\* The row inserted has the next number, or is refused.
LEMMA FileInsertStays ==
    ASSUME EndorsementInv, NEW t \in Txs, FileInsert(t) PROVE EndorsementInv'
<1> DEFINE v == work[t]
           e == v.request
           row == [status |-> "SUBMITTED", type |-> v.type, number |-> v.number, lines |-> v.lines]
           next == [Free EXCEPT !.pc = "approve", !.request = e]
<1>1. /\ v.pc = "fileInsert" /\ UNCHANGED <<ledger, tx, policyRow, coverage, approvals, inLease>>
      /\ \/ End(t) /\ UNCHANGED request
         \/ /\ ~NumberTaken(v.number) /\ request' = [request EXCEPT ![e] = row]
            /\ End(t) \/ work' = [work EXCEPT ![t] = next]
  BY DEF FileInsert, ledgerVars
<1>2. CASE End(t) /\ UNCHANGED request
  <2>1. v.pc # "transaction" /\ Free.pc \notin Filing /\ Free.pc # "transaction"
    BY <1>1, FreeHandling DEF Filing
  <2> QED
    BY <1>1, <1>2, <2>1, FreeHandling, HandlerStep DEF End, tables
<1>3. ASSUME ~NumberTaken(v.number), request' = [request EXCEPT ![e] = row],
             NEW w, w = Free \/ w = next, work' = [work EXCEPT ![t] = w]
      PROVE  EndorsementInv'
  <2>1. /\ e \in Endorsements /\ request[e].status = "UNFILED" /\ IsFiniteSet(DOMAIN v.lines)
        /\ v.number \in 1..(Cardinality(FiledIn(request)) + 1)
        /\ \A y, req, cov : Handling(y, req) /\ y.pc # "transaction" => Connection(tx[t], y, req, cov)
        /\ tx[t].holds = {}
    BY <1>1, Outside DEF Handling, Filing
  <2>2. DOMAIN row = RequestFields /\ row.status = "SUBMITTED" /\ row.lines = v.lines /\ row.number = v.number
    BY DEF RequestFields
  <2> HIDE DEF row
  <2>3. /\ Requests(request) /\ ~NumberTaken(row.number) /\ IsFiniteSet(DOMAIN row.lines)
        /\ row.number \in 1..(Cardinality(FiledIn(request)) + 1)
    BY <1>3, <2>1, <2>2 DEF EndorsementInv
  <2>4. /\ Requests(request') /\ FiledIn(request') = FiledIn(request) \cup {e}
        /\ Cardinality(FiledIn(request)) \in Nat
        /\ Cardinality(FiledIn(request')) = Cardinality(FiledIn(request)) + 1
        /\ request'[e] = row /\ \A o \in Endorsements \ {e} : request'[o] = request[o]
    <3> DEFINE req == request'
    <3>1. Writes(req, e, row)
      BY <1>3 DEF Writes
    <3> HIDE DEF req, e
    <3>0. e \in Endorsements /\ request[e].status = "UNFILED" /\ DOMAIN row = RequestFields
          /\ row.status = "SUBMITTED"
      BY <2>1, <2>2 DEF e
    <3>2. /\ Requests(req) /\ FiledIn(req) = FiledIn(request) \cup {e}
          /\ Cardinality(FiledIn(request)) \in Nat
          /\ Cardinality(FiledIn(req)) = Cardinality(FiledIn(request)) + 1
          /\ req[e] = row /\ \A o \in Endorsements \ {e} : req[o] = request[o]
      BY <2>3, <3>0, <3>1, NumberedNext
    <3> QED
      BY <3>2 DEF req, e
  <2>5. History'
    <3>1. Approved' = Approved
      BY <2>1, <2>2, <2>4 DEF Approved, Filed
    <3> QED
      BY <1>1, <3>1 DEF EndorsementInv, History, ApprovedExactlyOnce, TimesApproved
  <2>6. ASSUME NEW u \in Txs \ {t} PROVE Connection(tx[u], work[u], request', coverage')
    <3>1. Connection(tx[u], work[u], request, coverage) /\ Aside(tx[t], work[t], tx[u], work[u])
      BY OfConnection
    <3>2. work[u].pc \in Filing => /\ work[u].request \in Endorsements \ {e}
                                   /\ request[work[u].request].status = "UNFILED"
      BY <1>1, <3>1 DEF Connection, Handling, Aside, Filing
    <3>3. \A o \in Endorsements : request[o].status = "SUBMITTED" => request'[o].status = "SUBMITTED"
      BY <2>2, <2>4
    <3>4. Cardinality(FiledIn(request)) <= Cardinality(FiledIn(request')) /\ Cardinality(FiledIn(request')) \in Nat
      BY <2>4
    <3>5. FiledIn(request) \subseteq FiledIn(request') /\ Cardinality(FiledIn(request)) \in Nat
      BY <2>4
    <3>6. work[u].pc \in Filing => request'[work[u].request].status = "UNFILED"
      BY <2>4, <3>2
    <3>7. SameRows(coverage', coverage)
      BY <1>1 DEF SameRows
    <3> DEFINE req == request'
               cov == coverage'
    <3>8. /\ FiledIn(request) \subseteq FiledIn(req)
          /\ work[u].pc \in Filing => req[work[u].request].status = "UNFILED"
          /\ \A o \in Endorsements : request[o].status = "SUBMITTED" => req[o].status = "SUBMITTED"
          /\ Cardinality(FiledIn(request)) <= Cardinality(FiledIn(req)) /\ Cardinality(FiledIn(req)) \in Nat
          /\ SameRows(cov, coverage)
      BY <3>3, <3>4, <3>5, <3>6, <3>7
    <3> HIDE DEF req, cov
    <3>9. Connection(tx[u], work[u], req, cov)
      BY <3>1, <3>5, <3>8, ConnectionStays
    <3> QED
      BY <3>9 DEF req, cov
  <2>7. /\ DOMAIN next = DOMAIN Free /\ next.pc = "approve" /\ next.request = e
        /\ IsFiniteSet(DOMAIN next.lines) /\ Blank(next)
    BY FreeHandling DEF Blank
  <2> HIDE DEF next
  <2>8. Handling(w, request') /\ w.pc \notin Filing /\ w.pc # "transaction"
    BY <1>3, <2>4, <2>7, FreeHandling DEF Handling, Filing
  <2>9. Connection(tx[t], w, request', coverage')
    BY <2>1, <2>8
  <2>10. \A u \in Txs \ {t} : Aside(tx[t], w, tx[u], work[u])
    BY <2>1, <2>8 DEF Aside
  <2>11. IsFiniteSet(DOMAIN ledger') /\ Totalled'
    BY <1>1 DEF EndorsementInv, Totalled, PremiumMatchesCoverages
  <2>12. tx' = [tx EXCEPT ![t] = tx[t]]
    BY <1>1, OfConnection
  <2> QED
    BY <1>3, <2>4, <2>5, <2>6, <2>9, <2>10, <2>11, <2>12, OneConnectionAnd
<1> HIDE DEF next
<1> QED
  BY <1>1, <1>2, <1>3 DEF End

\* Only the lines of e change.
Relined(req, e, z) == req = [request EXCEPT ![e] = [request[e] EXCEPT !.lines = z]]

\* Other lines are no other numbers or decisions.
LEMMA RelinedIs ==
    ASSUME Requests(request), NEW e \in Endorsements, NEW z, IsFiniteSet(DOMAIN z),
           NEW req, Relined(req, e, z)
    PROVE  /\ Requests(req) /\ FiledIn(req) = FiledIn(request)
           /\ \A o \in Endorsements : req[o].status = request[o].status
<1>1. /\ DOMAIN request = Endorsements /\ Numbers(request)
      /\ \A o \in Endorsements : /\ DOMAIN request[o] = RequestFields
                                 /\ request[o].status \in Status
                                 /\ IsFiniteSet(DOMAIN request[o].lines)
  BY DEF Requests
<1>2. /\ DOMAIN req = Endorsements /\ \A o \in Endorsements \ {e} : req[o] = request[o]
      /\ req[e] = [request[e] EXCEPT !.lines = z]
  BY <1>1 DEF Relined
<1>3. /\ DOMAIN req[e] = RequestFields /\ req[e].status = request[e].status
      /\ req[e].number = request[e].number /\ req[e].lines = z
  BY <1>1, <1>2 DEF RequestFields
<1>4. \A o \in Endorsements : /\ DOMAIN req[o] = RequestFields /\ req[o].status = request[o].status
                              /\ req[o].number = request[o].number /\ IsFiniteSet(DOMAIN req[o].lines)
  BY <1>1, <1>2, <1>3
<1>5. FiledIn(req) = FiledIn(request)
  BY <1>4 DEF FiledIn
<1>6. {req[o].number : o \in FiledIn(req)} = {request[o].number : o \in FiledIn(request)}
  <2>1. \A o \in FiledIn(request) : req[o].number = request[o].number
    BY <1>4 DEF FiledIn
  <2> QED
    BY <1>5, <2>1
<1>7. Numbers(req)
  BY <1>1, <1>5, <1>6 DEF Numbers
<1> QED
  BY <1>1, <1>2, <1>4, <1>5, <1>7 DEF Requests

\* A line is added, replaced or removed, whatever was decided since the
\* endorsement was read.
LEMMA LinesStay ==
    ASSUME EndorsementInv, NEW t \in Txs, work[t].pc \in {"add", "edit", "delete"},
           NEW z, IsFiniteSet(DOMAIN z), Relined(request', work[t].request, z), End(t),
           UNCHANGED <<ledgerVars, policyRow, coverage, approvals, inLease>>
    PROVE  EndorsementInv'
<1> DEFINE e == work[t].request
           req == request'
<1>1. UNCHANGED <<ledger, tx, policyRow, coverage, approvals, inLease>>
  BY DEF ledgerVars
<1>2. /\ work[t].pc # "transaction" /\ work[t].pc \notin Filing \cup {"free"}
  BY DEF Filing
<1>3. /\ e \in FiledIn(request) /\ tx[t].holds = {}
      /\ \A y, r, cov : Handling(y, r) /\ y.pc # "transaction" => Connection(tx[t], y, r, cov)
  BY <1>2, Outside DEF Handling
<1>4. e \in Endorsements
  BY <1>3 DEF FiledIn
<1>5. Requests(request) /\ Relined(req, e, z)
  BY DEF EndorsementInv
<1> HIDE DEF e, req
<1>6. /\ Requests(req) /\ FiledIn(req) = FiledIn(request)
      /\ \A o \in Endorsements : req[o].status = request[o].status
  BY <1>4, <1>5, RelinedIs
<1>7. History'
  <2>1. Approved' = Approved
    BY <1>6 DEF Approved, Filed, req
  <2> QED
    BY <1>1, <2>1 DEF EndorsementInv, History, ApprovedExactlyOnce, TimesApproved
<1>8. ASSUME NEW u \in Txs \ {t} PROVE Connection(tx[u], work[u], req, coverage)
  <2>1. Connection(tx[u], work[u], request, coverage)
    BY OfConnection
  <2>2. Cardinality(FiledIn(request)) \in Nat
    BY FiledFinite
  <2>3. work[u].pc \in Filing => req[work[u].request].status = "UNFILED"
    BY <1>6, <2>1 DEF Connection, Handling
  <2>4. /\ FiledIn(request) \subseteq FiledIn(req) /\ Cardinality(FiledIn(req)) \in Nat
        /\ Cardinality(FiledIn(request)) <= Cardinality(FiledIn(req))
    BY <1>6, <2>2
  <2>5. \A o \in Endorsements : request[o].status = "SUBMITTED" => req[o].status = "SUBMITTED"
    BY <1>6
  <2>6. SameRows(coverage, coverage)
    BY DEF SameRows
  <2> QED
    BY <2>1, <2>2, <2>3, <2>4, <2>5, <2>6, ConnectionStays
<1>9. Handling(Free, req) /\ Free.pc \notin Filing /\ Free.pc # "transaction"
  BY FreeHandling DEF Filing
<1>10. Connection(tx[t], Free, req, coverage)
  BY <1>3, <1>9
<1>11. \A u \in Txs \ {t} : Aside(tx[t], Free, tx[u], work[u])
  BY <1>3, <1>9 DEF Aside
<1>12. IsFiniteSet(DOMAIN ledger') /\ Totalled'
  BY <1>1 DEF EndorsementInv, Totalled, PremiumMatchesCoverages
<1>13. tx' = [tx EXCEPT ![t] = tx[t]] /\ work' = [work EXCEPT ![t] = Free]
  BY <1>1, OfConnection DEF End
<1>14. /\ Requests(request') /\ Connection(tx[t], Free, request', coverage')
       /\ \A u \in Txs \ {t} : Connection(tx[u], work[u], request', coverage')
  BY <1>1, <1>6, <1>8, <1>10 DEF req
<1> QED
  BY <1>7, <1>11, <1>12, <1>13, <1>14, OneConnectionAnd

\* A line more.
LEMMA AddLineStays ==
    ASSUME EndorsementInv, NEW t \in Txs, AddLine(t) PROVE EndorsementInv'
<1> DEFINE e == work[t].request
           i == 1 + Max({0} \cup DOMAIN request[e].lines)
           z == Over(Only(i, work[t].lines[1]), request[e].lines)
<1>1. /\ work[t].pc = "add" /\ End(t)
      /\ UNCHANGED <<ledgerVars, policyRow, coverage, approvals, inLease>>
  BY DEF AddLine
<1>2. work[t].pc # "transaction" /\ work[t].pc \notin Filing \cup {"free"}
  BY <1>1 DEF Filing
<1>3. e \in Endorsements /\ DOMAIN request = Endorsements /\ IsFiniteSet(DOMAIN request[e].lines)
  <2>1. e \in FiledIn(request)
    BY <1>2, Outside DEF Handling
  <2> QED
    BY <2>1 DEF FiledIn, EndorsementInv, Requests
<1>4. Relined(request', e, z)
  BY <1>3 DEF AddLine, Relined
<1> HIDE DEF i
<1>5. IsFiniteSet(DOMAIN z)
  BY <1>3, OverFinite
<1> HIDE DEF z
<1> QED
  BY <1>1, <1>4, <1>5, LinesStay

\* Another in the place of a line, if it is still there.
LEMMA EditLineStays ==
    ASSUME EndorsementInv, NEW t \in Txs, EditLine(t) PROVE EndorsementInv'
<1> DEFINE w == work[t]
           e == w.request
           z == [i \in DOMAIN request[e].lines |-> IF i = w.line THEN w.lines[1] ELSE request[e].lines[i]]
<1>1. /\ work[t].pc = "edit" /\ End(t)
      /\ UNCHANGED <<ledgerVars, policyRow, coverage, approvals, inLease>>
  BY DEF EditLine
<1>2. work[t].pc # "transaction" /\ work[t].pc \notin Filing \cup {"free"}
  BY <1>1 DEF Filing
<1>3. e \in Endorsements /\ DOMAIN request = Endorsements /\ IsFiniteSet(DOMAIN request[e].lines)
  <2>1. e \in FiledIn(request)
    BY <1>2, Outside DEF Handling
  <2> QED
    BY <2>1 DEF FiledIn, EndorsementInv, Requests
<1>4. Relined(request', e, z)
  BY <1>3 DEF EditLine, Relined
<1>5. DOMAIN z = DOMAIN request[e].lines
  OBVIOUS
<1> HIDE DEF z
<1>6. IsFiniteSet(DOMAIN z)
  BY <1>3, <1>5
<1> QED
  BY <1>1, <1>4, <1>6, LinesStay

\* A line less.
LEMMA DeleteLineStays ==
    ASSUME EndorsementInv, NEW t \in Txs, DeleteLine(t) PROVE EndorsementInv'
<1> DEFINE e == work[t].request
           kept == DOMAIN request[e].lines \ {work[t].line}
           z == [i \in kept |-> request[e].lines[i]]
<1>1. /\ work[t].pc = "delete" /\ End(t)
      /\ UNCHANGED <<ledgerVars, policyRow, coverage, approvals, inLease>>
  BY DEF DeleteLine
<1>2. work[t].pc # "transaction" /\ work[t].pc \notin Filing \cup {"free"}
  BY <1>1 DEF Filing
<1>3. e \in Endorsements /\ DOMAIN request = Endorsements /\ IsFiniteSet(DOMAIN request[e].lines)
  <2>1. e \in FiledIn(request)
    BY <1>2, Outside DEF Handling
  <2> QED
    BY <2>1 DEF FiledIn, EndorsementInv, Requests
<1>4. Relined(request', e, z)
  BY <1>3 DEF DeleteLine, Relined
<1>5. IsFiniteSet(DOMAIN z)
  <2>1. DOMAIN z \subseteq DOMAIN request[e].lines
    OBVIOUS
  <2> HIDE DEF z
  <2> QED
    BY <1>3, <2>1, FS_Subset
<1> HIDE DEF z
<1> QED
  BY <1>1, <1>4, <1>5, LinesStay

-----------------------------------------------------------------------------
(* A decision begins.                                                        *)

\* Two lists, one after the other.
LEMMA Joined ==
    ASSUME NEW a, NEW b, List(a), List(b)
    PROVE  /\ List(a \o b) /\ Len(a) \in Nat /\ Len(b) \in Nat /\ Len(a \o b) = Len(a) + Len(b)
           /\ \A i \in 1..Len(a) : (a \o b)[i] = a[i]
           /\ \A i \in 1..Len(b) : (a \o b)[Len(a) + i] = b[i]
           /\ \A i \in 1..(Len(a) + Len(b)) :
                 i \notin 1..Len(a) => i - Len(a) \in 1..Len(b) /\ (a \o b)[i] = b[i - Len(a)]
<1> DEFINE X == {a[i] : i \in DOMAIN a}
           Y == {b[i] : i \in DOMAIN b}
           Z == X \cup Y
<1>1. a \in Seq(X) /\ b \in Seq(Y)
  BY DEF List
<1>2. a \in Seq(Z) /\ b \in Seq(Z)
  <2> HIDE DEF X, Y
  <2> QED
    BY <1>1
<1> HIDE DEF Z
<1>3. /\ a \o b \in Seq(Z) /\ Len(a) \in Nat /\ Len(b) \in Nat
      /\ Len(a \o b) = Len(a) + Len(b)
      /\ \A i \in 1..Len(a) : (a \o b)[i] = a[i]
  BY <1>2
<1>4. \A i \in 1..(Len(a) + Len(b)) : i \notin 1..Len(a) => (a \o b)[i] = b[i - Len(a)]
  BY <1>2, <1>3
<1>5. \A i \in 1..(Len(a) + Len(b)) : i \notin 1..Len(a) => i - Len(a) \in 1..Len(b)
  BY <1>3
<1>6. ASSUME NEW i \in 1..Len(b) PROVE (a \o b)[Len(a) + i] = b[i]
  <2>1. Len(a) + i \in 1..(Len(a) + Len(b)) /\ Len(a) + i \notin 1..Len(a) /\ (Len(a) + i) - Len(a) = i
    BY <1>3
  <2> QED
    BY <1>4, <2>1
<1>7. List(a \o b)
  BY <1>3, SeqIsList
<1> QED
  BY <1>3, <1>4, <1>5, <1>6, <1>7

\* It does not matter which two of three lists are put together first.
LEMMA Regrouped ==
    ASSUME NEW a, NEW b, NEW c, List(a), List(b), List(c)
    PROVE  (a \o b) \o c = a \o (b \o c)
<1> DEFINE X == {a[i] : i \in DOMAIN a}
           Y == {b[i] : i \in DOMAIN b}
           W == {c[i] : i \in DOMAIN c}
           Z == X \cup Y \cup W
<1>1. a \in Seq(X) /\ b \in Seq(Y) /\ c \in Seq(W)
  BY DEF List
<1>2. a \in Seq(Z) /\ b \in Seq(Z) /\ c \in Seq(Z)
  <2> HIDE DEF X, Y, W
  <2> QED
    BY <1>1
<1> HIDE DEF Z
<1> QED
  BY <1>2

\* One element, as a list.
LEMMA Single == ASSUME NEW s PROVE List(<<s>>) /\ Len(<<s>>) = 1 /\ <<s>>[1] = s
<1>1. <<s>> \in Seq({s}) /\ Len(<<s>>) = 1 /\ <<s>>[1] = s
  OBVIOUS
<1> QED
  BY <1>1, SeqIsList

\* The agent's row is locked on the way.
HasAgent(q) == \E i \in 1..Len(q) : q[i].do = "agent"

\* A list locks the agent's row when a part of it does.
LEMMA AgentIsLocked ==
    ASSUME NEW a, NEW b, List(a), List(b), HasAgent(a) \/ HasAgent(b)
    PROVE  HasAgent(a \o b)
<1>1. /\ Len(a) \in Nat /\ Len(b) \in Nat /\ Len(a \o b) = Len(a) + Len(b)
      /\ \A i \in 1..Len(a) : (a \o b)[i] = a[i]
      /\ \A i \in 1..Len(b) : (a \o b)[Len(a) + i] = b[i]
  BY Joined
<1>2. \A i \in 1..Len(a) : i \in 1..Len(a \o b)
  BY <1>1
<1>3. \A i \in 1..Len(b) : Len(a) + i \in 1..Len(a \o b)
  BY <1>1
<1>4. CASE HasAgent(a)
  BY <1>1, <1>2, <1>4 DEF HasAgent
<1>5. CASE HasAgent(b)
  <2>1. PICK i \in 1..Len(b) : b[i].do = "agent"
    BY <1>5 DEF HasAgent
  <2>2. (a \o b)[Len(a) + i].do = "agent"
    BY <1>1, <2>1
  <2> QED
    BY <1>3, <2>2 DEF HasAgent
<1> QED
  BY <1>4, <1>5

\* Statements on coverages, and on the ledger, that may come before the totals.
Bills(q, e) == Continues(q, e, "createCoverage") /\ HasAgent(q)

Booking(q, e) == q = << >> \/ Bills(q, e)

\* A credit locks the agent's row, and is ordinary.
LEMMA CreditBooks == ASSUME NEW p, NEW n, NEW due, NEW e PROVE Bills(Credit(p, n, due), e)
<1> DEFINE row == Insert(Row("ENDORSEMENT", p, n, due, TRUE))
           agent == UpdateAgent(n)
<1>1. Continues(<<row>>, e, "createCoverage") /\ Continues(<<agent>>, e, "createCoverage")
  BY LedgerOrdinary, OneMore
<1>2. agent.do = "agent"
  BY DEF UpdateAgent
<1>3. Credit(p, n, due) = <<row>> \o <<agent>>
  BY TwoInARow DEF Credit
<1> HIDE DEF row, agent
<1>4. HasAgent(<<agent>>)
  <2>1. 1 \in 1..Len(<<agent>>) /\ <<agent>>[1] = agent
    OBVIOUS
  <2> QED
    BY <1>2, <2>1 DEF HasAgent
<1>5. HasAgent(<<row>> \o <<agent>>)
  BY <1>1, <1>4, AgentIsLocked DEF Continues
<1>6. Continues(<<row>> \o <<agent>>, e, "createCoverage")
  BY <1>1, BothContinue
<1> QED
  BY <1>3, <1>5, <1>6 DEF Bills

\* So does a debit.
LEMMA DebitBooks == ASSUME NEW rows, NEW p, NEW n, NEW e PROVE Bills(Debit(rows, p, n), e)
<1> DEFINE take == Decrement(CHOOSE i \in IssuanceRows(rows, p) : TRUE, n)
           first == IF IssuanceRows(rows, p) = {} THEN << >> ELSE <<take>>
           row == Insert(Row("ENDORSEMENT", p, -n, NoDue, FALSE))
           agent == UpdateAgent(-n)
<1>1. /\ Continues(<<row>>, e, "createCoverage") /\ Continues(<<agent>>, e, "createCoverage")
      /\ Continues(<<take>>, e, "createCoverage")
  BY LedgerOrdinary, OneMore
<1>2. agent.do = "agent"
  BY DEF UpdateAgent
<1>3. Debit(rows, p, n) = first \o (<<row>> \o <<agent>>)
  <2>1. <<row, agent>> = <<row>> \o <<agent>>
    BY TwoInARow
  <2>2. Debit(rows, p, n) = first \o <<row, agent>>
    BY DEF Debit
  <2> HIDE DEF first, row, agent
  <2> QED
    BY <2>1, <2>2
<1>4. Continues(first, e, "createCoverage")
  BY <1>1, NothingMore
<1> HIDE DEF row, agent, first
<1>5. HasAgent(<<agent>>)
  <2>1. 1 \in 1..Len(<<agent>>) /\ <<agent>>[1] = agent
    OBVIOUS
  <2> QED
    BY <1>2, <2>1 DEF HasAgent
<1> DEFINE both == <<row>> \o <<agent>>
<1>6. HasAgent(both) /\ Continues(both, e, "createCoverage")
  BY <1>1, <1>5, AgentIsLocked, BothContinue DEF Continues
<1> HIDE DEF both
<1>7. HasAgent(first \o both) /\ Continues(first \o both, e, "createCoverage")
  BY <1>4, <1>6, AgentIsLocked, BothContinue DEF Continues
<1> QED
  BY <1>3, <1>7 DEF Bills, both

\* A line's statements book what it adds or takes once they touch a coverage.
LEMMA LineBooks == ASSUME NEW line, NEW e PROVE Booking(LineStatements(line), e)
<1>1. ASSUME NEW by PROVE Bills(Booked(by), e)
  BY CreditBooks, DebitBooks DEF Booked
<1>2. ASSUME NEW s, s = CreateCoverage(line) \/ s = ReadCoverage(line), NEW q, Bills(q, e)
      PROVE  Booking(<<s>> \o q, e)
  <2>1. s.do \in CoverageWork /\ Ordinary(s, e) /\ s.do \notin ChargeWork
    BY <1>2 DEF CreateCoverage, ReadCoverage, Ordinary, CoverageWork, ChargeWork
  <2>2. Continues(<<s>>, e, "createCoverage")
    BY <2>1, OneMore DEF CoverageWork
  <2>3. HasAgent(<<s>> \o q) /\ Continues(<<s>> \o q, e, "createCoverage")
    BY <1>2, <2>2, AgentIsLocked, BothContinue DEF Continues, Bills
  <2> QED
    BY <2>3 DEF Booking, Bills
<1>3. Booking(<< >>, e)
  BY DEF Booking
<1>4. Bills(Debit(ledger, Policy, line.by), e) /\ Bills(Booked(line.by), e)
  BY <1>1, DebitBooks
<1>5. /\ Booking(<<CreateCoverage(line)>> \o Booked(line.by), e)
      /\ Booking(<<ReadCoverage(line)>> \o Booked(line.by), e)
      /\ Booking(<<ReadCoverage(line)>> \o Debit(ledger, Policy, line.by), e)
  BY <1>2, <1>4
<1> QED
  BY <1>3, <1>5 DEF LineStatements

\* What a decision does between its claim and its history row: the totals come
\* once, after the coverages and the agent's row.
Body(q, e) ==
    /\ List(q)
    /\ \A i \in 1..Len(q) : Ordinary(q[i], e) /\ q[i].do # "writeTotals"
    /\ \A j, k \in 1..Len(q) : q[j].do = "readCharges" /\ q[k].do = "readCharges" => j = k
    /\ \A i \in 1..Len(q) : q[i].do \in CoverageWork =>
           \E j \in 1..Len(q) : j > i /\ q[j].do = "readCharges"
    /\ \A j \in 1..Len(q) : q[j].do = "readCharges" => \E i \in 1..(j - 1) : q[i].do = "agent"

\* A decision that touches no coverage computes no totals.
LEMMA PlainBody ==
    ASSUME NEW q, NEW e, Continues(q, e, "claim")
    PROVE  Body(q, e)
<1>1. "claim" \notin CoverageWork
  BY DEF CoverageWork
<1>2. \A i \in 1..Len(q) : /\ Ordinary(q[i], e) /\ q[i].do # "writeTotals" /\ q[i].do # "readCharges"
                           /\ q[i].do \notin CoverageWork
  BY <1>1 DEF Continues, ChargeWork
<1> QED
  BY <1>2 DEF Body, Continues

\* One that does computes them last.
LEMMA ChargesLast ==
    ASSUME NEW a, NEW e, Bills(a, e)
    PROVE  Body(a \o <<ReadCharges>>, e)
<1> DEFINE c == <<ReadCharges>>
           q == a \o c
           n == Len(a)
<1>1. List(c) /\ Len(c) = 1 /\ c[1] = ReadCharges /\ List(a)
  BY Single DEF Bills, Continues
<1>2. ReadCharges.do = "readCharges" /\ "do" \in DOMAIN ReadCharges
  BY DEF ReadCharges
<1> HIDE DEF c
<1>3. /\ List(q) /\ n \in Nat /\ Len(q) = n + 1 /\ \A i \in 1..n : q[i] = a[i]
      /\ \A i \in 1..1 : q[n + i] = c[i]
  <2> HIDE DEF n
  <2>1. /\ List(a \o c) /\ Len(a) \in Nat /\ Len(c) \in Nat /\ Len(a \o c) = Len(a) + Len(c)
        /\ \A i \in 1..Len(a) : (a \o c)[i] = a[i]
        /\ \A i \in 1..Len(c) : (a \o c)[Len(a) + i] = c[i]
    <3>1. List(a) /\ List(c)
      BY <1>1
    <3> HIDE DEF q
    <3> QED
      BY <3>1, Joined
  <2> QED
    BY <1>1, <2>1 DEF n
<1> HIDE DEF q, n
<1>4. q[n + 1] = ReadCharges /\ n + 1 \in 1..Len(q) /\ 1 \in 1..1
  BY <1>1, <1>3
<1>5. \A i \in 1..Len(q) : i \in 1..n \/ i = n + 1
  BY <1>3
<1>6. \A i \in 1..n : Ordinary(q[i], e) /\ q[i].do # "writeTotals" /\ q[i].do # "readCharges"
  BY <1>3 DEF Bills, Continues, ChargeWork, n
<1>7. Ordinary(q[n + 1], e) /\ q[n + 1].do = "readCharges" /\ q[n + 1].do \notin CoverageWork
  BY <1>2, <1>4 DEF Ordinary, CoverageWork
<1>8. \A i \in 1..Len(q) : /\ Ordinary(q[i], e) /\ q[i].do # "writeTotals"
                           /\ q[i].do = "readCharges" => i = n + 1
                           /\ q[i].do \in CoverageWork => i # n + 1
  BY <1>5, <1>6, <1>7
<1>9. \A i \in 1..Len(q) : i # n + 1 => n + 1 > i
  BY <1>3, <1>5
<1>10. \E i \in 1..n : q[i].do = "agent"
  BY <1>3 DEF Bills, HasAgent, n
<1>11. (n + 1) - 1 = n
  BY <1>3
<1>12. \A j \in 1..Len(q) : q[j].do = "readCharges" => \E i \in 1..(j - 1) : q[i].do = "agent"
  BY <1>8, <1>10, <1>11
<1>13. \A i \in 1..Len(q) : q[i].do \in CoverageWork =>
           \E j \in 1..Len(q) : j > i /\ q[j].do = "readCharges"
  BY <1>4, <1>7, <1>8, <1>9
<1>14. Body(q, e)
  BY <1>3, <1>8, <1>12, <1>13 DEF Body
<1> QED
  BY <1>14 DEF q, c

\* What the lines of a correction book, in the order of the lines.
LEMMA ChangesBook ==
    ASSUME NEW lines, NEW n \in Nat, NEW inOrder, DOMAIN inOrder = 1..n, NEW e
    PROVE  Booking(FlattenSeq([k \in DOMAIN inOrder |-> LineStatements(lines[inOrder[k]])]), e)
<1> DEFINE parts == [k \in DOMAIN inOrder |-> LineStatements(lines[inOrder[k]])]
           X == UNION {{parts[k][i] : i \in DOMAIN parts[k]} : k \in 1..n}
           P == {q \in Seq(X) : Booking(q, e)}
<1>1. << >> \in P
  BY DEF Booking
<1>2. ASSUME NEW a \in P, NEW b \in P PROVE a \o b \in P
  <2> HIDE DEF X
  <2>1. a \in Seq(X) /\ b \in Seq(X) /\ a \o b \in Seq(X) /\ Booking(a, e) /\ Booking(b, e)
    OBVIOUS
  <2>2. List(a) /\ List(b)
    BY <2>1, SeqIsList
  <2>3. Continues(a, e, "createCoverage") /\ Continues(b, e, "createCoverage")
    BY <2>1, NothingMore DEF Booking, Bills
  <2>4. Continues(a \o b, e, "createCoverage")
    BY <2>3, BothContinue
  <2>5. CASE a = << >> /\ b = << >>
    <3>1. a \o b = << >>
      BY <2>5
    <3> QED
      BY <2>1, <3>1 DEF Booking
  <2>6. CASE HasAgent(a) \/ HasAgent(b)
    <3>1. HasAgent(a \o b)
      BY <2>2, <2>6, AgentIsLocked
    <3> QED
      BY <2>1, <2>4, <3>1 DEF Booking, Bills
  <2> QED
    BY <2>1, <2>5, <2>6 DEF Booking, Bills
<1>3. ASSUME NEW k \in 1..n PROVE parts[k] \in P
  <2>1. Booking(parts[k], e)
    <3>1. parts[k] = LineStatements(lines[inOrder[k]])
      OBVIOUS
    <3> HIDE DEF parts
    <3> QED
      BY <3>1, LineBooks
  <2> DEFINE Y == {parts[k][i] : i \in DOMAIN parts[k]}
  <2>2. Y \subseteq X
    <3> HIDE DEF parts
    <3> QED
      OBVIOUS
  <2>3. List(parts[k])
    <3> HIDE DEF parts
    <3>1. parts[k] = << >> \/ List(parts[k])
      BY <2>1 DEF Booking, Bills, Continues
    <3>2. List(<< >>)
      BY NothingMore DEF Continues
    <3> QED
      BY <3>1, <3>2
  <2>4. parts[k] \in Seq(Y)
    <3> HIDE DEF parts
    <3> QED
      BY <2>3 DEF List
  <2>5. parts[k] \in Seq(X)
    <3> HIDE DEF X, Y, parts
    <3> QED
      BY <2>2, <2>4
  <2> HIDE DEF X, parts
  <2> QED
    BY <2>1, <2>5
<1>4. parts = [k \in 1..n |-> parts[k]]
  OBVIOUS
<1> HIDE DEF P
<1>5. parts \in [1..n -> P]
  <2> HIDE DEF parts
  <2> QED
    BY <1>3, <1>4
<1>6. parts \in Seq(P)
  <2> HIDE DEF parts
  <2> QED
    BY <1>5, RankedIsSeq
<1>7. FlattenSeq(parts) \in P
  <2> HIDE DEF parts
  <2> QED
    BY <1>1, <1>2, <1>6, FlattenStays
<1> QED
  BY <1>7 DEF P

\* The statements of a correction.
LEMMA CorrectionBody ==
    ASSUME NEW lines, IsFiniteSet(DOMAIN lines), NEW e
    PROVE  List(CorrectionStatements(lines)) /\ Body(<<ReadLivePolicy>> \o CorrectionStatements(lines), e)
<1> DEFINE inOrder == Arranged(DOMAIN lines, LAMBDA i, j : i < j)
           changes == FlattenSeq([k \in DOMAIN inOrder |-> LineStatements(lines[inOrder[k]])])
           live == <<ReadLivePolicy>>
           base == <<ReadBaseMisc>>
           last == IF changes = << >> THEN << >> ELSE <<ReadCharges>>
           n == Cardinality(DOMAIN lines)
<1>1. CorrectionStatements(lines) = base \o changes \o last
  BY DEF CorrectionStatements
<1>2. n \in Nat /\ DOMAIN inOrder = 1..n
  BY FS_CardinalityType DEF Arranged
<1>3. Booking(changes, e)
  <2> HIDE DEF inOrder, n
  <2> QED
    BY <1>2, ChangesBook
<1> HIDE DEF changes
<1>4. ASSUME NEW do PROVE Continues(live, e, do) /\ Continues(base, e, do)
  <2>1. /\ Ordinary(ReadLivePolicy, e) /\ ReadLivePolicy.do \notin ChargeWork \cup CoverageWork
        /\ Ordinary(ReadBaseMisc, e) /\ ReadBaseMisc.do \notin ChargeWork \cup CoverageWork
    BY DEF ReadLivePolicy, ReadBaseMisc, Ordinary, ChargeWork, CoverageWork
  <2> QED
    BY <2>1, OneMore
<1> HIDE DEF live, base
<1>5. CASE changes = << >>
  <2>1. Continues(changes, e, "claim") /\ Continues(last, e, "claim")
    BY <1>5, NothingMore
  <2> HIDE DEF last
  <2>2. Continues(base \o changes, e, "claim")
    BY <1>4, <2>1, BothContinue
  <2>3. Continues((base \o changes) \o last, e, "claim")
    BY <2>1, <2>2, BothContinue
  <2>4. Continues(live \o ((base \o changes) \o last), e, "claim")
    BY <1>4, <2>3, BothContinue
  <2> QED
    BY <1>1, <2>3, <2>4, PlainBody DEF Continues, live
<1>6. CASE changes # << >>
  <2>1. Bills(changes, e) /\ last = <<ReadCharges>> /\ List(last)
    BY <1>3, <1>6, Single DEF Booking
  <2> HIDE DEF last
  <2>2. Bills(base \o changes, e)
    BY <1>4, <2>1, BothContinue, AgentIsLocked DEF Bills, Continues
  <2> DEFINE all == base \o changes
  <2>3. Bills(live \o all, e) /\ List(live) /\ List(all)
    <3> HIDE DEF all
    <3>1. Bills(all, e)
      BY <2>2 DEF all
    <3> QED
      BY <1>4, <3>1, BothContinue, AgentIsLocked DEF Bills, Continues
  <2>4. List(all \o last)
    <3> HIDE DEF all
    <3> QED
      BY <2>1, <2>3, Joined
  <2>5. (live \o all) \o last = live \o (all \o last)
    <3> HIDE DEF all
    <3> QED
      BY <2>1, <2>3, Regrouped
  <2>6. Body((live \o all) \o last, e)
    <3> HIDE DEF all
    <3> QED
      BY <2>1, <2>3, ChargesLast
  <2> QED
    BY <1>1, <2>4, <2>5, <2>6 DEF live
<1> QED
  BY <1>5, <1>6

\* One more at the end of a list.
LEMMA AtTheEnd ==
    ASSUME NEW a, List(a), NEW s
    PROVE  /\ List(Append(a, s)) /\ Len(a) \in Nat /\ Len(Append(a, s)) = Len(a) + 1
           /\ \A i \in 1..Len(a) : Append(a, s)[i] = a[i]
           /\ Append(a, s)[Len(a) + 1] = s
           /\ Append(a, s) = a \o <<s>>
<1> DEFINE X == {a[i] : i \in DOMAIN a}
           Z == X \cup {s}
<1>1. a \in Seq(Z) /\ s \in Z
  <2>1. a \in Seq(X)
    BY DEF List
  <2> HIDE DEF X
  <2> QED
    BY <2>1
<1> HIDE DEF Z
<1>2. Append(a, s) \in Seq(Z) /\ Len(a) \in Nat /\ Len(Append(a, s)) = Len(a) + 1
  BY <1>1
<1>3. /\ \A i \in 1..Len(a) : Append(a, s)[i] = a[i]
      /\ Append(a, s)[Len(a) + 1] = s
  BY <1>1, AppendIs
<1>4. Append(a, s) = a \o <<s>>
  BY <1>1
<1> QED
  BY <1>2, <1>3, <1>4, SeqIsList

\* The transaction of a decision, from its claim to its commit.
Whole(e, verdict, body) ==
    Append((<<ClaimAs(e, verdict)>> \o body) \o <<Note(e, verdict)>>, CommitTransaction)

\* The statements of a whole decision, by their places.
LEMMA WholeIs ==
    ASSUME NEW e, NEW verdict, NEW body, List(body)
    PROVE  /\ List(Whole(e, verdict, body)) /\ Len(body) \in Nat
           /\ Len(Whole(e, verdict, body)) = Len(body) + 3
           /\ Whole(e, verdict, body)[1] = ClaimAs(e, verdict)
           /\ \A i \in 1..Len(body) : Whole(e, verdict, body)[i + 1] = body[i]
           /\ Whole(e, verdict, body)[Len(body) + 2] = Note(e, verdict)
           /\ Whole(e, verdict, body)[Len(body) + 3] = CommitTransaction
<1> DEFINE c == <<ClaimAs(e, verdict)>>
           one == c \o body
           n == <<Note(e, verdict)>>
           two == one \o n
           m == Len(body)
           q == Whole(e, verdict, body)
<1>1. /\ List(c) /\ Len(c) = 1 /\ c[1] = ClaimAs(e, verdict)
      /\ List(n) /\ Len(n) = 1 /\ n[1] = Note(e, verdict)
  BY Single
<1>2. List(c) /\ List(n) /\ List(body)
  BY <1>1
<1>3. q = Append(two, CommitTransaction)
  BY DEF Whole
<1> HIDE DEF c, n
<1>4. /\ List(one) /\ Len(one) = Len(c) + m /\ m \in Nat
      /\ \A i \in 1..Len(c) : one[i] = c[i]
      /\ \A i \in 1..m : one[Len(c) + i] = body[i]
  BY <1>2, Joined
<1> HIDE DEF one
<1>5. /\ List(two) /\ Len(two) = Len(one) + Len(n) /\ Len(one) \in Nat
      /\ \A i \in 1..Len(one) : two[i] = one[i]
      /\ \A i \in 1..Len(n) : two[Len(one) + i] = n[i]
  BY <1>2, <1>4, Joined
<1> HIDE DEF two, q
<1>6. /\ List(q) /\ Len(two) \in Nat /\ Len(q) = Len(two) + 1
      /\ \A i \in 1..Len(two) : q[i] = two[i]
      /\ q[Len(two) + 1] = CommitTransaction
  BY <1>3, <1>5, AtTheEnd, ZenonT(60)
<1> HIDE DEF m
<1>7. Len(one) = m + 1 /\ Len(two) = m + 2 /\ Len(q) = m + 3 /\ 1 \in 1..1
      /\ 1 \in 1..(m + 1) /\ 1 \in 1..(m + 2) /\ m + 2 \in 1..(m + 2) /\ (m + 1) + 1 = m + 2
      /\ (m + 2) + 1 = m + 3
  BY <1>1, <1>4, <1>5, <1>6
<1>8. q[1] = ClaimAs(e, verdict)
  BY <1>1, <1>4, <1>5, <1>6, <1>7
<1>9. q[m + 2] = Note(e, verdict)
  BY <1>1, <1>5, <1>6, <1>7
<1>10. ASSUME NEW i \in 1..m PROVE q[i + 1] = body[i]
  <2>1. i + 1 = 1 + i /\ i + 1 \in 1..(m + 1) /\ i + 1 \in 1..(m + 2)
    BY <1>4
  <2>2. one[1 + i] = body[i]
    BY <1>1, <1>4
  <2> QED
    BY <1>5, <1>6, <1>7, <2>1, <2>2
<1>11. q[m + 3] = CommitTransaction
  BY <1>6, <1>7
<1> QED
  BY <1>4, <1>6, <1>7, <1>8, <1>9, <1>10, <1>11 DEF q, m

\* Before it starts, a decision has its work before it.
LEMMA WholeIsDecision ==
    ASSUME NEW e, NEW verdict \in Verdicts, NEW body, Body(body, e),
           NEW x, x.todo = Whole(e, verdict, body),
           NEW v, v.request = e, v.decided = NoRows, v.notes = << >>, v.covers = NoRows,
           v.totals = NoRows, NEW req, NEW cov
    PROVE  Decision(x, v, req, cov)
<1> DEFINE q == Whole(e, verdict, body)
           m == Len(body)
           r == Tail(q)
<1>1. List(body)
  BY DEF Body
<1>2. /\ List(q) /\ m \in Nat /\ Len(q) = m + 3 /\ q[1] = ClaimAs(e, verdict)
      /\ \A i \in 1..m : q[i + 1] = body[i]
      /\ q[m + 2] = Note(e, verdict) /\ q[m + 3] = CommitTransaction
  BY <1>1, WholeIs
<1>3. q # << >>
  <2> SUFFICES ASSUME q = << >> PROVE FALSE
    OBVIOUS
  <2>1. Len(q) = 0
    BY Len(<< >>) = 0
  <2> HIDE DEF q, m
  <2> QED
    BY <1>2, <2>1
<1> HIDE DEF q
<1>4. /\ Len(r) = Len(q) - 1 /\ \A i \in 1..(Len(q) - 1) : r[i] = q[i + 1]
      /\ Head(q) = q[1]
  BY <1>2, <1>3, Dropped, Spliced
<1> HIDE DEF m, r
<1>5. /\ Len(r) = m + 2 /\ m + 2 \in 1..(Len(q) - 1) /\ m + 1 \in 1..(Len(q) - 1)
      /\ (m + 2) + 1 = m + 3 /\ (m + 1) + 1 = m + 2 /\ (m + 2) - 1 = m + 1 /\ (m + 2) - 2 = m
      /\ m + 2 >= 2
  BY <1>2, <1>4
<1>6. /\ \A i \in 1..m : Ordinary(body[i], e) /\ body[i].do # "writeTotals"
      /\ \A j, k \in 1..m : body[j].do = "readCharges" /\ body[k].do = "readCharges" => j = k
      /\ \A i \in 1..m : body[i].do \in CoverageWork =>
             \E j \in 1..m : j > i /\ body[j].do = "readCharges"
      /\ \A j \in 1..m : body[j].do = "readCharges" => \E i \in 1..(j - 1) : body[i].do = "agent"
  BY DEF Body, m
<1>7. Ends(r, e, verdict)
  <2>1. r[m + 2] = CommitTransaction /\ r[m + 1] = Note(e, verdict)
    BY <1>2, <1>4, <1>5
  <2>2. \A i \in 1..m : i \in 1..(Len(q) - 1)
    BY <1>2
  <2>3. \A i \in 1..m : Ordinary(r[i], e)
    BY <1>2, <1>4, <1>6, <2>2
  <2> QED
    BY <1>5, <2>1, <2>3 DEF Ends
<1>8. Unclaimed(x, v, verdict)
  BY <1>2, <1>3, <1>4, <1>7 DEF Unclaimed, q, r
<1>9. /\ q[1].do = "claim" /\ q[m + 2].do = "note" /\ q[m + 3].do = "commit"
  BY <1>2 DEF ClaimAs, Note, CommitTransaction
<1>10. \A i \in 1..Len(q) : i = 1 \/ i = m + 2 \/ i = m + 3 \/ i - 1 \in 1..m
  BY <1>2
<1>11. \A i \in 1..Len(q) : i - 1 \in 1..m => q[i] = body[i - 1]
  <2> SUFFICES ASSUME NEW i \in 1..Len(q), i - 1 \in 1..m PROVE q[i] = body[i - 1]
    OBVIOUS
  <2>1. (i - 1) + 1 = i
    OBVIOUS
  <2> QED
    BY <1>2, <2>1
<1>12. \A i \in 1..Len(q) : q[i].do \in ChargeWork \cup CoverageWork => i - 1 \in 1..m /\ q[i] = body[i - 1]
  BY <1>9, <1>10, <1>11 DEF ChargeWork, CoverageWork
<1>13. \A i \in 1..Len(q) : q[i].do \in ChargeWork => q[i].do = "readCharges"
  BY <1>6, <1>12 DEF ChargeWork
<1>a. ASSUME NEW j \in 1..Len(q), NEW k \in 1..Len(q), q[j].do \in ChargeWork, q[k].do \in ChargeWork
      PROVE  j = k
  <2>1. /\ j - 1 \in 1..m /\ body[j - 1].do = "readCharges" /\ k - 1 \in 1..m /\ body[k - 1].do = "readCharges"
    BY <1>a, <1>12, <1>13
  <2>2. j - 1 = k - 1
    BY <1>6, <2>1
  <2> QED
    BY <2>2
<1>b. ASSUME NEW i \in 1..Len(q), q[i].do \in CoverageWork
      PROVE  \E j \in 1..Len(q) : j > i /\ q[j].do = "readCharges"
  <2>1. i - 1 \in 1..m /\ body[i - 1].do \in CoverageWork
    BY <1>b, <1>12
  <2>2. PICK j \in 1..m : j > i - 1 /\ body[j].do = "readCharges"
    BY <1>6, <2>1
  <2>3. j + 1 \in 1..Len(q) /\ j + 1 > i /\ q[j + 1] = body[j]
    BY <1>2, <2>2
  <2> QED
    BY <2>2, <2>3
<1>c. ASSUME NEW j \in 1..Len(q), q[j].do = "readCharges"
      PROVE  \E i \in 1..(j - 1) : q[i].do = "agent"
  <2>1. j - 1 \in 1..m /\ body[j - 1].do = "readCharges"
    BY <1>c, <1>12 DEF ChargeWork
  <2>2. PICK i \in 1..((j - 1) - 1) : body[i].do = "agent"
    BY <1>6, <2>1
  <2>3. i \in 1..m /\ i + 1 \in 1..(j - 1)
    BY <1>2, <2>1
  <2>4. q[i + 1] = body[i]
    BY <1>2, <2>3
  <2> QED
    BY <2>2, <2>3, <2>4
<1>14. Charged(q, x.holds, v, cov)
  <2>1. \A j \in 1..Len(q) : q[j].do # "writeTotals"
    BY <1>13 DEF ChargeWork
  <2> QED
    BY <1>a, <1>b, <1>c, <2>1 DEF Charged
<1>15. ClaimsHeld(x, v, req)
  BY DEF ClaimsHeld, NoRows
<1>16. v.notes \in Seq(HistoryRow)
  OBVIOUS
<1> QED
  BY <1>2, <1>8, <1>14, <1>15, <1>16 DEF Decision, q

\* A handler whose checks are made starts the transaction of its decision.
LEMMA DecisionBegins ==
    ASSUME EndorsementInv, NEW t \in Txs, work[t].pc # "transaction",
           NEW e \in FiledIn(request), NEW verdict \in Verdicts, NEW body, Body(body, e),
           NEW kind, kind # "idle", NEW stmts,
           Append(stmts, CommitTransaction) = Whole(e, verdict, body), Begin(t, kind, Policy, stmts),
           NEW w, DOMAIN w = DOMAIN Free, w.pc = "transaction", w.request = e,
           IsFiniteSet(DOMAIN w.lines), w.decided = NoRows, w.notes = << >>, w.covers = NoRows,
           w.totals = NoRows, work' = [work EXCEPT ![t] = w], UNCHANGED tables
    PROVE  EndorsementInv'
<1> DEFINE y == [Idle EXCEPT !.kind = kind, !.policy = Policy,
                             !.todo = Append(stmts, CommitTransaction)]
<1>1. tx' = [tx EXCEPT ![t] = y] /\ UNCHANGED <<ledger, tables>>
  BY DEF Begin
<1>2. /\ DOMAIN y = Fields /\ y.kind = kind /\ y.todo = Whole(e, verdict, body)
      /\ y.holds = {} /\ y.writes = NoRows
  BY FieldsAre DEF Idle
<1> HIDE DEF y
<1>3. IsFiniteSet(DOMAIN y.writes)
  <2>1. DOMAIN y.writes = {}
    BY <1>2 DEF NoRows
  <2> QED
    BY <2>1, FS_EmptySet
<1>4. Decision(y, w, request, coverage)
  BY <1>2, WholeIsDecision
<1>5. Handling(w, request)
  BY DEF Handling, Filing
<1>6. Connection(y, w, request, coverage)
  BY <1>2, <1>3, <1>4, <1>5 DEF Connection
<1>7. \A u \in Txs \ {t} : Aside(y, w, tx[u], work[u])
  BY <1>2 DEF Aside, Filing
<1> QED
  BY <1>1, <1>6, <1>7, OneConnection

\* The statements of an approval are a whole decision,
LEMMA ApprovalIs ==
    ASSUME NEW e, NEW middle, List(middle)
    PROVE  Append(<<ClaimAs(e, "APPROVED"), ReadLivePolicy>> \o middle \o <<Note(e, "APPROVED")>>,
                  CommitTransaction)
              = Whole(e, "APPROVED", <<ReadLivePolicy>> \o middle)
<1> DEFINE claim == <<ClaimAs(e, "APPROVED")>>
           live == <<ReadLivePolicy>>
           note == <<Note(e, "APPROVED")>>
<1>1. <<ClaimAs(e, "APPROVED"), ReadLivePolicy>> = claim \o live
  BY TwoInARow
<1>2. List(claim) /\ List(live)
  BY Single
<1>3. Whole(e, "APPROVED", live \o middle) = Append((claim \o (live \o middle)) \o note, CommitTransaction)
  BY DEF Whole
<1> HIDE DEF live, claim, note
<1>4. (claim \o live) \o middle = claim \o (live \o middle)
  BY <1>2, Regrouped
<1>5. Append((claim \o live) \o middle \o note, CommitTransaction) = Whole(e, "APPROVED", live \o middle)
  BY <1>3, <1>4
<1> QED
  BY <1>1, <1>5 DEF live, claim, note

\* and those of a rejection are one.
LEMMA RejectionIs ==
    ASSUME NEW e
    PROVE  Append(<<ClaimAs(e, "REJECTED"), Note(e, "REJECTED")>>, CommitTransaction)
              = Whole(e, "REJECTED", << >>)
<1> DEFINE claim == <<ClaimAs(e, "REJECTED")>>
           note == <<Note(e, "REJECTED")>>
<1>1. <<ClaimAs(e, "REJECTED"), Note(e, "REJECTED")>> = claim \o note
  BY TwoInARow
<1>2. claim \in Seq({ClaimAs(e, "REJECTED")})
  OBVIOUS
<1>3. Whole(e, "REJECTED", << >>) = Append((claim \o << >>) \o note, CommitTransaction)
  BY DEF Whole
<1> HIDE DEF claim, note
<1>4. claim \o << >> = claim
  BY <1>2
<1> QED
  BY <1>1, <1>3, <1>4 DEF claim, note

\* An approval begins its transaction.
LEMMA ApproveReadPolicyStays ==
    ASSUME EndorsementInv, NEW t \in Txs, ApproveReadPolicy(t) PROVE EndorsementInv'
<1> DEFINE v == work[t]
           e == v.request
           kind == IF v.type = "CORRECTION" THEN "correction" ELSE "cancellation"
           live == <<ReadLivePolicy>>
           middle == IF v.type = "CORRECTION" THEN CorrectionStatements(v.lines)
                     ELSE <<ReadComponents(Policy)>>
           body == live \o middle
           note == <<Note(e, "APPROVED")>>
           stmts == <<ClaimAs(e, "APPROVED"), ReadLivePolicy>> \o middle \o note
           misc == policyRow.misc
           w == [v EXCEPT !.pc = "transaction", !.misc = misc]
<1>1. /\ v.pc = "readPolicy" /\ Begin(t, kind, Policy, stmts)
      /\ work' = [work EXCEPT ![t] = w] /\ UNCHANGED tables
  <2>1. v.pc = "readPolicy" /\ Begin(t, kind, Policy, stmts) /\ UNCHANGED tables
    BY DEF ApproveReadPolicy
  <2>2. work' = [work EXCEPT ![t] = w]
    BY DEF ApproveReadPolicy
  <2> QED
    BY <2>1, <2>2
<1>2. /\ v.pc # "transaction" /\ v.pc \notin Filing \cup {"free"}
  BY <1>1 DEF Filing
<1>3. Handling(v, request)
  BY <1>2, Outside
<1>4. e \in FiledIn(request) /\ DOMAIN v = DOMAIN Free /\ IsFiniteSet(DOMAIN v.lines) /\ Blank(v)
  BY <1>2, <1>3 DEF Handling
<1>5. List(middle) /\ Body(body, e)
  <2>1. CASE v.type = "CORRECTION"
    BY <1>4, <2>1, CorrectionBody
  <2>2. CASE v.type # "CORRECTION"
    <3> DEFINE read == <<ReadComponents(Policy)>>
    <3>1. /\ Ordinary(ReadComponents(Policy), e) /\ ReadComponents(Policy).do \notin ChargeWork \cup CoverageWork
          /\ Ordinary(ReadLivePolicy, e) /\ ReadLivePolicy.do \notin ChargeWork \cup CoverageWork
      BY DEF ReadComponents, ReadLivePolicy, Ordinary, ChargeWork, CoverageWork
    <3>2. Continues(live, e, "claim") /\ Continues(read, e, "claim")
      BY <3>1, OneMore
    <3>3. middle = read
      BY <2>2
    <3> HIDE DEF live, read, middle
    <3>4. Continues(live \o read, e, "claim")
      BY <3>2, BothContinue
    <3> QED
      BY <3>2, <3>3, <3>4, PlainBody DEF Continues
  <2> QED
    BY <2>1, <2>2
<1>6. Append(stmts, CommitTransaction) = Whole(e, "APPROVED", body)
  <2> HIDE DEF middle, e
  <2> QED
    BY <1>5, ApprovalIs
<1> HIDE DEF stmts, body, misc
<1>7. /\ DOMAIN w = DOMAIN Free /\ w.pc = "transaction" /\ w.request = e /\ w.lines = v.lines
      /\ w.decided = NoRows /\ w.notes = << >> /\ w.covers = NoRows /\ w.totals = NoRows
  BY <1>4, FreeFields DEF Blank
<1>8. kind # "idle" /\ "APPROVED" \in Verdicts
  BY DEF Verdicts
<1> HIDE DEF w, kind, e
<1> QED
  BY <1>1, <1>2, <1>4, <1>5, <1>6, <1>7, <1>8, DecisionBegins

\* A rejection begins its transaction.
LEMMA RejectReadStays ==
    ASSUME EndorsementInv, NEW t \in Txs, NEW e \in Filed, RejectRead(t, e)
    PROVE  EndorsementInv'
<1> DEFINE body == << >>
           stmts == <<ClaimAs(e, "REJECTED"), Note(e, "REJECTED")>>
           w == [Free EXCEPT !.pc = "transaction", !.request = e]
<1>1. /\ work[t].pc = "free" /\ Begin(t, "correction", Policy, stmts)
      /\ work' = [work EXCEPT ![t] = w] /\ UNCHANGED tables
  BY DEF RejectRead
<1>2. e \in FiledIn(request)
  BY DEF Filed, FiledIn
<1>3. Continues(body, e, "claim")
  BY NothingMore
<1>4. Append(stmts, CommitTransaction) = Whole(e, "REJECTED", body)
  BY RejectionIs
<1>5. /\ DOMAIN w = DOMAIN Free /\ w.pc = "transaction" /\ w.request = e /\ IsFiniteSet(DOMAIN w.lines)
      /\ w.decided = NoRows /\ w.notes = << >> /\ w.covers = NoRows /\ w.totals = NoRows
  BY FreeHandling
<1>6. "correction" # "idle" /\ "REJECTED" \in Verdicts /\ work[t].pc # "transaction"
  BY <1>1 DEF Verdicts
<1> HIDE DEF w, stmts, body
<1>7. Body(body, e)
  BY <1>3, PlainBody
<1> QED
  BY <1>1, <1>2, <1>4, <1>5, <1>6, <1>7, DecisionBegins

-----------------------------------------------------------------------------
(* A decision takes effect.                                                  *)

\* The rows of d have their decision, and no others.
Decides(req, d) ==
    req = [e \in Endorsements |->
              IF e \in DOMAIN d THEN [request[e] EXCEPT !.status = d[e]] ELSE request[e]]

\* What has been claimed is decided, and nothing else.
LEMMA DecidedAre ==
    ASSUME Requests(request), NEW d, NEW req, Decides(req, d),
           \A o \in DOMAIN d : /\ o \in Endorsements /\ request[o].status = "SUBMITTED"
                               /\ d[o] \in Verdicts
    PROVE  /\ Requests(req) /\ FiledIn(req) = FiledIn(request)
           /\ \A o \in Endorsements : o \notin DOMAIN d => req[o] = request[o]
           /\ \A o \in DOMAIN d : req[o].status = d[o] /\ req[o].status \in Verdicts
<1>1. /\ DOMAIN request = Endorsements /\ Numbers(request)
      /\ \A o \in Endorsements : /\ DOMAIN request[o] = RequestFields
                                 /\ request[o].status \in Status
                                 /\ IsFiniteSet(DOMAIN request[o].lines)
  BY DEF Requests
<1>2. /\ DOMAIN req = Endorsements
      /\ \A o \in Endorsements : o \notin DOMAIN d => req[o] = request[o]
      /\ \A o \in DOMAIN d : req[o] = [request[o] EXCEPT !.status = d[o]]
  BY DEF Decides
<1>3. \A o \in DOMAIN d : /\ DOMAIN req[o] = RequestFields /\ req[o].status = d[o]
                          /\ req[o].number = request[o].number /\ req[o].lines = request[o].lines
  BY <1>1, <1>2 DEF RequestFields
<1>4. \A o \in Endorsements : /\ DOMAIN req[o] = RequestFields /\ req[o].status \in Status
                              /\ req[o].status = "UNFILED" <=> request[o].status = "UNFILED"
                              /\ req[o].number = request[o].number /\ IsFiniteSet(DOMAIN req[o].lines)
  <2> SUFFICES ASSUME NEW o \in Endorsements
               PROVE  /\ DOMAIN req[o] = RequestFields /\ req[o].status \in Status
                      /\ req[o].status = "UNFILED" <=> request[o].status = "UNFILED"
                      /\ req[o].number = request[o].number /\ IsFiniteSet(DOMAIN req[o].lines)
    OBVIOUS
  <2>1. CASE o \notin DOMAIN d
    BY <1>1, <1>2, <2>1
  <2>2. CASE o \in DOMAIN d
    BY <1>1, <1>3, <2>2 DEF Verdicts, Status
  <2> QED
    BY <2>1, <2>2
<1>5. FiledIn(req) = FiledIn(request)
  BY <1>4 DEF FiledIn
<1>6. {req[o].number : o \in FiledIn(req)} = {request[o].number : o \in FiledIn(request)}
  <2>1. \A o \in FiledIn(request) : req[o].number = request[o].number
    BY <1>4 DEF FiledIn
  <2> QED
    BY <1>5, <2>1
<1>7. Numbers(req)
  BY <1>1, <1>5, <1>6 DEF Numbers
<1>8. Requests(req)
  BY <1>2, <1>4, <1>7 DEF Requests
<1> QED
  BY <1>2, <1>3, <1>5, <1>8

\* The history rows of e's approvals.
Times(q, e) == {k \in DOMAIN q : q[k] = [request |-> e, decision |-> "APPROVED"]}

\* The rows a decision adds to the history, of which the last is its own.
Notes(notes, e, verdict) ==
    /\ notes \in Seq(HistoryRow) /\ Len(notes) >= 1
    /\ notes[Len(notes)] = [request |-> e, decision |-> verdict]
    /\ \A k \in 1..(Len(notes) - 1) : notes[k].decision = "REJECTED"

\* They approve e if that is the verdict, and no other endorsement.
LEMMA NotesAdded ==
    ASSUME approvals \in Seq(HistoryRow), NEW notes, NEW e, NEW verdict, Notes(notes, e, verdict), NEW o
    PROVE  /\ Cardinality(Times(approvals, o)) \in Nat
           /\ Cardinality(Times(approvals \o notes, o)) =
                 Cardinality(Times(approvals, o)) + (IF o = e /\ verdict = "APPROVED" THEN 1 ELSE 0)
<1> DEFINE q == approvals \o notes
           a == Len(approvals)
           n == Len(notes)
           row == [request |-> o, decision |-> "APPROVED"]
<1>1. notes \in Seq(HistoryRow) /\ n >= 1 /\ notes[n] = [request |-> e, decision |-> verdict]
      /\ \A k \in 1..(n - 1) : notes[k].decision = "REJECTED"
  BY DEF Notes
<1>2. List(approvals) /\ List(notes)
  BY <1>1, SeqIsList
<1>3. /\ a \in Nat /\ n \in Nat /\ Len(q) = a + n
      /\ \A i \in 1..a : q[i] = approvals[i]
      /\ \A i \in 1..n : q[a + i] = notes[i]
      /\ \A i \in 1..(a + n) : i \notin 1..a => i - a \in 1..n /\ q[i] = notes[i - a]
  BY <1>2, Joined
<1>4. DOMAIN approvals = 1..a /\ DOMAIN q = 1..(a + n)
  <2>1. q \in Seq(HistoryRow)
    BY <1>1
  <2> HIDE DEF q
  <2> QED
    BY <1>3, <2>1
<1> HIDE DEF q, a, n
<1>5. IsFiniteSet(Times(approvals, o)) /\ Cardinality(Times(approvals, o)) \in Nat
  <2>1. Times(approvals, o) \subseteq 1..a
    BY <1>4 DEF Times
  <2>2. IsFiniteSet(1..a)
    BY <1>3, FS_Interval
  <2> QED
    BY <2>1, <2>2, FS_Subset, FS_CardinalityType
<1>6. \A k \in 1..(a + n) : k \in 1..a \/ k = a + n \/ (k - a \in 1..(n - 1) /\ q[k] = notes[k - a])
  BY <1>3
<1>7. \A k \in 1..(a + n) : k \notin 1..a /\ k # a + n => q[k] # row
  BY <1>1, <1>6
<1>8. q[a + n] = [request |-> e, decision |-> verdict] /\ a + n \in 1..(a + n) /\ a + n \notin 1..a
      /\ 1..a \subseteq 1..(a + n)
  BY <1>1, <1>3
<1>9. (q[a + n] = row) <=> (o = e /\ verdict = "APPROVED")
  BY <1>8
<1>10. CASE o = e /\ verdict = "APPROVED"
  <2>1. Times(q, o) = Times(approvals, o) \cup {a + n} /\ a + n \notin Times(approvals, o)
    BY <1>3, <1>4, <1>7, <1>8, <1>9, <1>10 DEF Times
  <2>2. Cardinality(Times(q, o)) = Cardinality(Times(approvals, o)) + 1
    BY <1>5, <2>1, FS_AddElement
  <2> QED
    BY <1>5, <1>10, <2>2 DEF q
<1>11. CASE ~(o = e /\ verdict = "APPROVED")
  <2>1. Times(q, o) = Times(approvals, o)
    BY <1>3, <1>4, <1>7, <1>8, <1>9, <1>11 DEF Times
  <2> QED
    BY <1>5, <1>11, <2>1 DEF q
<1> QED
  BY <1>10, <1>11

\* The in-lease tasks they add.
LEMMA TasksAdded ==
    ASSUME NEW notes, NEW e, NEW verdict \in Verdicts, Notes(notes, e, verdict)
    PROVE  {m.request : m \in {k \in Range(notes) : k.decision = "APPROVED"}} =
              IF verdict = "APPROVED" THEN {e} ELSE {}
<1> DEFINE n == Len(notes)
<1>1. notes \in Seq(HistoryRow) /\ n >= 1 /\ notes[n] = [request |-> e, decision |-> verdict]
      /\ \A k \in 1..(n - 1) : notes[k].decision = "REJECTED"
  BY DEF Notes
<1>2. n \in Nat /\ DOMAIN notes = 1..n
  BY <1>1
<1> HIDE DEF n
<1>3. Range(notes) = {notes[k] : k \in 1..n}
  BY <1>2 DEF Range
<1>4. \A k \in 1..n : k = n \/ k \in 1..(n - 1)
  BY <1>2
<1>5. n \in 1..n
  BY <1>1, <1>2
<1>6. {k \in Range(notes) : k.decision = "APPROVED"} = IF verdict = "APPROVED" THEN {notes[n]} ELSE {}
  BY <1>1, <1>3, <1>4, <1>5
<1>7. notes[n].request = e
  BY <1>1
<1> QED
  BY <1>6, <1>7

\* A decision's history, the endorsements it approves and its in-lease task
\* become visible at once.
LEMMA DecisionRecorded ==
    ASSUME Requests(request), History, NEW d, Decides(request', d),
           \A o \in DOMAIN d : /\ o \in Endorsements /\ request[o].status = "SUBMITTED"
                               /\ d[o] \in Verdicts,
           NEW e \in DOMAIN d, NEW verdict \in Verdicts, d[e] = verdict,
           \A o \in DOMAIN d : o # e => d[o] = "REJECTED",
           NEW notes, Notes(notes, e, verdict), approvals' = approvals \o notes,
           inLease' = inLease \cup {m.request : m \in {k \in Range(notes) : k.decision = "APPROVED"}}
    PROVE  History'
<1> DEFINE req == request'
           new == IF verdict = "APPROVED" THEN {e} ELSE {}
<1>1. approvals \in Seq(HistoryRow) /\ inLease = Approved
      /\ \A o \in Endorsements : TimesApproved(o) = IF o \in Approved THEN 1 ELSE 0
  BY DEF History, ApprovedExactlyOnce
<1>2. /\ FiledIn(req) = FiledIn(request)
      /\ \A o \in Endorsements : o \notin DOMAIN d => req[o] = request[o]
      /\ \A o \in DOMAIN d : req[o].status = d[o] /\ req[o].status \in Verdicts
  <2> HIDE DEF req
  <2>1. Decides(req, d)
    BY DEF req
  <2> QED
    BY <2>1, DecidedAre
<1>3. inLease' = Approved \cup new
  BY <1>1, TasksAdded
<1>4. Approved = {o \in Endorsements : request[o].status = "APPROVED"}
      /\ Approved' = {o \in Endorsements : req[o].status = "APPROVED"}
  BY DEF Approved, Filed
<1> HIDE DEF req
<1>5. e \in Endorsements /\ e \notin Approved
  BY <1>4
<1>6. \A o \in Endorsements : o \in Approved' <=> o \in Approved \cup new
  <2> SUFFICES ASSUME NEW o \in Endorsements PROVE o \in Approved' <=> o \in Approved \cup new
    OBVIOUS
  <2>1. CASE o \notin DOMAIN d
    BY <1>2, <1>4, <2>1
  <2>2. CASE o \in DOMAIN d /\ o # e
    BY <1>2, <1>4, <2>2
  <2>3. CASE o = e
    BY <1>2, <1>4, <1>5, <2>3 DEF Verdicts
  <2> QED
    BY <2>1, <2>2, <2>3
<1>7. Approved' = Approved \cup new
  BY <1>4, <1>5, <1>6
<1>8. ASSUME NEW o \in Endorsements PROVE TimesApproved(o)' = IF o \in Approved' THEN 1 ELSE 0
  <2>1. /\ TimesApproved(o) = Cardinality(Times(approvals, o))
        /\ TimesApproved(o)' = Cardinality(Times(approvals \o notes, o))
    BY DEF TimesApproved, Times
  <2>2. /\ Cardinality(Times(approvals, o)) \in Nat
        /\ Cardinality(Times(approvals \o notes, o)) =
              Cardinality(Times(approvals, o)) + (IF o = e /\ verdict = "APPROVED" THEN 1 ELSE 0)
    BY <1>1, NotesAdded
  <2>3. Cardinality(Times(approvals, o)) = IF o \in Approved THEN 1 ELSE 0
    BY <1>1, <2>1
  <2> QED
    BY <1>5, <1>7, <2>1, <2>2, <2>3
<1>9. approvals' \in Seq(HistoryRow)
  <2>1. notes \in Seq(HistoryRow)
    BY DEF Notes
  <2> QED
    BY <1>1, <2>1
<1>10. inLease' = Approved'
  BY <1>3, <1>7
<1> QED
  BY <1>8, <1>9, <1>10 DEF History, ApprovedExactlyOnce

\* The policy's total is changed together with the coverages it is the total of.
LEMMA TotalsKept ==
    ASSUME Totalled, NEW v, NEW holds, Charged(<<CommitTransaction>>, holds, v, coverage),
           NEW status, status = NoRows \/ status = [status |-> "CANCELLED"],
           policyRow' = Over(status, Over(v.totals, policyRow)), coverage' = Over(v.covers, coverage)
    PROVE  Totalled' /\ (SameRows(coverage', coverage) \/ AgentRow \in holds)
<1>1. /\ v.totals # NoRows => AgentRow \in holds /\ Totals(v, coverage, v.totals)
      /\ v.covers # NoRows => v.totals # NoRows
  <2> DEFINE q == <<CommitTransaction>>
  <2>1. Len(q) = 1 /\ q[1] = CommitTransaction /\ CommitTransaction.do = "commit"
    BY DEF CommitTransaction
  <2>2. /\ v.totals # NoRows => AgentRow \in holds /\ Totals(v, coverage, v.totals)
        /\ v.covers # NoRows => v.totals # NoRows \/ \E j \in 1..Len(q) : q[j].do \in ChargeWork
    BY DEF Charged
  <2> HIDE DEF q
  <2>3. \A j \in 1..Len(q) : j = 1
    BY <2>1
  <2>4. \A j \in 1..Len(q) : q[j].do \notin ChargeWork
    BY <2>1, <2>3 DEF ChargeWork
  <2> QED
    BY <2>2, <2>4
<1>2. "total" \notin DOMAIN status
  BY DEF NoRows
<1>3. "total" \in DOMAIN policyRow /\ policyRow.total = Premium(coverage)
  BY DEF Totalled, PremiumMatchesCoverages
<1>4. /\ "total" \in DOMAIN policyRow'
      /\ policyRow'.total = Over(v.totals, policyRow).total
  <2> DEFINE under == Over(v.totals, policyRow)
  <2>1. "total" \in DOMAIN under
    BY <1>3 DEF Over
  <2>2. policyRow' = Over(status, under)
    OBVIOUS
  <2> HIDE DEF under
  <2> QED
    BY <1>2, <2>1, <2>2 DEF Over, under
<1>5. CASE v.totals # NoRows
  <2>1. DOMAIN v.totals = {"total", "misc"} /\ v.totals.total = Premium(Over(v.covers, coverage))
        /\ AgentRow \in holds
    BY <1>1, <1>5 DEF Totals
  <2>2. Over(v.totals, policyRow).total = v.totals.total
    BY <2>1 DEF Over
  <2>3. policyRow'.total = Premium(coverage')
    BY <1>4, <2>1, <2>2
  <2>4. PremiumMatchesCoverages'
    BY <2>3 DEF PremiumMatchesCoverages
  <2> QED
    BY <1>4, <2>1, <2>4 DEF Totalled
<1>6. CASE v.totals = NoRows
  <2>1. v.covers = NoRows
    BY <1>1, <1>6
  <2>2. SameRows(coverage', coverage)
    BY <2>1 DEF SameRows, Over, NoRows
  <2>3. Over(v.totals, policyRow).total = policyRow.total
    BY <1>3, <1>6 DEF Over, NoRows
  <2>4. Premium(coverage') = Premium(coverage)
    <3>1. Active(coverage') = Active(coverage)
      BY <2>2 DEF Active, SameRows
    <3>2. Active(coverage) \subseteq DOMAIN coverage
      BY DEF Active
    <3> DEFINE S == {c \in Active(coverage) : ~coverage[c].misc}
    <3>3. {c \in Active(coverage') : ~coverage'[c].misc} = S
      BY <2>2, <3>1, <3>2 DEF SameRows
    <3>4. [c \in S |-> coverage'[c].owed] = [c \in S |-> coverage[c].owed]
      BY <2>2, <3>2 DEF SameRows
    <3>5. /\ Premium(coverage) = SumFunctionOnSet([c \in S |-> coverage[c].owed], S)
          /\ Premium(coverage') = SumFunctionOnSet([c \in S |-> coverage'[c].owed], S)
      <4>1. Premium(coverage) = SumFunctionOnSet([c \in S |-> coverage[c].owed], S)
        BY DEF Premium, SumOf
      <4>2. Premium(coverage') = SumFunctionOnSet([c \in S |-> coverage'[c].owed], S)
        BY <3>3 DEF Premium, SumOf
      <4> QED
        BY <4>1, <4>2
    <3> QED
      BY <3>4, <3>5
  <2>5. PremiumMatchesCoverages'
    BY <1>3, <1>4, <2>3, <2>4 DEF PremiumMatchesCoverages
  <2> QED
    BY <1>4, <2>2, <2>5 DEF Totalled
<1> QED
  BY <1>5, <1>6

\* What a decision commits with: it has claimed the endorsement, and nothing is
\* left to do.
LEMMA AtCommit ==
    ASSUME EndorsementInv, NEW t \in Txs, About(t, "commit")
    PROVE  /\ ClaimsHeld(tx[t], work[t], request)
           /\ Charged(<<CommitTransaction>>, tx[t].holds, work[t], coverage)
           /\ work[t].request \in DOMAIN work[t].decided
           /\ work[t].decided[work[t].request] \in Verdicts
           /\ Notes(work[t].notes, work[t].request, work[t].decided[work[t].request])
           /\ IsFiniteSet(DOMAIN tx[t].writes) /\ work[t].pc = "transaction"
<1> DEFINE v == work[t]
           x == tx[t]
<1>1. /\ Running(t) /\ Statement(t).do = "commit" /\ Decision(x, v, request, coverage)
  BY Executing
<1>2. IsFiniteSet(DOMAIN x.writes) /\ v.pc = "transaction"
  BY <1>1, AtStatementOf
<1>3. \E verdict \in Verdicts : Noted(x, v, verdict)
  BY <1>1, AtHead DEF Statement
<1>4. PICK verdict \in Verdicts : Noted(x, v, verdict)
  BY <1>3
<1>5. /\ x.todo = <<CommitTransaction>> /\ v.request \in DOMAIN v.decided
      /\ v.decided[v.request] = verdict
  BY <1>4 DEF Noted, Decided
<1>6. Notes(v.notes, v.request, verdict)
  BY <1>1, <1>4 DEF Notes, Noted, Decision
<1> QED
  BY <1>1, <1>2, <1>5, <1>6 DEF Decision

\* A commit writes what was claimed, the history and the totals together.
LEMMA CommitDecisionStays ==
    ASSUME EndorsementInv, NEW t \in Txs, CommitDecision(t) PROVE EndorsementInv'
<1> DEFINE v == work[t]
           x == tx[t]
           d == v.decided
           e == v.request
           status == IF v.cancels THEN [status |-> "CANCELLED"] ELSE NoRows
           req == request'
           cov == coverage'
<1>1. /\ About(t, "commit") /\ ledger' = Over(x.writes, ledger) /\ tx' = [tx EXCEPT ![t] = Idle]
      /\ policyRow' = Over(status, Over(v.totals, policyRow)) /\ coverage' = Over(v.covers, coverage)
      /\ approvals' = approvals \o v.notes
      /\ inLease' = inLease \cup {m.request : m \in {k \in Range(v.notes) : k.decision = "APPROVED"}}
      /\ work' = [work EXCEPT ![t] = Free]
  BY DEF CommitDecision, Commit, End
<1>2. Decides(req, d)
  BY DEF CommitDecision, Decides
<1>3. /\ ClaimsHeld(x, v, request) /\ Charged(<<CommitTransaction>>, x.holds, v, coverage)
      /\ e \in DOMAIN d /\ d[e] \in Verdicts /\ Notes(v.notes, e, d[e])
      /\ IsFiniteSet(DOMAIN x.writes) /\ v.pc = "transaction"
  BY <1>1, AtCommit
<1>4. /\ \A o \in DOMAIN d : /\ o \in Endorsements /\ request[o].status = "SUBMITTED"
                             /\ d[o] \in Verdicts
      /\ \A o \in DOMAIN d : RequestRow(o) \in x.holds
      /\ \A o \in DOMAIN d : o # e => d[o] = "REJECTED"
  BY <1>3 DEF ClaimsHeld
<1>5. Requests(request) /\ History /\ Totalled /\ IsFiniteSet(DOMAIN ledger)
  BY DEF EndorsementInv
<1>6. History'
  <2>1. Decides(request', d)
    BY <1>2
  <2> HIDE DEF d, e
  <2> QED
    BY <1>1, <1>3, <1>4, <1>5, <2>1, DecisionRecorded
<1> HIDE DEF req
<1>7. /\ Requests(req) /\ FiledIn(req) = FiledIn(request)
      /\ \A o \in Endorsements : o \notin DOMAIN d => req[o] = request[o]
  <2> HIDE DEF d
  <2> QED
    BY <1>2, <1>4, <1>5, DecidedAre
<1>8. Totalled' /\ (SameRows(cov, coverage) \/ AgentRow \in x.holds)
  <2>1. status = NoRows \/ status = [status |-> "CANCELLED"]
    OBVIOUS
  <2> HIDE DEF status
  <2>2. Totalled' /\ (SameRows(coverage', coverage) \/ AgentRow \in x.holds)
    BY <1>1, <1>3, <1>5, <2>1, TotalsKept
  <2> QED
    BY <2>2
<1>9. IsFiniteSet(DOMAIN ledger')
  <2>1. DOMAIN ledger' = DOMAIN x.writes \cup DOMAIN ledger
    BY <1>1 DEF Over
  <2> QED
    BY <1>3, <1>5, <2>1, FS_Union
<1> HIDE DEF cov
<1>10. ASSUME NEW u \in Txs \ {t} PROVE Connection(tx[u], work[u], req, cov)
  <2>1. Connection(tx[u], work[u], request, coverage) /\ Aside(x, v, tx[u], work[u])
    BY OfConnection
  <2>2. Cardinality(FiledIn(request)) \in Nat
    BY FiledFinite
  <2>3. work[u].pc \in Filing => req[work[u].request].status = "UNFILED"
    <3>1. work[u].pc \in Filing =>
             work[u].request \in Endorsements /\ request[work[u].request].status = "UNFILED"
      BY <2>1 DEF Connection, Handling
    <3> HIDE DEF d
    <3> QED
      BY <1>4, <1>7, <3>1
  <2>4. /\ FiledIn(request) \subseteq FiledIn(req) /\ Cardinality(FiledIn(req)) \in Nat
        /\ Cardinality(FiledIn(request)) <= Cardinality(FiledIn(req))
    BY <1>7, <2>2
  <2>5. \A o \in Endorsements :
           request[o].status = "SUBMITTED" /\ RequestRow(o) \in tx[u].holds => req[o].status = "SUBMITTED"
    <3> HIDE DEF d
    <3> QED
      BY <1>4, <1>7, <2>1 DEF Aside
  <2>6. SameRows(cov, coverage) \/ AgentRow \notin tx[u].holds
    BY <1>8, <2>1 DEF Aside
  <2> QED
    BY <2>1, <2>2, <2>3, <2>4, <2>5, <2>6, ConnectionStays
<1>11. /\ DOMAIN Idle = Fields /\ Idle.kind = "idle" /\ Idle.holds = {} /\ IsFiniteSet(DOMAIN Idle.writes)
  <2>1. DOMAIN Idle.writes = {}
    BY FieldsAre DEF NoRows
  <2> QED
    BY <2>1, FieldsAre, FS_EmptySet DEF Fields
<1>12. Connection(Idle, Free, req, cov)
  BY <1>11, FreeHandling DEF Connection
<1>13. \A u \in Txs \ {t} : Aside(Idle, Free, tx[u], work[u])
  BY <1>11, FreeHandling DEF Aside, Filing
<1>14. /\ Requests(request') /\ Connection(Idle, Free, request', coverage')
       /\ \A u \in Txs \ {t} : Connection(tx[u], work[u], request', coverage')
  BY <1>7, <1>10, <1>12 DEF req, cov
<1> QED
  BY <1>1, <1>6, <1>8, <1>9, <1>13, <1>14, OneConnectionAnd

\* A failure or a broken deadlock writes nothing and frees the connection.
LEMMA AbortStays ==
    ASSUME EndorsementInv, NEW t \in Txs, Abort(t) PROVE EndorsementInv'
<1>1. tx' = [tx EXCEPT ![t] = Idle] /\ End(t) /\ UNCHANGED <<ledger, tables>>
  BY DEF Abort, Fail, BreakDeadlock
<1> QED
  BY <1>1, RollbackStays

-----------------------------------------------------------------------------
(* The theorems.                                                             *)

\* Nothing is filed and nobody is at work at first.
LEMMA InitEndorsementInv == ASSUME InitEndorsements PROVE EndorsementInv
<1>1. /\ ledger = Opening /\ tx = [t \in Txs |-> Idle]
      /\ request = [e \in Endorsements |-> [status |-> "UNFILED", type |-> "CORRECTION",
                                            number |-> 0, lines |-> NoRows]]
      /\ policyRow = [status |-> "ACTIVE", total |-> Premium(OpeningCoverages),
                      misc |-> MiscFee + Misc(OpeningCoverages)]
      /\ coverage = OpeningCoverages /\ approvals = << >> /\ inLease = {}
      /\ work = [t \in Txs |-> Free]
  BY DEF InitEndorsements, Init
<1>2. IsFiniteSet(DOMAIN ledger)
  <2>1. Opening \in Seq(LedgerRow) /\ Len(Opening) \in Nat /\ DOMAIN Opening = 1..Len(Opening)
    BY OpeningAssumption
  <2> QED
    BY <1>1, <2>1, FS_Interval
<1>3. \A e \in Endorsements : /\ DOMAIN request[e] = RequestFields /\ request[e].status = "UNFILED"
                              /\ DOMAIN request[e].lines = {}
  BY <1>1 DEF RequestFields, NoRows
<1>4. FiledIn(request) = {}
  BY <1>3 DEF FiledIn
<1>5. Numbers(request)
  <2>1. Cardinality({}) = 0 /\ 1..0 = {}
    BY FS_EmptySet
  <2> QED
    BY <1>4, <2>1 DEF Numbers
<1>6. Requests(request)
  <2>1. DOMAIN request = Endorsements /\ IsFiniteSet({})
    BY <1>1, FS_EmptySet
  <2> QED
    BY <1>3, <1>5, <2>1 DEF Requests, Status
<1>7. History
  <2>1. Approved = {}
    BY <1>3 DEF Approved, Filed
  <2>2. \A e \in Endorsements : TimesApproved(e) = 0
    <3>1. DOMAIN approvals = {} /\ Cardinality({}) = 0
      BY <1>1, FS_EmptySet
    <3>2. \A e \in Endorsements : {k \in DOMAIN approvals : approvals[k] = [request |-> e, decision |-> "APPROVED"]} = {}
      BY <3>1
    <3> QED
      BY <3>1, <3>2 DEF TimesApproved
  <2>3. approvals \in Seq(HistoryRow)
    BY <1>1
  <2> QED
    BY <1>1, <2>1, <2>2, <2>3 DEF History, ApprovedExactlyOnce
<1>8. Totalled
  BY <1>1 DEF Totalled, PremiumMatchesCoverages
<1>9. /\ DOMAIN Idle = Fields /\ Idle.kind = "idle" /\ Idle.holds = {} /\ IsFiniteSet(DOMAIN Idle.writes)
  <2>1. DOMAIN Idle.writes = {}
    BY FieldsAre DEF NoRows
  <2> QED
    BY <2>1, FieldsAre, FS_EmptySet DEF Fields
<1>10. Connection(Idle, Free, request, coverage)
  BY <1>9, FreeHandling DEF Connection
<1>11. Aside(Idle, Free, Idle, Free)
  BY <1>9, FreeHandling DEF Aside, Filing
<1>12. Connected(request, coverage)
  <2>1. \A t \in Txs : tx[t] = Idle /\ work[t] = Free
    BY <1>1
  <2>2. tx = [t \in Txs |-> tx[t]] /\ work = [t \in Txs |-> work[t]]
    BY <1>1
  <2> QED
    BY <1>10, <1>11, <2>1, <2>2 DEF Connected
<1> QED
  BY <1>2, <1>6, <1>7, <1>8, <1>12 DEF EndorsementInv

\* Every step of every handler keeps the invariant.
LEMMA StepEndorsementInv ==
    ASSUME EndorsementInv, [NextEndorsement]_vars PROVE EndorsementInv'
<1>1. CASE UNCHANGED vars
  <2>1. UNCHANGED <<ledger, tx, request, policyRow, coverage, approvals, inLease, work>>
    BY <1>1 DEF vars, tables, ledgerVars
  <2>2. UNCHANGED <<Requests(request), History, Totalled, Connected(request, coverage)>>
    BY <2>1 DEF Requests, Numbers, FiledIn, History, ApprovedExactlyOnce, Approved, Filed, TimesApproved,
                Totalled, PremiumMatchesCoverages, Premium, Active, SumOf, Connected
  <2> QED
    BY <2>1, <2>2 DEF EndorsementInv
<1>2. ASSUME NEW t \in Txs, File(t) PROVE EndorsementInv'
  BY <1>2, FileReadStays, FileCountStays, FileInsertStays DEF File
<1>3. ASSUME NEW t \in Txs, Edit(t) PROVE EndorsementInv'
  <2>1. IsFiniteSet(DOMAIN NoRows) /\ \A line : IsFiniteSet(DOMAIN Only(1, line))
    BY OnlyFinite, FS_EmptySet DEF NoRows
  <2> QED
    BY <1>3, <2>1, EditReadStays, AddLineStays, EditLineStays, DeleteLineStays DEF Edit
<1>4. ASSUME NEW t \in Txs, Decide(t) PROVE EndorsementInv'
  BY <1>4, ApproveReadStays, RejectReadStays, ApproveRefusedStays, ApproveReadPolicyStays DEF Decide
<1>5. ASSUME NEW t \in Txs, LedgerStatement(t) PROVE EndorsementInv'
  BY <1>5, InsertRowStays, IncrementPayableStays, DecrementBucketStays DEF LedgerStatement
<1>6. ASSUME NEW t \in Txs, ExecuteDecision(t) PROVE EndorsementInv'
  BY <1>5, <1>6, ClaimStays, CheckLivePolicyStays, ComputeBaseMiscStays, InsertCoverageStays,
     FindCoverageStays, UpdateCoverageStays, ComputeChargesStays, UpdateTotalsStays,
     ComputePolicyRefundsStays, SetCancelledStays, FindOrphansStays, UpdateOrphanStays,
     InsertHistoryStays, CommitDecisionStays DEF ExecuteDecision
<1>7. ASSUME NEW t \in Txs, Abort(t) PROVE EndorsementInv'
  BY <1>7, AbortStays
<1> QED
  BY <1>1, <1>2, <1>3, <1>4, <1>6, <1>7 DEF NextEndorsement

\* However filings, edits, approvals, rejections and cancellations interleave,
\* abort and deadlock, the inductive invariant holds.
THEOREM EndorsementsAreConsistent == EndorsementSpec => []EndorsementInv
<1>1. InitEndorsements => EndorsementInv
  BY InitEndorsementInv
<1>2. EndorsementInv /\ [NextEndorsement]_vars => EndorsementInv'
  BY StepEndorsementInv
<1> QED
  BY <1>1, <1>2, PTL DEF EndorsementSpec

\* The endorsements of a policy are numbered from 1 without gaps
\* (routes/endorsements.js POST /, which counts and lets the unique index refuse).
THEOREM NumbersHaveNoGaps == EndorsementSpec => []NumberedWithoutGaps
<1>1. EndorsementInv => NumberedWithoutGaps
  BY DEF EndorsementInv, Requests, Numbers, FiledIn, NumberedWithoutGaps, Filed
<1> QED
  BY <1>1, EndorsementsAreConsistent, PTL

\* An endorsement is approved at most once, with one history row and its
\* in-lease task (approveEndorsementRecord).
THEOREM ApprovalIsExactlyOnce == EndorsementSpec => []ApprovedExactlyOnce
<1>1. EndorsementInv => ApprovedExactlyOnce
  BY DEF EndorsementInv, History
<1> QED
  BY <1>1, EndorsementsAreConsistent, PTL

\* The policy's premium is that of its active coverages, however approvals
\* interleave (computeChargeTotals under the agent's row lock).
THEOREM PremiumIsOfItsCoverages == EndorsementSpec => []PremiumMatchesCoverages
<1>1. EndorsementInv => PremiumMatchesCoverages
  BY DEF EndorsementInv, Totalled
<1> QED
  BY <1>1, EndorsementsAreConsistent, PTL

\* A decided endorsement is not decided otherwise.
DecidedStays ==
    \A e \in Filed : request[e].status # "SUBMITTED" => request'[e].status = request[e].status

\* What leaves the endorsements alone, or only changes their lines, leaves
\* what was decided.
LEMMA SameStatuses ==
    ASSUME \A e \in Endorsements : request'[e].status = request[e].status
    PROVE  DecidedStays
BY DEF DecidedStays, Filed

\* A filing writes an endorsement that was not filed before.
LEMMA FilingDecidesNothing ==
    ASSUME EndorsementInv, NEW t \in Txs, File(t) PROVE DecidedStays
<1>1. CASE UNCHANGED request
  BY <1>1 DEF DecidedStays
<1>2. ASSUME FileInsert(t), request' # request PROVE DecidedStays
  <2> DEFINE v == work[t]
             row == [status |-> "SUBMITTED", type |-> v.type, number |-> v.number, lines |-> v.lines]
  <2>1. v.pc = "fileInsert" /\ request' = [request EXCEPT ![v.request] = row]
    BY <1>2 DEF FileInsert
  <2>2. v.pc # "transaction" /\ v.pc \in Filing
    BY <2>1 DEF Filing
  <2>3. request[v.request].status = "UNFILED" /\ DOMAIN request = Endorsements
    BY <2>2, Outside DEF Handling, EndorsementInv, Requests
  <2> HIDE DEF row, v
  <2>4. \A o \in Filed : o # v.request /\ o \in Endorsements
    BY <2>3 DEF Filed
  <2>5. \A o \in Filed : request'[o] = request[o]
    BY <2>1, <2>3, <2>4
  <2> QED
    BY <2>5 DEF DecidedStays
<1> QED
  BY <1>1, <1>2 DEF File, FileRead, FileCount, tables

\* An edit changes lines only.
LEMMA EditingDecidesNothing ==
    ASSUME EndorsementInv, NEW t \in Txs, Edit(t) PROVE DecidedStays
<1>1. /\ DOMAIN request = Endorsements
      /\ \A o \in Endorsements : DOMAIN request[o] = RequestFields
  BY DEF EndorsementInv, Requests
<1>2. ASSUME NEW z, NEW e, request' = [request EXCEPT ![e].lines = z]
      PROVE  DecidedStays
  <2>1. \A o \in Endorsements : request'[o].status = request[o].status
    BY <1>1, <1>2 DEF RequestFields
  <2> QED
    BY <2>1, SameStatuses
<1>3. CASE AddLine(t)
  <2> DEFINE e == work[t].request
             z == Over(Only(1 + Max({0} \cup DOMAIN request[e].lines), work[t].lines[1]), request[e].lines)
  <2>1. request' = [request EXCEPT ![e].lines = z]
    BY <1>3 DEF AddLine
  <2> HIDE DEF e, z
  <2> QED
    BY <1>2, <2>1
<1>4. CASE EditLine(t)
  <2> DEFINE w == work[t]
             e == w.request
             z == [i \in DOMAIN request[e].lines |-> IF i = w.line THEN w.lines[1] ELSE request[e].lines[i]]
  <2>1. request' = [request EXCEPT ![e].lines = z]
    BY <1>4 DEF EditLine
  <2> HIDE DEF e, z
  <2> QED
    BY <1>2, <2>1
<1>5. CASE DeleteLine(t)
  <2> DEFINE e == work[t].request
             kept == DOMAIN request[e].lines \ {work[t].line}
             z == [i \in kept |-> request[e].lines[i]]
  <2>1. request' = [request EXCEPT ![e].lines = z]
    BY <1>5 DEF DeleteLine
  <2> HIDE DEF e, z
  <2> QED
    BY <1>2, <2>1
<1>6. CASE UNCHANGED request
  BY <1>6 DEF DecidedStays
<1> QED
  BY <1>3, <1>4, <1>5, <1>6 DEF Edit, EditRead, tables

\* A commit decides what it had claimed, which is undecided until then.
LEMMA CommitDecidesTheClaimed ==
    ASSUME EndorsementInv, NEW t \in Txs, CommitDecision(t) PROVE DecidedStays
<1> DEFINE d == work[t].decided
<1>1. About(t, "commit")
  BY DEF CommitDecision, Commit
<1>2. \A o \in DOMAIN d : request[o].status = "SUBMITTED"
  BY <1>1, AtCommit DEF ClaimsHeld
<1>3. \A o \in Endorsements : o \notin DOMAIN d => request'[o] = request[o]
  BY DEF CommitDecision
<1> HIDE DEF d
<1> QED
  BY <1>2, <1>3 DEF DecidedStays, Filed

\* Nothing but a commit decides.
LEMMA StepDecidedStays ==
    ASSUME EndorsementInv, [NextEndorsement]_vars PROVE DecidedStays
<1>1. CASE UNCHANGED request
  BY <1>1 DEF DecidedStays
<1>2. ASSUME NEW t \in Txs, Decide(t) \/ Abort(t) PROVE UNCHANGED request
  BY <1>2 DEF Decide, ApproveRead, ApproveRefused, ApproveReadPolicy, RejectRead, Abort, tables
<1>3. ASSUME NEW t \in Txs, ExecuteDecision(t) PROVE UNCHANGED request \/ CommitDecision(t)
  BY <1>3 DEF ExecuteDecision, Claim, CheckLivePolicy, ComputeBaseMisc, InsertCoverage, FindCoverage,
              UpdateCoverage, ComputeCharges, UpdateTotals, ComputePolicyRefunds, SetCancelled,
              FindOrphans, UpdateOrphan, InsertHistory, LedgerStatement, tables
<1> QED
  BY <1>1, <1>2, <1>3, FilingDecidesNothing, EditingDecidesNothing, CommitDecidesTheClaimed
  DEF NextEndorsement, vars, tables

\* An approved or rejected endorsement stays as it was decided, whatever is
\* edited, orphaned or decided after it (the claim of a SUBMITTED row only).
THEOREM DecisionsStand == EndorsementSpec => DecisionStands
<1>1. EndorsementInv /\ [NextEndorsement]_vars => [DecidedStays]_vars
  BY StepDecidedStays
<1>2. EndorsementSpec => [][DecidedStays]_vars
  BY <1>1, EndorsementsAreConsistent, PTL DEF EndorsementSpec
<1> QED
  BY <1>2 DEF DecisionStands, DecidedStays
================================================================================
