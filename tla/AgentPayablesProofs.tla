--------------------------- MODULE AgentPayablesProofs ---------------------------
(***************************************************************************)
(* The three records of an agent's debt agree, and payments settle the     *)
(* oldest due first, whatever writes them at once; and replaying the ledger *)
(* gives back what is left of its buckets, when one request is served after *)
(* another.                                                                 *)
(*                                                                         *)
(* The argument: each book (the rows of the ledger, the buckets) is moved by*)
(* a statement that inserts or decrements a row, the balance by the one that*)
(* increments it, and a transaction moves all three by as much from its     *)
(* first statement to its last.  What its writes have moved so far, and what*)
(* the statements it has yet to execute will, is what it owes (Settles); its*)
(* locks keep every other transaction off the rows it has read and changed. *)
(*                                                                         *)
(* The order: whatever changes a row of the ledger holds the agent's row or *)
(* will lock it before it commits (Covered), so between a payment's plan and*)
(* its commit no bucket changes, and what its writes and its decrements yet *)
(* to come leave of the buckets is what the plan did (PaysInOrder).         *)
(*                                                                         *)
(* The replay (Along): what a transaction sees (View) can be replayed, but  *)
(* that a correction's buckets are ahead of its rows by what it has yet to  *)
(* write, on its policy's issuance (Gap), and that a payment has yet to make*)
(* the decrements its row is replayed to (Ready).                           *)
(***************************************************************************)
EXTENDS LedgerBackfill, Sums

-----------------------------------------------------------------------------
(* What a statement is.                                                      *)

Kinds == {"idle", "issuance", "payment", "correction", "cancellation"}

Decrements == {"decrement", "decrementNull", "decrementAgain"}

Admitted == {row \in LedgerRow : SignOK(row)}

IssuedIn(rows) == {p \in Policies : IssuanceRows(rows, p) # {}}

DecrementAs(do, i, n) == [do |-> do, row |-> i, by |-> n, locks |-> {BucketRow(i)}]

\* The statements a transaction may have to execute, over the rows there are:
\* it decrements buckets, and cancels policies that are issued.
Statements(rows) ==
    {Insert(row) : row \in Admitted}
    \cup {UpdateAgent(n) : n \in Int}
    \cup {UpdatePolicy(p) : p \in Policies}
    \cup {DecrementAs(do, i, n) : do \in Decrements, i \in BucketsOf(rows), n \in Int}
    \cup {Allocate(n) : n \in Nat}
    \cup {ReadComponents(p) : p \in IssuedIn(rows)}
    \cup {CommitTransaction}

\* A statement of the list, by what it does.
LEMMA StatementFields ==
    ASSUME NEW rows, NEW x \in Statements(rows)
    PROVE  /\ x.do \in {"insert", "agent", "policy", "allocate", "components", "commit"} \cup Decrements
           /\ x.do = "insert" => x = Insert(x.row) /\ x.row \in Admitted
           /\ x.do = "agent" => x = UpdateAgent(x.by) /\ x.by \in Int
           /\ x.do \in Decrements => /\ x = DecrementAs(x.do, x.row, x.by)
                                     /\ x.row \in BucketsOf(rows) /\ x.by \in Int
                                     /\ x.locks = {BucketRow(x.row)}
           /\ x.do = "allocate" => x = Allocate(x.by) /\ x.by \in Nat
           /\ x.do = "components" => x = ReadComponents(x.policy) /\ x.policy \in IssuedIn(rows)
           /\ x.do = "commit" => x = CommitTransaction
<1>1. CASE \E row \in Admitted : x = Insert(row)
  BY <1>1 DEF Insert, Decrements
<1>2. CASE \E n \in Int : x = UpdateAgent(n)
  BY <1>2 DEF UpdateAgent, Decrements
<1>3. CASE \E p \in Policies : x = UpdatePolicy(p)
  BY <1>3 DEF UpdatePolicy, Decrements
<1>4. CASE \E do \in Decrements, i \in BucketsOf(rows), n \in Int : x = DecrementAs(do, i, n)
  BY <1>4 DEF DecrementAs, Decrements
<1>5. CASE \E n \in Nat : x = Allocate(n)
  BY <1>5 DEF Allocate, Decrements
<1>6. CASE \E p \in IssuedIn(rows) : x = ReadComponents(p)
  BY <1>6 DEF ReadComponents, Decrements
<1>7. CASE x = CommitTransaction
  BY <1>7 DEF CommitTransaction, Decrements
<1> QED
  BY <1>1, <1>2, <1>3, <1>4, <1>5, <1>6, <1>7 DEF Statements

-----------------------------------------------------------------------------
(* The books, and what moves them.                                           *)

Books == {"ledger", "buckets"}

\* What a row stands for in a book.
Stands(book, row) ==
    IF book = "ledger" THEN row.amount ELSE IF IsBucket(row) THEN row.remaining ELSE 0

Balance(book, rows) ==
    SumFunctionOnSet([i \in DOMAIN rows |-> Stands(book, rows[i])], DOMAIN rows)

\* What rows written move, over the rows there are.
Moves(book, writes, rows) ==
    [i \in DOMAIN writes |->
        Stands(book, writes[i]) - (IF i \in DOMAIN rows THEN Stands(book, rows[i]) ELSE 0)]

Moved(book, writes, rows) == SumFunctionOnSet(Moves(book, writes, rows), DOMAIN writes)

\* By how much a statement moves a book more than it does the balance.
Due(book, x) ==
    IF x.do = "insert" THEN Stands(book, x.row)
    ELSE IF x.do = "agent" THEN -x.by
    ELSE IF book = "buckets" /\ (x.do \in Decrements \/ x.do = "allocate") THEN -x.by
    ELSE 0

\* All the statements of the list: `rest` is what those from each on do.
Settles(book, list, v) ==
    \E rest \in [1..(Len(list) + 1) -> Int] :
        /\ rest[Len(list) + 1] = 0
        /\ \A k \in 1..Len(list) : rest[k] = Due(book, list[k]) + rest[k + 1]
        /\ rest[1] = v

\* A row the table admits stands for an integer.
LEMMA StandsType ==
    ASSUME NEW book, NEW row \in LedgerRow
    PROVE  Stands(book, row) \in Int
BY DEF Stands, LedgerRow

\* So does a statement.
LEMMA DueType ==
    ASSUME NEW book, NEW rows, NEW x \in Statements(rows)
    PROVE  Due(book, x) \in Int
BY StatementFields, StandsType DEF Due, Admitted, Decrements

\* An empty list settles nothing.
LEMMA SettlesNothing ==
    ASSUME NEW book
    PROVE  Settles(book, << >>, 0)
<1> DEFINE rest == [k \in 1..1 |-> 0]
<1>1. Len(<< >>) = 0
  OBVIOUS
<1>2. rest \in [1..1 -> Int] /\ rest[1] = 0
  OBVIOUS
<1>3. rest \in [1..(Len(<< >>) + 1) -> Int] /\ rest[Len(<< >>) + 1] = 0
  BY <1>1, <1>2
<1> HIDE DEF rest
<1>4. \A k \in 1..Len(<< >>) : rest[k] = Due(book, << >>[k]) + rest[k + 1]
  BY <1>1
<1> QED
  BY <1>2, <1>3, <1>4 DEF Settles

\* A list of one settles what its statement does.
LEMMA SettlesOne ==
    ASSUME NEW book, NEW x, Due(book, x) \in Int
    PROVE  Settles(book, <<x>>, Due(book, x))
<1> DEFINE rest == [k \in 1..2 |-> IF k = 1 THEN Due(book, x) ELSE 0]
<1>1. Len(<<x>>) = 1 /\ <<x>>[1] = x
  OBVIOUS
<1>2. rest \in [1..2 -> Int] /\ rest[1] = Due(book, x) /\ rest[2] = 0
  OBVIOUS
<1>3. rest \in [1..(Len(<<x>>) + 1) -> Int]
  BY <1>1, <1>2
<1> HIDE DEF rest
<1>4. \A k \in 1..Len(<<x>>) : rest[k] = Due(book, <<x>>[k]) + rest[k + 1]
  BY <1>1, <1>2
<1> QED
  BY <1>1, <1>2, <1>3, <1>4 DEF Settles

\* Once its first statement is done, a list settles the rest.
LEMMA SettlesRest ==
    ASSUME NEW book, NEW X, NEW list \in Seq(X), list # << >>,
           Due(book, Head(list)) \in Int, NEW v, Settles(book, list, v)
    PROVE  Settles(book, Tail(list), v - Due(book, Head(list)))
<1>1. PICK rest \in [1..(Len(list) + 1) -> Int] :
          /\ rest[Len(list) + 1] = 0
          /\ \A k \in 1..Len(list) : rest[k] = Due(book, list[k]) + rest[k + 1]
          /\ rest[1] = v
  BY DEF Settles
<1> DEFINE after == [k \in 1..Len(list) |-> rest[k + 1]]
<1>2. /\ Len(list) \in Nat \ {0} /\ Len(Tail(list)) = Len(list) - 1
      /\ Head(list) = list[1] /\ \A k \in 1..Len(Tail(list)) : Tail(list)[k] = list[k + 1]
  OBVIOUS
<1>3. after \in [1..(Len(Tail(list)) + 1) -> Int] /\ after[Len(Tail(list)) + 1] = 0
  BY <1>1, <1>2
<1>4. \A k \in 1..Len(Tail(list)) : after[k] = Due(book, Tail(list)[k]) + after[k + 1]
  <2> SUFFICES ASSUME NEW k \in 1..Len(Tail(list))
               PROVE  after[k] = Due(book, Tail(list)[k]) + after[k + 1]
    OBVIOUS
  <2>1. k + 1 \in 1..Len(list) /\ k \in 1..Len(list) /\ k + 1 \in 1..Len(list)
    BY <1>2
  <2>2. rest[k + 1] = Due(book, list[k + 1]) + rest[(k + 1) + 1]
    BY <1>1, <2>1
  <2> QED
    BY <1>2, <2>1, <2>2
<1>5. after[1] = v - Due(book, Head(list))
  BY <1>1, <1>2
<1> HIDE DEF after
<1> QED
  BY <1>3, <1>4, <1>5 DEF Settles

\* One list after another.
LEMMA SettlesBoth ==
    ASSUME NEW book, NEW X, NEW first \in Seq(X), NEW second \in Seq(X),
           NEW a, Settles(book, first, a), NEW b, Settles(book, second, b),
           \A x \in X : Due(book, x) \in Int
    PROVE  Settles(book, first \o second, a + b)
<1>1. PICK r \in [1..(Len(first) + 1) -> Int] :
          /\ r[Len(first) + 1] = 0
          /\ \A k \in 1..Len(first) : r[k] = Due(book, first[k]) + r[k + 1]
          /\ r[1] = a
  BY DEF Settles
<1>2. PICK q \in [1..(Len(second) + 1) -> Int] :
          /\ q[Len(second) + 1] = 0
          /\ \A k \in 1..Len(second) : q[k] = Due(book, second[k]) + q[k + 1]
          /\ q[1] = b
  BY DEF Settles
<1> DEFINE n == Len(first)
           m == Len(second)
           all == [k \in 1..(n + m + 1) |-> IF k <= n THEN r[k] + b ELSE q[k - n]]
<1>3. n \in Nat /\ m \in Nat /\ Len(first \o second) = n + m
  OBVIOUS
<1>b. b \in Int
  BY <1>2, <1>3
<1>4. all \in [1..(Len(first \o second) + 1) -> Int] /\ all[Len(first \o second) + 1] = 0
  <2>1. \A k \in 1..(n + m + 1) : IF k <= n THEN k \in 1..(n + 1) ELSE k - n \in 1..(m + 1)
    BY <1>3
  <2> QED
    BY <1>1, <1>2, <1>3, <1>b, <2>1
<1>5. \A k \in 1..Len(first \o second) :
          all[k] = Due(book, (first \o second)[k]) + all[k + 1]
  <2> SUFFICES ASSUME NEW k \in 1..(n + m)
               PROVE  all[k] = Due(book, (first \o second)[k]) + all[k + 1]
    BY <1>3
  <2>1. CASE k < n
    <3>1. k \in 1..n /\ k + 1 \in 1..(n + 1) /\ (first \o second)[k] = first[k]
      BY <1>3, <2>1
    <3>2. first[k] \in X
      BY <3>1
    <3>3. r[k] = Due(book, first[k]) + r[k + 1] /\ Due(book, first[k]) \in Int
      BY <1>1, <3>1, <3>2
    <3>4. all[k] = r[k] + b /\ all[k + 1] = r[k + 1] + b
      BY <1>3, <2>1, <3>1
    <3>5. r[k + 1] \in Int /\ (first \o second)[k] = first[k]
      BY <1>1, <3>1
    <3> HIDE DEF all
    <3> QED
      BY <1>b, <3>3, <3>4, <3>5
  <2>2. CASE k = n
    <3>1. k \in 1..n /\ (first \o second)[k] = first[k]
      BY <1>3, <2>2
    <3>2. first[k] \in X
      BY <3>1
    <3>3. r[k] = Due(book, first[k]) + 0 /\ Due(book, first[k]) \in Int
      BY <1>1, <2>2, <3>1, <3>2
    <3>4. all[k] = r[k] + b /\ all[k + 1] = b
      BY <1>2, <1>3, <2>2, <3>1
    <3> HIDE DEF all
    <3> QED
      BY <1>b, <3>1, <3>3, <3>4
  <2>3. CASE k > n
    <3>1. k - n \in 1..m /\ (first \o second)[k] = second[k - n]
      BY <1>3, <2>3
    <3>2. q[k - n] = Due(book, second[k - n]) + q[(k - n) + 1]
      BY <1>2, <3>1
    <3>3. all[k] = q[k - n] /\ all[k + 1] = q[(k - n) + 1]
      BY <1>3, <2>3, <3>1
    <3> HIDE DEF all
    <3> QED
      BY <3>1, <3>2, <3>3
  <2> QED
    BY <1>3, <2>1, <2>2, <2>3, SMTT(60)
<1>6. all[1] = a + b
  BY <1>1, <1>2, <1>3, <1>b
<1> HIDE DEF all
<1> QED
  BY <1>3, <1>4, <1>5, <1>6 DEF Settles

\* A list is worth what another is whose statements are, one by one.
LEMMA SettlesSame ==
    ASSUME NEW book, NEW list, NEW other, Len(other) = Len(list),
           \A k \in 1..Len(list) : Due(book, other[k]) = Due(book, list[k]),
           NEW v, Settles(book, list, v)
    PROVE  Settles(book, other, v)
BY DEF Settles

-----------------------------------------------------------------------------
(* Lists of statements that are put together.                                *)

\* Statements that take f[i] from each i of a set settle the sum.
LEMMA SettlesSet ==
    ASSUME NEW book, NEW S, IsFiniteSet(S), NEW f \in [S -> Int], NEW n \in Nat,
           NEW e \in [1..n -> S],
           \A k, l \in 1..n : e[k] = e[l] => k = l,
           \A i \in S : \E k \in 1..n : e[k] = i,
           NEW list, Len(list) = n,
           \A k \in 1..n : Due(book, list[k]) = -f[e[k]]
    PROVE  Settles(book, list, -SumFunctionOnSet(f, S))
<1> DEFINE left(k) == {e[j] : j \in k..n}
           rest == [k \in 1..(n + 1) |-> -SumFunctionOnSet(f, left(k))]
<1>1. \A k \in 1..(n + 1) : /\ left(k) \subseteq S /\ IsFiniteSet(left(k))
                            /\ SumFunctionOnSet(f, left(k)) \in Int
  <2> SUFFICES ASSUME NEW k \in 1..(n + 1)
               PROVE  /\ left(k) \subseteq S /\ IsFiniteSet(left(k))
                      /\ SumFunctionOnSet(f, left(k)) \in Int
    OBVIOUS
  <2>1. left(k) \subseteq S
    OBVIOUS
  <2>2. IsFiniteSet(left(k))
    BY <2>1, FS_Subset
  <2> HIDE DEF left
  <2> QED
    BY <2>1, <2>2, SumType
<1>2. rest \in [1..(Len(list) + 1) -> Int]
  <2> HIDE DEF left
  <2> QED
    BY <1>1
<1>3. rest[Len(list) + 1] = 0
  <2>1. left(n + 1) = {}
    OBVIOUS
  <2>2. n + 1 \in 1..(n + 1)
    OBVIOUS
  <2> HIDE DEF left
  <2>3. rest[n + 1] = -SumFunctionOnSet(f, {})
    BY <2>1, <2>2
  <2> HIDE DEF rest
  <2> QED
    BY <2>3, SumEmpty
<1>4. rest[1] = -SumFunctionOnSet(f, S)
  <2>1. left(1) = S
    OBVIOUS
  <2>2. 1 \in 1..(n + 1)
    OBVIOUS
  <2> HIDE DEF left
  <2> QED
    BY <2>1, <2>2
<1>5. ASSUME NEW k \in 1..n PROVE rest[k] = Due(book, list[k]) + rest[k + 1]
  <2>1. left(k) = left(k + 1) \cup {e[k]} /\ e[k] \notin left(k + 1) /\ e[k] \in S
    <3>1. \A j \in (k + 1)..n : j # k /\ j \in 1..n /\ j \in k..n
      OBVIOUS
    <3>2. \A j \in k..n : j = k \/ j \in (k + 1)..n
      OBVIOUS
    <3>3. k \in k..n
      OBVIOUS
    <3> QED
      BY <3>1, <3>2, <3>3
  <2>2. /\ left(k + 1) \subseteq S /\ IsFiniteSet(left(k + 1))
        /\ SumFunctionOnSet(f, left(k + 1)) \in Int
    <3>1. k + 1 \in 1..(n + 1)
      OBVIOUS
    <3> HIDE DEF left, rest
    <3> QED
      BY <1>1, <3>1
  <2> HIDE DEF left
  <2>3. \A y \in left(k + 1) \cup {e[k]} : f[y] \in Int
    BY <2>1, <2>2
  <2>4. SumFunctionOnSet(f, left(k + 1) \cup {e[k]}) = f[e[k]] + SumFunctionOnSet(f, left(k + 1))
    BY <2>1, <2>2, <2>3, SumAdd
  <2>5. /\ rest[k] = -SumFunctionOnSet(f, left(k))
        /\ rest[k + 1] = -SumFunctionOnSet(f, left(k + 1))
    OBVIOUS
  <2>6. Due(book, list[k]) = -f[e[k]] /\ f[e[k]] \in Int
    BY <2>1
  <2> HIDE DEF rest
  <2> QED
    BY <2>1, <2>2, <2>4, <2>5, <2>6
<1> HIDE DEF rest
<1> QED
  BY <1>2, <1>3, <1>4, <1>5 DEF Settles

-----------------------------------------------------------------------------
(* The transactions as they begin.                                           *)

\* Every statement but the last.
Steps(rows) == Statements(rows) \ {CommitTransaction}

\* What moves each book as much as the balance.
Balanced(rows) ==
    {list \in Seq(Steps(rows)) : \A book \in Books : Settles(book, list, 0)}

\* What a statement moves is an integer.
LEMMA StepDue ==
    ASSUME NEW book, NEW rows, NEW x \in Steps(rows)
    PROVE  Due(book, x) \in Int
BY DueType DEF Steps

\* A balanced list stays so when another is put after it.
LEMMA BalancedBoth ==
    ASSUME NEW rows
    PROVE  /\ << >> \in Balanced(rows)
           /\ \A a, b \in Balanced(rows) : a \o b \in Balanced(rows)
<1>1. << >> \in Balanced(rows)
  BY SettlesNothing DEF Balanced
<1>2. ASSUME NEW a \in Balanced(rows), NEW b \in Balanced(rows)
      PROVE  a \o b \in Balanced(rows)
  <2>1. a \in Seq(Steps(rows)) /\ b \in Seq(Steps(rows))
    BY DEF Balanced
  <2>2. ASSUME NEW book \in Books PROVE Settles(book, a \o b, 0)
    <3>1. Settles(book, a, 0) /\ Settles(book, b, 0)
      BY DEF Balanced
    <3>2. Settles(book, a \o b, 0 + 0)
      BY <2>1, <3>1, StepDue, SettlesBoth
    <3> QED
      BY <3>2
  <2>3. a \o b \in Seq(Steps(rows))
    BY <2>1
  <2> QED
    BY <2>2, <2>3 DEF Balanced
<1> QED
  BY <1>1, <1>2

\* A list of three, and of two, as a concatenation.
LEMMA ThreeInARow == ASSUME NEW x, NEW y, NEW z PROVE <<x, y, z>> = <<x>> \o <<y, z>>
OBVIOUS

\* (Of two.)
LEMMA TwoInARow == ASSUME NEW x, NEW y PROVE <<x, y>> = <<x>> \o <<y>>
<1>1. <<x, y>> = Append(<<x>>, y)
  OBVIOUS
<1>2. <<x>> \o <<y>> = Append(<<x>>, y)
  OBVIOUS
<1> QED
  BY <1>1, <1>2

\* Two statements that make up for each other.
LEMMA BalancedPair ==
    ASSUME NEW rows, NEW x \in Steps(rows), NEW y \in Steps(rows),
           \A book \in Books : Due(book, x) + Due(book, y) = 0
    PROVE  <<x, y>> \in Balanced(rows)
<1>1. <<x, y>> = <<x>> \o <<y>> /\ <<x>> \in Seq(Steps(rows)) /\ <<y>> \in Seq(Steps(rows))
  BY TwoInARow
<1>2. ASSUME NEW book \in Books PROVE Settles(book, <<x, y>>, 0)
  <2>1. Settles(book, <<x>>, Due(book, x)) /\ Settles(book, <<y>>, Due(book, y))
    BY StepDue, SettlesOne
  <2>2. Settles(book, <<x>> \o <<y>>, Due(book, x) + Due(book, y))
    BY <1>1, <2>1, StepDue, SettlesBoth
  <2> QED
    BY <1>1, <2>2
<1>3. <<x, y>> \in Seq(Steps(rows))
  OBVIOUS
<1> QED
  BY <1>2, <1>3 DEF Balanced

\* A statement that a balanced list of the others follows.
LEMMA BalancedTriple ==
    ASSUME NEW rows, NEW x \in Steps(rows), NEW y \in Steps(rows), NEW z \in Steps(rows),
           \A book \in Books : Due(book, x) + (Due(book, y) + Due(book, z)) = 0
    PROVE  <<x>> \o <<y, z>> \in Balanced(rows)
<1>1. <<y, z>> = <<y>> \o <<z>> /\ <<y>> \in Seq(Steps(rows)) /\ <<z>> \in Seq(Steps(rows))
      /\ <<x>> \in Seq(Steps(rows)) /\ <<y, z>> \in Seq(Steps(rows))
  BY TwoInARow
<1>2. ASSUME NEW book \in Books PROVE Settles(book, <<x>> \o <<y, z>>, 0)
  <2>1. /\ Settles(book, <<x>>, Due(book, x)) /\ Settles(book, <<y>>, Due(book, y))
        /\ Settles(book, <<z>>, Due(book, z))
    BY StepDue, SettlesOne
  <2>2. Settles(book, <<y>> \o <<z>>, Due(book, y) + Due(book, z))
    BY <1>1, <2>1, StepDue, SettlesBoth
  <2>3. Settles(book, <<x>> \o <<y, z>>, Due(book, x) + (Due(book, y) + Due(book, z)))
    BY <1>1, <2>1, <2>2, StepDue, SettlesBoth
  <2> QED
    BY <2>3
<1>3. <<x>> \o <<y, z>> \in Seq(Steps(rows))
  BY <1>1
<1> QED
  BY <1>2, <1>3 DEF Balanced

\* The statements the lists are made of are ones.
LEMMA StepsAre ==
    ASSUME NEW rows
    PROVE  /\ \A row \in Admitted : Insert(row) \in Steps(rows)
           /\ \A n \in Int : UpdateAgent(n) \in Steps(rows)
           /\ \A p \in Policies : UpdatePolicy(p) \in Steps(rows)
           /\ \A i \in BucketsOf(rows), n \in Int : Decrement(i, n) \in Steps(rows)
           /\ \A n \in Nat : Allocate(n) \in Steps(rows)
           /\ \A p \in IssuedIn(rows) : ReadComponents(p) \in Steps(rows)
<1>1. \A row : Insert(row) # CommitTransaction
  BY DEF Insert, CommitTransaction
<1>2. \A n : UpdateAgent(n) # CommitTransaction /\ Allocate(n) # CommitTransaction
  BY DEF UpdateAgent, Allocate, CommitTransaction
<1>3. \A p : UpdatePolicy(p) # CommitTransaction /\ ReadComponents(p) # CommitTransaction
  BY DEF UpdatePolicy, ReadComponents, CommitTransaction
<1>4. \A i, n : Decrement(i, n) # CommitTransaction /\ Decrement(i, n) = DecrementAs("decrement", i, n)
  BY DEF Decrement, DecrementAs, CommitTransaction
<1>5. \A i \in BucketsOf(rows), n \in Int : Decrement(i, n) \in Statements(rows)
  BY <1>4 DEF Statements, Decrements
<1> QED
  BY <1>1, <1>2, <1>3, <1>4, <1>5 DEF Steps, Statements

\* What they move.
LEMMA DuesAre ==
    /\ \A book, row : Due(book, Insert(row)) = Stands(book, row)
    /\ \A book, n : Due(book, UpdateAgent(n)) = -n
    /\ \A book, p : Due(book, UpdatePolicy(p)) = 0
    /\ \A book, p : Due(book, ReadComponents(p)) = 0
    /\ \A book, i, n : Due(book, Decrement(i, n)) = IF book = "buckets" THEN -n ELSE 0
    /\ \A book, n : Due(book, Allocate(n)) = IF book = "buckets" THEN -n ELSE 0
    /\ \A book : Due(book, CommitTransaction) = 0
BY DEF Due, Insert, UpdateAgent, UpdatePolicy, ReadComponents, Decrement, Allocate,
       CommitTransaction, Decrements

\* The rows the handlers insert are ones the table admits, and what they stand
\* for.
LEMMA RowsAre ==
    ASSUME NEW n \in Nat
    PROVE  /\ \A p \in Policies, due \in Nat \cup {NoDue}, book \in Books :
                 /\ Row("ISSUANCE", p, n, due, TRUE) \in Admitted
                 /\ Row("ENDORSEMENT", p, n, due, TRUE) \in Admitted
                 /\ Stands(book, Row("ISSUANCE", p, n, due, TRUE)) = n
                 /\ Stands(book, Row("ENDORSEMENT", p, n, due, TRUE)) = n
           /\ \A type \in {"ENDORSEMENT", "CANCELLED_POLICY", "PAYMENT"},
                 p \in Policies \cup {NoPolicy} :
                 /\ Row(type, p, -n, NoDue, FALSE) \in Admitted
                 /\ Stands("ledger", Row(type, p, -n, NoDue, FALSE)) = -n
                 /\ Stands("buckets", Row(type, p, -n, NoDue, FALSE)) = 0
<1>1. -n \in Int /\ n \in Int /\ -n <= 0
  OBVIOUS
<1>2. ASSUME NEW p \in Policies, NEW due \in Nat \cup {NoDue}, NEW book \in Books,
             NEW type \in {"ISSUANCE", "ENDORSEMENT"}
      PROVE  /\ Row(type, p, n, due, TRUE) \in Admitted
             /\ Stands(book, Row(type, p, n, due, TRUE)) = n
  BY DEF Row, Admitted, LedgerRow, SignOK, Stands, IsBucket
<1>3. ASSUME NEW type \in {"ENDORSEMENT", "CANCELLED_POLICY", "PAYMENT"},
             NEW p \in Policies \cup {NoPolicy}
      PROVE  /\ Row(type, p, -n, NoDue, FALSE) \in Admitted
             /\ Stands("ledger", Row(type, p, -n, NoDue, FALSE)) = -n
             /\ Stands("buckets", Row(type, p, -n, NoDue, FALSE)) = 0
  BY <1>1 DEF Row, Admitted, LedgerRow, SignOK, Stands, IsBucket
<1> QED
  BY <1>2, <1>3

\* Issuing a policy, paying, and a line of either kind move the books and the
\* balance alike; a debit because the policy has a bucket to be taken from.
LEMMA RequestsBalance ==
    ASSUME NEW rows, NEW n \in Nat, NEW due \in Nat \cup {NoDue}
    PROVE  /\ \A p \in Policies : Issuance(p, n, due) \in Balanced(rows)
           /\ Payment(n) \in Balanced(rows)
           /\ \A p \in Policies : Credit(p, n, due) \in Balanced(rows)
           /\ \A p \in IssuedIn(rows) : Debit(rows, p, n) \in Balanced(rows)
<1>1. n \in Int /\ -n \in Int /\ n >= 0 /\ -n <= 0 /\ -(-n) = n /\ NoDue \in Nat \cup {NoDue}
  OBVIOUS
<1>2. ASSUME NEW p \in Policies PROVE Issuance(p, n, due) \in Balanced(rows)
  <2> DEFINE row == Row("ISSUANCE", p, n, due, TRUE)
  <2>1. row \in Admitted /\ \A book \in Books : Stands(book, row) = n
    BY RowsAre DEF Books
  <2> HIDE DEF row
  <2>2. \A book \in Books : Due(book, Insert(row)) + Due(book, UpdateAgent(n)) = 0
    BY <1>1, <2>1, DuesAre
  <2>3. <<Insert(row), UpdateAgent(n)>> \in Balanced(rows)
    BY <1>1, <2>1, <2>2, StepsAre, BalancedPair
  <2> QED
    BY <2>3 DEF Issuance, row
<1>3. Payment(n) \in Balanced(rows)
  <2> DEFINE row == Row("PAYMENT", NoPolicy, -n, NoDue, FALSE)
  <2>1. row \in Admitted /\ Stands("ledger", row) = -n /\ Stands("buckets", row) = 0
    BY RowsAre
  <2> HIDE DEF row
  <2>2. \A book \in Books :
            Due(book, Insert(row)) + (Due(book, UpdateAgent(-n)) + Due(book, Allocate(n))) = 0
    BY <1>1, <2>1, DuesAre DEF Books
  <2>3. <<Insert(row)>> \o <<UpdateAgent(-n), Allocate(n)>> \in Balanced(rows)
    BY <1>1, <2>1, <2>2, StepsAre, BalancedTriple
  <2>4. <<Insert(row)>> \o <<UpdateAgent(-n), Allocate(n)>>
            = <<Insert(row), UpdateAgent(-n), Allocate(n)>>
    BY ThreeInARow
  <2> QED
    BY <2>3, <2>4 DEF Payment, row
<1>4. ASSUME NEW p \in Policies PROVE Credit(p, n, due) \in Balanced(rows)
  <2> DEFINE row == Row("ENDORSEMENT", p, n, due, TRUE)
  <2>1. row \in Admitted /\ \A book \in Books : Stands(book, row) = n
    BY RowsAre DEF Books
  <2> HIDE DEF row
  <2>2. \A book \in Books : Due(book, Insert(row)) + Due(book, UpdateAgent(n)) = 0
    BY <1>1, <2>1, DuesAre
  <2>3. <<Insert(row), UpdateAgent(n)>> \in Balanced(rows)
    BY <1>1, <2>1, <2>2, StepsAre, BalancedPair
  <2> QED
    BY <2>3 DEF Credit, row
<1>5. ASSUME NEW p \in IssuedIn(rows) PROVE Debit(rows, p, n) \in Balanced(rows)
  <2> DEFINE row == Row("ENDORSEMENT", p, -n, NoDue, FALSE)
             bucket == CHOOSE i \in IssuanceRows(rows, p) : TRUE
  <2>1. p \in Policies /\ IssuanceRows(rows, p) # {}
    BY DEF IssuedIn
  <2>2. row \in Admitted /\ Stands("ledger", row) = -n /\ Stands("buckets", row) = 0
    BY <2>1, RowsAre
  <2>3. bucket \in BucketsOf(rows)
    BY <2>1 DEF IssuanceRows, BucketsOf, IsBucket
  <2>4. Debit(rows, p, n) = <<Decrement(bucket, n)>> \o <<Insert(row), UpdateAgent(-n)>>
    BY <2>1 DEF Debit
  <2> HIDE DEF row, bucket
  <2>5. \A book \in Books :
            Due(book, Decrement(bucket, n)) + (Due(book, Insert(row)) + Due(book, UpdateAgent(-n))) = 0
    BY <1>1, <2>2, DuesAre DEF Books
  <2>6. <<Decrement(bucket, n)>> \o <<Insert(row), UpdateAgent(-n)>> \in Balanced(rows)
    BY <1>1, <2>2, <2>3, <2>5, StepsAre, BalancedTriple
  <2> QED
    BY <2>4, <2>6
<1> QED
  BY <1>2, <1>3, <1>4, <1>5

\* A correction moves them alike, line by line.
LEMMA CorrectionBalances ==
    ASSUME NEW rows, NEW p \in IssuedIn(rows), NEW lines, NEW kinds \in LineLists,
           DOMAIN lines = DOMAIN kinds,
           \A k \in DOMAIN lines : lines[k].amount \in Nat /\ lines[k].due \in Nat
    PROVE  Correction(rows, p, lines) \in Balanced(rows)
<1> DEFINE lists == [k \in DOMAIN lines |-> Line(rows, p, lines[k].kind, lines[k].amount, lines[k].due)]
<1>1. p \in Policies
  BY DEF IssuedIn
<1>2. ASSUME NEW k \in DOMAIN lines
      PROVE  Line(rows, p, lines[k].kind, lines[k].amount, lines[k].due) \in Balanced(rows)
  BY <1>1, RequestsBalance DEF Line
<1>3. DOMAIN lines = 1..Len(kinds) /\ Len(kinds) \in Nat
  BY LedgerAssumption
<1>4. lists \in Seq(Balanced(rows))
  BY <1>2, <1>3
<1>5. FlattenSeq(lists) \in Balanced(rows)
  <2> HIDE DEF lists
  <2> QED
    BY <1>4, BalancedBoth, FlattenStays
<1>6. <<UpdatePolicy(p)>> \in Balanced(rows)
  <2>1. UpdatePolicy(p) \in Steps(rows)
    BY <1>1, StepsAre
  <2>2. ASSUME NEW book \in Books PROVE Settles(book, <<UpdatePolicy(p)>>, 0)
    BY DuesAre, SettlesOne
  <2> QED
    BY <2>1, <2>2 DEF Balanced
<1> HIDE DEF lists
<1>7. FlattenSeq(lists) \o <<UpdatePolicy(p)>> \in Balanced(rows)
  BY <1>5, <1>6, BalancedBoth
<1> QED
  BY <1>7 DEF Correction, lists

-----------------------------------------------------------------------------
(* The statements that are planned from what a transaction has read.         *)

\* The rows of a ledger.
AnyRows == UNION {[S -> Admitted] : S \in SUBSET Nat}

Tables == {rows \in AnyRows : IsFiniteSet(DOMAIN rows)}

\* What the rows of a ledger are.
LEMMA TablesAre ==
    ASSUME NEW rows
    PROVE  rows \in Tables <=> /\ DOMAIN rows \subseteq Nat /\ IsFiniteSet(DOMAIN rows)
                               /\ rows \in [DOMAIN rows -> Admitted]
<1>1. ASSUME rows \in Tables
      PROVE  /\ DOMAIN rows \subseteq Nat /\ IsFiniteSet(DOMAIN rows)
             /\ rows \in [DOMAIN rows -> Admitted]
  <2>1. PICK S \in SUBSET Nat : rows \in [S -> Admitted]
    BY <1>1 DEF Tables, AnyRows
  <2> QED
    BY <1>1, <2>1 DEF Tables
<1>2. ASSUME DOMAIN rows \subseteq Nat, IsFiniteSet(DOMAIN rows),
             rows \in [DOMAIN rows -> Admitted]
      PROVE  rows \in Tables
  <2> DEFINE S == DOMAIN rows
  <2>1. S \in SUBSET Nat /\ rows \in [S -> Admitted]
    BY <1>2
  <2>2. rows \in AnyRows
    <3> HIDE DEF S
    <3> QED
      BY <2>1 DEF AnyRows
  <2> QED
    BY <1>2, <2>2 DEF Tables
<1> QED
  BY <1>1, <1>2

\* In the buckets by due date each is there once, after those that are older.
LEMMA OlderComeFirst ==
    ASSUME NEW rows \in Tables, NEW n, n = Cardinality(BucketsOf(rows))
    PROVE  /\ n \in Nat
           /\ OldestFirst(rows) \in [1..n -> BucketsOf(rows)]
           /\ \A k, l \in 1..n : OldestFirst(rows)[k] = OldestFirst(rows)[l] => k = l
           /\ \A c \in BucketsOf(rows) : \E k \in 1..n : OldestFirst(rows)[k] = c
           /\ \A k \in 1..n, c \in BucketsOf(rows) :
                 Older(rows, c, OldestFirst(rows)[k]) =>
                     \E l \in 1..(k - 1) : OldestFirst(rows)[l] = c
           /\ \A k \in 1..n :
                 Cardinality({j \in BucketsOf(rows) : Older(rows, j, OldestFirst(rows)[k])}) = k - 1
           /\ \A c \in BucketsOf(rows) :
                 OldestFirst(rows)[Cardinality({j \in BucketsOf(rows) : Older(rows, j, c)}) + 1] = c
<1> DEFINE B == BucketsOf(rows)
           order == {d \in B \X B : Older(rows, d[1], d[2])}
           list == OldestFirst(rows)
<1>1. B \subseteq Nat /\ IsFiniteSet(B) /\ \A i \in B : rows[i].due \in Nat \cup {NoDue}
  <2>1. B \subseteq DOMAIN rows
    BY DEF BucketsOf
  <2>2. \A i \in B : rows[i] \in LedgerRow
    BY <2>1, TablesAre DEF Admitted
  <2> QED
    BY <2>1, <2>2, TablesAre, FS_Subset DEF LedgerRow
<1>2. n \in Nat
  BY <1>1, FS_CardinalityType
<1>3. StrictOrder(order, B)
  <2>1. NoDue \in Int
    BY DEF NoDue
  <2> HIDE DEF B
  <2> QED
    BY <1>1, <2>1 DEF Older, StrictOrder
<1>4. \A i, j \in B : Older(rows, i, j) <=> <<i, j>> \in order
  OBVIOUS
<1>5. list = [k \in 1..n |-> CHOOSE i \in B : Cardinality({j \in B : Older(rows, j, i)}) = k - 1]
  BY DEF OldestFirst, Arranged
<1> HIDE DEF B, order, list
<1>6. \A i \in B : Below(B, order, i) = {j \in B : Older(rows, j, i)}
  BY <1>4 DEF Below
<1>7. ASSUME NEW k \in 1..n
      PROVE  list[k] \in B /\ Cardinality(Below(B, order, list[k])) = k - 1
  <2>1. k - 1 \in 0..(Cardinality(B) - 1)
    BY <1>2 DEF B
  <2>2. PICK c \in B : Cardinality(Below(B, order, c)) = k - 1
    <3>1. IsFiniteSet(B)
      BY <1>1
    <3>2. \A l \in 0..(Cardinality(B) - 1) : \E i \in B : Cardinality(Below(B, order, i)) = l
      BY <1>3, <3>1, RankIsTaken
    <3> QED
      BY <2>1, <3>2
  <2>3. Cardinality({j \in B : Older(rows, j, c)}) = k - 1
    BY <1>6, <2>2
  <2>4. list[k] = CHOOSE i \in B : Cardinality({j \in B : Older(rows, j, i)}) = k - 1
    BY <1>5
  <2>5. list[k] \in B /\ Cardinality({j \in B : Older(rows, j, list[k])}) = k - 1
    BY <2>3, <2>4
  <2> QED
    BY <1>6, <2>5
<1>8. list \in [1..n -> B]
  BY <1>5, <1>7
<1>9. /\ \A k, l \in 1..n : list[k] = list[l] => k = l
      /\ \A c \in B : Cardinality(Below(B, order, c)) + 1 \in 1..n
                      /\ list[Cardinality(Below(B, order, c)) + 1] = c
      /\ \A k \in 1..n, c \in B : <<c, list[k]>> \in order => \E l \in 1..(k - 1) : list[l] = c
  <2>1. n = Cardinality(B) /\ IsFiniteSet(B)
    BY <1>1 DEF B
  <2>2. ListsInOrder(list, B, order)
    BY <1>7, <1>8, <2>1 DEF ListsInOrder
  <2> QED
    BY <1>3, <2>1, <2>2, ListedInOrder
<1>10. /\ \A k \in 1..n : Cardinality({j \in B : Older(rows, j, list[k])}) = k - 1
       /\ \A c \in B : list[Cardinality({j \in B : Older(rows, j, c)}) + 1] = c
  BY <1>6, <1>7, <1>9
<1> QED
  BY <1>2, <1>4, <1>8, <1>9, <1>10 DEF B, list

\* The buckets by due date are the buckets.
LEMMA OldestFirstIs ==
    ASSUME NEW rows \in Tables
    PROVE  /\ OldestFirst(rows) \in Seq(BucketsOf(rows))
           /\ Len(OldestFirst(rows)) = Cardinality(BucketsOf(rows))
<1> DEFINE n == Cardinality(BucketsOf(rows))
<1>1. n \in Nat /\ OldestFirst(rows) \in [1..n -> BucketsOf(rows)]
  BY OlderComeFirst
<1> QED
  BY <1>1, RankedIsSeq

\* A payment of n partly planned: what is left is what the plan does not take.
Planned(rows, n) ==
    {part \in [left : Nat, last : BucketsOf(rows), plan : Seq(Steps(rows))] :
        /\ Settles("ledger", part.plan, 0)
        /\ Settles("buckets", part.plan, part.left - n)}

\* A decrement more in a plan.
LEMMA PlanOneMore ==
    ASSUME NEW rows, NEW plan \in Seq(Steps(rows)), NEW v \in Int,
           Settles("ledger", plan, 0), Settles("buckets", plan, v),
           NEW i \in BucketsOf(rows), NEW m \in Int
    PROVE  /\ Append(plan, Decrement(i, m)) \in Seq(Steps(rows))
           /\ Settles("ledger", Append(plan, Decrement(i, m)), 0)
           /\ Settles("buckets", Append(plan, Decrement(i, m)), v - m)
<1> DEFINE x == Decrement(i, m)
<1>1. x \in Steps(rows)
  BY StepsAre
<1>2. Due("ledger", x) = 0 /\ Due("buckets", x) = -m
  BY DuesAre
<1> HIDE DEF x
<1>3. <<x>> \in Seq(Steps(rows)) /\ Append(plan, x) \in Seq(Steps(rows)) /\ plan \o <<x>> = Append(plan, x)
  BY <1>1
<1>4. Settles("ledger", <<x>>, 0) /\ Settles("buckets", <<x>>, -m)
  BY <1>2, SettlesOne
<1>5. Settles("ledger", plan \o <<x>>, 0 + 0) /\ Settles("buckets", plan \o <<x>>, v + (-m))
  BY <1>3, <1>4, StepDue, SettlesBoth
<1>6. v + (-m) = v - m /\ 0 + 0 = 0
  OBVIOUS
<1>7. Settles("ledger", Append(plan, x), 0) /\ Settles("buckets", Append(plan, x), v - m)
  BY <1>3, <1>5, <1>6
<1> QED
  BY <1>3, <1>7 DEF x

\* What a record of a plan has to be.
LEMMA PlannedIs ==
    ASSUME NEW rows, NEW n, NEW left \in Nat, NEW last \in BucketsOf(rows),
           NEW plan \in Seq(Steps(rows)),
           Settles("ledger", plan, 0), Settles("buckets", plan, left - n)
    PROVE  [left |-> left, last |-> last, plan |-> plan] \in Planned(rows, n)
BY DEF Planned

\* A bucket's turn leaves a plan one.
LEMMA SettleStays ==
    ASSUME NEW rows \in Tables, NEW n \in Nat, NEW part \in Planned(rows, n),
           NEW i \in BucketsOf(rows)
    PROVE  Settle(rows, part, i) \in Planned(rows, n)
<1> DEFINE applied == IF part.left < rows[i].remaining THEN part.left ELSE rows[i].remaining
<1>1. rows[i].remaining \in Int
  BY TablesAre DEF BucketsOf, Admitted, LedgerRow
<1>2. /\ part \in [left : Nat, last : BucketsOf(rows), plan : Seq(Steps(rows))]
      /\ Settles("ledger", part.plan, 0) /\ Settles("buckets", part.plan, part.left - n)
  BY DEF Planned
<1>3. CASE part.left <= 0 \/ rows[i].remaining <= 0
  BY <1>3 DEF Settle
<1>4. CASE ~(part.left <= 0 \/ rows[i].remaining <= 0)
  <2>1. applied \in Int /\ part.left - applied \in Nat /\ part.left \in Nat
    BY <1>1, <1>2, <1>4
  <2>2. Settle(rows, part, i) =
            [left |-> part.left - applied, last |-> i,
             plan |-> Append(part.plan, Decrement(i, applied))]
    BY <1>4 DEF Settle
  <2> DEFINE more == Append(part.plan, Decrement(i, applied))
             left == part.left - applied
  <2> HIDE DEF applied
  <2>3. /\ more \in Seq(Steps(rows)) /\ Settles("ledger", more, 0)
        /\ Settles("buckets", more, (part.left - n) - applied)
    BY <1>2, <2>1, PlanOneMore
  <2>4. (part.left - n) - applied = left - n /\ left \in Nat
    BY <1>2, <2>1
  <2>5. Settle(rows, part, i) = [left |-> left, last |-> i, plan |-> more]
    BY <2>2
  <2> HIDE DEF more, left
  <2>6. Settles("buckets", more, left - n)
    BY <2>3, <2>4
  <2> QED
    BY <2>3, <2>4, <2>5, <2>6, PlannedIs
<1> QED
  BY <1>3, <1>4

\* The buckets have their turns one after another, the oldest due first.
InTurns(rows, n, settled) ==
    LET buckets == OldestFirst(rows)
        N       == Len(buckets)
    IN  /\ settled[0] = [left |-> n, last |-> Last(buckets), plan |-> << >>]
        /\ \A k \in 1..N : settled[k] = Settle(rows, settled[k - 1], buckets[k])
        /\ Allocation(rows, n) =
               IF settled[N].left > 0
               THEN Append(settled[N].plan, Decrement(settled[N].last, settled[N].left))
               ELSE settled[N].plan

\* A payment's plan is made by giving each bucket its turn.
LEMMA AllocationInTurns ==
    ASSUME NEW rows \in Tables, BucketsOf(rows) # {}, NEW n \in Nat
    PROVE  /\ Len(OldestFirst(rows)) \in Nat \ {0}
           /\ OldestFirst(rows) # << >>
           /\ \A k \in 1..Len(OldestFirst(rows)) : OldestFirst(rows)[k] \in BucketsOf(rows)
           /\ \E settled : InTurns(rows, n, settled)
<1> DEFINE buckets == OldestFirst(rows)
           N == Len(buckets)
           first == [left |-> n, last |-> Last(buckets), plan |-> << >>]
           IsPlan(g, m) == g = [k \in 0..m |-> IF k = 0 THEN first ELSE Settle(rows, g[k - 1], buckets[k])]
           settled == CHOOSE g : IsPlan(g, N)
           all == settled[N]
<1>1. N \in Nat \ {0} /\ buckets # << >> /\ \A k \in 1..N : buckets[k] \in BucketsOf(rows)
  <2>1. buckets \in Seq(BucketsOf(rows)) /\ N = Cardinality(BucketsOf(rows))
    BY OldestFirstIs
  <2>2. IsFiniteSet(BucketsOf(rows))
    BY TablesAre, FS_Subset DEF BucketsOf
  <2>3. Cardinality(BucketsOf(rows)) # 0
    BY <2>2, FS_EmptySet
  <2> HIDE DEF buckets
  <2> QED
    BY <2>1, <2>3
<1> HIDE DEF first
<1>3. Allocation(rows, n) = IF all.left > 0 THEN Append(all.plan, Decrement(all.last, all.left)) ELSE all.plan
  BY <1>1 DEF Allocation, first
<1> HIDE DEF buckets
<1>4. \E g : IsPlan(g, N)
  <2> DEFINE M == {m \in Nat : \E g : IsPlan(g, m)}
  <2>1. 0 \in M
    <3> DEFINE g == [k \in 0..0 |-> first]
    <3>1. IsPlan(g, 0)
      OBVIOUS
    <3> QED
      BY <3>1
  <2>2. ASSUME NEW m \in M PROVE m + 1 \in M
    <3>1. PICK g : IsPlan(g, m)
      OBVIOUS
    <3> DEFINE h == [k \in 0..(m + 1) |-> IF k = 0 THEN first ELSE Settle(rows, g[k - 1], buckets[k])]
    <3>2. m \in Nat
      OBVIOUS
    <3>3. \A k \in 0..m : g[k] = IF k = 0 THEN first ELSE Settle(rows, g[k - 1], buckets[k])
      BY <3>1
    <3>4. \A k \in 0..(m + 1) : h[k] = IF k = 0 THEN first ELSE Settle(rows, g[k - 1], buckets[k])
      OBVIOUS
    <3>5. \A k \in 0..m : h[k] = g[k]
      <4> HIDE DEF h, IsPlan
      <4> QED
        BY <3>2, <3>3, <3>4
    <3>6. \A k \in 0..(m + 1) : k # 0 => h[k - 1] = g[k - 1]
      <4>1. \A k \in 0..(m + 1) : k # 0 => k - 1 \in 0..m
        BY <3>2
      <4> HIDE DEF h, IsPlan
      <4> QED
        BY <3>5, <4>1
    <3>7. h = [k \in 0..(m + 1) |-> IF k = 0 THEN first ELSE Settle(rows, h[k - 1], buckets[k])]
      BY <3>6
    <3>8. IsPlan(h, m + 1)
      <4> HIDE DEF h
      <4> QED
        BY <3>7
    <3> HIDE DEF h, IsPlan
    <3> QED
      BY <3>8
  <2>3. M = Nat
    <3> M \in SUBSET Nat
      OBVIOUS
    <3> HIDE DEF M
    <3> QED
      BY <2>1, <2>2, NatIsInductive
  <2> QED
    BY <1>1, <2>3
<1>5. IsPlan(settled, N)
  BY <1>4
<1> HIDE DEF settled
<1>6. \A k \in 0..N : settled[k] = IF k = 0 THEN first ELSE Settle(rows, settled[k - 1], buckets[k])
  BY <1>5
<1> DEFINE turns == settled
<1>7. /\ turns[0] = first
      /\ \A k \in 1..N : turns[k] = Settle(rows, turns[k - 1], buckets[k])
  <2>1. 0 \in 0..N /\ \A k \in 1..N : k \in 0..N /\ k # 0
    BY <1>1
  <2> QED
    BY <1>6, <2>1
<1>8. InTurns(rows, n, turns)
  BY <1>3, <1>7 DEF InTurns, first, buckets
<1> HIDE DEF turns
<1> QED
  BY <1>1, <1>8 DEF buckets

\* A payment's plan takes from the buckets all that it pays.
LEMMA AllocationSettles ==
    ASSUME NEW rows \in Tables, BucketsOf(rows) # {}, NEW n \in Nat
    PROVE  /\ Allocation(rows, n) \in Seq(Steps(rows))
           /\ Settles("ledger", Allocation(rows, n), 0)
           /\ Settles("buckets", Allocation(rows, n), -n)
<1> DEFINE buckets == OldestFirst(rows)
           N == Len(buckets)
           first == [left |-> n, last |-> Last(buckets), plan |-> << >>]
<1>1. N \in Nat \ {0} /\ buckets # << >> /\ \A k \in 1..N : buckets[k] \in BucketsOf(rows)
  BY AllocationInTurns
<1>2. first \in Planned(rows, n)
  <2>1. Last(buckets) \in BucketsOf(rows)
    BY <1>1 DEF Last
  <2>2. Settles("ledger", << >>, 0) /\ Settles("buckets", << >>, n - n)
    BY SettlesNothing
  <2> QED
    BY <2>1, <2>2 DEF Planned
<1> HIDE DEF first
<1>3. PICK settled : InTurns(rows, n, settled)
  BY AllocationInTurns
<1> DEFINE all == settled[N]
<1>4. Allocation(rows, n) = IF all.left > 0 THEN Append(all.plan, Decrement(all.last, all.left)) ELSE all.plan
  BY <1>3 DEF InTurns
<1>5. settled[0] = first /\ \A k \in 1..N : settled[k] = Settle(rows, settled[k - 1], buckets[k])
  BY <1>3 DEF InTurns, first
<1> HIDE DEF buckets
<1>6. settled[N] \in Planned(rows, n)
  <2> DEFINE M == {m \in Nat : m <= N => settled[m] \in Planned(rows, n)}
  <2>1. 0 \in M
    BY <1>1, <1>2, <1>5
  <2>2. ASSUME NEW m \in M PROVE m + 1 \in M
    <3> SUFFICES ASSUME m + 1 <= N PROVE settled[m + 1] \in Planned(rows, n)
      OBVIOUS
    <3>1. m \in Nat /\ settled[m] \in Planned(rows, n) /\ m + 1 \in 1..N /\ (m + 1) - 1 = m
      BY <1>1
    <3>2. settled[m + 1] = Settle(rows, settled[m], buckets[m + 1])
      BY <1>5, <3>1
    <3> QED
      BY <1>1, <3>1, <3>2, SettleStays
  <2>3. M = Nat
    <3> M \in SUBSET Nat
      OBVIOUS
    <3> HIDE DEF M
    <3> QED
      BY <2>1, <2>2, NatIsInductive
  <2>4. N \in Nat /\ N <= N
    BY <1>1
  <2> QED
    BY <2>3, <2>4
<1>7. /\ all \in [left : Nat, last : BucketsOf(rows), plan : Seq(Steps(rows))]
      /\ Settles("ledger", all.plan, 0) /\ Settles("buckets", all.plan, all.left - n)
  BY <1>6 DEF Planned
<1> HIDE DEF all
<1>8. CASE all.left > 0
  <2>1. (all.left - n) - all.left = -n /\ all.left - n \in Int /\ all.left \in Int
    BY <1>7
  <2>2. /\ Append(all.plan, Decrement(all.last, all.left)) \in Seq(Steps(rows))
        /\ Settles("ledger", Append(all.plan, Decrement(all.last, all.left)), 0)
        /\ Settles("buckets", Append(all.plan, Decrement(all.last, all.left)),
                   (all.left - n) - all.left)
    BY <1>7, <2>1, PlanOneMore
  <2> QED
    BY <1>4, <1>8, <2>1, <2>2
<1>9. CASE ~(all.left > 0)
  <2>1. all.left - n = -n
    BY <1>7, <1>9
  <2> QED
    BY <1>4, <1>7, <1>9, <2>1
<1> QED
  BY <1>8, <1>9

\* A cancellation takes from the buckets what the balance is reduced by: each
\* component is handed back once, to a bucket there is.
LEMMA RefundsBalance ==
    ASSUME NEW rows \in Tables, NEW p \in IssuedIn(rows), NEW seen, seen \subseteq DOMAIN rows,
           NEW refund \in [seen -> Int]
    PROVE  Refunds(rows, p, seen, refund) \in Balanced(rows)
<1> DEFINE net       == SumFunctionOnSet(refund, seen)
           Target(i) == IF IsBucket(rows[i]) THEN {i} ELSE IssuanceRows(rows, p)
           moved     == IF Floored(net) THEN {} ELSE {i \in seen : refund[i] # 0 /\ Target(i) # {}}
           inOrder   == Arranged(moved, LAMBDA i, j : i < j)
           takes     == [k \in DOMAIN inOrder |->
                            Decrement(CHOOSE i \in Target(inOrder[k]) : TRUE, refund[inOrder[k]])]
           row       == Row("CANCELLED_POLICY", p, -Deduction(net), NoDue, FALSE)
           n         == Cardinality(moved)
           d         == Deduction(net)
<1>1. /\ p \in Policies /\ IssuanceRows(rows, p) # {}
      /\ \A i \in seen : Target(i) # {} /\ Target(i) \subseteq BucketsOf(rows)
  BY DEF IssuedIn, IssuanceRows, BucketsOf, IsBucket
<1>2. IsFiniteSet(seen) /\ seen \subseteq Nat
  BY TablesAre, FS_Subset
<1>3. net \in Int
  BY <1>2, SumType
<1>4. d \in Nat
  BY <1>3 DEF Deduction
<1>5. moved \subseteq seen /\ IsFiniteSet(moved) /\ n \in Nat
  <2>1. moved \subseteq seen
    OBVIOUS
  <2> HIDE DEF moved
  <2> QED
    BY <1>2, <2>1, FS_Subset, FS_CardinalityType
<1>6. SumFunctionOnSet(refund, moved) = d
  <2>1. CASE net < 0
    <3>1. moved = {} /\ d = 0
      BY <2>1 DEF Floored, Deduction
    <3> HIDE DEF moved, d
    <3> QED
      BY <3>1, SumEmpty
  <2>2. CASE ~(net < 0)
    <3>1. \A i \in seen \ moved : refund[i] = 0
      BY <1>1, <2>2 DEF Floored
    <3>2. d = net
      BY <2>2 DEF Deduction
    <3> HIDE DEF moved, d
    <3>3. SumFunctionOnSet(refund, seen) = SumFunctionOnSet(refund, moved)
      BY <1>2, <1>5, <3>1, SumSubset
    <3> QED
      BY <3>2, <3>3
  <2> QED
    BY <2>1, <2>2
<1>7. /\ inOrder \in [1..n -> moved]
      /\ \A k, l \in 1..n : inOrder[k] = inOrder[l] => k = l
      /\ \A i \in moved : \E k \in 1..n : inOrder[k] = i
  <2> DEFINE R == {q \in moved \X moved : q[1] < q[2]}
  <2>1. inOrder = [k \in 1..n |-> CHOOSE i \in moved : Cardinality({j \in moved : j < i}) = k - 1]
    BY DEF Arranged
  <2>2. n = Cardinality(moved)
    OBVIOUS
  <2> HIDE DEF moved, inOrder, n, takes
  <2>3. moved \subseteq Nat
    BY <1>2, <1>5
  <2>4. StrictOrder(R, moved)
    BY <2>3 DEF StrictOrder
  <2>5. \A i \in moved : Below(moved, R, i) = {j \in moved : j < i}
    BY DEF Below
  <2> HIDE DEF R
  <2>6. ASSUME NEW k \in 1..n
        PROVE  inOrder[k] \in moved /\ Cardinality(Below(moved, R, inOrder[k])) = k - 1
    <3>1. k - 1 \in 0..(Cardinality(moved) - 1)
      BY <1>5, <2>2
    <3>2. PICK i \in moved : Cardinality(Below(moved, R, i)) = k - 1
      BY <1>5, <2>4, <3>1, RankIsTaken
    <3>3. Cardinality({j \in moved : j < i}) = k - 1
      BY <2>5, <3>2
    <3>4. inOrder[k] = CHOOSE c \in moved : Cardinality({j \in moved : j < c}) = k - 1
      BY <2>1
    <3>5. inOrder[k] \in moved /\ Cardinality({j \in moved : j < inOrder[k]}) = k - 1
      BY <3>3, <3>4
    <3> QED
      BY <2>5, <3>5
  <2>7. inOrder \in [1..n -> moved]
    BY <2>1, <2>6
  <2>8. ListsInOrder(inOrder, moved, R)
    BY <2>2, <2>6, <2>7 DEF ListsInOrder
  <2> QED
    BY <1>5, <2>2, <2>4, <2>7, <2>8, ListedInOrder
<1>8. /\ takes \in Seq(Steps(rows)) /\ Len(takes) = n
      /\ \A k \in 1..n : /\ Due("buckets", takes[k]) = -refund[inOrder[k]]
                         /\ Due("ledger", takes[k]) = 0
  <2>1. DOMAIN inOrder = 1..n
    BY <1>7
  <2>2. ASSUME NEW k \in 1..n
        PROVE  LET x == Decrement(CHOOSE i \in Target(inOrder[k]) : TRUE, refund[inOrder[k]])
               IN  /\ x \in Steps(rows) /\ Due("buckets", x) = -refund[inOrder[k]]
                   /\ Due("ledger", x) = 0
    <3> DEFINE i == CHOOSE i \in Target(inOrder[k]) : TRUE
    <3>1. inOrder[k] \in seen /\ refund[inOrder[k]] \in Int
      <4>1. inOrder[k] \in moved
        BY <1>7
      <4> HIDE DEF inOrder, moved
      <4> QED
        BY <1>5, <4>1
    <3>2. i \in BucketsOf(rows)
      <4> HIDE DEF inOrder
      <4> QED
        BY <1>1, <3>1
    <3> HIDE DEF i, inOrder
    <3>3. Decrement(i, refund[inOrder[k]]) \in Steps(rows)
      BY <3>1, <3>2, StepsAre
    <3> QED
      BY <3>3, DuesAre DEF i
  <2> HIDE DEF inOrder, Target, n
  <2>3. \A k \in 1..n : takes[k] = Decrement(CHOOSE i \in Target(inOrder[k]) : TRUE, refund[inOrder[k]])
    BY <2>1
  <2>4. \A k \in 1..n : /\ takes[k] \in Steps(rows)
                         /\ Due("buckets", takes[k]) = -refund[inOrder[k]]
                         /\ Due("ledger", takes[k]) = 0
    BY <2>2, <2>3
  <2>5. DOMAIN takes = 1..n
    BY <2>1
  <2>6. takes \in [1..n -> Steps(rows)]
    BY <2>1, <2>4
  <2> HIDE DEF takes
  <2> QED
    BY <1>5, <2>4, <2>6, RankedIsSeq
<1> HIDE DEF takes, inOrder, moved, n
<1>9. Settles("buckets", takes, -d)
  <2>1. \A k \in 1..n : Due("buckets", takes[k]) = -refund[inOrder[k]]
    BY <1>8
  <2>2. refund \in [seen -> Int] /\ moved \subseteq seen
    BY <1>5
  <2> DEFINE f == [i \in moved |-> refund[i]]
  <2>3. f \in [moved -> Int] /\ \A i \in moved : f[i] = refund[i]
    BY <2>2
  <2> HIDE DEF f
  <2>4. \A k \in 1..n : Due("buckets", takes[k]) = -f[inOrder[k]]
    BY <1>7, <2>1, <2>3
  <2>5. Settles("buckets", takes, -SumFunctionOnSet(f, moved))
    BY <1>5, <1>7, <1>8, <2>3, <2>4, SettlesSet, ZenonT(60)
  <2>6. SumFunctionOnSet(f, moved) = SumFunctionOnSet(refund, moved)
    BY <1>5, <2>3, SumSame
  <2> HIDE DEF d
  <2> QED
    BY <1>6, <2>5, <2>6
<1>10. Settles("ledger", takes, 0)
  <2> DEFINE f == [i \in moved |-> 0]
  <2>1. f \in [moved -> Int] /\ \A i \in moved : f[i] = 0
    OBVIOUS
  <2> HIDE DEF f
  <2>2. \A k \in 1..n : Due("ledger", takes[k]) = -f[inOrder[k]]
    BY <1>7, <1>8, <2>1
  <2>3. Settles("ledger", takes, -SumFunctionOnSet(f, moved))
    BY <1>5, <1>7, <1>8, <2>1, <2>2, SettlesSet, ZenonT(60)
  <2>4. SumFunctionOnSet(f, moved) = SumFunctionOnSet(f, {})
    BY <1>5, <2>1, SumSubset
  <2> QED
    BY <2>3, <2>4, SumEmpty
<1>11. row \in Admitted /\ Stands("ledger", row) = -d /\ Stands("buckets", row) = 0
  BY <1>1, <1>4, RowsAre
<1> HIDE DEF row, d
<1>12. -d \in Int /\ d \in Int
  BY <1>4
<1>13. Insert(row) \in Steps(rows) /\ UpdateAgent(-d) \in Steps(rows)
  BY <1>11, <1>12, StepsAre
<1>14. /\ Due("ledger", Insert(row)) + Due("ledger", UpdateAgent(-d)) = 0
       /\ Due("buckets", Insert(row)) + Due("buckets", UpdateAgent(-d)) = d
  BY <1>11, <1>12, DuesAre
<1>15. /\ <<Insert(row)>> \in Seq(Steps(rows)) /\ <<UpdateAgent(-d)>> \in Seq(Steps(rows))
       /\ <<Insert(row), UpdateAgent(-d)>> \in Seq(Steps(rows))
       /\ <<Insert(row), UpdateAgent(-d)>> = <<Insert(row)>> \o <<UpdateAgent(-d)>>
  BY <1>13, TwoInARow
<1>16. ASSUME NEW book
       PROVE  Settles(book, <<Insert(row), UpdateAgent(-d)>>,
                      Due(book, Insert(row)) + Due(book, UpdateAgent(-d)))
  <2>1. Settles(book, <<Insert(row)>>, Due(book, Insert(row)))
        /\ Settles(book, <<UpdateAgent(-d)>>, Due(book, UpdateAgent(-d)))
    BY <1>13, StepDue, SettlesOne
  <2> QED
    BY <1>15, <2>1, StepDue, SettlesBoth
<1> DEFINE list == takes \o <<Insert(row), UpdateAgent(-d)>>
<1>17. Settles("ledger", <<Insert(row), UpdateAgent(-d)>>, 0)
       /\ Settles("buckets", <<Insert(row), UpdateAgent(-d)>>, d)
  BY <1>14, <1>16
<1>18. Settles("ledger", list, 0 + 0) /\ Settles("buckets", list, -d + d)
  BY <1>8, <1>9, <1>10, <1>15, <1>17, StepDue, SettlesBoth
<1>19. list \in Seq(Steps(rows)) /\ -d + d = 0 /\ 0 + 0 = 0
  BY <1>8, <1>12, <1>15
<1>20. Refunds(rows, p, seen, refund) = list
  BY DEF Refunds, row, d, takes, inOrder, moved
<1> HIDE DEF list
<1> QED
  BY <1>18, <1>19, <1>20 DEF Balanced, Books

-----------------------------------------------------------------------------
(* The inductive invariant.                                                  *)

Fields == DOMAIN Idle

SameRow(row, other) ==
    row.type = other.type /\ row.policy = other.policy /\ row.amount = other.amount

\* The rows a transaction has changed are the ones it found, with another
\* remaining amount, and it holds their locks.
Locked(x, rows) ==
    \A i \in DOMAIN x.writes \cap DOMAIN rows :
        SameRow(x.writes[i], rows[i]) /\ BucketRow(i) \in x.holds

\* What its writes have moved and its statements are still to move is, for each
\* book, what it owes the balance.
Pending(x, rows) ==
    \E steps \in Seq(Steps(rows)) :
        /\ x.todo = Append(steps, CommitTransaction)
        /\ \A book \in Books : Settles(book, steps, x.owes - Moved(book, x.writes, rows))

Sound(x, rows) ==
    /\ DOMAIN x = Fields
    /\ x.kind \in Kinds
    /\ x.writes \in Tables
    /\ x.owes \in Int
    /\ Locked(x, rows)
    /\ x.kind = "idle" => x = Idle
    /\ x.kind # "idle" => Pending(x, rows)

LedgerOK ==
    /\ ledger \in Tables
    /\ BucketsOf(ledger) # {}
    /\ payable \in Int
    /\ served \in 0..MaxRequests

\* No two transactions hold a lock, or have written a row, that is the same.
Apart(x, y) == x.holds \cap y.holds = {} /\ DOMAIN x.writes \cap DOMAIN y.writes = {}

Transactions ==
    /\ DOMAIN tx = Txs
    /\ \A t \in Txs : Sound(tx[t], ledger)
    /\ \A t, u \in Txs : t # u => Apart(tx[t], tx[u])

\* What the opening rows stood for that were bucket rows before there were
\* buckets.
OldDebt == SumOf(LAMBDA i : Opening[i].amount, Unopened)

BooksAgree ==
    /\ payable = Balance("ledger", ledger)
    /\ Balance("buckets", ledger) + OldDebt = payable

IInv == LedgerOK /\ Transactions /\ BooksAgree

-----------------------------------------------------------------------------
(* Records and lists.                                                        *)

\* The fields of a transaction.
LEMMA FieldsAre ==
    /\ Fields = {"kind", "policy", "todo", "writes", "owes", "holds"}
    /\ Idle.kind = "idle" /\ Idle.todo = << >> /\ Idle.writes = NoRows
    /\ Idle.owes = 0 /\ Idle.holds = {}
BY DEF Fields, Idle

\* The list a transaction executes, and what is put before it.
LEMMA ListEnds ==
    ASSUME NEW X, NEW steps \in Seq(X), NEW c
    PROVE  /\ Append(steps, c) # << >>
           /\ steps = << >> => Head(Append(steps, c)) = c
           /\ steps # << >> => /\ Head(Append(steps, c)) = Head(steps)
                               /\ Head(steps) \in X
                               /\ Tail(steps) \in Seq(X)
                               /\ Tail(Append(steps, c)) = Append(Tail(steps), c)
<1>1. Append(steps, c) # << >> /\ (steps = << >> => Head(Append(steps, c)) = c)
  OBVIOUS
<1>2. ASSUME steps # << >>
      PROVE  /\ Head(Append(steps, c)) = Head(steps) /\ Head(steps) \in X
             /\ Tail(steps) \in Seq(X)
             /\ Tail(Append(steps, c)) = Append(Tail(steps), c)
  BY <1>2
<1> QED
  BY <1>1, <1>2

\* A list put before one that ends in c ends in c.
LEMMA PutBefore ==
    ASSUME NEW X, NEW more \in Seq(X), NEW rest \in Seq(X), NEW c
    PROVE  more \o Append(rest, c) = Append(more \o rest, c)
OBVIOUS

\* No row is written to begin with.
LEMMA NothingMoved ==
    /\ NoRows \in Tables /\ DOMAIN NoRows = {}
    /\ \A book, rows : Moved(book, NoRows, rows) = 0
<1>1. DOMAIN NoRows = {} /\ NoRows \in [{} -> Admitted] /\ IsFiniteSet({})
  BY FS_EmptySet DEF NoRows
<1> QED
  BY <1>1, TablesAre, SumEmpty DEF Moved

\* What an idle transaction is.
LEMMA IdleSound ==
    ASSUME NEW rows
    PROVE  Sound(Idle, rows)
BY FieldsAre, NothingMoved DEF Sound, Locked, Kinds, Fields

\* Moves are integers.
LEMMA MovesType ==
    ASSUME NEW book, NEW writes \in Tables, NEW rows \in Tables
    PROVE  /\ \A i \in DOMAIN writes : Moves(book, writes, rows)[i] \in Int
           /\ Moves(book, writes, rows) \in [DOMAIN writes -> Int]
           /\ Moved(book, writes, rows) \in Int
<1>1. /\ \A i \in DOMAIN writes : Stands(book, writes[i]) \in Int
      /\ \A i \in DOMAIN rows : Stands(book, rows[i]) \in Int
      /\ IsFiniteSet(DOMAIN writes)
  BY TablesAre, StandsType DEF Admitted
<1>2. /\ \A i \in DOMAIN writes : Moves(book, writes, rows)[i] \in Int
      /\ Moves(book, writes, rows) \in [DOMAIN writes -> Int]
  BY <1>1 DEF Moves
<1> QED
  BY <1>1, <1>2, SumType DEF Moved

\* One row written more, or again.
LEMMA OneWritten ==
    ASSUME NEW writes \in Tables, NEW i \in Nat, NEW row \in Admitted
    PROVE  /\ Over(Only(i, row), writes) \in Tables
           /\ DOMAIN Over(Only(i, row), writes) = DOMAIN writes \cup {i}
           /\ Over(Only(i, row), writes)[i] = row
           /\ \A j \in DOMAIN writes \ {i} : Over(Only(i, row), writes)[j] = writes[j]
<1> DEFINE w == Over(Only(i, row), writes)
<1>1. DOMAIN Only(i, row) = {i} /\ Only(i, row)[i] = row
  BY DEF Only
<1>2. /\ w = [j \in {i} \cup DOMAIN writes |->
                 IF j \in {i} THEN Only(i, row)[j] ELSE writes[j]]
  BY <1>1 DEF Over
<1>3. /\ DOMAIN w = DOMAIN writes \cup {i} /\ w[i] = row
      /\ \A j \in DOMAIN writes \ {i} : w[j] = writes[j]
  BY <1>1, <1>2
<1>4. /\ DOMAIN writes \subseteq Nat /\ IsFiniteSet(DOMAIN writes)
      /\ \A j \in DOMAIN writes : writes[j] \in Admitted
  BY TablesAre
<1>5. IsFiniteSet(DOMAIN writes \cup {i}) /\ DOMAIN writes \cup {i} \subseteq Nat
  BY <1>4, FS_AddElement
<1>6. w \in [DOMAIN writes \cup {i} -> Admitted]
  BY <1>2, <1>3, <1>4
<1> HIDE DEF w
<1>7. w \in Tables
  BY <1>3, <1>5, <1>6, TablesAre
<1> QED
  BY <1>3, <1>7 DEF w

\* What that moves.
LEMMA OneMoves ==
    ASSUME NEW book, NEW writes \in Tables, NEW rows \in Tables, NEW i \in Nat,
           NEW row \in Admitted
    PROVE  Moved(book, Over(Only(i, row), writes), rows) =
               Moved(book, writes, rows) +
               (Stands(book, row) -
                  (IF i \in DOMAIN writes THEN Stands(book, writes[i])
                   ELSE IF i \in DOMAIN rows THEN Stands(book, rows[i]) ELSE 0))
<1> DEFINE w == Over(Only(i, row), writes)
           f == Moves(book, writes, rows)
           g == Moves(book, w, rows)
           base == IF i \in DOMAIN rows THEN Stands(book, rows[i]) ELSE 0
<1>1. /\ w \in Tables /\ DOMAIN w = DOMAIN writes \cup {i} /\ w[i] = row
      /\ \A j \in DOMAIN writes \ {i} : w[j] = writes[j]
  BY OneWritten, ZenonT(60)
<1> HIDE DEF w
<1>2. /\ \A j \in DOMAIN writes : f[j] \in Int
      /\ \A j \in DOMAIN w : g[j] \in Int
      /\ Moved(book, writes, rows) \in Int
  BY <1>1, MovesType
<1>3. /\ \A j \in DOMAIN writes \ {i} : g[j] = f[j]
      /\ g[i] = Stands(book, row) - base
      /\ i \in DOMAIN writes => f[i] = Stands(book, writes[i]) - base
  BY <1>1 DEF Moves
<1>4. base \in Int /\ Stands(book, row) \in Int
      /\ (i \in DOMAIN writes => Stands(book, writes[i]) \in Int)
  BY TablesAre, StandsType DEF Admitted
<1>5. IsFiniteSet(DOMAIN writes)
  BY TablesAre
<1> HIDE DEF f, g, base
<1>6. CASE i \in DOMAIN writes
  <2>1. DOMAIN w = DOMAIN writes
    BY <1>1, <1>6
  <2>2. SumFunctionOnSet(g, DOMAIN writes) = SumFunctionOnSet(f, DOMAIN writes) + (g[i] - f[i])
    BY <1>2, <1>3, <1>5, <1>6, <2>1, SumChange
  <2>3. Moved(book, w, rows) = Moved(book, writes, rows) + (g[i] - f[i])
    BY <2>1, <2>2 DEF Moved, f, g
  <2>4. g[i] - f[i] = Stands(book, row) - Stands(book, writes[i])
    BY <1>3, <1>4, <1>6
  <2> QED
    BY <1>6, <2>3, <2>4 DEF w
<1>7. CASE i \notin DOMAIN writes
  <2>1. /\ SumFunctionOnSet(g, DOMAIN writes \cup {i}) = g[i] + SumFunctionOnSet(g, DOMAIN writes)
    BY <1>1, <1>2, <1>5, <1>7, SumAdd
  <2>2. SumFunctionOnSet(g, DOMAIN writes) = SumFunctionOnSet(f, DOMAIN writes)
    BY <1>3, <1>5, <1>7, SumSame
  <2>3. Moved(book, w, rows) = g[i] + Moved(book, writes, rows)
    BY <1>1, <2>1, <2>2 DEF Moved, f, g
  <2>4. Moved(book, w, rows) = Moved(book, writes, rows) + (Stands(book, row) - base)
    BY <1>2, <1>3, <1>4, <2>3
  <2> QED
    BY <1>7, <2>4 DEF w, base
<1> QED
  BY <1>6, <1>7

\* The rows a transaction has written put over those there are.
LEMMA Written ==
    ASSUME NEW rows \in Tables, NEW writes \in Tables
    PROVE  /\ Over(writes, rows) \in Tables
           /\ DOMAIN Over(writes, rows) = DOMAIN rows \cup DOMAIN writes
           /\ \A i \in DOMAIN rows \cup DOMAIN writes :
                 Over(writes, rows)[i] = IF i \in DOMAIN writes THEN writes[i] ELSE rows[i]
           /\ \A book : Balance(book, Over(writes, rows)) =
                            Balance(book, rows) + Moved(book, writes, rows)
           /\ \A book : Balance(book, rows) \in Int
<1> DEFINE w == Over(writes, rows)
           S == DOMAIN rows
           T == DOMAIN writes
<1>1. DOMAIN w = S \cup T /\ \A i \in S \cup T : w[i] = IF i \in T THEN writes[i] ELSE rows[i]
  BY DEF Over
<1>2. /\ S \subseteq Nat /\ T \subseteq Nat /\ IsFiniteSet(S) /\ IsFiniteSet(T)
      /\ \A i \in S : rows[i] \in Admitted
      /\ \A i \in T : writes[i] \in Admitted
  BY TablesAre
<1>3. IsFiniteSet(S \cup T)
  BY <1>2, FS_Union
<1>4. w \in [S \cup T -> Admitted]
  BY <1>1, <1>2 DEF Over
<1>5. w \in Tables
  BY <1>1, <1>2, <1>3, <1>4, TablesAre
<1>6. ASSUME NEW book
      PROVE  /\ Balance(book, w) = Balance(book, rows) + Moved(book, writes, rows)
             /\ Balance(book, rows) \in Int
  <2> DEFINE f == [i \in S |-> Stands(book, rows[i])]
             g == [i \in T |-> Stands(book, writes[i])]
             h == [i \in S \cup T |-> Stands(book, w[i])]
             d == Moves(book, writes, rows)
  <2>1. /\ \A i \in S : Stands(book, rows[i]) \in Int
        /\ \A i \in T : Stands(book, writes[i]) \in Int
    BY <1>2, StandsType DEF Admitted
  <2>2. /\ \A i \in S : f[i] \in Int
        /\ \A i \in T : g[i] \in Int
    BY <2>1
  <2> HIDE DEF w
  <2>3. /\ \A i \in T : h[i] = g[i]
        /\ \A i \in S \ T : h[i] = f[i]
    BY <1>1
  <2>4. /\ \A i \in T \cap S : d[i] = g[i] - f[i]
        /\ \A i \in T \ S : d[i] = g[i]
    BY <2>1 DEF Moves
  <2>6. /\ Balance(book, w) = SumFunctionOnSet(h, S \cup T)
        /\ Balance(book, rows) = SumFunctionOnSet(f, S)
        /\ Moved(book, writes, rows) = SumFunctionOnSet(d, T)
    BY <1>1 DEF Balance, Moved
  <2> HIDE DEF f, g, h, d, S, T
  <2>7. SumFunctionOnSet(h, S \cup T) = SumFunctionOnSet(f, S) + SumFunctionOnSet(d, T)
    <3>1. IsFiniteSet(S) /\ IsFiniteSet(T)
      BY <1>2
    <3> QED
      BY <2>2, <2>3, <2>4, <3>1, SumOverlay
  <2>8. SumFunctionOnSet(f, S) \in Int
    BY <1>2, <2>2, SumType
  <2> QED
    BY <2>6, <2>7, <2>8
<1> QED
  BY <1>1, <1>5, <1>6

\* What a ledger comes to when a transaction's rows are put over its own: no
\* bucket goes, and no policy's issuance.
LEMMA LedgerGrows ==
    ASSUME NEW rows \in Tables, NEW writes \in Tables,
           \A i \in DOMAIN writes \cap DOMAIN rows : SameRow(writes[i], rows[i])
    PROVE  /\ BucketsOf(rows) \subseteq BucketsOf(Over(writes, rows))
           /\ IssuedIn(rows) \subseteq IssuedIn(Over(writes, rows))
           /\ Steps(rows) \subseteq Steps(Over(writes, rows))
<1> DEFINE w == Over(writes, rows)
<1>1. /\ DOMAIN w = DOMAIN rows \cup DOMAIN writes
      /\ \A i \in DOMAIN rows : w[i] = IF i \in DOMAIN writes THEN writes[i] ELSE rows[i]
  BY DEF Over
<1> HIDE DEF w
<1>2. \A i \in DOMAIN rows : SameRow(w[i], rows[i])
  BY <1>1 DEF SameRow
<1>3. BucketsOf(rows) \subseteq BucketsOf(w)
  BY <1>1, <1>2 DEF BucketsOf, IsBucket, SameRow
<1>4. \A p : IssuanceRows(rows, p) \subseteq IssuanceRows(w, p)
  BY <1>1, <1>2 DEF IssuanceRows, SameRow
<1>5. IssuedIn(rows) \subseteq IssuedIn(w)
  BY <1>4 DEF IssuedIn
<1>6. Statements(rows) \subseteq Statements(w)
  BY <1>3, <1>5 DEF Statements
<1> QED
  BY <1>3, <1>5, <1>6 DEF Steps, w

-----------------------------------------------------------------------------
(* A transaction's steps, and what they leave as it was.                     *)

\* The statement a transaction is at.
LEMMA AtStatement ==
    ASSUME NEW rows, NEW x, Sound(x, rows), x.kind # "idle"
    PROVE  /\ x.todo # << >> /\ Head(x.todo) \in Statements(rows)
           /\ Head(x.todo).do # "commit" => Head(x.todo) \in Steps(rows)
<1>1. PICK steps \in Seq(Steps(rows)) : x.todo = Append(steps, CommitTransaction)
  BY DEF Sound, Pending
<1>2. x.todo # << >> /\ (Head(x.todo) = CommitTransaction \/ Head(x.todo) \in Steps(rows))
  BY <1>1, ListEnds
<1>3. CommitTransaction.do = "commit" /\ CommitTransaction \in Statements(rows)
      /\ Steps(rows) \subseteq Statements(rows)
  BY DEF CommitTransaction, Statements, Steps
<1> QED
  BY <1>2, <1>3

\* It is sound after a statement whose effects make up for what was due.
LEMMA DoneSound ==
    ASSUME NEW rows \in Tables, NEW x, Sound(x, rows), x.kind # "idle",
           Head(x.todo).do # "commit",
           NEW more \in Seq(Steps(rows)), NEW d,
           \A book \in Books : Settles(book, more, d[book]),
           NEW y, DOMAIN y = Fields, y.kind = x.kind, y.todo = more \o Tail(x.todo),
           y.writes \in Tables, y.owes \in Int, Locked(y, rows),
           \A book \in Books :
               y.owes - Moved(book, y.writes, rows) =
                   d[book] + ((x.owes - Moved(book, x.writes, rows)) - Due(book, Head(x.todo)))
    PROVE  Sound(y, rows)
<1>1. PICK steps \in Seq(Steps(rows)) :
          /\ x.todo = Append(steps, CommitTransaction)
          /\ \A book \in Books : Settles(book, steps, x.owes - Moved(book, x.writes, rows))
  BY DEF Sound, Pending
<1>2. steps # << >>
  BY <1>1, ListEnds DEF CommitTransaction
<1>3. /\ Head(x.todo) = Head(steps) /\ Head(steps) \in Steps(rows)
      /\ Tail(steps) \in Seq(Steps(rows))
      /\ y.todo = Append(more \o Tail(steps), CommitTransaction)
  <2>0. /\ Head(Append(steps, CommitTransaction)) = Head(steps)
        /\ Head(steps) \in Steps(rows) /\ Tail(steps) \in Seq(Steps(rows))
        /\ Tail(Append(steps, CommitTransaction)) = Append(Tail(steps), CommitTransaction)
    BY <1>2, ListEnds
  <2>1. more \o Append(Tail(steps), CommitTransaction) = Append(more \o Tail(steps), CommitTransaction)
    BY <2>0, PutBefore
  <2>2. x.todo = Append(steps, CommitTransaction)
    BY <1>1
  <2> QED
    BY <2>0, <2>1, <2>2
<1>4. ASSUME NEW book \in Books
      PROVE  Settles(book, more \o Tail(steps), y.owes - Moved(book, y.writes, rows))
  <2>1. Settles(book, steps, x.owes - Moved(book, x.writes, rows)) /\ Due(book, Head(steps)) \in Int
    BY <1>1, <1>3, StepDue
  <2>2. Settles(book, Tail(steps),
                (x.owes - Moved(book, x.writes, rows)) - Due(book, Head(steps)))
    BY <1>2, <2>1, SettlesRest
  <2>3. Settles(book, more, d[book])
    OBVIOUS
  <2>4. Settles(book, more \o Tail(steps),
                d[book] + ((x.owes - Moved(book, x.writes, rows)) - Due(book, Head(steps))))
    BY <1>3, <2>2, <2>3, StepDue, SettlesBoth
  <2> QED
    BY <1>3, <2>4
<1>5. more \o Tail(steps) \in Seq(Steps(rows))
  BY <1>3
<1>6. Pending(y, rows)
  BY <1>3, <1>4, <1>5 DEF Pending
<1> QED
  BY <1>6 DEF Sound

\* It is sound when it begins with a list that is balanced.
LEMMA BeginSound ==
    ASSUME NEW rows, NEW statements \in Balanced(rows), NEW y, DOMAIN y = Fields,
           y.kind \in Kinds \ {"idle"}, y.todo = Append(statements, CommitTransaction),
           y.writes = NoRows, y.owes = 0
    PROVE  Sound(y, rows)
<1>1. \A book \in Books : Settles(book, statements, y.owes - Moved(book, y.writes, rows))
  BY NothingMoved DEF Balanced
<1>2. Pending(y, rows)
  BY <1>1 DEF Pending, Balanced
<1> QED
  BY <1>2, NothingMoved DEF Sound, Locked

\* It stays sound when another commits, whose rows are not the ones it wrote.
LEMMA CommitKeepsSound ==
    ASSUME NEW rows \in Tables, NEW writes \in Tables,
           \A i \in DOMAIN writes \cap DOMAIN rows : SameRow(writes[i], rows[i]),
           NEW x, Sound(x, rows), DOMAIN x.writes \cap DOMAIN writes = {}
    PROVE  Sound(x, Over(writes, rows))
<1> DEFINE all == Over(writes, rows)
<1>1. /\ DOMAIN all = DOMAIN rows \cup DOMAIN writes
      /\ \A i \in DOMAIN x.writes : /\ i \in DOMAIN all <=> i \in DOMAIN rows
                                    /\ i \in DOMAIN rows => all[i] = rows[i]
  BY DEF Over
<1> HIDE DEF all
<1>2. \A book : Moved(book, x.writes, all) = Moved(book, x.writes, rows)
  <2>1. \A book : Moves(book, x.writes, all) = Moves(book, x.writes, rows)
    BY <1>1 DEF Moves
  <2> QED
    BY <2>1 DEF Moved
<1>3. Locked(x, all)
  BY <1>1 DEF Sound, Locked
<1>4. Steps(rows) \subseteq Steps(all)
  BY LedgerGrows DEF all
<1>5. ASSUME x.kind # "idle" PROVE Pending(x, all)
  <2>1. PICK steps \in Seq(Steps(rows)) :
            /\ x.todo = Append(steps, CommitTransaction)
            /\ \A book \in Books : Settles(book, steps, x.owes - Moved(book, x.writes, rows))
    BY <1>5 DEF Sound, Pending
  <2>2. steps \in Seq(Steps(all))
    BY <1>4
  <2> QED
    BY <1>2, <2>1, <2>2 DEF Pending
<1> QED
  BY <1>3, <1>5 DEF Sound, all

\* What one transaction becomes leaves the invariant, when the rest stays.
LEMMA OneStep ==
    ASSUME IInv, NEW t \in Txs, NEW y, Sound(y, ledger),
           \A u \in Txs \ {t} : Apart(y, tx[u]),
           tx' = [tx EXCEPT ![t] = y], ledger' = ledger, payable' = payable,
           served' \in 0..MaxRequests
    PROVE  IInv'
<1>1. DOMAIN tx' = Txs /\ tx'[t] = y /\ \A u \in Txs \ {t} : tx'[u] = tx[u]
  BY DEF IInv, Transactions
<1>2. LedgerOK'
  BY DEF IInv, LedgerOK
<1>3. \A u \in Txs : Sound(tx'[u], ledger')
  BY <1>1 DEF IInv, Transactions
<1>4. \A u, w \in Txs : u # w => Apart(tx'[u], tx'[w])
  BY <1>1 DEF IInv, Transactions, Apart
<1>5. BooksAgree'
  BY DEF IInv, BooksAgree
<1> QED
  BY <1>1, <1>2, <1>3, <1>4, <1>5 DEF IInv, Transactions

\* An id that no row has, committed or not.
LEMMA NewIdIsNew ==
    ASSUME IInv
    PROVE  /\ NewId \in Nat /\ NewId \notin DOMAIN ledger
           /\ \A t \in Txs : NewId \notin DOMAIN tx[t].writes
<1> DEFINE f == [t \in Txs |-> DOMAIN tx[t].writes]
           S == {0} \cup DOMAIN ledger \cup UNION {f[t] : t \in Txs}
<1>1. \A t \in Txs : f[t] \subseteq Nat /\ IsFiniteSet(f[t]) /\ f[t] = DOMAIN tx[t].writes
  BY TablesAre DEF IInv, Transactions, Sound
<1>2. DOMAIN ledger \subseteq Nat /\ IsFiniteSet(DOMAIN ledger)
  BY TablesAre DEF IInv, LedgerOK
<1>3. {f[t] : t \in Txs} = {DOMAIN tx[t].writes : t \in Txs}
  BY <1>1
<1> HIDE DEF f
<1>4. IsFiniteSet(UNION {f[t] : t \in Txs})
  BY <1>1, FiniteUnion, LedgerAssumption
<1>5. UNION {f[t] : t \in Txs} \subseteq Nat
  BY <1>1
<1>6. IsFiniteSet(S) /\ S \subseteq Nat /\ S # {}
  <2>1. IsFiniteSet({0})
    BY FS_Singleton
  <2>2. IsFiniteSet({0} \cup DOMAIN ledger)
    BY <1>2, <2>1, FS_Union
  <2>3. IsFiniteSet(({0} \cup DOMAIN ledger) \cup UNION {f[t] : t \in Txs})
    BY <1>4, <2>2, FS_Union
  <2> QED
    BY <1>2, <1>5, <2>3
<1>7. S \in SUBSET Int
  BY <1>6
<1>8. NewId = 1 + Max(S)
  BY <1>3 DEF NewId
<1>9. /\ DOMAIN ledger \subseteq S
      /\ \A t \in Txs : DOMAIN tx[t].writes \subseteq S
  BY <1>1
<1> HIDE DEF S
<1>10. Max(S) \in S /\ \A i \in S : i <= Max(S)
  BY <1>6, <1>7, MaxOfFinite
<1>11. NewId \in Nat /\ NewId \notin S
  <2>1. Max(S) \in Nat
    BY <1>6, <1>10
  <2>2. 1 + Max(S) \in Nat /\ 1 + Max(S) \notin S
    BY <1>10, <2>1
  <2> QED
    BY <1>8, <2>2
<1> QED
  BY <1>9, <1>11

\* A statement of t that has its locks leaves the invariant, if its effects make
\* up for what was due.
LEMMA StatementDone ==
    ASSUME IInv, NEW t \in Txs, Running(t), Statement(t).do # "commit",
           MayLock(t, Statement(t).locks),
           NEW more \in Seq(Steps(ledger)), NEW d,
           \A book \in Books : Settles(book, more, d[book]),
           NEW y, DOMAIN y = Fields, y.kind = tx[t].kind, y.todo = more \o Tail(tx[t].todo),
           y.writes \in Tables, y.owes \in Int,
           y.holds = tx[t].holds \cup Statement(t).locks,
           Locked(y, ledger),
           \A u \in Txs \ {t} : DOMAIN y.writes \cap DOMAIN tx[u].writes = {},
           \A book \in Books :
               y.owes - Moved(book, y.writes, ledger) =
                   d[book] + ((tx[t].owes - Moved(book, tx[t].writes, ledger))
                              - Due(book, Statement(t))),
           tx' = [tx EXCEPT ![t] = y], ledger' = ledger, payable' = payable, served' = served
    PROVE  IInv'
<1>1. /\ ledger \in Tables /\ Sound(tx[t], ledger) /\ served \in 0..MaxRequests
      /\ \A u \in Txs \ {t} : Apart(tx[t], tx[u])
  BY DEF IInv, LedgerOK, Transactions
<1>2. Sound(y, ledger)
  BY <1>1, DoneSound DEF Running, Statement
<1>3. \A u \in Txs \ {t} : Apart(y, tx[u])
  BY <1>1 DEF Apart, MayLock
<1> QED
  BY <1>1, <1>2, <1>3, OneStep

-----------------------------------------------------------------------------
(* The steps, one by one.                                                    *)

\* What the invariant says of the transaction that takes a step.
LEMMA OfTransaction ==
    ASSUME IInv, NEW t \in Txs
    PROVE  /\ ledger \in Tables /\ served \in 0..MaxRequests
           /\ Sound(tx[t], ledger) /\ DOMAIN tx[t] = Fields
           /\ tx[t].writes \in Tables /\ tx[t].owes \in Int /\ Locked(tx[t], ledger)
           /\ \A book : Moved(book, tx[t].writes, ledger) \in Int
           /\ \A u \in Txs \ {t} : Apart(tx[t], tx[u])
           /\ Running(t) => Statement(t) \in Statements(ledger)
BY MovesType, AtStatement DEF IInv, LedgerOK, Transactions, Sound, Running, Statement

\* Nothing more to do, nothing more due.
LEMMA NoMore ==
    ASSUME NEW rows
    PROVE  /\ << >> \in Seq(Steps(rows))
           /\ \A book \in Books : Settles(book, << >>, [b \in Books |-> 0][book])
BY SettlesNothing

\* A new row moves each book by what it stands for, and no lock is needed: no
\* other transaction has its id.
LEMMA InsertRowKeeps == ASSUME IInv, NEW t \in Txs, InsertRow(t) PROVE IInv'
<1> DEFINE x == tx[t]
           s == Statement(t)
           w == Over(Only(NewId, s.row), x.writes)
           y == [[x EXCEPT !.writes = w] EXCEPT !.todo = << >> \o Tail(x.todo),
                                                !.holds = x.holds \cup s.locks]
           d == [book \in Books |-> 0]
<1>1. /\ Running(t) /\ s.do = "insert" /\ MayLock(t, s.locks)
      /\ tx' = [tx EXCEPT ![t] = y]
      /\ ledger' = ledger /\ payable' = payable /\ served' = served
  BY DEF InsertRow, About, Done, DoneThen
<1>2. /\ ledger \in Tables /\ DOMAIN x = Fields /\ x.writes \in Tables /\ x.owes \in Int
      /\ Locked(x, ledger) /\ \A book : Moved(book, x.writes, ledger) \in Int
      /\ \A u \in Txs \ {t} : Apart(x, tx[u])
      /\ s \in Statements(ledger)
  BY <1>1, OfTransaction
<1>3. s = Insert(s.row) /\ s.row \in Admitted
  BY <1>1, <1>2, StatementFields
<1>4. /\ DOMAIN y = Fields /\ y.kind = x.kind /\ y.todo = << >> \o Tail(x.todo)
      /\ y.writes = w /\ y.owes = x.owes /\ y.holds = x.holds \cup s.locks
  BY <1>2, FieldsAre
<1>5. /\ NewId \in Nat /\ NewId \notin DOMAIN ledger
      /\ \A u \in Txs : NewId \notin DOMAIN tx[u].writes
  BY NewIdIsNew
<1>6. /\ w \in Tables /\ DOMAIN w = DOMAIN x.writes \cup {NewId}
      /\ \A i \in DOMAIN x.writes : w[i] = x.writes[i]
  <2>1. x.writes \in Tables /\ NewId \in Nat /\ s.row \in Admitted /\ NewId \notin DOMAIN x.writes
    BY <1>2, <1>3, <1>5
  <2>2. /\ w \in Tables /\ DOMAIN w = DOMAIN x.writes \cup {NewId}
        /\ \A i \in DOMAIN x.writes \ {NewId} : w[i] = x.writes[i]
    BY <2>1, OneWritten
  <2> QED
    BY <2>1, <2>2
<1>7. \A book : Moved(book, w, ledger) = Moved(book, x.writes, ledger) + (Stands(book, s.row) - 0)
  BY <1>2, <1>3, <1>5, OneMoves
<1>8. \A book : Due(book, s) = Stands(book, s.row) /\ Stands(book, s.row) \in Int
  BY <1>3, DuesAre, StandsType DEF Admitted
<1> HIDE DEF w, y
<1>9. Locked(y, ledger)
  BY <1>2, <1>4, <1>5, <1>6 DEF Locked
<1>10. \A u \in Txs \ {t} : DOMAIN y.writes \cap DOMAIN tx[u].writes = {}
  BY <1>2, <1>4, <1>5, <1>6 DEF Apart
<1>11. \A book \in Books :
           y.owes - Moved(book, y.writes, ledger) =
               d[book] + ((x.owes - Moved(book, x.writes, ledger)) - Due(book, s))
  <2> SUFFICES ASSUME NEW book \in Books
               PROVE  y.owes - Moved(book, y.writes, ledger) =
                          d[book] + ((x.owes - Moved(book, x.writes, ledger)) - Due(book, s))
    OBVIOUS
  <2> DEFINE m == Moved(book, x.writes, ledger)
             n == Stands(book, s.row)
  <2>1. m \in Int /\ n \in Int /\ x.owes \in Int
    BY <1>2, <1>8
  <2>2. Moved(book, y.writes, ledger) = m + (n - 0) /\ Due(book, s) = n /\ d[book] = 0
        /\ y.owes = x.owes
    BY <1>4, <1>7, <1>8
  <2> HIDE DEF m, n, d
  <2> QED
    BY <2>1, <2>2 DEF m
<1> QED
  BY <1>1, <1>2, <1>4, <1>6, <1>9, <1>10, <1>11, NoMore, StatementDone

\* The balance is owed what the statement adds to it.
LEMMA IncrementPayableKeeps == ASSUME IInv, NEW t \in Txs, IncrementPayable(t) PROVE IInv'
<1> DEFINE x == tx[t]
           s == Statement(t)
           y == [[x EXCEPT !.owes = x.owes + s.by] EXCEPT !.todo = << >> \o Tail(x.todo),
                                                          !.holds = x.holds \cup s.locks]
           d == [book \in Books |-> 0]
<1>1. /\ Running(t) /\ s.do = "agent" /\ MayLock(t, s.locks)
      /\ tx' = [tx EXCEPT ![t] = y]
      /\ ledger' = ledger /\ payable' = payable /\ served' = served
  BY DEF IncrementPayable, About, Done, DoneThen
<1>2. /\ ledger \in Tables /\ DOMAIN x = Fields /\ x.writes \in Tables /\ x.owes \in Int
      /\ Locked(x, ledger) /\ \A book : Moved(book, x.writes, ledger) \in Int
      /\ \A u \in Txs \ {t} : Apart(x, tx[u])
      /\ s \in Statements(ledger)
  BY <1>1, OfTransaction
<1>3. s = UpdateAgent(s.by) /\ s.by \in Int
  BY <1>1, <1>2, StatementFields
<1>4. /\ DOMAIN y = Fields /\ y.kind = x.kind /\ y.todo = << >> \o Tail(x.todo)
      /\ y.writes = x.writes /\ y.owes = x.owes + s.by /\ y.holds = x.holds \cup s.locks
  BY <1>2, FieldsAre
<1>5. \A book : Due(book, s) = -s.by
  BY <1>3, DuesAre
<1> HIDE DEF y
<1>6. Locked(y, ledger) /\ y.owes \in Int
  BY <1>2, <1>3, <1>4 DEF Locked
<1>7. \A u \in Txs \ {t} : DOMAIN y.writes \cap DOMAIN tx[u].writes = {}
  BY <1>2, <1>4 DEF Apart
<1>8. \A book \in Books :
          y.owes - Moved(book, y.writes, ledger) =
              d[book] + ((x.owes - Moved(book, x.writes, ledger)) - Due(book, s))
  <2> SUFFICES ASSUME NEW book \in Books
               PROVE  y.owes - Moved(book, y.writes, ledger) =
                          d[book] + ((x.owes - Moved(book, x.writes, ledger)) - Due(book, s))
    OBVIOUS
  <2> DEFINE m == Moved(book, x.writes, ledger)
  <2>1. m \in Int /\ s.by \in Int /\ x.owes \in Int /\ y.owes = x.owes + s.by
    BY <1>2, <1>3, <1>4
  <2>2. Moved(book, y.writes, ledger) = m /\ Due(book, s) = -s.by /\ d[book] = 0
    BY <1>4, <1>5
  <2> HIDE DEF m, d
  <2> QED
    BY <2>1, <2>2 DEF m
<1> QED
  BY <1>1, <1>2, <1>4, <1>6, <1>7, <1>8, NoMore, StatementDone

\* A lock on the policy moves nothing.
LEMMA LockPolicyKeeps == ASSUME IInv, NEW t \in Txs, LockPolicy(t) PROVE IInv'
<1> DEFINE x == tx[t]
           s == Statement(t)
           y == [x EXCEPT !.todo = << >> \o Tail(x.todo), !.holds = x.holds \cup s.locks]
           d == [book \in Books |-> 0]
<1>1. /\ Running(t) /\ s.do = "policy" /\ MayLock(t, s.locks)
      /\ tx' = [tx EXCEPT ![t] = y]
      /\ ledger' = ledger /\ payable' = payable /\ served' = served
  BY DEF LockPolicy, About, Done, DoneThen
<1>2. /\ ledger \in Tables /\ DOMAIN x = Fields /\ x.writes \in Tables /\ x.owes \in Int
      /\ Locked(x, ledger) /\ \A book : Moved(book, x.writes, ledger) \in Int
      /\ \A u \in Txs \ {t} : Apart(x, tx[u])
  BY <1>1, OfTransaction
<1>3. \A book : Due(book, s) = 0
  BY <1>1 DEF Due, Decrements
<1>4. /\ DOMAIN y = Fields /\ y.kind = x.kind /\ y.todo = << >> \o Tail(x.todo)
      /\ y.writes = x.writes /\ y.owes = x.owes /\ y.holds = x.holds \cup s.locks
  BY <1>2, FieldsAre
<1> HIDE DEF y
<1>5. Locked(y, ledger) /\ y.owes \in Int
  BY <1>2, <1>4 DEF Locked
<1>6. \A u \in Txs \ {t} : DOMAIN y.writes \cap DOMAIN tx[u].writes = {}
  BY <1>2, <1>4 DEF Apart
<1>7. \A book \in Books :
          y.owes - Moved(book, y.writes, ledger) =
              d[book] + ((x.owes - Moved(book, x.writes, ledger)) - Due(book, s))
  BY <1>2, <1>3, <1>4
<1> QED
  BY <1>1, <1>2, <1>4, <1>5, <1>6, <1>7, NoMore, StatementDone

\* A bucket row that n is added to.
LEMMA RowChanges ==
    ASSUME NEW row \in Admitted, IsBucket(row), NEW n \in Int, NEW new,
           new = [row EXCEPT !.opened = TRUE, !.remaining = @ + n]
    PROVE  /\ new \in Admitted /\ SameRow(new, row)
           /\ Stands("ledger", new) = Stands("ledger", row)
           /\ Stands("buckets", new) = Stands("buckets", row) + n
           /\ Stands("ledger", row) \in Int /\ Stands("buckets", row) \in Int
<1>1. row \in LedgerRow /\ SignOK(row)
  BY DEF Admitted
<1>2. /\ new \in LedgerRow /\ new.type = row.type /\ new.policy = row.policy
      /\ new.amount = row.amount /\ new.remaining = row.remaining + n
  <2>1. /\ row.type \in {"ISSUANCE", "ENDORSEMENT", "CANCELLED_POLICY", "PAYMENT"}
        /\ row.policy \in Policies \cup {NoPolicy} /\ row.amount \in Int
        /\ row.due \in Nat \cup {NoDue} /\ row.remaining + n \in Int
    BY <1>1 DEF LedgerRow
  <2>2. new = [type |-> row.type, policy |-> row.policy, amount |-> row.amount,
               due |-> row.due, opened |-> TRUE, remaining |-> row.remaining + n]
    BY <1>1 DEF LedgerRow
  <2> QED
    BY <2>1, <2>2 DEF LedgerRow
<1>3. IsBucket(new) /\ SignOK(new) /\ SameRow(new, row)
  BY <1>1, <1>2 DEF IsBucket, SignOK, SameRow
<1> QED
  BY <1>1, <1>2, <1>3, StandsType DEF Admitted, Stands

\* What a transaction sees of a bucket.
LEMMA SeenIs ==
    ASSUME IInv, NEW t \in Txs, NEW i \in BucketsOf(ledger)
    PROVE  /\ i \in DOMAIN ledger /\ i \in Nat
           /\ Seen(t, i) \in Admitted /\ IsBucket(Seen(t, i)) /\ SameRow(Seen(t, i), ledger[i])
<1>1. /\ ledger \in Tables /\ tx[t].writes \in Tables /\ Locked(tx[t], ledger)
  BY OfTransaction
<1>2. i \in DOMAIN ledger /\ i \in Nat /\ IsBucket(ledger[i]) /\ ledger[i] \in Admitted
  BY <1>1, TablesAre DEF BucketsOf
<1>3. CASE i \in DOMAIN tx[t].writes
  <2>1. Seen(t, i) = tx[t].writes[i] /\ Seen(t, i) \in Admitted
    BY <1>1, <1>3, TablesAre DEF Seen
  <2>2. SameRow(Seen(t, i), ledger[i])
    BY <1>1, <1>2, <1>3, <2>1 DEF Locked
  <2> QED
    BY <1>2, <2>1, <2>2 DEF SameRow, IsBucket
<1>4. CASE i \notin DOMAIN tx[t].writes
  BY <1>2, <1>4 DEF Seen, SameRow
<1> QED
  BY <1>3, <1>4

\* A decrement moves the buckets by its amount, from what the transaction sees of
\* the row to what it writes, and holds the lock of the row from then on.
LEMMA ApplyDecrementKeeps ==
    ASSUME IInv, NEW t \in Txs, Running(t), Statement(t).do \in Decrements,
           ApplyDecrement(t), UNCHANGED <<ledger, payable, served>>
    PROVE  IInv'
<1> DEFINE x == tx[t]
           s == Statement(t)
           i == s.row
           row == [Seen(t, i) EXCEPT !.opened = TRUE, !.remaining = @ + (-s.by)]
           w == Over(Only(i, row), x.writes)
           y == [[x EXCEPT !.writes = w] EXCEPT !.todo = << >> \o Tail(x.todo),
                                                !.holds = x.holds \cup s.locks]
           d == [book \in Books |-> 0]
<1>1. /\ Running(t) /\ s.do \in Decrements /\ s.do # "commit" /\ MayLock(t, s.locks)
      /\ tx' = [tx EXCEPT ![t] = y]
      /\ ledger' = ledger /\ payable' = payable /\ served' = served
  BY DEF ApplyDecrement, Done, DoneThen, Changed, Decrements
<1>2. /\ ledger \in Tables /\ DOMAIN x = Fields /\ x.writes \in Tables /\ x.owes \in Int
      /\ Locked(x, ledger) /\ \A book : Moved(book, x.writes, ledger) \in Int
      /\ \A u \in Txs \ {t} : Apart(x, tx[u])
      /\ s \in Statements(ledger)
  BY <1>1, OfTransaction
<1>3. i \in BucketsOf(ledger) /\ s.by \in Int /\ s.locks = {BucketRow(i)} /\ -s.by \in Int
  BY <1>1, <1>2, StatementFields
<1>4. /\ i \in DOMAIN ledger /\ i \in Nat
      /\ Seen(t, i) \in Admitted /\ IsBucket(Seen(t, i)) /\ SameRow(Seen(t, i), ledger[i])
  BY <1>3, SeenIs
<1>5. /\ row \in Admitted /\ SameRow(row, Seen(t, i))
      /\ Stands("ledger", row) = Stands("ledger", Seen(t, i))
      /\ Stands("buckets", row) = Stands("buckets", Seen(t, i)) + (-s.by)
      /\ Stands("ledger", Seen(t, i)) \in Int /\ Stands("buckets", Seen(t, i)) \in Int
  BY <1>3, <1>4, RowChanges
<1>6. /\ DOMAIN y = Fields /\ y.kind = x.kind /\ y.todo = << >> \o Tail(x.todo)
      /\ y.writes = w /\ y.owes = x.owes /\ y.holds = x.holds \cup s.locks
  BY <1>2, FieldsAre
<1> HIDE DEF row, y
<1>7. /\ w \in Tables /\ DOMAIN w = DOMAIN x.writes \cup {i} /\ w[i] = row
      /\ \A j \in DOMAIN x.writes \ {i} : w[j] = x.writes[j]
  <2>1. x.writes \in Tables /\ i \in Nat /\ row \in Admitted
    BY <1>2, <1>4, <1>5
  <2> HIDE DEF i
  <2> QED
    BY <2>1, OneWritten
<1>8. \A book : Moved(book, w, ledger) =
                    Moved(book, x.writes, ledger) + (Stands(book, row) - Stands(book, Seen(t, i)))
  BY <1>2, <1>4, <1>5, OneMoves DEF Seen
<1>9. Due("ledger", s) = 0 /\ Due("buckets", s) = -s.by
  BY <1>1 DEF Due, Decrements
<1> HIDE DEF w
<1>10. Locked(y, ledger)
  <2>1. SameRow(row, ledger[i])
    BY <1>4, <1>5 DEF SameRow
  <2> QED
    BY <1>2, <1>3, <1>6, <1>7, <2>1 DEF Locked
<1>11. \A u \in Txs \ {t} : DOMAIN y.writes \cap DOMAIN tx[u].writes = {}
  <2> SUFFICES ASSUME NEW u \in Txs \ {t} PROVE i \notin DOMAIN tx[u].writes
    BY <1>2, <1>6, <1>7 DEF Apart
  <2>1. BucketRow(i) \notin tx[u].holds
    BY <1>1, <1>3 DEF MayLock
  <2>2. Locked(tx[u], ledger)
    BY OfTransaction
  <2> QED
    BY <1>4, <2>1, <2>2 DEF Locked
<1>12. \A book \in Books :
           y.owes - Moved(book, y.writes, ledger) =
               d[book] + ((x.owes - Moved(book, x.writes, ledger)) - Due(book, s))
  <2> SUFFICES ASSUME NEW book \in Books
               PROVE  y.owes - Moved(book, y.writes, ledger) =
                          d[book] + ((x.owes - Moved(book, x.writes, ledger)) - Due(book, s))
    OBVIOUS
  <2> DEFINE m == Moved(book, x.writes, ledger)
             n == Stands(book, row)
             o == Stands(book, Seen(t, i))
             v == Due(book, s)
  <2>1. m \in Int /\ o \in Int /\ n \in Int /\ v \in Int /\ x.owes \in Int /\ n = o + v
    BY <1>2, <1>3, <1>5, <1>9 DEF Books
  <2>2. Moved(book, y.writes, ledger) = m + (n - o) /\ d[book] = 0 /\ y.owes = x.owes
    BY <1>6, <1>8
  <2> HIDE DEF m, n, o, d, v
  <2> QED
    BY <2>1, <2>2 DEF m, v
<1>13. y.writes \in Tables /\ y.owes \in Int
  BY <1>2, <1>6, <1>7
<1>14. /\ << >> \in Seq(Steps(ledger))
       /\ \A book \in Books : Settles(book, << >>, d[book])
  BY NoMore
<1> HIDE DEF i, d
<1> QED
  BY <1>1, <1>6, <1>10, <1>11, <1>12, <1>13, <1>14, StatementDone

\* The same decrement in another form.
LEMMA OtherForm ==
    ASSUME NEW a, NEW b, NEW i, NEW n
    PROVE  [DecrementAs(a, i, n) EXCEPT !.do = b] = DecrementAs(b, i, n)
BY DEF DecrementAs

\* A list is a function of its positions.
LEMMA SeqIsFunction ==
    ASSUME NEW Y, NEW list \in Seq(Y), NEW n, Len(list) = n
    PROVE  list \in [1..n -> Y]
OBVIOUS

\* An element put at the end of a list.
LEMMA AppendIs ==
    ASSUME NEW Y, NEW list \in Seq(Y), NEW c \in Y
    PROVE  /\ Append(list, c) \in [1..(Len(list) + 1) -> Y]
           /\ \A k \in 1..Len(list) : Append(list, c)[k] = list[k]
           /\ Append(list, c)[Len(list) + 1] = c
<1>1. Append(list, c) \in Seq(Y) /\ Len(Append(list, c)) = Len(list) + 1
  OBVIOUS
<1>2. Append(list, c) \in [1..(Len(list) + 1) -> Y]
  BY <1>1, SeqIsFunction
<1>3. Append(list, c)[Len(list) + 1] = c
  OBVIOUS
<1> QED
  BY <1>2, <1>3

\* The first of a list and an end to it replaced.
LEMMA FirstReplaced ==
    ASSUME NEW X, NEW list \in Seq(X), list # << >>, NEW x \in X, NEW c
    PROVE  /\ [list EXCEPT ![1] = x] \in Seq(X)
           /\ Len([list EXCEPT ![1] = x]) = Len(list)
           /\ \A k \in 1..Len(list) : [list EXCEPT ![1] = x][k] = IF k = 1 THEN x ELSE list[k]
           /\ [Append(list, c) EXCEPT ![1] = x] = Append([list EXCEPT ![1] = x], c)
<1> DEFINE n == Len(list)
           one == [list EXCEPT ![1] = x]
           all == [Append(list, c) EXCEPT ![1] = x]
<1>1. n \in Nat \ {0}
  OBVIOUS
<1>2. /\ one \in Seq(X) /\ Len(one) = n
      /\ \A k \in 1..n : one[k] = IF k = 1 THEN x ELSE list[k]
  BY <1>1
<1>3. /\ Append(list, c) \in [1..(n + 1) -> X \cup {c}]
      /\ \A k \in 1..(n + 1) : Append(list, c)[k] = IF k = n + 1 THEN c ELSE list[k]
  <2>1. list \in Seq(X \cup {c}) /\ c \in X \cup {c}
    OBVIOUS
  <2>2. /\ Append(list, c) \in [1..(n + 1) -> X \cup {c}]
        /\ \A k \in 1..n : Append(list, c)[k] = list[k]
        /\ Append(list, c)[n + 1] = c
    BY <2>1, AppendIs
  <2>3. \A k \in 1..(n + 1) : k = n + 1 \/ k \in 1..n
    BY <1>1
  <2> QED
    BY <1>1, <2>2, <2>3
<1>4. /\ all \in [1..(n + 1) -> X \cup {c}]
      /\ \A k \in 1..(n + 1) : all[k] = IF k = 1 THEN x ELSE IF k = n + 1 THEN c ELSE list[k]
  BY <1>1, <1>3
<1> HIDE DEF one, all
<1>5. /\ Append(one, c) \in [1..(n + 1) -> X \cup {c}]
      /\ \A k \in 1..(n + 1) : Append(one, c)[k] = IF k = n + 1 THEN c ELSE one[k]
  <2>1. one \in Seq(X \cup {c}) /\ c \in X \cup {c}
    BY <1>2
  <2>2. /\ Append(one, c) \in [1..(n + 1) -> X \cup {c}]
        /\ \A k \in 1..n : Append(one, c)[k] = one[k]
        /\ Append(one, c)[n + 1] = c
    BY <1>2, <2>1, AppendIs
  <2>3. \A k \in 1..(n + 1) : k = n + 1 \/ k \in 1..n
    BY <1>1
  <2> QED
    BY <1>1, <2>2, <2>3
<1>6. \A k \in 1..(n + 1) : all[k] = Append(one, c)[k]
  <2> SUFFICES ASSUME NEW k \in 1..(n + 1) PROVE all[k] = Append(one, c)[k]
    OBVIOUS
  <2>1. k = n + 1 \/ k \in 1..n
    BY <1>1
  <2> QED
    BY <1>1, <1>2, <1>4, <1>5, <2>1
<1>7. all = Append(one, c)
  BY <1>4, <1>5, <1>6
<1> QED
  BY <1>2, <1>7 DEF one, all

\* Another form of the decrement, of the same bucket and by as much, is tried
\* next.
LEMMA BecomesKeeps ==
    ASSUME IInv, NEW t \in Txs, Running(t), Statement(t).do \in Decrements,
           NEW do \in Decrements, Becomes(t, do), UNCHANGED <<ledger, payable, served>>
    PROVE  IInv'
<1> DEFINE x == tx[t]
           s == Statement(t)
           new == DecrementAs(do, s.row, s.by)
           list == [x.todo EXCEPT ![1] = new]
           y == [x EXCEPT !.todo = list]
<1>1. /\ ledger \in Tables /\ DOMAIN x = Fields /\ Sound(x, ledger) /\ s \in Statements(ledger)
      /\ \A u \in Txs \ {t} : Apart(x, tx[u])
      /\ served \in 0..MaxRequests
  BY OfTransaction
<1>2. /\ s = DecrementAs(s.do, s.row, s.by) /\ s.row \in BucketsOf(ledger) /\ s.by \in Int
  BY <1>1, StatementFields
<1>3. PICK steps \in Seq(Steps(ledger)) :
          /\ x.todo = Append(steps, CommitTransaction)
          /\ \A book \in Books : Settles(book, steps, x.owes - Moved(book, x.writes, ledger))
  BY <1>1 DEF Sound, Pending, Running
<1>4. steps # << >> /\ s = steps[1] /\ s = x.todo[1]
  <2>1. steps # << >>
    BY <1>2, <1>3, ListEnds DEF Statement, CommitTransaction, DecrementAs, Decrements
  <2>2. Head(Append(steps, CommitTransaction)) = Head(steps)
    BY <2>1, ListEnds
  <2>3. Head(steps) = steps[1] /\ Head(x.todo) = x.todo[1]
    BY <1>3, <2>1
  <2> QED
    BY <1>3, <2>1, <2>2, <2>3 DEF Statement
<1>5. [s EXCEPT !.do = do] = new
  BY <1>2, OtherForm
<1>6. tx' = [tx EXCEPT ![t] = y]
  BY <1>4, <1>5 DEF Becomes
<1>7. new \in Steps(ledger) /\ \A book : Due(book, new) = Due(book, s)
  <2>1. new \in Statements(ledger)
    BY <1>2 DEF Statements
  <2>2. new # CommitTransaction /\ \A book : Due(book, new) = Due(book, s)
    BY <1>2 DEF DecrementAs, CommitTransaction, Due, Decrements
  <2> QED
    BY <2>1, <2>2 DEF Steps
<1>8. /\ DOMAIN y = Fields /\ y.kind = x.kind /\ y.todo = list
      /\ y.writes = x.writes /\ y.owes = x.owes /\ y.holds = x.holds
  BY <1>1, FieldsAre
<1> DEFINE more == [steps EXCEPT ![1] = new]
<1> HIDE DEF new
<1>9. list = Append(more, CommitTransaction) /\ more \in Seq(Steps(ledger))
      /\ Len(more) = Len(steps) /\ \A k \in 1..Len(steps) : more[k] = IF k = 1 THEN new ELSE steps[k]
  BY <1>3, <1>4, <1>7, FirstReplaced
<1> HIDE DEF y, list, more
<1>10. ASSUME NEW book \in Books
       PROVE  Settles(book, more, y.owes - Moved(book, y.writes, ledger))
  <2>1. \A k \in 1..Len(steps) : Due(book, more[k]) = Due(book, steps[k])
    BY <1>4, <1>7, <1>9
  <2>2. Settles(book, steps, x.owes - Moved(book, x.writes, ledger))
    BY <1>3
  <2>3. Settles(book, more, x.owes - Moved(book, x.writes, ledger))
    BY <1>9, <2>1, <2>2, SettlesSame
  <2> QED
    BY <1>8, <2>3
<1>11. Pending(y, ledger)
  BY <1>8, <1>9, <1>10 DEF Pending
<1>12. Sound(y, ledger)
  BY <1>1, <1>8, <1>11 DEF Sound, Locked, Running
<1>13. \A u \in Txs \ {t} : Apart(y, tx[u])
  BY <1>1, <1>8 DEF Apart
<1> QED
  BY <1>1, <1>6, <1>12, <1>13, OneStep

\* Each of the three statements of decrementBucket applies it, or leaves it to the
\* next.
LEMMA DecrementKeeps ==
    ASSUME IInv, NEW t \in Txs,
           DecrementBucket(t) \/ DecrementNullBucket(t) \/ DecrementBucketAgain(t)
    PROVE  IInv'
<1>1. /\ Running(t) /\ Statement(t).do \in Decrements
      /\ UNCHANGED <<ledger, payable, served>>
      /\ ApplyDecrement(t) \/ \E do \in Decrements : Becomes(t, do)
  BY DEF DecrementBucket, DecrementNullBucket, DecrementBucketAgain, About, Retry, Decrements
<1> QED
  BY <1>1, ApplyDecrementKeeps, BecomesKeeps

\* What a payment has read tells it what to take from each bucket.
LEMMA AllocatePaymentKeeps == ASSUME IInv, NEW t \in Txs, AllocatePayment(t) PROVE IInv'
<1> DEFINE x == tx[t]
           s == Statement(t)
           more == Allocation(ledger, s.by)
           y == [x EXCEPT !.todo = more \o Tail(x.todo), !.holds = x.holds \cup s.locks]
           d == [book \in Books |-> IF book = "buckets" THEN -s.by ELSE 0]
<1>1. /\ Running(t) /\ s.do = "allocate" /\ s.do # "commit" /\ MayLock(t, s.locks)
      /\ tx' = [tx EXCEPT ![t] = y]
      /\ ledger' = ledger /\ payable' = payable /\ served' = served
  BY DEF AllocatePayment, About, Done, DoneThen
<1>2. /\ ledger \in Tables /\ DOMAIN x = Fields /\ x.writes \in Tables /\ x.owes \in Int
      /\ Locked(x, ledger) /\ \A book : Moved(book, x.writes, ledger) \in Int
      /\ \A u \in Txs \ {t} : Apart(x, tx[u])
      /\ s \in Statements(ledger) /\ BucketsOf(ledger) # {}
  BY <1>1, OfTransaction DEF IInv, LedgerOK
<1>3. s = Allocate(s.by) /\ s.by \in Nat
  BY <1>1, <1>2, StatementFields
<1>4. /\ more \in Seq(Steps(ledger))
      /\ \A book \in Books : Settles(book, more, d[book])
  BY <1>2, <1>3, AllocationSettles DEF Books
<1>5. \A book \in Books : Due(book, s) = d[book] /\ d[book] \in Int
  BY <1>3, DuesAre DEF Books
<1>6. /\ DOMAIN y = Fields /\ y.kind = x.kind /\ y.todo = more \o Tail(x.todo)
      /\ y.writes = x.writes /\ y.owes = x.owes /\ y.holds = x.holds \cup s.locks
  BY <1>2, FieldsAre
<1> HIDE DEF y, d, more
<1>7. Locked(y, ledger) /\ y.owes \in Int /\ y.writes \in Tables
  BY <1>2, <1>6 DEF Locked
<1>8. \A u \in Txs \ {t} : DOMAIN y.writes \cap DOMAIN tx[u].writes = {}
  BY <1>2, <1>6 DEF Apart
<1>9. \A book \in Books :
          y.owes - Moved(book, y.writes, ledger) =
              d[book] + ((x.owes - Moved(book, x.writes, ledger)) - Due(book, s))
  BY <1>2, <1>5, <1>6
<1> QED
  BY <1>1, <1>4, <1>6, <1>7, <1>8, <1>9, StatementDone

\* A statement that moves nothing.
LEMMA BalancedOne ==
    ASSUME NEW rows, NEW x \in Steps(rows), \A book : Due(book, x) = 0
    PROVE  <<x>> \in Balanced(rows)
<1>1. ASSUME NEW book \in Books PROVE Settles(book, <<x>>, 0)
  <2>1. Due(book, x) = 0
    OBVIOUS
  <2>2. Settles(book, <<x>>, Due(book, x))
    BY <2>1, SettlesOne
  <2> QED
    BY <2>1, <2>2
<1>2. <<x>> \in Seq(Steps(rows))
  OBVIOUS
<1> QED
  BY <1>1, <1>2 DEF Balanced

\* A cancellation hands back what it has read, whatever part of it.
LEMMA ComputeRefundsKeeps == ASSUME IInv, NEW t \in Txs, ComputeRefunds(t) PROVE IInv'
<1> DEFINE x == tx[t]
           s == Statement(t)
           p == s.policy
           seen == {i \in DOMAIN ledger : /\ ledger[i].policy = p
                                          /\ ledger[i].type \in {"ISSUANCE", "ENDORSEMENT"}}
           Part(n) == IF n >= 0 THEN 0..n ELSE n..0
           d == [book \in Books |-> 0]
<1>1. /\ Running(t) /\ s.do = "components" /\ s.do # "commit"
      /\ ReadRefunds(t, p, <<UpdatePolicy(p)>>)
      /\ ledger' = ledger /\ payable' = payable /\ served' = served
  BY DEF ComputeRefunds, About
<1>2. PICK refund \in [seen -> UNION {Part(ledger[i].amount) : i \in seen}] :
          /\ \A i \in seen : refund[i] \in Part(ledger[i].amount)
          /\ DoneThen(t, x, <<UpdatePolicy(p)>> \o Refunds(ledger, p, seen, refund))
  BY <1>1 DEF ReadRefunds
<1> DEFINE more == <<UpdatePolicy(p)>> \o Refunds(ledger, p, seen, refund)
           y == [x EXCEPT !.todo = more \o Tail(x.todo), !.holds = x.holds \cup s.locks]
<1>3. MayLock(t, s.locks) /\ tx' = [tx EXCEPT ![t] = y]
  BY <1>2 DEF DoneThen
<1>4. /\ ledger \in Tables /\ DOMAIN x = Fields /\ x.writes \in Tables /\ x.owes \in Int
      /\ Locked(x, ledger) /\ \A book : Moved(book, x.writes, ledger) \in Int
      /\ \A u \in Txs \ {t} : Apart(x, tx[u])
      /\ s \in Statements(ledger)
  BY <1>1, OfTransaction
<1>5. s = ReadComponents(p) /\ p \in IssuedIn(ledger) /\ p \in Policies
  BY <1>1, <1>4, StatementFields DEF IssuedIn
<1>6. refund \in [seen -> Int]
  <2>1. \A i \in DOMAIN ledger : ledger[i].amount \in Int
    BY <1>4, TablesAre DEF Admitted, LedgerRow
  <2>2. \A i \in seen : refund[i] \in Int
    BY <1>2, <2>1
  <2> QED
    BY <1>2, <2>2
<1>7. more \in Balanced(ledger)
  <2>1. seen \subseteq DOMAIN ledger
    OBVIOUS
  <2> HIDE DEF seen, p
  <2>2. Refunds(ledger, p, seen, refund) \in Balanced(ledger)
    BY <1>4, <1>5, <1>6, <2>1, RefundsBalance
  <2>3. UpdatePolicy(p) \in Steps(ledger)
    BY <1>5, StepsAre
  <2>5. <<UpdatePolicy(p)>> \in Balanced(ledger)
    BY <2>3, DuesAre, BalancedOne
  <2> QED
    BY <2>2, <2>5, BalancedBoth
<1> HIDE DEF more
<1>8. /\ more \in Seq(Steps(ledger))
      /\ \A book \in Books : Settles(book, more, d[book])
  BY <1>7 DEF Balanced
<1>9. \A book \in Books : Due(book, s) = 0 /\ d[book] = 0
  BY <1>5, DuesAre
<1>10. /\ DOMAIN y = Fields /\ y.kind = x.kind /\ y.todo = more \o Tail(x.todo)
       /\ y.writes = x.writes /\ y.owes = x.owes /\ y.holds = x.holds \cup s.locks
  BY <1>4, FieldsAre
<1> HIDE DEF y, d, seen, p
<1>11. Locked(y, ledger) /\ y.owes \in Int /\ y.writes \in Tables
  BY <1>4, <1>10 DEF Locked
<1>12. \A u \in Txs \ {t} : DOMAIN y.writes \cap DOMAIN tx[u].writes = {}
  BY <1>4, <1>10 DEF Apart
<1>13. \A book \in Books :
           y.owes - Moved(book, y.writes, ledger) =
               d[book] + ((x.owes - Moved(book, x.writes, ledger)) - Due(book, s))
  BY <1>4, <1>9, <1>10
<1> QED
  BY <1>1, <1>3, <1>8, <1>10, <1>11, <1>12, <1>13, StatementDone

\* A list with nothing in it settles nothing.
LEMMA NothingSettled ==
    ASSUME NEW book, NEW v, Settles(book, << >>, v)
    PROVE  v = 0
<1>1. Len(<< >>) = 0
  OBVIOUS
<1>2. PICK rest : rest[Len(<< >>) + 1] = 0 /\ rest[1] = v
  BY DEF Settles
<1> QED
  BY <1>1, <1>2

\* The ledger to start from is one.
LEMMA OpeningIs == Opening \in Tables
<1>1. Len(Opening) \in Nat /\ DOMAIN Opening = 1..Len(Opening)
      /\ \A i \in 1..Len(Opening) : Opening[i] \in LedgerRow
  BY OpeningAssumption
<1>2. \A i \in 1..Len(Opening) : Opening[i] \in Admitted
  BY <1>1, OpeningAssumption DEF Admitted
<1>3. Opening \in [1..Len(Opening) -> LedgerRow]
  BY OpeningAssumption, SeqIsFunction
<1>4. Opening \in [1..Len(Opening) -> Admitted]
  BY <1>2, <1>3
<1>5. IsFiniteSet(1..Len(Opening)) /\ 1..Len(Opening) \subseteq Nat
  BY <1>1, FS_Interval
<1> QED
  BY <1>1, <1>4, <1>5, TablesAre

\* What the opening rows stood for before there were buckets is an integer.
LEMMA OldDebtType == OldDebt \in Int
<1> DEFINE f == [i \in Unopened |-> Opening[i].amount]
<1>1. Unopened \subseteq DOMAIN Opening
  BY DEF Unopened
<1>2. IsFiniteSet(Unopened)
  BY <1>1, OpeningIs, TablesAre, FS_Subset
<1>3. \A i \in Unopened : f[i] \in Int
  BY <1>1, OpeningIs, TablesAre DEF Admitted, LedgerRow
<1>4. OldDebt = SumFunctionOnSet(f, Unopened)
  BY DEF OldDebt, SumOf
<1> HIDE DEF f
<1> QED
  BY <1>2, <1>3, <1>4, SumType

\* A transaction that commits has moved each book by what it owes.
LEMMA CommitKeeps == ASSUME IInv, NEW t \in Txs, Commit(t) PROVE IInv'
<1> DEFINE x == tx[t]
           s == Statement(t)
           all == Over(x.writes, ledger)
<1>1. /\ Running(t) /\ s.do = "commit"
      /\ tx' = [tx EXCEPT ![t] = Idle] /\ ledger' = all /\ payable' = payable + x.owes
      /\ served' = served
  BY DEF Commit, About
<1>2. /\ ledger \in Tables /\ x.writes \in Tables /\ x.owes \in Int
      /\ Locked(x, ledger) /\ Sound(x, ledger) /\ served \in 0..MaxRequests
      /\ \A u \in Txs \ {t} : Apart(x, tx[u])
      /\ BucketsOf(ledger) # {} /\ payable \in Int
      /\ \A book : Moved(book, x.writes, ledger) \in Int
  BY OfTransaction DEF IInv, LedgerOK
<1>3. \A i \in DOMAIN x.writes \cap DOMAIN ledger : SameRow(x.writes[i], ledger[i])
  BY <1>2 DEF Locked
<1>4. \A book \in Books : Moved(book, x.writes, ledger) = x.owes
  <2>1. PICK steps \in Seq(Steps(ledger)) :
            /\ x.todo = Append(steps, CommitTransaction)
            /\ \A book \in Books : Settles(book, steps, x.owes - Moved(book, x.writes, ledger))
    BY <1>1, <1>2 DEF Sound, Pending, Running
  <2>2. steps = << >>
    <3>1. ASSUME steps # << >> PROVE FALSE
      <4>1. s = Head(steps) /\ Head(steps) \in Steps(ledger)
        BY <2>1, <3>1, ListEnds DEF Statement
      <4>2. s \in Statements(ledger) /\ s # CommitTransaction
        BY <4>1 DEF Steps
      <4> QED
        BY <1>1, <4>2, StatementFields
    <3> QED
      BY <3>1
  <2>3. \A book \in Books : x.owes - Moved(book, x.writes, ledger) = 0
    BY <2>1, <2>2, NothingSettled
  <2> QED
    BY <1>2, <2>3
<1>5. /\ all \in Tables
      /\ \A book : /\ Balance(book, all) = Balance(book, ledger) + Moved(book, x.writes, ledger)
                   /\ Balance(book, ledger) \in Int
  BY <1>2, Written
<1>6. BucketsOf(all) # {}
  BY <1>2, <1>3, LedgerGrows
<1>7. LedgerOK'
  BY <1>1, <1>2, <1>5, <1>6 DEF LedgerOK
<1>8. /\ DOMAIN tx' = Txs /\ tx'[t] = Idle /\ \A u \in Txs \ {t} : tx'[u] = tx[u]
  BY <1>1 DEF IInv, Transactions
<1>9. ASSUME NEW u \in Txs PROVE Sound(tx'[u], ledger')
  <2>1. CASE u = t
    BY <1>8, <2>1, IdleSound
  <2>2. CASE u # t
    <3>1. Sound(tx[u], ledger) /\ DOMAIN tx[u].writes \cap DOMAIN x.writes = {}
      BY <1>2, <2>2, OfTransaction DEF Apart
    <3>2. Sound(tx[u], all)
      BY <1>2, <1>3, <3>1, CommitKeepsSound
    <3> QED
      BY <1>1, <1>8, <2>2, <3>2
  <2> QED
    BY <2>1, <2>2
<1>10. \A u, w \in Txs : u # w => Apart(tx'[u], tx'[w])
  <2>1. Idle.holds = {} /\ DOMAIN Idle.writes = {}
    BY FieldsAre, NothingMoved
  <2> QED
    BY <1>8, <2>1 DEF IInv, Transactions, Apart
<1>11. BooksAgree'
  <2>1. /\ Balance("ledger", all) = Balance("ledger", ledger) + x.owes
        /\ Balance("buckets", all) = Balance("buckets", ledger) + x.owes
    BY <1>4, <1>5 DEF Books
  <2>2. /\ payable = Balance("ledger", ledger) /\ Balance("buckets", ledger) + OldDebt = payable
        /\ Balance("ledger", ledger) \in Int /\ Balance("buckets", ledger) \in Int
    BY <1>5 DEF IInv, BooksAgree
  <2> HIDE DEF all
  <2>3. /\ payable + x.owes = Balance("ledger", all)
        /\ Balance("buckets", all) + OldDebt = payable + x.owes
    BY <1>2, <2>1, <2>2, OldDebtType
  <2> QED
    BY <1>1, <2>3 DEF BooksAgree
<1> QED
  BY <1>7, <1>8, <1>9, <1>10, <1>11 DEF IInv, Transactions

\* A transaction that fails, or is aborted to break a deadlock, leaves nothing.
LEMMA RollbackKeeps ==
    ASSUME IInv, NEW t \in Txs, Fail(t) \/ BreakDeadlock(t)
    PROVE  IInv'
<1>1. /\ tx' = [tx EXCEPT ![t] = Idle] /\ ledger' = ledger /\ payable' = payable
      /\ served' = served
  BY DEF Fail, BreakDeadlock
<1>2. Sound(Idle, ledger) /\ served' \in 0..MaxRequests
  BY <1>1, IdleSound, OfTransaction
<1>3. \A u \in Txs \ {t} : Apart(Idle, tx[u])
  BY FieldsAre, NothingMoved DEF Apart
<1> QED
  BY <1>1, <1>2, <1>3, OneStep

\* A request begins a transaction that is balanced.
LEMMA BeginKeeps ==
    ASSUME IInv, NEW t \in Txs, NEW kind \in Kinds \ {"idle"}, NEW p,
           NEW statements \in Balanced(ledger), Begin(t, kind, p, statements)
    PROVE  IInv'
<1> DEFINE y == [Idle EXCEPT !.kind = kind, !.policy = p,
                             !.todo = Append(statements, CommitTransaction)]
<1>1. /\ tx' = [tx EXCEPT ![t] = y] /\ ledger' = ledger /\ payable' = payable
      /\ served < MaxRequests /\ served' = served + 1
  BY DEF Begin
<1>2. served' \in 0..MaxRequests
  BY <1>1, LedgerAssumption DEF IInv, LedgerOK
<1>3. /\ DOMAIN y = Fields /\ y.kind = kind /\ y.todo = Append(statements, CommitTransaction)
      /\ y.writes = NoRows /\ y.owes = 0 /\ y.holds = {}
  BY FieldsAre DEF Fields
<1> HIDE DEF y
<1>4. Sound(y, ledger)
  BY <1>3, BeginSound
<1>5. \A u \in Txs \ {t} : Apart(y, tx[u])
  BY <1>3, NothingMoved DEF Apart
<1> QED
  BY <1>1, <1>2, <1>4, <1>5, OneStep

\* Whatever is asked for, the list that will carry it out is balanced.
LEMMA RequestKeeps == ASSUME IInv, NEW t \in Txs, Request(t) PROVE IInv'
<1>1. ASSUME NEW p \in Policies, NEW n \in Amounts, NEW due \in DueDates, IssuePolicy(t, p, n, due)
      PROVE  IInv'
  <2>1. Issuance(p, n, due) \in Balanced(ledger)
    BY LedgerAssumption, RequestsBalance
  <2> QED
    BY <1>1, <2>1, BeginKeeps DEF IssuePolicy, Kinds
<1>2. ASSUME NEW n \in Amounts, RecordPayment(t, n)
      PROVE  IInv'
  <2>1. Payment(n) \in Balanced(ledger)
    BY LedgerAssumption, RequestsBalance
  <2> QED
    BY <1>2, <2>1, BeginKeeps DEF RecordPayment, Kinds
<1>3. ASSUME NEW p \in Policies, NEW kinds \in LineLists, NEW due \in DueDates,
             NEW amounts \in [DOMAIN kinds -> Amounts],
             ApproveCorrection(t, p, [k \in DOMAIN kinds |->
                 [kind |-> kinds[k], amount |-> amounts[k], due |-> due]])
      PROVE  IInv'
  <2> DEFINE lines == [k \in DOMAIN kinds |->
                          [kind |-> kinds[k], amount |-> amounts[k], due |-> due]]
  <2>1. p \in IssuedIn(ledger) /\ Begin(t, "correction", p, Correction(ledger, p, lines))
    BY <1>3 DEF ApproveCorrection, Endorsable, IssuedIn
  <2>2. DOMAIN lines = DOMAIN kinds
        /\ \A k \in DOMAIN lines : lines[k].amount \in Nat /\ lines[k].due \in Nat
    BY LedgerAssumption
  <2> HIDE DEF lines
  <2>3. Correction(ledger, p, lines) \in Balanced(ledger)
    BY <2>1, <2>2, CorrectionBalances
  <2> QED
    BY <2>1, <2>3, BeginKeeps DEF Kinds
<1>4. ASSUME NEW p \in Policies, ApproveCancellation(t, p)
      PROVE  IInv'
  <2>1. p \in IssuedIn(ledger) /\ Begin(t, "cancellation", p, <<ReadComponents(p)>>)
    BY <1>4 DEF ApproveCancellation, Endorsable, IssuedIn
  <2>2. ReadComponents(p) \in Steps(ledger)
    BY <2>1, StepsAre
  <2>4. <<ReadComponents(p)>> \in Balanced(ledger)
    BY <2>2, DuesAre, BalancedOne
  <2> QED
    BY <2>1, <2>4, BeginKeeps DEF Kinds
<1> QED
  BY <1>1, <1>2, <1>3, <1>4 DEF Request

-----------------------------------------------------------------------------
(* The balances agree.                                                       *)

\* The books are the sums the properties are about.
LEMMA BooksAre ==
    ASSUME NEW rows \in Tables
    PROVE  Owed(rows) = Balance("ledger", rows) /\ BucketTotal(rows) = Balance("buckets", rows)
<1> DEFINE f == [i \in DOMAIN rows |-> rows[i].amount]
           g == [i \in BucketsOf(rows) |-> rows[i].remaining]
           F == [i \in DOMAIN rows |-> Stands("ledger", rows[i])]
           G == [i \in DOMAIN rows |-> Stands("buckets", rows[i])]
<1>1. /\ Owed(rows) = SumFunctionOnSet(f, DOMAIN rows)
      /\ BucketTotal(rows) = SumFunctionOnSet(g, BucketsOf(rows))
  BY DEF Owed, BucketTotal, SumOf
<1>2. /\ Balance("ledger", rows) = SumFunctionOnSet(F, DOMAIN rows)
      /\ Balance("buckets", rows) = SumFunctionOnSet(G, DOMAIN rows)
  BY DEF Balance
<1>3. /\ IsFiniteSet(DOMAIN rows) /\ \A i \in DOMAIN rows : rows[i] \in LedgerRow
  BY TablesAre DEF Admitted
<1>4. BucketsOf(rows) \subseteq DOMAIN rows
  BY DEF BucketsOf
<1>5. IsFiniteSet(BucketsOf(rows))
  BY <1>3, <1>4, FS_Subset
<1>6. \A i \in DOMAIN rows : f[i] = F[i]
  BY DEF Stands
<1>7. /\ \A i \in BucketsOf(rows) : g[i] = G[i]
      /\ \A i \in DOMAIN rows \ BucketsOf(rows) : G[i] = 0
      /\ \A i \in DOMAIN rows : G[i] \in Int
  BY <1>3, StandsType DEF BucketsOf, Stands
<1> HIDE DEF f, g, F, G
<1>8. SumFunctionOnSet(f, DOMAIN rows) = SumFunctionOnSet(F, DOMAIN rows)
  BY <1>3, <1>6, SumSame
<1>9. SumFunctionOnSet(g, BucketsOf(rows)) = SumFunctionOnSet(G, BucketsOf(rows))
  BY <1>5, <1>7, SumSame
<1>10. SumFunctionOnSet(G, DOMAIN rows) = SumFunctionOnSet(G, BucketsOf(rows))
  BY <1>3, <1>4, <1>7, SumSubset
<1> QED
  BY <1>1, <1>2, <1>8, <1>9, <1>10

\* The ledger to start from balances, and nothing runs.
LEMMA InitBalances == ASSUME Init PROVE IInv
<1>1. /\ ledger = Opening /\ payable = Owed(Opening) /\ tx = [t \in Txs |-> Idle] /\ served = 0
  BY DEF Init, Owed
<1>2. Owed(Opening) = Balance("ledger", Opening) /\ BucketTotal(Opening) = Balance("buckets", Opening)
  BY OpeningIs, BooksAre
<1>3. BucketsOf(Opening) # {} /\ BucketTotal(Opening) + OldDebt = Owed(Opening)
  BY OpeningAssumption DEF OldDebt
<1>4. Balance("ledger", Opening) \in Int
  BY OpeningIs, Written
<1>5. LedgerOK
  BY <1>1, <1>2, <1>3, <1>4, OpeningIs, LedgerAssumption DEF LedgerOK
<1>6. BooksAgree
  BY <1>1, <1>2, <1>3 DEF BooksAgree
<1>7. Transactions
  <2>1. DOMAIN tx = Txs /\ \A t \in Txs : tx[t] = Idle
    BY <1>1
  <2>2. Apart(Idle, Idle)
    BY FieldsAre, NothingMoved DEF Apart
  <2> QED
    BY <2>1, <2>2, IdleSound DEF Transactions
<1> QED
  BY <1>5, <1>6, <1>7 DEF IInv

\* No step of any transaction unbalances the books.
LEMMA StepBalances == ASSUME IInv, [Next]_ledgerVars PROVE IInv'
<1>1. ASSUME NEW t \in Txs, Request(t) PROVE IInv'
  BY <1>1, RequestKeeps
<1>2. ASSUME NEW t \in Txs, InsertRow(t) PROVE IInv'
  BY <1>2, InsertRowKeeps
<1>3. ASSUME NEW t \in Txs, IncrementPayable(t) PROVE IInv'
  BY <1>3, IncrementPayableKeeps
<1>4. ASSUME NEW t \in Txs, LockPolicy(t) PROVE IInv'
  BY <1>4, LockPolicyKeeps
<1>5. ASSUME NEW t \in Txs, DecrementBucket(t) \/ DecrementNullBucket(t) \/ DecrementBucketAgain(t)
      PROVE  IInv'
  BY <1>5, DecrementKeeps
<1>6. ASSUME NEW t \in Txs, AllocatePayment(t) PROVE IInv'
  BY <1>6, AllocatePaymentKeeps
<1>7. ASSUME NEW t \in Txs, ComputeRefunds(t) PROVE IInv'
  BY <1>7, ComputeRefundsKeeps
<1>8. ASSUME NEW t \in Txs, Commit(t) PROVE IInv'
  BY <1>8, CommitKeeps
<1>9. ASSUME NEW t \in Txs, Fail(t) \/ BreakDeadlock(t) PROVE IInv'
  BY <1>9, RollbackKeeps
<1>10. CASE UNCHANGED ledgerVars
  BY <1>10 DEF ledgerVars, IInv, LedgerOK, Transactions, BooksAgree, Apart
<1> QED
  BY <1>1, <1>2, <1>3, <1>4, <1>5, <1>6, <1>7, <1>8, <1>9, <1>10 DEF Next, Execute

\* At every moment, with any number of transactions at any point of their
\* statements, the invariant holds.
THEOREM TransactionsBalance == Spec => []IInv
<1>1. Init => IInv
  BY InitBalances
<1>2. IInv /\ [Next]_ledgerVars => IInv'
  BY StepBalances
<1> QED
  BY <1>1, <1>2, PTL DEF Spec

\* Agent.payable, the rows of the ledger and what is left of its buckets tell
\* of one debt, for every number of connections, policies, amounts and lines.
THEOREM BooksBalance == Spec => []BalancesAgree
<1>1. IInv => BalancesAgree
  <2> SUFFICES ASSUME IInv PROVE BalancesAgree
    OBVIOUS
  <2>1. /\ ledger \in Tables /\ payable = Balance("ledger", ledger)
        /\ Balance("buckets", ledger) + OldDebt = payable
    BY DEF IInv, LedgerOK, BooksAgree
  <2>2. Owed(ledger) = Balance("ledger", ledger) /\ BucketTotal(ledger) = Balance("buckets", ledger)
    BY <2>1, BooksAre
  <2> QED
    BY <2>1, <2>2
    DEF BalancesAgree, PayableMatchesLedger, BucketsCarryTheBalance, OldDebt
<1> QED
  BY <1>1, TransactionsBalance, PTL

\* Every row the table holds, or a transaction has written, is one it admits, and
\* no lock or row is two transactions'.
THEOREM TypeCorrect == Spec => []TypeOK
<1>1. IInv => TypeOK
  <2> SUFFICES ASSUME IInv PROVE TypeOK
    OBVIOUS
  <2>1. /\ ledger \in [DOMAIN ledger -> LedgerRow] /\ DOMAIN ledger \subseteq Nat
        /\ payable \in Int /\ served \in 0..MaxRequests
    BY TablesAre DEF IInv, LedgerOK, Admitted
  <2>2. ASSUME NEW t \in Txs
        PROVE  /\ tx[t].kind \in {"idle", "issuance", "payment", "correction", "cancellation"}
               /\ Running(t) <=> tx[t].todo # << >>
               /\ \A i \in DOMAIN tx[t].writes :
                     tx[t].writes[i] \in LedgerRow /\ SignOK(tx[t].writes[i])
               /\ \A u \in Txs \ {t} : tx[t].holds \cap tx[u].holds = {}
               /\ \A u \in Txs \ {t} : DOMAIN tx[t].writes \cap DOMAIN tx[u].writes = {}
    <3>1. Sound(tx[t], ledger) /\ \A u \in Txs \ {t} : Apart(tx[t], tx[u])
      BY OfTransaction
    <3>2. Running(t) <=> tx[t].todo # << >>
      BY <3>1, AtStatement, FieldsAre DEF Sound, Running
    <3>3. \A i \in DOMAIN tx[t].writes :
              tx[t].writes[i] \in LedgerRow /\ SignOK(tx[t].writes[i])
      BY <3>1, TablesAre DEF Sound, Admitted
    <3> QED
      BY <3>1, <3>2, <3>3 DEF Sound, Kinds, Apart
  <2> QED
    BY <2>1, <2>2 DEF TypeOK
<1> QED
  BY <1>1, TransactionsBalance, PTL

-----------------------------------------------------------------------------
(* What a payment's plan leaves of the buckets.                              *)

\* What is left of each bucket after a decrement.
Taken(left, x) == [left EXCEPT ![x.row] = @ - x.by]

\* The decrements of the list, one after another, make `after` of `left`.
Leads(list, left, after) ==
    \E path \in [1..(Len(list) + 1) -> [DOMAIN left -> Int]] :
        /\ path[1] = left
        /\ \A k \in 1..Len(list) : path[k + 1] = Taken(path[k], list[k])
        /\ path[Len(list) + 1] = after

\* Decrements of the buckets there are, in whatever form.
Takings(rows) == {x \in Statements(rows) : x.do \in Decrements}

\* An empty list leaves what there is.
LEMMA LeadsNowhere ==
    ASSUME NEW S, NEW left \in [S -> Int]
    PROVE  /\ Leads(<< >>, left, left)
           /\ \A after : Leads(<< >>, left, after) => after = left
<1> DEFINE path == [k \in 1..1 |-> left]
<1>1. Len(<< >>) = 0 /\ DOMAIN left = S
  OBVIOUS
<1>2. path \in [1..1 -> [DOMAIN left -> Int]] /\ path[1] = left
  OBVIOUS
<1>3. path \in [1..(Len(<< >>) + 1) -> [DOMAIN left -> Int]] /\ path[Len(<< >>) + 1] = left
  BY <1>1, <1>2
<1> HIDE DEF path
<1>4. \A k \in 1..Len(<< >>) : path[k + 1] = Taken(path[k], << >>[k])
  BY <1>1
<1>5. Leads(<< >>, left, left)
  BY <1>2, <1>3, <1>4 DEF Leads
<1>6. ASSUME NEW after, Leads(<< >>, left, after) PROVE after = left
  BY <1>1, <1>6 DEF Leads
<1> QED
  BY <1>5, <1>6

\* Once its first decrement is done, a list leads on from there.
LEMMA LeadsOn ==
    ASSUME NEW X, NEW list \in Seq(X), list # << >>, NEW left, NEW after,
           Leads(list, left, after)
    PROVE  Leads(Tail(list), Taken(left, Head(list)), after)
<1>1. PICK path \in [1..(Len(list) + 1) -> [DOMAIN left -> Int]] :
          /\ path[1] = left
          /\ \A k \in 1..Len(list) : path[k + 1] = Taken(path[k], list[k])
          /\ path[Len(list) + 1] = after
  BY DEF Leads
<1> DEFINE rest == [k \in 1..Len(list) |-> path[k + 1]]
           next == Taken(left, Head(list))
<1>2. /\ Len(list) \in Nat \ {0} /\ Len(Tail(list)) = Len(list) - 1
      /\ Head(list) = list[1] /\ \A k \in 1..Len(Tail(list)) : Tail(list)[k] = list[k + 1]
  OBVIOUS
<1>3. DOMAIN next = DOMAIN left
  BY DEF Taken
<1>4. rest \in [1..(Len(Tail(list)) + 1) -> [DOMAIN next -> Int]]
  BY <1>1, <1>2, <1>3
<1>5. rest[1] = next /\ rest[Len(Tail(list)) + 1] = after
  BY <1>1, <1>2
<1>6. \A k \in 1..Len(Tail(list)) : rest[k + 1] = Taken(rest[k], Tail(list)[k])
  <2> SUFFICES ASSUME NEW k \in 1..Len(Tail(list))
               PROVE  rest[k + 1] = Taken(rest[k], Tail(list)[k])
    OBVIOUS
  <2>1. k \in 1..Len(list) /\ k + 1 \in 1..Len(list)
    BY <1>2
  <2>2. path[(k + 1) + 1] = Taken(path[k + 1], list[k + 1])
    BY <1>1, <2>1
  <2> QED
    BY <1>2, <2>1, <2>2
<1> HIDE DEF rest, next
<1>7. Leads(Tail(list), next, after)
  BY <1>4, <1>5, <1>6 DEF Leads
<1> QED
  BY <1>7 DEF next

\* A list with one decrement more.
LEMMA LeadsFurther ==
    ASSUME NEW X, NEW list \in Seq(X), NEW S, NEW left \in [S -> Int], NEW after \in [S -> Int],
           Leads(list, left, after), NEW x \in X, x.row \in S, x.by \in Int
    PROVE  /\ Leads(Append(list, x), left, Taken(after, x))
           /\ Taken(after, x) \in [S -> Int]
<1>1. PICK path \in [1..(Len(list) + 1) -> [DOMAIN left -> Int]] :
          /\ path[1] = left
          /\ \A k \in 1..Len(list) : path[k + 1] = Taken(path[k], list[k])
          /\ path[Len(list) + 1] = after
  BY DEF Leads
<1>2. PICK n \in Nat : n = Len(list)
  OBVIOUS
<1> DEFINE all == Append(list, x)
           next == Taken(after, x)
           longer == [k \in 1..(n + 2) |-> IF k = n + 2 THEN next ELSE path[k]]
<1>3. next \in [S -> Int] /\ DOMAIN left = S
  BY DEF Taken
<1>4. /\ Len(all) = n + 1 /\ all[n + 1] = x /\ \A k \in 1..n : all[k] = list[k]
  BY <1>2
<1> HIDE DEF next, all
<1>5. /\ longer \in [1..(n + 2) -> [S -> Int]] /\ longer[1] = left /\ longer[n + 2] = next
      /\ \A k \in 1..(n + 1) : longer[k] = path[k]
  <2>1. \A k \in 1..(n + 2) : k = n + 2 \/ k \in 1..(n + 1)
    OBVIOUS
  <2>2. \A k \in 1..(n + 1) : path[k] \in [S -> Int]
    BY <1>1, <1>2, <1>3
  <2>3. \A k \in 1..(n + 1) : k # n + 2 /\ k \in 1..(n + 2)
    OBVIOUS
  <2>4. 1 \in 1..(n + 1) /\ n + 2 \in 1..(n + 2)
    OBVIOUS
  <2> QED
    BY <1>1, <1>3, <2>1, <2>2, <2>3, <2>4
<1> HIDE DEF longer
<1>6. ASSUME NEW k \in 1..(n + 1) PROVE longer[k + 1] = Taken(longer[k], all[k])
  <2>1. CASE k = n + 1
    <3>1. longer[k + 1] = next /\ longer[k] = after /\ all[k] = x
      BY <1>1, <1>2, <1>4, <1>5, <2>1
    <3> QED
      BY <3>1 DEF next
  <2>2. CASE k # n + 1
    <3>1. k \in 1..n /\ k + 1 \in 1..(n + 1)
      BY <2>2
    <3>2. path[k + 1] = Taken(path[k], list[k])
      BY <1>1, <1>2, <3>1
    <3> QED
      BY <1>4, <1>5, <3>1, <3>2
  <2> QED
    BY <2>1, <2>2
<1>7. (n + 1) + 1 = n + 2
  OBVIOUS
<1>8. Leads(all, left, next)
  BY <1>3, <1>4, <1>5, <1>6, <1>7 DEF Leads
<1> QED
  BY <1>3, <1>8 DEF all, next

\* A list leads where another does that takes as much from the same buckets, one
\* by one.
LEMMA LeadsAlike ==
    ASSUME NEW list, NEW other, Len(other) = Len(list),
           \A k \in 1..Len(list) : other[k].row = list[k].row /\ other[k].by = list[k].by,
           NEW left, NEW after, Leads(list, left, after)
    PROVE  Leads(other, left, after)
BY DEF Leads, Taken

Remaining(rows) == [i \in BucketsOf(rows) |-> rows[i].remaining]

\* No bucket is taken from while an older one is outstanding, and none is overpaid
\* while any is.
InDueOrder(rows, left) ==
    \A b, c \in BucketsOf(rows) :
        (left[b] < rows[b].remaining /\ (Older(rows, c, b) \/ left[b] < 0)) => left[c] <= 0

\* A payment partly planned, when k buckets have had their turns: `left` is what
\* the plan leaves of each.
Turned(rows, k, part, left) ==
    LET buckets == OldestFirst(rows)
    IN  /\ part.left \in Nat
        /\ part.last \in BucketsOf(rows)
        /\ part.plan \in Seq(Takings(rows))
        /\ left \in [BucketsOf(rows) -> Int]
        /\ Leads(part.plan, Remaining(rows), left)
        /\ \A i \in BucketsOf(rows) : left[i] < rows[i].remaining => left[i] >= 0
        /\ \A l \in (k + 1)..Len(buckets) : left[buckets[l]] = rows[buckets[l]].remaining
        /\ part.left > 0 => \A l \in 1..k : left[buckets[l]] <= 0
        /\ \A b, c \in BucketsOf(rows) :
              (left[b] < rows[b].remaining /\ Older(rows, c, b)) => left[c] <= 0

\* What is left of a bucket is a number.
LEMMA RemainingIs ==
    ASSUME NEW rows \in Tables
    PROVE  /\ Remaining(rows) \in [BucketsOf(rows) -> Int]
           /\ \A i \in BucketsOf(rows) : rows[i].remaining \in Int
<1>1. \A i \in BucketsOf(rows) : rows[i].remaining \in Int
  BY TablesAre DEF BucketsOf, Admitted, LedgerRow
<1> QED
  BY <1>1 DEF Remaining

\* A decrement of a bucket is one.
LEMMA DecrementTakes ==
    ASSUME NEW rows, NEW i \in BucketsOf(rows), NEW m \in Int
    PROVE  /\ Decrement(i, m) \in Takings(rows)
           /\ Decrement(i, m).row = i /\ Decrement(i, m).by = m
<1>1. Decrement(i, m) \in Statements(rows)
  BY StepsAre DEF Steps
<1> QED
  BY <1>1 DEF Takings, Decrement, Decrements

\* What a payment of n starts from.
LEMMA NoneTurned ==
    ASSUME NEW rows \in Tables, NEW n \in Nat, NEW last \in BucketsOf(rows), NEW part,
           part = [left |-> n, last |-> last, plan |-> << >>],
           \A k \in 1..Len(OldestFirst(rows)) : OldestFirst(rows)[k] \in BucketsOf(rows)
    PROVE  Turned(rows, 0, part, Remaining(rows))
<1>1. Remaining(rows) \in [BucketsOf(rows) -> Int]
      /\ \A i \in BucketsOf(rows) : Remaining(rows)[i] = rows[i].remaining /\ rows[i].remaining \in Int
  BY RemainingIs DEF Remaining
<1>2. Leads(<< >>, Remaining(rows), Remaining(rows))
  BY <1>1, LeadsNowhere
<1>3. << >> \in Seq(Takings(rows))
  OBVIOUS
<1>4. part.left = n /\ part.last = last /\ part.plan = << >>
  OBVIOUS
<1> QED
  BY <1>1, <1>2, <1>3, <1>4 DEF Turned

\* A bucket's turn: it is paid as far as the payment reaches, and the older ones
\* have been.
LEMMA TurnTaken ==
    ASSUME NEW rows \in Tables, NEW k \in Nat, k + 1 \in 1..Len(OldestFirst(rows)),
           NEW part, NEW left, Turned(rows, k, part, left)
    PROVE  \E after : Turned(rows, k + 1, Settle(rows, part, OldestFirst(rows)[k + 1]), after)
<1> DEFINE e == OldestFirst(rows)
           S == BucketsOf(rows)
           i == e[k + 1]
           rem == rows[i].remaining
<1>1. /\ Len(e) \in Nat /\ k + 1 \in 1..Len(e) /\ e \in [1..Len(e) -> S]
      /\ \A j, l \in 1..Len(e) : e[j] = e[l] => j = l
      /\ \A j \in 1..Len(e), c \in S : Older(rows, c, e[j]) => \E l \in 1..(j - 1) : e[l] = c
  BY OldestFirstIs, OlderComeFirst
<1>2. i \in S /\ rem \in Int /\ \A j \in S : rows[j].remaining \in Int
  BY <1>1, RemainingIs
<1>3. /\ part.left \in Nat /\ part.last \in S /\ part.plan \in Seq(Takings(rows))
      /\ left \in [S -> Int] /\ Leads(part.plan, Remaining(rows), left)
      /\ \A j \in S : left[j] < rows[j].remaining => left[j] >= 0
      /\ \A l \in (k + 1)..Len(e) : left[e[l]] = rows[e[l]].remaining
      /\ part.left > 0 => \A l \in 1..k : left[e[l]] <= 0
      /\ \A b, c \in S : (left[b] < rows[b].remaining /\ Older(rows, c, b)) => left[c] <= 0
  BY DEF Turned
<1>4. left[i] = rem
  BY <1>1, <1>3
<1> HIDE DEF e, S
<1>5. CASE part.left <= 0 \/ rem <= 0
  <2>1. Settle(rows, part, i) = part
    BY <1>5 DEF Settle
  <2>2. part.left > 0 => \A l \in 1..(k + 1) : left[e[l]] <= 0
    <3> SUFFICES ASSUME part.left > 0, NEW l \in 1..(k + 1) PROVE left[e[l]] <= 0
      OBVIOUS
    <3>1. CASE l = k + 1
      BY <1>3, <1>4, <1>5, <3>1
    <3>2. CASE l # k + 1
      <4>1. l \in 1..k
        BY <3>2
      <4> QED
        BY <1>3, <4>1
    <3> QED
      BY <3>1, <3>2
  <2>3. \A l \in ((k + 1) + 1)..Len(e) : left[e[l]] = rows[e[l]].remaining
    <3>1. \A l \in ((k + 1) + 1)..Len(e) : l \in (k + 1)..Len(e)
      BY <1>1
    <3> QED
      BY <1>3, <3>1
  <2>4. Turned(rows, k + 1, part, left)
    BY <1>3, <2>2, <2>3 DEF Turned, e, S
  <2> QED
    BY <2>1, <2>4 DEF e
<1>6. CASE ~(part.left <= 0 \/ rem <= 0)
  <2> DEFINE applied == IF part.left < rem THEN part.left ELSE rem
             x == Decrement(i, applied)
             next == [left |-> part.left - applied, last |-> i, plan |-> Append(part.plan, x)]
             after == Taken(left, x)
  <2>1. Settle(rows, part, i) = next
    BY <1>6 DEF Settle
  <2>2. /\ applied \in Int /\ applied > 0 /\ part.left - applied \in Nat
        /\ rem - applied >= 0
        /\ part.left - applied > 0 => rem - applied = 0
    BY <1>2, <1>3, <1>6
  <2> HIDE DEF applied
  <2>3. x \in Takings(rows) /\ x.row = i /\ x.by = applied
    BY <1>2, <2>2, DecrementTakes DEF S
  <2>4. /\ next.left = part.left - applied /\ next.last = i /\ next.plan = Append(part.plan, x)
    OBVIOUS
  <2> HIDE DEF x, next
  <2>5. Leads(Append(part.plan, x), Remaining(rows), after) /\ after \in [S -> Int]
    <3>1. Remaining(rows) \in [S -> Int]
      BY RemainingIs DEF S
    <3> QED
      BY <1>2, <1>3, <2>2, <2>3, <3>1, LeadsFurther
  <2>6. after[i] = rem - applied /\ \A j \in S : j # i => after[j] = left[j]
    BY <1>2, <1>3, <1>4, <2>3 DEF Taken
  <2> HIDE DEF after
  <2>7. Append(part.plan, x) \in Seq(Takings(rows))
    BY <1>3, <2>3
  <2>8. \A j \in S : after[j] < rows[j].remaining => after[j] >= 0
    <3> SUFFICES ASSUME NEW j \in S, after[j] < rows[j].remaining PROVE after[j] >= 0
      OBVIOUS
    <3>1. CASE j = i
      BY <2>2, <2>6, <3>1
    <3>2. CASE j # i
      BY <1>3, <2>6, <3>2
    <3> QED
      BY <3>1, <3>2
  <2>9. ASSUME NEW l \in 1..Len(e), l # k + 1 PROVE e[l] # i /\ e[l] \in S /\ after[e[l]] = left[e[l]]
    <3>1. e[l] # i /\ e[l] \in S
      BY <1>1, <2>9
    <3> QED
      BY <2>6, <3>1
  <2>10. \A l \in ((k + 1) + 1)..Len(e) : after[e[l]] = rows[e[l]].remaining
    <3> SUFFICES ASSUME NEW l \in ((k + 1) + 1)..Len(e) PROVE after[e[l]] = rows[e[l]].remaining
      OBVIOUS
    <3>1. l \in (k + 1)..Len(e) /\ l \in 1..Len(e) /\ l # k + 1
      BY <1>1
    <3> QED
      BY <1>3, <2>9, <3>1
  <2>11. next.left > 0 => \A l \in 1..(k + 1) : after[e[l]] <= 0
    <3> SUFFICES ASSUME part.left - applied > 0, NEW l \in 1..(k + 1) PROVE after[e[l]] <= 0
      BY <2>4
    <3>1. CASE l = k + 1
      BY <2>2, <2>6, <3>1
    <3>2. CASE l # k + 1
      <4>1. l \in 1..k /\ l \in 1..Len(e) /\ part.left > 0
        BY <1>1, <1>3, <1>6, <3>2
      <4> QED
        BY <1>3, <2>9, <3>2, <4>1
    <3> QED
      BY <3>1, <3>2
  <2>12. ASSUME NEW b \in S, NEW c \in S, after[b] < rows[b].remaining, Older(rows, c, b)
         PROVE  after[c] <= 0
    <3>1. CASE b = i
      <4>1. PICK l \in 1..((k + 1) - 1) : e[l] = c
        BY <1>1, <2>12, <3>1
      <4>2. l \in 1..k /\ l \in 1..Len(e) /\ l # k + 1
        BY <1>1, <4>1
      <4>3. left[e[l]] <= 0
        BY <1>3, <1>6, <4>2
      <4> QED
        BY <2>9, <4>1, <4>2, <4>3
    <3>2. CASE b # i
      <4>1. left[c] <= 0
        BY <1>3, <2>6, <2>12, <3>2
      <4>2. c # i
        BY <1>4, <1>6, <4>1
      <4> QED
        BY <2>6, <4>1, <4>2
    <3> QED
      BY <3>1, <3>2
  <2>13. Turned(rows, k + 1, next, after)
    BY <1>2, <2>2, <2>4, <2>5, <2>7, <2>8, <2>10, <2>11, <2>12 DEF Turned, e, S
  <2> QED
    BY <2>1, <2>13 DEF e
<1> QED
  BY <1>5, <1>6

\* When every bucket has had its turn, one that is paid at all is not overpaid
\* unless the whole payment is planned and none is outstanding.
LEMMA AllocationInOrder ==
    ASSUME NEW rows \in Tables, BucketsOf(rows) # {}, NEW n \in Nat
    PROVE  /\ Allocation(rows, n) \in Seq(Takings(rows))
           /\ \E after \in [BucketsOf(rows) -> Int] :
                 InDueOrder(rows, after) /\ Leads(Allocation(rows, n), Remaining(rows), after)
<1> DEFINE buckets == OldestFirst(rows)
           S == BucketsOf(rows)
<1>1. /\ Len(buckets) \in Nat \ {0} /\ buckets # << >>
      /\ \A k \in 1..Len(buckets) : buckets[k] \in S
      /\ \E settled : InTurns(rows, n, settled)
  BY AllocationInTurns
<1>2. PICK N \in Nat \ {0} : N = Len(buckets)
  BY <1>1
<1>3. PICK settled : InTurns(rows, n, settled)
  BY <1>1
<1>4. /\ settled[0] = [left |-> n, last |-> Last(buckets), plan |-> << >>]
      /\ \A k \in 1..N : settled[k] = Settle(rows, settled[k - 1], buckets[k])
      /\ Allocation(rows, n) =
            IF settled[N].left > 0
            THEN Append(settled[N].plan, Decrement(settled[N].last, settled[N].left))
            ELSE settled[N].plan
  BY <1>2, <1>3 DEF InTurns
<1>5. Turned(rows, 0, settled[0], Remaining(rows))
  <2>1. Last(buckets) \in S
    BY <1>1 DEF Last
  <2> QED
    BY <1>1, <1>4, <2>1, NoneTurned
<1>6. \E left : Turned(rows, N, settled[N], left)
  <2> DEFINE M == {m \in Nat : m <= N => \E left : Turned(rows, m, settled[m], left)}
  <2>1. 0 \in M
    BY <1>5
  <2>2. ASSUME NEW m \in M PROVE m + 1 \in M
    <3> SUFFICES ASSUME m + 1 <= N PROVE \E left : Turned(rows, m + 1, settled[m + 1], left)
      OBVIOUS
    <3>1. m \in Nat /\ m + 1 \in 1..N /\ (m + 1) - 1 = m
      BY <1>2
    <3>2. PICK left : Turned(rows, m, settled[m], left)
      BY <3>1
    <3>3. settled[m + 1] = Settle(rows, settled[m], buckets[m + 1])
      BY <1>4, <3>1
    <3> QED
      BY <1>2, <3>1, <3>2, <3>3, TurnTaken
  <2>3. M = Nat
    <3> M \in SUBSET Nat
      OBVIOUS
    <3> HIDE DEF M
    <3> QED
      BY <2>1, <2>2, NatIsInductive
  <2> QED
    BY <2>3
<1>7. PICK left : Turned(rows, N, settled[N], left)
  BY <1>6
<1> DEFINE all == settled[N]
<1>8. /\ all.left \in Nat /\ all.last \in S /\ all.plan \in Seq(Takings(rows))
      /\ left \in [S -> Int] /\ Leads(all.plan, Remaining(rows), left)
      /\ \A i \in S : left[i] < rows[i].remaining => left[i] >= 0
      /\ all.left > 0 => \A l \in 1..N : left[buckets[l]] <= 0
      /\ \A b, c \in S : (left[b] < rows[b].remaining /\ Older(rows, c, b)) => left[c] <= 0
  BY <1>7 DEF Turned
<1>9. \A c \in S : \E l \in 1..N : buckets[l] = c
  BY <1>2, OldestFirstIs, OlderComeFirst
<1>10. \A i \in S : rows[i].remaining \in Int
  BY RemainingIs
<1> HIDE DEF buckets, S, all
<1>11. CASE all.left > 0
  <2> DEFINE x == Decrement(all.last, all.left)
             after == Taken(left, x)
  <2>1. \A c \in S : left[c] <= 0
    BY <1>8, <1>9, <1>11
  <2>2. x \in Takings(rows) /\ x.row = all.last /\ x.by = all.left /\ x.row \in S /\ x.by \in Int
    BY <1>8, DecrementTakes DEF S
  <2>3. Allocation(rows, n) = Append(all.plan, x)
    BY <1>4, <1>11 DEF all
  <2> HIDE DEF x
  <2>4. Leads(Append(all.plan, x), Remaining(rows), after) /\ after \in [S -> Int]
    <3>1. Remaining(rows) \in [S -> Int]
      BY RemainingIs DEF S
    <3> QED
      BY <1>8, <2>2, <3>1, LeadsFurther
  <2>5. \A c \in S : after[c] <= 0
    <3> SUFFICES ASSUME NEW c \in S PROVE after[c] <= 0
      OBVIOUS
    <3>1. left[c] \in Int /\ left[c] <= 0
      BY <1>8, <2>1
    <3>2. after[c] = IF c = x.row THEN left[c] - x.by ELSE left[c]
      BY <1>8, <2>2 DEF Taken
    <3> QED
      BY <1>8, <2>2, <3>1, <3>2
  <2> HIDE DEF after
  <2>6. InDueOrder(rows, after)
    BY <2>5 DEF InDueOrder, S
  <2>7. Append(all.plan, x) \in Seq(Takings(rows))
    BY <1>8, <2>2
  <2> QED
    BY <2>3, <2>4, <2>6, <2>7 DEF S
<1>12. CASE ~(all.left > 0)
  <2>1. Allocation(rows, n) = all.plan
    BY <1>4, <1>12 DEF all
  <2>2. ASSUME NEW b \in S, NEW c \in S, left[b] < rows[b].remaining,
               Older(rows, c, b) \/ left[b] < 0
        PROVE  left[c] <= 0
    <3>1. left[b] >= 0 /\ left[b] \in Int
      BY <1>8, <2>2
    <3> QED
      BY <1>8, <2>2, <3>1
  <2>3. InDueOrder(rows, left)
    BY <2>2 DEF InDueOrder, S
  <2> QED
    BY <1>8, <2>1, <2>3 DEF S
<1> QED
  BY <1>11, <1>12

-----------------------------------------------------------------------------
(* The agent's row is locked by whatever changes the ledger.                 *)

Quiet == {"policy", "components", "commit"}

\* A transaction holds the agent's row, or will before it commits, or has nothing
\* to write yet and only statements that write nothing.
Covered(x) ==
    \/ AgentRow \in x.holds
    \/ \E s \in ToSet(x.todo) : s.do = "agent"
    \/ x.writes = NoRows /\ \A s \in ToSet(x.todo) : s.do \in Quiet

\* What a transaction leaves of the buckets, so far.
LeftBy(x, rows) ==
    [i \in BucketsOf(rows) |-> (IF i \in DOMAIN x.writes THEN x.writes[i] ELSE rows[i]).remaining]

\* A payment writes no row there is before it has locked the agent and read the
\* buckets; from then on its decrements are the ones it planned, from the ledger
\* as it still is.
PaysInOrder(x, rows) ==
    \E n \in Nat :
        \/ /\ x.todo = Append(Payment(n), CommitTransaction)
           /\ x.writes = NoRows
        \/ /\ x.todo = Append(<<UpdateAgent(-n), Allocate(n)>>, CommitTransaction)
           /\ DOMAIN x.writes \cap DOMAIN rows = {}
        \/ /\ x.todo = Append(<<Allocate(n)>>, CommitTransaction)
           /\ DOMAIN x.writes \cap DOMAIN rows = {}
           /\ AgentRow \in x.holds
        \/ /\ AgentRow \in x.holds
           /\ \E steps \in Seq(Takings(rows)), after \in [BucketsOf(rows) -> Int] :
                 /\ x.todo = Append(steps, CommitTransaction)
                 /\ InDueOrder(rows, after)
                 /\ Leads(steps, LeftBy(x, rows), after)

\* The strengthening for the order of payments.
OrderInv ==
    \A t \in Txs : Covered(tx[t]) /\ (tx[t].kind = "payment" => PaysInOrder(tx[t], ledger))

\* An idle transaction is covered.
LEMMA IdleCovered == Covered(Idle) /\ Idle.kind # "payment"
BY FieldsAre, EmptyHasNone DEF Covered

\* A list of statements is one, as it begins and as it goes on.
LEMMA TodoIs ==
    ASSUME NEW rows, NEW x, Sound(x, rows), x.kind # "idle"
    PROVE  /\ x.todo \in Seq(Statements(rows)) /\ x.todo # << >>
           /\ Head(x.todo) \in Statements(rows) /\ Tail(x.todo) \in Seq(Statements(rows))
           /\ ToSet(x.todo) = {Head(x.todo)} \cup ToSet(Tail(x.todo))
           /\ Head(x.todo).do = "commit" => x.todo = <<CommitTransaction>>
<1>1. PICK steps \in Seq(Steps(rows)) : x.todo = Append(steps, CommitTransaction)
  BY DEF Sound, Pending
<1>2. Steps(rows) \subseteq Statements(rows) /\ CommitTransaction \in Statements(rows)
  BY DEF Steps, Statements
<1>3. x.todo \in Seq(Statements(rows)) /\ x.todo # << >>
  BY <1>1, <1>2
<1>4. Head(x.todo).do = "commit" => x.todo = <<CommitTransaction>>
  <2>1. CASE steps = << >>
    BY <1>1, <2>1
  <2>2. CASE steps # << >>
    <3>1. Head(x.todo) \in Statements(rows) /\ Head(x.todo) # CommitTransaction
      BY <1>1, <2>2, ListEnds DEF Steps
    <3> QED
      BY <3>1, StatementFields
  <2> QED
    BY <2>1, <2>2
<1> QED
  BY <1>3, <1>4, HeadAndTail

\* A transaction that executes a statement stays covered: locking the agent covers
\* it, and what it has still to do after reading the components does.
LEMMA CoveredOn ==
    ASSUME NEW rows, NEW x, Sound(x, rows), x.kind # "idle", Covered(x),
           Head(x.todo).do # "commit",
           NEW more \in Seq(Steps(rows)), NEW y, y.todo = more \o Tail(x.todo),
           y.holds = x.holds \cup Head(x.todo).locks,
           Head(x.todo).do = "policy" => more = << >> /\ y.writes = x.writes,
           Head(x.todo).do = "components" => \E m \in ToSet(more) : m.do = "agent"
    PROVE  Covered(y)
<1> DEFINE s == Head(x.todo)
<1>1. /\ s \in Statements(rows) /\ Tail(x.todo) \in Seq(Statements(rows))
      /\ ToSet(x.todo) = {s} \cup ToSet(Tail(x.todo))
  BY TodoIs
<1>2. more \in Seq(Statements(rows))
  <2>1. Steps(rows) \subseteq Statements(rows)
    BY DEF Steps
  <2> QED
    BY <2>1
<1>3. ToSet(y.todo) = ToSet(more) \cup ToSet(Tail(x.todo))
  <2> DEFINE rest == Tail(x.todo)
  <2>1. rest \in Seq(Statements(rows)) /\ y.todo = more \o rest
    BY <1>1
  <2> HIDE DEF rest
  <2>2. ToSet(more \o rest) = ToSet(more) \cup ToSet(rest)
    BY <1>2, <2>1, ConcatHas
  <2> QED
    BY <2>1, <2>2 DEF rest
<1>4. CASE AgentRow \in x.holds
  BY <1>4 DEF Covered
<1>5. CASE \E m \in ToSet(x.todo) : m.do = "agent"
  <2>1. CASE s.do = "agent"
    <3>1. s.locks = {AgentRow}
      BY <1>1, <2>1, StatementFields DEF UpdateAgent
    <3> QED
      BY <3>1 DEF Covered
  <2>2. CASE s.do # "agent"
    BY <1>1, <1>3, <1>5, <2>2 DEF Covered
  <2> QED
    BY <2>1, <2>2
<1>6. CASE x.writes = NoRows /\ \A m \in ToSet(x.todo) : m.do \in Quiet
  <2>1. s.do = "policy" \/ s.do = "components"
    BY <1>1, <1>6 DEF Quiet
  <2>2. CASE s.do = "policy"
    <3>1. ToSet(more) = {} /\ y.writes = NoRows
      BY <1>6, <2>2, EmptyHasNone
    <3> QED
      BY <1>1, <1>3, <1>6, <3>1 DEF Covered
  <2>3. CASE s.do = "components"
    BY <1>3, <2>3 DEF Covered
  <2> QED
    BY <2>1, <2>2, <2>3
<1> QED
  BY <1>4, <1>5, <1>6 DEF Covered

\* What a payment's next statement is, and what it leaves to do.
LEMMA AtPayment ==
    ASSUME NEW rows, NEW x, NEW s, PaysInOrder(x, rows), s = Head(x.todo)
    PROVE  /\ s.do = "insert" => /\ x.writes = NoRows
                                 /\ \E n \in Nat : Tail(x.todo) = Append(<<UpdateAgent(-n), Allocate(n)>>, CommitTransaction)
           /\ s.do = "agent" => /\ DOMAIN x.writes \cap DOMAIN rows = {}
                                /\ s.locks = {AgentRow}
                                /\ \E n \in Nat : Tail(x.todo) = Append(<<Allocate(n)>>, CommitTransaction)
           /\ s.do = "allocate" => /\ DOMAIN x.writes \cap DOMAIN rows = {}
                                   /\ AgentRow \in x.holds
                                   /\ s.by \in Nat
                                   /\ Tail(x.todo) = Append(<< >>, CommitTransaction)
           /\ s.do \in Decrements \cup {"commit"} =>
                 /\ AgentRow \in x.holds
                 /\ \E steps \in Seq(Takings(rows)), after \in [BucketsOf(rows) -> Int] :
                       /\ x.todo = Append(steps, CommitTransaction)
                       /\ InDueOrder(rows, after)
                       /\ Leads(steps, LeftBy(x, rows), after)
                       /\ s.do \in Decrements => steps # << >>
                       /\ s.do = "commit" => steps = << >>
           /\ s.do \notin {"policy", "components"}
<1>1. PICK n \in Nat :
        \/ /\ x.todo = Append(Payment(n), CommitTransaction)
           /\ x.writes = NoRows
        \/ /\ x.todo = Append(<<UpdateAgent(-n), Allocate(n)>>, CommitTransaction)
           /\ DOMAIN x.writes \cap DOMAIN rows = {}
        \/ /\ x.todo = Append(<<Allocate(n)>>, CommitTransaction)
           /\ DOMAIN x.writes \cap DOMAIN rows = {}
           /\ AgentRow \in x.holds
        \/ /\ AgentRow \in x.holds
           /\ \E steps \in Seq(Takings(rows)), after \in [BucketsOf(rows) -> Int] :
                 /\ x.todo = Append(steps, CommitTransaction)
                 /\ InDueOrder(rows, after)
                 /\ Leads(steps, LeftBy(x, rows), after)
  BY DEF PaysInOrder
<1>2. CASE x.todo = Append(Payment(n), CommitTransaction) /\ x.writes = NoRows
  <2> DEFINE i == Insert(Row("PAYMENT", NoPolicy, -n, NoDue, FALSE))
             a == UpdateAgent(-n)
             l == Allocate(n)
  <2>1. i.do = "insert"
    BY DEF Insert
  <2>2. x.todo = Append(<<i, a, l>>, CommitTransaction)
    BY <1>2 DEF Payment
  <2> HIDE DEF i, a, l
  <2>3. s = i /\ Tail(x.todo) = Append(<<a, l>>, CommitTransaction)
    <3>1. <<i, a, l>> \in Seq({i, a, l}) /\ <<i, a, l>> # << >> /\ Head(<<i, a, l>>) = i
          /\ Tail(<<i, a, l>>) = <<a, l>>
      OBVIOUS
    <3> QED
      BY <2>2, <3>1, ListEnds
  <2> QED
    BY <1>2, <2>1, <2>3 DEF a, l, Decrements
<1>3. CASE /\ x.todo = Append(<<UpdateAgent(-n), Allocate(n)>>, CommitTransaction)
           /\ DOMAIN x.writes \cap DOMAIN rows = {}
  <2>1. s = UpdateAgent(-n) /\ Tail(x.todo) = Append(<<Allocate(n)>>, CommitTransaction)
    <3> DEFINE a == UpdateAgent(-n)
               l == Allocate(n)
    <3>1. x.todo = Append(<<a, l>>, CommitTransaction)
      BY <1>3
    <3> HIDE DEF a, l
    <3>2. <<a, l>> \in Seq({a, l}) /\ <<a, l>> # << >> /\ Head(<<a, l>>) = a /\ Tail(<<a, l>>) = <<l>>
      OBVIOUS
    <3>3. s = a /\ Tail(x.todo) = Append(<<l>>, CommitTransaction)
      BY <3>1, <3>2, ListEnds
    <3> QED
      BY <3>3 DEF a, l
  <2>2. s.do = "agent" /\ s.locks = {AgentRow}
    BY <2>1 DEF UpdateAgent
  <2> QED
    BY <1>3, <2>1, <2>2 DEF Decrements
<1>4. CASE /\ x.todo = Append(<<Allocate(n)>>, CommitTransaction)
           /\ DOMAIN x.writes \cap DOMAIN rows = {}
           /\ AgentRow \in x.holds
  <2>1. s = Allocate(n) /\ Tail(x.todo) = Append(<< >>, CommitTransaction)
    <3> DEFINE l == Allocate(n)
    <3>1. x.todo = Append(<<l>>, CommitTransaction)
      BY <1>4
    <3> HIDE DEF l
    <3>2. <<l>> \in Seq({l}) /\ <<l>> # << >> /\ Head(<<l>>) = l /\ Tail(<<l>>) = << >>
      OBVIOUS
    <3> DEFINE list == <<l>>
    <3>4. list \in Seq({l}) /\ list # << >> /\ x.todo = Append(list, CommitTransaction)
      BY <3>1, <3>2
    <3> HIDE DEF list
    <3>5. s = Head(list) /\ Tail(x.todo) = Append(Tail(list), CommitTransaction)
      BY <3>4, ListEnds
    <3>3. s = l /\ Tail(x.todo) = Append(<< >>, CommitTransaction)
      BY <3>2, <3>5 DEF list
    <3> QED
      BY <3>3 DEF l
  <2>2. s.do = "allocate" /\ s.by = n
    BY <2>1 DEF Allocate
  <2> QED
    BY <1>4, <2>1, <2>2 DEF Decrements
<1>5. CASE /\ AgentRow \in x.holds
           /\ \E steps \in Seq(Takings(rows)), after \in [BucketsOf(rows) -> Int] :
                 /\ x.todo = Append(steps, CommitTransaction)
                 /\ InDueOrder(rows, after)
                 /\ Leads(steps, LeftBy(x, rows), after)
  <2>1. PICK steps \in Seq(Takings(rows)), after \in [BucketsOf(rows) -> Int] :
                 /\ x.todo = Append(steps, CommitTransaction)
                 /\ InDueOrder(rows, after)
                 /\ Leads(steps, LeftBy(x, rows), after)
    BY <1>5
  <2>2. CASE steps = << >>
    <3>1. s.do = "commit"
      BY <2>1, <2>2, ListEnds DEF CommitTransaction
    <3> QED
      BY <1>5, <2>1, <2>2, <3>1 DEF Decrements
  <2>3. CASE steps # << >>
    <3>1. s.do \in Decrements
      BY <2>1, <2>3, ListEnds DEF Takings
    <3> QED
      BY <1>5, <2>1, <2>3, <3>1 DEF Decrements
  <2> QED
    BY <2>2, <2>3
<1> QED
  BY <1>1, <1>2, <1>3, <1>4, <1>5

\* What one transaction becomes leaves the order, when the rest stays.
LEMMA OneInOrder ==
    ASSUME IInv, OrderInv, NEW t \in Txs, NEW y, Covered(y),
           y.kind = "payment" => PaysInOrder(y, ledger),
           tx' = [tx EXCEPT ![t] = y], ledger' = ledger
    PROVE  OrderInv'
<1>1. tx'[t] = y /\ \A u \in Txs \ {t} : tx'[u] = tx[u]
  BY DEF IInv, Transactions
<1> QED
  BY <1>1 DEF OrderInv

\* A statement of t that is done leaves the order, if t is a payment in order.
LEMMA StatementInOrder ==
    ASSUME IInv, OrderInv, NEW t \in Txs, Running(t), Statement(t).do # "commit",
           NEW more \in Seq(Steps(ledger)), NEW y, y.kind = tx[t].kind,
           y.todo = more \o Tail(tx[t].todo),
           y.holds = tx[t].holds \cup Statement(t).locks,
           Statement(t).do = "policy" => more = << >> /\ y.writes = tx[t].writes,
           Statement(t).do = "components" => \E m \in ToSet(more) : m.do = "agent",
           tx[t].kind = "payment" => PaysInOrder(y, ledger),
           tx' = [tx EXCEPT ![t] = y], ledger' = ledger
    PROVE  OrderInv'
<1>1. Sound(tx[t], ledger) /\ Covered(tx[t])
  BY OfTransaction DEF OrderInv
<1>2. Covered(y)
  BY <1>1, CoveredOn DEF Running, Statement
<1> QED
  BY <1>2, OneInOrder

\* A list with nothing put before it.
LEMMA NothingBefore ==
    ASSUME NEW rows, NEW x, Sound(x, rows), x.kind # "idle"
    PROVE  << >> \o Tail(x.todo) = Tail(x.todo) /\ << >> \in Seq(Steps(rows))
<1>1. Tail(x.todo) \in Seq(Statements(rows))
  BY TodoIs
<1> QED
  BY <1>1

\* The payment's own row is none of the ledger's yet.
LEMMA InsertRowInOrder ==
    ASSUME IInv, OrderInv, NEW t \in Txs, InsertRow(t)
    PROVE  OrderInv'
<1> DEFINE x == tx[t]
           s == Statement(t)
           w == Over(Only(NewId, s.row), x.writes)
           y == [[x EXCEPT !.writes = w] EXCEPT !.todo = << >> \o Tail(x.todo),
                                                !.holds = x.holds \cup s.locks]
<1>1. /\ Running(t) /\ s.do = "insert" /\ tx' = [tx EXCEPT ![t] = y] /\ ledger' = ledger
  BY DEF InsertRow, About, Done, DoneThen
<1>2. DOMAIN x = Fields /\ Sound(x, ledger) /\ NewId \notin DOMAIN ledger
  BY OfTransaction, NewIdIsNew
<1>3. /\ y.kind = x.kind /\ y.todo = << >> \o Tail(x.todo)
      /\ y.writes = w /\ y.holds = x.holds \cup s.locks
  BY <1>2, FieldsAre
<1>4. DOMAIN w = DOMAIN x.writes \cup {NewId}
  BY DEF Over, Only
<1>5. << >> \o Tail(x.todo) = Tail(x.todo) /\ << >> \in Seq(Steps(ledger))
  BY <1>1, <1>2, NothingBefore DEF Running
<1> HIDE DEF y, w
<1>6. ASSUME x.kind = "payment" PROVE PaysInOrder(y, ledger)
  <2>1. PaysInOrder(x, ledger)
    BY <1>6 DEF OrderInv
  <2>a. s = Head(x.todo) /\ s.do = "insert"
    BY <1>1 DEF Statement
  <2> HIDE DEF x, s
  <2>2. /\ x.writes = NoRows
        /\ \E n \in Nat : Tail(x.todo) = Append(<<UpdateAgent(-n), Allocate(n)>>, CommitTransaction)
    BY <2>1, <2>a, AtPayment
  <2>3. DOMAIN y.writes \cap DOMAIN ledger = {}
    BY <1>2, <1>3, <1>4, <2>2, NothingMoved
  <2>4. y.todo = Tail(x.todo)
    BY <1>3, <1>5
  <2> QED
    BY <2>2, <2>3, <2>4 DEF PaysInOrder
<1> HIDE DEF x, s
<1> QED
  BY <1>1, <1>3, <1>5, <1>6, StatementInOrder DEF x, s

\* A payment locks the agent before it reads the buckets.
LEMMA IncrementPayableInOrder ==
    ASSUME IInv, OrderInv, NEW t \in Txs, IncrementPayable(t)
    PROVE  OrderInv'
<1> DEFINE x == tx[t]
           s == Statement(t)
           y == [[x EXCEPT !.owes = x.owes + s.by] EXCEPT !.todo = << >> \o Tail(x.todo),
                                                          !.holds = x.holds \cup s.locks]
<1>1. /\ Running(t) /\ s.do = "agent" /\ tx' = [tx EXCEPT ![t] = y] /\ ledger' = ledger
  BY DEF IncrementPayable, About, Done, DoneThen
<1>2. DOMAIN x = Fields /\ Sound(x, ledger)
  BY OfTransaction
<1>3. /\ y.kind = x.kind /\ y.todo = << >> \o Tail(x.todo)
      /\ y.writes = x.writes /\ y.holds = x.holds \cup s.locks
  BY <1>2, FieldsAre
<1>4. << >> \o Tail(x.todo) = Tail(x.todo) /\ << >> \in Seq(Steps(ledger))
  BY <1>1, <1>2, NothingBefore DEF Running
<1> HIDE DEF y
<1>5. ASSUME x.kind = "payment" PROVE PaysInOrder(y, ledger)
  <2>1. PaysInOrder(x, ledger)
    BY <1>5 DEF OrderInv
  <2>a. s = Head(x.todo) /\ s.do = "agent"
    BY <1>1 DEF Statement
  <2> HIDE DEF x, s
  <2>2. /\ DOMAIN x.writes \cap DOMAIN ledger = {} /\ s.locks = {AgentRow}
        /\ \E n \in Nat : Tail(x.todo) = Append(<<Allocate(n)>>, CommitTransaction)
    BY <2>1, <2>a, AtPayment
  <2>3. y.todo = Tail(x.todo) /\ AgentRow \in y.holds
    BY <1>3, <1>4, <2>2
  <2> QED
    BY <1>3, <2>2, <2>3 DEF PaysInOrder
<1> HIDE DEF x, s
<1> QED
  BY <1>1, <1>3, <1>4, <1>5, StatementInOrder DEF x, s

\* A payment locks no policy.
LEMMA LockPolicyInOrder ==
    ASSUME IInv, OrderInv, NEW t \in Txs, LockPolicy(t)
    PROVE  OrderInv'
<1> DEFINE x == tx[t]
           s == Statement(t)
           y == [x EXCEPT !.todo = << >> \o Tail(x.todo), !.holds = x.holds \cup s.locks]
<1>1. /\ Running(t) /\ s.do = "policy" /\ tx' = [tx EXCEPT ![t] = y] /\ ledger' = ledger
  BY DEF LockPolicy, About, Done, DoneThen
<1>2. DOMAIN x = Fields /\ Sound(x, ledger)
  BY OfTransaction
<1>3. /\ y.kind = x.kind /\ y.todo = << >> \o Tail(x.todo)
      /\ y.writes = x.writes /\ y.holds = x.holds \cup s.locks
  BY <1>2, FieldsAre
<1>4. << >> \in Seq(Steps(ledger))
  OBVIOUS
<1>5. x.kind # "payment"
  BY <1>1, AtPayment DEF OrderInv, Statement
<1> HIDE DEF x, s, y
<1> QED
  BY <1>1, <1>3, <1>4, <1>5, StatementInOrder DEF x, s

\* A decrement of a payment is the next of those it planned.
LEMMA ApplyDecrementInOrder ==
    ASSUME IInv, OrderInv, NEW t \in Txs, Running(t), Statement(t).do \in Decrements,
           ApplyDecrement(t), UNCHANGED <<ledger, payable, served>>
    PROVE  OrderInv'
<1> DEFINE x == tx[t]
           s == Statement(t)
           i == s.row
           row == [Seen(t, i) EXCEPT !.opened = TRUE, !.remaining = @ + (-s.by)]
           w == Over(Only(i, row), x.writes)
           y == [[x EXCEPT !.writes = w] EXCEPT !.todo = << >> \o Tail(x.todo),
                                                !.holds = x.holds \cup s.locks]
           B == BucketsOf(ledger)
<1>1. /\ Running(t) /\ s.do \in Decrements /\ tx' = [tx EXCEPT ![t] = y] /\ ledger' = ledger
  BY DEF ApplyDecrement, Done, DoneThen, Changed
<1>2. /\ DOMAIN x = Fields /\ Sound(x, ledger) /\ x.writes \in Tables /\ s \in Statements(ledger)
      /\ Locked(x, ledger) /\ ledger \in Tables
  BY <1>1, OfTransaction
<1>3. i \in B /\ s.by \in Int /\ i \in Nat
  BY <1>1, <1>2, StatementFields, SeenIs
<1>4. /\ y.kind = x.kind /\ y.todo = << >> \o Tail(x.todo)
      /\ y.writes = w /\ y.holds = x.holds \cup s.locks
  BY <1>2, FieldsAre
<1>5. << >> \o Tail(x.todo) = Tail(x.todo) /\ << >> \in Seq(Steps(ledger))
  BY <1>1, <1>2, NothingBefore DEF Running
<1>6. Seen(t, i) \in Admitted /\ IsBucket(Seen(t, i)) /\ Seen(t, i).remaining \in Int
  BY <1>3, SeenIs DEF Admitted, LedgerRow
<1>7. row \in Admitted /\ row.remaining = Seen(t, i).remaining - s.by
  <2>1. -s.by \in Int
    BY <1>3
  <2>2. row \in Admitted
    BY <1>6, <2>1, RowChanges
  <2>3. row.remaining = Seen(t, i).remaining + (-s.by)
    BY <1>6 DEF Admitted, LedgerRow
  <2> QED
    BY <1>3, <1>6, <2>2, <2>3
<1>8. \A j \in B : Seen(t, j) = (IF j \in DOMAIN x.writes THEN x.writes[j] ELSE ledger[j])
                   /\ Seen(t, j).remaining \in Int
  BY SeenIs DEF Seen, Admitted, LedgerRow
<1> HIDE DEF y, row, i, B
<1>9. /\ DOMAIN w = DOMAIN x.writes \cup {i} /\ w[i] = row
      /\ \A j \in DOMAIN x.writes \ {i} : w[j] = x.writes[j]
  BY <1>2, <1>3, <1>7, OneWritten
<1> HIDE DEF w
<1>10. LeftBy(y, ledger) = Taken(LeftBy(x, ledger), s)
  <2>1. LeftBy(x, ledger) = [j \in B |-> Seen(t, j).remaining]
    BY <1>8 DEF LeftBy, B
  <2>2. ASSUME NEW j \in B
        PROVE  (IF j \in DOMAIN y.writes THEN y.writes[j] ELSE ledger[j]).remaining =
                   IF j = i THEN Seen(t, j).remaining - s.by ELSE Seen(t, j).remaining
    <3>1. CASE j = i
      BY <1>4, <1>7, <1>9, <3>1
    <3>2. CASE j # i
      BY <1>4, <1>8, <1>9, <3>2
    <3> QED
      BY <3>1, <3>2
  <2>3. LeftBy(y, ledger) =
            [j \in B |-> IF j = i THEN Seen(t, j).remaining - s.by ELSE Seen(t, j).remaining]
    BY <2>2 DEF LeftBy, B
  <2>4. Taken(LeftBy(x, ledger), s) =
            [j \in B |-> IF j = i THEN Seen(t, j).remaining - s.by ELSE Seen(t, j).remaining]
    BY <2>1 DEF Taken, i
  <2> QED
    BY <2>3, <2>4
<1>11. ASSUME x.kind = "payment" PROVE PaysInOrder(y, ledger)
  <2>1. PaysInOrder(x, ledger)
    BY <1>11 DEF OrderInv
  <2>2. s = Head(x.todo) /\ s.do \in Decrements
    BY <1>1 DEF Statement
  <2> HIDE DEF x, s
  <2>3. AgentRow \in x.holds
    BY <2>1, <2>2, AtPayment
  <2>4. PICK steps \in Seq(Takings(ledger)), after \in [BucketsOf(ledger) -> Int] :
            /\ x.todo = Append(steps, CommitTransaction)
            /\ InDueOrder(ledger, after)
            /\ Leads(steps, LeftBy(x, ledger), after)
            /\ steps # << >>
    BY <2>1, <2>2, AtPayment
  <2>5. s = Head(steps) /\ Tail(x.todo) = Append(Tail(steps), CommitTransaction)
        /\ Tail(steps) \in Seq(Takings(ledger))
    BY <2>2, <2>4, ListEnds
  <2>6. Leads(Tail(steps), Taken(LeftBy(x, ledger), s), after)
    BY <2>4, <2>5, LeadsOn
  <2>7. Leads(Tail(steps), LeftBy(y, ledger), after)
    BY <1>10, <2>6
  <2>8. y.todo = Append(Tail(steps), CommitTransaction) /\ AgentRow \in y.holds
    BY <1>4, <1>5, <2>3, <2>5
  <2> QED
    BY <2>4, <2>5, <2>7, <2>8, LedgerAssumption DEF PaysInOrder
<1>12. s.do # "commit" /\ s.do # "policy" /\ s.do # "components"
  BY <1>1 DEF Decrements
<1> HIDE DEF x, s
<1> QED
  BY <1>1, <1>4, <1>5, <1>11, <1>12, StatementInOrder DEF x, s

\* In another form it is the same decrement.
LEMMA BecomesInOrder ==
    ASSUME IInv, OrderInv, NEW t \in Txs, Running(t), Statement(t).do \in Decrements,
           NEW do \in Decrements, Becomes(t, do), UNCHANGED <<ledger, payable, served>>
    PROVE  OrderInv'
<1> DEFINE x == tx[t]
           s == Statement(t)
           new == DecrementAs(do, s.row, s.by)
           list == [x.todo EXCEPT ![1] = new]
           y == [x EXCEPT !.todo = list]
<1>1. /\ DOMAIN x = Fields /\ Sound(x, ledger) /\ s \in Statements(ledger) /\ Covered(x)
  BY OfTransaction DEF OrderInv
<1>2. /\ s = DecrementAs(s.do, s.row, s.by) /\ s.row \in BucketsOf(ledger) /\ s.by \in Int
  BY <1>1, StatementFields
<1>3. x.todo \in Seq(Statements(ledger)) /\ x.todo # << >> /\ s = x.todo[1]
  BY <1>1, TodoIs DEF Running, Statement
<1>4. [s EXCEPT !.do = do] = new
  BY <1>2, OtherForm
<1>5. tx' = [tx EXCEPT ![t] = y]
  BY <1>3, <1>4 DEF Becomes
<1>6. /\ new.do = do /\ new.row = s.row /\ new.by = s.by /\ new \in Takings(ledger)
  <2>1. new \in Statements(ledger)
    BY <1>2 DEF Statements
  <2>2. new.do = do /\ new.row = s.row /\ new.by = s.by
    BY DEF DecrementAs
  <2> QED
    BY <2>1, <2>2 DEF Takings
<1>7. /\ y.kind = x.kind /\ y.todo = list /\ y.writes = x.writes /\ y.holds = x.holds
  BY <1>1, FieldsAre
<1> HIDE DEF new, y
<1>8. /\ DOMAIN list = DOMAIN x.todo /\ list[1] = new
      /\ \A k \in DOMAIN x.todo : k # 1 => list[k] = x.todo[k]
      /\ 1 \in DOMAIN x.todo
  BY <1>3
<1> HIDE DEF list
<1>9. Covered(y)
  <2>1. CASE AgentRow \in x.holds
    BY <1>7, <2>1 DEF Covered
  <2>2. CASE \E m \in ToSet(x.todo) : m.do = "agent"
    <3>1. PICK k \in DOMAIN x.todo : x.todo[k].do = "agent"
      BY <2>2 DEF ToSet
    <3>2. k # 1
      BY <1>3, <3>1 DEF Decrements
    <3>3. list[k] \in ToSet(y.todo) /\ list[k].do = "agent"
      BY <1>7, <1>8, <3>1, <3>2 DEF ToSet
    <3> QED
      BY <3>3 DEF Covered
  <2>3. CASE x.writes = NoRows /\ \A m \in ToSet(x.todo) : m.do \in Quiet
    <3>1. s \in ToSet(x.todo)
      BY <1>3, <1>8 DEF ToSet
    <3>2. s.do \notin Quiet
      BY DEF Quiet, Decrements
    <3> QED
      BY <2>3, <3>1, <3>2
  <2> QED
    BY <1>1, <2>1, <2>2, <2>3 DEF Covered
<1>10. ASSUME x.kind = "payment" PROVE PaysInOrder(y, ledger)
  <2>1. PaysInOrder(x, ledger)
    BY <1>10 DEF OrderInv
  <2>2. s = Head(x.todo) /\ s.do \in Decrements
    BY DEF Statement
  <2> HIDE DEF x, s
  <2>3. AgentRow \in x.holds
    BY <2>1, <2>2, AtPayment
  <2>4. PICK steps \in Seq(Takings(ledger)), after \in [BucketsOf(ledger) -> Int] :
            /\ x.todo = Append(steps, CommitTransaction)
            /\ InDueOrder(ledger, after)
            /\ Leads(steps, LeftBy(x, ledger), after)
            /\ steps # << >>
    BY <2>1, <2>2, AtPayment
  <2> DEFINE more == [steps EXCEPT ![1] = new]
  <2>5. /\ list = Append(more, CommitTransaction) /\ more \in Seq(Takings(ledger))
        /\ Len(more) = Len(steps) /\ \A k \in 1..Len(steps) : more[k] = IF k = 1 THEN new ELSE steps[k]
    BY <1>6, <2>4, FirstReplaced DEF list
  <2>6. s = steps[1]
    <3>1. Head(steps) = steps[1] /\ s = Head(steps)
      BY <2>2, <2>4, ListEnds
    <3> QED
      BY <3>1
  <2> HIDE DEF more
  <2>7. \A k \in 1..Len(steps) : more[k].row = steps[k].row /\ more[k].by = steps[k].by
    BY <1>6, <2>5, <2>6
  <2>8. Leads(more, LeftBy(x, ledger), after)
    BY <2>4, <2>5, <2>7, LeadsAlike
  <2>9. LeftBy(y, ledger) = LeftBy(x, ledger) /\ AgentRow \in y.holds
    BY <1>7, <2>3 DEF LeftBy
  <2> QED
    BY <1>7, <2>4, <2>5, <2>8, <2>9, LedgerAssumption DEF PaysInOrder
<1> HIDE DEF x
<1> QED
  BY <1>5, <1>7, <1>9, <1>10, OneInOrder

\* The three statements of decrementBucket.
LEMMA DecrementInOrder ==
    ASSUME IInv, OrderInv, NEW t \in Txs,
           DecrementBucket(t) \/ DecrementNullBucket(t) \/ DecrementBucketAgain(t)
    PROVE  OrderInv'
<1>1. /\ Running(t) /\ Statement(t).do \in Decrements
      /\ UNCHANGED <<ledger, payable, served>>
      /\ ApplyDecrement(t) \/ \E do \in Decrements : Becomes(t, do)
  BY DEF DecrementBucket, DecrementNullBucket, DecrementBucketAgain, About, Retry, Decrements
<1> QED
  BY <1>1, ApplyDecrementInOrder, BecomesInOrder

\* A payment plans its decrements from the ledger as it is, and holds the agent's
\* row, so that it stays so.
LEMMA AllocatePaymentInOrder ==
    ASSUME IInv, OrderInv, NEW t \in Txs, AllocatePayment(t)
    PROVE  OrderInv'
<1> DEFINE x == tx[t]
           s == Statement(t)
           more == Allocation(ledger, s.by)
           y == [x EXCEPT !.todo = more \o Tail(x.todo), !.holds = x.holds \cup s.locks]
<1>1. /\ Running(t) /\ s.do = "allocate" /\ tx' = [tx EXCEPT ![t] = y] /\ ledger' = ledger
  BY DEF AllocatePayment, About, Done, DoneThen
<1>2. /\ DOMAIN x = Fields /\ Sound(x, ledger) /\ ledger \in Tables
      /\ s \in Statements(ledger) /\ BucketsOf(ledger) # {}
  BY <1>1, OfTransaction DEF IInv, LedgerOK
<1>3. s.by \in Nat
  BY <1>1, <1>2, StatementFields
<1>4. /\ y.kind = x.kind /\ y.todo = more \o Tail(x.todo)
      /\ y.writes = x.writes /\ y.holds = x.holds \cup s.locks
  BY <1>2, FieldsAre
<1>5. more \in Seq(Steps(ledger)) /\ more \in Seq(Takings(ledger))
  BY <1>2, <1>3, AllocationSettles, AllocationInOrder
<1>6. PICK after \in [BucketsOf(ledger) -> Int] :
          InDueOrder(ledger, after) /\ Leads(more, Remaining(ledger), after)
  BY <1>2, <1>3, AllocationInOrder
<1> HIDE DEF y, more
<1>7. ASSUME x.kind = "payment" PROVE PaysInOrder(y, ledger)
  <2>1. PaysInOrder(x, ledger)
    BY <1>7 DEF OrderInv
  <2>2. s = Head(x.todo) /\ s.do = "allocate"
    BY <1>1 DEF Statement
  <2> HIDE DEF x, s
  <2>3. /\ DOMAIN x.writes \cap DOMAIN ledger = {} /\ AgentRow \in x.holds
        /\ Tail(x.todo) = Append(<< >>, CommitTransaction)
    BY <2>1, <2>2, AtPayment
  <2>4. y.todo = Append(more, CommitTransaction)
    <3>1. more \o Append(<< >>, CommitTransaction) = Append(more, CommitTransaction)
      BY <1>5
    <3> QED
      BY <1>4, <2>3, <3>1
  <2>5. LeftBy(y, ledger) = Remaining(ledger)
    BY <1>4, <2>3 DEF LeftBy, Remaining, BucketsOf
  <2>6. AgentRow \in y.holds
    BY <1>4, <2>3
  <2> QED
    BY <1>5, <1>6, <2>4, <2>5, <2>6, LedgerAssumption DEF PaysInOrder
<1> HIDE DEF x, s
<1> QED
  BY <1>1, <1>4, <1>5, <1>7, StatementInOrder DEF x, s

\* Whatever a list starts with, it has the statement that it ends with.
LEMMA EndsWith ==
    ASSUME NEW X, NEW first \in Seq(X), NEW x, NEW y
    PROVE  y \in ToSet(first \o <<x, y>>)
<1>1. <<x, y>> \in Seq({x, y}) /\ y \in ToSet(<<x, y>>)
  <2>1. <<x, y>> \in Seq({x, y}) /\ 2 \in DOMAIN <<x, y>> /\ <<x, y>>[2] = y
    OBVIOUS
  <2> QED
    BY <2>1 DEF ToSet
<1> DEFINE pair == <<x, y>>
           Z == X \cup {x, y}
<1>2. first \in Seq(Z) /\ pair \in Seq(Z) /\ y \in ToSet(pair)
  BY <1>1
<1> HIDE DEF pair, Z
<1>3. ToSet(first \o pair) = ToSet(first) \cup ToSet(pair)
  BY <1>2, ConcatHas
<1> QED
  BY <1>2, <1>3 DEF pair

\* A cancellation will lock the agent once it has read the components.
LEMMA RefundsLockAgent ==
    ASSUME NEW rows \in Tables, NEW p, NEW seen, seen \subseteq DOMAIN rows, NEW refund
    PROVE  \E m \in ToSet(Refunds(rows, p, seen, refund)) : m.do = "agent"
<1> DEFINE net       == SumFunctionOnSet(refund, seen)
           Target(i) == IF IsBucket(rows[i]) THEN {i} ELSE IssuanceRows(rows, p)
           moved     == IF Floored(net) THEN {} ELSE {i \in seen : refund[i] # 0 /\ Target(i) # {}}
           inOrder   == Arranged(moved, LAMBDA i, j : i < j)
           takes     == [k \in DOMAIN inOrder |->
                            Decrement(CHOOSE i \in Target(inOrder[k]) : TRUE, refund[inOrder[k]])]
           insert    == Insert(Row("CANCELLED_POLICY", p, -Deduction(net), NoDue, FALSE))
           update    == UpdateAgent(-Deduction(net))
<1>1. Refunds(rows, p, seen, refund) = takes \o <<insert, update>>
  BY DEF Refunds
<1>2. PICK n \in Nat : n = Cardinality(moved)
  <2>1. moved \subseteq DOMAIN rows
    OBVIOUS
  <2> HIDE DEF moved
  <2> QED
    BY <2>1, TablesAre, FS_Subset, FS_CardinalityType
<1>3. DOMAIN inOrder = 1..n
  BY <1>2 DEF Arranged
<1> HIDE DEF moved, inOrder, insert
<1>4. takes \in Seq({takes[k] : k \in 1..n})
  <2>1. DOMAIN takes = 1..n /\ takes = [k \in DOMAIN takes |-> takes[k]]
    BY <1>3
  <2> HIDE DEF takes
  <2>2. takes \in [1..n -> {takes[k] : k \in 1..n}]
    BY <2>1
  <2> QED
    BY <1>2, <2>2, RankedIsSeq
<1>5. update.do = "agent"
  BY DEF UpdateAgent
<1> HIDE DEF takes, update
<1> QED
  BY <1>1, <1>4, <1>5, EndsWith

\* A cancellation that reads the components is no payment.
LEMMA ComputeRefundsInOrder ==
    ASSUME IInv, OrderInv, NEW t \in Txs, ComputeRefunds(t)
    PROVE  OrderInv'
<1> DEFINE x == tx[t]
           s == Statement(t)
           p == s.policy
           seen == {i \in DOMAIN ledger : /\ ledger[i].policy = p
                                          /\ ledger[i].type \in {"ISSUANCE", "ENDORSEMENT"}}
           Part(n) == IF n >= 0 THEN 0..n ELSE n..0
<1>1. Running(t) /\ s.do = "components" /\ ReadRefunds(t, p, <<UpdatePolicy(p)>>) /\ ledger' = ledger
  BY DEF ComputeRefunds, About
<1>2. PICK refund \in [seen -> UNION {Part(ledger[i].amount) : i \in seen}] :
          /\ \A i \in seen : refund[i] \in Part(ledger[i].amount)
          /\ DoneThen(t, x, <<UpdatePolicy(p)>> \o Refunds(ledger, p, seen, refund))
  BY <1>1 DEF ReadRefunds
<1> DEFINE refunds == Refunds(ledger, p, seen, refund)
           more == <<UpdatePolicy(p)>> \o refunds
           y == [x EXCEPT !.todo = more \o Tail(x.todo), !.holds = x.holds \cup s.locks]
<1>3. tx' = [tx EXCEPT ![t] = y]
  BY <1>2 DEF DoneThen
<1>4. /\ DOMAIN x = Fields /\ Sound(x, ledger) /\ ledger \in Tables /\ s \in Statements(ledger)
  BY <1>1, OfTransaction
<1>5. p \in IssuedIn(ledger) /\ p \in Policies
  BY <1>1, <1>4, StatementFields DEF IssuedIn
<1>6. refund \in [seen -> Int]
  <2>1. \A i \in DOMAIN ledger : ledger[i].amount \in Int
    BY <1>4, TablesAre DEF Admitted, LedgerRow
  <2>2. \A i \in seen : refund[i] \in Int
    BY <1>2, <2>1
  <2> QED
    BY <1>2, <2>2
<1>7. seen \subseteq DOMAIN ledger
  OBVIOUS
<1>8. /\ y.kind = x.kind /\ y.todo = more \o Tail(x.todo)
      /\ y.writes = x.writes /\ y.holds = x.holds \cup s.locks
  BY <1>4, FieldsAre
<1> HIDE DEF seen, p, y
<1>9. refunds \in Seq(Steps(ledger)) /\ \E m \in ToSet(refunds) : m.do = "agent"
  <2>1. refunds \in Balanced(ledger)
    BY <1>4, <1>5, <1>6, <1>7, RefundsBalance
  <2>2. \E m \in ToSet(refunds) : m.do = "agent"
    BY <1>4, <1>7, RefundsLockAgent
  <2> HIDE DEF refunds
  <2> QED
    BY <2>1, <2>2 DEF Balanced
<1> DEFINE first == <<UpdatePolicy(p)>>
<1>10. first \in Seq(Steps(ledger)) /\ more = first \o refunds
  BY <1>5, StepsAre, OneItem
<1> HIDE DEF refunds, first, more
<1>11. more \in Seq(Steps(ledger)) /\ \E m \in ToSet(more) : m.do = "agent"
  <2>1. first \o refunds \in Seq(Steps(ledger))
        /\ ToSet(first \o refunds) = ToSet(first) \cup ToSet(refunds)
    BY <1>9, <1>10, ConcatHas
  <2> QED
    BY <1>9, <1>10, <2>1
<1>12. x.kind # "payment"
  BY <1>1, AtPayment DEF OrderInv, Statement
<1> HIDE DEF x, s
<1> QED
  BY <1>1, <1>3, <1>8, <1>11, <1>12, StatementInOrder DEF x, s

\* A transaction that commits holds the agent's row, or has written nothing.
LEMMA CommitsCovered ==
    ASSUME IInv, OrderInv, NEW t \in Txs, Commit(t)
    PROVE  AgentRow \in tx[t].holds \/ tx[t].writes = NoRows
<1>1. Running(t) /\ Statement(t).do = "commit" /\ Sound(tx[t], ledger) /\ Covered(tx[t])
  BY OfTransaction DEF Commit, About, OrderInv
<1>2. tx[t].todo = <<CommitTransaction>>
  BY <1>1, TodoIs DEF Running, Statement
<1>3. ToSet(tx[t].todo) = {CommitTransaction}
  BY <1>2, OneItem
<1>4. CommitTransaction.do # "agent"
  BY DEF CommitTransaction
<1> QED
  BY <1>1, <1>3, <1>4 DEF Covered

\* Nothing written leaves the ledger as it is.
LEMMA NothingWritten == ASSUME NEW rows \in Tables PROVE Over(NoRows, rows) = rows
<1>1. DOMAIN NoRows = {} /\ rows = [i \in DOMAIN rows |-> rows[i]]
  BY NothingMoved, TablesAre
<1>2. Over(NoRows, rows) = [i \in DOMAIN rows |-> rows[i]]
  BY <1>1 DEF Over
<1> QED
  BY <1>1, <1>2

\* A payment that has planned what it takes finds the ledger as it was: who
\* commits another does not hold the agent's row.
LEMMA CommitInOrder == ASSUME IInv, OrderInv, NEW t \in Txs, Commit(t) PROVE OrderInv'
<1> DEFINE x == tx[t]
<1>1. tx' = [tx EXCEPT ![t] = Idle] /\ ledger' = Over(x.writes, ledger)
  BY DEF Commit
<1>2. tx'[t] = Idle /\ \A u \in Txs \ {t} : tx'[u] = tx[u]
  BY <1>1 DEF IInv, Transactions
<1>3. ledger \in Tables /\ x.writes \in Tables /\ \A u \in Txs \ {t} : Apart(x, tx[u])
  BY OfTransaction
<1>4. AgentRow \in x.holds \/ x.writes = NoRows
  BY CommitsCovered
<1>5. DOMAIN ledger' = DOMAIN ledger \cup DOMAIN x.writes
  BY <1>1, <1>3, Written
<1>6. ASSUME NEW u \in Txs \ {t}, tx[u].kind = "payment" PROVE PaysInOrder(tx[u], ledger')
  <2>1. PaysInOrder(tx[u], ledger)
    BY <1>6 DEF OrderInv
  <2>2. x.holds \cap tx[u].holds = {} /\ DOMAIN x.writes \cap DOMAIN tx[u].writes = {}
    BY <1>3, <1>6 DEF Apart
  <2>3. CASE AgentRow \in tx[u].holds
    <3>1. x.writes = NoRows
      BY <1>4, <2>2, <2>3
    <3>2. ledger' = ledger
      BY <1>1, <1>3, <3>1, NothingWritten
    <3> QED
      BY <2>1, <3>2
  <2>4. CASE AgentRow \notin tx[u].holds
    <3>1. DOMAIN tx[u].writes \cap DOMAIN ledger = {} => DOMAIN tx[u].writes \cap DOMAIN ledger' = {}
      BY <1>5, <2>2
    <3> QED
      BY <2>1, <2>4, <3>1 DEF PaysInOrder
  <2> QED
    BY <2>3, <2>4
<1>7. ASSUME NEW u \in Txs
      PROVE  Covered(tx'[u]) /\ (tx'[u].kind = "payment" => PaysInOrder(tx'[u], ledger'))
  <2>1. CASE u = t
    BY <1>2, <2>1, IdleCovered
  <2>2. CASE u # t
    <3>1. Covered(tx[u]) /\ tx'[u] = tx[u]
      BY <1>2, <2>2 DEF OrderInv
    <3> QED
      BY <1>6, <2>2, <3>1
  <2> QED
    BY <2>1, <2>2
<1> QED
  BY <1>7 DEF OrderInv

\* A request begins a transaction that will lock the agent, or writes nothing.
LEMMA BeginInOrder ==
    ASSUME IInv, OrderInv, NEW t \in Txs, NEW kind, NEW p, NEW X, NEW statements \in Seq(X),
           Begin(t, kind, p, statements),
           \/ \E m \in ToSet(statements) : m.do = "agent"
           \/ \A m \in ToSet(statements) : m.do \in Quiet,
           kind = "payment" => \E n \in Nat : statements = Payment(n)
    PROVE  OrderInv'
<1> DEFINE y == [Idle EXCEPT !.kind = kind, !.policy = p,
                             !.todo = Append(statements, CommitTransaction)]
<1>1. tx' = [tx EXCEPT ![t] = y] /\ ledger' = ledger
  BY DEF Begin
<1>2. /\ y.kind = kind /\ y.todo = Append(statements, CommitTransaction)
      /\ y.writes = NoRows /\ y.holds = {}
  BY FieldsAre
<1> HIDE DEF y
<1>3. Covered(y)
  <2> DEFINE end == <<CommitTransaction>>
             Z == X \cup {CommitTransaction}
  <2>1. statements \in Seq(Z) /\ end \in Seq(Z) /\ ToSet(end) = {CommitTransaction}
    <3>1. CommitTransaction \in Z /\ statements \in Seq(Z)
      OBVIOUS
    <3> HIDE DEF Z
    <3> QED
      BY <3>1, OneItem
  <2>2. y.todo = statements \o end
    BY <1>2
  <2> HIDE DEF end, Z
  <2>3. ToSet(statements \o end) = ToSet(statements) \cup ToSet(end)
    BY <2>1, ConcatHas
  <2>4. CommitTransaction.do \in Quiet
    BY DEF CommitTransaction, Quiet
  <2> QED
    BY <1>2, <2>1, <2>2, <2>3, <2>4 DEF Covered
<1>4. y.kind = "payment" => PaysInOrder(y, ledger)
  BY <1>2 DEF PaysInOrder
<1> QED
  BY <1>1, <1>3, <1>4, OneInOrder

\* A line of a correction, the issuance of a policy and a payment update the agent.
LEMMA RequestsLockAgent ==
    ASSUME NEW rows, NEW p, NEW n, NEW due
    PROVE  /\ UpdateAgent(n) \in ToSet(Issuance(p, n, due))
           /\ UpdateAgent(n) \in ToSet(Credit(p, n, due))
           /\ UpdateAgent(-n) \in ToSet(Payment(n))
           /\ UpdateAgent(-n) \in ToSet(Debit(rows, p, n))
<1>1. ASSUME NEW a, NEW b, NEW c PROVE b \in ToSet(<<a, b>>) /\ b \in ToSet(<<a, b, c>>)
  <2>1. 2 \in DOMAIN <<a, b>> /\ <<a, b>>[2] = b /\ 2 \in DOMAIN <<a, b, c>> /\ <<a, b, c>>[2] = b
    OBVIOUS
  <2> QED
    BY <2>1 DEF ToSet
<1>2. UpdateAgent(-n) \in ToSet(Debit(rows, p, n))
  <2> DEFINE first == IF IssuanceRows(rows, p) = {} THEN << >>
                      ELSE <<Decrement(CHOOSE i \in IssuanceRows(rows, p) : TRUE, n)>>
             row == Insert(Row("ENDORSEMENT", p, -n, NoDue, FALSE))
             x == Decrement(CHOOSE i \in IssuanceRows(rows, p) : TRUE, n)
  <2>1. first \in Seq({x})
    <3>1. first = << >> \/ first = <<x>>
      OBVIOUS
    <3>2. << >> \in Seq({x}) /\ <<x>> \in Seq({x})
      BY OneItem
    <3> HIDE DEF first, x
    <3> QED
      BY <3>1, <3>2
  <2>2. Debit(rows, p, n) = first \o <<row, UpdateAgent(-n)>>
    BY DEF Debit
  <2> HIDE DEF first, row, x
  <2> QED
    BY <2>1, <2>2, EndsWith
<1> QED
  BY <1>1, <1>2 DEF Issuance, Credit, Payment


\* Whatever is asked for.
LEMMA RequestInOrder == ASSUME IInv, OrderInv, NEW t \in Txs, Request(t) PROVE OrderInv'
<1> DEFINE All == Seq(Steps(ledger))
<1>1. /\ \A n : UpdateAgent(n).do = "agent"
      /\ \A p : UpdatePolicy(p).do \in Quiet /\ ReadComponents(p).do \in Quiet
  BY DEF UpdateAgent, UpdatePolicy, ReadComponents, Quiet
<1>2. ASSUME NEW p \in Policies, NEW n \in Amounts, NEW due \in DueDates, IssuePolicy(t, p, n, due)
      PROVE  OrderInv'
  <2>1. Begin(t, "issuance", p, Issuance(p, n, due))
    BY <1>2 DEF IssuePolicy
  <2>2. Issuance(p, n, due) \in All /\ UpdateAgent(n) \in ToSet(Issuance(p, n, due))
    BY LedgerAssumption, RequestsBalance, RequestsLockAgent DEF Balanced
  <2> HIDE DEF All
  <2> QED
    BY <1>1, <2>1, <2>2, BeginInOrder DEF All
<1>3. ASSUME NEW n \in Amounts, RecordPayment(t, n)
      PROVE  OrderInv'
  <2>1. Begin(t, "payment", NoPolicy, Payment(n)) /\ n \in Nat
    BY <1>3, LedgerAssumption DEF RecordPayment
  <2>2. Payment(n) \in All /\ UpdateAgent(-n) \in ToSet(Payment(n))
    BY <2>1, RequestsBalance, RequestsLockAgent DEF Balanced
  <2> HIDE DEF All
  <2> QED
    BY <1>1, <2>1, <2>2, BeginInOrder DEF All
<1>4. ASSUME NEW p \in Policies, NEW kinds \in LineLists, NEW due \in DueDates,
             NEW amounts \in [DOMAIN kinds -> Amounts],
             ApproveCorrection(t, p, [k \in DOMAIN kinds |->
                 [kind |-> kinds[k], amount |-> amounts[k], due |-> due]])
      PROVE  OrderInv'
  <2> DEFINE lines == [k \in DOMAIN kinds |->
                          [kind |-> kinds[k], amount |-> amounts[k], due |-> due]]
             lists == [k \in DOMAIN lines |->
                          Line(ledger, p, lines[k].kind, lines[k].amount, lines[k].due)]
             flat == FlattenSeq(lists)
             last == <<UpdatePolicy(p)>>
  <2>1. /\ p \in IssuedIn(ledger)
        /\ Begin(t, "correction", p, flat \o last)
    BY <1>4 DEF ApproveCorrection, Endorsable, IssuedIn, Correction
  <2>2. DOMAIN lines = 1..Len(kinds) /\ Len(kinds) \in Nat
        /\ \A k \in DOMAIN lines : lines[k].amount \in Nat /\ lines[k].due \in Nat
    <3>1. kinds \in Seq({"credit", "debit"})
      BY LedgerAssumption
    <3>2. DOMAIN kinds = 1..Len(kinds) /\ Len(kinds) \in Nat
      BY <3>1
    <3>3. DOMAIN lines = DOMAIN kinds
          /\ \A k \in DOMAIN lines : lines[k].amount \in Nat /\ lines[k].due \in Nat
      BY LedgerAssumption
    <3> HIDE DEF lines
    <3> QED
      BY <3>2, <3>3
  <2> HIDE DEF lines
  <2>3. ASSUME NEW k \in DOMAIN lines
        PROVE  lists[k] \in All /\ \E m \in ToSet(lists[k]) : m.do = "agent"
    <3>1. p \in Policies /\ lines[k].amount \in Nat /\ lines[k].due \in Nat
      BY <2>1, <2>2 DEF IssuedIn
    <3>2. /\ Credit(p, lines[k].amount, lines[k].due) \in All
          /\ Debit(ledger, p, lines[k].amount) \in All
      BY <2>1, <3>1, RequestsBalance DEF Balanced
    <3>3. /\ UpdateAgent(lines[k].amount) \in ToSet(Credit(p, lines[k].amount, lines[k].due))
          /\ UpdateAgent(-lines[k].amount) \in ToSet(Debit(ledger, p, lines[k].amount))
      BY RequestsLockAgent
    <3> HIDE DEF All
    <3> QED
      BY <1>1, <3>2, <3>3 DEF Line
  <2>4. DOMAIN lists = 1..Len(kinds) /\ lists \in [1..Len(kinds) -> All]
    BY <2>2, <2>3
  <2>5. lists \in Seq(All)
    <3> HIDE DEF lists, All
    <3> QED
      BY <2>2, <2>4, RankedIsSeq
  <2> HIDE DEF lists
  <2>6. flat \in All /\ ToSet(flat) = UNION {ToSet(lists[i]) : i \in DOMAIN lists}
    BY <2>5, FlattenHas
  <2>7. last \in All /\ ToSet(last) = {UpdatePolicy(p)}
    <3>1. UpdatePolicy(p) \in Steps(ledger)
      BY <2>1, StepsAre DEF IssuedIn
    <3> QED
      BY <3>1, OneItem
  <2> HIDE DEF flat, last
  <2>8. flat \o last \in All /\ ToSet(flat \o last) = ToSet(flat) \cup ToSet(last)
    BY <2>6, <2>7, ConcatHas
  <2>9. \/ \E m \in ToSet(flat \o last) : m.do = "agent"
        \/ \A m \in ToSet(flat \o last) : m.do \in Quiet
    <3>1. CASE DOMAIN lists = {}
      <4>1. ToSet(flat) = {}
        BY <2>6, <3>1
      <4> QED
        BY <1>1, <2>7, <2>8, <4>1
    <3>2. CASE DOMAIN lists # {}
      <4>1. PICK k \in DOMAIN lists : TRUE
        BY <3>2
      <4>2. k \in DOMAIN lines
        BY <2>2, <2>4
      <4>3. PICK m \in ToSet(lists[k]) : m.do = "agent"
        BY <2>3, <4>2
      <4>4. m \in ToSet(flat \o last)
        BY <2>6, <2>8, <4>1, <4>3
      <4> QED
        BY <4>3, <4>4
    <3> QED
      BY <3>1, <3>2
  <2> DEFINE statements == flat \o last
  <2>10. /\ statements \in All /\ Begin(t, "correction", p, statements)
         /\ \/ \E m \in ToSet(statements) : m.do = "agent"
            \/ \A m \in ToSet(statements) : m.do \in Quiet
    BY <2>1, <2>8, <2>9
  <2> HIDE DEF statements, All
  <2> QED
    BY <2>10, BeginInOrder DEF All
<1>5. ASSUME NEW p \in Policies, ApproveCancellation(t, p)
      PROVE  OrderInv'
  <2> DEFINE list == <<ReadComponents(p)>>
  <2>1. Begin(t, "cancellation", p, list)
    BY <1>5 DEF ApproveCancellation
  <2>2. list \in Seq({ReadComponents(p)}) /\ ToSet(list) = {ReadComponents(p)}
    BY OneItem
  <2> HIDE DEF list
  <2>3. \A m \in ToSet(list) : m.do \in Quiet
    BY <1>1, <2>2
  <2> QED
    BY <2>1, <2>2, <2>3, BeginInOrder
<1> QED
  BY <1>2, <1>3, <1>4, <1>5 DEF Request

\* No step lets a payment take out of order.
LEMMA StepInOrder == ASSUME IInv, OrderInv, [Next]_ledgerVars PROVE OrderInv'
<1>1. ASSUME NEW t \in Txs, Request(t) PROVE OrderInv'
  BY <1>1, RequestInOrder
<1>2. ASSUME NEW t \in Txs, InsertRow(t) PROVE OrderInv'
  BY <1>2, InsertRowInOrder
<1>3. ASSUME NEW t \in Txs, IncrementPayable(t) PROVE OrderInv'
  BY <1>3, IncrementPayableInOrder
<1>4. ASSUME NEW t \in Txs, LockPolicy(t) PROVE OrderInv'
  BY <1>4, LockPolicyInOrder
<1>5. ASSUME NEW t \in Txs, DecrementBucket(t) \/ DecrementNullBucket(t) \/ DecrementBucketAgain(t)
      PROVE  OrderInv'
  BY <1>5, DecrementInOrder
<1>6. ASSUME NEW t \in Txs, AllocatePayment(t) PROVE OrderInv'
  BY <1>6, AllocatePaymentInOrder
<1>7. ASSUME NEW t \in Txs, ComputeRefunds(t) PROVE OrderInv'
  BY <1>7, ComputeRefundsInOrder
<1>8. ASSUME NEW t \in Txs, Commit(t) PROVE OrderInv'
  BY <1>8, CommitInOrder
<1>9. ASSUME NEW t \in Txs, Fail(t) \/ BreakDeadlock(t) PROVE OrderInv'
  <2>1. tx' = [tx EXCEPT ![t] = Idle] /\ ledger' = ledger
    BY <1>9 DEF Fail, BreakDeadlock
  <2> QED
    BY <2>1, IdleCovered, OneInOrder
<1>10. CASE UNCHANGED ledgerVars
  BY <1>10 DEF ledgerVars, OrderInv
<1> QED
  BY <1>1, <1>2, <1>3, <1>4, <1>5, <1>6, <1>7, <1>8, <1>9, <1>10 DEF Next, Execute

\* A payment that commits leaves each bucket with what it planned.
LEMMA PaymentSettles ==
    ASSUME IInv, OrderInv, NEW t \in Txs, Commit(t), tx[t].kind = "payment"
    PROVE  \A b, c \in BucketsOf(ledger) :
               /\ ledger'[b].remaining < ledger[b].remaining
               /\ Older(ledger, c, b) \/ ledger'[b].remaining < 0
               => ledger'[c].remaining <= 0
<1> DEFINE x == tx[t]
<1>1. Statement(t).do = "commit" /\ ledger' = Over(x.writes, ledger) /\ PaysInOrder(x, ledger)
  BY DEF Commit, About, OrderInv
<1>2. ledger \in Tables /\ x.writes \in Tables
  BY OfTransaction
<1>3. PICK after \in [BucketsOf(ledger) -> Int] :
          InDueOrder(ledger, after) /\ Leads(<< >>, LeftBy(x, ledger), after)
  <2> DEFINE s == Statement(t)
  <2>1. s = Head(x.todo) /\ s.do = "commit"
    BY <1>1 DEF Statement
  <2> HIDE DEF s, x
  <2> QED
    BY <1>1, <2>1, AtPayment
<1>4. \A i \in BucketsOf(ledger) :
          /\ ledger'[i] = IF i \in DOMAIN x.writes THEN x.writes[i] ELSE ledger[i]
          /\ ledger'[i].remaining \in Int
  <2> SUFFICES ASSUME NEW i \in BucketsOf(ledger)
               PROVE  /\ ledger'[i] = IF i \in DOMAIN x.writes THEN x.writes[i] ELSE ledger[i]
                      /\ ledger'[i].remaining \in Int
    OBVIOUS
  <2>1. i \in DOMAIN ledger /\ ledger'[i] = IF i \in DOMAIN x.writes THEN x.writes[i] ELSE ledger[i]
    <3>1. i \in DOMAIN ledger
      BY DEF BucketsOf
    <3> HIDE DEF x
    <3>2. PICK writes \in Tables : writes = x.writes
      BY <1>2
    <3>3. Over(writes, ledger)[i] = IF i \in DOMAIN writes THEN writes[i] ELSE ledger[i]
      BY <3>1 DEF Over
    <3>4. ledger' = Over(writes, ledger)
      BY <1>1, <3>2
    <3> QED
      BY <3>1, <3>2, <3>3, <3>4
  <2>2. ledger'[i] \in Admitted
    <3>1. ledger[i] \in Admitted
      BY <1>2, <2>1, TablesAre
    <3>2. i \in DOMAIN x.writes => x.writes[i] \in Admitted
      <4> HIDE DEF x
      <4> QED
        BY <1>2, TablesAre
    <3> HIDE DEF x
    <3> QED
      BY <2>1, <3>1, <3>2
  <2> QED
    BY <2>1, <2>2 DEF Admitted, LedgerRow
<1> HIDE DEF x
<1>5. /\ LeftBy(x, ledger) \in [BucketsOf(ledger) -> Int]
      /\ \A i \in BucketsOf(ledger) : LeftBy(x, ledger)[i] = ledger'[i].remaining
  BY <1>4 DEF LeftBy
<1>6. after = LeftBy(x, ledger)
  BY <1>3, <1>5, LeadsNowhere
<1> QED
  BY <1>3, <1>5, <1>6 DEF InDueOrder

\* Payments settle the oldest due first, whatever other payments, debits and
\* refunds run at the same time.
THEOREM OldestIsSettledFirst == Spec => PaymentsSettleOldestFirst
<1>1. Init => OrderInv
  BY IdleCovered DEF Init, OrderInv
<1>2. OrderInv /\ IInv /\ [Next]_ledgerVars => OrderInv'
  BY StepInOrder
<1>3. OrderInv /\ IInv /\ [Next]_ledgerVars =>
        [\A t \in Txs :
            (tx[t].kind = "payment" /\ ~Running(t)' /\ ledger' # ledger) =>
                \A b, c \in BucketsOf(ledger) :
                    /\ ledger'[b].remaining < ledger[b].remaining
                    /\ \/ Older(ledger, c, b)
                       \/ ledger'[b].remaining < 0
                    => ledger'[c].remaining <= 0]_ledgerVars
  <2> SUFFICES ASSUME OrderInv, IInv, Next, NEW t \in Txs, tx[t].kind = "payment",
                      ~Running(t)', ledger' # ledger
               PROVE  \A b, c \in BucketsOf(ledger) :
                          /\ ledger'[b].remaining < ledger[b].remaining
                          /\ \/ Older(ledger, c, b)
                             \/ ledger'[b].remaining < 0
                          => ledger'[c].remaining <= 0
    OBVIOUS
  <2>1. PICK u \in Txs : Commit(u)
    BY DEF Next, Execute, Request, IssuePolicy, RecordPayment, ApproveCorrection,
           ApproveCancellation, Begin, InsertRow, IncrementPayable, LockPolicy, DecrementBucket,
           DecrementNullBucket, DecrementBucketAgain, AllocatePayment, ComputeRefunds, Fail,
           BreakDeadlock
  <2>2. u = t
    <3>1. ASSUME u # t PROVE FALSE
      <4>1. tx'[t] = tx[t]
        BY <2>1, <3>1 DEF Commit, IInv, Transactions
      <4> QED
        BY <4>1 DEF Running
    <3> QED
      BY <3>1
  <2> QED
    BY <2>1, <2>2, PaymentSettles
<1> QED
  BY <1>1, <1>2, <1>3, TransactionsBalance, PTL DEF Spec, PaymentsSettleOldestFirst

-----------------------------------------------------------------------------
(* Replaying a ledger.                                                       *)

\* What replaying rows comes to, row by row.
Replays(rows, open) ==
    /\ open[0] = NoRows
    /\ \A i \in Nat \ {0} :
          open[i] = IF i \in DOMAIN rows THEN ReplayRow(rows, open[i - 1], i) ELSE open[i - 1]
    /\ \A m \in Nat : (\A i \in DOMAIN rows : i <= m) => Replay(rows) = open[m]

\* No row has a later id than the last.
LEMMA LastIdIs ==
    ASSUME NEW rows \in Tables
    PROVE  LastId(rows) \in {0} \cup DOMAIN rows /\ LastId(rows) \in Nat
           /\ \A i \in DOMAIN rows : i <= LastId(rows)
<1> DEFINE S == {0} \cup DOMAIN rows
<1>1. DOMAIN rows \subseteq Nat /\ IsFiniteSet(DOMAIN rows)
  BY TablesAre
<1>2. S \in SUBSET Int /\ IsFiniteSet(S) /\ S # {} /\ S \subseteq Nat
  <2>1. IsFiniteSet({0})
    BY FS_Singleton
  <2>2. IsFiniteSet({0} \cup DOMAIN rows)
    BY <1>1, <2>1, FS_Union
  <2> QED
    BY <1>1, <2>2
<1>3. LastId(rows) = Max(S)
  BY DEF LastId
<1>4. DOMAIN rows \subseteq S
  OBVIOUS
<1>5. S = {0} \cup DOMAIN rows
  OBVIOUS
<1> HIDE DEF S
<1>6. Max(S) \in S /\ \A x \in S : x <= Max(S)
  BY <1>2, MaxOfFinite
<1> QED
  BY <1>2, <1>3, <1>4, <1>5, <1>6

\* A ledger is replayed row by row, and what comes after its last row changes
\* nothing.
LEMMA ReplayInTurns ==
    ASSUME NEW rows \in Tables
    PROVE  \E open : Replays(rows, open)
<1> DEFINE N == LastId(rows)
           Turn(o, i) == IF i \in DOMAIN rows THEN ReplayRow(rows, o, i) ELSE o
           IsReplay(g, m) ==
               g = [i \in 0..m |-> IF i = 0 THEN NoRows
                                   ELSE IF i \in DOMAIN rows THEN ReplayRow(rows, g[i - 1], i)
                                   ELSE g[i - 1]]
           part == CHOOSE g : IsReplay(g, N)
           open == [i \in Nat |-> IF i <= N THEN part[i] ELSE part[N]]
<1>1. N \in Nat /\ \A i \in DOMAIN rows : i <= N
  BY LastIdIs
<1>2. Replay(rows) = part[N]
  BY DEF Replay
<1> HIDE DEF N
<1>3. \E g : IsReplay(g, N)
  <2> DEFINE M == {m \in Nat : \E g : IsReplay(g, m)}
  <2>1. 0 \in M
    <3> DEFINE g == [i \in 0..0 |-> NoRows]
    <3>1. IsReplay(g, 0)
      OBVIOUS
    <3> QED
      BY <3>1
  <2>2. ASSUME NEW m \in M PROVE m + 1 \in M
    <3>1. PICK g : IsReplay(g, m)
      OBVIOUS
    <3>2. m \in Nat
      OBVIOUS
    <3> DEFINE h == [i \in 0..(m + 1) |-> IF i = 0 THEN NoRows ELSE Turn(g[i - 1], i)]
    <3>3. \A i \in 0..m : g[i] = IF i = 0 THEN NoRows ELSE Turn(g[i - 1], i)
      BY <3>1
    <3>4. \A i \in 0..(m + 1) : h[i] = IF i = 0 THEN NoRows ELSE Turn(g[i - 1], i)
      OBVIOUS
    <3>5. \A i \in 0..m : h[i] = g[i]
      <4> HIDE DEF h, IsReplay, Turn
      <4> QED
        BY <3>2, <3>3, <3>4
    <3>6. \A i \in 0..(m + 1) : i # 0 => h[i - 1] = g[i - 1]
      <4>1. \A i \in 0..(m + 1) : i # 0 => i - 1 \in 0..m
        BY <3>2
      <4> HIDE DEF h, IsReplay, Turn
      <4> QED
        BY <3>5, <4>1
    <3>7. h = [i \in 0..(m + 1) |-> IF i = 0 THEN NoRows ELSE Turn(h[i - 1], i)]
      BY <3>6
    <3>8. IsReplay(h, m + 1)
      <4> HIDE DEF h
      <4> QED
        BY <3>7
    <3> HIDE DEF h, IsReplay
    <3> QED
      BY <3>8
  <2>3. M = Nat
    <3> M \in SUBSET Nat
      OBVIOUS
    <3> HIDE DEF M
    <3> QED
      BY <2>1, <2>2, NatIsInductive
  <2> QED
    BY <1>1, <2>3
<1>4. IsReplay(part, N)
  BY <1>3
<1> HIDE DEF part
<1>5. \A i \in 0..N : part[i] = IF i = 0 THEN NoRows ELSE Turn(part[i - 1], i)
  BY <1>4
<1>6. \A i \in Nat : open[i] = IF i <= N THEN part[i] ELSE part[N]
  OBVIOUS
<1> HIDE DEF open, Turn
<1>7. open[0] = NoRows
  BY <1>1, <1>5, <1>6
<1>8. ASSUME NEW i \in Nat \ {0} PROVE open[i] = Turn(open[i - 1], i)
  <2>1. CASE i <= N
    <3>1. i \in 0..N /\ i # 0 /\ i - 1 \in Nat /\ i - 1 <= N
      BY <1>1, <2>1
    <3> QED
      BY <1>5, <1>6, <2>1, <3>1
  <2>2. CASE ~(i <= N)
    <3>1. i \notin DOMAIN rows /\ i - 1 \in Nat /\ i - 1 >= N
      BY <1>1, <2>2
    <3>2. open[i - 1] = part[N]
      BY <1>1, <1>6, <3>1
    <3>3. Turn(open[i - 1], i) = open[i - 1]
      BY <3>1 DEF Turn
    <3> QED
      BY <1>6, <2>2, <3>2, <3>3
  <2> QED
    BY <2>1, <2>2
<1>9. ASSUME NEW m \in Nat, \A i \in DOMAIN rows : i <= m PROVE Replay(rows) = open[m]
  <2>1. N <= m
    BY <1>9, LastIdIs DEF N
  <2>2. open[m] = part[N]
    BY <1>1, <1>6, <2>1
  <2> QED
    BY <1>2, <2>2
<1>10. Replays(rows, open)
  BY <1>7, <1>8, <1>9 DEF Replays, Turn
<1> QED
  BY <1>10
\* Rows that differ in what is left of them only.
AlikeRows(row, other) == SameRow(row, other) /\ row.due = other.due

\* A payment is placed alike over rows that are alike.
LEMMA PlacedSame ==
    ASSUME NEW rows, NEW other, NEW open,
           \A b \in DOMAIN open : /\ rows[b] \in LedgerRow /\ other[b] \in LedgerRow
                                  /\ AlikeRows(rows[b], other[b]),
           NEW n
    PROVE  Placed(rows, open, n) = Placed(other, open, n)
<1> DEFINE B(r) == [b \in DOMAIN open |-> [r[b] EXCEPT !.opened = TRUE, !.remaining = open[b]]]
           F(buckets) == [b \in DOMAIN open |-> open[b] - TakenFrom(Allocation(buckets, n), b)]
<1>1. ASSUME NEW b \in DOMAIN open PROVE B(rows)[b] = B(other)[b]
  <2>1. rows[b] \in LedgerRow /\ other[b] \in LedgerRow /\ AlikeRows(rows[b], other[b])
    OBVIOUS
  <2> DEFINE r == rows[b]
             o == other[b]
             m == open[b]
  <2>2. r \in LedgerRow /\ o \in LedgerRow /\ AlikeRows(r, o)
    BY <2>1
  <2> HIDE DEF r, o, m
  <2>3. [r EXCEPT !.opened = TRUE, !.remaining = m] = [o EXCEPT !.opened = TRUE, !.remaining = m]
    BY <2>2 DEF LedgerRow, AlikeRows, SameRow
  <2> QED
    BY <2>3 DEF r, o, m
<1>2. B(rows) = B(other)
  BY <1>1
<1>3. Placed(rows, open, n) = F(B(rows)) /\ Placed(other, open, n) = F(B(other))
  BY DEF Placed
<1> HIDE DEF B, F
<1> QED
  BY <1>2, <1>3

\* A debit is taken from the same bucket.
LEMMA FirstSame ==
    ASSUME NEW rows, NEW other, NEW open,
           \A b \in DOMAIN open : AlikeRows(rows[b], other[b]), NEW p
    PROVE  FirstOfPolicy(rows, open, p) = FirstOfPolicy(other, open, p)
BY DEF FirstOfPolicy, AlikeRows, SameRow

\* A row is replayed alike over rows that are alike.
LEMMA TurnSame ==
    ASSUME NEW rows, NEW other, NEW open, NEW i,
           \A b \in DOMAIN open \cup {i} : /\ rows[b] \in LedgerRow /\ other[b] \in LedgerRow
                                           /\ AlikeRows(rows[b], other[b])
    PROVE  ReplayRow(rows, open, i) = ReplayRow(other, open, i)
<1>1. /\ rows[i].type = other[i].type /\ rows[i].policy = other[i].policy
      /\ rows[i].amount = other[i].amount
  BY DEF AlikeRows, SameRow
<1>2. IsBucket(rows[i]) <=> IsBucket(other[i])
  BY <1>1 DEF IsBucket
<1>3. Placed(rows, open, -rows[i].amount) = Placed(other, open, -rows[i].amount)
  BY PlacedSame
<1>4. FirstOfPolicy(rows, open, rows[i].policy) = FirstOfPolicy(other, open, rows[i].policy)
  BY FirstSame
<1> QED
  BY <1>1, <1>2, <1>3, <1>4 DEF ReplayRow

\* What a row does to the replay, by its kind.
LEMMA RowReplayed ==
    ASSUME NEW rows, NEW open, NEW i
    PROVE  /\ IsBucket(rows[i]) => ReplayRow(rows, open, i) = Over(Only(i, rows[i].amount), open)
           /\ rows[i].type = "PAYMENT" => ReplayRow(rows, open, i) = Placed(rows, open, -rows[i].amount)
           /\ (~IsBucket(rows[i]) /\ rows[i].type # "PAYMENT") =>
                 ReplayRow(rows, open, i) =
                     [b \in DOMAIN open |-> IF b \in FirstOfPolicy(rows, open, rows[i].policy)
                                            THEN open[b] + rows[i].amount ELSE open[b]]
<1>1. rows[i].type = "PAYMENT" => ~IsBucket(rows[i])
  BY DEF IsBucket
<1>2. ASSUME IsBucket(rows[i])
      PROVE  ReplayRow(rows, open, i) = Over(Only(i, rows[i].amount), open)
  BY <1>1, <1>2 DEF ReplayRow
<1>3. ASSUME rows[i].type = "PAYMENT", ~IsBucket(rows[i])
      PROVE  ReplayRow(rows, open, i) = Placed(rows, open, -rows[i].amount)
  BY <1>3 DEF ReplayRow
<1>4. ASSUME ~IsBucket(rows[i]), rows[i].type # "PAYMENT"
      PROVE  ReplayRow(rows, open, i) =
                 [b \in DOMAIN open |-> IF b \in FirstOfPolicy(rows, open, rows[i].policy)
                                        THEN open[b] + rows[i].amount ELSE open[b]]
  BY <1>4 DEF ReplayRow
<1> QED
  BY <1>1, <1>2, <1>3, <1>4

\* The buckets of a replay are those there are so far.
LEMMA ReplayedBuckets ==
    ASSUME NEW rows \in Tables, 0 \notin DOMAIN rows, NEW open, Replays(rows, open)
    PROVE  \A i \in Nat : DOMAIN open[i] = {b \in BucketsOf(rows) : b <= i}
<1> DEFINE B(i) == {b \in BucketsOf(rows) : b <= i}
           M == {i \in Nat : DOMAIN open[i] = B(i)}
<1>1. BucketsOf(rows) \subseteq Nat \ {0} /\ BucketsOf(rows) = {i \in DOMAIN rows : IsBucket(rows[i])}
  BY TablesAre DEF BucketsOf
<1>2. 0 \in M
  <2>1. open[0] = NoRows
    BY DEF Replays
  <2>2. B(0) = {}
    BY <1>1
  <2> QED
    BY <2>1, <2>2 DEF NoRows
<1>3. ASSUME NEW i \in M PROVE i + 1 \in M
  <2>1. i \in Nat /\ i + 1 \in Nat \ {0} /\ (i + 1) - 1 = i /\ DOMAIN open[i] = B(i)
    OBVIOUS
  <2>2. open[i + 1] = IF i + 1 \in DOMAIN rows THEN ReplayRow(rows, open[i], i + 1) ELSE open[i]
    BY <2>1 DEF Replays
  <2>3. \A b \in BucketsOf(rows) : b <= i + 1 <=> b <= i \/ b = i + 1
    BY <1>1, <2>1
  <2>4. CASE i + 1 \notin DOMAIN rows
    BY <1>1, <2>1, <2>2, <2>3, <2>4
  <2>5. CASE i + 1 \in DOMAIN rows /\ IsBucket(rows[i + 1])
    <3>0. ReplayRow(rows, open[i], i + 1) = Over(Only(i + 1, rows[i + 1].amount), open[i])
      BY <2>5, RowReplayed
    <3>1. open[i + 1] = Over(Only(i + 1, rows[i + 1].amount), open[i])
      BY <2>2, <2>5, <3>0
    <3>2. DOMAIN open[i + 1] = {i + 1} \cup DOMAIN open[i]
      BY <3>1 DEF Over, Only
    <3> QED
      BY <1>1, <2>1, <2>3, <2>5, <3>2
  <2>6. CASE i + 1 \in DOMAIN rows /\ ~IsBucket(rows[i + 1])
    <3>0. DOMAIN ReplayRow(rows, open[i], i + 1) = DOMAIN open[i]
      <4> DEFINE o == open[i]
                 j == i + 1
      <4> HIDE DEF o, j
      <4>1. DOMAIN ReplayRow(rows, o, j) = DOMAIN o
        <5>1. CASE rows[j].type = "PAYMENT"
          <6>1. ReplayRow(rows, o, j) = Placed(rows, o, -rows[j].amount)
            BY <5>1, RowReplayed
          <6>2. \A n : DOMAIN Placed(rows, o, n) = DOMAIN o
            BY DEF Placed
          <6> QED
            BY <6>1, <6>2
        <5>2. CASE rows[j].type # "PAYMENT"
          <6>1. ~IsBucket(rows[j])
            BY <2>6 DEF j
          <6>2. ReplayRow(rows, o, j) =
                     [b \in DOMAIN o |-> IF b \in FirstOfPolicy(rows, o, rows[j].policy)
                                         THEN o[b] + rows[j].amount ELSE o[b]]
            BY <5>2, <6>1, RowReplayed
          <6> QED
            BY <6>2
        <5> QED
          BY <5>1, <5>2
      <4> QED
        BY <4>1 DEF o, j
    <3>1. DOMAIN open[i + 1] = DOMAIN open[i]
      BY <2>2, <2>6, <3>0
    <3> QED
      BY <1>1, <2>1, <2>3, <2>6, <3>1
  <2> QED
    BY <2>4, <2>5, <2>6
<1>4. M = Nat
  <2> M \in SUBSET Nat
    OBVIOUS
  <2> HIDE DEF M
  <2> QED
    BY <1>2, <1>3, NatIsInductive
<1> QED
  BY <1>4

\* Ledgers that are alike up to a row replay to the same up to it.
LEMMA ReplaysAlike ==
    ASSUME NEW rows \in Tables, NEW other \in Tables, 0 \notin DOMAIN rows, 0 \notin DOMAIN other,
           NEW a, NEW b, Replays(rows, a), Replays(other, b), NEW j \in Nat,
           \A i \in Nat : i < j => /\ i \in DOMAIN rows <=> i \in DOMAIN other
                                   /\ i \in DOMAIN rows => AlikeRows(rows[i], other[i])
    PROVE  \A i \in Nat : i < j => a[i] = b[i]
<1> DEFINE M == {i \in Nat : i < j => a[i] = b[i]}
<1>1. 0 \in M
  BY DEF Replays
<1>2. ASSUME NEW i \in M PROVE i + 1 \in M
  <2> SUFFICES ASSUME i + 1 < j PROVE a[i + 1] = b[i + 1]
    OBVIOUS
  <2>1. i \in Nat /\ i < j /\ i + 1 \in Nat \ {0} /\ (i + 1) - 1 = i /\ a[i] = b[i]
    OBVIOUS
  <2>2. a[i + 1] = IF i + 1 \in DOMAIN rows THEN ReplayRow(rows, a[i], i + 1) ELSE a[i]
    BY <2>1 DEF Replays
  <2>3. b[i + 1] = IF i + 1 \in DOMAIN other THEN ReplayRow(other, b[i], i + 1) ELSE b[i]
    BY <2>1 DEF Replays
  <2>4. i + 1 \in DOMAIN rows <=> i + 1 \in DOMAIN other
    BY <2>1
  <2>5. ASSUME i + 1 \in DOMAIN rows
        PROVE  ReplayRow(rows, a[i], i + 1) = ReplayRow(other, a[i], i + 1)
    <3>1. DOMAIN a[i] = {c \in BucketsOf(rows) : c <= i}
      BY <2>1, ReplayedBuckets
    <3>2. DOMAIN rows \subseteq Nat /\ BucketsOf(rows) \subseteq DOMAIN rows
      BY TablesAre DEF BucketsOf
    <3>3. \A c \in DOMAIN a[i] \cup {i + 1} : c \in Nat /\ c < j /\ c \in DOMAIN rows
      BY <2>1, <2>5, <3>1, <3>2
    <3>4. \A c \in DOMAIN a[i] \cup {i + 1} :
              c \in DOMAIN rows /\ c \in DOMAIN other /\ AlikeRows(rows[c], other[c])
      BY <3>3
    <3>5. /\ \A c \in DOMAIN rows : rows[c] \in LedgerRow
          /\ \A c \in DOMAIN other : other[c] \in LedgerRow
      BY TablesAre DEF Admitted
    <3> QED
      BY <3>4, <3>5, TurnSame
  <2> QED
    BY <2>1, <2>2, <2>3, <2>4, <2>5
<1>3. M = Nat
  <2> M \in SUBSET Nat
    OBVIOUS
  <2> HIDE DEF M
  <2> QED
    BY <1>1, <1>2, NatIsInductive
<1> QED
  BY <1>3

\* Ledgers that are alike replay to the same.
LEMMA ReplaySame ==
    ASSUME NEW rows \in Tables, NEW other \in Tables, 0 \notin DOMAIN rows,
           DOMAIN other = DOMAIN rows, \A i \in DOMAIN rows : AlikeRows(rows[i], other[i])
    PROVE  Replay(rows) = Replay(other)
<1>1. PICK a : Replays(rows, a)
  BY ReplayInTurns
<1>2. PICK b : Replays(other, b)
  BY ReplayInTurns
<1>3. PICK m \in Nat : \A i \in DOMAIN rows : i <= m
  BY LastIdIs
<1>4. Replay(rows) = a[m] /\ Replay(other) = b[m]
  BY <1>1, <1>2, <1>3 DEF Replays
<1>5. m + 1 \in Nat /\ m < m + 1
  OBVIOUS
<1> DEFINE j == m + 1
<1>6. j \in Nat
  BY <1>5
<1>7. 0 \notin DOMAIN other
  OBVIOUS
<1>8. \A i \in Nat : i < j => /\ (i \in DOMAIN rows <=> i \in DOMAIN other)
                              /\ (i \in DOMAIN rows => AlikeRows(rows[i], other[i]))
  OBVIOUS
<1> HIDE DEF j
<1>9. \A i \in Nat : i < j => a[i] = b[i]
  BY <1>1, <1>2, <1>6, <1>7, <1>8, ReplaysAlike
<1>10. a[m] = b[m]
  BY <1>5, <1>9 DEF j
<1> QED
  BY <1>4, <1>10

\* A row that comes after all others is replayed last.
LEMMA ReplayMore ==
    ASSUME NEW rows \in Tables, 0 \notin DOMAIN rows, NEW j \in Nat \ {0},
           \A i \in DOMAIN rows : i < j, NEW row \in Admitted,
           NEW all \in Tables, all = Over(Only(j, row), rows)
    PROVE  Replay(all) = ReplayRow(all, Replay(rows), j)
<1>1. PICK a : Replays(rows, a)
  BY ReplayInTurns
<1>2. PICK b : Replays(all, b)
  BY ReplayInTurns
<1>3. /\ DOMAIN all = DOMAIN rows \cup {j} /\ j \notin DOMAIN rows
      /\ \A i \in DOMAIN rows : all[i] = rows[i]
  BY DEF Over, Only
<1>4. DOMAIN rows \subseteq Nat
  BY TablesAre
<1>5. j - 1 \in Nat /\ j - 1 < j /\ \A i \in DOMAIN rows : i <= j - 1
  BY <1>4
<1>6. \A i \in DOMAIN all : i <= j
  BY <1>3, <1>4
<1>7. Replay(rows) = a[j - 1] /\ Replay(all) = b[j]
  BY <1>1, <1>2, <1>5, <1>6 DEF Replays
<1>8. b[j] = ReplayRow(all, b[j - 1], j)
  BY <1>2, <1>3 DEF Replays
<1>9. \A i \in Nat : i < j => /\ i \in DOMAIN rows <=> i \in DOMAIN all
                              /\ i \in DOMAIN rows => AlikeRows(rows[i], all[i])
  BY <1>3 DEF AlikeRows, SameRow
<1>10. 0 \notin DOMAIN all
  BY <1>3
<1>11. \A i \in Nat : i < j => a[i] = b[i]
  BY <1>1, <1>2, <1>9, <1>10, ReplaysAlike
<1> QED
  BY <1>5, <1>7, <1>8, <1>11

\* A replay leaves something of each bucket there is.
LEMMA ReplayDomain ==
    ASSUME NEW rows \in Tables, 0 \notin DOMAIN rows
    PROVE  DOMAIN Replay(rows) = BucketsOf(rows)
<1>1. PICK a : Replays(rows, a)
  BY ReplayInTurns
<1>2. PICK m \in Nat : \A i \in DOMAIN rows : i <= m
  BY LastIdIs
<1>3. Replay(rows) = a[m] /\ DOMAIN a[m] = {b \in BucketsOf(rows) : b <= m}
  BY <1>1, <1>2, ReplayedBuckets DEF Replays
<1> QED
  BY <1>2, <1>3 DEF BucketsOf

-----------------------------------------------------------------------------
(* A payment that is replayed.                                               *)

\* The buckets by due date are those of any ledger with the same buckets and due
\* dates.
LEMMA OldestFirstSame ==
    ASSUME NEW rows \in Tables, NEW other \in Tables, BucketsOf(other) = BucketsOf(rows),
           \A b \in BucketsOf(rows) : rows[b].due = other[b].due
    PROVE  OldestFirst(other) = OldestFirst(rows)
<1> DEFINE B == BucketsOf(rows)
           n == Cardinality(B)
           a == OldestFirst(rows)
           b == OldestFirst(other)
           Before(i) == {j \in B : Older(rows, j, i)}
<1>1. /\ n \in Nat /\ a \in [1..n -> B]
      /\ \A k \in 1..n : Cardinality(Before(a[k])) = k - 1
      /\ \A c \in B : a[Cardinality(Before(c)) + 1] = c
  BY OlderComeFirst
<1>2. /\ b \in [1..n -> B]
      /\ \A k \in 1..n : Cardinality({j \in B : Older(other, j, b[k])}) = k - 1
  BY OlderComeFirst
<1>3. \A i, j \in B : Older(other, j, i) <=> Older(rows, j, i)
  BY DEF Older
<1> HIDE DEF a, b, n
<1>4. ASSUME NEW k \in 1..n PROVE b[k] = a[k]
  <2>1. b[k] \in B
    BY <1>2
  <2>2. {j \in B : Older(other, j, b[k])} = Before(b[k])
    BY <1>3, <2>1
  <2>3. Cardinality(Before(b[k])) = k - 1
    BY <1>2, <2>2
  <2> HIDE DEF B, Before
  <2>4. a[(k - 1) + 1] = b[k]
    BY <1>1, <2>1, <2>3
  <2> QED
    BY <1>1, <2>4
<1> HIDE DEF B, Before
<1>5. a = b
  BY <1>1, <1>2, <1>4
<1> QED
  BY <1>5 DEF a, b

\* A payment's plan is that of any ledger with the same buckets.
LEMMA AllocationSame ==
    ASSUME NEW rows \in Tables, NEW other \in Tables, BucketsOf(other) = BucketsOf(rows),
           BucketsOf(rows) # {},
           \A b \in BucketsOf(rows) : rows[b].due = other[b].due /\ rows[b].remaining = other[b].remaining,
           NEW n \in Nat
    PROVE  Allocation(other, n) = Allocation(rows, n)
<1> DEFINE e == OldestFirst(rows)
           N == Len(e)
<1>1. OldestFirst(other) = e
  BY OldestFirstSame
<1>2. /\ N \in Nat /\ \A k \in 1..N : e[k] \in BucketsOf(rows)
      /\ \E a : InTurns(rows, n, a)
  BY AllocationInTurns
<1>3. \E b : InTurns(other, n, b)
  BY AllocationInTurns
<1>4. PICK a : InTurns(rows, n, a)
  BY <1>2
<1>5. PICK b : InTurns(other, n, b)
  BY <1>3
<1> DEFINE Plan(s) == IF s[N].left > 0 THEN Append(s[N].plan, Decrement(s[N].last, s[N].left)) ELSE s[N].plan
<1>6. /\ a[0] = [left |-> n, last |-> Last(e), plan |-> << >>]
      /\ \A k \in 1..N : a[k] = Settle(rows, a[k - 1], e[k])
      /\ Allocation(rows, n) = Plan(a)
  BY <1>4 DEF InTurns
<1>7. /\ b[0] = [left |-> n, last |-> Last(e), plan |-> << >>]
      /\ \A k \in 1..N : b[k] = Settle(other, b[k - 1], e[k])
      /\ Allocation(other, n) = Plan(b)
  BY <1>1, <1>5 DEF InTurns
<1> HIDE DEF e, N
<1>8. ASSUME NEW k \in 1..N, NEW s PROVE Settle(rows, s, e[k]) = Settle(other, s, e[k])
  <2>1. rows[e[k]].remaining = other[e[k]].remaining
    BY <1>2
  <2> QED
    BY <2>1 DEF Settle
<1>9. a[N] = b[N]
  <2> DEFINE M == {m \in Nat : m <= N => a[m] = b[m]}
  <2>1. 0 \in M
    BY <1>6, <1>7
  <2>2. ASSUME NEW m \in M PROVE m + 1 \in M
    <3> SUFFICES ASSUME m + 1 <= N PROVE a[m + 1] = b[m + 1]
      OBVIOUS
    <3>1. m \in Nat /\ m + 1 \in 1..N /\ (m + 1) - 1 = m /\ a[m] = b[m]
      BY <1>2
    <3>2. a[m + 1] = Settle(rows, a[m], e[m + 1]) /\ b[m + 1] = Settle(other, b[m], e[m + 1])
      BY <1>6, <1>7, <3>1
    <3> QED
      BY <1>8, <3>1, <3>2
  <2>3. M = Nat
    <3> M \in SUBSET Nat
      OBVIOUS
    <3> HIDE DEF M
    <3> QED
      BY <2>1, <2>2, NatIsInductive
  <2> QED
    BY <1>2, <2>3
<1> QED
  BY <1>6, <1>7, <1>9

\* The decrements of a list leave of each bucket what they do not take from it.
LEMMA LeadsBySum ==
    ASSUME NEW rows, NEW list \in Seq(Takings(rows)), NEW left \in [BucketsOf(rows) -> Int],
           NEW after, Leads(list, left, after)
    PROVE  after = [b \in BucketsOf(rows) |-> left[b] - TakenFrom(list, b)]
<1> DEFINE S == BucketsOf(rows)
           N == Len(list)
           f == [l \in DOMAIN list |-> list[l].by]
           K(k, b) == {l \in 1..k : list[l].row = b}
<1>0. ASSUME NEW T, IsFiniteSet(T), \A l \in T : f[l] \in Int, NEW y \in T
      PROVE  SumFunctionOnSet(f, T) = f[y] + SumFunctionOnSet(f, T \ {y})
  <2> HIDE DEF f, S, N
  <2> QED
    BY <1>0, SumRemove
<1>1. PICK path \in [1..(N + 1) -> [DOMAIN left -> Int]] :
          /\ path[1] = left
          /\ \A k \in 1..N : path[k + 1] = Taken(path[k], list[k])
          /\ path[N + 1] = after
  BY DEF Leads
<1>2. N \in Nat /\ DOMAIN list = 1..N /\ DOMAIN left = S /\ \A k \in 1..N : list[k] \in Takings(rows)
  OBVIOUS
<1>3. \A k \in 1..N : list[k].row \in S /\ list[k].by \in Int
  BY <1>2, StatementFields DEF Takings
<1>4. \A k \in 0..N, b \in S : /\ IsFiniteSet(K(k, b)) /\ K(k, b) \subseteq 1..N
                               /\ SumFunctionOnSet(f, K(k, b)) \in Int
  <2> SUFFICES ASSUME NEW k \in 0..N, NEW b \in S
               PROVE  /\ IsFiniteSet(K(k, b)) /\ K(k, b) \subseteq 1..N
                      /\ SumFunctionOnSet(f, K(k, b)) \in Int
    OBVIOUS
  <2>1. K(k, b) \subseteq 1..N /\ K(k, b) \subseteq 1..k
    BY <1>2
  <2>2. IsFiniteSet(1..k)
    BY FS_Interval
  <2>3. IsFiniteSet(K(k, b))
    BY <2>1, <2>2, FS_Subset
  <2>4. \A l \in K(k, b) : f[l] \in Int
    BY <1>2, <1>3, <2>1
  <2> HIDE DEF K, f
  <2> QED
    BY <2>1, <2>3, <2>4, SumType
<1> DEFINE M == {k \in Nat : k <= N => \A b \in S : path[k + 1][b] = left[b] - SumFunctionOnSet(f, K(k, b))}
<1>5. 0 \in M
  <2>1. \A b : K(0, b) = {}
    OBVIOUS
  <2>2. \A b \in S : left[b] - SumFunctionOnSet(f, K(0, b)) = left[b]
    BY <2>1, SumEmpty
  <2> HIDE DEF K, f
  <2> QED
    BY <1>1, <2>2
<1>6. ASSUME NEW k \in M PROVE k + 1 \in M
  <2> SUFFICES ASSUME k + 1 <= N, NEW b \in S
               PROVE  path[(k + 1) + 1][b] = left[b] - SumFunctionOnSet(f, K(k + 1, b))
    OBVIOUS
  <2>1. k \in Nat /\ k + 1 \in 1..N /\ k \in 0..N /\ k + 1 \in 0..N /\ k + 1 \in 1..(N + 1)
    BY <1>2
  <2>2. path[k + 1][b] = left[b] - SumFunctionOnSet(f, K(k, b))
    BY <2>1
  <2>3. path[(k + 1) + 1] = Taken(path[k + 1], list[k + 1])
    BY <1>1, <2>1
  <2>4. path[k + 1] \in [S -> Int]
    BY <1>1, <1>2, <2>1
  <2>5. path[(k + 1) + 1][b] = IF b = list[k + 1].row THEN path[k + 1][b] - list[k + 1].by ELSE path[k + 1][b]
    BY <1>3, <2>1, <2>3, <2>4 DEF Taken
  <2>6. CASE b # list[k + 1].row
    <3>1. K(k + 1, b) = K(k, b)
      BY <2>1, <2>6
    <3> HIDE DEF K
    <3> QED
      BY <2>2, <2>5, <2>6, <3>1
  <2>7. CASE b = list[k + 1].row
    <3>1. k + 1 \in K(k + 1, b) /\ K(k + 1, b) \ {k + 1} = K(k, b)
      BY <2>1, <2>7
    <3>2. \A l \in K(k + 1, b) : f[l] \in Int
      BY <1>2, <1>3, <1>4, <2>1
    <3>3. f[k + 1] = list[k + 1].by
      BY <1>2, <2>1
    <3>4. IsFiniteSet(K(k + 1, b)) /\ SumFunctionOnSet(f, K(k, b)) \in Int
      BY <1>4, <2>1
    <3> DEFINE more == K(k + 1, b)
               sum == SumFunctionOnSet(f, K(k, b))
               all == SumFunctionOnSet(f, more)
               j == k + 1
               x == path[k + 1][b]
    <3>5. j \in more /\ IsFiniteSet(more) /\ (\A l \in more : f[l] \in Int) /\ more \ {j} = K(k, b)
      BY <3>1, <3>2, <3>4
    <3> HIDE DEF K, f, M, more, j
    <3>a. SumFunctionOnSet(f, more) = f[j] + SumFunctionOnSet(f, more \ {j})
      <4>1. j \in more /\ IsFiniteSet(more) /\ \A l \in more : f[l] \in Int
        BY <3>5
      <4> HIDE DEF all, sum, x, S, N
      <4> QED
        BY <4>1, <1>0
    <3>6. all = f[j] + sum
      BY <3>5, <3>a
    <3>7. left[b] \in Int /\ list[k + 1].by \in Int
      BY <1>3, <2>1
    <3>8. x = left[b] - sum /\ path[(k + 1) + 1][b] = x - list[k + 1].by
      BY <2>2, <2>5, <2>7
    <3>9. sum \in Int /\ f[j] = list[k + 1].by
      BY <3>3, <3>4 DEF j
    <3> HIDE DEF sum, all, x
    <3>10. path[(k + 1) + 1][b] = left[b] - all
      BY <3>6, <3>7, <3>8, <3>9
    <3> QED
      BY <3>10 DEF all, more
  <2> QED
    BY <2>6, <2>7
<1>7. M = Nat
  <2> M \in SUBSET Nat
    OBVIOUS
  <2> HIDE DEF M
  <2> QED
    BY <1>5, <1>6, NatIsInductive
<1>8. \A b \in S : after[b] = left[b] - SumFunctionOnSet(f, K(N, b))
  <2>1. N \in M
    BY <1>2, <1>7
  <2>2. \A b \in S : path[N + 1][b] = left[b] - SumFunctionOnSet(f, K(N, b))
    BY <1>2, <2>1
  <2> QED
    BY <1>1, <2>2
<1>9. \A b \in S : TakenFrom(list, b) = SumFunctionOnSet(f, K(N, b))
  <2> SUFFICES ASSUME NEW b \in S PROVE TakenFrom(list, b) = SumFunctionOnSet(f, K(N, b))
    OBVIOUS
  <2> DEFINE g == [k \in {k \in DOMAIN list : list[k].row = b} |-> list[k].by]
  <2>1. {k \in DOMAIN list : list[k].row = b} = K(N, b)
    BY <1>2
  <2>2. TakenFrom(list, b) = SumFunctionOnSet(g, {k \in DOMAIN list : list[k].row = b})
    BY DEF TakenFrom, SumOf
  <2>3. \A l \in K(N, b) : g[l] = f[l]
    BY <1>2, <2>1
  <2> HIDE DEF g, f, K, M
  <2>4. IsFiniteSet(K(N, b))
    BY <1>2, <1>4
  <2>5. SumFunctionOnSet(g, K(N, b)) = SumFunctionOnSet(f, K(N, b))
    BY <2>3, <2>4, SumSame
  <2> QED
    BY <2>1, <2>2, <2>5
<1>10. after \in [S -> Int]
  <2>1. N + 1 \in 1..(N + 1)
    BY <1>2
  <2> QED
    BY <1>1, <1>2, <2>1
<1> HIDE DEF f, K, M
<1> QED
  BY <1>8, <1>9, <1>10

\* A payment that is replayed leaves of the buckets what its plan did.
LEMMA PlacedIs ==
    ASSUME NEW rows \in Tables, BucketsOf(rows) # {}, NEW n \in Nat, NEW all,
           \A b \in BucketsOf(rows) : all[b] = rows[b]
    PROVE  Leads(Allocation(rows, n), Remaining(rows), Placed(all, Remaining(rows), n))
<1> DEFINE B == BucketsOf(rows)
           left == Remaining(rows)
           buckets == [b \in B |-> [all[b] EXCEPT !.opened = TRUE, !.remaining = left[b]]]
           F(plan) == [b \in B |-> left[b] - TakenFrom(plan, b)]
<1>1. /\ left \in [B -> Int] /\ \A b \in B : left[b] = rows[b].remaining
  BY RemainingIs DEF Remaining
<1>2. B \subseteq DOMAIN rows /\ DOMAIN rows \subseteq Nat /\ IsFiniteSet(B)
      /\ \A b \in B : rows[b] \in LedgerRow /\ SignOK(rows[b]) /\ IsBucket(rows[b])
  <2>1. B \subseteq DOMAIN rows
    BY DEF BucketsOf
  <2>2. \A b \in B : rows[b] \in Admitted
    BY <2>1, TablesAre
  <2> QED
    BY <2>1, <2>2, TablesAre, FS_Subset DEF Admitted, BucketsOf
<1> HIDE DEF left
<1>3. ASSUME NEW b \in B
      PROVE  /\ buckets[b] \in Admitted /\ IsBucket(buckets[b])
             /\ buckets[b].due = rows[b].due /\ buckets[b].remaining = rows[b].remaining
  <2> DEFINE r == rows[b]
             m == left[b]
             new == [r EXCEPT !.opened = TRUE, !.remaining = m]
  <2>1. r \in LedgerRow /\ SignOK(r) /\ IsBucket(r) /\ m \in Int /\ m = r.remaining
    BY <1>1, <1>2
  <2>2. buckets[b] = new
    OBVIOUS
  <2> HIDE DEF r, m, buckets
  <2>3. /\ new \in LedgerRow /\ new.type = r.type /\ new.amount = r.amount
        /\ new.due = r.due /\ new.remaining = m
    BY <2>1 DEF LedgerRow
  <2>4. SignOK(new) /\ IsBucket(new)
    BY <2>1, <2>3 DEF SignOK, IsBucket
  <2> QED
    BY <2>1, <2>2, <2>3, <2>4 DEF Admitted, r
<1>4. DOMAIN buckets = B
  OBVIOUS
<1>5. Placed(all, left, n) = F(Allocation(buckets, n))
  BY <1>1 DEF Placed
<1> HIDE DEF buckets
<1>6. buckets \in Tables /\ BucketsOf(buckets) = B
  <2>1. buckets \in [B -> Admitted]
    <3>1. buckets = [b \in B |-> buckets[b]]
      BY <1>4 DEF buckets
    <3> QED
      BY <1>3, <3>1
  <2>2. buckets \in Tables
    BY <1>2, <1>4, <2>1, TablesAre
  <2>3. BucketsOf(buckets) = B
    <3> HIDE DEF B
    <3> QED
      BY <1>3, <1>4 DEF BucketsOf
  <2> QED
    BY <2>2, <2>3
<1>7. Allocation(buckets, n) = Allocation(rows, n)
  BY <1>3, <1>6, AllocationSame
<1>8. /\ Allocation(rows, n) \in Seq(Takings(rows))
      /\ \E after : Leads(Allocation(rows, n), left, after)
  BY AllocationInOrder DEF left
<1>9. PICK after : Leads(Allocation(rows, n), left, after)
  BY <1>8
<1>10. after = F(Allocation(rows, n))
  BY <1>1, <1>8, <1>9, LeadsBySum
<1> HIDE DEF F
<1> QED
  BY <1>5, <1>7, <1>9, <1>10 DEF left

-----------------------------------------------------------------------------
(* What a row more, or less left of one, does to a ledger and its replay.    *)

Cancelled(rows) == \E i \in DOMAIN rows : rows[i].type = "CANCELLED_POLICY"

\* A policy is issued before any other bucket of it is opened.
Rooted(rows) ==
    /\ 0 \notin DOMAIN rows
    /\ \A b \in BucketsOf(rows) :
          /\ IssuanceRows(rows, rows[b].policy) # {}
          /\ \A i \in IssuanceRows(rows, rows[b].policy) : i <= b

\* Replaying the ledger gives back what is left of its buckets, unless a policy was
\* cancelled.
Standing(rows) == Cancelled(rows) \/ Replay(rows) = Remaining(rows)

\* A ledger with a row more, that comes last.
IsMore(w, v, j, row) ==
    /\ j \in Nat \ {0}
    /\ \A i \in DOMAIN v : i < j
    /\ w = Over(Only(j, row), v)

\* What there is then.
Grown(w, v, j, row) ==
    /\ w \in Tables /\ DOMAIN w = DOMAIN v \cup {j} /\ j \notin DOMAIN v
    /\ j \in Nat \ {0} /\ \A i \in DOMAIN v : i < j
    /\ w[j] = row /\ \A i \in DOMAIN v : w[i] = v[i]
    /\ BucketsOf(w) = BucketsOf(v) \cup (IF IsBucket(row) THEN {j} ELSE {})
    /\ \A p : IssuanceRows(w, p) =
                  IssuanceRows(v, p) \cup (IF row.type = "ISSUANCE" /\ row.policy = p THEN {j} ELSE {})
    /\ Cancelled(v) \/ row.type = "CANCELLED_POLICY" <=> Cancelled(w)

\* A ledger with a row more has the buckets and issuances it had, and the row's.
LEMMA RowAdded ==
    ASSUME NEW v \in Tables, NEW j, NEW row \in Admitted, NEW w, IsMore(w, v, j, row)
    PROVE  Grown(w, v, j, row)
<1>1. j \in Nat \ {0} /\ (\A i \in DOMAIN v : i < j) /\ w = Over(Only(j, row), v)
  BY DEF IsMore
<1>2. DOMAIN v \subseteq Nat
  BY TablesAre
<1>3. j \notin DOMAIN v /\ j \in Nat
  BY <1>1, <1>2
<1>4. /\ w \in Tables /\ DOMAIN w = DOMAIN v \cup {j} /\ w[j] = row
      /\ \A i \in DOMAIN v \ {j} : w[i] = v[i]
  <2> DEFINE o == Over(Only(j, row), v)
  <2>1. /\ o \in Tables /\ DOMAIN o = DOMAIN v \cup {j} /\ o[j] = row
        /\ \A i \in DOMAIN v \ {j} : o[i] = v[i]
    BY <1>3, OneWritten
  <2>2. w = o
    BY <1>1
  <2> HIDE DEF o
  <2> QED
    BY <2>1, <2>2
<1>5. \A i \in DOMAIN v : w[i] = v[i]
  BY <1>3, <1>4
<1>6. BucketsOf(w) = BucketsOf(v) \cup (IF IsBucket(row) THEN {j} ELSE {})
  BY <1>3, <1>4, <1>5 DEF BucketsOf
<1>7. ASSUME NEW p
      PROVE  IssuanceRows(w, p) = IssuanceRows(v, p)
                 \cup (IF row.type = "ISSUANCE" /\ row.policy = p THEN {j} ELSE {})
  BY <1>3, <1>4, <1>5 DEF IssuanceRows
<1>8. Cancelled(v) \/ row.type = "CANCELLED_POLICY" <=> Cancelled(w)
  BY <1>3, <1>4, <1>5 DEF Cancelled
<1> QED
  BY <1>1, <1>3, <1>4, <1>5, <1>6, <1>7, <1>8 DEF Grown

\* A new bucket is its policy's first only when it issues it.
LEMMA RootedGrows ==
    ASSUME NEW v \in Tables, NEW j, NEW row \in Admitted, NEW w, IsMore(w, v, j, row),
           Rooted(v),
           IsBucket(row) => (row.type = "ISSUANCE" <=> IssuanceRows(v, row.policy) = {})
    PROVE  Rooted(w)
<1>1. /\ w \in Tables /\ DOMAIN w = DOMAIN v \cup {j} /\ j \notin DOMAIN v
      /\ j \in Nat \ {0} /\ \A i \in DOMAIN v : i < j
      /\ w[j] = row /\ \A i \in DOMAIN v : w[i] = v[i]
      /\ BucketsOf(w) = BucketsOf(v) \cup (IF IsBucket(row) THEN {j} ELSE {})
      /\ \A p : IssuanceRows(w, p) = IssuanceRows(v, p)
                    \cup (IF row.type = "ISSUANCE" /\ row.policy = p THEN {j} ELSE {})
  <2>1. Grown(w, v, j, row)
    BY RowAdded
  <2> QED
    BY <2>1 DEF Grown
<1>2. DOMAIN v \subseteq Nat /\ BucketsOf(v) \subseteq DOMAIN v
      /\ \A p : IssuanceRows(v, p) \subseteq DOMAIN v
  BY TablesAre DEF BucketsOf, IssuanceRows
<1>3. row.type = "ISSUANCE" => IsBucket(row)
  BY DEF IsBucket
<1>4. ASSUME NEW b \in BucketsOf(v)
      PROVE  /\ IssuanceRows(w, w[b].policy) # {}
             /\ \A i \in IssuanceRows(w, w[b].policy) : i <= b
  <2>1. w[b] = v[b] /\ IssuanceRows(v, v[b].policy) # {}
        /\ \A i \in IssuanceRows(v, v[b].policy) : i <= b
    BY <1>1, <1>2 DEF Rooted
  <2>2. ~(row.type = "ISSUANCE" /\ row.policy = v[b].policy)
    BY <1>3, <2>1
  <2> QED
    BY <1>1, <2>1, <2>2
<1>5. ASSUME IsBucket(row)
      PROVE  /\ IssuanceRows(w, w[j].policy) # {}
             /\ \A i \in IssuanceRows(w, w[j].policy) : i <= j
  <2>1. IssuanceRows(w, row.policy) # {}
    BY <1>1, <1>5
  <2>2. \A i \in DOMAIN v : i <= j
    BY <1>1, <1>2
  <2>3. \A i \in IssuanceRows(w, row.policy) : i \in DOMAIN v \/ i = j
    BY <1>1, <1>2
  <2> QED
    BY <1>1, <2>1, <2>2, <2>3
<1>6. 0 \notin DOMAIN w
  BY <1>1 DEF Rooted
<1> QED
  BY <1>1, <1>4, <1>5, <1>6 DEF Rooted

\* A bucket more is replayed to what it is worth.
LEMMA BucketAdded ==
    ASSUME NEW v \in Tables, NEW j, NEW row \in Admitted, NEW w, IsMore(w, v, j, row),
           Rooted(v), IsBucket(row)
    PROVE  /\ Replay(w) = Over(Only(j, row.amount), Replay(v))
           /\ Remaining(w) = Over(Only(j, row.remaining), Remaining(v))
<1>1. /\ w \in Tables /\ j \notin DOMAIN v /\ w[j] = row /\ \A i \in DOMAIN v : w[i] = v[i]
      /\ BucketsOf(w) = BucketsOf(v) \cup {j}
  <2>1. Grown(w, v, j, row)
    BY RowAdded
  <2> QED
    BY <2>1 DEF Grown
<1>2. Replay(w) = ReplayRow(w, Replay(v), j)
  BY <1>1, ReplayMore DEF Rooted, IsMore
<1>3. Replay(w) = Over(Only(j, row.amount), Replay(v))
  BY <1>1, <1>2, RowReplayed
<1>4. DOMAIN Remaining(v) = BucketsOf(v) /\ BucketsOf(v) \subseteq DOMAIN v
      /\ \A b \in BucketsOf(v) : Remaining(v)[b] = v[b].remaining
  BY DEF Remaining, BucketsOf
<1>5. Over(Only(j, row.remaining), Remaining(v)) =
          [b \in BucketsOf(v) \cup {j} |-> IF b = j THEN row.remaining ELSE Remaining(v)[b]]
  BY <1>4 DEF Over, Only
<1>6. Remaining(w) = [b \in BucketsOf(v) \cup {j} |-> IF b = j THEN row.remaining ELSE Remaining(v)[b]]
  BY <1>1, <1>4 DEF Remaining
<1> QED
  BY <1>3, <1>5, <1>6

\* A debit is replayed against the issuance of its policy.
LEMMA DebitAdded ==
    ASSUME NEW v \in Tables, NEW j, NEW row \in Admitted, NEW w, IsMore(w, v, j, row),
           Rooted(v),
           ~IsBucket(row), row.type # "PAYMENT", NEW i \in IssuanceRows(v, row.policy)
    PROVE  /\ Replay(w) = [b \in BucketsOf(v) |-> IF b = i THEN Replay(v)[b] + row.amount
                                               ELSE Replay(v)[b]]
           /\ Remaining(w) = Remaining(v)
<1> DEFINE open == Replay(v)
<1>1. /\ w \in Tables /\ j \notin DOMAIN v /\ w[j] = row /\ \A k \in DOMAIN v : w[k] = v[k]
      /\ BucketsOf(w) = BucketsOf(v)
  <2>1. Grown(w, v, j, row)
    BY RowAdded
  <2> QED
    BY <2>1 DEF Grown
<1>2. Replay(w) = ReplayRow(w, open, j)
  BY <1>1, ReplayMore DEF Rooted, IsMore
<1> DEFINE first == FirstOfPolicy(w, open, row.policy)
<1>3. Replay(w) = [b \in DOMAIN open |-> IF b \in first THEN open[b] + row.amount ELSE open[b]]
  <2>1. ~IsBucket(w[j]) /\ w[j].type # "PAYMENT"
    BY <1>1
  <2> HIDE DEF open
  <2>2. ReplayRow(w, open, j) =
            [b \in DOMAIN open |-> IF b \in FirstOfPolicy(w, open, w[j].policy)
                                   THEN open[b] + w[j].amount ELSE open[b]]
    BY <2>1, RowReplayed
  <2> QED
    BY <1>1, <1>2, <2>2
<1>4. /\ BucketsOf(v) \subseteq DOMAIN v /\ DOMAIN v \subseteq Nat /\ i \in BucketsOf(v)
  BY TablesAre DEF BucketsOf, IssuanceRows, IsBucket
<1>5. DOMAIN open = BucketsOf(v)
  BY ReplayDomain DEF Rooted
<1>6. v[i].policy = row.policy
  BY DEF IssuanceRows
<1>7. first = {i}
  <2>1. \A b \in BucketsOf(v) : w[b].policy = row.policy => i <= b
    BY <1>1, <1>4 DEF Rooted
  <2>2. w[i].policy = row.policy
    BY <1>1, <1>4, <1>6
  <2>3. \A b \in BucketsOf(v) : b \in Nat
    BY <1>4
  <2> HIDE DEF open
  <2> QED
    BY <1>4, <1>5, <2>1, <2>2, <2>3 DEF FirstOfPolicy
<1>8. Remaining(w) = Remaining(v)
  BY <1>1, <1>4 DEF Remaining
<1> DEFINE n == row.amount
<1> HIDE DEF open, first, n
<1>9. Replay(w) = [b \in BucketsOf(v) |-> IF b = i THEN open[b] + n ELSE open[b]]
  BY <1>3, <1>5, <1>7 DEF n
<1> QED
  BY <1>8, <1>9 DEF open, n

-----------------------------------------------------------------------------
\* A payment is replayed over the buckets there are.
LEMMA PaymentAdded ==
    ASSUME NEW v \in Tables, NEW j, NEW row \in Admitted, NEW w, IsMore(w, v, j, row),
           Rooted(v), row.type = "PAYMENT"
    PROVE  /\ Replay(w) = Placed(w, Replay(v), -row.amount)
           /\ Remaining(w) = Remaining(v)
           /\ \A b \in BucketsOf(v) : w[b] = v[b]
<1>1. /\ w \in Tables /\ j \notin DOMAIN v /\ w[j] = row /\ \A k \in DOMAIN v : w[k] = v[k]
      /\ BucketsOf(w) = BucketsOf(v) \cup (IF IsBucket(row) THEN {j} ELSE {})
  <2>1. Grown(w, v, j, row)
    BY RowAdded
  <2> QED
    BY <2>1 DEF Grown
<1>2. ~IsBucket(row)
  BY DEF IsBucket
<1>3. Replay(w) = ReplayRow(w, Replay(v), j)
  BY <1>1, ReplayMore DEF Rooted, IsMore
<1>4. Replay(w) = Placed(w, Replay(v), -row.amount)
  BY <1>1, <1>3, RowReplayed
<1>5. BucketsOf(v) \subseteq DOMAIN v
  BY DEF BucketsOf
<1>6. Remaining(w) = Remaining(v)
  BY <1>1, <1>2, <1>5 DEF Remaining
<1> QED
  BY <1>1, <1>4, <1>5, <1>6

\* A ledger with m less left of bucket i.
IsLess(w, v, i, m) ==
    w = Over(Only(i, [v[i] EXCEPT !.opened = TRUE, !.remaining = @ + (-m)]), v)

\* What there is then.
Lessened(w, v, i, m) ==
    /\ w \in Tables /\ BucketsOf(w) = BucketsOf(v)
    /\ \A p : IssuanceRows(w, p) = IssuanceRows(v, p)
    /\ Cancelled(w) <=> Cancelled(v)
    /\ Remaining(w) = Taken(Remaining(v), [row |-> i, by |-> m])
    /\ Replay(w) = Replay(v)
    /\ Rooted(w)

\* What is taken from a bucket changes nothing that is replayed.
LEMMA RowTaken ==
    ASSUME NEW v \in Tables, Rooted(v), NEW i \in BucketsOf(v), NEW m \in Int,
           NEW w, IsLess(w, v, i, m)
    PROVE  Lessened(w, v, i, m)
<1> DEFINE row == v[i]
           new == [row EXCEPT !.opened = TRUE, !.remaining = @ + (-m)]
<1>1. DOMAIN v \subseteq Nat /\ i \in DOMAIN v /\ i \in Nat /\ row \in Admitted /\ IsBucket(row)
  BY TablesAre DEF BucketsOf
<1>2. new \in Admitted /\ SameRow(new, row)
  <2>1. -m \in Int
    OBVIOUS
  <2> HIDE DEF row
  <2> QED
    BY <1>1, <2>1, RowChanges
<1>3. new.due = row.due /\ new.remaining = row.remaining - m
  <2>1. row \in LedgerRow
    BY <1>1 DEF Admitted
  <2> HIDE DEF row
  <2>2. row.remaining \in Int
    BY <2>1 DEF LedgerRow
  <2>3. new.due = row.due /\ new.remaining = row.remaining + (-m)
    BY <2>1 DEF LedgerRow
  <2> QED
    BY <2>2, <2>3
<1>4. w = Over(Only(i, new), v)
  BY DEF IsLess
<1> HIDE DEF new
<1>5. /\ w \in Tables /\ DOMAIN w = DOMAIN v /\ w[i] = new
      /\ \A j \in DOMAIN v \ {i} : w[j] = v[j]
  <2> DEFINE o == Over(Only(i, new), v)
  <2>1. /\ o \in Tables /\ DOMAIN o = DOMAIN v \cup {i} /\ o[i] = new
        /\ \A j \in DOMAIN v \ {i} : o[j] = v[j]
    BY <1>1, <1>2, OneWritten
  <2>2. w = o
    BY <1>4
  <2> HIDE DEF o
  <2> QED
    BY <1>1, <2>1, <2>2
<1>6. \A j \in DOMAIN v : AlikeRows(v[j], w[j])
  BY <1>2, <1>3, <1>5 DEF AlikeRows, SameRow
<1>7. \A j \in DOMAIN v : /\ w[j].type = v[j].type /\ w[j].policy = v[j].policy
                          /\ w[j].amount = v[j].amount
  BY <1>6 DEF AlikeRows, SameRow
<1>8. BucketsOf(w) = BucketsOf(v)
  BY <1>5, <1>7 DEF BucketsOf, IsBucket
<1>9. \A p : IssuanceRows(w, p) = IssuanceRows(v, p)
  BY <1>5, <1>7 DEF IssuanceRows
<1>10. Cancelled(w) <=> Cancelled(v)
  BY <1>5, <1>7 DEF Cancelled
<1>11. Replay(w) = Replay(v)
  BY <1>5, <1>6, ReplaySame DEF Rooted
<1>12. Rooted(w)
  <2>1. BucketsOf(v) \subseteq DOMAIN v
    BY DEF BucketsOf
  <2>2. \A b \in BucketsOf(v) : w[b].policy = v[b].policy
    BY <1>7, <2>1
  <2> QED
    BY <1>5, <1>8, <1>9, <2>2 DEF Rooted
<1>13. Remaining(w) = Taken(Remaining(v), [row |-> i, by |-> m])
  <2>1. \A j \in BucketsOf(v) : w[j].remaining = IF j = i THEN v[j].remaining - m ELSE v[j].remaining
    BY <1>3, <1>5 DEF BucketsOf
  <2>2. Taken(Remaining(v), [row |-> i, by |-> m]) =
            [j \in BucketsOf(v) |-> IF j = i THEN v[j].remaining - m ELSE v[j].remaining]
    BY DEF Taken, Remaining
  <2>3. Remaining(w) = [j \in BucketsOf(v) |-> w[j].remaining]
    BY <1>8 DEF Remaining
  <2> QED
    BY <2>1, <2>2, <2>3
<1> QED
  BY <1>5, <1>8, <1>9, <1>10, <1>11, <1>12, <1>13 DEF Lessened

-----------------------------------------------------------------------------
(* A correction: how far the replay and the buckets are apart.               *)

\* The replay is g short of what is left of bucket i, and agrees on the others.
Gap(v, i, g) == Replay(v) = [Remaining(v) EXCEPT ![i] = @ - g]

\* Not short at all, it agrees.
LEMMA GapNone ==
    ASSUME NEW v \in Tables, NEW i
    PROVE  Gap(v, i, 0) <=> Replay(v) = Remaining(v)
<1>1. Remaining(v) \in [BucketsOf(v) -> Int]
  BY RemainingIs
<1>2. [Remaining(v) EXCEPT ![i] = @ - 0] = Remaining(v)
  BY <1>1
<1> QED
  BY <1>2 DEF Gap

\* A bucket more leaves it as short as it was.
LEMMA GapBucket ==
    ASSUME NEW v \in Tables, NEW j, NEW row \in Admitted, NEW w, IsMore(w, v, j, row),
           Rooted(v), IsBucket(row), row.remaining = row.amount,
           NEW i \in BucketsOf(v), NEW g \in Int, Gap(v, i, g)
    PROVE  Gap(w, i, g)
<1>1. /\ Replay(w) = Over(Only(j, row.amount), Replay(v))
      /\ Remaining(w) = Over(Only(j, row.remaining), Remaining(v))
  BY BucketAdded
<1>2. Remaining(v) \in [BucketsOf(v) -> Int]
  BY RemainingIs
<1>3. i # j
  BY DEF IsMore, BucketsOf
<1> DEFINE B == BucketsOf(v)
           n == row.amount
           R == Remaining(v)
           e == [R EXCEPT ![i] = @ - g]
<1>4. i \in B /\ R \in [B -> Int]
  BY <1>2
<1>5. Replay(w) = Over(Only(j, n), e) /\ Remaining(w) = Over(Only(j, n), R)
  BY <1>1 DEF Gap
<1> HIDE DEF B, n, R
<1>6. Over(Only(j, n), e) = [b \in B \cup {j} |-> IF b = j THEN n ELSE IF b = i THEN R[i] - g ELSE R[b]]
  BY <1>4 DEF Over, Only
<1>7. Over(Only(j, n), R) = [b \in B \cup {j} |-> IF b = j THEN n ELSE R[b]]
  BY <1>4 DEF Over, Only
<1> DEFINE o == Over(Only(j, n), R)
<1>8. [o EXCEPT ![i] = @ - g] = Over(Only(j, n), e)
  <2>1. o = [b \in B \cup {j} |-> IF b = j THEN n ELSE R[b]]
    BY <1>7
  <2>2. o[i] = R[i] /\ DOMAIN o = B \cup {j}
    BY <1>3, <1>4, <2>1
  <2> HIDE DEF o
  <2>3. [o EXCEPT ![i] = @ - g] = [b \in B \cup {j} |-> IF b = i THEN R[i] - g ELSE o[b]]
    BY <2>1, <2>2
  <2>4. \A b \in B \cup {j} : (IF b = i THEN R[i] - g ELSE o[b]) =
                              IF b = j THEN n ELSE IF b = i THEN R[i] - g ELSE R[b]
    BY <1>3, <2>1
  <2> QED
    BY <1>6, <2>3, <2>4
<1> QED
  BY <1>5, <1>8 DEF Gap

\* A debit more is replayed there: the replay is shorter by what it takes.
LEMMA GapDebit ==
    ASSUME NEW v \in Tables, NEW j, NEW row \in Admitted, NEW w, IsMore(w, v, j, row),
           Rooted(v), ~IsBucket(row), row.type # "PAYMENT",
           NEW i \in IssuanceRows(v, row.policy), NEW g \in Int, Gap(v, i, g)
    PROVE  Gap(w, i, g - row.amount)
<1>1. /\ Replay(w) = [b \in BucketsOf(v) |-> IF b = i THEN Replay(v)[b] + row.amount ELSE Replay(v)[b]]
      /\ Remaining(w) = Remaining(v)
  BY DebitAdded
<1> DEFINE B == BucketsOf(v)
           n == row.amount
           R == Remaining(v)
           r == Replay(v)
<1>2. R \in [B -> Int] /\ n \in Int /\ r = [R EXCEPT ![i] = @ - g]
      /\ Replay(w) = [b \in B |-> IF b = i THEN r[b] + n ELSE r[b]] /\ Remaining(w) = R
  BY <1>1, RemainingIs DEF Gap, Admitted, LedgerRow
<1> HIDE DEF B, n, R, r
<1>3. [b \in B |-> IF b = i THEN r[b] + n ELSE r[b]] = [R EXCEPT ![i] = @ - (g - n)]
  <2>1. \A b \in B : R[b] \in Int /\ r[b] = IF b = i THEN R[b] - g ELSE R[b]
    BY <1>2
  <2>2. \A b \in B : (IF b = i THEN r[b] + n ELSE r[b]) = IF b = i THEN R[b] - (g - n) ELSE R[b]
    BY <1>2, <2>1
  <2>3. [R EXCEPT ![i] = @ - (g - n)] = [b \in B |-> IF b = i THEN R[b] - (g - n) ELSE R[b]]
    BY <1>2
  <2> QED
    BY <2>2, <2>3
<1> QED
  BY <1>2, <1>3 DEF Gap, n

\* m less left of the bucket leaves it m less short.
LEMMA GapTaken ==
    ASSUME NEW v \in Tables, NEW i \in BucketsOf(v), NEW m \in Int, NEW w, Lessened(w, v, i, m),
           NEW g \in Int, Gap(v, i, g)
    PROVE  Gap(w, i, g - m)
<1> DEFINE B == BucketsOf(v)
           R == Remaining(v)
<1>1. R \in [B -> Int] /\ i \in B /\ Replay(v) = [R EXCEPT ![i] = @ - g]
      /\ Replay(w) = Replay(v) /\ Remaining(w) = Taken(R, [row |-> i, by |-> m])
  BY RemainingIs DEF Gap, Lessened
<1> HIDE DEF B, R
<1>2. Taken(R, [row |-> i, by |-> m]) = [R EXCEPT ![i] = @ - m]
  BY DEF Taken
<1> DEFINE l == [R EXCEPT ![i] = @ - m]
<1>3. [l EXCEPT ![i] = @ - (g - m)] = [R EXCEPT ![i] = @ - g]
  <2>1. l \in [B -> Int] /\ R[i] \in Int /\ l[i] = R[i] - m /\ \A b \in B \ {i} : l[b] = R[b]
    BY <1>1
  <2> HIDE DEF l
  <2>2. l[i] - (g - m) = R[i] - g
    BY <2>1
  <2> QED
    BY <1>1, <2>1, <2>2
<1> QED
  BY <1>1, <1>2, <1>3 DEF Gap

-----------------------------------------------------------------------------
(* What a transaction sees of the ledger.                                    *)

View(x, rows) == Over(x.writes, rows)

\* What is put over what is put over.
LEMMA OverTwice ==
    ASSUME NEW i, NEW row, NEW writes, NEW rows
    PROVE  Over(Over(Only(i, row), writes), rows) = Over(Only(i, row), Over(writes, rows))
<1> DEFINE a == Over(Only(i, row), writes)
           b == Over(writes, rows)
           S == {i} \cup DOMAIN writes \cup DOMAIN rows
           c == [k \in S |-> IF k = i THEN row ELSE IF k \in DOMAIN writes THEN writes[k] ELSE rows[k]]
<1>1. a = [k \in {i} \cup DOMAIN writes |-> IF k = i THEN row ELSE writes[k]]
  BY DEF Over, Only
<1>2. b = [k \in DOMAIN writes \cup DOMAIN rows |-> IF k \in DOMAIN writes THEN writes[k] ELSE rows[k]]
  BY DEF Over
<1> HIDE DEF a, b
<1>3. Over(a, rows) = c
  BY <1>1 DEF Over
<1>4. Over(Only(i, row), b) = c
  BY <1>2 DEF Over, Only
<1> QED
  BY <1>3, <1>4 DEF a, b

\* It is a ledger, with the buckets and issuances of the one there is.
LEMMA ViewIs ==
    ASSUME IInv, NEW t \in Txs
    PROVE  /\ View(tx[t], ledger) \in Tables
           /\ DOMAIN View(tx[t], ledger) = DOMAIN ledger \cup DOMAIN tx[t].writes
           /\ BucketsOf(ledger) \subseteq BucketsOf(View(tx[t], ledger))
           /\ \A i \in DOMAIN ledger : View(tx[t], ledger)[i] = Seen(t, i)
           /\ tx[t].writes = NoRows => View(tx[t], ledger) = ledger
<1> DEFINE x == tx[t]
<1>1. ledger \in Tables /\ x.writes \in Tables /\ Locked(x, ledger)
  BY OfTransaction
<1>2. /\ View(x, ledger) \in Tables
      /\ DOMAIN View(x, ledger) = DOMAIN ledger \cup DOMAIN x.writes
      /\ \A i \in DOMAIN ledger \cup DOMAIN x.writes :
            View(x, ledger)[i] = IF i \in DOMAIN x.writes THEN x.writes[i] ELSE ledger[i]
  BY <1>1, Written DEF View
<1>3. BucketsOf(ledger) \subseteq BucketsOf(View(x, ledger))
  BY <1>1, LedgerGrows DEF View, Locked
<1>4. x.writes = NoRows => View(x, ledger) = ledger
  BY <1>1, NothingWritten DEF View
<1> QED
  BY <1>2, <1>3, <1>4 DEF Seen

\* A row it inserts comes after all it sees.
LEMMA ViewInserts ==
    ASSUME IInv, NEW t \in Txs, NEW row, NEW y, y.writes = Over(Only(NewId, row), tx[t].writes)
    PROVE  IsMore(View(y, ledger), View(tx[t], ledger), NewId, row)
<1> DEFINE f == [u \in Txs |-> DOMAIN tx[u].writes]
           S == {0} \cup DOMAIN ledger \cup UNION {f[u] : u \in Txs}
<1>1. \A u \in Txs : f[u] \subseteq Nat /\ IsFiniteSet(f[u]) /\ f[u] = DOMAIN tx[u].writes
  BY TablesAre DEF IInv, Transactions, Sound
<1>2. DOMAIN ledger \subseteq Nat /\ IsFiniteSet(DOMAIN ledger)
  BY TablesAre DEF IInv, LedgerOK
<1>3. {f[u] : u \in Txs} = {DOMAIN tx[u].writes : u \in Txs}
  BY <1>1
<1> HIDE DEF f
<1>4. IsFiniteSet(UNION {f[u] : u \in Txs})
  BY <1>1, FiniteUnion, LedgerAssumption
<1>5. UNION {f[u] : u \in Txs} \subseteq Nat
  BY <1>1
<1>6. IsFiniteSet(S) /\ S \subseteq Nat /\ S # {} /\ 0 \in S
  <2>1. IsFiniteSet({0})
    BY FS_Singleton
  <2>2. IsFiniteSet({0} \cup DOMAIN ledger)
    BY <1>2, <2>1, FS_Union
  <2>3. IsFiniteSet(({0} \cup DOMAIN ledger) \cup UNION {f[u] : u \in Txs})
    BY <1>4, <2>2, FS_Union
  <2> QED
    BY <1>2, <1>5, <2>3
<1>7. S \in SUBSET Int
  BY <1>6
<1>8. NewId = 1 + Max(S)
  BY <1>3 DEF NewId
<1>9. DOMAIN ledger \subseteq S /\ DOMAIN tx[t].writes \subseteq S
  BY <1>1
<1> HIDE DEF S
<1>10. Max(S) \in S /\ \A i \in S : i <= Max(S)
  BY <1>6, <1>7, MaxOfFinite
<1>11. NewId \in Nat \ {0} /\ \A i \in S : i < NewId
  <2>1. Max(S) \in Nat /\ \A i \in S : i \in Nat
    BY <1>6, <1>10
  <2>2. 1 + Max(S) \in Nat \ {0} /\ \A i \in S : i < 1 + Max(S)
    BY <1>10, <2>1
  <2> QED
    BY <1>8, <2>2
<1>12. \A i \in DOMAIN View(tx[t], ledger) : i < NewId
  BY <1>9, <1>11, ViewIs
<1>13. View(y, ledger) = Over(Only(NewId, row), View(tx[t], ledger))
  BY OverTwice DEF View
<1> QED
  BY <1>11, <1>12, <1>13 DEF IsMore

\* A bucket it decrements has that much less left.
LEMMA ViewTakes ==
    ASSUME IInv, NEW t \in Txs, NEW i \in BucketsOf(ledger), NEW m,
           NEW y, y.writes = Changed(t, i, -m)
    PROVE  IsLess(View(y, ledger), View(tx[t], ledger), i, m)
<1> DEFINE row == [Seen(t, i) EXCEPT !.opened = TRUE, !.remaining = @ + (-m)]
<1>1. i \in DOMAIN ledger
  BY DEF BucketsOf
<1>2. y.writes = Over(Only(i, row), tx[t].writes)
  BY DEF Changed
<1>3. View(y, ledger) = Over(Only(i, row), View(tx[t], ledger))
  BY <1>2, OverTwice DEF View
<1>4. View(tx[t], ledger)[i] = Seen(t, i)
  BY <1>1, ViewIs
<1> QED
  BY <1>3, <1>4 DEF IsLess

-----------------------------------------------------------------------------
(* The strengthening for the replay.                                         *)

\* An issuance has its row to insert yet, or only the agent to update.
Issues(x, rows) ==
    \/ /\ \E p \in Policies, n \in Nat, due \in Nat :
             /\ x.todo = Append(Issuance(p, n, due), CommitTransaction)
             /\ IssuanceRows(rows, p) = {}
       /\ x.writes = NoRows
    \/ /\ Standing(View(x, rows))
       /\ \A s \in ToSet(x.todo) : s.do \in {"agent", "commit"}

\* By how much more its writes have moved the buckets than the rows.
Ahead(x, rows) == Moved("buckets", x.writes, rows) - Moved("ledger", x.writes, rows)

\* A statement of a correction of policy p, whose issuance is row i.
Correcting(s, p, i) ==
    /\ s.do \notin {"allocate", "components"}
    /\ s.do \in Decrements => s.row = i
    /\ s.do = "insert" => /\ s.row.type = "ENDORSEMENT" /\ s.row.policy = p
                          /\ IsBucket(s.row) => s.row.remaining = s.row.amount

\* A correction keeps the replay short, on its policy's issuance, of what its
\* writes have moved the buckets ahead of the rows.
Corrects(x, rows) ==
    \E p, i :
        /\ i \in IssuanceRows(View(x, rows), p)
        /\ Cancelled(View(x, rows)) \/ Gap(View(x, rows), i, Ahead(x, rows))
        /\ \A s \in ToSet(x.todo) : Correcting(s, p, i)

\* A cancellation has written the row that says so, or will.
Cancels(x, rows) ==
    /\ \A s \in ToSet(x.todo) : /\ s.do # "allocate"
                                /\ s.do = "insert" => s.row.type = "CANCELLED_POLICY"
    /\ \/ Cancelled(View(x, rows))
       \/ \E s \in ToSet(x.todo) : s.do \in {"insert", "components"}

\* A plan leads to what is replayed.
Ready(plan, x, rows) ==
    \/ Cancelled(View(x, rows))
    \/ Leads(plan, Remaining(View(x, rows)), Replay(View(x, rows)))

\* A payment whose row is inserted plans what its row is replayed to.
Pays(x, rows) ==
    \E n \in Nat :
        \/ /\ x.todo = Append(Payment(n), CommitTransaction)
           /\ x.writes = NoRows
        \/ /\ x.todo = Append(<<UpdateAgent(-n), Allocate(n)>>, CommitTransaction)
           /\ Ready(Allocation(rows, n), x, rows)
        \/ /\ x.todo = Append(<<Allocate(n)>>, CommitTransaction)
           /\ Ready(Allocation(rows, n), x, rows)
        \/ \E steps \in Seq(Takings(rows)) :
              /\ x.todo = Append(steps, CommitTransaction)
              /\ Ready(steps, x, rows)

Along(x, rows) ==
    /\ Rooted(View(x, rows))
    /\ x.kind = "issuance" => Issues(x, rows)
    /\ x.kind = "correction" => Corrects(x, rows)
    /\ x.kind = "cancellation" => Cancels(x, rows)
    /\ x.kind = "payment" => Pays(x, rows)

\* One connection: a request is served once the last is answered.
OneByOne == \A t, u \in Txs : t = u

\* A committed ledger can be replayed, and what a transaction sees, once it has
\* committed, can be.
BackfillInv ==
    /\ Rooted(ledger) /\ Standing(ledger)
    /\ \A t \in Txs : Running(t) => Along(tx[t], ledger)

\* What a payment's next statement is, and what it leaves to do.
LEMMA AtPays ==
    ASSUME NEW rows, NEW x, NEW s, Pays(x, rows), s = Head(x.todo)
    PROVE  /\ s.do = "insert" =>
                 /\ x.writes = NoRows
                 /\ \E n \in Nat :
                       /\ s = Insert(Row("PAYMENT", NoPolicy, -n, NoDue, FALSE))
                       /\ Tail(x.todo) = Append(<<UpdateAgent(-n), Allocate(n)>>, CommitTransaction)
           /\ s.do = "agent" =>
                 \E n \in Nat : /\ Tail(x.todo) = Append(<<Allocate(n)>>, CommitTransaction)
                                /\ Ready(Allocation(rows, n), x, rows)
           /\ s.do = "allocate" => /\ Tail(x.todo) = Append(<< >>, CommitTransaction)
                                   /\ Ready(Allocation(rows, s.by), x, rows)
           /\ s.do \in Decrements \cup {"commit"} =>
                 \E steps \in Seq(Takings(rows)) :
                    /\ x.todo = Append(steps, CommitTransaction)
                    /\ Ready(steps, x, rows)
                    /\ s.do \in Decrements => steps # << >>
                    /\ s.do = "commit" => steps = << >>
           /\ s.do \notin {"policy", "components"}
<1>1. PICK n \in Nat :
        \/ /\ x.todo = Append(Payment(n), CommitTransaction)
           /\ x.writes = NoRows
        \/ /\ x.todo = Append(<<UpdateAgent(-n), Allocate(n)>>, CommitTransaction)
           /\ Ready(Allocation(rows, n), x, rows)
        \/ /\ x.todo = Append(<<Allocate(n)>>, CommitTransaction)
           /\ Ready(Allocation(rows, n), x, rows)
        \/ \E steps \in Seq(Takings(rows)) :
              /\ x.todo = Append(steps, CommitTransaction)
              /\ Ready(steps, x, rows)
  BY DEF Pays
<1>2. CASE x.todo = Append(Payment(n), CommitTransaction) /\ x.writes = NoRows
  <2> DEFINE i == Insert(Row("PAYMENT", NoPolicy, -n, NoDue, FALSE))
             a == UpdateAgent(-n)
             l == Allocate(n)
  <2>1. i.do = "insert"
    BY DEF Insert
  <2>2. x.todo = Append(<<i, a, l>>, CommitTransaction)
    BY <1>2 DEF Payment
  <2> HIDE DEF i, a, l
  <2>3. s = i /\ Tail(x.todo) = Append(<<a, l>>, CommitTransaction)
    <3>1. <<i, a, l>> \in Seq({i, a, l}) /\ <<i, a, l>> # << >> /\ Head(<<i, a, l>>) = i
          /\ Tail(<<i, a, l>>) = <<a, l>>
      OBVIOUS
    <3> QED
      BY <2>2, <3>1, ListEnds
  <2> QED
    BY <1>2, <2>1, <2>3 DEF i, a, l, Decrements
<1>3. CASE /\ x.todo = Append(<<UpdateAgent(-n), Allocate(n)>>, CommitTransaction)
           /\ Ready(Allocation(rows, n), x, rows)
  <2>1. s = UpdateAgent(-n) /\ Tail(x.todo) = Append(<<Allocate(n)>>, CommitTransaction)
    <3> DEFINE a == UpdateAgent(-n)
               l == Allocate(n)
    <3>1. x.todo = Append(<<a, l>>, CommitTransaction)
      BY <1>3
    <3> HIDE DEF a, l
    <3>2. <<a, l>> \in Seq({a, l}) /\ <<a, l>> # << >> /\ Head(<<a, l>>) = a /\ Tail(<<a, l>>) = <<l>>
      OBVIOUS
    <3>3. s = a /\ Tail(x.todo) = Append(<<l>>, CommitTransaction)
      BY <3>1, <3>2, ListEnds
    <3> QED
      BY <3>3 DEF a, l
  <2>2. s.do = "agent"
    BY <2>1 DEF UpdateAgent
  <2> QED
    BY <1>3, <2>1, <2>2 DEF Decrements
<1>4. CASE /\ x.todo = Append(<<Allocate(n)>>, CommitTransaction)
           /\ Ready(Allocation(rows, n), x, rows)
  <2>1. s = Allocate(n) /\ Tail(x.todo) = Append(<< >>, CommitTransaction)
    <3> DEFINE l == Allocate(n)
    <3>1. x.todo = Append(<<l>>, CommitTransaction)
      BY <1>4
    <3> HIDE DEF l
    <3>2. <<l>> \in Seq({l}) /\ <<l>> # << >> /\ Head(<<l>>) = l /\ Tail(<<l>>) = << >>
      OBVIOUS
    <3> DEFINE list == <<l>>
    <3>3. list \in Seq({l}) /\ list # << >> /\ x.todo = Append(list, CommitTransaction)
      BY <3>1, <3>2
    <3> HIDE DEF list
    <3>4. s = Head(list) /\ Tail(x.todo) = Append(Tail(list), CommitTransaction)
      BY <3>3, ListEnds
    <3> QED
      BY <3>2, <3>4 DEF l, list
  <2>2. s.do = "allocate" /\ s.by = n
    BY <2>1 DEF Allocate
  <2> QED
    BY <1>4, <2>1, <2>2 DEF Decrements
<1>5. CASE \E steps \in Seq(Takings(rows)) :
              /\ x.todo = Append(steps, CommitTransaction)
              /\ Ready(steps, x, rows)
  <2>1. PICK steps \in Seq(Takings(rows)) :
              /\ x.todo = Append(steps, CommitTransaction)
              /\ Ready(steps, x, rows)
    BY <1>5
  <2>2. CASE steps = << >>
    <3>1. s.do = "commit"
      BY <2>1, <2>2, ListEnds DEF CommitTransaction
    <3> QED
      BY <2>1, <2>2, <3>1 DEF Decrements
  <2>3. CASE steps # << >>
    <3>1. s.do \in Decrements
      BY <2>1, <2>3, ListEnds DEF Takings
    <3> QED
      BY <2>1, <2>3, <3>1 DEF Decrements
  <2> QED
    BY <2>2, <2>3
<1> QED
  BY <1>1, <1>2, <1>3, <1>4, <1>5

\* What an issuance's next statement is.
LEMMA IssuesOnly ==
    ASSUME NEW rows, NEW x, Sound(x, rows), x.kind # "idle", Issues(x, rows)
    PROVE  Head(x.todo).do \in {"insert", "agent", "commit"}
<1>1. Head(x.todo) \in ToSet(x.todo)
  BY TodoIs
<1>2. ASSUME NEW p, NEW n, NEW due, x.todo = Append(Issuance(p, n, due), CommitTransaction)
      PROVE  Head(x.todo).do = "insert"
  <2> DEFINE a == Insert(Row("ISSUANCE", p, n, due, TRUE))
             b == UpdateAgent(n)
  <2>1. x.todo = Append(<<a, b>>, CommitTransaction) /\ a.do = "insert"
    BY <1>2 DEF Issuance, Insert
  <2> HIDE DEF a, b
  <2>2. <<a, b>> \in Seq({a, b}) /\ <<a, b>> # << >> /\ Head(<<a, b>>) = a
    OBVIOUS
  <2> QED
    BY <2>1, <2>2, ListEnds
<1> QED
  BY <1>1, <1>2 DEF Issues

\* What the one transaction becomes leaves the strengthening, when the ledger stays.
LEMMA OneAlong ==
    ASSUME IInv, BackfillInv, OneByOne, NEW t \in Txs, NEW y,
           y.kind # "idle" => Along(y, ledger),
           tx' = [tx EXCEPT ![t] = y], ledger' = ledger
    PROVE  BackfillInv'
<1>1. tx'[t] = y /\ \A u \in Txs : u = t
  BY DEF IInv, Transactions, OneByOne
<1>2. \A u \in Txs : Running(u)' => Along(tx'[u], ledger)
  BY <1>1 DEF Running
<1> QED
  BY <1>2 DEF BackfillInv

\* The agent updated, or a policy locked, leaves what is seen.
LEMMA QuietAlong ==
    ASSUME NEW rows, NEW x, Sound(x, rows), x.kind # "idle", Along(x, rows),
           Head(x.todo).do \in {"agent", "policy"},
           NEW y, y.kind = x.kind, y.todo = Tail(x.todo), y.writes = x.writes
    PROVE  Along(y, rows)
<1> DEFINE s == Head(x.todo)
<1>1. View(y, rows) = View(x, rows) /\ Ahead(y, rows) = Ahead(x, rows)
  BY DEF View, Ahead
<1>2. ToSet(x.todo) = {s} \cup ToSet(y.todo) /\ s \in ToSet(x.todo)
  BY TodoIs
<1>3. ASSUME x.kind = "issuance" PROVE Issues(y, rows)
  <2>1. Issues(x, rows)
    BY <1>3 DEF Along
  <2>2. ASSUME NEW p, NEW n, NEW due, x.todo = Append(Issuance(p, n, due), CommitTransaction)
        PROVE  s.do = "insert"
    <3> DEFINE a == Insert(Row("ISSUANCE", p, n, due, TRUE))
               b == UpdateAgent(n)
    <3>1. x.todo = Append(<<a, b>>, CommitTransaction) /\ a.do = "insert"
      BY <2>2 DEF Issuance, Insert
    <3> HIDE DEF a, b
    <3>2. <<a, b>> \in Seq({a, b}) /\ <<a, b>> # << >> /\ Head(<<a, b>>) = a
      OBVIOUS
    <3> QED
      BY <3>1, <3>2, ListEnds
  <2> QED
    BY <1>1, <1>2, <2>1, <2>2 DEF Issues
<1>4. ASSUME x.kind = "correction" PROVE Corrects(y, rows)
  BY <1>1, <1>2, <1>4 DEF Along, Corrects
<1>5. ASSUME x.kind = "cancellation" PROVE Cancels(y, rows)
  BY <1>1, <1>2, <1>5 DEF Along, Cancels
<1>6. ASSUME x.kind = "payment" PROVE Pays(y, rows)
  <2>1. Pays(x, rows)
    BY <1>6 DEF Along
  <2>2. PICK n \in Nat : /\ y.todo = Append(<<Allocate(n)>>, CommitTransaction)
                         /\ Ready(Allocation(rows, n), x, rows)
    BY <2>1, AtPays
  <2>3. Ready(Allocation(rows, n), y, rows)
    BY <1>1, <2>2 DEF Ready
  <2> QED
    BY <2>2, <2>3 DEF Pays
<1> QED
  BY <1>1, <1>3, <1>4, <1>5, <1>6 DEF Along

-----------------------------------------------------------------------------
\* What a list of two has.
LEMMA PairHas == ASSUME NEW a, NEW b PROVE ToSet(Append(<<a>>, b)) = {a, b}
<1> DEFINE l == Append(<<a>>, b)
<1>1. DOMAIN l = {1, 2} /\ l[1] = a /\ l[2] = b
  OBVIOUS
<1> HIDE DEF l
<1>2. ToSet(l) = {l[i] : i \in {1, 2}}
  BY <1>1 DEF ToSet
<1> QED
  BY <1>1, <1>2 DEF l

-----------------------------------------------------------------------------
(* A row inserted.                                                           *)

\* What t has become once it has inserted the row its statement says.
HasInserted(t, y) ==
    /\ Running(t) /\ Statement(t).do = "insert"
    /\ y.kind = tx[t].kind /\ y.todo = Tail(tx[t].todo)
    /\ y.writes = Over(Only(NewId, Statement(t).row), tx[t].writes)

\* What it sees then.
LEMMA InsertedMore ==
    ASSUME IInv, NEW t \in Txs, NEW y, HasInserted(t, y)
    PROVE  /\ View(tx[t], ledger) \in Tables
           /\ Statement(t).row \in Admitted
           /\ IsMore(View(y, ledger), View(tx[t], ledger), NewId, Statement(t).row)
           /\ Grown(View(y, ledger), View(tx[t], ledger), NewId, Statement(t).row)
           /\ Statement(t) \in ToSet(tx[t].todo) /\ ToSet(y.todo) \subseteq ToSet(tx[t].todo)
<1>1. Statement(t) \in Statements(ledger) /\ Sound(tx[t], ledger) /\ tx[t].kind # "idle"
  BY OfTransaction DEF HasInserted, Running
<1>2. Statement(t).row \in Admitted
  BY <1>1, StatementFields DEF HasInserted
<1>3. View(tx[t], ledger) \in Tables
  BY ViewIs
<1>4. IsMore(View(y, ledger), View(tx[t], ledger), NewId, Statement(t).row)
  BY ViewInserts DEF HasInserted
<1>5. Grown(View(y, ledger), View(tx[t], ledger), NewId, Statement(t).row)
  BY <1>2, <1>3, <1>4, RowAdded
<1>6. ToSet(tx[t].todo) = {Statement(t)} \cup ToSet(y.todo)
  BY <1>1, TodoIs DEF HasInserted, Statement
<1> QED
  BY <1>2, <1>3, <1>4, <1>5, <1>6

\* A policy's issuance is its first bucket, worth all it is.
LEMMA InsertIssues ==
    ASSUME IInv, BackfillInv, NEW t \in Txs, NEW y, HasInserted(t, y), Issues(tx[t], ledger)
    PROVE  Rooted(View(y, ledger)) /\ Issues(y, ledger)
<1> DEFINE x == tx[t]
           s == Statement(t)
           v == View(x, ledger)
           u == View(y, ledger)
           row == s.row
<1>1. /\ v \in Tables /\ row \in Admitted /\ IsMore(u, v, NewId, row) /\ Grown(u, v, NewId, row)
      /\ s \in ToSet(x.todo) /\ s.do = "insert" /\ s = Head(x.todo) /\ y.todo = Tail(x.todo)
  BY InsertedMore DEF HasInserted, Statement
<1>2. PICK p \in Policies, n \in Nat, due \in Nat :
          /\ x.todo = Append(Issuance(p, n, due), CommitTransaction)
          /\ IssuanceRows(ledger, p) = {}
          /\ x.writes = NoRows
  <2> HIDE DEF x, s
  <2> QED
    BY <1>1 DEF Issues, x
<1>3. v = ledger /\ Rooted(v) /\ Standing(v)
  BY <1>2, ViewIs DEF BackfillInv
<1>4. /\ s = Insert(Row("ISSUANCE", p, n, due, TRUE))
      /\ y.todo = Append(<<UpdateAgent(n)>>, CommitTransaction)
  <2> DEFINE a == Insert(Row("ISSUANCE", p, n, due, TRUE))
             b == UpdateAgent(n)
  <2>1. x.todo = Append(<<a, b>>, CommitTransaction)
    BY <1>2 DEF Issuance
  <2> HIDE DEF a, b, x, s
  <2>2. <<a, b>> \in Seq({a, b}) /\ <<a, b>> # << >> /\ Head(<<a, b>>) = a /\ Tail(<<a, b>>) = <<b>>
    OBVIOUS
  <2>3. s = a /\ y.todo = Append(<<b>>, CommitTransaction)
    BY <1>1, <2>1, <2>2, ListEnds
  <2> QED
    BY <2>3 DEF a, b
<1>5. row = Row("ISSUANCE", p, n, due, TRUE)
  BY <1>4 DEF Insert
<1>6. /\ row.type = "ISSUANCE" /\ row.policy = p /\ row.amount = n /\ row.remaining = n
      /\ IsBucket(row)
  BY <1>5 DEF Row, IsBucket
<1> HIDE DEF x, s, v, u, row
<1>7. Rooted(u)
  BY <1>1, <1>2, <1>3, <1>6, RootedGrows
<1>8. Standing(u)
  <2>1. CASE Cancelled(v)
    BY <1>1, <2>1 DEF Grown, Standing
  <2>2. CASE Replay(v) = Remaining(v)
    BY <1>1, <1>3, <1>6, <2>2, BucketAdded DEF Standing
  <2> QED
    BY <1>3, <2>1, <2>2 DEF Standing
<1>9. \A m \in ToSet(y.todo) : m.do \in {"agent", "commit"}
  <2> DEFINE a == UpdateAgent(n)
             b == CommitTransaction
  <2>1. a.do = "agent" /\ b.do = "commit"
    BY DEF UpdateAgent, CommitTransaction
  <2>2. y.todo = Append(<<a>>, b)
    BY <1>4
  <2> HIDE DEF a, b
  <2>3. ToSet(Append(<<a>>, b)) = {a, b}
    BY PairHas
  <2> QED
    BY <2>1, <2>2, <2>3
<1> QED
  BY <1>7, <1>8, <1>9 DEF Issues, u

\* A line's row is replayed as it was written.
LEMMA InsertCorrects ==
    ASSUME IInv, NEW t \in Txs, NEW y, HasInserted(t, y), Rooted(View(tx[t], ledger)),
           Corrects(tx[t], ledger)
    PROVE  Rooted(View(y, ledger)) /\ Corrects(y, ledger)
<1> DEFINE x == tx[t]
           s == Statement(t)
           v == View(x, ledger)
           u == View(y, ledger)
           row == s.row
           g == Ahead(x, ledger)
<1>1. /\ v \in Tables /\ row \in Admitted /\ IsMore(u, v, NewId, row) /\ Grown(u, v, NewId, row)
      /\ s \in ToSet(x.todo) /\ ToSet(y.todo) \subseteq ToSet(x.todo) /\ s.do = "insert"
  BY InsertedMore DEF HasInserted
<1>2. PICK p, i : /\ i \in IssuanceRows(v, p)
                  /\ Cancelled(v) \/ Gap(v, i, g)
                  /\ \A m \in ToSet(x.todo) : Correcting(m, p, i)
  BY DEF Corrects
<1>3. /\ row.type = "ENDORSEMENT" /\ row.policy = p
      /\ IsBucket(row) => row.remaining = row.amount
  <2>1. Correcting(s, p, i) /\ s.do = "insert"
    BY <1>1, <1>2
  <2> HIDE DEF s
  <2> QED
    BY <2>1 DEF Correcting, row
<1>4. g \in Int /\ Ahead(y, ledger) = g + (Stands("buckets", row) - Stands("ledger", row))
      /\ Stands("buckets", row) \in Int /\ Stands("ledger", row) \in Int
  <2>1. /\ ledger \in Tables /\ x.writes \in Tables
        /\ \A book : Moved(book, x.writes, ledger) \in Int
    BY OfTransaction
  <2>2. /\ NewId \in Nat /\ NewId \notin DOMAIN ledger /\ NewId \notin DOMAIN x.writes
    BY NewIdIsNew
  <2>3. y.writes = Over(Only(NewId, row), x.writes)
    BY DEF HasInserted
  <2>4. \A book : Stands(book, row) \in Int
    BY <1>1, StandsType DEF Admitted
  <2> HIDE DEF x, row
  <2>5. \A book : Moved(book, Over(Only(NewId, row), x.writes), ledger) =
                      Moved(book, x.writes, ledger) + (Stands(book, row) - 0)
    BY <1>1, <2>1, <2>2, OneMoves
  <2> DEFINE a == Moved("buckets", x.writes, ledger)
             b == Moved("ledger", x.writes, ledger)
             c == Stands("buckets", row)
             d == Stands("ledger", row)
  <2>6. /\ g = a - b /\ Ahead(y, ledger) = (a + (c - 0)) - (b + (d - 0))
        /\ a \in Int /\ b \in Int /\ c \in Int /\ d \in Int
    BY <2>1, <2>3, <2>4, <2>5 DEF Ahead
  <2> HIDE DEF a, b, c, d, g
  <2>7. Ahead(y, ledger) = g + (c - d) /\ g \in Int
    BY <2>6
  <2> QED
    BY <2>6, <2>7 DEF c, d
<1> HIDE DEF x, s, v, u, row, g
<1>5. i \in IssuanceRows(u, p) /\ i \in BucketsOf(v)
  BY <1>1, <1>2 DEF Grown, IssuanceRows, BucketsOf, IsBucket
<1>6. Rooted(v) /\ Rooted(u)
  <2>1. Rooted(v)
    BY DEF v, x
  <2> QED
    BY <1>1, <1>2, <1>3, <2>1, RootedGrows
<1>7. Cancelled(u) \/ Gap(u, i, Ahead(y, ledger))
  <2>1. CASE Cancelled(v)
    BY <1>1, <2>1 DEF Grown
  <2>2. CASE Gap(v, i, g) /\ IsBucket(row)
    <3>1. Ahead(y, ledger) = g
      BY <1>3, <1>4, <2>2 DEF Stands
    <3> QED
      BY <1>1, <1>3, <1>4, <1>5, <1>6, <2>2, <3>1, GapBucket
  <2>3. CASE Gap(v, i, g) /\ ~IsBucket(row)
    <3>1. Ahead(y, ledger) = g - row.amount
      BY <1>4, <2>3 DEF Stands
    <3>2. Gap(u, i, g - row.amount)
      BY <1>1, <1>2, <1>3, <1>4, <1>6, <2>3, GapDebit
    <3> QED
      BY <3>1, <3>2
  <2> QED
    BY <1>2, <2>1, <2>2, <2>3
<1> QED
  BY <1>1, <1>2, <1>5, <1>6, <1>7 DEF Corrects, u

\* A cancellation says that it is one.
LEMMA InsertCancels ==
    ASSUME IInv, NEW t \in Txs, NEW y, HasInserted(t, y), Rooted(View(tx[t], ledger)),
           Cancels(tx[t], ledger)
    PROVE  Rooted(View(y, ledger)) /\ Cancels(y, ledger)
<1> DEFINE x == tx[t]
           s == Statement(t)
           v == View(x, ledger)
           u == View(y, ledger)
           row == s.row
<1>1. /\ v \in Tables /\ row \in Admitted /\ IsMore(u, v, NewId, row) /\ Grown(u, v, NewId, row)
      /\ s \in ToSet(x.todo) /\ ToSet(y.todo) \subseteq ToSet(x.todo) /\ s.do = "insert"
  BY InsertedMore DEF HasInserted
<1>2. row.type = "CANCELLED_POLICY"
  <2> HIDE DEF x, s
  <2> QED
    BY <1>1 DEF Cancels, x, row
<1>3. Cancels(x, ledger) /\ Rooted(v)
  OBVIOUS
<1> HIDE DEF x, s, v, u, row
<1>4. Cancelled(u)
  BY <1>1, <1>2 DEF Grown
<1>5. Rooted(u)
  BY <1>1, <1>2, <1>3, RootedGrows DEF IsBucket
<1> QED
  BY <1>1, <1>3, <1>4, <1>5 DEF Cancels, u

\* A payment will be planned as its row is replayed.
LEMMA InsertPays ==
    ASSUME IInv, BackfillInv, NEW t \in Txs, NEW y, HasInserted(t, y), Pays(tx[t], ledger)
    PROVE  Rooted(View(y, ledger)) /\ Pays(y, ledger)
<1> DEFINE x == tx[t]
           s == Statement(t)
           v == View(x, ledger)
           u == View(y, ledger)
           row == s.row
<1>1. /\ v \in Tables /\ row \in Admitted /\ IsMore(u, v, NewId, row) /\ Grown(u, v, NewId, row)
      /\ s.do = "insert" /\ s = Head(x.todo) /\ y.todo = Tail(x.todo)
  BY InsertedMore DEF HasInserted, Statement
<1>2. /\ x.writes = NoRows
      /\ \E n \in Nat :
            /\ s = Insert(Row("PAYMENT", NoPolicy, -n, NoDue, FALSE))
            /\ Tail(x.todo) = Append(<<UpdateAgent(-n), Allocate(n)>>, CommitTransaction)
  <2>1. Pays(x, ledger) /\ s = Head(x.todo) /\ s.do = "insert"
    BY <1>1
  <2> HIDE DEF x, s
  <2>2. /\ x.writes = NoRows
        /\ \E n \in Nat :
              /\ s = Insert(Row("PAYMENT", NoPolicy, -n, NoDue, FALSE))
              /\ Tail(x.todo) = Append(<<UpdateAgent(-n), Allocate(n)>>, CommitTransaction)
    BY <2>1, AtPays, Zenon
  <2> QED
    BY <2>2
<1>3. PICK n \in Nat :
            /\ s = Insert(Row("PAYMENT", NoPolicy, -n, NoDue, FALSE))
            /\ Tail(x.todo) = Append(<<UpdateAgent(-n), Allocate(n)>>, CommitTransaction)
  BY <1>2
<1>4. v = ledger /\ Rooted(v) /\ Standing(v) /\ BucketsOf(v) # {}
  BY <1>2, ViewIs DEF BackfillInv, IInv, LedgerOK
<1>5. row.type = "PAYMENT" /\ row.amount = -n /\ -row.amount = n
  <2>1. row = Row("PAYMENT", NoPolicy, -n, NoDue, FALSE)
    BY <1>3 DEF Insert
  <2> HIDE DEF row
  <2> QED
    BY <2>1 DEF Row
<1> HIDE DEF x, s, v, u, row
<1>6. Rooted(u)
  BY <1>1, <1>4, <1>5, RootedGrows DEF IsBucket
<1>7. Ready(Allocation(ledger, n), y, ledger)
  <2>1. CASE Cancelled(v)
    BY <1>1, <2>1 DEF Grown, Ready, u
  <2>2. CASE Replay(v) = Remaining(v)
    <3>1. /\ Replay(u) = Placed(u, Remaining(v), n) /\ Remaining(u) = Remaining(v)
          /\ \A b \in BucketsOf(v) : u[b] = v[b]
      BY <1>1, <1>4, <1>5, <2>2, PaymentAdded
    <3>2. Leads(Allocation(v, n), Remaining(v), Placed(u, Remaining(v), n))
      BY <1>1, <1>4, <3>1, PlacedIs
    <3> QED
      BY <1>4, <3>1, <3>2 DEF Ready, u
  <2> QED
    BY <1>4, <2>1, <2>2 DEF Standing
<1> QED
  BY <1>1, <1>3, <1>6, <1>7 DEF Pays, u

\* A row inserted leaves the strengthening.
LEMMA InsertRowAlong ==
    ASSUME IInv, BackfillInv, OneByOne, NEW t \in Txs, InsertRow(t)
    PROVE  BackfillInv'
<1> DEFINE x == tx[t]
           s == Statement(t)
           w == Over(Only(NewId, s.row), x.writes)
           y == [[x EXCEPT !.writes = w] EXCEPT !.todo = << >> \o Tail(x.todo),
                                                !.holds = x.holds \cup s.locks]
<1>1. /\ Running(t) /\ s.do = "insert" /\ tx' = [tx EXCEPT ![t] = y] /\ ledger' = ledger
  BY DEF InsertRow, About, Done, DoneThen
<1>2. DOMAIN x = Fields /\ Sound(x, ledger) /\ x.kind \in Kinds /\ Along(x, ledger)
  BY <1>1, OfTransaction DEF BackfillInv, Sound
<1>3. y.kind = x.kind /\ y.todo = << >> \o Tail(x.todo) /\ y.writes = w
  BY <1>2, FieldsAre
<1>4. << >> \o Tail(x.todo) = Tail(x.todo)
  BY <1>1, <1>2, NothingBefore DEF Running
<1>5. HasInserted(t, y)
  <2> HIDE DEF y
  <2> QED
    BY <1>1, <1>3, <1>4 DEF HasInserted
<1> HIDE DEF y, w
<1>6. Along(y, ledger)
  <2>1. Rooted(View(x, ledger))
    BY <1>2 DEF Along
  <2>2. CASE x.kind = "issuance"
    BY <1>2, <1>3, <1>5, <2>2, InsertIssues DEF Along
  <2>3. CASE x.kind = "correction"
    BY <1>2, <1>3, <1>5, <2>1, <2>3, InsertCorrects DEF Along
  <2>4. CASE x.kind = "cancellation"
    BY <1>2, <1>3, <1>5, <2>1, <2>4, InsertCancels DEF Along
  <2>5. CASE x.kind = "payment"
    BY <1>2, <1>3, <1>5, <2>5, InsertPays DEF Along
  <2> QED
    BY <1>1, <1>2, <2>2, <2>3, <2>4, <2>5 DEF Kinds, Running
<1> QED
  BY <1>1, <1>6, OneAlong
-----------------------------------------------------------------------------
(* A bucket decremented.                                                     *)

\* What t has become once it has decremented the bucket its statement says.
HasDecremented(t, y) ==
    /\ Running(t) /\ Statement(t).do \in Decrements
    /\ y.kind = tx[t].kind /\ y.todo = Tail(tx[t].todo)
    /\ y.writes = Changed(t, Statement(t).row, -Statement(t).by)

\* What it sees then, and how far ahead it is.
LEMMA DecrementedLess ==
    ASSUME IInv, NEW t \in Txs, NEW y, HasDecremented(t, y), Rooted(View(tx[t], ledger))
    PROVE  /\ View(tx[t], ledger) \in Tables
           /\ Statement(t).row \in BucketsOf(View(tx[t], ledger)) /\ Statement(t).by \in Int
           /\ Lessened(View(y, ledger), View(tx[t], ledger), Statement(t).row, Statement(t).by)
           /\ Ahead(tx[t], ledger) \in Int
           /\ Ahead(y, ledger) = Ahead(tx[t], ledger) - Statement(t).by
           /\ Statement(t) \in ToSet(tx[t].todo) /\ ToSet(y.todo) \subseteq ToSet(tx[t].todo)
<1> DEFINE x == tx[t]
           i == Statement(t).row
           m == Statement(t).by
           row == [Seen(t, i) EXCEPT !.opened = TRUE, !.remaining = @ + (-m)]
<1>1. /\ Statement(t) \in Statements(ledger) /\ Sound(x, ledger) /\ x.kind # "idle"
      /\ ledger \in Tables /\ x.writes \in Tables /\ \A book : Moved(book, x.writes, ledger) \in Int
  BY OfTransaction DEF HasDecremented, Running
<1>2. i \in BucketsOf(ledger) /\ m \in Int
  BY <1>1, StatementFields DEF HasDecremented
<1>3. View(x, ledger) \in Tables /\ i \in BucketsOf(View(x, ledger))
  BY <1>2, ViewIs
<1>4. IsLess(View(y, ledger), View(x, ledger), i, m)
  BY <1>2, ViewTakes DEF HasDecremented
<1>5. Lessened(View(y, ledger), View(x, ledger), i, m)
  BY <1>2, <1>3, <1>4, RowTaken
<1>6. ToSet(x.todo) = {Statement(t)} \cup ToSet(y.todo)
  BY <1>1, TodoIs DEF HasDecremented, Statement
<1>7. i \in DOMAIN ledger /\ i \in Nat /\ Seen(t, i) \in Admitted /\ IsBucket(Seen(t, i))
  BY <1>2, SeenIs
<1>8. y.writes = Over(Only(i, row), x.writes)
  BY DEF HasDecremented, Changed
<1>9. /\ row \in Admitted
      /\ Stands("ledger", row) = Stands("ledger", Seen(t, i))
      /\ Stands("buckets", row) = Stands("buckets", Seen(t, i)) + (-m)
      /\ Stands("ledger", Seen(t, i)) \in Int /\ Stands("buckets", Seen(t, i)) \in Int
  <2>1. -m \in Int
    BY <1>2
  <2> HIDE DEF i, m
  <2> QED
    BY <1>7, <2>1, RowChanges
<1>10. \A book : Stands(book, Seen(t, i)) =
                     IF i \in DOMAIN x.writes THEN Stands(book, x.writes[i])
                     ELSE IF i \in DOMAIN ledger THEN Stands(book, ledger[i]) ELSE 0
  BY <1>7 DEF Seen
<1> HIDE DEF row, i, m, x
<1>11. \A book : Moved(book, y.writes, ledger) =
                     Moved(book, x.writes, ledger) + (Stands(book, row) - Stands(book, Seen(t, i)))
  BY <1>1, <1>7, <1>8, <1>9, <1>10, OneMoves
<1>12. Ahead(x, ledger) \in Int /\ Ahead(y, ledger) = Ahead(x, ledger) - m
  <2> DEFINE a == Moved("buckets", x.writes, ledger)
             b == Moved("ledger", x.writes, ledger)
             c == Stands("buckets", Seen(t, i))
             d == Stands("ledger", Seen(t, i))
  <2>1. /\ Ahead(x, ledger) = a - b /\ Ahead(y, ledger) = (a + ((c + (-m)) - c)) - (b + (d - d))
        /\ a \in Int /\ b \in Int /\ c \in Int /\ d \in Int
    BY <1>1, <1>9, <1>11 DEF Ahead
  <2> HIDE DEF a, b, c, d
  <2> QED
    BY <1>2, <2>1
<1> QED
  BY <1>2, <1>3, <1>5, <1>6, <1>12 DEF x, i, m

\* A correction's bucket is its policy's issuance, and is so much further ahead.
LEMMA DecrementCorrects ==
    ASSUME IInv, NEW t \in Txs, NEW y, HasDecremented(t, y), Rooted(View(tx[t], ledger)),
           Corrects(tx[t], ledger)
    PROVE  Corrects(y, ledger)
<1> DEFINE x == tx[t]
           s == Statement(t)
           v == View(x, ledger)
           u == View(y, ledger)
           g == Ahead(x, ledger)
<1>1. /\ v \in Tables /\ s.row \in BucketsOf(v) /\ s.by \in Int /\ Lessened(u, v, s.row, s.by)
      /\ g \in Int /\ Ahead(y, ledger) = g - s.by
      /\ s \in ToSet(x.todo) /\ ToSet(y.todo) \subseteq ToSet(x.todo)
  BY DecrementedLess
<1>2. PICK p, i : /\ i \in IssuanceRows(v, p)
                  /\ Cancelled(v) \/ Gap(v, i, g)
                  /\ \A m \in ToSet(x.todo) : Correcting(m, p, i)
  BY DEF Corrects
<1>3. s.row = i
  <2>1. Correcting(s, p, i) /\ s.do \in Decrements
    BY <1>1, <1>2 DEF HasDecremented
  <2> QED
    BY <2>1 DEF Correcting
<1> HIDE DEF x, s, v, u, g
<1>4. i \in IssuanceRows(u, p) /\ (Cancelled(u) <=> Cancelled(v))
  BY <1>1, <1>2 DEF Lessened
<1>5. Cancelled(u) \/ Gap(u, i, Ahead(y, ledger))
  BY <1>1, <1>2, <1>3, <1>4, GapTaken
<1> QED
  BY <1>1, <1>2, <1>4, <1>5 DEF Corrects, u

\* A payment's is the next of those it planned.
LEMMA DecrementPays ==
    ASSUME IInv, NEW t \in Txs, NEW y, HasDecremented(t, y), Rooted(View(tx[t], ledger)),
           Pays(tx[t], ledger)
    PROVE  Pays(y, ledger)
<1> DEFINE x == tx[t]
           s == Statement(t)
           v == View(x, ledger)
           u == View(y, ledger)
<1>1. Lessened(u, v, s.row, s.by)
  BY DecrementedLess
<1>2. s = Head(x.todo) /\ s.do \in Decrements /\ y.todo = Tail(x.todo) /\ Pays(x, ledger)
  BY DEF HasDecremented, Statement
<1> HIDE DEF x, s, v, u
<1>3. PICK steps \in Seq(Takings(ledger)) :
          /\ x.todo = Append(steps, CommitTransaction)
          /\ Ready(steps, x, ledger)
          /\ steps # << >>
  BY <1>2, AtPays
<1>4. s = Head(steps) /\ y.todo = Append(Tail(steps), CommitTransaction)
      /\ Tail(steps) \in Seq(Takings(ledger))
  BY <1>2, <1>3, ListEnds
<1>5. Ready(Tail(steps), y, ledger)
  <2>1. CASE Cancelled(v)
    BY <1>1, <2>1 DEF Lessened, Ready, u
  <2>2. CASE Leads(steps, Remaining(v), Replay(v))
    <3>1. Leads(Tail(steps), Taken(Remaining(v), s), Replay(v))
      BY <1>3, <1>4, <2>2, LeadsOn
    <3>2. Taken(Remaining(v), s) = Taken(Remaining(v), [row |-> s.row, by |-> s.by])
      BY DEF Taken
    <3>3. Remaining(u) = Taken(Remaining(v), s) /\ Replay(u) = Replay(v)
      BY <1>1, <3>2 DEF Lessened
    <3> QED
      BY <3>1, <3>3 DEF Ready, u
  <2> QED
    BY <1>3, <2>1, <2>2 DEF Ready, v
<1>6. 0 \in Nat
  OBVIOUS
<1> QED
  BY <1>4, <1>5, <1>6 DEF Pays

\* A bucket decremented leaves the strengthening.
LEMMA ApplyDecrementAlong ==
    ASSUME IInv, BackfillInv, OneByOne, NEW t \in Txs, Running(t),
           Statement(t).do \in Decrements,
           ApplyDecrement(t), UNCHANGED <<ledger, payable, served>>
    PROVE  BackfillInv'
<1> DEFINE x == tx[t]
           s == Statement(t)
           w == Changed(t, s.row, -s.by)
           y == [[x EXCEPT !.writes = w] EXCEPT !.todo = << >> \o Tail(x.todo),
                                                !.holds = x.holds \cup s.locks]
<1>1. tx' = [tx EXCEPT ![t] = y] /\ ledger' = ledger
  BY DEF ApplyDecrement, Done, DoneThen
<1>2. DOMAIN x = Fields /\ Sound(x, ledger) /\ x.kind \in Kinds /\ Along(x, ledger)
  BY OfTransaction DEF BackfillInv, Sound
<1>3. y.kind = x.kind /\ y.todo = << >> \o Tail(x.todo) /\ y.writes = w
  BY <1>2, FieldsAre
<1>4. << >> \o Tail(x.todo) = Tail(x.todo)
  BY <1>2, NothingBefore DEF Running
<1>5. HasDecremented(t, y)
  <2> HIDE DEF y
  <2> QED
    BY <1>3, <1>4 DEF HasDecremented
<1> HIDE DEF y, w
<1>6. Along(y, ledger)
  <2>1. Rooted(View(x, ledger))
    BY <1>2 DEF Along
  <2>2. /\ Lessened(View(y, ledger), View(x, ledger), s.row, s.by)
        /\ s \in ToSet(x.todo) /\ ToSet(y.todo) \subseteq ToSet(x.todo)
    BY <1>5, <2>1, DecrementedLess
  <2>3. Rooted(View(y, ledger)) /\ (Cancelled(View(y, ledger)) <=> Cancelled(View(x, ledger)))
    BY <2>2 DEF Lessened
  <2>4. ASSUME x.kind = "issuance" PROVE FALSE
    BY <1>2, <2>4, IssuesOnly DEF Along, Decrements, Running, Statement
  <2>5. CASE x.kind = "correction"
    <3>1. Corrects(y, ledger)
      BY <1>2, <1>5, <2>1, <2>5, DecrementCorrects DEF Along
    <3> QED
      BY <1>3, <2>3, <2>5, <3>1 DEF Along
  <2>6. CASE x.kind = "cancellation"
    <3>1. s.do \notin {"insert", "components"}
      BY DEF Decrements
    <3>2. Cancels(x, ledger) /\ ToSet(x.todo) = {s} \cup ToSet(y.todo)
      BY <1>2, <1>3, <1>4, <2>6, TodoIs DEF Along, Statement
    <3> HIDE DEF x, s
    <3>3. Cancels(y, ledger)
      BY <2>3, <3>1, <3>2 DEF Cancels
    <3> QED
      BY <1>3, <2>3, <2>6, <3>3 DEF Along
  <2>7. CASE x.kind = "payment"
    <3>1. Pays(y, ledger)
      BY <1>2, <1>5, <2>1, <2>7, DecrementPays DEF Along
    <3> QED
      BY <1>3, <2>3, <2>7, <3>1 DEF Along
  <2> QED
    BY <1>2, <2>4, <2>5, <2>6, <2>7 DEF Kinds, Running
<1> QED
  BY <1>1, <1>6, OneAlong

\* In another form it is the same decrement.
LEMMA BecomesAlong ==
    ASSUME IInv, BackfillInv, OneByOne, NEW t \in Txs, Running(t),
           Statement(t).do \in Decrements,
           NEW do \in Decrements, Becomes(t, do), UNCHANGED <<ledger, payable, served>>
    PROVE  BackfillInv'
<1> DEFINE x == tx[t]
           s == Statement(t)
           new == DecrementAs(do, s.row, s.by)
           list == [x.todo EXCEPT ![1] = new]
           y == [x EXCEPT !.todo = list]
<1>1. /\ DOMAIN x = Fields /\ Sound(x, ledger) /\ s \in Statements(ledger) /\ x.kind \in Kinds
      /\ Along(x, ledger)
  BY OfTransaction DEF BackfillInv, Sound
<1>2. /\ s = DecrementAs(s.do, s.row, s.by) /\ s.row \in BucketsOf(ledger) /\ s.by \in Int
  BY <1>1, StatementFields
<1>3. x.todo \in Seq(Statements(ledger)) /\ x.todo # << >> /\ s = x.todo[1]
  BY <1>1, TodoIs DEF Running, Statement
<1>4. [s EXCEPT !.do = do] = new
  BY <1>2, OtherForm
<1>5. tx' = [tx EXCEPT ![t] = y] /\ ledger' = ledger
  BY <1>3, <1>4 DEF Becomes
<1>6. /\ new.do = do /\ new.row = s.row /\ new.by = s.by /\ new \in Takings(ledger)
  <2>1. new \in Statements(ledger)
    BY <1>2 DEF Statements
  <2>2. new.do = do /\ new.row = s.row /\ new.by = s.by
    BY DEF DecrementAs
  <2> QED
    BY <2>1, <2>2 DEF Takings
<1>7. /\ y.kind = x.kind /\ y.todo = list /\ y.writes = x.writes
  BY <1>1, FieldsAre
<1> HIDE DEF new, y
<1>8. /\ DOMAIN list = DOMAIN x.todo /\ list[1] = new
      /\ \A k \in DOMAIN x.todo : k # 1 => list[k] = x.todo[k]
      /\ 1 \in DOMAIN x.todo
  BY <1>3
<1> HIDE DEF list
<1>9. \A m \in ToSet(list) : m = new \/ m \in ToSet(x.todo)
  BY <1>8 DEF ToSet
<1>10. s \in ToSet(x.todo) /\ new \in ToSet(list)
  BY <1>3, <1>8 DEF ToSet
<1>11. \A m \in ToSet(x.todo) : m = s \/ m \in ToSet(list)
  <2> SUFFICES ASSUME NEW k \in DOMAIN x.todo PROVE x.todo[k] = s \/ x.todo[k] \in ToSet(list)
    BY DEF ToSet
  <2>1. CASE k = 1
    BY <1>3, <2>1
  <2>2. CASE k # 1
    BY <1>8, <2>2 DEF ToSet
  <2> QED
    BY <2>1, <2>2
<1>12. View(y, ledger) = View(x, ledger) /\ Ahead(y, ledger) = Ahead(x, ledger)
  BY <1>7 DEF View, Ahead
<1>13. Along(y, ledger)
  <2>1. Rooted(View(y, ledger))
    BY <1>1, <1>12 DEF Along
  <2>2. s.do \in Decrements /\ new.do \in Decrements
    BY <1>6
  <2>3. ASSUME x.kind = "issuance" PROVE FALSE
    BY <1>1, <2>3, IssuesOnly DEF Along, Decrements, Running, Statement
  <2>4. CASE x.kind = "correction"
    <3>1. PICK p, i : /\ i \in IssuanceRows(View(x, ledger), p)
                      /\ Cancelled(View(x, ledger)) \/ Gap(View(x, ledger), i, Ahead(x, ledger))
                      /\ \A m \in ToSet(x.todo) : Correcting(m, p, i)
      BY <1>1, <2>4 DEF Along, Corrects
    <3>2. Correcting(new, p, i)
      <4>1. Correcting(s, p, i)
        BY <1>10, <3>1
      <4> HIDE DEF s
      <4> QED
        BY <1>6, <2>2, <4>1 DEF Correcting, Decrements
    <3>3. \A m \in ToSet(y.todo) : Correcting(m, p, i)
      BY <1>7, <1>9, <3>1, <3>2
    <3>4. Corrects(y, ledger)
      BY <1>12, <3>1, <3>3 DEF Corrects
    <3> QED
      BY <1>7, <2>1, <2>4, <3>4 DEF Along
  <2>5. CASE x.kind = "cancellation"
    <3>1. Cancels(x, ledger)
      BY <1>1, <2>5 DEF Along
    <3> HIDE DEF x, s
    <3>2. s.do \notin {"allocate", "insert", "components"} /\ new.do \notin {"allocate", "insert"}
      BY <2>2 DEF Decrements
    <3>3. Cancels(y, ledger)
      BY <1>7, <1>9, <1>11, <1>12, <3>1, <3>2 DEF Cancels
    <3> QED
      BY <1>7, <2>1, <2>5, <3>3 DEF Along
  <2>6. CASE x.kind = "payment"
    <3>1. Pays(x, ledger) /\ s = Head(x.todo)
      BY <1>1, <2>6 DEF Along, Statement
    <3> HIDE DEF x, s
    <3>2. PICK steps \in Seq(Takings(ledger)) :
              /\ x.todo = Append(steps, CommitTransaction)
              /\ Ready(steps, x, ledger)
              /\ steps # << >>
      BY <2>2, <3>1, AtPays
    <3> DEFINE more == [steps EXCEPT ![1] = new]
    <3>3. /\ list = Append(more, CommitTransaction) /\ more \in Seq(Takings(ledger))
          /\ Len(more) = Len(steps) /\ \A k \in 1..Len(steps) : more[k] = IF k = 1 THEN new ELSE steps[k]
      BY <1>6, <3>2, FirstReplaced DEF list
    <3>4. s = steps[1]
      <4>1. Head(steps) = steps[1] /\ s = Head(steps)
        BY <3>1, <3>2, ListEnds
      <4> QED
        BY <4>1
    <3> HIDE DEF more
    <3>5. \A k \in 1..Len(steps) : more[k].row = steps[k].row /\ more[k].by = steps[k].by
      BY <1>6, <3>3, <3>4
    <3>6. Ready(more, y, ledger)
      BY <1>12, <3>2, <3>3, <3>5, LeadsAlike DEF Ready
    <3>7. 0 \in Nat
      OBVIOUS
    <3>8. Pays(y, ledger)
      BY <1>7, <3>3, <3>6, <3>7 DEF Pays
    <3> QED
      BY <1>7, <2>1, <2>6, <3>8 DEF Along
  <2> QED
    BY <1>1, <2>3, <2>4, <2>5, <2>6 DEF Kinds, Running
<1> QED
  BY <1>5, <1>13, OneAlong

\* The three statements of decrementBucket.
LEMMA DecrementAlong ==
    ASSUME IInv, BackfillInv, OneByOne, NEW t \in Txs,
           DecrementBucket(t) \/ DecrementNullBucket(t) \/ DecrementBucketAgain(t)
    PROVE  BackfillInv'
<1>1. /\ Running(t) /\ Statement(t).do \in Decrements
      /\ UNCHANGED <<ledger, payable, served>>
      /\ ApplyDecrement(t) \/ \E do \in Decrements : Becomes(t, do)
  BY DEF DecrementBucket, DecrementNullBucket, DecrementBucketAgain, About, Retry, Decrements
<1> QED
  BY <1>1, ApplyDecrementAlong, BecomesAlong

-----------------------------------------------------------------------------
(* The other statements.                                                     *)

\* The agent updated.
LEMMA IncrementPayableAlong ==
    ASSUME IInv, BackfillInv, OneByOne, NEW t \in Txs, IncrementPayable(t)
    PROVE  BackfillInv'
<1> DEFINE x == tx[t]
           s == Statement(t)
           y == [[x EXCEPT !.owes = x.owes + s.by] EXCEPT !.todo = << >> \o Tail(x.todo),
                                                          !.holds = x.holds \cup s.locks]
<1>1. /\ Running(t) /\ s.do = "agent" /\ tx' = [tx EXCEPT ![t] = y] /\ ledger' = ledger
  BY DEF IncrementPayable, About, Done, DoneThen
<1>2. DOMAIN x = Fields /\ Sound(x, ledger) /\ Along(x, ledger)
  BY <1>1, OfTransaction DEF BackfillInv
<1>3. y.kind = x.kind /\ y.todo = << >> \o Tail(x.todo) /\ y.writes = x.writes
  BY <1>2, FieldsAre
<1>4. << >> \o Tail(x.todo) = Tail(x.todo)
  BY <1>1, <1>2, NothingBefore DEF Running
<1> HIDE DEF y
<1>5. Along(y, ledger)
  BY <1>1, <1>2, <1>3, <1>4, QuietAlong DEF Running, Statement
<1> QED
  BY <1>1, <1>5, OneAlong

\* A policy locked.
LEMMA LockPolicyAlong ==
    ASSUME IInv, BackfillInv, OneByOne, NEW t \in Txs, LockPolicy(t)
    PROVE  BackfillInv'
<1> DEFINE x == tx[t]
           s == Statement(t)
           y == [x EXCEPT !.todo = << >> \o Tail(x.todo), !.holds = x.holds \cup s.locks]
<1>1. /\ Running(t) /\ s.do = "policy" /\ tx' = [tx EXCEPT ![t] = y] /\ ledger' = ledger
  BY DEF LockPolicy, About, Done, DoneThen
<1>2. DOMAIN x = Fields /\ Sound(x, ledger) /\ Along(x, ledger)
  BY <1>1, OfTransaction DEF BackfillInv
<1>3. y.kind = x.kind /\ y.todo = << >> \o Tail(x.todo) /\ y.writes = x.writes
  BY <1>2, FieldsAre
<1>4. << >> \o Tail(x.todo) = Tail(x.todo)
  BY <1>1, <1>2, NothingBefore DEF Running
<1> HIDE DEF y
<1>5. Along(y, ledger)
  BY <1>1, <1>2, <1>3, <1>4, QuietAlong DEF Running, Statement
<1> QED
  BY <1>1, <1>5, OneAlong

\* A payment plans as its row is replayed.
LEMMA AllocatePaymentAlong ==
    ASSUME IInv, BackfillInv, OneByOne, NEW t \in Txs, AllocatePayment(t)
    PROVE  BackfillInv'
<1> DEFINE x == tx[t]
           s == Statement(t)
           more == Allocation(ledger, s.by)
           y == [x EXCEPT !.todo = more \o Tail(x.todo), !.holds = x.holds \cup s.locks]
<1>1. /\ Running(t) /\ s.do = "allocate" /\ tx' = [tx EXCEPT ![t] = y] /\ ledger' = ledger
  BY DEF AllocatePayment, About, Done, DoneThen
<1>2. /\ DOMAIN x = Fields /\ Sound(x, ledger) /\ ledger \in Tables /\ x.kind \in Kinds
      /\ s \in Statements(ledger) /\ BucketsOf(ledger) # {} /\ Along(x, ledger)
  BY <1>1, OfTransaction DEF IInv, LedgerOK, Sound, BackfillInv
<1>3. s.by \in Nat
  BY <1>1, <1>2, StatementFields
<1>4. /\ y.kind = x.kind /\ y.todo = more \o Tail(x.todo) /\ y.writes = x.writes
  BY <1>2, FieldsAre
<1>5. more \in Seq(Takings(ledger))
  BY <1>2, <1>3, AllocationInOrder
<1>6. View(y, ledger) = View(x, ledger)
  BY <1>4 DEF View
<1>7. s = Head(x.todo) /\ s \in ToSet(x.todo)
  BY <1>1, <1>2, TodoIs DEF Running, Statement
<1> HIDE DEF y, more
<1>8. x.kind = "payment"
  <2>1. x.kind # "issuance"
    BY <1>1, <1>2, <1>7, IssuesOnly DEF Along
  <2>2. x.kind # "correction"
    BY <1>1, <1>2, <1>7 DEF Along, Corrects, Correcting
  <2>3. x.kind # "cancellation"
    BY <1>1, <1>2, <1>7 DEF Along, Cancels
  <2> QED
    BY <1>1, <1>2, <2>1, <2>2, <2>3 DEF Kinds, Running
<1>9. Pays(x, ledger) /\ Rooted(View(x, ledger))
  BY <1>2, <1>8 DEF Along
<1> HIDE DEF x, s
<1>10. Tail(x.todo) = Append(<< >>, CommitTransaction) /\ Ready(more, x, ledger)
  BY <1>1, <1>7, <1>9, AtPays DEF more
<1>11. y.todo = Append(more, CommitTransaction)
  <2>1. more \o Append(<< >>, CommitTransaction) = Append(more, CommitTransaction)
    BY <1>5
  <2> QED
    BY <1>4, <1>10, <2>1
<1>12. Ready(more, y, ledger)
  BY <1>6, <1>10 DEF Ready
<1>13. Pays(y, ledger)
  <2>1. 0 \in Nat
    OBVIOUS
  <2> QED
    BY <1>5, <1>11, <1>12, <2>1 DEF Pays
<1>14. Along(y, ledger)
  BY <1>4, <1>6, <1>8, <1>9, <1>13 DEF Along
<1> QED
  BY <1>1, <1>14, OneAlong

\* The one row a cancellation inserts says that it is one.
LEMMA RefundsCancel ==
    ASSUME NEW rows \in Tables, NEW p, NEW seen, seen \subseteq DOMAIN rows, NEW refund
    PROVE  /\ \A m \in ToSet(Refunds(rows, p, seen, refund)) :
                 m.do # "allocate" /\ (m.do = "insert" => m.row.type = "CANCELLED_POLICY")
           /\ \E m \in ToSet(Refunds(rows, p, seen, refund)) : m.do = "insert"
<1> DEFINE net       == SumFunctionOnSet(refund, seen)
           Target(i) == IF IsBucket(rows[i]) THEN {i} ELSE IssuanceRows(rows, p)
           moved     == IF Floored(net) THEN {} ELSE {i \in seen : refund[i] # 0 /\ Target(i) # {}}
           inOrder   == Arranged(moved, LAMBDA i, j : i < j)
           takes     == [k \in DOMAIN inOrder |->
                            Decrement(CHOOSE i \in Target(inOrder[k]) : TRUE, refund[inOrder[k]])]
           insert    == Insert(Row("CANCELLED_POLICY", p, -Deduction(net), NoDue, FALSE))
           update    == UpdateAgent(-Deduction(net))
<1>1. Refunds(rows, p, seen, refund) = takes \o <<insert, update>>
  BY DEF Refunds
<1>2. PICK n \in Nat : n = Cardinality(moved)
  <2>1. moved \subseteq DOMAIN rows
    OBVIOUS
  <2> HIDE DEF moved
  <2> QED
    BY <2>1, TablesAre, FS_Subset, FS_CardinalityType
<1>3. DOMAIN inOrder = 1..n
  BY <1>2 DEF Arranged
<1>4. \A k \in DOMAIN takes : takes[k].do = "decrement"
  BY DEF Decrement
<1>5. insert.do = "insert" /\ insert.row.type = "CANCELLED_POLICY" /\ update.do = "agent"
  <2> DEFINE m == -Deduction(net)
  <2> HIDE DEF net, m
  <2> QED
    BY DEF Insert, Row, UpdateAgent
<1> HIDE DEF moved, inOrder, insert, update
<1>6. DOMAIN takes = 1..n /\ takes = [k \in DOMAIN takes |-> takes[k]]
  BY <1>3
<1> HIDE DEF takes
<1> DEFINE T == {takes[k] : k \in 1..n}
           Z == T \cup {insert, update}
           pair == Append(<<insert>>, update)
<1>7. takes \in Seq(T)
  <2>1. takes \in [1..n -> T]
    BY <1>6
  <2> QED
    BY <1>2, <2>1, RankedIsSeq
<1>8. takes \in Seq(Z) /\ pair \in Seq(Z) /\ <<insert, update>> = pair
  BY <1>7
<1>9. ToSet(pair) = {insert, update} /\ ToSet(takes) \subseteq T
  BY <1>6, PairHas DEF ToSet
<1> HIDE DEF Z, pair
<1>10. ToSet(takes \o pair) = ToSet(takes) \cup ToSet(pair)
  BY <1>8, ConcatHas
<1>11. \A m \in ToSet(takes) : m.do = "decrement"
  BY <1>4, <1>6, <1>9
<1> HIDE DEF T
<1> QED
  BY <1>1, <1>5, <1>8, <1>9, <1>10, <1>11

\* A cancellation will say that it is one.
LEMMA ComputeRefundsAlong ==
    ASSUME IInv, BackfillInv, OneByOne, NEW t \in Txs, ComputeRefunds(t)
    PROVE  BackfillInv'
<1> DEFINE x == tx[t]
           s == Statement(t)
           p == s.policy
           seen == {i \in DOMAIN ledger : /\ ledger[i].policy = p
                                          /\ ledger[i].type \in {"ISSUANCE", "ENDORSEMENT"}}
           Part(n) == IF n >= 0 THEN 0..n ELSE n..0
<1>1. Running(t) /\ s.do = "components" /\ ReadRefunds(t, p, <<UpdatePolicy(p)>>) /\ ledger' = ledger
  BY DEF ComputeRefunds, About
<1>2. PICK refund \in [seen -> UNION {Part(ledger[i].amount) : i \in seen}] :
          /\ \A i \in seen : refund[i] \in Part(ledger[i].amount)
          /\ DoneThen(t, x, <<UpdatePolicy(p)>> \o Refunds(ledger, p, seen, refund))
  BY <1>1 DEF ReadRefunds
<1> DEFINE refunds == Refunds(ledger, p, seen, refund)
           more == <<UpdatePolicy(p)>> \o refunds
           y == [x EXCEPT !.todo = more \o Tail(x.todo), !.holds = x.holds \cup s.locks]
<1>3. tx' = [tx EXCEPT ![t] = y]
  BY <1>2 DEF DoneThen
<1>4. /\ DOMAIN x = Fields /\ Sound(x, ledger) /\ ledger \in Tables /\ s \in Statements(ledger)
      /\ x.kind \in Kinds /\ Along(x, ledger)
  BY <1>1, OfTransaction DEF BackfillInv, Sound
<1>5. p \in IssuedIn(ledger) /\ p \in Policies
  BY <1>1, <1>4, StatementFields DEF IssuedIn
<1>6. refund \in [seen -> Int]
  <2>1. \A i \in DOMAIN ledger : ledger[i].amount \in Int
    BY <1>4, TablesAre DEF Admitted, LedgerRow
  <2>2. \A i \in seen : refund[i] \in Int
    BY <1>2, <2>1
  <2> QED
    BY <1>2, <2>2
<1>7. seen \subseteq DOMAIN ledger
  OBVIOUS
<1>8. /\ y.kind = x.kind /\ y.todo = more \o Tail(x.todo) /\ y.writes = x.writes
  BY <1>4, FieldsAre
<1> HIDE DEF seen, p, y
<1>9. refunds \in Seq(Steps(ledger))
  <2>1. refunds \in Balanced(ledger)
    BY <1>4, <1>5, <1>6, <1>7, RefundsBalance
  <2> HIDE DEF refunds
  <2> QED
    BY <2>1 DEF Balanced
<1>a. /\ \A m \in ToSet(refunds) :
            m.do # "allocate" /\ (m.do = "insert" => m.row.type = "CANCELLED_POLICY")
      /\ \E m \in ToSet(refunds) : m.do = "insert"
  BY <1>4, <1>7, RefundsCancel
<1>b. PICK inserted \in ToSet(refunds) : inserted.do = "insert"
  <2> HIDE DEF refunds
  <2> QED
    BY <1>a
<1> DEFINE first == <<UpdatePolicy(p)>>
           rest == Tail(x.todo)
<1>10. first \in Seq(Steps(ledger)) /\ more = first \o refunds /\ ToSet(first) = {UpdatePolicy(p)}
  BY <1>5, StepsAre, OneItem
<1>11. s = Head(x.todo) /\ s \in ToSet(x.todo) /\ rest \in Seq(Statements(ledger))
       /\ ToSet(rest) \subseteq ToSet(x.todo)
  BY <1>1, <1>4, TodoIs DEF Running, Statement
<1>12. UpdatePolicy(p).do = "policy" /\ Steps(ledger) \subseteq Statements(ledger)
  BY DEF UpdatePolicy, Steps
<1> HIDE DEF refunds, first, rest, more
<1>13. ToSet(y.todo) = ToSet(first) \cup ToSet(refunds) \cup ToSet(rest)
  <2>1. more \in Seq(Steps(ledger)) /\ ToSet(more) = ToSet(first) \cup ToSet(refunds)
    BY <1>9, <1>10, ConcatHas
  <2>2. more \in Seq(Statements(ledger))
    BY <1>12, <2>1
  <2>3. ToSet(more \o rest) = ToSet(more) \cup ToSet(rest)
    BY <1>11, <2>2, ConcatHas
  <2> QED
    BY <1>8, <2>1, <2>3 DEF rest
<1>14. x.kind = "cancellation"
  <2>1. x.kind # "issuance"
    BY <1>1, <1>4, <1>11, IssuesOnly DEF Along
  <2>2. x.kind # "correction"
    BY <1>1, <1>4, <1>11 DEF Along, Corrects, Correcting
  <2>3. x.kind # "payment"
    BY <1>1, <1>4, <1>11, AtPays DEF Along
  <2> QED
    BY <1>1, <1>4, <2>1, <2>2, <2>3 DEF Kinds, Running
<1>15. Cancels(x, ledger) /\ Rooted(View(x, ledger))
  BY <1>4, <1>14 DEF Along
<1>16. View(y, ledger) = View(x, ledger)
  BY <1>8 DEF View
<1> HIDE DEF x, s
<1>17. Cancels(y, ledger)
  <2>1. ASSUME NEW m \in ToSet(y.todo)
        PROVE  m.do # "allocate" /\ (m.do = "insert" => m.row.type = "CANCELLED_POLICY")
    <3>1. CASE m \in ToSet(first)
      <4>1. m.do = "policy"
        BY <1>10, <1>12, <3>1
      <4> QED
        BY <4>1
    <3>2. CASE m \in ToSet(refunds)
      BY <1>a, <3>2
    <3>3. CASE m \in ToSet(rest)
      BY <1>11, <1>15, <3>3 DEF Cancels
    <3> QED
      BY <1>13, <2>1, <3>1, <3>2, <3>3
  <2>2. \E m \in ToSet(y.todo) : m.do = "insert"
    BY <1>b, <1>13
  <2> QED
    BY <2>1, <2>2 DEF Cancels
<1>18. Along(y, ledger)
  BY <1>8, <1>14, <1>15, <1>16, <1>17 DEF Along
<1> QED
  BY <1>3, <1>1, <1>18, OneAlong DEF x

-----------------------------------------------------------------------------
(* The ends of a transaction.                                                *)

\* What a transaction that commits has written can be replayed.
LEMMA CommitAlong ==
    ASSUME IInv, BackfillInv, OneByOne, NEW t \in Txs, Commit(t)
    PROVE  BackfillInv'
<1> DEFINE x == tx[t]
           s == Statement(t)
           v == View(x, ledger)
<1>1. /\ Running(t) /\ s.do = "commit" /\ tx' = [tx EXCEPT ![t] = Idle] /\ ledger' = v
  BY DEF Commit, About, View
<1>2. /\ Sound(x, ledger) /\ x.kind \in Kinds /\ Along(x, ledger) /\ x.owes \in Int
      /\ \A book : Moved(book, x.writes, ledger) \in Int
  BY <1>1, OfTransaction DEF BackfillInv, Sound
<1>3. x.todo = <<CommitTransaction>> /\ ToSet(x.todo) = {s} /\ s = CommitTransaction /\ s = Head(x.todo)
  <2>1. x.todo = <<CommitTransaction>>
    BY <1>1, <1>2, TodoIs DEF Running, Statement
  <2>2. ToSet(<<CommitTransaction>>) = {CommitTransaction}
    BY OneItem
  <2>3. Head(<<CommitTransaction>>) = CommitTransaction
    OBVIOUS
  <2> QED
    BY <2>1, <2>2, <2>3 DEF Statement
<1>4. v \in Tables
  BY ViewIs
<1>5. Standing(v)
  <2>1. CASE x.kind = "issuance"
    <3>1. Issues(x, ledger)
      BY <1>2, <2>1 DEF Along
    <3>2. ASSUME NEW p, NEW n, NEW due, x.todo = Append(Issuance(p, n, due), CommitTransaction)
          PROVE  FALSE
      <4> DEFINE a == Insert(Row("ISSUANCE", p, n, due, TRUE))
                 b == UpdateAgent(n)
      <4>1. x.todo = Append(<<a, b>>, CommitTransaction) /\ a.do = "insert"
        BY <3>2 DEF Issuance, Insert
      <4> HIDE DEF a, b
      <4>2. <<a, b>> \in Seq({a, b}) /\ <<a, b>> # << >> /\ Head(<<a, b>>) = a
        OBVIOUS
      <4>3. s = a
        BY <1>3, <4>1, <4>2, ListEnds
      <4> QED
        BY <1>1, <4>1, <4>3
    <3> QED
      BY <3>1, <3>2 DEF Issues
  <2>2. CASE x.kind = "correction"
    <3>1. PICK p, i : Cancelled(v) \/ Gap(v, i, Ahead(x, ledger))
      BY <1>2, <2>2 DEF Along, Corrects
    <3>2. \A book \in Books : Moved(book, x.writes, ledger) = x.owes
      <4>1. PICK steps \in Seq(Steps(ledger)) :
                /\ x.todo = Append(steps, CommitTransaction)
                /\ \A book \in Books : Settles(book, steps, x.owes - Moved(book, x.writes, ledger))
        BY <1>1, <1>2 DEF Sound, Pending, Running
      <4>2. steps = << >>
        <5>1. ASSUME steps # << >> PROVE FALSE
          <6>1. s = Head(steps) /\ Head(steps) \in Steps(ledger)
            BY <4>1, <5>1, ListEnds DEF Statement
          <6>2. s \in Statements(ledger) /\ s # CommitTransaction
            BY <6>1 DEF Steps
          <6> QED
            BY <1>3, <6>2
        <5> QED
          BY <5>1
      <4>3. \A book \in Books : x.owes - Moved(book, x.writes, ledger) = 0
        BY <4>1, <4>2, NothingSettled
      <4> QED
        BY <1>2, <4>3
    <3>3. Ahead(x, ledger) = 0
      <4>1. "buckets" \in Books /\ "ledger" \in Books
        BY DEF Books
      <4> QED
        BY <1>2, <3>2, <4>1 DEF Ahead
    <3> QED
      BY <1>4, <3>1, <3>3, GapNone DEF Standing
  <2>3. CASE x.kind = "cancellation"
    <3>1. s.do \notin {"insert", "components"}
      BY <1>1
    <3>2. Cancels(x, ledger)
      BY <1>2, <2>3 DEF Along
    <3> QED
      BY <1>3, <3>1, <3>2 DEF Cancels, Standing
  <2>4. CASE x.kind = "payment"
    <3>1. Pays(x, ledger)
      BY <1>2, <2>4 DEF Along
    <3> HIDE DEF x, s
    <3>2. s = Head(x.todo) /\ s.do = "commit"
      BY <1>1, <1>3
    <3>3. PICK steps \in Seq(Takings(ledger)) : Ready(steps, x, ledger) /\ steps = << >>
      <4>1. s.do \in Decrements \cup {"commit"}
        BY <3>2
      <4>2. \E steps \in Seq(Takings(ledger)) :
               /\ x.todo = Append(steps, CommitTransaction)
               /\ Ready(steps, x, ledger)
               /\ s.do \in Decrements => steps # << >>
               /\ s.do = "commit" => steps = << >>
        BY <3>1, <3>2, <4>1, AtPays
      <4> QED
        BY <3>2, <4>2
    <3>4. Cancelled(v) \/ Leads(<< >>, Remaining(v), Replay(v))
      BY <3>3 DEF Ready, v
    <3> HIDE DEF v
    <3>5. Remaining(v) \in [BucketsOf(v) -> Int]
      BY <1>4, RemainingIs
    <3> QED
      BY <3>4, <3>5, LeadsNowhere DEF Standing
  <2> QED
    BY <1>1, <1>2, <2>1, <2>2, <2>3, <2>4 DEF Kinds, Running
<1>6. Rooted(v)
  BY <1>2 DEF Along
<1>7. \A u \in Txs : ~Running(u)'
  <2>1. tx'[t] = Idle /\ \A u \in Txs : u = t
    BY <1>1 DEF IInv, Transactions, OneByOne
  <2> QED
    BY <2>1, FieldsAre DEF Running
<1> QED
  BY <1>1, <1>5, <1>6, <1>7 DEF BackfillInv

\* One that fails leaves the ledger as it was.
LEMMA RollbackAlong ==
    ASSUME IInv, BackfillInv, OneByOne, NEW t \in Txs, Fail(t) \/ BreakDeadlock(t)
    PROVE  BackfillInv'
<1>1. tx' = [tx EXCEPT ![t] = Idle] /\ ledger' = ledger
  BY DEF Fail, BreakDeadlock
<1> QED
  BY <1>1, FieldsAre, OneAlong

\* A transaction that has only begun.
Begun(y, kind, statements) ==
    /\ y.kind = kind /\ y.writes = NoRows
    /\ y.todo = Append(statements, CommitTransaction)

\* What it sees is the ledger, which can be replayed.
LEMMA BegunSees ==
    ASSUME IInv, BackfillInv, NEW y, y.writes = NoRows
    PROVE  /\ View(y, ledger) = ledger /\ Ahead(y, ledger) = 0
           /\ ledger \in Tables /\ Rooted(ledger) /\ Standing(ledger)
<1>1. ledger \in Tables
  BY DEF IInv, LedgerOK
<1>2. \A book : Moved(book, NoRows, ledger) = 0
  BY NothingMoved
<1> QED
  BY <1>1, <1>2, NothingWritten DEF View, Ahead, BackfillInv

\* A request leaves the strengthening when its statements have it.
LEMMA BeginAlong ==
    ASSUME IInv, BackfillInv, OneByOne, NEW t \in Txs, NEW kind, NEW p, NEW statements,
           Begin(t, kind, p, statements),
           \A y : Begun(y, kind, statements) => Along(y, ledger)
    PROVE  BackfillInv'
<1> DEFINE y == [Idle EXCEPT !.kind = kind, !.policy = p,
                             !.todo = Append(statements, CommitTransaction)]
<1>1. tx' = [tx EXCEPT ![t] = y] /\ ledger' = ledger
  BY DEF Begin
<1>2. Begun(y, kind, statements)
  BY FieldsAre DEF Begun
<1> HIDE DEF y
<1>3. Along(y, ledger)
  BY <1>2
<1> QED
  BY <1>1, <1>3, OneAlong

\* The statements of a line are those of a correction.
LEMMA LineCorrects ==
    ASSUME NEW rows, NEW p, NEW i, IssuanceRows(rows, p) # {},
           i = CHOOSE k \in IssuanceRows(rows, p) : TRUE,
           NEW n \in Nat, NEW due
    PROVE  /\ \A m \in ToSet(Credit(p, n, due)) : Correcting(m, p, i)
           /\ \A m \in ToSet(Debit(rows, p, n)) : Correcting(m, p, i)
<1>1. ASSUME NEW k PROVE Correcting(UpdateAgent(k), p, i)
  BY DEF Correcting, UpdateAgent, Decrements
<1>2. Correcting(Insert(Row("ENDORSEMENT", p, n, due, TRUE)), p, i)
  <2> DEFINE row == Row("ENDORSEMENT", p, n, due, TRUE)
  <2>1. row.type = "ENDORSEMENT" /\ row.policy = p /\ row.remaining = row.amount
    BY DEF Row
  <2> HIDE DEF row
  <2>2. Correcting(Insert(row), p, i)
    BY <2>1 DEF Correcting, Insert, Decrements
  <2> QED
    BY <2>2 DEF row
<1>3. Correcting(Insert(Row("ENDORSEMENT", p, -n, NoDue, FALSE)), p, i)
  <2> DEFINE row == Row("ENDORSEMENT", p, -n, NoDue, FALSE)
  <2>1. row.type = "ENDORSEMENT" /\ row.policy = p /\ row.remaining = 0 /\ row.amount = -n
    BY DEF Row
  <2> HIDE DEF row
  <2>2. IsBucket(row) => row.remaining = row.amount
    BY <2>1 DEF IsBucket
  <2>3. Correcting(Insert(row), p, i)
    BY <2>1, <2>2 DEF Correcting, Insert, Decrements
  <2> QED
    BY <2>3 DEF row
<1>4. Correcting(Decrement(i, n), p, i)
  BY DEF Correcting, Decrement, Decrements
<1>5. ASSUME NEW m \in ToSet(Credit(p, n, due)) PROVE Correcting(m, p, i)
  <2> DEFINE a == Insert(Row("ENDORSEMENT", p, n, due, TRUE))
             b == UpdateAgent(n)
  <2>1. Credit(p, n, due) = <<a, b>> /\ Correcting(a, p, i) /\ Correcting(b, p, i)
    BY <1>1, <1>2 DEF Credit
  <2> HIDE DEF a, b
  <2>2. <<a, b>> = Append(<<a>>, b)
    BY TwoInARow
  <2>3. m \in {a, b}
    BY <1>5, <2>1, <2>2, PairHas
  <2> QED
    BY <2>1, <2>3
<1>6. ASSUME NEW m \in ToSet(Debit(rows, p, n)) PROVE Correcting(m, p, i)
  <2> DEFINE a == Insert(Row("ENDORSEMENT", p, -n, NoDue, FALSE))
             b == UpdateAgent(-n)
             d == Decrement(i, n)
             first == <<d>>
             pair == Append(<<a>>, b)
             Z == {a, b, d}
  <2>1. Debit(rows, p, n) = first \o <<a, b>>
    BY DEF Debit
  <2>2. Correcting(a, p, i) /\ Correcting(b, p, i) /\ Correcting(d, p, i)
    BY <1>1, <1>3, <1>4
  <2> HIDE DEF a, b, d
  <2>3. first \in Seq(Z) /\ pair \in Seq(Z) /\ <<a, b>> = pair
    OBVIOUS
  <2>4. ToSet(first) = {d} /\ ToSet(pair) = {a, b}
    BY OneItem, PairHas
  <2> HIDE DEF first, pair, Z
  <2>5. ToSet(first \o pair) = ToSet(first) \cup ToSet(pair)
    BY <2>3, ConcatHas
  <2>6. m \in ToSet(first) \cup ToSet(pair)
    BY <1>6, <2>1, <2>3, <2>5
  <2> QED
    BY <2>2, <2>4, <2>6
<1> QED
  BY <1>5, <1>6

\* Whatever is asked for.
LEMMA RequestAlong ==
    ASSUME IInv, BackfillInv, OneByOne, NEW t \in Txs, Request(t)
    PROVE  BackfillInv'
<1> DEFINE All == Seq(Steps(ledger))
<1>1. ASSUME NEW p \in Policies, NEW n \in Amounts, NEW due \in DueDates, IssuePolicy(t, p, n, due)
      PROVE  BackfillInv'
  <2>1. Begin(t, "issuance", p, Issuance(p, n, due)) /\ IssuanceRows(ledger, p) = {}
        /\ n \in Nat /\ due \in Nat
    BY <1>1, LedgerAssumption DEF IssuePolicy
  <2>2. ASSUME NEW y, Begun(y, "issuance", Issuance(p, n, due)) PROVE Along(y, ledger)
    <3>1. Rooted(View(y, ledger)) /\ y.kind = "issuance"
      BY <2>2, BegunSees DEF Begun
    <3>2. Issues(y, ledger)
      BY <2>1, <2>2 DEF Begun, Issues
    <3> QED
      BY <3>1, <3>2 DEF Along
  <2> QED
    BY <2>1, <2>2, BeginAlong
<1>2. ASSUME NEW n \in Amounts, RecordPayment(t, n)
      PROVE  BackfillInv'
  <2>1. Begin(t, "payment", NoPolicy, Payment(n)) /\ n \in Nat
    BY <1>2, LedgerAssumption DEF RecordPayment
  <2>2. ASSUME NEW y, Begun(y, "payment", Payment(n)) PROVE Along(y, ledger)
    <3>1. Rooted(View(y, ledger)) /\ y.kind = "payment"
      BY <2>2, BegunSees DEF Begun
    <3>2. Pays(y, ledger)
      BY <2>1, <2>2 DEF Begun, Pays
    <3> QED
      BY <3>1, <3>2 DEF Along
  <2> QED
    BY <2>1, <2>2, BeginAlong
<1>3. ASSUME NEW p \in Policies, NEW kinds \in LineLists, NEW due \in DueDates,
             NEW amounts \in [DOMAIN kinds -> Amounts],
             ApproveCorrection(t, p, [k \in DOMAIN kinds |->
                 [kind |-> kinds[k], amount |-> amounts[k], due |-> due]])
      PROVE  BackfillInv'
  <2> DEFINE lines == [k \in DOMAIN kinds |->
                          [kind |-> kinds[k], amount |-> amounts[k], due |-> due]]
             lists == [k \in DOMAIN lines |->
                          Line(ledger, p, lines[k].kind, lines[k].amount, lines[k].due)]
             flat == FlattenSeq(lists)
             last == <<UpdatePolicy(p)>>
             i == CHOOSE k \in IssuanceRows(ledger, p) : TRUE
  <2>1. /\ p \in IssuedIn(ledger) /\ IssuanceRows(ledger, p) # {}
        /\ Begin(t, "correction", p, flat \o last)
    BY <1>3 DEF ApproveCorrection, Endorsable, IssuedIn, Correction
  <2>2. DOMAIN lines = 1..Len(kinds) /\ Len(kinds) \in Nat
        /\ \A k \in DOMAIN lines : lines[k].amount \in Nat /\ lines[k].due \in Nat
    <3>1. kinds \in Seq({"credit", "debit"})
      BY LedgerAssumption
    <3>2. DOMAIN kinds = 1..Len(kinds) /\ Len(kinds) \in Nat
      BY <3>1
    <3>3. DOMAIN lines = DOMAIN kinds
          /\ \A k \in DOMAIN lines : lines[k].amount \in Nat /\ lines[k].due \in Nat
      BY LedgerAssumption
    <3> HIDE DEF lines
    <3> QED
      BY <3>2, <3>3
  <2> HIDE DEF lines
  <2>3. ASSUME NEW k \in DOMAIN lines
        PROVE  lists[k] \in All /\ \A m \in ToSet(lists[k]) : Correcting(m, p, i)
    <3>1. p \in Policies /\ lines[k].amount \in Nat /\ lines[k].due \in Nat
      BY <2>1, <2>2 DEF IssuedIn
    <3>2. /\ Credit(p, lines[k].amount, lines[k].due) \in All
          /\ Debit(ledger, p, lines[k].amount) \in All
      BY <2>1, <3>1, RequestsBalance DEF Balanced
    <3>3. /\ \A m \in ToSet(Credit(p, lines[k].amount, lines[k].due)) : Correcting(m, p, i)
          /\ \A m \in ToSet(Debit(ledger, p, lines[k].amount)) : Correcting(m, p, i)
      BY <2>1, <3>1, LineCorrects
    <3> HIDE DEF All, i
    <3> QED
      BY <3>2, <3>3 DEF Line
  <2>4. DOMAIN lists = 1..Len(kinds) /\ lists \in [1..Len(kinds) -> All]
    BY <2>2, <2>3
  <2>5. lists \in Seq(All)
    <3> HIDE DEF lists, All
    <3> QED
      BY <2>2, <2>4, RankedIsSeq
  <2>6. i \in IssuanceRows(ledger, p)
    BY <2>1
  <2> HIDE DEF lists, i
  <2>7. flat \in All /\ ToSet(flat) = UNION {ToSet(lists[k]) : k \in DOMAIN lists}
    BY <2>5, FlattenHas
  <2>8. last \in All /\ ToSet(last) = {UpdatePolicy(p)}
    <3>1. UpdatePolicy(p) \in Steps(ledger)
      BY <2>1, StepsAre DEF IssuedIn
    <3> QED
      BY <3>1, OneItem
  <2> HIDE DEF flat, last
  <2>9. flat \o last \in All /\ ToSet(flat \o last) = ToSet(flat) \cup ToSet(last)
    BY <2>7, <2>8, ConcatHas
  <2>10. /\ Correcting(UpdatePolicy(p), p, i) /\ Correcting(CommitTransaction, p, i)
    BY DEF Correcting, UpdatePolicy, CommitTransaction, Decrements
  <2>11. \A m \in ToSet(flat \o last) : Correcting(m, p, i)
    <3>1. \A k \in DOMAIN lists : \A m \in ToSet(lists[k]) : Correcting(m, p, i)
      BY <2>2, <2>3, <2>4
    <3> QED
      BY <2>7, <2>8, <2>9, <2>10, <3>1
  <2> DEFINE statements == flat \o last
  <2>12. /\ statements \in All /\ Begin(t, "correction", p, statements)
         /\ \A m \in ToSet(statements) : Correcting(m, p, i)
    BY <2>1, <2>9, <2>11
  <2> HIDE DEF statements
  <2>13. ASSUME NEW y, Begun(y, "correction", statements) PROVE Along(y, ledger)
    <3>1. /\ View(y, ledger) = ledger /\ Ahead(y, ledger) = 0 /\ ledger \in Tables
          /\ Rooted(ledger) /\ Standing(ledger) /\ y.kind = "correction"
          /\ y.todo = Append(statements, CommitTransaction)
      BY <2>13, BegunSees DEF Begun
    <3>2. Cancelled(ledger) \/ Gap(ledger, i, 0)
      BY <3>1, GapNone DEF Standing
    <3>3. ASSUME NEW m \in ToSet(y.todo) PROVE Correcting(m, p, i)
      <4> DEFINE Z == Statements(ledger)
                 end == <<CommitTransaction>>
      <4>1. statements \in Seq(Z) /\ CommitTransaction \in Z
        <5>1. Steps(ledger) \subseteq Z /\ CommitTransaction \in Z
          BY DEF Steps, Statements
        <5> HIDE DEF Z
        <5> QED
          BY <2>12, <5>1
      <4> HIDE DEF Z
      <4>2. end \in Seq(Z) /\ ToSet(end) = {CommitTransaction}
        BY <4>1, OneItem
      <4>3. y.todo = statements \o end
        BY <3>1
      <4> HIDE DEF end
      <4>4. m \in ToSet(statements) \/ m = CommitTransaction
        BY <3>3, <4>1, <4>2, <4>3, ConcatHas
      <4> QED
        BY <2>10, <2>12, <4>4
    <3>4. Corrects(y, ledger)
      BY <2>6, <3>1, <3>2, <3>3 DEF Corrects
    <3> QED
      BY <3>1, <3>4 DEF Along
  <2> QED
    BY <2>12, <2>13, BeginAlong
<1>4. ASSUME NEW p \in Policies, ApproveCancellation(t, p)
      PROVE  BackfillInv'
  <2> DEFINE r == ReadComponents(p)
             list == <<r>>
  <2>1. Begin(t, "cancellation", p, list)
    BY <1>4 DEF ApproveCancellation
  <2>2. r.do = "components" /\ CommitTransaction.do = "commit"
    BY DEF ReadComponents, CommitTransaction
  <2> HIDE DEF r
  <2>3. ToSet(Append(list, CommitTransaction)) = {r, CommitTransaction}
    BY PairHas
  <2> HIDE DEF list
  <2>4. ASSUME NEW y, Begun(y, "cancellation", list) PROVE Along(y, ledger)
    <3>1. Rooted(View(y, ledger)) /\ y.kind = "cancellation" /\ ToSet(y.todo) = {r, CommitTransaction}
      BY <2>3, <2>4, BegunSees DEF Begun
    <3>2. Cancels(y, ledger)
      BY <2>2, <3>1 DEF Cancels
    <3> QED
      BY <3>1, <3>2 DEF Along
  <2> QED
    BY <2>1, <2>4, BeginAlong
<1> QED
  BY <1>1, <1>2, <1>3, <1>4 DEF Request

\* No step leaves a ledger that cannot be replayed.
LEMMA StepAlong == ASSUME IInv, BackfillInv, OneByOne, [Next]_ledgerVars PROVE BackfillInv'
<1>1. ASSUME NEW t \in Txs, Request(t) PROVE BackfillInv'
  BY <1>1, RequestAlong
<1>2. ASSUME NEW t \in Txs, InsertRow(t) PROVE BackfillInv'
  BY <1>2, InsertRowAlong
<1>3. ASSUME NEW t \in Txs, IncrementPayable(t) PROVE BackfillInv'
  BY <1>3, IncrementPayableAlong
<1>4. ASSUME NEW t \in Txs, LockPolicy(t) PROVE BackfillInv'
  BY <1>4, LockPolicyAlong
<1>5. ASSUME NEW t \in Txs, DecrementBucket(t) \/ DecrementNullBucket(t) \/ DecrementBucketAgain(t)
      PROVE  BackfillInv'
  BY <1>5, DecrementAlong
<1>6. ASSUME NEW t \in Txs, AllocatePayment(t) PROVE BackfillInv'
  BY <1>6, AllocatePaymentAlong
<1>7. ASSUME NEW t \in Txs, ComputeRefunds(t) PROVE BackfillInv'
  BY <1>7, ComputeRefundsAlong
<1>8. ASSUME NEW t \in Txs, Commit(t) PROVE BackfillInv'
  BY <1>8, CommitAlong
<1>9. ASSUME NEW t \in Txs, Fail(t) \/ BreakDeadlock(t) PROVE BackfillInv'
  BY <1>9, RollbackAlong
<1>10. CASE UNCHANGED ledgerVars
  BY <1>10 DEF ledgerVars, BackfillInv, Running
<1> QED
  BY <1>1, <1>2, <1>3, <1>4, <1>5, <1>6, <1>7, <1>8, <1>9, <1>10 DEF Next, Execute

\* A ledger that can be replayed agrees with its replay.
LEMMA StandingAgrees == ASSUME Standing(ledger) PROVE ReplayAgrees
BY DEF Standing, Cancelled, Remaining, ReplayAgrees, Agrees

\* Served one at a time, the requests leave a ledger whose replay gives back what
\* is left of every bucket, as long as no policy was cancelled.
THEOREM ReplayIsFaithful ==
    ASSUME OneByOne, Rooted(Opening), Standing(Opening)
    PROVE  Spec => []ReplayAgrees
<1>1. ASSUME Init PROVE BackfillInv
  <2>1. ledger = Opening /\ \A t \in Txs : ~Running(t)
    BY <1>1, FieldsAre DEF Init, Running
  <2> QED
    BY <2>1 DEF BackfillInv
<1>2. IInv /\ BackfillInv /\ [Next]_ledgerVars => BackfillInv'
  BY StepAlong
<1>3. BackfillInv => ReplayAgrees
  BY StandingAgrees DEF BackfillInv
<1> QED
  BY <1>1, <1>2, <1>3, TransactionsBalance, PTL DEF Spec
================================================================================
