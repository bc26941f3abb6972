---------------------------------- MODULE Sums ----------------------------------
(***************************************************************************)
(* Sums over the rows of a table.  The balances of the system are columns  *)
(* that handlers increment in place, and what they should hold is a sum    *)
(* over other rows: these lemmas say how the sum moves when a row is added,*)
(* removed or changed.  And lists put together, as the statements of a     *)
(* transaction and the requests of a page are: what they have between them;*)
(* and sets in order, as a query returns them.                              *)
(* Induction is by the least counterexample, as the library's induction    *)
(* theorems take an operator.                                              *)
(***************************************************************************)
EXTENDS Integers, Sequences, SequencesExt, FiniteSetTheorems, WellFoundedInduction, TLAPS

-----------------------------------------------------------------------------
(* Induction on a set.                                                       *)

\* A set of numbers that holds 0 and the successor of each of its members is
\* Nat.
LEMMA NatIsInductive ==
    ASSUME NEW N \in SUBSET Nat, 0 \in N, \A n \in N : n + 1 \in N
    PROVE  N = Nat
<1> DEFINE Rest == Nat \ N
<1> SUFFICES ASSUME Rest # {} PROVE FALSE
  OBVIOUS
<1>1. PICK m \in Rest : \A k \in Rest : ~(k < m)
  <2> DEFINE Smaller == OpToRel(<, Nat)
  <2>1. IsWellFoundedOn(Smaller, Nat)
    BY NatLessThanWellFounded
  <2>2. \A j, k \in Nat : k < j => <<k, j>> \in Smaller
    BY DEF OpToRel
  <2>3. Rest \subseteq Nat
    OBVIOUS
  <2> HIDE DEF Smaller, Rest
  <2>4. PICK m \in Rest : \A k \in Rest : <<k, m>> \notin Smaller
    BY <2>1, <2>3, WFMin
  <2> QED
    BY <2>2, <2>3, <2>4
<1>2. m # 0 /\ m - 1 \in Nat /\ ~(m - 1 \in Rest)
  BY <1>1
<1>3. m - 1 \in N
  BY <1>2
<1>4. (m - 1) + 1 \in N
  BY <1>3
<1> QED
  BY <1>1, <1>2, <1>4

\* A property of finite sets, given as the set P of those that have it, holds
\* of S if a set has it whenever every one with an element less does.
LEMMA FiniteIsInductive ==
    ASSUME NEW S, IsFiniteSet(S), NEW P,
           \A s \in SUBSET S : (\A x \in s : s \ {x} \in P) => s \in P
    PROVE  S \in P
<1> DEFINE N == {n \in Nat : \A s \in SUBSET S : Cardinality(s) = n => s \in P}
<1>1. \A s \in SUBSET S : IsFiniteSet(s) /\ Cardinality(s) \in Nat
  BY FS_Subset, FS_CardinalityType
<1>2. 0 \in N
  <2>1. \A s \in SUBSET S : Cardinality(s) = 0 => s = {}
    BY <1>1, FS_EmptySet
  <2> QED
    BY <2>1
<1>3. ASSUME NEW n \in N PROVE n + 1 \in N
  <2> SUFFICES ASSUME NEW s \in SUBSET S, Cardinality(s) = n + 1 PROVE s \in P
    OBVIOUS
  <2>1. ASSUME NEW x \in s PROVE s \ {x} \in P
    <3>1. Cardinality(s \ {x}) = n
      BY <1>1, FS_RemoveElement
    <3> QED
      BY <3>1
  <2> QED
    BY <2>1
<1>4. N = Nat
  <2> N \in SUBSET Nat
    OBVIOUS
  <2> HIDE DEF N
  <2> QED
    BY <1>2, <1>3, NatIsInductive
<1>5. Cardinality(S) \in N
  BY <1>1, <1>4
<1> QED
  BY <1>5

-----------------------------------------------------------------------------
(* The recursion equation of a sum.                                          *)

OneOf(s) == CHOOSE x \in s : TRUE

\* g[s] is the sum of f over s, for the subsets s of S in the collection.
IsTallyOn(f, subsets, g) ==
    g = [s \in subsets |-> IF s = {} THEN 0 ELSE f[OneOf(s)] + g[s \ {OneOf(s)}]]

IsTally(f, S, g) == IsTallyOn(f, SUBSET S, g)

\* SumFunctionOnSet is the value at S of the function defined recursively on
\* the subsets of S.
LEMMA SumIsTally ==
    ASSUME NEW f, NEW S
    PROVE  SumFunctionOnSet(f, S) = (CHOOSE g : IsTally(f, S, g))[S]
BY DEF SumFunctionOnSet, FoldFunctionOnSet, MapThenFoldSet, IsTally, IsTallyOn, OneOf

\* That function exists if S is finite.
LEMMA TallyExists ==
    ASSUME NEW f, NEW S, IsFiniteSet(S)
    PROVE  \E g : IsTally(f, S, g)
<1> DEFINE Small(n) == {s \in SUBSET S : Cardinality(s) <= n}
           N == {n \in Nat : \E g : IsTallyOn(f, Small(n), g)}
<1>1. \A s \in SUBSET S : IsFiniteSet(s) /\ Cardinality(s) \in Nat
  BY FS_Subset, FS_CardinalityType
<1>2. 0 \in N
  <2> DEFINE g == [s \in Small(0) |-> 0]
  <2>1. \A s \in Small(0) : s = {}
    BY <1>1, FS_EmptySet
  <2>2. g = [s \in Small(0) |-> IF s = {} THEN 0 ELSE f[OneOf(s)] + g[s \ {OneOf(s)}]]
    BY <2>1
  <2> QED
    BY <2>2 DEF IsTallyOn
<1>3. ASSUME NEW n \in N PROVE n + 1 \in N
  <2>1. PICK g : IsTallyOn(f, Small(n), g)
    OBVIOUS
  <2> DEFINE h == [s \in Small(n + 1) |->
                     IF s = {} THEN 0 ELSE f[OneOf(s)] + g[s \ {OneOf(s)}]]
  <2>2. ASSUME NEW s \in Small(n + 1), s # {}
        PROVE  h[s \ {OneOf(s)}] = g[s \ {OneOf(s)}]
    <3> DEFINE t == s \ {OneOf(s)}
    <3>1. OneOf(s) \in s
      BY <2>2 DEF OneOf
    <3>2. t \in SUBSET S /\ Cardinality(t) = Cardinality(s) - 1
      BY <1>1, <3>1, FS_RemoveElement
    <3>3. Cardinality(t) <= n /\ n \in Nat
      BY <1>1, <3>2
    <3>4. t \in Small(n) /\ t \in Small(n + 1)
      BY <1>1, <3>2, <3>3
    <3>5. g[t] = IF t = {} THEN 0 ELSE f[OneOf(t)] + g[t \ {OneOf(t)}]
      <4> HIDE DEF t, Small
      <4> QED
        BY <2>1, <3>4 DEF IsTallyOn
    <3>6. h[t] = IF t = {} THEN 0 ELSE f[OneOf(t)] + g[t \ {OneOf(t)}]
      <4> HIDE DEF t, Small
      <4> QED
        BY <3>4
    <3> QED
      BY <3>5, <3>6
  <2>3. h = [s \in Small(n + 1) |->
               IF s = {} THEN 0 ELSE f[OneOf(s)] + h[s \ {OneOf(s)}]]
    <3> HIDE DEF Small
    <3> SUFFICES ASSUME NEW s \in Small(n + 1)
                 PROVE  h[s] = IF s = {} THEN 0 ELSE f[OneOf(s)] + h[s \ {OneOf(s)}]
      OBVIOUS
    <3> QED
      BY <2>2
  <2>4. IsTallyOn(f, Small(n + 1), h)
    <3> HIDE DEF h, Small
    <3> QED
      BY <2>3 DEF IsTallyOn
  <2> HIDE DEF h
  <2> QED
    BY <2>4
<1>4. N = Nat
  <2> N \in SUBSET Nat
    OBVIOUS
  <2> HIDE DEF N
  <2> QED
    BY <1>2, <1>3, NatIsInductive
<1>5. Cardinality(S) \in N
  BY <1>1, <1>4
<1>6. Small(Cardinality(S)) = SUBSET S
  BY FS_Subset
<1> QED
  BY <1>5, <1>6 DEF IsTally

\* Two such functions agree where both are defined.
LEMMA TallyIsUnique ==
    ASSUME NEW f, NEW S, IsFiniteSet(S), NEW T, T \subseteq S,
           NEW g, IsTally(f, S, g), NEW h, IsTally(f, T, h)
    PROVE  g[T] = h[T]
<1> DEFINE P == {s \in SUBSET T : g[s] = h[s]}
<1>1. IsFiniteSet(T)
  BY FS_Subset
<1>2. ASSUME NEW s \in SUBSET T, \A x \in s : s \ {x} \in P
      PROVE  s \in P
  <2>1. s \in SUBSET S
    OBVIOUS
  <2>2. g[s] = IF s = {} THEN 0 ELSE f[OneOf(s)] + g[s \ {OneOf(s)}]
    BY <2>1 DEF IsTally, IsTallyOn
  <2>3. h[s] = IF s = {} THEN 0 ELSE f[OneOf(s)] + h[s \ {OneOf(s)}]
    BY DEF IsTally, IsTallyOn
  <2>4. s # {} => OneOf(s) \in s
    BY DEF OneOf
  <2> QED
    BY <1>2, <2>2, <2>3, <2>4
<1>3. T \in P
  <2> HIDE DEF P
  <2> QED
    BY <1>1, <1>2, FiniteIsInductive
<1> QED
  BY <1>3

\* The sum over a set is that over the set without the element chosen first,
\* and that element's.
LEMMA SumChosen ==
    ASSUME NEW f, NEW S, IsFiniteSet(S)
    PROVE  SumFunctionOnSet(f, S) =
               IF S = {} THEN 0
               ELSE f[OneOf(S)] + SumFunctionOnSet(f, S \ {OneOf(S)})
<1> DEFINE T == S \ {OneOf(S)}
<1>1. IsFiniteSet(T) /\ T \subseteq S
  BY FS_Subset
<1> HIDE DEF T
<1>2. PICK g : IsTally(f, S, g) /\ SumFunctionOnSet(f, S) = g[S]
  <2> DEFINE g == CHOOSE g : IsTally(f, S, g)
  <2>1. IsTally(f, S, g)
    BY TallyExists
  <2> QED
    BY <2>1, SumIsTally
<1>3. PICK h : IsTally(f, T, h) /\ SumFunctionOnSet(f, T) = h[T]
  <2> DEFINE h == CHOOSE h : IsTally(f, T, h)
  <2>1. IsTally(f, T, h)
    BY <1>1, TallyExists
  <2> QED
    BY <2>1, SumIsTally
<1>4. g[S] = IF S = {} THEN 0 ELSE f[OneOf(S)] + g[T]
  BY <1>2 DEF IsTally, IsTallyOn, T
<1>5. g[T] = h[T]
  BY <1>1, <1>2, <1>3, TallyIsUnique
<1> QED
  BY <1>2, <1>3, <1>4, <1>5 DEF T

-----------------------------------------------------------------------------
(* What a sum is and how it moves.                                           *)

\* Nothing sums to nothing.
LEMMA SumEmpty == ASSUME NEW f PROVE SumFunctionOnSet(f, {}) = 0
BY SumChosen, FS_EmptySet

\* A sum of integers is one.
LEMMA SumType ==
    ASSUME NEW f, NEW S, IsFiniteSet(S), \A x \in S : f[x] \in Int
    PROVE  SumFunctionOnSet(f, S) \in Int
<1> DEFINE P == {s \in SUBSET S : SumFunctionOnSet(f, s) \in Int}
<1>1. ASSUME NEW s \in SUBSET S, \A x \in s : s \ {x} \in P
      PROVE  s \in P
  <2>1. IsFiniteSet(s)
    BY FS_Subset
  <2>2. CASE s = {}
    BY <2>2, SumEmpty
  <2>3. CASE s # {}
    <3>1. OneOf(s) \in s
      BY <2>3 DEF OneOf
    <3>2. f[OneOf(s)] \in Int /\ SumFunctionOnSet(f, s \ {OneOf(s)}) \in Int
      BY <1>1, <3>1
    <3>3. SumFunctionOnSet(f, s) = f[OneOf(s)] + SumFunctionOnSet(f, s \ {OneOf(s)})
      BY <2>1, <2>3, SumChosen
    <3> QED
      BY <3>2, <3>3
  <2> QED
    BY <2>2, <2>3
<1>2. S \in P
  <2> HIDE DEF P
  <2> QED
    BY <1>1, FiniteIsInductive
<1> QED
  BY <1>2

\* The order of a sum does not matter: any element may be taken out first.
LEMMA SumRemove ==
    ASSUME NEW f, NEW S, IsFiniteSet(S), \A x \in S : f[x] \in Int, NEW x \in S
    PROVE  SumFunctionOnSet(f, S) = f[x] + SumFunctionOnSet(f, S \ {x})
<1> DEFINE Sum(s) == SumFunctionOnSet(f, s)
           P == {s \in SUBSET S : \A y \in s : Sum(s) = f[y] + Sum(s \ {y})}
<1>1. \A s \in SUBSET S : IsFiniteSet(s) /\ Sum(s) \in Int
  BY FS_Subset, SumType
<1>2. \A s \in SUBSET S : s # {} => /\ OneOf(s) \in s
                                    /\ Sum(s) = f[OneOf(s)] + Sum(s \ {OneOf(s)})
  BY <1>1, SumChosen DEF OneOf
<1> HIDE DEF Sum
<1>3. ASSUME NEW s \in SUBSET S, \A y \in s : s \ {y} \in P
      PROVE  s \in P
  <2> SUFFICES ASSUME NEW y \in s PROVE Sum(s) = f[y] + Sum(s \ {y})
    OBVIOUS
  <2> DEFINE c == OneOf(s)
  <2>1. c \in s /\ Sum(s) = f[c] + Sum(s \ {c})
    BY <1>2
  <2> HIDE DEF c
  <2>2. CASE y = c
    BY <2>1, <2>2
  <2>3. CASE y # c
    <3>1. Sum(s \ {c}) = f[y] + Sum((s \ {c}) \ {y})
      BY <1>3, <2>1, <2>3
    <3>2. Sum(s \ {y}) = f[c] + Sum((s \ {y}) \ {c})
      BY <1>3, <2>1, <2>3
    <3> DEFINE rest == Sum((s \ {c}) \ {y})
    <3>3. (s \ {c}) \ {y} = (s \ {y}) \ {c} /\ (s \ {c}) \ {y} \in SUBSET S
      OBVIOUS
    <3>4. rest \in Int /\ f[y] \in Int /\ f[c] \in Int
      BY <1>1, <2>1, <3>3
    <3>5. Sum(s) = f[c] + (f[y] + rest) /\ Sum(s \ {y}) = f[c] + rest
      BY <2>1, <3>1, <3>2, <3>3
    <3> HIDE DEF rest
    <3> QED
      BY <3>4, <3>5
  <2> QED
    BY <2>2, <2>3
<1>4. S \in P
  <2> HIDE DEF P
  <2> QED
    BY <1>3, FiniteIsInductive
<1>5. Sum(S) = f[x] + Sum(S \ {x})
  BY <1>4
<1> QED
  BY <1>5 DEF Sum

\* A sum of naturals is one.
LEMMA SumOfNats ==
    ASSUME NEW f, NEW S, IsFiniteSet(S), \A x \in S : f[x] \in Nat
    PROVE  SumFunctionOnSet(f, S) \in Nat
<1> DEFINE P == {s \in SUBSET S : SumFunctionOnSet(f, s) \in Nat}
<1>1. ASSUME NEW s \in SUBSET S, \A x \in s : s \ {x} \in P
      PROVE  s \in P
  <2>1. IsFiniteSet(s) /\ \A x \in s : f[x] \in Int
    BY FS_Subset
  <2>2. CASE s = {}
    BY <2>2, SumEmpty
  <2>3. ASSUME NEW x \in s PROVE SumFunctionOnSet(f, s) \in Nat
    <3>1. SumFunctionOnSet(f, s) = f[x] + SumFunctionOnSet(f, s \ {x})
      BY <2>1, SumRemove
    <3> QED
      BY <1>1, <3>1
  <2> QED
    BY <2>2, <2>3
<1> HIDE DEF P
<1>2. S \in P
  BY <1>1, FiniteIsInductive
<1> QED
  BY <1>2 DEF P

\* A row more adds what it holds.
LEMMA SumAdd ==
    ASSUME NEW f, NEW S, IsFiniteSet(S), NEW x, x \notin S, \A y \in S \cup {x} : f[y] \in Int
    PROVE  SumFunctionOnSet(f, S \cup {x}) = f[x] + SumFunctionOnSet(f, S)
<1>1. IsFiniteSet(S \cup {x})
  BY FS_AddElement
<1>2. (S \cup {x}) \ {x} = S
  OBVIOUS
<1> QED
  BY <1>1, <1>2, SumRemove

\* A sum depends on the rows it is taken over only.
LEMMA SumSame ==
    ASSUME NEW f, NEW g, NEW S, IsFiniteSet(S), \A x \in S : f[x] = g[x]
    PROVE  SumFunctionOnSet(f, S) = SumFunctionOnSet(g, S)
<1> DEFINE P == {s \in SUBSET S : SumFunctionOnSet(f, s) = SumFunctionOnSet(g, s)}
<1>1. ASSUME NEW s \in SUBSET S, \A x \in s : s \ {x} \in P
      PROVE  s \in P
  <2>1. IsFiniteSet(s)
    BY FS_Subset
  <2>2. CASE s = {}
    BY <2>2, SumEmpty
  <2>3. CASE s # {}
    <3>1. OneOf(s) \in s
      BY <2>3 DEF OneOf
    <3>2. /\ f[OneOf(s)] = g[OneOf(s)]
          /\ SumFunctionOnSet(f, s \ {OneOf(s)}) = SumFunctionOnSet(g, s \ {OneOf(s)})
      BY <1>1, <3>1
    <3>3. /\ SumFunctionOnSet(f, s) = f[OneOf(s)] + SumFunctionOnSet(f, s \ {OneOf(s)})
          /\ SumFunctionOnSet(g, s) = g[OneOf(s)] + SumFunctionOnSet(g, s \ {OneOf(s)})
      BY <2>1, <2>3, SumChosen
    <3> QED
      BY <3>2, <3>3
  <2> QED
    BY <2>2, <2>3
<1>2. S \in P
  <2> HIDE DEF P
  <2> QED
    BY <1>1, FiniteIsInductive
<1> QED
  BY <1>2

\* A row that changes moves the sum by the difference.
LEMMA SumChange ==
    ASSUME NEW f, NEW g, NEW S, IsFiniteSet(S), NEW x \in S,
           \A y \in S : f[y] \in Int /\ g[y] \in Int,
           \A y \in S \ {x} : f[y] = g[y]
    PROVE  SumFunctionOnSet(g, S) = SumFunctionOnSet(f, S) + (g[x] - f[x])
<1>1. IsFiniteSet(S \ {x})
  BY FS_Subset
<1>2. /\ SumFunctionOnSet(f, S) = f[x] + SumFunctionOnSet(f, S \ {x})
      /\ SumFunctionOnSet(g, S) = g[x] + SumFunctionOnSet(g, S \ {x})
  BY SumRemove
<1>3. SumFunctionOnSet(f, S \ {x}) = SumFunctionOnSet(g, S \ {x})
  BY <1>1, SumSame
<1>4. SumFunctionOnSet(f, S \ {x}) \in Int
  BY <1>1, SumType
<1> QED
  BY <1>2, <1>3, <1>4

\* Rows that hold nothing do not count.
LEMMA SumSubset ==
    ASSUME NEW f, NEW T, IsFiniteSet(T), NEW S, S \subseteq T,
           \A x \in T : f[x] \in Int, \A x \in T \ S : f[x] = 0
    PROVE  SumFunctionOnSet(f, T) = SumFunctionOnSet(f, S)
<1> DEFINE Sum(s) == SumFunctionOnSet(f, s)
           P == {s \in SUBSET (T \ S) : Sum(S \cup s) = Sum(S)}
<1>1. IsFiniteSet(S) /\ IsFiniteSet(T \ S)
  BY FS_Subset
<1>2. ASSUME NEW s \in SUBSET (T \ S), \A x \in s : s \ {x} \in P
      PROVE  s \in P
  <2>1. CASE s = {}
    <3>1. S \cup s = S
      BY <2>1
    <3> QED
      BY <3>1
  <2>2. CASE s # {}
    <3>1. PICK x \in s : TRUE
      BY <2>2
    <3> DEFINE rest == S \cup (s \ {x})
    <3>2. Sum(rest) = Sum(S) /\ f[x] = 0
      BY <1>2
    <3>3. S \cup s = rest \cup {x} /\ x \notin rest /\ rest \cup {x} \subseteq T
      OBVIOUS
    <3>4. IsFiniteSet(rest)
      BY <3>3, FS_Subset
    <3> HIDE DEF rest
    <3>5. Sum(rest \cup {x}) = f[x] + Sum(rest)
      BY <3>3, <3>4, SumAdd
    <3>6. Sum(rest) \in Int
      BY <3>3, <3>4, SumType
    <3>7. Sum(rest \cup {x}) = Sum(S)
      <4> HIDE DEF Sum
      <4> QED
        BY <3>2, <3>5, <3>6
    <3> QED
      BY <3>3, <3>7
  <2> QED
    BY <2>1, <2>2
<1>3. T \ S \in P
  <2> HIDE DEF P
  <2> QED
    BY <1>1, <1>2, FiniteIsInductive
<1>4. S \cup (T \ S) = T
  OBVIOUS
<1> QED
  BY <1>3, <1>4

\* A table f of which some rows are replaced and to which others are added, by
\* g, moves by what each of them moves.
LEMMA SumOverlay ==
    ASSUME NEW S, NEW T, IsFiniteSet(S), IsFiniteSet(T),
           NEW f, \A i \in S : f[i] \in Int,
           NEW g, \A i \in T : g[i] \in Int,
           NEW h, \A i \in T : h[i] = g[i], \A i \in S \ T : h[i] = f[i],
           NEW d, \A i \in T \cap S : d[i] = g[i] - f[i], \A i \in T \ S : d[i] = g[i]
    PROVE  SumFunctionOnSet(h, S \cup T) = SumFunctionOnSet(f, S) + SumFunctionOnSet(d, T)
<1> DEFINE H(t) == [i \in S \cup t |-> IF i \in t THEN g[i] ELSE f[i]]
           All(t) == SumFunctionOnSet(H(t), S \cup t)
           Moved(t) == SumFunctionOnSet(d, t)
           P == {t \in SUBSET T : All(t) = SumFunctionOnSet(f, S) + Moved(t)}
<1>1. SumFunctionOnSet(f, S) \in Int
  BY SumType
<1>d. \A i \in T : d[i] \in Int
  OBVIOUS
<1>2. \A t \in SUBSET T : IsFiniteSet(t) /\ IsFiniteSet(S \cup t) /\ Moved(t) \in Int
  <2> SUFFICES ASSUME NEW t \in SUBSET T
               PROVE  IsFiniteSet(t) /\ IsFiniteSet(S \cup t) /\ Moved(t) \in Int
    OBVIOUS
  <2>1. IsFiniteSet(t)
    BY FS_Subset
  <2> QED
    BY <1>d, <2>1, FS_Union, SumType
<1>3. ASSUME NEW t \in SUBSET T, \A x \in t : t \ {x} \in P
      PROVE  t \in P
  <2>1. CASE t = {}
    <3>1. S \cup t = S /\ Moved(t) = 0
      BY <2>1, SumEmpty
    <3>2. \A i \in S : H(t)[i] = f[i]
      BY <2>1
    <3>3. All(t) = SumFunctionOnSet(f, S)
      <4> HIDE DEF H
      <4>1. SumFunctionOnSet(H(t), S) = SumFunctionOnSet(f, S)
        BY <3>2, SumSame
      <4> QED
        BY <3>1, <4>1
    <3> QED
      BY <1>1, <3>1, <3>3
  <2>2. CASE t # {}
    <3>1. PICK x \in t : TRUE
      BY <2>2
    <3> DEFINE r == t \ {x}
    <3>2. r \in SUBSET T /\ x \notin r /\ r \cup {x} = t
      OBVIOUS
    <3>3. All(r) = SumFunctionOnSet(f, S) + Moved(r)
      BY <1>3
    <3> HIDE DEF r
    <3>4. Moved(t) = d[x] + Moved(r)
      BY <1>d, <1>2, <3>2, SumAdd
    <3>5. All(t) = All(r) + d[x]
      <4>1. \A i \in S \cup t : H(t)[i] \in Int
        OBVIOUS
      <4>2. \A i \in S \cup r : H(r)[i] \in Int /\ (i # x => H(r)[i] = H(t)[i])
        BY <3>2
      <4>3. CASE x \in S
        <5>1. S \cup t = S \cup r
          BY <3>2, <4>3
        <5>2. d[x] = H(t)[x] - H(r)[x]
          BY <3>2, <4>3
        <5> HIDE DEF H
        <5>a. x \in S \cup r /\ IsFiniteSet(S \cup r)
          BY <1>2, <3>2, <4>3
        <5>b. \A i \in S \cup r : H(r)[i] \in Int /\ H(t)[i] \in Int
          BY <4>1, <4>2, <5>1
        <5>c. \A i \in (S \cup r) \ {x} : H(r)[i] = H(t)[i]
          BY <4>2
        <5>3. SumFunctionOnSet(H(t), S \cup r) = SumFunctionOnSet(H(r), S \cup r) + (H(t)[x] - H(r)[x])
          BY <5>a, <5>b, <5>c, SumChange
        <5> QED
          BY <5>1, <5>2, <5>3
      <4>4. CASE x \notin S
        <5>1. S \cup t = (S \cup r) \cup {x} /\ x \notin S \cup r
          BY <3>2, <4>4
        <5>2. d[x] = H(t)[x]
          BY <4>4
        <5> HIDE DEF H
        <5>3. SumFunctionOnSet(H(t), S \cup t) = H(t)[x] + SumFunctionOnSet(H(t), S \cup r)
          BY <1>2, <3>2, <4>1, <5>1, SumAdd
        <5>a. IsFiniteSet(S \cup r)
          BY <1>2, <3>2
        <5>b. \A i \in S \cup r : H(t)[i] = H(r)[i]
          BY <4>2, <5>1
        <5>4. SumFunctionOnSet(H(t), S \cup r) = SumFunctionOnSet(H(r), S \cup r)
          BY <5>a, <5>b, SumSame
        <5>5. SumFunctionOnSet(H(r), S \cup r) \in Int /\ d[x] \in Int
          BY <1>d, <1>2, <3>2, <4>2, SumType
        <5> QED
          BY <5>2, <5>3, <5>4, <5>5
      <4> QED
        BY <4>3, <4>4
    <3>6. d[x] \in Int /\ Moved(r) \in Int
      BY <1>d, <1>2, <3>2
    <3>7. All(t) = SumFunctionOnSet(f, S) + Moved(t)
      <4> HIDE DEF All, Moved
      <4> QED
        BY <1>1, <3>3, <3>4, <3>5, <3>6
    <3> QED
      BY <3>7
  <2> QED
    BY <2>1, <2>2
<1>4. T \in P
  <2> HIDE DEF P
  <2> QED
    BY <1>3, FiniteIsInductive
<1>5. /\ \A i \in S \cup T : H(T)[i] = h[i]
      /\ IsFiniteSet(S \cup T)
  BY <1>2
<1> HIDE DEF H
<1>6. SumFunctionOnSet(H(T), S \cup T) = SumFunctionOnSet(h, S \cup T)
  BY <1>5, SumSame
<1> QED
  BY <1>4, <1>6

\* Rows that hold the same each add up to as many times that.
LEMMA SumConstant ==
    ASSUME NEW f, NEW S, IsFiniteSet(S), NEW p \in Int, \A x \in S : f[x] = p
    PROVE  SumFunctionOnSet(f, S) = p * Cardinality(S)
<1> DEFINE Sum(s) == SumFunctionOnSet(f, s)
           P == {s \in SUBSET S : Sum(s) = p * Cardinality(s)}
<1>1. ASSUME NEW s \in SUBSET S, \A x \in s : s \ {x} \in P
      PROVE  s \in P
  <2>1. IsFiniteSet(s)
    BY FS_Subset
  <2>2. CASE s = {}
    <3>1. Sum(s) = 0 /\ Cardinality(s) = 0
      BY <2>2, SumEmpty, FS_EmptySet
    <3> QED
      BY <3>1
  <2>3. CASE s # {}
    <3>1. PICK x \in s : TRUE
      BY <2>3
    <3>2. Sum(s) = f[x] + Sum(s \ {x})
      BY <2>1, SumRemove
    <3>3. Sum(s \ {x}) = p * Cardinality(s \ {x}) /\ f[x] = p
      BY <1>1
    <3>4. Cardinality(s \ {x}) = Cardinality(s) - 1 /\ Cardinality(s) \in Nat
      BY <2>1, FS_RemoveElement, FS_CardinalityType
    <3>5. Sum(s) = p * Cardinality(s)
      <4> HIDE DEF Sum
      <4>1. PICK n \in Nat : n = Cardinality(s)
        BY <3>4
      <4>2. Sum(s) = p + p * (n - 1)
        BY <3>2, <3>3, <3>4, <4>1
      <4>3. p + p * (n - 1) = p * n
        OBVIOUS
      <4> QED
        BY <4>1, <4>2, <4>3
    <3> QED
      BY <3>5
  <2> QED
    BY <2>2, <2>3
<1>2. S \in P
  <2> HIDE DEF P
  <2> QED
    BY <1>1, FiniteIsInductive
<1> QED
  BY <1>2

\* Two tables with no row in common.
LEMMA SumApart ==
    ASSUME NEW f, NEW S, IsFiniteSet(S), NEW T, IsFiniteSet(T), S \cap T = {},
           \A x \in S \cup T : f[x] \in Int
    PROVE  SumFunctionOnSet(f, S \cup T) = SumFunctionOnSet(f, S) + SumFunctionOnSet(f, T)
<1>1. \A i \in T \ S : f[i] = f[i]
  OBVIOUS
<1> QED
  BY SumOverlay

\* A sum over the images of a set, each of one element, is one over the set.
LEMMA SumOfImages ==
    ASSUME NEW T, IsFiniteSet(T), NEW r, \A i, j \in T : r[i] = r[j] => i = j,
           NEW R, R = {r[i] : i \in T},
           NEW f, \A i \in T : f[r[i]] \in Int, NEW g, \A i \in T : g[i] = f[r[i]]
    PROVE  /\ IsFiniteSet(R) /\ Cardinality(R) = Cardinality(T)
           /\ SumFunctionOnSet(f, R) = SumFunctionOnSet(g, T)
<1> DEFINE Images(s) == {r[i] : i \in s}
           P == {s \in SUBSET T : /\ IsFiniteSet(Images(s)) /\ Cardinality(Images(s)) = Cardinality(s)
                                  /\ SumFunctionOnSet(f, Images(s)) = SumFunctionOnSet(g, s)}
<1>1. ASSUME NEW s \in SUBSET T, \A x \in s : s \ {x} \in P
      PROVE  s \in P
  <2>1. IsFiniteSet(s)
    BY FS_Subset
  <2>2. CASE s = {}
    <3>1. Images(s) = {}
      BY <2>2
    <3>2. SumFunctionOnSet(f, {}) = 0 /\ SumFunctionOnSet(g, {}) = 0
      BY SumEmpty
    <3> QED
      BY <2>2, <3>1, <3>2, FS_EmptySet
  <2>3. CASE s # {}
    <3>1. PICK x \in s : TRUE
      BY <2>3
    <3> DEFINE rest == Images(s \ {x})
    <3>2. Images(s) = rest \cup {r[x]} /\ r[x] \notin rest
      OBVIOUS
    <3>3. /\ IsFiniteSet(rest) /\ Cardinality(rest) = Cardinality(s \ {x})
          /\ SumFunctionOnSet(f, rest) = SumFunctionOnSet(g, s \ {x})
      BY <1>1
    <3>4. \A y \in rest \cup {r[x]} : f[y] \in Int
      OBVIOUS
    <3>5. Cardinality(s \ {x}) = Cardinality(s) - 1 /\ Cardinality(s) \in Nat
      BY <2>1, FS_RemoveElement, FS_CardinalityType
    <3>6. \A y \in s : g[y] \in Int
      OBVIOUS
    <3> HIDE DEF rest
    <3>7. IsFiniteSet(rest \cup {r[x]}) /\ Cardinality(rest \cup {r[x]}) = Cardinality(s)
      <4>1. Cardinality(rest \cup {r[x]}) = Cardinality(rest) + 1
        BY <3>2, <3>3, FS_AddElement
      <4>2. IsFiniteSet(rest \cup {r[x]})
        BY <3>3, FS_AddElement
      <4> QED
        BY <3>3, <3>5, <4>1, <4>2
    <3>8. SumFunctionOnSet(f, rest \cup {r[x]}) = f[r[x]] + SumFunctionOnSet(f, rest)
      BY <3>2, <3>3, <3>4, SumAdd
    <3>9. SumFunctionOnSet(g, s) = g[x] + SumFunctionOnSet(g, s \ {x})
      BY <2>1, <3>6, SumRemove
    <3>10. SumFunctionOnSet(f, Images(s)) = SumFunctionOnSet(g, s)
      BY <3>2, <3>3, <3>8, <3>9
    <3> QED
      BY <3>2, <3>7, <3>10
  <2> QED
    BY <2>2, <2>3
<1>2. T \in P
  <2> HIDE DEF P
  <2> QED
    BY <1>1, FiniteIsInductive
<1> QED
  BY <1>2

\* T is the parts together, no two of which have an element in common.
InParts(T, part, C) ==
    /\ T = UNION {part[c] : c \in C}
    /\ \A c \in C : IsFiniteSet(part[c])
    /\ \A c, d \in C : c # d => part[c] \cap part[d] = {}

\* A table in parts sums to what its parts do.
LEMMA SumOfParts ==
    ASSUME NEW C, IsFiniteSet(C), NEW T, NEW part, InParts(T, part, C),
           NEW f, \A x \in T : f[x] \in Int,
           NEW g, \A c \in C : g[c] = SumFunctionOnSet(f, part[c])
    PROVE  IsFiniteSet(T) /\ SumFunctionOnSet(f, T) = SumFunctionOnSet(g, C)
<1> USE DEF InParts
<1> DEFINE All(s) == UNION {part[c] : c \in s}
           P == {s \in SUBSET C : /\ IsFiniteSet(All(s))
                                  /\ SumFunctionOnSet(f, All(s)) = SumFunctionOnSet(g, s)}
<1>1. ASSUME NEW s \in SUBSET C, \A x \in s : s \ {x} \in P
      PROVE  s \in P
  <2>1. IsFiniteSet(s)
    BY FS_Subset
  <2>2. CASE s = {}
    <3>1. All(s) = {}
      BY <2>2
    <3>2. SumFunctionOnSet(f, {}) = 0 /\ SumFunctionOnSet(g, {}) = 0
      BY SumEmpty
    <3> QED
      BY <2>2, <3>1, <3>2, FS_EmptySet
  <2>3. CASE s # {}
    <3>1. PICK x \in s : TRUE
      BY <2>3
    <3> DEFINE rest == All(s \ {x})
    <3>2. All(s) = rest \cup part[x] /\ rest \cap part[x] = {}
      OBVIOUS
    <3>3. IsFiniteSet(rest) /\ SumFunctionOnSet(f, rest) = SumFunctionOnSet(g, s \ {x})
      BY <1>1
    <3>4. \A y \in rest \cup part[x] : f[y] \in Int
      OBVIOUS
    <3>5. \A c \in s : g[c] \in Int
      BY SumType
    <3> HIDE DEF rest
    <3>6. IsFiniteSet(part[x]) /\ IsFiniteSet(rest \cup part[x])
      BY <3>3, FS_Union
    <3>7. SumFunctionOnSet(f, rest \cup part[x])
              = SumFunctionOnSet(f, rest) + SumFunctionOnSet(f, part[x])
      BY <3>2, <3>3, <3>4, <3>6, SumApart
    <3>8. SumFunctionOnSet(g, s) = g[x] + SumFunctionOnSet(g, s \ {x})
      BY <2>1, <3>5, SumRemove
    <3>9. SumFunctionOnSet(g, s \ {x}) \in Int /\ g[x] \in Int
      BY <2>1, <3>5, FS_Subset, SumType
    <3>10. SumFunctionOnSet(f, All(s)) = SumFunctionOnSet(g, s)
      <4> HIDE DEF All
      <4>1. SumFunctionOnSet(f, All(s)) = SumFunctionOnSet(g, s \ {x}) + g[x]
        BY <3>2, <3>3, <3>5, <3>7
      <4> QED
        BY <3>8, <3>9, <4>1
    <3> QED
      BY <3>2, <3>6, <3>10
  <2> QED
    BY <2>2, <2>3
<1>2. C \in P
  <2> HIDE DEF P
  <2> QED
    BY <1>1, FiniteIsInductive
<1> QED
  BY <1>2

-----------------------------------------------------------------------------
(* Finite sets of ids.                                                       *)

\* A finite set of numbers has a greatest.
LEMMA MaxOfFinite ==
    ASSUME NEW S \in SUBSET Int, IsFiniteSet(S), S # {}
    PROVE  Max(S) \in S /\ \A x \in S : x <= Max(S)
<1> DEFINE P == {s \in SUBSET S : s # {} => \E x \in s : \A y \in s : x >= y}
<1>1. ASSUME NEW s \in SUBSET S, \A x \in s : s \ {x} \in P
      PROVE  s \in P
  <2> SUFFICES ASSUME s # {} PROVE \E x \in s : \A y \in s : x >= y
    OBVIOUS
  <2>1. PICK x \in s : TRUE
    OBVIOUS
  <2>2. CASE s \ {x} = {}
    BY <2>2
  <2>3. CASE s \ {x} # {}
    <3>1. PICK y \in s \ {x} : \A z \in s \ {x} : y >= z
      BY <1>1, <2>3
    <3>2. x \in Int /\ y \in Int /\ s \subseteq Int
      OBVIOUS
    <3>3. CASE x >= y
      <4>1. \A z \in s : x >= z
        BY <3>1, <3>2, <3>3
      <4> QED
        BY <4>1
    <3>4. CASE ~(x >= y)
      <4>1. \A z \in s : y >= z
        BY <3>1, <3>2, <3>4
      <4> QED
        BY <4>1
    <3> QED
      BY <3>3, <3>4
  <2> QED
    BY <2>2, <2>3
<1>2. S \in P
  <2> HIDE DEF P
  <2> QED
    BY <1>1, FiniteIsInductive
<1>3. \E x \in S : \A y \in S : x >= y
  BY <1>2
<1> QED
  BY <1>3 DEF Max

\* A finite number of finite sets have finitely many elements between them.
LEMMA FiniteUnion ==
    ASSUME NEW T, IsFiniteSet(T), NEW f, \A x \in T : IsFiniteSet(f[x])
    PROVE  IsFiniteSet(UNION {f[x] : x \in T})
<1> DEFINE P == {s \in SUBSET T : IsFiniteSet(UNION {f[x] : x \in s})}
<1>1. ASSUME NEW s \in SUBSET T, \A x \in s : s \ {x} \in P
      PROVE  s \in P
  <2>1. CASE s = {}
    <3>1. UNION {f[x] : x \in s} = {}
      BY <2>1
    <3> QED
      BY <3>1, FS_EmptySet
  <2>2. CASE s # {}
    <3>1. PICK y \in s : TRUE
      BY <2>2
    <3> DEFINE all == UNION {f[x] : x \in s}
               rest == UNION {f[x] : x \in s \ {y}}
    <3>2. all = f[y] \cup rest
      OBVIOUS
    <3>3. IsFiniteSet(f[y]) /\ IsFiniteSet(rest)
      BY <1>1
    <3>4. IsFiniteSet(all)
      <4> HIDE DEF all, rest
      <4> QED
        BY <3>2, <3>3, FS_Union
    <3> QED
      BY <3>4
  <2> QED
    BY <2>1, <2>2
<1>2. T \in P
  <2> HIDE DEF P
  <2> QED
    BY <1>1, FiniteIsInductive
<1> QED
  BY <1>2

Below(S, R, i) == {j \in S : <<j, i>> \in R}

StrictOrder(R, S) ==
    /\ \A i \in S : <<i, i>> \notin R
    /\ \A i, j, k \in S : <<i, j>> \in R /\ <<j, k>> \in R => <<i, k>> \in R
    /\ \A i, j \in S : i # j => <<i, j>> \in R \/ <<j, i>> \in R

\* In a finite set in a strict order R, there is one element with k others
\* before it, for each k less than the size of the set.
LEMMA RankIsTaken ==
    ASSUME NEW S, IsFiniteSet(S), NEW R, StrictOrder(R, S)
    PROVE  /\ \A i \in S : Cardinality(Below(S, R, i)) \in 0..(Cardinality(S) - 1)
           /\ \A i, j \in S :
                 Cardinality(Below(S, R, i)) = Cardinality(Below(S, R, j)) => i = j
           /\ \A k \in 0..(Cardinality(S) - 1) : \E i \in S : Cardinality(Below(S, R, i)) = k
<1> DEFINE n == Cardinality(S)
           rank == [i \in S |-> Cardinality(Below(S, R, i))]
<1>1. n \in Nat
  BY FS_CardinalityType
<1>2. \A i \in S : rank[i] \in 0..(n - 1)
  <2> SUFFICES ASSUME NEW i \in S PROVE rank[i] \in 0..(n - 1)
    OBVIOUS
  <2>1. Below(S, R, i) \in SUBSET (S \ {i})
    BY DEF Below, StrictOrder
  <2>2. IsFiniteSet(S \ {i}) /\ Cardinality(S \ {i}) = n - 1
    BY FS_RemoveElement
  <2>3. IsFiniteSet(Below(S, R, i)) /\ Cardinality(Below(S, R, i)) <= n - 1
    BY <2>1, <2>2, FS_Subset
  <2>4. Cardinality(Below(S, R, i)) \in Nat
    BY <2>3, FS_CardinalityType
  <2> QED
    BY <1>1, <2>3, <2>4
<1>3. \A i, j \in S : <<i, j>> \in R => rank[i] < rank[j]
  <2> SUFFICES ASSUME NEW i \in S, NEW j \in S, <<i, j>> \in R PROVE rank[i] < rank[j]
    OBVIOUS
  <2> DEFINE low == Below(S, R, i)
             high == Below(S, R, j)
  <2>1. low \in SUBSET high /\ i \in high /\ i \notin low /\ high \in SUBSET S /\ low \in SUBSET S
    BY DEF Below, StrictOrder
  <2>2. IsFiniteSet(high) /\ IsFiniteSet(low)
    BY <2>1, FS_Subset
  <2>3. Cardinality(low) <= Cardinality(high) /\ (Cardinality(high) = Cardinality(low) => high = low)
    BY <2>1, <2>2, FS_Subset
  <2>4. Cardinality(low) \in Nat /\ Cardinality(high) \in Nat
    BY <2>2, FS_CardinalityType
  <2>5. Cardinality(low) < Cardinality(high)
    BY <2>1, <2>3, <2>4
  <2> QED
    BY <2>5
<1>4. \A i, j \in S : rank[i] = rank[j] => i = j
  <2> SUFFICES ASSUME NEW i \in S, NEW j \in S, rank[i] = rank[j], i # j PROVE FALSE
    OBVIOUS
  <2>1. rank[i] \in Int /\ rank[j] \in Int
    BY <1>1, <1>2
  <2>2. rank[i] < rank[j] \/ rank[j] < rank[i]
    BY <1>3 DEF StrictOrder
  <2> HIDE DEF rank
  <2> QED
    BY <2>1, <2>2
<1>5. ASSUME NEW k \in 0..(n - 1) PROVE \E i \in S : rank[i] = k
  <2> SUFFICES ASSUME \A i \in S : rank[i] # k PROVE FALSE
    OBVIOUS
  <2> DEFINE T == (0..(n - 1)) \ {k}
  <2>1. IsFiniteSet(0..(n - 1)) /\ Cardinality(0..(n - 1)) = n
    BY <1>1, FS_Interval
  <2>2. IsFiniteSet(T) /\ Cardinality(T) < Cardinality(S)
    <3> HIDE DEF n, rank
    <3>1. IsFiniteSet(T) /\ Cardinality(T) = n - 1
      BY <2>1, FS_RemoveElement
    <3> QED
      BY <1>1, <3>1 DEF n
  <2>3. rank \in [S -> T]
    BY <1>2
  <2> HIDE DEF rank, T
  <2>4. \E x, y \in S : x # y /\ rank[x] = rank[y]
    BY <2>2, <2>3, FS_PigeonHole
  <2> QED
    BY <1>4, <2>4
<1> QED
  BY <1>2, <1>4, <1>5

\* The k-th in the list has k - 1 others before it.
ListsInOrder(e, S, R) ==
    /\ e \in [1..Cardinality(S) -> S]
    /\ \A k \in 1..Cardinality(S) : Cardinality(Below(S, R, e[k])) = k - 1

\* In a list in order each member is there once, right after those before it.
LEMMA ListedInOrder ==
    ASSUME NEW S, IsFiniteSet(S), NEW R, StrictOrder(R, S), NEW e, ListsInOrder(e, S, R)
    PROVE  /\ \A k, l \in 1..Cardinality(S) : e[k] = e[l] => k = l
           /\ \A c \in S : Cardinality(Below(S, R, c)) + 1 \in 1..Cardinality(S)
                           /\ e[Cardinality(Below(S, R, c)) + 1] = c
           /\ \A k \in 1..Cardinality(S), c \in S :
                 <<c, e[k]>> \in R => \E l \in 1..(k - 1) : e[l] = c
<1> DEFINE n == Cardinality(S)
           rank == [i \in S |-> Cardinality(Below(S, R, i))]
<1>1. n \in Nat
  BY FS_CardinalityType
<1>2. /\ rank \in [S -> 0..(n - 1)] /\ \A i \in S : rank[i] = Cardinality(Below(S, R, i))
      /\ \A i, j \in S : rank[i] = rank[j] => i = j
      /\ \A k \in 0..(n - 1) : \E i \in S : rank[i] = k
  BY RankIsTaken
<1> HIDE DEF n, rank
<1>3. ASSUME NEW k \in 1..n PROVE e[k] \in S /\ rank[e[k]] = k - 1
  BY <1>2 DEF n, ListsInOrder
<1>4. ASSUME NEW c \in S PROVE rank[c] + 1 \in 1..n /\ e[rank[c] + 1] = c
  <2>1. rank[c] \in 0..(n - 1) /\ rank[c] + 1 \in 1..n /\ (rank[c] + 1) - 1 = rank[c]
    BY <1>1, <1>2
  <2>2. e[rank[c] + 1] \in S /\ rank[e[rank[c] + 1]] = rank[c]
    BY <1>3, <2>1
  <2> QED
    BY <1>2, <2>1, <2>2
<1>5. ASSUME NEW i \in S, NEW c \in S, <<c, i>> \in R PROVE rank[c] < rank[i]
  <2> DEFINE A == Below(S, R, c)
             B == Below(S, R, i)
  <2>1. A \subseteq B /\ c \in B /\ c \notin A /\ B \subseteq S
    BY <1>5 DEF Below, StrictOrder
  <2>2. IsFiniteSet(B)
    BY <2>1, FS_Subset
  <2> HIDE DEF A, B
  <2>3. Cardinality(A) < Cardinality(B)
    <3>1. A # B
      BY <2>1
    <3>2. /\ IsFiniteSet(A) /\ Cardinality(A) <= Cardinality(B)
          /\ Cardinality(B) = Cardinality(A) => B = A
      BY <2>1, <2>2, FS_Subset
    <3>3. Cardinality(A) \in Nat /\ Cardinality(B) \in Nat
      BY <2>2, <3>2, FS_CardinalityType
    <3> QED
      BY <3>1, <3>2, <3>3
  <2> QED
    BY <1>2, <2>3 DEF A, B
<1>6. ASSUME NEW k \in 1..n, NEW l \in 1..n, e[k] = e[l] PROVE k = l
  <2>1. k - 1 = l - 1
    BY <1>3, <1>6
  <2> QED
    BY <2>1
<1>7. ASSUME NEW k \in 1..n, NEW c \in S, <<c, e[k]>> \in R
      PROVE  \E l \in 1..(k - 1) : e[l] = c
  <2>1. e[k] \in S /\ rank[e[k]] = k - 1 /\ rank[c] \in 0..(n - 1)
    BY <1>2, <1>3
  <2>2. rank[c] < rank[e[k]]
    BY <1>5, <1>7, <2>1
  <2>3. rank[c] + 1 \in 1..(k - 1)
    BY <1>1, <2>1, <2>2
  <2> QED
    BY <1>4, <2>3
<1>8. \A c \in S : Cardinality(Below(S, R, c)) + 1 \in 1..n
                   /\ e[Cardinality(Below(S, R, c)) + 1] = c
  BY <1>2, <1>4
<1> QED
  BY <1>6, <1>7, <1>8 DEF n

\* A list of as many elements of S as its length says.
LEMMA RankedIsSeq ==
    ASSUME NEW S, NEW n \in Nat, NEW e \in [1..n -> S]
    PROVE  e \in Seq(S) /\ Len(e) = n
OBVIOUS

-----------------------------------------------------------------------------
(* Lists that are put together.                                              *)

IsFlat(lists, g, k) == g = [i \in 1..k |-> IF i = 1 THEN lists[i] ELSE g[i - 1] \o lists[i]]

\* Lists are put together one after another.
LEMMA FlatIs ==
    ASSUME NEW X, NEW lists \in Seq(X)
    PROVE  /\ Len(lists) = 0 => FlattenSeq(lists) = << >>
           /\ Len(lists) # 0 => \E flat : /\ FlattenSeq(lists) = flat[Len(lists)]
                                         /\ flat[1] = lists[1]
                                         /\ \A i \in 2..Len(lists) : flat[i] = flat[i - 1] \o lists[i]
<1> DEFINE n == Len(lists)
           N == {k \in Nat : \E g : IsFlat(lists, g, k)}
<1>1. 0 \in N
  <2> DEFINE g == [i \in 1..0 |-> << >>]
  <2>1. IsFlat(lists, g, 0)
    BY DEF IsFlat
  <2> QED
    BY <2>1
<1>2. ASSUME NEW k \in N PROVE k + 1 \in N
  <2>1. PICK g : IsFlat(lists, g, k)
    OBVIOUS
  <2> DEFINE h == [i \in 1..(k + 1) |-> IF i = 1 THEN lists[i] ELSE g[i - 1] \o lists[i]]
  <2>k. k \in Nat
    OBVIOUS
  <2>g. \A i \in 1..k : g[i] = IF i = 1 THEN lists[i] ELSE g[i - 1] \o lists[i]
    BY <2>1 DEF IsFlat
  <2>h. \A i \in 1..(k + 1) : h[i] = IF i = 1 THEN lists[i] ELSE g[i - 1] \o lists[i]
    OBVIOUS
  <2>2. \A i \in 1..k : h[i] = g[i]
    <3> HIDE DEF h
    <3> QED
      BY <2>k, <2>g, <2>h
  <2>3. \A i \in 1..(k + 1) : i # 1 => h[i - 1] = g[i - 1]
    <3>1. \A i \in 1..(k + 1) : i # 1 => i - 1 \in 1..k
      BY <2>k
    <3> HIDE DEF h
    <3> QED
      BY <2>2, <3>1
  <2>4. h = [i \in 1..(k + 1) |-> IF i = 1 THEN lists[i] ELSE h[i - 1] \o lists[i]]
    BY <2>3
  <2>5. IsFlat(lists, h, k + 1)
    <3> HIDE DEF h
    <3> QED
      BY <2>4 DEF IsFlat
  <2> HIDE DEF h
  <2> QED
    BY <2>5
<1>3. n \in Nat
  OBVIOUS
<1>4. \E g : IsFlat(lists, g, n)
  <2> N \in SUBSET Nat
    OBVIOUS
  <2>1. N = Nat
    <3> HIDE DEF N
    <3> QED
      BY <1>1, <1>2, NatIsInductive
  <2> QED
    BY <1>3, <2>1
<1> DEFINE flat == CHOOSE g : g = [i \in 1..n |-> IF i = 1 THEN lists[i] ELSE g[i - 1] \o lists[i]]
<1>5. IsFlat(lists, flat, n)
  BY <1>4 DEF IsFlat
<1>6. CASE n = 0
  BY <1>6, lists = << >> DEF FlattenSeq
<1>7. CASE n # 0
  <2>1. FlattenSeq(lists) = flat[n]
    BY <1>7 DEF FlattenSeq
  <2> HIDE DEF flat
  <2>2. \A i \in 1..n : flat[i] = IF i = 1 THEN lists[i] ELSE flat[i - 1] \o lists[i]
    BY <1>5 DEF IsFlat
  <2>3. 1 \in 1..n /\ \A i \in 2..n : i \in 1..n /\ i # 1
    BY <1>3, <1>7
  <2>4. flat[1] = lists[1] /\ \A i \in 2..n : flat[i] = flat[i - 1] \o lists[i]
    BY <2>2, <2>3
  <2> QED
    BY <1>7, <2>1, <2>4
<1> QED
  BY <1>6, <1>7

\* What two lists have in common with their concatenation, a list of lists has
\* with theirs.
LEMMA FlattenStays ==
    ASSUME NEW P, << >> \in P, \A a, b \in P : a \o b \in P, NEW lists \in Seq(P)
    PROVE  FlattenSeq(lists) \in P
<1> DEFINE n == Len(lists)
<1>1. n \in Nat /\ \A i \in 1..n : lists[i] \in P
  OBVIOUS
<1>2. CASE n = 0
  BY <1>2, FlatIs
<1>3. CASE n # 0
  <2>1. PICK flat : /\ FlattenSeq(lists) = flat[n] /\ flat[1] = lists[1]
                    /\ \A i \in 2..n : flat[i] = flat[i - 1] \o lists[i]
    BY <1>3, FlatIs
  <2> DEFINE M == {k \in Nat : k + 1 <= n => flat[k + 1] \in P}
  <2>2. 0 \in M
    BY <1>1, <1>3, <2>1
  <2>3. ASSUME NEW k \in M PROVE k + 1 \in M
    <3> SUFFICES ASSUME (k + 1) + 1 <= n PROVE flat[(k + 1) + 1] \in P
      OBVIOUS
    <3>1. flat[k + 1] \in P /\ (k + 1) + 1 \in 2..n /\ ((k + 1) + 1) - 1 = k + 1
      BY <1>1
    <3>2. flat[(k + 1) + 1] = flat[k + 1] \o lists[(k + 1) + 1]
      BY <2>1, <3>1
    <3> QED
      BY <1>1, <3>1, <3>2
  <2>4. M = Nat
    <3> M \in SUBSET Nat
      OBVIOUS
    <3> HIDE DEF M
    <3> QED
      BY <2>2, <2>3, NatIsInductive
  <2>5. n - 1 \in M /\ (n - 1) + 1 = n
    <3>1. n - 1 \in Nat /\ (n - 1) + 1 = n
      BY <1>1, <1>3
    <3> HIDE DEF M
    <3> QED
      BY <2>4, <3>1
  <2>6. flat[(n - 1) + 1] \in P
    BY <1>1, <2>5
  <2> QED
    BY <2>1, <2>5, <2>6
<1> QED
  BY <1>2, <1>3

\* Two lists together have what either has.
LEMMA ConcatHas ==
    ASSUME NEW X, NEW a \in Seq(X), NEW b \in Seq(X)
    PROVE  a \o b \in Seq(X) /\ ToSet(a \o b) = ToSet(a) \cup ToSet(b)
<1> DEFINE c == a \o b
<1>1. /\ Len(a) \in Nat /\ Len(b) \in Nat /\ DOMAIN a = 1..Len(a) /\ DOMAIN b = 1..Len(b)
      /\ c \in Seq(X) /\ DOMAIN c = 1..(Len(a) + Len(b))
      /\ \A i \in 1..Len(a) : c[i] = a[i]
      /\ \A i \in 1..Len(b) : c[Len(a) + i] = b[i]
  OBVIOUS
<1> HIDE DEF c
<1>2. \A i \in DOMAIN c : c[i] \in ToSet(a) \cup ToSet(b)
  <2> TAKE i \in DOMAIN c
  <2>1. CASE i \in 1..Len(a)
    BY <1>1, <2>1 DEF ToSet
  <2>2. CASE i \notin 1..Len(a)
    <3>1. i - Len(a) \in 1..Len(b) /\ Len(a) + (i - Len(a)) = i
      BY <1>1, <2>2
    <3>2. c[i] = b[i - Len(a)]
      BY <1>1, <3>1
    <3> QED
      BY <1>1, <3>1, <3>2 DEF ToSet
  <2> QED
    BY <2>1, <2>2
<1>3. \A i \in DOMAIN a : i \in DOMAIN c /\ c[i] = a[i]
  BY <1>1
<1>4. \A i \in DOMAIN b : Len(a) + i \in DOMAIN c /\ c[Len(a) + i] = b[i]
  BY <1>1
<1>5. ToSet(c) = ToSet(a) \cup ToSet(b)
  BY <1>2, <1>3, <1>4 DEF ToSet
<1> QED
  BY <1>1, <1>5 DEF c

\* A list of one has that one.
LEMMA OneItem == ASSUME NEW X, NEW x \in X PROVE <<x>> \in Seq(X) /\ ToSet(<<x>>) = {x}
<1>1. <<x>> \in Seq(X) /\ DOMAIN <<x>> = {1} /\ <<x>>[1] = x
  OBVIOUS
<1> QED
  BY <1>1 DEF ToSet

\* An empty list has none.
LEMMA EmptyHasNone == ToSet(<< >>) = {}
<1>1. << >> \in Seq({})
  OBVIOUS
<1>2. ASSUME NEW list \in Seq({}) PROVE ToSet(list) = {}
  <2>1. \A i \in DOMAIN list : list[i] \in {}
    OBVIOUS
  <2> QED
    BY <2>1 DEF ToSet
<1> QED
  BY <1>1, <1>2

\* The first of a list and the others are what it has.
LEMMA HeadAndTail ==
    ASSUME NEW X, NEW list \in Seq(X), list # << >>
    PROVE  /\ Head(list) \in X /\ Tail(list) \in Seq(X)
           /\ ToSet(list) = {Head(list)} \cup ToSet(Tail(list))
<1>1. /\ Head(list) \in X /\ Tail(list) \in Seq(X)
      /\ list = <<Head(list)>> \o Tail(list)
  OBVIOUS
<1>2. <<Head(list)>> \in Seq(X) /\ ToSet(<<Head(list)>>) = {Head(list)}
  BY <1>1, OneItem
<1>3. ToSet(<<Head(list)>> \o Tail(list)) = ToSet(<<Head(list)>>) \cup ToSet(Tail(list))
  BY <1>1, <1>2, ConcatHas
<1> QED
  BY <1>1, <1>2, <1>3

\* Lists put together have what each of them has.
LEMMA FlattenHas ==
    ASSUME NEW X, NEW lists \in Seq(Seq(X))
    PROVE  /\ FlattenSeq(lists) \in Seq(X)
           /\ ToSet(FlattenSeq(lists)) = UNION {ToSet(lists[i]) : i \in DOMAIN lists}
<1> DEFINE n == Len(lists)
           Of(k) == UNION {ToSet(lists[i]) : i \in 1..k}
<1>1. n \in Nat /\ DOMAIN lists = 1..n /\ \A i \in 1..n : lists[i] \in Seq(X)
  OBVIOUS
<1>2. CASE n = 0
  <2>1. FlattenSeq(lists) = << >>
    <3> lists \in Seq(Seq(X))
      OBVIOUS
    <3> QED
      BY <1>2, FlatIs
  <2>2. DOMAIN lists = {}
    BY <1>1, <1>2
  <2> QED
    BY <2>1, <2>2 DEF ToSet
<1>3. CASE n # 0
  <2>1. PICK flat : /\ FlattenSeq(lists) = flat[n] /\ flat[1] = lists[1]
                    /\ \A i \in 2..n : flat[i] = flat[i - 1] \o lists[i]
    BY <1>3, FlatIs
  <2> DEFINE M == {k \in Nat : k + 1 <= n => flat[k + 1] \in Seq(X) /\ ToSet(flat[k + 1]) = Of(k + 1)}
  <2>2. 0 \in M
    <3>1. flat[1] = lists[1] /\ 1 \in 1..n /\ 1..1 = {1}
      BY <1>1, <1>3, <2>1
    <3>2. Of(1) = ToSet(lists[1])
      BY <3>1
    <3> QED
      BY <1>1, <3>1, <3>2
  <2>3. ASSUME NEW k \in M PROVE k + 1 \in M
    <3> SUFFICES ASSUME (k + 1) + 1 <= n
                 PROVE  flat[(k + 1) + 1] \in Seq(X) /\ ToSet(flat[(k + 1) + 1]) = Of((k + 1) + 1)
      OBVIOUS
    <3> DEFINE m == (k + 1) + 1
    <3>1. k \in Nat /\ k + 1 <= n /\ m \in 2..n /\ m \in 1..n /\ m - 1 = k + 1
      BY <1>1
    <3>2. flat[k + 1] \in Seq(X) /\ ToSet(flat[k + 1]) = Of(k + 1)
      <4> HIDE DEF Of
      <4> QED
        BY <3>1
    <3>3. 1..m = 1..(k + 1) \cup {m}
      BY <3>1
    <3>4. flat[m] = flat[k + 1] \o lists[m] /\ lists[m] \in Seq(X)
      BY <1>1, <2>1, <3>1
    <3>5. flat[m] \in Seq(X) /\ ToSet(flat[m]) = Of(k + 1) \cup ToSet(lists[m])
      <4> HIDE DEF m, Of
      <4> QED
        BY <3>2, <3>4, ConcatHas
    <3>6. Of(m) = Of(k + 1) \cup ToSet(lists[m])
      <4> HIDE DEF m
      <4> QED
        BY <3>3
    <3> QED
      BY <3>5, <3>6
  <2>4. M = Nat
    <3> M \in SUBSET Nat
      OBVIOUS
    <3> HIDE DEF M
    <3> QED
      BY <2>2, <2>3, NatIsInductive
  <2>5. n - 1 \in M /\ (n - 1) + 1 = n /\ n <= n
    <3>1. n - 1 \in Nat /\ (n - 1) + 1 = n /\ n <= n
      BY <1>1, <1>3
    <3> HIDE DEF M
    <3> QED
      BY <2>4, <3>1
  <2>6. flat[n] \in Seq(X) /\ ToSet(flat[n]) = Of(n)
    <3> HIDE DEF Of
    <3> QED
      BY <2>5
  <2> QED
    BY <1>1, <2>1, <2>6
<1> QED
  BY <1>2, <1>3
=================================================================================
