------------------------------ MODULE Underwriting ------------------------------
(***************************************************************************)
(* What the agents and the insurer are promised of an application, without  *)
(* requests, reads or transactions: once filed it is decided at most once,  *)
(* and an approval is one event, which puts the assets under cover for the  *)
(* days applied for, where no other cover is in force, and books what the   *)
(* cover owes.                                                              *)
(***************************************************************************)
EXTENDS Integers

CONSTANTS Apps, Agents, Starts, Terms, AgentOf, AssetsOf, PayableOf

VARIABLES
    stage,   \* how far each application has come
    term,    \* the days of cover each one asks for
    cover,   \* the first day and the day after the last, once issued
    owed     \* what each agent owes

promised == <<stage, term, cover, owed>>

NoCover == [from |-> 0, to |-> 0]

Init ==
    /\ stage = [a \in Apps |-> "unfiled"]
    /\ term = [a \in Apps |-> 0]
    /\ cover = [a \in Apps |-> NoCover]
    /\ owed = [g \in Agents |-> 0]

File(a) ==
    /\ stage[a] = "unfiled"
    /\ stage' = [stage EXCEPT ![a] = "pending"]
    /\ \E n \in Terms : term' = [term EXCEPT ![a] = n]
    /\ UNCHANGED <<cover, owed>>

\* No other cover of one of a's assets meets the days.
Free(a, from, to) ==
    \A b \in Apps \ {a} :
        stage[b] = "issued" /\ AssetsOf[b] \cap AssetsOf[a] # {} =>
            to <= cover[b].from \/ cover[b].to <= from

Issue(a) ==
    /\ stage[a] = "pending"
    /\ stage' = [stage EXCEPT ![a] = "issued"]
    /\ \E from \in Starts :
          /\ Free(a, from, from + term[a])
          /\ cover' = [cover EXCEPT ![a] = [from |-> from, to |-> from + term[a]]]
    /\ owed' = [owed EXCEPT ![AgentOf[a]] = @ + PayableOf[a]]
    /\ UNCHANGED term

Decline(a) ==
    /\ stage[a] = "pending"
    /\ stage' = [stage EXCEPT ![a] = "declined"]
    /\ UNCHANGED <<term, cover, owed>>

Next == \E a \in Apps : File(a) \/ Issue(a) \/ Decline(a)

Spec == Init /\ [][Next]_promised
================================================================================
