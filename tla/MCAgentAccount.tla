------------------------------ MODULE MCAgentAccount ------------------------------
(***************************************************************************)
(* Small instances, for TLC: the account of an agent, with one connection and   *)
(* one policy that is endorsed, beside payments and another policy of the agent *)
(* or with lines added, edited and deleted; and the dialog of agents' rates.    *)
(* A behaviour is one of `focus`.                                               *)
(***************************************************************************)
EXTENDS AgentAccount, AgentRates

CONSTANTS t1, p1, p2, e1, e2

VARIABLE focus

\* A policy with one coverage of 2.
OneCoverage == 1 :> [owed |-> 2, misc |-> FALSE, removed |-> FALSE]

PolicyIssued == <<Row("ISSUANCE", p1, 2, 2, TRUE)>>

\* A company, one of its people, and an agent of neither.
OfAcme == [e \in Employed |-> "acme"]

AsListed == <<"own damage", "liability", "seats">>

RatedAs == [c \in ToSet(AsListed) |->
               CASE c = "liability" -> "PERCENTAGE" [] c = "seats" -> "VEHICLE_SEATS_BASED"
                 [] OTHER -> "FLAT_TIER"]

\* For half a year there is only one coverage.
SoldFor == [d \in RatedDays |-> IF d = UsualDays THEN ToSet(AsListed) ELSE {"liability"}]

MCInit == focus \in {"account", "lines", "rates"} /\ InitEndorsements /\ RatesInit

MCNext ==
    /\ UNCHANGED focus
    /\ \/ /\ focus = "account" /\ AccountNext /\ UNCHANGED ratesVars
          /\ \A t \in Txs : work'[t].pc \notin Edits
       \/ focus = "lines" /\ NextEndorsement /\ UNCHANGED ratesVars
       \/ focus = "rates" /\ RatesNext /\ UNCHANGED vars

MCSpec == MCInit /\ [][MCNext]_<<focus, vars, ratesVars>>
================================================================================
