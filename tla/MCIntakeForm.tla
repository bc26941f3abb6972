------------------------------ MODULE MCIntakeForm ------------------------------
(* Two variants, a plate on file, two agents, for TLC.   *)
EXTENDS IntakeForm

PlateOwner == [p \in TypedPlates |-> "ann"]
PlateVariant == [p \in TypedPlates |-> "van"]
VariantCovers == [car |-> {"own", "seats"}, van |-> {"flat"}]
CoverDays == [own |-> {180}, seats |-> {180}, flat |-> {365}]

\* The second agent has no price for the seats.
AgentPrices == [a \in FilingAgents |->
    {<<"own", 180>>, <<"flat", 365>>} \cup (IF a = "a1" THEN {<<"seats", 180>>} ELSE {})]
Renewal == {[plates |-> <<"P">>, client |-> "ann", variant |-> "van", days |-> 365, covers |-> {"flat"}]}
================================================================================
