---------------------------- MODULE MCPolicyApproval ----------------------------
(* Instances of PolicyApproval for TLC. *)
EXTENDS PolicyApproval, TLC

CONSTANTS a1, a2, a3, g1, g2, v1, v2, x1, x2

MCAgentOf   == [a \in Apps |-> IF a = a2 THEN g2 ELSE g1]
MCPayableOf == [a \in Apps |-> IF a = a1 THEN 3 ELSE 5]
\* Every application is for the same vehicle.
SameVehicle == [a \in Apps |-> {v1}]
\* Requests are alike, and so are the values of a descriptive column.
Alike == Permutations(Reqs) \cup Permutations(Details)
\* A fleet filing that overlaps two others.
Fleet == [a \in Apps |-> CASE a = a1 -> {v1} [] a = a2 -> {v1, v2} [] a = a3 -> {v2}]
\* Changes recorded: of one application two, of the others one; or one of each.
TwoOfOne  == [a \in Apps |-> IF a = a1 THEN 2 ELSE 1]
OneOfEach == [a \in Apps |-> 1]
================================================================================
