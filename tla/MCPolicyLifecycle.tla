--------------------------- MODULE MCPolicyLifecycle ---------------------------
(* Instances of PolicyLifecycle for TLC. *)
EXTENDS PolicyLifecycle, TLC

CONSTANTS a1, a2, a3, g1, g2, v1, w1, x1

MCAgentOf   == [a \in Apps |-> IF a = a2 THEN g2 ELSE g1]
MCPayableOf == [a \in Apps |-> IF a = a1 THEN 3 ELSE 5]
\* Every application is for the same vehicle, or the same risk address.
SameVehicle == [a \in Apps |-> {v1}]
SameAddress == [a \in Apps |-> {w1}]
NoChanges == [a \in Apps |-> 0]
================================================================================
