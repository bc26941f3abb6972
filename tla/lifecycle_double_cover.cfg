CONSTANTS
    a1 = a1  a2 = a2  a3 = a3  g1 = g1  g2 = g2  v1 = v1  w1 = w1  x1 = x1
    Apps = {a1, a2, a3}
    Agents = {g1, g2}
    Vehicles = {v1}
    RiskAddresses = {}
    Details = {x1}
    Reqs = {r1, r2}
    Dates = {0, 1, 2}
    Lengths = {2}
    AgentOf <- MCAgentOf
    AssetsOf <- SameVehicle
    PayableOf <- MCPayableOf
    Rewritten = {}
    MaxChanges <- NoChanges
    Refunds = {50}
SPECIFICATION LifecycleSpec
INVARIANTS ExclusiveCover
CHECK_DEADLOCK FALSE
