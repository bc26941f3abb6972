CONSTANTS
    a1 = a1  a2 = a2  a3 = a3  g1 = g1  g2 = g2  v1 = v1  v2 = v2   x1 = x1  x2 = x2
    Apps = {a1, a2}
    Agents = {g1, g2}
    Vehicles = {v1}
    RiskAddresses = {}
    Details = {x1, x2}
    Reqs = {r1, r2}
    Dates = {0, 2}
    Lengths = {2}
    AgentOf <- MCAgentOf
    AssetsOf <- SameVehicle
    PayableOf <- MCPayableOf
    Rewritten = {}
    MaxChanges <- OneOfEach
SPECIFICATION Spec
PROPERTIES IssueCarriesChanges
CHECK_DEADLOCK FALSE
