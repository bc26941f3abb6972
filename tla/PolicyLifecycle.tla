----------------------------- MODULE PolicyLifecycle -----------------------------
(***************************************************************************)
(* PolicyApproval composed with the one other writer of Policy rows: the   *)
(* approval of a CANCELLATION endorsement (routes/endorsements.js).  Only  *)
(* its effect on the policy, the ledger and the agent's balance is here;   *)
(* the endorsement's own life is another component.  How much is refunded  *)
(* depends on dates and on the policy's other ledger rows, so it is any    *)
(* amount up to what the policy credited.                                  *)
(***************************************************************************)
EXTENDS PolicyApproval

CONSTANT Refunds   \* bound: fractions of the credit a cancellation refunds,
                   \* as percentages

ASSUME RefundsAssumption == Refunds \subseteq 0..100

\* policy.update to CANCELLED, the CANCELLED_POLICY row, agent.update.  The row
\* is written even when nothing is refunded.
CancelPolicy(i, percent) ==
    LET agent  == AgentOf[policies[i].app]
        refund == (PayableOf[policies[i].app] * percent) \div 100
    IN  /\ policies[i].status = "ACTIVE"
        /\ policies' = [policies EXCEPT ![i].status = "CANCELLED"]
        /\ ledger' = Append(ledger, [agent |-> agent, policy |-> i,
                                     type |-> "CANCELLED_POLICY", amount |-> -refund])
        /\ payable' = [payable EXCEPT ![agent] = @ - refund]
        /\ UNCHANGED <<app, changes, detail, assessed, history, inLease, req>>

LifecycleNext == Next \/ \E i \in DOMAIN policies, p \in Refunds : CancelPolicy(i, p)

LifecycleSpec == Init /\ [][LifecycleNext]_vars

-----------------------------------------------------------------------------
\* Two active policies of an asset overlap only behind a cancelled one: some
\* policy of that asset, effective no earlier than the first of them to start,
\* is cancelled.
OverlapNeedsCancellation ==
    \A i, j \in DOMAIN policies :
        /\ i < j
        /\ policies[i].status = "ACTIVE" /\ policies[j].status = "ACTIVE"
        /\ policies[i].effective < policies[j].expiry
        /\ policies[j].effective < policies[i].expiry
        => \A x \in policies[i].assets \cap policies[j].assets :
              \E k \in DOMAIN policies :
                 /\ k < j
                 /\ x \in policies[k].assets
                 /\ policies[k].status = "CANCELLED"
                 /\ policies[k].effective >= policies[i].effective
================================================================================
