------------------------------ MODULE AgentAccount ------------------------------
(***************************************************************************)
(* The account of one agent: the endorsements of one policy, beside the       *)
(* agent's other policies and payments, which share the ledger.               *)
(***************************************************************************)
EXTENDS EndorsementApproval, LedgerBackfill

\* A payment, or the issue or the endorsement of another policy.
AccountRequest(t) ==
    \/ \E n \in Amounts : RecordPayment(t, n)
    \/ \E p \in Policies \ {Policy}, n \in Amounts, due \in DueDates :
          \/ IssuePolicy(t, p, n, due)
          \/ \E kind \in {"credit", "debit"} :
                ApproveCorrection(t, p, <<[kind |-> kind, amount |-> n, due |-> due]>>)

AccountNext ==
    \/ NextEndorsement
    \/ \E t \in Txs :
          /\ work[t] = Free
          /\ AccountRequest(t) \/ Execute(t)
          /\ UNCHANGED <<tables, work>>

AccountSpec == InitEndorsements /\ [][AccountNext]_vars
================================================================================
