---------------------------- MODULE MCEndorsementApproval ----------------------------
(* One small policy for TLC.                                                  *)
EXTENDS EndorsementApproval

CONSTANTS t1, t2, p1, e1, e2, e3

Connections == Permutations(Txs)

\* A policy with one coverage of 2.
OneCoverage == 1 :> [owed |-> 2, misc |-> FALSE, removed |-> FALSE]

Issued == <<Row("ISSUANCE", p1, 2, 2, TRUE)>>
================================================================================
