---------------------------- MODULE MCAgentPayables ----------------------------
(* Small ledgers for TLC.                                                     *)
EXTENDS AgentPayables

CONSTANTS t1, t2, p1, p2, p3

\* A policy whose bucket is outstanding.
OnePolicy == <<Row("ISSUANCE", p1, 2, 2, TRUE)>>

\* A policy issued before ledger rows had due dates and remaining amounts, and
\* one issued since.  A third is still to be issued.
OldAndNew == <<Row("ISSUANCE", p1, 2, NoDue, FALSE), Row("ISSUANCE", p2, 1, 2, TRUE)>>

Single == {<<"credit">>, <<"debit">>}
Mixed  == {<<"credit">>, <<"debit">>, <<"credit", "debit">>}
================================================================================
