-------------------------------- MODULE MCReview --------------------------------
(***************************************************************************)
(* Small instances, for TLC, of the approver's pages, the list and the dialog    *)
(* opened from it, and of the page of what is left to enter in In-Lease.  A       *)
(* behaviour is one of the page in `focus`.                                      *)
(***************************************************************************)
EXTENDS ReviewQueue, ReviewDialog, InLeaseBacklog, TLC

CONSTANTS i1, i2

VARIABLE focus

reviewVars == <<focus, queueVars, dialogVars, inLeaseVars>>

Alike == Permutations(Items)

Init ==
    /\ focus \in {"list", "dialog", "in-lease"}
    /\ QueueInit /\ DialogInit /\ InLeaseInit
    /\ focus # "dialog" => queue = "applications"

Next ==
    /\ UNCHANGED focus
    /\ \/ focus = "list" /\ QueueNext /\ UNCHANGED <<dialogVars, inLeaseVars>>
       \/ focus = "dialog" /\ DialogNext /\ UNCHANGED <<queueVars, inLeaseVars>>
       \/ focus = "in-lease" /\ InLeaseNext /\ UNCHANGED <<queueVars, dialogVars>>

Spec == Init /\ [][Next]_reviewVars
================================================================================
