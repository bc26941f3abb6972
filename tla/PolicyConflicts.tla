---------------------------- MODULE PolicyConflicts ----------------------------
(***************************************************************************)
(* The "no double-insuring the same asset" rule of lib/policyConflicts.js  *)
(* as operators over the two tables it reads: the applications (a function *)
(* from application to row) and the policies (a sequence of rows in the    *)
(* order they were inserted).  An asset is a vehicle or a risk address:    *)
(* resolveVehicleRenewal and resolveRiskAddressRenewal apply the same rule *)
(* to one or the other.  The two queries of each resolver are separate     *)
(* statements outside any transaction, so a caller evaluates HasPending in *)
(* one step and the rest in a later one.                                   *)
(***************************************************************************)
EXTENDS Naturals, Sequences

PendingStatuses == {"SUBMITTED", "UNDER_REVIEW"}

\* Another application that carries one of the assets is still undecided,
\* whatever dates it asks for.
HasSubmitted(apps, assetsOf, assets, exclude) ==   \* variant: one status forgotten
    \E a \in DOMAIN apps \ exclude :
        apps[a].status = "SUBMITTED" /\ assetsOf[a] \cap assets # {}

HasPending(apps, assetsOf, assets, exclude) ==
    \E a \in DOMAIN apps \ exclude :
        apps[a].status \in PendingStatuses /\ assetsOf[a] \cap assets # {}

\* The policies that may head the list of asset x ordered by effective_date,
\* latest first: equal dates come back in either order.
Latest(policies, x) ==
    {i \in DOMAIN policies :
        /\ x \in policies[i].assets
        /\ \A j \in DOMAIN policies :
              x \in policies[j].assets =>
                  policies[j].effective <= policies[i].effective}

Blocks(policy, start) == policy.status = "ACTIVE" /\ start < policy.expiry

\* No asset is held by an active policy past the requested start: only the
\* latest policy of each asset is looked at.
MayPass(policies, assets, start) ==
    \A x \in assets :
        Latest(policies, x) = {} \/ \E i \in Latest(policies, x) : ~Blocks(policies[i], start)

MayBlock(policies, assets, start) ==
    \E x \in assets : \E i \in Latest(policies, x) : Blocks(policies[i], start)

\* The policies the filing may be linked to as a renewal: the most recent of
\* the assets' latest policies, 0 when none of the assets has any history.
RenewalTargets(policies, assets) ==
    LET heads == UNION {Latest(policies, x) : x \in assets}
    IN  IF heads = {} THEN {0}
        ELSE {i \in heads : \A j \in heads : policies[j].effective <= policies[i].effective}
================================================================================
