--------------------------------- MODULE MCOffice  ---------------------------------
(***************************************************************************)
(* Small instances, for TLC, of what the office keeps: accounts and their    *)
(* permissions, the catalog, and the pages products are edited on.  They       *)
(* share no state: a behaviour is one of what is in `focus`, the others rest.  *)
(***************************************************************************)
EXTENDS UserAccounts, ProductCatalog, ProductsPage, PricingEditor, TLC

CONSTANTS u1, u2, e1, e2, e3, n1, n2, r1, r2

VARIABLE focus

officeVars == <<focus, accountsVars, catalogVars, productsVars, editorVars>>

\* Requests are alike, and so are the e-mails nobody has to begin with.
Alike == Permutations(UserReqs) \cup Permutations(Emails \ {AdminEmail})

-----------------------------------------------------------------------------
(* Accounts.                                                                     *)

\* What is ticked for a role or a user: either of two sets that share no page, and
\* one of which reaches products without their page.
TwoSelections == {UserActions, RoleActions \cup ProductActions}

\* Somebody is granted permissions, or a role, while roles are given theirs.
Granting(q) ==
    /\ q.pc \notin {"createEmail", "forgot", "setPassword"}
    /\ q.body.user = Admin
    /\ q.body.email \in {AdminEmail, NoEmail} /\ q.body.status = "ACTIVE" /\ ~q.body.reset

\* Somebody else is invited, edited and reset, and sets a password.
Entering(q) ==
    /\ q.pc \notin {"newRole", "setRoleDelete", "login"}
    /\ q.pc # "idle" /\ q.pc \notin {"createEmail", "createAgent", "createInsert"} => q.body.user # Admin
    /\ q.body.role = AdminRole /\ q.body.special \subseteq WithPageAccess(UserActions)

-----------------------------------------------------------------------------
(* The catalog: priced by an agent's or by the product's own tables.             *)

SomeTables == {<<"product", "seats">>, <<"agent", "rate">>}

\* The products page: two classes; one has two variants, the one of them a
\* coverage with a period.
SomeAbove == [c1 |-> Top, c2 |-> Top, w1 |-> "c1", w2 |-> "c1", k1 |-> "w1", d1 |-> "k1"]
SomeTiers == [c1 |-> "class", c2 |-> "class", w1 |-> "variant", w2 |-> "variant",
              k1 |-> "coverage", d1 |-> "period"]

\* The pricing editor: one of the coverages has two periods.
SomePeriods == [k1 |-> {180, 365}, k2 |-> {180}]

-----------------------------------------------------------------------------
Init ==
    /\ focus \in {"grants", "access", "catalog", "products page", "pricing editor"}
    /\ AccountsInit /\ CatalogInit /\ ProductsInit /\ EditorInit

Next ==
    /\ UNCHANGED focus
    /\ \/ /\ focus = "grants" /\ AccountsNext /\ \A r \in UserReqs : Granting(userReq'[r])
          /\ UNCHANGED <<catalogVars, productsVars, editorVars>>
       \/ /\ focus = "access" /\ AccountsNext /\ \A r \in UserReqs : Entering(userReq'[r])
          /\ UNCHANGED <<catalogVars, productsVars, editorVars>>
       \/ /\ focus = "catalog" /\ CatalogNext /\ Apart'
          /\ UNCHANGED <<accountsVars, productsVars, editorVars>>
       \/ /\ focus = "products page" /\ ProductsNext
          /\ UNCHANGED <<accountsVars, catalogVars, editorVars>>
       \/ /\ focus = "pricing editor" /\ EditorNext
          /\ UNCHANGED <<accountsVars, catalogVars, productsVars>>

Spec == Init /\ [][Next]_officeVars
================================================================================
