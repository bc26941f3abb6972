------------------------------ MODULE UserAccounts ------------------------------
(***************************************************************************)
(* Users, roles and their permissions: routes/users.js, routes/auth.js,     *)
(* middleware/permissions.js and the dialogs of pages/ManageUsers.jsx that  *)
(* call them.                                                               *)
(*                                                                         *)
(* No handler here but the insert of a user runs in a transaction, so each  *)
(* await is a step, and a request that dies at one leaves what it has done; *)
(* the lookups of the caller's permissions, on which nothing written        *)
(* depends, are one.  A password, or a link to set one, is there or not: an *)
(* expired link is one that is not used, mail may be lost since the link is *)
(* also logged and shown, and an expired token is one that is not sent.     *)
(***************************************************************************)
EXTENDS Integers, FiniteSets

CONSTANTS
    Users,        \* User rows that may exist
    Admin,        \* the user there is to begin with
    Managed,      \* users that are edited, sign in or forget their password
    Emails,
    AdminEmail,
    Roles,        \* role names
    AdminRole,    \* the role there is
    LoginAgents,  \* agents a user may be linked to
    Individuals,  \* those of type INDIVIDUAL
    Selections,   \* sets of sub-permissions an administrator may check
    Fields,       \* fields an administrator may change
    UserReqs      \* requests the server may be serving at once

\* Codes are of one, two or three parts; one of three is of an action on the page
\* that the code of two it starts with lets one reach.  The settings' other codes
\* of two parts are alike, and so are the other pages and theirs.
UserPages      == {"MANAGE_USERS", "MANAGE_SETTINGS"}
UserActions    == {"MANAGE_USERS.ADD_USER", "MANAGE_USERS.EDIT_USER_DETAILS",
                   "MANAGE_USERS.EDIT_ROLE", "MANAGE_USERS.EDIT_SPECIAL_PERMISSIONS"}
RoleActions    == {"MANAGE_SETTINGS.CREATE_ROLE", "MANAGE_SETTINGS.EDIT_ROLE_PERMISSIONS"}
ProductPage    == "MANAGE_SETTINGS.MANAGE_PRODUCTS"
ProductActions == {"MANAGE_SETTINGS.MANAGE_PRODUCTS.ADD_CLASS", "MANAGE_SETTINGS.MANAGE_PRODUCTS.ADD_VARIANT",
                   "MANAGE_SETTINGS.MANAGE_PRODUCTS.ADD_COVERAGE", "MANAGE_SETTINGS.MANAGE_PRODUCTS.EDIT_DETAILS",
                   "MANAGE_SETTINGS.MANAGE_PRODUCTS.EDIT_PRICING"}
SubCodes       == UserActions \cup RoleActions \cup {ProductPage} \cup ProductActions
Codes          == UserPages \cup SubCodes

\* The codes that start with a page's.
Under(page) == IF page = "MANAGE_USERS" THEN UserActions ELSE SubCodes \ UserActions

UserStatuses == {"AWAITING_EMAIL_VERIFICATION", "ACTIVE", "INACTIVE", "SUSPENDED"}

ASSUME AccountsAssumption ==
    /\ Admin \in Users /\ Managed \subseteq Users /\ AdminEmail \in Emails /\ AdminRole \in Roles
    /\ Individuals \subseteq LoginAgents
    /\ Selections \subseteq SUBSET SubCodes
    /\ Fields \subseteq {"reset", "email", "status", "role", "special", "agent"}

NoEmail == "no email"
NoAgent == "no agent"

VARIABLES
    account,     \* User rows, with their UserRole and UserPermission rows
    roleGrants,  \* Role rows by name, with their RolePermission rows
    customers,   \* e-mails of Customer rows
    sessions,    \* users who have signed in
    userReq      \* what each request, or the dialog before it, holds

accountsVars == <<account, roleGrants, customers, sessions, userReq>>

NoAccount == [status |-> "NONE", email |-> NoEmail, password |-> FALSE, link |-> FALSE,
              roles |-> {}, special |-> {}, agent |-> NoAgent]

Exists(u) == account[u].status # "NONE"

\* What a dialog or a form sends.
Body == [user |-> Admin, email |-> NoEmail, status |-> "ACTIVE", role |-> AdminRole,
         special |-> {}, reset |-> FALSE, agent |-> NoAgent]

NoRequest == [pc |-> "idle", body |-> Body, was |-> NoEmail]

Answer(r) == userReq' = [userReq EXCEPT ![r] = NoRequest]
Then(r, step) == userReq' = [userReq EXCEPT ![r].pc = step]

AccountsInit ==
    /\ account = [u \in Users |->
          IF u # Admin THEN NoAccount
          ELSE [NoAccount EXCEPT !.status = "ACTIVE", !.email = AdminEmail, !.password = TRUE,
                                 !.roles = {AdminRole}]]
    /\ roleGrants = [n \in {AdminRole} |-> Codes]
    /\ customers = {AdminEmail}
    /\ sessions = {Admin}
    /\ userReq = [r \in UserReqs |-> NoRequest]

-----------------------------------------------------------------------------
(* Permissions: requireAuth, getUserPermissionCodes, requirePermission and    *)
(* ensurePermission.                                                         *)

\* expandWithPageAccess: a sub-permission brings along the page its first part is.
SubPermissionsOnly(selected) == selected   \* variant: what is selected and no more

WithPageAccess(selected) == selected \cup {page \in UserPages : selected \cap Under(page) # {}}

\* An account that is not ACTIVE has no permissions.
CodesOf(u) ==
    IF account[u].status # "ACTIVE" THEN {}
    ELSE account[u].special \cup UNION {roleGrants[n] : n \in account[u].roles}

\* Somebody who has signed in may use the handlers that ask for these codes.
Permitted(codes) == \E u \in sessions : codes \subseteq CodesOf(u)

\* A request is let through and begins.
Begin(r, step, body) ==
    /\ userReq[r].pc = "idle"
    /\ userReq' = [userReq EXCEPT ![r] = [NoRequest EXCEPT !.pc = step, !.body = body]]
    /\ UNCHANGED <<account, roleGrants, customers, sessions>>

-----------------------------------------------------------------------------
(* POST /users and the Add User dialog.                                      *)

AddUser(r, email, role, selected, agent) ==
    /\ Permitted({"MANAGE_USERS", "MANAGE_USERS.ADD_USER"})
    /\ role \in DOMAIN roleGrants
    /\ Begin(r, "createEmail", [Body EXCEPT !.email = email, !.role = role,
                                           !.special = selected, !.agent = agent])

\* An INDIVIDUAL agent that somebody else is linked to is refused.
LinkRefused(agent, u) ==
    agent \in Individuals /\ \E w \in Users : Exists(w) /\ w # u /\ account[w].agent = agent

CreateCheckEmail(r) ==
    /\ userReq[r].pc = "createEmail"
    /\ IF \E u \in Users : account[u].email = userReq[r].body.email THEN Answer(r)
       ELSE Then(r, "createAgent")
    /\ UNCHANGED <<account, roleGrants, customers, sessions>>

CreateCheckAgent(r) ==
    /\ userReq[r].pc = "createAgent"
    /\ IF \E u \in Users : ~Exists(u) /\ LinkRefused(userReq[r].body.agent, u)
       THEN Answer(r) ELSE Then(r, "createInsert")
    /\ UNCHANGED <<account, roleGrants, customers, sessions>>

\* The customer with that e-mail is reused or created, and the user inserted.
CreateInsert(r) ==
    LET b == userReq[r].body
    IN  /\ userReq[r].pc = "createInsert"
        /\ \A u \in Users : account[u].email # b.email
        /\ \E u \in Users :
              /\ ~Exists(u)
              /\ account' = [account EXCEPT ![u] =
                    [status |-> "AWAITING_EMAIL_VERIFICATION", email |-> b.email,
                     password |-> FALSE, link |-> TRUE, roles |-> {b.role},
                     special |-> WithPageAccess(b.special), agent |-> b.agent]]
        /\ customers' = customers \cup {b.email}
        /\ Answer(r)
        /\ UNCHANGED <<roleGrants, sessions>>

-----------------------------------------------------------------------------
(* PATCH /users/:id and the Edit User dialog, which is filled from a row of   *)
(* the list when it opens and sends all its fields when it is saved.         *)

\* An account that awaits verification is shown, and sent back, as ACTIVE.
StatusOffered(status) == IF status = "AWAITING_EMAIL_VERIFICATION" THEN "ACTIVE" ELSE status

OpenEditUser(r, u) ==
    /\ Permitted({"MANAGE_USERS"})
    /\ Exists(u)
    /\ \E role \in IF account[u].roles = {} THEN DOMAIN roleGrants ELSE account[u].roles :
          Begin(r, "editing",
                [user |-> u, email |-> account[u].email, status |-> StatusOffered(account[u].status),
                 role |-> role, special |-> account[u].special \ UserPages, reset |-> FALSE,
                 agent |-> account[u].agent])

\* What is changed before it is sent: a field, or nothing.  The dialog offers every
\* status but the first, which the handler takes as well.
Edited(d) ==
    {d} \cup UNION
    {CASE f = "reset"   -> {[d EXCEPT !.reset = TRUE]}
       [] f = "email"   -> {[d EXCEPT !.email = e] : e \in Emails}
       [] f = "status"  -> {[d EXCEPT !.status = s] : s \in UserStatuses}
       [] f = "role"    -> {[d EXCEPT !.role = n] : n \in DOMAIN roleGrants}
       [] f = "special" -> {[d EXCEPT !.special = S] : S \in Selections}
       [] f = "agent"   -> {[d EXCEPT !.agent = g] : g \in LoginAgents \cup {NoAgent}} : f \in Fields}

SaveUser(r) ==
    /\ userReq[r].pc = "editing"
    /\ \E b \in Edited(userReq[r].body) :
          userReq' = [userReq EXCEPT ![r].pc = "patchTarget", ![r].body = b]
    /\ UNCHANGED <<account, roleGrants, customers, sessions>>

PatchReadTarget(r) ==
    /\ userReq[r].pc = "patchTarget"
    /\ Permitted(UserActions \ {"MANAGE_USERS.ADD_USER"})
    /\ userReq' = [userReq EXCEPT ![r].pc = "patchAgent",
                                  ![r].was = account[userReq[r].body.user].email]
    /\ UNCHANGED <<account, roleGrants, customers, sessions>>

ChangesEmail(q) == q.body.email # q.was

PatchCheckAgent(r) ==
    LET q == userReq[r]
    IN  /\ q.pc = "patchAgent"
        /\ IF LinkRefused(q.body.agent, q.body.user) THEN Answer(r)
           ELSE Then(r, IF ChangesEmail(q) THEN "patchEmail" ELSE "patchUpdate")
        /\ UNCHANGED <<account, roleGrants, customers, sessions>>

EmailTaken(q) == \E u \in Users \ {q.body.user} : account[u].email = q.body.email

PatchCheckEmail(r) ==
    /\ userReq[r].pc = "patchEmail"
    /\ IF EmailTaken(userReq[r]) THEN Answer(r) ELSE Then(r, "patchUpdate")
    /\ UNCHANGED <<account, roleGrants, customers, sessions>>

NoNewLink(row) ==   \* variant: the link is mailed and not kept
    [row EXCEPT !.password = FALSE, !.status = "AWAITING_EMAIL_VERIFICATION"]

\* What the steps after it read of a request.
Remaining(b) == [Body EXCEPT !.user = b.user, !.role = b.role, !.special = b.special]

\* A new e-mail or a reset takes the password away until the new link is used,
\* whatever status was sent along.
Unverified(row) ==
    [row EXCEPT !.password = FALSE, !.link = TRUE, !.status = "AWAITING_EMAIL_VERIFICATION"]

PatchUpdate(r) ==
    LET q     == userReq[r]
        old   == account[q.body.user]
        named == [old EXCEPT !.agent = q.body.agent, !.status = q.body.status,
                             !.email = IF ChangesEmail(q) THEN q.body.email ELSE @]
    IN  /\ q.pc = "patchUpdate"
        /\ ChangesEmail(q) => ~EmailTaken(q)
        /\ account' = [account EXCEPT ![q.body.user] =
                          IF ChangesEmail(q) \/ q.body.reset THEN Unverified(named) ELSE named]
        /\ userReq' = [userReq EXCEPT ![r] = [NoRequest EXCEPT !.pc = "roleDelete", !.body = Remaining(q.body)]]
        /\ UNCHANGED <<roleGrants, customers, sessions>>

\* The role, then the special permissions, are deleted and inserted again.
PatchDeleteRoles(r) ==
    /\ userReq[r].pc = "roleDelete"
    /\ account' = [account EXCEPT ![userReq[r].body.user].roles = {}]
    /\ Then(r, "roleCreate")
    /\ UNCHANGED <<roleGrants, customers, sessions>>

PatchCreateRole(r) ==
    LET b == userReq[r].body
    IN  /\ userReq[r].pc = "roleCreate"
        /\ b.role \notin account[b.user].roles
        /\ account' = [account EXCEPT ![b.user].roles = @ \cup {b.role}]
        /\ Then(r, "specialDelete")
        /\ UNCHANGED <<roleGrants, customers, sessions>>

PatchDeleteSpecial(r) ==
    /\ userReq[r].pc = "specialDelete"
    /\ account' = [account EXCEPT ![userReq[r].body.user].special = {}]
    /\ Then(r, "specialCreate")
    /\ UNCHANGED <<roleGrants, customers, sessions>>

PatchCreateSpecial(r) ==
    LET b == userReq[r].body
    IN  /\ userReq[r].pc = "specialCreate"
        /\ WithPageAccess(b.special) \cap account[b.user].special = {}
        /\ account' = [account EXCEPT ![b.user].special = @ \cup WithPageAccess(b.special)]
        /\ Answer(r)
        /\ UNCHANGED <<roleGrants, customers, sessions>>

-----------------------------------------------------------------------------
(* POST /users/roles and PUT /users/roles/:id/permissions.                   *)

AddRole(r, role, selected) ==
    /\ Permitted({"MANAGE_SETTINGS.CREATE_ROLE"})
    /\ Begin(r, "newRole", [Body EXCEPT !.role = role, !.special = selected])

SaveRole(r, role, selected) ==
    /\ Permitted({"MANAGE_SETTINGS.EDIT_ROLE_PERMISSIONS"})
    /\ role \in DOMAIN roleGrants
    /\ Begin(r, "setRoleDelete", [Body EXCEPT !.role = role, !.special = selected])

\* The name is free; what it races with is stopped by the unique index.
RoleCreate(r) ==
    LET b == userReq[r].body
    IN  /\ userReq[r].pc = "newRole"
        /\ b.role \notin DOMAIN roleGrants
        /\ roleGrants' = [n \in DOMAIN roleGrants \cup {b.role} |->
                            IF n = b.role THEN WithPageAccess(b.special) ELSE roleGrants[n]]
        /\ Answer(r)
        /\ UNCHANGED <<account, customers, sessions>>

RoleDeleteGrants(r) ==
    /\ userReq[r].pc = "setRoleDelete"
    /\ roleGrants' = [roleGrants EXCEPT ![userReq[r].body.role] = {}]
    /\ Then(r, "setRoleCreate")
    /\ UNCHANGED <<account, customers, sessions>>

RoleCreateGrants(r) ==
    LET b == userReq[r].body
    IN  /\ userReq[r].pc = "setRoleCreate"
        /\ WithPageAccess(b.special) \cap roleGrants[b.role] = {}
        /\ roleGrants' = [roleGrants EXCEPT ![b.role] = @ \cup WithPageAccess(b.special)]
        /\ Answer(r)
        /\ UNCHANGED <<account, customers, sessions>>

-----------------------------------------------------------------------------
(* POST /auth/login, /auth/forgot-password and /auth/set-password.           *)

LoginRead(r, u) ==
    /\ account[u].password
    /\ Begin(r, "login", [Body EXCEPT !.user = u, !.status = account[u].status])

\* The password has been compared with the hash read before.
LoginAnswer(r) ==
    /\ userReq[r].pc = "login"
    /\ sessions' = IF userReq[r].body.status = "ACTIVE" THEN sessions \cup {userReq[r].body.user}
                   ELSE sessions
    /\ Answer(r)
    /\ UNCHANGED <<account, roleGrants, customers>>

ForgotRead(r, u) ==
    /\ Exists(u)
    /\ Begin(r, "forgot", [Body EXCEPT !.user = u])

ForgotUpdate(r) ==
    /\ userReq[r].pc = "forgot"
    /\ account' = [account EXCEPT ![userReq[r].body.user].link = TRUE]
    /\ Answer(r)
    /\ UNCHANGED <<roleGrants, customers, sessions>>

SetPasswordRead(r, u) ==
    /\ account[u].link
    /\ Begin(r, "setPassword", [Body EXCEPT !.user = u])

Verified(row) == [row EXCEPT !.password = TRUE, !.status = "ACTIVE", !.link = FALSE]

\* The hash is computed; the row is updated whatever it has become.
SetPasswordUpdate(r) ==
    /\ userReq[r].pc = "setPassword"
    /\ account' = [account EXCEPT ![userReq[r].body.user] = Verified(@)]
    /\ Answer(r)
    /\ UNCHANGED <<roleGrants, customers, sessions>>

-----------------------------------------------------------------------------
\* Any query may fail: a unique index refuses a row, or the database is gone.
RequestDies(r) ==
    /\ userReq[r].pc # "idle"
    /\ Answer(r)
    /\ UNCHANGED <<account, roleGrants, customers, sessions>>

AccountsStart(r) ==
    \/ \E e \in Emails, n \in Roles, S \in Selections, g \in LoginAgents \cup {NoAgent} :
          AddUser(r, e, n, S, g)
    \/ \E n \in Roles, S \in Selections : AddRole(r, n, S) \/ SaveRole(r, n, S)
    \/ \E u \in Managed :
          OpenEditUser(r, u) \/ LoginRead(r, u) \/ ForgotRead(r, u) \/ SetPasswordRead(r, u)

AccountsContinue(r) ==
    \/ CreateCheckEmail(r) \/ CreateCheckAgent(r) \/ CreateInsert(r)
    \/ SaveUser(r)
    \/ PatchReadTarget(r) \/ PatchCheckAgent(r) \/ PatchCheckEmail(r) \/ PatchUpdate(r)
    \/ PatchDeleteRoles(r) \/ PatchCreateRole(r)
    \/ PatchDeleteSpecial(r) \/ PatchCreateSpecial(r)
    \/ RoleCreate(r) \/ RoleDeleteGrants(r) \/ RoleCreateGrants(r)
    \/ LoginAnswer(r) \/ ForgotUpdate(r) \/ SetPasswordUpdate(r)
    \/ RequestDies(r)

AccountsNext == \E r \in UserReqs : AccountsStart(r) \/ AccountsContinue(r)

AccountsSpec == AccountsInit /\ [][AccountsNext]_accountsVars

-----------------------------------------------------------------------------
(* What the handlers guarantee.                                              *)

AllGrants == {roleGrants[n] : n \in DOMAIN roleGrants} \cup {account[u].special : u \in Users}

\* Nobody holds a sub-permission without the one its first part is: role grants
\* and special permissions are replaced by a delete and an insert that other
\* replacements, failures and edits from stale dialogs come between, and are
\* the closed sets of one or more of them, or nothing.
GrantsHaveTheirPage ==
    \A grants \in AllGrants : \A page \in UserPages : grants \cap Under(page) # {} => page \in grants

\* Nobody is shut out: an account has a password, or a link (which may have
\* expired) to set one, whichever of the invitation, the reset, the change of
\* e-mail or of the status, the forgotten password and the use of an earlier
\* link wrote last.
AccountsCanBeEntered == \A u \in Users : Exists(u) => account[u].password \/ account[u].link

-----------------------------------------------------------------------------
(* What comments of the code say, and the code does not keep.                *)

\* "granting any of its sub-permissions ("MANAGE_USERS.ADD_USER") automatically
\* grants the parent too, so the grantee can actually reach the page it lives on"
\* (users.js:44-47): the page of the codes of three parts is that of two, which
\* App.jsx:137 and catalog.js:266 ask for.
GrantsReachTheirPage ==
    /\ GrantsHaveTheirPage
    /\ \A grants \in AllGrants : grants \cap ProductActions # {} => ProductPage \in grants

\* "Replace the role's permission set entirely: drop whatever isn't in the new
\* list, add whatever's newly checked" (users.js:497-498): two that replace it at
\* once may leave what both had checked.
RolesHoldOneSelection ==
    \A n \in DOMAIN roleGrants :
        roleGrants[n] \in {{}, Codes} \cup {WithPageAccess(S) : S \in Selections}

\* Only whoever has yet to use a link awaits it: the handler takes the status of
\* one that awaits verification as it takes any other, with the password left.
AwaitingAccountsHaveNoPassword ==
    \A u \in Users : account[u].status = "AWAITING_EMAIL_VERIFICATION" => ~account[u].password

\* "An INDIVIDUAL agent is still a strictly 1:1 login" (users.js:302).
IndividualAgentHasOneLogin ==
    \A u, w \in Users :
        Exists(u) /\ Exists(w) /\ account[u].agent = account[w].agent
        /\ account[u].agent \in Individuals => u = w

\* An account is verified by the link that was mailed to it; the edit dialog
\* shows one that still awaits it as ACTIVE and saves it so.
ActiveAccountsAreVerified ==
    \A u \in Users : account[u].status = "ACTIVE" => account[u].password

\* A user is given one role.
UsersHaveOneRole == \A u \in Users : Exists(u) => Cardinality(account[u].roles) = 1
================================================================================
