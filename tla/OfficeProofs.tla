------------------------------ MODULE OfficeProofs ------------------------------
(***************************************************************************)
(* What the office's records guarantee, for any users, roles, products,     *)
(* vehicles and prices: accounts whose grants bring their page and which can *)
(* be entered, a catalog nothing of which is left under what was deleted,   *)
(* the products page that sends what it shows, vehicles with one owner, a    *)
(* dialog of a coverage that closes once all of it is saved, and a form, a   *)
(* server and a reopened quotation that agree on what a filing is charged.   *)
(***************************************************************************)
EXTENDS UserAccounts, ProductCatalog, VehicleOwnership, ProductsPage, PricingEditor, CoveragePricing, Sums,
        FiniteSetTheorems, TLAPS

-----------------------------------------------------------------------------
(* Accounts: the inductive invariant.                                        *)

AccountStatuses == {"NONE", "ACTIVE", "INACTIVE", "SUSPENDED", "AWAITING_EMAIL_VERIFICATION"}

AccountType ==
    [status : AccountStatuses, email : Emails \cup {NoEmail}, password : BOOLEAN, link : BOOLEAN,
     roles : SUBSET Roles, special : SUBSET Codes, agent : LoginAgents \cup {NoAgent}]

BodyType ==
    [user : Users, email : Emails \cup {NoEmail}, status : AccountStatuses, role : Roles,
     special : SUBSET Codes, reset : BOOLEAN, agent : LoginAgents \cup {NoAgent}]

UserSteps ==
    {"idle", "createEmail", "createAgent", "createInsert", "editing", "patchTarget", "patchAgent",
     "patchEmail", "patchUpdate", "roleDelete", "roleCreate", "specialDelete", "specialCreate",
     "newRole", "setRoleDelete", "setRoleCreate", "login", "forgot", "setPassword"}

UserRequestType == [pc : UserSteps, body : BodyType, was : Emails \cup {NoEmail}]

AccountsType ==
    /\ account \in [Users -> AccountType]
    /\ roleGrants \in [DOMAIN roleGrants -> SUBSET Codes] /\ DOMAIN roleGrants \subseteq Roles
    /\ userReq \in [UserReqs -> UserRequestType]

\* A set of permissions with a sub-permission has its page.
PagesOf(grants) == \A p \in UserPages : grants \cap Under(p) # {} => p \in grants

\* An account has a password or a link to set one.
CanBeEntered(row) == row.status # "NONE" => row.password \/ row.link

EditSteps == {"editing", "patchTarget", "patchAgent", "patchEmail", "patchUpdate"}

\* An edit is of an account there is, and leaves it one.
EditsAnAccount(q, rows) ==
    q.pc \in EditSteps => rows[q.body.user].status # "NONE" /\ q.body.status # "NONE"

AccountsInv ==
    /\ AccountsType
    /\ \A n \in DOMAIN roleGrants : PagesOf(roleGrants[n])
    /\ \A u \in Users : PagesOf(account[u].special)
    /\ AccountsCanBeEntered
    /\ \A r \in UserReqs : EditsAnAccount(userReq[r], account)

\* What was ticked is sent with the pages it is on.
LEMMA WithPageAccessHasPages ==
    ASSUME NEW S \in SUBSET Codes
    PROVE  WithPageAccess(S) \in SUBSET Codes /\ PagesOf(WithPageAccess(S))
BY DEF WithPageAccess, PagesOf, Codes, SubCodes, Under, UserPages, UserActions, RoleActions, ProductPage, ProductActions

\* Two sets that have their pages have them together.
LEMMA PagesOfUnion ==
    ASSUME NEW S, NEW T, PagesOf(S), PagesOf(T) PROVE PagesOf(S \cup T)
BY DEF PagesOf

\* Nothing needs no page.
LEMMA PagesOfNone == PagesOf({})
BY DEF PagesOf

\* All there are have theirs.
LEMMA PagesOfCodes == PagesOf(Codes)
BY DEF PagesOf, Codes, UserPages

\* The accounts the server starts with are sound.
LEMMA AccountsStartSound == AccountsInit => AccountsInv
<1> SUFFICES ASSUME AccountsInit PROVE AccountsInv
  OBVIOUS
<1>b. Body \in BodyType
  BY AccountsAssumption DEF Body, BodyType, AccountStatuses
<1>r. NoRequest \in UserRequestType /\ NoRequest.pc = "idle"
  BY <1>b DEF NoRequest, UserRequestType, UserSteps
<1>n. NoAccount \in AccountType /\ NoAccount.special = {} /\ NoAccount.status = "NONE"
  BY DEF NoAccount, AccountType, AccountStatuses
<1>a. /\ account \in [Users -> AccountType]
      /\ \A u \in Users : account[u].special = {} /\ (account[u].status = "NONE" \/ account[u].password)
  BY <1>n, AccountsAssumption DEF AccountsInit, AccountType, AccountStatuses
<1>g. roleGrants \in [{AdminRole} -> SUBSET Codes] /\ DOMAIN roleGrants = {AdminRole}
      /\ roleGrants[AdminRole] = Codes
  BY DEF AccountsInit
<1>t. AccountsType
  BY <1>a, <1>g, <1>r, AccountsAssumption DEF AccountsType, AccountsInit
<1> QED
  BY <1>a, <1>g, <1>r, <1>t, PagesOfNone, PagesOfCodes
     DEF AccountsInv, AccountsInit, EditsAnAccount, EditSteps, AccountsCanBeEntered, Exists

-----------------------------------------------------------------------------
(* A request goes on.                                                        *)

\* What a step of a request leaves of the invariant when it writes no row.
LEMMA RequestOnly ==
    ASSUME AccountsInv, NEW r \in UserReqs, NEW q \in UserRequestType, EditsAnAccount(q, account),
           userReq' = [userReq EXCEPT ![r] = q], UNCHANGED <<account, roleGrants>>
    PROVE  AccountsInv'
<1>1. userReq' \in [UserReqs -> UserRequestType]
  BY DEF AccountsInv, AccountsType
<1>2. AccountsType'
  BY <1>1 DEF AccountsInv, AccountsType
<1>3. \A s \in UserReqs : EditsAnAccount(userReq'[s], account')
  BY DEF AccountsInv, AccountsType
<1> QED
  BY <1>2, <1>3 DEF AccountsInv, AccountsCanBeEntered, Exists

\* A request that is not under way holds nothing.
LEMMA NoRequestSound == NoRequest \in UserRequestType /\ NoRequest.pc \notin EditSteps /\ Body \in BodyType
<1>b. Body \in BodyType
  BY AccountsAssumption DEF Body, BodyType, AccountStatuses
<1> QED
  BY <1>b DEF NoRequest, UserRequestType, UserSteps, EditSteps

\* A step only moves on to another one.
LEMMA MovesOn ==
    ASSUME AccountsInv, NEW r \in UserReqs, NEW step \in UserSteps,
           step \in EditSteps => userReq[r].pc \in EditSteps
    PROVE  /\ [userReq[r] EXCEPT !.pc = step] \in UserRequestType
           /\ EditsAnAccount([userReq[r] EXCEPT !.pc = step], account)
           /\ Then(r, step) => userReq' = [userReq EXCEPT ![r] = [userReq[r] EXCEPT !.pc = step]]
<1>1. userReq[r] \in UserRequestType /\ EditsAnAccount(userReq[r], account)
  BY DEF AccountsInv, AccountsType
<1>2. [userReq[r] EXCEPT !.pc = step] \in UserRequestType
  BY <1>1 DEF UserRequestType
<1>3. EditsAnAccount([userReq[r] EXCEPT !.pc = step], account)
  BY <1>1 DEF EditsAnAccount, UserRequestType
<1>4. Then(r, step) => userReq' = [userReq EXCEPT ![r] = [userReq[r] EXCEPT !.pc = step]]
  BY DEF Then
<1> QED
  BY <1>2, <1>3, <1>4

\* An account may be written as any sound one.
LEMMA AccountWritten ==
    ASSUME AccountsInv, NEW r \in UserReqs, NEW q \in UserRequestType, EditsAnAccount(q, account),
           NEW u \in Users, NEW row \in AccountType, PagesOf(row.special), CanBeEntered(row),
           row.status = "NONE" => account[u].status = "NONE",
           account' = [account EXCEPT ![u] = row], userReq' = [userReq EXCEPT ![r] = q],
           UNCHANGED roleGrants
    PROVE  AccountsInv'
<1>1. AccountsType'
  BY DEF AccountsInv, AccountsType
<1>3. \A w \in Users : account'[w] = IF w = u THEN row ELSE account[w]
  BY DEF AccountsInv, AccountsType
<1>2. \A s \in UserReqs : EditsAnAccount(userReq'[s], account')
  <2> TAKE s \in UserReqs
  <2>1. userReq'[s] \in UserRequestType /\ EditsAnAccount(userReq'[s], account)
    BY DEF AccountsInv, AccountsType
  <2>2. userReq'[s].body.user \in Users
    BY <2>1 DEF UserRequestType, BodyType
  <2> QED
    BY <2>1, <2>2, <1>3 DEF EditsAnAccount
<1>4. \A w \in Users : PagesOf(account'[w].special)
  BY <1>3 DEF AccountsInv
<1>5. AccountsCanBeEntered'
  BY <1>3 DEF AccountsInv, AccountsCanBeEntered, CanBeEntered, Exists
<1>6. \A n \in DOMAIN roleGrants' : PagesOf(roleGrants'[n])
  BY DEF AccountsInv
<1> QED
  BY <1>1, <1>2, <1>4, <1>5, <1>6 DEF AccountsInv, PagesOf

\* A role may be granted what has its pages.
LEMMA GrantsWritten ==
    ASSUME AccountsInv, NEW r \in UserReqs, NEW q \in UserRequestType, EditsAnAccount(q, account),
           roleGrants' \in [DOMAIN roleGrants' -> SUBSET Codes], DOMAIN roleGrants' \subseteq Roles,
           \A n \in DOMAIN roleGrants' : PagesOf(roleGrants'[n]),
           userReq' = [userReq EXCEPT ![r] = q], UNCHANGED account
    PROVE  AccountsInv'
<1>1. AccountsType'
  BY DEF AccountsInv, AccountsType
<1>2. \A s \in UserReqs : EditsAnAccount(userReq'[s], account')
  BY DEF AccountsInv, AccountsType
<1> QED
  BY <1>1, <1>2 DEF AccountsInv, PagesOf, AccountsCanBeEntered, Exists

-----------------------------------------------------------------------------
(* Each step.                                                                *)

\* A handler is entered with a body of the fields it takes.
LEMMA BeginsSoundly ==
    ASSUME AccountsInv, NEW r \in UserReqs, NEW step \in UserSteps, NEW body \in BodyType,
           step \in EditSteps => body.status # "NONE" /\ Exists(body.user), Begin(r, step, body)
    PROVE  AccountsInv'
<1> DEFINE q == [NoRequest EXCEPT !.pc = step, !.body = body]
<1>1. q \in UserRequestType /\ EditsAnAccount(q, account)
  BY NoRequestSound DEF UserRequestType, EditsAnAccount, Exists
<1>2. userReq' = [userReq EXCEPT ![r] = q] /\ UNCHANGED <<account, roleGrants>>
  BY DEF Begin
<1> HIDE DEF q
<1> QED
  BY <1>1, <1>2, RequestOnly

\* A request begins, or a dialog is opened: no row is written.
LEMMA StartKeepsAccounts ==
    ASSUME AccountsInv, NEW r \in UserReqs, AccountsStart(r) PROVE AccountsInv'
<1>0. /\ Body \in BodyType /\ Body.status = "ACTIVE"
      /\ Selections \subseteq SUBSET Codes /\ Managed \subseteq Users
      /\ account \in [Users -> AccountType]
  BY NoRequestSound, AccountsAssumption DEF Body, Codes, AccountsInv, AccountsType
<1>1. ASSUME NEW e \in Emails, NEW n \in Roles, NEW S \in Selections, NEW g \in LoginAgents \cup {NoAgent},
             AddUser(r, e, n, S, g)
      PROVE  AccountsInv'
  <2> DEFINE body == [Body EXCEPT !.email = e, !.role = n, !.special = S, !.agent = g]
  <2>1. body \in BodyType
    BY <1>0 DEF BodyType
  <2>2. Begin(r, "createEmail", body)
    BY <1>1 DEF AddUser
  <2> HIDE DEF body
  <2> QED
    BY <2>1, <2>2, BeginsSoundly DEF UserSteps, EditSteps
<1>2. ASSUME NEW n \in Roles, NEW S \in Selections, AddRole(r, n, S) \/ SaveRole(r, n, S)
      PROVE  AccountsInv'
  <2> DEFINE body == [Body EXCEPT !.role = n, !.special = S]
  <2>1. body \in BodyType
    BY <1>0 DEF BodyType
  <2>2. Begin(r, "newRole", body) \/ Begin(r, "setRoleDelete", body)
    BY <1>2 DEF AddRole, SaveRole
  <2> HIDE DEF body
  <2> QED
    BY <2>1, <2>2, BeginsSoundly DEF UserSteps, EditSteps
<1>3. ASSUME NEW u \in Managed, OpenEditUser(r, u) PROVE AccountsInv'
  <2> DEFINE a == account[u]
  <2>1. a \in AccountType /\ DOMAIN roleGrants \subseteq Roles
    BY <1>0 DEF AccountsInv, AccountsType
  <2>2. StatusOffered(a.status) \in AccountStatuses \ {"NONE"} /\ Exists(u)
    BY <2>1, <1>3 DEF StatusOffered, AccountType, AccountStatuses, OpenEditUser, Exists
  <2>3. PICK n \in IF a.roles = {} THEN DOMAIN roleGrants ELSE a.roles :
          Begin(r, "editing",
                [user |-> u, email |-> a.email, status |-> StatusOffered(a.status),
                 role |-> n, special |-> a.special \ UserPages, reset |-> FALSE, agent |-> a.agent])
    BY <1>3 DEF OpenEditUser
  <2>4. n \in Roles
    BY <2>1, <2>3 DEF AccountType
  <2> DEFINE body == [user |-> u, email |-> a.email, status |-> StatusOffered(a.status),
                      role |-> n, special |-> a.special \ UserPages, reset |-> FALSE, agent |-> a.agent]
  <2>5. body \in BodyType /\ body.status # "NONE" /\ Exists(body.user)
    BY <2>1, <2>2, <2>4, <1>0 DEF AccountType, BodyType
  <2>6. Begin(r, "editing", body)
    BY <2>3
  <2> HIDE DEF body, a
  <2> QED
    BY <2>5, <2>6, BeginsSoundly DEF UserSteps
<1>4. ASSUME NEW u \in Managed, LoginRead(r, u) \/ ForgotRead(r, u) \/ SetPasswordRead(r, u)
      PROVE  AccountsInv'
  <2> DEFINE plain == [Body EXCEPT !.user = u]
             login == [Body EXCEPT !.user = u, !.status = account[u].status]
  <2>1. plain \in BodyType /\ login \in BodyType
    BY <1>0 DEF BodyType, AccountType
  <2>2. Begin(r, "login", login) \/ Begin(r, "forgot", plain) \/ Begin(r, "setPassword", plain)
    BY <1>4 DEF LoginRead, ForgotRead, SetPasswordRead
  <2> HIDE DEF plain, login
  <2> QED
    BY <2>1, <2>2, BeginsSoundly DEF UserSteps, EditSteps
<1> QED
  BY <1>1, <1>2, <1>3, <1>4 DEF AccountsStart

\* A request that is answered holds nothing any more.
LEMMA AnswerKeepsAccounts ==
    ASSUME AccountsInv, NEW r \in UserReqs, Answer(r), UNCHANGED <<account, roleGrants>>
    PROVE  AccountsInv'
BY NoRequestSound, RequestOnly DEF Answer, EditsAnAccount

\* A request goes on with what it was asked for.
LEMMA ThenKeepsAccounts ==
    ASSUME AccountsInv, NEW r \in UserReqs, NEW step \in UserSteps,
           step \in EditSteps => userReq[r].pc \in EditSteps,
           Then(r, step), UNCHANGED <<account, roleGrants>>
    PROVE  AccountsInv'
<1> DEFINE q == [userReq[r] EXCEPT !.pc = step]
<1>1. q \in UserRequestType /\ EditsAnAccount(q, account) /\ userReq' = [userReq EXCEPT ![r] = q]
  BY MovesOn
<1> HIDE DEF q
<1> QED
  BY <1>1, RequestOnly

\* The checks of a new user and of an edit.
LEMMA ChecksKeepAccounts ==
    ASSUME AccountsInv, NEW r \in UserReqs,
           \/ CreateCheckEmail(r) \/ CreateCheckAgent(r) \/ PatchCheckAgent(r) \/ PatchCheckEmail(r)
           \/ LoginAnswer(r) \/ RequestDies(r)
    PROVE  AccountsInv'
<1>1. /\ UNCHANGED <<account, roleGrants>>
      /\ \/ Answer(r) \/ Then(r, "createAgent") \/ Then(r, "createInsert")
         \/ userReq[r].pc \in EditSteps /\ (Then(r, "patchEmail") \/ Then(r, "patchUpdate"))
  BY DEF CreateCheckEmail, CreateCheckAgent, PatchCheckAgent, PatchCheckEmail, LoginAnswer, RequestDies, EditSteps
<1> QED
  BY <1>1, AnswerKeepsAccounts, ThenKeepsAccounts DEF UserSteps, EditSteps

\* What the administrator changes is of the types of the form.
LEMMA EditedIsABody ==
    ASSUME AccountsInv, NEW d \in BodyType, d.status # "NONE", NEW b \in Edited(d)
    PROVE  b \in BodyType /\ b.status # "NONE" /\ b.user = d.user
<1>0. Selections \subseteq SUBSET Codes /\ DOMAIN roleGrants \subseteq Roles
      /\ Fields \subseteq {"reset", "email", "status", "role", "special", "agent"}
  BY AccountsAssumption DEF Codes, AccountsInv, AccountsType
<1>1. CASE b = d
  BY <1>1
<1>2. ASSUME NEW f \in Fields,
             b \in CASE f = "reset"   -> {[d EXCEPT !.reset = TRUE]}
                    [] f = "email"   -> {[d EXCEPT !.email = e] : e \in Emails}
                    [] f = "status"  -> {[d EXCEPT !.status = s] : s \in UserStatuses}
                    [] f = "role"    -> {[d EXCEPT !.role = n] : n \in DOMAIN roleGrants}
                    [] f = "special" -> {[d EXCEPT !.special = S] : S \in Selections}
                    [] f = "agent"   -> {[d EXCEPT !.agent = g] : g \in LoginAgents \cup {NoAgent}}
      PROVE  b \in BodyType /\ b.status # "NONE" /\ b.user = d.user
  <2>1. CASE f = "reset"
    BY <1>2, <2>1 DEF BodyType
  <2>2. CASE f = "email"
    BY <1>2, <2>2 DEF BodyType
  <2>3. CASE f = "status"
    BY <1>2, <2>3 DEF BodyType, AccountStatuses, UserStatuses
  <2>4. CASE f = "role"
    BY <1>2, <1>0, <2>4 DEF BodyType
  <2>5. CASE f = "special"
    BY <1>2, <1>0, <2>5 DEF BodyType
  <2>6. CASE f = "agent"
    BY <1>2, <2>6 DEF BodyType
  <2> QED
    BY <1>0, <2>1, <2>2, <2>3, <2>4, <2>5, <2>6
<1> QED
  BY <1>1, <1>2 DEF Edited

\* What is chosen in the dialog is asked for.
LEMMA SaveUserKeepsAccounts ==
    ASSUME AccountsInv, NEW r \in UserReqs, SaveUser(r) PROVE AccountsInv'
<1>1. userReq[r] \in UserRequestType /\ EditsAnAccount(userReq[r], account) /\ userReq[r].pc = "editing"
      /\ UNCHANGED <<account, roleGrants>>
  BY DEF AccountsInv, AccountsType, SaveUser
<1>2. PICK b \in Edited(userReq[r].body) : userReq' = [userReq EXCEPT ![r].pc = "patchTarget", ![r].body = b]
  BY DEF SaveUser
<1>3. b \in BodyType /\ b.status # "NONE" /\ b.user = userReq[r].body.user
  BY <1>1, EditedIsABody DEF UserRequestType, EditsAnAccount, EditSteps
<1> DEFINE q == [userReq[r] EXCEPT !.pc = "patchTarget", !.body = b]
<1>4. q \in UserRequestType /\ EditsAnAccount(q, account)
  BY <1>1, <1>3 DEF UserRequestType, UserSteps, EditsAnAccount, EditSteps
<1>5. userReq' = [userReq EXCEPT ![r] = q]
  BY <1>2
<1> HIDE DEF q
<1> QED
  BY <1>1, <1>4, <1>5, RequestOnly

\* The checks of a change read rows, and write none.
LEMMA ReadTargetKeepsAccounts ==
    ASSUME AccountsInv, NEW r \in UserReqs, PatchReadTarget(r) PROVE AccountsInv'
<1>1. userReq[r] \in UserRequestType /\ EditsAnAccount(userReq[r], account) /\ userReq[r].pc = "patchTarget"
      /\ UNCHANGED <<account, roleGrants>> /\ account \in [Users -> AccountType]
  BY DEF AccountsInv, AccountsType, PatchReadTarget
<1> DEFINE q == [userReq[r] EXCEPT !.pc = "patchAgent", !.was = account[userReq[r].body.user].email]
<1>2. q \in UserRequestType /\ EditsAnAccount(q, account)
  BY <1>1 DEF UserRequestType, UserSteps, BodyType, AccountType, EditsAnAccount, EditSteps
<1>3. userReq' = [userReq EXCEPT ![r] = q]
  BY DEF PatchReadTarget
<1> HIDE DEF q
<1> QED
  BY <1>1, <1>2, <1>3, RequestOnly

\* What is written to a row of its fields, one or more at a time.
LEMMA RowsWrittenAreAccounts ==
    ASSUME NEW a \in AccountType, PagesOf(a.special), CanBeEntered(a),
           NEW R \in SUBSET Roles, NEW S \in SUBSET Codes, PagesOf(S)
    PROVE  /\ [a EXCEPT !.roles = R] \in AccountType
           /\ PagesOf([a EXCEPT !.roles = R].special) /\ CanBeEntered([a EXCEPT !.roles = R])
           /\ [a EXCEPT !.special = S] \in AccountType
           /\ PagesOf([a EXCEPT !.special = S].special) /\ CanBeEntered([a EXCEPT !.special = S])
           /\ [a EXCEPT !.link = TRUE] \in AccountType
           /\ PagesOf([a EXCEPT !.link = TRUE].special) /\ CanBeEntered([a EXCEPT !.link = TRUE])
           /\ Verified(a) \in AccountType /\ PagesOf(Verified(a).special) /\ CanBeEntered(Verified(a))
           /\ Unverified(a) \in AccountType /\ PagesOf(Unverified(a).special) /\ CanBeEntered(Unverified(a))
           /\ [a EXCEPT !.roles = R].status = a.status /\ [a EXCEPT !.special = S].status = a.status
<1>1. [a EXCEPT !.roles = R] \in AccountType /\ [a EXCEPT !.special = S] \in AccountType
  BY DEF AccountType
<1>2. [a EXCEPT !.link = TRUE] \in AccountType
  BY DEF AccountType
<1>3. Verified(a) \in AccountType
  BY DEF AccountType, Verified, AccountStatuses
<1>4. Unverified(a) \in AccountType
  BY DEF AccountType, Unverified, AccountStatuses
<1>5. /\ [a EXCEPT !.roles = R].special = a.special /\ [a EXCEPT !.special = S].special = S
      /\ [a EXCEPT !.link = TRUE].special = a.special
      /\ Verified(a).special = a.special /\ Unverified(a).special = a.special
  BY DEF AccountType, Verified, Unverified
<1>11. [a EXCEPT !.roles = R].status = a.status /\ [a EXCEPT !.special = S].status = a.status
  BY DEF AccountType
<1>6. CanBeEntered([a EXCEPT !.roles = R])
  BY DEF AccountType, CanBeEntered
<1>7. CanBeEntered([a EXCEPT !.special = S])
  BY DEF AccountType, CanBeEntered
<1>8. CanBeEntered([a EXCEPT !.link = TRUE])
  BY DEF AccountType, CanBeEntered
<1>9. CanBeEntered(Verified(a))
  BY DEF AccountType, CanBeEntered, Verified
<1>10. CanBeEntered(Unverified(a))
  BY DEF AccountType, CanBeEntered, Unverified
<1> QED
  BY <1>1, <1>2, <1>3, <1>4, <1>5, <1>6, <1>7, <1>8, <1>9, <1>10, <1>11

\* A row that is written, and the request answered or moved on.
LEMMA RowThenStep ==
    ASSUME AccountsInv, NEW r \in UserReqs, NEW u \in Users, NEW row \in AccountType,
           PagesOf(row.special), CanBeEntered(row), row.status = "NONE" => account[u].status = "NONE",
           account' = [account EXCEPT ![u] = row], UNCHANGED roleGrants,
           Answer(r) \/ \E step \in UserSteps \ EditSteps : Then(r, step)
    PROVE  AccountsInv'
<1>1. CASE Answer(r)
  BY <1>1, NoRequestSound, AccountWritten DEF Answer, EditsAnAccount
<1>2. ASSUME NEW step \in UserSteps \ EditSteps, Then(r, step) PROVE AccountsInv'
  <2> DEFINE q == [userReq[r] EXCEPT !.pc = step]
  <2>1. q \in UserRequestType /\ EditsAnAccount(q, account) /\ userReq' = [userReq EXCEPT ![r] = q]
    BY <1>2, MovesOn
  <2> HIDE DEF q
  <2> QED
    BY <2>1, AccountWritten
<1> QED
  BY <1>1, <1>2

\* A row, and a request, as the invariant has them.
LEMMA RowOf ==
    ASSUME AccountsInv, NEW r \in UserReqs, NEW u \in Users
    PROVE  /\ account[u] \in AccountType /\ PagesOf(account[u].special)
           /\ CanBeEntered(account[u])
           /\ userReq[r] \in UserRequestType /\ EditsAnAccount(userReq[r], account) /\ userReq[r].body.user \in Users
BY DEF AccountsInv, AccountsType, AccountsCanBeEntered, UserRequestType, BodyType, CanBeEntered, Exists

\* A new account is inserted: active, or awaiting the link it is given.
LEMMA CreateInsertKeepsAccounts ==
    ASSUME AccountsInv, NEW r \in UserReqs, CreateInsert(r) PROVE AccountsInv'
<1> DEFINE b == userReq[r].body
           row == [status |-> "AWAITING_EMAIL_VERIFICATION", email |-> b.email,
                   password |-> FALSE, link |-> TRUE, roles |-> {b.role},
                   special |-> WithPageAccess(b.special), agent |-> b.agent]
<1>1. b \in BodyType
  BY DEF AccountsInv, AccountsType, UserRequestType
<1>2. row \in AccountType /\ PagesOf(row.special) /\ CanBeEntered(row) /\ row.status # "NONE"
  BY <1>1, WithPageAccessHasPages DEF BodyType, AccountType, AccountStatuses, CanBeEntered
<1>3. PICK u \in Users : account' = [account EXCEPT ![u] = row]
  BY DEF CreateInsert
<1>4. Answer(r) /\ UNCHANGED roleGrants
  BY DEF CreateInsert
<1> HIDE DEF row, b
<1> QED
  BY <1>2, <1>3, <1>4, RowThenStep

\* The row of an account is updated; a password that is taken away leaves a link.
LEMMA PatchUpdateKeepsAccounts ==
    ASSUME AccountsInv, NEW r \in UserReqs, PatchUpdate(r) PROVE AccountsInv'
<1> DEFINE q == userReq[r]
           u == q.body.user
           left == [NoRequest EXCEPT !.pc = "roleDelete", !.body = Remaining(q.body)]
           named == [account[u] EXCEPT !.agent = q.body.agent, !.status = q.body.status,
                                       !.email = IF ChangesEmail(q) THEN q.body.email ELSE @]
           row == IF ChangesEmail(q) \/ q.body.reset THEN Unverified(named) ELSE named
<1>1. /\ u \in Users /\ account[u] \in AccountType /\ PagesOf(account[u].special)
      /\ CanBeEntered(account[u]) /\ account[u].status # "NONE"
      /\ q.body \in BodyType /\ q.body.status # "NONE"
  <2>1. q.pc \in EditSteps
    BY DEF PatchUpdate, EditSteps
  <2> QED
    BY <2>1, RowOf DEF EditsAnAccount, UserRequestType, AccountsInv, AccountsType, BodyType
<1>2. /\ named \in AccountType /\ named.special = account[u].special /\ named.status # "NONE"
      /\ named.password = account[u].password /\ named.link = account[u].link
  BY <1>1 DEF AccountType, BodyType
<1>3. account' = [account EXCEPT ![u] = row] /\ userReq' = [userReq EXCEPT ![r] = left] /\ UNCHANGED roleGrants
  BY DEF PatchUpdate
<1>4. left \in UserRequestType /\ EditsAnAccount(left, account)
  BY <1>1, NoRequestSound DEF Remaining, BodyType, UserRequestType, UserSteps, EditsAnAccount, EditSteps
<1> HIDE DEF named, q, u, left
<1>5. PagesOf(named.special) /\ CanBeEntered(named)
  BY <1>1, <1>2 DEF CanBeEntered
<1>6. /\ Unverified(named) \in AccountType /\ PagesOf(Unverified(named).special) /\ CanBeEntered(Unverified(named))
      /\ Unverified(named).status # "NONE"
  BY <1>2, <1>5, RowsWrittenAreAccounts, {} \in SUBSET Roles, {} \in SUBSET Codes, PagesOfNone
     DEF Unverified, AccountType
<1>7. row \in AccountType /\ PagesOf(row.special) /\ CanBeEntered(row) /\ row.status # "NONE"
  BY <1>2, <1>5, <1>6
<1> HIDE DEF row
<1> QED
  BY <1>1, <1>3, <1>4, <1>7, AccountWritten

\* The role and the special permissions are replaced: deleted, then inserted.
LEMMA ReplacementsKeepAccounts ==
    ASSUME AccountsInv, NEW r \in UserReqs,
           PatchDeleteRoles(r) \/ PatchCreateRole(r) \/ PatchDeleteSpecial(r) \/ PatchCreateSpecial(r)
    PROVE  AccountsInv'
<1> DEFINE b == userReq[r].body
           a == account[b.user]
           held == WithPageAccess(b.special)
           more == a.roles \cup {b.role}
           given == a.special \cup held
<1>1. b \in BodyType /\ b.user \in Users /\ a \in AccountType /\ PagesOf(a.special) /\ CanBeEntered(a)
  <2>1. b \in BodyType /\ b.user \in Users
    BY DEF AccountsInv, AccountsType, UserRequestType, BodyType
  <2> QED
    BY <2>1, RowOf
<1>2. more \in SUBSET Roles /\ given \in SUBSET Codes /\ PagesOf(given)
  <2>1. b.role \in Roles /\ b.special \in SUBSET Codes /\ a.roles \in SUBSET Roles /\ a.special \in SUBSET Codes
    BY <1>1 DEF BodyType, AccountType
  <2>2. held \in SUBSET Codes /\ PagesOf(held)
    BY <2>1, WithPageAccessHasPages
  <2> QED
    BY <2>1, <2>2, <1>1, PagesOfUnion
<1>3. /\ \/ account' = [account EXCEPT ![b.user] = [a EXCEPT !.roles = {}]]
         \/ account' = [account EXCEPT ![b.user] = [a EXCEPT !.roles = more]]
         \/ account' = [account EXCEPT ![b.user] = [a EXCEPT !.special = {}]]
         \/ account' = [account EXCEPT ![b.user] = [a EXCEPT !.special = given]]
      /\ UNCHANGED roleGrants
  BY DEF PatchDeleteRoles, PatchCreateRole, PatchDeleteSpecial, PatchCreateSpecial
<1>4. Answer(r) \/ \E step \in UserSteps \ EditSteps : Then(r, step)
  BY DEF PatchDeleteRoles, PatchCreateRole, PatchDeleteSpecial, PatchCreateSpecial, UserSteps, EditSteps
<1> HIDE DEF a, b, held, more, given
<1>5. \A R \in {{}, more} : /\ [a EXCEPT !.roles = R] \in AccountType
                            /\ PagesOf([a EXCEPT !.roles = R].special) /\ CanBeEntered([a EXCEPT !.roles = R])
                            /\ [a EXCEPT !.roles = R].status = a.status
  BY <1>1, <1>2, RowsWrittenAreAccounts
<1>6. \A S \in {{}, given} : /\ [a EXCEPT !.special = S] \in AccountType
                             /\ PagesOf([a EXCEPT !.special = S].special) /\ CanBeEntered([a EXCEPT !.special = S])
                             /\ [a EXCEPT !.special = S].status = a.status
  BY <1>1, <1>2, PagesOfNone, RowsWrittenAreAccounts
<1>7. \E row \in AccountType :
          PagesOf(row.special) /\ CanBeEntered(row) /\ row.status = a.status /\ account' = [account EXCEPT ![b.user] = row]
  BY <1>3, <1>5, <1>6
<1>8. a.status = account[b.user].status
  BY DEF a
<1> QED
  BY <1>1, <1>3, <1>4, <1>7, <1>8, RowThenStep

\* Logging in, asking for a link and following it.
LEMMA LinksKeepAccounts ==
    ASSUME AccountsInv, NEW r \in UserReqs, ForgotUpdate(r) \/ SetPasswordUpdate(r) PROVE AccountsInv'
<1> DEFINE u == userReq[r].body.user
           a == account[u]
<1>1. u \in Users /\ a \in AccountType /\ PagesOf(a.special) /\ CanBeEntered(a)
  <2>1. u \in Users
    BY DEF AccountsInv, AccountsType, UserRequestType, BodyType
  <2> QED
    BY <2>1, RowOf
<1>2. /\ Answer(r) /\ UNCHANGED roleGrants
      /\ \/ account' = [account EXCEPT ![u] = [a EXCEPT !.link = TRUE]]
         \/ account' = [account EXCEPT ![u] = Verified(a)]
  BY DEF ForgotUpdate, SetPasswordUpdate
<1>4. a.status = account[u].status
  OBVIOUS
<1> HIDE DEF a, u
<1>3. /\ [a EXCEPT !.link = TRUE] \in AccountType
      /\ PagesOf([a EXCEPT !.link = TRUE].special) /\ CanBeEntered([a EXCEPT !.link = TRUE])
      /\ Verified(a) \in AccountType /\ PagesOf(Verified(a).special) /\ CanBeEntered(Verified(a))
      /\ [a EXCEPT !.link = TRUE].status = a.status /\ Verified(a).status = "ACTIVE"
  BY <1>1, RowsWrittenAreAccounts, {} \in SUBSET Roles, {} \in SUBSET Codes, PagesOfNone DEF Verified, AccountType
<1> QED
  BY <1>1, <1>2, <1>3, <1>4, RowThenStep

\* A role is created, or its permissions are replaced.
LEMMA RolesKeepAccounts ==
    ASSUME AccountsInv, NEW r \in UserReqs, RoleCreate(r) \/ RoleDeleteGrants(r) \/ RoleCreateGrants(r)
    PROVE  AccountsInv'
<1> DEFINE b == userReq[r].body
           held == WithPageAccess(b.special)
<1>1. b \in BodyType
  BY DEF AccountsInv, AccountsType, UserRequestType
<1>2. b.role \in Roles /\ held \in SUBSET Codes /\ PagesOf(held)
  BY <1>1, WithPageAccessHasPages DEF BodyType
<1>3. \/ roleGrants' = [n \in DOMAIN roleGrants \cup {b.role} |-> IF n = b.role THEN held ELSE roleGrants[n]]
      \/ roleGrants' = [roleGrants EXCEPT ![b.role] = {}]
      \/ roleGrants' = [roleGrants EXCEPT ![b.role] = roleGrants[b.role] \cup held]
  BY DEF RoleCreate, RoleDeleteGrants, RoleCreateGrants
<1>4. UNCHANGED account
  BY DEF RoleCreate, RoleDeleteGrants, RoleCreateGrants
<1>5. Answer(r) \/ Then(r, "setRoleCreate")
  BY DEF RoleCreate, RoleDeleteGrants, RoleCreateGrants
<1> HIDE DEF held, b
<1>6. DOMAIN roleGrants' \subseteq Roles
  BY <1>2, <1>3 DEF AccountsInv, AccountsType
<1>7. \A n \in DOMAIN roleGrants' :
          \/ roleGrants'[n] = {}
          \/ roleGrants'[n] = held
          \/ n \in DOMAIN roleGrants /\ roleGrants'[n] \in {roleGrants[n], roleGrants[n] \cup held}
  BY <1>3
<1>8. \A n \in DOMAIN roleGrants' : roleGrants'[n] \in SUBSET Codes /\ PagesOf(roleGrants'[n])
  <2> TAKE n \in DOMAIN roleGrants'
  <2>1. CASE roleGrants'[n] = {}
    BY <2>1, PagesOfNone
  <2>2. CASE roleGrants'[n] = held
    BY <2>2, <1>2
  <2>3. CASE n \in DOMAIN roleGrants /\ roleGrants'[n] \in {roleGrants[n], roleGrants[n] \cup held}
    <3>1. roleGrants[n] \in SUBSET Codes /\ PagesOf(roleGrants[n])
      BY <2>3 DEF AccountsInv, AccountsType
    <3>2. PagesOf(roleGrants[n] \cup held)
      BY <3>1, <1>2, PagesOfUnion
    <3> QED
      BY <2>3, <3>1, <3>2, <1>2
  <2> QED
    BY <1>7, <2>1, <2>2, <2>3
<1>9. roleGrants' \in [DOMAIN roleGrants' -> SUBSET Codes]
  <2>1. roleGrants' = [n \in DOMAIN roleGrants' |-> roleGrants'[n]]
    BY <1>3 DEF AccountsInv, AccountsType
  <2> QED
    BY <2>1, <1>8
<1>10. CASE Answer(r)
  BY <1>4, <1>6, <1>8, <1>9, <1>10, NoRequestSound, GrantsWritten DEF Answer, EditsAnAccount
<1>11. CASE Then(r, "setRoleCreate")
  <2> DEFINE q == [userReq[r] EXCEPT !.pc = "setRoleCreate"]
  <2>1. q \in UserRequestType /\ EditsAnAccount(q, account) /\ userReq' = [userReq EXCEPT ![r] = q]
    BY <1>11, MovesOn DEF UserSteps, EditSteps
  <2> HIDE DEF q
  <2> QED
    BY <2>1, <1>4, <1>6, <1>8, <1>9, GrantsWritten
<1> QED
  BY <1>5, <1>10, <1>11

-----------------------------------------------------------------------------
\* Every step of the accounts keeps the invariant.
LEMMA StepKeepsAccounts == AccountsInv /\ [AccountsNext]_accountsVars => AccountsInv'
<1> SUFFICES ASSUME AccountsInv, [AccountsNext]_accountsVars PROVE AccountsInv'
  OBVIOUS
<1>1. CASE UNCHANGED accountsVars
  BY <1>1 DEF accountsVars, AccountsInv, AccountsType, AccountsCanBeEntered, Exists, PagesOf
<1>2. ASSUME NEW r \in UserReqs, AccountsStart(r) \/ AccountsContinue(r) PROVE AccountsInv'
  BY <1>2, StartKeepsAccounts, ChecksKeepAccounts, SaveUserKeepsAccounts, ReadTargetKeepsAccounts,
     CreateInsertKeepsAccounts, PatchUpdateKeepsAccounts, ReplacementsKeepAccounts, LinksKeepAccounts,
     RolesKeepAccounts DEF AccountsContinue
<1> QED
  BY <1>1, <1>2 DEF AccountsNext

\* The invariant holds at all times.
LEMMA AccountsInvariance == AccountsSpec => []AccountsInv
BY AccountsStartSound, StepKeepsAccounts, PTL DEF AccountsSpec

\* For any users, roles and selections, however their replacements interleave and
\* fail: whoever is granted an action holds the page its code starts with, by the
\* role or by special permissions (routes/users.js, expandWithPageAccess).
THEOREM SubPermissionsBringTheirPage == AccountsSpec => []GrantsHaveTheirPage
<1>1. AccountsInv => GrantsHaveTheirPage
  BY DEF AccountsInv, GrantsHaveTheirPage, AllGrants, PagesOf
<1> QED
  BY <1>1, AccountsInvariance, PTL

\* For any users and whatever status is sent along: an account has a password, or
\* a link to set one by (routes/users.js, routes/auth.js).
THEOREM EveryAccountCanBeEntered == AccountsSpec => []AccountsCanBeEntered
<1>1. AccountsInv => AccountsCanBeEntered
  BY DEF AccountsInv
<1> QED
  BY <1>1, AccountsInvariance, PTL

-----------------------------------------------------------------------------
(* The catalog: the inductive invariant.                                     *)

Statuses == {None, "ACTIVE", "INACTIVE"}

\* The rows; a row that was added is under a row of the tier above.
CatalogRows ==
    /\ class \in [Classes -> Statuses]
    /\ variant \in [Variants -> [status : Statuses, class : Classes \cup {None},
                                 target : Coverages \cup {None}]]
    /\ coverage \in [Coverages -> [status : Statuses, variant : Variants \cup {None},
                                   mode : Modes \cup {None}]]
    /\ offered \subseteq Periods

BatchType ==
    [classes : SUBSET Classes, variants : SUBSET Variants, coverages : SUBSET Coverages,
     periods : SUBSET Periods]

RequestFields == {"pc", "row", "parent", "day", "mode", "table", "filled", "batch"}

\* What a request under way has read still holds, whatever the others do.
ReadStands(q) ==
    /\ DOMAIN q = RequestFields
    /\ q.pc = "createVariant" => q.row \in Variants /\ q.parent \in Classes /\ class[q.parent] = "ACTIVE"
    /\ q.pc = "createCoverage" =>
          /\ q.row \in Coverages /\ q.parent \in Variants /\ q.mode \in Modes
          /\ variant[q.parent].status = "ACTIVE"
    /\ q.pc = "setTarget" => q.row \in Variants /\ q.parent \in Coverages
    /\ q.pc = "setMode" => q.row \in Coverages /\ q.mode \in Modes
    /\ q.pc \in {"batchVariants", "batchCoverages", "batchCommit"} => q.batch \in BatchType
    /\ q.pc \in {"batchCoverages", "batchCommit"} =>
          \A v \in Variants : variant[v].class \in q.batch.classes => v \in q.batch.variants
    /\ q.pc = "batchCommit" =>
          \A c \in Coverages : coverage[c].variant \in q.batch.variants => c \in q.batch.coverages

CatalogInv ==
    /\ CatalogRows
    /\ NothingActiveUnderDeleted
    /\ \A v \in Variants : variant[v].status = "ACTIVE" => variant[v].class \in Classes
    /\ \A c \in Coverages : coverage[c].status = "ACTIVE" => coverage[c].variant \in Variants
    /\ DOMAIN catalogReq = CatalogReqs
    /\ \A r \in CatalogReqs : ReadStands(catalogReq[r])

\* A request that is not under way has read nothing.
LEMMA FreeRequestReadsNothing == FreeRequest.pc = "idle" /\ ReadStands(FreeRequest)
BY DEF FreeRequest, ReadStands, RequestFields

\* What a step of r must leave to the others: the row that one adds another under,
\* and nothing more below what one deletes.
LeavesOthers(r) ==
    \A s \in CatalogReqs \ {r} :
        LET q == catalogReq[s]
        IN  /\ q.pc = "createVariant" =>
                  \A c \in Classes : c = q.parent /\ class[c] = "ACTIVE" => class'[c] = "ACTIVE"
            /\ q.pc = "createCoverage" =>
                  \A v \in Variants :
                      v = q.parent /\ variant[v].status = "ACTIVE" => variant'[v].status = "ACTIVE"
            /\ q.pc \in Deleting =>
                  /\ \A v \in Variants :
                        variant'[v].class = variant[v].class \/ variant'[v].class \notin q.batch.classes
                  /\ \A c \in Coverages :
                        coverage'[c].variant = coverage[c].variant \/ coverage'[c].variant \notin q.batch.variants

\* Then what another request has read stands.
LEMMA OthersStand ==
    ASSUME NEW r \in CatalogReqs, NEW s \in CatalogReqs \ {r}, LeavesOthers(r), ReadStands(catalogReq[s]),
           catalogReq'[s] = catalogReq[s]
    PROVE  ReadStands(catalogReq[s])'
<1> DEFINE q == catalogReq[s]
<1>1. DOMAIN q = RequestFields
  BY DEF ReadStands
<1>2. CASE q.pc \in {"createVariant", "createCoverage"}
  BY <1>2 DEF LeavesOthers, ReadStands
<1>3. CASE q.pc \in Deleting
  <2>1. q.pc \in {"batchVariants", "batchCoverages", "batchCommit"}
    BY <1>3 DEF Deleting
  <2>2. /\ \A v \in Variants :
              variant'[v].class = variant[v].class \/ variant'[v].class \notin q.batch.classes
        /\ \A c \in Coverages :
              coverage'[c].variant = coverage[c].variant \/ coverage'[c].variant \notin q.batch.variants
    BY <1>3 DEF LeavesOthers
  <2> QED
    BY <2>1, <2>2 DEF ReadStands
<1>4. CASE q.pc \notin {"createVariant", "createCoverage"} \cup Deleting
  BY <1>4 DEF ReadStands, Deleting
<1> QED
  BY <1>2, <1>3, <1>4

\* A catalog nothing has been added to is sound.
LEMMA CatalogStartSound == CatalogInit => CatalogInv /\ Apart
<1> SUFFICES ASSUME CatalogInit PROVE CatalogInv /\ Apart
  OBVIOUS
<1>1. CatalogRows
  BY DEF CatalogInit, CatalogRows, Statuses
<1>2. /\ \A v \in Variants : variant[v].status = None
      /\ \A c \in Coverages : coverage[c].status = None
  BY DEF CatalogInit
<1>3. DOMAIN catalogReq = CatalogReqs /\ \A r \in CatalogReqs : ReadStands(catalogReq[r])
  BY FreeRequestReadsNothing DEF CatalogInit
<1>4. Apart
  BY FreeRequestReadsNothing DEF CatalogInit, Apart, Deleting
<1> QED
  BY <1>1, <1>2, <1>3, <1>4 DEF CatalogInv, NothingActiveUnderDeleted, None

\* A request that goes on, or is answered, with the rows as they are.
LEMMA RequestWithoutRows ==
    ASSUME CatalogInv, Apart, NEW r \in CatalogReqs, NEW q, ReadStands(q),
           catalogReq' = [catalogReq EXCEPT ![r] = q],
           UNCHANGED <<class, variant, coverage, offered>>
    PROVE  CatalogInv'
<1>1. DOMAIN catalogReq' = CatalogReqs /\ catalogReq'[r] = q
  BY DEF CatalogInv
<1>2. LeavesOthers(r)
  BY DEF LeavesOthers
<1>3. ReadStands(catalogReq[r])'
  BY <1>1 DEF ReadStands
<1>4. ASSUME NEW s \in CatalogReqs \ {r} PROVE ReadStands(catalogReq[s])'
  BY <1>2, OthersStand DEF CatalogInv
<1> QED
  BY <1>1, <1>3, <1>4 DEF CatalogInv, CatalogRows, NothingActiveUnderDeleted

\* A request that is answered, or was not there, after it has written.
LEMMA WrittenAndAnswered ==
    ASSUME CatalogInv, Apart, NEW r \in CatalogReqs,
           catalogReq' = [catalogReq EXCEPT ![r] = FreeRequest] \/ (catalogReq[r].pc = "idle" /\ UNCHANGED catalogReq),
           CatalogRows', NothingActiveUnderDeleted', LeavesOthers(r),
           \A v \in Variants : variant'[v].status = "ACTIVE" => variant'[v].class \in Classes,
           \A c \in Coverages : coverage'[c].status = "ACTIVE" => coverage'[c].variant \in Variants
    PROVE  CatalogInv'
<1>1. /\ DOMAIN catalogReq' = CatalogReqs
      /\ catalogReq'[r].pc = "idle" /\ DOMAIN catalogReq'[r] = RequestFields
  BY FreeRequestReadsNothing DEF CatalogInv, ReadStands
<1>2. ReadStands(catalogReq[r])'
  BY <1>1 DEF ReadStands
<1>3. ASSUME NEW s \in CatalogReqs \ {r} PROVE ReadStands(catalogReq[s])'
  <2>1. catalogReq'[s] = catalogReq[s]
    BY DEF CatalogInv
  <2> QED
    BY <2>1, OthersStand DEF CatalogInv
<1> QED
  BY <1>1, <1>2, <1>3 DEF CatalogInv

-----------------------------------------------------------------------------
\* A request begins: what it reads is so then.
LEMMA CatalogStartKeeps ==
    ASSUME CatalogInv, Apart, NEW r \in CatalogReqs, CatalogStart(r) PROVE CatalogInv'
<1>1. ASSUME NEW c \in Classes, CreateClass(r, c) PROVE CatalogInv'
  <2>1. CatalogRows'
    BY <1>1 DEF CreateClass, CatalogInv, CatalogRows, Statuses
  <2>2. \A d \in Classes : class[d] = "ACTIVE" => class'[d] = "ACTIVE"
    BY <1>1 DEF CreateClass, CatalogInv, CatalogRows, None
  <2>3. NothingActiveUnderDeleted'
    BY <1>1, <2>2 DEF CreateClass, CatalogInv, NothingActiveUnderDeleted
  <2>4. LeavesOthers(r)
    BY <1>1, <2>2 DEF CreateClass, LeavesOthers
  <2> QED
    BY <1>1, <2>1, <2>3, <2>4, WrittenAndAnswered DEF CreateClass, CatalogInv
<1>2. ASSUME NEW v \in Variants, NEW c \in Classes, ReadClass(r, v, c) PROVE CatalogInv'
  <2> DEFINE q == [FreeRequest EXCEPT !.pc = "createVariant", !.row = v, !.parent = c]
  <2>1. ReadStands(q)
    BY <1>2 DEF ReadStands, RequestFields, FreeRequest, ReadClass
  <2>2. catalogReq' = [catalogReq EXCEPT ![r] = q] /\ UNCHANGED <<class, variant, coverage, offered>>
    BY <1>2 DEF ReadClass, CatalogBegin
  <2> HIDE DEF q
  <2> QED
    BY <2>1, <2>2, RequestWithoutRows
<1>3. ASSUME NEW v \in Variants, ClearTarget(r, v) PROVE CatalogInv'
  <2>1. /\ variant' = [variant EXCEPT ![v].target = None] /\ UNCHANGED <<class, coverage, offered, catalogReq>>
        /\ catalogReq[r].pc = "idle"
    BY <1>3 DEF ClearTarget
  <2>2. CatalogRows' /\ \A w \in Variants : variant'[w].status = variant[w].status /\ variant'[w].class = variant[w].class
    BY <2>1 DEF CatalogInv, CatalogRows
  <2>3. NothingActiveUnderDeleted'
    BY <2>1, <2>2 DEF CatalogInv, NothingActiveUnderDeleted
  <2>4. LeavesOthers(r)
    BY <2>1, <2>2 DEF LeavesOthers
  <2> QED
    BY <2>1, <2>2, <2>3, <2>4, WrittenAndAnswered DEF CatalogInv
<1>4. ASSUME NEW v \in Variants, NEW c \in Coverages, ReadTarget(r, v, c) PROVE CatalogInv'
  <2> DEFINE q == [FreeRequest EXCEPT !.pc = "setTarget", !.row = v, !.parent = c]
  <2>1. ReadStands(q)
    BY <1>4 DEF ReadStands, RequestFields, FreeRequest, ReadTarget
  <2>2. catalogReq' = [catalogReq EXCEPT ![r] = q] /\ UNCHANGED <<class, variant, coverage, offered>>
    BY <1>4 DEF ReadTarget, CatalogBegin
  <2> HIDE DEF q
  <2> QED
    BY <2>1, <2>2, RequestWithoutRows
<1>5. ASSUME NEW v \in Variants, NEW c \in Coverages, NEW mode \in Modes, ReadVariant(r, c, v, mode)
      PROVE  CatalogInv'
  <2> DEFINE q == [FreeRequest EXCEPT !.pc = "createCoverage", !.row = c, !.parent = v, !.mode = mode]
  <2>1. ReadStands(q)
    BY <1>5 DEF ReadStands, RequestFields, FreeRequest, ReadVariant
  <2>2. catalogReq' = [catalogReq EXCEPT ![r] = q] /\ UNCHANGED <<class, variant, coverage, offered>>
    BY <1>5 DEF ReadVariant, CatalogBegin
  <2> HIDE DEF q
  <2> QED
    BY <2>1, <2>2, RequestWithoutRows
<1>6. ASSUME NEW c \in Coverages, NEW d \in Days, CreatePeriod(r, c, d) PROVE CatalogInv'
  <2>1. /\ UNCHANGED <<class, variant, coverage, catalogReq>> /\ catalogReq[r].pc = "idle"
        /\ offered' \subseteq Periods
    BY <1>6 DEF CreatePeriod, CatalogInv, CatalogRows, Periods
  <2>2. LeavesOthers(r)
    BY <2>1 DEF LeavesOthers
  <2> QED
    BY <2>1, <2>2, WrittenAndAnswered DEF CatalogInv, CatalogRows, NothingActiveUnderDeleted
<1>7. ASSUME NEW c \in Coverages, NEW d \in Days, NEW filled \in BOOLEAN, NEW mode \in Modes,
             ReadPeriod(r, c, d, mode, filled)
      PROVE  CatalogInv'
  <2> DEFINE q == [FreeRequest EXCEPT !.pc = "setMode", !.row = c, !.day = d, !.mode = mode, !.filled = filled]
  <2>1. ReadStands(q)
    BY DEF ReadStands, RequestFields, FreeRequest
  <2>2. catalogReq' = [catalogReq EXCEPT ![r] = q] /\ UNCHANGED <<class, variant, coverage, offered>>
    BY <1>7 DEF ReadPeriod, CatalogBegin
  <2> HIDE DEF q
  <2> QED
    BY <2>1, <2>2, RequestWithoutRows
<1>8. ASSUME NEW c \in Coverages, NEW d \in Days, NEW filled \in BOOLEAN, NEW table \in Tables,
             ReadPeriodForRows(r, c, d, table, filled)
      PROVE  CatalogInv'
  <2> DEFINE q == [FreeRequest EXCEPT !.pc = "replaceRows", !.row = c, !.day = d, !.table = table, !.filled = filled]
  <2>1. ReadStands(q)
    BY DEF ReadStands, RequestFields, FreeRequest
  <2>2. catalogReq' = [catalogReq EXCEPT ![r] = q] /\ UNCHANGED <<class, variant, coverage, offered>>
    BY <1>8 DEF ReadPeriodForRows, CatalogBegin
  <2> HIDE DEF q
  <2> QED
    BY <2>1, <2>2, RequestWithoutRows
<1>9. ASSUME NEW batch \in Batches, BeginBatch(r, batch) PROVE CatalogInv'
  <2> DEFINE q == [FreeRequest EXCEPT !.pc = "batchVariants", !.batch = batch]
  <2>1. batch \in BatchType
    BY <1>9 DEF Batches, BatchType, CatalogInv, CatalogRows
  <2>2. ReadStands(q)
    BY <2>1 DEF ReadStands, RequestFields, FreeRequest
  <2>3. catalogReq' = [catalogReq EXCEPT ![r] = q] /\ UNCHANGED <<class, variant, coverage, offered>>
    BY <1>9 DEF BeginBatch, CatalogBegin
  <2> HIDE DEF q
  <2> QED
    BY <2>2, <2>3, RequestWithoutRows
<1> QED
  BY <1>1, <1>2, <1>3, <1>4, <1>5, <1>6, <1>7, <1>8, <1>9 DEF CatalogStart

\* A request that is answered without a row of the catalog written.
LEMMA AnsweredWithoutRows ==
    ASSUME CatalogInv, Apart, NEW r \in CatalogReqs, CatalogAnswer(r),
           UNCHANGED <<class, variant, coverage, offered>>
    PROVE  CatalogInv'
BY FreeRequestReadsNothing, RequestWithoutRows DEF CatalogAnswer

\* A row is added under the one that was read, or a target is set.
LEMMA CreatesKeepCatalog ==
    ASSUME CatalogInv, Apart, NEW r \in CatalogReqs,
           CreateVariant(r) \/ CreateCoverage(r) \/ SetTarget(r)
    PROVE  CatalogInv'
<1> DEFINE q == catalogReq[r]
<1>0. ReadStands(q)
  BY DEF CatalogInv
<1>1. CASE CreateVariant(r)
  <2> DEFINE row == [status |-> "ACTIVE", class |-> q.parent, target |-> None]
  <2>1. /\ q.row \in Variants /\ q.parent \in Classes /\ class[q.parent] = "ACTIVE"
        /\ variant[q.row].status = None /\ variant' = [variant EXCEPT ![q.row] = row]
        /\ CatalogAnswer(r) /\ UNCHANGED <<class, coverage, offered>>
    BY <1>0, <1>1 DEF CreateVariant, ReadStands
  <2> HIDE DEF q
  <2>2. CatalogRows'
    BY <2>1 DEF CatalogInv, CatalogRows, Statuses
  <2>3. \A v \in Variants : variant'[v] = IF v = q.row THEN row ELSE variant[v]
    BY <2>1 DEF CatalogInv, CatalogRows
  <2>4. \A v \in Variants : variant[v].status = "ACTIVE" => variant'[v].status = "ACTIVE"
    BY <2>1, <2>3
  <2>5. NothingActiveUnderDeleted'
    BY <2>1, <2>3, <2>4 DEF CatalogInv, NothingActiveUnderDeleted
  <2>6. \A v \in Variants : variant'[v].status = "ACTIVE" => variant'[v].class \in Classes
    BY <2>1, <2>3 DEF CatalogInv
  <2>7. \A s \in CatalogReqs : catalogReq[s].pc \in Deleting => q.parent \notin catalogReq[s].batch.classes
    BY <1>1 DEF CreateVariant, Apart, AddsBelow, q
  <2>8. LeavesOthers(r)
    BY <2>1, <2>3, <2>4, <2>7 DEF LeavesOthers
  <2> QED
    BY <2>1, <2>2, <2>5, <2>6, <2>8, WrittenAndAnswered DEF CatalogAnswer, CatalogInv
<1>2. CASE CreateCoverage(r)
  <2> DEFINE row == [status |-> "ACTIVE", variant |-> q.parent, mode |-> q.mode]
  <2>1. /\ q.row \in Coverages /\ q.parent \in Variants /\ q.mode \in Modes /\ variant[q.parent].status = "ACTIVE"
        /\ coverage' = [coverage EXCEPT ![q.row] = row]
        /\ CatalogAnswer(r) /\ UNCHANGED <<class, variant, offered>>
    BY <1>0, <1>2 DEF CreateCoverage, ReadStands
  <2> HIDE DEF q
  <2>2. CatalogRows'
    BY <2>1 DEF CatalogInv, CatalogRows, Statuses
  <2>3. \A c \in Coverages : coverage'[c] = IF c = q.row THEN row ELSE coverage[c]
    BY <2>1 DEF CatalogInv, CatalogRows
  <2>4. NothingActiveUnderDeleted'
    BY <2>1, <2>3 DEF CatalogInv, NothingActiveUnderDeleted
  <2>5. \A c \in Coverages : coverage'[c].status = "ACTIVE" => coverage'[c].variant \in Variants
    BY <2>1, <2>3 DEF CatalogInv
  <2>6. \A s \in CatalogReqs : catalogReq[s].pc \in Deleting => q.parent \notin catalogReq[s].batch.variants
    BY <1>2 DEF CreateCoverage, Apart, AddsBelow, q
  <2>7. LeavesOthers(r)
    BY <2>1, <2>3, <2>6 DEF LeavesOthers
  <2> QED
    BY <2>1, <2>2, <2>4, <2>5, <2>7, WrittenAndAnswered DEF CatalogAnswer, CatalogInv
<1>3. CASE SetTarget(r)
  <2>1. /\ q.row \in Variants /\ q.parent \in Coverages
        /\ variant' = [variant EXCEPT ![q.row].target = q.parent]
        /\ CatalogAnswer(r) /\ UNCHANGED <<class, coverage, offered>>
    BY <1>0, <1>3 DEF SetTarget, ReadStands
  <2> HIDE DEF q
  <2>2. /\ CatalogRows'
        /\ \A v \in Variants : variant'[v].status = variant[v].status /\ variant'[v].class = variant[v].class
    BY <2>1 DEF CatalogInv, CatalogRows
  <2>3. NothingActiveUnderDeleted'
    BY <2>1, <2>2 DEF CatalogInv, NothingActiveUnderDeleted
  <2>4. LeavesOthers(r)
    BY <2>1, <2>2 DEF LeavesOthers
  <2> QED
    BY <2>1, <2>2, <2>3, <2>4, WrittenAndAnswered DEF CatalogAnswer, CatalogInv
<1> QED
  BY <1>1, <1>2, <1>3

\* How a coverage is priced says nothing of what it is under.
LEMMA PricingKeepsCatalog ==
    ASSUME CatalogInv, Apart, NEW r \in CatalogReqs,
           SetMode(r) \/ UpsertScalars(r) \/ ReplaceRows(r) \/ CatalogDies(r)
    PROVE  CatalogInv'
<1>1. CASE UpsertScalars(r) \/ ReplaceRows(r) \/ CatalogDies(r)
  BY <1>1, AnsweredWithoutRows DEF UpsertScalars, ReplaceRows, CatalogDies
<1>2. CASE SetMode(r)
  <2> DEFINE q == catalogReq[r]
             p == IF q.filled /\ ScalarsOf(q.mode) # {} THEN [q EXCEPT !.pc = "upsertScalars"] ELSE FreeRequest
  <2>0. ReadStands(q)
    BY DEF CatalogInv
  <2>1. /\ q.row \in Coverages /\ q.mode \in Modes /\ q.pc = "setMode"
        /\ coverage' = [coverage EXCEPT ![q.row].mode = q.mode] /\ UNCHANGED <<class, variant, offered>>
    BY <1>2 DEF SetMode, CatalogInv, ReadStands
  <2>2. catalogReq' = [catalogReq EXCEPT ![r] = p]
    BY <1>2 DEF SetMode, CatalogThen, CatalogAnswer
  <2>3. p = FreeRequest \/ p = [q EXCEPT !.pc = "upsertScalars"]
    OBVIOUS
  <2> HIDE DEF q, p
  <2>4. /\ CatalogRows'
        /\ \A c \in Coverages : /\ coverage'[c].status = coverage[c].status
                                /\ coverage'[c].variant = coverage[c].variant
    BY <2>1 DEF CatalogInv, CatalogRows
  <2>5. NothingActiveUnderDeleted'
    BY <2>1, <2>4 DEF CatalogInv, NothingActiveUnderDeleted
  <2>6. DOMAIN catalogReq' = CatalogReqs /\ catalogReq'[r] = p
    BY <2>2 DEF CatalogInv
  <2>7. ReadStands(catalogReq[r])'
    <3>1. CASE p = FreeRequest
      BY <2>6, <3>1, FreeRequestReadsNothing DEF ReadStands
    <3>2. CASE p = [q EXCEPT !.pc = "upsertScalars"]
      <4>1. p.pc = "upsertScalars" /\ DOMAIN p = RequestFields
        BY <2>0, <3>2 DEF ReadStands, RequestFields
      <4> QED
        BY <2>6, <4>1 DEF ReadStands
    <3> QED
      BY <2>3, <3>1, <3>2
  <2>8. LeavesOthers(r)
    BY <2>1, <2>4 DEF LeavesOthers
  <2>9. ASSUME NEW s \in CatalogReqs \ {r} PROVE ReadStands(catalogReq[s])'
    <3>1. catalogReq'[s] = catalogReq[s]
      BY <2>2 DEF CatalogInv
    <3> QED
      BY <2>8, <3>1, OthersStand DEF CatalogInv
  <2> QED
    BY <2>1, <2>4, <2>5, <2>6, <2>7, <2>9 DEF CatalogInv
<1> QED
  BY <1>1, <1>2

\* A request that has read rows goes on.
LEMMA RequestHasRead ==
    ASSUME CatalogInv, Apart, NEW r \in CatalogReqs, DOMAIN catalogReq' = CatalogReqs,
           DOMAIN catalogReq'[r] = RequestFields, catalogReq'[r].batch \in BatchType,
           \A v \in Variants : variant[v].class \in catalogReq'[r].batch.classes => v \in catalogReq'[r].batch.variants,
           \/ catalogReq'[r].pc = "batchCoverages"
           \/ /\ catalogReq'[r].pc = "batchCommit"
              /\ \A c \in Coverages :
                    coverage[c].variant \in catalogReq'[r].batch.variants => c \in catalogReq'[r].batch.coverages,
           \A s \in CatalogReqs \ {r} : catalogReq'[s] = catalogReq[s],
           UNCHANGED <<class, variant, coverage, offered>>
    PROVE  CatalogInv'
<1>1. ReadStands(catalogReq[r])'
  BY DEF ReadStands
<1>2. LeavesOthers(r)
  BY DEF LeavesOthers
<1>3. ASSUME NEW s \in CatalogReqs \ {r} PROVE ReadStands(catalogReq[s])'
  BY <1>2, OthersStand DEF CatalogInv
<1> QED
  BY <1>1, <1>3 DEF CatalogInv, CatalogRows, NothingActiveUnderDeleted

\* The cascade, read from top to bottom, and the transaction that writes it.
LEMMA BatchKeepsCatalog ==
    ASSUME CatalogInv, Apart, NEW r \in CatalogReqs,
           BatchReadVariants(r) \/ BatchReadCoverages(r) \/ BatchCommit(r)
    PROVE  CatalogInv'
<1> DEFINE q == catalogReq[r]
           b == q.batch
           n == catalogReq'[r]
<1>0. ReadStands(q)
  BY DEF CatalogInv
<1>1. CASE BatchReadVariants(r)
  <2> DEFINE more == b.variants \cup {v \in Variants : variant[v].class \in b.classes}
  <2>1. /\ b \in BatchType /\ DOMAIN q = RequestFields
        /\ catalogReq' = [catalogReq EXCEPT ![r] = [q EXCEPT !.pc = "batchCoverages", !.batch.variants = more]]
        /\ UNCHANGED <<class, variant, coverage, offered>>
    BY <1>0, <1>1 DEF BatchReadVariants, ReadStands
  <2>2. /\ DOMAIN catalogReq' = CatalogReqs /\ DOMAIN n = RequestFields
        /\ n.pc = "batchCoverages" /\ n.batch = [b EXCEPT !.variants = more]
        /\ \A s \in CatalogReqs \ {r} : catalogReq'[s] = catalogReq[s]
    BY <2>1 DEF CatalogInv, RequestFields
  <2>3. n.batch \in BatchType /\ n.batch.classes = b.classes /\ n.batch.variants = more
    BY <2>1, <2>2 DEF BatchType
  <2> QED
    BY <2>1, <2>2, <2>3, RequestHasRead
<1>2. CASE BatchReadCoverages(r)
  <2> DEFINE more == WithCoveragesOf(b)
  <2>1. /\ b \in BatchType /\ DOMAIN q = RequestFields
        /\ \A v \in Variants : variant[v].class \in b.classes => v \in b.variants
        /\ catalogReq' = [catalogReq EXCEPT ![r] = [q EXCEPT !.pc = "batchCommit", !.batch.coverages = more]]
        /\ UNCHANGED <<class, variant, coverage, offered>>
    BY <1>0, <1>2 DEF BatchReadCoverages, ReadStands
  <2>2. /\ DOMAIN catalogReq' = CatalogReqs /\ DOMAIN n = RequestFields
        /\ n.pc = "batchCommit" /\ n.batch = [b EXCEPT !.coverages = more]
        /\ \A s \in CatalogReqs \ {r} : catalogReq'[s] = catalogReq[s]
    BY <2>1 DEF CatalogInv, RequestFields
  <2>3. /\ more \subseteq Coverages
        /\ \A c \in Coverages : coverage[c].variant \in b.variants => c \in more
    BY <2>1 DEF WithCoveragesOf, BatchType
  <2>4. /\ n.batch \in BatchType /\ n.batch.classes = b.classes /\ n.batch.variants = b.variants
        /\ n.batch.coverages = more
    BY <2>1, <2>2, <2>3 DEF BatchType
  <2> QED
    BY <2>1, <2>2, <2>3, <2>4, RequestHasRead
<1>3. CASE BatchCommit(r)
  <2>1. /\ b \in BatchType
        /\ \A v \in Variants : variant[v].class \in b.classes => v \in b.variants
        /\ \A c \in Coverages : coverage[c].variant \in b.variants => c \in b.coverages
    BY <1>0, <1>3 DEF BatchCommit, ReadStands
  <2>2. /\ offered' = offered \ b.periods
        /\ coverage' = [c \in Coverages |-> IF c \in b.coverages
                          THEN [coverage[c] EXCEPT !.status = Deactivate(@)] ELSE coverage[c]]
        /\ variant' = [v \in Variants |-> IF v \in b.variants
                          THEN [variant[v] EXCEPT !.status = Deactivate(@)] ELSE variant[v]]
        /\ class' = [c \in Classes |-> IF c \in b.classes THEN Deactivate(class[c]) ELSE class[c]]
        /\ CatalogAnswer(r)
    BY <1>3 DEF BatchCommit
  <2>3. \A status \in Statuses : Deactivate(status) \in Statuses \ {"ACTIVE"}
    BY DEF Deactivate, Statuses, None
  <2> HIDE DEF b
  <2>4. /\ \A c \in Coverages : /\ coverage'[c].variant = coverage[c].variant
                                /\ coverage'[c].status = "ACTIVE" => coverage[c].status = "ACTIVE" /\ c \notin b.coverages
        /\ \A v \in Variants : /\ variant'[v].class = variant[v].class
                               /\ variant'[v].status = IF v \in b.variants THEN Deactivate(variant[v].status)
                                                       ELSE variant[v].status
        /\ \A c \in Classes : class'[c] = IF c \in b.classes THEN Deactivate(class[c]) ELSE class[c]
    BY <2>2, <2>3 DEF CatalogInv, CatalogRows
  <2>5. CatalogRows'
    BY <2>2, <2>3 DEF CatalogInv, CatalogRows
  <2>6. \A v \in Variants : variant'[v].status = "ACTIVE" =>
            v \notin b.variants /\ variant[v].status = "ACTIVE" /\ variant'[v].class \in Classes
    BY <2>3, <2>4 DEF CatalogInv, CatalogRows
  <2>7. \A v \in Variants : variant'[v].status = "ACTIVE" => class'[variant'[v].class] = "ACTIVE"
    BY <2>1, <2>4, <2>6 DEF CatalogInv, NothingActiveUnderDeleted
  <2>8. \A c \in Coverages : coverage'[c].status = "ACTIVE" =>
            coverage'[c].variant \in Variants /\ variant'[coverage'[c].variant].status = "ACTIVE"
    <3> TAKE c \in Coverages
    <3> HAVE coverage'[c].status = "ACTIVE"
    <3>1. /\ coverage[c].status = "ACTIVE" /\ c \notin b.coverages
          /\ coverage'[c].variant = coverage[c].variant
      BY <2>4
    <3>2. coverage[c].variant \in Variants \ b.variants /\ variant[coverage[c].variant].status = "ACTIVE"
      BY <2>1, <3>1 DEF CatalogInv, NothingActiveUnderDeleted
    <3> QED
      BY <2>4, <3>1, <3>2
  <2>9. LeavesOthers(r)
    <3>1. \A s \in CatalogReqs :
              /\ catalogReq[s].pc = "createVariant" => catalogReq[s].parent \notin b.classes
              /\ catalogReq[s].pc = "createCoverage" => catalogReq[s].parent \notin b.variants
      BY <1>3 DEF BatchCommit, Deleting, Apart, AddsBelow, b
    <3> QED
      BY <2>4, <3>1 DEF LeavesOthers
  <2> QED
    BY <2>2, <2>5, <2>6, <2>7, <2>8, <2>9, WrittenAndAnswered DEF CatalogAnswer, NothingActiveUnderDeleted
<1> QED
  BY <1>1, <1>2, <1>3

\* Every step of the catalog keeps the invariant.
LEMMA CatalogStepKeeps ==
    CatalogInv /\ Apart /\ [CatalogNext /\ Apart']_catalogVars => (CatalogInv /\ Apart)'
<1> SUFFICES ASSUME CatalogInv, Apart, [CatalogNext /\ Apart']_catalogVars PROVE CatalogInv' /\ Apart'
  OBVIOUS
<1>1. CASE UNCHANGED catalogVars
  BY <1>1 DEF catalogVars, CatalogInv, CatalogRows, NothingActiveUnderDeleted, ReadStands, Apart, AddsBelow
<1>2. ASSUME NEW r \in CatalogReqs, CatalogStart(r) \/ CatalogContinue(r) PROVE CatalogInv'
  BY <1>2, CatalogStartKeeps, CreatesKeepCatalog, PricingKeepsCatalog, BatchKeepsCatalog DEF CatalogContinue
<1> QED
  BY <1>1, <1>2 DEF CatalogNext

\* NothingActiveUnderDeleted, for any catalog and any number of requests at
\* once, but for the race of routes/catalog.js:710-727: unless a row is being
\* added under one that a batch is deleting, whatever the requests add, delete
\* and price, in whatever order, leaves nothing active under what is deleted.
THEOREM NothingIsLeftUnderDeleted == ApartSpec => []NothingActiveUnderDeleted
<1>1. CatalogInv => NothingActiveUnderDeleted
  BY DEF CatalogInv
<1> QED
  BY <1>1, CatalogStartSound, CatalogStepKeeps, PTL DEF ApartSpec

-----------------------------------------------------------------------------
(* The rows above a row.                                                     *)

\* What is above a row, tier by tier.
ChainByTier ==
    [r \in Rows |->
        IF Tier[r] = "class" THEN {r}
        ELSE IF Tier[r] = "variant" THEN {r, Above[r]}
        ELSE IF Tier[r] = "coverage" THEN {r, Above[r], Above[Above[r]]}
        ELSE {r, Above[r], Above[Above[r]], Above[Above[Above[r]]]}]

\* What a row is under is of the tier above its own.
LEMMA TiersAbove ==
    ASSUME NEW r \in Rows
    PROVE  /\ Tier[r] \in Adds
           /\ Tier[r] = "class" <=> Above[r] = Top
           /\ Tier[r] = "variant" => Above[r] \in Rows /\ Tier[Above[r]] = "class"
           /\ Tier[r] = "coverage" => Above[r] \in Rows /\ Tier[Above[r]] = "variant"
           /\ Tier[r] = "period" => Above[r] \in Rows /\ Tier[Above[r]] = "coverage"
BY ProductsAssumption DEF Adds

\* What is above a row is what is above it and the row above: the tiers end.
LEMMA ChainIsByTier == Chain = [r \in Rows |-> {r} \cup IF Above[r] = Top THEN {} ELSE Chain[Above[r]]]
<1> DEFINE IsChain(f) == f = [r \in Rows |-> {r} \cup IF Above[r] = Top THEN {} ELSE f[Above[r]]]
<1>1. IsChain(ChainByTier)
  <2> SUFFICES ASSUME NEW r \in Rows
               PROVE  ChainByTier[r] = {r} \cup IF Above[r] = Top THEN {} ELSE ChainByTier[Above[r]]
    BY DEF ChainByTier
  <2>1. CASE Tier[r] = "class"
    BY <2>1, TiersAbove DEF ChainByTier
  <2>2. CASE Tier[r] = "variant"
    BY <2>2, TiersAbove DEF ChainByTier
  <2>3. CASE Tier[r] = "coverage"
    BY <2>3, TiersAbove DEF ChainByTier
  <2>4. CASE Tier[r] = "period"
    BY <2>4, TiersAbove DEF ChainByTier
  <2> QED
    BY <2>1, <2>2, <2>3, <2>4, TiersAbove DEF Adds
<1>2. Chain = CHOOSE f : IsChain(f)
  BY DEF Chain
<1> HIDE DEF IsChain
<1>3. IsChain(Chain)
  BY <1>1, <1>2
<1> QED
  BY <1>3 DEF IsChain

\* What is struck out goes with the marks when the server works it out.
LEMMA StruckIsInCascade ==
    ASSUME NEW r \in Rows, Struck(r) PROVE r \in Cascade(page.marks)
<1>0. Chain[r] = {r} \cup IF Above[r] = Top THEN {} ELSE Chain[Above[r]]
  BY ChainIsByTier
<1>1. CASE r \in page.marks
  BY <1>1 DEF Cascade
<1>2. CASE r \notin page.marks /\ Tier[r] = "class"
  BY <1>0, <1>2, TiersAbove DEF Struck
<1>3. CASE r \notin page.marks /\ Tier[r] = "variant"
  <2>1. Above[r] \in Rows /\ Above[Above[r]] = Top /\ Above[r] # Top
    BY <1>3, TiersAbove, ProductsAssumption
  <2>2. Chain[r] = {r, Above[r]}
    BY <1>0, <2>1, ChainIsByTier
  <2> QED
    BY <1>3, <2>1, <2>2 DEF Struck, Cascade
<1>4. CASE r \notin page.marks /\ Tier[r] = "coverage"
  <2> DEFINE a == Above[r]
  <2>1. a \in Rows /\ a # Top /\ Tier[a] = "variant"
    BY <1>4, TiersAbove, ProductsAssumption
  <2>2. Above[a] \in Rows /\ Above[a] # Top /\ Above[Above[a]] = Top
    BY <2>1, TiersAbove, ProductsAssumption
  <2>3. Chain[r] = {r, a, Above[a]}
    BY <1>0, <2>1, <2>2, ChainIsByTier
  <2> QED
    BY <1>4, <2>1, <2>2, <2>3 DEF Struck, Cascade
<1> QED
  BY <1>1, <1>2, <1>3, <1>4, TiersAbove DEF Struck, Adds

-----------------------------------------------------------------------------
(* The products page: the inductive invariant.                               *)

RowFields    == {"status", "text"}
PageFields   == {"list", "filter", "listed", "loading", "marks", "deleting", "saving"}
DraftFields  == {"open", "target", "ref", "form", "original"}
ListFields   == {"what", "by", "filter", "read", "got"}

StockIsSound ==
    /\ DOMAIN stock = Rows
    /\ \A r \in Rows : DOMAIN stock[r] = RowFields /\ stock[r].status \in {"none", "ACTIVE", "INACTIVE"}

\* A draft is of the row its dialog was opened for last.
DraftsAreSound ==
    /\ DOMAIN dialog = Adds \cup Edits
    /\ \A k \in Adds \cup Edits :
          /\ DOMAIN dialog[k] = DraftFields
          /\ dialog[k].form.for = dialog[k].ref /\ dialog[k].original.for = dialog[k].ref
          /\ dialog[k].open => dialog[k].target = dialog[k].ref

\* Rows that were on a list of the server are on the server.
EntriesIn(entries, rows) == \A e \in entries : e.row \in Rows /\ rows[e.row].status # "none"

Filters == {"ACTIVE", "INACTIVE", "ALL"}

CallSound(c, rows) ==
    /\ c.filter \in Filters
    /\ c.what = "list" => DOMAIN c = ListFields /\ EntriesIn(c.got, rows)
    /\ c.what = "delete" =>
          \A r \in c.struck : r \in Rows /\ rows[r].status # "none" /\ r \in Cascade(c.rows)
    /\ c.what \in Adds \cup Edits => c.form.for = c.target

RemovedAreGone(gone, rows) == gone \subseteq Rows /\ \A r \in gone : rows[r].status = "INACTIVE"

ProductsInv ==
    /\ StockIsSound
    /\ DOMAIN page = PageFields /\ page.filter \in Filters
    /\ EntriesIn(page.list, stock)
    /\ DraftsAreSound
    /\ \A c \in calls : CallSound(c, stock)
    /\ RemovedAreGone(removed, stock)

\* The page starts with nothing listed, and its dialogs closed.
LEMMA ProductsStartSound == ProductsInit => ProductsInv
<1> SUFFICES ASSUME ProductsInit PROVE ProductsInv
  OBVIOUS
<1>1. StockIsSound
  BY DEF ProductsInit, StockIsSound, RowFields
<1>2. DOMAIN page = PageFields /\ page.list = {} /\ page.filter \in Filters
  BY DEF ProductsInit, PageFields, Filters
<1>3. DOMAIN ClosedDialog = DraftFields /\ ClosedDialog.form.for = Top /\ ClosedDialog.original.for = Top
      /\ ClosedDialog.ref = Top /\ ~ClosedDialog.open
  BY DEF ClosedDialog, DraftFields
<1>4. DraftsAreSound
  BY <1>3 DEF ProductsInit, DraftsAreSound
<1>5. \A c \in calls : CallSound(c, stock)
  BY DEF ProductsInit, Loading, CallSound, EntriesIn, ListFields, Filters, Adds, Edits
<1>6. removed = {}
  BY DEF ProductsInit
<1> QED
  BY <1>1, <1>2, <1>4, <1>5, <1>6 DEF ProductsInv, EntriesIn, RemovedAreGone

-----------------------------------------------------------------------------
(* Changes of the stock.                                                     *)

\* A row that was added stays, and one that is deleted stays deleted.
StockKept(rows) ==
    /\ DOMAIN rows = Rows
    /\ \A r \in Rows :
          /\ DOMAIN rows[r] = RowFields /\ rows[r].status \in {"none", "ACTIVE", "INACTIVE"}
          /\ stock[r].status # "none" => rows[r].status # "none"
          /\ stock[r].status = "INACTIVE" => rows[r].status = "INACTIVE"

\* A stock that is not changed is kept.
LEMMA UnchangedIsKept == StockIsSound => StockKept(stock)
BY DEF StockIsSound, StockKept

\* A deletion leaves every row there, and those it takes with it inactive.
LEMMA WithoutIsKept ==
    ASSUME StockIsSound, NEW rows
    PROVE  /\ StockKept(Without(rows))
           /\ \A r \in Rows \cap Cascade(rows) : stock[r].status # "none" => Without(rows)[r].status = "INACTIVE"
<1>1. \A r \in Rows : [stock[r] EXCEPT !.status = "INACTIVE"].status = "INACTIVE"
                      /\ DOMAIN [stock[r] EXCEPT !.status = "INACTIVE"] = RowFields
  BY DEF StockIsSound, RowFields
<1> QED
  BY <1>1 DEF StockIsSound, StockKept, Without

\* With the rows that were there kept, what was read and asked for stands.
LEMMA ProductsKept ==
    ASSUME ProductsInv, StockKept(stock'), DOMAIN page' = PageFields, page'.filter \in Filters,
           page'.list = page.list \/ EntriesIn(page'.list, stock'),
           DraftsAreSound', \A c \in calls' : c \in calls \/ CallSound(c, stock'),
           \A r \in removed' : r \in removed \/ (r \in Rows /\ stock'[r].status = "INACTIVE")
    PROVE  ProductsInv'
<1>1. StockIsSound'
  BY DEF StockIsSound, StockKept
<1>2. \A entries : EntriesIn(entries, stock) => EntriesIn(entries, stock')
  BY DEF EntriesIn, StockKept
<1>3. \A c \in calls : CallSound(c, stock')
  <2> TAKE c \in calls
  <2>1. CallSound(c, stock)
    BY DEF ProductsInv
  <2> QED
    BY <2>1, <1>2 DEF CallSound, StockKept
<1>4. EntriesIn(page'.list, stock')
  BY <1>2 DEF ProductsInv
<1>5. RemovedAreGone(removed', stock')
  BY DEF ProductsInv, RemovedAreGone, StockKept
<1> QED
  BY <1>1, <1>3, <1>4, <1>5 DEF ProductsInv

\* Nothing is changed on the server but by a call or another administrator.
LEMMA PageOnly ==
    ASSUME ProductsInv, UNCHANGED <<stock, removed>>, DOMAIN page' = PageFields, page'.filter \in Filters,
           page'.list = page.list \/ EntriesIn(page'.list, stock),
           DraftsAreSound', \A c \in calls' : c \in calls \/ CallSound(c, stock)
    PROVE  ProductsInv'
<1>1. StockKept(stock')
  BY UnchangedIsKept DEF ProductsInv
<1> QED
  BY <1>1, ProductsKept

\* Drafts nobody touches stay as they are.
LEMMA DraftsUnchanged == ASSUME ProductsInv, UNCHANGED dialog PROVE DraftsAreSound'
BY DEF ProductsInv, DraftsAreSound

-----------------------------------------------------------------------------
(* Each step.                                                                *)

\* A list that is asked for has nothing on it yet.
LEMMA LoadingIsSound ==
    ASSUME NEW by, NEW filter \in Filters, NEW rows PROVE CallSound(Loading(by, filter), rows)
BY DEF Loading, CallSound, EntriesIn, ListFields, Adds, Edits

\* A list is of rows that are there.
LEMMA ListIsOfTheStock ==
    ASSUME StockIsSound, NEW filter \in Filters PROVE EntriesIn(ListOf(filter), stock)
<1>1. \A r \in Rows : r \in Chain[r]
  BY ChainIsByTier
<1>2. \A r \in Rows : Passes(r, filter) => stock[r].status # "none"
  BY DEF Passes, Filters
<1> QED
  BY <1>1, <1>2 DEF EntriesIn, ListOf

\* A list is read, and arrives or does not.
LEMMA LoadsKeepProducts ==
    ASSUME ProductsInv, NEW c \in calls, LoadRead(c) \/ LoadArrives(c) \/ LoadFails(c) PROVE ProductsInv'
<1>0. CallSound(c, stock) /\ DraftsAreSound' /\ UNCHANGED <<stock, removed>>
      /\ DOMAIN page = PageFields /\ page.filter \in Filters
  BY DraftsUnchanged DEF ProductsInv, LoadRead, LoadArrives, LoadFails, Loaded
<1>1. CASE LoadRead(c)
  <2> DEFINE l == [c EXCEPT !.read = TRUE, !.got = ListOf(c.filter)]
  <2>1. c.what = "list" /\ DOMAIN c = ListFields /\ c.filter \in Filters
    BY <1>0, <1>1 DEF LoadRead, CallSound
  <2>2. l.what = "list" /\ DOMAIN l = ListFields /\ l.got = ListOf(c.filter) /\ l.filter = c.filter
    BY <2>1 DEF ListFields
  <2>3. EntriesIn(ListOf(c.filter), stock)
    BY <2>1, ListIsOfTheStock DEF ProductsInv
  <2>4. calls' = (calls \ {c}) \cup {l} /\ UNCHANGED page
    BY <1>1 DEF LoadRead
  <2> HIDE DEF l
  <2>5. CallSound(l, stock)
    BY <2>1, <2>2, <2>3 DEF CallSound, Adds, Edits
  <2> QED
    BY <1>0, <2>4, <2>5, PageOnly
<1>2. CASE LoadArrives(c) \/ LoadFails(c)
  <2>1. /\ DOMAIN page' = PageFields /\ page'.filter \in Filters
        /\ page'.list = page.list \/ (LoadArrives(c) /\ page'.list = c.got)
    BY <1>0, <1>2 DEF LoadArrives, LoadFails, Loaded, PageFields
  <2>2. calls' \subseteq calls
    BY <1>2 DEF LoadArrives, LoadFails, Loaded
  <2>3. LoadArrives(c) => EntriesIn(c.got, stock)
    BY <1>0 DEF LoadArrives, CallSound
  <2> QED
    BY <1>0, <2>1, <2>2, <2>3, PageOnly
<1> QED
  BY <1>1, <1>2

\* The filter and the marks; what is struck out is in what the server takes
\* with it.
LEMMA MarksKeepProducts ==
    ASSUME ProductsInv, \/ \E filter \in Filters : ChooseFilter(filter)
                        \/ \E r \in Rows : Mark(r)
                        \/ Discard \/ SaveDeletes
    PROVE  ProductsInv'
<1>0. /\ DraftsAreSound' /\ UNCHANGED <<stock, removed>>
      /\ DOMAIN page = PageFields /\ page.filter \in Filters
  BY DraftsUnchanged DEF ProductsInv, ChooseFilter, Mark, Discard, SaveDeletes
<1>1. ASSUME NEW filter \in Filters, ChooseFilter(filter) PROVE ProductsInv'
  <2>1. DOMAIN page' = PageFields /\ page'.filter = filter /\ page'.list = page.list
    BY <1>0, <1>1 DEF ChooseFilter, PageFields
  <2>2. calls' = calls \cup {Loading("page", filter)}
    BY <1>1 DEF ChooseFilter
  <2> QED
    BY <1>0, <2>1, <2>2, LoadingIsSound, PageOnly
<1>2. CASE (\E r \in Rows : Mark(r)) \/ Discard
  <2>1. DOMAIN page' = PageFields /\ page'.filter = page.filter /\ page'.list = page.list /\ calls' = calls
    BY <1>0, <1>2 DEF Mark, Discard, PageFields
  <2> QED
    BY <1>0, <2>1, PageOnly
<1>3. CASE SaveDeletes
  <2> DEFINE c == [what |-> "delete", rows |-> page.marks, filter |-> page.filter,
                   struck |-> {r \in Shown : Struck(r)}]
  <2>1. DOMAIN page' = PageFields /\ page'.filter = page.filter /\ page'.list = page.list
        /\ calls' = calls \cup {c}
    BY <1>0, <1>3 DEF SaveDeletes, PageFields
  <2>2. \A r \in c.struck : r \in Rows /\ stock[r].status # "none" /\ r \in Cascade(c.rows)
    BY StruckIsInCascade DEF ProductsInv, EntriesIn, Shown
  <2>3. c.what = "delete" /\ c.filter \in Filters
    BY <1>0
  <2> HIDE DEF c
  <2>4. CallSound(c, stock)
    BY <2>2, <2>3 DEF CallSound, Adds, Edits
  <2> QED
    BY <1>0, <2>1, <2>4, PageOnly
<1> QED
  BY <1>1, <1>2, <1>3

\* Deletions are carried out, with what was struck out, or refused.
LEMMA DeletionKeepsProducts ==
    ASSUME ProductsInv, NEW c \in calls, Deleted(c) \/ DeleteFails(c) PROVE ProductsInv'
<1>0. /\ CallSound(c, stock) /\ DraftsAreSound' /\ c.what = "delete" /\ c.filter \in Filters
      /\ DOMAIN page = PageFields /\ page.filter \in Filters
  BY DraftsUnchanged DEF ProductsInv, Deleted, DeleteFails, CallSound
<1>1. CASE Deleted(c)
  <2>1. /\ stock' = Without(c.rows) /\ removed' = removed \cup c.struck
        /\ calls' = (calls \ {c}) \cup {Loading("delete", c.filter)}
        /\ DOMAIN page' = PageFields /\ page'.filter = page.filter /\ page'.list = page.list
    BY <1>0, <1>1 DEF Deleted, PageFields
  <2>2. /\ StockKept(stock')
        /\ \A r \in Rows \cap Cascade(c.rows) : stock[r].status # "none" => stock'[r].status = "INACTIVE"
    BY <2>1, WithoutIsKept DEF ProductsInv
  <2>3. \A r \in c.struck : r \in Rows /\ stock'[r].status = "INACTIVE"
    BY <1>0, <2>2 DEF CallSound
  <2>4. CallSound(Loading("delete", c.filter), stock')
    BY <1>0, LoadingIsSound
  <2> QED
    BY <1>0, <2>1, <2>2, <2>3, <2>4, ProductsKept
<1>2. CASE DeleteFails(c)
  <2>1. /\ UNCHANGED <<stock, removed>> /\ calls' \subseteq calls
        /\ DOMAIN page' = PageFields /\ page'.filter = page.filter /\ page'.list = page.list
    BY <1>0, <1>2 DEF DeleteFails, PageFields
  <2> QED
    BY <1>0, <2>1, PageOnly
<1> QED
  BY <1>1, <1>2

\* A dialog is opened, typed in, left or reverted.
LEMMA OneDraft ==
    ASSUME ProductsInv, NEW k \in Adds \cup Edits, NEW d, dialog' = [dialog EXCEPT ![k] = d],
           DOMAIN d = DraftFields, d.form.for = d.ref, d.original.for = d.ref, d.open => d.target = d.ref
    PROVE  DraftsAreSound'
BY DEF ProductsInv, DraftsAreSound

\* A step in the dialogs alone.
LEMMA DialogOnly ==
    ASSUME ProductsInv, UNCHANGED <<stock, page, calls, removed>>, DraftsAreSound' PROVE ProductsInv'
<1>1. DOMAIN page' = PageFields /\ page'.filter \in Filters /\ page'.list = page.list
      /\ \A c \in calls' : c \in calls \/ CallSound(c, stock)
  BY DEF ProductsInv
<1> QED
  BY <1>1, PageOnly

\* A dialog is opened for a row: its draft is that row's, or a fresh one.
LEMMA OpenKeepsProducts ==
    ASSUME ProductsInv, NEW k \in Adds \cup Edits, NEW row, NEW text, Open(k, row, text) PROVE ProductsInv'
<1> DEFINE fresh == [text |-> text, for |-> row]
           d == [DraftFor(k, row, fresh) EXCEPT !.open = TRUE, !.target = row]
<1>0. DOMAIN dialog[k] = DraftFields
      /\ dialog[k].form.for = dialog[k].ref /\ dialog[k].original.for = dialog[k].ref
  BY DEF ProductsInv, DraftsAreSound
<1>1. dialog' = [dialog EXCEPT ![k] = d] /\ UNCHANGED <<stock, page, calls, removed>>
  BY DEF Open
<1>2. DOMAIN d = DraftFields /\ d.ref = row /\ d.target = row /\ d.form.for = row /\ d.original.for = row
  <2>1. CASE dialog[k].ref = row
    BY <1>0, <2>1 DEF DraftFor, DraftFields
  <2>2. CASE dialog[k].ref # row
    BY <1>0, <2>2 DEF DraftFor, DraftFields
  <2> QED
    BY <2>1, <2>2
<1> HIDE DEF d
<1>3. DraftsAreSound'
  BY <1>1, <1>2, OneDraft
<1> QED
  BY <1>1, <1>3, DialogOnly

\* Typing into a draft, or reverting it, leaves the rest of it.
LEMMA FormOnly ==
    ASSUME NEW d, DOMAIN d = DraftFields, NEW f, NEW e, e = [d EXCEPT !.form = f]
    PROVE  DOMAIN e = DraftFields /\ e.form = f /\ e.original = d.original
           /\ e.ref = d.ref /\ e.target = d.target /\ e.open = d.open
BY DEF DraftFields

\* Leaving a dialog leaves its draft.
LEMMA CloseOnly ==
    ASSUME NEW d, DOMAIN d = DraftFields, NEW e, e = [d EXCEPT !.open = FALSE]
    PROVE  DOMAIN e = DraftFields /\ e.form = d.form /\ e.original = d.original
           /\ e.ref = d.ref /\ e.open = FALSE
BY DEF DraftFields

\* The drafts, one by one.
LEMMA DraftIsSound ==
    ASSUME ProductsInv, NEW k \in Adds \cup Edits
    PROVE  /\ DOMAIN dialog[k] = DraftFields
           /\ dialog[k].form.for = dialog[k].ref /\ dialog[k].original.for = dialog[k].ref
           /\ dialog[k].open => dialog[k].target = dialog[k].ref
BY DEF ProductsInv, DraftsAreSound

\* What is typed is for the row the dialog is open for, whose draft it is.
LEMMA TypingKeepsProducts ==
    ASSUME ProductsInv, NEW k \in Adds \cup Edits, NEW text, TypeIn(k, text) \/ Leave(k) PROVE ProductsInv'
<1> DEFINE f == [text |-> text, for |-> dialog[k].target]
           typed == [dialog[k] EXCEPT !.form = f]
           left == [dialog[k] EXCEPT !.open = FALSE]
<1>0. DOMAIN dialog[k] = DraftFields
  BY DraftIsSound
<1>1. UNCHANGED <<stock, page, calls, removed>>
  BY DEF TypeIn, Leave
<1>2. CASE TypeIn(k, text)
  <2>1. dialog' = [dialog EXCEPT ![k] = typed]
    BY <1>2 DEF TypeIn
  <2>2. dialog[k].open
    BY <1>2 DEF TypeIn, InDialog
  <2>3. dialog[k].target = dialog[k].ref /\ dialog[k].original.for = dialog[k].ref
    BY <2>2, DraftIsSound
  <2>4. f.for = dialog[k].target
    OBVIOUS
  <2> HIDE DEF f
  <2>5. /\ DOMAIN typed = DraftFields /\ typed.form = f /\ typed.original = dialog[k].original
        /\ typed.ref = dialog[k].ref /\ typed.target = dialog[k].target
    BY <1>0, FormOnly
  <2> HIDE DEF typed
  <2>6. typed.form.for = typed.ref /\ typed.original.for = typed.ref /\ typed.target = typed.ref
    BY <2>3, <2>4, <2>5
  <2>7. DraftsAreSound'
    BY <2>1, <2>5, <2>6, OneDraft
  <2> QED
    BY <1>1, <2>7, DialogOnly
<1>3. CASE Leave(k)
  <2>1. dialog' = [dialog EXCEPT ![k] = left]
    BY <1>3 DEF Leave
  <2>2. /\ DOMAIN left = DraftFields /\ left.form = dialog[k].form /\ left.original = dialog[k].original
        /\ left.ref = dialog[k].ref /\ left.open = FALSE
    BY <1>0, CloseOnly
  <2> HIDE DEF left
  <2>3. left.form.for = left.ref /\ left.original.for = left.ref
    BY <2>2, DraftIsSound
  <2>4. ~left.open
    BY <2>2
  <2>5. DraftsAreSound'
    BY <2>1, <2>2, <2>3, <2>4, OneDraft
  <2> QED
    BY <1>1, <2>5, DialogOnly
<1> QED
  BY <1>2, <1>3

\* Reverted to what was there when the dialog was opened for that row.
LEMMA CancelsKeepProducts ==
    ASSUME ProductsInv, CancelEditClass \/ CancelEditVariant PROVE ProductsInv'
<1>1. PICK k \in Edits : /\ dialog' = [dialog EXCEPT ![k].form = dialog[k].original]
                         /\ UNCHANGED <<stock, page, calls, removed>>
  BY DEF CancelEditClass, CancelEditVariant, Edits
<1> DEFINE d == [dialog[k] EXCEPT !.form = dialog[k].original]
<1>0. k \in Adds \cup Edits
  OBVIOUS
<1>2. dialog' = [dialog EXCEPT ![k] = d]
  BY <1>1
<1>3. DOMAIN dialog[k] = DraftFields /\ dialog[k].original.for = dialog[k].ref
  BY <1>0, DraftIsSound
<1>4. dialog[k].open => dialog[k].target = dialog[k].ref
  BY <1>0, DraftIsSound
<1>5. /\ DOMAIN d = DraftFields /\ d.form = dialog[k].original /\ d.original = dialog[k].original
      /\ d.ref = dialog[k].ref /\ d.target = dialog[k].target /\ d.open = dialog[k].open
  BY <1>3, FormOnly
<1> HIDE DEF d
<1>6. d.form.for = d.ref /\ d.original.for = d.ref
  BY <1>3, <1>5
<1>7. d.open => d.target = d.ref
  BY <1>4, <1>5, Zenon
<1>8. DraftsAreSound'
  BY <1>0, <1>2, <1>5, <1>6, <1>7, OneDraft
<1> QED
  BY <1>1, <1>8, DialogOnly

\* What is sent is of the dialog that is open.
LEMMA SubmitKeepsProducts ==
    ASSUME ProductsInv, NEW k \in Adds \cup Edits, Submit(k) PROVE ProductsInv'
<1> DEFINE c == [what |-> k, target |-> dialog[k].target, form |-> dialog[k].form, filter |-> page.filter]
<1>1. /\ dialog[k].open /\ page' = [page EXCEPT !.saving = TRUE] /\ calls' = calls \cup {c}
      /\ UNCHANGED <<stock, dialog, removed>>
  BY DEF Submit, InDialog
<1>2. dialog[k].form.for = dialog[k].target /\ page.filter \in Filters /\ DOMAIN page = PageFields
  BY <1>1 DEF ProductsInv, DraftsAreSound
<1>3. c.what = k /\ c.form.for = c.target /\ c.filter \in Filters
  BY <1>2
<1> HIDE DEF c
<1>4. CallSound(c, stock)
  BY <1>3 DEF CallSound, Adds, Edits
<1>5. DOMAIN page' = PageFields /\ page'.filter \in Filters /\ page'.list = page.list
  BY <1>1, <1>2 DEF PageFields
<1> QED
  BY <1>1, <1>4, <1>5, DraftsUnchanged, PageOnly

\* The dialog closes, its draft still of the row it was opened for.
LEMMA SavedKeepsProducts ==
    ASSUME ProductsInv, NEW c \in calls, NEW form, c.what \in Adds \cup Edits, Saved(c, form),
           form.for = dialog[c.what].ref, StockKept(stock')
    PROVE  ProductsInv'
<1> DEFINE k == c.what
           d == [dialog[k] EXCEPT !.open = FALSE, !.form = form]
<1>1. dialog' = [dialog EXCEPT ![k] = d]
  BY DEF Saved
<1>2. DOMAIN dialog[k] = DraftFields /\ dialog[k].original.for = dialog[k].ref
  BY DEF ProductsInv, DraftsAreSound
<1>3. DOMAIN d = DraftFields /\ d.form.for = d.ref /\ d.original.for = d.ref
  BY <1>2 DEF DraftFields
<1>4. ~d.open
  BY <1>2 DEF DraftFields
<1> HIDE DEF d
<1>5. DraftsAreSound'
  BY <1>1, <1>3, <1>4, OneDraft
<1>6. /\ page' = [page EXCEPT !.loading = TRUE] /\ removed' = removed
      /\ calls' = (calls \ {c}) \cup {Loading(c.what, c.filter)}
  BY DEF Saved
<1>7. DOMAIN page' = PageFields /\ page'.filter \in Filters /\ page'.list = page.list
  BY <1>6 DEF ProductsInv, PageFields
<1>8. c.filter \in Filters
  BY DEF ProductsInv, CallSound
<1>9. CallSound(Loading(c.what, c.filter), stock')
  BY <1>8, LoadingIsSound
<1> QED
  BY <1>5, <1>6, <1>7, <1>9, ProductsKept

\* A row is added or edited, or the change is refused.
LEMMA SavesKeepProducts ==
    ASSUME ProductsInv, NEW c \in calls, RowEdited(c) \/ SaveFails(c) \/ \E r \in Rows : Added(c, r)
    PROVE  ProductsInv'
<1>1. CASE RowEdited(c)
  <2>1. /\ c.what \in Edits /\ stock' = [stock EXCEPT ![c.target].text = c.form.text]
        /\ Saved(c, dialog[c.what].form)
    BY <1>1 DEF RowEdited
  <2>2. \A r \in Rows : stock'[r].status = stock[r].status /\ DOMAIN stock'[r] = RowFields
    BY <2>1 DEF ProductsInv, StockIsSound, RowFields
  <2>3. StockKept(stock')
    BY <2>1, <2>2 DEF ProductsInv, StockIsSound, StockKept
  <2>4. dialog[c.what].form.for = dialog[c.what].ref
    BY <2>1 DEF ProductsInv, DraftsAreSound
  <2> QED
    BY <2>1, <2>3, <2>4, SavedKeepsProducts
<1>2. ASSUME NEW r \in Rows, Added(c, r) PROVE ProductsInv'
  <2> DEFINE form == [text |-> NoText, for |-> dialog[c.what].ref]
  <2>1. /\ c.what \in Adds /\ stock[r].status = "none" /\ Saved(c, form)
        /\ stock' = [stock EXCEPT ![r] = [status |-> "ACTIVE", text |-> c.form.text]]
    BY <1>2 DEF Added
  <2>2. StockKept(stock')
    BY <2>1 DEF ProductsInv, StockIsSound, StockKept, RowFields
  <2>3. form.for = dialog[c.what].ref
    OBVIOUS
  <2> HIDE DEF form
  <2> QED
    BY <2>1, <2>2, <2>3, SavedKeepsProducts
<1>3. CASE SaveFails(c)
  <2>1. /\ UNCHANGED <<stock, dialog, removed>> /\ calls' \subseteq calls
        /\ page' = [page EXCEPT !.saving = FALSE]
    BY <1>3 DEF SaveFails
  <2>2. DOMAIN page' = PageFields /\ page'.filter \in Filters /\ page'.list = page.list
    BY <2>1 DEF ProductsInv, PageFields
  <2> QED
    BY <2>1, <2>2, DraftsUnchanged, PageOnly
<1> QED
  BY <1>1, <1>2, <1>3

\* Another administrator deletes or edits; no row goes.
LEMMA OthersKeepProducts ==
    ASSUME ProductsInv, NEW r \in Rows, NEW text, OthersChange(r, text) PROVE ProductsInv'
<1>1. /\ UNCHANGED <<page, dialog, calls, removed>>
      /\ stock' = Without({r}) \/ stock' = [stock EXCEPT ![r].text = text]
  BY DEF OthersChange
<1>2. StockKept(Without({r}))
  BY WithoutIsKept DEF ProductsInv
<1>3. StockKept([stock EXCEPT ![r].text = text])
  <2>1. \A s \in Rows : /\ [stock EXCEPT ![r].text = text][s].status = stock[s].status
                        /\ DOMAIN [stock EXCEPT ![r].text = text][s] = RowFields
    BY DEF ProductsInv, StockIsSound, RowFields
  <2> QED
    BY <2>1 DEF ProductsInv, StockIsSound, StockKept
<1>4. DOMAIN page' = PageFields /\ page'.filter \in Filters /\ page'.list = page.list
  BY <1>1 DEF ProductsInv
<1> QED
  BY <1>1, <1>2, <1>3, <1>4, DraftsUnchanged, ProductsKept

\* Every step in the dialogs keeps the invariant.
LEMMA DialogsKeepProducts == ASSUME ProductsInv, InDialogs PROVE ProductsInv'
<1>1. {"class", "variant", "coverage", "period", "editClass", "editVariant"} = Adds \cup Edits
  BY DEF Adds, Edits
<1>2. ASSUME OpenClassDialog PROVE ProductsInv'
  BY <1>1, <1>2, OpenKeepsProducts DEF OpenClassDialog
<1>3. ASSUME NEW r \in Rows, \/ OpenVariantDialog(r) \/ OpenCoverageDialog(r) \/ OpenAddPeriod(r)
                             \/ OpenEditClass(r) \/ OpenEditVariant(r)
      PROVE  ProductsInv'
  BY <1>1, <1>3, OpenKeepsProducts
     DEF OpenVariantDialog, OpenCoverageDialog, OpenAddPeriod, OpenEditClass, OpenEditVariant
<1>4. ASSUME \/ SubmitClass \/ SubmitVariant \/ SubmitCoverage \/ SubmitPeriod
             \/ SubmitEditClass \/ SubmitEditVariant
      PROVE  ProductsInv'
  BY <1>1, <1>4, SubmitKeepsProducts
     DEF SubmitClass, SubmitVariant, SubmitCoverage, SubmitPeriod, SubmitEditClass, SubmitEditVariant
<1> QED
  BY <1>2, <1>3, <1>4, CancelsKeepProducts, TypingKeepsProducts DEF InDialogs

\* Every step of the page keeps the invariant.
LEMMA ProductsStepKeeps == ProductsInv /\ [ProductsNext]_productsVars => ProductsInv'
<1> SUFFICES ASSUME ProductsInv, [ProductsNext]_productsVars PROVE ProductsInv'
  OBVIOUS
<1>1. CASE UNCHANGED productsVars
  BY <1>1 DEF productsVars, ProductsInv, StockIsSound, DraftsAreSound
<1>2. CASE ProductsNext
  BY <1>2, MarksKeepProducts, OthersKeepProducts, DialogsKeepProducts, LoadsKeepProducts,
     DeletionKeepsProducts, SavesKeepProducts DEF ProductsNext, Filters
<1> QED
  BY <1>1, <1>2

\* SentAsShown, for any rows: what is typed for a row is sent for that row, and
\* what was struck out is deleted (pages/ManageProducts.jsx).
THEOREM ProductsAreSentAsShown == ProductsSpec => []SentAsShown
<1>1. ProductsInv => SentAsShown
  BY DEF ProductsInv, SentAsShown, DraftsAreForTheirRow, StruckOutIsRemoved, CallSound, RemovedAreGone
<1> QED
  BY <1>1, ProductsStartSound, ProductsStepKeeps, PTL DEF ProductsSpec

-----------------------------------------------------------------------------
(* Vehicles: the inductive invariant.  A request's lines hold as it checked    *)
(* them, its transaction has locked what it has written, and has found all     *)
(* that is open of it.                                                        *)

Holders == Parties \cup {Nobody}
Reqs    == OwnerReqs \cup {Nobody}

CarFields == {"plate", "assessed"}
ReqFields == {"pc", "kind", "party", "lines", "at", "from", "read", "cars", "closes", "writes"}

CarRow     == [plate : Plates \cup {NoPlate}, assessed : BOOLEAN]
OwnedRow   == [car : Cars, party : Holders, open : BOOLEAN]
FilingRow  == [kind : {"none", "quotation", "application"}, party : Holders, cars : Seq(Cars),
               status : {"quoted", "pending", "converted", "active", "over"}]
WriteRow   == [car : Cars, assessed : BOOLEAN, plate : Plates \cup {NoPlate}]

TxSteps == {"write", "update", "close", "commit"}

TablesTyped ==
    /\ car \in [Cars -> CarRow] /\ ownerships \in Seq(OwnedRow) /\ filings \in Seq(FilingRow)
    /\ rowLock \in [Cars -> Reqs]
    /\ DOMAIN ownerReq = OwnerReqs /\ ownerReq = [r \in OwnerReqs |-> ownerReq[r]]

ReqTyped(r) ==
    LET q == ownerReq[r]
    IN  /\ DOMAIN q = ReqFields
        /\ q.kind \in {"none", "quotation", "application"} /\ q.party \in Holders
        /\ q.lines \in Seq(LineType) /\ q.at \in Nat /\ q.from \in Nat /\ q.read \in BOOLEAN
        /\ q.cars \in Seq(Cars) /\ q.writes \in Seq(WriteRow)

\* Who has owned what, and what is on file.
Record == {<<ownerships[o].party, ownerships[o].car>> : o \in DOMAIN ownerships}
OnFiles == {v \in Cars : OnFile(v)}

LineHeld(r, i) ==
    /\ ownerReq[r].lines[i].car # NoCar /\ ownerReq[r].lines[i].takeOver =>
          ownerReq[r].lines[i].car \in OnFiles
    /\ ownerReq[r].lines[i].car # NoCar /\ ~ownerReq[r].lines[i].takeOver =>
          <<ownerReq[r].party, ownerReq[r].lines[i].car>> \in Record

\* What is under way, of the steps a request goes through.
Filing(r) == ownerReq[r].from = 0 /\ ownerReq[r].pc \in {"checkLine", "checkPending", "checkPolicies"} \cup TxSteps

LinesSound(r) ==
    LET q == ownerReq[r]
    IN  /\ Filing(r) => /\ q.at \in DOMAIN q.lines
                        /\ \A i \in DOMAIN q.lines : q.lines[i].car = NoCar => q.lines[i].plate # NoPlate
                        /\ \A i \in DOMAIN q.lines : (q.pc = "checkLine" => i < q.at) => LineHeld(r, i)
        /\ q.pc \in {"checkLine"} \cup TxSteps => q.from = 0
        /\ q.from # 0 => q.from \in DOMAIN filings
        /\ q.pc = "convert" => q.from # 0
        /\ q.pc \in {"editCheck", "editWrite", "update", "close"} => Line(r).car \in OnFiles
        /\ q.pc \in {"editCheck", "editWrite"} => Line(r).plate \in Plates

Touched(r) == {ownerReq[r].writes[i].car : i \in DOMAIN ownerReq[r].writes}

WritesSound(r) ==
    LET q == ownerReq[r]
    IN  /\ q.pc \notin TxSteps => q.writes = << >> /\ q.closes = {} /\ q.cars = << >>
        /\ \A v \in Touched(r) : rowLock[v] = r
        /\ \A i \in DOMAIN q.writes : q.writes[i].plate # NoPlate \/ q.writes[i].car \in OnFiles
        /\ \A v \in Touched(r) : \E j \in DOMAIN q.writes : q.writes[j].car = v /\ LastWrite(q.writes, j)
        /\ \A o \in q.closes : o \in DOMAIN ownerships /\ ownerships[o].car \in Touched(r)
        /\ \A v \in Touched(r) : OpenOf(v) \subseteq q.closes \/ (q.pc = "close" /\ v = Line(r).car)
        /\ q.pc = "close" => Line(r).car \in Touched(r)
        /\ \A i \in DOMAIN q.cars : <<q.party, q.cars[i]>> \in Record \/ q.cars[i] \in Touched(r)

OwnedOnFile == \A o \in DOMAIN ownerships : ownerships[o].car \in OnFiles

OneIsOpen == \A v \in OnFiles : \E o : OpenOf(v) = {o}

OwnershipInv ==
    /\ TablesTyped /\ OwnedOnFile /\ OneIsOpen /\ FiledByAnOwner
    /\ \A r \in OwnerReqs : ReqTyped(r) /\ LinesSound(r) /\ WritesSound(r)

\* What no step takes back: a vehicle stays on file, what somebody owned stays
\* on record, and filings stay.
RecordKept ==
    /\ \A o \in DOMAIN ownerships : /\ o \in DOMAIN ownerships'
                                    /\ ownerships'[o].car = ownerships[o].car
                                    /\ ownerships'[o].party = ownerships[o].party
    /\ OnFiles \subseteq OnFiles'
    /\ \A f \in DOMAIN filings : f \in DOMAIN filings'

\* Who has owned what stays on record.
LEMMA RecordGrows ==
    ASSUME RecordKept PROVE Record \subseteq Record'
BY DEF RecordKept, Record

\* The fields of a request, one by one.
LEMMA TypedOf ==
    ASSUME NEW r \in OwnerReqs, ReqTyped(r)
    PROVE  /\ DOMAIN ownerReq[r] = ReqFields
           /\ \A i \in DOMAIN ownerReq[r].lines : ownerReq[r].lines[i] \in LineType
           /\ \A i \in DOMAIN ownerReq[r].writes : ownerReq[r].writes[i] \in WriteRow
           /\ \A i \in DOMAIN ownerReq[r].cars : ownerReq[r].cars[i] \in Cars
BY DEF ReqTyped

\* What a transaction has written is of vehicles there may be.
LEMMA TouchedAreCars ==
    ASSUME NEW r \in OwnerReqs, ReqTyped(r) PROVE Touched(r) \subseteq Cars
<1>1. \A i \in DOMAIN ownerReq[r].writes : ownerReq[r].writes[i] \in WriteRow
  BY TypedOf
<1> QED
  BY <1>1 DEF Touched, WriteRow

\* The lines of a request that does nothing stay sound.
LEMMA LinesKept ==
    ASSUME OwnershipInv, RecordKept, NEW s \in OwnerReqs, ownerReq'[s] = ownerReq[s]
    PROVE  ReqTyped(s)' /\ LinesSound(s)'
<1>1. ReqTyped(s) /\ LinesSound(s)
  BY DEF OwnershipInv
<1>2. ReqTyped(s)'
  BY <1>1 DEF ReqTyped
<1>3. ASSUME NEW i \in DOMAIN ownerReq[s].lines, LineHeld(s, i) PROVE LineHeld(s, i)'
  BY <1>3, RecordGrows DEF LineHeld, RecordKept
<1>4. Line(s)' = Line(s) /\ (Line(s).car \in OnFiles => Line(s).car \in OnFiles')
  BY DEF RecordKept, Line
<1>5. LinesSound(s)'
  BY <1>1, <1>3, <1>4 DEF LinesSound, Filing, RecordKept
<1> QED
  BY <1>2, <1>5

\* What a request has written stays sound while others do not touch its rows.
LEMMA WritesKept ==
    ASSUME OwnershipInv, RecordKept, NEW s \in OwnerReqs, ownerReq'[s] = ownerReq[s],
           \A v \in Cars : rowLock[v] = s => rowLock'[v] = s /\ OpenOf(v)' \subseteq OpenOf(v)
    PROVE  WritesSound(s)'
<1>1. WritesSound(s) /\ ReqTyped(s)
  BY DEF OwnershipInv
<1>2. Touched(s)' = Touched(s) /\ Line(s)' = Line(s)
  BY DEF Touched, Line
<1>3. Touched(s) \subseteq Cars
  BY <1>1, TouchedAreCars
<1>4. \A o \in ownerReq[s].closes : o \in DOMAIN ownerships' /\ ownerships'[o].car \in Touched(s)
  BY <1>1 DEF WritesSound, RecordKept
<1>5. ASSUME NEW v \in Touched(s)
      PROVE  /\ rowLock'[v] = s
             /\ OpenOf(v)' \subseteq ownerReq[s].closes \/ (ownerReq[s].pc = "close" /\ v = Line(s).car)
  BY <1>1, <1>3 DEF WritesSound
<1>6. Record \subseteq Record' /\ OnFiles \subseteq OnFiles'
  BY RecordGrows DEF RecordKept
<1> QED
  BY <1>1, <1>2, <1>4, <1>5, <1>6 DEF WritesSound

\* A step of one request that writes to no table; no lock of another is taken.
LEMMA OneRequest ==
    ASSUME OwnershipInv, NEW r \in OwnerReqs, UNCHANGED <<car, ownerships, filings>>,
           DOMAIN ownerReq' = OwnerReqs, ownerReq' = [s \in OwnerReqs |-> ownerReq'[s]],
           \A s \in OwnerReqs \ {r} : ownerReq'[s] = ownerReq[s],
           rowLock' \in [Cars -> Reqs],
           \A v \in Cars : rowLock[v] \notin {Nobody, r} => rowLock'[v] = rowLock[v],
           ReqTyped(r)', LinesSound(r)', WritesSound(r)'
    PROVE  OwnershipInv'
<1>1. RecordKept
  BY DEF RecordKept, OnFiles, OnFile
<1>2. \A v : OpenOf(v)' = OpenOf(v)
  BY DEF OpenOf
<1>3. TablesTyped' /\ OwnedOnFile' /\ OneIsOpen' /\ FiledByAnOwner'
  <2>1. TablesTyped' /\ FiledByAnOwner'
    BY DEF OwnershipInv, TablesTyped, FiledByAnOwner
  <2>2. OnFiles' = OnFiles
    BY DEF OnFiles, OnFile
  <2>3. OwnedOnFile' /\ OneIsOpen'
    BY <1>2, <2>2 DEF OwnershipInv, OwnedOnFile, OneIsOpen
  <2> QED
    BY <2>1, <2>3
<1>4. ASSUME NEW s \in OwnerReqs PROVE ReqTyped(s)' /\ LinesSound(s)' /\ WritesSound(s)'
  <2>1. CASE s = r
    BY <2>1
  <2>2. CASE s # r
    <3>1. ownerReq'[s] = ownerReq[s]
      BY <2>2
    <3>2. \A v \in Cars : rowLock[v] = s => rowLock'[v] = s /\ OpenOf(v)' \subseteq OpenOf(v)
      BY <1>2, <2>2, OwnershipAssumption
    <3> QED
      BY <1>1, <3>1, <3>2, LinesKept, WritesKept
  <2> QED
    BY <2>1, <2>2
<1> QED
  BY <1>3, <1>4 DEF OwnershipInv

\* A request that has ended holds nothing.
LEMMA NoLinesSound ==
    ASSUME NEW r \in OwnerReqs, ownerReq'[r] = NoLines
    PROVE  ReqTyped(r)' /\ LinesSound(r)' /\ WritesSound(r)'
<1>1. ReqTyped(r)'
  BY DEF ReqTyped, NoLines, ReqFields, Holders
<1>2. ownerReq'[r].pc = "idle" /\ ownerReq'[r].from = 0
  BY DEF NoLines
<1>3. LinesSound(r)'
  BY <1>2 DEF LinesSound, Filing, TxSteps
<1>4. ownerReq'[r].writes = << >> /\ ownerReq'[r].closes = {} /\ ownerReq'[r].cars = << >>
  BY DEF NoLines
<1>5. Touched(r)' = {}
  BY <1>4 DEF Touched
<1>6. WritesSound(r)'
  BY <1>2, <1>4, <1>5 DEF WritesSound, TxSteps
<1> QED
  BY <1>1, <1>3, <1>6

\* A request that ends frees its rows, and no other's.
LEMMA FinishFrees ==
    ASSUME OwnershipInv, NEW r \in OwnerReqs, Finish(r)
    PROVE  /\ DOMAIN ownerReq' = OwnerReqs /\ ownerReq' = [s \in OwnerReqs |-> ownerReq'[s]]
           /\ \A s \in OwnerReqs \ {r} : ownerReq'[s] = ownerReq[s]
           /\ ownerReq'[r] = NoLines
           /\ rowLock' \in [Cars -> Reqs]
           /\ \A v \in Cars : rowLock[v] \notin {Nobody, r} => rowLock'[v] = rowLock[v]
BY DEF OwnershipInv, TablesTyped, Finish, Reqs

\* One that is refused, fails or is rolled back leaves no trace.
LEMMA DropKeepsOwnership ==
    ASSUME OwnershipInv, NEW r \in OwnerReqs, Drop(r) PROVE OwnershipInv'
<1>1. Finish(r) /\ UNCHANGED <<car, ownerships, filings>>
  BY DEF Drop
<1> QED
  BY <1>1, FinishFrees, NoLinesSound, OneRequest

\* A step that only moves one request on.
LEMMA OnlyTheRequest ==
    ASSUME OwnershipInv, NEW r \in OwnerReqs, NEW q, ownerReq' = [ownerReq EXCEPT ![r] = q],
           UNCHANGED <<car, ownerships, filings, rowLock>>,
           ReqTyped(r)', LinesSound(r)', WritesSound(r)'
    PROVE  OwnershipInv'
<1>1. /\ DOMAIN ownerReq' = OwnerReqs /\ ownerReq' = [s \in OwnerReqs |-> ownerReq'[s]]
      /\ \A s \in OwnerReqs \ {r} : ownerReq'[s] = ownerReq[s]
      /\ rowLock' \in [Cars -> Reqs]
  BY DEF OwnershipInv, TablesTyped
<1>2. \A v \in Cars : rowLock[v] \notin {Nobody, r} => rowLock'[v] = rowLock[v]
  OBVIOUS
<1> QED
  BY <1>1, <1>2, OneRequest

\* Outside its transaction a request has written nothing.
LEMMA NothingWritten ==
    ASSUME NEW r \in OwnerReqs, ownerReq'[r].pc \notin TxSteps,
           ownerReq'[r].writes = << >>, ownerReq'[r].closes = {}, ownerReq'[r].cars = << >>
    PROVE  WritesSound(r)'
<1>1. Touched(r)' = {}
  BY DEF Touched
<1> QED
  BY <1>1 DEF WritesSound, TxSteps

\* A filing comes in, for lines none of which has been checked.
LEMMA FileLinesKeeps ==
    ASSUME OwnershipInv, NEW r \in OwnerReqs, NEW kind \in {"quotation", "application"}, NEW p \in Parties,
           NEW lines \in LineUps, FileLines(r, kind, p, lines)
    PROVE  OwnershipInv'
<1> DEFINE q == [NoLines EXCEPT !.pc = "checkLine", !.kind = kind, !.party = p, !.lines = lines]
<1>1. ownerReq' = [ownerReq EXCEPT ![r] = q] /\ UNCHANGED <<car, ownerships, filings, rowLock>>
  BY DEF FileLines
<1>2. DOMAIN ownerReq = OwnerReqs
  BY DEF OwnershipInv, TablesTyped
<1>3. ownerReq'[r] = q
  BY <1>1, <1>2
<1>4. /\ DOMAIN q = ReqFields /\ q.pc = "checkLine" /\ q.kind = kind /\ q.party = p /\ q.lines = lines
      /\ q.at = 1 /\ q.from = 0 /\ q.read = FALSE /\ q.cars = << >> /\ q.closes = {} /\ q.writes = << >>
  BY DEF NoLines, ReqFields
<1> HIDE DEF q
<1>5. lines \in Seq(LineType) /\ lines # << >>
  BY OwnershipAssumption
<1>6. \A i \in DOMAIN lines : lines[i].car = NoCar => lines[i].plate # NoPlate
  BY OwnershipAssumption
<1>7. 1 \in DOMAIN lines /\ \A i \in DOMAIN lines : ~(i < 1)
  BY <1>5
<1>8. ReqTyped(r)'
  <2>1. << >> \in Seq(Cars) /\ << >> \in Seq(WriteRow) /\ FALSE \in BOOLEAN /\ p \in Holders
    BY DEF Holders
  <2>2. q.kind \in {"none", "quotation", "application"}
    BY <1>4
  <2>3. q.party \in Holders /\ q.lines \in Seq(LineType) /\ q.at \in Nat /\ q.from \in Nat
    BY <1>4, <1>5, <2>1
  <2>4. q.read \in BOOLEAN
    BY <1>4
  <2>5. q.cars \in Seq(Cars) /\ q.writes \in Seq(WriteRow)
    BY <1>4, <2>1
  <2> QED
    BY <1>3, <1>4, <2>2, <2>3, <2>4, <2>5 DEF ReqTyped
<1>9. LinesSound(r)'
  BY <1>3, <1>4, <1>6, <1>7 DEF LinesSound, Filing, TxSteps
<1>10. WritesSound(r)'
  BY <1>3, <1>4, NothingWritten DEF TxSteps
<1> QED
  BY <1>1, <1>8, <1>9, <1>10, OnlyTheRequest

\* Lines that have been checked stay so when no table is written.
LEMMA LinesHeldStill ==
    ASSUME NEW r \in OwnerReqs, UNCHANGED <<car, ownerships>>,
           ownerReq'[r].lines = ownerReq[r].lines, ownerReq'[r].party = ownerReq[r].party,
           NEW i, LineHeld(r, i)
    PROVE  LineHeld(r, i)'
<1>1. OnFiles' = OnFiles /\ Record' = Record
  BY DEF OnFiles, OnFile, Record
<1> QED
  BY <1>1 DEF LineHeld

\* Before and after its transaction a request has written nothing.
LEMMA StillNothing ==
    ASSUME OwnershipInv, NEW r \in OwnerReqs, ownerReq[r].pc \notin TxSteps, ownerReq'[r].pc \notin TxSteps,
           ownerReq'[r].writes = ownerReq[r].writes, ownerReq'[r].closes = ownerReq[r].closes,
           ownerReq'[r].cars = ownerReq[r].cars
    PROVE  WritesSound(r)'
<1>1. ownerReq[r].writes = << >> /\ ownerReq[r].closes = {} /\ ownerReq[r].cars = << >>
  BY DEF OwnershipInv, WritesSound
<1> QED
  BY <1>1, NothingWritten

\* One that moves on, its lines and its writes the same.
LEMMA LineMovesOn ==
    ASSUME OwnershipInv, NEW r \in OwnerReqs, NEW step, NEW n \in Nat,
           ownerReq' = [ownerReq EXCEPT ![r] = [ownerReq[r] EXCEPT !.pc = step, !.at = n]]
    PROVE  /\ ReqTyped(r)'
           /\ ownerReq'[r].pc = step /\ ownerReq'[r].at = n
           /\ ownerReq'[r].lines = ownerReq[r].lines /\ ownerReq'[r].party = ownerReq[r].party
           /\ ownerReq'[r].from = ownerReq[r].from /\ ownerReq'[r].kind = ownerReq[r].kind
           /\ ownerReq'[r].writes = ownerReq[r].writes /\ ownerReq'[r].closes = ownerReq[r].closes
           /\ ownerReq'[r].cars = ownerReq[r].cars
<1>1. DOMAIN ownerReq = OwnerReqs /\ ReqTyped(r)
  BY DEF OwnershipInv, TablesTyped
<1> DEFINE q == [ownerReq[r] EXCEPT !.pc = step, !.at = n]
<1>2. ownerReq'[r] = q
  BY <1>1
<1>3. DOMAIN ownerReq[r] = ReqFields
  BY <1>1 DEF ReqTyped
<1>4. /\ DOMAIN q = ReqFields /\ q.pc = step /\ q.at = n
      /\ q.lines = ownerReq[r].lines /\ q.party = ownerReq[r].party /\ q.from = ownerReq[r].from
      /\ q.kind = ownerReq[r].kind /\ q.read = ownerReq[r].read
      /\ q.writes = ownerReq[r].writes /\ q.closes = ownerReq[r].closes /\ q.cars = ownerReq[r].cars
  BY <1>3 DEF ReqFields
<1> HIDE DEF q
<1>5. ReqTyped(r)'
  BY <1>1, <1>2, <1>4 DEF ReqTyped
<1> QED
  BY <1>2, <1>4, <1>5

\* Only the step a request is at changes.
LEMMA ProceedIs ==
    ASSUME OwnershipInv, NEW r \in OwnerReqs, NEW step, Proceed(r, step)
    PROVE  /\ ownerReq' = [ownerReq EXCEPT ![r] = [ownerReq[r] EXCEPT !.pc = step, !.at = ownerReq[r].at]]
           /\ ownerReq[r].at \in Nat
           /\ UNCHANGED <<car, ownerships, filings, rowLock>>
<1>1. ReqTyped(r) /\ DOMAIN ownerReq = OwnerReqs
  BY DEF OwnershipInv, TablesTyped
<1>2. DOMAIN ownerReq[r] = ReqFields /\ ownerReq[r].at \in Nat
  BY <1>1 DEF ReqTyped
<1>3. [ownerReq[r] EXCEPT !.pc = step] = [ownerReq[r] EXCEPT !.pc = step, !.at = ownerReq[r].at]
  BY <1>2 DEF ReqFields
<1>4. ownerReq' = [ownerReq EXCEPT ![r] = [ownerReq[r] EXCEPT !.pc = step]]
  BY DEF Proceed
<1> QED
  BY <1>2, <1>3, <1>4 DEF Proceed

\* A line is checked: on file if it is taken over, its party's otherwise.
LEMMA CheckLineKeeps ==
    ASSUME OwnershipInv, NEW r \in OwnerReqs, CheckLine(r) PROVE OwnershipInv'
<1> DEFINE q == ownerReq[r]
<1>0. ReqTyped(r) /\ LinesSound(r) /\ DOMAIN ownerReq = OwnerReqs /\ q.pc = "checkLine"
  BY DEF OwnershipInv, TablesTyped, CheckLine
<1>1. q.from = 0 /\ q.at \in DOMAIN q.lines /\ Filing(r)
      /\ (\A i \in DOMAIN q.lines : i < q.at => LineHeld(r, i))
      /\ (\A i \in DOMAIN q.lines : q.lines[i].car = NoCar => q.lines[i].plate # NoPlate)
  BY <1>0 DEF LinesSound, Filing
<1>2. q.lines \in Seq(LineType) /\ q.at \in Nat /\ DOMAIN q.lines = 1..Len(q.lines) /\ Len(q.lines) \in Nat
  BY <1>0 DEF ReqTyped
<1>3. CASE ~LineAllowed(q.party, Line(r))
  <2>1. Drop(r)
    BY <1>3 DEF CheckLine
  <2> QED
    BY <2>1, DropKeepsOwnership
<1>4. CASE LineAllowed(q.party, Line(r))
  <2>0. q.lines[q.at] \in LineType /\ q.lines[q.at] = Line(r)
    BY <1>1, <1>2 DEF Line
  <2>1. LineHeld(r, q.at)
    <3>1. CASE Line(r).car = NoCar
      BY <2>0, <3>1 DEF LineHeld
    <3>2. CASE Line(r).car # NoCar /\ Line(r).takeOver
      <4>1. OnFile(Line(r).car) /\ Line(r).car \in Cars
        BY <1>4, <3>2, <2>0 DEF LineAllowed, LineType
      <4>2. Line(r).car \in OnFiles
        BY <4>1 DEF OnFiles
      <4> QED
        BY <2>0, <3>2, <4>2 DEF LineHeld
    <3>3. CASE Line(r).car # NoCar /\ ~Line(r).takeOver
      <4>1. OwnedBy(q.party, Line(r).car)
        BY <1>4, <3>3 DEF LineAllowed
      <4>2. <<q.party, Line(r).car>> \in Record
        BY <4>1 DEF OwnedBy, OpenOf, Record
      <4> QED
        BY <2>0, <3>3, <4>2 DEF LineHeld
    <3> QED
      BY <3>1, <3>2, <3>3
  <2>2. \A i \in DOMAIN q.lines : i < q.at + 1 => LineHeld(r, i)
    BY <1>1, <1>2, <2>1
  <2>3. CASE q.at < Len(q.lines)
    <3>1. ownerReq' = [ownerReq EXCEPT ![r].at = q.at + 1] /\ UNCHANGED <<car, ownerships, filings, rowLock>>
      BY <1>4, <2>3 DEF CheckLine
    <3>2. DOMAIN ownerReq[r] = ReqFields
      BY <1>0 DEF ReqTyped
    <3>3. [ownerReq[r] EXCEPT !.at = q.at + 1] = [ownerReq[r] EXCEPT !.pc = "checkLine", !.at = q.at + 1]
      BY <1>0, <3>2 DEF ReqFields
    <3>4. ownerReq' = [ownerReq EXCEPT ![r] = [ownerReq[r] EXCEPT !.pc = "checkLine", !.at = q.at + 1]]
      BY <3>1, <3>3
    <3>5. q.at + 1 \in Nat /\ q.at + 1 \in DOMAIN q.lines
      BY <1>1, <1>2, <2>3
    <3> HIDE DEF q
    <3>6. /\ ReqTyped(r)'
          /\ ownerReq'[r].pc = "checkLine" /\ ownerReq'[r].at = q.at + 1
          /\ ownerReq'[r].lines = ownerReq[r].lines /\ ownerReq'[r].party = ownerReq[r].party
          /\ ownerReq'[r].from = ownerReq[r].from
          /\ ownerReq'[r].writes = ownerReq[r].writes /\ ownerReq'[r].closes = ownerReq[r].closes
          /\ ownerReq'[r].cars = ownerReq[r].cars
      BY <3>4, <3>5, LineMovesOn
    <3>7. \A i : LineHeld(r, i) => LineHeld(r, i)'
      BY <3>1, <3>6, LinesHeldStill
    <3>8. LinesSound(r)'
      BY <1>1, <2>2, <3>5, <3>6, <3>7 DEF LinesSound, Filing, TxSteps, q
    <3>9. WritesSound(r)'
      BY <1>0, <3>6, StillNothing DEF TxSteps, q
    <3> QED
      BY <3>1, <3>4, <3>6, <3>8, <3>9, OnlyTheRequest
  <2>4. CASE ~(q.at < Len(q.lines))
    <3>1. Proceed(r, "checkPending")
      BY <1>4, <2>4 DEF CheckLine
    <3>2. /\ ownerReq' = [ownerReq EXCEPT ![r] = [ownerReq[r] EXCEPT !.pc = "checkPending", !.at = ownerReq[r].at]]
          /\ ownerReq[r].at \in Nat
          /\ UNCHANGED <<car, ownerships, filings, rowLock>>
      BY <3>1, ProceedIs
    <3>3. \A i \in DOMAIN q.lines : LineHeld(r, i)
      BY <1>2, <2>2, <2>4
    <3>6. /\ ReqTyped(r)'
          /\ ownerReq'[r].pc = "checkPending" /\ ownerReq'[r].at = ownerReq[r].at
          /\ ownerReq'[r].lines = ownerReq[r].lines /\ ownerReq'[r].party = ownerReq[r].party
          /\ ownerReq'[r].from = ownerReq[r].from
          /\ ownerReq'[r].writes = ownerReq[r].writes /\ ownerReq'[r].closes = ownerReq[r].closes
          /\ ownerReq'[r].cars = ownerReq[r].cars
      BY <3>2, LineMovesOn
    <3>7. \A i : LineHeld(r, i) => LineHeld(r, i)'
      BY <3>2, <3>6, LinesHeldStill
    <3>8. LinesSound(r)'
      BY <1>1, <3>3, <3>6, <3>7 DEF LinesSound, Filing, TxSteps
    <3>9. WritesSound(r)'
      BY <1>0, <3>6, StillNothing DEF TxSteps
    <3> QED
      BY <3>2, <3>6, <3>8, <3>9, OnlyTheRequest
  <2> QED
    BY <2>3, <2>4
<1> QED
  BY <1>3, <1>4

\* From one check to the next.
LEMMA ChecksKeep ==
    ASSUME OwnershipInv, NEW r \in OwnerReqs, NEW step, Proceed(r, step),
           \/ ownerReq[r].pc = "checkPending" /\ step = "checkPolicies"
           \/ ownerReq[r].pc = "checkPolicies" /\ step = "convert" /\ ownerReq[r].from # 0
           \/ ownerReq[r].pc = "editCheck" /\ step = "editWrite"
    PROVE  OwnershipInv'
<1>0. LinesSound(r)
  BY DEF OwnershipInv
<1>1. /\ ownerReq' = [ownerReq EXCEPT ![r] = [ownerReq[r] EXCEPT !.pc = step, !.at = ownerReq[r].at]]
      /\ ownerReq[r].at \in Nat
      /\ UNCHANGED <<car, ownerships, filings, rowLock>>
  BY ProceedIs
<1>2. /\ ReqTyped(r)'
      /\ ownerReq'[r].pc = step /\ ownerReq'[r].at = ownerReq[r].at
      /\ ownerReq'[r].lines = ownerReq[r].lines /\ ownerReq'[r].party = ownerReq[r].party
      /\ ownerReq'[r].from = ownerReq[r].from
      /\ ownerReq'[r].writes = ownerReq[r].writes /\ ownerReq'[r].closes = ownerReq[r].closes
      /\ ownerReq'[r].cars = ownerReq[r].cars
  BY <1>1, LineMovesOn
<1>3. ownerReq[r].pc \notin TxSteps /\ step \notin TxSteps
  BY DEF TxSteps
<1>4. WritesSound(r)'
  BY <1>2, <1>3, StillNothing
<1>5. \A i : LineHeld(r, i) => LineHeld(r, i)'
  BY <1>1, <1>2, LinesHeldStill
<1>6. Line(r)' = Line(r) /\ OnFiles' = OnFiles /\ filings' = filings
  BY <1>1, <1>2 DEF Line, OnFiles, OnFile
<1>7. CASE ownerReq[r].pc = "checkPending" /\ step = "checkPolicies"
  <2>1. LinesSound(r)'
    BY <1>0, <1>2, <1>5, <1>6, <1>7 DEF LinesSound, Filing, TxSteps
  <2> QED
    BY <1>1, <1>2, <1>4, <2>1, OnlyTheRequest
<1>8. CASE ownerReq[r].pc = "checkPolicies" /\ step = "convert" /\ ownerReq[r].from # 0
  <2>1. LinesSound(r)'
    BY <1>0, <1>2, <1>5, <1>6, <1>8 DEF LinesSound, Filing, TxSteps
  <2> QED
    BY <1>1, <1>2, <1>4, <2>1, OnlyTheRequest
<1>9. CASE ownerReq[r].pc = "editCheck" /\ step = "editWrite"
  <2>1. LinesSound(r)'
    BY <1>0, <1>2, <1>5, <1>6, <1>9 DEF LinesSound, Filing, TxSteps
  <2> QED
    BY <1>1, <1>2, <1>4, <2>1, OnlyTheRequest
<1> QED
  BY <1>7, <1>8, <1>9

\* With every line checked the transaction begins, with nothing written.
LEMMA TransactionBegins ==
    ASSUME OwnershipInv, NEW r \in OwnerReqs, ownerReq[r].pc = "checkPolicies", ownerReq[r].from = 0,
           ownerReq' = [ownerReq EXCEPT ![r] = [ownerReq[r] EXCEPT !.pc = "write", !.at = 1]],
           UNCHANGED <<car, ownerships, filings, rowLock>>
    PROVE  OwnershipInv'
<1>0. LinesSound(r) /\ ReqTyped(r) /\ DOMAIN ownerReq = OwnerReqs
  BY DEF OwnershipInv, TablesTyped
<1>1. 1 \in Nat
  OBVIOUS
<1>2. /\ ReqTyped(r)'
      /\ ownerReq'[r].pc = "write" /\ ownerReq'[r].at = 1
      /\ ownerReq'[r].lines = ownerReq[r].lines /\ ownerReq'[r].party = ownerReq[r].party
      /\ ownerReq'[r].from = ownerReq[r].from
      /\ ownerReq'[r].writes = ownerReq[r].writes /\ ownerReq'[r].closes = ownerReq[r].closes
      /\ ownerReq'[r].cars = ownerReq[r].cars
  BY <1>1, LineMovesOn
<1>3. Filing(r)
  BY DEF Filing
<1>4. /\ ownerReq[r].at \in DOMAIN ownerReq[r].lines
      /\ \A i \in DOMAIN ownerReq[r].lines :
            ownerReq[r].lines[i].car = NoCar => ownerReq[r].lines[i].plate # NoPlate
      /\ \A i \in DOMAIN ownerReq[r].lines : LineHeld(r, i)
  BY <1>0, <1>3 DEF LinesSound
<1>5. ownerReq[r].lines \in Seq(LineType) /\ ownerReq[r].at \in Nat
  BY <1>0 DEF ReqTyped
<1>6. 1 \in DOMAIN ownerReq[r].lines
  BY <1>4, <1>5
<1>7. \A i : LineHeld(r, i) => LineHeld(r, i)'
  BY <1>2, LinesHeldStill
<1>8. LinesSound(r)'
  BY <1>2, <1>4, <1>6, <1>7 DEF LinesSound, Filing, TxSteps
<1>9. ownerReq[r].writes = << >> /\ ownerReq[r].closes = {} /\ ownerReq[r].cars = << >>
  BY DEF OwnershipInv, WritesSound, TxSteps
<1>10. Touched(r)' = {} /\ ownerReq'[r].writes = << >> /\ ownerReq'[r].closes = {} /\ ownerReq'[r].cars = << >>
  BY <1>2, <1>9 DEF Touched
<1>11. DOMAIN ownerReq'[r].writes = {} /\ DOMAIN ownerReq'[r].cars = {}
  BY <1>10
<1>12. WritesSound(r)'
  BY <1>2, <1>10, <1>11 DEF WritesSound, TxSteps
<1> QED
  BY <1>2, <1>8, <1>12, OnlyTheRequest

\* The check of what is pending.
LEMMA CheckPendingKeeps ==
    ASSUME OwnershipInv, NEW r \in OwnerReqs, CheckPendingFor(r) PROVE OwnershipInv'
<1>1. ownerReq[r].pc = "checkPending" /\ (Drop(r) \/ Proceed(r, "checkPolicies"))
  BY DEF CheckPendingFor
<1> QED
  BY <1>1, DropKeepsOwnership, ChecksKeep

\* The check of what is insured, after which a quotation is converted.
LEMMA CheckPoliciesKeeps ==
    ASSUME OwnershipInv, NEW r \in OwnerReqs, CheckPoliciesFor(r) PROVE OwnershipInv'
<1>1. CASE Claimed(NamedCars(r), "active")
  BY <1>1, DropKeepsOwnership DEF CheckPoliciesFor
<1>2. CASE ~Claimed(NamedCars(r), "active") /\ ownerReq[r].from # 0
  <2>1. ownerReq[r].pc = "checkPolicies" /\ Proceed(r, "convert")
    BY <1>2 DEF CheckPoliciesFor
  <2> QED
    BY <1>2, <2>1, ChecksKeep
<1>3. CASE ~Claimed(NamedCars(r), "active") /\ ownerReq[r].from = 0
  <2>1. /\ ownerReq' = [ownerReq EXCEPT ![r].pc = "write", ![r].at = 1]
        /\ UNCHANGED <<car, ownerships, filings, rowLock>> /\ ownerReq[r].pc = "checkPolicies"
    BY <1>3 DEF CheckPoliciesFor
  <2>2. ownerReq' = [ownerReq EXCEPT ![r] = [ownerReq[r] EXCEPT !.pc = "write", !.at = 1]]
    BY <2>1
  <2> QED
    BY <1>3, <2>1, <2>2, TransactionBegins
<1> QED
  BY <1>1, <1>2, <1>3

\* An edited identifier is checked.
LEMMA EditCheckKeeps ==
    ASSUME OwnershipInv, NEW r \in OwnerReqs, EditVehicleCheck(r) PROVE OwnershipInv'
<1>1. ownerReq[r].pc = "editCheck" /\ (Drop(r) \/ Proceed(r, "editWrite"))
  BY DEF EditVehicleCheck
<1> QED
  BY <1>1, DropKeepsOwnership, ChecksKeep

\* A quotation is submitted: its vehicles are its party's, for all it knows.
LEMMA SubmitKeepsOwnership ==
    ASSUME OwnershipInv, NEW r \in OwnerReqs, NEW f \in DOMAIN filings, SubmitFiling(r, f) PROVE OwnershipInv'
<1> DEFINE lines == [i \in DOMAIN filings[f].cars |->
                        [car |-> filings[f].cars[i], takeOver |-> FALSE, plate |-> NoPlate]]
           q == [NoLines EXCEPT !.pc = "checkPending", !.from = f, !.party = filings[f].party, !.lines = lines]
<1>1. ownerReq' = [ownerReq EXCEPT ![r] = q] /\ UNCHANGED <<car, ownerships, filings, rowLock>>
  BY DEF SubmitFiling
<1>2. DOMAIN ownerReq = OwnerReqs /\ filings \in Seq(FilingRow)
  BY DEF OwnershipInv, TablesTyped
<1>3. ownerReq'[r] = q
  BY <1>1, <1>2
<1>4. /\ DOMAIN q = ReqFields /\ q.pc = "checkPending" /\ q.kind = "none" /\ q.party = filings[f].party
      /\ q.lines = lines /\ q.at = 1 /\ q.from = f /\ q.read = FALSE
      /\ q.cars = << >> /\ q.closes = {} /\ q.writes = << >>
  BY DEF NoLines, ReqFields
<1> HIDE DEF q
<1>5. filings[f] \in FilingRow /\ f \in Nat /\ f # 0
  BY <1>2
<1>6. filings[f].party \in Holders /\ filings[f].cars \in Seq(Cars)
  BY <1>5 DEF FilingRow
<1>7. lines \in Seq(LineType)
  <2>1. DOMAIN filings[f].cars = 1..Len(filings[f].cars) /\ Len(filings[f].cars) \in Nat
    BY <1>6
  <2>2. \A i \in DOMAIN filings[f].cars :
           [car |-> filings[f].cars[i], takeOver |-> FALSE, plate |-> NoPlate] \in LineType
    BY <1>6 DEF LineType
  <2>3. lines \in [1..Len(filings[f].cars) -> LineType]
    BY <2>1, <2>2
  <2> HIDE DEF lines
  <2> QED
    BY <2>1, <2>3
<1> HIDE DEF lines
<1>8. ReqTyped(r)'
  <2>1. << >> \in Seq(Cars) /\ << >> \in Seq(WriteRow) /\ FALSE \in BOOLEAN
    OBVIOUS
  <2>2. q.kind \in {"none", "quotation", "application"}
    BY <1>4
  <2>3. q.party \in Holders /\ q.lines \in Seq(LineType) /\ q.at \in Nat /\ q.from \in Nat
    BY <1>4, <1>5, <1>6, <1>7
  <2>4. q.read \in BOOLEAN
    BY <1>4
  <2>5. q.cars \in Seq(Cars) /\ q.writes \in Seq(WriteRow)
    BY <1>4, <2>1
  <2> QED
    BY <1>3, <1>4, <2>2, <2>3, <2>4, <2>5 DEF ReqTyped
<1>9. LinesSound(r)'
  BY <1>1, <1>3, <1>4, <1>5 DEF LinesSound, Filing, TxSteps
<1>10. WritesSound(r)'
  BY <1>3, <1>4, NothingWritten DEF TxSteps
<1> QED
  BY <1>1, <1>8, <1>9, <1>10, OnlyTheRequest

\* A vehicle to be edited is somebody's, so it is on file.
LEMMA EditReadKeeps ==
    ASSUME OwnershipInv, NEW r \in OwnerReqs, NEW v \in Cars, NEW plate \in Plates, EditVehicleRead(r, v, plate)
    PROVE  OwnershipInv'
<1> DEFINE line == [car |-> v, takeOver |-> FALSE, plate |-> plate]
           q == [NoLines EXCEPT !.pc = "editCheck", !.read = car[v].assessed, !.lines = <<line>>]
<1>1. ownerReq' = [ownerReq EXCEPT ![r] = q] /\ UNCHANGED <<car, ownerships, filings, rowLock>>
  BY DEF EditVehicleRead
<1>2. DOMAIN ownerReq = OwnerReqs /\ car \in [Cars -> CarRow]
  BY DEF OwnershipInv, TablesTyped
<1>3. ownerReq'[r] = q
  BY <1>1, <1>2
<1>4. /\ DOMAIN q = ReqFields /\ q.pc = "editCheck" /\ q.kind = "none" /\ q.party = Nobody
      /\ q.lines = <<line>> /\ q.at = 1 /\ q.from = 0 /\ q.read = car[v].assessed
      /\ q.cars = << >> /\ q.closes = {} /\ q.writes = << >>
  BY DEF NoLines, ReqFields
<1> HIDE DEF q
<1>5. car[v].assessed \in BOOLEAN
  <2>1. car[v] \in CarRow
    BY <1>2
  <2> QED
    BY <2>1 DEF CarRow
<1>6. line \in LineType /\ line.car = v /\ line.plate = plate
  BY DEF LineType
<1>7. v \in OnFiles
  <2>1. PICK o \in DOMAIN ownerships : ownerships[o].car = v
    BY DEF EditVehicleRead, OpenOf
  <2> QED
    BY <2>1 DEF OwnershipInv, OwnedOnFile
<1> HIDE DEF line
<1>8. ReqTyped(r)'
  <2>1. << >> \in Seq(Cars) /\ << >> \in Seq(WriteRow) /\ <<line>> \in Seq(LineType)
    BY <1>6
  <2>2. q.kind \in {"none", "quotation", "application"}
    BY <1>4
  <2>3. q.party \in Holders /\ q.lines \in Seq(LineType) /\ q.at \in Nat /\ q.from \in Nat
    BY <1>4, <2>1 DEF Holders
  <2>4. q.read \in BOOLEAN
    BY <1>4, <1>5
  <2>5. q.cars \in Seq(Cars) /\ q.writes \in Seq(WriteRow)
    BY <1>4, <2>1
  <2> QED
    BY <1>3, <1>4, <2>2, <2>3, <2>4, <2>5 DEF ReqTyped
<1>9. Line(r)' = line /\ OnFiles' = OnFiles
  BY <1>1, <1>3, <1>4 DEF Line, OnFiles, OnFile
<1>10. LinesSound(r)'
  BY <1>3, <1>4, <1>6, <1>7, <1>9 DEF LinesSound, Filing, TxSteps
<1>11. WritesSound(r)'
  BY <1>3, <1>4, NothingWritten DEF TxSteps
<1> QED
  BY <1>1, <1>8, <1>10, <1>11, OnlyTheRequest

\* Requests when what they have read is not taken back, and one may have ended.
LEMMA RequestsKept ==
    ASSUME OwnershipInv, RecordKept,
           UNCHANGED <<rowLock, ownerReq>> \/ \E r \in OwnerReqs : Finish(r),
           \A s \in OwnerReqs, v \in Cars :
               rowLock[v] = s /\ rowLock'[v] = s => OpenOf(v)' \subseteq OpenOf(v)
    PROVE  /\ rowLock' \in [Cars -> Reqs]
           /\ DOMAIN ownerReq' = OwnerReqs /\ ownerReq' = [r \in OwnerReqs |-> ownerReq'[r]]
           /\ \A s \in OwnerReqs : ReqTyped(s)' /\ LinesSound(s)' /\ WritesSound(s)'
<1>1. CASE UNCHANGED <<rowLock, ownerReq>>
  <2>1. /\ rowLock' \in [Cars -> Reqs]
        /\ DOMAIN ownerReq' = OwnerReqs /\ ownerReq' = [r \in OwnerReqs |-> ownerReq'[r]]
    BY <1>1 DEF OwnershipInv, TablesTyped
  <2>2. ASSUME NEW s \in OwnerReqs PROVE ReqTyped(s)' /\ LinesSound(s)' /\ WritesSound(s)'
    <3>1. ownerReq'[s] = ownerReq[s]
      BY <1>1
    <3>2. \A v \in Cars : rowLock[v] = s => rowLock'[v] = s /\ OpenOf(v)' \subseteq OpenOf(v)
      BY <1>1
    <3> QED
      BY <3>1, <3>2, LinesKept, WritesKept
  <2> QED
    BY <2>1, <2>2
<1>2. CASE \E r \in OwnerReqs : Finish(r)
  <2>1. PICK r \in OwnerReqs : Finish(r)
    BY <1>2
  <2>2. /\ rowLock' \in [Cars -> Reqs]
        /\ DOMAIN ownerReq' = OwnerReqs /\ ownerReq' = [s \in OwnerReqs |-> ownerReq'[s]]
        /\ \A s \in OwnerReqs \ {r} : ownerReq'[s] = ownerReq[s]
        /\ ownerReq'[r] = NoLines
        /\ \A v \in Cars : rowLock[v] \notin {Nobody, r} => rowLock'[v] = rowLock[v]
    BY <2>1, FinishFrees
  <2>3. ASSUME NEW s \in OwnerReqs, s # r PROVE ReqTyped(s)' /\ LinesSound(s)' /\ WritesSound(s)'
    <3>1. ownerReq'[s] = ownerReq[s]
      BY <2>2, <2>3
    <3>2. \A v \in Cars : rowLock[v] = s => rowLock'[v] = s /\ OpenOf(v)' \subseteq OpenOf(v)
      BY <2>2, <2>3, OwnershipAssumption
    <3> QED
      BY <3>1, <3>2, LinesKept, WritesKept
  <2>4. ReqTyped(r)' /\ LinesSound(r)' /\ WritesSound(r)'
    BY <2>2, NoLinesSound
  <2> QED
    BY <2>2, <2>3, <2>4
<1> QED
  BY <1>1, <1>2

\* Steps that open and close no ownership.
LEMMA OwnersStay ==
    ASSUME OwnershipInv, UNCHANGED ownerships, car' \in [Cars -> CarRow], OnFiles' = OnFiles,
           filings' \in Seq(FilingRow), \A f \in DOMAIN filings : f \in DOMAIN filings',
           \A f \in DOMAIN filings' : \E g \in DOMAIN filings :
               filings'[f].party = filings[g].party /\ filings'[f].cars = filings[g].cars,
           UNCHANGED <<rowLock, ownerReq>> \/ \E r \in OwnerReqs : Finish(r)
    PROVE  OwnershipInv'
<1>1. RecordKept
  BY DEF RecordKept
<1>2. \A v : OpenOf(v)' = OpenOf(v)
  BY DEF OpenOf
<1>3. \A s \in OwnerReqs, v \in Cars : rowLock[v] = s /\ rowLock'[v] = s => OpenOf(v)' \subseteq OpenOf(v)
  BY <1>2
<1>4. /\ rowLock' \in [Cars -> Reqs]
      /\ DOMAIN ownerReq' = OwnerReqs /\ ownerReq' = [r \in OwnerReqs |-> ownerReq'[r]]
      /\ \A s \in OwnerReqs : ReqTyped(s)' /\ LinesSound(s)' /\ WritesSound(s)'
  BY <1>1, <1>3, RequestsKept
<1>5. OwnedOnFile' /\ OneIsOpen'
  BY <1>2 DEF OwnershipInv, OwnedOnFile, OneIsOpen
<1>6. FiledByAnOwner'
  <2>1. FiledByAnOwner
    BY DEF OwnershipInv
  <2>2. SUFFICES ASSUME NEW f \in DOMAIN filings', NEW i \in DOMAIN filings'[f].cars
                 PROVE  \E o \in DOMAIN ownerships :
                            ownerships[o].party = filings'[f].party /\ ownerships[o].car = filings'[f].cars[i]
    BY DEF FiledByAnOwner
  <2>3. PICK g \in DOMAIN filings : filings'[f].party = filings[g].party /\ filings'[f].cars = filings[g].cars
    OBVIOUS
  <2> QED
    BY <2>1, <2>3 DEF FiledByAnOwner
<1>7. TablesTyped'
  BY <1>4 DEF OwnershipInv, TablesTyped
<1> QED
  BY <1>4, <1>5, <1>6, <1>7 DEF OwnershipInv

\* A filing whose status changes keeps its party and its vehicles.
LEMMA FilingDecided ==
    ASSUME OwnershipInv, NEW f \in DOMAIN filings, NEW status \in {"converted", "active", "over"},
           filings' = [filings EXCEPT ![f].status = status]
    PROVE  /\ filings' \in Seq(FilingRow) /\ \A g \in DOMAIN filings : g \in DOMAIN filings'
           /\ \A g \in DOMAIN filings' : \E h \in DOMAIN filings :
                 filings'[g].party = filings[h].party /\ filings'[g].cars = filings[h].cars
<1>1. filings \in Seq(FilingRow)
  BY DEF OwnershipInv, TablesTyped
<1>2. filings[f] \in FilingRow
  BY <1>1
<1>3. [filings[f] EXCEPT !.status = status] \in FilingRow
  BY <1>2 DEF FilingRow
<1>4. filings' = [filings EXCEPT ![f] = [filings[f] EXCEPT !.status = status]]
  OBVIOUS
<1>5. filings' \in Seq(FilingRow)
  BY <1>1, <1>3, <1>4
<1>6. DOMAIN filings' = DOMAIN filings
  BY <1>4
<1>7. ASSUME NEW g \in DOMAIN filings
      PROVE  filings'[g].party = filings[g].party /\ filings'[g].cars = filings[g].cars
  <2>1. CASE g = f
    BY <1>2, <1>4, <2>1 DEF FilingRow
  <2>2. CASE g # f
    BY <1>4, <2>2
  <2> QED
    BY <2>1, <2>2
<1> QED
  BY <1>5, <1>6, <1>7

\* Approved, rejected or over: vehicles may be assessed, and stay whose they
\* are.
LEMMA DecisionKeepsOwnership ==
    ASSUME OwnershipInv, NEW f \in DOMAIN filings, DecideFiling(f) \/ ExpireFiling(f) PROVE OwnershipInv'
<1>1. PICK status \in {"active", "over"} : filings' = [filings EXCEPT ![f].status = status]
  BY DEF DecideFiling, ExpireFiling
<1>2. UNCHANGED <<ownerships, rowLock, ownerReq>>
  BY DEF DecideFiling, ExpireFiling
<1>3. car \in [Cars -> CarRow]
  BY DEF OwnershipInv, TablesTyped
<1>4. car' \in [Cars -> CarRow] /\ OnFiles' = OnFiles
  <2>1. CASE UNCHANGED car
    BY <1>3, <2>1 DEF OnFiles, OnFile
  <2>2. CASE \E cars : car' = [v \in Cars |-> [car[v] EXCEPT !.assessed = @ \/ v \in cars]]
    <3>1. PICK cars : car' = [v \in Cars |-> [car[v] EXCEPT !.assessed = @ \/ v \in cars]]
      BY <2>2
    <3>2. ASSUME NEW v \in Cars PROVE car'[v] \in CarRow /\ car'[v].plate = car[v].plate
      <4>1. car[v] \in CarRow
        BY <1>3
      <4>2. car'[v] = [car[v] EXCEPT !.assessed = car[v].assessed \/ v \in cars]
        BY <3>1
      <4>3. (car[v].assessed \/ v \in cars) \in BOOLEAN
        OBVIOUS
      <4> QED
        BY <4>1, <4>2, <4>3 DEF CarRow
    <3>3. car' \in [Cars -> CarRow]
      BY <3>1, <3>2
    <3> QED
      BY <3>2, <3>3 DEF OnFiles, OnFile
  <2> QED
    BY <2>1, <2>2 DEF DecideFiling, ExpireFiling
<1>5. /\ filings' \in Seq(FilingRow) /\ \A g \in DOMAIN filings : g \in DOMAIN filings'
      /\ \A g \in DOMAIN filings' : \E h \in DOMAIN filings :
            filings'[g].party = filings[h].party /\ filings'[g].cars = filings[h].cars
  BY <1>1, FilingDecided
<1> QED
  BY <1>2, <1>4, <1>5, OwnersStay

\* A quotation becomes an application of the same party, for the same vehicles.
LEMMA ConvertKeeps ==
    ASSUME OwnershipInv, NEW r \in OwnerReqs, Convert(r) PROVE OwnershipInv'
<1> DEFINE f == ownerReq[r].from
           marked == [filings EXCEPT ![f].status = "converted"]
           new == [filings[f] EXCEPT !.kind = "application", !.status = "pending"]
<1>1. /\ filings' = Append(marked, new) /\ Finish(r) /\ UNCHANGED <<car, ownerships>>
      /\ ownerReq[r].pc = "convert"
  BY DEF Convert
<1>2. f \in DOMAIN filings /\ filings \in Seq(FilingRow) /\ car \in [Cars -> CarRow]
  BY <1>1 DEF OwnershipInv, TablesTyped, LinesSound
<1>3. filings[f] \in FilingRow
  BY <1>2
<1>4. new \in FilingRow /\ new.party = filings[f].party /\ new.cars = filings[f].cars
  BY <1>3 DEF FilingRow
<1>5. [filings[f] EXCEPT !.status = "converted"] \in FilingRow
  BY <1>3 DEF FilingRow
<1>6. marked = [filings EXCEPT ![f] = [filings[f] EXCEPT !.status = "converted"]]
  OBVIOUS
<1>7. marked \in Seq(FilingRow) /\ Len(marked) = Len(filings) /\ Len(filings) \in Nat
  BY <1>2, <1>5, <1>6
<1>8. ASSUME NEW g \in DOMAIN filings
      PROVE  marked[g].party = filings[g].party /\ marked[g].cars = filings[g].cars
  <2>1. CASE g = f
    BY <1>3, <1>6, <2>1 DEF FilingRow
  <2>2. CASE g # f
    BY <1>6, <2>2
  <2> QED
    BY <2>1, <2>2
<1> HIDE DEF f, marked, new
<1>9. /\ filings' \in Seq(FilingRow) /\ DOMAIN filings' = DOMAIN filings \cup {Len(filings) + 1}
      /\ filings'[Len(filings) + 1] = new
      /\ \A g \in DOMAIN filings : filings'[g] = marked[g]
  <2>1. filings' = Append(marked, new) /\ marked \in Seq(FilingRow) /\ new \in FilingRow
    BY <1>1, <1>4, <1>7
  <2>2. DOMAIN marked = DOMAIN filings
    BY <1>2, <1>7
  <2>3. /\ filings' \in Seq(FilingRow) /\ DOMAIN filings' = DOMAIN marked \cup {Len(marked) + 1}
        /\ filings'[Len(marked) + 1] = new
        /\ \A g \in DOMAIN marked : filings'[g] = marked[g]
    BY <2>1
  <2> QED
    BY <1>7, <2>2, <2>3
<1>10. \A g \in DOMAIN filings' : \E h \in DOMAIN filings :
           filings'[g].party = filings[h].party /\ filings'[g].cars = filings[h].cars
  BY <1>2, <1>4, <1>8, <1>9
<1>11. OnFiles' = OnFiles /\ car' \in [Cars -> CarRow]
  BY <1>1, <1>2 DEF OnFiles, OnFile
<1> QED
  BY <1>1, <1>9, <1>10, <1>11, OwnersStay

\* A vehicle that is edited stays on file.
LEMMA EditWriteKeeps ==
    ASSUME OwnershipInv, NEW r \in OwnerReqs, EditVehicleWrite(r) PROVE OwnershipInv'
<1> DEFINE v == Line(r).car
           row == [plate |-> Line(r).plate, assessed |-> ownerReq[r].read]
<1>1. /\ ownerReq[r].pc = "editWrite" /\ car' = [car EXCEPT ![v] = row]
      /\ Finish(r) /\ UNCHANGED <<ownerships, filings>>
  BY DEF EditVehicleWrite
<1>2. v \in OnFiles /\ Line(r).plate \in Plates
  BY <1>1 DEF OwnershipInv, LinesSound
<1>3. car \in [Cars -> CarRow] /\ filings \in Seq(FilingRow) /\ ReqTyped(r)
  BY DEF OwnershipInv, TablesTyped
<1>4. row \in CarRow /\ row.plate # NoPlate
  BY <1>2, <1>3, OwnershipAssumption DEF ReqTyped, CarRow
<1>5. v \in Cars
  BY <1>2 DEF OnFiles
<1> HIDE DEF v, row
<1>6. car' \in [Cars -> CarRow] /\ car'[v] = row /\ \A w \in Cars \ {v} : car'[w] = car[w]
  BY <1>1, <1>3, <1>4, <1>5
<1>7. OnFiles' = OnFiles
  BY <1>2, <1>4, <1>6 DEF OnFiles, OnFile
<1>8. \A f \in DOMAIN filings' : \E g \in DOMAIN filings :
          filings'[f].party = filings[g].party /\ filings'[f].cars = filings[g].cars
  BY <1>1
<1> QED
  BY <1>1, <1>3, <1>6, <1>7, <1>8, OwnersStay

\* In its transaction, a request has a line at hand that it has checked.
LEMMA AtALine ==
    ASSUME OwnershipInv, NEW r \in OwnerReqs, ownerReq[r].pc \in TxSteps
    PROVE  /\ ownerReq[r].from = 0 /\ Filing(r) /\ ReqTyped(r) /\ LinesSound(r) /\ WritesSound(r)
           /\ DOMAIN ownerReq = OwnerReqs /\ DOMAIN ownerReq[r] = ReqFields
           /\ ownerReq[r].at \in Nat /\ ownerReq[r].at \in DOMAIN ownerReq[r].lines
           /\ Line(r) \in LineType /\ Line(r) = ownerReq[r].lines[ownerReq[r].at]
           /\ LineHeld(r, ownerReq[r].at)
           /\ Line(r).car = NoCar => Line(r).plate # NoPlate
           /\ \A i \in DOMAIN ownerReq[r].lines :
                 ownerReq[r].lines[i].car = NoCar => ownerReq[r].lines[i].plate # NoPlate
           /\ \A i \in DOMAIN ownerReq[r].lines : LineHeld(r, i)
<1>1. ReqTyped(r) /\ LinesSound(r) /\ WritesSound(r) /\ DOMAIN ownerReq = OwnerReqs
  BY DEF OwnershipInv, TablesTyped
<1>2. ownerReq[r].from = 0 /\ Filing(r) /\ ownerReq[r].pc # "checkLine"
  BY <1>1 DEF LinesSound, Filing, TxSteps
<1>3. /\ ownerReq[r].at \in DOMAIN ownerReq[r].lines
      /\ \A i \in DOMAIN ownerReq[r].lines :
            ownerReq[r].lines[i].car = NoCar => ownerReq[r].lines[i].plate # NoPlate
      /\ \A i \in DOMAIN ownerReq[r].lines : LineHeld(r, i)
  BY <1>1, <1>2 DEF LinesSound
<1>4. /\ DOMAIN ownerReq[r] = ReqFields /\ ownerReq[r].at \in Nat
      /\ \A i \in DOMAIN ownerReq[r].lines : ownerReq[r].lines[i] \in LineType
  BY <1>1, TypedOf DEF ReqTyped
<1> QED
  BY <1>1, <1>2, <1>3, <1>4 DEF Line

\* After a line, the next one is at hand, or the transaction is to commit.
LEMMA LineDone ==
    ASSUME OwnershipInv, NEW r \in OwnerReqs, ownerReq[r].pc \in TxSteps, UNCHANGED <<car, ownerships, filings>>,
           NEW row, DOMAIN row = ReqFields, row.at = ownerReq[r].at, row.lines = ownerReq[r].lines,
           row.party = ownerReq[r].party, row.from = ownerReq[r].from, row.kind = ownerReq[r].kind,
           row.read = ownerReq[r].read, row.cars \in Seq(Cars), row.writes \in Seq(WriteRow),
           ownerReq'[r] = Written(r, row)
    PROVE  /\ ReqTyped(r)' /\ LinesSound(r)'
           /\ ownerReq'[r].pc \in {"write", "commit"} /\ ownerReq'[r].party = ownerReq[r].party
           /\ ownerReq'[r].cars = row.cars /\ ownerReq'[r].writes = row.writes
           /\ ownerReq'[r].closes = row.closes
<1>1. /\ ReqTyped(r) /\ ownerReq[r].from = 0 /\ ownerReq[r].at \in Nat /\ ownerReq[r].at \in DOMAIN ownerReq[r].lines
      /\ \A i \in DOMAIN ownerReq[r].lines :
            ownerReq[r].lines[i].car = NoCar => ownerReq[r].lines[i].plate # NoPlate
      /\ \A i \in DOMAIN ownerReq[r].lines : LineHeld(r, i)
  BY AtALine
<1>2. ownerReq[r].lines \in Seq(LineType) /\ Len(ownerReq[r].lines) \in Nat
      /\ DOMAIN ownerReq[r].lines = 1..Len(ownerReq[r].lines)
  BY <1>1 DEF ReqTyped
<1> DEFINE w == Written(r, row)
<1>3. /\ DOMAIN w = ReqFields /\ w.pc \in {"write", "commit"}
      /\ w.lines = row.lines /\ w.party = row.party /\ w.from = row.from /\ w.kind = row.kind
      /\ w.read = row.read /\ w.cars = row.cars /\ w.writes = row.writes /\ w.closes = row.closes
      /\ w.at \in Nat /\ w.at \in DOMAIN ownerReq[r].lines
  <2>1. CASE ownerReq[r].at < Len(ownerReq[r].lines)
    <3>1. w = [row EXCEPT !.pc = "write", !.at = row.at + 1]
      BY <2>1 DEF Written
    <3>2. row.at + 1 \in Nat /\ row.at + 1 \in DOMAIN ownerReq[r].lines
      BY <1>1, <1>2, <2>1
    <3> HIDE DEF w
    <3> QED
      BY <3>1, <3>2 DEF ReqFields
  <2>2. CASE ~(ownerReq[r].at < Len(ownerReq[r].lines))
    <3>1. w = [row EXCEPT !.pc = "commit"]
      BY <2>2 DEF Written
    <3> HIDE DEF w
    <3> QED
      BY <1>1, <3>1 DEF ReqFields
  <2> QED
    BY <2>1, <2>2
<1>4. ownerReq'[r] = w
  OBVIOUS
<1> HIDE DEF w
<1>5. ReqTyped(r)'
  BY <1>1, <1>3, <1>4 DEF ReqTyped
<1>6. \A i : LineHeld(r, i) => LineHeld(r, i)'
  BY <1>3, <1>4, LinesHeldStill
<1>7. LinesSound(r)'
  BY <1>1, <1>3, <1>4, <1>6 DEF LinesSound, Filing, TxSteps
<1> QED
  BY <1>3, <1>4, <1>5, <1>7

\* A vehicle of the party is joined; it is on record as the party's.
LEMMA WriteOwnedKeeps ==
    ASSUME OwnershipInv, NEW r \in OwnerReqs, ownerReq[r].pc = "write", WriteOwned(r) PROVE OwnershipInv'
<1> DEFINE row == [ownerReq[r] EXCEPT !.cars = Append(ownerReq[r].cars, Line(r).car)]
<1>1. /\ Line(r).car # NoCar /\ ~Line(r).takeOver
      /\ ownerReq' = [ownerReq EXCEPT ![r] = Written(r, row)]
      /\ UNCHANGED <<car, ownerships, filings, rowLock>>
  BY DEF WriteOwned
<1>2. /\ ReqTyped(r) /\ WritesSound(r) /\ DOMAIN ownerReq = OwnerReqs /\ DOMAIN ownerReq[r] = ReqFields
      /\ LineHeld(r, ownerReq[r].at) /\ Line(r) \in LineType
      /\ Line(r) = ownerReq[r].lines[ownerReq[r].at] /\ ownerReq[r].pc \in TxSteps
  BY AtALine DEF TxSteps
<1>3. Line(r).car \in Cars /\ <<ownerReq[r].party, Line(r).car>> \in Record
  BY <1>1, <1>2 DEF LineType, LineHeld
<1>4. ownerReq[r].cars \in Seq(Cars) /\ ownerReq[r].writes \in Seq(WriteRow)
  BY <1>2 DEF ReqTyped
<1> DEFINE cars == Append(ownerReq[r].cars, Line(r).car)
<1>5. /\ DOMAIN row = ReqFields /\ row.at = ownerReq[r].at /\ row.lines = ownerReq[r].lines
      /\ row.party = ownerReq[r].party /\ row.from = ownerReq[r].from /\ row.kind = ownerReq[r].kind
      /\ row.read = ownerReq[r].read /\ row.cars = cars /\ row.writes = ownerReq[r].writes
      /\ row.closes = ownerReq[r].closes
  BY <1>2 DEF ReqFields
<1>6. cars \in Seq(Cars) /\ \A i \in DOMAIN cars : cars[i] = Line(r).car
                                 \/ (i \in DOMAIN ownerReq[r].cars /\ cars[i] = ownerReq[r].cars[i])
  BY <1>3, <1>4
<1>7. ownerReq'[r] = Written(r, row)
  BY <1>1, <1>2
<1> HIDE DEF row, cars
<1>8. /\ ReqTyped(r)' /\ LinesSound(r)'
      /\ ownerReq'[r].pc \in {"write", "commit"} /\ ownerReq'[r].party = ownerReq[r].party
      /\ ownerReq'[r].cars = cars /\ ownerReq'[r].writes = ownerReq[r].writes
      /\ ownerReq'[r].closes = ownerReq[r].closes
  BY <1>1, <1>2, <1>4, <1>5, <1>6, <1>7, LineDone
<1>9. Touched(r)' = Touched(r) /\ OnFiles' = OnFiles /\ Record' = Record
  BY <1>1, <1>8 DEF Touched, OnFiles, OnFile, Record
<1>10. \A v : OpenOf(v)' = OpenOf(v)
  BY <1>1 DEF OpenOf
<1>11. \A i \in DOMAIN cars : <<ownerReq[r].party, cars[i]>> \in Record \/ cars[i] \in Touched(r)
  BY <1>2, <1>3, <1>6 DEF WritesSound
<1>12. WritesSound(r)'
  BY <1>1, <1>2, <1>8, <1>9, <1>10, <1>11 DEF WritesSound, TxSteps
<1> QED
  BY <1>1, <1>8, <1>12, OnlyTheRequest

\* A vehicle as a transaction sees it, which is on file once it has been written.
LEMMA AfterWritesIs ==
    ASSUME OwnershipInv, NEW r \in OwnerReqs, NEW v \in Cars
    PROVE  /\ AfterWrites(v, ownerReq[r].writes) \in CarRow
           /\ v \in OnFiles \cup Touched(r) => AfterWrites(v, ownerReq[r].writes).plate # NoPlate
<1> DEFINE writes == ownerReq[r].writes
<1>1. ReqTyped(r) /\ WritesSound(r) /\ car[v] \in CarRow
  BY DEF OwnershipInv, TablesTyped
<1>2. \A i \in DOMAIN writes : writes[i] \in WriteRow
  BY <1>1, TypedOf
<1>3. CASE v \notin Touched(r)
  <2>1. AfterWrites(v, writes) = car[v]
    BY <1>3 DEF AfterWrites, Touched
  <2>2. v \in OnFiles \cup Touched(r) => car[v].plate # NoPlate
    BY <1>3 DEF OnFiles, OnFile
  <2> QED
    BY <1>1, <2>1, <2>2
<1>4. CASE v \in Touched(r)
  <2> DEFINE i == CHOOSE j \in DOMAIN writes : writes[j].car = v /\ LastWrite(writes, j)
  <2>1. \E j \in DOMAIN writes : writes[j].car = v /\ LastWrite(writes, j)
    BY <1>1, <1>4 DEF WritesSound
  <2>2. i \in DOMAIN writes /\ writes[i].car = v
    BY <2>1
  <2>3. ~\A j \in DOMAIN writes : writes[j].car # v
    BY <2>2
  <2>4. AfterWrites(v, writes)
          = [assessed |-> writes[i].assessed,
             plate |-> IF writes[i].plate # NoPlate THEN writes[i].plate ELSE car[v].plate]
    BY <2>3 DEF AfterWrites
  <2>5. writes[i].plate # NoPlate \/ writes[i].car \in OnFiles
    BY <1>1, <2>2 DEF WritesSound
  <2> HIDE DEF i
  <2>6. writes[i] \in WriteRow
    BY <1>2, <2>2
  <2> HIDE DEF writes
  <2>7. AfterWrites(v, writes) \in CarRow
    BY <1>1, <2>4, <2>6 DEF WriteRow, CarRow
  <2>8. AfterWrites(v, writes).plate # NoPlate
    <3>1. CASE writes[i].plate # NoPlate
      BY <2>4, <3>1
    <3>2. CASE writes[i].plate = NoPlate
      BY <2>2, <2>4, <2>5, <3>2 DEF OnFiles, OnFile
    <3> QED
      BY <3>1, <3>2
  <2> QED
    BY <2>7, <2>8 DEF writes
<1> QED
  BY <1>3, <1>4

\* One to be taken over is read; it has been checked to be on file.
LEMMA WriteReadKeeps ==
    ASSUME OwnershipInv, NEW r \in OwnerReqs, ownerReq[r].pc = "write", WriteRead(r) PROVE OwnershipInv'
<1> DEFINE seen == AfterWrites(Line(r).car, ownerReq[r].writes).assessed
           q == [ownerReq[r] EXCEPT !.pc = "update", !.read = seen]
<1>1. /\ Line(r).car # NoCar /\ Line(r).takeOver
      /\ ownerReq' = [ownerReq EXCEPT ![r] = q]
      /\ UNCHANGED <<car, ownerships, filings, rowLock>>
  BY DEF WriteRead
<1>2. /\ ReqTyped(r) /\ LinesSound(r) /\ WritesSound(r) /\ DOMAIN ownerReq = OwnerReqs
      /\ DOMAIN ownerReq[r] = ReqFields
      /\ ownerReq[r].from = 0 /\ ownerReq[r].at \in DOMAIN ownerReq[r].lines
      /\ LineHeld(r, ownerReq[r].at) /\ Line(r) \in LineType
      /\ Line(r) = ownerReq[r].lines[ownerReq[r].at] /\ ownerReq[r].pc \in TxSteps
      /\ \A i \in DOMAIN ownerReq[r].lines :
            ownerReq[r].lines[i].car = NoCar => ownerReq[r].lines[i].plate # NoPlate
      /\ \A i \in DOMAIN ownerReq[r].lines : LineHeld(r, i)
  BY AtALine DEF TxSteps
<1>3. Line(r).car \in OnFiles /\ Line(r).car \in Cars
  BY <1>1, <1>2 DEF LineHeld, OnFiles
<1>4. AfterWrites(Line(r).car, ownerReq[r].writes) \in CarRow
  BY <1>3, AfterWritesIs
<1>5. seen \in BOOLEAN
  BY <1>4 DEF CarRow
<1> HIDE DEF seen
<1>6. /\ DOMAIN q = ReqFields /\ q.pc = "update" /\ q.at = ownerReq[r].at /\ q.lines = ownerReq[r].lines
      /\ q.party = ownerReq[r].party /\ q.from = ownerReq[r].from /\ q.kind = ownerReq[r].kind
      /\ q.read = seen /\ q.cars = ownerReq[r].cars /\ q.writes = ownerReq[r].writes
      /\ q.closes = ownerReq[r].closes
  BY <1>2 DEF ReqFields
<1>7. ownerReq'[r] = q
  BY <1>1, <1>2
<1> HIDE DEF q
<1>8. ReqTyped(r)'
  BY <1>2, <1>5, <1>6, <1>7 DEF ReqTyped
<1>9. /\ Touched(r)' = Touched(r) /\ OnFiles' = OnFiles /\ Record' = Record /\ Line(r)' = Line(r)
  BY <1>1, <1>6, <1>7 DEF Touched, OnFiles, OnFile, Record, Line
<1>10. \A v : OpenOf(v)' = OpenOf(v)
  BY <1>1 DEF OpenOf
<1>11. \A i : LineHeld(r, i) => LineHeld(r, i)'
  BY <1>1, <1>6, <1>7, LinesHeldStill
<1>12. LinesSound(r)'
  BY <1>2, <1>3, <1>6, <1>7, <1>9, <1>11 DEF LinesSound, Filing, TxSteps
<1>13. WritesSound(r)'
  <2>1. /\ ownerReq'[r].pc = "update" /\ ownerReq'[r].party = ownerReq[r].party
        /\ ownerReq'[r].cars = ownerReq[r].cars /\ ownerReq'[r].writes = ownerReq[r].writes
        /\ ownerReq'[r].closes = ownerReq[r].closes
    BY <1>6, <1>7
  <2>2. ownerReq[r].pc # "close"
    OBVIOUS
  <2>3. WritesSound(r)
    BY <1>2
  <2> QED
    BY <1>1, <1>9, <1>10, <2>1, <2>2, <2>3 DEF WritesSound, TxSteps
<1> QED
  BY <1>1, <1>8, <1>12, <1>13, OnlyTheRequest

\* Of every vehicle a transaction has written there is a last write.
LEMMA LastWritesOfMore ==
    ASSUME NEW writes \in Seq(WriteRow), NEW e \in WriteRow,
           \A i \in DOMAIN writes : \E j \in DOMAIN writes :
               writes[j].car = writes[i].car /\ LastWrite(writes, j)
    PROVE  LET more == Append(writes, e)
           IN  /\ more \in Seq(WriteRow)
               /\ \A i \in DOMAIN more : \/ more[i] = e
                                         \/ i \in DOMAIN writes /\ more[i] = writes[i]
               /\ \A i \in DOMAIN writes : i \in DOMAIN more /\ more[i] = writes[i]
               /\ Len(more) \in DOMAIN more /\ more[Len(more)] = e
               /\ \A i \in DOMAIN more : \E j \in DOMAIN more :
                     more[j].car = more[i].car /\ LastWrite(more, j)
<1> DEFINE more == Append(writes, e)
           n == Len(writes) + 1
<1>1. /\ more \in Seq(WriteRow) /\ Len(more) = n /\ DOMAIN more = 1..n /\ more[n] = e
      /\ DOMAIN writes = 1..Len(writes) /\ Len(writes) \in Nat
      /\ \A i \in DOMAIN writes : more[i] = writes[i]
  OBVIOUS
<1> HIDE DEF more
<1>2. n \in DOMAIN more /\ LastWrite(more, n)
  BY <1>1 DEF LastWrite
<1>3. \A i \in DOMAIN more : i = n \/ i \in DOMAIN writes
  BY <1>1
<1>4. ASSUME NEW j \in DOMAIN writes, LastWrite(writes, j), writes[j].car # e.car
      PROVE  j \in DOMAIN more /\ LastWrite(more, j)
  <2>1. j \in DOMAIN more
    BY <1>1
  <2>2. ASSUME NEW k \in DOMAIN more, k > j PROVE more[k].car # more[j].car
    BY <1>1, <1>3, <1>4, <2>2 DEF LastWrite
  <2> QED
    BY <2>1, <2>2 DEF LastWrite
<1> HIDE DEF n
<1>5. ASSUME NEW i \in DOMAIN more
      PROVE  \E j \in DOMAIN more : more[j].car = more[i].car /\ LastWrite(more, j)
  <2>1. CASE more[i].car = e.car
    BY <1>1, <1>2, <2>1
  <2>2. CASE more[i].car # e.car
    <3>1. i \in DOMAIN writes /\ more[i] = writes[i]
      BY <1>1, <1>3, <2>2
    <3>2. PICK j \in DOMAIN writes : writes[j].car = writes[i].car /\ LastWrite(writes, j)
      BY <3>1
    <3> QED
      BY <1>1, <1>4, <2>2, <3>1, <3>2
  <2> QED
    BY <2>1, <2>2
<1>6. \A i \in DOMAIN writes : i \in DOMAIN more
  BY <1>1 DEF n
<1> QED
  BY <1>1, <1>2, <1>3, <1>5, <1>6 DEF more

\* A vehicle is written, and its row locked.
LEMMA WriteAdded ==
    ASSUME OwnershipInv, NEW r \in OwnerReqs, ownerReq[r].pc \in TxSteps, NEW e \in WriteRow,
           UNCHANGED <<car, ownerships>>, rowLock' = [rowLock EXCEPT ![e.car] = r],
           ownerReq'[r].writes = Append(ownerReq[r].writes, e), e.plate # NoPlate \/ e.car \in OnFiles
    PROVE  LET writes == ownerReq'[r].writes
           IN  /\ writes \in Seq(WriteRow)
               /\ Touched(r)' = Touched(r) \cup {e.car}
               /\ \A v \in Touched(r)' : rowLock'[v] = r
               /\ \A i \in DOMAIN writes : writes[i].plate # NoPlate \/ writes[i].car \in OnFiles'
               /\ \A v \in Touched(r)' : \E j \in DOMAIN writes : writes[j].car = v /\ LastWrite(writes, j)
<1> DEFINE writes == ownerReq[r].writes
           more == Append(writes, e)
<1>1. ReqTyped(r) /\ WritesSound(r) /\ rowLock \in [Cars -> Reqs]
  BY DEF OwnershipInv, TablesTyped
<1>2. writes \in Seq(WriteRow)
  BY <1>1 DEF ReqTyped
<1>3. \A i \in DOMAIN writes : \E j \in DOMAIN writes :
          writes[j].car = writes[i].car /\ LastWrite(writes, j)
  BY <1>1 DEF WritesSound, Touched
<1> HIDE DEF writes
<1>4. /\ more \in Seq(WriteRow)
      /\ \A i \in DOMAIN more : \/ more[i] = e
                                \/ i \in DOMAIN writes /\ more[i] = writes[i]
      /\ \A i \in DOMAIN writes : i \in DOMAIN more /\ more[i] = writes[i]
      /\ Len(more) \in DOMAIN more /\ more[Len(more)] = e
      /\ \A i \in DOMAIN more : \E j \in DOMAIN more :
            more[j].car = more[i].car /\ LastWrite(more, j)
  BY <1>2, <1>3, LastWritesOfMore
<1>5. ownerReq'[r].writes = more
  BY DEF writes
<1> HIDE DEF more
<1>6. Touched(r) = {writes[i].car : i \in DOMAIN writes} /\ Touched(r)' = {more[i].car : i \in DOMAIN more}
  BY <1>5 DEF Touched, writes
<1>7. Touched(r)' = Touched(r) \cup {e.car}
  <2>1. Touched(r)' \subseteq Touched(r) \cup {e.car}
    BY <1>4, <1>6
  <2>2. Touched(r) \subseteq Touched(r)'
    BY <1>4, <1>6
  <2>3. e.car \in Touched(r)'
    BY <1>4, <1>6
  <2> QED
    BY <2>1, <2>2, <2>3
<1>8. \A v \in Touched(r)' : rowLock'[v] = r
  <2>1. Touched(r) \subseteq Cars /\ e.car \in Cars
    BY <1>1, TouchedAreCars DEF WriteRow
  <2>2. \A v \in Touched(r) : rowLock[v] = r
    BY <1>1 DEF WritesSound
  <2> QED
    BY <1>1, <1>7, <2>1, <2>2
<1>9. OnFiles' = OnFiles
  BY DEF OnFiles, OnFile
<1>10. ASSUME NEW i \in DOMAIN more PROVE more[i].plate # NoPlate \/ more[i].car \in OnFiles
  <2>1. \A k \in DOMAIN writes : writes[k].plate # NoPlate \/ writes[k].car \in OnFiles
    BY <1>1 DEF WritesSound, writes
  <2> QED
    BY <1>4, <2>1
<1>11. \A v \in Touched(r)' : \E j \in DOMAIN more : more[j].car = v /\ LastWrite(more, j)
  BY <1>4, <1>6
<1> QED
  BY <1>4, <1>5, <1>7, <1>8, <1>9, <1>10, <1>11

\* It is updated, which locks its row: from here nobody else closes or opens
\* for it.
LEMMA WriteUpdateKeeps ==
    ASSUME OwnershipInv, NEW r \in OwnerReqs, WriteUpdate(r) PROVE OwnershipInv'
<1> DEFINE v == Line(r).car
           e == [car |-> v, assessed |-> ownerReq[r].read, plate |-> NoPlate]
           q == [ownerReq[r] EXCEPT !.pc = "close", !.writes = Append(ownerReq[r].writes, e)]
<1>1. /\ ownerReq[r].pc = "update" /\ LockFree(r, v)
      /\ rowLock' = [rowLock EXCEPT ![v] = r] /\ ownerReq' = [ownerReq EXCEPT ![r] = q]
      /\ UNCHANGED <<car, ownerships, filings>>
  BY DEF WriteUpdate
<1>2. /\ ReqTyped(r) /\ LinesSound(r) /\ WritesSound(r) /\ DOMAIN ownerReq = OwnerReqs
      /\ DOMAIN ownerReq[r] = ReqFields
      /\ ownerReq[r].from = 0 /\ ownerReq[r].at \in DOMAIN ownerReq[r].lines
      /\ ownerReq[r].pc \in TxSteps
      /\ \A i \in DOMAIN ownerReq[r].lines :
            ownerReq[r].lines[i].car = NoCar => ownerReq[r].lines[i].plate # NoPlate
      /\ \A i \in DOMAIN ownerReq[r].lines : LineHeld(r, i)
  BY <1>1, AtALine DEF TxSteps
<1>3. v \in OnFiles /\ v \in Cars
  BY <1>1, <1>2 DEF LinesSound, OnFiles
<1>4. e \in WriteRow /\ e.car = v /\ e.plate = NoPlate
  BY <1>2, <1>3 DEF ReqTyped, WriteRow
<1> HIDE DEF e
<1>5. /\ DOMAIN q = ReqFields /\ q.pc = "close" /\ q.at = ownerReq[r].at /\ q.lines = ownerReq[r].lines
      /\ q.party = ownerReq[r].party /\ q.from = ownerReq[r].from /\ q.kind = ownerReq[r].kind
      /\ q.read = ownerReq[r].read /\ q.cars = ownerReq[r].cars
      /\ q.writes = Append(ownerReq[r].writes, e) /\ q.closes = ownerReq[r].closes
  BY <1>2 DEF ReqFields
<1>6. ownerReq'[r] = q /\ DOMAIN ownerReq' = OwnerReqs /\ ownerReq' = [s \in OwnerReqs |-> ownerReq'[s]]
      /\ \A s \in OwnerReqs \ {r} : ownerReq'[s] = ownerReq[s]
  BY <1>1, <1>2 DEF OwnershipInv, TablesTyped
<1> HIDE DEF q
<1>7. /\ ownerReq'[r].pc = "close" /\ ownerReq'[r].party = ownerReq[r].party
      /\ ownerReq'[r].lines = ownerReq[r].lines /\ ownerReq'[r].at = ownerReq[r].at
      /\ ownerReq'[r].from = ownerReq[r].from
      /\ ownerReq'[r].cars = ownerReq[r].cars /\ ownerReq'[r].closes = ownerReq[r].closes
      /\ ownerReq'[r].writes = Append(ownerReq[r].writes, e)
  BY <1>5, <1>6
<1>8. /\ ownerReq'[r].writes \in Seq(WriteRow)
      /\ Touched(r)' = Touched(r) \cup {v}
      /\ \A w \in Touched(r)' : rowLock'[w] = r
      /\ \A i \in DOMAIN ownerReq'[r].writes :
            ownerReq'[r].writes[i].plate # NoPlate \/ ownerReq'[r].writes[i].car \in OnFiles'
      /\ \A w \in Touched(r)' : \E j \in DOMAIN ownerReq'[r].writes :
            ownerReq'[r].writes[j].car = w /\ LastWrite(ownerReq'[r].writes, j)
  <2>1. /\ rowLock' = [rowLock EXCEPT ![e.car] = r] /\ UNCHANGED <<car, ownerships>>
        /\ e \in WriteRow /\ e.car \in OnFiles /\ ownerReq[r].pc \in TxSteps
        /\ ownerReq'[r].writes = Append(ownerReq[r].writes, e)
    BY <1>1, <1>2, <1>3, <1>4, <1>7
  <2>2. /\ ownerReq'[r].writes \in Seq(WriteRow)
        /\ Touched(r)' = Touched(r) \cup {e.car}
        /\ \A w \in Touched(r)' : rowLock'[w] = r
        /\ \A i \in DOMAIN ownerReq'[r].writes :
              ownerReq'[r].writes[i].plate # NoPlate \/ ownerReq'[r].writes[i].car \in OnFiles'
        /\ \A w \in Touched(r)' : \E j \in DOMAIN ownerReq'[r].writes :
              ownerReq'[r].writes[j].car = w /\ LastWrite(ownerReq'[r].writes, j)
    BY <2>1, WriteAdded
  <2> QED
    BY <1>4, <2>2
<1>9. ReqTyped(r)'
  BY <1>2, <1>5, <1>6, <1>8 DEF ReqTyped
<1>10. /\ OnFiles' = OnFiles /\ Record' = Record /\ Line(r)' = Line(r)
  BY <1>1, <1>7 DEF OnFiles, OnFile, Record, Line
<1>11. \A w : OpenOf(w)' = OpenOf(w)
  BY <1>1 DEF OpenOf
<1>12. \A i : LineHeld(r, i) => LineHeld(r, i)'
  BY <1>1, <1>7, LinesHeldStill
<1>13. LinesSound(r)'
  BY <1>2, <1>3, <1>7, <1>10, <1>12 DEF LinesSound, Filing, TxSteps
<1>14. WritesSound(r)'
  <2>1. \A w \in Touched(r)' : OpenOf(w)' \subseteq ownerReq[r].closes \/ w = v
    BY <1>1, <1>2, <1>8, <1>11 DEF WritesSound
  <2>2. \A o \in ownerReq[r].closes : o \in DOMAIN ownerships' /\ ownerships'[o].car \in Touched(r)'
    BY <1>1, <1>2, <1>8 DEF WritesSound
  <2>3. \A i \in DOMAIN ownerReq[r].cars :
            <<ownerReq[r].party, ownerReq[r].cars[i]>> \in Record' \/ ownerReq[r].cars[i] \in Touched(r)'
    BY <1>2, <1>8, <1>10 DEF WritesSound
  <2>4. Line(r)'.car = v /\ v \in Touched(r)'
    BY <1>8, <1>10
  <2> HIDE DEF v
  <2> QED
    BY <1>7, <1>8, <2>1, <2>2, <2>3, <2>4 DEF WritesSound, TxSteps
<1>15. rowLock' \in [Cars -> Reqs]
       /\ \A w \in Cars : rowLock[w] \notin {Nobody, r} => rowLock'[w] = rowLock[w]
  BY <1>1, <1>3 DEF OwnershipInv, TablesTyped, LockFree, Reqs
<1> QED
  BY <1>1, <1>6, <1>9, <1>13, <1>14, <1>15, OneRequest

\* All that is open of it is closed.
LEMMA WriteOwnerKeeps ==
    ASSUME OwnershipInv, NEW r \in OwnerReqs, WriteOwner(r) PROVE OwnershipInv'
<1> DEFINE v == Line(r).car
           cars == Append(ownerReq[r].cars, v)
           closes == ownerReq[r].closes \cup OpenOf(v)
           row == [ownerReq[r] EXCEPT !.closes = closes, !.cars = cars]
<1>1. /\ ownerReq[r].pc = "close"
      /\ ownerReq' = [ownerReq EXCEPT ![r] = Written(r, row)]
      /\ UNCHANGED <<car, ownerships, filings, rowLock>>
  BY DEF WriteOwner
<1>2. /\ ReqTyped(r) /\ LinesSound(r) /\ WritesSound(r) /\ DOMAIN ownerReq = OwnerReqs
      /\ DOMAIN ownerReq[r] = ReqFields /\ ownerReq[r].pc \in TxSteps
  BY <1>1, AtALine DEF TxSteps
<1>3. v \in OnFiles /\ v \in Cars /\ v \in Touched(r)
  BY <1>1, <1>2 DEF LinesSound, OnFiles, WritesSound
<1>4. ownerReq[r].cars \in Seq(Cars) /\ ownerReq[r].writes \in Seq(WriteRow)
  BY <1>2 DEF ReqTyped
<1>5. cars \in Seq(Cars) /\ \A i \in DOMAIN cars : cars[i] = v
                                 \/ (i \in DOMAIN ownerReq[r].cars /\ cars[i] = ownerReq[r].cars[i])
  BY <1>3, <1>4
<1> HIDE DEF cars, closes
<1>6. /\ DOMAIN row = ReqFields /\ row.at = ownerReq[r].at /\ row.lines = ownerReq[r].lines
      /\ row.party = ownerReq[r].party /\ row.from = ownerReq[r].from /\ row.kind = ownerReq[r].kind
      /\ row.read = ownerReq[r].read /\ row.cars = cars /\ row.writes = ownerReq[r].writes
      /\ row.closes = closes
  BY <1>2 DEF ReqFields
<1>7. ownerReq'[r] = Written(r, row)
  BY <1>1, <1>2
<1> HIDE DEF row
<1>8. /\ ReqTyped(r)' /\ LinesSound(r)'
      /\ ownerReq'[r].pc \in {"write", "commit"} /\ ownerReq'[r].party = ownerReq[r].party
      /\ ownerReq'[r].cars = cars /\ ownerReq'[r].writes = ownerReq[r].writes
      /\ ownerReq'[r].closes = closes
  BY <1>1, <1>2, <1>4, <1>5, <1>6, <1>7, LineDone
<1>9. Touched(r)' = Touched(r) /\ OnFiles' = OnFiles /\ Record' = Record
  BY <1>1, <1>8 DEF Touched, OnFiles, OnFile, Record
<1>10. \A w : OpenOf(w)' = OpenOf(w)
  BY <1>1 DEF OpenOf
<1>11. \A i \in DOMAIN cars : <<ownerReq[r].party, cars[i]>> \in Record \/ cars[i] \in Touched(r)
  BY <1>2, <1>3, <1>5 DEF WritesSound
<1>12. \A o \in closes : o \in DOMAIN ownerships /\ ownerships[o].car \in Touched(r)
  BY <1>2, <1>3 DEF WritesSound, closes, OpenOf
<1>13. \A w \in Touched(r) : OpenOf(w) \subseteq closes
  BY <1>2 DEF WritesSound, closes
<1>14. WritesSound(r)'
  BY <1>1, <1>2, <1>8, <1>9, <1>10, <1>11, <1>12, <1>13 DEF WritesSound, TxSteps
<1> QED
  BY <1>1, <1>8, <1>14, OnlyTheRequest

\* A new vehicle, which nobody can have owned, is inserted and locked.
LEMMA WriteNewKeeps ==
    ASSUME OwnershipInv, NEW r \in OwnerReqs, ownerReq[r].pc = "write", WriteNew(r) PROVE OwnershipInv'
<1> DEFINE e(v) == [car |-> v, assessed |-> FALSE, plate |-> Line(r).plate]
           rowOf(v) == [ownerReq[r] EXCEPT !.cars = Append(ownerReq[r].cars, v),
                                           !.writes = Append(ownerReq[r].writes, e(v))]
<1>1. PICK v \in Cars : /\ ~OnFile(v) /\ rowLock[v] = Nobody
                        /\ rowLock' = [rowLock EXCEPT ![v] = r]
                        /\ ownerReq' = [ownerReq EXCEPT ![r] = Written(r, rowOf(v))]
  BY DEF WriteNew
<1>2. UNCHANGED <<car, ownerships, filings>> /\ Line(r).car = NoCar
  BY DEF WriteNew
<1>3. /\ ReqTyped(r) /\ LinesSound(r) /\ WritesSound(r) /\ DOMAIN ownerReq = OwnerReqs
      /\ DOMAIN ownerReq[r] = ReqFields /\ ownerReq[r].pc \in TxSteps
      /\ Line(r) \in LineType /\ Line(r).plate # NoPlate
  BY <1>2, AtALine DEF TxSteps
<1>4. e(v) \in WriteRow /\ e(v).car = v /\ e(v).plate # NoPlate
  BY <1>3 DEF WriteRow, LineType
<1>5. ownerReq[r].cars \in Seq(Cars)
  BY <1>3 DEF ReqTyped
<1> DEFINE new == e(v)
           cars == Append(ownerReq[r].cars, v)
           writes == Append(ownerReq[r].writes, new)
           row == rowOf(v)
<1>6. cars \in Seq(Cars) /\ \A i \in DOMAIN cars : cars[i] = v
                                 \/ (i \in DOMAIN ownerReq[r].cars /\ cars[i] = ownerReq[r].cars[i])
  BY <1>5
<1>7. new \in WriteRow /\ new.car = v /\ new.plate # NoPlate
  BY <1>4
<1>8. row = [ownerReq[r] EXCEPT !.cars = cars, !.writes = writes]
  OBVIOUS
<1>9. ownerReq'[r] = Written(r, row) /\ DOMAIN ownerReq' = OwnerReqs
      /\ ownerReq' = [s \in OwnerReqs |-> ownerReq'[s]]
      /\ \A s \in OwnerReqs \ {r} : ownerReq'[s] = ownerReq[s]
  BY <1>1, <1>3 DEF OwnershipInv, TablesTyped
<1> HIDE DEF e, rowOf, new, cars, row
<1>10. writes \in Seq(WriteRow)
  BY <1>3, <1>7 DEF ReqTyped
<1>11. writes = Append(ownerReq[r].writes, new)
  OBVIOUS
<1> HIDE DEF writes
<1>12. /\ DOMAIN row = ReqFields /\ row.at = ownerReq[r].at /\ row.lines = ownerReq[r].lines
       /\ row.party = ownerReq[r].party /\ row.from = ownerReq[r].from /\ row.kind = ownerReq[r].kind
       /\ row.read = ownerReq[r].read /\ row.cars = cars /\ row.writes = writes
       /\ row.closes = ownerReq[r].closes
  BY <1>3, <1>8 DEF ReqFields
<1>13. /\ ReqTyped(r)' /\ LinesSound(r)'
       /\ ownerReq'[r].pc \in {"write", "commit"} /\ ownerReq'[r].party = ownerReq[r].party
       /\ ownerReq'[r].cars = cars /\ ownerReq'[r].writes = writes
       /\ ownerReq'[r].closes = ownerReq[r].closes
  BY <1>2, <1>3, <1>6, <1>9, <1>10, <1>12, LineDone
<1>14. rowLock' = [rowLock EXCEPT ![new.car] = r] /\ ownerReq'[r].writes = Append(ownerReq[r].writes, new)
  BY <1>1, <1>7, <1>11, <1>13
<1>15. /\ Touched(r)' = Touched(r) \cup {v}
       /\ \A w \in Touched(r)' : rowLock'[w] = r
       /\ \A i \in DOMAIN ownerReq'[r].writes :
             ownerReq'[r].writes[i].plate # NoPlate \/ ownerReq'[r].writes[i].car \in OnFiles'
       /\ \A w \in Touched(r)' : \E j \in DOMAIN ownerReq'[r].writes :
             ownerReq'[r].writes[j].car = w /\ LastWrite(ownerReq'[r].writes, j)
  BY <1>2, <1>3, <1>7, <1>14, WriteAdded
<1>16. OnFiles' = OnFiles /\ Record' = Record
  BY <1>2 DEF OnFiles, OnFile, Record
<1>17. \A w : OpenOf(w)' = OpenOf(w)
  BY <1>2 DEF OpenOf
<1>18. OpenOf(v) = {}
  BY <1>1 DEF OwnershipInv, OwnedOnFile, OpenOf, OnFiles
<1>19. WritesSound(r)'
  <2>1. \A w \in Touched(r)' : OpenOf(w)' \subseteq ownerReq[r].closes
    BY <1>3, <1>15, <1>17, <1>18 DEF WritesSound
  <2>2. \A o \in ownerReq[r].closes : o \in DOMAIN ownerships' /\ ownerships'[o].car \in Touched(r)'
    BY <1>2, <1>3, <1>15 DEF WritesSound
  <2>3. \A i \in DOMAIN cars : <<ownerReq[r].party, cars[i]>> \in Record' \/ cars[i] \in Touched(r)'
    BY <1>3, <1>6, <1>15, <1>16 DEF WritesSound
  <2> QED
    BY <1>13, <1>15, <2>1, <2>2, <2>3 DEF WritesSound, TxSteps
<1>20. rowLock' \in [Cars -> Reqs]
       /\ \A w \in Cars : rowLock[w] \notin {Nobody, r} => rowLock'[w] = rowLock[w]
  BY <1>1 DEF OwnershipInv, TablesTyped, Reqs
<1> QED
  BY <1>2, <1>9, <1>13, <1>19, <1>20, OneRequest

\* The ownerships after a filing is committed: those it found open of the
\* vehicles it has written are closed, and each of these has one opened.
LEMMA CommittedOwnerships ==
    ASSUME OwnershipInv, NEW r \in OwnerReqs, CommitFiling(r)
    PROVE  LET q == ownerReq[r]
               n == Len(ownerships)
           IN  /\ ownerships' \in Seq(OwnedRow)
               /\ DOMAIN ownerships \subseteq DOMAIN ownerships'
               /\ \A o \in DOMAIN ownerships : /\ ownerships'[o].car = ownerships[o].car
                                               /\ ownerships'[o].party = ownerships[o].party
                                               /\ ownerships'[o].open <=> ownerships[o].open /\ o \notin q.closes
               /\ \A o \in DOMAIN ownerships' : o \notin DOMAIN ownerships =>
                     /\ o - n \in DOMAIN q.writes
                     /\ ownerships'[o].car = q.writes[o - n].car /\ ownerships'[o].party = q.party
                     /\ ownerships'[o].open <=> LastWrite(q.writes, o - n)
               /\ \A i \in DOMAIN q.writes : n + i \in DOMAIN ownerships' /\ n + i \notin DOMAIN ownerships
<1> DEFINE q == ownerReq[r]
           n == Len(ownerships)
           kept == [i \in DOMAIN ownerships |-> [ownerships[i] EXCEPT !.open = @ /\ i \notin q.closes]]
<1>1. ownerships' = kept \o Opened(r)
  BY DEF CommitFiling
<1>2. ownerships \in Seq(OwnedRow) /\ ReqTyped(r)
  BY DEF OwnershipInv, TablesTyped
<1>3. q.writes \in Seq(WriteRow) /\ q.party \in Holders
  BY <1>2 DEF ReqTyped
<1>4. ASSUME NEW o \in DOMAIN ownerships
      PROVE  /\ kept[o] \in OwnedRow /\ kept[o].car = ownerships[o].car /\ kept[o].party = ownerships[o].party
             /\ kept[o].open <=> ownerships[o].open /\ o \notin q.closes
  <2>1. ownerships[o] \in OwnedRow
    BY <1>2
  <2>2. kept[o] = [ownerships[o] EXCEPT !.open = ownerships[o].open /\ o \notin q.closes]
    OBVIOUS
  <2>3. (ownerships[o].open /\ o \notin q.closes) \in BOOLEAN
    OBVIOUS
  <2> QED
    BY <2>1, <2>2, <2>3 DEF OwnedRow
<1>5. DOMAIN ownerships = 1..n /\ n \in Nat
  BY <1>2
<1>6. kept \in Seq(OwnedRow) /\ Len(kept) = n
  <2>1. DOMAIN kept = 1..n
    BY <1>5
  <2>2. kept = [i \in 1..n |-> kept[i]]
    BY <1>5
  <2>3. \A i \in 1..n : kept[i] \in OwnedRow
    BY <1>4, <1>5
  <2> HIDE DEF kept
  <2>4. kept \in [1..n -> OwnedRow]
    BY <2>2, <2>3
  <2> QED
    BY <1>5, <2>4
<1> DEFINE new == Opened(r)
<1>7. ASSUME NEW i \in DOMAIN q.writes
      PROVE  /\ new[i] \in OwnedRow /\ new[i].car = q.writes[i].car /\ new[i].party = q.party
             /\ new[i].open <=> LastWrite(q.writes, i)
  <2>1. q.writes[i] \in WriteRow
    BY <1>3
  <2>2. new[i] = [car |-> q.writes[i].car, party |-> q.party, open |-> LastWrite(q.writes, i)]
    BY DEF Opened
  <2>3. LastWrite(q.writes, i) \in BOOLEAN
    BY DEF LastWrite
  <2>4. q.writes[i].car \in Cars
    BY <2>1 DEF WriteRow
  <2> QED
    BY <1>3, <2>2, <2>3, <2>4 DEF OwnedRow
<1>8. DOMAIN q.writes = 1..Len(q.writes) /\ Len(q.writes) \in Nat
  BY <1>3
<1>9. new \in Seq(OwnedRow) /\ Len(new) = Len(q.writes)
  <2>1. new = [i \in 1..Len(q.writes) |-> new[i]]
    BY <1>8 DEF Opened
  <2>2. \A i \in 1..Len(q.writes) : new[i] \in OwnedRow
    BY <1>7, <1>8
  <2> HIDE DEF new, q
  <2>3. new \in [1..Len(q.writes) -> OwnedRow]
    BY <2>1, <2>2
  <2> QED
    BY <1>8, <2>3
<1>17. ownerships' = kept \o new
  BY <1>1
<1> HIDE DEF kept, new, q, n
<1>10. /\ ownerships' \in Seq(OwnedRow) /\ DOMAIN ownerships' = 1..(n + Len(q.writes))
       /\ \A o \in 1..n : ownerships'[o] = kept[o]
       /\ \A o \in (n + 1)..(n + Len(q.writes)) : ownerships'[o] = new[o - n]
  <2> DEFINE m == Len(q.writes)
  <2>1. n \in Nat /\ m \in Nat /\ Len(kept) = n /\ Len(new) = m
    BY <1>5, <1>6, <1>8, <1>9
  <2> HIDE DEF m
  <2>6. kept \in Seq(OwnedRow) /\ new \in Seq(OwnedRow)
    BY <1>6, <1>9
  <2>7. kept \o new \in Seq(OwnedRow) /\ Len(kept \o new) = Len(kept) + Len(new)
    BY <2>6
  <2>2. ownerships' \in Seq(OwnedRow) /\ Len(ownerships') = n + m
    BY <1>17, <2>1, <2>7
  <2>3. DOMAIN ownerships' = 1..(n + m)
    BY <2>2
  <2>4. \A o \in 1..n : ownerships'[o] = kept[o]
    BY <1>6, <1>9, <1>17, <2>1
  <2>5. \A o \in (n + 1)..(n + m) : ownerships'[o] = new[o - n]
    BY <1>6, <1>9, <1>17, <2>1
  <2> QED
    BY <2>2, <2>3, <2>4, <2>5 DEF m
<1>11. DOMAIN ownerships \subseteq DOMAIN ownerships'
  BY <1>5, <1>8, <1>10
<1>12. \A o \in DOMAIN ownerships : ownerships'[o] = kept[o]
  BY <1>5, <1>10
<1>13. \A o \in DOMAIN ownerships' : o \notin DOMAIN ownerships =>
           o - n \in DOMAIN q.writes /\ ownerships'[o] = new[o - n]
  BY <1>5, <1>8, <1>10
<1>14. \A i \in DOMAIN q.writes : n + i \in DOMAIN ownerships' /\ n + i \notin DOMAIN ownerships
  BY <1>5, <1>8, <1>10
<1>15. ASSUME NEW o \in DOMAIN ownerships
       PROVE  /\ ownerships'[o].car = ownerships[o].car /\ ownerships'[o].party = ownerships[o].party
              /\ ownerships'[o].open <=> ownerships[o].open /\ o \notin q.closes
  BY <1>4, <1>12, Zenon
<1>16. ASSUME NEW o \in DOMAIN ownerships', o \notin DOMAIN ownerships
       PROVE  /\ o - n \in DOMAIN q.writes
              /\ ownerships'[o].car = q.writes[o - n].car /\ ownerships'[o].party = q.party
              /\ ownerships'[o].open <=> LastWrite(q.writes, o - n)
  BY <1>7, <1>13, <1>16, Zenon
<1> QED
  BY <1>10, <1>11, <1>14, <1>15, <1>16 DEF q, n

\* What a transaction has written is on file once it commits.
LEMMA CommittedCars ==
    ASSUME OwnershipInv, NEW r \in OwnerReqs, CommitFiling(r)
    PROVE  /\ car' \in [Cars -> CarRow]
           /\ OnFiles \subseteq OnFiles' /\ Touched(r) \subseteq OnFiles' /\ OnFiles' \subseteq OnFiles \cup Touched(r)
<1>1. car' = [v \in Cars |-> AfterWrites(v, ownerReq[r].writes)]
  BY DEF CommitFiling
<1>2. Touched(r) \subseteq Cars /\ car \in [Cars -> CarRow]
  BY TouchedAreCars DEF OwnershipInv, TablesTyped
<1>3. \A v \in Cars : /\ AfterWrites(v, ownerReq[r].writes) \in CarRow
                      /\ v \in OnFiles \cup Touched(r) => AfterWrites(v, ownerReq[r].writes).plate # NoPlate
  BY AfterWritesIs
<1>4. \A v \in Cars : car'[v] \in CarRow /\ (v \in OnFiles \cup Touched(r) => car'[v].plate # NoPlate)
  BY <1>1, <1>3
<1>5. car' \in [Cars -> CarRow]
  BY <1>1, <1>3
<1>6. \A v \in Cars \ Touched(r) : car'[v] = car[v]
  BY <1>1 DEF AfterWrites, Touched
<1>7. OnFiles' = {v \in Cars : car'[v].plate # NoPlate} /\ OnFiles = {v \in Cars : car[v].plate # NoPlate}
  BY DEF OnFiles, OnFile
<1> QED
  BY <1>2, <1>4, <1>5, <1>6, <1>7

\* The party is on record for all it has written.
LEMMA CommittedRecord ==
    ASSUME OwnershipInv, NEW r \in OwnerReqs, CommitFiling(r)
    PROVE  RecordKept /\ \A v \in Touched(r) : <<ownerReq[r].party, v>> \in Record'
<1> DEFINE q == ownerReq[r]
           n == Len(ownerships)
<1>1. filings \in Seq(FilingRow)
  BY DEF OwnershipInv, TablesTyped
<1>2. \E e : filings' = Append(filings, e)
  BY DEF CommitFiling
<1>3. \A f \in DOMAIN filings : f \in DOMAIN filings'
  BY <1>1, <1>2
<1>4. /\ DOMAIN ownerships \subseteq DOMAIN ownerships'
      /\ \A o \in DOMAIN ownerships : /\ ownerships'[o].car = ownerships[o].car
                                      /\ ownerships'[o].party = ownerships[o].party
      /\ \A o \in DOMAIN ownerships' : o \notin DOMAIN ownerships =>
            /\ o - n \in DOMAIN q.writes
            /\ ownerships'[o].car = q.writes[o - n].car /\ ownerships'[o].party = q.party
      /\ \A i \in DOMAIN q.writes : n + i \in DOMAIN ownerships' /\ n + i \notin DOMAIN ownerships
  BY CommittedOwnerships
<1>5. RecordKept
  BY <1>3, <1>4, CommittedCars DEF RecordKept
<1>6. n \in Nat /\ DOMAIN q.writes \subseteq Nat
  BY DEF OwnershipInv, TablesTyped, ReqTyped
<1>7. ASSUME NEW v \in Touched(r) PROVE <<q.party, v>> \in Record'
  <2>1. PICK i \in DOMAIN q.writes : q.writes[i].car = v
    BY <1>7 DEF Touched
  <2>2. (n + i) - n = i
    BY <1>6
  <2> HIDE DEF q, n
  <2>3. n + i \in DOMAIN ownerships' /\ ownerships'[n + i].car = v /\ ownerships'[n + i].party = q.party
    BY <1>4, <2>1, <2>2
  <2> QED
    BY <2>3 DEF Record
<1> QED
  BY <1>5, <1>7

\* Who has an open ownership once it is committed.
LEMMA CommittedOpen ==
    ASSUME OwnershipInv, NEW r \in OwnerReqs, CommitFiling(r), NEW v
    PROVE  /\ v \notin Touched(r) => OpenOf(v)' = OpenOf(v)
           /\ v \in Touched(r) => \E o : OpenOf(v)' = {o}
<1> DEFINE q == ownerReq[r]
           n == Len(ownerships)
<1>1. /\ DOMAIN ownerships \subseteq DOMAIN ownerships'
      /\ \A o \in DOMAIN ownerships : /\ ownerships'[o].car = ownerships[o].car
                                      /\ ownerships'[o].open <=> ownerships[o].open /\ o \notin q.closes
      /\ \A o \in DOMAIN ownerships' : o \notin DOMAIN ownerships =>
            /\ o - n \in DOMAIN q.writes
            /\ ownerships'[o].car = q.writes[o - n].car
            /\ ownerships'[o].open <=> LastWrite(q.writes, o - n)
      /\ \A i \in DOMAIN q.writes : n + i \in DOMAIN ownerships' /\ n + i \notin DOMAIN ownerships
  BY CommittedOwnerships, Zenon
<1>2. q.pc = "commit" /\ WritesSound(r) /\ ReqTyped(r) /\ ownerships \in Seq(OwnedRow)
  BY DEF CommitFiling, OwnershipInv, TablesTyped
<1>3. n \in Nat /\ DOMAIN q.writes = 1..Len(q.writes) /\ Len(q.writes) \in Nat
      /\ DOMAIN ownerships = 1..n /\ DOMAIN ownerships' \subseteq Int
  <2>1. ownerships' \in Seq(OwnedRow)
    BY CommittedOwnerships
  <2> QED
    BY <1>2, <2>1 DEF ReqTyped
<1>4. CASE v \notin Touched(r)
  <2>1. \A o \in DOMAIN ownerships : ownerships[o].car = v => o \notin q.closes
    BY <1>2, <1>4 DEF WritesSound
  <2>2. \A o \in DOMAIN ownerships' : o \notin DOMAIN ownerships => ownerships'[o].car # v
    BY <1>1, <1>4 DEF Touched
  <2> HIDE DEF q, n
  <2>3. ASSUME NEW o PROVE o \in OpenOf(v) => o \in OpenOf(v)'
    BY <1>1, <2>1, Zenon DEF OpenOf
  <2>4. ASSUME NEW o PROVE o \in OpenOf(v)' => o \in OpenOf(v)
    BY <1>1, <2>2, Zenon DEF OpenOf
  <2> QED
    BY <1>4, <2>3, <2>4
<1>5. CASE v \in Touched(r)
  <2>1. PICK j \in DOMAIN q.writes : q.writes[j].car = v /\ LastWrite(q.writes, j)
    BY <1>2, <1>5 DEF WritesSound
  <2>2. OpenOf(v) \subseteq q.closes
    BY <1>2, <1>5 DEF WritesSound
  <2>3. (n + j) - n = j
    BY <1>3
  <2>4. ASSUME NEW i \in DOMAIN q.writes, q.writes[i].car = v, LastWrite(q.writes, i) PROVE i = j
    BY <1>3, <2>1, <2>4 DEF LastWrite
  <2>5. \A o \in DOMAIN ownerships' : (o - n) = j => o = n + j
    BY <1>3
  <2> HIDE DEF q, n
  <2>6. n + j \in OpenOf(v)'
    <3>1. n + j \in DOMAIN ownerships' /\ n + j \notin DOMAIN ownerships
      BY <1>1
    <3>2. ownerships'[n + j].car = v
      BY <1>1, <2>1, <2>3, <3>1
    <3>3. ownerships'[n + j].open <=> LastWrite(q.writes, (n + j) - n)
      BY <1>1, <3>1, Zenon
    <3>4. ownerships'[n + j].open
      BY <2>1, <2>3, <3>3, Zenon
    <3> QED
      BY <3>1, <3>2, <3>4, Zenon DEF OpenOf
  <2>7. ASSUME NEW o \in OpenOf(v)' PROVE o = n + j
    <3>1. o \in DOMAIN ownerships' /\ ownerships'[o].car = v /\ ownerships'[o].open
      BY <2>7, Zenon DEF OpenOf
    <3>2. o \notin DOMAIN ownerships
      <4>1. SUFFICES ASSUME o \in DOMAIN ownerships PROVE FALSE
        OBVIOUS
      <4>2. ownerships[o].car = v /\ ownerships[o].open /\ o \notin q.closes
        BY <1>1, <3>1, <4>1, Zenon
      <4>3. o \in OpenOf(v)
        BY <4>1, <4>2, Zenon DEF OpenOf
      <4> QED
        BY <2>2, <4>2, <4>3
    <3>3. o - n \in DOMAIN q.writes /\ q.writes[o - n].car = v /\ LastWrite(q.writes, o - n)
      BY <1>1, <3>1, <3>2, Zenon
    <3>4. o - n = j
      BY <2>4, <3>3
    <3> QED
      BY <2>5, <3>1, <3>4
  <2> QED
    BY <1>5, <2>6, <2>7
<1> QED
  BY <1>4, <1>5

\* The filing commits: one ownership is open of each vehicle it has written.
LEMMA CommitKeeps ==
    ASSUME OwnershipInv, NEW r \in OwnerReqs, CommitFiling(r) PROVE OwnershipInv'
<1> DEFINE q == ownerReq[r]
           filed == [kind |-> q.kind, party |-> q.party, cars |-> q.cars,
                     status |-> IF q.kind = "application" THEN "pending" ELSE "quoted"]
<1>1. q.pc = "commit" /\ filings' = Append(filings, filed) /\ Finish(r)
  BY DEF CommitFiling
<1>2. /\ WritesSound(r) /\ ReqTyped(r) /\ filings \in Seq(FilingRow)
      /\ OwnedOnFile /\ OneIsOpen /\ FiledByAnOwner /\ Touched(r) \subseteq Cars
  BY TouchedAreCars DEF OwnershipInv, TablesTyped
<1>3. RecordKept /\ \A v \in Touched(r) : <<q.party, v>> \in Record'
  BY CommittedRecord
<1>4. filed \in FilingRow /\ filed.party = q.party /\ filed.cars = q.cars
  BY <1>2 DEF ReqTyped, FilingRow
<1>5. /\ car' \in [Cars -> CarRow]
      /\ OnFiles \subseteq OnFiles' /\ Touched(r) \subseteq OnFiles' /\ OnFiles' \subseteq OnFiles \cup Touched(r)
  BY CommittedCars
<1>6. \A v : /\ v \notin Touched(r) => OpenOf(v)' = OpenOf(v)
             /\ v \in Touched(r) => \E o : OpenOf(v)' = {o}
  BY CommittedOpen
<1>7. /\ ownerships' \in Seq(OwnedRow)
      /\ \A o \in DOMAIN ownerships : ownerships'[o].car = ownerships[o].car
      /\ \A o \in DOMAIN ownerships' : o \notin DOMAIN ownerships => ownerships'[o].car \in Touched(r)
  BY CommittedOwnerships DEF Touched
<1> HIDE DEF filed
<1>8. \A s \in OwnerReqs, v \in Cars : rowLock[v] = s /\ rowLock'[v] = s => OpenOf(v)' \subseteq OpenOf(v)
  <2>1. SUFFICES ASSUME NEW s \in OwnerReqs, NEW v \in Cars, rowLock[v] = s, rowLock'[v] = s
                 PROVE  v \notin Touched(r)
    BY <1>6
  <2>2. rowLock'[v] = IF rowLock[v] = r THEN Nobody ELSE rowLock[v]
    BY <1>1 DEF Finish
  <2>3. rowLock[v] # r
    BY <2>1, <2>2, OwnershipAssumption
  <2> QED
    BY <1>2, <2>3 DEF WritesSound
<1>9. /\ rowLock' \in [Cars -> Reqs]
      /\ DOMAIN ownerReq' = OwnerReqs /\ ownerReq' = [s \in OwnerReqs |-> ownerReq'[s]]
      /\ \A s \in OwnerReqs : ReqTyped(s)' /\ LinesSound(s)' /\ WritesSound(s)'
  BY <1>1, <1>3, <1>8, RequestsKept
<1>10. /\ filings' \in Seq(FilingRow)
       /\ \A f \in DOMAIN filings' : \/ f \in DOMAIN filings /\ filings'[f] = filings[f]
                                     \/ filings'[f] = filed
  BY <1>1, <1>2, <1>4
<1>11. OwnedOnFile'
  BY <1>2, <1>5, <1>7 DEF OwnedOnFile
<1>12. OneIsOpen'
  BY <1>2, <1>5, <1>6 DEF OneIsOpen
<1>13. FiledByAnOwner'
  <2>1. SUFFICES ASSUME NEW f \in DOMAIN filings', NEW i \in DOMAIN filings'[f].cars
                 PROVE  <<filings'[f].party, filings'[f].cars[i]>> \in Record'
    BY DEF FiledByAnOwner, Record
  <2>2. CASE f \in DOMAIN filings /\ filings'[f] = filings[f]
    <3>1. <<filings[f].party, filings[f].cars[i]>> \in Record
      BY <1>2, <2>2 DEF FiledByAnOwner, Record
    <3> QED
      BY <1>3, <2>2, <3>1, RecordGrows
  <2>3. CASE filings'[f] = filed
    <3>1. i \in DOMAIN q.cars
      BY <1>4, <2>3
    <3>2. <<q.party, q.cars[i]>> \in Record \/ q.cars[i] \in Touched(r)
      BY <1>2, <3>1 DEF WritesSound
    <3>3. <<q.party, q.cars[i]>> \in Record'
      BY <1>3, <3>2, RecordGrows
    <3> QED
      BY <1>4, <2>3, <3>3
  <2> QED
    BY <1>10, <2>2, <2>3
<1>14. TablesTyped'
  BY <1>5, <1>7, <1>9, <1>10 DEF TablesTyped
<1> QED
  BY <1>9, <1>11, <1>12, <1>13, <1>14 DEF OwnershipInv

\* What has to hold for a vehicle to have one owner at all times.
LEMMA OwnershipInvIsInductive ==
    OwnershipSpec => []OwnershipInv
<1>1. OwnershipInit => OwnershipInv
  <2> SUFFICES ASSUME OwnershipInit PROVE OwnershipInv
    OBVIOUS
  <2>1. TablesTyped
    BY DEF OwnershipInit, TablesTyped, CarRow, Reqs
  <2>2. OnFiles = {} /\ DOMAIN ownerships = {} /\ DOMAIN filings = {}
    BY DEF OwnershipInit, OnFiles, OnFile
  <2>3. ASSUME NEW r \in OwnerReqs PROVE ReqTyped(r) /\ LinesSound(r) /\ WritesSound(r)
    <3>1. ownerReq[r] = NoLines
      BY DEF OwnershipInit
    <3>2. ReqTyped(r)
      BY <3>1 DEF ReqTyped, NoLines, ReqFields, Holders
    <3>3. ownerReq[r].pc = "idle" /\ ownerReq[r].from = 0
      BY <3>1 DEF NoLines
    <3>4. LinesSound(r)
      BY <3>3 DEF LinesSound, Filing, TxSteps
    <3>5. ownerReq[r].writes = << >> /\ ownerReq[r].closes = {} /\ ownerReq[r].cars = << >>
      BY <3>1 DEF NoLines
    <3>6. Touched(r) = {}
      BY <3>5 DEF Touched
    <3>7. WritesSound(r)
      BY <3>3, <3>5, <3>6 DEF WritesSound, TxSteps
    <3> QED
      BY <3>2, <3>4, <3>7
  <2> QED
    BY <2>1, <2>2, <2>3 DEF OwnershipInv, OwnedOnFile, OneIsOpen, FiledByAnOwner
<1>2. OwnershipInv /\ [OwnershipNext]_ownershipVars => OwnershipInv'
  <2> SUFFICES ASSUME OwnershipInv, [OwnershipNext]_ownershipVars PROVE OwnershipInv'
    OBVIOUS
  <2>1. ASSUME NEW r \in OwnerReqs, NEW kind \in {"quotation", "application"}, NEW p \in Parties,
               NEW lines \in LineUps, FileLines(r, kind, p, lines)
        PROVE  OwnershipInv'
    BY <2>1, FileLinesKeeps
  <2>2. ASSUME NEW r \in OwnerReqs, CheckLine(r) \/ CheckPendingFor(r) \/ CheckPoliciesFor(r)
        PROVE  OwnershipInv'
    BY <2>2, CheckLineKeeps, CheckPendingKeeps, CheckPoliciesKeeps
  <2>3. ASSUME NEW r \in OwnerReqs, WriteLine(r) PROVE OwnershipInv'
    BY <2>3, WriteOwnedKeeps, WriteReadKeeps, WriteNewKeeps DEF WriteLine
  <2>4. ASSUME NEW r \in OwnerReqs, WriteUpdate(r) \/ WriteOwner(r) \/ CommitFiling(r) PROVE OwnershipInv'
    BY <2>4, WriteUpdateKeeps, WriteOwnerKeeps, CommitKeeps
  <2>5. ASSUME NEW r \in OwnerReqs, NEW f \in DOMAIN filings, SubmitFiling(r, f) PROVE OwnershipInv'
    BY <2>5, SubmitKeepsOwnership
  <2>6. ASSUME NEW r \in OwnerReqs, Convert(r) PROVE OwnershipInv'
    BY <2>6, ConvertKeeps
  <2>7. ASSUME NEW r \in OwnerReqs, NEW v \in Cars, NEW plate \in Plates, EditVehicleRead(r, v, plate)
        PROVE  OwnershipInv'
    BY <2>7, EditReadKeeps
  <2>8. ASSUME NEW r \in OwnerReqs, EditVehicleCheck(r) \/ EditVehicleWrite(r) PROVE OwnershipInv'
    BY <2>8, EditCheckKeeps, EditWriteKeeps
  <2>9. ASSUME NEW r \in OwnerReqs, OwnershipFails(r) PROVE OwnershipInv'
    BY <2>9, DropKeepsOwnership DEF OwnershipFails
  <2>10. ASSUME NEW f \in DOMAIN filings, DecideFiling(f) \/ ExpireFiling(f) PROVE OwnershipInv'
    BY <2>10, DecisionKeepsOwnership
  <2>11. CASE UNCHANGED ownershipVars
    <3>1. /\ UNCHANGED <<car, ownerships, filings, rowLock, ownerReq>>
          /\ car \in [Cars -> CarRow] /\ filings \in Seq(FilingRow)
      BY <2>11 DEF ownershipVars, OwnershipInv, TablesTyped
    <3>2. OnFiles' = OnFiles
      BY <3>1 DEF OnFiles, OnFile
    <3>3. \A f \in DOMAIN filings' : \E g \in DOMAIN filings :
              filings'[f].party = filings[g].party /\ filings'[f].cars = filings[g].cars
      BY <3>1
    <3> QED
      BY <3>1, <3>2, <3>3, OwnersStay
  <2> QED
    BY <2>1, <2>2, <2>3, <2>4, <2>5, <2>6, <2>7, <2>8, <2>9, <2>10, <2>11 DEF OwnershipNext
<1> QED
  BY <1>1, <1>2, PTL DEF OwnershipSpec

\* OwnersAreOnRecord, for any vehicles and parties: a vehicle on file has one
\* owner, and whoever has filed for one is on record as having owned it, however
\* filings, edits and decisions interleave (routes/policyApplications.js,
\* routes/policyQuotations.js).
THEOREM OwnersStayOnRecord == OwnershipSpec => []OwnersAreOnRecord
<1>1. OwnershipInv => OwnersAreOnRecord
  <2> SUFFICES ASSUME OwnershipInv PROVE OwnersAreOnRecord
    OBVIOUS
  <2>1. ASSUME NEW v \in Cars, OnFile(v) PROVE Cardinality(OpenOf(v)) = 1
    <3>1. v \in OnFiles
      BY <2>1 DEF OnFiles
    <3>2. PICK o : OpenOf(v) = {o}
      BY <3>1 DEF OwnershipInv, OneIsOpen
    <3> QED
      BY <3>2, FS_Singleton
  <2> QED
    BY <2>1 DEF OwnershipInv, OwnersAreOnRecord, OneOpenOwner
<1> QED
  BY <1>1, OwnershipInvIsInductive, PTL

-----------------------------------------------------------------------------
(* The dialog of a coverage: PricingEditor.                                  *)

EditorFields == {"of", "by", "days", "day", "reading", "draft", "original"}
SaveFields   == {"step", "of", "form", "pricing", "job", "todo", "alone", "asked", "written"}
SaveSteps    == {"details", "requests", "refresh", "reload", "done"}

\* The editor is off the page only while the list loads or the dialog is
\* closed, and nothing is read for it then.
EditorIsThere ==
    /\ DOMAIN listed = {"copy", "waiting", "loading"}
    /\ DOMAIN edit = {"open", "of", "copy", "ref", "form", "original"}
    /\ edit.open => edit.of \in Priced
    /\ editor = Gone \/ DOMAIN editor = EditorFields
    /\ editor = Gone => reads = {} /\ (listed.loading \/ ~edit.open)

SaveShape ==
    /\ save.step = "idle" \/ (DOMAIN save = SaveFields /\ save.step \in SaveSteps)
    /\ "saved" \in listed.waiting => save.step = "reload"

\* What the requests that are left will write.
Sends(kind, job) ==
    CASE kind = "max"   -> {<<"max", job.of, job.draft.max>>}
      [] kind = "tiers" -> {<<p, job.of, job.day, job.draft.prices[p]>> : p \in TiersOf(job.draft.mode)}
      [] kind = "mode"  -> {<<"mode", job.of, job.draft.mode>>} \cup
                           {<<p, job.of, job.day, job.draft.prices[p]>> : p \in Scalars(job.draft.mode)}
      [] OTHER          -> {}

WillSend(todo, job) == UNION {Sends(todo[i], job) : i \in DOMAIN todo}

\* A save that was left alone has written, or will, what was entered.
SaveIsWhole(sv) ==
    sv.alone =>
        /\ sv.step = "details" =>
              /\ editor # Gone
              /\ ~sv.pricing => editor.draft = editor.original
              /\ sv.asked \subseteq PricesAsked(editor) \cup {<<"details", sv.of, sv.form.text>>}
        /\ sv.step = "requests" => sv.asked \subseteq sv.written \cup WillSend(sv.todo, sv.job)
        /\ sv.step \in {"refresh", "reload", "done"} => sv.asked \subseteq sv.written

TodoIsAList == save.step = "requests" => save.todo \in Seq({"max", "tiers", "mode"})

EditorInv == EditorIsThere /\ SaveShape /\ TodoIsAList /\ (save.step # "idle" => SaveIsWhole(save))

\* Nothing is open at first.
LEMMA InitEditorInv == EditorInit => EditorInv
<1> SUFFICES ASSUME EditorInit PROVE EditorInv
  OBVIOUS
<1>1. EditorIsThere
  BY DEF EditorInit, EditorIsThere
<1>2. save.step = "idle" /\ "saved" \notin listed.waiting
  BY DEF EditorInit, NotSaving
<1> QED
  BY <1>1, <1>2 DEF EditorInv, SaveShape, TodoIsAList

\* An editor that is put on the page is one.
LEMMA MountedIsThere ==
    ASSUME NEW of, NEW copy, NEW at, Mounted(of, copy, at)
    PROVE  editor' # Gone /\ DOMAIN editor' = EditorFields
<1>1. DOMAIN editor' = EditorFields
  BY DEF Mounted, EditorFields
<1>2. DOMAIN Gone = {"of"}
  BY DEF Gone
<1> QED
  BY <1>1, <1>2 DEF EditorFields

\* What has the fields of an editor is one.
LEMMA EditorIsNotGone ==
    ASSUME NEW e, DOMAIN e = EditorFields PROVE e # Gone
<1>1. DOMAIN Gone = {"of"}
  BY DEF Gone
<1> QED
  BY <1>1 DEF EditorFields

\* What is done in the page leaves a save that is under way in its shape, but
\* no longer alone.
LEMMA MeddledIs ==
    ASSUME SaveShape, TodoIsAList, save.step # "idle" => SaveIsWhole(save), save' = Meddled,
           listed'.waiting \cap {"saved"} = listed.waiting \cap {"saved"}
    PROVE  SaveShape' /\ TodoIsAList' /\ (save'.step # "idle" => SaveIsWhole(save)')
<1>1. CASE Saving
  <2>1. DOMAIN save = SaveFields /\ save' = [save EXCEPT !.alone = FALSE]
    BY <1>1 DEF Saving, SaveShape, Meddled
  <2>2. DOMAIN save' = SaveFields /\ save'.step = save.step /\ save'.todo = save.todo /\ save'.alone = FALSE
    BY <2>1 DEF SaveFields
  <2>3. SaveShape' /\ TodoIsAList'
    BY <2>1, <2>2 DEF SaveShape, TodoIsAList
  <2> QED
    BY <2>2, <2>3 DEF SaveIsWhole
<1>2. CASE ~Saving
  <2>1. save' = save /\ save.step \in {"idle", "done"}
    BY <1>2 DEF Saving, Meddled
  <2> QED
    BY <2>1 DEF SaveShape, TodoIsAList, SaveIsWhole
<1> QED
  BY <1>1, <1>2

\* What leaves the save alone, and the editor's figures, keeps it whole.
LEMMA SaveUntouched ==
    ASSUME SaveShape, TodoIsAList, save.step # "idle" => SaveIsWhole(save), save' = save,
           save.step = "details" /\ editor # Gone =>
               /\ editor' # Gone /\ editor'.draft = editor.draft /\ editor'.original = editor.original
               /\ editor'.of = editor.of /\ editor'.day = editor.day,
           "saved" \in listed'.waiting => "saved" \in listed.waiting
    PROVE  SaveShape' /\ TodoIsAList' /\ (save'.step # "idle" => SaveIsWhole(save)')
<1>1. SaveShape' /\ TodoIsAList'
  BY DEF SaveShape, TodoIsAList
<1>2. CASE save.step = "details" /\ save.alone
  <2>1. /\ editor # Gone
        /\ ~save.pricing => editor.draft = editor.original
        /\ save.asked \subseteq PricesAsked(editor) \cup {<<"details", save.of, save.form.text>>}
    BY <1>2 DEF SaveIsWhole
  <2>2. PricesAsked(editor)' = PricesAsked(editor)
    <3>1. /\ editor'.draft = editor.draft /\ editor'.original = editor.original
          /\ editor'.of = editor.of /\ editor'.day = editor.day
      BY <1>2, <2>1
    <3> QED
      BY <3>1, Zenon DEF PricesAsked
  <2> QED
    BY <1>1, <1>2, <2>1, <2>2 DEF SaveIsWhole
<1>3. CASE ~(save.step = "details" /\ save.alone)
  BY <1>1, <1>3 DEF SaveIsWhole
<1> QED
  BY <1>2, <1>3

\* The requests of a save are enough for what was entered.
LEMMA RequestsCover ==
    ASSUME NEW e, NEW job, job.of = e.of, job.day = e.day, job.draft = e.draft
    PROVE  /\ Requests(e.draft, e.original) \in Seq({"max", "tiers", "mode"})
           /\ PricesAsked(e) \subseteq WillSend(Requests(e.draft, e.original), job)
<1> DEFINE d == e.draft
           o == e.original
           A == IF d.max # o.max THEN <<"max">> ELSE << >>
           B == IF TiersOf(d.mode) # {} THEN <<"tiers">> ELSE << >>
           C == IF ModeIsSent(d, o) THEN <<"mode">> ELSE << >>
           Kinds == {"max", "tiers", "mode"}
<1>1. A \in Seq(Kinds) /\ B \in Seq(Kinds) /\ C \in Seq(Kinds)
  <2>1. \A k \in Kinds : <<k>> \in Seq(Kinds)
    OBVIOUS
  <2>2. << >> \in Seq(Kinds)
    OBVIOUS
  <2> QED
    BY <2>1, <2>2
<1>2. Requests(d, o) = (A \o B) \o C
  BY DEF Requests
<1>3. /\ d.max # o.max => A = <<"max">>
      /\ TiersOf(d.mode) # {} => B = <<"tiers">>
      /\ ModeIsSent(d, o) => C = <<"mode">>
  OBVIOUS
<1> HIDE DEF A, B, C
<1>4. Requests(d, o) \in Seq(Kinds)
  BY <1>1, <1>2
<1> DEFINE Q == Requests(d, o)
<1>5. /\ \A i \in DOMAIN A : \E j \in DOMAIN Q : Q[j] = A[i]
      /\ \A i \in DOMAIN B : \E j \in DOMAIN Q : Q[j] = B[i]
      /\ \A i \in DOMAIN C : \E j \in DOMAIN Q : Q[j] = C[i]
  <2>1. \A q, s \in Seq(Kinds) :
           /\ (\A i \in DOMAIN q : i \in DOMAIN (q \o s) /\ (q \o s)[i] = q[i])
           /\ (\A j \in DOMAIN s : Len(q) + j \in DOMAIN (q \o s) /\ (q \o s)[Len(q) + j] = s[j])
    OBVIOUS
  <2>2. A \o B \in Seq(Kinds)
    BY <1>1
  <2>3. \A i \in DOMAIN A : i \in DOMAIN (A \o B) /\ (A \o B)[i] = A[i]
    BY <1>1, <2>1
  <2>4. \A i \in DOMAIN B : (Len(A) + i) \in DOMAIN (A \o B) /\ (A \o B)[Len(A) + i] = B[i]
    BY <1>1, <2>1
  <2>5. \A i \in DOMAIN (A \o B) : i \in DOMAIN Q /\ Q[i] = (A \o B)[i]
    BY <1>1, <1>2, <2>1, <2>2
  <2>6. \A i \in DOMAIN C : (Len(A \o B) + i) \in DOMAIN Q /\ Q[Len(A \o B) + i] = C[i]
    BY <1>1, <1>2, <2>1, <2>2
  <2> QED
    BY <2>3, <2>4, <2>5, <2>6
<1>6. /\ d.max # o.max => \E j \in DOMAIN Q : Q[j] = "max"
      /\ TiersOf(d.mode) # {} => \E j \in DOMAIN Q : Q[j] = "tiers"
      /\ ModeIsSent(d, o) => \E j \in DOMAIN Q : Q[j] = "mode"
  <2>1. \A k : 1 \in DOMAIN <<k>> /\ <<k>>[1] = k
    OBVIOUS
  <2> QED
    BY <1>3, <1>5, <2>1
<1> HIDE DEF Q
<1>7. \A k \in Kinds : (\E j \in DOMAIN Q : Q[j] = k) => Sends(k, job) \subseteq WillSend(Q, job)
  BY DEF WillSend
<1>8. ASSUME NEW x \in PricesAsked(e) PROVE x \in WillSend(Q, job)
  <2>1. CASE d.max # o.max /\ x = <<"max", e.of, d.max>>
    <3>1. x \in Sends("max", job)
      BY <2>1 DEF Sends
    <3> QED
      BY <1>6, <1>7, <2>1, <3>1
  <2>2. CASE d.mode # o.mode /\ x = <<"mode", e.of, d.mode>>
    <3>1. x \in Sends("mode", job) /\ ModeIsSent(d, o)
      BY <2>2 DEF Sends, ModeIsSent
    <3> QED
      BY <1>6, <1>7, <3>1
  <2>3. ASSUME NEW p \in Scalars(d.mode) \cup TiersOf(d.mode), d.prices[p] # o.prices[p],
               x = <<p, e.of, e.day, d.prices[p]>>
        PROVE  x \in WillSend(Q, job)
    <3>1. CASE p \in Scalars(d.mode)
      <4>1. x \in Sends("mode", job) /\ ModeIsSent(d, o)
        BY <2>3, <3>1 DEF Sends, ModeIsSent
      <4> QED
        BY <1>6, <1>7, <4>1
    <3>2. CASE p \in TiersOf(d.mode)
      <4>1. x \in Sends("tiers", job)
        BY <2>3, <3>2 DEF Sends
      <4> QED
        BY <1>6, <1>7, <3>2, <4>1
    <3> QED
      BY <2>3, <3>1, <3>2
  <2> QED
    BY <2>1, <2>2, <2>3 DEF PricesAsked
<1> QED
  BY <1>4, <1>8 DEF Q

\* Nothing was entered when the draft is what it was.
LEMMA NothingAsked ==
    ASSUME NEW e, e.draft = e.original PROVE PricesAsked(e) = {}
BY DEF PricesAsked

\* A save whose requests start has what was entered before it.
LEMMA StartedIs ==
    ASSUME NEW sv, DOMAIN sv = SaveFields,
           sv.alone => editor # Gone /\ sv.asked \subseteq sv.written \cup PricesAsked(editor),
           save' = Started(sv)
    PROVE  /\ save'.step = "idle" \/ (DOMAIN save' = SaveFields /\ save'.step = "requests")
           /\ TodoIsAList'
           /\ save'.step # "idle" => SaveIsWhole(save)'
<1>1. CASE editor = Gone
  BY <1>1 DEF Started, NotSaving, TodoIsAList
<1>2. CASE editor # Gone
  <2> DEFINE job == [of |-> editor.of, day |-> editor.day, draft |-> editor.draft, by |-> editor.by]
             todo == Requests(editor.draft, editor.original)
  <2>1. job.of = editor.of /\ job.day = editor.day /\ job.draft = editor.draft
    OBVIOUS
  <2>2. save' = [sv EXCEPT !.step = "requests", !.todo = todo, !.job = job]
    BY <1>2 DEF Started
  <2>3. todo \in Seq({"max", "tiers", "mode"}) /\ PricesAsked(editor) \subseteq WillSend(todo, job)
    BY <2>1, RequestsCover
  <2> HIDE DEF job, todo
  <2>4. /\ DOMAIN save' = SaveFields /\ save'.step = "requests" /\ save'.todo = todo /\ save'.job = job
        /\ save'.asked = sv.asked /\ save'.written = sv.written
    BY <2>2 DEF SaveFields
  <2>5. save'.alone = sv.alone
    BY <2>2 DEF SaveFields
  <2>6. SaveIsWhole(save)'
    <3>1. sv.alone => sv.asked \subseteq sv.written \cup WillSend(todo, job)
      BY <2>3
    <3> QED
      BY <2>4, <2>5, <3>1 DEF SaveIsWhole
  <2> QED
    BY <2>3, <2>4, <2>6 DEF TodoIsAList
<1> QED
  BY <1>1, <1>2

\* A request that is answered moves what it wrote from what is to be sent.
LEMMA AnsweredIs ==
    ASSUME NEW sv, sv.step = "requests", DOMAIN sv = SaveFields, SaveIsWhole(sv),
           sv.todo \in Seq({"max", "tiers", "mode"}), sv.todo # << >>,
           NEW gains, Sends(Head(sv.todo), sv.job) \subseteq gains,
           save' = [sv EXCEPT !.todo = Tail(sv.todo), !.written = sv.written \cup gains]
    PROVE  /\ DOMAIN save' = SaveFields /\ save'.step = "requests"
           /\ TodoIsAList' /\ SaveIsWhole(save)'
<1>1. /\ DOMAIN save' = SaveFields /\ save'.step = "requests" /\ save'.todo = Tail(sv.todo)
      /\ save'.job = sv.job /\ save'.asked = sv.asked /\ save'.written = sv.written \cup gains
  BY DEF SaveFields
<1>2. save'.alone = sv.alone
  BY DEF SaveFields
<1>3. TodoIsAList'
  BY <1>1 DEF TodoIsAList
<1>4. WillSend(sv.todo, sv.job) \subseteq gains \cup WillSend(Tail(sv.todo), sv.job)
  <2> SUFFICES ASSUME NEW i \in DOMAIN sv.todo, NEW x \in Sends(sv.todo[i], sv.job)
               PROVE  x \in gains \cup WillSend(Tail(sv.todo), sv.job)
    BY DEF WillSend
  <2>1. CASE i = 1
    BY <2>1
  <2>2. CASE i # 1
    <3>1. i - 1 \in DOMAIN Tail(sv.todo) /\ Tail(sv.todo)[i - 1] = sv.todo[i]
      BY <2>2
    <3> QED
      BY <3>1 DEF WillSend
  <2> QED
    BY <2>1, <2>2
<1>5. SaveIsWhole(save)'
  BY <1>1, <1>2, <1>4 DEF SaveIsWhole
<1> QED
  BY <1>1, <1>3, <1>5

\* What is done with the page leaves the editor there, or loads the list.
LEMMA PageKeepsEditor ==
    ASSUME EditorInv,
           \/ \E c \in Priced : OpenEditCoverage(c)
           \/ CloseEditCoverage
           \/ \E text \in Figures :
                 \/ EnterMaximum(text) \/ EnterDetails(text) \/ \E p \in Parts : EnterPrice(p, text)
           \/ \E mode \in EditorModes : ChooseMode(mode)
           \/ \E d \in PeriodDays : ChoosePeriod(d) \/ CreateEditorPeriod(d)
    PROVE  EditorIsThere' /\ save' = Meddled /\ listed'.waiting \cap {"saved"} = listed.waiting \cap {"saved"}
<1> USE DEF EditorInv
<1>1. ASSUME NEW c \in Priced, OpenEditCoverage(c) PROVE EditorIsThere' /\ save' = Meddled /\ listed' = listed
  <2>1. /\ DOMAIN edit' = {"open", "of", "copy", "ref", "form", "original"} /\ edit'.of = c
        /\ listed' = listed /\ ~listed.loading /\ save' = Meddled
    BY <1>1 DEF OpenEditCoverage, EditorIsThere, Do
  <2>2. CASE editor.of = c
    <3>1. editor' = editor /\ reads' = reads
      BY <1>1, <2>2 DEF OpenEditCoverage
    <3>2. editor # Gone
      BY <2>2, EditorAssumption DEF Gone
    <3> QED
      BY <2>1, <3>1, <3>2 DEF EditorIsThere
  <2>3. CASE editor.of # c
    <3>1. Mounted(c, listed.copy[c], clicks)
      BY <1>1, <2>3 DEF OpenEditCoverage
    <3>2. editor' # Gone /\ DOMAIN editor' = EditorFields
      BY <3>1, MountedIsThere
    <3> QED
      BY <2>1, <3>2 DEF EditorIsThere
  <2> QED
    BY <2>1, <2>2, <2>3
<1>2. ASSUME CloseEditCoverage PROVE EditorIsThere' /\ save' = Meddled /\ listed' = listed
  BY <1>2 DEF CloseEditCoverage, EditorIsThere, Do
<1>3. ASSUME NEW draft, Entered(draft) PROVE EditorIsThere' /\ save' = Meddled /\ listed' = listed
  <2>1. editor # Gone /\ DOMAIN editor = EditorFields
    BY <1>3 DEF Entered, Do, EditorIsThere
  <2>2. DOMAIN editor' = EditorFields
    BY <1>3, <2>1 DEF Entered
  <2> QED
    BY <1>3, <2>2, EditorIsNotGone DEF Entered, EditorIsThere
<1>4. ASSUME NEW text, EnterDetails(text) PROVE EditorIsThere' /\ save' = Meddled /\ listed' = listed
  BY <1>4 DEF EnterDetails, EditorIsThere, Do
<1>5. ASSUME NEW d, ChoosePeriod(d) PROVE EditorIsThere' /\ save' = Meddled /\ listed' = listed
  <2>1. editor # Gone /\ DOMAIN editor = EditorFields
    BY <1>5 DEF ChoosePeriod, Do, EditorIsThere
  <2>2. DOMAIN editor' = EditorFields
    BY <1>5, <2>1 DEF ChoosePeriod
  <2> QED
    BY <1>5, <2>2, EditorIsNotGone DEF ChoosePeriod, EditorIsThere
<1>6. ASSUME NEW d, CreateEditorPeriod(d)
      PROVE  EditorIsThere' /\ save' = Meddled /\ listed'.waiting \cap {"saved"} = listed.waiting \cap {"saved"}
  <2>1. /\ listed'.waiting = listed.waiting \cup {"changed"} /\ listed'.loading
        /\ DOMAIN listed' = {"copy", "waiting", "loading"}
    BY <1>6 DEF CreateEditorPeriod, EditorIsThere
  <2>2. editor' = Gone /\ reads' = {} /\ save' = Meddled /\ edit' = edit
    BY <1>6 DEF CreateEditorPeriod
  <2> QED
    BY <2>1, <2>2 DEF EditorIsThere
<1> QED
  BY <1>1, <1>2, <1>3, <1>4, <1>5, <1>6 DEF EnterMaximum, ChooseMode, EnterPrice

\* What was asked for the editor arrives in it, or fails.
LEMMA ReadsKeep ==
    ASSUME EditorInv, NEW r \in reads, PricesRead(r) \/ PricesArrive(r) \/ PricesFail(r)
    PROVE  EditorInv'
<1> USE DEF EditorInv
<1>1. editor # Gone /\ DOMAIN editor = EditorFields
  BY DEF EditorIsThere
<1>2. CASE PricesRead(r)
  <2>1. UNCHANGED <<listed, edit, editor, save>>
    BY <1>2 DEF PricesRead
  <2>2. EditorIsThere'
    BY <1>1, <2>1 DEF EditorIsThere
  <2> QED
    BY <2>1, <2>2, SaveUntouched
<1>3. CASE PricesArrive(r)
  <2>1. UNCHANGED <<listed, edit>> /\ save' = Meddled /\ DOMAIN editor' = EditorFields
    BY <1>1, <1>3 DEF PricesArrive
  <2>2. EditorIsThere'
    BY <2>1, EditorIsNotGone DEF EditorIsThere
  <2> QED
    BY <2>1, <2>2, MeddledIs
<1>4. CASE PricesFail(r)
  <2>1. UNCHANGED <<listed, edit, save>> /\ editor' = [editor EXCEPT !.reading = FALSE]
    BY <1>4 DEF PricesFail
  <2>2. /\ DOMAIN editor' = EditorFields /\ editor'.draft = editor.draft /\ editor'.of = editor.of
        /\ editor'.original = editor.original /\ editor'.day = editor.day
    BY <1>1, <2>1 DEF EditorFields
  <2>3. EditorIsThere' /\ editor' # Gone
    BY <2>1, <2>2, EditorIsNotGone DEF EditorIsThere
  <2> QED
    BY <2>1, <2>2, <2>3, SaveUntouched
<1> QED
  BY <1>2, <1>3, <1>4

\* Whatever is entered is taken back only when nothing is being saved.
LEMMA CancelEditKeeps == ASSUME EditorInv, CancelEditCoverage PROVE EditorInv'
<1> USE DEF EditorInv
<1>1. editor # Gone /\ DOMAIN editor = EditorFields
  BY DEF CancelEditCoverage, Do, EditorIsThere
<1>2. DOMAIN editor' = EditorFields /\ UNCHANGED <<listed, reads, save>>
  BY <1>1 DEF CancelEditCoverage
<1>3. DOMAIN edit' = DOMAIN edit /\ edit'.open = edit.open /\ edit'.of = edit.of
  BY DEF CancelEditCoverage, EditorIsThere
<1>4. EditorIsThere'
  BY <1>2, <1>3, EditorIsNotGone DEF EditorIsThere
<1>5. save.step # "details"
  BY DEF CancelEditCoverage, Saving
<1> QED
  BY <1>2, <1>4, <1>5, SaveUntouched

\* A save begins with what is entered.
LEMMA SaveBegins == ASSUME EditorInv, SaveEditCoverage PROVE EditorInv'
<1> USE DEF EditorInv
<1>1. UNCHANGED <<listed, edit, editor, reads>>
  BY DEF SaveEditCoverage
<1>2. EditorIsThere'
  BY <1>1 DEF EditorIsThere
<1>3. editor # Gone
  BY DEF SaveEditCoverage, Do, EditorIsThere
<1>4. "saved" \notin listed'.waiting
  BY <1>1 DEF SaveEditCoverage, Saving, SaveShape
<1> DEFINE asked == PricesAsked(editor) \cup
                      (IF DetailsDirty THEN {<<"details", edit.of, edit.form.text>>} ELSE {})
           sv    == [step |-> "details", of |-> edit.of, form |-> edit.form, pricing |-> PricingDirty,
                     job |-> << >>, todo |-> << >>, alone |-> TRUE, asked |-> asked, written |-> {}]
<1>5. save' = IF DetailsDirty THEN sv ELSE Started(sv)
  BY DEF SaveEditCoverage
<1>6. /\ DOMAIN sv = SaveFields /\ sv.step = "details" /\ sv.asked = asked /\ sv.written = {}
      /\ sv.of = edit.of /\ sv.form = edit.form
  BY DEF SaveFields
<1>7. ~sv.pricing => editor.draft = editor.original
  BY Zenon DEF PricingDirty
<1> HIDE DEF sv
<1>8. CASE DetailsDirty
  <2>1. save' = sv /\ sv.asked \subseteq PricesAsked(editor) \cup {<<"details", sv.of, sv.form.text>>}
    BY <1>5, <1>6, <1>8
  <2>2. SaveIsWhole(sv)
    BY <1>3, <1>6, <1>7, <2>1 DEF SaveIsWhole
  <2>3. SaveIsWhole(save)'
    <3>1. PricesAsked(editor)' = PricesAsked(editor)
      BY <1>1
    <3> QED
      BY <1>1, <2>1, <2>2, <3>1 DEF SaveIsWhole
  <2> QED
    BY <1>2, <1>4, <1>6, <2>1, <2>3 DEF SaveShape, SaveSteps, TodoIsAList
<1>9. CASE ~DetailsDirty
  <2>1. save' = Started(sv) /\ sv.asked \subseteq sv.written \cup PricesAsked(editor)
    BY <1>5, <1>6, <1>9
  <2>2. /\ save'.step = "idle" \/ (DOMAIN save' = SaveFields /\ save'.step = "requests")
        /\ TodoIsAList' /\ (save'.step # "idle" => SaveIsWhole(save)')
    BY <1>3, <1>6, <2>1, StartedIs
  <2> QED
    BY <1>2, <1>4, <2>2 DEF SaveShape, SaveSteps
<1> QED
  BY <1>8, <1>9

\* The list is loaded again, and takes the editor off the page.
LEMMA ReloadIs ==
    ASSUME EditorIsThere, NEW waiting, Reload(waiting)
    PROVE  /\ editor' = Gone /\ reads' = {} /\ listed'.loading
           /\ DOMAIN listed' = {"copy", "waiting", "loading"}
           /\ listed'.waiting = listed.waiting \cup waiting
BY DEF Reload, EditorIsThere

\* The details are written, and the prices are next, or the list.
LEMMA DetailsKeep == ASSUME EditorInv, DetailsSaved PROVE EditorInv'
<1> USE DEF EditorInv
<1>1. save.step = "details" /\ DOMAIN save = SaveFields /\ SaveIsWhole(save)
  BY DEF DetailsSaved, SaveShape
<1>2. /\ DOMAIN edit' = {"open", "of", "copy", "ref", "form", "original"}
      /\ edit'.open = edit.open /\ edit'.of = edit.of
  BY DEF DetailsSaved, EditorIsThere
<1> DEFINE item == <<"details", save.of, save.form.text>>
           sv   == [save EXCEPT !.written = save.written \cup {item}]
<1>3. save' = IF save.pricing THEN Started(sv) ELSE [sv EXCEPT !.step = "reload"]
  BY DEF DetailsSaved
<1>4. /\ DOMAIN sv = SaveFields /\ sv.asked = save.asked /\ sv.written = save.written \cup {item}
  BY <1>1 DEF SaveFields
<1>5. sv.alone = save.alone
  BY <1>1 DEF SaveFields
<1>6. save.alone => /\ editor # Gone /\ sv.asked \subseteq sv.written \cup PricesAsked(editor)
                    /\ ~save.pricing => editor.draft = editor.original
  BY <1>1, <1>4 DEF SaveIsWhole
<1> HIDE DEF sv, item
<1>7. CASE save.pricing
  <2>1. UNCHANGED <<listed, editor, reads>> /\ save' = Started(sv)
    BY <1>3, <1>7 DEF DetailsSaved
  <2>2. EditorIsThere'
    BY <1>2, <2>1 DEF EditorIsThere
  <2>3. sv.alone => editor # Gone /\ sv.asked \subseteq sv.written \cup PricesAsked(editor)
    BY <1>5, <1>6
  <2>4. /\ save'.step = "idle" \/ (DOMAIN save' = SaveFields /\ save'.step = "requests")
        /\ TodoIsAList' /\ (save'.step # "idle" => SaveIsWhole(save)')
    BY <1>4, <2>1, <2>3, StartedIs
  <2>5. "saved" \notin listed'.waiting
    BY <1>1, <2>1 DEF SaveShape
  <2> QED
    BY <2>2, <2>4, <2>5 DEF SaveShape, SaveSteps
<1>8. CASE ~save.pricing
  <2>1. Reload({"saved"}) /\ save' = [sv EXCEPT !.step = "reload"]
    BY <1>3, <1>8 DEF DetailsSaved
  <2>2. EditorIsThere'
    BY <1>2, <2>1, ReloadIs DEF EditorIsThere
  <2>3. /\ DOMAIN save' = SaveFields /\ save'.step = "reload" /\ save'.asked = sv.asked
        /\ save'.written = sv.written
    BY <1>4, <2>1 DEF SaveFields
  <2>4. save'.alone = sv.alone
    BY <1>4, <2>1 DEF SaveFields
  <2>5. save'.alone => save'.asked \subseteq save'.written
    BY <1>5, <1>6, <1>8, <2>3, <2>4, NothingAsked
  <2> QED
    BY <2>2, <2>3, <2>5 DEF SaveShape, SaveSteps, TodoIsAList, SaveIsWhole
<1> QED
  BY <1>7, <1>8

\* A request of a save under way.
LEMMA RequestsKeep == ASSUME EditorInv, MaximumSaved \/ TiersSaved \/ ModeSaved PROVE EditorInv'
<1> USE DEF EditorInv
<1>1. UNCHANGED <<listed, edit, editor, reads>>
  BY DEF MaximumSaved, TiersSaved, ModeSaved
<1>2. EditorIsThere'
  BY <1>1 DEF EditorIsThere
<1>3. /\ save.step = "requests" /\ DOMAIN save = SaveFields /\ SaveIsWhole(save)
      /\ save.todo \in Seq({"max", "tiers", "mode"}) /\ save.todo # << >>
  BY DEF MaximumSaved, TiersSaved, ModeSaved, NextRequest, SaveShape, TodoIsAList
<1>4. "saved" \notin listed'.waiting
  BY <1>1, <1>3 DEF SaveShape
<1>5. ASSUME NEW what, NEW parts, save' = Acknowledged(what, parts),
             Sends(Head(save.todo), save.job) \subseteq
                 what \cup {<<p, save.job.of, save.job.day, save.job.draft.prices[p]>> : p \in parts}
      PROVE  EditorInv'
  <2> DEFINE gains == what \cup {<<p, save.job.of, save.job.day, save.job.draft.prices[p]>> : p \in parts}
  <2>1. save' = [save EXCEPT !.todo = Tail(save.todo), !.written = save.written \cup gains]
    BY <1>5 DEF Acknowledged
  <2> HIDE DEF gains
  <2>2. Sends(Head(save.todo), save.job) \subseteq gains
    BY <1>5 DEF gains
  <2>3. DOMAIN save' = SaveFields /\ save'.step = "requests" /\ TodoIsAList' /\ SaveIsWhole(save)'
    BY <1>3, <2>1, <2>2, AnsweredIs
  <2> QED
    BY <1>2, <1>4, <2>3 DEF SaveShape, SaveSteps
<1>6. CASE MaximumSaved
  <2>1. save' = Acknowledged({<<"max", save.job.of, save.job.draft.max>>}, {}) /\ Head(save.todo) = "max"
    BY <1>6 DEF MaximumSaved, NextRequest
  <2>2. Sends("max", save.job) = {<<"max", save.job.of, save.job.draft.max>>}
    BY DEF Sends
  <2> QED
    BY <1>5, <2>1, <2>2
<1>7. CASE TiersSaved
  <2>1. save' = Acknowledged({}, TiersOf(save.job.draft.mode)) /\ Head(save.todo) = "tiers"
    BY <1>7 DEF TiersSaved, NextRequest
  <2>2. Sends("tiers", save.job) = {<<p, save.job.of, save.job.day, save.job.draft.prices[p]>> :
                                        p \in TiersOf(save.job.draft.mode)}
    BY DEF Sends
  <2> QED
    BY <1>5, <2>1, <2>2
<1>8. CASE ModeSaved
  <2>1. Head(save.todo) = "mode"
    BY <1>8 DEF ModeSaved, NextRequest
  <2>2. \/ save' = Acknowledged({<<"mode", save.job.of, save.job.draft.mode>>}, Scalars(save.job.draft.mode))
        \/ save' = NotSaving
    BY <1>8 DEF ModeSaved
  <2>3. Sends("mode", save.job) = {<<"mode", save.job.of, save.job.draft.mode>>} \cup
                                  {<<p, save.job.of, save.job.day, save.job.draft.prices[p]>> :
                                        p \in Scalars(save.job.draft.mode)}
    BY DEF Sends
  <2>4. CASE save' = NotSaving
    BY <1>2, <1>4, <2>4 DEF NotSaving, SaveShape, TodoIsAList
  <2> QED
    BY <1>5, <2>1, <2>2, <2>3, <2>4
<1> QED
  BY <1>6, <1>7, <1>8

\* Once all requests are answered everything is written.
LEMMA SaveEndsKeep ==
    ASSUME EditorInv, PricingSaved \/ Refreshed \/ SaveCoverageFails
    PROVE  EditorInv'
<1> USE DEF EditorInv
<1>1. CASE PricingSaved
  <2>1. /\ save.step = "requests" /\ DOMAIN save = SaveFields /\ SaveIsWhole(save) /\ save.todo = << >>
        /\ UNCHANGED <<listed, edit, reads>>
        /\ save' = [save EXCEPT !.step = "refresh"]
    BY <1>1 DEF PricingSaved, SaveShape
  <2>2. DOMAIN editor' = DOMAIN editor /\ (editor = Gone => editor' = Gone)
    BY <1>1 DEF PricingSaved
  <2>3. EditorIsThere'
    BY <2>1, <2>2, EditorIsNotGone DEF EditorIsThere
  <2>4. /\ DOMAIN save' = SaveFields /\ save'.step = "refresh" /\ save'.asked = save.asked
        /\ save'.written = save.written
    BY <2>1 DEF SaveFields
  <2>5. save'.alone = save.alone
    BY <2>1 DEF SaveFields
  <2>6. WillSend(save.todo, save.job) = {}
    BY <2>1 DEF WillSend
  <2>7. save'.alone => save'.asked \subseteq save'.written
    BY <2>1, <2>4, <2>5, <2>6 DEF SaveIsWhole
  <2>8. "saved" \notin listed'.waiting
    BY <2>1 DEF SaveShape
  <2> QED
    BY <2>3, <2>4, <2>7, <2>8 DEF SaveShape, SaveSteps, TodoIsAList, SaveIsWhole
<1>2. CASE Refreshed
  <2>1. /\ save.step = "refresh" /\ DOMAIN save = SaveFields /\ SaveIsWhole(save)
        /\ Reload({"changed", "saved"}) /\ edit' = edit
        /\ save' = [save EXCEPT !.step = "reload"]
    BY <1>2 DEF Refreshed, SaveShape
  <2>2. EditorIsThere'
    BY <2>1, ReloadIs DEF EditorIsThere
  <2>3. /\ DOMAIN save' = SaveFields /\ save'.step = "reload" /\ save'.asked = save.asked
        /\ save'.written = save.written
    BY <2>1 DEF SaveFields
  <2>4. save'.alone = save.alone
    BY <2>1 DEF SaveFields
  <2>5. save'.alone => save'.asked \subseteq save'.written
    BY <2>1, <2>3, <2>4 DEF SaveIsWhole
  <2> QED
    BY <2>2, <2>3, <2>5 DEF SaveShape, SaveSteps, TodoIsAList, SaveIsWhole
<1>3. CASE SaveCoverageFails
  <2>1. UNCHANGED <<listed, edit, editor, reads>> /\ save.step # "reload" /\ save' = NotSaving
    BY <1>3 DEF SaveCoverageFails
  <2> QED
    BY <2>1 DEF EditorIsThere, SaveShape, NotSaving, TodoIsAList
<1> QED
  BY <1>1, <1>2, <1>3

\* The list arrives, and the save that waited for it is done.
LEMMA ListKeeps == ASSUME EditorInv, NEW w \in {"changed", "saved"}, ListArrives(w) PROVE EditorInv'
<1> USE DEF EditorInv
<1>1. /\ DOMAIN listed' = {"copy", "waiting", "loading"} /\ ~listed'.loading
      /\ listed'.waiting = listed.waiting \ {w} /\ w \in listed.waiting
  BY DEF ListArrives
<1>2. /\ DOMAIN edit' = {"open", "of", "copy", "ref", "form", "original"}
      /\ edit'.of = edit.of
      /\ edit'.open => edit.open
  BY DEF ListArrives, EditorIsThere
<1>3. EditorIsThere' /\ (editor # Gone => editor' = editor)
  <2>1. CASE editor = Gone
    <3>1. editor' # Gone /\ DOMAIN editor' = EditorFields
      BY <2>1, MountedIsThere DEF ListArrives
    <3> QED
      BY <1>1, <1>2, <2>1, <3>1 DEF EditorIsThere
  <2>2. CASE editor # Gone
    <3>1. editor' = editor /\ reads' = reads
      BY <2>2 DEF ListArrives
    <3> QED
      BY <1>1, <1>2, <2>2, <3>1 DEF EditorIsThere
  <2> QED
    BY <2>1, <2>2
<1>4. CASE w = "saved"
  <2>1. /\ save.step = "reload" /\ DOMAIN save = SaveFields /\ SaveIsWhole(save)
        /\ save' = [save EXCEPT !.step = "done"]
    BY <1>1, <1>4 DEF ListArrives, SaveShape
  <2>2. /\ DOMAIN save' = SaveFields /\ save'.step = "done" /\ save'.asked = save.asked
        /\ save'.written = save.written
    BY <2>1 DEF SaveFields
  <2>3. save'.alone = save.alone
    BY <2>1 DEF SaveFields
  <2>4. save'.alone => save'.asked \subseteq save'.written
    BY <2>1, <2>2, <2>3 DEF SaveIsWhole
  <2> QED
    BY <1>1, <1>3, <1>4, <2>2, <2>4 DEF SaveShape, SaveSteps, TodoIsAList, SaveIsWhole
<1>5. CASE w = "changed"
  <2>1. save' = save
    BY <1>5 DEF ListArrives
  <2> QED
    BY <1>1, <1>3, <2>1, SaveUntouched
<1> QED
  BY <1>4, <1>5

\* Every step keeps the invariant.
LEMMA StepEditorInv == EditorInv /\ [EditorNext]_editorVars => EditorInv'
<1> SUFFICES ASSUME EditorInv, [EditorNext]_editorVars PROVE EditorInv'
  OBVIOUS
<1>1. CASE UNCHANGED editorVars
  <2>1. UNCHANGED <<listed, edit, editor, reads, save>>
    BY <1>1 DEF editorVars
  <2> QED
    BY <2>1, SaveUntouched DEF EditorInv, EditorIsThere
<1>2. ASSUME EditorIsThere', save' = Meddled,
             listed'.waiting \cap {"saved"} = listed.waiting \cap {"saved"}
      PROVE  EditorInv'
  BY <1>2, MeddledIs DEF EditorInv
<1> QED
  BY <1>1, <1>2, PageKeepsEditor, ReadsKeep, CancelEditKeeps, SaveBegins, DetailsKeep, RequestsKeep,
     SaveEndsKeep, ListKeeps DEF EditorNext

\* A dialog of a coverage closes by itself only once all that was entered is
\* written, in however many requests and tries; it waits for each answer, and a
\* failure leaves it open (handleSave of CoveragePricingEditor.jsx and of
\* ManageProducts.jsx).
THEOREM ClosesOnceSaved == EditorSpec => []ClosedMeansSaved
<1>1. EditorInit => EditorInv
  BY InitEditorInv
<1>2. EditorInv /\ [EditorNext]_editorVars => EditorInv'
  BY StepEditorInv
<1>3. EditorInv => ClosedMeansSaved
  BY DEF EditorInv, SaveIsWhole, ClosedMeansSaved
<1> QED
  BY <1>1, <1>2, <1>3, PTL DEF EditorSpec

-----------------------------------------------------------------------------
(* What a filing is charged: CoveragePricing.  First, rounding.              *)

\* The nearest whole number, halves upward.
LEMMA DivBetween ==
    ASSUME NEW a \in Int, NEW b \in Nat \ {0}
    PROVE  a \div b \in Int /\ b * (a \div b) <= a /\ a < b * (a \div b) + b
OBVIOUS

\* It is within half of it.
LEMMA RoundNear ==
    ASSUME NEW n \in Int, NEW d \in Nat \ {0}
    PROVE  /\ Round(n, d) \in Int
           /\ 2 * (d * Round(n, d)) <= 2 * n + d
           /\ 2 * n + d < 2 * (d * Round(n, d)) + 2 * d
<1> DEFINE a == 2 * n + d
           b == 2 * d
           q == a \div b
<1>1. a \in Int /\ b \in Nat \ {0}
  OBVIOUS
<1>2. q \in Int /\ b * q <= a /\ a < b * q + b
  <2> HIDE DEF a, b
  <2> QED
    BY <1>1, DivBetween
<1>3. q = Round(n, d)
  BY DEF Round
<1>4. b * q = 2 * (d * q)
  <2> HIDE DEF q
  <2> QED
    BY <1>2
<1> HIDE DEF q
<1> QED
  BY <1>2, <1>3, <1>4

\* No other number is as near.
LEMMA AtLeast ==
    ASSUME NEW n \in Int, NEW d \in Nat \ {0}, NEW k \in Int, 2 * (d * k) <= 2 * n + d
    PROVE  k <= Round(n, d)
<1> DEFINE q == Round(n, d)
<1>1. q \in Int /\ 2 * n + d < 2 * (d * q) + 2 * d
  BY RoundNear
<1> HIDE DEF q
<1>2. SUFFICES ASSUME q + 1 <= k PROVE FALSE
  BY <1>1 DEF q
<1>3. d * (q + 1) <= d * k
  BY <1>1, <1>2
<1>4. d * (q + 1) = d * q + d
  BY <1>1
<1>5. d * q \in Int /\ d * k \in Int
  BY <1>1
<1> QED
  BY <1>1, <1>3, <1>4, <1>5

\* More is not rounded to less.
LEMMA RoundMonotone ==
    ASSUME NEW m \in Int, NEW n \in Int, m <= n, NEW d \in Nat \ {0}
    PROVE  Round(m, d) <= Round(n, d)
<1>1. PICK k \in Int : k = Round(m, d)
  BY RoundNear
<1>2. 2 * (d * k) <= 2 * m + d
  BY <1>1, RoundNear
<1>3. 2 * (d * k) <= 2 * n + d
  <2>1. PICK e \in Int : e = d * k
    BY <1>1
  <2> QED
    BY <1>2, <2>1
<1> QED
  BY <1>1, <1>3, AtLeast

\* A whole number of parts comes out.
LEMMA RoundExact ==
    ASSUME NEW n \in Int, NEW d \in Nat \ {0}
    PROVE  Round(n * d, d) = n
<1>1. PICK k \in Int : k = Round(n * d, d)
  BY RoundNear
<1>2. n <= k
  <2>1. 2 * (d * n) <= 2 * (n * d) + d
    OBVIOUS
  <2> QED
    BY <1>1, <2>1, AtLeast
<1>3. 2 * (d * k) <= 2 * (n * d) + d
  BY <1>1, RoundNear
<1>4. ASSUME n + 1 <= k PROVE FALSE
  <2>1. d * (n + 1) <= d * k
    BY <1>4
  <2>2. d * (n + 1) = n * d + d
    OBVIOUS
  <2>3. PICK e \in Int : e = n * d
    OBVIOUS
  <2>4. PICK g \in Int : g = d * k
    OBVIOUS
  <2> QED
    BY <1>3, <2>1, <2>2, <2>3, <2>4
<1> QED
  BY <1>1, <1>2, <1>4

\* What is rounded twice, after something was taken off, is not less than what
\* is rounded once.
LEMMA RoundsTwice ==
    ASSUME NEW a \in Int, NEW b \in Nat \ {0}, NEW o \in Int, NEW n \in Nat \ {0}
    PROVE  Round(a - o * b, b * n) <= Round(Round(a, b) - o, n)
<1>1. PICK q \in Int : q = Round(a, b)
  BY RoundNear
<1>2. 2 * a + b < 2 * (b * q) + 2 * b
  BY <1>1, RoundNear
<1>3. b * n \in Nat \ {0} /\ a - o * b \in Int
  OBVIOUS
<1>4. PICK k \in Int : k = Round(a - o * b, b * n)
  BY <1>3, RoundNear
<1>5. 2 * ((b * n) * k) <= 2 * (a - o * b) + b * n
  BY <1>3, <1>4, RoundNear
<1>6. 2 * (n * k) <= 2 * (q - o) + n
  <2>1. SUFFICES ASSUME 2 * (q - o) + n + 1 <= 2 * (n * k) PROVE FALSE
    <3>1. n * k \in Int
      OBVIOUS
    <3> QED
      BY <3>1
  <2>2. PICK e \in Int : e = n * k
    OBVIOUS
  <2>3. b * (2 * (q - o) + n + 1) <= b * (2 * e)
    BY <2>1, <2>2
  <2>4. b * (2 * (q - o) + n + 1) = 2 * (b * q) - 2 * (o * b) + b * n + b
    OBVIOUS
  <2>5. b * (2 * e) = 2 * ((b * n) * k)
    BY <2>2
  <2>6. b * q \in Int /\ o * b \in Int /\ b * n \in Int /\ (b * n) * k \in Int
    OBVIOUS
  <2> QED
    BY <1>2, <1>5, <2>3, <2>4, <2>5, <2>6
<1> QED
  BY <1>1, <1>4, <1>6, AtLeast

-----------------------------------------------------------------------------
(* What is filed, and on file.                                               *)

Car  == [value : Nat \cup {NoValue}, seats : Nat \ {0}]
Pick == [amount : Nat, premium : Int, cars : SUBSET Nat]

\* Every vehicle a selection names is on the filing.
IsFiling(f) ==
    /\ f \in [fleet : Seq(Car), address : Nat \cup {NoValue},
              picks : UNION {[C -> Pick] : C \in SUBSET Covers}, total : Nat]
    /\ \A c \in Picked(f) : f.picks[c].cars \subseteq DOMAIN f.fleet

PricesOnFile == menu \in Menus /\ employed \in BOOLEAN

\* What is filed is such a filing.
LEMMA FilingsAre == ASSUME NEW f \in Filings PROVE IsFiling(f)
<1>1. PICK fleet \in Fleets :
          f \in [fleet : {fleet}, address : RiskValues,
                 picks : UNION {{p \in [C -> UNION {Selectable[c] : c \in C}] :
                              \A c \in C : p[c] \in Selectable[c] /\ p[c].cars \subseteq DOMAIN fleet} :
                           C \in (SUBSET Covers) \ {{}}},
                 total : Totals \cup {NoTotal}]
  BY DEF Filings
<1>2. f.fleet = fleet /\ fleet \in Seq(Car) /\ f.address \in Nat \cup {NoValue} /\ f.total \in Nat
  <2>1. f.fleet = fleet /\ f.address \in RiskValues /\ f.total \in Totals \cup {NoTotal}
    BY <1>1
  <2>2. fleet \in Seq(Car)
    BY PricingAssumption DEF Car
  <2>3. f.address \in Nat \cup {NoValue}
    BY <2>1, PricingAssumption
  <2>4. f.total \in Nat
    <3>1. Totals \subseteq Nat
      BY PricingAssumption
    <3>2. NoTotal \in Nat
      BY DEF NoTotal
    <3> QED
      BY <2>1, <3>1, <3>2
  <2> QED
    BY <2>1, <2>2, <2>3, <2>4
<1>3. PICK C \in SUBSET Covers :
          /\ f.picks \in [C -> UNION {Selectable[c] : c \in C}]
          /\ \A c \in C : f.picks[c] \in Selectable[c] /\ f.picks[c].cars \subseteq DOMAIN fleet
  BY <1>1
<1>4. \A c \in C : f.picks[c] \in Pick
  BY <1>3, PricingAssumption DEF Pick
<1>5. f.picks \in [C -> Pick] /\ DOMAIN f.picks = C
  BY <1>3, <1>4
<1>6. f = [fleet |-> f.fleet, address |-> f.address, picks |-> f.picks, total |-> f.total]
  BY <1>1
<1>7. f.picks \in UNION {[D -> Pick] : D \in SUBSET Covers}
  BY <1>5
<1>8. f \in [fleet : Seq(Car), address : Nat \cup {NoValue},
             picks : UNION {[D -> Pick] : D \in SUBSET Covers}, total : Nat]
  BY <1>2, <1>6, <1>7
<1> QED
  BY <1>2, <1>3, <1>5, <1>8 DEF IsFiling, Picked

\* The parts of a filing.
LEMMA PicksAre ==
    ASSUME NEW f, IsFiling(f)
    PROVE  /\ Picked(f) \in SUBSET Covers /\ IsFiniteSet(Picked(f))
           /\ \A c \in Picked(f) : f.picks[c] \in Pick
           /\ f.fleet \in Seq(Car) /\ f.address \in Nat \cup {NoValue} /\ f.total \in Nat
<1>1. PICK C \in SUBSET Covers : f.picks \in [C -> Pick]
  BY DEF IsFiling
<1> QED
  BY <1>1, PricingAssumption, FS_Subset DEF IsFiling, Picked

\* A selection is for some vehicles of the fleet, or for the one risk.
LEMMA TargetsAre ==
    ASSUME NEW f, IsFiling(f), NEW c \in Picked(f)
    PROVE  /\ TargetsOf(f, c) # {} /\ IsFiniteSet(TargetsOf(f, c)) /\ TargetsOf(f, c) \subseteq Nat
           /\ f.fleet = << >> => TargetsOf(f, c) = {0}
           /\ f.fleet # << >> => TargetsOf(f, c) \subseteq DOMAIN f.fleet /\ 0 \notin TargetsOf(f, c)
<1>1. f.fleet \in Seq(Car) /\ f.picks[c].cars \subseteq DOMAIN f.fleet
  BY DEF IsFiling
<1>2. PICK n \in Nat : DOMAIN f.fleet = 1..n /\ (f.fleet # << >> => n # 0)
  BY <1>1
<1>3. IsFiniteSet(1..n) /\ IsFiniteSet({0})
  <2>1. 1 \in Int /\ n \in Int
    OBVIOUS
  <2> QED
    BY <2>1, FS_Interval, FS_Singleton
<1>4. f.fleet # << >> => TargetsOf(f, c) \in SUBSET (1..n) /\ TargetsOf(f, c) # {}
  <2>1. CASE f.picks[c].cars = {}
    <3>1. f.fleet # << >> => TargetsOf(f, c) = 1..n
      BY <1>2, <2>1 DEF TargetsOf
    <3>2. n # 0 => 1 \in 1..n
      OBVIOUS
    <3> QED
      BY <1>2, <3>1, <3>2
  <2>2. CASE f.picks[c].cars # {}
    BY <1>1, <1>2, <2>2 DEF TargetsOf
  <2> QED
    BY <2>1, <2>2
<1>5. f.fleet = << >> => TargetsOf(f, c) = {0}
  BY DEF TargetsOf
<1>6. IsFiniteSet(TargetsOf(f, c))
  BY <1>3, <1>4, <1>5, FS_Subset
<1> QED
  BY <1>2, <1>4, <1>5, <1>6

\* The tables that apply to a coverage.
LEMMA TablesAre ==
    ASSUME PricesOnFile, NEW c \in Covers
    PROVE  /\ menu[c] \in CoverOnMenu
           /\ Applied(c, "rate") \in SUBSET [rate : Nat, max : Nat]
           /\ Applied(c, "value") \in SUBSET [from : Nat, rate : Nat]
           /\ Applied(c, "flat") \in SUBSET [amount : Nat, price : Nat]
           /\ Applied(c, "seats") \in SUBSET [threshold : Nat, bracket : Nat \ {0}, price : Nat]
           /\ Applied(c, "tiers") \in SUBSET Nat
<1>1. menu \in [Covers -> CoverOnMenu]
  BY PricingAssumption DEF PricesOnFile
<1>2. menu[c] \in CoverOnMenu
  BY <1>1
<1>3. menu[c].table["product"] \in TablesOf /\ menu[c].table[RateOwner(employed)] \in TablesOf
  BY <1>2 DEF CoverOnMenu, RateOwner
<1> QED
  BY <1>2, <1>3 DEF Applied, TablesOf

\* The tier of a value is one that it reaches.
LEMMA TierIsEligible ==
    ASSUME NEW tiers \in SUBSET [from : Nat, rate : Nat], NEW value \in Nat, Eligible(tiers, value) # {}
    PROVE  TierAt(tiers, value) \in Eligible(tiers, value)
<1> DEFINE froms == {t.from : t \in Eligible(tiers, value)}
<1>1. froms \in SUBSET Nat /\ froms # {} /\ \A n \in froms : n <= value
  BY DEF Eligible
<1>2. IsFiniteSet(froms)
  <2> HIDE DEF froms
  <2> QED
    BY <1>1, FS_BoundedSetOfNaturals
<1>3. froms \in SUBSET Int
  <2> HIDE DEF froms
  <2> QED
    BY <1>1
<1>4. Max(froms) \in froms /\ \A n \in froms : n <= Max(froms)
  <2> HIDE DEF froms
  <2> QED
    BY <1>1, <1>2, <1>3, MaxOfFinite
<1>5. \E t \in Eligible(tiers, value) : \A u \in Eligible(tiers, value) : u.from <= t.from
  BY <1>4
<1> QED
  BY <1>5 DEF TierAt

-----------------------------------------------------------------------------
(* The rows of a filing.                                                     *)

\* There is a price for all that is selected.
AllPriced(f) == \A c \in Picked(f) : \A i \in TargetsOf(f, c) : Priceable(f, c, i)

\* A charge by brackets is a number.
LEMMA BracketsAreCharged ==
    ASSUME NEW s \in [threshold : Nat, bracket : Nat \ {0}, price : Nat], NEW amount \in Nat
    PROVE  BracketCharge(s, amount) \in Int
<1>1. PICK t \in Nat, b \in Nat \ {0}, price \in Nat : t = s.threshold /\ b = s.bracket /\ price = s.price
  OBVIOUS
<1>2. (amount - t + b - 1) \div b \in Int
  BY DivBetween
<1>3. ((amount - t + b - 1) \div b) * price \in Int
  BY <1>2
<1> QED
  BY <1>1, <1>3 DEF BracketCharge

\* What a row is insured for and owes are numbers.
LEMMA OwedIs ==
    ASSUME PricesOnFile, NEW f, IsFiling(f), NEW c \in Picked(f), NEW i \in TargetsOf(f, c), Priceable(f, c, i)
    PROVE  InsuredFor(f, c, i) \in Nat /\ OwedFor(f, c, i) \in Int
<1>1. c \in Covers /\ f.picks[c] \in Pick /\ f.address \in Nat \cup {NoValue} /\ f.fleet \in Seq(Car)
  BY PicksAre
<1>2. menu[c] \in CoverOnMenu
  BY <1>1, TablesAre
<1>3. f.picks[c].amount \in Nat
  BY <1>1 DEF Pick
<1>4. i # 0 => i \in DOMAIN f.fleet
  BY TargetsAre
<1>5. i # 0 => f.fleet[i] \in Car
  BY <1>1, <1>4
<1>6. CASE menu[c].mode = "VALUE_PERCENTAGE"
  <2>1. ValueOf(f, i) \in Nat \cup {NoValue}
    BY <1>1, <1>5 DEF ValueOf, Car
  <2>2. ValueOf(f, i) # NoValue /\ Eligible(Applied(c, "value"), ValueOf(f, i)) # {}
    BY <1>6 DEF Priceable
  <2>3. PICK v \in Nat : v = ValueOf(f, i)
    BY <2>1, <2>2
  <2>4. Applied(c, "value") \in SUBSET [from : Nat, rate : Nat]
    BY <1>1, TablesAre
  <2>5. TierAt(Applied(c, "value"), v) \in Applied(c, "value")
    BY <2>2, <2>3, <2>4, TierIsEligible DEF Eligible
  <2>6. PICK rate \in Nat : rate = TierAt(Applied(c, "value"), v).rate
    BY <2>4, <2>5
  <2>7. v * rate \in Int /\ 1000 \in Nat \ {0}
    OBVIOUS
  <2>8. Round(v * rate, 1000) \in Int
    BY <2>7, RoundNear
  <2>9. InsuredFor(f, c, i) = v
    BY <1>6, <2>3 DEF InsuredFor
  <2> QED
    BY <1>6, <2>6, <2>8, <2>9 DEF OwedFor
<1>7. CASE menu[c].mode = "FLAT_TIER"
  <2>1. \E t \in Applied(c, "flat") : t.amount = f.picks[c].amount
    BY <1>7 DEF Priceable
  <2>2. Applied(c, "flat") \in SUBSET [amount : Nat, price : Nat]
    BY <1>1, TablesAre
  <2>3. InsuredFor(f, c, i) = f.picks[c].amount
    BY <1>7 DEF InsuredFor
  <2>4. OwedFor(f, c, i) = (CHOOSE t \in Applied(c, "flat") : t.amount = f.picks[c].amount).price
    BY <1>7, <2>3 DEF OwedFor
  <2> QED
    BY <1>3, <2>1, <2>2, <2>3, <2>4
<1>8. CASE menu[c].mode = "VEHICLE_SEATS_BASED"
  <2>1. i # 0 /\ Applied(c, "seats") # {}
    BY <1>8 DEF Priceable
  <2>2. Applied(c, "seats") \in SUBSET [threshold : Nat, bracket : Nat \ {0}, price : Nat]
    BY <1>1, TablesAre
  <2>3. The(Applied(c, "seats")) \in [threshold : Nat, bracket : Nat \ {0}, price : Nat]
    BY <2>1, <2>2 DEF The
  <2>4. f.fleet[i].seats \in Nat
    BY <1>5, <2>1 DEF Car
  <2>5. InsuredFor(f, c, i) = f.fleet[i].seats * f.picks[c].amount
    BY <1>8 DEF InsuredFor
  <2>6. InsuredFor(f, c, i) \in Nat
    BY <1>3, <2>4, <2>5
  <2>7. OwedFor(f, c, i) = BracketCharge(The(Applied(c, "seats")), InsuredFor(f, c, i))
    BY <1>8 DEF OwedFor
  <2> QED
    BY <2>3, <2>6, <2>7, BracketsAreCharged
<1>9. CASE menu[c].mode = "PERCENTAGE"
  <2>1. Applied(c, "rate") # {}
    BY <1>9 DEF Priceable
  <2>2. Applied(c, "rate") \in SUBSET [rate : Nat, max : Nat]
    BY <1>1, TablesAre
  <2>3. The(Applied(c, "rate")) \in Applied(c, "rate")
    BY <2>1 DEF The
  <2>4. PICK rate \in Nat : rate = The(Applied(c, "rate")).rate
    BY <2>2, <2>3
  <2>5. InsuredFor(f, c, i) = f.picks[c].amount
    BY <1>9 DEF InsuredFor
  <2>6. PICK a \in Nat : a = f.picks[c].amount
    BY <1>3
  <2>7. Round(a * rate, 1000) \in Int
    <3>1. a * rate \in Int /\ 1000 \in Nat \ {0}
      OBVIOUS
    <3> QED
      BY <3>1, RoundNear
  <2>8. OwedFor(f, c, i) = Round(a * rate, 1000)
    BY <1>9, <2>4, <2>5, <2>6 DEF OwedFor
  <2> QED
    BY <2>5, <2>6, <2>7, <2>8
<1> QED
  BY <1>2, <1>6, <1>7, <1>8, <1>9 DEF CoverOnMenu, PricingModes

ResolvedRow == [cover : Covers, car : Nat, insured : Nat, owed : Int, premium : Int]

\* What a row holds.
LEMMA RowIs ==
    ASSUME PricesOnFile, NEW f, IsFiling(f), NEW c \in Picked(f), NEW i \in TargetsOf(f, c), Priceable(f, c, i)
    PROVE  /\ RowFor(f, c, i) \in ResolvedRow
           /\ RowFor(f, c, i).cover = c /\ RowFor(f, c, i).car = i
           /\ RowFor(f, c, i).insured = InsuredFor(f, c, i) /\ RowFor(f, c, i).owed = OwedFor(f, c, i)
           /\ RowFor(f, c, i).premium =
                 IF menu[c].mode = "FLAT_TIER" THEN OwedFor(f, c, i) ELSE f.picks[c].premium
<1>1. InsuredFor(f, c, i) \in Nat /\ OwedFor(f, c, i) \in Int
  BY OwedIs
<1>2. c \in Covers /\ f.picks[c].premium \in Int
  BY PicksAre DEF Pick
<1>3. i \in Nat
  BY TargetsAre
<1> QED
  BY <1>1, <1>2, <1>3 DEF RowFor, ResolvedRow

\* The rows of a coverage, one for each of its vehicles.
CoverRows(f, c) == {RowFor(f, c, i) : i \in TargetsOf(f, c)}

\* The rows of some of the coverages, and what these contribute in the form.
RowsForAll(f, C)  == UNION {CoverRows(f, c) : c \in C}
Contributed(f, C) == SumFunctionOnSet([c \in Picked(f) |-> Contribution(f, c, f.picks[c].premium)], C)

\* The premiums of the rows add up to what the coverages contribute in the form.
LEMMA PremiumsAdd ==
    ASSUME PricesOnFile, NEW f, IsFiling(f), AllPriced(f), NEW C \in SUBSET Picked(f)
    PROVE  /\ IsFiniteSet(RowsForAll(f, C)) /\ RowsForAll(f, C) \in SUBSET ResolvedRow
           /\ SumOf(RowsForAll(f, C)) = Contributed(f, C)
           /\ SumOf(RowsForAll(f, C)) \in Int
<1> DEFINE rows == RowsForAll(f, C)
           part == [c \in C |-> CoverRows(f, c)]
           pay  == [row \in ResolvedRow |-> row.premium]
           add  == [c \in Picked(f) |-> Contribution(f, c, f.picks[c].premium)]
<1>1. ASSUME NEW c \in C
      PROVE  /\ IsFiniteSet(part[c]) /\ part[c] \in SUBSET ResolvedRow
             /\ \A row \in part[c] : row.cover = c
             /\ add[c] = SumFunctionOnSet(pay, part[c])
  <2> DEFINE T == TargetsOf(f, c)
             r == [i \in T |-> RowFor(f, c, i)]
             g == [i \in T |-> pay[r[i]]]
  <2>1. IsFiniteSet(T)
    BY TargetsAre
  <2>2. \A i \in T : Priceable(f, c, i)
    BY DEF AllPriced
  <2>3. \A i \in T : /\ r[i] \in ResolvedRow /\ r[i].cover = c /\ r[i].car = i
                     /\ r[i].premium = IF menu[c].mode = "FLAT_TIER" THEN OwedFor(f, c, i)
                                       ELSE f.picks[c].premium
    BY <2>2, RowIs
  <2>4. part[c] = {r[i] : i \in T}
    BY DEF CoverRows
  <2>5. \A i, j \in T : r[i] = r[j] => i = j
    BY <2>3
  <2>6. \A i \in T : pay[r[i]] \in Int /\ g[i] = pay[r[i]]
    BY <2>3 DEF ResolvedRow
  <2>7. IsFiniteSet(part[c]) /\ SumFunctionOnSet(pay, part[c]) = SumFunctionOnSet(g, T)
    <3>1. \A i \in T : pay[r[i]] \in Int
      BY <2>6
    <3>2. \A i \in T : g[i] = pay[r[i]]
      BY <2>6
    <3> HIDE DEF r, g, pay, T, part
    <3> QED
      BY <2>1, <2>4, <2>5, <3>1, <3>2, SumOfImages
  <2>8. add[c] = SumFunctionOnSet(g, T)
    <3>1. CASE menu[c].mode = "FLAT_TIER"
      <4> DEFINE h == [i \in T |-> OwedFor(f, c, i)]
      <4>1. \A i \in T : h[i] = g[i]
        BY <2>3, <3>1
      <4>2. SumFunctionOnSet(h, T) = SumFunctionOnSet(g, T)
        <5> HIDE DEF h, g, T
        <5> QED
          BY <2>1, <4>1, SumSame
      <4>3. add[c] = SumFunctionOnSet(h, T)
        BY <3>1 DEF Contribution
      <4> QED
        BY <4>2, <4>3
    <3>2. CASE menu[c].mode # "FLAT_TIER"
      <4>1. PICK p \in Int : p = f.picks[c].premium
        BY PicksAre DEF Pick
      <4>2. \A i \in T : g[i] = p
        BY <2>3, <3>2, <4>1
      <4>3. SumFunctionOnSet(g, T) = p * Cardinality(T)
        <5> HIDE DEF g, T
        <5> QED
          BY <2>1, <4>2, SumConstant
      <4>4. add[c] = p * Cardinality(T)
        BY <3>2, <4>1 DEF Contribution
      <4> QED
        BY <4>3, <4>4
    <3> QED
      BY <3>1, <3>2
  <2>9. part[c] \in SUBSET ResolvedRow /\ \A row \in part[c] : row.cover = c
    BY <2>3, <2>4
  <2> QED
    BY <2>4, <2>7, <2>8, <2>9
<1>2. IsFiniteSet(C)
  BY PicksAre, FS_Subset
<1>3. \A c, d \in C : c # d => part[c] \cap part[d] = {}
  BY <1>1
<1>4. \A c \in C : \A row \in part[c] : pay[row] \in Int
  BY <1>1 DEF ResolvedRow
<1>5. rows = UNION {part[c] : c \in C}
  BY DEF RowsForAll
<1>6. IsFiniteSet(rows) /\ SumFunctionOnSet(pay, rows) = SumFunctionOnSet(add, C)
  <2> HIDE DEF part, pay, add, rows
  <2> QED
    <3>1. \A c \in C : IsFiniteSet(part[c])
      BY <1>1
    <3>2. \A c \in C : add[c] = SumFunctionOnSet(pay, part[c])
      BY <1>1
    <3>3. InParts(rows, part, C)
      BY <1>3, <1>5, <3>1 DEF InParts
    <3>4. \A row \in rows : pay[row] \in Int
      BY <1>4, <1>5
    <3> QED
      BY <1>2, <3>2, <3>3, <3>4, SumOfParts
<1>7. rows \in SUBSET ResolvedRow
  BY <1>1, <1>5
<1>8. \A row \in rows : [x \in rows |-> x.premium][row] = pay[row]
  BY <1>7
<1>9. SumOf(rows) = SumFunctionOnSet(pay, rows)
  <2> DEFINE own == [x \in rows |-> x.premium]
  <2>1. \A row \in rows : own[row] = pay[row]
    BY <1>8
  <2>2. SumFunctionOnSet(own, rows) = SumFunctionOnSet(pay, rows)
    <3> HIDE DEF own, pay, rows
    <3> QED
      BY <1>6, <2>1, SumSame
  <2> QED
    BY <2>2 DEF SumOf
<1>10. SumFunctionOnSet(pay, rows) \in Int
  <2>1. \A row \in rows : pay[row] \in Int
    BY <1>7 DEF ResolvedRow
  <2> HIDE DEF pay, rows
  <2> QED
    BY <1>6, <2>1, SumType
<1> QED
  BY <1>6, <1>7, <1>9, <1>10 DEF Contributed

\* The rows that are entered are those of all that is selected.
LEMMA EnteredAre ==
    ASSUME PricesOnFile, NEW f, IsFiling(f), AllPriced(f)
    PROVE  /\ EnteredRows(f) = RowsForAll(f, Picked(f))
           /\ EnteredRows(f) \in SUBSET ResolvedRow
           /\ \A c \in Picked(f) : \A row \in CoverRows(f, c) : row.cover = c
<1>1. EnteredRows(f) = RowsForAll(f, Picked(f))
  BY DEF EnteredRows, CoverRows, RowsForAll
<1>2. ASSUME NEW c \in Picked(f), NEW row \in CoverRows(f, c)
      PROVE  row \in ResolvedRow /\ row.cover = c
  <2>1. PICK i \in TargetsOf(f, c) : row = RowFor(f, c, i)
    BY DEF CoverRows
  <2>2. Priceable(f, c, i)
    BY DEF AllPriced
  <2> QED
    BY <2>1, <2>2, RowIs
<1> QED
  BY <1>1, <1>2 DEF RowsForAll

\* The rows that are not of the gross target coverage.
OtherRows(f) == RowsForAll(f, Picked(f) \ {SolvedCover})

\* What a filing solved from a total is charged: n rows of the gross target
\* coverage at p, and the others.
SolvedInto(f, n, p) ==
    /\ n \in Nat \ {0} /\ p \in Int
    /\ SumOf(OtherRows(f)) \in Int /\ SumOf(OtherRows(f)) = FixedSum(f)
    /\ p = Round(Round((f.total - MiscFee) * 1000, Combined) - SumOf(OtherRows(f)), n)
    /\ Cardinality({row \in Resolved(f) : row.cover = SolvedCover}) = n
    /\ SumOf(Resolved(f)) = SumOf(OtherRows(f)) + p * n
    /\ \A row \in Resolved(f) :
          \/ row \in OtherRows(f)
          \/ /\ row.premium = p
             /\ \E i \in TargetsOf(f, SolvedCover) : row.owed = OwedFor(f, SolvedCover, i)

\* Solved from a total, the gross target coverage has a row for each of its
\* vehicles, all at one premium; the others stay at theirs.
LEMMA SolvedRowsAre ==
    ASSUME PricesOnFile, NEW f, IsFiling(f), AllPriced(f), f.total # NoTotal, SolvedCover \in Picked(f),
           NEW n, n = Cardinality(TargetsOf(f, SolvedCover)),
           NEW p, p = SolvedPremium(f, EnteredRows(f))
    PROVE  SolvedInto(f, n, p)
<1> DEFINE T == TargetsOf(f, SolvedCover)
           mine == CoverRows(f, SolvedCover)
           others == OtherRows(f)
           r == [i \in T |-> RowFor(f, SolvedCover, i)]
           q == [i \in T |-> [r[i] EXCEPT !.premium = p]]
           solved == {q[i] : i \in T}
           pay == [row \in ResolvedRow |-> row.premium]
<1>1. IsFiniteSet(T) /\ T # {} /\ n \in Nat /\ n # 0
  <2>1. IsFiniteSet(T) /\ T # {}
    BY TargetsAre
  <2> QED
    BY <2>1, FS_CardinalityType, FS_EmptySet
<1>2. \A i \in T : r[i] \in ResolvedRow /\ r[i].cover = SolvedCover /\ r[i].car = i
                   /\ r[i].owed = OwedFor(f, SolvedCover, i)
  <2>1. \A i \in T : Priceable(f, SolvedCover, i)
    BY DEF AllPriced
  <2> QED
    BY <2>1, RowIs
<1>3. mine = {r[i] : i \in T}
  BY DEF CoverRows
<1>4. IsFiniteSet(mine) /\ Cardinality(mine) = n
  <2> DEFINE z == [x \in mine |-> 0]
             zero == [i \in T |-> 0]
  <2>1. \A i, j \in T : r[i] = r[j] => i = j
    BY <1>2
  <2>2. \A i \in T : z[r[i]] \in Int
    BY <1>3
  <2>3. \A i \in T : zero[i] = z[r[i]]
    BY <1>3
  <2> HIDE DEF r, mine, T, z, zero
  <2>4. IsFiniteSet(mine) /\ Cardinality(mine) = Cardinality(T)
    BY <1>1, <1>3, <2>1, <2>2, <2>3, SumOfImages
  <2> QED
    BY <2>4 DEF T
<1>5. /\ IsFiniteSet(others) /\ others \in SUBSET ResolvedRow /\ SumOf(others) \in Int
      /\ SumOf(others) = FixedSum(f)
  <2>1. PICK C \in SUBSET Picked(f) : C = Picked(f) \ {SolvedCover}
    OBVIOUS
  <2>2. others = RowsForAll(f, C) /\ FixedSum(f) = Contributed(f, C)
    BY <2>1 DEF OtherRows, FixedSum, Contributed
  <2> HIDE DEF others
  <2> QED
    BY <2>2, PremiumsAdd
<1>6. \A row \in others : row.cover # SolvedCover
  BY EnteredAre DEF OtherRows, RowsForAll
<1>7. EnteredRows(f) = others \cup mine
  BY EnteredAre DEF OtherRows, RowsForAll
<1>8. \A row \in mine : row.cover = SolvedCover
  BY <1>2, <1>3
<1>9. /\ {row \in EnteredRows(f) : row.cover = SolvedCover} = mine
      /\ EnteredRows(f) \ mine = others
  BY <1>6, <1>7, <1>8
<1>10. p = Round(Round((f.total - MiscFee) * 1000, Combined) - SumOf(others), n)
  <2> DEFINE rows == EnteredRows(f)
             own == {row \in rows : row.cover = SolvedCover}
  <2>1. SolvedPremium(f, rows) =
            Round(Round((f.total - MiscFee) * 1000, Combined) - SumOf(rows \ own), Cardinality(own))
    BY DEF SolvedPremium
  <2>2. p = SolvedPremium(f, rows) /\ own = mine
    BY <1>9
  <2>3. rows \ own = others /\ Cardinality(own) = n
    BY <1>4, <1>9, <2>2
  <2> HIDE DEF rows, own, mine, others
  <2> QED
    BY <2>1, <2>2, <2>3
<1>11. p \in Int
  <2>1. f.total \in Nat /\ MiscFee \in Nat
    BY PicksAre, PricingAssumption
  <2>2. (f.total - MiscFee) * 1000 \in Int /\ Combined \in Nat \ {0}
    BY <2>1 DEF Combined, DocStamps, Vat, Lgt
  <2>3. Round((f.total - MiscFee) * 1000, Combined) \in Int
    <3>1. PICK a \in Int, b \in Nat \ {0} : a = (f.total - MiscFee) * 1000 /\ b = Combined
      BY <2>2
    <3>2. Round(a, b) \in Int
      BY RoundNear
    <3> QED
      BY <3>1, <3>2
  <2>4. Round((f.total - MiscFee) * 1000, Combined) - SumOf(others) \in Int /\ n \in Nat \ {0}
    BY <1>1, <1>5, <2>3
  <2> QED
    BY <1>10, <2>4, RoundNear
<1>12. \A i \in T : q[i] \in ResolvedRow /\ q[i].cover = SolvedCover /\ q[i].car = i /\ q[i].premium = p
                    /\ q[i].owed = OwedFor(f, SolvedCover, i)
  BY <1>2, <1>11 DEF ResolvedRow
<1>13. Resolved(f) = others \cup solved
  <2> DEFINE out == [row \in EnteredRows(f) |->
                        IF Solved(f, row.cover) THEN [row EXCEPT !.premium = p] ELSE row]
  <2>1. \A i \in T : r[i] \in mine /\ out[r[i]] = q[i]
    BY <1>3, <1>7, <1>8 DEF Solved
  <2>2. \A row \in others : out[row] = row
    BY <1>6, <1>7 DEF Solved
  <2>3. Resolved(f) = {out[row] : row \in EnteredRows(f)}
    BY DEF Resolved
  <2>4. solved = {out[row] : row \in mine}
    <3> HIDE DEF out, q, r, mine, T
    <3> QED
      BY <1>3, <2>1
  <2> HIDE DEF mine, others, solved, out
  <2> QED
    BY <1>7, <2>2, <2>3, <2>4
<1>14. \A row \in solved : row.cover = SolvedCover /\ row \in ResolvedRow /\ row.premium = p
                           /\ \E i \in T : row.owed = OwedFor(f, SolvedCover, i)
  BY <1>12
<1>15. /\ IsFiniteSet(solved) /\ Cardinality(solved) = n
       /\ SumFunctionOnSet(pay, solved) = p * n
  <2> DEFINE each == [i \in T |-> p]
  <2>1. \A i, j \in T : q[i] = q[j] => i = j
    BY <1>12
  <2>2. \A i \in T : pay[q[i]] \in Int
    BY <1>11, <1>12
  <2>3. \A i \in T : each[i] = pay[q[i]]
    BY <1>12
  <2>4. \A i \in T : each[i] = p
    OBVIOUS
  <2>5. solved = {q[i] : i \in T}
    OBVIOUS
  <2> HIDE DEF q, solved, T, each, pay
  <2>6. /\ IsFiniteSet(solved) /\ Cardinality(solved) = Cardinality(T)
        /\ SumFunctionOnSet(pay, solved) = SumFunctionOnSet(each, T)
    BY <1>1, <2>1, <2>2, <2>3, <2>5, SumOfImages
  <2>7. SumFunctionOnSet(each, T) = p * Cardinality(T)
    BY <1>1, <1>11, <2>4, SumConstant
  <2> QED
    BY <2>6, <2>7 DEF T
<1>16. {row \in Resolved(f) : row.cover = SolvedCover} = solved
  BY <1>6, <1>13, <1>14
<1>17. SumOf(Resolved(f)) = SumOf(others) + p * n
  <2>1. others \cap solved = {}
    BY <1>6, <1>14
  <2>2. \A row \in others \cup solved : pay[row] \in Int
    BY <1>5, <1>14 DEF ResolvedRow
  <2>3. SumFunctionOnSet(pay, others \cup solved)
            = SumFunctionOnSet(pay, others) + SumFunctionOnSet(pay, solved)
    <3> HIDE DEF others, solved, pay
    <3> QED
      BY <1>5, <1>15, <2>1, <2>2, SumApart
  <2>4. ASSUME NEW rows, IsFiniteSet(rows), rows \in SUBSET ResolvedRow
        PROVE  SumOf(rows) = SumFunctionOnSet(pay, rows)
    <3> DEFINE own == [x \in rows |-> x.premium]
    <3>1. \A row \in rows : own[row] = pay[row]
      BY <2>4
    <3>2. SumFunctionOnSet(own, rows) = SumFunctionOnSet(pay, rows)
      <4> HIDE DEF own, pay
      <4> QED
        BY <2>4, <3>1, SumSame
    <3> QED
      BY <3>2 DEF SumOf
  <2>5. SumOf(others) = SumFunctionOnSet(pay, others)
    <3> HIDE DEF others, pay
    <3> QED
      BY <1>5, <2>4
  <2>6. SumOf(Resolved(f)) = SumFunctionOnSet(pay, others \cup solved)
    <3>1. others \cup solved \in SUBSET ResolvedRow /\ IsFiniteSet(others \cup solved)
      <4> HIDE DEF others, solved
      <4> QED
        BY <1>5, <1>14, <1>15, FS_Union
    <3> HIDE DEF others, solved, pay
    <3> QED
      BY <1>13, <2>4, <3>1
  <2> HIDE DEF others, solved, pay
  <2> QED
    BY <1>15, <2>3, <2>5, <2>6
<1>18. \A row \in Resolved(f) :
          \/ row \in others
          \/ row.premium = p /\ \E i \in T : row.owed = OwedFor(f, SolvedCover, i)
  BY <1>13, <1>14
<1>19. n \in Nat \ {0}
  BY <1>1
<1> QED
  BY <1>5, <1>10, <1>11, <1>15, <1>16, <1>17, <1>18, <1>19 DEF SolvedInto

\* The same, of the premium itself.
LEMMA SolvedPremiumIs ==
    ASSUME PricesOnFile, NEW f, IsFiling(f), AllPriced(f), f.total # NoTotal, SolvedCover \in Picked(f)
    PROVE  /\ Cardinality(TargetsOf(f, SolvedCover)) \in Nat \ {0}
           /\ SolvedPremium(f, EnteredRows(f)) \in Int
           /\ SumOf(OtherRows(f)) \in Int /\ SumOf(OtherRows(f)) = FixedSum(f)
           /\ SolvedPremium(f, EnteredRows(f)) =
                 Round(Round((f.total - MiscFee) * 1000, Combined) - SumOf(OtherRows(f)),
                       Cardinality(TargetsOf(f, SolvedCover)))
<1>1. PICK n : n = Cardinality(TargetsOf(f, SolvedCover))
  OBVIOUS
<1>2. PICK p : p = SolvedPremium(f, EnteredRows(f))
  OBVIOUS
<1>3. /\ n \in Nat \ {0} /\ p \in Int
      /\ SumOf(OtherRows(f)) \in Int /\ SumOf(OtherRows(f)) = FixedSum(f)
      /\ p = Round(Round((f.total - MiscFee) * 1000, Combined) - SumOf(OtherRows(f)), n)
  <2>1. SolvedInto(f, n, p)
    BY <1>1, <1>2, SolvedRowsAre
  <2> QED
    BY <2>1 DEF SolvedInto
<1> QED
  BY <1>1, <1>2, <1>3

\* Each row is as entered, or its premium is that one.
LEMMA ResolvedRowIs ==
    ASSUME PricesOnFile, NEW f, IsFiling(f), AllPriced(f), f.total # NoTotal, SolvedCover \in Picked(f),
           NEW row \in Resolved(f)
    PROVE  \/ row \in OtherRows(f)
           \/ /\ row.premium = SolvedPremium(f, EnteredRows(f))
              /\ \E i \in TargetsOf(f, SolvedCover) : row.owed = OwedFor(f, SolvedCover, i)
<1>1. PICK n : n = Cardinality(TargetsOf(f, SolvedCover))
  OBVIOUS
<1>2. PICK p : p = SolvedPremium(f, EnteredRows(f))
  OBVIOUS
<1>3. \A r \in Resolved(f) :
         \/ r \in OtherRows(f)
         \/ r.premium = p /\ \E i \in TargetsOf(f, SolvedCover) : r.owed = OwedFor(f, SolvedCover, i)
  <2>1. SolvedInto(f, n, p)
    BY <1>1, <1>2, SolvedRowsAre
  <2> QED
    BY <2>1 DEF SolvedInto
<1> QED
  BY <1>2, <1>3

-----------------------------------------------------------------------------
(* The inductive invariant: what is on file, and what a filing was charged.  *)

PricingInv ==
    /\ PricesOnFile
    /\ \/ filing = NoFiling /\ bill = Refused
       \/ filing \in Filings /\ bill = BillOf(filing)

\* What is on file stays, and so does what is read from it.
LEMMA SameTables ==
    ASSUME UNCHANGED <<menu, employed>>
    PROVE  /\ \A c, field : Applied(c, field)' = Applied(c, field) /\ RowsOf(c, field)' = RowsOf(c, field)
           /\ \A c : MaxOf(c)' = MaxOf(c)
           /\ Required' = Required
<1>1. \A c, field : Applied(c, field)' = Applied(c, field) /\ RowsOf(c, field)' = RowsOf(c, field)
  BY DEF Applied, RowsOf
<1>2. \A c : MaxOf(c)' = MaxOf(c)
  BY DEF MaxOf
<1>3. Required' = Required
  BY DEF Required, RowsOf
<1> QED
  BY <1>1, <1>2, <1>3

\* A filing is charged from what is on file only.
LEMMA SameBill ==
    ASSUME UNCHANGED <<menu, employed>>, NEW f
    PROVE  (BillOf(f))' = BillOf(f)
<1>1. (EnteredRows(f))' = EnteredRows(f)
  BY DEF EnteredRows, RowFor, OwedFor, InsuredFor, Applied, Picked, TargetsOf, ValueOf
<1>2. (Resolved(f))' = Resolved(f)
  BY <1>1 DEF Resolved, SolvedPremium, Solved, SumOf
<1>3. (Required)' = Required
  BY SameTables
<1>4. (Accepts(f))' = Accepts(f)
  <2>1. \A c, i : (Priceable(f, c, i))' = Priceable(f, c, i)
    BY DEF Priceable, ValueOf, Applied, RowsOf, MaxOf
  <2> QED
    BY <1>1, <1>2, <1>3, <2>1 DEF Accepts, Offered, Complete, EveryRowClears, EnteredClears, Solved, TargetsOf, Picked
<1> QED
  BY <1>2, <1>4 DEF BillOf, GrandTotal, SumOf, Refused

\* It holds throughout: menu and employment stay.
LEMMA PricingInvHolds == PricingSpec => []PricingInv
<1>1. PricingInit => PricingInv
  BY DEF PricingInit, PricingInv, PricesOnFile
<1>2. ASSUME PricingInv, [PricingNext]_pricingVars PROVE PricingInv'
  <2>1. UNCHANGED <<menu, employed>>
    BY <1>2 DEF PricingNext, FileAndPrice, NextFiling, pricingVars
  <2>2. PricesOnFile'
    BY <1>2, <2>1 DEF PricingInv, PricesOnFile
  <2>3. CASE FileAndPrice
    <3>1. PICK f \in Filings : filing' = f /\ bill' = BillOf(f)
      BY <2>3 DEF FileAndPrice
    <3>2. (BillOf(f))' = BillOf(f)
      BY <2>1, SameBill
    <3>3. (BillOf(filing))' = (BillOf(f))'
      BY <3>1
    <3> QED
      BY <2>2, <3>1, <3>2, <3>3 DEF PricingInv
  <2>4. CASE NextFiling
    BY <2>2, <2>4 DEF NextFiling, PricingInv
  <2>5. CASE UNCHANGED pricingVars
    <3>1. filing' = filing /\ bill' = bill
      BY <2>5 DEF pricingVars
    <3>2. CASE filing = NoFiling /\ bill = Refused
      BY <2>2, <3>1, <3>2 DEF PricingInv
    <3>3. CASE filing \in Filings /\ bill = BillOf(filing)
      <4>1. PICK f \in Filings : f = filing
        BY <3>3
      <4>2. (BillOf(f))' = BillOf(f)
        BY <2>1, SameBill
      <4>3. (BillOf(filing))' = (BillOf(f))'
        BY <3>1, <4>1
      <4> QED
        BY <2>2, <3>1, <3>3, <4>1, <4>2, <4>3 DEF PricingInv
    <3> QED
      BY <1>2, <3>2, <3>3 DEF PricingInv
  <2> QED
    BY <1>2, <2>3, <2>4, <2>5 DEF PricingNext
<1> QED
  BY <1>1, <1>2, PTL DEF PricingSpec

-----------------------------------------------------------------------------
(* The total a filing is solved from.                                        *)

\* An accepted bill is of rows that there is a price for.
LEMMA AcceptedIs ==
    ASSUME PricingInv, Accepted
    PROVE  /\ filing \in Filings /\ IsFiling(filing) /\ Accepts(filing) /\ AllPriced(filing) /\ PricesOnFile
           /\ bill = [rows |-> Resolved(filing), charges |-> GrandTotal(SumOf(Resolved(filing)))]
           /\ filing.total # NoTotal => SolvedCover \in Picked(filing)
<1>1. filing \in Filings /\ bill = BillOf(filing) /\ PricesOnFile
  BY DEF PricingInv, Accepted
<1>2. Accepts(filing)
  BY <1>1 DEF BillOf, Accepted
<1> QED
  BY <1>1, <1>2, FilingsAre DEF BillOf, Accepts, AllPriced

\* A total t solved for n premiums p beside others: what they come to, and by
\* how much a total of that is off.
SolvedTotal(t, fee, n, others, p, gross, off) ==
    /\ p = Round(Round((t - fee) * 1000, Combined) - others, n)
    /\ gross = others + p * n
    /\ off = (gross + Round(gross * DocStamps, 1000) + Round(gross * Vat, 1000)
                  + Round(gross * Lgt, 1000) + fee) - t

\* Rounding a premium for each row and three charges moves a total by no more
\* than half a centavo for each.
LEMMA RoundedTotal ==
    ASSUME NEW t \in Int, NEW fee \in Int, NEW n \in Nat \ {0}, NEW others \in Int, NEW p \in Int,
           NEW gross, NEW off, SolvedTotal(t, fee, n, others, p, gross, off)
    PROVE  2 * 1000 * (IF off < 0 THEN -off ELSE off) <= Combined * (n + 1) + 3000
<1> USE DEF SolvedTotal
<1> DEFINE target == (t - fee) * 1000
<1>1. target \in Int /\ Combined = 1247 /\ DocStamps = 125 /\ Vat = 120 /\ Lgt = 2
  BY DEF Combined, DocStamps, Vat, Lgt
<1>2. PICK G \in Int : G = Round(target, 1247) /\ 2 * (1247 * G) <= 2 * target + 1247
                       /\ 2 * target + 1247 < 2 * (1247 * G) + 2 * 1247
  <2> HIDE DEF target
  <2>1. PICK x \in Int, d \in Nat \ {0} : x = target /\ d = 1247
    BY <1>1
  <2>2. /\ Round(x, d) \in Int
        /\ 2 * (d * Round(x, d)) <= 2 * x + d
        /\ 2 * x + d < 2 * (d * Round(x, d)) + 2 * d
    BY RoundNear
  <2> QED
    BY <2>1, <2>2
<1>3. /\ p = Round(G - others, n)
      /\ 2 * (n * p) <= 2 * (G - others) + n /\ 2 * (G - others) + n < 2 * (n * p) + 2 * n
  <2>1. p = Round(G - others, n)
    BY <1>1, <1>2
  <2> HIDE DEF target
  <2>2. PICK m \in Int : m = G - others
    BY <1>2
  <2>3. 2 * (n * Round(m, n)) <= 2 * m + n /\ 2 * m + n < 2 * (n * Round(m, n)) + 2 * n
    BY RoundNear
  <2> QED
    BY <2>1, <2>2, <2>3
<1>4. PICK e \in Int : e = p * n /\ e = n * p
  OBVIOUS
<1>5. gross \in Int /\ gross = others + e
  BY <1>4
<1>6. ASSUME NEW k \in Nat
      PROVE  \E c \in Int : c = Round(gross * k, 1000) /\ 2 * (1000 * c) <= 2 * (gross * k) + 1000
                            /\ 2 * (gross * k) + 1000 < 2 * (1000 * c) + 2000
  <2>1. PICK m \in Int : m = gross * k
    BY <1>5
  <2>2. PICK d \in Nat \ {0} : d = 1000
    OBVIOUS
  <2>3. /\ Round(m, d) \in Int
        /\ 2 * (d * Round(m, d)) <= 2 * m + d
        /\ 2 * m + d < 2 * (d * Round(m, d)) + 2 * d
    BY RoundNear
  <2>4. PICK c \in Int : c = Round(m, d)
    BY <2>3
  <2>5. 2 * (1000 * c) <= 2 * m + 1000 /\ 2 * m + 1000 < 2 * (1000 * c) + 2000
    BY <2>2, <2>3, <2>4
  <2> QED
    BY <2>1, <2>2, <2>4, <2>5
<1>7. PICK c1 \in Int : c1 = Round(gross * 125, 1000) /\ 2 * (1000 * c1) <= 2 * (gross * 125) + 1000
                        /\ 2 * (gross * 125) + 1000 < 2 * (1000 * c1) + 2000
  BY <1>6
<1>8. PICK c2 \in Int : c2 = Round(gross * 120, 1000) /\ 2 * (1000 * c2) <= 2 * (gross * 120) + 1000
                        /\ 2 * (gross * 120) + 1000 < 2 * (1000 * c2) + 2000
  BY <1>6
<1>9. PICK c3 \in Int : c3 = Round(gross * 2, 1000) /\ 2 * (1000 * c3) <= 2 * (gross * 2) + 1000
                        /\ 2 * (gross * 2) + 1000 < 2 * (1000 * c3) + 2000
  BY <1>6
<1>10. off = gross + c1 + c2 + c3 + fee - t
  BY <1>1, <1>7, <1>8, <1>9
<1>11. target = 1000 * t - 1000 * fee
  OBVIOUS
<1> HIDE DEF target
<1> QED
  BY <1>1, <1>2, <1>3, <1>4, <1>5, <1>7, <1>8, <1>9, <1>10, <1>11

\* In every state of the invariant.
LEMMA BillIsNearTarget == PricingInv => GrossTotalNearTarget
<1> SUFFICES ASSUME PricingInv, Accepted, filing.total # NoTotal
             PROVE  LET n   == Cardinality({row \in bill.rows : row.cover = SolvedCover})
                        off == bill.charges - filing.total
                    IN  2 * 1000 * (IF off < 0 THEN -off ELSE off) <= Combined * (n + 1) + 3000
  BY DEF GrossTotalNearTarget
<1>1. /\ IsFiling(filing) /\ AllPriced(filing) /\ PricesOnFile /\ SolvedCover \in Picked(filing)
      /\ bill.rows = Resolved(filing) /\ bill.charges = GrandTotal(SumOf(Resolved(filing)))
  BY AcceptedIs
<1>2. PICK n : n = Cardinality(TargetsOf(filing, SolvedCover))
  OBVIOUS
<1>3. PICK p : p = SolvedPremium(filing, EnteredRows(filing))
  OBVIOUS
<1>4. /\ n \in Nat \ {0} /\ p \in Int /\ SumOf(OtherRows(filing)) \in Int
      /\ p = Round(Round((filing.total - MiscFee) * 1000, Combined) - SumOf(OtherRows(filing)), n)
      /\ Cardinality({row \in Resolved(filing) : row.cover = SolvedCover}) = n
      /\ SumOf(Resolved(filing)) = SumOf(OtherRows(filing)) + p * n
  <2>1. SolvedInto(filing, n, p)
    BY <1>1, <1>2, <1>3, SolvedRowsAre
  <2> QED
    BY <2>1 DEF SolvedInto
<1>5. filing.total \in Int /\ MiscFee \in Int
  <2>1. filing.total \in Nat
    BY <1>1, PicksAre
  <2>2. MiscFee \in Nat
    BY PricingAssumption
  <2> QED
    BY <2>1, <2>2
<1>6. PICK t \in Int, fee \in Int, others \in Int :
          t = filing.total /\ fee = MiscFee /\ others = SumOf(OtherRows(filing))
  BY <1>4, <1>5
<1>7. PICK gross : gross = SumOf(Resolved(filing))
  OBVIOUS
<1>8. PICK off : off = bill.charges - filing.total
  OBVIOUS
<1>9. off = (gross + Round(gross * DocStamps, 1000) + Round(gross * Vat, 1000)
                   + Round(gross * Lgt, 1000) + fee) - t
  <2>1. GrandTotal(gross) = gross + Round(gross * DocStamps, 1000) + Round(gross * Vat, 1000)
                                  + Round(gross * Lgt, 1000) + MiscFee
    BY DEF GrandTotal
  <2>2. bill.charges = GrandTotal(gross)
    BY <1>1, <1>7
  <2>3. off = GrandTotal(gross) - t
    BY <1>6, <1>8, <2>2
  <2>4. MiscFee = fee
    BY <1>6
  <2> QED
    BY <2>1, <2>3, <2>4
<1>10. gross = others + p * n /\ p = Round(Round((t - fee) * 1000, Combined) - others, n)
  BY <1>4, <1>6, <1>7
<1>11. 2 * 1000 * (IF off < 0 THEN -off ELSE off) <= Combined * (n + 1) + 3000
  <2>1. SolvedTotal(t, fee, n, others, p, gross, off)
    BY <1>9, <1>10 DEF SolvedTotal
  <2> QED
    BY <1>4, <2>1, RoundedTotal
<1> QED
  BY <1>1, <1>4, <1>8, <1>11

\* A total that a filing is solved from is what it comes to, but for the
\* rounding of each row's premium and of three charges.
THEOREM GrossTotalsAreNear == PricingSpec => []GrossTotalNearTarget
BY PricingInvHolds, BillIsNearTarget, PTL

-----------------------------------------------------------------------------
(* What the form lets through.                                               *)

\* What can be priced in the form has a price at the server.
LEMMA FormPrices ==
    ASSUME PricesOnFile, NEW f, IsFiling(f), FormAccepts(f)
    PROVE  AllPriced(f)
<1> SUFFICES ASSUME NEW c \in Picked(f), NEW i \in TargetsOf(f, c) PROVE Priceable(f, c, i)
  BY DEF AllPriced
<1>1. /\ HasPricing(c) /\ ~Pending(f, c)
      /\ menu[c].mode = "PERCENTAGE" => f.picks[c].amount <= MaxOf(c)
  BY DEF FormAccepts
<1>2. menu[c].mode \in PricingModes
  BY PicksAre, TablesAre DEF CoverOnMenu
<1>3. CASE menu[c].mode = "VALUE_PERCENTAGE"
  BY <1>1, <1>3 DEF Pending, Priceable, Blank
<1>4. CASE menu[c].mode = "FLAT_TIER"
  BY <1>1, <1>4 DEF Pending, Priceable
<1>5. CASE menu[c].mode = "VEHICLE_SEATS_BASED"
  BY <1>1, <1>5 DEF Pending, Priceable
<1>6. CASE menu[c].mode = "PERCENTAGE"
  BY <1>1, <1>6 DEF HasPricing, Priceable
<1> QED
  BY <1>2, <1>3, <1>4, <1>5, <1>6 DEF PricingModes

\* There are rows that apply exactly if there are any.
LEMMA SomeApply == \A c, field : Applied(c, field) # {} <=> RowsOf(c, field) # {}
BY DEF Applied, RowsOf

\* What is required at the server is what the form requires, and one more.
LEMMA FormCompletes ==
    ASSUME NEW f, FormAccepts(f)
    PROVE  Complete(f)
<1>1. ASSUME NEW c \in Required PROVE c \in Picked(f)
  <2>1. /\ c \in Covers /\ menu[c].active /\ menu[c].offered /\ menu[c].mode \in Mandatory
        /\ menu[c].mode = "FLAT_TIER" => RowsOf(c, "flat") # {}
        /\ menu[c].mode # "FLAT_TIER" => RowsOf(c, "seats") # {} /\ RowsOf(c, "tiers") # {}
    BY DEF Required
  <2>2. CASE menu[c].mode = "FLAT_TIER"
    <3>1. HasPricing(c)
      BY <2>1, <2>2, SomeApply DEF HasPricing
    <3> QED
      BY <2>1, <3>1 DEF FormAccepts
  <2>3. CASE menu[c].mode = "VEHICLE_SEATS_BASED"
    <3>1. HasPricing(c)
      BY <2>1, <2>3, SomeApply DEF HasPricing
    <3> QED
      BY <2>1, <3>1 DEF FormAccepts
  <2> QED
    BY <2>1, <2>2, <2>3 DEF Mandatory
<1>2. PICK c \in Picked(f) : menu[c].mode \notin Mandatory
  BY DEF FormAccepts
<1>3. c \notin Required
  BY <1>2 DEF Required
<1> QED
  BY <1>1, <1>2, <1>3 DEF Complete

\* A row's floor is what the form shows for it, rounded.
LEMMA FloorIsShown ==
    ASSUME PricesOnFile, NEW f, IsFiling(f), AllPriced(f), NEW c \in Picked(f), NEW i \in TargetsOf(f, c)
    PROVE  PayableShown(f, c, i) \in Int /\ Round(PayableShown(f, c, i), 1000) = OwedFor(f, c, i)
<1>1. Priceable(f, c, i)
  BY DEF AllPriced
<1>2. c \in Covers /\ menu[c].mode \in PricingModes
  BY PicksAre, TablesAre DEF CoverOnMenu
<1>3. InsuredFor(f, c, i) \in Nat /\ OwedFor(f, c, i) \in Int
  BY <1>1, OwedIs
<1>4. CASE menu[c].mode = "VALUE_PERCENTAGE"
  <2>1. InsuredFor(f, c, i) = ValueOf(f, i) /\ Eligible(Applied(c, "value"), ValueOf(f, i)) # {}
    BY <1>1, <1>4 DEF InsuredFor, Priceable
  <2>2. PICK v \in Nat : v = InsuredFor(f, c, i)
    BY <1>3
  <2>3. Applied(c, "value") \in SUBSET [from : Nat, rate : Nat]
    BY <1>2, TablesAre
  <2>4. TierAt(Applied(c, "value"), v) \in Applied(c, "value")
    BY <2>1, <2>2, <2>3, TierIsEligible DEF Eligible
  <2>5. PICK rate \in Nat : rate = TierAt(Applied(c, "value"), v).rate
    BY <2>3, <2>4
  <2>6. PayableShown(f, c, i) = v * rate /\ OwedFor(f, c, i) = Round(v * rate, 1000)
    BY <1>4, <2>2, <2>5 DEF PayableShown, OwedFor
  <2> QED
    BY <2>6
<1>5. CASE menu[c].mode = "PERCENTAGE"
  <2>1. Applied(c, "rate") # {}
    BY <1>1, <1>5 DEF Priceable
  <2>2. Applied(c, "rate") \in SUBSET [rate : Nat, max : Nat]
    BY <1>2, TablesAre
  <2>3. The(Applied(c, "rate")) \in Applied(c, "rate")
    BY <2>1 DEF The
  <2>4. PICK rate \in Nat : rate = The(Applied(c, "rate")).rate
    BY <2>2, <2>3
  <2>5. PICK v \in Nat : v = InsuredFor(f, c, i)
    BY <1>3
  <2>6. PayableShown(f, c, i) = v * rate /\ OwedFor(f, c, i) = Round(v * rate, 1000)
    BY <1>5, <2>4, <2>5 DEF PayableShown, OwedFor
  <2> QED
    BY <2>6
<1>6. CASE menu[c].mode \in {"FLAT_TIER", "VEHICLE_SEATS_BASED"}
  <2>1. PICK owed \in Int : owed = OwedFor(f, c, i)
    BY <1>3
  <2>2. PayableShown(f, c, i) = owed * 1000
    BY <1>6, <2>1 DEF PayableShown
  <2>3. 1000 \in Nat \ {0}
    OBVIOUS
  <2> QED
    BY <2>1, <2>2, <2>3, RoundExact
<1> QED
  BY <1>2, <1>4, <1>5, <1>6 DEF PricingModes

\* The highest that is shown, rounded, is no row's floor or less.
LEMMA HighestCovers ==
    ASSUME PricesOnFile, NEW f, IsFiling(f), AllPriced(f), NEW c \in Picked(f)
    PROVE  /\ Round(HighestPayable(f, c), 1000) \in Int
           /\ \A i \in TargetsOf(f, c) : OwedFor(f, c, i) <= Round(HighestPayable(f, c), 1000)
<1> DEFINE T == TargetsOf(f, c)
           shown == [i \in T |-> PayableShown(f, c, i)]
           all == {shown[i] : i \in T}
<1>1. \A i \in T : shown[i] \in Int /\ Round(shown[i], 1000) = OwedFor(f, c, i)
  BY FloorIsShown
<1>2. IsFiniteSet(T) /\ T # {}
  BY TargetsAre
<1>3. all \in SUBSET Int /\ all # {}
  BY <1>1, <1>2
<1>4. IsFiniteSet(all)
  <2>1. shown \in Surjection(T, all)
    BY DEF Surjection
  <2> HIDE DEF all, shown, T
  <2> QED
    BY <1>2, <2>1, FS_Surjection
<1>5. HighestPayable(f, c) = Max(all)
  BY DEF HighestPayable
<1>6. Max(all) \in Int /\ \A i \in T : shown[i] <= Max(all)
  <2>1. Max(all) \in all /\ \A x \in all : x <= Max(all)
    <3> HIDE DEF all
    <3> QED
      BY <1>3, <1>4, MaxOfFinite
  <2> QED
    BY <1>3, <2>1
<1>7. PICK m \in Int : m = HighestPayable(f, c) /\ \A i \in T : shown[i] <= m
  BY <1>5, <1>6
<1>8. 1000 \in Nat \ {0}
  OBVIOUS
<1> HIDE DEF all, shown, T
<1>9. ASSUME NEW i \in T PROVE OwedFor(f, c, i) <= Round(m, 1000)
  <2>1. PICK s \in Int : s = shown[i] /\ s <= m /\ Round(s, 1000) = OwedFor(f, c, i)
    BY <1>1, <1>7
  <2> QED
    BY <1>7, <1>8, <2>1, RoundMonotone
<1>10. Round(m, 1000) \in Int
  BY <1>7, <1>8, RoundNear
<1> QED
  BY <1>7, <1>9, <1>10 DEF T

\* A row whose premium is entered clears its floor.
LEMMA EnteredFloors ==
    ASSUME PricesOnFile, NEW f, IsFiling(f), FormAccepts(f),
           NEW c \in Picked(f), ~Solved(f, c), NEW i \in TargetsOf(f, c)
    PROVE  RowFor(f, c, i).premium >= RowFor(f, c, i).owed
<1>1. AllPriced(f)
  BY FormPrices
<1>2. Priceable(f, c, i)
  BY <1>1 DEF AllPriced
<1>3. /\ RowFor(f, c, i).owed = OwedFor(f, c, i) /\ OwedFor(f, c, i) \in Int
      /\ RowFor(f, c, i).premium = IF menu[c].mode = "FLAT_TIER" THEN OwedFor(f, c, i) ELSE f.picks[c].premium
  BY <1>2, RowIs, OwedIs
<1>4. CASE menu[c].mode = "FLAT_TIER"
  BY <1>3, <1>4
<1>5. CASE menu[c].mode # "FLAT_TIER"
  <2>1. FormPremium(f, c) >= Round(HighestPayable(f, c), 1000) /\ FormPremium(f, c) = f.picks[c].premium
    BY <1>5 DEF FormAccepts, FormPremium
  <2>2. f.picks[c].premium \in Int
    BY PicksAre DEF Pick
  <2>3. /\ Round(HighestPayable(f, c), 1000) \in Int
        /\ OwedFor(f, c, i) <= Round(HighestPayable(f, c), 1000)
    BY <1>1, HighestCovers
  <2> QED
    BY <1>3, <1>5, <2>1, <2>2, <2>3
<1> QED
  BY <1>4, <1>5

\* The premium the server solves is not less than the one the form does: it
\* rounds the sum before the other rows are taken off.
LEMMA SolvedClears ==
    ASSUME PricesOnFile, GrossTargetByValue, NEW f, IsFiling(f), FormAccepts(f), f.total # NoTotal,
           NEW p, p = SolvedPremium(f, EnteredRows(f)), NEW i \in TargetsOf(f, SolvedCover)
    PROVE  p >= OwedFor(f, SolvedCover, i)
<1>1. AllPriced(f) /\ SolvedCover \in Picked(f)
  BY FormPrices DEF FormAccepts
<1>2. PICK n : n = Cardinality(TargetsOf(f, SolvedCover))
  OBVIOUS
<1>3. /\ n \in Nat \ {0} /\ p \in Int
      /\ SumOf(OtherRows(f)) \in Int /\ SumOf(OtherRows(f)) = FixedSum(f)
      /\ p = Round(Round((f.total - MiscFee) * 1000, Combined) - SumOf(OtherRows(f)), n)
  BY <1>1, <1>2, SolvedPremiumIs
<1>4. f.total \in Int /\ MiscFee \in Int
  <2>1. f.total \in Nat
    BY PicksAre
  <2>2. MiscFee \in Nat
    BY PricingAssumption
  <2> QED
    BY <2>1, <2>2
<1>5. PICK a \in Int, o \in Int, b \in Nat \ {0} :
          a = (f.total - MiscFee) * 1000 /\ o = FixedSum(f) /\ b = Combined
  <2>1. Combined \in Nat \ {0}
    BY DEF Combined, DocStamps, Vat, Lgt
  <2>2. (f.total - MiscFee) * 1000 \in Int
    BY <1>4
  <2> QED
    BY <1>3, <2>1, <2>2
<1>6. p = Round(Round(a, b) - o, n)
  BY <1>3, <1>5
<1>7. FormPremium(f, SolvedCover) = Round(a - o * b, b * n)
  BY <1>2, <1>5 DEF FormPremium, Solved
<1>8. Round(a - o * b, b * n) <= p
  <2>1. n \in Nat \ {0}
    BY <1>3
  <2>2. Round(a - o * b, b * n) <= Round(Round(a, b) - o, n)
    BY <2>1, RoundsTwice
  <2> QED
    BY <1>6, <2>2
<1>9. Round(a - o * b, b * n) \in Int
  <2>1. a - o * b \in Int /\ b * n \in Nat \ {0}
    BY <1>3
  <2> QED
    BY <2>1, RoundNear
<1>10. /\ menu[SolvedCover].mode = "VALUE_PERCENTAGE"
       /\ FormPremium(f, SolvedCover) >= Round(HighestPayable(f, SolvedCover), 1000)
  <2>1. menu[SolvedCover].mode = "VALUE_PERCENTAGE"
    BY DEF PricesOnFile, GrossTargetByValue
  <2> QED
    BY <1>1, <2>1 DEF FormAccepts
<1>11. /\ Round(HighestPayable(f, SolvedCover), 1000) \in Int
       /\ OwedFor(f, SolvedCover, i) <= Round(HighestPayable(f, SolvedCover), 1000)
  BY <1>1, HighestCovers
<1>12. OwedFor(f, SolvedCover, i) \in Int
  <2>1. Priceable(f, SolvedCover, i)
    BY <1>1 DEF AllPriced
  <2> QED
    BY <1>1, <2>1, OwedIs
<1> QED
  BY <1>3, <1>7, <1>8, <1>9, <1>10, <1>11, <1>12

\* Unless a total is given, the rows are as entered.
LEMMA AsEntered ==
    ASSUME NEW f, f.total = NoTotal
    PROVE  Resolved(f) = EnteredRows(f)
BY DEF Resolved, Solved

\* Solved or entered, every row clears its floor.
LEMMA FormClears ==
    ASSUME PricesOnFile, GrossTargetByValue, NEW f, IsFiling(f), FormAccepts(f)
    PROVE  EveryRowClears(Resolved(f))
<1>1. AllPriced(f)
  BY FormPrices
<1>2. CASE f.total = NoTotal
  <2>1. \A row \in EnteredRows(f) : row.premium >= row.owed
    <3> SUFFICES ASSUME NEW row \in EnteredRows(f) PROVE row.premium >= row.owed
      OBVIOUS
    <3>1. PICK c \in Picked(f) : \E i \in TargetsOf(f, c) : row = RowFor(f, c, i)
      BY DEF EnteredRows
    <3>2. PICK i \in TargetsOf(f, c) : row = RowFor(f, c, i)
      BY <3>1
    <3>3. ~Solved(f, c)
      BY <1>2 DEF Solved
    <3> QED
      BY <3>2, <3>3, EnteredFloors
  <2> QED
    BY <1>2, <2>1, AsEntered DEF EveryRowClears
<1>3. CASE f.total # NoTotal
  <2> SUFFICES ASSUME NEW row \in Resolved(f) PROVE row.premium >= row.owed
    BY DEF EveryRowClears
  <2>1. SolvedCover \in Picked(f)
    BY <1>3 DEF FormAccepts
  <2>2. PICK p : p = SolvedPremium(f, EnteredRows(f))
    OBVIOUS
  <2>4. \/ row \in OtherRows(f)
        \/ row.premium = p /\ \E i \in TargetsOf(f, SolvedCover) : row.owed = OwedFor(f, SolvedCover, i)
    BY <1>1, <1>3, <2>1, <2>2, ResolvedRowIs
  <2>5. CASE row \in OtherRows(f)
    <3>1. PICK c \in Picked(f) \ {SolvedCover} : row \in CoverRows(f, c)
      BY <2>5 DEF OtherRows, RowsForAll
    <3>2. PICK i \in TargetsOf(f, c) : row = RowFor(f, c, i)
      BY <3>1 DEF CoverRows
    <3>3. ~Solved(f, c) /\ c \in Picked(f)
      BY <3>1 DEF Solved
    <3> QED
      BY <3>2, <3>3, EnteredFloors
  <2>6. CASE row \notin OtherRows(f)
    <3>1. PICK i \in TargetsOf(f, SolvedCover) : row.premium = p /\ row.owed = OwedFor(f, SolvedCover, i)
      BY <2>4, <2>6
    <3>2. p >= OwedFor(f, SolvedCover, i)
      BY <1>3, <2>2, SolvedClears
    <3> QED
      BY <3>1, <3>2
  <2> QED
    BY <2>5, <2>6
<1> QED
  BY <1>2, <1>3

\* A filing with something selected has a row.
LEMMA SomeRows ==
    ASSUME PricesOnFile, NEW f, IsFiling(f), Picked(f) # {}
    PROVE  Resolved(f) # {}
<1>1. PICK c \in Picked(f) : TRUE
  OBVIOUS
<1>2. TargetsOf(f, c) # {}
  BY TargetsAre
<1>3. PICK i \in TargetsOf(f, c) : TRUE
  BY <1>2
<1>4. RowFor(f, c, i) \in EnteredRows(f)
  BY DEF EnteredRows
<1> QED
  BY <1>4 DEF Resolved

\* So the server takes it, and adds up what the form does.
LEMMA FormIsAccepted ==
    ASSUME PricesOnFile, GrossTargetByValue, NEW f, IsFiling(f), FormAccepts(f)
    PROVE  /\ Accepts(f) /\ BillOf(f) # Refused
           /\ f.total = NoTotal => GrandTotal(SumOf(Resolved(f))) = FormTotal(f)
<1>1. AllPriced(f)
  BY FormPrices
<1>2. Accepts(f)
  <2>1. Offered(f) /\ (f.total # NoTotal => SolvedCover \in Picked(f))
    BY DEF FormAccepts, Offered
  <2>2. Complete(f)
    BY FormCompletes
  <2>3. EveryRowClears(Resolved(f))
    BY FormClears
  <2>4. ASSUME NEW row \in EnteredRows(f)
        PROVE  row.premium >= row.owed \/ (Solved(f, row.cover) /\ menu[row.cover].mode = "VALUE_PERCENTAGE")
    <3>1. PICK c \in Picked(f) : \E i \in TargetsOf(f, c) : row = RowFor(f, c, i)
      BY DEF EnteredRows
    <3>2. PICK i \in TargetsOf(f, c) : row = RowFor(f, c, i)
      BY <3>1
    <3>3. CASE Solved(f, c)
      <4>1. row.cover = c /\ c = SolvedCover /\ menu[c].mode = "VALUE_PERCENTAGE"
        BY <3>2, <3>3 DEF RowFor, Solved, PricesOnFile, GrossTargetByValue
      <4> QED
        BY <3>3, <4>1
    <3>4. CASE ~Solved(f, c)
      BY <3>2, <3>4, EnteredFloors
    <3> QED
      BY <3>3, <3>4
  <2>5. EnteredClears(f)
    BY <2>4 DEF EnteredClears
  <2> QED
    BY <1>1, <2>1, <2>2, <2>3, <2>5 DEF Accepts, AllPriced
<1>3. BillOf(f) # Refused
  <2>1. Picked(f) # {}
    BY DEF FormAccepts
  <2>2. Resolved(f) # {}
    BY <2>1, SomeRows
  <2>3. BillOf(f).rows = Resolved(f)
    BY <1>2 DEF BillOf
  <2> QED
    BY <2>2, <2>3 DEF Refused
<1>4. ASSUME f.total = NoTotal PROVE GrandTotal(SumOf(Resolved(f))) = FormTotal(f)
  <2> DEFINE A == [c \in Picked(f) |-> Contribution(f, c, f.picks[c].premium)]
             B == [c \in Picked(f) |-> Contribution(f, c, FormPremium(f, c))]
  <2>1. A = B
    BY <1>4 DEF FormPremium, Solved
  <2>2. Resolved(f) = RowsForAll(f, Picked(f))
    BY <1>1, <1>4, AsEntered, EnteredAre
  <2>3. PICK C \in SUBSET Picked(f) : C = Picked(f)
    OBVIOUS
  <2>4. SumOf(RowsForAll(f, C)) = Contributed(f, C)
    BY <1>1, PremiumsAdd
  <2>5. Contributed(f, C) = SumFunctionOnSet(A, C)
    BY DEF Contributed
  <2>6. FormTotal(f) = GrandTotal(SumFunctionOnSet(B, C))
    BY <2>3 DEF FormTotal
  <2>7. SumOf(Resolved(f)) = SumFunctionOnSet(B, C)
    <3> HIDE DEF A, B
    <3> QED
      BY <2>1, <2>2, <2>3, <2>4, <2>5
  <2> QED
    BY <2>6, <2>7
<1> QED
  BY <1>2, <1>3, <1>4

\* In every state of the invariant.
LEMMA BillAgreesWithForm == GrossTargetByValue /\ PricingInv => FormAgreesWithServer
<1> SUFFICES ASSUME GrossTargetByValue, PricingInv, filing # NoFiling, FormAccepts(filing)
             PROVE  Accepted /\ (filing.total = NoTotal => bill.charges = FormTotal(filing))
  BY DEF FormAgreesWithServer
<1>1. filing \in Filings /\ bill = BillOf(filing) /\ PricesOnFile
  BY DEF PricingInv
<1>2. IsFiling(filing)
  BY <1>1, FilingsAre
<1>3. /\ Accepts(filing) /\ BillOf(filing) # Refused
      /\ filing.total = NoTotal => GrandTotal(SumOf(Resolved(filing))) = FormTotal(filing)
  BY <1>1, <1>2, FormIsAccepted
<1>4. bill.charges = GrandTotal(SumOf(Resolved(filing)))
  BY <1>1, <1>3 DEF BillOf
<1> QED
  BY <1>1, <1>3, <1>4 DEF Accepted

\* What the form lets through the server accepts, at the total the form shows
\* unless it is solved: the catalog, the form and the resolver agree.
THEOREM FormAndServerAgree ==
    ASSUME GrossTargetByValue
    PROVE  PricingSpec => []FormAgreesWithServer
<1>1. PricingInv => FormAgreesWithServer
  BY BillAgreesWithForm
<1> QED
  BY <1>1, PricingInvHolds, PTL

-----------------------------------------------------------------------------
(* A quotation that is reopened.                                             *)

\* The premium of the rows of a coverage that is not priced by tier.
ChargedPremium(f, c) ==
    IF Solved(f, c) THEN SolvedPremium(f, EnteredRows(f)) ELSE f.picks[c].premium

\* The row that a selection is charged for a vehicle.
ChargedRow(f, c, i) ==
    IF Solved(f, c) THEN [RowFor(f, c, i) EXCEPT !.premium = SolvedPremium(f, EnteredRows(f))]
    ELSE RowFor(f, c, i)

ChargedRows(f, c) == {ChargedRow(f, c, i) : i \in TargetsOf(f, c)}

\* It is the row that was entered, at that premium.
LEMMA ChargedRowIs ==
    ASSUME PricesOnFile, GrossTargetByValue, NEW f, IsFiling(f), AllPriced(f), f.total # NoTotal => SolvedCover \in Picked(f),
           NEW c \in Picked(f), NEW i \in TargetsOf(f, c)
    PROVE  /\ ChargedRow(f, c, i) =
                 [cover |-> c, car |-> i, insured |-> InsuredFor(f, c, i), owed |-> OwedFor(f, c, i),
                  premium |-> IF menu[c].mode = "FLAT_TIER" THEN OwedFor(f, c, i)
                              ELSE ChargedPremium(f, c)]
           /\ InsuredFor(f, c, i) \in Nat /\ ChargedPremium(f, c) \in Int
<1>1. Priceable(f, c, i)
  BY DEF AllPriced
<1>2. InsuredFor(f, c, i) \in Nat
  BY <1>1, OwedIs
<1>3. CASE Solved(f, c)
  <2>1. c = SolvedCover /\ menu[c].mode = "VALUE_PERCENTAGE" /\ f.total # NoTotal
    BY <1>3 DEF PricesOnFile, Solved, GrossTargetByValue
  <2>2. PICK p : p = SolvedPremium(f, EnteredRows(f))
    OBVIOUS
  <2>4. p \in Int
    BY <2>1, <2>2, SolvedPremiumIs
  <2>5. [RowFor(f, c, i) EXCEPT !.premium = p] =
            [cover |-> c, car |-> i, insured |-> InsuredFor(f, c, i), owed |-> OwedFor(f, c, i),
             premium |-> p]
    BY DEF RowFor
  <2> QED
    BY <1>2, <1>3, <2>1, <2>2, <2>4, <2>5 DEF ChargedRow, ChargedPremium
<1>4. CASE ~Solved(f, c)
  <2>1. f.picks[c].premium \in Int
    BY PicksAre DEF Pick
  <2> QED
    BY <1>2, <1>4, <2>1 DEF ChargedRow, ChargedPremium, RowFor
<1> QED
  BY <1>3, <1>4

\* What is charged is a row for each vehicle of each selection.
LEMMA ChargedIs ==
    ASSUME PricesOnFile, GrossTargetByValue, NEW f, IsFiling(f), AllPriced(f), f.total # NoTotal => SolvedCover \in Picked(f)
    PROVE  /\ Resolved(f) = UNION {ChargedRows(f, c) : c \in Picked(f)}
           /\ \A c \in Picked(f) : {row \in Resolved(f) : row.cover = c} = ChargedRows(f, c)
<1> DEFINE out == [row \in EnteredRows(f) |->
                      IF Solved(f, row.cover) THEN [row EXCEPT !.premium = SolvedPremium(f, EnteredRows(f))]
                      ELSE row]
<1>1. Resolved(f) = {out[row] : row \in EnteredRows(f)}
  BY DEF Resolved
<1>2. ASSUME NEW c \in Picked(f), NEW i \in TargetsOf(f, c)
      PROVE  RowFor(f, c, i) \in EnteredRows(f) /\ out[RowFor(f, c, i)] = ChargedRow(f, c, i)
  <2>1. RowFor(f, c, i) \in EnteredRows(f)
    BY DEF EnteredRows
  <2>2. RowFor(f, c, i).cover = c
    BY DEF RowFor
  <2> QED
    BY <2>1, <2>2 DEF ChargedRow
<1>3. ASSUME NEW row \in EnteredRows(f)
      PROVE  \E c \in Picked(f) : \E i \in TargetsOf(f, c) : row = RowFor(f, c, i)
  BY DEF EnteredRows
<1> HIDE DEF out
<1>4. ASSUME NEW row \in Resolved(f)
      PROVE  \E c \in Picked(f) : row \in ChargedRows(f, c)
  <2>1. PICK entered \in EnteredRows(f) : row = out[entered]
    BY <1>1
  <2>2. PICK c \in Picked(f) : \E i \in TargetsOf(f, c) : entered = RowFor(f, c, i)
    BY <1>3
  <2>3. PICK i \in TargetsOf(f, c) : entered = RowFor(f, c, i)
    BY <2>2
  <2> QED
    BY <1>2, <2>1, <2>3 DEF ChargedRows
<1>5. ASSUME NEW c \in Picked(f), NEW row \in ChargedRows(f, c)
      PROVE  row \in Resolved(f) /\ row.cover = c
  <2>1. PICK i \in TargetsOf(f, c) : row = ChargedRow(f, c, i)
    BY DEF ChargedRows
  <2>2. row \in Resolved(f)
    BY <1>1, <1>2, <2>1
  <2>3. row.cover = c
    BY <2>1, ChargedRowIs
  <2> QED
    BY <2>2, <2>3
<1> QED
  BY <1>4, <1>5

\* A set of vehicle numbers has a least one.
LEMMA LeastCar ==
    ASSUME NEW T \in SUBSET Nat, T # {}
    PROVE  \E i \in T : \A j \in T : i <= j
<1> DEFINE Smaller == OpToRel(<, Nat)
<1>1. IsWellFoundedOn(Smaller, Nat)
  BY NatLessThanWellFounded
<1>2. \A j, k \in Nat : k < j => <<k, j>> \in Smaller
  BY DEF OpToRel
<1> HIDE DEF Smaller
<1>3. PICK m \in T : \A k \in T : <<k, m>> \notin Smaller
  BY <1>1, WFMin
<1>4. ASSUME NEW j \in T PROVE m <= j
  <2>1. m \in Nat /\ j \in Nat /\ <<j, m>> \notin Smaller
    BY <1>3
  <2>2. ~(j < m)
    BY <1>2, <2>1
  <2> QED
    BY <2>1, <2>2
<1> QED
  BY <1>4

\* What the form that reopens a filing takes for it.
MineOf(f, c)  == {row \in Resolved(f) : row.cover = c}
FirstOf(f, c) == CHOOSE row \in MineOf(f, c) : \A other \in MineOf(f, c) : row.car <= other.car
CarsFor(f, c) == {row.car : row \in MineOf(f, c)} \ {0}

\* Nothing else of it changes.
LEMMA ReopenedHas ==
    ASSUME NEW f, IsFiling(f), NEW g, g = Reopened(f, Resolved(f))
    PROVE  /\ g.fleet = f.fleet /\ g.address = f.address /\ g.total = NoTotal
           /\ Picked(g) = Picked(f)
           /\ \A c \in Picked(f) :
                 g.picks[c] =
                    [amount |-> EnteredAmount(f, FirstOf(f, c)), premium |-> FirstOf(f, c).premium,
                     cars |-> IF Cardinality(CarsFor(f, c)) >= Len(f.fleet) THEN {} ELSE CarsFor(f, c)]
<1> DEFINE picks == [c \in Picked(f) |->
                       [amount |-> EnteredAmount(f, FirstOf(f, c)), premium |-> FirstOf(f, c).premium,
                        cars |-> IF Cardinality(CarsFor(f, c)) >= Len(f.fleet) THEN {} ELSE CarsFor(f, c)]]
<1>1. g = [f EXCEPT !.total = NoTotal, !.picks = picks]
  BY DEF Reopened, MineOf, FirstOf, CarsFor
<1>2. f \in [fleet : Seq(Car), address : Nat \cup {NoValue},
              picks : UNION {[C -> Pick] : C \in SUBSET Covers}, total : Nat]
  BY DEF IsFiling
<1>3. \A c \in Picked(f) :
         picks[c] = [amount |-> EnteredAmount(f, FirstOf(f, c)), premium |-> FirstOf(f, c).premium,
                     cars |-> IF Cardinality(CarsFor(f, c)) >= Len(f.fleet) THEN {} ELSE CarsFor(f, c)]
  OBVIOUS
<1>4. DOMAIN picks = Picked(f)
  OBVIOUS
<1> HIDE DEF picks
<1>5. g.fleet = f.fleet /\ g.address = f.address /\ g.total = NoTotal /\ g.picks = picks
  BY <1>1, <1>2
<1> QED
  BY <1>3, <1>4, <1>5 DEF Picked

\* One selection of it.
LEMMA ReopenedPick ==
    ASSUME NEW f, IsFiling(f), NEW g, g = Reopened(f, Resolved(f)), NEW c \in Picked(f)
    PROVE  /\ g.picks[c].amount = EnteredAmount(f, FirstOf(f, c))
           /\ g.picks[c].premium = FirstOf(f, c).premium
           /\ g.picks[c].cars = IF Cardinality(CarsFor(f, c)) >= Len(f.fleet) THEN {} ELSE CarsFor(f, c)
<1>1. PICK pick :
          pick = [amount |-> EnteredAmount(f, FirstOf(f, c)), premium |-> FirstOf(f, c).premium,
                  cars |-> IF Cardinality(CarsFor(f, c)) >= Len(f.fleet) THEN {} ELSE CarsFor(f, c)]
  OBVIOUS
<1>2. g.picks[c] = pick
  BY <1>1, ReopenedHas
<1> QED
  BY <1>1, <1>2

\* The first of the rows of a coverage is one of them.
LEMMA FirstIs ==
    ASSUME PricesOnFile, GrossTargetByValue, NEW f, IsFiling(f), AllPriced(f), f.total # NoTotal => SolvedCover \in Picked(f),
           NEW c \in Picked(f)
    PROVE  \E i \in TargetsOf(f, c) : FirstOf(f, c) = ChargedRow(f, c, i)
<1> DEFINE T == TargetsOf(f, c)
<1>1. T \in SUBSET Nat /\ T # {}
  BY TargetsAre
<1>2. PICK m \in T : \A j \in T : m <= j
  <2> HIDE DEF T
  <2> QED
    BY <1>1, LeastCar
<1>3. MineOf(f, c) = ChargedRows(f, c)
  BY ChargedIs DEF MineOf
<1>4. \A j \in T : ChargedRow(f, c, j).car = j
  BY ChargedRowIs
<1>5. /\ ChargedRow(f, c, m) \in MineOf(f, c)
      /\ \A other \in MineOf(f, c) : ChargedRow(f, c, m).car <= other.car
  BY <1>2, <1>3, <1>4 DEF ChargedRows
<1>6. FirstOf(f, c) \in MineOf(f, c)
  BY <1>5 DEF FirstOf
<1> QED
  BY <1>3, <1>6 DEF ChargedRows

\* It is entered for the vehicles it was filed for.
LEMMA ReopenedTargets ==
    ASSUME PricesOnFile, GrossTargetByValue, NEW f, IsFiling(f), AllPriced(f), f.total # NoTotal => SolvedCover \in Picked(f),
           NEW g, g = Reopened(f, Resolved(f)), NEW c \in Picked(f)
    PROVE  TargetsOf(g, c) = TargetsOf(f, c)
<1> DEFINE T == TargetsOf(f, c)
<1>1. MineOf(f, c) = ChargedRows(f, c) /\ \A j \in T : ChargedRow(f, c, j).car = j
  <2>1. MineOf(f, c) = ChargedRows(f, c)
    BY ChargedIs DEF MineOf
  <2> QED
    BY <2>1, ChargedRowIs
<1>2. CarsFor(f, c) = T \ {0}
  BY <1>1 DEF CarsFor, ChargedRows
<1>3. /\ T # {} /\ IsFiniteSet(T) /\ T \subseteq Nat
      /\ f.fleet = << >> => T = {0}
      /\ f.fleet # << >> => T \subseteq DOMAIN f.fleet /\ 0 \notin T
  BY TargetsAre
<1>4. /\ g.fleet = f.fleet
      /\ g.picks[c].cars = IF Cardinality(T \ {0}) >= Len(f.fleet) THEN {} ELSE T \ {0}
  <2>1. g.fleet = f.fleet
    BY ReopenedHas
  <2>2. g.picks[c].cars = IF Cardinality(CarsFor(f, c)) >= Len(f.fleet) THEN {} ELSE CarsFor(f, c)
    BY ReopenedPick
  <2> QED
    BY <1>2, <2>1, <2>2
<1>5. f.fleet \in Seq(Car)
  BY PicksAre
<1>6. PICK n \in Nat : n = Len(f.fleet) /\ DOMAIN f.fleet = 1..n /\ (f.fleet = << >> <=> n = 0)
  BY <1>5
<1> HIDE DEF T
<1>7. CASE f.fleet = << >>
  <2>1. T \ {0} = {} /\ Cardinality({}) = 0
    BY <1>3, <1>7, FS_EmptySet
  <2>2. g.picks[c].cars = {}
    BY <1>4, <2>1
  <2> QED
    BY <1>3, <1>4, <1>7, <2>2 DEF TargetsOf
<1>8. CASE f.fleet # << >>
  <2>1. T \ {0} = T /\ T \in SUBSET (1..n)
    BY <1>3, <1>6, <1>8
  <2>2. IsFiniteSet(1..n) /\ Cardinality(1..n) = n
    <3>1. 1 \in Int /\ n \in Int
      OBVIOUS
    <3>2. IsFiniteSet(1..n) /\ Cardinality(1..n) = IF 1 > n THEN 0 ELSE n - 1 + 1
      BY <3>1, FS_Interval
    <3> QED
      BY <1>6, <1>8, <3>2
  <2>3. Cardinality(T) \in Nat /\ Cardinality(T) <= n /\ (Cardinality(T) = n => T = 1..n)
    BY <1>3, <2>1, <2>2, FS_Subset, FS_CardinalityType
  <2>4. CASE Cardinality(T) >= n
    <3>1. T = 1..n
      BY <2>3, <2>4
    <3>2. g.picks[c].cars = {}
      BY <1>4, <1>6, <2>1, <2>4
    <3>3. TargetsOf(g, c) = DOMAIN f.fleet
      BY <1>4, <1>8, <3>2 DEF TargetsOf
    <3> QED
      BY <1>6, <3>1, <3>2, <3>3 DEF T
  <2>5. CASE ~(Cardinality(T) >= n)
    <3>1. g.picks[c].cars = T
      BY <1>4, <1>6, <2>1, <2>5
    <3>2. TargetsOf(g, c) = T
      BY <1>3, <1>4, <1>8, <3>1 DEF TargetsOf
    <3> QED
      BY <1>3, <1>6, <2>1, <3>1, <3>2 DEF T
  <2> QED
    BY <2>4, <2>5
<1> QED
  BY <1>7, <1>8

\* What was entered, but for an amount that a value stands for.
LEMMA ReopenedAmount ==
    ASSUME PricesOnFile, GrossTargetByValue, NEW f, IsFiling(f), AllPriced(f), f.total # NoTotal => SolvedCover \in Picked(f),
           NEW g, g = Reopened(f, Resolved(f)), NEW c \in Picked(f)
    PROVE  /\ menu[c].mode # "VALUE_PERCENTAGE" => g.picks[c].amount = f.picks[c].amount
           /\ menu[c].mode # "FLAT_TIER" => g.picks[c].premium = ChargedPremium(f, c)
<1>1. PICK i \in TargetsOf(f, c) : FirstOf(f, c) = ChargedRow(f, c, i)
  BY FirstIs
<1>2. Priceable(f, c, i)
  BY DEF AllPriced
<1>3. /\ FirstOf(f, c).cover = c /\ FirstOf(f, c).car = i /\ FirstOf(f, c).insured = InsuredFor(f, c, i)
      /\ FirstOf(f, c).premium = IF menu[c].mode = "FLAT_TIER" THEN OwedFor(f, c, i)
                                 ELSE ChargedPremium(f, c)
      /\ InsuredFor(f, c, i) \in Nat /\ ChargedPremium(f, c) \in Int
  BY <1>1, ChargedRowIs
<1>4. OwedFor(f, c, i) \in Int
  BY <1>2, OwedIs
<1>5. /\ g.picks[c].amount = EnteredAmount(f, FirstOf(f, c))
      /\ g.picks[c].premium = FirstOf(f, c).premium
  BY ReopenedPick
<1>6. f.picks[c].amount \in Nat /\ menu[c].mode \in PricingModes /\ f.fleet \in Seq(Car)
  BY PicksAre, TablesAre DEF Pick, CoverOnMenu
<1>7. CASE menu[c].mode = "VEHICLE_SEATS_BASED"
  <2>1. i # 0
    BY <1>2, <1>7 DEF Priceable
  <2>2. i \in DOMAIN f.fleet
    BY <2>1, TargetsAre
  <2>3. PICK seats \in Nat \ {0} : seats = f.fleet[i].seats
    <3>1. f.fleet[i] \in Car
      BY <1>6, <2>2
    <3> QED
      BY <3>1 DEF Car
  <2>4. PICK amount \in Nat : amount = f.picks[c].amount
    BY <1>6
  <2>5. InsuredFor(f, c, i) = seats * amount
    BY <1>7, <2>3, <2>4 DEF InsuredFor
  <2>6. seats * amount = amount * seats /\ amount \in Int
    OBVIOUS
  <2>7. Round(amount * seats, seats) = amount
    BY <2>6, RoundExact
  <2>8. EnteredAmount(f, FirstOf(f, c)) = amount
    BY <1>3, <1>7, <2>3, <2>5, <2>6, <2>7 DEF EnteredAmount
  <2> QED
    BY <1>3, <1>4, <1>5, <1>7, <2>4, <2>8
<1>8. CASE menu[c].mode # "VEHICLE_SEATS_BASED"
  <2>1. EnteredAmount(f, FirstOf(f, c)) = InsuredFor(f, c, i)
    BY <1>3, <1>8 DEF EnteredAmount
  <2>2. menu[c].mode # "VALUE_PERCENTAGE" => InsuredFor(f, c, i) = f.picks[c].amount
    BY <1>6, <1>8 DEF InsuredFor, PricingModes
  <2> QED
    BY <1>3, <1>4, <1>5, <2>1, <2>2
<1> QED
  BY <1>7, <1>8

\* So it is charged the same rows.
LEMMA ReopenedRows ==
    ASSUME PricesOnFile, GrossTargetByValue, NEW f, IsFiling(f), AllPriced(f), f.total # NoTotal => SolvedCover \in Picked(f),
           NEW g, g = Reopened(f, Resolved(f))
    PROVE  AllPriced(g) /\ Resolved(g) = Resolved(f)
<1>1. /\ g.fleet = f.fleet /\ g.address = f.address /\ g.total = NoTotal /\ Picked(g) = Picked(f)
  BY ReopenedHas
<1>2. ASSUME NEW c \in Picked(f), NEW i \in TargetsOf(f, c)
      PROVE  Priceable(g, c, i) /\ RowFor(g, c, i) = ChargedRow(f, c, i)
  <2>1. Priceable(f, c, i)
    BY DEF AllPriced
  <2>2. /\ menu[c].mode # "VALUE_PERCENTAGE" => g.picks[c].amount = f.picks[c].amount
        /\ menu[c].mode # "FLAT_TIER" => g.picks[c].premium = ChargedPremium(f, c)
    BY ReopenedAmount
  <2>3. menu[c].mode \in PricingModes
    BY PicksAre, TablesAre DEF CoverOnMenu
  <2>4. ValueOf(g, i) = ValueOf(f, i)
    BY <1>1 DEF ValueOf
  <2>5. Priceable(g, c, i)
    BY <2>1, <2>2, <2>3, <2>4 DEF Priceable, PricingModes
  <2>6. InsuredFor(g, c, i) = InsuredFor(f, c, i)
    BY <1>1, <2>2, <2>3, <2>4 DEF InsuredFor, PricingModes
  <2>7. OwedFor(g, c, i) = OwedFor(f, c, i)
    BY <2>6 DEF OwedFor
  <2>8. RowFor(g, c, i) =
            [cover |-> c, car |-> i, insured |-> InsuredFor(f, c, i), owed |-> OwedFor(f, c, i),
             premium |-> IF menu[c].mode = "FLAT_TIER" THEN OwedFor(f, c, i) ELSE ChargedPremium(f, c)]
    BY <2>2, <2>6, <2>7 DEF RowFor
  <2>9. ChargedRow(f, c, i) =
            [cover |-> c, car |-> i, insured |-> InsuredFor(f, c, i), owed |-> OwedFor(f, c, i),
             premium |-> IF menu[c].mode = "FLAT_TIER" THEN OwedFor(f, c, i) ELSE ChargedPremium(f, c)]
    BY ChargedRowIs
  <2> QED
    BY <2>5, <2>8, <2>9
<1>3. \A c \in Picked(f) : TargetsOf(g, c) = TargetsOf(f, c)
  BY ReopenedTargets
<1>4. AllPriced(g)
  BY <1>1, <1>2, <1>3 DEF AllPriced
<1>5. \A c \in Picked(f) : CoverRows(g, c) = ChargedRows(f, c)
  BY <1>2, <1>3 DEF CoverRows, ChargedRows
<1>6. EnteredRows(g) = UNION {CoverRows(g, c) : c \in Picked(f)}
  BY <1>1 DEF EnteredRows, CoverRows
<1>7. EnteredRows(g) = UNION {ChargedRows(f, c) : c \in Picked(f)}
  BY <1>5, <1>6
<1>8. Resolved(f) = UNION {ChargedRows(f, c) : c \in Picked(f)}
  BY ChargedIs
<1>9. Resolved(g) = EnteredRows(g)
  BY <1>1, AsEntered
<1> QED
  BY <1>4, <1>7, <1>8, <1>9

\* In every state of the invariant.
LEMMA BillStaysWhenReopened == GrossTargetByValue /\ PricingInv => ReopenedIsUnchanged
<1> SUFFICES ASSUME GrossTargetByValue, PricingInv, Accepted
             PROVE  BillOf(Reopened(filing, bill.rows)) = bill
  BY DEF ReopenedIsUnchanged
<1>1. /\ IsFiling(filing) /\ Accepts(filing) /\ AllPriced(filing) /\ PricesOnFile
      /\ bill = [rows |-> Resolved(filing), charges |-> GrandTotal(SumOf(Resolved(filing)))]
      /\ filing.total # NoTotal => SolvedCover \in Picked(filing)
  BY AcceptedIs
<1>2. bill.rows = Resolved(filing)
  BY <1>1
<1>3. PICK g : g = Reopened(filing, Resolved(filing))
  OBVIOUS
<1>4. AllPriced(g) /\ Resolved(g) = Resolved(filing)
  BY <1>1, <1>3, ReopenedRows
<1>5. Picked(g) = Picked(filing) /\ g.total = NoTotal
  BY <1>1, <1>3, ReopenedHas
<1>6. Accepts(g)
  <2>1. EveryRowClears(EnteredRows(g))
    BY <1>1, <1>4, <1>5, AsEntered DEF Accepts
  <2> QED
    BY <1>1, <1>4, <1>5, <2>1 DEF Accepts, AllPriced, Offered, Complete, EveryRowClears, EnteredClears
<1>7. BillOf(g) = [rows |-> Resolved(g), charges |-> GrandTotal(SumOf(Resolved(g)))]
  BY <1>6 DEF BillOf
<1> QED
  BY <1>1, <1>2, <1>3, <1>4, <1>7

\* Reopened and saved as it is, a quotation stays what it was.
THEOREM ReopenedStaysAsItWas ==
    ASSUME GrossTargetByValue
    PROVE  PricingSpec => []ReopenedIsUnchanged
<1>1. PricingInv => ReopenedIsUnchanged
  BY BillStaysWhenReopened
<1> QED
  BY <1>1, PricingInvHolds, PTL
===============================================================================
