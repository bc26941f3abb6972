# Verification of the policy-issuance system

This directory models the policy-issuance system: `src/backend`, an Express 5 server in
front of Postgres, reached through Prisma 7, and those pages of `src/frontend` (React)
that keep state of their own. Agents file applications and quotations, administrators
approve them into policies, policies are endorsed and cancelled, and what each agent owes
to the insurer ("Bethel") is kept in a ledger. The repository has no tests; the reference
is the code and its comments.

Contents: [parts of the system](#parts-of-the-system),
[modules](#modules-and-how-they-correspond-to-the-code), [runs](#runs), [refinement](#refinement),
[fairness](#fairness), [findings](#findings),
[proofs](#what-is-proved), [limits](#what-is-not-modelled-and-why),
[plan](#plan).

To check a run: `tlc -config <name>.cfg MC<Module>.tla`; to check the proofs:
`tlapm <module>.tla` for `Sums`, `PolicyApprovalProofs`, `UnderwritingProofs`, `AgentPayablesProofs`,
`EndorsementProofs`, `QuotationConversionProofs`, `OfficeProofs` and `PagesProofs`.

## How the program runs, as far as it matters here

* One Node process. A handler is a sequence of `await`s; between two of them any
  other handler may run. What a handler has read it keeps in local variables.
* Postgres at its default isolation level, READ COMMITTED: a statement sees what
  was committed when it started, and its own transaction's writes. An UPDATE locks
  its rows to the end of the transaction; one that waited for a lock looks at the
  row's new version before it applies. Postgres aborts a transaction of a cycle of
  waits.
* Prisma's interactive transactions time out (5 s by default) and roll back. A
  failed request is an error answer; nothing retries it.
* In the browser, a handler runs to its next `await` with the values its component had when
  it was called; what it sets is shown, and effects run, before the next event. Answers
  come in any order, to whatever the page has become. A dialog that is closed usually
  stays mounted with its state.
* No queue, no scheduler, no cache in the process: all the state that outlives a
  request is in the tables. A crash of the process is the failure of every request
  under way, which the models have one by one.

## Parts of the system

For each part: the state it keeps, its operations, what it interacts with, what is
hard about it, and what makes it correct. PROJECT.json lists all of them with their
sources.

### Policy applications and their approval
`routes/policyApplications.js`, `routes/policyApproval.js`

State: `PolicyApplication` (SUBMITTED, UNDER_REVIEW, APPROVED, REJECTED), its
change log, `Policy` with its snapshot rows, `ApprovalHistory`, an in-lease task per
policy, the vehicle's assessment date.
Operations: file, with a vehicle of another owner taken over; open (promotes to UNDER_REVIEW); record a change; approve; create
and approve in one request; reject.
Interacts with: the conflict rule (twice, at filing and at approval), the ledger
(a credit per policy), vehicles (assessment), quotations (a submission files
too).
Hard: reads are far from the writes that rely on them, so two decisions, a decision
and a change, or two filings for one asset overlap. Only the status is claimed
inside the transaction.
Correct when: an application is decided once, issues one policy or none, leaves one
history row, moves the balance by what it owes; no asset is insured twice on a day.

### Conflict rule
`lib/policyConflicts.js`

No state. Two resolvers (vehicles, risk addresses) refuse a filing when another
application on the asset is pending, or when the asset's latest policy is active
past the requested start; they also say which policy is renewed. Hard: two queries
outside any transaction, and "latest" is not "any". Correct when the filings it
lets through never double-insure.

### Agent payable ledger
`lib/agentPayables.js`, `routes/accounting.js`

State: `AgentPayableTransaction` rows, `remaining_amount` of the bucket rows
(credits), the cached `Agent.payable`.
Operations: credit (issuance, endorsement), debit against the issuance's bucket,
payment placed over the buckets oldest due first, refunds of a cancellation.
Interacts with: approvals of applications and endorsements, which write it inside
their own transactions.
Hard: locks taken in different orders (payment: agent then buckets; debit: bucket
then agent), a bucket whose `remaining_amount` is still NULL initialised by two
writers, allocations computed from rows read before they are decremented.
Correct when: balance = sum of the ledger = sum of what remains, payments settle the
oldest first, no request hangs.

### Ledger backfill
`scripts/backfillAgentPayableLedger.js`

A script, run once, that recomputes buckets from the ledger by replaying it. Correct when the
replay gives what the live code left.

### Endorsements
`routes/endorsements.js`

State: `EndorsementRequest` with its lines and its number, the policy's coverages,
its totals and status, history rows, in-lease tasks.
Operations: file (numbered by a count, under a unique index), add, edit and delete
lines, approve a correction, approve a cancellation (which refunds, cancels the policy
and rejects whatever is pending), reject.
Interacts with: the ledger, policies, the conflict rule (through the policy's status).
Hard: one transaction of many statements, with checks on rows it does not lock,
figures frozen at filing, totals summed and then written, a cancellation that
decides other requests.
Correct when: an endorsement is decided once; a cancelled policy is endorsed no
more; totals and ledger follow the coverages; stale figures are refused.

### Quotations and pricing
`routes/policyQuotations.js`, `lib/coveragePricing.js`

State: `PolicyQuotation` with its coverages, a `converted` link from the application.
Operations: file, edit (prices again), submit (prices again, keeps the quoted premium,
takes the new payable).
Interacts with: vehicles (value, seats, assessment), the agent's rates, the conflict
rule, filing.
Hard: two requests over one quotation while the rates and the vehicle change. Pricing is
read outside the transaction; a row lock is taken late.
Correct when: one application per quotation, no pricing after it, and the application
insures, charges and owes figures that belong together.

### Vehicles
`routes/vehicles.js`, `lib/vehicleUniqueness.js`, `lib/vehicleValue.js`

State: the vehicle row, its identifiers, its ownerships, its assessment date and value.
Operations: entered or taken over by a filing (`reassign_owner` closes the open ownership
and opens another), corrected by PATCH, assessed at approval.
Hard: PATCH writes back an assessment it has read; identifiers are looked up before the
insert, case-insensitively, under an index that minds the case; whose vehicle it is, is
checked before the transaction; value depreciates by whole years.
Correct when: a vehicle has one owner, and whoever files for it owns it or has owned it; its assessment date is the inception of one of its policies.

### Policies, read side
`routes/policies.js`, `routes/endorsements.js` (documents)

A correction is never written to the policy: every read folds the approved ones over it.
The policy's own document has a page per endorsement, with the heading as it is now and the
period as of that endorsement; the endorsement's document has the heading before it.
Hard: corrections are numbered when filed and approved in any order; a document folds
those before it, a page's period those up to it, its heading all of them.
Correct when: a document says what its endorsement changes, and the page what it changes it to.

### Users, roles and permissions
`routes/users.js`, `routes/auth.js`, `pages/ManageUsers.jsx`

State: users with roles and permissions, roles with theirs, links to set a password.
Operations: invite, edit, delete, replace a role's permissions, log in, ask for and follow a link.
Hard: almost nothing is in a transaction; permissions are replaced by a delete and an
insert; the dialog sends back what it was opened with.
Correct when: a permission comes with the page its first part names, and every account has a password
or a link to set one.

### Product catalog and its pages
`routes/catalog.js`, `routes/coveragePricing.js`, `routes/agents.js` (rates),
`pages/ManageProducts.jsx`, `components/CoveragePricingEditor.jsx`

State: classes, variants, coverages, periods, tables of rates (the product's, the
company's, the agent's); in the page, a list, marks for deletion, and seven dialogs with drafts.
Operations: add, edit and delete at each tier, choose what a gross total is solved for,
set modes and tables of rates.
An agent's own rates are set in a dialog of `pages/MyAgents.jsx`, one period at a time, with a
request for all net rates and one for each table that changed.
Hard: deletions are marked and sent together, cascading by a query outside the transaction;
dialogs keep drafts and what they are reverted to; one Save of a coverage is up to five
requests; the dialog of rates shows whichever agent's arrive last.
Correct when: nothing is offered under what was deleted; what is sent is what was shown;
a dialog closes by itself only when all of it was saved; a save of rates that ends leaves no table
other than what was shown or loaded, and gives an employee of a company none of their own.

### Filing forms
`pages/PolicyApplication.jsx`, `pages/QuotationCreator.jsx`, `pages/EditQuotationDialog.jsx`

State: party, vehicle rows, coverages with the rows they are limited to, the catalog of the
agent, answers under way, the preview.
Hard: coverages name rows by position; effects select what is required; lookups answer after their
row is gone; prices are computed here and again by the server.
Correct when: coverages stay with their vehicles, what is required stays selected, and the
form asks for no less than the server does.

### Review pages
`lib/priorityPagination.js`, `pages/PolicyApproval.jsx`,
`components/ApplicationReviewDialog.jsx`, `components/EndorsementReviewDialog.jsx`

State: the page of the list, the dialog with its document, form and tick.
Hard: a page is three queries; the dialog stays mounted between filings.
Correct when: a page that nothing changed during is that of the list, and the
document and inputs are for the filing that is open.

### In-lease backlog
`routes/inLeaseBacklog.js`, `pages/InLeaseBacklogs.jsx`, `components/InLeaseDetailDialog.jsx`

State: a task per issue and per approved endorsement, and who accomplished it; in the dialog, the
tick that confirms the task shown.
Operations: mark a task as done, which takes the tick back and loads the next; undo.
Hard: a check and an update for each; the dialog shows the next task of the policy in the same
place, and its handlers outlive it.
Correct when: what is submitted is what was confirmed.

### The rest
* **Customers, companies and addresses**, **payment methods**: record keeping.
* **Backdating, performance figures**: a comparison, and reads.
* **Documents, e-mail**: after the commit, unable to undo it.
* **Other pages**: lists and details of what the API returns.

## Modules and how they correspond to the code

| module | what it is | code |
|---|---|---|
| `PolicyConflicts` | the rule, as operators over applications and policies | `lib/policyConflicts.js` |
| `PolicyApproval` | filing, review, changes, approval, rejection | `routes/policyApplications.js`, `routes/policyApproval.js` |
| `PolicyLifecycle` | `PolicyApproval` with the cancellation of policies | + `routes/endorsements.js` (cancellation) |
| `AgentPayables` | the ledger, statement by statement | `lib/agentPayables.js`, `routes/accounting.js`, the ledger writes of approvals |
| `LedgerBackfill` | the replay over the states of `AgentPayables` | `scripts/backfillAgentPayableLedger.js` |
| `EndorsementApproval` | endorsements of one policy; extends `AgentPayables` and executes its ledger statements | `routes/endorsements.js` |
| `AgentAccount` | `EndorsementApproval` and `LedgerBackfill` over one ledger, with payments and other policies | composition |
| `Underwriting` | what is promised of an application, without requests or transactions | abstract; `PolicyApproval` implements it |
| `QuotationConversion` | quotations, pricing, the vehicle and the rates | `routes/policyQuotations.js`, `lib/coveragePricing.js`, `routes/vehicles.js`, `lib/vehicleValue.js` |
| `CoveragePricing` | what a filing of several coverages is charged, by the server and by the form, and what a reopened one becomes | `lib/coveragePricing.js`, `routes/catalog.js` (overlay), pricing of the three forms |
| `VehicleOwnership` | filing for vehicles: identifiers, ownership, take-overs | `routes/policyApplications.js`, `routes/policyQuotations.js`, `routes/vehicles.js` |
| `InLeaseBacklog` | tasks for the in-lease system, the page and the dialog they are worked from | `routes/inLeaseBacklog.js`, `pages/InLeaseBacklogs.jsx`, `components/InLeaseDetailDialog.jsx` |
| `AgentRates` | the dialog of an agent's rates and the routes it saves to | `pages/MyAgents.jsx`, `routes/agents.js` |
| `EndorsedPolicy` | what approved corrections make a policy and its documents say | `routes/policies.js`, `routes/endorsements.js` |
| `UserAccounts` | users, roles, permissions, links, and the dialogs that edit them | `routes/users.js`, `routes/auth.js`, `pages/ManageUsers.jsx` |
| `ProductCatalog` | classes to periods, rates and batch deletion, on the server | `routes/catalog.js`, `routes/coveragePricing.js`, `routes/agents.js` |
| `ProductsPage` | the products page: filter, marks, dialogs | `pages/ManageProducts.jsx` |
| `PricingEditor` | the dialog of a coverage with the editor of its prices | `pages/ManageProducts.jsx`, `components/CoveragePricingEditor.jsx` |
| `IntakeForm` | the form a Motor filing is made in | `pages/QuotationCreator.jsx`, `pages/PolicyApplication.jsx` |
| `ReviewQueue` | the list by priority and the page that shows it | `lib/priorityPagination.js`, `pages/PolicyApproval.jsx` |
| `ReviewDialog` | the dialog a filing is reviewed and decided in | `components/ApplicationReviewDialog.jsx`, `components/EndorsementReviewDialog.jsx` |
| `Arrangements` | a set as a list in a given order, for the ledger and the list by priority | `ORDER BY` |
| `MC*` | small instances | |
| `PolicyApprovalProofs`, `UnderwritingProofs` | theorems of the policy chain; the second, that it implements `Underwriting`, what is left of them with cancellations, and what endorsed policies say | |
| `AgentPayablesProofs`, `EndorsementProofs`, `QuotationConversionProofs` | theorems of the ledger, endorsements, quotations and an agent's rates | |
| `OfficeProofs` | theorems of accounts, catalog, products page, ownership, the dialog of a coverage and prices | |
| `PagesProofs` | theorems of the review dialog, the in-lease dialog, the filing form and the list by priority | |
| `Sums` | lemmas about sums over finite sets and about lists, which the others cite | |

`MCQuotationConversion`, `MCOffice`, `MCReview` and `MCAgentAccount` check several components in one run: the components share no
variable, and a variable `focus`, chosen at the start, says which of them a behaviour is one
of; the others rest. A behaviour of the run is one of a component, so an invariant of the run is one of
each. In `MCAgentAccount` and `MCOffice` `focus` also chooses between two bounds of one component: what
its requests are about in the one, and in the other.

A definition named "variant" in a module is a plausible mistake: nothing in the
specification uses it. Each is put in place of the definition it varies, one
property at a time, to see that the property notices (PROJECT.json, `mutants`).

### PolicyApproval
Variables are the tables: `app` (status, period, renewal), `changes`, `policies` in order of
insertion with their snapshots, `history`, `ledger` and `payable` (credits), `inLease`, and
`detail` and `assessed` of the vehicles. `req[r]` is a request under way: `pc` is the
await it is about to perform, the other fields what it has read.

| action | code |
|---|---|
| `FileCheckPending`, `FileCheckPolicies`, `FileTakeOver`, `FileCommit` | `createApplicationRecord`: the two queries of the rule, and the transaction: the read of a vehicle that changes owner, then its update, which writes back the assessment date that was read (`RewriteVehicle`), and the insert. `FileCommit` ends the request or goes on to approve, as `POST /admin-applications` does |
| `EditVehicleRead`, `EditVehicleUpdate`, `EditVehicleRefused` | `PATCH /vehicles/:id`, which reads and writes back the same date |
| `OpenRead`, `OpenUpdate` | `GET /:id` and its conditional promotion |
| `ChangeRead`, `ChangeDate`, `ChangeVehicle`, `ChangeRefused` | `POST /:id/changes`: the status check, then the transaction for a change of date or of a vehicle, or its refusal |
| `ApproveRead`, `ApproveReadChanges`, `ApproveCheckPending`, `ApproveCheckPolicies`, `ApproveCommit` | `approveApplicationRecord`: application and vehicles, change log, the rule again, the transaction |
| `RejectRead`, `RejectCommit` | `POST /:id/reject` |
| `ClaimLost`, `AdminApproveRefused` | the 409s |

Each transaction is one step, but for a filing's, whose read of a vehicle is a step of its own: others may
write the row before its update does. The others claim the application's row first and otherwise insert,
increment or write what was read before, so what they write does not depend on when their statements run.
A filing takes over one vehicle at most (`Rewritten` bounds which); whose it is, is `VehicleOwnership`.
`policyQuotations.js:609-640` takes a vehicle over in the same way when a quotation is filed. A date is a number of days, an asset a model value, a coverage's debt one
number per application.

### AgentPayables
`tx[t]` is a connection: `todo`, the statements left; `writes`, ledger rows written and not
committed; `owes`, what it adds to `Agent.payable`; `holds`, its locks. A request is
translated into its statements in the code's order (`Issuance`, `Payment`, `Credit`, `Debit`,
`Refunds`), and statements that read (`Allocate`, `ReadComponents`) put the statements they lead
to in front. `DecrementBucket`, `DecrementNullBucket` and `DecrementBucketAgain` are the three
statements of `decrementBucket`. `Fail` is any error or a time-out, `BreakDeadlock` is
Postgres. The part of a component a cancellation refunds depends on dates: it is any amount up to
the component's own.

### EndorsementApproval
`EditRead` with `AddLine`, `EditLine` and `DeleteLine` are `POST`, `PATCH` and `DELETE /:id/changes`, `File*` the filing.
Adds the tables an endorsement writes (`request`, `policyRow`, `coverage`, `approvals`, `inLease`) and
`work[t]`: what a connection's request has read before its transaction and what the
transaction is to write besides the ledger. `ApproveReadPolicy` begins the transaction with the
statements of `approveEndorsementRecord` in order: claim, check that the policy lives,
then for each line its coverage and its ledger statements, then the totals; or, for a
cancellation, the refunds, the policy, the orphans and their history. A number that is taken when
`FileInsert` comes is an error answer, as the code has no retry.

Payments are not requested here (`AgentPayables` has them against every other writer).
Amount, premium and payable of a coverage are one figure, and amounts are not prorated.

### QuotationConversion
`quotation`, `applications`, `vehicle`, `rate` are rows; `lock` is the row lock of a quotation;
`req[r]` as above. `QuoteRead`, `QuotePrice`, `QuoteInsert` are `POST /`; with `EditLock`,
`EditCheck`, `EditWrite` in place of the insert, `PATCH /:id`; `SubmitRead`, `SubmitPrice`,
`SubmitLock`, `SubmitCreate` are `POST /:id/submit`. `VehicleRead` and `VehicleWrite` are
`PATCH /vehicles/:id`; `AssessVehicle` and `ChangeRate` are what others do meanwhile. `Insured`, `Owed`,
`Charged`, `BelowFloor` are `resolveCoverageRows` for one coverage, in each of its modes.

### VehicleOwnership
Checks are queries of their own; the transaction of a filing is executed statement by
statement under `rowLock`, as what it closes and what it inserts depends on when each sees
the rows. `EditVehicleRead`, `EditVehicleCheck` and `EditVehicleWrite` are `PATCH /vehicles/:id`. One identifier of the
four, with a table of the ones that differ in case only. A line-up has at least one line, and may name
a vehicle twice, as nothing in the routes refuses that: a transaction sees its own writes, so the second
line closes what the first one opened, and the last ownership it opens is the one that stays open
(`LastWrite`).

### CoveragePricing, EndorsedPolicy
Sequential: one handler is one step. `CoveragePricing` chooses a menu, an agent and a filing
and resolves it twice, as `resolveCoverageRows` does (`Resolved`, `GrandTotal`) and as the forms do,
in centavos and thousandths, so that each rounding is the program's. Where a total is solved the server skips the
check of what was entered for a coverage priced by value only, and so does `EnteredClears`. `EndorsedPolicy` files, edits
and approves corrections in any order. `PageOf` is what the policy's document prints for an endorsement (the
heading over all that is approved, the period up to that endorsement, the change lines), `DocumentOf` the endorsement's own (the heading
before it, the period it leads to, the lines); the charges both print are left out, as the model has texts only.

### UserAccounts, ProductCatalog
`userReq[r]` and `catalogReq[r]` hold what a request has read; for accounts, also what the
dialog that sent it was opened with. Each `await` is a step, and `RequestDies` and `CatalogDies`
leave what was done by then, except inside a transaction. Codes of permissions have one, two or three parts, as
the code's have; two pages stand for all, each with its actions and, under the settings, the products page with
the actions that need it. `ApartSpec` is the catalog in which no row is being added
under one that a batch is deleting (`AddsBelow`).

### IntakeForm, ReviewQueue, ReviewDialog, ProductsPage, PricingEditor, InLeaseBacklog, AgentRates
A handler with the effects React runs after it is a step. A request under way is a record
in a set (`asked`, `loads`, `calls`, `reads`); where it matters when the server reads, reading and answering
are two steps. A draft is one text with a ghost field saying which row it was typed
for; `removed`, `save.asked` and `save.written` are ghosts too. `Do` and `Click` bound what the user does.
In `PricingEditor` whatever loads the list again unmounts the dialog: the editor
is `Gone`, and a new one starts from the copy the dialog was opened with.

In `InLeaseBacklog` `marking` has the handlers under way with the step each is at, and
`said`, a ghost, is the task that was shown when the tick was set; `OtherMarks` is a handler of
another session. Tasks are made by `EndorsementApproval` and `PolicyApproval` (`inLease`); here one
may turn up at any time, and out of order, as `created_at` is set before the commit. In
`AgentRates` the steps of a save are computed when it is clicked, from what is shown and what was
loaded (`StepsOf`), as `handleSave` keeps both. One administrator is at the dialog: of two, the last to
write an agent's table wins.

## Runs

Every cfg names its bounds. `CHECK_DEADLOCK FALSE` is said everywhere because each
model has a bounded number of requests, and is done when they are served; that nothing hangs
before is what `EveryRequestEnds` says.

| run | question | bounds | distinct states |
|---|---|---|---|
| `approval_safety` | Do racing filings, changes, openings, approvals, rejections, take-overs and edits of the vehicle leave one policy per approval, one history row per decision, right balances, periods and assessment dates, and is the whole an implementation of `Underwriting`? | two applications of two agents for one vehicle, two requests, two start dates three days apart, periods of two days; two changes of one application and one of the other; the vehicle taken over and edited at any time | 1.9 million |
| `lifecycle_safety` | When can active policies of one risk address overlap, once policies are cancelled too? | three applications for one address, three start dates, cancellation with half the credit | 2.4 million |
| `payables_safety` | Do the balance, the ledger and the buckets agree, are the oldest buckets settled first, does every request end? | two connections, three requests of any kind, a policy from before there were buckets, one with a bucket and one to be issued, amounts 1 and 2 | 342 000 |
| `endorsement_safety` | Is each endorsement decided once, numbered, and the premium that of the coverages, whatever is filed, edited, approved, rejected or cancelled at once? | two connections, two endorsements, a policy with one coverage; lines that add or remove one, added, edited and deleted; three decisions or edits | 1.6 million |
| `account_sequential` | Are stale figures refused, do ledger and misc follow the coverages, and does the replay give what the live code left, when requests come one at a time? And are an agent's rates written as they were shown? | one connection, additions and changes of value to 1 or 3, two endorsements, three requests; either another policy of the agent and payments, or lines added, edited and deleted; rates: a company, its employee and another agent, two periods, a coverage of each kind of table, six clicks | 2.3 million |
| `quotation_safety` | Does a quotation become one application, with figures that belong together? Do prices, ownership and endorsed documents keep what they promise? | below | 2.4 million |
| `office_safety` | Do accounts, the catalog and the pages of products? | below | 2.5 million |
| `intake_safety` | Do coverages stay with their vehicles and what is required selected, whatever the agent does and answers say? | two rows, two variants, two agents with catalogs of their own, one plate on file, one question under way | 3.4 million |
| `review_safety` | Are pages those of the list, documents and inputs those of the filing open, and submitted tasks those confirmed? | three filings in pages of two, one page load beside another; two filings, one recorded change, one step of others; one policy with three tasks, four clicks | 9.0 million |
| `approval_lost_change`, `lifecycle_double_cover`, `endorsement_cancelled_policy` | see [findings](#findings) | as above, smaller | |

`quotation_safety` and `office_safety` have several components, one per behaviour:

| component | run | properties | bounds |
|---|---|---|---|
| quotation | `quotation_safety` | `ConvertedOnce`, `HalvesAgree`, `FloorHolds`, `NeverRepricedOnceConverted` | one quotation, two requests, three pricing modes, two values, seat counts, keys, premiums and rates, two changes of the vehicle or the rate |
| pricing | `quotation_safety` | `GrossTotalNearTarget`, `FormAgreesWithServer`, `ReopenedIsUnchanged` | a coverage of each kind, four fleets, values and totals on both sides of each tier |
| ownership | `quotation_safety` | `OwnersAreOnRecord` | one vehicle row, two parties, two requests, three filings |
| documents | `quotation_safety` | `TellsTheChange` | two fields, three texts, two corrections of two lines |
| grants | `office_safety` | `GrantsHaveTheirPage` | an administrator and two roles, two selections that share no page, two requests that may die at each `await` |
| access | `office_safety` | `AccountsCanBeEntered` | another user, three e-mails, every status, two requests that may die at each `await` |
| catalog | `office_safety` | `NothingActiveUnderDeleted` | a class, two variants, a coverage with a period, two modes and tables, two requests |
| products page | `office_safety` | `SentAsShown` | two classes, two variants, a coverage, a period; four clicks, one change by others |
| pricing editor | `office_safety` | `ClosedMeansSaved` | two coverages, one with two periods; a rate, and seats with their tiers; five inputs |

A type invariant is in the cfg of `approval_safety` only; those of the other modules
hold when they are named in theirs, and those of the policy chain, of the ledger and of quotations are
proved.

Why the bounds are enough for what is asked:

* *Two requests.* A race of this code is between what one request has read and what another
  has written since: two requests make each of them. Where three records are needed
  for a violation (a fleet application against two others, a cancelled policy between two
  active ones) there are three, decided one after the other or two at a time.
* *Dates.* Three consecutive starts with periods of two days give covers that overlap, that
  meet and that are apart; with starts 0 and 3, that a change moves past the other.
* *Two changes* of one application let the last of them override the first, beside one of another.
* *Amounts 1 and 2* let a payment settle a bucket exactly, partly, fully with a rest, and overpay
  the last; a bucket due earlier and later than another and one without a due date
  give every order.
* *MaxRequests* bounds requests served, not how they interleave. Three let two
  transactions overlap over what a third has left.
* *Four clicks, five inputs.* A draft goes wrong when a dialog is left, opened for another row and
  sent: open, type, open, send. A save of a coverage goes wrong when an earlier one wrote part of it:
  open, enter, save, and save again, with one entry in between. Six for rates: open, enter, save,
open again, enter, save. Four for a task: open, tick, submit, and submit the next.
* *Two parties, three filings* of one vehicle: it is taken over and back, with a filing
  that rests on each.
* *`ApartSpec`* in the catalog: two requests at once, except that none adds a row under one that the other is
  deleting. Of that interleaving `NothingActiveUnderDeleted` is false (see the observations); every other is in the run.
* *Two selections* that share no page: a role, or a user, that holds some of each shows a mixture of two replacements.
* *Threshold 5, Bracket 2*: insured amounts below, at, and above the threshold, on a
  whole bracket and between two.

Symmetry is declared over connections and requests in runs without liveness, and over descriptive texts of a vehicle and
e-mails nobody has at first; nothing distinguishes two of them.

## Refinement

`Underwriting` is the abstract specification of the policy chain: an application goes through
stages, and an approval is one event which puts its assets under cover where no other cover is in force
and books what it owes. `PolicyApproval` instantiates it as `Promise`: the stage is the
application's status, the cover is that of the policy issued for it, the debt is the agent's balance.
`IssuesOneAtATime` is `Promise!Spec`, and `approval_safety` checks it: each step of the detailed
specification, with its reads outside the transaction, is one event of the abstract one or none.

## Fairness

Only `payables_safety` assumes fairness (`FairSpec`): weak fairness of `Execute(t)` and of
`BreakDeadlock(t)` for each connection. `Execute`: the event loop resumes a handler whose statement
has been answered, and Postgres answers a statement that waits for no lock and grants
a lock that is free. Weak fairness is enough, as a lock is kept to the end of a
transaction, and each transaction has finitely many statements. `BreakDeadlock`: Postgres runs
deadlock detection after `deadlock_timeout`. Requests are not fair (clients need not send any) and neither
is `Fail`, so that no request ends because it is lucky enough to fail. Without
`BreakDeadlock` the property is violated: a payment holds the agent's row and waits for
a bucket, a debit holds the bucket and waits for the agent's row.

## Findings

Three runs are expected to be violated; each states what a comment or an answer of the code says.

1. **`approval_lost_change` / `IssueCarriesChanges`.** `approveApplicationRecord` reads the vehicles and the
   change log before its transaction. A change recorded in between is on file
   as recorded before the approval, and is in neither the policy's period nor its snapshot.
2. **`lifecycle_double_cover` / `ExclusiveCover`.** The rule looks only at the policy of an
   asset with the latest `effective_date`. Issue one policy; issue a renewal that starts
   later; cancel the renewal: the head of the list is now cancelled and no longer
   blocks, so a third policy may overlap the first, which is still active.
   `OverlapNeedsCancellation` (run `lifecycle_safety`) shows that this is the only way.
3. **`endorsement_cancelled_policy` / `OnlyLivePoliciesAreEndorsed`.** An approval reads
   the policy's status without locking the row. A cancellation that commits between
   that read and the approval's commit leaves an endorsement approved on a cancelled policy.

Some further statements of comments are defined in the modules, in the section that
follows the guarantees, and not run: adding one to the cfg named here makes TLC show a
counterexample.

| property | cfg | what happens |
|---|---|---|
| `NoChangeAfterDecision` | `approval_safety` | a change read the status before the decision and is recorded after it |
| `PendingIsExclusive` | `approval_safety` | two filings for one vehicle both find nothing pending |
| `FrozenOnceAssessed` of `PolicyApproval` | `approval_safety` | a take-over or a PATCH that read the vehicle as unassessed writes that back, over the date of an approval; two approvals both stamp it |
| `HistoryIsLinked` | `approval_safety` | a policy is issued between the lookup of the renewal and the insert |
| `TotalMatchesPayable` | `payables_safety` | rows from before there were buckets are in the balance and in no bucket |
| `LeftoverGoesToTheOldest` | `payables_safety` | a payment with nothing outstanding goes to the newest bucket |
| `OnlyBucketsAreOpened` | `payables_safety` | a debit on an old row sets its `remaining_amount`, without a due date |
| `ReplayAlwaysAgrees` | `account_sequential`, with `"CANCELLATION"` in `RequestTypes` | the live code spreads a refund over the buckets, the replay takes all of it from the first |
| `HistoryAgrees` | `endorsement_cancelled_policy` | a cancellation waits for an approval, then records the approved request as rejected |
| `NothingPendingOnceCancelled` | `endorsement_safety` | a filing that read the policy as live inserts after the cancellation |
| `EveryComponentIsRefunded` | `endorsement_safety` | a credit commits after the cancellation read the ledger |
| `RemovedOnce` | `endorsement_safety` | two approvals find the coverage active |
| `LinesAreFrozen`, `NeverWithoutLines` | `endorsement_safety` | a line is added after the decision; two deletions each leave the other's line |
| `AccountsMatchCoverages` | `endorsement_safety` | two approvals at once (with one connection it holds, in `account_sequential`) |
| `AccountsMatchCoverages` | `account_sequential`, with `"REMOVE"` in `LineTypes` | a removal filed before a change of value hands back the old figure |
| `AppliedAsQuoted` | `quotation_safety` | the quotation is read before its row is locked |
| `FrozenOnceAssessed` of `QuotationConversion` | `quotation_safety` | a PATCH that read the vehicle as unassessed writes that back |
| `NeverUnderwater` | `quotation_safety` | the floor that is to catch a rate that rose does not apply to a `FLAT_TIER` coverage |
| `GrantsReachTheirPage` | `office_safety` | a grant of `MANAGE_SETTINGS.MANAGE_PRODUCTS.ADD_CLASS` brings `MANAGE_SETTINGS`, and not the code of two parts the products page asks for |
| `RolesHoldOneSelection` | `office_safety` | two replacements of a role's permissions both insert after both deletes |
| `AwaitingAccountsHaveNoPassword` | `office_safety` | the server takes AWAITING_EMAIL_VERIFICATION as any status, with password and link as they are |
| `IndividualAgentHasOneLogin` | `office_safety`, with three `Users` and an individual among `LoginAgents` | two invitations both find the agent without a login |
| `ActiveAccountsAreVerified` | `office_safety` | the edit dialog shows an account that awaits its link as ACTIVE, and saves it so |
| `UsersHaveOneRole` | `office_safety` | two edits each replace the role, and both inserts stay |
| `NothingActiveUnderDeleted` | `office_safety`, without `Apart'` in `MCOffice` | a coverage is created after the batch listed those of the variant, or a variant after those of the class |
| `MarkedPeriodsCanBeDeleted` | `office_safety` | a period with rates cannot be deleted, and the batch fails whole |
| `TargetIsPricedByValue` | `office_safety` | the coverage's mode is changed after it was made the target |
| `GrossTotalIsExact` | `quotation_safety` | four roundings, and vehicles whose floors differ |
| `RequiredCanBePriced` | `quotation_safety` | a coverage priced by seats is required of a filing without seats |
| `PendingIsForItsOwner` | `quotation_safety` | the vehicle is sold between the quotation and its submission |
| `PlatesDifferBeyondCase` | `quotation_safety`, with two spellings and two cars | two filings enter one plate in two spellings, under an index that minds the case |
| `ApprovedDocumentIsThePolicy`, `ReferenceIsTheBaseline`, `DocumentsStand` | `quotation_safety` | a correction with a lower number is approved after one with a higher |
| `BatchesChain` | `quotation_safety` | two lines on one field are read in no order |
| `ListIsOfTheFilter` | `office_safety` | a save reloads by the filter of when it was clicked |
| `EditsStartFromTheRow` | `office_safety` | a saved draft, and what it is reverted to, stay as they were typed |
| `RemovedAreListed` | `office_safety` | "inactive only" filters every tier, so what was removed under a live class is not shown |
| `RevertsToItsOwn` | `office_safety` | a save that was left sets what the next coverage's dialog is reverted to |
| `EditorHasThePeriods` | `office_safety` | the editor is mounted again with the copy the dialog was opened with |
| `PricesAreOfThePeriod` | `office_safety` | prices of the period chosen before arrive last, and are saved for the one chosen |
| `PreviewShowsTheForm`, `WarningsAreForTheirRow`, `OwnVehiclesAreTheParty` | `intake_safety` | a lookup answers after the preview opened, the row moved, or the party changed |
| `ScopesNameRows`, `SelectionsAreOfTheVariant`, `CreatedPartyIsKept` | `intake_safety` | the party or the variant changes below the coverages; a typed party is on file although the filing failed |
| `CatalogIsTheAgents` | `intake_safety`, with `MaxAsked = 2` | the catalog of the agent chosen before arrives last |
| `ShownIsTheLook` | `review_safety` | an earlier page arrives last |
| `AccomplishedOnce` | `review_safety` | two people both find a task left, and the second is recorded |
| `WorkedInOrder` | `review_safety` | the task before it is undone, or turns up, between the load and the submission |
| `SavedIsOnFile` | `account_sequential` | what is put back as it was loaded, once a save has written it, or another agent's rates, shown as this one's, are taken for unchanged and not sent |
| `RatesAreTheAgents` | `account_sequential` | rates of the agent managed before arrive last, or those of this one fail to load |
| `DecidedAsShown`, `ChangesStartFromTheirFiling`, `OutcomeIsOfTheOneOpened` | `review_safety` | details, or an answer, of the filing opened before arrive in the dialog of another |

## What is proved

The theorems hold for every value of the constants that meets the named assumption of the
module: any number of applications, agents, policies, endorsements, vehicles, products, requests and connections,
any dates and amounts. tlapm checks each to the last leaf; nothing is assumed but what is named here.

Most assumptions are types, finiteness, that a "none" is no member of the set it is the none of, and, where a
definition needs it, non-zero lengths, seats and brackets: `ParametersAssumption`, `LedgerAssumption`,
`EndorsementAssumption`, `QuotationAssumption`, `AccountsAssumption`, `CatalogAssumption`, `DialogAssumption`,
`InLeaseAssumption`, `IntakeAssumption`, `EditorAssumption`, `EndorsedAssumption`, `RatesAssumption`, `PricingAssumption`
(figures as the schemas let them in). Those that say more:

* `OpeningAssumption`: the books agree in the ledger the system starts from, its signs are right, and the agent has a
  bucket. Of an agent without one, a payment moves the balance only: `allocatePaymentFifo` finds no row and
  returns, and the books do not agree from then on.
* `RefundsAssumption`: a refund is a share of the payable, 0 to 100 percent.
* `ProductsAssumption`: the stock is a tree of classes, variants, coverages and periods, as the foreign keys make it.
* `OwnershipAssumption`: a line-up has a line, and one that names no vehicle on file gives an identifier, as the
  routes refuse others.
* `NothingIsLeftUnderDeleted` is of `ApartSpec`: any number of requests at once, but none is adding a row under one that a
  batch is deleting. Of `CatalogSpec` the property is false (see the observations).
* `GrossTargetByValue`, a hypothesis of `FormAndServerAgree` and `ReopenedStaysAsItWas` only: the coverage that is solved
  from a total is priced by value, as `routes/catalog.js` demands when it is chosen. Its mode may be changed later
  (`TargetIsPricedByValue` in the observations); solved premiums of tiers are then lost when the filing is reopened.
* `ReplayIsFaithful` has three hypotheses: requests are served one by one (`OneByOne`; of two, a payment may
  allocate between the insert of an issuance and its commit, and misses a bucket with an earlier id than its own); in the opening ledger a policy's first bucket is its issuance (`Rooted`), as
  the approval of the application writes it; and that ledger can be replayed, or a policy was cancelled (`Standing`). The
  opening of `account_sequential` meets all of them. Without a cancellation only: see `ReplayAlwaysAgrees` among the observations.

### `PolicyApprovalProofs`, `UnderwritingProofs`: the policy chain

| theorem | property |
|---|---|
| `TypeCorrect` | `TypeOK` |
| `IssuedOnce` | `IssuedExactlyOnce` |
| `DecidedOnce` | `DecidedExactlyOnce` |
| `OutcomeOnce` | `OutcomeIsRecordedOnce` (the two together) |
| `NoDoubleCover` | `ExclusiveCover` |
| `DatedAtInception` | `AssessedAtInception` |
| `DecisionStays` | `DecisionIsFinal` |
| `PeriodsAsAsked` | `PeriodFollowsChanges` |
| `PayableIsOwed` | `PayableMatchesPolicies` |
| `ImplementsUnderwriting` | `IssuesOneAtATime` |
| `OverlapsAreBehindACancellation` | `OverlapNeedsCancellation` |
| `OutcomeOnceWithCancellations` | `OutcomeIsRecordedOnce` of `LifecycleSpec` |
| `DocumentsTellTheChange` | `TellsTheChange` |

The argument for `NoDoubleCover` is the interesting one, since the rule is checked by two reads
outside any transaction and only looks at the latest policy of each asset. The inductive
invariant `IInv` says why it is enough:

* `PassedIsExclusive`: of two applications that share an asset, at most one is past the
  check for pending ones while it is itself pending. The second check finds the first pending until it is
  decided; a decided one can no longer commit, as the claim fails.
* `CheckedIsClear`: so no policy of its assets is issued between an application's look at the
  policies and its commit, and what it saw, every policy of those assets expired by its start,
  still holds when it commits.
* `PoliciesInOrder`: policies of an asset follow each other in the order they are issued. With it the
  latest by effective date is the last issued, and if that one does not block, none does. (Cancelling
  breaks this part: finding 2.)
* `FilingIsPrivate`, `PeriodsOK`, `DatesItsOwn`: what a request has in hand agrees with the rows it was read from,
  as far as the others need it.
* `ReadDatesAreInceptions`: an assessment date that a take-over or an edit has read, and will write back whatever
  is on file by then, is the inception of a policy of that vehicle, or none. So is therefore what is on file (`AssessedAtInception`);
  that it stays, is false.

`UnderwritingProofs` builds on `IInv`. `PeriodInv` adds that every date in a request's hand is the filed one or one
the log asked for, and that what an approval has read is a prefix of the log, as logs only grow.
`PayableIsOwed` takes the sums over the ledger and over the policies as what they are, sums over finite sets, and shows that
a commit adds the same to each. `ImplementsUnderwriting` maps step by step: the commits of a filing, a promotion,
a rejection, an approval, and of a filing approved in the same request are events of `Underwriting`, and every other step is a stutter;
that an approval's cover is free, as the abstract event demands, is `NoDoubleCover`.

With cancellations (`LifecycleSpec`) `PoliciesInOrder` and `CheckedIsClear` are lost, and so is `NoDoubleCover`. What
`LifecycleInv` keeps is `CheckedUnlessCancelled`: what an application past its check overlaps in force lies behind
a policy of the same asset that is later by effective date and cancelled, as the check looks at the head of the list alone, and the head was
expired by its start or cancelled. `OverlapNeedsCancellation` follows when the application commits. `RefundsAreCovered`
(the balance is at least the payable of what is in force) keeps the balance a natural number, so types hold too.

`DocumentsTellTheChange` is of `EndorsedPolicy`, where nothing is stored: the policy's pages and an endorsement's document are
folds, of different sets of the approved lines (`PageOf`, `DocumentOf`). A fold has a history, one state for each request it has passed,
and the folds of two sets that agree up to a number agree up to there (`HistoriesAgree`). `TellInv` says where "from" comes from: while a
request waits and nothing else is decided, every approved one has a lower number and its lines say what the fold of
those says; once it is approved none with a lower number is left to decide, so the fold of those before it stays what it was.
So its document shows the old heading and the new period for good, while its page shows the new heading only
as long as it is the last.

### `AgentPayablesProofs`: the ledger

| theorem | property |
|---|---|
| `TypeCorrect` | `TypeOK` of the ledger |
| `TransactionsBalance` | the inductive invariant `IInv` |
| `BooksBalance` | `BalancesAgree` |
| `OldestIsSettledFirst` | `PaymentsSettleOldestFirst` |
| `ReplayIsFaithful` | `ReplayAgrees` |

Three books (ledger, balance, buckets) are written by different statements of a transaction, which others run
between, so they agree only when the transactions under way are counted. `Transactions` says of each of them that, for each
book, what its writes have moved and what the statements it has yet to execute will move is what the request owes (`Settles`),
which statements that read lead to more of, too; and that it holds the locks of the rows it has written, which
are as it found them but for their `remaining_amount` (`Locked`), so no other transaction has written them (`Apart`). A
commit then moves each book by the same amount, and a rollback or a broken deadlock none.

`OldestIsSettledFirst` needs `OrderInv` besides. Whatever has a row to commit holds the agent's row, or has yet to
lock it (`Covered`); a payment locks it before it reads the buckets, so none of them changes until it commits. What
its writes leave of them, less what its remaining decrements take, is what the plan did (`PaysInOrder`), in due order
by induction over the turns of `allocatePaymentFifo` (`AllocationInOrder`).

`ReplayIsFaithful`: the replay is one function of the whole ledger, while the live code changed one bucket at a time,
in other statements than the ones that inserted the rows. Four facts about the replay relate them: a row that comes last is replayed last
(`ReplayMore`); what is left of the buckets has no say in it (`ReplaySame`); a debit is taken from the
policy's issuance, if that is the first of its buckets (`Rooted`); and a payment is taken as it was allocated (`PlacedIs`). The invariant
(`BackfillInv`) is of what the transaction under way sees, its own writes over the ledger (`View`): its replay
and the buckets differ by what a correction has decremented before the row that says so or inserted before the decrement, on its
policy's issuance only (`Gap`), or by the decrements that a payment has planned and not made (`Ready`). The statements it has
left settle that difference, so at its commit there is none; and a rollback leaves the ledger as it was.
It holds over `Spec` of `AgentPayables`, with every writer of the ledger, cancellations included (after one it promises
nothing more); the run has the property over `AccountSpec`, where endorsements write the ledger between their other statements.
`LedgerBackfill` states the replay as a recursive function over ids, which the provers can unfold one row at a time.

### `EndorsementProofs`: endorsements

| theorem | property |
|---|---|
| `EndorsementsAreConsistent` | the inductive invariant `EndorsementInv` |
| `ApprovalIsExactlyOnce` | `ApprovedExactlyOnce` |
| `DecisionsStand` | `DecisionStands` |
| `NumbersHaveNoGaps` | `NumberedWithoutGaps` |
| `PremiumIsOfItsCoverages` | `PremiumMatchesCoverages` |

* A decision's transaction has a shape: the claim of the request's row, statements that leave requests alone, the history row,
  the commit. Between the claim and the commit the row's lock is held, so two decisions of one request cannot both be past
  the claim, and a cancellation's claim of the orphans waits or finds them decided (`Connected`, `History`).
* A total is summed after the last coverage of the transaction was written and is written before the commit. Every
  transaction that writes coverages of a policy also writes its agent's row before it sums, and keeps that lock, so the
  coverages it sums are those on file and its own, and no other connection commits one in between (`Charged`, `Totalled`). Before its transaction a request has nothing to write.
* A filing counts before it inserts. The count is at most the number filed, and the unique index refuses a number
  that is taken, so the one inserted is the next (`Requests`).

### `QuotationConversionProofs`: quotations and an agent's rates

| theorem | property |
|---|---|
| `TypeCorrect` | `TypeOK` |
| `OneApplication` | `ConvertedOnce` |
| `NeverBelowFloor` | `FloorHolds` |
| `OneCoverage` | `HalvesAgree` |
| `EditsStopAtConversion` | `NeverRepricedOnceConverted` |
| `RatesAreSavedAsShown` | `RatesAreWrittenAsShown` |

`IInv` is `LocalOK` and `Protocol`. `LocalOK`: types, and that what a request has in hand is
well-formed; terms past their pricing are those of one coverage and above the floor. `Protocol`: a
request past the lock holds it (`LocksHeld`), what is edited or submitted is on file
(`FiledFirst`), and a quotation about to be written is unconverted (`WritesUnconverted`), which the lock
keeps true from the repeated check to the write. `Outcome` carries the prices over to the applications.

Rates (`RatesInv`): of a save under way, every table on file is as it was shown when Save was clicked, or was shown as it
had been loaded, or its request is still to be sent (`TablesKept`), and net rates likewise. `ChangesAreSent`
says that what is sent, a list put together from one for each coverage, has whatever changed. Employees' rates stay blank
because the routes refuse to write them, whoever's the dialog says it shows.

### `OfficeProofs`: accounts, catalog, products page, ownership, the dialog of a coverage, prices

| theorem | property |
|---|---|
| `SubPermissionsBringTheirPage` | `GrantsHaveTheirPage` |
| `EveryAccountCanBeEntered` | `AccountsCanBeEntered` |
| `NothingIsLeftUnderDeleted` | `NothingActiveUnderDeleted` |
| `ProductsAreSentAsShown` | `SentAsShown` |
| `OwnersStayOnRecord` | `OwnersAreOnRecord` |
| `ClosesOnceSaved` | `ClosedMeansSaved` |
| `GrossTotalsAreNear` | `GrossTotalNearTarget` |
| `FormAndServerAgree` | `FormAgreesWithServer` |
| `ReopenedStaysAsItWas` | `ReopenedIsUnchanged` |

* Accounts (`AccountsInv`): of any set of permissions on file the pages are there, whatever two replacements made of it, as
  each inserts whole selections with theirs and a delete takes all; and what takes a password away leaves a link, what
  uses a link up leaves a password, whatever status is written with it.
* Catalog (`CatalogInv`): what a batch has read of the tiers below what it deletes stays complete, as nothing is added under it;
  what a request that adds a row has read of the one above stays so; and an active row names the row above.
* Products page (`ProductsInv`): a draft is of the row its dialog was opened for, an entry of the list is a row as it once was.
  The page strikes out what has a marked row anywhere above it; the server deletes the tiers below what it is sent. `Chain`,
  recursive on the tier, is unfolded tier by tier to show that the first is within the second.
* Ownership (`OwnershipInv`): what a filing's checks found keeps holding, as a vehicle stays on file and the record of
  who owned it only grows. Of every vehicle it has written, a transaction holds the lock and has found all ownerships that
  are open (`WritesSound`), so its commit closes them and leaves the one it opened last.
* Dialog of a coverage (`EditorInv`): of a save whose dialog was left alone, what was entered is at each step within
  what has been written and what the requests that are left will send (`SaveIsWhole`). That the requests
  decided on when the details are saved are enough is `RequestsCover`. A save during which something is still
  edited, or prices arrive, promises nothing of what came later, here as in the property.
* Prices (`PricingInv`): a bill is the one its filing gives on the menu there is; the rest is about the arithmetic.
  The server adds up rows, the form coverages: `PremiumsAdd`, a sum over a set in parts. Each row's floor is what
  the form shows for it, rounded, so one premium that clears the highest, rounded, clears all of them, as rounding is
  monotone (`HighestCovers`). Solved from a total, the server rounds the sum before it takes the other rows off and again when
  it divides, the form once at the end; the server's is never the lower (`RoundsTwice`), so the floors hold there too. The distance from
  the total is that of each rounding, added up (`RoundedTotal`). A reopened filing gets back every vehicle, and the amount per
  occupant, which divides what all of them are insured for (`ReopenedTargets`, `ReopenedAmount`, `RoundExact`).

### `PagesProofs`: pages

| theorem | property |
|---|---|
| `InputStaysWithItsFiling` | `InputIsForTheOneOpened` |
| `DocumentIsCurrent` | `PdfIsCurrent` |
| `TasksAreConfirmed` | `ConfirmedForItsTask` |
| `ScopesStayWithTheirVehicles` | `ScopesFollowTheirVehicles` |
| `RequiredAreSelected` | `RequiredStaySelected` |
| `PagesAreOfTheList` | `PageIsOfTheList` |

* Review dialog (`DialogInv`): inputs are for the filing opened. The PDF shown has the approver's changes, or one that
  has them is on its way, or one will be asked for when the details reload; only one answer is listened to.
* In-lease (`BacklogInv`): the tick is of the task shown, and the dialog waits for one handler at most.
* Form (`FormInv`): rows have distinct tags (a ghost), scopes are positions of the rows whose tags were meant, and what
  is required was selected by the effect that follows whatever made it so. Removing a row moves the positions of those
  behind it, which is the lemma the scopes rest on.
* List (`QueueInv`): a page under way whose three queries nothing came between has counted the bucket there is and taken
  of it what the page has; otherwise its count still reaches everything that was waiting when it was asked for, because
  what is ahead of that can only be decided, never added (`DisturbedIsSound`). So a first page that is not full has all
  of it, and only then are there decided rows. That two buckets skipped into separately are one list is `PageIsOne`.

### `Sums`

How `SumFunctionOnSet` moves when a row is added, removed, changed or overlaid on a table, what it is over the parts or the
images of a set (`SumOfParts`, `SumOfImages`), and what lists have that are put together (`ConcatHas`, `FlattenHas`) or are in order (`RankIsTaken`, `ListedInOrder`). The library's induction theorems
take an operator, which the installed provers cannot instantiate; induction is done here by the least
counterexample, with the property given as a set (`NatIsInductive`, `FiniteIsInductive`), and a fold by
exhibiting the function it computes (`TallyExists`, `TallyIsUnique`). Recursive functions over rows and
`FlattenSeq` are handled the same way.

The provers see nothing in `@@`, `:>` and `SortSeq`, and mis-read an `@` inside another EXCEPT; models that are proved about
spell these out (`Over`, `Only`, `Arranged`, `Put`, `RowsWithout`). No module declares a RECURSIVE operator.

### Only model-checked

* `EveryRequestEnds`: liveness under fairness, and that an action is enabled, are beyond TLAPS.
* `ValuesAreAsApproved` and `AccountsMatchCoverages`: one request at a time. Of the second that is what the code keeps: of two
  approvals at once, one's misc is lost (see the observations).
* `ReplayAgrees` over `AccountSpec`, that is, with an endorsement's other statements between those on the ledger: the theorem
  is over `Spec` of `AgentPayables`.

## What is not modelled, and why

* *Within the modelled parts.* A query with nested includes is one read, though Prisma
  may send several statements. `PolicyApproval` takes assets on file as they are (`VehicleOwnership` has
  new ones) and prices as numbers (`CoveragePricing` has them).
  Changes of names, addresses and clauses go the way of changes of date and of vehicles.
  One agent's ledger is modelled: ledgers of two agents share no row. Ledger
  amounts of endorsements are not prorated, and lines that only fold at read time are `TEXT`
  (`EndorsedPolicy` has the fold, without the charges that documents print). `QuotationConversion` has one coverage. Calendar arithmetic is a table
  (`ValueAt`). Forms: Property's risk address, and fields that only have to be filled in.
* *Parts.* Validation of bodies, record keeping of parties and payment
  methods, documents, e-mail, and pages that show what the API returns: pure input and
  output, or single updates with little that interleaves. Permissions are modelled as what an
  account holds, not as the guard in front of each operation.
* *The environment.* Postgres and Prisma are modelled by what the code relies on: row locks, READ
  COMMITTED, unique indexes, deadlock detection, rollback.

## Plan

Done: the policy chain with its abstract specification; the ledger, its backfill and
endorsements, and their composition; quotations, prices, vehicles and what endorsed policies
say; accounts and the catalog; the pages with state of their own; proofs of the invariants of the policy
chain and of its refinement, of the ledger's books, its replay and the order of payments, of endorsements, quotations, accounts, the catalog, ownership, prices, and of
the pages.

Next, in this order:

1. **`ReplayIsFaithful` over `AccountSpec`**, where an endorsement's ledger statements stand between its others: the
   statements left that `Ready` speaks of would be those on the ledger.
2. **A second abstract specification**, `Account`: a balance that moves by whole postings,
   implemented by `AgentPayables`.
3. **Pure algorithms** that remain: whole years, proration, the refund of a cancellation.

Runs are few and each has a question of its own: a part added to the project joins the run
whose question it shares.
