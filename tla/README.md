# Verification of the asset request service

A TLA+ model of the asset request service in `src/` (Go, PostgreSQL, an external
Approval Engine), the TLC runs that check it on small instances, and proofs, checked
by TLAPS, of its main safety properties for instances of every size.

The paths below are relative to the repository root; `pkg/` is `src/internal/pkg/`.

## 1. The system

Staff request assets. A request is stored here, approved in an external Approval
Engine, and, once approved, fulfilled here: asset data is recorded (Shipped), the goods
arrive (Delivered), the request is complete. The API runs as a server (`cmd/api`) or as
serverless functions (`api/index.go`), in several instances at once; nothing but the
database is shared between them. A cron job (`cmd/retrypendingsync`) registers requests
again that the engine could not take when they were created.

### Inventory

| Component | State it keeps | Operations | Interacts with | What is hard | What makes it correct | Modelled |
|---|---|---|---|---|---|---|
| Request service and repository (`pkg/service/request_service.go`, `pkg/repository/request_repository.go`, `webhook_handler.go`, `cmd/retrypendingsync`) | `asset_requests`, `request_approval_steps`, `request_history` | Create, Detail, ApprovalAction, HandleEngineWebhook, SaveFulfillmentData, AdvanceFulfillment, RetryPendingApprovalSync; List reads | engine client, master data, form and asset data validation | every operation is several statements and engine calls without a transaction around them; stale answers written late; ignored write failures; timeouts whose effect is unknown | status never ahead of the engine, stages in order and once, audit trail true, every request registered at last | `AssetRequests` |
| Approval Engine client (`pkg/client/approvalengine`) and adapter | none | SubmitRequest, GetRequest, Decide | the engine | a call times out after 15 s though the engine carries it out | the caller treats a lost answer as unknown | `AssetRequests` (engine: external) |
| User administration (`user_service.go`, `user_admin_repository.go`) | `users`, `user_roles`, `user_settings` | create, update, assign role, set master, list | roles, auth, seeding | read, check and write are separate statements; a start of the API may seed again | an active administrator remains; an update changes what it was asked to | `UserAdmin`; the master flag in `Sessions` |
| Roles, permissions, login (`auth_service.go`, `auth_repository.go`) | `roles`, `role_permissions`, `users.last_login` | login, logout, create a role, assign permissions | JWT, resolver | delete and insert without a lock; a token outlives what it says | a role has the permissions last assigned; a change of role applies within the time to live | `UserAdmin` (permissions of roles), `Sessions` (login and token) |
| Permission resolver and guard (`permission_resolver.go`, `auth_middleware.go`) | per-instance cache of resolved permissions with a time to live | resolve, evict | user and role tables | stale entries, racing loads, eviction at the limit, three identifiers | no answer older than the time to live; nobody answered with another's account | `PermissionCache`; the guard in `Sessions`, `Router` |
| Master data (`master_data_*.go`, `request_form_repository.go`) | outlets, distributors and their outlets, asset types, regions | create, update, deactivate, list | request form, requests | "is it in use" and the write are separate statements; a distributor and its outlets are saved together | nothing in use is deactivated; no outlet is taken from another distributor; a request is registered on what is active | `MasterData` |
| Phone catalogue (`phone_catalog_*.go`) | brands, models | create, update, deactivate, show | asset data | a brand without active models; models that move between brands | the form shows every active brand, each model under its own | `PhoneCatalog` |
| Request form and asset data validation (`request_form.go`, `fulfillment_data.go`) | none | offer, validate and normalise a submission; resolve the requester; validate asset data | master data, engine client | conditional fields; what is stored is read back and sent again by a retry | what is offered is accepted and nothing else stored; a retry sends the same; one identifier per unit | `RequestForm`, `FulfillmentData`, `RequestDesk` |
| IMEI reference (`imei_*.go`, `cmd/importimei`) | `imei_reference` | parse a file, upsert it in chunks of 500 within one transaction, look up | asset data form | a chunk fails after others were written; overlapping imports; the last, shorter chunk | a file takes effect as a whole or not at all | `ImeiReference` |
| Dashboard and navigation counters (`dashboard_*.go`, `navigation_*.go`) | none | tiles, chart, table of waiting requests; counters | request rows | several statements per page while requests move; months in the business time zone | parts of a page agree; each request in one bar; counters never lead the engine | `Dashboard`, `RequestCounters` |
| Router, middleware, webhook signature, JWT (`router.go`, `auth_middleware.go`, `webhook_middleware.go`, `jwt.go`) | none; the token is the client's | route, authenticate, require a permission | all handlers, resolver | group middleware stands before routes declared elsewhere; `form-options` is also an id | the handler declared for a path, for whom the matrix names | `Router`, `Sessions`; cryptography left out |
| Schema migration and seeding (`pkg/database/migration.go`, `migrations/`) | the schema, seeded rows | migrate, seed | all tables | seeding again (fewer than 17 users are counted, or counting fails) undoes later changes | an administrator remains; the seeded matrix is the documented one | seeding in `UserAdmin`, the matrix in `Router` |
| Participant sync (`cmd/syncparticipants`) | none | push users to the engine | engine | - | - | no: one pass of reads and idempotent upserts, no local state |
| Handlers' mapping, responses, configuration, API documentation | none | wiring | all | - | - | the status tag in `RequestCounters`; else no: pure I/O, generated code |

`PROJECT.json` lists the components with all their files, and under `hazards` every point
where this code is hard to test, with the properties that cover it.

### How a request moves

1. `Create` inserts the row (`WAITING_APPROVAL`), then registers the request with the
   engine. It records the engine's id, caches the approval chain and logs "Submitted"; if
   the engine call fails it marks the row `PENDING_ENGINE_SYNC`, and the cron job tries
   again later.
2. Approvers decide through `ApprovalAction` here, or in the engine's own inbox. The
   latter reaches the row when the request is viewed (`Detail` refreshes it from the engine)
   or when the engine's webhook comes. Both read the row, ask the engine, and write the
   engine's status back with an UPDATE that is not guarded by the status.
3. `SaveFulfillmentData` and `AdvanceFulfillment` move the row on, each with an UPDATE that is
   guarded by status and stage.

## 2. Plan

Done, in this order (the most important behaviour first):

1. `RequestVocabulary`, `AssetRequests`: the request service, its repository and the engine.
2. `FulfillmentLedger`, `RequestLifecycle`: the two abstract specifications it is compared with.
3. `AssetRequestsProperties`, `MCAssetRequests`, the configurations: what is checked.
4. `AssetRequestsProofs`: types, the inductive invariant, its consequences, the refinement;
   `RequestTrailProofs` and `RequestQueueProofs`: the cached chain, the history and the retry queue.
   `RequestCountersProofs`: what is shown of the requests, and what more holds of calls served one at a time.
5. `UserAdmin`, `MCUserAdmin`, `UserAdminProofs`: accounts, roles and permissions under
   concurrent calls and restarts; types and the edits of permissions for any number of calls,
   the last administrator for one update of users at a time, beside any edits of roles.
6. `PermissionCache`, `MCPermissionCache`, `PermissionCacheProofs`: the resolver's cache over
   the tables that `UserAdmin` writes, with time; its freshness.
7. `MasterData`, `MCMasterData`, `MasterDataProofs`: outlets, distributors and asset types under
   concurrent calls, with requests registered on them meanwhile; all its properties for any number of calls.
8. `RequestForm`, `FulfillmentData`, and `RequestDesk` that takes one request through both.
9. `PhoneCatalog`, `ImeiReference`: the two other sets of reference data.
10. `Router`, `Sessions`: who reaches which handler, and for how long after a change of the account.
11. `Dashboard`, `RequestCounters`: what users are told of the requests; `BackOffice` puts the parts
    that share no state together, `MCBackOffice` is its instance.
12. `BackOfficeProofs`: the properties of these parts for any constants, then of the parts together.

Next, with what is worth checking or proving:

13. `UserAdmin` with the logins of several accounts: who may still act after the last administrator is replaced.
14. In `AssetRequests`: the retry's order by age within its 30 s.

## 3. The modules

### RequestVocabulary

The words (statuses, stages, actions) and the pure translations between the engine's
vocabulary and the service's: `localStatusForEngineStatus`, `approvalEngineDecision`, the
history label, `currentStepName`, `mapEngineStepsToItems`, `readyForFulfillmentData`. An
engine answer is a record: status, `current_step_order`, and whether the answer carries
its steps. A step's own status within the engine ("completed") only repeats that
the step is before the current one and is abstracted to that.

### AssetRequests

| Variable | Code |
|---|---|
| `requests` | `asset_requests`: status, current step and its name, `fulfillment_step` (`Unset` for NULL), `fulfillment_data`, whether `approval_request_id` is set, `approval_status`. The columns that never change after the INSERT are left out. |
| `chain` | `request_approval_steps` |
| `history` | `request_history`, as the set of entries: some are logged twice (a retry logs "Submitted" again) and no property counts them |
| `engine` | the Approval Engine's own requests; external, from how the service uses it |
| `calls` | per worker, the call in progress: where it is, its arguments, and what it has read so far |

A worker is a goroutine on some instance. Each SQL statement or transaction and each
engine call is one step. What a call reads stays in its record until it is used, so a read
may be arbitrarily stale when it is written back. The operations share
steps as the code shares functions:

| Operation | Steps |
|---|---|
| Create | `Create`, then the registration |
| RetryPendingApprovalSync | `Retry` (the list, read once), `RetryNext` per row, the registration |
| the registration, `syncToApprovalEngine` | `RegisterAnswered` or `RegisterFailed`; `SaveEngineRef`, `SaveChain`, `LogEvent`, or `MarkSyncPending` |
| Detail | `Detail`, `ReadRow`, `ReadHistory`, `RefreshAnswered` or `RefreshFailed`, `MirrorStatus`, `SaveChain` |
| HandleEngineWebhook | `Webhook`, then as Detail; it differs when the engine's answer carries no steps |
| ApprovalAction | `Decide`, `DecideAnswered` or `DecideFailed`, `RecordDecision`, `SaveChain`, `LogEvent`, then Detail |
| SaveFulfillmentData, AdvanceFulfillment | `Save` or `Advance`, the guarded UPDATE, `LogEvent`, then Detail |

What can go wrong (`Faults`): an engine call is `refused` (not carried out) or its answer
`lost` (carried out); a `database` statement fails, with the consequence the code gives it
at that place (ignored, or the end of the call); a `crash` ends a call between any two steps
(a cancelled request context does the same, as every later statement fails with it). A
write that was applied but reported as failed is a crash after the write. An engine call that
takes effect after the client has given up is a lost answer, or an inbox decision. Read
failures after which nothing is written are stuttering.

`SaveChain` deletes and inserts in one transaction; of overlapping ones on one request the
later may fail on `UNIQUE (request_id, step_order)`, and the step allows every outcome.

The engine is external: registering is idempotent per request, a decision acts on the
current step of a pending request, an approved or rejected request is decided for good.
An approval may leave the step current (a step with several assignees). The order a
fully approved request reports is the constant `FinalOrder`, because the code
assumes nothing about it. Webhooks are not trusted for content: a delivery only names a request,
so "lost, duplicated, reordered" is: any number of deliveries at any time once the engine knows the
request.

`Legacy` requests were approved before the Processing stage existed (no fulfillment stage);
`Unmapped` ones have a category for which no `doc_type` is configured or no category code.

### FulfillmentLedger, RequestLifecycle

`FulfillmentLedger` is what the service promises about fulfillment under every overlap and
fault: the engine rules once; fulfillment starts after approval; stages go 0, 1, 2, 3; asset
data is written once, with the step that ships. `RequestLifecycle` is the status seen by one
caller at a time: forward only. `AssetRequestsProperties` gives both refinement mappings.

### AssetRequestsProperties, MCAssetRequests, AssetRequestsProofs, RequestTrailProofs, RequestQueueProofs

The properties, the inductive invariant `IInv` and the fairness; the symmetry and
model values of the instances; the proofs.

### UserAdmin

| Variable | Code |
|---|---|
| `status`, `role` | `users.status` (`""` before the account exists), `user_roles` as the set of roles of a user |
| `permissions` | `role_permissions` |
| `calls` | per worker, the call in progress and what it has read |

`Update` is `UpdateUser` up to the first statement of `GetUser`, and `AssignRoles`, which differs by
leaving `is_active` nil. `ReadRoles` is its second statement and the checks after it; `CountAdmins` is
`CountOtherActiveAdmins`; `WriteUser` the transaction that writes. That transaction locks the user's row
first and is one step. `DeletePermissions` and `ReplacePermissions` are the two halves of
`AssignPermissionsToRole`, which takes no lock of its own: what its DELETE has seen is kept in
`deleted`, and a row that overlapping transactions both delete is deleted once. `SeedMatrix` and
`SeedUsers` are the two commits of `MigrateAndSeed` that concern these tables; a start of an
instance seeds again, while others serve, when it counts fewer than 17 users or the count fails (its error is dropped). `Abandon` is a failing statement or a crash: the step that writes is always the last.

`Updaters` are the workers that may serve an update of a user; any may serve an edit of a role.

Names, addresses, passwords and uniqueness are left out, and so are custom roles: no user can
be given one (`standardRoleCodes`).

### PermissionCache

One instance's `PermissionResolver`. `Administer` stands for every write of `UserAdmin`: any change of
any account's status and permissions, so what is shown does not depend on how accounts are edited. A resolver
(a goroutine in `resolve`) reads the clock (`Resolve`), the cache (`Check`), the user by one
identifier after another (`FindUser`), the permissions (`ReadPermissions`), and stores the result (`Store`)
with an expiry counted from the start of the lookup. Identifiers are compared with three columns
at once in the code; `Bears` says which accounts may match an identifier, and a lookup may find any of them
or none, so an account that does not exist yet needs no status of its own. `lastActive` and `lastHeld`
observe the tables: when each user was last active, and last held exactly a set of permissions. They have no influence on the other variables.

### MasterData

| Variable | Code |
|---|---|
| `active` | `is_active` of `outlets`, `distributors`, `asset_types`; `""` for a row that is not there |
| `code` | `asset_types.code`, which is the category a request is made under |
| `servedBy` | `distributor_outlets`, whose primary key is the outlet |
| `requests` | of each request, what it refers to and whether it is unfinished; finishing is for good |
| `calls` | per worker, the call in progress and what it has read; `before` (the unfinished requests at its start) and `overtaken` (a row it read for a request was saved since) are history for the properties |

Each SQL statement outside a transaction is a step. `UpdateOutlet`, `UpdateDistributor` and `UpdateAssetType` read the
row; `CheckOutletMapping` is `checkOutletMapping`; `InUse` asks for unfinished requests, which
`resolveActive` does only of a row that goes from active to inactive; `Write` is the UPDATE of an outlet or a type. A
distributor is saved in a transaction of several statements: `WriteDistributor` (its row, which it locks, and the DELETE of its mapping),
`MapOutlet` for each outlet, which waits for another transaction on that outlet and which the primary key refuses if another
distributor serves it by then, rolling everything back, and `Commit`. `Create` ..
`Insert` are the registration of a request: the active distributors with their outlets, then the active outlets, then the
asset type by code, then the INSERT, each a statement. Ids are never deleted or reused.

### RequestForm, FulfillmentData, RequestDesk

`RequestForm` has the form as operators: `OfferedOutlets` (`FormOptions`), `Checks` (the checks of `validateCreate` in their order, each with
the field its error names), `Normalised` (what is stored). `FulfillmentData` has the checks on asset data. Texts are
values: trimmed, and one value for all spellings that the code compares ignoring case; only the requester's name keeps its case
(`Fold`), because `ResolveRequester` compares exactly and `standsIn` does not.

`RequestDesk` takes one request from the form to its asset data: `Create`; `Retry`; `Approved`; `SaveFulfillmentData`.

| Variable | Code |
|---|---|
| `master` | what `FormMasterData` returns |
| `row` | the stored request: ids of what it refers to, and the columns of its own |
| `joined` | what `requestSelect` and `requesterSelect` join it to now: the type's code, the names of outlet and distributor, the requester's number, name, address and the rank of the primary role |
| `sent`, `resent` | the payload of `syncToApprovalEngine` at the creation and at the last retry, each with what `joined` was then |
| `asset` | `fulfillment_data` |

`Registration` is the payload, `requesterApprovalRank` and the workflow (`DocType`) included. The creation fills it from the submission, the retry
from `row` and `joined`. In between, `UpdateAssetType`, `UpdateOutlet`, `UpdateDistributor` and `UpdateUser` change what is joined. Calls come one
after the other here; `MasterData` has the races, `AssetRequests` the rest of the request's state.

### PhoneCatalog

`name`, `active` and `brandOf` are the rows of `phone_brands` and `phone_models`; `edits` the calls in progress. `SaveBrand` and `SaveModel` are
the create and update calls up to their first write or check (`checkModelInput`), `Write` the statement with its unique
index. `Joined` is the LEFT JOIN of `loadBrands`, whose condition on the models stands in the join.

### ImeiReference

`table` is the committed `imei_reference`, `imports` the transaction of each importer: the rows left, the chunk being
written, and `written`, which nobody else sees and which is locked until `Commit` or `Rollback`. A file is a sequence of
lines by kind (blank, header, malformed, row); `Rows` are those that name a device, in their order. `Lookup` is what the form is answered.

### Router

`Routes` lists the registrations of `registerAPIRoutes` in their order; a request (`caller`, `method`, `path`) walks them by
`position`. A group's middleware matches every path under its prefix, as it does in Fiber, whichever group declared the route
served at last. `SeedPermissions` is the seeded matrix; `Badges` the sidebar.

### Sessions

One user: `facts` that hold of the account now (active, master, three permissions) and the `age` since which each
has not; `login` in progress; `token` with its remaining life and the master flag; `request` in progress between
`JWTAuth`, `Require` (one answer of the resolver for each permission asked), and `List` or `Detail`, which ask
the resolver once more. The resolver is what `PermissionCache` promises of it (`AnswersAreFresh`): an answer holds
nothing that was lost more than `TTL` before it was asked for. `MaxDelay` bounds how long a call takes.

### Dashboard, RequestCounters

`Dashboard` has a clock, requests that come in and move on, and one `page` that reads its parts in any order. A
page during which a request changed is torn, and not followed. Months and years are counted in ticks; they begin `Zone` ticks
earlier than in UTC. The clock stops before the last year the dashboard knows (`dashboardMaxYear`, 2100) is over:
`TimeAssumption`. The activity feed is left out.

`RequestCounters` extends `AssetRequestsProperties` with what is shown of its rows: `computeStatusTag`, the counter of an approver's
turns (`CountWaitingForRoles`), the units registered. `RequestCountersProofs` has its proofs.

### BackOffice, MCBackOffice, BackOfficeProofs

`RequestDesk`, `PhoneCatalog`, `ImeiReference`, `Router`, `Sessions` and `Dashboard` share no state. The variable `component`
says which of them a behaviour is of; the variables of the others hold nothing. Their states add up, they do
not multiply, and one run checks them all. `BackOffice` takes all their constants, with their assumptions as
`BackOfficeAssumption`; `MCBackOffice` gives the values; `BackOfficeProofs` proves about each part, then about all.

## 4. The runs

| Run | Instance | Shows |
|---|---|---|
| `overlap` | 1 request, 3 calls, 2 payloads, 1 approver, no faults | `EngineBacksStatus`, `StageMatchesData`, `ImplementsLedger` under any interleaving of three calls of any kind |
| `faults` | 1 request, 2 calls, 2 approvers, lost answers, failing statements, crashes | `TypeOK`, `IInv`, `HistoryIsTrue`, `ChainNeverLeads`; `ShownStepsLag`: no tag or counter speaks of a step the engine has not reached |
| `one_at_a_time` | 3 requests (mapped, unmapped, legacy), 1 call, every fault, answers with and without steps | `ImplementsLifecycle`: without overlaps the status never goes back; `AssetsAreRegistered`: the dashboard counts exactly the units whose asset data is there |
| `registration` | 2 requests, 2 calls, refused and lost engine calls, fairness | `UnsyncedIsQueued`: with a working database no request is forgotten; `QueuedIsRegistered` |
| `viewed` | 1 request, 2 calls, 2 approvers, refused and lost engine calls, fairness | `ApprovalArrives`, `RevisionIsShown`: at last, and for good |
| `late_webhook` | 1 request, 2 calls | violation: see Findings |
| `orphaned_request` | 1 request, 1 call, failing statements | violation: see Findings |
| `user_admin` | 3 accounts, 2 roles, 2 permissions, 2 calls of which one may update users | `LastAdminRemains`, `Inv`: with one update of users at a time an administrator remains; `OldPermissionsGo`: what a role had before an edit is gone after it, unless somebody else has given it again; beside overlapping edits of roles, calls that end half way, and starts that seed |
| `two_demotions` | 2 accounts, 2 calls that may both update users | violation: see Findings |
| `resolver` | 2 callers, 1 user, 2 lookups, time to live 2, clock to 3, a cache of 1 | `AnswersAreFresh`, `AnswersAreRightful`, `FullCacheIsLive`, `Inv` |
| `master_data` | 2 distributors, 2 calls, and 1 outlet, 1 asset type, 2 categories one of which the form offers and 1 request, or 2 outlets | `RefusedWhileInUse`, `RegistersSound`, under any overlap of saves and registrations; `OutletsAreNotTaken`, `SavedWhole`, statement by statement |
| `back_office`, form and asset data | any of 12 states of the master data, some 12 000 submissions, 50 sets of asset data, 6 edits of what the request refers to | `OfferedIsAccepted`, `StoredIsOffered`, `OneIdentifierPerUnit`, `RetrySendsTheSame`, `RequesterIsNamed` |
| `back_office`, phone catalogue | 2 brands, 2 models, 2 names, 2 calls | `CatalogIsWhole`: whatever was renamed, moved or hidden |
| `back_office`, IMEI reference | 3 TACs, 2 devices, 7 files, chunks of 2, 2 imports | `WholeFiles`: an import is applied as a whole or not at all |
| `back_office`, router | every caller, every route, 3 ids, two of which are also names in paths | `ServedAsDeclared`, `MatrixIsFollowed` |
| `back_office`, sessions | 2 requests, one of them the user's; time to live, expiry and delay 1 | `RoleChangesApply`, `MastersEnd`, `ShownIsTheirs` |
| `back_office`, dashboard | 2 requests, months of 2 ticks, years of 2 months, 2 years | `PageAgrees`, `EachInOneBar` |

**Bounds.** Rows do not share state and no operation reads two requests except the
retry's list, so one request suffices for the interleavings and two for the retry; `one_at_a_time` has
one of each kind. Two calls make every race between a read and a write; the third of
`overlap` makes two stale answers and one save in between. One approver
reaches both verdicts; two (in `faults`, `one_at_a_time`, `viewed`) also reach a chain that
is half approved. The model needs no bound on a counter: `current_step` is the
engine's order, at most `FinalOrder`, and the stage ends at 3. `FinalOrder` is one past the chain, the
value at which no step is current, and in `viewed` the last step, which an approval then does
not leave; the proofs hold for any. Deadlock is
checked everywhere except in `late_webhook` and `registration`, where with the few operations of those runs every
request is dealt with in the end and the service is idle, and in `back_office`, where a form is refused or recorded in the end
and a route served. Symmetry
(workers, payloads, lookups, distributors) is used in runs without liveness only.

In `user_admin` the third account is one more than a demotion and the administrator it
counts. `resolver` has a clock of one tick more than the time to live, so that entries expire while
slow lookups are under way, and two lookups, so that an older one overwrites a newer result; a
cache of one entry is full at once. Its callers carry the same employee number, but only one has no
address, and only that one may be answered with the account that bears it. `MaxTime` is the
bound on its clock; the proofs hold for any.

`user_admin` has one updater (`Updaters`) because with two its invariant is refuted (`two_demotions`); both of its calls may edit
roles, with two permissions so that two edits can differ.

In `master_data` the properties about requests speak of one row and one request, so one of each suffices, with a second distributor to take
the outlet away. The properties about distributors need two outlets, so that a save can fail between them, or a transaction wait for another in either
order, and no requests, of which they do not speak. `Bound` in `MCMasterData` lets the run have either, by the outlets `InPlay` (those there are, or that a call
names): states beyond it are not followed. Two calls make each race; the proofs hold for any number, without `Bound`. A category the form does not offer is one an asset
type may be moved to while a request is being registered under another.

In `back_office` the distributors may share outlets of one name, and two of three persons share theirs, because names are what the
form is matched by. `Counts` (0 and 2) are the units filled in: none, which is refused, and some, by each of the four reasons; every type, role, priority and
typed name is tried. `Later` has an edit of each thing a request refers to: the category becomes another one or one without a workflow, outlet and distributor
get new names, the requester another rank, or the number and the name of somebody else. Files of three rows need a second, shorter chunk; two of them name the same TACs in opposite
order. With times of 1 a permission can be lost before, between and after the steps of a call, and each age is counted until it is
too old to matter. `LastTick` 4 passes the end of a month and of a year, in the business zone first.

**Fairness.** `Scheduled`: the steps of a call in progress are weakly fair, as goroutines
are scheduled. `CronRuns`: the retry is started again and again (README of the repository:
a cron job). `RequestsAreViewed`: somebody opens the request again and again; without that,
a lost webhook is never made up for, as nothing polls the engine.
`RegistrationsAreAnswered`, `RefreshesAreAnswered`: an engine call that is tried for ever
succeeds at last; strong, because each attempt is a separate call. No run assumes that a webhook
arrives.

`viewed` has no retries: a retry of a request that is registered already caches its chain as if no
revision had been asked for, so lost answers and retries that alternate for ever can undo the shown
revision for ever. This is listed as a hazard.

## 5. What is proved

`AssetRequestsProofs` proves, for any number of requests, workers, approvers and payloads, any
`FinalOrder`, and any choice of operations and faults, from `NStepsAssumption` (a chain
has a step) and `ConstantsAssumption` (the sets named are what their names say):

- `TypesAreKept`: `Spec => []TypeOK`.
- `Invariance`: `Spec => []IInv`.
- `EngineBacksStatusAlways`, `StageMatchesDataAlways`: the two safety invariants.
- `LedgerIsImplemented`: `Spec => ImplementsLedger`.

*The argument.* `EngineBacksStatus` is not inductive: a call may write back an answer it has held for
a long time. It is preserved because of what such an answer can be. If it says "pending" it
claims nothing about approval; if it says "approved" or "rejected", the engine was
final when it gave it and still is. That is `AnswersAreTrue`, which needs that a call
in flight is well formed (`CallsAreWellFormed`: it names a request, and asks the engine only about
requests the engine has) and that a recorded engine id is one the engine gave out
(`RefIsRegistered`). `StageMatchesData` is preserved because mirroring can start a stage but
not move it, and because the two other writers carry their guard inside the UPDATE. `IInv`
is the conjunction of these.

The proof has two halves. Typing (`InitTyping`, `NextTyping`): each action keeps `TypeOK`,
`CallsAreWellFormed` and `RefIsRegistered`. Truth: `NextTruth` (final answers stay true);
`NextMoves` reduces every step's effect on the rows to one of a few moves (create, register, mark,
mirror a true answer, ship, advance), and `MovesAreSafe` shows that each move preserves
the safety invariants, `MoveImplements` that each is a step of the ledger. So
the case analysis over actions is made once.

`RequestTrailProofs`, with the same constants and assumptions:

- `TrailInvariance`: `Spec => []TrailInv`.
- `ChainNeverLeadsAlways`: `Spec => []ChainNeverLeads`.
- `HistoryIsTrueAlways`: `Spec => []HistoryIsTrue`.

*The argument.* Neither property says what the calls in flight may still write. For the chain: the engine's
current step only moves forward until the request is approved, and stays where it was rejected (`EngineAdvances`,
which needs `UnknownAreUntouched`: a request the engine does not know is at no step); so an answer, however long it
is held, lags behind the engine (`AnswersLag`), and so does the chain made of it. For the history: the entries a call
is about to write are counted with those written (`EntriesAreTrue`). A step then adds at most one entry, the one for the
stage it reached or the decision it made (`NextEntries`); writing it later adds nothing. A request is turned
down only while the engine has it pending, at which time no entry says so yet, so there is never a second.

`RequestQueueProofs`, with the same constants and assumptions:

- `UnsyncedIsQueuedAlways`: `Reliable` implies `Spec => []UnsyncedIsQueued`, where `Reliable` says that no statement
  fails and no process dies between two statements; engine calls may be refused or lost. The run `orphaned_request`
  shows that the assumption is needed.

*The argument.* The engine is asked, and its answer written down, only for requests whose id is recorded
(`MirroredAreSynced`), so mirroring takes no request out of the queue. Every other step leaves each request synced,
queued, being registered by the call that steps, or as it was (`Accounts`).

`RequestCountersProofs`, with the same constants and assumptions:

- `ShownStepsLagAlways`: `Spec => []ShownStepsLag`, for any number of overlapping calls and any faults.
- `AssetsAreRegisteredAlone`: `Alone` implies `Spec => []AssetsAreRegistered`.
- `LifecycleIsImplementedAlone`: `Alone` implies `Spec => ImplementsLifecycle`, the refinement of the status that only
  moves forward. `Alone` says that there is at most one call at a time; the run `late_webhook` shows that it is needed.

*The argument.* A tag names the row's `current_step_name`, a counter the chain. Both are written from answers that may be
old, and an old answer names a step the engine has since reached (`NamesLag`, with `ChainNeverLeads` for
the chain). Alone, no statement undoes what was written while an answer was on its way: `AloneInv` adds to `IInv`
that nothing is known of a request nobody has created (`AbsentAreUnknown`), that a call mirrors the engine only
before the fulfillment starts and its answer does not contradict the row it is about to write (`CallsAreRight`), and
that a request that has shipped is past its approval (`ShippedArePast`).

`UserAdminProofs`, for any accounts, roles, permissions and seed (`AdminAssumption`: the roles a user may be
given are roles, the seed names accounts, roles and permissions):

- `TypesAreKept`: `Spec => []TypeOK`, for any number of concurrent calls.
- `AnAdminRemains`: `Alone` implies `Spec => []LastAdminRemains`, where `Alone` says that there is
  at most one updater, of any number of calls. The run `two_demotions` shows that the assumption is needed.
- `CallsAloneAreRight`: `Alone` implies `Spec => []Inv`.
- `OldPermissionsAreGone`: `Spec => OldPermissionsGo`, for any number of concurrent calls.

*The argument.* `LastAdminRemains` does not say why a write is harmless. `CallsAreCurrent` does: a call
that is to write either keeps its user an active administrator or there is another one. The count establishes
it for a user who was one; for a user who was not, somebody else is, by `LastAdminRemains` itself. With
one updater (`OnlyUpdatersUpdate` says who may be on the way to a write), only creations, the seed and edits of roles come in between:
the first two add administrators at most, the last concern no account. For the
edits of a role the invariant is `EditsHaveNoted` (theorem `EditsAreNoted`): of what the role has now, an edit in progress will delete all but what was given
to the role since its own DELETE. Whoever commits first takes its rows out of the other's DELETE and puts what it gives into the other's history.

`PermissionCacheProofs`, for any users, permissions, callers and lookups, any time to live, size of the cache and
length of time (`CacheAssumption`: the constants have their types):

- `Invariance`: `Spec => []Inv`.
- `AnswersAreAlwaysFresh`: `Spec => []AnswersAreFresh`.
- `AnswersAreAlwaysRightful`: `Spec => []AnswersAreRightful`.
- `FullCacheIsAlwaysLive`: `Spec => FullCacheIsLive`.

*The argument.* What a lookup has found was so at its start or later (`LookupsAreFresh`), since the present is
always on record (`PresentIsObserved`) and observations only move forward; an entry expires a time to
live after such a moment (`CacheIsFresh`), whoever stored it last; and a hit compares the expiry with the
start of the lookup that reads it. An answer is rightful because the identifiers a lookup has still to try, and the
user it has found, are those of its own claims, and an entry is stored under the claims it was looked
up by. Of a full cache, the sweep in `Store` leaves no expired entry and drops no other; that the maximum speaks of
a finite set needs that the cache has finitely many entries, which is one more invariant.

`MasterDataProofs`, for any outlets, distributors, types, categories, requests and any number of concurrent calls
(`MasterDataAssumption`: kinds of rows do not mix, `None` is none of them, the form offers categories there are):

- `Invariance`: `Spec => []IInv`.
- `InUseIsNotDeactivated`: `Spec => RefusedWhileInUse`.
- `NoOutletIsTaken`: `Spec => OutletsAreNotTaken`.
- `DistributorsAreSavedWhole`: `Spec => SavedWhole`.
- `RegisteredIsSound`: `Spec => RegistersSound`.

*The argument.* A call that will deactivate a row has asked for unfinished requests after it began; a request that
was there by then can only have been finished since, and what it refers to does not change (`HasAsked`). `RefusedWhileInUse` speaks of the
row, not of the call's intent: a call that had read the row active and makes it inactive was asked to (`Deactivates`). That no
other call registers the same request anew is `Apart` with `IsForNewRequest`. What a call has read for a request
is still so when it inserts, unless the row in question was saved since (`IsCurrent`): another distributor's save cannot take the outlet
from the one chosen, and creating rows or finishing requests takes nothing away. What an open transaction has mapped, nobody else
serves (`MapsItsOwn`), and two open transactions are at different distributors and different outlets (`Apart`), so a commit changes
the mapping of its own distributor only (`OnlyCommits`), and `OutletsAreNotTaken` holds by the primary key, with or without the check before. A commit
comes when every outlet is mapped, and until then nothing of a save is there: `SavedWhole`.

`BackOfficeProofs`, for any values of the constants of `BackOffice` within `BackOfficeAssumption` (the digits of a code are
counted, names and places have their types, a file is a sequence of lines and a chunk has a row, times are numbers,
the clock ends in a year the dashboard knows):

- `OfferedIsAcceptedAlways`, `StoredIsOfferedAlways`, `OneIdentifierPerUnitAlways`, `RetrySendsTheSameAlways`, `RequesterIsNamedAlways`;
- `CatalogIsWholeAlways`; `WholeFilesAlways`;
- `ServedAsDeclaredAlways`, `MatrixIsFollowedAlways`: for any values of an id, the names of fixed paths among them;
- `RoleChangesApplyAlways`, `MastersEndAlways`, `ShownIsTheirsAlways`;
- `PageAgreesAlways`, `EachInOneBarAlways`: each `Spec => []P` for the property `P` of that name (`WholeFiles`, of steps,
  is itself the conclusion).

*The argument.* Each part is first proved about by itself (`...ByItself`):

- *Form and asset data.* The stored row is what some accepted submission leaves (`RowIsAccepted`), so what the engine is told of a submission is what it would be
  told of the row with what it is joined to at that moment (`Told`, `EngineWasTold`), and a retry tells just that, later (`RetryTold`): field by field, the two
  depend on the row, which stays, and on one thing joined (`ToldFields`). The asset data recorded was found right for the row (`AssetFits`).
  `OfferedIsAccepted` is a fact about the checks, which hold one by one of what is filled in; for Barcode, that each
  reason is named once and the units add up (`ReasonsAreValid`).
- *Phone catalogue.* The join has a row for each active brand however many of its models are shown (`AbsentAreInactive` rules
  out the rows that are not there), and the unique indexes, kept by every write (`BrandsDiffer`, `ModelsDiffer`), let no two of them show as one.
- *IMEI reference.* At any point within a file the transaction has written the file's first `n` rows and nothing else,
  and the chunk in hand is what follows them (`IsAt`). As the rows of a file that is let in are for
  different TACs (`RowsDiffer`), writing them one after the other is writing them at once, in any order and whatever
  chunks they are cut into. That `Rows` has each of them, in their order, is that counting the lines before a line is a bijection (`RankIsBijection`).
- *Router.* The lists that `registerAPIRoutes` puts one after the other are laid out as one table: at each of the 46 places, for
  which requests the registration is, what it asks for and what it does (`Places`, `Table`). Two routes are for
  the same request only at places 5 and 22 and at 11 and 14, and each time the fixed path stands first and has no parameter (`Pairs`, `FirstIsMostSpecific`).
  What a request has passed let it by (`RouterInv`), so the answer is a refusal exactly if its own route refuses or
  one of the five groups before it that stand over its path does (`Answer`); which comes down, for a
  user, to the permissions of a module (`ModuleAnswers`), and those are the roles of the matrix (`Grants`, `OpensAsInMatrix`).
- *Sessions.* What holds now has age 0 (`HeldAreYoung`), and the ages of the steps add
  up: what a login read of a master (`LoginIsRecent`), what the token says (`TokenIsRecent`), what a call was admitted
  with (`MasterIsRecent`). The permissions asked for so far were held within the time to live (`GuardsHeld`), and so was the one by which
  requests of others were shown (`OthersAreShownRightly`).
- *Dashboard.* What has been read of a page that is not torn is what would be read now (`PageIsRight`), though time has passed
  between its parts. Each tick is in one month of one year, found by the range the code computes, and none runs backwards
  (`MonthRange`, `YearRange`, `MonthOfYear`, `CalendarOrder`), so this month's bars add up to the month's tile
  (`BarsAddUp`).

Then the parts together: a behaviour of `BackOffice` is a behaviour of one part throughout (`PhonesApart`, `SessionsApart`,
`DeskApart`, `ImeisApart`, `DashboardApart`, `RoutesApart`), or never one of it, and then the property says nothing.

*Only model-checked.* The three liveness properties, `QueuedIsRegistered`, `ApprovalArrives` and `RevisionIsShown`, as liveness under
fairness is out of the prover's reach. Every safety invariant and action property that a passing run checks is also proved.

## 6. Findings

- **A late webhook drags a request back** (`late_webhook`). `HandleEngineWebhook` checks the
  row it has read, asks the engine, and then writes without a guard. Asset data saved in between
  leaves the row `FULFILLMENT` at stage 1; the late write makes it `APPROVED` at stage 1, which
  neither `SaveFulfillmentData` nor `AdvanceFulfillment` accepts, and no operation leads out of.
  The comment at `request_service.go:497-499` says that a late webhook never does this.
- **A request can be forgotten** (`orphaned_request`). When recording the engine's id, or the
  pending mark, fails, the failure is logged and ignored. The row then has no engine id and
  is not in the retry queue. The comments at `request_service.go:240-241` and `:626-629` say it is.
- **Nobody is left to administer** (`two_demotions`). `save` counts the other active administrators and
  writes later, in a transaction that does not count again. Two calls that demote the last two
  administrators both succeed. `user_service.go:27` and `user_handler.go:73` say that the last one remains.

More places where the code does something else than a comment or document says, without a run of their own:

- An update of a user without `is_active`, and every assignment of a role, writes back the status it read
  (`user_service.go:202`), so it undoes an activation or a deactivation that came in between (`pkg/domain/user_management.go:12`: nil means no change).
- An update of an outlet, a distributor or a type does the same with the flag. If it read the row inactive, and since then the row was activated and a request made
  on it, the row is deactivated without the question `master_data_service.go:42-43` speaks of. `RefusedWhileInUse` excepts just this.
- Two overlapping assignments of permissions to one role each delete what they see and insert their own, and both sets stay (`auth_handler.go:177`: "Replaces
  assigned permissions for a specific role"). What holds instead is `OldPermissionsGo`.
- Seeding again (fewer than 17 users counted, or the count failed) inserts the seeded role beside the one the account was given since:
  it then has two roles (`user_service.go:182`: "a user holds exactly one role"), and a demoted administrator is `MASTER_ADMIN` again.
  `SeedMatrix` gives a role's seeded permissions back in the same way.
- A deactivated user is answered from the cache for up to the time to live, a minute (`permission_resolver.go:31-32`: denied "at once").
- A cache that is full of live entries takes one more (`permission_resolver.go:12`: the maximum "bounds the cache").
  What holds instead is `FullCacheIsLive`.
- A deactivated asset type is still found by its code when a request is registered (`request_repository.go:313`, against
  `docs/api/asset-management-api-contract.md:1100`).
- The list's filter "Revision" selects a status no request ever has, while the tag of a request sent back says "Revision"
  (its status is `REJECTED`); `statusesForFilter` in `Dashboard` has it.

## 7. Not modelled

- The retry's order by age and its 30 s: nothing in the code keeps two requests that the engine is slow to take
  from using up every run, and nothing says it does; the model retries in any order and assumes that a call tried again and again succeeds.
- Participant synchronisation: one pass of reads and idempotent upserts to the engine, with no state of its own.
- Profiles, settings, the creation of custom roles (no user can be given one), names, addresses, passwords and their
  uniqueness; that `GetMe` looks a user up by address when the id finds nobody.
- The activity feed of the dashboard, responses, the formatting of dates and payloads, JSON and HTTP, configuration, entry
  points and the generated API documentation: presentation and wiring, no state.
- Cryptography: the webhook's HMAC, the signature of tokens, password hashes. Who passes is a guard.
- The schema statements, which are idempotent SQL, and the one-off backfill `migrations/000002`. The constraints they
  set (keys, unique indexes) are part of the modules that rely on them.
- A creation that overlaps an edit of what it refers to: in `RequestDesk` the edits come after the request is stored (`MasterData` has the overlap, without
  the payload). A deactivated category or user changes nothing there, as the joins ask for neither.
- Time, except in `PermissionCache`, `Sessions` and `Dashboard`: elsewhere a timeout is a lost or refused call.
- Which instance a worker runs on: instances share nothing but the database, and each has its own `PermissionCache`.
