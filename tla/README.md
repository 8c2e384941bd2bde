# Verification of Delfos API

TLA+ models of the NestJS server under `src/src`, the TLC configurations that
check them on small instances, and proofs, checked by TLAPS, that hold for every
instance. Line references are to the files under `src/`.

Delfos API keeps a multi-tenant catalog (connections, datasets, field mappings,
query, dashboard and report definitions, semantic models) in PostgreSQL and lets
a client register *execution requests* that name one of these definitions. A
request is checked for readiness, executed as a demonstration, or prepared as a
command for an external connector and dispatched over HTTP. One Node process
serves all calls. A handler is a sequence of awaited statements, each of which
commits by itself (no handler opens a transaction), so that handlers interleave
at every `await` and what one has read may be stale when it writes.

## 1. Inventory

| Component | State | Operations | Interacts with | What is hard |
|---|---|---|---|---|
| Execution-request lifecycle (`modules/runtime/services/execution-request*`) | tables `execution_requests`, `execution_request_events`, `audit_logs` | create, createEvent, dryRun, demoExecute | readiness (awaited), audit, preparation (which calls createEvent) | read-modify-write without a condition; four autocommitted writes per call; failure between them |
| Readiness (`execution-request-readiness.service.ts`) | none | evaluate | reads five catalog tables one row at a time | reads are not a snapshot |
| Command preparation (`connector-command-preparation.service.ts`, recorder) | none of its own | prepare | bridge resolver, dispatch port, createEvent twice | order of recording and dispatch; stale request; failure after the dispatch |
| Bridge resolver (`runtime/bridge`) | none | prepareCommand | readers, readiness, reference resolver, capability table, limits, validator | order of checks; stale reads |
| Reference resolver and readers | none | resolveReferences | catalog tables, credentials | non-snapshot reads; one source per command |
| HTTP dispatch (`runtime/dispatch`) | none | dispatch | credential broker, the connector | retries, back-off, timeouts, cut connections |
| Credentials (`modules/credentials`) | table `credentials` | create, rotate, revoke, resolveSecret | audit, dispatch | rotation and revocation race with a dispatch that has read the secret |
| Catalog services (connections, datasets, field mappings, query, dashboard and report definitions, tenants, users) | one table each | create, list, findOne (not users), update; archive or deactivate (not connections, tenants, users) | audit | unique keys; concurrent partial updates; write and audit are two statements, page and count too |
| Semantic models | table `semantic_models` | create, update, archive | audit | uniqueness of keys nested in JSON |
| Audit (`modules/audit`) | table `audit_logs` | record | everybody | last of several writes; column types |
| Administrative authentication | none | admin key and role guards | every controller | combination of headers |
| Cache (`core/cache`) | Valkey keys with a time to live | get, set, del, delByPrefix | nobody stores anything yet | boundary of the time to live; key collisions |
| Execution preview, error filter, sanitizers, configuration, health checks, seeds | none | reads and string rewriting | | nothing concurrent |

Properties that make the components correct: the timeline and the audit log never
claim what did not happen, and success implies a complete trail (lifecycle); a
command goes out only after its acceptance is recorded and the answer is the one
on the timeline (preparation); a verdict is the catalog's, and the parts of a
command belong together and to one tenant (readiness, resolver); updates do not undo
one another, keys stay apart and the audit log accounts for a status (catalog); only
secrets
that were valid during the dispatch leave the server, and a dispatch reports what
its attempts did (dispatch, credentials); no operation crosses tenants (all).

`PROJECT.json` lists each component with its sources and status, and under
"hazards" what is hard to test, at the line where it bites.

## 2. Modules

| Module | Models | Role |
|---|---|---|
| `RequestLedger` | what the three tables promise to a reader | abstract specification |
| `ExecutionLifecycle` | create, createEvent, dryRun, demoExecute statement by statement | implements `RequestLedger` |
| `ExecutionLifecycle_proofs`, `LifecycleLedger_proofs` | | theorems; the second extends the first |
| `ResolverOutcomes` | how each part of `prepareCommand` may end | tables; the seam between caller and resolver |
| `ResolverContract` | what `prepare` relies on when it calls `prepareCommand` | abstract specification, made of the tables |
| `CommandPreparation` | prepare on top of `ExecutionLifecycle` | composition; leaves open what the tables leave open |
| `CommandPreparation_proofs` | | theorems; extends `ExecutionLifecycle_proofs` |
| `Readiness` | the readiness walk over a catalog that is edited | component |
| `Readiness_proofs` | | lemmas on lists and on the walk, for any catalog |
| `ReferenceResolver` | the resolution of references, and the readers | extends `Readiness` |
| `BridgeResolver` | prepareCommand, from its first read to the command | composition; implements `ResolverContract` |
| `BridgeResolver_proofs` | | theorems; extends `Readiness_proofs` |
| `Credentials` | the credential store and its audit | component |
| `CredentialDispatch` | broker and HTTP dispatch on top of `Credentials` | composition |
| `CredentialDispatch_proofs` | | theorems |
| `AdminAuth` | the guards and the headers they read | operators |
| `CatalogTable` | what all catalog services have in common | base of the next nine |
| `TenantDirectory`, `Users`, `Connections`, `Datasets`, `FieldMappings`, `QueryDefinitions`, `DashboardDefinitions`, `ReportDefinitions`, `SemanticModels` | one service each with its table | components |
| `Catalog` | calls on all nine at once, and their properties | composition |
| `Catalog_proofs`, `CatalogHistory_proofs` | | theorems; the second extends the first |
| `MC*` | values of the constants for TLC | |

An operator whose comment begins with "Defect:" is not part of a model: it is a
plausible mistake, kept next to the definition it would replace, against which a
property was tried.

### Conventions

- An action is one awaited statement together with the synchronous code up to the
  next `await`. `pc`, `wpc`, `dpc` and `stage` name the statement a call will
  issue next.
- Identifiers made by `gen_random_uuid()` are the name of the call that creates the
  row: `Requests == Calls`, `Credentials == Writers`; in the catalog it is the row's
  position in its table. An operation may name an
  identifier that does not exist yet; the lookup then finds nothing, like one with
  an unknown or malformed identifier.
- A failure (`Abort`, `FailWrite`, `FailRead`) leaves what was committed. It stands
  for a statement that raises and for a server that dies: nothing resumes a call
  after a restart, so both end it the same way.
- History variables (`replaced`, `held`, `orderly`, `live`, `wire`, `initial`,
  `repointed`, `found`, `failed`, and of a catalog call `before`) record what happened
  for the properties. No guard reads them (`initial` chooses the bound `MaxEdits`).

### ExecutionLifecycle

`requests`, `timeline` and `audit` are the three tables. `seen` and `next` are the
handler's local `executionRequest` and `nextStatus`/`recommendedStatus`.
`ReceiveCreate`, `ReceiveEvent`, `ReceiveReadiness` are the arrivals with the
refusals that precede every statement. `InsertRequest`, `InsertInitialEvent`,
`AuditCreated` are `create`; `FindForEvent`, `RejectAfterFind`, `UpdateStatus`,
`InsertEvent`, `AuditEvent`, `AuditStatusChanged` are `createEvent`;
`FindForReadiness`, `EvaluateReadiness`, `AuditOperation` are what dryRun and
demoExecute add. The timeline is in the order of its INSERT statements, `revision`
stands for `updated_at`. The readiness verdict is a free choice here, since it
depends on a catalog that other calls edit.

`RecordAudit` has the one data-dependent failure: `toAuditActorUserId` forwards an
actor identifier only when it has 24 hexadecimal digits, and the column is a uuid.

`RequestLedger` hides the calls: a status, a set of recorded transitions and a set of
attestations, with actions to register a request, overwrite a status, record a transition and
attest to one that is recorded. `ImplementsLedger` is the refinement.

### CommandPreparation and its seam with the resolver

Extends the lifecycle: each preparation owns two calls of the lifecycle, one per
recording, and `StartRecording` puts the recorder's input into the call; from there
it runs as any createEvent does, interleaved with everything else. `ReadRequest`,
`JudgeReadiness` and `ResolveReferences` are the awaits of `prepareCommand`, with the
outcome of the last two a free choice; `AfterOutcome`, `Dispatch`,
`AfterDispatch`, `Throw` are `prepare`. The service has no controller: it is
exported for other modules, so "a caller" is any of these.

The seam between this module and `BridgeResolver` is `ResolverOutcomes`: with which
statuses each part of `prepareCommand` may end the call, and from which parts an
exception comes. `ResolverContract` is the specification that these tables make, and
`BridgeResolver` implements it (`KeepsContract`). `CommandPreparation` takes its choices
from the same tables, every one that they allow at the part in question; only
whether the request is found it takes from its own table, the one the resolver reads.
So it can meet whatever the contract allows, by its definition and not by a
property, and what is shown of prepare holds with the bridge in place.

### Credentials and CredentialDispatch

The values that clients provide come from the set `Secrets`. Nothing in
`CreateCredentialDto` or `RotateCredentialDto` refuses a value that was used before, so
the same one may come back, after a revocation too. `WriteInputs` is what the calls
may ask for. Encryption is left out, its failure is `FailToResolve`.
`Resolve` is the broker's lookup, `Post`, `EndAttempt`, `Wake` the loop of `send`, and
`CloseInsideResponse` the peer that breaks the connection after the response head.
`live` collects what a lookup would have found active since the dispatch was called.

### Readiness, ReferenceResolver and BridgeResolver

In `Readiness`, `todo` holds the reads still to be made, `Continue` is the
accumulator. An edit of the catalog may happen between any two reads; `Admissible` is
what the constraints of the tables let it store. Three branches are left out because
no stored row takes them (see the module). Only the codes of blockers and warnings are
kept. What a loop or a `Set` collects from lists (the reads of a dashboard's widgets, the
lists of merged bundles) is defined by position: the places of the lists, in order, or
those where a value stands for the first time (`Joined`, `Unique`).

In `ReferenceResolver`, `pending` holds the reads still to be made, with a `merge` task
where `resolveAndMergePartials` comes back from its loop; `chain` is what
`resolveDatasetChain` has in hand, `partials` the bundles. Each adapter is an operator
(`QueryReader`, ...) whose answer may be empty although the row is there: the adapters
catch what a statement raises and answer as if there was nothing. `failed` remembers it.

`BridgeResolver` runs both over one catalog and builds the command. Facts about the code
that the model makes visible:

- A connection with `auth_type` other than `none` always blocks the command
  (`credential_ref_missing`): `ConnectionsService` leaves the reference out of its
  response, so that the credential reader is never reached.
- `capability_not_supported` is never the outcome: the capability table has an
  entry for every definition and mode.
- Foreign keys do not name the tenant. A dataset may hold another tenant's
  connection; the reader that resolves it refuses it.
- The dashboard and the report that a request carries without asking for them are
  copied into the command unread.

### The catalog

`CatalogTable` has the handlers' common form: guards (`AdminAuth`) and validation
(`Refuse`, `Received`), one statement (`Insert`, `UpdateRow`, `SelectRow`) with what
PostgreSQL may find wrong with it (`Violation`), the audit entry as a second statement
(`RecordAudit`), and for a listing the page and the total in any order
(`SelectPage`, `CountRows`). A statement may fail before it takes effect
(`Unavailable`), or take effect without its reply (`Written`, `RecordAudit`);
`Restart` cuts every call in progress short. Each entity's module gives its DTO,
routes, table (defaults, NOT NULL, uuid columns, unique and foreign keys) and the
handlers that differ: tenants, users, connections and field mappings do not turn a
unique violation into a conflict, an archived row is `inactive` in field mappings, tenants and users
have no archive and no audit, and semantic models check nested keys first. Columns
that no constraint, filter or status looks at are one column, `body`.

## 3. Runs

| Run | Question | Instance |
|---|---|---|
| `lifecycle` | what row, timeline and audit say of each other; refinement of the ledger | 3 calls, 1 tenant, any call cut short anywhere |
| `lifecycle_tenants` | what is read, overwritten, recorded and audited is the caller's tenant's; every call ends | 2 calls, 2 tenants, both actor shapes |
| `lifecycle_newest_event` (violation) | does the newest event define the status? | 3 calls |
| `lifecycle_transitions_audited` (violation) | is every transition audited? | 2 calls, both actor shapes |
| `preparation` | when a command goes out; what is recorded and answered; every preparation ends or waits for its connector | 2 preparations, 5 calls, 2 tenants |
| `preparation_unrecorded` (violation) | is every outcome recorded? | 1 preparation |
| `preparation_any_status` (violation) | is the status of the request checked? | 1 preparation, 2 calls |
| `bridge` | the verdict and the command are the catalog's; what concurrent edits cannot spoil; the contract is kept; it ends | about 5,500 catalogs that nobody edits, a few edited twice, each for 4 definitions |
| `bridge_inactive` (violation) | does a definition that is not active block the command? | the catalogs `Chains` |
| `dispatch` | which secrets are sent; what is reported; which call a stored credential goes back to; every dispatch settles unless its peer closes inside a response | 3 writers, 1 dispatch, 2 tenants, 2 secrets, 1 retry |
| `dispatch_hangs` (violation) | and if the peer closes inside a response? | 1 dispatch |
| `catalog` | what two interleaved calls, failures and a restart leave of rows, keys, tenants, listings and audit | 2 calls on any one of 9 tables, 2 tenants, 1 restart |

Why these bounds are enough to be interesting: three calls are the fewest in which a
request is created and two others interleave on it; the violations of the lifecycle
appear with exactly these. Three writers are a creation and two rotations or
revocations of the same credential in either order: the shortest way to activate again
what was revoked, with the value it had or another, and to let the two entries come in
another order than the two statements. One retry shows every pair of attempt outcomes; the code treats all earlier attempts alike,
and no retry at all is covered by the theorem `ResultsAreEarned`. Two
preparations may both find the request accepted and both dispatch.

The catalogs of `bridge` come in families (`MCBridgeResolver`): `Chains` puts each kind
of row of either tenant in each of its states at each place from a query to a mapping;
`Boards` and `Reports` every list of up to two widgets or blocks over queries that are
missing, good or without mappings, so that an element is skipped before, after or
between others; `TwoSources` two queries with one source, two, or none, with more
mappings of a key than `MappingPage`, which stands for the page of 1000;
`Growing` begins with links missing and is edited while the call runs. Two edits are
needed to make a definition ready and then change it, or to change a row that was read
and one that was not. `MaxEdits` depends on the catalog, for edits multiply with the
number of catalogs.

In `catalog` two calls are enough for every race between two statements: handlers
share nothing but rows, and a third call sees what two left. One of the two rows each table
begins with belongs to each tenant; `MCRequests` has a request for every kind
of identifier (own, foreign, missing, malformed), of body (complete, incomplete,
unknown column, null) and of parent. `PageSize` is 1, so that the second page exists;
`MaxRows` is not reached by two creations. `MaxTables` keeps the calls of a behaviour on one
table, since statements on two tables meet only in foreign keys, and parents are never
removed.

Deadlock is not checked: every call, writer, dispatch and preparation happens once
and a behaviour may stop when all are done. Symmetry is used in runs without
liveness properties only.

### Properties worth knowing

- `EventsReportHeldStatuses`, `PreviousStatusTruthful`, `OrderlyTimeline`: what is
  left of the timeline's truth under interleaving. It never reports a status the
  request did not have; `previousStatus` is right unless an UPDATE slipped in
  between; without overlap the timeline is the history.
- `StatusExplained`: a status without an event has an identified culprit, a call
  that is on its way to its event or was cut short before it.
- `AuditFollowsEvent`, `SuccessLeavesTrail`: the audit log trails the timeline, and
  an answered call left all of its entries.
- `DispatchFollowsAcceptance`, `AnswerOnTimeline`, `PreparationStaysInTenant`.
- `OnlyLiveSecretsSent`: retries may send a secret revoked *during* the dispatch (the
  body is built once), never one revoked before it.
- `RowsAccountedFor`: rotation and revocation overwrite one another, and a rotation
  activates what was revoked; whatever they leave is as one call left it. That call
  has its audit entry or was not answered with success.
- `ResultMatchesAttempts`, `CredentialAuditTruthful`, `DispatchesSettle`.
- `WalkMatchesCatalog` compares the walk with a definition that looks at the whole
  catalog at once; `GrowthDoesNotMislead` says that creations and status changes
  alone cannot make it wrong. Nothing of the kind holds when an update repoints a
  reference: the walk may then find ready a catalog that never existed.
- `ResolutionMatchesCatalog`: left alone, the bridge prepares a command exactly if the
  definition is ready and all queries it reaches, at whatever depth, have one open
  connection in common, and resolves each of them once.
- `CommandStaysInTenant` holds under all edits; `PartsBelongTogether` and
  `ReadyStaysReady` as long as no reference is changed. A failed read is told as a
  missing definition, which is why the last one excludes failures.
- `KeepsContract`: the resolver's half of the seam (above). A read that fails while
  references are resolved gives a blocked result, one before them an exception.
- `TenantIsolation`: of reads, overwritten rows, events and audit entries alike.
- `UpdatesSurvive`: two updates of a row do not undo one another, because each
  writes only the columns it was given.
- `AuditExplainsStatus`: a status without an entry belongs to a call that was not
  answered "ok". An answered call has its entry; a failed one may have changed the
  row all the same.
- `RacesForKeysSettle`: keys stay apart whichever creations and renamings meet,
  and a conflict that is reported is one.
- `AnswersStayInTenant`, `NestedKeysUnique`.
- `ListingsAddUp`: each half of a listing is of some moment of the call. That both are of
  one moment does not hold.

### Fairness

`FairSpec` is weak fairness of each call's next step once the call was received, of
each preparation's and dispatch's next step, and of `prepareCommand`'s. The code
justifies it: Node's event loop runs every settled promise, a statement is answered
or fails, a timer fires, and the transport's socket timeout ends an attempt that is
not answered. Weak fairness suffices because no other actor disables a call's
own next step, with one exception below. Arrivals, failures, edits and writers are
not fair: nobody has to call.

The exception is a peer that closes the connection inside a response: the code then has
neither a listener nor a timer left, and the promise of the dispatch never settles.
`CloseInsideResponse` is possible at every attempt and owed at none, so
`DispatchesSettle` allows for a dispatch it has cut off, and `dispatch_hangs` shows
what follows. For the same reason a preparation's `Dispatch` (the return of the awaited
dispatch) is not owed either: `PreparationEnds` says that a preparation comes to its end
or waits for its connector.

### Disagreements found

1. Two interleaved writers leave a status that the newest event contradicts
   (`execution-request-events.service.ts:87`, against
   `docs/api-foundation-contracts.md:310`).
2. An actor identifier of 24 hexadecimal digits makes every audit INSERT an error, after
   status and event are stored (`execution-request-audit.service.ts:129`, against
   ADR-0018).
3. A connection closed inside a response leaves the dispatch pending for ever
   (`connector-dispatch-transport.ts:71`, against ADR-0038).
4. The outcome `execution_request_not_found` can be neither recorded nor returned
   (`connector-command-preparation.service.ts:79`, against its own comment).
5. The status of a request is not validated before preparing it
   (`runtime-connector-bridge-resolver.ts:84`, against the design document).
6. A query, dataset or mapping that is not active does not block the command
   (`runtime-connector-reference-partial-resolver.ts:50`, against
   `docs/runtime-reference-reader-adapters-design.md:519`): the resolution never
   looks at the status, and readiness makes a warning of it. The document says the same
   of dashboards, reports and connections, whose status the resolution does not read
   either; of these the model keeps no status.

## 4. Proofs

TLAPS checks every leaf. The theorems hold for any number of calls, preparations,
writers, dispatches, tenants, requests, rows, restarts and retries. They stand on the
named assumptions on the constants alone:

| Assumption | Why the code justifies it |
|---|---|
| `NoneAssumption`, `AbsentAssumption`, `ReportedAssumption`, `CodesAssumption`, `NoneNotWriter`, part of `CatalogConstants` | the absent value is none of the values it stands beside (JavaScript's `null` and `undefined`) |
| `EventInputsAssumption`, `ActorShapesAssumption`, `AbortableAssumption`, `ReportsAssumption`, `WriteInputsAssumption` | inputs pass their DTO; the constants only choose which are tried |
| `RecordingsAssumption` | each recording is a call of its own |
| `MaxRetriesAssumption`, `PageSize \in Nat \ {0}` | the configuration schema, `PaginationQueryDto` |
| `TablesAssumption`, `InitialRowsAssumption` | rows there at the start obey the columns, constraints and service checks under which they were stored (`WellKept`) |
| `RequestsAssumption` | a write has a body, and `PaginationQueryDto` lets no page below 1 through |
| `CatalogsAssumption`, `EditsAssumption`, `WidgetsAssumption`, `BlocksAssumption` | a stored row has the columns of its table, each of its type; widgets and blocks are lists |
| `MappingsAssumption` | mappings are finitely many, in the order of their creation, and a page of them is not empty |
| `AbsenceAssumption` | the absent value is no identifier and no row |
| `MaxEditsAssumption` | a bound is a number |

### Execution requests

A lemma shows that each invariant survives a *move* of a call (`Moves`: an arrival with
any input, a statement, an abort), whoever makes it; so the lemmas serve both
`Spec` and the recordings of `CommandPreparation`.

- `TypeCorrect`: `TypeOK` is not inductive, because what an event or
  entry is built from depends on how far the call has come. `Base == TypeOK /\ ControlOK`
  is: `ControlOK` ties `pc` to the operation, the row held and the status resolved.
- `EventsReportHeld`: `HeldOK` adds that the stored status, the status a call has
  read, and (once its UPDATE is behind it) the one it resolved are among those the
  request has held.
- `AuditFollowsTimeline`, `SuccessIsAudited`: `TrailOK` says that each event is the one
  its call had to record and that every call past recording did; `AuditOK`
  the same of audit entries, stage by stage. A call that failed is past everything and
  owes nothing, which is why neither property holds by `pc` alone.
- `TenantsStayApart`: `TenantOK`. A row is of the tenant of the call it is named after,
  and a call that has found a row is of the row's tenant *now*, not only when it looked;
  entries follow from the events they are about (`AuditFollowsEvent`).
- `PreviousStatusHolds`: `RevisionOK`. A row with the revision a call has read has the
  status it has read.
- `StoredStatusExplained`: `ExplainedOK` names the call that wrote the status.
- `TimelineIsHistory`: `OrderOK` is a case distinction on the one call that serves the
  request: between its UPDATE and its INSERT the timeline ends in the status
  that was overwritten, and in the stored one at every other time.
- `LedgerImplemented`: one lemma for each action of `RequestLedger` shows which statement
  is that action (`InsertRegisters`, `UpdateSets`, `AppendRecords`, `AuditAttests`); all
  other statements stutter. `FreshOK` is needed to show that an INSERT registers a request
  that never had a status.

### Preparation and the seam

- `PreparationTypeCorrect`, `AcceptanceBeforeDispatch`, `AnswerIsOnTimeline`,
  `PreparationInTenant`, from `Prepared`: the lifecycle's invariants, `PreparationsOK`
  (how far a preparation has come fixes the calls it has made, what was put into them
  and that they ended well before it went on), `ResolvedOK` (an event call
  resolves the status its input names) and `PlacesOK` (the event of the
  dispatch stands after that of the outcome). Clients act between any two statements.
- `BridgeImplementsContract` is the seam: each step of `BridgeResolver` is one that the
  tables of `ResolverOutcomes` allow, or none that its caller could see. That
  `CommandPreparation` meets all they allow needs no proof: it is defined by them.

### Readiness and the bridge

These hold for any catalog, with lists of any length, and for any edits. Nothing is
proved by induction over a list: `Joined` and `Unique` are defined by position, so that what
they return (which elements, how many, in which order) follows from counting the
places before a place (`JoinedList`, `UniqueList` in `Readiness_proofs`). Nor is one needed
over the depth of a definition, for a report refers to dashboards, a dashboard to
queries, and no definition to one of its own kind.

- `WalkFindsTheCatalog`, `WalkSurvivesGrowth`, from `WalkInv`. While nobody edits,
  what was found so far, with all that can be found from the reads in `todo`, is what
  can be found from the definition asked for. While no reference is changed, the catalog
  has only grown (`Grew`): a walk that began where nothing blocks keeps to such reads; and
  reads in `todo` from which nothing blocks, in a catalog grown further, mean that
  nothing blocks there from the definition asked for.
- The other theorems come from `BridgeInv`, which sees the resolution as a stack machine:
  `pending` is the program that is left, `partials` the stack. A *plan* (`Plan`) says
  which definitions the bundles on the stack stand for before and after each
  piece of work (a read pushes one, a `merge` replaces those of its owner's references
  by the owner), and ends with the one that was asked for. The bundles there are now stand
  for the beginning of a plan (`Stands`): each describes its definition (`Describes`), by
  rows that are the tenant's under all edits, that belong together while no reference
  is changed, and that are all of the catalog's while nothing is edited. So a command is
  built when the program is empty from the one bundle that describes what was asked for.
  `Justified` and `PendingInv` say the same of the reads to come and of the chain in hand.
- `BridgeTypesHold` needs all of it: that `partials[1]` exists when a command is
  built, and has a query and a mapping, is what the plan says.
- `CommandsStayInTenant`, `CommandPartsFit`: the three levels of `Describes`.
- `ReadinessIsNotLost`: what the evaluation left clear stays clear (`Clear`) in a catalog
  that grows, so only a source, which the evaluation does not look at, can be missing.
- `ResolutionFindsTheCatalog`: with the walk's theorem, both directions. A merge that
  fails has two bundles with two connections, which are two of the definition's sources
  (`SeveralSources`); one that succeeds leaves a single source (`OneUsableSource`).

### Credentials and dispatch

From `DispatchInv`:

- `TypeCorrect`, including that no dispatch makes more than `MaxRetries + 1` attempts.
- `SentSecretsWereLive`: a dispatch about to look up has in `live` all that its lookup can find
  (`DispatchControl`), so what gets into a body (`BodiesLive`) and onto the wire was
  live.
- `RowsHaveTheirCall`: `StoreInv` carries `RowsAccountedFor` itself, and `WriteControl`
  says what the call that stored a row was asked for and what its statement returned.
- `AuditIsTruthful`: `WriteControl` ties the row returned to the operation.
- `ResultsAreEarned`: `Answered` adds that a dispatch that has not returned has seen only
  ends after which `send` goes on.

### The catalog

The actions of the nine services share six effects: a call is declined, is shown a
row, stores a row, begins a listing, advances one, or records its audit entry
(`Declined`, `Shown`, `Stored`, `Lists`, `Advances`, `Records`). The statement lemmas
(`InsertEffect`, `UpdateEffect`, ...) show that what PostgreSQL may find wrong
(`Violation`) is exactly what keeps a stored row in order; one lemma per service then shows
that its handlers have these effects (`CallEffect`). An invariant is proved once per
effect.

- `CatalogKept`: `Typed`, the inductive invariant. It has the constraints of the tables
  (`WellKept`) and says that a call's identifier and items are rows.
- `CatalogTypeCorrect`, `ModelsKeepKeysUnique`: from `Typed`. An update of a
  semantic model checks only the lists it carries, and `Typed` knows the others.
- `CatalogStaysInTenant`: inductive with `Typed`, because no statement writes the column
  `tenant` of a row there is.
- `ConflictsAreReal`: `ConflictsOK`. A key somebody lost to stays taken until its
  row is renamed, and the writer who does so stays known.
- `StatusIsAccountedFor`: inductive with `Typed`.
- `ConcurrentUpdatesSurvive`: `BeginningKept` and `WritesOK`: a column keeps
  what was stored in it or has another writer.
- `ListingsTellTheTruth`, of listings without a filter (the tenant aside): `ListingsOK` bounds each half that has come in so far. It rests
  on counting: the `n` lowest positions of a set of `n` or more are `n`
  (`RanksCount`), so a page is as full as `Fill` says (`PageFills`) and never less full
  of more rows (`FillGrows`).

### Only model-checked

- Liveness (`EveryCallEnds`, `DispatchesSettle`, `PreparationEnds`, `BridgeEnds`):
  fairness and ENABLED are beyond TLAPS.

Every other property of a passing run is stated by a theorem.

## 5. Plan

The modules are complete for the parts that keep state. What is left:

1. More of the abstract seam: a refinement between the catalog's services and the rows
   that `Readiness` reads (its `Edit` is what the services can store).
2. The listings of requests, events and credentials, as instances of the catalog's.

## 6. Not modelled

- String rewriting: sanitizers, error filter, response formatting, the limits of a
  command (no caller passes other than the built-in ones) and of a text's length.
- The execution preview reads one definition and formats fictitious rows; health
  checks and configuration keep no state; encryption is external to what is shown.
- The cache: nothing in the program stores or reads a value in it, so there is no
  caller whose behaviour could be right or wrong.
- The credential safe lookup adapter: no provider uses it.
- The listings of requests, events, credentials and audit entries. They have the form of
  the catalog's listings.
- The seeds, and the migrations other than as the tables they leave.
- External: what a connector does with a command, PostgreSQL beyond atomic statements
  and constraints, Node's HTTP client.

The components `not_modelled` and `partly` in `PROJECT.json` say which part is missing.
