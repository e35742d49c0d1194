# NetOps Copilot: TLA+ verification project

NetOps Copilot keeps a tenant-scoped record of network incidents ("cases"). A
case moves through a fixed state graph from `new` to `learned`; a model may never
move it, and past `fix_proposed` it moves only on a human approval. This
directory models the parts of the system that carry that promise, checks them
with TLC on small instances, and proves the central results with TLAPS for all
values of the constants.

Paths below are relative to `src/`; `api/` stands for
`services/api/netops_api/`, `worker/` for `services/worker/netops_worker/`.

## Inventory

| Component | State | Operations | Interacts with | What makes it correct |
|---|---|---|---|---|
| Transition rules, `api/domain/cases.py` | none (pure) | `apply_transition` | called by `CaseService` | the history of a case replays to its state; approvals are human |
| Case persistence, `api/application/cases.py` and migration `20260715_02` | `cases`, `case_inputs`, `case_transitions`, `case_events`, `outbox_events`, `audit_events` | create, detail, snapshot, compare-and-swap transition, list | PostgreSQL | racing requests lose no update; one case per idempotency key; every commit leaves its full record; paging skips no case that stays put, and ends |
| Case routes, `api/api/cases.py` | none | POST/GET `/v1/cases`, transitions, resolution, feedback | persistence, principal | an acknowledgement is durable; replays are of the same request |
| Request transaction, `api/core/database.py`, `tenant_context.py`, `dependencies.py` | one transaction per request | begin, commit, roll back | all routes | all or nothing; ends before the reply |
| Outbox and inbox, `api/application/outbox.py` | delivery columns of `outbox_events`, `consumer_inbox` | lease, mark published, schedule retry, record once | publisher | one receipt per event, acknowledged only after it |
| Publisher, `worker/outbox_publisher.py`, `outbox_transport.py` | a batch in memory | sweep | outbox, inbox | leases lost or expired do no harm; everything is published in the end |
| Event feed, `api/application/event_feed.py`, `api/api/events.py` | none | `read_after` | reads `case_events` | order, no duplicates, no gaps |
| Event relay and listener, `apps/web/app/api/events/route.ts`, `cases/queue-events.tsx` | `Last-Event-ID` | reconnect, refresh | feed | resumes where it stopped |
| Worker lifecycle, `worker/main.py`, `health.py` | readiness, stop event | start, stop, fail | publisher, Temporal | no sweep outlives its process; a failing publisher ends it and shows in the exit; a signal always ends it |
| Artifact intents, `api/application/artifact_intents.py` | `artifact_upload_intents`, `artifacts` | create, complete | object store, outbox | an artifact exists once and only after verification |
| Artifact ledger, `api/application/artifact_processing.py`, `worker/artifact_processing*.py` | `artifact_processing_events` | record outcome, process | scanner, redactor | no release without a clean scan |
| Rate limiter, `api/core/rate_limit.py` | windows per key | check | middleware | a bounded burst around the end of a window; `Retry-After` is long enough |
| Authentication, `api/core/auth.py` | signing-key cache | verify | identity provider | rotations are followed at once, but for a download that breaks off; withdrawn keys expire; everyone who waits for the cache is answered |
| Web session, `apps/web/lib/auth/session.ts` | sealed cookies | sign in, sign out | identity provider | the cookie opens only under the server's key |
| Intake form, `apps/web/app/cases/new/` | the idempotency key of the form | submit, edit, reopen | case routes | one case per intended case, whatever replies are lost |
| Configuration analysis, `api/parsers/`, `api/validators/`, `api/ingestion/` | none (pure) | parse, validate, redact | preview route | it is known which secrets are replaced and which stay; settings are attributed to the right block; line numbers of the redacted text are good as evidence up to a line that is joined to another; a verdict names the lines that decide |

The hard behaviours are: concurrent transactions at READ COMMITTED that read,
decide and write in different statements; replies lost after a commit and
retried; leases that expire under a slow publisher; crashes between hand-off and
acknowledgement; events whose commit order differs from their time stamps;
readers whose scope changes; a row lock held during a call to the object store;
workers that decide on the snapshot from before their wait for a lock, and stamp rows by clocks of their own; a sort key that
changes between two pages; a signal, a failure and a sweep that end a process together; a
key cache whose lock is held during a download; and a form that is edited while its
reply is on the way. `PROJECT.json` lists them as hazards, each with the
properties that would catch it.

## Modules

| Module | Models | Extended or instantiated by |
|---|---|---|
| `CaseDomain` | `domain/cases.py`, and the CHECKs and the deferred trigger of the migration | `CaseLifecycle`, `CaseSpine` |
| `CaseLifecycle` | abstract: a case changes only by one atomic accepted transition at a time | refined by `CaseSpine`, extended by `CaseQueue` |
| `CaseSpine` | routes and persistence under concurrent requests | `MCCaseSpine`, `CaseIntake` |
| `CaseIntake` | the intake form composed with the spine | `MCCaseIntake` |
| `CaseQueue` | the paged case list beside the lifecycle | `MCCaseQueue` |
| `OutboxContract` | abstract: received at most once, acknowledged after receipt | refined by `OutboxDelivery` |
| `OutboxDelivery` | outbox, inbox and publishers | `MCOutbox`, `WorkerProcess` |
| `WorkerProcess` | `run_worker`: the process that the publisher runs in | `WorkerProcess.cfg` |
| `EventFeed` | the feed, the relay and one EventSource | `MCEventFeed` |
| `ArtifactIntents` | upload intents, their completion, and the object store | `ArtifactIntents.cfg`, `ArtifactActor.cfg` |
| `ArtifactLedger` | scan, redaction and the processing ledger of one artifact | `ArtifactLedger.cfg` |
| `ApiEdge` | rate limiter, and token verification with the cache of signing keys | `MCApiEdge` |
| `ConfigRedaction`, `IpsecLifetimes` | redactor, parser and validator as operators on lines | `ConfigAnalysis` |
| `ConfigAnalysis` | two texts read line by line, and reference definitions over the whole text | `MCConfigAnalysis` |
| `CaseDomainProofs`, `CaseLifecycleProofs` (lifecycle and case list), `CaseSpineProofs` (spine and intake), `OutboxProofs` (delivery and process), `EventFeedProofs`, `ArtifactIntentsProofs`, `IngestionProofs` (ledger and configurations), `ApiEdgeProofs` | theorems | |

**CaseSpine.** A request slot walks through the statements of one transaction
(`pc`). The tables are variables that change only in the commit steps; what a
transaction has written but not committed shows only as the lock it holds
(`KeyLocked`, `RowLocked`). A create request goes `insert` → `inserted` or
`replay`; a read goes `detail` → `timeline`; a transition goes `detail` →
`snapshot` → `update` → `written`. `CommitCreate` and `CommitTransition` contain
every row the savepoint writes. The body of a create request is an asset, a title and an input, the last
standing for the `case_inputs` row it may carry; `RequestSha256` is the triple, because the fingerprint covers
every field. `CreateAnswered` compares the row and its inputs with the body itself, never with the fingerprint, so that a field
left out of the fingerprint is found. `RecordComplete` compares events, outbox, audit trail and inputs with the creations and transitions they
belong to, as equations: nothing is missing and nothing is there besides. `Abort` is a database error or the death of the
process at any point; a commit may also succeed and still be answered 503. The
pinned FastAPI release closes the dependency that commits before the response is
sent, so the reply comes after the end of the transaction. Actors of the API
are human (`_actor_from_principal`); services and models occur in `CaseLifecycle`.
The evidence fields of a command are the set of those supplied and not blank.
The timeline that a transition request also reads through `get_detail` is unused
and left out. Operators whose comment begins with "Mutant" are faulty variants,
kept to show that the properties can fail; no specification uses them.

**CaseIntake.** The form as variables of the browser (`key`, `submitted`, `fields`, `pending`,
`shown`), and every statement of the spine beside it. A submission becomes a request of
the spine; `LoseConnection` breaks either hop of the way, and the request goes on without a
listener. Editing while the reply is on the way is an action of its own, because the
fields stay enabled. `intent`, `owner` and `made` are history: which case the user means, which one a
request was sent for, and which one a row was created for. Other clients create under other
keys and move cases at the same time. The rules of `requestFrom` are one choice between
sent and refused. Without its script the form posts directly, and the redirect mounts it
anew with a new key (`route.ts`); that path has no retry to be safe and is left out.

**CaseQueue.** One reader follows `next_cursor`, may reload the page it is on (the refresh that an
event triggers) and may start again with another filter, while cases are created and moved. Every
move stamps `updated_at` with a clock reading that need not be later than the others.
`ORDER BY` and the row comparison of the `WHERE` clause are two definitions, as they are two
places in the statement.

**OutboxDelivery.** Time is relative: `due` is `available_at` minus the clock,
`age` the clock minus `locked_at`, and `Tick` shifts both, which keeps the state
space finite without stopping the clock. `lag` is how old the reading `leased_at` is
when the lease statement runs and commits. Stale readings and delays of any
length up to the bounds are possible in every step; publishers share one clock
otherwise. `SKIP LOCKED` skips rows of uncommitted leases and may or may not
skip a row that is being settled. A database error outside the transport ends the
process, as in `_wait_for_stop_or_publisher_failure`, and is a `Crash`.

**WorkerProcess.** `run_worker` from the connection to the exit around the publisher of
`OutboxDelivery`: connection, probe, first sweep, readiness, the task that sweeps, the wait for a
signal or a failure, the drain in the `finally` block, the exit status and the next start. The stop
event is not looked at before readiness, as in the code. A sweep that fails after the signal is
suppressed (`contextlib.suppress`), so that the process exits with 0 and leaves its rows leased; they
are delivered when the lease expires, which `EventuallyPublished` includes. A worker that is
configured without a publisher only waits for its signal and is left out.

**EventFeed.** Writers stamp `occurred_at`, then commit or abort later. The
reader's page is a set ordered by (`occurred_at`, id); `late` is a history variable
that remembers which events committed behind a page already read. An API error
is an empty stream for the browser, so a refused cursor is a `Connect` that is not
enabled.

**ArtifactIntents.** A completion goes `load` → `replay`, or `load` → `head` → `insert`;
from the second label on it holds the row lock of the intent (`Locked`), so the lock is
held during the HEAD request. `asof` is the clock as the route read it, before the
wait. `CommitComplete` stands for all rows of the savepoint: artifact, quarantined
ledger row, case event, outbox row, the mark on the intent and the audit row. The
store is not trusted: a `PUT` may leave any metadata and may be repeated until the
capability expires. Size and sha256 are one `Digest`; of the content types one for
text and one for audio are kept. `ActorRequired` says whether `case_events.actor_id` is
NOT NULL. It is, in the schema as committed, and no completion can succeed there
(`artifact_actor`); the other run asks what holds once the
column or the statement is corrected. The theorem `IntentsOnlyActorRefused` covers both schemas: the column alone decides, no
key or trigger refuses a completion, and under NOT NULL nothing ever becomes evidence.

**ArtifactLedger.** One artifact, because locks, trigger and unique key all work per
artifact, and its first attempt, because nothing starts another one and nothing
records `redacted`. Rows are named by their state, which is unique within the attempt, and ordered by
`occurred_at` and the random `id` (`Stamp`). A worker's clock may show any `Time`.
`SelectActive` is the snapshot of the `FOR UPDATE` statement and `LockActive` the end of
its wait: rows are never updated, so PostgreSQL returns the row as the snapshot found it.
`LockGranted` says whether the worker's role has the UPDATE privilege that `FOR UPDATE`
needs. The migration does not grant it; the run asks what holds once it does. Workers take `occurred_at` from clocks that nothing
synchronises with the API's: a stamp may be earlier than the completion's (up to `Skew`), equal to it (then the random ids decide; `Rank` has
places on both sides of the completion's id) or later. `OutcomeSettles` therefore speaks of outcomes that sort after the completion. Nothing in `worker/main.py` calls the processor yet; the order of scan,
redaction and recording follows from `record`, which takes the result of `process`.

**ApiEdge.** The API process runs one event loop, so code between two `await`s is one step.
A request awaits only the lock of the key cache and, while it holds it, the download. Time is
kept as ages (`now - started_at`, `_expires_at - now`), which need no bound on the clock. The
identity provider publishes and withdraws keys at any time; its answer shows the keys of the moment it was
given and may arrive up to `Timeout` later, or not at all. A download fails in one of two ways (`RefreshFails`): with an error that
`_download_jwks` knows, answered 503, or with one it does not catch (`IncompleteRead`, `BadStatusLine`, `UnicodeDecodeError`), which ends
in the last handler of `verify` and is answered 401. `recent`, `gone` and `stable` are
history; `recent` counts what a client has passed in the last n ticks, for every n up to the window. Signatures and registered claims are PyJWT's: a token verifies or does not. The timeout
of the code is per socket operation; `Timeout` stands for the age of an answer that does arrive.

**ConfigRedaction, IpsecLifetimes, ConfigAnalysis.** A line is abstracted to what the patterns of redactor
and parser tell apart: indentation, kind, name, unit, value and terminator. The inline rules are two operators, for keywords followed by a secret
and for keywords followed by a sign, applied in the order of the code, each to what the other has left (`RedactInline`). A line of a key block
whose terminator `_split_line_ending` does not know loses it, and `Join` attaches the next line to its marker; the parser then reads the
lines of the joined text, where what follows a marker on its line is not seen by it. The abstraction of rules and terminators was compared with
`redact_cisco_config` on concrete lines of every kind. Both loops are one operator from a state and
a line to the next state. `ConfigAnalysis` feeds every text up to its bound through both, and once more
the redacted text through the parser. Its invariants compare the results with definitions that look at
the whole text at once: which lines lie in a key block, which command at the margin a line is
subordinate to, which line decides on a lifetime. They take the text as an argument, so that
proofs can compare a text with the same text and one line more. `LineType` and `NothingElse` say what the
lines may be; `Nothing` is Python's `None`. What strings the regular expressions match is not
modelled.

## Runs

| Run | Shows | Bounds, and why they are enough |
|---|---|---|
| `intake` | one case per intended case, keys and intents belong together, answers to creates, complete records | 2 requests, so that a retry runs beside the request it repeats or beside another client; 2 cases, 2 keys of the form and 1 of others, 2 intents; 4 bodies, which differ from the first in title, input and asset alone, 2 of them for the form; a first transition beside it |
| `case_race` | refinement of the lifecycle, durable acknowledgements, timeline; every request is answered | 2 requests of one approver on one case to version 3: reads, updates and commits of both interleave at every statement; other roles are in `case_approval` |
| `case_approval` | approval trail and domain/schema agreement over the graph | 1 request, 3 roles, with and without evidence, expected versions to 5: up to `resolved`, and the attempt at `learned`, which needs a service and is refused to every client of the API; `needs_information` and races are in `case_race` |
| `case_list` | nothing skipped, no empty page offered, the walk ends | 3 cases of which each is created and moves once, pages of 1, 3 instants: a case passes the cursor in both directions, stamps are equal, and a page is reloaded in between |
| `outbox` | contract, ownership of leases | 2 publishers, 2 events in one batch, leases of 2 units, clock readings 1 unit old, a crash, failing hand-offs. 5 tokens: each publisher and each row can hold one and one is fresh. `attempts` saturates at 2 |
| `worker` | no orphaned sweep, failures surface, signals are honoured, every event is published | 1 process, 2 events in one batch, 2 kills; failures and signals without bound, in every phase. Several publishers are in `outbox` |
| `feed` | order, no duplicates, no other gaps, delivery in the end | 3 events over 2 instants, pages of 2, a scope that comes and goes: equal stamps, page ends and late commits all occur |
| `artifact_complete` | evidence is attested and in time; answers agree; every completion is answered | 1 intent, because intents share no row; 2 requests race and retry; 2 cases for a wrong path; 2 digests and 2 content types for a wrong object; a life of 1 on a clock of 0 to 2, so that a deadline passes before, during and after a completion |
| `artifact_actor` | **violation**: the schema refuses a verified completion | 1 intent, 1 request |
| `ledger` | fail-closed recording, outcomes that settle, every job ends | 2 workers: one waits for the lock while the other commits, again and again; 3 instants, one before and one after the completion's, and 5 ranks of ids give every order of the 3 rows, the completion first, between or last |
| `edge` | bursts bounded, `Retry-After` fits, rotation followed but for broken downloads, withdrawn keys expire, everyone is answered | 2 requests: one waits for the lock while the other downloads; 2 clients: one prunes the other's window; 1 key that comes and goes and 1 forged; a limit of 1 (any limit is in the theorem `EdgeBurstBounded`) in a window of 1 second, 2 ticks to a second for the rounding; a TTL of 2 ticks and answers up to 1 tick old |
| `config` | redaction, parsing and verdicts agree with their definitions | all pairs of texts up to 5 lines together, from 16 kinds of local and 3 of peer lines: nested and open key blocks, blocks whose last or an empty line is joined to the next, secrets that are replaced and that stay, overrides, doubled names, comments within blocks |

`CHECK_DEADLOCK FALSE` is set where a run ends because a bound of the model is
reached (`intake`, `case_race`, `case_approval`, `feed`, `config`). Type invariants, and
`HistoryReplays`, `OneCasePerKey`, `PublishedIsFinal`, `ListedOnce`, `OnlyActorRefused` and
`LockDiscipline`, are proved for all constants and not model-checked again.

Some properties state a limit of the code together with its promise, and do not exclude what they name. `EventuallyReceived`: once the
reader's scope no longer covers its cursor, every reconnect is refused, and the relay hides it. `NoOtherGaps`: an event that commits behind a
page already read is lost, and only that one. `RotationIsFollowed`: a broken download refuses a served key. `OutcomeSettles`: an outcome
that a slow clock sorts before the completion settles nothing. `RedactionExact` and `RedactedEvidenceHolds`: the secrets that
stay, and the lines that are joined.

`artifact_actor` shows a statement that cannot succeed on the schema as committed: the completion
event has no actor, and `case_events.actor_id` is NOT NULL. It is the finding in `PROJECT.json`.

Symmetry is used for requests, cases, keys, events, publishers and tokens, none of
which the code orders, and only in runs without liveness.

### Observations without a run

Met while modelling, and not made runs of their own:

* `TenantOutboxRepository` promises no duplicate concurrent delivery (`outbox.py:82-85`). A slow publisher
  whose lease expires hands off beside the next one; the code guarantees `ImplementsContract`.
* `api/events.py:67-70` says that clients "reconnect with `Last-Event-ID` to recover pages and receive later commits, which remains correct
  across API restarts and outbox-worker crashes". That holds of commits which sort behind the cursor only. An event that is stamped
  early and commits behind a page already read is never received; the code guarantees `NoOtherGaps`.
* `record_scan_outcome` begins with `SELECT ... FOR UPDATE`, which needs the UPDATE privilege, and the migration
  grants `netops_app` only SELECT and INSERT, so as committed nothing is recorded. With the privilege, a
  worker that waited for the lock acts on its old snapshot, and `failed` may follow `verified`. A worker whose clock is behind
  the completion's leaves an outcome that sorts before the quarantined row: the artifact is still shown as quarantined, the next worker
  decides anew, and `verified` may follow `failed`. The docstring (`artifact_processing.py:84-90`) says that "a replay after a
  result was recorded ... cannot silently create a second transition"; what the code guarantees is `OutcomeSettles`.
* `_download_jwks` catches four kinds of exception (`auth.py:142`). An answer that is cut short, has no status line or is not
  UTF-8 raises another one, and `verify` answers 401 `invalid_token`, as for a forged key, where 503 is meant.
* `password = hunter2` at the beginning of a line stays readable: the rule for `password` and `secret` commands (`redaction.py:105-113`)
  replaces the sign, and the rule for assignments (`redaction.py:122-128`) no longer finds one. With `password=hunter2` the secret is
  replaced.
* `redact_cisco_config` promises the "original line count, order, and line endings" (`redaction.py:160`). `splitlines` also ends lines at
  `\x0b`, `\x0c`, `\x1c` to `\x1e`, `\x85`, `\u2028` and `\u2029`, which `_split_line_ending` leaves in the body. A line of a key block with such a
  terminator loses it: the next line is joined to its marker, later line numbers shift by one, and a declaration that is joined is
  not seen by the parser. Where the line is empty the terminator stays, in front of the marker, which then joins the next line.
* `process` stores the derivative before a `verified` row exists, so a crash in between leaves a derivative of
  an artifact that is still quarantined.
* A clean artifact that is not a configuration makes `process` raise after the scan
  (`config_redaction.py:140`), so that its verdict is not recorded.
* `page.tsx` cuts every parameter to 100 characters (`parameter()`, lines 42-45) before it cuts the cursor to 512
  (line 55). Cursors are longer than 100 characters, so "Load next cases" is answered 422. The reader
  of `CaseQueue` is therefore any client of the API.
* `redact_cisco_config` applied to its own output takes the type number of `enable secret 5 <marker>` for the secret. A
  test calls the redaction idempotent, with lines where it is.
* An empty line within a private-key block becomes a marker at the margin, and closes the parser's block. What the parser
  finds is then less, never something else: `RedactedEvidenceHolds` is an inclusion, for lines before the first joined one.
* Requests whose key is cached wait behind a download for another token, because the lookup takes
  the same lock.

## Fairness

* `CaseSpine`: a request thread keeps running (weak fairness of its next step).
  The two waiting statements are strongly fair, because PostgreSQL queues lock
  waiters. `Submit` and `Abort` are not fair.
* `WorkerProcess`: time passes, processes run, and a stopped container is started
  again (`restart: unless-stopped` in `docker-compose.yml`). Strong fairness of connection, probe, a
  hand-off within the lease and the following acknowledgement says that start-up and
  transport do not fail, and a publisher is not too slow, for ever; without it
  an event can be retried for ever, which the code permits. Signals, kills and failures are not fair.
* `ApiEdge`: the event loop resumes a request whose `await` is over, and a download ends, by its timeout if
  not by an answer (weak fairness of a request's next step). The lock is a queue, as `asyncio.Lock` is.
* `CaseQueue`: the reader follows the link to the next page (strongly fair, because reloads come between).
* `EventFeed`: the EventSource reconnects, and a connection that is made again and
  again delivers an event at some time. The web session stays valid.
* `ArtifactIntents` and `ArtifactLedger`: a thread that has begun keeps running, the scanner,
  the store and the redactor answer or fail within their timeouts, and waiters of a row lock are
  queued (strong fairness of the lock step). Beginnings and crashes are not fair.

## Proofs

For every value of the constants, under the named assumptions of each module
(types of the constants, `None` outside them, positive lease, batch and page sizes):

* `CaseDomainProofs`: what acceptance by `apply_transition` implies, and that one
  accepted step preserves replay (`ReplayStep`) and approval (`ApprovalStep`).
* `CaseLifecycleProofs`: type correctness, `HistoryReplays` and `ApprovalTrail` of the
  abstract lifecycle, by induction with those lemmas.
  For `CaseQueue`: `ListOrder` says that the order of the list is strict and total, and
  `LeastNumber`, from the well-foundedness of the numbers, gives a set of rows a first and a last one,
  and `PageCut` cuts them after the page: an initial part, and what follows its last row. `QueueInv` then says
  that a case the walk still owes its reader and that nobody has touched (`steady`) is on a page or behind the cursor
  (`LeftBehind`, also for the cursor of a reload), and that as long as nothing has moved the page on screen is still the one the
  statement would return (`PageIsCurrent`). `QueueNothingSkipped` and `QueueNextPageHasCases` follow, and
  `QueueRefinesLifecycle` says that the reader changes nothing of the cases.
* `CaseSpineProofs`: the inductive invariant `IInv` (`SpineInvariant`). `TypeOK` is not
  enough: `Shape` says what a request holds at each label, `RowsNamed` that rows carry
  their own identifier, `ReadRow` that a request at `update` or `written` has read an accepted row
  that still exists, `RowLocks` that a request at `written` still sees the version it read and is
  alone on the case, `InsertLocks` and `KeysDistinct` the same for keys. From it follow the
  refinement of `CaseLifecycle` (only the two commit steps change the mapped state,
  each by a lifecycle step), and through the refinement the replay and approval
  properties of the database; `SchemaNeverRefuses`, which needs the rows of the history to
  be at most at the current version; and `OneCasePerKey`.
  `SpineRecordComplete` is by induction on top of it: each of the two commits adds all rows of its record at once, for a case or a version
  that had none.
  The replies need what a request has read *and* that it stays true: the committed rows and the history only
  grow (`Grows`), a step leaves the other requests alone (`Alone`), a row and its inputs agree with the fingerprint it carries (`Fingerprints`),
  which determines the whole body, a create past the gates may see its asset and replays only a committed row (`AskedAt`), and
  between the two statements of a detail request the case moves on, never back (`DetailAt`). With the three
  properties, request by request, they are the invariant `Answers`, from which `SpineCreateAnswered`,
  `SpineAcknowledgedIsDurable` and `SpineTimelineCoversRow` follow.
  For `CaseIntake`, `IntakeImplementsSpine` shows that every step of the composition is a step of the spine, so
  that all of the above holds there. `IntakeInv` collects the claims on keys: triples of key, intent and
  fingerprint that the form, the requests in flight and the cases hold. Claims on one key agree, no
  claim names an intent that is still to come, and a form that has not submitted has its key to itself.
  From it follow `IntakeOneCasePerIntent` and `IntakeKeyKeepsItsIntent`.
* `OutboxProofs`: tokens are unique among publishers and rows, a publisher at `ack` has a
  receipt for its event, and published rows are received. From these follow the
  refinement of `OutboxContract`, `AtMostOneSettler`, `SettledByOwner` and `PublishedIsFinal`. `ProcessImplementsDelivery`
  carries them over to `WorkerProcess`. `ProcessNoOrphanSweep` needs that a task which runs belongs to a process
  that still waits for it (`Attended`). `ProcessFailureStays` is the safety half of `FailureSurfaces`: a process
  whose publisher has failed stays failed until it exits with an error, whatever signals come.
* `EventFeedProofs`: the feed order is total; the cursor is the last received event and the
  open page lies beyond it without a gap. From these follow `NoOtherGaps` and `InOrderOnce`.
* `ArtifactIntentsProofs`: `IInv` adds to the types that a declaring request has its identifier to itself
  and a completing one names a granted intent (`Named`), that evidence and completed intents are the same
  (`Rows`), and that the holder of a row lock is alone and its decisions still hold
  (`Held`), which is what makes the state read before the HEAD request safe to use after it.
  `OnlyActorRefused` follows for either schema: at the inserts every key is free and the trigger accepts, so that the actor column
  alone decides; it implies `SchemaAcceptsCompletion` where the column accepts NULL.
* `IngestionProofs`, for the ledger: what a worker carries at each label (`Carried`: its scan is in the history, its stamp
  is of its clock) and who stamped which row (`Stamped`). The row lock is not needed: the trigger
  alone carries the argument. `OutcomeJustified` and `OutcomeSettles` hold for all clocks: the latest row is quarantined
  exactly when no outcome sorts after it, rows are never changed, and the trigger accepts an insertion only while it is, or
  `failed` behind `verified`.
* `IngestionProofs`, for configurations: texts grow by one line at a time, so induction over texts is
  induction over steps, and it needs for each definition over a whole text what one more line does to it. Key blocks, headings
  and settings of earlier lines do not change (`KeyBlocksStay`, `HeadingStays`, `SetByStep`). `Redacting` says
  that the flag of an open key is that of the text (`KeyOpen`), besides `RedactedExactly`, which needs what the two groups of rules do in
  their order (`InlineEffect`, `InlineReplaces`), what one line adds to the joined output (`Joined`, `EntireLineEffect`, `VisibleLineEffect`), and
  that joined lines stay joined (`SlipsStay`). `Reaches` says that up to the first joined line the parser of the output is as far as that of the source. `Parsing` says that associations are the
  declarations of the text, each once and with its settings in the order of the text (`OnePerDeclaration`, `Describes`), and
  that the parser is in the block of the next line's heading (`InBlock`). `Echoes` says that, up to there, the parser of the redacted text is in no
  block but that of the parser of the source, which is what makes `RedactedEvidenceHolds` inductive; behind a joined line nothing it
  finds counts for the property (`BehindSlip`).
  `AnalysisInv` is the conjunction for both documents, and the four properties of the run follow for texts of
  any length and lines of any values; the verdict also by `LastSetting` (the last setting is that of the last line) and
  `PairedIsNamed` (one paired association means one declaration of the name, and conversely).
* `ApiEdgeProofs`: `Locks` says that the requests within `get_signing_key` are those in the queue of the lock, `Carried` what a request
  holds at each label and how old its answer can be, `Served` that a cached key has been served no longer ago than its
  remaining freshness allows. From these follow `EdgeLockDiscipline`, `EdgeRotationIsFollowed` (a good token whose key has been served since
  it came is refused with 401 only by the step in which its own download breaks off) and `EdgeWithdrawnKeysExpire`, for any TTL and timeout.
  `EdgeBurstBounded` needs `Bursts`: what a client has passed since its window began is the window's count, and within the length of a
  window at most one limit more came before; a client whose window has ended has passed at most one limit, and nothing at this instant.
  `EdgeRetryAfterFits` is the rounding up to whole seconds, by bounds on the integer quotient (`DivBounds`).

Every invariant and every action property of a passing run is stated by one of these theorems (`SchemaAcceptsCompletion` as a part of `OnlyActorRefused`). Only model-checked are the liveness
properties `EveryRequestAnswered`, `WalkEnds`, `EventuallyPublished`, `FailureSurfaces`, `StopHonoured`, `EventuallyReceived`,
`CompletionAnswered`, `JobsEnd` and `EveryTokenAnswered`: fairness and ENABLED are outside the
prover's reach. The proofs assume of the constants what the named ASSUMEs of the modules say: limits are
positive, times and limits are natural numbers, and the value that stands for an absent one is none of the others.

## Not modelled

* Web session and sign-in: sealed cookies that the browser keeps. The server has no state that two requests
  could race for, and the exchange is the library's.
* Row-level security and token signatures are properties of PostgreSQL and of PyJWT; one tenant is modelled,
  and roles and scopes are inputs.
* Settings, logging, telemetry and the bytes of health checks have no state that the case record depends on. The API client is
  generated.
* The strings that patterns match, formatting, and the bytes of artifacts: what the store attests about them is an input.
* The worker without a publisher and the intake form without script, as said above.

Clock skew between hosts is covered for the feed, the queue and the ledger (stamps and commits are unrelated)
and as stale readings for the outbox.

## Plan

1. Done: case spine, outbox, event feed, with their proofs.
2. Done: artifact intents and the processing ledger, with proofs.
3. Done: `CaseIntake` and `WorkerProcess`, compositions over the spine and the delivery, with proofs.
4. Done: `ApiEdge`, `CaseQueue`, and redactor, parser and validator against reference definitions.
5. Done: proofs of the remaining invariants and action properties: replies and records of `CaseSpine`, the case list, bursts and
   `Retry-After`, and configurations.
6. Left: the safety halves of further liveness properties as theorems, as `FailureStays` is of `FailureSurfaces`: that the cursor of a walk
   only advances, and that waiters for a lock keep their place.
