# remak-go in TLA+

A verification project for remak-go: a bookmarking service whose API process stores web pages, memos and files,
whose worker processes have web pages scraped by an external Lambda, enrich the text with an AI provider and clean up
the artifacts of deleted documents, and whose PostgreSQL database is the only place where all of them meet.

The modules are checked with TLC on small instances, and all their safety properties are proved with TLAPS for every
value of the constants. There are five models, each with runs of its own: the ingestion pipeline (`Ingestion`), an account with its
files and its end (`Accounts`), codes and sessions (`Identity`), collections and lists (`Listing`), and the cutting of a
text into chunks (`Chunker`).

## 1. Inventory

| Component | Source | State | Operations | Model |
|---|---|---|---|---|
| Ingestion store | `db/migrations`, `db/queries/{documents,jobs}.sql`, `internal/events` | documents, document_versions, ingestion_jobs, outbox_events, inbox_events, chunks, artifact_cleanup_jobs; two SQS queues; S3 objects | the SQL statements | `Store` |
| Library writes | `internal/library/service.go` | none of its own | create and update memos and web pages, delete | `Library`, under the account lock in `Accounts`, with relations in `Collections` |
| Outbox dispatcher | `internal/worker/outbox.go` | the claimed batch, the message just sent | claim, send, mark, reschedule, dead-letter | `Outbox` |
| Scraper | external (Lambda, SQS) | deliveries left of a request | answer, fail, die, repeat itself | `Scraper` |
| Scrape result consumer | `internal/worker/scrape_results.go` | the message and what was read for it | receive, read artifact, job and document, apply, delete | `ScrapeResults` |
| Enrichment processor | `internal/enrichment/processor.go` | the claimed batch, the content held during the AI calls | claim, read, commit, record a failure | `Enrichment` |
| Artifact cleanup | `internal/worker/artifact_cleanup.go` | the claimed batch, the listed keys | claim, list, delete objects, complete or fail | `ArtifactCleanup` |
| Worker process | `cmd/worker/main.go` | its goroutines | run the loops, die | `Ingestion`, `Accounts` |
| Maintenance | `internal/worker/maintenance.go`, `db/queries/maintenance.sql` | none | hard deletes by age | `Retention`, `Identity`, `Collections`; the removal of old inbox, outbox and job rows is not modelled |
| File store | `internal/filestore/service.go` | objects stored and not yet recorded, the lock of the account row | upload, limit, persist, compensate | `FileStore` in `Accounts` |
| Identity | `internal/identity`, `db/queries/{accounts,challenges}.sql` | accounts, verification_challenges, refresh_tokens | request and verify codes, signup, login, refresh, logout, reset, withdrawal | `Identity`; what a withdrawal does to documents: `Retention`, and leaves in collections: `Collections` |
| Collections | `internal/library/service.go`, `db/queries/taxonomy.sql` | collections, collection_documents | create, add, update, delete | `Collections` |
| Lists and cursors | `internal/library/{service,cursor,handler}.go` | the cursor of a client | pages of all documents and of a collection | `Listing` |
| Chunking | `internal/enrichment/chunker.go` | none | `ChunkText` | `Chunker` |
| Tags | `db/queries/taxonomy.sql` | tags, document_tags | replaced by an enrichment, removed when unused | not modelled (section 7) |
| Account profile | `internal/account` | one row | single statements | not modelled: nothing interleaves |
| AI providers, artifact extraction | `internal/enrichment` | none | calls of other services | a call that answers or fails |
| Access tokens, mail | `internal/identity/{token,sender}.go` | none | sign, verify, send | not modelled |
| Retrieval, chat | `internal/retrieval`, `internal/chat` | none | read only | not modelled: what a search may find is `ServedIsCurrent` |
| Platform, generated code, legacy import, deployment | `internal/platform`, `internal/dbgen`, `db/legacy`, `deploy`, `infra` | none | configuration, clients, generated queries | not modelled |

How they interact. The API never calls a worker: each write commits the document, its version row, its job and, for a
web page, an outbox event in one transaction. A dispatcher leases the event, sends the request to SQS and then marks
event, job and document in a second transaction. The Lambda writes artifacts to S3 and a result to the second queue.
The consumer applies the result in a transaction keyed by the event id in `inbox_events`, and creates the ENRICH job.
The enrichment processor claims the job, embeds the text and commits chunks, summary and status together. A deletion
queues a cleanup job, which a late result queues again. Everything that is created in an account, and its withdrawal,
goes through the lock of the account's row; the worker never takes it. The maintenance of a worker removes the rows of
deleted documents and withdrawn accounts once their cleanup has succeeded.

What is hard: every worker holds state across calls that are not in its transaction (a sent message not yet marked, a
document read before the transaction, a text being embedded, a list of keys); every call can fail, or take effect and
not be answered; a process can die anywhere; messages are delivered at least once and in any order; leases expire while
their holder still works; users edit and delete meanwhile. In the API it is the reads that come before a transaction (a
challenge, a token, a count, a collection), the time that bcrypt and S3 take, and the statements of READ COMMITTED
transactions that see each other's commits but not each other's work. `PROJECT.json` lists these hazards at their lines.

What makes the components correct:

- Store and library: a version, its job and its event exist together; statements apply to the current version only.
- Dispatcher: every request is sent; a late mark undoes nothing.
- Consumer: a result has its effect once, for its version, and leaves a newer version alone.
- Processor: what is shown and searched is the current version's own text; a job is closed in the end.
- Cleanup: it ends, and it does not close over keys it has not seen.
- File store: the limit holds under concurrent uploads; an upload leaves all of its objects and rows, or nothing.
- Withdrawal and maintenance: nothing of the account is left to be seen; rows, the only record of the artifacts, go last.
- Identity: a challenge is good for one change, within its attempts; sessions end with the password.
- Collections and lists: names are unique, relations are between rows that exist, a client sees each document once.
- Chunking: the loop ends, no chunk is too long, no passage is lost.

## 2. Modules

| Module | What it is |
|---|---|
| `Store` | constants, the shared variables of the pipeline, one operator per SQL statement |
| `Library`, `Outbox`, `Scraper`, `ScrapeResults`, `Enrichment`, `ArtifactCleanup` | one component each: its variable, `...Init`, one action per step, `...Next` |
| `Ingestion` | their composition, crashes, fairness, the properties |
| `DocumentLifecycle` | the abstract specification: what a reader of the library is promised |
| `Documented` | sentences of `docs/` that the code does not keep, as formulas |
| `FileStore` | uploads, object by object, and the lock of the account row |
| `Retention` | the withdrawal's part on documents, and the hard deletes |
| `Accounts` | `Library`, `FileStore`, `ScrapeResults`, `ArtifactCleanup` and `Retention` composed |
| `Identity` | the requests about codes, accounts and sessions of one e-mail address |
| `OneTimeTicket` | the abstract specification of the challenges |
| `Collections` | the transactions on collections, statement by statement, beside the deletion of documents and the withdrawal |
| `Listing` | a client that goes through the pages of a list while `Collections` runs |
| `Chunker` | `ChunkText`, one iteration a step |
| `MCIngestion`, `MCAccounts`, `MCIdentity`, `MCShelf`, `MCChunker` | the sets for TLC |
| `StoreProofs` | lemmas about the statements, the writes, the consumer and the cleanup, for the proofs about `Ingestion` and about `Accounts` |
| `IngestionProofs`, `ServedProofs`, `LifecycleProofs`, `AccountsProofs`, `IdentityProofs`, `ShelfProofs`, `ChunkerProofs` | the theorems |

The SQL of a statement is written in `db/queries/*.sql` and repeated, with the code that runs it, in
`internal/dbgen/*.sql.go`, which sqlc generates; `map` names the latter, since that is what the program executes.

### How state corresponds

A version row, its SCRAPE and ENRICH job and its outbox event are indexed by `<<document, version>>`; the UNIQUE
constraints of the schema make that the same as their UUIDs. `doc[d]` is the row of `documents`; `cur = 0` means that
it does not exist yet. A text is named by the version it was written or scraped for, so `shown` says whose text
`documents.content` is, `text[j]` whose text the version row holds, and `chunks[j]` from whose text its chunks were
made; 0 is NULL. `keys` are the versions with recorded artifact keys, `objects` those whose artifacts are in the bucket.
The queues `requests` and `results` count the deliveries left of a message (`maxReceiveCount` in `infra/aws/core.yaml`);
a message that is delivered and not deleted comes again until none is left, and is then in the dead-letter queue.

`ENRICH_PROCESSING` is not among the statuses: `MarkDocumentEnrichProcessing` and `CompleteEnrichment` are statements of
one transaction, so no committed row ever holds it. `DRAFT` and `CANCELLED` are reserved by the schema and written by
nothing.

### How actions correspond

A SQL statement is an operator from the row before to the row after; a WHERE clause is its IF. A transaction that the
code commits is one action. What a process keeps between two actions is in its own variable (`dispatcher`, `consumer`,
`enricher`, `cleaner`), and the steps of all processes interleave between any two of them:

- `Outbox`: claim / send / mark. The failed send with its reschedule or dead-letter is one action, and so is the failed
  send whose reschedule fails too, or is not answered (which abandons the batch, except on the last attempt).
- `ScrapeResults`: receive with the artifact read / job read / document read / transaction / delete. The transaction is
  decided by what was read outside of it, as in the code (`current`, `documentFound`, `terminalDuplicate`).
- `Enrichment`: claim / reads / commit / `FailJob` / `RejectEnrichment`. The last two are two statements in the code and
  two actions here. The reads of one job are one action because a version's content no longer changes once its ENRICH
  job exists, and the AI calls are the time between `Load` and `Commit`. `LoadFails` is a failed read, or a completion
  without work that fails or is not answered.
- `ArtifactCleanup`: claim / list / each delete / complete / fail.

Why a transaction may be one action: they run under READ COMMITTED, so a statement sees what committed before it and not
before its transaction. In each of them the rows that decide are either locked by an earlier statement until the commit,
or asked again by the statement itself, and a statement that matches no row cannot begin to match later, because
`current_version` only grows and `deleted_at` is only set. Two transactions that lock job and document in different
order can deadlock; PostgreSQL aborts one, which is the failing variant of that action.

Leases and backoffs are durations. An event or job whose backoff still runs is simply not chosen by a claim (a claim
takes any non-empty set of the rows that are due, which also stands for `SKIP LOCKED`, `LIMIT` and the order). Taking
over what a process no longer works on costs nothing; taking over what it still works on, that is, its step outlasted
its lease, is a fault. Two workers are modelled because the code is written for them (lock tokens, leases, `SKIP
LOCKED`), and a rolling deployment overlaps two.

`Fault` marks everything that goes wrong around the code: a failed call, a call that took effect and was not answered, a
crash, a repeated message, an overlong step. Each `...Fails` action covers both the call that did nothing and the call
that took effect without an answer. A claim that is not answered is a claim followed by a crash: in both cases rows are
claimed and nobody works on them. `MaxFaults` bounds them in a behaviour; nothing else depends on it.

In `Accounts` the way of a web page from its creation to its result is one step (`ScrapeAnswered`), because `Ingestion`
has it in full; the account row is the variable `account` with the upload that holds its lock, and whatever else takes
the lock does so in a transaction of one step, which has to find it free. Bytes are counted as the elements of a set, so
that the sum is a cardinality. `upload` follows a call of `Upload`: objects are put one by one, `Reserve` is `persist`
up to the check of the limit, `CommitUpload` its inserts and commit, and every other end goes through `Compensate`,
which deletes what is in the list, with a failure, a cut by its ten seconds or a crash anywhere. Ages are handled like
backoffs: a row that is not old enough is left out of the batch. No process works on a document whose rows are removed
(`RunMaintenance`): what a process has in hand it has for minutes, rows stay for a month after their deletion, or for a
week after the withdrawal of the account.

`Identity` follows each request through its reads (`pc`) up to the one statement or transaction that it commits. A
transaction is one action because its first statement locks the row that decides, the challenge, the token or the account, and
asks its condition again (the answer about a token is not looked at, which the action `Refresh` has too); two that would wait for each other end in the abandonment of one. A challenge
comes to a request by its id, by its token, or as the latest of the address, so that any may. Its state is
what the statements derive from `expires_at`, `verified_at` and `consumed_at`; `OVER` is consumed or expired. `late` is a history
variable: it marks a session that was made while its account was changed, and those that descend from it. The purge of
old rows may come right after the hour in which they count.

`Collections` has several steps for one transaction, because there the statements of others in between matter. What a transaction
has written and not committed is in `request` (`added`, `target`) or `purged`; the others do not see it, and wait where
PostgreSQL would: for a row that was changed, for a key in a unique index, for a row that a foreign key refers to. These
waits are guards, and a transaction that waits for ever may be abandoned (PostgreSQL aborts one of a deadlock).
The `INSERT ... SELECT` of `AddDocumentToCollection` is two steps for the same reason: `SelectDocument` finds the row in the
snapshot of the statement, and `AddDocumentToCollection` inserts it once nobody holds its key or its collection, asking no more than the
foreign keys do. A document that is deleted during the wait is added all the same. `CreateCollection` holds the account
row until its commit; what creates a document, and the withdrawal, wait for it. `Withdraw` is here the part of
`internal/identity/service.go:177` that lists depend on: it deletes the documents (`CLOSED`, to be told from what `Delete` deletes) and
touches no relation. Documents are numbered by `(created_at, id)`, the order
of the lists, and may become visible out of this order.

`Chunker` has the runes of a text as four kinds, since `ChunkText` and `TrimSpace` ask no more of a rune.

The scraper is external. It is modelled by what the worker may count on: artifacts first, then a result with the eventId
of the request; a failed result only on the last delivery; a result repeated, or sent again under an eventId of its own
(`docs/events.md`, "Go result consumer invariant"); or nothing at all if it dies on the last delivery.

## 3. Properties

| Property | What it says |
|---|---|
| `TypeOK` | the type invariant; attempts stay within their limits |
| `ServedIsCurrent` | a COMPLETED document shows its current version and its chunks were made from that text |
| `EnrichesOwnText` | an ENRICH job exists only once the version's own text has arrived, although a refresh copies the old text into the new version row |
| `ScrapedStaysScraped` | no late mark or repeated result returns a scraped current version to a scrape state |
| `SucceededIsTerminal` | a SCRAPE job that succeeded is never reopened |
| `CleanupSeesCurrentKeys` | a cleanup is not closed on a key list that lacks the current version's recorded key; with one worker process (see below) |
| `LifecycleSpec` | `Ingestion` implements `DocumentLifecycle`: content moves only to the current version, only a shown text is indexed, nothing fetched or indexed for the current version is lost, nothing happens after removal |
| `MessagesArrive`, `CleanupFinishes` | every request is sent, every result taken, every deleted document cleaned up; under `FairSpec` |
| `EnrichmentFinishes` | every ENRICH job is closed for good, and from then on its document is served, but for the rejection of finding 3; under `FairSpec` |
| `AccountsTypeOK` | the types, and that the one upload that inserts holds the lock of an active account |
| `FilesWithinLimit` | however uploads run side by side, the user's files stay within the limit |
| `UploadIsAllOrNothing` | a live uploaded document has its object, but for a commit whose answer was lost, and a call that failed without a fault has left neither object nor row |
| `WithdrawnOwnsNothing` | after the withdrawal every document is deleted and queued for cleanup, also one that was being created |
| `RemovalStaysPossible` | no cleanup of a withdrawn account is stuck: it is done, in hand or claimable; with one worker process (see below) |
| `KeysOutliveObjects` | rows are not removed while an artifact that they name is in the bucket |
| `IdentityTypeOK` | the types; no code is tried more often than the limit |
| `TicketSpec` | `Identity` implements `OneTimeTicket` |
| `HourlyLimitSlack` | challenges of an hour exceed their limit by less than the number of requests at once |
| `RotationSlack` | a refresh token is exchanged by no more requests than are served at once |
| `SessionsEndWithPassword` | a valid session has the current password of an active account, unless it is `late` |
| `ListingTypeOK` | names of collections are unique; relations are between rows that exist |
| `RelationsOnlyByOverlap` | a relation that `Delete` leaves was found by a SELECT before its commit, and not committed before its DELETE |
| `ListedOnce` | no page repeats a document, and what was in the list all the time comes before the empty page |
| `ChunkerTypeOK`, `WithinSize` | chunks are parts of the text, not empty and not longer than the size |
| `PassagesKept` | a passage not longer than the overlap, or by one rune, is whole in some chunk |
| `Terminates` | the loop of `ChunkText` ends |

`ServedIsCurrent` speaks of COMPLETED only; what a document shows while a refresh is under way is its previous text, by
design.

`CleanupSeesCurrentKeys` and `RemovalStaysPossible` are properties of one worker process, and are checked and proved for
one. A cleanup claim carries no token (`db/queries/documents.sql:246`), so with two

- a worker that was overtaken can complete, on its older list, the job that the other has claimed again after a requeue;
- two can use up each other's attempts. A withdrawal requeues the job that the first has in hand, so that its completion
  matches no row. Before it records that failure the second claims the requeued job, and `FailArtifactCleanupJob`, which
  asks for no owner either, closes this claim. The completion of the second then matches nothing; the first claims again, and the
  failure of the second closes that. After two attempts of two the job is `FAILED` without anything having gone
  wrong around the code. (Ten attempts in the code make this long, and the backoff unlikely.)

`KeysOutliveObjects` needs no such assumption. Whoever completes a job has itself deleted what it listed, and a file gets no
keys after its insert. New keys of the current version of a deleted page requeue the job; whoever claims it then lists them, and
deletes them even if another has completed the job meanwhile, and no row is removed while a worker has its document in
hand. For a page it is stated of the current version and as long as nothing was repeated or failed, for the reasons below.

`EnrichmentFinishes` asks for what is true from some moment on (`~> []`), because a document that is COMPLETED for an
instant is not one that is served. It concedes one case, and no more: the document is rejected behind its closed job, and
the chunks of that version are there. A commit that took effect without its answer is followed by the failure path, in which
`RecordFailure` changes nothing and `RejectDocument` does (finding 3). A document that stays in a scrape state, or is rejected
without its chunks, behind a closed job would violate it.

What holds with an exception is stated with it. Four of the properties are as weak as they are because the code reads
before it locks:

- Requests that count the challenges of the hour at the same time all find room for theirs (`internal/identity/service.go:365`).
  A withdrawal deletes the challenges of the address and thereby begins the hour anew.
- A refresh token is looked up before the transaction that revokes it, and the revoking statement does not say whether
  it found it valid; requests at the same time all get a successor.
- A login or refresh that is under way when the password is reset, or the account withdrawn, creates its session
  afterwards, which nothing then revokes (`late`). Only a refresh asks for the account, and it asks before.
- A document that is being deleted can be added to a collection: each of the transactions sees what the other has
  committed only, and an insert that waited does not look again at the document. The relation stays until the row is
  removed, although `docs/data-model.md:74` has it removed with the document. This is the case that
  `RelationsOnlyByOverlap` excepts (`overlap`); it shows that there is no other. Lists join the documents and do not show
  such a relation; the numbers of `ListCollections` count it.

`RelationsOnlyByOverlap` is about `Delete`. A withdrawal (`SoftDeleteAccountDocuments`, `internal/identity/service.go:205`) deletes documents and
leaves all of their relations, beside which nothing needs to run; they go with the rows of the documents or the account.

`KeysOutliveObjects` speaks of web pages only without faults: a request that is delivered again after the cleanup has
the scraper store its artifacts again, its result repeats a terminal one, and a terminal duplicate requeues nothing
(`internal/worker/scrape_results.go:179`). And it speaks of their current version only: the late result of an older one,
decided before the deletion, requeues nothing either (finding 2). `UploadIsAllOrNothing` has the exceptions that a lost
answer makes unavoidable: an upload whose commit was not answered deletes the objects of committed rows, and does so in part
if it dies meanwhile; and a `PutObject` that was not answered leaves an object that no list knows. `ListedOnce` excepts the one case in which a client reaches the end
early: the document of its cursor was removed for good between two pages.

The refinement mapping reads the view of a document off its row: `fetched` when the text shown is the current version's,
`indexed` when the chunks of the current version were made from it. A challenge is read as a ticket: `OPEN` is open,
`VERIFIED` passed, consumed, expired and deleted are over, and the attempts are the tries.

## 4. Runs

Deadlock is not checked: when every job is closed and the fault budget is used up, when all identifiers of an instance
were used, or when a text is cut, nothing is left to do, and that is a legal end.

| Run | Instance | Shows |
|---|---|---|
| `scrape` | 1 web page, 2 workers, 2 versions, 1 repeated result, 1 fault | two dispatchers and two consumers over two versions: `EnrichesOwnText`, `ScrapedStaysScraped`, `SucceededIsTerminal` |
| `enrich` | 1 memo, 2 workers, 3 versions, 3 attempts, 3 faults | two processors with stolen leases, crashes, lost answers and edits: `ServedIsCurrent`, `LifecycleSpec` |
| `pipeline` | 1 web page, 1 worker, 2 versions, 2 deliveries, 1 fault | everything from creation to cleanup in one process: `TypeOK`, `ServedIsCurrent`, `LifecycleSpec`, `CleanupSeesCurrentKeys` |
| `live` | 1 web page, 1 worker, 1 version, 1 fault; batches of one event, one key to clean up | the three liveness properties |
| `accounts` | 2 uploads of 1 file each, 1 web page of 1 version, 1 worker, 2 cleanup attempts, 1 delivery, 2 faults; files of 2 bytes, a limit of 3 | uploads, withdrawal, results, cleanup and removal: the six properties of `Accounts` |
| `identity` | 2 requests, 3 challenges, 2 accounts, 2 sessions, 1 attempt, 1 challenge an hour | the five properties of `Identity` |
| `shelf` | 2 requests, 2 documents, 2 collections, 2 names, 1 document a request, pages of 1 or 2, a withdrawal; while a list is read the requests run one after the other | the three properties of `Listing` |
| `chunker` | every text of up to 8 runes, chunks of 4, an overlap of 2 | the four properties of `Chunker` |
| `late_mark` | violation of `LastFailureRejects` | finding 1 |
| `late_artifact` | violation of `LastArtifactIsDeleted` | finding 2 |
| `late_rejection` | violation of `CompletedStaysCompleted` | finding 3 |
| `last_attempt` | violation of `CrashedLeaseIsReclaimed` | finding 4 |

Why these bounds are enough to be interesting. Documents share no row, so one document shows every interleaving of its
own processes; the one thing that couples documents is a batch, and a batch that is abandoned leaves its events or jobs
as a crash does (batches of several versions of one document occur in `scrape`, `enrich` and `pipeline`). Two versions are needed for a late
result, three for an edit during the repair of an edit. Two workers are needed for a lease to be stolen. Limits on attempts are
reduced to one to three (10, 5 and 10 in the code), so that the last attempt is reached. `InlineContent` distinguishes
results that carry their text from those whose text is read from S3. In `accounts` two files do not fit together and each
fits alone, which is what a lock is for; a web page takes part because only its result comes without the lock; one worker is what
`RemovalStaysPossible` is about (above), and two faults are what a compensation that dies takes; what more workers
change is left to the proofs. In `identity` two requests
race for everything, three challenges allow one for each purpose, two accounts follow each other under the address, and
limits of one are reached at once. In `shelf` two collections and two names allow the exchange of names that the unique index has to
survive, and two documents make a list of two pages. The requests run side by side as long as no list is read; between two pages
they run one after the other (`OneRequestBesideReader`, a state constraint), because a page shows nothing but what is
committed, and so does not see how transactions overlap. `EveryPageOnce` is proved without it. In `chunker` the text is twice as long as a chunk, so that every
position of a break within a chunk, and a break behind another, occurs. The wrong variants next to some definitions of the
modules are what the checks are tried against: for each property of a passing run, `PROJECT.json` names a definition and
a plausible wrong form of it with which TLC finds the property violated.

### Fairness

`Fairness` is weak fairness of each of the four loops of each worker, and of the Lambda's answer to a request.
`cmd/worker/main.go` starts every loop as a goroutine that runs until the process is stopped, and each loop polls again
after any error, so a loop that can act does. Nothing is assumed of users, and no fault is ever owed. A crash is a fault:
another process with fresh loops takes the place of the dead one (the container is restarted).

`Terminates` assumes that the loop of `ChunkText` is executed, and nothing else; it has no other process to wait for.
`Accounts`, `Identity` and `Listing` state safety only: what must happen in them in the end is up to users, or is
`CleanupFinishes` of `live`.

The liveness properties need fewer faults than attempts, since the code gives up after its limits; `live` has one fault
and two or three attempts. An edit or a deletion during an enrichment uses up an attempt as well, because the commit then
fails. A request whose scraper dies on the last delivery is never answered and waits in the dead-letter queue for an
operator; `MessagesArrive` therefore speaks of requests sent and of results taken, not of requests answered.

## 5. Findings

1. `late_mark`. `docs/operations.md:128`: the last failed result ends the document as `SCRAPE_REJECTED`. The dispatcher
   marks after the send (`internal/worker/outbox.go:86`), and `MarkDocumentProcessing` (`db/queries/documents.sql:104`)
   accepts `SCRAPE_REJECTED`: a failed result consumed between send and mark is undone by the mark, and the document
   stays `SCRAPE_PROCESSING` with no message left that could end it.
2. `late_artifact`. `docs/data-model.md:74`: even if cleanup and a late result meet, the last artifact is deleted.
   `processMessage` decides on requeueing the cleanup by a read made before its transaction
   (`internal/worker/scrape_results.go:155`, `:245`). If that read found the document, and the deletion and the listing
   of keys come before the commit, then a result for an older version commits its keys without requeueing anything.
3. `late_rejection`. `docs/data-model.md:34-46`: nothing leaves `COMPLETED`. `RejectEnrichment`
   (`internal/enrichment/processor.go:75`, `db/queries/documents.sql:140`) asks for the version only, and so rejects a
   document that a commit with a lost answer, or another worker, completed. The job is `SUCCEEDED` and is not tried
   again, so the document stays rejected.
4. `last_attempt`. `docs/data-model.md:53`: a `PROCESSING` job that is not updated for ten minutes can be claimed again.
   `ClaimEnrichmentJobs` (`db/queries/jobs.sql:29`) counts attempts at the claim and requires fewer than five: after a
   crash in the fifth the job remains `PROCESSING`.

The proved properties hold in spite of these: a rejected document is not served, and the ones that are served are right.

## 6. Proofs

| Theorem | Statement |
|---|---|
| `IngestionProofs!TypeCorrect` | `Spec => []TypeOK` |
| `IngestionProofs!SucceededCorrect` | `Spec => SucceededIsTerminal` |
| `IngestionProofs!ScrapedCorrect` | `Spec => []ScrapedStaysScraped` |
| `IngestionProofs!CleanupCorrect` | `Spec => CleanupSeesCurrentKeys`, if `Workers = {p}` |
| `ServedProofs!ServedCorrect` | `Spec => []ServedIsCurrent` |
| `ServedProofs!OwnTextCorrect` | `Spec => []EnrichesOwnText` |
| `LifecycleProofs!Refines` | `Spec => LifecycleSpec` |
| `AccountsProofs!AccountsTypeCorrect` | `Spec => []AccountsTypeOK` |
| `AccountsProofs!WithinLimit` | `Spec => []FilesWithinLimit` |
| `AccountsProofs!Withdrawn` | `Spec => []WithdrawnOwnsNothing` |
| `AccountsProofs!UploadCorrect` | `Spec => []UploadIsAllOrNothing` |
| `AccountsProofs!KeysOutlive` | `Spec => KeysOutliveObjects` |
| `AccountsProofs!RemovalPossible` | `Spec => []RemovalStaysPossible`, if `Workers = {p}` |
| `IdentityProofs!IdentityTypes` | `Spec => []IdentityTypeOK` |
| `IdentityProofs!LimitSlack` | `Spec => []HourlyLimitSlack` |
| `IdentityProofs!ExchangeSlack` | `Spec => []RotationSlack` |
| `IdentityProofs!PasswordEndsSessions` | `Spec => []SessionsEndWithPassword` |
| `IdentityProofs!TicketsOnce` | `Spec => TicketSpec` |
| `ShelfProofs!ShelfTypes` | `Spec => []ListingTypeOK` |
| `ShelfProofs!OnlyByOverlap` | `Spec => []RelationsOnlyByOverlap` |
| `ShelfProofs!EveryPageOnce` | `Spec => ListedOnce` |
| `ChunkerProofs!ChunkerTypes`, `SizeKept`, `NothingLost` | `Spec => []ChunkerTypeOK`, `[]WithinSize`, `[]PassagesKept` |
| `ChunkerProofs!EveryCutAdvances` | `Spec => [][done' \/ start' > start]_vars`, from which `Terminates` follows, since texts are finite |

The assumptions are about the constants, and TLC evaluates them in the runs of their modules:

- `StoreAssumption`: web pages are documents, bounds are natural numbers (positive where the code's limit is), and
  `None` is none of the other values.
- `FileStoreAssumption`: documents are finitely many, and an upload creates at least one, of its own, that is not a web page;
  sizes and the limit are natural numbers.
- `IdentityAssumption`: requests and challenges are finitely many, the two limits are positive.
- `CollectionsAssumption`, `ListingAssumption`: numbers are natural, a page has room for one, names differ from markers.
- `ChunkerAssumption`: the overlap is half of the size at most (180 and 1200 in the code). This is what the progress of
  the loop rests on, because a chunk may end at the first rune of its second half.

The argument, from the bottom:

- `TypeInv` is `TypeOK` with two conjuncts that make it inductive. `OutboxHasRoom`: an event that is not dead has an
  attempt left; without it `RescheduleOrDeadLetter` could count past the limit. `NothingAhead`: a version above the
  current one has neither event nor ENRICH job; without it a new version could meet a dead event and make it pending
  with no attempt left. One lemma per group of statements says that a statement maps rows to rows; one lemma per
  component says that its actions preserve the invariant.
- `ServedInv` adds what is true of the text in flight. `ServedIsCurrent` is not inductive: `Commit` stores the text that
  `Load` read some steps before. `EnricherHoldsOwnText` says that a process holds the own text of the version it is
  about to commit and works on existing jobs only; this needs `EnrichesOwnText`, which in turn needs that the consumer
  checks the rows that `CompleteScrape` affects. `CompletedExists` rules out a COMPLETED row of version 0.
- `LifecycleProofs` sorts every step into five kinds by what it does to a document and its chunks (quiet, creates,
  fetches, indexes, removes), with `NoContentAhead` (nothing is shown or indexed of a version that does not exist), and
  shows that each kind is a step, or a stutter, of `DocumentLifecycle`.
- `StoreProofs` has what the two compositions of the pipeline share. Its `ReadInv` says what a consumer may rely on of what it
  read before its transaction: a result that is past the read of its job is of a version that exists, a document that was
  not found is deleted for good, and one that was found at another version has moved beyond the result's. It is this that
  makes a decision on old reads harmless, or shows where it is not.
- `ScrapedStaysScraped` speaks of recorded keys, jobs and status. It needs `ReadInv` and `OneOutcome`: keys are recorded by
  the result that carries the eventId of the request, and what is sent again under another eventId repeats what
  that result brought; otherwise a failed repetition could reject a version that a completed one had scraped.
- `CleanupCorrect` rests on `CleanupInv`: what the one worker cleans up is deleted (`CleansDeleted`), and a key of the
  current version that its list lacks came with a result that found the document deleted and so requeued the job (`Listed`).
- `AccountsProofs`, documents and objects: `DocsInv` is `ReadInv` and `CleansDeleted` with what is true of uploads
  (`UploadHolds`: a file has no row before its insert and its object is there when it is in the list of the call), and with
  `RemovedForGood`: no upload inserts again what maintenance removed. `UploadIsAllOrNothing` is a part of it.
- `KeysOutlive`: `KeysInv` says that an artifact of a file that a row names keeps the cleanup from being done, and that every
  worker at that file still has it to delete (`FileKeys`, for any faults and workers); and that one of a deleted page's
  current version is in the hands of a worker or its cleanup queued, as long as there was no fault (`CurrentKeys`).
  Each of the steps outside of the cleanup keeps, requeues or removes a job and brings no keys without a requeue
  (`Outside`); the cleanup's own steps are taken one by one.
- `RemovalPossible`: a claim uses up an attempt, and a job is claimed again only after a fault, so that with one
  worker the attempts of a job are at most the faults, and one more while it is in hand (`AttemptsInv`).
- `AccountsProofs`, bytes: the limit is kept because what an upload is about to insert still fits (`ReservationHolds`) from its
  check to its commit. This needs that nobody else inserts meanwhile, which is `LockHeld`, and that every other step adds no
  live file. A set of bytes within another has no more elements, and the union of two no more than both together.
- `IdentityProofs`: `CountedFits` adds to the challenges of the hour the requests that have counted and not created yet;
  whoever counts finds less than the limit and at most all others beside it. `TokenFits` adds to the exchanges of a token
  the requests that hold it; a token that can still be looked up was never exchanged. `SessionsEndWithPassword` is
  inductive given the types. For the tickets, `CodesInv` says what a request that has read a challenge may rely on as long
  as the challenge can be used (`Tried`, `Fit`): its purpose, and that the account of a reset is there, because a withdrawal
  takes all challenges along.
- `ShelfProofs`: `NamesInv` speaks of names that are committed and of those that transactions under way will commit;
  `RowsInv` does the same for relations, and `OverlapInv` also for the rows that were found and not inserted yet, of which the
  code asks nothing any more: that they are noted when their document is being deleted, or was, is what makes it inductive. `ReaderInv` says that what the client has seen lies at or before
  its cursor and what is due behind it.
- `ChunkerProofs`: every passage that begins before the next chunk lies whole in one of the chunks, since the next one
  begins an overlap before the end of the last.

Only model-checked: the liveness properties `MessagesArrive`, `EnrichmentFinishes`, `CleanupFinishes` and `Terminates`
(liveness under fairness and ENABLED are beyond this prover), and the violations. Every safety property of a passing run has a
theorem. Two of these, `CleanupCorrect` and `RemovalPossible`, assume one worker process, as their runs do, because
with two they are false.

## 7. What is left out of the modelled components

- Payload validation: messages of another schema, results without content, malformed outbox rows. The writers in this
  repository produce none, and the readers reject them before any state changes.
- Titles, summaries, hashes, thumbnails, suggested tags: written in the same transactions, read by no decision.
- Bytes of web pages: they count in the usage, but `CompleteScrape` neither locks nor checks, so that files and pages
  together may exceed the limit. `FilesWithinLimit` is of files.
- Redrive from a dead-letter queue: an operator's act.
- FILE and IMAGE documents in the worker: enriched like memos, with the text extracted from S3.
- Removal of old outbox, inbox and job rows: after days in which nothing asks for them. A message that waited in both
  queues, four days in each, may be older than the rows of a withdrawn account; the consumer then finds no
  job and stops, which `ScrapeResults` has (the rows in `Accounts` are removed while such messages are out).
- Tags: `DeleteUnusedTags` against an enrichment that uses the tag at that moment is decided by PostgreSQL's recheck of
  a row inside one statement, below the grain of these models.
- `UpdateCollection` renames the row that has the name at that moment and adds to the collection that it found before:
  after renames in between these may be two collections. The model has this; no document excludes it.
- Access tokens (signed, not revoked), the sending of mail, the profile, retrieval and chat: no state that interleaves.
- Searches, which page by offset, and `ListDocumentsByTag`, which is `Listing` over another joined table.

## 8. Plan

Done: the pipeline with its abstract specification, `FileStore`, `Retention`, `Accounts`, `Identity` with
`OneTimeTicket`, `Collections`, `Listing`, `Chunker`, the eight proof modules, and a theorem for every safety property.

Next, in this order:

1. For two workers, what `CleanupSeesCurrentKeys` and `RemovalStaysPossible` become: stated with what a claim without a
   token lets through.
2. Lemmas towards liveness that are safety: that a waiting job or event is always due again unless its attempts are used
   up, so that `EnrichmentFinishes` and `CleanupFinishes` rest on fairness alone.
3. Tags, with a model of the recheck of a locked row.
4. The clamp of the poll wait and the backoff of the loops, as functions.
