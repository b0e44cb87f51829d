------------------------------- MODULE Store -------------------------------
(***************************************************************************)
(* What the processes of remak-go share: the PostgreSQL tables of the      *)
(* ingestion pipeline, the two SQS queues and the S3 artifacts.            *)
(*                                                                         *)
(* A SQL statement of db/queries is an operator from a row to the row the  *)
(* statement leaves, so that its WHERE clause is the IF and a statement    *)
(* that matches nothing returns the row unchanged.  The components that    *)
(* extend this module call the statements in their transactions.           *)
(*                                                                         *)
(* UNIQUE (document_id, version) and UNIQUE (document_id,                  *)
(* document_version, type) let a version row, its two jobs and its outbox  *)
(* event be indexed by <<document, version>> instead of by their UUIDs.    *)
(***************************************************************************)
EXTENDS Naturals, FiniteSets

CONSTANTS
  Docs,               \* documents that can be created
  Webpages,           \* those of type WEBPAGE; the others are of type MEMO
  Workers,            \* worker processes (cmd/worker)
  None,               \* a value that is no worker, document, version or message
  InlineContent,      \* the scraper puts the content in the result payload
  MaxVersion,         \* bound: versions of a document
  Reissues,           \* bound: results re-sent under an eventId of their own
  MaxSendAttempts,    \* failed sends after which an outbox event is dead-lettered
  MaxEnrichAttempts,  \* claims of an ENRICH job
  MaxCleanupAttempts, \* claims of an artifact cleanup job
  MaxScrapes,         \* maxReceiveCount of the request queue
  MaxReceives,        \* maxReceiveCount of the result queue
  MaxFaults           \* bound: faults of the environment in a behaviour

ASSUME StoreAssumption ==
  /\ Webpages \subseteq Docs
  /\ InlineContent \in BOOLEAN
  /\ MaxVersion \in Nat \ {0}
  /\ {Reissues, MaxEnrichAttempts, MaxCleanupAttempts, MaxFaults} \subseteq Nat
  /\ {MaxSendAttempts, MaxScrapes, MaxReceives} \subseteq Nat \ {0}
  /\ None \notin Docs \cup Workers \cup (Docs \X (1..MaxVersion))

Versions   == 1..MaxVersion
VersionIds == Docs \X Versions

\* A text is named by the version it was written or scraped for; 0 is NULL.
Texts == 0..MaxVersion

\* ENRICH_PROCESSING is written and overwritten inside one transaction of the
\* enrichment processor, so that no committed row holds it.
Statuses == {"ABSENT", "SCRAPE_PENDING", "SCRAPE_PROCESSING", "SCRAPE_REJECTED",
             "ENRICH_PENDING", "ENRICH_REJECTED", "COMPLETED"}

ScrapeStatuses == {"SCRAPE_PENDING", "SCRAPE_PROCESSING", "SCRAPE_REJECTED"}

JobStates == {"NONE", "QUEUED", "PROCESSING", "SUCCEEDED", "FAILED"}

\* A message of the result queue; event 0 carries the eventId of the request.
Results == [id : VersionIds, event : 0..Reissues, kind : {"completed", "failed"}]

VARIABLES
  doc,        \* documents: current_version, status, deleted_at, whose text is shown
  text,       \* document_versions.content
  keys,       \* document_versions whose artifact keys are recorded
  scrapeJob,  \* ingestion_jobs of type SCRAPE
  enrichJob,  \* ingestion_jobs of type ENRICH
  outbox,     \* outbox_events
  inbox,      \* inbox_events
  chunks,     \* the text whose chunks are stored for a version
  cleanup,    \* artifact_cleanup_jobs
  requests,   \* request queue: deliveries left of the request for a version
  results,    \* result queue: deliveries left of a result
  objects,    \* versions whose artifacts are in the S3 bucket
  faults      \* faults the environment has shown so far

storeVars == <<doc, text, keys, scrapeJob, enrichJob, outbox, inbox, chunks,
               cleanup, requests, results, objects, faults>>

-----------------------------------------------------------------------------
DocRow     == [cur : 0..MaxVersion, status : Statuses, deleted : BOOLEAN, shown : Texts]
EnrichRow  == [state : JobStates, attempts : 0..MaxEnrichAttempts]
OutboxRow  == [state : {"NONE", "PENDING", "PUBLISHED", "DEAD"},
               token : Workers \cup {None}, attempts : 0..MaxSendAttempts]
CleanupRow == [state : JobStates, attempts : 0..MaxCleanupAttempts]

StoreTypeOK ==
  /\ doc \in [Docs -> DocRow]
  /\ text \in [VersionIds -> Texts]
  /\ keys \subseteq VersionIds
  /\ scrapeJob \in [VersionIds -> JobStates]
  /\ enrichJob \in [VersionIds -> EnrichRow]
  /\ outbox \in [VersionIds -> OutboxRow]
  /\ inbox \subseteq VersionIds \X (0..Reissues)
  /\ chunks \in [VersionIds -> Texts]
  /\ cleanup \in [Docs -> CleanupRow]
  /\ requests \in [VersionIds -> 0..MaxScrapes]
  /\ results \in [Results -> 0..MaxReceives]
  /\ objects \subseteq VersionIds
  /\ faults \in 0..MaxFaults

StoreInit ==
  /\ doc = [d \in Docs |-> [cur |-> 0, status |-> "ABSENT", deleted |-> FALSE, shown |-> 0]]
  /\ text = [j \in VersionIds |-> 0]
  /\ keys = {}
  /\ scrapeJob = [j \in VersionIds |-> "NONE"]
  /\ enrichJob = [j \in VersionIds |-> [state |-> "NONE", attempts |-> 0]]
  /\ outbox = [j \in VersionIds |-> [state |-> "NONE", token |-> None, attempts |-> 0]]
  /\ inbox = {}
  /\ chunks = [j \in VersionIds |-> 0]
  /\ cleanup = [d \in Docs |-> [state |-> "NONE", attempts |-> 0]]
  /\ requests = [j \in VersionIds |-> 0]
  /\ results = [m \in Results |-> 0]
  /\ objects = {}
  /\ faults = 0

\* A fault is a failed or unanswered call, a crash, a redelivered message or a
\* step that outlives its lease.  Bound: MaxFaults of them in a behaviour.
Fault == faults < MaxFaults /\ faults' = faults + 1

-----------------------------------------------------------------------------
(* Statements on documents.                                                *)

Live(row) == row.cur > 0 /\ ~row.deleted

\* Wrong variants: a deleted document, or a later version, is taken for the current one.
IsCurrentThoughDeleted(row, v) == row.cur = v
IsCurrentOrOlder(row, v)       == row.cur >= v /\ ~row.deleted

IsCurrent(row, v) == row.cur = v /\ ~row.deleted

\* Wrong variant: the status is not looked at.
MarkDocumentAnyway(row, v) ==
  IF row.cur = v THEN [row EXCEPT !.status = "SCRAPE_PROCESSING"] ELSE row

MarkDocumentProcessing(row, v) ==
  IF row.cur = v /\ row.status \in {"SCRAPE_PENDING", "SCRAPE_REJECTED"}
  THEN [row EXCEPT !.status = "SCRAPE_PROCESSING"] ELSE row

CompleteScrape(row, v) ==
  IF IsCurrent(row, v)
  THEN [row EXCEPT !.status = "ENRICH_PENDING", !.shown = v] ELSE row

RejectScrape(row, v) ==
  IF IsCurrent(row, v) THEN [row EXCEPT !.status = "SCRAPE_REJECTED"] ELSE row

CompleteEnrichment(row, v) ==
  IF IsCurrent(row, v) THEN [row EXCEPT !.status = "COMPLETED"] ELSE row

RejectEnrichment(row, v) ==
  IF IsCurrent(row, v) THEN [row EXCEPT !.status = "ENRICH_REJECTED"] ELSE row

SoftDeleteDocument(row) == [row EXCEPT !.deleted = TRUE]

(* Statements on ingestion_jobs, on the state of a job and, as far as ENRICH jobs *)
(* need them, on its row.                                                        *)

CreateIngestionJob(state) == IF state = "NONE" THEN "QUEUED" ELSE state

\* Wrong variant: a finished job is marked as well.
MarkJobAnyway(state) == IF state = "NONE" THEN "NONE" ELSE "PROCESSING"

MarkJobProcessing(state) ==
  IF state \in {"QUEUED", "FAILED"} THEN "PROCESSING" ELSE state

CanComplete(state) == state \in {"QUEUED", "PROCESSING", "SUCCEEDED"}
CompleteJob(state) == IF CanComplete(state) THEN "SUCCEEDED" ELSE state

FailJob(state) == IF state \in {"QUEUED", "PROCESSING"} THEN "FAILED" ELSE state

CreateEnrichJob(row)   == [row EXCEPT !.state = CreateIngestionJob(@)]
ClaimEnrichJob(row)    == [state |-> "PROCESSING", attempts |-> row.attempts + 1]
CompleteEnrichJob(row) == [row EXCEPT !.state = CompleteJob(@)]
FailEnrichJob(row)     == [row EXCEPT !.state = FailJob(@)]

(* Statements on outbox_events; MarkOutboxPublished and RescheduleOrDeadLetter ask *)
(* for the lock token of the process.                                             *)

CreateOutboxEvent(row)   == [row EXCEPT !.state = "PENDING"]
ClaimOutboxEvent(row, w) == [row EXCEPT !.token = w]

Leased(row, w) == row.state = "PENDING" /\ row.token = w

MarkOutboxPublished(row, w) ==
  IF Leased(row, w) THEN [row EXCEPT !.state = "PUBLISHED"] ELSE row

\* RescheduleOutboxEvent, or DeadLetterOutboxEvent on the last attempt.
RescheduleOrDeadLetter(row, w) ==
  IF Leased(row, w)
  THEN [state |-> IF row.attempts + 1 = MaxSendAttempts THEN "DEAD" ELSE "PENDING",
        token |-> None, attempts |-> row.attempts + 1]
  ELSE row

(* Statements on artifact_cleanup_jobs.                                    *)

ClaimCleanupJob(row) == [state |-> "PROCESSING", attempts |-> row.attempts + 1]

CreateArtifactCleanupJob(row) ==
  IF row.state = "NONE" THEN [state |-> "QUEUED", attempts |-> 0] ELSE row

\* Wrong variant: a job that is being worked on is not requeued.
RequeueFinishedJob(row) ==
  IF row.state \in {"SUCCEEDED", "FAILED"} THEN [state |-> "QUEUED", attempts |-> 0] ELSE row

RequeueArtifactCleanupJob(row) ==
  IF row.state # "NONE" THEN [state |-> "QUEUED", attempts |-> 0] ELSE row

CompleteArtifactCleanupJob(row) ==
  IF row.state \in {"PROCESSING", "SUCCEEDED"}
  THEN [row EXCEPT !.state = "SUCCEEDED"] ELSE row

FailArtifactCleanupJob(row) ==
  IF row.state = "PROCESSING" THEN [row EXCEPT !.state = "FAILED"] ELSE row
=============================================================================
