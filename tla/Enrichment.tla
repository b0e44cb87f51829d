---------------------------- MODULE Enrichment ----------------------------
(***************************************************************************)
(* The enrichment processor of a worker process                            *)
(* (internal/enrichment/processor.go).  ProcessBatch claims ENRICH jobs and *)
(* works them one after the other: the document is read, the AI provider   *)
(* is called, which may take minutes, and one transaction writes chunks,   *)
(* summary and state.  What fails is recorded by two statements of their   *)
(* own, FailJob and then RejectEnrichment.                                 *)
(*                                                                         *)
(* A claim that has not been touched for ten minutes can be taken again.   *)
(* Here that needs a fault only while another process still works on it.   *)
(***************************************************************************)
EXTENDS Store

VARIABLE enricher  \* batch: jobs still to do; job: the one at hand; text: its content

EnricherIdle == [batch |-> {}, job |-> None, pc |-> "idle", text |-> 0]

EnricherTypeOK ==
  /\ enricher \in [Workers -> [batch : SUBSET VersionIds, job : VersionIds \cup {None},
                               pc : {"idle", "ready", "failed", "reject"}, text : Texts]]
  /\ \A w \in Workers : enricher[w].pc # "idle" => enricher[w].job \in VersionIds

EnricherInit == enricher = [w \in Workers |-> EnricherIdle]

EnrichedElsewhere(w, j) ==
  \E u \in Workers \ {w} : j \in enricher[u].batch \cup {enricher[u].job}

\* Wrong variant: one attempt too many.
ClaimableOnceMore(j) ==
  /\ enrichJob[j].state \in {"QUEUED", "PROCESSING", "FAILED"}
  /\ enrichJob[j].attempts <= MaxEnrichAttempts

Claimable(j) ==
  /\ enrichJob[j].state \in {"QUEUED", "PROCESSING", "FAILED"}
  /\ enrichJob[j].attempts < MaxEnrichAttempts

\* ClaimEnrichmentJobs.  Any non-empty set, because available_at, updated_at and
\* FOR UPDATE SKIP LOCKED decide which jobs a claim gets.
ClaimEnrichmentJobs(w) ==
  /\ enricher[w] = EnricherIdle
  /\ \E batch \in SUBSET {j \in VersionIds : Claimable(j)} \ {{}} :
       /\ IF \E j \in batch : enrichJob[j].state = "PROCESSING" /\ EnrichedElsewhere(w, j)
          THEN Fault ELSE UNCHANGED faults
       /\ enrichJob' = [j \in VersionIds |->
                          IF j \in batch
                          THEN ClaimEnrichJob(enrichJob[j]) ELSE enrichJob[j]]
       /\ enricher' = [enricher EXCEPT ![w].batch = batch]
  /\ UNCHANGED <<doc, text, keys, scrapeJob, outbox, inbox, chunks, cleanup,
                 requests, results, objects>>

NextJob(w) ==
  enricher' = [enricher EXCEPT ![w] = [EnricherIdle EXCEPT !.batch = enricher[w].batch]]

\* The content of the version, or of the document when the version has none.
ContentOf(j) == IF text[j] # 0 THEN text[j] ELSE doc[j[1]].shown

\* The reads of process: a job whose document is gone or has moved on is completed
\* without work, and one without content fails.  The content of a version does not
\* change once its ENRICH job exists, so that reading it and the document is one step.
Load(w, j) ==
  /\ enricher[w].pc = "idle"
  /\ j \in enricher[w].batch
  /\ LET rest == enricher[w].batch \ {j} IN
     IF IsCurrent(doc[j[1]], j[2])
     THEN /\ enricher' = [enricher EXCEPT ![w] =
               [batch |-> rest, job |-> j, text |-> ContentOf(j),
                pc |-> IF ContentOf(j) = 0 THEN "failed" ELSE "ready"]]
          /\ UNCHANGED enrichJob
     ELSE /\ enrichJob' = [enrichJob EXCEPT ![j] = CompleteEnrichJob(@)]
          /\ enricher' = [enricher EXCEPT ![w].batch = rest]
  /\ UNCHANGED <<doc, text, keys, scrapeJob, outbox, inbox, chunks, cleanup,
                 requests, results, objects, faults>>

\* A read fails, or CompleteJob on a job that needs no work fails or is not answered.
LoadFails(w, j) ==
  /\ enricher[w].pc = "idle"
  /\ j \in enricher[w].batch
  /\ Fault
  /\ enricher' = [enricher EXCEPT ![w] =
                    [batch |-> @.batch \ {j}, job |-> j, pc |-> "failed", text |-> 0]]
  /\ \/ UNCHANGED enrichJob
     \/ /\ ~IsCurrent(doc[j[1]], j[2])
        /\ enrichJob' = [enrichJob EXCEPT ![j] = CompleteEnrichJob(@)]
  /\ UNCHANGED <<doc, text, keys, scrapeJob, outbox, inbox, chunks, cleanup,
                 requests, results, objects>>

\* The transaction: SaveExtractedContent and CompleteEnrichment must match the
\* document and CompleteJob the job, or everything is rolled back.
Enrich(w) ==
  LET j == enricher[w].job IN
  /\ doc' = [doc EXCEPT ![j[1]] = CompleteEnrichment(@, j[2])]
  /\ text' = [text EXCEPT ![j] = enricher[w].text]
  /\ chunks' = [chunks EXCEPT ![j] = enricher[w].text]
  /\ enrichJob' = [enrichJob EXCEPT ![j] = CompleteEnrichJob(@)]

CanEnrich(j) == IsCurrent(doc[j[1]], j[2]) /\ CanComplete(enrichJob[j].state)

Commit(w) ==
  /\ enricher[w].pc = "ready"
  /\ IF CanEnrich(enricher[w].job)
     THEN Enrich(w) /\ NextJob(w)
     ELSE UNCHANGED <<doc, text, chunks, enrichJob>> /\ enricher' = [enricher EXCEPT ![w].pc = "failed"]
  /\ UNCHANGED <<keys, scrapeJob, outbox, inbox, cleanup, requests, results, objects, faults>>

\* The provider or the transaction fails, or the answer to the commit is
\* lost after the commit took effect.
EnrichFails(w) ==
  /\ enricher[w].pc = "ready"
  /\ Fault
  /\ enricher' = [enricher EXCEPT ![w].pc = "failed"]
  /\ \/ UNCHANGED <<doc, text, chunks, enrichJob>>
     \/ CanEnrich(enricher[w].job) /\ Enrich(w)
  /\ UNCHANGED <<keys, scrapeJob, outbox, inbox, cleanup, requests, results, objects>>

RecordFailure(w) ==
  /\ enricher[w].pc = "failed"
  /\ enrichJob' = [enrichJob EXCEPT ![enricher[w].job] = FailEnrichJob(@)]
  /\ enricher' = [enricher EXCEPT ![w].pc = "reject"]
  /\ UNCHANGED <<doc, text, keys, scrapeJob, outbox, inbox, chunks, cleanup,
                 requests, results, objects, faults>>

\* FailJob fails, or is not answered: the document is rejected all the same, then the
\* batch is abandoned.
RecordFailureFails(w) ==
  /\ enricher[w].pc = "failed"
  /\ Fault
  /\ enricher' = [enricher EXCEPT ![w] =
                    [batch |-> {}, job |-> @.job, pc |-> "reject", text |-> @.text]]
  /\ enrichJob' \in {enrichJob, [enrichJob EXCEPT ![enricher[w].job] = FailEnrichJob(@)]}
  /\ UNCHANGED <<doc, text, keys, scrapeJob, outbox, inbox, chunks, cleanup,
                 requests, results, objects>>

\* RejectEnrichment; the error of this statement is ignored.
RejectDocument(w) ==
  /\ enricher[w].pc = "reject"
  /\ LET j == enricher[w].job IN
     \/ doc' = [doc EXCEPT ![j[1]] = RejectEnrichment(@, j[2])] /\ UNCHANGED faults
     \/ Fault /\ UNCHANGED doc
  /\ NextJob(w)
  /\ UNCHANGED <<text, keys, scrapeJob, enrichJob, outbox, inbox, chunks, cleanup,
                 requests, results, objects>>

ProcessBatch(w) ==
  \/ ClaimEnrichmentJobs(w)
  \/ \E j \in VersionIds : Load(w, j)
  \/ Commit(w)
  \/ RecordFailure(w)
  \/ RejectDocument(w)

EnrichmentNext ==
  \E w \in Workers :
    \/ ProcessBatch(w)
    \/ \E j \in VersionIds : LoadFails(w, j)
    \/ EnrichFails(w)
    \/ RecordFailureFails(w)
=============================================================================
