-------------------------- MODULE ArtifactCleanup --------------------------
(***************************************************************************)
(* The artifact cleanup of a worker process                                *)
(* (internal/worker/artifact_cleanup.go): the jobs that Delete queued are  *)
(* claimed in a batch, and the artifact keys recorded for the versions of  *)
(* a document are listed once and deleted from the bucket one by one.      *)
(***************************************************************************)
EXTENDS Store

VARIABLE cleaner  \* batch: documents still to do; doc: the one at hand, with the keys
                  \* seen in the listing and those of them left to delete

CleanerIdle == [batch |-> {}, doc |-> None, pc |-> "idle", seen |-> {}, left |-> {}]

CleanerTypeOK ==
  /\ cleaner \in [Workers -> [batch : SUBSET Docs, doc : Docs \cup {None},
                              pc : {"idle", "deleting", "failed"},
                              seen : SUBSET VersionIds, left : SUBSET VersionIds]]
  /\ \A w \in Workers : cleaner[w].pc # "idle" => cleaner[w].doc \in Docs

CleanerInit == cleaner = [w \in Workers |-> CleanerIdle]

CleanedElsewhere(w, d) ==
  \E u \in Workers \ {w} : d \in cleaner[u].batch \cup {cleaner[u].doc}

\* Wrong variant: a failed cleanup is not tried again.
CleanableUnlessFailed(d) ==
  /\ cleanup[d].state \in {"QUEUED", "PROCESSING"}
  /\ cleanup[d].attempts < MaxCleanupAttempts

Cleanable(d) ==
  /\ cleanup[d].state \in {"QUEUED", "PROCESSING", "FAILED"}
  /\ cleanup[d].attempts < MaxCleanupAttempts

ClaimArtifactCleanupJobs(w) ==
  /\ cleaner[w] = CleanerIdle
  /\ \E batch \in SUBSET {d \in Docs : Cleanable(d)} \ {{}} :
       /\ IF \E d \in batch : cleanup[d].state = "PROCESSING" /\ CleanedElsewhere(w, d)
          THEN Fault ELSE UNCHANGED faults
       /\ cleanup' = [d \in Docs |->
                        IF d \in batch
                        THEN ClaimCleanupJob(cleanup[d]) ELSE cleanup[d]]
       /\ cleaner' = [cleaner EXCEPT ![w].batch = batch]
  /\ UNCHANGED <<doc, text, keys, scrapeJob, enrichJob, outbox, inbox, chunks,
                 requests, results, objects>>

NextDocument(w) ==
  cleaner' = [cleaner EXCEPT ![w] = [CleanerIdle EXCEPT !.batch = cleaner[w].batch]]

KeysOf(d) == {j \in keys : j[1] = d}

ListDocumentArtifactKeys(w, d) ==
  /\ cleaner[w].pc = "idle"
  /\ d \in cleaner[w].batch
  /\ cleaner' = [cleaner EXCEPT ![w] = [batch |-> @.batch \ {d}, doc |-> d, pc |-> "deleting",
                                        seen |-> KeysOf(d), left |-> KeysOf(d)]]
  /\ UNCHANGED storeVars

\* The raw artifact and the content artifact of a version go together here.
DeleteObject(w, j) ==
  /\ cleaner[w].pc = "deleting"
  /\ j \in cleaner[w].left
  /\ objects' = objects \ {j}
  /\ cleaner' = [cleaner EXCEPT ![w].left = @ \ {j}]
  /\ UNCHANGED <<doc, text, keys, scrapeJob, enrichJob, outbox, inbox, chunks, cleanup,
                 requests, results, faults>>

\* CompleteArtifactCleanupJob; a job requeued meanwhile does not match, which is an error.
CompleteCleanup(w) ==
  LET d == cleaner[w].doc IN
  /\ cleaner[w].pc = "deleting"
  /\ cleaner[w].left = {}
  /\ cleanup' = [cleanup EXCEPT ![d] = CompleteArtifactCleanupJob(@)]
  /\ IF cleanup[d].state \in {"PROCESSING", "SUCCEEDED"}
     THEN NextDocument(w)
     ELSE cleaner' = [cleaner EXCEPT ![w].pc = "failed"]
  /\ UNCHANGED <<doc, text, keys, scrapeJob, enrichJob, outbox, inbox, chunks,
                 requests, results, objects, faults>>

\* Listing, a DeleteObject or the completing statement fails, or takes effect and is
\* not answered.
CleanupFails(w) ==
  /\ cleaner[w].pc = "deleting"
  /\ Fault
  /\ \/ UNCHANGED <<objects, cleanup>>
     \/ /\ \E j \in cleaner[w].left : objects' = objects \ {j}
        /\ UNCHANGED cleanup
     \/ /\ cleaner[w].left = {}
        /\ cleanup' = [cleanup EXCEPT ![cleaner[w].doc] = CompleteArtifactCleanupJob(@)]
        /\ UNCHANGED objects
  /\ cleaner' = [cleaner EXCEPT ![w].pc = "failed"]
  /\ UNCHANGED <<doc, text, keys, scrapeJob, enrichJob, outbox, inbox, chunks, requests, results>>

FailCleanup(w) ==
  /\ cleaner[w].pc = "failed"
  /\ cleanup' = [cleanup EXCEPT ![cleaner[w].doc] = FailArtifactCleanupJob(@)]
  /\ NextDocument(w)
  /\ UNCHANGED <<doc, text, keys, scrapeJob, enrichJob, outbox, inbox, chunks,
                 requests, results, objects, faults>>

\* FailArtifactCleanupJob fails: the batch is abandoned.
FailCleanupFails(w) ==
  /\ cleaner[w].pc = "failed"
  /\ Fault
  /\ cleaner' = [cleaner EXCEPT ![w] = CleanerIdle]
  /\ UNCHANGED <<doc, text, keys, scrapeJob, enrichJob, outbox, inbox, chunks, cleanup,
                 requests, results, objects>>

CleanBatch(w) ==
  \/ ClaimArtifactCleanupJobs(w)
  \/ \E d \in Docs : ListDocumentArtifactKeys(w, d)
  \/ \E j \in VersionIds : DeleteObject(w, j)
  \/ CompleteCleanup(w)
  \/ FailCleanup(w)

CleanupNext == \E w \in Workers : CleanBatch(w) \/ CleanupFails(w) \/ FailCleanupFails(w)
=============================================================================
