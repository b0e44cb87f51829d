----------------------------- MODULE Retention -----------------------------
(***************************************************************************)
(* The end of an account and of its documents: the part of Withdraw        *)
(* (internal/identity/service.go) that concerns documents, and the hard    *)
(* deletes of a worker's maintenance (internal/worker/maintenance.go).     *)
(*                                                                         *)
(* The ages that maintenance asks for are durations: a row that is not old *)
(* enough yet is left out of the batch.                                    *)
(***************************************************************************)
EXTENDS FileStore

VARIABLE gone  \* documents whose rows were removed; their ids are never used again

RetentionTypeOK == gone \subseteq Docs

RetentionInit == gone = {}

\* ScheduleAccountArtifactCleanup, on the row of one document.
ScheduleCleanup(row) == [state |-> "QUEUED", attempts |-> 0]

Exists(d) == doc[d].cur > 0

\* Wrong variant: the documents are deleted without waiting for the row of the account.
WithdrawUnlocked ==
  /\ account.state = "ACTIVE"
  /\ account' = [account EXCEPT !.state = "WITHDRAWN"]
  /\ doc' = [d \in Docs |-> IF Live(doc[d]) THEN SoftDeleteDocument(doc[d]) ELSE doc[d]]
  /\ cleanup' = [d \in Docs |-> IF Exists(d) THEN ScheduleCleanup(cleanup[d]) ELSE cleanup[d]]
  /\ UNCHANGED <<text, keys, scrapeJob, enrichJob, outbox, inbox, chunks, requests, results,
                 objects, faults, upload, gone>>

\* The transaction of Withdraw.  SoftDeleteAccount waits for the row lock, so that the
\* two statements on documents see what an upload has committed by then.
Withdraw ==
  /\ AccountLockable
  /\ account' = [account EXCEPT !.state = "WITHDRAWN"]
  /\ doc' = [d \in Docs |-> IF Live(doc[d]) THEN SoftDeleteDocument(doc[d]) ELSE doc[d]]
  /\ cleanup' = [d \in Docs |-> IF Exists(d) THEN ScheduleCleanup(cleanup[d]) ELSE cleanup[d]]
  /\ UNCHANGED <<text, keys, scrapeJob, enrichJob, outbox, inbox, chunks, requests, results,
                 objects, faults, upload, gone>>

\* ON DELETE CASCADE takes versions, jobs, chunks and the cleanup job along; the events
\* of the outbox and the inbox have no foreign key.
RemoveDocuments(D) ==
  /\ doc' = [d \in Docs |->
               IF d \in D
               THEN [cur |-> 0, status |-> "ABSENT", deleted |-> FALSE, shown |-> 0] ELSE doc[d]]
  /\ text' = [j \in VersionIds |-> IF j[1] \in D THEN 0 ELSE text[j]]
  /\ keys' = {j \in keys : j[1] \notin D}
  /\ scrapeJob' = [j \in VersionIds |-> IF j[1] \in D THEN "NONE" ELSE scrapeJob[j]]
  /\ enrichJob' = [j \in VersionIds |->
                     IF j[1] \in D THEN [state |-> "NONE", attempts |-> 0] ELSE enrichJob[j]]
  /\ chunks' = [j \in VersionIds |-> IF j[1] \in D THEN 0 ELSE chunks[j]]
  /\ cleanup' = [d \in Docs |->
                   IF d \in D THEN [state |-> "NONE", attempts |-> 0] ELSE cleanup[d]]
  /\ gone' = gone \cup D
  /\ UNCHANGED <<outbox, inbox, requests, results, objects, faults, upload>>

Cleaned(d) == cleanup[d].state = "SUCCEEDED"

HardDeletable == {d \in Docs : Exists(d) /\ doc[d].deleted /\ Cleaned(d)}

\* Any non-empty set of them: those that are old enough.
HardDeleteCleanedDocuments ==
  /\ \E batch \in (SUBSET HardDeletable) \ {{}} : RemoveDocuments(batch)
  /\ UNCHANGED account

\* The cascade from the account takes its documents along.
HardDeleteWithdrawnAccounts ==
  /\ account.state = "WITHDRAWN"
  /\ \A d \in Docs : Exists(d) => Cleaned(d)
  /\ account' = [account EXCEPT !.state = "GONE"]
  /\ RemoveDocuments({d \in Docs : Exists(d)})

Maintenance == HardDeleteCleanedDocuments \/ HardDeleteWithdrawnAccounts
=============================================================================
