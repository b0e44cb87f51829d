--------------------------- MODULE AccountsProofs ---------------------------
(***************************************************************************)
(* Theorems about Accounts for every value of its constants: the storage   *)
(* limit, the withdrawal, what an upload leaves behind, and the cleanup    *)
(* that a removal waits for.                                               *)
(***************************************************************************)
EXTENDS Accounts, StoreProofs, FiniteSetTheorems

USE DEF Versions, VersionIds, Texts

-----------------------------------------------------------------------------
(* Types.                                                                  *)

\* Files are documents of one version, and no web pages.
LEMMA FilesAreDocs ==
  /\ Files \subseteq Docs
  /\ \A u \in Uploads : FilesOf[u] \subseteq Files
  /\ \A d \in Docs : ObjectOf(d) \in VersionIds /\ ObjectOf(d)[1] = d
  /\ \A d \in Files : d \notin Webpages
  <1>1. 1 \in Versions
    BY StoreAssumption
  <1> QED BY <1>1, FileStoreAssumption DEF Files, ObjectOf

\* The inserts of an upload are rows of their tables.
LEMMA InsertTypes ==
  ASSUME StoreTypeOK, NEW u \in Uploads, Insert(u)
  PROVE  /\ doc' \in [Docs -> DocRow]
         /\ text' \in [VersionIds -> Texts]
         /\ keys' \subseteq VersionIds
         /\ enrichJob' \in [VersionIds -> EnrichRow]
  <1>1. [cur |-> 1, status |-> "ENRICH_PENDING", deleted |-> FALSE, shown |-> 1] \in DocRow
        /\ 1 \in Texts
    BY StoreAssumption DEF DocRow, Statuses
  <1>2. doc' \in [Docs -> DocRow] /\ text' \in [VersionIds -> Texts]
    BY <1>1 DEF StoreTypeOK, Insert
  <1>3. keys' \subseteq VersionIds
    BY FilesAreDocs DEF StoreTypeOK, Insert
  <1>4. enrichJob' \in [VersionIds -> EnrichRow]
    <2>1. \A j \in VersionIds : enrichJob[j] \in EnrichRow /\ CreateEnrichJob(enrichJob[j]) \in EnrichRow
      BY EnrichStatements DEF StoreTypeOK
    <2> QED BY <2>1 DEF Insert
  <1> QED BY <1>2, <1>3, <1>4

\* What an upload does to the store: objects come and go, or the rows of its files are
\* inserted.
LEMMA UploadStore ==
  ASSUME StoreTypeOK, NEW u \in Uploads, Upload(u)
  PROVE  /\ StoreTypeOK'
         /\ UNCHANGED <<scrapeJob, outbox, inbox, chunks, cleanup, requests, results>>
         /\ \/ UNCHANGED <<doc, text, keys, enrichJob>>
            \/ upload[u].pc = "inserting" /\ Insert(u) /\ UNCHANGED objects
  <1>1. faults \in 0..MaxFaults /\ objects \subseteq VersionIds
    BY DEF StoreTypeOK
  <1>2. /\ UNCHANGED <<scrapeJob, outbox, inbox, chunks, cleanup, requests, results>>
        /\ \/ UNCHANGED <<doc, text, keys, enrichJob>>
           \/ upload[u].pc = "inserting" /\ Insert(u) /\ UNCHANGED objects
        /\ Fault \/ UNCHANGED faults
    BY DEF Upload, PutObject, RejectFile, PutFails, Reserve, CommitUpload, PersistFails, Compensate,
           CompensateFails, CrashUpload, storeVars
  <1>3. \/ UNCHANGED objects
        \/ \E d \in Files : objects' = objects \cup {ObjectOf(d)}
        \/ \E d \in Files : objects' = objects \ {ObjectOf(d)}
    BY DEF Upload, PutObject, RejectFile, PutFails, Reserve, CommitUpload, PersistFails, Compensate,
           CompensateFails, CrashUpload, storeVars
  <1>4. objects' \subseteq VersionIds
    BY <1>1, <1>3, FilesAreDocs
  <1>5. faults' \in 0..MaxFaults
    BY <1>1, <1>2, FaultCounted
  <1>6. CASE UNCHANGED <<doc, text, keys, enrichJob>>
    BY <1>2, <1>4, <1>5, <1>6 DEF StoreTypeOK
  <1>7. CASE Insert(u)
    BY <1>2, <1>4, <1>5, <1>7, InsertTypes DEF StoreTypeOK
  <1> QED BY <1>2, <1>6, <1>7

\* An upload leaves the lock with the one upload that inserts.
LEMMA UploadTypes ==
  ASSUME FileStoreTypeOK, NEW u \in Uploads, Upload(u)
  PROVE  FileStoreTypeOK'
  <1>1. /\ LockHeld
        /\ upload \in [Uploads -> [pc : {"storing", "inserting", "compensating", "done", "crashed"},
                                   stored : SUBSET Files]]
        /\ account \in [state : {"ACTIVE", "WITHDRAWN", "GONE"}, lock : Uploads \cup {None}]
        /\ None \notin Uploads
        /\ FilesOf[u] \in SUBSET Files
        /\ upload[u].stored \in SUBSET Files
    BY FilesAreDocs, FileStoreAssumption DEF FileStoreTypeOK
  \* Outside of a transaction.
  <1>2. ASSUME NEW p \in {"storing", "compensating"}, NEW kept \in SUBSET Files,
               upload[u].pc # "inserting", UNCHANGED account,
               upload' = [upload EXCEPT ![u] = [pc |-> p, stored |-> kept]]
        PROVE  FileStoreTypeOK'
    BY <1>1, <1>2 DEF FileStoreTypeOK, LockHeld
  \* The end of a transaction.
  <1>3. ASSUME NEW p \in {"compensating", "done", "crashed"}, NEW kept \in SUBSET Files,
               account' = Unlock(u),
               upload' = [upload EXCEPT ![u] = [pc |-> p, stored |-> kept]]
        PROVE  FileStoreTypeOK'
    BY <1>1, <1>3 DEF FileStoreTypeOK, LockHeld, Unlock
  <1>4. ASSUME NEW d \in Files, PutObject(u, d) \/ PutFails(u, d) \/ Compensate(u, d)
        PROVE  FileStoreTypeOK'
    <2>1. upload[u].stored \cup {d} \in SUBSET Files /\ upload[u].stored \ {d} \in SUBSET Files
      BY <1>1
    <2>2. /\ UNCHANGED account /\ upload[u].pc # "inserting"
          /\ \/ upload' = [upload EXCEPT ![u] = [pc |-> "storing", stored |-> upload[u].stored \cup {d}]]
             \/ upload' = [upload EXCEPT ![u] = [pc |-> "compensating", stored |-> upload[u].stored]]
             \/ upload' = [upload EXCEPT ![u] = [pc |-> "compensating", stored |-> upload[u].stored \ {d}]]
      BY <1>1, <1>4 DEF PutObject, PutFails, Compensate
    <2> QED BY <1>1, <1>2, <2>1, <2>2
  <1>5. ASSUME RejectFile(u) \/ CompensateFails(u) PROVE FileStoreTypeOK'
    <2>1. PICK kept \in SUBSET Files :
            upload' = [upload EXCEPT ![u] = [pc |-> "compensating", stored |-> kept]]
      BY <1>1, <1>5 DEF RejectFile, CompensateFails
    <2>2. UNCHANGED account /\ upload[u].pc # "inserting"
      BY <1>5 DEF RejectFile, CompensateFails
    <2> QED BY <1>2, <2>1, <2>2
  <1>6. ASSUME Reserve(u) PROVE FileStoreTypeOK'
    <2>1. CASE account.state = "ACTIVE" /\ Fits(u)
      <3>1. /\ account' = [account EXCEPT !.lock = u] /\ account.lock = None
            /\ upload' = [upload EXCEPT ![u].pc = "inserting"]
        BY <1>6, <2>1 DEF Reserve
      <3>2. (upload \in [Uploads -> [pc : {"storing", "inserting", "compensating", "done", "crashed"},
                                     stored : SUBSET Files]])'
        BY <1>1, <3>1
      <3>3. (account \in [state : {"ACTIVE", "WITHDRAWN", "GONE"}, lock : Uploads \cup {None}])'
        BY <1>1, <3>1
      <3>4. LockHeld'
        BY <1>1, <2>1, <3>1 DEF LockHeld
      <3> QED BY <3>2, <3>3, <3>4 DEF FileStoreTypeOK
    <2>2. CASE ~(account.state = "ACTIVE" /\ Fits(u))
      <3>1. UNCHANGED account /\ upload[u].pc # "inserting"
            /\ upload' = [upload EXCEPT ![u] = [pc |-> "compensating", stored |-> upload[u].stored]]
        BY <1>1, <1>6, <2>2 DEF Reserve, Stored
      <3> QED BY <1>1, <1>2, <3>1
    <2> QED BY <2>1, <2>2
  <1>7. ASSUME CommitUpload(u) \/ PersistFails(u) \/ CrashUpload(u) PROVE FileStoreTypeOK'
    <2>1. PICK p \in {"compensating", "done", "crashed"}, kept \in SUBSET Files :
            upload' = [upload EXCEPT ![u] = [pc |-> p, stored |-> kept]]
      BY <1>1, <1>7 DEF CommitUpload, PersistFails, CrashUpload
    <2> QED BY <1>3, <1>7, <2>1 DEF CommitUpload, PersistFails, CrashUpload
  <1> QED BY <1>4, <1>5, <1>6, <1>7 DEF Upload

\* A withdrawal leaves the types: nobody holds the lock of the account.
LEMMA WithdrawTypes ==
  ASSUME StoreTypeOK, FileStoreTypeOK, RetentionTypeOK, Withdraw
  PROVE  StoreTypeOK' /\ FileStoreTypeOK' /\ RetentionTypeOK'
  <1>1. /\ doc' = [d \in Docs |-> IF Live(doc[d]) THEN SoftDeleteDocument(doc[d]) ELSE doc[d]]
        /\ cleanup' = [d \in Docs |-> IF Exists(d) THEN ScheduleCleanup(cleanup[d]) ELSE cleanup[d]]
        /\ account' = [state |-> "WITHDRAWN", lock |-> None] /\ account.lock = None
        /\ UNCHANGED <<upload, gone>>
    BY DEF Withdraw, AccountLockable
  <1>2. \A d \in Docs : SoftDeleteDocument(doc[d]) \in DocRow /\ doc[d] \in DocRow
    BY DocStatements, StoreAssumption DEF StoreTypeOK
  <1>3. \A d \in Docs : cleanup[d] \in CleanupRow /\ ScheduleCleanup(cleanup[d]) \in CleanupRow
    BY StoreAssumption DEF StoreTypeOK, ScheduleCleanup, CleanupRow, JobStates
  <1>4. doc' \in [Docs -> DocRow] /\ cleanup' \in [Docs -> CleanupRow]
    BY <1>1, <1>2, <1>3
  <1>5. FileStoreTypeOK'
    BY <1>1, FileStoreAssumption DEF FileStoreTypeOK, LockHeld
  <1> QED BY <1>1, <1>4, <1>5 DEF Withdraw, StoreTypeOK, RetentionTypeOK

\* What is removed by maintenance: documents whose cleanup is done, of an account that
\* is withdrawn if they are all that it has.
LEMMA RemovalCases ==
  ASSUME Maintenance
  PROVE  \E D \in SUBSET Docs :
           /\ RemoveDocuments(D)
           /\ \A d \in D : Exists(d) /\ Cleaned(d)
           /\ \/ UNCHANGED account
              \/ /\ account.state = "WITHDRAWN" /\ account' = [account EXCEPT !.state = "GONE"]
                 /\ D = {d \in Docs : Exists(d)}
  <1>1. CASE HardDeleteCleanedDocuments
    <2>1. PICK D \in SUBSET HardDeletable : RemoveDocuments(D) /\ UNCHANGED account
      BY <1>1 DEF HardDeleteCleanedDocuments
    <2>2. D \in SUBSET Docs /\ \A d \in D : Exists(d) /\ Cleaned(d)
      BY DEF HardDeletable
    <2> QED BY <2>1, <2>2
  <1>2. CASE HardDeleteWithdrawnAccounts
    <2> DEFINE D == {d \in Docs : Exists(d)}
    <2>1. D \in SUBSET Docs /\ \A d \in D : Exists(d) /\ Cleaned(d)
      BY <1>2 DEF HardDeleteWithdrawnAccounts
    <2>2. /\ RemoveDocuments(D) /\ account.state = "WITHDRAWN"
          /\ account' = [account EXCEPT !.state = "GONE"]
      BY <1>2 DEF HardDeleteWithdrawnAccounts
    <2>3. D = {d \in Docs : Exists(d)}
      OBVIOUS
    <2> HIDE DEF D
    <2> QED BY <2>1, <2>2, <2>3
  <1> QED BY <1>1, <1>2 DEF Maintenance

\* A removal leaves the types.
LEMMA RemoveTypes ==
  ASSUME StoreTypeOK, FileStoreTypeOK, RetentionTypeOK, Maintenance
  PROVE  StoreTypeOK' /\ FileStoreTypeOK' /\ RetentionTypeOK'
  <1>1. PICK D \in SUBSET Docs :
           /\ RemoveDocuments(D)
           /\ \/ UNCHANGED account
              \/ account.state = "WITHDRAWN" /\ account' = [account EXCEPT !.state = "GONE"]
    BY RemovalCases
  <1>2. [cur |-> 0, status |-> "ABSENT", deleted |-> FALSE, shown |-> 0] \in DocRow /\ 0 \in Texts
        /\ [state |-> "NONE", attempts |-> 0] \in CleanupRow
        /\ [state |-> "NONE", attempts |-> 0] \in EnrichRow
        /\ "NONE" \in JobStates
    BY StoreAssumption DEF DocRow, Statuses, CleanupRow, EnrichRow, JobStates
  <1>3. doc' \in [Docs -> DocRow] /\ text' \in [VersionIds -> Texts] /\ keys' \subseteq VersionIds
        /\ scrapeJob' \in [VersionIds -> JobStates]
    BY <1>1, <1>2 DEF StoreTypeOK, RemoveDocuments
  <1>4. /\ enrichJob' \in [VersionIds -> EnrichRow] /\ chunks' \in [VersionIds -> Texts]
        /\ cleanup' \in [Docs -> CleanupRow]
    BY <1>1, <1>2 DEF StoreTypeOK, RemoveDocuments
  <1>5. StoreTypeOK'
    BY <1>1, <1>3, <1>4 DEF StoreTypeOK, RemoveDocuments
  <1>6. FileStoreTypeOK'
    BY <1>1, FileStoreAssumption DEF FileStoreTypeOK, LockHeld, RemoveDocuments
  <1>7. RetentionTypeOK'
    BY <1>1 DEF RetentionTypeOK, RemoveDocuments
  <1> QED BY <1>5, <1>6, <1>7

\* The answer to a request leaves the types.
LEMMA ScrapeTypes ==
  ASSUME StoreTypeOK, ScrapeNext
  PROVE  StoreTypeOK'
  <1> USE StoreAssumption
  <1>1. \A j \in VersionIds, kind \in {"completed", "failed"} : AnswerTo(j, kind) \in Results
    BY DEF AnswerTo, Results
  <1>2. ASSUME NEW j \in VersionIds, NEW kind \in {"completed", "failed"},
               results' = [results EXCEPT ![AnswerTo(j, kind)] = MaxReceives]
        PROVE  results' \in [Results -> 0..MaxReceives]
    <2>1. results \in [Results -> 0..MaxReceives] /\ MaxReceives \in 0..MaxReceives
      BY DEF StoreTypeOK
    <2> QED BY ONLY <1>2, <2>1
  <1>3. ASSUME NEW j \in VersionIds, NEW kind \in {"completed", "failed"}, ScrapeAnswered(j, kind)
        PROVE  StoreTypeOK'
    <2>1. /\ MarkDocumentProcessing(doc[j[1]], j[2]) \in DocRow
          /\ MarkJobProcessing(scrapeJob[j]) \in JobStates
          /\ [outbox[j] EXCEPT !.state = "PUBLISHED"] \in OutboxRow
      <3>1. /\ doc[j[1]] \in DocRow /\ scrapeJob[j] \in JobStates /\ outbox[j] \in OutboxRow
            /\ j[2] \in Versions
        BY DEF StoreTypeOK
      <3> QED BY <3>1, DocStatements, JobStatements DEF OutboxRow
    <2>2. /\ outbox' = [outbox EXCEPT ![j] = [outbox[j] EXCEPT !.state = "PUBLISHED"]]
          /\ scrapeJob' = [scrapeJob EXCEPT ![j] = MarkJobProcessing(scrapeJob[j])]
          /\ doc' = [doc EXCEPT ![j[1]] = MarkDocumentProcessing(doc[j[1]], j[2])]
          /\ objects' = objects \/ objects' = objects \cup {j}
          /\ results' \in [Results -> 0..MaxReceives]
          /\ UNCHANGED <<text, keys, enrichJob, inbox, chunks, cleanup, requests, faults>>
      BY <1>2, <1>3 DEF ScrapeAnswered
    <2>3. doc' \in [Docs -> DocRow] /\ scrapeJob' \in [VersionIds -> JobStates]
      BY <2>1, <2>2 DEF StoreTypeOK
    <2>4. outbox' \in [VersionIds -> OutboxRow]
      <3>1. outbox \in [VersionIds -> OutboxRow]
        BY DEF StoreTypeOK
      <3> QED BY ONLY <2>1, <2>2, <3>1
    <2> QED BY <2>2, <2>3, <2>4 DEF StoreTypeOK
  <1>4. ASSUME NEW j \in VersionIds, ScrapeAnsweredAgain(j) PROVE StoreTypeOK'
    <2>1. faults \in 0..MaxFaults
      BY DEF StoreTypeOK
    <2> QED BY <1>2, <1>4, <2>1, FaultCounted DEF ScrapeAnsweredAgain, StoreTypeOK
  <1> QED BY <1>3, <1>4 DEF ScrapeNext

\* A crash leaves the types.
LEMMA CrashTypes ==
  ASSUME StoreTypeOK, ConsumerTypeOK, CleanerTypeOK, NEW w \in Workers, CrashWorker(w)
  PROVE  StoreTypeOK' /\ ConsumerTypeOK' /\ CleanerTypeOK'
  <1>1. ConsumerTypeOK'
    BY StopTypes DEF CrashWorker, ConsumerStops
  <1>2. CleanerTypeOK'
    BY DEF CrashWorker, CleanerTypeOK, CleanerIdle
  <1>3. faults \in 0..MaxFaults
    BY DEF StoreTypeOK
  <1> QED BY <1>1, <1>2, <1>3, FaultCounted DEF CrashWorker, StoreTypeOK

\* Every step leaves the types.
LEMMA TypeStep == ASSUME AccountsTypeOK, [Next]_vars PROVE AccountsTypeOK'
  <1> USE DEF AccountsTypeOK
  <1>1. UNCHANGED <<consumer>> => ConsumerTypeOK'
    BY DEF ConsumerTypeOK
  <1>2. UNCHANGED <<cleaner>> => CleanerTypeOK'
    BY DEF CleanerTypeOK
  <1>3. UNCHANGED <<account, upload>> => FileStoreTypeOK'
    BY DEF FileStoreTypeOK, LockHeld
  <1>4. UNCHANGED <<gone>> => RetentionTypeOK'
    BY DEF RetentionTypeOK
  <1>5. ASSUME NEW d \in Docs, CreateDocument(d) \/ ChangeDocument(d), UNCHANGED <<loopVars, accountVars>>
        PROVE  AccountsTypeOK'
    <2>1. Writes(d)
      BY <1>5 DEF CreateDocument, ChangeDocument, Writes
    <2> QED BY <1>1, <1>2, <1>3, <1>4, <1>5, <2>1, WriteTypes DEF loopVars, accountVars
  <1>6. ASSUME NEW u \in Uploads, Upload(u), UNCHANGED <<loopVars, gone>> PROVE AccountsTypeOK'
    BY <1>1, <1>2, <1>4, <1>6, UploadStore, UploadTypes DEF loopVars
  <1>7. CASE (Withdraw \/ RunMaintenance) /\ UNCHANGED loopVars
    BY <1>1, <1>2, <1>7, WithdrawTypes, RemoveTypes DEF loopVars, RunMaintenance
  <1>8. CASE ScrapeNext /\ UNCHANGED <<loopVars, accountVars>>
    BY <1>1, <1>2, <1>3, <1>4, <1>8, ScrapeTypes DEF loopVars, accountVars
  <1>9. CASE ConsumerNext /\ UNCHANGED <<cleaner, accountVars>>
    BY <1>2, <1>3, <1>4, <1>9, ConsumerTypes DEF accountVars
  <1>10. CASE CleanupNext /\ UNCHANGED <<consumer, accountVars>>
    BY <1>1, <1>3, <1>4, <1>10, CleanupTypes DEF accountVars
  <1>11. ASSUME NEW w \in Workers, CrashWorker(w), UNCHANGED accountVars PROVE AccountsTypeOK'
    BY <1>3, <1>4, <1>11, CrashTypes DEF accountVars
  <1>12. CASE UNCHANGED vars
    BY <1>1, <1>2, <1>3, <1>4, <1>12 DEF vars, storeVars, loopVars, accountVars, StoreTypeOK
  <1> QED BY <1>5, <1>6, <1>7, <1>8, <1>9, <1>10, <1>11, <1>12 DEF Next, FileStoreNext

\* The empty store is of the types.
LEMMA InitTypes == Init => AccountsTypeOK
  <1> SUFFICES ASSUME Init PROVE AccountsTypeOK
    OBVIOUS
  <1> USE StoreAssumption DEF Init
  <1>1. StoreTypeOK
    BY DEF StoreInit, StoreTypeOK, DocRow, Statuses, JobStates, EnrichRow, OutboxRow, CleanupRow
  <1>2. ConsumerTypeOK /\ CleanerTypeOK
    BY DEF ConsumerInit, ConsumerTypeOK, ConsumerIdle, JobStates, CleanerInit, CleanerTypeOK, CleanerIdle
  <1>3. FileStoreTypeOK /\ RetentionTypeOK
    BY FileStoreAssumption DEF FileStoreInit, FileStoreTypeOK, LockHeld, RetentionInit, RetentionTypeOK
  <1> QED BY <1>1, <1>2, <1>3 DEF AccountsTypeOK

\* The type invariant of the accounts, with the one holder of the row lock.
THEOREM AccountsTypeCorrect == Spec => []AccountsTypeOK
  BY InitTypes, TypeStep, PTL DEF Spec
-----------------------------------------------------------------------------
(* Rows that only their owner makes and unmakes.                           *)

\* Every document keeps its version, whether it is deleted, and whether it has a cleanup
\* job.
SameRows ==
  \A d \in Docs :
    /\ doc'[d].cur = doc[d].cur
    /\ doc'[d].deleted = doc[d].deleted
    /\ cleanup'[d].state # "NONE" <=> cleanup[d].state # "NONE"

\* The steps of the pipeline.
Pipeline ==
  \/ ScrapeNext /\ UNCHANGED loopVars
  \/ ConsumerNext /\ UNCHANGED cleaner
  \/ CleanupNext /\ UNCHANGED consumer
  \/ \E w \in Workers : CrashWorker(w)
  \/ UNCHANGED <<storeVars, loopVars>>

\* The answer to a request touches no more than the status of a document; it is about
\* a page that was asked for.
LEMMA ScrapeRows ==
  ASSUME StoreTypeOK, ScrapeNext
  PROVE  /\ SameRows
         /\ UNCHANGED <<text, keys, enrichJob, inbox, chunks, cleanup, requests>>
         /\ \A j \in VersionIds : scrapeJob'[j] # "NONE" <=> scrapeJob[j] # "NONE"
         /\ \E j \in VersionIds, kind \in {"completed", "failed"} :
              /\ outbox[j].state # "NONE"
              /\ results' = [results EXCEPT ![AnswerTo(j, kind)] = MaxReceives]
              /\ \/ outbox' = outbox /\ outbox[j].state = "PUBLISHED" /\ Fault
                 \/ outbox' = [outbox EXCEPT ![j].state = "PUBLISHED"] /\ outbox[j].state = "PENDING"
              /\ objects' = objects \/ objects' = objects \cup {j}
  <1>0. /\ doc \in [Docs -> DocRow] /\ scrapeJob \in [VersionIds -> JobStates]
    BY DEF StoreTypeOK
  <1>1. ASSUME NEW j \in VersionIds, NEW kind \in {"completed", "failed"}, ScrapeAnswered(j, kind)
        PROVE  /\ SameRows
               /\ \A i \in VersionIds : scrapeJob'[i] # "NONE" <=> scrapeJob[i] # "NONE"
    <2>1. /\ j[1] \in Docs
          /\ doc' = [doc EXCEPT ![j[1]] = MarkDocumentProcessing(doc[j[1]], j[2])]
          /\ scrapeJob' = [scrapeJob EXCEPT ![j] = MarkJobProcessing(scrapeJob[j])]
          /\ UNCHANGED cleanup
      BY <1>1 DEF ScrapeAnswered
    <2>2. /\ MarkDocumentProcessing(doc[j[1]], j[2]).cur = doc[j[1]].cur
          /\ MarkDocumentProcessing(doc[j[1]], j[2]).deleted = doc[j[1]].deleted
      BY <1>0, <2>1 DEF MarkDocumentProcessing, DocRow
    <2>3. MarkJobProcessing(scrapeJob[j]) # "NONE" <=> scrapeJob[j] # "NONE"
      BY DEF MarkJobProcessing
    <2> QED BY <1>0, <2>1, <2>2, <2>3 DEF SameRows
  <1>2. ASSUME NEW j \in VersionIds, ScrapeAnsweredAgain(j) PROVE SameRows /\ UNCHANGED scrapeJob
    BY <1>2 DEF ScrapeAnsweredAgain, SameRows
  <1>3. UNCHANGED <<text, keys, enrichJob, inbox, chunks, cleanup, requests>>
    BY DEF ScrapeNext, ScrapeAnswered, ScrapeAnsweredAgain
  <1>4. \E j \in VersionIds, kind \in {"completed", "failed"} :
              /\ outbox[j].state # "NONE"
              /\ results' = [results EXCEPT ![AnswerTo(j, kind)] = MaxReceives]
              /\ \/ outbox' = outbox /\ outbox[j].state = "PUBLISHED" /\ Fault
                 \/ outbox' = [outbox EXCEPT ![j].state = "PUBLISHED"] /\ outbox[j].state = "PENDING"
              /\ objects' = objects \/ objects' = objects \cup {j}
    BY DEF ScrapeNext, ScrapeAnswered, ScrapeAnsweredAgain
  <1> QED BY <1>1, <1>2, <1>3, <1>4 DEF ScrapeNext

\* The pipeline makes and unmakes no row.
LEMMA PipelineRows == ASSUME AccountsTypeOK, Pipeline PROVE SameRows
  <1> USE DEF AccountsTypeOK
  <1>1. UNCHANGED <<doc, cleanup>> => SameRows
    BY DEF SameRows
  <1>2. CASE ConsumerNext
    BY <1>2, ConsumerRows DEF SameRows
  <1>3. CASE CleanupNext
    BY <1>3, CleanupRows DEF SameRows
  <1> QED BY <1>1, <1>2, <1>3, ScrapeRows DEF Pipeline, CrashWorker, storeVars

\* The steps of the accounts.
LEMMA StepCases ==
  ASSUME [Next]_vars
  PROVE  \/ Pipeline /\ UNCHANGED accountVars
         \/ \E d \in Docs : /\ CreateDocument(d) \/ ChangeDocument(d)
                           /\ UNCHANGED <<loopVars, accountVars>>
         \/ \E u \in Uploads : Upload(u) /\ UNCHANGED <<loopVars, gone>>
         \/ Withdraw /\ UNCHANGED loopVars
         \/ RunMaintenance /\ UNCHANGED loopVars
  BY DEF Next, FileStoreNext, Pipeline, vars

-----------------------------------------------------------------------------
(* Counting bytes.                                                         *)

\* The bytes of a set of documents are finitely many.
LEMMA BytesFinite ==
  ASSUME NEW D \in SUBSET Docs
  PROVE  IsFiniteSet(BytesOf(D)) /\ Cardinality(BytesOf(D)) \in Nat
  <1>1. IsFiniteSet(D)
    BY FS_Subset, FileStoreAssumption
  <1>2. IsFiniteSet(1..MaxFileBytes)
    BY FS_Interval, FileStoreAssumption
  <1>3. IsFiniteSet(D \X (1..MaxFileBytes))
    BY <1>1, <1>2, FS_Product
  <1>4. IsFiniteSet(BytesOf(D))
    BY <1>3, FS_Subset DEF BytesOf
  <1> QED BY <1>4, FS_CardinalityType

\* Fewer documents have no more bytes.
LEMMA BytesMonotone ==
  ASSUME NEW D \in SUBSET Docs, NEW E \in SUBSET D
  PROVE  Cardinality(BytesOf(E)) <= Cardinality(BytesOf(D))
  <1>1. BytesOf(E) \in SUBSET BytesOf(D)
    BY DEF BytesOf
  <1> QED BY <1>1, BytesFinite, FS_Subset

\* The bytes of two sets of documents are no more than those of each together.
LEMMA BytesAdd ==
  ASSUME NEW D \in SUBSET Docs, NEW E \in SUBSET Docs
  PROVE  Cardinality(BytesOf(D \cup E)) <= Cardinality(BytesOf(D)) + Cardinality(BytesOf(E))
  <1>1. BytesOf(D \cup E) = BytesOf(D) \cup BytesOf(E)
    BY DEF BytesOf
  <1>2. /\ IsFiniteSet(BytesOf(D)) /\ Cardinality(BytesOf(D)) \in Nat
        /\ IsFiniteSet(BytesOf(E)) /\ Cardinality(BytesOf(E)) \in Nat
    BY BytesFinite
  <1>3. Cardinality(BytesOf(D) \cap BytesOf(E)) \in Nat
    <2>1. BytesOf(D) \cap BytesOf(E) \in SUBSET BytesOf(D)
      OBVIOUS
    <2> QED BY <1>2, <2>1, FS_Subset, FS_CardinalityType
  <1>4. Cardinality(BytesOf(D) \cup BytesOf(E)) =
          Cardinality(BytesOf(D)) + Cardinality(BytesOf(E)) - Cardinality(BytesOf(D) \cap BytesOf(E))
    BY <1>2, FS_Union
  <1>5. \A a, b, c \in Nat : a + b - c <= a + b
    OBVIOUS
  <1> QED BY <1>1, <1>2, <1>3, <1>4, <1>5

-----------------------------------------------------------------------------
(* The limit and the withdrawal.                                           *)

\* What an upload is about to insert still fits.
ReservationHolds ==
  \A u \in Uploads : upload[u].pc = "inserting" =>
    Cardinality(BytesOf(LiveFiles)) + Cardinality(BytesOf(FilesOf[u])) <= StorageLimit

QuotaInv == FilesWithinLimit /\ ReservationHolds /\ WithdrawnOwnsNothing

\* Nothing new is live among the files.
NoNewFile == \A d \in Files : Live(doc'[d]) => Live(doc[d])

\* No upload begins to insert.
NoNewReservation == \A u \in Uploads : upload'[u].pc = "inserting" => upload[u].pc = "inserting"

\* Such a step keeps the limit and every reservation.
LEMMA QuotaCarried ==
  ASSUME QuotaInv, NoNewFile, NoNewReservation
  PROVE  FilesWithinLimit' /\ ReservationHolds'
  <1>1. LiveFiles' \in SUBSET LiveFiles /\ LiveFiles \in SUBSET Docs
    BY FilesAreDocs DEF NoNewFile, LiveFiles
  <1>2. Cardinality(BytesOf(LiveFiles')) <= Cardinality(BytesOf(LiveFiles))
    BY <1>1, BytesMonotone
  <1>3. /\ Cardinality(BytesOf(LiveFiles)) \in Nat
        /\ Cardinality(BytesOf(LiveFiles')) \in Nat
        /\ \A u \in Uploads : Cardinality(BytesOf(FilesOf[u])) \in Nat
    BY <1>1, BytesFinite, FilesAreDocs
  <1>4. FilesWithinLimit'
    BY <1>2, <1>3, FileStoreAssumption DEF QuotaInv, FilesWithinLimit, BytesOf
  <1>5. ReservationHolds'
    <2>1. SUFFICES ASSUME NEW u \in Uploads, upload'[u].pc = "inserting"
                   PROVE  Cardinality(BytesOf(LiveFiles')) + Cardinality(BytesOf(FilesOf[u])) <= StorageLimit
      BY DEF ReservationHolds
    <2>2. Cardinality(BytesOf(LiveFiles)) + Cardinality(BytesOf(FilesOf[u])) <= StorageLimit
      BY <2>1 DEF QuotaInv, ReservationHolds, NoNewReservation
    <2>3. \A a, b, c, l \in Nat : a <= b /\ b + c <= l => a + c <= l
      OBVIOUS
    <2> QED BY <1>2, <1>3, <2>2, <2>3, FileStoreAssumption
  <1> QED BY <1>4, <1>5

\* The inserts of an upload concern its own documents.
LEMMA InsertRows ==
  ASSUME StoreTypeOK, NEW u \in Uploads, Insert(u)
  PROVE  \A d \in Docs \ FilesOf[u] : doc'[d] = doc[d]
  BY DEF Insert

\* When the one upload that inserts commits, what it reserved becomes what is there.
LEMMA InsertKeepsLimit ==
  ASSUME StoreTypeOK, QuotaInv, NEW u \in Uploads, upload[u].pc = "inserting", Insert(u),
         \A t \in Uploads : upload'[t].pc # "inserting"
  PROVE  FilesWithinLimit' /\ ReservationHolds'
  <1>1. LiveFiles' \in SUBSET (LiveFiles \cup FilesOf[u])
    BY InsertRows, FilesAreDocs DEF LiveFiles
  <1>2. LiveFiles \in SUBSET Docs /\ FilesOf[u] \in SUBSET Docs
    BY FilesAreDocs DEF LiveFiles
  <1>3. Cardinality(BytesOf(LiveFiles')) <= Cardinality(BytesOf(LiveFiles \cup FilesOf[u]))
    BY <1>1, <1>2, BytesMonotone
  <1>4. Cardinality(BytesOf(LiveFiles \cup FilesOf[u]))
          <= Cardinality(BytesOf(LiveFiles)) + Cardinality(BytesOf(FilesOf[u]))
    BY <1>2, BytesAdd
  <1>5. Cardinality(BytesOf(LiveFiles)) + Cardinality(BytesOf(FilesOf[u])) <= StorageLimit
    BY DEF QuotaInv, ReservationHolds
  <1>6. /\ Cardinality(BytesOf(LiveFiles)) \in Nat /\ Cardinality(BytesOf(FilesOf[u])) \in Nat
        /\ Cardinality(BytesOf(LiveFiles')) \in Nat
        /\ Cardinality(BytesOf(LiveFiles \cup FilesOf[u])) \in Nat
    <2>1. LiveFiles' \in SUBSET Docs /\ LiveFiles \cup FilesOf[u] \in SUBSET Docs
      BY <1>1, <1>2
    <2> QED BY <1>2, <2>1, BytesFinite
  <1>7. \A a, b, c, e, l \in Nat : a <= b /\ b <= c + e /\ c + e <= l => a <= l
    OBVIOUS
  <1>8. Cardinality(BytesOf(LiveFiles')) <= StorageLimit
    BY <1>3, <1>4, <1>5, <1>6, <1>7, FileStoreAssumption
  <1> QED BY <1>8 DEF FilesWithinLimit, ReservationHolds, BytesOf

\* The limit was read with the lock held: pages count as well, so the files alone fit.
LEMMA ReserveKeepsLimit ==
  ASSUME NEW u \in Uploads, Fits(u)
  PROVE  Cardinality(BytesOf(LiveFiles)) + Cardinality(BytesOf(FilesOf[u])) <= StorageLimit
  <1>1. LiveFiles \in SUBSET Sized /\ Sized \in SUBSET Docs
    BY FilesAreDocs DEF LiveFiles, Sized
  <1>2. Cardinality(BytesOf(LiveFiles)) <= Cardinality(BytesOf(Sized))
    BY <1>1, BytesMonotone
  <1>3. /\ Cardinality(BytesOf(LiveFiles)) \in Nat /\ Cardinality(BytesOf(Sized)) \in Nat
        /\ Cardinality(BytesOf(FilesOf[u])) \in Nat
    BY <1>1, BytesFinite, FilesAreDocs
  <1>4. \A a, b, c, l \in Nat : a <= b /\ b + c <= l => a + c <= l
    OBVIOUS
  <1> QED BY <1>2, <1>3, <1>4, FileStoreAssumption DEF Fits

\* An upload keeps the limit.
LEMMA UploadQuota ==
  ASSUME AccountsTypeOK, QuotaInv, NEW u \in Uploads, Upload(u)
  PROVE  QuotaInv'
  <1> USE FileStoreAssumption
  <1>1. /\ FileStoreTypeOK /\ LockHeld /\ StoreTypeOK
        /\ upload \in [Uploads -> [pc : {"storing", "inserting", "compensating", "done", "crashed"},
                                   stored : SUBSET Files]]
        /\ account \in [state : {"ACTIVE", "WITHDRAWN", "GONE"}, lock : Uploads \cup {None}]
        /\ None \notin Uploads
    BY DEF AccountsTypeOK, FileStoreTypeOK
  <1>2. /\ UNCHANGED cleanup
        /\ UNCHANGED doc \/ (upload[u].pc = "inserting" /\ Insert(u))
    BY <1>1, UploadStore
  <1>3. /\ \A t \in Uploads : t # u => upload'[t] = upload[t]
        /\ account'.state = account.state
    BY <1>1 DEF Upload, PutObject, RejectFile, PutFails, Reserve, CommitUpload, PersistFails, Compensate,
           CompensateFails, CrashUpload, Unlock
  <1>4. CASE upload[u].pc = "inserting" /\ Insert(u)
    <2>1. upload'[u].pc # "inserting"
      BY <1>1, <1>4 DEF Upload, PutObject, RejectFile, PutFails, Reserve, CommitUpload, PersistFails, Compensate,
           CompensateFails, CrashUpload, Stored
    <2>2. \A t \in Uploads : upload'[t].pc # "inserting"
      BY <1>1, <1>3, <1>4, <2>1 DEF LockHeld
    <2>3. account'.state = "ACTIVE"
      BY <1>1, <1>3, <1>4 DEF LockHeld
    <2> QED BY <1>1, <1>4, <2>2, <2>3, InsertKeepsLimit DEF QuotaInv, WithdrawnOwnsNothing
  <1>5. CASE UNCHANGED doc
    <2>1. WithdrawnOwnsNothing'
      BY <1>2, <1>3, <1>5 DEF QuotaInv, WithdrawnOwnsNothing, Exists
    <2>2. CASE upload'[u].pc = "inserting" /\ upload[u].pc # "inserting"
      <3>1. Fits(u)
        BY <1>1, <2>2 DEF Upload, PutObject, RejectFile, PutFails, Reserve, CommitUpload, PersistFails,
             Compensate, CompensateFails, CrashUpload, Stored
      <3>2. Cardinality(BytesOf(LiveFiles)) + Cardinality(BytesOf(FilesOf[u])) <= StorageLimit
        BY <3>1, ReserveKeepsLimit
      <3>3. ReservationHolds'
        BY <1>3, <1>5, <3>2 DEF QuotaInv, ReservationHolds, LiveFiles, BytesOf
      <3>4. FilesWithinLimit'
        BY <1>5 DEF QuotaInv, FilesWithinLimit, LiveFiles, BytesOf
      <3> QED BY <2>1, <3>3, <3>4 DEF QuotaInv
    <2>3. CASE upload'[u].pc = "inserting" => upload[u].pc = "inserting"
      <3>1. NoNewFile /\ NoNewReservation
        BY <1>3, <1>5, <2>3 DEF NoNewFile, NoNewReservation
      <3> QED BY <2>1, <3>1, QuotaCarried DEF QuotaInv
    <2> QED BY <2>2, <2>3
  <1> QED BY <1>2, <1>4, <1>5

\* Every step keeps the limit, and leaves a withdrawn account without anything.
LEMMA QuotaStep == ASSUME AccountsTypeOK, QuotaInv, [Next]_vars PROVE QuotaInv'
  <1>0. /\ doc \in [Docs -> DocRow] /\ cleanup \in [Docs -> CleanupRow]
        /\ FileStoreTypeOK /\ StoreTypeOK
    BY DEF AccountsTypeOK, StoreTypeOK
  <1>1. ASSUME Pipeline, UNCHANGED accountVars PROVE QuotaInv'
    <2>1. SameRows /\ UNCHANGED <<account, upload>>
      BY <1>1, PipelineRows DEF accountVars
    <2>2. NoNewFile /\ NoNewReservation
      BY <2>1, FilesAreDocs DEF NoNewFile, NoNewReservation, SameRows, Live
    <2>3. WithdrawnOwnsNothing'
      BY <2>1 DEF QuotaInv, WithdrawnOwnsNothing, SameRows, Exists
    <2> QED BY <2>2, <2>3, QuotaCarried DEF QuotaInv
  <1>2. ASSUME NEW d \in Docs, CreateDocument(d) \/ ChangeDocument(d), UNCHANGED accountVars
        PROVE  QuotaInv'
    <2>1. Writes(d) /\ UNCHANGED <<account, upload>>
      BY <1>2 DEF CreateDocument, ChangeDocument, Writes, accountVars
    <2>2. ASSUME NEW row \in DocRow, Fresh(d, row), CreateVersionAndJob(d, row), ~Delete(d)
          PROVE  QuotaInv'
      <3>1. /\ doc' = [doc EXCEPT ![d] = row] /\ UNCHANGED cleanup /\ d \notin Files
            /\ account.state = "ACTIVE" \/ Live(doc[d])
        BY <1>2, <2>2 DEF CreateVersionAndJob, CreateDocument, ChangeDocument, AccountLockable,
             UpdateMemo, UpdateWebpage
      <3>2. account.state = "ACTIVE"
        BY <1>0, <3>1 DEF QuotaInv, WithdrawnOwnsNothing, Live, Exists, DocRow
      <3>3. NoNewFile /\ NoNewReservation
        BY <1>0, <2>1, <3>1, FilesAreDocs DEF NoNewFile, NoNewReservation
      <3> QED BY <2>1, <3>2, <3>3, QuotaCarried DEF QuotaInv, WithdrawnOwnsNothing
    <2>3. CASE Delete(d)
      <3>1. /\ doc' = [doc EXCEPT ![d] = SoftDeleteDocument(doc[d])]
            /\ cleanup' = [cleanup EXCEPT ![d] = CreateArtifactCleanupJob(cleanup[d])]
        BY <2>3 DEF Delete
      <3>2. /\ SoftDeleteDocument(doc[d]).deleted /\ CreateArtifactCleanupJob(cleanup[d]).state # "NONE"
        BY <1>0 DEF SoftDeleteDocument, DocRow, CreateArtifactCleanupJob
      <3>3. NoNewFile /\ NoNewReservation
        BY <1>0, <2>1, <3>1, <3>2, FilesAreDocs DEF NoNewFile, NoNewReservation, Live
      <3>4. WithdrawnOwnsNothing'
        BY <1>0, <2>1, <3>1, <3>2 DEF QuotaInv, WithdrawnOwnsNothing, Exists, SoftDeleteDocument, DocRow
      <3> QED BY <3>3, <3>4, QuotaCarried DEF QuotaInv
    <2> QED BY <1>0, <2>1, <2>2, <2>3, WriteCases
  <1>3. ASSUME NEW u \in Uploads, Upload(u) PROVE QuotaInv'
    BY <1>3, UploadQuota
  <1>4. CASE Withdraw
    <2>1. /\ doc' = [d \in Docs |-> IF Live(doc[d]) THEN SoftDeleteDocument(doc[d]) ELSE doc[d]]
          /\ cleanup' = [d \in Docs |-> IF Exists(d) THEN ScheduleCleanup(cleanup[d]) ELSE cleanup[d]]
          /\ UNCHANGED upload
      BY <1>4 DEF Withdraw
    <2>2. \A d \in Docs : doc'[d].cur = doc[d].cur /\ ~Live(doc'[d])
      BY <1>0, <2>1 DEF SoftDeleteDocument, DocRow, Live
    <2>3. \A d \in Docs : Exists(d) => cleanup'[d].state # "NONE"
      BY <2>1 DEF ScheduleCleanup
    <2>4. NoNewFile /\ NoNewReservation
      BY <2>1, <2>2, FilesAreDocs DEF NoNewFile, NoNewReservation
    <2>5. WithdrawnOwnsNothing'
      BY <2>2, <2>3 DEF WithdrawnOwnsNothing, Exists, Live
    <2> QED BY <2>4, <2>5, QuotaCarried DEF QuotaInv
  <1>5. CASE RunMaintenance
    <2>1. PICK D \in SUBSET Docs :
           /\ RemoveDocuments(D)
           /\ \/ UNCHANGED account
              \/ account.state = "WITHDRAWN" /\ account' = [account EXCEPT !.state = "GONE"]
      BY <1>5, RemovalCases DEF RunMaintenance
    <2>2. \A d \in Docs : \/ doc'[d].cur = 0
                          \/ doc'[d] = doc[d] /\ cleanup'[d] = cleanup[d]
      BY <2>1 DEF RemoveDocuments
    <2>3. UNCHANGED upload /\ (account'.state # "ACTIVE" => account.state # "ACTIVE")
      BY <2>1 DEF RemoveDocuments
    <2>4. NoNewFile /\ NoNewReservation
      BY <2>2, <2>3, FilesAreDocs DEF NoNewFile, NoNewReservation, Live
    <2>5. WithdrawnOwnsNothing'
      BY <2>2, <2>3 DEF QuotaInv, WithdrawnOwnsNothing, Exists
    <2> QED BY <2>4, <2>5, QuotaCarried DEF QuotaInv
  <1> QED BY <1>1, <1>2, <1>3, <1>4, <1>5, StepCases

\* In the beginning nothing is used of the limit, and the account is active.
LEMMA InitQuota == Init => QuotaInv
  <1> SUFFICES ASSUME Init PROVE QuotaInv
    OBVIOUS
  <1>1. BytesOf(LiveFiles) = {}
    BY FilesAreDocs DEF Init, LiveFiles, BytesOf, StoreInit, Live
  <1>2. FilesWithinLimit
    BY <1>1, FS_EmptySet, FileStoreAssumption DEF FilesWithinLimit
  <1> QED BY <1>2 DEF Init, QuotaInv, ReservationHolds, WithdrawnOwnsNothing, FileStoreInit

\* However many uploads run side by side, the files of an account stay within its limit.
THEOREM WithinLimit == Spec => []FilesWithinLimit
  <1>1. QuotaInv => FilesWithinLimit
    BY DEF QuotaInv
  <1> QED BY AccountsTypeCorrect, InitQuota, QuotaStep, <1>1, PTL DEF Spec

\* A withdrawn account owns nothing that is to be seen, and all of it is queued for
\* its cleanup, whatever was under way when it was withdrawn.
THEOREM Withdrawn == Spec => []WithdrawnOwnsNothing
  <1>1. QuotaInv => WithdrawnOwnsNothing
    BY DEF QuotaInv
  <1> QED BY AccountsTypeCorrect, InitQuota, QuotaStep, <1>1, PTL DEF Spec

-----------------------------------------------------------------------------
(* Uploads, and what the cleanup works on.                                 *)

\* What a worker deletes are keys of the document that it is at.
CleanersKeys == \A w \in Workers : \A j \in cleaner[w].left : j[1] = cleaner[w].doc

\* Only web pages are scraped.
PagesAsked == \A j \in VersionIds : outbox[j].state # "NONE" => j[1] \in Webpages

\* A file has no row before the upload inserts it, and its object is there when it is in
\* the list of the call.  As long as there was no fault, a call that compensates has
\* inserted nothing and has every object that is there in its list.  What the user sees
\* has its object, except in the two cases that UploadIsAllOrNothing names.
UploadHoldsOf(u) ==
  /\ upload[u].stored \subseteq FilesOf[u]
  /\ upload[u].pc = "inserting" => upload[u].stored = FilesOf[u]
  /\ \A d \in FilesOf[u] :
       /\ upload[u].pc \in {"storing", "inserting"} =>
            ~Exists(d) /\ (ObjectOf(d) \in objects <=> d \in upload[u].stored)
       /\ upload[u].pc = "compensating" /\ faults = 0 =>
            ~Exists(d) /\ (d \notin upload[u].stored => ObjectOf(d) \notin objects)
       /\ Live(doc[d]) /\ ObjectOf(d) \notin objects =>
            \/ upload[u].pc = "compensating" /\ faults > 0
            \/ upload[u].pc = "crashed" /\ faults > 1

UploadHolds == \A u \in Uploads : UploadHoldsOf(u)

\* What was removed is not there again, and no upload is going to insert it.
RemovedForGood ==
  \A d \in gone :
    /\ ~Exists(d)
    /\ \A u \in Uploads : d \in FilesOf[u] => upload[u].pc \notin {"storing", "inserting"}

DocsInv == ReadInv /\ CleansDeleted /\ CleanersKeys /\ PagesAsked /\ UploadHolds /\ RemovedForGood

\* Versions that only grow and deletions that stay keep what is in the hands of a consumer.
LEMMA ReadsGrow ==
  ASSUME ReadsHold, StoreTypeOK, StoreTypeOK', ConsumerTypeOK, UNCHANGED consumer,
         \A d \in Docs :
           \/ \A w \in Workers : consumer[w].pc # "idle" => consumer[w].msg.id[1] # d
           \/ doc'[d].cur >= doc[d].cur /\ (doc[d].deleted => doc'[d].deleted)
  PROVE  ReadsHold'
  <1>1. SUFFICES ASSUME NEW w \in Workers PROVE ReadHolds(consumer[w], doc'[consumer[w].msg.id[1]])
    BY DEF ReadsHold
  <1> DEFINE c == consumer[w]
             old == doc[c.msg.id[1]]
             new == doc'[c.msg.id[1]]
  <1>2. CASE c.pc = "idle"
    BY <1>2 DEF ReadHolds
  <1>3. CASE c.pc # "idle"
    <2>1. c.msg.id[1] \in Docs /\ c.msg.id[2] \in Versions /\ c.seen \in 0..MaxVersion
      BY <1>3 DEF ConsumerTypeOK, Results
    <2>2. /\ ReadHolds(c, old)
          /\ new.cur >= old.cur /\ (old.deleted => new.deleted)
          /\ old.cur \in Nat /\ new.cur \in Nat
      BY <1>3, <2>1 DEF ReadsHold, StoreTypeOK, DocRow
    <2> HIDE DEF c, old, new
    <2>3. ReadHolds(c, new)
      BY <2>1, <2>2 DEF ReadHolds
    <2> QED BY <2>3 DEF c, new
  <1> QED BY <1>2, <1>3

\* A step that adds and takes away no row of a file and no object of a file that is not
\* deleted keeps what holds of the uploads.
LEMMA UploadCarried ==
  ASSUME faults \in Nat, faults' \in Nat, faults' >= faults,
         NEW u \in Uploads, UploadHoldsOf(u), upload'[u] = upload[u],
         \A d \in FilesOf[u] :
           /\ Exists(d)' => Exists(d)
           /\ Live(doc'[d]) => Live(doc[d])
           /\ ~Exists(d) \/ Live(doc'[d]) => (ObjectOf(d) \in objects' <=> ObjectOf(d) \in objects)
  PROVE  UploadHoldsOf(u)'
  <1>1. SUFFICES ASSUME NEW d \in FilesOf[u]
        PROVE   /\ upload[u].pc \in {"storing", "inserting"} =>
                     ~Exists(d)' /\ (ObjectOf(d) \in objects' <=> d \in upload[u].stored)
                /\ upload[u].pc = "compensating" /\ faults' = 0 =>
                     ~Exists(d)' /\ (d \notin upload[u].stored => ObjectOf(d) \notin objects')
                /\ Live(doc'[d]) /\ ObjectOf(d) \notin objects' =>
                     \/ upload[u].pc = "compensating" /\ faults' > 0
                     \/ upload[u].pc = "crashed" /\ faults' > 1
    BY DEF UploadHoldsOf, ObjectOf
  <1>2. /\ faults' = 0 => faults = 0
        /\ faults > 0 => faults' > 0
        /\ faults > 1 => faults' > 1
    OBVIOUS
  <1> QED BY <1>2 DEF UploadHoldsOf

\* Nothing counts a fault back.
LEMMA FaultsGrow == ASSUME StoreTypeOK, [Next]_vars PROVE faults \in Nat /\ faults' \in Nat /\ faults' >= faults
  <1>1. faults \in Nat
    BY StoreAssumption DEF StoreTypeOK
  <1>2. Fault => faults' = faults + 1
    BY DEF Fault
  <1>3. faults' = faults \/ faults' = faults + 1
    <2>1. ASSUME NEW d \in Docs, CreateDocument(d) \/ ChangeDocument(d) PROVE faults' = faults
      BY <2>1 DEF CreateDocument, ChangeDocument, CreateMemo, CreateWebpage, UpdateMemo, UpdateWebpage,
           CreateVersionAndJob, Delete
    <2>2. ASSUME NEW u \in Uploads, Upload(u) PROVE faults' = faults \/ Fault
      BY <2>2 DEF Upload, PutObject, RejectFile, PutFails, Reserve, CommitUpload, PersistFails, Compensate,
           CompensateFails, CrashUpload, storeVars
    <2>3. Withdraw \/ RunMaintenance => faults' = faults
      BY DEF Withdraw, RunMaintenance, Maintenance, HardDeleteCleanedDocuments,
             HardDeleteWithdrawnAccounts, RemoveDocuments
    <2>4. ScrapeNext => faults' = faults \/ Fault
      BY DEF ScrapeNext, ScrapeAnswered, ScrapeAnsweredAgain
    <2>5. ConsumerNext => faults' = faults \/ Fault
      BY DEF ConsumerNext, Poll, ProcessMessage, ReceiveMessage, GetIngestionJob, GetDocumentByID, ApplyResult,
             ConsumerFails, DeleteMessage, DeleteMessageFails, storeVars
    <2>6. CleanupNext => faults' = faults \/ Fault
      BY DEF CleanupNext, CleanBatch, ClaimArtifactCleanupJobs, ListDocumentArtifactKeys, DeleteObject,
             CompleteCleanup, FailCleanup, CleanupFails, FailCleanupFails, storeVars
    <2> QED BY <1>2, <2>1, <2>2, <2>3, <2>4, <2>5, <2>6 DEF Next, FileStoreNext, CrashWorker, vars, storeVars
  <1> QED BY <1>1, <1>3

\* The steps of an upload keep what holds of it.
LEMMA UploadOwn ==
  ASSUME StoreTypeOK, FileStoreTypeOK, NEW u \in Uploads, UploadHoldsOf(u), Upload(u)
  PROVE  UploadHoldsOf(u)'
  <1> USE DEF UploadHoldsOf
  <1>1. /\ upload \in [Uploads -> [pc : {"storing", "inserting", "compensating", "done", "crashed"},
                                   stored : SUBSET Files]]
        /\ faults \in Nat
        /\ \A d, e \in FilesOf[u] : ObjectOf(d) = ObjectOf(e) => d = e
        /\ Fault => faults' = faults + 1 /\ faults' > 0
    BY StoreAssumption DEF StoreTypeOK, FileStoreTypeOK, ObjectOf, Fault
  <1>2. UNCHANGED doc => \A d \in FilesOf[u] : Exists(d)' = Exists(d)
    BY DEF Exists
  <1>3. \A d \in FilesOf[u] : Live(doc[d]) => Exists(d)
    BY DEF Live, Exists
  <1>4. ASSUME NEW e \in Files, PutObject(u, e) PROVE UploadHoldsOf(u)'
    <2>1. /\ upload[u].pc = "storing" /\ e \in FilesOf[u] \ upload[u].stored
          /\ objects' = objects \cup {ObjectOf(e)} /\ UNCHANGED <<doc, faults>>
          /\ upload'[u].pc = "storing" /\ upload'[u].stored = upload[u].stored \cup {e}
      BY <1>1, <1>4 DEF PutObject
    <2>2. \A d \in FilesOf[u] : ObjectOf(d) \in objects' <=> d \in upload'[u].stored
      BY <1>1, <2>1
    <2>3. \A d \in FilesOf[u] : ~Exists(d)' /\ ~Live(doc'[d])
      BY <1>2, <1>3, <2>1
    <2> QED BY <2>1, <2>2, <2>3 DEF ObjectOf
  <1>5. ASSUME RejectFile(u) PROVE UploadHoldsOf(u)'
    <2>1. /\ upload[u].pc = "storing" /\ UNCHANGED <<doc, faults, objects>>
          /\ upload'[u].pc = "compensating" /\ upload'[u].stored = upload[u].stored
      BY <1>1, <1>5 DEF RejectFile, storeVars
    <2> QED BY <1>2, <1>3, <2>1 DEF ObjectOf
  <1>6. ASSUME NEW e \in Files, PutFails(u, e) PROVE UploadHoldsOf(u)'
    <2>1. /\ upload[u].pc = "storing" /\ UNCHANGED doc /\ faults' > 0
          /\ upload'[u].pc = "compensating" /\ upload'[u].stored = upload[u].stored
      BY <1>1, <1>6 DEF PutFails
    <2> QED BY <1>2, <1>3, <2>1 DEF ObjectOf
  <1>7. ASSUME Reserve(u) PROVE UploadHoldsOf(u)'
    <2>1. /\ upload[u].pc = "storing" /\ upload[u].stored = FilesOf[u] /\ UNCHANGED <<doc, faults, objects>>
          /\ upload'[u].pc \in {"inserting", "compensating"} /\ upload'[u].stored = upload[u].stored
      BY <1>1, <1>7 DEF Reserve, Stored, storeVars
    <2> QED BY <1>2, <1>3, <2>1 DEF ObjectOf
  <1>8. ASSUME CommitUpload(u) PROVE UploadHoldsOf(u)'
    <2>1. /\ upload[u].pc = "inserting" /\ UNCHANGED objects
          /\ upload'[u].pc = "done" /\ upload'[u].stored = upload[u].stored
      BY <1>1, <1>8 DEF CommitUpload
    <2> QED BY <2>1 DEF ObjectOf
  <1>9. ASSUME PersistFails(u) PROVE UploadHoldsOf(u)'
    <2>1. /\ upload[u].pc \in {"storing", "inserting"} /\ faults' > 0
          /\ upload'[u].pc = "compensating" /\ upload'[u].stored = upload[u].stored
      BY <1>1, <1>9 DEF PersistFails, Stored
    <2> QED BY <2>1 DEF ObjectOf
  <1>10. ASSUME NEW e \in Files, Compensate(u, e) PROVE UploadHoldsOf(u)'
    <2>1. /\ upload[u].pc = "compensating" /\ e \in upload[u].stored
          /\ objects' = objects \ {ObjectOf(e)} /\ UNCHANGED <<doc, faults>>
          /\ upload'[u].pc = "compensating" /\ upload'[u].stored = upload[u].stored \ {e}
      BY <1>1, <1>10 DEF Compensate
    <2>2. ASSUME NEW d \in FilesOf[u], faults = 0
          PROVE  ~Exists(d)' /\ (d \notin upload'[u].stored => ObjectOf(d) \notin objects')
      BY <1>1, <1>2, <2>1, <2>2
    <2>3. ASSUME NEW d \in FilesOf[u], Live(doc'[d]) PROVE faults > 0
      BY <1>1, <1>3, <2>1, <2>3
    <2> QED BY <2>1, <2>2, <2>3 DEF ObjectOf
  <1>11. ASSUME CompensateFails(u) PROVE UploadHoldsOf(u)'
    <2>1. /\ faults' > 0 /\ upload'[u].pc = "compensating" /\ upload'[u].stored \subseteq upload[u].stored
      BY <1>1, <1>11 DEF CompensateFails
    <2> QED BY <2>1 DEF ObjectOf
  <1>12. ASSUME CrashUpload(u) PROVE UploadHoldsOf(u)'
    <2>1. /\ upload[u].pc \in {"storing", "inserting", "compensating"} /\ UNCHANGED <<doc, objects>>
          /\ faults' = faults + 1 /\ faults' > 0
          /\ upload'[u].pc = "crashed" /\ upload'[u].stored = {}
      BY <1>1, <1>12 DEF CrashUpload
    <2>2. ASSUME NEW d \in FilesOf[u], Live(doc'[d]), ObjectOf(d) \notin objects' PROVE faults' > 1
      BY <1>1, <1>3, <2>1, <2>2
    <2> QED BY <2>1, <2>2 DEF ObjectOf
  <1> QED BY <1>4, <1>5, <1>6, <1>7, <1>8, <1>9, <1>10, <1>11, <1>12 DEF Upload

\* The cleanup deletes keys of the document that it is at, and objects of deleted
\* documents.
LEMMA CleanupObjects ==
  ASSUME StoreTypeOK, CleanerTypeOK, CleansDeleted, CleanersKeys, CleanupNext
  PROVE  /\ CleanersKeys'
         /\ objects' \subseteq objects
         /\ \A j \in VersionIds : j \in objects \ objects' => doc[j[1]].deleted
  <1>0. cleaner \in [Workers -> [batch : SUBSET Docs, doc : Docs \cup {None},
                                 pc : {"idle", "deleting", "failed"},
                                 seen : SUBSET VersionIds, left : SUBSET VersionIds]]
    BY DEF CleanerTypeOK
  <1>1. \/ UNCHANGED objects
        \/ \E w \in Workers : \E j \in cleaner[w].left : cleaner[w].pc = "deleting" /\ objects' = objects \ {j}
    BY DEF CleanupNext, CleanBatch, ClaimArtifactCleanupJobs, ListDocumentArtifactKeys, DeleteObject,
           CompleteCleanup, FailCleanup, CleanupFails, FailCleanupFails, storeVars
  <1>2. \A w \in Workers : \A j \in cleaner[w].left :
          cleaner[w].pc = "deleting" => j[1] = cleaner[w].doc /\ doc[j[1]].deleted
    BY DEF CleanersKeys, CleansDeleted, CleanerTypeOK
  <1>3. SUFFICES ASSUME NEW w \in Workers, NEW j \in cleaner'[w].left PROVE j[1] = cleaner'[w].doc
    BY <1>1, <1>2 DEF CleanersKeys
  <1>4. CASE cleaner'[w].doc = cleaner[w].doc /\ cleaner'[w].left \subseteq cleaner[w].left
    BY <1>3, <1>4 DEF CleanersKeys
  <1>5. ASSUME NEW u \in Workers, NEW d \in Docs, ListDocumentArtifactKeys(u, d) PROVE j[1] = cleaner'[w].doc
    <2> DEFINE c == [batch |-> cleaner[u].batch \ {d}, doc |-> d, pc |-> "deleting",
                     seen |-> KeysOf(d), left |-> KeysOf(d)]
    <2>1. cleaner' = [cleaner EXCEPT ![u] = c] /\ c.doc = d /\ c.left = KeysOf(d)
      BY <1>5 DEF ListDocumentArtifactKeys
    <2> HIDE DEF c
    <2>2. CASE w = u
      BY <1>0, <1>3, <2>1, <2>2 DEF KeysOf
    <2> QED BY <1>0, <1>4, <2>1, <2>2
  <1>6. ASSUME NEW u \in Workers, NextDocument(u) \/ FailCleanupFails(u) PROVE j[1] = cleaner'[w].doc
    <2>1. /\ \A v \in Workers \ {u} : cleaner'[v] = cleaner[v]
          /\ cleaner'[u].left = {}
      BY <1>0, <1>6 DEF NextDocument, FailCleanupFails, CleanerIdle
    <2> QED BY <1>3, <1>4, <2>1
  <1>7. ASSUME NEW u \in Workers, \/ ClaimArtifactCleanupJobs(u)
                                  \/ \E i \in VersionIds : DeleteObject(u, i)
                                  \/ CleanupFails(u)
                                  \/ cleaner' = [cleaner EXCEPT ![u].pc = "failed"]
        PROVE  j[1] = cleaner'[w].doc
    <2>1. cleaner'[w].doc = cleaner[w].doc /\ cleaner'[w].left \subseteq cleaner[w].left
      BY <1>0, <1>7 DEF ClaimArtifactCleanupJobs, DeleteObject, CleanupFails
    <2> QED BY <1>4, <2>1
  <1>8. ASSUME NEW u \in Workers, CompleteCleanup(u) \/ FailCleanup(u)
        PROVE  NextDocument(u) \/ cleaner' = [cleaner EXCEPT ![u].pc = "failed"]
    BY <1>8 DEF CompleteCleanup, FailCleanup
  <1> QED BY <1>5, <1>6, <1>7, <1>8 DEF CleanupNext, CleanBatch

\* The pipeline keeps what holds of documents and uploads.
LEMMA PipelineDocs ==
  ASSUME AccountsTypeOK, DocsInv, Pipeline, UNCHANGED accountVars,
         faults \in Nat, faults' \in Nat, faults' >= faults
  PROVE  DocsInv'
  <1> USE DEF AccountsTypeOK
  <1>0. /\ SameRows /\ UNCHANGED upload
        /\ cleaner \in [Workers -> [batch : SUBSET Docs, doc : Docs \cup {None},
                                    pc : {"idle", "deleting", "failed"},
                                    seen : SUBSET VersionIds, left : SUBSET VersionIds]]
        /\ CleanupOfDeleted
    BY PipelineRows DEF accountVars, CleanerTypeOK, DocsInv, ReadInv
  <1>1. ReadInv'
    <2>1. CASE \/ ScrapeNext /\ UNCHANGED loopVars
               \/ \E w \in Workers : CrashWorker(w)
               \/ UNCHANGED <<storeVars, loopVars>>
      <3>1. /\ UNCHANGED keys
            /\ \A j \in VersionIds : scrapeJob'[j] # "NONE" => scrapeJob[j] # "NONE"
        BY <2>1, ScrapeRows DEF CrashWorker, storeVars
      <3>2. CASE UNCHANGED consumer
        BY <1>0, <3>1, <3>2, ReadsCarried DEF DocsInv, SameRows
      <3>3. CASE \E w \in Workers : CrashWorker(w)
        <4>1. PICK w \in Workers : consumer' = [consumer EXCEPT ![w] = ConsumerIdle]
          BY <3>3 DEF CrashWorker
        <4>2. \A u \in Workers : consumer'[u] = consumer[u] \/ consumer'[u].pc \in {"idle", "fetched", "done"}
          BY <4>1 DEF ConsumerTypeOK, ConsumerIdle
        <4> QED BY <1>0, <3>1, <4>2, ReadsCarried DEF DocsInv, SameRows
      <3> QED BY <2>1, <3>2, <3>3 DEF loopVars
    <2>2. CASE ConsumerNext
      BY <2>2, ConsumerReads DEF DocsInv
    <2>3. CASE CleanupNext /\ UNCHANGED consumer
      BY <2>3, CleanupReads DEF DocsInv
    <2> QED BY <2>1, <2>2, <2>3 DEF Pipeline
  <1>2. CleansDeleted' /\ CleanersKeys'
    <2>1. CASE CleanupNext
      BY <1>0, <2>1, CleanupDeleted, CleanupObjects DEF DocsInv
    <2>2. CASE UNCHANGED cleaner
      BY <1>0, <2>2 DEF DocsInv, CleansDeleted, CleanersKeys, SameRows
    <2>3. CASE \E w \in Workers : CrashWorker(w)
      <3>1. PICK w \in Workers : cleaner' = [cleaner EXCEPT ![w] = CleanerIdle]
        BY <2>3 DEF CrashWorker
      <3>2. CleanerIdle.left = {} /\ CleanerIdle.batch = {} /\ CleanerIdle.doc = None /\ None \notin Docs
        BY StoreAssumption DEF CleanerIdle
      <3> QED BY <1>0, <3>1, <3>2 DEF DocsInv, CleansDeleted, CleanersKeys, SameRows
    <2> QED BY <2>1, <2>2, <2>3 DEF Pipeline, loopVars
  <1>3. PagesAsked'
    <2>1. UNCHANGED outbox => PagesAsked'
      BY DEF DocsInv, PagesAsked
    <2>2. CASE ScrapeNext
      <3>1. PICK j \in VersionIds : /\ outbox[j].state # "NONE"
                                    /\ outbox' = outbox \/ outbox' = [outbox EXCEPT ![j].state = "PUBLISHED"]
        BY <2>2, ScrapeRows
      <3>2. \A i \in VersionIds : outbox'[i].state # "NONE" => outbox[i].state # "NONE"
        BY <3>1 DEF StoreTypeOK
      <3> QED BY <3>2 DEF DocsInv, PagesAsked
    <2> QED BY <2>1, <2>2, ConsumerRows, CleanupRows DEF Pipeline, CrashWorker, storeVars
  <1>4. UploadHolds'
    <2>1. ASSUME NEW d \in Files, ~Exists(d) \/ Live(doc'[d])
          PROVE  ObjectOf(d) \in objects' <=> ObjectOf(d) \in objects
      <3>1. d \in Docs /\ d \notin Webpages /\ ObjectOf(d) \in VersionIds /\ ObjectOf(d)[1] = d
        BY FilesAreDocs
      <3>2. CASE ScrapeNext
        <4>1. PICK j \in VersionIds : /\ outbox[j].state # "NONE"
                                      /\ objects' = objects \/ objects' = objects \cup {j}
          BY <3>2, ScrapeRows
        <4> QED BY <3>1, <4>1 DEF DocsInv, PagesAsked
      <3>3. CASE CleanupNext
        <4>1. ~doc[d].deleted
          BY <1>0, <2>1, <3>1 DEF SameRows, CleanupOfDeleted, Exists, Live
        <4> QED BY <3>1, <3>3, <4>1, CleanupObjects DEF DocsInv
      <3> QED BY <3>2, <3>3, ConsumerRows DEF Pipeline, CrashWorker, storeVars
    <2>2. \A d \in Files : (Exists(d)' => Exists(d)) /\ (Live(doc'[d]) => Live(doc[d]))
      BY <1>0, FilesAreDocs DEF SameRows, Exists, Live
    <2> QED BY <1>0, <2>1, <2>2, UploadCarried, FilesAreDocs DEF DocsInv, UploadHolds
  <1>5. RemovedForGood'
    BY <1>0 DEF DocsInv, RemovedForGood, RetentionTypeOK, SameRows, Exists, accountVars
  <1> QED BY <1>1, <1>2, <1>3, <1>4, <1>5 DEF DocsInv

\* A write of the API keeps what holds of documents and uploads: it creates no file.
LEMMA LibraryDocs ==
  ASSUME AccountsTypeOK, DocsInv, NEW d \in Docs, CreateDocument(d) \/ ChangeDocument(d),
         UNCHANGED <<loopVars, accountVars>>,
         faults \in Nat, faults' \in Nat, faults' >= faults
  PROVE  DocsInv'
  <1> USE DEF AccountsTypeOK
  <1>0. /\ Writes(d) /\ UNCHANGED <<consumer, cleaner, upload>>
        /\ ReadInv /\ DeletedCreated
        /\ doc \in [Docs -> DocRow] /\ outbox \in [VersionIds -> OutboxRow]
    BY DEF CreateDocument, ChangeDocument, Writes, loopVars, accountVars, DocsInv, ReadInv, CleanupOfDeleted,
       DeletedCreated, StoreTypeOK
  <1>1. ReadInv'
    BY <1>0, WriteReads
  <1>2. CleansDeleted' /\ CleanersKeys'
    BY <1>0, WriteDeleted DEF DocsInv, CleansDeleted, CleanersKeys
  <1>3. ASSUME NEW row \in DocRow, Fresh(d, row), CreateVersionAndJob(d, row), ~Delete(d)
        PROVE  PagesAsked' /\ UploadHolds' /\ RemovedForGood'
    <2>1. /\ doc' = [doc EXCEPT ![d] = row]
          /\ UNCHANGED <<objects, gone>>
          /\ d \notin Files
          /\ d \notin gone \/ Live(doc[d])
          /\ \/ UNCHANGED outbox
             \/ d \in Webpages /\ outbox' = [outbox EXCEPT ![<<d, row.cur>>] =
                                               CreateOutboxEvent(outbox[<<d, row.cur>>])]
      BY <1>3 DEF CreateVersionAndJob, CreateDocument, ChangeDocument, UpdateMemo, UpdateWebpage, accountVars
    <2>2. PagesAsked'
      <3>1. SUFFICES ASSUME NEW j \in VersionIds, outbox'[j].state # "NONE" PROVE j[1] \in Webpages
        BY DEF PagesAsked
      <3>2. CASE j = <<d, row.cur>> /\ d \in Webpages
        BY <3>2
      <3>3. CASE outbox'[j] = outbox[j]
        BY <3>1, <3>3 DEF DocsInv, PagesAsked
      <3> QED BY <1>0, <2>1, <3>2, <3>3
    <2>3. \A e \in Files : doc'[e] = doc[e]
      BY <1>0, <2>1, FilesAreDocs
    <2>4. UploadHolds'
      BY <1>0, <2>1, <2>3, UploadCarried, FilesAreDocs DEF DocsInv, UploadHolds, Exists
    <2>5. RemovedForGood'
      BY <1>0, <2>1 DEF DocsInv, RemovedForGood, RetentionTypeOK, Exists, Live
    <2> QED BY <2>2, <2>4, <2>5
  <1>4. CASE Delete(d)
    <2>1. doc' = [doc EXCEPT ![d] = SoftDeleteDocument(doc[d])] /\ UNCHANGED <<outbox, objects>>
      BY <1>4 DEF Delete
    <2>2. SoftDeleteDocument(doc[d]).cur = doc[d].cur /\ SoftDeleteDocument(doc[d]).deleted
      BY <1>0 DEF SoftDeleteDocument, DocRow
    <2>3. \A e \in Files : (Exists(e)' => Exists(e)) /\ (Live(doc'[e]) => Live(doc[e]))
      BY <1>0, <2>1, <2>2, FilesAreDocs DEF Exists, Live
    <2>4. UploadHolds'
      BY <1>0, <2>1, <2>3, UploadCarried, FilesAreDocs DEF DocsInv, UploadHolds
    <2>5. RemovedForGood'
      BY <1>0, <2>1, <2>2 DEF DocsInv, RemovedForGood, RetentionTypeOK, Exists, accountVars
    <2> QED BY <1>1, <1>2, <2>1, <2>4, <2>5 DEF DocsInv, PagesAsked
  <1> QED BY <1>0, <1>1, <1>2, <1>3, <1>4, WriteCases DEF DocsInv

\* The inserts of an upload are of documents that nobody has read or works on.
LEMMA InsertReads ==
  ASSUME StoreTypeOK, StoreTypeOK', ConsumerTypeOK, ReadInv, NEW u \in Uploads, Insert(u),
         \A d \in FilesOf[u] : ~Exists(d), UNCHANGED <<consumer, scrapeJob, cleanup>>
  PROVE  /\ ReadInv'
         /\ \A d \in Docs : doc[d].deleted => doc'[d] = doc[d]
  <1>0. doc \in [Docs -> DocRow] /\ keys \subseteq VersionIds
    BY DEF StoreTypeOK
  <1>1. \A d \in Docs : \/ d \notin FilesOf[u] /\ doc'[d] = doc[d]
                        \/ d \in FilesOf[u] /\ doc[d].cur = 0 /\ ~doc[d].deleted
                             /\ doc'[d].cur = 1 /\ ~doc'[d].deleted
    BY <1>0 DEF Insert, Exists, ReadInv, CleanupOfDeleted, DocRow
  <1>2. ReadsHold'
    <2>1. \A d \in Docs : doc'[d].cur >= doc[d].cur /\ (doc[d].deleted => doc'[d].deleted)
      BY <1>0, <1>1 DEF DocRow
    <2> QED BY <2>1, ReadsGrow DEF ReadInv
  <1>3. NothingEarly'
    <2>1. ASSUME NEW j \in VersionIds, j[2] <= doc[j[1]].cur PROVE j[2] <= doc'[j[1]].cur
      BY <1>0, <1>1, <2>1 DEF DocRow
    <2>2. \A j \in keys' : j \in VersionIds /\ j[2] <= doc'[j[1]].cur
      <3>1. SUFFICES ASSUME NEW j \in keys' PROVE j \in VersionIds /\ j[2] <= doc'[j[1]].cur
        OBVIOUS
      <3>2. CASE j \in keys
        BY <1>0, <2>1, <3>2 DEF ReadInv, NothingEarly
      <3>3. CASE \E d \in FilesOf[u] : j = ObjectOf(d)
        <4>1. PICK d \in FilesOf[u] : j = ObjectOf(d)
          BY <3>3
        <4>2. d \in Docs /\ doc'[d].cur = 1
          BY <1>1, FilesAreDocs
        <4> QED BY <4>1, <4>2, FilesAreDocs DEF ObjectOf
      <3> QED BY <3>2, <3>3 DEF Insert
    <2> QED BY <2>1, <2>2 DEF ReadInv, NothingEarly
  <1>4. CleanupOfDeleted'
    BY <1>1 DEF ReadInv, CleanupOfDeleted
  <1> QED BY <1>1, <1>2, <1>3, <1>4 DEF ReadInv

\* An upload keeps what holds of documents and uploads: it touches its own files only.
LEMMA UploadDocs ==
  ASSUME AccountsTypeOK, DocsInv, NEW u \in Uploads, Upload(u), UNCHANGED <<loopVars, gone>>,
         faults \in Nat, faults' \in Nat, faults' >= faults
  PROVE  DocsInv'
  <1> USE DEF AccountsTypeOK
  <1>0. /\ UNCHANGED <<consumer, cleaner, scrapeJob, cleanup, outbox>> /\ StoreTypeOK'
        /\ \/ UNCHANGED <<doc, keys>>
           \/ upload[u].pc = "inserting" /\ Insert(u)
        /\ ReadInv /\ UploadHoldsOf(u)
    BY UploadStore DEF loopVars, DocsInv, UploadHolds
  <1>1. ReadInv' /\ \A d \in Docs : doc[d].deleted => doc'[d].deleted
    <2>1. CASE UNCHANGED <<doc, keys>>
      BY <1>0, <2>1, ReadsCarried
    <2>2. CASE upload[u].pc = "inserting" /\ Insert(u)
      <3>1. \A d \in FilesOf[u] : ~Exists(d)
        BY <1>0, <2>2 DEF UploadHoldsOf
      <3> QED BY <1>0, <2>2, <3>1, InsertReads
    <2> QED BY <1>0, <2>1, <2>2
  <1>2. CleansDeleted' /\ CleanersKeys' /\ PagesAsked'
    BY <1>0, <1>1 DEF DocsInv, CleansDeleted, CleanersKeys, PagesAsked
  <1>3. ASSUME NEW t \in Uploads, t # u PROVE UploadHoldsOf(t)'
    <2>1. \A d \in FilesOf[t] : \A e \in FilesOf[u] : ObjectOf(d) # ObjectOf(e) /\ d \notin FilesOf[u]
      BY <1>3, FileStoreAssumption DEF ObjectOf
    <2>2. \A d \in FilesOf[t] : doc'[d] = doc[d]
      BY <1>0, <2>1, FilesAreDocs DEF Insert
    <2>3. \/ UNCHANGED objects
          \/ \E e \in FilesOf[u] : objects' = objects \cup {ObjectOf(e)}
          \/ \E e \in FilesOf[u] : objects' = objects \ {ObjectOf(e)}
      BY <1>0 DEF UploadHoldsOf, Upload, PutObject, RejectFile, PutFails, Reserve, CommitUpload, PersistFails,
         Compensate, CompensateFails, CrashUpload, storeVars
    <2>4. \A d \in FilesOf[t] : ObjectOf(d) \in objects' <=> ObjectOf(d) \in objects
      BY <2>1, <2>3
    <2>5. upload'[t] = upload[t]
      BY <1>3 DEF FileStoreTypeOK, Upload, PutObject, RejectFile, PutFails, Reserve, CommitUpload, PersistFails,
         Compensate, CompensateFails, CrashUpload
    <2> QED BY <2>2, <2>4, <2>5, UploadCarried DEF DocsInv, UploadHolds, Exists
  <1>4. UploadHoldsOf(u)'
    BY <1>0, UploadOwn
  <1>5. RemovedForGood'
    <2>1. \A t \in Uploads : upload'[t].pc \in {"storing", "inserting"} => upload[t].pc \in {"storing", "inserting"}
      BY DEF FileStoreTypeOK, Upload, PutObject, RejectFile, PutFails, Reserve, Stored, CommitUpload, PersistFails,
         Compensate, CompensateFails, CrashUpload
    <2>2. \A d \in gone : doc'[d] = doc[d]
      BY <1>0 DEF Insert, DocsInv, RemovedForGood, RetentionTypeOK
    <2> QED BY <2>1, <2>2 DEF DocsInv, RemovedForGood, Exists
  <1> QED BY <1>1, <1>2, <1>3, <1>4, <1>5 DEF DocsInv, UploadHolds

\* A withdrawal keeps what holds of documents and uploads: it deletes what is live.
LEMMA WithdrawDocs ==
  ASSUME AccountsTypeOK, DocsInv, Withdraw, UNCHANGED loopVars,
         faults \in Nat, faults' \in Nat, faults' >= faults
  PROVE  DocsInv'
  <1> USE DEF AccountsTypeOK
  <1>0. /\ doc' = [d \in Docs |-> IF Live(doc[d]) THEN SoftDeleteDocument(doc[d]) ELSE doc[d]]
        /\ cleanup' = [d \in Docs |-> IF Exists(d) THEN ScheduleCleanup(cleanup[d]) ELSE cleanup[d]]
        /\ UNCHANGED <<keys, scrapeJob, outbox, objects, upload, consumer, cleaner>>
        /\ doc \in [Docs -> DocRow] /\ StoreTypeOK'
        /\ ReadInv
    BY WithdrawTypes DEF Withdraw, loopVars, StoreTypeOK, DocsInv
  <1>1. \A d \in Docs : /\ doc'[d].cur = doc[d].cur
                        /\ doc[d].deleted => doc'[d].deleted
                        /\ Exists(d) => doc'[d].deleted
                        /\ doc'[d].deleted => Exists(d) \/ doc[d].deleted
    BY <1>0 DEF Live, Exists, SoftDeleteDocument, DocRow
  <1>2. ReadsHold'
    <2>1. \A d \in Docs : doc'[d].cur >= doc[d].cur
      BY <1>0, <1>1 DEF DocRow
    <2> QED BY <1>0, <1>1, <2>1, ReadsGrow DEF ReadInv
  <1>3. NothingEarly'
    <2>1. \A j \in VersionIds : doc'[j[1]].cur = doc[j[1]].cur
      BY <1>1
    <2>2. \A j \in keys : j \in VersionIds
      BY DEF StoreTypeOK
    <2> QED BY <1>0, <2>1, <2>2 DEF ReadInv, NothingEarly
  <1>4. CleanupOfDeleted'
    <2>1. \A d \in Docs : cleanup'[d].state # "NONE" => Exists(d) \/ doc[d].deleted
      BY <1>0 DEF ReadInv, CleanupOfDeleted
    <2> QED BY <1>0, <1>1, <2>1 DEF ReadInv, CleanupOfDeleted, Exists
  <1>5. CleansDeleted' /\ CleanersKeys' /\ PagesAsked'
    BY <1>0, <1>1 DEF DocsInv, CleansDeleted, CleanersKeys, PagesAsked
  <1>6. UploadHolds'
    <2>1. \A d \in Files : (Exists(d)' => Exists(d)) /\ (Live(doc'[d]) => Live(doc[d]))
      BY <1>1, FilesAreDocs DEF Exists, Live
    <2> QED BY <1>0, <2>1, UploadCarried, FilesAreDocs DEF DocsInv, UploadHolds
  <1>7. RemovedForGood'
    BY <1>0, <1>1 DEF DocsInv, RemovedForGood, RetentionTypeOK, Exists, Withdraw
  <1> QED BY <1>2, <1>3, <1>4, <1>5, <1>6, <1>7 DEF DocsInv, ReadInv

\* A removal keeps what holds of documents and uploads: nothing of a removed document is
\* left, and nobody has it in hand.
LEMMA RemovalDocs ==
  ASSUME AccountsTypeOK, DocsInv, RunMaintenance, UNCHANGED loopVars,
         faults \in Nat, faults' \in Nat, faults' >= faults
  PROVE  DocsInv'
  <1> USE DEF AccountsTypeOK
  <1>0. PICK D \in SUBSET Docs : RemoveDocuments(D) /\ \A d \in D : Exists(d)
    BY RemovalCases DEF RunMaintenance
  <1>1. /\ \A d \in Docs : \/ d \in D /\ doc'[d].cur = 0 /\ ~doc'[d].deleted /\ cleanup'[d].state = "NONE"
                           \/ d \notin D /\ doc'[d] = doc[d] /\ cleanup'[d] = cleanup[d]
        /\ keys' = {j \in keys : j[1] \notin D}
        /\ \A j \in VersionIds : scrapeJob'[j] # "NONE" => scrapeJob[j] # "NONE" /\ j[1] \notin D
        /\ gone' = gone \cup D
        /\ UNCHANGED <<outbox, objects, upload, consumer, cleaner>>
        /\ StoreTypeOK' /\ keys \subseteq VersionIds /\ ReadInv
    BY <1>0, RemoveTypes DEF RemoveDocuments, RunMaintenance, loopVars, StoreTypeOK, DocsInv
  <1>2. \A d \in D : ~InHand(d)
    BY <1>0, <1>1 DEF RunMaintenance, DocsInv, RemovedForGood
  <1>3. ReadsHold'
    <2>1. \A d \in Docs :
           \/ \A w \in Workers : consumer[w].pc # "idle" => consumer[w].msg.id[1] # d
           \/ doc'[d].cur >= doc[d].cur /\ (doc[d].deleted => doc'[d].deleted)
      BY <1>1, <1>2 DEF InHand, StoreTypeOK, DocRow
    <2> QED BY <1>1, <2>1, ReadsGrow DEF ReadInv
  <1>4. NothingEarly'
    <2>1. \A j \in VersionIds : j[1] \notin D => doc'[j[1]] = doc[j[1]]
      BY <1>1
    <2> QED BY <1>1, <2>1 DEF ReadInv, NothingEarly
  <1>5. CleanupOfDeleted'
    BY <1>1 DEF ReadInv, CleanupOfDeleted
  <1>6. CleansDeleted' /\ CleanersKeys' /\ PagesAsked'
    BY <1>1, <1>2 DEF DocsInv, CleansDeleted, CleanersKeys, PagesAsked, InHand
  <1>7. UploadHolds'
    <2>1. \A d \in Files : (Exists(d)' => Exists(d)) /\ (Live(doc'[d]) => Live(doc[d]))
      BY <1>1, FilesAreDocs DEF Exists, Live
    <2> QED BY <1>1, <2>1, UploadCarried, FilesAreDocs DEF DocsInv, UploadHolds
  <1>8. RemovedForGood'
    <2>1. \A d \in gone : ~Exists(d)'
      BY <1>0, <1>1 DEF DocsInv, RemovedForGood, RetentionTypeOK, Exists
    <2>2. \A d \in D : \A u \in Uploads : d \in FilesOf[u] => upload[u].pc \notin {"storing", "inserting"}
      BY <1>0 DEF DocsInv, UploadHolds, UploadHoldsOf
    <2> QED BY <1>1, <2>1, <2>2 DEF DocsInv, RemovedForGood, Exists
  <1> QED BY <1>3, <1>4, <1>5, <1>6, <1>7, <1>8 DEF DocsInv, ReadInv

\* Every step keeps what holds of documents and uploads.
LEMMA DocsStep == ASSUME AccountsTypeOK, DocsInv, [Next]_vars PROVE DocsInv'
  <1>1. faults \in Nat /\ faults' \in Nat /\ faults' >= faults
    BY FaultsGrow DEF AccountsTypeOK
  <1> QED BY <1>1, StepCases, PipelineDocs, LibraryDocs, UploadDocs, WithdrawDocs, RemovalDocs

\* In the beginning there is no document and every upload has its files before it.
LEMMA InitDocs == Init => DocsInv
  <1> SUFFICES ASSUME Init PROVE DocsInv
    OBVIOUS
  <1> USE DEF Init, StoreInit
  <1>1. ReadInv
    BY DEF ConsumerInit, ConsumerIdle, ReadInv, NothingEarly, CleanupOfDeleted, ReadsHold, ReadHolds
  <1>2. CleansDeleted /\ CleanersKeys
    BY StoreAssumption DEF CleanerInit, CleanerIdle, CleansDeleted, CleanersKeys
  <1>3. PagesAsked
    BY DEF PagesAsked
  <1>4. UploadHolds
    BY FilesAreDocs DEF FileStoreInit, UploadHolds, UploadHoldsOf, Exists, Live
  <1>5. RemovedForGood
    BY DEF RetentionInit, RemovedForGood
  <1> QED BY <1>1, <1>2, <1>3, <1>4, <1>5 DEF DocsInv

\* What holds of documents and uploads holds in every state.
LEMMA DocsInvariant == Spec => []DocsInv
  BY AccountsTypeCorrect, InitDocs, DocsStep, PTL DEF Spec

\* An uploaded document that the user sees has its object, and an upload that failed
\* without a fault of the environment leaves neither object nor row.
THEOREM UploadCorrect == Spec => []UploadIsAllOrNothing
  <1>1. DocsInv => UploadIsAllOrNothing
    BY DEF DocsInv, UploadHolds, UploadHoldsOf, UploadIsAllOrNothing
  <1> QED BY DocsInvariant, <1>1, PTL

-----------------------------------------------------------------------------
(* Requests and the keys that come of them.                                *)

\* A request is of a version that was created; only requests that were sent are answered,
\* and keys are recorded by an upload or with an answer.
RequestsInv ==
  /\ \A j \in VersionIds : outbox[j].state # "NONE" => j[1] \in gone \/ j[2] <= doc[j[1]].cur
  /\ \A m \in Results : InFlight(m) => outbox[m.id].state = "PUBLISHED"
  /\ \A j \in keys : j[1] \in Files \/ outbox[j].state = "PUBLISHED"

\* A step that undoes no request and no version, and brings no answer and no keys that
\* were not asked for, keeps what holds of the requests.
LEMMA RequestsCarried ==
  ASSUME RequestsInv, StoreTypeOK,
         \A j \in VersionIds :
           /\ outbox[j].state = "PUBLISHED" => outbox'[j].state = "PUBLISHED"
           /\ outbox'[j].state # "NONE" /\ outbox[j].state = "NONE" => j[2] <= doc'[j[1]].cur,
         gone \subseteq gone',
         \A d \in Docs : d \in gone' \/ doc'[d].cur = doc[d].cur \/ doc'[d].cur = doc[d].cur + 1,
         \A m \in Results : InFlight(m)' => InFlight(m) \/ outbox'[m.id].state = "PUBLISHED",
         keys' \subseteq VersionIds,
         \A j \in keys' : j \in keys \/ j[1] \in Files \/ outbox'[j].state = "PUBLISHED"
  PROVE  RequestsInv'
  <1>1. ASSUME NEW j \in VersionIds, outbox'[j].state # "NONE" PROVE j[1] \in gone' \/ j[2] <= doc'[j[1]].cur
    <2>1. CASE outbox[j].state = "NONE"
      BY <1>1, <2>1
    <2>2. CASE outbox[j].state # "NONE"
      <3>1. j[1] \in Docs /\ j[2] \in Nat /\ doc[j[1]].cur \in Nat
        BY DEF StoreTypeOK, DocRow
      <3>2. j[1] \in gone \/ j[2] <= doc[j[1]].cur
        BY <2>2 DEF RequestsInv
      <3>3. j[1] \in gone' \/ doc'[j[1]].cur = doc[j[1]].cur \/ doc'[j[1]].cur = doc[j[1]].cur + 1
        BY <3>1
      <3> QED BY <3>1, <3>2, <3>3
    <2> QED BY <2>1, <2>2
  <1>2. ASSUME NEW m \in Results, InFlight(m)' PROVE outbox'[m.id].state = "PUBLISHED"
    BY <1>2 DEF RequestsInv, Results
  <1>3. ASSUME NEW j \in keys' PROVE j[1] \in Files \/ outbox'[j].state = "PUBLISHED"
    BY DEF RequestsInv
  <1> QED BY <1>1, <1>2, <1>3 DEF RequestsInv

\* A step that leaves the messages alone leaves in flight what is.
LEMMA SameInFlight ==
  ASSUME NEW m \in Results, UNCHANGED results, InFlight(m)',
         \A w \in Workers : consumer'[w] = consumer[w] \/ consumer'[w].pc = "idle"
  PROVE  InFlight(m)
  BY DEF InFlight

\* Every step keeps what holds of the requests.
LEMMA RequestsStep == ASSUME AccountsTypeOK, AccountsTypeOK', DocsInv, RequestsInv, [Next]_vars PROVE RequestsInv'
  <1> USE DEF AccountsTypeOK
  <1>0. /\ StoreTypeOK /\ ConsumerTypeOK /\ keys' \subseteq VersionIds
        /\ doc \in [Docs -> DocRow] /\ outbox \in [VersionIds -> OutboxRow]
    BY DEF StoreTypeOK
  <1>1. ASSUME Pipeline, UNCHANGED accountVars PROVE RequestsInv'
    <2>1. /\ SameRows /\ UNCHANGED gone
      BY <1>1, PipelineRows DEF accountVars
    <2>2. CASE ScrapeNext /\ UNCHANGED loopVars
      <3>1. PICK j \in VersionIds, kind \in {"completed", "failed"} :
              /\ outbox[j].state # "NONE"
              /\ results' = [results EXCEPT ![AnswerTo(j, kind)] = MaxReceives]
              /\ \/ outbox' = outbox /\ outbox[j].state = "PUBLISHED"
                 \/ outbox' = [outbox EXCEPT ![j].state = "PUBLISHED"]
        BY <2>2, ScrapeRows
      <3>2. /\ outbox'[j].state = "PUBLISHED"
            /\ \A i \in VersionIds : i # j => outbox'[i] = outbox[i]
        BY <1>0, <3>1 DEF OutboxRow
      <3>3. ASSUME NEW m \in Results, InFlight(m)' PROVE InFlight(m) \/ outbox'[m.id].state = "PUBLISHED"
        <4>1. CASE m = AnswerTo(j, kind)
          BY <3>2, <4>1 DEF AnswerTo
        <4>2. CASE m # AnswerTo(j, kind)
          <5>1. results'[m] = results[m]
            BY <3>1, <4>2 DEF StoreTypeOK
          <5> QED BY <2>2, <3>3, <5>1 DEF InFlight, loopVars
        <4> QED BY <4>1, <4>2
      <3>4. UNCHANGED keys
        BY <2>2, ScrapeRows
      <3> QED BY <1>0, <2>1, <3>1, <3>2, <3>3, <3>4, RequestsCarried DEF SameRows
    <2>3. CASE ConsumerNext
      <3>1. \A m \in Results : InFlight(m)' => InFlight(m)
        BY <2>3, ConsumerInFlight
      <3>2. UNCHANGED outbox
        BY <2>3, ConsumerRows
      <3>3. ASSUME NEW j \in keys' PROVE j \in keys \/ outbox'[j].state = "PUBLISHED"
        <4>1. CASE UNCHANGED keys
          BY <4>1
        <4>2. ASSUME NEW w \in Workers, ApplyResult(w) PROVE j \in keys \/ outbox'[j].state = "PUBLISHED"
          <5>1. /\ consumer[w].msg \in Results /\ consumer[w].pc = "document"
                /\ keys' = keys \/ keys' = keys \cup {consumer[w].msg.id}
            BY <4>2, ResultCases
               DEF CommitsNothing, CommitsFailure, CommitsSuccess, ApplyFailed, ApplyCompleted
          <5>2. outbox[consumer[w].msg.id].state = "PUBLISHED"
            BY <5>1 DEF RequestsInv, InFlight
          <5> QED BY <3>2, <5>1, <5>2
        <4> QED BY <2>3, <4>1, <4>2, ConsumerOther
      <3> QED BY <1>0, <2>1, <3>1, <3>2, <3>3, RequestsCarried DEF SameRows
    <2>4. CASE \/ CleanupNext /\ UNCHANGED consumer
               \/ \E w \in Workers : CrashWorker(w)
               \/ UNCHANGED <<storeVars, loopVars>>
      <3>1. UNCHANGED <<outbox, keys, results>>
        BY <2>4, CleanupRows DEF CrashWorker, storeVars
      <3>2. \A w \in Workers : consumer'[w] = consumer[w] \/ consumer'[w].pc = "idle"
        BY <2>4 DEF CrashWorker, ConsumerTypeOK, ConsumerIdle, loopVars
      <3> QED BY <1>0, <2>1, <3>1, <3>2, SameInFlight, RequestsCarried DEF SameRows
    <2> QED BY <1>1, <2>2, <2>3, <2>4 DEF Pipeline
  <1>2. ASSUME NEW d \in Docs, CreateDocument(d) \/ ChangeDocument(d), UNCHANGED <<loopVars, accountVars>>
        PROVE  RequestsInv'
    <2>1. Writes(d) /\ UNCHANGED <<consumer, gone, keys, results>>
      BY <1>2 DEF CreateDocument, ChangeDocument, Writes, loopVars, accountVars, CreateMemo, CreateWebpage,
         UpdateMemo, UpdateWebpage, Delete, CreateVersionAndJob
    <2>2. ASSUME NEW row \in DocRow, Fresh(d, row), CreateVersionAndJob(d, row), ~Delete(d) PROVE RequestsInv'
      <3> DEFINE j == <<d, row.cur>>
      <3>1. /\ doc' = [doc EXCEPT ![d] = row] /\ row.cur = doc[d].cur + 1 /\ j \in VersionIds
            /\ outbox' = outbox \/ outbox' = [outbox EXCEPT ![j] = CreateOutboxEvent(outbox[j])]
            /\ doc[d].cur \in Nat
            /\ d \notin gone
        BY <1>0, <1>2, <2>2 DEF CreateVersionAndJob, Fresh, CreateDocument, ChangeDocument, UpdateMemo, UpdateWebpage,
           DocRow, DocsInv, RemovedForGood, Exists, Live
      <3>2. outbox[j].state = "NONE"
        <4>1. ~(row.cur <= doc[d].cur) /\ j[1] = d /\ j[2] = row.cur
          BY <3>1
        <4> QED BY <3>1, <4>1 DEF RequestsInv
      <3>3. doc'[d].cur = row.cur /\ row.cur <= row.cur /\ j[1] = d /\ j[2] = row.cur
        BY <1>0, <3>1
      <3> HIDE DEF j
      <3>4. \A i \in VersionIds : i # j => outbox'[i] = outbox[i]
        BY <1>0, <3>1
      <3>5. \A e \in Docs : doc'[e].cur = doc[e].cur \/ doc'[e].cur = doc[e].cur + 1
        BY <1>0, <3>1
      <3>6. \A m \in Results : InFlight(m)' => InFlight(m)
        BY <2>1, SameInFlight
      <3>7. \A i \in VersionIds :
              /\ outbox[i].state = "PUBLISHED" => outbox'[i].state = "PUBLISHED"
              /\ outbox'[i].state # "NONE" /\ outbox[i].state = "NONE" => i[2] <= doc'[i[1]].cur
        BY <3>2, <3>3, <3>4
      <3> QED BY <1>0, <2>1, <3>5, <3>6, <3>7, RequestsCarried
    <2>3. CASE Delete(d)
      <3>1. doc' = [doc EXCEPT ![d] = SoftDeleteDocument(doc[d])] /\ UNCHANGED outbox
        BY <2>3 DEF Delete
      <3>2. \A e \in Docs : doc'[e].cur = doc[e].cur
        BY <1>0, <3>1 DEF SoftDeleteDocument, DocRow
      <3> QED BY <1>0, <2>1, <3>1, <3>2, SameInFlight, RequestsCarried
    <2> QED BY <2>1, <2>2, <2>3, WriteCases
  <1>3. ASSUME NEW u \in Uploads, Upload(u), UNCHANGED <<loopVars, gone>> PROVE RequestsInv'
    <2>1. /\ UNCHANGED <<outbox, results, consumer, gone>>
          /\ \/ UNCHANGED <<doc, keys>>
             \/ upload[u].pc = "inserting" /\ Insert(u)
      BY <1>3, UploadStore DEF loopVars
    <2>2. \A d \in Docs : doc'[d].cur = doc[d].cur \/ doc'[d].cur = doc[d].cur + 1
      <3>1. ASSUME upload[u].pc = "inserting", NEW d \in FilesOf[u] PROVE doc[d].cur = 0
        BY <1>0, <3>1, FilesAreDocs DEF DocsInv, UploadHolds, UploadHoldsOf, Exists, DocRow
      <3> QED BY <2>1, <3>1 DEF Insert
    <2>3. \A j \in keys' : j \in keys \/ j[1] \in Files
      BY <2>1, FilesAreDocs DEF Insert
    <2> QED BY <1>0, <2>1, <2>2, <2>3, SameInFlight, RequestsCarried
  <1>4. CASE Withdraw /\ UNCHANGED loopVars
    <2>1. UNCHANGED <<outbox, keys, results, consumer, gone>>
      BY <1>4 DEF Withdraw, loopVars
    <2>2. \A d \in Docs : doc'[d].cur = doc[d].cur
      BY <1>0, <1>4 DEF Withdraw, SoftDeleteDocument, DocRow
    <2> QED BY <1>0, <2>1, <2>2, SameInFlight, RequestsCarried
  <1>5. CASE RunMaintenance /\ UNCHANGED loopVars
    <2>1. PICK D \in SUBSET Docs : RemoveDocuments(D)
      BY <1>5, RemovalCases DEF RunMaintenance
    <2>2. /\ UNCHANGED <<outbox, results, consumer>> /\ keys' \subseteq keys /\ gone \subseteq gone'
          /\ \A d \in Docs : d \in gone' \/ doc'[d] = doc[d]
      BY <1>5, <2>1 DEF RemoveDocuments, loopVars
    <2> QED BY <1>0, <2>2, SameInFlight, RequestsCarried
  <1> QED BY <1>1, <1>2, <1>3, <1>4, <1>5, StepCases

\* In the beginning nothing is asked for.
LEMMA InitRequests == Init => RequestsInv
  BY DEF Init, StoreInit, ConsumerInit, ConsumerIdle, RequestsInv, InFlight, Results

\* What holds of the requests holds in every state.
LEMMA RequestsInvariant == Spec => []RequestsInv
  BY AccountsTypeCorrect, DocsInvariant, InitRequests, RequestsStep, PTL DEF Spec

-----------------------------------------------------------------------------
(* Cleanup jobs under the steps of the others.                             *)

\* A cleanup job is requeued, or removed while no worker has the document in hand, or
\* left alone; and a document that is deleted then has a queued job, or was deleted before.
JobKept(d) ==
  /\ \/ cleanup'[d] = cleanup[d]
     \/ cleanup'[d] = [state |-> "QUEUED", attempts |-> 0]
     \/ cleanup'[d] = [state |-> "NONE", attempts |-> 0] /\ ~InHand(d)
  /\ doc'[d].deleted => \/ cleanup'[d].state = "QUEUED"
                        \/ doc[d].deleted /\ cleanup'[d] = cleanup[d] /\ doc'[d].cur = doc[d].cur

\* Keys of a file are recorded with its row; keys of a deleted page requeue its cleanup
\* when they are of its current version, as long as there was no fault.
KeysArrive(j) ==
  /\ j[1] \in Files => ~Exists(j[1])
  /\ faults' = 0 /\ doc'[j[1]].deleted /\ j[2] = doc'[j[1]].cur => cleanup'[j[1]].state = "QUEUED"

\* What a step that is not one of the cleanup does to what the cleanup works on.
Outside ==
  /\ \A d \in Docs : JobKept(d)
  /\ \A j \in VersionIds : j \in keys' \cap objects' => j \in keys \cap objects \/ KeysArrive(j)
  /\ \A w \in Workers : cleaner'[w] = cleaner[w] \/ (cleaner'[w] = CleanerIdle /\ faults' > faults)

\* The pipeline, without the cleanup: only a result requeues a cleanup or brings keys,
\* and an artifact comes before its keys.
LEMMA PipelineOutside ==
  ASSUME AccountsTypeOK, DocsInv, RequestsInv, Pipeline, UNCHANGED accountVars, faults \in Nat
  PROVE  Outside \/ CleanupNext
  <1> USE DEF AccountsTypeOK
  <1>0. /\ SameRows
        /\ CleanupOfDeleted /\ NothingEarly /\ ReadInv
        /\ doc \in [Docs -> DocRow] /\ keys \subseteq VersionIds /\ objects \subseteq VersionIds
        /\ cleanup \in [Docs -> CleanupRow]
    BY PipelineRows DEF DocsInv, ReadInv, StoreTypeOK
  <1>1. UNCHANGED cleanup => \A d \in Docs : JobKept(d)
    BY <1>0 DEF JobKept, SameRows
  <1>2. CASE ScrapeNext /\ UNCHANGED loopVars
    <2>1. PICK j \in VersionIds :
            /\ outbox[j].state # "NONE"
            /\ outbox[j].state = "PENDING" \/ Fault
            /\ objects' = objects \/ objects' = objects \cup {j}
      BY <1>2, ScrapeRows
    <2>2. UNCHANGED <<keys, cleanup, cleaner>>
      BY <1>2, ScrapeRows DEF loopVars
    <2>3. j[1] \in Webpages /\ j[1] \notin Files
      BY <2>1, FilesAreDocs DEF DocsInv, PagesAsked
    <2>4. j \in keys => Fault
      BY <2>1, <2>3 DEF RequestsInv
    <2>5. j \in keys => KeysArrive(j)
      BY <2>3, <2>4 DEF KeysArrive, Fault
    <2> QED BY <1>1, <2>1, <2>2, <2>5 DEF Outside
  <1>3. CASE ConsumerNext /\ UNCHANGED cleaner
    <2>0. UNCHANGED <<objects, outbox>>
      BY <1>3, ConsumerRows
    <2>1. CASE UNCHANGED <<doc, keys, inbox, cleanup>>
      BY <1>1, <1>3, <2>0, <2>1 DEF Outside
    <2>2. ASSUME NEW w \in Workers, ApplyResult(w) PROVE Outside
      <3> DEFINE j == consumer[w].msg.id
      <3>1. /\ j \in VersionIds /\ j[1] \in Docs /\ j = <<j[1], j[2]>>
            /\ outbox[j].state = "PUBLISHED"
            /\ keys' = keys \/ keys' = keys \cup {j}
            /\ \A d \in Docs : ~doc[d].deleted => cleanup'[d] = cleanup[d]
        <4>1. consumer[w].msg \in Results /\ consumer[w].pc = "document"
          BY <2>2, ResultCases
        <4>2. outbox[j].state = "PUBLISHED"
          BY <4>1 DEF RequestsInv, InFlight
        <4>3. keys' = keys \/ keys' = keys \cup {j}
          BY <2>2, ResultCases
             DEF CommitsNothing, CommitsFailure, CommitsSuccess, ApplyFailed, ApplyCompleted
        <4>4. ASSUME NEW d \in Docs, ~doc[d].deleted PROVE cleanup'[d] = cleanup[d]
          <5>1. cleanup[d].state = "NONE"
            BY <1>0, <4>4 DEF CleanupOfDeleted
          <5>2. RequeueArtifactCleanupJob(cleanup[d]) = cleanup[d]
            BY <5>1 DEF RequeueArtifactCleanupJob
          <5>3. \/ cleanup' = cleanup
                \/ cleanup' = [cleanup EXCEPT ![j[1]] = cleanup[j[1]]]
                \/ cleanup' = [cleanup EXCEPT ![j[1]] = RequeueArtifactCleanupJob(cleanup[j[1]])]
            BY <2>2, ResultCases
               DEF CommitsNothing, CommitsFailure, CommitsSuccess, ApplyFailed, ApplyCompleted
          <5> QED BY <1>0, <5>2, <5>3
        <4> QED BY <4>1, <4>2, <4>3, <4>4 DEF Results
      <3> HIDE DEF j
      <3>2. j[1] \notin Files
        BY <3>1, FilesAreDocs DEF DocsInv, PagesAsked
      <3>3. ASSUME NEW d \in Docs PROVE JobKept(d)
        <4>1. CASE doc[d].deleted
          <5>1. cleanup'[d] = cleanup[d] \/ cleanup'[d] = [state |-> "QUEUED", attempts |-> 0]
            BY <1>0, <2>2, <4>1, ResultOfDeleted
          <5> QED BY <1>0, <4>1, <5>1 DEF JobKept, SameRows
        <4>2. CASE ~doc[d].deleted
          BY <1>0, <3>1, <4>2 DEF JobKept, SameRows
        <4> QED BY <4>1, <4>2
      <3>4. ASSUME NEW i \in VersionIds, i \in keys', i \notin keys PROVE KeysArrive(i)
        <4>1. i = j /\ i[1] \in Docs /\ i = <<i[1], i[2]>>
          BY <3>1, <3>4
        <4>2. ASSUME doc'[i[1]].deleted, i[2] = doc'[i[1]].cur PROVE cleanup'[i[1]].state = "QUEUED"
          <5>1. doc[i[1]].deleted /\ i = <<i[1], doc[i[1]].cur>>
            BY <1>0, <4>1, <4>2 DEF SameRows
          <5> QED BY <1>0, <2>2, <3>4, <4>1, <5>1, ResultOfDeleted
        <4> QED BY <3>2, <4>1, <4>2 DEF KeysArrive
      <3> QED BY <1>3, <2>0, <3>3, <3>4 DEF Outside
    <2> QED BY <1>3, <2>1, <2>2, ConsumerOther
  <1>4. CASE \E w \in Workers : CrashWorker(w)
    <2>1. PICK w \in Workers : cleaner' = [cleaner EXCEPT ![w] = CleanerIdle]
      BY <1>4 DEF CrashWorker
    <2>2. faults' > faults /\ UNCHANGED <<keys, objects, cleanup>>
      BY <1>4 DEF CrashWorker, Fault
    <2> QED BY <1>1, <2>1, <2>2 DEF Outside, CleanerTypeOK
  <1>5. CASE UNCHANGED <<storeVars, loopVars>>
    BY <1>1, <1>5 DEF Outside, storeVars, loopVars
  <1> QED BY <1>2, <1>3, <1>4, <1>5 DEF Pipeline

\* A write of the API creates a cleanup job for what it deletes, and leaves those of what
\* was deleted before.
LEMMA LibraryOutside ==
  ASSUME AccountsTypeOK, DocsInv, NEW d \in Docs, CreateDocument(d) \/ ChangeDocument(d),
         UNCHANGED <<loopVars, accountVars>>
  PROVE  Outside
  <1> USE DEF AccountsTypeOK
  <1>0. /\ Writes(d) /\ UNCHANGED <<keys, objects, cleaner>>
        /\ CleanupOfDeleted /\ DeletedCreated
        /\ doc \in [Docs -> DocRow] /\ cleanup \in [Docs -> CleanupRow]
    BY DEF CreateDocument, ChangeDocument, Writes, loopVars, DocsInv, ReadInv, CleanupOfDeleted, DeletedCreated,
       StoreTypeOK, CreateMemo, CreateWebpage, UpdateMemo, UpdateWebpage, CreateVersionAndJob, Delete
  <1>1. ASSUME NEW e \in Docs PROVE JobKept(e)
    <2>1. CASE doc[e].deleted
      <3>1. doc'[e] = doc[e] /\ cleanup'[e] = cleanup[e]
        BY <1>0, <2>1, WriteDeleted
      <3> QED BY <2>1, <3>1 DEF JobKept
    <2>2. CASE ~doc[e].deleted
      <3>1. cleanup[e].state = "NONE"
        BY <1>0, <2>2 DEF CleanupOfDeleted
      <3>2. ASSUME NEW row \in DocRow, Fresh(d, row), CreateVersionAndJob(d, row)
            PROVE  cleanup'[e] = cleanup[e] /\ ~doc'[e].deleted
        BY <1>0, <2>2, <3>2 DEF Fresh, CreateVersionAndJob
      <3>3. CASE Delete(d)
        <4>1. /\ doc' = [doc EXCEPT ![d] = SoftDeleteDocument(doc[d])]
              /\ cleanup' = [cleanup EXCEPT ![d] = CreateArtifactCleanupJob(cleanup[d])]
          BY <3>3 DEF Delete
        <4>2. CASE e = d
          <5>1. cleanup'[e] = [state |-> "QUEUED", attempts |-> 0]
            BY <1>0, <3>1, <4>1, <4>2 DEF CreateArtifactCleanupJob
          <5> QED BY <5>1 DEF JobKept
        <4>3. CASE e # d
          BY <1>0, <2>2, <4>1, <4>3 DEF JobKept
        <4> QED BY <4>2, <4>3
      <3> QED BY <1>0, <3>2, <3>3, WriteCases DEF JobKept
    <2> QED BY <2>1, <2>2
  <1> QED BY <1>0, <1>1 DEF Outside

\* An upload records the keys of its own files only, which have no row before, and deletes
\* nothing.
LEMMA UploadOutside ==
  ASSUME AccountsTypeOK, DocsInv, NEW u \in Uploads, Upload(u), UNCHANGED <<loopVars, gone>>
  PROVE  Outside
  <1> USE DEF AccountsTypeOK
  <1>0. /\ UNCHANGED <<cleaner, cleanup>>
        /\ \/ UNCHANGED <<doc, keys>>
           \/ upload[u].pc = "inserting" /\ Insert(u) /\ UNCHANGED objects
        /\ UploadHoldsOf(u) /\ NothingEarly
    BY UploadStore DEF loopVars, DocsInv, UploadHolds, ReadInv
  <1>1. \A d \in Docs : JobKept(d)
    <2>1. \A d \in Docs : doc'[d].deleted => doc'[d] = doc[d]
      BY <1>0 DEF Insert
    <2> QED BY <1>0, <2>1 DEF JobKept
  <1>2. CASE UNCHANGED <<doc, keys>>
    <2>1. \/ objects' \subseteq objects
          \/ \E d \in FilesOf[u] : upload[u].pc = "storing" /\ objects' = objects \cup {ObjectOf(d)}
      BY DEF Upload, PutObject, RejectFile, PutFails, Reserve, CommitUpload, PersistFails, Compensate,
             CompensateFails, CrashUpload, storeVars
    <2>2. ASSUME NEW d \in FilesOf[u], upload[u].pc = "storing" PROVE ObjectOf(d) \notin keys
      <3>1. d \in Docs /\ ~Exists(d) /\ doc[d] \in DocRow
        BY <1>0, <2>2, FilesAreDocs DEF UploadHoldsOf, StoreTypeOK
      <3>2. ~(1 <= doc[d].cur)
        BY <3>1 DEF Exists, DocRow
      <3> QED BY <1>0, <3>2 DEF NothingEarly, ObjectOf
    <2>3. keys' \cap objects' \subseteq keys \cap objects
      BY <1>2, <2>1, <2>2
    <2> QED BY <1>0, <1>1, <2>3 DEF Outside
  <1>3. CASE upload[u].pc = "inserting" /\ Insert(u) /\ UNCHANGED objects
    <2>1. ASSUME NEW j \in keys', j \notin keys PROVE KeysArrive(j)
      <3>1. j[1] \in FilesOf[u] /\ j[1] \in Docs
        BY <1>3, <2>1, FilesAreDocs DEF Insert, ObjectOf
      <3>2. ~Exists(j[1]) /\ ~doc'[j[1]].deleted
        BY <1>0, <1>3, <3>1 DEF Insert, UploadHoldsOf
      <3> QED BY <3>2 DEF KeysArrive
    <2> QED BY <1>0, <1>1, <1>3, <2>1 DEF Outside
  <1> QED BY <1>0, <1>2, <1>3

\* A withdrawal queues the cleanup of everything, and a removal takes the job along with
\* the document and its keys.
LEMMA EndOutside ==
  ASSUME AccountsTypeOK, DocsInv, Withdraw \/ RunMaintenance, UNCHANGED loopVars
  PROVE  Outside
  <1> USE DEF AccountsTypeOK
  <1>0. doc \in [Docs -> DocRow] /\ UNCHANGED cleaner /\ CleanupOfDeleted
    BY DEF StoreTypeOK, loopVars, DocsInv, ReadInv
  <1>1. CASE Withdraw
    <2>1. /\ doc' = [d \in Docs |-> IF Live(doc[d]) THEN SoftDeleteDocument(doc[d]) ELSE doc[d]]
          /\ cleanup' = [d \in Docs |-> IF Exists(d) THEN ScheduleCleanup(cleanup[d]) ELSE cleanup[d]]
          /\ UNCHANGED <<keys, objects>>
      BY <1>1 DEF Withdraw
    <2>2. ASSUME NEW d \in Docs PROVE JobKept(d)
      <3>1. CASE Exists(d)
        BY <2>1, <3>1 DEF JobKept, ScheduleCleanup
      <3>2. CASE ~Exists(d)
        BY <1>0, <2>1, <3>2 DEF JobKept, Exists, Live
      <3> QED BY <3>1, <3>2
    <2> QED BY <1>0, <2>1, <2>2 DEF Outside
  <1>2. CASE RunMaintenance
    <2>1. PICK D \in SUBSET Docs : RemoveDocuments(D) /\ \A d \in D : Exists(d)
      BY <1>2, RemovalCases DEF RunMaintenance
    <2>2. /\ \A d \in D : cleanup'[d] = [state |-> "NONE", attempts |-> 0] /\ ~doc'[d].deleted
          /\ \A d \in Docs \ D : cleanup'[d] = cleanup[d] /\ doc'[d] = doc[d]
          /\ keys' \subseteq keys /\ UNCHANGED objects /\ gone' = gone \cup D
      BY <2>1 DEF RemoveDocuments
    <2>3. \A d \in D : ~InHand(d)
      BY <1>2, <2>1, <2>2 DEF RunMaintenance, DocsInv, RemovedForGood
    <2>4. \A d \in Docs : JobKept(d)
      BY <2>2, <2>3 DEF JobKept
    <2> QED BY <1>0, <2>2, <2>4 DEF Outside
  <1> QED BY <1>1, <1>2

\* Every step that is not one of the cleanup.
LEMMA StepOutside ==
  ASSUME AccountsTypeOK, DocsInv, RequestsInv, [Next]_vars
  PROVE  Outside \/ CleanupNext
  <1>1. faults \in Nat
    BY FaultsGrow DEF AccountsTypeOK
  <1> QED BY <1>1, StepCases, PipelineOutside, LibraryOutside, UploadOutside, EndOutside

-----------------------------------------------------------------------------
(* Keys outlive objects.                                                   *)

Deleting(w, d) == cleaner[w].pc = "deleting" /\ cleaner[w].doc = d

\* The worker w will come to the artifact j.
Holds(w, j) == j[1] \in cleaner[w].batch \/ (Deleting(w, j[1]) /\ j \in cleaner[w].left)

\* An artifact of a file that its row names keeps its cleanup from being done, and a
\* worker that cleans the file up has it before it.
FileKeys ==
  \A j \in VersionIds : j \in keys \cap objects /\ j[1] \in Files =>
    /\ ~Cleaned(j[1])
    /\ \A w \in Workers : Deleting(w, j[1]) => j \in cleaner[w].left

\* An artifact of the current version of a deleted document that its row names is in the
\* hands of a worker, or the cleanup is queued.
CurrentKeys ==
  faults = 0 =>
    \A j \in VersionIds : j \in keys \cap objects /\ doc[j[1]].deleted /\ j[2] = doc[j[1]].cur =>
      cleanup[j[1]].state = "QUEUED" \/ \E w \in Workers : Holds(w, j)

KeysInv == FileKeys /\ CurrentKeys

\* What the others do keeps what holds of keys and objects.
LEMMA KeysOutside ==
  ASSUME DocsInv, KeysInv, Outside, faults \in Nat, faults' \in Nat, faults' >= faults
  PROVE  KeysInv'
  <1>0. CleanupOfDeleted /\ CleansDeleted
    BY DEF DocsInv, ReadInv
  <1>1. CleanerIdle.pc = "idle"
    BY DEF CleanerIdle
  <1>2. FileKeys'
    <2>1. SUFFICES ASSUME NEW j \in VersionIds, j \in keys' \cap objects', j[1] \in Files
                   PROVE  /\ cleanup'[j[1]].state # "SUCCEEDED"
                          /\ \A w \in Workers : Deleting(w, j[1])' => j \in cleaner'[w].left
      BY DEF FileKeys, Cleaned
    <2>2. j[1] \in Docs /\ JobKept(j[1])
      BY DEF Outside
    <2>3. cleanup[j[1]].state # "SUCCEEDED"
      BY <1>0, <2>1, <2>2 DEF Outside, KeysInv, FileKeys, Cleaned, KeysArrive, CleanupOfDeleted, Exists
    <2>4. ASSUME NEW w \in Workers, Deleting(w, j[1])' PROVE j \in cleaner'[w].left
      <3>1. cleaner'[w] = cleaner[w] /\ Deleting(w, j[1])
        BY <1>1, <2>4 DEF Outside, Deleting
      <3>2. doc[j[1]].deleted
        BY <1>0, <2>2, <3>1 DEF CleansDeleted, Deleting
      <3>3. Exists(j[1])
        BY <1>0, <2>2, <3>2 DEF CleanupOfDeleted, Exists
      <3> QED BY <2>1, <3>1, <3>3 DEF Outside, KeysInv, FileKeys, KeysArrive
    <2> QED BY <2>2, <2>3, <2>4 DEF JobKept
  <1>3. CurrentKeys'
    <2>1. SUFFICES ASSUME faults' = 0, NEW j \in VersionIds, j \in keys' \cap objects',
                          doc'[j[1]].deleted, j[2] = doc'[j[1]].cur, cleanup'[j[1]].state # "QUEUED"
                   PROVE  \E w \in Workers : Holds(w, j)'
      BY DEF CurrentKeys
    <2>2. faults = 0 /\ \A w \in Workers : cleaner'[w] = cleaner[w]
      BY <2>1 DEF Outside
    <2>3. j \in keys \cap objects
      BY <2>1 DEF Outside, KeysArrive
    <2>4. doc[j[1]].deleted /\ cleanup'[j[1]] = cleanup[j[1]] /\ doc'[j[1]].cur = doc[j[1]].cur
      BY <2>1 DEF Outside, JobKept
    <2>5. PICK w \in Workers : Holds(w, j)
      BY <2>1, <2>2, <2>3, <2>4 DEF KeysInv, CurrentKeys
    <2> QED BY <2>2, <2>5 DEF Holds, Deleting
  <1> QED BY <1>2, <1>3 DEF KeysInv

\* What the cleanup does to the job and the keys that it has in hand: it claims, it lists
\* the keys of a document, it deletes one, it completes the job when none is left, or it
\* gives up, which is a fault or comes of a requeue.
CleanupCases(w) ==
  \/ \E batch \in SUBSET {d \in Docs : Cleanable(d)} :
       /\ cleaner[w] = CleanerIdle
       /\ cleanup' = [d \in Docs |-> IF d \in batch THEN ClaimCleanupJob(cleanup[d]) ELSE cleanup[d]]
       /\ cleaner' = [cleaner EXCEPT ![w].batch = batch]
       /\ UNCHANGED objects
  \/ \E d \in cleaner[w].batch : ListDocumentArtifactKeys(w, d)
  \/ \E j \in VersionIds : DeleteObject(w, j)
  \/ /\ cleaner[w].pc = "deleting" /\ cleaner[w].left = {}
     /\ cleanup' = [cleanup EXCEPT ![cleaner[w].doc] = CompleteArtifactCleanupJob(cleanup[cleaner[w].doc])]
     /\ \/ NextDocument(w)
        \/ /\ cleaner' = [cleaner EXCEPT ![w].pc = "failed"]
           /\ Fault \/ cleanup[cleaner[w].doc].state \notin {"PROCESSING", "SUCCEEDED"}
     /\ UNCHANGED objects
  \/ /\ cleaner[w].pc = "deleting" /\ Fault
     /\ objects' \subseteq objects /\ UNCHANGED cleanup
     /\ cleaner' = [cleaner EXCEPT ![w].pc = "failed"]
  \/ /\ cleaner[w].pc = "failed"
     /\ cleanup' = [cleanup EXCEPT ![cleaner[w].doc] = FailArtifactCleanupJob(cleanup[cleaner[w].doc])]
     /\ NextDocument(w) /\ UNCHANGED objects
  \/ /\ Fault
     /\ cleaner' = [cleaner EXCEPT ![w] = CleanerIdle] /\ UNCHANGED <<cleanup, objects>>

\* These are the steps of the cleanup.
LEMMA CleanupStepCases == ASSUME CleanupNext PROVE \E w \in Workers : CleanupCases(w)
  <1>1. PICK w \in Workers : CleanBatch(w) \/ CleanupFails(w) \/ FailCleanupFails(w)
    BY DEF CleanupNext
  <1> USE DEF CleanupCases
  <1>2. CASE ClaimArtifactCleanupJobs(w)
    <2>1. PICK batch \in SUBSET {d \in Docs : Cleanable(d)} :
            /\ cleanup' = [d \in Docs |-> IF d \in batch THEN ClaimCleanupJob(cleanup[d]) ELSE cleanup[d]]
            /\ cleaner' = [cleaner EXCEPT ![w].batch = batch]
      BY <1>2 DEF ClaimArtifactCleanupJobs
    <2>2. cleaner[w] = CleanerIdle /\ UNCHANGED objects
      BY <1>2 DEF ClaimArtifactCleanupJobs
    <2> QED BY <2>1, <2>2
  <1>3. CASE (\E d \in Docs : ListDocumentArtifactKeys(w, d)) \/ \E j \in VersionIds : DeleteObject(w, j)
    BY <1>3 DEF ListDocumentArtifactKeys
  <1>4. CASE CompleteCleanup(w)
    BY <1>4 DEF CompleteCleanup
  <1>5. CASE CleanupFails(w)
    BY <1>5 DEF CleanupFails
  <1>6. CASE FailCleanup(w) \/ FailCleanupFails(w)
    BY <1>6 DEF FailCleanup, FailCleanupFails
  <1> QED BY <1>1, <1>2, <1>3, <1>4, <1>5, <1>6 DEF CleanBatch

\* The cleanup keeps what holds of keys and objects: a worker deletes what it has listed
\* before it completes the job, and a key that it lists is of the document at hand.
LEMMA KeysCleanup ==
  ASSUME StoreTypeOK, CleanerTypeOK, KeysInv, NEW w \in Workers, CleanupCases(w), UNCHANGED <<doc, keys>>,
         faults \in Nat, faults' \in Nat, faults' >= faults
  PROVE  KeysInv'
  <1>0. /\ cleaner \in [Workers -> [batch : SUBSET Docs, doc : Docs \cup {None},
                                    pc : {"idle", "deleting", "failed"},
                                    seen : SUBSET VersionIds, left : SUBSET VersionIds]]
        /\ cleanup \in [Docs -> CleanupRow]
        /\ cleaner[w].pc # "idle" => cleaner[w].doc \in Docs
        /\ Fault => faults' # 0
        /\ faults' = 0 => faults = 0
    BY DEF CleanerTypeOK, StoreTypeOK, Fault
  \* It is enough to look at the worker that takes the step.
  <1>1. SUFFICES ASSUME NEW j \in VersionIds, j \in keys, j \in objects'
                 PROVE  /\ j \in objects /\ \A v \in Workers \ {w} : cleaner'[v] = cleaner[v]
                        /\ (j[1] \in Files => ~Cleaned(j[1]) /\ (Deleting(w, j[1]) => j \in cleaner[w].left))
                           => /\ cleanup'[j[1]].state # "SUCCEEDED" \/ j[1] \notin Files
                              /\ Deleting(w, j[1])' => j \in cleaner'[w].left \/ j[1] \notin Files
                        /\ faults' = 0 =>
                             /\ cleanup[j[1]].state = "QUEUED" => cleanup'[j[1]].state = "QUEUED" \/ Holds(w, j)'
                             /\ Holds(w, j) => Holds(w, j)'
    <2>1. FileKeys'
      BY <1>1 DEF KeysInv, FileKeys, Cleaned, Deleting
    <2>2. CurrentKeys'
      <3>1. SUFFICES ASSUME faults' = 0, NEW j \in VersionIds, j \in keys, j \in objects',
                            doc[j[1]].deleted, j[2] = doc[j[1]].cur, cleanup'[j[1]].state # "QUEUED"
                     PROVE  \E v \in Workers : Holds(v, j)'
        BY DEF CurrentKeys
      <3>2. cleanup[j[1]].state = "QUEUED" \/ \E v \in Workers : Holds(v, j)
        BY <1>0, <1>1, <3>1 DEF KeysInv, CurrentKeys
      <3>3. ASSUME NEW v \in Workers \ {w}, Holds(v, j) PROVE Holds(v, j)'
        BY <1>1, <3>1, <3>3 DEF Holds, Deleting
      <3> QED BY <1>1, <3>1, <3>2, <3>3
    <2> QED BY <2>1, <2>2 DEF KeysInv
  <1>2. j[1] \in Docs
    OBVIOUS
  <1> USE DEF Cleaned, Deleting, Holds
  <1> DEFINE next == [CleanerIdle EXCEPT !.batch = cleaner[w].batch]
  <1>3. /\ next.batch = cleaner[w].batch /\ next.pc = "idle"
        /\ NextDocument(w) <=> cleaner' = [cleaner EXCEPT ![w] = next]
    BY DEF CleanerIdle, NextDocument
  <1>4. CleanerIdle.pc = "idle" /\ CleanerIdle.batch = {}
    BY DEF CleanerIdle
  <1> HIDE DEF next
  <1>5. ASSUME NEW batch \in SUBSET {d \in Docs : Cleanable(d)},
               cleaner[w] = CleanerIdle,
               cleanup' = [d \in Docs |-> IF d \in batch THEN ClaimCleanupJob(cleanup[d]) ELSE cleanup[d]],
               cleaner' = [cleaner EXCEPT ![w].batch = batch], UNCHANGED objects
        PROVE  /\ j \in objects /\ \A v \in Workers \ {w} : cleaner'[v] = cleaner[v]
               /\ ~Cleaned(j[1]) => cleanup'[j[1]].state # "SUCCEEDED"
               /\ ~Deleting(w, j[1])' /\ ~Holds(w, j)
               /\ cleanup[j[1]].state = "QUEUED" => cleanup'[j[1]].state = "QUEUED" \/ Holds(w, j)'
    <2>1. /\ \A v \in Workers \ {w} : cleaner'[v] = cleaner[v]
          /\ cleaner'[w].pc = "idle" /\ cleaner'[w].batch = batch
      BY <1>0, <1>4, <1>5
    <2>2. cleanup'[j[1]] = cleanup[j[1]] \/ (cleanup'[j[1]].state = "PROCESSING" /\ j[1] \in batch)
      BY <1>2, <1>5 DEF ClaimCleanupJob
    <2> QED BY <1>1, <1>4, <1>5, <2>1, <2>2
  <1>6. ASSUME NEW d \in cleaner[w].batch, ListDocumentArtifactKeys(w, d)
        PROVE  /\ j \in objects /\ UNCHANGED cleanup /\ \A v \in Workers \ {w} : cleaner'[v] = cleaner[v]
               /\ Deleting(w, j[1])' => j \in cleaner'[w].left
               /\ Holds(w, j) => Holds(w, j)'
    <2> DEFINE c == [batch |-> cleaner[w].batch \ {d}, doc |-> d, pc |-> "deleting",
                     seen |-> KeysOf(d), left |-> KeysOf(d)]
    <2>1. /\ cleaner' = [cleaner EXCEPT ![w] = c] /\ UNCHANGED <<cleanup, objects>> /\ cleaner[w].pc = "idle"
          /\ c.doc = d /\ c.pc = "deleting" /\ c.left = KeysOf(d) /\ c.batch = cleaner[w].batch \ {d}
      BY <1>6 DEF ListDocumentArtifactKeys, storeVars
    <2> HIDE DEF c
    <2>2. cleaner'[w] = c /\ \A v \in Workers \ {w} : cleaner'[v] = cleaner[v]
      BY <1>0, <2>1
    <2> QED BY <1>1, <2>1, <2>2 DEF KeysOf
  <1>7. ASSUME NEW i \in VersionIds, DeleteObject(w, i)
        PROVE  /\ j \in objects /\ UNCHANGED cleanup /\ \A v \in Workers \ {w} : cleaner'[v] = cleaner[v]
               /\ Deleting(w, j[1])' <=> Deleting(w, j[1])
               /\ j \in cleaner[w].left => j \in cleaner'[w].left
               /\ cleaner'[w].batch = cleaner[w].batch
    <2>1. /\ objects' = objects \ {i} /\ UNCHANGED cleanup
          /\ cleaner' = [cleaner EXCEPT ![w].left = cleaner[w].left \ {i}]
      BY <1>7 DEF DeleteObject
    <2>2. /\ cleaner'[w].batch = cleaner[w].batch /\ cleaner'[w].pc = cleaner[w].pc
          /\ cleaner'[w].doc = cleaner[w].doc /\ cleaner'[w].left = cleaner[w].left \ {i}
          /\ \A v \in Workers \ {w} : cleaner'[v] = cleaner[v]
      BY <1>0, <2>1
    <2> QED BY <1>1, <2>1, <2>2
  \* The job at hand is completed, or failed, or left alone; the batch stays.
  <1>8. ASSUME NEW row, \/ row = CompleteArtifactCleanupJob(cleanup[cleaner[w].doc]) /\ cleaner[w].left = {}
                             /\ cleaner[w].pc = "deleting"
                        \/ row = FailArtifactCleanupJob(cleanup[cleaner[w].doc]) /\ cleaner[w].pc = "failed",
               cleanup' = [cleanup EXCEPT ![cleaner[w].doc] = row],
               NextDocument(w) \/ cleaner' = [cleaner EXCEPT ![w].pc = "failed"], UNCHANGED objects
        PROVE  /\ j \in objects /\ \A v \in Workers \ {w} : cleaner'[v] = cleaner[v]
               /\ ~Cleaned(j[1]) /\ (Deleting(w, j[1]) => j \in cleaner[w].left)
                    => cleanup'[j[1]].state # "SUCCEEDED"
               /\ ~Deleting(w, j[1])'
               /\ cleanup[j[1]].state = "QUEUED" => cleanup'[j[1]].state = "QUEUED"
               /\ Holds(w, j) => Holds(w, j)'
    <2>1. /\ \A v \in Workers \ {w} : cleaner'[v] = cleaner[v]
          /\ cleaner'[w].pc # "deleting" /\ cleaner'[w].batch = cleaner[w].batch
      BY <1>0, <1>3, <1>8
    <2>2. /\ cleanup[cleaner[w].doc].state = "QUEUED" => row.state = "QUEUED"
          /\ row.state = "SUCCEEDED" /\ cleanup[cleaner[w].doc].state # "SUCCEEDED"
               => cleaner[w].pc = "deleting" /\ cleaner[w].left = {}
      <3> DEFINE old == cleanup[cleaner[w].doc]
      <3>1. old \in CleanupRow
        BY <1>0, <1>8
      <3>2. \/ row = CompleteArtifactCleanupJob(old) /\ cleaner[w].left = {} /\ cleaner[w].pc = "deleting"
            \/ row = FailArtifactCleanupJob(old)
        BY <1>8
      <3> HIDE DEF old
      <3>3. /\ old.state = "QUEUED" => row.state = "QUEUED"
            /\ row.state = "SUCCEEDED" /\ old.state # "SUCCEEDED" => cleaner[w].pc = "deleting" /\ cleaner[w].left = {}
        BY <3>1, <3>2 DEF CleanupRow, CompleteArtifactCleanupJob, FailArtifactCleanupJob
      <3> QED BY <3>3 DEF old
    <2>3. cleanup'[j[1]] = IF j[1] = cleaner[w].doc THEN row ELSE cleanup[j[1]]
      BY <1>0, <1>2, <1>8
    <2>4. ~Cleaned(j[1]) /\ (Deleting(w, j[1]) => j \in cleaner[w].left) => cleanup'[j[1]].state # "SUCCEEDED"
      BY <2>2, <2>3
    <2>5. Holds(w, j) => Holds(w, j)'
      BY <1>8, <2>1
    <2>6. cleanup[j[1]].state = "QUEUED" => cleanup'[j[1]].state = "QUEUED"
      BY <2>2, <2>3
    <2> QED BY <1>1, <1>8, <2>1, <2>4, <2>5, <2>6
  <1>9. ASSUME Fault, objects' \subseteq objects, UNCHANGED cleanup,
               \/ cleaner' = [cleaner EXCEPT ![w].pc = "failed"]
               \/ cleaner' = [cleaner EXCEPT ![w] = CleanerIdle]
        PROVE  /\ j \in objects /\ \A v \in Workers \ {w} : cleaner'[v] = cleaner[v]
               /\ ~Deleting(w, j[1])' /\ faults' # 0
    BY <1>0, <1>1, <1>4, <1>9
  <1> QED BY <1>5, <1>6, <1>7, <1>8, <1>9 DEF CleanupCases

\* Every step keeps what holds of keys and objects.
LEMMA KeysStep == ASSUME AccountsTypeOK, DocsInv, RequestsInv, KeysInv, [Next]_vars PROVE KeysInv'
  <1>0. faults \in Nat /\ faults' \in Nat /\ faults' >= faults
    BY FaultsGrow DEF AccountsTypeOK
  <1>1. CASE Outside
    BY <1>0, <1>1, KeysOutside
  <1>2. CASE CleanupNext
    BY <1>0, <1>2, CleanupStepCases, CleanupRows, KeysCleanup DEF AccountsTypeOK
  <1> QED BY <1>1, <1>2, StepOutside

\* In the beginning there are neither keys nor objects.
LEMMA InitKeys == Init => KeysInv
  BY DEF Init, StoreInit, KeysInv, FileKeys, CurrentKeys

\* What holds of keys and objects holds in every state.
LEMMA KeysInvariant == Spec => []KeysInv
  BY AccountsTypeCorrect, DocsInvariant, RequestsInvariant, InitKeys, KeysStep, PTL DEF Spec

\* Only maintenance removes keys: those of documents whose cleanup is done and that no
\* worker has in hand.
LEMMA KeysRemoved ==
  ASSUME AccountsTypeOK, DocsInv, [Next]_vars, NEW j \in VersionIds, j \in keys, j \notin keys'
  PROVE  Cleaned(j[1]) /\ ~InHand(j[1]) /\ doc[j[1]].deleted
  <1> USE DEF AccountsTypeOK
  <1>1. CASE Pipeline
    <2>1. CASE ConsumerNext
      <3>1. PICK w \in Workers : ApplyResult(w)
        BY <2>1, ConsumerOther
      <3> QED BY <3>1, ResultCases
              DEF CommitsNothing, CommitsFailure, CommitsSuccess, ApplyFailed, ApplyCompleted
    <2>2. CASE ScrapeNext
      BY <2>2, ScrapeRows
    <2>3. CASE CleanupNext
      BY <2>3, CleanupRows
    <2> QED BY <1>1, <2>1, <2>2, <2>3 DEF Pipeline, CrashWorker, storeVars
  <1>2. ASSUME NEW d \in Docs, CreateDocument(d) \/ ChangeDocument(d) PROVE FALSE
    BY <1>2 DEF CreateDocument, ChangeDocument, CreateMemo, CreateWebpage, UpdateMemo, UpdateWebpage,
       CreateVersionAndJob, Delete
  <1>3. ASSUME NEW u \in Uploads, Upload(u) PROVE FALSE
    BY <1>3, UploadStore DEF Insert
  <1>4. ~Withdraw
    BY DEF Withdraw
  <1>5. CASE RunMaintenance
    <2>1. PICK D \in SUBSET Docs : RemoveDocuments(D) /\ \A d \in D : Exists(d) /\ Cleaned(d)
      BY <1>5, RemovalCases DEF RunMaintenance
    <2>2. j[1] \in D /\ gone' = gone \cup D
      BY <2>1 DEF RemoveDocuments
    <2>3. ~InHand(j[1])
      BY <1>5, <2>1, <2>2 DEF RunMaintenance, DocsInv, RemovedForGood
    <2>4. doc[j[1]].deleted
      BY <2>1, <2>2 DEF Cleaned, DocsInv, ReadInv, CleanupOfDeleted
    <2> QED BY <2>1, <2>2, <2>3, <2>4
  <1> QED BY <1>1, <1>2, <1>3, <1>4, <1>5, StepCases

\* The rows of a document are not removed while an artifact that they name is still in
\* the bucket: not of a file, and not of the current version of a page as long as there
\* was no fault.
THEOREM KeysOutlive == Spec => KeysOutliveObjects
  <1>1. ASSUME AccountsTypeOK, DocsInv, KeysInv, [Next]_vars,
               NEW j \in VersionIds, j \in keys, j \notin keys',
               j[1] \in Files \/ (faults = 0 /\ j[2] = doc[j[1]].cur)
        PROVE  j \notin objects
    <2>1. Cleaned(j[1]) /\ ~InHand(j[1]) /\ doc[j[1]].deleted
      BY <1>1, KeysRemoved
    <2>2. CASE j[1] \in Files
      BY <1>1, <2>1, <2>2 DEF KeysInv, FileKeys
    <2>3. CASE faults = 0 /\ j[2] = doc[j[1]].cur
      BY <1>1, <2>1, <2>3 DEF KeysInv, CurrentKeys, Cleaned, InHand, Holds, Deleting
    <2> QED BY <1>1, <2>2, <2>3
  <1>2. AccountsTypeOK /\ DocsInv /\ KeysInv /\ [Next]_vars =>
          [\A j \in VersionIds :
             /\ j \in keys /\ j \notin keys'
             /\ j[1] \in Files \/ (faults = 0 /\ j[2] = doc[j[1]].cur)
             => j \notin objects]_vars
    BY <1>1
  <1> QED BY AccountsTypeCorrect, DocsInvariant, KeysInvariant, <1>2, PTL DEF Spec, KeysOutliveObjects

-----------------------------------------------------------------------------
(* Attempts.                                                               *)

InHands(w, d) == d \in cleaner[w].batch \cup {cleaner[w].doc}

Failed(w, d) == cleaner[w].pc = "failed" /\ cleaner[w].doc = d

\* A claim uses up an attempt, and a cleanup that is claimed is claimed again only after
\* a fault: while the one worker has it in hand it may be one attempt ahead of the faults.
AttemptsOf(w, d) ==
  /\ cleanup[d].state \in {"QUEUED", "NONE"} => cleanup[d].attempts = 0
  /\ InHands(w, d) => /\ cleanup[d].state \in {"QUEUED", "PROCESSING"} \/ Failed(w, d)
                      /\ cleanup[d].attempts <= faults + 1
  /\ Failed(w, d) \/ ~InHands(w, d) =>
       cleanup[d].state = "SUCCEEDED" \/ cleanup[d].attempts <= faults

AttemptsInv(w) ==
  /\ cleaner[w].pc = "idle" => cleaner[w].doc = None
  /\ cleaner[w].doc \notin cleaner[w].batch
  /\ \A d \in Docs : AttemptsOf(w, d)

\* What the others do gives attempts back, or is the fault that an abandoned claim was.
LEMMA AttemptsOutside ==
  ASSUME StoreTypeOK, StoreTypeOK', NEW w \in Workers, AttemptsInv(w), Outside,
         faults \in Nat, faults' \in Nat, faults' >= faults
  PROVE  AttemptsInv(w)'
  <1>1. CleanerIdle.pc = "idle" /\ CleanerIdle.doc = None /\ CleanerIdle.batch = {} /\ None \notin Docs
    BY StoreAssumption DEF CleanerIdle
  <1>2. cleaner'[w] = cleaner[w] \/ (cleaner'[w] = CleanerIdle /\ faults' >= faults + 1)
    BY DEF Outside
  <1>3. ASSUME NEW d \in Docs PROVE AttemptsOf(w, d)'
    <2>1. /\ cleanup[d].attempts \in Nat /\ cleanup'[d].attempts \in Nat
          /\ AttemptsOf(w, d) /\ JobKept(d)
      BY StoreAssumption DEF StoreTypeOK, CleanupRow, AttemptsInv, Outside
    <2>2. CASE cleaner'[w] = CleanerIdle /\ faults' >= faults + 1
      <3>1. ~InHands(w, d)' /\ ~Failed(w, d)'
        BY <1>1, <2>2 DEF InHands, Failed
      <3>2. cleanup[d].state = "SUCCEEDED" \/ cleanup[d].attempts <= faults + 1
        BY <2>1 DEF AttemptsOf
      <3> QED BY <2>1, <2>2, <3>1, <3>2 DEF AttemptsOf, JobKept
    <2>3. CASE cleaner'[w] = cleaner[w]
      <3>1. (InHands(w, d)' <=> InHands(w, d)) /\ (Failed(w, d)' <=> Failed(w, d))
        BY <2>3 DEF InHands, Failed
      <3>2. InHands(w, d) => InHand(d)
        BY DEF InHands, InHand
      <3> QED BY <2>1, <3>1, <3>2 DEF AttemptsOf, JobKept
    <2> QED BY <1>2, <2>2, <2>3
  <1> QED BY <1>1, <1>2, <1>3 DEF AttemptsInv

\* The steps of the one worker: a claim takes an attempt of what is not in hand, what it
\* gives up is counted by a fault or was requeued, and what it completes is done.
LEMMA AttemptsCleanup ==
  ASSUME StoreTypeOK, StoreTypeOK', CleanerTypeOK, NEW w \in Workers, AttemptsInv(w), CleanupCases(w),
         faults \in Nat, faults' \in Nat, faults' >= faults
  PROVE  AttemptsInv(w)'
  <1>0. /\ cleaner \in [Workers -> [batch : SUBSET Docs, doc : Docs \cup {None},
                                    pc : {"idle", "deleting", "failed"},
                                    seen : SUBSET VersionIds, left : SUBSET VersionIds]]
        /\ cleanup \in [Docs -> CleanupRow]
        /\ cleaner[w].pc # "idle" => cleaner[w].doc \in Docs
        /\ None \notin Docs
        /\ Fault => faults' = faults + 1
    BY StoreAssumption DEF CleanerTypeOK, StoreTypeOK, Fault
  <1>1. \A d \in Docs : /\ cleanup[d] \in CleanupRow /\ cleanup[d].attempts \in Nat
                        /\ AttemptsOf(w, d)
    BY <1>0 DEF CleanupRow, AttemptsInv
  <1> DEFINE next == [CleanerIdle EXCEPT !.batch = cleaner[w].batch]
             here == cleaner[w].doc
  <1>2. /\ next.batch = cleaner[w].batch /\ next.pc = "idle" /\ next.doc = None
        /\ NextDocument(w) <=> cleaner' = [cleaner EXCEPT ![w] = next]
    BY DEF CleanerIdle, NextDocument
  <1>3. CleanerIdle.pc = "idle" /\ CleanerIdle.batch = {} /\ CleanerIdle.doc = None
    BY DEF CleanerIdle
  <1> HIDE DEF next
  <1>4. cleaner[w].pc = "idle" => here = None
    BY DEF AttemptsInv
  <1>5. here \notin cleaner[w].batch
    BY DEF AttemptsInv
  <1>6. ASSUME NEW batch \in SUBSET {d \in Docs : Cleanable(d)},
               cleaner[w] = CleanerIdle,
               cleanup' = [d \in Docs |-> IF d \in batch THEN ClaimCleanupJob(cleanup[d]) ELSE cleanup[d]],
               cleaner' = [cleaner EXCEPT ![w].batch = batch]
        PROVE  AttemptsInv(w)'
    <2>1. cleaner'[w].pc = "idle" /\ cleaner'[w].doc = None /\ cleaner'[w].batch = batch
      BY <1>0, <1>3, <1>6
    <2>2. ASSUME NEW d \in Docs PROVE AttemptsOf(w, d)'
      <3>1. ~InHands(w, d) /\ ~Failed(w, d)
        BY <1>0, <1>3, <1>6 DEF InHands, Failed
      <3>2. CASE d \in batch
        <4>1. cleanup[d].state # "SUCCEEDED"
          BY <3>2 DEF Cleanable
        <4>2. cleanup[d].attempts <= faults
          BY <1>1, <3>1, <4>1 DEF AttemptsOf
        <4>3. cleanup'[d].state = "PROCESSING" /\ cleanup'[d].attempts = cleanup[d].attempts + 1
          BY <1>6, <3>2 DEF ClaimCleanupJob
        <4>4. InHands(w, d)' /\ ~Failed(w, d)'
          BY <2>1, <3>2 DEF InHands, Failed
        <4> QED BY <1>1, <4>2, <4>3, <4>4 DEF AttemptsOf
      <3>3. CASE d \notin batch
        <4>1. cleanup'[d] = cleanup[d] /\ ~InHands(w, d)' /\ ~Failed(w, d)'
          BY <1>0, <1>6, <2>1, <3>3 DEF InHands, Failed
        <4> QED BY <1>1, <3>1, <4>1 DEF AttemptsOf
      <3> QED BY <3>2, <3>3
    <2> QED BY <1>0, <2>1, <2>2 DEF AttemptsInv
  <1>7. ASSUME NEW e \in cleaner[w].batch, ListDocumentArtifactKeys(w, e) PROVE AttemptsInv(w)'
    <2> DEFINE c == [batch |-> cleaner[w].batch \ {e}, doc |-> e, pc |-> "deleting",
                     seen |-> KeysOf(e), left |-> KeysOf(e)]
    <2>1. /\ cleaner' = [cleaner EXCEPT ![w] = c] /\ UNCHANGED cleanup /\ cleaner[w].pc = "idle"
          /\ c.doc = e /\ c.pc = "deleting" /\ c.batch = cleaner[w].batch \ {e}
      BY <1>7 DEF ListDocumentArtifactKeys, storeVars
    <2> HIDE DEF c
    <2>2. cleaner'[w] = c /\ here = None
      BY <1>0, <1>4, <2>1
    <2>3. ASSUME NEW d \in Docs PROVE AttemptsOf(w, d)'
      <3>1. (InHands(w, d)' <=> InHands(w, d)) /\ ~Failed(w, d)' /\ ~Failed(w, d)
        BY <1>0, <2>1, <2>2 DEF InHands, Failed
      <3> QED BY <1>1, <2>1, <3>1 DEF AttemptsOf
    <2> QED BY <2>1, <2>2, <2>3 DEF AttemptsInv
  <1>8. ASSUME NEW i \in VersionIds, DeleteObject(w, i) PROVE AttemptsInv(w)'
    <2>1. /\ cleaner'[w].batch = cleaner[w].batch /\ cleaner'[w].pc = cleaner[w].pc
          /\ cleaner'[w].doc = here /\ UNCHANGED cleanup
      BY <1>0, <1>8 DEF DeleteObject
    <2> QED BY <1>1, <2>1 DEF AttemptsInv, AttemptsOf, InHands, Failed
  \* The document at hand is done or failed.
  <1>9. ASSUME here \in Docs, NEW row, cleanup' = [cleanup EXCEPT ![here] = row],
               row.state \in {"QUEUED", "NONE"} => row.attempts = 0,
               row.state = "SUCCEEDED" \/ row.attempts <= faults',
               row.attempts <= faults' + 1,
               NextDocument(w) \/ cleaner' = [cleaner EXCEPT ![w].pc = "failed"]
        PROVE  AttemptsInv(w)'
    <2>1. /\ cleaner'[w].batch = cleaner[w].batch
          /\ \/ cleaner'[w].pc = "idle" /\ cleaner'[w].doc = None
             \/ cleaner'[w].pc = "failed" /\ cleaner'[w].doc = here
      BY <1>0, <1>2, <1>9
    <2>2. ASSUME NEW d \in Docs PROVE AttemptsOf(w, d)'
      <3>1. CASE d = here
        <4>1. cleanup'[d] = row /\ (InHands(w, d)' => Failed(w, d)')
          BY <1>0, <1>5, <1>9, <2>1, <3>1 DEF InHands, Failed
        <4> QED BY <1>9, <4>1 DEF AttemptsOf
      <3>2. CASE d # here
        <4>1. /\ cleanup'[d] = cleanup[d] /\ ~Failed(w, d)' /\ ~Failed(w, d)
              /\ InHands(w, d)' <=> InHands(w, d)
          BY <1>0, <1>9, <2>1, <3>2 DEF InHands, Failed
        <4> QED BY <1>1, <4>1 DEF AttemptsOf
      <3> QED BY <3>1, <3>2
    <2> QED BY <1>0, <1>5, <2>1, <2>2 DEF AttemptsInv
  <1>10. CASE /\ cleaner[w].pc = "deleting"
              /\ cleanup' = [cleanup EXCEPT ![here] = CompleteArtifactCleanupJob(cleanup[here])]
              /\ \/ NextDocument(w)
                 \/ /\ cleaner' = [cleaner EXCEPT ![w].pc = "failed"]
                    /\ Fault \/ cleanup[here].state \notin {"PROCESSING", "SUCCEEDED"}
    <2>1. /\ here \in Docs /\ cleanup[here] \in CleanupRow /\ cleanup[here].attempts \in Nat
          /\ InHands(w, here) /\ ~Failed(w, here) /\ AttemptsOf(w, here)
      BY <1>0, <1>1, <1>10 DEF InHands, Failed
    <2>2. /\ cleanup[here].state \in {"QUEUED", "PROCESSING"}
          /\ cleanup[here].state = "QUEUED" => cleanup[here].attempts = 0
          /\ cleanup[here].attempts <= faults + 1
      BY <2>1 DEF AttemptsOf
    <2> DEFINE row == CompleteArtifactCleanupJob(cleanup[here])
    <2>3. /\ row.attempts = cleanup[here].attempts
          /\ \/ row.state = "SUCCEEDED"
             \/ row.state = "QUEUED" /\ row.attempts = 0
      BY <2>1, <2>2 DEF CompleteArtifactCleanupJob, CleanupRow
    <2>4. cleanup' = [cleanup EXCEPT ![here] = row]
      BY <1>10
    <2> HIDE DEF row, here
    <2>5. /\ row.state \in {"QUEUED", "NONE"} => row.attempts = 0
          /\ row.state = "SUCCEEDED" \/ row.attempts <= faults'
          /\ row.attempts <= faults' + 1
      BY <2>1, <2>2, <2>3, <2>4
    <2>6. NextDocument(w) \/ cleaner' = [cleaner EXCEPT ![w].pc = "failed"]
      BY <1>10
    <2> QED BY <1>9, <2>1, <2>3, <2>4, <2>5, <2>6
  <1>11. CASE /\ cleaner[w].pc = "failed" /\ NextDocument(w)
              /\ cleanup' = [cleanup EXCEPT ![here] = FailArtifactCleanupJob(cleanup[here])]
    <2>1. /\ here \in Docs /\ cleanup[here] \in CleanupRow /\ cleanup[here].attempts \in Nat
          /\ InHands(w, here) /\ Failed(w, here) /\ AttemptsOf(w, here)
      BY <1>0, <1>1, <1>11 DEF InHands, Failed
    <2> DEFINE row == FailArtifactCleanupJob(cleanup[here])
    <2>2. /\ row.attempts = cleanup[here].attempts
          /\ row.state = cleanup[here].state \/ (row.state = "FAILED" /\ cleanup[here].state = "PROCESSING")
      BY <2>1 DEF FailArtifactCleanupJob, CleanupRow
    <2>3. cleanup' = [cleanup EXCEPT ![here] = row]
      BY <1>11
    <2>4. /\ cleanup[here].state \in {"QUEUED", "NONE"} => cleanup[here].attempts = 0
          /\ cleanup[here].attempts <= faults + 1
          /\ cleanup[here].state = "SUCCEEDED" \/ cleanup[here].attempts <= faults
      BY <2>1 DEF AttemptsOf
    <2> HIDE DEF row, here
    <2>5. /\ row.state \in {"QUEUED", "NONE"} => row.attempts = 0
          /\ row.state = "SUCCEEDED" \/ row.attempts <= faults'
          /\ row.attempts <= faults' + 1
      BY <2>1, <2>2, <2>3, <2>4
    <2>6. NextDocument(w) \/ cleaner' = [cleaner EXCEPT ![w].pc = "failed"]
      BY <1>11
    <2> QED BY <1>9, <2>1, <2>3, <2>4, <2>5, <2>6
  <1>12. CASE cleaner[w].pc = "deleting" /\ Fault /\ UNCHANGED cleanup /\ cleaner' = [cleaner EXCEPT ![w].pc = "failed"]
    <2>1. /\ here \in Docs /\ cleanup[here] \in CleanupRow /\ cleanup[here].attempts \in Nat
          /\ InHands(w, here) /\ AttemptsOf(w, here)
      BY <1>0, <1>1, <1>12 DEF InHands
    <2>2. /\ cleanup[here].state \in {"QUEUED", "NONE"} => cleanup[here].attempts = 0
          /\ cleanup[here].attempts <= faults + 1
      BY <2>1 DEF AttemptsOf
    <2>3. cleanup' = [cleanup EXCEPT ![here] = cleanup[here]]
      BY <1>0, <1>12, <2>1
    <2>4. faults' = faults + 1
      BY <1>0, <1>12
    <2> HIDE DEF here
    <2>5. /\ cleanup[here].state \in {"QUEUED", "NONE"} => cleanup[here].attempts = 0
          /\ cleanup[here].state = "SUCCEEDED" \/ cleanup[here].attempts <= faults'
          /\ cleanup[here].attempts <= faults' + 1
      BY <2>1, <2>2, <2>3, <2>4
    <2>6. NextDocument(w) \/ cleaner' = [cleaner EXCEPT ![w].pc = "failed"]
      BY <1>12
    <2> QED BY <1>9, <2>1, <2>3, <2>4, <2>5, <2>6
  <1>13. CASE Fault /\ cleaner' = [cleaner EXCEPT ![w] = CleanerIdle] /\ UNCHANGED cleanup
    <2>1. cleaner'[w] = CleanerIdle /\ faults' = faults + 1
      BY <1>0, <1>13
    <2>2. ASSUME NEW d \in Docs PROVE AttemptsOf(w, d)'
      <3>1. ~InHands(w, d)' /\ ~Failed(w, d)'
        BY <1>0, <1>3, <2>1 DEF InHands, Failed
      <3> QED BY <1>1, <1>13, <2>1, <3>1 DEF AttemptsOf
    <2> QED BY <1>0, <1>3, <2>1, <2>2 DEF AttemptsInv
  <1> QED BY <1>6, <1>7, <1>8, <1>10, <1>11, <1>12, <1>13 DEF CleanupCases

\* In the beginning there is no cleanup job.
LEMMA InitAttempts == Init => \A w \in Workers : AttemptsInv(w)
  BY StoreAssumption DEF Init, StoreInit, CleanerInit, CleanerIdle, AttemptsInv, AttemptsOf, InHands, Failed

\* While the faults are fewer than the attempts, the one worker can still clean up after a
\* withdrawn account.  (Of two workers, each may use up an attempt of the other.)
THEOREM RemovalPossible ==
  ASSUME NEW p, Workers = {p}
  PROVE  Spec => []RemovalStaysPossible
  <1>1. Init => AttemptsInv(p)
    BY InitAttempts
  <1>2. AccountsTypeOK /\ AccountsTypeOK' /\ DocsInv /\ RequestsInv /\ AttemptsInv(p) /\ [Next]_vars => AttemptsInv(p)'
    <2>1. SUFFICES ASSUME AccountsTypeOK, AccountsTypeOK', DocsInv, RequestsInv, AttemptsInv(p), [Next]_vars
                   PROVE  AttemptsInv(p)'
      OBVIOUS
    <2>2. /\ faults \in Nat /\ faults' \in Nat /\ faults' >= faults
          /\ StoreTypeOK /\ StoreTypeOK' /\ CleanerTypeOK /\ p \in Workers
      BY <2>1, FaultsGrow DEF AccountsTypeOK
    <2>3. CASE Outside
      BY <2>1, <2>2, <2>3, AttemptsOutside
    <2>4. CASE CleanupNext
      <3>1. CleanupCases(p)
        BY <2>4, CleanupStepCases
      <3> QED BY <2>1, <2>2, <3>1, AttemptsCleanup
    <2> QED BY <2>1, <2>3, <2>4, StepOutside
  <1>3. ASSUME AccountsTypeOK, QuotaInv, AttemptsInv(p) PROVE RemovalStaysPossible
    <2>1. SUFFICES ASSUME account.state = "WITHDRAWN", faults < MaxCleanupAttempts, NEW d \in Docs, Exists(d),
                          ~Cleaned(d), d \notin cleaner[p].batch \cup {cleaner[p].doc}
                   PROVE  Cleanable(d)
      BY DEF RemovalStaysPossible
    <2>2. /\ cleanup[d] \in CleanupRow /\ cleanup[d].attempts \in Nat
          /\ faults \in Nat /\ MaxCleanupAttempts \in Nat
      BY <1>3, StoreAssumption DEF AccountsTypeOK, StoreTypeOK, CleanupRow
    <2>3. cleanup[d].state # "NONE"
      BY <1>3, <2>1 DEF QuotaInv, WithdrawnOwnsNothing
    <2>4. cleanup[d].attempts <= faults
      BY <1>3, <2>1 DEF AttemptsInv, AttemptsOf, InHands, Cleaned
    <2>5. cleanup[d].state \in {"QUEUED", "PROCESSING", "FAILED"}
      BY <2>1, <2>2, <2>3 DEF CleanupRow, JobStates, Cleaned
    <2> QED BY <2>1, <2>2, <2>4, <2>5 DEF Cleanable
  <1>4. Spec => [](AccountsTypeOK /\ QuotaInv)
    BY AccountsTypeCorrect, InitQuota, QuotaStep, PTL DEF Spec
  <1> QED BY AccountsTypeCorrect, DocsInvariant, RequestsInvariant, <1>1, <1>2, <1>3, <1>4, PTL DEF Spec

=============================================================================
