----------------------------- MODULE FileStore -----------------------------
(***************************************************************************)
(* Uploads of files (internal/filestore).  An upload stores its objects    *)
(* one by one, outside of any transaction, then records all of them in one *)
(* transaction that holds the row lock of the account; when anything goes  *)
(* wrong, the objects it knows of are deleted again (compensate), once and *)
(* with errors ignored.                                                    *)
(*                                                                         *)
(* The account row is the lock for everything that is created in the       *)
(* account.  An uploaded document has one version.                         *)
(***************************************************************************)
EXTENDS Store

CONSTANTS
  Uploads,       \* calls of Upload
  FilesOf,       \* the documents that an upload would create
  Bytes,         \* the size of a file, or of the text scraped for a web page
  MaxFileBytes,  \* bound of the sizes
  StorageLimit   \* storageLimit of the account

Files == UNION {FilesOf[u] : u \in Uploads}

ASSUME FileStoreAssumption ==
  /\ IsFiniteSet(Docs)
  /\ None \notin Uploads
  /\ FilesOf \in [Uploads -> (SUBSET Docs) \ {{}}]
  /\ \A t, u \in Uploads : t # u => FilesOf[t] \cap FilesOf[u] = {}
  /\ Files \cap Webpages = {}
  /\ MaxFileBytes \in Nat
  /\ Bytes \in [Docs -> 0..MaxFileBytes]
  /\ StorageLimit \in Nat

VARIABLES
  account,  \* accounts: its state, and the upload whose transaction holds the row lock
  upload    \* where a call stands, and the files it has in its list `uploaded`

fileVars == <<account, upload>>

\* The row lock is held by the one upload that inserts, and keeps the account active.
LockHeld ==
  \A u \in Uploads :
    /\ upload[u].pc = "inserting" <=> account.lock = u
    /\ account.lock = u => account.state = "ACTIVE"

FileStoreTypeOK ==
  /\ LockHeld
  /\ account \in [state : {"ACTIVE", "WITHDRAWN", "GONE"}, lock : Uploads \cup {None}]
  /\ upload \in [Uploads -> [pc : {"storing", "inserting", "compensating", "done", "crashed"},
                             stored : SUBSET Files]]

FileStoreInit ==
  /\ account = [state |-> "ACTIVE", lock |-> None]
  /\ upload = [u \in Uploads |-> [pc |-> "storing", stored |-> {}]]

\* lockActiveAccount and LockAccountForStorage, in a transaction that commits at once.
AccountLockable == account = [state |-> "ACTIVE", lock |-> None]

ObjectOf(d) == <<d, 1>>

-----------------------------------------------------------------------------
(* GetStorageUsage is the number of the bytes that the account holds.      *)

BytesOf(D) == {b \in D \X (1..MaxFileBytes) : b[2] <= Bytes[b[1]]}

\* The documents whose file_size counts: a web page has one once it was scraped, a memo
\* has none.
Sized == {d \in Docs : Live(doc[d]) /\ (d \in Files \/ (d \in Webpages /\ doc[d].shown # 0))}

Fits(u) == Cardinality(BytesOf(Sized)) + Cardinality(BytesOf(FilesOf[u])) <= StorageLimit

-----------------------------------------------------------------------------
PutObject(u, d) ==
  /\ upload[u].pc = "storing"
  /\ d \in FilesOf[u] \ upload[u].stored
  /\ objects' = objects \cup {ObjectOf(d)}
  /\ upload' = [upload EXCEPT ![u].stored = @ \cup {d}]
  /\ UNCHANGED <<doc, text, keys, scrapeJob, enrichJob, outbox, inbox, chunks, cleanup,
                 requests, results, faults, account>>

\* The next file is too large, of another type, or not valid UTF-8.
RejectFile(u) ==
  /\ upload[u].pc = "storing"
  /\ upload[u].stored # FilesOf[u]
  /\ upload' = [upload EXCEPT ![u].pc = "compensating"]
  /\ UNCHANGED <<storeVars, account>>

\* PutObject fails, or is not answered: the file is not in the list.
PutFails(u, d) ==
  /\ upload[u].pc = "storing"
  /\ d \in FilesOf[u] \ upload[u].stored
  /\ Fault
  /\ objects' \in {objects, objects \cup {ObjectOf(d)}}
  /\ upload' = [upload EXCEPT ![u].pc = "compensating"]
  /\ UNCHANGED <<doc, text, keys, scrapeJob, enrichJob, outbox, inbox, chunks, cleanup,
                 requests, results, account>>

Stored(u) == upload[u].pc = "storing" /\ upload[u].stored = FilesOf[u]

\* Wrong variant: the account row is read without FOR UPDATE.
ReserveWithoutLock(u) ==
  /\ Stored(u)
  /\ IF account.state = "ACTIVE" /\ Fits(u)
     THEN upload' = [upload EXCEPT ![u].pc = "inserting"]
     ELSE upload' = [upload EXCEPT ![u].pc = "compensating"]
  /\ UNCHANGED <<storeVars, account>>

\* Wrong variant: an upload that is refused returns without compensating.
ReserveUncompensated(u) ==
  /\ Stored(u)
  /\ account.lock = None
  /\ IF account.state = "ACTIVE" /\ Fits(u)
     THEN /\ account' = [account EXCEPT !.lock = u]
          /\ upload' = [upload EXCEPT ![u].pc = "inserting"]
     ELSE /\ upload' = [upload EXCEPT ![u] = [pc |-> "compensating", stored |-> {}]]
          /\ UNCHANGED account
  /\ UNCHANGED storeVars

\* persist up to the inserts: the account row is locked, then the usage is read.  An
\* inactive account and a full one roll back.
Reserve(u) ==
  /\ Stored(u)
  /\ account.lock = None
  /\ IF account.state = "ACTIVE" /\ Fits(u)
     THEN /\ account' = [account EXCEPT !.lock = u]
          /\ upload' = [upload EXCEPT ![u].pc = "inserting"]
     ELSE /\ upload' = [upload EXCEPT ![u].pc = "compensating"]
          /\ UNCHANGED account
  /\ UNCHANGED storeVars

\* The inserts: document, version with its key and ENRICH job of every file.
Insert(u) ==
  /\ doc' = [d \in Docs |->
               IF d \in FilesOf[u]
               THEN [cur |-> 1, status |-> "ENRICH_PENDING", deleted |-> FALSE, shown |-> 1]
               ELSE doc[d]]
  /\ text' = [j \in VersionIds |-> IF j[1] \in FilesOf[u] /\ j[2] = 1 THEN 1 ELSE text[j]]
  /\ keys' = keys \cup {ObjectOf(d) : d \in FilesOf[u]}
  /\ enrichJob' = [j \in VersionIds |->
                     IF j[1] \in FilesOf[u] /\ j[2] = 1
                     THEN CreateEnrichJob(enrichJob[j]) ELSE enrichJob[j]]

Unlock(u) == [account EXCEPT !.lock = IF @ = u THEN None ELSE @]

CommitUpload(u) ==
  /\ upload[u].pc = "inserting"
  /\ Insert(u)
  /\ account' = Unlock(u)
  /\ upload' = [upload EXCEPT ![u].pc = "done"]
  /\ UNCHANGED <<scrapeJob, outbox, inbox, chunks, cleanup, requests, results, objects, faults>>

\* A statement of persist fails and it rolls back, or its commit is not answered; in
\* both cases Upload compensates.
PersistFails(u) ==
  /\ Stored(u) \/ upload[u].pc = "inserting"
  /\ Fault
  /\ \/ UNCHANGED <<doc, text, keys, enrichJob>>
     \/ upload[u].pc = "inserting" /\ Insert(u)
  /\ account' = Unlock(u)
  /\ upload' = [upload EXCEPT ![u].pc = "compensating"]
  /\ UNCHANGED <<scrapeJob, outbox, inbox, chunks, cleanup, requests, results, objects>>

\* Once nothing is left in the list, the caller has its error.
Compensate(u, d) ==
  /\ upload[u].pc = "compensating"
  /\ d \in upload[u].stored
  /\ objects' = objects \ {ObjectOf(d)}
  /\ upload' = [upload EXCEPT ![u].stored = @ \ {d}]
  /\ UNCHANGED <<doc, text, keys, scrapeJob, enrichJob, outbox, inbox, chunks, cleanup,
                 requests, results, faults, account>>

\* A DeleteObject fails, or the ten seconds for all of them are over.
CompensateFails(u) ==
  /\ upload[u].pc = "compensating"
  /\ Fault
  /\ \E lost \in (SUBSET upload[u].stored) \ {{}} :
       upload' = [upload EXCEPT ![u].stored = @ \ lost]
  /\ UNCHANGED <<doc, text, keys, scrapeJob, enrichJob, outbox, inbox, chunks, cleanup,
                 requests, results, objects, account>>

\* The API process dies in the call; PostgreSQL rolls back what is open.
CrashUpload(u) ==
  /\ upload[u].pc \in {"storing", "inserting", "compensating"}
  /\ Fault
  /\ account' = Unlock(u)
  /\ upload' = [upload EXCEPT ![u] = [pc |-> "crashed", stored |-> {}]]
  /\ UNCHANGED <<doc, text, keys, scrapeJob, enrichJob, outbox, inbox, chunks, cleanup,
                 requests, results, objects>>

Upload(u) ==
  \/ \E d \in Files : PutObject(u, d) \/ PutFails(u, d) \/ Compensate(u, d)
  \/ RejectFile(u)
  \/ Reserve(u)
  \/ CommitUpload(u)
  \/ PersistFails(u)
  \/ CompensateFails(u)
  \/ CrashUpload(u)

FileStoreNext == \E u \in Uploads : Upload(u)
=============================================================================
