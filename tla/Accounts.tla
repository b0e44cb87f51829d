------------------------------ MODULE Accounts ------------------------------
(***************************************************************************)
(* An account with its documents, from the uploads and writes of its user  *)
(* to its withdrawal and the removal of its rows, while web pages are      *)
(* scraped and artifacts cleaned up.  The enrichment of what is stored is  *)
(* left to Ingestion: it changes neither objects nor what an account holds. *)
(***************************************************************************)
EXTENDS Library, ScrapeResults, ArtifactCleanup, Retention

loopVars    == <<consumer, cleaner>>
accountVars == <<account, upload, gone>>
vars        == <<storeVars, loopVars, accountVars>>

AccountsTypeOK ==
  /\ StoreTypeOK
  /\ ConsumerTypeOK
  /\ CleanerTypeOK
  /\ FileStoreTypeOK
  /\ RetentionTypeOK

Init ==
  /\ StoreInit
  /\ ConsumerInit
  /\ CleanerInit
  /\ FileStoreInit
  /\ RetentionInit

\* lockActiveAccount comes first in the transaction; edits and deletions ask for the
\* document only.
CreateDocument(d) ==
  /\ AccountLockable
  /\ d \notin Files \cup gone
  /\ CreateMemo(d) \/ CreateWebpage(d)

ChangeDocument(d) ==
  \/ d \notin Files /\ (UpdateMemo(d) \/ UpdateWebpage(d))
  \/ Delete(d)

AnswerTo(j, kind) == [id |-> j, event |-> 0, kind |-> kind]

\* The request for a web page is sent, marked and answered: the modules Outbox and
\* Scraper, whose steps between the creation of a page and the arrival of its result
\* are taken as one here.
ScrapeAnswered(j, kind) ==
  /\ outbox[j].state = "PENDING"
  /\ outbox' = [outbox EXCEPT ![j].state = "PUBLISHED"]
  /\ scrapeJob' = [scrapeJob EXCEPT ![j] = MarkJobProcessing(@)]
  /\ doc' = [doc EXCEPT ![j[1]] = MarkDocumentProcessing(@, j[2])]
  /\ results' = [results EXCEPT ![AnswerTo(j, kind)] = MaxReceives]
  /\ objects' = IF kind = "completed" THEN objects \cup {j} ELSE objects
  /\ UNCHANGED <<text, keys, enrichJob, inbox, chunks, cleanup, requests, faults>>

\* The request was delivered twice, or sent twice.
ScrapeAnsweredAgain(j) ==
  /\ outbox[j].state = "PUBLISHED"
  /\ Fault
  /\ results' = [results EXCEPT ![AnswerTo(j, "completed")] = MaxReceives]
  /\ objects' = objects \cup {j}
  /\ UNCHANGED <<doc, text, keys, scrapeJob, enrichJob, outbox, inbox, chunks, cleanup, requests>>

ScrapeNext ==
  \E j \in VersionIds :
    (\E kind \in {"completed", "failed"} : ScrapeAnswered(j, kind)) \/ ScrapeAnsweredAgain(j)

\* The loops of a worker process are lost together.
CrashWorker(w) ==
  /\ Fault
  /\ consumer' = [consumer EXCEPT ![w] = ConsumerIdle]
  /\ cleaner' = [cleaner EXCEPT ![w] = CleanerIdle]
  /\ UNCHANGED <<doc, text, keys, scrapeJob, enrichJob, outbox, inbox, chunks, cleanup,
                 requests, results, objects>>

\* A message is worked on for seconds, a removed row was kept for days: no process is
\* in the middle of something about a document whose rows are removed.
InHand(d) ==
  \E w \in Workers :
    \/ consumer[w].pc # "idle" /\ consumer[w].msg.id[1] = d
    \/ d \in cleaner[w].batch \cup {cleaner[w].doc}

RunMaintenance == Maintenance /\ \A d \in gone' \ gone : ~InHand(d)

Next ==
  \/ (\E d \in Docs : CreateDocument(d) \/ ChangeDocument(d)) /\ UNCHANGED <<loopVars, accountVars>>
  \/ FileStoreNext /\ UNCHANGED <<loopVars, gone>>
  \/ (Withdraw \/ RunMaintenance) /\ UNCHANGED loopVars
  \/ ScrapeNext /\ UNCHANGED <<loopVars, accountVars>>
  \/ ConsumerNext /\ UNCHANGED <<cleaner, accountVars>>
  \/ CleanupNext /\ UNCHANGED <<consumer, accountVars>>
  \/ (\E w \in Workers : CrashWorker(w)) /\ UNCHANGED accountVars

Spec == Init /\ [][Next]_vars

-----------------------------------------------------------------------------
(* What holds of an account.                                               *)

LiveFiles == {d \in Files : Live(doc[d])}

\* However uploads run side by side, what the user has uploaded and not deleted stays
\* within the limit.  (The texts of web pages are counted by the check and not checked
\* themselves, so that both together may exceed it.)
FilesWithinLimit == Cardinality(BytesOf(LiveFiles)) <= StorageLimit

\* An uploaded document that the user sees has its object, unless the call could not
\* know that its transaction had committed, or died while it compensated for that; a
\* call that returned an error, without any fault of the environment, has left neither
\* object nor row.
UploadIsAllOrNothing ==
  \A u \in Uploads : \A d \in FilesOf[u] :
    /\ Live(doc[d]) /\ ObjectOf(d) \notin objects =>
         \/ upload[u].pc = "compensating" /\ faults > 0
         \/ upload[u].pc = "crashed" /\ faults > 1
    /\ upload[u].pc = "compensating" /\ faults = 0 /\ d \notin upload[u].stored =>
         ObjectOf(d) \notin objects /\ ~Exists(d)

\* After the withdrawal nothing of the account is to be seen, also what was being
\* created or edited at that time, and every document is queued for its cleanup.
WithdrawnOwnsNothing ==
  account.state # "ACTIVE" =>
    \A d \in Docs : Exists(d) => doc[d].deleted /\ cleanup[d].state # "NONE"

\* The rows of a document, the only record of its artifacts, are not removed while an
\* artifact that they name is still in the bucket.  For a web page this is so of its
\* current version (the result of an older one, read before the deletion, requeues no
\* cleanup) and as long as no request is delivered again: the scraper would store the
\* artifacts once more, and its result, a terminal duplicate, requeues no cleanup.
KeysOutliveObjects ==
  [][\A j \in VersionIds :
       /\ j \in keys /\ j \notin keys'
       /\ j[1] \in Files \/ (faults = 0 /\ j[2] = doc[j[1]].cur)
       => j \notin objects]_vars

\* While the faults are fewer than the attempts, nothing keeps a withdrawn account for
\* good: a cleanup that is not done is in the hands of a worker or can be claimed,
\* also after it was requeued under the worker that did it.  This is so with one worker
\* process; of two, each may close a claim of the other and use up an attempt.
RemovalStaysPossible ==
  account.state = "WITHDRAWN" /\ faults < MaxCleanupAttempts =>
    \A d \in Docs : Exists(d) =>
      \/ Cleaned(d)
      \/ Cleanable(d)
      \/ \E w \in Workers : d \in cleaner[w].batch \cup {cleaner[w].doc}
=============================================================================
