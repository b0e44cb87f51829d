------------------------------ MODULE Library ------------------------------
(***************************************************************************)
(* The writes of the API process on documents (internal/library).  Each is *)
(* one PostgreSQL transaction, and each creates the version row, the job   *)
(* and, for a web page, the outbox event together with the document row.   *)
(*                                                                         *)
(* The owner is an active account throughout: withdrawal is not modelled   *)
(* here.  Tags and collections carry no state of the ingestion pipeline.   *)
(***************************************************************************)
EXTENDS Store

\* createVersionAndJob: the version row copies the content the document shows,
\* which for a refreshed web page is the text of an earlier version.
CreateVersionAndJob(d, row) ==
  LET j == <<d, row.cur>> IN
  /\ doc' = [doc EXCEPT ![d] = row]
  /\ text' = [text EXCEPT ![j] = row.shown]
  /\ IF d \in Webpages
     THEN /\ scrapeJob' = [scrapeJob EXCEPT ![j] = CreateIngestionJob(@)]
          /\ outbox' = [outbox EXCEPT ![j] = CreateOutboxEvent(@)]
          /\ UNCHANGED enrichJob
     ELSE /\ enrichJob' = [enrichJob EXCEPT ![j] = CreateEnrichJob(@)]
          /\ UNCHANGED <<scrapeJob, outbox>>
  /\ UNCHANGED <<keys, inbox, chunks, cleanup, requests, results, objects, faults>>

\* The row that an insert or the next version leaves.
NextVersion(row, status, shown) ==
  [cur |-> row.cur + 1, status |-> status, deleted |-> FALSE, shown |-> shown]

CreateMemo(d) ==
  /\ d \notin Webpages
  /\ doc[d].cur = 0
  /\ CreateVersionAndJob(d, NextVersion(doc[d], "ENRICH_PENDING", 1))

CreateWebpage(d) ==
  /\ d \in Webpages
  /\ doc[d].cur = 0
  /\ CreateVersionAndJob(d, NextVersion(doc[d], "SCRAPE_PENDING", 0))

\* Wrong variant: an edited memo keeps its status.
UpdateMemoKeepsStatus(d) ==
  /\ d \notin Webpages
  /\ Live(doc[d])
  /\ doc[d].cur < MaxVersion
  /\ CreateVersionAndJob(d, NextVersion(doc[d], doc[d].status, doc[d].cur + 1))

\* Bound: MaxVersion versions of a document.
UpdateMemo(d) ==
  /\ d \notin Webpages
  /\ Live(doc[d])
  /\ doc[d].cur < MaxVersion
  /\ CreateVersionAndJob(d, NextVersion(doc[d], "ENRICH_PENDING", doc[d].cur + 1))

UpdateWebpage(d) ==
  /\ d \in Webpages
  /\ Live(doc[d])
  /\ doc[d].cur < MaxVersion
  /\ CreateVersionAndJob(d, NextVersion(doc[d], "SCRAPE_PENDING", doc[d].shown))

Delete(d) ==
  /\ Live(doc[d])
  /\ doc' = [doc EXCEPT ![d] = SoftDeleteDocument(@)]
  /\ cleanup' = [cleanup EXCEPT ![d] = CreateArtifactCleanupJob(@)]
  /\ UNCHANGED <<text, keys, scrapeJob, enrichJob, outbox, inbox, chunks,
                 requests, results, objects, faults>>

LibraryNext ==
  \E d \in Docs : CreateMemo(d) \/ CreateWebpage(d) \/ UpdateMemo(d) \/ UpdateWebpage(d) \/ Delete(d)
=============================================================================
