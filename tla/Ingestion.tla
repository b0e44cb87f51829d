----------------------------- MODULE Ingestion -----------------------------
(***************************************************************************)
(* The ingestion pipeline of remak-go: the API's writes, the scraper and   *)
(* the four loops of every worker process, over the shared store.  The     *)
(* loops of a process are goroutines (cmd/worker/main.go): they interleave *)
(* freely and are lost together when the process dies.                     *)
(***************************************************************************)
EXTENDS Library, Outbox, Scraper, ScrapeResults, Enrichment, ArtifactCleanup

workerVars == <<dispatcher, consumer, enricher, cleaner>>
vars       == <<storeVars, workerVars>>

TypeOK ==
  /\ StoreTypeOK
  /\ DispatcherTypeOK
  /\ ConsumerTypeOK
  /\ EnricherTypeOK
  /\ CleanerTypeOK

Init ==
  /\ StoreInit
  /\ DispatcherInit
  /\ ConsumerInit
  /\ EnricherInit
  /\ CleanerInit

\* The process dies between any two of its steps, and another takes its place.
Crash(w) ==
  /\ Fault
  /\ dispatcher' = [dispatcher EXCEPT ![w] = DispatcherIdle]
  /\ consumer' = [consumer EXCEPT ![w] = ConsumerIdle]
  /\ enricher' = [enricher EXCEPT ![w] = EnricherIdle]
  /\ cleaner' = [cleaner EXCEPT ![w] = CleanerIdle]
  /\ UNCHANGED <<doc, text, keys, scrapeJob, enrichJob, outbox, inbox, chunks, cleanup,
                 requests, results, objects>>

Next ==
  \/ LibraryNext /\ UNCHANGED workerVars
  \/ ScraperNext /\ UNCHANGED workerVars
  \/ DispatcherNext /\ UNCHANGED <<consumer, enricher, cleaner>>
  \/ ConsumerNext /\ UNCHANGED <<dispatcher, enricher, cleaner>>
  \/ EnrichmentNext /\ UNCHANGED <<dispatcher, consumer, cleaner>>
  \/ CleanupNext /\ UNCHANGED <<dispatcher, consumer, enricher>>
  \/ \E w \in Workers : Crash(w)

Spec == Init /\ [][Next]_vars

\* Every loop of a worker polls for ever, and the Lambda polls its queue; the users
\* and the environment's faults owe nothing.
Fairness ==
  /\ \A w \in Workers :
       /\ WF_vars(DispatchBatch(w) /\ UNCHANGED <<consumer, enricher, cleaner>>)
       /\ WF_vars(Poll(w) /\ UNCHANGED <<dispatcher, enricher, cleaner>>)
       /\ WF_vars(ProcessBatch(w) /\ UNCHANGED <<dispatcher, consumer, cleaner>>)
       /\ WF_vars(CleanBatch(w) /\ UNCHANGED <<dispatcher, consumer, enricher>>)
  /\ \A j \in VersionIds : WF_vars(ScraperAnswers(j) /\ UNCHANGED workerVars)

FairSpec == Spec /\ Fairness

-----------------------------------------------------------------------------
(* What holds of the pipeline.                                             *)

CurrentId(d) == <<d, doc[d].cur>>

\* A document that is COMPLETED shows the text of its current version, and what the
\* search finds for it (chunks of the current version) was made from that text.
ServedIsCurrent ==
  \A d \in Docs : doc[d].status = "COMPLETED" =>
    /\ doc[d].shown = doc[d].cur
    /\ chunks[CurrentId(d)] = doc[d].cur

\* An ENRICH job exists only for a version whose own text has arrived, and then the
\* document shows it while the version is current: the processor never embeds the
\* old text that CreateVersionAndJob copies into the version row of a refresh.
EnrichesOwnText ==
  \A j \in VersionIds : enrichJob[j].state # "NONE" =>
    /\ text[j] = j[2]
    /\ doc[j[1]].cur = j[2] => doc[j[1]].shown = j[2]

\* Once the scrape of the current version of a document has been taken over, no
\* mark of a slow dispatcher and no late or repeated result puts it back into a
\* scrape state.
ScrapedStaysScraped ==
  \A d \in Docs : CurrentId(d) \in keys /\ ~doc[d].deleted => doc[d].status \notin ScrapeStatuses

\* A SCRAPE job that succeeded stays so: a mark that comes after the result, a
\* redelivery or a result under another eventId does not reopen it.
SucceededIsTerminal ==
  [][\A j \in VersionIds : scrapeJob[j] = "SUCCEEDED" => scrapeJob'[j] = "SUCCEEDED"]_scrapeJob

\* A cleanup job is not closed by a process whose list of keys lacks one recorded for
\* the current version: a result that comes in between requeues it.
CleanupSeesCurrentKeys ==
  [][\A w \in Workers, d \in Docs :
       /\ cleanup[d].state # "SUCCEEDED" /\ cleanup'[d].state = "SUCCEEDED"
       /\ cleaner[w].doc = d /\ cleaner'[w] # cleaner[w]
       /\ CurrentId(d) \in keys
       => CurrentId(d) \in cleaner[w].seen]_vars

\* The promise to the reader (DocumentLifecycle), whatever fails.
Lifecycle == INSTANCE DocumentLifecycle WITH
  view <- [d \in Docs |-> [version |-> doc[d].cur,
                            fetched |-> doc[d].cur > 0 /\ doc[d].shown = doc[d].cur,
                            indexed |-> doc[d].cur > 0 /\ chunks[CurrentId(d)] = doc[d].cur,
                            removed |-> doc[d].deleted]]

LifecycleSpec == Lifecycle!Spec

-----------------------------------------------------------------------------
(* What happens in the end, under FairSpec, while the faults stay below the *)
(* limits on attempts.                                                     *)

\* A request that the API queued is sent, and a result that the Lambda sent is taken
\* into the inbox before its deliveries run out.
MessagesArrive ==
  /\ \A j \in VersionIds : outbox[j].state = "PENDING" ~> outbox[j].state = "PUBLISHED"
  /\ \A m \in Results : results[m] > 0 ~> <<m.id, m.event>> \in inbox

\* Every ENRICH job is closed for good in the end, and from then on the document, unless
\* it has moved on, is served.  It stays rejected behind the closed job in one case only:
\* the version was enriched, and the answer to that commit was lost, so that the
\* rejection came after it.
EnrichmentFinishes ==
  \A j \in VersionIds :
    enrichJob[j].state = "QUEUED" ~>
      [](/\ enrichJob[j].state = "SUCCEEDED"
         /\ IsCurrent(doc[j[1]], j[2]) =>
              \/ doc[j[1]].status = "COMPLETED"
              \/ doc[j[1]].status = "ENRICH_REJECTED" /\ chunks[j] = j[2])

\* A deleted document's artifacts are cleaned up in the end.
CleanupFinishes ==
  \A d \in Docs : doc[d].deleted ~> cleanup[d].state = "SUCCEEDED"
=============================================================================
