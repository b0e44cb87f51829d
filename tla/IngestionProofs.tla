-------------------------- MODULE IngestionProofs --------------------------
(***************************************************************************)
(* Theorems about Ingestion for every value of its constants.              *)
(***************************************************************************)
EXTENDS Ingestion, StoreProofs

\* An outbox event that is not dead-lettered has attempts left.
HasRoom(row) == row.state # "DEAD" => row.attempts < MaxSendAttempts

OutboxHasRoom ==
  \A j \in VersionIds : HasRoom(outbox[j])

\* A version that has not been created has no outbox event and no ENRICH job.
NothingAhead ==
  \A j \in VersionIds : j[2] > doc[j[1]].cur =>
    /\ outbox[j].state = "NONE"
    /\ enrichJob[j].state = "NONE"

TypeInv == TypeOK /\ OutboxHasRoom /\ NothingAhead

USE DEF Versions, VersionIds, Texts

\* The empty store and idle workers satisfy the invariant.
LEMMA InitTypeInv == Init => TypeInv
  <1> SUFFICES ASSUME Init PROVE TypeInv
    OBVIOUS
  <1> USE StoreAssumption DEF Init
  <1>1. StoreTypeOK
    BY DEF StoreInit, StoreTypeOK, DocRow, Statuses, JobStates, EnrichRow, OutboxRow, CleanupRow
  <1>2. DispatcherTypeOK
    BY DEF DispatcherInit, DispatcherTypeOK, DispatcherIdle
  <1>3. ConsumerTypeOK
    BY DEF ConsumerInit, ConsumerTypeOK, ConsumerIdle, JobStates
  <1>4. EnricherTypeOK
    BY DEF EnricherInit, EnricherTypeOK, EnricherIdle
  <1>5. CleanerTypeOK
    BY DEF CleanerInit, CleanerTypeOK, CleanerIdle
  <1>6. OutboxHasRoom /\ NothingAhead
    BY DEF StoreInit, OutboxHasRoom, HasRoom, NothingAhead
  <1> QED BY <1>1, <1>2, <1>3, <1>4, <1>5, <1>6 DEF TypeInv, TypeOK

-----------------------------------------------------------------------------
(* The outbox.                                                             *)

\* The statements on an outbox row keep it within its send attempts.
LEMMA OutboxStatements ==
  ASSUME NEW row \in OutboxRow, NEW w \in Workers, HasRoom(row)
  PROVE  /\ ClaimOutboxEvent(row, w) \in OutboxRow
         /\ HasRoom(ClaimOutboxEvent(row, w))
         /\ MarkOutboxPublished(row, w) \in OutboxRow
         /\ HasRoom(MarkOutboxPublished(row, w))
         /\ RescheduleOrDeadLetter(row, w) \in OutboxRow
         /\ HasRoom(RescheduleOrDeadLetter(row, w))
         /\ row.state = "NONE" => /\ ClaimOutboxEvent(row, w).state = "NONE"
                                  /\ MarkOutboxPublished(row, w).state = "NONE"
                                  /\ RescheduleOrDeadLetter(row, w).state = "NONE"
  BY StoreAssumption DEF OutboxRow, HasRoom, ClaimOutboxEvent, MarkOutboxPublished,
     RescheduleOrDeadLetter, Leased

\* A new outbox row has all its send attempts left.
LEMMA CreateOutboxStatement ==
  ASSUME NEW row \in OutboxRow, HasRoom(row), row.state = "NONE"
  PROVE  CreateOutboxEvent(row) \in OutboxRow /\ HasRoom(CreateOutboxEvent(row))
  BY StoreAssumption DEF OutboxRow, HasRoom, CreateOutboxEvent

-----------------------------------------------------------------------------
\* createVersionAndJob keeps the invariant: it starts a version nothing has run ahead of.
LEMMA CreateTypeInv ==
  ASSUME TypeInv, UNCHANGED workerVars,
         NEW d \in Docs, NEW row \in DocRow,
         row.cur \in Versions, row.cur > doc[d].cur,
         CreateVersionAndJob(d, row)
  PROVE  TypeInv'
  <1> DEFINE j == <<d, row.cur>>
  <1>1. /\ j \in VersionIds
        /\ outbox[j].state = "NONE" /\ enrichJob[j].state = "NONE"
        /\ HasRoom(outbox[j])
    BY StoreAssumption DEF NothingAhead, OutboxHasRoom, DocRow, TypeInv, TypeOK, StoreTypeOK
  <1>2. /\ CreateIngestionJob(scrapeJob[j]) \in JobStates
        /\ CreateEnrichJob(enrichJob[j]) \in EnrichRow
        /\ CreateOutboxEvent(outbox[j]) \in OutboxRow
        /\ HasRoom(CreateOutboxEvent(outbox[j]))
        /\ row.shown \in Texts
    BY <1>1, JobStatements, EnrichStatements, CreateOutboxStatement
       DEF TypeInv, TypeOK, StoreTypeOK, DocRow
  <1>3. /\ doc' = [doc EXCEPT ![d] = row]
        /\ text' = [text EXCEPT ![j] = row.shown]
        /\ \/ scrapeJob' = scrapeJob
           \/ scrapeJob' = [scrapeJob EXCEPT ![j] = CreateIngestionJob(scrapeJob[j])]
        /\ \/ enrichJob' = enrichJob
           \/ enrichJob' = [enrichJob EXCEPT ![j] = CreateEnrichJob(enrichJob[j])]
        /\ \/ outbox' = outbox
           \/ outbox' = [outbox EXCEPT ![j] = CreateOutboxEvent(outbox[j])]
        /\ UNCHANGED <<keys, inbox, chunks, cleanup, requests, results, objects, faults>>
    BY DEF CreateVersionAndJob
  <1> USE <1>1, <1>2, <1>3 DEF TypeInv, TypeOK
  <1>4. StoreTypeOK'
    BY CreateTypes
  <1>5. (DispatcherTypeOK /\ ConsumerTypeOK /\ EnricherTypeOK /\ CleanerTypeOK)'
    BY DEF DispatcherTypeOK, ConsumerTypeOK, EnricherTypeOK, CleanerTypeOK, workerVars
  <1>6. OutboxHasRoom'
    BY DEF StoreTypeOK, OutboxHasRoom
  <1>7. NothingAhead'
    BY StoreAssumption DEF NothingAhead, StoreTypeOK, DocRow
  <1> QED BY <1>4, <1>5, <1>6, <1>7

\* The writes of the API keep the invariant.
LEMMA LibraryTypeInv ==
  ASSUME TypeInv, UNCHANGED workerVars, LibraryNext
  PROVE  TypeInv'
  <1>1. ASSUME NEW d \in Docs, NEW row \in DocRow, Fresh(d, row), CreateVersionAndJob(d, row)
        PROVE  TypeInv'
    <2>1. doc[d].cur \in Nat
      BY StoreAssumption DEF TypeInv, TypeOK, StoreTypeOK, DocRow
    <2> QED BY <1>1, <2>1, CreateTypeInv DEF Fresh
  <1>2. ASSUME NEW d \in Docs, Delete(d) PROVE TypeInv'
    <2>1. SoftDeleteDocument(doc[d]).cur = doc[d].cur
      BY DEF TypeInv, TypeOK, StoreTypeOK, DocRow, SoftDeleteDocument
    <2>2. StoreTypeOK'
      BY <1>2, WriteTypes DEF Writes, TypeInv, TypeOK
    <2> QED
      BY <1>2, <2>1, <2>2 DEF Delete, TypeInv, TypeOK, StoreTypeOK, DispatcherTypeOK, ConsumerTypeOK,
         EnricherTypeOK, CleanerTypeOK, workerVars, OutboxHasRoom, NothingAhead
  <1> QED BY <1>1, <1>2, WriteCases DEF LibraryNext, Writes, TypeInv, TypeOK

\* Outside the API's writes no version is created, no job or event comes into being
\* ahead of its version, and no dead letter lacks its attempts.
LEMMA Carried ==
  ASSUME TypeInv, TypeOK',
         \A d \in Docs : doc'[d].cur = doc[d].cur,
         \A j \in VersionIds : HasRoom(outbox'[j]),
         \A j \in VersionIds : outbox[j].state = "NONE" => outbox'[j].state = "NONE",
         \A j \in VersionIds : enrichJob[j].state = "NONE" /\ j[2] > doc[j[1]].cur
                               => enrichJob'[j].state = "NONE"
  PROVE  TypeInv'
  BY DEF TypeInv, OutboxHasRoom, NothingAhead

\* The outbox dispatcher keeps the invariant.
LEMMA DispatcherTypeInv ==
  ASSUME TypeInv, UNCHANGED <<consumer, enricher, cleaner>>, DispatcherNext
  PROVE  TypeInv'
  <1> USE StoreAssumption
  <1>0. /\ DispatcherTypeOK
        /\ (ConsumerTypeOK /\ EnricherTypeOK /\ CleanerTypeOK)'
        /\ faults \in 0..MaxFaults
        /\ \A j \in VersionIds : outbox[j] \in OutboxRow /\ HasRoom(outbox[j])
    BY DEF TypeInv, TypeOK, StoreTypeOK, ConsumerTypeOK, EnricherTypeOK, CleanerTypeOK, OutboxHasRoom
  <1>1. ASSUME NEW w \in Workers, ClaimOutboxEvents(w) PROVE TypeInv'
    <2>1. PICK batch \in SUBSET VersionIds :
            /\ outbox' = [j \in VersionIds |->
                            IF j \in batch THEN ClaimOutboxEvent(outbox[j], w) ELSE outbox[j]]
            /\ dispatcher' = [dispatcher EXCEPT ![w].batch = batch]
            /\ Fault \/ UNCHANGED faults
      BY <1>1 DEF ClaimOutboxEvents
    <2>2. faults' \in 0..MaxFaults
      BY <1>0, <2>1, FaultCounted
    <2>3. \A j \in VersionIds : /\ outbox'[j] \in OutboxRow /\ HasRoom(outbox'[j])
                                /\ outbox[j].state = "NONE" => outbox'[j].state = "NONE"
      BY <1>0, <2>1, OutboxStatements
    <2>4. UNCHANGED <<doc, text, keys, scrapeJob, enrichJob, inbox, chunks, cleanup,
                      requests, results, objects>>
      BY <1>1 DEF ClaimOutboxEvents
    <2>5. outbox' \in [VersionIds -> OutboxRow]
      BY <2>1, <2>3
    <2>6. StoreTypeOK'
      BY <2>2, <2>4, <2>5 DEF TypeInv, TypeOK, StoreTypeOK
    <2>7. DispatcherTypeOK'
      BY <1>0, <2>1 DEF DispatcherTypeOK
    <2> QED
      BY <1>0, <2>3, <2>4, <2>6, <2>7 DEF TypeInv, TypeOK, OutboxHasRoom, NothingAhead
  <1>2. ASSUME NEW w \in Workers, NEW j \in VersionIds, SendMessage(w, j) PROVE TypeInv'
    <2>1. /\ requests' = [requests EXCEPT ![j] = MaxScrapes]
          /\ UNCHANGED <<doc, text, keys, scrapeJob, enrichJob, outbox, inbox, chunks, cleanup,
                         results, objects, faults>>
      BY <1>2 DEF SendMessage
    <2>2. StoreTypeOK'
      BY <2>1 DEF TypeInv, TypeOK, StoreTypeOK
    <2>3. DispatcherTypeOK'
      BY <1>0, <1>2 DEF SendMessage, DispatcherTypeOK
    <2> QED BY <1>0, <2>1, <2>2, <2>3, Carried DEF TypeOK
  <1>3. ASSUME NEW w \in Workers, NEW j \in VersionIds, SendMessageFails(w, j) \/ RescheduleFails(w, j)
        PROVE  TypeInv'
    <2>1. /\ \/ requests' = requests
             \/ requests' = [requests EXCEPT ![j] = MaxScrapes]
          /\ \/ outbox' = outbox
             \/ outbox' = [outbox EXCEPT ![j] = RescheduleOrDeadLetter(outbox[j], w)]
          /\ UNCHANGED <<doc, text, keys, scrapeJob, enrichJob, inbox, chunks, cleanup,
                         results, objects>>
          /\ faults' \in 0..MaxFaults
      BY <1>0, <1>3, FaultCounted DEF SendMessageFails, RescheduleFails
    <2>2. /\ RescheduleOrDeadLetter(outbox[j], w) \in OutboxRow
          /\ HasRoom(RescheduleOrDeadLetter(outbox[j], w))
          /\ outbox[j].state = "NONE" => RescheduleOrDeadLetter(outbox[j], w).state = "NONE"
      BY <1>0, OutboxStatements
    <2>3. (requests \in [VersionIds -> 0..MaxScrapes])'
      BY <2>1 DEF TypeInv, TypeOK, StoreTypeOK
    <2>4. StoreTypeOK'
      BY <2>1, <2>2, <2>3 DEF TypeInv, TypeOK, StoreTypeOK
    <2>5. DispatcherTypeOK'
      BY <1>0, <1>3 DEF SendMessageFails, RescheduleFails, DispatcherTypeOK
    <2>6. outbox \in [VersionIds -> OutboxRow]
      BY DEF TypeInv, TypeOK, StoreTypeOK
    <2> QED BY <1>0, <2>1, <2>2, <2>4, <2>5, <2>6, Carried DEF TypeOK
  <1>4. ASSUME NEW w \in Workers, MarkPublishedAndProcessing(w) \/ MarkFails(w) PROVE TypeInv'
    <2>0. PICK j \in dispatcher[w].sent :
            /\ \/ UNCHANGED <<outbox, scrapeJob, doc>>
               \/ /\ outbox' = [outbox EXCEPT ![j] = MarkOutboxPublished(outbox[j], w)]
                  /\ scrapeJob' = [scrapeJob EXCEPT ![j] = MarkJobProcessing(scrapeJob[j])]
                  /\ doc' = [doc EXCEPT ![j[1]] = MarkDocumentProcessing(doc[j[1]], j[2])]
            /\ \/ dispatcher' = [dispatcher EXCEPT ![w].sent = {}]
               \/ dispatcher' = [dispatcher EXCEPT ![w] = DispatcherIdle]
            /\ UNCHANGED <<text, keys, enrichJob, inbox, chunks, cleanup, requests, results, objects>>
            /\ Fault \/ UNCHANGED faults
      BY <1>4 DEF MarkPublishedAndProcessing, MarkFails, Mark
    <2>1. j \in VersionIds /\ j[1] \in Docs /\ j[2] \in Versions
      BY <1>0 DEF DispatcherTypeOK
    <2>2. /\ MarkOutboxPublished(outbox[j], w) \in OutboxRow
          /\ HasRoom(MarkOutboxPublished(outbox[j], w))
          /\ outbox[j].state = "NONE" => MarkOutboxPublished(outbox[j], w).state = "NONE"
      BY <1>0, <2>1, OutboxStatements
    <2>3. MarkJobProcessing(scrapeJob[j]) \in JobStates
      BY <2>1, JobStatements DEF TypeInv, TypeOK, StoreTypeOK
    <2>4. /\ MarkDocumentProcessing(doc[j[1]], j[2]) \in DocRow
          /\ MarkDocumentProcessing(doc[j[1]], j[2]).cur = doc[j[1]].cur
      BY <2>1, DocStatements DEF TypeInv, TypeOK, StoreTypeOK
    <2>5. StoreTypeOK'
      <3>1. StoreTypeOK
        BY DEF TypeInv, TypeOK
      <3>2. (doc \in [Docs -> DocRow])'
        BY <2>0, <2>4, <3>1 DEF StoreTypeOK
      <3>3. (scrapeJob \in [VersionIds -> JobStates])'
        BY <2>0, <2>3, <3>1 DEF StoreTypeOK
      <3>4. (outbox \in [VersionIds -> OutboxRow])'
        BY <2>0, <2>2, <3>1 DEF StoreTypeOK
      <3>5. (faults \in 0..MaxFaults)'
        BY <1>0, <2>0, FaultCounted
      <3> QED BY <2>0, <3>1, <3>2, <3>3, <3>4, <3>5 DEF StoreTypeOK
    <2>6. DispatcherTypeOK'
      BY <1>0, <2>0 DEF DispatcherTypeOK, DispatcherIdle
    <2>7. outbox \in [VersionIds -> OutboxRow] /\ doc \in [Docs -> DocRow]
      BY DEF TypeInv, TypeOK, StoreTypeOK
    <2> QED BY <1>0, <2>0, <2>1, <2>2, <2>4, <2>5, <2>6, <2>7, Carried DEF TypeOK
  <1> QED BY <1>1, <1>2, <1>3, <1>4 DEF DispatcherNext, DispatchBatch

\* The scraper and its queue keep the invariant.
LEMMA ScraperTypeInv ==
  ASSUME TypeInv, UNCHANGED workerVars, ScraperNext
  PROVE  TypeInv'
  <1> USE StoreAssumption
  <1>1. StoreTypeOK /\ faults \in 0..MaxFaults /\ \A j \in VersionIds : HasRoom(outbox[j])
    BY DEF TypeInv, TypeOK, StoreTypeOK, OutboxHasRoom
  <1>2. (DispatcherTypeOK /\ ConsumerTypeOK /\ EnricherTypeOK /\ CleanerTypeOK)'
    BY DEF TypeInv, TypeOK, workerVars, DispatcherTypeOK, ConsumerTypeOK, EnricherTypeOK, CleanerTypeOK
  <1>3. ASSUME NEW j, NEW event, NEW kind, Send(j, event, kind)
        PROVE  results' \in [Results -> 0..MaxReceives]
    <2> DEFINE m == [id |-> j, event |-> event, kind |-> kind]
    <2>1. results' = [results EXCEPT ![m] = MaxReceives]
      BY <1>3 DEF Send
    <2>2. results \in [Results -> 0..MaxReceives] /\ MaxReceives \in 0..MaxReceives
      BY <1>1 DEF StoreTypeOK
    <2> HIDE DEF m
    <2> QED BY ONLY <2>1, <2>2
  <1>4. SUFFICES /\ requests' \in [VersionIds -> 0..MaxScrapes]
                 /\ results' \in [Results -> 0..MaxReceives]
                 /\ objects' \subseteq VersionIds
                 /\ faults' \in 0..MaxFaults
                 /\ dbUnchanged
    <2>1. ASSUME requests' \in [VersionIds -> 0..MaxScrapes], results' \in [Results -> 0..MaxReceives],
                 objects' \subseteq VersionIds, faults' \in 0..MaxFaults, dbUnchanged
          PROVE  TypeInv'
      BY <1>1, <1>2, <2>1, Carried DEF StoreTypeOK, dbUnchanged, TypeOK
    <2> QED BY <2>1
  <1>5. CASE \E j \in VersionIds : ScrapeSucceeds(j)
    <2>1. PICK j \in VersionIds : ScrapeSucceeds(j)
      BY <1>5
    <2>2. requests' \in [VersionIds -> 0..MaxScrapes]
      BY <1>1, <2>1 DEF ScrapeSucceeds, StoreTypeOK
    <2>3. results' \in [Results -> 0..MaxReceives]
      BY <1>3, <2>1 DEF ScrapeSucceeds
    <2> QED BY <1>1, <2>1, <2>2, <2>3 DEF ScrapeSucceeds, StoreTypeOK
  <1>6. CASE \E j \in VersionIds : ScrapeSucceedsUnacknowledged(j)
    BY <1>1, <1>3, <1>6, FaultCounted DEF ScrapeSucceedsUnacknowledged, StoreTypeOK
  <1>7. CASE \E j \in VersionIds : ScrapeFails(j)
    BY <1>1, <1>3, <1>7 DEF ScrapeFails, StoreTypeOK
  <1>8. CASE \E j \in VersionIds : ScrapeDies(j)
    BY <1>1, <1>8, FaultCounted DEF ScrapeDies, StoreTypeOK
  <1>9. CASE \E j \in VersionIds : \E event \in 1..Reissues : Reissue(j, event)
    BY <1>1, <1>3, <1>9, FaultCounted DEF Reissue, StoreTypeOK
  <1> QED BY <1>5, <1>6, <1>7, <1>8, <1>9 DEF ScraperNext, ScraperAnswers

\* The scrape result consumer keeps the invariant.
LEMMA ConsumerTypeInv ==
  ASSUME TypeInv, UNCHANGED <<dispatcher, enricher, cleaner>>, ConsumerNext
  PROVE  TypeInv'
  <1>1. /\ StoreTypeOK /\ ConsumerTypeOK
        /\ \A j \in VersionIds : HasRoom(outbox[j])
    BY DEF TypeInv, TypeOK, OutboxHasRoom
  <1>2. (DispatcherTypeOK /\ EnricherTypeOK /\ CleanerTypeOK)'
    BY DEF TypeInv, TypeOK, DispatcherTypeOK, EnricherTypeOK, CleanerTypeOK
  <1>3. TypeOK'
    BY <1>1, <1>2, ConsumerTypes DEF TypeOK
  \* An ENRICH job is made for the current version only.
  <1>4. ASSUME NEW w \in Workers, ApplyResult(w),
               NEW i \in VersionIds, enrichJob[i].state = "NONE", i[2] > doc[i[1]].cur
        PROVE  enrichJob'[i].state = "NONE"
    <2> DEFINE j == consumer[w].msg.id
    <2>1. j \in VersionIds /\ doc[i[1]].cur \in Nat /\ enrichJob \in [VersionIds -> EnrichRow]
      BY <1>1, <1>4, ResultCases, StoreAssumption DEF Results, StoreTypeOK, DocRow
    <2>2. \/ enrichJob' = enrichJob
          \/ /\ enrichJob' = [enrichJob EXCEPT ![j] = CreateEnrichJob(enrichJob[j])]
             /\ doc[j[1]].cur = j[2]
      BY <1>1, <1>4, ResultCases DEF CommitsNothing, CommitsFailure, CommitsSuccess, ApplyFailed,
         ApplyCompleted, CanApplyCompleted, IsCurrent
    <2> HIDE DEF j
    <2> QED BY <1>4, <2>1, <2>2
  <1>5. \A i \in VersionIds : enrichJob[i].state = "NONE" /\ i[2] > doc[i[1]].cur
                              => enrichJob'[i].state = "NONE"
    BY <1>4 DEF ConsumerNext, Poll, ProcessMessage, ReceiveMessage, GetIngestionJob,
       GetDocumentByID, ConsumerFails, DeleteMessage, DeleteMessageFails, storeVars
  <1> QED BY <1>1, <1>3, <1>5, ConsumerRows, Carried

\* The enrichment processor keeps the invariant.
LEMMA EnrichmentTypeInv ==
  ASSUME TypeInv, UNCHANGED <<dispatcher, consumer, cleaner>>, EnrichmentNext
  PROVE  TypeInv'
  <1> USE StoreAssumption
  <1>1. /\ StoreTypeOK /\ EnricherTypeOK /\ faults \in 0..MaxFaults
        /\ \A j \in VersionIds : HasRoom(outbox[j])
    BY DEF TypeInv, TypeOK, StoreTypeOK, OutboxHasRoom
  <1>2. (DispatcherTypeOK /\ ConsumerTypeOK /\ CleanerTypeOK)'
    BY DEF TypeInv, TypeOK, DispatcherTypeOK, ConsumerTypeOK, CleanerTypeOK
  <1>3. ASSUME NEW w \in Workers, NextJob(w) PROVE EnricherTypeOK'
    BY <1>1, <1>3 DEF NextJob, EnricherTypeOK, EnricherIdle
  <1>4. ASSUME NEW w \in Workers, ClaimEnrichmentJobs(w) PROVE TypeInv'
    <2>1. PICK batch \in SUBSET {j \in VersionIds : Claimable(j)} :
            /\ enrichJob' = [j \in VersionIds |->
                               IF j \in batch THEN ClaimEnrichJob(enrichJob[j]) ELSE enrichJob[j]]
            /\ enricher' = [enricher EXCEPT ![w].batch = batch]
            /\ Fault \/ UNCHANGED faults
      BY <1>4 DEF ClaimEnrichmentJobs
    <2>2. \A j \in VersionIds : /\ enrichJob'[j] \in EnrichRow
                                /\ enrichJob[j].state = "NONE" => enrichJob'[j].state = "NONE"
      BY <1>1, <2>1, EnrichStatements DEF StoreTypeOK, Claimable
    <2>3. enrichJob' \in [VersionIds -> EnrichRow]
      BY <2>1, <2>2
    <2>4. faults' \in 0..MaxFaults
      BY <1>1, <2>1, FaultCounted
    <2>5. UNCHANGED <<doc, text, keys, scrapeJob, outbox, inbox, chunks, cleanup, requests,
                      results, objects>>
      BY <1>4 DEF ClaimEnrichmentJobs
    <2>6. StoreTypeOK'
      BY <1>1, <2>3, <2>4, <2>5 DEF StoreTypeOK
    <2>7. EnricherTypeOK'
      BY <1>1, <2>1 DEF EnricherTypeOK
    <2> QED BY <1>1, <1>2, <2>2, <2>5, <2>6, <2>7, Carried DEF TypeOK
  <1>5. ASSUME NEW w \in Workers, NEW j \in VersionIds, Load(w, j) PROVE TypeInv'
    <2>1. /\ enrichJob \in [VersionIds -> EnrichRow]
          /\ CompleteEnrichJob(enrichJob[j]) \in EnrichRow
          /\ enrichJob[j].state = "NONE" => CompleteEnrichJob(enrichJob[j]).state = "NONE"
      BY <1>1, EnrichStatements DEF StoreTypeOK
    <2>2. \/ enrichJob' = enrichJob
          \/ enrichJob' = [enrichJob EXCEPT ![j] = CompleteEnrichJob(enrichJob[j])]
      BY <1>5 DEF Load
    <2>3. /\ enrichJob' \in [VersionIds -> EnrichRow]
          /\ \A i \in VersionIds : enrichJob[i].state = "NONE" => enrichJob'[i].state = "NONE"
      BY <2>1, <2>2
    <2>4. UNCHANGED <<doc, text, keys, scrapeJob, outbox, inbox, chunks, cleanup, requests,
                      results, objects, faults>>
      BY <1>5 DEF Load
    <2>5. ContentOf(j) \in Texts
      BY <1>1 DEF StoreTypeOK, DocRow, ContentOf
    <2> DEFINE rest == enricher[w].batch \ {j}
    <2>6. rest \in SUBSET VersionIds
      BY <1>1 DEF EnricherTypeOK
    <2>7. EnricherTypeOK'
      <3>1. CASE IsCurrent(doc[j[1]], j[2])
        <4>1. PICK pc \in {"failed", "ready"} : enricher' = [enricher EXCEPT ![w] =
                [batch |-> rest, job |-> j, text |-> ContentOf(j), pc |-> pc]]
          BY <1>5, <3>1 DEF Load
        <4> HIDE DEF rest
        <4> QED BY <1>1, <2>5, <2>6, <4>1 DEF EnricherTypeOK
      <3>2. CASE ~IsCurrent(doc[j[1]], j[2])
        BY <1>1, <1>5, <2>6, <3>2 DEF Load, EnricherTypeOK
      <3> QED BY <3>1, <3>2
    <2>8. StoreTypeOK'
      BY <1>1, <2>3, <2>4 DEF StoreTypeOK
    <2> QED BY <1>1, <1>2, <2>3, <2>4, <2>7, <2>8, Carried DEF TypeOK
  <1>6. ASSUME NEW w \in Workers, Enrich(w), enricher[w].job \in VersionIds
        PROVE  /\ doc' \in [Docs -> DocRow] /\ text' \in [VersionIds -> Texts]
               /\ chunks' \in [VersionIds -> Texts] /\ enrichJob' \in [VersionIds -> EnrichRow]
               /\ \A d \in Docs : doc'[d].cur = doc[d].cur
               /\ \A i \in VersionIds : enrichJob[i].state = "NONE" => enrichJob'[i].state = "NONE"
    <2> DEFINE j == enricher[w].job
    <2>0. j \in VersionIds /\ j[1] \in Docs /\ j[2] \in Versions /\ enricher[w].text \in Texts
      BY <1>1, <1>6 DEF EnricherTypeOK
    <2>1. /\ enrichJob \in [VersionIds -> EnrichRow] /\ doc \in [Docs -> DocRow]
          /\ CompleteEnrichJob(enrichJob[j]) \in EnrichRow
          /\ enrichJob[j].state = "NONE" => CompleteEnrichJob(enrichJob[j]).state = "NONE"
          /\ CompleteEnrichment(doc[j[1]], j[2]) \in DocRow
          /\ CompleteEnrichment(doc[j[1]], j[2]).cur = doc[j[1]].cur
      BY <1>1, <2>0, EnrichStatements, DocStatements DEF StoreTypeOK
    <2>2. /\ doc' = [doc EXCEPT ![j[1]] = CompleteEnrichment(doc[j[1]], j[2])]
          /\ text' = [text EXCEPT ![j] = enricher[w].text]
          /\ chunks' = [chunks EXCEPT ![j] = enricher[w].text]
          /\ enrichJob' = [enrichJob EXCEPT ![j] = CompleteEnrichJob(enrichJob[j])]
      BY <1>6 DEF Enrich
    <2>3. text' \in [VersionIds -> Texts] /\ chunks' \in [VersionIds -> Texts]
      BY <1>1, <2>0, <2>2 DEF StoreTypeOK
    <2> HIDE DEF j
    <2>4. doc' \in [Docs -> DocRow] /\ \A d \in Docs : doc'[d].cur = doc[d].cur
      BY <2>0, <2>1, <2>2
    <2>5. /\ enrichJob' \in [VersionIds -> EnrichRow]
          /\ \A i \in VersionIds : enrichJob[i].state = "NONE" => enrichJob'[i].state = "NONE"
      BY <2>0, <2>1, <2>2
    <2> QED BY <2>3, <2>4, <2>5
  <1>7. ASSUME NEW w \in Workers, Commit(w) PROVE TypeInv'
    <2>1. enricher[w].job \in VersionIds
      BY <1>1, <1>7 DEF Commit, EnricherTypeOK
    <2>2. /\ Enrich(w) \/ UNCHANGED <<doc, text, chunks, enrichJob>>
          /\ NextJob(w) \/ enricher' = [enricher EXCEPT ![w].pc = "failed"]
          /\ UNCHANGED <<keys, scrapeJob, outbox, inbox, cleanup, requests, results, objects, faults>>
      BY <1>7 DEF Commit
    <2>3. EnricherTypeOK'
      BY <1>1, <1>3, <2>1, <2>2 DEF EnricherTypeOK
    <2>4. CASE Enrich(w)
      <3>1. StoreTypeOK'
        BY <1>1, <1>6, <2>1, <2>2, <2>4 DEF StoreTypeOK
      <3> QED BY <1>1, <1>2, <1>6, <2>1, <2>2, <2>3, <2>4, <3>1, Carried DEF TypeOK
    <2>5. CASE UNCHANGED <<doc, text, chunks, enrichJob>>
      <3>1. StoreTypeOK'
        BY <1>1, <2>2, <2>5 DEF StoreTypeOK
      <3> QED BY <1>1, <1>2, <2>2, <2>3, <2>5, <3>1, Carried DEF TypeOK
    <2> QED BY <2>2, <2>4, <2>5
  <1>8. ASSUME NEW w \in Workers, EnrichFails(w) PROVE TypeInv'
    <2>1. enricher[w].job \in VersionIds
      BY <1>1, <1>8 DEF EnrichFails, EnricherTypeOK
    <2>2. /\ Enrich(w) \/ UNCHANGED <<doc, text, chunks, enrichJob>>
          /\ enricher' = [enricher EXCEPT ![w].pc = "failed"]
          /\ UNCHANGED <<keys, scrapeJob, outbox, inbox, cleanup, requests, results, objects>>
          /\ faults' \in 0..MaxFaults
      BY <1>1, <1>8, FaultCounted DEF EnrichFails
    <2>3. EnricherTypeOK'
      BY <1>1, <2>1, <2>2 DEF EnricherTypeOK
    <2>4. CASE Enrich(w)
      <3>1. StoreTypeOK'
        BY <1>1, <1>6, <2>1, <2>2, <2>4 DEF StoreTypeOK
      <3> QED BY <1>1, <1>2, <1>6, <2>1, <2>2, <2>3, <2>4, <3>1, Carried DEF TypeOK
    <2>5. CASE UNCHANGED <<doc, text, chunks, enrichJob>>
      <3>1. StoreTypeOK'
        BY <1>1, <2>2, <2>5 DEF StoreTypeOK
      <3> QED BY <1>1, <1>2, <2>2, <2>3, <2>5, <3>1, Carried DEF TypeOK
    <2> QED BY <2>2, <2>4, <2>5
  <1>9. ASSUME NEW w \in Workers, RecordFailure(w) \/ RecordFailureFails(w) PROVE TypeInv'
    <2> DEFINE j == enricher[w].job
    <2>0. j \in VersionIds
      BY <1>1, <1>9 DEF RecordFailure, RecordFailureFails, EnricherTypeOK
    <2>1. /\ enrichJob \in [VersionIds -> EnrichRow]
          /\ FailEnrichJob(enrichJob[j]) \in EnrichRow
          /\ enrichJob[j].state = "NONE" => FailEnrichJob(enrichJob[j]).state = "NONE"
          /\ \/ enrichJob' = enrichJob
             \/ enrichJob' = [enrichJob EXCEPT ![j] = FailEnrichJob(enrichJob[j])]
          /\ UNCHANGED <<doc, text, keys, scrapeJob, outbox, inbox, chunks, cleanup, requests,
                         results, objects>>
          /\ faults' \in 0..MaxFaults
      BY <1>1, <1>9, <2>0, EnrichStatements, FaultCounted
         DEF StoreTypeOK, RecordFailure, RecordFailureFails
    <2>2. EnricherTypeOK'
      <3>1. CASE RecordFailure(w)
        BY <1>1, <2>0, <3>1 DEF RecordFailure, EnricherTypeOK
      <3>2. CASE RecordFailureFails(w)
        <4> DEFINE e == [batch |-> {}, job |-> j, pc |-> "reject", text |-> enricher[w].text]
        <4>1. /\ e \in [batch : SUBSET VersionIds, job : VersionIds \cup {None},
                        pc : {"idle", "ready", "failed", "reject"}, text : Texts]
              /\ e.job \in VersionIds
          BY <1>1, <2>0 DEF EnricherTypeOK
        <4>2. enricher' = [enricher EXCEPT ![w] = e]
          BY <3>2 DEF RecordFailureFails
        <4> HIDE DEF e
        <4> QED BY <1>1, <4>1, <4>2 DEF EnricherTypeOK
      <3> QED BY <1>9, <3>1, <3>2
    <2> HIDE DEF j
    <2>3. /\ enrichJob' \in [VersionIds -> EnrichRow]
          /\ \A i \in VersionIds : enrichJob[i].state = "NONE" => enrichJob'[i].state = "NONE"
      BY <2>0, <2>1
    <2>4. StoreTypeOK'
      BY <1>1, <2>1, <2>3 DEF StoreTypeOK
    <2> QED BY <1>1, <1>2, <2>1, <2>2, <2>3, <2>4, Carried DEF TypeOK
  <1>10. ASSUME NEW w \in Workers, NEW j \in VersionIds, LoadFails(w, j) PROVE TypeInv'
    <2>1. /\ enrichJob \in [VersionIds -> EnrichRow]
          /\ CompleteEnrichJob(enrichJob[j]) \in EnrichRow
          /\ enrichJob[j].state = "NONE" => CompleteEnrichJob(enrichJob[j]).state = "NONE"
      BY <1>1, EnrichStatements DEF StoreTypeOK
    <2>2. /\ \/ enrichJob' = enrichJob
             \/ enrichJob' = [enrichJob EXCEPT ![j] = CompleteEnrichJob(enrichJob[j])]
          /\ UNCHANGED <<doc, text, keys, scrapeJob, outbox, inbox, chunks, cleanup, requests,
                         results, objects>>
          /\ faults' \in 0..MaxFaults
      BY <1>1, <1>10, FaultCounted DEF LoadFails
    <2>3. /\ enrichJob' \in [VersionIds -> EnrichRow]
          /\ \A i \in VersionIds : enrichJob[i].state = "NONE" => enrichJob'[i].state = "NONE"
      BY <2>1, <2>2
    <2> DEFINE e == [batch |-> enricher[w].batch \ {j}, job |-> j, pc |-> "failed", text |-> 0]
    <2>4. /\ e \in [batch : SUBSET VersionIds, job : VersionIds \cup {None},
                    pc : {"idle", "ready", "failed", "reject"}, text : Texts]
          /\ e.job \in VersionIds
      BY <1>1 DEF EnricherTypeOK
    <2>5. enricher' = [enricher EXCEPT ![w] = e]
      BY <1>10 DEF LoadFails
    <2> HIDE DEF e
    <2>6. EnricherTypeOK'
      BY <1>1, <2>4, <2>5 DEF EnricherTypeOK
    <2>7. StoreTypeOK'
      BY <1>1, <2>2, <2>3 DEF StoreTypeOK
    <2> QED BY <1>1, <1>2, <2>2, <2>3, <2>6, <2>7, Carried DEF TypeOK
  <1>11. ASSUME NEW w \in Workers, RejectDocument(w) PROVE TypeInv'
    <2> DEFINE j == enricher[w].job
    <2>0. j \in VersionIds /\ j[1] \in Docs /\ j[2] \in Versions
      BY <1>1, <1>11 DEF RejectDocument, EnricherTypeOK
    <2>1. /\ doc \in [Docs -> DocRow]
          /\ RejectEnrichment(doc[j[1]], j[2]) \in DocRow
          /\ RejectEnrichment(doc[j[1]], j[2]).cur = doc[j[1]].cur
      BY <1>1, <2>0, DocStatements DEF StoreTypeOK
    <2>2. /\ \/ doc' = [doc EXCEPT ![j[1]] = RejectEnrichment(doc[j[1]], j[2])]
             \/ doc' = doc
          /\ faults' \in 0..MaxFaults
      BY <1>1, <1>11, FaultCounted DEF RejectDocument
    <2>3. EnricherTypeOK'
      BY <1>3, <1>11 DEF RejectDocument
    <2> HIDE DEF j
    <2>4. doc' \in [Docs -> DocRow] /\ \A d \in Docs : doc'[d].cur = doc[d].cur
      BY <2>0, <2>1, <2>2
    <2>5. StoreTypeOK'
      BY <1>1, <1>11, <2>2, <2>4 DEF RejectDocument, StoreTypeOK
    <2> QED BY <1>1, <1>2, <1>11, <2>3, <2>4, <2>5, Carried DEF RejectDocument, TypeOK
  <1> QED BY <1>4, <1>5, <1>7, <1>8, <1>9, <1>10, <1>11 DEF EnrichmentNext, ProcessBatch

\* The artifact cleanup keeps the invariant.
LEMMA CleanupTypeInv ==
  ASSUME TypeInv, UNCHANGED <<dispatcher, consumer, enricher>>, CleanupNext
  PROVE  TypeInv'
  <1>1. /\ StoreTypeOK /\ CleanerTypeOK
        /\ \A j \in VersionIds : HasRoom(outbox[j])
    BY DEF TypeInv, TypeOK, OutboxHasRoom
  <1>2. (DispatcherTypeOK /\ ConsumerTypeOK /\ EnricherTypeOK)'
    BY DEF TypeInv, TypeOK, DispatcherTypeOK, ConsumerTypeOK, EnricherTypeOK
  <1>3. TypeOK'
    BY <1>1, <1>2, CleanupTypes DEF TypeOK
  <1> QED BY <1>1, <1>3, CleanupRows, Carried

\* The death of a worker process keeps the invariant.
LEMMA CrashTypeInv ==
  ASSUME TypeInv, NEW w \in Workers, Crash(w)
  PROVE  TypeInv'
  <1> USE StoreAssumption
  <1>1. StoreTypeOK'
    BY FaultCounted DEF TypeInv, TypeOK, StoreTypeOK, Crash
  <1>2. DispatcherTypeOK' /\ ConsumerTypeOK'
    BY DEF TypeInv, TypeOK, Crash, DispatcherTypeOK, DispatcherIdle, ConsumerTypeOK, ConsumerIdle,
           JobStates
  <1>3. EnricherTypeOK'
    BY DEF TypeInv, TypeOK, Crash, EnricherTypeOK, EnricherIdle
  <1>4. CleanerTypeOK'
    BY DEF TypeInv, TypeOK, Crash, CleanerTypeOK, CleanerIdle
  <1>5. \A j \in VersionIds : HasRoom(outbox[j])
    BY DEF TypeInv, OutboxHasRoom
  <1> QED BY <1>1, <1>2, <1>3, <1>4, <1>5, Carried DEF Crash, TypeOK

\* A step that changes nothing keeps the invariant.
LEMMA StutterTypeInv == ASSUME TypeInv, UNCHANGED vars PROVE TypeInv'
  BY DEF TypeInv, TypeOK, StoreTypeOK, DispatcherTypeOK, ConsumerTypeOK, EnricherTypeOK,
         CleanerTypeOK, OutboxHasRoom, NothingAhead, vars, storeVars, workerVars

\* Every step of the pipeline keeps the invariant.
LEMMA TypeStep == ASSUME TypeInv, [Next]_vars PROVE TypeInv'
  BY LibraryTypeInv, ScraperTypeInv, DispatcherTypeInv, ConsumerTypeInv, EnrichmentTypeInv,
     CleanupTypeInv, CrashTypeInv, StutterTypeInv DEF Next

\* No step of any process takes a table, a queue or the state of a process out of its
\* type: attempts stay within their limits, and nothing runs ahead of the current
\* version of a document.
THEOREM TypeCorrect == Spec => []TypeOK
  <1>1. TypeInv /\ [Next]_vars => TypeInv'
    BY TypeStep
  <1>2. TypeInv => TypeOK
    BY DEF TypeInv
  <1> QED BY <1>1, <1>2, InitTypeInv, PTL DEF Spec

-----------------------------------------------------------------------------
\* No statement on a SCRAPE job reopens one that succeeded.
LEMMA ScrapeJobStep ==
  ASSUME TypeInv, [Next]_vars,
         NEW j \in VersionIds, scrapeJob[j] = "SUCCEEDED"
  PROVE  scrapeJob'[j] = "SUCCEEDED"
  <1>1. CASE UNCHANGED scrapeJob
    BY <1>1
  <1>2. ASSUME NEW statement, NEW i, scrapeJob' = [scrapeJob EXCEPT ![i] = statement],
               scrapeJob[i] = "SUCCEEDED" => statement = "SUCCEEDED"
        PROVE  scrapeJob'[j] = "SUCCEEDED"
    <2>1. DOMAIN scrapeJob = VersionIds
      BY DEF TypeInv, TypeOK, StoreTypeOK
    <2> QED BY <1>2, <2>1
  <1>3. ASSUME NEW d \in Docs, NEW row, CreateVersionAndJob(d, row) PROVE scrapeJob'[j] = "SUCCEEDED"
    BY <1>1, <1>2, <1>3 DEF CreateVersionAndJob, CreateIngestionJob
  <1>4. CASE LibraryNext
    BY <1>1, <1>3, <1>4 DEF LibraryNext, CreateMemo, CreateWebpage, UpdateMemo, UpdateWebpage, Delete
  <1>5. ASSUME NEW w \in Workers, MarkPublishedAndProcessing(w) \/ MarkFails(w)
        PROVE  scrapeJob'[j] = "SUCCEEDED"
    BY <1>1, <1>2, <1>5 DEF MarkPublishedAndProcessing, MarkFails, Mark, MarkJobProcessing
  <1>6. CASE DispatcherNext
    BY <1>1, <1>5, <1>6 DEF DispatcherNext, DispatchBatch, ClaimOutboxEvents, SendMessage,
       SendMessageFails, RescheduleFails
  <1>7. ASSUME NEW w \in Workers, ApplyResult(w) PROVE scrapeJob'[j] = "SUCCEEDED"
    <2> DEFINE i == consumer[w].msg.id
    <2>1. \/ UNCHANGED scrapeJob
          \/ scrapeJob' = [scrapeJob EXCEPT ![i] = FailJob(scrapeJob[i])]
          \/ scrapeJob' = [scrapeJob EXCEPT ![i] = CompleteJob(scrapeJob[i])]
      BY <1>7 DEF ApplyResult, ApplyFailed, ApplyCompleted
    <2> HIDE DEF i
    <2> QED BY <1>1, <1>2, <2>1 DEF FailJob, CompleteJob, CanComplete
  <1>8. CASE ConsumerNext
    BY <1>1, <1>7, <1>8 DEF ConsumerNext, Poll, ProcessMessage, ReceiveMessage, GetIngestionJob,
       GetDocumentByID, ConsumerFails, DeleteMessage, DeleteMessageFails, storeVars
  <1>9. CASE ScraperNext
    BY <1>1, <1>9 DEF ScraperNext, ScraperAnswers, ScrapeSucceeds, ScrapeSucceedsUnacknowledged,
       ScrapeFails, ScrapeDies, Reissue, dbUnchanged
  <1>10. CASE EnrichmentNext
    BY <1>1, <1>10 DEF EnrichmentNext, ProcessBatch, ClaimEnrichmentJobs, Load, LoadFails, Commit,
       EnrichFails, RecordFailure, RecordFailureFails, RejectDocument
  <1>11. CASE CleanupNext
    BY <1>1, <1>11 DEF CleanupNext, CleanBatch, ClaimArtifactCleanupJobs, ListDocumentArtifactKeys,
       DeleteObject, CompleteCleanup, CleanupFails, FailCleanup, FailCleanupFails, storeVars
  <1>12. CASE (\E w \in Workers : Crash(w)) \/ UNCHANGED vars
    BY <1>1, <1>12 DEF Crash, vars, storeVars
  <1> QED BY <1>4, <1>6, <1>8, <1>9, <1>10, <1>11, <1>12 DEF Next

\* The mark of a late dispatcher, a redelivery and a result under another eventId all
\* leave a SCRAPE job that succeeded as it is.
THEOREM SucceededCorrect == Spec => SucceededIsTerminal
  <1>1. TypeInv /\ [Next]_vars =>
          [\A j \in VersionIds : scrapeJob[j] = "SUCCEEDED" => scrapeJob'[j] = "SUCCEEDED"]_scrapeJob
    BY ScrapeJobStep
  <1>2. TypeInv /\ [Next]_vars => TypeInv'
    BY TypeStep
  <1> QED BY <1>1, <1>2, InitTypeInv, PTL DEF Spec, SucceededIsTerminal

-----------------------------------------------------------------------------
(* A document that was scraped stays scraped.                              *)

\* A version has one outcome: keys are recorded by the result that carries the eventId
\* of the request, and what is sent again repeats what that result brought.
OneOutcome ==
  /\ \A j \in keys : <<j, 0>> \in inbox
  /\ \A m \in Results : m.event > 0 /\ InFlight(m) =>
       /\ m.kind = "completed" => m.id \in keys
       /\ m.kind = "failed" => <<m.id, 0>> \in inbox /\ m.id \notin keys

ScrapedInv == TypeInv /\ ReadInv /\ OneOutcome /\ ScrapedStaysScraped

\* Only the API and the result consumer give a document another version, delete it,
\* record keys or take a result; no other process puts a document into a scrape state
\* that is not in one.
LEMMA OtherRows ==
  ASSUME TypeInv,
         \/ ScraperNext \/ DispatcherNext \/ EnrichmentNext
         \/ \E w \in Workers : Crash(w)
  PROVE  /\ UNCHANGED <<keys, inbox, cleanup>>
         /\ \A d \in Docs :
              /\ doc'[d].cur = doc[d].cur /\ doc'[d].deleted = doc[d].deleted
              /\ doc'[d].status \in ScrapeStatuses =>
                   doc'[d].status = doc[d].status \/ doc[d].status \in ScrapeStatuses
         /\ \A j \in VersionIds : scrapeJob'[j] # "NONE" => scrapeJob[j] # "NONE"
  <1>0. doc \in [Docs -> DocRow] /\ scrapeJob \in [VersionIds -> JobStates]
    BY DEF TypeInv, TypeOK, StoreTypeOK
  <1>1. CASE ScraperNext
    BY <1>1 DEF ScraperNext, ScraperAnswers, ScrapeSucceeds, ScrapeSucceedsUnacknowledged,
       ScrapeFails, ScrapeDies, Reissue, dbUnchanged
  <1>2. CASE UNCHANGED <<keys, inbox, cleanup, doc, scrapeJob>>
    BY <1>2
  <1>3. ASSUME NEW w \in Workers, NEW j \in VersionIds, Mark(w, j)
        PROVE  /\ \A d \in Docs :
                    /\ doc'[d].cur = doc[d].cur /\ doc'[d].deleted = doc[d].deleted
                    /\ doc'[d].status \in ScrapeStatuses =>
                         doc'[d].status = doc[d].status \/ doc[d].status \in ScrapeStatuses
               /\ \A i \in VersionIds : scrapeJob'[i] # "NONE" => scrapeJob[i] # "NONE"
    <2> DEFINE row == doc[j[1]]
               marked == MarkDocumentProcessing(row, j[2])
    <2>1. /\ scrapeJob' = [scrapeJob EXCEPT ![j] = MarkJobProcessing(scrapeJob[j])]
          /\ doc' = [doc EXCEPT ![j[1]] = marked]
          /\ j[1] \in Docs /\ row \in DocRow
      BY <1>0, <1>3 DEF Mark
    <2>2. /\ marked.cur = row.cur /\ marked.deleted = row.deleted
          /\ marked.status = row.status \/ row.status \in ScrapeStatuses
      <3> HIDE DEF row
      <3> QED BY <2>1 DEF DocRow, MarkDocumentProcessing, ScrapeStatuses
    <2> HIDE DEF marked
    <2>3. \A i \in VersionIds : scrapeJob'[i] # "NONE" => scrapeJob[i] # "NONE"
      BY <1>0, <2>1 DEF MarkJobProcessing
    <2> QED BY <1>0, <2>1, <2>2, <2>3
  <1>4. CASE DispatcherNext
    <2>1. ASSUME NEW w \in Workers, MarkPublishedAndProcessing(w) \/ MarkFails(w)
          PROVE  /\ UNCHANGED <<keys, inbox, cleanup>>
                 /\ UNCHANGED <<doc, scrapeJob>> \/ \E j \in VersionIds : Mark(w, j)
      BY <2>1 DEF MarkPublishedAndProcessing, MarkFails, TypeInv, TypeOK, DispatcherTypeOK
    <2>2. ASSUME NEW w \in Workers, MarkPublishedAndProcessing(w) \/ MarkFails(w)
          PROVE  /\ UNCHANGED <<keys, inbox, cleanup>>
                 /\ \A d \in Docs :
                      /\ doc'[d].cur = doc[d].cur /\ doc'[d].deleted = doc[d].deleted
                      /\ doc'[d].status \in ScrapeStatuses =>
                           doc'[d].status = doc[d].status \/ doc[d].status \in ScrapeStatuses
                 /\ \A i \in VersionIds : scrapeJob'[i] # "NONE" => scrapeJob[i] # "NONE"
      BY <1>3, <2>1, <2>2
    <2>3. \/ UNCHANGED <<keys, inbox, cleanup, doc, scrapeJob>>
          \/ \E w \in Workers : MarkPublishedAndProcessing(w) \/ MarkFails(w)
      BY <1>4 DEF DispatcherNext, DispatchBatch, ClaimOutboxEvents, SendMessage, SendMessageFails,
         RescheduleFails
    <2> QED BY <1>2, <2>2, <2>3
  <1>5. CASE EnrichmentNext
    <2>1. /\ UNCHANGED <<keys, inbox, cleanup, scrapeJob>>
          /\ \/ doc' = doc
             \/ \E j \in VersionIds :
                  \/ doc' = [doc EXCEPT ![j[1]] = CompleteEnrichment(doc[j[1]], j[2])]
                  \/ doc' = [doc EXCEPT ![j[1]] = RejectEnrichment(doc[j[1]], j[2])]
      BY <1>5 DEF EnrichmentNext, ProcessBatch, ClaimEnrichmentJobs, Load, LoadFails, Commit, Enrich,
         EnrichFails, RecordFailure, RecordFailureFails, RejectDocument, TypeInv, TypeOK, EnricherTypeOK
    <2>2. ASSUME NEW row \in DocRow, NEW v,
                 NEW next \in {CompleteEnrichment(row, v), RejectEnrichment(row, v)}
          PROVE  /\ next.cur = row.cur /\ next.deleted = row.deleted
                 /\ next.status = row.status \/ next.status \notin ScrapeStatuses
      BY <2>2 DEF DocRow, CompleteEnrichment, RejectEnrichment, ScrapeStatuses
    <2>3. ASSUME NEW j \in VersionIds,
                 NEW next \in {CompleteEnrichment(doc[j[1]], j[2]), RejectEnrichment(doc[j[1]], j[2])},
                 doc' = [doc EXCEPT ![j[1]] = next]
          PROVE  \A d \in Docs :
                   /\ doc'[d].cur = doc[d].cur /\ doc'[d].deleted = doc[d].deleted
                   /\ doc'[d].status = doc[d].status \/ doc'[d].status \notin ScrapeStatuses
      <3>1. /\ next.cur = doc[j[1]].cur /\ next.deleted = doc[j[1]].deleted
            /\ next.status = doc[j[1]].status \/ next.status \notin ScrapeStatuses
        BY <1>0, <2>2
      <3> QED BY <1>0, <2>3, <3>1
    <2> QED BY <2>1, <2>3
  <1>6. CASE \E w \in Workers : Crash(w)
    BY <1>2, <1>6 DEF Crash
  <1> QED BY <1>1, <1>4, <1>5, <1>6

\* What every process but the API and the consumer does keeps what the consumers have read.
LEMMA OtherReads ==
  ASSUME TypeInv, ReadInv,
         \/ (ScraperNext \/ DispatcherNext \/ EnrichmentNext) /\ UNCHANGED consumer
         \/ \E w \in Workers : Crash(w)
  PROVE  ReadInv'
  <1>1. ScraperNext \/ DispatcherNext \/ EnrichmentNext \/ \E w \in Workers : Crash(w)
    OBVIOUS
  <1>2. \A w \in Workers : consumer'[w] = consumer[w] \/ consumer'[w].pc \in {"idle", "fetched", "done"}
    BY DEF Crash, ConsumerIdle, TypeInv, TypeOK, ConsumerTypeOK
  <1> QED BY <1>1, <1>2, OtherRows, ReadsCarried DEF TypeInv, TypeOK

\* Every step keeps what the consumers have read.
LEMMA ReadStep == ASSUME TypeInv, ReadInv, [Next]_vars PROVE ReadInv'
  <1>1. CASE LibraryNext /\ UNCHANGED workerVars
    BY <1>1, WriteReads DEF LibraryNext, Writes, workerVars, TypeInv, TypeOK
  <1>2. CASE ConsumerNext
    BY <1>2, ConsumerReads DEF TypeInv, TypeOK
  <1>3. CASE CleanupNext /\ UNCHANGED consumer
    BY <1>3, CleanupReads DEF TypeInv, TypeOK
  <1>4. CASE UNCHANGED vars
    BY <1>4 DEF vars, storeVars, workerVars, ReadInv, NothingEarly, CleanupOfDeleted, ReadsHold
  <1> QED BY <1>1, <1>2, <1>3, <1>4, OtherReads DEF Next, workerVars

\* A step that records no keys, and puts nothing in flight that carries an eventId of its
\* own, keeps the one outcome.
LEMMA OutcomeCarried ==
  ASSUME OneOutcome, UNCHANGED keys, inbox \subseteq inbox',
         \A m \in Results : InFlight(m)' /\ m.event > 0 => InFlight(m)
  PROVE  OneOutcome'
  BY DEF OneOutcome

\* What a result that is taken does to the keys: a version gets them from the result that
\* carries the eventId of its request, and a later one finds them there.
LEMMA KeysRecorded ==
  ASSUME StoreTypeOK, ConsumerTypeOK, OneOutcome, NEW w \in Workers, ApplyResult(w)
  PROVE  LET j == consumer[w].msg.id IN
         \/ UNCHANGED keys
         \/ /\ keys' = keys \cup {j}
            /\ CommitsSuccess(consumer[w])
            /\ j \notin keys => <<j, 0>> \notin inbox /\ <<j, 0>> \in inbox'
  <1> DEFINE c == consumer[w]
             j == c.msg.id
  <1>1. CASE CommitsNothing(c) \/ CommitsFailure(c)
    BY <1>1 DEF CommitsNothing, CommitsFailure, ApplyFailed
  <1>2. CASE CommitsSuccess(c)
    <2>1. keys' = keys \cup {j} /\ EventOf(c) \notin inbox /\ EventOf(c) \in inbox'
          /\ c.msg.kind = "completed"
      BY <1>2 DEF CommitsSuccess, ApplyCompleted
    <2>2. c.msg \in Results /\ c.pc # "idle"
      BY ResultCases
    <2>3. c.msg.event > 0 => j \in keys
      BY <2>1, <2>2 DEF OneOutcome, InFlight
    <2>4. c.msg.event \in 0..Reissues
      BY <2>2 DEF Results
    <2>5. c.msg.event = 0 => EventOf(c) = <<j, 0>>
      BY DEF EventOf
    <2> QED BY <1>2, <2>1, <2>3, <2>4, <2>5, StoreAssumption
  <1> QED BY <1>1, <1>2, ResultCases

\* Every step keeps the one outcome of a version.
LEMMA OutcomeStep == ASSUME TypeInv, OneOutcome, [Next]_vars PROVE OneOutcome'
  <1>0. StoreTypeOK /\ ConsumerTypeOK
    BY DEF TypeInv, TypeOK
  <1>1. CASE UNCHANGED <<keys, inbox, results, consumer>>
    BY <1>1 DEF OneOutcome, InFlight
  <1>2. CASE LibraryNext /\ UNCHANGED workerVars
    BY <1>1, <1>2 DEF LibraryNext, CreateMemo, CreateWebpage, UpdateMemo, UpdateWebpage, Delete,
       CreateVersionAndJob, workerVars
  <1>3. CASE DispatcherNext /\ UNCHANGED consumer
    BY <1>1, <1>3 DEF DispatcherNext, DispatchBatch, ClaimOutboxEvents, SendMessage, SendMessageFails,
       RescheduleFails, MarkPublishedAndProcessing, MarkFails
  <1>4. CASE EnrichmentNext /\ UNCHANGED consumer
    BY <1>1, <1>4 DEF EnrichmentNext, ProcessBatch, ClaimEnrichmentJobs, Load, LoadFails, Commit,
       EnrichFails, RecordFailure, RecordFailureFails, RejectDocument
  <1>5. CASE CleanupNext /\ UNCHANGED consumer
    BY <1>0, <1>1, <1>5, CleanupRows DEF TypeInv, TypeOK
  <1>6. ASSUME NEW w \in Workers, Crash(w) PROVE OneOutcome'
    <2>1. UNCHANGED <<keys, inbox, results>> /\ consumer' = [consumer EXCEPT ![w] = ConsumerIdle]
      BY <1>6 DEF Crash
    <2>2. \A u \in Workers : consumer'[u].pc = "idle" \/ consumer'[u] = consumer[u]
      BY <1>0, <2>1 DEF ConsumerTypeOK, ConsumerIdle
    <2>3. \A m \in Results : InFlight(m)' => InFlight(m)
      BY <2>1, <2>2 DEF InFlight
    <2> QED BY <2>1, <2>3, OutcomeCarried
  <1>7. CASE ScraperNext /\ UNCHANGED workerVars
    <2>1. UNCHANGED <<keys, inbox, consumer>>
      BY <1>7 DEF ScraperNext, ScraperAnswers, ScrapeSucceeds, ScrapeSucceedsUnacknowledged,
         ScrapeFails, ScrapeDies, Reissue, dbUnchanged, workerVars
    <2>2. CASE UNCHANGED results
      BY <1>1, <2>1, <2>2
    <2>3. ASSUME NEW j \in VersionIds, NEW event \in 0..Reissues, NEW kind \in {"completed", "failed"},
                 Send(j, event, kind),
                 event > 0 => <<j, 0>> \in inbox /\ kind = IF j \in keys THEN "completed" ELSE "failed"
          PROVE  OneOutcome'
      <3> DEFINE n == [id |-> j, event |-> event, kind |-> kind]
      <3>1. /\ results' = [results EXCEPT ![n] = MaxReceives]
            /\ n.id = j /\ n.event = event /\ n.kind = kind
            /\ results \in [Results -> 0..MaxReceives]
        BY <1>0, <2>3 DEF Send, StoreTypeOK
      <3> HIDE DEF n
      <3>2. \A m \in Results : InFlight(m)' => InFlight(m) \/ m = n
        BY <2>1, <3>1 DEF InFlight
      <3> QED BY <2>1, <2>3, <3>1, <3>2 DEF OneOutcome
    <2>4. \/ UNCHANGED results
          \/ \E j \in VersionIds : \E event \in 0..Reissues : \E kind \in {"completed", "failed"} :
               /\ Send(j, event, kind)
               /\ event > 0 => <<j, 0>> \in inbox /\ kind = IF j \in keys THEN "completed" ELSE "failed"
      <3>1. PICK j \in VersionIds :
              \/ UNCHANGED results \/ Send(j, 0, "completed") \/ Send(j, 0, "failed")
              \/ \E event \in 1..Reissues : Reissue(j, event)
        BY <1>7 DEF ScraperNext, ScraperAnswers, ScrapeSucceeds, ScrapeSucceedsUnacknowledged,
           ScrapeFails, ScrapeDies
      <3>2. 0 \in 0..Reissues /\ 1..Reissues \subseteq 0..Reissues
        BY StoreAssumption
      <3>3. ASSUME NEW event \in 1..Reissues, Reissue(j, event)
            PROVE  \E kind \in {"completed", "failed"} :
                     /\ Send(j, event, kind)
                     /\ event > 0 => /\ <<j, 0>> \in inbox
                                     /\ kind = IF j \in keys THEN "completed" ELSE "failed"
        BY <3>3 DEF Reissue
      <3> QED BY <3>1, <3>2, <3>3
    <2> QED BY <2>2, <2>3, <2>4
  <1>8. CASE ConsumerNext
    <2>1. \A m \in Results : InFlight(m)' => InFlight(m)
      BY <1>0, <1>8, ConsumerInFlight
    <2>2. ASSUME NEW w \in Workers, ApplyResult(w) PROVE OneOutcome'
      <3>1. inbox \subseteq inbox'
        BY <1>0, <2>2, ResultCases DEF CommitsNothing, CommitsFailure, CommitsSuccess
      <3>2. CASE UNCHANGED keys
        BY <2>1, <3>1, <3>2, OutcomeCarried
      <3> DEFINE j == consumer[w].msg.id
      <3>3. CASE keys' = keys \cup {j} /\ (j \notin keys => <<j, 0>> \notin inbox /\ <<j, 0>> \in inbox')
        <4>1. \A i \in keys' : <<i, 0>> \in inbox'
          BY <3>1, <3>3 DEF OneOutcome
        <4>2. \A m \in Results : m.event > 0 /\ InFlight(m)' =>
                /\ m.kind = "completed" => m.id \in keys'
                /\ m.kind = "failed" => <<m.id, 0>> \in inbox' /\ m.id \notin keys'
          BY <2>1, <3>1, <3>3 DEF OneOutcome
        <4> QED BY <4>1, <4>2 DEF OneOutcome
      <3> QED BY <1>0, <2>2, <3>2, <3>3, KeysRecorded
    <2>3. UNCHANGED <<keys, inbox>> \/ \E w \in Workers : ApplyResult(w)
      BY <1>8 DEF ConsumerNext, Poll, ProcessMessage, ReceiveMessage, GetIngestionJob,
         GetDocumentByID, ConsumerFails, DeleteMessage, DeleteMessageFails, storeVars
    <2> QED BY <2>1, <2>2, <2>3, OutcomeCarried
  <1>9. CASE UNCHANGED vars
    BY <1>1, <1>9 DEF vars, storeVars, workerVars
  <1> QED BY <1>2, <1>3, <1>4, <1>5, <1>6, <1>7, <1>8, <1>9 DEF Next, workerVars

\* Every step keeps a scraped document out of the scrape states: a write starts a version
\* without keys, a late mark and a late failure find their version moved on, and the
\* result that brings the keys takes the document on with it.
LEMMA ScrapedStep == ASSUME ScrapedInv, [Next]_vars PROVE ScrapedStaysScraped'
  <1> USE DEF CurrentId
  <1>0. /\ StoreTypeOK /\ ConsumerTypeOK /\ ReadInv /\ OneOutcome /\ ScrapedStaysScraped
        /\ doc \in [Docs -> DocRow] /\ TypeInv
    BY DEF ScrapedInv, TypeInv, TypeOK, StoreTypeOK
  <1>1. ASSUME UNCHANGED keys,
               \A d \in Docs :
                 /\ doc'[d].cur = doc[d].cur
                 /\ doc[d].deleted => doc'[d].deleted
                 /\ doc'[d].status \in ScrapeStatuses =>
                      doc'[d].status = doc[d].status \/ doc[d].status \in ScrapeStatuses
        PROVE  ScrapedStaysScraped'
    BY <1>0, <1>1 DEF ScrapedStaysScraped
  <1>2. CASE UNCHANGED <<keys, doc>>
    BY <1>1, <1>2
  <1>3. ASSUME NEW d \in Docs, Writes(d) PROVE ScrapedStaysScraped'
    <2>1. CASE Delete(d)
      <3>1. UNCHANGED keys /\ doc' = [doc EXCEPT ![d] = SoftDeleteDocument(doc[d])]
        BY <2>1 DEF Delete
      <3>2. /\ SoftDeleteDocument(doc[d]).cur = doc[d].cur
            /\ SoftDeleteDocument(doc[d]).status = doc[d].status
            /\ SoftDeleteDocument(doc[d]).deleted
        BY <1>0 DEF SoftDeleteDocument, DocRow
      <3> QED BY <1>0, <1>1, <3>1, <3>2
    <2>2. ASSUME NEW row \in DocRow, Fresh(d, row), CreateVersionAndJob(d, row)
          PROVE  ScrapedStaysScraped'
      <3>1. /\ UNCHANGED keys /\ doc' = [doc EXCEPT ![d] = row]
            /\ row.cur = doc[d].cur + 1 /\ doc[d].cur \in 0..MaxVersion
        BY <1>0, <2>2 DEF CreateVersionAndJob, Fresh, DocRow
      <3>2. <<d, row.cur>> \notin keys
        <4>1. <<d, row.cur>> \in keys => row.cur <= doc[d].cur
          BY <1>0 DEF ReadInv, NothingEarly
        <4> QED BY <3>1, <4>1, StoreAssumption
      <3> QED BY <1>0, <3>1, <3>2 DEF ScrapedStaysScraped
    <2> QED BY <1>0, <1>3, <2>1, <2>2, WriteCases
  <1>4. ASSUME NEW w \in Workers, ApplyResult(w) PROVE ScrapedStaysScraped'
    <2> DEFINE c == consumer[w]
               j == c.msg.id
    <2>1. /\ c.pc = "document" /\ c.msg \in Results
          /\ CommitsNothing(c) \/ CommitsFailure(c) \/ CommitsSuccess(c)
      BY <1>0, <1>4, ResultCases
    <2>2. /\ j \in VersionIds /\ j[1] \in Docs /\ j[2] \in Versions /\ c.seen \in 0..MaxVersion
          /\ j = <<j[1], j[2]>> /\ c.msg.event \in 0..Reissues
      BY <1>0, <2>1 DEF Results, ConsumerTypeOK
    <2>3. ReadHolds(c, doc[j[1]])
      BY <1>0 DEF ReadInv, ReadsHold
    <2>4. CASE CommitsNothing(c)
      BY <1>2, <2>4 DEF CommitsNothing
    <2>5. CASE CommitsFailure(c)
      <3>1. j \notin keys
        <4>1. EventOf(c) \notin inbox /\ c.msg.kind = "failed"
          BY <2>5 DEF CommitsFailure
        <4>2. c.msg.event = 0 => <<j, 0>> \notin inbox
          BY <4>1 DEF EventOf
        <4>3. c.msg.event > 0 => j \notin keys
          BY <1>0, <2>1, <4>1 DEF OneOutcome, InFlight
        <4>4. c.msg.event = 0 \/ c.msg.event > 0
          BY <2>2, StoreAssumption
        <4> QED BY <1>0, <4>2, <4>3, <4>4 DEF OneOutcome
      <3>2. /\ UNCHANGED keys
            /\ \/ doc' = [doc EXCEPT ![j[1]] = doc[j[1]]]
               \/ doc' = [doc EXCEPT ![j[1]] = RejectScrape(doc[j[1]], j[2])]
        BY <2>5 DEF CommitsFailure, ApplyFailed
      <3> HIDE DEF j, c
      <3>3. CASE doc' = [doc EXCEPT ![j[1]] = doc[j[1]]]
        BY <1>0, <1>1, <2>2, <3>2, <3>3
      <3>4. CASE doc' = [doc EXCEPT ![j[1]] = RejectScrape(doc[j[1]], j[2])]
        <4> DEFINE row == RejectScrape(doc[j[1]], j[2])
        <4>1. /\ row.cur = doc[j[1]].cur /\ row.deleted = doc[j[1]].deleted
              /\ row.status = doc[j[1]].status \/ row.cur = j[2]
          BY <1>0, <2>2 DEF RejectScrape, IsCurrent, DocRow
        <4> HIDE DEF row
        <4>2. doc' = [doc EXCEPT ![j[1]] = row]
          BY <3>4 DEF row
        <4>3. ASSUME NEW d \in Docs, CurrentId(d)' \in keys', ~doc'[d].deleted
              PROVE  doc'[d].status \notin ScrapeStatuses
          <5>1. CASE d # j[1]
            BY <1>0, <3>2, <4>2, <4>3, <5>1 DEF ScrapedStaysScraped
          <5>2. CASE d = j[1]
            <6>1. doc'[d] = row
              BY <1>0, <2>2, <4>2, <5>2
            <6>2. row.cur # j[2]
              BY <2>2, <3>1, <3>2, <4>3, <5>2, <6>1
            <6> QED BY <1>0, <3>2, <4>1, <4>3, <5>2, <6>1, <6>2 DEF ScrapedStaysScraped
          <5> QED BY <5>1, <5>2
        <4> QED BY <4>3 DEF ScrapedStaysScraped
      <3> QED BY <3>2, <3>3, <3>4
    <2>6. CASE CommitsSuccess(c)
      <3>1. keys' = keys \cup {j} /\ CanApplyCompleted(c)
        BY <2>6 DEF CommitsSuccess, ApplyCompleted
      <3>2. CASE Current(c)
        <4>1. doc' = [doc EXCEPT ![j[1]] = CompleteScrape(doc[j[1]], j[2])] /\ IsCurrent(doc[j[1]], j[2])
          BY <2>6, <3>2 DEF CommitsSuccess, ApplyCompleted, CanApplyCompleted
        <4>2. CompleteScrape(doc[j[1]], j[2]).status = "ENRICH_PENDING"
          BY <1>0, <2>2, <4>1 DEF CompleteScrape, DocRow
        <4> HIDE DEF j, c
        <4>3. ASSUME NEW d \in Docs, CurrentId(d)' \in keys', ~doc'[d].deleted
              PROVE  doc'[d].status \notin ScrapeStatuses
          <5>1. CASE d # j[1]
            BY <1>0, <2>2, <3>1, <4>1, <4>3, <5>1 DEF ScrapedStaysScraped
          <5>2. CASE d = j[1]
            <6>1. doc'[d].status = "ENRICH_PENDING"
              BY <1>0, <4>1, <4>2, <5>2
            <6> QED BY <6>1 DEF ScrapeStatuses
          <5> QED BY <5>1, <5>2
        <4> QED BY <4>3 DEF ScrapedStaysScraped
      <3>3. CASE ~Current(c)
        <4>1. doc' = doc
          BY <2>6, <3>3 DEF CommitsSuccess, ApplyCompleted
        <4>2. ~IsCurrent(doc[j[1]], j[2])
          BY <1>0, <2>1, <2>2, <2>3, <3>3, NotCurrentStays
        <4> HIDE DEF j, c
        <4> QED BY <1>0, <2>2, <3>1, <4>1, <4>2 DEF ScrapedStaysScraped, IsCurrent
      <3> QED BY <3>2, <3>3
    <2> QED BY <2>1, <2>4, <2>5, <2>6
  <1>5. CASE ConsumerNext
    BY <1>2, <1>4, <1>5 DEF ConsumerNext, Poll, ProcessMessage, ReceiveMessage, GetIngestionJob,
       GetDocumentByID, ConsumerFails, DeleteMessage, DeleteMessageFails, storeVars
  <1>6. CASE CleanupNext
    BY <1>0, <1>2, <1>6, CleanupRows DEF TypeInv, TypeOK
  <1>7. CASE ScraperNext \/ DispatcherNext \/ EnrichmentNext \/ \E w \in Workers : Crash(w)
    BY <1>0, <1>1, <1>7, OtherRows
  <1>8. CASE UNCHANGED vars
    BY <1>2, <1>8 DEF vars, storeVars
  <1> QED BY <1>3, <1>5, <1>6, <1>7, <1>8 DEF Next, LibraryNext, Writes

\* Before anything happens, nothing is recorded, read or in flight.
LEMMA InitScrapedInv == Init => ScrapedInv
  <1> SUFFICES ASSUME Init PROVE ScrapedInv
    OBVIOUS
  <1>1. TypeInv
    BY InitTypeInv
  <1>2. NothingEarly /\ CleanupOfDeleted
    BY DEF Init, StoreInit, NothingEarly, CleanupOfDeleted
  <1>3. ReadsHold
    BY DEF Init, ConsumerInit, ConsumerIdle, ReadsHold, ReadHolds
  <1>4. OneOutcome
    BY DEF Init, StoreInit, ConsumerInit, ConsumerIdle, OneOutcome, InFlight
  <1>5. ScrapedStaysScraped
    BY DEF Init, StoreInit, ScrapedStaysScraped
  <1> QED BY <1>1, <1>2, <1>3, <1>4, <1>5 DEF ScrapedInv, ReadInv

\* No mark of a slow dispatcher, no failure that comes late and no result that comes
\* again puts a document whose current version was scraped back into a scrape state.
THEOREM ScrapedCorrect == Spec => []ScrapedStaysScraped
  <1>1. ScrapedInv /\ [Next]_vars => ScrapedInv'
    BY TypeStep, ReadStep, OutcomeStep, ScrapedStep DEF ScrapedInv
  <1>2. ScrapedInv => ScrapedStaysScraped
    BY DEF ScrapedInv
  <1> QED BY <1>1, <1>2, InitScrapedInv, PTL DEF Spec

-----------------------------------------------------------------------------
(* The keys that a cleanup has seen.                                       *)

\* A key of the current version that the listing of a worker lacks has come with a result
\* that found the document deleted, and that requeued the job.
Listed(w) ==
  LET d == cleaner[w].doc IN
  cleaner[w].pc = "deleting" /\ CurrentId(d) \in keys \ cleaner[w].seen
    => cleanup[d].state \notin {"PROCESSING", "SUCCEEDED"}

CleanupInv ==
  /\ TypeInv /\ ReadInv
  /\ DeletedCreated /\ CleansDeleted
  /\ \A w \in Workers : Listed(w)

\* Whatever another process does, what a worker lists or deletes stays deleted, and a key
\* that it misses comes with a requeued job.
LEMMA KeptDeleted ==
  ASSUME CleanupInv, [Next]_vars, ~CleanupNext
  PROVE  /\ DeletedCreated'
         /\ \A w \in Workers : cleaner'[w] = cleaner[w] \/ cleaner'[w] = CleanerIdle
         /\ \A d \in Docs : doc[d].deleted =>
              /\ doc'[d].cur = doc[d].cur /\ doc'[d].deleted
              /\ cleanup'[d] = cleanup[d] \/ cleanup'[d].state = "QUEUED"
              /\ CurrentId(d) \in keys' \ keys => cleanup'[d].state = "QUEUED"
  <1> USE DEF CurrentId
  <1>0. /\ TypeInv /\ StoreTypeOK /\ ConsumerTypeOK /\ ReadInv /\ DeletedCreated
        /\ doc \in [Docs -> DocRow] /\ cleaner \in [Workers -> [batch : SUBSET Docs, doc : Docs \cup {None},
                                    pc : {"idle", "deleting", "failed"},
                                    seen : SUBSET VersionIds, left : SUBSET VersionIds]]
    BY DEF CleanupInv, TypeInv, TypeOK, StoreTypeOK, CleanerTypeOK
  <1>1. \A w \in Workers : cleaner'[w] = cleaner[w] \/ cleaner'[w] = CleanerIdle
    BY <1>0 DEF Next, Crash, vars, workerVars
  <1>2. ASSUME \A d \in Docs : doc'[d].cur = doc[d].cur /\ doc'[d].deleted = doc[d].deleted
        PROVE  DeletedCreated'
    BY <1>0, <1>2 DEF DeletedCreated
  <1>3. ASSUME NEW d \in Docs, Writes(d)
        PROVE  /\ DeletedCreated'
               /\ \A e \in Docs : doc[e].deleted =>
                    /\ doc'[e].cur = doc[e].cur /\ doc'[e].deleted
                    /\ cleanup'[e] = cleanup[e] \/ cleanup'[e].state = "QUEUED"
                    /\ CurrentId(e) \in keys' \ keys => cleanup'[e].state = "QUEUED"
    <2>1. /\ UNCHANGED keys
          /\ DeletedCreated'
          /\ \A e \in Docs : doc[e].deleted => doc'[e] = doc[e] /\ cleanup'[e] = cleanup[e]
      BY <1>0, <1>3, WriteDeleted
    <2> QED BY <2>1
  <1>4. CASE ConsumerNext
    <2>1. \A d \in Docs : doc'[d].cur = doc[d].cur /\ doc'[d].deleted = doc[d].deleted
      BY <1>0, <1>4, ConsumerRows
    <2>2. ASSUME NEW d \in Docs, doc[d].deleted
          PROVE  /\ cleanup'[d] = cleanup[d] \/ cleanup'[d].state = "QUEUED"
                 /\ CurrentId(d) \in keys' \ keys => cleanup'[d].state = "QUEUED"
      BY <1>0, <1>4, <2>2, ConsumerOther, ResultOfDeleted
    <2> QED BY <1>1, <1>2, <2>1, <2>2
  <1>5. CASE ScraperNext \/ DispatcherNext \/ EnrichmentNext \/ \E w \in Workers : Crash(w)
    <2>1. /\ UNCHANGED <<keys, cleanup>>
          /\ \A d \in Docs : doc'[d].cur = doc[d].cur /\ doc'[d].deleted = doc[d].deleted
      BY <1>0, <1>5, OtherRows
    <2> QED BY <1>1, <1>2, <2>1
  <1>6. CASE UNCHANGED vars
    BY <1>0, <1>1, <1>6 DEF vars, storeVars, DeletedCreated
  <1> QED BY <1>1, <1>3, <1>4, <1>5, <1>6 DEF Next, LibraryNext, Writes

\* With one worker process, no one but itself closes the job that it works on, and it
\* lists the keys again before it does so again.
LEMMA ListedStep ==
  ASSUME NEW w, Workers = {w}, CleanupInv, CleanupNext
  PROVE  Listed(w)'
  <1>0. /\ w \in Workers /\ Listed(w) /\ UNCHANGED <<doc, keys>>
        /\ StoreTypeOK /\ CleanerTypeOK
        /\ cleaner \in [Workers -> [batch : SUBSET Docs, doc : Docs \cup {None},
                                    pc : {"idle", "deleting", "failed"},
                                    seen : SUBSET VersionIds, left : SUBSET VersionIds]]
    BY CleanupRows DEF CleanupInv, TypeInv, TypeOK, CleanerTypeOK
  <1> USE DEF CurrentId
  <1>1. CASE cleaner'[w].pc # "deleting"
    BY <1>1 DEF Listed
  <1>2. ASSUME NEW d \in Docs, ListDocumentArtifactKeys(w, d) PROVE Listed(w)'
    <2> DEFINE c == [batch |-> cleaner[w].batch \ {d}, doc |-> d, pc |-> "deleting",
                     seen |-> KeysOf(d), left |-> KeysOf(d)]
    <2>1. cleaner' = [cleaner EXCEPT ![w] = c] /\ c.doc = d /\ c.seen = KeysOf(d)
      BY <1>2 DEF ListDocumentArtifactKeys
    <2> HIDE DEF c
    <2>2. cleaner'[w].doc = d /\ cleaner'[w].seen = {j \in keys : j[1] = d}
      BY <1>0, <2>1 DEF KeysOf
    <2> QED BY <1>0, <2>2 DEF Listed
  <1>3. ASSUME NEW j \in VersionIds, DeleteObject(w, j) PROVE Listed(w)'
    <2>1. /\ UNCHANGED cleanup /\ cleaner[w].pc = "deleting"
          /\ cleaner'[w].doc = cleaner[w].doc /\ cleaner'[w].seen = cleaner[w].seen
      BY <1>0, <1>3 DEF DeleteObject
    <2> QED BY <1>0, <2>1 DEF Listed
  <1>4. ASSUME ClaimArtifactCleanupJobs(w) PROVE cleaner'[w].pc # "deleting"
    BY <1>0, <1>4 DEF ClaimArtifactCleanupJobs, CleanerIdle
  <1>5. ASSUME \/ CompleteCleanup(w) \/ FailCleanup(w) \/ CleanupFails(w) \/ FailCleanupFails(w)
        PROVE  cleaner'[w].pc # "deleting"
    BY <1>0, <1>5 DEF CompleteCleanup, FailCleanup, CleanupFails, FailCleanupFails, NextDocument, CleanerIdle
  <1> QED BY <1>1, <1>2, <1>3, <1>4, <1>5 DEF CleanupNext, CleanBatch

\* Every step keeps what a single worker knows of the document that it cleans up.
LEMMA CleanupInvStep ==
  ASSUME NEW w, Workers = {w}, CleanupInv, [Next]_vars
  PROVE  CleanupInv'
  <1>0. /\ TypeInv /\ ReadInv /\ DeletedCreated /\ CleansDeleted /\ Listed(w)
        /\ StoreTypeOK /\ CleanerTypeOK /\ w \in Workers
    BY DEF CleanupInv, TypeInv, TypeOK
  <1>1. TypeInv' /\ ReadInv'
    BY <1>0, TypeStep, ReadStep
  <1>2. CASE CleanupNext
    <2>1. CleansDeleted'
      BY <1>0, <1>2, CleanupDeleted DEF ReadInv
    <2>2. DeletedCreated'
      BY <1>0, <1>2, CleanupRows DEF DeletedCreated
    <2> QED BY <1>1, <1>2, <2>1, <2>2, ListedStep DEF CleanupInv
  <1>3. CASE ~CleanupNext
    <2>1. CleansDeleted'
      <3>1. SUFFICES ASSUME NEW d \in Docs, d \in cleaner'[w].batch \cup {cleaner'[w].doc}
                     PROVE  doc'[d].deleted
        BY DEF CleansDeleted
      <3>2. cleaner'[w] = cleaner[w]
        BY <1>0, <1>3, <3>1, KeptDeleted, StoreAssumption DEF CleanerIdle
      <3> QED BY <1>0, <1>3, <3>1, <3>2, KeptDeleted DEF CleansDeleted
    <2>2. Listed(w)'
      <3> DEFINE d == cleaner[w].doc
      <3>1. CASE cleaner'[w] = CleanerIdle
        BY <3>1 DEF Listed, CleanerIdle
      <3>2. CASE cleaner'[w] = cleaner[w] /\ cleaner[w].pc = "deleting"
        <4>1. d \in Docs /\ doc[d].deleted
          BY <1>0, <3>2 DEF CleanerTypeOK, CleansDeleted
        <4>2. /\ doc'[d].cur = doc[d].cur
              /\ cleanup'[d] = cleanup[d] \/ cleanup'[d].state = "QUEUED"
              /\ CurrentId(d) \in keys' \ keys => cleanup'[d].state = "QUEUED"
          BY <1>3, <4>1, KeptDeleted
        <4>3. CurrentId(d) \in keys \ cleaner[w].seen => cleanup[d].state \notin {"PROCESSING", "SUCCEEDED"}
          BY <1>0, <3>2 DEF Listed
        <4> QED BY <3>2, <4>2, <4>3 DEF Listed, CurrentId
      <3>3. CASE cleaner'[w] = cleaner[w] /\ cleaner[w].pc # "deleting"
        BY <3>3 DEF Listed
      <3> QED BY <1>0, <1>3, <3>1, <3>2, <3>3, KeptDeleted
    <2> QED BY <1>1, <1>3, <2>1, <2>2, KeptDeleted DEF CleanupInv
  <1> QED BY <1>2, <1>3

\* A step that closes the job of the document at hand has listed its current keys.
LEMMA CloseStep ==
  ASSUME NEW w, Workers = {w}, CleanupInv, [Next]_vars, NEW d \in Docs,
         cleanup[d].state # "SUCCEEDED", cleanup'[d].state = "SUCCEEDED",
         cleaner[w].doc = d, CurrentId(d) \in keys
  PROVE  CurrentId(d) \in cleaner[w].seen
  <1>0. /\ w \in Workers /\ Listed(w) /\ CleansDeleted
        /\ StoreTypeOK /\ CleanerTypeOK /\ cleanup \in [Docs -> CleanupRow]
    BY DEF CleanupInv, TypeInv, TypeOK, StoreTypeOK
  <1>1. CleanupNext
    <2>1. doc[d].deleted
      BY <1>0 DEF CleansDeleted
    <2> QED BY <2>1, KeptDeleted
  <1>2. ASSUME ClaimArtifactCleanupJobs(w) PROVE FALSE
    BY <1>0, <1>2 DEF ClaimArtifactCleanupJobs, ClaimCleanupJob
  <1>3. ASSUME FailCleanup(w) PROVE FALSE
    BY <1>0, <1>3 DEF FailCleanup, FailArtifactCleanupJob, CleanupRow
  <1>4. ASSUME CompleteCleanup(w) \/ CleanupFails(w)
        PROVE  CurrentId(d) \in cleaner[w].seen
    <2>1. cleaner[w].pc = "deleting"
      BY <1>4 DEF CompleteCleanup, CleanupFails
    <2>2. UNCHANGED cleanup \/ cleanup' = [cleanup EXCEPT ![d] = CompleteArtifactCleanupJob(cleanup[d])]
      BY <1>4 DEF CompleteCleanup, CleanupFails
    <2>3. cleanup[d].state \in {"PROCESSING", "SUCCEEDED"}
      BY <1>0, <2>2 DEF CompleteArtifactCleanupJob
    <2> QED BY <1>0, <2>1, <2>3 DEF Listed
  <1>5. ASSUME UNCHANGED cleanup PROVE FALSE
    BY <1>5
  <1> QED BY <1>1, <1>2, <1>3, <1>4, <1>5 DEF CleanupNext, CleanBatch, ListDocumentArtifactKeys,
        DeleteObject, FailCleanupFails, storeVars

\* Before anything happens there is nothing to clean up.
LEMMA InitCleanupInv == Init => CleanupInv
  <1> SUFFICES ASSUME Init PROVE CleanupInv
    OBVIOUS
  <1>1. TypeInv /\ ReadInv
    BY InitScrapedInv DEF ScrapedInv
  <1>2. DeletedCreated
    BY DEF Init, StoreInit, DeletedCreated
  <1>3. CleansDeleted /\ \A w \in Workers : Listed(w)
    BY StoreAssumption DEF Init, CleanerInit, CleanerIdle, CleansDeleted, Listed
  <1> QED BY <1>1, <1>2, <1>3 DEF CleanupInv

\* What a single worker knows of the document that it cleans up is always so.
LEMMA CleanupInvariant ==
  ASSUME NEW p, Workers = {p}
  PROVE  Spec => []CleanupInv
  <1>1. CleanupInv /\ [Next]_vars => CleanupInv'
    BY CleanupInvStep
  <1> QED BY <1>1, InitCleanupInv, PTL DEF Spec

\* However a result comes in between, the one worker process never closes a cleanup job
\* with a list of keys that lacks one of the current version.
THEOREM CleanupCorrect ==
  ASSUME NEW p, Workers = {p}
  PROVE  Spec => CleanupSeesCurrentKeys
  <1>1. CleanupInv /\ [Next]_vars =>
          [\A w \in Workers, d \in Docs :
             /\ cleanup[d].state # "SUCCEEDED" /\ cleanup'[d].state = "SUCCEEDED"
             /\ cleaner[w].doc = d /\ cleaner'[w] # cleaner[w]
             /\ CurrentId(d) \in keys
             => CurrentId(d) \in cleaner[w].seen]_vars
    BY CloseStep
  <1> QED BY <1>1, CleanupInvariant, PTL DEF Spec, CleanupSeesCurrentKeys
=============================================================================
