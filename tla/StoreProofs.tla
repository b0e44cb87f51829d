---------------------------- MODULE StoreProofs ----------------------------
(***************************************************************************)
(* What the theorems about Ingestion and about Accounts have in common: the *)
(* statements on a row, and the three components that both are composed of. *)
(* What holds of a component here holds of it in either composition.       *)
(***************************************************************************)
EXTENDS Library, ScrapeResults, ArtifactCleanup, TLAPS

USE DEF Versions, VersionIds, Texts

-----------------------------------------------------------------------------
(* What a statement leaves is a row of its table again.                    *)

\* What the statements on a document row leave is a document row, of the same version.
LEMMA DocStatements ==
  ASSUME NEW row \in DocRow, NEW v \in Versions
  PROVE  /\ MarkDocumentProcessing(row, v) \in DocRow
         /\ CompleteScrape(row, v) \in DocRow
         /\ RejectScrape(row, v) \in DocRow
         /\ CompleteEnrichment(row, v) \in DocRow
         /\ RejectEnrichment(row, v) \in DocRow
         /\ SoftDeleteDocument(row) \in DocRow
         /\ MarkDocumentProcessing(row, v).cur = row.cur
         /\ CompleteScrape(row, v).cur = row.cur
         /\ RejectScrape(row, v).cur = row.cur
         /\ CompleteEnrichment(row, v).cur = row.cur
         /\ RejectEnrichment(row, v).cur = row.cur
  <1> USE StoreAssumption DEF DocRow, Statuses
  <1>1. MarkDocumentProcessing(row, v) \in DocRow
    BY DEF MarkDocumentProcessing
  <1>0. v \in 0..MaxVersion
    OBVIOUS
  <1>2. CompleteScrape(row, v) \in DocRow
    BY <1>0 DEF CompleteScrape
  <1>3. RejectScrape(row, v) \in DocRow
    BY DEF RejectScrape
  <1>4. CompleteEnrichment(row, v) \in DocRow /\ RejectEnrichment(row, v) \in DocRow
    BY DEF CompleteEnrichment, RejectEnrichment
  <1>5. SoftDeleteDocument(row) \in DocRow
    BY DEF SoftDeleteDocument
  <1>6. /\ MarkDocumentProcessing(row, v).cur = row.cur
        /\ CompleteScrape(row, v).cur = row.cur
        /\ RejectScrape(row, v).cur = row.cur
        /\ CompleteEnrichment(row, v).cur = row.cur
        /\ RejectEnrichment(row, v).cur = row.cur
    BY DEF MarkDocumentProcessing, CompleteScrape, RejectScrape, CompleteEnrichment, RejectEnrichment
  <1> QED BY <1>1, <1>2, <1>3, <1>4, <1>5, <1>6

\* The statements on a job lead from job states to job states.
LEMMA JobStatements ==
  ASSUME NEW state \in JobStates
  PROVE  /\ CreateIngestionJob(state) \in JobStates
         /\ MarkJobProcessing(state) \in JobStates
         /\ CompleteJob(state) \in JobStates
         /\ FailJob(state) \in JobStates
  BY DEF JobStates, CreateIngestionJob, MarkJobProcessing, CompleteJob, FailJob

\* The statements on an ENRICH row lead from rows to rows; a claim needs an attempt left.
LEMMA EnrichStatements ==
  ASSUME NEW row \in EnrichRow
  PROVE  /\ CreateEnrichJob(row) \in EnrichRow
         /\ CompleteEnrichJob(row) \in EnrichRow
         /\ FailEnrichJob(row) \in EnrichRow
         /\ row.attempts < MaxEnrichAttempts => ClaimEnrichJob(row) \in EnrichRow
         /\ row.state = "NONE" => /\ CompleteEnrichJob(row).state = "NONE"
                                  /\ FailEnrichJob(row).state = "NONE"
  BY JobStatements, StoreAssumption
     DEF EnrichRow, JobStates, CreateEnrichJob, CompleteEnrichJob, FailEnrichJob, ClaimEnrichJob,
         CompleteJob, FailJob, CanComplete

\* The statements on a cleanup row lead from rows to rows; a claim needs an attempt left.
LEMMA CleanupStatements ==
  ASSUME NEW row \in CleanupRow
  PROVE  /\ CreateArtifactCleanupJob(row) \in CleanupRow
         /\ RequeueArtifactCleanupJob(row) \in CleanupRow
         /\ CompleteArtifactCleanupJob(row) \in CleanupRow
         /\ FailArtifactCleanupJob(row) \in CleanupRow
         /\ row.attempts < MaxCleanupAttempts => ClaimCleanupJob(row) \in CleanupRow
  BY StoreAssumption DEF CleanupRow, JobStates, CreateArtifactCleanupJob, RequeueArtifactCleanupJob,
         CompleteArtifactCleanupJob, FailArtifactCleanupJob, ClaimCleanupJob

\* The next version of a document below the bound is a document row.
LEMMA NextVersionRow ==
  ASSUME NEW row \in DocRow, row.cur < MaxVersion, NEW status \in Statuses, NEW shown \in Texts
  PROVE  /\ NextVersion(row, status, shown) \in DocRow
         /\ NextVersion(row, status, shown).cur = row.cur + 1
         /\ row.cur + 1 \in Versions
  BY StoreAssumption DEF DocRow, NextVersion

\* A fault leaves the count of faults within its bound.
LEMMA FaultCounted == ASSUME faults \in 0..MaxFaults, Fault PROVE faults' \in 0..MaxFaults
  BY StoreAssumption DEF Fault

-----------------------------------------------------------------------------
(* The writes of the API.                                                  *)

\* The operations of the API on a document.
Writes(d) == CreateMemo(d) \/ CreateWebpage(d) \/ UpdateMemo(d) \/ UpdateWebpage(d) \/ Delete(d)

\* A row that a new version of d starts with.
Fresh(d, row) ==
  /\ row \in DocRow
  /\ row.cur \in Versions
  /\ row.cur = doc[d].cur + 1
  /\ ~row.deleted
  /\ doc[d].cur = 0 \/ Live(doc[d])

\* A write starts the next version of a document that is new or live, or deletes it.
LEMMA WriteCases ==
  ASSUME StoreTypeOK, NEW d \in Docs, Writes(d)
  PROVE  \/ \E row \in DocRow : Fresh(d, row) /\ CreateVersionAndJob(d, row)
         \/ Delete(d)
  <1> USE StoreAssumption
  <1>1. doc[d] \in DocRow /\ doc[d].cur \in 0..MaxVersion /\ doc[d].shown \in Texts
    BY DEF StoreTypeOK, DocRow
  <1>2. ASSUME NEW status \in Statuses, NEW shown \in Texts, doc[d].cur < MaxVersion,
               doc[d].cur = 0 \/ Live(doc[d]),
               CreateVersionAndJob(d, NextVersion(doc[d], status, shown))
        PROVE  \E row \in DocRow : Fresh(d, row) /\ CreateVersionAndJob(d, row)
    <2>1. /\ NextVersion(doc[d], status, shown) \in DocRow
          /\ NextVersion(doc[d], status, shown).cur = doc[d].cur + 1
          /\ doc[d].cur + 1 \in Versions
          /\ ~NextVersion(doc[d], status, shown).deleted
      BY <1>1, <1>2, NextVersionRow DEF NextVersion
    <2> QED BY <1>2, <2>1 DEF Fresh
  <1>3. CASE CreateMemo(d)
    BY <1>1, <1>2, <1>3 DEF CreateMemo, Statuses
  <1>4. CASE CreateWebpage(d)
    BY <1>1, <1>2, <1>4 DEF CreateWebpage, Statuses
  <1>5. CASE UpdateMemo(d)
    BY <1>1, <1>2, <1>5 DEF UpdateMemo, Statuses
  <1>6. CASE UpdateWebpage(d)
    BY <1>1, <1>2, <1>6 DEF UpdateWebpage, Statuses
  <1> QED BY <1>3, <1>4, <1>5, <1>6 DEF Writes

\* createVersionAndJob leaves the tables in their types.
LEMMA CreateTypes ==
  ASSUME StoreTypeOK, NEW d \in Docs, NEW row \in DocRow, row.cur \in Versions,
         CreateVersionAndJob(d, row)
  PROVE  StoreTypeOK'
  <1> DEFINE j == <<d, row.cur>>
  <1>1. j \in VersionIds /\ row.shown \in Texts
    BY DEF DocRow
  <1>2. /\ doc' = [doc EXCEPT ![d] = row]
        /\ text' = [text EXCEPT ![j] = row.shown]
        /\ \/ scrapeJob' = scrapeJob
           \/ scrapeJob' = [scrapeJob EXCEPT ![j] = CreateIngestionJob(scrapeJob[j])]
        /\ \/ enrichJob' = enrichJob
           \/ enrichJob' = [enrichJob EXCEPT ![j] = CreateEnrichJob(enrichJob[j])]
        /\ \/ outbox' = outbox
           \/ outbox' = [outbox EXCEPT ![j] = CreateOutboxEvent(outbox[j])]
        /\ UNCHANGED <<keys, inbox, chunks, cleanup, requests, results, objects, faults>>
    BY DEF CreateVersionAndJob
  <1>3. /\ scrapeJob[j] \in JobStates /\ enrichJob[j] \in EnrichRow /\ outbox[j] \in OutboxRow
    BY <1>1 DEF StoreTypeOK
  <1>4. /\ CreateIngestionJob(scrapeJob[j]) \in JobStates
        /\ CreateEnrichJob(enrichJob[j]) \in EnrichRow
        /\ CreateOutboxEvent(outbox[j]) \in OutboxRow
    BY <1>3, JobStatements, EnrichStatements DEF CreateOutboxEvent, OutboxRow
  <1> HIDE DEF j
  <1>5. doc' \in [Docs -> DocRow] /\ text' \in [VersionIds -> Texts]
    BY <1>1, <1>2 DEF StoreTypeOK
  <1>6. scrapeJob' \in [VersionIds -> JobStates]
    BY <1>1, <1>2, <1>4 DEF StoreTypeOK
  <1>7. enrichJob' \in [VersionIds -> EnrichRow]
    <2>1. enrichJob \in [VersionIds -> EnrichRow]
      BY DEF StoreTypeOK
    <2> QED BY ONLY <1>1, <1>2, <1>4, <2>1
  <1>8. outbox' \in [VersionIds -> OutboxRow]
    <2>1. outbox \in [VersionIds -> OutboxRow]
      BY DEF StoreTypeOK
    <2> QED BY ONLY <1>1, <1>2, <1>4, <2>1
  <1> QED BY <1>2, <1>5, <1>6, <1>7, <1>8 DEF StoreTypeOK

\* A write leaves the tables in their types.
LEMMA WriteTypes ==
  ASSUME StoreTypeOK, NEW d \in Docs, Writes(d)
  PROVE  StoreTypeOK'
  <1>1. ASSUME NEW row \in DocRow, Fresh(d, row), CreateVersionAndJob(d, row) PROVE StoreTypeOK'
    BY <1>1, CreateTypes DEF Fresh
  <1>2. CASE Delete(d)
    <2>1. /\ SoftDeleteDocument(doc[d]) \in DocRow
          /\ CreateArtifactCleanupJob(cleanup[d]) \in CleanupRow
      BY DocStatements, CleanupStatements, StoreAssumption DEF StoreTypeOK
    <2> QED BY <1>2, <2>1 DEF Delete, StoreTypeOK
  <1> QED BY <1>1, <1>2, WriteCases

-----------------------------------------------------------------------------
(* The scrape result consumer.                                             *)

EventOf(c) == <<c.msg.id, c.msg.event>>

\* The three ways the transaction of processMessage commits.
CommitsNothing(c) ==
  /\ UNCHANGED <<doc, text, keys, scrapeJob, enrichJob, cleanup>>
  /\ inbox' = inbox \/ inbox' = inbox \cup {EventOf(c)}

CommitsFailure(c) ==
  /\ c.msg.kind = "failed" /\ EventOf(c) \notin inbox
  /\ inbox' = inbox \cup {EventOf(c)}
  /\ ApplyFailed(c)

CommitsSuccess(c) ==
  /\ c.msg.kind = "completed" /\ EventOf(c) \notin inbox
  /\ CanApplyCompleted(c)
  /\ inbox' = inbox \cup {EventOf(c)}
  /\ ApplyCompleted(c)

\* What the transaction commits, and where it leaves the process.
LEMMA ResultCases ==
  ASSUME ConsumerTypeOK, NEW w \in Workers, ApplyResult(w)
  PROVE  /\ consumer[w].pc = "document"
         /\ consumer[w].msg \in Results
         /\ UNCHANGED <<outbox, chunks, requests, results, objects, faults>>
         /\ ConsumerStops(w) \/ consumer' = [consumer EXCEPT ![w].pc = "done"]
         /\ \/ CommitsNothing(consumer[w])
            \/ CommitsFailure(consumer[w])
            \/ CommitsSuccess(consumer[w])
  <1> DEFINE c == consumer[w]
             event == <<c.msg.id, c.msg.event>>
             refused == c.msg.kind = "completed" /\ ~CanApplyCompleted(c)
  <1>1. /\ c.pc = "document"
        /\ UNCHANGED <<outbox, chunks, requests, results, objects, faults>>
        /\ CASE event \in inbox ->
                UNCHANGED <<<<doc, text, keys, scrapeJob, enrichJob, cleanup>>, inbox>>
                  /\ consumer' = [consumer EXCEPT ![w].pc = "done"]
             [] event \notin inbox /\ TerminalDuplicate(c) ->
                /\ inbox' = inbox \cup {event}
                /\ consumer' = [consumer EXCEPT ![w].pc = "done"]
                /\ UNCHANGED <<doc, text, keys, scrapeJob, enrichJob, cleanup>>
             [] event \notin inbox /\ ~TerminalDuplicate(c) /\ refused ->
                UNCHANGED <<<<doc, text, keys, scrapeJob, enrichJob, cleanup>>, inbox>>
                  /\ ConsumerStops(w)
             [] OTHER ->
                /\ inbox' = inbox \cup {event}
                /\ consumer' = [consumer EXCEPT ![w].pc = "done"]
                /\ IF c.msg.kind = "failed" THEN ApplyFailed(c) ELSE ApplyCompleted(c)
    BY DEF ApplyResult
  <1>2. c.msg \in Results /\ c.msg.kind \in {"completed", "failed"}
    BY <1>1 DEF ConsumerTypeOK, Results
  <1>3. CASE event \in inbox
    BY ONLY <1>1, <1>2, <1>3 DEF CommitsNothing
  <1>4. CASE event \notin inbox /\ TerminalDuplicate(c)
    BY ONLY <1>1, <1>2, <1>4 DEF CommitsNothing, EventOf
  <1>5. CASE event \notin inbox /\ ~TerminalDuplicate(c) /\ refused
    BY ONLY <1>1, <1>2, <1>5 DEF CommitsNothing
  <1>6. CASE event \notin inbox /\ ~TerminalDuplicate(c) /\ ~refused
    BY ONLY <1>1, <1>2, <1>6 DEF CommitsFailure, CommitsSuccess, EventOf
  <1> QED BY <1>3, <1>4, <1>5, <1>6

\* A process that stops has nothing in hand.
LEMMA StopTypes ==
  ASSUME ConsumerTypeOK, NEW w \in Workers, ConsumerStops(w)
  PROVE  ConsumerTypeOK'
  BY StoreAssumption DEF ConsumerStops, ConsumerTypeOK, ConsumerIdle, JobStates

\* What the transaction commits leaves the tables in their types.
LEMMA CommitTypes ==
  ASSUME StoreTypeOK, NEW c, c.msg \in Results,
         UNCHANGED <<outbox, chunks, requests, results, objects, faults>>,
         CommitsNothing(c) \/ CommitsFailure(c) \/ CommitsSuccess(c)
  PROVE  StoreTypeOK'
  <1> DEFINE j == c.msg.id
  <1> USE StoreAssumption
  <1>1. /\ j \in VersionIds /\ j[1] \in Docs /\ j[2] \in Versions /\ j[2] \in Texts
        /\ c.msg.event \in 0..Reissues
    BY DEF Results
  <1>2. /\ inbox' = inbox \/ inbox' = inbox \cup {EventOf(c)}
        /\ \/ UNCHANGED <<doc, text, keys, scrapeJob, enrichJob, cleanup>>
           \/ ApplyFailed(c)
           \/ ApplyCompleted(c)
    BY DEF CommitsNothing, CommitsFailure, CommitsSuccess
  <1>3. inbox' \subseteq VersionIds \X (0..Reissues)
    <2>1. ASSUME NEW i \in VersionIds, NEW e \in 0..Reissues
          PROVE  <<i, e>> \in VersionIds \X (0..Reissues)
      BY ONLY <2>1, Zenon
    <2>2. EventOf(c) \in VersionIds \X (0..Reissues)
      BY <1>1, <2>1 DEF EventOf
    <2> QED BY <1>2, <2>2 DEF StoreTypeOK
  <1>4. doc' \in [Docs -> DocRow]
    <2>1. /\ doc \in [Docs -> DocRow]
          /\ RejectScrape(doc[j[1]], j[2]) \in DocRow
          /\ CompleteScrape(doc[j[1]], j[2]) \in DocRow
      BY <1>1, DocStatements DEF StoreTypeOK
    <2>2. \/ doc' = doc
          \/ doc' = [doc EXCEPT ![j[1]] = doc[j[1]]]
          \/ doc' = [doc EXCEPT ![j[1]] = RejectScrape(doc[j[1]], j[2])]
          \/ doc' = [doc EXCEPT ![j[1]] = CompleteScrape(doc[j[1]], j[2])]
      BY <1>2 DEF ApplyFailed, ApplyCompleted
    <2> QED BY <1>1, <2>1, <2>2
  <1>5. scrapeJob' \in [VersionIds -> JobStates]
    <2>1. /\ scrapeJob \in [VersionIds -> JobStates]
          /\ FailJob(scrapeJob[j]) \in JobStates /\ CompleteJob(scrapeJob[j]) \in JobStates
      BY <1>1, JobStatements DEF StoreTypeOK
    <2> QED BY <1>2, <2>1 DEF ApplyFailed, ApplyCompleted
  <1>6. enrichJob' \in [VersionIds -> EnrichRow]
    <2>1. enrichJob \in [VersionIds -> EnrichRow] /\ CreateEnrichJob(enrichJob[j]) \in EnrichRow
      BY <1>1, EnrichStatements DEF StoreTypeOK
    <2>2. enrichJob' = enrichJob \/ enrichJob' = [enrichJob EXCEPT ![j] = CreateEnrichJob(enrichJob[j])]
      BY <1>2 DEF ApplyFailed, ApplyCompleted
    <2> QED BY ONLY <1>1, <2>1, <2>2
  <1>7. cleanup' \in [Docs -> CleanupRow]
    <2>1. cleanup \in [Docs -> CleanupRow] /\ RequeueArtifactCleanupJob(cleanup[j[1]]) \in CleanupRow
      BY <1>1, CleanupStatements DEF StoreTypeOK
    <2>2. \/ cleanup' = cleanup
          \/ cleanup' = [cleanup EXCEPT ![j[1]] = cleanup[j[1]]]
          \/ cleanup' = [cleanup EXCEPT ![j[1]] = RequeueArtifactCleanupJob(cleanup[j[1]])]
      BY <1>2 DEF ApplyFailed, ApplyCompleted
    <2> QED BY <2>1, <2>2
  <1>8. text' \in [VersionIds -> Texts] /\ keys' \subseteq VersionIds
    BY <1>1, <1>2 DEF StoreTypeOK, ApplyFailed, ApplyCompleted
  <1> QED BY <1>3, <1>4, <1>5, <1>6, <1>7, <1>8 DEF StoreTypeOK

\* The consumer leaves the tables and its own state in their types.
LEMMA ConsumerTypes ==
  ASSUME StoreTypeOK, ConsumerTypeOK, ConsumerNext
  PROVE  StoreTypeOK' /\ ConsumerTypeOK'
  <1> USE StoreAssumption
  <1>1. faults \in 0..MaxFaults
    BY DEF StoreTypeOK
  <1>2. ASSUME NEW w \in Workers, NEW m \in Results, ReceiveMessage(w, m)
        PROVE  StoreTypeOK' /\ ConsumerTypeOK'
    <2>1. \/ UNCHANGED consumer
          \/ consumer' = [consumer EXCEPT ![w] =
                [pc |-> "fetched", msg |-> m, job |-> "NONE", seen |-> 0]]
      BY <1>2 DEF ReceiveMessage, ConsumerIdle
    <2>2. ConsumerTypeOK'
      BY <2>1 DEF ConsumerTypeOK, JobStates
    <2>3. /\ results' = [results EXCEPT ![m] = results[m] - 1]
          /\ results[m] \in 0..MaxReceives /\ results[m] > 0
      BY <1>2 DEF ReceiveMessage, StoreTypeOK
    <2>4. results[m] - 1 \in 0..MaxReceives
      BY <2>3
    <2>5. results' \in [Results -> 0..MaxReceives]
      BY <2>3, <2>4 DEF StoreTypeOK
    <2> QED BY <1>2, <2>2, <2>5 DEF ReceiveMessage, StoreTypeOK
  <1>3. ASSUME NEW w \in Workers, GetIngestionJob(w) PROVE StoreTypeOK' /\ ConsumerTypeOK'
    <2>1. consumer[w].msg \in Results /\ consumer[w].msg.id \in VersionIds
      BY <1>3 DEF GetIngestionJob, ConsumerTypeOK, Results
    <2>2. scrapeJob[consumer[w].msg.id] \in JobStates
      BY <2>1 DEF StoreTypeOK
    <2>3. CASE ConsumerStops(w)
      BY <1>3, <2>3, StopTypes DEF GetIngestionJob, StoreTypeOK, storeVars
    <2>4. CASE consumer' = [consumer EXCEPT ![w].pc = "job",
                                            ![w].job = scrapeJob[consumer[w].msg.id]]
      <3>1. ConsumerTypeOK'
        BY ONLY ConsumerTypeOK, <2>1, <2>2, <2>4 DEF ConsumerTypeOK
      <3> QED BY <1>3, <3>1 DEF GetIngestionJob, StoreTypeOK, storeVars
    <2> QED BY <1>3, <2>3, <2>4 DEF GetIngestionJob
  <1>4. ASSUME NEW w \in Workers, GetDocumentByID(w) PROVE StoreTypeOK' /\ ConsumerTypeOK'
    <2>1. consumer[w].msg \in Results /\ consumer[w].msg.id[1] \in Docs
      BY <1>4 DEF GetDocumentByID, ConsumerTypeOK, Results
    <2>2. doc[consumer[w].msg.id[1]].cur \in 0..MaxVersion
      BY <2>1 DEF StoreTypeOK, DocRow
    <2> DEFINE row == doc[consumer[w].msg.id[1]]
               seen == IF Live(row) THEN row.cur ELSE 0
    <2>3. seen \in 0..MaxVersion
      BY <2>2
    <2>4. consumer' = [consumer EXCEPT ![w].pc = "document", ![w].seen = seen]
      BY <1>4 DEF GetDocumentByID
    <2> HIDE DEF seen
    <2>5. ConsumerTypeOK'
      BY <2>1, <2>3, <2>4 DEF ConsumerTypeOK
    <2> QED BY <1>4, <2>5 DEF GetDocumentByID, StoreTypeOK, storeVars
  <1>5. ASSUME NEW w \in Workers, ApplyResult(w) PROVE StoreTypeOK' /\ ConsumerTypeOK'
    <2>1. ConsumerTypeOK'
      <3>1. CASE ConsumerStops(w)
        BY <3>1, StopTypes
      <3>2. CASE consumer' = [consumer EXCEPT ![w].pc = "done"]
        BY <1>5, <3>2, ResultCases DEF ConsumerTypeOK
      <3> QED BY <1>5, <3>1, <3>2, ResultCases
    <2> QED BY <1>5, <2>1, ResultCases, CommitTypes
  <1>6. ASSUME NEW w \in Workers, ConsumerFails(w) \/ DeleteMessageFails(w)
        PROVE  StoreTypeOK' /\ ConsumerTypeOK'
    BY <1>1, <1>6, FaultCounted, StopTypes DEF ConsumerFails, DeleteMessageFails, StoreTypeOK
  <1>7. ASSUME NEW w \in Workers, DeleteMessage(w) PROVE StoreTypeOK' /\ ConsumerTypeOK'
    <2>1. results' = [results EXCEPT ![consumer[w].msg] = 0] /\ 0 \in 0..MaxReceives
      BY <1>7 DEF DeleteMessage
    <2>2. results' \in [Results -> 0..MaxReceives]
      BY <2>1 DEF StoreTypeOK
    <2> QED BY <1>7, <2>2, StopTypes DEF DeleteMessage, StoreTypeOK
  <1> QED BY <1>2, <1>3, <1>4, <1>5, <1>6, <1>7 DEF ConsumerNext, Poll, ProcessMessage

\* The consumer moves no document to another version, and neither deletes one nor
\* brings one back; it makes no SCRAPE job and no cleanup job, and unmakes none.
LEMMA ConsumerRows ==
  ASSUME StoreTypeOK, ConsumerTypeOK, ConsumerNext
  PROVE  /\ \A d \in Docs : doc'[d].cur = doc[d].cur /\ doc'[d].deleted = doc[d].deleted
         /\ \A d \in Docs : cleanup'[d].state # "NONE" <=> cleanup[d].state # "NONE"
         /\ \A j \in VersionIds : scrapeJob'[j] # "NONE" <=> scrapeJob[j] # "NONE"
         /\ UNCHANGED <<outbox, chunks, requests, objects>>
  <1>1. CASE UNCHANGED <<doc, cleanup, scrapeJob, outbox, chunks, requests, objects>>
    BY <1>1
  <1>2. ASSUME NEW w \in Workers, ApplyResult(w)
        PROVE  /\ \A d \in Docs : doc'[d].cur = doc[d].cur /\ doc'[d].deleted = doc[d].deleted
               /\ \A d \in Docs : cleanup'[d].state # "NONE" <=> cleanup[d].state # "NONE"
               /\ \A j \in VersionIds : scrapeJob'[j] # "NONE" <=> scrapeJob[j] # "NONE"
    <2> DEFINE c == consumer[w]
               j == c.msg.id
    <2>1. j \in VersionIds /\ j[1] \in Docs
      BY <1>2, ResultCases DEF Results
    <2>2. doc \in [Docs -> DocRow] /\ scrapeJob \in [VersionIds -> JobStates]
          /\ cleanup \in [Docs -> CleanupRow]
      BY DEF StoreTypeOK
    <2>3. /\ \/ doc' = doc
             \/ doc' = [doc EXCEPT ![j[1]] = doc[j[1]]]
             \/ doc' = [doc EXCEPT ![j[1]] = RejectScrape(doc[j[1]], j[2])]
             \/ doc' = [doc EXCEPT ![j[1]] = CompleteScrape(doc[j[1]], j[2])]
          /\ \/ cleanup' = cleanup
             \/ cleanup' = [cleanup EXCEPT ![j[1]] = cleanup[j[1]]]
             \/ cleanup' = [cleanup EXCEPT ![j[1]] = RequeueArtifactCleanupJob(cleanup[j[1]])]
          /\ \/ scrapeJob' = scrapeJob
             \/ scrapeJob' = [scrapeJob EXCEPT ![j] = FailJob(scrapeJob[j])]
             \/ scrapeJob' = [scrapeJob EXCEPT ![j] = CompleteJob(scrapeJob[j])]
      BY <1>2, ResultCases
         DEF CommitsNothing, CommitsFailure, CommitsSuccess, ApplyFailed, ApplyCompleted
    <2> HIDE DEF c, j
    <2>4. /\ RejectScrape(doc[j[1]], j[2]).cur = doc[j[1]].cur
          /\ RejectScrape(doc[j[1]], j[2]).deleted = doc[j[1]].deleted
      BY <2>1, <2>2 DEF RejectScrape, DocRow
    <2>5. /\ CompleteScrape(doc[j[1]], j[2]).cur = doc[j[1]].cur
          /\ CompleteScrape(doc[j[1]], j[2]).deleted = doc[j[1]].deleted
      BY <2>1, <2>2 DEF CompleteScrape, DocRow
    <2>6. \A d \in Docs : doc'[d].cur = doc[d].cur /\ doc'[d].deleted = doc[d].deleted
      BY <2>1, <2>2, <2>3, <2>4, <2>5
    <2>7. RequeueArtifactCleanupJob(cleanup[j[1]]).state # "NONE" <=> cleanup[j[1]].state # "NONE"
      BY DEF RequeueArtifactCleanupJob
    <2>8. \A d \in Docs : cleanup'[d].state # "NONE" <=> cleanup[d].state # "NONE"
      BY <2>1, <2>2, <2>3, <2>7
    <2>9. /\ FailJob(scrapeJob[j]) # "NONE" <=> scrapeJob[j] # "NONE"
          /\ CompleteJob(scrapeJob[j]) # "NONE" <=> scrapeJob[j] # "NONE"
      BY DEF FailJob, CompleteJob, CanComplete
    <2>10. \A i \in VersionIds : scrapeJob'[i] # "NONE" <=> scrapeJob[i] # "NONE"
      BY <2>1, <2>2, <2>3, <2>9
    <2> QED BY <2>6, <2>8, <2>10
  <1>3. ASSUME NEW w \in Workers, ApplyResult(w) PROVE UNCHANGED <<outbox, chunks, requests, objects>>
    BY <1>3 DEF ApplyResult
  <1> QED BY <1>1, <1>2, <1>3 DEF ConsumerNext, Poll, ProcessMessage, ReceiveMessage, GetIngestionJob,
       GetDocumentByID, ConsumerFails, DeleteMessage, DeleteMessageFails, storeVars

\* A result that is in the queue, or that a process has in hand.
InFlight(m) ==
  \/ results[m] > 0
  \/ \E w \in Workers : consumer[w].pc # "idle" /\ consumer[w].msg = m

\* The consumer takes what it works on from the queue.
LEMMA ConsumerInFlight ==
  ASSUME StoreTypeOK, ConsumerTypeOK, ConsumerNext, NEW m \in Results, InFlight(m)'
  PROVE  InFlight(m)
  <1>0. /\ consumer \in [Workers -> [pc : {"idle", "fetched", "job", "document", "done"},
                                     msg : Results \cup {None}, job : JobStates, seen : 0..MaxVersion]]
        /\ results \in [Results -> 0..MaxReceives]
    BY DEF ConsumerTypeOK, StoreTypeOK
  <1>1. ASSUME NEW w \in Workers, NEW n \in Results, ReceiveMessage(w, n) PROVE InFlight(m)
    <2>1. InFlight(n)
      BY <1>1 DEF ReceiveMessage, InFlight
    <2>2. results' = [results EXCEPT ![n] = results[n] - 1]
      BY <1>1 DEF ReceiveMessage
    <2>3. results'[m] > 0 => results[m] > 0
      BY <1>0, <1>1, <2>2 DEF ReceiveMessage
    <2> DEFINE c == [ConsumerIdle EXCEPT !.pc = "fetched", !.msg = n]
    <2>4. c.msg = n
      BY DEF ConsumerIdle
    <2>5. UNCHANGED consumer \/ consumer' = [consumer EXCEPT ![w] = c]
      BY <1>1 DEF ReceiveMessage
    <2> HIDE DEF c
    <2>6. \A u \in Workers : consumer'[u] = consumer[u] \/ consumer'[u].msg = n
      BY <1>0, <2>4, <2>5
    <2> QED BY <2>1, <2>3, <2>6 DEF InFlight
  <1>2. ASSUME NEW w \in Workers, consumer[w].pc # "idle", \A n \in Results : results'[n] > 0 => results[n] > 0,
               \/ ConsumerStops(w)
               \/ \A u \in Workers : \/ consumer'[u] = consumer[u]
                                     \/ u = w /\ consumer'[u].msg = consumer[u].msg
        PROVE  InFlight(m)
    <2>1. \A u \in Workers : \/ consumer'[u].pc = "idle"
                             \/ consumer'[u] = consumer[u]
                             \/ consumer[u].pc # "idle" /\ consumer'[u].msg = consumer[u].msg
      BY <1>0, <1>2 DEF ConsumerStops, ConsumerIdle
    <2> QED BY <1>2, <2>1 DEF InFlight
  <1>3. ASSUME NEW w \in Workers, GetIngestionJob(w) \/ GetDocumentByID(w) \/ ApplyResult(w)
        PROVE  InFlight(m)
    <2>1. /\ consumer[w].pc # "idle" /\ UNCHANGED results
          /\ \/ ConsumerStops(w)
             \/ consumer' = [consumer EXCEPT ![w].pc = "done"]
             \/ consumer' = [consumer EXCEPT ![w].pc = "job", ![w].job = scrapeJob[consumer[w].msg.id]]
             \/ \E seen : consumer' = [consumer EXCEPT ![w].pc = "document", ![w].seen = seen]
      BY <1>3, ResultCases DEF GetIngestionJob, GetDocumentByID, storeVars
    <2> QED BY <1>0, <1>2, <2>1
  <1>4. ASSUME NEW w \in Workers, ConsumerFails(w) \/ DeleteMessageFails(w) PROVE InFlight(m)
    BY <1>2, <1>4 DEF ConsumerFails, DeleteMessageFails
  <1>5. ASSUME NEW w \in Workers, DeleteMessage(w) PROVE InFlight(m)
    <2>1. \A n \in Results : results'[n] > 0 => results[n] > 0
      BY <1>0, <1>5 DEF DeleteMessage
    <2> QED BY <1>2, <1>5, <2>1 DEF DeleteMessage
  <1> QED BY <1>1, <1>3, <1>4, <1>5 DEF ConsumerNext, Poll, ProcessMessage

-----------------------------------------------------------------------------
(* The artifact cleanup.                                                   *)

\* The cleanup leaves the tables and its own state in their types.
LEMMA CleanupTypes ==
  ASSUME StoreTypeOK, CleanerTypeOK, CleanupNext
  PROVE  StoreTypeOK' /\ CleanerTypeOK'
  <1> USE StoreAssumption
  <1>1. faults \in 0..MaxFaults /\ \A d \in Docs : cleanup[d] \in CleanupRow
    BY DEF StoreTypeOK
  <1>2. SUFFICES /\ CleanerTypeOK'
                 /\ cleanup' \in [Docs -> CleanupRow]
                 /\ objects' \subseteq VersionIds
                 /\ faults' \in 0..MaxFaults
                 /\ UNCHANGED <<doc, text, keys, scrapeJob, enrichJob, outbox, inbox, chunks,
                                requests, results>>
    BY DEF StoreTypeOK
  <1>3. ASSUME NEW w \in Workers, NextDocument(w) PROVE CleanerTypeOK'
    BY <1>3 DEF NextDocument, CleanerTypeOK, CleanerIdle
  <1>4. CASE \E w \in Workers : ClaimArtifactCleanupJobs(w)
    <2>1. PICK w \in Workers : ClaimArtifactCleanupJobs(w)
      BY <1>4
    <2>2. PICK batch \in SUBSET {d \in Docs : Cleanable(d)} :
            /\ cleanup' = [d \in Docs |->
                             IF d \in batch THEN ClaimCleanupJob(cleanup[d]) ELSE cleanup[d]]
            /\ cleaner' = [cleaner EXCEPT ![w].batch = batch]
            /\ Fault \/ UNCHANGED faults
      BY <2>1 DEF ClaimArtifactCleanupJobs
    <2>3. \A d \in Docs : cleanup'[d] \in CleanupRow
      BY <1>1, <2>2, CleanupStatements DEF Cleanable
    <2>4. cleanup' \in [Docs -> CleanupRow]
      BY <2>2, <2>3
    <2>5. faults' \in 0..MaxFaults
      BY <1>1, <2>2, FaultCounted
    <2>6. CleanerTypeOK'
      BY <2>2 DEF CleanerTypeOK
    <2> QED BY <2>1, <2>4, <2>5, <2>6 DEF ClaimArtifactCleanupJobs, StoreTypeOK
  <1>5. CASE \E w \in Workers : \E d \in Docs : ListDocumentArtifactKeys(w, d)
    <2>1. PICK w \in Workers, d \in Docs : ListDocumentArtifactKeys(w, d)
      BY <1>5
    <2> DEFINE rest == cleaner[w].batch \ {d}
    <2>2. rest \in SUBSET Docs /\ KeysOf(d) \in SUBSET VersionIds
      BY DEF CleanerTypeOK, StoreTypeOK, KeysOf
    <2>3. cleaner' = [cleaner EXCEPT ![w] = [batch |-> rest, doc |-> d, pc |-> "deleting",
                                             seen |-> KeysOf(d), left |-> KeysOf(d)]]
      BY <2>1 DEF ListDocumentArtifactKeys
    <2> HIDE DEF rest
    <2>4. CleanerTypeOK'
      BY <2>2, <2>3 DEF CleanerTypeOK
    <2> QED BY <2>1, <2>4 DEF ListDocumentArtifactKeys, StoreTypeOK, storeVars
  <1>6. CASE \E w \in Workers : \E j \in VersionIds : DeleteObject(w, j)
    <2>1. PICK w \in Workers, j \in VersionIds : DeleteObject(w, j)
      BY <1>6
    <2>2. CleanerTypeOK'
      BY <2>1 DEF DeleteObject, CleanerTypeOK
    <2> QED BY <2>1, <2>2 DEF DeleteObject, StoreTypeOK
  <1>7. CASE \E w \in Workers : CompleteCleanup(w) \/ FailCleanup(w)
    <2>1. PICK w \in Workers : CompleteCleanup(w) \/ FailCleanup(w)
      BY <1>7
    <2> DEFINE d == cleaner[w].doc
    <2>2. d \in Docs
      BY <2>1 DEF CompleteCleanup, FailCleanup, CleanerTypeOK
    <2>3. /\ CompleteArtifactCleanupJob(cleanup[d]) \in CleanupRow
          /\ FailArtifactCleanupJob(cleanup[d]) \in CleanupRow
      BY <1>1, <2>2, CleanupStatements
    <2>4. /\ \/ cleanup' = [cleanup EXCEPT ![d] = CompleteArtifactCleanupJob(cleanup[d])]
             \/ cleanup' = [cleanup EXCEPT ![d] = FailArtifactCleanupJob(cleanup[d])]
          /\ \/ NextDocument(w)
             \/ cleaner' = [cleaner EXCEPT ![w].pc = "failed"]
          /\ UNCHANGED <<doc, text, keys, scrapeJob, enrichJob, outbox, inbox, chunks,
                         requests, results, objects, faults>>
      BY <2>1 DEF CompleteCleanup, FailCleanup
    <2>5. CleanerTypeOK'
      BY <1>3, <2>2, <2>4 DEF CleanerTypeOK
    <2> HIDE DEF d
    <2>6. cleanup' \in [Docs -> CleanupRow]
      BY <2>2, <2>3, <2>4 DEF StoreTypeOK
    <2> QED BY <1>1, <2>4, <2>5, <2>6 DEF StoreTypeOK
  <1>8. CASE \E w \in Workers : CleanupFails(w)
    <2>1. PICK w \in Workers : CleanupFails(w)
      BY <1>8
    <2>2. CleanerTypeOK' /\ cleaner[w].doc \in Docs /\ cleaner[w].left \subseteq VersionIds
      BY <2>1 DEF CleanupFails, CleanerTypeOK
    <2>3. CompleteArtifactCleanupJob(cleanup[cleaner[w].doc]) \in CleanupRow
      BY <1>1, <2>2, CleanupStatements
    <2>4. cleanup' \in [Docs -> CleanupRow] /\ objects' \subseteq VersionIds
      BY <2>1, <2>2, <2>3 DEF CleanupFails, StoreTypeOK
    <2> QED BY <1>1, <2>1, <2>2, <2>4, FaultCounted DEF CleanupFails
  <1>9. CASE \E w \in Workers : FailCleanupFails(w)
    <2>1. PICK w \in Workers : FailCleanupFails(w)
      BY <1>9
    <2>2. CleanerTypeOK'
      BY <2>1 DEF FailCleanupFails, CleanerTypeOK, CleanerIdle
    <2> QED BY <1>1, <2>1, <2>2, FaultCounted DEF FailCleanupFails, StoreTypeOK
  <1> QED BY <1>4, <1>5, <1>6, <1>7, <1>8, <1>9 DEF CleanupNext, CleanBatch

\* The cleanup touches no table but its own, and makes or unmakes no job there.
LEMMA CleanupRows ==
  ASSUME StoreTypeOK, CleanerTypeOK, CleanupNext
  PROVE  /\ UNCHANGED <<doc, text, keys, scrapeJob, enrichJob, outbox, inbox, chunks, requests, results>>
         /\ \A d \in Docs : cleanup'[d].state # "NONE" <=> cleanup[d].state # "NONE"
  <1>1. UNCHANGED <<doc, text, keys, scrapeJob, enrichJob, outbox, inbox, chunks, requests, results>>
    BY DEF CleanupNext, CleanBatch, ClaimArtifactCleanupJobs, ListDocumentArtifactKeys, DeleteObject,
       CompleteCleanup, FailCleanup, CleanupFails, FailCleanupFails, storeVars
  <1>2. ASSUME NEW d \in Docs
        PROVE  \/ cleanup'[d] = cleanup[d]
               \/ cleanup[d].state # "NONE" /\ cleanup'[d] = ClaimCleanupJob(cleanup[d])
               \/ cleanup'[d] = CompleteArtifactCleanupJob(cleanup[d])
               \/ cleanup'[d] = FailArtifactCleanupJob(cleanup[d])
    BY DEF StoreTypeOK, CleanupNext, CleanBatch, ClaimArtifactCleanupJobs, ListDocumentArtifactKeys,
       DeleteObject, CompleteCleanup, FailCleanup, CleanupFails, FailCleanupFails, storeVars, Cleanable
  <1>3. ASSUME NEW d \in Docs PROVE cleanup'[d].state # "NONE" <=> cleanup[d].state # "NONE"
    <2> DEFINE row == cleanup[d]
    <2>1. /\ ClaimCleanupJob(row).state # "NONE"
          /\ CompleteArtifactCleanupJob(row).state # "NONE" <=> row.state # "NONE"
          /\ FailArtifactCleanupJob(row).state # "NONE" <=> row.state # "NONE"
      <3>1. row \in CleanupRow
        BY DEF StoreTypeOK
      <3> HIDE DEF row
      <3> QED BY <3>1 DEF CleanupRow, ClaimCleanupJob, CompleteArtifactCleanupJob, FailArtifactCleanupJob
    <2> QED BY <1>2, <2>1
  <1> QED BY <1>1, <1>3

-----------------------------------------------------------------------------
(* What a process has read stays true in the way its decisions need.       *)

\* Nothing is recorded for a version before the version is there.
NothingEarly ==
  /\ \A j \in VersionIds : scrapeJob[j] # "NONE" => j[2] <= doc[j[1]].cur
  /\ \A j \in keys : j[2] <= doc[j[1]].cur

\* Only deleted documents have a cleanup job, and only created ones are deleted.
CleanupOfDeleted ==
  /\ \A d \in Docs : cleanup[d].state # "NONE" => doc[d].deleted
  /\ \A d \in Docs : doc[d].deleted => doc[d].cur > 0

\* A result that is past the read of its job is of a version that was created.  A
\* document that was not found is deleted for good, and one that was found at another
\* version has moved beyond the one of the result.
ReadHolds(c, row) ==
  /\ c.pc \in {"job", "document"} => c.msg.id[2] <= row.cur
  /\ c.pc = "document" /\ c.seen = 0 => row.deleted
  /\ c.pc = "document" /\ c.seen # 0 => c.msg.id[2] <= c.seen /\ c.seen <= row.cur

ReadsHold == \A w \in Workers : ReadHolds(consumer[w], doc[consumer[w].msg.id[1]])

ReadInv == NothingEarly /\ CleanupOfDeleted /\ ReadsHold

\* A version that the document was not read at is not its current one, and a document
\* that was not found is deleted.
LEMMA NotCurrentStays ==
  ASSUME NEW c, NEW row \in DocRow, c.msg.id[2] \in Versions, c.seen \in 0..MaxVersion,
         c.pc = "document", ReadHolds(c, row), ~Current(c)
  PROVE  /\ ~IsCurrent(row, c.msg.id[2])
         /\ IF Found(c) THEN row.cur # c.msg.id[2] ELSE row.deleted
  BY StoreAssumption DEF ReadHolds, Found, Current, IsCurrent, DocRow

\* A step under which documents keep their version and are not brought back, and that
\* records nothing early, keeps what the processes have read.
LEMMA ReadsCarried ==
  ASSUME ReadInv, StoreTypeOK, ConsumerTypeOK,
         \A d \in Docs : doc'[d].cur = doc[d].cur /\ doc'[d].deleted = doc[d].deleted,
         keys' \subseteq keys,
         \A j \in VersionIds : scrapeJob'[j] # "NONE" => scrapeJob[j] # "NONE",
         \A d \in Docs : cleanup'[d].state # "NONE" => cleanup[d].state # "NONE",
         \A w \in Workers : consumer'[w] = consumer[w] \/ consumer'[w].pc \in {"idle", "fetched", "done"}
  PROVE  ReadInv'
  <1>1. NothingEarly'
    <2>1. \A j \in VersionIds : doc'[j[1]].cur = doc[j[1]].cur
      OBVIOUS
    <2>2. \A j \in keys' : j \in VersionIds /\ j \in keys
      BY DEF StoreTypeOK
    <2> QED BY <2>1, <2>2 DEF ReadInv, NothingEarly
  <1>2. CleanupOfDeleted'
    BY DEF ReadInv, CleanupOfDeleted
  <1>3. ASSUME NEW w \in Workers PROVE ReadHolds(consumer'[w], doc'[consumer'[w].msg.id[1]])
    <2>1. CASE consumer'[w].pc \in {"idle", "fetched", "done"}
      BY <2>1 DEF ReadHolds
    <2>2. CASE consumer'[w] = consumer[w] /\ consumer[w].pc = "idle"
      BY <2>2 DEF ReadHolds
    <2>3. CASE consumer'[w] = consumer[w] /\ consumer[w].pc # "idle"
      <3>1. consumer[w].msg.id[1] \in Docs
        BY <2>3 DEF ConsumerTypeOK, Results
      <3>2. ReadHolds(consumer[w], doc[consumer[w].msg.id[1]])
        BY DEF ReadInv, ReadsHold
      <3> QED BY <2>3, <3>1, <3>2 DEF ReadHolds
    <2> QED BY <2>1, <2>2, <2>3
  <1> QED BY <1>1, <1>2, <1>3 DEF ReadInv, ReadsHold

\* A write of the API keeps what the processes have read: versions only grow, and a
\* deleted document gets no new one.
LEMMA WriteReads ==
  ASSUME ReadInv, StoreTypeOK, ConsumerTypeOK, UNCHANGED consumer,
         NEW d \in Docs, Writes(d)
  PROVE  ReadInv'
  <1>0. doc \in [Docs -> DocRow] /\ scrapeJob \in [VersionIds -> JobStates] /\ keys \subseteq VersionIds
        /\ cleanup \in [Docs -> CleanupRow]
    BY DEF StoreTypeOK
  <1>1. ASSUME NEW row \in DocRow, row.cur >= doc[d].cur, doc[d].deleted => row.deleted,
               doc' = [doc EXCEPT ![d] = row]
        PROVE  ReadsHold'
    <2>1. SUFFICES ASSUME NEW w \in Workers PROVE ReadHolds(consumer[w], doc'[consumer[w].msg.id[1]])
      BY DEF ReadsHold
    <2> DEFINE c == consumer[w]
    <2>2. CASE c.pc = "idle"
      BY <2>2 DEF ReadHolds
    <2>3. CASE c.pc # "idle"
      <3>1. c.msg.id[1] \in Docs /\ c.msg.id[2] \in Versions /\ c.seen \in 0..MaxVersion
        BY <2>3 DEF ConsumerTypeOK, Results
      <3>2. ReadHolds(c, doc[c.msg.id[1]])
        BY DEF ReadInv, ReadsHold
      <3>3. /\ doc'[c.msg.id[1]].cur >= doc[c.msg.id[1]].cur
            /\ doc[c.msg.id[1]].deleted => doc'[c.msg.id[1]].deleted
            /\ doc[c.msg.id[1]].cur \in 0..MaxVersion /\ doc'[c.msg.id[1]].cur \in 0..MaxVersion
        BY <1>0, <1>1, <3>1 DEF DocRow
      <3> HIDE DEF c
      <3>4. ReadHolds(c, doc'[c.msg.id[1]])
        BY <3>1, <3>2, <3>3 DEF ReadHolds
      <3> QED BY <3>4 DEF c
    <2> QED BY <2>2, <2>3
  <1>2. ASSUME NEW row \in DocRow, Fresh(d, row), CreateVersionAndJob(d, row) PROVE ReadInv'
    <2>1. /\ row.cur = doc[d].cur + 1 /\ doc[d].cur \in 0..MaxVersion /\ ~doc[d].deleted
          /\ row.cur \in Versions /\ ~row.deleted
      BY <1>0, <1>2 DEF Fresh, Live, ReadInv, CleanupOfDeleted, DocRow
    <2>2. /\ doc' = [doc EXCEPT ![d] = row]
          /\ \/ scrapeJob' = scrapeJob
             \/ scrapeJob' = [scrapeJob EXCEPT ![<<d, row.cur>>] = CreateIngestionJob(@)]
          /\ UNCHANGED <<keys, cleanup>>
      BY <1>2 DEF CreateVersionAndJob
    <2>3. ReadsHold'
      <3>1. row.cur >= doc[d].cur
        BY <2>1
      <3> QED BY <1>1, <2>1, <2>2, <3>1
    <2>4. NothingEarly'
      <3>1. ASSUME NEW j \in VersionIds, scrapeJob'[j] # "NONE" PROVE j[2] <= doc'[j[1]].cur
        <4>1. CASE j = <<d, row.cur>>
          BY <1>0, <2>1, <2>2, <4>1
        <4>2. CASE j # <<d, row.cur>>
          <5>1. scrapeJob[j] # "NONE"
            BY <1>0, <2>2, <3>1, <4>2
          <5>2. j[2] <= doc[j[1]].cur /\ j[1] \in Docs /\ j[2] \in Versions
            BY <5>1 DEF ReadInv, NothingEarly
          <5>3. doc'[j[1]].cur >= doc[j[1]].cur /\ doc[j[1]].cur \in 0..MaxVersion
                /\ doc'[j[1]].cur \in 0..MaxVersion
            BY <1>0, <2>1, <2>2, <5>2 DEF DocRow
          <5> QED BY <5>2, <5>3
        <4> QED BY <4>1, <4>2
      <3>2. ASSUME NEW j \in keys PROVE j[2] <= doc'[j[1]].cur
        <4>1. j[2] <= doc[j[1]].cur /\ j[1] \in Docs /\ j[2] \in Versions
          BY <1>0 DEF ReadInv, NothingEarly
        <4>2. doc'[j[1]].cur >= doc[j[1]].cur /\ doc[j[1]].cur \in 0..MaxVersion
              /\ doc'[j[1]].cur \in 0..MaxVersion
          BY <1>0, <2>1, <2>2, <4>1 DEF DocRow
        <4> QED BY <4>1, <4>2
      <3> QED BY <2>2, <3>1, <3>2 DEF NothingEarly
    <2>5. CleanupOfDeleted'
      BY <1>0, <2>1, <2>2 DEF ReadInv, CleanupOfDeleted
    <2> QED BY <2>3, <2>4, <2>5 DEF ReadInv
  <1>3. CASE Delete(d)
    <2>1. /\ SoftDeleteDocument(doc[d]) \in DocRow
          /\ SoftDeleteDocument(doc[d]).cur = doc[d].cur
          /\ SoftDeleteDocument(doc[d]).deleted
          /\ doc[d].cur > 0 /\ doc[d].cur \in 0..MaxVersion
      BY <1>0, <1>3, StoreAssumption DEF Delete, Live, SoftDeleteDocument, DocRow
    <2>2. /\ doc' = [doc EXCEPT ![d] = SoftDeleteDocument(doc[d])]
          /\ cleanup' = [cleanup EXCEPT ![d] = CreateArtifactCleanupJob(cleanup[d])]
          /\ UNCHANGED <<keys, scrapeJob>>
      BY <1>3 DEF Delete
    <2>3. ReadsHold'
      <3> DEFINE row == SoftDeleteDocument(doc[d])
      <3>1. row \in DocRow /\ row.cur >= doc[d].cur /\ row.deleted /\ doc' = [doc EXCEPT ![d] = row]
        BY <2>1, <2>2
      <3> HIDE DEF row
      <3> QED BY <1>1, <3>1
    <2>4. \A e \in Docs : doc'[e].cur = doc[e].cur
      BY <1>0, <2>1, <2>2
    <2>5. NothingEarly'
      BY <1>0, <2>2, <2>4 DEF ReadInv, NothingEarly
    <2>6. CleanupOfDeleted'
      BY <1>0, <2>1, <2>2 DEF ReadInv, CleanupOfDeleted
    <2> QED BY <2>3, <2>5, <2>6 DEF ReadInv
  <1> QED BY <1>2, <1>3, WriteCases

\* The cleanup keeps what the consumers have read.
LEMMA CleanupReads ==
  ASSUME ReadInv, StoreTypeOK, ConsumerTypeOK, CleanerTypeOK, UNCHANGED consumer, CleanupNext
  PROVE  ReadInv'
  BY CleanupRows, ReadsCarried

\* The consumer's own steps keep what it has read, and what other consumers have.
LEMMA ConsumerReads ==
  ASSUME ReadInv, StoreTypeOK, ConsumerTypeOK, ConsumerNext
  PROVE  ReadInv'
  <1> USE ConsumerRows
  <1>0. /\ consumer \in [Workers -> [pc : {"idle", "fetched", "job", "document", "done"},
                                     msg : Results \cup {None}, job : JobStates, seen : 0..MaxVersion]]
        /\ doc \in [Docs -> DocRow]
    BY DEF ConsumerTypeOK, StoreTypeOK
  <1>1. ASSUME UNCHANGED keys,
               \A u \in Workers : consumer'[u] = consumer[u] \/ consumer'[u].pc \in {"idle", "fetched", "done"}
        PROVE  ReadInv'
    BY <1>1, ReadsCarried
  <1>2. ASSUME NEW w \in Workers, NEW m \in Results, ReceiveMessage(w, m) PROVE ReadInv'
    <2>1. CASE UNCHANGED consumer
      BY <1>2, <2>1, ReadsCarried DEF ReceiveMessage
    <2>2. CASE consumer' = [consumer EXCEPT ![w] = [ConsumerIdle EXCEPT !.pc = "fetched", !.msg = m]]
      <3> DEFINE c == [ConsumerIdle EXCEPT !.pc = "fetched", !.msg = m]
      <3>1. c.pc = "fetched" /\ consumer' = [consumer EXCEPT ![w] = c] /\ UNCHANGED keys
        BY <1>2, <2>2 DEF ReceiveMessage, ConsumerIdle
      <3> HIDE DEF c
      <3> QED BY <1>0, <1>1, <3>1
    <2> QED BY <1>2, <2>1, <2>2 DEF ReceiveMessage
  <1>3. ASSUME NEW w \in Workers, ConsumerStops(w), UNCHANGED keys PROVE ReadInv'
    <2>1. ConsumerIdle.pc = "idle" /\ consumer' = [consumer EXCEPT ![w] = ConsumerIdle]
      BY <1>3 DEF ConsumerStops, ConsumerIdle
    <2> QED BY <1>0, <1>1, <1>3, <2>1
  \* A read: nothing but the state of the reader changes.
  <1>4. ASSUME NEW w \in Workers, UNCHANGED storeVars, NEW c, consumer' = [consumer EXCEPT ![w] = c],
               ReadHolds(c, doc[c.msg.id[1]])
        PROVE  ReadInv'
    <2>1. NothingEarly' /\ CleanupOfDeleted'
      BY <1>4 DEF ReadInv, NothingEarly, CleanupOfDeleted, storeVars
    <2>2. ReadsHold'
      <3>1. SUFFICES ASSUME NEW u \in Workers PROVE ReadHolds(consumer'[u], doc[consumer'[u].msg.id[1]])
        BY <1>4 DEF ReadsHold, storeVars
      <3> QED BY <1>0, <1>4 DEF ReadInv, ReadsHold
    <2> QED BY <2>1, <2>2 DEF ReadInv
  <1>5. ASSUME NEW w \in Workers, GetIngestionJob(w) PROVE ReadInv'
    <2> DEFINE c == [consumer[w] EXCEPT !.pc = "job", !.job = scrapeJob[consumer[w].msg.id]]
    <2>1. CASE ConsumerStops(w)
      BY <1>3, <1>5, <2>1 DEF GetIngestionJob, storeVars
    <2>2. CASE scrapeJob[consumer[w].msg.id] # "NONE" /\ consumer' = [consumer EXCEPT ![w] = c]
      <3>1. consumer[w].msg.id \in VersionIds
        BY <1>5 DEF GetIngestionJob, ConsumerTypeOK, Results
      <3>2. consumer[w].msg.id[2] <= doc[consumer[w].msg.id[1]].cur
        BY <2>2, <3>1 DEF ReadInv, NothingEarly
      <3>3. c.pc = "job" /\ c.msg = consumer[w].msg
        BY <1>0
      <3>4. ReadHolds(c, doc[c.msg.id[1]])
        BY <3>2, <3>3 DEF ReadHolds
      <3> HIDE DEF c
      <3> QED BY <1>4, <1>5, <2>2, <3>4 DEF GetIngestionJob
    <2>3. consumer' = [consumer EXCEPT ![w] = c] \/ ConsumerStops(w)
      BY <1>0, <1>5 DEF GetIngestionJob
    <2>4. scrapeJob[consumer[w].msg.id] # "NONE" \/ ConsumerStops(w)
      BY <1>5 DEF GetIngestionJob
    <2> QED BY <2>1, <2>2, <2>3, <2>4
  <1>6. ASSUME NEW w \in Workers, GetDocumentByID(w) PROVE ReadInv'
    <2> DEFINE row == doc[consumer[w].msg.id[1]]
               seen == IF Live(row) THEN row.cur ELSE 0
               c == [consumer[w] EXCEPT !.pc = "document", !.seen = seen]
    <2>1. consumer[w].msg.id[1] \in Docs /\ consumer[w].msg.id[2] \in Versions
      BY <1>6 DEF GetDocumentByID, ConsumerTypeOK, Results
    <2>2. row \in DocRow /\ consumer[w].msg.id[2] <= row.cur
      BY <1>0, <1>6, <2>1 DEF GetDocumentByID, ReadInv, ReadsHold, ReadHolds
    <2>3. c.pc = "document" /\ c.msg = consumer[w].msg /\ c.seen = seen
      BY <1>0
    <2>4. /\ seen = 0 => row.deleted
          /\ seen # 0 => seen = row.cur
      BY <2>1, <2>2 DEF Live, DocRow
    <2>5. consumer[w].msg.id[2] <= row.cur /\ row.cur <= row.cur
      BY <2>2 DEF DocRow
    <2>6. consumer' = [consumer EXCEPT ![w] = c]
      BY <1>0, <1>6 DEF GetDocumentByID
    <2> HIDE DEF row, seen
    <2>7. ReadHolds(c, row)
      BY <2>3, <2>4, <2>5 DEF ReadHolds
    <2>8. ReadHolds(c, doc[c.msg.id[1]])
      BY <2>3, <2>7 DEF row
    <2> HIDE DEF c
    <2> QED BY <1>4, <1>6, <2>6, <2>8 DEF GetDocumentByID
  <1>7. ASSUME NEW w \in Workers, ApplyResult(w) PROVE ReadInv'
    <2> DEFINE j == consumer[w].msg.id
    <2>1. /\ j \in VersionIds /\ j[1] \in Docs /\ j[2] \in Versions
          /\ ConsumerStops(w) \/ consumer' = [consumer EXCEPT ![w].pc = "done"]
          /\ keys' = keys \/ keys' = keys \cup {j}
      BY <1>7, ResultCases
         DEF Results, CommitsNothing, CommitsFailure, CommitsSuccess, ApplyFailed, ApplyCompleted
    <2>2. j[2] <= doc[j[1]].cur
      BY <1>7, ResultCases DEF ReadInv, ReadsHold, ReadHolds
    <2>3. \A u \in Workers : consumer'[u] = consumer[u] \/ consumer'[u].pc \in {"idle", "fetched", "done"}
      BY <1>0, <2>1 DEF ConsumerStops, ConsumerIdle
    <2> HIDE DEF j
    <2>4. CASE keys' = keys
      BY <2>3, <2>4, ReadsCarried
    <2>5. CASE keys' = keys \cup {j}
      <3>1. NothingEarly'
        <4>1. \A i \in VersionIds : doc'[i[1]].cur = doc[i[1]].cur
          OBVIOUS
        <4>2. \A i \in keys' : i \in VersionIds /\ i[2] <= doc[i[1]].cur
          BY <2>1, <2>2, <2>5 DEF StoreTypeOK, ReadInv, NothingEarly
        <4> QED BY <4>1, <4>2 DEF ReadInv, NothingEarly
      <3>2. CleanupOfDeleted'
        BY DEF ReadInv, CleanupOfDeleted
      <3>3. ASSUME NEW u \in Workers PROVE ReadHolds(consumer'[u], doc'[consumer'[u].msg.id[1]])
        <4>1. CASE consumer'[u].pc \in {"idle", "fetched", "done"}
          BY <4>1 DEF ReadHolds
        <4>2. CASE consumer'[u] = consumer[u] /\ consumer[u].pc = "idle"
          BY <4>2 DEF ReadHolds
        <4>3. CASE consumer'[u] = consumer[u] /\ consumer[u].pc # "idle"
          <5>1. consumer[u].msg.id[1] \in Docs
            BY <4>3 DEF ConsumerTypeOK, Results
          <5> QED BY <4>3, <5>1 DEF ReadInv, ReadsHold, ReadHolds
        <4> QED BY <2>3, <4>1, <4>2, <4>3
      <3> QED BY <3>1, <3>2, <3>3 DEF ReadInv, ReadsHold
    <2> QED BY <2>1, <2>4, <2>5
  <1>8. ASSUME NEW w \in Workers, ConsumerFails(w) \/ DeleteMessage(w) \/ DeleteMessageFails(w)
        PROVE  ReadInv'
    BY <1>3, <1>8 DEF ConsumerFails, DeleteMessage, DeleteMessageFails
  <1> QED BY <1>2, <1>5, <1>6, <1>7, <1>8 DEF ConsumerNext, Poll, ProcessMessage

-----------------------------------------------------------------------------
(* Deleted documents.                                                      *)

\* What the cleanup works on is deleted.
CleansDeleted ==
  \A w \in Workers, d \in Docs :
    d \in cleaner[w].batch \cup {cleaner[w].doc} => doc[d].deleted

\* A deleted document has been created.
DeletedCreated == \A d \in Docs : doc[d].deleted => doc[d].cur > 0

\* The writes of the API leave a deleted document with its version and its cleanup job.
LEMMA WriteDeleted ==
  ASSUME StoreTypeOK, DeletedCreated, NEW d \in Docs, Writes(d)
  PROVE  /\ UNCHANGED keys
         /\ DeletedCreated'
         /\ \A e \in Docs : doc[e].deleted => doc'[e] = doc[e] /\ cleanup'[e] = cleanup[e]
  <1>0. doc \in [Docs -> DocRow] /\ cleanup \in [Docs -> CleanupRow]
    BY DEF StoreTypeOK
  <1>1. ASSUME NEW row \in DocRow, Fresh(d, row), CreateVersionAndJob(d, row)
        PROVE  /\ UNCHANGED keys
               /\ DeletedCreated'
               /\ \A e \in Docs : doc[e].deleted => doc'[e] = doc[e] /\ cleanup'[e] = cleanup[e]
    <2>1. /\ doc' = [doc EXCEPT ![d] = row] /\ UNCHANGED <<keys, cleanup>>
          /\ ~row.deleted
          /\ doc[d].cur = 0 \/ ~doc[d].deleted
      BY <1>1 DEF CreateVersionAndJob, Fresh, Live
    <2>2. ~doc[d].deleted
      BY <1>0, <2>1 DEF DeletedCreated, DocRow
    <2> QED BY <1>0, <2>1, <2>2 DEF DeletedCreated
  <1>2. CASE Delete(d)
    <2>1. /\ doc' = [doc EXCEPT ![d] = SoftDeleteDocument(doc[d])]
          /\ cleanup' = [cleanup EXCEPT ![d] = CreateArtifactCleanupJob(cleanup[d])]
          /\ UNCHANGED keys
          /\ ~doc[d].deleted /\ doc[d].cur > 0
      BY <1>2 DEF Delete, Live
    <2>2. SoftDeleteDocument(doc[d]).cur > 0
      BY <1>0, <2>1 DEF SoftDeleteDocument, DocRow
    <2> QED BY <1>0, <2>1, <2>2 DEF DeletedCreated
  <1> QED BY <1>1, <1>2, WriteCases

\* A result leaves the cleanup job of a deleted document or requeues it, and it requeues
\* it when it brings the keys of the current version.
LEMMA ResultOfDeleted ==
  ASSUME StoreTypeOK, ConsumerTypeOK, ReadInv, NEW w \in Workers, ApplyResult(w),
         NEW d \in Docs, doc[d].deleted
  PROVE  /\ cleanup'[d] = cleanup[d] \/ cleanup'[d] = [state |-> "QUEUED", attempts |-> 0]
         /\ <<d, doc[d].cur>> \in keys' \ keys => cleanup'[d].state = "QUEUED"
  <1> DEFINE c == consumer[w]
             j == c.msg.id
  <1>1. /\ c.pc = "document" /\ c.msg \in Results
        /\ CommitsNothing(c) \/ CommitsFailure(c) \/ CommitsSuccess(c)
        /\ doc \in [Docs -> DocRow] /\ cleanup \in [Docs -> CleanupRow]
    BY ResultCases DEF StoreTypeOK
  <1>2. /\ j \in VersionIds /\ j[1] \in Docs /\ j[2] \in Versions /\ c.seen \in 0..MaxVersion
        /\ j = <<j[1], j[2]>> /\ ReadHolds(c, doc[j[1]])
    BY <1>1 DEF Results, ConsumerTypeOK, ReadInv, ReadsHold
  <1>3. CASE CommitsNothing(c) \/ CommitsFailure(c)
    BY <1>3 DEF CommitsNothing, CommitsFailure, ApplyFailed
  <1>4. CASE CommitsSuccess(c)
    <2>1. /\ cleanup' = [cleanup EXCEPT ![j[1]] =
                           IF Found(c) THEN cleanup[j[1]] ELSE RequeueArtifactCleanupJob(cleanup[j[1]])]
          /\ keys' = keys \cup {j}
          /\ Current(c) => IsCurrent(doc[j[1]], j[2])
          /\ ~Found(c) => cleanup[j[1]].state # "NONE"
      BY <1>4 DEF CommitsSuccess, ApplyCompleted, CanApplyCompleted
    <2>2. ~Found(c) => RequeueArtifactCleanupJob(cleanup[j[1]]) = [state |-> "QUEUED", attempts |-> 0]
      BY <2>1 DEF RequeueArtifactCleanupJob
    <2>3. Found(c) /\ doc[j[1]].deleted => doc[j[1]].cur # j[2]
      BY <1>1, <1>2, <2>1, NotCurrentStays DEF IsCurrent
    <2> HIDE DEF c, j
    <2>4. CASE d # j[1]
      BY <1>1, <2>1, <2>4
    <2>5. CASE d = j[1] /\ Found(c)
      BY <1>1, <1>2, <2>1, <2>3, <2>5
    <2>6. CASE d = j[1] /\ ~Found(c)
      BY <1>1, <2>1, <2>2, <2>6
    <2> QED BY <2>4, <2>5, <2>6
  <1> QED BY <1>1, <1>3, <1>4

\* Other steps of the consumer leave cleanup jobs, keys and documents alone.
LEMMA ConsumerOther ==
  ASSUME ConsumerNext
  PROVE  UNCHANGED <<doc, keys, inbox, cleanup>> \/ \E w \in Workers : ApplyResult(w)
  BY DEF ConsumerNext, Poll, ProcessMessage, ReceiveMessage, GetIngestionJob,
     GetDocumentByID, ConsumerFails, DeleteMessage, DeleteMessageFails, storeVars

\* What a cleanup works on next was in its batch, or had a job to claim.
LEMMA CleanupDeleted ==
  ASSUME StoreTypeOK, CleanerTypeOK, CleansDeleted, CleanupOfDeleted, CleanupNext
  PROVE  CleansDeleted'
  <1>0. /\ \A w \in Workers, d \in Docs : d \in cleaner[w].batch \cup {cleaner[w].doc} => doc[d].deleted
        /\ UNCHANGED doc
        /\ cleaner \in [Workers -> [batch : SUBSET Docs, doc : Docs \cup {None},
                                    pc : {"idle", "deleting", "failed"},
                                    seen : SUBSET VersionIds, left : SUBSET VersionIds]]
    BY CleanupRows DEF CleansDeleted, CleanerTypeOK
  <1>1. SUFFICES ASSUME NEW w \in Workers
                 PROVE  \A d \in Docs : d \in cleaner'[w].batch \cup {cleaner'[w].doc} => doc[d].deleted
    BY <1>0 DEF CleansDeleted
  <1>2. CASE \A d \in Docs : d \in cleaner'[w].batch \cup {cleaner'[w].doc}
                              => d \in cleaner[w].batch \cup {cleaner[w].doc}
    BY <1>0, <1>2
  <1>3. ASSUME NEW u \in Workers, ClaimArtifactCleanupJobs(u)
        PROVE  \A d \in Docs : d \in cleaner'[w].batch \cup {cleaner'[w].doc} => doc[d].deleted
    <2>1. PICK batch \in SUBSET {d \in Docs : Cleanable(d)} :
            cleaner' = [cleaner EXCEPT ![u].batch = batch]
      BY <1>3 DEF ClaimArtifactCleanupJobs
    <2>2. \A d \in batch : doc[d].deleted
      BY <2>1 DEF Cleanable, CleanupOfDeleted
    <2>3. cleaner'[w].doc = cleaner[w].doc /\ cleaner'[w].batch \in {cleaner[w].batch, batch}
      BY <1>0, <2>1
    <2> QED BY <1>0, <2>2, <2>3
  <1>4. ASSUME NEW u \in Workers, NEW d \in Docs, ListDocumentArtifactKeys(u, d)
        PROVE  \A e \in Docs : e \in cleaner'[w].batch \cup {cleaner'[w].doc}
                              => e \in cleaner[w].batch \cup {cleaner[w].doc}
    <2> DEFINE c == [batch |-> cleaner[u].batch \ {d}, doc |-> d, pc |-> "deleting",
                     seen |-> KeysOf(d), left |-> KeysOf(d)]
    <2>1. /\ cleaner' = [cleaner EXCEPT ![u] = c] /\ d \in cleaner[u].batch
          /\ c.batch \subseteq cleaner[u].batch /\ c.doc = d
      BY <1>4 DEF ListDocumentArtifactKeys
    <2> HIDE DEF c
    <2> QED BY <1>0, <2>1
  <1>5. ASSUME NEW u \in Workers, NextDocument(u) \/ FailCleanupFails(u)
        PROVE  \A d \in Docs : d \in cleaner'[w].batch \cup {cleaner'[w].doc}
                              => d \in cleaner[w].batch \cup {cleaner[w].doc}
    <2> DEFINE next == [CleanerIdle EXCEPT !.batch = cleaner[u].batch]
    <2>1. /\ next.doc = None /\ next.batch = cleaner[u].batch
          /\ CleanerIdle.doc = None /\ CleanerIdle.batch = {}
          /\ \/ cleaner' = [cleaner EXCEPT ![u] = next]
             \/ cleaner' = [cleaner EXCEPT ![u] = CleanerIdle]
      BY <1>5 DEF NextDocument, FailCleanupFails, CleanerIdle
    <2> HIDE DEF next
    <2> QED BY <1>0, <2>1, StoreAssumption
  <1>6. ASSUME NEW u \in Workers, (\E j \in VersionIds : DeleteObject(u, j)) \/ CleanupFails(u)
                                  \/ cleaner' = [cleaner EXCEPT ![u].pc = "failed"]
        PROVE  \A d \in Docs : d \in cleaner'[w].batch \cup {cleaner'[w].doc}
                              => d \in cleaner[w].batch \cup {cleaner[w].doc}
    <2>1. cleaner'[w].batch = cleaner[w].batch /\ cleaner'[w].doc = cleaner[w].doc
      BY <1>0, <1>6 DEF DeleteObject, CleanupFails
    <2> QED BY <2>1
  <1>7. ASSUME NEW u \in Workers, CompleteCleanup(u) \/ FailCleanup(u)
        PROVE  NextDocument(u) \/ cleaner' = [cleaner EXCEPT ![u].pc = "failed"]
    BY <1>7 DEF CompleteCleanup, FailCleanup
  <1> QED BY <1>2, <1>3, <1>4, <1>5, <1>6, <1>7 DEF CleanupNext, CleanBatch
=============================================================================
