---------------------------- MODULE ServedProofs ----------------------------
(***************************************************************************)
(* What a COMPLETED document serves, for every number of documents,        *)
(* workers, versions, attempts and faults: ServedIsCurrent and              *)
(* EnrichesOwnText as theorems of Ingestion.                                *)
(*                                                                         *)
(* Neither is inductive.  A commit of the enrichment processor writes the   *)
(* text that the process read some steps before, so the invariant says what *)
(* a process may hold meanwhile.                                            *)
(***************************************************************************)
EXTENDS IngestionProofs

USE DEF Versions, VersionIds, Texts

\* A process works only on jobs that exist, and holds the own text of the version it
\* is about to commit.
EnricherHoldsOwnText ==
  \A w \in Workers :
    /\ \A j \in enricher[w].batch : enrichJob[j].state # "NONE"
    /\ enricher[w].pc = "ready" => enricher[w].text = enricher[w].job[2]

CompletedExists ==
  \A d \in Docs : doc[d].status = "COMPLETED" => doc[d].cur > 0

ServedInv ==
  /\ ServedIsCurrent
  /\ EnrichesOwnText
  /\ EnricherHoldsOwnText
  /\ CompletedExists

\* No document is served, and no ENRICH job exists, in the empty store.
LEMMA InitServedInv == Init => ServedInv
  BY DEF Init, StoreInit, EnricherInit, EnricherIdle, ServedInv, ServedIsCurrent,
         EnrichesOwnText, EnricherHoldsOwnText, CompletedExists

-----------------------------------------------------------------------------
\* A step that leaves content and versions alone, completes no document and creates
\* no ENRICH job.
LEMMA StatusStep ==
  ASSUME ServedInv, TypeInv, UNCHANGED <<text, chunks>>,
         \A d \in Docs : /\ doc'[d].cur = doc[d].cur
                         /\ doc'[d].shown = doc[d].shown
                         /\ doc'[d].status = "COMPLETED" => doc[d].status = "COMPLETED",
         \A j \in VersionIds : enrichJob'[j].state # "NONE" <=> enrichJob[j].state # "NONE",
         EnricherHoldsOwnText'
  PROVE  ServedInv'
  <1>1. ServedIsCurrent'
    BY DEF ServedInv, ServedIsCurrent, CurrentId
  <1>2. EnrichesOwnText'
    <2>1. ASSUME NEW j \in VersionIds, enrichJob'[j].state # "NONE"
          PROVE  text'[j] = j[2] /\ (doc'[j[1]].cur = j[2] => doc'[j[1]].shown = j[2])
      <3>1. enrichJob[j].state # "NONE" /\ j[1] \in Docs
        BY <2>1
      <3>2. text[j] = j[2] /\ (doc[j[1]].cur = j[2] => doc[j[1]].shown = j[2])
        BY <3>1 DEF ServedInv, EnrichesOwnText
      <3> QED BY <3>1, <3>2
    <2> QED BY <2>1 DEF EnrichesOwnText
  <1>3. CompletedExists'
    BY DEF ServedInv, CompletedExists
  <1> QED BY <1>1, <1>2, <1>3 DEF ServedInv

\* The statements that change no more than the status or the deletion mark of a row.
LEMMA StatusStatements ==
  ASSUME NEW row \in DocRow, NEW v \in Versions
  PROVE  /\ MarkDocumentProcessing(row, v).shown = row.shown
         /\ MarkDocumentProcessing(row, v).status = "COMPLETED" => row.status = "COMPLETED"
         /\ RejectScrape(row, v).shown = row.shown
         /\ RejectScrape(row, v).status = "COMPLETED" => row.status = "COMPLETED"
         /\ RejectEnrichment(row, v).shown = row.shown
         /\ RejectEnrichment(row, v).status = "COMPLETED" => row.status = "COMPLETED"
         /\ SoftDeleteDocument(row).cur = row.cur
         /\ SoftDeleteDocument(row).shown = row.shown
         /\ SoftDeleteDocument(row).status = row.status
  <1> USE DEF DocRow, Statuses
  <1>1. /\ MarkDocumentProcessing(row, v).shown = row.shown
        /\ MarkDocumentProcessing(row, v).status = "COMPLETED" => row.status = "COMPLETED"
    BY DEF MarkDocumentProcessing
  <1>2. /\ RejectScrape(row, v).shown = row.shown
        /\ RejectScrape(row, v).status = "COMPLETED" => row.status = "COMPLETED"
    BY DEF RejectScrape
  <1>3. /\ RejectEnrichment(row, v).shown = row.shown
        /\ RejectEnrichment(row, v).status = "COMPLETED" => row.status = "COMPLETED"
    BY DEF RejectEnrichment
  <1>4. /\ SoftDeleteDocument(row).cur = row.cur
        /\ SoftDeleteDocument(row).shown = row.shown
        /\ SoftDeleteDocument(row).status = row.status
    BY DEF SoftDeleteDocument
  <1> QED BY <1>1, <1>2, <1>3, <1>4

\* The two statements that decide what a document shows and whether it is served.
LEMMA ContentStatements ==
  ASSUME NEW row \in DocRow, NEW v \in Versions
  PROVE  /\ CompleteScrape(row, v).shown = IF IsCurrent(row, v) THEN v ELSE row.shown
         /\ CompleteScrape(row, v).status = "COMPLETED"
              => row.status = "COMPLETED" /\ ~IsCurrent(row, v)
         /\ CompleteEnrichment(row, v).shown = row.shown
         /\ CompleteEnrichment(row, v).status = "COMPLETED"
              => row.status = "COMPLETED" \/ IsCurrent(row, v)
  BY DEF DocRow, Statuses, CompleteScrape, CompleteEnrichment

\* What the ENRICH statements do to the existence of a job.
LEMMA EnrichExistence ==
  ASSUME NEW row \in EnrichRow
  PROVE  /\ CreateEnrichJob(row).state # "NONE"
         /\ ClaimEnrichJob(row).state # "NONE"
         /\ CompleteEnrichJob(row).state # "NONE" <=> row.state # "NONE"
         /\ FailEnrichJob(row).state # "NONE" <=> row.state # "NONE"
  BY DEF EnrichRow, JobStates, CreateEnrichJob, CreateIngestionJob, ClaimEnrichJob, CompleteEnrichJob,
         CompleteJob, CanComplete, FailEnrichJob, FailJob

-----------------------------------------------------------------------------
\* createVersionAndJob keeps the invariant when the new row is not COMPLETED and a memo brings its text.
LEMMA CreateServedInv ==
  ASSUME ServedInv, TypeInv, UNCHANGED workerVars,
         NEW d \in Docs, NEW row \in DocRow,
         row.cur \in Versions, row.cur > doc[d].cur, row.status # "COMPLETED",
         d \notin Webpages => row.shown = row.cur,
         CreateVersionAndJob(d, row)
  PROVE  ServedInv'
  <1> DEFINE j == <<d, row.cur>>
  <1>1. /\ j \in VersionIds /\ enrichJob[j].state = "NONE"
        /\ doc \in [Docs -> DocRow] /\ text \in [VersionIds -> Texts]
        /\ enrichJob \in [VersionIds -> EnrichRow]
        /\ \A e \in Docs : doc[e].cur \in 0..MaxVersion
    <2>1. /\ doc \in [Docs -> DocRow] /\ text \in [VersionIds -> Texts]
          /\ enrichJob \in [VersionIds -> EnrichRow]
      BY DEF TypeInv, TypeOK, StoreTypeOK
    <2>2. \A e \in Docs : doc[e].cur \in 0..MaxVersion
      BY <2>1 DEF DocRow
    <2>3. j \in VersionIds /\ j[1] = d /\ j[2] = row.cur
      OBVIOUS
    <2>4. enrichJob[j].state = "NONE"
      BY <2>3 DEF TypeInv, NothingAhead
    <2> QED BY <2>1, <2>2, <2>3, <2>4
  <1>2. /\ doc' = [doc EXCEPT ![d] = row]
        /\ text' = [text EXCEPT ![j] = row.shown]
        /\ \/ UNCHANGED enrichJob
           \/ /\ enrichJob' = [enrichJob EXCEPT ![j] = CreateEnrichJob(enrichJob[j])]
              /\ row.shown = row.cur
        /\ UNCHANGED chunks /\ UNCHANGED enricher
    BY DEF CreateVersionAndJob, workerVars
  <1>3. CreateEnrichJob(enrichJob[j]).state # "NONE"
    BY <1>1, EnrichExistence
  <1>4. ServedIsCurrent' /\ CompletedExists'
    BY <1>1, <1>2 DEF ServedInv, ServedIsCurrent, CompletedExists, CurrentId
  <1>5. ASSUME NEW i \in VersionIds, enrichJob'[i].state # "NONE"
        PROVE  text'[i] = i[2] /\ (doc'[i[1]].cur = i[2] => doc'[i[1]].shown = i[2])
    <2>1. CASE i = j
      <3>1. row.shown = row.cur
        BY <1>1, <1>2, <1>5, <2>1
      <3> QED BY <1>1, <1>2, <2>1, <3>1
    <2>2. CASE i # j
      <3>1. enrichJob[i].state # "NONE" /\ text'[i] = text[i]
        BY <1>1, <1>2, <1>5, <2>2
      <3>2. text[i] = i[2] /\ (doc[i[1]].cur = i[2] => doc[i[1]].shown = i[2])
        BY <3>1 DEF ServedInv, EnrichesOwnText
      <3>3. CASE i[1] = d
        <4>1. i[2] # row.cur
          BY <2>2, <3>3
        <4> QED BY <1>2, <3>1, <3>2, <3>3, <4>1
      <3>4. CASE i[1] # d
        BY <1>1, <1>2, <3>1, <3>2, <3>4
      <3> QED BY <3>3, <3>4
    <2> QED BY <2>1, <2>2
  <1>6. EnrichesOwnText'
    BY <1>5 DEF EnrichesOwnText
  <1>7. EnricherHoldsOwnText'
    <2>1. \A i \in VersionIds : enrichJob[i].state # "NONE" => enrichJob'[i].state # "NONE"
      BY <1>1, <1>2, <1>3
    <2> QED BY <1>2, <2>1 DEF ServedInv, EnricherHoldsOwnText, TypeInv, TypeOK, EnricherTypeOK
  <1> QED BY <1>4, <1>6, <1>7 DEF ServedInv

\* The writes of the API keep the invariant.
LEMMA LibraryServedInv ==
  ASSUME ServedInv, TypeInv, UNCHANGED workerVars, LibraryNext
  PROVE  ServedInv'
  <1> USE StoreAssumption
  <1>1. \A d \in Docs : doc[d] \in DocRow /\ doc[d].cur \in 0..MaxVersion /\ doc[d].shown \in Texts
    BY DEF TypeInv, TypeOK, StoreTypeOK, DocRow
  <1>2. ASSUME NEW d \in Docs, NEW status \in Statuses, NEW shown \in Texts,
               status # "COMPLETED", d \notin Webpages => shown = doc[d].cur + 1, doc[d].cur < MaxVersion,
               CreateVersionAndJob(d, NextVersion(doc[d], status, shown))
        PROVE  ServedInv'
    <2>1. /\ NextVersion(doc[d], status, shown) \in DocRow
          /\ NextVersion(doc[d], status, shown).cur = doc[d].cur + 1
          /\ doc[d].cur + 1 \in Versions
      BY <1>1, <1>2, NextVersionRow
    <2>2. /\ NextVersion(doc[d], status, shown).status = status
          /\ NextVersion(doc[d], status, shown).shown = shown
      BY DEF NextVersion
    <2>3. doc[d].cur + 1 > doc[d].cur
      BY <1>1
    <2> DEFINE row == NextVersion(doc[d], status, shown)
    <2>4. /\ row \in DocRow /\ row.cur \in Versions /\ row.cur > doc[d].cur
          /\ row.status # "COMPLETED" /\ (d \notin Webpages => row.shown = row.cur)
          /\ CreateVersionAndJob(d, row)
      BY <1>2, <2>1, <2>2, <2>3
    <2> HIDE DEF row
    <2> QED BY <2>4, CreateServedInv
  <1>3. ASSUME NEW d \in Docs, CreateMemo(d) PROVE ServedInv'
    <2>1. "ENRICH_PENDING" \in Statuses /\ 1 \in Texts /\ doc[d].cur = 0 /\ 1 = doc[d].cur + 1
      BY <1>3 DEF CreateMemo, Statuses
    <2> QED BY <1>2, <1>3, <2>1 DEF CreateMemo
  <1>4. ASSUME NEW d \in Docs, CreateWebpage(d) PROVE ServedInv'
    <2>1. "SCRAPE_PENDING" \in Statuses /\ 0 \in Texts /\ doc[d].cur < MaxVersion
      BY <1>4 DEF CreateWebpage, Statuses
    <2> QED BY <1>2, <1>4, <2>1 DEF CreateWebpage
  <1>5. ASSUME NEW d \in Docs, UpdateMemo(d) PROVE ServedInv'
    <2>1. "ENRICH_PENDING" \in Statuses /\ doc[d].cur + 1 \in Texts
      BY <1>1, <1>5 DEF UpdateMemo, Statuses
    <2> QED BY <1>2, <1>5, <2>1 DEF UpdateMemo
  <1>6. ASSUME NEW d \in Docs, UpdateWebpage(d) PROVE ServedInv'
    BY <1>1, <1>2, <1>6 DEF UpdateWebpage, Statuses
  <1>7. ASSUME NEW d \in Docs, Delete(d) PROVE ServedInv'
    <2>1. /\ SoftDeleteDocument(doc[d]).cur = doc[d].cur
          /\ SoftDeleteDocument(doc[d]).shown = doc[d].shown
          /\ SoftDeleteDocument(doc[d]).status = doc[d].status
      BY <1>1 DEF SoftDeleteDocument, DocRow
    <2>2. /\ doc' = [doc EXCEPT ![d] = SoftDeleteDocument(doc[d])]
          /\ UNCHANGED <<text, chunks, enrichJob, enricher>>
      BY <1>7 DEF Delete, workerVars
    <2>3. EnricherHoldsOwnText'
      BY <2>2 DEF ServedInv, EnricherHoldsOwnText
    <2>4. doc \in [Docs -> DocRow]
      BY DEF TypeInv, TypeOK, StoreTypeOK
    <2> QED BY <2>1, <2>2, <2>3, <2>4, StatusStep
  <1> QED BY <1>3, <1>4, <1>5, <1>6, <1>7 DEF LibraryNext

-----------------------------------------------------------------------------
\* Steps that touch neither a document, nor its content, nor an ENRICH job.
LEMMA AsideStep ==
  ASSUME ServedInv, UNCHANGED <<doc, text, chunks, enrichJob>>,
         EnricherHoldsOwnText'
  PROVE  ServedInv'
  BY DEF ServedInv, ServedIsCurrent, EnrichesOwnText, CompletedExists, CurrentId

\* The outbox dispatcher keeps the invariant: its mark makes no document COMPLETED.
LEMMA DispatcherServedInv ==
  ASSUME ServedInv, TypeInv, UNCHANGED <<consumer, enricher, cleaner>>, DispatcherNext
  PROVE  ServedInv'
  <1>1. UNCHANGED <<text, chunks, enrichJob, enricher>>
    BY DEF DispatcherNext, DispatchBatch, ClaimOutboxEvents, SendMessage, SendMessageFails,
           RescheduleFails, MarkPublishedAndProcessing, MarkFails, Mark
  <1>2. EnricherHoldsOwnText'
    BY <1>1 DEF ServedInv, EnricherHoldsOwnText
  <1>3. CASE UNCHANGED doc
    BY <1>1, <1>2, <1>3, AsideStep
  <1>4. CASE \E w \in Workers : (MarkPublishedAndProcessing(w) \/ MarkFails(w)) /\ ~UNCHANGED doc
    <2>0. PICK w \in Workers : (MarkPublishedAndProcessing(w) \/ MarkFails(w)) /\ ~UNCHANGED doc
      BY <1>4
    <2>1. PICK j \in dispatcher[w].sent :
            doc' = [doc EXCEPT ![j[1]] = MarkDocumentProcessing(doc[j[1]], j[2])]
      BY <2>0 DEF MarkPublishedAndProcessing, MarkFails, Mark
    <2>2. j \in VersionIds /\ j[1] \in Docs /\ j[2] \in Versions
      BY <2>1 DEF TypeInv, TypeOK, DispatcherTypeOK
    <2>3. doc \in [Docs -> DocRow] /\ doc[j[1]] \in DocRow
      BY <2>2 DEF TypeInv, TypeOK, StoreTypeOK
    <2> DEFINE row == MarkDocumentProcessing(doc[j[1]], j[2])
    <2>4. /\ row.cur = doc[j[1]].cur /\ row.shown = doc[j[1]].shown
          /\ row.status = "COMPLETED" => doc[j[1]].status = "COMPLETED"
      BY <2>2, <2>3, DocStatements, StatusStatements
    <2> HIDE DEF row
    <2>5. \A d \in Docs : /\ doc'[d].cur = doc[d].cur
                          /\ doc'[d].shown = doc[d].shown
                          /\ doc'[d].status = "COMPLETED" => doc[d].status = "COMPLETED"
      BY <2>1, <2>3, <2>4 DEF row
    <2> QED BY <1>1, <1>2, <2>5, StatusStep
  <1> QED
    BY <1>3, <1>4 DEF DispatcherNext, DispatchBatch, ClaimOutboxEvents, SendMessage, SendMessageFails,
           RescheduleFails

\* The scrape result consumer keeps the invariant: with the ENRICH job comes its text.
LEMMA ConsumerServedInv ==
  ASSUME ServedInv, TypeInv, UNCHANGED <<dispatcher, enricher, cleaner>>, ConsumerNext
  PROVE  ServedInv'
  <1>1. CASE UNCHANGED <<doc, text, chunks, enrichJob>>
    BY <1>1, AsideStep DEF ServedInv, EnricherHoldsOwnText
  <1>2. ASSUME NEW w \in Workers, ApplyResult(w), ~UNCHANGED <<doc, text, chunks, enrichJob>>
        PROVE  ServedInv'
    <2> DEFINE c == consumer[w]
               j == c.msg.id
    <2>1. /\ c.msg.kind \in {"completed", "failed"} /\ j \in VersionIds
          /\ UNCHANGED <<chunks, enricher>>
      BY <1>2 DEF TypeInv, TypeOK, ConsumerTypeOK, ApplyResult, Results
    <2>2. j[1] \in Docs /\ j[2] \in Versions
      BY <2>1
    <2>3. /\ doc \in [Docs -> DocRow] /\ doc[j[1]] \in DocRow /\ text \in [VersionIds -> Texts]
          /\ enrichJob \in [VersionIds -> EnrichRow] /\ enrichJob[j] \in EnrichRow
      BY <2>1, <2>2 DEF TypeInv, TypeOK, StoreTypeOK
    <2>4. ApplyFailed(c) \/ (ApplyCompleted(c) /\ CanApplyCompleted(c))
      <3> DEFINE event == <<j, c.msg.event>>
                 refused == c.msg.kind = "completed" /\ ~CanApplyCompleted(c)
      <3>1. /\ UNCHANGED objects
            /\ CASE event \in inbox ->
                    UNCHANGED <<<<doc, text, keys, scrapeJob, enrichJob, cleanup>>, inbox>>
                 [] event \notin inbox /\ TerminalDuplicate(c) ->
                    UNCHANGED <<doc, text, keys, scrapeJob, enrichJob, cleanup>>
                 [] event \notin inbox /\ ~TerminalDuplicate(c) /\ refused ->
                    UNCHANGED <<<<doc, text, keys, scrapeJob, enrichJob, cleanup>>, inbox>>
                 [] OTHER ->
                    IF c.msg.kind = "failed" THEN ApplyFailed(c) ELSE ApplyCompleted(c)
        BY <1>2 DEF ApplyResult
      <3>2. ~UNCHANGED <<doc, text, enrichJob>>
        BY <1>2, <2>1
      <3> QED BY ONLY <3>1, <3>2, <2>1
    <2>5. CASE ApplyFailed(c)
      <3> DEFINE row == RejectScrape(doc[j[1]], j[2])
      <3>1. UNCHANGED <<text, enrichJob>> /\ (UNCHANGED doc \/ doc' = [doc EXCEPT ![j[1]] = row])
        BY <2>2, <2>3, <2>5 DEF ApplyFailed
      <3>2. /\ row.cur = doc[j[1]].cur /\ row.shown = doc[j[1]].shown
            /\ row.status = "COMPLETED" => doc[j[1]].status = "COMPLETED"
        BY <2>2, <2>3, DocStatements, StatusStatements
      <3> HIDE DEF row
      <3>3. \A d \in Docs : /\ doc'[d].cur = doc[d].cur
                            /\ doc'[d].shown = doc[d].shown
                            /\ doc'[d].status = "COMPLETED" => doc[d].status = "COMPLETED"
        BY <2>2, <2>3, <3>1, <3>2
      <3> QED BY <2>1, <3>1, <3>3, StatusStep DEF ServedInv, EnricherHoldsOwnText
    <2>6. CASE ApplyCompleted(c) /\ CanApplyCompleted(c)
      <3>1. text' = [text EXCEPT ![j] = j[2]]
        BY <2>6 DEF ApplyCompleted
      <3>2. CASE ~Current(c)
        <4>1. UNCHANGED <<doc, enrichJob>>
          BY <2>6, <3>2 DEF ApplyCompleted
        <4> QED BY <2>1, <2>3, <3>1, <4>1 DEF ServedInv, ServedIsCurrent, EnrichesOwnText,
                   CompletedExists, CurrentId, EnricherHoldsOwnText
      <3>3. CASE Current(c)
        <4> DEFINE row == CompleteScrape(doc[j[1]], j[2])
                   job == CreateEnrichJob(enrichJob[j])
        <4>1. doc' = [doc EXCEPT ![j[1]] = row] /\ enrichJob' = [enrichJob EXCEPT ![j] = job]
          BY <2>6, <3>3 DEF ApplyCompleted
        <4>2. IsCurrent(doc[j[1]], j[2]) /\ doc[j[1]].cur = j[2]
          BY <2>6, <3>3 DEF CanApplyCompleted, IsCurrent
        <4>3. row.cur = j[2] /\ row.shown = j[2] /\ row.status # "COMPLETED" /\ job.state # "NONE"
          BY <2>2, <2>3, <4>2, DocStatements, ContentStatements, EnrichExistence
        <4> HIDE DEF row, job
        <4>4. ServedIsCurrent' /\ CompletedExists'
          BY <2>1, <2>2, <2>3, <4>1, <4>3 DEF ServedInv, ServedIsCurrent, CompletedExists, CurrentId
        <4>5. ASSUME NEW i \in VersionIds, enrichJob'[i].state # "NONE"
              PROVE  text'[i] = i[2] /\ (doc'[i[1]].cur = i[2] => doc'[i[1]].shown = i[2])
          <5>1. CASE i = j
            BY <2>1, <2>2, <2>3, <3>1, <4>1, <4>3, <5>1
          <5>2. CASE i # j
            <6>1. enrichJob[i].state # "NONE" /\ text'[i] = text[i] /\ i[1] \in Docs
              BY <2>3, <3>1, <4>1, <4>5, <5>2
            <6>2. text[i] = i[2] /\ (doc[i[1]].cur = i[2] => doc[i[1]].shown = i[2])
              BY <6>1 DEF ServedInv, EnrichesOwnText
            <6> QED BY <2>3, <4>1, <4>3, <6>1, <6>2
          <5> QED BY <5>1, <5>2
        <4>6. \A i \in VersionIds : enrichJob[i].state # "NONE" => enrichJob'[i].state # "NONE"
          BY <2>3, <4>1, <4>3
        <4>7. EnricherHoldsOwnText'
          BY <2>1, <4>6 DEF ServedInv, EnricherHoldsOwnText, TypeInv, TypeOK, EnricherTypeOK
        <4> QED BY <4>4, <4>5, <4>7 DEF ServedInv, EnrichesOwnText
      <3> QED BY <3>2, <3>3
    <2> QED BY <2>4, <2>5, <2>6
  <1> QED
    BY <1>1, <1>2 DEF ConsumerNext, Poll, ProcessMessage, ReceiveMessage, GetIngestionJob,
       GetDocumentByID, ConsumerFails, DeleteMessage, DeleteMessageFails, storeVars

-----------------------------------------------------------------------------
\* The jobs a process holds exist as long as the jobs do, so that only what a step
\* makes of the process that takes it has to be looked at.
LEMMA HoldsStep ==
  ASSUME ServedInv, TypeInv, NEW w \in Workers, NEW e,
         enricher' = [enricher EXCEPT ![w] = e],
         \A j \in VersionIds : enrichJob'[j].state # "NONE" <=> enrichJob[j].state # "NONE",
         e.batch \subseteq VersionIds,
         \A j \in e.batch : enrichJob[j].state # "NONE",
         e.pc = "ready" => e.text = e.job[2]
  PROVE  EnricherHoldsOwnText'
  <1>1. /\ DOMAIN enricher = Workers
        /\ \A u \in Workers : enricher[u].batch \subseteq VersionIds
    BY DEF TypeInv, TypeOK, EnricherTypeOK
  <1>2. ASSUME NEW u \in Workers
        PROVE  /\ \A j \in enricher'[u].batch : enrichJob'[j].state # "NONE"
               /\ enricher'[u].pc = "ready" => enricher'[u].text = enricher'[u].job[2]
    <2>1. CASE u = w
      BY <1>1, <2>1
    <2>2. CASE u # w
      BY <1>1, <2>2 DEF ServedInv, EnricherHoldsOwnText
    <2> QED BY <2>1, <2>2
  <1> QED BY <1>2 DEF EnricherHoldsOwnText

\* The commit: the job exists, so the document shows the version's own text, and that
\* is what the process read, cut into chunks and embedded.
LEMMA EnrichServed ==
  ASSUME ServedInv, TypeInv, NEW w \in Workers, enricher[w].pc = "ready",
         CanEnrich(enricher[w].job), Enrich(w)
  PROVE  /\ ServedIsCurrent' /\ EnrichesOwnText' /\ CompletedExists'
         /\ \A j \in VersionIds : enrichJob'[j].state # "NONE" <=> enrichJob[j].state # "NONE"
  <1> DEFINE j == enricher[w].job
             row == CompleteEnrichment(doc[j[1]], j[2])
             job == CompleteEnrichJob(enrichJob[j])
  <1>1. j \in VersionIds /\ j[1] \in Docs /\ j[2] \in Versions /\ j = <<j[1], j[2]>>
    BY DEF TypeInv, TypeOK, EnricherTypeOK
  <1>2. /\ doc \in [Docs -> DocRow] /\ doc[j[1]] \in DocRow
        /\ enrichJob \in [VersionIds -> EnrichRow] /\ enrichJob[j] \in EnrichRow
        /\ text \in [VersionIds -> Texts] /\ chunks \in [VersionIds -> Texts]
    BY <1>1 DEF TypeInv, TypeOK, StoreTypeOK
  <1>3. /\ doc' = [doc EXCEPT ![j[1]] = row]
        /\ text' = [text EXCEPT ![j] = enricher[w].text]
        /\ chunks' = [chunks EXCEPT ![j] = enricher[w].text]
        /\ enrichJob' = [enrichJob EXCEPT ![j] = job]
    BY DEF Enrich
  <1>4. enricher[w].text = j[2]
    BY DEF ServedInv, EnricherHoldsOwnText
  <1>5. enrichJob[j].state # "NONE" /\ doc[j[1]].cur = j[2]
    BY DEF CanEnrich, CanComplete, IsCurrent
  <1>6. doc[j[1]].shown = j[2]
    BY <1>1, <1>5 DEF ServedInv, EnrichesOwnText
  <1>7. row.cur = j[2] /\ row.shown = j[2] /\ job.state # "NONE"
    BY <1>1, <1>2, <1>5, <1>6, DocStatements, ContentStatements, EnrichExistence
  <1> HIDE DEF j, row, job
  <1>8. \A i \in VersionIds : enrichJob'[i].state # "NONE" <=> enrichJob[i].state # "NONE"
    BY <1>1, <1>2, <1>3, <1>5, <1>7
  <1>9. ASSUME NEW d \in Docs, doc'[d].status = "COMPLETED"
        PROVE  doc'[d].shown = doc'[d].cur /\ chunks'[<<d, doc'[d].cur>>] = doc'[d].cur /\ doc'[d].cur > 0
    <2>1. CASE d = j[1]
      <3>1. doc'[d] = row
        BY <1>2, <1>3, <2>1
      <3>2. <<d, row.cur>> = j
        BY <1>1, <1>7, <2>1
      <3> QED BY <1>1, <1>2, <1>3, <1>4, <1>7, <3>1, <3>2
    <2>2. CASE d # j[1]
      <3>1. doc'[d] = doc[d] /\ doc[d].status = "COMPLETED"
        BY <1>2, <1>3, <1>9, <2>2
      <3>2. /\ doc[d].shown = doc[d].cur /\ chunks[<<d, doc[d].cur>>] = doc[d].cur
            /\ doc[d].cur \in 0..MaxVersion /\ doc[d].cur > 0
        BY <1>2, <3>1 DEF ServedInv, ServedIsCurrent, CompletedExists, CurrentId, DocRow
      <3>3. <<d, doc[d].cur>> \in VersionIds /\ <<d, doc[d].cur>> # j
        BY <1>1, <2>2, <3>2, StoreAssumption
      <3>4. chunks'[<<d, doc[d].cur>>] = chunks[<<d, doc[d].cur>>]
        BY <1>2, <1>3, <3>3
      <3> QED BY <3>1, <3>2, <3>4
    <2> QED BY <2>1, <2>2
  <1>10. ASSUME NEW i \in VersionIds, enrichJob'[i].state # "NONE"
         PROVE  text'[i] = i[2] /\ (doc'[i[1]].cur = i[2] => doc'[i[1]].shown = i[2])
    <2>1. CASE i = j
      BY <1>1, <1>2, <1>3, <1>4, <1>7, <2>1
    <2>2. CASE i # j
      <3>1. enrichJob[i].state # "NONE" /\ text'[i] = text[i] /\ i[1] \in Docs
        BY <1>2, <1>3, <1>10, <2>2
      <3>2. text[i] = i[2] /\ (doc[i[1]].cur = i[2] => doc[i[1]].shown = i[2])
        BY <3>1 DEF ServedInv, EnrichesOwnText
      <3> QED BY <1>2, <1>3, <1>7, <3>1, <3>2
    <2> QED BY <2>1, <2>2
  <1> QED BY <1>8, <1>9, <1>10 DEF ServedIsCurrent, EnrichesOwnText, CompletedExists, CurrentId

\* The enrichment processor keeps the invariant: it commits the text it holds, the version's own.
LEMMA EnrichmentServedInv ==
  ASSUME ServedInv, TypeInv, UNCHANGED <<dispatcher, consumer, cleaner>>, EnrichmentNext
  PROVE  ServedInv'
  <1> USE StoreAssumption
  <1>0. /\ enrichJob \in [VersionIds -> EnrichRow] /\ doc \in [Docs -> DocRow]
        /\ DOMAIN enricher = Workers
        /\ \A u \in Workers : enricher[u].batch \subseteq VersionIds
    BY DEF TypeInv, TypeOK, StoreTypeOK, EnricherTypeOK
  <1>1. ASSUME NEW w \in Workers, ClaimEnrichmentJobs(w) PROVE ServedInv'
    <2>1. PICK batch \in SUBSET {j \in VersionIds : Claimable(j)} :
            /\ enrichJob' = [j \in VersionIds |->
                               IF j \in batch THEN ClaimEnrichJob(enrichJob[j]) ELSE enrichJob[j]]
            /\ enricher' = [enricher EXCEPT ![w].batch = batch]
      BY <1>1 DEF ClaimEnrichmentJobs
    <2>2. \A j \in VersionIds : enrichJob'[j].state # "NONE" <=> enrichJob[j].state # "NONE"
      BY <1>0, <2>1, EnrichExistence DEF Claimable
    <2> DEFINE e == [enricher[w] EXCEPT !.batch = batch]
    <2>3. enricher[w].pc # "ready" /\ enricher[w] = EnricherIdle
      BY <1>1 DEF ClaimEnrichmentJobs, EnricherIdle
    <2>4. /\ enricher' = [enricher EXCEPT ![w] = e]
          /\ e.batch = batch /\ e.pc # "ready"
      BY <2>1, <2>3 DEF EnricherIdle
    <2>5. batch \subseteq VersionIds /\ \A j \in batch : enrichJob[j].state # "NONE"
      BY <2>1 DEF Claimable
    <2> HIDE DEF e
    <2>6. EnricherHoldsOwnText'
      BY <2>2, <2>4, <2>5, HoldsStep
    <2> QED BY <1>1, <2>2, <2>6, StatusStep DEF ClaimEnrichmentJobs
  <1>2. ASSUME NEW w \in Workers, NEW j \in VersionIds, Load(w, j) PROVE ServedInv'
    <2>1. /\ enrichJob[j].state # "NONE" /\ enrichJob[j] \in EnrichRow
          /\ j \in enricher[w].batch /\ enricher[w].pc = "idle"
      BY <1>0, <1>2 DEF Load, ServedInv, EnricherHoldsOwnText
    <2>2. ContentOf(j) = j[2]
      BY <2>1 DEF ServedInv, EnrichesOwnText, ContentOf
    <2>3. \A i \in VersionIds : enrichJob'[i].state # "NONE" <=> enrichJob[i].state # "NONE"
      BY <1>0, <1>2, <2>1, EnrichExistence DEF Load
    <2> DEFINE rest == enricher[w].batch \ {j}
    <2>4. rest \subseteq VersionIds /\ \A i \in rest : enrichJob[i].state # "NONE"
      BY <1>0 DEF ServedInv, EnricherHoldsOwnText
    <2>5. EnricherHoldsOwnText'
      <3>1. CASE IsCurrent(doc[j[1]], j[2])
        <4>1. PICK pc \in {"failed", "ready"} : enricher' = [enricher EXCEPT ![w] =
                [batch |-> rest, job |-> j, text |-> ContentOf(j), pc |-> pc]]
          BY <1>2, <3>1 DEF Load
        <4> DEFINE e == [batch |-> rest, job |-> j, text |-> ContentOf(j), pc |-> pc]
        <4>2. e.batch = rest /\ e.text = e.job[2]
          BY <2>2
        <4> HIDE DEF e, rest
        <4> QED BY <2>3, <2>4, <4>1, <4>2, HoldsStep DEF e
      <3>2. CASE ~IsCurrent(doc[j[1]], j[2])
        <4> DEFINE e == [enricher[w] EXCEPT !.batch = rest]
        <4>1. enricher' = [enricher EXCEPT ![w] = e]
          BY <1>2, <3>2 DEF Load
        <4>2. e.batch = rest /\ e.pc # "ready"
          BY <2>1 DEF TypeInv, TypeOK, EnricherTypeOK
        <4> HIDE DEF e, rest
        <4> QED BY <2>3, <2>4, <4>1, <4>2, HoldsStep
      <3> QED BY <3>1, <3>2
    <2> QED BY <1>2, <2>3, <2>5, StatusStep DEF Load
  <1>3. ASSUME NEW w \in Workers, NextJob(w),
               \A i \in VersionIds : enrichJob'[i].state # "NONE" <=> enrichJob[i].state # "NONE"
        PROVE  EnricherHoldsOwnText'
    <2> DEFINE e == [EnricherIdle EXCEPT !.batch = enricher[w].batch]
    <2>1. enricher' = [enricher EXCEPT ![w] = e] /\ e.batch = enricher[w].batch /\ e.pc # "ready"
      BY <1>3 DEF NextJob, EnricherIdle
    <2>2. \A j \in enricher[w].batch : enrichJob[j].state # "NONE"
      BY DEF ServedInv, EnricherHoldsOwnText
    <2> HIDE DEF e
    <2> QED BY <1>0, <1>3, <2>1, <2>2, HoldsStep
  <1>4. ASSUME NEW w \in Workers, NEW pc \in {"failed", "reject"},
               enricher' = [enricher EXCEPT ![w].pc = pc],
               \A i \in VersionIds : enrichJob'[i].state # "NONE" <=> enrichJob[i].state # "NONE"
        PROVE  EnricherHoldsOwnText'
    <2> DEFINE e == [enricher[w] EXCEPT !.pc = pc]
    <2>1. enricher' = [enricher EXCEPT ![w] = e] /\ e.batch = enricher[w].batch /\ e.pc # "ready"
      BY <1>4 DEF TypeInv, TypeOK, EnricherTypeOK
    <2>2. \A j \in enricher[w].batch : enrichJob[j].state # "NONE"
      BY DEF ServedInv, EnricherHoldsOwnText
    <2> HIDE DEF e
    <2>3. e.batch \subseteq VersionIds /\ \A j \in e.batch : enrichJob[j].state # "NONE"
      BY <1>0, <2>1, <2>2
    <2>4. \A i \in VersionIds : enrichJob'[i].state # "NONE" <=> enrichJob[i].state # "NONE"
      BY <1>4
    <2> QED BY ONLY ServedInv, TypeInv, <2>1, <2>3, <2>4, HoldsStep
  <1>5. ASSUME NEW w \in Workers, Commit(w) \/ EnrichFails(w) PROVE ServedInv'
    <2>1. /\ enricher[w].pc = "ready"
          /\ \/ CanEnrich(enricher[w].job) /\ Enrich(w)
             \/ UNCHANGED <<doc, text, chunks, enrichJob>>
          /\ NextJob(w) \/ enricher' = [enricher EXCEPT ![w].pc = "failed"]
      BY <1>5 DEF Commit, EnrichFails
    <2>2. CASE CanEnrich(enricher[w].job) /\ Enrich(w)
      BY <1>3, <1>4, <2>1, <2>2, EnrichServed DEF ServedInv
    <2>3. CASE UNCHANGED <<doc, text, chunks, enrichJob>>
      BY <1>3, <1>4, <2>1, <2>3, AsideStep
    <2> QED BY <2>1, <2>2, <2>3
  <1>6. ASSUME NEW w \in Workers, RecordFailure(w) PROVE ServedInv'
    <2> DEFINE j == enricher[w].job
    <2>1. j \in VersionIds
      BY <1>6 DEF RecordFailure, TypeInv, TypeOK, EnricherTypeOK
    <2>2. /\ enrichJob' = [enrichJob EXCEPT ![j] = FailEnrichJob(enrichJob[j])]
          /\ FailEnrichJob(enrichJob[j]).state # "NONE" <=> enrichJob[j].state # "NONE"
      BY <1>0, <1>6, <2>1, EnrichExistence DEF RecordFailure
    <2> HIDE DEF j
    <2>3. \A i \in VersionIds : enrichJob'[i].state # "NONE" <=> enrichJob[i].state # "NONE"
      BY <1>0, <2>1, <2>2
    <2> QED BY <1>4, <1>6, <2>3, StatusStep DEF RecordFailure
  <1>7. ASSUME NEW w \in Workers, RecordFailureFails(w) PROVE ServedInv'
    <2> DEFINE j == enricher[w].job
               e == [batch |-> {}, job |-> j, pc |-> "reject", text |-> enricher[w].text]
    <2>1. j \in VersionIds
      BY <1>7 DEF RecordFailureFails, TypeInv, TypeOK, EnricherTypeOK
    <2>2. /\ enricher' = [enricher EXCEPT ![w] = e] /\ e.batch = {} /\ e.pc # "ready"
          /\ UNCHANGED <<doc, text, chunks>>
          /\ \/ enrichJob' = enrichJob
             \/ enrichJob' = [enrichJob EXCEPT ![j] = FailEnrichJob(enrichJob[j])]
          /\ FailEnrichJob(enrichJob[j]).state # "NONE" <=> enrichJob[j].state # "NONE"
      BY <1>0, <1>7, <2>1, EnrichExistence DEF RecordFailureFails
    <2> HIDE DEF e, j
    <2>3. \A i \in VersionIds : enrichJob'[i].state # "NONE" <=> enrichJob[i].state # "NONE"
      BY <1>0, <2>1, <2>2
    <2>4. EnricherHoldsOwnText'
      BY <2>2, <2>3, HoldsStep
    <2> QED BY <2>2, <2>3, <2>4, StatusStep
  <1>8. ASSUME NEW w \in Workers, RejectDocument(w) PROVE ServedInv'
    <2> DEFINE j == enricher[w].job
               row == RejectEnrichment(doc[j[1]], j[2])
    <2>1. j[1] \in Docs /\ j[2] \in Versions
      BY <1>8 DEF RejectDocument, TypeInv, TypeOK, EnricherTypeOK
    <2>2. doc' = [doc EXCEPT ![j[1]] = row] \/ doc' = doc
      BY <1>8 DEF RejectDocument
    <2>3. /\ row.cur = doc[j[1]].cur /\ row.shown = doc[j[1]].shown
          /\ row.status = "COMPLETED" => doc[j[1]].status = "COMPLETED"
      BY <1>0, <2>1, DocStatements, StatusStatements
    <2>4. EnricherHoldsOwnText' /\ UNCHANGED <<text, chunks, enrichJob>>
      BY <1>3, <1>8 DEF RejectDocument
    <2> HIDE DEF j, row
    <2>5. \A d \in Docs : /\ doc'[d].cur = doc[d].cur
                          /\ doc'[d].shown = doc[d].shown
                          /\ doc'[d].status = "COMPLETED" => doc[d].status = "COMPLETED"
      BY <1>0, <2>1, <2>2, <2>3
    <2> QED BY <2>4, <2>5, StatusStep
  <1>9. ASSUME NEW w \in Workers, NEW j \in VersionIds, LoadFails(w, j) PROVE ServedInv'
    <2> DEFINE e == [batch |-> enricher[w].batch \ {j}, job |-> j, pc |-> "failed", text |-> 0]
    <2>1. /\ enricher' = [enricher EXCEPT ![w] = e]
          /\ e.batch = enricher[w].batch \ {j} /\ e.pc # "ready"
          /\ UNCHANGED <<doc, text, chunks>>
          /\ \/ enrichJob' = enrichJob
             \/ enrichJob' = [enrichJob EXCEPT ![j] = CompleteEnrichJob(enrichJob[j])]
          /\ CompleteEnrichJob(enrichJob[j]).state # "NONE" <=> enrichJob[j].state # "NONE"
      BY <1>0, <1>9, EnrichExistence DEF LoadFails
    <2> HIDE DEF e
    <2>2. \A i \in VersionIds : enrichJob'[i].state # "NONE" <=> enrichJob[i].state # "NONE"
      BY <1>0, <2>1
    <2>3. e.batch \subseteq VersionIds /\ \A i \in e.batch : enrichJob[i].state # "NONE"
      BY <1>0, <2>1 DEF ServedInv, EnricherHoldsOwnText
    <2>4. EnricherHoldsOwnText'
      BY <2>1, <2>2, <2>3, HoldsStep
    <2> QED BY <2>1, <2>2, <2>4, StatusStep
  <1> QED BY <1>1, <1>2, <1>5, <1>6, <1>7, <1>8, <1>9 DEF EnrichmentNext, ProcessBatch

-----------------------------------------------------------------------------
\* Scraper, cleanup, a crash and stuttering.
LEMMA OtherServedInv ==
  ASSUME ServedInv, TypeInv,
         \/ ScraperNext /\ UNCHANGED workerVars
         \/ CleanupNext /\ UNCHANGED <<dispatcher, consumer, enricher>>
         \/ \E w \in Workers : Crash(w)
         \/ UNCHANGED vars
  PROVE  ServedInv'
  <1>1. UNCHANGED <<doc, text, chunks, enrichJob>>
    BY DEF ScraperNext, ScraperAnswers, ScrapeSucceeds, ScrapeSucceedsUnacknowledged, ScrapeFails,
           ScrapeDies, Reissue, dbUnchanged, CleanupNext, CleanBatch, ClaimArtifactCleanupJobs,
           ListDocumentArtifactKeys, DeleteObject, CompleteCleanup, CleanupFails, FailCleanup,
           FailCleanupFails, Crash, vars, storeVars
  <1>2. UNCHANGED enricher \/ \E w \in Workers : enricher' = [enricher EXCEPT ![w] = EnricherIdle]
    BY DEF workerVars, vars, Crash
  <1>3. CASE UNCHANGED enricher
    BY <1>1, <1>3, AsideStep DEF ServedInv, EnricherHoldsOwnText
  <1>4. CASE \E w \in Workers : enricher' = [enricher EXCEPT ![w] = EnricherIdle]
    <2>1. PICK w \in Workers : enricher' = [enricher EXCEPT ![w] = EnricherIdle]
      BY <1>4
    <2>2. EnricherIdle.batch = {} /\ EnricherIdle.pc # "ready"
      BY DEF EnricherIdle
    <2>3. EnricherHoldsOwnText'
      BY <1>1, <2>1, <2>2, HoldsStep
    <2> QED BY <1>1, <2>3, AsideStep
  <1> QED BY <1>2, <1>3, <1>4

\* Every step of the pipeline keeps the invariant.
LEMMA ServedStep == ASSUME TypeInv, ServedInv, [Next]_vars PROVE ServedInv'
  BY LibraryServedInv, DispatcherServedInv, ConsumerServedInv, EnrichmentServedInv, OtherServedInv
     DEF Next

\* The inductive invariant of the two theorems below holds of every reachable state.
THEOREM Invariants == Spec => [](TypeInv /\ ServedInv)
  <1>1. Init => TypeInv /\ ServedInv
    BY InitTypeInv, InitServedInv
  <1>2. TypeInv /\ ServedInv /\ [Next]_vars => (TypeInv /\ ServedInv)'
    BY TypeStep, ServedStep
  <1> QED BY <1>1, <1>2, PTL DEF Spec

\* A COMPLETED document shows its current version and is searched by the chunks of that
\* version, whatever the order of edits, scrapes, retries and failures.
THEOREM ServedCorrect == Spec => []ServedIsCurrent
  <1>1. TypeInv /\ ServedInv => ServedIsCurrent
    BY DEF ServedInv
  <1> QED BY <1>1, Invariants, PTL

\* The processor never embeds the old text that a refresh copies into the new version.
THEOREM OwnTextCorrect == Spec => []EnrichesOwnText
  <1>1. TypeInv /\ ServedInv => EnrichesOwnText
    BY DEF ServedInv
  <1> QED BY <1>1, Invariants, PTL
=============================================================================
