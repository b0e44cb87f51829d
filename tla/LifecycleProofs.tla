-------------------------- MODULE LifecycleProofs --------------------------
(***************************************************************************)
(* Ingestion implements DocumentLifecycle: every step of the API, of a      *)
(* worker, of the scraper or of a failure is a step of the promise to the   *)
(* reader, or changes nothing that the reader sees.                         *)
(*                                                                         *)
(* The proof sorts the steps of Ingestion into five kinds by what they do   *)
(* to a document and its chunks, and shows each kind to be an abstract step. *)
(***************************************************************************)
EXTENDS ServedProofs

USE DEF Versions, VersionIds, Texts

\* Nothing is shown, or stored for the search, of a version that does not exist, and
\* only a document that exists is deleted.
NoContentAhead ==
  /\ \A d \in Docs : doc[d].shown <= doc[d].cur /\ (doc[d].deleted => doc[d].cur > 0)
  /\ \A j \in VersionIds : j[2] > doc[j[1]].cur => chunks[j] = 0

-----------------------------------------------------------------------------
(* The kinds of steps.                                                     *)

Keeps(d) ==
  /\ doc'[d].cur = doc[d].cur
  /\ doc'[d].shown = doc[d].shown
  /\ doc'[d].deleted = doc[d].deleted

KeepsOthers(d) == \A e \in Docs \ {d} : Keeps(e)

Quiet == (\A d \in Docs : Keeps(d)) /\ UNCHANGED chunks

Creates(d) ==
  /\ KeepsOthers(d)
  /\ UNCHANGED chunks
  /\ ~doc[d].deleted /\ ~doc'[d].deleted
  /\ doc[d].cur < MaxVersion /\ doc'[d].cur = doc[d].cur + 1
  /\ doc'[d].shown = IF d \in Webpages THEN doc[d].shown ELSE doc[d].cur + 1

Fetches(d) ==
  /\ KeepsOthers(d)
  /\ UNCHANGED chunks
  /\ Live(doc[d])
  /\ doc'[d].cur = doc[d].cur /\ doc'[d].deleted = doc[d].deleted
  /\ doc'[d].shown = doc[d].cur

Indexes(d) ==
  /\ \A e \in Docs : Keeps(e)
  /\ Live(doc[d])
  /\ doc[d].shown = doc[d].cur
  /\ chunks' = [chunks EXCEPT ![CurrentId(d)] = doc[d].cur]

Removes(d) ==
  /\ KeepsOthers(d)
  /\ UNCHANGED chunks
  /\ Live(doc[d])
  /\ doc'[d].cur = doc[d].cur /\ doc'[d].shown = doc[d].shown
  /\ doc'[d].deleted = TRUE

Kinds == Quiet \/ \E d \in Docs : Creates(d) \/ Fetches(d) \/ Indexes(d) \/ Removes(d)

\* No statement but SoftDeleteDocument changes whether a document is deleted.
LEMMA DeletedStatements ==
  ASSUME NEW row \in DocRow, NEW v \in Versions
  PROVE  /\ MarkDocumentProcessing(row, v).deleted = row.deleted
         /\ CompleteScrape(row, v).deleted = row.deleted
         /\ RejectScrape(row, v).deleted = row.deleted
         /\ CompleteEnrichment(row, v).deleted = row.deleted
         /\ RejectEnrichment(row, v).deleted = row.deleted
         /\ SoftDeleteDocument(row).deleted = TRUE
  <1> USE DEF DocRow, Statuses
  <1>1. /\ MarkDocumentProcessing(row, v).deleted = row.deleted
        /\ CompleteScrape(row, v).deleted = row.deleted
    BY DEF MarkDocumentProcessing, CompleteScrape
  <1>2. RejectScrape(row, v).deleted = row.deleted
    BY DEF RejectScrape
  <1>3. /\ CompleteEnrichment(row, v).deleted = row.deleted
        /\ RejectEnrichment(row, v).deleted = row.deleted
    BY DEF CompleteEnrichment, RejectEnrichment
  <1>4. SoftDeleteDocument(row).deleted = TRUE
    BY DEF SoftDeleteDocument
  <1> QED BY <1>1, <1>2, <1>3, <1>4

-----------------------------------------------------------------------------
\* What the writes of the API are to the reader.
LEMMA LibraryKinds ==
  ASSUME TypeInv, NoContentAhead, LibraryNext
  PROVE  Kinds
  <1> USE StoreAssumption
  <1>1. doc \in [Docs -> DocRow] /\ \A d \in Docs : doc[d] \in DocRow /\ doc[d].cur \in 0..MaxVersion
    BY DEF TypeInv, TypeOK, StoreTypeOK, DocRow
  <1>2. ASSUME NEW d \in Docs, NEW status, NEW shown,
               CreateVersionAndJob(d, NextVersion(doc[d], status, shown)),
               ~doc[d].deleted, doc[d].cur < MaxVersion,
               shown = IF d \in Webpages THEN doc[d].shown ELSE doc[d].cur + 1
        PROVE  Kinds
    <2>1. doc' = [doc EXCEPT ![d] = NextVersion(doc[d], status, shown)] /\ UNCHANGED chunks
      BY <1>2 DEF CreateVersionAndJob
    <2>2. /\ NextVersion(doc[d], status, shown).cur = doc[d].cur + 1
          /\ NextVersion(doc[d], status, shown).shown = shown
          /\ NextVersion(doc[d], status, shown).deleted = FALSE
      BY DEF NextVersion
    <2>3. Creates(d)
      BY <1>1, <1>2, <2>1, <2>2 DEF Creates, KeepsOthers, Keeps
    <2> QED BY <2>3 DEF Kinds
  <1>3. ASSUME NEW d \in Docs, CreateMemo(d) \/ CreateWebpage(d) PROVE Kinds
    <2>1. doc[d].cur = 0 /\ doc[d].shown = 0 /\ ~doc[d].deleted
      BY <1>1, <1>3 DEF CreateMemo, CreateWebpage, NoContentAhead, DocRow
    <2>2. 1 = doc[d].cur + 1 /\ doc[d].cur < MaxVersion
      BY <2>1
    <2> QED BY <1>2, <1>3, <2>1, <2>2 DEF CreateMemo, CreateWebpage
  <1>4. ASSUME NEW d \in Docs, UpdateMemo(d) \/ UpdateWebpage(d) PROVE Kinds
    BY <1>2, <1>4 DEF UpdateMemo, UpdateWebpage, Live
  <1>5. ASSUME NEW d \in Docs, Delete(d) PROVE Kinds
    <2>1. /\ SoftDeleteDocument(doc[d]).cur = doc[d].cur
          /\ SoftDeleteDocument(doc[d]).shown = doc[d].shown
          /\ SoftDeleteDocument(doc[d]).deleted = TRUE
      BY <1>1 DEF SoftDeleteDocument, DocRow
    <2>2. /\ doc' = [doc EXCEPT ![d] = SoftDeleteDocument(doc[d])]
          /\ UNCHANGED chunks /\ Live(doc[d])
      BY <1>5 DEF Delete
    <2>3. Removes(d)
      BY <1>1, <2>1, <2>2 DEF Removes, KeepsOthers, Keeps
    <2> QED BY <2>3 DEF Kinds
  <1> QED BY <1>3, <1>4, <1>5 DEF LibraryNext

\* The outbox dispatcher is quiet to the reader.
LEMMA DispatcherKinds ==
  ASSUME TypeInv, DispatcherNext
  PROVE  Kinds
  <1>1. UNCHANGED chunks
    BY DEF DispatcherNext, DispatchBatch, ClaimOutboxEvents, SendMessage, SendMessageFails,
           RescheduleFails, MarkPublishedAndProcessing, MarkFails, Mark
  <1>2. CASE UNCHANGED doc
    BY <1>1, <1>2 DEF Kinds, Quiet, Keeps
  <1>3. ASSUME NEW w \in Workers, MarkPublishedAndProcessing(w) \/ MarkFails(w), ~UNCHANGED doc
        PROVE  Kinds
    <2>1. PICK j \in dispatcher[w].sent :
            doc' = [doc EXCEPT ![j[1]] = MarkDocumentProcessing(doc[j[1]], j[2])]
      BY <1>3 DEF MarkPublishedAndProcessing, MarkFails, Mark
    <2> DEFINE row == MarkDocumentProcessing(doc[j[1]], j[2])
    <2>2. j[1] \in Docs /\ j[2] \in Versions
      BY <2>1 DEF TypeInv, TypeOK, DispatcherTypeOK
    <2>3. doc \in [Docs -> DocRow] /\ doc[j[1]] \in DocRow
      BY <2>2 DEF TypeInv, TypeOK, StoreTypeOK
    <2>4. /\ row.cur = doc[j[1]].cur /\ row.shown = doc[j[1]].shown
          /\ row.deleted = doc[j[1]].deleted
      BY <2>2, <2>3, DocStatements, StatusStatements, DeletedStatements
    <2> HIDE DEF row
    <2>5. \A d \in Docs : Keeps(d)
      BY <2>1, <2>3, <2>4 DEF Keeps, row
    <2> QED BY <1>1, <2>5 DEF Kinds, Quiet
  <1> QED
    BY <1>2, <1>3 DEF DispatcherNext, DispatchBatch, ClaimOutboxEvents, SendMessage, SendMessageFails,
           RescheduleFails

\* A scrape result is quiet, or fetches the text of the current version.
LEMMA ConsumerKinds ==
  ASSUME TypeInv, ConsumerNext
  PROVE  Kinds
  <1>1. CASE UNCHANGED <<doc, chunks>>
    BY <1>1 DEF Kinds, Quiet, Keeps
  <1>2. ASSUME NEW w \in Workers, ApplyResult(w), ~UNCHANGED <<doc, chunks>> PROVE Kinds
    <2> DEFINE c == consumer[w]
               j == c.msg.id
    <2>1. /\ c.msg.kind \in {"completed", "failed"} /\ j[1] \in Docs /\ j[2] \in Versions
          /\ UNCHANGED chunks
      BY <1>2 DEF TypeInv, TypeOK, ConsumerTypeOK, ApplyResult, Results
    <2>2. doc \in [Docs -> DocRow] /\ doc[j[1]] \in DocRow
      BY <2>1 DEF TypeInv, TypeOK, StoreTypeOK
    <2>3. ApplyFailed(c) \/ (ApplyCompleted(c) /\ CanApplyCompleted(c))
      <3> DEFINE event == <<j, c.msg.event>>
                 refused == c.msg.kind = "completed" /\ ~CanApplyCompleted(c)
      <3>1. /\ UNCHANGED objects
            /\ CASE event \in inbox ->
                    UNCHANGED <<<<doc, text, keys, scrapeJob, enrichJob, cleanup>>, inbox>>
                 [] event \notin inbox /\ TerminalDuplicate(c) ->
                    UNCHANGED <<doc, text, keys, scrapeJob, enrichJob, cleanup>>
                 [] event \notin inbox /\ ~TerminalDuplicate(c) /\ refused ->
                    UNCHANGED <<<<doc, text, keys, scrapeJob, enrichJob, cleanup>>, inbox>>
                 [] OTHER ->
                    IF c.msg.kind = "failed" THEN ApplyFailed(c) ELSE ApplyCompleted(c)
        BY <1>2 DEF ApplyResult
      <3>2. ~UNCHANGED doc
        BY <1>2, <2>1
      <3> QED BY ONLY <3>1, <3>2, <2>1
    <2>4. CASE ApplyFailed(c)
      <3> DEFINE row == RejectScrape(doc[j[1]], j[2])
      <3>1. UNCHANGED doc \/ doc' = [doc EXCEPT ![j[1]] = row]
        BY <2>1, <2>2, <2>4 DEF ApplyFailed
      <3>2. /\ row.cur = doc[j[1]].cur /\ row.shown = doc[j[1]].shown
            /\ row.deleted = doc[j[1]].deleted
        BY <2>1, <2>2, DocStatements, StatusStatements, DeletedStatements
      <3> HIDE DEF row
      <3>3. \A d \in Docs : Keeps(d)
        BY <2>1, <2>2, <3>1, <3>2 DEF Keeps
      <3> QED BY <2>1, <3>3 DEF Kinds, Quiet
    <2>5. CASE ApplyCompleted(c) /\ CanApplyCompleted(c)
      <3> DEFINE row == CompleteScrape(doc[j[1]], j[2])
      <3>1. /\ Current(c) /\ IsCurrent(doc[j[1]], j[2])
            /\ doc' = [doc EXCEPT ![j[1]] = row]
        BY <1>2, <2>1, <2>5 DEF ApplyCompleted, CanApplyCompleted
      <3>2. row.cur = doc[j[1]].cur /\ row.shown = j[2] /\ row.deleted = doc[j[1]].deleted
        BY <2>1, <2>2, <3>1, DocStatements, ContentStatements, DeletedStatements
      <3>3. doc[j[1]].cur = j[2] /\ Live(doc[j[1]])
        BY <2>1, <3>1, StoreAssumption DEF IsCurrent, Live
      <3> HIDE DEF row
      <3>4. Fetches(j[1])
        BY <2>1, <2>2, <3>1, <3>2, <3>3 DEF Fetches, KeepsOthers, Keeps
      <3> QED BY <2>1, <3>4 DEF Kinds
    <2> QED BY <2>3, <2>4, <2>5
  <1> QED
    BY <1>1, <1>2 DEF ConsumerNext, Poll, ProcessMessage, ReceiveMessage, GetIngestionJob,
       GetDocumentByID, ConsumerFails, DeleteMessage, DeleteMessageFails, storeVars

\* An enrichment is quiet, or indexes the text of the current version.
LEMMA EnrichmentKinds ==
  ASSUME TypeInv, ServedInv, EnrichmentNext
  PROVE  Kinds
  <1>0. doc \in [Docs -> DocRow]
    BY DEF TypeInv, TypeOK, StoreTypeOK
  <1>1. CASE UNCHANGED <<doc, chunks>>
    BY <1>1 DEF Kinds, Quiet, Keeps
  <1>2. ASSUME NEW w \in Workers, RejectDocument(w), ~UNCHANGED doc PROVE Kinds
    <2> DEFINE j == enricher[w].job
               row == RejectEnrichment(doc[j[1]], j[2])
    <2>1. j[1] \in Docs /\ j[2] \in Versions
      BY <1>2 DEF RejectDocument, TypeInv, TypeOK, EnricherTypeOK
    <2>2. doc' = [doc EXCEPT ![j[1]] = row] /\ UNCHANGED chunks
      BY <1>2 DEF RejectDocument
    <2>3. /\ row.cur = doc[j[1]].cur /\ row.shown = doc[j[1]].shown
          /\ row.deleted = doc[j[1]].deleted
      BY <1>0, <2>1, DocStatements, StatusStatements, DeletedStatements
    <2> HIDE DEF j, row
    <2>4. \A d \in Docs : Keeps(d)
      BY <1>0, <2>1, <2>2, <2>3 DEF Keeps
    <2> QED BY <2>2, <2>4 DEF Kinds, Quiet
  <1>3. ASSUME NEW w \in Workers, enricher[w].pc = "ready", CanEnrich(enricher[w].job), Enrich(w)
        PROVE  Kinds
    <2> DEFINE j == enricher[w].job
               row == CompleteEnrichment(doc[j[1]], j[2])
    <2>1. j \in VersionIds /\ j[1] \in Docs /\ j[2] \in Versions /\ j = <<j[1], j[2]>>
      BY <1>3 DEF TypeInv, TypeOK, EnricherTypeOK
    <2>2. doc[j[1]].cur = j[2] /\ Live(doc[j[1]]) /\ enrichJob[j].state # "NONE"
      BY <1>3, <2>1, StoreAssumption DEF CanEnrich, CanComplete, IsCurrent, Live
    <2>3. doc[j[1]].shown = j[2]
      BY <2>1, <2>2 DEF ServedInv, EnrichesOwnText
    <2>4. enricher[w].text = j[2]
      BY <1>3 DEF ServedInv, EnricherHoldsOwnText
    <2>5. /\ row.cur = doc[j[1]].cur /\ row.shown = doc[j[1]].shown
          /\ row.deleted = doc[j[1]].deleted
      BY <1>0, <2>1, DocStatements, ContentStatements, DeletedStatements
    <2>6. /\ doc' = [doc EXCEPT ![j[1]] = row]
          /\ chunks' = [chunks EXCEPT ![j] = enricher[w].text]
      BY <1>3 DEF Enrich
    <2> HIDE DEF j, row
    <2>7. \A d \in Docs : Keeps(d)
      BY <1>0, <2>1, <2>5, <2>6 DEF Keeps
    <2>8. j = CurrentId(j[1])
      BY <2>1, <2>2 DEF CurrentId
    <2>9. Indexes(j[1])
      BY <2>2, <2>3, <2>4, <2>6, <2>7, <2>8 DEF Indexes
    <2> QED BY <2>1, <2>9 DEF Kinds
  <1>4. ASSUME NEW w \in Workers, Commit(w) \/ EnrichFails(w) PROVE Kinds
    BY <1>1, <1>3, <1>4 DEF Commit, EnrichFails
  <1> QED
    BY <1>1, <1>2, <1>4 DEF EnrichmentNext, ProcessBatch, ClaimEnrichmentJobs, Load, LoadFails,
       RecordFailure, RecordFailureFails, RejectDocument

\* The scraper, the cleanup, a crash and a stutter are quiet to the reader.
LEMMA OtherKinds ==
  ASSUME ScraperNext \/ CleanupNext \/ (\E w \in Workers : Crash(w)) \/ UNCHANGED vars
  PROVE  Kinds
  <1>1. UNCHANGED <<doc, chunks>>
    BY DEF ScraperNext, ScraperAnswers, ScrapeSucceeds, ScrapeSucceedsUnacknowledged, ScrapeFails,
           ScrapeDies, Reissue, dbUnchanged, CleanupNext, CleanBatch, ClaimArtifactCleanupJobs,
           ListDocumentArtifactKeys, DeleteObject, CompleteCleanup, CleanupFails, FailCleanup,
           FailCleanupFails, Crash, vars, storeVars
  <1> QED BY <1>1 DEF Kinds, Quiet, Keeps

\* Every step of the pipeline is of one of the kinds.
LEMMA EveryStepIsOfAKind == ASSUME TypeInv, ServedInv, NoContentAhead, [Next]_vars PROVE Kinds
  BY LibraryKinds, DispatcherKinds, ConsumerKinds, EnrichmentKinds, OtherKinds DEF Next

-----------------------------------------------------------------------------
\* No content is ahead of its document in the empty store.
LEMMA InitNoContentAhead == Init => NoContentAhead
  BY DEF Init, StoreInit, NoContentAhead

\* No step of any kind puts content ahead of its document.
LEMMA NoContentAheadStep ==
  ASSUME TypeInv, NoContentAhead, Kinds
  PROVE  NoContentAhead'
  <1> USE StoreAssumption
  <1>1. /\ chunks \in [VersionIds -> Texts]
        /\ \A d \in Docs : doc[d].cur \in 0..MaxVersion /\ doc[d].shown \in 0..MaxVersion
    BY DEF TypeInv, TypeOK, StoreTypeOK, DocRow
  <1>2. \A d \in Docs : doc[d].shown <= doc[d].cur /\ (doc[d].deleted => doc[d].cur > 0)
    BY DEF NoContentAhead
  <1>3. \A j \in VersionIds : j[2] > doc[j[1]].cur => chunks[j] = 0
    BY DEF NoContentAhead
  <1>4. CASE Quiet
    BY <1>2, <1>3, <1>4 DEF Quiet, Keeps, NoContentAhead
  <1>5. ASSUME NEW d \in Docs, Creates(d) \/ Fetches(d) \/ Removes(d) PROVE NoContentAhead'
    <2>1. /\ doc'[d].cur >= doc[d].cur /\ doc'[d].shown <= doc'[d].cur
          /\ doc'[d].deleted => doc'[d].cur > 0
      BY <1>1, <1>2, <1>5 DEF Creates, Fetches, Removes, Live
    <2>2. UNCHANGED chunks /\ \A e \in Docs \ {d} : Keeps(e)
      BY <1>5 DEF Creates, Fetches, Removes, KeepsOthers
    <2>3. \A e \in Docs : /\ doc'[e].shown <= doc'[e].cur
                          /\ doc'[e].deleted => doc'[e].cur > 0
      BY <1>2, <2>1, <2>2 DEF Keeps
    <2>4. ASSUME NEW j \in VersionIds, j[2] > doc'[j[1]].cur PROVE chunks'[j] = 0
      <3>1. j[1] \in Docs /\ j[2] \in Versions
        OBVIOUS
      <3>2. doc[j[1]].cur \in 0..MaxVersion /\ doc'[j[1]].cur \in Nat
        BY <1>1, <1>5, <2>2, <3>1 DEF Creates, Fetches, Removes, Keeps
      <3>3. doc'[j[1]].cur >= doc[j[1]].cur
        BY <2>1, <2>2, <3>1, <3>2 DEF Keeps
      <3>4. j[2] > doc[j[1]].cur
        BY <2>4, <3>1, <3>2, <3>3
      <3> QED BY <1>3, <2>2, <3>4
    <2> QED BY <2>3, <2>4 DEF NoContentAhead
  <1>6. ASSUME NEW d \in Docs, Indexes(d) PROVE NoContentAhead'
    <2>1. \A e \in Docs : Keeps(e)
      BY <1>6 DEF Indexes
    <2>2. ASSUME NEW j \in VersionIds, j[2] > doc'[j[1]].cur PROVE chunks'[j] = 0
      <3>1. j[1] \in Docs /\ j[2] > doc[j[1]].cur
        BY <2>1, <2>2 DEF Keeps
      <3>2. j # CurrentId(d)
        BY <1>1, <3>1 DEF CurrentId
      <3> QED BY <1>1, <1>3, <1>6, <3>1, <3>2 DEF Indexes
    <2> QED BY <1>2, <2>1, <2>2 DEF Keeps, NoContentAhead
  <1> QED BY <1>4, <1>5, <1>6 DEF Kinds

-----------------------------------------------------------------------------
\* What the reader sees of d.
Fetched(d) == doc[d].cur > 0 /\ doc[d].shown = doc[d].cur
Indexed(d) == doc[d].cur > 0 /\ chunks[CurrentId(d)] = doc[d].cur

Shown(d) ==
  [version |-> doc[d].cur, fetched |-> Fetched(d), indexed |-> Indexed(d),
   removed |-> doc[d].deleted]

View == [d \in Docs |-> Shown(d)]

\* The empty store is shown as no document.
LEMMA InitRefines == Init => Lifecycle!Init
  <1> SUFFICES ASSUME Init PROVE Lifecycle!Init
    OBVIOUS
  <1>1. ASSUME NEW d \in Docs PROVE Shown(d) = Lifecycle!Absent
    <2>1. doc[d].cur = 0 /\ doc[d].deleted = FALSE /\ ~(0 > 0)
      BY DEF Init, StoreInit
    <2>2. (doc[d].cur > 0 /\ doc[d].shown = doc[d].cur) = FALSE
      BY <2>1
    <2>3. (doc[d].cur > 0 /\ chunks[CurrentId(d)] = doc[d].cur) = FALSE
      BY <2>1
    <2> QED BY <2>1, <2>2, <2>3 DEF Shown, Fetched, Indexed, Lifecycle!Absent
  <1> QED BY <1>1 DEF Lifecycle!Init, Shown, Fetched, Indexed

\* A document whose rows do not change is shown as before.
LEMMA OthersShown ==
  ASSUME TypeInv, NEW e \in Docs, Keeps(e), chunks'[CurrentId(e)] = chunks[CurrentId(e)]
  PROVE  Shown(e)' = Shown(e)
  BY DEF Shown, Fetched, Indexed, Keeps, CurrentId

\* A quiet step is a stutter to the reader.
LEMMA QuietRefines ==
  ASSUME TypeInv, Quiet
  PROVE  View' = View
  BY OthersShown DEF Quiet, View

\* A step that changes what is shown of one document changes the view at that document.
LEMMA ViewChange ==
  ASSUME NEW d \in Docs, NEW row,
         Shown(d)' = row,
         \A e \in Docs \ {d} : Shown(e)' = Shown(e)
  PROVE  View' = [View EXCEPT ![d] = row]
  BY DEF View

\* What is shown of a document, field by field.
LEMMA ShownFields ==
  ASSUME NEW d \in Docs, NEW b
  PROVE  /\ [Shown(d) EXCEPT !.fetched = b] =
              [version |-> doc[d].cur, fetched |-> b, indexed |-> Indexed(d),
               removed |-> doc[d].deleted]
         /\ [Shown(d) EXCEPT !.indexed = b] =
              [version |-> doc[d].cur, fetched |-> Fetched(d), indexed |-> b,
               removed |-> doc[d].deleted]
         /\ [Shown(d) EXCEPT !.removed = b] =
              [version |-> doc[d].cur, fetched |-> Fetched(d), indexed |-> Indexed(d),
               removed |-> b]
  <1> DEFINE n == doc[d].cur
             f == Fetched(d)
             i == Indexed(d)
             r == doc[d].deleted
  <1>1. Shown(d) = [version |-> n, fetched |-> f, indexed |-> i, removed |-> r]
    BY DEF Shown
  <1> HIDE DEF n, f, i, r
  <1>2. /\ [Shown(d) EXCEPT !.fetched = b] = [version |-> n, fetched |-> b, indexed |-> i, removed |-> r]
        /\ [Shown(d) EXCEPT !.indexed = b] = [version |-> n, fetched |-> f, indexed |-> b, removed |-> r]
        /\ [Shown(d) EXCEPT !.removed = b] = [version |-> n, fetched |-> f, indexed |-> i, removed |-> b]
    BY <1>1
  <1> USE DEF n, f, i, r
  <1> QED BY <1>2

\* A step that creates a version is NewVersion.
LEMMA CreatesRefines ==
  ASSUME TypeInv, NoContentAhead, NEW d \in Docs, Creates(d)
  PROVE  Lifecycle!NewVersion(d)
  <1> USE StoreAssumption
  <1>1. /\ doc[d].cur \in 0..MaxVersion /\ doc[d].shown \in 0..MaxVersion
        /\ doc[d].shown <= doc[d].cur
    BY DEF TypeInv, TypeOK, StoreTypeOK, DocRow, NoContentAhead
  <1> DEFINE next == <<d, doc[d].cur + 1>>
  <1>2. next \in VersionIds /\ next[1] = d /\ next[2] > doc[d].cur
    BY <1>1 DEF Creates
  <1>3. chunks[next] = 0 /\ CurrentId(d)' = next
    BY <1>2 DEF NoContentAhead, Creates, CurrentId
  <1>4. Shown(d)' = [version |-> doc[d].cur + 1, fetched |-> d \notin Webpages,
                     indexed |-> FALSE, removed |-> FALSE]
    <2>1. /\ doc'[d].cur = doc[d].cur + 1 /\ doc'[d].deleted = FALSE
          /\ doc'[d].cur > 0 /\ chunks'[CurrentId(d)'] # doc'[d].cur
          /\ doc'[d].shown = doc'[d].cur <=> d \notin Webpages
      BY <1>1, <1>3 DEF Creates
    <2> QED BY <2>1 DEF Shown, Fetched, Indexed
  <1>5. \A e \in Docs \ {d} : Shown(e)' = Shown(e)
    BY OthersShown DEF Creates, KeepsOthers
  <1>6. /\ ~View[d].removed /\ View[d].version < MaxVersion /\ View[d].version = doc[d].cur
    BY DEF View, Shown, Creates
  <1>7. View' = [View EXCEPT ![d] = [version |-> View[d].version + 1, fetched |-> d \notin Webpages,
                                     indexed |-> FALSE, removed |-> FALSE]]
    BY <1>4, <1>5, <1>6, ViewChange
  <1> QED BY <1>6, <1>7 DEF Lifecycle!NewVersion, View, Shown, Fetched, Indexed

\* A step that stores the text of the current version is Fetch.
LEMMA FetchesRefines ==
  ASSUME TypeInv, NEW d \in Docs, Fetches(d)
  PROVE  Lifecycle!Fetch(d)
  <1>1. doc[d].cur > 0 /\ ~doc[d].deleted
    BY DEF Fetches, Live
  <1>2. Shown(d)' = [View[d] EXCEPT !.fetched = TRUE]
    <2>1. /\ doc'[d].cur = doc[d].cur /\ doc'[d].deleted = doc[d].deleted
          /\ doc'[d].shown = doc'[d].cur /\ UNCHANGED chunks /\ doc'[d].cur > 0
      BY <1>1 DEF Fetches
    <2>2. Fetched(d)' = TRUE /\ Indexed(d)' = Indexed(d)
      BY <2>1 DEF Fetched, Indexed, CurrentId
    <2>3. Shown(d)' = [version |-> doc[d].cur, fetched |-> TRUE, indexed |-> Indexed(d),
                       removed |-> doc[d].deleted]
      BY <2>1, <2>2, Zenon DEF Shown
    <2> QED BY <2>3, ShownFields, Zenon DEF View
  <1>3. \A e \in Docs \ {d} : Shown(e)' = Shown(e)
    BY OthersShown DEF Fetches, KeepsOthers
  <1>4. View' = [View EXCEPT ![d] = [View[d] EXCEPT !.fetched = TRUE]]
    BY <1>2, <1>3, ViewChange
  <1>5. View[d].version > 0 /\ ~View[d].removed
    BY <1>1 DEF View, Shown
  <1> QED BY <1>4, <1>5 DEF Lifecycle!Fetch, Lifecycle!Present, View, Shown, Fetched, Indexed

\* A step that stores the chunks of the current version is Index.
LEMMA IndexesRefines ==
  ASSUME TypeInv, NEW d \in Docs, Indexes(d)
  PROVE  Lifecycle!Index(d)
  <1> USE StoreAssumption
  <1>1. /\ doc[d].cur \in Versions /\ ~doc[d].deleted /\ doc[d].shown = doc[d].cur
        /\ chunks \in [VersionIds -> Texts] /\ CurrentId(d) \in VersionIds
    BY DEF TypeInv, TypeOK, StoreTypeOK, DocRow, Indexes, Live, CurrentId
  <1>2. Shown(d)' = [View[d] EXCEPT !.indexed = TRUE]
    <2>1. /\ Keeps(d) /\ CurrentId(d)' = CurrentId(d) /\ doc'[d].cur > 0
          /\ chunks'[CurrentId(d)] = doc'[d].cur
      BY <1>1 DEF Indexes, Keeps, CurrentId
    <2>2. Fetched(d)' = Fetched(d) /\ Indexed(d)' = TRUE
      BY <2>1 DEF Fetched, Indexed, Keeps
    <2>3. Shown(d)' = [version |-> doc[d].cur, fetched |-> Fetched(d), indexed |-> TRUE,
                       removed |-> doc[d].deleted]
      BY <2>1, <2>2, Zenon DEF Shown, Keeps
    <2> QED BY <2>3, ShownFields, Zenon DEF View
  <1>3. ASSUME NEW e \in Docs \ {d} PROVE Shown(e)' = Shown(e)
    <2>1. CurrentId(e) # CurrentId(d)
      BY DEF CurrentId
    <2>2. chunks'[CurrentId(e)] = chunks[CurrentId(e)] \/ CurrentId(e) \notin VersionIds
      BY <1>1, <2>1 DEF Indexes
    <2>3. doc[e].cur \in 0..MaxVersion
      BY DEF TypeInv, TypeOK, StoreTypeOK, DocRow
    <2>4. CASE CurrentId(e) \in VersionIds
      BY <2>2, <2>4, OthersShown DEF Indexes
    <2>5. CASE CurrentId(e) \notin VersionIds
      <3>1. doc[e].cur = 0
        BY <2>3, <2>5 DEF CurrentId
      <3> QED BY <3>1 DEF Shown, Fetched, Indexed, Indexes, Keeps
    <2> QED BY <2>4, <2>5
  <1>4. View' = [View EXCEPT ![d] = [View[d] EXCEPT !.indexed = TRUE]]
    BY <1>2, <1>3, ViewChange
  <1>5. View[d].version > 0 /\ ~View[d].removed /\ View[d].fetched
    <2>1. Fetched(d)
      BY <1>1 DEF Fetched
    <2> QED BY <1>1, <2>1 DEF View, Shown
  <1> QED BY <1>4, <1>5 DEF Lifecycle!Index, Lifecycle!Present, View, Shown, Fetched, Indexed

\* A step that deletes the document is Remove.
LEMMA RemovesRefines ==
  ASSUME TypeInv, NEW d \in Docs, Removes(d)
  PROVE  Lifecycle!Remove(d)
  <1>1. doc[d].cur > 0 /\ ~doc[d].deleted
    BY DEF Removes, Live
  <1>2. Shown(d)' = [View[d] EXCEPT !.removed = TRUE]
    <2>1. Fetched(d)' = Fetched(d) /\ Indexed(d)' = Indexed(d)
      BY DEF Fetched, Indexed, Removes, CurrentId
    <2>2. doc'[d].cur = doc[d].cur /\ doc'[d].deleted = TRUE
      BY DEF Removes
    <2>3. Shown(d)' = [version |-> doc[d].cur, fetched |-> Fetched(d), indexed |-> Indexed(d),
                       removed |-> TRUE]
      BY <2>1, <2>2, Zenon DEF Shown
    <2> QED BY <2>3, ShownFields, Zenon DEF View
  <1>3. \A e \in Docs \ {d} : Shown(e)' = Shown(e)
    BY OthersShown DEF Removes, KeepsOthers
  <1>4. View' = [View EXCEPT ![d] = [View[d] EXCEPT !.removed = TRUE]]
    BY <1>2, <1>3, ViewChange
  <1>5. View[d].version > 0 /\ ~View[d].removed
    BY <1>1 DEF View, Shown
  <1> QED BY <1>4, <1>5 DEF Lifecycle!Remove, Lifecycle!Present, View, Shown, Fetched, Indexed

\* Every step of the pipeline is a step of the promise to the reader, or one the reader
\* does not see, whatever fails, is repeated or comes late.
THEOREM Refines == Spec => LifecycleSpec
  <1>1. TypeInv /\ ServedInv /\ NoContentAhead /\ [Next]_vars => NoContentAhead'
    BY EveryStepIsOfAKind, NoContentAheadStep
  <1>2. ASSUME TypeInv, NoContentAhead, Kinds PROVE [Lifecycle!Next]_View
    <2>1. CASE Quiet
      BY <1>2, <2>1, QuietRefines
    <2>2. ASSUME NEW d \in Docs, Creates(d) \/ Fetches(d) \/ Indexes(d) \/ Removes(d)
          PROVE  Lifecycle!Next
      BY <1>2, <2>2, CreatesRefines, FetchesRefines, IndexesRefines, RemovesRefines DEF Lifecycle!Next
    <2> QED BY <1>2, <2>1, <2>2 DEF Kinds
  <1>3. TypeInv /\ ServedInv /\ NoContentAhead /\ [Next]_vars => [Lifecycle!Next]_View
    BY <1>2, EveryStepIsOfAKind
  <1> QED BY <1>1, <1>3, InitNoContentAhead, InitRefines, Invariants, PTL
          DEF Spec, LifecycleSpec, Lifecycle!Spec, View, Shown, Fetched, Indexed
=============================================================================
