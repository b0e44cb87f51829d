---------------------------- MODULE Documented ----------------------------
(***************************************************************************)
(* Sentences of docs/ about the ingestion pipeline that the code does not  *)
(* keep.  Each is stated as the document has it; TLC gives the behaviour   *)
(* of Ingestion that breaks it.                                            *)
(***************************************************************************)
EXTENDS Ingestion

\* docs/operations.md, scraper failure: the last failed result ends the document as
\* SCRAPE_REJECTED.  The mark of a dispatcher that comes after that result takes the
\* document from SCRAPE_REJECTED to SCRAPE_PROCESSING, where nothing ends it.
LastFailureRejects ==
  \A d \in Docs :
    <<CurrentId(d), 0>> \in inbox /\ CurrentId(d) \notin keys /\ ~doc[d].deleted
      => doc[d].status = "SCRAPE_REJECTED"

\* No message about d is on its way, and no worker is busy with d.
Quiet(d) ==
  /\ \A j \in VersionIds : j[1] = d => requests[j] = 0
  /\ \A m \in Results : m.id[1] = d => results[m] = 0
  /\ \A w \in Workers :
       /\ consumer[w] = ConsumerIdle
       /\ d \notin cleaner[w].batch \cup {cleaner[w].doc}

\* docs/data-model.md, deletion: a result that arrives at the same time as the cleanup
\* requeues the cleanup job, so that the last artifact is deleted as well.  The
\* consumer requeues it only if it found the document deleted before its transaction.
LastArtifactIsDeleted ==
  \A j \in keys :
    doc[j[1]].deleted /\ cleanup[j[1]].state = "SUCCEEDED" /\ Quiet(j[1]) => j \notin objects

\* docs/data-model.md, document states: no transition leaves COMPLETED but a new
\* version.  The rejection that follows a failed call goes by version alone, and
\* overwrites the COMPLETED of another worker or of a commit whose answer was lost.
CompletedStaysCompleted ==
  [][\A d \in Docs : doc[d].status = "COMPLETED" /\ doc'[d].cur = doc[d].cur
       => doc'[d].status = "COMPLETED"]_doc

\* docs/data-model.md, job states: a PROCESSING job whose worker crashed is claimed
\* again.  A claim asks for attempts that are left, so that a crash in the last one
\* leaves the job PROCESSING.
CrashedLeaseIsReclaimed ==
  \A j \in VersionIds : enrichJob[j].state = "PROCESSING" ~> enrichJob[j].state # "PROCESSING"
=============================================================================
