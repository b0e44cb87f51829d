--------------------------- MODULE ScrapeResults ---------------------------
(***************************************************************************)
(* The scrape result consumer of a worker process                          *)
(* (internal/worker/scrape_results.go).  processMessage reads the artifact, *)
(* the job and the document outside its transaction, each at its own time, *)
(* and decides inside the transaction on what it read.                     *)
(*                                                                         *)
(* Poll receives up to five messages and works them one after the other;   *)
(* the ones still waiting hold nothing but their SQS invisibility, so that *)
(* a worker takes one message at a time here.                              *)
(***************************************************************************)
EXTENDS Store

VARIABLE consumer  \* where processMessage stands and what it has read

ConsumerIdle == [pc |-> "idle", msg |-> None, job |-> "NONE", seen |-> 0]

\* seen is the current version of the document as read, 0 if it was not found.
ConsumerTypeOK ==
  /\ consumer \in [Workers -> [pc : {"idle", "fetched", "job", "document", "done"},
                               msg : Results \cup {None}, job : JobStates, seen : 0..MaxVersion]]
  /\ \A w \in Workers : consumer[w].pc # "idle" => consumer[w].msg \in Results

ConsumerInit == consumer = [w \in Workers |-> ConsumerIdle]

ConsumerStops(w) == consumer' = [consumer EXCEPT ![w] = ConsumerIdle]

Readable(m) == m.kind = "failed" \/ InlineContent \/ m.id \in objects

\* ReceiveMessage, then the artifact is read: without it the message is left for
\* another delivery, and after the last one it is in the dead-letter queue.
ReceiveMessage(w, m) ==
  /\ consumer[w].pc = "idle"
  /\ results[m] > 0
  /\ results' = [results EXCEPT ![m] = @ - 1]
  /\ IF Readable(m)
     THEN consumer' = [consumer EXCEPT ![w] = [ConsumerIdle EXCEPT !.pc = "fetched", !.msg = m]]
     ELSE UNCHANGED consumer
  /\ UNCHANGED <<doc, text, keys, scrapeJob, enrichJob, outbox, inbox, chunks, cleanup,
                 requests, objects, faults>>

\* A job whose rows were removed is an error: the message is left for another delivery.
GetIngestionJob(w) ==
  /\ consumer[w].pc = "fetched"
  /\ LET job == scrapeJob[consumer[w].msg.id] IN
     IF job = "NONE"
     THEN ConsumerStops(w)
     ELSE consumer' = [consumer EXCEPT ![w].pc = "job", ![w].job = job]
  /\ UNCHANGED storeVars

GetDocumentByID(w) ==
  /\ consumer[w].pc = "job"
  /\ LET row == doc[consumer[w].msg.id[1]] IN
     consumer' = [consumer EXCEPT ![w].pc = "document",
                                  ![w].seen = IF Live(row) THEN row.cur ELSE 0]
  /\ UNCHANGED storeVars

Found(c)   == c.seen # 0
Current(c) == c.seen = c.msg.id[2]

TerminalDuplicate(c) ==
  \/ c.job = "SUCCEEDED" /\ c.msg.kind = "completed"
  \/ c.job = "FAILED" /\ c.msg.kind = "failed"

\* Wrong variant: the rows that CompleteScrape affects are not checked.
CanApplyUnmatched(c) == ~Found(c) => cleanup[c.msg.id[1]].state # "NONE"

\* CompleteScrape must match the document that was read as current, and a
\* deleted document must have a cleanup job to requeue.
CanApplyCompleted(c) ==
  LET j == c.msg.id IN
  /\ Current(c) => IsCurrent(doc[j[1]], j[2])
  /\ ~Found(c) => cleanup[j[1]].state # "NONE"

ApplyFailed(c) ==
  LET j == c.msg.id IN
  /\ doc' = [doc EXCEPT ![j[1]] = IF Current(c) THEN RejectScrape(@, j[2]) ELSE @]
  /\ scrapeJob' = [scrapeJob EXCEPT ![j] = FailJob(@)]
  /\ UNCHANGED <<text, keys, enrichJob, cleanup>>

ApplyCompleted(c) ==
  LET j == c.msg.id IN
  /\ text' = [text EXCEPT ![j] = j[2]]
  /\ keys' = keys \cup {j}
  /\ IF Current(c)
     THEN /\ doc' = [doc EXCEPT ![j[1]] = CompleteScrape(@, j[2])]
          /\ enrichJob' = [enrichJob EXCEPT ![j] = CreateEnrichJob(@)]
     ELSE UNCHANGED <<doc, enrichJob>>
  /\ cleanup' = [cleanup EXCEPT ![j[1]] = IF Found(c) THEN @ ELSE RequeueArtifactCleanupJob(@)]
  /\ scrapeJob' = [scrapeJob EXCEPT ![j] = CompleteJob(@)]

\* The transaction: an event in the inbox commits nothing, a terminal duplicate
\* commits the inbox row alone, and a statement that had to match and did not
\* rolls everything back and leaves the message for another delivery.
ApplyResult(w) ==
  LET c == consumer[w]
      event == <<c.msg.id, c.msg.event>>
      refused == c.msg.kind = "completed" /\ ~CanApplyCompleted(c)
      tables == <<doc, text, keys, scrapeJob, enrichJob, cleanup>>
  IN
  /\ c.pc = "document"
  /\ CASE event \in inbox ->
            UNCHANGED <<tables, inbox>> /\ consumer' = [consumer EXCEPT ![w].pc = "done"]
       [] event \notin inbox /\ TerminalDuplicate(c) ->
            /\ inbox' = inbox \cup {event}
            /\ consumer' = [consumer EXCEPT ![w].pc = "done"]
            /\ UNCHANGED tables
       [] event \notin inbox /\ ~TerminalDuplicate(c) /\ refused ->
            UNCHANGED <<tables, inbox>> /\ ConsumerStops(w)
       [] OTHER ->
            /\ inbox' = inbox \cup {event}
            /\ consumer' = [consumer EXCEPT ![w].pc = "done"]
            /\ IF c.msg.kind = "failed" THEN ApplyFailed(c) ELSE ApplyCompleted(c)
  /\ UNCHANGED <<outbox, chunks, requests, results, objects, faults>>

\* A read or the transaction fails, and is rolled back.
ConsumerFails(w) ==
  /\ consumer[w].pc \in {"fetched", "job", "document"}
  /\ Fault
  /\ ConsumerStops(w)
  /\ UNCHANGED <<doc, text, keys, scrapeJob, enrichJob, outbox, inbox, chunks, cleanup,
                 requests, results, objects>>

DeleteMessage(w) ==
  /\ consumer[w].pc = "done"
  /\ results' = [results EXCEPT ![consumer[w].msg] = 0]
  /\ ConsumerStops(w)
  /\ UNCHANGED <<doc, text, keys, scrapeJob, enrichJob, outbox, inbox, chunks, cleanup,
                 requests, objects, faults>>

\* DeleteMessage fails, or the commit was done and its answer lost.
DeleteMessageFails(w) ==
  /\ consumer[w].pc = "done"
  /\ Fault
  /\ ConsumerStops(w)
  /\ UNCHANGED <<doc, text, keys, scrapeJob, enrichJob, outbox, inbox, chunks, cleanup,
                 requests, results, objects>>

ProcessMessage(w) ==
  GetIngestionJob(w) \/ GetDocumentByID(w) \/ ApplyResult(w) \/ DeleteMessage(w)

Poll(w) == (\E m \in Results : ReceiveMessage(w, m)) \/ ProcessMessage(w)

ConsumerNext ==
  \E w \in Workers :
    \/ Poll(w)
    \/ ConsumerFails(w)
    \/ DeleteMessageFails(w)
=============================================================================
