------------------------------- MODULE Outbox -------------------------------
(***************************************************************************)
(* The outbox dispatcher of a worker process (internal/worker/outbox.go).  *)
(* DispatchBatch claims unpublished events under the lock token of the     *)
(* process, then sends each and marks it in a second transaction, so that  *)
(* anything may happen between the claim, the send and the mark.           *)
(*                                                                         *)
(* Leases and backoff are durations; here an event whose backoff runs is   *)
(* left out of a claim, and a lease that another process still works under *)
(* expires only as a fault.                                                *)
(***************************************************************************)
EXTENDS Store

VARIABLE dispatcher  \* batch: events still to send; sent: the one sent, not yet marked

DispatcherIdle == [batch |-> {}, sent |-> {}]

DispatcherTypeOK ==
  dispatcher \in [Workers -> [batch : SUBSET VersionIds, sent : SUBSET VersionIds]]

DispatcherInit == dispatcher = [w \in Workers |-> DispatcherIdle]

\* Some process believes it holds the lease of j and is still working on it.
LeasedElsewhere(w, j) ==
  \E u \in Workers \ {w} : j \in dispatcher[u].batch \cup dispatcher[u].sent

\* Wrong variant: an event is claimed once and for all.
DueUnclaimed(j) == outbox[j].state = "PENDING" /\ outbox[j].token = None

Due(j) == outbox[j].state = "PENDING"

\* ClaimOutboxEvents.  Any non-empty set of due events, because available_at,
\* locked_until and FOR UPDATE SKIP LOCKED decide which rows a claim gets.
ClaimOutboxEvents(w) ==
  /\ dispatcher[w] = DispatcherIdle
  /\ \E batch \in SUBSET {j \in VersionIds : Due(j)} \ {{}} :
       /\ IF \E j \in batch : LeasedElsewhere(w, j) THEN Fault ELSE UNCHANGED faults
       /\ outbox' = [j \in VersionIds |->
                       IF j \in batch THEN ClaimOutboxEvent(outbox[j], w) ELSE outbox[j]]
       /\ dispatcher' = [dispatcher EXCEPT ![w].batch = batch]
  /\ UNCHANGED <<doc, text, keys, scrapeJob, enrichJob, inbox, chunks, cleanup,
                 requests, results, objects>>

SendMessage(w, j) ==
  /\ dispatcher[w].sent = {}
  /\ j \in dispatcher[w].batch
  /\ requests' = [requests EXCEPT ![j] = MaxScrapes]
  /\ dispatcher' = [dispatcher EXCEPT ![w] = [batch |-> @.batch \ {j}, sent |-> {j}]]
  /\ UNCHANGED <<doc, text, keys, scrapeJob, enrichJob, outbox, inbox, chunks, cleanup,
                 results, objects, faults>>

\* The send returns an error, whether or not the queue took the message.
SendMessageFails(w, j) ==
  /\ dispatcher[w].sent = {}
  /\ j \in dispatcher[w].batch
  /\ Fault
  /\ requests' \in {requests, [requests EXCEPT ![j] = MaxScrapes]}
  /\ outbox' = [outbox EXCEPT ![j] = RescheduleOrDeadLetter(@, w)]
  /\ dispatcher' = [dispatcher EXCEPT ![w].batch = @ \ {j}]
  /\ UNCHANGED <<doc, text, keys, scrapeJob, enrichJob, inbox, chunks, cleanup, results, objects>>

\* The statement after a failed send fails as well, or is not answered: dead-lettering
\* goes on with the batch, rescheduling abandons it.  Which of the two it is goes by
\* the attempts read at the claim, those of the row as long as the token is held.
RescheduleFails(w, j) ==
  /\ dispatcher[w].sent = {}
  /\ j \in dispatcher[w].batch
  /\ Fault
  /\ requests' \in {requests, [requests EXCEPT ![j] = MaxScrapes]}
  /\ outbox' \in {outbox, [outbox EXCEPT ![j] = RescheduleOrDeadLetter(@, w)]}
  /\ \E last \in BOOLEAN :
       /\ Leased(outbox[j], w) => last = (outbox[j].attempts + 1 = MaxSendAttempts)
       /\ dispatcher' = [dispatcher EXCEPT ![w].batch = IF last THEN @ \ {j} ELSE {}]
  /\ UNCHANGED <<doc, text, keys, scrapeJob, enrichJob, inbox, chunks, cleanup, results, objects>>

\* The statements of markPublishedAndProcessing.
Mark(w, j) ==
  /\ outbox' = [outbox EXCEPT ![j] = MarkOutboxPublished(@, w)]
  /\ scrapeJob' = [scrapeJob EXCEPT ![j] = MarkJobProcessing(@)]
  /\ doc' = [doc EXCEPT ![j[1]] = MarkDocumentProcessing(@, j[2])]

\* A lost token makes the first statement match no row: the transaction is rolled
\* back and the rest of the batch is abandoned.
MarkPublishedAndProcessing(w) ==
  \E j \in dispatcher[w].sent :
    /\ IF Leased(outbox[j], w)
       THEN Mark(w, j) /\ dispatcher' = [dispatcher EXCEPT ![w].sent = {}]
       ELSE /\ dispatcher' = [dispatcher EXCEPT ![w] = DispatcherIdle]
            /\ UNCHANGED <<outbox, scrapeJob, doc>>
    /\ UNCHANGED <<text, keys, enrichJob, inbox, chunks, cleanup, requests, results,
                   objects, faults>>

\* The mark transaction fails after the message went out, or its commit is not answered.
MarkFails(w) ==
  \E j \in dispatcher[w].sent :
    /\ Fault
    /\ dispatcher' = [dispatcher EXCEPT ![w] = DispatcherIdle]
    /\ \/ UNCHANGED <<outbox, scrapeJob, doc>>
       \/ Leased(outbox[j], w) /\ Mark(w, j)
    /\ UNCHANGED <<text, keys, enrichJob, inbox, chunks, cleanup, requests, results, objects>>

DispatchBatch(w) ==
  \/ ClaimOutboxEvents(w)
  \/ \E j \in VersionIds : SendMessage(w, j)
  \/ MarkPublishedAndProcessing(w)

DispatcherNext ==
  \E w \in Workers :
    \/ DispatchBatch(w)
    \/ MarkFails(w)
    \/ \E j \in VersionIds : SendMessageFails(w, j) \/ RescheduleFails(w, j)
=============================================================================
