------------------------------ MODULE Scraper ------------------------------
(***************************************************************************)
(* The external side of a scrape: the Node Lambda behind the request queue *)
(* and the SQS redelivery of its messages.  None of it is under src/; it is *)
(* what docs/events.md and infra/aws/core.yaml let the worker count on.    *)
(*                                                                         *)
(* A run takes one of the deliveries that the request has left.  The       *)
(* artifacts are stored under a key made of document, version and job      *)
(* before the result is sent, and a result carries the request's eventId.  *)
(***************************************************************************)
EXTENDS Store

Send(j, event, kind) ==
  results' = [results EXCEPT ![[id |-> j, event |-> event, kind |-> kind]] = MaxReceives]

dbUnchanged ==
  UNCHANGED <<doc, text, keys, scrapeJob, enrichJob, outbox, inbox, chunks, cleanup>>

ScrapeSucceeds(j) ==
  /\ requests[j] > 0
  /\ objects' = objects \cup {j}
  /\ Send(j, 0, "completed")
  /\ requests' = [requests EXCEPT ![j] = 0]
  /\ UNCHANGED faults
  /\ dbUnchanged

\* The run sends its result and dies before it acknowledges the request, or the
\* request is delivered twice.
ScrapeSucceedsUnacknowledged(j) ==
  /\ requests[j] > 1
  /\ Fault
  /\ objects' = objects \cup {j}
  /\ Send(j, 0, "completed")
  /\ requests' = [requests EXCEPT ![j] = @ - 1]
  /\ dbUnchanged

\* The page cannot be scraped: the last delivery sends the failed result.
ScrapeFails(j) ==
  /\ requests[j] > 0
  /\ requests' = [requests EXCEPT ![j] = @ - 1]
  /\ IF requests[j] = 1 THEN Send(j, 0, "failed") ELSE UNCHANGED results
  /\ UNCHANGED <<objects, faults>>
  /\ dbUnchanged

\* The run dies; after the last delivery the request is in its dead-letter queue.
ScrapeDies(j) ==
  /\ requests[j] > 0
  /\ Fault
  /\ requests' = [requests EXCEPT ![j] = @ - 1]
  /\ objects' \in {objects, objects \cup {j}}
  /\ UNCHANGED results
  /\ dbUnchanged

\* The outcome that was consumed is sent again under another eventId.
Reissue(j, event) ==
  /\ event \in 1..Reissues
  /\ <<j, 0>> \in inbox
  /\ <<j, event>> \notin inbox
  /\ Fault
  /\ Send(j, event, IF j \in keys THEN "completed" ELSE "failed")
  /\ UNCHANGED <<requests, objects>>
  /\ dbUnchanged

\* What the Lambda does when nothing goes wrong around it.
ScraperAnswers(j) == ScrapeSucceeds(j) \/ ScrapeFails(j)

ScraperNext ==
  \E j \in VersionIds :
    \/ ScraperAnswers(j)
    \/ ScrapeSucceedsUnacknowledged(j)
    \/ ScrapeDies(j)
    \/ \E event \in 1..Reissues : Reissue(j, event)
=============================================================================
