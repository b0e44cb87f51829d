---------------------------- MODULE Collections ----------------------------
(***************************************************************************)
(* The collections of an account: the requests that create, fill, rename   *)
(* and delete them (internal/library/service.go), run beside the deletion  *)
(* of the documents that they hold and the withdrawal of the account.      *)
(*                                                                         *)
(* A transaction is several steps where a statement of another one may     *)
(* fall in between: PostgreSQL shows it the committed rows (READ           *)
(* COMMITTED), and makes it wait for the rows that the other one has       *)
(* changed.  A transaction that would wait for ever is abandoned, as any   *)
(* other may be.                                                           *)
(***************************************************************************)
EXTENDS Naturals, FiniteSets

CONSTANTS
  LastDoc,      \* documents are numbered by (created_at, id)
  Collections,  \* UUIDs of collections
  Names,
  Requests,     \* API requests that run at the same time
  None,
  MaxBatch      \* bound: documents of a request

ASSUME CollectionsAssumption ==
  /\ LastDoc \in Nat
  /\ MaxBatch \in Nat
  /\ None \notin Names \cup Collections \cup {"NEW", "GONE"}
  /\ {"NEW", "GONE"} \cap Names = {}

Docs  == 1..LastDoc
Pairs == Collections \X Docs

VARIABLES
  account,  \* the account that owns all of it
  doc,      \* documents: DELETING until Delete commits, then DELETED; CLOSED by a withdrawal
  name,     \* collections.name; NEW: not created, GONE: deleted
  relation, \* collection_documents
  purged,   \* relations that a deletion under way has removed
  request,  \* what a request has read and written
  overlap   \* history: pairs whose addition ran beside the deletion of their document

collectionVars == <<account, doc, name, relation, purged, request, overlap>>

Idle == [pc |-> "idle", coll |-> None, from |-> None, to |-> None,
         target |-> None, todo |-> {}, drop |-> {}, picked |-> {}, added |-> {}]

Phases == {"idle", "found", "writing"}

\* The row is in the table, deleted_at or not.
RowOf(d) == doc[d] \notin {"NONE", "REMOVED"}

CollectionsTypeOK ==
  /\ account \in {"ACTIVE", "WITHDRAWN", "REMOVED"}
  /\ doc \in [Docs -> {"NONE", "LIVE", "DELETING", "DELETED", "CLOSED", "REMOVED"}]
  /\ name \in [Collections -> Names \cup {"NEW", "GONE"}]
  /\ \A c, e \in Collections : name[c] = name[e] /\ name[c] \in Names => c = e
  /\ relation \subseteq {p \in Pairs : name[p[1]] \in Names /\ RowOf(p[2])}
  /\ purged \subseteq {p \in relation : doc[p[2]] = "DELETING"}
  /\ request \in [Requests ->
       [pc : Phases, coll : Collections \cup {None}, from : Names \cup {None},
        to : Names \cup {None}, target : Collections \cup {None},
        todo : SUBSET Docs, drop : SUBSET Docs, picked : SUBSET Docs, added : SUBSET Docs]]
  /\ overlap \subseteq Pairs

CollectionsInit ==
  /\ account = "ACTIVE"
  /\ doc = [d \in Docs |-> "NONE"]
  /\ name = [c \in Collections |-> "NEW"]
  /\ relation = {}
  /\ purged = {}
  /\ request = [r \in Requests |-> Idle]
  /\ overlap = {}

\* d.deleted_at IS NULL: what an uncommitted deletion has written is not seen.
Live(d) == doc[d] \in {"LIVE", "DELETING"}

-----------------------------------------------------------------------------
(* What a transaction has written and not committed yet.                   *)

Added(r) == {<<request[r].coll, d>> : d \in request[r].added}

\* What it is adding or has added.
Adding(r) == request[r].picked \cup request[r].added

Pending(p) == \E r \in Requests : request[r].coll = p[1] /\ p[2] \in Adding(r)

\* The history is kept as long as it is of a relation, or of one to come.
Noted == {p \in overlap : (p \in relation \/ Pending(p))'}

Creating(r) == request[r].target # None /\ name[request[r].target] = "NEW"

\* lockActiveAccount: CreateCollection has the row of the account until its commit.
AccountFree == account = "ACTIVE" /\ \A r \in Requests : ~Creating(r)

Renaming(r) == request[r].target # None /\ request[r].to # name[request[r].target]

\* A changed name is locked exclusively, and the rows of collection_documents lock the
\* collection that they refer to against it.
NameFree(r, c) == \A q \in Requests \ {r} : request[q].target # c

Referred(r, c) == \E q \in Requests \ {r} : request[q].coll = c /\ request[q].added # {}

\* Wrong variant: no unique index.
AvailableToAll(r, n) == TRUE

\* The unique index: a name that another transaction wants has to be waited for.
Available(r, n) ==
  /\ \A q \in Requests \ {r} : request[q].target # None => request[q].to # n
  /\ \A c \in Collections : name[c] # n

-----------------------------------------------------------------------------
(* AddDocumentsToCollection and UpdateCollection start with a read of the  *)
(* collection outside of the transaction; CreateCollection has none.  The  *)
(* check of the documents and the statement after it are one step: one     *)
(* reads documents only, the other collections only.                       *)

\* validateOwnedDocuments: all are found, and none is named twice.
Valid(add, drop) ==
  /\ Cardinality(add) + Cardinality(drop) <= MaxBatch
  /\ add \cap drop = {}
  /\ \A d \in add \cup drop : Live(d)

GetCollectionByName(r, c) ==
  /\ request[r].pc = "idle"
  /\ name[c] \in Names
  /\ request' = [request EXCEPT ![r] = [Idle EXCEPT !.pc = "found", !.coll = c, !.from = name[c]]]
  /\ UNCHANGED <<account, doc, name, relation, purged, overlap>>

AddDocumentsToCollection(r) ==
  /\ request[r].pc = "found"
  /\ \E add \in SUBSET Docs :
       /\ Valid(add, {})
       /\ request' = [request EXCEPT ![r] = [@ EXCEPT !.pc = "writing", !.from = None, !.todo = add]]
  /\ UNCHANGED <<account, doc, name, relation, purged, overlap>>

\* The row that has the name now, which need not be the collection that was found.
UpdateCollection(r, c, to) ==
  /\ request[r].pc = "found"
  /\ name[c] = request[r].from /\ NameFree(r, c)
  /\ to # name[c] => ~Referred(r, c) /\ Available(r, to)
  /\ \E add, drop \in SUBSET Docs :
       /\ Valid(add, drop)
       /\ request' = [request EXCEPT ![r] =
            [@ EXCEPT !.pc = "writing", !.from = None, !.to = to, !.target = c,
                      !.todo = add, !.drop = drop]]
  /\ UNCHANGED <<account, doc, name, relation, purged, overlap>>

CreateCollection(r, c, to) ==
  /\ AccountFree
  /\ request[r].pc = "idle"
  /\ name[c] = "NEW"
  /\ Available(r, to)
  /\ \E add \in SUBSET Docs :
       /\ Valid(add, {})
       /\ request' = [request EXCEPT ![r] =
            [Idle EXCEPT !.pc = "writing", !.coll = c, !.to = to, !.target = c, !.todo = add]]
  /\ UNCHANGED <<account, doc, name, relation, purged, overlap>>

\* Wrong variant: d.deleted_at is not asked for.
SelectedThoughDeleted(c, d) == RowOf(d) /\ name[c] # "GONE"

\* What the SELECT of AddDocumentToCollection finds, in the snapshot of its statement.
Selected(c, d) == Live(d) /\ name[c] # "GONE"

\* INSERT ... SELECT is two steps, since the row that was found is inserted after all
\* waiting, and without a second look.
SelectDocument(r, d) ==
  LET c == request[r].coll IN
  /\ request[r].pc = "writing" /\ request[r].picked = {} /\ d \in request[r].todo
  /\ request' = [request EXCEPT ![r].todo = @ \ {d},
                                ![r].picked = IF Selected(c, d) THEN {d} ELSE {}]
  /\ overlap' = IF Selected(c, d) /\ doc[d] = "DELETING" THEN overlap \cup {<<c, d>>} ELSE overlap
  /\ UNCHANGED <<account, doc, name, relation, purged>>

\* ON CONFLICT DO NOTHING.  If a row that the new one refers to is gone, the statement fails.
AddDocumentToCollection(r, d) ==
  LET c == request[r].coll IN
  /\ d \in request[r].picked
  \* what others have written to the same key, and to the collection's, is waited for
  /\ <<c, d>> \notin purged
  /\ \A q \in Requests \ {r} : <<c, d>> \notin Added(q) /\ (Renaming(q) => request[q].target # c)
  /\ name[c] # "GONE" /\ RowOf(d)
  /\ request' = [request EXCEPT ![r].picked = {},
                                ![r].added = IF <<c, d>> \in relation THEN @ ELSE @ \cup {d}]
  /\ UNCHANGED <<account, doc, name, relation, purged, overlap>>

\* RemoveOwnedDocumentFromCollection, for all that are to be removed, and the commit.
Commit(r) ==
  LET removed == {<<request[r].coll, d>> : d \in request[r].drop} IN
  /\ request[r].pc = "writing" /\ request[r].todo = {} /\ request[r].picked = {}
  /\ removed \cap purged = {}
  /\ relation' = (relation \cup Added(r)) \ removed
  /\ name' = IF request[r].target = None THEN name
             ELSE [name EXCEPT ![request[r].target] = request[r].to]
  /\ request' = [request EXCEPT ![r] = Idle]
  /\ UNCHANGED <<account, doc, purged>>
  /\ overlap' = Noted

\* The collection or a document is not found, the name is taken, or a call fails: the
\* transaction, if there is one, is rolled back.
Abandon(r) ==
  /\ request[r].pc # "idle"
  /\ request' = [request EXCEPT ![r] = Idle]
  /\ UNCHANGED <<account, doc, name, relation, purged>>
  /\ overlap' = Noted

\* A single statement; its relations go with the collection.
DeleteCollection(c) ==
  /\ name[c] \in Names
  /\ \A r \in Requests : request[r].target # c /\ (request[r].coll = c => request[r].added = {})
  /\ \A p \in purged : p[1] # c
  /\ name' = [name EXCEPT ![c] = "GONE"]
  /\ relation' = {p \in relation : p[1] # c}
  /\ UNCHANGED <<account, doc, purged, request>>
  /\ overlap' = Noted

-----------------------------------------------------------------------------
(* The documents come from CreateMemo, CreateWebpage and Upload, each with *)
(* the time at which its transaction began, so that one may appear before  *)
(* another that is older.                                                  *)

CreateDocument(d) ==
  /\ AccountFree
  /\ doc[d] = "NONE"
  /\ doc' = [doc EXCEPT ![d] = "LIVE"]
  /\ UNCHANGED <<account, name, relation, purged, request, overlap>>

DeleteDocumentCollections(d) == {p \in relation : p[2] = d}

PendingAdditions(d) == {<<request[r].coll, d>> : r \in {q \in Requests : d \in Adding(q)}}

\* The statements of Delete; the relations that are committed by then are removed.  (One
\* that is rolled back changes nothing.)
DeleteDocument(d) ==
  /\ doc[d] = "LIVE"
  /\ doc' = [doc EXCEPT ![d] = "DELETING"]
  /\ purged' = purged \cup DeleteDocumentCollections(d)
  /\ overlap' = overlap \cup PendingAdditions(d)
  /\ UNCHANGED <<account, name, relation, request>>

CommitDelete(d) ==
  /\ doc[d] = "DELETING"
  /\ doc' = [doc EXCEPT ![d] = "DELETED"]
  /\ purged' = {p \in purged : p[2] # d}
  /\ relation' = {p \in relation : p \notin purged \/ p[2] # d}
  /\ UNCHANGED <<account, name, request, overlap>>

\* A withdrawal deletes all documents that are there, and leaves their relations.  It
\* waits for the account and for the rows of a Delete.
Withdraw ==
  /\ AccountFree
  /\ \A d \in Docs : doc[d] # "DELETING"
  /\ account' = "WITHDRAWN"
  /\ doc' = [d \in Docs |-> IF doc[d] = "LIVE" THEN "CLOSED" ELSE doc[d]]
  /\ UNCHANGED <<name, relation, purged, request, overlap>>

\* The maintenance removes the row a month later, when no request has the document in
\* its hands any more; relations that were left go with it.
HardDeleteDocument(d) ==
  /\ doc[d] \in {"DELETED", "CLOSED"}
  /\ \A r \in Requests : d \notin request[r].todo \cup request[r].drop \cup Adding(r)
  /\ doc' = [doc EXCEPT ![d] = "REMOVED"]
  /\ relation' = {p \in relation : p[2] # d}
  /\ UNCHANGED <<account, name, purged, request>>
  /\ overlap' = Noted

\* So it does with the row of the account after a week, and all that belongs to it.
HardDeleteAccount ==
  /\ account = "WITHDRAWN"
  /\ \A r \in Requests : request[r].pc = "idle"
  /\ account' = "REMOVED"
  /\ doc' = [d \in Docs |-> IF doc[d] = "NONE" THEN "NONE" ELSE "REMOVED"]
  /\ name' = [c \in Collections |-> IF name[c] = "NEW" THEN "NEW" ELSE "GONE"]
  /\ relation' = {}
  /\ UNCHANGED <<purged, request>>
  /\ overlap' = Noted

CollectionsNext ==
  \/ \E r \in Requests, c \in Collections :
       \/ GetCollectionByName(r, c)
       \/ \E to \in Names : CreateCollection(r, c, to) \/ UpdateCollection(r, c, to)
  \/ \E r \in Requests : AddDocumentsToCollection(r) \/ Commit(r) \/ Abandon(r)
  \/ \E r \in Requests, d \in Docs : SelectDocument(r, d) \/ AddDocumentToCollection(r, d)
  \/ \E c \in Collections : DeleteCollection(c)
  \/ \E d \in Docs :
       \/ CreateDocument(d) \/ DeleteDocument(d) \/ HardDeleteDocument(d)
       \/ CommitDelete(d)
  \/ Withdraw \/ HardDeleteAccount

-----------------------------------------------------------------------------
(* What holds of the relations.                                            *)

\* Delete takes a document out of its collections.  A relation that it leaves was under way
\* when it ran: found by a SELECT before its commit, and not committed before its DELETE;
\* neither sees what the other has not committed, and no lock is common to both.  (What a
\* withdrawal deletes is not of these: it keeps its relations as long as its rows.)
RelationsOnlyByOverlap ==
  \A p \in relation : doc[p[2]] = "DELETED" => p \in overlap
=============================================================================
