---------------------------- MODULE ShelfProofs ----------------------------
(***************************************************************************)
(* Theorems about Collections and Listing for every value of their         *)
(* constants: what the deletion of a document leaves in its collections,   *)
(* also beside a withdrawal, and what a client that goes through a list    *)
(* page by page sees.                                                      *)
(***************************************************************************)
EXTENDS Listing, TLAPS

DocStates == {"NONE", "LIVE", "DELETING", "DELETED", "CLOSED", "REMOVED"}

Request ==
  [pc : Phases, coll : Collections \cup {None}, from : Names \cup {None},
   to : Names \cup {None}, target : Collections \cup {None},
   todo : SUBSET Docs, drop : SUBSET Docs, picked : SUBSET Docs, added : SUBSET Docs]

\* The types, and what a request has at which point.
TypeInv ==
  /\ account \in {"ACTIVE", "WITHDRAWN", "REMOVED"}
  /\ doc \in [Docs -> DocStates]
  /\ name \in [Collections -> Names \cup {"NEW", "GONE"}]
  /\ relation \subseteq Pairs
  /\ purged \subseteq Pairs
  /\ overlap \subseteq Pairs
  /\ request \in [Requests -> Request]
  /\ \A r \in Requests :
       /\ request[r].pc # "writing" =>
            request[r].picked = {} /\ request[r].added = {} /\ request[r].target = None
       /\ request[r].pc # "idle" => request[r].coll \in Collections
  /\ account # "ACTIVE" => \A d \in Docs : ~Live(d)

\* A name is that of one collection, also when the transactions under way have committed.
NamesInv ==
  /\ \A c, e \in Collections : name[c] = name[e] /\ name[c] \in Names => c = e
  /\ \A r \in Requests : request[r].target # None =>
       /\ request[r].to \in Names
       /\ name[request[r].target] # "GONE"
       /\ \A c \in Collections : name[c] = request[r].to => c = request[r].target
       /\ \A q \in Requests \ {r} : request[q].target # None =>
            request[q].target # request[r].target /\ request[q].to # request[r].to
  /\ \A r \in Requests :
       request[r].coll # None /\ name[request[r].coll] = "NEW" => request[r].target = request[r].coll

\* Relations, also those not committed yet, are between rows that exist.
RowsInv ==
  /\ \A c \in Collections, d \in Docs : <<c, d>> \in relation =>
       name[c] \in Names /\ doc[d] \notin {"NONE", "REMOVED"}
  /\ \A c \in Collections, d \in Docs : <<c, d>> \in purged =>
       <<c, d>> \in relation /\ doc[d] = "DELETING"
  /\ \A r \in Requests : \A d \in request[r].added :
       /\ name[request[r].coll] # "GONE"
       /\ doc[d] \notin {"NONE", "REMOVED"}
       /\ <<request[r].coll, d>> \notin relation
       /\ \A q \in Requests \ {r} : d \in request[q].added => request[q].coll # request[r].coll

\* What a deletion does not remove has run beside it.
OverlapInv ==
  /\ \A c \in Collections, d \in Docs : <<c, d>> \in relation =>
       /\ doc[d] = "DELETING" => <<c, d>> \in purged \cup overlap
       /\ doc[d] = "DELETED" => <<c, d>> \in overlap
  /\ \A r \in Requests : \A d \in Adding(r) :
       doc[d] \in {"DELETING", "DELETED"} => <<request[r].coll, d>> \in overlap

ShelfInv == TypeInv /\ NamesInv /\ RowsInv /\ OverlapInv

USE DEF Docs, Pairs, Live, RowOf, Adding

-----------------------------------------------------------------------------
(* The requests.                                                           *)

\* The other requests are as they were.
OthersKept(r) == \A q \in Requests \ {r} : request'[q] = request[q]

\* At first there is nothing on the shelf.
LEMMA InitShelf == CollectionsInit => ShelfInv
  BY CollectionsAssumption
  DEF CollectionsInit, ShelfInv, TypeInv, NamesInv, RowsInv, OverlapInv, Request, Idle, Phases, DocStates

\* A request that reads a collection knows one that exists.
LEMMA GetStep ==
  ASSUME ShelfInv, NEW r \in Requests, NEW c \in Collections, GetCollectionByName(r, c)
  PROVE  ShelfInv'
  <1>1. /\ OthersKept(r)
        /\ request' \in [Requests -> Request]
        /\ request'[r].pc = "found" /\ request'[r].coll = c
        /\ request'[r].picked = {} /\ request'[r].added = {} /\ request'[r].target = None
        /\ name[c] \in Names
        /\ UNCHANGED <<account, doc, name, relation, purged, overlap>>
    BY DEF GetCollectionByName, OthersKept, ShelfInv, TypeInv, Request, Idle, Phases
  <1>2. TypeInv'
    BY <1>1 DEF OthersKept, ShelfInv, TypeInv
  <1>3. NamesInv'
    BY <1>1, CollectionsAssumption DEF OthersKept, ShelfInv, NamesInv
  <1>4. RowsInv' /\ OverlapInv'
    BY <1>1 DEF OthersKept, ShelfInv, RowsInv, OverlapInv
  <1> QED BY <1>2, <1>3, <1>4 DEF ShelfInv

\* A request that adds to the collection it found has written nothing yet.
LEMMA AddStep ==
  ASSUME ShelfInv, NEW r \in Requests, AddDocumentsToCollection(r)
  PROVE  ShelfInv'
  <1>1. PICK add \in SUBSET Docs :
          request' = [request EXCEPT ![r] = [@ EXCEPT !.pc = "writing", !.from = None, !.todo = add]]
    BY DEF AddDocumentsToCollection
  <1>2. request[r].pc = "found" /\ UNCHANGED <<account, doc, name, relation, purged, overlap>>
    BY DEF AddDocumentsToCollection
  <1>3. /\ OthersKept(r)
        /\ request' \in [Requests -> Request]
        /\ request'[r].pc = "writing" /\ request'[r].coll = request[r].coll
        /\ request'[r].picked = request[r].picked /\ request'[r].added = request[r].added
        /\ request'[r].target = request[r].target /\ request'[r].to = request[r].to
        /\ request[r].picked = {} /\ request[r].added = {}
        /\ request[r].target = None /\ request[r].coll \in Collections
    <2>1. request \in [Requests -> Request] /\ request[r] \in Request
      BY DEF ShelfInv, TypeInv
    <2>2. [request[r] EXCEPT !.pc = "writing", !.from = None, !.todo = add] \in Request
      BY <2>1 DEF Request, Phases
    <2>3. /\ request'[r].pc = "writing" /\ request'[r].coll = request[r].coll
          /\ request'[r].picked = request[r].picked /\ request'[r].added = request[r].added
          /\ request'[r].target = request[r].target /\ request'[r].to = request[r].to
      BY <1>1, <2>1 DEF Request
    <2>4. request' \in [Requests -> Request] /\ OthersKept(r)
      BY <1>1, <2>1, <2>2 DEF OthersKept
    <2> QED BY <1>2, <2>3, <2>4 DEF ShelfInv, TypeInv
  <1>4. TypeInv'
    BY <1>2, <1>3 DEF OthersKept, ShelfInv, TypeInv
  <1>5. NamesInv'
    BY <1>2, <1>3 DEF OthersKept, ShelfInv, NamesInv
  <1>6. RowsInv' /\ OverlapInv'
    BY <1>2, <1>3 DEF OthersKept, ShelfInv, RowsInv, OverlapInv
  <1> QED BY <1>4, <1>5, <1>6 DEF ShelfInv

\* A new name is taken only if neither a collection nor a transaction under way has it.
LEMMA UpdateStep ==
  ASSUME ShelfInv, NEW r \in Requests, NEW c \in Collections, NEW to \in Names,
         UpdateCollection(r, c, to)
  PROVE  ShelfInv'
  <1>1. PICK add, drop \in SUBSET Docs :
          request' = [request EXCEPT ![r] =
            [@ EXCEPT !.pc = "writing", !.from = None, !.to = to, !.target = c,
                      !.todo = add, !.drop = drop]]
    BY DEF UpdateCollection
  <1>2. /\ request[r].pc = "found" /\ name[c] = request[r].from
        /\ \A q \in Requests \ {r} : request[q].target # c
        /\ to # name[c] => Available(r, to)
        /\ UNCHANGED <<account, doc, name, relation, purged, overlap>>
    BY DEF UpdateCollection, NameFree
  <1>3. /\ OthersKept(r)
        /\ request' \in [Requests -> Request]
        /\ request'[r].pc = "writing" /\ request'[r].coll = request[r].coll
        /\ request'[r].picked = {} /\ request'[r].added = {}
        /\ request'[r].target = c /\ request'[r].to = to
        /\ request[r].target = None /\ request[r].coll \in Collections
        /\ name[c] \in Names
    <2>1. request[r].from \in Names \cup {None} /\ name[c] \in Names \cup {"NEW", "GONE"}
      BY DEF ShelfInv, TypeInv, Request
    <2>2. name[c] \in Names
      BY <1>2, <2>1, CollectionsAssumption
    <2>4. request \in [Requests -> Request] /\ request[r] \in Request
      BY DEF ShelfInv, TypeInv
    <2>3. request' \in [Requests -> Request]
      <3>1. [request[r] EXCEPT !.pc = "writing", !.from = None, !.to = to, !.target = c,
                               !.todo = add, !.drop = drop] \in Request
        BY <2>4 DEF Request, Phases
      <3> QED BY <1>1, <2>4, <3>1
    <2>5. /\ request'[r].pc = "writing" /\ request'[r].coll = request[r].coll
          /\ request'[r].picked = request[r].picked /\ request'[r].added = request[r].added
          /\ request'[r].target = c /\ request'[r].to = to
      BY <1>1, <2>4 DEF Request
    <2>6. OthersKept(r)
      BY <1>1, <2>4 DEF OthersKept
    <2> QED BY <1>2, <2>2, <2>3, <2>5, <2>6 DEF ShelfInv, TypeInv
  <1>4. TypeInv'
    BY <1>2, <1>3 DEF OthersKept, ShelfInv, TypeInv
  <1>5. NamesInv'
    <2>1. \A e \in Collections : name[e] = to => e = c
      BY <1>2, <1>3 DEF ShelfInv, NamesInv, Available
    <2>2. \A q \in Requests \ {r} : request[q].target # None => request[q].to # to
      BY <1>2, <1>3 DEF ShelfInv, NamesInv, Available
    <2>3. name[c] # "GONE" /\ c # None
      BY <1>3, CollectionsAssumption
    <2>4. ~(request[r].coll # None /\ name[request[r].coll] = "NEW")
      BY <1>3, CollectionsAssumption DEF ShelfInv, NamesInv
    <2> QED BY <1>2, <1>3, <2>1, <2>2, <2>3, <2>4 DEF OthersKept, ShelfInv, NamesInv
  <1>6. RowsInv' /\ OverlapInv'
    BY <1>2, <1>3 DEF OthersKept, ShelfInv, RowsInv, OverlapInv
  <1> QED BY <1>4, <1>5, <1>6 DEF ShelfInv

\* A collection that is being created is known to its own request only.
LEMMA CreateStep ==
  ASSUME ShelfInv, NEW r \in Requests, NEW c \in Collections, NEW to \in Names,
         CreateCollection(r, c, to)
  PROVE  ShelfInv'
  <1>1. PICK add \in SUBSET Docs :
          request' = [request EXCEPT ![r] =
            [Idle EXCEPT !.pc = "writing", !.coll = c, !.to = to, !.target = c, !.todo = add]]
    BY DEF CreateCollection
  <1>2. /\ request[r].pc = "idle" /\ name[c] = "NEW"
        /\ \A q \in Requests \ {r} : request[q].target # c
        /\ Available(r, to)
        /\ UNCHANGED <<account, doc, name, relation, purged, overlap>>
    BY CollectionsAssumption DEF CreateCollection, AccountFree, Creating
  <1>3. /\ OthersKept(r)
        /\ request' \in [Requests -> Request]
        /\ request'[r].pc = "writing" /\ request'[r].coll = c
        /\ request'[r].picked = {} /\ request'[r].added = {}
        /\ request'[r].target = c /\ request'[r].to = to
    BY <1>1, <1>2 DEF OthersKept, ShelfInv, TypeInv, Request, Idle, Phases
  <1>4. TypeInv'
    BY <1>2, <1>3 DEF OthersKept, ShelfInv, TypeInv
  <1>5. NamesInv'
    BY <1>2, <1>3, CollectionsAssumption DEF OthersKept, ShelfInv, NamesInv, Available
  <1>6. RowsInv' /\ OverlapInv'
    BY <1>2, <1>3 DEF OthersKept, ShelfInv, RowsInv, OverlapInv
  <1> QED BY <1>4, <1>5, <1>6 DEF ShelfInv

\* The history is not shortened by a pair that is a relation, or becomes one.
LEMMA NotedKept ==
  ASSUME NEW c \in Collections, NEW d \in Docs, <<c, d>> \in overlap,
         <<c, d>> \in relation' \/ \E r \in Requests :
           request'[r].coll = c /\ d \in request'[r].picked \cup request'[r].added
  PROVE  <<c, d>> \in Noted
  BY DEF Noted, Pending

\* What is rolled back leaves nothing.
LEMMA AbandonStep ==
  ASSUME ShelfInv, NEW r \in Requests, Abandon(r)
  PROVE  ShelfInv'
  <1>1. /\ OthersKept(r)
        /\ request' \in [Requests -> Request]
        /\ request'[r].pc = "idle" /\ request'[r].coll = None
        /\ request'[r].picked = {} /\ request'[r].added = {} /\ request'[r].target = None
        /\ overlap' = Noted
        /\ UNCHANGED <<account, doc, name, relation, purged>>
    BY DEF Abandon, OthersKept, ShelfInv, TypeInv, Request, Idle, Phases
  <1>2. TypeInv'
    BY <1>1 DEF OthersKept, ShelfInv, TypeInv, Noted
  <1>3. NamesInv'
    BY <1>1 DEF OthersKept, ShelfInv, NamesInv
  <1>4. RowsInv'
    BY <1>1 DEF OthersKept, ShelfInv, RowsInv
  <1>5. OverlapInv'
    <2>1. \A c \in Collections, d \in Docs : <<c, d>> \in relation /\ <<c, d>> \in overlap =>
            <<c, d>> \in overlap'
      BY <1>1, NotedKept
    <2>2. \A q \in Requests \ {r} : \A d \in Adding(q) :
            <<request[q].coll, d>> \in overlap => <<request[q].coll, d>> \in overlap'
      <3>1. \A q \in Requests : \A d \in Adding(q) : request[q].coll \in Collections /\ d \in Docs
        BY DEF ShelfInv, TypeInv, Request, Phases
      <3> QED BY <1>1, <3>1, NotedKept DEF OthersKept
    <2> QED BY <1>1, <2>1, <2>2 DEF OthersKept, ShelfInv, OverlapInv
  <1> QED BY <1>2, <1>3, <1>4, <1>5 DEF ShelfInv

\* A row is found for a document that is seen, and noted if its deletion is under way.
LEMMA SelectStep ==
  ASSUME ShelfInv, NEW r \in Requests, NEW d \in Docs, SelectDocument(r, d)
  PROVE  ShelfInv'
  <1> DEFINE c == request[r].coll
             found == IF Selected(c, d) THEN {d} ELSE {}
  <1>1. /\ request' = [request EXCEPT ![r].todo = @ \ {d}, ![r].picked = found]
        /\ overlap' = IF Selected(c, d) /\ doc[d] = "DELETING"
                      THEN overlap \cup {<<c, d>>} ELSE overlap
        /\ request[r].pc = "writing" /\ request[r].picked = {}
        /\ UNCHANGED <<account, doc, name, relation, purged>>
    BY DEF SelectDocument
  <1>2. /\ OthersKept(r)
        /\ request' \in [Requests -> Request]
        /\ request'[r].pc = "writing" /\ request'[r].coll = c
        /\ request'[r].picked = found /\ request'[r].added = request[r].added
        /\ request'[r].target = request[r].target /\ request'[r].to = request[r].to
        /\ c \in Collections
    <2>1. request \in [Requests -> Request] /\ request[r] \in Request /\ c \in Collections
      BY <1>1 DEF ShelfInv, TypeInv
    <2>2. found \in SUBSET Docs
      OBVIOUS
    <2> HIDE DEF found, c
    <2>3. [request[r] EXCEPT !.todo = @ \ {d}, !.picked = found] \in Request
      BY <2>1, <2>2 DEF Request
    <2>4. request' = [request EXCEPT ![r] = [request[r] EXCEPT !.todo = @ \ {d}, !.picked = found]]
      BY <1>1, <2>1 DEF Request
    <2>5. /\ request'[r].pc = request[r].pc /\ request'[r].coll = request[r].coll
          /\ request'[r].picked = found /\ request'[r].added = request[r].added
          /\ request'[r].target = request[r].target /\ request'[r].to = request[r].to
      BY <2>1, <2>4 DEF Request
    <2>6. request' \in [Requests -> Request] /\ OthersKept(r)
      BY <2>1, <2>3, <2>4 DEF OthersKept
    <2> QED BY <1>1, <2>1, <2>5, <2>6 DEF c
  <1>3. TypeInv'
    BY <1>1, <1>2 DEF OthersKept, ShelfInv, TypeInv
  <1>4. NamesInv'
    BY <1>1, <1>2 DEF OthersKept, ShelfInv, NamesInv
  <1>5. RowsInv'
    BY <1>1, <1>2 DEF OthersKept, ShelfInv, RowsInv
  <1>6. \A e \in found : /\ e = d /\ doc[e] \in {"LIVE", "DELETING"}
                         /\ doc[e] = "DELETING" => <<c, e>> \in overlap'
    BY <1>1 DEF Selected
  <1>7. overlap \subseteq overlap'
    BY <1>1
  <1> HIDE DEF found, c
  <1>8. OverlapInv'
    <2>1. \A e \in request'[r].picked \cup request'[r].added :
            doc[e] \in {"DELETING", "DELETED"} => <<c, e>> \in overlap'
      BY <1>2, <1>6, <1>7 DEF ShelfInv, OverlapInv, c
    <2> QED BY <1>1, <1>2, <1>7, <2>1 DEF OthersKept, ShelfInv, OverlapInv
  <1> QED BY <1>3, <1>4, <1>5, <1>8 DEF ShelfInv

\* A row is inserted if those that it refers to are there, and nobody else inserts it.
LEMMA AddDocumentStep ==
  ASSUME ShelfInv, NEW r \in Requests, NEW d \in Docs, AddDocumentToCollection(r, d)
  PROVE  ShelfInv'
  <1> DEFINE c == request[r].coll
             rows == IF <<c, d>> \in relation THEN request[r].added ELSE request[r].added \cup {d}
  <1>1. /\ request' = [request EXCEPT ![r].picked = {},
                          ![r].added = IF <<c, d>> \in relation THEN @ ELSE @ \cup {d}]
        /\ d \in request[r].picked
        /\ \A q \in Requests \ {r} : <<c, d>> \notin Added(q)
        /\ name[c] # "GONE" /\ doc[d] \notin {"NONE", "REMOVED"}
        /\ UNCHANGED <<account, doc, name, relation, purged, overlap>>
    BY DEF AddDocumentToCollection
  <1>2. /\ OthersKept(r)
        /\ request' \in [Requests -> Request]
        /\ request'[r].pc = "writing" /\ request'[r].coll = c
        /\ request'[r].picked = {} /\ request'[r].added = rows
        /\ request'[r].target = request[r].target /\ request'[r].to = request[r].to
        /\ c \in Collections
    <2>1. request \in [Requests -> Request] /\ request[r] \in Request
      BY DEF ShelfInv, TypeInv
    <2>2. request[r].pc = "writing" /\ c \in Collections
      BY <1>1 DEF ShelfInv, TypeInv
    <2>3. rows \in SUBSET Docs
      BY <2>1 DEF Request
    <2>4. request' = [request EXCEPT ![r] = [request[r] EXCEPT !.picked = {}, !.added = rows]]
      BY <1>1, <2>1 DEF Request
    <2> HIDE DEF rows, c
    <2>5. [request[r] EXCEPT !.picked = {}, !.added = rows] \in Request
      BY <2>1, <2>3 DEF Request
    <2>6. /\ request'[r].pc = request[r].pc /\ request'[r].coll = request[r].coll
          /\ request'[r].picked = {} /\ request'[r].added = rows
          /\ request'[r].target = request[r].target /\ request'[r].to = request[r].to
      BY <2>1, <2>4 DEF Request
    <2>7. request' \in [Requests -> Request] /\ OthersKept(r)
      BY <2>1, <2>4, <2>5 DEF OthersKept
    <2> QED BY <2>2, <2>6, <2>7 DEF c
  <1>3. TypeInv'
    BY <1>1, <1>2 DEF OthersKept, ShelfInv, TypeInv
  <1>4. NamesInv'
    BY <1>1, <1>2 DEF OthersKept, ShelfInv, NamesInv
  <1>5. \A q \in Requests \ {r} : d \in request[q].added => request[q].coll # c
    BY <1>1 DEF Added
  <1>6. \A e \in rows : e \in request[r].added \/ (e = d /\ <<c, d>> \notin relation)
    OBVIOUS
  <1>7. rows \subseteq Adding(r)
    BY <1>1
  <1> HIDE DEF rows, c
  <1>8. RowsInv'
    <2>1. \A q \in Requests \ {r} : \A e \in request[q].added :
            e \in request'[r].added => request[q].coll # c
      <3>1. \A q \in Requests \ {r} : \A e \in request[q].added :
              e \in request[r].added => request[q].coll # c
        BY DEF ShelfInv, RowsInv, c
      <3> QED BY <1>2, <1>5, <1>6, <3>1
    <2>2. \A e \in request'[r].added :
            /\ name[c] # "GONE" /\ doc[e] \notin {"NONE", "REMOVED"} /\ <<c, e>> \notin relation
      BY <1>1, <1>2, <1>6 DEF ShelfInv, RowsInv, c
    <2> QED BY <1>1, <1>2, <2>1, <2>2 DEF OthersKept, ShelfInv, RowsInv
  <1>9. OverlapInv'
    <2>1. \A e \in request'[r].picked \cup request'[r].added :
            doc[e] \in {"DELETING", "DELETED"} => <<c, e>> \in overlap
      BY <1>2, <1>7 DEF ShelfInv, OverlapInv, c
    <2> QED BY <1>1, <1>2, <2>1 DEF OthersKept, ShelfInv, OverlapInv
  <1> QED BY <1>3, <1>4, <1>8, <1>9 DEF ShelfInv

\* A commit makes relations of rows that exist, and of a deleted document only if noted.
LEMMA CommitStep ==
  ASSUME ShelfInv, NEW r \in Requests, Commit(r)
  PROVE  ShelfInv'
  <1> DEFINE removed == {<<request[r].coll, d>> : d \in request[r].drop}
             t == request[r].target
  <1>1. /\ request[r].pc = "writing"
        /\ removed \cap purged = {}
        /\ relation' = (relation \cup Added(r)) \ removed
        /\ name' = IF t = None THEN name ELSE [name EXCEPT ![t] = request[r].to]
        /\ request' = [request EXCEPT ![r] = Idle]
        /\ overlap' = Noted
        /\ UNCHANGED <<account, doc, purged>>
    BY DEF Commit
  <1>2. /\ OthersKept(r)
        /\ request' \in [Requests -> Request]
        /\ request'[r].pc = "idle" /\ request'[r].coll = None
        /\ request'[r].picked = {} /\ request'[r].added = {} /\ request'[r].target = None
        /\ request[r].coll \in Collections /\ t \in Collections \cup {None}
        /\ request[r].added \in SUBSET Docs
    BY <1>1 DEF OthersKept, ShelfInv, TypeInv, Request, Idle, Phases
  <1>3. Added(r) \subseteq Pairs
    BY <1>2 DEF Added
  <1>4. t # None => request[r].to \in Names
    BY DEF ShelfInv, NamesInv
  <1>5. /\ \A c \in Collections : c # t => name'[c] = name[c]
        /\ t # None => name'[t] = request[r].to
    BY <1>1, <1>2 DEF ShelfInv, TypeInv
  <1>6. TypeInv'
    <2>1. name' \in [Collections -> Names \cup {"NEW", "GONE"}]
      BY <1>1, <1>2, <1>4 DEF ShelfInv, TypeInv
    <2>2. relation' \subseteq Pairs /\ overlap' \subseteq Pairs
      BY <1>1, <1>3 DEF ShelfInv, TypeInv, Noted
    <2> QED BY <1>1, <1>2, <2>1, <2>2 DEF OthersKept, ShelfInv, TypeInv
  <1>7. NamesInv'
    <2>1. \A c, e \in Collections : name'[c] = name'[e] /\ name'[c] \in Names => c = e
      <3>1. t # None => \A c \in Collections : name[c] = request[r].to => c = t
        BY DEF ShelfInv, NamesInv
      <3>2. \A c, e \in Collections : name[c] = name[e] /\ name[c] \in Names => c = e
        BY DEF ShelfInv, NamesInv
      <3>3. t \notin Collections => t = None
        BY <1>2
      <3> HIDE DEF t
      <3> QED BY <1>5, <3>1, <3>2, <3>3, CollectionsAssumption
    <2>2. \A q \in Requests \ {r} : request[q].target # None =>
            /\ request[q].to \in Names /\ name'[request[q].target] # "GONE"
            /\ \A c \in Collections : name'[c] = request[q].to => c = request[q].target
            /\ \A p \in Requests \ {q} : request'[p].target # None =>
                 request'[p].target # request[q].target /\ request'[p].to # request[q].to
      <3>1. SUFFICES ASSUME NEW q \in Requests \ {r}, request[q].target # None
                     PROVE  /\ request[q].to \in Names /\ name'[request[q].target] # "GONE"
                            /\ \A c \in Collections : name'[c] = request[q].to => c = request[q].target
                            /\ \A p \in Requests \ {q} : request'[p].target # None =>
                                 /\ request'[p].target # request[q].target
                                 /\ request'[p].to # request[q].to
        OBVIOUS
      <3>2. request[q].target \in Collections /\ (t # None => t # request[q].target)
        BY <3>1 DEF ShelfInv, TypeInv, NamesInv, Request
      <3>3. request[q].to \in Names /\ name'[request[q].target] # "GONE"
        BY <1>5, <3>1, <3>2 DEF ShelfInv, NamesInv
      <3>4. \A c \in Collections : name'[c] = request[q].to => c = request[q].target
        <4>1. \A c \in Collections : name[c] = request[q].to => c = request[q].target
          BY <3>1 DEF ShelfInv, NamesInv
        <4>2. t # None => request[r].to # request[q].to
          BY <3>1 DEF ShelfInv, NamesInv
        <4>3. t \notin Collections => t = None
          BY <1>2
        <4> HIDE DEF t
        <4> QED BY <1>5, <4>1, <4>2, <4>3, CollectionsAssumption
      <3>5. \A p \in Requests \ {q} : request'[p].target # None =>
              request'[p].target # request[q].target /\ request'[p].to # request[q].to
        BY <1>2, <3>1 DEF OthersKept, ShelfInv, NamesInv
      <3> QED BY <3>3, <3>4, <3>5
    <2>3. \A q \in Requests \ {r} :
            request[q].coll # None /\ name'[request[q].coll] = "NEW" =>
              request[q].target = request[q].coll
      <3>1. \A q \in Requests : request[q].coll \in Collections \cup {None}
        BY DEF ShelfInv, TypeInv, Request
      <3> QED BY <1>4, <1>5, <3>1, CollectionsAssumption DEF ShelfInv, NamesInv
    <2>4. \A q \in Requests :
            q # r => q \in Requests \ {r} /\ request'[q] = request[q]
      BY <1>2 DEF OthersKept
    <2>5. \A q \in Requests : request'[q].target # None \/ request'[q].coll # None => q # r
      BY <1>2
    <2>6. \A q \in Requests : request'[q].target # None =>
            /\ request'[q].to \in Names /\ name'[request'[q].target] # "GONE"
            /\ \A c \in Collections : name'[c] = request'[q].to => c = request'[q].target
            /\ \A p \in Requests \ {q} : request'[p].target # None =>
                 request'[p].target # request'[q].target /\ request'[p].to # request'[q].to
      <3>1. SUFFICES ASSUME NEW q \in Requests, request'[q].target # None
                     PROVE  /\ request'[q].to \in Names /\ name'[request'[q].target] # "GONE"
                            /\ \A c \in Collections : name'[c] = request'[q].to => c = request'[q].target
                            /\ \A p \in Requests \ {q} : request'[p].target # None =>
                                 /\ request'[p].target # request'[q].target
                                 /\ request'[p].to # request'[q].to
        OBVIOUS
      <3>2. q \in Requests \ {r} /\ request'[q] = request[q]
        BY <2>4, <2>5, <3>1
      <3> QED BY <2>2, <3>1, <3>2
    <2>7. \A q \in Requests :
            request'[q].coll # None /\ name'[request'[q].coll] = "NEW" =>
              request'[q].target = request'[q].coll
      BY <2>3, <2>4, <2>5
    <2> QED BY <2>1, <2>6, <2>7 DEF NamesInv
  <1>8. \A c \in Collections : name[c] \in Names => name'[c] \in Names
    BY <1>4, <1>5, CollectionsAssumption
  <1>9. name'[request[r].coll] \in Names \/ request[r].added = {}
    <2>1. CASE request[r].coll = t
      BY <1>2, <1>4, <1>5, <2>1, CollectionsAssumption
    <2>2. CASE request[r].coll # t
      <3>1. name[request[r].coll] # "NEW"
        BY <1>2, <2>2, CollectionsAssumption DEF ShelfInv, NamesInv
      <3>2. name[request[r].coll] # "GONE" \/ request[r].added = {}
        BY DEF ShelfInv, RowsInv
      <3> QED BY <1>2, <1>8, <3>1, <3>2 DEF ShelfInv, TypeInv
    <2> QED BY <2>1, <2>2
  <1>10. \A c \in Collections, d \in Docs : <<c, d>> \in Added(r) =>
           c = request[r].coll /\ d \in request[r].added
    BY DEF Added
  <1> HIDE DEF removed, t
  <1>11. RowsInv'
    <2>1. \A c \in Collections, d \in Docs : <<c, d>> \in relation' =>
            name'[c] \in Names /\ doc[d] \notin {"NONE", "REMOVED"}
      BY <1>1, <1>8, <1>9, <1>10 DEF ShelfInv, RowsInv
    <2>2. \A c \in Collections, d \in Docs : <<c, d>> \in purged =>
            <<c, d>> \in relation' /\ doc[d] = "DELETING"
      BY <1>1 DEF ShelfInv, RowsInv
    <2>3. \A q \in Requests \ {r} : \A d \in request[q].added :
            /\ name'[request[q].coll] # "GONE" /\ doc[d] \notin {"NONE", "REMOVED"}
            /\ <<request[q].coll, d>> \notin relation'
            /\ \A p \in Requests \ {q} : d \in request'[p].added =>
                 request'[p].coll # request[q].coll
      <3>1. SUFFICES ASSUME NEW q \in Requests \ {r}, NEW d \in request[q].added
                     PROVE  /\ name'[request[q].coll] # "GONE" /\ doc[d] \notin {"NONE", "REMOVED"}
                            /\ <<request[q].coll, d>> \notin relation'
                            /\ \A p \in Requests \ {q} : d \in request'[p].added =>
                                 request'[p].coll # request[q].coll
        OBVIOUS
      <3>2. request[q].coll \in Collections /\ d \in Docs
        BY DEF ShelfInv, TypeInv, Request, Phases
      <3>3. /\ name[request[q].coll] # "GONE" /\ doc[d] \notin {"NONE", "REMOVED"}
            /\ <<request[q].coll, d>> \notin relation
            /\ \A p \in Requests \ {q} : d \in request[p].added => request[p].coll # request[q].coll
        BY DEF ShelfInv, RowsInv
      <3>4. name'[request[q].coll] # "GONE"
        BY <1>4, <1>5, <3>2, <3>3, CollectionsAssumption
      <3>5. <<request[q].coll, d>> \notin Added(r)
        BY <1>10, <3>2, <3>3
      <3>6. \A p \in Requests \ {q} : d \in request'[p].added => request'[p].coll # request[q].coll
        BY <1>2, <3>3 DEF OthersKept
      <3> QED BY <1>1, <3>3, <3>4, <3>5, <3>6
    <2> QED BY <1>1, <1>2, <2>1, <2>2, <2>3 DEF OthersKept, RowsInv
  <1>12. OverlapInv'
    <2>1. \A c \in Collections, d \in Docs : <<c, d>> \in relation' =>
            /\ doc[d] = "DELETING" => <<c, d>> \in purged \cup overlap
            /\ doc[d] = "DELETED" => <<c, d>> \in overlap
      <3>1. \A d \in request[r].added :
              doc[d] \in {"DELETING", "DELETED"} => <<request[r].coll, d>> \in overlap
        BY DEF ShelfInv, OverlapInv
      <3>2. \A c \in Collections, d \in Docs : <<c, d>> \in relation =>
              /\ doc[d] = "DELETING" => <<c, d>> \in purged \cup overlap
              /\ doc[d] = "DELETED" => <<c, d>> \in overlap
        BY DEF ShelfInv, OverlapInv
      <3>3. \A c \in Collections, d \in Docs : <<c, d>> \in relation' =>
              <<c, d>> \in relation \/ (c = request[r].coll /\ d \in request[r].added)
        BY <1>1, <1>10
      <3> QED BY <3>1, <3>2, <3>3
    <2>2. \A c \in Collections, d \in Docs : <<c, d>> \in relation' /\ <<c, d>> \in overlap =>
            <<c, d>> \in overlap'
      BY <1>1, NotedKept
    <2>3. \A q \in Requests \ {r} : \A d \in Adding(q) :
            doc[d] \in {"DELETING", "DELETED"} => <<request[q].coll, d>> \in overlap'
      <3>1. \A q \in Requests : \A d \in Adding(q) : request[q].coll \in Collections /\ d \in Docs
        BY DEF ShelfInv, TypeInv, Request, Phases
      <3>2. \A q \in Requests \ {r} : \A d \in Adding(q) :
              doc[d] \in {"DELETING", "DELETED"} => <<request[q].coll, d>> \in overlap
        BY DEF ShelfInv, OverlapInv
      <3> QED BY <1>1, <1>2, <3>1, <3>2, NotedKept DEF OthersKept
    <2> QED BY <1>1, <1>2, <2>1, <2>2, <2>3 DEF OthersKept, OverlapInv
  <1> QED BY <1>6, <1>7, <1>11, <1>12 DEF ShelfInv

-----------------------------------------------------------------------------
(* The collections and the documents.                                      *)

\* A collection that goes takes its relations along, and nobody is adding to it.
LEMMA DeleteCollectionStep ==
  ASSUME ShelfInv, NEW c \in Collections, DeleteCollection(c)
  PROVE  ShelfInv'
  <1>1. /\ \A r \in Requests : request[r].target # c /\ (request[r].coll = c => request[r].added = {})
        /\ \A p \in purged : p[1] # c
        /\ name' = [name EXCEPT ![c] = "GONE"]
        /\ relation' = {p \in relation : p[1] # c}
        /\ overlap' = Noted
        /\ UNCHANGED <<account, doc, purged, request>>
    BY DEF DeleteCollection
  <1>2. TypeInv'
    BY <1>1 DEF ShelfInv, TypeInv, Noted
  <1>3. name'[c] = "GONE" /\ \A e \in Collections \ {c} : name'[e] = name[e]
    BY <1>1 DEF ShelfInv, TypeInv
  <1>4. \A e \in Collections, d \in Docs :
          /\ <<e, d>> \in relation' <=> <<e, d>> \in relation /\ e # c
          /\ <<e, d>> \in purged => e # c
    BY <1>1
  <1>5. \A r \in Requests : /\ request[r].target \in Collections \cup {None}
                            /\ request[r].coll \in Collections \cup {None}
                            /\ request[r].added \in SUBSET Docs
                            /\ request[r].added # {} => request[r].coll \in Collections \ {c}
                            /\ \A d \in Adding(r) : request[r].coll \in Collections /\ d \in Docs
    BY <1>1 DEF ShelfInv, TypeInv, Request, Phases
  <1>6. NamesInv'
    BY <1>1, <1>3, <1>5, CollectionsAssumption DEF ShelfInv, NamesInv
  <1>7. RowsInv'
    <2>1. \A e \in Collections, d \in Docs : <<e, d>> \in relation' =>
            name'[e] \in Names /\ doc[d] \notin {"NONE", "REMOVED"}
      BY <1>3, <1>4 DEF ShelfInv, RowsInv
    <2>2. \A e \in Collections, d \in Docs : <<e, d>> \in purged =>
            <<e, d>> \in relation' /\ doc[d] = "DELETING"
      BY <1>4 DEF ShelfInv, RowsInv
    <2>3. \A r \in Requests : \A d \in request[r].added :
            /\ name'[request[r].coll] # "GONE" /\ doc[d] \notin {"NONE", "REMOVED"}
            /\ <<request[r].coll, d>> \notin relation'
            /\ \A q \in Requests \ {r} : d \in request[q].added => request[q].coll # request[r].coll
      BY <1>1, <1>3, <1>5 DEF ShelfInv, RowsInv
    <2> QED BY <1>1, <2>1, <2>2, <2>3 DEF RowsInv
  <1>8. OverlapInv'
    BY <1>1, <1>4, <1>5, NotedKept DEF ShelfInv, OverlapInv
  <1> QED BY <1>2, <1>6, <1>7, <1>8 DEF ShelfInv

\* A document is created: nothing refers to it.
LEMMA CreateDocumentStep ==
  ASSUME ShelfInv, NEW d \in Docs, CreateDocument(d)
  PROVE  ShelfInv'
  <1>1. /\ account = "ACTIVE" /\ doc[d] = "NONE" /\ doc' \in [Docs -> DocStates] /\ doc'[d] = "LIVE"
        /\ \A e \in Docs \ {d} : doc'[e] = doc[e]
        /\ UNCHANGED <<account, name, relation, purged, request, overlap>>
    BY DEF CreateDocument, AccountFree, ShelfInv, TypeInv, DocStates
  <1>2. TypeInv' /\ NamesInv'
    BY <1>1 DEF ShelfInv, TypeInv, NamesInv
  <1>3. \A r \in Requests : request[r].added \in SUBSET Docs /\ request[r].picked \in SUBSET Docs
    BY DEF ShelfInv, TypeInv, Request
  <1>4. RowsInv'
    BY <1>1, <1>3 DEF ShelfInv, RowsInv
  <1>5. OverlapInv'
    BY <1>1, <1>3 DEF ShelfInv, OverlapInv
  <1> QED BY <1>2, <1>4, <1>5 DEF ShelfInv

\* A deletion removes what it sees and notes what is being added.
LEMMA DeleteDocumentStep ==
  ASSUME ShelfInv, NEW d \in Docs, DeleteDocument(d)
  PROVE  ShelfInv'
  <1>1. /\ doc[d] = "LIVE" /\ doc' \in [Docs -> DocStates] /\ doc'[d] = "DELETING"
        /\ \A e \in Docs \ {d} : doc'[e] = doc[e]
        /\ purged' = purged \cup {p \in relation : p[2] = d}
        /\ overlap' = overlap \cup PendingAdditions(d)
        /\ UNCHANGED <<account, name, relation, request>>
    BY DEF DeleteDocument, DeleteDocumentCollections, ShelfInv, TypeInv, DocStates
  <1>2. \A r \in Requests : /\ request[r].added \in SUBSET Docs /\ request[r].picked \in SUBSET Docs
                            /\ Adding(r) # {} => request[r].coll \in Collections
    BY DEF ShelfInv, TypeInv, Request, Phases
  <1>3. PendingAdditions(d) \subseteq Pairs
    BY <1>2 DEF PendingAdditions
  <1>4. \A r \in Requests : d \in Adding(r) => <<request[r].coll, d>> \in PendingAdditions(d)
    BY DEF PendingAdditions
  <1>5. TypeInv' /\ NamesInv'
    BY <1>1, <1>3 DEF ShelfInv, TypeInv, NamesInv
  <1>6. RowsInv'
    BY <1>1, <1>2 DEF ShelfInv, RowsInv
  <1>7. OverlapInv'
    BY <1>1, <1>2, <1>4 DEF ShelfInv, OverlapInv
  <1> QED BY <1>5, <1>6, <1>7 DEF ShelfInv

\* After the commit of a deletion only noted relations are left.
LEMMA CommitDeleteStep ==
  ASSUME ShelfInv, NEW d \in Docs, CommitDelete(d)
  PROVE  ShelfInv'
  <1>1. /\ doc[d] = "DELETING" /\ doc' \in [Docs -> DocStates] /\ doc'[d] = "DELETED"
        /\ \A e \in Docs \ {d} : doc'[e] = doc[e]
        /\ purged' = {p \in purged : p[2] # d}
        /\ relation' = {p \in relation : p \notin purged \/ p[2] # d}
        /\ UNCHANGED <<account, name, request, overlap>>
    BY DEF CommitDelete, ShelfInv, TypeInv, DocStates
  <1>2. \A r \in Requests : /\ request[r].added \in SUBSET Docs /\ request[r].picked \in SUBSET Docs
                            /\ Adding(r) # {} => request[r].coll \in Collections
    BY DEF ShelfInv, TypeInv, Request, Phases
  <1>3. TypeInv' /\ NamesInv'
    BY <1>1 DEF ShelfInv, TypeInv, NamesInv
  <1>4. RowsInv'
    BY <1>1, <1>2 DEF ShelfInv, RowsInv
  <1>5. OverlapInv'
    BY <1>1, <1>2 DEF ShelfInv, OverlapInv
  <1> QED BY <1>3, <1>4, <1>5 DEF ShelfInv

\* A row that is removed takes its relations along.
LEMMA HardDeleteStep ==
  ASSUME ShelfInv, NEW d \in Docs, HardDeleteDocument(d)
  PROVE  ShelfInv'
  <1>1. /\ doc[d] \in {"DELETED", "CLOSED"} /\ doc' \in [Docs -> DocStates] /\ doc'[d] = "REMOVED"
        /\ \A e \in Docs \ {d} : doc'[e] = doc[e]
        /\ \A r \in Requests : d \notin Adding(r)
        /\ relation' = {p \in relation : p[2] # d}
        /\ overlap' = Noted
        /\ UNCHANGED <<account, name, purged, request>>
    BY DEF HardDeleteDocument, ShelfInv, TypeInv, DocStates
  <1>2. \A r \in Requests : /\ request[r].added \in SUBSET (Docs \ {d})
                            /\ request[r].picked \in SUBSET (Docs \ {d})
                            /\ Adding(r) # {} => request[r].coll \in Collections
    BY <1>1 DEF ShelfInv, TypeInv, Request, Phases
  <1>3. TypeInv' /\ NamesInv'
    BY <1>1 DEF ShelfInv, TypeInv, NamesInv, Noted
  <1>4. \A c \in Collections, e \in Docs :
          <<c, e>> \in relation' <=> <<c, e>> \in relation /\ e # d
    BY <1>1
  <1>5. RowsInv'
    <2>1. \A c \in Collections, e \in Docs : <<c, e>> \in purged => e # d
      BY <1>1 DEF ShelfInv, RowsInv
    <2>2. \A r \in Requests : \A e \in request[r].added :
            doc'[e] = doc[e] /\ <<request[r].coll, e>> \notin relation'
      BY <1>1, <1>2 DEF ShelfInv, RowsInv
    <2>3. \A r \in Requests : \A e \in request[r].added :
            /\ name[request[r].coll] # "GONE" /\ doc[e] \notin {"NONE", "REMOVED"}
            /\ \A q \in Requests \ {r} : e \in request[q].added => request[q].coll # request[r].coll
      BY DEF ShelfInv, RowsInv
    <2>4. \A c \in Collections, e \in Docs : <<c, e>> \in relation =>
            name[c] \in Names /\ doc[e] \notin {"NONE", "REMOVED"}
      BY DEF ShelfInv, RowsInv
    <2>5. \A c \in Collections, e \in Docs : <<c, e>> \in purged =>
            <<c, e>> \in relation /\ doc[e] = "DELETING"
      BY DEF ShelfInv, RowsInv
    <2> QED BY <1>1, <1>4, <2>1, <2>2, <2>3, <2>4, <2>5 DEF RowsInv
  <1>6. OverlapInv'
    BY <1>1, <1>2, <1>4, NotedKept DEF ShelfInv, OverlapInv
  <1> QED BY <1>3, <1>5, <1>6 DEF ShelfInv

\* A withdrawal deletes documents as Delete does not, and no Delete is under way.
LEMMA WithdrawStep ==
  ASSUME ShelfInv, Withdraw
  PROVE  ShelfInv'
  <1>1. /\ \A d \in Docs : /\ doc'[d] = IF doc[d] = "LIVE" THEN "CLOSED" ELSE doc[d]
                           /\ doc[d] # "DELETING"
        /\ doc' \in [Docs -> DocStates]
        /\ account' = "WITHDRAWN"
        /\ UNCHANGED <<name, relation, purged, request, overlap>>
    BY DEF Withdraw, ShelfInv, TypeInv, DocStates
  <1>2. \A r \in Requests : request[r].added \in SUBSET Docs /\ request[r].picked \in SUBSET Docs
    BY DEF ShelfInv, TypeInv, Request
  <1>3. TypeInv'
    BY <1>1 DEF ShelfInv, TypeInv
  <1>4. NamesInv'
    BY <1>1 DEF ShelfInv, NamesInv
  <1>5. RowsInv'
    BY <1>1, <1>2 DEF ShelfInv, RowsInv
  <1>6. OverlapInv'
    BY <1>1, <1>2 DEF ShelfInv, OverlapInv
  <1> QED BY <1>3, <1>4, <1>5, <1>6 DEF ShelfInv

\* With the row of the account everything goes.
LEMMA HardDeleteAccountStep ==
  ASSUME ShelfInv, HardDeleteAccount
  PROVE  ShelfInv'
  <1>1. /\ account = "WITHDRAWN" /\ account' = "REMOVED"
        /\ \A r \in Requests : request[r].pc = "idle"
        /\ \A d \in Docs : doc'[d] = IF doc[d] = "NONE" THEN "NONE" ELSE "REMOVED"
        /\ doc' \in [Docs -> DocStates]
        /\ \A c \in Collections : name'[c] = IF name[c] = "NEW" THEN "NEW" ELSE "GONE"
        /\ name' \in [Collections -> Names \cup {"NEW", "GONE"}]
        /\ relation' = {}
        /\ overlap' = Noted
        /\ UNCHANGED <<purged, request>>
    BY DEF HardDeleteAccount, DocStates
  <1>2. \A r \in Requests : /\ request[r].picked = {} /\ request[r].added = {}
                            /\ request[r].target = None
                            /\ request[r].coll \in Collections \cup {None}
    BY <1>1 DEF ShelfInv, TypeInv, Request
  <1>3. TypeInv'
    BY <1>1 DEF ShelfInv, TypeInv, Noted
  <1>4. NamesInv'
    BY <1>1, <1>2, CollectionsAssumption DEF ShelfInv, NamesInv
  <1>5. \A c \in Collections, d \in Docs : <<c, d>> \notin purged
    BY <1>1 DEF ShelfInv, TypeInv, RowsInv
  <1>6. RowsInv' /\ OverlapInv'
    BY <1>1, <1>2, <1>5 DEF RowsInv, OverlapInv
  <1> QED BY <1>3, <1>4, <1>6 DEF ShelfInv

\* Every statement keeps the invariant.
LEMMA NextShelf == ShelfInv /\ CollectionsNext => ShelfInv'
  BY GetStep, AddStep, UpdateStep, CreateStep, SelectStep, AddDocumentStep, CommitStep, AbandonStep,
     DeleteCollectionStep, CreateDocumentStep, DeleteDocumentStep, CommitDeleteStep, HardDeleteStep,
     WithdrawStep, HardDeleteAccountStep
  DEF CollectionsNext

\* So does the reading of a list.
LEMMA SameShelf == ShelfInv /\ UNCHANGED collectionVars => ShelfInv'
  BY DEF collectionVars, ShelfInv, TypeInv, NamesInv, RowsInv, OverlapInv

-----------------------------------------------------------------------------
(* The reader.                                                             *)

\* What is due lies behind the cursor, what has come does not.
ReaderInv ==
  /\ reader \in [of : Names \cup {None, "all"}, cursor : 0..LastDoc, seen : SUBSET Docs,
                 again : SUBSET Docs]
  /\ due \subseteq Docs
  /\ reader.again = {}
  /\ reader.of = None => due = {}
  /\ reader.of # None =>
       /\ reader.cursor \in Docs
       /\ \A d \in reader.seen : reader.cursor <= d
       /\ \A d \in due : d < reader.cursor /\ d \in Listed(reader.of)

\* A page is a part of what there is, and the rest of it lies behind its last document.
LEMMA PageCut ==
  ASSUME NEW rest \in SUBSET Docs, NEW page \in Pages(rest), NEW last \in Docs, IsLast(last, page)
  PROVE  /\ page \subseteq rest
         /\ last \in page
         /\ \A d \in page : last <= d
         /\ \A d \in rest \ page : d < last
  <1>1. page \subseteq rest
    BY DEF Pages
  <1>2. \A d \in page, e \in rest \ page : e < d
    BY DEF Pages
  <1> QED BY <1>1, <1>2 DEF IsLast

\* What the first page does not show is behind its last document.
LEMMA FirstPageStep ==
  ASSUME ReaderInv, NEW of \in Names \cup {"all"}, FirstPage(of)
  PROVE  ReaderInv'
  <1>1. PICK page \in Pages(Listed(of)), last \in Docs :
          /\ IsLast(last, page)
          /\ reader' = [of |-> of, cursor |-> last, seen |-> page, again |-> {}]
          /\ due' = Listed(of) \ page
    BY DEF FirstPage
  <1>2. Listed(of) \in SUBSET Docs /\ Listed(of)' = Listed(of)
    BY DEF FirstPage, collectionVars, Listed, Live
  <1>3. /\ page \subseteq Listed(of) /\ last \in page
        /\ \A d \in page : last <= d
        /\ \A d \in Listed(of) \ page : d < last
    BY <1>1, <1>2, PageCut
  <1>4. of # None
    BY CollectionsAssumption, ListingAssumption
  <1>5. \A d \in due' : d \in Listed(of)'
    BY <1>1, <1>2
  <1> QED BY <1>1, <1>2, <1>3, <1>4, <1>5, CollectionsAssumption DEF ReaderInv

\* A further page shows documents behind its cursor, none of which came before.
LEMMA NextPageStep ==
  ASSUME ReaderInv, NextPage
  PROVE  ReaderInv'
  <1> DEFINE rest == {d \in Listed(reader.of) : After(d)}
  <1>1. PICK page \in Pages(rest), last \in Docs :
          /\ IsLast(last, page)
          /\ reader' = [reader EXCEPT !.cursor = last, !.seen = @ \cup page,
                                      !.again = @ \cup (reader.seen \cap page)]
          /\ due' = due \ page
    BY DEF NextPage
  <1>2. reader.of # None /\ UNCHANGED collectionVars
    BY DEF NextPage
  <1>3. rest \in SUBSET Docs /\ \A d \in rest : d < reader.cursor
    BY DEF Listed, After
  <1>4. /\ page \subseteq rest /\ last \in page
        /\ \A d \in page : last <= d
        /\ \A d \in rest \ page : d < last
    BY <1>1, <1>3, PageCut
  <1>5. reader.seen \cap page = {}
    <2>1. \A d \in reader.seen : reader.cursor <= d /\ d \in Docs
      BY <1>2 DEF ReaderInv
    <2>2. reader.cursor \in Docs
      BY <1>2 DEF ReaderInv
    <2> QED BY <1>3, <1>4, <2>1, <2>2, CollectionsAssumption
  <1>6. \A d \in due : d \in rest
    <2>1. doc[reader.cursor] # "REMOVED"
      BY <1>4 DEF After
    <2> QED BY <1>2, <2>1 DEF ReaderInv, After
  <1> HIDE DEF rest
  <1>7. reader'.of = reader.of
    BY <1>1 DEF ReaderInv
  <1>8. Listed(reader.of)' = Listed(reader.of)
    BY <1>2, <1>7 DEF collectionVars, Listed, Live
  <1>9. \A d \in due' : d < last /\ d \in Listed(reader.of)
    BY <1>1, <1>2, <1>4, <1>6 DEF ReaderInv
  <1>10. /\ reader'.cursor = last /\ reader'.seen = reader.seen \cup page
         /\ reader'.again = {}
    BY <1>1, <1>5 DEF ReaderInv
  <1>11. /\ reader' \in [of : Names \cup {None, "all"}, cursor : 0..LastDoc, seen : SUBSET Docs,
                         again : SUBSET Docs]
         /\ due' \subseteq Docs
    <2>1. page \in SUBSET Docs /\ last \in 0..LastDoc
      BY <1>3, <1>4, CollectionsAssumption
    <2> QED BY <1>1, <1>5, <2>1 DEF ReaderInv
  <1>12. \A d \in reader'.seen : last <= d
    <2>1. \A d \in reader.seen : reader.cursor <= d /\ d \in Docs
      BY <1>2 DEF ReaderInv
    <2>2. last < reader.cursor /\ reader.cursor \in Docs
      BY <1>2, <1>3, <1>4 DEF ReaderInv
    <2>3. \A d \in reader.seen : last <= d
      BY <2>1, <2>2, CollectionsAssumption
    <2> QED BY <1>4, <1>10, <2>3
  <1>13. (reader.of # None => reader.cursor \in Docs /\ \A d \in reader.seen : reader.cursor <= d)'
    BY <1>10, <1>12
  <1>14. (\A d \in due : d < reader.cursor /\ d \in Listed(reader.of))'
    BY <1>8, <1>9, <1>10
  <1> QED BY <1>2, <1>7, <1>10, <1>11, <1>13, <1>14 DEF ReaderInv

\* What others do takes documents from those due and adds none.
LEMMA OtherStep ==
  ASSUME ReaderInv, UNCHANGED reader, due' \subseteq due,
         \A d \in due' : d \in Listed(reader.of)'
  PROVE  ReaderInv'
  BY DEF ReaderInv

\* The invariant of all steps.
THEOREM ShelfInvariant == Spec => [](ShelfInv /\ ReaderInv)
  <1>1. Init => ShelfInv /\ ReaderInv
    BY InitShelf, CollectionsAssumption DEF Init, ReaderInv, NotReading
  <1>2. ShelfInv /\ ReaderInv /\ [Next]_vars => (ShelfInv /\ ReaderInv)'
    <2>1. SUFFICES ASSUME ShelfInv, ReaderInv, [Next]_vars
                   PROVE  ShelfInv' /\ ReaderInv'
      OBVIOUS
    <2>2. CASE Others
      <3>1. ShelfInv'
        BY <2>1, <2>2, NextShelf DEF Others
      <3>2. ReaderInv'
        BY <2>1, <2>2, OtherStep DEF Others
      <3> QED BY <3>1, <3>2
    <2>3. ASSUME NEW of \in Names \cup {"all"}, FirstPage(of) PROVE ShelfInv' /\ ReaderInv'
      BY <2>1, <2>3, FirstPageStep, SameShelf DEF FirstPage
    <2>4. CASE NextPage
      BY <2>1, <2>4, NextPageStep, SameShelf DEF NextPage
    <2>5. CASE EmptyPage
      <3>1. ShelfInv'
        BY <2>1, <2>5, SameShelf DEF EmptyPage
      <3>2. ReaderInv'
        BY <2>5, CollectionsAssumption DEF EmptyPage, ReaderInv, NotReading
      <3> QED BY <3>1, <3>2
    <2>6. CASE UNCHANGED vars
      <3>1. ShelfInv'
        BY <2>1, <2>6, SameShelf DEF vars
      <3>2. ReaderInv'
        BY <2>1, <2>6 DEF vars, collectionVars, ReaderInv, Listed, Live
      <3> QED BY <3>1, <3>2
    <2> QED BY <2>1, <2>2, <2>3, <2>4, <2>5, <2>6 DEF Next
  <1> QED BY <1>1, <1>2, PTL DEF Spec

-----------------------------------------------------------------------------
(* The theorems.                                                           *)

\* Variables keep their types; names are unique, and relations are between rows that exist.
THEOREM ShelfTypes == Spec => []ListingTypeOK
  <1>1. ShelfInv /\ ReaderInv => ListingTypeOK
    BY DEF ShelfInv, ReaderInv, TypeInv, NamesInv, RowsInv, ListingTypeOK, CollectionsTypeOK,
           Request, DocStates
  <1> QED BY <1>1, ShelfInvariant, PTL

\* What Delete leaves in a collection was under way when it ran: found by the SELECT of an
\* AddDocumentToCollection before the commit, and not committed before the DELETE.
THEOREM OnlyByOverlap == Spec => []RelationsOnlyByOverlap
  <1>1. ShelfInv => RelationsOnlyByOverlap
    BY DEF ShelfInv, TypeInv, OverlapInv, RelationsOnlyByOverlap
  <1> QED BY <1>1, ShelfInvariant, PTL

\* Going through a list page by page shows every document that stays in it, once.
THEOREM EveryPageOnce == Spec => ListedOnce
  <1> DEFINE Once ==
        /\ reader'.again = {}
        /\ reader.of # None /\ reader'.of = None => due = {} \/ doc[reader.cursor] = "REMOVED"
  <1>1. ReaderInv /\ ReaderInv' /\ Next => Once
    <2>1. SUFFICES ASSUME ReaderInv, ReaderInv', Next PROVE Once
      OBVIOUS
    <2>2. reader'.again = {}
      BY <2>1 DEF ReaderInv
    <2>3. ASSUME reader.of # None, reader'.of = None
          PROVE  due = {} \/ doc[reader.cursor] = "REMOVED"
      <3>1. CASE EmptyPage
        BY <2>1, <2>3, <3>1 DEF EmptyPage, ReaderInv, After
      <3>2. CASE Others \/ NextPage \/ \E of \in Names \cup {"all"} : FirstPage(of)
        BY <2>1, <2>3, <3>2 DEF Others, NextPage, FirstPage, ReaderInv
      <3> QED BY <2>1, <3>1, <3>2 DEF Next
    <2> QED BY <2>2, <2>3
  <1>2. (ShelfInv /\ ReaderInv) /\ (ShelfInv /\ ReaderInv)' /\ [Next]_vars => [Once]_vars
    BY <1>1
  <1> QED BY <1>2, ShelfInvariant, PTL DEF Spec, ListedOnce
=============================================================================
