------------------------------ MODULE Listing ------------------------------
(***************************************************************************)
(* The pages of a list of documents, asked for one after the other with    *)
(* the cursor of the page before (internal/library/cursor.go, ListDocu-    *)
(* ments and ListDocumentsByCollection), while documents come and go.      *)
(* ListDocumentsByTag differs in the table that it joins only.             *)
(***************************************************************************)
EXTENDS Collections

CONSTANT MaxPage  \* documents of a page at most (boundedLimit)

ASSUME ListingAssumption ==
  /\ MaxPage \in Nat \ {0}
  /\ "all" \notin Names \cup {None}

VARIABLES
  reader, \* a client that goes through a list from its first page to the last
  due     \* history: the documents that were in its list all the time and have not come yet

vars == <<collectionVars, reader, due>>

NotReading == [of |-> None, cursor |-> 0, seen |-> {}, again |-> {}]

ListingTypeOK ==
  /\ CollectionsTypeOK
  /\ reader \in [of : Names \cup {None, "all"}, cursor : 0..LastDoc, seen : SUBSET Docs,
                 again : SUBSET Docs]
  /\ due \subseteq Docs

Init == CollectionsInit /\ reader = NotReading /\ due = {}

\* The documents of a list: those of the account, or of the collection with that name.
Listed(of) ==
  {d \in Docs : Live(d) /\ (of = "all" \/ \E c \in Collections : name[c] = of /\ <<c, d>> \in relation)}

\* Wrong variant: the cursor is looked for among the documents that are not deleted.
AfterLive(d) == Live(reader.cursor) /\ d < reader.cursor

\* Behind the document of the cursor, which may be deleted; no row is behind a document
\* that is not found, whose position is NULL.
After(d) == doc[reader.cursor] # "REMOVED" /\ d < reader.cursor

\* The newest of some documents, as many as the client asks for (boundedLimit).
Pages(rest) ==
  {page \in (SUBSET rest) \ {{}} :
     \E limit \in 1..MaxPage :
       /\ Cardinality(page) <= limit
       /\ page = rest \/ Cardinality(page) = limit
       /\ \A d \in page, e \in rest \ page : e < d}

IsLast(d, page) == d \in page /\ \A e \in page : d <= e

\* A page that is not empty has a cursor for the next one.
FirstPage(of) ==
  /\ reader.of = None
  /\ \E page \in Pages(Listed(of)), last \in Docs :
       /\ IsLast(last, page)
       /\ reader' = [of |-> of, cursor |-> last, seen |-> page, again |-> {}]
       /\ due' = Listed(of) \ page
  /\ UNCHANGED collectionVars

NextPage ==
  /\ reader.of # None
  /\ \E page \in Pages({d \in Listed(reader.of) : After(d)}), last \in Docs :
       /\ IsLast(last, page)
       /\ reader' = [reader EXCEPT !.cursor = last, !.seen = @ \cup page,
                                   !.again = @ \cup (reader.seen \cap page)]
       /\ due' = due \ page
  /\ UNCHANGED collectionVars

EmptyPage ==
  /\ reader.of # None
  /\ {d \in Listed(reader.of) : After(d)} = {}
  /\ reader' = NotReading
  /\ due' = {}
  /\ UNCHANGED collectionVars

Others ==
  /\ CollectionsNext
  /\ UNCHANGED reader
  /\ due' = {d \in due : d \in Listed(reader.of)'}

Next ==
  \/ Others
  \/ \E of \in Names \cup {"all"} : FirstPage(of)
  \/ NextPage
  \/ EmptyPage

Spec == Init /\ [][Next]_vars

-----------------------------------------------------------------------------
(* What holds of a list that was gone through.                             *)

\* No document comes twice, whatever is created, deleted, added or removed between the
\* pages; and the documents that were in the list all the time have all come
\* before the empty page, unless the document of the cursor was removed for good.
ListedOnce ==
  [][/\ reader'.again = {}
     /\ reader.of # None /\ reader'.of = None =>
          due = {} \/ doc[reader.cursor] = "REMOVED"]_vars
=============================================================================
