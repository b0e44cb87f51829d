------------------------- MODULE DocumentLifecycle -------------------------
(***************************************************************************)
(* What a reader of the library is promised about a document, whatever the *)
(* queues, the workers and their failures do: the text shown moves only to *)
(* the current version, only that version's own text is searched, what was *)
(* fetched or indexed for the current version is not lost again, and after *)
(* the removal nothing changes.                                            *)
(***************************************************************************)
EXTENDS Naturals

CONSTANTS Docs, Webpages, MaxVersion

VARIABLE view  \* version, whether its text is shown, whether it is searchable, removed

Absent == [version |-> 0, fetched |-> FALSE, indexed |-> FALSE, removed |-> FALSE]

Init == view = [d \in Docs |-> Absent]

Present(d) == view[d].version > 0 /\ ~view[d].removed

\* A memo brings its text along; the text of a web page is fetched later.
NewVersion(d) ==
  /\ ~view[d].removed
  /\ view[d].version < MaxVersion
  /\ view' = [view EXCEPT ![d] = [version |-> @.version + 1, fetched |-> d \notin Webpages,
                                  indexed |-> FALSE, removed |-> FALSE]]

Fetch(d) ==
  /\ Present(d)
  /\ view' = [view EXCEPT ![d].fetched = TRUE]

Index(d) ==
  /\ Present(d)
  /\ view[d].fetched
  /\ view' = [view EXCEPT ![d].indexed = TRUE]

Remove(d) ==
  /\ Present(d)
  /\ view' = [view EXCEPT ![d].removed = TRUE]

Next == \E d \in Docs : NewVersion(d) \/ Fetch(d) \/ Index(d) \/ Remove(d)

Spec == Init /\ [][Next]_view
=============================================================================
