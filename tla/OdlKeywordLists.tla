-------------------------- MODULE OdlKeywordLists ---------------------------
(***************************************************************************)
(* What the keyword routines of io_lablib3.c promise, with no pointer in   *)
(* sight: each object has a sequence of keywords, and a keyword keeps the  *)
(* name and the value it was made with.                                    *)
(***************************************************************************)
EXTENDS SequencesExt

CONSTANTS Objects, Keywords

VARIABLES
  kwds,  \* the keywords there are
  lists, \* the keywords of each object, in order
  texts  \* the name and the value of each keyword

Init ==
  kwds = {} /\ lists = [o \in Objects |-> <<>>] /\ DOMAIN texts = Keywords

IsListed(k) == \E o \in Objects : k \in Range(lists[o])
OwnerOf(k) == CHOOSE o \in Objects : k \in Range(lists[o])
Position(k) == CHOOSE i \in DOMAIN lists[OwnerOf(k)] : lists[OwnerOf(k)][i] = k

\* The texts of those that stay are what they were.
Keeps(stay) == \A k \in stay : texts'[k] = texts[k]

New(k) ==
  k \notin kwds /\ kwds' = kwds \cup {k} /\ Keeps(kwds) /\ UNCHANGED lists

Cut(k) ==
  /\ k \in kwds /\ IsListed(k)
  /\ lists' = [lists EXCEPT ![OwnerOf(k)] = RemoveAt(@, Position(k))]
  /\ UNCHANGED <<kwds, texts>>

CanJoin(k) == k \in kwds /\ ~IsListed(k) /\ UNCHANGED <<kwds, texts>>

Paste(k, o) == CanJoin(k) /\ lists' = [lists EXCEPT ![o] = Append(@, k)]

PasteBefore(k, j) ==
  /\ CanJoin(k) /\ IsListed(j)
  /\ lists' = [lists EXCEPT ![OwnerOf(j)] = InsertAt(@, Position(j), k)]

PasteAfter(k, j) ==
  /\ CanJoin(k) /\ IsListed(j)
  /\ lists' = [lists EXCEPT ![OwnerOf(j)] = InsertAt(@, Position(j) + 1, k)]

Free(k) ==
  /\ k \in kwds /\ ~IsListed(k)
  /\ kwds' = kwds \ {k} /\ Keeps(kwds') /\ UNCHANGED lists

\* The lists of these objects, whole, and nothing else.
FreeLists(objects) ==
  /\ kwds' = kwds \ UNION {Range(lists[o]) : o \in objects}
  /\ lists' = [o \in Objects |-> IF o \in objects THEN <<>> ELSE lists[o]]
  /\ Keeps(kwds')

lists_and_texts == <<kwds, lists, texts>>

Edit ==
  \/ \E k \in Keywords : New(k) \/ Cut(k) \/ Free(k)
  \/ \E k \in Keywords, o \in Objects : Paste(k, o)
  \/ \E j, k \in Keywords : PasteBefore(k, j) \/ PasteAfter(k, j)
  \/ \E objects \in SUBSET Objects : FreeLists(objects)

\* As in OdlForest: a step that changes nothing is told soonest.
Next == lists_and_texts' # lists_and_texts /\ Edit

Spec == Init /\ [][Next]_lists_and_texts

=============================================================================
