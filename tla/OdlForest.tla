----------------------------- MODULE OdlForest ------------------------------
(***************************************************************************)
(* What the object routines of io_lablib3.c promise, with no pointer in    *)
(* sight: a forest in which each object has a sequence of children.        *)
(***************************************************************************)
EXTENDS SequencesExt

CONSTANT Objects

VARIABLES
  live, \* the objects there are
  kids  \* the children of each, in order

Init == live = {} /\ kids = [o \in Objects |-> <<>>]

IsChild(o) == \E p \in live : o \in Range(kids[p])
ParentOf(o) == CHOOSE p \in live : o \in Range(kids[p])
Position(o) == CHOOSE i \in DOMAIN kids[ParentOf(o)] : kids[ParentOf(o)][i] = o

\* o and what hangs below it: what is in every set that holds o and, with a
\* parent, its children.
Below(o) ==
  LET branches == UNION {{<<p, c>> : c \in Range(kids[p])} : p \in live}
      whole == {S \in SUBSET live :
                  o \in S /\ \A b \in branches : b[1] \in S => b[2] \in S}
  IN  {x \in live : \A S \in whole : x \in S}

New(o) == o \notin live /\ live' = live \cup {o} /\ UNCHANGED kids

\* The object leaves with everything below it.
Cut(o) ==
  /\ o \in live /\ IsChild(o)
  /\ kids' = [kids EXCEPT ![ParentOf(o)] = RemoveAt(@, Position(o))]
  /\ UNCHANGED live

CanJoin(n, place) == n \in live /\ ~IsChild(n) /\ place \in live

Paste(n, p) ==
  /\ CanJoin(n, p)
  /\ kids' = [kids EXCEPT ![p] = Append(@, n)]
  /\ p \notin Below(n) /\ UNCHANGED live

PasteBefore(n, o) ==
  /\ CanJoin(n, o) /\ IsChild(o)
  /\ kids' = [kids EXCEPT ![ParentOf(o)] = InsertAt(@, Position(o), n)]
  /\ o \notin Below(n) /\ UNCHANGED live

PasteAfter(n, o) ==
  /\ CanJoin(n, o) /\ IsChild(o)
  /\ kids' = [kids EXCEPT ![ParentOf(o)] = InsertAt(@, Position(o) + 1, n)]
  /\ o \notin Below(n) /\ UNCHANGED live

\* A whole tree goes, and nothing else.
FreeTree(o) ==
  /\ o \in live /\ ~IsChild(o)
  /\ live' = live \ Below(o)
  /\ kids' = [x \in Objects |-> IF x \in Below(o) THEN <<>> ELSE kids[x]]

forest == <<live, kids>>

Edit ==
  \/ \E o \in Objects : New(o) \/ Cut(o) \/ FreeTree(o)
  \/ \E n, o \in Objects : Paste(n, o) \/ PasteBefore(n, o) \/ PasteAfter(n, o)

\* [Next]_forest allows the steps that [Edit]_forest does; TLC tells a step
\* that changes nothing sooner.
Next == forest' # forest /\ Edit

Spec == Init /\ [][Next]_forest

=============================================================================
