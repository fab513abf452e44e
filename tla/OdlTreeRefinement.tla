------------------------- MODULE OdlTreeRefinement --------------------------
(***************************************************************************)
(* A search of OdlTree answers what a definition over the forest its       *)
(* pointers stand for says it should.                                      *)
(***************************************************************************)
EXTENDS OdlTreeForest

\* What a loop along `next' meets from o on.
Met(all, next, o) ==
  LET whole == {S \in SUBSET all :
                  o \in S /\ \A y \in S : next[y] # NULL => next[y] \in S}
  IN  {x \in all : \A S \in whole : x \in S}

\* o with the objects it hangs below, and with those that hang below it.
Lineage(o) == Met(Objects, parent, o)
Below(o) == {x \in live : o \in Lineage(x)}

\* The siblings on the left of o: those a loop to the right does not meet.
Older(o) ==
  {x \in live : /\ parent[x] = parent[o] /\ parent[o] # NULL
                /\ x \notin Met(Objects, right_sibling, o)}

\* x stands before y in the label: y is below x, or below a younger sibling of
\* an object that x is below.
Precedes(x, y) ==
  \/ x \in Lineage(y) \ {y}
  \/ \E a \in Lineage(x), b \in Lineage(y) : parent[a] = parent[b] /\ a \in Older(b)

\* The objects each search scope names.
InScope(o, s) ==
  CASE s = "THIS_OBJECT" -> {o}
    [] s = "CHILDREN_ONLY" -> {o} \cup {x \in live : parent[x] = o}
    [] s = "SIBLINGS_ONLY" -> Met(Objects, right_sibling, o)
    [] s = "RECURSIVE_DOWN" -> Below(o)
    [] s = "TO_END" -> {o} \cup {x \in live : Precedes(o, x)}

\* The first match, when no position is asked for.
Ordinal(position) == IF position = 0 THEN 1 ELSE position

\* x is the one of `found' at the position asked for, where `before' are those
\* that stand before it; or it is NULL, and there are not that many.
Answers(x, found, before, position) ==
  IF x = NULL THEN Cardinality(found) < Ordinal(position)
  ELSE x \in found /\ Cardinality(before) = Ordinal(position) - 1

\* A search downwards from an object that has a right sibling and no child
\* goes on to the siblings: RecursiveDownIsSubtree says what it should do.
EscapesSubtree(s) ==
  /\ s = "RECURSIVE_DOWN"
  /\ first_child[start] = NULL /\ right_sibling[start] # NULL

\* OdlFindObjDesc answers the match at the position asked for within the
\* scope asked for, on every tree that edits can leave.
FindAnswers ==
  pc = "return" /\ query \in Queries /\ ~EscapesSubtree(query.scope) =>
    LET found == {x \in InScope(start, query.scope) : Matches(x)}
    IN  Answers(found_object, found,
                {x \in found : Precedes(x, found_object)}, query.position)

\* "treat the current object as the root of a sub-tree" (io_lablib3.c:715): a
\* search downwards finds objects of that sub-tree.
RecursiveDownIsSubtree ==
  pc = "return" /\ query.scope = "RECURSIVE_DOWN" =>
    found_object \in Below(start) \cup {NULL}

=============================================================================
