--------------------------- MODULE OdlTreeForest ----------------------------
(***************************************************************************)
(* The pointers of OdlTree as the forest of OdlForest: which sequence of   *)
(* children those of an object stand for.                                  *)
(***************************************************************************)
EXTENDS OdlTree, SequencesExt

\* As many as there are in own, from first on along next.
Along(own, first, next) ==
  LET line[i \in 1..Cardinality(own)] ==
        IF i = 1 THEN first ELSE next[line[i - 1]]
  IN  line

\* The children of o, by the pointers: from first_child along right_sibling.
Children(o) ==
  Along({x \in live : parent[x] = o}, first_child[o], right_sibling)

Forest == INSTANCE OdlForest WITH kids <- [o \in Objects |-> Children(o)]

\* Every operation on the pointers is the operation of its name on sequences
\* of children: nothing is lost, doubled or put in another order, and a walk
\* changes nothing.
ImplementsForest == Forest!Spec

=============================================================================
