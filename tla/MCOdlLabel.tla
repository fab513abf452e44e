----------------------------- MODULE MCOdlLabel -----------------------------
(***************************************************************************)
(* Instances of the label for TLC: one that edits everything and searches  *)
(* trees of four objects, and one that also checks that walks end, while   *)
(* trees of four objects, or the lists of a label of five, are edited.     *)
(***************************************************************************)
EXTENDS OdlLabelRefinement, MCOdlTree

CONSTANTS Column, a, b, v, root, x1, x2, x3, x4

Asked(kind, class, n, val, pos, s) ==
  [kind |-> kind, class |-> class, name |-> n, value |-> val,
   position |-> pos, scope |-> s]

ForKwd(n, val, pos, s) == Asked("keyword", NULL, n, val, pos, s)
ForObject(class, n, val, pos, s) == Asked("object", class, n, val, pos, s)

\* A search for a keyword and one for an object, while everything is edited.
TwoRequests ==
  {ForKwd({a}, {v}, 1, "CHILDREN_ONLY"),
   ForObject(Table, {a}, {v}, 1, "CHILDREN_ONLY")}

\* Names alone and with a value, second matches, one pattern that matches
\* both names, values without a name, every scope.
MCRequests ==
  {ForKwd({a}, NULL, 1, "RECURSIVE_DOWN"), ForKwd({a, b}, {v}, 2, "TO_END"),
   ForKwd({b}, NULL, 0, "CHILDREN_ONLY"), ForKwd(NULL, {v}, 2, "SIBLINGS_ONLY"),
   ForKwd({b}, {v}, 1, "THIS_OBJECT"),
   ForObject(Column, NULL, NULL, 2, "TO_END"),
   ForObject(Column, {a}, {v}, 1, "RECURSIVE_DOWN"),
   ForObject(Table, {a, b}, {v}, 1, "CHILDREN_ONLY"),
   ForObject(NULL, {b}, {v}, 2, "SIBLINGS_ONLY"),
   ForObject(NULL, NULL, {v}, 0, "TO_END")}

MCClasses == {Table, Column}

\* The walk under way, for one of the Queries or for another call.
WalkEither ==
  \/ query # NoQuery /\ Walk /\ UNCHANGED <<kwd_links, cursor>>
  \/ query = NoQuery /\ WalkOn

ReturnEither ==
  \/ query # NoQuery /\ FindReturns /\ UNCHANGED <<kwd_links, cursor>>
  \/ query = NoQuery /\ SearchReturns

FindByClass == Find /\ UNCHANGED <<kwd_links, cursor>>

\* Four objects have one keyword, three have two, and two have three.
FewObjects ==
  kwds' # {} => Cardinality(live') + Cardinality(kwds') < 6

EditNext ==
  \/ (EditTree \/ EditKwds \/ EditBoth) /\ FewObjects
  \/ FindByClass \/ Search \/ WalkEither \/ ReturnEither

EditSpec == LabelInit /\ [][EditNext]_label_vars

\* Trees as a parser makes them, each object the last child of another: one to
\* climb out of two levels at once, one with siblings that have children.
Parsed == <<x1, x2, x3, x4>>
Trees == {<<root, x1, x2, root>>, <<root, x1, root, x3>>}

\* The next object of a tree is made, or hung in its place.
Parse ==
  LET n == Cardinality(live \ {root})  IN
  \E tree \in Trees :
    /\ \A i \in 1..n - 1 : parent[Parsed[i]] = tree[i]
    /\ \/ n > 0 /\ OdlPasteObjDesc(Parsed[n], tree[n])
       \/ /\ n < 4 /\ (n > 0 => Attached(Parsed[n]))
          /\ OdlNewObjDesc(Parsed[n + 1], IF n = 0 THEN Table ELSE Column)

IsParsed == \A o \in Range(Parsed) : Attached(o)

\* No search looks at a keyword that is in no list.
AllListed == \A k \in kwds : Listed(k)

\* With the root a label is parsed and searched; without it trees of the other
\* objects, all of one class, are edited, and searched while they are three.
ParseLabel ==
  \/ live = {} /\ OdlNewObjDesc(root, Column)
  \/ root \in live /\ Parse

OnlyTables == root \notin live' /\ Range(obj_class') \subseteq {Table, NULL}

EitherNext ==
  \/ ParseLabel /\ UNCHANGED <<kwd_links, cursor>>
  \/ root \in live /\ IsParsed /\ (EditKwds \/ (AllListed /\ Search))
  \/ root \notin live /\ (EditTree \/ EditBoth) /\ OnlyTables
  \/ root \notin live /\ Cardinality(live) < 4 /\ FindByClass
  \/ WalkEither \/ ReturnEither

EitherSpec ==
  /\ LabelInit
  /\ [][EitherNext]_label_vars
  /\ WF_label_vars(WalkEither)

\* Patterns and texts of up to four characters, quoted or not.
ShortWildCards == BoundedSeq({"S", "T", "'", Star}, 4)
ShortTexts == BoundedSeq({"S", "T", "'"}, 4)

Relabellings == Permutations(Objects) \cup Permutations(Keywords)

=============================================================================
