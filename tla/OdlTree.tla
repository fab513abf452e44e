------------------------------ MODULE OdlTree -------------------------------
(***************************************************************************)
(* The tree of object descriptions a PDS label is parsed into              *)
(* (io_lablib3.c).  An OBJDESC holds a pointer to its parent, to its left  *)
(* and right sibling and to its first and last child, and its nesting      *)
(* level.  Objects are made, cut out of the tree, pasted in as last child, *)
(* before or after another, copied, freed, and searched for.               *)
(*                                                                         *)
(* Editing the links is one step.  The two loops that walk the tree with   *)
(* OdlNextObjDesc, the level adjustment after a paste and the search, take *)
(* a step for each object visited and one for each parent they climb to.   *)
(***************************************************************************)
EXTENDS Naturals, FiniteSets

CONSTANTS
  Objects, \* the OBJDESC blocks malloc can return
  Classes, \* what CLASS an OBJECT statement can name
  Queries, \* the searches made: [class, position, scope]
  MaxLevel, \* bound: nothing is pasted below an object of this level
  NULL

Scopes == {"RECURSIVE_DOWN", "TO_END", "CHILDREN_ONLY", "SIBLINGS_ONLY",
           "THIS_OBJECT"}

ASSUME NullAssumption == NULL \notin Objects \cup Classes
ASSUME MaxLevelAssumption == MaxLevel \in Nat
ASSUME QueriesAssumption ==
  Queries \subseteq
    [class : Classes \cup {NULL}, position : Nat, scope : Scopes]

VARIABLES
  live,          \* the blocks allocated
  obj_class,
  parent, left_sibling, right_sibling, first_child, last_child,
  level,
  pc,     \* "idle", or where the walk stands: "visit", "climb", "return"
  call,   \* "adjust" or "find"
  start,  \* where the walk began
  scope,  \* the search_scope OdlNextObjDesc goes by
  obj,    \* the object visited, or climbed to
  query, current_position, found_object

links == <<live, obj_class, parent, left_sibling, right_sibling, first_child,
           last_child>>
walk == <<pc, call, start, scope, obj, query, current_position, found_object>>
vars == <<links, level, walk>>

NoQuery == [class |-> NULL, position |-> 0, scope |-> "RECURSIVE_DOWN"]
Pointer == Objects \cup {NULL}

TypeOK ==
  /\ live \subseteq Objects
  /\ obj_class \in [Objects -> Classes \cup {NULL}]
  /\ parent \in [Objects -> Pointer]
  /\ left_sibling \in [Objects -> Pointer]
  /\ right_sibling \in [Objects -> Pointer]
  /\ first_child \in [Objects -> Pointer]
  /\ last_child \in [Objects -> Pointer]
  /\ level \in [Objects -> Nat]
  /\ pc \in {"idle", "visit", "climb", "return"}
  /\ call \in {"adjust", "find"}
  /\ start \in Pointer /\ scope \in Scopes /\ obj \in Pointer
  /\ pc = "visit" => obj \in Objects
  /\ query \in Queries \cup {NoQuery}
  /\ current_position \in Nat /\ found_object \in Pointer

Nowhere == [o \in Objects |-> NULL]

Init ==
  /\ live = {} /\ obj_class = Nowhere
  /\ parent = Nowhere /\ left_sibling = Nowhere /\ right_sibling = Nowhere
  /\ first_child = Nowhere /\ last_child = Nowhere
  /\ level = [o \in Objects |-> 0]
  /\ pc = "idle" /\ call = "adjust" /\ start = NULL
  /\ scope = "RECURSIVE_DOWN" /\ obj = NULL /\ query = NoQuery
  /\ current_position = 0 /\ found_object = NULL

-----------------------------------------------------------------------------
(* Editing the links.                                                      *)

\* A bug: the siblings' trees stay allocated.
FirstBranch(o) == {o} \cup ({first_child[o]} \ {NULL})

\* The first child and the right sibling of every member are members too.
Closed(S) ==
  \A y \in S : /\ first_child[y] # NULL => first_child[y] \in S
               /\ right_sibling[y] # NULL => right_sibling[y] \in S

\* The blocks OdlFreeTree(o) frees: o, and the trees of its first child and of
\* its right sibling.
Tree(o) ==
  {x \in Objects :
     \A S \in SUBSET Objects : o \in S /\ Closed(S) => x \in S}

Detached(o) == o \in live /\ parent[o] = NULL
Attached(o) == o \in live /\ parent[o] # NULL

\* What the paste routines ask of their caller: an object in no tree, and a
\* place that is not inside it.  A cut object keeps its level, so that pasting
\* below it and cutting again raises levels without end: MaxLevel stops that.
CanPaste(new_object, place) ==
  /\ Detached(new_object) /\ place \in live /\ place \notin Tree(new_object)
  /\ level[place] < MaxLevel

\* malloc's failure ends the program (SayGoodbye).
NewBlock(o, class) ==
  /\ o \notin live
  /\ live' = live \cup {o}
  /\ obj_class' = [obj_class EXCEPT ![o] = class]
  /\ level' = [level EXCEPT ![o] = 0]
  /\ parent' = [parent EXCEPT ![o] = NULL]
  /\ left_sibling' = [left_sibling EXCEPT ![o] = NULL]
  /\ right_sibling' = [right_sibling EXCEPT ![o] = NULL]
  /\ first_child' = [first_child EXCEPT ![o] = NULL]
  /\ last_child' = [last_child EXCEPT ![o] = NULL]
  /\ UNCHANGED walk

OdlNewObjDesc(o, class) == pc = "idle" /\ NewBlock(o, class)

\* The copy keeps the fields and none of the links or keywords.
OdlCopyObjDesc(object, o) ==
  pc = "idle" /\ object \in live /\ NewBlock(o, obj_class[object])

\* The walk of OdlAdjustObjDescLevel(o) over the links just changed.
BeginAdjust(o) ==
  /\ pc' = "visit" /\ call' = "adjust" /\ start' = o
  /\ scope' = "RECURSIVE_DOWN" /\ obj' = o
  /\ UNCHANGED <<query, current_position, found_object>>

\* A bug: the parent of a last child is not told that it is gone.
LastForgotten(object, l, r, p) == last_child

\* last_child once `object' is cut from between l and r.
LastWithout(object, l, r, p) ==
  IF r = NULL THEN [last_child EXCEPT ![p] = l] ELSE last_child

\* Its parent is dereferenced: an object of no tree is not cut.  Its level,
\* and those of the objects below it, stay.
OdlCutObjDesc(object) ==
  LET l == left_sibling[object]  r == right_sibling[object]
      p == parent[object]
  IN  /\ pc = "idle" /\ Attached(object)
      /\ last_child' = LastWithout(object, l, r, p)
      /\ left_sibling' =
           IF r = NULL THEN [left_sibling EXCEPT ![object] = NULL]
           ELSE [left_sibling EXCEPT ![r] = l, ![object] = NULL]
      /\ first_child' = IF l = NULL THEN [first_child EXCEPT ![p] = r]
                                    ELSE first_child
      /\ right_sibling' =
           IF l = NULL THEN [right_sibling EXCEPT ![object] = NULL]
           ELSE [right_sibling EXCEPT ![l] = r, ![object] = NULL]
      /\ parent' = [parent EXCEPT ![object] = NULL]
      /\ UNCHANGED <<live, obj_class, level, walk>>

\* As the last child of parent_object.
OdlPasteObjDesc(new_object, parent_object) ==
  LET l == last_child[parent_object]
  IN  /\ pc = "idle" /\ CanPaste(new_object, parent_object)
      /\ left_sibling' = [left_sibling EXCEPT ![new_object] = l]
      /\ right_sibling' =
           IF l = NULL THEN [right_sibling EXCEPT ![new_object] = NULL]
           ELSE [right_sibling EXCEPT ![new_object] = NULL, ![l] = new_object]
      /\ parent' = [parent EXCEPT ![new_object] = parent_object]
      /\ first_child' =
           IF first_child[parent_object] = NULL
           THEN [first_child EXCEPT ![parent_object] = new_object]
           ELSE first_child
      /\ last_child' = [last_child EXCEPT ![parent_object] = new_object]
      /\ BeginAdjust(new_object)
      /\ UNCHANGED <<live, obj_class, level>>

\* As the left sibling of old_object, whose parent is dereferenced.
OdlPasteObjDescBefore(new_object, old_object) ==
  LET l == left_sibling[old_object]  p == parent[old_object]
  IN  /\ pc = "idle" /\ CanPaste(new_object, old_object) /\ Attached(old_object)
      /\ left_sibling' =
           [left_sibling EXCEPT ![new_object] = l, ![old_object] = new_object]
      /\ right_sibling' =
           IF l = NULL THEN [right_sibling EXCEPT ![new_object] = old_object]
           ELSE [right_sibling EXCEPT ![new_object] = old_object,
                                      ![l] = new_object]
      /\ parent' = [parent EXCEPT ![new_object] = p]
      /\ first_child' = IF l = NULL THEN [first_child EXCEPT ![p] = new_object]
                                    ELSE first_child
      /\ BeginAdjust(new_object)
      /\ UNCHANGED <<live, obj_class, last_child, level>>

\* As the right sibling of old_object, whose parent is dereferenced.
OdlPasteObjDescAfter(new_object, old_object) ==
  LET r == right_sibling[old_object]  p == parent[old_object]
  IN  /\ pc = "idle" /\ CanPaste(new_object, old_object) /\ Attached(old_object)
      /\ right_sibling' =
           [right_sibling EXCEPT ![new_object] = r, ![old_object] = new_object]
      /\ left_sibling' =
           IF r = NULL THEN [left_sibling EXCEPT ![new_object] = old_object]
           ELSE [left_sibling EXCEPT ![new_object] = old_object,
                                     ![r] = new_object]
      /\ parent' = [parent EXCEPT ![new_object] = p]
      /\ last_child' = IF r = NULL THEN [last_child EXCEPT ![p] = new_object]
                                   ELSE last_child
      /\ BeginAdjust(new_object)
      /\ UNCHANGED <<live, obj_class, first_child, level>>

\* Called on a whole tree: a parent would be left with a dangling child.
OdlFreeTree(object) ==
  LET freed == Tree(object)
      Cleared(f) == [o \in Objects |-> IF o \in freed THEN NULL ELSE f[o]]
  IN  /\ pc = "idle" /\ Detached(object)
      /\ live' = live \ freed
      /\ obj_class' = Cleared(obj_class)
      /\ parent' = Cleared(parent)
      /\ left_sibling' = Cleared(left_sibling)
      /\ right_sibling' = Cleared(right_sibling)
      /\ first_child' = Cleared(first_child)
      /\ last_child' = Cleared(last_child)
      /\ level' = [o \in Objects |-> IF o \in freed THEN 0 ELSE level[o]]
      /\ UNCHANGED walk

-----------------------------------------------------------------------------
(* Walking the tree.                                                       *)

\* The root_level a walk passes to OdlTraverseTree.
RootLevel == IF scope = "TO_END" THEN 0 ELSE level[start]

Visiting(o) == obj' = o /\ pc' = "visit"

\* The loop ends: the adjustment is over, a search answers.
Leave(answer) ==
  /\ obj' = NULL /\ found_object' = answer
  /\ pc' = IF call = "find" THEN "return" ELSE "idle"
  /\ start' = IF call = "find" THEN start ELSE NULL

\* A bug: the parent a walk climbs to is visited again.
RevisitsParent ==
  /\ IF first_child[obj] # NULL THEN Visiting(first_child[obj])
     ELSE IF right_sibling[obj] # NULL THEN Visiting(right_sibling[obj])
     ELSE IF parent[obj] # NULL THEN Visiting(parent[obj])
     ELSE obj' = NULL /\ pc' = "climb"
  /\ UNCHANGED <<start, found_object>>

\* OdlTraverseTree from `obj': its first child, else its right sibling, else
\* it begins to climb.
TraverseTree ==
  /\ IF first_child[obj] # NULL THEN Visiting(first_child[obj])
     ELSE IF right_sibling[obj] # NULL THEN Visiting(right_sibling[obj])
     ELSE obj' = parent[obj] /\ pc' = "climb"
  /\ UNCHANGED <<start, found_object>>

\* A bug: the walk climbs out of the sub-tree it began in.
ClimbsTooFar == obj = NULL \/ level[obj] < RootLevel

ClimbEnds == obj = NULL \/ level[obj] <= RootLevel

\* "move up parent list until we find one with a right sibling"
Climb ==
  /\ pc = "climb"
  /\ IF ClimbEnds THEN Leave(NULL)
     ELSE IF right_sibling[obj] # NULL
       THEN Visiting(right_sibling[obj]) /\ UNCHANGED <<start, found_object>>
       ELSE obj' = parent[obj] /\ UNCHANGED <<pc, start, found_object>>
  /\ UNCHANGED <<links, level, call, scope, query, current_position>>

\* A bug: only the object pasted gets its new level.
LevelOfStartOnly ==
  IF obj = start /\ parent[obj] # NULL THEN level[parent[obj]] + 1
  ELSE level[obj]

NewLevel == IF parent[obj] = NULL THEN 0 ELSE 1 + level[parent[obj]]

\* root_level is the level just given to the object pasted.
OdlAdjustObjDescLevel ==
  /\ pc = "visit" /\ call = "adjust"
  /\ level' = [level EXCEPT ![obj] = NewLevel]
  /\ TraverseTree
  /\ UNCHANGED <<links, call, scope, query, current_position>>

OdlFindObjDesc(start_object, q) ==
  /\ pc = "idle" /\ start_object \in live
  /\ pc' = "visit" /\ call' = "find" /\ start' = start_object
  /\ obj' = start_object /\ scope' = q.scope /\ query' = q
  /\ current_position' = 0
  /\ UNCHANGED <<links, level, found_object>>

Matches(o) == query.class = NULL \/ obj_class[o] = query.class

\* *search_scope once the children are the objects being searched.
NextScope == IF scope = "CHILDREN_ONLY" THEN "SIBLINGS_ONLY" ELSE scope

GoTo(o) ==
  IF o = NULL THEN Leave(NULL)
  ELSE Visiting(o) /\ UNCHANGED <<start, found_object>>

\* A bug: the sibling is that of the object the search began at.
NextToStart ==
  /\ scope' = NextScope
  /\ \/ scope = "THIS_OBJECT" /\ Leave(NULL)
     \/ scope = "CHILDREN_ONLY" /\ GoTo(first_child[start])
     \/ scope = "SIBLINGS_ONLY" /\ GoTo(right_sibling[start])
     \/ scope \in {"RECURSIVE_DOWN", "TO_END"} /\ TraverseTree

OdlNextObjDesc ==
  /\ scope' = NextScope
  /\ \/ scope = "THIS_OBJECT" /\ Leave(NULL)
     \/ scope = "CHILDREN_ONLY" /\ GoTo(first_child[obj])
     \/ scope = "SIBLINGS_ONLY" /\ GoTo(right_sibling[obj])
     \/ scope \in {"RECURSIVE_DOWN", "TO_END"} /\ TraverseTree

\* A match counts towards the position asked for, when one is.
Counts(o) == Matches(o) /\ query.position > 0

SearchObject ==
  /\ pc = "visit" /\ call = "find"
  /\ current_position' =
       IF Counts(obj) THEN current_position + 1 ELSE current_position
  /\ IF Matches(obj) /\ (query.position > 0 =>
                           current_position' = query.position)
     THEN Leave(obj) /\ UNCHANGED scope
     ELSE OdlNextObjDesc
  /\ UNCHANGED <<links, level, call, query>>

\* The caller takes the answer.
FindReturns ==
  /\ pc = "return"
  /\ pc' = "idle" /\ start' = NULL /\ found_object' = NULL
  /\ query' = NoQuery /\ current_position' = 0 /\ scope' = "RECURSIVE_DOWN"
  /\ call' = "adjust"
  /\ UNCHANGED <<links, level, obj>>

Walk == OdlAdjustObjDescLevel \/ SearchObject \/ Climb

Edit ==
  \/ \E o \in Objects, c \in Classes : OdlNewObjDesc(o, c)
  \/ \E o, n \in Objects : \/ OdlCopyObjDesc(o, n)
                           \/ OdlPasteObjDesc(n, o)
                           \/ OdlPasteObjDescBefore(n, o)
                           \/ OdlPasteObjDescAfter(n, o)
  \/ \E o \in Objects : OdlCutObjDesc(o) \/ OdlFreeTree(o)

Find == \E o \in Objects, q \in Queries : OdlFindObjDesc(o, q)

Next == Edit \/ Find \/ Walk \/ FindReturns

Spec == Init /\ [][Next]_vars

-----------------------------------------------------------------------------
(* What the tree promises.                                                 *)

\* No link of an allocated object leads to a freed one: freeing a tree, and
\* every cut and paste before it, leaves nothing dangling.
NothingDangles ==
  \A x \in live :
    {parent[x], left_sibling[x], right_sibling[x], first_child[x],
     last_child[x]} \subseteq live \cup {NULL}

\* The links of an OBJDESC say the same thing: siblings point at each other
\* and share a parent, and an object of no tree has no sibling.
SiblingsAgree ==
  \A x \in live :
    /\ right_sibling[x] # NULL =>
         /\ left_sibling[right_sibling[x]] = x
         /\ parent[right_sibling[x]] = parent[x]
    /\ left_sibling[x] # NULL =>
         /\ right_sibling[left_sibling[x]] = x
         /\ parent[left_sibling[x]] = parent[x]
    /\ parent[x] = NULL => left_sibling[x] = NULL /\ right_sibling[x] = NULL

\* A parent's first and last child are its only children without a left and
\* a right sibling, and it has both or neither.
ChildrenAgree ==
  \A x \in live :
    /\ parent[x] # NULL =>
         /\ left_sibling[x] = NULL <=> first_child[parent[x]] = x
         /\ right_sibling[x] = NULL <=> last_child[parent[x]] = x
    /\ first_child[x] # NULL =>
         parent[first_child[x]] = x /\ left_sibling[first_child[x]] = NULL
    /\ last_child[x] # NULL =>
         parent[last_child[x]] = x /\ right_sibling[last_child[x]] = NULL
    /\ first_child[x] = NULL <=> last_child[x] = NULL

\* No child is lost to a loop over its siblings: a set that holds the first
\* child, and the right sibling of each of its members, holds every child.
ChildrenReached ==
  \A p \in live, S \in SUBSET Objects :
    (/\ first_child[p] # NULL => first_child[p] \in S
     /\ \A y \in S : right_sibling[y] # NULL => right_sibling[y] \in S)
      => \A x \in live : parent[x] = p => x \in S

\* What the pointers of the tree promise a caller between two calls.
LinksAgree ==
  NothingDangles /\ SiblingsAgree /\ ChildrenAgree /\ ChildrenReached

\* Once an adjustment is over the level of every object is one more than its
\* parent's, wherever its tree was cut from.
LevelsFollowParents ==
  pc = "idle" =>
    \A x \in live : parent[x] # NULL => level[x] = level[parent[x]] + 1

\* Every walk of the tree comes to its end.
WalkReturns == pc = "visit" ~> pc \in {"idle", "return"}

=============================================================================
