---------------------------- MODULE OdlTreeProofs ----------------------------
(***************************************************************************)
(* After any sequence of edits on any number of objects the pointers of    *)
(* the object tree agree and lead to allocated objects, levels are one     *)
(* more than the parent's, and the pointers stand for a forest of          *)
(* sequences on which every edit is the one of its name.                   *)
(***************************************************************************)
EXTENDS OdlTreeRefinement, FiniteSetTheorems, WellFoundedInduction, SequenceTheorems,
        TLAPS

USE DEF Pointer

-----------------------------------------------------------------------------
(* Types.                                                                  *)

LEMMA NullIsNoObject == NULL \notin Objects
BY NullAssumption

LEMMA InitTyped == Init => TypeOK
BY DEF Init, TypeOK, Nowhere, Scopes, NoQuery

LEMMA NewBlockTyped ==
  ASSUME TypeOK, NEW o \in Objects, NEW c \in Classes \cup {NULL},
         NewBlock(o, c)
  PROVE  TypeOK'
BY DEF TypeOK, NewBlock, walk

LEMMA CutTyped ==
  ASSUME TypeOK, NEW o \in Objects, OdlCutObjDesc(o)
  PROVE  TypeOK'
BY DEF TypeOK, OdlCutObjDesc, LastWithout, walk

LEMMA PasteTyped ==
  ASSUME TypeOK, NEW n \in Objects, NEW o \in Objects,
         \/ OdlPasteObjDesc(n, o)
         \/ OdlPasteObjDescBefore(n, o)
         \/ OdlPasteObjDescAfter(n, o)
  PROVE  TypeOK'
<1>1. CASE OdlPasteObjDesc(n, o)
  BY <1>1 DEF TypeOK, OdlPasteObjDesc, BeginAdjust, Scopes
<1>2. CASE OdlPasteObjDescBefore(n, o)
  BY <1>2 DEF TypeOK, OdlPasteObjDescBefore, BeginAdjust, Scopes
<1>3. CASE OdlPasteObjDescAfter(n, o)
  BY <1>3 DEF TypeOK, OdlPasteObjDescAfter, BeginAdjust, Scopes
<1> QED BY <1>1, <1>2, <1>3

LEMMA FreeTyped ==
  ASSUME TypeOK, NEW o \in Objects, OdlFreeTree(o)
  PROVE  TypeOK'
BY DEF TypeOK, OdlFreeTree, walk

\* OdlNextObjDesc leaves the walk at an object, at a parent or at its end.
LEMMA NextObjDescTyped ==
  ASSUME TypeOK, obj \in Objects, OdlNextObjDesc
  PROVE  /\ pc' \in {"idle", "visit", "climb", "return"}
         /\ start' \in Pointer /\ scope' \in Scopes /\ obj' \in Pointer
         /\ found_object' \in Pointer /\ (pc' = "visit" => obj' \in Objects)
<1>1. scope' \in Scopes
  BY DEF TypeOK, OdlNextObjDesc, NextScope, Scopes
<1>2. \/ Leave(NULL) \/ GoTo(first_child[obj])
      \/ GoTo(right_sibling[obj]) \/ TraverseTree
  BY DEF OdlNextObjDesc
<1>3. first_child[obj] \in Pointer /\ right_sibling[obj] \in Pointer
      /\ parent[obj] \in Pointer
  BY DEF TypeOK
<1> QED BY <1>1, <1>2, <1>3 DEF TypeOK, Leave, GoTo, TraverseTree, Visiting

LEMMA WalkTyped ==
  ASSUME TypeOK, Walk \/ FindReturns
  PROVE  TypeOK'
<1>1. CASE OdlAdjustObjDescLevel
  <2>1. obj \in Objects /\ NewLevel \in Nat
    BY <1>1 DEF TypeOK, OdlAdjustObjDescLevel, NewLevel
  <2> QED
    BY <1>1, <2>1 DEF TypeOK, OdlAdjustObjDescLevel, TraverseTree, Visiting, links
<1>2. CASE SearchObject
  <2>1. obj \in Objects
    BY <1>2 DEF TypeOK, SearchObject
  <2>2. current_position' \in Nat
    BY <1>2 DEF TypeOK, SearchObject
  <2>3. /\ pc' \in {"idle", "visit", "climb", "return"}
        /\ start' \in Pointer /\ scope' \in Scopes /\ obj' \in Pointer
        /\ found_object' \in Pointer /\ (pc' = "visit" => obj' \in Objects)
    <3>1. CASE Leave(obj) /\ UNCHANGED scope
      BY <2>1, <3>1 DEF TypeOK, Leave
    <3>2. CASE OdlNextObjDesc
      BY <2>1, <3>2, NextObjDescTyped
    <3> QED BY <1>2, <3>1, <3>2 DEF SearchObject
  <2> QED
    BY <1>2, <2>2, <2>3 DEF TypeOK, SearchObject, links
<1>3. CASE Climb
  BY <1>3 DEF TypeOK, Climb, ClimbEnds, Leave, Visiting, links
<1>4. CASE FindReturns
  BY <1>4 DEF TypeOK, FindReturns, Scopes, links
<1> QED BY <1>1, <1>2, <1>3, <1>4 DEF Walk

LEMMA FindTyped ==
  ASSUME TypeOK, Find
  PROVE  TypeOK'
<1>1. PICK o \in Objects, q \in Queries : OdlFindObjDesc(o, q)
  BY DEF Find
<1>2. q.scope \in Scopes
  BY QueriesAssumption
<1> QED BY <1>1, <1>2 DEF TypeOK, OdlFindObjDesc, links

LEMMA NextTyped == TypeOK /\ [Next]_vars => TypeOK'
<1> SUFFICES ASSUME TypeOK, [Next]_vars PROVE TypeOK'
  OBVIOUS
<1>1. CASE Edit
  <2>1. ASSUME NEW o \in Objects, NEW c \in Classes, OdlNewObjDesc(o, c)
        PROVE TypeOK'
    BY <2>1, NewBlockTyped DEF OdlNewObjDesc
  <2>2. ASSUME NEW o \in Objects, NEW n \in Objects, OdlCopyObjDesc(o, n)
        PROVE TypeOK'
    <3>1. obj_class[o] \in Classes \cup {NULL}
      BY DEF TypeOK
    <3> QED BY <2>2, <3>1, NewBlockTyped DEF OdlCopyObjDesc
  <2> QED BY <1>1, <2>1, <2>2, CutTyped, PasteTyped, FreeTyped DEF Edit
<1>2. CASE Find
  BY <1>2, FindTyped
<1>3. CASE Walk \/ FindReturns
  BY <1>3, WalkTyped
<1>4. CASE UNCHANGED vars
  BY <1>4 DEF TypeOK, vars, links, walk
<1> QED BY <1>1, <1>2, <1>3, <1>4 DEF Next

\* Type correctness: the links, the level and the walk always have the types
\* their C declarations give them, and no walk visits NULL.
THEOREM TypeCorrect == Spec => []TypeOK
<1> QED BY InitTyped, NextTyped, PTL DEF Spec

-----------------------------------------------------------------------------
(* The links.  LinksAgree says nothing of levels and walks, so a walk keeps *)
(* it; each edit changes a few links, listed object by object first.       *)

Links == <<live, parent, left_sibling, right_sibling, first_child, last_child>>

LEMMA LinksKept ==
  ASSUME LinksAgree, UNCHANGED Links
  PROVE  LinksAgree'
BY DEF LinksAgree, NothingDangles, SiblingsAgree, ChildrenAgree,
       ChildrenReached, Links

LEMMA InitLinks == Init => LinksAgree
BY DEF Init, LinksAgree, NothingDangles, SiblingsAgree, ChildrenAgree,
       ChildrenReached

\* The links of one allocated object, spelt out.
LEMMA LinksOf ==
  ASSUME TypeOK, LinksAgree, NEW x \in live
  PROVE  /\ x \in Objects
         /\ parent[x] \in live \cup {NULL}
         /\ left_sibling[x] \in live \cup {NULL}
         /\ right_sibling[x] \in live \cup {NULL}
         /\ first_child[x] \in live \cup {NULL}
         /\ last_child[x] \in live \cup {NULL}
BY DEF TypeOK, LinksAgree, NothingDangles

LEMMA NewBlockLinks ==
  ASSUME TypeOK, LinksAgree, NEW o \in Objects, NEW c, NewBlock(o, c)
  PROVE  LinksAgree'
<1>1. /\ o \notin live /\ live' = live \cup {o}
      /\ parent'[o] = NULL /\ left_sibling'[o] = NULL
      /\ right_sibling'[o] = NULL
      /\ first_child'[o] = NULL /\ last_child'[o] = NULL
  BY DEF NewBlock, TypeOK
<1>2. ASSUME NEW x \in Objects, x # o
      PROVE  /\ parent'[x] = parent[x] /\ left_sibling'[x] = left_sibling[x]
             /\ right_sibling'[x] = right_sibling[x]
             /\ first_child'[x] = first_child[x]
             /\ last_child'[x] = last_child[x]
  BY <1>2 DEF NewBlock, TypeOK
<1>3. live \subseteq Objects
  BY DEF TypeOK
<1>4. NothingDangles'
  BY <1>1, <1>2, <1>3, NullIsNoObject DEF LinksAgree, NothingDangles
<1>5. SiblingsAgree'
  BY <1>1, <1>2, <1>3, LinksOf, NullIsNoObject DEF LinksAgree, SiblingsAgree
<1>6. ChildrenAgree'
  BY <1>1, <1>2, <1>3, LinksOf, NullIsNoObject DEF LinksAgree, ChildrenAgree
<1>7. ChildrenReached'
  <2> SUFFICES ASSUME NEW p \in live', NEW S \in SUBSET Objects,
                      first_child'[p] # NULL => first_child'[p] \in S,
                      \A y \in S : right_sibling'[y] # NULL => right_sibling'[y] \in S,
                      NEW x \in live', parent'[x] = p
               PROVE  x \in S
    BY DEF ChildrenReached
  <2>1. x # o /\ x \in live /\ parent[x] = p
    BY <1>1, <1>2, <1>3, NullIsNoObject
  <2>2. p \in live /\ p # o
    BY <1>1, <2>1, LinksOf, NullIsNoObject
  <2> DEFINE T == S \cap live
  <2>3. \A y \in T : right_sibling[y] # NULL => right_sibling[y] \in T
    BY <1>1, <1>2, <1>3, LinksOf
  <2>4. first_child[p] # NULL => first_child[p] \in T
    BY <1>2, <1>3, <2>2, LinksOf
  <2>5. T \in SUBSET Objects
    OBVIOUS
  <2>6. x \in T
    BY <2>1, <2>2, <2>3, <2>4, <2>5 DEF LinksAgree, ChildrenReached
  <2> QED BY <2>6
<1> QED BY <1>4, <1>5, <1>6, <1>7 DEF LinksAgree

LEMMA CutLinks ==
  ASSUME TypeOK, LinksAgree, NEW o \in Objects, OdlCutObjDesc(o)
  PROVE  LinksAgree'
<1> DEFINE l == left_sibling[o]
           r == right_sibling[o]
           p == parent[o]
<1>1. /\ o \in live /\ p \in live /\ p # NULL /\ live' = live
      /\ l \in live \cup {NULL} /\ r \in live \cup {NULL}
  BY LinksOf DEF OdlCutObjDesc, Attached
<1>2. live \subseteq Objects
  BY DEF TypeOK
<1>3. \A x \in Objects : parent'[x] = IF x = o THEN NULL ELSE parent[x]
  BY DEF OdlCutObjDesc, TypeOK
<1>4. \A x \in Objects :
        left_sibling'[x] = IF x = o THEN NULL
                           ELSE IF x = r THEN l ELSE left_sibling[x]
  BY <1>1, <1>2, NullIsNoObject DEF OdlCutObjDesc, TypeOK
<1>5. \A x \in Objects :
        right_sibling'[x] = IF x = o THEN NULL
                            ELSE IF x = l THEN r ELSE right_sibling[x]
  BY <1>1, <1>2, NullIsNoObject DEF OdlCutObjDesc, TypeOK
<1>6. \A x \in Objects :
        first_child'[x] = IF x = p /\ l = NULL THEN r ELSE first_child[x]
  BY <1>1, <1>2, NullIsNoObject DEF OdlCutObjDesc, TypeOK
<1>7. \A x \in Objects :
        last_child'[x] = IF x = p /\ r = NULL THEN l ELSE last_child[x]
  BY <1>1, <1>2, NullIsNoObject DEF OdlCutObjDesc, LastWithout, TypeOK
<1>8. NothingDangles'
  BY <1>1, <1>2, <1>3, <1>4, <1>5, <1>6, <1>7, LinksOf DEF NothingDangles
<1>9. SiblingsAgree'
  BY <1>1, <1>2, <1>3, <1>4, <1>5, LinksOf, NullIsNoObject
  DEF LinksAgree, SiblingsAgree
<1>10. ChildrenAgree'
  BY <1>1, <1>2, <1>3, <1>4, <1>5, <1>6, <1>7, LinksOf, NullIsNoObject
  DEF LinksAgree, SiblingsAgree, ChildrenAgree
<1>11. ChildrenReached'
  <2> SUFFICES ASSUME NEW q \in live', NEW S \in SUBSET Objects,
                      first_child'[q] # NULL => first_child'[q] \in S,
                      \A y \in S : right_sibling'[y] # NULL => right_sibling'[y] \in S,
                      NEW x \in live', parent'[x] = q
               PROVE  x \in S
    BY DEF ChildrenReached
  <2>1. q \in live /\ x \in live /\ x # o /\ parent[x] = q /\ q \in Objects
    BY <1>1, <1>2, <1>3, NullIsNoObject
  <2>2. SiblingsAgree /\ ChildrenAgree
    BY DEF LinksAgree
  <2>3. CASE l \in S \/ (l = NULL /\ q = p)
    <3> DEFINE T == (S \cap live) \cup {o}
    <3>1. r # NULL => r \in S
      <4>1. CASE l \in S /\ l # o
        BY <1>1, <1>2, <1>5, <4>1
      <4>2. CASE l \in S /\ l = o
        BY <1>1, <2>2, <4>2, NullIsNoObject DEF SiblingsAgree
      <4>3. CASE l = NULL /\ q = p
        BY <1>1, <1>2, <1>6, <4>3
      <4> QED BY <2>3, <4>1, <4>2, <4>3
    <3>2. l # NULL => right_sibling[l] = o
      BY <1>1, <2>2 DEF SiblingsAgree
    <3>3. ASSUME NEW y \in T, right_sibling[y] # NULL
          PROVE  right_sibling[y] \in T
      <4>1. CASE y = o
        BY <1>1, <3>1, <3>3, <4>1
      <4>2. CASE y = l
        BY <1>1, <1>2, <3>2, <4>2, NullIsNoObject
      <4>3. CASE y # o /\ y # l
        BY <1>2, <1>5, <3>3, <4>3, LinksOf
      <4> QED BY <4>1, <4>2, <4>3
    <3>4. first_child[q] # NULL => first_child[q] \in T
      BY <1>1, <1>2, <1>6, <2>1, <2>2, <2>3, LinksOf DEF ChildrenAgree
    <3>5. T \in SUBSET Objects
      OBVIOUS
    <3>6. x \in T
      BY <2>1, <3>3, <3>4, <3>5 DEF LinksAgree, ChildrenReached
    <3> QED BY <2>1, <3>6
  <2>4. CASE ~(l \in S \/ (l = NULL /\ q = p))
    <3> DEFINE T == (S \cap live) \ {o}
    <3>1. \A y \in T : right_sibling[y] # o
      BY <1>1, <2>2, <2>4, NullIsNoObject DEF SiblingsAgree
    <3>2. \A y \in T : right_sibling[y] # NULL => right_sibling[y] \in T
      BY <1>1, <1>2, <1>5, <2>4, <3>1, LinksOf
    <3>3. first_child[q] # o
      BY <1>1, <1>2, <2>1, <2>2, <2>4, LinksOf, NullIsNoObject DEF ChildrenAgree
    <3>4. first_child[q] # NULL => first_child[q] \in T
      BY <1>1, <1>2, <1>6, <2>1, <2>4, <3>3, LinksOf
    <3>5. T \in SUBSET Objects
      OBVIOUS
    <3>6. x \in T
      BY <2>1, <3>2, <3>4, <3>5 DEF LinksAgree, ChildrenReached
    <3> QED BY <3>6
  <2> QED BY <2>3, <2>4
<1> QED BY <1>8, <1>9, <1>10, <1>11 DEF LinksAgree

-----------------------------------------------------------------------------
(* A paste.  T below is the set of the old tree that ChildrenReached is     *)
(* applied to: the objects of S that were there before the paste.          *)

LEMMA PlaceIsAnother ==
  ASSUME TypeOK, LinksAgree, NEW n \in Objects, NEW o \in Objects,
         CanPaste(n, o)
  PROVE  /\ n \in live /\ o \in live /\ n # o
         /\ parent[n] = NULL /\ left_sibling[n] = NULL
         /\ right_sibling[n] = NULL
         /\ \A y \in live : /\ right_sibling[y] # n /\ left_sibling[y] # n
                            /\ first_child[y] # n /\ last_child[y] # n
<1>1. n \in live /\ o \in live /\ parent[n] = NULL
  BY DEF CanPaste, Detached
<1>2. n # o
  <2>1. n \in Tree(n)
    BY DEF Tree
  <2> QED BY <2>1 DEF CanPaste
<1>3. left_sibling[n] = NULL /\ right_sibling[n] = NULL
  BY <1>1 DEF LinksAgree, SiblingsAgree
<1>4. live \subseteq Objects
  BY DEF TypeOK
<1>5. ASSUME NEW y \in live
      PROVE  /\ right_sibling[y] # n /\ left_sibling[y] # n
             /\ first_child[y] # n /\ last_child[y] # n
  BY <1>1, <1>3, <1>4, NullIsNoObject
  DEF LinksAgree, SiblingsAgree, ChildrenAgree
<1> QED BY <1>1, <1>2, <1>3, <1>5

LEMMA PasteLastLinks ==
  ASSUME TypeOK, LinksAgree, NEW n \in Objects, NEW q \in Objects,
         OdlPasteObjDesc(n, q)
  PROVE  LinksAgree'
<1> DEFINE l == last_child[q]
<1>1. /\ n \in live /\ q \in live /\ n # q /\ live' = live
      /\ parent[n] = NULL /\ left_sibling[n] = NULL /\ right_sibling[n] = NULL
      /\ l \in live \cup {NULL} /\ l # n
      /\ \A y \in live : /\ right_sibling[y] # n /\ left_sibling[y] # n
                         /\ first_child[y] # n /\ last_child[y] # n
  BY PlaceIsAnother, LinksOf DEF OdlPasteObjDesc
<1>2. live \subseteq Objects
  BY DEF TypeOK
<1>3. /\ l # NULL => parent[l] = q /\ right_sibling[l] = NULL
      /\ l = NULL <=> first_child[q] = NULL
  BY <1>1 DEF LinksAgree, ChildrenAgree
<1>4. \A x \in Objects :
        parent'[x] = IF x = n THEN q ELSE parent[x]
  BY <1>1, <1>2, <1>3, NullIsNoObject DEF OdlPasteObjDesc, TypeOK
<1>5. \A x \in Objects :
        left_sibling'[x] = IF x = n THEN l ELSE left_sibling[x]
  BY <1>1, <1>2, <1>3, NullIsNoObject DEF OdlPasteObjDesc, TypeOK
<1>6. \A x \in Objects :
        right_sibling'[x] = IF x = n THEN NULL ELSE IF x = l THEN n ELSE right_sibling[x]
  BY <1>1, <1>2, <1>3, NullIsNoObject DEF OdlPasteObjDesc, TypeOK
<1>7. \A x \in Objects :
        first_child'[x] = IF x = q /\ l = NULL THEN n ELSE first_child[x]
  BY <1>1, <1>2, <1>3, NullIsNoObject DEF OdlPasteObjDesc, TypeOK
<1>8. \A x \in Objects :
        last_child'[x] = IF x = q THEN n ELSE last_child[x]
  BY <1>1, <1>2, <1>3, NullIsNoObject DEF OdlPasteObjDesc, TypeOK
<1>9. NothingDangles'
  BY <1>1, <1>2, <1>4, <1>5, <1>6, <1>7, <1>8, LinksOf DEF NothingDangles
<1>10. SiblingsAgree'
  BY <1>1, <1>2, <1>4, <1>5, <1>6, <1>3, LinksOf, NullIsNoObject
  DEF LinksAgree, SiblingsAgree, ChildrenAgree
<1>11. ChildrenAgree'
  BY <1>1, <1>2, <1>4, <1>5, <1>6, <1>7, <1>8, <1>3, LinksOf, NullIsNoObject
  DEF LinksAgree, SiblingsAgree, ChildrenAgree
<1>12. ChildrenReached'
  <2> SUFFICES ASSUME NEW c \in live', NEW S \in SUBSET Objects,
                      first_child'[c] # NULL => first_child'[c] \in S,
                      \A y \in S : right_sibling'[y] # NULL => right_sibling'[y] \in S,
                      NEW x \in live', parent'[x] = c
               PROVE  x \in S
    BY DEF ChildrenReached
  <2>1. c \in live /\ x \in live /\ c \in Objects /\ x \in Objects
    BY <1>1, <1>2
  <2> DEFINE T == (S \cap live) \ {n}
  <2>2. ASSUME NEW y \in T, right_sibling[y] # NULL
        PROVE  right_sibling[y] \in T
    <3>1. y # l
      BY <1>3, <2>2, NullIsNoObject
    <3>2. right_sibling'[y] = right_sibling[y]
      BY <1>2, <1>6, <3>1
    <3> QED BY <1>1, <1>2, <2>2, <3>2, LinksOf
  <2>3. first_child[c] # NULL => first_child[c] \in T
    BY <1>1, <1>2, <1>7, <1>3, <2>1, LinksOf
  <2>4. T \in SUBSET Objects
    OBVIOUS
  <2>5. \A z \in live : parent[z] = c => z \in T
    BY <2>1, <2>2, <2>3, <2>4 DEF LinksAgree, ChildrenReached
  <2>6. CASE x # n
    BY <1>4, <2>1, <2>5, <2>6
  <2>7. CASE x = n
    <3>1. c = q
      BY <1>4, <2>1, <2>7
    <3>2. CASE l = NULL
      BY <1>7, <2>1, <2>7, <3>1, <3>2, NullIsNoObject
    <3>3. CASE l # NULL
      BY <1>1, <1>2, <1>6, <1>3, <2>5, <2>7, <3>1, <3>3, NullIsNoObject
    <3> QED BY <3>2, <3>3
  <2> QED BY <2>6, <2>7
<1> QED BY <1>9, <1>10, <1>11, <1>12 DEF LinksAgree

LEMMA PasteBeforeLinks ==
  ASSUME TypeOK, LinksAgree, NEW n \in Objects, NEW o \in Objects,
         OdlPasteObjDescBefore(n, o)
  PROVE  LinksAgree'
<1> DEFINE l == left_sibling[o]
           p == parent[o]
<1>1. /\ n \in live /\ o \in live /\ n # o /\ live' = live
      /\ parent[n] = NULL /\ left_sibling[n] = NULL /\ right_sibling[n] = NULL
      /\ l \in live \cup {NULL} /\ l # n /\ p \in live /\ p # NULL
      /\ \A y \in live : /\ right_sibling[y] # n /\ left_sibling[y] # n
                         /\ first_child[y] # n /\ last_child[y] # n
  BY PlaceIsAnother, LinksOf DEF OdlPasteObjDescBefore, Attached
<1>2. live \subseteq Objects
  BY DEF TypeOK
<1>3. /\ l # NULL => right_sibling[l] = o /\ parent[l] = p
      /\ l = NULL <=> first_child[p] = o
  BY <1>1 DEF LinksAgree, SiblingsAgree, ChildrenAgree
<1>4. \A x \in Objects :
        parent'[x] = IF x = n THEN p ELSE parent[x]
  BY <1>1, <1>2, <1>3, NullIsNoObject DEF OdlPasteObjDescBefore, TypeOK
<1>5. \A x \in Objects :
        left_sibling'[x] = IF x = n THEN l ELSE IF x = o THEN n ELSE left_sibling[x]
  BY <1>1, <1>2, <1>3, NullIsNoObject DEF OdlPasteObjDescBefore, TypeOK
<1>6. \A x \in Objects :
        right_sibling'[x] = IF x = n THEN o ELSE IF x = l THEN n ELSE right_sibling[x]
  BY <1>1, <1>2, <1>3, NullIsNoObject DEF OdlPasteObjDescBefore, TypeOK
<1>7. \A x \in Objects :
        first_child'[x] = IF x = p /\ l = NULL THEN n ELSE first_child[x]
  BY <1>1, <1>2, <1>3, NullIsNoObject DEF OdlPasteObjDescBefore, TypeOK
<1>8. \A x \in Objects :
        last_child'[x] = last_child[x]
  BY <1>1, <1>2, <1>3, NullIsNoObject DEF OdlPasteObjDescBefore, TypeOK
<1>9. NothingDangles'
  BY <1>1, <1>2, <1>4, <1>5, <1>6, <1>7, <1>8, LinksOf DEF NothingDangles
<1>10. SiblingsAgree'
  BY <1>1, <1>2, <1>4, <1>5, <1>6, <1>3, LinksOf, NullIsNoObject
  DEF LinksAgree, SiblingsAgree, ChildrenAgree
<1>11. ChildrenAgree'
  BY <1>1, <1>2, <1>4, <1>5, <1>6, <1>7, <1>8, <1>3, LinksOf, NullIsNoObject
  DEF LinksAgree, SiblingsAgree, ChildrenAgree
<1>12. ChildrenReached'
  <2> SUFFICES ASSUME NEW c \in live', NEW S \in SUBSET Objects,
                      first_child'[c] # NULL => first_child'[c] \in S,
                      \A y \in S : right_sibling'[y] # NULL => right_sibling'[y] \in S,
                      NEW x \in live', parent'[x] = c
               PROVE  x \in S
    BY DEF ChildrenReached
  <2>1. c \in live /\ x \in live /\ c \in Objects /\ x \in Objects
    BY <1>1, <1>2
  <2> DEFINE T == (S \cap live) \ {n}
  <2>2. ASSUME NEW y \in T, right_sibling[y] # NULL
        PROVE  right_sibling[y] \in T
    <3>1. CASE y = l
      <4>1. right_sibling[y] = o /\ right_sibling'[y] = n
        BY <1>1, <1>2, <1>6, <1>3, <3>1, NullIsNoObject
      <4>2. n \in S
        BY <4>1, NullIsNoObject
      <4>3. right_sibling'[n] = o
        BY <1>6
      <4> QED BY <1>1, <1>2, <4>1, <4>2, <4>3, NullIsNoObject
    <3>2. CASE y # l
      BY <1>1, <1>2, <1>6, <2>2, <3>2, LinksOf
    <3> QED BY <3>1, <3>2
  <2>3. first_child[c] # NULL => first_child[c] \in T
    <3>1. CASE l = NULL /\ c = p
      <4>1. first_child[c] = o /\ first_child'[c] = n
        BY <1>7, <1>3, <2>1, <3>1
      <4>2. n \in S
        BY <4>1, NullIsNoObject
      <4>3. right_sibling'[n] = o
        BY <1>6
      <4> QED BY <1>1, <1>2, <4>1, <4>2, <4>3, NullIsNoObject
    <3>2. CASE ~(l = NULL /\ c = p)
      BY <1>1, <1>2, <1>7, <2>1, <3>2, LinksOf
    <3> QED BY <3>1, <3>2
  <2>4. T \in SUBSET Objects
    OBVIOUS
  <2>5. \A z \in live : parent[z] = c => z \in T
    BY <2>1, <2>2, <2>3, <2>4 DEF LinksAgree, ChildrenReached
  <2>6. CASE x # n
    BY <1>4, <2>1, <2>5, <2>6
  <2>7. CASE x = n
    <3>1. c = p
      BY <1>4, <2>1, <2>7
    <3>2. CASE l = NULL
      BY <1>7, <2>1, <2>7, <3>1, <3>2, NullIsNoObject
    <3>3. CASE l # NULL
      <4>1. l \in T
        BY <1>1, <1>3, <2>5, <3>1, <3>3
      <4>2. right_sibling'[l] = n
        BY <1>1, <1>2, <1>6, <3>3
      <4> QED BY <2>7, <4>1, <4>2, NullIsNoObject
    <3> QED BY <3>2, <3>3
  <2> QED BY <2>6, <2>7
<1> QED BY <1>9, <1>10, <1>11, <1>12 DEF LinksAgree

LEMMA PasteAfterLinks ==
  ASSUME TypeOK, LinksAgree, NEW n \in Objects, NEW o \in Objects,
         OdlPasteObjDescAfter(n, o)
  PROVE  LinksAgree'
<1> DEFINE r == right_sibling[o]
           p == parent[o]
<1>1. /\ n \in live /\ o \in live /\ n # o /\ live' = live
      /\ parent[n] = NULL /\ left_sibling[n] = NULL /\ right_sibling[n] = NULL
      /\ r \in live \cup {NULL} /\ r # n /\ p \in live /\ p # NULL
      /\ \A y \in live : /\ right_sibling[y] # n /\ left_sibling[y] # n
                         /\ first_child[y] # n /\ last_child[y] # n
  BY PlaceIsAnother, LinksOf DEF OdlPasteObjDescAfter, Attached
<1>2. live \subseteq Objects
  BY DEF TypeOK
<1>3. /\ r # NULL => left_sibling[r] = o /\ parent[r] = p
      /\ r = NULL <=> last_child[p] = o
  BY <1>1 DEF LinksAgree, SiblingsAgree, ChildrenAgree
<1>4. \A x \in Objects :
        parent'[x] = IF x = n THEN p ELSE parent[x]
  BY <1>1, <1>2, <1>3, NullIsNoObject DEF OdlPasteObjDescAfter, TypeOK
<1>5. \A x \in Objects :
        left_sibling'[x] = IF x = n THEN o ELSE IF x = r THEN n ELSE left_sibling[x]
  BY <1>1, <1>2, <1>3, NullIsNoObject DEF OdlPasteObjDescAfter, TypeOK
<1>6. \A x \in Objects :
        right_sibling'[x] = IF x = n THEN r ELSE IF x = o THEN n ELSE right_sibling[x]
  BY <1>1, <1>2, <1>3, NullIsNoObject DEF OdlPasteObjDescAfter, TypeOK
<1>7. \A x \in Objects :
        first_child'[x] = first_child[x]
  BY <1>1, <1>2, <1>3, NullIsNoObject DEF OdlPasteObjDescAfter, TypeOK
<1>8. \A x \in Objects :
        last_child'[x] = IF x = p /\ r = NULL THEN n ELSE last_child[x]
  BY <1>1, <1>2, <1>3, NullIsNoObject DEF OdlPasteObjDescAfter, TypeOK
<1>9. NothingDangles'
  BY <1>1, <1>2, <1>4, <1>5, <1>6, <1>7, <1>8, LinksOf DEF NothingDangles
<1>10. SiblingsAgree'
  BY <1>1, <1>2, <1>4, <1>5, <1>6, <1>3, LinksOf, NullIsNoObject
  DEF LinksAgree, SiblingsAgree, ChildrenAgree
<1>11. ChildrenAgree'
  BY <1>1, <1>2, <1>4, <1>5, <1>6, <1>7, <1>8, <1>3, LinksOf, NullIsNoObject
  DEF LinksAgree, SiblingsAgree, ChildrenAgree
<1>12. ChildrenReached'
  <2> SUFFICES ASSUME NEW c \in live', NEW S \in SUBSET Objects,
                      first_child'[c] # NULL => first_child'[c] \in S,
                      \A y \in S : right_sibling'[y] # NULL => right_sibling'[y] \in S,
                      NEW x \in live', parent'[x] = c
               PROVE  x \in S
    BY DEF ChildrenReached
  <2>1. c \in live /\ x \in live /\ c \in Objects /\ x \in Objects
    BY <1>1, <1>2
  <2> DEFINE T == (S \cap live) \ {n}
  <2>2. ASSUME NEW y \in T, right_sibling[y] # NULL
        PROVE  right_sibling[y] \in T
    <3>1. CASE y = o
      <4>1. n \in S
        BY <1>1, <1>6, <3>1, NullIsNoObject
      <4>2. right_sibling'[n] = right_sibling[y]
        BY <1>6, <3>1
      <4> QED BY <1>1, <2>2, <3>1, <4>1, <4>2
    <3>2. CASE y # o
      BY <1>1, <1>2, <1>6, <2>2, <3>2, LinksOf
    <3> QED BY <3>1, <3>2
  <2>3. first_child[c] # NULL => first_child[c] \in T
    BY <1>1, <1>2, <1>7, <2>1, LinksOf
  <2>4. T \in SUBSET Objects
    OBVIOUS
  <2>5. \A z \in live : parent[z] = c => z \in T
    BY <2>1, <2>2, <2>3, <2>4 DEF LinksAgree, ChildrenReached
  <2>6. CASE x # n
    BY <1>4, <2>1, <2>5, <2>6
  <2>7. CASE x = n
    <3>1. c = p
      BY <1>4, <2>1, <2>7
    <3>2. o \in T
      BY <1>1, <2>5, <3>1
    <3>3. right_sibling'[o] = n
      BY <1>1, <1>2, <1>6
    <3> QED BY <2>7, <3>2, <3>3, NullIsNoObject
  <2> QED BY <2>6, <2>7
<1> QED BY <1>9, <1>10, <1>11, <1>12 DEF LinksAgree

-----------------------------------------------------------------------------
(* Freeing.  Tree(o) is the least set that holds o, the first child and the *)
(* right sibling of each of its members.                                   *)

LEMMA TreeIsClosed ==
  ASSUME TypeOK, NEW o \in Objects
  PROVE  o \in Tree(o) /\ Tree(o) \subseteq Objects /\ Closed(Tree(o))
<1>1. o \in Tree(o) /\ Tree(o) \subseteq Objects
  BY DEF Tree
<1>2. ASSUME NEW y \in Tree(o), NEW z \in Objects,
             z = first_child[y] \/ z = right_sibling[y]
      PROVE  z \in Tree(o)
  <2>1. ASSUME NEW S \in SUBSET Objects, o \in S, Closed(S)
        PROVE  z \in S
    <3>1. y \in S
      BY <2>1 DEF Tree
    <3> QED BY <1>2, <2>1, <3>1, NullIsNoObject DEF Closed
  <2> QED BY <2>1 DEF Tree
<1>3. \A y \in Tree(o) : first_child[y] \in Pointer /\ right_sibling[y] \in Pointer
  BY <1>1 DEF TypeOK
<1> QED BY <1>1, <1>2, <1>3 DEF Closed

LEMMA TreeIsLeast ==
  ASSUME NEW o \in Objects, NEW S \in SUBSET Objects, o \in S, Closed(S)
  PROVE  Tree(o) \subseteq S
BY DEF Tree

\* What a whole tree holds is allocated, and no link joins it to the rest.
LEMMA TreeStandsAlone ==
  ASSUME TypeOK, LinksAgree, NEW o \in Objects, Detached(o)
  PROVE  /\ Tree(o) \subseteq live
         /\ \A x \in live \ Tree(o) :
              {parent[x], left_sibling[x], right_sibling[x], first_child[x],
               last_child[x]} \cap Tree(o) = {}
<1> DEFINE F == Tree(o)
<1>1. /\ o \in live /\ parent[o] = NULL
      /\ left_sibling[o] = NULL /\ right_sibling[o] = NULL
  BY DEF Detached, LinksAgree, SiblingsAgree
<1>2. o \in F /\ F \subseteq Objects /\ Closed(F)
  BY TreeIsClosed
<1>3. live \subseteq Objects
  BY DEF TypeOK
<1>4. F \subseteq live
  <2>1. Closed(live)
    BY LinksOf DEF Closed
  <2> QED BY <1>1, <1>3, <2>1, TreeIsLeast
<1>5. ASSUME NEW y \in F, y # o
      PROVE  \E z \in F : first_child[z] = y \/ right_sibling[z] = y
  <2> SUFFICES ASSUME \A z \in F : first_child[z] # y /\ right_sibling[z] # y
               PROVE  FALSE
    OBVIOUS
  <2> DEFINE S == F \ {y}
  <2>1. Closed(S)
    BY <1>2 DEF Closed
  <2>2. o \in S /\ S \in SUBSET Objects
    BY <1>2, <1>5
  <2>3. Tree(o) \subseteq S
    BY <2>1, <2>2, TreeIsLeast
  <2> QED BY <2>3
<1> HIDE DEF F
<1>6. SiblingsAgree /\ ChildrenAgree /\ ChildrenReached
  BY DEF LinksAgree
<1>7. ASSUME NEW x \in live, x \notin F
      PROVE  right_sibling[x] \notin F
  <2> SUFFICES ASSUME right_sibling[x] \in F PROVE FALSE
    OBVIOUS
  <2>1. right_sibling[x] # NULL /\ left_sibling[right_sibling[x]] = x
    BY <1>2, <1>6, NullIsNoObject DEF SiblingsAgree
  <2>2. right_sibling[x] # o
    BY <1>1, <1>3, <2>1, NullIsNoObject
  <2>3. PICK z \in F : \/ first_child[z] = right_sibling[x]
                       \/ right_sibling[z] = right_sibling[x]
    BY <1>5, <2>2
  <2>4. CASE first_child[z] = right_sibling[x]
    BY <1>3, <1>4, <1>6, <2>1, <2>4, NullIsNoObject DEF ChildrenAgree
  <2>5. CASE right_sibling[z] = right_sibling[x]
    BY <1>4, <1>6, <1>7, <2>1, <2>5 DEF SiblingsAgree
  <2> QED BY <2>3, <2>4, <2>5
<1>8. ASSUME NEW x \in live, x \notin F
      PROVE  first_child[x] \notin F
  <2> SUFFICES ASSUME first_child[x] \in F PROVE FALSE
    OBVIOUS
  <2>1. /\ first_child[x] # NULL /\ parent[first_child[x]] = x
        /\ left_sibling[first_child[x]] = NULL
    BY <1>2, <1>6, NullIsNoObject DEF ChildrenAgree
  <2>2. first_child[x] # o
    BY <1>1, <1>3, <2>1, NullIsNoObject
  <2>3. PICK z \in F : \/ first_child[z] = first_child[x]
                       \/ right_sibling[z] = first_child[x]
    BY <1>5, <2>2
  <2>4. CASE first_child[z] = first_child[x]
    BY <1>4, <1>6, <1>8, <2>1, <2>4 DEF ChildrenAgree
  <2>5. CASE right_sibling[z] = first_child[x]
    BY <1>3, <1>4, <1>6, <2>1, <2>5, NullIsNoObject DEF SiblingsAgree
  <2> QED BY <2>3, <2>4, <2>5
<1>9. ASSUME NEW x \in live, x \notin F
      PROVE  left_sibling[x] \notin F
  BY <1>2, <1>3, <1>6, <1>9, NullIsNoObject DEF SiblingsAgree, Closed
<1>10. ASSUME NEW x \in live, x \notin F
       PROVE  parent[x] \notin F
  <2> SUFFICES ASSUME parent[x] \in F PROVE FALSE
    OBVIOUS
  <2>1. \A y \in F : right_sibling[y] # NULL => right_sibling[y] \in F
    BY <1>2 DEF Closed
  <2>2. x \in F
    BY <1>2, <1>4, <1>6, <2>1 DEF ChildrenReached, Closed
  <2> QED BY <1>10, <2>2
<1>11. ASSUME NEW x \in live, x \notin F
       PROVE  last_child[x] \notin F
  <2> DEFINE S == live \ F
  <2>1. \A y \in S : right_sibling[y] # NULL => right_sibling[y] \in S
    BY <1>7, LinksOf
  <2>2. first_child[x] # NULL => first_child[x] \in S
    BY <1>8, <1>11, LinksOf
  <2>3. S \in SUBSET Objects
    BY <1>3
  <2>4. \A y \in live : parent[y] = x => y \in S
    BY <1>6, <2>1, <2>2, <2>3 DEF ChildrenReached
  <2>5. last_child[x] \in F => parent[last_child[x]] = x
    BY <1>2, <1>6, NullIsNoObject DEF ChildrenAgree
  <2> QED BY <1>4, <2>4, <2>5
<1> QED BY <1>4, <1>7, <1>8, <1>9, <1>10, <1>11 DEF F

LEMMA FreeLinks ==
  ASSUME TypeOK, LinksAgree, NEW o \in Objects, OdlFreeTree(o)
  PROVE  LinksAgree'
<1> DEFINE F == Tree(o)
<1>1. live' = live \ F /\ live \subseteq Objects
  BY DEF OdlFreeTree, TypeOK
<1>2. \A x \in live' :
        {parent[x], left_sibling[x], right_sibling[x], first_child[x],
         last_child[x]} \cap F = {}
  BY <1>1, TreeStandsAlone DEF OdlFreeTree
<1>3. \A x \in live' :
        /\ parent'[x] = parent[x]
        /\ left_sibling'[x] = left_sibling[x]
        /\ right_sibling'[x] = right_sibling[x]
        /\ first_child'[x] = first_child[x]
        /\ last_child'[x] = last_child[x]
  BY <1>1 DEF OdlFreeTree
<1> HIDE DEF F
<1>4. NothingDangles'
  BY <1>1, <1>2, <1>3, LinksOf DEF NothingDangles
<1>5. SiblingsAgree'
  BY <1>1, <1>2, <1>3, LinksOf DEF LinksAgree, SiblingsAgree
<1>6. ChildrenAgree'
  BY <1>1, <1>2, <1>3, LinksOf DEF LinksAgree, ChildrenAgree
<1>7. ChildrenReached'
  <2> SUFFICES ASSUME NEW c \in live', NEW S \in SUBSET Objects,
                      first_child'[c] # NULL => first_child'[c] \in S,
                      \A y \in S : right_sibling'[y] # NULL => right_sibling'[y] \in S,
                      NEW x \in live', parent'[x] = c
               PROVE  x \in S
    BY DEF ChildrenReached
  <2> DEFINE T == S \cap live'
  <2>1. \A y \in T : right_sibling[y] # NULL => right_sibling[y] \in T
    BY <1>1, <1>2, <1>3, LinksOf
  <2>2. first_child[c] # NULL => first_child[c] \in T
    BY <1>1, <1>2, <1>3, LinksOf
  <2>3. T \in SUBSET Objects
    OBVIOUS
  <2>4. x \in T
    BY <1>1, <1>3, <2>1, <2>2, <2>3 DEF LinksAgree, ChildrenReached
  <2> QED BY <2>4
<1> QED BY <1>4, <1>5, <1>6, <1>7 DEF LinksAgree

-----------------------------------------------------------------------------
LEMMA EditLinks ==
  ASSUME TypeOK, LinksAgree, Edit
  PROVE  LinksAgree'
<1>1. ASSUME NEW o \in Objects, NEW c \in Classes, OdlNewObjDesc(o, c)
      PROVE  LinksAgree'
  BY <1>1, NewBlockLinks DEF OdlNewObjDesc
<1>2. ASSUME NEW o \in Objects, NEW n \in Objects, OdlCopyObjDesc(o, n)
      PROVE  LinksAgree'
  BY <1>2, NewBlockLinks DEF OdlCopyObjDesc
<1> QED
  BY <1>1, <1>2, CutLinks, PasteLastLinks, PasteBeforeLinks, PasteAfterLinks,
     FreeLinks
  DEF Edit

LEMMA NextLinks == TypeOK /\ LinksAgree /\ [Next]_vars => LinksAgree'
<1> SUFFICES ASSUME TypeOK, LinksAgree, [Next]_vars PROVE LinksAgree'
  OBVIOUS
<1>1. CASE Edit
  BY <1>1, EditLinks
<1>2. CASE Find \/ Walk \/ FindReturns \/ UNCHANGED vars
  <2>1. UNCHANGED Links
    BY <1>2 DEF Find, OdlFindObjDesc, Walk, OdlAdjustObjDescLevel,
                SearchObject, Climb, FindReturns, vars, links, Links
  <2> QED BY <2>1, LinksKept
<1> QED BY <1>1, <1>2 DEF Next

\* The pointers of the tree agree with each other, reach every child and lead
\* to allocated objects only, whatever is made, cut, pasted, copied and freed,
\* on any number of objects.
THEOREM LinksAlwaysAgree == Spec => []LinksAgree
<1> QED BY InitLinks, NextLinks, TypeCorrect, PTL DEF Spec

-----------------------------------------------------------------------------
(* The tree has no cycle: what hangs below an object never reaches up to it. *)

NoCycles == \A S \in SUBSET live : S # {} => \E x \in S : parent[x] \notin S

\* The children of what an object's tree holds are in it.
LEMMA ChildrenInTree ==
  ASSUME TypeOK, LinksAgree, NEW o \in Objects, NEW x \in live,
         parent[x] \in Tree(o)
  PROVE  x \in Tree(o)
<1>1. parent[x] \in Objects /\ parent[x] \in live
  BY TreeIsClosed, LinksOf, NullIsNoObject
<1>2. Tree(o) \in SUBSET Objects /\ Closed(Tree(o))
  BY TreeIsClosed
<1> QED BY <1>1, <1>2 DEF LinksAgree, ChildrenReached, Closed

\* A paste gives one object a parent, which is not below it.
LEMMA PasteParent ==
  ASSUME TypeOK, LinksAgree, NEW n \in Objects, NEW o \in Objects,
         \/ OdlPasteObjDesc(n, o)
         \/ OdlPasteObjDescBefore(n, o)
         \/ OdlPasteObjDescAfter(n, o)
  PROVE  /\ n \in live /\ parent[n] = NULL
         /\ live' = live /\ level' = level /\ BeginAdjust(n)
         /\ \E p \in live \ Tree(n) : parent' = [parent EXCEPT ![n] = p]
<1>1. CASE OdlPasteObjDesc(n, o)
  BY <1>1 DEF OdlPasteObjDesc, CanPaste, Detached
<1>2. CASE OdlPasteObjDescBefore(n, o) \/ OdlPasteObjDescAfter(n, o)
  <2>1. /\ CanPaste(n, o) /\ Attached(o)
        /\ parent' = [parent EXCEPT ![n] = parent[o]]
        /\ live' = live /\ level' = level /\ BeginAdjust(n)
    BY <1>2 DEF OdlPasteObjDescBefore, OdlPasteObjDescAfter
  <2>2. parent[o] \in live
    BY <2>1, LinksOf DEF Attached
  <2>3. parent[o] \notin Tree(n)
    BY <2>1, ChildrenInTree DEF CanPaste
  <2> QED BY <2>1, <2>2, <2>3 DEF CanPaste, Detached
<1> QED BY <1>1, <1>2

LEMMA PasteNoCycles ==
  ASSUME TypeOK, LinksAgree, NoCycles, NEW n \in Objects, n \in live,
         NEW p \in live \ Tree(n), parent' = [parent EXCEPT ![n] = p],
         live' = live
  PROVE  NoCycles'
<1> SUFFICES ASSUME NEW S \in SUBSET live, S # {},
                    \A x \in S : parent'[x] \in S
             PROVE  FALSE
  BY DEF NoCycles
<1>1. live \subseteq Objects
  BY DEF TypeOK
<1>2. \A x \in live : parent'[x] = IF x = n THEN p ELSE parent[x]
  BY <1>1 DEF TypeOK
<1>3. CASE n \notin S
  BY <1>2, <1>3 DEF NoCycles
<1>4. CASE n \in S
  <2> DEFINE T == S \ Tree(n)
  <2>1. n \in Tree(n)
    BY TreeIsClosed
  <2>2. p \in T
    BY <1>2, <1>4
  <2>3. \A x \in T : parent[x] \in T
    BY <1>2, <2>1, ChildrenInTree
  <2>4. T \in SUBSET live
    OBVIOUS
  <2> HIDE DEF T
  <2> QED BY <2>2, <2>3, <2>4 DEF NoCycles
<1> QED BY <1>3, <1>4

\* An object that loses its parent, or is new, closes no cycle.
LEMMA FewerParents ==
  ASSUME TypeOK, NoCycles,
         \A x \in live' : \/ parent'[x] = NULL
                          \/ x \in live /\ parent'[x] = parent[x]
  PROVE  NULL \notin live' => NoCycles'
<1> SUFFICES ASSUME NEW S \in SUBSET live', S # {}, NULL \notin live',
                    \A x \in S : parent'[x] \in S
             PROVE  FALSE
  BY DEF NoCycles
<1>1. \A x \in S : x \in live /\ parent'[x] = parent[x]
  OBVIOUS
<1> QED BY <1>1 DEF NoCycles

LEMMA EditNoCycles ==
  ASSUME TypeOK, TypeOK', LinksAgree, NoCycles, Edit
  PROVE  NoCycles'
<1>1. live' \subseteq Objects /\ NULL \notin live'
  BY NullIsNoObject DEF TypeOK
<1>2. ASSUME NEW o \in Objects, NEW c, NewBlock(o, c)
      PROVE  NoCycles'
  <2>1. \A x \in live' : \/ parent'[x] = NULL
                         \/ x \in live /\ parent'[x] = parent[x]
    BY <1>2 DEF NewBlock, TypeOK
  <2> QED BY <1>1, <2>1, FewerParents
<1>3. ASSUME NEW o \in Objects, OdlCutObjDesc(o) \/ OdlFreeTree(o)
      PROVE  NoCycles'
  <2>1. \A x \in live' : \/ parent'[x] = NULL
                         \/ x \in live /\ parent'[x] = parent[x]
    BY <1>1, <1>3 DEF OdlCutObjDesc, OdlFreeTree, TypeOK
  <2> QED BY <1>1, <2>1, FewerParents
<1>4. ASSUME NEW n \in Objects, NEW o \in Objects,
             \/ OdlPasteObjDesc(n, o)
             \/ OdlPasteObjDescBefore(n, o)
             \/ OdlPasteObjDescAfter(n, o)
      PROVE  NoCycles'
  BY <1>4, PasteParent, PasteNoCycles
<1> QED BY <1>2, <1>3, <1>4 DEF Edit, OdlNewObjDesc, OdlCopyObjDesc

LEMMA InitNoCycles == Init => NoCycles
BY DEF Init, NoCycles

LEMMA NextNoCycles ==
  TypeOK /\ TypeOK' /\ LinksAgree /\ NoCycles /\ [Next]_vars => NoCycles'
<1> SUFFICES ASSUME TypeOK, TypeOK', LinksAgree, NoCycles, [Next]_vars
             PROVE  NoCycles'
  OBVIOUS
<1>1. CASE Edit
  BY <1>1, EditNoCycles
<1>2. CASE Find \/ Walk \/ FindReturns \/ UNCHANGED vars
  <2>1. live' = live /\ parent' = parent
    BY <1>2 DEF Find, OdlFindObjDesc, Walk, OdlAdjustObjDescLevel,
                SearchObject, Climb, FindReturns, vars, links
  <2> QED BY <2>1 DEF NoCycles
<1> QED BY <1>1, <1>2 DEF Next

\* No object is below itself, whatever is pasted where.
THEOREM NeverACycle == Spec => []NoCycles
<1> QED BY InitNoCycles, NextNoCycles, TypeCorrect, LinksAlwaysAgree, PTL DEF Spec

-----------------------------------------------------------------------------
(* Levels.  After a paste the levels below the object pasted are wrong, and *)
(* the walk puts them right: what is still wrong is always among what the   *)
(* walk has still to visit.                                                 *)

Wrong == {x \in live : parent[x] # NULL /\ level[x] # level[parent[x]] + 1}

Adjusting == call = "adjust" /\ pc \in {"visit", "climb"}

\* p leads down from the object pasted to the one the walk is at, or to its
\* parent when it is to be visited; the walk ends on no level of p but the first.
Descends(n, p) ==
  /\ p[1] = start
  /\ \A i \in 2..n : parent[p[i]] = p[i - 1] /\ level[p[i]] > level[start]
  /\ pc = "visit" => obj \in live /\ parent[obj] = p[n]
  /\ pc = "climb" => obj = p[n]

\* S has the objects the walk will visit: those it meets going on from the
\* object it is at, and from the right siblings it has passed on its way down.
Ahead(n, p, S) ==
  /\ Closed(S)
  /\ pc = "visit" => obj \in S
  /\ \A i \in 2..n : right_sibling[p[i]] # NULL => right_sibling[p[i]] \in S

OnItsWay(n, p) ==
  Descends(n, p) /\ \A S \in SUBSET Objects : Ahead(n, p, S) => Wrong \subseteq S

OnAWay == \E n \in Nat \ {0} : \E p \in [1..n -> live] : OnItsWay(n, p)

AllRight ==
  /\ Wrong = {}
  /\ pc = "visit" => obj \in live /\ parent[obj] # NULL
  /\ pc = "climb" => obj \in live \cup {NULL}

Begun == pc = "visit" /\ obj = start /\ Wrong \subseteq {start}

LevelInv ==
  /\ ~Adjusting => Wrong = {}
  /\ Adjusting =>
       /\ scope = "RECURSIVE_DOWN" /\ start \in live /\ parent[start] # NULL
       /\ \/ AllRight
          \/ Begun
          \/ OnAWay

\* No object on the path is the one the walk is about to visit.
LEMMA PathAvoidsVisited ==
  ASSUME NoCycles, NEW n \in Nat \ {0}, NEW p \in [1..n -> live],
         Descends(n, p), pc = "visit", NEW j \in 1..n
  PROVE  p[j] # obj
<1> SUFFICES ASSUME p[j] = obj PROVE FALSE
  OBVIOUS
<1> DEFINE S == {p[i] : i \in j..n}
<1>1. S \in SUBSET live /\ S # {}
  <2>1. p[j] \in S
    OBVIOUS
  <2> QED BY <2>1
<1>2. ASSUME NEW i \in j..n
      PROVE  parent[p[i]] \in S
  <2>1. CASE i = j
    BY <2>1 DEF Descends
  <2>2. CASE i # j
    <3>1. i - 1 \in j..n /\ i \in 2..n
      BY <2>2
    <3> QED BY <3>1 DEF Descends
  <2> QED BY <2>1, <2>2
<1>3. \A x \in S : parent[x] \in S
  BY <1>2
<1> HIDE DEF S
<1> QED BY <1>1, <1>3 DEF NoCycles

\* What a visit does to the wrong levels: the object's is put right, and those
\* of its children may now be wrong.
LEMMA VisitWrongs ==
  ASSUME TypeOK, LinksAgree, NoCycles, obj \in live, parent[obj] # NULL,
         OdlAdjustObjDescLevel
  PROVE  /\ level' \in [Objects -> Nat] /\ level'[obj] = level[parent[obj]] + 1
         /\ \A x \in Objects : x # obj => level'[x] = level[x]
         /\ \A x \in Wrong' : x # obj /\ (x \in Wrong \/ parent[x] = obj)
<1>1. live \subseteq Objects /\ parent[obj] \in live
  BY LinksOf DEF TypeOK
<1>2. parent[obj] # obj
  <2>1. {obj} \in SUBSET live /\ {obj} # {}
    OBVIOUS
  <2> QED BY <2>1 DEF NoCycles
<1>3. level' = [level EXCEPT ![obj] = 1 + level[parent[obj]]]
  BY DEF OdlAdjustObjDescLevel, NewLevel
<1>4. /\ level' \in [Objects -> Nat] /\ level'[obj] = level[parent[obj]] + 1
      /\ \A x \in Objects : x # obj => level'[x] = level[x]
  BY <1>1, <1>3 DEF TypeOK
<1>5. live' = live /\ parent' = parent
  BY DEF OdlAdjustObjDescLevel, links
<1>6. ASSUME NEW x \in Wrong'
      PROVE  x # obj /\ (x \in Wrong \/ parent[x] = obj)
  <2>1. x \in live /\ parent[x] # NULL /\ level'[x] # level'[parent[x]] + 1
    BY <1>5 DEF Wrong
  <2>2. parent[x] \in live
    BY <2>1, LinksOf
  <2> QED BY <1>1, <1>2, <1>4, <2>1, <2>2 DEF Wrong
<1> QED BY <1>4, <1>6

\* An object without a first child has none.
LEMMA NoFirstChild ==
  ASSUME TypeOK, LinksAgree, NEW x \in live, first_child[x] = NULL,
         NEW y \in live
  PROVE  parent[y] # x
<1>1. {} \in SUBSET Objects
  OBVIOUS
<1> QED BY <1>1 DEF LinksAgree, ChildrenReached

\* The first child of an object leads to every other.
LEMMA ChildrenAhead ==
  ASSUME TypeOK, LinksAgree, NEW x \in live, first_child[x] # NULL,
         NEW S \in SUBSET Objects, Closed(S), first_child[x] \in S,
         NEW y \in live, parent[y] = x
  PROVE  y \in S
BY DEF LinksAgree, ChildrenReached, Closed

\* With the visited object a set of those ahead after the visit is one before.
LEMMA AheadBefore ==
  ASSUME TypeOK, LinksAgree, NEW x \in live, NEW S \in SUBSET Objects,
         Closed(S),
         first_child[x] # NULL => first_child[x] \in S,
         right_sibling[x] # NULL => right_sibling[x] \in S
  PROVE  Closed(S \cup {x}) /\ S \cup {x} \in SUBSET Objects
BY DEF Closed, TypeOK

LEMMA VisitFromStart ==
  ASSUME TypeOK, LinksAgree, NoCycles, start \in live, parent[start] # NULL,
         call = "adjust", Begun, OdlAdjustObjDescLevel
  PROVE  \/ AllRight'
         \/ \E n \in Nat \ {0} : \E p \in [1..n -> live] : OnItsWay(n, p)'
<1>1. obj = start /\ obj \in live /\ live \subseteq Objects
  BY DEF Begun, TypeOK
<1>3. UNCHANGED <<links, scope, start>>
  BY DEF OdlAdjustObjDescLevel, TraverseTree
<1>2. \A x \in Wrong' : parent[x] = obj /\ x \in live
  <2>1. Wrong' \subseteq live
    BY <1>3 DEF Wrong, links
  <2> QED BY <1>1, <2>1, VisitWrongs DEF Begun
<1>4. CASE first_child[obj] # NULL
  <2>1. obj' = first_child[obj] /\ pc' = "visit"
    BY <1>4 DEF OdlAdjustObjDescLevel, TraverseTree, Visiting
  <2>2. first_child[obj] \in live /\ parent[first_child[obj]] = obj
    BY <1>1, <1>4, LinksOf DEF LinksAgree, ChildrenAgree
  <2>3. PICK p \in [1..1 -> live] : p[1] = start
    <3> DEFINE only == [i \in 1..1 |-> start]
    <3>1. only \in [1..1 -> live] /\ only[1] = start
      OBVIOUS
    <3> HIDE DEF only
    <3> QED BY <3>1
  <2>4. Descends(1, p)'
    BY <1>1, <1>3, <2>1, <2>2, <2>3 DEF Descends, links
  <2>5. ASSUME NEW S \in SUBSET Objects, Ahead(1, p, S)'
        PROVE  Wrong' \subseteq S
    <3>1. Closed(S) /\ first_child[obj] \in S
      BY <1>3, <2>1, <2>5 DEF Ahead, Closed, links
    <3> QED BY <1>1, <1>2, <1>4, <3>1, ChildrenAhead
  <2>6. OnItsWay(1, p)' /\ 1 \in Nat \ {0}
    BY <2>4, <2>5 DEF OnItsWay
  <2> QED BY <2>6
<1>5. CASE first_child[obj] = NULL
  <2>1. Wrong' = {}
    BY <1>1, <1>2, <1>5, NoFirstChild
  <2>2. CASE right_sibling[obj] # NULL
    <3>1. obj' = right_sibling[obj] /\ pc' = "visit"
      BY <1>5, <2>2 DEF OdlAdjustObjDescLevel, TraverseTree, Visiting
    <3>2. right_sibling[obj] \in live /\ parent[right_sibling[obj]] = parent[obj]
      BY <1>1, <2>2, LinksOf DEF LinksAgree, SiblingsAgree
    <3> QED BY <1>1, <1>3, <2>1, <3>1, <3>2 DEF AllRight, links
  <2>3. CASE right_sibling[obj] = NULL
    <3>1. obj' = parent[obj] /\ pc' = "climb"
      BY <1>5, <2>3 DEF OdlAdjustObjDescLevel, TraverseTree
    <3> QED BY <1>1, <1>3, <2>1, <3>1, LinksOf DEF AllRight, links
  <2> QED BY <2>2, <2>3
<1> QED BY <1>4, <1>5

LEMMA VisitAllRight ==
  ASSUME TypeOK, LinksAgree, NoCycles, call = "adjust", AllRight,
         OdlAdjustObjDescLevel
  PROVE  AllRight'
<1>1. obj \in live /\ parent[obj] # NULL /\ live \subseteq Objects
  BY DEF AllRight, OdlAdjustObjDescLevel, TypeOK
<1>2. level[obj] = level[parent[obj]] + 1
  BY <1>1 DEF AllRight, Wrong
<1>3. level' = level
  BY <1>1, <1>2, LinksOf DEF OdlAdjustObjDescLevel, NewLevel, TypeOK
<1>4. Wrong' = {} /\ UNCHANGED links
  BY <1>3 DEF AllRight, Wrong, OdlAdjustObjDescLevel, links
<1>5. CASE first_child[obj] # NULL
  <2>1. obj' = first_child[obj] /\ pc' = "visit"
    BY <1>5 DEF OdlAdjustObjDescLevel, TraverseTree, Visiting
  <2>2. first_child[obj] \in live /\ parent[first_child[obj]] = obj
    BY <1>1, <1>5, LinksOf DEF LinksAgree, ChildrenAgree
  <2> QED BY <1>1, <1>4, <2>1, <2>2, NullIsNoObject DEF AllRight, links
<1>6. CASE first_child[obj] = NULL /\ right_sibling[obj] # NULL
  <2>1. obj' = right_sibling[obj] /\ pc' = "visit"
    BY <1>6 DEF OdlAdjustObjDescLevel, TraverseTree, Visiting
  <2>2. right_sibling[obj] \in live /\ parent[right_sibling[obj]] = parent[obj]
    BY <1>1, <1>6, LinksOf DEF LinksAgree, SiblingsAgree
  <2> QED BY <1>1, <1>4, <2>1, <2>2 DEF AllRight, links
<1>7. CASE first_child[obj] = NULL /\ right_sibling[obj] = NULL
  <2>1. obj' = parent[obj] /\ pc' = "climb"
    BY <1>7 DEF OdlAdjustObjDescLevel, TraverseTree
  <2> QED BY <1>1, <1>4, <2>1, LinksOf DEF AllRight, links
<1> QED BY <1>5, <1>6, <1>7

LEMMA VisitOnItsWay ==
  ASSUME TypeOK, LinksAgree, NoCycles, call = "adjust",
         NEW n \in Nat \ {0}, NEW p \in [1..n -> live], OnItsWay(n, p),
         OdlAdjustObjDescLevel
  PROVE  \E m \in Nat \ {0} : \E q \in [1..m -> live] : OnItsWay(m, q)'
<1>1. /\ pc = "visit" /\ obj \in live /\ parent[obj] = p[n]
      /\ p[n] \in live /\ live \subseteq Objects /\ parent[obj] # NULL
  BY NullIsNoObject DEF OdlAdjustObjDescLevel, OnItsWay, Descends, TypeOK
<1>2. /\ level' \in [Objects -> Nat] /\ level'[obj] = level[parent[obj]] + 1
      /\ \A x \in Objects : x # obj => level'[x] = level[x]
      /\ \A x \in Wrong' : x # obj /\ (x \in Wrong \/ parent[x] = obj)
  BY <1>1, VisitWrongs
<1>3. UNCHANGED <<links, scope, start>>
  BY DEF OdlAdjustObjDescLevel, TraverseTree
<1>4. \A i \in 1..n : p[i] # obj
  BY <1>1, PathAvoidsVisited DEF OnItsWay
<1>5. \A i \in 1..n : level'[p[i]] = level[p[i]]
  BY <1>1, <1>2, <1>4
<1>6. level'[start] = level[start] /\ p[1] = start
  BY <1>5 DEF OnItsWay, Descends
<1>7. level[p[n]] >= level[start]
  <2>1. level[p[n]] \in Nat /\ level[start] \in Nat
    BY <1>1 DEF TypeOK, OnItsWay, Descends
  <2> QED BY <1>6, <2>1 DEF OnItsWay, Descends
<1>8. level'[obj] > level'[start]
  <2>1. level[p[n]] \in Nat /\ level[start] \in Nat
    BY <1>1 DEF TypeOK, OnItsWay, Descends
  <2> QED BY <1>1, <1>2, <1>6, <1>7, <2>1
\* What is wrong after the visit lies in every set that lies ahead then.
<1>9. ASSUME NEW S \in SUBSET Objects, Closed(S),
             first_child[obj] # NULL => first_child[obj] \in S,
             right_sibling[obj] # NULL => right_sibling[obj] \in S,
             \A i \in 2..n : right_sibling[p[i]] # NULL =>
                               right_sibling[p[i]] \in S
      PROVE  Wrong' \subseteq S
  <2>1. Closed(S \cup {obj}) /\ S \cup {obj} \in SUBSET Objects
    BY <1>1, <1>9, AheadBefore
  <2>2. Ahead(n, p, S \cup {obj})
    BY <1>9, <2>1 DEF Ahead
  <2>3. Wrong \subseteq S \cup {obj}
    BY <2>1, <2>2 DEF OnItsWay
  <2>4. ASSUME NEW x \in live, parent[x] = obj
        PROVE  x \in S
    BY <1>1, <1>9, <2>4, NoFirstChild, ChildrenAhead
  <2>5. Wrong' \subseteq live
    BY <1>3 DEF Wrong, links
  <2> QED BY <1>2, <2>3, <2>4, <2>5
<1>10. CASE first_child[obj] # NULL
  <2>1. obj' = first_child[obj] /\ pc' = "visit"
    BY <1>10 DEF OdlAdjustObjDescLevel, TraverseTree, Visiting
  <2>2. first_child[obj] \in live /\ parent[first_child[obj]] = obj
    BY <1>1, <1>10, LinksOf DEF LinksAgree, ChildrenAgree
  <2>3. PICK q \in [1..(n + 1) -> live] :
          q[n + 1] = obj /\ \A i \in 1..n : q[i] = p[i]
    <3> DEFINE longer == [i \in 1..(n + 1) |-> IF i = n + 1 THEN obj ELSE p[i]]
    <3>1. longer \in [1..(n + 1) -> live]
      BY <1>1
    <3>2. longer[n + 1] = obj /\ \A i \in 1..n : longer[i] = p[i]
      OBVIOUS
    <3> QED BY <3>1, <3>2
  <2>4. ASSUME NEW i \in 2..(n + 1)
        PROVE  parent[q[i]] = q[i - 1] /\ level'[q[i]] > level'[start]
    <3>1. CASE i = n + 1
      BY <1>1, <1>8, <2>3, <3>1
    <3>2. CASE i # n + 1
      <4>1. i \in 2..n /\ i - 1 \in 1..n /\ i \in 1..n
        BY <3>2
      <4> QED BY <1>5, <1>6, <2>3, <4>1 DEF OnItsWay, Descends
    <3> QED BY <3>1, <3>2
  <2>5. Descends(n + 1, q)'
    BY <1>3, <1>6, <2>1, <2>2, <2>3, <2>4 DEF Descends, links
  <2>6. ASSUME NEW S \in SUBSET Objects, Ahead(n + 1, q, S)'
        PROVE  Wrong' \subseteq S
    <3>1. /\ Closed(S) /\ first_child[obj] \in S
          /\ \A i \in 2..(n + 1) :
               right_sibling[q[i]] # NULL => right_sibling[q[i]] \in S
      BY <1>3, <2>1, <2>6 DEF Ahead, Closed, links
    <3>2. \A i \in 2..n : i \in 2..(n + 1) /\ q[i] = p[i]
      BY <2>3
    <3>3. n + 1 \in 2..(n + 1)
      OBVIOUS
    <3> QED BY <1>9, <2>3, <3>1, <3>2, <3>3
  <2>7. OnItsWay(n + 1, q)'
    BY <2>5, <2>6 DEF OnItsWay
  <2>8. n + 1 \in Nat \ {0}
    OBVIOUS
  <2> QED BY <2>7, <2>8
<1>11. CASE first_child[obj] = NULL
  <2>1. \/ right_sibling[obj] # NULL /\ obj' = right_sibling[obj] /\ pc' = "visit"
        \/ right_sibling[obj] = NULL /\ obj' = parent[obj] /\ pc' = "climb"
    BY <1>11 DEF OdlAdjustObjDescLevel, TraverseTree, Visiting
  <2>2. right_sibling[obj] # NULL =>
          right_sibling[obj] \in live /\ parent[right_sibling[obj]] = parent[obj]
    BY <1>1, LinksOf DEF LinksAgree, SiblingsAgree
  <2>3. \A i \in 2..n : parent[p[i]] = p[i - 1] /\ level'[p[i]] > level'[start]
    BY <1>5, <1>6 DEF OnItsWay, Descends
  <2>4. Descends(n, p)'
    BY <1>1, <1>3, <1>6, <2>1, <2>2, <2>3 DEF Descends, links
  <2>5. ASSUME NEW S \in SUBSET Objects, Ahead(n, p, S)'
        PROVE  Wrong' \subseteq S
    BY <1>3, <1>9, <1>11, <2>1, <2>5 DEF Ahead, Closed, links
  <2>6. OnItsWay(n, p)'
    BY <2>4, <2>5 DEF OnItsWay
  <2> QED BY <1>3, <2>6 DEF links
<1> QED BY <1>10, <1>11

LEMMA WayAfter ==
  ASSUME live' = live,
         \E m \in Nat \ {0} : \E q \in [1..m -> live] : OnItsWay(m, q)'
  PROVE  OnAWay'
<1>1. PICK m \in Nat \ {0} : \E q \in [1..m -> live] : OnItsWay(m, q)'
  OBVIOUS
<1>2. PICK q \in [1..m -> live] : OnItsWay(m, q)'
  BY <1>1
<1>3. q \in [1..m -> live']
  OBVIOUS
<1> QED BY <1>2, <1>3 DEF OnAWay

LEMMA ClimbOnItsWay ==
  ASSUME TypeOK, LinksAgree, call = "adjust", scope = "RECURSIVE_DOWN",
         start \in live,
         NEW n \in Nat \ {0}, NEW p \in [1..n -> live], OnItsWay(n, p), Climb
  PROVE  \/ ~Adjusting' /\ Wrong' = {}
         \/ OnAWay' /\ Adjusting' /\ start' = start
<1>1. /\ pc = "climb" /\ obj = p[n] /\ obj \in live /\ live \subseteq Objects
      /\ obj # NULL
  BY NullIsNoObject DEF Climb, OnItsWay, Descends, TypeOK
<1>2. UNCHANGED <<links, level, scope, call>>
  BY DEF Climb
<1>3. Wrong' = Wrong
  BY <1>2 DEF Wrong, links
<1>4. level[obj] \in Nat /\ level[start] \in Nat
  BY <1>1 DEF TypeOK
<1>5. ClimbEnds <=> level[obj] <= level[start]
  BY <1>1 DEF ClimbEnds, RootLevel
<1>6. CASE ClimbEnds
  <2>1. n # 1 => n \in 2..n
    OBVIOUS
  <2>2. n = 1
    BY <1>1, <1>4, <1>5, <1>6, <2>1 DEF OnItsWay, Descends
  <2>3. Ahead(n, p, {})
    BY <1>1, <2>2 DEF Ahead, Closed
  <2>4. Wrong = {}
    BY <2>3 DEF OnItsWay
  <2>5. ~Adjusting'
    BY <1>2, <1>6 DEF Climb, Leave, Adjusting
  <2> QED BY <1>3, <2>4, <2>5
<1>7. CASE ~ClimbEnds
  <2>1. n # 1
    BY <1>1, <1>4, <1>5, <1>7 DEF OnItsWay, Descends
  <2>2. /\ n - 1 \in Nat \ {0} /\ n \in 2..n /\ 1 \in 1..(n - 1)
        /\ 2..(n - 1) \subseteq 2..n /\ n - 1 \in 1..(n - 1)
    BY <2>1
  <2>3. PICK q \in [1..(n - 1) -> live] : \A i \in 1..(n - 1) : q[i] = p[i]
    <3> DEFINE shorter == [i \in 1..(n - 1) |-> p[i]]
    <3>1. shorter \in [1..(n - 1) -> live] /\ \A i \in 1..(n - 1) : shorter[i] = p[i]
      OBVIOUS
    <3> HIDE DEF shorter
    <3> QED BY <3>1
  <2>4. parent[obj] = q[n - 1] /\ q[n - 1] # NULL
    BY <1>1, <2>2, <2>3, NullIsNoObject DEF OnItsWay, Descends
  <2>5. /\ start' = start
        /\ \/ /\ right_sibling[obj] # NULL
              /\ obj' = right_sibling[obj] /\ pc' = "visit"
           \/ right_sibling[obj] = NULL /\ obj' = parent[obj] /\ pc' = "climb"
    BY <1>1, <1>7 DEF Climb, Visiting
  <2>6. right_sibling[obj] # NULL =>
          right_sibling[obj] \in live /\ parent[right_sibling[obj]] = parent[obj]
    BY <1>1, LinksOf DEF LinksAgree, SiblingsAgree
  <2>7. q[1] = start
    BY <2>2, <2>3 DEF OnItsWay, Descends
  <2>8. ASSUME NEW i \in 2..(n - 1)
        PROVE  /\ parent[q[i]] = q[i - 1] /\ level[q[i]] > level[start]
               /\ q[i] = p[i]
    <3>1. i \in 2..n /\ i \in 1..(n - 1) /\ i - 1 \in 1..(n - 1)
      OBVIOUS
    <3> QED BY <2>3, <3>1 DEF OnItsWay, Descends
  <2>9. Descends(n - 1, q)'
    BY <1>2, <2>4, <2>5, <2>6, <2>7, <2>8 DEF Descends, links
  <2>10. ASSUME NEW S \in SUBSET Objects, Ahead(n - 1, q, S)'
         PROVE  Wrong' \subseteq S
    <3>1. /\ Closed(S)
          /\ \A i \in 2..(n - 1) :
               right_sibling[q[i]] # NULL => right_sibling[q[i]] \in S
      BY <1>2, <2>10 DEF Ahead, Closed, links
    <3>2. right_sibling[p[n]] # NULL => right_sibling[p[n]] \in S
      BY <1>1, <2>5, <2>10 DEF Ahead
    <3>3. ASSUME NEW i \in 2..n, right_sibling[p[i]] # NULL
          PROVE  right_sibling[p[i]] \in S
      <4>1. i = n \/ i \in 2..(n - 1)
        OBVIOUS
      <4> QED BY <2>8, <3>1, <3>2, <3>3, <4>1
    <3>4. Ahead(n, p, S)
      BY <1>1, <3>1, <3>3 DEF Ahead
    <3> QED BY <1>3, <3>4 DEF OnItsWay
  <2>11. OnItsWay(n - 1, q)'
    BY <2>9, <2>10 DEF OnItsWay
  <2>12. \E m \in Nat \ {0} : \E r \in [1..m -> live] : OnItsWay(m, r)'
    BY <2>2, <2>11
  <2>13. live' = live
    BY <1>2 DEF links
  <2>14. OnAWay'
    BY <2>12, <2>13, WayAfter
  <2>15. Adjusting'
    BY <1>2, <2>5 DEF Adjusting
  <2> QED BY <2>5, <2>14, <2>15
<1> QED BY <1>6, <1>7

LEMMA WalkLevels ==
  ASSUME TypeOK, LinksAgree, NoCycles, LevelInv, Walk
  PROVE  LevelInv'
<1>1. UNCHANGED <<links, call>>
  BY DEF Walk, OdlAdjustObjDescLevel, SearchObject, Climb
<1>2. CASE OdlAdjustObjDescLevel
  <2>1. /\ Adjusting /\ call = "adjust" /\ pc = "visit"
        /\ scope = "RECURSIVE_DOWN" /\ start \in live /\ parent[start] # NULL
    BY <1>2 DEF LevelInv, OdlAdjustObjDescLevel, Adjusting
  <2>2. Adjusting' /\ scope' = scope /\ start' = start
    BY <1>2, <2>1
    DEF OdlAdjustObjDescLevel, TraverseTree, Visiting, Adjusting
  <2>3. \/ AllRight'
        \/ \E n \in Nat \ {0} : \E p \in [1..n -> live] : OnItsWay(n, p)'
    BY <1>2, <2>1, VisitAllRight, VisitFromStart, VisitOnItsWay DEF LevelInv, OnAWay
  <2>4. AllRight' \/ OnAWay'
    BY <1>1, <2>3, WayAfter DEF links
  <2> QED BY <1>1, <2>1, <2>2, <2>4 DEF LevelInv, links
<1>3. CASE Climb /\ call = "adjust"
  <2>1. /\ Adjusting /\ pc = "climb"
        /\ scope = "RECURSIVE_DOWN" /\ start \in live /\ parent[start] # NULL
    BY <1>3 DEF LevelInv, Climb, Adjusting
  <2>2. scope' = scope /\ level' = level /\ Wrong' = Wrong
    BY <1>1, <1>3 DEF Climb, Wrong, links
  <2>3. CASE AllRight
    <3>1. Wrong' = {}
      BY <2>2, <2>3 DEF AllRight
    <3>2. CASE ~Adjusting'
      BY <3>1, <3>2 DEF LevelInv
    <3>3. CASE Adjusting'
      <4>1. ~ClimbEnds
        BY <1>3, <3>3 DEF Climb, Leave, Adjusting
      <4>2. /\ obj \in live /\ start' = start
            /\ \/ /\ right_sibling[obj] # NULL
                  /\ obj' = right_sibling[obj] /\ pc' = "visit"
               \/ right_sibling[obj] = NULL /\ obj' = parent[obj] /\ pc' = "climb"
        BY <1>3, <2>1, <2>3, <4>1 DEF Climb, ClimbEnds, Visiting, AllRight
      <4>3. right_sibling[obj] # NULL =>
              /\ right_sibling[obj] \in live
              /\ parent[right_sibling[obj]] = parent[obj] /\ parent[obj] # NULL
        BY <4>2, LinksOf DEF LinksAgree, SiblingsAgree
      <4>4. AllRight'
        BY <1>1, <3>1, <4>2, <4>3, LinksOf DEF AllRight, links
      <4> QED BY <1>1, <2>1, <2>2, <3>3, <4>2, <4>4 DEF LevelInv, links
    <3> QED BY <3>2, <3>3
  <2>4. CASE OnAWay
    <3>1. PICK n \in Nat \ {0} : \E p \in [1..n -> live] : OnItsWay(n, p)
      BY <2>4 DEF OnAWay
    <3>2. PICK p \in [1..n -> live] : OnItsWay(n, p)
      BY <3>1
    <3>3. \/ ~Adjusting' /\ Wrong' = {}
          \/ OnAWay' /\ Adjusting' /\ start' = start
      BY <1>3, <2>1, <3>2, ClimbOnItsWay
    <3>4. CASE ~Adjusting' /\ Wrong' = {}
      BY <3>4 DEF LevelInv
    <3>5. CASE OnAWay' /\ Adjusting' /\ start' = start
      <4> QED BY <1>1, <2>1, <2>2, <3>5 DEF LevelInv, links
    <3> QED BY <3>3, <3>4, <3>5
  <2> QED BY <2>1, <2>3, <2>4 DEF LevelInv, Begun
<1>4. CASE call = "find"
  <2>1. level' = level
    BY <1>4 DEF Walk, OdlAdjustObjDescLevel, SearchObject, Climb
  <2>2. ~Adjusting /\ ~Adjusting'
    BY <1>1, <1>4 DEF Adjusting
  <2>3. Wrong' = Wrong
    BY <1>1, <2>1 DEF Wrong, links
  <2> QED BY <2>2, <2>3 DEF LevelInv
<1> QED BY <1>2, <1>3, <1>4 DEF Walk, SearchObject, TypeOK

LEMMA EditLevels ==
  ASSUME TypeOK, TypeOK', LinksAgree, LinksAgree', LevelInv, Edit
  PROVE  LevelInv'
<1>1. pc = "idle" /\ ~Adjusting /\ Wrong = {}
  BY DEF Edit, OdlNewObjDesc, OdlCopyObjDesc, OdlCutObjDesc, OdlPasteObjDesc,
     OdlPasteObjDescBefore, OdlPasteObjDescAfter, OdlFreeTree, LevelInv, Adjusting
<1>2. live \subseteq Objects /\ live' \subseteq Objects
  BY DEF TypeOK
<1>3. ASSUME NEW o \in Objects, NEW c, NewBlock(o, c)
      PROVE  LevelInv'
  <2>1. \A x \in live' : parent'[x] # NULL =>
          /\ x \in live /\ parent'[x] = parent[x] /\ parent[x] \in live
          /\ level'[x] = level[x] /\ level'[parent[x]] = level[parent[x]]
    BY <1>2, <1>3, LinksOf DEF NewBlock, TypeOK
  <2>2. Wrong' = {}
    BY <1>1, <2>1 DEF Wrong
  <2> QED BY <1>1, <1>3, <2>2 DEF LevelInv, NewBlock, Adjusting, walk
<1>4. ASSUME NEW o \in Objects, OdlCutObjDesc(o)
      PROVE  LevelInv'
  <2>1. \A x \in live' : parent'[x] # NULL => x \in live /\ parent'[x] = parent[x]
    BY <1>2, <1>4 DEF OdlCutObjDesc, TypeOK
  <2>2. Wrong' = {}
    BY <1>1, <1>4, <2>1 DEF Wrong, OdlCutObjDesc
  <2> QED BY <1>1, <1>4, <2>2 DEF LevelInv, OdlCutObjDesc, Adjusting, walk
<1>5. ASSUME NEW o \in Objects, OdlFreeTree(o)
      PROVE  LevelInv'
  <2>1. \A x \in live' : parent'[x] # NULL => 
          x \in live /\ parent'[x] = parent[x] /\ parent'[x] \in live'
    BY <1>2, <1>5 DEF OdlFreeTree, TypeOK, LinksAgree, NothingDangles
  <2>2. \A x \in live' : level'[x] = level[x]
    BY <1>2, <1>5 DEF OdlFreeTree, TypeOK
  <2>3. Wrong' = {}
    BY <1>1, <2>1, <2>2 DEF Wrong
  <2> QED BY <1>1, <1>5, <2>3 DEF LevelInv, OdlFreeTree, Adjusting, walk
<1>6. ASSUME NEW n \in Objects, NEW o \in Objects,
             \/ OdlPasteObjDesc(n, o)
             \/ OdlPasteObjDescBefore(n, o)
             \/ OdlPasteObjDescAfter(n, o)
      PROVE  LevelInv'
  <2>1. PICK p \in live : /\ n \in live /\ live' = live /\ level' = level
                          /\ BeginAdjust(n) /\ parent' = [parent EXCEPT ![n] = p]
    BY <1>6, PasteParent
  <2>2. \A x \in live : x # n => parent'[x] = parent[x]
    BY <1>2, <2>1 DEF TypeOK
  <2>3. parent'[n] # NULL
    BY <1>2, <2>1, NullIsNoObject DEF TypeOK
  <2>4. Wrong' \subseteq {n}
    BY <1>1, <2>1, <2>2 DEF Wrong
  <2> QED BY <2>1, <2>3, <2>4 DEF LevelInv, BeginAdjust, Adjusting, Begun
<1> QED BY <1>3, <1>4, <1>5, <1>6 DEF Edit, OdlNewObjDesc, OdlCopyObjDesc

LEMMA InitLevels == Init => LevelInv
BY DEF Init, LevelInv, Wrong, Adjusting

LEMMA NextLevels ==
  /\ TypeOK /\ TypeOK' /\ LinksAgree /\ LinksAgree' /\ NoCycles
  /\ LevelInv /\ [Next]_vars
  => LevelInv'
<1> SUFFICES ASSUME TypeOK, TypeOK', LinksAgree, LinksAgree', NoCycles,
                    LevelInv, [Next]_vars
             PROVE  LevelInv'
  OBVIOUS
<1>1. CASE Edit
  BY <1>1, EditLevels
<1>2. CASE Walk
  BY <1>2, WalkLevels
<1>3. CASE Find \/ FindReturns
  <2>1. ~Adjusting /\ ~Adjusting' /\ UNCHANGED <<links, level>>
    BY <1>3 DEF Find, OdlFindObjDesc, FindReturns, Adjusting
  <2> QED BY <2>1 DEF LevelInv, Wrong, links
<1>4. CASE UNCHANGED vars
  <2>1. ASSUME NEW n, NEW p
        PROVE  OnItsWay(n, p)' <=> OnItsWay(n, p)
    BY <1>4 DEF OnItsWay, Descends, Ahead, Closed, Wrong, vars, links, walk
  <2>2. OnAWay' <=> OnAWay
    BY <1>4, <2>1 DEF OnAWay, vars, links
  <2> QED BY <1>4, <2>2 DEF LevelInv, AllRight, Begun, Wrong, Adjusting, vars,
       links, walk
<1> QED BY <1>1, <1>2, <1>3, <1>4 DEF Next

LEMMA LevelsAlwaysInv == Spec => []LevelInv
<1> QED BY InitLevels, NextLevels, TypeCorrect, LinksAlwaysAgree, NeverACycle,
     PTL DEF Spec

LEMMA LevelsFollow == LevelInv => LevelsFollowParents
BY DEF LevelInv, Adjusting, Wrong, LevelsFollowParents

\* Once OdlAdjustObjDescLevel is done with a paste every object is one level
\* below its parent, however large and deep the tree pasted is: the walk leaves
\* none of its objects out and does not end before the last.
THEOREM LevelsAlwaysFollow == Spec => []LevelsFollowParents
<1> QED BY LevelsAlwaysInv, LevelsFollow, PTL

-----------------------------------------------------------------------------
(* Lines.  The children of an object and the keywords of an object are     *)
(* chained in the same way; a chain c has c.all on it, the one that c.up    *)
(* names owns each, and c.first and c.next lead through what it owns.       *)
(* Each edit of the pointers makes of the line of one owner what the edit   *)
(* of its name makes of a sequence.                                        *)

LEMMA LeastNat ==
  ASSUME NEW N \in SUBSET Nat, N # {}
  PROVE  \E n \in N : \A m \in N : n <= m
<1> DEFINE T == {1..n : n \in N}
<1>1. IsWellFoundedOn(StrictSubsetOrdering(Nat), FiniteSubsetsOf(Nat))
  BY FS_StrictSubsetOrderingWellFounded
<1>2. T \subseteq FiniteSubsetsOf(Nat) /\ T # {}
  <2>1. ASSUME NEW n \in N PROVE 1..n \in FiniteSubsetsOf(Nat)
    BY FS_Interval DEF FiniteSubsetsOf
  <2> QED BY <2>1
<1>3. PICK t \in T : \A u \in T : ~(<<u, t>> \in StrictSubsetOrdering(Nat))
  <2> HIDE DEF T
  <2> QED BY <1>1, <1>2, WFMin
<1>4. PICK n \in N : t = 1..n
  BY <1>3
<1>5. ASSUME NEW m \in N, m < n PROVE FALSE
  <2>1. /\ 1..m \in SUBSET Nat /\ 1..n \in SUBSET Nat
        /\ 1..m \subseteq 1..n /\ n \in 1..n /\ n \notin 1..m
    BY <1>5
  <2>2. <<1..m, 1..n>> \in StrictSubsetOrdering(Nat)
    BY <2>1 DEF StrictSubsetOrdering
  <2> QED BY <1>3, <1>4, <2>2
<1> QED BY <1>5

\* first, and what next leads to from the places of f before the last.
Steps(n, first, next, f) ==
  [i \in 1..n |-> IF i = 1 THEN first ELSE next[f[i - 1]]]

\* A definition along a line of numbers has one value.
LEMMA OneLine ==
  ASSUME NEW n \in Nat, NEW first, NEW next, NEW s, NEW t,
         s = Steps(n, first, next, s), t = Steps(n, first, next, t)
  PROVE  s = t
<1>0. /\ s = [i \in 1..n |-> s[i]] /\ t = [i \in 1..n |-> t[i]]
      /\ \A i \in 1..n : /\ s[i] = IF i = 1 THEN first ELSE next[s[i - 1]]
                         /\ t[i] = IF i = 1 THEN first ELSE next[t[i - 1]]
  BY DEF Steps
<1> DEFINE N == {i \in 1..n : s[i] # t[i]}
<1>1. CASE N = {}
  <2>1. \A i \in 1..n : s[i] = t[i]
    BY <1>1
  <2>2. [i \in 1..n |-> s[i]] = [i \in 1..n |-> t[i]]
    BY <2>1
  <2> QED BY <1>0, <2>2
<1>2. CASE N # {}
  <2>0. N \in SUBSET Nat
    OBVIOUS
  <2>1. PICK k \in N : \A m \in N : k <= m
    <3> HIDE DEF N
    <3> QED BY <1>2, <2>0, LeastNat
  <2>2. CASE k = 1
    BY <1>0, <2>1, <2>2
  <2>3. CASE k # 1
    <3>1. k \in 1..n /\ k - 1 \in 1..n /\ k - 1 \notin N
      BY <2>1, <2>3
    <3>2. s[k - 1] = t[k - 1]
      BY <3>1
    <3>3. s[k] = next[s[k - 1]] /\ t[k] = next[t[k - 1]]
      BY <1>0, <2>3, <3>1
    <3> QED BY <2>1, <3>2, <3>3
  <2> QED BY <2>2, <2>3
<1> QED BY <1>1, <1>2

\* s, of n places, is what o owns on the chain c, each once and in order.
IsLine(c, o, n, s) ==
  /\ \A x \in c.all : c.up[x] = o => \E i \in 1..n : s[i] = x
  /\ \A i \in 1..n : c.up[s[i]] = o
  /\ \A i, j \in 1..n : s[i] = s[j] => i = j
  /\ n = 0 => c.first[o] = NULL
  /\ n > 0 => s[1] = c.first[o]
  /\ \A i \in 1..n : c.next[s[i]] = IF i = n THEN NULL ELSE s[i + 1]

HasLine(c, o) == \E n \in Nat : \E s \in [1..n -> c.all] : IsLine(c, o, n, s)
HaveLines(c) == \A o \in Objects : HasLine(c, o)

LineOn(c, o) == Along({x \in c.all : c.up[x] = o}, c.first[o], c.next)
LinesOf(c) == [o \in Objects |-> LineOn(c, o)]

\* s has each member of own once, from first on along next.
Leads(own, first, next, n, s) ==
  /\ s \in [1..n -> own]
  /\ \A x \in own : \E i \in 1..n : s[i] = x
  /\ \A i, j \in 1..n : s[i] = s[j] => i = j
  /\ n > 0 => s[1] = first
  /\ \A i \in 1..n : i < n => next[s[i]] = s[i + 1]

LEMMA AlongIsLine ==
  ASSUME NEW own, NEW first, NEW next, NEW n \in Nat, NEW s,
         Leads(own, first, next, n, s)
  PROVE  Along(own, first, next) = s
<1> USE DEF Leads
<1>1. Cardinality(own) = n
  <2>1. s \in Bijection(1..n, own)
    BY DEF Bijection, Injection, IsInjective, Surjection
  <2>2. ExistsBijection(1..n, own)
    BY <2>1 DEF ExistsBijection
  <2>3. IsFiniteSet(1..n) /\ Cardinality(1..n) = n
    BY FS_Interval
  <2> QED BY <2>2, <2>3, FS_Bijection
<1>2. s = Steps(n, first, next, s)
  <2>1. ASSUME NEW i \in 1..n
        PROVE  s[i] = IF i = 1 THEN first ELSE next[s[i - 1]]
    <3>1. i # 1 => i - 1 \in 1..n /\ i - 1 < n /\ (i - 1) + 1 = i
      OBVIOUS
    <3> QED BY <3>1
  <2>2. s = [i \in 1..n |-> s[i]]
    OBVIOUS
  <2>3. [i \in 1..n |-> s[i]]
          = [i \in 1..n |-> IF i = 1 THEN first ELSE next[s[i - 1]]]
    BY <2>1
  <2> QED BY <2>2, <2>3 DEF Steps
<1> DEFINE line == CHOOSE f : f = Steps(n, first, next, f)
<1>3. line = Steps(n, first, next, line)
  BY <1>2
<1>4. Along(own, first, next) = line
  BY <1>1 DEF Along, Steps
<1> HIDE DEF line
<1> QED BY <1>2, <1>3, <1>4, OneLine

LEMMA LineIsLine ==
  ASSUME NEW c, NEW o, NEW n \in Nat, NEW s \in [1..n -> c.all],
         IsLine(c, o, n, s)
  PROVE  HasLine(c, o) /\ LineOn(c, o) = s
<1> DEFINE own == {x \in c.all : c.up[x] = o}
<1>1. s \in [1..n -> own]
  BY DEF IsLine
<1>2. Leads(own, c.first[o], c.next, n, s)
  BY <1>1 DEF IsLine, Leads
<1>3. LineOn(c, o) = Along(own, c.first[o], c.next)
  BY DEF LineOn
<1> HIDE DEF own
<1>4. Along(own, c.first[o], c.next) = s
  BY <1>2, AlongIsLine
<1> QED BY <1>3, <1>4 DEF HasLine

LEMMA LineOf ==
  ASSUME NEW c, NEW q, HasLine(c, q)
  PROVE  \E j \in Nat : \E u \in [1..j -> c.all] :
           IsLine(c, q, j, u) /\ LineOn(c, q) = u
BY LineIsLine DEF HasLine

\* What is on the line of o is what o owns.
LEMMA LineHolds ==
  ASSUME NEW c, HaveLines(c), NEW o \in Objects
  PROVE  /\ LinesOf(c)[o] = LineOn(c, o) /\ LinesOf(c)[o] \in Seq(c.all)
         /\ Range(LinesOf(c)[o]) = {x \in c.all : c.up[x] = o}
<1>1. LinesOf(c)[o] = LineOn(c, o)
  BY DEF LinesOf
<1>2. PICK j \in Nat : \E u \in [1..j -> c.all] :
        IsLine(c, o, j, u) /\ LineOn(c, o) = u
  BY LineOf DEF HaveLines
<1>3. PICK u \in [1..j -> c.all] : IsLine(c, o, j, u) /\ LineOn(c, o) = u
  BY <1>2
<1>4. Range(u) = {x \in c.all : c.up[x] = o}
  BY <1>3 DEF IsLine, Range
<1>5. u \in Seq(c.all)
  OBVIOUS
<1> QED BY <1>1, <1>3, <1>4, <1>5

\* The line x is on, and its place there.
LEMMA OnLine ==
  ASSUME NEW c, HaveLines(c), NEW x \in c.all, NEW p \in Objects, c.up[x] = p
  PROVE  \E n \in Nat : \E s \in [1..n -> c.all] : \E k \in 1..n :
           IsLine(c, p, n, s) /\ s[k] = x
<1>2. PICK n \in Nat : \E s \in [1..n -> c.all] : IsLine(c, p, n, s)
  BY DEF HaveLines, HasLine
<1>3. PICK s \in [1..n -> c.all] : IsLine(c, p, n, s)
  BY <1>2
<1>4. PICK k \in 1..n : s[k] = x
  BY <1>3 DEF IsLine
<1> QED BY <1>3, <1>4

LEMMA PlaceOnLine ==
  ASSUME NEW c, NEW o, NEW n \in Nat, NEW s \in [1..n -> c.all],
         IsLine(c, o, n, s), NEW k \in 1..n, NEW t, t = s
  PROVE  (CHOOSE i \in DOMAIN t : t[i] = s[k]) = k
<1>1. ASSUME NEW i \in 1..n, s[i] = s[k] PROVE i = k
  BY <1>1 DEF IsLine
<1>2. k \in DOMAIN t /\ t[k] = s[k] /\ \A i \in DOMAIN t : t[i] = s[k] => i = k
  BY <1>1
<1> QED BY <1>2

\* q owns what it did, and in the same order.
LineStays(c, d, q) ==
  /\ d.first[q] = c.first[q]
  /\ \A y \in c.all : c.up[y] = q =>
       y \in d.all /\ d.up[y] = q /\ d.next[y] = c.next[y]
  /\ \A y \in d.all : d.up[y] = q => y \in c.all /\ c.up[y] = q

LEMMA LineKept ==
  ASSUME NEW c, NEW d, NEW q, HasLine(c, q), LineStays(c, d, q)
  PROVE  HasLine(d, q) /\ LineOn(d, q) = LineOn(c, q)
<1>1. PICK j \in Nat : \E u \in [1..j -> c.all] :
        IsLine(c, q, j, u) /\ LineOn(c, q) = u
  BY LineOf
<1>2. PICK u \in [1..j -> c.all] : IsLine(c, q, j, u) /\ LineOn(c, q) = u
  BY <1>1
<1>3. \A i \in 1..j : /\ u[i] \in c.all /\ c.up[u[i]] = q
                      /\ u[i] \in d.all /\ d.up[u[i]] = q
                      /\ d.next[u[i]] = c.next[u[i]]
  BY <1>2 DEF IsLine, LineStays
<1>4. u \in [1..j -> d.all]
  BY <1>3
<1>5. IsLine(d, q, j, u)
  BY <1>2, <1>3 DEF IsLine, LineStays
<1> QED BY <1>2, <1>4, <1>5, LineIsLine

LEMMA NoLineChanged ==
  ASSUME NEW c, NEW d, HaveLines(c), \A q \in Objects : LineStays(c, d, q)
  PROVE  HaveLines(d) /\ LinesOf(d) = LinesOf(c)
<1>1. ASSUME NEW q \in Objects
      PROVE  HasLine(d, q) /\ LineOn(d, q) = LineOn(c, q)
  BY LineKept DEF HaveLines
<1> QED BY <1>1 DEF HaveLines, LinesOf

LEMMA OneLineChanged ==
  ASSUME NEW c, NEW d, HaveLines(c), NEW p \in Objects, NEW t, HasLine(d, p),
         LineOn(d, p) = t, \A q \in Objects \ {p} : LineStays(c, d, q)
  PROVE  HaveLines(d) /\ LinesOf(d) = [LinesOf(c) EXCEPT ![p] = t]
<1>1. ASSUME NEW q \in Objects, q # p
      PROVE  HasLine(d, q) /\ LineOn(d, q) = LineOn(c, q)
  BY <1>1, LineKept DEF HaveLines
<1>2. HaveLines(d)
  BY <1>1 DEF HaveLines
<1>3. [LinesOf(c) EXCEPT ![p] = t]
        = [q \in Objects |-> IF q = p THEN t ELSE LineOn(c, q)]
  BY DEF LinesOf
<1>4. \A q \in Objects : LineOn(d, q) = IF q = p THEN t ELSE LineOn(c, q)
  BY <1>1
<1> QED BY <1>2, <1>3, <1>4 DEF LinesOf

\* The lines of those in D are gone, with all that was on them.
Gone(c, d, D) ==
  /\ D \in SUBSET Objects
  /\ \A q \in Objects \ D : LineStays(c, d, q)
  /\ \A q \in D : d.first[q] = NULL /\ \A y \in d.all : d.up[y] # q

LEMMA LinesGone ==
  ASSUME NEW c, NEW d, NEW D, HaveLines(c), Gone(c, d, D)
  PROVE  /\ HaveLines(d)
         /\ LinesOf(d)
              = [q \in Objects |-> IF q \in D THEN <<>> ELSE LinesOf(c)[q]]
<1>1. ASSUME NEW q \in Objects \ D
      PROVE  HasLine(d, q) /\ LineOn(d, q) = LineOn(c, q)
  BY LineKept DEF HaveLines, Gone
<1>2. ASSUME NEW q \in D
      PROVE  HasLine(d, q) /\ LineOn(d, q) = <<>>
  <2>1. 0 \in Nat /\ <<>> \in [1..0 -> d.all] /\ 1..0 = {}
    OBVIOUS
  <2>2. IsLine(d, q, 0, <<>>)
    BY <2>1 DEF IsLine, Gone
  <2> QED BY <2>1, <2>2, LineIsLine
<1>3. \A q \in Objects :
        LineOn(d, q) = IF q \in D THEN <<>> ELSE LinesOf(c)[q]
  BY <1>1, <1>2 DEF LinesOf
<1> QED BY <1>1, <1>2, <1>3 DEF HaveLines, LinesOf

\* s, of n places, is the line of p, before an edit that concerns x.
At(c, p, x, n, s) ==
  /\ p \in Objects /\ x \in c.all /\ n \in Nat /\ s \in [1..n -> c.all]
  /\ HaveLines(c) /\ IsLine(c, p, n, s)

\* x, which nobody owned, joins the line of p at place k.
Joins(c, d, p, x, n, s, k) ==
  /\ At(c, p, x, n, s) /\ k \in 1..(n + 1) /\ c.up[x] = NULL
  /\ d.all = c.all /\ d.up = [c.up EXCEPT ![x] = p] /\ x \in DOMAIN c.up
  /\ \A q \in Objects :
       d.first[q] = IF q = p /\ k = 1 THEN x ELSE c.first[q]
  /\ d.next[x] = IF k = n + 1 THEN NULL ELSE s[k]
  /\ k > 1 => d.next[s[k - 1]] = x
  /\ \A y \in c.all : y # x /\ (k > 1 => y # s[k - 1]) => d.next[y] = c.next[y]

-----------------------------------------------------------------------------
(* What the sequence operators make of a sequence, place by place.         *)

Without(s, n, k) == [i \in 1..(n - 1) |-> IF i < k THEN s[i] ELSE s[i + 1]]

With(s, n, k, e) ==
  [i \in 1..(n + 1) |-> IF i < k THEN s[i] ELSE IF i = k THEN e ELSE s[i - 1]]

LEMMA RemoveIsWithout ==
  ASSUME NEW S, NEW n \in Nat, NEW s \in [1..n -> S], NEW k \in 1..n
  PROVE  RemoveAt(s, k) = Without(s, n, k)
<1>1. s \in Seq(S) /\ Len(s) = n
  OBVIOUS
<1>2. /\ SubSeq(s, 1, k - 1) = [i \in 1..(k - 1) |-> s[i]]
      /\ SubSeq(s, k + 1, n) = [i \in 1..(n - k) |-> s[k + i]]
  OBVIOUS
<1> DEFINE u == SubSeq(s, 1, k - 1)  v == SubSeq(s, k + 1, n)
<1>3. u \in Seq(S) /\ Len(u) = k - 1 /\ v \in Seq(S) /\ Len(v) = n - k
  OBVIOUS
<1>4. /\ u \o v \in Seq(S) /\ Len(u \o v) = n - 1
      /\ \A i \in 1..(n - 1) :
           (u \o v)[i] = IF i <= k - 1 THEN u[i] ELSE v[i - (k - 1)]
  <2> HIDE DEF u, v
  <2>1. /\ u \o v \in Seq(S) /\ Len(u \o v) = Len(u) + Len(v)
        /\ \A i \in 1..(Len(u) + Len(v)) :
             (u \o v)[i] = IF i <= Len(u) THEN u[i] ELSE v[i - Len(u)]
    <3>1. u \in Seq(S) /\ v \in Seq(S)
      BY <1>3
    <3> QED BY ONLY <3>1, ConcatProperties
  <2>2. Len(u) = k - 1 /\ Len(u) + Len(v) = n - 1
    BY <1>3
  <2> QED BY <2>1, <2>2
<1>5. ASSUME NEW i \in 1..(n - 1)
      PROVE  (u \o v)[i] = Without(s, n, k)[i]
  <2>1. CASE i < k
    <3>1. i \in 1..(k - 1)
      BY <2>1
    <3> QED BY <1>2, <1>4, <2>1, <3>1 DEF Without
  <2>2. CASE ~(i < k)
    <3>1. i - (k - 1) \in 1..(n - k) /\ ~(i <= k - 1) /\ k + (i - (k - 1)) = i + 1
      BY <2>2
    <3>2. v[i - (k - 1)] = s[i + 1]
      BY <1>2, <3>1
    <3> QED BY <1>4, <2>2, <3>1, <3>2 DEF Without
  <2> QED BY <2>1, <2>2
<1>6. Without(s, n, k) \in Seq(S) /\ Len(Without(s, n, k)) = n - 1
  BY DEF Without
<1>7. u \o v = Without(s, n, k)
  <2> HIDE DEF u, v
  <2> QED BY <1>4, <1>5, <1>6, SeqEqual
<1> QED BY <1>1, <1>7 DEF RemoveAt

LEMMA InsertIsWith ==
  ASSUME NEW S, NEW n \in Nat, NEW s \in [1..n -> S], NEW k \in 1..(n + 1),
         NEW e \in S
  PROVE  InsertAt(s, k, e) = With(s, n, k, e)
<1>1. s \in Seq(S) /\ Len(s) = n
  OBVIOUS
<1>2. /\ SubSeq(s, 1, k - 1) = [i \in 1..(k - 1) |-> s[i]]
      /\ SubSeq(s, k, n) = [i \in 1..(n - k + 1) |-> s[k - 1 + i]]
  OBVIOUS
<1> DEFINE u == SubSeq(s, 1, k - 1)  v == SubSeq(s, k, n)  w == u \o <<e>>
<1>3. u \in Seq(S) /\ Len(u) = k - 1 /\ v \in Seq(S) /\ Len(v) = n - k + 1
  OBVIOUS
<1>4. w \in Seq(S) /\ Len(w) = k
      /\ \A i \in 1..k : w[i] = IF i < k THEN s[i] ELSE e
  <2>1. w = [i \in 1..k |-> IF i < k THEN u[i] ELSE e]
    <3> HIDE DEF u
    <3> QED BY <1>3
  <2> QED BY <1>2, <1>3, <2>1
<1>5. /\ w \o v \in Seq(S) /\ Len(w \o v) = n + 1
      /\ \A i \in 1..(n + 1) : (w \o v)[i] = IF i <= k THEN w[i] ELSE v[i - k]
  <2> HIDE DEF v, w
  <2> QED BY <1>3, <1>4
<1>6. ASSUME NEW i \in 1..(n + 1)
      PROVE  (w \o v)[i] = With(s, n, k, e)[i]
  BY <1>2, <1>4, <1>5 DEF With
<1>7. With(s, n, k, e) \in Seq(S) /\ Len(With(s, n, k, e)) = n + 1
    BY DEF With
<1>8. w \o v = With(s, n, k, e)
  <2> HIDE DEF v, w
  <2> QED BY <1>5, <1>6, <1>7, SeqEqual
<1> QED BY <1>1, <1>8 DEF InsertAt

LEMMA AppendIsWith ==
  ASSUME NEW S, NEW n \in Nat, NEW s \in [1..n -> S], NEW e \in S
  PROVE  Append(s, e) = With(s, n, n + 1, e)
<1>1. /\ s \in Seq(S) /\ Len(s) = n
      /\ Append(s, e) \in Seq(S) /\ Len(Append(s, e)) = n + 1
      /\ \A i \in 1..n : Append(s, e)[i] = s[i]
      /\ Append(s, e)[n + 1] = e
  OBVIOUS
<1>2. With(s, n, n + 1, e) \in Seq(S) /\ Len(With(s, n, n + 1, e)) = n + 1
  BY DEF With
<1>3. ASSUME NEW i \in 1..(n + 1)
      PROVE  Append(s, e)[i] = With(s, n, n + 1, e)[i]
  <2>1. i = n + 1 \/ i \in 1..n
    OBVIOUS
  <2> QED BY <1>1, <2>1 DEF With
<1> QED BY <1>1, <1>2, <1>3, SeqEqual

-----------------------------------------------------------------------------
LEMMA LineJoined ==
  ASSUME NEW c, NEW d, NEW p, NEW x, NEW n, NEW s, NEW k,
         Joins(c, d, p, x, n, s, k)
  PROVE  HasLine(d, p) /\ LineOn(d, p) = With(s, n, k, x)
<1>0. /\ p \in Objects /\ p # NULL /\ x \in c.all
      /\ n \in Nat /\ s \in [1..n -> c.all] /\ IsLine(c, p, n, s)
      /\ k \in 1..(n + 1)
  BY NullIsNoObject DEF Joins, At
<1> USE <1>0 DEF Joins
<1> DEFINE t == With(s, n, k, x)
<1>1. /\ t \in [1..(n + 1) -> c.all]
      /\ \A i \in 1..(n + 1) :
           t[i] = IF i < k THEN s[i] ELSE IF i = k THEN x ELSE s[i - 1]
  BY DEF With
<1>2. \A i \in 1..n : s[i] # x /\ s[i] \in c.all /\ c.up[s[i]] = p
  BY DEF IsLine
<1>3. \A y \in d.all : d.up[y] = p => \E i \in 1..(n + 1) : t[i] = y
  <2> SUFFICES ASSUME NEW y \in c.all, d.up[y] = p
               PROVE  \E i \in 1..(n + 1) : t[i] = y
    OBVIOUS
  <2>1. CASE y = x
    <3>1. k \in 1..(n + 1) /\ t[k] = x
      BY <1>1
    <3> QED BY <2>1, <3>1
  <2>2. CASE y # x
    <3>1. c.up[y] = p
      BY <2>2
    <3>2. PICK i \in 1..n : s[i] = y
      BY <3>1 DEF IsLine
    <3>3. CASE i < k
      <4>1. i \in 1..(n + 1) /\ t[i] = y
        BY <1>1, <3>2, <3>3
      <4> QED BY <4>1
    <3>4. CASE ~(i < k)
      <4>1. i + 1 \in 1..(n + 1) /\ ~(i + 1 < k) /\ i + 1 # k /\ (i + 1) - 1 = i
        BY <3>4
      <4>2. t[i + 1] = y
        BY <1>1, <3>2, <4>1
      <4> QED BY <4>1, <4>2
    <3> QED BY <3>3, <3>4
  <2> QED BY <2>1, <2>2
<1>4. \A i \in 1..(n + 1) : d.up[t[i]] = p
  <2> TAKE i \in 1..(n + 1)
  <2>1. CASE i < k
    BY <1>1, <1>2, <2>1
  <2>2. CASE i = k
    BY <1>1, <2>2
  <2>3. CASE i > k
    <3>1. i - 1 \in 1..n /\ t[i] = s[i - 1]
      BY <1>1, <2>3
    <3> QED BY <1>2, <3>1
  <2> QED BY <2>1, <2>2, <2>3
<1>5. \A i, j \in 1..(n + 1) : t[i] = t[j] => i = j
  <2> SUFFICES ASSUME NEW i \in 1..(n + 1), NEW j \in 1..(n + 1), t[i] = t[j]
               PROVE  i = j
    OBVIOUS
  <2> DEFINE Old(m) == IF m < k THEN m ELSE m - 1
  <2>1. \A m \in 1..(n + 1) : m # k => Old(m) \in 1..n /\ t[m] = s[Old(m)]
    BY <1>1
  <2>2. i = k <=> j = k
    BY <1>1, <1>2, <2>1
  <2>3. CASE i # k /\ j # k
    <3>1. Old(i) \in 1..n /\ Old(j) \in 1..n /\ s[Old(i)] = s[Old(j)]
      BY <2>1, <2>3
    <3>2. Old(i) = Old(j)
      <4> HIDE DEF Old
      <4> QED BY <3>1 DEF IsLine
    <3> QED BY <2>3, <3>2
  <2> QED BY <2>2, <2>3
<1>6. t[1] = d.first[p]
  <2>1. CASE k = 1
    BY <1>1, <2>1
  <2>2. CASE k > 1
    <3>1. n > 0 /\ t[1] = s[1]
      BY <1>1, <2>2
    <3> QED BY <2>2, <3>1 DEF IsLine
  <2> QED BY <2>1, <2>2
<1>7. \A i \in 1..(n + 1) :
        d.next[t[i]] = IF i = n + 1 THEN NULL ELSE t[i + 1]
  <2> TAKE i \in 1..(n + 1)
  <2>0. \A m \in 1..n : k > 1 /\ m # k - 1 => s[m] # s[k - 1]
    <3>1. k > 1 => k - 1 \in 1..n
      OBVIOUS
    <3> QED BY <3>1 DEF IsLine
  <2>1. CASE i < k - 1
    <3>1. /\ i \in 1..n /\ i # n /\ i + 1 \in 1..n /\ k > 1 /\ i # n + 1
          /\ t[i] = s[i] /\ t[i + 1] = s[i + 1]
      BY <1>1, <2>1
    <3>2. d.next[s[i]] = c.next[s[i]]
      BY <1>2, <2>0, <2>1, <3>1
    <3>3. c.next[s[i]] = s[i + 1]
      BY <3>1 DEF IsLine
    <3> QED BY <3>1, <3>2, <3>3
  <2>2. CASE i = k - 1
    <3>1. k > 1 /\ i # n + 1 /\ i + 1 = k /\ t[i] = s[k - 1] /\ t[i + 1] = x
      BY <1>1, <2>2
    <3> QED BY <3>1
  <2>3. CASE i = k
    <3>1. t[k] = x
      BY <1>1
    <3>2. ASSUME k # n + 1 PROVE t[k + 1] = s[k]
      <4>1. k + 1 \in 1..(n + 1) /\ ~(k + 1 < k) /\ k + 1 # k /\ (k + 1) - 1 = k
        BY <3>2
      <4> HIDE DEF t
      <4> QED BY <1>1, <4>1
    <3> HIDE DEF t
    <3> QED BY <2>3, <3>1, <3>2
  <2>4. CASE i > k
    <3>1. /\ i - 1 \in 1..n /\ t[i] = s[i - 1] /\ i - 1 # k - 1
          /\ i # n + 1 => t[i + 1] = s[i] /\ i \in 1..n
      BY <1>1, <2>4
    <3>2. d.next[s[i - 1]] = c.next[s[i - 1]]
      BY <1>2, <2>0, <3>1
    <3>3. c.next[s[i - 1]] = IF i - 1 = n THEN NULL ELSE s[(i - 1) + 1]
      BY <3>1 DEF IsLine
    <3> QED BY <3>1, <3>2, <3>3
  <2> QED BY <2>1, <2>2, <2>3, <2>4
<1>8. IsLine(d, p, n + 1, t)
  <2> HIDE DEF t
  <2> QED BY <1>3, <1>4, <1>5, <1>6, <1>7 DEF IsLine
<1>9. t \in [1..(n + 1) -> d.all]
  BY <1>1
<1> HIDE DEF t
<1>10. HasLine(d, p) /\ LineOn(d, p) = t
  <2>1. n + 1 \in Nat
    OBVIOUS
  <2> QED BY <1>8, <1>9, <2>1, LineIsLine
<1> QED BY <1>10 DEF t

\* x leaves the line of p, where it was at place k.
Leaves(c, d, p, x, n, s, k) ==
  /\ At(c, p, x, n, s) /\ k \in 1..n /\ s[k] = x
  /\ d.all = c.all /\ d.up = [c.up EXCEPT ![x] = NULL] /\ x \in DOMAIN c.up
  /\ \A q \in Objects :
       d.first[q] = IF q # p \/ k # 1 THEN c.first[q]
                    ELSE IF n = 1 THEN NULL ELSE s[2]
  /\ k > 1 => d.next[s[k - 1]] = IF k = n THEN NULL ELSE s[k + 1]
  /\ \A y \in c.all : y # x /\ (k > 1 => y # s[k - 1]) => d.next[y] = c.next[y]

LEMMA LineCut ==
  ASSUME NEW c, NEW d, NEW p, NEW x, NEW n, NEW s, NEW k,
         Leaves(c, d, p, x, n, s, k)
  PROVE  HasLine(d, p) /\ LineOn(d, p) = Without(s, n, k)
<1>0. /\ p \in Objects /\ p # NULL /\ x \in c.all
      /\ n \in Nat /\ s \in [1..n -> c.all] /\ IsLine(c, p, n, s)
      /\ k \in 1..n /\ s[k] = x
  BY NullIsNoObject DEF Leaves, At
<1> USE <1>0 DEF Leaves
<1> DEFINE t == Without(s, n, k)
           Old(m) == IF m < k THEN m ELSE m + 1
<1>1. /\ t \in [1..(n - 1) -> c.all] /\ n - 1 \in Nat
      /\ \A i \in 1..(n - 1) : Old(i) \in 1..n /\ Old(i) # k /\ t[i] = s[Old(i)]
  BY DEF Without
<1>2. \A i, j \in 1..n : s[i] = s[j] => i = j
  BY DEF IsLine
<1>3. \A i \in 1..n : i # k => s[i] # x /\ s[i] \in c.all /\ d.up[s[i]] = p
  BY <1>2 DEF IsLine
<1>4. \A y \in d.all : d.up[y] = p => \E i \in 1..(n - 1) : t[i] = y
  <2> SUFFICES ASSUME NEW y \in c.all, d.up[y] = p
               PROVE  \E i \in 1..(n - 1) : t[i] = y
    OBVIOUS
  <2>1. y # x /\ c.up[y] = p
    OBVIOUS
  <2>2. PICK i \in 1..n : s[i] = y
    BY <2>1 DEF IsLine
  <2>3. CASE i < k
    <3>1. i \in 1..(n - 1) /\ Old(i) = i
      BY <2>3
    <3> QED BY <1>1, <2>2, <3>1
  <2>4. CASE i > k
    <3>1. i - 1 \in 1..(n - 1) /\ Old(i - 1) = i
      BY <2>4
    <3> QED BY <1>1, <2>2, <3>1
  <2>5. i # k
    BY <2>1, <2>2
  <2> QED BY <2>3, <2>4, <2>5
<1>5. \A i \in 1..(n - 1) : d.up[t[i]] = p
  <2> HIDE DEF t, Old
  <2> QED BY <1>1, <1>3
<1>6. \A i, j \in 1..(n - 1) : t[i] = t[j] => i = j
  <2> SUFFICES ASSUME NEW i \in 1..(n - 1), NEW j \in 1..(n - 1), t[i] = t[j]
               PROVE  i = j
    OBVIOUS
  <2>1. Old(i) = Old(j)
    <3> HIDE DEF t, Old
    <3> QED BY <1>1, <1>2
  <2> QED BY <2>1
<1>7. /\ n - 1 = 0 => d.first[p] = NULL
      /\ n - 1 > 0 => t[1] = d.first[p]
  <2>1. n - 1 > 0 /\ k = 1 => t[1] = s[2]
    BY DEF Without
  <2>2. n - 1 > 0 /\ k # 1 => t[1] = s[1] /\ s[1] = c.first[p]
    BY DEF Without, IsLine
  <2> QED BY <2>1, <2>2
<1>8. \A i \in 1..(n - 1) :
        d.next[t[i]] = IF i = n - 1 THEN NULL ELSE t[i + 1]
  <2> TAKE i \in 1..(n - 1)
  <2>1. CASE i = k - 1
    <3>1. k > 1 /\ t[i] = s[k - 1] /\ (i # n - 1 => t[i + 1] = s[k + 1])
      BY <2>1 DEF Without
    <3> QED BY <2>1, <3>1
  <2>2. CASE i # k - 1
    <3>1. /\ Old(i) \in 1..n /\ Old(i) # k /\ t[i] = s[Old(i)]
          /\ k > 1 => k - 1 \in 1..n /\ Old(i) # k - 1
          /\ Old(i) = n <=> i = n - 1
      BY <1>1, <2>2
    <3>5. ASSUME i # n - 1 PROVE t[i + 1] = s[Old(i) + 1]
      <4>1. i + 1 \in 1..(n - 1) /\ Old(i + 1) = Old(i) + 1
        BY <2>2, <3>5
      <4> HIDE DEF t, Old
      <4> QED BY <1>1, <4>1
    <3> HIDE DEF t, Old
    <3>2. s[Old(i)] # x /\ s[Old(i)] \in c.all /\ (k > 1 => s[Old(i)] # s[k - 1])
      BY <1>2, <1>3, <3>1
    <3>3. d.next[s[Old(i)]] = c.next[s[Old(i)]]
      BY <3>2
    <3>4. c.next[s[Old(i)]] = IF Old(i) = n THEN NULL ELSE s[Old(i) + 1]
      BY <3>1 DEF IsLine
    <3> QED BY <3>1, <3>3, <3>4, <3>5
  <2> QED BY <2>1, <2>2
<1>9. IsLine(d, p, n - 1, t)
  <2> HIDE DEF t, Old
  <2> QED BY <1>4, <1>5, <1>6, <1>7, <1>8 DEF IsLine
<1>10. t \in [1..(n - 1) -> d.all]
  BY <1>1
<1> HIDE DEF t, Old
<1>11. HasLine(d, p) /\ LineOn(d, p) = t
  BY <1>1, <1>9, <1>10, LineIsLine
<1> QED BY <1>11 DEF t

\* Nothing happens to the lines of others.
LEMMA JoinedLines ==
  ASSUME NEW c, NEW d, NEW p, NEW x, NEW n, NEW s, NEW k,
         Joins(c, d, p, x, n, s, k)
  PROVE  /\ HaveLines(d)
         /\ LinesOf(d) = [LinesOf(c) EXCEPT ![p] = With(s, n, k, x)]
<1>1. /\ p \in Objects /\ p # NULL /\ x \in c.all
      /\ n \in Nat /\ s \in [1..n -> c.all] /\ IsLine(c, p, n, s)
      /\ Joins(c, d, p, x, n, s, k)
  BY NullIsNoObject DEF Joins, At
<1>2. HasLine(d, p) /\ LineOn(d, p) = With(s, n, k, x)
  BY LineJoined
<1>3. \A i \in 1..n : s[i] \in c.all /\ c.up[s[i]] = p
  BY <1>1 DEF IsLine
<1>4. ASSUME NEW q \in Objects \ {p} PROVE LineStays(c, d, q)
  <2>1. k > 1 => k - 1 \in 1..n
    BY <1>1 DEF Joins
  <2>2. \A y \in c.all : c.up[y] = q => y # x /\ (k > 1 => y # s[k - 1])
    BY <1>1, <1>3, <2>1, NullIsNoObject DEF Joins
  <2> QED BY <1>1, <2>2, NullIsNoObject DEF LineStays, Joins
<1>5. \A q \in Objects \ {p} : LineStays(c, d, q)
  BY <1>4
<1>6. HaveLines(c)
  BY DEF Joins, At
<1> QED BY <1>1, <1>2, <1>5, <1>6, OneLineChanged

LEMMA LeftLines ==
  ASSUME NEW c, NEW d, NEW p, NEW x, NEW n, NEW s, NEW k,
         Leaves(c, d, p, x, n, s, k)
  PROVE  /\ HaveLines(d)
         /\ LinesOf(d) = [LinesOf(c) EXCEPT ![p] = Without(s, n, k)]
<1>1. /\ p \in Objects /\ p # NULL /\ x \in c.all
      /\ n \in Nat /\ s \in [1..n -> c.all] /\ IsLine(c, p, n, s)
      /\ k \in 1..n /\ s[k] = x /\ Leaves(c, d, p, x, n, s, k)
  BY NullIsNoObject DEF Leaves, At
<1>2. HasLine(d, p) /\ LineOn(d, p) = Without(s, n, k)
  BY LineCut
<1>3. \A i \in 1..n : s[i] \in c.all /\ c.up[s[i]] = p
  BY <1>1 DEF IsLine
<1>4. ASSUME NEW q \in Objects \ {p} PROVE LineStays(c, d, q)
  <2>1. k > 1 => k - 1 \in 1..n
    BY <1>1
  <2>2. \A y \in c.all : c.up[y] = q => y # x /\ (k > 1 => y # s[k - 1])
    BY <1>1, <1>3, <2>1
  <2> QED BY <1>1, <2>2, NullIsNoObject DEF LineStays, Leaves
<1>5. \A q \in Objects \ {p} : LineStays(c, d, q)
  BY <1>4
<1>6. HaveLines(c)
  BY DEF Leaves, At
<1>7. p \in Objects
  BY <1>1
<1> QED BY <1>2, <1>5, <1>6, <1>7, OneLineChanged

-----------------------------------------------------------------------------
(* The forest the pointers stand for.                                      *)

Chain == [all |-> live, up |-> parent, first |-> first_child,
          next |-> right_sibling]
Lines == HaveLines(Chain)
Kids == [o \in Objects |-> Children(o)]

LEMMA KidsAreLines == Kids = LinesOf(Chain)
BY DEF Kids, Children, LinesOf, LineOn, Chain

LEMMA KidsAreLinesAfter == Kids' = LinesOf(Chain')
BY DEF Kids, Children, LinesOf, LineOn, Chain

\* The children in the sequence of p are the objects whose parent it is.
LEMMA KidsOf ==
  ASSUME Lines, NEW p \in Objects
  PROVE  /\ Kids[p] = Children(p) /\ Kids[p] \in Seq(live)
         /\ Range(Kids[p]) = {x \in live : parent[x] = p}
<1>1. Kids[p] = Children(p) /\ Chain.all = live /\ Chain.up = parent
  BY DEF Kids, Chain
<1>2. /\ LinesOf(Chain)[p] \in Seq(Chain.all)
      /\ Range(LinesOf(Chain)[p]) = {x \in Chain.all : Chain.up[x] = p}
  BY LineHolds DEF Lines
<1> QED BY <1>1, <1>2, KidsAreLines

LEMMA ParentsInForest ==
  ASSUME TypeOK, LinksAgree, Lines, NEW x \in live
  PROVE  /\ Forest!IsChild(x) <=> parent[x] # NULL
         /\ parent[x] # NULL => parent[x] \in live /\ Forest!ParentOf(x) = parent[x]
<1>1. live \subseteq Objects /\ parent[x] \in live \cup {NULL} /\ NULL \notin live
  BY LinksOf, NullIsNoObject DEF TypeOK
<1>2. \A p \in live : x \in Range(Kids[p]) <=> parent[x] = p
  BY <1>1, KidsOf
<1>3. Forest!IsChild(x) <=> \E p \in live : x \in Range(Kids[p])
  BY DEF Forest!IsChild, Forest!Range, Range, Kids
<1>4. Forest!ParentOf(x) = CHOOSE p \in live : x \in Range(Kids[p])
  BY DEF Forest!ParentOf, Forest!Range, Range, Kids
<1>5. ASSUME parent[x] # NULL PROVE Forest!ParentOf(x) = parent[x]
  BY <1>1, <1>2, <1>4, <1>5
<1> QED BY <1>1, <1>2, <1>3, <1>5

LEMMA PositionInForest ==
  ASSUME TypeOK, LinksAgree, Lines, NEW x \in live, parent[x] # NULL,
         NEW n \in Nat, NEW s \in [1..n -> live],
         IsLine(Chain, parent[x], n, s), NEW k \in 1..n, s[k] = x
  PROVE  Forest!Position(x) = k /\ Kids[parent[x]] = s
<1>1. Forest!ParentOf(x) = parent[x] /\ parent[x] \in Objects
  BY ParentsInForest DEF TypeOK
<1> DEFINE K == Kids[parent[x]]
<1>2. s \in [1..n -> Chain.all]
  BY DEF Chain
<1>3. K = s
  BY <1>1, <1>2, KidsAreLines, LineIsLine DEF LinesOf
<1>4. Forest!Position(x) = CHOOSE i \in DOMAIN K : K[i] = x
  BY <1>1 DEF Forest!Position, Kids
<1> HIDE DEF K
<1>5. (CHOOSE i \in DOMAIN K : K[i] = s[k]) = k
  BY <1>2, <1>3, PlaceOnLine
<1> QED BY <1>3, <1>4, <1>5 DEF K

\* What OdlFreeTree frees is what hangs below the object in the forest.
LEMMA BelowIsTree ==
  ASSUME TypeOK, LinksAgree, Lines, NEW n \in Objects, Detached(n)
  PROVE  Forest!Below(n) = Tree(n)
<1>1. /\ live \subseteq Objects /\ NULL \notin live /\ n \in live
      /\ parent[n] = NULL /\ right_sibling[n] = NULL
  BY NullIsNoObject DEF TypeOK, Detached, LinksAgree, SiblingsAgree
<1> DEFINE branches == UNION {{<<p, c>> : c \in Range(Kids[p])} : p \in live}
           whole == {S \in SUBSET live :
                       n \in S /\ \A b \in branches : b[1] \in S => b[2] \in S}
           below == {x \in live : \A S \in whole : x \in S}
<1>2. Forest!Below(n) = below
  BY DEF Forest!Below, Forest!Range, Range, Kids
<1>3. branches = {b \in live \X live : parent[b[2]] = b[1]}
  <2>1. \A p \in live : Range(Kids[p]) = {x \in live : parent[x] = p}
    BY <1>1, KidsOf
  <2>2. \A p, c : <<p, c>> \in branches <=> p \in live /\ c \in Range(Kids[p])
    OBVIOUS
  <2>3. \A b \in branches : b = <<b[1], b[2]>>
    OBVIOUS
  <2> HIDE DEF branches
  <2> QED BY <2>1, <2>2, <2>3
<1>4. whole = {S \in SUBSET live :
                 n \in S /\ \A x \in live : parent[x] \in S => x \in S}
  <2>1. ASSUME NEW S \in SUBSET live
        PROVE  (\A b \in branches : b[1] \in S => b[2] \in S)
                 <=> \A x \in live : parent[x] \in S => x \in S
    <3> HIDE DEF branches
    <3>1. ASSUME \A b \in branches : b[1] \in S => b[2] \in S,
                 NEW x \in live, parent[x] \in S
          PROVE  x \in S
      <4>1. <<parent[x], x>> \in branches
        BY <1>3, <3>1
      <4> QED BY <3>1, <4>1
    <3>2. ASSUME \A x \in live : parent[x] \in S => x \in S,
                 NEW b \in branches, b[1] \in S
          PROVE  b[2] \in S
      <4>1. b[1] \in live /\ b[2] \in live /\ parent[b[2]] = b[1]
        BY <1>3
      <4> QED BY <3>2, <4>1
    <3> QED BY <3>1, <3>2
  <2> HIDE DEF branches
  <2> QED BY <2>1
<1> HIDE DEF branches, whole
<1>5. Tree(n) \in whole
  BY <1>1, <1>4, TreeIsClosed, TreeStandsAlone, ChildrenInTree
<1>6. below \subseteq Tree(n)
  BY <1>5
<1>7. /\ below \in SUBSET live /\ n \in below
      /\ \A x \in live : parent[x] \in below => x \in below
  BY <1>1, <1>4
<1>8. ASSUME NEW x \in below, x # n PROVE parent[x] \in below
  <2> DEFINE less == {y \in below : y = n \/ parent[y] \in below}
  <2>3. less \in SUBSET live /\ n \in less
    BY <1>7
  <2>4. ASSUME NEW y \in live, parent[y] \in less PROVE y \in less
    BY <1>7, <2>4
  <2>5. less \in whole
    BY <1>4, <2>3, <2>4
  <2>6. x \in less
    BY <2>5
  <2> QED BY <1>8, <2>6
<1>9. Closed(below)
  <2> SUFFICES ASSUME NEW y \in below
               PROVE  /\ first_child[y] # NULL => first_child[y] \in below
                      /\ right_sibling[y] # NULL => right_sibling[y] \in below
    BY DEF Closed
  <2> HIDE DEF below
  <2>1. y \in live
    BY <1>7
  <2>2. first_child[y] # NULL =>
          first_child[y] \in live /\ parent[first_child[y]] = y
    BY <2>1, LinksOf DEF LinksAgree, ChildrenAgree
  <2>3. right_sibling[y] # NULL =>
          /\ right_sibling[y] \in live
          /\ parent[right_sibling[y]] = parent[y]
    BY <2>1, LinksOf DEF LinksAgree, SiblingsAgree
  <2>4. right_sibling[y] # NULL => parent[y] \in below
    BY <1>1, <1>8
  <2> QED BY <1>7, <2>2, <2>3, <2>4
<1>10. Tree(n) \subseteq below
  <2> HIDE DEF below
  <2> QED BY <1>1, <1>7, <1>9, TreeIsLeast
<1> QED BY <1>2, <1>6, <1>10

-----------------------------------------------------------------------------
(* Each edit of the pointers is the edit of the forest.                    *)

LEMMA LinesKept ==
  ASSUME Lines, \A q \in Objects : LineStays(Chain, Chain', q)
  PROVE  Lines' /\ Kids' = Kids
<1>1. HaveLines(Chain') /\ LinesOf(Chain') = LinesOf(Chain)
  BY NoLineChanged DEF Lines
<1> QED BY <1>1, KidsAreLines, KidsAreLinesAfter DEF Lines

LEMMA LineIsKids ==
  ASSUME NEW p \in Objects, NEW n \in Nat, NEW s \in [1..n -> live],
         IsLine(Chain, p, n, s)
  PROVE  Kids[p] = s
<1>1. s \in [1..n -> Chain.all]
  BY DEF Chain
<1> QED BY <1>1, KidsAreLines, LineIsLine DEF LinesOf

LEMMA OnKids ==
  ASSUME Lines, NEW x \in live, NEW p \in Objects, parent[x] = p
  PROVE  \E n \in Nat : \E s \in [1..n -> live] : \E k \in 1..n :
           IsLine(Chain, p, n, s) /\ s[k] = x
<1>1. HaveLines(Chain) /\ Chain.all = live /\ Chain.up = parent
  BY DEF Lines, Chain
<1> QED BY <1>1, OnLine

LEMMA KidAt ==
  ASSUME Lines, NEW p \in Objects, NEW x \in live,
         NEW n \in Nat, NEW s \in [1..n -> live], IsLine(Chain, p, n, s)
  PROVE  At(Chain, p, x, n, s)
<1>1. Chain.all = live
  BY DEF Chain
<1> QED BY <1>1 DEF At, Lines

LEMMA KidJoins ==
  ASSUME NEW p, NEW x, NEW n, NEW s, NEW k,
         Joins(Chain, Chain', p, x, n, s, k)
  PROVE  Lines' /\ Kids' = [Kids EXCEPT ![p] = With(s, n, k, x)]
<1>1. /\ HaveLines(Chain')
      /\ LinesOf(Chain') = [LinesOf(Chain) EXCEPT ![p] = With(s, n, k, x)]
  BY JoinedLines
<1> QED BY <1>1, KidsAreLines, KidsAreLinesAfter DEF Lines

LEMMA KidLeaves ==
  ASSUME NEW p, NEW x, NEW n, NEW s, NEW k,
         Leaves(Chain, Chain', p, x, n, s, k)
  PROVE  Lines' /\ Kids' = [Kids EXCEPT ![p] = Without(s, n, k)]
<1>1. /\ HaveLines(Chain')
      /\ LinesOf(Chain') = [LinesOf(Chain) EXCEPT ![p] = Without(s, n, k)]
  BY LeftLines
<1> QED BY <1>1, KidsAreLines, KidsAreLinesAfter DEF Lines

LEMMA NoChildOfNone ==
  ASSUME TypeOK, LinksAgree, Lines, NEW o \in Objects, o \notin live
  PROVE  first_child[o] = NULL
<1>1. PICK n \in Nat : \E s \in [1..n -> live] : IsLine(Chain, o, n, s)
  BY DEF Lines, HaveLines, HasLine, Chain
<1>2. PICK s \in [1..n -> live] : IsLine(Chain, o, n, s)
  BY <1>1
<1>3. CASE n = 0
  BY <1>2, <1>3 DEF IsLine, Chain
<1>4. CASE n # 0
  <2>1. 1 \in 1..n
    BY <1>4
  <2>2. s[1] \in live /\ parent[s[1]] = o
    BY <1>2, <2>1 DEF IsLine, Chain
  <2>3. parent[s[1]] \in live \cup {NULL}
    BY <2>2, LinksOf
  <2> QED BY <2>2, <2>3, NullIsNoObject
<1> QED BY <1>3, <1>4

LEMMA NewInForest ==
  ASSUME TypeOK, LinksAgree, Lines, NEW o \in Objects, NEW c, NewBlock(o, c)
  PROVE  Lines' /\ Forest!New(o)
<1>1. /\ o \notin live /\ live' = live \cup {o} /\ NULL \notin Objects
      /\ first_child[o] = NULL /\ live \subseteq Objects
  BY NoChildOfNone, NullIsNoObject DEF NewBlock, TypeOK
<1>2. ASSUME NEW q \in Objects PROVE LineStays(Chain, Chain', q)
  BY <1>1 DEF LineStays, Chain, NewBlock, TypeOK
<1>3. Lines' /\ Kids' = Kids
  BY <1>2, LinesKept
<1> QED BY <1>1, <1>3 DEF Forest!New, Kids

\* What the pointers of x say of its place among its siblings.
LEMMA PlaceByPointers ==
  ASSUME TypeOK, LinksAgree, NEW x \in live, parent[x] # NULL,
         NEW n \in Nat, NEW s \in [1..n -> live],
         IsLine(Chain, parent[x], n, s), NEW k \in 1..n, s[k] = x
  PROVE  /\ left_sibling[x] = IF k = 1 THEN NULL ELSE s[k - 1]
         /\ right_sibling[x] = IF k = n THEN NULL ELSE s[k + 1]
         /\ n > 0 /\ first_child[parent[x]] = s[1]
<1>1. right_sibling[x] = IF k = n THEN NULL ELSE s[k + 1]
  BY DEF IsLine, Chain
<1>2. n > 0 /\ first_child[parent[x]] = s[1]
  BY DEF IsLine, Chain
<1>3. CASE k = 1
  BY <1>1, <1>2, <1>3, LinksOf DEF LinksAgree, ChildrenAgree
<1>4. CASE k # 1
  <2>1. k - 1 \in 1..n /\ k - 1 # n /\ (k - 1) + 1 = k
    BY <1>4
  <2>2. right_sibling[s[k - 1]] = x /\ s[k - 1] \in live
    BY <2>1 DEF IsLine, Chain
  <2>3. x # NULL
    BY NullIsNoObject DEF TypeOK
  <2>4. left_sibling[x] = s[k - 1]
    BY <2>2, <2>3 DEF LinksAgree, SiblingsAgree
  <2> QED BY <1>1, <1>2, <1>4, <2>4
<1> QED BY <1>3, <1>4

LEMMA CutInForest ==
  ASSUME TypeOK, LinksAgree, Lines, NEW x \in Objects, OdlCutObjDesc(x)
  PROVE  Lines' /\ Forest!Cut(x)
<1> DEFINE l == left_sibling[x]  r == right_sibling[x]
<1>0. PICK p \in Objects : p = parent[x]
  BY DEF OdlCutObjDesc, Attached, TypeOK
<1>1. /\ x \in live /\ p # NULL /\ p \in Objects /\ live' = live
      /\ live \subseteq Objects /\ NULL \notin Objects
  BY NullIsNoObject DEF OdlCutObjDesc, TypeOK, Attached
<1>2. PICK n \in Nat : \E s \in [1..n -> live] : \E k \in 1..n :
        IsLine(Chain, p, n, s) /\ s[k] = x
  BY <1>0, <1>1, OnKids
<1>3. PICK s \in [1..n -> live] : \E k \in 1..n : IsLine(Chain, p, n, s) /\ s[k] = x
  BY <1>2
<1>4. PICK k \in 1..n : IsLine(Chain, p, n, s) /\ s[k] = x
  BY <1>3
<1>5. /\ l = IF k = 1 THEN NULL ELSE s[k - 1]
      /\ r = IF k = n THEN NULL ELSE s[k + 1]
      /\ first_child[p] = s[1]
      /\ \A i \in 1..n : s[i] \in live /\ s[i] # NULL /\ parent[s[i]] = p
  <2>1. IsLine(Chain, parent[x], n, s) /\ parent[x] # NULL
    BY <1>0, <1>1, <1>4
  <2>2. \A i \in 1..n : s[i] \in live /\ s[i] # NULL /\ parent[s[i]] = p
    BY <1>1, <1>4 DEF IsLine, Chain
  <2> QED BY <1>0, <1>1, <1>4, <2>1, <2>2, PlaceByPointers
<1>6. k > 1 => k - 1 \in 1..n /\ s[k - 1] # x
  BY <1>4 DEF IsLine, Chain
<1>7. parent' = [parent EXCEPT ![x] = NULL] /\ x \in DOMAIN parent
  BY <1>1 DEF OdlCutObjDesc, TypeOK
<1>8. \A q \in Objects :
        first_child'[q] = IF q # p \/ k # 1 THEN first_child[q]
                          ELSE IF n = 1 THEN NULL ELSE s[2]
  BY <1>0, <1>1, <1>5, <1>6 DEF OdlCutObjDesc, TypeOK
<1>9. k > 1 => right_sibling'[s[k - 1]] = IF k = n THEN NULL ELSE s[k + 1]
  BY <1>0, <1>1, <1>5, <1>6 DEF OdlCutObjDesc, TypeOK
<1>10. \A y \in live : y # x /\ (k > 1 => y # s[k - 1]) =>
                         right_sibling'[y] = right_sibling[y]
  BY <1>0, <1>1, <1>5, <1>6 DEF OdlCutObjDesc, TypeOK
<1>11. Leaves(Chain, Chain', p, x, n, s, k)
  <2>1. At(Chain, p, x, n, s)
    BY <1>1, <1>4, KidAt
  <2> QED BY <1>1, <1>4, <1>7, <1>8, <1>9, <1>10, <2>1 DEF Leaves, Chain
<1>12. Lines' /\ Kids' = [Kids EXCEPT ![p] = Without(s, n, k)]
  BY <1>1, <1>4, <1>11, KidLeaves
<1>13. /\ Forest!IsChild(x) /\ Forest!ParentOf(x) = p /\ Forest!Position(x) = k
       /\ Kids[p] = s
  BY <1>0, <1>1, <1>4, ParentsInForest, PositionInForest
<1>14. Forest!RemoveAt(s, k) = Without(s, n, k)
  BY RemoveIsWithout DEF Forest!RemoveAt, RemoveAt
<1>15. Kids' = [Kids EXCEPT ![Forest!ParentOf(x)]
                  = Forest!RemoveAt(Kids[Forest!ParentOf(x)], Forest!Position(x))]
  BY <1>12, <1>13, <1>14
<1> QED BY <1>1, <1>12, <1>13, <1>15 DEF Forest!Cut, Kids

LEMMA PlaceInForest ==
  ASSUME TypeOK, LinksAgree, Lines, NEW x \in Objects, NEW o \in Objects,
         CanPaste(x, o)
  PROVE  Forest!CanJoin(x, o) /\ o \notin Forest!Below(x)
<1>1. x \in live /\ parent[x] = NULL /\ o \in live /\ Detached(x)
  BY DEF CanPaste, Detached
<1>2. Forest!Below(x) = Tree(x) /\ ~Forest!IsChild(x)
  BY <1>1, BelowIsTree, ParentsInForest
<1> QED BY <1>1, <1>2 DEF CanPaste, Forest!CanJoin

LEMMA PasteInForest ==
  ASSUME TypeOK, LinksAgree, Lines, NEW x \in Objects, NEW p \in Objects,
         OdlPasteObjDesc(x, p)
  PROVE  Lines' /\ Forest!Paste(x, p)
<1> DEFINE l == last_child[p]
<1>1. /\ x \in live /\ p \in live /\ x # p /\ parent[x] = NULL /\ live' = live
      /\ \A y \in live : right_sibling[y] # x /\ last_child[y] # x
      /\ live \subseteq Objects /\ NULL \notin Objects /\ CanPaste(x, p)
  BY PlaceIsAnother, NullIsNoObject DEF OdlPasteObjDesc, TypeOK
<1>2. PICK n \in Nat : \E s \in [1..n -> live] : IsLine(Chain, p, n, s)
  BY <1>1 DEF Lines, HaveLines, HasLine, Chain
<1>3. PICK s \in [1..n -> live] : IsLine(Chain, p, n, s)
  BY <1>2
<1>4. /\ n = 0 => first_child[p] = NULL /\ l = NULL
      /\ n > 0 => first_child[p] # NULL /\ l = s[n] /\ l \in live
  <2>1. CASE n = 0
    BY <1>1, <1>3, <2>1 DEF IsLine, Chain, LinksAgree, ChildrenAgree
  <2>2. CASE n > 0
    <3>1. /\ s[n] \in live /\ parent[s[n]] = p /\ right_sibling[s[n]] = NULL
          /\ s[1] = first_child[p] /\ s[1] \in live
      BY <1>3, <2>2 DEF IsLine, Chain
    <3>2. last_child[p] = s[n]
      BY <1>1, <3>1 DEF LinksAgree, ChildrenAgree
    <3> QED BY <1>1, <2>2, <3>1, <3>2
  <2> QED BY <2>1, <2>2
<1>5. n + 1 \in 1..(n + 1) /\ (n + 1) - 1 = n /\ (n + 1 > 1 <=> n > 0)
      /\ (n + 1 = 1 <=> n = 0)
  OBVIOUS
<1>6. Joins(Chain, Chain', p, x, n, s, n + 1)
  <2>1. parent' = [parent EXCEPT ![x] = p] /\ x \in DOMAIN parent
    BY DEF OdlPasteObjDesc, TypeOK
  <2>2. \A q \in Objects : first_child'[q] =
          IF q = p /\ n + 1 = 1 THEN x ELSE first_child[q]
    BY <1>1, <1>4, <1>5 DEF OdlPasteObjDesc, TypeOK
  <2>3. right_sibling'[x] = NULL
    BY <1>1, <1>4 DEF OdlPasteObjDesc, TypeOK
  <2>4. n > 0 => right_sibling'[s[n]] = x
    BY <1>1, <1>4 DEF OdlPasteObjDesc, TypeOK
  <2>5. \A y \in live : y # x /\ (n > 0 => y # s[n]) =>
                          right_sibling'[y] = right_sibling[y]
    BY <1>1, <1>4 DEF OdlPasteObjDesc, TypeOK
  <2>6. At(Chain, p, x, n, s)
    BY <1>1, <1>3, KidAt
  <2> QED BY <1>1, <1>5, <2>1, <2>2, <2>3, <2>4, <2>5, <2>6 DEF Joins, Chain
<1>8. Lines' /\ Kids' = [Kids EXCEPT ![p] = With(s, n, n + 1, x)]
  BY <1>1, <1>3, <1>6, KidJoins
<1>9. Kids[p] = s /\ Append(s, x) = With(s, n, n + 1, x)
  BY <1>1, <1>3, LineIsKids, AppendIsWith
<1>10. Kids' = [Kids EXCEPT ![p] = Append(Kids[p], x)]
  BY <1>8, <1>9
<1>11. Forest!CanJoin(x, p) /\ p \notin Forest!Below(x)
  BY <1>1, PlaceInForest
<1> QED BY <1>1, <1>8, <1>10, <1>11 DEF Forest!Paste, Kids

LEMMA PasteBesideInForest ==
  ASSUME TypeOK, LinksAgree, Lines, NEW x \in Objects, NEW o \in Objects,
         OdlPasteObjDescBefore(x, o) \/ OdlPasteObjDescAfter(x, o)
  PROVE  Lines' /\ (Forest!PasteBefore(x, o) \/ Forest!PasteAfter(x, o))
<1>0. PICK p \in Objects : p = parent[o]
  BY DEF OdlPasteObjDescBefore, OdlPasteObjDescAfter, Attached, TypeOK
<1>1. /\ x \in live /\ o \in live /\ x # o /\ parent[x] = NULL /\ live' = live
      /\ \A y \in live : right_sibling[y] # x /\ left_sibling[y] # x
      /\ live \subseteq Objects /\ NULL \notin Objects /\ CanPaste(x, o)
      /\ parent[o] # NULL /\ p \in live
  <2>1. CanPaste(x, o) /\ Attached(o) /\ live' = live
    BY DEF OdlPasteObjDescBefore, OdlPasteObjDescAfter
  <2>2. live \subseteq Objects /\ NULL \notin Objects /\ o \in live /\ p # NULL
    BY <1>0, <2>1, NullIsNoObject DEF TypeOK, Attached
  <2> QED BY <1>0, <2>1, <2>2, PlaceIsAnother, LinksOf DEF Attached
<1>2. PICK n \in Nat : \E s \in [1..n -> live] : \E k \in 1..n :
        IsLine(Chain, p, n, s) /\ s[k] = o
  BY <1>0, <1>1, OnKids
<1>3. PICK s \in [1..n -> live] : \E k \in 1..n : IsLine(Chain, p, n, s) /\ s[k] = o
  BY <1>2
<1>4. PICK k \in 1..n : IsLine(Chain, p, n, s) /\ s[k] = o
  BY <1>3
<1>5. /\ left_sibling[o] = IF k = 1 THEN NULL ELSE s[k - 1]
      /\ right_sibling[o] = IF k = n THEN NULL ELSE s[k + 1]
      /\ n > 0 /\ first_child[p] = s[1]
  <2>1. IsLine(Chain, parent[o], n, s) /\ parent[o] # NULL
    BY <1>0, <1>1, <1>4
  <2> QED BY <1>0, <1>1, <1>4, <2>1, PlaceByPointers
<1>6. \A i \in 1..n : s[i] \in live /\ s[i] # NULL /\ s[i] # x
  BY <1>0, <1>1, <1>4 DEF IsLine, Chain
<1>7. /\ Forest!IsChild(o) /\ Forest!ParentOf(o) = p /\ Forest!Position(o) = k
      /\ Kids[p] = s
  BY <1>0, <1>1, <1>4, ParentsInForest, PositionInForest
<1>8. Forest!CanJoin(x, o) /\ o \notin Forest!Below(x)
  BY <1>1, PlaceInForest
<1>9. k \in 1..(n + 1) /\ k + 1 \in 1..(n + 1) /\ (k > 1 => k - 1 \in 1..n)
      /\ (k + 1) - 1 = k /\ k # n + 1 /\ (k + 1 = n + 1 <=> k = n) /\ k + 1 > 1
      /\ k + 1 # 1
  OBVIOUS
<1>10. At(Chain, p, x, n, s)
  BY <1>1, <1>4, KidAt
<1>11. CASE OdlPasteObjDescBefore(x, o)
  <2>1. Joins(Chain, Chain', p, x, n, s, k)
    <3>1. parent' = [parent EXCEPT ![x] = p] /\ x \in DOMAIN parent
      BY <1>0, <1>11 DEF OdlPasteObjDescBefore, TypeOK
    <3>2. \A q \in Objects :
            first_child'[q] = IF q = p /\ k = 1 THEN x ELSE first_child[q]
      BY <1>0, <1>1, <1>5, <1>6, <1>9, <1>11 DEF OdlPasteObjDescBefore, TypeOK
    <3>3. right_sibling'[x] = s[k]
      BY <1>1, <1>4, <1>5, <1>6, <1>9, <1>11 DEF OdlPasteObjDescBefore, TypeOK
    <3>4. k > 1 => right_sibling'[s[k - 1]] = x
      BY <1>1, <1>5, <1>6, <1>9, <1>11 DEF OdlPasteObjDescBefore, TypeOK
    <3>5. \A y \in live : y # x /\ (k > 1 => y # s[k - 1]) =>
                            right_sibling'[y] = right_sibling[y]
      BY <1>1, <1>5, <1>6, <1>9, <1>11 DEF OdlPasteObjDescBefore, TypeOK
    <3> QED
      BY <1>1, <1>9, <1>10, <3>1, <3>2, <3>3, <3>4, <3>5 DEF Joins, Chain
  <2>3. Lines' /\ Kids' = [Kids EXCEPT ![p] = With(s, n, k, x)]
    BY <1>1, <1>4, <2>1, KidJoins
  <2>4. Forest!InsertAt(s, k, x) = With(s, n, k, x)
    <3>1. InsertAt(s, k, x) = With(s, n, k, x)
      BY <1>1, <1>9, InsertIsWith
    <3> QED BY <3>1 DEF Forest!InsertAt, InsertAt
  <2>5. Kids' = [Kids EXCEPT ![Forest!ParentOf(o)]
                   = Forest!InsertAt(Kids[Forest!ParentOf(o)],
                                     Forest!Position(o), x)]
    BY <1>7, <2>3, <2>4
  <2> QED BY <1>1, <1>7, <1>8, <2>3, <2>5 DEF Forest!PasteBefore, Kids
<1>12. CASE OdlPasteObjDescAfter(x, o)
  <2>1. Joins(Chain, Chain', p, x, n, s, k + 1)
    <3>1. parent' = [parent EXCEPT ![x] = p] /\ x \in DOMAIN parent
      BY <1>0, <1>12 DEF OdlPasteObjDescAfter, TypeOK
    <3>2. first_child' = first_child
      BY <1>12 DEF OdlPasteObjDescAfter
    <3>3. right_sibling'[x] = IF k = n THEN NULL ELSE s[k + 1]
      BY <1>1, <1>5, <1>12 DEF OdlPasteObjDescAfter, TypeOK
    <3>4. right_sibling'[s[k]] = x
      BY <1>1, <1>4, <1>12 DEF OdlPasteObjDescAfter, TypeOK
    <3>5. \A y \in live : y # x /\ y # s[k] => right_sibling'[y] = right_sibling[y]
      BY <1>1, <1>4, <1>12 DEF OdlPasteObjDescAfter, TypeOK
    <3> QED
      BY <1>1, <1>9, <1>10, <3>1, <3>2, <3>3, <3>4, <3>5 DEF Joins, Chain
  <2>3. Lines' /\ Kids' = [Kids EXCEPT ![p] = With(s, n, k + 1, x)]
    BY <1>1, <1>4, <2>1, KidJoins
  <2>4. Forest!InsertAt(s, k + 1, x) = With(s, n, k + 1, x)
    <3>1. InsertAt(s, k + 1, x) = With(s, n, k + 1, x)
      BY <1>1, <1>9, InsertIsWith
    <3> QED BY <3>1 DEF Forest!InsertAt, InsertAt
  <2>5. Kids' = [Kids EXCEPT ![Forest!ParentOf(o)]
                   = Forest!InsertAt(Kids[Forest!ParentOf(o)],
                                     Forest!Position(o) + 1, x)]
    BY <1>7, <2>3, <2>4
  <2> QED BY <1>1, <1>7, <1>8, <2>3, <2>5 DEF Forest!PasteAfter, Kids
<1> QED BY <1>11, <1>12

LEMMA FreeInForest ==
  ASSUME TypeOK, LinksAgree, Lines, NEW o \in Objects, OdlFreeTree(o)
  PROVE  Lines' /\ Forest!FreeTree(o)
<1>1. /\ Detached(o) /\ o \in live /\ live \subseteq Objects /\ NULL \notin Objects
      /\ live' = live \ Tree(o) /\ Tree(o) \subseteq live
  BY TreeStandsAlone, NullIsNoObject DEF OdlFreeTree, Detached, TypeOK
<1>2. Forest!Below(o) = Tree(o) /\ ~Forest!IsChild(o)
  BY <1>1, BelowIsTree, ParentsInForest DEF Detached
<1>3. ASSUME NEW q \in Objects \ Tree(o)
      PROVE  LineStays(Chain, Chain', q)
  <2>1. \A y \in live : parent[y] = q => y \notin Tree(o)
    <3> DEFINE S == live \ Tree(o)
    <3>1. CASE q \in live
      <4>1. /\ first_child[q] # NULL => first_child[q] \in S
            /\ \A y \in S : right_sibling[y] # NULL => right_sibling[y] \in S
        BY <1>1, <3>1, TreeStandsAlone, LinksOf
      <4>2. S \in SUBSET Objects
        BY <1>1
      <4> HIDE DEF S
      <4>3. \A y \in live : parent[y] = q => y \in S
        BY <3>1, <4>1, <4>2 DEF LinksAgree, ChildrenReached
      <4> QED BY <4>3 DEF S
    <3>2. CASE q \notin live
      BY <1>1, <3>2, LinksOf
    <3> QED BY <3>1, <3>2
  <2> QED BY <1>1, <2>1 DEF LineStays, Chain, OdlFreeTree
<1>4. ASSUME NEW q \in Tree(o)
      PROVE  first_child'[q] = NULL /\ \A y \in live' : parent'[y] # q
  BY <1>1, <1>4, TreeStandsAlone DEF OdlFreeTree
<1>5. Tree(o) \in SUBSET Objects
  BY <1>1
<1>6. /\ Lines'
      /\ Kids' = [q \in Objects |-> IF q \in Tree(o) THEN <<>> ELSE Kids[q]]
  <2>1. \A q \in Tree(o) : /\ Chain'.first[q] = NULL
                           /\ \A y \in Chain'.all : Chain'.up[y] # q
    BY <1>4 DEF Chain
  <2>2. \A q \in Objects \ Tree(o) : LineStays(Chain, Chain', q)
    BY <1>3
  <2>3. Gone(Chain, Chain', Tree(o))
    BY <1>5, <2>1, <2>2 DEF Gone
  <2>4. /\ HaveLines(Chain')
        /\ LinesOf(Chain') = [q \in Objects |-> IF q \in Tree(o) THEN <<>>
                                                ELSE LinesOf(Chain)[q]]
    BY <2>3, LinesGone DEF Lines
  <2> QED BY <2>4, KidsAreLines, KidsAreLinesAfter DEF Lines
<1>7. Kids' = [q \in Objects |-> IF q \in Forest!Below(o) THEN <<>> ELSE Kids[q]]
  BY <1>2, <1>6
<1>8. live' = live \ Forest!Below(o)
  BY <1>1, <1>2
<1> QED BY <1>1, <1>2, <1>6, <1>7, <1>8 DEF Forest!FreeTree, Kids

-----------------------------------------------------------------------------
(* The refinement.                                                         *)

LEMMA InitForest == Init => Lines /\ Forest!Init
<1> SUFFICES ASSUME Init PROVE Lines /\ Forest!Init
  OBVIOUS
<1>1. ASSUME NEW q \in Objects
      PROVE  HasLine(Chain, q) /\ LineOn(Chain, q) = <<>>
  <2>1. 0 \in Nat /\ <<>> \in [1..0 -> Chain.all] /\ 1..0 = {}
    OBVIOUS
  <2>2. IsLine(Chain, q, 0, <<>>)
    BY <2>1 DEF IsLine, Chain, Init, Nowhere
  <2> QED BY <2>1, <2>2, LineIsLine
<1>2. Kids = [q \in Objects |-> <<>>]
  BY <1>1, KidsAreLines DEF LinesOf
<1> QED BY <1>1, <1>2 DEF Lines, HaveLines, Kids, Init, Forest!Init

LEMMA NextForest ==
  ASSUME TypeOK, LinksAgree, Lines, [Next]_vars
  PROVE  Lines' /\ [Forest!Next]_<<live, Kids>>
<1>1. ASSUME Edit PROVE Lines' /\ Forest!Edit
  <2>1. ASSUME NEW o \in Objects, NEW c, NewBlock(o, c)
        PROVE  Lines' /\ Forest!Edit
    BY <2>1, NewInForest DEF Forest!Edit
  <2>2. ASSUME NEW o \in Objects, OdlCutObjDesc(o) \/ OdlFreeTree(o)
        PROVE  Lines' /\ Forest!Edit
    BY <2>2, CutInForest, FreeInForest DEF Forest!Edit
  <2>3. ASSUME NEW n \in Objects, NEW o \in Objects,
               \/ OdlPasteObjDesc(n, o)
               \/ OdlPasteObjDescBefore(n, o) \/ OdlPasteObjDescAfter(n, o)
        PROVE  Lines' /\ Forest!Edit
    BY <2>3, PasteInForest, PasteBesideInForest DEF Forest!Edit
  <2> QED BY <1>1, <2>1, <2>2, <2>3 DEF Edit, OdlNewObjDesc, OdlCopyObjDesc
<1>2. ASSUME Find \/ Walk \/ FindReturns \/ UNCHANGED vars
      PROVE  Lines' /\ UNCHANGED <<live, Kids>>
  <2>1. UNCHANGED Links
    BY <1>2 DEF Find, OdlFindObjDesc, Walk, OdlAdjustObjDescLevel,
                SearchObject, Climb, FindReturns, vars, links, Links
  <2>2. \A q \in Objects : LineStays(Chain, Chain', q)
    BY <2>1 DEF LineStays, Chain, Links
  <2>3. Lines' /\ Kids' = Kids
    BY <2>2, LinesKept
  <2> QED BY <2>1, <2>3 DEF Links
<1>3. Lines' /\ (Forest!Edit \/ UNCHANGED <<live, Kids>>)
  BY <1>1, <1>2 DEF Next
<1> QED BY <1>3 DEF Forest!Next, Forest!forest, Kids

\* The pointers implement the forest of sequences of children: what a caller
\* does to objects and sequences is what is done to the links, on any number
\* of objects, and a search or an adjustment of levels moves nothing.
THEOREM PointersAreForest == Spec => ImplementsForest
<1>1. Init => Lines /\ Forest!Init
  BY InitForest
<1>2. TypeOK /\ LinksAgree /\ Lines /\ [Next]_vars
        => Lines' /\ [Forest!Next]_<<live, [o \in Objects |-> Children(o)]>>
  BY NextForest DEF Kids
<1> QED BY <1>1, <1>2, TypeCorrect, LinksAlwaysAgree, PTL
        DEF Spec, ImplementsForest, Forest!Spec, Forest!forest

-----------------------------------------------------------------------------
(* What a loop meets, for any pointers `next' of the members of `all'.     *)

Points(all, next) == next \in [all -> all \cup {NULL}] /\ NULL \notin all

ClosedUnder(next, S) == \A y \in S : next[y] # NULL => next[y] \in S

LEMMA MetLeast ==
  ASSUME NEW all, NEW next, NEW o, NEW S \in SUBSET all, o \in S,
         ClosedUnder(next, S)
  PROVE  Met(all, next, o) \subseteq S
BY DEF Met, ClosedUnder

LEMMA MetClosed ==
  ASSUME NEW all, NEW next, Points(all, next), NEW o \in all
  PROVE  /\ Met(all, next, o) \in SUBSET all /\ o \in Met(all, next, o)
         /\ ClosedUnder(next, Met(all, next, o))
<1>1. Met(all, next, o) \in SUBSET all /\ o \in Met(all, next, o)
  BY DEF Met
<1>2. ASSUME NEW y \in Met(all, next, o), next[y] # NULL
      PROVE  next[y] \in Met(all, next, o)
  <2>1. next[y] \in all
    BY <1>1, <1>2 DEF Points
  <2> QED BY <1>2, <2>1 DEF Met
<1> QED BY <1>1, <1>2 DEF ClosedUnder

LEMMA MetFurther ==
  ASSUME NEW all, NEW next, Points(all, next), NEW o \in all,
         NEW x \in Met(all, next, o)
  PROVE  Met(all, next, x) \subseteq Met(all, next, o)
BY MetClosed, MetLeast

\* First o, then what the loop meets from the next one.
LEMMA MetStep ==
  ASSUME NEW all, NEW next, Points(all, next), NEW o \in all
  PROVE  /\ next[o] = NULL => Met(all, next, o) = {o}
         /\ next[o] # NULL =>
              /\ next[o] \in all
              /\ Met(all, next, o) = {o} \cup Met(all, next, next[o])
<1>1. o \in Met(all, next, o) /\ ClosedUnder(next, Met(all, next, o))
  BY MetClosed
<1>2. CASE next[o] = NULL
  <2>1. ClosedUnder(next, {o})
    BY <1>2 DEF ClosedUnder
  <2>2. Met(all, next, o) \subseteq {o}
    BY <2>1, MetLeast
  <2> QED BY <1>1, <1>2, <2>2
<1>3. CASE next[o] # NULL
  <2> DEFINE S == {o} \cup Met(all, next, next[o])
  <2>1. next[o] \in all
    BY <1>3 DEF Points
  <2>2. /\ Met(all, next, next[o]) \in SUBSET all
        /\ next[o] \in Met(all, next, next[o])
        /\ ClosedUnder(next, Met(all, next, next[o]))
    BY <2>1, MetClosed
  <2>3. S \in SUBSET all /\ o \in S
    BY <2>2
  <2>4. ClosedUnder(next, S)
    BY <2>2 DEF ClosedUnder
  <2>5. Met(all, next, o) \subseteq S
    <3> HIDE DEF S
    <3> QED BY <2>3, <2>4, MetLeast
  <2>6. next[o] \in Met(all, next, o)
    BY <1>1, <1>3 DEF ClosedUnder
  <2>7. Met(all, next, next[o]) \subseteq Met(all, next, o)
    BY <2>6, MetFurther
  <2> QED BY <1>1, <1>3, <2>1, <2>5, <2>7
<1> QED BY <1>2, <1>3

\* What is met after o is the next of something met.
LEMMA MetComesFrom ==
  ASSUME NEW all, NEW next, Points(all, next), NEW o \in all,
         NEW x \in Met(all, next, o), x # o
  PROVE  \E z \in Met(all, next, o) : next[z] = x
<1> SUFFICES ASSUME \A z \in Met(all, next, o) : next[z] # x
             PROVE  FALSE
  OBVIOUS
<1> DEFINE S == Met(all, next, o) \ {x}
<1>1. /\ Met(all, next, o) \in SUBSET all /\ o \in Met(all, next, o)
      /\ ClosedUnder(next, Met(all, next, o))
  BY MetClosed
<1>2. S \in SUBSET all /\ o \in S /\ ClosedUnder(next, S)
  BY <1>1 DEF ClosedUnder
<1>3. x \notin S
  OBVIOUS
<1> HIDE DEF S
<1> QED BY <1>2, <1>3, MetLeast

\* Of two that are met, one is met from the other.
LEMMA MetInLine ==
  ASSUME NEW all, NEW next, Points(all, next), NEW o \in all,
         NEW x \in Met(all, next, o), NEW y \in Met(all, next, o)
  PROVE  x \in Met(all, next, y) \/ y \in Met(all, next, x)
<1> DEFINE S == {z \in Met(all, next, o) :
                   z \in Met(all, next, y) \/ y \in Met(all, next, z)}
<1>1. /\ Met(all, next, o) \in SUBSET all /\ o \in Met(all, next, o)
      /\ ClosedUnder(next, Met(all, next, o)) /\ y \in all
  BY MetClosed
<1>2. S \in SUBSET all /\ o \in S
  BY <1>1
<1>3. ASSUME NEW z \in S, next[z] # NULL
      PROVE  next[z] \in S
  <2>1. next[z] \in Met(all, next, o) /\ z \in all
    BY <1>1, <1>3 DEF ClosedUnder
  <2>2. ClosedUnder(next, Met(all, next, y)) /\ y \in Met(all, next, y)
    BY <1>1, MetClosed
  <2>3. CASE z \in Met(all, next, y)
    BY <1>3, <2>1, <2>2, <2>3 DEF ClosedUnder
  <2>4. CASE y \in Met(all, next, z)
    <3>1. y = z \/ y \in Met(all, next, next[z])
      BY <1>3, <2>1, <2>4, MetStep
    <3> QED BY <1>3, <2>1, <2>2, <2>3, <3>1
  <2> QED BY <2>3, <2>4
<1>4. ClosedUnder(next, S)
  BY <1>3 DEF ClosedUnder
<1>5. x \in S
  <2> HIDE DEF S
  <2> QED BY <1>2, <1>4, MetLeast
<1> QED BY <1>5

\* A loop from the first, whom nothing leads back from, does not come round:
\* prev leads back from what next leads to.
LEMMA MetEnds ==
  ASSUME NEW all, NEW next, NEW prev, Points(all, next), NEW D \in SUBSET all,
         \A y \in D : next[y] # NULL => next[y] \in D /\ prev[next[y]] = y,
         NEW first \in D, prev[first] = NULL,
         NEW x \in Met(all, next, first), next[x] # NULL
  PROVE  x \notin Met(all, next, next[x])
<1> SUFFICES ASSUME x \in Met(all, next, next[x]) PROVE FALSE
  OBVIOUS
<1>1. Met(all, next, first) \subseteq D
  BY MetLeast DEF ClosedUnder
<1>2. x \in D /\ x \in all
  BY <1>1
<1>3. next[x] \in all
  BY <1>2, MetStep
<1> DEFINE R == Met(all, next, next[x])
           C == {z \in R : x \in Met(all, next, z)}
           S == D \ C
<1>5. next[x] \in D /\ R \in SUBSET all /\ next[x] \in R
  BY <1>2, <1>3, MetClosed
<1>6. R \subseteq D
  BY <1>5, MetLeast DEF ClosedUnder
<1>7. x \in Met(all, next, x)
  BY <1>2, MetClosed
<1>8. ASSUME NEW z \in C
      PROVE  prev[z] \in C /\ prev[z] # NULL
  <2>1. CASE z = next[x]
    <3>1. prev[z] = x
      BY <1>2, <1>3, <2>1
    <3> QED BY <1>2, <1>7, <3>1 DEF Points
  <2>2. CASE z # next[x]
    <3>1. PICK w \in R : next[w] = z
      BY <1>3, <2>2, MetComesFrom
    <3>2. w \in D /\ w \in all /\ z \in all
      BY <1>6, <3>1
    <3>3. z # NULL
      BY <3>2 DEF Points
    <3>4. prev[z] = w /\ w # NULL
      BY <3>1, <3>2, <3>3 DEF Points
    <3>5. Met(all, next, w) = {w} \cup Met(all, next, z)
      BY <3>1, <3>2, <3>3, MetStep
    <3> QED BY <3>1, <3>4, <3>5
  <2> QED BY <2>1, <2>2
<1>9. first \in S
  BY <1>8
<1>10. ClosedUnder(next, S)
  <2> SUFFICES ASSUME NEW z \in S, next[z] # NULL, next[z] \in C
               PROVE  FALSE
    BY DEF ClosedUnder
  <2>1. prev[next[z]] = z
    OBVIOUS
  <2> QED BY <1>8, <2>1
<1>11. S \in SUBSET all /\ x \notin S
  BY <1>2, <1>7
<1> HIDE DEF S
<1> QED BY <1>9, <1>10, <1>11, MetLeast

LEMMA MetOneWay ==
  ASSUME NEW all, NEW next, Points(all, next), NEW x \in all,
         NEW y \in Met(all, next, x), x \in Met(all, next, y),
         next[x] # NULL => x \notin Met(all, next, next[x])
  PROVE  x = y
<1> SUFFICES ASSUME x # y PROVE FALSE
  OBVIOUS
<1>1. next[x] # NULL /\ next[x] \in all /\ y \in Met(all, next, next[x])
  BY MetStep
<1>2. x \in Met(all, next, next[x])
  BY <1>1, MetFurther
<1> QED BY <1>1, <1>2

-----------------------------------------------------------------------------
(* The order of a label.                                                   *)

TreeStands == TypeOK /\ LinksAgree /\ NoCycles

LEMMA TreePoints ==
  ASSUME TreeStands
  PROVE  /\ Points(Objects, parent) /\ Points(Objects, right_sibling)
         /\ live \in SUBSET Objects /\ NULL \notin live
<1>1. live \in SUBSET Objects /\ NULL \notin Objects
  BY NullIsNoObject DEF TreeStands, TypeOK
<1>2. Points(Objects, parent) /\ Points(Objects, right_sibling)
  BY <1>1 DEF TreeStands, TypeOK, Points
<1> QED BY <1>1, <1>2

\* An object hangs below itself and below what its parent hangs below.
LEMMA LineageStep ==
  ASSUME TreeStands, NEW x \in live
  PROVE  /\ Lineage(x) \subseteq live /\ x \in Lineage(x)
         /\ parent[x] = NULL => Lineage(x) = {x}
         /\ parent[x] # NULL =>
              /\ parent[x] \in live
              /\ Lineage(x) = {x} \cup Lineage(parent[x])
<1>1. /\ Points(Objects, parent) /\ live \in SUBSET Objects
      /\ \A y \in live : parent[y] \in live \cup {NULL}
  BY TreePoints, LinksOf DEF TreeStands
<1>2. ClosedUnder(parent, live)
  BY <1>1 DEF ClosedUnder
<1>3. Lineage(x) \subseteq live
  BY <1>1, <1>2, MetLeast DEF Lineage
<1>4. x \in Lineage(x)
  BY <1>1, MetClosed DEF Lineage
<1> QED BY <1>1, <1>3, <1>4, MetStep DEF Lineage

LEMMA LineageFurther ==
  ASSUME TreeStands, NEW x \in live, NEW y \in Lineage(x)
  PROVE  Lineage(y) \subseteq Lineage(x) /\ y \in live
BY TreePoints, LineageStep, MetFurther DEF Lineage

LEMMA LineageInLine ==
  ASSUME TreeStands, NEW z \in live, NEW x \in Lineage(z), NEW y \in Lineage(z)
  PROVE  x \in Lineage(y) \/ y \in Lineage(x)
BY TreePoints, MetInLine DEF Lineage

\* No object hangs below its child.
LEMMA LineageEnds ==
  ASSUME TreeStands, NEW x \in live, parent[x] # NULL
  PROVE  x \notin Lineage(parent[x])
<1> SUFFICES ASSUME x \in Lineage(parent[x]) PROVE FALSE
  OBVIOUS
<1> DEFINE S == {y \in Lineage(x) : x \in Lineage(y)}
<1>1. S \in SUBSET live /\ x \in S
  BY LineageStep
<1>2. ASSUME NEW y \in S PROVE parent[y] \in S
  <2>1. CASE y = x
    BY <2>1, LineageStep
  <2>2. CASE y # x
    <3>1. y \in live /\ x \in Lineage(y)
      BY <1>1
    <3>2. parent[y] # NULL /\ x \in Lineage(parent[y]) /\ parent[y] \in live
      BY <2>2, <3>1, LineageStep
    <3>3. parent[y] \in Lineage(y)
      BY <3>1, <3>2, LineageStep
    <3>4. parent[y] \in Lineage(x)
      BY <3>3, LineageFurther
    <3> QED BY <3>2, <3>4
  <2> QED BY <2>1, <2>2
<1> HIDE DEF S
<1> QED BY <1>1, <1>2 DEF TreeStands, NoCycles

LEMMA LineageOneWay ==
  ASSUME TreeStands, NEW y \in live, NEW x \in Lineage(y), y \in Lineage(x)
  PROVE  x = y
<1> SUFFICES ASSUME x # y PROVE FALSE
  OBVIOUS
<1>1. parent[y] # NULL /\ x \in Lineage(parent[y]) /\ parent[y] \in live
  BY LineageStep
<1>2. y \in Lineage(parent[y])
  BY <1>1, LineageFurther
<1> QED BY <1>1, <1>2, LineageEnds

\* Nothing hangs below two siblings.
LEMMA SiblingsApart ==
  ASSUME TreeStands, NEW z \in live, NEW a \in Lineage(z), NEW b \in Lineage(z),
         parent[a] = parent[b], parent[a] # NULL
  PROVE  a = b
<1>1. ASSUME NEW x \in live, NEW y \in live, parent[x] = parent[y],
             parent[x] # NULL, x \in Lineage(y)
      PROVE  x = y
  BY <1>1, LineageStep, LineageEnds
<1>2. a \in live /\ b \in live
  BY LineageStep
<1>3. a \in Lineage(b) \/ b \in Lineage(a)
  BY LineageInLine
<1> QED BY <1>1, <1>2, <1>3

\* What hangs below an object is the object and what hangs below its children.
LEMMA BelowStep ==
  ASSUME TreeStands, NEW o \in live, NEW x \in live
  PROVE  x \in Below(o) <=>
           x = o \/ \E c \in live : parent[c] = o /\ x \in Below(c)
<1>1. ASSUME x \in Below(o), x # o
      PROVE  \E c \in live : parent[c] = o /\ x \in Below(c)
  <2>1. PICK c \in Lineage(x) : parent[c] = o
    BY <1>1, TreePoints, MetComesFrom DEF Below, Lineage
  <2> QED BY <2>1, LineageStep DEF Below
<1>2. ASSUME NEW c \in live, parent[c] = o, x \in Below(c)
      PROVE  x \in Below(o)
  <2>1. o \in Lineage(c)
    BY <1>2, LineageStep, TreePoints
  <2>2. o \in Lineage(x)
    BY <1>2, <2>1, LineageFurther DEF Below
  <2> QED BY <2>2 DEF Below
<1>3. o \in Below(o)
  BY LineageStep DEF Below
<1> QED BY <1>1, <1>2, <1>3

\* x is below a sibling on the left of y.
UnderOlder(x, y) == \E a \in Older(y) : x \in Below(a)

\* The order, by the siblings alone.
LEMMA PrecedesMeans ==
  ASSUME TreeStands, NEW x \in live, NEW y \in live
  PROVE  Precedes(x, y) <=>
           \/ x \in Lineage(y) \ {y}
           \/ \E b \in Lineage(y) : UnderOlder(x, b)
<1>1. ASSUME NEW b \in Lineage(y)
      PROVE  UnderOlder(x, b) <=>
               \E a \in Lineage(x) : parent[a] = parent[b] /\ a \in Older(b)
  <2>1. Lineage(x) \subseteq live
    BY LineageStep
  <2> QED BY <2>1 DEF UnderOlder, Below, Older
<1> QED BY <1>1 DEF Precedes

\* What stands before an object, by what stands before its parent.
LEMMA PrecedesStep ==
  ASSUME TreeStands, NEW x \in live, NEW y \in live
  PROVE  /\ parent[y] = NULL => ~Precedes(x, y)
         /\ parent[y] # NULL =>
              (Precedes(x, y) <=> \/ x = parent[y] \/ Precedes(x, parent[y])
                                  \/ UnderOlder(x, y))
<1>1. CASE parent[y] = NULL
  <2>1. Lineage(y) = {y}
    BY <1>1, LineageStep
  <2>2. Older(y) = {}
    BY <1>1 DEF Older
  <2> QED BY <1>1, <2>1, <2>2, PrecedesMeans DEF UnderOlder
<1>2. CASE parent[y] # NULL
  <2>1. /\ parent[y] \in live /\ Lineage(y) = {y} \cup Lineage(parent[y])
        /\ parent[y] \in Lineage(parent[y]) /\ y \notin Lineage(parent[y])
    BY <1>2, LineageStep, LineageEnds
  <2>2. Precedes(x, parent[y]) <=>
           \/ x \in Lineage(parent[y]) \ {parent[y]}
           \/ \E b \in Lineage(parent[y]) : UnderOlder(x, b)
    BY <2>1, PrecedesMeans
  <2> QED BY <1>2, <2>1, <2>2, PrecedesMeans
<1> QED BY <1>1, <1>2

\* Siblings are in one line.
LEMMA SiblingsInLine ==
  ASSUME TreeStands, NEW x \in live, parent[x] # NULL
  PROVE  /\ parent[x] \in live /\ first_child[parent[x]] \in live
         /\ left_sibling[first_child[parent[x]]] = NULL
         /\ x \in Met(Objects, right_sibling, first_child[parent[x]])
<1> DEFINE p == parent[x]
           f == first_child[p]
           S == Met(Objects, right_sibling, f)
<1>1. TypeOK /\ LinksAgree /\ p \in live /\ f \in live \cup {NULL}
  BY LinksOf DEF TreeStands
<1>2. f # NULL
  BY <1>1, NoFirstChild
<1>3. f \in live /\ f \in Objects
  BY <1>1, <1>2, TreePoints
<1>4. left_sibling[f] = NULL
  BY <1>1, <1>2 DEF LinksAgree, ChildrenAgree
<1>5. S \in SUBSET Objects /\ f \in S /\ ClosedUnder(right_sibling, S)
  BY <1>3, TreePoints, MetClosed
<1>6. x \in S
  <2> HIDE DEF S
  <2> QED BY <1>1, <1>5 DEF LinksAgree, ChildrenReached, ClosedUnder
<1> QED BY <1>1, <1>3, <1>4, <1>6

LEMMA RightLinks ==
  ASSUME TreeStands, NEW y \in live, right_sibling[y] # NULL
  PROVE  /\ right_sibling[y] \in live /\ left_sibling[right_sibling[y]] = y
         /\ parent[right_sibling[y]] = parent[y] /\ parent[y] # NULL
BY LinksOf DEF TreeStands, LinksAgree, SiblingsAgree

LEMMA RightEnds ==
  ASSUME TreeStands, NEW x \in live, right_sibling[x] # NULL
  PROVE  x \notin Met(Objects, right_sibling, right_sibling[x])
<1>1. parent[x] # NULL
  BY RightLinks
<1>2. PICK f \in live : /\ left_sibling[f] = NULL
                        /\ x \in Met(Objects, right_sibling, f)
  BY <1>1, SiblingsInLine
<1> QED BY <1>2, TreePoints, RightLinks, MetEnds

LEMMA RightOneWay ==
  ASSUME TreeStands, NEW x \in live,
         NEW y \in Met(Objects, right_sibling, x),
         x \in Met(Objects, right_sibling, y)
  PROVE  x = y
<1>1. x \in Objects /\ Points(Objects, right_sibling)
  BY TreePoints
<1> QED BY <1>1, RightEnds, MetOneWay

\* The siblings on the left of the first child, of the next and of the last.
LEMMA OlderStep ==
  ASSUME TreeStands, NEW o \in live
  PROVE  /\ first_child[o] # NULL => Older(first_child[o]) = {}
         /\ right_sibling[o] # NULL =>
              Older(right_sibling[o]) = Older(o) \cup {o}
         /\ right_sibling[o] = NULL /\ parent[o] # NULL =>
              {x \in live : parent[x] = parent[o]} = Older(o) \cup {o}
<1>1. ASSUME first_child[o] # NULL
      PROVE  Older(first_child[o]) = {}
  <2>1. parent[first_child[o]] = o
    BY <1>1 DEF TreeStands, LinksAgree, ChildrenAgree
  <2> QED BY <2>1, SiblingsInLine DEF Older
<1>2. ASSUME right_sibling[o] # NULL
      PROVE  Older(right_sibling[o]) = Older(o) \cup {o}
  <2> DEFINE r == right_sibling[o]
             R == Met(Objects, right_sibling, r)
  <2>1. r \in live /\ parent[r] = parent[o] /\ parent[o] # NULL
    BY <1>2, RightLinks
  <2>2. Met(Objects, right_sibling, o) = {o} \cup R
    BY <1>2, <2>1, TreePoints, MetStep
  <2>3. o \notin R
    BY <1>2, RightEnds
  <2> QED BY <2>1, <2>2, <2>3 DEF Older
<1>3. ASSUME right_sibling[o] = NULL, parent[o] # NULL
      PROVE  {x \in live : parent[x] = parent[o]} = Older(o) \cup {o}
  <2>1. Met(Objects, right_sibling, o) = {o}
    BY <1>3, TreePoints, MetStep
  <2> QED BY <1>3, <2>1 DEF Older
<1> QED BY <1>1, <1>2, <1>3

\* Before(o) stands before o; Done(o) also has what is below o.
Before(o) == {x \in live : Precedes(x, o)}
Done(o) == Before(o) \cup Below(o)

LEMMA DoneHolds ==
  ASSUME TreeStands, NEW o \in live
  PROVE  o \in Below(o) /\ o \in Done(o) /\ Done(o) \subseteq live
BY LineageStep DEF Done, Before, Below

\* The four moves of a walk, in the order of the label.
LEMMA BeforeFirstChild ==
  ASSUME TreeStands, NEW o \in live, first_child[o] # NULL
  PROVE  /\ first_child[o] \in live /\ parent[first_child[o]] = o
         /\ Before(first_child[o]) = Before(o) \cup {o}
<1>1. first_child[o] \in live /\ parent[first_child[o]] = o /\ o # NULL
  BY LinksOf, TreePoints DEF TreeStands, LinksAgree, ChildrenAgree
<1>2. ASSUME NEW x \in live
      PROVE  Precedes(x, first_child[o]) <=> x = o \/ Precedes(x, o)
  <2>1. ~UnderOlder(x, first_child[o])
    BY OlderStep DEF UnderOlder
  <2> QED BY <1>1, <2>1, PrecedesStep
<1> QED BY <1>1, <1>2 DEF Before

LEMMA BeforeRightSibling ==
  ASSUME TreeStands, NEW o \in live, right_sibling[o] # NULL
  PROVE  /\ right_sibling[o] \in live /\ parent[right_sibling[o]] = parent[o]
         /\ Before(right_sibling[o]) = Done(o)
<1>1. /\ right_sibling[o] \in live /\ parent[right_sibling[o]] = parent[o]
      /\ parent[o] # NULL
  BY RightLinks
<1>2. ASSUME NEW x \in live
      PROVE  Precedes(x, right_sibling[o]) <=> Precedes(x, o) \/ x \in Below(o)
  <2>1. UnderOlder(x, right_sibling[o]) <=> UnderOlder(x, o) \/ x \in Below(o)
    BY OlderStep DEF UnderOlder
  <2> QED BY <1>1, <2>1, PrecedesStep
<1>3. Below(o) \subseteq live
  BY DEF Below
<1> QED BY <1>1, <1>2, <1>3 DEF Before, Done

LEMMA DoneLastChild ==
  ASSUME TreeStands, NEW o \in live, right_sibling[o] = NULL, parent[o] # NULL
  PROVE  parent[o] \in live /\ Done(parent[o]) = Done(o)
<1>1. parent[o] \in live
  BY LineageStep
<1>2. ASSUME NEW x \in live
      PROVE  /\ Precedes(x, o) \/ x \in Below(o)
             <=> Precedes(x, parent[o]) \/ x \in Below(parent[o])
  <2>1. \/ UnderOlder(x, o)
        \/ x \in Below(o)
        <=> \E c \in live : parent[c] = parent[o] /\ x \in Below(c)
    BY OlderStep DEF UnderOlder
  <2>2. x \in Below(parent[o]) <=>
          \/ x = parent[o]
          \/ \E c \in live : parent[c] = parent[o] /\ x \in Below(c)
    BY <1>1, BelowStep
  <2>3. Precedes(x, o) <=> \/ x = parent[o] \/ Precedes(x, parent[o])
                           \/ UnderOlder(x, o)
    BY PrecedesStep
  <2> QED BY <2>1, <2>2, <2>3
<1> QED BY <1>1, <1>2 DEF Done, Before, Below

LEMMA BelowLeaf ==
  ASSUME TreeStands, NEW o \in live, first_child[o] = NULL
  PROVE  Below(o) = {o}
<1>1. \A c \in live : parent[c] # o
  BY NoFirstChild DEF TreeStands
<1>2. \A x \in live : x \in Below(o) <=> x = o
  BY <1>1, BelowStep
<1> QED BY <1>2 DEF Below

LEMMA BeforeNobody ==
  ASSUME TreeStands, NEW o \in live, parent[o] = NULL
  PROVE  Done(o) = Below(o)
BY PrecedesStep DEF Done, Before

\* Nothing stands before itself, and no two objects before each other.
LEMMA OlderOneWay ==
  ASSUME TreeStands, NEW b \in live, NEW a \in Older(b)
  PROVE  a \in live /\ a # b /\ b \notin Older(a)
<1>1. a \in live /\ parent[a] = parent[b] /\ parent[b] # NULL
      /\ a \notin Met(Objects, right_sibling, b)
  BY DEF Older
<1>2. b \in Met(Objects, right_sibling, b)
  BY TreePoints, MetClosed
<1>3. ASSUME b \notin Met(Objects, right_sibling, a)
      PROVE  FALSE
  <2> DEFINE f == first_child[parent[b]]
  <2>1. /\ f \in live /\ f \in Objects /\ a \in Met(Objects, right_sibling, f)
        /\ b \in Met(Objects, right_sibling, f)
    BY <1>1, SiblingsInLine, TreePoints
  <2> QED BY <1>1, <1>3, <2>1, TreePoints, MetInLine
<1> QED BY <1>1, <1>2, <1>3 DEF Older

LEMMA PrecedesOneWay ==
  ASSUME TreeStands, NEW x \in live, NEW y \in live, Precedes(x, y)
  PROVE  x # y /\ ~Precedes(y, x)
<1>0. Lineage(x) \subseteq live /\ Lineage(y) \subseteq live
  BY LineageStep
\* Siblings do not both have an object of the same lineage below them.
<1>1. ASSUME NEW z \in live, NEW a \in Lineage(z), NEW b \in Lineage(z),
             a \in Older(b)
      PROVE  FALSE
  <2>1. parent[a] = parent[b] /\ parent[a] # NULL /\ b \in live
    BY <1>1, LineageStep DEF Older
  <2> QED BY <1>1, <2>1, SiblingsApart, OlderOneWay
<1>2. x # y
  BY <1>1 DEF Precedes
<1>3. CASE x \in Lineage(y) \ {y}
  <2>1. Lineage(x) \subseteq Lineage(y)
    BY <1>3, LineageFurther
  <2> QED BY <1>1, <1>2, <1>3, <2>1, LineageOneWay DEF Precedes
<1>4. CASE x \notin Lineage(y)
  <2>1. PICK a \in Lineage(x), b \in Lineage(y) :
          parent[a] = parent[b] /\ a \in Older(b)
    BY <1>4 DEF Precedes
  <2>2. a \in live /\ b \in live /\ parent[b] # NULL /\ parent[b] \in live
    BY <1>0, <2>1, LineageStep DEF Older
  <2>3. CASE y \in Lineage(x)
    <3>1. b \in Lineage(x)
      BY <2>3, LineageFurther
    <3> QED BY <1>1, <2>1, <3>1
  <2>4. ASSUME NEW d \in Lineage(y), NEW c \in Lineage(x),
               parent[d] = parent[c], d \in Older(c)
        PROVE  FALSE
    <3>1. c \in live /\ d \in live /\ parent[c] # NULL
      BY <1>0, <2>4 DEF Older
    <3>2. c \in Lineage(a) \/ a \in Lineage(c)
      BY LineageInLine
    <3>3. CASE c = a
      <4>1. b = d
        BY <2>1, <2>2, <2>4, <3>3, SiblingsApart
      <4> QED BY <2>1, <2>2, <2>4, <3>3, <4>1, OlderOneWay
    <3>4. CASE c \in Lineage(a) /\ c # a
      <4>1. c \in Lineage(parent[b])
        BY <2>1, <2>2, <3>4, LineageStep
      <4>2. parent[b] \in Lineage(b) /\ parent[b] \in live
        BY <2>2, LineageStep
      <4>3. c \in Lineage(b)
        BY <2>2, <4>1, <4>2, LineageFurther
      <4>4. c \in Lineage(y)
        BY <2>1, <4>3, LineageFurther
      <4> QED BY <1>1, <2>4, <4>4
    <3>5. CASE a \in Lineage(c) /\ c # a
      <4>1. a \in Lineage(parent[d]) /\ parent[d] \in live
        BY <2>4, <3>1, <3>5, LineageStep
      <4>2. parent[d] \in Lineage(d)
        BY <2>4, <3>1, <4>1, LineageStep
      <4>3. a \in Lineage(d)
        BY <3>1, <4>1, <4>2, LineageFurther
      <4>4. a \in Lineage(y)
        BY <2>4, <4>3, LineageFurther
      <4> QED BY <1>1, <2>1, <4>4
    <3> QED BY <3>2, <3>3, <3>4, <3>5
  <2> QED BY <1>2, <2>3, <2>4 DEF Precedes
<1> QED BY <1>2, <1>3, <1>4 DEF Precedes

-----------------------------------------------------------------------------
(* Searching.  What a search has passed is always what stands, in its      *)
(* scope, before the object it is at; after a visit that object too.       *)

LEMMA LevelsGrow ==
  ASSUME TreeStands, Wrong = {}, NEW x \in live, NEW o \in Lineage(x), o # x
  PROVE  level[o] < level[x]
<1> DEFINE S == {y \in live : y = x \/ level[y] < level[x]}
<1>1. S \in SUBSET Objects /\ x \in S
  BY TreePoints
<1>2. ASSUME NEW y \in S, parent[y] # NULL
      PROVE  parent[y] \in S
  <2>1. parent[y] \in live /\ level[y] = level[parent[y]] + 1
    BY <1>2, LineageStep DEF Wrong
  <2>2. level[y] \in Nat /\ level[parent[y]] \in Nat /\ level[x] \in Nat
    BY <2>1, TreePoints DEF TreeStands, TypeOK
  <2> QED BY <2>1, <2>2
<1>3. ClosedUnder(parent, S)
  BY <1>2 DEF ClosedUnder
<1>4. o \in S
  <2> HIDE DEF S
  <2> QED BY <1>1, <1>3, MetLeast DEF Lineage
<1> QED BY <1>4

\* Objects on the right of each other have the same parent.
LEMMA RightSameParent ==
  ASSUME TreeStands, NEW o \in live, NEW x \in Met(Objects, right_sibling, o)
  PROVE  x \in live /\ parent[x] = parent[o] /\ (x # o => parent[o] # NULL)
<1> DEFINE S == {y \in live : parent[y] = parent[o]}
<1>1. S \in SUBSET Objects /\ o \in S /\ ClosedUnder(right_sibling, S)
  BY TreePoints, RightLinks DEF ClosedUnder
<1>2. x \in S
  <2> HIDE DEF S
  <2> QED BY <1>1, MetLeast
<1>3. ASSUME x # o PROVE parent[o] # NULL
  <2>1. right_sibling[o] # NULL
    BY <1>3, TreePoints, MetStep
  <2> QED BY <2>1, RightLinks
<1> QED BY <1>2, <1>3

LEMMA RightPrecedes ==
  ASSUME TreeStands, NEW o \in live, NEW x \in Met(Objects, right_sibling, o),
         x # o
  PROVE  Precedes(o, x)
<1>1. x \in live /\ parent[x] = parent[o] /\ parent[o] # NULL
  BY RightSameParent
<1>2. o \notin Met(Objects, right_sibling, x)
  BY RightOneWay
<1>3. o \in Older(x) /\ o \in Lineage(o) /\ x \in Lineage(x)
  BY <1>1, <1>2, LineageStep DEF Older
<1> QED BY <1>1, <1>3 DEF Precedes

\* A scope has the object it begins with, and none that stands before it.
LEMMA ScopeFollows ==
  ASSUME TreeStands, NEW o \in live, NEW s \in Scopes
  PROVE  /\ o \in InScope(o, s)
         /\ \A x \in InScope(o, s) : x \in live /\ (x = o \/ Precedes(o, x))
<1>1. s \in {"RECURSIVE_DOWN", "TO_END", "CHILDREN_ONLY", "SIBLINGS_ONLY",
             "THIS_OBJECT"}
  BY DEF Scopes
<1>2. CASE s = "THIS_OBJECT" \/ s = "TO_END"
  BY <1>2 DEF InScope
<1>3. CASE s = "CHILDREN_ONLY"
  <2>1. ASSUME NEW x \in live, parent[x] = o
        PROVE  Precedes(o, x)
    BY <2>1, PrecedesStep, TreePoints
  <2> QED BY <1>3, <2>1 DEF InScope
<1>4. CASE s = "SIBLINGS_ONLY"
  <2>1. o \in Met(Objects, right_sibling, o)
    BY TreePoints, MetClosed
  <2> QED BY <1>4, <2>1, RightSameParent, RightPrecedes DEF InScope
<1>5. CASE s = "RECURSIVE_DOWN"
  <2>1. o \in Below(o)
    BY DoneHolds
  <2> QED BY <1>5, <2>1 DEF InScope, Below, Precedes
<1> QED BY <1>1, <1>2, <1>3, <1>4, <1>5

LEMMA NothingPassed ==
  ASSUME TreeStands, NEW o \in live, NEW s \in Scopes
  PROVE  InScope(o, s) \cap Before(o) = {}
BY ScopeFollows, PrecedesOneWay DEF Before

\* Below the top of a tree is all that follows what stands there.
LEMMA RestOfTree ==
  ASSUME TreeStands, NEW o \in live, NEW t \in live, parent[t] = NULL,
         o \in Done(t)
  PROVE  InScope(o, "TO_END") \subseteq Done(t)
<1>1. t \in Lineage(o)
  BY BeforeNobody DEF Below
<1>2. ASSUME NEW x \in live, Precedes(o, x)
      PROVE  t \in Lineage(x)
  <2>1. CASE o \in Lineage(x)
    BY <1>1, <2>1, LineageFurther
  <2>2. CASE o \notin Lineage(x)
    <3>1. PICK a \in Lineage(o), b \in Lineage(x) : a \in Older(b)
      BY <1>2, <2>2 DEF Precedes
    <3>2. /\ a \in live /\ b \in live /\ parent[a] = parent[b]
          /\ parent[a] # NULL
      BY <3>1, LineageStep DEF Older
    <3>3. t \in Lineage(a) \/ a \in Lineage(t)
      BY <1>1, <3>1, LineageInLine
    <3>4. t \in Lineage(a) /\ t # a
      BY <3>2, <3>3, LineageStep
    <3>5. t \in Lineage(parent[b])
      BY <3>2, <3>4, LineageStep
    <3>6. t \in Lineage(b)
      BY <3>2, <3>5, LineageStep
    <3> QED BY <3>1, <3>6, LineageFurther
  <2> QED BY <2>1, <2>2
<1>3. \A x \in InScope(o, "TO_END") : x \in live /\ t \in Lineage(x)
  BY <1>1, <1>2 DEF InScope
<1> QED BY <1>3 DEF Done, Below

\* A walk for scope s visits o, and goes on by scope t.
VisitsIn(o, t, s) ==
  /\ o \in InScope(start, s)
  /\ \/ t = s /\ s \in {"THIS_OBJECT", "RECURSIVE_DOWN", "TO_END"}
     \/ t = s /\ s = "CHILDREN_ONLY" /\ o = start
     \/ /\ t = "SIBLINGS_ONLY" /\ s \in {"CHILDREN_ONLY", "SIBLINGS_ONLY"}
        /\ s = "CHILDREN_ONLY" => parent[o] = start
        /\ InScope(start, s)
             \subseteq Before(o) \cup Met(Objects, right_sibling, o)

\* It climbs, and o and what is below it are done.
ClimbsIn(o, s) ==
  /\ o \in live
  /\ \/ /\ s = "RECURSIVE_DOWN"
        /\ \/ o \in Below(start)
           \/ level[o] < level[start] /\ InScope(start, s) \subseteq Done(o)
     \/ s = "TO_END" /\ start \in Done(o)

Stands(s) ==
  /\ pc = "visit" => VisitsIn(obj, scope, s)
  /\ pc = "climb" => /\ scope = s /\ s \in {"RECURSIVE_DOWN", "TO_END"}
                     /\ obj = NULL \/ ClimbsIn(obj, s)

\* The objects of scope s it has passed.
Passed(s) ==
  IF obj = NULL THEN InScope(start, s)
  ELSE InScope(start, s) \cap (IF pc = "visit" THEN Before(obj) ELSE Done(obj))

Searched(s) ==
  /\ TreeStands /\ Wrong = {} /\ s \in Scopes /\ start \in live
  /\ call = "find" /\ ~EscapesSubtree(s)

SameTree == UNCHANGED <<links, level, start>>

\* What a step that changes no link arrives at.
LEMMA OrderKept ==
  ASSUME UNCHANGED links, NEW o, NEW x
  PROVE  /\ Precedes(x, o)' <=> Precedes(x, o)
         /\ Below(o)' = Below(o) /\ Before(o)' = Before(o) /\ Done(o)' = Done(o)
         /\ \A s : InScope(o, s)' = InScope(o, s)
<1>1. ASSUME NEW y PROVE Lineage(y)' = Lineage(y) /\ Older(y)' = Older(y)
  BY DEF links, Lineage, Older
<1>2. ASSUME NEW y, NEW z PROVE Precedes(y, z)' <=> Precedes(y, z)
  BY <1>1 DEF links, Precedes
<1>3. Below(o)' = Below(o) /\ Before(o)' = Before(o)
  BY <1>1, <1>2 DEF links, Below, Before
<1> QED BY <1>2, <1>3 DEF links, InScope, Done

LEMMA Arrives ==
  ASSUME SameTree, NEW s, NEW o, NEW t, obj' = o, scope' = t
  PROVE  /\ o = NULL => Passed(s)' = InScope(start, s)
         /\ o # NULL /\ pc' = "visit" =>
              Passed(s)' = InScope(start, s) \cap Before(o)
         /\ o # NULL /\ pc' = "climb" =>
              Passed(s)' = InScope(start, s) \cap Done(o)
         /\ pc' = "visit" => (Stands(s)' <=> VisitsIn(o, t, s))
         /\ pc' = "climb" =>
              (Stands(s)' <=> /\ t = s /\ s \in {"RECURSIVE_DOWN", "TO_END"}
                              /\ o = NULL \/ ClimbsIn(o, s))
         /\ pc' = "return" => Stands(s)'
<1>1. PICK b : b = start
  OBVIOUS
<1>2. /\ UNCHANGED links /\ start' = b /\ parent' = parent /\ level' = level
      /\ right_sibling' = right_sibling /\ live' = live
  BY <1>1 DEF SameTree, links
<1>3. /\ InScope(b, s)' = InScope(b, s) /\ Below(b)' = Below(b)
      /\ Before(o)' = Before(o) /\ Done(o)' = Done(o)
  BY <1>2, OrderKept
<1>4. InScope(start, s)' = InScope(b, s) /\ Below(start)' = Below(b)
  BY <1>2, <1>3
<1>5. Before(obj)' = Before(o) /\ Done(obj)' = Done(o)
  BY <1>3
<1>6. Passed(s)' = IF o = NULL THEN InScope(b, s)
                   ELSE InScope(b, s) \cap (IF pc' = "visit" THEN Before(o)
                                            ELSE Done(o))
  BY <1>4, <1>5 DEF Passed
<1>7. VisitsIn(obj, scope, s)' <=> VisitsIn(o, t, s)
  BY <1>1, <1>2, <1>4, <1>5 DEF VisitsIn
<1>8. ClimbsIn(obj, s)' <=> ClimbsIn(o, s)
  BY <1>1, <1>2, <1>4, <1>5 DEF ClimbsIn
<1> QED BY <1>1, <1>6, <1>7, <1>8 DEF Stands

\* A step of a walk for scope s after which P is passed: it visits another
\* object, climbs, or has come to the end of its scope.
Moves(s, P) ==
  /\ Passed(s)' = P /\ Stands(s)'
  /\ \/ pc' \in {"visit", "climb"}
     \/ pc' = "return" /\ found_object' = NULL /\ P = InScope(start, s)

\* From `here', where nothing is left to search but its right siblings.
LEMMA GoesRight ==
  ASSUME NEW s, Searched(s), SameTree, scope' = "SIBLINGS_ONLY",
         obj \in live, pc = "visit", s \in {"CHILDREN_ONLY", "SIBLINGS_ONLY"},
         s = "CHILDREN_ONLY" => parent[obj] = start,
         obj \in InScope(start, s),
         InScope(start, s)
           \subseteq Before(obj) \cup Met(Objects, right_sibling, obj),
         GoTo(right_sibling[obj])
  PROVE  Moves(s, Passed(s) \cup {obj})
<1>1. PICK r : r = right_sibling[obj]
  OBVIOUS
<1>2. /\ TreeStands /\ start \in live /\ call = "find"
      /\ Passed(s) = InScope(start, s) \cap Before(obj)
  BY TreePoints DEF Searched, Passed
<1>3. CASE r = NULL
  <2>1. Met(Objects, right_sibling, obj) = {obj}
    <3>1. Points(Objects, right_sibling) /\ obj \in Objects
      BY <1>2, TreePoints
    <3>2. right_sibling[obj] = NULL
      BY <1>1, <1>3
    <3> QED BY <3>1, <3>2, MetStep
  <2>2. InScope(start, s) = Passed(s) \cup {obj}
    BY <1>2, <2>1
  <2>3. obj' = NULL /\ pc' = "return" /\ found_object' = NULL
    BY <1>1, <1>2, <1>3 DEF GoTo, Leave
  <2> QED BY <2>2, <2>3, Arrives DEF Moves
<1>4. CASE r # NULL
  <2>1. obj' = r /\ pc' = "visit"
    BY <1>1, <1>4 DEF GoTo, Visiting
  <2>2. r \in live /\ parent[r] = parent[obj] /\ Before(r) = Done(obj)
    BY <1>1, <1>2, <1>4, BeforeRightSibling
  <2>3. /\ Met(Objects, right_sibling, obj)
             = {obj} \cup Met(Objects, right_sibling, r)
        /\ obj \in Below(obj)
    BY <1>1, <1>2, <1>4, TreePoints, MetStep, DoneHolds
  <2>4. r \in InScope(start, s)
    <3>1. CASE s = "CHILDREN_ONLY"
      BY <2>2, <3>1 DEF InScope
    <3>2. CASE s = "SIBLINGS_ONLY"
      <4>1. ClosedUnder(right_sibling, Met(Objects, right_sibling, start))
        BY <1>2, TreePoints, MetClosed
      <4> QED BY <1>1, <1>4, <3>2, <4>1 DEF InScope, ClosedUnder
    <3> QED BY <3>1, <3>2
  <2>5. InScope(start, s) \cap Below(obj) \subseteq {obj}
    <3> SUFFICES ASSUME NEW x \in InScope(start, s), x \in Below(obj), x # obj
                 PROVE  FALSE
      OBVIOUS
    <3>1. x \in live /\ obj \in Lineage(x) /\ x \in Lineage(x)
      BY <1>2, LineageStep DEF Below
    <3>2. CASE parent[x] = parent[obj] /\ parent[x] # NULL
      BY <1>2, <3>1, <3>2, SiblingsApart
    <3>3. CASE s = "CHILDREN_ONLY"
      <4>1. x = start \/ parent[x] = start
        BY <3>3 DEF InScope
      <4>2. parent[obj] = start /\ start # NULL
        BY <1>2, <3>3, TreePoints
      <4>3. CASE x = start
        BY <1>2, <3>1, <4>2, <4>3, LineageEnds
      <4> QED BY <3>2, <4>1, <4>2, <4>3
    <3>4. CASE s = "SIBLINGS_ONLY"
      <4>1. /\ x \in Met(Objects, right_sibling, start)
            /\ obj \in Met(Objects, right_sibling, start)
        BY <3>4 DEF InScope
      <4>2. /\ parent[x] = parent[start] /\ parent[obj] = parent[start]
            /\ x # start => parent[start] # NULL
            /\ obj # start => parent[start] # NULL
        BY <1>2, <4>1, RightSameParent
      <4> QED BY <3>2, <4>2
    <3> QED BY <3>3, <3>4
  <2>6. InScope(start, s) \cap Before(r) = Passed(s) \cup {obj}
    BY <1>2, <2>2, <2>3, <2>5 DEF Done
  <2>7. VisitsIn(r, "SIBLINGS_ONLY", s)
    <3>1. InScope(start, s)
            \subseteq Before(r) \cup Met(Objects, right_sibling, r)
      BY <2>2, <2>3 DEF Done
    <3> QED BY <2>2, <2>4, <3>1 DEF VisitsIn
  <2>8. r # NULL
    BY <1>4
  <2> QED BY <2>1, <2>6, <2>7, <2>8, Arrives DEF Moves
<1> QED BY <1>3, <1>4

LEMMA GoesToChildren ==
  ASSUME Searched("CHILDREN_ONLY"), SameTree, scope' = "SIBLINGS_ONLY",
         obj = start, pc = "visit", GoTo(first_child[obj])
  PROVE  Moves("CHILDREN_ONLY", Passed("CHILDREN_ONLY") \cup {obj})
<1> DEFINE s == "CHILDREN_ONLY"
<1>1. PICK c : c = first_child[obj]
  OBVIOUS
<1>2. /\ TreeStands /\ start \in live /\ call = "find" /\ s \in Scopes
      /\ Passed(s) = InScope(start, s) \cap Before(obj)
  BY TreePoints DEF Searched, Passed
<1>3. Passed(s) = {}
  BY <1>2, NothingPassed
<1>4. InScope(start, s) = {start} \cup {x \in live : parent[x] = start}
  BY DEF InScope
<1>5. CASE c = NULL
  <2>1. \A y \in live : parent[y] # start
    BY <1>1, <1>2, <1>5, NoFirstChild DEF TreeStands
  <2>2. InScope(start, s) = Passed(s) \cup {obj}
    BY <1>3, <1>4, <2>1
  <2>3. obj' = NULL /\ pc' = "return" /\ found_object' = NULL
    BY <1>1, <1>2, <1>5 DEF GoTo, Leave
  <2> QED BY <2>2, <2>3, Arrives DEF Moves
<1>6. CASE c # NULL
  <2>1. obj' = c /\ pc' = "visit"
    BY <1>1, <1>6 DEF GoTo, Visiting
  <2>2. c \in live /\ parent[c] = start /\ Before(c) = Before(obj) \cup {obj}
    BY <1>1, <1>2, <1>6, BeforeFirstChild
  <2>3. InScope(start, s) \cap Before(c) = Passed(s) \cup {obj}
    BY <1>2, <1>4, <2>2
  <2>4. ASSUME NEW x \in live, parent[x] = start
        PROVE  x \in Met(Objects, right_sibling, c)
    BY <1>1, <1>2, <2>4, SiblingsInLine, TreePoints
  <2>5. VisitsIn(c, "SIBLINGS_ONLY", s)
    BY <1>4, <2>2, <2>4 DEF VisitsIn
  <2>6. c # NULL
    BY <1>6
  <2> QED BY <2>1, <2>3, <2>5, <2>6, Arrives DEF Moves
<1> QED BY <1>5, <1>6

\* A search downwards or to the end of the label, from an object it visits.
LEMMA GoesOn ==
  ASSUME NEW s, Searched(s), SameTree, s \in {"RECURSIVE_DOWN", "TO_END"},
         scope' = s, obj \in live, pc = "visit", obj \in InScope(start, s),
         TraverseTree
  PROVE  Moves(s, Passed(s) \cup {obj})
<1>1. /\ TreeStands /\ Wrong = {} /\ start \in live /\ ~EscapesSubtree(s)
      /\ Passed(s) = InScope(start, s) \cap Before(obj) /\ s \in Scopes
  BY TreePoints DEF Searched, Passed
<1>2. start \in Before(obj) \/ start = obj \/ s = "RECURSIVE_DOWN"
  BY <1>1, ScopeFollows DEF Before
<1>3. PICK c, r, p : c = first_child[obj] /\ r = right_sibling[obj] /\ p = parent[obj]
  OBVIOUS
\* What a step downwards or to the right comes to is in the scope.
<1>4. ASSUME NEW x \in live, Before(x) = Before(obj) \cup {obj},
             s = "RECURSIVE_DOWN" => start \in Lineage(x)
      PROVE  /\ VisitsIn(x, s, s)
             /\ InScope(start, s) \cap Before(x) = Passed(s) \cup {obj}
  <2>1. x \in InScope(start, s)
    <3>1. CASE s = "RECURSIVE_DOWN"
      BY <1>4, <3>1 DEF InScope, Below
    <3>2. CASE s = "TO_END"
      BY <1>2, <1>4, <3>2 DEF InScope, Before
    <3> QED BY <3>1, <3>2
  <2> QED BY <1>1, <1>4, <2>1 DEF VisitsIn
<1>5. ASSUME NEW x \in live, obj' = x, pc' = "visit",
             Before(x) = Before(obj) \cup {obj},
             s = "RECURSIVE_DOWN" => start \in Lineage(x)
      PROVE  Moves(s, Passed(s) \cup {obj})
  <2>1. x # NULL
    BY <1>1, TreePoints
  <2> QED BY <1>4, <1>5, <2>1, Arrives DEF Moves
<1>6. s = "RECURSIVE_DOWN" => start \in Lineage(obj)
  BY DEF InScope, Below
<1>7. CASE c # NULL
  <2>1. obj' = c /\ pc' = "visit"
    BY <1>3, <1>7 DEF TraverseTree, Visiting
  <2>2. c \in live /\ parent[c] = obj /\ Before(c) = Before(obj) \cup {obj}
    BY <1>1, <1>3, <1>7, BeforeFirstChild
  <2>3. Lineage(c) = {c} \cup Lineage(obj)
    BY <1>1, <2>2, LineageStep, TreePoints
  <2> QED BY <1>5, <1>6, <2>1, <2>2, <2>3
<1>8. ASSUME c = NULL, start # obj, s = "RECURSIVE_DOWN"
      PROVE  p \in live /\ start \in Lineage(p)
  BY <1>1, <1>3, <1>6, <1>8, LineageStep
<1>9. CASE c = NULL /\ r # NULL
  <2>1. obj' = r /\ pc' = "visit"
    BY <1>3, <1>9 DEF TraverseTree, Visiting
  <2>2. r \in live /\ parent[r] = p /\ Before(r) = Done(obj)
    BY <1>1, <1>3, <1>9, BeforeRightSibling
  <2>3. Before(r) = Before(obj) \cup {obj}
    BY <1>1, <1>3, <1>9, <2>2, BelowLeaf DEF Done
  <2>4. ASSUME s = "RECURSIVE_DOWN" PROVE start \in Lineage(r)
    <3>1. start # obj
      BY <1>1, <1>3, <1>9, <2>4 DEF EscapesSubtree
    <3>2. p \in live /\ start \in Lineage(p)
      BY <1>8, <1>9, <2>4, <3>1
    <3> QED BY <1>1, <2>2, <3>2, LineageStep, TreePoints
  <2> QED BY <1>5, <2>1, <2>2, <2>3, <2>4
<1>10. CASE c = NULL /\ r = NULL
  <2>1. obj' = p /\ pc' = "climb"
    BY <1>3, <1>10 DEF TraverseTree
  <2>2. Done(obj) = Before(obj) \cup {obj} /\ Below(obj) = {obj}
    BY <1>1, <1>3, <1>10, BelowLeaf DEF Done
  <2>3. InScope(start, s) \cap Done(obj) = Passed(s) \cup {obj}
    BY <1>1, <2>2
  <2>4. start \in Done(obj) \/ s = "RECURSIVE_DOWN"
    BY <1>2, <2>2
  <2>5. CASE p = NULL
    <3>1. InScope(start, s) \subseteq Done(obj)
      <4>1. CASE s = "TO_END"
        BY <1>1, <1>3, <2>4, <2>5, <4>1, RestOfTree
      <4>2. CASE s = "RECURSIVE_DOWN"
        <5>1. start = obj
          BY <1>1, <1>3, <1>6, <2>5, <4>2, LineageStep
        <5> QED BY <2>2, <4>2, <5>1 DEF InScope
      <4> QED BY <4>1, <4>2
    <3>2. Passed(s)' = Passed(s) \cup {obj} /\ Stands(s)'
      BY <2>1, <2>3, <2>5, <3>1, Arrives
    <3> QED BY <2>1, <3>2 DEF Moves
  <2>6. CASE p # NULL
    <3>1. p \in live /\ Done(p) = Done(obj)
      BY <1>1, <1>3, <1>10, <2>6, DoneLastChild
    <3>2. ClimbsIn(p, s)
      <4>1. CASE s = "TO_END"
        BY <2>4, <3>1, <4>1 DEF ClimbsIn
      <4>2. CASE s = "RECURSIVE_DOWN" /\ start = obj
        <5>1. InScope(start, s) \subseteq Done(p)
          BY <2>2, <3>1, <4>2 DEF InScope
        <5>2. p \in Lineage(obj) /\ p # obj
          BY <1>1, <1>3, <2>6, <3>1, LineageStep, LineageEnds
        <5>3. level[p] < level[start]
          BY <1>1, <4>2, <5>2, LevelsGrow
        <5> QED BY <3>1, <4>2, <5>1, <5>3 DEF ClimbsIn
      <4>3. CASE s = "RECURSIVE_DOWN" /\ start # obj
        BY <1>8, <1>10, <3>1, <4>3 DEF ClimbsIn, Below
      <4> QED BY <4>1, <4>2, <4>3
    <3>3. Passed(s)' = Passed(s) \cup {obj} /\ Stands(s)'
      BY <2>1, <2>3, <2>6, <3>1, <3>2, Arrives
    <3> QED BY <2>1, <3>3 DEF Moves
  <2> QED BY <2>5, <2>6
<1> QED BY <1>7, <1>9, <1>10

\* OdlNextObjDesc passes the object the walk is at, and no other.
LEMMA NextObjDescMoves ==
  ASSUME NEW s, Searched(s), Stands(s), pc = "visit", obj \in live,
         UNCHANGED <<links, level>>, OdlNextObjDesc
  PROVE  /\ start' = start /\ Moves(s, Passed(s) \cup {obj})
         /\ obj \in InScope(start, s) /\ obj \notin Passed(s)
<1>1. VisitsIn(obj, scope, s) /\ TreeStands /\ call = "find"
  BY DEF Stands, Searched
<1>2. SameTree
  BY <1>1 DEF SameTree, OdlNextObjDesc, Leave, GoTo, TraverseTree
<1>3. obj \in InScope(start, s) /\ obj \notin Passed(s)
  BY <1>1, PrecedesOneWay, TreePoints DEF VisitsIn, Passed, Before
<1>4. CASE s = "THIS_OBJECT"
  <2>1. InScope(start, s) = {obj}
    BY <1>3, <1>4 DEF InScope
  <2>2. obj' = NULL /\ pc' = "return" /\ found_object' = NULL
    BY <1>1, <1>4 DEF VisitsIn, OdlNextObjDesc, Leave
  <2>3. InScope(start, s) = Passed(s) \cup {obj}
    BY <1>3, <2>1 DEF Passed
  <2> QED BY <1>2, <1>3, <2>2, <2>3, Arrives DEF Moves, SameTree
<1>5. CASE s \in {"RECURSIVE_DOWN", "TO_END"}
  <2>1. scope = s /\ scope' = s /\ TraverseTree
    BY <1>1, <1>5 DEF VisitsIn, OdlNextObjDesc, NextScope
  <2> QED BY <1>2, <1>3, <1>5, <2>1, GoesOn DEF SameTree
<1>6. CASE s = "CHILDREN_ONLY" /\ scope = s
  <2>1. obj = start /\ scope' = "SIBLINGS_ONLY" /\ GoTo(first_child[obj])
    BY <1>1, <1>6 DEF VisitsIn, OdlNextObjDesc, NextScope
  <2> QED BY <1>2, <1>3, <1>6, <2>1, GoesToChildren DEF SameTree
<1>7. CASE s \in {"CHILDREN_ONLY", "SIBLINGS_ONLY"} /\ scope = "SIBLINGS_ONLY"
  <2>1. /\ s = "CHILDREN_ONLY" => parent[obj] = start
        /\ InScope(start, s)
             \subseteq Before(obj) \cup Met(Objects, right_sibling, obj)
    BY <1>1, <1>7 DEF VisitsIn
  <2>2. scope' = "SIBLINGS_ONLY" /\ GoTo(right_sibling[obj])
    BY <1>7 DEF OdlNextObjDesc, NextScope
  <2> QED BY <1>2, <1>3, <1>7, <2>1, <2>2, GoesRight DEF SameTree
<1> QED BY <1>1, <1>4, <1>5, <1>6, <1>7 DEF VisitsIn

\* A climb passes nothing.
LEMMA ClimbMoves ==
  ASSUME NEW s, Searched(s), Stands(s), Climb
  PROVE  start' = start /\ Moves(s, Passed(s))
<1>1. /\ TreeStands /\ Wrong = {} /\ start \in live /\ call = "find"
      /\ pc = "climb" /\ scope = s /\ s \in {"RECURSIVE_DOWN", "TO_END"}
      /\ obj = NULL \/ ClimbsIn(obj, s)
  BY DEF Searched, Stands, Climb
<1>2. SameTree /\ scope' = s
  BY <1>1 DEF SameTree, Climb, Leave
<1>3. start' = start
  BY <1>2 DEF SameTree
<1>4. CASE obj = NULL
  <2>1. obj' = NULL /\ pc' = "return" /\ found_object' = NULL
    BY <1>1, <1>4 DEF Climb, ClimbEnds, Leave
  <2>2. Passed(s) = InScope(start, s)
    BY <1>4 DEF Passed
  <2> QED BY <1>2, <1>3, <2>1, <2>2, Arrives DEF Moves
<1>5. CASE obj # NULL
  <2>1. ClimbsIn(obj, s) /\ obj \in live
    BY <1>1, <1>5 DEF ClimbsIn
  <2>2. Passed(s) = InScope(start, s) \cap Done(obj)
    BY <1>1, <1>5 DEF Passed
  <2>3. /\ level[obj] \in Nat /\ level[start] \in Nat
        /\ parent[obj] # NULL => parent[obj] \in live
        /\ \A x \in live : parent[x] # NULL =>
             parent[x] \in live /\ level[x] = level[parent[x]] + 1
    BY <1>1, <2>1, TreePoints, LineageStep DEF TreeStands, TypeOK, Wrong
  <2>4. ASSUME parent[obj] = NULL, s = "TO_END"
        PROVE  InScope(start, s) \subseteq Done(obj)
    BY <1>1, <2>1, <2>4, RestOfTree DEF ClimbsIn
  <2>5. CASE ClimbEnds
    <3>1. InScope(start, s) \subseteq Done(obj)
      <4>1. CASE s = "TO_END"
        <5>1. level[obj] <= 0
          BY <1>1, <1>5, <2>5, <4>1 DEF ClimbEnds, RootLevel
        <5>2. parent[obj] = NULL
          <6> SUFFICES ASSUME parent[obj] # NULL PROVE FALSE
            OBVIOUS
          <6>1. level[obj] = level[parent[obj]] + 1 /\ level[parent[obj]] \in Nat
            BY <1>1, <2>1, <2>3, TreePoints DEF TreeStands, TypeOK
          <6> QED BY <5>1, <6>1
        <5> QED BY <2>4, <4>1, <5>2
      <4>2. CASE s = "RECURSIVE_DOWN"
        <5>1. level[obj] <= level[start]
          BY <1>1, <1>5, <2>5, <4>2 DEF ClimbEnds, RootLevel
        <5>2. CASE obj \in Below(start)
          <6>1. start = obj \/ level[start] < level[obj]
            BY <1>1, <2>1, <5>2, LevelsGrow DEF Below
          <6>2. start = obj
            BY <2>3, <5>1, <6>1
          <6> QED BY <4>2, <6>2 DEF InScope, Done
        <5> QED BY <2>1, <4>2, <5>2 DEF ClimbsIn
      <4> QED BY <1>1, <4>1, <4>2
    <3>2. obj' = NULL /\ pc' = "return" /\ found_object' = NULL
      BY <1>1, <2>5 DEF Climb, Leave
    <3>3. Passed(s) = InScope(start, s)
      BY <2>2, <3>1
    <3> QED BY <1>2, <1>3, <3>2, <3>3, Arrives DEF Moves
  <2>6. CASE ~ClimbEnds
    <3>1. ASSUME s = "RECURSIVE_DOWN"
          PROVE  /\ obj \in Below(start) /\ parent[obj] # NULL
                 /\ start \in Lineage(parent[obj])
      <4>1. ~(level[obj] <= level[start])
        BY <1>1, <1>5, <2>6, <3>1 DEF ClimbEnds, RootLevel
      <4>2. obj \in Below(start) /\ start # obj
        BY <2>1, <2>3, <3>1, <4>1 DEF ClimbsIn
      <4> QED BY <1>1, <2>1, <4>2, LineageStep DEF Below
    <3>2. CASE right_sibling[obj] # NULL
      <4>1. PICK r : r = right_sibling[obj]
        OBVIOUS
      <4>2. obj' = r /\ pc' = "visit"
        BY <1>1, <2>6, <3>2, <4>1 DEF Climb, Visiting
      <4>3. r \in live /\ parent[r] = parent[obj] /\ Before(r) = Done(obj)
        BY <1>1, <2>1, <3>2, <4>1, BeforeRightSibling
      <4>4. r \in InScope(start, s)
        <5>1. CASE s = "TO_END"
          BY <2>1, <4>3, <5>1 DEF ClimbsIn, InScope, Before
        <5>2. CASE s = "RECURSIVE_DOWN"
          <6>1. start \in Lineage(r)
            BY <1>1, <3>1, <4>3, <5>2, LineageStep
          <6> QED BY <4>3, <5>2, <6>1 DEF InScope, Below
        <5> QED BY <1>1, <5>1, <5>2
      <4>5. VisitsIn(r, s, s) /\ r # NULL
        BY <1>1, <3>2, <4>1, <4>4 DEF VisitsIn
      <4>6. Passed(s)' = Passed(s) /\ Stands(s)'
        BY <1>2, <2>2, <4>2, <4>3, <4>5, Arrives
      <4> QED BY <1>3, <4>2, <4>6 DEF Moves
    <3>3. CASE right_sibling[obj] = NULL
      <4>1. PICK p : p = parent[obj]
        OBVIOUS
      <4>2. obj' = p /\ pc' = "climb"
        BY <1>1, <2>6, <3>3, <4>1 DEF Climb
      <4>3. CASE p = NULL
        <5>1. InScope(start, s) = Passed(s)
          BY <1>1, <2>2, <2>4, <3>1, <4>1, <4>3
        <5>2. Passed(s)' = Passed(s) /\ Stands(s)'
          BY <1>1, <1>2, <4>2, <4>3, <5>1, Arrives
        <5> QED BY <1>3, <4>2, <5>2 DEF Moves
      <4>4. CASE p # NULL
        <5>1. p \in live /\ Done(p) = Done(obj)
          BY <1>1, <2>1, <3>3, <4>1, <4>4, DoneLastChild
        <5>2. ClimbsIn(p, s)
          BY <1>1, <2>1, <3>1, <4>1, <5>1 DEF ClimbsIn, Below
        <5>3. Passed(s)' = Passed(s) /\ Stands(s)'
          BY <1>1, <1>2, <2>2, <4>2, <4>4, <5>1, <5>2, Arrives
        <5> QED BY <1>3, <4>2, <5>3 DEF Moves
      <4> QED BY <4>3, <4>4
    <3> QED BY <3>2, <3>3
  <2> QED BY <2>5, <2>6
<1> QED BY <1>4, <1>5

LEMMA Begins ==
  ASSUME TreeStands, NEW s \in Scopes, NEW o \in live, UNCHANGED links,
         start' = o, obj' = o, scope' = s, pc' = "visit"
  PROVE  Stands(s)' /\ Passed(s)' = {}
<1>1. /\ InScope(o, s)' = InScope(o, s) /\ Before(o)' = Before(o)
      /\ right_sibling' = right_sibling /\ parent' = parent
  BY OrderKept DEF links
<1>2. o \in InScope(o, s) /\ InScope(o, s) \cap Before(o) = {} /\ o # NULL
  BY ScopeFollows, NothingPassed, TreePoints
<1>3. InScope(start, s)' = InScope(o, s) /\ Before(obj)' = Before(o)
  BY <1>1
<1>4. Passed(s)' = {}
  BY <1>2, <1>3 DEF Passed
<1>5. VisitsIn(obj, scope, s)'
  <2>1. s = "SIBLINGS_ONLY" =>
          InScope(o, s) = Met(Objects, right_sibling, o)
    BY DEF InScope
  <2> QED BY <1>1, <1>2, <1>3, <2>1 DEF VisitsIn, Scopes
<1> QED BY <1>4, <1>5 DEF Stands

\* So many of those asked for are passed, fewer than it takes to answer; they
\* are counted when a position is asked for.
Tally(P, position, count) ==
  /\ IsFiniteSet(P) /\ Cardinality(P) < Ordinal(position)
  /\ position > 0 => count = Cardinality(P)

Enough(position, count) == position > 0 => count + 1 = position

LEMMA TallyBegins ==
  ASSUME NEW position \in Nat
  PROVE  Tally({}, position, 0)
BY FS_EmptySet DEF Tally, Ordinal

LEMMA TallyGoesOn ==
  ASSUME NEW P, NEW x, x \notin P, NEW position \in Nat, NEW count,
         Tally(P, position, count), ~Enough(position, count)
  PROVE  Tally(P \cup {x}, position, IF position > 0 THEN count + 1 ELSE count)
<1>1. /\ IsFiniteSet(P \cup {x}) /\ Cardinality(P \cup {x}) = Cardinality(P) + 1
      /\ Cardinality(P) \in Nat
  BY FS_AddElement, FS_CardinalityType DEF Tally
<1>2. position > 0 /\ count = Cardinality(P) /\ Cardinality(P) < position
  BY DEF Tally, Enough, Ordinal
<1>3. Cardinality(P) + 1 < position
  BY <1>1, <1>2 DEF Enough
<1> QED BY <1>1, <1>2, <1>3 DEF Tally, Ordinal

LEMMA TallyAnswers ==
  ASSUME NEW P, NEW position \in Nat, NEW count, Tally(P, position, count),
         Enough(position, count)
  PROVE  Cardinality(P) = Ordinal(position) - 1
<1>1. Cardinality(P) \in Nat
  BY FS_CardinalityType DEF Tally
<1> QED BY <1>1 DEF Tally, Enough, Ordinal

\* A search for the objects in W: the one it is at answers it, or does not.
LEMMA ObjectFound ==
  ASSUME NEW s, NEW W, NEW position \in Nat, NEW count,
         Searched(s), Stands(s), pc = "visit", obj \in W,
         Tally(Passed(s) \cap W, position, count), Enough(position, count)
  PROVE  Answers(obj, InScope(start, s) \cap W,
                 {x \in InScope(start, s) \cap W : Precedes(x, obj)}, position)
<1>1. /\ TreeStands /\ start \in live /\ s \in Scopes
      /\ obj \in InScope(start, s)
  BY DEF Searched, Stands, VisitsIn
<1>2. InScope(start, s) \subseteq live /\ obj # NULL
  BY <1>1, ScopeFollows, TreePoints
<1>3. Passed(s) \cap W = {x \in InScope(start, s) \cap W : Precedes(x, obj)}
  BY <1>2 DEF Passed, Before
<1>4. Cardinality(Passed(s) \cap W) = Ordinal(position) - 1
  BY TallyAnswers
<1> QED BY <1>1, <1>2, <1>3, <1>4 DEF Answers

LEMMA ObjectPassed ==
  ASSUME NEW P, NEW W, NEW x, NEW position \in Nat, NEW count, x \notin P,
         Tally(P \cap W, position, count), ~(x \in W /\ Enough(position, count))
  PROVE  Tally((P \cup {x}) \cap W, position,
               IF x \in W /\ position > 0 THEN count + 1 ELSE count)
<1>1. CASE x \in W
  <2>1. (P \cup {x}) \cap W = (P \cap W) \cup {x} /\ x \notin P \cap W
    BY <1>1
  <2>2. Tally((P \cap W) \cup {x}, position,
              IF position > 0 THEN count + 1 ELSE count)
    BY <1>1, <2>1, TallyGoesOn
  <2> QED BY <1>1, <2>1, <2>2
<1>2. CASE x \notin W
  <2>1. (P \cup {x}) \cap W = P \cap W
    BY <1>2
  <2> QED BY <1>2, <2>1
<1> QED BY <1>1, <1>2

LEMMA NoneAnswers ==
  ASSUME NEW F, NEW B, NEW position, NEW count, Tally(F, position, count)
  PROVE  Answers(NULL, F, B, position)
BY DEF Tally, Answers

\* A search of scope s for the one of W at position n: while it goes on, and
\* when it has its answer.
Going(s, W, n) == Stands(s) /\ Tally(Passed(s) \cap W, n, current_position)

Ended(s, W, n) ==
  LET found == InScope(start, s) \cap W
  IN  Answers(found_object, found, {x \in found : Precedes(x, found_object)}, n)

GoesOnOrEnds(s, W, n) ==
  /\ start' = start /\ pc' # "idle"
  /\ pc' \in {"visit", "climb"} => Going(s, W, n)'
  /\ pc' = "return" => Ended(s, W, n)'

LEMMA EndsWith ==
  ASSUME UNCHANGED <<links, start>>, NEW s, NEW W, NEW n, NEW f,
         found_object' = f,
         Answers(f, InScope(start, s) \cap W,
                 {x \in InScope(start, s) \cap W : Precedes(x, f)}, n)
  PROVE  Ended(s, W, n)'
<1>1. PICK b : b = start
  OBVIOUS
<1>2. UNCHANGED links /\ start' = b
  BY <1>1
<1>3. /\ InScope(b, s)' = InScope(b, s)
      /\ \A x : Precedes(x, f)' <=> Precedes(x, f)
  BY <1>2, OrderKept
<1> DEFINE found == InScope(b, s) \cap W
<1>4. (InScope(start, s) \cap W)' = found
  BY <1>2, <1>3
<1>5. Answers(f, found, {x \in found : Precedes(x, f)}, n)
  BY <1>1
<1> HIDE DEF found
<1>6. {x \in found : Precedes(x, f)'} = {x \in found : Precedes(x, f)}
  BY <1>3
<1> QED BY <1>4, <1>5, <1>6 DEF Ended

LEMMA VisitGoesOn ==
  ASSUME NEW s, NEW W, NEW n \in Nat, Searched(s), Going(s, W, n), pc = "visit",
         UNCHANGED <<links, level>>,
         current_position' = IF obj \in W /\ n > 0 THEN current_position + 1
                             ELSE current_position,
         obj \in W /\ Enough(n, current_position) => Leave(obj),
         ~(obj \in W /\ Enough(n, current_position)) => OdlNextObjDesc
  PROVE  GoesOnOrEnds(s, W, n)
<1>1. /\ TreeStands /\ call = "find" /\ Stands(s) /\ start \in live
      /\ Tally(Passed(s) \cap W, n, current_position)
  BY DEF Searched, Going
<1>2. obj \in live
  BY <1>1, ScopeFollows DEF Searched, Stands, VisitsIn
<1>3. CASE obj \in W /\ Enough(n, current_position)
  <2>1. pc' = "return" /\ found_object' = obj /\ start' = start
    BY <1>1, <1>3 DEF Leave
  <2>2. PICK f : f = obj
    OBVIOUS
  <2>3. Answers(f, InScope(start, s) \cap W,
                {x \in InScope(start, s) \cap W : Precedes(x, f)}, n)
    BY <1>1, <1>3, <2>2, ObjectFound
  <2>4. Ended(s, W, n)'
    BY <2>1, <2>2, <2>3, EndsWith
  <2> QED BY <2>1, <2>4 DEF GoesOnOrEnds
<1>4. CASE ~(obj \in W /\ Enough(n, current_position))
  <2>1. /\ Moves(s, Passed(s) \cup {obj}) /\ obj \notin Passed(s)
        /\ start' = start
    BY <1>1, <1>2, <1>4, NextObjDescMoves
  <2>2. Tally((Passed(s) \cup {obj}) \cap W, n, current_position')
    BY <1>1, <1>4, <2>1, ObjectPassed
  <2>3. CASE pc' \in {"visit", "climb"}
    <3>1. (Passed(s) \cap W)' = (Passed(s) \cup {obj}) \cap W
      BY <2>1 DEF Moves
    <3>2. Going(s, W, n)'
      BY <2>1, <2>2, <3>1 DEF Going, Moves
    <3> QED BY <2>1, <2>3, <3>2 DEF GoesOnOrEnds
  <2>4. CASE pc' = "return"
    <3>1. found_object' = NULL /\ Passed(s) \cup {obj} = InScope(start, s)
      BY <2>1, <2>4 DEF Moves
    <3>2. Answers(NULL, InScope(start, s) \cap W,
                  {x \in InScope(start, s) \cap W : Precedes(x, NULL)}, n)
      BY <2>2, <3>1, NoneAnswers
    <3>3. Ended(s, W, n)'
      BY <2>1, <3>1, <3>2, EndsWith
    <3> QED BY <2>1, <2>4, <3>3 DEF GoesOnOrEnds
  <2> QED BY <2>1, <2>3, <2>4 DEF Moves
<1> QED BY <1>3, <1>4

LEMMA ClimbGoesOn ==
  ASSUME NEW s, NEW W, NEW n \in Nat, Searched(s), Going(s, W, n), Climb
  PROVE  GoesOnOrEnds(s, W, n)
<1>1. /\ Stands(s) /\ UNCHANGED <<links, current_position>>
      /\ Tally(Passed(s) \cap W, n, current_position)
  BY DEF Going, Climb
<1>2. start' = start /\ Moves(s, Passed(s))
  BY <1>1, ClimbMoves
<1>3. CASE pc' \in {"visit", "climb"}
  <2>1. (Passed(s) \cap W)' = Passed(s) \cap W
    BY <1>2 DEF Moves
  <2>2. Going(s, W, n)'
    BY <1>1, <1>2, <2>1 DEF Going, Moves
  <2> QED BY <1>2, <1>3, <2>2 DEF GoesOnOrEnds
<1>4. CASE pc' = "return"
  <2>1. found_object' = NULL /\ Passed(s) = InScope(start, s)
    BY <1>2, <1>4 DEF Moves
  <2>2. Answers(NULL, InScope(start, s) \cap W,
                {x \in InScope(start, s) \cap W : Precedes(x, NULL)}, n)
    BY <1>1, <2>1, NoneAnswers
  <2>3. Ended(s, W, n)'
    BY <1>1, <1>2, <2>1, <2>2, EndsWith
  <2> QED BY <1>2, <1>4, <2>3 DEF GoesOnOrEnds
<1> QED BY <1>2, <1>3, <1>4 DEF Moves

LEMMA GoingBegins ==
  ASSUME TreeStands, NEW s \in Scopes, NEW W, NEW n \in Nat, NEW o \in live,
         UNCHANGED links, start' = o, obj' = o, scope' = s, pc' = "visit",
         current_position' = 0
  PROVE  Going(s, W, n)'
<1>1. Stands(s)' /\ Passed(s)' = {}
  BY Begins
<1>2. (Passed(s) \cap W)' = {}
  BY <1>1
<1> QED BY <1>1, <1>2, TallyBegins DEF Going

LEMMA StandsStays ==
  ASSUME NEW s, UNCHANGED <<links, level, start, pc, obj, scope>>,
         pc \in {"visit", "climb"}
  PROVE  (Stands(s)' <=> Stands(s)) /\ Passed(s)' = Passed(s)
<1>1. SameTree
  BY DEF SameTree
<1>2. PICK o, t : o = obj /\ t = scope
  OBVIOUS
<1>3. obj' = o /\ scope' = t
  BY <1>2
<1>4. /\ pc' = "visit" => (Stands(s)' <=> VisitsIn(o, t, s))
      /\ pc' = "climb" =>
           (Stands(s)' <=> /\ t = s /\ s \in {"RECURSIVE_DOWN", "TO_END"}
                           /\ o = NULL \/ ClimbsIn(o, s))
      /\ o = NULL => Passed(s)' = InScope(start, s)
      /\ o # NULL /\ pc' = "visit" =>
           Passed(s)' = InScope(start, s) \cap Before(o)
      /\ o # NULL /\ pc' = "climb" =>
           Passed(s)' = InScope(start, s) \cap Done(o)
  BY <1>1, <1>3, Arrives
<1>5. Stands(s)' <=> Stands(s)
  BY <1>2, <1>4 DEF Stands
<1>6. Passed(s)' = Passed(s)
  BY <1>2, <1>4 DEF Passed
<1> QED BY <1>5, <1>6

LEMMA GoingStays ==
  ASSUME NEW s, NEW W, NEW n, UNCHANGED vars
  PROVE  /\ pc \in {"visit", "climb"} /\ Going(s, W, n) => Going(s, W, n)'
         /\ Ended(s, W, n) => Ended(s, W, n)'
<1>1. /\ SameTree /\ UNCHANGED <<links, start, pc, found_object, current_position>>
  BY DEF SameTree, vars, links, walk
<1>2. ASSUME Ended(s, W, n) PROVE Ended(s, W, n)'
  <2>1. PICK f : f = found_object
    OBVIOUS
  <2>2. Answers(f, InScope(start, s) \cap W,
                {x \in InScope(start, s) \cap W : Precedes(x, f)}, n)
    BY <1>2, <2>1 DEF Ended
  <2> QED BY <1>1, <2>1, <2>2, EndsWith
<1>3. ASSUME pc \in {"visit", "climb"}, Going(s, W, n)
      PROVE  Going(s, W, n)'
  <2>1. Stands(s)' /\ Passed(s)' = Passed(s)
    BY <1>3, StandsStays DEF Going, vars, walk
  <2>2. (Passed(s) \cap W)' = Passed(s) \cap W
    BY <2>1
  <2> QED BY <1>1, <1>3, <2>1, <2>2 DEF Going
<1> QED BY <1>2, <1>3

\* The objects OdlFindObjDesc takes for the class asked for.
Matching == {x \in Objects : Matches(x)}

FindInv ==
  /\ pc = "return" => call = "find"
  /\ call = "find" =>
       /\ start \in live /\ pc # "idle"
       /\ ~EscapesSubtree(query.scope) =>
            /\ pc \in {"visit", "climb"} =>
                 Going(query.scope, Matching, query.position)
            /\ pc = "return" => Ended(query.scope, Matching, query.position)

LEMMA QueryTyped ==
  ASSUME TypeOK
  PROVE  query.scope \in Scopes /\ query.position \in Nat
BY QueriesAssumption DEF TypeOK, NoQuery, Scopes

LEMMA EscapeKept ==
  ASSUME UNCHANGED <<links, start>>
  PROVE  \A s : EscapesSubtree(s)' <=> EscapesSubtree(s)
BY DEF links, EscapesSubtree

LEMMA MatchingKept ==
  ASSUME UNCHANGED <<links, query>>
  PROVE  Matching' = Matching
BY DEF links, Matching, Matches

\* The steps of a search.
LEMMA FindGoesOn ==
  ASSUME TreeStands, Wrong = {}, FindInv, call = "find",
         SearchObject \/ Climb
  PROVE  FindInv'
<1>1. /\ query' = query /\ UNCHANGED <<links, level>> /\ call' = "find"
      /\ start \in live
  BY DEF SearchObject, Climb, FindInv
<1>2. live' = live
  BY <1>1 DEF links
<1>3. PICK s, n, W : s = query.scope /\ n = query.position /\ W = Matching
  OBVIOUS
<1>4. s \in Scopes /\ n \in Nat
  BY <1>3, QueryTyped DEF TreeStands
<1>5. Matching' = W /\ query.scope' = s /\ query.position' = n
  BY <1>1, <1>3, MatchingKept
<1>6. CASE EscapesSubtree(s)
  <2>1. start' = start /\ pc' # "idle"
    BY <1>1 DEF SearchObject, Climb, OdlNextObjDesc, Leave, GoTo, TraverseTree,
       Visiting
  <2>2. EscapesSubtree(query.scope)'
    BY <1>1, <1>5, <1>6, <2>1, EscapeKept
  <2> QED BY <1>1, <1>2, <2>1, <2>2 DEF FindInv
<1>7. CASE ~EscapesSubtree(s)
  <2>1. pc \in {"visit", "climb"}
    BY DEF SearchObject, Climb
  <2>2. Searched(s) /\ Going(s, W, n)
    BY <1>4, <1>1, <1>3, <1>7, <2>1 DEF FindInv, Searched
  <2>3. CASE SearchObject
    <3>1. pc = "visit" /\ obj \in Objects
      BY <2>3 DEF SearchObject, TreeStands, TypeOK
    <3>2. obj \in W <=> Matches(obj)
      BY <1>3, <3>1 DEF Matching
    <3>3. current_position' =
            IF obj \in W /\ n > 0 THEN current_position + 1 ELSE current_position
      BY <1>3, <2>3, <3>2 DEF SearchObject, Counts
    <3>4. obj \in W /\ Enough(n, current_position) => Leave(obj)
      BY <1>3, <2>3, <3>2, <3>3 DEF SearchObject, Enough
    <3>5. ~(obj \in W /\ Enough(n, current_position)) => OdlNextObjDesc
      BY <1>3, <2>3, <3>2, <3>3 DEF SearchObject, Enough
    <3>6. GoesOnOrEnds(s, W, n)
      BY <1>4, <1>1, <2>2, <3>1, <3>3, <3>4, <3>5, VisitGoesOn
    <3> QED BY <1>1, <1>2, <1>5, <3>6 DEF FindInv, GoesOnOrEnds
  <2>4. CASE Climb
    <3>1. GoesOnOrEnds(s, W, n)
      BY <1>4, <2>2, <2>4, ClimbGoesOn
    <3> QED BY <1>1, <1>2, <1>5, <3>1 DEF FindInv, GoesOnOrEnds
  <2> QED BY <2>3, <2>4
<1> QED BY <1>6, <1>7

LEMMA FindBegins ==
  ASSUME TreeStands, Find
  PROVE  FindInv'
<1>1. PICK o \in Objects, q \in Queries : OdlFindObjDesc(o, q)
  BY DEF Find
<1>2. PICK s \in Scopes, n \in Nat : s = q.scope /\ n = q.position
  BY QueriesAssumption
<1>3. /\ o \in live /\ UNCHANGED links /\ live' = live /\ start' = o /\ obj' = o
      /\ scope' = s /\ pc' = "visit" /\ query' = q /\ current_position' = 0
  BY <1>1, <1>2 DEF OdlFindObjDesc, links
<1>4. PICK W : W = {x \in Objects : q.class = NULL \/ obj_class[x] = q.class}
  OBVIOUS
<1>5. Matching' = W /\ query.scope' = s /\ query.position' = n
  BY <1>2, <1>3, <1>4 DEF Matching, Matches, links
<1>6. Going(s, W, n)'
  BY <1>3, GoingBegins
<1> QED BY <1>3, <1>5, <1>6 DEF FindInv

LEMMA FindStays ==
  ASSUME FindInv, UNCHANGED vars
  PROVE  FindInv'
<1>1. /\ UNCHANGED <<links, start, query, pc, call>> /\ live' = live
  BY DEF vars, links, walk
<1>2. PICK s, n, W : s = query.scope /\ n = query.position /\ W = Matching
  OBVIOUS
<1>3. Matching' = W /\ query.scope' = s /\ query.position' = n
  BY <1>1, <1>2, MatchingKept
<1>4. EscapesSubtree(s)' <=> EscapesSubtree(s)
  BY <1>1, EscapeKept
<1>5. /\ pc \in {"visit", "climb"} /\ Going(s, W, n) => Going(s, W, n)'
      /\ Ended(s, W, n) => Ended(s, W, n)'
  BY GoingStays
<1> QED BY <1>1, <1>2, <1>3, <1>4, <1>5 DEF FindInv

LEMMA NextFinds ==
  ASSUME TypeOK, LinksAgree, NoCycles, LevelInv, FindInv, [Next]_vars
  PROVE  FindInv'
<1>1. TreeStands
  BY DEF TreeStands
<1>2. call = "find" => Wrong = {}
  BY DEF LevelInv, Adjusting
<1>3. CASE Edit
  <2>1. pc = "idle"
    BY <1>3 DEF Edit, OdlNewObjDesc, OdlCopyObjDesc, OdlCutObjDesc,
       OdlPasteObjDesc, OdlPasteObjDescBefore, OdlPasteObjDescAfter, OdlFreeTree
  <2>2. call # "find"
    BY <2>1 DEF FindInv
  <2>3. call' \in {"adjust", call} /\ pc' \in {"idle", "visit"}
    BY <1>3, <2>1 DEF Edit, OdlNewObjDesc, OdlCopyObjDesc, OdlCutObjDesc,
       OdlPasteObjDesc, OdlPasteObjDescBefore, OdlPasteObjDescAfter,
       OdlFreeTree, NewBlock, BeginAdjust, walk
  <2> QED BY <2>2, <2>3 DEF FindInv
<1>4. CASE Find
  BY <1>1, <1>4, FindBegins
<1>5. CASE Walk
  <2>1. CASE call # "find"
    <3>1. call' # "find" /\ pc' # "return"
      BY <1>5, <2>1 DEF Walk, OdlAdjustObjDescLevel, SearchObject, Climb,
         TraverseTree, Visiting, Leave
    <3> QED BY <3>1 DEF FindInv
  <2>2. CASE call = "find"
    <3>1. SearchObject \/ Climb
      BY <1>5, <2>2 DEF Walk, OdlAdjustObjDescLevel
    <3> QED BY <1>1, <1>2, <2>2, <3>1, FindGoesOn
  <2> QED BY <2>1, <2>2
<1>6. CASE FindReturns
  BY <1>6 DEF FindReturns, FindInv
<1>7. CASE UNCHANGED vars
  BY <1>7, FindStays
<1> QED BY <1>3, <1>4, <1>5, <1>6, <1>7 DEF Next

LEMMA InitFinds == Init => FindInv
BY DEF Init, FindInv

LEMMA FindInvAnswers ==
  ASSUME TypeOK, LinksAgree, NoCycles, FindInv
  PROVE  FindAnswers
<1> SUFFICES ASSUME pc = "return", ~EscapesSubtree(query.scope)
             PROVE  FindAnswers
  BY DEF FindAnswers
<1>1. Ended(query.scope, Matching, query.position) /\ start \in live
  BY DEF FindInv
<1>2. InScope(start, query.scope) \subseteq Objects
  BY <1>1, ScopeFollows, QueryTyped, TreePoints DEF TreeStands
<1>3. {x \in InScope(start, query.scope) : Matches(x)}
        = InScope(start, query.scope) \cap Matching
  BY <1>2 DEF Matching
<1> QED BY <1>1, <1>3 DEF Ended, FindAnswers

\* OdlFindObjDesc answers, on any tree and for any scope, class and position:
\* the object with as many matches before it, in the order of the label, as
\* there should be, or NULL if the scope has not that many.
THEOREM SearchesAnswer == Spec => []FindAnswers
<1>1. TypeOK /\ LinksAgree /\ NoCycles /\ LevelInv /\ FindInv /\ [Next]_vars
        => FindInv'
  BY NextFinds
<1>2. TypeOK /\ LinksAgree /\ NoCycles /\ FindInv => FindAnswers
  BY FindInvAnswers
<1> QED
  BY InitFinds, <1>1, <1>2, TypeCorrect, LinksAlwaysAgree, NeverACycle,
     LevelsAlwaysInv, PTL DEF Spec
-----------------------------------------------------------------------------
(* What a walk has left to do.  Over a finite tree WalkReturns follows from  *)
(* each step leaving less of it.                                           *)

\* The objects a walk has not passed.
ToGo ==
  IF obj = NULL THEN {}
  ELSE live \ (IF pc = "visit" THEN Before(obj) ELSE Done(obj))

\* The objects it can climb to.
Height == IF obj = NULL THEN {} ELSE Lineage(obj)

Shrinks(S, T) == T \subseteq S /\ T # S

\* The walk ends, passes an object, finds a sibling to visit, or climbs.
GoesForward ==
  \/ pc' \in {"idle", "return"}
  \/ Shrinks(ToGo, ToGo')
  \/ /\ ToGo' = ToGo /\ pc = "climb"
     /\ \/ pc' = "visit"
        \/ pc' = "climb" /\ Shrinks(Height, Height')

WalkerLives ==
  /\ pc = "visit" => obj \in live
  /\ pc = "climb" => obj \in live \cup {NULL}

\* What a step that changes no link leaves to do.
LEMMA LeftToDo ==
  ASSUME UNCHANGED links, NEW o, obj' = o
  PROVE  /\ o = NULL => ToGo' = {} /\ Height' = {}
         /\ o # NULL /\ pc' = "visit" => ToGo' = live \ Before(o)
         /\ o # NULL /\ pc' = "climb" =>
              ToGo' = live \ Done(o) /\ Height' = Lineage(o)
<1>1. live' = live /\ Lineage(o)' = Lineage(o)
  BY DEF links, Lineage
<1>2. Before(o)' = Before(o) /\ Done(o)' = Done(o)
  BY OrderKept
<1>3. Before(obj)' = Before(o) /\ Done(obj)' = Done(o)
      /\ Lineage(obj)' = Lineage(o)
  BY <1>1, <1>2
<1> QED BY <1>1, <1>3 DEF ToGo, Height

\* No object stands before itself.
LEMMA NotBeforeItself ==
  ASSUME TreeStands, NEW o \in live
  PROVE  o \notin Before(o)
BY PrecedesOneWay DEF Before

\* The moves of a walk that has been visiting o.
LEMMA TraverseForward ==
  ASSUME TreeStands, UNCHANGED links, pc = "visit", NEW o \in live, obj = o,
         \/ TraverseTree
         \/ GoTo(first_child[o])
         \/ GoTo(right_sibling[o])
  PROVE  GoesForward /\ WalkerLives'
<1>0. o # NULL /\ o \notin Before(o) /\ o \in Done(o) /\ Done(o) \subseteq live
      /\ live' = live
  BY NotBeforeItself, DoneHolds, TreePoints DEF links
<1>1. ToGo = live \ Before(o)
  BY <1>0 DEF ToGo
<1>2. CASE obj' = first_child[o] /\ pc' = "visit" /\ first_child[o] # NULL
  <2>1. PICK c : c = first_child[o]
    OBVIOUS
  <2>2. c \in live /\ Before(c) = Before(o) \cup {o}
    BY <1>2, <2>1, BeforeFirstChild
  <2>3. ToGo' = live \ Before(c)
    BY <1>2, <2>1, LeftToDo
  <2>4. Shrinks(ToGo, ToGo')
    BY <1>0, <1>1, <2>2, <2>3 DEF Shrinks
  <2> QED BY <1>0, <1>2, <2>1, <2>2, <2>4 DEF GoesForward, WalkerLives
<1>3. CASE obj' = right_sibling[o] /\ pc' = "visit" /\ right_sibling[o] # NULL
  <2>1. PICK r : r = right_sibling[o]
    OBVIOUS
  <2>2. r \in live /\ Before(r) = Done(o)
    BY <1>3, <2>1, BeforeRightSibling
  <2>3. ToGo' = live \ Before(r)
    BY <1>3, <2>1, LeftToDo
  <2>4. Shrinks(ToGo, ToGo')
    BY <1>0, <1>1, <2>2, <2>3 DEF Shrinks, Done
  <2> QED BY <1>0, <1>3, <2>1, <2>2, <2>4 DEF GoesForward, WalkerLives
<1>4. CASE obj' = parent[o] /\ pc' = "climb" /\ right_sibling[o] = NULL
  <2>1. PICK p : p = parent[o]
    OBVIOUS
  <2>2. CASE p = NULL
    <3>1. ToGo' = {}
      BY <1>4, <2>1, <2>2, LeftToDo
    <3>2. Shrinks(ToGo, ToGo')
      BY <1>0, <1>1, <3>1 DEF Shrinks
    <3> QED BY <1>4, <2>1, <2>2, <3>2 DEF GoesForward, WalkerLives
  <2>3. CASE p # NULL
    <3>1. p \in live /\ Done(p) = Done(o)
      BY <1>4, <2>1, <2>3, DoneLastChild
    <3>2. ToGo' = live \ Done(p)
      BY <1>4, <2>1, <2>3, LeftToDo
    <3>3. Shrinks(ToGo, ToGo')
      BY <1>0, <1>1, <3>1, <3>2 DEF Shrinks, Done
    <3> QED BY <1>0, <1>4, <2>1, <3>1, <3>3 DEF GoesForward, WalkerLives
  <2> QED BY <2>2, <2>3
<1>5. CASE pc' \in {"idle", "return"}
  BY <1>5 DEF GoesForward, WalkerLives
<1> QED
  BY <1>2, <1>3, <1>4, <1>5 DEF TraverseTree, GoTo, Visiting, Leave

LEMMA ClimbForward ==
  ASSUME TreeStands, WalkerLives, Climb
  PROVE  GoesForward /\ WalkerLives'
<1>1. UNCHANGED links /\ live' = live /\ pc = "climb"
  BY DEF Climb, links
<1>2. CASE pc' \in {"idle", "return"}
  BY <1>2 DEF GoesForward, WalkerLives
<1>3. CASE pc' \notin {"idle", "return"}
  <2>1. PICK o : o = obj
    OBVIOUS
  <2>2. o \in live /\ o # NULL
    BY <1>1, <1>3, <2>1 DEF WalkerLives, Climb, ClimbEnds, Leave
  <2>3. o \in Done(o) /\ ToGo = live \ Done(o) /\ Height = Lineage(o)
    BY <1>1, <2>1, <2>2, DoneHolds DEF ToGo, Height
  <2>4. CASE right_sibling[o] # NULL
    <3>1. PICK r : r = right_sibling[o]
      OBVIOUS
    <3>2. obj' = r /\ pc' = "visit"
      BY <1>3, <2>1, <2>4, <3>1 DEF Climb, Leave, Visiting
    <3>3. r \in live /\ Before(r) = Done(o)
      BY <2>2, <2>4, <3>1, BeforeRightSibling
    <3>4. ToGo' = live \ Before(r)
      BY <1>1, <2>4, <3>1, <3>2, LeftToDo
    <3> QED BY <1>1, <2>3, <3>2, <3>3, <3>4 DEF GoesForward, WalkerLives
  <2>5. CASE right_sibling[o] = NULL
    <3>1. PICK p : p = parent[o]
      OBVIOUS
    <3>2. obj' = p /\ pc' = "climb"
      BY <1>1, <1>3, <2>1, <2>5, <3>1 DEF Climb, Leave, Visiting
    <3>3. CASE p = NULL
      <4>1. ToGo' = {} /\ Height' = {}
        BY <1>1, <3>2, <3>3, LeftToDo
      <4>2. Shrinks(Height, Height')
        BY <2>2, <2>3, <4>1, LineageStep DEF Shrinks
      <4>3. Shrinks(ToGo, ToGo') \/ ToGo' = ToGo
        BY <4>1 DEF Shrinks
      <4> QED BY <1>1, <3>2, <3>3, <4>2, <4>3 DEF GoesForward, WalkerLives
    <3>4. CASE p # NULL
      <4>1. p \in live /\ Done(p) = Done(o)
        BY <2>2, <2>5, <3>1, <3>4, DoneLastChild
      <4>2. ToGo' = live \ Done(p) /\ Height' = Lineage(p)
        BY <1>1, <3>2, <3>4, LeftToDo
      <4>3. Lineage(o) = {o} \cup Lineage(p) /\ o \notin Lineage(p)
        BY <2>2, <3>1, <3>4, LineageStep, LineageEnds
      <4>4. Shrinks(Height, Height')
        BY <2>3, <4>2, <4>3 DEF Shrinks
      <4> QED BY <1>1, <2>3, <3>2, <4>1, <4>2, <4>4 DEF GoesForward, WalkerLives
    <3> QED BY <3>3, <3>4
  <2> QED BY <2>4, <2>5
<1> QED BY <1>2, <1>3

LEMMA WalkForward ==
  ASSUME TreeStands, WalkerLives, Walk
  PROVE  GoesForward /\ WalkerLives'
<1>1. CASE Climb
  BY <1>1, ClimbForward
<1>2. CASE OdlAdjustObjDescLevel
  <2>1. UNCHANGED links /\ pc = "visit" /\ obj \in live /\ TraverseTree
    BY <1>2 DEF OdlAdjustObjDescLevel, WalkerLives
  <2> QED BY <2>1, TraverseForward
<1>3. CASE SearchObject
  <2>1. UNCHANGED links /\ pc = "visit" /\ obj \in live
    BY <1>3 DEF SearchObject, WalkerLives
  <2>2. CASE Leave(obj) \/ Leave(NULL)
    <3>1. pc' \in {"idle", "return"}
      BY <2>2 DEF Leave
    <3> QED BY <3>1 DEF GoesForward, WalkerLives
  <2>3. CASE \/ TraverseTree
             \/ GoTo(first_child[obj])
             \/ GoTo(right_sibling[obj])
    BY <2>1, <2>3, TraverseForward
  <2> QED BY <1>3, <2>2, <2>3 DEF SearchObject, OdlNextObjDesc
<1> QED BY <1>1, <1>2, <1>3 DEF Walk

LEMMA NextWalkerLives ==
  ASSUME TreeStands, WalkerLives, [Next]_vars
  PROVE  WalkerLives'
<1>1. CASE Edit
  <2>1. CASE \E n, o \in Objects : \/ OdlPasteObjDesc(n, o)
                                   \/ OdlPasteObjDescBefore(n, o)
                                   \/ OdlPasteObjDescAfter(n, o)
    <3>1. \E n \in live : live' = live /\ BeginAdjust(n)
      BY <2>1, PasteParent DEF TreeStands
    <3> QED BY <3>1 DEF BeginAdjust, WalkerLives
  <2>2. CASE pc' = "idle"
    BY <2>2 DEF WalkerLives
  <2> QED BY <1>1, <2>1, <2>2 DEF Edit, OdlNewObjDesc, OdlCopyObjDesc,
         OdlCutObjDesc, OdlFreeTree, NewBlock, walk
<1>2. CASE Find
  BY <1>2 DEF Find, OdlFindObjDesc, WalkerLives, links
<1>3. CASE Walk
  BY <1>3, WalkForward
<1>4. CASE FindReturns
  BY <1>4 DEF FindReturns, WalkerLives
<1>5. CASE UNCHANGED vars
  BY <1>5 DEF vars, links, walk, WalkerLives
<1> QED BY <1>1, <1>2, <1>3, <1>4, <1>5 DEF Next

\* No step of OdlTraverseTree goes back: on any tree, every step of a search or
\* of a level adjustment passes an object it has not passed, or finds the
\* sibling its climb was for, or climbs to a parent.  With finitely many
\* objects a walk can take only so many.
THEOREM WalksGoForward == Spec => [][Walk => GoesForward]_vars
<1>1. TypeOK /\ LinksAgree /\ NoCycles <=> TreeStands
  BY DEF TreeStands
<1>2. Init => WalkerLives
  BY DEF Init, WalkerLives
<1>3. TreeStands /\ WalkerLives /\ [Next]_vars => WalkerLives'
  BY NextWalkerLives
<1>4. TreeStands /\ WalkerLives /\ [Next]_vars => [Walk => GoesForward]_vars
  BY WalkForward
<1> QED
  BY <1>1, <1>2, <1>3, <1>4, TypeCorrect, LinksAlwaysAgree, NeverACycle, PTL
     DEF Spec

=============================================================================
