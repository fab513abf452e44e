--------------------------- MODULE OdlLabelProofs ---------------------------
(***************************************************************************)
(* The keyword lists of a label agree with its objects and implement the   *)
(* sequences of OdlKeywordLists, after any sequence of edits on any number *)
(* of objects and keywords, and between any steps of a search; and every   *)
(* search answers what OdlLabelRefinement says it should.                  *)
(***************************************************************************)
EXTENDS OdlLabelRefinement, OdlTreeProofs

USE DEF Pointer, KwdPointer

-----------------------------------------------------------------------------
(* Types.  What the actions do to the tree is typed in OdlTreeProofs.      *)

KwdsTyped ==
  /\ kwds \subseteq Keywords
  /\ name \in [Keywords -> Names \cup {NULL}]
  /\ value \in [Keywords -> Values \cup {NULL}]
  /\ kwd_parent \in [Keywords -> Pointer]
  /\ kwd_left \in [Keywords -> KwdPointer]
  /\ kwd_right \in [Keywords -> KwdPointer]
  /\ first_keyword \in [Objects -> KwdPointer]
  /\ last_keyword \in [Objects -> KwdPointer]

CursorTyped ==
  /\ request \in Requests \cup {NoRequest}
  /\ start_keyword \in KwdPointer /\ kwd \in KwdPointer
  /\ found_kwd \in KwdPointer

LEMMA TypesOfLabel == LabelTypeOK <=> TypeOK /\ KwdsTyped /\ CursorTyped
BY DEF LabelTypeOK, KwdsTyped, CursorTyped

LEMMA NullIsNoKeyword == NULL \notin Keywords
BY KeywordsAssumption

LEMMA LabelInitTyped == LabelInit => LabelTypeOK
BY InitTyped DEF LabelInit, LabelTypeOK, NoKeyword, Nowhere

LEMMA ReleasedTyped ==
  ASSUME KwdsTyped, NEW F \in SUBSET Keywords, Released(F)
  PROVE  /\ kwds' \subseteq Keywords
         /\ name' \in [Keywords -> Names \cup {NULL}]
         /\ value' \in [Keywords -> Values \cup {NULL}]
         /\ kwd_parent' \in [Keywords -> Pointer]
         /\ kwd_left' \in [Keywords -> KwdPointer]
         /\ kwd_right' \in [Keywords -> KwdPointer]
BY DEF Released, KwdsTyped

LEMMA FreeAllTyped ==
  ASSUME KwdsTyped, NEW D \in SUBSET Objects, FreeAllKwds(D)
  PROVE  KwdsTyped'
<1>1. UNION {KwdsOf(o) : o \in D} \in SUBSET Keywords
  BY DEF KwdsOf, Onward
<1>2. /\ first_keyword' \in [Objects -> KwdPointer]
      /\ last_keyword' \in [Objects -> KwdPointer]
  BY DEF FreeAllKwds, KwdsTyped
<1> QED BY <1>1, <1>2, ReleasedTyped DEF FreeAllKwds, KwdsTyped

LEMMA NewKwdTyped ==
  ASSUME KwdsTyped, NEW k \in Keywords, NEW n \in Names \cup {NULL},
         NEW v \in Values \cup {NULL}, NewKwdBlock(k, n, v)
  PROVE  KwdsTyped'
BY DEF KwdsTyped, NewKwdBlock

LEMMA CutKwdTyped ==
  ASSUME KwdsTyped, NEW k \in Keywords, OdlCutKwd(k)
  PROVE  KwdsTyped'
BY DEF KwdsTyped, OdlCutKwd, EndsWithout

LEMMA EditKwdsTyped ==
  ASSUME KwdsTyped, EditKwds
  PROVE  KwdsTyped'
<1>1. ASSUME NEW k \in Keywords, NEW n \in Names, NEW v \in Values \cup {NULL},
             OdlNewKwd(k, n, v)
      PROVE  KwdsTyped'
  BY <1>1, NewKwdTyped DEF OdlNewKwd
<1>2. ASSUME NEW j \in Keywords, NEW k \in Keywords, OdlCopyKwd(j, k)
      PROVE  KwdsTyped'
  <2>1. name[j] \in Names \cup {NULL} /\ value[j] \in Values \cup {NULL}
    BY DEF KwdsTyped
  <2> QED BY <1>2, <2>1, NewKwdTyped DEF OdlCopyKwd
<1>3. ASSUME NEW k \in Keywords, OdlFreeKwd(k)
      PROVE  KwdsTyped'
  BY <1>3, ReleasedTyped DEF OdlFreeKwd, KwdsTyped
<1>4. ASSUME NEW o \in Objects, OdlFreeAllKwds(o)
      PROVE  KwdsTyped'
  BY <1>4, FreeAllTyped DEF OdlFreeAllKwds
<1>5. ASSUME NEW j \in Keywords, NEW k \in Keywords,
             OdlPasteKwdBefore(k, j) \/ OdlPasteKwdAfter(k, j)
      PROVE  KwdsTyped'
  <2>1. CASE OdlPasteKwdBefore(k, j)
    BY <2>1 DEF KwdsTyped, OdlPasteKwdBefore
  <2>2. CASE OdlPasteKwdAfter(k, j)
    BY <2>2 DEF KwdsTyped, OdlPasteKwdAfter
  <2> QED BY <1>5, <2>1, <2>2
<1>6. ASSUME NEW k \in Keywords, NEW o \in Objects, OdlPasteKwd(k, o)
      PROVE  KwdsTyped'
  BY <1>6 DEF KwdsTyped, OdlPasteKwd
<1> QED BY <1>1, <1>2, <1>3, <1>4, <1>5, <1>6, CutKwdTyped DEF EditKwds

LEMMA BeginSearchTyped ==
  ASSUME LabelTypeOK, NEW o \in Objects, NEW r \in Requests, BeginSearch(o, r)
  PROVE  TypeOK' /\ KwdsTyped' /\ request' \in Requests \cup {NoRequest}
         /\ found_kwd' \in KwdPointer
<1>1. r.scope \in Scopes
  BY RequestsAssumption
<1>2. TypeOK'
  BY <1>1 DEF LabelTypeOK, TypeOK, BeginSearch, links
<1> QED BY <1>2 DEF LabelTypeOK, KwdsTyped, BeginSearch, kwd_links

LEMMA SearchTyped ==
  ASSUME LabelTypeOK, Search
  PROVE  LabelTypeOK'
<1>1. PICK r \in Requests :
        \/ \E o \in Objects : OdlFindKwd(o, r) \/ FindObject(o, r)
        \/ \E k \in Keywords : OdlNextKwd(k, r)
  BY DEF Search
<1>2. ASSUME NEW o \in Objects, OdlFindKwd(o, r)
      PROVE  LabelTypeOK'
  <2>1. kwd' \in KwdPointer /\ start_keyword' \in KwdPointer
    BY <1>2 DEF OdlFindKwd, LabelTypeOK
  <2> QED
    BY <1>2, <2>1, BeginSearchTyped, TypesOfLabel
    DEF OdlFindKwd, LabelTypeOK, KwdsTyped
<1>3. ASSUME NEW o \in Objects, FindObject(o, r)
      PROVE  LabelTypeOK'
  <2>1. kwd' \in KwdPointer /\ start_keyword' \in KwdPointer
    BY <1>3 DEF FindObject, LabelTypeOK
  <2> QED
    BY <1>3, <2>1, BeginSearchTyped DEF FindObject, LabelTypeOK, KwdsTyped
<1>4. ASSUME NEW k \in Keywords, OdlNextKwd(k, r)
      PROVE  LabelTypeOK'
  <2>1. kwd' \in KwdPointer /\ start_keyword' \in KwdPointer
    BY <1>4 DEF OdlNextKwd
  <2>2. kwd_parent[k] \in Objects
    BY <1>4 DEF OdlNextKwd, Listed, LabelTypeOK
  <2> QED
    BY <1>4, <2>1, <2>2, BeginSearchTyped DEF OdlNextKwd, LabelTypeOK, KwdsTyped
<1> QED BY <1>1, <1>2, <1>3, <1>4

LEMMA CountTyped ==
  ASSUME current_position \in Nat, NEW fits, CountIf(fits)
  PROVE  current_position' \in Nat
BY DEF CountIf

LEMMA SearchKwdTyped ==
  ASSUME LabelTypeOK, SearchKwd
  PROVE  LabelTypeOK'
<1>1. current_position' \in Nat
  BY CountTyped DEF SearchKwd, LabelTypeOK, TypeOK
<1>2. kwd \in Keywords
  BY DEF SearchKwd, LabelTypeOK
<1>3. /\ kwd' \in KwdPointer /\ found_kwd' \in KwdPointer
      /\ pc' \in {"idle", "visit", "climb", "return"}
      /\ start' \in Pointer /\ obj' \in Pointer /\ found_object' \in Pointer
      /\ pc' = "visit" => obj' \in Objects
  <2>1. CASE Leave(NULL) /\ found_kwd' = kwd /\ kwd' = NULL
    BY <1>2, <2>1 DEF LabelTypeOK, TypeOK, Leave
  <2>2. CASE kwd' = kwd_right[kwd]
             /\ UNCHANGED <<pc, start, obj, found_object, found_kwd>>
    BY <1>2, <2>2 DEF LabelTypeOK, TypeOK
  <2> QED BY <2>1, <2>2 DEF SearchKwd
<1>4. TypeOK'
  BY <1>1, <1>3 DEF LabelTypeOK, TypeOK, SearchKwd, links
<1> QED BY <1>3, <1>4 DEF LabelTypeOK, SearchKwd, kwd_links

LEMMA AtFirstKwdTyped ==
  ASSUME KwdsTyped, AtFirstKwd, pc' = "visit" => obj' \in Objects
  PROVE  kwd' \in KwdPointer
BY DEF AtFirstKwd, KwdsTyped

LEMMA NextListTyped ==
  ASSUME LabelTypeOK, NextList
  PROVE  LabelTypeOK'
<1>1. TypeOK /\ obj \in Objects
  BY DEF LabelTypeOK, TypeOK, NextList, Searching
<1>2. TypeOK'
  BY <1>1, NextObjDescTyped DEF TypeOK, NextList, links
<1>3. kwd' \in KwdPointer
  BY <1>2, TypesOfLabel, AtFirstKwdTyped DEF NextList, TypeOK
<1> QED BY <1>2, <1>3 DEF LabelTypeOK, NextList, kwd_links

LEMMA NextObjectTyped ==
  ASSUME LabelTypeOK, NextObject
  PROVE  LabelTypeOK'
<1>1. TypeOK /\ obj \in Objects
  BY DEF LabelTypeOK, TypeOK, NextObject, Searching
<1>2. current_position' \in Nat
  BY <1>1, CountTyped DEF NextObject, TypeOK
<1>3. /\ pc' \in {"idle", "visit", "climb", "return"}
      /\ start' \in Pointer /\ scope' \in Scopes /\ obj' \in Pointer
      /\ found_object' \in Pointer /\ (pc' = "visit" => obj' \in Objects)
  <2>1. CASE Leave(obj) /\ UNCHANGED scope
    BY <1>1, <2>1 DEF TypeOK, Leave
  <2>2. CASE OdlNextObjDesc
    BY <1>1, <2>2, NextObjDescTyped
  <2> QED BY <2>1, <2>2 DEF NextObject
<1>4. TypeOK'
  BY <1>1, <1>2, <1>3 DEF TypeOK, NextObject, links
<1> QED BY <1>4 DEF LabelTypeOK, NextObject, kwd_links, cursor

LEMMA ClimbOnTyped ==
  ASSUME LabelTypeOK, ClimbOn
  PROVE  LabelTypeOK'
<1>1. TypeOK'
  BY WalkTyped DEF LabelTypeOK, ClimbOn, Walk
<1>2. kwd' \in KwdPointer
  BY <1>1, TypesOfLabel, AtFirstKwdTyped DEF ClimbOn, TypeOK
<1> QED BY <1>1, <1>2 DEF LabelTypeOK, ClimbOn, kwd_links

LEMMA EditTreeTyped ==
  ASSUME TypeOK, EditTree
  PROVE  TypeOK'
<1>1. Edit
  BY DEF EditTree, Edit
<1> QED BY <1>1, NextTyped DEF Next

LEMMA LabelNextTyped == LabelTypeOK /\ [LabelNext]_label_vars => LabelTypeOK'
<1> SUFFICES ASSUME LabelTypeOK, [LabelNext]_label_vars PROVE LabelTypeOK'
  OBVIOUS
<1>1. CASE EditTree
  BY <1>1, EditTreeTyped DEF LabelTypeOK, EditTree, kwd_links, cursor
<1>2. CASE EditKwds
  <2>1. TypeOK'
    BY <1>2 DEF LabelTypeOK, TypeOK, EditKwds, links, walk
  <2>2. KwdsTyped'
    BY <1>2, TypesOfLabel, EditKwdsTyped
  <2> QED BY <1>2, <2>1, <2>2 DEF LabelTypeOK, KwdsTyped, EditKwds, cursor
<1>3. CASE EditBoth
  <2>1. PICK o \in Objects : FreeTree(o) /\ UNCHANGED cursor
    BY <1>3 DEF EditBoth
  <2>2. TypeOK'
    BY <2>1, FreeTyped DEF LabelTypeOK, FreeTree
  <2>3. KwdsTyped'
    BY <2>1, TypesOfLabel, FreeAllTyped DEF FreeTree, Tree
  <2> QED BY <2>1, <2>2, <2>3 DEF LabelTypeOK, KwdsTyped, cursor
<1>4. CASE Search
  BY <1>4, SearchTyped
<1>5. CASE WalkOn
  <2>1. CASE OdlAdjustObjDescLevel /\ UNCHANGED <<kwd_links, cursor>>
    <3>1. TypeOK'
      BY <2>1, WalkTyped DEF LabelTypeOK, Walk
    <3> QED BY <2>1, <3>1 DEF LabelTypeOK, kwd_links, cursor
  <2> QED
    BY <1>5, <2>1, SearchKwdTyped, NextListTyped, NextObjectTyped, ClimbOnTyped
    DEF WalkOn
<1>6. CASE SearchReturns
  <2>1. TypeOK'
    BY <1>6, WalkTyped DEF LabelTypeOK, SearchReturns
  <2> QED BY <1>6, <2>1 DEF LabelTypeOK, SearchReturns, kwd_links
<1>7. CASE UNCHANGED label_vars
  BY <1>7 DEF LabelTypeOK, TypeOK, label_vars, kwd_links, cursor, vars, links,
              walk
<1> QED BY <1>1, <1>2, <1>3, <1>4, <1>5, <1>6, <1>7 DEF LabelNext

\* Type correctness: every field of an object and of a keyword, and every
\* pointer a search holds, has the type its C declaration gives it, and no
\* search visits an object that is NULL.
THEOREM LabelTypeCorrect == LabelSpec => []LabelTypeOK
<1> QED BY LabelInitTyped, LabelNextTyped, PTL DEF LabelSpec

-----------------------------------------------------------------------------
(* The lists.  KwdLinksAgree speaks of kwd_links and of live; each edit     *)
(* changes a few pointers, listed keyword by keyword first.                *)

LEMMA KwdLinksKept ==
  ASSUME KwdLinksAgree, UNCHANGED kwd_links, live \subseteq live',
         live' \subseteq Objects, \A o \in live' \ live : first_keyword[o] = NULL
  PROVE  KwdLinksAgree'
<1>1. UNCHANGED <<kwds, kwd_parent, kwd_left, kwd_right, first_keyword,
                  last_keyword>>
  BY DEF kwd_links
<1>2. KwdsDontDangle'
  BY <1>1 DEF KwdLinksAgree, KwdsDontDangle
<1>3. NeighboursAgree' /\ EndsAgree' /\ KwdsReached'
  BY <1>1 DEF KwdLinksAgree, NeighboursAgree, EndsAgree, KwdsReached
<1> QED BY <1>2, <1>3 DEF KwdLinksAgree

LEMMA LabelInitLinks == LabelInit => KwdLinksAgree
<1> SUFFICES ASSUME LabelInit PROVE KwdLinksAgree
  OBVIOUS
<1>1. kwds = {} /\ \A o \in Objects : first_keyword[o] = NULL
                                      /\ last_keyword[o] = NULL
  BY DEF LabelInit, Nowhere
<1> QED BY <1>1 DEF KwdLinksAgree, KwdsDontDangle, NeighboursAgree, EndsAgree,
                    KwdsReached

\* The pointers of one allocated keyword, spelt out.
LEMMA LinksOfKwd ==
  ASSUME KwdsTyped, KwdLinksAgree, NEW k \in kwds
  PROVE  /\ k \in Keywords
         /\ kwd_parent[k] \in live \cup {NULL}
         /\ kwd_left[k] \in kwds \cup {NULL}
         /\ kwd_right[k] \in kwds \cup {NULL}
BY DEF KwdsTyped, KwdLinksAgree, KwdsDontDangle

LEMMA EndsOfObject ==
  ASSUME KwdLinksAgree, NEW o \in Objects
  PROVE  /\ first_keyword[o] \in kwds \cup {NULL}
         /\ last_keyword[o] \in kwds \cup {NULL}
BY DEF KwdLinksAgree, KwdsDontDangle

\* A keyword of no list: no pointer leads to it.
LEMMA UnlistedStandsAlone ==
  ASSUME KwdsTyped, KwdLinksAgree, NEW k \in Keywords, Unlisted(k)
  PROVE  /\ k \in kwds /\ kwd_parent[k] = NULL
         /\ kwd_left[k] = NULL /\ kwd_right[k] = NULL
         /\ \A j \in kwds : kwd_right[j] # k /\ kwd_left[j] # k
         /\ \A o \in Objects : first_keyword[o] # k /\ last_keyword[o] # k
<1>1. /\ k \in kwds /\ kwd_parent[k] = NULL
      /\ kwd_left[k] = NULL /\ kwd_right[k] = NULL
  BY DEF Unlisted, KwdLinksAgree, NeighboursAgree
<1>2. ASSUME NEW j \in kwds PROVE kwd_right[j] # k /\ kwd_left[j] # k
  BY <1>1, LinksOfKwd, NullIsNoKeyword DEF KwdLinksAgree, NeighboursAgree
<1>3. ASSUME NEW o \in Objects
      PROVE  first_keyword[o] # k /\ last_keyword[o] # k
  BY <1>1, LinksOfKwd, NullIsNoKeyword, NullIsNoObject
  DEF KwdLinksAgree, EndsAgree
<1> QED BY <1>1, <1>2, <1>3

LEMMA NewKwdLinks ==
  ASSUME KwdsTyped, KwdLinksAgree, NEW k \in Keywords, NEW n, NEW v,
         NewKwdBlock(k, n, v), live' = live
  PROVE  KwdLinksAgree'
<1>1. /\ k \notin kwds /\ kwds' = kwds \cup {k}
      /\ kwd_parent'[k] = NULL /\ kwd_left'[k] = NULL /\ kwd_right'[k] = NULL
      /\ first_keyword' = first_keyword /\ last_keyword' = last_keyword
  BY DEF NewKwdBlock, KwdsTyped
<1>2. ASSUME NEW j \in Keywords, j # k
      PROVE  /\ kwd_parent'[j] = kwd_parent[j] /\ kwd_left'[j] = kwd_left[j]
             /\ kwd_right'[j] = kwd_right[j]
  BY <1>2 DEF NewKwdBlock, KwdsTyped
<1>3. kwds \subseteq Keywords
  BY DEF KwdsTyped
<1>4. KwdsDontDangle'
  BY <1>1, <1>2, <1>3 DEF KwdLinksAgree, KwdsDontDangle
<1>5. NeighboursAgree'
  BY <1>1, <1>2, <1>3, LinksOfKwd, NullIsNoKeyword
  DEF KwdLinksAgree, NeighboursAgree
<1>6. EndsAgree'
  BY <1>1, <1>2, <1>3, EndsOfObject, NullIsNoKeyword
  DEF KwdLinksAgree, EndsAgree
<1>7. KwdsReached'
  <2> SUFFICES ASSUME NEW o \in Objects, NEW S \in SUBSET Keywords,
                      first_keyword'[o] # NULL => first_keyword'[o] \in S,
                      \A y \in S : kwd_right'[y] # NULL => kwd_right'[y] \in S,
                      NEW j \in kwds', kwd_parent'[j] = o
               PROVE  j \in S
    BY DEF KwdsReached
  <2>1. j # k /\ j \in kwds /\ kwd_parent[j] = o
    BY <1>1, <1>2, <1>3, NullIsNoObject
  <2> DEFINE T == S \cap kwds
  <2>2. \A y \in T : kwd_right[y] # NULL => kwd_right[y] \in T
    BY <1>1, <1>2, <1>3, LinksOfKwd
  <2>3. first_keyword[o] # NULL => first_keyword[o] \in T
    BY <1>1, EndsOfObject
  <2>4. T \in SUBSET Keywords
    OBVIOUS
  <2> QED BY <2>1, <2>2, <2>3, <2>4 DEF KwdLinksAgree, KwdsReached
<1> QED BY <1>4, <1>5, <1>6, <1>7 DEF KwdLinksAgree

LEMMA CutKwdLinks ==
  ASSUME KwdsTyped, KwdLinksAgree, live \subseteq Objects, live' = live,
         NEW k \in Keywords, OdlCutKwd(k)
  PROVE  KwdLinksAgree'
<1> DEFINE l == kwd_left[k]
           r == kwd_right[k]
           p == kwd_parent[k]
<1>1. /\ k \in kwds /\ p \in live /\ p \in Objects /\ kwds' = kwds
      /\ l \in kwds \cup {NULL} /\ r \in kwds \cup {NULL}
  BY LinksOfKwd DEF OdlCutKwd, Listed
<1>2. kwds \subseteq Keywords
  BY DEF KwdsTyped
<1>3. \A j \in Keywords :
        kwd_parent'[j] = IF j = k THEN NULL ELSE kwd_parent[j]
  BY DEF OdlCutKwd, KwdsTyped
<1>4. \A j \in Keywords :
        kwd_left'[j] = IF j = k THEN NULL
                       ELSE IF j = r THEN l ELSE kwd_left[j]
  BY <1>1, <1>2, NullIsNoKeyword DEF OdlCutKwd, KwdsTyped
<1>5. \A j \in Keywords :
        kwd_right'[j] = IF j = k THEN NULL
                        ELSE IF j = l THEN r ELSE kwd_right[j]
  BY <1>1, <1>2, NullIsNoKeyword DEF OdlCutKwd, KwdsTyped
<1>6. NeighboursAgree /\ EndsAgree
  BY DEF KwdLinksAgree
<1>7. /\ first_keyword[p] = k <=> l = NULL
      /\ last_keyword[p] = k <=> r = NULL
  BY <1>1, <1>6, NullIsNoObject DEF EndsAgree, OdlCutKwd, Listed
<1>8. \A o \in Objects :
        first_keyword'[o] = IF o = p /\ l = NULL THEN r ELSE first_keyword[o]
  BY <1>1, <1>7 DEF OdlCutKwd, EndsWithout, KwdsTyped
<1>9. \A o \in Objects :
        last_keyword'[o] = IF o = p /\ r = NULL THEN l ELSE last_keyword[o]
  BY <1>1, <1>7 DEF OdlCutKwd, EndsWithout, KwdsTyped
<1>10. KwdsDontDangle'
  BY <1>1, <1>2, <1>3, <1>4, <1>5, <1>8, <1>9, LinksOfKwd
  DEF KwdLinksAgree, KwdsDontDangle
<1>11. NeighboursAgree'
  BY <1>1, <1>2, <1>3, <1>4, <1>5, <1>6, LinksOfKwd, NullIsNoKeyword
  DEF NeighboursAgree
<1>12. EndsAgree'
  BY <1>1, <1>2, <1>3, <1>4, <1>5, <1>6, <1>8, <1>9, LinksOfKwd, EndsOfObject,
     NullIsNoKeyword, NullIsNoObject
  DEF NeighboursAgree, EndsAgree
<1>13. KwdsReached'
  <2> SUFFICES ASSUME NEW o \in Objects, NEW S \in SUBSET Keywords,
                      first_keyword'[o] # NULL => first_keyword'[o] \in S,
                      \A y \in S : kwd_right'[y] # NULL => kwd_right'[y] \in S,
                      NEW j \in kwds', kwd_parent'[j] = o
               PROVE  j \in S
    BY DEF KwdsReached
  <2>1. j \in kwds /\ j # k /\ kwd_parent[j] = o
    BY <1>1, <1>2, <1>3, NullIsNoObject
  <2>2. CASE l \in S \/ (l = NULL /\ o = p)
    <3> DEFINE T == (S \cap kwds) \cup {k}
    <3>1. r # NULL => r \in S
      <4>1. CASE l \in S /\ l # k
        BY <1>1, <1>2, <1>5, <4>1
      <4>2. CASE l \in S /\ l = k
        <5>1. r = k
          BY <1>1, <1>2, <1>6, <4>2, NullIsNoKeyword DEF NeighboursAgree
        <5> QED BY <4>2, <5>1
      <4>3. CASE l = NULL /\ o = p
        BY <1>1, <1>8, <4>3
      <4> QED BY <2>2, <4>1, <4>2, <4>3
    <3>2. l # NULL => kwd_right[l] = k
      BY <1>1, <1>6 DEF NeighboursAgree
    <3>3. ASSUME NEW y \in T, kwd_right[y] # NULL
          PROVE  kwd_right[y] \in T
      <4>1. CASE y = k
        BY <1>1, <3>1, <3>3, <4>1
      <4>2. CASE y = l
        BY <1>1, <1>2, <3>2, <4>2, NullIsNoKeyword
      <4>3. CASE y # k /\ y # l
        BY <1>2, <1>5, <3>3, <4>3, LinksOfKwd
      <4> QED BY <4>1, <4>2, <4>3
    <3>4. first_keyword[o] # NULL => first_keyword[o] \in T
      BY <1>1, <1>7, <1>8, EndsOfObject
    <3>5. T \in SUBSET Keywords
      BY <1>2
    <3>6. j \in T
      BY <2>1, <3>3, <3>4, <3>5 DEF KwdLinksAgree, KwdsReached
    <3> QED BY <2>1, <3>6
  <2>3. CASE ~(l \in S \/ (l = NULL /\ o = p))
    <3> DEFINE T == (S \cap kwds) \ {k}
    <3>1. \A y \in T : kwd_right[y] # k
      BY <1>1, <1>2, <1>6, <2>3, NullIsNoKeyword DEF NeighboursAgree
    <3>2. \A y \in T : kwd_right[y] # NULL => kwd_right[y] \in T
      BY <1>1, <1>2, <1>5, <2>3, <3>1, LinksOfKwd
    <3>3. first_keyword[o] # k
      <4> SUFFICES ASSUME first_keyword[o] = k PROVE o = p /\ l = NULL
        BY <2>3
      <4>1. o = p
        BY <1>1, <1>2, <1>6, NullIsNoKeyword DEF EndsAgree
      <4> QED BY <1>7, <4>1
    <3>4. first_keyword[o] # NULL => first_keyword[o] \in T
      BY <1>1, <1>8, <2>3, <3>3, EndsOfObject
    <3>5. T \in SUBSET Keywords
      BY <1>2
    <3>6. j \in T
      BY <2>1, <3>2, <3>4, <3>5 DEF KwdLinksAgree, KwdsReached
    <3> QED BY <3>6
  <2> QED BY <2>2, <2>3
<1> QED BY <1>10, <1>11, <1>12, <1>13 DEF KwdLinksAgree

LEMMA PasteLastKwdLinks ==
  ASSUME KwdsTyped, KwdLinksAgree, live \subseteq Objects, live' = live,
         NEW k \in Keywords, NEW q \in Objects, OdlPasteKwd(k, q)
  PROVE  KwdLinksAgree'
<1> DEFINE l == last_keyword[q]
<1>1. /\ kwd_parent[k] = NULL /\ k \in kwds /\ q \in live /\ kwds' = kwds
      /\ kwd_left[k] = NULL /\ kwd_right[k] = NULL
      /\ l \in kwds \cup {NULL} /\ l # k
      /\ \A j \in kwds : kwd_right[j] # k /\ kwd_left[j] # k
      /\ \A o \in Objects : first_keyword[o] # k /\ last_keyword[o] # k
  BY UnlistedStandsAlone, EndsOfObject DEF OdlPasteKwd
<1>2. kwds \subseteq Keywords
  BY DEF KwdsTyped
<1>3. NeighboursAgree /\ EndsAgree
  BY DEF KwdLinksAgree
<1>4. /\ l # NULL => kwd_parent[l] = q /\ kwd_right[l] = NULL
      /\ l = NULL <=> first_keyword[q] = NULL
  BY <1>1, <1>3, NullIsNoObject DEF EndsAgree
<1>5. \A j \in Keywords : kwd_parent'[j] = IF j = k THEN q ELSE kwd_parent[j]
  BY DEF OdlPasteKwd, KwdsTyped
<1>6. \A j \in Keywords : kwd_left'[j] = IF j = k THEN l ELSE kwd_left[j]
  BY DEF OdlPasteKwd, KwdsTyped
<1>7. \A j \in Keywords :
        kwd_right'[j] = IF j = k THEN NULL
                        ELSE IF j = l THEN k ELSE kwd_right[j]
  BY <1>1, <1>2, NullIsNoKeyword DEF OdlPasteKwd, KwdsTyped
<1>8. \A o \in Objects :
        first_keyword'[o] = IF o = q /\ l = NULL THEN k ELSE first_keyword[o]
  BY <1>4 DEF OdlPasteKwd, KwdsTyped
<1>9. \A o \in Objects :
        last_keyword'[o] = IF o = q THEN k ELSE last_keyword[o]
  BY DEF OdlPasteKwd, KwdsTyped
<1>10. KwdsDontDangle'
  BY <1>1, <1>2, <1>5, <1>6, <1>7, <1>8, <1>9, LinksOfKwd
  DEF KwdLinksAgree, KwdsDontDangle
<1>11. NeighboursAgree'
  BY <1>1, <1>2, <1>3, <1>4, <1>5, <1>6, <1>7, LinksOfKwd, NullIsNoKeyword,
     NullIsNoObject
  DEF NeighboursAgree
<1>12. EndsAgree'
  BY <1>1, <1>2, <1>3, <1>4, <1>5, <1>6, <1>7, <1>8, <1>9, LinksOfKwd,
     EndsOfObject, NullIsNoKeyword, NullIsNoObject
  DEF NeighboursAgree, EndsAgree
<1>13. KwdsReached'
  <2> SUFFICES ASSUME NEW o \in Objects, NEW S \in SUBSET Keywords,
                      first_keyword'[o] # NULL => first_keyword'[o] \in S,
                      \A y \in S : kwd_right'[y] # NULL => kwd_right'[y] \in S,
                      NEW j \in kwds', kwd_parent'[j] = o
               PROVE  j \in S
    BY DEF KwdsReached
  <2> DEFINE T == (S \cap kwds) \ {k}
  <2>1. ASSUME NEW y \in T, kwd_right[y] # NULL
        PROVE  kwd_right[y] \in T
    <3>1. y # l
      BY <1>4, <2>1, NullIsNoKeyword
    <3>2. kwd_right'[y] = kwd_right[y]
      BY <1>2, <1>7, <3>1
    <3> QED BY <1>1, <2>1, <3>2, LinksOfKwd
  <2>2. first_keyword[o] # NULL => first_keyword[o] \in T
    BY <1>1, <1>4, <1>8, EndsOfObject
  <2>3. T \in SUBSET Keywords
    OBVIOUS
  <2>4. \A z \in kwds : kwd_parent[z] = o => z \in T
    BY <2>1, <2>2, <2>3 DEF KwdLinksAgree, KwdsReached
  <2>5. CASE j # k
    BY <1>1, <1>2, <1>5, <2>4, <2>5
  <2>6. CASE j = k
    <3>1. o = q
      BY <1>5, <2>6
    <3>2. CASE l = NULL
      BY <1>8, <2>6, <3>1, <3>2, NullIsNoKeyword
    <3>3. CASE l # NULL
      BY <1>1, <1>2, <1>4, <1>7, <2>4, <2>6, <3>1, <3>3, NullIsNoKeyword
    <3> QED BY <3>2, <3>3
  <2> QED BY <2>5, <2>6
<1> QED BY <1>10, <1>11, <1>12, <1>13 DEF KwdLinksAgree

LEMMA PasteKwdBeforeLinks ==
  ASSUME KwdsTyped, KwdLinksAgree, live \subseteq Objects, live' = live,
         NEW k \in Keywords, NEW old \in Keywords, OdlPasteKwdBefore(k, old)
  PROVE  KwdLinksAgree'
<1> DEFINE l == kwd_left[old]
           p == kwd_parent[old]
<1>1. /\ kwd_parent[k] = NULL /\ k \in kwds /\ kwds' = kwds
      /\ kwd_left[k] = NULL /\ kwd_right[k] = NULL
      /\ old \in kwds /\ p \in live /\ p \in Objects /\ p # NULL /\ old # k
      /\ l \in kwds \cup {NULL} /\ l # k
      /\ \A j \in kwds : kwd_right[j] # k /\ kwd_left[j] # k
      /\ \A o \in Objects : first_keyword[o] # k /\ last_keyword[o] # k
  BY UnlistedStandsAlone, LinksOfKwd DEF OdlPasteKwdBefore, Listed
<1>2. kwds \subseteq Keywords
  BY DEF KwdsTyped
<1>3. NeighboursAgree /\ EndsAgree
  BY DEF KwdLinksAgree
<1>4. /\ l # NULL => kwd_right[l] = old /\ kwd_parent[l] = p
      /\ l = NULL <=> first_keyword[p] = old
  BY <1>1, <1>3 DEF NeighboursAgree, EndsAgree
<1>5. \A j \in Keywords : kwd_parent'[j] = IF j = k THEN p ELSE kwd_parent[j]
  BY DEF OdlPasteKwdBefore, KwdsTyped
<1>6. \A j \in Keywords :
        kwd_left'[j] = IF j = k THEN l
                       ELSE IF j = old THEN k ELSE kwd_left[j]
  BY <1>1 DEF OdlPasteKwdBefore, KwdsTyped
<1>7. \A j \in Keywords :
        kwd_right'[j] = IF j = k THEN old
                        ELSE IF j = l THEN k ELSE kwd_right[j]
  BY <1>1, <1>2, NullIsNoKeyword DEF OdlPasteKwdBefore, KwdsTyped
<1>8. \A o \in Objects :
        first_keyword'[o] = IF o = p /\ l = NULL THEN k ELSE first_keyword[o]
  BY <1>1 DEF OdlPasteKwdBefore, KwdsTyped
<1>9. last_keyword' = last_keyword
  BY DEF OdlPasteKwdBefore
<1>10. KwdsDontDangle'
  BY <1>1, <1>2, <1>5, <1>6, <1>7, <1>8, <1>9, LinksOfKwd
  DEF KwdLinksAgree, KwdsDontDangle
<1>11. NeighboursAgree'
  BY <1>1, <1>2, <1>3, <1>4, <1>5, <1>6, <1>7, LinksOfKwd, NullIsNoKeyword
  DEF NeighboursAgree
<1>12. EndsAgree'
  BY <1>1, <1>2, <1>3, <1>4, <1>5, <1>6, <1>7, <1>8, <1>9, LinksOfKwd,
     EndsOfObject, NullIsNoKeyword, NullIsNoObject
  DEF NeighboursAgree, EndsAgree
<1>13. KwdsReached'
  <2> SUFFICES ASSUME NEW o \in Objects, NEW S \in SUBSET Keywords,
                      first_keyword'[o] # NULL => first_keyword'[o] \in S,
                      \A y \in S : kwd_right'[y] # NULL => kwd_right'[y] \in S,
                      NEW j \in kwds', kwd_parent'[j] = o
               PROVE  j \in S
    BY DEF KwdsReached
  <2> DEFINE T == (S \cap kwds) \ {k}
  <2>1. k \in S => old \in T
    BY <1>1, <1>2, <1>7, NullIsNoKeyword
  <2>2. ASSUME NEW y \in T, kwd_right[y] # NULL
        PROVE  kwd_right[y] \in T
    <3>1. CASE y = l
      <4>1. kwd_right[y] = old /\ kwd_right'[y] = k
        BY <1>1, <1>2, <1>4, <1>7, <3>1, NullIsNoKeyword
      <4> QED BY <1>1, <2>1, <4>1, NullIsNoKeyword
    <3>2. CASE y # l
      BY <1>1, <1>2, <1>7, <2>2, <3>2, LinksOfKwd
    <3> QED BY <3>1, <3>2
  <2>3. first_keyword[o] # NULL => first_keyword[o] \in T
    <3>1. CASE l = NULL /\ o = p
      BY <1>1, <1>4, <1>8, <2>1, <3>1, NullIsNoKeyword
    <3>2. CASE ~(l = NULL /\ o = p)
      BY <1>1, <1>8, <3>2, EndsOfObject
    <3> QED BY <3>1, <3>2
  <2>4. T \in SUBSET Keywords
    OBVIOUS
  <2>5. \A z \in kwds : kwd_parent[z] = o => z \in T
    BY <2>2, <2>3, <2>4 DEF KwdLinksAgree, KwdsReached
  <2>6. CASE j # k
    BY <1>1, <1>2, <1>5, <2>5, <2>6
  <2>7. CASE j = k
    <3>1. o = p
      BY <1>5, <2>7
    <3>2. CASE l = NULL
      BY <1>8, <2>7, <3>1, <3>2, NullIsNoKeyword
    <3>3. CASE l # NULL
      <4>1. l \in T
        BY <1>1, <1>4, <2>5, <3>1, <3>3
      <4>2. kwd_right'[l] = k
        BY <1>1, <1>2, <1>7, <3>3
      <4> QED BY <2>7, <4>1, <4>2, NullIsNoKeyword
    <3> QED BY <3>2, <3>3
  <2> QED BY <2>6, <2>7
<1> QED BY <1>10, <1>11, <1>12, <1>13 DEF KwdLinksAgree

LEMMA PasteKwdAfterLinks ==
  ASSUME KwdsTyped, KwdLinksAgree, live \subseteq Objects, live' = live,
         NEW k \in Keywords, NEW old \in Keywords, OdlPasteKwdAfter(k, old)
  PROVE  KwdLinksAgree'
<1> DEFINE r == kwd_right[old]
           p == kwd_parent[old]
<1>1. /\ kwd_parent[k] = NULL /\ k \in kwds /\ kwds' = kwds
      /\ kwd_left[k] = NULL /\ kwd_right[k] = NULL
      /\ old \in kwds /\ p \in live /\ p \in Objects /\ p # NULL /\ old # k
      /\ r \in kwds \cup {NULL} /\ r # k
      /\ \A j \in kwds : kwd_right[j] # k /\ kwd_left[j] # k
      /\ \A o \in Objects : first_keyword[o] # k /\ last_keyword[o] # k
  BY UnlistedStandsAlone, LinksOfKwd DEF OdlPasteKwdAfter, Listed
<1>2. kwds \subseteq Keywords
  BY DEF KwdsTyped
<1>3. NeighboursAgree /\ EndsAgree
  BY DEF KwdLinksAgree
<1>4. /\ r # NULL => kwd_left[r] = old /\ kwd_parent[r] = p
      /\ r = NULL <=> last_keyword[p] = old
  BY <1>1, <1>3 DEF NeighboursAgree, EndsAgree
<1>5. \A j \in Keywords : kwd_parent'[j] = IF j = k THEN p ELSE kwd_parent[j]
  BY DEF OdlPasteKwdAfter, KwdsTyped
<1>6. \A j \in Keywords :
        kwd_left'[j] = IF j = k THEN old
                       ELSE IF j = r THEN k ELSE kwd_left[j]
  BY <1>1, <1>2, NullIsNoKeyword DEF OdlPasteKwdAfter, KwdsTyped
<1>7. \A j \in Keywords :
        kwd_right'[j] = IF j = k THEN r
                        ELSE IF j = old THEN k ELSE kwd_right[j]
  BY <1>1 DEF OdlPasteKwdAfter, KwdsTyped
<1>8. first_keyword' = first_keyword
  BY DEF OdlPasteKwdAfter
<1>9. \A o \in Objects :
        last_keyword'[o] = IF o = p /\ r = NULL THEN k ELSE last_keyword[o]
  BY <1>1 DEF OdlPasteKwdAfter, KwdsTyped
<1>10. KwdsDontDangle'
  BY <1>1, <1>2, <1>5, <1>6, <1>7, <1>8, <1>9, LinksOfKwd
  DEF KwdLinksAgree, KwdsDontDangle
<1>11. NeighboursAgree'
  BY <1>1, <1>2, <1>3, <1>4, <1>5, <1>6, <1>7, LinksOfKwd, NullIsNoKeyword
  DEF NeighboursAgree
<1>12. EndsAgree'
  BY <1>1, <1>2, <1>3, <1>4, <1>5, <1>6, <1>7, <1>8, <1>9, LinksOfKwd,
     EndsOfObject, NullIsNoKeyword, NullIsNoObject
  DEF NeighboursAgree, EndsAgree
<1>13. KwdsReached'
  <2> SUFFICES ASSUME NEW o \in Objects, NEW S \in SUBSET Keywords,
                      first_keyword'[o] # NULL => first_keyword'[o] \in S,
                      \A y \in S : kwd_right'[y] # NULL => kwd_right'[y] \in S,
                      NEW j \in kwds', kwd_parent'[j] = o
               PROVE  j \in S
    BY DEF KwdsReached
  <2> DEFINE T == (S \cap kwds) \ {k}
  <2>1. ASSUME NEW y \in T, kwd_right[y] # NULL
        PROVE  kwd_right[y] \in T
    <3>1. CASE y = old
      <4>1. k \in S
        BY <1>1, <1>7, <3>1, NullIsNoKeyword
      <4>2. kwd_right'[k] = kwd_right[y]
        BY <1>7, <3>1
      <4> QED BY <1>1, <2>1, <3>1, <4>1, <4>2
    <3>2. CASE y # old
      BY <1>1, <1>2, <1>7, <2>1, <3>2, LinksOfKwd
    <3> QED BY <3>1, <3>2
  <2>2. first_keyword[o] # NULL => first_keyword[o] \in T
    BY <1>1, <1>8, EndsOfObject
  <2>3. T \in SUBSET Keywords
    OBVIOUS
  <2>4. \A z \in kwds : kwd_parent[z] = o => z \in T
    BY <2>1, <2>2, <2>3 DEF KwdLinksAgree, KwdsReached
  <2>5. CASE j # k
    BY <1>1, <1>2, <1>5, <2>4, <2>5
  <2>6. CASE j = k
    <3>1. old \in T
      BY <1>1, <1>5, <2>4, <2>6
    <3>2. kwd_right'[old] = k
      BY <1>1, <1>7
    <3> QED BY <2>6, <3>1, <3>2, NullIsNoKeyword
  <2> QED BY <2>5, <2>6
<1> QED BY <1>10, <1>11, <1>12, <1>13 DEF KwdLinksAgree

-----------------------------------------------------------------------------
(* Freeing.  A loop along a list from an object's first keyword meets the   *)
(* object's keywords and no others.                                        *)

LEMMA OnwardIsClosed ==
  ASSUME KwdsTyped, NEW k \in Keywords
  PROVE  /\ k \in Onward(k) /\ Onward(k) \in SUBSET Keywords
         /\ \A y \in Onward(k) : kwd_right[y] # NULL => kwd_right[y] \in Onward(k)
<1>1. k \in Onward(k) /\ Onward(k) \in SUBSET Keywords
  BY DEF Onward
<1>2. ASSUME NEW y \in Onward(k), kwd_right[y] # NULL
      PROVE  kwd_right[y] \in Onward(k)
  <2>1. kwd_right[y] \in Keywords
    BY <1>1, <1>2 DEF KwdsTyped
  <2>2. ASSUME NEW S \in SUBSET Keywords, k \in S,
               \A z \in S : kwd_right[z] # NULL => kwd_right[z] \in S
        PROVE  kwd_right[y] \in S
    <3>1. y \in S
      BY <2>2 DEF Onward
    <3> QED BY <1>2, <2>2, <3>1
  <2> QED BY <2>1, <2>2 DEF Onward
<1> QED BY <1>1, <1>2

LEMMA OnwardIsLeast ==
  ASSUME NEW k \in Keywords, NEW S \in SUBSET Keywords, k \in S,
         \A y \in S : kwd_right[y] # NULL => kwd_right[y] \in S
  PROVE  Onward(k) \subseteq S
BY DEF Onward

\* The loop of OdlFreeAllKwds frees an object's keywords and no others.
LEMMA ListHoldsItsKeywords ==
  ASSUME KwdsTyped, KwdLinksAgree, NEW o \in Objects
  PROVE  KwdsOf(o) = {k \in kwds : kwd_parent[k] = o}
<1> DEFINE Own == {k \in kwds : kwd_parent[k] = o}
<1>1. NeighboursAgree /\ EndsAgree /\ KwdsReached
  BY DEF KwdLinksAgree
<1>2. kwds \subseteq Keywords
  BY DEF KwdsTyped
<1>3. CASE first_keyword[o] = NULL
  <2>1. ASSUME NEW k \in kwds, kwd_parent[k] = o PROVE FALSE
    <3> DEFINE S == {x \in Keywords : FALSE}
    <3>1. S \in SUBSET Keywords /\ \A y \in S : FALSE
      OBVIOUS
    <3> HIDE DEF S
    <3>2. k \in S
      BY <1>1, <1>3, <2>1, <3>1 DEF KwdsReached
    <3> QED BY <3>1, <3>2
  <2> QED BY <1>3, <2>1 DEF KwdsOf
<1>4. CASE first_keyword[o] # NULL
  <2> DEFINE f == first_keyword[o]
  <2>1. f \in kwds /\ f \in Keywords /\ kwd_parent[f] = o
    BY <1>1, <1>2, <1>4, EndsOfObject DEF EndsAgree
  <2>2. KwdsOf(o) = Onward(f)
    BY <1>4 DEF KwdsOf
  <2>3. Onward(f) \subseteq Own
    <3>1. \A y \in Own : kwd_right[y] # NULL => kwd_right[y] \in Own
      BY <1>1, LinksOfKwd DEF NeighboursAgree
    <3>2. f \in Own /\ Own \in SUBSET Keywords
      BY <1>2, <2>1
    <3> HIDE DEF Own, f
    <3> QED BY <2>1, <3>1, <3>2, OnwardIsLeast
  <2>4. Own \subseteq Onward(f)
    <3>1. /\ f \in Onward(f) /\ Onward(f) \in SUBSET Keywords
          /\ \A y \in Onward(f) : kwd_right[y] # NULL => kwd_right[y] \in Onward(f)
      BY <2>1, OnwardIsClosed
    <3> QED BY <1>1, <3>1 DEF KwdsReached
  <2> QED BY <2>2, <2>3, <2>4
<1> QED BY <1>3, <1>4

\* Freeing the lists of the objects D, which may be freed with them.
LEMMA FreeAllLinks ==
  ASSUME KwdsTyped, KwdLinksAgree, live \subseteq Objects,
         NEW D \in SUBSET Objects, FreeAllKwds(D), live' \subseteq live,
         live \ D \subseteq live'
  PROVE  KwdLinksAgree'
<1> DEFINE F == UNION {KwdsOf(o) : o \in D}
<1>1. F = {k \in kwds : kwd_parent[k] \in D}
  BY ListHoldsItsKeywords, NullIsNoObject
<1> HIDE DEF F
<1>2. kwds' = kwds \ F /\ kwds \subseteq Keywords
  BY DEF FreeAllKwds, Released, F, KwdsTyped
<1>3. \A k \in kwds' : /\ kwd_parent'[k] = kwd_parent[k]
                       /\ kwd_left'[k] = kwd_left[k]
                       /\ kwd_right'[k] = kwd_right[k]
                       /\ kwd_parent[k] \notin D
  BY <1>1, <1>2 DEF FreeAllKwds, Released, F
<1>4. \A o \in Objects :
        /\ first_keyword'[o] = IF o \in D THEN NULL ELSE first_keyword[o]
        /\ last_keyword'[o] = IF o \in D THEN NULL ELSE last_keyword[o]
  BY DEF FreeAllKwds
<1>5. NeighboursAgree /\ EndsAgree
  BY DEF KwdLinksAgree
<1>6. \A k \in kwds' : /\ kwd_left[k] \in kwds' \cup {NULL}
                       /\ kwd_right[k] \in kwds' \cup {NULL}
  BY <1>1, <1>2, <1>3, <1>5, LinksOfKwd DEF NeighboursAgree
<1>7. \A o \in Objects : o \notin D =>
        /\ first_keyword[o] \in kwds' \cup {NULL}
        /\ last_keyword[o] \in kwds' \cup {NULL}
  BY <1>1, <1>2, <1>5, EndsOfObject DEF EndsAgree
<1>8. KwdsDontDangle'
  BY <1>2, <1>3, <1>4, <1>6, <1>7, LinksOfKwd DEF KwdLinksAgree, KwdsDontDangle
<1>9. NeighboursAgree'
  BY <1>2, <1>3, <1>5, <1>6 DEF NeighboursAgree
<1>10. EndsAgree'
  BY <1>2, <1>3, <1>4, <1>5, <1>7, LinksOfKwd DEF EndsAgree
<1>11. KwdsReached'
  <2> SUFFICES ASSUME NEW o \in Objects, NEW S \in SUBSET Keywords,
                      first_keyword'[o] # NULL => first_keyword'[o] \in S,
                      \A y \in S : kwd_right'[y] # NULL => kwd_right'[y] \in S,
                      NEW k \in kwds', kwd_parent'[k] = o
               PROVE  k \in S
    BY DEF KwdsReached
  <2> DEFINE T == S \cap kwds'
  <2>1. \A y \in T : kwd_right[y] # NULL => kwd_right[y] \in T
    BY <1>3, <1>6
  <2>2. o \notin D /\ kwd_parent[k] = o /\ k \in kwds
    BY <1>2, <1>3
  <2>3. first_keyword[o] # NULL => first_keyword[o] \in T
    BY <1>4, <1>7, <2>2
  <2>4. T \in SUBSET Keywords
    OBVIOUS
  <2>5. k \in T
    BY <2>1, <2>2, <2>3, <2>4 DEF KwdLinksAgree, KwdsReached
  <2> QED BY <2>5
<1> QED BY <1>8, <1>9, <1>10, <1>11 DEF KwdLinksAgree

LEMMA FreeKwdLinks ==
  ASSUME KwdsTyped, KwdLinksAgree, live' = live, NEW f \in Keywords,
         OdlFreeKwd(f)
  PROVE  KwdLinksAgree'
<1>1. /\ f \in kwds /\ kwd_parent[f] = NULL
      /\ kwd_left[f] = NULL /\ kwd_right[f] = NULL
      /\ \A j \in kwds : kwd_right[j] # f /\ kwd_left[j] # f
      /\ \A o \in Objects : first_keyword[o] # f /\ last_keyword[o] # f
  BY UnlistedStandsAlone DEF OdlFreeKwd
<1>2. /\ kwds' = kwds \ {f} /\ kwds \subseteq Keywords
      /\ first_keyword' = first_keyword /\ last_keyword' = last_keyword
  BY DEF OdlFreeKwd, Released, KwdsTyped
<1>3. \A k \in kwds' : /\ kwd_parent'[k] = kwd_parent[k]
                       /\ kwd_left'[k] = kwd_left[k]
                       /\ kwd_right'[k] = kwd_right[k]
  BY <1>2 DEF OdlFreeKwd, Released
<1>4. KwdsDontDangle'
  BY <1>1, <1>2, <1>3 DEF KwdLinksAgree, KwdsDontDangle
<1>5. NeighboursAgree'
  BY <1>1, <1>2, <1>3, LinksOfKwd DEF KwdLinksAgree, NeighboursAgree
<1>6. EndsAgree'
  BY <1>1, <1>2, <1>3, EndsOfObject DEF KwdLinksAgree, EndsAgree
<1>7. KwdsReached'
  <2> SUFFICES ASSUME NEW o \in Objects, NEW S \in SUBSET Keywords,
                      first_keyword'[o] # NULL => first_keyword'[o] \in S,
                      \A y \in S : kwd_right'[y] # NULL => kwd_right'[y] \in S,
                      NEW k \in kwds', kwd_parent'[k] = o
               PROVE  k \in S
    BY DEF KwdsReached
  <2> DEFINE T == S \cap kwds'
  <2>1. \A y \in T : kwd_right[y] # NULL => kwd_right[y] \in T
    BY <1>1, <1>2, <1>3, LinksOfKwd
  <2>2. first_keyword[o] # NULL => first_keyword[o] \in T
    BY <1>1, <1>2, EndsOfObject
  <2>3. T \in SUBSET Keywords
    OBVIOUS
  <2>4. k \in kwds /\ kwd_parent[k] = o
    BY <1>2, <1>3
  <2>5. k \in T
    BY <2>1, <2>2, <2>3, <2>4 DEF KwdLinksAgree, KwdsReached
  <2> QED BY <2>5
<1> QED BY <1>4, <1>5, <1>6, <1>7 DEF KwdLinksAgree

-----------------------------------------------------------------------------
LEMMA EditKwdsLinks ==
  ASSUME KwdsTyped, KwdLinksAgree, live \subseteq Objects, EditKwds
  PROVE  KwdLinksAgree'
<1>1. pc = "idle" /\ live' = live
  BY DEF EditKwds, links
<1>2. ASSUME NEW k \in Keywords, NEW n, NEW v, OdlNewKwd(k, n, v)
      PROVE  KwdLinksAgree'
  BY <1>1, <1>2, NewKwdLinks DEF OdlNewKwd
<1>3. ASSUME NEW j \in Keywords, NEW k \in Keywords, OdlCopyKwd(j, k)
      PROVE  KwdLinksAgree'
  BY <1>1, <1>3, NewKwdLinks DEF OdlCopyKwd
<1>4. ASSUME NEW o \in Objects, OdlFreeAllKwds(o)
      PROVE  KwdLinksAgree'
  BY <1>1, <1>4, FreeAllLinks DEF OdlFreeAllKwds
<1> QED
  BY <1>1, <1>2, <1>3, <1>4, CutKwdLinks, PasteLastKwdLinks,
     PasteKwdBeforeLinks, PasteKwdAfterLinks, FreeKwdLinks
  DEF EditKwds

\* An edit of the tree that frees nothing gives no list to a new object.
LEMMA EditTreeLinks ==
  ASSUME TypeOK, KwdLinksAgree, EditTree
  PROVE  KwdLinksAgree'
<1>1. UNCHANGED kwd_links
  BY DEF EditTree
<1>2. live \subseteq live'
  BY DEF EditTree, OdlNewObjDesc, OdlCopyObjDesc, NewBlock, OdlPasteObjDesc,
         OdlPasteObjDescBefore, OdlPasteObjDescAfter, OdlCutObjDesc
<1>3. live' \subseteq Objects
  BY EditTreeTyped DEF TypeOK
<1>4. \A o \in live' \ live : first_keyword[o] = NULL
  BY <1>3 DEF KwdLinksAgree, KwdsDontDangle
<1> QED BY <1>1, <1>2, <1>3, <1>4, KwdLinksKept

LEMMA LabelNextLinks ==
  LabelTypeOK /\ KwdLinksAgree /\ [LabelNext]_label_vars => KwdLinksAgree'
<1> SUFFICES ASSUME LabelTypeOK, KwdLinksAgree, [LabelNext]_label_vars
             PROVE  KwdLinksAgree'
  OBVIOUS
<1>1. TypeOK /\ KwdsTyped /\ live \subseteq Objects
  BY TypesOfLabel DEF TypeOK
<1>2. CASE EditTree
  BY <1>1, <1>2, EditTreeLinks
<1>3. CASE EditKwds
  BY <1>1, <1>3, EditKwdsLinks
<1>4. CASE EditBoth
  <2>1. PICK o \in Objects : FreeTree(o)
    BY <1>4 DEF EditBoth
  <2>2. live' = live \ Tree(o) /\ Tree(o) \in SUBSET Objects
    BY <2>1 DEF FreeTree, OdlFreeTree, Tree
  <2>3. FreeAllKwds(Tree(o))
    BY <2>1 DEF FreeTree
  <2> QED BY <1>1, <2>2, <2>3, FreeAllLinks
<1>5. CASE Search \/ WalkOn \/ SearchReturns \/ UNCHANGED label_vars
  <2>1. UNCHANGED kwd_links /\ live' = live
    BY <1>5 DEF Search, OdlFindKwd, OdlNextKwd, FindObject, BeginSearch,
                WalkOn, OdlAdjustObjDescLevel, SearchKwd, NextList, NextObject,
                ClimbOn, Climb, SearchReturns, FindReturns, label_vars, vars,
                links
  <2> QED BY <1>1, <2>1, KwdLinksKept
<1> QED BY <1>2, <1>3, <1>4, <1>5 DEF LabelNext

\* The keyword pointers agree with each other and with the objects', reach
\* every keyword and lead to allocated keywords only, whatever is made, cut,
\* pasted, copied, freed and searched for, on any number of objects and
\* keywords: OdlFreeTree takes every keyword of its objects with it and none of
\* another's.
THEOREM KwdLinksAlwaysAgree == LabelSpec => []KwdLinksAgree
<1> QED BY LabelInitLinks, LabelNextLinks, LabelTypeCorrect, PTL DEF LabelSpec

-----------------------------------------------------------------------------
(* The lists.  The keywords of an object are chained as the children of an *)
(* object are, so the lemmas of OdlTreeProofs on lines speak of them too.   *)

KwdChain == [all |-> kwds, up |-> kwd_parent, first |-> first_keyword,
             next |-> kwd_right]
KwdLines == HaveLines(KwdChain)
KwdLists == [o \in Objects |-> List(o)]
Texts == [k \in Keywords |-> <<name[k], value[k]>>]

LEMMA ListsAreLines == KwdLists = LinesOf(KwdChain)
BY DEF KwdLists, List, LinesOf, LineOn, KwdChain

LEMMA ListsAreLinesAfter == KwdLists' = LinesOf(KwdChain')
BY DEF KwdLists, List, LinesOf, LineOn, KwdChain

\* What the conjuncts of the invariant say together.
ListsStand == KwdsTyped /\ KwdLinksAgree /\ KwdLines /\ live \subseteq Objects

\* The keywords in the list of o are those whose object it is.
LEMMA ListHolds ==
  ASSUME KwdLines, NEW o \in Objects
  PROVE  Range(KwdLists[o]) = {k \in kwds : kwd_parent[k] = o}
<1>1. KwdChain.all = kwds /\ KwdChain.up = kwd_parent
  BY DEF KwdChain
<1>2. Range(LinesOf(KwdChain)[o])
        = {k \in KwdChain.all : KwdChain.up[k] = o}
  BY LineHolds DEF KwdLines
<1> QED BY <1>1, <1>2, ListsAreLines

LEMMA OwnerInLists ==
  ASSUME ListsStand, NEW k \in kwds
  PROVE  /\ Lists!IsListed(k) <=> kwd_parent[k] # NULL
         /\ kwd_parent[k] # NULL =>
              kwd_parent[k] \in Objects /\ Lists!OwnerOf(k) = kwd_parent[k]
<1>1. kwd_parent[k] \in Objects \cup {NULL} /\ NULL \notin Objects
  BY LinksOfKwd, NullIsNoObject DEF ListsStand
<1>2. \A o \in Objects : k \in Range(KwdLists[o]) <=> kwd_parent[k] = o
  BY ListHolds DEF ListsStand
<1>3. Lists!IsListed(k) <=> \E o \in Objects : k \in Range(KwdLists[o])
  BY DEF Lists!IsListed, Lists!Range, Range, KwdLists
<1>4. Lists!OwnerOf(k) = CHOOSE o \in Objects : k \in Range(KwdLists[o])
  BY DEF Lists!OwnerOf, Lists!Range, Range, KwdLists
<1>5. ASSUME kwd_parent[k] # NULL PROVE Lists!OwnerOf(k) = kwd_parent[k]
  BY <1>1, <1>2, <1>4, <1>5
<1> QED BY <1>1, <1>2, <1>3, <1>5

\* A listed keyword's list, its place there, and what its pointers say of it.
KwdAt(k, p, n, s, i) ==
  /\ p \in Objects /\ p # NULL /\ n \in Nat /\ s \in [1..n -> kwds]
  /\ i \in 1..n /\ s[i] = k
  /\ IsLine(KwdChain, p, n, s) /\ kwd_parent[k] = p
  /\ KwdLists[p] = s /\ Lists!IsListed(k) /\ Lists!OwnerOf(k) = p
  /\ Lists!Position(k) = i
  /\ kwd_left[k] = (IF i = 1 THEN NULL ELSE s[i - 1])
  /\ kwd_right[k] = (IF i = n THEN NULL ELSE s[i + 1])
  /\ first_keyword[p] = s[1]
  /\ \A j \in 1..n : s[j] # NULL /\ (i > 1 /\ j = i - 1 => s[j] # k)

LEMMA KwdInLists ==
  ASSUME ListsStand, NEW k \in Keywords, Listed(k)
  PROVE  \E p, n, s, i : KwdAt(k, p, n, s, i)
<1>1. PICK p \in Objects : p = kwd_parent[k]
  BY OwnerInLists DEF Listed
<1>2. /\ k \in kwds /\ p # NULL /\ kwds \subseteq Keywords
      /\ NULL \notin Keywords /\ HaveLines(KwdChain)
      /\ KwdChain.all = kwds /\ KwdChain.up = kwd_parent
  BY <1>1, NullIsNoKeyword DEF Listed, ListsStand, KwdsTyped, KwdLines, KwdChain
<1>3. \E n \in Nat : \E s \in [1..n -> kwds] : \E i \in 1..n :
        IsLine(KwdChain, p, n, s) /\ s[i] = k
  BY <1>1, <1>2, OnLine
<1>4. PICK n \in Nat : \E s \in [1..n -> kwds] : \E i \in 1..n :
        IsLine(KwdChain, p, n, s) /\ s[i] = k
  BY <1>3
<1>5. PICK s \in [1..n -> kwds] : \E i \in 1..n :
        IsLine(KwdChain, p, n, s) /\ s[i] = k
  BY <1>4
<1>6. PICK i \in 1..n : IsLine(KwdChain, p, n, s) /\ s[i] = k
  BY <1>5
<1>7. KwdLists[p] = s
  BY <1>2, <1>6, ListsAreLines, LineIsLine DEF LinesOf
<1>8. Lists!IsListed(k) /\ Lists!OwnerOf(k) = p
  BY <1>1, <1>2, OwnerInLists
<1>9. Lists!Position(k) = i
  <2> DEFINE K == KwdLists[p]
  <2>1. Lists!Position(k) = CHOOSE j \in DOMAIN K : K[j] = k
    BY <1>8 DEF Lists!Position, KwdLists
  <2> HIDE DEF K
  <2>2. K = s
    BY <1>7 DEF K
  <2>3. (CHOOSE j \in DOMAIN K : K[j] = s[i]) = i
    BY <1>2, <1>6, <2>2, PlaceOnLine
  <2> QED BY <1>6, <2>1, <2>3
<1>10. /\ kwd_right[k] = IF i = n THEN NULL ELSE s[i + 1]
       /\ first_keyword[p] = s[1]
       /\ \A j \in 1..n : s[j] # NULL /\ (i > 1 /\ j = i - 1 => s[j] # k)
  BY <1>2, <1>6 DEF IsLine, KwdChain
<1>11. NeighboursAgree /\ EndsAgree
  BY DEF ListsStand, KwdLinksAgree
<1>12. kwd_left[k] = IF i = 1 THEN NULL ELSE s[i - 1]
  <2>1. CASE i = 1
    BY <1>1, <1>2, <1>6, <1>10, <1>11, <2>1 DEF EndsAgree
  <2>2. CASE i # 1
    <3>1. i - 1 \in 1..n /\ i - 1 # n /\ (i - 1) + 1 = i
      BY <2>2
    <3>2. kwd_right[s[i - 1]] = k /\ s[i - 1] \in kwds
      BY <1>6, <3>1 DEF IsLine, KwdChain
    <3> QED BY <1>2, <1>11, <2>2, <3>2 DEF NeighboursAgree
  <2> QED BY <2>1, <2>2
<1>13. p \in Objects /\ n \in Nat /\ s \in [1..n -> kwds] /\ i \in 1..n
  OBVIOUS
<1> QED BY <1>1, <1>2, <1>6, <1>7, <1>8, <1>9, <1>10, <1>12, <1>13 DEF KwdAt

LEMMA ListsKept ==
  ASSUME KwdLines, \A q \in Objects : LineStays(KwdChain, KwdChain', q)
  PROVE  KwdLines' /\ KwdLists' = KwdLists
<1>1. HaveLines(KwdChain') /\ LinesOf(KwdChain') = LinesOf(KwdChain)
  BY NoLineChanged DEF KwdLines
<1> QED BY <1>1, ListsAreLines, ListsAreLinesAfter DEF KwdLines

LEMMA KwdJoins ==
  ASSUME NEW p, NEW x, NEW n, NEW s, NEW i,
         Joins(KwdChain, KwdChain', p, x, n, s, i)
  PROVE  KwdLines' /\ KwdLists' = [KwdLists EXCEPT ![p] = With(s, n, i, x)]
<1>1. /\ HaveLines(KwdChain')
      /\ LinesOf(KwdChain') = [LinesOf(KwdChain) EXCEPT ![p] = With(s, n, i, x)]
  BY JoinedLines
<1> QED BY <1>1, ListsAreLines, ListsAreLinesAfter DEF KwdLines

LEMMA KwdLeaves ==
  ASSUME NEW p, NEW x, NEW n, NEW s, NEW i,
         Leaves(KwdChain, KwdChain', p, x, n, s, i)
  PROVE  KwdLines' /\ KwdLists' = [KwdLists EXCEPT ![p] = Without(s, n, i)]
<1>1. /\ HaveLines(KwdChain')
      /\ LinesOf(KwdChain') = [LinesOf(KwdChain) EXCEPT ![p] = Without(s, n, i)]
  BY LeftLines
<1> QED BY <1>1, ListsAreLines, ListsAreLinesAfter DEF KwdLines

LEMMA OnKwdLine ==
  ASSUME KwdLines, NEW p \in Objects, NEW k \in kwds,
         NEW n \in Nat, NEW s \in [1..n -> kwds], IsLine(KwdChain, p, n, s)
  PROVE  At(KwdChain, p, k, n, s)
<1>1. KwdChain.all = kwds
  BY DEF KwdChain
<1> QED BY <1>1 DEF At, KwdLines

-----------------------------------------------------------------------------
(* Each edit of the keyword pointers is the edit of the lists.             *)

LEMMA NewKwdInLists ==
  ASSUME ListsStand, NEW k \in Keywords, NEW n, NEW v, NewKwdBlock(k, n, v)
  PROVE  KwdLines' /\ Lists!New(k)
<1>1. /\ k \notin kwds /\ kwds' = kwds \cup {k} /\ kwds \subseteq Keywords
      /\ first_keyword' = first_keyword /\ kwd_parent'[k] = NULL
      /\ \A j \in kwds : /\ kwd_parent'[j] = kwd_parent[j]
                         /\ kwd_right'[j] = kwd_right[j]
                         /\ name'[j] = name[j] /\ value'[j] = value[j]
  BY DEF NewKwdBlock, ListsStand, KwdsTyped
<1>2. ASSUME NEW q \in Objects PROVE LineStays(KwdChain, KwdChain', q)
  BY <1>1, NullIsNoObject DEF LineStays, KwdChain
<1>3. KwdLines' /\ KwdLists' = KwdLists
  BY <1>2, ListsKept DEF ListsStand
<1>4. Lists!Keeps(kwds)
  BY <1>1 DEF Lists!Keeps
<1> QED BY <1>1, <1>3, <1>4 DEF Lists!New, KwdLists

LEMMA CutKwdInLists ==
  ASSUME ListsStand, NEW k \in Keywords, OdlCutKwd(k)
  PROVE  KwdLines' /\ Lists!Cut(k)
<1>1. PICK p, n, s, i : KwdAt(k, p, n, s, i)
  BY KwdInLists DEF OdlCutKwd
<1>2. /\ p \in Objects /\ p # NULL /\ n \in Nat /\ s \in [1..n -> kwds]
      /\ i \in 1..n /\ s[i] = k
      /\ IsLine(KwdChain, p, n, s) /\ kwd_parent[k] = p
      /\ kwd_left[k] = (IF i = 1 THEN NULL ELSE s[i - 1])
      /\ kwd_right[k] = (IF i = n THEN NULL ELSE s[i + 1])
      /\ first_keyword[p] = s[1]
      /\ \A j \in 1..n : s[j] # NULL /\ (i > 1 /\ j = i - 1 => s[j] # k)
  BY <1>1 DEF KwdAt
<1>3. /\ k \in kwds /\ kwds' = kwds /\ kwds \subseteq Keywords
      /\ name' = name /\ value' = value
  BY DEF OdlCutKwd, Listed, ListsStand, KwdsTyped
<1>4. kwd_parent' = [kwd_parent EXCEPT ![k] = NULL] /\ k \in DOMAIN kwd_parent
  BY DEF OdlCutKwd, ListsStand, KwdsTyped
<1>5. \A q \in Objects :
        first_keyword'[q] = IF q # p \/ i # 1 THEN first_keyword[q]
                            ELSE IF n = 1 THEN NULL ELSE s[2]
  <2>1. first_keyword[p] = k <=> i = 1
    BY <1>2 DEF IsLine
  <2>2. kwd_right[k] = IF i = n THEN NULL ELSE s[i + 1]
    BY <1>2
  <2> QED BY <1>2, <2>1, <2>2 DEF OdlCutKwd, EndsWithout, ListsStand, KwdsTyped
<1>6. i > 1 => i - 1 \in 1..n /\ s[i - 1] \in kwds /\ s[i - 1] # k
  BY <1>2
<1>7. i > 1 => kwd_right'[s[i - 1]] = IF i = n THEN NULL ELSE s[i + 1]
  BY <1>2, <1>3, <1>6 DEF OdlCutKwd, ListsStand, KwdsTyped
<1>8. \A y \in kwds : y # k /\ (i > 1 => y # s[i - 1]) =>
                        kwd_right'[y] = kwd_right[y]
  BY <1>2, <1>3, <1>6 DEF OdlCutKwd, ListsStand, KwdsTyped
<1>9. At(KwdChain, p, k, n, s)
  BY <1>2, <1>3, OnKwdLine DEF ListsStand
<1>10. Leaves(KwdChain, KwdChain', p, k, n, s, i)
  BY <1>2, <1>3, <1>4, <1>5, <1>7, <1>8, <1>9 DEF Leaves, KwdChain
<1>11. KwdLines' /\ KwdLists' = [KwdLists EXCEPT ![p] = Without(s, n, i)]
  BY <1>10, KwdLeaves
<1>12. Lists!RemoveAt(s, i) = Without(s, n, i)
  <2>1. RemoveAt(s, i) = Without(s, n, i)
    BY <1>2, RemoveIsWithout
  <2> QED BY <2>1 DEF Lists!RemoveAt, RemoveAt
<1>13. /\ Lists!IsListed(k) /\ Lists!OwnerOf(k) = p /\ Lists!Position(k) = i
       /\ KwdLists[p] = s
  BY <1>1 DEF KwdAt
<1>14. KwdLists' = [KwdLists EXCEPT ![Lists!OwnerOf(k)]
                      = Lists!RemoveAt(KwdLists[Lists!OwnerOf(k)],
                                       Lists!Position(k))]
  BY <1>11, <1>12, <1>13
<1> QED BY <1>3, <1>11, <1>13, <1>14 DEF Lists!Cut, KwdLists

\* A keyword of no list has a place in one.
LEMMA MayJoin ==
  ASSUME ListsStand, NEW k \in Keywords, Unlisted(k), kwds' = kwds,
         UNCHANGED <<name, value>>
  PROVE  Lists!CanJoin(k)
<1>1. k \in kwds /\ ~Lists!IsListed(k)
  BY OwnerInLists DEF Unlisted
<1> QED BY <1>1 DEF Lists!CanJoin

LEMMA PasteKwdInLists ==
  ASSUME ListsStand, NEW k \in Keywords, NEW p \in Objects, OdlPasteKwd(k, p)
  PROVE  KwdLines' /\ Lists!Paste(k, p)
<1> DEFINE l == last_keyword[p]
<1>1. /\ k \in kwds /\ Unlisted(k) /\ kwd_parent[k] = NULL
      /\ kwds' = kwds /\ name' = name /\ value' = value
      /\ kwds \subseteq Keywords /\ NULL \notin Keywords /\ p # NULL
      /\ HaveLines(KwdChain)
  BY NullIsNoKeyword, NullIsNoObject
  DEF OdlPasteKwd, Unlisted, ListsStand, KwdsTyped, KwdLines
<1>2. PICK n \in Nat : \E s \in [1..n -> kwds] : IsLine(KwdChain, p, n, s)
  <2>1. KwdChain.all = kwds
    BY DEF KwdChain
  <2> QED BY <1>1, <2>1 DEF HaveLines, HasLine
<1>3. PICK s \in [1..n -> kwds] : IsLine(KwdChain, p, n, s)
  BY <1>2
<1>4. NeighboursAgree /\ EndsAgree
  BY DEF ListsStand, KwdLinksAgree
<1>5. /\ n = 0 => first_keyword[p] = NULL /\ l = NULL
      /\ n > 0 => first_keyword[p] # NULL /\ l = s[n] /\ l \in kwds /\ l # k
  <2>1. CASE n = 0
    BY <1>3, <1>4, <2>1 DEF IsLine, KwdChain, EndsAgree
  <2>2. CASE n > 0
    <3>1. /\ s[n] \in kwds /\ kwd_parent[s[n]] = p /\ kwd_right[s[n]] = NULL
          /\ s[1] = first_keyword[p] /\ s[1] \in kwds
      BY <1>3, <2>2 DEF IsLine, KwdChain
    <3>2. last_keyword[p] = s[n]
      BY <1>1, <1>4, <3>1 DEF EndsAgree
    <3> QED BY <1>1, <2>2, <3>1, <3>2
  <2> QED BY <2>1, <2>2
<1>6. n + 1 \in 1..(n + 1) /\ (n + 1) - 1 = n /\ (n + 1 > 1 <=> n > 0)
      /\ (n + 1 = 1 <=> n = 0)
  OBVIOUS
<1>7. Joins(KwdChain, KwdChain', p, k, n, s, n + 1)
  <2>1. /\ kwd_parent' = [kwd_parent EXCEPT ![k] = p]
        /\ k \in DOMAIN kwd_parent
    BY DEF OdlPasteKwd, ListsStand, KwdsTyped
  <2>2. \A q \in Objects : first_keyword'[q] =
          IF q = p /\ n + 1 = 1 THEN k ELSE first_keyword[q]
    BY <1>1, <1>5, <1>6 DEF OdlPasteKwd, ListsStand, KwdsTyped
  <2>3. kwd_right'[k] = NULL
    BY <1>1, <1>5 DEF OdlPasteKwd, ListsStand, KwdsTyped
  <2>4. n > 0 => kwd_right'[s[n]] = k
    BY <1>1, <1>5 DEF OdlPasteKwd, ListsStand, KwdsTyped
  <2>5. \A y \in kwds : y # k /\ (n > 0 => y # s[n]) =>
                          kwd_right'[y] = kwd_right[y]
    BY <1>1, <1>5 DEF OdlPasteKwd, ListsStand, KwdsTyped
  <2>6. At(KwdChain, p, k, n, s)
    BY <1>1, <1>3, OnKwdLine DEF ListsStand
  <2> QED
    BY <1>1, <1>6, <2>1, <2>2, <2>3, <2>4, <2>5, <2>6 DEF Joins, KwdChain
<1>8. KwdLines' /\ KwdLists' = [KwdLists EXCEPT ![p] = With(s, n, n + 1, k)]
  BY <1>7, KwdJoins
<1>9. KwdLists[p] = s
  <2>1. s \in [1..n -> KwdChain.all]
    BY DEF KwdChain
  <2> QED BY <1>3, <2>1, ListsAreLines, LineIsLine DEF LinesOf
<1>10. KwdLists' = [KwdLists EXCEPT ![p] = Append(KwdLists[p], k)]
  BY <1>1, <1>8, <1>9, AppendIsWith
<1>11. Lists!CanJoin(k)
  BY <1>1, MayJoin
<1> QED BY <1>8, <1>10, <1>11 DEF Lists!Paste, KwdLists

LEMMA PasteKwdBesideInLists ==
  ASSUME ListsStand, NEW k \in Keywords, NEW old \in Keywords,
         OdlPasteKwdBefore(k, old) \/ OdlPasteKwdAfter(k, old)
  PROVE  KwdLines' /\ (Lists!PasteBefore(k, old) \/ Lists!PasteAfter(k, old))
<1>1. /\ k \in kwds /\ Unlisted(k) /\ kwd_parent[k] = NULL
      /\ Listed(old) /\ old \in kwds
      /\ kwds' = kwds /\ name' = name /\ value' = value
      /\ kwds \subseteq Keywords /\ NULL \notin Keywords
  BY NullIsNoKeyword
  DEF OdlPasteKwdBefore, OdlPasteKwdAfter, Listed, Unlisted, ListsStand, KwdsTyped
<1>2. PICK p, n, s, i : KwdAt(old, p, n, s, i)
  BY <1>1, KwdInLists
<1>3. /\ p \in Objects /\ p # NULL /\ n \in Nat /\ s \in [1..n -> kwds]
      /\ i \in 1..n /\ s[i] = old
      /\ IsLine(KwdChain, p, n, s) /\ kwd_parent[old] = p
      /\ kwd_left[old] = (IF i = 1 THEN NULL ELSE s[i - 1])
      /\ kwd_right[old] = (IF i = n THEN NULL ELSE s[i + 1])
      /\ first_keyword[p] = s[1]
      /\ \A j \in 1..n : s[j] # NULL
  BY <1>2 DEF KwdAt
<1>4. \A j \in 1..n : s[j] \in kwds /\ s[j] \in Keywords /\ s[j] # k
  BY <1>1, <1>3 DEF IsLine, KwdChain
<1>5. i \in 1..(n + 1) /\ i + 1 \in 1..(n + 1) /\ (i > 1 => i - 1 \in 1..n)
      /\ (i + 1) - 1 = i /\ i # n + 1 /\ (i + 1 = n + 1 <=> i = n) /\ i + 1 > 1
      /\ i + 1 # 1
  BY <1>3
<1>6. /\ Lists!IsListed(old) /\ Lists!OwnerOf(old) = p
      /\ Lists!Position(old) = i /\ KwdLists[p] = s
  BY <1>2 DEF KwdAt
<1>7. Lists!CanJoin(k)
  BY <1>1, MayJoin
<1>8. At(KwdChain, p, k, n, s)
  BY <1>1, <1>3, OnKwdLine DEF ListsStand
<1>9. CASE OdlPasteKwdBefore(k, old)
  <2>1. Joins(KwdChain, KwdChain', p, k, n, s, i)
    <3>1. /\ kwd_parent' = [kwd_parent EXCEPT ![k] = p]
          /\ k \in DOMAIN kwd_parent
      BY <1>3, <1>9 DEF OdlPasteKwdBefore, ListsStand, KwdsTyped
    <3>2. \A q \in Objects :
            first_keyword'[q] = IF q = p /\ i = 1 THEN k ELSE first_keyword[q]
      BY <1>3, <1>5, <1>9 DEF OdlPasteKwdBefore, ListsStand, KwdsTyped
    <3>3. kwd_right'[k] = s[i]
      BY <1>1, <1>3, <1>4, <1>5, <1>9
      DEF OdlPasteKwdBefore, ListsStand, KwdsTyped
    <3>4. i > 1 => kwd_right'[s[i - 1]] = k
      BY <1>1, <1>3, <1>4, <1>5, <1>9
      DEF OdlPasteKwdBefore, ListsStand, KwdsTyped
    <3>5. \A y \in kwds : y # k /\ (i > 1 => y # s[i - 1]) =>
                            kwd_right'[y] = kwd_right[y]
      BY <1>1, <1>3, <1>4, <1>5, <1>9
      DEF OdlPasteKwdBefore, ListsStand, KwdsTyped
    <3> QED
      BY <1>1, <1>5, <1>8, <3>1, <3>2, <3>3, <3>4, <3>5 DEF Joins, KwdChain
  <2>2. KwdLines' /\ KwdLists' = [KwdLists EXCEPT ![p] = With(s, n, i, k)]
    BY <2>1, KwdJoins
  <2>3. Lists!InsertAt(s, i, k) = With(s, n, i, k)
    <3>1. InsertAt(s, i, k) = With(s, n, i, k)
      BY <1>1, <1>3, <1>5, InsertIsWith
    <3> QED BY <3>1 DEF Lists!InsertAt, InsertAt
  <2>4. KwdLists' = [KwdLists EXCEPT ![Lists!OwnerOf(old)]
                       = Lists!InsertAt(KwdLists[Lists!OwnerOf(old)],
                                        Lists!Position(old), k)]
    BY <1>6, <2>2, <2>3
  <2> QED BY <1>6, <1>7, <2>2, <2>4 DEF Lists!PasteBefore, KwdLists
<1>10. CASE OdlPasteKwdAfter(k, old)
  <2>1. Joins(KwdChain, KwdChain', p, k, n, s, i + 1)
    <3>1. /\ kwd_parent' = [kwd_parent EXCEPT ![k] = p]
          /\ k \in DOMAIN kwd_parent
      BY <1>3, <1>10 DEF OdlPasteKwdAfter, ListsStand, KwdsTyped
    <3>2. first_keyword' = first_keyword
      BY <1>10 DEF OdlPasteKwdAfter
    <3>3. kwd_right'[k] = IF i = n THEN NULL ELSE s[i + 1]
      BY <1>1, <1>3, <1>4, <1>10 DEF OdlPasteKwdAfter, ListsStand, KwdsTyped
    <3>4. kwd_right'[s[i]] = k
      BY <1>1, <1>3, <1>4, <1>10 DEF OdlPasteKwdAfter, ListsStand, KwdsTyped
    <3>5. \A y \in kwds : y # k /\ y # s[i] => kwd_right'[y] = kwd_right[y]
      BY <1>1, <1>3, <1>4, <1>10 DEF OdlPasteKwdAfter, ListsStand, KwdsTyped
    <3> QED
      BY <1>1, <1>5, <1>8, <3>1, <3>2, <3>3, <3>4, <3>5 DEF Joins, KwdChain
  <2>2. KwdLines' /\ KwdLists' = [KwdLists EXCEPT ![p] = With(s, n, i + 1, k)]
    BY <2>1, KwdJoins
  <2>3. Lists!InsertAt(s, i + 1, k) = With(s, n, i + 1, k)
    <3>1. InsertAt(s, i + 1, k) = With(s, n, i + 1, k)
      BY <1>1, <1>3, <1>5, InsertIsWith
    <3> QED BY <3>1 DEF Lists!InsertAt, InsertAt
  <2>4. KwdLists' = [KwdLists EXCEPT ![Lists!OwnerOf(old)]
                       = Lists!InsertAt(KwdLists[Lists!OwnerOf(old)],
                                        Lists!Position(old) + 1, k)]
    BY <1>6, <2>2, <2>3
  <2> QED BY <1>6, <1>7, <2>2, <2>4 DEF Lists!PasteAfter, KwdLists
<1> QED BY <1>9, <1>10

LEMMA FreeKwdInLists ==
  ASSUME ListsStand, NEW k \in Keywords, OdlFreeKwd(k)
  PROVE  KwdLines' /\ Lists!Free(k)
<1>1. /\ k \in kwds /\ kwd_parent[k] = NULL /\ kwds' = kwds \ {k}
      /\ kwds \subseteq Keywords /\ first_keyword' = first_keyword
      /\ \A j \in kwds' : /\ kwd_parent'[j] = kwd_parent[j]
                          /\ kwd_right'[j] = kwd_right[j]
                          /\ name'[j] = name[j] /\ value'[j] = value[j]
  BY DEF OdlFreeKwd, Unlisted, Released, ListsStand, KwdsTyped
<1>2. ASSUME NEW q \in Objects PROVE LineStays(KwdChain, KwdChain', q)
  BY <1>1, NullIsNoObject DEF LineStays, KwdChain
<1>3. KwdLines' /\ KwdLists' = KwdLists
  BY <1>2, ListsKept DEF ListsStand
<1>4. Lists!Keeps(kwds')
  BY <1>1 DEF Lists!Keeps
<1>5. ~Lists!IsListed(k)
  BY <1>1, OwnerInLists
<1> QED BY <1>1, <1>3, <1>4, <1>5 DEF Lists!Free, KwdLists

LEMMA FreeListsInLists ==
  ASSUME ListsStand, NEW D \in SUBSET Objects, FreeAllKwds(D)
  PROVE  KwdLines' /\ Lists!FreeLists(D)
<1> DEFINE F == UNION {KwdsOf(o) : o \in D}
<1>1. \A o \in D : KwdsOf(o) = {k \in kwds : kwd_parent[k] = o}
  BY ListHoldsItsKeywords DEF ListsStand
<1>2. F = {k \in kwds : kwd_parent[k] \in D}
  BY <1>1
<1>3. F = UNION {Range(KwdLists[o]) : o \in D}
  BY <1>1, ListHolds DEF ListsStand
<1>4. kwds' = kwds \ F /\ kwds \subseteq Keywords
  BY DEF FreeAllKwds, Released, ListsStand, KwdsTyped
<1>5. \A j \in kwds' : /\ kwd_parent'[j] = kwd_parent[j]
                       /\ kwd_right'[j] = kwd_right[j]
                       /\ name'[j] = name[j] /\ value'[j] = value[j]
  BY <1>4 DEF FreeAllKwds, Released
<1>6. \A o \in Objects :
        first_keyword'[o] = IF o \in D THEN NULL ELSE first_keyword[o]
  BY DEF FreeAllKwds
<1> HIDE DEF F
<1>7. \A q \in Objects \ D : LineStays(KwdChain, KwdChain', q)
  BY <1>2, <1>4, <1>5, <1>6 DEF LineStays, KwdChain
<1>8. \A q \in D : /\ KwdChain'.first[q] = NULL
                   /\ \A y \in KwdChain'.all : KwdChain'.up[y] # q
  BY <1>2, <1>4, <1>5, <1>6 DEF KwdChain
<1>9. Gone(KwdChain, KwdChain', D)
  BY <1>7, <1>8 DEF Gone
<1>10. /\ HaveLines(KwdChain')
       /\ LinesOf(KwdChain') = [q \in Objects |-> IF q \in D THEN <<>>
                                                  ELSE LinesOf(KwdChain)[q]]
  BY <1>9, LinesGone DEF ListsStand, KwdLines
<1>11. /\ KwdLines'
       /\ KwdLists' = [q \in Objects |-> IF q \in D THEN <<>> ELSE KwdLists[q]]
  BY <1>10, ListsAreLines, ListsAreLinesAfter DEF KwdLines
<1>12. Lists!Keeps(kwds')
  BY <1>4, <1>5 DEF Lists!Keeps
<1>13. kwds' = kwds \ UNION {Range(KwdLists[o]) : o \in D}
  BY <1>3, <1>4
<1> QED
  BY <1>11, <1>12, <1>13 DEF Lists!FreeLists, Lists!Range, Range, KwdLists

-----------------------------------------------------------------------------
(* The refinement.                                                         *)

LEMMA InitLists == LabelInit => KwdLines /\ Lists!Init
<1> SUFFICES ASSUME LabelInit PROVE KwdLines /\ Lists!Init
  OBVIOUS
<1>1. ASSUME NEW q \in Objects
      PROVE  HasLine(KwdChain, q) /\ LineOn(KwdChain, q) = <<>>
  <2>1. 0 \in Nat /\ <<>> \in [1..0 -> KwdChain.all] /\ 1..0 = {}
    OBVIOUS
  <2>2. IsLine(KwdChain, q, 0, <<>>)
    BY <2>1 DEF IsLine, KwdChain, LabelInit, Nowhere
  <2> QED BY <2>1, <2>2, LineIsLine
<1>2. KwdLists = [q \in Objects |-> <<>>]
  BY <1>1, ListsAreLines DEF LinesOf
<1> QED BY <1>1, <1>2 DEF KwdLines, HaveLines, KwdLists, LabelInit, Lists!Init

LEMMA EditKwdsInLists ==
  ASSUME ListsStand, EditKwds
  PROVE  KwdLines' /\ Lists!Edit
<1>1. ASSUME NEW k \in Keywords, NEW n, NEW v, NewKwdBlock(k, n, v)
      PROVE  KwdLines' /\ Lists!Edit
  BY <1>1, NewKwdInLists DEF Lists!Edit
<1>2. ASSUME NEW k \in Keywords, OdlCutKwd(k) \/ OdlFreeKwd(k)
      PROVE  KwdLines' /\ Lists!Edit
  BY <1>2, CutKwdInLists, FreeKwdInLists DEF Lists!Edit
<1>3. ASSUME NEW j \in Keywords, NEW k \in Keywords,
             OdlPasteKwdBefore(k, j) \/ OdlPasteKwdAfter(k, j)
      PROVE  KwdLines' /\ Lists!Edit
  BY <1>3, PasteKwdBesideInLists DEF Lists!Edit
<1>4. ASSUME NEW k \in Keywords, NEW o \in Objects, OdlPasteKwd(k, o)
      PROVE  KwdLines' /\ Lists!Edit
  BY <1>4, PasteKwdInLists DEF Lists!Edit
<1>5. ASSUME NEW o \in Objects, OdlFreeAllKwds(o)
      PROVE  KwdLines' /\ Lists!Edit
  <2>1. {o} \in SUBSET Objects /\ FreeAllKwds({o})
    BY <1>5 DEF OdlFreeAllKwds
  <2>2. KwdLines' /\ Lists!FreeLists({o})
    BY <2>1, FreeListsInLists
  <2> QED BY <2>1, <2>2 DEF Lists!Edit
<1> QED
  BY <1>1, <1>2, <1>3, <1>4, <1>5 DEF EditKwds, OdlNewKwd, OdlCopyKwd

LEMMA NextLists ==
  ASSUME LabelTypeOK, KwdLinksAgree, KwdLines, [LabelNext]_label_vars
  PROVE  KwdLines' /\ [Lists!Next]_<<kwds, KwdLists, Texts>>
<1>1. ListsStand
  BY TypesOfLabel DEF ListsStand, TypeOK
<1>2. ASSUME EditKwds PROVE KwdLines' /\ Lists!Edit
  BY <1>1, <1>2, EditKwdsInLists
<1>3. ASSUME EditBoth PROVE KwdLines' /\ Lists!Edit
  <2>1. PICK o \in Objects : FreeTree(o)
    BY <1>3 DEF EditBoth
  <2>2. Tree(o) \in SUBSET Objects /\ FreeAllKwds(Tree(o))
    BY <2>1 DEF FreeTree, Tree
  <2>3. KwdLines' /\ Lists!FreeLists(Tree(o))
    BY <1>1, <2>2, FreeListsInLists
  <2> QED BY <2>2, <2>3 DEF Lists!Edit
<1>4. ASSUME EditTree \/ Search \/ WalkOn \/ SearchReturns \/ UNCHANGED label_vars
      PROVE  KwdLines' /\ UNCHANGED <<kwds, KwdLists, Texts>>
  <2>1. UNCHANGED kwd_links
    BY <1>4 DEF EditTree, Search, OdlFindKwd, OdlNextKwd, FindObject,
                BeginSearch, WalkOn, SearchKwd, NextList, NextObject, ClimbOn,
                SearchReturns, label_vars
  <2>2. /\ kwds' = kwds /\ kwd_parent' = kwd_parent /\ kwd_right' = kwd_right
        /\ first_keyword' = first_keyword /\ name' = name /\ value' = value
    BY <2>1 DEF kwd_links
  <2>3. \A q \in Objects : LineStays(KwdChain, KwdChain', q)
    BY <2>2 DEF LineStays, KwdChain
  <2>4. KwdLines' /\ KwdLists' = KwdLists
    BY <2>3, ListsKept
  <2> QED BY <2>2, <2>4 DEF Texts
<1>5. KwdLines' /\ (Lists!Edit \/ UNCHANGED <<kwds, KwdLists, Texts>>)
  BY <1>2, <1>3, <1>4 DEF LabelNext
<1> QED
  BY <1>5 DEF Lists!Next, Lists!lists_and_texts, KwdLists, Texts

\* The keyword pointers implement the lists of OdlKeywordLists, on any number
\* of objects and keywords: what a caller does to a sequence of keywords is
\* what is done to the links, a keyword keeps its name and value until it is
\* freed, OdlFreeTree takes the lists of its objects whole, and no edit of the
\* tree and no search changes a list.
THEOREM PointersAreLists == LabelSpec => ImplementsLists
<1>1. LabelInit => KwdLines /\ Lists!Init
  BY InitLists
<1>2. LabelTypeOK /\ KwdLinksAgree /\ KwdLines /\ [LabelNext]_label_vars
        => /\ KwdLines'
           /\ [Lists!Next]_<<kwds, [o \in Objects |-> List(o)],
                             [k \in Keywords |-> <<name[k], value[k]>>]>>
  BY NextLists DEF KwdLists, Texts
<1> QED BY <1>1, <1>2, LabelTypeCorrect, KwdLinksAlwaysAgree, PTL
        DEF LabelSpec, ImplementsLists, Lists!Spec, Lists!lists_and_texts

-----------------------------------------------------------------------------
(* The order of a list.                                                    *)

LEMMA OnwardIsMet ==
  ASSUME KwdsTyped
  PROVE  /\ Points(Keywords, kwd_right)
         /\ \A k : Onward(k) = Met(Keywords, kwd_right, k)
<1>1. Points(Keywords, kwd_right)
  BY NullIsNoKeyword DEF KwdsTyped, Points
<1> QED BY <1>1 DEF Onward, Met

\* The keywords from k on are k and those from the next one on.
LEMMA OnwardStep ==
  ASSUME KwdsTyped, NEW k \in Keywords
  PROVE  /\ kwd_right[k] = NULL => Onward(k) = {k}
         /\ kwd_right[k] # NULL => Onward(k) = {k} \cup Onward(kwd_right[k])
BY OnwardIsMet, MetStep

-----------------------------------------------------------------------------
(* Searching.  A search of a label walks the tree as one of OdlTree does,  *)
(* so the lemmas of OdlTreeProofs on scopes and what has been passed speak *)
(* of it too.  What a search for a keyword has passed are the keywords of  *)
(* the objects passed, and those before `kwd' of the object it is at.      *)

LEMMA LabelNextTree ==
  ASSUME LabelTypeOK, LabelTypeOK', LinksAgree, NoCycles, LevelInv,
         [LabelNext]_label_vars
  PROVE  LinksAgree' /\ NoCycles' /\ LevelInv'
<1>1. TypeOK /\ TypeOK'
  BY DEF LabelTypeOK
<1>2. CASE [Next]_vars
  BY <1>1, <1>2, NextLinks, NextNoCycles, NextLevels
<1>3. CASE ~Adjusting /\ ~Adjusting' /\ UNCHANGED <<links, level>>
  <2>1. UNCHANGED Links /\ live' = live /\ parent' = parent /\ level' = level
    BY <1>3 DEF links, Links
  <2>2. Wrong' = Wrong
    BY <2>1 DEF Wrong
  <2> QED BY <1>3, <2>1, <2>2, LinksKept DEF NoCycles, LevelInv
<1>4. CASE EditTree
  BY <1>2, <1>4 DEF EditTree, Edit, Next
<1>5. CASE EditBoth
  BY <1>2, <1>5 DEF EditBoth, FreeTree, Edit, Next
<1>6. CASE EditKwds \/ UNCHANGED label_vars
  <2>1. UNCHANGED vars
    BY <1>6 DEF EditKwds, label_vars, vars
  <2> QED BY <1>2, <2>1
<1>7. CASE Search
  <2>1. PICK o, r : BeginSearch(o, r)
    BY <1>7 DEF Search, OdlFindKwd, OdlNextKwd, FindObject
  <2> QED BY <1>3, <2>1 DEF BeginSearch, Adjusting
<1>8. CASE SearchReturns
  BY <1>2, <1>8 DEF SearchReturns, Next
<1>9. CASE WalkOn
  <2>1. CASE OdlAdjustObjDescLevel \/ ClimbOn
    BY <1>2, <2>1 DEF ClimbOn, Walk, Next
  <2>2. CASE SearchKwd \/ NextList \/ NextObject
    BY <1>3, <2>2 DEF SearchKwd, NextList, NextObject, Searching, Adjusting
  <2> QED BY <1>9, <2>1, <2>2 DEF WalkOn
<1> QED BY <1>4, <1>5, <1>6, <1>7, <1>8, <1>9 DEF LabelNext

LEMMA LabelInitTree == LabelInit => LinksAgree /\ NoCycles /\ LevelInv
BY InitLinks, InitNoCycles, InitLevels DEF LabelInit

LEMMA LabelTreeStands == LabelSpec => [](LinksAgree /\ NoCycles /\ LevelInv)
<1>1. /\ LabelTypeOK /\ LabelTypeOK' /\ LinksAgree /\ NoCycles /\ LevelInv
      /\ [LabelNext]_label_vars
      => LinksAgree' /\ NoCycles' /\ LevelInv'
  BY LabelNextTree
<1> QED BY <1>1, LabelInitTree, LabelTypeCorrect, PTL DEF LabelSpec

LabelStands == LabelTypeOK /\ TreeStands /\ KwdLinksAgree

LEMMA RequestTyped ==
  ASSUME LabelTypeOK
  PROVE  request.scope \in Scopes /\ request.position \in Nat
BY RequestsAssumption DEF LabelTypeOK, NoRequest, Scopes

\* A search for an object.
Fitting == {x \in Objects : FitsObject(x)}

\* What a search for an object keeps, for whatever it takes to fit.
ObjectInv ==
  request.kind = "object" /\ call = "find" /\ ~EscapesSubtree(request.scope) =>
    /\ pc \in {"visit", "climb"} =>
         Going(request.scope, Fitting, request.position)
    /\ pc = "return" => Ended(request.scope, Fitting, request.position)

SearchUnderWay ==
  /\ pc = "return" => call = "find"
  /\ call = "find" => start \in live /\ pc # "idle"

LEMMA FittingKept ==
  ASSUME UNCHANGED <<links, kwd_links, request>>
  PROVE  Fitting' = Fitting
<1>1. \A k : Onward(k)' = Onward(k)
  BY DEF Onward, kwd_links
<1>2. \A o : KwdsOf(o)' = KwdsOf(o)
  BY <1>1 DEF KwdsOf, kwd_links
<1>3. \A o : FirstNamed(o)' = FirstNamed(o)
  BY <1>1, <1>2 DEF FirstNamed, kwd_links
<1> QED BY <1>3 DEF Fitting, FitsObject, links, kwd_links

LEMMA UnderWayStays ==
  ASSUME LabelStands, SearchUnderWay, [LabelNext]_label_vars
  PROVE  SearchUnderWay'
<1>1. CASE EditTree \/ EditBoth \/ EditKwds
  <2>1. pc = "idle" /\ call # "find"
    BY <1>1 DEF SearchUnderWay, EditTree, EditBoth, EditKwds, FreeTree,
       OdlNewObjDesc, OdlCopyObjDesc, OdlCutObjDesc, OdlPasteObjDesc,
       OdlPasteObjDescBefore, OdlPasteObjDescAfter, OdlFreeTree
  <2>2. call' \in {"adjust", call} /\ pc' \in {"idle", "visit"}
    BY <1>1, <2>1 DEF EditTree, EditBoth, EditKwds, FreeTree,
       OdlNewObjDesc, OdlCopyObjDesc, OdlCutObjDesc, OdlPasteObjDesc,
       OdlPasteObjDescBefore, OdlPasteObjDescAfter, OdlFreeTree, NewBlock,
       BeginAdjust, walk
  <2> QED BY <2>1, <2>2 DEF SearchUnderWay
<1>2. CASE Search
  <2>1. PICK o, r : BeginSearch(o, r) /\ o \in live
    <3>1. \A k \in Keywords : Listed(k) => kwd_parent[k] \in live
      BY DEF LabelStands, KwdLinksAgree, KwdsDontDangle, Listed
    <3> QED BY <1>2, <3>1 DEF Search, OdlFindKwd, OdlNextKwd, FindObject
  <2> QED BY <2>1 DEF BeginSearch, links, SearchUnderWay
<1>3. CASE WalkOn
  <2>1. CASE call = "find"
    <3>1. start' = start /\ live' = live /\ call' = "find" /\ pc' # "idle"
      BY <1>3, <2>1 DEF WalkOn, OdlAdjustObjDescLevel, SearchKwd, NextList,
         NextObject, ClimbOn, Climb, OdlNextObjDesc, Leave, GoTo, TraverseTree,
         Visiting, links, SearchUnderWay, Searching
    <3> QED BY <2>1, <3>1 DEF SearchUnderWay
  <2>2. CASE call # "find"
    <3>1. call' # "find" /\ pc' # "return"
      BY <1>3, <2>2 DEF WalkOn, OdlAdjustObjDescLevel, SearchKwd, NextList,
         NextObject, ClimbOn, Climb, Leave, TraverseTree, Visiting, Searching
    <3> QED BY <3>1 DEF SearchUnderWay
  <2> QED BY <2>1, <2>2
<1>4. CASE SearchReturns
  BY <1>4 DEF SearchReturns, FindReturns, SearchUnderWay
<1>5. CASE UNCHANGED label_vars
  BY <1>5 DEF label_vars, vars, links, walk, SearchUnderWay
<1> QED BY <1>1, <1>2, <1>3, <1>4, <1>5 DEF LabelNext

LEMMA ObjectSearchBegins ==
  ASSUME LabelStands, NEW o \in Objects, NEW r \in Requests, FindObject(o, r)
  PROVE  ObjectInv'
<1>1. PICK s, n : s = r.scope /\ n = r.position
  OBVIOUS
<1>2. s \in Scopes /\ n \in Nat
  BY <1>1, RequestsAssumption
<1>3. /\ o \in live /\ UNCHANGED links /\ start' = o /\ obj' = o /\ scope' = s
      /\ pc' = "visit" /\ request' = r /\ current_position' = 0
  BY <1>1 DEF FindObject, BeginSearch
<1>4. PICK W : W = Fitting'
  OBVIOUS
<1>5. Going(s, W, n)'
  BY <1>2, <1>3, GoingBegins DEF LabelStands
<1>6. request.scope' = s /\ request.position' = n
  BY <1>1, <1>3
<1> QED BY <1>3, <1>4, <1>5, <1>6 DEF ObjectInv

LEMMA ObjectSearchGoesOn ==
  ASSUME LabelStands, Wrong = {}, SearchUnderWay, ObjectInv, call = "find",
         request.kind = "object", NextObject \/ ClimbOn
  PROVE  ObjectInv'
<1>1. /\ request' = request /\ UNCHANGED <<links, level, kwd_links>>
      /\ call' = "find" /\ start \in live /\ TreeStands
  BY DEF NextObject, ClimbOn, Climb, cursor, SearchUnderWay, LabelStands
<1>2. PICK s, n, W : s = request.scope /\ n = request.position /\ W = Fitting
  OBVIOUS
<1>3. s \in Scopes /\ n \in Nat
  BY <1>2, RequestTyped DEF LabelStands
<1>4. Fitting' = W /\ request.scope' = s /\ request.position' = n
  BY <1>1, <1>2, FittingKept
<1>5. CASE EscapesSubtree(s)
  <2>1. start' = start
    BY <1>1 DEF NextObject, ClimbOn, Climb, OdlNextObjDesc, Leave, GoTo,
       TraverseTree, Visiting
  <2>2. EscapesSubtree(request.scope)'
    BY <1>1, <1>4, <1>5, <2>1, EscapeKept
  <2> QED BY <2>2 DEF ObjectInv
<1>6. CASE ~EscapesSubtree(s)
  <2>1. pc \in {"visit", "climb"}
    BY DEF NextObject, Searching, ClimbOn, Climb
  <2>2. Searched(s) /\ Going(s, W, n)
    BY <1>1, <1>2, <1>3, <1>6, <2>1 DEF ObjectInv, Searched
  <2>3. CASE NextObject
    <3>1. pc = "visit" /\ obj \in Objects
      BY <1>1, <2>3 DEF NextObject, Searching, TreeStands, TypeOK
    <3>2. obj \in W <=> FitsObject(obj)
      BY <1>2, <3>1 DEF Fitting
    <3>3. current_position' =
            IF obj \in W /\ n > 0 THEN current_position + 1 ELSE current_position
      BY <1>2, <2>3, <3>2 DEF NextObject, CountIf
    <3>4. obj \in W /\ Enough(n, current_position) => Leave(obj)
      BY <1>2, <2>3, <3>2 DEF NextObject, Found, Enough
    <3>5. ~(obj \in W /\ Enough(n, current_position)) => OdlNextObjDesc
      BY <1>2, <2>3, <3>2 DEF NextObject, Found, Enough
    <3>6. GoesOnOrEnds(s, W, n)
      BY <1>1, <1>3, <2>2, <3>1, <3>3, <3>4, <3>5, VisitGoesOn
    <3> QED BY <1>1, <1>4, <3>6 DEF ObjectInv, GoesOnOrEnds
  <2>4. CASE ClimbOn
    <3>1. GoesOnOrEnds(s, W, n)
      BY <1>3, <2>2, <2>4, ClimbGoesOn DEF ClimbOn
    <3> QED BY <1>1, <1>4, <3>1 DEF ObjectInv, GoesOnOrEnds
  <2> QED BY <2>3, <2>4
<1> QED BY <1>5, <1>6

LEMMA ObjectSearchStays ==
  ASSUME ObjectInv, UNCHANGED label_vars
  PROVE  ObjectInv'
<1>1. UNCHANGED <<vars, links, kwd_links, start, request, pc, call>>
  BY DEF label_vars, vars, walk, cursor
<1>2. PICK s, n, W : s = request.scope /\ n = request.position /\ W = Fitting
  OBVIOUS
<1>3. Fitting' = W /\ request.scope' = s /\ request.position' = n
  BY <1>1, <1>2, FittingKept
<1>4. EscapesSubtree(s)' <=> EscapesSubtree(s)
  BY <1>1, EscapeKept
<1>5. /\ pc \in {"visit", "climb"} /\ Going(s, W, n) => Going(s, W, n)'
      /\ Ended(s, W, n) => Ended(s, W, n)'
  BY <1>1, GoingStays
<1> QED BY <1>1, <1>2, <1>3, <1>4, <1>5 DEF ObjectInv

\* Where the label is edited, and where a search has answered, no search is
\* under way after the step.
LEMMA NoSearchAfter ==
  ASSUME SearchUnderWay, \/ EditTree \/ EditKwds \/ EditBoth \/ SearchReturns
                         \/ WalkOn /\ call # "find"
  PROVE  call' # "find"
<1>1. CASE EditTree \/ EditBoth \/ EditKwds
  <2>1. pc = "idle" /\ call # "find"
    BY <1>1 DEF SearchUnderWay, EditTree, EditBoth, EditKwds, FreeTree,
       OdlNewObjDesc, OdlCopyObjDesc, OdlCutObjDesc, OdlPasteObjDesc,
       OdlPasteObjDescBefore, OdlPasteObjDescAfter, OdlFreeTree
  <2>2. call' \in {"adjust", call}
    BY <1>1, <2>1 DEF EditTree, EditBoth, EditKwds, FreeTree,
       OdlNewObjDesc, OdlCopyObjDesc, OdlCutObjDesc, OdlPasteObjDesc,
       OdlPasteObjDescBefore, OdlPasteObjDescAfter, OdlFreeTree, NewBlock,
       BeginAdjust, walk
  <2> QED BY <2>1, <2>2
<1>2. CASE SearchReturns
  BY <1>2 DEF SearchReturns, FindReturns
<1>3. CASE WalkOn /\ call # "find"
  BY <1>3 DEF WalkOn, OdlAdjustObjDescLevel, SearchKwd, NextList, NextObject,
     ClimbOn, Climb, Searching
<1> QED BY <1>1, <1>2, <1>3

LEMMA NextObjectFinds ==
  ASSUME LabelStands, LevelInv, SearchUnderWay, ObjectInv,
         [LabelNext]_label_vars
  PROVE  ObjectInv'
<1>1. call = "find" => Wrong = {}
  BY DEF LevelInv, Adjusting
<1>2. CASE \/ EditTree \/ EditKwds \/ EditBoth \/ SearchReturns
           \/ WalkOn /\ call # "find"
  BY <1>2, NoSearchAfter DEF ObjectInv
<1>3. CASE Search
  <2>1. PICK r \in Requests :
          \/ \E o \in Objects : OdlFindKwd(o, r) \/ FindObject(o, r)
          \/ \E k \in Keywords : OdlNextKwd(k, r)
    BY <1>3 DEF Search
  <2>2. CASE r.kind = "object"
    BY <2>1, <2>2, ObjectSearchBegins DEF OdlFindKwd, OdlNextKwd
  <2>3. CASE r.kind # "object"
    BY <2>1, <2>3 DEF OdlFindKwd, OdlNextKwd, FindObject, BeginSearch, ObjectInv
  <2> QED BY <2>2, <2>3
<1>4. CASE WalkOn /\ call = "find"
  <2>1. CASE request.kind # "object"
    <3>1. request' = request
      BY <1>4 DEF WalkOn, OdlAdjustObjDescLevel, SearchKwd, NextList,
         NextObject, ClimbOn, cursor
    <3> QED BY <2>1, <3>1 DEF ObjectInv
  <2>2. CASE request.kind = "object"
    <3>1. NextObject \/ ClimbOn
      BY <1>4, <2>2 DEF WalkOn, OdlAdjustObjDescLevel, SearchKwd, NextList,
         Searching
    <3> QED BY <1>1, <1>4, <2>2, <3>1, ObjectSearchGoesOn
  <2> QED BY <2>1, <2>2
<1>5. CASE UNCHANGED label_vars
  BY <1>5, ObjectSearchStays
<1> QED BY <1>2, <1>3, <1>4, <1>5 DEF LabelNext

LEMMA LabelInitSearches == LabelInit => SearchUnderWay /\ ObjectInv
BY DEF LabelInit, Init, SearchUnderWay, ObjectInv

\* One keyword of those the name matches comes first.
LEMMA SomeIsFirst ==
  ASSUME KwdsTyped, KwdLinksAgree, NEW o \in Objects, NEW k \in KwdsOf(o),
         name[k] \in request.name
  PROVE  FirstNamed(o) # {}
<1> SUFFICES ASSUME FirstNamed(o) = {} PROVE FALSE
  OBVIOUS
<1> DEFINE f == first_keyword[o]
           N == {x \in KwdsOf(o) : name[x] \in request.name}
           S == {y \in Onward(f) : N \subseteq Onward(y)}
<1>1. f # NULL /\ f \in Keywords /\ KwdsOf(o) = Onward(f)
  BY DEF KwdsOf, KwdsTyped
<1>2. /\ Onward(f) \in SUBSET Keywords /\ f \in Onward(f)
      /\ \A y \in Onward(f) : kwd_right[y] # NULL => kwd_right[y] \in Onward(f)
  BY <1>1, OnwardIsClosed
<1>3. S \in SUBSET Keywords /\ f \in S
  BY <1>1, <1>2
<1>4. ASSUME NEW y \in S, kwd_right[y] # NULL
      PROVE  kwd_right[y] \in S
  <2>1. y \in Keywords /\ kwd_right[y] \in Onward(f)
    BY <1>2, <1>4
  <2>2. Onward(y) = {y} \cup Onward(kwd_right[y])
    BY <1>4, <2>1, OnwardStep
  <2>3. y \notin N
    <3> SUFFICES ASSUME y \in N PROVE FALSE
      OBVIOUS
    <3>1. \A x \in KwdsOf(o) : name[x] \in request.name => x \in Onward(y)
      BY <1>4
    <3>2. y \in FirstNamed(o)
      BY <3>1 DEF FirstNamed
    <3> QED BY <3>2
  <2>4. N \subseteq Onward(kwd_right[y])
    BY <1>4, <2>2, <2>3
  <2> QED BY <2>1, <2>4
<1>5. k \in S
  <2>1. k \in Onward(f)
    BY <1>1
  <2> HIDE DEF S
  <2> QED BY <1>1, <1>3, <1>4, <2>1, OnwardIsLeast
<1>6. \A x \in KwdsOf(o) : name[x] \in request.name => x \in Onward(k)
  BY <1>5
<1>7. k \in FirstNamed(o)
  BY <1>6 DEF FirstNamed
<1> QED BY <1>7

\* What OdlFindObjDesc tests an object for is what it is asked for, as long
\* as no object has two keywords of that name.
LEMMA FitsIfWanted ==
  ASSUME LabelStands, request.value # NULL => request.name # NULL /\ NamesDiffer,
         NEW o \in live
  PROVE  FitsObject(o) <=> Wanted(o)
<1>1. /\ o \in Objects /\ o # NULL
      /\ KwdsTyped /\ KwdLinksAgree /\ kwds \subseteq Keywords
  BY TypesOfLabel, TreePoints DEF LabelStands, KwdsTyped
<1>2. KwdsOf(o) = {k \in kwds : kwd_parent[k] = o}
  BY <1>1, ListHoldsItsKeywords
<1>3. CASE request.name = NULL
  BY <1>3 DEF FitsObject, Wanted
<1>4. CASE request.name # NULL
  <2>1. ASSUME NEW k \in KwdsOf(o), name[k] \in request.name
        PROVE  FirstNamed(o) # {}
    BY <1>1, <2>1, SomeIsFirst
  <2>2. ASSUME NEW k \in KwdsOf(o), name[k] \in request.name, request.value # NULL
        PROVE  FirstNamed(o) = {k}
    <3>1. NamesDiffer
      BY <2>2
    <3>2. ASSUME NEW x \in KwdsOf(o), name[x] \in request.name
          PROVE  x = k
      <4>1. /\ x \in kwds /\ k \in kwds /\ kwd_parent[x] = o
            /\ kwd_parent[k] = o
        BY <1>2
      <4>2. {name[x], name[k]} \subseteq request.name
        BY <2>2, <3>2
      <4> QED BY <1>1, <3>1, <4>1, <4>2 DEF NamesDiffer
    <3>3. k \in Onward(k)
      BY <1>1, <1>2, OnwardIsClosed
    <3> QED BY <2>2, <3>2, <3>3 DEF FirstNamed
  <2>3. \A k \in FirstNamed(o) : k \in KwdsOf(o) /\ name[k] \in request.name
    BY DEF FirstNamed
  <2>4. HasKeyword(o) <=> \E k \in KwdsOf(o) :
          name[k] \in request.name /\ Fits(request.value, value[k])
    BY <1>2, <1>4 DEF HasKeyword, Fits
  <2>5. CASE request.value = NULL
    <3>1. HasKeyword(o) <=> FirstNamed(o) # {}
      BY <2>1, <2>3, <2>4, <2>5 DEF Fits
    <3> QED BY <1>4, <2>5, <3>1 DEF FitsObject, Wanted
  <2>6. CASE request.value # NULL
    <3>1. HasKeyword(o) => \E k \in FirstNamed(o) : value[k] \in request.value
      BY <2>2, <2>4, <2>6 DEF Fits
    <3>2. (\E k \in FirstNamed(o) : value[k] \in request.value) => HasKeyword(o)
      BY <2>3, <2>4 DEF Fits
    <3> QED BY <1>4, <2>6, <3>1, <3>2 DEF FitsObject, Wanted
  <2> QED BY <2>5, <2>6
<1> QED BY <1>3, <1>4

LEMMA ObjectInvAnswers ==
  ASSUME LabelStands, SearchUnderWay, ObjectInv
  PROVE  ObjectAnswers
<1> SUFFICES ASSUME Answered("object"),
                    request.value # NULL => request.name # NULL /\ NamesDiffer
             PROVE  ObjectAnswers
  BY DEF ObjectAnswers
<1>1. /\ Ended(request.scope, Fitting, request.position) /\ start \in live
      /\ TreeStands
  BY DEF ObjectInv, SearchUnderWay, Answered, LabelStands
<1>2. InScope(start, request.scope) \subseteq live /\ live \subseteq Objects
  BY <1>1, ScopeFollows, RequestTyped, TreePoints DEF LabelStands
<1>3. {x \in InScope(start, request.scope) : Wanted(x)}
        = InScope(start, request.scope) \cap Fitting
  BY <1>2, FitsIfWanted DEF Fitting
<1> QED BY <1>1, <1>3 DEF Ended, ObjectAnswers

\* A search for a keyword.
FittingKwds == {k \in Keywords : FitsKwd(k)}

\* KwdsInScope for the scope s, and what of it is passed: the keywords of the
\* objects passed, and of the object visited those before `kwd'.
KwdScope(s) ==
  {k \in kwds :
     /\ kwd_parent[k] \in InScope(start, s)
     /\ start_keyword # NULL /\ kwd_parent[k] = start
          => k \in Onward(start_keyword)}

KwdsPassed(s) ==
  {k \in KwdScope(s) :
     \/ kwd_parent[k] \in Passed(s)
     \/ pc = "visit" /\ kwd_parent[k] = obj /\ (kwd # NULL => k \notin Onward(kwd))}

KwdStands ==
  /\ start_keyword # NULL =>
       start_keyword \in kwds /\ kwd_parent[start_keyword] = start
  /\ kwd # NULL =>
       /\ kwd \in kwds /\ kwd_parent[kwd] = obj
       /\ start_keyword # NULL /\ obj = start => kwd \in Onward(start_keyword)

KwdGoing(s, W, n) ==
  Stands(s) /\ KwdStands /\ Tally(KwdsPassed(s) \cap W, n, current_position)

KwdEnded(s, W, n) ==
  LET found == KwdScope(s) \cap W
  IN  Answers(found_kwd, found, {k \in found : KwdPrecedes(k, found_kwd)}, n)

KwdGoesOnOrEnds(s, W, n) ==
  /\ pc' \in {"visit", "climb"} => KwdGoing(s, W, n)'
  /\ pc' = "return" => KwdEnded(s, W, n)'

LEMMA KwdOrderKept ==
  ASSUME UNCHANGED <<links, kwd_links, start, start_keyword>>
  PROVE  /\ \A k : Onward(k)' = Onward(k)
         /\ \A s : KwdScope(s)' = KwdScope(s)
         /\ \A j, k : KwdPrecedes(j, k)' <=> KwdPrecedes(j, k)
<1>1. \A k : Onward(k)' = Onward(k)
  BY DEF Onward, kwd_links
<1>2. PICK b, c : b = start /\ c = start_keyword
  OBVIOUS
<1>3. \A o, s : InScope(o, s)' = InScope(o, s)
  BY OrderKept
<1>4. /\ start' = b /\ start_keyword' = c /\ kwds' = kwds
      /\ kwd_parent' = kwd_parent
  BY <1>2 DEF kwd_links
<1>5. \A s : InScope(start, s)' = InScope(start, s)
  BY <1>2, <1>3, <1>4
<1>6. Onward(start_keyword)' = Onward(start_keyword)
  BY <1>1, <1>2, <1>4
<1>7. \A s : KwdScope(s)' = KwdScope(s)
  BY <1>4, <1>5, <1>6 DEF KwdScope
<1>8. ASSUME NEW j, NEW k
      PROVE  KwdPrecedes(j, k)' <=> KwdPrecedes(j, k)
  <2>1. PICK p, q : p = kwd_parent[j] /\ q = kwd_parent[k]
    OBVIOUS
  <2>2. kwd_parent[j]' = p /\ kwd_parent[k]' = q
    BY <1>4, <2>1
  <2>3. Precedes(p, q)' <=> Precedes(p, q)
    BY OrderKept
  <2>4. Precedes(kwd_parent[j], kwd_parent[k])'
          <=> Precedes(kwd_parent[j], kwd_parent[k])
    BY <2>1, <2>2, <2>3
  <2> QED BY <1>1, <1>4, <2>4 DEF KwdPrecedes
<1> QED BY <1>1, <1>7, <1>8

LEMMA KwdEndsWith ==
  ASSUME UNCHANGED <<links, kwd_links, start, start_keyword>>, NEW s, NEW W,
         NEW n, NEW f, found_kwd' = f,
         Answers(f, KwdScope(s) \cap W,
                 {k \in KwdScope(s) \cap W : KwdPrecedes(k, f)}, n)
  PROVE  KwdEnded(s, W, n)'
<1>1. /\ KwdScope(s)' = KwdScope(s)
      /\ \A k : KwdPrecedes(k, f)' <=> KwdPrecedes(k, f)
  BY KwdOrderKept
<1>2. PICK found : found = KwdScope(s) \cap W
  OBVIOUS
<1>3. (KwdScope(s) \cap W)' = found
  BY <1>1, <1>2
<1>4. {k \in found : KwdPrecedes(k, f)'} = {k \in found : KwdPrecedes(k, f)}
  BY <1>1
<1> QED BY <1>2, <1>3, <1>4 DEF KwdEnded

\* A loop along a list does not come round.
LEMMA OnwardEnds ==
  ASSUME KwdsTyped, KwdLinksAgree, live \subseteq Objects, NEW k \in kwds,
         kwd_parent[k] # NULL, kwd_right[k] # NULL
  PROVE  k \notin Onward(kwd_right[k])
<1> DEFINE o == kwd_parent[k]
           f == first_keyword[o]
<1>1. /\ NeighboursAgree /\ EndsAgree
      /\ Points(Keywords, kwd_right) /\ kwds \in SUBSET Keywords
      /\ \A x : Onward(x) = Met(Keywords, kwd_right, x)
  BY OnwardIsMet DEF KwdLinksAgree, KwdsTyped
<1>2. o \in Objects
  BY LinksOfKwd
<1>3. KwdsOf(o) = {x \in kwds : kwd_parent[x] = o}
  BY <1>2, ListHoldsItsKeywords
<1>4. k \in KwdsOf(o)
  BY <1>3
<1>5. f # NULL /\ k \in Onward(f)
  BY <1>4 DEF KwdsOf
<1>6. f \in kwds /\ kwd_parent[f] = o
  BY <1>1, <1>2, <1>5, EndsOfObject DEF EndsAgree
<1>7. kwd_left[f] = NULL
  BY <1>1, <1>6 DEF EndsAgree
<1>8. \A y \in kwds : kwd_right[y] # NULL =>
        kwd_right[y] \in kwds /\ kwd_left[kwd_right[y]] = y
  BY <1>1, LinksOfKwd DEF NeighboursAgree
<1>9. k \in Met(Keywords, kwd_right, f)
  BY <1>1, <1>5
<1> HIDE DEF o, f
<1>10. k \notin Met(Keywords, kwd_right, kwd_right[k])
  BY <1>1, <1>6, <1>7, <1>8, <1>9, MetEnds
<1> QED BY <1>1, <1>10

\* Where a search looks at a keyword of the object it visits.
LEMMA AtKeyword ==
  ASSUME LabelStands, NEW s, Searched(s), Stands(s), KwdStands, kwd # NULL,
         pc = "visit"
  PROVE  /\ kwd \in KwdScope(s) /\ kwd \in kwds /\ kwd_parent[kwd] = obj
         /\ kwd \notin KwdsPassed(s) /\ obj \in live /\ obj # NULL
         /\ Passed(s) = InScope(start, s) \cap Before(obj)
<1>1. kwd \in kwds /\ kwd_parent[kwd] = obj /\ kwd \in Keywords
  BY DEF KwdStands, LabelStands, LabelTypeOK
<1>2. /\ obj \in InScope(start, s) /\ TreeStands /\ start \in live
      /\ s \in Scopes
  BY DEF Stands, VisitsIn, Searched
<1>3. obj \in live /\ obj # NULL
  BY <1>2, ScopeFollows, TreePoints
<1>4. kwd \in KwdScope(s)
  BY <1>1, <1>2 DEF KwdScope, KwdStands
<1>5. Passed(s) = InScope(start, s) \cap Before(obj)
  BY <1>3 DEF Passed
<1>6. obj \notin Passed(s)
  BY <1>2, <1>3, <1>5, PrecedesOneWay DEF Before
<1>7. kwd \in Onward(kwd)
  BY <1>1, TypesOfLabel, OnwardIsClosed DEF LabelStands
<1> QED BY <1>1, <1>3, <1>4, <1>5, <1>6, <1>7 DEF KwdsPassed

\* The keyword a search answers has before it what the search has passed.
LEMMA KwdFound ==
  ASSUME LabelStands, NEW s, NEW W, NEW n \in Nat, Searched(s),
         KwdGoing(s, W, n), kwd # NULL, pc = "visit", kwd \in W,
         Enough(n, current_position)
  PROVE  Answers(kwd, KwdScope(s) \cap W,
                 {k \in KwdScope(s) \cap W : KwdPrecedes(k, kwd)}, n)
<1>1. /\ kwd \in KwdScope(s) /\ kwd_parent[kwd] = obj
      /\ Passed(s) = InScope(start, s) \cap Before(obj)
  BY AtKeyword DEF KwdGoing
<1>2. /\ TreeStands /\ start \in live /\ s \in Scopes
      /\ InScope(start, s) \subseteq live
  BY ScopeFollows DEF Searched
<1>3. ASSUME NEW k \in KwdScope(s)
      PROVE  KwdPrecedes(k, kwd) <=> k \in KwdsPassed(s)
  <2>1. kwd_parent[k] \in InScope(start, s) /\ kwd_parent[k] \in live
    BY <1>2 DEF KwdScope
  <2>2. Precedes(kwd_parent[k], obj) <=> kwd_parent[k] \in Passed(s)
    BY <1>1, <2>1 DEF Before
  <2> QED BY <1>1, <2>2 DEF KwdPrecedes, KwdsPassed
<1>4. {k \in KwdScope(s) \cap W : KwdPrecedes(k, kwd)} = KwdsPassed(s) \cap W
  BY <1>3 DEF KwdsPassed
<1>5. Cardinality(KwdsPassed(s) \cap W) = Ordinal(n) - 1
  BY TallyAnswers DEF KwdGoing
<1> QED BY <1>1, <1>4, <1>5 DEF Answers

\* The loop goes on to the next keyword of the list.
LEMMA KwdLeft ==
  ASSUME LabelStands, NEW s, Searched(s), Stands(s), KwdStands, kwd # NULL,
         pc = "visit", kwd' = kwd_right[kwd],
         UNCHANGED <<links, level, kwd_links, start, pc, obj, scope,
                     start_keyword>>
  PROVE  /\ Stands(s)' /\ KwdStands'
         /\ KwdsPassed(s)' = KwdsPassed(s) \cup {kwd}
<1>1. Stands(s)' /\ Passed(s)' = Passed(s)
  BY StandsStays
<1>2. /\ kwd \in KwdScope(s) /\ kwd \in kwds /\ kwd_parent[kwd] = obj
      /\ obj # NULL
  BY AtKeyword
<1>3. /\ KwdsTyped /\ KwdLinksAgree /\ live \subseteq Objects
      /\ kwd \in Keywords /\ kwds \in SUBSET Keywords
  BY <1>2, TypesOfLabel DEF LabelStands, KwdsTyped, TypeOK
<1>4. PICK r : r = kwd_right[kwd]
  OBVIOUS
<1>5. kwd' = r /\ kwds' = kwds /\ kwd_parent' = kwd_parent
  BY <1>4 DEF kwd_links
<1>6. r # NULL => /\ r \in kwds /\ kwd_parent[r] = obj
                  /\ Onward(kwd) = {kwd} \cup Onward(r)
                  /\ kwd \notin Onward(r)
  BY <1>2, <1>3, <1>4, LinksOfKwd, OnwardStep, OnwardEnds
     DEF KwdLinksAgree, NeighboursAgree
<1>7. r = NULL => Onward(kwd) = {kwd}
  BY <1>3, <1>4, OnwardStep
<1>8. /\ \A k : Onward(k)' = Onward(k)
      /\ KwdScope(s)' = KwdScope(s)
  BY KwdOrderKept
<1>9. KwdStands'
  <2>1. ASSUME r # NULL, start_keyword # NULL, obj = start
        PROVE  r \in Onward(start_keyword)
    <3>1. kwd \in Onward(start_keyword) /\ start_keyword \in Keywords
      BY <1>3, <2>1 DEF KwdStands
    <3> QED BY <1>3, <1>4, <2>1, <3>1, OnwardIsClosed
  <2>2. PICK c : c = start_keyword
    OBVIOUS
  <2>3. start_keyword' = c /\ Onward(c)' = Onward(c)
    BY <1>8, <2>2
  <2> QED BY <1>5, <1>6, <2>1, <2>2, <2>3 DEF KwdStands
<1>10. ASSUME NEW k \in KwdScope(s)
       PROVE  (kwd_parent[k] = obj /\ (r # NULL => k \notin Onward(r)))
                <=> \/ kwd_parent[k] = obj /\ k \notin Onward(kwd)
                    \/ k = kwd
  BY <1>2, <1>6, <1>7
<1>11. Onward(kwd)' = Onward(r)
  BY <1>5, <1>8
<1>12. KwdsPassed(s)' =
         {k \in KwdScope(s) :
            \/ kwd_parent[k] \in Passed(s)
            \/ kwd_parent[k] = obj /\ (r # NULL => k \notin Onward(r))}
  BY <1>1, <1>5, <1>8, <1>11 DEF KwdsPassed
<1>13. KwdsPassed(s) =
         {k \in KwdScope(s) :
            \/ kwd_parent[k] \in Passed(s)
            \/ kwd_parent[k] = obj /\ k \notin Onward(kwd)}
  BY DEF KwdsPassed
<1> QED BY <1>1, <1>2, <1>9, <1>10, <1>12, <1>13

LEMMA SearchKwdGoesOn ==
  ASSUME LabelStands, NEW s, NEW W, NEW n \in Nat, Searched(s),
         KwdGoing(s, W, n), s = request.scope, n = request.position,
         W = FittingKwds, SearchKwd
  PROVE  KwdGoesOnOrEnds(s, W, n)
<1>1. /\ pc = "visit" /\ call = "find" /\ kwd # NULL
      /\ UNCHANGED <<links, level, scope, kwd_links, start_keyword>>
      /\ Stands(s) /\ KwdStands
      /\ Tally(KwdsPassed(s) \cap W, n, current_position)
  BY DEF SearchKwd, Searching, KwdGoing
<1>2. kwd \in Keywords
  BY <1>1 DEF LabelStands, LabelTypeOK
<1>3. kwd \in W <=> FitsKwd(kwd)
  BY <1>2 DEF FittingKwds
<1>4. current_position' =
        IF kwd \in W /\ n > 0 THEN current_position + 1 ELSE current_position
  BY <1>3 DEF SearchKwd, CountIf
<1>5. CASE kwd \in W /\ Enough(n, current_position)
  <2>1. found_kwd' = kwd /\ Leave(NULL)
    BY <1>3, <1>5 DEF SearchKwd, Found, Enough
  <2>2. start' = start /\ pc' = "return"
    BY <1>1, <2>1 DEF Leave
  <2>3. PICK f : f = kwd
    OBVIOUS
  <2>4. Answers(f, KwdScope(s) \cap W,
                {k \in KwdScope(s) \cap W : KwdPrecedes(k, f)}, n)
    BY <1>1, <1>5, <2>3, KwdFound
  <2>5. KwdEnded(s, W, n)'
    BY <1>1, <2>1, <2>2, <2>3, <2>4, KwdEndsWith
  <2> QED BY <2>2, <2>5 DEF KwdGoesOnOrEnds
<1>6. CASE ~(kwd \in W /\ Enough(n, current_position))
  <2>1. kwd' = kwd_right[kwd] /\ UNCHANGED <<pc, start, obj>>
    BY <1>3, <1>6 DEF SearchKwd, Found, Enough
  <2>2. /\ Stands(s)' /\ KwdStands'
        /\ KwdsPassed(s)' = KwdsPassed(s) \cup {kwd}
    BY <1>1, <2>1, KwdLeft
  <2>3. kwd \notin KwdsPassed(s)
    BY <1>1, AtKeyword
  <2>4. Tally((KwdsPassed(s) \cup {kwd}) \cap W, n, current_position')
    BY <1>1, <1>4, <1>6, <2>3, ObjectPassed
  <2>5. (KwdsPassed(s) \cap W)' = (KwdsPassed(s) \cup {kwd}) \cap W
    BY <2>2
  <2>6. KwdGoing(s, W, n)'
    BY <2>2, <2>4, <2>5 DEF KwdGoing
  <2> QED BY <1>1, <2>1, <2>6 DEF KwdGoesOnOrEnds
<1> QED BY <1>5, <1>6

\* A step to another object, to climbing or to the end, after which the search
\* has passed the keywords of the objects in P.
LEMMA KwdsOfPassed ==
  ASSUME LabelStands, NEW s, NEW P, NEW W, NEW n \in Nat, Searched(s), Moves(s, P),
         start \in P, KwdStands, request.kind = "keyword", AtFirstKwd,
         UNCHANGED <<links, level, kwd_links, start, start_keyword,
                     current_position>>,
         pc' = "return" => found_kwd' = NULL,
         Tally({k \in KwdScope(s) : kwd_parent[k] \in P} \cap W, n,
               current_position)
  PROVE  KwdGoesOnOrEnds(s, W, n)
<1> DEFINE Q == {k \in KwdScope(s) : kwd_parent[k] \in P}
<1>1. SameTree /\ TreeStands /\ start \in live /\ s \in Scopes
  BY DEF SameTree, Searched
<1>2. KwdScope(s)' = KwdScope(s) /\ \A k : Onward(k)' = Onward(k)
  BY KwdOrderKept
<1>3. PICK o, t, b, c : o = obj' /\ t = scope' /\ b = kwd' /\ c = start_keyword
  OBVIOUS
<1>4. /\ obj' = o /\ scope' = t /\ kwd' = b /\ kwds' = kwds
      /\ kwd_parent' = kwd_parent /\ first_keyword' = first_keyword
      /\ start_keyword' = c
  BY <1>3 DEF kwd_links
<1>5. Passed(s)' = P /\ Stands(s)'
  BY DEF Moves
<1>6. /\ KwdsTyped /\ KwdLinksAgree /\ live \subseteq Objects
      /\ kwds \in SUBSET Keywords
  BY TypesOfLabel DEF LabelStands, KwdsTyped, TypeOK
<1>7. start_keyword # NULL =>
        start_keyword \in kwds /\ kwd_parent[start_keyword] = start
  BY DEF KwdStands
<1>8. CASE pc' = "visit"
  <2>1. VisitsIn(o, t, s)
    BY <1>1, <1>4, <1>5, <1>8, Arrives
  <2>2. o \in live /\ o # NULL /\ o \in Objects
    BY <1>1, <2>1, ScopeFollows, TreePoints DEF VisitsIn
  <2>3. P = InScope(start, s) \cap Before(o)
    BY <1>1, <1>4, <1>5, <1>8, <2>2, Arrives
  <2>4. o # start
    BY <1>1, <2>3, PrecedesOneWay DEF Before
  <2>5. b = first_keyword[o]
    <3>1. kwd' = first_keyword[obj']
      BY <1>8 DEF AtFirstKwd
    <3> QED BY <1>3, <3>1
  <2>6. KwdsOf(o) = {k \in kwds : kwd_parent[k] = o}
    BY <1>6, <2>2, ListHoldsItsKeywords
  <2>7. b # NULL => b \in kwds /\ kwd_parent[b] = o
    BY <1>6, <2>2, <2>5, EndsOfObject DEF KwdLinksAgree, EndsAgree
  <2>8. KwdStands'
    <3>1. start' = start
      OBVIOUS
    <3> QED BY <1>3, <1>4, <1>7, <2>4, <2>7, <3>1 DEF KwdStands
  <2>9. ASSUME NEW k \in kwds, kwd_parent[k] = o
        PROVE  b # NULL /\ k \in Onward(b)
    BY <2>5, <2>6, <2>9 DEF KwdsOf
  <2>10. Onward(kwd)' = Onward(b)
    BY <1>2, <1>4
  <2>11. KwdsPassed(s)' =
           {k \in KwdScope(s) :
              \/ kwd_parent[k] \in P
              \/ kwd_parent[k] = o /\ (b # NULL => k \notin Onward(b))}
    BY <1>2, <1>4, <1>5, <1>8, <2>10 DEF KwdsPassed
  <2>12. KwdsPassed(s)' = Q
    BY <2>9, <2>11 DEF KwdScope
  <2>13. (KwdsPassed(s) \cap W)' = Q \cap W
    BY <2>12
  <2> HIDE DEF Q
  <2>14. KwdGoing(s, W, n)'
    BY <1>5, <2>8, <2>13 DEF KwdGoing, Q
  <2> QED BY <1>8, <2>14 DEF KwdGoesOnOrEnds
<1>9. CASE pc' = "climb"
  <2>1. kwd' = NULL
    BY <1>9 DEF AtFirstKwd
  <2>2. KwdStands'
    <3>1. start' = start
      OBVIOUS
    <3> QED BY <1>3, <1>4, <1>7, <2>1, <3>1 DEF KwdStands
  <2>3. KwdsPassed(s)' = Q
    BY <1>2, <1>4, <1>5, <1>9 DEF KwdsPassed
  <2>4. (KwdsPassed(s) \cap W)' = Q \cap W
    BY <2>3
  <2> HIDE DEF Q
  <2>5. KwdGoing(s, W, n)'
    BY <1>5, <2>2, <2>4 DEF KwdGoing, Q
  <2> QED BY <1>9, <2>5 DEF KwdGoesOnOrEnds
<1>10. CASE pc' = "return"
  <2>1. P = InScope(start, s)
    BY <1>10 DEF Moves
  <2>2. Q = KwdScope(s)
    BY <2>1 DEF KwdScope
  <2>3. Answers(NULL, KwdScope(s) \cap W,
                {k \in KwdScope(s) \cap W : KwdPrecedes(k, NULL)}, n)
    BY <2>2, NoneAnswers
  <2>4. KwdEnded(s, W, n)'
    BY <1>10, <2>3, KwdEndsWith
  <2> QED BY <1>10, <2>4 DEF KwdGoesOnOrEnds
<1> QED BY <1>8, <1>9, <1>10 DEF Moves

\* At the end of a list the object's keywords are passed.
LEMMA NextListGoesOn ==
  ASSUME LabelStands, NEW s, NEW W, NEW n \in Nat, Searched(s),
         KwdGoing(s, W, n), NextList, found_kwd = NULL
  PROVE  KwdGoesOnOrEnds(s, W, n)
<1>1. /\ pc = "visit" /\ kwd = NULL /\ OdlNextObjDesc /\ AtFirstKwd
      /\ request.kind = "keyword" /\ found_kwd' = NULL
      /\ UNCHANGED <<links, level, kwd_links, start_keyword, current_position>>
      /\ Stands(s) /\ KwdStands
      /\ Tally(KwdsPassed(s) \cap W, n, current_position)
  BY DEF NextList, Searching, KwdGoing
<1>2. /\ TreeStands /\ start \in live /\ s \in Scopes
      /\ obj \in InScope(start, s)
  BY <1>1 DEF Searched, Stands, VisitsIn
<1>3. obj \in live /\ obj # NULL
  BY <1>2, ScopeFollows, TreePoints
<1>4. start' = start /\ Moves(s, Passed(s) \cup {obj})
  BY <1>1, <1>3, NextObjDescMoves
<1>5. start \in Passed(s) \cup {obj}
  BY <1>1, <1>2, <1>3, ScopeFollows DEF Passed, Before
<1>6. KwdsPassed(s)
        = {k \in KwdScope(s) : kwd_parent[k] \in Passed(s) \cup {obj}}
  BY <1>1 DEF KwdsPassed
<1> QED BY <1>1, <1>4, <1>5, <1>6, KwdsOfPassed

\* A search that climbs has passed the object it began with.
LEMMA ClimbPassedStart ==
  ASSUME NEW s, Searched(s), Stands(s), pc = "climb"
  PROVE  start \in Passed(s)
<1>1. /\ TreeStands /\ start \in live /\ s \in Scopes
      /\ obj = NULL \/ ClimbsIn(obj, s)
  BY DEF Searched, Stands
<1>2. start \in InScope(start, s)
  BY <1>1, ScopeFollows
<1>3. CASE obj = NULL
  BY <1>2, <1>3 DEF Passed
<1>4. CASE obj # NULL
  <2>1. ClimbsIn(obj, s) /\ obj \in live
    BY <1>1, <1>4 DEF ClimbsIn
  <2>2. start \in Done(obj)
    <3>1. CASE s = "RECURSIVE_DOWN" /\ obj \in Below(start)
      <4>1. start \in Lineage(obj)
        BY <3>1 DEF Below
      <4>2. CASE start = obj
        BY <1>1, <4>2, DoneHolds
      <4>3. CASE start # obj
        BY <1>1, <4>1, <4>3 DEF Done, Before, Precedes
      <4> QED BY <4>2, <4>3
    <3> QED BY <1>2, <2>1, <3>1 DEF ClimbsIn
  <2> QED BY <1>2, <1>4, <2>2 DEF Passed
<1> QED BY <1>3, <1>4

LEMMA KwdClimbGoesOn ==
  ASSUME LabelStands, NEW s, NEW W, NEW n \in Nat, Searched(s),
         KwdGoing(s, W, n), ClimbOn, request.kind = "keyword", found_kwd = NULL
  PROVE  KwdGoesOnOrEnds(s, W, n)
<1>1. /\ pc = "climb" /\ Climb /\ AtFirstKwd /\ found_kwd' = NULL
      /\ UNCHANGED <<links, level, kwd_links, start_keyword, current_position>>
      /\ Stands(s) /\ KwdStands
      /\ Tally(KwdsPassed(s) \cap W, n, current_position)
  BY DEF ClimbOn, Climb, KwdGoing
<1>2. start' = start /\ Moves(s, Passed(s)) /\ start \in Passed(s)
  BY <1>1, ClimbMoves, ClimbPassedStart
<1>3. KwdsPassed(s) = {k \in KwdScope(s) : kwd_parent[k] \in Passed(s)}
  BY <1>1 DEF KwdsPassed
<1> QED BY <1>1, <1>2, <1>3, KwdsOfPassed

\* OdlFindKwd looks at the first keyword of an object first, OdlNextKwd at the
\* one it is given.
LEMMA KwdSearchBegins ==
  ASSUME LabelStands, NEW s \in Scopes, NEW W, NEW n \in Nat, NEW o \in live,
         NEW c, UNCHANGED <<links, kwd_links>>, start' = o, obj' = o, scope' = s,
         pc' = "visit", current_position' = 0, start_keyword' = c,
         \/ c = NULL /\ kwd' = first_keyword[o]
         \/ c \in kwds /\ kwd_parent[c] = o /\ kwd' = c
  PROVE  KwdGoing(s, W, n)'
<1>1. /\ TreeStands /\ KwdsTyped /\ KwdLinksAgree /\ live \subseteq Objects
      /\ kwds \in SUBSET Keywords
  BY TypesOfLabel DEF LabelStands, KwdsTyped, TypeOK
<1>2. Stands(s)' /\ Passed(s)' = {}
  BY <1>1, Begins
<1>3. PICK b : b = kwd'
  OBVIOUS
<1>4. /\ kwd' = b /\ kwds' = kwds /\ kwd_parent' = kwd_parent
      /\ \A k : Onward(k)' = Onward(k)
  BY <1>3 DEF kwd_links, Onward
<1>5. /\ c # NULL => c \in kwds /\ kwd_parent[c] = o /\ b = c /\ c \in Onward(c)
      /\ c = NULL => b = first_keyword[o]
  BY <1>1, <1>3, KeywordsAssumption, OnwardIsClosed
<1>6. b # NULL => b \in kwds /\ kwd_parent[b] = o
  BY <1>1, <1>5, EndsOfObject DEF KwdLinksAgree, EndsAgree
<1>7. KwdStands'
  <2>1. Onward(start_keyword)' = Onward(c)
    BY <1>4
  <2> QED BY <1>4, <1>5, <1>6, <2>1 DEF KwdStands
<1>8. ASSUME NEW k \in KwdsPassed(s)'
      PROVE  FALSE
  <2>1. /\ k \in kwds
        /\ c # NULL /\ kwd_parent[k] = o => k \in Onward(c)
        /\ kwd_parent[k] = o /\ (b # NULL => k \notin Onward(b))
    <3>1. Onward(start_keyword)' = Onward(c) /\ Onward(kwd)' = Onward(b)
      BY <1>4
    <3> QED BY <1>2, <1>4, <1>8, <3>1 DEF KwdsPassed, KwdScope
  <2>2. CASE c # NULL
    BY <1>5, <2>1, <2>2
  <2>3. CASE c = NULL
    <3>1. k \in KwdsOf(o)
      BY <1>1, <2>1, ListHoldsItsKeywords
    <3> QED BY <1>5, <2>1, <2>3, <3>1 DEF KwdsOf
  <2> QED BY <2>2, <2>3
<1>9. (KwdsPassed(s) \cap W)' = {}
  BY <1>8
<1> QED BY <1>2, <1>7, <1>9, TallyBegins DEF KwdGoing

LEMMA KwdGoingStays ==
  ASSUME NEW s, NEW W, NEW n, UNCHANGED label_vars
  PROVE  /\ pc \in {"visit", "climb"} /\ KwdGoing(s, W, n) => KwdGoing(s, W, n)'
         /\ KwdEnded(s, W, n) => KwdEnded(s, W, n)'
<1>1. UNCHANGED <<links, level, kwd_links, start, pc, obj, scope, start_keyword,
                  kwd, found_kwd, current_position>>
  BY DEF label_vars, vars, walk, cursor
<1>2. ASSUME KwdEnded(s, W, n) PROVE KwdEnded(s, W, n)'
  <2>1. PICK f : f = found_kwd
    OBVIOUS
  <2>2. Answers(f, KwdScope(s) \cap W,
                {k \in KwdScope(s) \cap W : KwdPrecedes(k, f)}, n)
    BY <1>2, <2>1 DEF KwdEnded
  <2> QED BY <1>1, <2>1, <2>2, KwdEndsWith
<1>3. ASSUME pc \in {"visit", "climb"}, KwdGoing(s, W, n)
      PROVE  KwdGoing(s, W, n)'
  <2>1. Stands(s)' /\ Passed(s)' = Passed(s)
    BY <1>1, <1>3, StandsStays DEF KwdGoing
  <2>2. KwdScope(s)' = KwdScope(s) /\ \A k : Onward(k)' = Onward(k)
    BY <1>1, KwdOrderKept
  <2>3. PICK b, c : b = kwd /\ c = start_keyword
    OBVIOUS
  <2>4. /\ kwd' = b /\ start_keyword' = c /\ kwds' = kwds
        /\ kwd_parent' = kwd_parent
    BY <1>1, <2>3 DEF kwd_links
  <2>5. Onward(kwd)' = Onward(kwd) /\ Onward(start_keyword)' = Onward(start_keyword)
    BY <2>2, <2>3, <2>4
  <2>6. KwdsPassed(s)' = KwdsPassed(s)
    BY <1>1, <2>1, <2>2, <2>4, <2>5 DEF KwdsPassed
  <2>7. KwdStands'
    BY <1>1, <1>3, <2>4, <2>5 DEF KwdGoing, KwdStands
  <2>8. (KwdsPassed(s) \cap W)' = KwdsPassed(s) \cap W
    BY <2>6
  <2> QED BY <1>1, <1>3, <2>1, <2>7, <2>8 DEF KwdGoing
<1> QED BY <1>2, <1>3

KeywordInv ==
  /\ pc # "return" => found_kwd = NULL
  /\ request.kind = "keyword" /\ call = "find" /\ ~EscapesSubtree(request.scope) =>
       /\ pc \in {"visit", "climb"} =>
            KwdGoing(request.scope, FittingKwds, request.position)
       /\ pc = "return" =>
            KwdEnded(request.scope, FittingKwds, request.position)

LEMMA FittingKwdsKept ==
  ASSUME UNCHANGED <<kwd_links, request>>
  PROVE  FittingKwds' = FittingKwds
BY DEF kwd_links, FittingKwds, FitsKwd, Fits

LEMMA KeywordSearchBegins ==
  ASSUME LabelStands, KeywordInv, NEW r \in Requests,
         \/ \E o \in Objects : OdlFindKwd(o, r)
         \/ \E k \in Keywords : OdlNextKwd(k, r)
  PROVE  KeywordInv'
<1>1. PICK s, n : s = r.scope /\ n = r.position
  OBVIOUS
<1>2. s \in Scopes /\ n \in Nat
  BY <1>1, RequestsAssumption
<1>3. PICK o, c : /\ o \in live /\ BeginSearch(o, r) /\ start_keyword' = c
                  /\ \/ c = NULL /\ kwd' = first_keyword[o]
                     \/ c \in kwds /\ kwd_parent[c] = o /\ kwd' = c
  <2>1. CASE \E o \in Objects : OdlFindKwd(o, r)
    BY <2>1 DEF OdlFindKwd
  <2>2. CASE \E k \in Keywords : OdlNextKwd(k, r)
    <3>1. PICK k \in Keywords : OdlNextKwd(k, r)
      BY <2>2
    <3>2. k \in kwds /\ kwd_parent[k] \in live
      BY <3>1 DEF OdlNextKwd, Listed, LabelStands, KwdLinksAgree, KwdsDontDangle
    <3> QED BY <3>1, <3>2 DEF OdlNextKwd
  <2> QED BY <2>1, <2>2
<1>4. /\ UNCHANGED <<links, kwd_links>> /\ start' = o /\ obj' = o /\ scope' = s
      /\ pc' = "visit" /\ request' = r /\ current_position' = 0
      /\ found_kwd' = NULL
  BY <1>1, <1>3 DEF BeginSearch, KeywordInv
<1>5. PICK W : W = FittingKwds'
  OBVIOUS
<1>6. KwdGoing(s, W, n)'
  BY <1>2, <1>3, <1>4, KwdSearchBegins
<1>7. request.scope' = s /\ request.position' = n
  BY <1>1, <1>4
<1> QED BY <1>4, <1>5, <1>6, <1>7 DEF KeywordInv

LEMMA KeywordSearchGoesOn ==
  ASSUME LabelStands, Wrong = {}, SearchUnderWay, KeywordInv, call = "find",
         request.kind = "keyword", SearchKwd \/ NextList \/ ClimbOn
  PROVE  KeywordInv'
<1>1. /\ request' = request /\ UNCHANGED <<links, level, kwd_links>>
      /\ call' = "find" /\ start \in live /\ TreeStands
      /\ pc \in {"visit", "climb"} /\ found_kwd = NULL
  BY DEF SearchKwd, NextList, ClimbOn, Climb, Searching, SearchUnderWay,
         LabelStands, KeywordInv
<1>2. pc' # "return" => found_kwd' = NULL
  BY <1>1 DEF SearchKwd, NextList, ClimbOn, Leave
<1>3. PICK s, n, W : /\ s = request.scope /\ n = request.position
                     /\ W = FittingKwds
  OBVIOUS
<1>4. s \in Scopes /\ n \in Nat
  BY <1>3, RequestTyped DEF LabelStands
<1>5. FittingKwds' = W /\ request.scope' = s /\ request.position' = n
  BY <1>1, <1>3, FittingKwdsKept
<1>6. CASE EscapesSubtree(s)
  <2>1. start' = start
    BY <1>1 DEF SearchKwd, NextList, ClimbOn, Climb, OdlNextObjDesc, Leave, GoTo,
       TraverseTree, Visiting
  <2>2. EscapesSubtree(request.scope)'
    BY <1>1, <1>5, <1>6, <2>1, EscapeKept
  <2> QED BY <1>2, <2>2 DEF KeywordInv
<1>7. CASE ~EscapesSubtree(s)
  <2>1. Searched(s) /\ KwdGoing(s, W, n)
    BY <1>1, <1>3, <1>4, <1>7 DEF KeywordInv, Searched
  <2>2. KwdGoesOnOrEnds(s, W, n)
    BY <1>1, <1>3, <1>4, <2>1, SearchKwdGoesOn, NextListGoesOn, KwdClimbGoesOn
  <2> QED BY <1>2, <1>5, <2>2 DEF KeywordInv, KwdGoesOnOrEnds
<1> QED BY <1>6, <1>7

LEMMA KeywordSearchStays ==
  ASSUME KeywordInv, UNCHANGED label_vars
  PROVE  KeywordInv'
<1>1. UNCHANGED <<links, kwd_links, start, request, pc, call, found_kwd>>
  BY DEF label_vars, vars, walk, cursor
<1>2. PICK s, n, W : /\ s = request.scope /\ n = request.position
                     /\ W = FittingKwds
  OBVIOUS
<1>3. FittingKwds' = W /\ request.scope' = s /\ request.position' = n
  BY <1>1, <1>2, FittingKwdsKept
<1>4. EscapesSubtree(s)' <=> EscapesSubtree(s)
  BY <1>1, EscapeKept
<1>5. /\ pc \in {"visit", "climb"} /\ KwdGoing(s, W, n) => KwdGoing(s, W, n)'
      /\ KwdEnded(s, W, n) => KwdEnded(s, W, n)'
  BY KwdGoingStays
<1> QED BY <1>1, <1>2, <1>3, <1>4, <1>5 DEF KeywordInv

LEMMA NextKeywordFinds ==
  ASSUME LabelStands, LevelInv, SearchUnderWay, KeywordInv,
         [LabelNext]_label_vars
  PROVE  KeywordInv'
<1>1. call = "find" => Wrong = {}
  BY DEF LevelInv, Adjusting
<1>2. CASE \/ EditTree \/ EditKwds \/ EditBoth \/ SearchReturns
           \/ WalkOn /\ call # "find"
  <2>1. found_kwd' = NULL
    <3>1. CASE SearchReturns
      BY <3>1 DEF SearchReturns
    <3>2. CASE ~SearchReturns
      <4>1. pc # "return" /\ found_kwd' = found_kwd
        BY <1>2, <3>2 DEF EditTree, EditKwds, EditBoth, FreeTree, WalkOn,
           OdlNewObjDesc, OdlCopyObjDesc, OdlCutObjDesc, OdlPasteObjDesc,
           OdlPasteObjDescBefore, OdlPasteObjDescAfter, OdlFreeTree,
           OdlAdjustObjDescLevel, SearchKwd, NextList, NextObject, ClimbOn,
           Climb, Searching, cursor
      <4> QED BY <4>1 DEF KeywordInv
    <3> QED BY <3>1, <3>2
  <2> QED BY <1>2, <2>1, NoSearchAfter DEF KeywordInv
<1>3. CASE Search
  <2>1. PICK r \in Requests :
          \/ \E o \in Objects : OdlFindKwd(o, r) \/ FindObject(o, r)
          \/ \E k \in Keywords : OdlNextKwd(k, r)
    BY <1>3 DEF Search
  <2>2. CASE r.kind = "keyword"
    BY <2>1, <2>2, KeywordSearchBegins DEF FindObject
  <2>3. CASE r.kind # "keyword"
    BY <2>1, <2>3 DEF OdlFindKwd, OdlNextKwd, FindObject, BeginSearch, KeywordInv
  <2> QED BY <2>2, <2>3
<1>4. CASE WalkOn /\ call = "find"
  <2>1. CASE request.kind # "keyword"
    <3>1. request' = request /\ found_kwd' = found_kwd /\ pc # "return"
      BY <1>4, <2>1 DEF WalkOn, OdlAdjustObjDescLevel, SearchKwd, NextList,
         NextObject, ClimbOn, Climb, Searching, cursor
    <3> QED BY <2>1, <3>1 DEF KeywordInv
  <2>2. CASE request.kind = "keyword"
    <3>1. SearchKwd \/ NextList \/ ClimbOn
      BY <1>4, <2>2 DEF WalkOn, OdlAdjustObjDescLevel, NextObject, Searching
    <3> QED BY <1>1, <1>4, <2>2, <3>1, KeywordSearchGoesOn
  <2> QED BY <2>1, <2>2
<1>5. CASE UNCHANGED label_vars
  BY <1>5, KeywordSearchStays
<1> QED BY <1>2, <1>3, <1>4, <1>5 DEF LabelNext

LEMMA KeywordInvAnswers ==
  ASSUME LabelStands, KeywordInv, SearchUnderWay
  PROVE  KwdAnswers
<1> SUFFICES ASSUME Answered("keyword") PROVE KwdAnswers
  BY DEF KwdAnswers
<1>1. KwdEnded(request.scope, FittingKwds, request.position)
  BY DEF KeywordInv, SearchUnderWay, Answered
<1>2. KwdScope(request.scope) = KwdsInScope /\ kwds \subseteq Keywords
  BY DEF KwdScope, KwdsInScope, LabelStands, LabelTypeOK
<1>3. {k \in KwdsInScope : FitsKwd(k)} = KwdScope(request.scope) \cap FittingKwds
  BY <1>2 DEF FittingKwds, KwdsInScope
<1> QED BY <1>1, <1>3 DEF KwdEnded, KwdAnswers

LabelSearchInv == SearchUnderWay /\ ObjectInv /\ KeywordInv

LEMMA SearchesGoOn == LabelSpec => []LabelSearchInv
<1>1. LabelInit => LabelSearchInv
  BY LabelInitSearches DEF LabelSearchInv, LabelInit, Init, KeywordInv
<1>2. /\ LabelTypeOK /\ KwdLinksAgree /\ LinksAgree /\ NoCycles /\ LevelInv
      /\ LabelSearchInv /\ [LabelNext]_label_vars
      => LabelSearchInv'
  <2> SUFFICES ASSUME LabelTypeOK, KwdLinksAgree, LinksAgree, NoCycles, LevelInv,
                      LabelSearchInv, [LabelNext]_label_vars
               PROVE  LabelSearchInv'
    OBVIOUS
  <2>1. LabelStands
    BY DEF LabelStands, TreeStands, LabelTypeOK
  <2> QED BY <2>1, UnderWayStays, NextObjectFinds, NextKeywordFinds
          DEF LabelSearchInv
<1> QED BY <1>1, <1>2, LabelTypeCorrect, KwdLinksAlwaysAgree, LabelTreeStands,
           PTL DEF LabelSpec

\* OdlFindKwd and OdlNextKwd answer, on any label and for any name, value,
\* scope and position: the keyword with as many matches before it, in the
\* order of the label, as there should be, or NULL if there are not that many.
THEOREM KwdSearchesAnswer == LabelSpec => []KwdAnswers
<1>1. LabelTypeOK /\ KwdLinksAgree /\ LinksAgree /\ NoCycles /\ LabelSearchInv
        => KwdAnswers
  BY KeywordInvAnswers DEF LabelStands, TreeStands, LabelTypeOK, LabelSearchInv
<1> QED BY <1>1, SearchesGoOn, LabelTypeCorrect, KwdLinksAlwaysAgree,
           LabelTreeStands, PTL

\* OdlFindObjDesc answers the object of that class with that keyword and value
\* at that position, on any label where no object has two keywords of the name.
THEOREM ObjectSearchesAnswer == LabelSpec => []ObjectAnswers
<1>1. LabelTypeOK /\ KwdLinksAgree /\ LinksAgree /\ NoCycles /\ LabelSearchInv
        => ObjectAnswers
  BY ObjectInvAnswers DEF LabelStands, TreeStands, LabelTypeOK, LabelSearchInv
<1> QED BY <1>1, SearchesGoOn, LabelTypeCorrect, KwdLinksAlwaysAgree,
           LabelTreeStands, PTL


-----------------------------------------------------------------------------
(* What a search of a label has left to do: as a walk of OdlTreeProofs, and *)
(* within the object visited the keywords from the one looked at on.       *)

KwdsToGo == IF kwd = NULL THEN {} ELSE Onward(kwd)

\* Where no object is passed, a search passes a keyword.
SearchGoesForward ==
  \/ GoesForward
  \/ ToGo' = ToGo /\ pc = "visit" /\ pc' = "visit" /\ Shrinks(KwdsToGo, KwdsToGo')

\* A keyword is looked at where a search for one visits its object, and it is
\* in a list: the loop along it comes to an end.
KwdLooked ==
  /\ kwd # NULL => Searching("keyword") /\ Listed(kwd)
  /\ call # "find" => request.kind # "keyword"

LEMMA KeptToGo ==
  ASSUME UNCHANGED <<links, obj, pc>>
  PROVE  ToGo' = ToGo
<1>1. PICK o : o = obj
  OBVIOUS
<1>2. live' = live /\ obj' = o /\ pc' = pc
  BY <1>1 DEF links
<1>3. Before(o)' = Before(o) /\ Done(o)' = Done(o)
  BY OrderKept
<1>4. Before(obj)' = Before(o) /\ Done(obj)' = Done(o)
  BY <1>2, <1>3
<1> QED BY <1>1, <1>2, <1>4 DEF ToGo

LEMMA SearchKwdForward ==
  ASSUME LabelTypeOK, KwdLinksAgree, KwdLooked, SearchKwd
  PROVE  SearchGoesForward /\ KwdLooked'
<1>1. KwdsTyped /\ live \subseteq Objects
  BY TypesOfLabel DEF TypeOK
<1>2. /\ UNCHANGED <<links, kwd_links, call, request>> /\ Listed(kwd)
      /\ pc = "visit" /\ call = "find" /\ request.kind = "keyword"
  BY DEF SearchKwd, Searching, KwdLooked
<1>3. kwds' = kwds /\ kwd_parent' = kwd_parent /\ \A k : Onward(k)' = Onward(k)
  BY <1>2 DEF kwd_links, Onward
<1>4. CASE kwd' = NULL /\ Leave(NULL)
  BY <1>2, <1>4 DEF Leave, SearchGoesForward, GoesForward, KwdLooked
<1>5. CASE kwd' = kwd_right[kwd] /\ UNCHANGED <<pc, obj>>
  <2>1. PICK k, r : k = kwd /\ r = kwd_right[kwd]
    OBVIOUS
  <2>2. k \in kwds /\ kwd_parent[k] # NULL /\ k \in Keywords /\ k # NULL
    BY <1>1, <1>2, <2>1, NullIsNoKeyword DEF Listed, KwdsTyped
  <2>3. ToGo' = ToGo
    BY <1>2, <1>5, KeptToGo
  <2>4. KwdsToGo = Onward(k) /\ k \in Onward(k)
    BY <1>1, <2>1, <2>2, OnwardStep DEF KwdsToGo
  <2>5. CASE r = NULL
    <3>1. KwdsToGo' = {} /\ kwd' = NULL
      BY <1>5, <2>1, <2>5 DEF KwdsToGo
    <3> QED BY <1>2, <1>5, <2>3, <2>4, <3>1
            DEF SearchGoesForward, Shrinks, KwdLooked
  <2>6. CASE r # NULL
    <3>1. Onward(kwd)' = Onward(r)
      BY <1>3, <1>5, <2>1
    <3>2. KwdsToGo' = Onward(r)
      BY <1>5, <2>1, <2>6, <3>1 DEF KwdsToGo
    <3>3. Onward(k) = {k} \cup Onward(r) /\ k \notin Onward(r)
      BY <1>1, <2>1, <2>2, <2>6, OnwardStep, OnwardEnds
    <3>4. r \in kwds /\ kwd_parent[r] = kwd_parent[k]
      BY <1>1, <2>1, <2>2, <2>6, LinksOfKwd DEF KwdLinksAgree, NeighboursAgree
    <3>5. KwdLooked'
      BY <1>2, <1>3, <1>5, <2>1, <2>2, <3>4 DEF KwdLooked, Listed, Searching
    <3> QED BY <1>2, <1>5, <2>3, <2>4, <3>2, <3>3, <3>5
            DEF SearchGoesForward, Shrinks
  <2> QED BY <2>5, <2>6
<1> QED BY <1>4, <1>5 DEF SearchKwd

LEMMA FirstKwdLooked ==
  ASSUME LabelTypeOK, KwdLinksAgree, KwdLooked, AtFirstKwd,
         UNCHANGED <<kwd_links, call, request>>,
         pc' = "visit" => obj' \in live
  PROVE  KwdLooked'
<1>1. PICK o : o = obj'
  OBVIOUS
<1>2. kwds' = kwds /\ kwd_parent' = kwd_parent /\ first_keyword' = first_keyword
  BY DEF kwd_links
<1>3. CASE kwd' = NULL
  BY <1>3 DEF KwdLooked
<1>4. CASE kwd' # NULL
  <2>1. kwd' = first_keyword[o] /\ o \in live /\ o \in Objects
    BY <1>1, <1>4 DEF AtFirstKwd, LabelTypeOK, TypeOK
  <2>2. first_keyword[o] \in kwds /\ kwd_parent[first_keyword[o]] = o
    BY <1>4, <2>1, EndsOfObject DEF KwdLinksAgree, EndsAgree, KwdsDontDangle
  <2>3. o # NULL
    BY <2>1, NullIsNoObject
  <2>4. pc' = "visit" /\ request.kind = "keyword" /\ call = "find"
    BY <1>4 DEF AtFirstKwd, KwdLooked
  <2> QED BY <1>2, <2>1, <2>2, <2>3, <2>4 DEF KwdLooked, Listed, Searching
<1> QED BY <1>3, <1>4

LEMMA WalkOnForward ==
  ASSUME LabelStands, WalkerLives, KwdLooked, WalkOn
  PROVE  SearchGoesForward /\ WalkerLives' /\ KwdLooked'
<1>1. TreeStands /\ LabelTypeOK /\ KwdLinksAgree
  BY DEF LabelStands
<1>2. CASE OdlAdjustObjDescLevel /\ UNCHANGED <<kwd_links, cursor>>
  <2>1. KwdLooked'
    BY <1>2 DEF KwdLooked, Searching, OdlAdjustObjDescLevel, cursor
  <2> QED BY <1>1, <1>2, <2>1, WalkForward DEF Walk, SearchGoesForward
<1>3. CASE SearchKwd
  <2>1. WalkerLives'
    BY <1>3 DEF SearchKwd, Searching, Leave, WalkerLives, links
  <2> QED BY <1>1, <1>3, <2>1, SearchKwdForward
<1>4. ASSUME UNCHANGED links, pc = "visit", OdlNextObjDesc \/ Leave(obj)
      PROVE  GoesForward /\ WalkerLives'
  <2>1. obj \in live
    BY <1>4 DEF WalkerLives
  <2>2. CASE Leave(obj) \/ Leave(NULL)
    <3>1. pc' \in {"idle", "return"}
      BY <2>2 DEF Leave
    <3> QED BY <3>1 DEF GoesForward, WalkerLives
  <2>3. CASE \/ TraverseTree
             \/ GoTo(first_child[obj])
             \/ GoTo(right_sibling[obj])
    BY <1>1, <1>4, <2>1, <2>3, TraverseForward
  <2> QED BY <1>4, <2>2, <2>3 DEF OdlNextObjDesc
<1>5. CASE NextList
  <2>1. GoesForward /\ WalkerLives'
    BY <1>4, <1>5 DEF NextList, Searching
  <2>2. UNCHANGED <<kwd_links, call, request>> /\ AtFirstKwd /\ live' = live
    BY <1>5 DEF NextList, links
  <2>3. KwdLooked'
    BY <1>1, <2>1, <2>2, FirstKwdLooked DEF WalkerLives
  <2> QED BY <2>1, <2>3 DEF SearchGoesForward
<1>6. CASE NextObject
  <2>1. GoesForward /\ WalkerLives'
    BY <1>4, <1>6 DEF NextObject, Searching
  <2>2. KwdLooked'
    BY <1>6 DEF NextObject, Searching, KwdLooked, cursor
  <2> QED BY <2>1, <2>2 DEF SearchGoesForward
<1>7. CASE ClimbOn
  <2>1. GoesForward /\ WalkerLives'
    BY <1>1, <1>7, ClimbForward DEF ClimbOn
  <2>2. UNCHANGED <<kwd_links, call, request>> /\ AtFirstKwd /\ live' = live
    BY <1>7 DEF ClimbOn, Climb, links
  <2>3. KwdLooked'
    BY <1>1, <2>1, <2>2, FirstKwdLooked DEF WalkerLives
  <2> QED BY <2>1, <2>3 DEF SearchGoesForward
<1> QED BY <1>2, <1>3, <1>5, <1>6, <1>7 DEF WalkOn

LEMMA EditKeepsLooking ==
  ASSUME SearchUnderWay, KwdLooked, EditTree \/ EditBoth \/ EditKwds
  PROVE  KwdLooked'
<1>1. pc = "idle" /\ cursor' = cursor /\ call' \in {call, "adjust"}
  BY DEF EditTree, EditBoth, EditKwds, FreeTree, OdlNewObjDesc, OdlCopyObjDesc,
     OdlCutObjDesc, OdlPasteObjDesc, OdlPasteObjDescBefore, OdlPasteObjDescAfter,
     OdlFreeTree, NewBlock, BeginAdjust, walk
<1>2. kwd = NULL /\ request.kind # "keyword"
  BY <1>1 DEF KwdLooked, Searching, SearchUnderWay
<1> QED BY <1>1, <1>2 DEF KwdLooked, cursor

LEMMA SearchLooks ==
  ASSUME LabelStands, KwdLooked, Search
  PROVE  KwdLooked' /\ WalkerLives'
<1>1. LabelTypeOK /\ KwdLinksAgree /\ KwdsTyped /\ live \subseteq Objects
  BY TypesOfLabel DEF LabelStands, TypeOK
<1>2. PICK r \in Requests :
        \/ \E o \in Objects : OdlFindKwd(o, r) \/ FindObject(o, r)
        \/ \E k \in Keywords : OdlNextKwd(k, r)
  BY DEF Search
<1>3. CASE \E o \in Objects : FindObject(o, r)
  <2>1. kwd = NULL
    BY <1>3 DEF FindObject, BeginSearch, KwdLooked, Searching
  <2> QED BY <1>3, <2>1 DEF FindObject, BeginSearch, KwdLooked, WalkerLives, links
<1>4. CASE \E o \in Objects : OdlFindKwd(o, r)
  <2>1. PICK o \in live : /\ r.kind = "keyword" /\ BeginSearch(o, r)
                          /\ kwd' = first_keyword[o]
    BY <1>4 DEF OdlFindKwd
  <2>2. UNCHANGED <<links, kwd_links>> /\ live' = live /\ obj' = o
        /\ pc' = "visit" /\ call' = "find" /\ request' = r
    BY <2>1 DEF BeginSearch, links
  <2>3. CASE first_keyword[o] = NULL
    BY <2>1, <2>2, <2>3 DEF KwdLooked, WalkerLives
  <2>4. CASE first_keyword[o] # NULL
    <3>1. o \in Objects /\ o # NULL
      BY <1>1, NullIsNoObject
    <3>2. first_keyword[o] \in kwds /\ kwd_parent[first_keyword[o]] = o
      BY <1>1, <2>4, <3>1, EndsOfObject DEF KwdLinksAgree, EndsAgree
    <3> QED BY <2>1, <2>2, <3>1, <3>2
            DEF KwdLooked, WalkerLives, Listed, Searching, kwd_links
  <2> QED BY <2>3, <2>4
<1>5. CASE \E k \in Keywords : OdlNextKwd(k, r)
  <2>1. PICK k : /\ r.kind = "keyword" /\ Listed(k)
                 /\ BeginSearch(kwd_parent[k], r) /\ kwd' = k
    BY <1>5 DEF OdlNextKwd
  <2>2. kwd_parent[k] \in live
    BY <1>1, <2>1, LinksOfKwd DEF Listed
  <2> QED BY <2>1, <2>2 DEF BeginSearch, KwdLooked, WalkerLives, Listed,
          Searching, kwd_links, links
<1> QED BY <1>2, <1>3, <1>4, <1>5

LEMMA LabelNextLooks ==
  ASSUME LabelStands, SearchUnderWay, WalkerLives, KwdLooked,
         [LabelNext]_label_vars
  PROVE  WalkerLives' /\ KwdLooked'
<1>1. TreeStands
  BY DEF LabelStands
<1>2. CASE EditTree \/ EditBoth
  <2>1. Edit
    BY <1>2 DEF EditTree, EditBoth, FreeTree, Edit
  <2> QED BY <1>1, <1>2, <2>1, NextWalkerLives, EditKeepsLooking DEF Next
<1>3. CASE EditKwds \/ UNCHANGED label_vars
  <2>1. UNCHANGED vars
    BY <1>3 DEF EditKwds, label_vars, vars
  <2>2. WalkerLives'
    BY <1>1, <2>1, NextWalkerLives
  <2>3. CASE UNCHANGED label_vars
    <3>1. /\ pc' = pc /\ call' = call /\ request' = request /\ kwd' = kwd
          /\ kwds' = kwds /\ kwd_parent' = kwd_parent
      BY <2>3 DEF label_vars, vars, walk, kwd_links, cursor
    <3> QED BY <2>2, <3>1 DEF KwdLooked, Searching, Listed
  <2> QED BY <1>3, <2>2, <2>3, EditKeepsLooking
<1>4. CASE Search
  BY <1>4, SearchLooks
<1>5. CASE WalkOn
  BY <1>5, WalkOnForward
<1>6. CASE SearchReturns
  <2>1. kwd = NULL /\ kwd' = kwd /\ request' = NoRequest /\ pc' = "idle"
    BY <1>6 DEF SearchReturns, FindReturns, KwdLooked, Searching
  <2> QED BY <2>1 DEF KwdLooked, WalkerLives, NoRequest
<1> QED BY <1>2, <1>3, <1>4, <1>5, <1>6 DEF LabelNext

\* No step of a search goes back, on any label: it passes an object, or a
\* keyword of the object it visits, or finds the sibling its climb was for, or
\* climbs to a parent.
THEOREM SearchesGoForward == LabelSpec => [][WalkOn => SearchGoesForward]_label_vars
<1>1. LabelInit => WalkerLives /\ KwdLooked
  BY DEF LabelInit, Init, WalkerLives, KwdLooked, NoRequest
<1>2. LabelTypeOK /\ LinksAgree /\ NoCycles /\ KwdLinksAgree => LabelStands
  BY DEF LabelStands, TreeStands, LabelTypeOK
<1>3. LabelSearchInv => SearchUnderWay
  BY DEF LabelSearchInv
<1>4. LabelStands /\ SearchUnderWay /\ WalkerLives /\ KwdLooked
        /\ [LabelNext]_label_vars => WalkerLives' /\ KwdLooked'
  BY LabelNextLooks
<1>5. LabelStands /\ WalkerLives /\ KwdLooked /\ [LabelNext]_label_vars
        => [WalkOn => SearchGoesForward]_label_vars
  BY WalkOnForward
<1> QED
  BY <1>1, <1>2, <1>3, <1>4, <1>5, LabelTypeCorrect, LabelTreeStands,
     KwdLinksAlwaysAgree, SearchesGoOn, PTL DEF LabelSpec

-----------------------------------------------------------------------------
(* What searches compare: a pattern with stars and a text.                 *)

LEMMA LeastIsMin ==
  ASSUME NEW S \in SUBSET Nat, S # {}
  PROVE  Min(S) \in S /\ \A i \in S : Min(S) <= i
<1>1. \E i \in S : \A j \in S : i <= j
  BY LeastNat
<1> QED BY <1>1 DEF Min

LEMMA GreatestIsMax ==
  ASSUME NEW n \in Nat, NEW S \in SUBSET (0..n), S # {}
  PROVE  Max(S) \in S /\ \A i \in S : Max(S) >= i
<1> DEFINE Rest == {n - i : i \in S}
<1>1. PICK r \in Rest : \A q \in Rest : r <= q
  <2>1. \A i \in S : n - i \in Nat
    OBVIOUS
  <2>2. Rest \in SUBSET Nat /\ Rest # {}
    BY <2>1
  <2> QED BY <2>2, LeastNat
<1>2. PICK i \in S : r = n - i
  BY <1>1
<1>3. \A j \in S : i >= j
  <2>1. TAKE j \in S
  <2>2. r <= n - j
    BY <1>1
  <2> QED BY <1>2, <2>2
<1> QED BY <1>3 DEF Max

\* A recursive function over the first numbers is defined, and takes values in
\* the set its steps stay in.
Iterates(f, n, V, v, step) ==
  /\ f \in [0..n -> V]
  /\ f[0] = v
  /\ \A j \in 1..n : f[j] = step[j][f[j - 1]]

LEMMA Iterated ==
  ASSUME NEW n \in Nat, NEW V, NEW v \in V, NEW step \in [1..n -> [V -> V]]
  PROVE  \E f : Iterates(f, n, V, v, step)
<1> DEFINE Good(k) == \E f \in [0..k -> V] :
             f[0] = v /\ \A j \in 1..k : f[j] = step[j][f[j - 1]]
           Bad == {k \in 0..n : ~Good(k)}
<1> SUFFICES Good(n)
  BY DEF Iterates
<1> HIDE DEF Good
<1> SUFFICES ASSUME Bad # {} PROVE FALSE
  OBVIOUS
<1>1. PICK k \in Bad : \A i \in Bad : k <= i
  <2>1. Bad \in SUBSET Nat
    OBVIOUS
  <2> QED BY <2>1, LeastNat
<1>2. Good(0)
  <2> DEFINE h == [i \in 0..0 |-> v]
  <2>1. h \in [0..0 -> V] /\ h[0] = v /\ 1..0 = {}
    OBVIOUS
  <2> HIDE DEF h
  <2> QED BY <2>1 DEF Good
<1>3. k \in 1..n /\ k - 1 \in 0..n /\ Good(k - 1)
  BY <1>1, <1>2
<1>4. PICK f \in [0..(k - 1) -> V] :
        f[0] = v /\ \A j \in 1..(k - 1) : f[j] = step[j][f[j - 1]]
  BY <1>3 DEF Good
<1> DEFINE g == [i \in 0..k |-> IF i = k THEN step[k][f[k - 1]] ELSE f[i]]
<1>5. k - 1 \in 0..(k - 1)
  BY <1>3
<1>6. f[k - 1] \in V /\ step[k] \in [V -> V]
  BY <1>3, <1>5
<1>7. step[k][f[k - 1]] \in V
  BY <1>6
<1>8. g \in [0..k -> V]
  BY <1>3, <1>7
<1>9. \A j \in 1..k : g[j] = step[j][g[j - 1]]
  <2> TAKE j \in 1..k
  <2>1. j \in 0..k /\ j - 1 \in 0..k /\ j - 1 # k
    BY <1>3
  <2>2. g[j - 1] = f[j - 1]
    BY <2>1
  <2>3. CASE j = k
    BY <2>1, <2>2, <2>3
  <2>4. CASE j # k
    <3>1. j \in 1..(k - 1)
      BY <1>3, <2>4
    <3> QED BY <1>4, <2>1, <2>2, <2>4, <3>1
  <2> QED BY <2>3, <2>4
<1>10. g[0] = v
  BY <1>3, <1>4
<1>11. Good(k)
  BY <1>8, <1>9, <1>10 DEF Good
<1> QED BY <1>1, <1>11

\* One more character of the pattern.
EndsOn(pattern, text, j, before, k) ==
  IF pattern[j] = Star THEN \E e \in before : e <= k
  ELSE k >= 1 /\ k - 1 \in before /\ text[k] = pattern[j]

LEMMA MayEndFollows ==
  ASSUME NEW C, NEW pattern \in Seq(C), NEW text \in Seq(C),
         NEW begin \in SUBSET (0..Len(text)),
         NEW ends, ends = MayEnd(pattern, text, begin)
  PROVE  /\ ends[0] = begin
         /\ \A j \in 1..Len(pattern) :
              /\ ends[j] \in SUBSET (0..Len(text))
              /\ \A k \in 0..Len(text) :
                   k \in ends[j] <=> EndsOn(pattern, text, j, ends[j - 1], k)
<1> DEFINE n == Len(pattern)
           m == Len(text)
           V == SUBSET (0..m)
           After(j, E) == IF pattern[j] = Star
                          THEN {k \in 0..m : \E e \in E : e <= k}
                          ELSE {k \in 1..m : k - 1 \in E /\ text[k] = pattern[j]}
           step == [j \in 1..n |-> [E \in V |-> After(j, E)]]
           Body(g) == [j \in 0..n |-> IF j = 0 THEN begin ELSE After(j, g[j - 1])]
<1>1. n \in Nat /\ m \in Nat /\ begin \in V
  OBVIOUS
<1>2. step \in [1..n -> [V -> V]]
  BY <1>1
<1>3. PICK h : Iterates(h, n, V, begin, step)
  <2> HIDE DEF n, V, step
  <2> QED BY <1>1, <1>2, Iterated
<1>4. h[0] = begin /\ \A j \in 1..n : h[j] = After(j, h[j - 1])
  <2>1. \A j \in 1..n : j - 1 \in 0..n
    BY <1>1
  <2>2. \A j \in 1..n : h[j - 1] \in V
    BY <1>3, <2>1 DEF Iterates
  <2>3. \A j \in 1..n : step[j][h[j - 1]] = After(j, h[j - 1])
    BY <2>2
  <2> HIDE DEF step, After
  <2> QED BY <1>3, <2>3 DEF Iterates
<1>5. h = Body(h)
  <2>1. h = [j \in 0..n |-> h[j]]
    BY <1>3 DEF Iterates
  <2> HIDE DEF After
  <2>2. \A j \in 0..n : h[j] = IF j = 0 THEN begin ELSE After(j, h[j - 1])
    BY <1>4
  <2> QED BY <2>1, <2>2
<1>6. ends = Body(ends)
  <2>1. ends = CHOOSE g : g = Body(g)
    BY DEF MayEnd
  <2> HIDE DEF Body
  <2> QED BY <1>5, <2>1
<1>7. ends[0] = begin /\ \A j \in 1..n : ends[j] = After(j, ends[j - 1])
  <2> HIDE DEF After
  <2>1. \A j \in 0..n : ends[j] = IF j = 0 THEN begin ELSE After(j, ends[j - 1])
    BY <1>6
  <2> QED BY <1>1, <2>1
<1>8. ASSUME NEW j \in 1..n
      PROVE  /\ ends[j] \in SUBSET (0..m)
             /\ \A k \in 0..m :
                  k \in ends[j] <=> EndsOn(pattern, text, j, ends[j - 1], k)
  <2>1. ends[j] = After(j, ends[j - 1])
    BY <1>7
  <2>2. After(j, ends[j - 1]) \in SUBSET (0..m)
    BY <1>1
  <2>3. \A k \in 0..m : k \in After(j, ends[j - 1])
                          <=> EndsOn(pattern, text, j, ends[j - 1], k)
    BY <1>1 DEF EndsOn
  <2> HIDE DEF After
  <2> QED BY <2>1, <2>2, <2>3
<1> HIDE DEF After
<1> QED BY <1>7, <1>8

\* What an occurrence of a stretch of the pattern is.
IsAt(pattern, i, j, text, s) == \A x \in i..j : text[x + (s - i)] = pattern[x]

LEMMA OccurrencesAre ==
  ASSUME NEW C, NEW pattern \in Seq(C), NEW text \in Seq(C),
         NEW j \in 1..Len(pattern), NEW i \in 1..j,
         NEW from \in 1..(Len(text) + 1), NEW t
  PROVE  t \in Occurrences(text, SubSeq(pattern, i, j), from) <=>
           t \in from..(Len(text) - (j - i)) /\ IsAt(pattern, i, j, text, t)
<1> DEFINE chunk == SubSeq(pattern, i, j)
           len == j - i + 1
<1>1. chunk \in Seq(C) /\ Len(chunk) = len
         /\ \A y \in 1..len : chunk[y] = pattern[i + y - 1]
  OBVIOUS
<1>2. len \in Nat /\ Len(text) \in Nat
  OBVIOUS
<1>3. from..(Len(text) - Len(chunk) + 1) = from..(Len(text) - (j - i))
  BY <1>1
<1> HIDE DEF chunk
<1>4. ASSUME NEW s \in from..(Len(text) - (j - i))
      PROVE  SubSeq(text, s, s + Len(chunk) - 1) = chunk
               <=> \A x \in i..j : text[x + (s - i)] = pattern[x]
  <2> DEFINE piece == SubSeq(text, s, s + len - 1)
  <2>1. /\ piece \in Seq(C) /\ Len(piece) = len
        /\ \A y \in 1..len : piece[y] = text[s + y - 1]
    BY <1>2
  <2> HIDE DEF piece
  <2>2. piece = chunk <=> \A y \in 1..len : piece[y] = chunk[y]
    BY <1>1, <2>1, SeqEqual
  <2>3. (\A y \in 1..len : piece[y] = chunk[y])
          <=> \A y \in 1..len : text[s + y - 1] = pattern[i + y - 1]
    BY <1>1, <2>1
  <2>4. ASSUME \A y \in 1..len : text[s + y - 1] = pattern[i + y - 1],
               NEW x \in i..j
        PROVE  text[x + (s - i)] = pattern[x]
    <3>1. x - i + 1 \in 1..len /\ s + (x - i + 1) - 1 = x + (s - i)
             /\ i + (x - i + 1) - 1 = x
      OBVIOUS
    <3> QED BY <2>4, <3>1
  <2>5. ASSUME \A x \in i..j : text[x + (s - i)] = pattern[x], NEW y \in 1..len
        PROVE  text[s + y - 1] = pattern[i + y - 1]
    <3>1. i + y - 1 \in i..j /\ (i + y - 1) + (s - i) = s + y - 1
      OBVIOUS
    <3> QED BY <2>5, <3>1
  <2>6. SubSeq(text, s, s + Len(chunk) - 1) = piece
    BY <1>1 DEF piece
  <2> QED BY <2>2, <2>3, <2>4, <2>5, <2>6
<1>5. Occurrences(text, chunk, from) =
        {s \in from..(Len(text) - (j - i)) : SubSeq(text, s, s + Len(chunk) - 1) = chunk}
  BY <1>3 DEF Occurrences
<1> QED BY <1>4, <1>5 DEF chunk, IsAt

\* strstr finds the first of them.
LEMMA StrStrFinds ==
  ASSUME NEW text, NEW chunk, NEW from \in Nat, from # 0,
         Len(text) \in Nat, Len(chunk) \in Nat,
         NEW O, O = Occurrences(text, chunk, from)
  PROVE  /\ O = {} => StrStr(text, chunk, from) = 0
         /\ O # {} => /\ StrStr(text, chunk, from) \in O
                      /\ StrStr(text, chunk, from) # 0
                      /\ \A s \in O : StrStr(text, chunk, from) <= s
<1>1. O \in SUBSET Nat /\ 0 \notin O
  BY DEF Occurrences
<1>2. StrStr(text, chunk, from) = IF O = {} THEN 0 ELSE Min(O)
  BY DEF StrStr
<1> QED BY <1>1, <1>2, LeastIsMin

\* Where the chunk that a place of the pattern is in begins.
LEMMA ChunkStartIs ==
  ASSUME NEW C, NEW pattern \in Seq(C), NEW j \in 1..Len(pattern),
         pattern[j] # Star
  PROVE  /\ ChunkStart(pattern, j) \in 1..j
         /\ j = 1 \/ pattern[j - 1] = Star => ChunkStart(pattern, j) = j
         /\ j # 1 /\ pattern[j - 1] # Star =>
              ChunkStart(pattern, j) = ChunkStart(pattern, j - 1)
<1> DEFINE Stars(k) == {0} \cup {x \in 1..k : pattern[x] = Star}
<1>1. Len(pattern) \in Nat
  OBVIOUS
<1>2. ASSUME NEW k \in 0..Len(pattern)
      PROVE  Max(Stars(k)) \in Stars(k) /\ \A x \in Stars(k) : Max(Stars(k)) >= x
  <2>1. Stars(k) \in SUBSET (0..k) /\ Stars(k) # {} /\ k \in Nat
    OBVIOUS
  <2> HIDE DEF Stars
  <2> QED BY <2>1, GreatestIsMax
<1>3. ChunkStart(pattern, j) = Max(Stars(j)) + 1
        /\ ChunkStart(pattern, j - 1) = Max(Stars(j - 1)) + 1
  BY DEF ChunkStart
<1>4. j \in 0..Len(pattern) /\ j - 1 \in 0..Len(pattern)
  OBVIOUS
<1>5. Stars(j) = Stars(j - 1)
  OBVIOUS
<1>6. ChunkStart(pattern, j) \in 1..j
  BY <1>2, <1>3, <1>4
<1>7. CASE j = 1 \/ pattern[j - 1] = Star
  <2>1. j - 1 \in Stars(j)
    BY <1>7
  <2> QED BY <1>2, <1>3, <1>4, <1>6, <1>7, <2>1
<1>8. CASE j # 1 /\ pattern[j - 1] # Star
  BY <1>3, <1>5, <1>6, <1>8
<1> QED BY <1>6, <1>7, <1>8

\* What TextStart goes on to, past the place j of the pattern.
After(pattern, text, j, from) ==
  IF ChunkEnds(pattern, j)
  THEN LET at == IF from = 0 THEN 0 ELSE StrStr(text, Chunk(pattern, j), from)
       IN  IF at = 0 THEN 0 ELSE at + Len(Chunk(pattern, j))
  ELSE from

LEMMA AfterChunk ==
  ASSUME NEW C, NEW pattern \in Seq(C), NEW text \in Seq(C),
         NEW j \in 1..Len(pattern), ChunkEnds(pattern, j),
         NEW from \in 1..(Len(text) + 1),
         NEW i, i = ChunkStart(pattern, j),
         NEW O, O = Occurrences(text, Chunk(pattern, j), from)
  PROVE  /\ O \in SUBSET (from..(Len(text) - (j - i)))
         /\ O = {} => After(pattern, text, j, from) = 0
         /\ O # {} =>
              \E s \in O : /\ \A t \in O : s <= t
                           /\ After(pattern, text, j, from) = s + (j - i) + 1
<1>1. i \in 1..j
  BY ChunkStartIs DEF ChunkEnds
<1>2. Chunk(pattern, j) \in Seq(C) /\ Len(Chunk(pattern, j)) = j - i + 1
  BY <1>1 DEF Chunk
<1>3. O \in SUBSET (from..(Len(text) - (j - i)))
  <2>1. from..(Len(text) - Len(Chunk(pattern, j)) + 1) = from..(Len(text) - (j - i))
    BY <1>1, <1>2
  <2> QED BY <2>1 DEF Occurrences
<1> DEFINE at == StrStr(text, Chunk(pattern, j), from)
<1>4. /\ O = {} => at = 0
      /\ O # {} => at \in O /\ at # 0 /\ \A s \in O : at <= s
  <2>1. Len(text) \in Nat /\ Len(Chunk(pattern, j)) \in Nat /\ from \in Nat /\ from # 0
    BY <1>1, <1>2
  <2> QED BY <2>1, StrStrFinds
<1>5. After(pattern, text, j, from)
        = IF at = 0 THEN 0 ELSE at + Len(Chunk(pattern, j))
  BY DEF After
<1> HIDE DEF at
<1>6. CASE O = {}
  BY <1>3, <1>4, <1>5, <1>6
<1>7. CASE O # {}
  <2>1. at + Len(Chunk(pattern, j)) = at + (j - i) + 1
    BY <1>1, <1>2, <1>3, <1>4, <1>7
  <2> QED BY <1>3, <1>4, <1>5, <1>7, <2>1
<1> QED BY <1>6, <1>7

LEMMA TextStartFollows ==
  ASSUME NEW C, NEW pattern \in Seq(C), NEW text \in Seq(C),
         NEW past, past = TextStart(pattern, text)
  PROVE  /\ past[0] = 1
         /\ \A j \in 0..Len(pattern) : past[j] \in 0..(Len(text) + 1)
         /\ \A j \in 1..Len(pattern) : past[j] = After(pattern, text, j, past[j - 1])
<1> DEFINE n == Len(pattern)
           V == 0..(Len(text) + 1)
           step == [j \in 1..n |-> [from \in V |-> After(pattern, text, j, from)]]
           Body(g) == [j \in 0..n |->
                         IF j = 0 THEN 1 ELSE After(pattern, text, j, g[j - 1])]
<1>1. n \in Nat /\ Len(text) \in Nat /\ 1 \in V
  OBVIOUS
<1>2. step \in [1..n -> [V -> V]]
  <2>1. ASSUME NEW j \in 1..n, NEW from \in V
        PROVE  After(pattern, text, j, from) \in V
    <3>1. CASE ~ChunkEnds(pattern, j) \/ from = 0
      BY <3>1, <1>1 DEF After
    <3>2. CASE ChunkEnds(pattern, j) /\ from # 0
      <4> DEFINE i == ChunkStart(pattern, j)
                 O == Occurrences(text, Chunk(pattern, j), from)
      <4>1. i \in 1..j
        BY <3>2, ChunkStartIs DEF ChunkEnds
      <4>2. from \in 1..(Len(text) + 1)
        BY <3>2
      <4>3. /\ O \in SUBSET (from..(Len(text) - (j - i)))
            /\ O = {} => After(pattern, text, j, from) = 0
            /\ O # {} => \E s \in O : After(pattern, text, j, from) = s + (j - i) + 1
        BY <3>2, <4>2, AfterChunk
      <4> HIDE DEF O, i
      <4> QED BY <1>1, <4>1, <4>2, <4>3
    <3> QED BY <3>1, <3>2
  <2> QED BY <2>1
<1>3. PICK h : Iterates(h, n, V, 1, step)
  <2> HIDE DEF n, V, step
  <2> QED BY <1>1, <1>2, Iterated
<1>4. /\ h[0] = 1 /\ \A j \in 0..n : h[j] \in V
      /\ \A j \in 1..n : h[j] = After(pattern, text, j, h[j - 1])
  <2>1. \A j \in 1..n : j - 1 \in 0..n
    BY <1>1
  <2>2. \A j \in 0..n : h[j] \in V
    BY <1>3 DEF Iterates
  <2>3. \A j \in 1..n : step[j][h[j - 1]] = After(pattern, text, j, h[j - 1])
    BY <2>1, <2>2
  <2> HIDE DEF step
  <2> QED BY <1>3, <2>2, <2>3 DEF Iterates
<1>5. h = Body(h)
  <2>1. h = [j \in 0..n |-> h[j]]
    BY <1>3 DEF Iterates
  <2>2. \A j \in 0..n : h[j] = IF j = 0 THEN 1 ELSE After(pattern, text, j, h[j - 1])
    BY <1>4
  <2> QED BY <2>1, <2>2
<1>6. past = Body(past)
  <2>1. past = CHOOSE g : g = Body(g)
    BY DEF TextStart, After
  <2> HIDE DEF Body
  <2> QED BY <1>5, <2>1
<1>7. past[0] = 1 /\ \A j \in 1..n : past[j] = After(pattern, text, j, past[j - 1])
  <2>1. \A j \in 0..n :
          past[j] = IF j = 0 THEN 1 ELSE After(pattern, text, j, past[j - 1])
    BY <1>6
  <2> QED BY <1>1, <2>1
<1>8. \A j \in 0..n : past[j] = h[j]
  <2> DEFINE Bad == {j \in 0..n : past[j] # h[j]}
  <2> SUFFICES ASSUME Bad # {} PROVE FALSE
    OBVIOUS
  <2>1. PICK j \in Bad : \A i \in Bad : j <= i
    <3>1. Bad \in SUBSET Nat
      OBVIOUS
    <3> QED BY <3>1, LeastNat
  <2>2. j \in 1..n /\ j - 1 \in 0..n /\ past[j - 1] = h[j - 1]
    BY <1>1, <1>4, <1>7, <2>1
  <2> QED BY <1>4, <1>7, <2>1, <2>2
<1> QED BY <1>4, <1>7, <1>8

\* Where the usual comparison has come in the text, past the place j of the
\* pattern: after a star anywhere from where the chunks before it first are,
\* and within a chunk wherever what there is of it fits.
Reaches(pattern, text, past, j, k) ==
  IF j = 0 \/ pattern[j] = Star
  THEN past[j] # 0 /\ past[j] <= k + 1
  ELSE LET i == ChunkStart(pattern, j)
       IN  /\ past[i - 1] # 0 /\ k - (j - i) >= past[i - 1]
           /\ \A x \in i..j : text[x + (k - j)] = pattern[x]

LEMMA ReachesOccurrence ==
  ASSUME NEW C, NEW pattern \in Seq(C), NEW text \in Seq(C), NEW past,
         NEW j \in 1..Len(pattern), pattern[j] # Star,
         NEW i, i = ChunkStart(pattern, j),
         past[i - 1] \in 1..(Len(text) + 1), NEW k \in 0..Len(text)
  PROVE  Reaches(pattern, text, past, j, k) <=>
           k - (j - i) \in Occurrences(text, Chunk(pattern, j), past[i - 1])
<1>1. i \in 1..j
  BY ChunkStartIs
<1> DEFINE from == past[i - 1]
           s == k - (j - i)
<1>2. from \in Nat /\ from # 0 /\ Len(text) \in Nat
  OBVIOUS
<1> HIDE DEF from
<1>3. s \in Occurrences(text, Chunk(pattern, j), from) <=>
        s \in from..(Len(text) - (j - i)) /\ IsAt(pattern, i, j, text, s)
  <2>1. Chunk(pattern, j) = SubSeq(pattern, i, j)
    BY DEF Chunk
  <2>2. from \in 1..(Len(text) + 1)
    BY DEF from
  <2> HIDE DEF s
  <2> QED BY <1>1, <2>1, <2>2, OccurrencesAre
<1>4. s \in Int /\ s <= Len(text) - (j - i) /\ \A x \in i..j : x + (s - i) = x + (k - j)
  <2>1. i \in Int /\ j \in Int /\ k \in Int /\ Len(text) \in Int /\ k <= Len(text)
    BY <1>1, <1>2
  <2>2. s = k - (j - i)
    OBVIOUS
  <2> HIDE DEF s
  <2>3. s \in Int
    BY <2>1, <2>2
  <2>4. s <= Len(text) - (j - i)
    BY <2>1, <2>2
  <2>5. s - i = k - j
    BY <2>1, <2>2
  <2> QED BY <2>3, <2>4, <2>5
<1>5. Reaches(pattern, text, past, j, k) <=>
        s >= from /\ \A x \in i..j : text[x + (k - j)] = pattern[x]
  BY <1>1, <1>2 DEF Reaches, from
<1>6. s \in from..(Len(text) - (j - i)) <=> s >= from
  BY <1>1, <1>2, <1>4
<1> HIDE DEF s
<1>7. IsAt(pattern, i, j, text, s) <=>
        \A x \in i..j : text[x + (k - j)] = pattern[x]
  BY <1>4 DEF IsAt
<1> QED BY <1>3, <1>5, <1>6, <1>7 DEF from, s

\* A star after a chunk: the text may go on after its first occurrence.
LEMMA ReachesPastStar ==
  ASSUME NEW C, NEW pattern \in Seq(C), NEW text \in Seq(C),
         NEW past, past = TextStart(pattern, text),
         NEW j \in 2..Len(pattern), pattern[j] = Star, pattern[j - 1] # Star,
         NEW before \in SUBSET (0..Len(text)),
         \A k \in 0..Len(text) :
           k \in before <=> Reaches(pattern, text, past, j - 1, k),
         past[j - 2] = past[ChunkStart(pattern, j - 1) - 1],
         NEW k \in 0..Len(text)
  PROVE  (\E e \in before : e <= k) <=> Reaches(pattern, text, past, j, k)
<1> DEFINE q == j - 1
           i == ChunkStart(pattern, q)
           from == past[i - 1]
           m == Len(text)
<1>1. q \in 1..Len(pattern) /\ pattern[q] # Star /\ ChunkEnds(pattern, q)
        /\ ~ChunkEnds(pattern, j) /\ m \in Nat /\ q + 1 = j
  BY DEF ChunkEnds
<1>2. i \in 1..q
  BY <1>1, ChunkStartIs
<1>3. /\ from \in 0..(m + 1)
      /\ past[j] = past[q] /\ past[q] = After(pattern, text, q, from)
  <2>1. /\ \A x \in 0..Len(pattern) : past[x] \in 0..(m + 1)
        /\ \A x \in 1..Len(pattern) : past[x] = After(pattern, text, x, past[x - 1])
    BY TextStartFollows
  <2>2. i - 1 \in 0..Len(pattern)
    BY <1>1, <1>2
  <2>3. past[j] = past[q]
    BY <1>1, <2>1 DEF After
  <2>4. past[q] = After(pattern, text, q, from)
    BY <1>1, <2>1
  <2> QED BY <2>1, <2>2, <2>3, <2>4
<1>4. Reaches(pattern, text, past, j, k) <=> past[j] # 0 /\ past[j] <= k + 1
  BY DEF Reaches
<1> HIDE DEF q, i
<1>5. CASE from = 0
  <2>1. past[j] = 0
    BY <1>3, <1>5 DEF After
  <2>2. \A e \in before : FALSE
    <3>1. q # 0 /\ ~(q = 0 \/ pattern[q] = Star)
      BY <1>1
    <3>2. \A e \in 0..m : ~Reaches(pattern, text, past, q, e)
      BY <1>5, <3>1 DEF Reaches, i
    <3> QED BY <3>2 DEF q
  <2> QED BY <1>4, <2>1, <2>2
<1>6. CASE from # 0
  <2> DEFINE O == Occurrences(text, Chunk(pattern, q), from)
  <2>1. from \in 1..(m + 1)
    BY <1>3, <1>6
  <2>2. /\ O \in SUBSET (from..(m - (q - i)))
        /\ O = {} => past[j] = 0
        /\ O # {} => \E s \in O : /\ \A t \in O : s <= t
                                  /\ past[j] = s + (q - i) + 1
    <3>1. /\ O \in SUBSET (from..(m - (q - i)))
          /\ O = {} => After(pattern, text, q, from) = 0
          /\ O # {} => \E s \in O : /\ \A t \in O : s <= t
                                    /\ After(pattern, text, q, from) = s + (q - i) + 1
      <4> HIDE DEF O, from
      <4>1. O = Occurrences(text, Chunk(pattern, q), from)
        BY DEF O
      <4>2. i = ChunkStart(pattern, q)
        BY DEF i
      <4> QED BY <1>1, <2>1, <4>1, <4>2, AfterChunk
    <3> QED BY <1>3, <3>1
  <2>3. \A e \in 0..m : e \in before <=> e - (q - i) \in O
    <3> TAKE e \in 0..m
    <3>1. e \in before <=> Reaches(pattern, text, past, q, e)
      BY DEF q
    <3> QED BY <1>1, <2>1, <3>1, ReachesOccurrence DEF i
  <2> HIDE DEF O, from
  <2>4. CASE O = {}
    BY <1>4, <2>2, <2>3, <2>4
  <2>5. CASE O # {}
    <3>1. PICK s \in O : (\A t \in O : s <= t) /\ past[j] = s + (q - i) + 1
      BY <2>2, <2>5
    <3>2. s + (q - i) \in 0..m /\ s \in Nat /\ s >= 1
      BY <1>1, <1>2, <2>1, <2>2, <3>1
    <3>3. s + (q - i) \in before
      <4>1. (s + (q - i)) - (q - i) = s
        BY <1>1, <1>2, <3>2
      <4> QED BY <2>3, <3>1, <3>2, <4>1
    <3>4. ASSUME NEW e \in before PROVE s + (q - i) <= e
      <4>1. s <= e - (q - i)
        BY <2>3, <3>1, <3>4
      <4> QED BY <1>1, <1>2, <3>2, <4>1
    <3>5. past[j] # 0 /\ (past[j] <= k + 1 <=> s + (q - i) <= k)
      BY <1>1, <1>2, <3>1, <3>2
    <3>6. ASSUME NEW e \in before, e <= k PROVE s + (q - i) <= k
      <4>1. s + (q - i) <= e
        BY <3>4
      <4> QED BY <1>1, <1>2, <3>2, <3>6, <4>1
    <3> QED BY <1>4, <3>3, <3>5, <3>6
  <2> QED BY <2>4, <2>5
<1> QED BY <1>5, <1>6

\* At every place of the pattern, what the usual comparison has come to is
\* what the search of one chunk after another says.
LEMMA ChunksReach ==
  ASSUME NEW C, NEW pattern \in Seq(C), NEW text \in Seq(C),
         NEW past, past = TextStart(pattern, text),
         NEW ends, ends = MayEnd(pattern, text, 0..Len(text))
  PROVE  \A j \in 0..Len(pattern) :
           /\ \A k \in 0..Len(text) :
                k \in ends[j] <=> Reaches(pattern, text, past, j, k)
           /\ j # 0 /\ pattern[j] # Star =>
                past[j - 1] = past[ChunkStart(pattern, j) - 1]
<1> DEFINE n == Len(pattern)
           m == Len(text)
           Meets(j) == \A k \in 0..m :
                         k \in ends[j] <=> Reaches(pattern, text, past, j, k)
           Chunked(j) == j # 0 /\ pattern[j] # Star =>
                          past[j - 1] = past[ChunkStart(pattern, j) - 1]
           Bad == {j \in 0..n : ~(Meets(j) /\ Chunked(j))}
<1>0. n \in Nat /\ m \in Nat
  OBVIOUS
<1>1. /\ ends[0] = 0..m
      /\ \A j \in 1..n :
           /\ ends[j] \in SUBSET (0..m)
           /\ \A k \in 0..m :
                k \in ends[j] <=> EndsOn(pattern, text, j, ends[j - 1], k)
  <2>1. 0..m \in SUBSET (0..Len(text))
    OBVIOUS
  <2> QED BY <2>1, MayEndFollows
<1>2. /\ past[0] = 1
      /\ \A j \in 0..n : past[j] \in 0..(m + 1)
      /\ \A j \in 1..n : past[j] = After(pattern, text, j, past[j - 1])
  BY TextStartFollows
<1> SUFFICES ASSUME Bad # {} PROVE FALSE
  OBVIOUS
<1>3. PICK j \in Bad : \A i \in Bad : j <= i
  <2>1. Bad \in SUBSET Nat
    OBVIOUS
  <2> HIDE DEF Bad
  <2> QED BY <2>1, LeastNat
<1>4. j \in 0..n /\ ~(Meets(j) /\ Chunked(j))
  BY <1>3
<1>5. Meets(0) /\ Chunked(0)
  BY <1>0, <1>1, <1>2 DEF Reaches
<1>6. j \in 1..n /\ j - 1 \in 0..n
  BY <1>0, <1>4, <1>5
<1>7. Meets(j - 1) /\ Chunked(j - 1)
  <2>1. j - 1 \notin Bad
    BY <1>3, <1>6
  <2> QED BY <1>6, <2>1
<1>8. ends[j - 1] \subseteq 0..m
  <2>1. CASE j = 1
    BY <1>1, <2>1
  <2>2. CASE j # 1
    <3>1. j - 1 \in 1..n
      BY <1>6, <2>2
    <3> QED BY <1>0, <1>1, <3>1
  <2> QED BY <2>1, <2>2
<1>9. CASE pattern[j] = Star
  <2>0. Chunked(j)
    BY <1>9
  <2>1. \A k \in 0..m : k \in ends[j] <=> \E e \in ends[j - 1] : e <= k
    BY <1>1, <1>6, <1>9 DEF EndsOn
  <2>2. ~ChunkEnds(pattern, j)
    BY <1>9 DEF ChunkEnds
  <2>3. past[j] = past[j - 1]
    BY <1>2, <1>6, <2>2 DEF After
  <2>4. CASE j = 1 \/ pattern[j - 1] = Star
    <3>1. \A k \in 0..m : Reaches(pattern, text, past, j, k)
                            <=> past[j - 1] # 0 /\ past[j - 1] <= k + 1
      BY <1>9, <2>3 DEF Reaches
    <3>2. \A k \in 0..m : k \in ends[j - 1]
                            <=> past[j - 1] # 0 /\ past[j - 1] <= k + 1
      BY <1>6, <1>7, <2>4 DEF Reaches
    <3>3. past[j - 1] \in 0..(m + 1)
      BY <1>2, <1>6
    <3>4. Meets(j)
      <4> TAKE k \in 0..m
      <4> DEFINE b == past[j - 1]
      <4> HIDE DEF b
      <4>1. \A e \in ends[j - 1] : e \in 0..m /\ b # 0 /\ b <= e + 1
        BY <1>8, <3>2 DEF b
      <4>2. b # 0 /\ b <= k + 1 => k \in ends[j - 1]
        BY <3>2 DEF b
      <4>3. b \in Nat /\ k <= k
        BY <3>3 DEF b
      <4>4. (\E e \in ends[j - 1] : e <= k) => b # 0 /\ b <= k + 1
        BY <4>1, <4>3
      <4> QED BY <2>1, <3>1, <4>2, <4>3, <4>4 DEF b
    <3> QED BY <1>4, <2>0, <3>4
  <2>5. CASE j # 1 /\ pattern[j - 1] # Star
    <3>1. j \in 2..n
      BY <1>6, <2>5
    <3>2. past[j - 2] = past[ChunkStart(pattern, j - 1) - 1]
      <4>1. (j - 1) - 1 = j - 2 /\ j - 1 # 0
        BY <3>1
      <4> QED BY <1>7, <2>5, <4>1
    <3>3. Meets(j)
      <4> TAKE k \in 0..m
      <4> DEFINE before == ends[j - 1]
      <4>1. before \in SUBSET (0..m) /\ \A e \in 0..m :
              e \in before <=> Reaches(pattern, text, past, j - 1, e)
        BY <1>7, <1>8
      <4> HIDE DEF before
      <4>2. (\E e \in before : e <= k) <=> Reaches(pattern, text, past, j, k)
        BY <1>9, <2>5, <3>1, <3>2, <4>1, ReachesPastStar
      <4> QED BY <2>1, <4>2 DEF before
    <3> QED BY <1>4, <2>0, <3>3
  <2> QED BY <2>4, <2>5
<1>10. CASE pattern[j] # Star
  <2> DEFINE i == ChunkStart(pattern, j)
  <2>1. i \in 1..j
    BY <1>6, <1>10, ChunkStartIs
  <2>2. \A k \in 0..m : k \in ends[j] <=>
          k >= 1 /\ k - 1 \in ends[j - 1] /\ text[k] = pattern[j]
    BY <1>1, <1>6, <1>10 DEF EndsOn
  <2>3. \A k \in 0..m : Reaches(pattern, text, past, j, k) <=>
          /\ past[i - 1] # 0 /\ k - (j - i) >= past[i - 1]
          /\ \A x \in i..j : text[x + (k - j)] = pattern[x]
    BY <1>6, <1>10 DEF Reaches
  <2>4. past[i - 1] \in 0..(m + 1)
    BY <1>2, <1>6, <2>1
  <2>5. CASE j = 1 \/ pattern[j - 1] = Star
    <3>1. i = j
      BY <1>6, <1>10, <2>5, ChunkStartIs
    <3>2. \A k \in 0..m : k \in ends[j - 1]
                            <=> past[j - 1] # 0 /\ past[j - 1] <= k + 1
      BY <1>6, <1>7, <2>5 DEF Reaches
    <3>3. Chunked(j)
      BY <3>1
    <3>4. Meets(j)
      <4> TAKE k \in 0..m
      <4>1. (\A x \in i..j : text[x + (k - j)] = pattern[x]) <=> text[k] = pattern[j]
        BY <1>6, <3>1
      <4> DEFINE b == past[j - 1]
      <4>2. k >= 1 => (k - 1 \in ends[j - 1] <=> b # 0 /\ b <= (k - 1) + 1)
        BY <1>0, <3>2
      <4>3. b \in Nat /\ k - (j - i) = k /\ b = past[i - 1]
        BY <1>6, <2>4, <3>1
      <4>4. Reaches(pattern, text, past, j, k) <=>
              b # 0 /\ k >= b /\ text[k] = pattern[j]
        BY <2>3, <4>1, <4>3
      <4> HIDE DEF i, b
      <4>5. k >= 1 /\ b # 0 /\ b <= (k - 1) + 1 <=> b # 0 /\ k >= b
        BY <4>3
      <4> QED BY <2>2, <4>2, <4>4, <4>5
    <3> QED BY <1>4, <3>3, <3>4
  <2>6. CASE j # 1 /\ pattern[j - 1] # Star
    <3>1. i = ChunkStart(pattern, j - 1) /\ j - 1 \in 1..n
      BY <1>6, <1>10, <2>6, ChunkStartIs
    <3>2. i \in 1..(j - 1)
      BY <2>6, <3>1, ChunkStartIs
    <3>3. \A k \in 0..m : k \in ends[j - 1] <=>
            /\ past[i - 1] # 0 /\ k - ((j - 1) - i) >= past[i - 1]
            /\ \A x \in i..(j - 1) : text[x + (k - (j - 1))] = pattern[x]
      <4>1. PICK p : p = j - 1
        OBVIOUS
      <4>2. p # 0 /\ pattern[p] # Star /\ i = ChunkStart(pattern, p)
        BY <2>6, <3>1, <4>1
      <4>3. \A k \in 0..m : k \in ends[p] <=> Reaches(pattern, text, past, p, k)
        BY <1>7, <4>1
      <4> HIDE DEF i, n, m, Meets, Chunked, Bad
      <4>4. \A k \in 0..m : k \in ends[p] <=>
              /\ past[i - 1] # 0 /\ k - (p - i) >= past[i - 1]
              /\ \A x \in i..p : text[x + (k - p)] = pattern[x]
        BY <4>2, <4>3 DEF Reaches
      <4> QED BY <4>1, <4>4
    <3>4. past[j - 1] = past[i - 1]
      <4>1. past[j - 1] = past[(j - 1) - 1]
        <5>1. ~ChunkEnds(pattern, j - 1)
          BY <1>6, <1>10 DEF ChunkEnds
        <5> QED BY <1>2, <3>1, <5>1 DEF After
      <4> QED BY <1>7, <2>6, <3>1, <4>1
    <3>5. Chunked(j)
      BY <3>4
    <3> HIDE DEF i
    <3>6. Meets(j)
      <4> TAKE k \in 0..m
      <4>1. ASSUME k \in ends[j] PROVE Reaches(pattern, text, past, j, k)
        <5>1. k >= 1 /\ k - 1 \in 0..m /\ k - 1 \in ends[j - 1] /\ text[k] = pattern[j]
          BY <1>0, <2>2, <4>1
        <5>2. /\ past[i - 1] # 0 /\ (k - 1) - ((j - 1) - i) >= past[i - 1]
              /\ \A x \in i..(j - 1) :
                   text[x + ((k - 1) - (j - 1))] = pattern[x]
          BY <3>3, <5>1
        <5>3. (k - 1) - (j - 1) = k - j /\ (k - 1) - ((j - 1) - i) = k - (j - i)
          BY <1>6, <3>2, <5>1
        <5>4. \A x \in i..j : text[x + (k - j)] = pattern[x]
          <6> TAKE x \in i..j
          <6>1. CASE x = j
            <7>1. x + (k - j) = k
              BY <1>6, <6>1
            <7> QED BY <5>1, <6>1, <7>1
          <6>2. CASE x # j
            <7>1. x \in i..(j - 1)
              BY <1>6, <3>2, <6>2
            <7> QED BY <5>2, <5>3, <7>1
          <6> QED BY <6>1, <6>2
        <5> QED BY <2>3, <5>2, <5>3, <5>4
      <4>2. ASSUME Reaches(pattern, text, past, j, k) PROVE k \in ends[j]
        <5>1. /\ past[i - 1] # 0 /\ k - (j - i) >= past[i - 1]
              /\ \A x \in i..j : text[x + (k - j)] = pattern[x]
          BY <2>3, <4>2
        <5>2. k >= 1 /\ k - 1 \in 0..m
          BY <1>0, <1>6, <2>4, <3>2, <5>1
        <5>3. (k - 1) - (j - 1) = k - j /\ (k - 1) - ((j - 1) - i) = k - (j - i)
                /\ j + (k - j) = k
          BY <1>6, <3>2, <5>2
        <5>4. text[k] = pattern[j]
          <6>1. j \in i..j
            BY <1>6, <3>2
          <6> QED BY <5>1, <5>3, <6>1
        <5>5. \A x \in i..(j - 1) : text[x + ((k - 1) - (j - 1))] = pattern[x]
          <6> TAKE x \in i..(j - 1)
          <6>1. x \in i..j
            BY <1>6, <3>2
          <6> QED BY <5>1, <5>3, <6>1
        <5>6. k - 1 \in ends[j - 1]
          BY <3>3, <5>1, <5>2, <5>3, <5>5
        <5> QED BY <2>2, <5>2, <5>4, <5>6
      <4> QED BY <4>1, <4>2
    <3> QED BY <1>4, <3>5, <3>6
  <2> QED BY <2>5, <2>6
<1> QED BY <1>9, <1>10

ChunksFound(pattern, text) ==
  LET stop == TextStart(pattern, text)[Len(pattern)]
  IN  stop # 0 /\ (Last(pattern) # Star => stop = Len(text) + 1)

\* Where the pattern has stars.
LEMMA StarsCompare ==
  ASSUME NEW C, NEW pattern \in Seq(C), NEW text \in Seq(C),
         Star \in Range(pattern)
  PROVE  /\ ChunksFound(pattern, text) => Glob(pattern, text, 0..Len(text))
         /\ Glob(pattern, text, 0..Len(text)) /\ ~ChunksFound(pattern, text) =>
              /\ Last(pattern) # Star
              /\ Cardinality(Occurrences(text, Chunk(pattern, Len(pattern)), 1)) > 1
<1> DEFINE n == Len(pattern)
           m == Len(text)
           past == TextStart(pattern, text)
           stop == past[n]
           Takes == ChunksFound(pattern, text)
           Globs == Glob(pattern, text, 0..m)
<1>1. n \in 1..n /\ n \in Nat /\ m \in 0..m /\ m \in Nat
  BY DEF Range
<1>2. Last(pattern) = pattern[n]
  BY DEF Last
<1>3. Globs <=> Reaches(pattern, text, past, n, m)
  <2> DEFINE ends == MayEnd(pattern, text, 0..m)
  <2>1. Globs <=> m \in ends[n]
    BY DEF Glob
  <2>2. \A k \in 0..m : k \in ends[n] <=> Reaches(pattern, text, past, n, k)
    <3> HIDE DEF ends, past
    <3>1. ends = MayEnd(pattern, text, 0..Len(text)) /\ past = TextStart(pattern, text)
      BY DEF ends, past
    <3> QED BY <1>1, <3>1, ChunksReach
  <2> QED BY <1>1, <2>1, <2>2
<1>4. /\ \A j \in 0..n : past[j] \in 0..(m + 1)
      /\ \A j \in 1..n : past[j] = After(pattern, text, j, past[j - 1])
  <2> HIDE DEF past
  <2>1. past = TextStart(pattern, text)
    BY DEF past
  <2> QED BY <2>1, TextStartFollows
<1>5. stop \in 0..(m + 1) /\ stop = After(pattern, text, n, past[n - 1])
  BY <1>1, <1>4
<1>0. Takes <=> stop # 0 /\ (pattern[n] # Star => stop = m + 1)
  BY <1>2 DEF ChunksFound
<1> SUFFICES /\ Takes => Globs
             /\ Globs /\ ~Takes =>
                  /\ pattern[n] # Star
                  /\ Cardinality(Occurrences(text, Chunk(pattern, n), 1)) > 1
  BY <1>2
<1> HIDE DEF Takes, Globs, stop
<1>6. CASE pattern[n] = Star
  <2>1. Reaches(pattern, text, past, n, m) <=> stop # 0 /\ stop <= m + 1
    BY <1>1, <1>6 DEF Reaches, stop
  <2> QED BY <1>1, <1>2, <1>0, <1>3, <1>5, <1>6, <2>1
<1>7. CASE pattern[n] # Star
  <2> DEFINE i == ChunkStart(pattern, n)
             from == past[i - 1]
             O == Occurrences(text, Chunk(pattern, n), from)
             Every == Occurrences(text, Chunk(pattern, n), 1)
  <2>1. i \in 1..n /\ ChunkEnds(pattern, n)
    BY <1>1, <1>7, ChunkStartIs DEF ChunkEnds
  <2>2. from \in 0..(m + 1)
    BY <1>1, <1>4, <2>1
  <2>3. past[n - 1] = from
    <3> DEFINE ends == MayEnd(pattern, text, 0..m)
    <3> HIDE DEF ends, past
    <3>1. ends = MayEnd(pattern, text, 0..Len(text)) /\ past = TextStart(pattern, text)
      BY DEF ends, past
    <3>2. n # 0 /\ pattern[n] # Star => past[n - 1] = past[ChunkStart(pattern, n) - 1]
      BY <1>1, <3>1, ChunksReach
    <3> QED BY <1>1, <1>7, <3>2
  <2>4. Takes <=> stop = m + 1
    BY <1>1, <1>5, <1>0, <1>7
  <2> HIDE DEF past, i, from
  <2>5. CASE from = 0
    <3>1. stop = 0
      BY <1>5, <2>1, <2>3, <2>5 DEF After
    <3>2. ~Reaches(pattern, text, past, n, m)
      BY <1>1, <1>7, <2>5 DEF Reaches, from, i
    <3> QED BY <1>1, <1>3, <2>4, <3>1, <3>2
  <2>6. CASE from # 0
    <3>1. from \in 1..(m + 1)
      BY <2>2, <2>6
    <3>2. /\ O \in SUBSET (from..(m - (n - i)))
          /\ O = {} => stop = 0
          /\ O # {} => \E s \in O : (\A t \in O : s <= t) /\ stop = s + (n - i) + 1
      <4>1. O = Occurrences(text, Chunk(pattern, n), from) /\ i = ChunkStart(pattern, n)
        BY DEF i
      <4> HIDE DEF O
      <4>2. /\ O \in SUBSET (from..(m - (n - i)))
            /\ O = {} => After(pattern, text, n, from) = 0
            /\ O # {} => \E s \in O : /\ \A t \in O : s <= t
                                      /\ After(pattern, text, n, from) = s + (n - i) + 1
        BY <1>1, <2>1, <3>1, <4>1, AfterChunk
      <4> QED BY <1>5, <2>3, <4>2
    <3>3. Globs <=> m - (n - i) \in O
      <4>1. Reaches(pattern, text, past, n, m) <=> m - (n - i) \in O
        <5>1. i = ChunkStart(pattern, n) /\ past[i - 1] \in 1..(Len(text) + 1)
          BY <3>1 DEF from, i
        <5> QED BY <1>1, <1>7, <5>1, ReachesOccurrence DEF from
      <4> QED BY <1>3, <4>1
    <3>4. Every \in SUBSET (1..m) /\ O \subseteq Every
      <4>1. Len(Chunk(pattern, n)) = n - i + 1
        BY <1>1, <2>1 DEF Chunk, i
      <4> QED BY <1>1, <2>1, <3>1, <4>1 DEF Occurrences
    <3> HIDE DEF O, Every
    <3>5. CASE O = {}
      BY <1>1, <2>4, <3>2, <3>3, <3>5
    <3>6. CASE O # {}
      <4>1. PICK s \in O : (\A t \in O : s <= t) /\ stop = s + (n - i) + 1
        BY <3>2, <3>6
      <4>2. s \in Int /\ (Takes <=> s = m - (n - i))
        <5>1. s \in from..(m - (n - i))
          BY <3>2
        <5>2. s \in Int /\ m \in Int /\ n \in Int /\ i \in Int
          BY <1>1, <2>1, <2>2, <5>1
        <5>3. stop = m + 1 <=> s = m - (n - i)
          BY <4>1, <5>2
        <5> QED BY <2>4, <5>2, <5>3
      <4>3. ASSUME Globs, ~Takes PROVE Cardinality(Every) > 1
        <5> DEFINE two == {s, m - (n - i)}
        <5>1. two \subseteq Every /\ s # m - (n - i)
          BY <3>3, <3>4, <4>2, <4>3
        <5>2. IsFiniteSet(Every)
          <6>1. IsFiniteSet(1..m)
            BY <1>1, FS_Interval
          <6> QED BY <3>4, <6>1, FS_Subset
        <5>3. Cardinality(two) = 2
          <6>1. IsFiniteSet({s}) /\ Cardinality({s}) = 1
            BY FS_Singleton
          <6>2. two = {s} \cup {m - (n - i)} /\ m - (n - i) \notin {s}
            BY <5>1
          <6> HIDE DEF two
          <6>3. Cardinality(two) = Cardinality({s}) + 1
            BY <6>1, <6>2, FS_AddElement
          <6> QED BY <6>1, <6>3
        <5> HIDE DEF two
        <5>4. Cardinality(two) <= Cardinality(Every)
          BY <5>1, <5>2, FS_Subset
        <5>5. Cardinality(Every) \in Nat
          BY <5>2, FS_CardinalityType
        <5> QED BY <5>3, <5>4, <5>5
      <4> QED BY <1>2, <1>7, <3>3, <4>1, <4>2, <4>3 DEF Every
    <3> QED BY <3>5, <3>6
  <2> QED BY <2>5, <2>6
<1> QED BY <1>6, <1>7

\* Where it has none.
LEMMA NoStarsCompare ==
  ASSUME NEW C, NEW pattern \in Seq(C), NEW text \in Seq(C),
         Star \notin Range(pattern)
  PROVE  Glob(pattern, text, {0}) <=> text = pattern
<1> DEFINE n == Len(pattern)
           m == Len(text)
           ends == MayEnd(pattern, text, {0})
           Alike(j) == j <= m /\ \A x \in 1..j : text[x] = pattern[x]
           Meets(j) == \A k \in 0..m : k \in ends[j] <=> k = j /\ Alike(j)
           Bad == {j \in 0..n : ~Meets(j)}
<1>0. n \in Nat /\ m \in Nat /\ \A j \in 1..n : pattern[j] # Star
  BY DEF Range
<1>1. /\ ends[0] = {0}
      /\ \A j \in 1..n : \A k \in 0..m :
           k \in ends[j] <=> k >= 1 /\ k - 1 \in ends[j - 1] /\ text[k] = pattern[j]
  <2> HIDE DEF ends
  <2>1. ends = MayEnd(pattern, text, {0}) /\ {0} \in SUBSET (0..Len(text))
    BY <1>0 DEF ends
  <2>2. /\ ends[0] = {0}
        /\ \A j \in 1..n : \A k \in 0..m :
             k \in ends[j] <=> EndsOn(pattern, text, j, ends[j - 1], k)
    BY <2>1, MayEndFollows
  <2> QED BY <1>0, <2>2 DEF EndsOn
<1>2. Glob(pattern, text, {0}) <=> m \in ends[n]
  BY DEF Glob
<1> HIDE DEF ends
<1>3. Bad = {}
  <2> SUFFICES ASSUME Bad # {} PROVE FALSE
    OBVIOUS
  <2>1. PICK j \in Bad : \A i \in Bad : j <= i
    <3>1. Bad \in SUBSET Nat
      OBVIOUS
    <3> HIDE DEF Bad
    <3> QED BY <3>1, LeastNat
  <2>2. Meets(0)
    BY <1>0, <1>1
  <2>3. j \in 1..n /\ j - 1 \in 0..n /\ ~Meets(j)
    BY <2>1, <2>2
  <2>4. Meets(j - 1)
    <3>1. j - 1 \notin Bad
      <4> HIDE DEF Bad, Meets
      <4> QED BY <2>1, <2>3
    <3> QED BY <2>3, <3>1
  <2>5. ASSUME NEW k \in 0..m PROVE k \in ends[j] <=> k = j /\ Alike(j)
    <3>1. k \in ends[j] <=> k >= 1 /\ k - 1 \in ends[j - 1] /\ text[k] = pattern[j]
      BY <1>1, <2>3
    <3>2. k >= 1 => (k - 1 \in ends[j - 1] <=> k - 1 = j - 1 /\ Alike(j - 1))
      <4>1. k >= 1 => k - 1 \in 0..m
        BY <1>0
      <4>2. \A e \in 0..m : e \in ends[j - 1] <=> e = j - 1 /\ Alike(j - 1)
        BY <2>4
      <4> HIDE DEF Alike
      <4> QED BY <4>1, <4>2
    <3>3. k >= 1 /\ k - 1 = j - 1 <=> k = j
      BY <2>3
    <3>4. k = j => (Alike(j) <=> Alike(j - 1) /\ text[j] = pattern[j])
      BY <2>3
    <3> HIDE DEF Alike
    <3> QED BY <3>1, <3>2, <3>3, <3>4
  <2> QED BY <2>3, <2>5
<1>4. m \in ends[n] <=> m = n /\ \A x \in 1..n : text[x] = pattern[x]
  <2>1. Meets(n)
    BY <1>0, <1>3
  <2> QED BY <1>0, <2>1
<1>5. (m = n /\ \A x \in 1..n : text[x] = pattern[x]) <=> text = pattern
  BY SeqEqual
<1> QED BY <1>2, <1>4, <1>5

LEMMA StrippedIsText ==
  ASSUME NEW C, NEW s \in Seq(C), NEW c
  PROVE  Stripped(s, c) \in Seq(C)
<1> DEFINE kept == {i \in DOMAIN s : s[i] # c}
<1>1. CASE kept = {}
  BY <1>1 DEF Stripped
<1>2. CASE kept # {}
  <2>1. Len(s) \in Nat /\ kept \in SUBSET (0..Len(s)) /\ kept \in SUBSET Nat
          /\ kept \subseteq 1..Len(s)
    OBVIOUS
  <2> HIDE DEF kept
  <2>2. Min(kept) \in kept /\ Max(kept) \in kept
    BY <1>2, <2>1, LeastIsMin, GreatestIsMax
  <2>3. Min(kept) \in 1..Len(s) /\ Max(kept) \in 1..Len(s)
    BY <2>1, <2>2
  <2>4. SubSeq(s, Min(kept), Max(kept)) \in Seq(C)
    BY <2>3
  <2> QED BY <1>2, <2>4 DEF Stripped, kept
<1> QED BY <1>1, <1>2

LEMMA UnquotedIsText ==
  ASSUME NEW C, NEW s \in Seq(C)
  PROVE  Unquoted(s) \in Seq(C)
<1>1. Stripped(s, s[1]) \in Seq(C)
  BY StrippedIsText
<1>2. Stripped(Stripped(s, s[1]), " ") \in Seq(C)
  BY <1>1, StrippedIsText
<1> QED BY <1>2 DEF Unquoted

\* OdlWildCardCompare, whatever it is given: it takes no text that the usual
\* comparison would not, and leaves one only where a chunk that must end the
\* text is in it more than once.
THEOREM AnyTextsCompare ==
  ASSUME NEW C, NEW wildcard_text \in Seq(C), NEW plain_text \in Seq(C)
  PROVE  ComparesLikeGlob(wildcard_text, plain_text)
<1> DEFINE pattern == Unquoted(wildcard_text)
           text == Unquoted(plain_text)
<1>1. pattern \in Seq(C) /\ text \in Seq(C)
  BY UnquotedIsText
<1> HIDE DEF pattern, text
<1>2. CASE Star \in Range(pattern)
  <2>1. OdlWildCardCompare(wildcard_text, plain_text) = ChunksFound(pattern, text)
    BY <1>2 DEF OdlWildCardCompare, ChunksFound, pattern, text
  <2> QED BY <1>1, <1>2, <2>1, StarsCompare DEF ComparesLikeGlob, pattern, text
<1>3. CASE Star \notin Range(pattern)
  <2>1. OdlWildCardCompare(wildcard_text, plain_text) <=> text = pattern
    BY <1>3 DEF OdlWildCardCompare, pattern, text
  <2>2. Glob(pattern, text, {0}) <=> text = pattern
    BY <1>1, <1>3, NoStarsCompare
  <2> QED BY <1>3, <2>1, <2>2 DEF ComparesLikeGlob, pattern, text
<1> QED BY <1>2, <1>3

\* The texts a search is given and those it comes upon, whatever they are.
THEOREM WildCardsAlwaysFind == LabelSpec => []WildCardsFind
<1>1. TextsCompare
  BY TextsAssumption, AnyTextsCompare DEF TextsCompare
<1>2. WildCardsFind
  BY <1>1 DEF WildCardsFind
<1> QED BY <1>2, PTL

=============================================================================
