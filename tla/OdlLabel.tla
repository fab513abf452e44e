------------------------------ MODULE OdlLabel ------------------------------
(***************************************************************************)
(* A label: the tree of OdlTree with the keyword list of each object       *)
(* (io_lablib3.c).  A KEYWORD holds a name, a value, a pointer to its      *)
(* object and to its left and right sibling; an object points at its first *)
(* and last keyword.                                                       *)
(*                                                                         *)
(* Searches ask for a keyword by its name and value, or for an object by   *)
(* its class and by a keyword it has.  They share the walk of OdlTree, and *)
(* take a step for each object, and for each keyword of the lists they run *)
(* through.  A name or a value asked for is the set of those it matches    *)
(* (OdlWildCard says how text is compared), or NULL.                       *)
(***************************************************************************)
EXTENDS OdlTree

CONSTANTS
  Keywords, \* the KEYWORD blocks malloc can return
  Names,
  Values,
  Requests \* the searches made: [kind, class, name, value, position, scope]

Patterns(texts) == SUBSET texts \cup {NULL}

ASSUME KeywordsAssumption == NULL \notin Keywords \cup Names \cup Values
ASSUME RequestsAssumption ==
  Requests \subseteq
    [kind : {"object", "keyword"}, class : Classes \cup {NULL},
     name : Patterns(Names), value : Patterns(Values), position : Nat,
     scope : Scopes]

VARIABLES
  kwds,          \* the blocks allocated
  name, value,
  kwd_parent, kwd_left, kwd_right, \* parent, left_sibling, right_sibling
  first_keyword, last_keyword,     \* of an object
  request,       \* the search under way
  start_keyword, \* where OdlNextKwd was told to begin
  kwd,           \* the keyword looked at
  found_kwd

kwd_links ==
  <<kwds, name, value, kwd_parent, kwd_left, kwd_right, first_keyword,
    last_keyword>>
cursor == <<request, start_keyword, kwd, found_kwd>>
label_vars == <<vars, kwd_links, cursor>>

NoRequest ==
  [kind |-> "object", class |-> NULL, name |-> NULL, value |-> NULL,
   position |-> 0, scope |-> "RECURSIVE_DOWN"]
KwdPointer == Keywords \cup {NULL}

LabelTypeOK ==
  /\ TypeOK
  /\ kwds \subseteq Keywords
  /\ name \in [Keywords -> Names \cup {NULL}]
  /\ value \in [Keywords -> Values \cup {NULL}]
  /\ kwd_parent \in [Keywords -> Pointer]
  /\ kwd_left \in [Keywords -> KwdPointer]
  /\ kwd_right \in [Keywords -> KwdPointer]
  /\ first_keyword \in [Objects -> KwdPointer]
  /\ last_keyword \in [Objects -> KwdPointer]
  /\ request \in Requests \cup {NoRequest}
  /\ start_keyword \in KwdPointer /\ kwd \in KwdPointer
  /\ found_kwd \in KwdPointer

NoKeyword == [k \in Keywords |-> NULL]

LabelInit ==
  /\ Init
  /\ kwds = {} /\ name = NoKeyword /\ value = NoKeyword
  /\ kwd_parent = NoKeyword /\ kwd_left = NoKeyword /\ kwd_right = NoKeyword
  /\ first_keyword = Nowhere /\ last_keyword = Nowhere
  /\ request = NoRequest /\ start_keyword = NULL /\ kwd = NULL
  /\ found_kwd = NULL

-----------------------------------------------------------------------------
(* Editing the lists.                                                      *)

Listed(k) == k \in kwds /\ kwd_parent[k] # NULL
Unlisted(k) == k \in kwds /\ kwd_parent[k] = NULL

\* The keywords a loop along right_sibling reaches from k.
Onward(k) ==
  {x \in Keywords :
     \A S \in SUBSET Keywords :
       k \in S /\ (\A y \in S : kwd_right[y] # NULL => kwd_right[y] \in S)
         => x \in S}

NewKwdBlock(k, n, v) ==
  /\ k \notin kwds
  /\ kwds' = kwds \cup {k}
  /\ name' = [name EXCEPT ![k] = n]
  /\ value' = [value EXCEPT ![k] = v]
  /\ kwd_parent' = [kwd_parent EXCEPT ![k] = NULL]
  /\ kwd_left' = [kwd_left EXCEPT ![k] = NULL]
  /\ kwd_right' = [kwd_right EXCEPT ![k] = NULL]
  /\ UNCHANGED <<first_keyword, last_keyword>>

OdlNewKwd(k, n, v) == NewKwdBlock(k, n, v)

\* The copy stands in no list.
OdlCopyKwd(keyword, k) ==
  keyword \in kwds /\ NewKwdBlock(k, name[keyword], value[keyword])

\* A bug: the object is told of a new first keyword, and not of a new last.
FirstOnly(k) ==
  LET p == kwd_parent[k]
  IN  /\ first_keyword' =
           IF first_keyword[p] = k
           THEN [first_keyword EXCEPT ![p] = kwd_right[k]] ELSE first_keyword
      /\ UNCHANGED last_keyword

\* The object's first and last keyword once k is cut.
EndsWithout(k) ==
  LET p == kwd_parent[k]
  IN  /\ first_keyword' =
           IF first_keyword[p] = k
           THEN [first_keyword EXCEPT ![p] = kwd_right[k]] ELSE first_keyword
      /\ last_keyword' =
           IF last_keyword[p] = k
           THEN [last_keyword EXCEPT ![p] = kwd_left[k]] ELSE last_keyword

\* The keyword's object is dereferenced.
OdlCutKwd(k) ==
  LET l == kwd_left[k]  r == kwd_right[k]
  IN  /\ Listed(k)
      /\ kwd_right' = IF l = NULL THEN [kwd_right EXCEPT ![k] = NULL]
                      ELSE [kwd_right EXCEPT ![l] = r, ![k] = NULL]
      /\ kwd_left' = IF r = NULL THEN [kwd_left EXCEPT ![k] = NULL]
                     ELSE [kwd_left EXCEPT ![r] = l, ![k] = NULL]
      /\ EndsWithout(k)
      /\ kwd_parent' = [kwd_parent EXCEPT ![k] = NULL]
      /\ UNCHANGED <<kwds, name, value>>

\* As the last keyword of the object.
OdlPasteKwd(k, object) ==
  LET l == last_keyword[object]
  IN  /\ Unlisted(k) /\ object \in live
      /\ kwd_parent' = [kwd_parent EXCEPT ![k] = object]
      /\ kwd_left' = [kwd_left EXCEPT ![k] = l]
      /\ kwd_right' = IF l = NULL THEN [kwd_right EXCEPT ![k] = NULL]
                      ELSE [kwd_right EXCEPT ![k] = NULL, ![l] = k]
      /\ first_keyword' =
           IF first_keyword[object] = NULL
           THEN [first_keyword EXCEPT ![object] = k] ELSE first_keyword
      /\ last_keyword' = [last_keyword EXCEPT ![object] = k]
      /\ UNCHANGED <<kwds, name, value>>

\* The object of old_keyword is dereferenced when it has no left sibling.
OdlPasteKwdBefore(k, old_keyword) ==
  LET l == kwd_left[old_keyword]  p == kwd_parent[old_keyword]
  IN  /\ Unlisted(k) /\ Listed(old_keyword)
      /\ kwd_parent' = [kwd_parent EXCEPT ![k] = p]
      /\ kwd_left' = [kwd_left EXCEPT ![k] = l, ![old_keyword] = k]
      /\ kwd_right' = IF l = NULL THEN [kwd_right EXCEPT ![k] = old_keyword]
                      ELSE [kwd_right EXCEPT ![k] = old_keyword, ![l] = k]
      /\ first_keyword' = IF l = NULL THEN [first_keyword EXCEPT ![p] = k]
                          ELSE first_keyword
      /\ UNCHANGED <<kwds, name, value, last_keyword>>

OdlPasteKwdAfter(k, old_keyword) ==
  LET r == kwd_right[old_keyword]  p == kwd_parent[old_keyword]
  IN  /\ Unlisted(k) /\ Listed(old_keyword)
      /\ kwd_parent' = [kwd_parent EXCEPT ![k] = p]
      /\ kwd_right' = [kwd_right EXCEPT ![k] = r, ![old_keyword] = k]
      /\ kwd_left' = IF r = NULL THEN [kwd_left EXCEPT ![k] = old_keyword]
                     ELSE [kwd_left EXCEPT ![k] = old_keyword, ![r] = k]
      /\ last_keyword' = IF r = NULL THEN [last_keyword EXCEPT ![p] = k]
                         ELSE last_keyword
      /\ UNCHANGED <<kwds, name, value, first_keyword>>

Released(freed) ==
  LET Cleared(f) == [k \in Keywords |-> IF k \in freed THEN NULL ELSE f[k]]
  IN  /\ kwds' = kwds \ freed
      /\ name' = Cleared(name) /\ value' = Cleared(value)
      /\ kwd_parent' = Cleared(kwd_parent)
      /\ kwd_left' = Cleared(kwd_left) /\ kwd_right' = Cleared(kwd_right)

\* It does not leave its list by itself: the callers cut it first.
OdlFreeKwd(k) ==
  Unlisted(k) /\ Released({k}) /\ UNCHANGED <<first_keyword, last_keyword>>

KwdsOf(o) == IF first_keyword[o] = NULL THEN {} ELSE Onward(first_keyword[o])

\* A bug: of each list the first keyword is freed.
FirstKwds(objects) ==
  /\ Released({first_keyword[o] : o \in objects} \ {NULL})
  /\ first_keyword' =
       [o \in Objects |-> IF o \in objects THEN NULL ELSE first_keyword[o]]
  /\ last_keyword' =
       [o \in Objects |-> IF o \in objects THEN NULL ELSE last_keyword[o]]

FreeAllKwds(objects) ==
  /\ Released(UNION {KwdsOf(o) : o \in objects})
  /\ first_keyword' =
       [o \in Objects |-> IF o \in objects THEN NULL ELSE first_keyword[o]]
  /\ last_keyword' =
       [o \in Objects |-> IF o \in objects THEN NULL ELSE last_keyword[o]]

OdlFreeAllKwds(object) == object \in live /\ FreeAllKwds({object})

\* The objects of the tree go with their keywords.
FreeTree(object) == OdlFreeTree(object) /\ FreeAllKwds(Tree(object))

-----------------------------------------------------------------------------
(* Searching.                                                              *)

Searching(kind) == pc = "visit" /\ call = "find" /\ request.kind = kind

BeginSearch(o, r) ==
  /\ pc = "idle"
  /\ pc' = "visit" /\ call' = "find" /\ start' = o /\ obj' = o
  /\ scope' = r.scope /\ request' = r /\ current_position' = 0
  /\ UNCHANGED <<links, level, query, found_object, kwd_links, found_kwd>>

OdlFindKwd(start_object, r) ==
  /\ r.kind = "keyword" /\ start_object \in live
  /\ BeginSearch(start_object, r)
  /\ kwd' = first_keyword[start_object] /\ start_keyword' = NULL

\* The keyword it starts with is the first it looks at.  Its object is
\* dereferenced.
OdlNextKwd(k, r) ==
  /\ r.kind = "keyword" /\ Listed(k)
  /\ BeginSearch(kwd_parent[k], r)
  /\ kwd' = k /\ start_keyword' = k

FindObject(start_object, r) ==
  /\ r.kind = "object" /\ start_object \in live
  /\ BeginSearch(start_object, r)
  /\ UNCHANGED <<kwd, start_keyword>>

\* A text that is not there matches nothing.
Fits(pattern, text) == pattern # NULL => text \in pattern

FitsKwd(k) == Fits(request.name, name[k]) /\ Fits(request.value, value[k])

\* The first keyword of o that the name asked for matches.
FirstNamed(o) ==
  {k \in KwdsOf(o) :
     /\ name[k] \in request.name
     /\ \A x \in KwdsOf(o) : name[x] \in request.name => x \in Onward(k)}

\* A bug: with a value to look for the name is forgotten.
ValueOnly(o) ==
  /\ request.class # NULL => obj_class[o] = request.class
  /\ request.name # NULL /\ request.value = NULL => FirstNamed(o) # {}
  /\ request.value # NULL => \E k \in KwdsOf(o) : value[k] \in request.value

\* Only that one is asked for the value; without a name there is none to ask.
FitsObject(o) ==
  /\ request.class # NULL => obj_class[o] = request.class
  /\ request.name # NULL => FirstNamed(o) # {}
  /\ request.value # NULL =>
       /\ request.name # NULL
       /\ \E k \in FirstNamed(o) : value[k] \in request.value

Found(fits) == fits /\ (request.position > 0 =>
                          current_position + 1 = request.position)

\* A match counts towards the position asked for, when one is.
CountIf(fits) ==
  current_position' =
    IF fits /\ request.position > 0 THEN current_position + 1
                                    ELSE current_position

\* A bug: the list of the object just left is run through again.
AtSameList ==
  kwd' = IF request.kind = "keyword" /\ pc' = "visit" /\ obj # NULL
         THEN first_keyword[obj] ELSE NULL

\* The keyword to look at first where the walk now stands.
AtFirstKwd ==
  kwd' = IF request.kind = "keyword" /\ pc' = "visit"
         THEN first_keyword[obj'] ELSE NULL

SearchKwd ==
  /\ Searching("keyword") /\ kwd # NULL
  /\ CountIf(FitsKwd(kwd))
  /\ \/ /\ Found(FitsKwd(kwd)) /\ found_kwd' = kwd /\ kwd' = NULL
        /\ Leave(NULL)
     \/ /\ ~Found(FitsKwd(kwd)) /\ kwd' = kwd_right[kwd]
        /\ UNCHANGED <<pc, start, obj, found_object, found_kwd>>
  /\ UNCHANGED <<links, level, call, scope, query, kwd_links, request,
                 start_keyword>>

\* The list is at its end.
NextList ==
  /\ Searching("keyword") /\ kwd = NULL
  /\ OdlNextObjDesc /\ AtFirstKwd
  /\ UNCHANGED <<links, level, call, query, current_position, kwd_links,
                 request, start_keyword, found_kwd>>

NextObject ==
  /\ Searching("object")
  /\ CountIf(FitsObject(obj))
  /\ \/ Found(FitsObject(obj)) /\ Leave(obj) /\ UNCHANGED scope
     \/ ~Found(FitsObject(obj)) /\ OdlNextObjDesc
  /\ UNCHANGED <<links, level, call, query, kwd_links, cursor>>

ClimbOn ==
  /\ Climb /\ AtFirstKwd
  /\ UNCHANGED <<kwd_links, request, start_keyword, found_kwd>>

SearchReturns ==
  /\ FindReturns
  /\ request' = NoRequest /\ start_keyword' = NULL /\ found_kwd' = NULL
  /\ UNCHANGED <<kwd_links, kwd>>

-----------------------------------------------------------------------------

EditTree ==
  /\ \/ \E o \in Objects, c \in Classes : OdlNewObjDesc(o, c)
     \/ \E o, n \in Objects : \/ OdlCopyObjDesc(o, n)
                              \/ OdlPasteObjDesc(n, o)
                              \/ OdlPasteObjDescBefore(n, o)
                              \/ OdlPasteObjDescAfter(n, o)
     \/ \E o \in Objects : OdlCutObjDesc(o)
  /\ UNCHANGED <<kwd_links, cursor>>

EditKwds ==
  /\ pc = "idle"
  /\ \/ \E k \in Keywords, n \in Names, v \in Values \cup {NULL} :
          OdlNewKwd(k, n, v)
     \/ \E j, k \in Keywords : \/ OdlCopyKwd(j, k)
                               \/ OdlPasteKwdBefore(k, j)
                               \/ OdlPasteKwdAfter(k, j)
     \/ \E k \in Keywords : OdlCutKwd(k) \/ OdlFreeKwd(k)
     \/ \E k \in Keywords, o \in Objects : OdlPasteKwd(k, o)
     \/ \E o \in Objects : OdlFreeAllKwds(o)
  /\ UNCHANGED <<links, level, walk, cursor>>

EditBoth == \E o \in Objects : FreeTree(o) /\ UNCHANGED cursor

Search ==
  \E r \in Requests :
    \/ \E o \in Objects : OdlFindKwd(o, r) \/ FindObject(o, r)
    \/ \E k \in Keywords : OdlNextKwd(k, r)

WalkOn ==
  \/ OdlAdjustObjDescLevel /\ UNCHANGED <<kwd_links, cursor>>
  \/ SearchKwd \/ NextList \/ NextObject \/ ClimbOn

LabelNext ==
  EditTree \/ EditKwds \/ EditBoth \/ Search \/ WalkOn \/ SearchReturns

LabelSpec == LabelInit /\ [][LabelNext]_label_vars

-----------------------------------------------------------------------------
(* What the lists promise.                                                 *)

\* A keyword belongs to an allocated object or to none, and no pointer leads
\* to a freed keyword: whoever frees a keyword, a list or a tree.
KwdsDontDangle ==
  /\ \A k \in kwds : /\ kwd_parent[k] \in live \cup {NULL}
                     /\ {kwd_left[k], kwd_right[k]} \subseteq kwds \cup {NULL}
  /\ \A o \in Objects :
       /\ {first_keyword[o], last_keyword[o]} \subseteq kwds \cup {NULL}
       /\ o \notin live => first_keyword[o] = NULL

\* Neighbours in a list point at each other and share an object, and a keyword
\* of no object has none.
NeighboursAgree ==
  \A k \in kwds :
    /\ kwd_right[k] # NULL => /\ kwd_left[kwd_right[k]] = k
                              /\ kwd_parent[kwd_right[k]] = kwd_parent[k]
    /\ kwd_left[k] # NULL => /\ kwd_right[kwd_left[k]] = k
                             /\ kwd_parent[kwd_left[k]] = kwd_parent[k]
    /\ kwd_parent[k] = NULL => kwd_left[k] = NULL /\ kwd_right[k] = NULL

\* The first and last keyword of an object are the ends of its list.
EndsAgree ==
  /\ \A k \in kwds : kwd_parent[k] # NULL =>
       /\ kwd_left[k] = NULL <=> first_keyword[kwd_parent[k]] = k
       /\ kwd_right[k] = NULL <=> last_keyword[kwd_parent[k]] = k
  /\ \A o \in Objects :
       /\ first_keyword[o] # NULL => kwd_parent[first_keyword[o]] = o
       /\ last_keyword[o] # NULL => kwd_parent[last_keyword[o]] = o
       /\ first_keyword[o] = NULL <=> last_keyword[o] = NULL

\* No keyword of an object is lost to a loop over its list.
KwdsReached ==
  \A o \in Objects, S \in SUBSET Keywords :
    (/\ first_keyword[o] # NULL => first_keyword[o] \in S
     /\ \A y \in S : kwd_right[y] # NULL => kwd_right[y] \in S)
      => \A k \in kwds : kwd_parent[k] = o => k \in S

\* What the keyword pointers promise between two calls.
KwdLinksAgree ==
  KwdsDontDangle /\ NeighboursAgree /\ EndsAgree /\ KwdsReached

\* Every search answers, whatever it is asked for and wherever it starts.
SearchEnds == pc = "visit" /\ call = "find" ~> pc = "return"

=============================================================================
