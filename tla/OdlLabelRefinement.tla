------------------------- MODULE OdlLabelRefinement -------------------------
(***************************************************************************)
(* A search answers what a definition over the forest and the keyword      *)
(* lists that the pointers stand for says it should.                       *)
(***************************************************************************)
EXTENDS OdlLabelLists, OdlTreeRefinement, OdlWildCard

\* j stands before k in the label: in the list of an earlier object, or before
\* k in the same list.
KwdPrecedes(j, k) ==
  \/ Precedes(kwd_parent[j], kwd_parent[k])
  \/ kwd_parent[j] = kwd_parent[k] /\ j \notin Onward(k)

\* The keywords a search runs over: those of the objects in its scope, but in
\* the list it begins in none before the keyword it begins with.
KwdsInScope ==
  {k \in kwds :
     /\ kwd_parent[k] \in InScope(start, request.scope)
     /\ start_keyword # NULL /\ kwd_parent[k] = start
          => k \in Onward(start_keyword)}

\* But for the case RecursiveDownIsSubtree is about.
Answered(kind) ==
  /\ pc = "return" /\ request \in Requests /\ request.kind = kind
  /\ ~EscapesSubtree(request.scope)

\* OdlFindKwd and OdlNextKwd answer the keyword of that name and value at the
\* position asked for, within the scope asked for: none is passed over or
\* counted twice where one list ends and the walk goes on to the next.
KwdAnswers ==
  Answered("keyword") =>
    LET found == {k \in KwdsInScope : FitsKwd(k)}
    IN  Answers(found_kwd, found, {k \in found : KwdPrecedes(k, found_kwd)},
                request.position)

\* Objects with a keyword of that name and that value.
HasKeyword(o) ==
  \E k \in kwds : /\ kwd_parent[k] = o
                  /\ Fits(request.name, name[k]) /\ Fits(request.value, value[k])

Wanted(o) ==
  /\ request.class # NULL => obj_class[o] = request.class
  /\ request.name # NULL => HasKeyword(o)

\* No object has two keywords that the name asked for matches.
NamesDiffer ==
  \A j, k \in kwds :
    /\ j # k /\ kwd_parent[j] = kwd_parent[k] /\ kwd_parent[j] # NULL
    => ~({name[j], name[k]} \subseteq request.name)

\* "by a particular value that a particular keyword has" (io_lablib3.c:580):
\* OdlFindObjDesc answers the object of that class with that keyword, as long
\* as the name asked for is not that of two keywords of an object; it asks
\* only the first of them for its value.
ObjectAnswers ==
  /\ Answered("object")
  /\ request.value # NULL => request.name # NULL /\ NamesDiffer
  => LET found == {x \in InScope(start, request.scope) : Wanted(x)}
     IN  Answers(found_object, found,
                 {x \in found : Precedes(x, found_object)}, request.position)

TextsCompare ==
  \A wildcard_text \in WildCards, plain_text \in PlainTexts :
    ComparesLikeGlob(wildcard_text, plain_text)

\* A search takes a name for the one it was asked for as the usual comparison
\* with stars would, but for what ComparesLikeGlob says: whatever pattern and
\* text it compares, quoted or not (OdlWildCardCompare).
WildCardsFind == pc = "visit" => TextsCompare

=============================================================================
