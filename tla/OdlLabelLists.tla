--------------------------- MODULE OdlLabelLists ----------------------------
(***************************************************************************)
(* The keyword pointers of OdlLabel as the lists of OdlKeywordLists: which *)
(* sequence of keywords those of an object stand for.                      *)
(***************************************************************************)
EXTENDS OdlLabel, OdlTreeForest

\* The keywords of o, by the pointers.
List(o) ==
  Along({k \in kwds : kwd_parent[k] = o}, first_keyword[o], kwd_right)

Lists ==
  INSTANCE OdlKeywordLists
    WITH lists <- [o \in Objects |-> List(o)],
         texts <- [k \in Keywords |-> <<name[k], value[k]>>]

\* Every operation on keywords is that of its name on sequences; a tree that
\* is freed takes exactly its own keywords with it, and editing the tree or
\* searching it changes no list.
ImplementsLists == Lists!Spec

=============================================================================
