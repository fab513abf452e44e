----------------------------- MODULE MCOdlTree ------------------------------
(***************************************************************************)
(* Instances of the object tree for TLC.                                   *)
(***************************************************************************)
EXTENDS OdlTreeRefinement

Ask(class, position, s) == [class |-> class, position |-> position, scope |-> s]

CONSTANT Table

\* A search that runs over a whole tree, one that stays in a part of it, one
\* among the children, and one that counts siblings.
WalkQueries ==
  {Ask(NULL, 3, "TO_END"), Ask(Table, 3, "RECURSIVE_DOWN"),
   Ask(Table, 2, "CHILDREN_ONLY"), Ask(NULL, 2, "SIBLINGS_ONLY")}

=============================================================================
