---------------------------- MODULE MCOdlExpand -----------------------------
(***************************************************************************)
(* Instances of label expansion for TLC: a label a and two files it can    *)
(* include, b and c.                                                       *)
(***************************************************************************)
EXTENDS OdlExpand, TLC

CONSTANTS a, b, c

To(kind, n, at, unit) == [kind |-> kind, to |-> n, at |-> at, unit |-> unit]
Structure(n) == To("STRUCTURE", n, 1, "record")
Catalog(n) == To("CATALOG", n, 1, "record")
Plain == To("other", Attached, 1, "record")

\* A root with one object, or with none.
Nested(root, object) == <<<<>> :> root @@ <<1>> :> object>>
Flat(root) == <<<<>> :> root>>

Includes == {Structure(n) : n \in Names}

\* Every way three files can include each other from inside their objects,
\* b from two of them.
CyclicDisks ==
  {a :> Nested(<<Plain, s>>, <<t>>) @@ b :> Nested(<<Plain>>, <<u, v>>)
     @@ c :> Nested(<<Plain, Plain>>, <<w, Plain>>) :
     s \in Includes \cup {Plain}, t \in Includes, u, v \in Includes,
     w \in Includes}

\* Start locations inside, past the last record and past the last byte, a
\* value without a file name, a missing file, both kinds.
Odd == {To("STRUCTURE", Attached, 1, "record"), To("STRUCTURE", b, 2, "record"),
        To("STRUCTURE", b, 3, "record"), To("STRUCTURE", b, 3, "byte"),
        Structure(c), Catalog(b), Plain}
OddDisks ==
  {a :> Nested(<<s, Structure(b)>>, <<t, Plain>>)
     @@ b :> (Nested(<<Plain>>, <<u>>) \o Flat(<<Plain, Plain>>)) @@ c :> <<>> :
     s, t \in Odd, u \in {Structure(b), Plain}}

\* Keywords at the top of an included file as well.
TopDisks ==
  {a :> Nested(<<Plain>>, <<s>>) @@ b :> Flat(<<t, Plain>>) @@ c :> Flat(<<u>>) :
     s, t, u \in Includes \cup {Plain}}

MCDisks == CyclicDisks \cup OddDisks \cup TopDisks

\* b and c include each other from their first level.
MutualDisks ==
  {a :> Flat(<<s>>) @@ b :> Flat(<<t, u>>) @@ c :> Flat(<<v>>) :
     s \in Includes, t \in Includes, u \in Includes \cup {Plain},
     v \in Includes}

Exact == [n \in Names |-> n]
OnlyStructure == {{"STRUCTURE"}}
EveryMask == SUBSET Kinds

=============================================================================
