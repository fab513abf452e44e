--------------------------- MODULE MCQubeHistory ----------------------------
(***************************************************************************)
(* The smallest instance on which the reader and its comments disagree.    *)
(***************************************************************************)
EXTENDS QubeHistory

Plain == [org |-> "BSQ", size |-> <<3, 1, 1>>, prefix |-> Zero3,
          suffix |-> Zero3, corner |-> 0, dptr |-> 0, nbytes |-> 1,
          inMemory |-> FALSE]

MCHeaders == {Plain}

MCSlices ==
  {[lo |-> <<2, 0, 0>>, hi |-> Zero3, skip |-> Zero3],
   [lo |-> Zero3, hi |-> <<2, 0, 0>>, skip |-> Zero3],
   [lo |-> Zero3, hi |-> Zero3, skip |-> <<2, 0, 0>>]}

=============================================================================
