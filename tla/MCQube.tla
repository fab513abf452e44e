------------------------------- MODULE MCQube -------------------------------
(***************************************************************************)
(* Instances of the cube reader for TLC.  The headers are of the shapes    *)
(* the loaders produce: a BSQ cube with line prefix and suffix (GRD, GOES),*)
(* a BIL cube with a line suffix, side planes and a corner (ISIS), a BIP   *)
(* cube decoded to memory (PNG), and an axis a loader left at 0.           *)
(***************************************************************************)
EXTENDS QubeRefinement

Prefixed == [org |-> "BSQ", size |-> <<3, 2, 1>>, prefix |-> <<1, 0, 0>>,
             suffix |-> <<1, 0, 0>>, corner |-> 0, dptr |-> 1, nbytes |-> 1,
             inMemory |-> FALSE]
Suffixed == [org |-> "BIL", size |-> <<2, 2, 2>>, prefix |-> Zero3,
             suffix |-> <<1, 1, 0>>, corner |-> 1, dptr |-> 0, nbytes |-> 2,
             inMemory |-> FALSE]
Decoded == [org |-> "BIP", size |-> <<2, 3, 2>>, prefix |-> Zero3,
            suffix |-> Zero3, corner |-> 0, dptr |-> 0, nbytes |-> 1,
            inMemory |-> TRUE]
Sizeless == [org |-> "BSQ", size |-> <<2, 2, 0>>, prefix |-> Zero3,
             suffix |-> Zero3, corner |-> 0, dptr |-> 0, nbytes |-> 1,
             inMemory |-> FALSE]

MCHeaders == {Prefixed, Suffixed, Decoded, Sizeless}

\* Slices of one axis, and one that sets no field the header copies.
OneAxis(i, lo, hi, skip) ==
  [lo |-> [Zero3 EXCEPT ![i] = lo], hi |-> [Zero3 EXCEPT ![i] = hi],
   skip |-> [Zero3 EXCEPT ![i] = skip]]

MCSlices ==
  {OneAxis(1, 2, 0, 0), OneAxis(1, 0, 1, 0), OneAxis(1, 0, 0, 2),
   OneAxis(2, 2, 9, 0), OneAxis(2, 1, 2, 2), OneAxis(3, 2, 2, 1),
   OneAxis(3, 3, 0, 0), OneAxis(1, -1, -1, -1)}

=============================================================================
