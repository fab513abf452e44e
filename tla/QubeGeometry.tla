---------------------------- MODULE QubeGeometry ----------------------------
(***************************************************************************)
(* The arithmetic of iom_read_qube_data: how a loaded header describes the *)
(* bytes of a raster cube, and how large the blocks that hold a sub-cube   *)
(* are.  The three axes of a C array indexed 0..2 are the indices 1..3 of  *)
(* a tuple here, in the file's own (org) order; every other index and      *)
(* offset is the code's.                                                   *)
(***************************************************************************)
EXTENDS Integers

Axis == 1..3

Zero3 == <<0, 0, 0>>
One3 == <<1, 1, 1>>

\* The organisations of a cube (iom_order) and the axis on which each stores
\* samples, lines and bands.
Orgs == {"BSQ", "BIL", "BIP"}

iom_orders == [BSQ |-> <<1, 2, 3>>, BIL |-> <<1, 3, 2>>, BIP |-> <<2, 3, 1>>]

\* The user's axis (samples, lines, bands) that is axis j of the file.
UserAxis(org, j) == CHOOSE i \in Axis : iom_orders[org][i] = j

(***************************************************************************)
(* What a loader leaves in a struct iom_iheader for the reader to use.     *)
(* inMemory says that the loader decoded the image and attached it to the  *)
(* data field (PNM, JPEG, PNG, TIFF, GIF) instead of leaving it in the file *)
(***************************************************************************)
CubeHeader ==
  [org : Orgs, size : [Axis -> Nat], prefix : [Axis -> Nat],
   suffix : [Axis -> Nat], corner : Nat, dptr : Nat, nbytes : Nat \ {0},
   inMemory : BOOLEAN]

\* C division: the quotient is truncated towards zero.
CDiv(a, b) == IF a >= 0 THEN a \div b ELSE -((-a) \div b)

\* Mutant: the last, partial stride is not counted.
WholeStrides(extent, stride) == CDiv(extent, stride)

\* Items of an axis the output block has room for.
Items(extent, stride) == CDiv(extent - 1, stride) + 1

\* Iterations of  for (x = 0; x < extent; x += stride).
Strides(extent, stride) ==
  IF extent > 0 THEN (extent - 1) \div stride + 1 ELSE 0

\* Bytes of one line of the file, its prefix and suffix included (d[0]).
LineBytes(g, size) == size[1] * g.nbytes + g.suffix[1] + g.prefix[1]

\* Mutant: the side planes and the corner of a plane are not skipped.
PlaneStrideWithoutSides(g, size) == LineBytes(g, size) * size[2]

\* Bytes from the start of one plane to the start of the next.
PlaneStride(g, size) ==
  LineBytes(g, size) * size[2]
    + size[1] * (g.prefix[2] + g.suffix[2]) + g.corner

\* Where line s_lo[1] of plane z of the slice starts.
PlaneOffset(g, size, lo, z) ==
  g.dptr + (z + lo[3]) * PlaneStride(g, size) + LineBytes(g, size) * lo[2]

=============================================================================
