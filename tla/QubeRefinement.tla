--------------------------- MODULE QubeRefinement ---------------------------
(***************************************************************************)
(* The cube reader's properties, and the refinement mapping under which it *)
(* implements QubeSpec.  The bytes of the file are laid out here from the  *)
(* meaning of the header, and not from the reader's offsets, so that a     *)
(* wrong offset delivers a wrong pixel.                                    *)
(***************************************************************************)
EXTENDS QubeReader, SequencesExt

\* The items of the cube along an axis.
CubeItems(g, i) == IF g.size[i] = 0 THEN 1 ELSE g.size[i]

\* n bytes that belong to no pixel.
Padding(n) == [b \in 1..n |-> <<>>]

\* The bytes a header describes, in order: each is a pixel's first byte, named
\* by the pixel's coordinates, or padding (or the rest of a pixel).
PixelBytes(g, c1, c2, c3) == <<<<c1, c2, c3>>>> \o Padding(g.nbytes - 1)

LineOfBytes(g, c2, c3) ==
  Padding(g.prefix[1])
    \o FlattenSeq([k \in 1..CubeItems(g, 1) |-> PixelBytes(g, k - 1, c2, c3)])
    \o Padding(g.suffix[1])

PlaneOfBytes(g, c3) ==
  FlattenSeq([k \in 1..CubeItems(g, 2) |-> LineOfBytes(g, k - 1, c3)])
    \o Padding(CubeItems(g, 1) * (g.prefix[2] + g.suffix[2]) + g.corner)

FileBytes(g) ==
  Padding(g.dptr)
    \o FlattenSeq([k \in 1..CubeItems(g, 3) |-> PlaneOfBytes(g, k - 1)])

Files == [g \in Headers |-> FileBytes(g)]

\* The pixels behind the offsets copied so far.
Delivered == [k \in 1..Len(out) |-> Files[head][out[k] + 1]]

-----------------------------------------------------------------------------
(* The refinement mapping: while a read runs, its 0-based slice stands for *)
(* the 1-based slice it will put back.                                     *)

OneBased(s) == IF Busy THEN [i \in Axis |-> s[i] + 1] ELSE s

Promise == INSTANCE QubeSpec WITH
  phase <- IF Busy THEN "busy" ELSE pc,
  image <- attached,
  slice <- [lo |-> OneBased(s_lo), hi |-> OneBased(s_hi), skip |-> s_skip],
  broken <- fault,
  reply <- [kind |-> result,
            pixels |-> IF result = "data" THEN Delivered ELSE <<>>]

\* The reader answers every call with whole planes of exactly the pixels the
\* slice selects, in file order, every plane of them unless the file failed,
\* and leaves in the header the slice it worked on (iomedley.c:414-434).
ImplementsQubeSpec == Promise!SSpec

-----------------------------------------------------------------------------
\* Every byte of a plane taken from an attached image lies inside the image:
\* the memcpy at iomedley.c:576 has no other bound than the slice.
ImageReadsInBounds ==
  pc = "line" /\ attached => base + plane <= Len(Files[head])

\* A read that has begun returns: no outcome of an allocation, a seek or a
\* read(2) leaves it in one of its loops (iomedley.c:536-603).
ReadReturns == Busy ~> pc = "idle"

=============================================================================
