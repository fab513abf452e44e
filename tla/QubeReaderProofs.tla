-------------------------- MODULE QubeReaderProofs --------------------------
(***************************************************************************)
(* Proofs about the cube reader, for every header, every slice and every   *)
(* size of a single read: its invariants, and that it implements QubeSpec, *)
(* that is, that it delivers the pixels the slice selects and no others.   *)
(***************************************************************************)
EXTENDS QubeRefinement, FiniteSetTheorems, WellFoundedInduction,
        SequenceTheorems, TLAPS

-----------------------------------------------------------------------------
(* Arithmetic. *)

\* Products of naturals are naturals.
LEMMA ProductNat ==
  ASSUME NEW a \in Nat, NEW b \in Nat
  PROVE  a * b \in Nat
  OBVIOUS

\* A line of the file is a number of bytes.
LEMMA LineBytesNat ==
  ASSUME NEW g \in CubeHeader, NEW n \in [Axis -> Nat]
  PROVE  LineBytes(g, n) \in Nat
  <1>1. /\ n[1] \in Nat /\ g.nbytes \in Nat
        /\ g.suffix[1] \in Nat /\ g.prefix[1] \in Nat
    BY DEF CubeHeader, Axis
  <1>2. n[1] * g.nbytes \in Nat
    BY <1>1, ProductNat
  <1>3. QED
    BY <1>1, <1>2 DEF LineBytes

\* A plane of the slice starts at a file offset.
LEMMA PlaneOffsetNat ==
  ASSUME NEW g \in CubeHeader, NEW n \in [Axis -> Nat],
         NEW l \in [Axis -> Nat], NEW k \in Nat
  PROVE  PlaneOffset(g, n, l, k) \in Nat
  <1>1. /\ n[1] \in Nat /\ n[2] \in Nat /\ l[2] \in Nat /\ l[3] \in Nat
        /\ g.suffix[2] \in Nat /\ g.prefix[2] \in Nat
        /\ g.corner \in Nat /\ g.dptr \in Nat
    BY DEF CubeHeader, Axis
  <1>2. LineBytes(g, n) \in Nat
    BY LineBytesNat
  <1>3. /\ LineBytes(g, n) * n[2] \in Nat
        /\ n[1] * (g.prefix[2] + g.suffix[2]) \in Nat
        /\ LineBytes(g, n) * l[2] \in Nat
    BY <1>1, <1>2, ProductNat
  <1>4. PlaneStride(g, n) \in Nat
    BY <1>1, <1>3 DEF PlaneStride
  <1>5. (k + l[3]) * PlaneStride(g, n) \in Nat
    BY <1>1, <1>4, ProductNat
  <1>6. QED
    BY <1>1, <1>3, <1>5 DEF PlaneOffset

-----------------------------------------------------------------------------
(* Type correctness. *)

\* The arrays a header starts from.
LEMMA InitialArrays ==
  /\ Zero3 \in [Axis -> Nat] /\ Zero3 \in [Axis -> Int]
  /\ One3 \in [Axis -> Nat]
  /\ None \in [lo : [Axis -> Nat], hi : [Axis -> Nat]]
  BY DEF Zero3, One3, Axis, None

\* The three axes.
LEMMA Axes == 1 \in Axis /\ 2 \in Axis /\ 3 \in Axis
  BY DEF Axis

TypeInv == TypeOK /\ LoopBounds

\* Every axis of the file is an axis of the user's.
LEMMA UserAxisIsAxis ==
  ASSUME NEW org \in Orgs, NEW j \in Axis
  PROVE  UserAxis(org, j) \in Axis
  <1>1. \E i \in Axis : iom_orders[org][i] = j
    BY DEF Orgs, Axis, iom_orders
  <1>2. QED
    BY <1>1 DEF UserAxis

\* A merged slice field is still an array of naturals.
LEMMA MergeNat ==
  ASSUME head \in CubeHeader,
         NEW user \in [Axis -> Int], NEW old \in [Axis -> Nat]
  PROVE  Merge(user, old) \in [Axis -> Nat]
  <1>1. ASSUME NEW j \in Axis
        PROVE  UserAxis(head.org, j) \in Axis
    BY <1>1, UserAxisIsAxis DEF CubeHeader
  <1>2. QED
    BY <1>1 DEF Merge

\* The defaults a read fills in: a slice that starts at 1 or later, ends inside
\* the cube, and advances.
LEMMA DefaultsNat ==
  ASSUME TypeOK
  PROVE  /\ DefaultSize \in [Axis -> Nat \ {0}]
         /\ DefaultLo \in [Axis -> Nat \ {0}]
         /\ DefaultHi \in [Axis -> Nat \ {0}]
         /\ DefaultSkip \in [Axis -> Nat \ {0}]
         /\ \A i \in Axis : DefaultHi[i] <= DefaultSize[i]
  BY DEF TypeOK, DefaultSize, DefaultLo, DefaultHi, DefaultSkip

\* A product of three integers is one.
LEMMA OutputItemsInt ==
  ASSUME TypeOK
  PROVE  /\ Extent \in [Axis -> Int]
         /\ OutputItems \in Int
  <1>1. Extent \in [Axis -> Int]
    BY DefaultsNat DEF Extent
  <1>2. ASSUME NEW i \in Axis
        PROVE  Items(Extent[i], DefaultSkip[i]) \in Int
    <2>1. Extent[i] \in Int /\ DefaultSkip[i] \in Nat \ {0}
      BY <1>1, DefaultsNat
    <2>2. QED
      BY <2>1 DEF Items, CDiv
  <1>3. 1 \in Axis /\ 2 \in Axis /\ 3 \in Axis
    BY DEF Axis
  <1>4. \A a, b, c \in Int : a * b * c \in Int
    OBVIOUS
  <1>5. QED
    BY <1>1, <1>2, <1>3, <1>4 DEF OutputItems

\* Where a line begins in p_data, and how many pixels it gives.
LEMMA LineNat ==
  ASSUME TypeInv, pc = "line"
  PROVE  /\ LineStart \in Nat
         /\ LinePixels \in Nat
         /\ \A x \in 1..LinePixels :
              (x - 1) * s_skip[1] * head.nbytes \in Nat
  <1>1. /\ head \in CubeHeader
        /\ head.prefix[1] \in Nat /\ head.nbytes \in Nat
        /\ s_lo[1] \in Nat /\ s_skip[1] \in Nat \ {0} /\ dim[1] \in Nat
        /\ size \in [Axis -> Nat] /\ y \in Nat
    <2>1. head \in CubeHeader
      BY HeadersAssumption DEF TypeInv, TypeOK
    <2>2. 1 \in Axis /\ Busy
      BY DEF Axis, Busy, Internal
    <2>3. QED
      BY <2>1, <2>2 DEF CubeHeader, TypeInv, TypeOK, LoopBounds
  <1>2. s_lo[1] * head.nbytes \in Nat /\ y * LineBytes(head, size) \in Nat
    BY <1>1, LineBytesNat, ProductNat
  <1>3. LinePixels \in Nat
    BY <1>1 DEF LinePixels, Strides
  <1>4. ASSUME NEW x \in 1..LinePixels
        PROVE  (x - 1) * s_skip[1] * head.nbytes \in Nat
    <2>1. x - 1 \in Nat
      BY <1>3
    <2>2. (x - 1) * s_skip[1] \in Nat
      BY <1>1, <2>1, ProductNat
    <2>3. QED
      BY <1>1, <2>2, ProductNat
  <1>5. QED
    BY <1>1, <1>2, <1>3, <1>4 DEF LineStart

\* Every step keeps the types and the loop bounds.
LEMMA TypeInvStep == TypeInv /\ [Next]_vars => TypeInv'
  <1> SUFFICES ASSUME TypeInv, [Next]_vars
               PROVE  TypeInv'
    OBVIOUS
  <1> USE DEF TypeInv, LoopBounds, Busy, Internal
  <1>h. head \in CubeHeader
    BY HeadersAssumption DEF TypeOK
  <1>1. ASSUME NEW g \in Headers, Load(g)
        PROVE  TypeInv'
    <2>1. g \in CubeHeader
      BY HeadersAssumption
    <2>2. g.size \in [Axis -> Nat] /\ g.inMemory \in BOOLEAN
      BY <2>1 DEF CubeHeader
    <2>3. /\ s_lo' \in [Axis -> Nat] /\ s_hi' \in [Axis -> Nat]
          /\ s_skip' \in [Axis -> Nat] /\ dim' \in [Axis -> Int]
          /\ asked' \in [lo : [Axis -> Nat], hi : [Axis -> Nat]]
          /\ size' \in [Axis -> Nat]
      BY <1>1, <2>2, InitialArrays DEF Load
    <2>4. out' \in Seq(Nat)
      BY <1>1 DEF Load
    <2>5. /\ dsize' \in Int /\ plane' \in Nat /\ z' \in Nat /\ y' \in Nat
          /\ count' \in Nat /\ nread' \in Nat /\ base' \in Nat
      BY <1>1 DEF Load, ForgetLocals
    <2>6. /\ head' \in Headers /\ format' \in {"unset", "native"}
          /\ attached' \in BOOLEAN /\ pc' = "idle" /\ result' = "none"
          /\ fault' = FALSE
      BY <1>1, <2>2 DEF Load
    <2>7. live' \subseteq {"image", "data", "p_data"}
      BY <1>1 DEF Load, TypeOK
    <2>8. QED
      BY <2>3, <2>4, <2>5, <2>6, <2>7 DEF TypeOK
  <1>2. ASSUME NEW s \in UserSlices, SetSliceInHeader(s)
        PROVE  TypeInv'
    <2>1. /\ s.lo \in [Axis -> Int] /\ s.hi \in [Axis -> Int]
          /\ s.skip \in [Axis -> Int]
      BY SlicesAssumption
    <2>2. /\ Merge(s.lo, s_lo) \in [Axis -> Nat]
          /\ Merge(s.hi, s_hi) \in [Axis -> Nat]
          /\ Merge(s.skip, s_skip) \in [Axis -> Nat]
      BY <1>h, <2>1, MergeNat DEF TypeOK
    <2>3. QED
      BY <1>2, <2>2 DEF SetSliceInHeader, locals, TypeOK
  <1>3. ASSUME ClearSliceInHeader
        PROVE  TypeInv'
    BY <1>3, InitialArrays DEF ClearSliceInHeader, locals, TypeOK
  <1>4. ASSUME ReadQubeData
        PROVE  TypeInv'
    <2>1. s_lo' \in [Axis -> Nat] /\ s_hi' \in [Axis -> Nat]
      BY <1>4, DefaultsNat DEF ReadQubeData
    <2>2. /\ s_skip' \in [Axis -> Nat] /\ size' \in [Axis -> Nat]
          /\ asked' \in [lo : [Axis -> Nat], hi : [Axis -> Nat]]
          /\ \A i \in Axis : s_skip'[i] > 0
      BY <1>4, DefaultsNat DEF ReadQubeData
    <2>3. dim' \in [Axis -> Int] /\ dsize' \in Int
      BY <1>4, OutputItemsInt DEF ReadQubeData
    <2>4. dsize' >= 0 => \A i \in Axis : dim'[i] >= 0
      BY <1>4 DEF ReadQubeData, SliceInContract
    <2>5. TypeOK'
      BY <1>4, <2>1, <2>2, <2>3 DEF ReadQubeData, TypeOK
    <2>6. QED
      BY <1>4, <2>2, <2>4, <2>5 DEF ReadQubeData
  <1>5. ASSUME DetachData \/ Cleanup
        PROVE  TypeInv'
    BY <1>5 DEF DetachData, Cleanup, slice, locals, TypeOK
  <1>6. ASSUME AllocateData
        PROVE  TypeInv'
    <2>1. dim[2] \in Nat
      BY <1>6 DEF AllocateData, TypeOK, Axis
    <2>2. plane' \in Nat
      BY <1>6, <1>h, <2>1, LineBytesNat, ProductNat DEF AllocateData, TypeOK
    <2>3. QED
      BY <1>6, <2>2 DEF AllocateData, header, slice, TypeOK
  <1>7. ASSUME NEW freed, ReturnNull(freed)
        PROVE  TypeInv'
    <2>1. s_lo' \in [Axis -> Nat] /\ s_hi' \in [Axis -> Nat]
      BY <1>7 DEF ReturnNull, RestoreSlice, TypeOK
    <2>2. out' \in Seq(Nat)
      BY <1>7 DEF ReturnNull
    <2>3. /\ dsize' \in Int /\ plane' \in Nat /\ z' \in Nat /\ y' \in Nat
          /\ count' \in Nat /\ nread' \in Nat /\ base' \in Nat
      BY <1>7 DEF ReturnNull, ForgetLocals
    <2>4. live' \subseteq {"image", "data", "p_data"} /\ pc' = "idle"
      BY <1>7 DEF ReturnNull, TypeOK
    <2>5. s_skip' \in [Axis -> Nat] /\ result' = "NULL"
      BY <1>7 DEF ReturnNull, RestoreSlice, TypeOK
    <2>6. UNCHANGED <<head, size, dim, format, attached, fault, asked>>
      BY <1>7 DEF ReturnNull
    <2>7. QED
      BY <2>1, <2>2, <2>3, <2>4, <2>5, <2>6 DEF TypeOK
  <1>8. ASSUME AllocatePlane
        PROVE  TypeInv'
    BY <1>8 DEF AllocatePlane, header, slice, TypeOK
  <1>9. ASSUME Seek \/ TakePlaneFromImage
        PROVE  TypeInv'
    <2>1. PlaneOffset(head, size, s_lo, z) \in Nat
      BY <1>h, PlaneOffsetNat DEF TypeOK
    <2>2. CASE Seek
      BY <2>1, <2>2 DEF Seek, header, slice, TypeOK
    <2>3. CASE TakePlaneFromImage
      BY <2>1, <2>3 DEF TakePlaneFromImage, header, slice, TypeOK
    <2>4. QED
      BY <1>9, <2>2, <2>3
  <1>10. ASSUME SeekFails \/ ReadComplete \/ CheckPlane \/ PlanesDone
         PROVE  TypeInv'
    <2>1. CASE SeekFails
      BY <2>1 DEF SeekFails, header, slice, locals, TypeOK
    <2>2. CASE ReadComplete
      BY <2>2 DEF ReadComplete, header, slice, locals, TypeOK
    <2>3. CASE CheckPlane
      BY <2>3 DEF CheckPlane, header, slice, TypeOK
    <2>4. CASE PlanesDone
      BY <2>4 DEF PlanesDone, header, slice, locals, TypeOK
    <2>5. QED
      BY <1>10, <2>1, <2>2, <2>3, <2>4
  <1>11. ASSUME ReadChunk
         PROVE  TypeInv'
    <2>1. Chunk \in Int
      BY MaxSingleReadSizeAssumption DEF Chunk, TypeOK
    <2>2. QED
      BY <1>11, <2>1 DEF ReadChunk, header, slice, TypeOK
  <1>12. ASSUME NEW n \in 0..(Chunk - 1), ReadShort(n)
         PROVE  TypeInv'
    <2>1. n \in Nat
      BY MaxSingleReadSizeAssumption DEF Chunk, TypeOK
    <2>2. QED
      BY <1>12, <2>1 DEF ReadShort, header, slice, TypeOK
  <1>13. ASSUME CopyLine
         PROVE  TypeInv'
    <2>1. pc = "line"
      BY <1>13 DEF CopyLine
    <2>2. /\ LineStart \in Nat /\ LinePixels \in Nat
          /\ \A x \in 1..LinePixels :
               (x - 1) * s_skip[1] * head.nbytes \in Nat
      BY <2>1, LineNat
    <2>3. [x \in 1..LinePixels |->
             base + LineStart + (x - 1) * s_skip[1] * head.nbytes] \in Seq(Nat)
      BY <2>2 DEF TypeOK
    <2>4. out' \in Seq(Nat)
      BY <1>13, <2>3 DEF CopyLine, TypeOK
    <2>5. head.nbytes \in Nat
      BY <1>h DEF CubeHeader
    <2>6. LinePixels * head.nbytes \in Nat
      BY <2>2, <2>5, ProductNat
    <2>7. count \in Nat /\ y \in Nat /\ s_skip[2] \in Nat
      BY Axes DEF TypeOK
    <2>8. count' = count + LinePixels * head.nbytes /\ y' = y + s_skip[2]
      BY <1>13 DEF CopyLine
    <2>9. count' \in Nat /\ y' \in Nat
      BY <2>6, <2>7, <2>8
    <2>10. QED
      BY <1>13, <2>4, <2>9 DEF CopyLine, header, slice, TypeOK
  <1>14. ASSUME NextPlane
         PROVE  TypeInv'
    <2>1. z \in Nat /\ s_skip[3] \in Nat
      BY Axes DEF TypeOK
    <2>2. z' = z + s_skip[3]
      BY <1>14 DEF NextPlane
    <2>3. z' \in Nat
      BY <2>1, <2>2
    <2>4. QED
      BY <1>14, <2>3 DEF NextPlane, header, slice, TypeOK
  <1>15. ASSUME ReturnData
         PROVE  TypeInv'
    BY <1>15 DEF ReturnData, RestoreSlice, ForgetLocals, TypeOK
  <1>16. ASSUME UNCHANGED vars
         PROVE  TypeInv'
    BY <1>16 DEF vars, header, slice, locals, TypeOK
  <1>17. QED
    BY <1>1, <1>2, <1>3, <1>4, <1>5, <1>6, <1>7, <1>8, <1>9, <1>10, <1>11,
       <1>12, <1>13, <1>14, <1>15, <1>16
    DEF Next, Caller, Reader, AllocateDataFails, AllocatePlaneFails

\* A header starts with the types.
LEMMA TypeInvInit == Init => TypeInv
  <1> SUFFICES ASSUME Init
               PROVE  TypeInv
    OBVIOUS
  <1>1. /\ size \in [Axis -> Nat] /\ dim \in [Axis -> Int]
        /\ s_lo \in [Axis -> Nat] /\ s_hi \in [Axis -> Nat]
        /\ s_skip \in [Axis -> Nat]
        /\ asked \in [lo : [Axis -> Nat], hi : [Axis -> Nat]]
    BY InitialArrays DEF Init
  <1>2. out \in Seq(Nat)
    BY DEF Init
  <1>3. /\ dsize \in Int /\ plane \in Nat /\ z \in Nat /\ y \in Nat
        /\ count \in Nat /\ nread \in Nat /\ base \in Nat
    BY DEF Init
  <1>4. /\ head \in Headers /\ format = "unset" /\ attached = FALSE
        /\ pc = "closed" /\ result = "none" /\ live = {} /\ fault = FALSE
    BY DEF Init
  <1>5. QED
    BY <1>1, <1>2, <1>3, <1>4 DEF TypeInv, TypeOK, LoopBounds, Busy, Internal

\* Every variable keeps its type: whatever sequence of slices, reads and
\* failures, no 0-based slice field, offset or count falls below zero.
THEOREM TypeCorrect == Spec => []TypeOK
  <1>1. Spec => []TypeInv
    BY TypeInvInit, TypeInvStep, PTL DEF Spec
  <1>2. TypeInv => TypeOK
    BY DEF TypeInv
  <1>3. QED
    BY <1>1, <1>2, PTL

-----------------------------------------------------------------------------
(* The slice is put back. *)

\* While a read runs, the header holds the asked slice, 0-based.
ShiftedSlice ==
  Busy => \A i \in Axis : s_lo[i] + 1 = asked.lo[i] /\ s_hi[i] + 1 = asked.hi[i]

\* Only a call starts a read, and only a return ends it: in between the slice,
\* and what was asked, stay as they are.
LEMMA SliceKept ==
  ASSUME Reader, Busy'
  PROVE  UNCHANGED <<s_lo, s_hi, asked>>
  BY DEF Reader, AllocateData, AllocateDataFails, AllocatePlane,
         AllocatePlaneFails, ReturnNull, Seek, SeekFails, TakePlaneFromImage,
         ReadChunk, ReadShort, ReadComplete, CheckPlane, CopyLine, NextPlane,
         PlanesDone, ReturnData, Busy, Internal, header, slice, locals

\* Every step keeps the header's slice one below the asked one.
LEMMA ShiftedStep == TypeInv /\ ShiftedSlice /\ [Next]_vars => ShiftedSlice'
  <1> SUFFICES ASSUME TypeInv, ShiftedSlice, [Next]_vars, Busy'
               PROVE  \A i \in Axis : /\ s_lo'[i] + 1 = asked'.lo[i]
                                      /\ s_hi'[i] + 1 = asked'.hi[i]
    BY DEF ShiftedSlice
  <1>1. CASE ReadQubeData
    <2>1. DefaultLo \in [Axis -> Nat] /\ DefaultHi \in [Axis -> Nat]
      BY DefaultsNat DEF TypeInv
    <2>2. /\ s_lo' = [i \in Axis |-> DefaultLo[i] - 1]
          /\ s_hi' = [i \in Axis |-> DefaultHi[i] - 1]
          /\ asked'.lo = DefaultLo /\ asked'.hi = DefaultHi
      BY <1>1 DEF ReadQubeData
    <2>3. QED
      BY <2>1, <2>2
  <1>2. CASE Reader
    <2>1. UNCHANGED <<s_lo, s_hi, asked>>
      BY <1>2, SliceKept
    <2>2. Busy
      BY <1>2 DEF Reader, AllocateData, AllocateDataFails, AllocatePlane,
         AllocatePlaneFails, Seek, SeekFails, TakePlaneFromImage, ReadChunk,
         ReadShort, ReadComplete, CheckPlane, CopyLine, NextPlane, PlanesDone,
         ReturnData, Busy, Internal
    <2>3. QED
      BY <2>1, <2>2 DEF ShiftedSlice
  <1>3. CASE Caller /\ ~ReadQubeData
    <2>1. pc' \in {"idle", "closed"}
      BY <1>3 DEF Caller, Load, SetSliceInHeader, ClearSliceInHeader,
         DetachData, Cleanup
    <2>2. QED
      BY <2>1 DEF Busy, Internal
  <1>4. CASE UNCHANGED vars
    BY <1>4 DEF ShiftedSlice, vars, header, slice, Busy, Internal
  <1>5. QED
    BY <1>1, <1>2, <1>3, <1>4 DEF Next

\* A step that ends a read puts the slice back.
LEMMA RestoredStep ==
  TypeInv /\ ShiftedSlice /\ [Next]_vars
    => [Busy /\ ~Busy' => s_lo' = asked.lo /\ s_hi' = asked.hi]_vars
  <1> SUFFICES ASSUME TypeInv, ShiftedSlice, Next, Busy, ~Busy'
               PROVE  s_lo' = asked.lo /\ s_hi' = asked.hi
    BY DEF vars, Busy
  <1>1. RestoreSlice
    <2>1. ~Caller
      BY DEF Caller, Load, SetSliceInHeader, ClearSliceInHeader, ReadQubeData,
         DetachData, Cleanup, Busy, Internal
    <2>2. pc' \notin Internal /\ Reader
      BY <2>1 DEF Next, Busy
    <2>3. QED
      BY <2>2 DEF Reader, AllocateData, AllocateDataFails, AllocatePlane,
         AllocatePlaneFails, ReturnNull, Seek, SeekFails, TakePlaneFromImage,
         ReadChunk, ReadShort, ReadComplete, CheckPlane, CopyLine, NextPlane,
         PlanesDone, ReturnData, Busy, Internal, header, slice, locals
  <1>2. asked.lo \in [Axis -> Nat] /\ asked.hi \in [Axis -> Nat]
    BY DEF TypeInv, TypeOK
  <1>3. /\ s_lo' = [i \in Axis |-> s_lo[i] + 1]
        /\ s_hi' = [i \in Axis |-> s_hi[i] + 1]
    BY <1>1 DEF RestoreSlice
  <1>4. \A i \in Axis : s_lo[i] + 1 = asked.lo[i] /\ s_hi[i] + 1 = asked.hi[i]
    BY DEF ShiftedSlice
  <1>5. QED
    BY <1>2, <1>3, <1>4

\* Every exit of iom_read_qube_data, whatever failed, puts back exactly the
\* 1-based slice the read was entered with, so that the next read of the same
\* header works on the same region.
THEOREM SliceRestoredThm == Spec => SliceRestored
  <1>1. Init => ShiftedSlice
    BY DEF Init, ShiftedSlice, Busy, Internal
  <1>2. Spec => []TypeInv
    BY TypeInvInit, TypeInvStep, PTL DEF Spec
  <1>3. Spec => []ShiftedSlice
    BY <1>1, <1>2, ShiftedStep, PTL DEF Spec
  <1>4. QED
    BY <1>2, <1>3, RestoredStep, PTL DEF Spec, SliceRestored

-----------------------------------------------------------------------------
(* Ownership of the blocks. *)

\* The blocks a read holds at each of its points.
Buffers ==
  IF pc = "p_data" THEN {"data"}
  ELSE IF Busy /\ pc # "data" THEN {"data", "p_data"} ELSE {}

\* The library owns the attached image and the blocks of the read, no others.
Ownership ==
  /\ live = Buffers \cup (IF attached THEN {"image"} ELSE {})
  /\ attached \in BOOLEAN
  /\ pc = "closed" => ~attached

LEMMA OwnershipStep == Ownership /\ [Next]_vars => Ownership'
  <1> SUFFICES ASSUME Ownership, [Next]_vars
               PROVE  Ownership'
    OBVIOUS
  <1> USE DEF Ownership, Buffers, Busy, Internal
  <1>1. ASSUME NEW g \in Headers, Load(g)
        PROVE  Ownership'
    <2>1. g.inMemory \in BOOLEAN
      BY HeadersAssumption DEF CubeHeader
    <2>2. QED
      BY <1>1, <2>1 DEF Load
  <1>2. ASSUME NEW s \in UserSlices, SetSliceInHeader(s)
        PROVE  Ownership'
    BY <1>2 DEF SetSliceInHeader
  <1>3. CASE ClearSliceInHeader
    BY <1>3 DEF ClearSliceInHeader
  <1>4. CASE ReadQubeData
    BY <1>4 DEF ReadQubeData
  <1>5. CASE DetachData \/ Cleanup
    BY <1>5 DEF DetachData, Cleanup
  <1>6. CASE AllocateData \/ AllocatePlane
    BY <1>6 DEF AllocateData, AllocatePlane, header
  <1>7. CASE AllocateDataFails \/ AllocatePlaneFails
    BY <1>7 DEF AllocateDataFails, AllocatePlaneFails, ReturnNull
  <1>8. CASE Seek \/ SeekFails \/ TakePlaneFromImage
    BY <1>8 DEF Seek, SeekFails, TakePlaneFromImage, header
  <1>9. CASE ReadChunk \/ ReadComplete \/ \E n \in 0..(Chunk - 1) : ReadShort(n)
    BY <1>9 DEF ReadChunk, ReadComplete, ReadShort, header
  <1>10. CASE CheckPlane \/ CopyLine \/ NextPlane \/ PlanesDone
    BY <1>10 DEF CheckPlane, CopyLine, NextPlane, PlanesDone, header
  <1>11. CASE ReturnData
    BY <1>11 DEF ReturnData
  <1>12. CASE UNCHANGED vars
    BY <1>12 DEF vars, header
  <1>13. QED
    BY <1>1, <1>2, <1>3, <1>4, <1>5, <1>6, <1>7, <1>8, <1>9, <1>10, <1>11,
       <1>12 DEF Next, Caller, Reader

\* No failure and no early return of a read leaks one of its two blocks or
\* frees the attached image.
THEOREM NothingLeaksThm == Spec => []NothingLeaks
  <1>1. Init => Ownership
    BY DEF Init, Ownership, Buffers, Busy, Internal
  <1>2. Ownership => NothingLeaks
    BY DEF Ownership, NothingLeaks, Buffers, Busy, Internal
  <1>3. QED
    BY <1>1, <1>2, OwnershipStep, PTL DEF Spec

-----------------------------------------------------------------------------
(* Strides. *)

\* Multiplication is monotonic.
LEMMA TimesMonotonic ==
  ASSUME NEW a \in Nat, NEW b \in Nat, NEW c \in Nat, a <= b
  PROVE  a * c <= b * c
  OBVIOUS

\* What integer division is.
LEMMA Division ==
  ASSUME NEW a \in Nat, NEW s \in Nat \ {0}
  PROVE  /\ a \div s \in Nat
         /\ (a \div s) * s <= a
         /\ a < (a \div s + 1) * s
  OBVIOUS

\* A loop over an extent makes a natural number of iterations, at most as many
\* as the allocation counted items.
LEMMA StridesFitItems ==
  ASSUME NEW d \in Nat, NEW s \in Nat \ {0}
  PROVE  Strides(d, s) \in Nat /\ Items(d, s) \in Nat
         /\ Strides(d, s) <= Items(d, s)
  <1>1. CASE d > 0
    <2>1. d - 1 \in Nat
      BY <1>1
    <2>2. (d - 1) \div s \in Nat
      BY <2>1, Division
    <2>3. QED
      BY <1>1, <2>1, <2>2 DEF Strides, Items, CDiv
  <1>2. CASE d = 0
    <2>1. 1 \div s \in {0, 1}
      <3>1. 1 \div s \in Nat /\ (1 \div s) * s <= 1
        BY Division
      <3>2. (1 \div s) * 1 <= (1 \div s) * s
        BY <3>1
      <3>3. QED
        BY <3>1, <3>2
    <2>2. Strides(d, s) = 0 /\ Items(d, s) = -(1 \div s) + 1
      BY <1>2 DEF Strides, Items, CDiv
    <2>3. QED
      BY <2>1, <2>2
  <1>3. QED
    BY <1>1, <1>2

\* A loop variable still below the extent has an iteration to go, and one that
\* is not has made them all.
LEMMA StridesReached ==
  ASSUME NEW d \in Nat, NEW s \in Nat \ {0}, NEW k \in Nat
  PROVE  /\ k * s < d => k + 1 <= Strides(d, s)
         /\ k * s >= d => k >= Strides(d, s)
  <1> DEFINE q == (d - 1) \div s
  <1>1. CASE d = 0
    <2>1. k * s \in Nat
      BY ProductNat
    <2>2. QED
      BY <1>1, <2>1 DEF Strides
  <1>2. CASE d > 0
    <2>1. q \in Nat /\ q * s <= d - 1 /\ d - 1 < (q + 1) * s
      BY <1>2, Division
    <2>2. Strides(d, s) = q + 1
      BY <1>2 DEF Strides
    <2>3. ASSUME k * s < d
          PROVE  k <= q
      <3>1. SUFFICES ASSUME k >= q + 1
                     PROVE  FALSE
        BY <2>1
      <3>2. (q + 1) * s <= k * s
        BY <2>1, <3>1, TimesMonotonic
      <3>3. (q + 1) * s \in Nat /\ k * s \in Nat
        BY <2>1, ProductNat
      <3>4. QED
        BY <2>1, <2>3, <3>2, <3>3
    <2>4. ASSUME k * s >= d
          PROVE  k >= q + 1
      <3>1. SUFFICES ASSUME k <= q
                     PROVE  FALSE
        BY <2>1
      <3>2. k * s <= q * s
        BY <2>1, <3>1, TimesMonotonic
      <3>3. q * s \in Nat /\ k * s \in Nat
        BY <2>1, ProductNat
      <3>4. QED
        BY <2>1, <2>4, <3>2, <3>3
    <2>5. QED
      BY <2>1, <2>2, <2>3, <2>4
  <1>3. QED
    BY <1>1, <1>2

-----------------------------------------------------------------------------
(* The output fits the block allocated for it. *)

Lines == Strides(dim[2], s_skip[2])
Planes == Strides(dim[3], s_skip[3])
LineLength == LinePixels * head.nbytes
PlaneLength == Lines * LineLength

\* The extents a read with memory works on, and the sizes derived from them.
Shape ==
  Busy =>
    /\ \A i \in Axis : dim[i] = s_hi[i] - s_lo[i] + 1 /\ s_hi[i] < size[i]
    /\ dsize = Items(dim[1], s_skip[1]) * Items(dim[2], s_skip[2])
                 * Items(dim[3], s_skip[3])
    /\ pc # "data" => dsize >= 0 /\ plane = LineBytes(head, size) * dim[2]

\* How far the loops have come, counted in iterations.
Progress ==
  /\ pc \in {"closed", "idle", "data", "p_data"} => count = 0
  /\ pc = "seek" =>
       \E k \in Nat : /\ k <= Planes /\ z = k * s_skip[3]
                      /\ count = k * PlaneLength
  /\ pc \in {"read", "check"} =>
       \E k \in Nat : /\ k < Planes /\ z = k * s_skip[3]
                      /\ count = k * PlaneLength
  /\ pc = "line" =>
       \E k, j \in Nat : /\ k < Planes /\ z = k * s_skip[3]
                         /\ j <= Lines /\ y = j * s_skip[2]
                         /\ count = k * PlaneLength + j * LineLength
  /\ pc = "finish" => count <= Planes * PlaneLength

\* The lengths of a read in progress are naturals.
LEMMA LengthsNat ==
  ASSUME TypeInv, Busy, pc # "data", dsize >= 0
  PROVE  /\ dim[1] \in Nat /\ dim[2] \in Nat /\ dim[3] \in Nat
         /\ \A i \in Axis : s_skip[i] \in Nat \ {0}
         /\ head.nbytes \in Nat
         /\ LinePixels \in Nat /\ Lines \in Nat /\ Planes \in Nat
         /\ LineLength \in Nat /\ PlaneLength \in Nat
         /\ LinePixels <= Items(dim[1], s_skip[1])
  <1>1. /\ dim[1] \in Nat /\ dim[2] \in Nat /\ dim[3] \in Nat
        /\ \A i \in Axis : s_skip[i] \in Nat \ {0}
    BY Axes DEF TypeInv, TypeOK, LoopBounds
  <1>2. head.nbytes \in Nat
    BY HeadersAssumption DEF TypeInv, TypeOK, CubeHeader
  <1>3. /\ Lines \in Nat /\ Planes \in Nat
        /\ Strides(dim[1], s_skip[1]) \in Nat
        /\ Strides(dim[1], s_skip[1]) <= Items(dim[1], s_skip[1])
    BY <1>1, Axes, StridesFitItems DEF Lines, Planes
  <1>4. LinePixels \in Nat /\ LinePixels <= Items(dim[1], s_skip[1])
    <2>1. CASE s_skip[1] = 1
      <3>1. Items(dim[1], 1) = dim[1]
        <4>1. ASSUME NEW a \in Nat
              PROVE  a \div 1 = a
          OBVIOUS
        <4>2. CASE dim[1] = 0
          BY <4>1, <4>2 DEF Items, CDiv
        <4>3. CASE dim[1] > 0
          <5>1. dim[1] - 1 \in Nat
            BY <1>1, <4>3
          <5>2. (dim[1] - 1) \div 1 = dim[1] - 1
            BY <4>1, <5>1
          <5>3. QED
            BY <1>1, <5>1, <5>2 DEF Items, CDiv
        <4>4. QED
          BY <1>1, <4>2, <4>3
      <3>2. QED
        BY <1>1, <2>1, <3>1 DEF LinePixels
    <2>2. CASE s_skip[1] # 1
      BY <1>3, <2>2 DEF LinePixels
    <2>3. QED
      BY <2>1, <2>2
  <1>5. LineLength \in Nat
    BY <1>2, <1>4, ProductNat DEF LineLength
  <1>6. PlaneLength \in Nat
    BY <1>3, <1>5, ProductNat DEF PlaneLength
  <1>7. QED
    BY <1>1, <1>2, <1>3, <1>4, <1>5, <1>6

\* Inside a read the header's geometry does not move.
LEMMA GeometryKept ==
  ASSUME Reader, Busy'
  PROVE  /\ Busy
         /\ UNCHANGED <<head, size, s_lo, s_hi, s_skip, dim, dsize>>
         /\ pc # "data" => UNCHANGED plane /\ pc' # "data"
         /\ pc = "data" => /\ pc' = "p_data" /\ dsize >= 0
                           /\ plane' = LineBytes(head, size) * dim[2]
  BY DEF Reader, AllocateData, AllocateDataFails, AllocatePlane,
         AllocatePlaneFails, ReturnNull, Seek, SeekFails, TakePlaneFromImage,
         ReadChunk, ReadShort, ReadComplete, CheckPlane, CopyLine, NextPlane,
         PlanesDone, ReturnData, Busy, Internal, header, slice, locals

\* A step of the caller other than a call leaves no read running.
LEMMA CallerIdle ==
  ASSUME Caller, ~ReadQubeData
  PROVE  pc' \in {"idle", "closed"}
  BY DEF Caller, Load, SetSliceInHeader, ClearSliceInHeader, DetachData,
         Cleanup

LEMMA ShapeStep == TypeInv /\ Shape /\ [Next]_vars => Shape'
  <1> SUFFICES ASSUME TypeInv, Shape, [Next]_vars, Busy'
               PROVE  Shape'
    BY DEF Shape
  <1>1. CASE ReadQubeData
    <2>1. /\ \A i \in Axis : s_hi'[i] < size'[i]
          /\ \A i \in Axis : dim'[i] = s_hi'[i] - s_lo'[i] + 1
      <3>1. /\ DefaultLo \in [Axis -> Nat] /\ DefaultHi \in [Axis -> Nat]
            /\ DefaultSize \in [Axis -> Nat]
            /\ \A i \in Axis : DefaultHi[i] <= DefaultSize[i]
        BY DefaultsNat DEF TypeInv
      <3>2. /\ s_lo' = [i \in Axis |-> DefaultLo[i] - 1]
            /\ s_hi' = [i \in Axis |-> DefaultHi[i] - 1]
            /\ size' = DefaultSize
            /\ dim' = [i \in Axis |-> DefaultHi[i] - DefaultLo[i] + 1]
        BY <1>1 DEF ReadQubeData, Extent
      <3>3. QED
        BY <3>1, <3>2
    <2>2. dsize' = Items(dim'[1], s_skip'[1]) * Items(dim'[2], s_skip'[2])
                     * Items(dim'[3], s_skip'[3])
      BY <1>1 DEF ReadQubeData, OutputItems
    <2>3. pc' = "data"
      BY <1>1 DEF ReadQubeData
    <2>4. QED
      BY <2>1, <2>2, <2>3 DEF Shape
  <1>2. CASE Reader
    <2>1. CASE pc = "data"
      BY <1>2, <2>1, GeometryKept DEF Shape
    <2>2. CASE pc # "data"
      BY <1>2, <2>2, GeometryKept DEF Shape
    <2>3. QED
      BY <2>1, <2>2
  <1>3. CASE Caller /\ ~ReadQubeData
    BY <1>3, CallerIdle DEF Busy, Internal
  <1>4. CASE UNCHANGED vars
    BY <1>4 DEF Shape, vars, header, slice, locals, Busy, Internal
  <1>5. QED
    BY <1>1, <1>2, <1>3, <1>4 DEF Next

\* The lengths do not move inside a read either.
LEMMA LengthsKept ==
  ASSUME UNCHANGED <<head, s_skip, dim>>
  PROVE  /\ Lines' = Lines /\ Planes' = Planes
         /\ LineLength' = LineLength /\ PlaneLength' = PlaneLength
  BY DEF Lines, Planes, LineLength, PlaneLength, LinePixels

LEMMA ProgressStep == TypeInv /\ Shape /\ Progress /\ [Next]_vars => Progress'
  <1> SUFFICES ASSUME TypeInv, Shape, Progress, [Next]_vars
               PROVE  Progress'
    OBVIOUS
  <1>1. CASE Caller
    <2>1. pc \in {"closed", "idle"} /\ pc' \in {"closed", "idle", "data"}
      BY <1>1 DEF Caller, Load, SetSliceInHeader, ClearSliceInHeader,
         ReadQubeData, DetachData, Cleanup
    <2>2. count' = 0
      BY <1>1, <2>1 DEF Progress, Caller, Load, SetSliceInHeader,
         ClearSliceInHeader, ReadQubeData, DetachData, Cleanup, ForgetLocals,
         locals
    <2>3. QED
      BY <2>1, <2>2 DEF Progress
  <1>2. CASE AllocateDataFails \/ AllocatePlaneFails \/ ReturnData
    <2>1. pc' = "idle" /\ count' = 0
      BY <1>2 DEF AllocateDataFails, AllocatePlaneFails, ReturnNull, ReturnData,
         ForgetLocals
    <2>2. QED
      BY <2>1 DEF Progress
  <1>3. CASE AllocateData
    <2>1. pc' = "p_data" /\ count' = 0
      BY <1>3 DEF AllocateData, Progress
    <2>2. QED
      BY <2>1 DEF Progress
  <1>4. ASSUME Reader, pc \notin {"data", "p_data", "finish"}
        PROVE  /\ Busy /\ dsize >= 0
               /\ Lines' = Lines /\ Planes' = Planes
               /\ LineLength' = LineLength /\ PlaneLength' = PlaneLength
    <2>1. Busy /\ Busy'
      BY <1>4 DEF Reader, AllocateData, AllocateDataFails, AllocatePlane,
         AllocatePlaneFails, ReturnNull, Seek, SeekFails, TakePlaneFromImage,
         ReadChunk, ReadShort, ReadComplete, CheckPlane, CopyLine, NextPlane,
         PlanesDone, ReturnData, Busy, Internal
    <2>2. QED
      BY <1>4, <2>1, GeometryKept, LengthsKept DEF Shape
  <1>5. CASE AllocatePlane
    <2>1. /\ pc = "p_data" /\ pc' = "seek" /\ z' = 0 /\ count' = 0
          /\ UNCHANGED <<head, s_skip, dim>> /\ Busy
      BY <1>5 DEF AllocatePlane, header, slice, Busy, Internal
    <2>2. dsize >= 0
      BY <2>1 DEF Shape
    <2>3. Planes' = Planes /\ PlaneLength' = PlaneLength
      BY <2>1, LengthsKept
    <2>4. Planes \in Nat /\ PlaneLength \in Nat /\ s_skip[3] \in Nat
      BY <2>1, <2>2, LengthsNat, Axes
    <2>5. 0 <= Planes' /\ z' = 0 * s_skip'[3] /\ count' = 0 * PlaneLength'
      BY <2>1, <2>3, <2>4
    <2>6. QED
      BY <2>1, <2>5 DEF Progress
  <1>6. CASE Seek \/ TakePlaneFromImage
    <2>1. /\ pc = "seek" /\ Reader /\ z < dim[3]
          /\ UNCHANGED <<z, count, s_skip>>
      BY <1>6 DEF Seek, TakePlaneFromImage, Reader, header, slice
    <2>2. /\ Busy /\ dsize >= 0 /\ Lines' = Lines /\ Planes' = Planes
          /\ LineLength' = LineLength /\ PlaneLength' = PlaneLength
      BY <1>4, <2>1
    <2>3. PICK k \in Nat : /\ k <= Planes /\ z = k * s_skip[3]
                           /\ count = k * PlaneLength
      BY <2>1 DEF Progress
    <2>4. /\ dim[3] \in Nat /\ s_skip[3] \in Nat \ {0} /\ Planes \in Nat
          /\ Lines \in Nat /\ LineLength \in Nat /\ PlaneLength \in Nat
          /\ s_skip[2] \in Nat
      BY <2>1, <2>2, LengthsNat, Axes
    <2>5. k < Planes
      BY <2>1, <2>3, <2>4, StridesReached DEF Planes
    <2>6. CASE Seek
      <3>1. pc' = "read"
        BY <2>6 DEF Seek
      <3>2. k < Planes' /\ z' = k * s_skip'[3] /\ count' = k * PlaneLength'
        BY <2>1, <2>2, <2>3, <2>5
      <3>3. QED
        BY <3>1, <3>2 DEF Progress
    <2>7. CASE TakePlaneFromImage
      <3>1. pc' = "line" /\ y' = 0
        BY <2>7 DEF TakePlaneFromImage
      <3>2. k * PlaneLength \in Nat
        BY <2>4, ProductNat
      <3>3. /\ k < Planes' /\ z' = k * s_skip'[3] /\ 0 <= Lines'
            /\ y' = 0 * s_skip'[2]
            /\ count' = k * PlaneLength' + 0 * LineLength'
        BY <2>1, <2>2, <2>3, <2>4, <2>5, <3>1, <3>2
      <3>4. QED
        BY <3>1, <3>3 DEF Progress
    <2>8. QED
      BY <1>6, <2>6, <2>7
  <1>7. CASE SeekFails \/ PlanesDone
    <2>1. /\ pc = "seek" /\ pc' = "finish" /\ Reader /\ count' = count
      BY <1>7 DEF SeekFails, PlanesDone, Reader, locals
    <2>2. /\ Busy /\ dsize >= 0 /\ Planes' = Planes
          /\ PlaneLength' = PlaneLength
      BY <1>4, <2>1
    <2>3. PICK k \in Nat : k <= Planes /\ count = k * PlaneLength
      BY <2>1 DEF Progress
    <2>4. Planes \in Nat /\ PlaneLength \in Nat
      BY <2>1, <2>2, LengthsNat
    <2>5. count <= Planes * PlaneLength
      BY <2>3, <2>4, TimesMonotonic
    <2>6. QED
      BY <2>1, <2>2, <2>5 DEF Progress
  <1>8. CASE ReadChunk \/ ReadComplete \/ \E n \in 0..(Chunk - 1) : ReadShort(n)
    <2>1. /\ pc = "read" /\ pc' \in {"read", "check"} /\ Reader
          /\ UNCHANGED <<z, count, s_skip>>
      BY <1>8 DEF ReadChunk, ReadComplete, ReadShort, Reader, header, slice,
         locals
    <2>2. Planes' = Planes /\ PlaneLength' = PlaneLength
      BY <1>4, <2>1
    <2>3. QED
      BY <2>1, <2>2 DEF Progress
  <1>9. CASE CheckPlane
    <2>1. /\ pc = "check" /\ Reader /\ UNCHANGED <<z, count, s_skip>>
      BY <1>9 DEF CheckPlane, Reader, header, slice
    <2>2. /\ Busy /\ dsize >= 0 /\ Lines' = Lines /\ Planes' = Planes
          /\ LineLength' = LineLength /\ PlaneLength' = PlaneLength
      BY <1>4, <2>1
    <2>3. PICK k \in Nat : /\ k < Planes /\ z = k * s_skip[3]
                           /\ count = k * PlaneLength
      BY <2>1 DEF Progress
    <2>4. /\ Planes \in Nat /\ Lines \in Nat /\ LineLength \in Nat
          /\ PlaneLength \in Nat /\ s_skip[2] \in Nat
      BY <2>1, <2>2, LengthsNat, Axes
    <2>5. k * PlaneLength \in Nat
      BY <2>4, ProductNat
    <2>6. CASE pc' = "line" /\ y' = 0
      <3>1. /\ k < Planes' /\ z' = k * s_skip'[3] /\ 0 <= Lines'
            /\ y' = 0 * s_skip'[2]
            /\ count' = k * PlaneLength' + 0 * LineLength'
        BY <2>1, <2>2, <2>3, <2>4, <2>5, <2>6
      <3>2. QED
        BY <2>6, <3>1 DEF Progress
    <2>7. CASE pc' = "finish"
      <3>1. count <= Planes * PlaneLength
        BY <2>3, <2>4, TimesMonotonic
      <3>2. QED
        BY <2>1, <2>2, <2>7, <3>1 DEF Progress
    <2>8. QED
      BY <1>9, <2>6, <2>7 DEF CheckPlane
  <1>10. CASE CopyLine
    <2>1. /\ pc = "line" /\ pc' = "line" /\ Reader /\ y < dim[2]
          /\ UNCHANGED <<z, s_skip>> /\ y' = y + s_skip[2]
          /\ count' = count + LineLength
      BY <1>10 DEF CopyLine, Reader, header, slice, LineLength
    <2>2. /\ Busy /\ dsize >= 0 /\ Lines' = Lines /\ Planes' = Planes
          /\ LineLength' = LineLength /\ PlaneLength' = PlaneLength
      BY <1>4, <2>1
    <2>3. PICK k, j \in Nat : /\ k < Planes /\ z = k * s_skip[3]
                              /\ j <= Lines /\ y = j * s_skip[2]
                              /\ count = k * PlaneLength + j * LineLength
      BY <2>1 DEF Progress
    <2>4. /\ Lines \in Nat /\ LineLength \in Nat /\ PlaneLength \in Nat
          /\ s_skip[2] \in Nat \ {0} /\ dim[2] \in Nat
      BY <2>1, <2>2, LengthsNat, Axes
    <2>5. j + 1 <= Lines
      BY <2>1, <2>3, <2>4, StridesReached DEF Lines
    <2>6. /\ j * s_skip[2] \in Nat /\ j * LineLength \in Nat
          /\ k * PlaneLength \in Nat
      BY <2>4, ProductNat
    <2>7. /\ (j + 1) * s_skip[2] = j * s_skip[2] + s_skip[2]
          /\ (j + 1) * LineLength = j * LineLength + LineLength
      BY <2>4
    <2>8. /\ y' = (j + 1) * s_skip[2]
          /\ count' = k * PlaneLength + (j + 1) * LineLength
      BY <2>1, <2>3, <2>4, <2>6, <2>7
    <2>9. j + 1 \in Nat
      OBVIOUS
    <2>10. QED
      BY <2>1, <2>2, <2>3, <2>5, <2>8, <2>9 DEF Progress
  <1>11. CASE NextPlane
    <2>1. /\ pc = "line" /\ pc' = "seek" /\ Reader /\ y >= dim[2]
          /\ UNCHANGED <<count, s_skip>> /\ z' = z + s_skip[3]
      BY <1>11 DEF NextPlane, Reader, header, slice
    <2>2. /\ Busy /\ dsize >= 0 /\ Planes' = Planes
          /\ PlaneLength' = PlaneLength
      BY <1>4, <2>1
    <2>3. PICK k, j \in Nat : /\ k < Planes /\ z = k * s_skip[3]
                              /\ j <= Lines /\ y = j * s_skip[2]
                              /\ count = k * PlaneLength + j * LineLength
      BY <2>1 DEF Progress
    <2>4. /\ Lines \in Nat /\ LineLength \in Nat /\ PlaneLength \in Nat
          /\ s_skip[2] \in Nat \ {0} /\ s_skip[3] \in Nat /\ dim[2] \in Nat
          /\ Planes \in Nat
      BY <2>1, <2>2, LengthsNat, Axes
    <2>5. j = Lines
      <3>1. j >= Lines
        BY <2>1, <2>3, <2>4, StridesReached DEF Lines
      <3>2. QED
        BY <2>3, <2>4, <3>1
    <2>6. count = k * PlaneLength + PlaneLength
      BY <2>3, <2>5 DEF PlaneLength
    <2>7. /\ (k + 1) * s_skip[3] = k * s_skip[3] + s_skip[3]
          /\ (k + 1) * PlaneLength = k * PlaneLength + PlaneLength
      BY <2>4
    <2>8. /\ k + 1 \in Nat /\ k + 1 <= Planes
          /\ z' = (k + 1) * s_skip[3] /\ count' = (k + 1) * PlaneLength
      BY <2>1, <2>3, <2>4, <2>6, <2>7
    <2>9. QED
      BY <2>1, <2>2, <2>8 DEF Progress
  <1>12. CASE UNCHANGED vars
    <2>1. /\ UNCHANGED <<pc, z, y, count, s_skip>>
          /\ UNCHANGED <<head, s_skip, dim>>
      BY <1>12 DEF vars, header, slice, locals
    <2>2. /\ Lines' = Lines /\ Planes' = Planes
          /\ LineLength' = LineLength /\ PlaneLength' = PlaneLength
      BY <2>1, LengthsKept
    <2>3. QED
      BY <2>1, <2>2 DEF Progress
  <1>13. QED
    BY <1>1, <1>2, <1>3, <1>5, <1>6, <1>7, <1>8, <1>9, <1>10, <1>11, <1>12
    DEF Next, Reader

\* The whole output of a read fits the block allocated for it.
LEMMA WholeOutputFits ==
  ASSUME TypeInv, Shape, Busy, pc # "data"
  PROVE  /\ Planes * PlaneLength \in Nat
         /\ Planes * PlaneLength <= dsize * head.nbytes
  <1> DEFINE I1 == Items(dim[1], s_skip[1])
             I2 == Items(dim[2], s_skip[2])
             I3 == Items(dim[3], s_skip[3])
             nb == head.nbytes
  <1>1. dsize >= 0 /\ dsize = I1 * I2 * I3
    BY DEF Shape
  <1>2. /\ dim[1] \in Nat /\ dim[2] \in Nat /\ dim[3] \in Nat
        /\ s_skip[1] \in Nat \ {0} /\ s_skip[2] \in Nat \ {0}
        /\ s_skip[3] \in Nat \ {0}
        /\ nb \in Nat /\ LinePixels \in Nat /\ Lines \in Nat
        /\ Planes \in Nat /\ LineLength \in Nat /\ PlaneLength \in Nat
        /\ LinePixels <= I1
    BY <1>1, LengthsNat, Axes
  <1>3. /\ I1 \in Nat /\ I2 \in Nat /\ I3 \in Nat
        /\ Lines <= I2 /\ Planes <= I3
    BY <1>2, StridesFitItems DEF Lines, Planes
  <1> HIDE DEF I1, I2, I3, nb
  <1>4. LineLength <= I1 * nb /\ I1 * nb \in Nat
    BY <1>2, <1>3, TimesMonotonic, ProductNat DEF LineLength, nb
  <1>5. PlaneLength <= I2 * (I1 * nb) /\ I2 * (I1 * nb) \in Nat
    <2>1. Lines * LineLength <= I2 * LineLength
      BY <1>2, <1>3, TimesMonotonic
    <2>2. LineLength * I2 <= (I1 * nb) * I2
      BY <1>2, <1>3, <1>4, TimesMonotonic
    <2>3. /\ LineLength * I2 = I2 * LineLength
          /\ (I1 * nb) * I2 = I2 * (I1 * nb)
      BY <1>2, <1>3, <1>4
    <2>4. /\ I2 * (I1 * nb) \in Nat /\ I2 * LineLength \in Nat
          /\ Lines * LineLength \in Nat
      BY <1>2, <1>3, <1>4, ProductNat
    <2>5. QED
      BY <2>1, <2>2, <2>3, <2>4 DEF PlaneLength
  <1>6. /\ Planes * PlaneLength <= I3 * (I2 * (I1 * nb))
        /\ Planes * PlaneLength \in Nat
    <2>1. Planes * PlaneLength <= I3 * PlaneLength
      BY <1>2, <1>3, TimesMonotonic
    <2>2. PlaneLength * I3 <= (I2 * (I1 * nb)) * I3
      BY <1>2, <1>3, <1>5, TimesMonotonic
    <2>3. /\ PlaneLength * I3 = I3 * PlaneLength
          /\ (I2 * (I1 * nb)) * I3 = I3 * (I2 * (I1 * nb))
      BY <1>2, <1>3, <1>5
    <2>4. /\ I3 * (I2 * (I1 * nb)) \in Nat /\ I3 * PlaneLength \in Nat
          /\ Planes * PlaneLength \in Nat
      BY <1>2, <1>3, <1>5, ProductNat
    <2>5. QED
      BY <2>1, <2>2, <2>3, <2>4
  <1>7. I3 * (I2 * (I1 * nb)) = (I1 * I2 * I3) * nb
    BY <1>2, <1>3
  <1>8. QED
    BY <1>1, <1>6, <1>7 DEF nb

LEMMA OutputBounded == TypeInv /\ Shape /\ Progress => OutputFits
  <1> SUFFICES ASSUME TypeInv, Shape, Progress, Busy, pc # "data"
               PROVE  count <= dsize * head.nbytes
    BY DEF OutputFits
  <1>1. dsize >= 0
    BY DEF Shape
  <1>2. /\ Lines \in Nat /\ Planes \in Nat /\ LineLength \in Nat
        /\ PlaneLength \in Nat /\ dsize * head.nbytes \in Nat
        /\ Planes * PlaneLength \in Nat
        /\ Planes * PlaneLength <= dsize * head.nbytes
    <2>1. dsize \in Nat
      BY <1>1 DEF TypeInv, TypeOK
    <2>2. head.nbytes \in Nat
      BY <1>1, LengthsNat
    <2>3. dsize * head.nbytes \in Nat
      BY <2>1, <2>2, ProductNat
    <2>4. QED
      BY <1>1, <2>3, LengthsNat, WholeOutputFits
  <1>3. CASE pc = "p_data"
    BY <1>2, <1>3 DEF Progress
  <1>4. CASE pc \in {"seek", "read", "check"}
    <2>1. PICK k \in Nat : k <= Planes /\ count = k * PlaneLength
      BY <1>2, <1>4 DEF Progress
    <2>2. k * PlaneLength <= Planes * PlaneLength /\ k * PlaneLength \in Nat
      BY <1>2, <2>1, TimesMonotonic, ProductNat
    <2>3. QED
      BY <1>2, <2>1, <2>2
  <1>5. CASE pc = "line"
    <2>1. PICK k, j \in Nat : /\ k < Planes /\ j <= Lines
                              /\ count = k * PlaneLength + j * LineLength
      BY <1>5 DEF Progress
    <2>2. j * LineLength <= PlaneLength /\ j * LineLength \in Nat
      BY <1>2, <2>1, TimesMonotonic, ProductNat DEF PlaneLength
    <2>3. (k + 1) * PlaneLength = k * PlaneLength + PlaneLength
      BY <1>2
    <2>4. /\ (k + 1) * PlaneLength <= Planes * PlaneLength
          /\ (k + 1) * PlaneLength \in Nat /\ k * PlaneLength \in Nat
      <3>1. k + 1 \in Nat /\ k + 1 <= Planes
        BY <1>2, <2>1
      <3>2. QED
        BY <1>2, <3>1, TimesMonotonic, ProductNat
    <2>5. QED
      BY <1>2, <2>1, <2>2, <2>3, <2>4
  <1>6. CASE pc = "finish"
    <2>1. count <= Planes * PlaneLength /\ count \in Nat
      BY <1>6 DEF Progress, TypeInv, TypeOK
    <2>2. QED
      BY <1>2, <2>1
  <1>7. QED
    BY <1>3, <1>4, <1>5, <1>6 DEF Busy, Internal

\* The geometry and the loop counts hold of every reachable state.
LEMMA ReaderInvariant == Spec => [](TypeInv /\ Shape /\ Progress)
  <1>1. Init => Shape /\ Progress
    BY DEF Init, Shape, Progress, Busy, Internal
  <1>2. QED
    BY <1>1, TypeInvInit, TypeInvStep, ShapeStep, ProgressStep, PTL DEF Spec

\* For every header, slice and stride, and wherever the read is broken off, no
\* memcpy goes past the end of the block the read returns.
THEOREM OutputFitsThm == Spec => []OutputFits
  BY ReaderInvariant, OutputBounded, PTL

-----------------------------------------------------------------------------
(* The lines copied lie in the plane read. *)

LEMMA LineBounded == TypeInv /\ Shape => LineInsidePlane
  <1> SUFFICES ASSUME TypeInv, Shape, pc = "line", y < dim[2],
                      NEW x \in 1..LinePixels
               PROVE  LineStart + (x - 1) * s_skip[1] * head.nbytes
                        + head.nbytes <= plane
    BY DEF LineInsidePlane
  <1> DEFINE nb == head.nbytes
             L == LineBytes(head, size)
             c == s_lo[1] + (x - 1) * s_skip[1]
  <1>1. Busy /\ pc # "data"
    BY DEF Busy, Internal
  <1>2. /\ dsize >= 0 /\ plane = L * dim[2]
        /\ dim[1] = s_hi[1] - s_lo[1] + 1 /\ s_hi[1] < size[1]
    BY <1>1, Axes DEF Shape
  <1>3. /\ dim[1] \in Nat /\ dim[2] \in Nat /\ s_skip[1] \in Nat \ {0}
        /\ nb \in Nat /\ LinePixels \in Nat
    BY <1>1, <1>2, LengthsNat, Axes
  <1>4. /\ size[1] \in Nat /\ s_lo[1] \in Nat /\ s_hi[1] \in Nat /\ y \in Nat
        /\ head.prefix[1] \in Nat /\ head.suffix[1] \in Nat /\ L \in Nat
    BY Axes, LineBytesNat, HeadersAssumption DEF TypeInv, TypeOK, CubeHeader
  <1>5. (x - 1) * s_skip[1] <= dim[1] - 1 /\ (x - 1) * s_skip[1] \in Nat
    <2>1. x - 1 \in Nat /\ x <= LinePixels /\ (x - 1) * s_skip[1] \in Nat
      <3>1. x - 1 \in Nat /\ x <= LinePixels
        BY <1>3
      <3>2. QED
        BY <1>3, <3>1, ProductNat
    <2>2. CASE s_skip[1] = 1
      BY <1>3, <2>1, <2>2 DEF LinePixels
    <2>3. CASE s_skip[1] # 1
      <3>1. x <= Strides(dim[1], s_skip[1])
        BY <2>1, <2>3 DEF LinePixels
      <3>2. ~((x - 1) * s_skip[1] >= dim[1])
        <4>1. (x - 1) * s_skip[1] >= dim[1]
                => x - 1 >= Strides(dim[1], s_skip[1])
          BY <1>3, <2>1, StridesReached
        <4>2. Strides(dim[1], s_skip[1]) \in Nat
          BY <1>3, StridesFitItems
        <4>3. QED
          BY <1>3, <3>1, <4>1, <4>2
      <3>3. QED
        BY <1>3, <2>1, <3>2
    <2>4. QED
      BY <2>2, <2>3
  <1>6. c + 1 <= size[1] /\ c \in Nat
    BY <1>2, <1>3, <1>4, <1>5
  <1>7. (c + 1) * nb <= size[1] * nb /\ (c + 1) * nb \in Nat
        /\ size[1] * nb \in Nat
    BY <1>3, <1>4, <1>6, TimesMonotonic, ProductNat
  <1>8. (c + 1) * nb = s_lo[1] * nb + (x - 1) * s_skip[1] * nb + nb
    BY <1>3, <1>4, <1>5
  <1>9. L = size[1] * nb + head.suffix[1] + head.prefix[1]
    BY DEF LineBytes
  <1>10. y * L + L <= L * dim[2] /\ y * L \in Nat /\ L * dim[2] \in Nat
    <2>1. y + 1 \in Nat /\ y + 1 <= dim[2]
      BY <1>3, <1>4
    <2>2. (y + 1) * L <= dim[2] * L
      BY <1>3, <1>4, <2>1, TimesMonotonic
    <2>3. QED
      BY <1>3, <1>4, <2>2, ProductNat
  <1>11. s_lo[1] * nb \in Nat /\ (x - 1) * s_skip[1] * nb \in Nat
    BY <1>3, <1>4, <1>5, ProductNat
  <1>12. head.prefix[1] + s_lo[1] * nb + (x - 1) * s_skip[1] * nb + nb <= L
    BY <1>3, <1>4, <1>7, <1>8, <1>9, <1>11
  <1>13. LineStart = head.prefix[1] + s_lo[1] * nb + y * L
    BY DEF LineStart
  <1>14. /\ head.prefix[1] \in Nat /\ s_lo[1] * nb \in Nat /\ y * L \in Nat
         /\ (x - 1) * s_skip[1] * nb \in Nat /\ nb \in Nat /\ L \in Nat
         /\ L * dim[2] \in Nat
    BY <1>3, <1>4, <1>10, <1>11
  <1>15. \A p, a, b, n, v, l, q \in Nat :
           p + a + b + n <= l /\ v + l <= q => p + a + v + b + n <= q
    OBVIOUS
  <1> HIDE DEF nb, L
  <1>16. LineStart + (x - 1) * s_skip[1] * nb + nb <= L * dim[2]
    BY <1>10, <1>12, <1>13, <1>14, <1>15
  <1>17. QED
    BY <1>2, <1>16 DEF nb

\* For every layout of lines, prefixes and suffixes, the pixels copied out of
\* p_data lie inside the lines that were read into it.
THEOREM LineInsidePlaneThm == Spec => []LineInsidePlane
  BY ReaderInvariant, LineBounded, PTL

-----------------------------------------------------------------------------
(* What a read has left to do: ReadReturns follows from each of its steps  *)
(* leaving less, for a tuple of naturals only gets smaller so many times.  *)

\* What a loop from `from' on has left below n.
Rest(n, from) == IF from < n THEN n - from ELSE 0

Stage ==
  CASE pc = "data" -> 4
    [] pc = "p_data" -> 3
    [] pc \in {"seek", "read", "check", "line"} -> 2
    [] pc = "finish" -> 1
    [] OTHER -> 0

\* The place in the loop over the planes.
Place ==
  CASE pc = "seek" -> 3 [] pc = "read" -> 2 [] pc = "check" -> 1 [] OTHER -> 0

PlanesLeft == IF Stage = 2 THEN Rest(dim[3], z) ELSE 0

\* The bytes left to read of a plane, or the lines left to copy.
PieceLeft ==
  CASE pc = "read" -> Rest(plane, nread)
    [] pc = "line" -> Rest(dim[2], y)
    [] OTHER -> 0

WorkLeft == <<Stage, PlanesLeft, Place, PieceLeft>>

Tuples == Nat \X Nat \X Nat \X Nat

\* The order of a dictionary.
Less(a, b) ==
  \/ a[1] < b[1]
  \/ /\ a[1] = b[1]
     /\ \/ a[2] < b[2]
        \/ /\ a[2] = b[2]
           /\ \/ a[3] < b[3]
              \/ a[3] = b[3] /\ a[4] < b[4]

LEMMA WorkCounted == ASSUME TypeInv PROVE WorkLeft \in Tuples
<1>1. /\ dim[3] \in Int /\ dim[2] \in Int /\ z \in Nat /\ y \in Nat
      /\ plane \in Nat /\ nread \in Nat
  BY Axes DEF TypeInv, TypeOK
<1>2. \A n \in Int, k \in Nat : Rest(n, k) \in Nat
  BY DEF Rest
<1>3. Stage \in Nat /\ Place \in Nat
  BY DEF Stage, Place
<1>4. PlanesLeft \in Nat /\ PieceLeft \in Nat
  BY <1>1, <1>2 DEF PlanesLeft, PieceLeft
<1> QED BY <1>3, <1>4 DEF WorkLeft, Tuples

\* A plane that is being copied is one of the slice's: there is one less to go
\* after it.
LEMMA PlaneToGo ==
  ASSUME TypeInv, Shape, Progress, pc = "line"
  PROVE  /\ z < dim[3] /\ z \in Nat /\ dim[3] \in Nat /\ dim[2] \in Nat
         /\ y \in Nat /\ s_skip[2] \in Nat \ {0} /\ s_skip[3] \in Nat \ {0}
<1>1. /\ Busy /\ pc # "data" /\ dsize >= 0
  BY DEF Busy, Internal, Shape
<1>2. /\ dim[3] \in Nat /\ dim[2] \in Nat
      /\ s_skip[2] \in Nat \ {0} /\ s_skip[3] \in Nat \ {0}
  BY <1>1, LengthsNat, Axes
<1>3. PICK k \in Nat : k < Planes /\ z = k * s_skip[3]
  BY DEF Progress
<1>4. z \in Nat /\ y \in Nat
  BY DEF TypeInv, TypeOK
<1>5. Planes \in Nat /\ (z >= dim[3] => k >= Planes)
  BY <1>1, <1>2, <1>3, LengthsNat, StridesReached DEF Planes
<1>6. z < dim[3]
  BY <1>2, <1>3, <1>4, <1>5
<1> QED BY <1>2, <1>4, <1>6

\* The steps that leave the loops, or go on within one plane.
LEMMA StageForward ==
  ASSUME \/ AllocateData \/ AllocateDataFails
         \/ AllocatePlane \/ AllocatePlaneFails
         \/ SeekFails \/ PlanesDone \/ ReturnData
  PROVE  Stage' < Stage
BY DEF AllocateData, AllocateDataFails, AllocatePlane, AllocatePlaneFails,
   SeekFails, PlanesDone, ReturnData, ReturnNull, Stage

LEMMA PlaceForward ==
  ASSUME \/ Seek \/ TakePlaneFromImage
         \/ \E n \in 0..(Chunk - 1) : ReadShort(n)
         \/ ReadComplete \/ CheckPlane
  PROVE  \/ Stage' < Stage
         \/ Stage' = Stage /\ PlanesLeft' = PlanesLeft /\ Place' < Place
<1>1. CASE pc' = "finish"
  BY <1>1 DEF Stage, Seek, TakePlaneFromImage, ReadShort, ReadComplete,
     CheckPlane
<1>2. CASE pc' # "finish"
  <2>1. /\ UNCHANGED <<dim, z>>
        /\ pc \in {"seek", "read", "check"}
        /\ pc' \in {"read", "check", "line"}
        /\ pc = "read" => pc' = "check"
        /\ pc = "check" => pc' = "line"
    BY <1>2 DEF Seek, TakePlaneFromImage, ReadShort, ReadComplete, CheckPlane,
       header, locals
  <2>2. Stage' = 2 /\ Stage = 2
    BY <2>1 DEF Stage
  <2>3. PlanesLeft' = PlanesLeft
    BY <2>1, <2>2 DEF PlanesLeft, Rest
  <2>4. Place' < Place
    BY <2>1 DEF Place
  <2> QED BY <2>2, <2>3, <2>4
<1> QED BY <1>1, <1>2

\* Every round of read_fully, of the loop over the lines and of the loop over
\* the planes.
LEMMA LoopForward ==
  ASSUME TypeInv, Shape, Progress, ReadChunk \/ CopyLine \/ NextPlane
  PROVE  Less(WorkLeft', WorkLeft)
<1>1. CASE ReadChunk
  <2>1. /\ pc = "read" /\ pc' = "read" /\ UNCHANGED <<dim, z, plane>>
        /\ Chunk > 0 /\ nread' = nread + Chunk
    BY <1>1 DEF ReadChunk, header
  <2>2. plane \in Nat /\ nread \in Nat
    BY DEF TypeInv, TypeOK
  <2>3. Chunk \in Nat /\ Chunk <= plane - nread /\ nread < plane
    BY <2>1, <2>2, MaxSingleReadSizeAssumption DEF Chunk
  <2>4. PieceLeft = plane - nread /\ PieceLeft' = Rest(plane, nread + Chunk)
    BY <2>1, <2>2, <2>3 DEF PieceLeft, Rest
  <2>5. PieceLeft' < PieceLeft
    BY <2>1, <2>2, <2>3, <2>4 DEF Rest
  <2>6. Stage' = Stage /\ Place' = Place /\ PlanesLeft' = PlanesLeft
    BY <2>1 DEF Stage, Place, PlanesLeft, Rest
  <2> QED BY <2>5, <2>6 DEF Less, WorkLeft
<1>2. CASE CopyLine
  <2>1. /\ pc = "line" /\ pc' = "line" /\ UNCHANGED <<dim, z>>
        /\ y < dim[2] /\ y' = y + s_skip[2]
    BY <1>2 DEF CopyLine, header
  <2>2. /\ dim[2] \in Nat /\ y \in Nat /\ s_skip[2] \in Nat \ {0}
    BY <2>1, PlaneToGo
  <2>3. PieceLeft = dim[2] - y /\ PieceLeft' = Rest(dim[2], y + s_skip[2])
    BY <2>1, <2>2 DEF PieceLeft, Rest
  <2>4. PieceLeft' < PieceLeft
    BY <2>1, <2>2, <2>3 DEF Rest
  <2>5. Stage' = Stage /\ Place' = Place /\ PlanesLeft' = PlanesLeft
    BY <2>1 DEF Stage, Place, PlanesLeft, Rest
  <2> QED BY <2>4, <2>5 DEF Less, WorkLeft
<1>3. CASE NextPlane
  <2>1. /\ pc = "line" /\ pc' = "seek" /\ UNCHANGED dim
        /\ z' = z + s_skip[3]
    BY <1>3 DEF NextPlane, header
  <2>2. /\ z < dim[3] /\ z \in Nat /\ dim[3] \in Nat
        /\ s_skip[3] \in Nat \ {0}
    BY <2>1, PlaneToGo
  <2>3. Stage' = 2 /\ Stage = 2
    BY <2>1 DEF Stage
  <2>4. PlanesLeft = dim[3] - z /\ PlanesLeft' = Rest(dim[3], z + s_skip[3])
    BY <2>1, <2>2, <2>3 DEF PlanesLeft, Rest
  <2>5. PlanesLeft' < PlanesLeft
    BY <2>1, <2>2, <2>4 DEF Rest
  <2> QED BY <2>3, <2>5 DEF Less, WorkLeft
<1> QED BY <1>1, <1>2, <1>3

LEMMA ReaderForward ==
  ASSUME TypeInv, Shape, Progress, Reader
  PROVE  Less(WorkLeft', WorkLeft)
<1>1. CASE Stage' < Stage
  BY <1>1 DEF Less, WorkLeft
<1>2. CASE Stage' = Stage /\ PlanesLeft' = PlanesLeft /\ Place' < Place
  BY <1>2 DEF Less, WorkLeft
<1>3. CASE ReadChunk \/ CopyLine \/ NextPlane
  BY <1>3, LoopForward
<1> QED BY <1>1, <1>2, <1>3, StageForward, PlaceForward DEF Reader

\* Every step of a read leaves less to do than there was, whatever fails in it
\* and however large the cube, the slice and a single read are: no retry, no
\* stride and no short read sends a loop back (iomedley.c:536-603).
THEOREM ReadsGoForward ==
  Spec => []( WorkLeft \in Tuples ) /\ [][Reader => Less(WorkLeft', WorkLeft)]_vars
<1>1. TypeInv => WorkLeft \in Tuples
  BY WorkCounted
<1>2. TypeInv /\ Shape /\ Progress /\ [Next]_vars
        => [Reader => Less(WorkLeft', WorkLeft)]_vars
  BY ReaderForward
<1> QED BY <1>1, <1>2, ReaderInvariant, PTL DEF Spec

-----------------------------------------------------------------------------
(* Induction. *)

\* A set of numbers has a least one: the induction of the lemmas on loops
\* over the lines and planes of a file is from a least counterexample.
LEMMA LeastNat ==
  ASSUME NEW N \in SUBSET Nat, N # {}
  PROVE  \E n \in N : \A m \in N : n <= m
<1> DEFINE T == {1..n : n \in N}
<1>1. IsWellFoundedOn(StrictSubsetOrdering(Nat), FiniteSubsetsOf(Nat))
  BY FS_StrictSubsetOrderingWellFounded
<1>2. T \subseteq FiniteSubsetsOf(Nat) /\ T # {}
  <2>1. ASSUME NEW n \in N PROVE 1..n \in FiniteSubsetsOf(Nat)
    BY FS_Interval DEF FiniteSubsetsOf
  <2> QED BY <2>1
<1>3. PICK t \in T : \A u \in T : ~(<<u, t>> \in StrictSubsetOrdering(Nat))
  <2> HIDE DEF T
  <2> QED BY <1>1, <1>2, WFMin
<1>4. PICK n \in N : t = 1..n
  BY <1>3
<1>5. ASSUME NEW m \in N, m < n PROVE FALSE
  <2>1. /\ 1..m \in SUBSET Nat /\ 1..n \in SUBSET Nat
        /\ 1..m \subseteq 1..n /\ n \in 1..n /\ n \notin 1..m
    BY <1>5
  <2>2. <<1..m, 1..n>> \in StrictSubsetOrdering(Nat)
    BY <2>1 DEF StrictSubsetOrdering
  <2> QED BY <1>3, <1>4, <2>2
<1> QED BY <1>5

-----------------------------------------------------------------------------
(* Parts of one length, one after the other. *)

\* A product of naturals grows with either.
LEMMA TimesMonotone ==
  ASSUME NEW s \in Nat, NEW a \in Int, NEW b \in Int, a <= b
  PROVE s * a <= s * b
<1>1. s * (b - a) >= 0
  OBVIOUS
<1>2. s * (b - a) = s * b - s * a
  OBVIOUS
<1> QED BY <1>1, <1>2

\* A digit and the rest are what division finds.
LEMMA DivMod ==
  ASSUME NEW s \in Nat \ {0}, NEW r \in 0..(s - 1), NEW q \in Nat
  PROVE /\ (r + s * q) % s = r
        /\ (r + s * q) \div s = q
OBVIOUS

\* Three digits, the first two of which are below s and t.
LEMMA Digits ==
  ASSUME NEW s \in Nat \ {0}, NEW t \in Nat \ {0},
         NEW a \in 0..(s - 1), NEW b \in 0..(t - 1), NEW c \in Nat
  PROVE /\ (a + s * (b + c * t)) % s = a
        /\ ((a + s * (b + c * t)) \div s) % t = b
        /\ (a + s * (b + c * t)) \div (s * t) = c
<1>1. c * t \in Nat /\ c * t = t * c
  OBVIOUS
<1>2. (a + s * (b + c * t)) % s = a /\ (a + s * (b + c * t)) \div s = b + c * t
  BY <1>1, DivMod
<1>3. (b + c * t) % t = b
  BY <1>1, DivMod
<1>4. s * t \in Nat \ {0} /\ s * b \in Nat
  OBVIOUS
<1>5. s * b <= s * (t - 1)
  BY TimesMonotone
<1>6. s * (t - 1) = s * t - s
  OBVIOUS
<1>7. a + s * b \in 0..(s * t - 1)
  BY <1>4, <1>5, <1>6
<1>8. a + s * (b + c * t) = (a + s * b) + (s * t) * c
  <2>1. s * (b + c * t) = s * b + s * (c * t)
    BY <1>1
  <2>2. s * (c * t) = (s * t) * c
    OBVIOUS
  <2> QED BY <2>1, <2>2, <1>1, <1>4
<1>9. ((a + s * b) + (s * t) * c) \div (s * t) = c
  BY <1>4, <1>7, DivMod
<1> QED BY <1>2, <1>3, <1>8, <1>9


\* Every number is so many whole parts and a rest.
LEMMA PartAndRest ==
  ASSUME NEW n \in Nat \ {0}, NEW p \in Nat
  PROVE  /\ p \div n \in Nat /\ p % n \in 0..(n - 1)
         /\ p = (p % n) + n * (p \div n)
  <1>1. p \div n \in Nat
    OBVIOUS
  <1>2. p % n \in 0..(n - 1)
    OBVIOUS
  <1>3. p = (p % n) + n * (p \div n)
    OBVIOUS
  <1> QED BY <1>1, <1>2, <1>3

\* The sequence of parts s[1..i], each of length n, element by element.
Run(s, n, i) == [p \in 1..(i * n) |-> s[(p - 1) \div n + 1][((p - 1) % n) + 1]]

\* p is the place of element r of part k, of i parts of length n.
Placed(p, n, i, k, r) ==
  /\ k \in 1..i /\ r \in 1..n /\ p \in 1..(i * n)
  /\ p = (k - 1) * n + r
  /\ (p - 1) \div n + 1 = k /\ ((p - 1) % n) + 1 = r

\* An element of a part has one place.
LEMMA Places ==
  ASSUME NEW n \in Nat \ {0}, NEW i \in Nat, NEW k \in 1..i, NEW r \in 1..n,
         NEW p, p = (k - 1) * n + r
  PROVE  Placed(p, n, i, k, r)
  <1>1. /\ k - 1 \in Nat /\ r - 1 \in 0..(n - 1) /\ k \in Nat /\ r \in Nat
        /\ (k - 1) * n \in Nat /\ i * n \in Nat /\ k * n \in Nat
    BY ProductNat
  <1>2. (k - 1) * n + n = k * n
    BY <1>1
  <1>3. k * n <= i * n
    BY TimesMonotonic
  <1>4. p \in 1..(i * n)
    BY <1>1, <1>2, <1>3
  <1>5. PICK a \in Nat, b \in 0..(n - 1) : a = k - 1 /\ b = r - 1
    BY <1>1
  <1>6. p - 1 = b + n * a
    BY <1>1, <1>5
  <1>7. (b + n * a) \div n = a /\ (b + n * a) % n = b
    BY DivMod
  <1>8. a + 1 = k /\ b + 1 = r
    BY <1>1, <1>5
  <1> QED BY <1>4, <1>6, <1>7, <1>8 DEF Placed

\* Every place is one of a part.
LEMMA PlaceIn ==
  ASSUME NEW n \in Nat \ {0}, NEW i \in Nat, NEW p \in 1..(i * n)
  PROVE  \E k, r : Placed(p, n, i, k, r)
  <1> DEFINE k == (p - 1) \div n
             r == (p - 1) % n
  <1>1. p - 1 \in Nat /\ i * n \in Nat
    BY ProductNat
  <1>2. k \in Nat /\ r \in 0..(n - 1) /\ p - 1 = r + n * k
    BY <1>1, PartAndRest
  <1> HIDE DEF k, r
  <1>3. k * n \in Nat /\ n * k = k * n
    BY <1>2, ProductNat
  <1>4. k < i
    <2>1. SUFFICES ASSUME k >= i PROVE FALSE
      BY <1>2
    <2>2. i * n <= k * n
      BY <1>2, <2>1, TimesMonotonic
    <2> QED BY <1>1, <1>2, <1>3, <2>2
  <1>5. /\ k + 1 \in 1..i /\ r + 1 \in 1..n
        /\ p = ((k + 1) - 1) * n + (r + 1)
    BY <1>2, <1>3, <1>4
  <1>6. Placed(p, n, i, k + 1, r + 1)
    BY <1>5, Places
  <1> QED BY <1>6

\* The run has at a place the element that is placed there.
LEMMA RunElement ==
  ASSUME NEW s, NEW n, NEW i, NEW k, NEW r, NEW p, Placed(p, n, i, k, r)
  PROVE  Run(s, n, i)[p] = s[k][r]
  BY DEF Run, Placed

\* N parts of S, each of length n.
Parts(S, n, N, s) == \A k \in 1..N : s[k] \in Seq(S) /\ Len(s[k]) = n

\* The run is a sequence.
LEMMA RunSeq ==
  ASSUME NEW S, NEW n \in Nat \ {0}, NEW N \in Nat, NEW s, Parts(S, n, N, s),
         NEW i \in Nat, i <= N
  PROVE  Run(s, n, i) \in Seq(S) /\ Len(Run(s, n, i)) = i * n
  <1>1. i * n \in Nat
    BY ProductNat
  <1>2. ASSUME NEW p \in 1..(i * n)
        PROVE  s[(p - 1) \div n + 1][((p - 1) % n) + 1] \in S
    <2>1. PICK k, r : Placed(p, n, i, k, r)
      BY PlaceIn
    <2>2. k \in 1..N /\ r \in 1..n
      BY <2>1 DEF Placed
    <2>3. s[k] \in Seq(S) /\ Len(s[k]) = n
      BY <2>2 DEF Parts
    <2>4. s[k][r] \in S
      BY <2>2, <2>3, ElementOfSeq
    <2> QED BY <2>1, <2>4 DEF Placed
  <1>3. Run(s, n, i) \in [1..(i * n) -> S]
    BY <1>2 DEF Run
  <1> QED BY <1>1, <1>3

\* t is b behind a, of m and n elements.
Joined(S, a, b, m, n, t) ==
  /\ t \in Seq(S) /\ t = a \o b /\ Len(t) = m + n
  /\ \A p \in 1..(m + n) : t[p] = IF p <= m THEN a[p] ELSE b[p - m]

\* So is what \o gives.
LEMMA JoinedSeq ==
  ASSUME NEW S, NEW a \in Seq(S), NEW b \in Seq(S), NEW m, NEW n,
         Len(a) = m, Len(b) = n
  PROVE  Joined(S, a, b, m, n, a \o b)
BY ConcatProperties DEF Joined

\* Its elements determine it.
LEMMA JoinedLen ==
  ASSUME NEW S, NEW a \in Seq(S), NEW b \in Seq(S)
  PROVE  a \o b \in Seq(S) /\ Len(a \o b) = Len(a) + Len(b)
BY ConcatProperties

\* One part more is the next part behind them.
Grows(s, n, i) ==
  /\ i = 1 => Run(s, n, i) = s[i]
  /\ i # 1 => Run(s, n, i) = Run(s, n, i - 1) \o s[i]

\* A run grows by a part.
LEMMA RunGrows ==
  ASSUME NEW S, NEW n \in Nat \ {0}, NEW N \in Nat, NEW s, Parts(S, n, N, s),
         NEW i \in 1..N
  PROVE  Grows(s, n, i)
  <1>1. /\ s[i] \in Seq(S) /\ Len(s[i]) = n /\ i - 1 \in Nat
        /\ i * n \in Nat /\ (i - 1) * n \in Nat /\ i * n = (i - 1) * n + n
    BY ProductNat DEF Parts
  <1>0. Run(s, n, i) \in Seq(S) /\ Len(Run(s, n, i)) = i * n
    BY RunSeq
  <1>3. CASE i = 1
    <2>1. i * n = n
      BY <1>3
    <2>2. ASSUME NEW p \in 1..n
          PROVE  Run(s, n, i)[p] = s[i][p]
      <3>1. Placed(p, n, i, 1, p)
        <4>1. p = (1 - 1) * n + p /\ 1 \in 1..i
          BY <1>3
        <4> QED BY <4>1, Places
      <3> QED BY <1>3, <3>1, RunElement
    <2>3. Len(Run(s, n, i)) = Len(s[i])
      BY <1>0, <1>1, <2>1
    <2>4. \A p \in 1..Len(Run(s, n, i)) : Run(s, n, i)[p] = s[i][p]
      BY <1>0, <2>1, <2>2
    <2>5. Run(s, n, i) = s[i]
      BY <1>0, <1>1, <2>3, <2>4, SeqEqual, Zenon
    <2> QED BY <1>3, <2>5, Zenon DEF Grows
  <1>4. CASE i > 1
    <2>1. /\ Run(s, n, i - 1) \in Seq(S)
          /\ Len(Run(s, n, i - 1)) = (i - 1) * n
      BY <1>1, RunSeq
    <2>2. PICK t \in Seq(S) :
            /\ t = Run(s, n, i - 1) \o s[i]
            /\ Len(t) = (i - 1) * n + n
            /\ \A p \in 1..((i - 1) * n + n) :
                 t[p] = IF p <= (i - 1) * n THEN Run(s, n, i - 1)[p]
                        ELSE s[i][p - (i - 1) * n]
      <3>1. \E t : Joined(S, Run(s, n, i - 1), s[i], (i - 1) * n, n, t)
        BY <1>1, <2>1, JoinedSeq, Zenon
      <3> QED BY <3>1 DEF Joined
    <2>3. ASSUME NEW p \in 1..(i * n)
          PROVE  Run(s, n, i)[p] = t[p]
      <3>1. PICK k, r : Placed(p, n, i, k, r)
        BY PlaceIn
      <3>2. Run(s, n, i)[p] = s[k][r]
        BY <3>1 DEF Run, Placed
      <3>3. k \in 1..i /\ r \in 1..n /\ p = (k - 1) * n + r
        BY <3>1 DEF Placed
      <3>4. CASE k # i
        <4>1. Placed(p, n, i - 1, k, r)
          <5>1. k \in 1..(i - 1)
            BY <3>3, <3>4
          <5> QED BY <1>1, <3>3, <5>1, Places
        <4>2. Run(s, n, i - 1)[p] = s[k][r]
          BY <4>1 DEF Run, Placed
        <4>3. p <= (i - 1) * n
          BY <4>1 DEF Placed
        <4> QED BY <1>1, <2>2, <3>2, <4>2, <4>3
      <3>5. CASE k = i
        <4>1. ~(p <= (i - 1) * n) /\ p - (i - 1) * n = r
          BY <1>1, <3>3, <3>5
        <4> QED BY <1>1, <2>2, <3>2, <3>5, <4>1
      <3> QED BY <3>4, <3>5
    <2>4. Run(s, n, i) = t
      <3>1. Len(Run(s, n, i)) = Len(t)
        BY <1>0, <1>1, <2>2
      <3>2. \A p \in 1..Len(Run(s, n, i)) : Run(s, n, i)[p] = t[p]
        BY <1>0, <2>3
      <3> QED BY <1>0, <2>2, <3>1, <3>2, SeqEqual
    <2>5. Run(s, n, i) = Run(s, n, i - 1) \o s[i]
      BY <2>2, <2>4
    <2>6. i # 1
      BY <1>4
    <2> QED BY <2>5, <2>6, Zenon DEF Grows
  <1>5. i = 1 \/ i > 1
    OBVIOUS
  <1> QED BY <1>3, <1>4, <1>5, Zenon

\* Flattening parts of one length puts element r of part k in its place.
LEMMA FlattenedParts ==
  ASSUME NEW S, NEW n \in Nat \ {0}, NEW N \in Nat, N > 0, NEW s,
         Parts(S, n, N, s), Len(s) = N
  PROVE  FlattenSeq(s) = Run(s, n, N)
  <1> DEFINE f == CHOOSE f : f = [i \in 1..N |-> IF i = 1 THEN s[i] ELSE f[i - 1] \o s[i]]
             g == [i \in 1..N |-> Run(s, n, i)]
  <1>1. g = [i \in 1..N |-> IF i = 1 THEN s[i] ELSE g[i - 1] \o s[i]]
    <2>1. ASSUME NEW i \in 1..N
          PROVE  g[i] = IF i = 1 THEN s[i] ELSE g[i - 1] \o s[i]
      <3>1. /\ i = 1 => Run(s, n, i) = s[i]
            /\ i # 1 => Run(s, n, i) = Run(s, n, i - 1) \o s[i]
        <4>1. Grows(s, n, i)
          BY RunGrows
        <4> QED BY <4>1, Zenon DEF Grows
      <3>2. i # 1 => g[i - 1] = Run(s, n, i - 1)
        OBVIOUS
      <3> QED BY <3>1, <3>2
    <2> QED BY <2>1
  <1> HIDE DEF g
  <1>2. f = [i \in 1..N |-> IF i = 1 THEN s[i] ELSE f[i - 1] \o s[i]]
    BY <1>1
  <1>3. FlattenSeq(s) = f[N]
    BY DEF FlattenSeq
  <1> HIDE DEF f
  <1>4. ASSUME NEW i \in 1..N, f[i] # g[i]
        PROVE  FALSE
    <2> DEFINE D == {j \in 1..N : f[j] # g[j]}
    <2>0. PICK m \in D : \A j \in D : m <= j
      <3>1. D \in SUBSET Nat /\ D # {}
        BY <1>4
      <3> HIDE DEF D
      <3> QED BY <3>1, LeastNat
    <2>1. m \in 1..N /\ f[m] # g[m] /\ \A j \in 1..N : f[j] # g[j] => m <= j
      BY <2>0
    <2>2. CASE m = 1
      BY <1>1, <1>2, <2>1, <2>2
    <2>3. CASE m # 1
      <3>1. m - 1 \in 1..N /\ m - 1 < m
        BY <2>1, <2>3
      <3>2. f[m - 1] = g[m - 1]
        BY <2>1, <3>1
      <3>3. f[m] = f[m - 1] \o s[m] /\ g[m] = g[m - 1] \o s[m]
        BY <1>1, <1>2, <2>1, <2>3
      <3> QED BY <2>1, <3>2, <3>3
    <2> QED BY <2>2, <2>3
  <1>5. f[N] = g[N]
    BY <1>4
  <1> QED BY <1>3, <1>5 DEF g

-----------------------------------------------------------------------------
(* The bytes of the file, from the meaning of the header. *)

\* A byte of the file: padding, or the first byte of a pixel.
Byte == {<<>>} \cup {<<a, b, c>> : a, b, c \in Nat}

\* Byte p of s, counted from 0, is x.
ByteAt(s, p, x) == p \in 0..(Len(s) - 1) /\ s[p + 1] = x

\* A byte of what is appended, and a byte of what is appended to.
LEMMA ByteBehind ==
  ASSUME NEW S, NEW a \in Seq(S), NEW b \in Seq(S), NEW p, NEW x,
         ByteAt(b, p, x)
  PROVE  ByteAt(a \o b, Len(a) + p, x)
  <1>1. Joined(S, a, b, Len(a), Len(b), a \o b)
    BY JoinedSeq
  <1>2. Len(a) \in Nat /\ Len(b) \in Nat
    BY LenProperties
  <1>3. p \in Nat /\ p + 1 \in 1..Len(b) /\ b[p + 1] = x
    BY <1>2 DEF ByteAt
  <1>4. (Len(a) + p) + 1 \in 1..(Len(a) + Len(b)) /\ ~((Len(a) + p) + 1 <= Len(a))
        /\ ((Len(a) + p) + 1) - Len(a) = p + 1
    BY <1>2, <1>3
  <1>5. (a \o b)[(Len(a) + p) + 1] = x
    BY <1>1, <1>3, <1>4 DEF Joined
  <1>6. Len(a \o b) = Len(a) + Len(b)
    BY <1>1 DEF Joined
  <1> QED BY <1>2, <1>4, <1>5, <1>6 DEF ByteAt

LEMMA ByteBefore ==
  ASSUME NEW S, NEW a \in Seq(S), NEW b \in Seq(S), NEW p, NEW x,
         ByteAt(a, p, x)
  PROVE  ByteAt(a \o b, p, x)
  <1>1. Joined(S, a, b, Len(a), Len(b), a \o b)
    BY JoinedSeq
  <1>2. Len(a) \in Nat /\ Len(b) \in Nat
    BY LenProperties
  <1>3. p \in Nat /\ p + 1 \in 1..Len(a) /\ a[p + 1] = x
    BY <1>2 DEF ByteAt
  <1>5. (a \o b)[p + 1] = x
    BY <1>1, <1>2, <1>3 DEF Joined
  <1>6. Len(a \o b) = Len(a) + Len(b)
    BY <1>1 DEF Joined
  <1> QED BY <1>2, <1>3, <1>5, <1>6 DEF ByteAt

\* The length of parts in a row.
LEMMA FlatSeq ==
  ASSUME NEW S, NEW n \in Nat \ {0}, NEW N \in Nat, N > 0, NEW s,
         Parts(S, n, N, s), Len(s) = N
  PROVE  FlattenSeq(s) \in Seq(S) /\ Len(FlattenSeq(s)) = N * n
  <1>1. FlattenSeq(s) = Run(s, n, N)
    BY FlattenedParts
  <1>2. Run(s, n, N) \in Seq(S) /\ Len(Run(s, n, N)) = N * n
    BY RunSeq
  <1> QED BY <1>1, <1>2

\* A byte of one of the parts.
LEMMA ByteInPart ==
  ASSUME NEW S, NEW n \in Nat \ {0}, NEW N \in Nat, N > 0, NEW s,
         Parts(S, n, N, s), Len(s) = N,
         NEW k \in 0..(N - 1), NEW p, NEW x, ByteAt(s[k + 1], p, x)
  PROVE  ByteAt(FlattenSeq(s), k * n + p, x)
  <1>1. FlattenSeq(s) = Run(s, n, N)
    BY FlattenedParts
  <1>2. Run(s, n, N) \in Seq(S) /\ Len(Run(s, n, N)) = N * n
    BY RunSeq
  <1>3. k + 1 \in 1..N /\ Len(s[k + 1]) = n
    BY DEF Parts
  <1>4. p \in Nat /\ p + 1 \in 1..n /\ s[k + 1][p + 1] = x
    BY <1>3 DEF ByteAt
  <1>5. k \in Nat /\ k * n \in Nat /\ N * n \in Nat
    BY ProductNat
  <1>6. (k * n + p) + 1 = ((k + 1) - 1) * n + (p + 1)
    BY <1>4, <1>5
  <1>7. Placed((k * n + p) + 1, n, N, k + 1, p + 1)
    BY <1>3, <1>4, <1>6, Places
  <1>8. Run(s, n, N)[(k * n + p) + 1] = s[k + 1][p + 1]
    BY <1>7 DEF Run, Placed
  <1>9. (k * n + p) + 1 \in 1..(N * n)
    BY <1>7 DEF Placed
  <1> QED BY <1>1, <1>2, <1>4, <1>5, <1>8, <1>9 DEF ByteAt

\* The cube of a header.
Cube(g) == [i \in Axis |-> CubeItems(g, i)]

\* It has an item along every axis.
LEMMA CubeNat ==
  ASSUME NEW g \in CubeHeader
  PROVE  /\ \A i \in Axis : CubeItems(g, i) \in Nat /\ CubeItems(g, i) > 0
         /\ Cube(g) \in [Axis -> Nat]
         /\ Cube(g)[1] = CubeItems(g, 1) /\ Cube(g)[2] = CubeItems(g, 2)
         /\ Cube(g)[3] = CubeItems(g, 3)
         /\ g.nbytes \in Nat \ {0} /\ g.dptr \in Nat /\ g.corner \in Nat
         /\ g.prefix[1] \in Nat /\ g.suffix[1] \in Nat
         /\ g.prefix[2] \in Nat /\ g.suffix[2] \in Nat
  <1>1. \A i \in Axis : CubeItems(g, i) \in Nat /\ CubeItems(g, i) > 0
    BY DEF CubeHeader, CubeItems
  <1> QED BY <1>1, Axes DEF CubeHeader, Cube

\* Padding and pixels are bytes, so many.
LEMMA PaddingSeq ==
  ASSUME NEW n \in Nat
  PROVE  Padding(n) \in Seq(Byte) /\ Len(Padding(n)) = n
  <1>1. Padding(n) \in [1..n -> Byte]
    BY DEF Padding, Byte
  <1> QED BY <1>1

LEMMA PixelBytesSeq ==
  ASSUME NEW g \in CubeHeader, NEW a \in Nat, NEW b \in Nat, NEW c \in Nat
  PROVE  /\ PixelBytes(g, a, b, c) \in Seq(Byte)
         /\ Len(PixelBytes(g, a, b, c)) = g.nbytes
         /\ ByteAt(PixelBytes(g, a, b, c), 0, <<a, b, c>>)
  <1> DEFINE x == <<a, b, c>>
  <1>1. x \in Byte
    BY DEF Byte
  <1> HIDE DEF x
  <1>2. <<x>> \in Seq(Byte) /\ Len(<<x>>) = 1 /\ <<x>>[1] = x
    BY <1>1
  <1>3. g.nbytes \in Nat /\ g.nbytes > 0 /\ g.nbytes - 1 \in Nat
    BY CubeNat
  <1>4. /\ Padding(g.nbytes - 1) \in Seq(Byte)
        /\ Len(Padding(g.nbytes - 1)) = g.nbytes - 1
    BY <1>3, PaddingSeq
  <1>5. Joined(Byte, <<x>>, Padding(g.nbytes - 1), 1, g.nbytes - 1,
               <<x>> \o Padding(g.nbytes - 1))
    BY <1>2, <1>4, JoinedSeq
  <1>6. ByteAt(<<x>>, 0, x)
    BY <1>2 DEF ByteAt
  <1>7. ByteAt(<<x>> \o Padding(g.nbytes - 1), 0, x)
    BY <1>2, <1>4, <1>6, ByteBefore
  <1>8. PixelBytes(g, a, b, c) = <<x>> \o Padding(g.nbytes - 1)
    BY DEF PixelBytes, x
  <1>9. /\ <<x>> \o Padding(g.nbytes - 1) \in Seq(Byte)
        /\ Len(<<x>> \o Padding(g.nbytes - 1)) = g.nbytes
    BY <1>3, <1>5 DEF Joined
  <1> QED BY <1>7, <1>8, <1>9 DEF x

\* A line, with its prefix and suffix: its length, and where its pixels are.
PixelAt(g, c) == g.prefix[1] + c * g.nbytes

LineHas(g, s, b, c) ==
  \A a \in 0..(CubeItems(g, 1) - 1) : ByteAt(s, PixelAt(g, a), <<a, b, c>>)

\* A line is as long as the reader takes it to be.
LEMMA LineOfBytesSeq ==
  ASSUME NEW g \in CubeHeader, NEW b \in Nat, NEW c \in Nat
  PROVE  /\ LineOfBytes(g, b, c) \in Seq(Byte)
         /\ Len(LineOfBytes(g, b, c)) = LineBytes(g, Cube(g))
         /\ LineHas(g, LineOfBytes(g, b, c), b, c)
  <1> DEFINE N == CubeItems(g, 1)
             n == g.nbytes
             s == [k \in 1..N |-> PixelBytes(g, k - 1, b, c)]
             pre == Padding(g.prefix[1])
             suf == Padding(g.suffix[1])
             f == FlattenSeq(s)
  <1>1. /\ N \in Nat /\ N > 0 /\ n \in Nat \ {0}
        /\ g.prefix[1] \in Nat /\ g.suffix[1] \in Nat
    BY CubeNat, Axes
  <1>2. LineOfBytes(g, b, c) = pre \o f \o suf
    BY DEF LineOfBytes
  <1>3. LineBytes(g, Cube(g)) = N * n + g.suffix[1] + g.prefix[1]
    BY CubeNat DEF LineBytes
  <1>4. ASSUME NEW k \in 1..N
        PROVE  /\ s[k] \in Seq(Byte) /\ Len(s[k]) = n
               /\ ByteAt(s[k], 0, <<k - 1, b, c>>)
    <2>1. k - 1 \in Nat
      BY <1>1
    <2>2. s[k] = PixelBytes(g, k - 1, b, c)
      OBVIOUS
    <2> HIDE DEF s
    <2> QED BY <2>1, <2>2, PixelBytesSeq
  <1>5. Len(s) = N
    BY <1>1
  <1> HIDE DEF N, n, s, pre, suf
  <1>6. Parts(Byte, n, N, s)
    BY <1>4 DEF Parts
  <1>7. f \in Seq(Byte) /\ Len(f) = N * n
    BY <1>1, <1>5, <1>6, FlatSeq
  <1>8. /\ pre \in Seq(Byte) /\ Len(pre) = g.prefix[1]
        /\ suf \in Seq(Byte) /\ Len(suf) = g.suffix[1]
    BY <1>1, PaddingSeq DEF pre, suf
  <1>9. ASSUME NEW a \in 0..(N - 1)
        PROVE  ByteAt(f, a * n, <<a, b, c>>)
    <2>1. a + 1 \in 1..N /\ (a + 1) - 1 = a /\ a * n \in Nat
      BY <1>1, ProductNat
    <2>2. ByteAt(s[a + 1], 0, <<a, b, c>>)
      BY <1>4, <2>1
    <2>3. ByteAt(f, a * n + 0, <<a, b, c>>)
      BY <1>1, <1>5, <1>6, <2>2, ByteInPart
    <2> QED BY <2>1, <2>3
  <1> HIDE DEF f
  <1>10. /\ pre \o f \in Seq(Byte) /\ Len(pre \o f) = g.prefix[1] + N * n
    BY <1>7, <1>8, JoinedLen
  <1>11. /\ (pre \o f) \o suf \in Seq(Byte)
         /\ Len((pre \o f) \o suf) = (g.prefix[1] + N * n) + g.suffix[1]
    <2> DEFINE t == pre \o f
    <2>1. t \in Seq(Byte) /\ Len(t) = g.prefix[1] + N * n
      BY <1>10
    <2> HIDE DEF t
    <2>2. t \o suf \in Seq(Byte) /\ Len(t \o suf) = Len(t) + Len(suf)
      BY <1>8, <2>1, JoinedLen
    <2>3. Len(t \o suf) = (g.prefix[1] + N * n) + g.suffix[1]
      BY <1>8, <2>1, <2>2
    <2> QED BY <2>2, <2>3 DEF t
  <1>12. ASSUME NEW a \in 0..(N - 1)
         PROVE  ByteAt((pre \o f) \o suf, PixelAt(g, a), <<a, b, c>>)
    <2>1. ByteAt(pre \o f, g.prefix[1] + a * n, <<a, b, c>>)
      BY <1>7, <1>8, <1>9, ByteBehind
    <2> QED BY <1>8, <1>10, <2>1, ByteBefore DEF PixelAt, n
  <1>13. LineHas(g, LineOfBytes(g, b, c), b, c)
    BY <1>2, <1>12 DEF LineHas, N
  <1>14. (g.prefix[1] + N * n) + g.suffix[1] = N * n + g.suffix[1] + g.prefix[1]
    BY <1>1, ProductNat
  <1> QED BY <1>2, <1>3, <1>11, <1>13, <1>14

\* A plane, with its side planes and its corner.
PlaneHas(g, s, c) ==
  \A b \in 0..(CubeItems(g, 2) - 1), a \in 0..(CubeItems(g, 1) - 1) :
    ByteAt(s, b * LineBytes(g, Cube(g)) + PixelAt(g, a), <<a, b, c>>)

\* The reader's length of a line of the cube.
LEMMA LineLengthOfFile ==
  ASSUME NEW g \in CubeHeader
  PROVE  LineBytes(g, Cube(g)) \in Nat \ {0}
  <1>1. /\ CubeItems(g, 1) \in Nat \ {0} /\ g.nbytes \in Nat \ {0}
        /\ g.prefix[1] \in Nat /\ g.suffix[1] \in Nat
        /\ Cube(g)[1] = CubeItems(g, 1)
    BY CubeNat, Axes
  <1>2. CubeItems(g, 1) * g.nbytes \in Nat \ {0}
    BY <1>1
  <1> QED BY <1>1, <1>2 DEF LineBytes

\* A plane is as long as the reader's stride.
LEMMA PlaneOfBytesSeq ==
  ASSUME NEW g \in CubeHeader, NEW c \in Nat
  PROVE  /\ PlaneOfBytes(g, c) \in Seq(Byte)
         /\ Len(PlaneOfBytes(g, c)) = PlaneStride(g, Cube(g))
         /\ PlaneHas(g, PlaneOfBytes(g, c), c)
  <1> DEFINE N == CubeItems(g, 2)
             n == LineBytes(g, Cube(g))
             s == [k \in 1..N |-> LineOfBytes(g, k - 1, c)]
             m == CubeItems(g, 1) * (g.prefix[2] + g.suffix[2]) + g.corner
             pad == Padding(m)
             f == FlattenSeq(s)
  <1>1. /\ N \in Nat /\ N > 0 /\ n \in Nat \ {0} /\ m \in Nat
    <2>1. /\ CubeItems(g, 1) \in Nat /\ g.prefix[2] \in Nat
          /\ g.suffix[2] \in Nat /\ g.corner \in Nat
      BY CubeNat, Axes
    <2>2. CubeItems(g, 1) * (g.prefix[2] + g.suffix[2]) \in Nat
      BY <2>1, ProductNat
    <2> QED BY <2>1, <2>2, CubeNat, LineLengthOfFile, Axes
  <1>2. PlaneOfBytes(g, c) = f \o pad
    BY DEF PlaneOfBytes
  <1>3. PlaneStride(g, Cube(g)) = N * n + m
    <2>1. n * N = N * n /\ n * N \in Nat
      BY <1>1, ProductNat
    <2>2. PlaneStride(g, Cube(g))
            = n * N + CubeItems(g, 1) * (g.prefix[2] + g.suffix[2]) + g.corner
      BY CubeNat DEF PlaneStride
    <2>3. /\ CubeItems(g, 1) \in Nat /\ g.prefix[2] \in Nat
          /\ g.suffix[2] \in Nat /\ g.corner \in Nat
      BY CubeNat, Axes
    <2>4. CubeItems(g, 1) * (g.prefix[2] + g.suffix[2]) \in Nat
      BY <2>3, ProductNat
    <2> HIDE DEF n, N
    <2> QED BY <2>1, <2>2, <2>3, <2>4
  <1>4. ASSUME NEW k \in 1..N
        PROVE  /\ s[k] \in Seq(Byte) /\ Len(s[k]) = n
               /\ LineHas(g, s[k], k - 1, c)
    <2>1. k - 1 \in Nat
      BY <1>1
    <2>2. s[k] = LineOfBytes(g, k - 1, c)
      OBVIOUS
    <2> HIDE DEF s
    <2> QED BY <2>1, <2>2, LineOfBytesSeq
  <1>5. Len(s) = N
    BY <1>1
  <1> HIDE DEF N, n, s, m, pad
  <1>6. Parts(Byte, n, N, s)
    BY <1>4 DEF Parts
  <1>7. f \in Seq(Byte) /\ Len(f) = N * n
    BY <1>1, <1>5, <1>6, FlatSeq
  <1>8. pad \in Seq(Byte) /\ Len(pad) = m
    BY <1>1, PaddingSeq DEF pad
  <1>9. ASSUME NEW b \in 0..(N - 1), NEW a \in 0..(CubeItems(g, 1) - 1)
        PROVE  ByteAt(f, b * n + PixelAt(g, a), <<a, b, c>>)
    <2>1. b + 1 \in 1..N /\ (b + 1) - 1 = b
      BY <1>1
    <2>2. ByteAt(s[b + 1], PixelAt(g, a), <<a, b, c>>)
      <3>1. LineHas(g, s[b + 1], b, c)
        BY <1>4, <2>1
      <3> QED BY <3>1 DEF LineHas
    <2> QED BY <1>1, <1>5, <1>6, <2>2, ByteInPart
  <1> HIDE DEF f
  <1>10. f \o pad \in Seq(Byte) /\ Len(f \o pad) = N * n + m
    BY <1>7, <1>8, JoinedLen
  <1>11. ASSUME NEW b \in 0..(N - 1), NEW a \in 0..(CubeItems(g, 1) - 1)
         PROVE  ByteAt(f \o pad, b * n + PixelAt(g, a), <<a, b, c>>)
    BY <1>7, <1>8, <1>9, ByteBefore
  <1>12. PlaneHas(g, PlaneOfBytes(g, c), c)
    BY <1>2, <1>11 DEF PlaneHas, N, n
  <1> QED BY <1>2, <1>3, <1>10, <1>12

\* The file, header and all.
FileHas(g, s) ==
  \A c \in 0..(CubeItems(g, 3) - 1), b \in 0..(CubeItems(g, 2) - 1),
     a \in 0..(CubeItems(g, 1) - 1) :
    ByteAt(s, g.dptr + (c * PlaneStride(g, Cube(g))
                          + (b * LineBytes(g, Cube(g)) + PixelAt(g, a))),
           <<a, b, c>>)

\* The reader's stride from a plane of the cube to the next.
LEMMA PlaneLengthOfFile ==
  ASSUME NEW g \in CubeHeader
  PROVE  PlaneStride(g, Cube(g)) \in Nat \ {0}
  <1>1. /\ CubeItems(g, 1) \in Nat /\ CubeItems(g, 2) \in Nat \ {0}
        /\ g.corner \in Nat /\ LineBytes(g, Cube(g)) \in Nat \ {0}
        /\ g.prefix[2] + g.suffix[2] \in Nat
        /\ Cube(g)[1] = CubeItems(g, 1) /\ Cube(g)[2] = CubeItems(g, 2)
    BY CubeNat, Axes, LineLengthOfFile
  <1>2. LineBytes(g, Cube(g)) * CubeItems(g, 2) \in Nat \ {0}
    BY <1>1
  <1>3. CubeItems(g, 1) * (g.prefix[2] + g.suffix[2]) \in Nat
    BY <1>1, ProductNat
  <1> QED BY <1>1, <1>2, <1>3 DEF PlaneStride

\* The file has its pixels where the reader looks for them.
LEMMA FileBytesSeq ==
  ASSUME NEW g \in CubeHeader
  PROVE  /\ FileBytes(g) \in Seq(Byte)
         /\ Len(FileBytes(g)) = g.dptr + CubeItems(g, 3) * PlaneStride(g, Cube(g))
         /\ FileHas(g, FileBytes(g))
  <1> DEFINE N == CubeItems(g, 3)
             n == PlaneStride(g, Cube(g))
             s == [k \in 1..N |-> PlaneOfBytes(g, k - 1)]
             pre == Padding(g.dptr)
             f == FlattenSeq(s)
  <1>1. /\ N \in Nat /\ N > 0 /\ n \in Nat \ {0} /\ g.dptr \in Nat
    BY CubeNat, PlaneLengthOfFile, Axes
  <1>2. FileBytes(g) = pre \o f
    BY DEF FileBytes
  <1>4. ASSUME NEW k \in 1..N
        PROVE  /\ s[k] \in Seq(Byte) /\ Len(s[k]) = n
               /\ PlaneHas(g, s[k], k - 1)
    <2>1. k - 1 \in Nat
      BY <1>1
    <2>2. s[k] = PlaneOfBytes(g, k - 1)
      OBVIOUS
    <2> HIDE DEF s
    <2> QED BY <2>1, <2>2, PlaneOfBytesSeq
  <1>5. Len(s) = N
    BY <1>1
  <1> HIDE DEF N, n, s, pre
  <1>6. Parts(Byte, n, N, s)
    BY <1>4 DEF Parts
  <1>7. f \in Seq(Byte) /\ Len(f) = N * n
    BY <1>1, <1>5, <1>6, FlatSeq
  <1>8. pre \in Seq(Byte) /\ Len(pre) = g.dptr
    BY <1>1, PaddingSeq DEF pre
  <1>9. ASSUME NEW c \in 0..(N - 1), NEW b \in 0..(CubeItems(g, 2) - 1),
               NEW a \in 0..(CubeItems(g, 1) - 1)
        PROVE  ByteAt(f, c * n + (b * LineBytes(g, Cube(g)) + PixelAt(g, a)),
                      <<a, b, c>>)
    <2>1. c + 1 \in 1..N /\ (c + 1) - 1 = c
      BY <1>1
    <2>2. ByteAt(s[c + 1], b * LineBytes(g, Cube(g)) + PixelAt(g, a), <<a, b, c>>)
      <3>1. PlaneHas(g, s[c + 1], c)
        BY <1>4, <2>1
      <3> QED BY <3>1 DEF PlaneHas
    <2> QED BY <1>1, <1>5, <1>6, <2>2, ByteInPart
  <1> HIDE DEF f
  <1>10. pre \o f \in Seq(Byte) /\ Len(pre \o f) = g.dptr + N * n
    BY <1>7, <1>8, JoinedLen
  <1>11. ASSUME NEW c \in 0..(N - 1), NEW b \in 0..(CubeItems(g, 2) - 1),
                NEW a \in 0..(CubeItems(g, 1) - 1)
         PROVE  ByteAt(pre \o f,
                       g.dptr + (c * n + (b * LineBytes(g, Cube(g)) + PixelAt(g, a))),
                       <<a, b, c>>)
    BY <1>7, <1>8, <1>9, ByteBehind
  <1>12. FileHas(g, FileBytes(g))
    BY <1>2, <1>11 DEF FileHas, N, n
  <1> QED BY <1>2, <1>10, <1>12 DEF N, n

-----------------------------------------------------------------------------
(* Planes are taken from inside the image. *)

\* The cube a header works on is the one it was loaded with.
SameCube ==
  /\ pc # "closed" =>
       \A i \in Axis : CubeItems(head, i) = IF size[i] = 0 THEN 1 ELSE size[i]
  /\ Busy => size = Cube(head)

\* p_data holds, or is about to hold, a plane of the slice.
PlaneTaken ==
  /\ pc \in {"read", "check", "line"} =>
       z < dim[3] /\ base = PlaneOffset(head, size, s_lo, z)
  /\ pc \in {"read", "check"} => ~attached

\* Both are kept by every step.
LEMMA SameCubeStep == TypeInv /\ SameCube /\ [Next]_vars => SameCube'
  <1> SUFFICES ASSUME TypeInv, SameCube, [Next]_vars
               PROVE  SameCube'
    OBVIOUS
  <1>1. ASSUME NEW g \in Headers, Load(g)
        PROVE  SameCube'
    BY <1>1 DEF Load, SameCube, CubeItems, Busy, Internal
  <1>2. CASE ReadQubeData
    <2>1. pc = "idle" /\ size' = DefaultSize /\ head' = head
      BY <1>2 DEF ReadQubeData
    <2>2. \A i \in Axis : CubeItems(head, i) = DefaultSize[i] /\ DefaultSize[i] # 0
      BY <2>1, DefaultsNat DEF SameCube, DefaultSize, TypeInv
    <2>3. DefaultSize = Cube(head)
      BY <2>2 DEF Cube, DefaultSize
    <2> QED BY <2>1, <2>2, <2>3 DEF SameCube
  <1>3. CASE (\E s \in UserSlices : SetSliceInHeader(s)) \/ ClearSliceInHeader
             \/ DetachData \/ Cleanup
    <2>1. /\ pc = "idle" /\ pc' \in {"idle", "closed"} /\ UNCHANGED <<head, size>>
      BY <1>3 DEF SetSliceInHeader, ClearSliceInHeader, DetachData, Cleanup
    <2> QED BY <2>1 DEF SameCube, Busy, Internal
  <1>4. CASE Reader
    <2>1. Busy /\ pc # "closed" /\ UNCHANGED <<head, size>>
      BY <1>4 DEF Reader, AllocateData, AllocateDataFails, AllocatePlane,
         AllocatePlaneFails, ReturnNull, Seek, SeekFails, TakePlaneFromImage,
         ReadChunk, ReadShort, ReadComplete, CheckPlane, CopyLine, NextPlane,
         PlanesDone, ReturnData, Busy, Internal, header
    <2>2. Cube(head)' = Cube(head) /\ \A i : CubeItems(head, i)' = CubeItems(head, i)
      BY <2>1 DEF Cube, CubeItems
    <2> QED BY <2>1, <2>2 DEF SameCube
  <1>5. CASE UNCHANGED vars
    BY <1>5 DEF SameCube, Cube, CubeItems, vars, header, Busy, Internal
  <1> QED BY <1>1, <1>2, <1>3, <1>4, <1>5 DEF Next, Caller

LEMMA PlaneTakenStep == PlaneTaken /\ [Next]_vars => PlaneTaken'
  <1> SUFFICES ASSUME PlaneTaken, [Next]_vars,
                      pc' \in {"read", "check", "line"}
               PROVE  PlaneTaken'
    BY DEF PlaneTaken
  <1>1. CASE Seek \/ TakePlaneFromImage
    BY <1>1 DEF Seek, TakePlaneFromImage, PlaneTaken, header, slice
  <1>2. CASE Reader /\ ~Seek /\ ~TakePlaneFromImage
    <2>1. /\ pc \in {"read", "check", "line"}
          /\ pc' # "line" => pc # "line"
          /\ UNCHANGED <<z, dim, base, head, size, s_lo, attached>>
      BY <1>2 DEF Reader, AllocateData, AllocateDataFails, AllocatePlane,
         AllocatePlaneFails, ReturnNull, SeekFails, ReadChunk, ReadShort,
         ReadComplete, CheckPlane, CopyLine, NextPlane, PlanesDone, ReturnData,
         header, slice, locals
    <2> QED BY <2>1 DEF PlaneTaken
  <1>3. CASE Caller
    BY <1>3 DEF Caller, Load, SetSliceInHeader, ClearSliceInHeader,
       ReadQubeData, DetachData, Cleanup
  <1>4. CASE UNCHANGED vars
    BY <1>4 DEF PlaneTaken, vars, header, slice, locals
  <1> QED BY <1>1, <1>2, <1>3, <1>4 DEF Next

\* The plane of an attached image is inside it.
LEMMA ImageBounded ==
  TypeInv /\ Shape /\ SameCube /\ PlaneTaken => ImageReadsInBounds
  <1> SUFFICES ASSUME TypeInv, Shape, SameCube, PlaneTaken, pc = "line", attached
               PROVE  base + plane <= Len(Files[head])
    BY DEF ImageReadsInBounds
  <1> DEFINE L == LineBytes(head, size)
             P == PlaneStride(head, size)
             n2 == size[2]
             n3 == size[3]
             m == size[1] * (head.prefix[2] + head.suffix[2]) + head.corner
  <1>1. Busy /\ pc # "data"
    BY DEF Busy, Internal
  <1>2. head \in Headers /\ head \in CubeHeader /\ size = Cube(head)
    BY <1>1, HeadersAssumption DEF SameCube, TypeInv, TypeOK
  <1>3. /\ plane = L * dim[2] /\ dsize >= 0
        /\ dim[2] = s_hi[2] - s_lo[2] + 1 /\ s_hi[2] < n2
        /\ dim[3] = s_hi[3] - s_lo[3] + 1 /\ s_hi[3] < n3
    BY <1>1, Axes DEF Shape
  <1>4. /\ dim[2] \in Nat /\ dim[3] \in Nat
    BY <1>1, <1>3, LengthsNat
  <1>5. /\ s_lo[2] \in Nat /\ s_hi[2] \in Nat /\ s_lo[3] \in Nat
        /\ s_hi[3] \in Nat /\ z \in Nat /\ n2 \in Nat /\ n3 \in Nat /\ L \in Nat
        /\ head.dptr \in Nat
    BY <1>2, Axes, LineBytesNat, CubeNat DEF TypeInv, TypeOK
  <1>6. /\ m \in Nat /\ P \in Nat /\ P = L * n2 + m /\ L * n2 \in Nat
    <2>1. /\ size[1] \in Nat /\ head.prefix[2] \in Nat /\ head.suffix[2] \in Nat
          /\ head.corner \in Nat
      BY <1>2, CubeNat, Axes DEF TypeInv, TypeOK
    <2>2. size[1] * (head.prefix[2] + head.suffix[2]) \in Nat /\ L * n2 \in Nat
      BY <1>5, <2>1, ProductNat
    <2>3. P = L * n2 + size[1] * (head.prefix[2] + head.suffix[2]) + head.corner
      BY DEF PlaneStride
    <2> HIDE DEF L, P, n2
    <2> QED BY <2>1, <2>2, <2>3
  <1>7. base = head.dptr + (z + s_lo[3]) * P + L * s_lo[2] /\ z < dim[3]
    BY DEF PlaneTaken, PlaneOffset
  <1>8. Len(Files[head]) = head.dptr + n3 * P
    BY <1>2, FileBytesSeq, CubeNat DEF Files
  <1> HIDE DEF L, P, n2, n3, m
  <1>9. L * s_lo[2] + L * dim[2] <= L * n2
    <2>1. (s_lo[2] + dim[2]) * L <= n2 * L
      BY <1>3, <1>4, <1>5, TimesMonotonic
    <2>2. (s_lo[2] + dim[2]) * L = L * s_lo[2] + L * dim[2] /\ n2 * L = L * n2
      BY <1>4, <1>5
    <2> QED BY <2>1, <2>2
  <1>10. (z + s_lo[3]) * P + P <= n3 * P
    <2>1. (z + s_lo[3]) + 1 \in Nat /\ (z + s_lo[3]) + 1 <= n3
      BY <1>3, <1>4, <1>5, <1>7
    <2>2. ((z + s_lo[3]) + 1) * P <= n3 * P
      BY <1>5, <1>6, <2>1, TimesMonotonic
    <2>3. ((z + s_lo[3]) + 1) * P = (z + s_lo[3]) * P + P
      BY <1>5, <1>6
    <2> QED BY <2>2, <2>3
  <1>11. /\ L * s_lo[2] \in Nat /\ L * dim[2] \in Nat
         /\ (z + s_lo[3]) * P \in Nat /\ n3 * P \in Nat
    BY <1>4, <1>5, <1>6, ProductNat
  <1>12. plane = L * dim[2]
    BY <1>3
  <1>13. \A d, x, lo, dm, p, q, r \in Nat :
           lo + dm <= q /\ q <= p /\ x + p <= r => (d + x + lo) + dm <= d + r
    OBVIOUS
  <1>14. L * n2 <= P
    BY <1>6
  <1>15. (head.dptr + (z + s_lo[3]) * P + L * s_lo[2]) + L * dim[2]
           <= head.dptr + n3 * P
    BY <1>5, <1>6, <1>9, <1>10, <1>11, <1>13, <1>14
  <1> QED BY <1>7, <1>8, <1>12, <1>15

\* For every header and every slice, a plane taken from an attached image ends
\* inside the image: the memcpy of a decoded image needs no bound of its own.
THEOREM ImageReadsInBoundsThm == Spec => []ImageReadsInBounds
  <1>1. Init => SameCube /\ PlaneTaken
    BY DEF Init, SameCube, PlaneTaken, Busy, Internal
  <1> QED BY <1>1, ReaderInvariant, SameCubeStep, PlaneTakenStep, ImageBounded,
             PTL DEF Spec

-----------------------------------------------------------------------------
(* The bytes copied are the pixels of the slice. *)

\* Samples of a line of the slice.
Samples == Strides(dim[1], s_skip[1])

\* The coordinates of pixel q of the sub-cube, counted from 0.
PixelNo(q) ==
  <<s_lo[1] + (q % Samples) * s_skip[1],
    s_lo[2] + ((q \div Samples) % Lines) * s_skip[2],
    s_lo[3] + (q \div (Samples * Lines)) * s_skip[3]>>

\* k planes of the sub-cube and j lines are so many pixels.
Pixels(k, j) == Samples * (j + k * Lines)

\* out holds where they are.
Copied(k, j) ==
  /\ Len(out) = Pixels(k, j)
  /\ \A q \in 0..(Pixels(k, j) - 1) :
       ByteAt(FileBytes(head), out[q + 1], PixelNo(q))

\* What a read has copied at each of its points.
Delivery ==
  /\ Busy => result = "none"
  /\ pc = "seek" =>
       \E k \in Nat : k <= Planes /\ z = k * s_skip[3] /\ Copied(k, 0)
  /\ pc \in {"read", "check"} =>
       \E k \in Nat : k < Planes /\ z = k * s_skip[3] /\ Copied(k, 0)
  /\ pc = "line" =>
       \E k, j \in Nat : /\ k < Planes /\ z = k * s_skip[3]
                         /\ j <= Lines /\ y = j * s_skip[2] /\ Copied(k, j)
  /\ pc = "check" /\ nread # plane => fault
  /\ pc = "finish" =>
       \E k \in Nat : k <= Planes /\ Copied(k, 0) /\ (~fault => k = Planes)

\* The numbers a read with memory works with.
ReadNumbers ==
  /\ head \in CubeHeader /\ size = Cube(head)
  /\ \A i \in Axis : /\ dim[i] \in Nat /\ s_skip[i] \in Nat \ {0}
                     /\ s_lo[i] \in Nat /\ s_hi[i] \in Nat
                     /\ dim[i] = s_hi[i] - s_lo[i] + 1
                     /\ s_hi[i] < CubeItems(head, i)
  /\ Samples \in Nat /\ Lines \in Nat /\ Planes \in Nat
  /\ LinePixels = Samples
  /\ out \in Seq(Nat) /\ z \in Nat /\ y \in Nat /\ nread \in Nat /\ plane \in Nat

\* A loop with a stride of one runs once for each item.
LEMMA StridesOfOne ==
  ASSUME NEW d \in Nat
  PROVE  Strides(d, 1) = d
  <1>1. ASSUME NEW a \in Nat
        PROVE  a \div 1 = a
    OBVIOUS
  <1>2. CASE d = 0
    BY <1>2 DEF Strides
  <1>3. CASE d > 0
    <2>1. d - 1 \in Nat
      BY <1>3
    <2>2. (d - 1) \div 1 = d - 1
      BY <1>1, <2>1
    <2> QED BY <1>3, <2>2 DEF Strides
  <1> QED BY <1>2, <1>3

\* They are numbers by the invariant.
LEMMA ReadNumbersHold ==
  ASSUME TypeInv, Shape, SameCube, Busy, pc # "data"
  PROVE  ReadNumbers
  <1>1. head \in CubeHeader /\ size = Cube(head)
    BY HeadersAssumption DEF SameCube, TypeInv, TypeOK
  <1>2. dsize >= 0 /\ \A i \in Axis : /\ dim[i] = s_hi[i] - s_lo[i] + 1
                                      /\ s_hi[i] < size[i]
    BY DEF Shape
  <1>3. /\ \A i \in Axis : dim[i] \in Nat /\ s_skip[i] \in Nat \ {0}
    BY DEF TypeInv, TypeOK, LoopBounds
  <1>4. \A i \in Axis : s_lo[i] \in Nat /\ s_hi[i] \in Nat
    BY DEF TypeInv, TypeOK
  <1>5. \A i \in Axis : size[i] = CubeItems(head, i)
    BY <1>1 DEF Cube
  <1>6. Samples \in Nat /\ Lines \in Nat /\ Planes \in Nat
    BY <1>3, Axes, StridesFitItems DEF Samples, Lines, Planes
  <1>7. LinePixels = Samples
    BY <1>3, Axes, StridesOfOne DEF LinePixels, Samples
  <1>8. out \in Seq(Nat) /\ z \in Nat /\ y \in Nat /\ nread \in Nat /\ plane \in Nat
    BY DEF TypeInv, TypeOK
  <1> QED BY <1>1, <1>2, <1>3, <1>4, <1>5, <1>6, <1>7, <1>8 DEF ReadNumbers

\* Pixel x of line j of plane k of the sub-cube.
LEMMA PixelOfLine ==
  ASSUME ReadNumbers, NEW k \in Nat, NEW j \in 0..(Lines - 1),
         NEW x \in 0..(Samples - 1), NEW q, q = Pixels(k, j) + x
  PROVE  PixelNo(q) = <<s_lo[1] + x * s_skip[1], s_lo[2] + j * s_skip[2],
                        s_lo[3] + k * s_skip[3]>>
  <1>1. Samples \in Nat \ {0} /\ Lines \in Nat \ {0}
    BY DEF ReadNumbers
  <1>2. Samples * (j + k * Lines) \in Nat
    <2>1. j + k * Lines \in Nat
      BY <1>1, ProductNat
    <2> QED BY <1>1, <2>1, ProductNat
  <1>3. q = x + Samples * (j + k * Lines)
    BY <1>2 DEF Pixels
  <1>4. /\ (x + Samples * (j + k * Lines)) % Samples = x
        /\ ((x + Samples * (j + k * Lines)) \div Samples) % Lines = j
        /\ (x + Samples * (j + k * Lines)) \div (Samples * Lines) = k
    BY <1>1, Digits
  <1>5. q % Samples = x /\ (q \div Samples) % Lines = j /\ q \div (Samples * Lines) = k
    BY <1>3, <1>4, Zenon
  <1> QED BY <1>5 DEF PixelNo

\* A line's pixels are copied from where they are in the file.
LEMMA LineCopiedFrom ==
  ASSUME ReadNumbers, NEW x \in 0..(Samples - 1), y < dim[2], z < dim[3],
         base = PlaneOffset(head, size, s_lo, z)
  PROVE  ByteAt(FileBytes(head), base + LineStart + x * s_skip[1] * head.nbytes,
                <<s_lo[1] + x * s_skip[1], s_lo[2] + y, s_lo[3] + z>>)
  <1> DEFINE a == s_lo[1] + x * s_skip[1]
             b == s_lo[2] + y
             c == s_lo[3] + z
             L == LineBytes(head, size)
             P == PlaneStride(head, size)
             nb == head.nbytes
  <1>1. /\ Samples = Strides(dim[1], s_skip[1]) /\ x \in Nat
        /\ dim[1] \in Nat /\ s_skip[1] \in Nat \ {0} /\ Samples \in Nat
        /\ s_lo[1] \in Nat /\ s_hi[1] \in Nat
        /\ dim[1] = s_hi[1] - s_lo[1] + 1 /\ s_hi[1] < CubeItems(head, 1)
    BY Axes DEF ReadNumbers, Samples
  <1>2. x * s_skip[1] < dim[1] /\ x * s_skip[1] \in Nat
    <2>1. x * s_skip[1] \in Nat
      BY <1>1, ProductNat
    <2>2. x * s_skip[1] >= dim[1] => x >= Samples
      BY <1>1, StridesReached
    <2> QED BY <1>1, <2>1, <2>2
  <1>3. /\ CubeItems(head, 1) \in Nat /\ CubeItems(head, 2) \in Nat
        /\ CubeItems(head, 3) \in Nat
    BY CubeNat, Axes DEF ReadNumbers
  <1>4. a \in 0..(CubeItems(head, 1) - 1)
    BY <1>1, <1>2, <1>3
  <1>5. /\ b \in 0..(CubeItems(head, 2) - 1) /\ c \in 0..(CubeItems(head, 3) - 1)
    <2>1. /\ y \in Nat /\ z \in Nat
          /\ s_lo[2] \in Nat /\ s_hi[2] \in Nat /\ s_lo[3] \in Nat /\ s_hi[3] \in Nat
          /\ dim[2] = s_hi[2] - s_lo[2] + 1 /\ s_hi[2] < CubeItems(head, 2)
          /\ dim[3] = s_hi[3] - s_lo[3] + 1 /\ s_hi[3] < CubeItems(head, 3)
      BY Axes DEF ReadNumbers
    <2> QED BY <1>3, <2>1
  <1>6. head \in CubeHeader /\ size = Cube(head)
    BY DEF ReadNumbers
  <1>7. FileHas(head, FileBytes(head))
    BY <1>6, FileBytesSeq
  <1>8. ByteAt(FileBytes(head), head.dptr + (c * P + (b * L + PixelAt(head, a))),
               <<a, b, c>>)
    <2> HIDE DEF a, b, c
    <2> QED BY <1>4, <1>5, <1>6, <1>7 DEF FileHas
  <1>9. /\ head.dptr \in Nat /\ nb \in Nat /\ head.prefix[1] \in Nat
        /\ L \in Nat /\ P \in Nat
    BY <1>6, CubeNat, LineLengthOfFile, PlaneLengthOfFile
  <1>10. /\ s_lo[1] \in Nat /\ s_lo[2] \in Nat /\ s_lo[3] \in Nat
         /\ y \in Nat /\ z \in Nat
    BY Axes DEF ReadNumbers
  <1>11. base = head.dptr + (z + s_lo[3]) * P + L * s_lo[2]
    BY DEF PlaneOffset
  <1>12. LineStart = head.prefix[1] + s_lo[1] * nb + y * L
    BY DEF LineStart
  <1>13. PixelAt(head, a) = head.prefix[1] + a * nb
    BY DEF PixelAt
  <1> HIDE DEF L, P, nb
  <1>14. PICK u \in Nat : u = x * s_skip[1]
    BY <1>2
  <1>15. /\ a * nb = s_lo[1] * nb + u * nb
         /\ b * L = L * s_lo[2] + y * L
         /\ c * P = (z + s_lo[3]) * P
    BY <1>9, <1>10, <1>14
  <1>16. /\ s_lo[1] * nb \in Nat /\ u * nb \in Nat /\ L * s_lo[2] \in Nat
         /\ y * L \in Nat /\ (z + s_lo[3]) * P \in Nat
    BY <1>9, <1>10, <1>14, ProductNat
  <1>17. PICK e, f, g, h, i \in Nat :
           /\ e = s_lo[1] * nb /\ i = u * nb /\ f = L * s_lo[2]
           /\ g = y * L /\ h = (z + s_lo[3]) * P
    BY <1>16
  <1>18. head.dptr + (c * P + (b * L + PixelAt(head, a)))
           = (base + LineStart) + u * nb
    <2>1. /\ base = head.dptr + h + f /\ LineStart = head.prefix[1] + e + g
          /\ PixelAt(head, a) = head.prefix[1] + (e + i)
          /\ b * L = f + g /\ c * P = h
      BY <1>11, <1>12, <1>13, <1>15, <1>17
    <2> HIDE DEF a, b, c
    <2>2. head.dptr \in Nat /\ head.prefix[1] \in Nat
      BY <1>9
    <2>3. head.dptr + (h + ((f + g) + (head.prefix[1] + (e + i))))
            = ((head.dptr + h + f) + (head.prefix[1] + e + g)) + i
      BY <2>2
    <2> QED BY <1>17, <2>1, <2>3
  <1> QED BY <1>8, <1>14, <1>18 DEF nb

\* What was copied is copied, while the slice stays as it is.
LEMMA CopiedKept ==
  ASSUME UNCHANGED <<head, s_lo, s_skip, dim>>
  PROVE  /\ Samples' = Samples /\ Lines' = Lines /\ Planes' = Planes
         /\ \A q : PixelNo(q)' = PixelNo(q)
         /\ \A k, j : Pixels(k, j)' = Pixels(k, j)
         /\ out' = out => \A k, j : Copied(k, j) => Copied(k, j)'
  <1>1. Samples' = Samples /\ Lines' = Lines /\ Planes' = Planes
    BY DEF Samples, Lines, Planes
  <1>2. \A q : PixelNo(q)' = PixelNo(q)
    BY <1>1 DEF PixelNo
  <1>3. \A k, j : Pixels(k, j)' = Pixels(k, j)
    BY <1>1 DEF Pixels
  <1>4. ASSUME out' = out, NEW k, NEW j, Copied(k, j)
        PROVE  Copied(k, j)'
    BY <1>2, <1>3, <1>4 DEF Copied
  <1> QED BY <1>1, <1>2, <1>3, <1>4

\* Pixels come by the line, and lines by the plane.
LEMMA PixelCounts ==
  ASSUME Samples \in Nat, Lines \in Nat, NEW k \in Nat, NEW j \in Nat
  PROVE  /\ Pixels(k, j) \in Nat
         /\ Pixels(k, j + 1) = Pixels(k, j) + Samples
         /\ Pixels(k, Lines) = Pixels(k + 1, 0)
         /\ Pixels(0, 0) = 0
  <1>1. PICK m \in Nat : m = k * Lines
    BY ProductNat
  <1>2. Samples * (j + m) \in Nat
    BY ProductNat
  <1>3. Samples * ((j + 1) + m) = Samples * (j + m) + Samples
    BY <1>1
  <1>4. (k + 1) * Lines = m + Lines
    BY <1>1
  <1>5. Samples * (Lines + m) = Samples * (0 + (k + 1) * Lines)
    BY <1>1, <1>4
  <1>6. Samples * (0 + 0 * Lines) = 0
    OBVIOUS
  <1> QED BY <1>1, <1>2, <1>3, <1>5, <1>6 DEF Pixels

\* One line more is copied.
LEMMA LineDelivered ==
  ASSUME TypeInv, ReadNumbers, CopyLine, z < dim[3],
         base = PlaneOffset(head, size, s_lo, z),
         NEW k \in Nat, NEW j \in 0..(Lines - 1),
         z = k * s_skip[3], y = j * s_skip[2], Copied(k, j)
  PROVE  Copied(k, j + 1)'
  <1> DEFINE n == Pixels(k, j)
             t == [x \in 1..Samples |->
                     base + LineStart + (x - 1) * s_skip[1] * head.nbytes]
  <1>1. /\ pc = "line" /\ y < dim[2] /\ UNCHANGED <<head, s_lo, s_skip, dim>>
        /\ out' = out \o t
    BY DEF CopyLine, header, slice, ReadNumbers
  <1>2. /\ Samples \in Nat /\ Lines \in Nat /\ j \in Nat /\ out \in Seq(Nat)
    BY DEF ReadNumbers
  <1>3. n \in Nat /\ Pixels(k, j + 1) = n + Samples
    BY <1>2, PixelCounts
  <1>4. Len(out) = n
    BY DEF Copied
  <1>5. t \in Seq(Nat) /\ Len(t) = Samples
    <2>1. /\ LineStart \in Nat /\ base \in Nat
          /\ \A x \in 1..Samples : (x - 1) * s_skip[1] * head.nbytes \in Nat
      BY <1>1, LineNat DEF TypeInv, TypeOK, ReadNumbers
    <2>2. \A x \in 1..Samples :
            base + LineStart + (x - 1) * s_skip[1] * head.nbytes \in Nat
      BY <2>1
    <2>3. t \in [1..Samples -> Nat]
      BY <2>2
    <2> QED BY <1>2, <2>3
  <1>6. ASSUME NEW x \in 0..(Samples - 1)
        PROVE  ByteAt(FileBytes(head), t[x + 1], PixelNo(n + x))
    <2>1. PixelNo(n + x) = <<s_lo[1] + x * s_skip[1], s_lo[2] + y, s_lo[3] + z>>
      BY PixelOfLine
    <2>2. x + 1 \in 1..Samples /\ (x + 1) - 1 = x
      BY <1>2
    <2>3. t[x + 1] = base + LineStart + x * s_skip[1] * head.nbytes
      BY <2>2
    <2>4. ByteAt(FileBytes(head), base + LineStart + x * s_skip[1] * head.nbytes,
                 <<s_lo[1] + x * s_skip[1], s_lo[2] + y, s_lo[3] + z>>)
      BY <1>1, LineCopiedFrom
    <2> HIDE DEF t, n
    <2> QED BY <2>1, <2>3, <2>4
  <1> HIDE DEF t, n
  <1>7. Joined(Nat, out, t, n, Samples, out \o t)
    BY <1>2, <1>4, <1>5, JoinedSeq
  <1>8. ASSUME NEW q \in 0..(n + Samples - 1)
        PROVE  ByteAt(FileBytes(head), (out \o t)[q + 1], PixelNo(q))
    <2>1. (out \o t)[q + 1] = IF q + 1 <= n THEN out[q + 1] ELSE t[(q + 1) - n]
      <3>1. q + 1 \in 1..(n + Samples)
        BY <1>2, <1>3
      <3> QED BY <1>7, <3>1 DEF Joined
    <2>2. CASE q < n
      <3>1. q \in 0..(n - 1) /\ q + 1 <= n
        BY <1>3, <2>2
      <3> QED BY <2>1, <3>1 DEF Copied, n
    <2>3. CASE q >= n
      <3>1. PICK x \in 0..(Samples - 1) : q = n + x
        <4>1. q - n \in 0..(Samples - 1) /\ q = n + (q - n)
          BY <1>2, <1>3, <2>3
        <4> QED BY <4>1
      <3>2. ~(q + 1 <= n) /\ (q + 1) - n = x + 1
        BY <1>3, <3>1
      <3>3. (out \o t)[q + 1] = t[x + 1]
        BY <2>1, <3>2
      <3> QED BY <1>6, <3>1, <3>3
    <2>4. q < n \/ q >= n
      BY <1>3
    <2> QED BY <2>2, <2>3, <2>4
  <1>9. \A q : PixelNo(q)' = PixelNo(q)
    BY <1>1, CopiedKept
  <1>10. PICK N \in Nat : N = n + Samples
    BY <1>2, <1>3
  <1>11. Pixels(k, j + 1)' = N
    <2>1. Pixels(k, j + 1)' = Pixels(k, j + 1)
      BY <1>1, CopiedKept
    <2> QED BY <1>3, <1>10, <2>1
  <1>12. Len(out') = N
    BY <1>1, <1>7, <1>10 DEF Joined
  <1>13. ASSUME NEW q \in 0..(N - 1)
         PROVE  ByteAt(FileBytes(head'), out'[q + 1], PixelNo(q)')
    <2>1. q \in 0..(n + Samples - 1)
      BY <1>2, <1>3, <1>10
    <2>2. ByteAt(FileBytes(head), (out \o t)[q + 1], PixelNo(q))
      BY <1>8, <2>1
    <2>3. PixelNo(q)' = PixelNo(q)
      BY <1>9, Zenon
    <2>4. head' = head /\ out' = out \o t
      BY <1>1
    <2> QED BY <2>2, <2>3, <2>4, Zenon
  <1> QED BY <1>11, <1>12, <1>13 DEF Copied

\* The inductive invariant of the refinement.
DeliveryInv == TypeInv /\ Shape /\ SameCube /\ PlaneTaken /\ Delivery

\* Inside the loops the slice stays as it is.
LEMMA SliceStays ==
  ASSUME Reader, pc \notin {"data", "finish"}, ~AllocatePlaneFails
  PROVE  /\ Busy /\ Busy' /\ pc # "data"
         /\ UNCHANGED <<head, size, s_lo, s_hi, s_skip, dim, plane, result>>
  BY DEF Reader, AllocateData, AllocateDataFails, AllocatePlane,
         AllocatePlaneFails, Seek, SeekFails, TakePlaneFromImage,
         ReadChunk, ReadShort, ReadComplete, CheckPlane, CopyLine, NextPlane,
         PlanesDone, ReturnData, Busy, Internal, header, slice, locals

\* Every step keeps what has been copied in order.
LEMMA DeliveryStep == DeliveryInv /\ [Next]_vars => Delivery'
  <1> SUFFICES ASSUME DeliveryInv, [Next]_vars
               PROVE  Delivery'
    OBVIOUS
  <1>0. TypeInv /\ Shape /\ SameCube /\ PlaneTaken /\ Delivery
    BY DEF DeliveryInv
  <1>1. CASE Caller
    <2>1. pc' \in {"closed", "idle", "data"}
      BY <1>1 DEF Caller, Load, SetSliceInHeader, ClearSliceInHeader,
         ReadQubeData, DetachData, Cleanup
    <2>2. pc' = "data" => result' = "none"
      BY <1>1 DEF Caller, Load, SetSliceInHeader, ClearSliceInHeader,
         ReadQubeData, DetachData, Cleanup
    <2> QED BY <2>1, <2>2 DEF Delivery, Busy, Internal
  <1>2. CASE AllocateDataFails \/ AllocatePlaneFails \/ ReturnData
    <2>1. pc' = "idle"
      BY <1>2 DEF AllocateDataFails, AllocatePlaneFails, ReturnNull, ReturnData
    <2> QED BY <2>1 DEF Delivery, Busy, Internal
  <1>3. CASE AllocateData
    <2>1. pc' = "p_data" /\ result' = result /\ Busy
      BY <1>3 DEF AllocateData, Busy, Internal
    <2> QED BY <1>0, <2>1 DEF Delivery, Busy, Internal
  <1>4. ASSUME Reader, pc \notin {"data", "finish"}, ~AllocatePlaneFails
        PROVE  /\ ReadNumbers /\ Busy'
               /\ Samples' = Samples /\ Lines' = Lines /\ Planes' = Planes
               /\ \A k, j : Pixels(k, j)' = Pixels(k, j)
               /\ out' = out => \A k, j : Copied(k, j) => Copied(k, j)'
               /\ UNCHANGED <<s_skip, plane, dim>>
               /\ result' = "none"
    <2>1. /\ Busy /\ Busy' /\ pc # "data"
          /\ UNCHANGED <<head, size, s_lo, s_hi, s_skip, dim, plane, result>>
      BY <1>4, SliceStays
    <2>2. ReadNumbers
      BY <1>0, <2>1, ReadNumbersHold
    <2>3. /\ Samples' = Samples /\ Lines' = Lines /\ Planes' = Planes
          /\ \A k, j : Pixels(k, j)' = Pixels(k, j)
          /\ out' = out => \A k, j : Copied(k, j) => Copied(k, j)'
      BY <2>1, CopiedKept
    <2>4. result = "none"
      BY <1>0, <2>1 DEF Delivery
    <2> QED BY <2>1, <2>2, <2>3, <2>4
  <1>5. CASE AllocatePlane
    <2>1. /\ Reader /\ pc = "p_data" /\ pc' = "seek" /\ z' = 0 /\ out' = <<>>
          /\ ~AllocatePlaneFails
      BY <1>5 DEF AllocatePlane, AllocatePlaneFails, ReturnNull, Reader
    <2>2. /\ ReadNumbers /\ Planes' = Planes /\ Samples' = Samples
          /\ Lines' = Lines /\ s_skip' = s_skip /\ result' = "none"
          /\ Pixels(0, 0)' = Pixels(0, 0)
      BY <1>4, <2>1
    <2>3. /\ Pixels(0, 0) = 0 /\ Planes \in Nat /\ s_skip[3] \in Nat
      <3>1. Samples \in Nat /\ Lines \in Nat /\ Planes \in Nat /\ s_skip[3] \in Nat
        BY <2>2, Axes DEF ReadNumbers
      <3> QED BY <3>1, PixelCounts
    <2>4. Copied(0, 0)'
      <3>1. Len(out') = 0 /\ Pixels(0, 0)' = 0
        BY <2>1, <2>2, <2>3
      <3>2. 0..(0 - 1) = {}
        OBVIOUS
      <3> QED BY <3>1, <3>2 DEF Copied
    <2>5. 0 <= Planes' /\ z' = 0 * s_skip'[3]
      BY <2>1, <2>2, <2>3
    <2> QED BY <2>1, <2>2, <2>4, <2>5 DEF Delivery
  <1>6. CASE Seek \/ TakePlaneFromImage
    <2>1. /\ Reader /\ pc = "seek" /\ z < dim[3] /\ UNCHANGED <<z, out>>
          /\ ~AllocatePlaneFails
      BY <1>6 DEF Seek, TakePlaneFromImage, Reader, AllocatePlaneFails
    <2>2. PICK k \in Nat : k <= Planes /\ z = k * s_skip[3] /\ Copied(k, 0)
      BY <1>0, <2>1 DEF Delivery
    <2>3. /\ ReadNumbers /\ Lines' = Lines /\ Planes' = Planes
          /\ UNCHANGED s_skip /\ Copied(k, 0)' /\ result' = "none"
      BY <1>4, <2>1, <2>2
    <2>4. /\ dim[3] \in Nat /\ s_skip[3] \in Nat \ {0} /\ Planes \in Nat
          /\ Lines \in Nat /\ s_skip[2] \in Nat
      BY <2>3, Axes DEF ReadNumbers
    <2>5. k < Planes
      BY <2>1, <2>2, <2>4, StridesReached DEF Planes
    <2>6. CASE Seek
      <3>1. pc' = "read"
        BY <2>6 DEF Seek
      <3> QED BY <2>1, <2>2, <2>3, <2>5, <3>1 DEF Delivery
    <2>7. CASE TakePlaneFromImage
      <3>1. pc' = "line" /\ y' = 0 * s_skip'[2] /\ 0 <= Lines'
        BY <2>3, <2>4, <2>7 DEF TakePlaneFromImage
      <3> QED BY <2>1, <2>2, <2>3, <2>5, <3>1 DEF Delivery
    <2> QED BY <1>6, <2>6, <2>7
  <1>7. CASE SeekFails \/ PlanesDone
    <2>1. /\ Reader /\ pc = "seek" /\ pc' = "finish" /\ out' = out
          /\ ~AllocatePlaneFails
          /\ SeekFails => fault'
          /\ PlanesDone => z >= dim[3]
      BY <1>7 DEF SeekFails, PlanesDone, Reader, AllocatePlaneFails, locals
    <2>2. PICK k \in Nat : k <= Planes /\ z = k * s_skip[3] /\ Copied(k, 0)
      BY <1>0, <2>1 DEF Delivery
    <2>3. /\ ReadNumbers /\ Planes' = Planes /\ Copied(k, 0)' /\ result' = "none"
      BY <1>4, <2>1, <2>2
    <2>4. /\ dim[3] \in Nat /\ s_skip[3] \in Nat \ {0} /\ Planes \in Nat
      BY <2>3, Axes DEF ReadNumbers
    <2>5. ~fault' => k = Planes
      <3>1. z >= dim[3] => k >= Planes
        BY <2>2, <2>4, StridesReached DEF Planes
      <3> QED BY <1>7, <2>1, <2>2, <2>4, <3>1
    <2> QED BY <2>1, <2>2, <2>3, <2>5 DEF Delivery
  <1>8. CASE ReadChunk \/ ReadComplete \/ \E n \in 0..(Chunk - 1) : ReadShort(n)
    <2>1. /\ Reader /\ pc = "read" /\ pc' \in {"read", "check"}
          /\ UNCHANGED <<z, out>> /\ ~AllocatePlaneFails
      BY <1>8 DEF ReadChunk, ReadComplete, ReadShort, Reader,
         AllocatePlaneFails, locals
    <2>2. PICK k \in Nat : k < Planes /\ z = k * s_skip[3] /\ Copied(k, 0)
      BY <1>0, <2>1 DEF Delivery
    <2>3. /\ Planes' = Planes /\ UNCHANGED <<s_skip, plane>> /\ Copied(k, 0)'
          /\ result' = "none" /\ ReadNumbers
      BY <1>4, <2>1, <2>2
    <2>4. pc' = "check" /\ nread' # plane' => fault'
      <3>1. CASE ReadChunk
        BY <2>1, <3>1 DEF ReadChunk
      <3>2. CASE ReadComplete
        <4>1. Chunk = 0 /\ nread' = nread
          BY <3>2 DEF ReadComplete, locals
        <4>2. plane - nread = 0 /\ plane \in Nat /\ nread \in Nat
          BY <2>3, <4>1, MaxSingleReadSizeAssumption DEF Chunk, ReadNumbers
        <4> QED BY <2>3, <4>1, <4>2
      <3>3. CASE \E n \in 0..(Chunk - 1) : ReadShort(n)
        BY <3>3 DEF ReadShort
      <3> QED BY <1>8, <3>1, <3>2, <3>3
    <2> QED BY <2>1, <2>2, <2>3, <2>4 DEF Delivery
  <1>9. CASE CheckPlane
    <2>1. /\ Reader /\ pc = "check" /\ UNCHANGED <<z, out, fault>>
          /\ ~AllocatePlaneFails
          /\ \/ nread = plane /\ pc' = "line" /\ y' = 0
             \/ nread # plane /\ pc' = "finish"
      BY <1>9 DEF CheckPlane, Reader, AllocatePlaneFails
    <2>2. PICK k \in Nat : k < Planes /\ z = k * s_skip[3] /\ Copied(k, 0)
      BY <1>0, <2>1 DEF Delivery
    <2>3. /\ ReadNumbers /\ Lines' = Lines /\ Planes' = Planes
          /\ UNCHANGED s_skip /\ Copied(k, 0)' /\ result' = "none"
      BY <1>4, <2>1, <2>2
    <2>4. /\ Planes \in Nat /\ Lines \in Nat /\ s_skip[2] \in Nat
      BY <2>3, Axes DEF ReadNumbers
    <2>5. CASE nread = plane /\ pc' = "line" /\ y' = 0
      <3>1. y' = 0 * s_skip'[2] /\ 0 <= Lines'
        BY <2>3, <2>4, <2>5
      <3> QED BY <2>1, <2>2, <2>3, <2>5, <3>1 DEF Delivery
    <2>6. CASE nread # plane /\ pc' = "finish"
      <3>1. fault'
        BY <1>0, <2>1, <2>6 DEF Delivery
      <3>2. k <= Planes'
        BY <2>2, <2>3, <2>4
      <3> QED BY <2>2, <2>3, <2>6, <3>1, <3>2 DEF Delivery
    <2> QED BY <2>1, <2>5, <2>6
  <1>10. CASE CopyLine
    <2>1. /\ Reader /\ pc = "line" /\ pc' = "line" /\ y < dim[2]
          /\ z' = z /\ y' = y + s_skip[2] /\ ~AllocatePlaneFails
      BY <1>10 DEF CopyLine, Reader, AllocatePlaneFails
    <2>2. PICK k, j \in Nat : /\ k < Planes /\ z = k * s_skip[3]
                              /\ j <= Lines /\ y = j * s_skip[2] /\ Copied(k, j)
      BY <1>0, <2>1 DEF Delivery
    <2>3. /\ ReadNumbers /\ Lines' = Lines /\ Planes' = Planes
          /\ UNCHANGED s_skip /\ result' = "none"
      BY <1>4, <2>1
    <2>4. /\ Lines \in Nat /\ s_skip[2] \in Nat \ {0} /\ dim[2] \in Nat
      BY <2>3, Axes DEF ReadNumbers
    <2>5. j + 1 <= Lines
      BY <2>1, <2>2, <2>4, StridesReached DEF Lines
    <2>6. Copied(k, j + 1)'
      <3>1. j \in 0..(Lines - 1)
        BY <2>4, <2>5
      <3>2. z < dim[3] /\ base = PlaneOffset(head, size, s_lo, z)
        BY <1>0, <2>1 DEF PlaneTaken
      <3> QED BY <1>0, <1>10, <2>2, <2>3, <3>1, <3>2, LineDelivered
    <2>7. j + 1 \in Nat /\ y' = (j + 1) * s_skip'[2]
      <3>1. (j + 1) * s_skip[2] = j * s_skip[2] + s_skip[2]
        BY <2>4
      <3> QED BY <2>1, <2>2, <2>3, <3>1
    <2> QED BY <2>1, <2>2, <2>3, <2>5, <2>6, <2>7 DEF Delivery
  <1>11. CASE NextPlane
    <2>1. /\ Reader /\ pc = "line" /\ pc' = "seek" /\ y >= dim[2]
          /\ z' = z + s_skip[3] /\ out' = out /\ ~AllocatePlaneFails
      BY <1>11 DEF NextPlane, Reader, AllocatePlaneFails
    <2>2. PICK k, j \in Nat : /\ k < Planes /\ z = k * s_skip[3]
                              /\ j <= Lines /\ y = j * s_skip[2] /\ Copied(k, j)
      BY <1>0, <2>1 DEF Delivery
    <2>3. /\ ReadNumbers /\ Planes' = Planes /\ UNCHANGED s_skip
          /\ result' = "none" /\ Copied(k, j)'
          /\ \A a, b : Pixels(a, b)' = Pixels(a, b)
      BY <1>4, <2>1, <2>2
    <2>4. /\ Lines \in Nat /\ s_skip[2] \in Nat \ {0} /\ s_skip[3] \in Nat
          /\ dim[2] \in Nat /\ Planes \in Nat /\ Samples \in Nat
      BY <2>3, Axes DEF ReadNumbers
    <2>5. j = Lines
      <3>1. j >= Lines
        BY <2>1, <2>2, <2>4, StridesReached DEF Lines
      <3> QED BY <2>2, <2>4, <3>1
    <2>6. Pixels(k, j) = Pixels(k + 1, 0)
      BY <2>4, <2>5, PixelCounts
    <2>7. Copied(k + 1, 0)'
      <3>1. Pixels(k, j)' = Pixels(k + 1, 0)'
        BY <2>3, <2>6, Zenon
      <3> QED BY <2>3, <3>1 DEF Copied
    <2>8. k + 1 \in Nat /\ k + 1 <= Planes' /\ z' = (k + 1) * s_skip'[3]
      <3>1. (k + 1) * s_skip[3] = k * s_skip[3] + s_skip[3]
        BY <2>4
      <3> QED BY <2>1, <2>2, <2>3, <2>4, <3>1
    <2> QED BY <2>1, <2>3, <2>7, <2>8 DEF Delivery
  <1>12. CASE UNCHANGED vars
    <2>1. /\ UNCHANGED <<pc, z, y, nread, plane, fault, result, s_skip, out>>
          /\ UNCHANGED <<head, s_lo, s_skip, dim>>
      BY <1>12 DEF vars, header, slice, locals
    <2>2. /\ Lines' = Lines /\ Planes' = Planes
          /\ \A k, j : Copied(k, j) => Copied(k, j)'
      BY <2>1, CopiedKept
    <2> QED BY <1>0, <2>1, <2>2 DEF Delivery, Busy
  <1> QED BY <1>1, <1>2, <1>3, <1>5, <1>6, <1>7, <1>8, <1>9, <1>10, <1>11, <1>12
          DEF Next, Reader

\* It holds throughout.
LEMMA DeliveryInvariant == Spec => []DeliveryInv
  <1>1. Init => DeliveryInv
    BY TypeInvInit DEF Init, DeliveryInv, Shape, SameCube, PlaneTaken, Delivery,
       Busy, Internal
  <1>2. DeliveryInv /\ [Next]_vars => DeliveryInv'
    BY TypeInvStep, ShapeStep, SameCubeStep, PlaneTakenStep, DeliveryStep
    DEF DeliveryInv
  <1> QED BY <1>1, <1>2, PTL DEF Spec

-----------------------------------------------------------------------------
(* The reader keeps the promise. *)

\* The promise counts as this module does.
LEMMA PromiseCounts == \A S : Promise!Cardinality(S) = Cardinality(S)
BY DEF Promise!Cardinality, Cardinality

\* The coordinates from lo to hi, by strides of s.
Reached(n, lo, hi, s) ==
  {c \in 0..(n - 1) : lo <= c /\ c <= hi /\ (c - lo) % s = 0}

\* A loop makes as many iterations.
LEMMA StridesSelect ==
  ASSUME NEW n \in Nat, NEW lo \in Nat, NEW hi \in Nat, hi < n,
         NEW s \in Nat \ {0}, NEW d \in Nat, d = hi - lo + 1
  PROVE  Cardinality(Reached(n, lo, hi, s)) = Strides(d, s)
  <1> DEFINE T == {c \in 0..(n - 1) : lo <= c /\ c <= hi /\ (c - lo) % s = 0}
             m == Strides(d, s)
             f == [k \in 1..m |-> lo + (k - 1) * s]
  <1>1. m \in Nat
    BY StridesFitItems
  <1>2. ASSUME NEW k \in 1..m
        PROVE  f[k] \in T
    <2>1. k - 1 \in Nat /\ (k - 1) * s \in Nat
      BY <1>1, ProductNat
    <2>2. (k - 1) * s >= d => k - 1 >= m
      BY <2>1, StridesReached
    <2>3. (k - 1) * s < d
      BY <1>1, <2>1, <2>2
    <2>4. ((k - 1) * s) % s = 0
      <3>1. PICK a \in Nat : a = k - 1
        BY <2>1
      <3>2. 0 + s * a = a * s /\ 0 \in 0..(s - 1)
        BY <3>1
      <3>3. (0 + s * a) % s = 0
        BY <3>2, DivMod
      <3> QED BY <3>1, <3>2, <3>3
    <2>5. PICK p \in Nat : p = (k - 1) * s
      BY <2>1
    <2>6. f[k] = lo + p /\ (lo + p) - lo = p /\ p % s = 0 /\ p < d
      BY <2>3, <2>4, <2>5
    <2> HIDE DEF f
    <2>7. lo + p \in 0..(n - 1) /\ lo <= lo + p /\ lo + p <= hi
      BY <2>6
    <2>8. ((lo + p) - lo) % s = 0
      BY <2>6, Zenon
    <2> QED BY <2>6, <2>7, <2>8
  <1>3. ASSUME NEW c \in T
        PROVE  \E k \in 1..m : f[k] = c
    <2>1. c - lo \in Nat /\ c - lo < d /\ (c - lo) % s = 0
      OBVIOUS
    <2>2. PICK p \in Nat : p = c - lo
      BY <2>1
    <2>3. p \div s \in Nat /\ p = (p % s) + s * (p \div s)
      BY PartAndRest
    <2>4. PICK a \in Nat : a = p \div s
      BY <2>3
    <2>5. p = a * s
      <3>1. p % s = 0
        BY <2>1, <2>2
      <3>2. s * a = a * s
        OBVIOUS
      <3> QED BY <2>3, <2>4, <3>1, <3>2
    <2>6. a + 1 <= m
      <3>1. a * s < d
        BY <2>1, <2>2, <2>5
      <3> QED BY <3>1, StridesReached
    <2>7. a + 1 \in 1..m /\ (a + 1) - 1 = a
      BY <1>1, <2>6
    <2>8. f[a + 1] = lo + a * s
      BY <2>7
    <2>9. lo + a * s = c
      BY <2>2, <2>5
    <2> QED BY <2>7, <2>8, <2>9
  <1>4. ASSUME NEW k \in 1..m, NEW l \in 1..m, f[k] = f[l]
        PROVE  k = l
    <2>1. PICK a \in Nat, b \in Nat : a = k - 1 /\ b = l - 1
      BY <1>1
    <2>2. lo + a * s = lo + b * s /\ a * s \in Nat /\ b * s \in Nat
      BY <1>4, <2>1, ProductNat
    <2>3. (0 + s * a) \div s = a /\ (0 + s * b) \div s = b
      <3>1. 0 \in 0..(s - 1)
        OBVIOUS
      <3> QED BY <3>1, DivMod
    <2>4. 0 + s * a = 0 + s * b
      BY <2>2
    <2>5. a = b
      BY <2>3, <2>4
    <2> QED BY <1>1, <2>1, <2>5
  <1>5. f \in [1..m -> T]
    BY <1>2
  <1> HIDE DEF f, T, m
  <1>6. f \in Bijection(1..m, T)
    BY <1>3, <1>4, <1>5 DEF Bijection, Injection, IsInjective, Surjection
  <1>7. ExistsBijection(1..m, T)
    BY <1>6 DEF ExistsBijection
  <1>8. Cardinality(T) = m
    BY <1>1, <1>7, FS_CountingElements
  <1> QED BY <1>8 DEF T, m, Reached

\* While a read runs, what the promise calls the slice's bounds.
LEMMA BoundsOneBased ==
  ASSUME ReadNumbers, Busy, NEW i \in Axis
  PROVE  /\ OneBased(s_lo)[i] - 1 = s_lo[i] /\ OneBased(s_hi)[i] - 1 = s_hi[i]
         /\ Promise!CubeSize[i] = CubeItems(head, i)
  <1>1. s_lo[i] \in Nat /\ s_hi[i] \in Nat
    BY DEF ReadNumbers
  <1>2. OneBased(s_lo)[i] = s_lo[i] + 1 /\ OneBased(s_hi)[i] = s_hi[i] + 1
    BY DEF OneBased
  <1>3. Promise!CubeSize[i] = CubeItems(head, i)
    BY DEF Promise!CubeSize, CubeItems, Promise!Axis, Axis
  <1> QED BY <1>1, <1>2, <1>3

\* The promise counts as many coordinates as the loops run.
LEMMA SelectedCount ==
  ASSUME ReadNumbers, Busy, NEW i \in Axis
  PROVE  Promise!Cardinality(Promise!Selected(i)) = Strides(dim[i], s_skip[i])
  <1> DEFINE T == Reached(CubeItems(head, i), s_lo[i], s_hi[i], s_skip[i])
  <1>1. /\ OneBased(s_lo)[i] - 1 = s_lo[i] /\ OneBased(s_hi)[i] - 1 = s_hi[i]
        /\ Promise!CubeSize[i] = CubeItems(head, i)
    BY BoundsOneBased
  <1>2. Promise!Selected(i) =
          {c \in 0..(Promise!CubeSize[i] - 1) :
             /\ OneBased(s_lo)[i] - 1 <= c /\ c <= OneBased(s_hi)[i] - 1
             /\ (c - (OneBased(s_lo)[i] - 1)) % s_skip[i] = 0}
    BY DEF Promise!Selected
  <1>3. Promise!Selected(i) = T
    BY <1>1, <1>2 DEF Reached
  <1>4. Cardinality(T) = Strides(dim[i], s_skip[i])
    <2>1. /\ CubeItems(head, i) \in Nat /\ s_lo[i] \in Nat /\ s_hi[i] \in Nat
          /\ s_hi[i] < CubeItems(head, i) /\ s_skip[i] \in Nat \ {0}
          /\ dim[i] \in Nat /\ dim[i] = s_hi[i] - s_lo[i] + 1
      BY CubeNat DEF ReadNumbers
    <2>2. PICK n \in Nat, lo \in Nat, hi \in Nat, s \in Nat \ {0}, d \in Nat :
            /\ n = CubeItems(head, i) /\ lo = s_lo[i] /\ hi = s_hi[i]
            /\ s = s_skip[i] /\ d = dim[i]
      BY <2>1
    <2>3. hi < n /\ d = hi - lo + 1
      BY <2>1, <2>2
    <2>4. Cardinality(Reached(n, lo, hi, s)) = Strides(d, s)
      BY <2>3, StridesSelect
    <2> QED BY <2>2, <2>4, Zenon
  <1> HIDE DEF T
  <1> QED BY <1>3, <1>4, PromiseCounts, Zenon

\* What has been copied is the sub-cube's first planes.
LEMMA CopiedIsSubCube ==
  ASSUME ReadNumbers, Busy, head \in Headers, NEW k \in Nat, Copied(k, 0)
  PROVE  Promise!SubCube(k) = Delivered
  <1> DEFINE nx == Promise!Cardinality(Promise!Selected(1))
             ny == Promise!Cardinality(Promise!Selected(2))
             t == [i \in 1..(k * nx * ny) |->
                     <<Promise!Nth(1, (i - 1) % nx),
                       Promise!Nth(2, ((i - 1) \div nx) % ny),
                       Promise!Nth(3, (i - 1) \div (nx * ny))>>]
  <1>1. nx = Samples /\ ny = Lines
    BY SelectedCount, Axes DEF Samples, Lines
  <1>2. Promise!SubCube(k) = t
    BY DEF Promise!SubCube
  <1>3. Samples \in Nat /\ Lines \in Nat /\ out \in Seq(Nat)
    BY DEF ReadNumbers
  <1> HIDE DEF nx, ny
  <1>4. PICK n \in Nat : n = Pixels(k, 0) /\ n = k * nx * ny
    <2>1. Pixels(k, 0) = Samples * (0 + k * Lines)
      BY DEF Pixels
    <2>2. Samples * (0 + k * Lines) = k * Samples * Lines
      BY <1>3
    <2>3. Pixels(k, 0) \in Nat
      BY <1>3, PixelCounts
    <2> QED BY <1>1, <2>1, <2>2, <2>3
  <1>5. /\ Len(out) = n
        /\ \A q \in 0..(n - 1) :
             ByteAt(FileBytes(head), out[q + 1], PixelNo(q))
    BY <1>4 DEF Copied
  <1>6. Delivered = [i \in 1..n |-> FileBytes(head)[out[i] + 1]]
    BY <1>5 DEF Delivered, Files
  <1>7. ASSUME NEW c \in Nat, NEW i \in Axis
        PROVE  Promise!Nth(i, c) = s_lo[i] + c * s_skip[i]
    <2>1. OneBased(s_lo)[i] - 1 = s_lo[i]
      BY BoundsOneBased
    <2> QED BY <2>1 DEF Promise!Nth
  <1>8. ASSUME NEW i \in 1..n
        PROVE  FileBytes(head)[out[i] + 1] = t[i]
    <2>1. PICK q \in 0..(n - 1) : q = i - 1 /\ i = q + 1
      OBVIOUS
    <2>2. ByteAt(FileBytes(head), out[i], PixelNo(q))
      BY <1>5, <2>1
    <2>3. FileBytes(head)[out[i] + 1] = PixelNo(q)
      BY <2>2 DEF ByteAt
    <2>4. Samples # 0 /\ Lines # 0
      <3>1. n # 0
        OBVIOUS
      <3>2. k * 0 * ny = 0 /\ k * nx * 0 = 0
        BY <1>1, <1>3
      <3> QED BY <1>1, <1>4, <3>1, <3>2
    <2>5. /\ q % Samples \in Nat /\ q \div Samples \in Nat
          /\ (q \div Samples) % Lines \in Nat
          /\ q \div (Samples * Lines) \in Nat
      <3>1. /\ q \in Nat /\ Samples \in Nat \ {0} /\ Lines \in Nat \ {0}
            /\ Samples * Lines \in Nat \ {0}
        BY <1>3, <2>4
      <3>2. q % Samples \in Nat /\ q \div Samples \in Nat
        BY <3>1, PartAndRest
      <3>3. (q \div Samples) % Lines \in Nat
        BY <3>1, <3>2, PartAndRest
      <3>4. q \div (Samples * Lines) \in Nat
        BY <3>1, PartAndRest
      <3> QED BY <3>2, <3>3, <3>4
    <2>6. /\ Promise!Nth(1, q % Samples) = s_lo[1] + (q % Samples) * s_skip[1]
          /\ Promise!Nth(2, (q \div Samples) % Lines)
               = s_lo[2] + ((q \div Samples) % Lines) * s_skip[2]
          /\ Promise!Nth(3, q \div (Samples * Lines))
               = s_lo[3] + (q \div (Samples * Lines)) * s_skip[3]
      BY <1>7, <2>5, Axes
    <2>7. t[i] = <<Promise!Nth(1, q % Samples),
                   Promise!Nth(2, (q \div Samples) % Lines),
                   Promise!Nth(3, q \div (Samples * Lines))>>
      BY <1>1, <1>4, <2>1
    <2> QED BY <2>3, <2>6, <2>7 DEF PixelNo
  <1>9. t = [i \in 1..n |-> t[i]]
    BY <1>4
  <1> HIDE DEF t
  <1> QED BY <1>2, <1>6, <1>8, <1>9

\* The initial state is one of the promise, and each step of the reader is a
\* step of the promise or leaves all of it as it is.
LEMMA PromiseInit == Init => Promise!SInit
BY DEF Init, Promise!SInit, Promise!Whole, Promise!NoReply, Promise!Zero3,
   Promise!One3, Zero3, One3, OneBased, Busy, Internal

\* A step that leaves all the promise speaks of.
LEMMA PromiseUnmoved ==
  ASSUME UNCHANGED <<head, attached, s_lo, s_hi, s_skip, fault, result, out>>,
         Busy' = Busy, ~Busy => pc' = pc
  PROVE  UNCHANGED Promise!svars
  <1>1. OneBased(s_lo)' = OneBased(s_lo) /\ OneBased(s_hi)' = OneBased(s_hi)
    BY DEF OneBased
  <1>2. Delivered' = Delivered
    BY DEF Delivered
  <1> QED BY <1>1, <1>2 DEF Promise!svars

LEMMA PromiseLoad ==
  ASSUME NEW g \in Headers, Load(g)
  PROVE  Promise!SLoad(g)
BY DEF Load, Promise!SLoad, Promise!Whole, Promise!NoReply, Promise!Zero3,
   Promise!One3, Zero3, One3, OneBased, Busy, Internal

\* The file's axis j is one axis of the user's.
LEMMA OneUserAxis ==
  ASSUME NEW org \in Orgs, NEW j \in Axis
  PROVE  \E i \in Axis : /\ iom_orders[org][i] = j
                         /\ UserAxis(org, j) = i
                         /\ \A k \in Axis : iom_orders[org][k] = j => k = i
BY DEF Orgs, Axis, iom_orders, UserAxis

LEMMA PromiseSetSlice ==
  ASSUME TypeInv, NEW s \in UserSlices, SetSliceInHeader(s)
  PROVE  Promise!SSetSlice(s)
  <1> DEFINE Put(user, old) ==
           [j \in Promise!Axis |->
              IF \E i \in Promise!Axis :
                   Promise!iom_orders[head.org][i] = j /\ user[i] > 0
                THEN user[CHOOSE i \in Promise!Axis :
                            Promise!iom_orders[head.org][i] = j]
                ELSE old[j]]
  <1>1. head.org \in Orgs
    BY HeadersAssumption DEF TypeInv, TypeOK, CubeHeader
  <1>2. Promise!Axis = Axis /\ Promise!iom_orders = iom_orders
    BY DEF Promise!Axis, Axis, Promise!iom_orders, iom_orders
  <1>3. ASSUME NEW user, NEW old
        PROVE  Merge(user, old) = Put(user, old)
    <2>1. ASSUME NEW j \in Axis
          PROVE  Put(user, old)[j] = Merge(user, old)[j]
      <3>1. PICK i \in Axis : /\ iom_orders[head.org][i] = j
                              /\ UserAxis(head.org, j) = i
                              /\ \A k \in Axis : iom_orders[head.org][k] = j => k = i
        BY <1>1, OneUserAxis
      <3>2. Merge(user, old)[j] = IF user[i] > 0 THEN user[i] ELSE old[j]
        BY <3>1 DEF Merge
      <3>3. (CHOOSE k \in Axis : iom_orders[head.org][k] = j) = i
        BY <3>1 DEF UserAxis
      <3>4. (\E k \in Axis : iom_orders[head.org][k] = j /\ user[k] > 0)
              <=> user[i] > 0
        BY <3>1
      <3>5. Put(user, old)[j] =
              IF \E k \in Axis : iom_orders[head.org][k] = j /\ user[k] > 0
                THEN user[CHOOSE k \in Axis : iom_orders[head.org][k] = j]
                ELSE old[j]
        BY <1>2
      <3> HIDE DEF Put
      <3> QED BY <3>2, <3>3, <3>4, <3>5
    <2>2. Merge(user, old) = [j \in Axis |-> Merge(user, old)[j]]
      BY DEF Merge
    <2>3. Put(user, old) = [j \in Axis |-> Put(user, old)[j]]
      BY <1>2
    <2> HIDE DEF Put
    <2> QED BY <2>1, <2>2, <2>3
  <1>4. ~Busy /\ ~Busy' /\ pc = "idle" /\ pc' = "idle"
    BY DEF SetSliceInHeader, Busy, Internal
  <1>5. /\ OneBased(s_lo) = s_lo /\ OneBased(s_hi) = s_hi
        /\ OneBased(s_lo)' = s_lo' /\ OneBased(s_hi)' = s_hi'
    BY <1>4 DEF OneBased
  <1>6. s_lo' = Put(s.lo, s_lo) /\ s_hi' = Put(s.hi, s_hi)
        /\ s_skip' = Put(s.skip, s_skip)
    BY <1>3 DEF SetSliceInHeader
  <1>7. UNCHANGED <<head, attached, fault, result>> /\ Delivered' = Delivered
    BY DEF SetSliceInHeader, locals, Delivered
  <1> HIDE DEF Put
  <1>8. [lo |-> OneBased(s_lo), hi |-> OneBased(s_hi), skip |-> s_skip]'
          = [lo |-> Put(s.lo, OneBased(s_lo)), hi |-> Put(s.hi, OneBased(s_hi)),
             skip |-> Put(s.skip, s_skip)]
    BY <1>5, <1>6
  <1> QED BY <1>4, <1>7, <1>8 DEF Promise!SSetSlice, Put

LEMMA PromiseClearSlice ==
  ASSUME ClearSliceInHeader
  PROVE  Promise!SClearSlice
  <1>1. ~Busy /\ ~Busy' /\ pc = "idle" /\ pc' = "idle"
    BY DEF ClearSliceInHeader, Busy, Internal
  <1>2. /\ OneBased(s_lo)' = Zero3 /\ OneBased(s_hi)' = Zero3 /\ s_skip' = Zero3
    BY <1>1 DEF OneBased, ClearSliceInHeader
  <1>3. UNCHANGED <<head, attached, fault, result>> /\ Delivered' = Delivered
    BY DEF ClearSliceInHeader, locals, Delivered
  <1> QED BY <1>1, <1>2, <1>3 DEF Promise!SClearSlice, Promise!Whole,
             Promise!Zero3, Promise!One3, Zero3, One3

LEMMA PromiseDetach ==
  ASSUME DetachData \/ Cleanup
  PROVE  Promise!SDetach \/ Promise!SCleanup
  <1>1. /\ ~Busy /\ ~Busy' /\ pc = "idle" /\ attached' = FALSE
        /\ UNCHANGED <<head, s_lo, s_hi, s_skip, fault, result, out>>
        /\ DetachData => pc' = "idle"
        /\ Cleanup => pc' = "closed"
    BY DEF DetachData, Cleanup, Busy, Internal, slice, locals
  <1>2. /\ OneBased(s_lo)' = OneBased(s_lo) /\ OneBased(s_hi)' = OneBased(s_hi)
        /\ Delivered' = Delivered
    BY <1>1 DEF OneBased, Delivered
  <1> QED BY <1>1, <1>2 DEF Promise!SDetach, Promise!SCleanup

LEMMA PromiseCall ==
  ASSUME TypeInv, SameCube, ReadQubeData
  PROVE  Promise!SCall
  <1>1. /\ pc = "idle" /\ pc' = "data" /\ ~Busy /\ Busy'
        /\ (head.inMemory => attached) /\ UNCHANGED <<head, attached>>
        /\ fault' = FALSE /\ result' = "none"
    BY DEF ReadQubeData, Busy, Internal
  <1>2. OneBased(s_lo) = s_lo /\ OneBased(s_hi) = s_hi
    BY <1>1 DEF OneBased
  <1>3. \A i \in Axis : Promise!CubeSize[i] = DefaultSize[i]
    BY <1>1 DEF SameCube, CubeItems, DefaultSize, Promise!CubeSize,
       Promise!Axis, Axis
  <1>4. /\ DefaultLo \in [Axis -> Nat] /\ DefaultHi \in [Axis -> Nat]
    BY DefaultsNat DEF TypeInv
  <1>5. /\ s_lo' = [i \in Axis |-> DefaultLo[i] - 1]
        /\ s_hi' = [i \in Axis |-> DefaultHi[i] - 1]
        /\ s_skip' = DefaultSkip
    BY DEF ReadQubeData
  <1>6. OneBased(s_lo)' = DefaultLo
    <2>1. OneBased(s_lo)' = [i \in Axis |-> s_lo'[i] + 1]
      BY <1>1 DEF OneBased
    <2>2. \A i \in Axis : s_lo'[i] + 1 = DefaultLo[i]
      BY <1>4, <1>5
    <2> QED BY <1>4, <2>1, <2>2
  <1>7. OneBased(s_hi)' = DefaultHi
    <2>1. OneBased(s_hi)' = [i \in Axis |-> s_hi'[i] + 1]
      BY <1>1 DEF OneBased
    <2>2. \A i \in Axis : s_hi'[i] + 1 = DefaultHi[i]
      BY <1>4, <1>5
    <2> QED BY <1>4, <2>1, <2>2
  <1>8. /\ DefaultLo = [i \in Promise!Axis |-> IF s_lo[i] = 0 THEN 1 ELSE s_lo[i]]
        /\ DefaultSkip =
             [i \in Promise!Axis |-> IF s_skip[i] = 0 THEN 1 ELSE s_skip[i]]
        /\ DefaultHi =
             [i \in Promise!Axis |->
                IF s_hi[i] = 0 \/ s_hi[i] > Promise!CubeSize[i]
                  THEN Promise!CubeSize[i] ELSE s_hi[i]]
    BY <1>3 DEF DefaultLo, DefaultHi, DefaultSkip, Promise!Axis, Axis
  <1>9. [lo |-> OneBased(s_lo)', hi |-> OneBased(s_hi)', skip |-> s_skip']
          = Promise!Effective
    BY <1>2, <1>5, <1>6, <1>7, <1>8 DEF Promise!Effective
  <1> QED BY <1>1, <1>9 DEF Promise!SCall, Promise!NoReply

\* A failed seek or a short read is a fault of the file.
LEMMA PromiseFault ==
  ASSUME PlaneTaken, SeekFails \/ \E n \in 0..(Chunk - 1) : ReadShort(n)
  PROVE  Promise!SFault
  <1>1. /\ Busy /\ Busy' /\ ~attached /\ fault' = TRUE
        /\ UNCHANGED <<head, attached, s_lo, s_hi, s_skip, result, out>>
    BY DEF SeekFails, ReadShort, PlaneTaken, Busy, Internal, header, slice, locals
  <1>2. /\ OneBased(s_lo)' = OneBased(s_lo) /\ OneBased(s_hi)' = OneBased(s_hi)
        /\ Delivered' = Delivered
    BY <1>1 DEF OneBased, Delivered
  <1> QED BY <1>1, <1>2 DEF Promise!SFault

\* Putting the slice back is turning it 1-based.
LEMMA SliceBack ==
  ASSUME RestoreSlice, Busy, ~Busy'
  PROVE  /\ OneBased(s_lo)' = OneBased(s_lo) /\ OneBased(s_hi)' = OneBased(s_hi)
         /\ s_skip' = s_skip
BY DEF RestoreSlice, OneBased

LEMMA PromiseReturnNull ==
  ASSUME AllocateDataFails \/ AllocatePlaneFails
  PROVE  Promise!SReturnNull
  <1>1. /\ Busy /\ ~Busy' /\ pc' = "idle" /\ RestoreSlice /\ result' = "NULL"
        /\ UNCHANGED <<head, attached, fault>>
    BY DEF AllocateDataFails, AllocatePlaneFails, ReturnNull, Busy, Internal
  <1>2. /\ OneBased(s_lo)' = OneBased(s_lo) /\ OneBased(s_hi)' = OneBased(s_hi)
        /\ s_skip' = s_skip
    BY <1>1, SliceBack
  <1> QED BY <1>1, <1>2 DEF Promise!SReturnNull

LEMMA PromiseReturnData ==
  ASSUME DeliveryInv, ReturnData
  PROVE  Promise!SReturnData
  <1>1. /\ Busy /\ ~Busy' /\ pc = "finish" /\ pc' = "idle" /\ RestoreSlice
        /\ result' = "data" /\ UNCHANGED <<head, attached, fault, out>>
    BY DEF ReturnData, Busy, Internal
  <1>2. /\ OneBased(s_lo)' = OneBased(s_lo) /\ OneBased(s_hi)' = OneBased(s_hi)
        /\ s_skip' = s_skip
    BY <1>1, SliceBack
  <1>3. ReadNumbers /\ head \in Headers
    <2>1. pc # "data"
      BY <1>1
    <2> QED BY <1>1, <2>1, ReadNumbersHold DEF DeliveryInv, TypeInv, TypeOK
  <1>4. PICK k \in Nat : k <= Planes /\ Copied(k, 0) /\ (~fault => k = Planes)
    BY <1>1 DEF DeliveryInv, Delivery
  <1>5. Promise!Cardinality(Promise!Selected(3)) = Planes
    BY <1>1, <1>3, SelectedCount, Axes DEF Planes
  <1>6. Promise!SubCube(k) = Delivered
    BY <1>1, <1>3, <1>4, CopiedIsSubCube
  <1>7. Delivered' = Delivered
    BY <1>1 DEF Delivered
  <1>8. k \in 0..Promise!Cardinality(Promise!Selected(3))
    <2>1. Planes \in Nat
      BY <1>3 DEF ReadNumbers
    <2>2. k \in 0..Planes
      BY <1>4, <2>1
    <2> QED BY <1>5, <2>2
  <1>9. ~fault => k = Promise!Cardinality(Promise!Selected(3))
    BY <1>4, <1>5
  <1>10. [kind |-> result', pixels |-> IF result' = "data" THEN Delivered' ELSE <<>>]
           = [kind |-> "data", pixels |-> Promise!SubCube(k)]
    BY <1>1, <1>6, <1>7
  <1> QED BY <1>1, <1>2, <1>8, <1>9, <1>10 DEF Promise!SReturnData

\* The other steps of a read are none of the caller's.
LEMMA PromiseReading ==
  ASSUME \/ AllocateData \/ AllocatePlane \/ Seek \/ TakePlaneFromImage
         \/ ReadChunk \/ ReadComplete \/ CheckPlane \/ CopyLine \/ NextPlane
         \/ PlanesDone,
         Delivery
  PROVE  UNCHANGED Promise!svars
  <1>1. /\ Busy /\ Busy'
        /\ UNCHANGED <<head, attached, s_lo, s_hi, s_skip, fault, result>>
    BY DEF AllocateData, AllocatePlane, Seek, TakePlaneFromImage, ReadChunk,
       ReadComplete, CheckPlane, CopyLine, NextPlane, PlanesDone, Busy,
       Internal, header, slice, locals
  <1>2. OneBased(s_lo)' = OneBased(s_lo) /\ OneBased(s_hi)' = OneBased(s_hi)
    BY <1>1 DEF OneBased
  <1>3. result = "none" /\ result' = "none"
    BY <1>1 DEF Delivery
  <1> QED BY <1>1, <1>2, <1>3 DEF Promise!svars

LEMMA PromiseStep ==
  ASSUME DeliveryInv, [Next]_vars
  PROVE  [Promise!SNext]_(Promise!svars)
  <1>0. TypeInv /\ SameCube /\ PlaneTaken /\ Delivery
    BY DEF DeliveryInv
  <1>1. CASE Caller
    BY <1>0, <1>1, PromiseLoad, PromiseSetSlice, PromiseClearSlice,
       PromiseDetach, PromiseCall
    DEF Caller, Promise!SNext
  <1>2. CASE Reader
    BY <1>0, <1>2, PromiseFault, PromiseReturnNull, PromiseReturnData,
       PromiseReading DEF Reader, Promise!SNext
  <1>3. CASE UNCHANGED vars
    BY <1>3, PromiseUnmoved DEF vars, header, slice, locals, Busy
  <1> QED BY <1>1, <1>2, <1>3 DEF Next

\* For every header, every sequence of slices and calls and every failure, the
\* reader answers each read with NULL or with whole planes of exactly the pixels
\* the slice selects, in file order and all of them unless the file failed, and
\* leaves the slice it worked on in the header.
THEOREM ImplementsQubeSpecThm == Spec => ImplementsQubeSpec
  <1>1. Spec => []DeliveryInv
    BY DeliveryInvariant
  <1>2. DeliveryInv /\ [Next]_vars => [Promise!SNext]_(Promise!svars)
    BY PromiseStep
  <1> QED BY <1>1, <1>2, PromiseInit, PTL
          DEF Spec, ImplementsQubeSpec, Promise!SSpec

=============================================================================
