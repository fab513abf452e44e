----------------------------- MODULE QubeReader -----------------------------
(***************************************************************************)
(* The life of a struct iom_iheader and the generalized cube reader that   *)
(* works from it: iom_init_iheader, iom_SetSliceInHeader,                  *)
(* iom_ClearSliceInHeader, iom_read_qube_data, iom_detach_iheader_data and *)
(* iom_cleanup_iheader.                                                    *)
(*                                                                         *)
(* The caller is one thread, but a read is not one step: it allocates two  *)
(* blocks, and for each plane seeks, reads in chunks and copies line by    *)
(* line, and every one of these may fail.  Meanwhile the slice in the      *)
(* header is held 0-based, and every way out has to put it back.           *)
(*                                                                         *)
(* Blocks hold no data: an element of the output is the file offset of the *)
(* pixel it was copied from.                                               *)
(***************************************************************************)
EXTENDS QubeGeometry, Sequences

CONSTANTS
  Headers,           \* the headers a loader may produce
  UserSlices,        \* the slices a caller may ask for (in BSQ order)
  MaxSingleReadSize  \* the most one read(2) is asked for (1 GiB in the code)

ASSUME HeadersAssumption == Headers \subseteq CubeHeader
ASSUME SlicesAssumption ==
  UserSlices \subseteq [lo : [Axis -> Int], hi : [Axis -> Int],
                        skip : [Axis -> Int]]
ASSUME MaxSingleReadSizeAssumption == MaxSingleReadSize \in Nat \ {0}

VARIABLES
  \* the header
  head, size, s_lo, s_hi, s_skip, dim,
  format,    \* "unset" or the internal format of the items
  attached,  \* h->data is not NULL
  \* the reader's locals
  pc, dsize, plane, z, y, count, nread,
  base,      \* the offset the plane in p_data was read from
  out,       \* the source offsets of the pixels copied to data so far
  \* what the caller sees and what the heap holds
  result,    \* outcome of the latest read
  live,      \* blocks the library has allocated and still owns
  fault,     \* the latest read met an I/O error or an early end of file
  asked      \* the 1-based slice the latest read was entered with

slice == <<s_lo, s_hi, s_skip>>
header == <<head, size, slice, dim, format, attached>>
locals == <<dsize, plane, z, y, count, nread, base, out>>
vars == <<header, locals, pc, result, live, fault, asked>>

None == [lo |-> Zero3, hi |-> Zero3]
Internal == {"data", "p_data", "seek", "read", "check", "line", "finish"}
Busy == pc \in Internal

\* The dead locals of a read that returns are forgotten.
ForgetLocals ==
  /\ dsize' = 0 /\ plane' = 0 /\ z' = 0 /\ y' = 0
  /\ count' = 0 /\ nread' = 0 /\ base' = 0

-----------------------------------------------------------------------------
(***************************************************************************)
(* The header between reads.                                               *)
(***************************************************************************)

\* iom_init_iheader and a loader: the slice is empty, whatever it was before.
Load(g) ==
  /\ pc = "closed"
  /\ pc' = "idle"
  /\ head' = g
  /\ size' = g.size
  /\ s_lo' = Zero3 /\ s_hi' = Zero3 /\ s_skip' = One3
  /\ dim' = Zero3
  /\ format' = IF g.inMemory THEN "native" ELSE "unset"
  /\ attached' = g.inMemory
  /\ live' = IF g.inMemory THEN live \cup {"image"} ELSE live
  /\ result' = "none"
  /\ asked' = None
  /\ fault' = FALSE
  /\ out' = <<>>
  /\ ForgetLocals

\* A field of the user's slice replaces the header's only when it is positive.
Merge(user, old) ==
  [j \in Axis |->
     LET i == UserAxis(head.org, j)
     IN  IF user[i] > 0 THEN user[i] ELSE old[j]]

SetSliceInHeader(s) ==
  /\ pc = "idle"
  /\ s_lo' = Merge(s.lo, s_lo)
  /\ s_hi' = Merge(s.hi, s_hi)
  /\ s_skip' = Merge(s.skip, s_skip)
  /\ UNCHANGED <<head, size, dim, format, attached, locals, pc, result, live,
                 fault, asked>>

ClearSliceInHeader ==
  /\ pc = "idle"
  /\ s_lo' = Zero3 /\ s_hi' = Zero3 /\ s_skip' = Zero3
  /\ UNCHANGED <<head, size, dim, format, attached, locals, pc, result, live,
                 fault, asked>>

\* The image passes to the caller; "once the memory resident data is detached
\* one must not call read_qube_data()".
DetachData ==
  /\ pc = "idle"
  /\ attached' = FALSE
  /\ live' = live \ {"image"}
  /\ UNCHANGED <<head, size, slice, dim, format, locals, pc, result, fault,
                 asked>>

Cleanup ==
  /\ pc = "idle"
  /\ pc' = "closed"
  /\ attached' = FALSE
  /\ live' = IF attached THEN live \ {"image"} ELSE live
  /\ UNCHANGED <<head, size, slice, dim, format, locals, result, fault,
                 asked>>

-----------------------------------------------------------------------------
(***************************************************************************)
(* iom_read_qube_data.                                                     *)
(***************************************************************************)

DefaultSize == [i \in Axis |-> IF size[i] = 0 THEN 1 ELSE size[i]]

DefaultLo == [i \in Axis |-> IF s_lo[i] = 0 THEN 1 ELSE s_lo[i]]

\* Mutant: a slice beyond the cube is not cut to it.
HiUnclipped ==
  [i \in Axis |-> IF s_hi[i] = 0 THEN DefaultSize[i] ELSE s_hi[i]]

DefaultHi ==
  [i \in Axis |-> IF s_hi[i] = 0 \/ s_hi[i] > DefaultSize[i]
                    THEN DefaultSize[i] ELSE s_hi[i]]
DefaultSkip == [i \in Axis |-> IF s_skip[i] = 0 THEN 1 ELSE s_skip[i]]

Extent == [i \in Axis |-> DefaultHi[i] - DefaultLo[i] + 1]

OutputItems ==
  Items(Extent[1], DefaultSkip[1]) * Items(Extent[2], DefaultSkip[2])
    * Items(Extent[3], DefaultSkip[3])

(***************************************************************************)
(* A slice whose lower end lies beyond its upper end has a negative extent.*)
(* One such axis makes dsize wrap round to an allocation no heap grants.   *)
(* When the factors multiply to a size that can be granted, the loops run  *)
(* on a negative bound converted to size_t: that call is outside the       *)
(* reader's contract, and so outside this model.                           *)
(***************************************************************************)
SliceInContract ==
  OutputItems >= 0 => \A i \in Axis : Extent[i] >= 0

ReadQubeData ==
  /\ pc = "idle"
  /\ head.inMemory => attached
  /\ SliceInContract
  /\ size' = DefaultSize
  /\ s_lo' = [i \in Axis |-> DefaultLo[i] - 1]
  /\ s_hi' = [i \in Axis |-> DefaultHi[i] - 1]
  /\ s_skip' = DefaultSkip
  /\ dim' = Extent
  /\ dsize' = OutputItems
  /\ asked' = [lo |-> DefaultLo, hi |-> DefaultHi]
  /\ result' = "none"
  /\ fault' = FALSE
  /\ pc' = "data"
  /\ UNCHANGED <<head, format, attached, live, plane, z, y, count, nread, base,
                 out>>

\* Mutant: one of the two fields is not put back.
RestoreLowOnly ==
  /\ s_lo' = [i \in Axis |-> s_lo[i] + 1]
  /\ UNCHANGED <<s_hi, s_skip>>

\* s_lo[i]++ and s_hi[i]++ of every exit.
RestoreSlice ==
  /\ s_lo' = [i \in Axis |-> s_lo[i] + 1]
  /\ s_hi' = [i \in Axis |-> s_hi[i] + 1]
  /\ UNCHANGED s_skip

\* Mutant: the failure of the second allocation leaks the first block.
ReturnNullLeaking(freed) ==
  /\ RestoreSlice /\ ForgetLocals
  /\ out' = <<>> /\ result' = "NULL" /\ pc' = "idle"
  /\ UNCHANGED <<head, size, dim, format, attached, live, fault, asked>>

\* An allocation failed: free what there is, put the slice back, answer NULL.
ReturnNull(freed) ==
  /\ live' = live \ freed
  /\ RestoreSlice
  /\ ForgetLocals
  /\ out' = <<>>
  /\ result' = "NULL"
  /\ pc' = "idle"
  /\ UNCHANGED <<head, size, dim, format, attached, fault, asked>>

AllocateData ==
  /\ pc = "data"
  /\ dsize >= 0
  /\ live' = live \cup {"data"}
  /\ plane' = LineBytes(head, size) * dim[2]
  /\ pc' = "p_data"
  /\ UNCHANGED <<header, dsize, z, y, count, nread, base, out, result, fault,
                 asked>>

AllocateDataFails ==
  /\ pc = "data"
  /\ ReturnNull({})

AllocatePlane ==
  /\ pc = "p_data"
  /\ live' = live \cup {"p_data"}
  /\ z' = 0
  /\ count' = 0
  /\ out' = <<>>
  /\ pc' = "seek"
  /\ UNCHANGED <<header, dsize, plane, y, nread, base, result, fault, asked>>

AllocatePlaneFails ==
  /\ pc = "p_data"
  /\ ReturnNull({"data"})

\* The head of the plane loop, and lseek.
Seek ==
  /\ pc = "seek"
  /\ z < dim[3]
  /\ ~attached
  /\ base' = PlaneOffset(head, size, s_lo, z)
  /\ nread' = 0
  /\ pc' = "read"
  /\ UNCHANGED <<header, dsize, plane, z, y, count, out, result, live, fault,
                 asked>>

SeekFails ==
  /\ pc = "seek"
  /\ z < dim[3]
  /\ ~attached
  /\ fault' = TRUE
  /\ pc' = "finish"
  /\ UNCHANGED <<header, locals, result, live, asked>>

\* memcpy of the plane from the attached image.
TakePlaneFromImage ==
  /\ pc = "seek"
  /\ z < dim[3]
  /\ attached
  /\ base' = PlaneOffset(head, size, s_lo, z)
  /\ y' = 0
  /\ pc' = "line"
  /\ UNCHANGED <<header, dsize, plane, z, count, nread, out, result, live,
                 fault, asked>>

\* What read_fully asks of the next read(2).
Chunk ==
  IF plane - nread > MaxSingleReadSize THEN MaxSingleReadSize
  ELSE plane - nread

ReadChunk ==
  /\ pc = "read"
  /\ Chunk > 0
  /\ nread' = nread + Chunk
  /\ UNCHANGED <<header, dsize, plane, z, y, count, base, out, pc, result,
                 live, fault, asked>>

\* A short count, end of file or an error (n = 0): read_fully gives up.
ReadShort(n) ==
  /\ pc = "read"
  /\ n < Chunk
  /\ nread' = nread + n
  /\ fault' = TRUE
  /\ pc' = "check"
  /\ UNCHANGED <<header, dsize, plane, z, y, count, base, out, result, live,
                 asked>>

ReadComplete ==
  /\ pc = "read"
  /\ Chunk = 0
  /\ pc' = "check"
  /\ UNCHANGED <<header, locals, result, live, fault, asked>>

\* Mutant: the plane is tried again, and again, until it can be read.
RetryPlane ==
  /\ pc = "check"
  /\ IF nread = plane
       THEN pc' = "line" /\ y' = 0
       ELSE pc' = "seek" /\ UNCHANGED y
  /\ nread' = 0
  /\ UNCHANGED <<header, dsize, plane, z, count, base, out, result, live,
                 fault, asked>>

\* read_fully(...) != plane: stop with the planes that are whole.
CheckPlane ==
  /\ pc = "check"
  /\ IF nread = plane
       THEN pc' = "line" /\ y' = 0
       ELSE pc' = "finish" /\ UNCHANGED y
  /\ nread' = 0
  /\ UNCHANGED <<header, dsize, plane, z, count, base, out, result, live,
                 fault, asked>>

\* Mutant: the line is counted from the start of the file's plane, although
\* p_data starts at line s_lo[1].
LineStartInFilePlane ==
  head.prefix[1] + s_lo[1] * head.nbytes
    + (y + s_lo[2]) * LineBytes(head, size)

\* Where in p_data line y of the slice begins.
LineStart == head.prefix[1] + s_lo[1] * head.nbytes + y * LineBytes(head, size)

\* The pixels of one line: one memcpy of the whole run when samples are not
\* skipped, else one per pixel.
LinePixels == IF s_skip[1] = 1 THEN dim[1] ELSE Strides(dim[1], s_skip[1])

CopyLine ==
  /\ pc = "line"
  /\ y < dim[2]
  /\ out' = out \o [x \in 1..LinePixels |->
                      base + LineStart + (x - 1) * s_skip[1] * head.nbytes]
  /\ count' = count + LinePixels * head.nbytes
  /\ y' = y + s_skip[2]
  /\ UNCHANGED <<header, dsize, plane, z, nread, base, pc, result, live, fault,
                 asked>>

NextPlane ==
  /\ pc = "line"
  /\ y >= dim[2]
  /\ z' = z + s_skip[3]
  /\ y' = 0
  /\ base' = 0
  /\ pc' = "seek"
  /\ UNCHANGED <<header, dsize, plane, count, nread, out, result, live, fault,
                 asked>>

PlanesDone ==
  /\ pc = "seek"
  /\ z >= dim[3]
  /\ pc' = "finish"
  /\ UNCHANGED <<header, locals, result, live, fault, asked>>

\* The byte swap, the slice put back, p_data freed; data is now the caller's.
ReturnData ==
  /\ pc = "finish"
  /\ format' = IF attached THEN format ELSE "native"
  /\ RestoreSlice
  /\ ForgetLocals
  /\ live' = live \ {"data", "p_data"}
  /\ result' = "data"
  /\ pc' = "idle"
  /\ UNCHANGED <<head, size, dim, attached, out, fault, asked>>

-----------------------------------------------------------------------------
Init ==
  /\ pc = "closed"
  /\ head \in Headers
  /\ size = Zero3 /\ dim = Zero3
  /\ s_lo = Zero3 /\ s_hi = Zero3 /\ s_skip = One3
  /\ format = "unset" /\ attached = FALSE
  /\ dsize = 0 /\ plane = 0 /\ z = 0 /\ y = 0
  /\ count = 0 /\ nread = 0 /\ base = 0 /\ out = <<>>
  /\ result = "none" /\ live = {} /\ fault = FALSE /\ asked = None

Caller ==
  \/ \E g \in Headers : Load(g)
  \/ \E s \in UserSlices : SetSliceInHeader(s)
  \/ ClearSliceInHeader
  \/ ReadQubeData
  \/ DetachData
  \/ Cleanup

Reader ==
  \/ AllocateData \/ AllocateDataFails
  \/ AllocatePlane \/ AllocatePlaneFails
  \/ Seek \/ SeekFails \/ TakePlaneFromImage
  \/ ReadChunk \/ (\E n \in 0..(Chunk - 1) : ReadShort(n)) \/ ReadComplete
  \/ CheckPlane \/ CopyLine \/ NextPlane \/ PlanesDone
  \/ ReturnData

Next == Caller \/ Reader

\* The caller may stop at any time; a call that has begun runs.
Spec == Init /\ [][Next]_vars /\ WF_vars(Reader)

-----------------------------------------------------------------------------
(***************************************************************************)
(* Properties.                                                             *)
(***************************************************************************)

\* Every variable has its type; in particular the 0-based slice of a running
\* read never falls below 0.
TypeOK ==
  /\ head \in Headers
  /\ size \in [Axis -> Nat]
  /\ s_lo \in [Axis -> Nat] /\ s_hi \in [Axis -> Nat]
  /\ s_skip \in [Axis -> Nat]
  /\ dim \in [Axis -> Int]
  /\ format \in {"unset", "native"} /\ attached \in BOOLEAN
  /\ pc \in Internal \cup {"closed", "idle"}
  /\ dsize \in Int /\ plane \in Nat
  /\ z \in Nat /\ y \in Nat /\ count \in Nat /\ nread \in Nat /\ base \in Nat
  /\ out \in Seq(Nat)
  /\ result \in {"none", "NULL", "data"}
  /\ live \subseteq {"image", "data", "p_data"}
  /\ fault \in BOOLEAN
  /\ asked \in [lo : [Axis -> Nat], hi : [Axis -> Nat]]

\* Once memory is granted the loops run on proper bounds: no extent is negative
\* and every stride is at least 1 (the strengthening of TypeOK that makes it
\* inductive).
LoopBounds ==
  /\ Busy => \A i \in Axis : s_skip[i] > 0
  /\ Busy /\ (pc = "data" => dsize >= 0) => \A i \in Axis : dim[i] >= 0

\* The copy loops never write more bytes than data was allocated with: the
\* loops count in strides, the allocation in truncated divisions, and only
\* their agreement bounds the memcpy at iomedley.c:587 and 593.
OutputFits == Busy /\ pc # "data" => count <= dsize * head.nbytes

\* Every pixel the next line copies lies inside p_data, which holds only the
\* lines from s_lo[1] on (iomedley.c:588 and 594).
LineInsidePlane ==
  pc = "line" /\ y < dim[2] =>
    \A x \in 1..LinePixels :
      LineStart + (x - 1) * s_skip[1] * head.nbytes + head.nbytes <= plane

\* Between calls the library owns the attached image and nothing else, whatever
\* failed: data and p_data are freed or handed over (iomedley.c:512-530, 622).
NothingLeaks ==
  ~Busy => live = IF attached THEN {"image"} ELSE {}

\* Every way out of a read puts back the 1-based slice the read was entered
\* with ("remember to increment the above two fields before returning",
\* iomedley.c:488).
SliceRestored ==
  [][Busy /\ ~Busy' => s_lo' = asked.lo /\ s_hi' = asked.hi]_vars

=============================================================================
