------------------------------ MODULE QubeSpec ------------------------------
(***************************************************************************)
(* What the cube reader promises its caller, without blocks, offsets or    *)
(* loops: a header carries a 1-based slice, and a read answers NULL or     *)
(* with whole planes of the sub-cube the slice selects, in file order --   *)
(* all of them unless the file let it down.                                *)
(***************************************************************************)
EXTENDS QubeGeometry, Sequences, FiniteSets

CONSTANTS Headers, UserSlices

VARIABLES
  phase,  \* "closed", "idle" or "busy"
  head,   \* the header a loader produced
  image,  \* the decoded image is attached to the header
  slice,  \* [lo, hi, skip], 1-based; 0 means unspecified
  broken, \* the file has failed the read in progress (or the latest one)
  reply   \* [kind, pixels] of the latest read

svars == <<phase, head, image, slice, broken, reply>>

Whole == [lo |-> Zero3, hi |-> Zero3, skip |-> One3]
NoReply == [kind |-> "none", pixels |-> <<>>]

\* A cube has at least one item on every axis.
CubeSize == [i \in Axis |-> IF head.size[i] = 0 THEN 1 ELSE head.size[i]]

\* The slice a read works on: what is left unspecified is the whole extent.
Effective ==
  [lo |-> [i \in Axis |-> IF slice.lo[i] = 0 THEN 1 ELSE slice.lo[i]],
   hi |-> [i \in Axis |-> IF slice.hi[i] = 0 \/ slice.hi[i] > CubeSize[i]
                            THEN CubeSize[i] ELSE slice.hi[i]],
   skip |-> [i \in Axis |-> IF slice.skip[i] = 0 THEN 1 ELSE slice.skip[i]]]

\* The 0-based coordinates the slice selects on axis i, and how many they are.
Selected(i) ==
  {c \in 0..(CubeSize[i] - 1) :
     /\ slice.lo[i] - 1 <= c /\ c <= slice.hi[i] - 1
     /\ (c - (slice.lo[i] - 1)) % slice.skip[i] = 0}

Nth(i, k) == slice.lo[i] - 1 + k * slice.skip[i]

\* The first n planes of the sub-cube, the first axis running fastest.
SubCube(n) ==
  LET nx == Cardinality(Selected(1))
      ny == Cardinality(Selected(2))
  IN  [k \in 1..(n * nx * ny) |->
         <<Nth(1, (k - 1) % nx), Nth(2, ((k - 1) \div nx) % ny),
           Nth(3, (k - 1) \div (nx * ny))>>]

-----------------------------------------------------------------------------
SInit ==
  /\ phase = "closed" /\ head \in Headers /\ image = FALSE
  /\ slice = Whole /\ broken = FALSE /\ reply = NoReply

SLoad(g) ==
  /\ phase = "closed"
  /\ phase' = "idle" /\ head' = g /\ image' = g.inMemory
  /\ slice' = Whole /\ broken' = FALSE /\ reply' = NoReply

\* The user's axes are samples, lines, bands; the header's are the file's.
SSetSlice(s) ==
  /\ phase = "idle"
  /\ LET Put(user, old) ==
           [j \in Axis |->
              IF \E i \in Axis : iom_orders[head.org][i] = j /\ user[i] > 0
                THEN user[CHOOSE i \in Axis : iom_orders[head.org][i] = j]
                ELSE old[j]]
     IN  slice' = [lo |-> Put(s.lo, slice.lo), hi |-> Put(s.hi, slice.hi),
                   skip |-> Put(s.skip, slice.skip)]
  /\ UNCHANGED <<phase, head, image, broken, reply>>

SClearSlice ==
  /\ phase = "idle"
  /\ slice' = [Whole EXCEPT !.skip = Zero3]
  /\ UNCHANGED <<phase, head, image, broken, reply>>

\* A read leaves the header with the slice it worked on, spelled out.
SCall ==
  /\ phase = "idle"
  /\ head.inMemory => image
  /\ phase' = "busy" /\ slice' = Effective
  /\ broken' = FALSE /\ reply' = NoReply
  /\ UNCHANGED <<head, image>>

SFault ==
  /\ phase = "busy" /\ ~image
  /\ broken' = TRUE
  /\ UNCHANGED <<phase, head, image, slice, reply>>

SReturnNull ==
  /\ phase = "busy"
  /\ phase' = "idle"
  /\ reply' = [kind |-> "NULL", pixels |-> <<>>]
  /\ UNCHANGED <<head, image, slice, broken>>

SReturnData ==
  /\ phase = "busy"
  /\ phase' = "idle"
  /\ \E n \in 0..Cardinality(Selected(3)) :
       /\ ~broken => n = Cardinality(Selected(3))
       /\ reply' = [kind |-> "data", pixels |-> SubCube(n)]
  /\ UNCHANGED <<head, image, slice, broken>>

SDetach ==
  /\ phase = "idle" /\ image' = FALSE
  /\ UNCHANGED <<phase, head, slice, broken, reply>>

SCleanup ==
  /\ phase = "idle" /\ phase' = "closed" /\ image' = FALSE
  /\ UNCHANGED <<head, slice, broken, reply>>

SNext ==
  \/ \E g \in Headers : SLoad(g)
  \/ \E s \in UserSlices : SSetSlice(s)
  \/ SClearSlice \/ SCall \/ SFault \/ SReturnNull \/ SReturnData
  \/ SDetach \/ SCleanup

SSpec == SInit /\ [][SNext]_svars

=============================================================================
