---------------------------- MODULE QubeHistory -----------------------------
(***************************************************************************)
(* What the comments of the cube reader say of one header used for several *)
(* reads.  The statements speak of the past, so the reader is run here     *)
(* beside a history variable.                                              *)
(***************************************************************************)
EXTENDS QubeReader

VARIABLES
  request \* the slice set last since the header was loaded or cleared

NoRequest == [lo |-> Zero3, hi |-> Zero3, skip |-> Zero3]

HInit == Init /\ request = NoRequest

HNext ==
  \/ /\ \E g \in Headers : Load(g)
     /\ request' = NoRequest
  \/ \E s \in UserSlices :
       SetSliceInHeader(s) /\ request' = s
  \/ ClearSliceInHeader /\ request' = NoRequest
  \/ (ReadQubeData \/ DetachData \/ Cleanup \/ Reader) /\ UNCHANGED request

HSpec == HInit /\ [][HNext]_<<vars, request>>

\* "The iom_iheader can be reused by setting a different slice"
\* (iomedley.c:429): a read works on the slice set last, with what that slice
\* leaves unspecified taken from the cube, as on a freshly loaded header.
SetSliceReplacesSlice ==
  Busy =>
    \A i \in Axis :
      LET j == iom_orders[head.org][i]
      IN  /\ s_lo[j] + 1 = IF request.lo[i] > 0 THEN request.lo[i] ELSE 1
          /\ s_hi[j] + 1 =
               IF request.hi[i] \in 1..size[j] THEN request.hi[i] ELSE size[j]

=============================================================================
