----------------------------- MODULE MCWriters -----------------------------
(* Every writer with every kind of item, every order, and cubes of one, two *)
(* and three bands.                                                        *)
EXTENDS Writers

AllCalls ==
  [writer : DOMAIN StagesOf, force : BOOLEAN, item : Items, org : Orders,
   bands : 1..3]

\* The kinds of uncompressed BMP files: the three headers, every number of bits
\* that is read right, rows that end inside a byte, inside a group of four and
\* on one, all colours or two, a gap where the header allows it.
AllBMPFiles ==
  {f \in [biSize : {WIN_OS2_OLD, WIN_NEW, OS2_NEW}, w : 1..9 \cup {33},
          h : 1..2, bits : {1, 4, 8, 24}, used : {0, 2}, gap : {0, 5},
          coloured : BOOLEAN] :
     /\ f.biSize = WIN_OS2_OLD => f.used = 0 /\ f.gap = 0
     /\ f.coloured => f.bits # 24}

=============================================================================
