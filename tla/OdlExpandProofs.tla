-------------------------- MODULE OdlExpandProofs ---------------------------
(***************************************************************************)
(* Expanding a label: types, and that no file includes itself, through     *)
(* others or not, in the case ExpandIsRecursive covers; for any files.     *)
(***************************************************************************)
EXTENDS OdlExpand, SequenceTheorems, FiniteSetTheorems, TLAPS

-----------------------------------------------------------------------------
(* Positions.                                                              *)

LEMMA Joined ==
  ASSUME NEW s \in Seq(Nat), NEW t \in Seq(Nat)
  PROVE  /\ s \o t \in Seq(Nat)
         /\ Len(s) \in Nat /\ Len(t) \in Nat
         /\ Len(s \o t) = Len(s) + Len(t)
         /\ \A i \in 1..Len(s) : (s \o t)[i] = s[i]
         /\ \A i \in 1..(Len(s) + Len(t)) : i > Len(s) =>
              (s \o t)[i] = t[i - Len(s)]
         /\ \A i, j \in 1..Len(s) : SubSeq(s \o t, i, j) = SubSeq(s, i, j)
<1>1. Len(s) \in Nat /\ Len(t) \in Nat
  BY LenProperties
<1>2. s \o t \in Seq(Nat) /\ Len(s \o t) = Len(s) + Len(t)
  BY ConcatProperties
<1>3. \A i \in 1..(Len(s) + Len(t)) :
        (s \o t)[i] = IF i <= Len(s) THEN s[i] ELSE t[i - Len(s)]
  BY ConcatProperties
<1>4. \A i, j \in 1..Len(s) : SubSeq(s \o t, i, j) = SubSeq(s, i, j)
  BY SubSeqOfConcat1
<1> QED BY <1>1, <1>2, <1>3, <1>4

LEMMA Reassociated ==
  ASSUME NEW s \in Seq(Nat), NEW t \in Seq(Nat), NEW u \in Seq(Nat)
  PROVE  s \o (t \o u) = (s \o t) \o u
<1>1. (s \o t) \o u = s \o (t \o u)
  BY ConcatAssociative
<1> QED BY <1>1, Zenon

LEMMA FirstNone == ASSUME NEW s PROVE SubSeq(s, 1, 0) = <<>>
BY SubSeqEmpty

LEMMA PositionAboveItself ==
  ASSUME NEW p \in Positions
  PROVE  /\ p \in Above(p)
         /\ <<>> \in Above(p)
         /\ Above(p) \subseteq Positions
<1>1. p = SubSeq(p, 1, Len(p)) /\ Len(p) \in Nat
  BY SubSeqFull, LenProperties DEF Positions
<1>2. SubSeq(p, 1, 0) = <<>>
  BY SubSeqEmpty
<1>3. ASSUME NEW n \in 0..Len(p)
      PROVE  SubSeq(p, 1, n) \in Positions
  <2>1. \A i \in 1..n : p[i] \in Nat
    BY <1>1, ElementOfSeq DEF Positions
  <2> QED BY <2>1, <1>1, SubSeqProperties DEF Positions
<1>4. 0 \in 0..Len(p) /\ Len(p) \in 0..Len(p)
  BY <1>1
<1> QED BY <1>1, <1>2, <1>3, <1>4, Zenon DEF Above

LEMMA AboveOfConcat ==
  ASSUME NEW p \in Positions, NEW s \in Positions
  PROVE  Above(p) \subseteq Above(p \o s)
<1>1. /\ Len(p) \in Nat
      /\ Len(s) \in Nat
      /\ Len(p \o s) = Len(p) + Len(s)
  BY LenProperties, ConcatProperties DEF Positions
<1>2. ASSUME NEW n \in 0..Len(p)
      PROVE  SubSeq(p \o s, 1, n) = SubSeq(p, 1, n)
  <2>1. CASE n = 0
    BY <2>1, SubSeqEmpty
  <2>2. CASE n # 0
    BY <2>2, <1>1, SubSeqOfConcat1 DEF Positions
  <2> QED BY <2>1, <2>2
<1> QED BY <1>1, <1>2 DEF Above

\* The position of an object of a label grafted below p, after c children.
GraftedAfter(p, c, q) == p \o <<c + q[1]>> \o Tail(q)

\* What is above an object of the included label, once grafted.
LEMMA AboveOfGraft ==
  ASSUME NEW p \in Positions, NEW c \in Nat,
         NEW q \in Positions, q # <<>>,
         NEW x \in Above(GraftedAfter(p, c, q))
  PROVE  \/ x \in Above(p)
         \/ \E r \in Above(q) : r # <<>> /\ x = GraftedAfter(p, c, r)
<1> USE DEF GraftedAfter
<1> DEFINE a == p \o <<c + q[1]>>
           g == a \o Tail(q)
<1>1. /\ Len(p) \in Nat
      /\ Len(q) \in Nat /\ Len(q) >= 1
      /\ q[1] \in Nat
      /\ Tail(q) \in Seq(Nat)
      /\ Len(Tail(q)) = Len(q) - 1
  BY LenProperties, HeadTailProperties, EmptySeq, ElementOfSeq DEF Positions
<1>2. <<c + q[1]>> \in Seq(Nat) /\ Len(<<c + q[1]>>) = 1
  BY <1>1
<1>3. a \in Seq(Nat) /\ Len(a) = Len(p) + 1
  BY <1>2, Joined DEF Positions
<1>4. g \in Seq(Nat) /\ Len(g) = Len(p) + Len(q)
  <2> HIDE DEF a
  <2>1. /\ g \in Seq(Nat)
        /\ Len(g) = Len(a) + Len(Tail(q))
    BY <1>1, <1>3, Joined
  <2> QED BY <2>1, <1>1, <1>3
<1>5. /\ \A i \in 1..Len(a) : g[i] = a[i]
      /\ \A i \in 1..(Len(p) + Len(q)) : i > Len(a) =>
           g[i] = Tail(q)[i - Len(a)]
      /\ \A i, j \in 1..Len(a) : SubSeq(g, i, j) = SubSeq(a, i, j)
  <2> HIDE DEF a
  <2>1. Len(p) + Len(q) = Len(a) + Len(Tail(q))
    BY <1>1, <1>3
  <2> QED BY <2>1, <1>1, <1>3, Joined
<1>6. \A i, j \in 1..Len(p) : SubSeq(a, i, j) = SubSeq(p, i, j)
  BY <1>1, <1>2, SubSeqOfConcat1 DEF Positions
<1>7. PICK n \in 0..Len(g) : x = SubSeq(g, 1, n)
  BY Zenon DEF Above
<1> HIDE DEF g
<1>8. CASE n <= Len(p)
  <2>1. CASE n = 0
    <3>1. x = <<>>
      BY <2>1, <1>7, FirstNone, Zenon
    <3> QED BY <3>1, PositionAboveItself
  <2>2. CASE n # 0
    <3>1. n \in 1..Len(p) /\ n \in 1..Len(a) /\ 1 \in 1..Len(p) /\ 1 \in 1..Len(a)
      <4> HIDE DEF a
      <4> QED BY <2>2, <1>8, <1>3, <1>1
    <3>2. n \in 0..Len(p)
      BY <3>1, <1>1
    <3>3. x = SubSeq(p, 1, n)
      <4> HIDE DEF a
      <4> QED BY <3>1, <1>5, <1>6, <1>7, Zenon
    <3> QED BY <3>3, <3>2, Zenon DEF Above
  <2> QED BY <2>1, <2>2
<1>9. CASE n > Len(p)
  <2> DEFINE m == n - Len(p)
             r == SubSeq(q, 1, m)
  <2>1. m \in 1..Len(q)
    BY <1>9, <1>7, <1>4, <1>1
  <2>2. r \in Above(q)
    <3>1. m \in 0..Len(q)
      BY <2>1, <1>1
    <3> QED BY <3>1, Zenon DEF Above
  <2>3. /\ r \in Seq(Nat) /\ Len(r) = m
        /\ \A i \in 1..m : r[i] = q[i]
    <3>1. \A i \in 1..m : q[i] \in Nat
      BY <2>1, <1>1, ElementOfSeq DEF Positions
    <3>2. m \in Int /\ m >= 1
      BY <2>1, <1>1
    <3> HIDE DEF m
    <3> QED BY <3>1, <3>2, SubSeqProperties
  <2> HIDE DEF r
  <2>4. r # <<>> /\ r[1] = q[1]
    BY <2>3, <2>1, EmptySeq
  <2>5. /\ Tail(r) \in Seq(Nat) /\ Len(Tail(r)) = m - 1
        /\ \A i \in 1..(m - 1) : Tail(r)[i] = r[i + 1]
    <3>1. Len(Tail(r)) = m - 1
      BY <2>3, <2>4, HeadTailProperties
    <3> QED BY <3>1, <2>3, <2>4, HeadTailProperties
  <2>6. \A i \in 1..(m - 1) : Tail(q)[i] = q[i + 1]
    BY <2>1, <1>1, HeadTailProperties DEF Positions
  <2>7. \A i \in 1..(m - 1) : Tail(q)[i] = Tail(r)[i]
    BY <2>3, <2>5, <2>6, <2>1
  <2> HIDE DEF a
  <2>8. /\ SubSeq(g, 1, n) \in Seq(Nat) /\ Len(SubSeq(g, 1, n)) = n
        /\ \A i \in 1..n : SubSeq(g, 1, n)[i] = g[i]
    <3>1. \A i \in 1..n : g[i] \in Nat
      <4> TAKE i \in 1..n
      <4>1. i \in 1..Len(g)
        BY <1>4, <1>7, <1>1
      <4> QED BY <4>1, <1>4, ElementOfSeq
    <3>2. n \in Nat /\ n >= 1
      BY <1>9, <1>1, <1>7, <1>4
    <3> QED BY <3>1, <3>2, SubSeqProperties
  <2>9. /\ a \o Tail(r) \in Seq(Nat)
        /\ Len(a \o Tail(r)) = n
        /\ \A i \in 1..Len(a) : (a \o Tail(r))[i] = a[i]
        /\ \A i \in 1..n : i > Len(a) =>
             (a \o Tail(r))[i] = Tail(r)[i - Len(a)]
    <3>1. m = n - Len(p) /\ n \in Int /\ Len(p) \in Int
      BY <1>1, <1>7, <1>4
    <3> HIDE DEF m
    <3>2. Len(a) + Len(Tail(r)) = n
      <4>1. Len(Tail(r)) = m - 1
        BY <2>5
      <4>2. m \in Int
        BY <2>1, <1>1
      <4>3. Len(a) = Len(p) + 1
        BY <1>3
      <4>4. \A j, k, l \in Int : l = k - j => (j + 1) + (l - 1) = k
        OBVIOUS
      <4>5. Len(a) + Len(Tail(r)) = (Len(p) + 1) + (m - 1)
        BY <4>1, <4>3, Zenon
      <4>6. (Len(p) + 1) + (m - 1) = n
        BY <4>2, <4>4, <3>1
      <4> QED BY <4>5, <4>6, Zenon
    <3> QED BY <2>5, <1>3, <3>2, Joined
  <2>10. \A i \in 1..n : SubSeq(g, 1, n)[i] = (a \o Tail(r))[i]
    <3> TAKE i \in 1..n
    <3>1. i \in 1..(Len(p) + Len(q)) /\ i \in Int /\ Len(a) \in Int
      BY <1>7, <1>4, <1>1, <1>3
    <3>2. CASE i <= Len(a)
      <4>1. i \in 1..Len(a)
        BY <3>1, <3>2
      <4> QED BY <4>1, <2>8, <2>9, <1>5
    <3>3. CASE i > Len(a)
      <4>1. i - Len(a) \in 1..(m - 1)
        BY <3>3, <1>3, <1>1, <2>1, <1>7
      <4>2. Tail(q)[i - Len(a)] = Tail(r)[i - Len(a)]
        BY <4>1, <2>7
      <4>3. (a \o Tail(r))[i] = Tail(r)[i - Len(a)]
        BY <3>3, <2>9
      <4>4. g[i] = Tail(q)[i - Len(a)]
        BY <3>1, <3>3, <1>5
      <4> QED BY <4>2, <4>3, <4>4, <2>8
    <3>4. i <= Len(a) \/ i > Len(a)
      BY <3>1
    <3> QED BY <3>2, <3>3, <3>4, Zenon
  <2>11. SubSeq(g, 1, n) = a \o Tail(r)
    BY <2>8, <2>9, <2>10, SeqEqual
  <2>12. a \o Tail(r) = p \o <<c + r[1]>> \o Tail(r)
    BY <2>4 DEF a
  <2> QED BY <2>11, <2>12, <2>2, <2>4, <1>7
<1>10. n <= Len(p) \/ n > Len(p)
  BY <1>1, <1>4, <1>7
<1> QED BY <1>8, <1>9, <1>10, Zenon

-----------------------------------------------------------------------------
(* Keyword lists.                                                          *)

\* Every element of u is one of s; is one of s or one of t.
From(u, s) == \A j \in DOMAIN u : \E k \in DOMAIN s : u[j] = s[k]
FromEither(u, s, t) ==
  \A j \in DOMAIN u : \/ \E k \in DOMAIN s : u[j] = s[k]
                      \/ \E k \in DOMAIN t : u[j] = t[k]

LEMMA ConcatElements ==
  ASSUME NEW S, NEW s \in Seq(S), NEW t \in Seq(S)
  PROVE  s \o t \in Seq(S) /\ FromEither(s \o t, s, t)
<1>1. /\ Len(s) \in Nat /\ DOMAIN s = 1..Len(s)
      /\ Len(t) \in Nat /\ DOMAIN t = 1..Len(t)
  BY LenProperties
<1>2. /\ s \o t \in Seq(S)
      /\ Len(s \o t) = Len(s) + Len(t)
      /\ \A i \in 1..(Len(s) + Len(t)) :
           (s \o t)[i] = IF i <= Len(s) THEN s[i] ELSE t[i - Len(s)]
  BY ConcatProperties
<1>3. DOMAIN (s \o t) = 1..(Len(s) + Len(t))
  BY <1>2, LenProperties
<1>4. ASSUME NEW j \in 1..(Len(s) + Len(t))
      PROVE  \/ \E k \in DOMAIN s : (s \o t)[j] = s[k]
             \/ \E k \in DOMAIN t : (s \o t)[j] = t[k]
  <2>1. CASE j <= Len(s)
    <3>1. j \in DOMAIN s /\ (s \o t)[j] = s[j]
      BY <1>1, <1>2, <2>1
    <3> QED BY <3>1
  <2>2. CASE ~ (j <= Len(s))
    <3>1. j - Len(s) \in DOMAIN t /\ (s \o t)[j] = t[j - Len(s)]
      BY <1>1, <1>2, <2>2
    <3> QED BY <3>1
  <2> QED BY <2>1, <2>2
<1> QED BY <1>2, <1>3, <1>4, Zenon DEF FromEither

LEMMA FromBoth ==
  ASSUME NEW u, NEW a, NEW b, NEW s,
         FromEither(u, a, b), From(a, s), From(b, s)
  PROVE  From(u, s)
<1>1. ASSUME NEW j \in DOMAIN u
      PROVE  \E k \in DOMAIN s : u[j] = s[k]
  <2>1. CASE \E k \in DOMAIN a : u[j] = a[k]
    <3>1. PICK k \in DOMAIN a : u[j] = a[k]
      BY <2>1
    <3> QED BY <3>1 DEF From
  <2>2. CASE \E k \in DOMAIN b : u[j] = b[k]
    <3>1. PICK k \in DOMAIN b : u[j] = b[k]
      BY <2>2
    <3> QED BY <3>1 DEF From
  <2> QED BY <2>1, <2>2 DEF FromEither
<1> QED BY <1>1 DEF From

LEMMA WithoutElements ==
  ASSUME NEW S, NEW s \in Seq(S), NEW i \in 1..Len(s)
  PROVE  Without(s, i) \in Seq(S) /\ From(Without(s, i), s)
<1> DEFINE a == SubSeq(s, 1, i - 1)
           b == SubSeq(s, i + 1, Len(s))
<1>1. Len(s) \in Nat /\ DOMAIN s = 1..Len(s) /\ i \in Nat
  BY LenProperties
<1>2. /\ \A k \in 1..(i - 1) : s[k] \in S
      /\ \A k \in (i + 1)..Len(s) : s[k] \in S
  BY <1>1, ElementOfSeq
<1>3. a \in Seq(S) /\ From(a, s)
  <2>1. /\ a \in Seq(S)
        /\ Len(a) = IF 1 <= i - 1 THEN (i - 1) - 1 + 1 ELSE 0
        /\ \A k \in 1..((i - 1) - 1 + 1) : a[k] = s[1 + k - 1]
    BY <1>1, <1>2, SubSeqProperties
  <2> HIDE DEF a
  <2>2. DOMAIN a = 1..(i - 1)
    BY <2>1, <1>1, LenProperties
  <2>3. \A k \in 1..(i - 1) : k \in DOMAIN s /\ a[k] = s[k]
    BY <2>1, <1>1
  <2> QED BY <2>1, <2>2, <2>3 DEF From
<1>4. b \in Seq(S) /\ From(b, s)
  <2>1. /\ b \in Seq(S)
        /\ Len(b) = IF i + 1 <= Len(s) THEN Len(s) - (i + 1) + 1 ELSE 0
        /\ \A k \in 1..(Len(s) - (i + 1) + 1) : b[k] = s[(i + 1) + k - 1]
    BY <1>1, <1>2, SubSeqProperties
  <2> HIDE DEF b
  <2>2. Len(b) = Len(s) - i /\ Len(s) - (i + 1) + 1 = Len(s) - i
    <3>1. ASSUME NEW n \in Nat, NEW j \in 1..n, NEW l,
                 l = IF j + 1 <= n THEN n - (j + 1) + 1 ELSE 0
          PROVE  l = n - j /\ n - (j + 1) + 1 = n - j
      BY <3>1
    <3>2. Len(s) \in Nat
      BY <1>1
    <3>3. Len(b) = IF i + 1 <= Len(s) THEN Len(s) - (i + 1) + 1 ELSE 0
      BY <2>1
    <3> QED BY <3>1, <3>2, <3>3
  <2>3. DOMAIN b = 1..(Len(s) - i)
    BY <2>1, <2>2, LenProperties
  <2>4. ASSUME NEW k \in 1..(Len(s) - i)
        PROVE  i + k \in DOMAIN s /\ b[k] = s[i + k]
    <3>1. (i + 1) + k - 1 = i + k /\ i + k \in 1..Len(s)
      BY <1>1
    <3>2. b[k] = s[(i + 1) + k - 1]
      BY <2>1, <2>2
    <3> QED BY <3>1, <3>2, <1>1
  <2> QED BY <2>1, <2>3, <2>4 DEF From
<1>5. Without(s, i) = a \o b
  BY DEF Without
<1> HIDE DEF a, b
<1>6. a \o b \in Seq(S) /\ FromEither(a \o b, a, b)
  BY <1>3, <1>4, ConcatElements
<1>7. From(a \o b, s)
  BY <1>3, <1>4, <1>6, FromBoth
<1> QED BY <1>5, <1>6, <1>7, Zenon

LEMMA StampElements ==
  ASSUME NEW s \in Seq(Statements), NEW dir \in Directories,
         NEW n \in Names, NEW via \in Seq(Names)
  PROVE  /\ Stamp(s, FileName(dir, n), via) \in Seq(Keywords)
         /\ DOMAIN Stamp(s, FileName(dir, n), via) = DOMAIN s
         /\ \A i \in DOMAIN s :
              LET k == Stamp(s, FileName(dir, n), via)[i]
              IN  k.kind = s[i].kind /\ k.via = via
<1>1. Len(s) \in Nat /\ DOMAIN s = 1..Len(s)
  BY LenProperties
<1>2. FileName(dir, n) \in [directory : Directories, name : Names]
  BY DEF FileName
<1>3. ASSUME NEW i \in 1..Len(s)
      PROVE  /\ Keyword(s[i], FileName(dir, n), via) \in Keywords
             /\ Keyword(s[i], FileName(dir, n), via).kind = s[i].kind
             /\ Keyword(s[i], FileName(dir, n), via).via = via
  <2>1. s[i] \in Statements
    BY ElementOfSeq
  <2> QED BY <2>1, <1>2 DEF Statements, Keyword, Keywords
<1>4. Stamp(s, FileName(dir, n), via) =
        [i \in 1..Len(s) |-> Keyword(s[i], FileName(dir, n), via)]
  BY <1>1 DEF Stamp
<1>5. [i \in 1..Len(s) |-> Keyword(s[i], FileName(dir, n), via)] \in Seq(Keywords)
  <2>1. [i \in 1..Len(s) |-> Keyword(s[i], FileName(dir, n), via)]
          \in [1..Len(s) -> Keywords]
    BY <1>3
  <2> QED BY <1>1, <2>1, SeqDef, Zenon
<1> QED BY <1>1, <1>3, <1>4, <1>5

-----------------------------------------------------------------------------
(* The tree.                                                               *)

Object == [file_name : [directory : {directory}, name : Names],
           keywords : Seq(Keywords)]

LEMMA PlaceTyped ==
  ASSUME TypeOK, NEW l \in Places
  PROVE  /\ l[1] \in DOMAIN tree /\ l[1] \in Positions
         /\ tree[l[1]] \in Object
         /\ l[2] \in DOMAIN tree[l[1]].keywords
         /\ l[2] \in 1..Len(tree[l[1]].keywords)
         /\ KeywordAt(l) \in Keywords
<1>1. PICK p \in DOMAIN tree : l \in {p} \X DOMAIN tree[p].keywords
  BY DEF Places
<1>2. l[1] = p /\ l[2] \in DOMAIN tree[p].keywords
  BY <1>1
<1>3. tree[p] \in Object /\ p \in Positions
  BY DEF TypeOK, Object
<1>4. tree[p].keywords \in Seq(Keywords)
  BY <1>3 DEF Object
<1>5. DOMAIN tree[p].keywords = 1..Len(tree[p].keywords)
  BY <1>4, LenProperties
<1>6. tree[p].keywords[l[2]] \in Keywords
  BY <1>2, <1>4, <1>5, ElementOfSeq
<1> QED BY <1>2, <1>3, <1>5, <1>6 DEF KeywordAt

LEMMA IsPlace ==
  ASSUME NEW p \in DOMAIN tree, NEW i \in DOMAIN tree[p].keywords
  PROVE  <<p, i>> \in Places /\ KeywordAt(<<p, i>>) = tree[p].keywords[i]
<1>1. <<p, i>> \in {p} \X DOMAIN tree[p].keywords
  OBVIOUS
<1>2. <<p, i>>[1] = p /\ <<p, i>>[2] = i
  OBVIOUS
<1>3. <<p, i>> \in Places
  BY <1>1 DEF Places
<1> QED BY <1>2, <1>3 DEF KeywordAt

LEMMA LabelTyped ==
  ASSUME NEW d \in Disks, NEW n \in Names, NEW i \in DOMAIN d[n]
  PROVE  /\ <<>> \in DOMAIN d[n][i]
         /\ IsFiniteSet(DOMAIN d[n][i])
         /\ \A p \in DOMAIN d[n][i] : /\ p \in Positions
                                      /\ Above(p) \subseteq DOMAIN d[n][i]
                                      /\ d[n][i][p] \in Seq(Statements)
BY DisksAssumption

LEMMA CutObjects ==
  ASSUME TypeOK, NEW l \in Places
  PROVE  /\ DOMAIN Cut(l) = DOMAIN tree
         /\ \A p \in DOMAIN tree :
              /\ Cut(l)[p] \in Object
              /\ Cut(l)[p].file_name = tree[p].file_name
              /\ From(Cut(l)[p].keywords, tree[p].keywords)
<1> DEFINE w == Without(tree[l[1]].keywords, l[2])
<1>1. /\ l[1] \in DOMAIN tree /\ tree[l[1]] \in Object
      /\ tree[l[1]].keywords \in Seq(Keywords)
      /\ l[2] \in 1..Len(tree[l[1]].keywords)
  BY PlaceTyped DEF Object
<1>2. w \in Seq(Keywords) /\ From(w, tree[l[1]].keywords)
  BY <1>1, WithoutElements
<1>3. \A p \in DOMAIN tree : tree[p] \in Object /\ From(tree[p].keywords, tree[p].keywords)
  BY DEF TypeOK, Object, From
<1> HIDE DEF w
<1>4. Cut(l) = [tree EXCEPT ![l[1]].keywords = w]
  BY DEF Cut, w
<1>5. DOMAIN Cut(l) = DOMAIN tree
  BY <1>4
<1>6. \A p \in DOMAIN tree : p # l[1] => Cut(l)[p] = tree[p]
  BY <1>4
<1>7. Cut(l)[l[1]] = [tree[l[1]] EXCEPT !.keywords = w]
  BY <1>1, <1>4
<1>8. /\ Cut(l)[l[1]] \in Object
      /\ Cut(l)[l[1]].file_name = tree[l[1]].file_name
      /\ Cut(l)[l[1]].keywords = w
  BY <1>1, <1>2, <1>7 DEF Object
<1> QED BY <1>2, <1>3, <1>5, <1>6, <1>8

LEMMA GraftedTyped ==
  ASSUME TypeOK, NEW p \in DOMAIN tree, NEW q \in Positions, q # <<>>
  PROVE  Grafted(p, q) \in Positions /\ Above(p) \subseteq Above(Grafted(p, q))
<1>1. p \in Positions
  BY DEF TypeOK
<1>2. ChildCount(p) \in Nat
  <2>1. IsFiniteSet({r \in DOMAIN tree : Len(r) = Len(p) + 1 /\ p \in Above(r)})
    BY FS_Subset DEF TypeOK
  <2> QED BY <2>1, FS_CardinalityType DEF ChildCount
<1>3. q[1] \in Nat /\ Tail(q) \in Seq(Nat)
  BY EmptySeq, ElementOfSeq, HeadTailProperties DEF Positions
<1>4. <<ChildCount(p) + q[1]>> \in Seq(Nat)
  BY <1>2, <1>3
<1> DEFINE c == <<ChildCount(p) + q[1]>>
<1> HIDE DEF c
<1>5. c \in Seq(Nat) /\ p \in Seq(Nat)
  BY <1>1, <1>4 DEF c, Positions
<1>6. c \o Tail(q) \in Seq(Nat)
  BY <1>3, <1>5, Joined
<1>7. p \o (c \o Tail(q)) \in Seq(Nat)
  BY <1>5, <1>6, Joined
<1>8. p \o (c \o Tail(q)) = (p \o c) \o Tail(q)
  <2>1. Tail(q) \in Seq(Nat)
    BY <1>3
  <2> QED BY <2>1, <1>5, Reassociated, Zenon
<1>9. Grafted(p, q) = p \o (c \o Tail(q))
  BY <1>8, Zenon DEF Grafted, c
<1>10. Above(p) \subseteq Above(p \o (c \o Tail(q)))
  BY <1>5, <1>6, AboveOfConcat DEF Positions
<1> QED BY <1>7, <1>9, <1>10 DEF Positions

(***************************************************************************)
(* T is the tree after the label of file fspec has been spliced in at l:   *)
(* its objects come below the keyword's, its keywords join the keyword's   *)
(* object.                                                                 *)
(***************************************************************************)
SplicedInto(T, l, label, fspec, via) ==
  /\ DOMAIN T = DOMAIN tree \cup {Grafted(l[1], q) : q \in DOMAIN label \ {<<>>}}
  /\ \A p \in DOMAIN tree :
       /\ T[p] \in Object
       /\ T[p].file_name = tree[p].file_name
       /\ p # l[1] => T[p] = tree[p]
  /\ FromEither(T[l[1]].keywords, tree[l[1]].keywords,
                Stamp(label[<<>>], fspec, via))
  /\ \A p \in DOMAIN T : p \notin DOMAIN tree =>
       /\ T[p] \in Object
       /\ T[p].file_name = fspec
       /\ \A i \in DOMAIN T[p].keywords : T[p].keywords[i].via = via

LEMMA SplicedObjects ==
  ASSUME TypeOK, NEW l \in Places, NEW file \in Names,
         NEW at \in DOMAIN disk[file], NEW via \in Seq(Names)
  PROVE  SplicedInto(Splice(l, disk[file][at], FileName(directory, file), via),
                     l, disk[file][at], FileName(directory, file), via)
<1> DEFINE label == disk[file][at]
           fspec == FileName(directory, file)
           below == DOMAIN label \ {<<>>}
           T == Splice(l, label, fspec, via)
           top == Stamp(label[<<>>], fspec, via)
           rest == Without(tree[l[1]].keywords, l[2])
<1>1. /\ disk \in Disks /\ directory \in Directories
      /\ \A p \in DOMAIN tree : tree[p] \in Object
  BY DEF TypeOK, Object
<1>2. /\ <<>> \in DOMAIN label
      /\ \A q \in DOMAIN label : label[q] \in Seq(Statements)
  BY <1>1, LabelTyped
<1>3. fspec \in [directory : {directory}, name : Names]
  BY DEF FileName
<1>4. /\ l[1] \in DOMAIN tree /\ tree[l[1]] \in Object
      /\ tree[l[1]].keywords \in Seq(Keywords)
      /\ l[2] \in 1..Len(tree[l[1]].keywords)
  BY PlaceTyped DEF Object
<1>5. \A q \in DOMAIN label :
        /\ Stamp(label[q], fspec, via) \in Seq(Keywords)
        /\ \A i \in DOMAIN Stamp(label[q], fspec, via) :
             Stamp(label[q], fspec, via)[i].via = via
  BY <1>1, <1>2, StampElements
<1>6. rest \in Seq(Keywords) /\ From(rest, tree[l[1]].keywords)
  BY <1>4, WithoutElements
<1>7. rest \o top \in Seq(Keywords) /\ FromEither(rest \o top, rest, top)
  BY <1>2, <1>5, <1>6, ConcatElements
<1>8. FromEither(rest \o top, tree[l[1]].keywords, top)
  <2> HIDE DEF rest, top
  <2> QED BY <1>6, <1>7 DEF From, FromEither
<1>9. Appended(l, top) = rest \o top
  BY DEF Appended
<1> HIDE DEF rest, top, label, fspec, below
<1>10. T = [p \in DOMAIN tree \cup {Grafted(l[1], q) : q \in below} |->
             IF p = l[1] THEN [tree[p] EXCEPT !.keywords = rest \o top]
             ELSE IF p \in DOMAIN tree THEN tree[p]
             ELSE LET q == CHOOSE q \in below : p = Grafted(l[1], q)
                  IN  [file_name |-> fspec, keywords |-> Stamp(label[q], fspec, via)]]
  BY <1>9 DEF Splice, top, below
<1> HIDE DEF T
<1>11. DOMAIN T = DOMAIN tree \cup {Grafted(l[1], q) : q \in below}
  BY <1>10
<1>12. \A p \in DOMAIN tree : p # l[1] => T[p] = tree[p]
  BY <1>10
<1>13. T[l[1]] = [tree[l[1]] EXCEPT !.keywords = rest \o top]
  BY <1>4, <1>10
<1>14. /\ T[l[1]] \in Object
       /\ T[l[1]].file_name = tree[l[1]].file_name
       /\ T[l[1]].keywords = rest \o top
  BY <1>4, <1>7, <1>13 DEF Object
<1>15. ASSUME NEW p \in DOMAIN T, p \notin DOMAIN tree
       PROVE  /\ T[p] \in Object
              /\ T[p].file_name = fspec
              /\ \A i \in DOMAIN T[p].keywords : T[p].keywords[i].via = via
  <2> DEFINE r == CHOOSE q \in below : p = Grafted(l[1], q)
  <2>1. \E q \in below : p = Grafted(l[1], q)
    BY <1>11, <1>15
  <2>2. r \in below
    BY <2>1
  <2>3. T[p] = [file_name |-> fspec, keywords |-> Stamp(label[r], fspec, via)]
    BY <1>10, <1>11, <1>15, <1>4
  <2> HIDE DEF r
  <2>4. r \in DOMAIN label
    BY <2>2 DEF below
  <2> QED BY <2>3, <2>4, <1>3, <1>5 DEF Object
<1>16. FromEither(T[l[1]].keywords, tree[l[1]].keywords, top)
  BY <1>8, <1>14
<1>17. \A p \in DOMAIN tree : T[p] \in Object /\ T[p].file_name = tree[p].file_name
  BY <1>1, <1>12, <1>14
<1>18. SplicedInto(T, l, label, fspec, via)
  BY <1>11, <1>12, <1>15, <1>16, <1>17 DEF SplicedInto, top, below
<1> QED BY <1>18, Zenon DEF T, label, fspec

-----------------------------------------------------------------------------
(* Types.                                                                  *)

LEMMA FirstKindTyped ==
  ASSUME NEW mask \in SUBSET Kinds
  PROVE  FirstKind(mask) \in Kinds \cup {"done"}
BY DEF FirstKind, Kinds

LEMMA InitTyped == Init => TypeOK
<1> SUFFICES ASSUME Init PROVE TypeOK
  OBVIOUS
<1> DEFINE label == disk[Label][1]
           fspec == FileName(directory, Label)
<1>1. /\ disk \in Disks /\ directory \in Directories /\ Label \in Names
      /\ 1 \in DOMAIN disk[Label]
  BY NamesAssumption DEF Init
<1>2. /\ IsFiniteSet(DOMAIN label)
      /\ \A p \in DOMAIN label : /\ p \in Positions
                                 /\ Above(p) \subseteq DOMAIN label
                                 /\ label[p] \in Seq(Statements)
  BY <1>1, LabelTyped
<1>3. <<Label>> \in Seq(Names)
  BY <1>1
<1>4. \A p \in DOMAIN label : Stamp(label[p], fspec, <<Label>>) \in Seq(Keywords)
  BY <1>1, <1>2, <1>3, StampElements
<1>5. fspec \in [directory : {directory}, name : Names]
  BY <1>1 DEF FileName
<1>6. tree = [p \in DOMAIN label |->
               [file_name |-> fspec,
                keywords |-> Stamp(label[p], fspec, <<Label>>)]]
  BY DEF Init
<1>7. /\ expanding \in Kinds \cup {"done"}
      /\ expand \subseteq Kinds
      /\ turns \in Nat
  <2>1. PICK mask \in Masks : /\ expanding = FirstKind(mask)
                              /\ expand = mask \ {FirstKind(mask)}
    BY DEF Init
  <2>2. mask \in SUBSET Kinds
    BY <2>1, MasksAssumption
  <2> QED BY <2>1, <2>2, FirstKindTyped DEF Init
<1> HIDE DEF label, fspec
<1>8. DOMAIN tree = DOMAIN label
  BY <1>6
<1>9. \A p \in DOMAIN tree :
        tree[p] \in [file_name : [directory : {directory}, name : Names],
                     keywords : Seq(Keywords)]
  BY <1>4, <1>5, <1>6
<1> QED BY <1>1, <1>2, <1>7, <1>8, <1>9 DEF TypeOK

\* A turn that only drops the keyword.
LEMMA CutTyped ==
  ASSUME TypeOK, NEW l \in Places, tree' = Cut(l), turns' = turns + 1,
         UNCHANGED <<disk, directory, expanding, expand>>
  PROVE  TypeOK'
<1>1. /\ DOMAIN tree' = DOMAIN tree
      /\ \A p \in DOMAIN tree : tree'[p] \in Object
  BY CutObjects
<1> QED BY <1>1 DEF TypeOK, Object

LEMMA SpliceTyped ==
  ASSUME TypeOK, NEW l \in Places, NEW file \in Names,
         NEW at \in DOMAIN disk[file], NEW via \in Seq(Names),
         tree' = Splice(l, disk[file][at], FileName(directory, file), via),
         turns' = turns + 1,
         UNCHANGED <<disk, directory, expanding, expand>>
  PROVE  TypeOK'
<1> DEFINE label == disk[file][at]
           below == DOMAIN label \ {<<>>}
           grown == {Grafted(l[1], q) : q \in below}
<1>1. /\ IsFiniteSet(DOMAIN label)
      /\ \A q \in DOMAIN label : q \in Positions /\ Above(q) \subseteq DOMAIN label
  BY LabelTyped DEF TypeOK
<1>2. /\ DOMAIN tree' = DOMAIN tree \cup grown
      /\ \A p \in DOMAIN tree' : tree'[p] \in Object
  <2>1. /\ DOMAIN tree' = DOMAIN tree \cup grown
        /\ \A p \in DOMAIN tree : tree'[p] \in Object
        /\ \A p \in DOMAIN tree' : p \notin DOMAIN tree => tree'[p] \in Object
    <3>1. SplicedInto(tree', l, label, FileName(directory, file), via)
      BY SplicedObjects
    <3> HIDE DEF label
    <3> QED BY <3>1 DEF SplicedInto
  <2> QED BY <2>1
<1>3. l[1] \in DOMAIN tree /\ l[1] \in Positions
  BY PlaceTyped
<1> HIDE DEF label
<1>4. \A q \in below : Grafted(l[1], q) \in Positions
  BY <1>1, <1>3, GraftedTyped
<1>5. IsFiniteSet(grown)
  <2>1. IsFiniteSet(below)
    BY <1>1, FS_Subset
  <2> HIDE DEF below
  <2> DEFINE f == [q \in below |-> Grafted(l[1], q)]
  <2>2. f \in Surjection(below, grown)
    BY DEF Surjection
  <2> HIDE DEF f, grown
  <2> QED BY <2>1, <2>2, FS_Surjection
<1>6. IsFiniteSet(DOMAIN tree')
  <2> HIDE DEF grown
  <2>1. IsFiniteSet(DOMAIN tree)
    BY DEF TypeOK
  <2>2. IsFiniteSet(DOMAIN tree \cup grown)
    BY <2>1, <1>5, FS_Union
  <2> QED BY <2>2, <1>2
<1>7. ASSUME NEW q \in below, NEW x \in Above(Grafted(l[1], q))
      PROVE  x \in DOMAIN tree \cup grown
  <2>1. ChildCount(l[1]) \in Nat
    <3>1. IsFiniteSet({r \in DOMAIN tree : Len(r) = Len(l[1]) + 1 /\ l[1] \in Above(r)})
      BY FS_Subset DEF TypeOK
    <3> QED BY <3>1, FS_CardinalityType DEF ChildCount
  <2>2. q \in Positions /\ q # <<>>
    BY <1>1
  <2>3. \/ x \in Above(l[1])
        \/ \E r \in Above(q) : r # <<>> /\ x = Grafted(l[1], r)
    <3>1. \A r : Grafted(l[1], r) = GraftedAfter(l[1], ChildCount(l[1]), r)
      BY Zenon DEF Grafted, GraftedAfter
    <3>2. x \in Above(GraftedAfter(l[1], ChildCount(l[1]), q))
      BY <1>7, <3>1, Zenon
    <3>3. \/ x \in Above(l[1])
          \/ \E r \in Above(q) :
               r # <<>> /\ x = GraftedAfter(l[1], ChildCount(l[1]), r)
      BY <1>3, <2>1, <2>2, <3>2, AboveOfGraft
    <3> QED BY <3>1, <3>3, Zenon
  <2>4. Above(l[1]) \subseteq DOMAIN tree
    BY <1>3 DEF TypeOK
  <2>5. \A r \in Above(q) : r # <<>> => r \in below
    BY <1>1
  <2> QED BY <2>3, <2>4, <2>5
<1>8. \A p \in DOMAIN tree' : p \in Positions /\ Above(p) \subseteq DOMAIN tree'
  BY <1>2, <1>4, <1>7 DEF TypeOK
<1> QED BY <1>2, <1>6, <1>8 DEF TypeOK, Object

LEMMA StepTyped == TypeOK /\ [Next]_vars => TypeOK'
<1> SUFFICES ASSUME TypeOK, [Next]_vars PROVE TypeOK'
  OBVIOUS
<1>1. CASE RefuseRecursive
  BY <1>1, CutTyped DEF RefuseRecursive
<1>2. CASE NothingToParse
  BY <1>2, CutTyped DEF NothingToParse
<1>3. CASE ExpandKeyword
  <2>1. PICK l \in Places :
          LET file == find_file(KeywordAt(l).to) IN
          /\ KeywordAt(l).to # Attached
          /\ \E at \in Location(disk[file], KeywordAt(l)) :
               tree' = Splice(l, disk[file][at], OdlGetFileSpec(KeywordAt(l)),
                              Append(KeywordAt(l).via, file))
    BY <1>3 DEF ExpandKeyword
  <2> DEFINE file == find_file(KeywordAt(l).to)
  <2>2. KeywordAt(l) \in Keywords
    BY PlaceTyped
  <2>3. file \in Names
    BY <2>1, <2>2, SpellingAssumption DEF Keywords, find_file
  <2>4. PICK at \in Location(disk[file], KeywordAt(l)) :
          tree' = Splice(l, disk[file][at], FileName(directory, file),
                         Append(KeywordAt(l).via, file))
    BY <2>1 DEF OdlGetFileSpec
  <2>5. at \in DOMAIN disk[file]
    BY <2>4 DEF Location
  <2>6. Append(KeywordAt(l).via, file) \in Seq(Names)
    BY <2>2, <2>3, AppendProperties DEF Keywords
  <2> HIDE DEF file
  <2> QED BY <1>3, <2>3, <2>4, <2>5, <2>6, SpliceTyped DEF ExpandKeyword
<1>4. CASE NextKind
  BY <1>4, FirstKindTyped DEF NextKind, TypeOK
<1>5. CASE UNCHANGED vars
  BY <1>5 DEF vars, TypeOK
<1> QED BY <1>1, <1>2, <1>3, <1>4, <1>5 DEF Next, Turn

(***************************************************************************)
(* Any label, including any files: the tree, its positions and the names   *)
(* stamped on it keep their types, and every object has a parent.          *)
(***************************************************************************)
THEOREM TypeCorrect == Spec => []TypeOK
<1>1. Init => TypeOK
  BY InitTyped
<1>2. TypeOK /\ [Next]_vars => TypeOK'
  BY StepTyped
<1> QED BY <1>1, <1>2, PTL DEF Spec

-----------------------------------------------------------------------------
(* No file is entered again.                                               *)

Distinct(via) == \A i, j \in DOMAIN via : via[i] = via[j] => i = j

\* The files the parent chain of p remembers.
FilesAbove(T, p) == {T[q].file_name.name : q \in Above(p) \cap DOMAIN T}

(***************************************************************************)
(* What the code knows of how a keyword got here: no file twice, and, if   *)
(* the keyword is to be expanded, every file is on its parent chain.       *)
(***************************************************************************)
Traced(T, p, k) ==
  /\ Distinct(k.via)
  /\ k.kind \in Kinds => \A j \in DOMAIN k.via : k.via[j] \in FilesAbove(T, p)

AllTraced(T) ==
  \A p \in DOMAIN T : \A i \in DOMAIN T[p].keywords :
    Traced(T, p, T[p].keywords[i])

RootIsLabel ==
  <<>> \in DOMAIN tree /\ tree[<<>>].file_name.name = Label

Reentry == RootIsLabel /\ (Tidy => AllTraced(tree))

LEMMA FilesAboveKept ==
  ASSUME NEW T, NEW p, NEW r,
         DOMAIN tree \subseteq DOMAIN T, Above(p) \subseteq Above(r),
         \A q \in DOMAIN tree : T[q].file_name = tree[q].file_name
  PROVE  FilesAbove(tree, p) \subseteq FilesAbove(T, r)
BY DEF FilesAbove

LEMMA TracedKept ==
  ASSUME NEW T, NEW p, NEW k,
         DOMAIN tree \subseteq DOMAIN T,
         \A q \in DOMAIN tree : T[q].file_name = tree[q].file_name,
         Traced(tree, p, k)
  PROVE  Traced(T, p, k)
BY FilesAboveKept DEF Traced

LEMMA InitReentry == Init => Reentry
<1> SUFFICES ASSUME Init PROVE Reentry
  OBVIOUS
<1> DEFINE label == disk[Label][1]
           fspec == FileName(directory, Label)
<1>1. /\ disk \in Disks /\ directory \in Directories /\ Label \in Names
      /\ 1 \in DOMAIN disk[Label]
  BY NamesAssumption DEF Init
<1>2. /\ <<>> \in DOMAIN label
      /\ \A p \in DOMAIN label : /\ p \in Positions
                                 /\ label[p] \in Seq(Statements)
  BY <1>1, LabelTyped
<1>3. \A p \in DOMAIN label : \A i \in DOMAIN Stamp(label[p], fspec, <<Label>>) :
        Stamp(label[p], fspec, <<Label>>)[i].via = <<Label>>
  <2>1. <<Label>> \in Seq(Names)
    BY <1>1
  <2> HIDE DEF label
  <2>2. ASSUME NEW p \in DOMAIN label,
               NEW i \in DOMAIN Stamp(label[p], FileName(directory, Label), <<Label>>)
        PROVE  Stamp(label[p], FileName(directory, Label), <<Label>>)[i].via = <<Label>>
    <3>1. label[p] \in Seq(Statements)
      BY <1>2
    <3> DEFINE w == label[p]
               v == <<Label>>
    <3>2. w \in Seq(Statements) /\ v \in Seq(Names)
      BY <2>1, <3>1
    <3> HIDE DEF w, v
    <3>3. /\ DOMAIN Stamp(w, FileName(directory, Label), v) = DOMAIN w
          /\ \A j \in DOMAIN w : Stamp(w, FileName(directory, Label), v)[j].via = v
      BY <1>1, <3>2, StampElements
    <3> QED BY <3>3, <2>2 DEF w, v
  <2> QED BY <2>2
<1>4. tree = [p \in DOMAIN label |->
               [file_name |-> fspec,
                keywords |-> Stamp(label[p], fspec, <<Label>>)]]
  BY DEF Init
<1>5. fspec.name = Label
  BY DEF FileName
<1> HIDE DEF label, fspec
<1>6. /\ DOMAIN tree = DOMAIN label
      /\ \A p \in DOMAIN tree :
           /\ tree[p].file_name = fspec
           /\ \A i \in DOMAIN tree[p].keywords : tree[p].keywords[i].via = <<Label>>
  BY <1>3, <1>4
<1>7. RootIsLabel
  BY <1>2, <1>5, <1>6 DEF RootIsLabel
<1>8. ASSUME NEW p \in DOMAIN tree, NEW i \in DOMAIN tree[p].keywords
      PROVE  Traced(tree, p, tree[p].keywords[i])
  <2>1. <<>> \in Above(p)
    BY <1>2, <1>6, PositionAboveItself
  <2>2. Label \in FilesAbove(tree, p)
    BY <2>1, <1>7 DEF FilesAbove, RootIsLabel
  <2>3. /\ DOMAIN <<Label>> = {1}
        /\ <<Label>>[1] = Label
    OBVIOUS
  <2>4. tree[p].keywords[i].via = <<Label>>
    BY <1>6
  <2> QED BY <2>2, <2>3, <2>4 DEF Traced, Distinct
<1> QED BY <1>7, <1>8 DEF Reentry, AllTraced

LEMMA CutReentry ==
  ASSUME TypeOK, Reentry, NEW l \in Places, tree' = Cut(l),
         UNCHANGED <<disk, directory>>
  PROVE  Reentry'
<1>1. /\ DOMAIN tree' = DOMAIN tree
      /\ \A p \in DOMAIN tree :
           /\ tree'[p].file_name = tree[p].file_name
           /\ From(tree'[p].keywords, tree[p].keywords)
  BY CutObjects
<1>2. RootIsLabel'
  BY <1>1 DEF Reentry, RootIsLabel
<1>3. ASSUME Tidy, NEW p \in DOMAIN tree, NEW i \in DOMAIN tree'[p].keywords
      PROVE  Traced(tree', p, tree'[p].keywords[i])
  <2>1. PICK k \in DOMAIN tree[p].keywords :
          tree'[p].keywords[i] = tree[p].keywords[k]
    BY <1>1 DEF From
  <2>2. Traced(tree, p, tree[p].keywords[k])
    BY <1>3 DEF Reentry, AllTraced
  <2> QED BY <1>1, <2>1, <2>2, TracedKept
<1>4. Tidy' => Tidy
  BY DEF Tidy
<1> QED BY <1>1, <1>2, <1>3, <1>4 DEF Reentry, AllTraced

\* In the covered case a keyword that is followed names a file that its
\* parent chain does not.
LEMMA NewFile ==
  ASSUME TypeOK, Tidy, NEW l \in Places,
         KeywordAt(l).to # Attached, ~ ExpandIsRecursive(l[1], KeywordAt(l))
  PROVE  /\ find_file(KeywordAt(l).to) = KeywordAt(l).to
         /\ KeywordAt(l).to \in Names
         /\ KeywordAt(l).to \notin FilesAbove(tree, l[1])
<1> DEFINE n == KeywordAt(l).to
<1>1. KeywordAt(l) \in Keywords
  BY PlaceTyped
<1>2. n \in Names
  BY <1>1 DEF Keywords
<1>3. OdlGetFileName(KeywordAt(l)) = FileName(NoDirectory, n)
  BY DEF OdlGetFileName
<1>4. \A q \in Above(l[1]) : tree[q].file_name # FileName(NoDirectory, n)
  BY <1>3 DEF ExpandIsRecursive
<1>5. ASSUME NEW q \in Above(l[1]) \cap DOMAIN tree
      PROVE  tree[q].file_name.name # n
  <2>1. tree[q].file_name \in [directory : {NoDirectory}, name : Names]
    BY DEF TypeOK, Tidy
  <2>2. tree[q].file_name = [directory |-> NoDirectory, name |-> tree[q].file_name.name]
    BY <2>1
  <2> QED BY <2>2, <1>4 DEF FileName
<1> QED BY <1>2, <1>5 DEF Tidy, FilesAbove

LEMMA SpliceReentry ==
  ASSUME TypeOK, Reentry, Tidy, NEW l \in Places,
         KeywordAt(l).kind \in Kinds, KeywordAt(l).to # Attached,
         ~ ExpandIsRecursive(l[1], KeywordAt(l)),
         NEW file, file = find_file(KeywordAt(l).to),
         NEW at \in DOMAIN disk[file],
         NEW T, T = Splice(l, disk[file][at], FileName(directory, file),
                           Append(KeywordAt(l).via, file))
  PROVE  AllTraced(T)
<1> DEFINE label == disk[file][at]
           fspec == FileName(directory, file)
           k == KeywordAt(l)
           via == Append(k.via, file)
<1>1. /\ l[1] \in DOMAIN tree /\ l[1] \in Positions
      /\ l[2] \in DOMAIN tree[l[1]].keywords
      /\ k \in Keywords /\ k = tree[l[1]].keywords[l[2]]
  BY PlaceTyped DEF KeywordAt
<1>2. file \in Names /\ file \notin FilesAbove(tree, l[1])
  BY NewFile
<1>3. Distinct(k.via) /\ \A j \in DOMAIN k.via : k.via[j] \in FilesAbove(tree, l[1])
  BY <1>1 DEF Reentry, AllTraced, Traced
<1>4. /\ via \in Seq(Names) /\ k.via \in Seq(Names)
      /\ Len(k.via) \in Nat /\ DOMAIN k.via = 1..Len(k.via)
      /\ DOMAIN via = 1..(Len(k.via) + 1)
      /\ \A j \in 1..Len(k.via) : via[j] = k.via[j]
      /\ via[Len(k.via) + 1] = file
  <2>1. k.via \in Seq(Names)
    BY <1>1 DEF Keywords
  <2> HIDE DEF k
  <2>2. /\ via \in Seq(Names) /\ Len(via) = Len(k.via) + 1
        /\ \A j \in 1..Len(k.via) : via[j] = k.via[j]
        /\ via[Len(k.via) + 1] = file
    BY <1>2, <2>1, AppendProperties
  <2> QED BY <2>1, <2>2, LenProperties
<1> HIDE DEF via, k
<1>5. Distinct(via)
  <2> SUFFICES ASSUME NEW i \in DOMAIN via, NEW j \in DOMAIN via, via[i] = via[j]
               PROVE  i = j
    BY DEF Distinct
  <2>1. CASE i \in 1..Len(k.via) /\ j \in 1..Len(k.via)
    BY <2>1, <1>3, <1>4 DEF Distinct
  <2>2. CASE i = Len(k.via) + 1 /\ j \in 1..Len(k.via)
    BY <2>2, <1>2, <1>3, <1>4
  <2>3. CASE j = Len(k.via) + 1 /\ i \in 1..Len(k.via)
    BY <2>3, <1>2, <1>3, <1>4
  <2> QED BY <2>1, <2>2, <2>3, <1>4
<1>6. SplicedInto(T, l, label, fspec, via)
  BY <1>2, <1>4, SplicedObjects DEF via, k
<1>7. /\ DOMAIN tree \subseteq DOMAIN T
      /\ \A q \in DOMAIN tree : T[q].file_name = tree[q].file_name
  BY <1>6 DEF SplicedInto
<1>8. ASSUME NEW p \in DOMAIN tree, NEW i \in DOMAIN tree[p].keywords
      PROVE  Traced(T, p, tree[p].keywords[i])
  BY <1>7, TracedKept DEF Reentry, AllTraced
<1>9. file # Label
  BY <1>1, <1>2, PositionAboveItself DEF FilesAbove, Reentry, RootIsLabel
<1>10. /\ disk \in Disks /\ directory \in Directories
       /\ <<>> \in DOMAIN label /\ label[<<>>] \in Seq(Statements)
       /\ \A q \in DOMAIN label : q \in Positions
  BY <1>2, LabelTyped DEF TypeOK
<1>11. ASSUME NEW i \in DOMAIN Stamp(label[<<>>], fspec, via)
       PROVE  Traced(T, l[1], Stamp(label[<<>>], fspec, via)[i])
  <2>1. /\ i \in DOMAIN label[<<>>]
        /\ Stamp(label[<<>>], fspec, via)[i].kind = label[<<>>][i].kind
        /\ Stamp(label[<<>>], fspec, via)[i].via = via
    BY <1>2, <1>4, <1>10, StampElements
  <2>2. label[<<>>][i].kind \notin Kinds
    BY <1>2, <1>9, <2>1 DEF Tidy
  <2> QED BY <2>1, <2>2, <1>5 DEF Traced
<1> HIDE DEF label, fspec
<1>12. ASSUME NEW p \in DOMAIN tree, NEW i \in DOMAIN T[p].keywords
       PROVE  Traced(T, p, T[p].keywords[i])
  <2>1. CASE p = l[1]
    BY <2>1, <1>1, <1>6, <1>8, <1>11 DEF SplicedInto, FromEither
  <2>2. CASE p # l[1]
    BY <2>2, <1>6, <1>8 DEF SplicedInto
  <2> QED BY <2>1, <2>2
<1>13. ASSUME NEW p \in DOMAIN T, p \notin DOMAIN tree,
              NEW i \in DOMAIN T[p].keywords
       PROVE  Traced(T, p, T[p].keywords[i])
  <2>1. PICK q \in DOMAIN label \ {<<>>} : p = Grafted(l[1], q)
    BY <1>6, <1>13 DEF SplicedInto
  <2>2. p \in Positions /\ Above(l[1]) \subseteq Above(p)
    <3>1. q \in Positions /\ q # <<>>
      BY <1>10 DEF label
    <3> QED BY <1>1, <2>1, <3>1, GraftedTyped
  <2>3. FilesAbove(tree, l[1]) \subseteq FilesAbove(T, p)
    BY <2>2, <1>7, FilesAboveKept
  <2>4. T[p].file_name = fspec /\ T[p].keywords[i].via = via
    BY <1>6, <1>13 DEF SplicedInto
  <2>5. file \in FilesAbove(T, p)
    <3>1. p \in Above(p)
      BY <2>2, PositionAboveItself
    <3>2. fspec.name = file
      BY DEF fspec, FileName
    <3> QED BY <3>1, <3>2, <2>4 DEF FilesAbove
  <2>6. \A j \in DOMAIN via : via[j] \in FilesAbove(T, p)
    BY <1>3, <1>4, <2>3, <2>5
  <2> QED BY <2>4, <2>6, <1>5 DEF Traced
<1> QED BY <1>12, <1>13 DEF AllTraced

LEMMA StepReentry == TypeOK /\ Reentry /\ [Next]_vars => Reentry'
<1> SUFFICES ASSUME TypeOK, Reentry, [Next]_vars PROVE Reentry'
  OBVIOUS
<1>1. CASE RefuseRecursive
  BY <1>1, CutReentry DEF RefuseRecursive
<1>2. CASE NothingToParse
  BY <1>2, CutReentry DEF NothingToParse
<1>3. CASE ExpandKeyword
  <2>1. PICK l \in Places :
          /\ Found(l)
          /\ ~ ExpandIsRecursive(l[1], KeywordAt(l))
          /\ KeywordAt(l).to # Attached
          /\ \E at \in Location(disk[find_file(KeywordAt(l).to)], KeywordAt(l)) :
               tree' = Splice(l, disk[find_file(KeywordAt(l).to)][at],
                              OdlGetFileSpec(KeywordAt(l)),
                              Append(KeywordAt(l).via, find_file(KeywordAt(l).to)))
    BY <1>3 DEF ExpandKeyword
  <2> DEFINE file == find_file(KeywordAt(l).to)
             via == Append(KeywordAt(l).via, file)
  <2>2. PICK at \in Location(disk[file], KeywordAt(l)) :
          tree' = Splice(l, disk[file][at], FileName(directory, file), via)
    BY <2>1 DEF OdlGetFileSpec
  <2>3. at \in DOMAIN disk[file]
    BY <2>2 DEF Location
  <2>4. KeywordAt(l) \in Keywords
    BY PlaceTyped
  <2>5. KeywordAt(l).kind \in Kinds
    BY <2>1, <2>4 DEF Found, Candidates, Keywords, TypeOK, Kinds
  <2>6. file \in Names /\ via \in Seq(Names)
    BY <2>1, <2>4, SpellingAssumption, AppendProperties DEF Keywords, find_file
  <2>7. Tidy => AllTraced(tree')
    BY <2>1, <2>2, <2>3, <2>5, SpliceReentry
  <2> HIDE DEF file, via
  <2>8. SplicedInto(tree', l, disk[file][at], FileName(directory, file), via)
    BY <2>2, <2>3, <2>6, SplicedObjects
  <2>9. RootIsLabel'
    BY <2>8 DEF SplicedInto, Reentry, RootIsLabel
  <2>10. Tidy' => Tidy
    BY <1>3 DEF ExpandKeyword, Tidy
  <2> QED BY <2>7, <2>9, <2>10 DEF Reentry, AllTraced
<1>4. CASE UNCHANGED <<disk, directory, tree>>
  BY <1>4 DEF Reentry, RootIsLabel, Tidy, AllTraced
<1>5. CASE NextKind
  BY <1>4, <1>5 DEF NextKind
<1>6. CASE UNCHANGED vars
  BY <1>4, <1>6 DEF vars
<1> QED BY <1>1, <1>2, <1>3, <1>5, <1>6 DEF Next, Turn

LEMMA ReentryKeepsOut == TypeOK /\ Reentry => TidyFilesNotReentered
<1> SUFFICES ASSUME TypeOK, Reentry, Tidy, NEW l \in Places
             PROVE  Distinct(KeywordAt(l).via)
  BY DEF TidyFilesNotReentered, NoFileReentered, Distinct
<1>1. /\ l[1] \in DOMAIN tree
      /\ l[2] \in DOMAIN tree[l[1]].keywords
      /\ KeywordAt(l) = tree[l[1]].keywords[l[2]]
  BY PlaceTyped DEF KeywordAt
<1> QED BY <1>1 DEF Reentry, AllTraced, Traced

(***************************************************************************)
(* However many files include each other in whatever way: if the label is  *)
(* given without a directory and the files keep their "^" keywords inside  *)
(* objects, no file is parsed while something it included is expanded.     *)
(***************************************************************************)
THEOREM TidyNotReentered == Spec => []TidyFilesNotReentered
<1>1. Init => TypeOK /\ Reentry
  BY InitTyped, InitReentry
<1>2. TypeOK /\ Reentry /\ [Next]_vars => TypeOK' /\ Reentry'
  BY StepTyped, StepReentry
<1>3. TypeOK /\ Reentry => TidyFilesNotReentered
  BY ReentryKeepsOut
<1> QED BY <1>1, <1>2, <1>3, PTL DEF Spec

-----------------------------------------------------------------------------
(* A label's own keywords come first.                                      *)

\* In s the keywords of file f come before all others.
OwnFirst(s, f) ==
  \A i, j \in DOMAIN s : i < j /\ s[j].file_name = f => s[i].file_name = f

\* What is left of a sequence keeps its order.
LEMMA WithoutOrder ==
  ASSUME NEW S, NEW s \in Seq(S), NEW k \in 1..Len(s)
  PROVE  /\ Len(Without(s, k)) = Len(s) - 1
         /\ \A j \in 1..(Len(s) - 1) :
              Without(s, k)[j] = IF j < k THEN s[j] ELSE s[j + 1]
<1> DEFINE N == Len(s)
           a == SubSeq(s, 1, k - 1)
           b == SubSeq(s, k + 1, N)
<1>1. N \in Nat /\ DOMAIN s = 1..N /\ k \in 1..N
  BY LenProperties
<1>2. /\ a \in Seq(S) /\ Len(a) = k - 1
      /\ \A j \in 1..(k - 1) : a[j] = s[j]
  BY <1>1
<1>3. /\ b \in Seq(S) /\ Len(b) = N - k
      /\ \A j \in 1..(N - k) : b[j] = s[k + j]
  <2>1. \A j \in (k + 1)..N : s[j] \in S
    BY <1>1, ElementOfSeq
  <2>2. /\ b \in Seq(S)
        /\ Len(b) = IF k + 1 <= N THEN N - (k + 1) + 1 ELSE 0
        /\ \A j \in 1..(N - (k + 1) + 1) : b[j] = s[(k + 1) + j - 1]
    BY <1>1, <2>1, SubSeqProperties
  <2> HIDE DEF b, N
  <2>3. Len(b) = N - k /\ N - (k + 1) + 1 = N - k
    BY <1>1, <2>2
  <2>4. \A j \in 1..(N - k) : (k + 1) + j - 1 = k + j
    BY <1>1
  <2> QED BY <2>2, <2>3, <2>4
<1>4. Without(s, k) = a \o b
  BY DEF Without
<1> HIDE DEF a, b, N
<1>5. /\ Len(a \o b) = Len(a) + Len(b)
      /\ \A j \in 1..(Len(a) + Len(b)) :
           (a \o b)[j] = IF j <= Len(a) THEN a[j] ELSE b[j - Len(a)]
  BY <1>2, <1>3, ConcatProperties
<1>6. ASSUME NEW j \in 1..(N - 1)
      PROVE  (a \o b)[j] = IF j < k THEN s[j] ELSE s[j + 1]
  <2>1. CASE j < k
    <3>1. j \in 1..(k - 1) /\ j <= Len(a) /\ j \in 1..(Len(a) + Len(b))
      BY <1>1, <1>2, <1>3, <2>1
    <3> QED BY <1>2, <1>5, <2>1, <3>1
  <2>2. CASE ~(j < k)
    <3>1. /\ j - (k - 1) \in 1..(N - k) /\ ~(j <= Len(a))
          /\ j \in 1..(Len(a) + Len(b)) /\ k + (j - (k - 1)) = j + 1
          /\ j - Len(a) = j - (k - 1)
      BY <1>1, <1>2, <1>3, <2>2
    <3>2. (a \o b)[j] = b[j - (k - 1)]
      BY <1>5, <3>1
    <3>3. b[j - (k - 1)] = s[k + (j - (k - 1))]
      BY <1>3, <3>1
    <3> QED BY <2>2, <3>1, <3>2, <3>3
  <2> QED BY <2>1, <2>2
<1>7. Len(a) + Len(b) = N - 1
  BY <1>1, <1>2, <1>3
<1> QED BY <1>4, <1>5, <1>6, <1>7 DEF N

LEMMA WithoutOwnFirst ==
  ASSUME NEW S, NEW s \in Seq(S), NEW k \in 1..Len(s), NEW f, OwnFirst(s, f)
  PROVE  OwnFirst(Without(s, k), f)
<1> DEFINE w == Without(s, k)
           N == Len(s)
<1>1. w \in Seq(S)
  BY WithoutElements
<1>2. Len(w) = N - 1 /\ \A j \in 1..(N - 1) : w[j] = s[IF j < k THEN j ELSE j + 1]
  BY WithoutOrder
<1>3. DOMAIN s = 1..N /\ DOMAIN w = 1..(N - 1) /\ N \in Nat
  BY <1>1, <1>2, LenProperties
<1> HIDE DEF w, N
<1>4. ASSUME NEW i \in DOMAIN w, NEW j \in DOMAIN w, i < j, w[j].file_name = f
      PROVE  w[i].file_name = f
  <2>1. PICK x, y : /\ x = IF i < k THEN i ELSE i + 1
                    /\ y = IF j < k THEN j ELSE j + 1
    OBVIOUS
  <2>2. x \in 1..N /\ y \in 1..N /\ x < y
    BY <1>3, <1>4, <2>1
  <2>3. w[i] = s[x] /\ w[j] = s[y]
    BY <1>2, <1>3, <2>1
  <2> QED BY <1>3, <1>4, <2>2, <2>3 DEF OwnFirst
<1> QED BY <1>4 DEF OwnFirst, w

\* Keywords of another file are appended after them.
LEMMA AppendedOwnFirst ==
  ASSUME NEW S, NEW s \in Seq(S), NEW t \in Seq(S), NEW f, OwnFirst(s, f),
         \A i \in DOMAIN t : t[i].file_name # f
  PROVE  OwnFirst(s \o t, f)
<1> DEFINE u == s \o t
<1>1. /\ Len(s) \in Nat /\ Len(t) \in Nat
      /\ DOMAIN s = 1..Len(s) /\ DOMAIN t = 1..Len(t)
  BY LenProperties
<1>2. /\ u \in Seq(S) /\ Len(u) = Len(s) + Len(t)
      /\ \A i \in 1..(Len(s) + Len(t)) :
           u[i] = IF i <= Len(s) THEN s[i] ELSE t[i - Len(s)]
  BY ConcatProperties
<1>3. DOMAIN u = 1..(Len(s) + Len(t))
  BY <1>2, LenProperties
<1> HIDE DEF u
<1>4. ASSUME NEW i \in DOMAIN u, NEW j \in DOMAIN u, i < j, u[j].file_name = f
      PROVE  u[i].file_name = f
  <2>1. CASE j <= Len(s)
    <3>1. i \in DOMAIN s /\ j \in DOMAIN s /\ u[i] = s[i] /\ u[j] = s[j]
      BY <1>1, <1>2, <1>3, <1>4, <2>1
    <3> QED BY <1>4, <3>1 DEF OwnFirst
  <2>2. CASE ~(j <= Len(s))
    <3>1. j - Len(s) \in DOMAIN t /\ u[j] = t[j - Len(s)]
      BY <1>1, <1>2, <1>3, <2>2
    <3> QED BY <1>4, <3>1
  <2> QED BY <2>1, <2>2
<1> QED BY <1>4 DEF OwnFirst, u

LEMMA StampFiles ==
  ASSUME NEW s \in Seq(Statements), NEW f, NEW via
  PROVE  \A i \in DOMAIN Stamp(s, f, via) : Stamp(s, f, via)[i].file_name = f
<1>1. DOMAIN Stamp(s, f, via) = DOMAIN s
  BY DEF Stamp
<1>2. \A i \in DOMAIN s : Stamp(s, f, via)[i] = Keyword(s[i], f, via)
  BY DEF Stamp
<1>3. \A x : Keyword(x, f, via).file_name = f
  BY DEF Keyword
<1> QED BY <1>1, <1>2, <1>3

LEMMA CutOwnFirst ==
  ASSUME TypeOK, OwnKeywordsFirst, NEW l \in Places, tree' = Cut(l),
         UNCHANGED <<disk, directory>>
  PROVE  OwnKeywordsFirst'
<1> DEFINE w == Without(tree[l[1]].keywords, l[2])
<1>1. /\ l[1] \in DOMAIN tree /\ tree[l[1]] \in Object
      /\ tree[l[1]].keywords \in Seq(Keywords)
      /\ l[2] \in 1..Len(tree[l[1]].keywords)
  BY PlaceTyped DEF Object
<1>2. ASSUME Tidy, NEW p \in DOMAIN tree
      PROVE  OwnFirst(tree[p].keywords, tree[p].file_name)
  BY <1>2 DEF OwnKeywordsFirst, OwnFirst
<1>3. Tidy => OwnFirst(w, tree[l[1]].file_name)
  BY <1>1, <1>2, WithoutOwnFirst
<1> HIDE DEF w
<1>4. tree' = [tree EXCEPT ![l[1]].keywords = w]
  BY DEF Cut, w
<1>5. /\ DOMAIN tree' = DOMAIN tree
      /\ \A p \in DOMAIN tree : p # l[1] => tree'[p] = tree[p]
      /\ tree'[l[1]] = [tree[l[1]] EXCEPT !.keywords = w]
  BY <1>1, <1>4
<1>6. tree'[l[1]].file_name = tree[l[1]].file_name /\ tree'[l[1]].keywords = w
  BY <1>1, <1>5 DEF Object
<1>7. ASSUME Tidy, NEW p \in DOMAIN tree
      PROVE  OwnFirst(tree'[p].keywords, tree'[p].file_name)
  <2>1. CASE p = l[1]
    BY <1>3, <1>6, <1>7, <2>1
  <2>2. CASE p # l[1]
    BY <1>2, <1>5, <1>7, <2>2
  <2> QED BY <2>1, <2>2
<1>8. Tidy' <=> Tidy
  BY DEF Tidy
<1> QED BY <1>5, <1>7, <1>8 DEF OwnKeywordsFirst, OwnFirst

LEMMA SpliceOwnFirst ==
  ASSUME TypeOK, OwnKeywordsFirst, Tidy, NEW l \in Places,
         KeywordAt(l).to # Attached, ~ ExpandIsRecursive(l[1], KeywordAt(l)),
         NEW file, file = find_file(KeywordAt(l).to),
         NEW at \in DOMAIN disk[file], NEW via \in Seq(Names),
         NEW T, T = Splice(l, disk[file][at], FileName(directory, file), via)
  PROVE  \A p \in DOMAIN T : OwnFirst(T[p].keywords, T[p].file_name)
<1> DEFINE label == disk[file][at]
           fspec == FileName(directory, file)
           below == DOMAIN label \ {<<>>}
           top == Stamp(label[<<>>], fspec, via)
           rest == Without(tree[l[1]].keywords, l[2])
<1>1. /\ l[1] \in DOMAIN tree /\ l[1] \in Positions
      /\ tree[l[1]] \in Object
      /\ tree[l[1]].keywords \in Seq(Keywords)
      /\ l[2] \in 1..Len(tree[l[1]].keywords)
  BY PlaceTyped DEF Object
<1>2. file \in Names /\ file \notin FilesAbove(tree, l[1])
  BY NewFile
<1>3. disk \in Disks /\ directory \in Directories
  BY DEF TypeOK
<1>4. /\ <<>> \in DOMAIN label
      /\ \A q \in DOMAIN label : label[q] \in Seq(Statements)
  BY <1>2, <1>3, LabelTyped
<1>5. /\ top \in Seq(Keywords)
      /\ \A q \in DOMAIN label : \A i \in DOMAIN Stamp(label[q], fspec, via) :
           Stamp(label[q], fspec, via)[i].file_name = fspec
  BY <1>2, <1>3, <1>4, StampElements, StampFiles
<1>6. \A i \in DOMAIN top : top[i].file_name = fspec
  BY <1>4, <1>5
<1>7. tree[l[1]].file_name # fspec
  <2>1. l[1] \in Above(l[1])
    BY <1>1, PositionAboveItself
  <2>2. tree[l[1]].file_name.name \in FilesAbove(tree, l[1])
    BY <1>1, <2>1 DEF FilesAbove
  <2>3. fspec.name = file
    BY DEF FileName
  <2> QED BY <1>2, <2>2, <2>3
<1>8. ASSUME NEW p \in DOMAIN tree
      PROVE  OwnFirst(tree[p].keywords, tree[p].file_name)
  BY DEF OwnKeywordsFirst, OwnFirst
<1>9. rest \in Seq(Keywords) /\ OwnFirst(rest, tree[l[1]].file_name)
  BY <1>1, <1>8, WithoutElements, WithoutOwnFirst
<1> HIDE DEF rest, top, label, fspec, below
<1>10. OwnFirst(rest \o top, tree[l[1]].file_name)
  BY <1>5, <1>6, <1>7, <1>9, AppendedOwnFirst
<1>11. T = [p \in DOMAIN tree \cup {Grafted(l[1], q) : q \in below} |->
             IF p = l[1] THEN [tree[p] EXCEPT !.keywords = rest \o top]
             ELSE IF p \in DOMAIN tree THEN tree[p]
             ELSE LET q == CHOOSE q \in below : p = Grafted(l[1], q)
                  IN  [file_name |-> fspec, keywords |-> Stamp(label[q], fspec, via)]]
  BY DEF Splice, Appended, top, rest, below, label, fspec
<1>12. DOMAIN T = DOMAIN tree \cup {Grafted(l[1], q) : q \in below}
  BY <1>11
<1>13. T[l[1]] = [tree[l[1]] EXCEPT !.keywords = rest \o top]
  BY <1>1, <1>11
<1>14. T[l[1]].file_name = tree[l[1]].file_name /\ T[l[1]].keywords = rest \o top
  BY <1>1, <1>13 DEF Object
<1>15. ASSUME NEW p \in DOMAIN T
       PROVE  OwnFirst(T[p].keywords, T[p].file_name)
  <2>1. CASE p = l[1]
    BY <1>10, <1>14, <2>1
  <2>2. CASE p # l[1] /\ p \in DOMAIN tree
    BY <1>8, <1>11, <2>2
  <2>3. CASE p \notin DOMAIN tree
    <3> DEFINE r == CHOOSE q \in below : p = Grafted(l[1], q)
    <3>1. \E q \in below : p = Grafted(l[1], q)
      BY <1>12, <2>3
    <3>2. r \in below
      BY <3>1
    <3>3. T[p] = [file_name |-> fspec, keywords |-> Stamp(label[r], fspec, via)]
      BY <1>1, <1>11, <1>12, <2>3
    <3> HIDE DEF r
    <3>4. r \in DOMAIN label
      BY <3>2 DEF below
    <3>5. T[p].file_name = fspec /\ T[p].keywords = Stamp(label[r], fspec, via)
      BY <3>3
    <3> QED BY <1>5, <3>4, <3>5 DEF OwnFirst
  <2> QED BY <2>1, <2>2, <2>3
<1> QED BY <1>15

LEMMA InitOwnFirst == Init => OwnKeywordsFirst
<1> SUFFICES ASSUME Init PROVE OwnKeywordsFirst
  OBVIOUS
<1> DEFINE label == disk[Label][1]
           fspec == FileName(directory, Label)
<1>1. disk \in Disks /\ Label \in Names /\ 1 \in DOMAIN disk[Label]
  BY NamesAssumption DEF Init
<1>2. \A p \in DOMAIN label : label[p] \in Seq(Statements)
  BY <1>1, LabelTyped
<1>3. tree = [p \in DOMAIN label |->
               [file_name |-> fspec,
                keywords |-> Stamp(label[p], fspec, <<Label>>)]]
  BY DEF Init
<1> HIDE DEF label, fspec
<1>4. ASSUME NEW p \in DOMAIN tree, NEW i \in DOMAIN tree[p].keywords
      PROVE  tree[p].keywords[i].file_name = tree[p].file_name
  <2>1. /\ p \in DOMAIN label /\ tree[p].file_name = fspec
        /\ tree[p].keywords = Stamp(label[p], fspec, <<Label>>)
    BY <1>3
  <2> QED BY <1>2, <1>4, <2>1, StampFiles
<1> QED BY <1>4 DEF OwnKeywordsFirst

LEMMA StepOwnFirst ==
  TypeOK /\ OwnKeywordsFirst /\ [Next]_vars => OwnKeywordsFirst'
<1> SUFFICES ASSUME TypeOK, OwnKeywordsFirst, [Next]_vars PROVE OwnKeywordsFirst'
  OBVIOUS
<1>1. CASE RefuseRecursive
  BY <1>1, CutOwnFirst DEF RefuseRecursive
<1>2. CASE NothingToParse
  BY <1>2, CutOwnFirst DEF NothingToParse
<1>3. CASE ExpandKeyword
  <2>1. PICK l \in Places :
          /\ Found(l)
          /\ ~ ExpandIsRecursive(l[1], KeywordAt(l))
          /\ KeywordAt(l).to # Attached
          /\ \E at \in Location(disk[find_file(KeywordAt(l).to)], KeywordAt(l)) :
               tree' = Splice(l, disk[find_file(KeywordAt(l).to)][at],
                              OdlGetFileSpec(KeywordAt(l)),
                              Append(KeywordAt(l).via, find_file(KeywordAt(l).to)))
    BY <1>3 DEF ExpandKeyword
  <2> DEFINE file == find_file(KeywordAt(l).to)
             via == Append(KeywordAt(l).via, file)
  <2>2. PICK at \in Location(disk[file], KeywordAt(l)) :
          tree' = Splice(l, disk[file][at], FileName(directory, file), via)
    BY <2>1 DEF OdlGetFileSpec
  <2>3. at \in DOMAIN disk[file]
    BY <2>2 DEF Location
  <2>4. KeywordAt(l) \in Keywords
    BY PlaceTyped
  <2>5. via \in Seq(Names)
    BY <2>1, <2>4, SpellingAssumption, AppendProperties DEF Keywords, find_file
  <2>6. Tidy => \A p \in DOMAIN tree' : OwnFirst(tree'[p].keywords, tree'[p].file_name)
    BY <2>1, <2>2, <2>3, <2>5, SpliceOwnFirst
  <2>7. Tidy' => Tidy
    BY <1>3 DEF ExpandKeyword, Tidy
  <2> QED BY <2>6, <2>7 DEF OwnKeywordsFirst, OwnFirst
<1>4. CASE UNCHANGED <<disk, directory, tree>>
  BY <1>4 DEF OwnKeywordsFirst, Tidy
<1>5. CASE NextKind
  BY <1>4, <1>5 DEF NextKind
<1>6. CASE UNCHANGED vars
  BY <1>4, <1>6 DEF vars
<1> QED BY <1>1, <1>2, <1>3, <1>5, <1>6 DEF Next, Turn

(***************************************************************************)
(* Whatever is included, an object's own keywords come before those        *)
(* spliced into it, so OdlFindKwd meets them first: what is appended is    *)
(* from a file that the check has not met on the parent chain, and a cut   *)
(* keeps the order of the rest.                                            *)
(***************************************************************************)
THEOREM OwnKeywordsComeFirst == Spec => []OwnKeywordsFirst
<1>1. TypeOK /\ [Next]_vars => TypeOK'
  BY StepTyped
<1>2. TypeOK /\ OwnKeywordsFirst /\ [Next]_vars => OwnKeywordsFirst'
  BY StepOwnFirst
<1> QED BY InitTyped, InitOwnFirst, <1>1, <1>2, PTL DEF Spec

=============================================================================
