------------------------- MODULE HeaderLoaderProofs -------------------------
(***************************************************************************)
(* Proofs about the header loader, for every set of files.                 *)
(***************************************************************************)
EXTENDS HeaderLoader, TLAPS

-----------------------------------------------------------------------------
(* Headers. *)

HeaderType ==
  [org : Orgs \cup {NoOrg}, size : [Axis -> Nat], bytes : Nat, data : BOOLEAN,
   ddfname : BOOLEAN]

\* There are twelve readers.
LEMMA TwelveLoaders == Len(Loaders) = 12 /\ 1 \in 1..Len(Loaders)
  <1>1. Len(Loaders) = 12
    BY DEF Loaders
  <1>2. QED
    BY <1>1

\* A file's numbers.
LEMMA FileNumbers ==
  ASSUME file \in Files
  PROVE  /\ file.x \in Nat /\ file.y \in Nat /\ file.z \in Nat
         /\ file.bytes \in Nat \ {0} /\ file.org \in Orgs
  BY FilesAssumption

\* Where each order keeps samples, lines and bands.
LEMMA AxisOfOrder ==
  /\ UserAxis("BSQ", 1) = 1 /\ UserAxis("BSQ", 2) = 2 /\ UserAxis("BSQ", 3) = 3
  /\ UserAxis("BIL", 1) = 1 /\ UserAxis("BIL", 2) = 3 /\ UserAxis("BIL", 3) = 2
  /\ UserAxis("BIP", 1) = 3 /\ UserAxis("BIP", 2) = 1 /\ UserAxis("BIP", 3) = 2
  BY DEF UserAxis, iom_orders, Axis

\* The axes one by one.
LEMMA ThreeAxes ==
  /\ Axis = {1, 2, 3}
  /\ \A a, b, c \in Nat : <<a, b, c>> \in [Axis -> Nat]
  <1>1. Axis = {1, 2, 3}
    BY DEF Axis
  <1>2. \A a, b, c \in Nat : <<a, b, c>> \in [1..3 -> Nat]
    OBVIOUS
  <1>3. QED
    BY <1>1, <1>2 DEF Axis

\* A file has a trait or not.
LEMMA TraitsHadOrNot ==
  ASSUME NEW trait
  PROVE  Has(trait) \in BOOLEAN
  <1>1. CASE trait \in file.traits
    BY <1>1 DEF Has
  <1>2. CASE trait \notin file.traits
    BY <1>2 DEF Has
  <1>3. QED
    BY <1>1, <1>2

\* The dimensions of a file fill h->size, and are found there again.
LEMMA SizeOfFile ==
  ASSUME file \in Files, NEW org \in Orgs
  PROVE  /\ OnAxes(org, Dimensions) \in [Axis -> Nat]
         /\ LET s == OnAxes(org, Dimensions)
            IN  /\ s[IF org = "BIP" THEN 2 ELSE 1] = file.x
                /\ s[IF org = "BSQ" THEN 2 ELSE 3] = file.y
                /\ s[IF org = "BIP" THEN 1
                     ELSE IF org = "BIL" THEN 2 ELSE 3] = file.z
  <1>1. org \in {"BSQ", "BIL", "BIP"}
    BY DEF Orgs
  <1>2. CASE org = "BSQ"
    BY <1>2, AxisOfOrder, FileNumbers DEF OnAxes, Dimensions, Axis
  <1>3. CASE org = "BIL"
    BY <1>3, AxisOfOrder, FileNumbers DEF OnAxes, Dimensions, Axis
  <1>4. CASE org = "BIP"
    BY <1>4, AxisOfOrder, FileNumbers DEF OnAxes, Dimensions, Axis
  <1>5. QED
    BY <1>1, <1>2, <1>3, <1>4

Described(h) == ~Has("order unknown") => Describes(h)

\* A header whose accessors give the file's dimensions describes it.
LEMMA GivesDimensions ==
  ASSUME file.format # "IMath", NEW h,
         iom_GetSamples(h) = file.x, iom_GetLines(h) = file.y,
         iom_GetBands(h) = file.z
  PROVE  Described(h)
  BY DEF Described, Describes, Shape, Dimensions, Axis

\* The header of a label is what it was given.
LEMMA LabelHeaderIs ==
  ASSUME NEW org \in Orgs \cup {NoOrg}, NEW size \in [Axis -> Nat]
  PROVE  /\ LabelHeader(org, size) \in HeaderType
         /\ LabelHeader(org, size).org = org /\ LabelHeader(org, size).size = size
         /\ ~LabelHeader(org, size).data /\ ~LabelHeader(org, size).ddfname
  <1>1. Zero3 \in [Axis -> Nat] /\ 0 \in Nat
    BY DEF Zero3, Axis
  <1>2. QED
    BY <1>1 DEF LabelHeader, Fresh, HeaderType, Orgs

\* A label that goes by the table.
LEMMA TableDescribes ==
  ASSUME file \in Files, NEW org \in Orgs
  PROVE  /\ TableHeader(org) \in HeaderType
         /\ ~TableHeader(org).data /\ ~TableHeader(org).ddfname
         /\ file.format # "IMath" => Described(TableHeader(org))
  <1>1. OnAxes(org, Dimensions) \in [Axis -> Nat] /\ org \in Orgs \cup {NoOrg}
    BY SizeOfFile
  <1>2. /\ TableHeader(org) \in HeaderType
        /\ TableHeader(org).org = org
        /\ TableHeader(org).size = OnAxes(org, Dimensions)
        /\ ~TableHeader(org).data /\ ~TableHeader(org).ddfname
    BY <1>1, LabelHeaderIs DEF TableHeader
  <1>3. /\ iom_GetSamples(TableHeader(org)) = file.x
        /\ iom_GetLines(TableHeader(org)) = file.y
        /\ iom_GetBands(TableHeader(org)) = file.z
    BY <1>2, SizeOfFile DEF iom_GetSamples, iom_GetLines, iom_GetBands
  <1>4. QED
    BY <1>2, <1>3, GivesDimensions

\* The labels whose readers write the three dimensions down.
PlaneHeaders ==
  {LabelHeader("BSQ", Dimensions), LabelHeader("BSQ", <<file.x, file.y, 1>>),
   LabelHeader("BSQ", <<file.y, file.x, 1>>)}

LEMMA PlanesDescribe ==
  ASSUME file \in Files
  PROVE  /\ \A h \in PlaneHeaders : h \in HeaderType /\ ~h.data /\ ~h.ddfname
         /\ file.format # "IMath" => Described(LabelHeader("BSQ", Dimensions))
         /\ file.format = "GOES" =>
              Described(LabelHeader("BSQ", <<file.x, file.y, 1>>))
         /\ file.format = "IMath" =>
              Described(LabelHeader("BSQ", <<file.y, file.x, 1>>))
  <1>1. /\ Dimensions \in [Axis -> Nat] /\ "BSQ" \in Orgs \cup {NoOrg}
        /\ <<file.x, file.y, 1>> \in [Axis -> Nat]
        /\ <<file.y, file.x, 1>> \in [Axis -> Nat]
    BY FileNumbers DEF Dimensions, Axis, Orgs
  <1>2. \A h \in PlaneHeaders :
          h \in HeaderType /\ ~h.data /\ ~h.ddfname
    BY <1>1, LabelHeaderIs DEF PlaneHeaders
  <1>3. ASSUME NEW size \in [Axis -> Nat]
        PROVE  /\ iom_GetSamples(LabelHeader("BSQ", size)) = size[1]
               /\ iom_GetLines(LabelHeader("BSQ", size)) = size[2]
               /\ iom_GetBands(LabelHeader("BSQ", size)) = size[3]
    BY <1>1, <1>3, LabelHeaderIs DEF iom_GetSamples, iom_GetLines, iom_GetBands
  <1>4. file.format # "IMath" => Described(LabelHeader("BSQ", Dimensions))
    BY <1>1, <1>3, GivesDimensions DEF Dimensions
  <1>5. ASSUME file.format = "GOES"
        PROVE  Described(LabelHeader("BSQ", <<file.x, file.y, 1>>))
    BY <1>1, <1>3, <1>5, FlatAssumption, GivesDimensions
  <1>6. ASSUME file.format = "IMath"
        PROVE  Described(LabelHeader("BSQ", <<file.y, file.x, 1>>))
    <2>1. file.z = 1
      BY <1>6, FlatAssumption
    <2>2. QED
      BY <1>1, <1>3, <1>6, <2>1 DEF Described, Describes, Shape, Axis
  <1>7. QED
    BY <1>2, <1>4, <1>5, <1>6

\* What a PDS label gives of its dimensions: all, or it is one that does not.
LEMMA GivenSome ==
  ASSUME NEW s \in [Axis -> Nat], NEW given \in Somewhere
  PROVE  /\ Given(s, given) \in [Axis -> Nat]
         /\ \A j \in Axis : \/ Given(s, given)[j] = s[j]
                           \/ (Has("dimensions missing") /\ Given(s, given)[j] = 0)
  <1>1. given = Axis \/ Has("dimensions missing")
    BY DEF Somewhere
  <1>2. QED
    BY <1>1 DEF Given

\* A header describes a file if each of its dimensions does, or is missing.
LEMMA GivesOrMisses ==
  ASSUME file.format # "IMath", NEW h, NEW s,
         iom_GetSamples(h) = s[1], iom_GetLines(h) = s[2], iom_GetBands(h) = s[3],
         \A j \in Axis :
           s[j] = Dimensions[j] \/ (Has("dimensions missing") /\ s[j] = 0)
  PROVE  Describes(h)
  <1> DEFINE read == <<iom_GetSamples(h), iom_GetLines(h), iom_GetBands(h)>>
  <1>1. \A i \in Axis : read[i] = s[i]
    <2>1. read[1] = s[1] /\ read[2] = s[2] /\ read[3] = s[3]
      OBVIOUS
    <2> HIDE DEF read
    <2>2. QED
      BY <2>1, ThreeAxes
  <1> HIDE DEF read
  <1>2. \A i \in Axis : read[i] = Shape[i] \/ (Has("dimensions missing") /\ read[i] = 0)
    BY <1>1 DEF Shape
  <1>3. QED
    BY <1>2 DEF read, Describes

\* The headers a PDS label may give, and those it gives the file's name.
LEMMA ObjectDescribes ==
  ASSUME file \in Files, NEW h \in ObjectHeaders
  PROVE  h \in HeaderType /\ ~h.data /\ (file.format # "IMath" => Described(h))
  <1>1. /\ Dimensions \in [Axis -> Nat] /\ file.org \in Orgs
        /\ file.format # "IMath" => Shape = Dimensions
    BY FileNumbers DEF Dimensions, Axis, Shape
  <1>2. CASE ~Has("image object")
    <2>1. PICK n \in 0..3 :
            /\ 1..n \in Somewhere
            /\ h = LabelHeader(IF Has("order unknown") THEN NoOrg ELSE file.org,
                              Given(OnAxes(file.org, Dimensions), 1..n))
      BY <1>2 DEF ObjectHeaders, QubeObjectHeaders
    <2>2. OnAxes(file.org, Dimensions) \in [Axis -> Nat]
      BY <1>1, SizeOfFile
    <2> DEFINE s == OnAxes(file.org, Dimensions)
               g == Given(s, 1..n)
    <2>3. /\ g \in [Axis -> Nat]
          /\ \A j \in Axis : g[j] = s[j] \/ (Has("dimensions missing") /\ g[j] = 0)
      BY <2>1, <2>2, GivenSome
    <2>4. /\ h \in HeaderType /\ ~h.data /\ h.size = g
          /\ ~Has("order unknown") => h.org = file.org
      <3>1. (IF Has("order unknown") THEN NoOrg ELSE file.org) \in Orgs \cup {NoOrg}
        BY <1>1
      <3>2. QED
        BY <2>1, <2>3, <3>1, LabelHeaderIs
    <2>5. ASSUME ~Has("order unknown"), file.format # "IMath"
          PROVE  Describes(h)
      <3> DEFINE d == <<g[IF file.org = "BIP" THEN 2 ELSE 1],
                        g[IF file.org = "BSQ" THEN 2 ELSE 3],
                        g[IF file.org = "BIP" THEN 1
                          ELSE IF file.org = "BIL" THEN 2 ELSE 3]>>
      <3>1. /\ s[IF file.org = "BIP" THEN 2 ELSE 1] = file.x
            /\ s[IF file.org = "BSQ" THEN 2 ELSE 3] = file.y
            /\ s[IF file.org = "BIP" THEN 1
                 ELSE IF file.org = "BIL" THEN 2 ELSE 3] = file.z
        BY <1>1, SizeOfFile
      <3>0. \A j \in Axis : g[j] = s[j] \/ (Has("dimensions missing") /\ g[j] = 0)
        BY <2>3
      <3> HIDE DEF s, g
      <3>2. iom_GetSamples(h) = d[1] /\ iom_GetLines(h) = d[2] /\ iom_GetBands(h) = d[3]
        BY <2>4, <2>5 DEF iom_GetSamples, iom_GetLines, iom_GetBands
      <3>3. /\ d[1] = file.x \/ (Has("dimensions missing") /\ d[1] = 0)
            /\ d[2] = file.y \/ (Has("dimensions missing") /\ d[2] = 0)
            /\ d[3] = file.z \/ (Has("dimensions missing") /\ d[3] = 0)
        <4>1. 1 \in Axis /\ 2 \in Axis /\ 3 \in Axis
          BY DEF Axis
        <4>2. CASE file.org = "BSQ"
          BY <3>0, <3>1, <4>1, <4>2
        <4>3. CASE file.org = "BIL"
          BY <3>0, <3>1, <4>1, <4>3
        <4>4. CASE file.org = "BIP"
          BY <3>0, <3>1, <4>1, <4>4
        <4>5. QED
          BY <1>1, <4>2, <4>3, <4>4 DEF Orgs
      <3> HIDE DEF d
      <3>4. \A j \in Axis :
              d[j] = Dimensions[j] \/ (Has("dimensions missing") /\ d[j] = 0)
        <4>1. Axis = {1, 2, 3}
          BY DEF Axis
        <4>2. /\ Dimensions[1] = file.x /\ Dimensions[2] = file.y
              /\ Dimensions[3] = file.z
          BY DEF Dimensions
        <4>3. QED
          BY <3>3, <4>1, <4>2
      <3>5. QED
        BY <2>5, <3>2, <3>4, GivesOrMisses
    <2>6. QED
      BY <2>4, <2>5 DEF Described
  <1>3. CASE Has("image object")
    <2> DEFINE Headers(given) ==
                 LET s == Given(Dimensions, given)
                 IN IF Has("order unknown")
                    THEN {LabelHeader(org, s) : org \in Orgs \cup {NoOrg}}
                    ELSE LET org == IF Has("order missing") THEN "BSQ"
                                    ELSE file.org
                         IN {LabelHeader(org, Exchanged(org, s))}
    <2>0. Has("image pointer") \in BOOLEAN
      BY TraitsHadOrNot
    <2>1. PICK f \in UNION {Headers(given) : given \in Somewhere} :
            h = [f EXCEPT !.ddfname = Has("image pointer")]
      BY <1>3 DEF ObjectHeaders, ImageObjectHeaders
    <2>2. PICK given \in Somewhere : f \in Headers(given)
      BY <2>1
    <2> DEFINE s == Given(Dimensions, given)
    <2>3. /\ s \in [Axis -> Nat]
          /\ \A j \in Axis :
               s[j] = Dimensions[j] \/ (Has("dimensions missing") /\ s[j] = 0)
      BY <1>1, <2>2, GivenSome
    <2>4. CASE Has("order unknown")
      <3>1. PICK org \in Orgs \cup {NoOrg} : f = LabelHeader(org, s)
        BY <2>2, <2>4
      <3>2. f \in HeaderType /\ ~f.data
        BY <2>3, <3>1, LabelHeaderIs
      <3>3. h \in HeaderType /\ ~h.data
        BY <2>0, <2>1, <3>2 DEF HeaderType
      <3>4. QED
        BY <2>4, <3>3 DEF Described
    <2>5. CASE ~Has("order unknown")
      <3> DEFINE org == IF Has("order missing") THEN "BSQ" ELSE file.org
                 e == Exchanged(org, s)
      <3>1. f = LabelHeader(org, e)
        BY <2>2, <2>5
      <3>2. org \in {"BSQ", "BIL", "BIP"} /\ org \in Orgs \cup {NoOrg}
        BY <1>1 DEF Orgs
      <3>3. /\ e \in [Axis -> Nat]
            /\ e[IF org = "BIP" THEN 2 ELSE 1] = s[1]
            /\ e[IF org = "BSQ" THEN 2 ELSE 3] = s[2]
            /\ e[IF org = "BIP" THEN 1 ELSE IF org = "BIL" THEN 2 ELSE 3] = s[3]
        <4>0. /\ s[1] \in Nat /\ s[2] \in Nat /\ s[3] \in Nat
              /\ s \in [Axis -> Nat]
          BY <2>3, ThreeAxes
        <4> HIDE DEF s, org
        <4>1. CASE org = "BSQ"
          BY <4>0, <4>1 DEF Exchanged
        <4>2. CASE org = "BIL"
          <5>1. e = <<s[1], s[3], s[2]>>
            BY <4>2 DEF Exchanged
          <5> HIDE DEF e
          <5>2. <<s[1], s[3], s[2]>> \in [Axis -> Nat]
            BY <4>0, ThreeAxes
          <5>3. e[1] = s[1] /\ e[2] = s[3] /\ e[3] = s[2]
            BY <4>0, <5>1
          <5>4. e \in [Axis -> Nat]
            BY <5>1, <5>2
          <5>5. QED
            BY <4>2, <5>3, <5>4
        <4>3. CASE org = "BIP"
          <5>1. e = <<s[3], s[1], s[2]>>
            BY <4>3 DEF Exchanged
          <5> HIDE DEF e
          <5>2. <<s[3], s[1], s[2]>> \in [Axis -> Nat]
            BY <4>0, ThreeAxes
          <5>3. e[1] = s[3] /\ e[2] = s[1] /\ e[3] = s[2]
            BY <4>0, <5>1
          <5>4. e \in [Axis -> Nat]
            BY <5>1, <5>2
          <5>5. QED
            BY <4>3, <5>3, <5>4
        <4>4. QED
          BY <3>2, <4>1, <4>2, <4>3
      <3> HIDE DEF s, org, e
      <3>4. /\ f \in HeaderType /\ ~f.data /\ f.org = org /\ f.size = e
        BY <3>1, <3>2, <3>3, LabelHeaderIs
      <3>5. /\ h \in HeaderType /\ ~h.data /\ h.org = org /\ h.size = e
        BY <2>0, <2>1, <3>4 DEF HeaderType
      <3>6. /\ iom_GetSamples(h) = s[1] /\ iom_GetLines(h) = s[2]
            /\ iom_GetBands(h) = s[3]
        BY <3>3, <3>5 DEF iom_GetSamples, iom_GetLines, iom_GetBands
      <3>7. file.format # "IMath" => Describes(h)
        BY <2>3, <3>6, GivesOrMisses
      <3>8. QED
        BY <3>5, <3>7 DEF Described
    <2>6. QED
      BY <2>4, <2>5
  <1>4. QED
    BY <1>2, <1>3

\* The headers of decoded images: the extents multiply to the file's items.
ImageHeaders(n) == {Planes(n), Rows(n), Pixels(n)}

LEMMA ImagesDescribe ==
  ASSUME file \in Files, NEW n \in Nat, NEW h \in ImageHeaders(n)
  PROVE  /\ h \in HeaderType /\ h.data /\ ~h.ddfname /\ h.bytes = n
         /\ h.size[1] * h.size[2] * h.size[3] = Items3
         /\ file.format # "IMath" => Described(h)
  <1>1. ASSUME NEW org \in Orgs, NEW size \in [Axis -> Nat],
               h = Image(org, size, n)
        PROVE  /\ h \in HeaderType
               /\ h.data /\ ~h.ddfname /\ h.bytes = n /\ h.org = org /\ h.size = size
    <2>1. org \in Orgs \cup {NoOrg}
      OBVIOUS
    <2>2. /\ LabelHeader(org, size) \in HeaderType
          /\ LabelHeader(org, size).org = org /\ LabelHeader(org, size).size = size
          /\ ~LabelHeader(org, size).ddfname
      BY <2>1, LabelHeaderIs
    <2>3. QED
      BY <1>1, <2>2 DEF Image, HeaderType
  <1>2. /\ <<file.x, file.y, file.z>> \in [Axis -> Nat]
        /\ <<file.x, file.z, file.y>> \in [Axis -> Nat]
        /\ <<file.z, file.x, file.y>> \in [Axis -> Nat]
        /\ {"BSQ", "BIL", "BIP"} \subseteq Orgs
        /\ file.x \in Nat /\ file.y \in Nat /\ file.z \in Nat
    BY FileNumbers DEF Axis, Orgs
  <1>3. \A a, b, c \in Nat : a * b * c = c * a * b /\ a * b * c = a * c * b
    OBVIOUS
  <1>4. CASE h = Planes(n)
    <2>1. /\ h \in HeaderType /\ h.data /\ ~h.ddfname /\ h.bytes = n
          /\ h.org = "BSQ" /\ h.size = <<file.x, file.y, file.z>>
      BY <1>1, <1>2, <1>4 DEF Planes
    <2>2. iom_GetSamples(h) = file.x /\ iom_GetLines(h) = file.y /\ iom_GetBands(h) = file.z
      BY <2>1 DEF iom_GetSamples, iom_GetLines, iom_GetBands
    <2>3. QED
      BY <2>1, <2>2, GivesDimensions DEF Items3
  <1>5. CASE h = Rows(n)
    <2>1. /\ h \in HeaderType /\ h.data /\ ~h.ddfname /\ h.bytes = n
          /\ h.org = "BIL" /\ h.size = <<file.x, file.z, file.y>>
      BY <1>1, <1>2, <1>5 DEF Rows
    <2>2. iom_GetSamples(h) = file.x /\ iom_GetLines(h) = file.y /\ iom_GetBands(h) = file.z
      BY <2>1 DEF iom_GetSamples, iom_GetLines, iom_GetBands
    <2>3. h.size[1] * h.size[2] * h.size[3] = Items3
      BY <1>2, <1>3, <2>1 DEF Items3
    <2>4. QED
      BY <2>1, <2>2, <2>3, GivesDimensions
  <1>6. CASE h = Pixels(n)
    <2>1. /\ h \in HeaderType /\ h.data /\ ~h.ddfname /\ h.bytes = n
          /\ h.org = "BIP" /\ h.size = <<file.z, file.x, file.y>>
      BY <1>1, <1>2, <1>6 DEF Pixels
    <2>2. iom_GetSamples(h) = file.x /\ iom_GetLines(h) = file.y /\ iom_GetBands(h) = file.z
      BY <2>1 DEF iom_GetSamples, iom_GetLines, iom_GetBands
    <2>3. h.size[1] * h.size[2] * h.size[3] = Items3
      BY <1>2, <1>3, <2>1 DEF Items3
    <2>4. QED
      BY <2>1, <2>2, <2>3, GivesDimensions
  <1>7. QED
    BY <1>4, <1>5, <1>6 DEF ImageHeaders

\* The readers that choose among them.
LEMMA ChosenImages ==
  ASSUME NEW n
  PROVE  GrayOrPixels(n) \in ImageHeaders(n) /\ HeaderOfTIFF(n) \in ImageHeaders(n)
         /\ Pixels(n) \in ImageHeaders(n)
  BY DEF GrayOrPixels, HeaderOfTIFF, ImageHeaders

-----------------------------------------------------------------------------
(* Type correctness. *)

\* The next reader is one of them.
LEMMA RejectType ==
  ASSUME TypeOK, Reject
  PROVE  /\ loader' \in 1..Len(Loaders) /\ stage' \in {"idle", "probe"}
         /\ result' \in {"none", "0", "1"}
  <1>1. loader \in 1..12 /\ result \in {"none", "0", "1"}
    BY TwelveLoaders DEF TypeOK
  <1>2. CASE loader = 12
    BY <1>2, TwelveLoaders DEF Reject, IsLast
  <1>3. CASE loader # 12
    BY <1>1, <1>3, TwelveLoaders DEF Reject, IsLast
  <1>4. QED
    BY <1>2, <1>3

\* So is the one at work when it answers 1 or stops the program.
LEMMA AcceptType ==
  ASSUME NEW h, Accept(h)
  PROVE  /\ loader' \in 1..Len(Loaders) /\ stage' = "idle" /\ result' = "1"
         /\ header' = h
  BY TwelveLoaders DEF Accept

\* Bytes are counted by naturals.
LEMMA RoomType ==
  ASSUME TypeOK
  PROVE  /\ Items3 \in Nat /\ Items3 * file.bytes \in Nat
         /\ Items3 * file.bytes * file.z \in Nat
         /\ RoomOfTIFF \in Nat /\ RoomOfPNG \in Nat
         /\ Items3 * 2 * file.bytes \in Nat /\ file.x * file.y \in Nat
  <1>1. \A a, b \in Nat : a * b \in Nat
    OBVIOUS
  <1>2. /\ file.x \in Nat /\ file.y \in Nat /\ file.z \in Nat
        /\ file.bytes \in Nat /\ room \in Nat
    BY FileNumbers DEF TypeOK
  <1>3. file.x * file.y \in Nat /\ Items3 \in Nat
    BY <1>1, <1>2 DEF Items3
  <1>4. /\ Items3 * file.bytes \in Nat /\ file.x * file.y * file.bytes \in Nat
        /\ Items3 * 2 \in Nat /\ Items3 * 4 \in Nat
    BY <1>1, <1>2, <1>3
  <1>5. Items3 * file.bytes * file.z \in Nat /\ Items3 * 2 * file.bytes \in Nat
    BY <1>1, <1>2, <1>4
  <1>6. QED
    BY <1>2, <1>3, <1>4, <1>5 DEF RoomOfTIFF, RoomOfPNG

\* The orders that readers give an image.

\* The calls of the caller keep the types.
LEMMA CallsType ==
  ASSUME TypeOK, LoadHeader \/ Cleanup
  PROVE  TypeOK'
  <1>1. Zero3 \in [Axis -> Nat]
    BY DEF Zero3, Axis
  <1>2. CASE LoadHeader
    <2>1. Fresh \in HeaderType
      BY <1>1 DEF Fresh, HeaderType, Orgs
    <2>2. loader' \in 1..Len(Loaders) /\ room' \in Nat
      BY <1>2, TwelveLoaders DEF LoadHeader
    <2>3. header' \in HeaderType
      BY <1>2, <2>1 DEF LoadHeader
    <2>4. QED
      BY <1>2, <2>2, <2>3 DEF LoadHeader, TypeOK, HeaderType
  <1>3. CASE Cleanup
    BY <1>3 DEF Cleanup, TypeOK
  <1>4. QED
    BY <1>2, <1>3

\* A reader that looks at a label keeps the types.
LEMMA TryLabelType ==
  ASSUME TypeOK, NEW l, NEW left \in HeaderType, NEW refused,
         NEW h \in HeaderType, TryLabel(l, left, refused, h)
  PROVE  TypeOK'
  <1>3. /\ loader' \in 1..Len(Loaders) /\ stage' \in {"idle", "probe"}
        /\ result' \in {"none", "0", "1"} /\ header' \in HeaderType
    BY RejectType, AcceptType DEF TryLabel
  <1>4. position' \in {"start", "moved"}
    BY DEF TryLabel, Probe, TypeOK
  <1>5. QED
    BY <1>3, <1>4 DEF TryLabel, TypeOK, HeaderType

\* What every answer of a reader does to its place in the cascade.
Placed ==
  /\ loader' \in 1..Len(Loaders)
  /\ stage' \in {"idle", "probe", "label", "comment", "records", "allocate",
                "read", "crashed"}
  /\ result' \in {"none", "0", "1"}
  /\ header' \in HeaderType

LEMMA RejectPlaces ==
  ASSUME TypeOK, Reject, header' \in HeaderType
  PROVE  Placed
  BY RejectType DEF Placed

LEMMA AcceptPlaces ==
  ASSUME NEW h \in HeaderType, Accept(h)
  PROVE  Placed
  BY AcceptType DEF Placed

LEMMA GotoPlaces ==
  ASSUME TypeOK, NEW s \in {"label", "comment", "records", "allocate", "read"},
         Goto(s)
  PROVE  Placed
  BY DEF Placed, Goto, TypeOK, HeaderType

LEMMA CrashPlaces ==
  ASSUME TypeOK,
         NEW pointer \in {"memory", "keyword", "r_obj", "SColorMap"},
         Crash(pointer)
  PROVE  Placed /\ crash' \in {"memory", "keyword", "r_obj", "SColorMap"}
  BY DEF Placed, Crash, TypeOK, HeaderType

\* The readers of labels keep the types.
LEMMA LabelReaderType ==
  ASSUME TypeOK, LabelReader
  PROVE  TypeOK'
  <1>1. /\ file \in Files /\ file.org \in Orgs /\ header \in HeaderType
        /\ "BIL" \in Orgs /\ 0 \in Nat
    BY FileNumbers DEF TypeOK, HeaderType, Orgs
  <1>2. /\ Fresh \in HeaderType
        /\ TableHeader(file.org) \in HeaderType /\ TableHeader("BIL") \in HeaderType
        /\ \A h \in PlaneHeaders : h \in HeaderType
    <2>1. Zero3 \in [Axis -> Nat]
      BY DEF Zero3, Axis
    <2>2. Fresh \in HeaderType
      BY <2>1 DEF Fresh, HeaderType, Orgs
    <2>3. QED
      BY <1>1, <2>2, TableDescribes, PlanesDescribe
  <1>3. ASSUME Probe
        PROVE  position' \in {"start", "moved"}
    BY <1>3 DEF Probe, TypeOK
  <1>4. CASE GetVicarLabel
    <2>1. Placed /\ crash' \in {"", "memory", "keyword", "r_obj", "SColorMap"}
      BY <1>1, <1>4, RejectPlaces, GotoPlaces, CrashPlaces
      DEF GetVicarLabel, TypeOK
    <2>2. QED
      BY <1>3, <1>4, <2>1
      DEF GetVicarLabel, TypeOK, Placed, HeaderType, Blocks
  <1>5. CASE GetVicarHeader
    <2>1. Placed /\ crash' \in {"", "memory", "keyword", "r_obj", "SColorMap"}
      BY <1>1, <1>2, <1>5, RejectPlaces, AcceptPlaces, CrashPlaces
      DEF GetVicarHeader, TypeOK
    <2>2. QED
      BY <1>5, <2>1 DEF GetVicarHeader, TypeOK, Placed, HeaderType, LabelBlocks
  <1>6. CASE GetISISLabel
    <2>1. Placed
      BY <1>1, <1>2, <1>6, RejectPlaces DEF GetISISLabel, TypeOK, Placed
    <2>2. QED
      BY <1>3, <1>6, <2>1 DEF GetISISLabel, TypeOK, Placed, HeaderType, Blocks
  <1>7. CASE GetISISHeader
    <2>1. \A h \in ObjectHeaders : h \in HeaderType
      BY <1>1, ObjectDescribes
    <2>2. Placed /\ crash' \in {"", "memory", "keyword", "r_obj", "SColorMap"}
      BY <1>1, <1>7, <2>1, RejectPlaces, AcceptPlaces, CrashPlaces
      DEF GetISISHeader, TypeOK
    <2>3. QED
      BY <1>7, <2>2
      DEF GetISISHeader, TypeOK, Placed, HeaderType, LabelBlocks, Blocks
  <1>8. CASE GetAVIRISHeader \/ GetGRDHeader \/ GetGOESHeader \/ GetIMathHeader
    BY <1>1, <1>2, <1>8, TryLabelType
    DEF GetAVIRISHeader, GetGRDHeader, GetGOESHeader, GetIMathHeader, PlaneHeaders
  <1>9. CASE GetENVIHeader
    <2>1. CASE TryLabel("ENVI", header, Has("bad label"), TableHeader(file.org))
      BY <1>1, <1>2, <2>1, TryLabelType
    <2>2. CASE /\ Probe /\ Crash("keyword")
               /\ UNCHANGED <<file, blocks, room, lost, hardship>>
      BY <1>3, <2>2, CrashPlaces DEF TypeOK, Placed, HeaderType
    <2>3. QED
      BY <1>9, <2>1, <2>2 DEF GetENVIHeader
  <1>10. QED
    BY <1>4, <1>5, <1>6, <1>7, <1>8, <1>9 DEF LabelReader

\* The steps image readers are made of keep the types of everything but what
\* a probe reads.
Kept ==
  /\ Placed /\ blocks' \subseteq Blocks /\ room' \in Nat
  /\ lost' \subseteq {"PNM", "JPEG", "PNG", "GIF"} /\ hardship' \in BOOLEAN
  /\ crash' \in {"", "memory", "keyword", "r_obj", "SColorMap"}

LEMMA AllocatedKeeps ==
  ASSUME TypeOK, NEW n \in Nat, NEW extra, extra \subseteq Blocks,
         Allocated(n, extra)
  PROVE  Kept
  <1>1. Goto("read")
    BY DEF Allocated
  <1>2. Placed
    BY <1>1, GotoPlaces
  <1>3. QED
    BY <1>2 DEF Allocated, Kept, TypeOK, Blocks

LEMMA RefusedKeeps ==
  ASSUME TypeOK, NEW kept, kept \subseteq Blocks, Refused(kept)
  PROVE  Kept
  <1>1. Reject /\ header' \in HeaderType
    BY DEF Refused, TypeOK, HeaderType
  <1>2. Placed
    BY <1>1, RejectPlaces
  <1>3. QED
    BY <1>2 DEF Refused, Kept, TypeOK

LEMMA NotLookedAtKeeps ==
  ASSUME TypeOK, NotLookedAt
  PROVE  Kept
  <1>1. Placed /\ crash' \in {"memory", "keyword", "r_obj", "SColorMap"}
    BY CrashPlaces DEF NotLookedAt
  <1>2. QED
    BY <1>1 DEF NotLookedAt, Kept, TypeOK

LEMMA DamagedKeeps ==
  ASSUME TypeOK, NEW freed, Damaged(freed),
         "image" \in freed \/ Name \in {"PNM", "JPEG", "PNG", "GIF"}
  PROVE  Kept
  <1>1. Reject /\ header' \in HeaderType
    BY DEF Damaged, HeaderOfDamaged, TypeOK, HeaderType
  <1>2. Placed
    BY <1>1, RejectPlaces
  <1>3. lost' \subseteq {"PNM", "JPEG", "PNG", "GIF"}
    BY DEF Damaged, TypeOK
  <1>4. QED
    BY <1>2, <1>3 DEF Damaged, Kept, TypeOK

LEMMA AttachKeeps ==
  ASSUME TypeOK, NEW bytes \in Nat, NEW h \in ImageHeaders(bytes), NEW n \in Nat,
         NEW freed, Attach(h, n, freed)
  PROVE  Kept
  <1>1. h \in HeaderType /\ Accept(h)
    BY ImagesDescribe DEF TypeOK, Attach
  <1>2. Placed
    BY <1>1, AcceptPlaces
  <1>3. QED
    BY <1>2 DEF Attach, Kept, TypeOK

LEMMA ProbeImageType ==
  ASSUME TypeOK, NEW l, NEW needs, needs \subseteq Blocks,
         NEW next \in {"comment", "records", "allocate"},
         ProbeImage(l, needs, next)
  PROVE  TypeOK'
  <1>1. header \in HeaderType
    BY DEF TypeOK, HeaderType
  <1>2. Placed
    BY <1>1, RejectPlaces, GotoPlaces DEF ProbeImage
  <1>3. position' \in {"start", "moved"}
    BY DEF ProbeImage, Probe, TypeOK
  <1>4. QED
    BY <1>2, <1>3 DEF ProbeImage, TypeOK, Placed, HeaderType, Blocks

\* The readers of images keep the types.
LEMMA ImageReaderType ==
  ASSUME TypeOK, ImageReader
  PROVE  TypeOK'
  <1>1. /\ {"image", "rows", "buffer", "JPEG", "PNG", "TIFF", "GIF"}
             \subseteq Blocks
        /\ {"BSQ", "BIL", "BIP"} \subseteq Orgs
        /\ {1, 4} \subseteq Nat /\ file.bytes \in Nat /\ 2 * file.bytes \in Nat
    <2>1. file.bytes \in Nat \ {0}
      BY FileNumbers DEF TypeOK
    <2>2. /\ {"image", "rows", "buffer", "JPEG", "PNG", "TIFF", "GIF"}
               \subseteq Blocks
          /\ {"BSQ", "BIL", "BIP"} \subseteq Orgs
      BY DEF Blocks, Orgs
    <2>3. {1, 4} \subseteq Nat /\ file.bytes \in Nat /\ 2 * file.bytes \in Nat
      BY <2>1
    <2>4. QED
      BY <2>2, <2>3
  <1>2. ASSUME Kept, UNCHANGED <<file, position>>
        PROVE  TypeOK'
    BY <1>2 DEF Kept, Placed, HeaderType, TypeOK, Blocks
  <1>3. CASE GetPNMHeader \/ GetJPEGHeader \/ GetPNGHeader \/ GetTIFFHeader
             \/ GetGIFHeader
    BY <1>1, <1>3, ProbeImageType
    DEF GetPNMHeader, GetJPEGHeader, GetPNGHeader, GetTIFFHeader, GetGIFHeader
  <1>4. CASE AllocatePNM
    BY <1>1, <1>2, <1>4, RoomType, AllocatedKeeps, RefusedKeeps
    DEF AllocatePNM, Reading
  <1>5. CASE ReadPNM
    <2>1. room \in Nat /\ Name = "PNM"
      BY <1>5 DEF ReadPNM, At, TypeOK
    <2>2. CASE Damaged({})
      BY <1>2, <1>5, <2>1, <2>2, DamagedKeeps DEF ReadPNM, Reading
    <2>3. CASE Attach(GrayOrPixels(file.bytes), room, {})
      BY <1>1, <1>2, <1>5, <2>1, <2>3, ChosenImages, AttachKeeps DEF ReadPNM, Reading
    <2>4. QED
      BY <1>5, <2>2, <2>3 DEF ReadPNM
  <1>6. CASE AllocateJPEG
    BY <1>1, <1>2, <1>6, RoomType, AllocatedKeeps, NotLookedAtKeeps
    DEF AllocateJPEG, Reading
  <1>7. CASE ReadJPEG
    <2>1. room \in Nat /\ Name = "JPEG"
      BY <1>7 DEF ReadJPEG, At, TypeOK
    <2>2. CASE Damaged({"JPEG"})
      BY <1>2, <1>7, <2>1, <2>2, DamagedKeeps DEF ReadJPEG, Reading
    <2>3. CASE Attach(GrayOrPixels(1), room, {"JPEG"})
      BY <1>1, <1>2, <1>7, <2>1, <2>3, ChosenImages, AttachKeeps DEF ReadJPEG, Reading
    <2>4. QED
      BY <1>7, <2>2, <2>3 DEF ReadJPEG
  <1>8. CASE AllocatePNG
    BY <1>1, <1>2, <1>8, RoomType, AllocatedKeeps, RefusedKeeps
    DEF AllocatePNG, Reading
  <1>9. CASE ReadPNG
    <2>1. RoomOfPNG \in Nat /\ Name = "PNG"
      BY <1>9, RoomType DEF ReadPNG, At
    <2>2. CASE Damaged({"PNG"}) \/ Damaged({"PNG", "rows"})
      BY <1>2, <1>9, <2>1, <2>2, DamagedKeeps DEF ReadPNG, Reading
    <2>3. CASE NotLookedAt
      BY <1>2, <1>9, <2>3, NotLookedAtKeeps DEF ReadPNG, Reading
    <2>4. CASE Attach(Pixels(IF file.bytes = 2 THEN 4 ELSE 1), RoomOfPNG,
                      {"PNG", "rows"})
      BY <1>1, <1>2, <1>9, <2>1, <2>4, ChosenImages, AttachKeeps DEF ReadPNG, Reading
    <2>5. QED
      BY <1>9, <2>2, <2>3, <2>4 DEF ReadPNG
  <1>10. CASE AllocateTIFF
    BY <1>1, <1>2, <1>10, RoomType, AllocatedKeeps, RefusedKeeps,
       NotLookedAtKeeps
    DEF AllocateTIFF, Reading
  <1>11. CASE ReadTIFF
    <2>1. room \in Nat
      BY DEF TypeOK
    <2>2. CASE Damaged({"TIFF", "buffer", "image"})
      BY <1>2, <1>11, <2>2, DamagedKeeps DEF ReadTIFF, Reading
    <2>3. CASE NotLookedAt
      BY <1>2, <1>11, <2>3, NotLookedAtKeeps DEF ReadTIFF, Reading
    <2>4. CASE Attach(HeaderOfTIFF(2 * file.bytes),
                      Items3 * 2 * file.bytes, {"TIFF", "buffer"})
      BY <1>1, <1>2, <1>11, <2>1, <2>4, RoomType, ChosenImages, AttachKeeps
      DEF ReadTIFF, Reading
    <2>5. CASE Attach(HeaderOfTIFF(file.bytes), room, {"TIFF", "buffer"})
      BY <1>1, <1>2, <1>11, <2>1, <2>5, ChosenImages, AttachKeeps DEF ReadTIFF, Reading
    <2>6. QED
      BY <1>11, <2>2, <2>3, <2>4, <2>5 DEF ReadTIFF
  <1>12. CASE FindGIFImage
    <2>1. header \in HeaderType
      BY DEF TypeOK, HeaderType
    <2>2. Placed
      BY <1>12, <2>1, RejectPlaces, GotoPlaces DEF FindGIFImage, OutOfRecords
    <2>3. QED
      BY <1>12, <2>2
      DEF FindGIFImage, OutOfRecords, Placed, HeaderType, TypeOK
  <1>13. CASE AllocateGIF
    BY <1>1, <1>2, <1>13, RoomType, AllocatedKeeps, NotLookedAtKeeps
    DEF AllocateGIF, Reading
  <1>14. CASE ReadGIF
    <2>1. Items3 \in Nat /\ Name = "GIF"
      BY <1>14, RoomType DEF ReadGIF, At
    <2>2. CASE Damaged({"GIF"})
      BY <1>2, <1>14, <2>1, <2>2, DamagedKeeps DEF ReadGIF, Reading
    <2>3. CASE Refused({})
      BY <1>2, <1>14, <2>3, RefusedKeeps DEF ReadGIF, Reading
    <2>4. CASE Crash("SColorMap") /\ UNCHANGED <<blocks, room, lost, hardship>>
      <3>1. Placed /\ crash' \in {"memory", "keyword", "r_obj", "SColorMap"}
        BY <2>4, CrashPlaces
      <3>2. Kept
        BY <2>4, <3>1 DEF Kept, TypeOK
      <3>3. QED
        BY <1>2, <1>14, <3>2 DEF ReadGIF, Reading
    <2>5. CASE Attach(Pixels(1), Items3, {"GIF"})
      BY <1>1, <1>2, <1>14, <2>1, <2>5, ChosenImages, AttachKeeps DEF ReadGIF, Reading
    <2>6. QED
      BY <1>14, <2>2, <2>3, <2>4, <2>5 DEF ReadGIF
  <1>15. QED
    BY <1>3, <1>4, <1>5, <1>6, <1>7, <1>8, <1>9, <1>10, <1>11, <1>12, <1>13,
       <1>14
    DEF ImageReader

LEMMA TypeAtFirst ==
  ASSUME Init
  PROVE  TypeOK
  <1>1. Zero3 \in [Axis -> Nat]
    BY DEF Zero3, Axis
  <1>2. Fresh \in HeaderType
    BY <1>1 DEF Fresh, HeaderType, Orgs
  <1>3. loader \in 1..Len(Loaders) /\ header \in HeaderType /\ room \in Nat
    BY <1>2, TwelveLoaders DEF Init
  <1>4. QED
    BY <1>3 DEF Init, TypeOK, HeaderType

LEMMA TypeKept ==
  ASSUME TypeOK, [Next]_vars
  PROVE  TypeOK'
  <1>1. ASSUME UNCHANGED vars
        PROVE  TypeOK'
    BY <1>1 DEF vars, TypeOK
  <1>2. QED
    BY <1>1, CallsType, LabelReaderType, ImageReaderType DEF Next, SkipComment

\* Every variable keeps its type, whatever files are loaded and whatever fails
\* while they are.
THEOREM TypeCorrect == Spec => []TypeOK
  <1>1. Init => TypeOK
    BY TypeAtFirst
  <1>2. TypeOK /\ [Next]_vars => TypeOK'
    BY TypeKept
  <1>3. QED
    BY <1>1, <1>2, PTL DEF Spec

-----------------------------------------------------------------------------
(* What a header loaded says, and what is allocated for it. *)

\* While a reader is at work the header owns nothing, and beyond its first look
\* the file is of its format; once one has answered 1 the header describes the
\* file.
LoadInv ==
  /\ stage \notin {"idle", "probe", "crashed"} => file.format = Name
  /\ stage # "idle" => ~header.data /\ ~header.ddfname /\ result = "none"
  /\ result = "0" => ~header.data /\ ~header.ddfname
  /\ result = "1" => Described(header)

\* What the reader at work holds.
Decoder == {Name} \cap {"JPEG", "PNG", "TIFF", "GIF"}

Held ==
  IF stage = "label" THEN {"label"}
  ELSE IF stage = "records" THEN {"GIF"}
  ELSE IF stage = "allocate" THEN Decoder
  ELSE IF stage = "read"
    THEN {"image"} \cup Decoder \cup (IF Name = "PNG" THEN {"rows"} ELSE {})
           \cup IF Name = "TIFF" THEN {"buffer"} ELSE {}
  ELSE IF stage = "idle" THEN Owned ELSE {}

\* Nothing else is allocated, but what libpng leaves when it was hard.
BlocksInv ==
  stage # "crashed" =>
    /\ blocks \ {"PNG", "rows"} = Held \ {"PNG", "rows"}
    /\ ~hardship => blocks = Held /\ lost = {}

IInv == TypeOK /\ LoadInv /\ BlocksInv

\* A reader that rejects the file leaves the header alone or fresh.
LEMMA RejectLoads ==
  ASSUME LoadInv, stage # "idle", Reject, UNCHANGED file,
         header' = header \/ header' = Fresh
  PROVE  LoadInv'
  <1>1. ~header.data /\ ~header.ddfname /\ result = "none"
    BY DEF LoadInv
  <1>2. ~header'.data /\ ~header'.ddfname
    BY <1>1 DEF Fresh
  <1>3. /\ result' \in {"none", "0"} /\ (stage' # "idle" => result' = "none")
        /\ stage' \in {"idle", "probe"}
    BY <1>1 DEF Reject
  <1>4. QED
    BY <1>2, <1>3 DEF LoadInv

LEMMA AcceptLoads ==
  ASSUME NEW h, Accept(h), Described(h), UNCHANGED file
  PROVE  LoadInv'
  BY DEF Accept, LoadInv, Described, Describes, Shape, Dimensions, Has,
         iom_GetSamples, iom_GetLines, iom_GetBands

LEMMA GoesOnLoads ==
  ASSUME LoadInv, stage # "idle", UNCHANGED <<file, loader, result>>,
         stage' # "idle", stage \notin {"probe", "crashed"} \/ Own \/ stage' = "crashed",
         header' = header \/ header' = Fresh
  PROVE  LoadInv'
  BY DEF LoadInv, Fresh, Own, Name

\* A reader that has given back what it held.
LEMMA RejectTidies ==
  ASSUME Reject, ~header'.data, ~header'.ddfname,
         blocks' \ {"PNG", "rows"} = {},
         hardship' \/ (blocks' = {} /\ lost' = {})
  PROVE  BlocksInv'
  <1>1. stage' \in {"idle", "probe"}
    BY DEF Reject
  <1>2. Held' = {}
    BY <1>1 DEF Held, Owned
  <1>3. QED
    BY <1>2 DEF BlocksInv

\* A reader that has left what the header owns.
LEMMA AcceptTidies ==
  ASSUME NEW h, Accept(h),
         blocks' \ {"PNG", "rows"} = Owned' \ {"PNG", "rows"},
         hardship' \/ (blocks' = Owned' /\ lost' = {})
  PROVE  BlocksInv'
  <1>1. stage' = "idle"
    BY DEF Accept
  <1>2. Held' = Owned'
    BY <1>1 DEF Held
  <1>3. QED
    BY <1>2 DEF BlocksInv

LEMMA CrashTidies ==
  ASSUME NEW pointer, Crash(pointer)
  PROVE  BlocksInv'
  BY DEF Crash, BlocksInv

\* The calls of the caller.
LEMMA CallsKeep ==
  ASSUME IInv, LoadHeader \/ Cleanup
  PROVE  LoadInv' /\ BlocksInv'
  <1>1. CASE LoadHeader
    BY <1>1 DEF LoadHeader, LoadInv, BlocksInv, Held, Fresh
  <1>2. CASE Cleanup
    <2>1. /\ header'.org = header.org /\ header'.size = header.size
          /\ ~header'.data /\ ~header'.ddfname /\ stage' = "idle"
          /\ stage = "idle" /\ UNCHANGED <<file, result, lost, hardship>>
      BY <1>2 DEF Cleanup, IInv, TypeOK
    <2>2. LoadInv'
      BY <2>1 DEF IInv, LoadInv, Described, Describes, Shape, Dimensions, Has,
                  iom_GetSamples, iom_GetLines, iom_GetBands
    <2>3. Held = Owned /\ Held' = {} /\ Owned \subseteq {"image", "ddfname"}
      BY <2>1 DEF Held, Owned
    <2>4. blocks' = blocks \ {"image", "ddfname"}
      BY <1>2 DEF Cleanup
    <2>5. QED
      BY <2>1, <2>2, <2>3, <2>4 DEF IInv, BlocksInv
  <1>3. QED
    BY <1>1, <1>2

\* At a stage but "idle" and "crashed", what is allocated is known.
LEMMA AtWork ==
  ASSUME IInv, stage \notin {"idle", "crashed"}
  PROVE  /\ ~header.data /\ ~header.ddfname /\ result = "none"
         /\ blocks \ {"PNG", "rows"} = Held \ {"PNG", "rows"}
         /\ hardship \/ (blocks = Held /\ lost = {})
         /\ file \in Files
  BY DEF IInv, LoadInv, BlocksInv, TypeOK

LEMMA TryLabelKeeps ==
  ASSUME IInv, NEW l, NEW left, left = header \/ left = Fresh, NEW refused,
         NEW h, ~h.data, ~h.ddfname, file.format = l => Described(h),
         TryLabel(l, left, refused, h)
  PROVE  LoadInv' /\ BlocksInv'
  <1>1. /\ stage = "probe" /\ Held = {}
        /\ UNCHANGED <<file, blocks, lost, hardship>>
    BY DEF TryLabel, At, Held
  <1>2. CASE Reject /\ header' = left
    <2>1. LoadInv'
      BY <1>1, <1>2, RejectLoads DEF IInv
    <2>2. ~header'.data /\ ~header'.ddfname
      BY <1>1, <1>2, AtWork DEF Fresh
    <2>3. BlocksInv'
      BY <1>1, <1>2, <2>2, AtWork, RejectTidies
    <2>4. QED
      BY <2>1, <2>3
  <1>3. CASE Own /\ Accept(h)
    <2>1. Described(h)
      BY <1>3 DEF TryLabel, At, Own
    <2>2. Owned' = {}
      BY <1>3 DEF Accept, Owned
    <2>3. LoadInv'
      BY <1>1, <1>3, <2>1, AcceptLoads
    <2>4. BlocksInv'
      BY <1>1, <1>3, <2>2, AtWork, AcceptTidies
    <2>5. QED
      BY <2>3, <2>4
  <1>4. QED
    BY <1>2, <1>3 DEF TryLabel

\* Goto and Crash, from a stage at work.
LEMMA GotoKeeps ==
  ASSUME IInv, stage \notin {"idle", "crashed"},
         NEW s \in {"label", "comment", "records", "allocate", "read"}, Goto(s),
         stage # "probe" \/ Own, UNCHANGED <<file, lost, hardship>>,
         blocks' \ {"PNG", "rows"} = Held' \ {"PNG", "rows"},
         hardship \/ blocks' = Held'
  PROVE  LoadInv' /\ BlocksInv'
  <1>1. LoadInv'
    BY GoesOnLoads DEF Goto, IInv
  <1>2. BlocksInv'
    BY AtWork DEF BlocksInv
  <1>3. QED
    BY <1>1, <1>2

LEMMA CrashKeeps ==
  ASSUME IInv, stage \notin {"idle", "crashed"}, NEW pointer, Crash(pointer),
         UNCHANGED file
  PROVE  LoadInv' /\ BlocksInv'
  <1>1. LoadInv'
    BY GoesOnLoads DEF Crash, IInv
  <1>2. QED
    BY <1>1, CrashTidies

\* The readers of labels hold the label at most.
LEMMA LabelReaderKeeps ==
  ASSUME IInv, LabelReader
  PROVE  LoadInv' /\ BlocksInv'
  <1>1. /\ file \in Files /\ file.org \in Orgs /\ "BIL" \in Orgs
        /\ stage = "label" => file.format = Name
    BY FileNumbers DEF IInv, TypeOK, LoadInv, Orgs
  <1>2. \A org \in Orgs :
          /\ ~TableHeader(org).data /\ ~TableHeader(org).ddfname
          /\ file.format # "IMath" => Described(TableHeader(org))
    BY <1>1, TableDescribes
  <1>3. /\ \A h \in PlaneHeaders : ~h.data /\ ~h.ddfname
        /\ file.format # "IMath" => Described(LabelHeader("BSQ", Dimensions))
        /\ file.format = "GOES" =>
             Described(LabelHeader("BSQ", <<file.x, file.y, 1>>))
        /\ file.format = "IMath" =>
             Described(LabelHeader("BSQ", <<file.y, file.x, 1>>))
    BY <1>1, PlanesDescribe
  <1>4. CASE GetVicarLabel
    <2>1. /\ stage = "probe" /\ Held = {} /\ UNCHANGED <<file, lost>>
      BY <1>4 DEF GetVicarLabel, At, Held
    <2>2. CASE Reject /\ UNCHANGED <<header, blocks, hardship, crash>>
      BY <2>1, <2>2, AtWork, RejectLoads, RejectTidies DEF IInv
    <2>3. CASE /\ Own /\ Goto("label") /\ blocks' = blocks \cup {"label"}
               /\ UNCHANGED <<hardship, crash>>
      <3>1. Held' = {"label"}
        BY <2>3 DEF Held, Goto
      <3>2. QED
        BY <2>1, <2>3, <3>1, AtWork, GotoKeeps
    <2>4. CASE Crash("memory")
      BY <2>1, <2>4, CrashKeeps
    <2>5. QED
      BY <1>4, <2>2, <2>3, <2>4 DEF GetVicarLabel
  <1>5. CASE GetVicarHeader
    <2>1. /\ stage = "label" /\ Held = {"label"} /\ Name = "Vicar"
          /\ UNCHANGED <<file, lost, hardship>>
      BY <1>5 DEF GetVicarHeader, At, Held
    <2>2. CASE Crash("keyword")
      BY <2>1, <2>2, CrashKeeps
    <2>3. CASE /\ Reject /\ blocks' = blocks \ LabelBlocks(FALSE)
               /\ UNCHANGED <<header, crash>>
      BY <2>1, <2>3, AtWork, RejectLoads, RejectTidies DEF IInv, LabelBlocks
    <2>4. CASE /\ Accept(TableHeader(file.org))
               /\ blocks' = blocks \ LabelBlocks(TRUE)
      <3>1. Owned' = {}
        BY <1>1, <1>2, <2>4 DEF Accept, Owned
      <3>2. Described(TableHeader(file.org))
        BY <1>1, <1>2, <2>1
      <3>3. QED
        BY <2>1, <2>4, <3>1, <3>2, AtWork, AcceptLoads, AcceptTidies
        DEF LabelBlocks
    <2>5. QED
      BY <1>5, <2>2, <2>3, <2>4 DEF GetVicarHeader
  <1>6. CASE GetISISLabel
    <2>1. /\ stage = "probe" /\ Held = {} /\ UNCHANGED <<file, lost, hardship>>
      BY <1>6 DEF GetISISLabel, At, Held
    <2>2. CASE /\ Reject /\ UNCHANGED blocks
               /\ header' = header \/ header' = Fresh
      <3>1. ~header'.data /\ ~header'.ddfname
        BY <2>1, <2>2, AtWork DEF Fresh
      <3>2. QED
        BY <2>1, <2>2, <3>1, AtWork, RejectLoads, RejectTidies DEF IInv
    <2>3. CASE /\ Own /\ stage' = "label" /\ header' = Fresh
               /\ blocks' = blocks \cup {"label"} /\ UNCHANGED <<loader, result>>
      <3>1. Held' = {"label"}
        BY <2>3 DEF Held
      <3>2. LoadInv'
        BY <2>1, <2>3, GoesOnLoads DEF IInv
      <3>3. BlocksInv'
        BY <2>1, <2>3, <3>1, AtWork DEF BlocksInv
      <3>4. QED
        BY <3>2, <3>3
    <2>4. QED
      BY <1>6, <2>2, <2>3 DEF GetISISLabel
  <1>7. CASE GetISISHeader
    <2>1. /\ stage = "label" /\ Held = {"label"} /\ Name = "ISIS"
          /\ UNCHANGED <<file, lost, hardship>>
      BY <1>7 DEF GetISISHeader, At, Held
    <2>2. CASE Crash("r_obj") \/ Crash("keyword")
      BY <2>1, <2>2, CrashKeeps
    <2>3. CASE /\ Reject /\ blocks' = blocks \ LabelBlocks(FALSE)
               /\ UNCHANGED <<header, crash>>
      BY <2>1, <2>3, AtWork, RejectLoads, RejectTidies DEF IInv, LabelBlocks
    <2>4. ASSUME NEW h \in ObjectHeaders, Accept(h),
                 blocks' = (blocks \ LabelBlocks(TRUE))
                             \cup IF h.ddfname THEN {"ddfname"} ELSE {}
          PROVE  LoadInv' /\ BlocksInv'
      <3>1. ~h.data /\ Described(h)
        BY <1>1, <2>1, ObjectDescribes
      <3>2. Owned' = IF h.ddfname THEN {"ddfname"} ELSE {}
        BY <2>4, <3>1 DEF Accept, Owned
      <3>3. QED
        BY <2>1, <2>4, <3>1, <3>2, AtWork, AcceptLoads, AcceptTidies
        DEF LabelBlocks
    <2>5. QED
      BY <1>7, <2>2, <2>3, <2>4 DEF GetISISHeader
  <1>8. CASE GetAVIRISHeader \/ GetGRDHeader \/ GetGOESHeader \/ GetIMathHeader
    BY <1>1, <1>2, <1>3, <1>8, TryLabelKeeps
    DEF GetAVIRISHeader, GetGRDHeader, GetGOESHeader, GetIMathHeader, PlaneHeaders
  <1>9. CASE GetENVIHeader
    <2>1. CASE TryLabel("ENVI", header, Has("bad label"), TableHeader(file.org))
      BY <1>1, <1>2, <2>1, TryLabelKeeps
    <2>2. CASE /\ At("ENVI", "probe") /\ Crash("keyword")
               /\ UNCHANGED <<file, blocks, room, lost, hardship>>
      BY <2>2, CrashKeeps DEF At
    <2>3. QED
      BY <1>9, <2>1, <2>2 DEF GetENVIHeader
  <1>10. QED
    BY <1>4, <1>5, <1>6, <1>7, <1>8, <1>9 DEF LabelReader

\* The steps of image readers. Held is spelt out for the reader at work by
\* the one who cites them.
LEMMA ProbeImageKeeps ==
  ASSUME IInv, NEW l, NEW needs, NEW next \in {"comment", "records", "allocate"},
         ProbeImage(l, needs, next),
         Goto(next) => needs = Held'
  PROVE  LoadInv' /\ BlocksInv'
  <1>1. /\ stage = "probe" /\ Held = {} /\ UNCHANGED <<file, lost, hardship>>
    BY DEF ProbeImage, At, Held
  <1>2. CASE Reject /\ UNCHANGED <<header, blocks>>
    BY <1>1, <1>2, AtWork, RejectLoads, RejectTidies DEF IInv
  <1>3. CASE Own /\ Goto(next) /\ blocks' = blocks \cup needs
    BY <1>1, <1>3, AtWork, GotoKeeps
  <1>4. QED
    BY <1>2, <1>3 DEF ProbeImage

LEMMA AllocatedTidies ==
  ASSUME IInv, stage = "allocate", NEW n, NEW extra, Allocated(n, extra),
         UNCHANGED file, Held' = Held \cup {"image"} \cup extra
  PROVE  LoadInv' /\ BlocksInv'
  <1>1. /\ Goto("read") /\ UNCHANGED <<lost, hardship>>
        /\ blocks' = blocks \cup {"image"} \cup extra
    BY DEF Allocated
  <1>2. /\ blocks \ {"PNG", "rows"} = Held \ {"PNG", "rows"}
        /\ hardship \/ blocks = Held
    BY AtWork
  <1>3. QED
    BY <1>1, <1>2, GotoKeeps

LEMMA RefusedTidies ==
  ASSUME IInv, stage \in {"allocate", "read"}, NEW kept, Refused(kept),
         UNCHANGED file, kept \subseteq {"PNG", "rows"},
         Held \subseteq {Name, "buffer", "image", "rows"}
  PROVE  LoadInv' /\ BlocksInv'
  <1>1. /\ Reject /\ UNCHANGED header /\ hardship'
        /\ blocks' = (blocks \ {Name, "buffer", "image", "rows"}) \cup kept
    BY DEF Refused
  <1>2. ~header.data /\ ~header.ddfname
    BY AtWork
  <1>3. blocks' \ {"PNG", "rows"} = {}
    BY <1>1, AtWork
  <1>4. QED
    BY <1>1, <1>2, <1>3, RejectLoads, RejectTidies DEF IInv

LEMMA NotLookedAtTidies ==
  ASSUME IInv, stage \in {"allocate", "read"}, NotLookedAt, UNCHANGED file
  PROVE  LoadInv' /\ BlocksInv'
  <1>1. Crash("memory")
    BY DEF NotLookedAt
  <1>2. QED
    BY <1>1, CrashKeeps

LEMMA DamagedTidies ==
  ASSUME IInv, stage = "read", NEW freed, Damaged(freed), UNCHANGED file,
         Held \ (freed \cup {"image"}) \subseteq {"PNG", "rows"}
  PROVE  LoadInv' /\ BlocksInv'
  <1>1. /\ Reject /\ UNCHANGED header /\ hardship'
        /\ blocks' = blocks \ (freed \cup {"image"})
    BY DEF Damaged, HeaderOfDamaged
  <1>2. ~header.data /\ ~header.ddfname
    BY AtWork
  <1>3. blocks' \ {"PNG", "rows"} = {}
    BY <1>1, AtWork
  <1>4. QED
    BY <1>1, <1>2, <1>3, RejectLoads, RejectTidies DEF IInv

LEMMA AttachTidies ==
  ASSUME IInv, stage = "read", Name # "IMath", NEW bytes \in Nat,
         NEW h \in ImageHeaders(bytes), NEW n, NEW freed, Attach(h, n, freed),
         UNCHANGED file, Held \ freed = {"image"}
  PROVE  LoadInv' /\ BlocksInv'
  <1>1. /\ Accept(h) /\ blocks' = blocks \ freed
        /\ UNCHANGED <<lost, hardship>>
    BY DEF Attach
  <1>2. Owned' = {"image"}
    <2>1. h.data /\ ~h.ddfname
      BY AtWork, ImagesDescribe
    <2>2. QED
      BY <1>1, <2>1 DEF Accept, Owned
  <1>3. Described(h)
    <2>1. file.format # "IMath"
      BY DEF IInv, LoadInv
    <2>2. QED
      BY <2>1, AtWork, ImagesDescribe
  <1>4. QED
    BY <1>1, <1>2, <1>3, AtWork, AcceptLoads, AcceptTidies

\* The readers of images hold what Held says.
LEMMA ImageReaderKeeps ==
  ASSUME IInv, ImageReader
  PROVE  LoadInv' /\ BlocksInv'
  <1>1. /\ file.bytes \in Nat /\ 2 * file.bytes \in Nat
        /\ 1 \in Nat /\ 4 \in Nat
    <2>1. file.bytes \in Nat \ {0}
      BY FileNumbers DEF IInv, TypeOK
    <2>2. QED
      BY <2>1
  <1>2. CASE GetPNMHeader \/ GetJPEGHeader \/ GetPNGHeader \/ GetTIFFHeader
             \/ GetGIFHeader
    <2>1. ASSUME NEW next \in {"comment", "records", "allocate"}, Goto(next),
                 At("PNM", "probe") \/ At("JPEG", "probe") \/ At("PNG", "probe")
                   \/ At("TIFF", "probe") \/ At("GIF", "probe")
          PROVE  Held' = IF next = "comment" THEN {}
                         ELSE IF next = "records" THEN {"GIF"} ELSE Decoder
      BY <2>1 DEF Goto, Held, Decoder, Name
    <2>2. QED
      BY <1>2, <2>1, ProbeImageKeeps
      DEF GetPNMHeader, GetJPEGHeader, GetPNGHeader, GetTIFFHeader,
          GetGIFHeader, ProbeImage, At, Decoder
  <1>3. ASSUME stage = "allocate" \/ stage = "read"
        PROVE  /\ stage = "allocate" => Held = Decoder
               /\ stage = "read" =>
                    Held = {"image"} \cup Decoder
                             \cup (IF Name = "PNG" THEN {"rows"} ELSE {})
                             \cup IF Name = "TIFF" THEN {"buffer"} ELSE {}
    BY <1>3 DEF Held
  <1>4. ASSUME stage = "allocate", Goto("read")
        PROVE  Held' = {"image"} \cup Held
                         \cup (IF Name = "PNG" THEN {"rows"} ELSE {})
                         \cup IF Name = "TIFF" THEN {"buffer"} ELSE {}
    BY <1>3, <1>4 DEF Goto, Held, Decoder, Name
  <1>5. CASE AllocatePNM
    BY <1>3, <1>4, <1>5, AllocatedTidies, RefusedTidies
    DEF AllocatePNM, At, Reading, Allocated, Decoder
  <1>6. CASE AllocateJPEG
    BY <1>3, <1>4, <1>6, AllocatedTidies, NotLookedAtTidies
    DEF AllocateJPEG, At, Reading, Allocated, Decoder
  <1>7. CASE AllocatePNG
    BY <1>3, <1>4, <1>7, AllocatedTidies, RefusedTidies
    DEF AllocatePNG, At, Reading, Allocated, Decoder
  <1>8. CASE AllocateTIFF
    BY <1>3, <1>4, <1>8, AllocatedTidies, RefusedTidies, NotLookedAtTidies
    DEF AllocateTIFF, At, Reading, Allocated, Decoder
  <1>9. CASE AllocateGIF
    BY <1>3, <1>4, <1>9, AllocatedTidies, NotLookedAtTidies
    DEF AllocateGIF, At, Reading, Allocated, Decoder
  <1>10. CASE ReadPNM
    <2>1. /\ stage = "read" /\ Held = {"image"}
          /\ UNCHANGED file /\ Name = "PNM"
      BY <1>3, <1>10 DEF ReadPNM, At, Reading, Decoder
    <2>2. QED
      BY <1>1, <1>10, <2>1, DamagedTidies, AttachTidies, ChosenImages DEF ReadPNM
  <1>11. CASE ReadJPEG
    <2>1. /\ stage = "read" /\ Held = {"image", "JPEG"}
          /\ UNCHANGED file /\ Name = "JPEG"
      BY <1>3, <1>11 DEF ReadJPEG, At, Reading, Decoder
    <2>2. QED
      BY <1>1, <1>11, <2>1, DamagedTidies, AttachTidies, ChosenImages DEF ReadJPEG
  <1>12. CASE ReadPNG
    <2>1. /\ stage = "read" /\ Held = {"image", "PNG", "rows"}
          /\ UNCHANGED file /\ Name = "PNG"
      BY <1>3, <1>12 DEF ReadPNG, At, Reading, Decoder
    <2>2. QED
      BY <1>1, <1>12, <2>1, DamagedTidies, NotLookedAtTidies, AttachTidies,
         ChosenImages
      DEF ReadPNG
  <1>13. CASE ReadTIFF
    <2>1. /\ stage = "read" /\ Held = {"image", "TIFF", "buffer"}
          /\ UNCHANGED file /\ Name = "TIFF"
      BY <1>3, <1>13 DEF ReadTIFF, At, Reading, Decoder
    <2>2. QED
      BY <1>1, <1>13, <2>1, DamagedTidies, NotLookedAtTidies, AttachTidies,
         ChosenImages
      DEF ReadTIFF
  <1>14. CASE ReadGIF
    <2>1. /\ stage = "read" /\ Held = {"image", "GIF"} /\ UNCHANGED file
          /\ Name = "GIF"
      BY <1>3, <1>14 DEF ReadGIF, At, Reading, Decoder
    <2>2. QED
      BY <1>1, <1>14, <2>1, DamagedTidies, RefusedTidies, CrashKeeps,
         AttachTidies, ChosenImages
      DEF ReadGIF
  <1>15. CASE FindGIFImage
    <2>1. /\ stage = "records" /\ Held = {"GIF"} /\ Name = "GIF"
          /\ UNCHANGED <<file, lost, hardship>>
      BY <1>15 DEF FindGIFImage, At, Held
    <2>2. CASE OutOfRecords
      BY <2>1, <2>2, AtWork, RejectLoads, RejectTidies DEF IInv, OutOfRecords
    <2>3. CASE Goto("allocate") /\ UNCHANGED blocks
      <3>1. Held' = {"GIF"}
        BY <2>1, <2>3 DEF Held, Goto, Decoder, Name
      <3>2. QED
        BY <2>1, <2>3, <3>1, AtWork, GotoKeeps
    <2>4. QED
      BY <1>15, <2>2, <2>3 DEF FindGIFImage
  <1>16. QED
    BY <1>2, <1>5, <1>6, <1>7, <1>8, <1>9, <1>10, <1>11, <1>12, <1>13, <1>14,
       <1>15
    DEF ImageReader

\* The invariant of loading, and what follows from it.
LEMMA Loading == Spec => []IInv
  <1>1. Init => IInv
    <2>1. ASSUME Init
          PROVE  LoadInv /\ BlocksInv
      <3>1. ~Fresh.data /\ ~Fresh.ddfname
        BY DEF Fresh
      <3>2. Held = {} /\ LoadInv
        BY <2>1, <3>1 DEF Init, Held, Owned, LoadInv
      <3>3. QED
        BY <2>1, <3>2 DEF Init, BlocksInv
    <2>2. Init => TypeOK
      BY TypeAtFirst
    <2>3. QED
      BY <2>1, <2>2 DEF IInv
  <1>2. IInv /\ [Next]_vars => IInv'
    <2>1. ASSUME IInv, UNCHANGED vars
          PROVE  IInv'
      <3>1. TypeOK'
        BY <2>1, TypeKept DEF IInv
      <3>2. LoadInv' /\ BlocksInv'
        BY <2>1
        DEF IInv, LoadInv, BlocksInv, Held, Owned, Described, Describes, Shape,
            Dimensions, Has, Decoder, Name, iom_GetSamples, iom_GetLines,
            iom_GetBands, vars
      <3>3. QED
        BY <3>1, <3>2 DEF IInv
    <2>2. ASSUME IInv, Next
          PROVE  IInv'
      <3>1. TypeOK'
        BY <2>2, TypeKept DEF IInv
      <3>2. CASE LoadHeader \/ Cleanup
        BY <2>2, <3>1, <3>2, CallsKeep DEF IInv
      <3>3. CASE LabelReader
        BY <2>2, <3>1, <3>3, LabelReaderKeeps DEF IInv
      <3>4. CASE ImageReader
        BY <2>2, <3>1, <3>4, ImageReaderKeeps DEF IInv
      <3>5. CASE SkipComment
        BY <2>1, <2>2, <3>5 DEF SkipComment
      <3>6. QED
        BY <2>2, <3>2, <3>3, <3>4, <3>5 DEF Next
    <2>3. QED
      BY <2>1, <2>2
  <1>3. QED
    BY <1>1, <1>2, PTL DEF Spec

\* A header loaded gives the file's samples, lines and bands, for files of any
\* dimensions (iom_LoadHeader and its readers): those of an IMath file turned
\* (io_imath.c:82), and 0 for a dimension that a PDS label leaves out
\* (io_isis.c:151).  Only a PDS label with an order that io_isis.c does not know
\* is excepted, which is accepted with h->org unset.
THEOREM HeaderDescribesFileThm == Spec => []HeaderDescribesFile
  <1>1. IInv => HeaderDescribesFile
    BY DEF IInv, LoadInv, Described, HeaderDescribesFile
  <1>2. QED
    BY <1>1, Loading, PTL

\* A caller told 0 has nothing to free, whichever readers held what before.
THEOREM FailureOwnsNothingThm == Spec => []FailureOwnsNothing
  <1>1. IInv => FailureOwnsNothing
    BY DEF IInv, LoadInv, FailureOwnsNothing, Owned
  <1>2. QED
    BY <1>1, Loading, PTL

\* What is allocated after a call is what the header owns, unless memory or the
\* file has failed a reader; then it may be libpng's as well.
THEOREM NothingLostThm == Spec => []NothingLost
  <1>1. IInv => NothingLost
    <2>1. ASSUME IInv, stage = "idle"
          PROVE  /\ Held = Owned /\ Owned \ {"PNG", "rows"} = Owned
                 /\ blocks \ {"PNG", "rows"} = Held \ {"PNG", "rows"}
                 /\ ~hardship => blocks = Held /\ lost = {}
      BY <2>1 DEF IInv, BlocksInv, Held, Owned
    <2>2. QED
      BY <2>1 DEF NothingLost
  <1>2. QED
    BY <1>1, Loading, PTL

-----------------------------------------------------------------------------
(* A file that its reader understands is loaded. *)

\* The reader of the file has not been passed, and who has begun to read is
\* that reader.
OwnToCome == \E i \in loader..12 : Loaders[i] = file.format

Going ==
  /\ stage # "crashed" /\ result # "0"
  /\ stage # "idle" => OwnToCome
  /\ stage \notin {"idle", "probe"} => file.format = Name

SoundInv == Sound /\ ~hardship => Going

\* The one reader that a sound file's name does not lead astray.
LEMMA OwnIsFormat ==
  ASSUME Sound, Name \in {Loaders[i] : i \in 1..12}
  PROVE  Own <=> file.format = Name
  BY DEF Own, Sound, Rewinds, ByName, Has

\* What is sound is not damaged in any way that a reader looks for.
LEMMA SoundTraits ==
  ASSUME Sound
  PROVE  /\ ~Has("bad label") /\ ~Has("keyword missing")
         /\ ~Has("no image object") /\ ~Has("in comment")
         /\ ~Has("no colormap") /\ ~Has("extension") /\ ~Has("no image")
         /\ file.format # "other"
  BY DEF Sound, Has

\* Only a reader that is not the file's own may reject it.
LEMMA RejectGoesOn ==
  ASSUME TypeOK, SoundInv, stage # "idle", Reject, UNCHANGED <<file, hardship>>,
         Sound /\ ~hardship => file.format # Name
  PROVE  SoundInv'
  <1>1. SUFFICES ASSUME Sound, ~hardship
                 PROVE  Going'
    BY DEF SoundInv, Sound, Has
  <1>2. Going /\ OwnToCome /\ file.format # Name
    BY <1>1 DEF SoundInv, Going
  <1>3. PICK i \in loader..12 : Loaders[i] = file.format
    BY <1>2 DEF OwnToCome
  <1>4. loader \in 1..12 /\ Len(Loaders) = 12
    BY TwelveLoaders DEF TypeOK
  <1>5. i # loader
    BY <1>2, <1>3 DEF Name
  <1>6. loader # 12 /\ i \in (loader + 1)..12
    BY <1>3, <1>4, <1>5
  <1>7. loader' = loader + 1 /\ stage' = "probe" /\ result' = result
    BY <1>4, <1>6 DEF Reject, IsLast
  <1>8. OwnToCome'
    BY <1>3, <1>6, <1>7 DEF OwnToCome
  <1>9. QED
    BY <1>2, <1>7, <1>8 DEF Going

LEMMA AcceptGoesOn ==
  ASSUME NEW h, Accept(h)
  PROVE  SoundInv'
  BY DEF Accept, SoundInv, Going

\* Its own reader goes on with it.
LEMMA StepGoesOn ==
  ASSUME SoundInv, stage \notin {"idle", "crashed"}, file.format = Name,
         stage' \notin {"idle", "crashed"},
         UNCHANGED <<file, hardship, loader, result>>
  PROVE  SoundInv'
  BY DEF SoundInv, Going, OwnToCome, Name, Sound, Has

LEMMA GotoGoesOn ==
  ASSUME SoundInv, stage \notin {"idle", "crashed"}, file.format = Name,
         NEW s \in {"label", "comment", "records", "allocate", "read"}, Goto(s),
         UNCHANGED <<file, hardship>>
  PROVE  SoundInv'
  BY StepGoesOn DEF Goto

\* Hardship and unsound files are no concern.
LEMMA NoConcern ==
  ASSUME hardship' \/ (~Sound /\ UNCHANGED file)
  PROVE  SoundInv'
  BY DEF SoundInv, Sound, Has

\* Whose turn it is.
LEMMA NameInList ==
  ASSUME TypeOK
  PROVE  Name \in {Loaders[i] : i \in 1..12}
  BY TwelveLoaders DEF TypeOK, Name

\* The reader that has begun has begun with a file of its own.
LEMMA BegunWithOwn ==
  ASSUME SoundInv, Sound, ~hardship, stage \notin {"idle", "probe"}
  PROVE  file.format = Name
  BY DEF SoundInv, Going

LEMMA ProbeGoesOn ==
  ASSUME TypeOK, SoundInv, stage = "probe", UNCHANGED <<file, hardship>>,
         (~Own /\ Reject) \/ ~Sound \/ (\E h : Accept(h))
  PROVE  SoundInv'
  <1>1. CASE ~Own /\ Reject
    BY <1>1, OwnIsFormat, NameInList, RejectGoesOn
  <1>2. CASE ~Sound
    BY <1>2, NoConcern
  <1>3. CASE \E h : Accept(h)
    BY <1>3, AcceptGoesOn
  <1>4. QED
    BY <1>1, <1>2, <1>3

\* No reader of labels stops a sound file.
LEMMA LabelReaderGoesOn ==
  ASSUME TypeOK, SoundInv, LabelReader
  PROVE  SoundInv'
  <1>1. CASE GetVicarLabel
    <2>1. stage = "probe" /\ UNCHANGED file
      BY <1>1 DEF GetVicarLabel, At
    <2>2. CASE ~Own /\ Reject /\ UNCHANGED <<header, blocks, hardship, crash>>
      BY <2>1, <2>2, OwnIsFormat, NameInList, RejectGoesOn
    <2>3. CASE Own /\ Goto("label") /\ UNCHANGED <<hardship, crash>>
      BY <2>1, <2>3, GotoGoesOn DEF Own
    <2>4. CASE hardship' = TRUE
      BY <2>4, NoConcern
    <2>5. QED
      BY <1>1, <2>2, <2>3, <2>4 DEF GetVicarLabel
  <1>2. CASE GetVicarHeader
    <2>1. stage = "label" /\ UNCHANGED <<file, hardship>>
      BY <1>2 DEF GetVicarHeader, At
    <2>2. CASE Has("keyword missing") \/ Has("bad label")
      BY <2>1, <2>2, SoundTraits, NoConcern
    <2>3. CASE Accept(TableHeader(file.org))
      BY <2>3, AcceptGoesOn
    <2>4. QED
      BY <1>2, <2>2, <2>3 DEF GetVicarHeader
  <1>3. CASE GetISISLabel
    <2>1. stage = "probe" /\ UNCHANGED <<file, hardship>>
      BY <1>3 DEF GetISISLabel, At
    <2>2. CASE ~Own /\ Reject
      BY <2>1, <2>2, OwnIsFormat, NameInList, RejectGoesOn
    <2>3. CASE Own /\ stage' = "label" /\ UNCHANGED <<loader, result>>
      BY <2>1, <2>3, StepGoesOn DEF Own
    <2>4. QED
      BY <1>3, <2>2, <2>3 DEF GetISISLabel
  <1>4. CASE GetISISHeader
    <2>1. stage = "label" /\ UNCHANGED <<file, hardship>>
      BY <1>4 DEF GetISISHeader, At
    <2>2. CASE Has("no image object") \/ Has("keyword missing")
               \/ Has("bad label")
      BY <2>1, <2>2, SoundTraits, NoConcern
    <2>3. CASE \E h \in ObjectHeaders : Accept(h)
      BY <2>3, AcceptGoesOn
    <2>4. QED
      BY <1>4, <2>2, <2>3 DEF GetISISHeader
  <1>5. CASE GetAVIRISHeader
    BY <1>5, SoundTraits, ProbeGoesOn DEF GetAVIRISHeader, TryLabel, At
  <1>6. CASE GetGRDHeader \/ GetGOESHeader \/ GetIMathHeader
    BY <1>6, ProbeGoesOn
    DEF GetGRDHeader, GetGOESHeader, GetIMathHeader, TryLabel, At
  <1>7. CASE GetENVIHeader
    <2>1. CASE TryLabel("ENVI", header, Has("bad label"), TableHeader(file.org))
      BY <2>1, SoundTraits, ProbeGoesOn DEF TryLabel, At
    <2>2. CASE Has("keyword missing") /\ UNCHANGED file
      BY <2>2, SoundTraits, NoConcern
    <2>3. QED
      BY <1>7, <2>1, <2>2 DEF GetENVIHeader
  <1>8. QED
    BY <1>1, <1>2, <1>3, <1>4, <1>5, <1>6, <1>7 DEF LabelReader

LEMMA ProbeImageGoesOn ==
  ASSUME TypeOK, SoundInv, NEW l, NEW needs,
         NEW next \in {"comment", "records", "allocate"},
         ProbeImage(l, needs, next)
  PROVE  SoundInv'
  <1>1. stage = "probe" /\ UNCHANGED <<file, hardship>>
    BY DEF ProbeImage, At
  <1>2. CASE (~Own \/ Has("bad label")) /\ Reject
    BY <1>1, <1>2, OwnIsFormat, NameInList, SoundTraits, RejectGoesOn
  <1>3. CASE Own /\ Goto(next)
    BY <1>1, <1>3, GotoGoesOn DEF Own
  <1>4. QED
    BY <1>2, <1>3 DEF ProbeImage

\* A reader that has begun to decode goes on, accepts, or has met hardship.
LEMMA DecoderGoesOn ==
  ASSUME SoundInv, stage \in {"allocate", "read"}, UNCHANGED file,
         \/ hardship'
         \/ Goto("read") /\ UNCHANGED hardship
         \/ \E h : Accept(h)
  PROVE  SoundInv'
  <1>1. CASE hardship'
    BY <1>1, NoConcern
  <1>2. CASE \E h : Accept(h)
    BY <1>2, AcceptGoesOn
  <1>3. CASE Goto("read") /\ UNCHANGED hardship /\ Sound /\ ~hardship
    BY <1>3, BegunWithOwn, GotoGoesOn
  <1>4. CASE ~Sound
    BY <1>4, NoConcern
  <1>5. CASE UNCHANGED hardship /\ hardship
    BY <1>5, NoConcern
  <1>6. QED
    BY <1>1, <1>2, <1>3, <1>4, <1>5

\* No reader of images does.
LEMMA ImageReaderGoesOn ==
  ASSUME TypeOK, SoundInv, ImageReader
  PROVE  SoundInv'
  <1>1. ASSUME NEW n, NEW extra, Allocated(n, extra)
        PROVE  Goto("read") /\ UNCHANGED hardship
    BY <1>1 DEF Allocated
  <1>2. ASSUME NEW h, NEW n, NEW freed, Attach(h, n, freed)
        PROVE  \E g : Accept(g)
    BY <1>2 DEF Attach
  <1>3. ASSUME NEW b, Refused(b) \/ Damaged(b) \/ NotLookedAt
        PROVE  hardship'
    BY <1>3 DEF Refused, Damaged, NotLookedAt
  <1>4. CASE GetPNMHeader \/ GetJPEGHeader \/ GetPNGHeader \/ GetTIFFHeader
             \/ GetGIFHeader
    BY <1>4, ProbeImageGoesOn
    DEF GetPNMHeader, GetJPEGHeader, GetPNGHeader, GetTIFFHeader, GetGIFHeader
  <1>5. CASE AllocatePNM \/ ReadPNM
    BY <1>1, <1>2, <1>3, <1>5, DecoderGoesOn
    DEF AllocatePNM, ReadPNM, At, Reading
  <1>6. CASE AllocateJPEG \/ ReadJPEG
    BY <1>1, <1>2, <1>3, <1>6, DecoderGoesOn
    DEF AllocateJPEG, ReadJPEG, At, Reading
  <1>7. CASE AllocatePNG \/ ReadPNG
    BY <1>1, <1>2, <1>3, <1>7, DecoderGoesOn
    DEF AllocatePNG, ReadPNG, At, Reading
  <1>8. CASE AllocateTIFF \/ ReadTIFF
    BY <1>1, <1>2, <1>3, <1>8, DecoderGoesOn
    DEF AllocateTIFF, ReadTIFF, At, Reading
  <1>9. CASE FindGIFImage
    <2>1. stage = "records" /\ UNCHANGED <<file, hardship>>
      BY <1>9 DEF FindGIFImage, At
    <2>2. CASE Has("no image") \/ Has("extension")
      BY <2>1, <2>2, SoundTraits, NoConcern
    <2>3. CASE Goto("allocate") /\ Sound /\ ~hardship
      BY <2>1, <2>3, BegunWithOwn, GotoGoesOn
    <2>4. CASE ~Sound \/ hardship
      BY <2>1, <2>4, NoConcern
    <2>5. QED
      BY <1>9, <2>2, <2>3, <2>4 DEF FindGIFImage
  <1>10. CASE AllocateGIF
    BY <1>1, <1>3, <1>10, DecoderGoesOn DEF AllocateGIF, At, Reading
  <1>11. CASE ReadGIF
    <2>1. stage = "read" /\ UNCHANGED file
      BY <1>11 DEF ReadGIF, At, Reading
    <2>2. CASE Has("no colormap")
      BY <2>1, <2>2, SoundTraits, NoConcern
    <2>3. CASE ~Has("no colormap")
      BY <1>2, <1>3, <1>11, <2>1, <2>3, DecoderGoesOn DEF ReadGIF
    <2>4. QED
      BY <2>2, <2>3
  <1>12. QED
    BY <1>4, <1>5, <1>6, <1>7, <1>8, <1>9, <1>10, <1>11 DEF ImageReader

\* A sound file is not rejected, and stops no reader, wherever the readers
\* before its own have left fp and in any cascade of calls, unless memory or
\* the file itself fails (iom_LoadHeader).
THEOREM SoundFileLoadedThm == Spec => []SoundFileLoaded
  <1>1. Init => TypeOK /\ SoundInv
    BY TypeAtFirst DEF Init, SoundInv, Going
  <1>2. TypeOK /\ SoundInv /\ [Next]_vars => (TypeOK /\ SoundInv)'
    <2>1. ASSUME TypeOK, SoundInv, LoadHeader
          PROVE  SoundInv'
      <3>1. ASSUME Sound'
            PROVE  OwnToCome'
        <4>1. file' \in Files /\ file'.format # "other" /\ loader' = 1
          BY <2>1, <3>1 DEF LoadHeader, Sound
        <4>2. file'.format \in {Loaders[i] : i \in 1..12}
          BY <4>1, FilesAssumption, TwelveLoaders
        <4>3. QED
          BY <4>1, <4>2 DEF OwnToCome
      <3>2. QED
        BY <2>1, <3>1 DEF LoadHeader, SoundInv, Going
    <2>2. ASSUME SoundInv, Cleanup
          PROVE  SoundInv'
      BY <2>2 DEF Cleanup, SoundInv, Going, Sound, Has
    <2>3. ASSUME SoundInv, UNCHANGED vars
          PROVE  SoundInv'
      BY <2>3 DEF vars, SoundInv, Going, Sound, Has, OwnToCome, Name
    <2>4. QED
      BY <2>1, <2>2, <2>3, TypeKept, LabelReaderGoesOn, ImageReaderGoesOn
      DEF Next, SkipComment
  <1>3. SoundInv => SoundFileLoaded
    BY DEF SoundInv, Going, SoundFileLoaded
  <1>4. QED
    BY <1>1, <1>2, <1>3, PTL DEF Spec

-----------------------------------------------------------------------------
(* The block of an image is as long as its header says. *)

\* Bytes for the reader at work, once it has allocated them.  GIF makes its
\* block to measure in the end.
RoomAtRead ==
  /\ Name = "PNM" => room = Items3 * file.bytes
  /\ Name = "JPEG" => room = Items3
  /\ Name = "PNG" => room = Items3 * file.bytes * file.z
  /\ Name = "TIFF" => room = RoomOfTIFF

OnePlane == ~(Has("separate") /\ ~Has("tiled"))

RoomInv ==
  /\ stage = "read" => RoomAtRead
  /\ stage # "idle" => ~header.data
  /\ header.data /\ OnePlane => Fits

\* Nothing is attached, and nobody reads.
LEMMA NothingAttached ==
  ASSUME ~header'.data, stage' # "read"
  PROVE  RoomInv'
  BY DEF RoomInv

\* A reader has allocated what it will need.
LEMMA AllocatedFits ==
  ASSUME RoomInv, stage # "idle", NEW n, NEW extra, Allocated(n, extra),
         UNCHANGED file,
         /\ Name = "PNM" => n = Items3 * file.bytes
         /\ Name = "JPEG" => n = Items3
         /\ Name = "PNG" => n = Items3 * file.bytes * file.z
         /\ Name = "TIFF" => n = RoomOfTIFF
  PROVE  RoomInv'
  <1>1. UNCHANGED <<loader, header>> /\ stage' = "read" /\ room' = n
    BY DEF Allocated, Goto
  <1>2. RoomAtRead'
    BY <1>1 DEF RoomAtRead, Name, Items3, RoomOfTIFF, Has
  <1>3. QED
    BY <1>1, <1>2 DEF RoomInv

\* A reader attaches a block that is long enough.
LEMMA AttachedFits ==
  ASSUME TypeOK, NEW bytes \in Nat, NEW h \in ImageHeaders(bytes), NEW n,
         NEW freed, Attach(h, n, freed), UNCHANGED file,
         OnePlane => n >= Items3 * bytes
  PROVE  RoomInv'
  <1>1. /\ header' = h /\ stage' = "idle" /\ room' = n
    BY DEF Attach, Accept
  <1>2. OnePlane => Fits'
    BY <1>1, ImagesDescribe DEF TypeOK, Fits
  <1>3. QED
    BY <1>1, <1>2 DEF RoomInv, OnePlane, Has

LEMMA RejectedEmpty ==
  ASSUME RoomInv, stage # "idle", Reject,
         header' = header \/ header' = Fresh
  PROVE  RoomInv'
  <1>1. ~header'.data /\ stage' \in {"idle", "probe"}
    BY DEF RoomInv, Reject, Fresh
  <1>2. QED
    BY <1>1, NothingAttached

LEMMA AcceptedEmpty ==
  ASSUME NEW h, ~h.data, Accept(h)
  PROVE  RoomInv'
  BY NothingAttached DEF Accept

LEMMA WentOnEmpty ==
  ASSUME RoomInv, stage # "idle", stage' # "read",
         header' = header \/ header' = Fresh
  PROVE  RoomInv'
  <1>1. ~header'.data
    BY DEF RoomInv, Fresh
  <1>2. QED
    BY <1>1, NothingAttached

\* Readers of labels attach nothing.
LEMMA LabelReaderFits ==
  ASSUME TypeOK, RoomInv, LabelReader
  PROVE  RoomInv'
  <1>1. /\ ~TableHeader(file.org).data /\ ~TableHeader("BIL").data
        /\ \A h \in PlaneHeaders : ~h.data
    <2>1. file \in Files /\ file.org \in Orgs /\ "BIL" \in Orgs
      BY FileNumbers DEF TypeOK, Orgs
    <2>2. QED
      BY <2>1, TableDescribes, PlanesDescribe
  <1>3. \A h \in ObjectHeaders : ~h.data
    BY ObjectDescribes DEF TypeOK
  <1>4. ASSUME NEW p, Crash(p), stage # "idle"
        PROVE  RoomInv'
    BY <1>4, WentOnEmpty DEF Crash
  <1>5. ASSUME NEW l, NEW left \in {header, Fresh}, NEW refused,
               NEW h, ~h.data, TryLabel(l, left, refused, h)
        PROVE  RoomInv'
    <2>1. stage # "idle"
      BY <1>5 DEF TryLabel, At
    <2>2. QED
      BY <1>5, <2>1, RejectedEmpty, AcceptedEmpty DEF TryLabel
  <1>6. CASE GetVicarLabel
    <2>1. stage # "idle"
      BY <1>6 DEF GetVicarLabel, At
    <2>2. QED
      BY <1>4, <1>6, <2>1, RejectedEmpty, WentOnEmpty DEF GetVicarLabel, Goto
  <1>7. CASE GetVicarHeader
    <2>1. stage # "idle"
      BY <1>7 DEF GetVicarHeader, At
    <2>2. QED
      BY <1>1, <1>4, <1>7, <2>1, RejectedEmpty, AcceptedEmpty
      DEF GetVicarHeader
  <1>8. CASE GetISISLabel
    <2>1. stage # "idle"
      BY <1>8 DEF GetISISLabel, At
    <2>2. QED
      BY <1>8, <2>1, RejectedEmpty, WentOnEmpty DEF GetISISLabel
  <1>9. CASE GetISISHeader
    <2>1. stage # "idle"
      BY <1>9 DEF GetISISHeader, At
    <2>2. QED
      BY <1>3, <1>4, <1>9, <2>1, RejectedEmpty, AcceptedEmpty
      DEF GetISISHeader
  <1>10. CASE GetAVIRISHeader \/ GetGRDHeader \/ GetGOESHeader \/ GetIMathHeader
    BY <1>1, <1>5, <1>10
    DEF GetAVIRISHeader, GetGRDHeader, GetGOESHeader, GetIMathHeader, PlaneHeaders
  <1>11. CASE GetENVIHeader
    BY <1>1, <1>4, <1>5, <1>11 DEF GetENVIHeader, At
  <1>12. QED
    BY <1>6, <1>7, <1>8, <1>9, <1>10, <1>11 DEF LabelReader

\* Readers of images attach what they have allocated, or made to measure.
LEMMA ImageReaderFits ==
  ASSUME TypeOK, RoomInv, ImageReader
  PROVE  RoomInv'
  <1>1. 1 \in Nat /\ 4 \in Nat
    OBVIOUS
  <1>2. /\ Items3 \in Nat /\ file.x * file.y \in Nat /\ file.z \in Nat
        /\ file.bytes \in Nat \ {0} /\ 2 * file.bytes \in Nat
    <2>1. file.bytes \in Nat \ {0} /\ file.z \in Nat
      BY FileNumbers DEF TypeOK
    <2>2. QED
      BY <2>1, RoomType
  <1>3. ASSUME NEW p, Crash(p), stage # "idle"
        PROVE  RoomInv'
    BY <1>3, WentOnEmpty DEF Crash
  <1>4. ASSUME NEW b, stage # "idle",
               Refused(b) \/ Damaged(b) \/ NotLookedAt
        PROVE  RoomInv'
    BY <1>3, <1>4, RejectedEmpty
    DEF Refused, Damaged, HeaderOfDamaged, NotLookedAt
  <1>5. ASSUME NEW l, NEW needs,
               NEW next \in {"comment", "records", "allocate"},
               ProbeImage(l, needs, next)
        PROVE  RoomInv'
    <2>1. stage # "idle"
      BY <1>5 DEF ProbeImage, At
    <2>2. QED
      BY <1>5, <2>1, RejectedEmpty, WentOnEmpty DEF ProbeImage, Goto
  <1>6. CASE GetPNMHeader \/ GetJPEGHeader \/ GetPNGHeader \/ GetTIFFHeader
             \/ GetGIFHeader
    BY <1>5, <1>6
    DEF GetPNMHeader, GetJPEGHeader, GetPNGHeader, GetTIFFHeader, GetGIFHeader
  <1>7. CASE FindGIFImage
    <2>1. stage # "idle"
      BY <1>7 DEF FindGIFImage, At
    <2>2. QED
      BY <1>7, <2>1, RejectedEmpty, WentOnEmpty
      DEF FindGIFImage, OutOfRecords, Goto
  <1>8. ASSUME stage = "allocate", UNCHANGED file,
               NEW n, NEW extra, Allocated(n, extra),
               /\ Name = "PNM" => n = Items3 * file.bytes
               /\ Name = "JPEG" => n = Items3
               /\ Name = "PNG" => n = Items3 * file.bytes * file.z
               /\ Name = "TIFF" => n = RoomOfTIFF
        PROVE  RoomInv'
    BY <1>8, AllocatedFits
  <1>9. CASE AllocatePNM
    BY <1>4, <1>8, <1>9 DEF AllocatePNM, At, Reading
  <1>10. CASE AllocateJPEG
    BY <1>4, <1>8, <1>10 DEF AllocateJPEG, At, Reading
  <1>11. CASE AllocatePNG
    BY <1>4, <1>8, <1>11 DEF AllocatePNG, At, Reading
  <1>12. CASE AllocateTIFF
    BY <1>4, <1>8, <1>12 DEF AllocateTIFF, At, Reading
  <1>13. CASE AllocateGIF
    BY <1>4, <1>8, <1>13 DEF AllocateGIF, At, Reading
  <1>14. CASE ReadPNM
    <2>1. /\ stage = "read" /\ room = Items3 * file.bytes /\ UNCHANGED file
      BY <1>14 DEF ReadPNM, At, Reading, RoomInv, RoomAtRead
    <2>2. room >= Items3 * file.bytes
      BY <1>2, <2>1, RoomType
    <2>3. QED
      BY <1>1, <1>2, <1>4, <1>14, <2>1, <2>2, ChosenImages, AttachedFits DEF ReadPNM
  <1>15. CASE ReadJPEG
    <2>1. /\ stage = "read" /\ room = Items3 /\ UNCHANGED file
      BY <1>15 DEF ReadJPEG, At, Reading, RoomInv, RoomAtRead
    <2>2. room >= Items3 * 1
      BY <1>2, <2>1
    <2>3. QED
      BY <1>1, <1>4, <1>15, <2>1, <2>2, ChosenImages, AttachedFits DEF ReadJPEG
  <1>16. CASE ReadPNG
    <2>1. /\ stage = "read" /\ room = Items3 * file.bytes * file.z
          /\ UNCHANGED file
      BY <1>16 DEF ReadPNG, At, Reading, RoomInv, RoomAtRead
    <2>2. RoomOfPNG >= Items3 * (IF file.bytes = 2 THEN 4 ELSE 1)
      <3>1. CASE file.bytes = 2
        BY <1>2, <3>1 DEF RoomOfPNG
      <3>2. CASE file.bytes # 2
        <4>1. \A a \in Nat, b, c \in Nat \ {0} : a * b * c >= a
          <5>1. \A a \in Nat, b \in Nat \ {0} : a * b >= a /\ a * b \in Nat
            OBVIOUS
          <5>2. TAKE a \in Nat, b, c \in Nat \ {0}
          <5>3. a * b >= a /\ a * b \in Nat /\ (a * b) * c >= a * b
                  /\ (a * b) * c \in Nat
            BY <5>1
          <5>4. QED
            BY <5>3
        <4>2. CASE file.z = 0
          <5>1. Items3 = 0
            BY <1>2, <4>2 DEF Items3
          <5>2. QED
            BY <1>2, <2>1, <3>2, <4>2, <5>1, RoomType DEF RoomOfPNG
        <4>3. CASE file.z # 0
          BY <1>2, <2>1, <3>2, <4>1, <4>3 DEF RoomOfPNG
        <4>4. QED
          BY <4>2, <4>3
      <3>3. QED
        BY <3>1, <3>2
    <2>3. CASE Attach(Pixels(IF file.bytes = 2 THEN 4 ELSE 1), RoomOfPNG,
                      {"PNG", "rows"})
      BY <1>1, <2>1, <2>2, <2>3, ChosenImages, AttachedFits
    <2>4. QED
      BY <1>4, <1>16, <2>1, <2>3 DEF ReadPNG
  <1>17. CASE ReadTIFF
    <2>1. /\ stage = "read" /\ room = RoomOfTIFF /\ UNCHANGED file
      BY <1>17 DEF ReadTIFF, At, Reading, RoomInv, RoomAtRead
    <2>2. OnePlane => room >= Items3 * file.bytes
      BY <1>2, <2>1, RoomType DEF OnePlane, RoomOfTIFF
    <2>3. Items3 * 2 * file.bytes >= Items3 * (2 * file.bytes)
      <3>1. \A a, b \in Nat : a * 2 * b >= a * (2 * b)
        OBVIOUS
      <3>2. QED
        BY <1>2, <3>1
    <2>4. CASE Attach(HeaderOfTIFF(2 * file.bytes),
                      Items3 * 2 * file.bytes, {"TIFF", "buffer"})
      BY <1>1, <1>2, <2>1, <2>3, <2>4, ChosenImages, AttachedFits
    <2>5. CASE Attach(HeaderOfTIFF(file.bytes), room, {"TIFF", "buffer"})
      BY <1>1, <1>2, <2>1, <2>2, <2>5, ChosenImages, AttachedFits
    <2>6. QED
      BY <1>4, <1>17, <2>1, <2>4, <2>5 DEF ReadTIFF
  <1>18. CASE ReadGIF
    <2>1. stage = "read" /\ UNCHANGED file
      BY <1>18 DEF ReadGIF, At, Reading
    <2>2. Items3 >= Items3 * 1
      BY <1>2
    <2>3. CASE Attach(Pixels(1), Items3, {"GIF"})
      BY <1>1, <2>1, <2>2, <2>3, ChosenImages, AttachedFits
    <2>4. QED
      BY <1>3, <1>4, <1>18, <2>1, <2>3 DEF ReadGIF
  <1>19. QED
    BY <1>6, <1>7, <1>9, <1>10, <1>11, <1>12, <1>13, <1>14, <1>15, <1>16,
       <1>17, <1>18
    DEF ImageReader

\* The block attached to a header is as long as the header's extents and its
\* item say, for images of any dimensions; a TIFF file in strips with separate
\* planes is the exception (io_tiff.c), which the run load_planes shows.
THEOREM ImageIsWholeThm == Spec => []ImageIsWholeInOnePlane
  <1>1. Init => TypeOK /\ RoomInv
    <2>1. ~Fresh.data
      BY DEF Fresh
    <2>2. Init => RoomInv
      BY <2>1 DEF Init, RoomInv
    <2>3. QED
      BY <2>2, TypeAtFirst
  <1>2. TypeOK /\ RoomInv /\ [Next]_vars => (TypeOK /\ RoomInv)'
    <2>1. ASSUME LoadHeader
          PROVE  RoomInv'
      BY <2>1, NothingAttached DEF LoadHeader, Fresh
    <2>2. ASSUME TypeOK, Cleanup
          PROVE  RoomInv'
      <3>1. ~header'.data /\ stage' = "idle"
        BY <2>2 DEF Cleanup, TypeOK
      <3>2. QED
        BY <3>1, NothingAttached
    <2>3. ASSUME RoomInv, UNCHANGED vars
          PROVE  RoomInv'
      BY <2>3
      DEF vars, RoomInv, RoomAtRead, OnePlane, Fits, Name, Items3, RoomOfTIFF,
          Has
    <2>4. QED
      BY <2>1, <2>2, <2>3, TypeKept, LabelReaderFits, ImageReaderFits
      DEF Next, SkipComment
  <1>3. RoomInv => ImageIsWholeInOnePlane
    BY DEF RoomInv, OnePlane, ImageIsWholeInOnePlane
  <1>4. QED
    BY <1>1, <1>2, <1>3, PTL DEF Spec

-----------------------------------------------------------------------------
(* Progress. *)

\* What a reader has before it from each stage on, at the most.
StagesLeft(s) ==
  IF s \in {"idle", "crashed"} THEN 0
  ELSE IF s = "read" THEN 1
  ELSE IF s = "allocate" THEN 2
  ELSE IF s = "probe" THEN 4
  ELSE 3

\* And the call: four stages for each reader still to be tried.
StepsLeft ==
  IF stage \in {"idle", "crashed"} THEN 0
  ELSE 4 * (Len(Loaders) - loader) + StagesLeft(stage)

Fewer == StepsLeft' < StepsLeft

\* A call has at most forty-eight steps before it, and at work at least one.
LEMMA StepsCounted ==
  ASSUME TypeOK
  PROVE  /\ StepsLeft \in 0..48
         /\ stage \notin {"idle", "crashed"} =>
              /\ StepsLeft = 4 * (12 - loader) + StagesLeft(stage)
              /\ StepsLeft >= 1 /\ StagesLeft(stage) >= 1
  <1>1. loader \in 1..12 /\ Len(Loaders) = 12
    BY TwelveLoaders DEF TypeOK
  <1>2. /\ StagesLeft(stage) \in 0..4
        /\ stage \notin {"idle", "crashed"} => StagesLeft(stage) >= 1
    BY DEF StagesLeft
  <1>3. QED
    BY <1>1, <1>2 DEF StepsLeft

\* The reader that rejects the file hands it to one with fewer behind it.
LEMMA RejectFewer ==
  ASSUME TypeOK, stage \notin {"idle", "crashed"}, Reject
  PROVE  Fewer
  <1>1. /\ loader \in 1..12 /\ Len(Loaders) = 12
        /\ StepsLeft = 4 * (12 - loader) + StagesLeft(stage)
        /\ StagesLeft(stage) \in 1..4
    <2>1. loader \in 1..12 /\ Len(Loaders) = 12
      BY TwelveLoaders DEF TypeOK
    <2>2. StagesLeft(stage) \in 1..4
      BY DEF StagesLeft
    <2>3. QED
      BY <2>1, <2>2, StepsCounted
  <1>2. CASE loader = 12
    <2>1. stage' = "idle"
      BY <1>1, <1>2 DEF Reject, IsLast
    <2>2. QED
      BY <1>1, <2>1, StepsCounted DEF Fewer, StepsLeft
  <1>3. CASE loader # 12
    <2>1. stage' = "probe" /\ loader' = loader + 1
      BY <1>1, <1>3 DEF Reject, IsLast
    <2>2. StepsLeft' = 4 * (12 - (loader + 1)) + 4
      BY <1>1, <2>1 DEF StepsLeft, StagesLeft
    <2>3. QED
      BY <1>1, <2>2 DEF Fewer
  <1>4. QED
    BY <1>2, <1>3

\* One that accepts it, or stops the program, ends the call.
LEMMA EndedFewer ==
  ASSUME TypeOK, stage \notin {"idle", "crashed"},
         stage' \in {"idle", "crashed"}
  PROVE  Fewer
  <1>1. StepsLeft' = 0
    BY DEF StepsLeft
  <1>2. QED
    BY <1>1, StepsCounted DEF Fewer

\* One that goes on has a later stage before it.
LEMMA OnwardFewer ==
  ASSUME TypeOK, stage \notin {"idle", "crashed"},
         stage' \notin {"idle", "crashed"}, UNCHANGED loader,
         StagesLeft(stage') < StagesLeft(stage)
  PROVE  Fewer
  <1>1. loader \in 1..12 /\ Len(Loaders) = 12
    BY TwelveLoaders DEF TypeOK
  <1>2. StagesLeft(stage) \in Nat /\ StagesLeft(stage') \in Nat
    BY DEF StagesLeft
  <1>3. QED
    BY <1>1, <1>2 DEF Fewer, StepsLeft

LEMMA LabelReaderFewer ==
  ASSUME TypeOK, LabelReader
  PROVE  Fewer
  <1>1. ASSUME NEW h, Accept(h)
        PROVE  stage' = "idle"
    BY <1>1 DEF Accept
  <1>2. ASSUME NEW pointer, Crash(pointer)
        PROVE  stage' = "crashed"
    BY <1>2 DEF Crash
  <1>3. ASSUME NEW l, NEW left, NEW refused, NEW org,
               TryLabel(l, left, refused, org)
        PROVE  Fewer
    BY <1>1, <1>3, RejectFewer, EndedFewer DEF TryLabel, At
  <1>4. CASE GetVicarLabel
    <2>1. stage = "probe"
      BY <1>4 DEF GetVicarLabel, At
    <2>2. CASE Goto("label")
      BY <2>1, <2>2, OnwardFewer DEF Goto, StagesLeft
    <2>3. QED
      BY <1>2, <1>4, <2>1, <2>2, RejectFewer, EndedFewer DEF GetVicarLabel
  <1>5. CASE GetVicarHeader
    BY <1>1, <1>2, <1>5, RejectFewer, EndedFewer DEF GetVicarHeader, At
  <1>6. CASE GetISISLabel
    <2>1. stage = "probe"
      BY <1>6 DEF GetISISLabel, At
    <2>2. CASE stage' = "label" /\ UNCHANGED loader
      BY <2>1, <2>2, OnwardFewer DEF StagesLeft
    <2>3. QED
      BY <1>6, <2>1, <2>2, RejectFewer DEF GetISISLabel
  <1>7. CASE GetISISHeader
    BY <1>1, <1>2, <1>7, RejectFewer, EndedFewer DEF GetISISHeader, At
  <1>8. CASE GetAVIRISHeader \/ GetGRDHeader \/ GetGOESHeader \/ GetIMathHeader
    BY <1>3, <1>8
    DEF GetAVIRISHeader, GetGRDHeader, GetGOESHeader, GetIMathHeader
  <1>9. CASE GetENVIHeader
    BY <1>2, <1>3, <1>9, EndedFewer DEF GetENVIHeader, At
  <1>10. QED
    BY <1>4, <1>5, <1>6, <1>7, <1>8, <1>9 DEF LabelReader

LEMMA ImageReaderFewer ==
  ASSUME TypeOK, ImageReader
  PROVE  Fewer
  <1>1. ASSUME stage \in {"allocate", "read"},
               \/ Reject
               \/ \E h : Accept(h)
               \/ \E pointer : Crash(pointer)
               \/ stage = "allocate" /\ Goto("read")
        PROVE  Fewer
    <2>1. CASE stage = "allocate" /\ Goto("read")
      BY <2>1, OnwardFewer DEF Goto, StagesLeft
    <2>2. CASE (\E h : Accept(h)) \/ \E pointer : Crash(pointer)
      BY <1>1, <2>2, EndedFewer DEF Accept, Crash
    <2>3. QED
      BY <1>1, <2>1, <2>2, RejectFewer
  <1>2. ASSUME NEW n, NEW extra, Allocated(n, extra)
        PROVE  Goto("read")
    BY <1>2 DEF Allocated
  <1>3. ASSUME NEW h, NEW n, NEW freed, Attach(h, n, freed)
        PROVE  \E g : Accept(g)
    BY <1>3 DEF Attach
  <1>4. ASSUME NEW b, Refused(b) \/ Damaged(b)
        PROVE  Reject
    BY <1>4 DEF Refused, Damaged
  <1>5. ASSUME NotLookedAt
        PROVE  \E pointer : Crash(pointer)
    BY <1>5 DEF NotLookedAt
  <1>6. ASSUME NEW l, NEW needs, NEW next \in {"comment", "records", "allocate"},
               ProbeImage(l, needs, next)
        PROVE  Fewer
    <2>1. stage = "probe"
      BY <1>6 DEF ProbeImage, At
    <2>2. CASE Goto(next)
      BY <2>1, <2>2, OnwardFewer DEF Goto, StagesLeft
    <2>3. QED
      BY <1>6, <2>1, <2>2, RejectFewer DEF ProbeImage
  <1>7. CASE GetPNMHeader \/ GetJPEGHeader \/ GetPNGHeader \/ GetTIFFHeader
             \/ GetGIFHeader
    BY <1>6, <1>7
    DEF GetPNMHeader, GetJPEGHeader, GetPNGHeader, GetTIFFHeader, GetGIFHeader
  <1>8. CASE AllocatePNM \/ ReadPNM
    BY <1>1, <1>2, <1>3, <1>4, <1>8 DEF AllocatePNM, ReadPNM, At
  <1>9. CASE AllocateJPEG \/ ReadJPEG
    BY <1>1, <1>2, <1>3, <1>4, <1>5, <1>9 DEF AllocateJPEG, ReadJPEG, At
  <1>10. CASE AllocatePNG \/ ReadPNG
    BY <1>1, <1>2, <1>3, <1>4, <1>5, <1>10 DEF AllocatePNG, ReadPNG, At
  <1>11. CASE AllocateTIFF \/ ReadTIFF
    BY <1>1, <1>2, <1>3, <1>4, <1>5, <1>11 DEF AllocateTIFF, ReadTIFF, At
  <1>12. CASE FindGIFImage
    <2>1. stage = "records"
      BY <1>12 DEF FindGIFImage, At
    <2>2. CASE Goto("allocate")
      BY <2>1, <2>2, OnwardFewer DEF Goto, StagesLeft
    <2>3. QED
      BY <1>12, <2>1, <2>2, RejectFewer DEF FindGIFImage, OutOfRecords
  <1>13. CASE AllocateGIF
    BY <1>1, <1>2, <1>5, <1>13 DEF AllocateGIF, At
  <1>14. CASE ReadGIF
    BY <1>1, <1>3, <1>4, <1>14 DEF ReadGIF, At
  <1>15. QED
    BY <1>7, <1>8, <1>9, <1>10, <1>11, <1>12, <1>13, <1>14 DEF ImageReader

\* The safety half of LoadReturns: a call of iom_LoadHeader has at most
\* forty-eight steps before it, whatever the file, memory and the libraries do,
\* and each step of a reader leaves fewer.  Only the comment that does not end
\* (SkipComment, io_pnm.c:491) is not a step of these.
THEOREM LoadsGoForward ==
  Spec => /\ [](StepsLeft \in 0..48)
          /\ [][LabelReader \/ ImageReader => StepsLeft' < StepsLeft]_vars
  <1>1. TypeOK => StepsLeft \in 0..48
    BY StepsCounted
  <1>2. TypeOK /\ [Next]_vars
          => [LabelReader \/ ImageReader => StepsLeft' < StepsLeft]_vars
    BY LabelReaderFewer, ImageReaderFewer DEF Fewer
  <1>3. QED
    BY <1>1, <1>2, TypeCorrect, PTL DEF Spec

=============================================================================
