---------------------------- MODULE HeaderLoader ----------------------------
(***************************************************************************)
(* iom_LoadHeader and the readers it tries in turn on an open file, until  *)
(* one answers 1.  The first seven read a label and leave the image in the *)
(* file.  The last five decode the image and attach it to the header, with *)
(* the help of a library that may give up at any point.                    *)
(*                                                                         *)
(* A step is a reader's answer or, for the readers that hold memory while  *)
(* something can still fail, the part of it up to the next such point.     *)
(***************************************************************************)
EXTENDS QubeGeometry, Sequences

CONSTANT Files \* what a caller may try to load

Loaders == <<"Vicar", "ISIS", "AVIRIS", "GRD", "GOES", "IMath", "ENVI",
             "PNM", "JPEG", "PNG", "TIFF", "GIF">>

(***************************************************************************)
(* An image file: its dimensions, the order its axes are stored in, the    *)
(* bytes of an item, and the traits that readers treat apart.              *)
(***************************************************************************)
Traits ==
  {"packed",        \* fp is the uncompressed copy of the file named
   "bad label",     \* a kind of item or order that its reader refuses
   "keyword missing", "no image object",
   "image object",  \* a PDS label with an IMAGE in the place of a QUBE
   "image pointer", \* and with a ^IMAGE keyword
   "dimensions missing", \* a PDS label that does not give all of them
   "order missing", \* an IMAGE without BAND_STORAGE_TYPE
   "order unknown", \* AXIS_NAME missing, or it or BAND_STORAGE_TYPE not known
   "in comment",    \* a PNM file that ends in a comment
   "wide",          \* values need a wider type than the file's
   "separate",      \* a TIFF file with a plane for each band
   "tiled",
   "no colormap",   \* a GIF file without a global one
   "extension",     \* a GIF file with a record before its image
   "no image"}      \* a GIF file

ASSUME FilesAssumption ==
  Files \subseteq
    [format : {Loaders[i] : i \in 1..Len(Loaders)} \cup {"other"},
     x : Nat, y : Nat, z : Nat, org : Orgs, bytes : Nat \ {0},
     traits : SUBSET Traits]

\* These have one band.
ASSUME FlatAssumption == \A f \in Files : f.format \in {"GOES", "IMath"} => f.z = 1

VARIABLES
  file,
  loader,   \* which of Loaders is at work
  stage,    \* "idle", "probe", a stage of that reader, or "crashed"
  position, \* of fp: "start" or "moved"
  header,   \* the iom_iheader being filled
  blocks,   \* what is allocated
  room,     \* bytes in the image block
  lost,     \* the readers that forgot an image block
  hardship, \* memory or the file has failed a reader in this call
  crash,    \* the pointer dereferenced without being there
  result

vars == <<file, loader, stage, position, header, blocks, room, lost,
          hardship, crash, result>>

Name == Loaders[loader]
Has(trait) == trait \in file.traits

\* h->org when it is -1 or whatever was on the stack.
NoOrg == "none"

\* A header: bytes is the size of an item once a reader knows it (0 when the
\* cube reader is to find out), data and ddfname whether it has those.
Fresh == [org |-> "BSQ", size |-> Zero3, bytes |-> 0, data |-> FALSE,
          ddfname |-> FALSE]

iom_GetSamples(h) == h.size[IF h.org = "BIP" THEN 2 ELSE 1]
iom_GetLines(h) == h.size[IF h.org = "BSQ" THEN 2 ELSE 3]
iom_GetBands(h) ==
  h.size[IF h.org = "BIP" THEN 1 ELSE IF h.org = "BIL" THEN 2 ELSE 3]

-----------------------------------------------------------------------------
(* How readers begin and end.                                              *)

Init ==
  /\ file \in Files /\ loader = 1 /\ stage = "idle"
  /\ position = "start"
  /\ header = Fresh /\ blocks = {} /\ room = 0 /\ lost = {}
  /\ hardship = FALSE /\ crash = "" /\ result = "none"

\* The caller has cleaned up the header, and may have read from fp.
LoadHeader ==
  /\ stage = "idle" /\ ~header.data /\ ~header.ddfname
  /\ file' \in Files /\ position' \in {"start", "moved"}
  /\ header' = Fresh /\ loader' = 1 /\ stage' = "probe"
  /\ room' = 0 /\ lost' = {} /\ blocks' = {} /\ hardship' = FALSE
  /\ result' = "none"
  /\ UNCHANGED crash

\* iom_cleanup_iheader
Cleanup ==
  /\ stage = "idle" /\ (header.data \/ header.ddfname)
  /\ header' = [header EXCEPT !.data = FALSE, !.ddfname = FALSE]
  /\ blocks' = blocks \ {"image", "ddfname"}
  /\ room' = 0
  /\ UNCHANGED <<file, loader, stage, position, lost, hardship,
                 crash, result>>

\* A bug: one reader trusts fp to be where it needs it.
ForgetsRewind(l) == l \notin {"GIF", "ENVI"}

\* The readers that rewind fp.  GIF does not use it.
Rewinds(l) == l # "GIF"

\* The readers that open the file by its name.
ByName == {"ISIS", "TIFF", "GIF"}

\* The reader looks at the file: fp, then the file of that name.
Probe ==
  position' = IF Name = "GIF" THEN position ELSE "moved"

\* Its format is this reader's, and it sees that: at the start of fp, or under
\* the file's name.
Own ==
  /\ file.format = Name
  /\ Name # "GIF" /\ ~Rewinds(Name) => position = "start"
  /\ Name \in ByName => ~Has("packed")

IsLast == loader = Len(Loaders)

\* The reader at work answers 0, and the next one is tried.
Reject ==
  /\ loader' = IF IsLast THEN 1 ELSE loader + 1
  /\ stage' = IF IsLast THEN "idle" ELSE "probe"
  /\ result' = IF IsLast THEN "0" ELSE result

Accept(h) ==
  /\ header' = h /\ stage' = "idle" /\ result' = "1" /\ loader' = 1

Crash(pointer) ==
  /\ stage' = "crashed" /\ crash' = pointer
  /\ UNCHANGED <<loader, result, header>>

Goto(s) == stage' = s /\ UNCHANGED <<loader, result, header>>

At(l, s) == stage = s /\ Name = l

-----------------------------------------------------------------------------
(* Readers of labels.                                                      *)

LabelHeader(org, size) == [Fresh EXCEPT !.org = org, !.size = size]

\* The samples, lines and bands that the file gives.
Dimensions == <<file.x, file.y, file.z>>

\* A bug: the table is read the wrong way round.
FromAxes(org, s) == [j \in Axis |-> s[iom_orders[org][j]]]

\* Samples, lines and bands put on the axes of the order by iom_orders.
OnAxes(org, s) == [j \in Axis |-> s[UserAxis(org, j)]]

\* Vicar, AVIRIS and ENVI go by that table.
TableHeader(org) == LabelHeader(org, OnAxes(org, Dimensions))

\* A reader that holds nothing while it looks at the label: the file is not
\* its own or is refused, and the header becomes `left', or it is accepted.
TryLabel(l, left, refused, h) ==
  /\ At(l, "probe") /\ Probe
  /\ \/ (~Own \/ refused) /\ Reject /\ header' = left
     \/ Own /\ ~refused /\ Accept(h)
  /\ UNCHANGED <<file, blocks, room, lost, hardship, crash>>

GetAVIRISHeader == TryLabel("AVIRIS", header, Has("bad label"), TableHeader("BIL"))

\* The only one to initialise the header before it looks.
GetGRDHeader == TryLabel("GRD", Fresh, FALSE, LabelHeader("BSQ", Dimensions))

GetGOESHeader ==
  TryLabel("GOES", header, FALSE, LabelHeader("BSQ", <<file.x, file.y, 1>>))

\* The first number of the file is its width; h->size starts with the second.
GetIMathHeader ==
  TryLabel("IMath", header, FALSE, LabelHeader("BSQ", <<file.y, file.x, 1>>))

\* A dimension that is missing is passed to atoi.
GetENVIHeader ==
  \/ /\ ~Own \/ ~Has("keyword missing")
     /\ TryLabel("ENVI", header, Has("bad label"), TableHeader(file.org))
  \/ /\ At("ENVI", "probe") /\ Own /\ Has("keyword missing")
     /\ Probe /\ Crash("keyword")
     /\ UNCHANGED <<file, blocks, room, lost, hardship>>

\* Vicar: the label is read into a block ...
GetVicarLabel ==
  /\ At("Vicar", "probe") /\ Probe
  /\ \/ ~Own /\ Reject /\ UNCHANGED <<header, blocks, hardship, crash>>
     \/ /\ Own /\ Goto("label")
        /\ blocks' = blocks \cup {"label"} /\ UNCHANGED <<hardship, crash>>
     \/ Crash("memory") /\ hardship' = TRUE /\ UNCHANGED blocks
  /\ UNCHANGED <<file, room, lost>>

\* A bug: the label is freed only when it could be read.
KeptWhenBad(accepted) == IF accepted THEN {"label"} ELSE {}

\* The blocks of a label that are freed, whether it is accepted or not.
LabelBlocks(accepted) == {"label"}

\* ... and freed on the way out, except where a keyword is missing.
GetVicarHeader ==
  /\ At("Vicar", "label")
  /\ IF Has("keyword missing") THEN Crash("keyword") /\ UNCHANGED blocks
     ELSE IF Has("bad label")
       THEN /\ Reject /\ blocks' = blocks \ LabelBlocks(FALSE)
            /\ UNCHANGED <<header, crash>>
       ELSE /\ Accept(TableHeader(file.org))
            /\ blocks' = blocks \ LabelBlocks(TRUE)
            /\ UNCHANGED crash
  /\ UNCHANGED <<file, position, room, lost, hardship>>

\* ISIS: fp has the signature, and the file of that name is parsed; one that
\* is not a label has no RECORD_BYTES and its tree is freed at once.
GetISISLabel ==
  /\ At("ISIS", "probe") /\ Probe
  /\ \/ /\ ~Own /\ Reject
        /\ header' = IF file.format = "ISIS" THEN Fresh ELSE header
        /\ UNCHANGED blocks
     \/ /\ Own /\ stage' = "label" /\ header' = Fresh
        /\ blocks' = blocks \cup {"label"}
        /\ UNCHANGED <<loader, result>>
  /\ UNCHANGED <<file, room, lost, hardship, crash>>

\* What is in size[] when the label gives only some of the three.
Given(s, given) == [j \in Axis |-> IF j \in given THEN s[j] ELSE 0]
Somewhere == IF Has("dimensions missing") THEN (SUBSET Axis) \ {Axis} ELSE {Axis}

\* A QUBE names its axes and lists its dimensions (CORE_ITEMS) in their order;
\* sscanf stores as many as there are.  Axes not known leave h->org at -1.
QubeObjectHeaders ==
  {LabelHeader(IF Has("order unknown") THEN NoOrg ELSE file.org,
               Given(OnAxes(file.org, Dimensions), 1..n)) :
     n \in {k \in 0..3 : 1..k \in Somewhere}}

\* An IMAGE has a keyword for each dimension, exchanged by its storage type.
Exchanged(org, s) ==
  IF org = "BIL" THEN <<s[1], s[3], s[2]>>
  ELSE IF org = "BIP" THEN <<s[3], s[1], s[2]>> ELSE s

\* Without a storage type it is BSQ; one not known leaves org uninitialised.
\* The name of the file that ^IMAGE points to stays with the header.
ImageObjectHeaders ==
  LET Headers(given) ==
        LET s == Given(Dimensions, given)
        IN IF Has("order unknown")
           THEN {LabelHeader(org, s) : org \in Orgs \cup {NoOrg}}
           ELSE LET org == IF Has("order missing") THEN "BSQ" ELSE file.org
                IN {LabelHeader(org, Exchanged(org, s))}
  IN {[h EXCEPT !.ddfname = Has("image pointer")] :
        h \in UNION {Headers(given) : given \in Somewhere}}

ObjectHeaders ==
  IF Has("image object") THEN ImageObjectHeaders ELSE QubeObjectHeaders

\* Without a QUBE or an IMAGE the caller's object is asked whether it is the
\* tree, and iom_LoadHeader has none; an item type that is missing is passed
\* to strcmp.
GetISISHeader ==
  /\ At("ISIS", "label")
  /\ IF Has("no image object") THEN Crash("r_obj") /\ UNCHANGED blocks
     ELSE IF Has("keyword missing") THEN Crash("keyword") /\ UNCHANGED blocks
     ELSE IF Has("bad label")
       THEN /\ Reject /\ blocks' = blocks \ LabelBlocks(FALSE)
            /\ UNCHANGED <<header, crash>>
     ELSE /\ \E h \in ObjectHeaders :
               /\ Accept(h)
               /\ blocks' = (blocks \ LabelBlocks(TRUE))
                             \cup IF h.ddfname THEN {"ddfname"} ELSE {}
          /\ UNCHANGED crash
  /\ UNCHANGED <<file, position, room, lost, hardship>>

-----------------------------------------------------------------------------
(* Readers of images.                                                      *)

\* A decoded image, with its dimensions as each reader writes them down.
Image(org, size, bytes) ==
  [LabelHeader(org, size) EXCEPT !.bytes = bytes, !.data = TRUE]

Planes(bytes) == Image("BSQ", <<file.x, file.y, file.z>>, bytes)
Rows(bytes) == Image("BIL", <<file.x, file.z, file.y>>, bytes)
Pixels(bytes) == Image("BIP", <<file.z, file.x, file.y>>, bytes)

\* PNM and JPEG: a gray image is a plane.
GrayOrPixels(bytes) == IF file.z = 1 THEN Planes(bytes) ELSE Pixels(bytes)

Items3 == file.x * file.y * file.z

\* The block is allocated, the reader begins to fill it.
Allocated(n, extra) ==
  /\ Goto("read") /\ room' = n /\ blocks' = blocks \cup {"image"} \cup extra
  /\ UNCHANGED <<lost, hardship, crash>>

\* malloc answers NULL: a reader that looks gives up, and `kept' is left.
Refused(kept) ==
  /\ Reject /\ hardship' = TRUE /\ room' = 0
  /\ blocks' = (blocks \ {Name, "buffer", "image", "rows"}) \cup kept
  /\ UNCHANGED <<header, lost, crash>>

\* One that does not look writes through it.
NotLookedAt ==
  Crash("memory") /\ hardship' = TRUE /\ UNCHANGED <<blocks, room, lost>>

\* A bug: the block is attached to the header before it is full.
AttachedEarly == [header EXCEPT !.data = TRUE]

\* The header is left alone until the image is whole.
HeaderOfDamaged == header

\* The file fails a reader while its image block is full or filling.
Damaged(freed) ==
  /\ Reject /\ hardship' = TRUE /\ header' = HeaderOfDamaged
  /\ lost' = IF "image" \in freed THEN lost ELSE lost \cup {Name}
  /\ blocks' = blocks \ (freed \cup {"image"}) /\ room' = 0
  /\ UNCHANGED crash

\* The image is attached; `freed' is what decoding needed.
Attach(h, n, freed) ==
  /\ Accept(h) /\ room' = n /\ blocks' = blocks \ freed
  /\ UNCHANGED <<lost, hardship, crash>>

\* What every image reader leaves alone once it has begun.
Reading == UNCHANGED <<file, position>>

\* The reader recognises the file and can decode it; `needs' is the object its
\* library works with, which it has created by then.
ProbeImage(l, needs, next) ==
  /\ At(l, "probe") /\ Probe
  /\ \/ /\ ~Own \/ Has("bad label")
        /\ Reject /\ UNCHANGED <<header, blocks>>
     \/ /\ Own /\ ~Has("bad label")
        /\ Goto(next) /\ blocks' = blocks \cup needs
  /\ UNCHANGED <<file, room, lost, hardship, crash>>

GetPNMHeader == 
  ProbeImage("PNM", {}, IF Has("in comment") THEN "comment" ELSE "allocate")

\* get_int looks for the end of the comment past the end of the file.
SkipComment == At("PNM", "comment") /\ UNCHANGED vars

AllocatePNM ==
  /\ At("PNM", "allocate") /\ Reading
  /\ \/ Allocated(Items3 * file.bytes, {})
     \/ Refused({})

\* A raw file that is too short: the block is forgotten.
ReadPNM ==
  /\ At("PNM", "read") /\ Reading
  /\ \/ Damaged({})
     \/ Attach(GrayOrPixels(file.bytes), room, {})

GetJPEGHeader == ProbeImage("JPEG", {"JPEG"}, "allocate")

AllocateJPEG ==
  /\ At("JPEG", "allocate") /\ Reading
  /\ \/ Allocated(Items3, {})
     \/ NotLookedAt

\* libjpeg's error exit jumps out of the loop over the lines.
ReadJPEG ==
  /\ At("JPEG", "read") /\ Reading
  /\ \/ Damaged({"JPEG"})
     \/ Attach(GrayOrPixels(1), room, {"JPEG"})

GetPNGHeader == ProbeImage("PNG", {"PNG"}, "allocate")

\* Rows of all channels, times the channels.  A reader that gets no memory
\* leaves the library's structures behind.
AllocatePNG ==
  /\ At("PNG", "allocate") /\ Reading
  /\ \/ Allocated(Items3 * file.bytes * file.z, {"rows"})
     \/ Refused({"PNG"})

\* A bug: 16-bit items become ints where they are.
NotGrown == room

\* 16-bit items become ints, in a block made to measure.
RoomOfPNG == IF file.bytes = 2 THEN Items3 * 4 ELSE room

\* When libpng jumps out, row_pointers has the value it had at setjmp or the
\* one assigned since.
ReadPNG ==
  /\ At("PNG", "read") /\ Reading
  /\ \/ Damaged({"PNG"}) \/ Damaged({"PNG", "rows"})
     \/ file.bytes = 2 /\ NotLookedAt
     \/ Attach(Pixels(IF file.bytes = 2 THEN 4 ELSE 1), RoomOfPNG, {"PNG", "rows"})

GetTIFFHeader == ProbeImage("TIFF", {"TIFF"}, "allocate")

\* A scanline of a file with separate planes is that of one band.
RoomOfTIFF ==
  IF Has("separate") /\ ~Has("tiled") THEN file.x * file.y * file.bytes
  ELSE Items3 * file.bytes

AllocateTIFF ==
  /\ At("TIFF", "allocate") /\ Reading
  /\ \/ Allocated(RoomOfTIFF, {"buffer"})
     \/ Has("tiled") /\ Refused({})
     \/ ~Has("tiled") /\ NotLookedAt

OrgOfTIFF ==
  IF Has("tiled") THEN IF Has("separate") THEN "BSQ" ELSE "BIP"
  ELSE IF file.z = 1 THEN "BSQ"
  ELSE IF Has("separate") THEN "BIL" ELSE "BIP"

HeaderOfTIFF(bytes) ==
  IF OrgOfTIFF = "BSQ" THEN Planes(bytes)
  ELSE IF OrgOfTIFF = "BIP" THEN Pixels(bytes) ELSE Rows(bytes)

\* Items that need a wider type get it, in a block twice the size.
ReadTIFF ==
  /\ At("TIFF", "read") /\ Reading
  /\ \/ Damaged({"TIFF", "buffer", "image"})
     \/ Has("wide") /\ NotLookedAt
     \/ IF Has("wide")
          THEN Attach(HeaderOfTIFF(2 * file.bytes), Items3 * 2 * file.bytes,
                      {"TIFF", "buffer"})
          ELSE Attach(HeaderOfTIFF(file.bytes), room, {"TIFF", "buffer"})

GetGIFHeader == ProbeImage("GIF", {"GIF"}, "records")

\* A bug: the end of the file is taken for one more record of no interest.
ReadsOn == UNCHANGED <<loader, stage, result, header, blocks>>

\* The file ends before there was an image in it.
OutOfRecords == Reject /\ blocks' = blocks \ {"GIF"} /\ UNCHANGED header

\* The bytes of another record are not skipped: the next one is sought among
\* them, and what is found there is not a record.
FindGIFImage ==
  /\ At("GIF", "records")
  /\ \/ (Has("no image") \/ Has("extension")) /\ OutOfRecords
     \/ /\ ~Has("no image") /\ ~Has("extension")
        /\ Goto("allocate") /\ UNCHANGED blocks
  /\ UNCHANGED <<file, position, room, lost, hardship, crash>>

\* The indices of the colours.
AllocateGIF ==
  /\ At("GIF", "allocate") /\ Reading
  /\ \/ Allocated(file.x * file.y, {})
     \/ NotLookedAt

\* A bad line makes the reader forget the indices.  They are the image of a
\* gray file; the colours of another are looked up in the global colormap,
\* there or not.
ReadGIF ==
  /\ At("GIF", "read") /\ Reading
  /\ \/ Damaged({"GIF"})
     \/ /\ file.z # 1 \/ Has("no colormap")
        /\ Refused({})
     \/ /\ Has("no colormap")
        /\ Crash("SColorMap") /\ UNCHANGED <<blocks, room, lost, hardship>>
     \/ /\ ~Has("no colormap")
        /\ Attach(Pixels(1), Items3, {"GIF"})

-----------------------------------------------------------------------------
LabelReader ==
  \/ GetVicarLabel \/ GetVicarHeader \/ GetISISLabel \/ GetISISHeader
  \/ GetAVIRISHeader \/ GetGRDHeader \/ GetGOESHeader \/ GetIMathHeader
  \/ GetENVIHeader

ImageReader ==
  \/ GetPNMHeader \/ AllocatePNM \/ ReadPNM
  \/ GetJPEGHeader \/ AllocateJPEG \/ ReadJPEG
  \/ GetPNGHeader \/ AllocatePNG \/ ReadPNG
  \/ GetTIFFHeader \/ AllocateTIFF \/ ReadTIFF
  \/ GetGIFHeader \/ FindGIFImage \/ AllocateGIF \/ ReadGIF

Next == LoadHeader \/ Cleanup \/ LabelReader \/ ImageReader \/ SkipComment

\* A call that has begun runs on; the caller need not call again.
Spec == Init /\ [][Next]_vars /\ WF_vars(LabelReader \/ ImageReader)

-----------------------------------------------------------------------------
(* What loading a header promises.                                         *)

Blocks == {"label", "ddfname", "image", "rows", "buffer"}
            \cup {"JPEG", "PNG", "TIFF", "GIF"}

\* Types.
TypeOK ==
  /\ file \in Files /\ loader \in 1..Len(Loaders)
  /\ stage \in {"idle", "probe", "label", "comment", "records", "allocate",
                "read", "crashed"}
  /\ position \in {"start", "moved"}
  /\ header \in [org : Orgs \cup {NoOrg}, size : [Axis -> Nat], bytes : Nat, data : BOOLEAN,
                 ddfname : BOOLEAN]
  /\ blocks \subseteq Blocks /\ room \in Nat
  /\ lost \subseteq {"PNM", "JPEG", "PNG", "GIF"} /\ hardship \in BOOLEAN
  /\ crash \in {"", "memory", "keyword", "r_obj", "SColorMap"}
  /\ result \in {"none", "0", "1"}

\* What the header's owner will free.
Owned == (IF header.data THEN {"image"} ELSE {})
           \cup IF header.ddfname THEN {"ddfname"} ELSE {}

\* Twelve readers take the same file, and the last five create what their
\* library needs before they know that it is theirs: unless memory or the
\* file fails one of them, what is allocated in the end is what the header
\* owns.  Whatever fails, no label and no decoder is left but libpng's.
NothingLost ==
  stage = "idle" =>
    /\ blocks \ {"PNG", "rows"} = Owned
    /\ ~hardship => blocks = Owned /\ lost = {}

\* A caller told 0 throws the header away without a cleanup (test.c:60): no
\* reader that gave up has left anything in it.
FailureOwnsNothing == result = "0" => Owned = {}

\* The dimensions a caller is to get: an IMath file is turned.
Shape == IF file.format = "IMath" THEN <<file.y, file.x, file.z>> ELSE Dimensions

\* The dimensions it does get, 0 for one that a label left out.
Describes(h) ==
  LET read == <<iom_GetSamples(h), iom_GetLines(h), iom_GetBands(h)>>
  IN \A i \in Axis : read[i] = Shape[i] \/ (Has("dimensions missing") /\ read[i] = 0)

\* A header loaded gives the file's samples, lines and bands, whatever the
\* order of the file and the way its reader fills in h->size: by the table, in
\* the order of the axes, exchanged in place or one by one.  Only a PDS label whose
\* order is not known may be read with its dimensions mixed up.
HeaderDescribesFile ==
  result = "1" /\ ~Has("order unknown") => Describes(header)

Fits == room >= header.size[1] * header.size[2] * header.size[3] * header.bytes

\* "data: non-NULL if all of the image is loaded" (iomedley.h:146): the block
\* is as long as the header says.  The cube reader copies from it by these
\* dimensions.
ImageIsWhole == header.data => Fits

ImageIsWholeInOnePlane ==
  header.data /\ ~(Has("separate") /\ ~Has("tiled")) => Fits

\* A file that its reader understands.
Sound ==
  /\ file.format # "other"
  /\ file.traits \cap {"bad label", "keyword missing", "no image object",
                       "in comment", "no colormap", "extension",
                       "no image"} = {}
  /\ Has("packed") => file.format \notin {"ISIS", "TIFF", "GIF"}

\* No reader before its own takes such a file, is stopped by it or stops the
\* program, and its own finds it wherever those have left fp: "None of the
\* routines below assume that the file pointer will be at the start of the
\* file" (iomedley.c:259).
SoundFileLoaded ==
  (result = "0" \/ stage = "crashed") => ~Sound \/ hardship

\* Every file is accepted or rejected in the end, unless it ends within a
\* comment.
LoadReturns ==
  stage = "probe" /\ ~Has("in comment") ~> stage \in {"idle", "crashed"}

=============================================================================
