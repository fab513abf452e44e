------------------------------ MODULE Writers ------------------------------
(***************************************************************************)
(* The iom_Write... functions: one call at a time writes a cube that the   *)
(* caller holds in memory to a file of a given name.                       *)
(*                                                                         *)
(* All do the same few things, in an order of their own (StagesOf), and    *)
(* differ in what they release and remove when one of them fails.  A step  *)
(* is one of those things.  Another process may create the file while a    *)
(* writer is between two of them.                                          *)
(***************************************************************************)
EXTENDS CubeLayout

\* What a caller may ask for: the calls a run enumerates, and the image that
\* every call writes.  The kinds of BMP files that others write.
CONSTANTS Calls, Samples, Lines, BMPFiles

ASSUME ImageAssumption == Samples \in Nat \ {0} /\ Lines \in Nat \ {0}

ASSUME BMPFilesAssumption == BMPFiles \subseteq BMPKinds

Items == {"BYTE", "SHORT", "INT", "LONG", "FLOAT", "DOUBLE"}

\* An order that a reader did not set is "other".
Orders == {"BSQ", "BIL", "BIP", "other"}

-----------------------------------------------------------------------------
(* What each writer does, in its order.                                    *)

iom_WriteVicar == <<"exists", "open", "suits", "write", "close">>
iom_WriteGRD == <<"exists", "open", "suits", "write", "close">>
iom_WriteIMath == <<"exists", "open", "write", "close">>
iom_WriteENVI == <<"exists", "open", "write", "close">>
iom_WriteISIS == <<"exists", "open", "write", "close">>
iom_WriteRaw == <<"exists", "open", "write", "close">>
iom_WriteERS ==
  <<"exists", "suits", "open", "write", "close",
    "open_label", "write_label", "close_label">>
iom_WritePNM == <<"suits", "exists", "open", "write", "close">>
iom_WriteJPEG == <<"suits", "convert", "exists", "open", "write", "close">>
iom_WritePNG ==
  <<"exists", "suits", "convert", "open", "create", "rows", "write", "close">>
iom_WriteTIFF == <<"exists", "suits", "open", "strip", "write", "close">>
iom_WriteGIF ==
  <<"exists", "suits", "convert", "quantize", "open", "write", "close">>
iom_WriteBMP == <<"exists", "suits", "convert", "open", "write", "close">>

StagesOf ==
  [Vicar |-> iom_WriteVicar, GRD |-> iom_WriteGRD, IMath |-> iom_WriteIMath,
   ENVI |-> iom_WriteENVI, ISIS |-> iom_WriteISIS, Raw |-> iom_WriteRaw,
   ERS |-> iom_WriteERS, PNM |-> iom_WritePNM, JPEG |-> iom_WriteJPEG,
   PNG |-> iom_WritePNG, TIFF |-> iom_WriteTIFF, GIF |-> iom_WriteGIF,
   BMP |-> iom_WriteBMP]

ASSUME CallsAssumption ==
  Calls \subseteq [writer : DOMAIN StagesOf, force : BOOLEAN, item : Items,
                   org : Orders, bands : Nat \ {0}]

VARIABLES
  call,   \* the latest request
  pc,     \* its stage in StagesOf, 0 when it has returned
  found,  \* the data and the label file, as they were when the call came
  target, \* the file written
  label,  \* ERS: the file named after it
  handle, \* of the open file: "none", "open" or "lost"
  blocks, \* what the writer has allocated
  freed,  \* what was freed without being the writer's
  fault,  \* of writing: "none", "seen" by the writer, "missed" by it, held
          \* back until the "close", or its end ("exit")
  result

vars ==
  <<call, pc, found, target, label, handle, blocks, freed, fault, result>>

Writer == call.writer
At(stage) == pc # 0 /\ StagesOf[Writer][pc] = stage
Proceed == pc' = pc + 1

\* The writers that use stdio and test the stream after all is written.
Streams == {"Vicar", "GRD", "IMath", "ENVI", "ISIS", "Raw", "ERS", "PNM"}

\* What a call may leave that got to the end of its data: a file that reads
\* back as the cube, one that does and goes on beyond the caller's data, and
\* one that its reader refuses or takes for something else.
Finished == {"whole", "padded", "garbled"}

\* "theirs" is not this call's work.
FileStates == {"absent", "theirs", "part"} \cup Finished

Init ==
  /\ call \in Calls /\ pc = 0 /\ found = <<"absent", "absent">>
  /\ target \in {"absent", "theirs"}
  /\ label \in IF Writer = "ERS" THEN {"absent", "theirs"} ELSE {"absent"}
  /\ handle = "none" /\ blocks = {} /\ freed = {} /\ fault = "none"
  /\ result = 0

Older(f) == IF f = "absent" THEN "absent" ELSE "theirs"

\* The call, and the same call again on what the last one left: the writers
\* have no memory of their own.
Request ==
  /\ pc = 0 /\ pc' = 1
  /\ target' = Older(target) /\ label' = Older(label)
  /\ found' = <<target', label'>>
  /\ handle' = "none" /\ blocks' = {} /\ freed' = {} /\ fault' = "none"
  /\ result' = 0 /\ UNCHANGED call

\* Another process, which knows nothing of the call.
Intrude ==
  /\ pc # 0 /\ target = "absent" /\ handle = "none"
  /\ target' = "theirs"
  /\ UNCHANGED <<call, pc, found, label, handle, blocks, freed, fault, result>>

-----------------------------------------------------------------------------
(* What a writer releases as it returns, and its copy of the data.         *)

Return(answer) == pc' = 0 /\ result' = answer

\* JPEG and BMP copy what is not in BIP order, PNG and GIF one band of it not.
Converts ==
  /\ Writer \in {"JPEG", "PNG", "GIF", "BMP"} /\ call.org # "BIP"
  /\ Writer \in {"PNG", "GIF"} => call.bands # 1

\* A bug: GIF goes by the order alone, and so frees what it did not copy.
FreesDataByOrder ==
  \/ Writer \in {"JPEG", "GIF", "BMP"} /\ call.org # "BIP"
  \/ Writer = "PNG" /\ Converts
  \/ Writer = "BMP" /\ At("close")

\* Whether the writer, past that copy, calls free(data) when it returns.
FreesData == Converts \/ (Writer = "BMP" /\ At("close"))

\* It frees its data, the blocks in others, and pointers it never set.
Free(others, wild) ==
  /\ blocks' = blocks \ (others \cup IF FreesData THEN {"copy"} ELSE {})
  /\ freed' = freed \cup wild
       \cup IF FreesData /\ "copy" \notin blocks THEN {"callers_data"} ELSE {}

\* free of a pointer that was never set does nothing if it is NULL by chance.
WildOr(none) == {none, none \cup {"wild_pointer"}}

ConvertToBIP ==
  /\ At("convert")
  /\ \/ /\ Converts /\ call.org # "other"
        /\ Proceed /\ blocks' = blocks \cup {"copy"}
        /\ UNCHANGED <<freed, result>>
     \/ /\ Converts /\ Return(0) \* no memory, or an order it does not know
        /\ freed' \in IF Writer = "BMP" THEN WildOr(freed) ELSE {freed}
        /\ UNCHANGED blocks
     \/ ~Converts /\ Proceed /\ UNCHANGED <<blocks, freed, result>>
  /\ UNCHANGED <<call, found, target, label, handle, fault>>

-----------------------------------------------------------------------------
(* The checks before a file is written.                                    *)

\* A bug: the label of an ERS file is not looked for.
DataFileInTheWay ==
  IF Writer = "IMath" THEN target = "absent" ELSE target # "absent"

\* The answer of access(), which IMath takes the other way round.
InTheWay ==
  IF Writer = "IMath" THEN target = "absent"
  ELSE target # "absent" \/ label # "absent"

\* A bug: JPEG forgets its copy of the data when the file exists.
ReleasesNothing == UNCHANGED <<blocks, freed>>

\* What is released when the file is in the way: only JPEG has a copy by then.
ReleasedOnRefusal ==
  IF Writer = "JPEG" THEN Free({}, {}) ELSE UNCHANGED <<blocks, freed>>

CheckExists ==
  /\ At("exists")
  /\ \/ ~call.force /\ InTheWay /\ Return(0) /\ ReleasedOnRefusal
     \/ /\ call.force \/ ~InTheWay
        /\ Proceed /\ UNCHANGED <<blocks, freed, result>>
  /\ UNCHANGED <<call, found, target, label, handle, fault>>

OneOrThree == call.bands \in {1, 3}
Known == call.org # "other"

\* What each writer that looks at the header refuses.
Unsuitable ==
  [Vicar |-> call.item = "LONG" \/ ~Known,
   GRD |-> call.bands # 1 \/ call.item = "LONG",
   ERS |-> call.bands > 1 /\ call.org # "BIL",
   PNM |-> \/ call.item # "BYTE" \/ ~OneOrThree
           \/ call.bands = 3 /\ call.org # "BIP",
   JPEG |-> call.item # "BYTE" \/ ~OneOrThree,
   PNG |-> ~Known \/ call.item \notin {"BYTE", "SHORT"} \/ ~OneOrThree,
   TIFF |-> call.item = "LONG",
   GIF |-> ~Known \/ ~OneOrThree,
   BMP |-> ~Known]

CheckSuits ==
  /\ At("suits")
  /\ \/ ~Unsuitable[Writer] /\ Proceed /\ UNCHANGED <<target, handle, result>>
     \/ /\ Unsuitable[Writer] /\ Return(0)
        /\ handle' = IF Writer = "Vicar" /\ call.item = "LONG"
                     THEN "lost" ELSE "none"
        /\ target' = IF Writer = "GRD" /\ call.bands # 1
                     THEN "absent" ELSE target
  /\ UNCHANGED <<call, found, label, blocks, freed, fault>>

-----------------------------------------------------------------------------
(* Opening, and what is allocated next to the open file.                   *)

\* A bug: GIF opens for writing whatever it finds, like the others.
OpensWhatever == FALSE

\* GIF asks for a file that was not there, unless forced (O_EXCL).
MustCreate == Writer = "GIF" /\ ~call.force

\* fopen truncates the file.  PNG destroys structures it has not made yet
\* when it fails.
Open ==
  /\ At("open")
  /\ \/ /\ MustCreate => target = "absent"
        /\ target' = "part" /\ handle' = "open" /\ Proceed
        /\ UNCHANGED <<blocks, freed, result>>
     \/ /\ Return(0) /\ UNCHANGED <<target, handle>>
        /\ \E wild \in IF Writer = "PNG" THEN WildOr({}) ELSE {{}} :
             Free({"rgb", "qdata", "colormap"}, wild)
  /\ UNCHANGED <<call, found, label, fault>>

\* GIF: the colour planes, the quantised image and the colour map.  A plane
\* that cannot be had leaves the earlier ones behind; the map may be missing.
Quantize ==
  /\ At("quantize")
  /\ LET planes == IF call.bands = 3 THEN {"rgb", "qdata"} ELSE {}
     IN \/ /\ \E map \in SUBSET {"colormap"} :
                blocks' = blocks \cup planes \cup map
           /\ Proceed /\ UNCHANGED <<freed, result>>
        \/ planes # {} /\ Return(0) /\ Free({}, {})
        \/ /\ planes # {} /\ Return(0) /\ UNCHANGED freed
           /\ blocks' = (blocks \ {"copy"}) \cup {"rgb"}
  /\ UNCHANGED <<call, found, target, label, handle, fault>>

\* PNG: the structures of the library.
Create ==
  /\ At("create")
  /\ \/ /\ blocks' = blocks \cup {"png"} /\ Proceed
        /\ UNCHANGED <<handle, freed, result>>
     \/ Free({}, {}) /\ handle' = "none" /\ Return(0)
  /\ UNCHANGED <<call, found, target, label, fault>>

\* PNG: the header is written, which may fail, and the rows are allocated.
\* When they cannot be, only the copy of the data is released.
Rows ==
  /\ At("rows")
  /\ \/ /\ blocks' = blocks \cup {"rows"} /\ Proceed
        /\ UNCHANGED <<handle, freed, fault, result>>
     \/ Free({"png"}, {}) /\ handle' = "none" /\ fault' = "seen" /\ Return(0)
     \/ Free({}, {}) /\ handle' = "lost" /\ Return(0) /\ UNCHANGED fault
  /\ UNCHANGED <<call, found, target, label>>

\* A bug: TIFF opens the file again until there is room for a strip.
StripRetries ==
  /\ At("strip")
  /\ \/ /\ blocks' = blocks \cup {"strip"}
        /\ Proceed /\ UNCHANGED <<handle, result>>
     \/ handle' = "lost" /\ pc' = pc - 1 /\ UNCHANGED <<blocks, result>>
  /\ UNCHANGED <<call, found, target, label, freed, fault>>

\* TIFF: the buffer of a strip.
Strip ==
  /\ At("strip")
  /\ \/ /\ blocks' = blocks \cup {"strip"}
        /\ Proceed /\ UNCHANGED <<handle, result>>
     \/ handle' = "lost" /\ Return(0) /\ UNCHANGED blocks
  /\ UNCHANGED <<call, found, target, label, freed, fault>>

-----------------------------------------------------------------------------
(* Writing and closing.                                                    *)

\* Who removes a file that it could not write.
Removes == Writer \in Streams

\* A bug: ENVI does not ask the stream.
NoticedByOthers == Writer \notin {"JPEG", "BMP", "ENVI"}

\* Who sees that a write failed and returns: JPEG ends the program, BMP asks
\* the stream after closing it.
Notices == Writer \notin {"JPEG", "BMP"}

\* What a failed write takes with it: the rows of PNG, changed since setjmp,
\* may be remembered or not, and GIF keeps its colour map after a failed line.
ReleasedOnError ==
  CASE Writer = "PNG" -> {{"png"}, {"png", "rows"}}
    [] Writer = "GIF" -> {{"rgb", "qdata", "colormap"}, {"rgb", "qdata"}}
    [] OTHER -> {{"strip"}}

\* GIF forgets its handle.
Write ==
  /\ At("write")
  /\ \/ Proceed /\ UNCHANGED <<target, handle, blocks, freed, fault, result>>
     \/ /\ Notices /\ Return(0) /\ fault' = "seen"
        /\ target' = IF Removes THEN "absent" ELSE target
        /\ handle' = IF Writer = "GIF" THEN "lost" ELSE "none"
        /\ \E released \in ReleasedOnError : Free(released, {})
     \/ /\ ~Notices /\ Writer # "JPEG" /\ Proceed /\ fault' = "missed"
        /\ UNCHANGED <<target, handle, blocks, freed, result>>
     \/ /\ Writer = "JPEG" /\ Return(0) /\ fault' = "exit"
        /\ handle' = "none" /\ blocks' = {}
        /\ UNCHANGED <<target, freed>>
  /\ UNCHANGED <<call, found, label>>

\* The cubes of known order that come to a file, by the call and by whether
\* it had them copied.
Files ==
  [writer : DOMAIN StagesOf, item : Items, org : Orders \ {"other"},
   bands : {c.bands : c \in Calls}, copied : BOOLEAN]
CubeOf(f) ==
  [dims |-> <<Samples, Lines, f.bands>>, item |-> f.item, org |-> f.org]
FileFor(f) == FileBy(f.writer, CubeOf(f), f.copied)

ReadableFiles == {f \in Files : ReadsBack(FileFor(f), CubeOf(f))}
LongerFiles == {f \in ReadableFiles : ReachesBeyond(FileFor(f))}

\* What the reader makes of it.  The sizes of a cube whose order nobody set
\* have no meaning, which matters to all but Raw; no image of a GIF file has
\* its colours without a map.
Written ==
  LET file == [writer |-> Writer, item |-> call.item, bands |-> call.bands,
               org |-> IF Known THEN call.org ELSE "BSQ",
               copied |-> "copy" \in blocks]
  IN CASE ~Known /\ Writer # "Raw" -> "garbled"
       [] Writer = "GIF" /\ "colormap" \notin blocks -> "garbled"
       [] OTHER -> IF file \notin ReadableFiles THEN "garbled"
                   ELSE IF file \in LongerFiles THEN "padded" ELSE "whole"

\* fclose, whose answer nobody asks for, writes what is still in the buffer.
\* BMP asks the closed stream for errors, and may be told anything.
Close ==
  /\ At("close")
  /\ handle' = "none"
  /\ \/ /\ target' = IF fault = "missed" THEN "part" ELSE Written
        /\ UNCHANGED fault
     \/ fault' = "close" /\ UNCHANGED target
  /\ Free(blocks \ {"copy"}, {})
  /\ IF Writer = "ERS" THEN Proceed /\ UNCHANGED result
     ELSE \E answer \in IF Writer = "BMP" THEN {-1, 1} ELSE {1} :
            Return(answer)
  /\ UNCHANGED <<call, found, label>>

\* A bug: the data is left there without its label.
LabelMissing ==
  Return(0) /\ UNCHANGED <<target, label, handle>>

\* The label could not be opened.
NoLabel ==
  Return(0) /\ target' = "absent" /\ UNCHANGED <<label, handle>>

OpenLabel ==
  /\ At("open_label")
  /\ \/ /\ label' = "part" /\ handle' = "open" /\ Proceed
        /\ UNCHANGED <<target, result>>
     \/ NoLabel
  /\ UNCHANGED <<call, found, blocks, freed, fault>>

WriteLabel ==
  /\ At("write_label")
  /\ \/ Proceed /\ UNCHANGED <<target, label, handle, fault, result>>
     \/ /\ Return(0) /\ handle' = "none" /\ fault' = "seen"
        /\ target' = "absent" /\ label' = "absent"
  /\ UNCHANGED <<call, found, blocks, freed>>

CloseLabel ==
  /\ At("close_label") /\ Return(1) /\ handle' = "none"
  /\ \/ label' = "whole" /\ UNCHANGED fault
     \/ fault' = "close" /\ UNCHANGED label
  /\ UNCHANGED <<call, found, target, blocks, freed>>

-----------------------------------------------------------------------------

Step ==
  \/ CheckExists \/ CheckSuits \/ ConvertToBIP \/ Quantize
  \/ Open \/ Create \/ Rows \/ Strip \/ Write \/ Close
  \/ OpenLabel \/ WriteLabel \/ CloseLabel

Next == Request \/ Step \/ Intrude

\* A writer that was called runs on.
Spec == Init /\ [][Next]_vars /\ WF_vars(Step)

-----------------------------------------------------------------------------

Owned == {"copy", "rgb", "qdata", "colormap", "png", "rows", "strip"}

\* The variables have their types.
TypeOK ==
  /\ call \in Calls /\ pc \in 0..Len(StagesOf[Writer])
  /\ found \in {"absent", "theirs"} \X {"absent", "theirs"}
  /\ target \in FileStates /\ label \in {"absent", "theirs", "part", "whole"}
  /\ handle \in {"none", "open", "lost"}
  /\ blocks \subseteq Owned
  /\ freed \subseteq {"callers_data", "wild_pointer"}
  /\ fault \in {"none", "seen", "missed", "close", "exit"}
  /\ result \in {-1, 0, 1}

Returned == pc = 0

\* Without force, a data or label file that was there when the call came is
\* there after it, at every moment: no writer but IMath opens it before its
\* own check, and none removes it.
ExistingFilesKept ==
  /\ ~call.force /\ Writer # "IMath"
  /\ found # <<"absent", "absent">>
  => <<target, label>> = found \/ (found[1] = "absent" /\ label = "theirs")

\* Without force GIF does not even replace a file that appeared after it had
\* looked: there is no window between its check and its open.
GIFReplacesNothing ==
  [][target = "theirs" /\ target' # "theirs" /\ call' = call
       => call.force \/ Writer # "GIF"]_vars

\* A call that answers 1 (of any writer but BMP) wrote all the data, and the
\* label of an ERS file, unless an error came up only as the file was closed.
SuccessIsWhole ==
  Returned /\ result = 1 /\ Writer # "BMP" /\ fault # "close" =>
    /\ target \in Finished
    /\ Writer = "ERS" => label = "whole"

\* The cubes that a writer may be trusted with.
Faithful ==
  LET plain == call.item \in {"BYTE", "SHORT", "INT", "DOUBLE"}
  IN [Vicar |-> Known, ENVI |-> Known /\ call.item # "LONG",
      ISIS |-> Known /\ plain, ERS |-> Known /\ call.item # "LONG",
      Raw |-> TRUE, TIFF |-> Known,
      GRD |-> HostIsBig /\ Known /\ call.item = "FLOAT",
      IMath |-> /\ HostIsBig /\ Known /\ call.item = "DOUBLE"
                /\ call.bands = 1 /\ Samples = 1 /\ Lines = 1,
      PNM |-> Known, JPEG |-> TRUE, PNG |-> call.item = "BYTE",
      GIF |-> call.item = "BYTE",
      BMP |-> call.item = "BYTE" /\ OneOrThree]

\* The writers that take every item for iom_NBYTESI bytes of the data.
BeyondReal == {"Vicar", "ENVI", "ERS", "Raw"}

\* A file whose data was all written reads back as the same cube, each value
\* at its sample, line and band, exactly when its writer is faithful to that
\* kind of cube (which GIF is only with a colour map); only after reals of
\* four bytes is there something in it that is not the caller's.
CubesReadBack ==
  target \in Finished =>
    /\ ~Faithful[Writer] => target = "garbled"
    /\ target = "garbled" => ~Faithful[Writer] \/ Writer = "GIF"
    /\ target = "padded" <=>
         Faithful[Writer] /\ call.item = "FLOAT" /\ Writer \in BeyondReal

KindsReadInPlace == \A f \in BMPFiles : ReadInPlace(f)

\* Where the reader has got to when it comes to the image depends on all it has
\* read before, and each row on the one before: whatever kind of BMP file it
\* is, every pixel is read from where it is, with its bands (iom_ReadBMP).
BMPFilesRead == Writer = "BMP" /\ At("close") => KindsReadInPlace

\* After a failure the writers that use stdio leave nothing of theirs behind,
\* neither of a pair of files, except Vicar and GRD when it is the kind of
\* item or the order that they refuse.
FailureLeavesNothing ==
  Returned /\ result = 0 /\ Writer \in Streams
  /\ (Writer \in {"Vicar", "GRD"} => ~Unsuitable[Writer]) =>
    {target, label} \subseteq {"absent", "theirs"}

\* A call that succeeds, or that fails in a writer other than the four known
\* to forget something, has closed the file and kept no block.
NothingKept ==
  Returned /\ (result # 0 \/ Writer \notin {"Vicar", "PNG", "TIFF", "GIF"}) =>
    handle = "none" /\ blocks = {}

\* The image stays the caller's: no writer but BMP frees what it was given.
CallersDataKept == Writer # "BMP" => "callers_data" \notin freed

\* A call returns, or ends the program.
CallsReturn == pc # 0 ~> pc = 0

=============================================================================
