--------------------------- MODULE WritersProofs ---------------------------
(***************************************************************************)
(* What the writers leave on the disk and in memory, and what is in their  *)
(* files, for every set of calls and every size of image, wherever a call  *)
(* fails.                                                                  *)
(***************************************************************************)
EXTENDS Writers, CubeLayoutProofs

-----------------------------------------------------------------------------
(* The order of the stages.                                                *)

Before(w, i, stage) == \E j \in 1..(i - 1) : StagesOf[w][j] = stage

Past(stage) == Before(Writer, pc, stage)

Places(w) == 1..Len(StagesOf[w])

LabelStages == {"open_label", "write_label", "close_label"}

\* Stages that never come after a file was opened, and those that always do.
Preparing == {"exists", "convert", "quantize", "open"}
Filling == {"create", "rows", "strip", "write", "close"}

\* A stage and what comes before it.
InOrder(w, i) ==
  LET s == StagesOf[w][i]
  IN /\ s \notin LabelStages =>
          ~Before(w, i, "open_label") /\ ~Before(w, i, "close")
     /\ s \in Preparing => ~Before(w, i, "open")
     /\ s = "suits" /\ Before(w, i, "open") => w \in {"Vicar", "GRD"}
     /\ s = "suits" /\ w = "GRD" => Before(w, i, "exists")
     /\ s \in Filling \cup LabelStages => Before(w, i, "open")
     /\ s \notin {"exists", "suits", "convert"} => Before(w, i, "exists")
     /\ s \in LabelStages => Before(w, i, "close")
     /\ s = "open_label" => ~Before(w, i, "open_label")
     /\ s \in {"write_label", "close_label"} => Before(w, i, "open_label")

\* Who does it, and what it has converted by then.
Whose(w, i) ==
  LET s == StagesOf[w][i]
  IN /\ s \in LabelStages => w = "ERS"
     /\ s = "strip" => w = "TIFF"
     /\ s \in {"create", "rows"} => w = "PNG"
     /\ s = "quantize" => w = "GIF"
     /\ s \in {"exists", "suits", "convert"} /\ Before(w, i, "convert")
        => w = "JPEG" /\ s = "exists"
     /\ /\ w \in {"JPEG", "PNG", "GIF", "BMP"}
        /\ s \in {"exists", "suits", "convert"} => w = "JPEG" /\ s = "exists"
        => Before(w, i, "convert")
     /\ s \notin {"close", "close_label"} \/ (s = "close" /\ w = "ERS")
        => i + 1 \in Places(w)

LEMMA StagesInOrder ==
  ASSUME NEW w \in DOMAIN StagesOf, NEW i \in Places(w)
  PROVE  InOrder(w, i) /\ Whose(w, i)
<1> USE DEF InOrder, Whose, Before, Places, LabelStages, Preparing, Filling
<1>1. CASE w \in {"Vicar", "GRD"}
  <2>1. StagesOf[w] = iom_WriteVicar
    BY <1>1 DEF StagesOf, iom_WriteVicar, iom_WriteGRD
  <2> QED BY <1>1, <2>1 DEF iom_WriteVicar
<1>2. CASE w \in {"IMath", "ENVI", "ISIS", "Raw"}
  <2>1. StagesOf[w] = iom_WriteIMath
    BY <1>2
       DEF StagesOf, iom_WriteIMath, iom_WriteENVI, iom_WriteISIS,
           iom_WriteRaw
  <2> QED BY <1>2, <2>1 DEF iom_WriteIMath
<1>3. CASE w \in {"ERS"}
  <2>1. StagesOf[w] = iom_WriteERS
    BY <1>3 DEF StagesOf
  <2> QED BY <1>3, <2>1 DEF iom_WriteERS
<1>4. CASE w \in {"PNM"}
  <2>1. StagesOf[w] = iom_WritePNM
    BY <1>4 DEF StagesOf
  <2> QED BY <1>4, <2>1 DEF iom_WritePNM
<1>5. CASE w \in {"JPEG"}
  <2>1. StagesOf[w] = iom_WriteJPEG
    BY <1>5 DEF StagesOf
  <2> QED BY <1>5, <2>1 DEF iom_WriteJPEG
<1>6. CASE w \in {"PNG"}
  <2>1. StagesOf[w] = iom_WritePNG
    BY <1>6 DEF StagesOf
  <2> QED BY <1>6, <2>1 DEF iom_WritePNG
<1>7. CASE w \in {"TIFF"}
  <2>1. StagesOf[w] = iom_WriteTIFF
    BY <1>7 DEF StagesOf
  <2> QED BY <1>7, <2>1 DEF iom_WriteTIFF
<1>8. CASE w \in {"GIF"}
  <2>1. StagesOf[w] = iom_WriteGIF
    BY <1>8 DEF StagesOf
  <2> QED BY <1>8, <2>1 DEF iom_WriteGIF
<1>9. CASE w \in {"BMP"}
  <2>1. StagesOf[w] = iom_WriteBMP
    BY <1>9 DEF StagesOf
  <2> QED BY <1>9, <2>1 DEF iom_WriteBMP
<1> QED BY <1>1, <1>2, <1>3, <1>4, <1>5, <1>6, <1>7, <1>8, <1>9 DEF StagesOf

-----------------------------------------------------------------------------
(* Types.                                                                  *)

LEMMA WriterTyped == TypeOK => Writer \in DOMAIN StagesOf
BY CallsAssumption DEF TypeOK, Writer, StagesOf

\* The stage that a call is at, and what it has been through.
LEMMA Here ==
  ASSUME TypeOK, pc # 0
  PROVE  /\ pc \in Places(Writer)
         /\ InOrder(Writer, pc) /\ Whose(Writer, pc)
<1>1. pc \in Places(Writer) BY DEF TypeOK, Places
<1> QED BY <1>1, WriterTyped, StagesInOrder

LEMMA BeforeNext ==
  ASSUME NEW w, NEW i \in Nat \ {0}, NEW t
  PROVE  Before(w, i + 1, t) <=> Before(w, i, t) \/ StagesOf[w][i] = t
BY DEF Before

LEMMA GoesOn ==
  ASSUME TypeOK, NEW s, At(s), Proceed, UNCHANGED call,
         s \notin {"close", "close_label"} \/ (s = "close" /\ Writer = "ERS")
  PROVE  /\ pc' # 0 /\ pc' \in 0..Len(StagesOf[Writer])
         /\ \A t : Past(t)' <=> Past(t) \/ s = t
<1>1. pc' = pc + 1 /\ pc \in Nat \ {0} /\ s = StagesOf[Writer][pc]
  BY DEF Proceed, At, TypeOK
<1>2. pc' \in Places(Writer)
  BY <1>1, Here DEF Whose
<1>3. Writer' = Writer BY DEF Writer
<1>4. pc' # 0 /\ pc' \in 0..Len(StagesOf[Writer])
  BY <1>2 DEF Places
<1>5. ASSUME NEW t PROVE Past(t)' <=> Past(t) \/ s = t
  BY <1>1, <1>3, BeforeNext DEF Past
<1> QED BY <1>4, <1>5

LEMMA ThereAreStages ==
  ASSUME NEW w \in DOMAIN StagesOf
  PROVE  Len(StagesOf[w]) \in 4..8
<1> DEFINE All == {iom_WriteVicar, iom_WriteGRD, iom_WriteIMath, iom_WriteENVI,
                   iom_WriteISIS, iom_WriteRaw, iom_WriteERS, iom_WritePNM,
                   iom_WriteJPEG, iom_WritePNG, iom_WriteTIFF, iom_WriteGIF,
                   iom_WriteBMP}
<1>1. StagesOf[w] \in All BY DEF StagesOf
<1>2. ASSUME NEW s \in All PROVE Len(s) \in 4..8
  BY DEF iom_WriteVicar, iom_WriteGRD, iom_WriteIMath, iom_WriteENVI,
         iom_WriteISIS, iom_WriteRaw, iom_WriteERS, iom_WritePNM,
         iom_WriteJPEG, iom_WritePNG, iom_WriteTIFF, iom_WriteGIF,
         iom_WriteBMP
<1> QED BY <1>1, <1>2

LEMMA WrittenIsFinished == Written \in Finished
BY DEF Written, Finished

LEMMA InitTyped == Init => TypeOK
<1> SUFFICES ASSUME Init PROVE TypeOK OBVIOUS
<1>1. Writer \in DOMAIN StagesOf
  BY CallsAssumption DEF Init, Writer, StagesOf
<1>2. Len(StagesOf[Writer]) \in 4..8 BY <1>1, ThereAreStages
<1> QED BY <1>2 DEF Init, TypeOK, FileStates

\* A call stays at no stage: it goes on to the next or returns.
LEMMA Moves ==
  ASSUME TypeOK, NEW s, At(s), UNCHANGED call,
         \/ pc' = 0
         \/ Proceed /\ s # "close_label" /\ (s = "close" => Writer = "ERS")
  PROVE  call' \in Calls /\ pc' \in 0..Len(StagesOf[Writer]) /\ Writer' = Writer
<1>1. Len(StagesOf[Writer]) \in 4..8 BY WriterTyped, ThereAreStages
<1>2. call' \in Calls /\ Writer' = Writer BY DEF TypeOK, Writer
<1> QED BY <1>1, <1>2, GoesOn

LEMMA StepMoves ==
  ASSUME TypeOK, Step
  PROVE  call' \in Calls /\ pc' \in 0..Len(StagesOf[Writer]) /\ Writer' = Writer
<1> USE Moves DEF Return
<1>1. CASE CheckExists BY <1>1 DEF CheckExists
<1>2. CASE CheckSuits BY <1>2 DEF CheckSuits
<1>3. CASE ConvertToBIP BY <1>3 DEF ConvertToBIP
<1>4. CASE Quantize BY <1>4 DEF Quantize
<1>5. CASE Open BY <1>5 DEF Open
<1>6. CASE Create BY <1>6 DEF Create
<1>7. CASE Rows BY <1>7 DEF Rows
<1>8. CASE Strip BY <1>8 DEF Strip
<1>9. CASE Write BY <1>9 DEF Write
<1>10. CASE Close BY <1>10 DEF Close
<1>11. CASE OpenLabel BY <1>11 DEF OpenLabel, NoLabel
<1>12. CASE WriteLabel BY <1>12 DEF WriteLabel
<1>13. CASE CloseLabel BY <1>13 DEF CloseLabel
<1> QED
  BY <1>1, <1>2, <1>3, <1>4, <1>5, <1>6, <1>7, <1>8, <1>9, <1>10, <1>11, <1>12,
     <1>13
     DEF Step

FilesTyped ==
  /\ found \in {"absent", "theirs"} \X {"absent", "theirs"}
  /\ target \in FileStates /\ label \in {"absent", "theirs", "part", "whole"}
  /\ handle \in {"none", "open", "lost"}
  /\ fault \in {"none", "seen", "missed", "close", "exit"}
  /\ result \in {-1, 0, 1}

LEMMA StepFilesTyped == ASSUME TypeOK, Step PROVE FilesTyped'
<1> USE DEF TypeOK, FilesTyped, FileStates, Finished, Return
<1>1. CASE CheckExists BY <1>1 DEF CheckExists
<1>2. CASE CheckSuits BY <1>2 DEF CheckSuits
<1>3. CASE ConvertToBIP BY <1>3 DEF ConvertToBIP
<1>4. CASE Quantize BY <1>4 DEF Quantize
<1>5. CASE Open BY <1>5 DEF Open
<1>6. CASE Create BY <1>6 DEF Create
<1>7. CASE Rows BY <1>7 DEF Rows
<1>8. CASE Strip BY <1>8 DEF Strip
<1>9. CASE Write BY <1>9 DEF Write
<1>10. CASE Close BY <1>10, WrittenIsFinished DEF Close
<1>11. CASE OpenLabel BY <1>11 DEF OpenLabel, NoLabel
<1>12. CASE WriteLabel BY <1>12 DEF WriteLabel
<1>13. CASE CloseLabel BY <1>13 DEF CloseLabel
<1> QED
  BY <1>1, <1>2, <1>3, <1>4, <1>5, <1>6, <1>7, <1>8, <1>9, <1>10, <1>11, <1>12,
     <1>13
     DEF Step

HeldTyped ==
  /\ blocks \subseteq Owned
  /\ freed \subseteq {"callers_data", "wild_pointer"}

LEMMA FreeTyped ==
  ASSUME TypeOK, NEW others, NEW wild \in SUBSET {"callers_data", "wild_pointer"},
         Free(others, wild)
  PROVE  HeldTyped'
BY DEF TypeOK, Free, HeldTyped

LEMMA StepHeldTyped == ASSUME TypeOK, Step PROVE HeldTyped'
<1>0. /\ blocks \subseteq Owned
      /\ freed \subseteq {"callers_data", "wild_pointer"}
  BY DEF TypeOK
<1>1. CASE CheckExists
  BY <1>1, <1>0, FreeTyped DEF CheckExists, ReleasedOnRefusal, HeldTyped, Owned
<1>2. CASE CheckSuits BY <1>2, <1>0, FreeTyped DEF CheckSuits, HeldTyped, Owned
<1>3. CASE ConvertToBIP
  BY <1>3, <1>0, FreeTyped DEF ConvertToBIP, WildOr, HeldTyped, Owned
<1>4. CASE Quantize BY <1>4, <1>0, FreeTyped DEF Quantize, HeldTyped, Owned
<1>5. CASE Open BY <1>5, <1>0, FreeTyped DEF Open, WildOr, HeldTyped, Owned
<1>6. CASE Create BY <1>6, <1>0, FreeTyped DEF Create, HeldTyped, Owned
<1>7. CASE Rows BY <1>7, <1>0, FreeTyped DEF Rows, HeldTyped, Owned
<1>8. CASE Strip BY <1>8, <1>0, FreeTyped DEF Strip, HeldTyped, Owned
<1>9. CASE Write BY <1>9, <1>0, FreeTyped DEF Write, HeldTyped, Owned
<1>10. CASE Close BY <1>10, <1>0, FreeTyped DEF Close, HeldTyped, Owned
<1>11. CASE OpenLabel BY <1>11, <1>0, FreeTyped DEF OpenLabel, HeldTyped, Owned
<1>12. CASE WriteLabel
  BY <1>12, <1>0, FreeTyped DEF WriteLabel, HeldTyped, Owned
<1>13. CASE CloseLabel
  BY <1>13, <1>0, FreeTyped DEF CloseLabel, HeldTyped, Owned
<1> QED
  BY <1>1, <1>2, <1>3, <1>4, <1>5, <1>6, <1>7, <1>8, <1>9, <1>10, <1>11, <1>12,
     <1>13
     DEF Step

LEMMA StepTyped == ASSUME TypeOK, Step PROVE TypeOK'
BY StepMoves, StepFilesTyped, StepHeldTyped DEF FilesTyped, HeldTyped, TypeOK

-----------------------------------------------------------------------------
(* What holds between the steps of a call.                                 *)

Neither == {"absent", "theirs"}
SomethingThere == found # <<"absent", "absent">>

\* Without force a call that found a file never gets past its check.
Refused ==
  ~call.force /\ Writer # "IMath" /\ SomethingThere /\ pc # 0 => ~Past("exists")

\* The files are not this call's until it opens them.
NotYetOurs ==
  /\ pc # 0 /\ ~Past("open") => target \in Neither /\ handle = "none"
  /\ pc # 0 /\ ~Past("open_label") => label \in Neither

\* The data of an ERS file is whole and closed before its label is opened.
DataBeforeLabel ==
  pc # 0 /\ Past("close") =>
    /\ target \in Finished \/ fault = "close"
    /\ ~Past("open_label") => handle = "none"

\* What GIF has opened stays its own.
GIFsOwn == pc # 0 /\ Writer = "GIF" /\ Past("open") => target = "part"

MissedByBMP == fault = "missed" => Writer = "BMP"

DiskInv ==
  /\ Refused /\ NotYetOurs /\ DataBeforeLabel /\ GIFsOwn /\ MissedByBMP
  /\ ExistingFilesKept /\ SuccessIsWhole /\ FailureLeavesNothing

LEMMA InitDisk == Init => DiskInv
BY DEF Init, DiskInv, Refused, NotYetOurs, DataBeforeLabel, GIFsOwn,
       MissedByBMP, ExistingFilesKept, SuccessIsWhole, FailureLeavesNothing,
       Returned

LEMMA RequestDisk == ASSUME TypeOK, DiskInv, Request PROVE DiskInv'
<1>1. \A s : ~Past(s)' BY DEF Request, Past, Before
<1>2. target' \in Neither /\ label' \in Neither BY DEF Request, Older, Neither
<1> QED BY <1>1, <1>2
       DEF Request, DiskInv, Refused, NotYetOurs, DataBeforeLabel, GIFsOwn,
       MissedByBMP, ExistingFilesKept, SuccessIsWhole, FailureLeavesNothing,
       Returned, SomethingThere, Finished, Neither

LEMMA IntrudeDisk == ASSUME TypeOK, DiskInv, Intrude PROVE DiskInv'
<1>1. \A s : Past(s)' <=> Past(s) BY DEF Intrude, Past, Before, Writer
<1> QED BY <1>1
       DEF Intrude, DiskInv, Refused, NotYetOurs, DataBeforeLabel, GIFsOwn,
       MissedByBMP, ExistingFilesKept, SuccessIsWhole, FailureLeavesNothing,
       Returned, SomethingThere, Finished, Neither, Writer, TypeOK

\* InOrder and Whose of the present stage.
StageFacts(s) ==
  /\ Writer \in DOMAIN StagesOf
  /\ s \notin LabelStages => ~Past("open_label") /\ ~Past("close")
  /\ s \in Preparing => ~Past("open")
  /\ s = "suits" /\ Past("open") => Writer \in {"Vicar", "GRD"}
  /\ s = "suits" /\ Writer = "GRD" => Past("exists")
  /\ s \in Filling \cup LabelStages => Past("open")
  /\ s \notin {"exists", "suits", "convert"} => Past("exists")
  /\ s \in LabelStages => Writer = "ERS" /\ Past("close")
  /\ s \in {"create", "rows"} => Writer = "PNG"
  /\ s = "strip" => Writer = "TIFF"
  /\ s = "open_label" => ~Past("open_label")
  /\ s \in {"write_label", "close_label"} => Past("open_label")

CopyFacts(s) ==
  /\ s \in {"exists", "suits", "convert"} /\ Past("convert")
     => Writer = "JPEG" /\ s = "exists"
  /\ Converts /\ (s = "exists" => Writer = "JPEG")
     => s \in {"suits", "convert"} \/ Past("convert")
  /\ s = "quantize" => Writer = "GIF"

LEMMA CopyAtStage == ASSUME TypeOK, NEW s, At(s) PROVE CopyFacts(s)
<1>1. Whose(Writer, pc) /\ s = StagesOf[Writer][pc]
  BY Here DEF At
<1>2. Converts => Writer \in {"JPEG", "PNG", "GIF", "BMP"}
  BY DEF Converts
<1> HIDE DEF Converts
<1> QED BY <1>1, <1>2 DEF CopyFacts, Past, Whose

LEMMA AtStage == ASSUME TypeOK, NEW s, At(s) PROVE StageFacts(s)
BY Here, WriterTyped DEF StageFacts, Past, At, InOrder, Whose

LEMMA CheckExistsDisk ==
  ASSUME TypeOK, DiskInv, CheckExists, Writer' = Writer
  PROVE  DiskInv'
<1>1. At("exists") /\ StageFacts("exists") BY AtStage DEF CheckExists
<1>2. /\ pc # 0 /\ ~Past("open") /\ ~Past("close") /\ ~Past("open_label")
  BY <1>1 DEF StageFacts, LabelStages, Preparing, Filling, At
<1>3. Proceed =>
        /\ pc' # 0
        /\ Past("exists")'
        /\ ~Past("open")'
        /\ ~Past("close")'
        /\ ~Past("open_label")'
  BY <1>1, <1>2, GoesOn DEF CheckExists
<1>4. Refused'
  BY <1>2, <1>3
     DEF CheckExists, Refused, DiskInv, Return, SomethingThere, InTheWay,
         ExistingFilesKept
<1>5. NotYetOurs'
  BY <1>2, <1>3 DEF CheckExists, NotYetOurs, DiskInv, Return, Neither, InTheWay
<1>6. DataBeforeLabel'
  BY <1>2, <1>3 DEF CheckExists, DataBeforeLabel, DiskInv, Return, InTheWay
<1>7. GIFsOwn'
  BY <1>2, <1>3 DEF CheckExists, GIFsOwn, DiskInv, Return, InTheWay
<1>8. MissedByBMP'
  BY <1>2, <1>3
     DEF CheckExists, MissedByBMP, DiskInv, Return, Notices, InTheWay
<1>9. ExistingFilesKept'
  BY <1>2, <1>3
     DEF CheckExists, ExistingFilesKept, DiskInv, Return, Refused,
         SomethingThere, InTheWay
<1>10. SuccessIsWhole'
  BY <1>2, <1>3
     DEF CheckExists, SuccessIsWhole, DiskInv, Return, Returned,
         DataBeforeLabel, MissedByBMP, Finished, InTheWay
<1>11. FailureLeavesNothing'
  BY <1>2, <1>3
     DEF CheckExists, FailureLeavesNothing, DiskInv, Return, Returned,
         NotYetOurs, Streams, Neither, InTheWay
<1> QED BY <1>4, <1>5, <1>6, <1>7, <1>8, <1>9, <1>10, <1>11 DEF DiskInv

LEMMA CheckSuitsDisk ==
  ASSUME TypeOK, DiskInv, CheckSuits, Writer' = Writer
  PROVE  DiskInv'
<1>1. At("suits") /\ StageFacts("suits") BY AtStage DEF CheckSuits
<1>2. /\ pc # 0 /\ ~Past("close") /\ ~Past("open_label")
      /\ Past("open") => Writer \in {"Vicar", "GRD"}
      /\ Writer = "GRD" => Past("exists")
      /\ Writer \in DOMAIN StagesOf
  BY <1>1 DEF StageFacts, LabelStages, Preparing, Filling, At
<1>3. Proceed =>
        /\ pc' # 0
        /\ (Past("exists")' <=> Past("exists"))
        /\ (Past("open")' <=> Past("open"))
        /\ ~Past("close")'
        /\ ~Past("open_label")'
  BY <1>1, <1>2, GoesOn DEF CheckSuits
<1>4. Refused'
  BY <1>2, <1>3
     DEF CheckSuits, Refused, DiskInv, Return, SomethingThere, Unsuitable
<1>5. NotYetOurs'
  BY <1>2, <1>3
     DEF CheckSuits, NotYetOurs, DiskInv, Return, Neither, Unsuitable
<1>6. DataBeforeLabel'
  BY <1>2, <1>3 DEF CheckSuits, DataBeforeLabel, DiskInv, Return, Unsuitable
<1>7. GIFsOwn'
  BY <1>2, <1>3 DEF CheckSuits, GIFsOwn, DiskInv, Return, Unsuitable
<1>8. MissedByBMP'
  BY <1>2, <1>3
     DEF CheckSuits, MissedByBMP, DiskInv, Return, Notices, Unsuitable
<1>9. ExistingFilesKept'
  BY <1>2, <1>3
     DEF CheckSuits, ExistingFilesKept, DiskInv, Return, Refused,
         SomethingThere, Unsuitable
<1>10. SuccessIsWhole'
  BY <1>2, <1>3
     DEF CheckSuits, SuccessIsWhole, DiskInv, Return, Returned,
         DataBeforeLabel, MissedByBMP, Finished, Unsuitable
<1>11. FailureLeavesNothing'
  <2>1. Unsuitable' = Unsuitable
    BY DEF CheckSuits, Unsuitable, Known, OneOrThree
  <2> QED
    BY <1>2, <1>3, <2>1 DEF CheckSuits, FailureLeavesNothing, DiskInv, Return,
        Returned, NotYetOurs, Streams, Neither
<1> QED BY <1>4, <1>5, <1>6, <1>7, <1>8, <1>9, <1>10, <1>11 DEF DiskInv

LEMMA ConvertToBIPDisk ==
  ASSUME TypeOK, DiskInv, ConvertToBIP, Writer' = Writer
  PROVE  DiskInv'
<1>1. At("convert") /\ StageFacts("convert") BY AtStage DEF ConvertToBIP
<1>2. /\ pc # 0 /\ ~Past("open") /\ ~Past("close") /\ ~Past("open_label")
  BY <1>1 DEF StageFacts, LabelStages, Preparing, Filling, At
<1>3. Proceed =>
        /\ pc' # 0
        /\ (Past("exists")' <=> Past("exists"))
        /\ ~Past("open")'
        /\ ~Past("close")'
        /\ ~Past("open_label")'
  BY <1>1, <1>2, GoesOn DEF ConvertToBIP
<1>4. Refused'
  BY <1>2, <1>3 DEF ConvertToBIP, Refused, DiskInv, Return, SomethingThere
<1>5. NotYetOurs'
  BY <1>2, <1>3 DEF ConvertToBIP, NotYetOurs, DiskInv, Return, Neither
<1>6. DataBeforeLabel'
  BY <1>2, <1>3 DEF ConvertToBIP, DataBeforeLabel, DiskInv, Return
<1>7. GIFsOwn'
  BY <1>2, <1>3 DEF ConvertToBIP, GIFsOwn, DiskInv, Return
<1>8. MissedByBMP'
  BY <1>2, <1>3 DEF ConvertToBIP, MissedByBMP, DiskInv, Return, Notices
<1>9. ExistingFilesKept'
  BY <1>2, <1>3
     DEF ConvertToBIP, ExistingFilesKept, DiskInv, Return, Refused,
         SomethingThere
<1>10. SuccessIsWhole'
  BY <1>2, <1>3
     DEF ConvertToBIP, SuccessIsWhole, DiskInv, Return, Returned,
         DataBeforeLabel, MissedByBMP, Finished
<1>11. FailureLeavesNothing'
  BY <1>2, <1>3
     DEF ConvertToBIP, FailureLeavesNothing, DiskInv, Return, Returned,
         NotYetOurs, Streams, Neither
<1> QED BY <1>4, <1>5, <1>6, <1>7, <1>8, <1>9, <1>10, <1>11 DEF DiskInv

LEMMA QuantizeDisk ==
  ASSUME TypeOK, DiskInv, Quantize, Writer' = Writer
  PROVE  DiskInv'
<1>1. At("quantize") /\ StageFacts("quantize") BY AtStage DEF Quantize
<1>2. /\ pc # 0
      /\ Past("exists")
      /\ ~Past("open")
      /\ ~Past("close")
      /\ ~Past("open_label")
  BY <1>1 DEF StageFacts, LabelStages, Preparing, Filling, At
<1>3. Proceed =>
        /\ pc' # 0
        /\ Past("exists")'
        /\ ~Past("open")'
        /\ ~Past("close")'
        /\ ~Past("open_label")'
  BY <1>1, <1>2, GoesOn DEF Quantize
<1>4. Refused'
  BY <1>2, <1>3 DEF Quantize, Refused, DiskInv, Return, SomethingThere
<1>5. NotYetOurs'
  BY <1>2, <1>3 DEF Quantize, NotYetOurs, DiskInv, Return, Neither
<1>6. DataBeforeLabel'
  BY <1>2, <1>3 DEF Quantize, DataBeforeLabel, DiskInv, Return
<1>7. GIFsOwn'
  BY <1>2, <1>3 DEF Quantize, GIFsOwn, DiskInv, Return
<1>8. MissedByBMP'
  BY <1>2, <1>3 DEF Quantize, MissedByBMP, DiskInv, Return, Notices
<1>9. ExistingFilesKept'
  BY <1>2, <1>3
     DEF Quantize, ExistingFilesKept, DiskInv, Return, Refused,
         SomethingThere
<1>10. SuccessIsWhole'
  BY <1>2, <1>3
     DEF Quantize, SuccessIsWhole, DiskInv, Return, Returned,
         DataBeforeLabel, MissedByBMP, Finished
<1>11. FailureLeavesNothing'
  BY <1>2, <1>3
     DEF Quantize, FailureLeavesNothing, DiskInv, Return, Returned,
         NotYetOurs, Streams, Neither
<1> QED BY <1>4, <1>5, <1>6, <1>7, <1>8, <1>9, <1>10, <1>11 DEF DiskInv

LEMMA OpenDisk ==
  ASSUME TypeOK, DiskInv, Open, Writer' = Writer
  PROVE  DiskInv'
<1>1. At("open") /\ StageFacts("open") BY AtStage DEF Open
<1>2. /\ pc # 0
      /\ Past("exists")
      /\ ~Past("open")
      /\ ~Past("close")
      /\ ~Past("open_label")
  BY <1>1 DEF StageFacts, LabelStages, Preparing, Filling, At
<1>3. Proceed =>
        /\ pc' # 0
        /\ Past("exists")'
        /\ Past("open")'
        /\ ~Past("close")'
        /\ ~Past("open_label")'
  BY <1>1, <1>2, GoesOn DEF Open
<1>4. Refused'
  BY <1>2, <1>3 DEF Open, Refused, DiskInv, Return, SomethingThere, MustCreate
<1>5. NotYetOurs'
  BY <1>2, <1>3 DEF Open, NotYetOurs, DiskInv, Return, Neither, MustCreate
<1>6. DataBeforeLabel'
  BY <1>2, <1>3 DEF Open, DataBeforeLabel, DiskInv, Return, MustCreate
<1>7. GIFsOwn'
  BY <1>2, <1>3 DEF Open, GIFsOwn, DiskInv, Return, MustCreate
<1>8. MissedByBMP'
  BY <1>2, <1>3 DEF Open, MissedByBMP, DiskInv, Return, Notices, MustCreate
<1>9. ExistingFilesKept'
  BY <1>2, <1>3
     DEF Open, ExistingFilesKept, DiskInv, Return, Refused, SomethingThere,
         MustCreate
<1>10. SuccessIsWhole'
  BY <1>2, <1>3
     DEF Open, SuccessIsWhole, DiskInv, Return, Returned, DataBeforeLabel,
         MissedByBMP, Finished, MustCreate
<1>11. FailureLeavesNothing'
  BY <1>2, <1>3
     DEF Open, FailureLeavesNothing, DiskInv, Return, Returned, NotYetOurs,
         Streams, Neither, MustCreate
<1> QED BY <1>4, <1>5, <1>6, <1>7, <1>8, <1>9, <1>10, <1>11 DEF DiskInv

LEMMA CreateDisk ==
  ASSUME TypeOK, DiskInv, Create, Writer' = Writer
  PROVE  DiskInv'
<1>1. At("create") /\ StageFacts("create") BY AtStage DEF Create
<1>2. /\ pc # 0
      /\ Past("exists")
      /\ Past("open")
      /\ ~Past("close")
      /\ ~Past("open_label")
      /\ Writer = "PNG"
  BY <1>1 DEF StageFacts, LabelStages, Preparing, Filling, At
<1>3. Proceed =>
        /\ pc' # 0
        /\ Past("exists")'
        /\ Past("open")'
        /\ ~Past("close")'
        /\ ~Past("open_label")'
  BY <1>1, <1>2, GoesOn DEF Create
<1>4. Refused'
  BY <1>2, <1>3 DEF Create, Refused, DiskInv, Return, SomethingThere
<1>5. NotYetOurs'
  BY <1>2, <1>3 DEF Create, NotYetOurs, DiskInv, Return, Neither
<1>6. DataBeforeLabel'
  BY <1>2, <1>3 DEF Create, DataBeforeLabel, DiskInv, Return
<1>7. GIFsOwn'
  BY <1>2, <1>3 DEF Create, GIFsOwn, DiskInv, Return
<1>8. MissedByBMP'
  BY <1>2, <1>3 DEF Create, MissedByBMP, DiskInv, Return, Notices
<1>9. ExistingFilesKept'
  BY <1>2, <1>3
     DEF Create, ExistingFilesKept, DiskInv, Return, Refused, SomethingThere
<1>10. SuccessIsWhole'
  BY <1>2, <1>3
     DEF Create, SuccessIsWhole, DiskInv, Return, Returned, DataBeforeLabel,
         MissedByBMP, Finished
<1>11. FailureLeavesNothing'
  BY <1>2, <1>3
     DEF Create, FailureLeavesNothing, DiskInv, Return, Returned,
         NotYetOurs, Streams, Neither
<1> QED BY <1>4, <1>5, <1>6, <1>7, <1>8, <1>9, <1>10, <1>11 DEF DiskInv

LEMMA RowsDisk ==
  ASSUME TypeOK, DiskInv, Rows, Writer' = Writer
  PROVE  DiskInv'
<1>1. At("rows") /\ StageFacts("rows") BY AtStage DEF Rows
<1>2. /\ pc # 0
      /\ Past("exists")
      /\ Past("open")
      /\ ~Past("close")
      /\ ~Past("open_label")
      /\ Writer = "PNG"
  BY <1>1 DEF StageFacts, LabelStages, Preparing, Filling, At
<1>3. Proceed =>
        /\ pc' # 0
        /\ Past("exists")'
        /\ Past("open")'
        /\ ~Past("close")'
        /\ ~Past("open_label")'
  BY <1>1, <1>2, GoesOn DEF Rows
<1>4. Refused'
  BY <1>2, <1>3 DEF Rows, Refused, DiskInv, Return, SomethingThere
<1>5. NotYetOurs'
  BY <1>2, <1>3 DEF Rows, NotYetOurs, DiskInv, Return, Neither
<1>6. DataBeforeLabel'
  BY <1>2, <1>3 DEF Rows, DataBeforeLabel, DiskInv, Return
<1>7. GIFsOwn'
  BY <1>2, <1>3 DEF Rows, GIFsOwn, DiskInv, Return
<1>8. MissedByBMP'
  BY <1>2, <1>3 DEF Rows, MissedByBMP, DiskInv, Return, Notices
<1>9. ExistingFilesKept'
  BY <1>2, <1>3
     DEF Rows, ExistingFilesKept, DiskInv, Return, Refused, SomethingThere
<1>10. SuccessIsWhole'
  BY <1>2, <1>3
     DEF Rows, SuccessIsWhole, DiskInv, Return, Returned, DataBeforeLabel,
         MissedByBMP, Finished
<1>11. FailureLeavesNothing'
  BY <1>2, <1>3
     DEF Rows, FailureLeavesNothing, DiskInv, Return, Returned, NotYetOurs,
         Streams, Neither
<1> QED BY <1>4, <1>5, <1>6, <1>7, <1>8, <1>9, <1>10, <1>11 DEF DiskInv

LEMMA StripDisk ==
  ASSUME TypeOK, DiskInv, Strip, Writer' = Writer
  PROVE  DiskInv'
<1>1. At("strip") /\ StageFacts("strip") BY AtStage DEF Strip
<1>2. /\ pc # 0
      /\ Past("exists")
      /\ Past("open")
      /\ ~Past("close")
      /\ ~Past("open_label")
      /\ Writer = "TIFF"
  BY <1>1 DEF StageFacts, LabelStages, Preparing, Filling, At
<1>3. Proceed =>
        /\ pc' # 0
        /\ Past("exists")'
        /\ Past("open")'
        /\ ~Past("close")'
        /\ ~Past("open_label")'
  BY <1>1, <1>2, GoesOn DEF Strip
<1>4. Refused'
  BY <1>2, <1>3 DEF Strip, Refused, DiskInv, Return, SomethingThere
<1>5. NotYetOurs'
  BY <1>2, <1>3 DEF Strip, NotYetOurs, DiskInv, Return, Neither
<1>6. DataBeforeLabel'
  BY <1>2, <1>3 DEF Strip, DataBeforeLabel, DiskInv, Return
<1>7. GIFsOwn'
  BY <1>2, <1>3 DEF Strip, GIFsOwn, DiskInv, Return
<1>8. MissedByBMP'
  BY <1>2, <1>3 DEF Strip, MissedByBMP, DiskInv, Return, Notices
<1>9. ExistingFilesKept'
  BY <1>2, <1>3
     DEF Strip, ExistingFilesKept, DiskInv, Return, Refused, SomethingThere
<1>10. SuccessIsWhole'
  BY <1>2, <1>3
     DEF Strip, SuccessIsWhole, DiskInv, Return, Returned, DataBeforeLabel,
         MissedByBMP, Finished
<1>11. FailureLeavesNothing'
  BY <1>2, <1>3
     DEF Strip, FailureLeavesNothing, DiskInv, Return, Returned, NotYetOurs,
         Streams, Neither
<1> QED BY <1>4, <1>5, <1>6, <1>7, <1>8, <1>9, <1>10, <1>11 DEF DiskInv

LEMMA WriteDisk ==
  ASSUME TypeOK, DiskInv, Write, Writer' = Writer
  PROVE  DiskInv'
<1>1. At("write") /\ StageFacts("write") BY AtStage DEF Write
<1>2. /\ pc # 0
      /\ Past("exists")
      /\ Past("open")
      /\ ~Past("close")
      /\ ~Past("open_label")
  BY <1>1 DEF StageFacts, LabelStages, Preparing, Filling, At
<1>3. Proceed =>
        /\ pc' # 0
        /\ Past("exists")'
        /\ Past("open")'
        /\ ~Past("close")'
        /\ ~Past("open_label")'
  BY <1>1, <1>2, GoesOn DEF Write
<1>4. Refused'
  BY <1>2, <1>3
     DEF Write, Refused, DiskInv, Return, SomethingThere, Notices, Removes
<1>5. NotYetOurs'
  BY <1>2, <1>3
     DEF Write, NotYetOurs, DiskInv, Return, Neither, Notices, Removes
<1>6. DataBeforeLabel'
  BY <1>2, <1>3 DEF Write, DataBeforeLabel, DiskInv, Return, Notices, Removes
<1>7. GIFsOwn'
  BY <1>2, <1>3 DEF Write, GIFsOwn, DiskInv, Return, Notices, Removes
<1>8. MissedByBMP'
  BY <1>2, <1>3 DEF Write, MissedByBMP, DiskInv, Return, Notices, Removes
<1>9. ExistingFilesKept'
  BY <1>2, <1>3
     DEF Write, ExistingFilesKept, DiskInv, Return, Refused, SomethingThere,
         Notices, Removes
<1>10. SuccessIsWhole'
  BY <1>2, <1>3
     DEF Write, SuccessIsWhole, DiskInv, Return, Returned, DataBeforeLabel,
         MissedByBMP, Finished, Notices, Removes
<1>11. FailureLeavesNothing'
  BY <1>2, <1>3
     DEF Write, FailureLeavesNothing, DiskInv, Return, Returned, NotYetOurs,
         Streams, Neither, Notices, Removes
<1> QED BY <1>4, <1>5, <1>6, <1>7, <1>8, <1>9, <1>10, <1>11 DEF DiskInv

LEMMA CloseDisk ==
  ASSUME TypeOK, DiskInv, Close, Writer' = Writer
  PROVE  DiskInv'
<1>1. At("close") /\ StageFacts("close") BY AtStage DEF Close
<1>2. /\ pc # 0
      /\ Past("exists")
      /\ Past("open")
      /\ ~Past("close")
      /\ ~Past("open_label")
  BY <1>1 DEF StageFacts, LabelStages, Preparing, Filling, At
<1>3. Proceed /\ Writer = "ERS" =>
        /\ pc' # 0
        /\ Past("exists")'
        /\ Past("open")'
        /\ Past("close")'
        /\ ~Past("open_label")'
  BY <1>1, <1>2, GoesOn DEF Close
<1>4. Refused'
  BY <1>2, <1>3, WrittenIsFinished
     DEF Close, Refused, DiskInv, Return, SomethingThere
<1>5. NotYetOurs'
  BY <1>2, <1>3, WrittenIsFinished
     DEF Close, NotYetOurs, DiskInv, Return, Neither
<1>6. DataBeforeLabel'
  BY <1>2, <1>3, WrittenIsFinished
     DEF Close, DataBeforeLabel, DiskInv, Return, MissedByBMP
<1>7. GIFsOwn'
  BY <1>2, <1>3, WrittenIsFinished DEF Close, GIFsOwn, DiskInv, Return
<1>8. MissedByBMP'
  BY <1>2, <1>3, WrittenIsFinished
     DEF Close, MissedByBMP, DiskInv, Return, Notices
<1>9. ExistingFilesKept'
  BY <1>2, <1>3, WrittenIsFinished
     DEF Close, ExistingFilesKept, DiskInv, Return, Refused, SomethingThere
<1>10. SuccessIsWhole'
  BY <1>2, <1>3, WrittenIsFinished
     DEF Close, SuccessIsWhole, DiskInv, Return, Returned, DataBeforeLabel,
         MissedByBMP, Finished
<1>11. FailureLeavesNothing'
  BY <1>2, <1>3, WrittenIsFinished
     DEF Close, FailureLeavesNothing, DiskInv, Return, Returned, NotYetOurs,
         Streams, Neither
<1> QED BY <1>4, <1>5, <1>6, <1>7, <1>8, <1>9, <1>10, <1>11 DEF DiskInv

LEMMA OpenLabelDisk ==
  ASSUME TypeOK, DiskInv, OpenLabel, Writer' = Writer
  PROVE  DiskInv'
<1>1. At("open_label") /\ StageFacts("open_label") BY AtStage DEF OpenLabel
<1>2. /\ pc # 0
      /\ Past("exists")
      /\ Past("open")
      /\ Past("close")
      /\ ~Past("open_label")
      /\ Writer = "ERS"
  BY <1>1 DEF StageFacts, LabelStages, Preparing, Filling, At
<1>3. Proceed =>
        /\ pc' # 0
        /\ Past("exists")'
        /\ Past("open")'
        /\ Past("close")'
        /\ Past("open_label")'
  BY <1>1, <1>2, GoesOn DEF OpenLabel
<1>4. Refused'
  BY <1>2, <1>3
     DEF OpenLabel, Refused, DiskInv, Return, SomethingThere, NoLabel
<1>5. NotYetOurs'
  BY <1>2, <1>3 DEF OpenLabel, NotYetOurs, DiskInv, Return, Neither, NoLabel
<1>6. DataBeforeLabel'
  BY <1>2, <1>3 DEF OpenLabel, DataBeforeLabel, DiskInv, Return, NoLabel
<1>7. GIFsOwn'
  BY <1>2, <1>3 DEF OpenLabel, GIFsOwn, DiskInv, Return, NoLabel
<1>8. MissedByBMP'
  BY <1>2, <1>3 DEF OpenLabel, MissedByBMP, DiskInv, Return, Notices, NoLabel
<1>9. ExistingFilesKept'
  BY <1>2, <1>3
     DEF OpenLabel, ExistingFilesKept, DiskInv, Return, Refused,
         SomethingThere, NoLabel
<1>10. SuccessIsWhole'
  BY <1>2, <1>3
     DEF OpenLabel, SuccessIsWhole, DiskInv, Return, Returned,
         DataBeforeLabel, MissedByBMP, Finished, NoLabel
<1>11. FailureLeavesNothing'
  BY <1>2, <1>3
     DEF OpenLabel, FailureLeavesNothing, DiskInv, Return, Returned,
         NotYetOurs, Streams, Neither, NoLabel
<1> QED BY <1>4, <1>5, <1>6, <1>7, <1>8, <1>9, <1>10, <1>11 DEF DiskInv

LEMMA WriteLabelDisk ==
  ASSUME TypeOK, DiskInv, WriteLabel, Writer' = Writer
  PROVE  DiskInv'
<1>1. At("write_label") /\ StageFacts("write_label") BY AtStage DEF WriteLabel
<1>2. /\ pc # 0
      /\ Past("exists")
      /\ Past("open")
      /\ Past("close")
      /\ Past("open_label")
      /\ Writer = "ERS"
  BY <1>1 DEF StageFacts, LabelStages, Preparing, Filling, At
<1>3. Proceed =>
        /\ pc' # 0
        /\ Past("exists")'
        /\ Past("open")'
        /\ Past("close")'
        /\ Past("open_label")'
  BY <1>1, <1>2, GoesOn DEF WriteLabel
<1>4. Refused'
  BY <1>2, <1>3 DEF WriteLabel, Refused, DiskInv, Return, SomethingThere
<1>5. NotYetOurs'
  BY <1>2, <1>3 DEF WriteLabel, NotYetOurs, DiskInv, Return, Neither
<1>6. DataBeforeLabel'
  BY <1>2, <1>3 DEF WriteLabel, DataBeforeLabel, DiskInv, Return
<1>7. GIFsOwn'
  BY <1>2, <1>3 DEF WriteLabel, GIFsOwn, DiskInv, Return
<1>8. MissedByBMP'
  BY <1>2, <1>3 DEF WriteLabel, MissedByBMP, DiskInv, Return, Notices
<1>9. ExistingFilesKept'
  BY <1>2, <1>3
     DEF WriteLabel, ExistingFilesKept, DiskInv, Return, Refused,
         SomethingThere
<1>10. SuccessIsWhole'
  BY <1>2, <1>3
     DEF WriteLabel, SuccessIsWhole, DiskInv, Return, Returned,
         DataBeforeLabel, MissedByBMP, Finished
<1>11. FailureLeavesNothing'
  BY <1>2, <1>3
     DEF WriteLabel, FailureLeavesNothing, DiskInv, Return, Returned,
         NotYetOurs, Streams, Neither
<1> QED BY <1>4, <1>5, <1>6, <1>7, <1>8, <1>9, <1>10, <1>11 DEF DiskInv

LEMMA CloseLabelDisk ==
  ASSUME TypeOK, DiskInv, CloseLabel, Writer' = Writer
  PROVE  DiskInv'
<1>1. At("close_label") /\ StageFacts("close_label") BY AtStage DEF CloseLabel
<1>2. /\ pc # 0
      /\ Past("exists")
      /\ Past("open")
      /\ Past("close")
      /\ Past("open_label")
      /\ Writer = "ERS"
  BY <1>1 DEF StageFacts, LabelStages, Preparing, Filling, At
<1>3. pc' = 0 BY DEF CloseLabel, Return
<1>4. Refused'
  BY <1>2, <1>3 DEF CloseLabel, Refused, DiskInv, Return, SomethingThere
<1>5. NotYetOurs'
  BY <1>2, <1>3 DEF CloseLabel, NotYetOurs, DiskInv, Return, Neither
<1>6. DataBeforeLabel'
  BY <1>2, <1>3 DEF CloseLabel, DataBeforeLabel, DiskInv, Return
<1>7. GIFsOwn'
  BY <1>2, <1>3 DEF CloseLabel, GIFsOwn, DiskInv, Return
<1>8. MissedByBMP'
  BY <1>2, <1>3 DEF CloseLabel, MissedByBMP, DiskInv, Return, Notices
<1>9. ExistingFilesKept'
  BY <1>2, <1>3
     DEF CloseLabel, ExistingFilesKept, DiskInv, Return, Refused,
         SomethingThere
<1>10. SuccessIsWhole'
  BY <1>2, <1>3
     DEF CloseLabel, SuccessIsWhole, DiskInv, Return, Returned,
         DataBeforeLabel, MissedByBMP, Finished
<1>11. FailureLeavesNothing'
  BY <1>2, <1>3
     DEF CloseLabel, FailureLeavesNothing, DiskInv, Return, Returned,
         NotYetOurs, Streams, Neither
<1> QED BY <1>4, <1>5, <1>6, <1>7, <1>8, <1>9, <1>10, <1>11 DEF DiskInv


-----------------------------------------------------------------------------
(* What is held between the steps of a call.                               *)

\* There is a copy of the data from the moment it is needed to the end.
CopyMade == pc # 0 => ("copy" \in blocks <=> Converts /\ Past("convert"))

CopyOnly == Writer \notin {"PNG", "TIFF", "GIF"} => blocks \subseteq {"copy"}

HeldInv == CopyMade /\ CopyOnly /\ NothingKept /\ CallersDataKept

LEMMA InitHeld == Init => HeldInv
BY DEF Init, HeldInv, CopyMade, CopyOnly, NothingKept, CallersDataKept

LEMMA RequestHeld == ASSUME Request PROVE HeldInv'
<1>1. \A s : ~Past(s)' BY DEF Request, Past, Before
<1> QED BY <1>1 DEF Request, HeldInv, CopyMade, CopyOnly, NothingKept,
                    CallersDataKept, Returned

LEMMA IntrudeHeld == ASSUME TypeOK, HeldInv, Intrude PROVE HeldInv'
<1>1. \A s : Past(s)' <=> Past(s) BY DEF Intrude, Past, Before, Writer
<1> QED BY <1>1 DEF Intrude, HeldInv, CopyMade, CopyOnly, NothingKept,
                    CallersDataKept, Returned, Writer, Converts

LEMMA CheckExistsHeld ==
  ASSUME TypeOK, DiskInv, HeldInv, CheckExists, Writer' = Writer
  PROVE  HeldInv'
<1>1. At("exists") /\ StageFacts("exists") /\ CopyFacts("exists")
  BY AtStage, CopyAtStage DEF CheckExists
<1>2. /\ pc # 0
      /\ (Past("convert") => Writer = "JPEG")
      /\ (Writer = "JPEG" /\ Converts => Past("convert"))
  BY <1>1 DEF StageFacts, CopyFacts, LabelStages, At, Converts
<1>3. /\ Converts' <=> Converts
      /\ Proceed => pc' # 0 /\ (Past("convert")' <=> Past("convert"))
  BY <1>1, <1>2, GoesOn DEF CheckExists, Converts
<1>4. handle = "none"
  BY <1>1, <1>2 DEF StageFacts, Preparing, DiskInv, NotYetOurs
<1>5. CopyMade'
  BY <1>2, <1>3
     DEF CheckExists, HeldInv, CopyMade, CopyOnly, Return, Free, FreesData,
         ReleasedOnRefusal
<1>6. CopyOnly'
  BY <1>2, <1>3
     DEF CheckExists, HeldInv, CopyMade, CopyOnly, Return, Free, FreesData,
         ReleasedOnRefusal
<1>7. NothingKept'
  BY <1>1, <1>2, <1>3, <1>4
     DEF CheckExists, HeldInv, CopyMade, CopyOnly, Return, Free, FreesData,
         ReleasedOnRefusal, NothingKept, Returned, StageFacts
<1>8. CallersDataKept'
  BY <1>1, <1>2, <1>3
     DEF CheckExists, HeldInv, CopyMade, CopyOnly, Return, Free, FreesData,
         ReleasedOnRefusal, CallersDataKept, At
<1> QED BY <1>5, <1>6, <1>7, <1>8 DEF HeldInv

LEMMA CheckSuitsHeld ==
  ASSUME TypeOK, DiskInv, HeldInv, CheckSuits, Writer' = Writer
  PROVE  HeldInv'
<1>1. At("suits") /\ StageFacts("suits") /\ CopyFacts("suits")
  BY AtStage, CopyAtStage DEF CheckSuits
<1>2. /\ pc # 0
      /\ ~Past("convert")
  BY <1>1 DEF StageFacts, CopyFacts, LabelStages, At, Converts
<1>3. /\ Converts' <=> Converts
      /\ Proceed => pc' # 0 /\ (Past("convert")' <=> Past("convert"))
  BY <1>1, <1>2, GoesOn DEF CheckSuits, Converts
<1>4. Past("open") \/ handle = "none"
  BY <1>1, <1>2 DEF StageFacts, Preparing, DiskInv, NotYetOurs
<1>5. CopyMade'
  BY <1>2, <1>3 DEF CheckSuits, HeldInv, CopyMade, CopyOnly, Return
<1>6. CopyOnly'
  BY <1>2, <1>3 DEF CheckSuits, HeldInv, CopyMade, CopyOnly, Return
<1>7. NothingKept'
  BY <1>1, <1>2, <1>3, <1>4
     DEF CheckSuits, HeldInv, CopyMade, CopyOnly, Return, NothingKept,
         Returned, StageFacts
<1>8. CallersDataKept'
  BY <1>1, <1>2, <1>3
     DEF CheckSuits, HeldInv, CopyMade, CopyOnly, Return, CallersDataKept,
         At
<1> QED BY <1>5, <1>6, <1>7, <1>8 DEF HeldInv

LEMMA ConvertToBIPHeld ==
  ASSUME TypeOK, DiskInv, HeldInv, ConvertToBIP, Writer' = Writer
  PROVE  HeldInv'
<1>1. At("convert") /\ StageFacts("convert") /\ CopyFacts("convert")
  BY AtStage, CopyAtStage DEF ConvertToBIP
<1>2. /\ pc # 0
      /\ ~Past("convert")
  BY <1>1 DEF StageFacts, CopyFacts, LabelStages, At, Converts
<1>3. /\ Converts' <=> Converts
      /\ Proceed => pc' # 0 /\ Past("convert")'
  BY <1>1, <1>2, GoesOn DEF ConvertToBIP, Converts
<1>4. handle = "none"
  BY <1>1, <1>2 DEF StageFacts, Preparing, DiskInv, NotYetOurs
<1>5. CopyMade'
  BY <1>2, <1>3 DEF ConvertToBIP, HeldInv, CopyMade, CopyOnly, Return, WildOr
<1>6. CopyOnly'
  BY <1>2, <1>3 DEF ConvertToBIP, HeldInv, CopyMade, CopyOnly, Return, WildOr
<1>7. NothingKept'
  BY <1>1, <1>2, <1>3, <1>4
     DEF ConvertToBIP, HeldInv, CopyMade, CopyOnly, Return, WildOr,
         NothingKept, Returned, StageFacts
<1>8. CallersDataKept'
  BY <1>1, <1>2, <1>3
     DEF ConvertToBIP, HeldInv, CopyMade, CopyOnly, Return, WildOr,
         CallersDataKept, At
<1> QED BY <1>5, <1>6, <1>7, <1>8 DEF HeldInv

LEMMA QuantizeHeld ==
  ASSUME TypeOK, DiskInv, HeldInv, Quantize, Writer' = Writer
  PROVE  HeldInv'
<1>1. At("quantize") /\ StageFacts("quantize") /\ CopyFacts("quantize")
  BY AtStage, CopyAtStage DEF Quantize
<1>2. /\ pc # 0
      /\ (Converts => Past("convert"))
      /\ Writer = "GIF"
  BY <1>1 DEF StageFacts, CopyFacts, LabelStages, At, Converts
<1>3. /\ Converts' <=> Converts
      /\ Proceed => pc' # 0 /\ (Past("convert")' <=> Past("convert"))
  BY <1>1, <1>2, GoesOn DEF Quantize, Converts
<1>4. handle = "none"
  BY <1>1, <1>2 DEF StageFacts, Preparing, DiskInv, NotYetOurs
<1>5. CopyMade'
  BY <1>2, <1>3
     DEF Quantize, HeldInv, CopyMade, CopyOnly, Return, Free, FreesData
<1>6. CopyOnly'
  BY <1>2, <1>3
     DEF Quantize, HeldInv, CopyMade, CopyOnly, Return, Free, FreesData
<1>7. NothingKept'
  BY <1>1, <1>2, <1>3, <1>4
     DEF Quantize, HeldInv, CopyMade, CopyOnly, Return, Free, FreesData,
         NothingKept, Returned, StageFacts
<1>8. CallersDataKept'
  BY <1>1, <1>2, <1>3
     DEF Quantize, HeldInv, CopyMade, CopyOnly, Return, Free, FreesData,
         CallersDataKept, At
<1> QED BY <1>5, <1>6, <1>7, <1>8 DEF HeldInv

LEMMA OpenHeld ==
  ASSUME TypeOK, DiskInv, HeldInv, Open, Writer' = Writer
  PROVE  HeldInv'
<1>1. At("open") /\ StageFacts("open") /\ CopyFacts("open")
  BY AtStage, CopyAtStage DEF Open
<1>2. /\ pc # 0
      /\ (Converts => Past("convert"))
  BY <1>1 DEF StageFacts, CopyFacts, LabelStages, At, Converts
<1>3. /\ Converts' <=> Converts
      /\ Proceed => pc' # 0 /\ (Past("convert")' <=> Past("convert"))
  BY <1>1, <1>2, GoesOn DEF Open, Converts
<1>4. handle = "none"
  BY <1>1, <1>2 DEF StageFacts, Preparing, DiskInv, NotYetOurs
<1>5. CopyMade'
  BY <1>2, <1>3
     DEF Open, HeldInv, CopyMade, CopyOnly, Return, Free, FreesData, WildOr
<1>6. CopyOnly'
  BY <1>2, <1>3
     DEF Open, HeldInv, CopyMade, CopyOnly, Return, Free, FreesData, WildOr
<1>7. NothingKept'
  BY <1>1, <1>2, <1>3, <1>4
     DEF Open, HeldInv, CopyMade, CopyOnly, Return, Free, FreesData, WildOr,
         NothingKept, Returned, StageFacts
<1>8. CallersDataKept'
  BY <1>1, <1>2, <1>3
     DEF Open, HeldInv, CopyMade, CopyOnly, Return, Free, FreesData, WildOr,
         CallersDataKept, At
<1> QED BY <1>5, <1>6, <1>7, <1>8 DEF HeldInv

LEMMA CreateHeld ==
  ASSUME TypeOK, DiskInv, HeldInv, Create, Writer' = Writer
  PROVE  HeldInv'
<1>1. At("create") /\ StageFacts("create") /\ CopyFacts("create")
  BY AtStage, CopyAtStage DEF Create
<1>2. /\ pc # 0
      /\ (Converts => Past("convert"))
      /\ Writer = "PNG"
  BY <1>1 DEF StageFacts, CopyFacts, LabelStages, At, Converts
<1>3. /\ Converts' <=> Converts
      /\ Proceed => pc' # 0 /\ (Past("convert")' <=> Past("convert"))
  BY <1>1, <1>2, GoesOn DEF Create, Converts
<1>5. CopyMade'
  BY <1>2, <1>3
     DEF Create, HeldInv, CopyMade, CopyOnly, Return, Free, FreesData
<1>6. CopyOnly'
  BY <1>2, <1>3
     DEF Create, HeldInv, CopyMade, CopyOnly, Return, Free, FreesData
<1>7. NothingKept'
  BY <1>1, <1>2, <1>3
     DEF Create, HeldInv, CopyMade, CopyOnly, Return, Free, FreesData,
         NothingKept, Returned, StageFacts
<1>8. CallersDataKept'
  BY <1>1, <1>2, <1>3
     DEF Create, HeldInv, CopyMade, CopyOnly, Return, Free, FreesData,
         CallersDataKept, At
<1> QED BY <1>5, <1>6, <1>7, <1>8 DEF HeldInv

LEMMA RowsHeld ==
  ASSUME TypeOK, DiskInv, HeldInv, Rows, Writer' = Writer
  PROVE  HeldInv'
<1>1. At("rows") /\ StageFacts("rows") /\ CopyFacts("rows")
  BY AtStage, CopyAtStage DEF Rows
<1>2. /\ pc # 0
      /\ (Converts => Past("convert"))
      /\ Writer = "PNG"
  BY <1>1 DEF StageFacts, CopyFacts, LabelStages, At, Converts
<1>3. /\ Converts' <=> Converts
      /\ Proceed => pc' # 0 /\ (Past("convert")' <=> Past("convert"))
  BY <1>1, <1>2, GoesOn DEF Rows, Converts
<1>5. CopyMade'
  BY <1>2, <1>3 DEF Rows, HeldInv, CopyMade, CopyOnly, Return, Free, FreesData
<1>6. CopyOnly'
  BY <1>2, <1>3 DEF Rows, HeldInv, CopyMade, CopyOnly, Return, Free, FreesData
<1>7. NothingKept'
  BY <1>1, <1>2, <1>3
     DEF Rows, HeldInv, CopyMade, CopyOnly, Return, Free, FreesData,
         NothingKept, Returned, StageFacts
<1>8. CallersDataKept'
  BY <1>1, <1>2, <1>3
     DEF Rows, HeldInv, CopyMade, CopyOnly, Return, Free, FreesData,
         CallersDataKept, At
<1> QED BY <1>5, <1>6, <1>7, <1>8 DEF HeldInv

LEMMA StripHeld ==
  ASSUME TypeOK, DiskInv, HeldInv, Strip, Writer' = Writer
  PROVE  HeldInv'
<1>1. At("strip") /\ StageFacts("strip") /\ CopyFacts("strip")
  BY AtStage, CopyAtStage DEF Strip
<1>2. /\ pc # 0
      /\ Writer = "TIFF"
      /\ ~Converts
  BY <1>1 DEF StageFacts, CopyFacts, LabelStages, At, Converts
<1>3. /\ Converts' <=> Converts
      /\ Proceed => pc' # 0 /\ (Past("convert")' <=> Past("convert"))
  BY <1>1, <1>2, GoesOn DEF Strip, Converts
<1>5. CopyMade'
  BY <1>2, <1>3 DEF Strip, HeldInv, CopyMade, CopyOnly, Return
<1>6. CopyOnly'
  BY <1>2, <1>3 DEF Strip, HeldInv, CopyMade, CopyOnly, Return
<1>7. NothingKept'
  BY <1>1, <1>2, <1>3
     DEF Strip, HeldInv, CopyMade, CopyOnly, Return, NothingKept, Returned,
         StageFacts
<1>8. CallersDataKept'
  BY <1>1, <1>2, <1>3
     DEF Strip, HeldInv, CopyMade, CopyOnly, Return, CallersDataKept, At
<1> QED BY <1>5, <1>6, <1>7, <1>8 DEF HeldInv

LEMMA WriteHeld ==
  ASSUME TypeOK, DiskInv, HeldInv, Write, Writer' = Writer
  PROVE  HeldInv'
<1>1. At("write") /\ StageFacts("write") /\ CopyFacts("write")
  BY AtStage, CopyAtStage DEF Write
<1>2. /\ pc # 0
      /\ (Converts => Past("convert"))
  BY <1>1 DEF StageFacts, CopyFacts, LabelStages, At, Converts
<1>3. /\ Converts' <=> Converts
      /\ Proceed => pc' # 0 /\ (Past("convert")' <=> Past("convert"))
  BY <1>1, <1>2, GoesOn DEF Write, Converts
<1>5. CopyMade'
  BY <1>2, <1>3
     DEF Write, HeldInv, CopyMade, CopyOnly, Return, Free, FreesData,
         Notices
<1>6. CopyOnly'
  BY <1>2, <1>3
     DEF Write, HeldInv, CopyMade, CopyOnly, Return, Free, FreesData,
         Notices
<1>7. NothingKept'
  BY <1>1, <1>2, <1>3
     DEF Write, HeldInv, CopyMade, CopyOnly, Return, Free, FreesData,
         Notices, NothingKept, Returned, StageFacts
<1>8. CallersDataKept'
  BY <1>1, <1>2, <1>3
     DEF Write, HeldInv, CopyMade, CopyOnly, Return, Free, FreesData,
         Notices, CallersDataKept, At
<1> QED BY <1>5, <1>6, <1>7, <1>8 DEF HeldInv

LEMMA CloseHeld ==
  ASSUME TypeOK, DiskInv, HeldInv, Close, Writer' = Writer
  PROVE  HeldInv'
<1>1. At("close") /\ StageFacts("close") /\ CopyFacts("close")
  BY AtStage, CopyAtStage DEF Close
<1>2. /\ pc # 0
      /\ (Converts => Past("convert"))
  BY <1>1 DEF StageFacts, CopyFacts, LabelStages, At, Converts
<1>3. /\ Converts' <=> Converts
      /\ Proceed /\ Writer = "ERS" =>
           /\ pc' # 0
           /\ (Past("convert")' <=> Past("convert"))
  BY <1>1, <1>2, GoesOn DEF Close, Converts
<1>9. pc' # 0 => Writer = "ERS" /\ ~Converts
  BY DEF Close, Return, Converts
<1>5. CopyMade'
  BY <1>2, <1>3, <1>9
     DEF Close, HeldInv, CopyMade, CopyOnly, Return, Free, FreesData
<1>6. CopyOnly'
  BY <1>2, <1>3 DEF Close, HeldInv, CopyMade, CopyOnly, Return, Free, FreesData
<1>7. NothingKept'
  BY <1>1, <1>2, <1>3
     DEF Close, HeldInv, CopyMade, CopyOnly, Return, Free, FreesData,
         NothingKept, Returned, StageFacts
<1>8. CallersDataKept'
  BY <1>1, <1>2, <1>3
     DEF Close, HeldInv, CopyMade, CopyOnly, Return, Free, FreesData,
         CallersDataKept, At
<1> QED BY <1>5, <1>6, <1>7, <1>8 DEF HeldInv

LEMMA OpenLabelHeld ==
  ASSUME TypeOK, DiskInv, HeldInv, OpenLabel, Writer' = Writer
  PROVE  HeldInv'
<1>1. At("open_label") /\ StageFacts("open_label") /\ CopyFacts("open_label")
  BY AtStage, CopyAtStage DEF OpenLabel
<1>2. /\ pc # 0
      /\ Writer = "ERS"
      /\ ~Converts
  BY <1>1 DEF StageFacts, CopyFacts, LabelStages, At, Converts
<1>3. /\ Converts' <=> Converts
      /\ Proceed => pc' # 0 /\ (Past("convert")' <=> Past("convert"))
  BY <1>1, <1>2, GoesOn DEF OpenLabel, Converts
<1>4. handle = "none"
  BY <1>1, <1>2 DEF StageFacts, LabelStages, DiskInv, DataBeforeLabel
<1>5. CopyMade'
  BY <1>2, <1>3 DEF OpenLabel, HeldInv, CopyMade, CopyOnly, Return, NoLabel
<1>6. CopyOnly'
  BY <1>2, <1>3 DEF OpenLabel, HeldInv, CopyMade, CopyOnly, Return, NoLabel
<1>7. NothingKept'
  BY <1>1, <1>2, <1>3, <1>4
     DEF OpenLabel, HeldInv, CopyMade, CopyOnly, Return, NoLabel,
         NothingKept, Returned, StageFacts
<1>8. CallersDataKept'
  BY <1>1, <1>2, <1>3
     DEF OpenLabel, HeldInv, CopyMade, CopyOnly, Return, NoLabel,
         CallersDataKept, At
<1> QED BY <1>5, <1>6, <1>7, <1>8 DEF HeldInv

LEMMA WriteLabelHeld ==
  ASSUME TypeOK, DiskInv, HeldInv, WriteLabel, Writer' = Writer
  PROVE  HeldInv'
<1>1. At("write_label") /\ StageFacts("write_label") /\ CopyFacts("write_label")
  BY AtStage, CopyAtStage DEF WriteLabel
<1>2. /\ pc # 0
      /\ Writer = "ERS"
      /\ ~Converts
  BY <1>1 DEF StageFacts, CopyFacts, LabelStages, At, Converts
<1>3. /\ Converts' <=> Converts
      /\ Proceed => pc' # 0 /\ (Past("convert")' <=> Past("convert"))
  BY <1>1, <1>2, GoesOn DEF WriteLabel, Converts
<1>5. CopyMade'
  BY <1>2, <1>3 DEF WriteLabel, HeldInv, CopyMade, CopyOnly, Return
<1>6. CopyOnly'
  BY <1>2, <1>3 DEF WriteLabel, HeldInv, CopyMade, CopyOnly, Return
<1>7. NothingKept'
  BY <1>1, <1>2, <1>3
     DEF WriteLabel, HeldInv, CopyMade, CopyOnly, Return, NothingKept,
         Returned, StageFacts
<1>8. CallersDataKept'
  BY <1>1, <1>2, <1>3
     DEF WriteLabel, HeldInv, CopyMade, CopyOnly, Return, CallersDataKept,
         At
<1> QED BY <1>5, <1>6, <1>7, <1>8 DEF HeldInv

LEMMA CloseLabelHeld ==
  ASSUME TypeOK, DiskInv, HeldInv, CloseLabel, Writer' = Writer
  PROVE  HeldInv'
<1>1. At("close_label") /\ StageFacts("close_label") /\ CopyFacts("close_label")
  BY AtStage, CopyAtStage DEF CloseLabel
<1>2. /\ pc # 0
      /\ Writer = "ERS"
      /\ ~Converts
  BY <1>1 DEF StageFacts, CopyFacts, LabelStages, At, Converts
<1>3. pc' = 0 /\ (Converts' <=> Converts) BY DEF CloseLabel, Return, Converts
<1>5. CopyMade'
  BY <1>2, <1>3 DEF CloseLabel, HeldInv, CopyMade, CopyOnly, Return
<1>6. CopyOnly'
  BY <1>2, <1>3 DEF CloseLabel, HeldInv, CopyMade, CopyOnly, Return
<1>7. NothingKept'
  BY <1>1, <1>2, <1>3
     DEF CloseLabel, HeldInv, CopyMade, CopyOnly, Return, NothingKept,
         Returned, StageFacts
<1>8. CallersDataKept'
  BY <1>1, <1>2, <1>3
     DEF CloseLabel, HeldInv, CopyMade, CopyOnly, Return, CallersDataKept,
         At
<1> QED BY <1>5, <1>6, <1>7, <1>8 DEF HeldInv


-----------------------------------------------------------------------------
(* The theorems.                                                           *)

IInv == TypeOK /\ DiskInv /\ HeldInv

\* No step changes the call.
LEMMA SameWriter == ASSUME TypeOK, Step PROVE Writer' = Writer /\ call' = call
BY StepMoves DEF Step, CheckExists, CheckSuits, ConvertToBIP, Quantize, Open,
     Create, Rows, Strip, Write, Close, OpenLabel, WriteLabel, CloseLabel

LEMMA StepDisk == ASSUME TypeOK, DiskInv, Step PROVE DiskInv'
BY SameWriter, CheckExistsDisk, CheckSuitsDisk, ConvertToBIPDisk, QuantizeDisk,
   OpenDisk, CreateDisk, RowsDisk, StripDisk, WriteDisk, CloseDisk,
   OpenLabelDisk, WriteLabelDisk, CloseLabelDisk DEF Step

LEMMA StepHeld == ASSUME TypeOK, DiskInv, HeldInv, Step PROVE HeldInv'
BY SameWriter, CheckExistsHeld, CheckSuitsHeld, ConvertToBIPHeld, QuantizeHeld,
   OpenHeld, CreateHeld, RowsHeld, StripHeld, WriteHeld, CloseHeld,
   OpenLabelHeld, WriteLabelHeld, CloseLabelHeld DEF Step

LEMMA RequestTyped == ASSUME TypeOK, Request PROVE TypeOK'
<1>1. Len(StagesOf[Writer]) \in 4..8 BY WriterTyped, ThereAreStages
<1>2. Writer' = Writer /\ pc' \in 0..Len(StagesOf[Writer])
  BY <1>1 DEF Request, Writer
<1> QED BY <1>2 DEF Request, TypeOK, Older, FileStates

LEMMA IntrudeTyped == ASSUME TypeOK, Intrude PROVE TypeOK'
BY DEF Intrude, TypeOK, FileStates, Writer

LEMMA StutterKeeps == ASSUME IInv, UNCHANGED vars PROVE IInv'
<1>1. \A s : Past(s)' <=> Past(s) BY DEF vars, Past, Before, Writer
<1>2. TypeOK' BY DEF IInv, TypeOK, vars, Writer
<1>3. DiskInv'
  BY <1>1 DEF IInv, DiskInv, vars, Refused, NotYetOurs, DataBeforeLabel,
     GIFsOwn, MissedByBMP, ExistingFilesKept, SuccessIsWhole,
     FailureLeavesNothing, Returned, SomethingThere, Writer, Unsuitable,
     Known, OneOrThree
<1>4. HeldInv'
  BY <1>1 DEF IInv, HeldInv, vars, CopyMade, CopyOnly, NothingKept,
     CallersDataKept, Returned, Writer, Converts
<1> QED BY <1>2, <1>3, <1>4 DEF IInv

LEMMA Inductive == Spec => []IInv
<1>1. Init => IInv BY InitTyped, InitDisk, InitHeld DEF IInv
<1>2. IInv /\ [Next]_vars => IInv'
  <2> SUFFICES ASSUME IInv, [Next]_vars PROVE IInv' OBVIOUS
  <2>1. CASE Request
    BY <2>1, RequestTyped, RequestDisk, RequestHeld DEF IInv
  <2>2. CASE Step
    BY <2>2, StepTyped, StepDisk, StepHeld DEF IInv
  <2>3. CASE Intrude
    BY <2>3, IntrudeTyped, IntrudeDisk, IntrudeHeld DEF IInv
  <2>4. CASE UNCHANGED vars BY <2>4, StutterKeeps
  <2> QED BY <2>1, <2>2, <2>3, <2>4 DEF Next
<1> QED BY <1>1, <1>2, PTL DEF Spec

\* The variables keep their types, through any number of calls.
THEOREM WritersTypeCorrect == Spec => []TypeOK
<1>1. IInv => TypeOK BY DEF IInv
<1> QED BY <1>1, Inductive, PTL

\* Without force a file that was there when the call came is kept, whatever
\* fails and whoever meddles: what the access() checks of the writers are for.
THEOREM ExistingFilesAlwaysKept == Spec => []ExistingFilesKept
<1>1. IInv => ExistingFilesKept BY DEF IInv, DiskInv
<1> QED BY <1>1, Inductive, PTL

\* An answer of 1 means that all was written, the label of ERS included: each
\* writer's last tests of ferror(), for every sequence of calls.
THEOREM SuccessAlwaysWhole == Spec => []SuccessIsWhole
<1>1. IInv => SuccessIsWhole BY DEF IInv, DiskInv
<1> QED BY <1>1, Inductive, PTL

\* A stream that failed leaves no file of its own: the unlink() on every way
\* out after a failed write.
THEOREM FailureAlwaysLeavesNothing == Spec => []FailureLeavesNothing
<1>1. IInv => FailureLeavesNothing BY DEF IInv, DiskInv
<1> QED BY <1>1, Inductive, PTL

\* When a call returns, its blocks and its handle are released, on the early
\* returns too, but for the writers that NothingKept excepts.
THEOREM NothingEverKept == Spec => []NothingKept
<1>1. IInv => NothingKept BY DEF IInv, HeldInv
<1> QED BY <1>1, Inductive, PTL

\* No writer but BMP frees the caller's data: each decides anew at its free()
\* whether data is the copy that iom__ConvertToBIP made.
THEOREM CallersDataAlwaysKept == Spec => []CallersDataKept
<1>1. IInv => CallersDataKept BY DEF IInv, HeldInv
<1> QED BY <1>1, Inductive, PTL

\* The exclusive open of iom_WriteGIF leaves no window between check and use.
THEOREM GIFNeverReplaces == Spec => GIFReplacesNothing
<1> DEFINE Kept == target = "theirs" /\ target' # "theirs" /\ call' = call
                   => call.force \/ Writer # "GIF"
<1>1. IInv /\ [Next]_vars => [Kept]_vars
  <2> SUFFICES ASSUME IInv, Next, target = "theirs", target' # "theirs",
                      ~call.force, Writer = "GIF"
               PROVE  FALSE
    BY DEF Kept
  <2>1. ~Request /\ ~Intrude BY DEF Request, Older, Intrude
  <2>2. Step BY <2>1 DEF Next
  <2>3. \A s : At(s) => StageFacts(s) BY AtStage DEF IInv
  <2>4. pc # 0 /\ Past("open") => target = "part"
    BY DEF IInv, DiskInv, GIFsOwn
  <2>5. CASE CheckSuits BY <2>5 DEF CheckSuits
  <2>6. CASE Open BY <2>6 DEF Open, MustCreate
  <2>7. CASE Write BY <2>7 DEF Write, Removes, Streams
  <2>8. CASE Close
    BY <2>8, <2>3, <2>4 DEF Close, StageFacts, Filling, At
  <2>9. CASE OpenLabel \/ WriteLabel \/ CloseLabel
    BY <2>9, <2>3 DEF OpenLabel, WriteLabel, CloseLabel, StageFacts, LabelStages
  <2> QED BY <2>2, <2>5, <2>6, <2>7, <2>8, <2>9
          DEF Step, CheckExists, ConvertToBIP, Quantize, Create, Rows, Strip
<1> QED BY <1>1, Inductive, PTL DEF Spec, GIFReplacesNothing

-----------------------------------------------------------------------------
(* What is in a file.                                                      *)

\* The stages after a step that goes on.
LEMMA StepPast ==
  ASSUME TypeOK, Step, pc' # 0, NEW t
  PROVE  pc # 0 /\ (Past(t)' <=> Past(t) \/ At(t))
<1> DEFINE Goes(s) ==
             /\ At(s) /\ Proceed /\ UNCHANGED call
             /\ \/ s \notin {"close", "close_label"}
                \/ s = "close" /\ Writer = "ERS"
<1>1. \E s : Goes(s)
  <2> USE DEF Return
  <2>1. CASE CheckExists BY <2>1 DEF CheckExists
  <2>2. CASE CheckSuits BY <2>2 DEF CheckSuits
  <2>3. CASE ConvertToBIP BY <2>3 DEF ConvertToBIP
  <2>4. CASE Quantize BY <2>4 DEF Quantize
  <2>5. CASE Open BY <2>5 DEF Open
  <2>6. CASE Create BY <2>6 DEF Create
  <2>7. CASE Rows BY <2>7 DEF Rows
  <2>8. CASE Strip BY <2>8 DEF Strip
  <2>9. CASE Write BY <2>9 DEF Write
  <2>10. CASE Close BY <2>10 DEF Close
  <2>11. CASE OpenLabel BY <2>11 DEF OpenLabel, NoLabel
  <2>12. CASE WriteLabel BY <2>12 DEF WriteLabel
  <2>13. CASE CloseLabel BY <2>13 DEF CloseLabel
  <2> QED
    BY <2>1, <2>2, <2>3, <2>4, <2>5, <2>6, <2>7, <2>8, <2>9, <2>10, <2>11,
       <2>12, <2>13
       DEF Step
<1>2. PICK s : Goes(s)
  BY <1>1
<1>3. \A u : Past(u)' <=> Past(u) \/ s = u
  BY <1>2, GoesOn
<1> QED BY <1>2, <1>3 DEF At

\* A writer that looks at the header has, when it closes the file.
LEMMA SuitsBeforeClose ==
  ASSUME NEW w \in DOMAIN StagesOf, NEW i \in Places(w),
         StagesOf[w][i] = "close"
  PROVE  w \in {"IMath", "ENVI", "ISIS", "Raw"} \/ Before(w, i, "suits")
<1> USE DEF Before, Places
<1>1. CASE w \in {"Vicar", "GRD"}
  BY <1>1 DEF StagesOf, iom_WriteVicar, iom_WriteGRD
<1>2. CASE w \in {"ERS"}
  BY <1>2 DEF StagesOf, iom_WriteERS
<1>3. CASE w \in {"PNM"}
  BY <1>3 DEF StagesOf, iom_WritePNM
<1>4. CASE w \in {"JPEG"}
  BY <1>4 DEF StagesOf, iom_WriteJPEG
<1>5. CASE w \in {"PNG"}
  BY <1>5 DEF StagesOf, iom_WritePNG
<1>6. CASE w \in {"TIFF"}
  BY <1>6 DEF StagesOf, iom_WriteTIFF
<1>7. CASE w \in {"GIF"}
  BY <1>7 DEF StagesOf, iom_WriteGIF
<1>8. CASE w \in {"BMP"}
  BY <1>8 DEF StagesOf, iom_WriteBMP
<1> QED BY <1>1, <1>2, <1>3, <1>4, <1>5, <1>6, <1>7, <1>8 DEF StagesOf

\* What the writer refuses it does not write.
Suited == pc # 0 /\ Past("suits") => ~Unsuitable[Writer]

\* It has copied only what is in an order that it knows.
CopiesKnown == pc # 0 /\ Past("convert") /\ Converts => Known

FileInv == Suited /\ CopiesKnown /\ CubesReadBack

\* What is in the file is as CubesReadBack has it.
AsClaimed(t) ==
  /\ ~Faithful[Writer] => t = "garbled"
  /\ t = "garbled" => ~Faithful[Writer] \/ Writer = "GIF"
  /\ t = "padded" <=>
       Faithful[Writer] /\ call.item = "FLOAT" /\ Writer \in BeyondReal

\* The file that Written speaks of.
FileNow ==
  [writer |-> Writer, item |-> call.item, bands |-> call.bands,
   org |-> IF Known THEN call.org ELSE "BSQ", copied |-> Converts]

LEMMA FileNowTyped ==
  ASSUME TypeOK
  PROVE  /\ FileNow \in Files /\ CubeOf(FileNow) \in Cubes
         /\ CubeOf(FileNow).item = call.item
         /\ CubeOf(FileNow).dims[1] = Samples /\ CubeOf(FileNow).dims[2] = Lines
         /\ CubeOf(FileNow).dims[3] = call.bands
         /\ CubeOf(FileNow).org = FileNow.org
<1>1. /\ Writer \in DOMAIN StagesOf /\ call.item \in Items
      /\ call.bands \in Nat \ {0} /\ call.bands \in {c.bands : c \in Calls}
      /\ call.org \in Orders
  BY CallsAssumption DEF TypeOK, Writer
<1>2. FileNow.org \in Orders \ {"other"}
  BY <1>1 DEF FileNow, Known, Orders
<1>3. Converts \in BOOLEAN
  BY DEF Converts
<1>4. FileNow \in Files
  BY <1>1, <1>2, <1>3 DEF FileNow, Files
<1>5. CubeOf(FileNow) = [dims |-> <<Samples, Lines, call.bands>>,
                         item |-> call.item, org |-> FileNow.org]
  BY DEF CubeOf, FileNow
<1>6. <<Samples, Lines, call.bands>> \in Dims
  BY <1>1, ImageAssumption DEF Dims
<1>7. FileNow.org \in DOMAIN iom_orders /\ call.item \in DOMAIN Width
  BY <1>1, <1>2 DEF Orders, iom_orders, Items, Width
<1>8. CubeOf(FileNow) \in Cubes
  BY <1>5, <1>6, <1>7 DEF Cubes
<1> QED BY <1>4, <1>5, <1>8

\* The cubes of each writer, and what each refuses.
LEMMA FaithfulOf ==
  LET plain == call.item \in {"BYTE", "SHORT", "INT", "DOUBLE"}
  IN  /\ Faithful["Vicar"] <=> Known
      /\ Faithful["ENVI"] <=> Known /\ call.item # "LONG"
      /\ Faithful["ISIS"] <=> Known /\ plain
      /\ Faithful["ERS"] <=> Known /\ call.item # "LONG"
      /\ Faithful["Raw"] /\ Faithful["JPEG"]
      /\ Faithful["PNG"] <=> call.item = "BYTE"
      /\ Faithful["PNM"] <=> Known
      /\ Faithful["TIFF"] <=> Known
      /\ Faithful["GRD"] => Known
      /\ Faithful["IMath"] => Known
      /\ Faithful["GIF"] <=> call.item = "BYTE"
BY DEF Faithful

LEMMA RefusedBy ==
  /\ Unsuitable["Vicar"] <=> call.item = "LONG" \/ ~Known
  /\ Unsuitable["PNM"] <=>
       \/ call.item # "BYTE" \/ ~OneOrThree
       \/ call.bands = 3 /\ call.org # "BIP"
  /\ Unsuitable["JPEG"] <=> call.item # "BYTE" \/ ~OneOrThree
  /\ Unsuitable["PNG"] <=>
       ~Known \/ call.item \notin {"BYTE", "SHORT"} \/ ~OneOrThree
BY DEF Unsuitable

\* Of a cube that the writer took, in an order that it knew.
LEMMA FileAsClaimed ==
  ASSUME TypeOK, Converts => Known, Known \/ Writer = "Raw",
         Writer \in {"IMath", "ENVI", "ISIS", "Raw"} \/ ~Unsuitable[Writer]
  PROVE  ReadsBackWhen(Writer, CubeOf(FileNow), Converts, Faithful[Writer],
                       call.item = "FLOAT" /\ Writer \in BeyondReal)
<1> DEFINE cube == CubeOf(FileNow)
<1>1. /\ cube \in Cubes /\ cube.item = call.item /\ cube.dims[1] = Samples
      /\ cube.dims[2] = Lines /\ cube.dims[3] = call.bands
      /\ cube.org = FileNow.org
  BY FileNowTyped
<1>2. FileNow.org = IF Known THEN call.org ELSE "BSQ"
  BY DEF FileNow
<1>3. call.item \in Items /\ Converts \in BOOLEAN /\ Writer \in DOMAIN StagesOf
  BY CallsAssumption DEF TypeOK, Writer, Converts
<1> HIDE DEF cube
<1>4. CASE Writer \in {"Vicar", "ENVI", "ISIS", "ERS", "Raw"}
  <2>1. ReadsBackWhen(Writer, cube, Converts,
                      LabelledItem(Writer, cube.item) = cube.item,
                      cube.item = "FLOAT")
    BY <1>1, <1>4, OneWriteWhen
  <2>2. (LabelledItem(Writer, cube.item) = cube.item) <=> Faithful[Writer]
    <3>1. (LabelledItem(Writer, cube.item) = cube.item)
            <=> ~(\/ call.item = "LONG" /\ Writer \in {"ENVI", "ISIS", "ERS"}
                  \/ call.item = "FLOAT" /\ Writer = "ISIS")
      BY <1>1, <1>3 DEF LabelledItem, Items
    <3>2. CASE Writer = "Vicar"
      BY <3>1, <3>2, FaithfulOf
    <3>3. CASE Writer = "ENVI" \/ Writer = "ERS"
      BY <3>1, <3>3, FaithfulOf
    <3>4. CASE Writer = "ISIS"
      BY <1>3, <3>1, <3>4, FaithfulOf DEF Items
    <3>5. CASE Writer = "Raw"
      BY <3>1, <3>5, FaithfulOf
    <3> QED BY <1>4, <3>2, <3>3, <3>4, <3>5
  <2>3. Faithful[Writer] =>
          (cube.item = "FLOAT" <=> call.item = "FLOAT" /\ Writer \in BeyondReal)
    <3>1. CASE Writer = "ISIS"
      <4>1. Faithful[Writer] => call.item # "FLOAT"
        BY <3>1, FaithfulOf
      <4> QED BY <1>1, <4>1
    <3>2. CASE Writer # "ISIS"
      BY <1>1, <1>4, <3>2 DEF BeyondReal
    <3> QED BY <3>1, <3>2
  <2> QED BY <2>1, <2>2, <2>3 DEF ReadsBackWhen, cube
<1>5. CASE Writer \in {"PNM", "JPEG", "PNG", "GIF"}
  <2>1. Converts \/ cube.org = "BIP" \/ cube.dims[3] = 1
    BY <1>1, <1>2, <1>5 DEF Converts, Unsuitable, Known, OneOrThree
  <2>2. /\ Writer = "PNG" => call.item \in {"BYTE", "SHORT"}
        /\ Writer \in {"PNM", "JPEG"} => call.item = "BYTE"
    BY <1>5, RefusedBy
  <2>3. ReadsBackWhen(Writer, cube, Converts,
                      cube.item = "BYTE", FALSE)
    BY <1>1, <1>3, <1>5, <2>1, <2>2, PixelRowsWhen
  <2>4. cube.item = "BYTE" <=> Faithful[Writer]
    <3>1. CASE Writer = "PNM"
      <4>1. Known
        BY <1>5, <3>1
      <4> QED BY <1>1, <2>2, <3>1, <4>1, FaithfulOf
    <3>2. CASE Writer = "JPEG"
      BY <1>1, <2>2, <3>2, FaithfulOf
    <3>3. CASE Writer \in {"PNG", "GIF"}
      BY <1>1, <3>3, FaithfulOf
    <3> QED BY <1>5, <3>1, <3>2, <3>3
  <2>5. Writer \notin BeyondReal
    BY <1>5 DEF BeyondReal
  <2> QED BY <2>3, <2>4, <2>5 DEF ReadsBackWhen, cube
<1>6. CASE Writer = "TIFF"
  <2>1. ReadsBackWhen(Writer, cube, Converts, TRUE, FALSE)
    BY <1>1, <1>6, StripsWhen
  <2>2. Faithful[Writer] /\ Writer \notin BeyondReal
    BY <1>6 DEF Faithful, BeyondReal
  <2> QED BY <2>1, <2>2 DEF ReadsBackWhen, cube
<1>7. CASE Writer = "GRD"
  <2>1. call.bands = 1
    BY <1>7 DEF Unsuitable
  <2>2. ReadsBackWhen(Writer, cube, Converts,
                      HostIsBig /\ cube.item = "FLOAT", FALSE)
    BY <1>1, <1>7, <2>1, GridWhen
  <2>3. Faithful[Writer] <=> HostIsBig /\ cube.item = "FLOAT"
    BY <1>1, <1>7 DEF Faithful
  <2>4. Writer \notin BeyondReal
    BY <1>7 DEF BeyondReal
  <2> QED BY <2>2, <2>3, <2>4 DEF ReadsBackWhen, cube
<1>8. CASE Writer = "IMath"
  <2>1. ReadsBackWhen(Writer, cube, Converts,
                      HostIsBig /\ cube.item = "DOUBLE" /\ Single(cube), FALSE)
    BY <1>1, <1>8, MatrixWhen
  <2>2. Faithful[Writer] <=> HostIsBig /\ cube.item = "DOUBLE" /\ Single(cube)
    BY <1>1, <1>8 DEF Faithful, Single
  <2>3. Writer \notin BeyondReal
    BY <1>8 DEF BeyondReal
  <2> QED BY <2>1, <2>2, <2>3 DEF ReadsBackWhen, cube
<1>9. CASE Writer = "BMP"
  <2>1. Converts \/ cube.org = "BIP"
    BY <1>1, <1>2, <1>9 DEF Converts, Known
  <2>2. ReadsBackWhen(Writer, cube, Converts,
                      cube.item = "BYTE" /\ cube.dims[3] \in {1, 3}, FALSE)
    BY <1>1, <1>3, <1>9, <2>1, BottomUpWhen
  <2>3. (cube.item = "BYTE" /\ cube.dims[3] \in {1, 3}) <=> Faithful[Writer]
    BY <1>1, <1>9 DEF Faithful, OneOrThree
  <2>4. Writer \notin BeyondReal
    BY <1>9 DEF BeyondReal
  <2> QED BY <2>2, <2>3, <2>4 DEF ReadsBackWhen, cube
<1> QED BY <1>3, <1>4, <1>5, <1>6, <1>7, <1>8, <1>9 DEF StagesOf

\* What Close puts into the file.
LEMMA WrittenAsClaimed ==
  ASSUME TypeOK, HeldInv, FileInv, At("close")
  PROVE  AsClaimed(Written)
<1> DEFINE f == FileNow
           g == [writer |-> Writer, item |-> call.item, bands |-> call.bands,
                 org |-> IF Known THEN call.org ELSE "BSQ",
                 copied |-> "copy" \in blocks]
<1>1. CopyFacts("close") /\ pc # 0
  BY CopyAtStage DEF At
<1>2. Converts => Past("convert")
  BY <1>1 DEF CopyFacts
<1>3. "copy" \in blocks <=> Converts
  BY <1>1, <1>2 DEF HeldInv, CopyMade
<1>4. Converts => Known
  BY <1>1, <1>2 DEF FileInv, CopiesKnown
<1>5. Writer \in {"IMath", "ENVI", "ISIS", "Raw"} \/ ~Unsuitable[Writer]
  <2>1. pc \in Places(Writer) /\ Writer \in DOMAIN StagesOf
    BY <1>1, Here, WriterTyped
  <2>2. Writer \in {"IMath", "ENVI", "ISIS", "Raw"} \/ Past("suits")
    BY <2>1, SuitsBeforeClose DEF At, Past
  <2> QED BY <1>1, <2>2 DEF FileInv, Suited
<1>6. g = f
  <2>1. ("copy" \in blocks) = Converts
    <3>1. Converts \in BOOLEAN
      BY DEF Converts
    <3> QED BY <1>3, <3>1
  <2> QED BY <2>1 DEF FileNow
<1>7. Written = CASE ~Known /\ Writer # "Raw" -> "garbled"
                  [] Writer = "GIF" /\ "colormap" \notin blocks -> "garbled"
                  [] OTHER -> IF f \notin ReadableFiles THEN "garbled"
                              ELSE IF f \in LongerFiles THEN "padded"
                              ELSE "whole"
  BY <1>6 DEF Written
<1> HIDE DEF f, g
<1>8. CASE ~Known /\ Writer # "Raw"
  <2>1. Written = "garbled"
    BY <1>7, <1>8
  <2>2. Writer # "JPEG" /\ Writer # "PNG" /\ Writer # "BMP"
    <3>1. Writer = "JPEG" => Converts
      BY <1>8 DEF Known, Converts
    <3>2. Writer = "PNG" => Unsuitable["PNG"]
      BY <1>8, RefusedBy
    <3>3. Writer = "BMP" => Unsuitable["BMP"]
      BY <1>8 DEF Unsuitable
    <3> QED BY <1>4, <1>5, <1>8, <3>1, <3>2, <3>3
  <2>3. ~Faithful[Writer] \/ Writer = "GIF"
    <3>1. Writer \in {"Vicar", "ENVI", "ISIS", "ERS", "PNM"} => ~Faithful[Writer]
      BY <1>8, FaithfulOf
    <3>2. Writer \in {"TIFF", "GRD", "IMath"} => ~Faithful[Writer]
      BY <1>8, FaithfulOf
    <3> QED BY <1>8, <2>2, <3>1, <3>2, WriterTyped DEF StagesOf
  <2>4. Writer = "GIF" => Writer \notin BeyondReal
    BY DEF BeyondReal
  <2> QED BY <2>1, <2>3, <2>4 DEF AsClaimed
<1>9. CASE Writer = "GIF" /\ "colormap" \notin blocks
  <2>1. Written = "garbled"
    BY <1>7, <1>9
  <2>2. Writer \notin BeyondReal
    BY <1>9 DEF BeyondReal
  <2> QED BY <1>9, <2>1, <2>2 DEF AsClaimed
<1>10. CASE /\ Known \/ Writer = "Raw"
            /\ ~(Writer = "GIF" /\ "colormap" \notin blocks)
  <2> DEFINE beyond == call.item = "FLOAT" /\ Writer \in BeyondReal
             cube == CubeOf(f)
             file == FileBy(Writer, cube, Converts)
  <2>1. Written = IF f \notin ReadableFiles THEN "garbled"
                  ELSE IF f \in LongerFiles THEN "padded" ELSE "whole"
    BY <1>7, <1>10
  <2>2. ReadsBackWhen(Writer, cube, Converts, Faithful[Writer], beyond)
    BY <1>4, <1>5, <1>10, FileAsClaimed DEF f
  <2>3. FileFor(f) = file
    BY DEF FileFor, f, FileNow
  <2>4. f \in Files
    BY FileNowTyped DEF f
  <2>5. f \in ReadableFiles <=> ReadsBack(file, cube)
    BY <2>3, <2>4 DEF ReadableFiles
  <2>6. f \in LongerFiles <=> f \in ReadableFiles /\ ReachesBeyond(file)
    BY <2>3 DEF LongerFiles
  <2> HIDE DEF beyond, cube, file
  <2>7. f \in ReadableFiles <=> Faithful[Writer]
    BY <2>2, <2>5 DEF ReadsBackWhen, file
  <2>8. Faithful[Writer] => (f \in LongerFiles <=> beyond)
    BY <2>2, <2>6, <2>7 DEF ReadsBackWhen, file
  <2> QED BY <2>1, <2>7, <2>8 DEF AsClaimed, beyond
<1> QED BY <1>8, <1>9, <1>10

\* No step changes what is asked for.
LEMMA SameClaims ==
  ASSUME call' = call
  PROVE  /\ Writer' = Writer /\ Known' = Known /\ (Converts' <=> Converts)
         /\ Unsuitable' = Unsuitable /\ \A t : AsClaimed(t)' <=> AsClaimed(t)
<1>1. Writer' = Writer /\ Known' = Known /\ (Converts' <=> Converts)
  BY DEF Writer, Known, Converts
<1>2. Unsuitable' = Unsuitable
  BY DEF Unsuitable, OneOrThree, Known
<1>3. Faithful' = Faithful
  BY DEF Faithful, OneOrThree, Known
<1> QED BY <1>1, <1>2, <1>3 DEF AsClaimed

LEMMA StepFiles ==
  ASSUME TypeOK, HeldInv, FileInv, Step
  PROVE  FileInv'
<1>1. call' = call
  BY SameWriter
<1>2. Suited'
  <2> SUFFICES ASSUME pc' # 0, Past("suits")' PROVE ~Unsuitable[Writer]
    BY <1>1, SameClaims DEF Suited
  <2>1. pc # 0 /\ (Past("suits") \/ At("suits"))
    BY StepPast
  <2>2. CASE Past("suits")
    BY <2>1, <2>2 DEF FileInv, Suited
  <2>3. CASE At("suits")
    <3>1. CheckSuits
      BY <2>3 DEF Step, At, CheckExists, ConvertToBIP, Quantize, Open, Create,
                  Rows, Strip, Write, Close, OpenLabel, WriteLabel, CloseLabel
    <3> QED BY <3>1 DEF CheckSuits, Return
  <2> QED BY <2>1, <2>2, <2>3
<1>3. CopiesKnown'
  <2> SUFFICES ASSUME pc' # 0, Past("convert")', Converts PROVE Known
    BY <1>1, SameClaims DEF CopiesKnown
  <2>1. pc # 0 /\ (Past("convert") \/ At("convert"))
    BY StepPast
  <2>2. CASE Past("convert")
    BY <2>1, <2>2 DEF FileInv, CopiesKnown
  <2>3. CASE At("convert")
    <3>1. ConvertToBIP
      BY <2>3 DEF Step, At, CheckExists, CheckSuits, Quantize, Open, Create,
                  Rows, Strip, Write, Close, OpenLabel, WriteLabel, CloseLabel
    <3> QED BY <3>1 DEF ConvertToBIP, Return, Known
  <2> QED BY <2>1, <2>2, <2>3
<1>4. CubesReadBack'
  <2>1. target' \in Finished =>
          target' = target \/ (At("close") /\ target' = Written)
    BY DEF Step, CheckExists, CheckSuits, ConvertToBIP, Quantize, Open, Create,
           Rows, Strip, Write, Close, OpenLabel, NoLabel, WriteLabel,
           CloseLabel, Finished
  <2>2. \A t : AsClaimed(t)' <=> AsClaimed(t)
    BY <1>1, SameClaims
  <2>3. target \in Finished => AsClaimed(target)
    BY DEF FileInv, CubesReadBack, AsClaimed
  <2>4. At("close") => AsClaimed(Written)
    BY WrittenAsClaimed
  <2>5. target' \in Finished => AsClaimed(target')
    BY <2>1, <2>3, <2>4
  <2>6. Writer' = Writer /\ Faithful' = Faithful
    BY <1>1 DEF Writer, Faithful, OneOrThree, Known
  <2> QED BY <1>1, <2>5, <2>6 DEF CubesReadBack, AsClaimed, Finished
<1> QED BY <1>2, <1>3, <1>4 DEF FileInv

LEMMA InitFiles == Init => FileInv
BY DEF Init, FileInv, Suited, CopiesKnown, CubesReadBack, Finished

LEMMA RequestFiles == ASSUME Request PROVE FileInv'
<1>1. \A s : ~Past(s)'
  BY DEF Request, Past, Before
<1>2. target' \notin Finished
  BY DEF Request, Older, Finished
<1> QED BY <1>1, <1>2 DEF FileInv, Suited, CopiesKnown, CubesReadBack, Finished

LEMMA OtherFiles ==
  ASSUME FileInv, Intrude \/ UNCHANGED vars
  PROVE  FileInv'
<1>1. call' = call /\ pc' = pc
  BY DEF Intrude, vars
<1>2. \A s : Past(s)' <=> Past(s)
  BY <1>1 DEF Past, Before, Writer
<1>3. target' = target \/ target' \notin Finished
  BY DEF Intrude, vars, Finished
<1>4. Writer' = Writer /\ Faithful' = Faithful
  BY <1>1 DEF Writer, Faithful, OneOrThree, Known
<1>5. Suited' /\ CopiesKnown'
  BY <1>1, <1>2, SameClaims DEF FileInv, Suited, CopiesKnown
<1>6. CubesReadBack'
  BY <1>1, <1>3, <1>4 DEF FileInv, CubesReadBack, Finished
<1> QED BY <1>5, <1>6 DEF FileInv

LEMMA FilesInductive == Spec => []FileInv
<1>1. Init => FileInv
  BY InitFiles
<1>2. IInv /\ FileInv /\ [Next]_vars => FileInv'
  BY StepFiles, RequestFiles, OtherFiles DEF IInv, Next
<1> QED BY <1>1, <1>2, Inductive, PTL DEF Spec

\* Which cubes read back, for every writer, every kind of item and order, and
\* images of every size: exactly those of the faithful writers.  And the five
\* bytes of iom_NBYTESI go beyond the caller's data exactly in the writers that
\* write a block by it.
THEOREM CubesReadBackExactly == Spec => []CubesReadBack
<1>1. FileInv => CubesReadBack
  BY DEF FileInv
<1> QED BY <1>1, FilesInductive, PTL

\* BMP files of every kind are read from where their pixels are.
THEOREM BMPFilesAlwaysRead == Spec => []BMPFilesRead
<1>1. KindsReadInPlace
  BY BMPFilesAssumption, EveryKindReadInPlace DEF KindsReadInPlace
<1>2. BMPFilesRead
  BY <1>1 DEF BMPFilesRead
<1> QED BY <1>2, PTL

=============================================================================
