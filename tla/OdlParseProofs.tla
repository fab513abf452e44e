--------------------------- MODULE OdlParseProofs ---------------------------
(***************************************************************************)
(* Proofs about the parser, for every set of lines and files of any        *)
(* length.                                                                 *)
(***************************************************************************)
EXTENDS OdlParse, FiniteSetTheorems, TLAPS

-----------------------------------------------------------------------------
(* Types.  TypeOK in two parts: what is read, and the tree. *)

ReadingOK ==
  /\ pc \in {"open", "read", "check", "close", "done"}
  /\ call \in Calls
  /\ open_files \subseteq {"label", "message"}
  /\ file \in Seq(Lines)
  /\ text \in Seq(AllLines)
  /\ equals_found \in BOOLEAN /\ val_found \in BOOLEAN /\ end_found \in BOOLEAN
  /\ messages \subseteq {"extra", "not enough", "no END"}

Objects(n) ==
  /\ DOMAIN objects \subseteq 0..n
  /\ \A m \in DOMAIN objects :
       objects[m] \in [parent : Nat \cup {NULL}, child_count : Nat]
Keywords(n) ==
  /\ DOMAIN keywords \subseteq 1..n
  /\ \A m \in DOMAIN keywords : keywords[m] \in DOMAIN objects

TreeOK ==
  /\ line_number \in Nat
  /\ Objects(line_number)
  /\ Keywords(line_number)
  /\ closed \subseteq 1..line_number
  /\ root \in {ROOT, NULL}
  /\ pc \in {"read", "check"} => curr_object \in DOMAIN objects

LEMMA TypeParts == TypeOK <=> ReadingOK /\ TreeOK
  BY DEF TypeOK, ReadingOK, TreeOK, Objects, Keywords

\* The line a statement ends in is a new name.
LEMMA NewName ==
  ASSUME NEW n \in Nat
  PROVE  /\ n + 1 \in Nat /\ n + 1 > n /\ n + 1 # 0
         /\ 0..n \subseteq 0..(n + 1) /\ n + 1 \in 0..(n + 1)
         /\ 1..n \subseteq 1..(n + 1) /\ n + 1 \in 1..(n + 1)
         /\ n + 1 \notin 0..n /\ n + 1 \notin 1..n
  OBVIOUS

LEMMA Longer ==
  ASSUME NEW S, NEW s \in Seq(S), NEW e \in S
  PROVE  Append(s, e) \in Seq(S)
  OBVIOUS

LEMMA Empty == ASSUME NEW S PROVE <<>> \in Seq(S)
  OBVIOUS

\* A line without its comment is a line.
LEMMA RemoveCommentType ==
  ASSUME NEW line \in Lines
  PROVE  RemoveComment(line) \in AllLines
  BY LinesAssumption DEF RemoveComment, AllLines

LEMMA FlagsType ==
  ASSUME NEW line, ReadingOK
  PROVE  EqualsFound(line) \in BOOLEAN /\ ValFound(line) \in BOOLEAN
  BY DEF ReadingOK, EqualsFound, ValFound, HasEquals, EndsInEquals

\* What every turn of the loop does to the file and its position.
LEMMA NextLineType ==
  ASSUME ReadingOK, TreeOK, NEW line \in Lines, NextLine(line)
  PROVE  /\ pc = "read" /\ file' \in Seq(Lines)
         /\ line_number' = line_number + 1
         /\ Gathered(line) \in Seq(AllLines)
         /\ call' = call /\ open_files' = open_files /\ root' = root
  <1>1. file' \in Seq(Lines)
    <2>1. file \in Seq(Lines)
      BY DEF ReadingOK
    <2>2. QED
      BY <2>1, Longer DEF NextLine
  <1>2. Gathered(line) \in Seq(AllLines)
    <2>1. text \in Seq(AllLines)
      BY DEF ReadingOK
    <2>2. QED
      BY <2>1, RemoveCommentType, Longer DEF Gathered
  <1>3. QED
    BY <1>1, <1>2 DEF NextLine

\* A turn that leaves the tree alone keeps its type: the names stay old.
LEMMA SameTree ==
  ASSUME TreeOK, line_number' = line_number \/ line_number' = line_number + 1,
         UNCHANGED <<objects, keywords, closed, curr_object>>,
         root' \in {ROOT, NULL},
         pc' \in {"read", "check"} => pc \in {"read", "check"}
  PROVE  TreeOK'
  <1>1. line_number' \in Nat /\ 0..line_number \subseteq 0..line_number'
          /\ 1..line_number \subseteq 1..line_number'
    BY NewName DEF TreeOK
  <1>2. Objects(line_number)' /\ Keywords(line_number)' /\ (closed \subseteq 1..line_number)'
    BY <1>1 DEF TreeOK, Objects, Keywords
  <1>3. QED
    BY <1>1, <1>2 DEF TreeOK

LEMMA ReadingTurn ==
  ASSUME ReadingOK, TreeOK, NEW line \in Lines, NextLine(line),
         text' \in {text, Gathered(line), <<>>},
         equals_found' \in BOOLEAN, val_found' \in BOOLEAN, end_found' \in BOOLEAN,
         messages' \in {messages, messages \cup {"extra"}}, pc' \in {pc, "check"}
  PROVE  ReadingOK'
  <1>1. text' \in Seq(AllLines)
    <2>1. text \in Seq(AllLines)
      BY DEF ReadingOK
    <2>2. Gathered(line) \in Seq(AllLines)
      BY NextLineType
    <2>3. QED
      BY <2>1, <2>2, Empty
  <1>2. messages' \subseteq {"extra", "not enough", "no END"}
    BY DEF ReadingOK
  <1>3. QED
    BY <1>1, <1>2, NextLineType DEF ReadingOK

LEMMA StatementFlags ==
  ASSUME NEW line, Statement(line)
  PROVE  /\ NextLine(line) /\ text' = <<>>
         /\ equals_found' \in BOOLEAN /\ val_found' \in BOOLEAN
  BY DEF Statement, Significant

\* The lines that start and end objects.
LEMMA NewObjectTree ==
  ASSUME ReadingOK, TreeOK, NEW line \in Lines, NewObject(line)
  PROVE  TreeOK'
  <1>1. pc = "read" /\ line_number' = line_number + 1 /\ root' = root
          /\ line_number \in Nat /\ curr_object \in DOMAIN objects
    BY NextLineType, StatementFlags DEF NewObject, TreeOK
  <1>2. /\ DOMAIN objects' = DOMAIN objects \cup {line_number'}
        /\ DOMAIN objects' \subseteq 0..line_number'
    BY <1>1, NewName DEF NewObject, TreeOK, Objects
  <1>3. \A m \in DOMAIN objects' :
          objects'[m] \in [parent : Nat \cup {NULL}, child_count : Nat]
    <2>1. curr_object \in Nat
      BY <1>1 DEF TreeOK, Objects
    <2>2. TAKE m \in DOMAIN objects'
    <2>3. CASE m = line_number'
      BY <2>1, <2>3, <1>2 DEF NewObject
    <2>4. CASE m # line_number' /\ m = curr_object
      <3>1. objects[m] \in [parent : Nat \cup {NULL}, child_count : Nat]
        BY <1>1, <2>4 DEF TreeOK, Objects
      <3>2. objects'[m] = [objects[m] EXCEPT !.child_count = @ + 1]
        BY <2>4, <1>2 DEF NewObject
      <3>3. QED
        BY <3>1, <3>2
    <2>5. CASE m # line_number' /\ m # curr_object
      BY <2>5, <1>2 DEF NewObject, TreeOK, Objects
    <2>6. QED
      BY <2>3, <2>4, <2>5
  <1>4. (closed \subseteq 1..line_number)' /\ Keywords(line_number)'
    BY <1>1, <1>2, NewName DEF NewObject, TreeOK, Keywords
  <1>5. (curr_object \in DOMAIN objects)'
    BY <1>2 DEF NewObject
  <1>6. QED
    BY <1>1, <1>2, <1>3, <1>4, <1>5, NewName DEF TreeOK, Objects

LEMMA EndObjectTree ==
  ASSUME ReadingOK, TreeOK, ParentsComeFirst, NEW line \in Lines, EndObject(line)
  PROVE  TreeOK'
  <1>1. pc = "read" /\ line_number' = line_number + 1 /\ root' = root
          /\ line_number \in Nat /\ curr_object \in DOMAIN objects
    BY NextLineType, StatementFlags DEF EndObject, TreeOK
  <1>2. objects' = objects /\ keywords' = keywords
          /\ closed' = closed \cup {line_number'}
    BY DEF EndObject
  <1>3. curr_object' \in DOMAIN objects
    <2>1. CASE objects[curr_object].parent # NULL
      BY <1>1, <2>1 DEF ParentsComeFirst, EndObject
    <2>2. CASE objects[curr_object].parent = NULL
      BY <1>1, <2>2 DEF EndObject
    <2>3. QED
      BY <2>1, <2>2
  <1>4. (closed \subseteq 1..line_number)'
    BY <1>1, <1>2, NewName DEF TreeOK
  <1>5. Objects(line_number)' /\ Keywords(line_number)'
    BY <1>1, <1>2, NewName DEF TreeOK, Objects, Keywords
  <1>6. QED
    BY <1>1, <1>2, <1>3, <1>4, <1>5, NewName DEF TreeOK

LEMMA NewKeywordTree ==
  ASSUME ReadingOK, TreeOK, NEW line \in Lines, NewKeyword(line)
  PROVE  TreeOK'
  <1>1. pc = "read" /\ line_number' = line_number + 1 /\ root' = root
          /\ line_number \in Nat /\ curr_object \in DOMAIN objects
    BY NextLineType, StatementFlags DEF NewKeyword, TreeOK
  <1>2. UNCHANGED <<objects, closed, curr_object>>
    BY DEF NewKeyword
  <1>3. /\ DOMAIN keywords' = DOMAIN keywords \cup {line_number'}
        /\ \A m \in DOMAIN keywords' : keywords'[m] \in DOMAIN objects
    BY <1>1 DEF NewKeyword, TreeOK, Keywords
  <1>4. Keywords(line_number)'
    BY <1>1, <1>2, <1>3, NewName DEF TreeOK, Keywords
  <1>5. Objects(line_number)' /\ (closed \subseteq 1..line_number)'
    BY <1>1, <1>2, NewName DEF TreeOK, Objects
  <1>6. QED
    BY <1>1, <1>2, <1>4, <1>5, NewName DEF TreeOK

\* Before the files are opened there is nothing.
Fresh ==
  pc = "open" =>
    /\ line_number = 0 /\ objects = <<>> /\ keywords = <<>> /\ closed = {}
    /\ root = NULL /\ messages = {}
    /\ open_files = IF call.label = "passed" THEN {"label"} ELSE {}

LEMMA OpenFilesType ==
  ASSUME ReadingOK, TreeOK, Fresh, OpenFiles
  PROVE  ReadingOK' /\ TreeOK'
  <1>1. ReadingOK'
    BY DEF ReadingOK, OpenFiles, reading
  <1>2. CASE call.label = "unreadable"
    <2>1. UNCHANGED <<objects, keywords, closed, curr_object, root, line_number>>
      BY <1>2 DEF OpenFiles, reading
    <2>2. pc' \notin {"read", "check"}
      BY <1>2 DEF OpenFiles
    <2>3. QED
      BY <1>1, <2>1, <2>2, SameTree DEF TreeOK
  <1>3. CASE call.label # "unreadable"
    <2>1. /\ objects' = [n \in {0} |-> [parent |-> NULL, child_count |-> 0]]
          /\ curr_object' = 0 /\ root' = ROOT
          /\ UNCHANGED <<keywords, closed, line_number>>
      BY <1>3 DEF OpenFiles, reading, ROOT
    <2>2. pc = "open"
      BY DEF OpenFiles
    <2>3. keywords = <<>> /\ line_number = 0 /\ closed = {}
      BY <2>2 DEF Fresh
    <2>4. Keywords(line_number)'
      BY <2>1, <2>3 DEF Keywords
    <2>5. Objects(line_number)'
      BY <2>1, <2>3 DEF Objects
    <2>6. QED
      BY <1>1, <2>1, <2>3, <2>4, <2>5 DEF TreeOK
  <1>4. QED
    BY <1>2, <1>3

LEMMA CheckEndType ==
  ASSUME ReadingOK, TreeOK, CheckEnd
  PROVE  ReadingOK' /\ TreeOK'
  <1>1. ReadingOK'
    BY DEF ReadingOK, CheckEnd, reading
  <1>2. /\ pc' = "close" /\ root' \in {ROOT, NULL}
        /\ UNCHANGED <<line_number, closed, keywords, curr_object>>
        /\ objects' = IF line_number = 0 THEN <<>> ELSE objects
    BY DEF CheckEnd, reading, TreeOK
  <1>3. CASE line_number = 0
    <2>a. DOMAIN keywords \subseteq 1..0
      BY <1>3 DEF TreeOK, Keywords
    <2>b. \A m : m \notin DOMAIN keywords
      BY <2>a
    <2>c. objects' = <<>>
      BY <1>2, <1>3
    <2>1. DOMAIN keywords = {} /\ DOMAIN objects' = {}
      BY <2>b, <2>c, DOMAIN <<>> = {}
    <2>2. Keywords(line_number)' /\ Objects(line_number)'
      BY <2>1, <1>2 DEF Keywords, Objects
    <2>3. QED
      BY <1>1, <1>2, <2>2 DEF TreeOK
  <1>4. CASE line_number # 0
    BY <1>1, <1>2, <1>4, SameTree
  <1>5. QED
    BY <1>3, <1>4

\* Every step keeps the types, given the two invariants it relies on.
LEMMA TypeStep ==
  ASSUME ReadingOK, TreeOK, ParentsComeFirst, Fresh, [Next]_vars
  PROVE  ReadingOK' /\ TreeOK'
  <1>1. CASE OpenFiles
    BY <1>1, OpenFilesType
  <1>2. ASSUME NEW line \in Lines, ReadLine(line)
        PROVE  ReadingOK' /\ TreeOK'
    <2>1. CASE SkipSFDU(line)
      <3>1. NextLine(line) /\ UNCHANGED <<pc, text, equals_found, val_found, end_found, tree, messages>>
        BY <2>1 DEF SkipSFDU
      <3>2. QED
        BY <3>1, ReadingTurn, SameTree, NextLineType DEF tree, ReadingOK, TreeOK
    <2>2. CASE SkipBlank(line)
      <3>1. NextLine(line) /\ UNCHANGED <<pc, text, equals_found, val_found, end_found, tree, messages>>
        BY <2>2 DEF SkipBlank
      <3>2. QED
        BY <3>1, ReadingTurn, SameTree, NextLineType DEF tree, ReadingOK, TreeOK
    <2>3. CASE FoundEnd(line)
      <3>1. /\ NextLine(line) /\ UNCHANGED <<equals_found, val_found, tree, messages>>
            /\ text' = Gathered(line) /\ end_found' = TRUE /\ pc' = "check"
        BY <2>3 DEF FoundEnd, Significant
      <3>2. QED
        BY <3>1, ReadingTurn, SameTree, NextLineType DEF tree, ReadingOK, TreeOK
    <2>4. CASE KeepGathering(line)
      <3>1. /\ NextLine(line) /\ UNCHANGED <<pc, end_found, tree, messages>>
            /\ text' = Gathered(line)
            /\ equals_found' = EqualsFound(line) /\ val_found' = ValFound(line)
        BY <2>4 DEF KeepGathering, Significant
      <3>2. QED
        BY <3>1, FlagsType, ReadingTurn, SameTree, NextLineType DEF tree, ReadingOK, TreeOK
    <2>5. CASE NewObject(line)
      <3>1. Statement(line) /\ UNCHANGED <<pc, end_found, messages>>
        BY <2>5 DEF NewObject
      <3>2. QED
        BY <3>1, <2>5, StatementFlags, ReadingTurn, NewObjectTree DEF ReadingOK
    <2>6. CASE EndObject(line)
      <3>1. /\ Statement(line) /\ UNCHANGED <<pc, end_found>>
            /\ messages' \in {messages, messages \cup {"extra"}}
        BY <2>6 DEF EndObject
      <3>2. QED
        BY <3>1, <2>6, StatementFlags, ReadingTurn, EndObjectTree DEF ReadingOK
    <2>7. CASE EndStatement(line)
      <3>1. /\ Statement(line) /\ end_found' = TRUE /\ pc' = "check"
            /\ UNCHANGED <<curr_object, objects, keywords, closed, messages>>
        BY <2>7 DEF EndStatement
      <3>2. QED
        BY <3>1, StatementFlags, ReadingTurn, SameTree, NextLineType DEF TreeOK
    <2>8. CASE NewKeyword(line)
      <3>1. Statement(line) /\ UNCHANGED <<pc, end_found, messages>>
        BY <2>8 DEF NewKeyword
      <3>2. QED
        BY <3>1, <2>8, StatementFlags, ReadingTurn, NewKeywordTree DEF ReadingOK
    <2>9. QED
      BY <1>2, <2>1, <2>2, <2>3, <2>4, <2>5, <2>6, <2>7, <2>8 DEF ReadLine
  <1>3. CASE LinesEnd
    <2>1. ReadingOK'
      BY <1>3 DEF LinesEnd, reading, ReadingOK
    <2>2. pc = "read" /\ UNCHANGED <<tree, line_number>>
      BY <1>3 DEF LinesEnd, reading
    <2>3. QED
      BY <2>1, <2>2, SameTree DEF tree, TreeOK
  <1>4. CASE CheckEnd
    BY <1>4, CheckEndType
  <1>5. CASE CloseFiles
    <2>1. ReadingOK'
      BY <1>5, Empty DEF CloseFiles, ReadingOK
    <2>2. pc' = "done" /\ UNCHANGED <<tree, line_number>>
      BY <1>5 DEF CloseFiles
    <2>3. QED
      BY <2>1, <2>2, SameTree DEF tree, TreeOK
  <1>6. CASE UNCHANGED vars
    <2>1. ReadingOK'
      BY <1>6 DEF vars, reading, ReadingOK
    <2>2. UNCHANGED <<tree, line_number, pc>>
      BY <1>6 DEF vars, reading
    <2>3. QED
      BY <2>1, <2>2, SameTree DEF tree, TreeOK
  <1>7. QED
    BY <1>1, <1>2, <1>3, <1>4, <1>5, <1>6 DEF Next

-----------------------------------------------------------------------------
(* The tree: parents before children, and the root where it is needed. *)

RootThere == pc \in {"read", "check"} => ROOT \in DOMAIN objects

LEMMA ParentsStep ==
  ASSUME ReadingOK, TreeOK, ParentsComeFirst, RootThere, Fresh, [Next]_vars
  PROVE  ParentsComeFirst' /\ RootThere'
  <1>1. ASSUME UNCHANGED objects, pc' \in {"read", "check"} => pc \in {"read", "check"}
        PROVE  ParentsComeFirst' /\ RootThere'
    BY <1>1 DEF ParentsComeFirst, RootThere
  <1>2. CASE OpenFiles
    <2>1. CASE call.label = "unreadable"
      BY <2>1, <1>1, <1>2 DEF OpenFiles
    <2>2. CASE call.label # "unreadable"
      BY <2>2, <1>2 DEF OpenFiles, ParentsComeFirst, RootThere, ROOT
    <2>3. QED
      BY <2>1, <2>2
  <1>3. ASSUME NEW line \in Lines, NewObject(line)
        PROVE  ParentsComeFirst' /\ RootThere'
    <2>1. pc = "read" /\ line_number' = line_number + 1 /\ pc' = pc
            /\ line_number \in Nat /\ curr_object \in DOMAIN objects
      BY <1>3, NextLineType, StatementFlags DEF NewObject, TreeOK
    <2>2. DOMAIN objects' = DOMAIN objects \cup {line_number'}
            /\ line_number' \notin DOMAIN objects /\ line_number' # ROOT
            /\ curr_object < line_number'
      BY <2>1, <1>3 DEF NewObject, TreeOK, Objects, ROOT
    <2>3. \A m \in DOMAIN objects : objects'[m].parent = objects[m].parent
      <3>1. TAKE m \in DOMAIN objects
      <3>2. objects[m] \in [parent : Nat \cup {NULL}, child_count : Nat]
        BY DEF TreeOK, Objects
      <3>3. objects'[m] \in {objects[m], [objects[m] EXCEPT !.child_count = @ + 1]}
        BY <1>3, <2>2 DEF NewObject
      <3>4. QED
        BY <3>2, <3>3
    <2>4. objects'[line_number'].parent = curr_object
      BY <1>3, <2>2 DEF NewObject
    <2>5. ParentsComeFirst'
      BY <2>1, <2>2, <2>3, <2>4 DEF ParentsComeFirst
    <2>6. RootThere'
      BY <2>1, <2>2 DEF RootThere
    <2>7. QED
      BY <2>5, <2>6
  <1>4. ASSUME NEW line \in Lines, ReadLine(line)
        PROVE  ParentsComeFirst' /\ RootThere'
    <2>1. CASE NewObject(line)
      BY <2>1, <1>3
    <2>2. CASE ~NewObject(line)
      <3>1. UNCHANGED objects /\ pc = "read"
        BY <1>4, <2>2 DEF ReadLine, SkipSFDU, SkipBlank, FoundEnd, KeepGathering,
          EndObject, EndStatement, NewKeyword, Statement, Significant, NextLine, tree
      <3>2. QED
        BY <3>1, <1>1
    <2>3. QED
      BY <2>1, <2>2
  <1>5. CASE LinesEnd
    BY <1>1, <1>5 DEF LinesEnd, tree
  <1>6. CASE CheckEnd
    <2>1. pc' = "close" /\ objects' \in {objects, <<>>}
      BY <1>6 DEF CheckEnd
    <2>2. CASE objects' = <<>>
      BY <2>1, <2>2 DEF ParentsComeFirst, RootThere
    <2>3. QED
      BY <1>1, <2>1, <2>2
  <1>7. CASE CloseFiles
    BY <1>1, <1>7 DEF CloseFiles, tree
  <1>8. CASE UNCHANGED vars
    BY <1>1, <1>8 DEF vars, tree
  <1>9. QED
    BY <1>2, <1>4, <1>5, <1>6, <1>7, <1>8 DEF Next

-----------------------------------------------------------------------------
(* Files and the result. *)

FilesInv ==
  /\ pc # "done" =>
       /\ call.label = "passed" => "label" \in open_files
       /\ call.message = "stdout" => "message" \notin open_files
  /\ pc \in {"read", "check"} => root = ROOT
  /\ pc \in {"close", "done"} => ((root # NULL) <=> line_number > 0)
  /\ FilesReleased

LEMMA CallFields ==
  ASSUME ReadingOK
  PROVE  /\ call.label \in {"passed", "named", "unreadable"}
         /\ call.message \in {"stdout", "named"}
  BY CallsAssumption DEF ReadingOK

LEMMA FilesStep ==
  ASSUME ReadingOK, TreeOK, Fresh, FilesInv, [Next]_vars
  PROVE  FilesInv' /\ Fresh'
  <1>r. ROOT # NULL
    BY NULLAssumption DEF ROOT
  <1>1. CASE OpenFiles
    <2>1. /\ pc = "open" /\ line_number = 0 /\ root = NULL
          /\ open_files = IF call.label = "passed" THEN {"label"} ELSE {}
      BY <1>1 DEF OpenFiles, Fresh
    <2>2. /\ call' = call /\ line_number' = line_number
          /\ open_files' = open_files
               \cup (IF call.message = "named" THEN {"message"} ELSE {})
               \cup (IF call.label = "named" THEN {"label"} ELSE {})
      BY <1>1 DEF OpenFiles, reading
    <2>3. \/ pc' = "close" /\ root' = root
          \/ pc' = "read" /\ root' = ROOT
      BY <1>1 DEF OpenFiles
    <2>4. QED
      BY <2>1, <2>2, <2>3, CallFields DEF FilesInv, FilesReleased, Fresh
  <1>2. ASSUME NEW line \in Lines, ReadLine(line)
        PROVE  FilesInv' /\ Fresh'
    <2>1. NextLine(line) /\ pc' \in {"read", "check"}
      BY <1>2 DEF ReadLine, SkipSFDU, SkipBlank, FoundEnd, KeepGathering, NewObject,
        EndObject, EndStatement, NewKeyword, Statement, Significant, NextLine
    <2>2. pc = "read" /\ UNCHANGED <<call, open_files, root>>
      BY <2>1 DEF NextLine
    <2>3. QED
      BY <2>1, <2>2 DEF FilesInv, FilesReleased, Fresh
  <1>3. CASE LinesEnd
    BY <1>3 DEF LinesEnd, tree, FilesInv, FilesReleased, Fresh
  <1>4. CASE CheckEnd
    <2>1. /\ pc = "check" /\ pc' = "close" /\ UNCHANGED <<call, open_files, line_number>>
          /\ root' = IF line_number = 0 THEN NULL ELSE root
      BY <1>4 DEF CheckEnd, reading
    <2>2. line_number \in Nat
      BY DEF TreeOK
    <2>3. ((root # NULL) <=> line_number > 0)'
      BY <2>1, <2>2, <1>r DEF FilesInv
    <2>4. QED
      BY <2>1, <2>3 DEF FilesInv, FilesReleased, Fresh
  <1>5. CASE CloseFiles
    <2>1. /\ pc = "close" /\ pc' = "done" /\ UNCHANGED <<call, line_number, root>>
          /\ open_files' = open_files
               \ ((IF call.label # "passed" THEN {"label"} ELSE {})
                   \cup (IF call.message # "stdout" THEN {"message"} ELSE {}))
      BY <1>5 DEF CloseFiles, tree
    <2>2. open_files \subseteq {"label", "message"}
      BY DEF ReadingOK
    <2>3. open_files' = IF call.label = "passed" THEN {"label"} ELSE {}
      BY <2>1, <2>2, CallFields DEF FilesInv
    <2>4. QED
      BY <2>1, <2>3 DEF FilesInv, FilesReleased, Fresh
  <1>6. CASE UNCHANGED vars
    BY <1>6 DEF vars, reading, tree, FilesInv, FilesReleased, Fresh
  <1>7. QED
    BY <1>1, <1>2, <1>3, <1>4, <1>5, <1>6 DEF Next

-----------------------------------------------------------------------------
(***************************************************************************)
(* The objects that are open: a path from the root to the current object.  *)
(* Each object is on it or was ended, as long as none was ended too often. *)
(***************************************************************************)
IsPath(p) ==
  /\ p \in Seq(Nat) /\ Len(p) > 0
  /\ p[1] = ROOT /\ p[Len(p)] = curr_object
  /\ \A i \in 2..Len(p) : p[i] \in DOMAIN objects /\ objects[p[i]].parent = p[i - 1]

Named == DOMAIN objects \ {ROOT}
Counted(p) == Cardinality(Named) = Cardinality(closed) + Len(p) - 1

Stack ==
  pc \in {"read", "check"} /\ "extra" \notin messages =>
    \E p : IsPath(p) /\ Counted(p)

Quiet ==
  pc \in {"close", "done"} /\ root # NULL /\ messages = {} =>
    ~MissingEnd /\ Cardinality(closed) = Cardinality(Named)

\* A path gets longer by one object, and shorter by one.
LEMMA LongerPath ==
  ASSUME NEW p \in Seq(Nat), Len(p) > 0, NEW n \in Nat
  PROVE  LET q == Append(p, n)
         IN /\ q \in Seq(Nat) /\ Len(q) = Len(p) + 1 /\ q[Len(q)] = n
            /\ \A i \in 1..Len(p) : q[i] = p[i]
            /\ q[1] = p[1] /\ q[Len(q) - 1] = p[Len(p)]
  OBVIOUS

LEMMA ShorterPath ==
  ASSUME NEW p \in Seq(Nat), Len(p) > 1
  PROVE  LET q == SubSeq(p, 1, Len(p) - 1)
         IN /\ q \in Seq(Nat) /\ Len(q) = Len(p) - 1 /\ Len(q) > 0
            /\ \A i \in 1..Len(q) : q[i] = p[i]
            /\ q[1] = p[1] /\ q[Len(q)] = p[Len(p) - 1]
  OBVIOUS

LEMMA FiniteNames ==
  ASSUME TreeOK
  PROVE  /\ IsFiniteSet(Named) /\ IsFiniteSet(closed)
         /\ Cardinality(Named) \in Nat /\ Cardinality(closed) \in Nat
  <1>1. line_number \in Nat /\ Named \subseteq 0..line_number
          /\ closed \subseteq 0..line_number
    BY NewName DEF TreeOK, Objects, Named
  <1>2. IsFiniteSet(0..line_number)
    BY <1>1, FS_Interval
  <1>3. IsFiniteSet(Named) /\ IsFiniteSet(closed)
    BY <1>1, <1>2, FS_Subset
  <1>4. QED
    BY <1>3, FS_CardinalityType

\* A new object is one more name and one more on the path.
LEMMA PushObject ==
  ASSUME ReadingOK, TreeOK, NEW line \in Lines, NewObject(line),
         NEW p, IsPath(p), Counted(p)
  PROVE  \E q : IsPath(q)' /\ Counted(q)'
  <1>0. PICK n : n = line_number'
    OBVIOUS
  <1> DEFINE q == Append(p, n)
  <1>1. pc = "read" /\ line_number' = line_number + 1
          /\ line_number \in Nat /\ curr_object \in DOMAIN objects
    BY NextLineType, StatementFlags DEF NewObject, TreeOK
  <1>2. /\ DOMAIN objects' = DOMAIN objects \cup {line_number'}
        /\ line_number' \notin DOMAIN objects /\ line_number' # ROOT
        /\ line_number' \in Nat
    BY <1>1 DEF NewObject, TreeOK, Objects, ROOT
  <1>3. \A m \in DOMAIN objects : objects'[m].parent = objects[m].parent
    <2>1. TAKE m \in DOMAIN objects
    <2>2. objects[m] \in [parent : Nat \cup {NULL}, child_count : Nat]
      BY DEF TreeOK, Objects
    <2>3. objects'[m] \in {objects[m], [objects[m] EXCEPT !.child_count = @ + 1]}
      BY <1>2 DEF NewObject
    <2>4. QED
      BY <2>2, <2>3
  <1>4. objects'[line_number'].parent = curr_object
          /\ curr_object' = line_number' /\ closed' = closed
    BY <1>2 DEF NewObject
  <1>5. p \in Seq(Nat) /\ Len(p) > 0
    BY DEF IsPath
  <1>6. /\ q \in Seq(Nat) /\ Len(q) = Len(p) + 1 /\ q[Len(q)] = n
        /\ \A i \in 1..Len(p) : q[i] = p[i]
        /\ q[1] = p[1] /\ q[Len(q) - 1] = p[Len(p)]
    BY <1>0, <1>2, <1>5, LongerPath
  <1> HIDE DEF q
  <1>7. \A i \in 2..Len(q) :
          q[i] \in DOMAIN objects' /\ objects'[q[i]].parent = q[i - 1]
    <2>1. TAKE i \in 2..Len(q)
    <2>2. CASE i = Len(q)
      BY <2>2, <1>0, <1>2, <1>4, <1>6 DEF IsPath
    <2>3. CASE i # Len(q)
      <3>1. i \in 2..Len(p) /\ i - 1 \in 1..Len(p) /\ i \in 1..Len(p)
        BY <2>3, <1>5, <1>6
      <3>2. q[i] = p[i] /\ q[i - 1] = p[i - 1]
        BY <3>1, <1>6
      <3>3. p[i] \in DOMAIN objects /\ objects[p[i]].parent = p[i - 1]
        BY <3>1 DEF IsPath
      <3>4. QED
        BY <3>2, <3>3, <1>2, <1>3
    <2>4. QED
      BY <2>2, <2>3
  <1>8. IsPath(q)'
    BY <1>0, <1>4, <1>5, <1>6, <1>7 DEF IsPath
  <1>9. Counted(q)'
    <2>1. Named' = Named \cup {line_number'} /\ line_number' \notin Named
      BY <1>2 DEF Named
    <2>2. Cardinality(Named') = Cardinality(Named) + 1
      BY <2>1, FiniteNames, FS_AddElement
    <2>3. Cardinality(Named) \in Nat /\ Cardinality(closed) \in Nat /\ Len(p) \in Nat
      BY <1>5, FiniteNames
    <2>4. QED
      BY <1>4, <1>6, <2>2, <2>3 DEF Counted
  <1>10. QED
    BY <1>8, <1>9

\* An END_OBJECT that is not one too many is one more of them and takes one
\* object from the path.
LEMMA PopObject ==
  ASSUME ReadingOK, TreeOK, ParentsComeFirst, NEW line \in Lines, EndObject(line),
         "extra" \notin messages', NEW p, IsPath(p), Counted(p)
  PROVE  \E q : IsPath(q)' /\ Counted(q)'
  <1> DEFINE q == SubSeq(p, 1, Len(p) - 1)
  <1>1. line_number' = line_number + 1 /\ line_number \in Nat /\ pc = "read"
          /\ curr_object \in DOMAIN objects
    BY NextLineType, StatementFlags DEF EndObject, TreeOK
  <1>2. /\ objects[curr_object].parent # NULL
        /\ curr_object' = objects[curr_object].parent
        /\ closed' = closed \cup {line_number'} /\ objects' = objects
    BY DEF EndObject
  <1>3. p \in Seq(Nat) /\ Len(p) > 0
    BY DEF IsPath
  <1>4. Len(p) > 1
    <2>1. curr_object # ROOT
      BY <1>1, <1>2 DEF ParentsComeFirst
    <2>2. QED
      BY <2>1, <1>3 DEF IsPath
  <1>5. /\ q \in Seq(Nat) /\ Len(q) = Len(p) - 1 /\ Len(q) > 0
        /\ \A i \in 1..Len(q) : q[i] = p[i]
        /\ q[1] = p[1] /\ q[Len(q)] = p[Len(p) - 1]
    BY <1>3, <1>4, ShorterPath
  <1> HIDE DEF q
  <1>6. p[Len(p) - 1] = curr_object'
    <2>1. Len(p) \in 2..Len(p) /\ p[Len(p)] = curr_object
      BY <1>3, <1>4 DEF IsPath
    <2>2. objects[p[Len(p)]].parent = p[Len(p) - 1]
      BY <2>1 DEF IsPath
    <2>3. QED
      BY <2>1, <2>2, <1>2
  <1>7. \A i \in 2..Len(q) :
          q[i] \in DOMAIN objects /\ objects[q[i]].parent = q[i - 1]
    <2>1. TAKE i \in 2..Len(q)
    <2>2. i \in 2..Len(p) /\ i - 1 \in 1..Len(q) /\ i \in 1..Len(q)
      BY <1>3, <1>4, <1>5
    <2>3. q[i] = p[i] /\ q[i - 1] = p[i - 1]
      BY <2>2, <1>5
    <2>4. QED
      BY <2>2, <2>3 DEF IsPath
  <1>8. IsPath(q)'
    BY <1>2, <1>5, <1>6, <1>7 DEF IsPath
  <1>9. Counted(q)'
    <2>1. line_number' \notin closed
      BY <1>1, NewName DEF TreeOK
    <2>2. Cardinality(closed') = Cardinality(closed) + 1
      BY <1>2, <2>1, FiniteNames, FS_AddElement
    <2>3. Cardinality(Named) \in Nat /\ Cardinality(closed) \in Nat /\ Len(p) \in Nat
      BY <1>3, FiniteNames
    <2>4. Named' = Named
      BY <1>2 DEF Named
    <2>5. QED
      BY <1>5, <2>2, <2>3, <2>4 DEF Counted
  <1>10. QED
    BY <1>8, <1>9

LEMMA NotOne ==
  ASSUME NEW n \in Nat, n > 0, n # 1
  PROVE  n \in 2..n /\ n - 1 \in 1..n
  OBVIOUS

\* At the root the path is the root: every object was ended.
LEMMA AtRoot ==
  ASSUME TreeOK, ParentsComeFirst, pc \in {"read", "check"}, NEW p, IsPath(p),
         Counted(p), objects[curr_object].parent = NULL
  PROVE  Cardinality(closed) = Cardinality(Named)
  <1>1. p \in Seq(Nat) /\ Len(p) > 0 /\ p[Len(p)] = curr_object
    BY DEF IsPath
  <1>2. Len(p) = 1
    <2>1. SUFFICES ASSUME Len(p) # 1
                   PROVE  FALSE
      OBVIOUS
    <2>2. Len(p) \in 2..Len(p) /\ Len(p) - 1 \in 1..Len(p)
      <3>1. Len(p) \in Nat /\ Len(p) > 0
        BY <1>1
      <3>2. QED
        BY <2>1, <3>1, NotOne
    <2>3. objects[curr_object].parent = p[Len(p) - 1]
      <3>1. \A i \in 2..Len(p) : objects[p[i]].parent = p[i - 1]
        BY DEF IsPath
      <3>2. objects[p[Len(p)]].parent = p[Len(p) - 1]
        BY <2>2, <3>1
      <3>3. QED
        BY <1>1, <3>2
    <2>4. p[Len(p) - 1] \in Nat
      BY <1>1, <2>2
    <2>5. QED
      BY <2>3, <2>4, NULLAssumption
  <1>3. QED
    BY <1>2, FiniteNames DEF Counted

LEMMA StackStep ==
  ASSUME ReadingOK, TreeOK, ParentsComeFirst, RootThere, Fresh, FilesInv, Stack,
         Quiet, [Next]_vars
  PROVE  Stack' /\ Quiet'
  <1>r. ROOT # NULL
    BY NULLAssumption DEF ROOT
  \* A step that leaves the tree and the messages alone leaves the path alone.
  <1>0. ASSUME UNCHANGED <<objects, closed, curr_object, messages>>,
               pc \in {"read", "check"}, pc' \in {"read", "check"}
        PROVE  Stack' /\ Quiet'
    BY <1>0 DEF Stack, Quiet, IsPath, Counted, Named
  <1>1. CASE OpenFiles
    <2>1. pc = "open"
      BY <1>1 DEF OpenFiles
    <2>2. CASE call.label = "unreadable"
      BY <2>1, <2>2, <1>1 DEF OpenFiles, Fresh, Stack, Quiet
    <2>3. CASE call.label # "unreadable"
      <3>1. /\ objects' = [m \in {0} |-> [parent |-> NULL, child_count |-> 0]]
            /\ curr_object' = 0 /\ closed' = {} /\ pc' = "read"
        BY <2>1, <2>3, <1>1 DEF OpenFiles, Fresh, ROOT
      <3>2. Named' = {}
        BY <3>1 DEF Named, ROOT
      <3>3. IsPath(<<0>>)'
        BY <3>1 DEF IsPath, ROOT
      <3>4. Counted(<<0>>)'
        BY <3>1, <3>2, FS_EmptySet DEF Counted
      <3>5. QED
        BY <3>1, <3>3, <3>4 DEF Stack, Quiet
    <2>4. QED
      BY <2>2, <2>3
  <1>2. ASSUME NEW line \in Lines, ReadLine(line)
        PROVE  Stack' /\ Quiet'
    <2>1. pc = "read" /\ pc' \in {"read", "check"} /\ messages \subseteq messages'
      BY <1>2 DEF ReadLine, SkipSFDU, SkipBlank, FoundEnd, KeepGathering, NewObject,
        EndObject, EndStatement, NewKeyword, Statement, Significant, NextLine
    <2>2. CASE NewObject(line)
      <3>1. messages' = messages
        BY <2>2 DEF NewObject
      <3>2. "extra" \notin messages' => \E p : IsPath(p)' /\ Counted(p)'
        BY <2>1, <2>2, <3>1, PushObject DEF Stack
      <3>3. QED
        BY <2>1, <3>2 DEF Stack, Quiet
    <2>3. CASE EndObject(line)
      <3>1. "extra" \notin messages' => \E p : IsPath(p)' /\ Counted(p)'
        BY <2>1, <2>3, PopObject DEF Stack
      <3>2. QED
        BY <2>1, <3>1 DEF Stack, Quiet
    <2>4. CASE ~NewObject(line) /\ ~EndObject(line)
      <3>1. UNCHANGED <<objects, closed, curr_object, messages>>
        BY <1>2, <2>4 DEF ReadLine, SkipSFDU, SkipBlank, FoundEnd, KeepGathering,
          EndStatement, NewKeyword, Statement, Significant, NextLine, tree
      <3>2. QED
        BY <3>1, <2>1, <1>0
    <2>5. QED
      BY <2>2, <2>3, <2>4
  <1>3. CASE LinesEnd
    BY <1>0, <1>3 DEF LinesEnd, tree
  <1>4. CASE CheckEnd
    <2>1. /\ pc = "check" /\ pc' = "close" /\ UNCHANGED <<closed, line_number>>
          /\ messages' = messages
               \cup (IF objects[curr_object].parent # NULL THEN {"not enough"} ELSE {})
               \cup (IF MissingEnd THEN {"no END"} ELSE {})
          /\ root' = IF line_number = 0 THEN NULL ELSE root
          /\ objects' = IF line_number = 0 THEN <<>> ELSE objects
      BY <1>4 DEF CheckEnd, reading
    <2>0. MissingEnd' = MissingEnd
      BY <1>4 DEF CheckEnd, reading, MissingEnd
    <2>2. ASSUME root' # NULL, messages' = {}
          PROVE  ~MissingEnd' /\ Cardinality(closed') = Cardinality(Named')
      <3>1. "extra" \notin messages /\ objects[curr_object].parent = NULL /\ ~MissingEnd
        BY <2>1, <2>2
      <3>2. objects' = objects
        BY <2>1, <2>2
      <3>3. PICK p : IsPath(p) /\ Counted(p)
        BY <2>1, <3>1 DEF Stack
      <3>4. Cardinality(closed) = Cardinality(Named)
        BY <2>1, <3>1, <3>3, AtRoot
      <3>5. QED
        BY <2>0, <2>1, <3>1, <3>2, <3>4 DEF Named
    <2>3. QED
      BY <2>1, <2>2 DEF Stack, Quiet
  <1>5. CASE CloseFiles
    BY <1>5 DEF CloseFiles, tree, Stack, Quiet, Named, MissingEnd
  <1>6. CASE UNCHANGED vars
    BY <1>6 DEF vars, reading, tree, Stack, Quiet, IsPath, Counted, Named, MissingEnd
  <1>7. QED
    BY <1>1, <1>2, <1>3, <1>4, <1>5, <1>6 DEF Next

-----------------------------------------------------------------------------
(* The inductive invariant and what follows from it. *)

IInv ==
  /\ ReadingOK /\ TreeOK
  /\ ParentsComeFirst /\ RootThere
  /\ Fresh /\ FilesInv
  /\ Stack /\ Quiet

LEMMA InitIInv == Init => IInv
  <1> SUFFICES ASSUME Init
               PROVE  IInv
    OBVIOUS
  <1>1. ReadingOK
    BY Empty DEF Init, ReadingOK
  <1>2. TreeOK
    BY DEF Init, TreeOK, Objects, Keywords
  <1>3. ParentsComeFirst /\ RootThere /\ Stack /\ Quiet
    BY DEF Init, ParentsComeFirst, RootThere, Stack, Quiet
  <1>4. Fresh /\ FilesInv
    BY <1>1, CallFields DEF Init, Fresh, FilesInv, FilesReleased
  <1>5. QED
    BY <1>1, <1>2, <1>3, <1>4 DEF IInv

LEMMA NextIInv == IInv /\ [Next]_vars => IInv'
  BY TypeStep, ParentsStep, FilesStep, StackStep DEF IInv

LEMMA Invariance == Spec => []IInv
  BY InitIInv, NextIInv, PTL DEF Spec

\* The parser's variables keep their types; in particular curr_object is an
\* object of the tree whenever the code dereferences it.
THEOREM TypeCorrect == Spec => []TypeOK
  <1>1. IInv => TypeOK
    BY TypeParts DEF IInv
  <1>2. QED
    BY <1>1, Invariance, PTL

\* Whatever the lines are, the objects form a tree whose parents come before
\* their children in the file.
THEOREM ParentsComeFirstThm == Spec => []ParentsComeFirst
  <1>1. IInv => ParentsComeFirst
    BY DEF IInv
  <1>2. QED
    BY <1>1, Invariance, PTL

\* However long the file, a parse that returns a tree and says nothing about
\* the nesting or the end has closed every object, and has seen END unless
\* its caller said that END may be missing.
THEOREM QuietMeansCompleteThm == Spec => []QuietMeansComplete
  <1>1. IInv => QuietMeansComplete
    BY DEF IInv, Quiet, Named, QuietMeansComplete, MissingEnd
  <1>2. QED
    BY <1>1, Invariance, PTL

\* The parser closes exactly the files it opened, and returns a tree exactly if
\* it read a line.
THEOREM FilesReleasedThm == Spec => []FilesReleased
  <1>1. IInv => FilesReleased
    BY DEF IInv, FilesInv
  <1>2. QED
    BY <1>1, Invariance, PTL

-----------------------------------------------------------------------------
(***************************************************************************)
(* Where objects and keywords land.  The objects that are open by the      *)
(* END_OBJECTs alone are those on the path from the root to the current    *)
(* object, and each is followed by as many unclosed ones as come after it  *)
(* on the path.                                                            *)
(***************************************************************************)
IsInnermost(o, n) ==
  /\ o \in DOMAIN objects /\ o < n /\ OpenAt(o, n - 1)
  /\ \A p \in DOMAIN objects : p < n /\ OpenAt(p, n - 1) => p <= o

Landed ==
  /\ \A n \in Named : IsInnermost(objects[n].parent, n)
  /\ \A n \in DOMAIN keywords : IsInnermost(keywords[n], n)

Children(o) == {n \in DOMAIN objects : objects[n].parent = o}
ChildrenCounted ==
  \A o \in DOMAIN objects : objects[o].child_count = Cardinality(Children(o))

OnPath(p) ==
  /\ p \in Seq(Nat) /\ Len(p) > 0
  /\ p[1] = ROOT /\ p[Len(p)] = curr_object
  /\ \A i \in 1..Len(p) : p[i] \in DOMAIN objects
  /\ \A i \in 2..Len(p) : objects[p[i]].parent = p[i - 1]
  /\ \A i, j \in 1..Len(p) : i < j => p[i] < p[j]

OpenOnPathAt(p, n) ==
  /\ \A i \in 2..Len(p) :
       OpenAt(p[i], n) /\ Opened(p[i], n) = Ended(p[i], n) + (Len(p) - i)
  /\ \A o \in Named : OpenAt(o, n) => \E i \in 2..Len(p) : o = p[i]

OpenOnPath(p) == OpenOnPathAt(p, line_number)

Nested ==
  pc \in {"read", "check"} => \E p : OnPath(p) /\ OpenOnPath(p)

\* The members of S after o and up to n.
Between(S, o, n) == {m \in S : o < m /\ m <= n}

LEMMA InBetween ==
  ASSUME NEW S, NEW o, NEW n, NEW m
  PROVE  m \in Between(S, o, n) <=> m \in S /\ o < m /\ m <= n
  BY DEF Between

LEMMA FiniteBetween ==
  ASSUME NEW N \in Nat, NEW S, S \subseteq 0..N, NEW o, NEW n
  PROVE  IsFiniteSet(Between(S, o, n)) /\ Cardinality(Between(S, o, n)) \in Nat
  <1>1. IsFiniteSet(0..N)
    BY FS_Interval
  <1>2. Between(S, o, n) \subseteq 0..N
    BY DEF Between
  <1>3. IsFiniteSet(Between(S, o, n))
    BY <1>1, <1>2, FS_Subset
  <1>4. QED
    BY <1>3, FS_CardinalityType

\* A line after all others counts for itself alone, and only if it is in the
\* set.
OneMore(S, T, N) ==
  N \in Nat /\ S \subseteq 0..N /\ (T = S \/ T = S \cup {N + 1})

LEMMA OneMoreLine ==
  ASSUME NEW N, NEW S, NEW T, OneMore(S, T, N), NEW o \in 0..N
  PROVE  /\ \A k \in 0..N : Between(T, o, k) = Between(S, o, k)
         /\ Between(T, N + 1, N + 1) = {}
         /\ T = S => Between(T, o, N + 1) = Between(S, o, N)
         /\ T = S \cup {N + 1} =>
              Cardinality(Between(T, o, N + 1))
                = Cardinality(Between(S, o, N)) + 1
  <1>0. N \in Nat /\ S \subseteq 0..N /\ (T = S \/ T = S \cup {N + 1})
    BY DEF OneMore
  <1>1. \A m \in S : m \in Int /\ m <= N /\ m # N + 1
    BY <1>0
  <1>2. ASSUME NEW k \in 0..N
        PROVE  Between(T, o, k) = Between(S, o, k)
    <2>1. ASSUME NEW m
          PROVE  m \in Between(T, o, k) <=> m \in Between(S, o, k)
      <3>0. ~(N + 1 <= k)
        BY <1>0, <1>2
      <3>a. m \in T => m \in S \/ m = N + 1
        BY <1>0
      <3>1. m \in T /\ m <= k => m \in S
        BY <3>0, <3>a
      <3>b. m \in S => m \in T
        BY <1>0
      <3>2. QED
        BY <3>1, <3>b, InBetween
    <2>2. QED
      BY <2>1
  <1>3. Between(T, N + 1, N + 1) = {}
    <2>1. ASSUME NEW m
          PROVE  m \notin Between(T, N + 1, N + 1)
      <3>0. m \in T => m \in S \/ m = N + 1
        BY <1>0
      <3>a. ~(N + 1 < N + 1)
        BY <1>0
      <3>b. m \in S => ~(N + 1 < m)
        BY <1>0, <1>1
      <3>1. m \in T => ~(N + 1 < m)
        BY <3>0, <3>a, <3>b
      <3>2. QED
        BY <3>1, InBetween
    <2>2. QED
      BY <2>1
  <1>4. ASSUME NEW m
        PROVE  m \in Between(S, o, N + 1) <=> m \in Between(S, o, N)
    <2>1. m \in S => m <= N /\ m <= N + 1
      BY <1>0, <1>1
    <2>2. QED
      BY <2>1, InBetween
  <1>5. ASSUME T = S \cup {N + 1}
        PROVE  Cardinality(Between(T, o, N + 1))
                 = Cardinality(Between(S, o, N)) + 1
    <2>1. ASSUME NEW m
          PROVE  m \in Between(T, o, N + 1)
                   <=> m \in Between(S, o, N) \cup {N + 1}
      <3>1. m \in T <=> m \in S \/ m = N + 1
        BY <1>5
      <3>2. o < N + 1 /\ N + 1 <= N + 1
        BY <1>0
      <3>3. QED
        BY <1>4, <3>1, <3>2, InBetween
    <2>2. Between(T, o, N + 1) = Between(S, o, N) \cup {N + 1}
      BY <2>1
    <2>3. N + 1 \notin Between(S, o, N)
      BY <1>1, InBetween
    <2>4. QED
      BY <1>0, <2>2, <2>3, FiniteBetween, FS_AddElement
  <1>6. QED
    BY <1>2, <1>3, <1>4, <1>5

LEMMA CountsOfLines ==
  /\ \A o, n : Opened(o, n) = Cardinality(Between(DOMAIN objects, o, n))
  /\ \A o, n : Ended(o, n) = Cardinality(Between(closed, o, n))
  BY DEF Opened, Ended, Between

\* How the counts and what is open change with a line that has been read.
Grown ==
  /\ line_number' = line_number + 1
  /\ DOMAIN objects' = DOMAIN objects
       \/ DOMAIN objects' = DOMAIN objects \cup {line_number + 1}
  /\ closed' = closed \/ closed' = closed \cup {line_number + 1}

LEMMA EarlierCounts ==
  ASSUME TreeOK, Grown, NEW o \in 0..line_number, NEW k \in 0..line_number
  PROVE  /\ Opened(o, k)' = Opened(o, k) /\ Ended(o, k)' = Ended(o, k)
         /\ (OpenAt(o, k))' <=> OpenAt(o, k)
  <1> DEFINE D == DOMAIN objects
             E == DOMAIN objects'
             N == line_number
  <1>1. N \in Nat /\ D \subseteq 0..N /\ closed \subseteq 0..N
    BY NewName DEF TreeOK, Objects
  <1>2. OneMore(D, E, N) /\ OneMore(closed, closed', N)
    BY <1>1 DEF Grown, OneMore
  <1>3. o \in 0..N /\ k \in 0..N
    OBVIOUS
  <1>4. /\ \A j : Opened(o, j)' = Cardinality(Between(E, o, j))
        /\ \A j : Ended(o, j)' = Cardinality(Between(closed', o, j))
        /\ \A j : Opened(o, j) = Cardinality(Between(D, o, j))
        /\ \A j : Ended(o, j) = Cardinality(Between(closed, o, j))
    BY DEF Opened, Ended, Between
  <1> HIDE DEF D, E, N
  <1>5. \A j \in 0..N : Between(E, o, j) = Between(D, o, j)
    BY <1>2, <1>3, OneMoreLine
  <1>6. \A j \in 0..N : Between(closed', o, j) = Between(closed, o, j)
    BY <1>2, <1>3, OneMoreLine
  <1>7. \A j \in 0..N :
          Opened(o, j)' = Opened(o, j) /\ Ended(o, j)' = Ended(o, j)
    BY <1>4, <1>5, <1>6
  <1>8. \A m \in (o + 1)..k : m \in 0..N
    BY <1>1, <1>3
  <1>9. QED
    BY <1>3, <1>7, <1>8 DEF OpenAt

LEMMA NewCounts ==
  ASSUME TreeOK, Grown, NEW o \in 0..line_number, NEW n, n = line_number + 1
  PROVE  /\ Opened(o, line_number) \in Nat /\ Ended(o, line_number) \in Nat
         /\ DOMAIN objects' = DOMAIN objects =>
              Opened(o, n)' = Opened(o, line_number)
         /\ DOMAIN objects' # DOMAIN objects =>
              Opened(o, n)' = Opened(o, line_number) + 1
         /\ closed' = closed => Ended(o, n)' = Ended(o, line_number)
         /\ closed' # closed => Ended(o, n)' = Ended(o, line_number) + 1
         /\ (OpenAt(o, n))' <=>
              o = ROOT \/ (OpenAt(o, line_number)
                           /\ Ended(o, n)' <= Opened(o, n)')
  <1> DEFINE D == DOMAIN objects
             E == DOMAIN objects'
             N == line_number
  <1>1. N \in Nat /\ D \subseteq 0..N /\ closed \subseteq 0..N
    BY NewName DEF TreeOK, Objects
  <1>2. OneMore(D, E, N) /\ OneMore(closed, closed', N)
    BY <1>1 DEF Grown, OneMore
  <1>3. o \in 0..N /\ n = N + 1
    OBVIOUS
  <1>4. /\ Opened(o, n)' = Cardinality(Between(E, o, n))
        /\ Ended(o, n)' = Cardinality(Between(closed', o, n))
        /\ Opened(o, N) = Cardinality(Between(D, o, N))
        /\ Ended(o, N) = Cardinality(Between(closed, o, N))
    BY DEF Opened, Ended, Between
  <1>5. \A m \in 0..N : Opened(o, m)' = Opened(o, m) /\ Ended(o, m)' = Ended(o, m)
    BY EarlierCounts
  <1>h. /\ DOMAIN objects = D /\ DOMAIN objects' = E /\ line_number = N
    OBVIOUS
  <1> HIDE DEF D, E, N
  <1>6. /\ Cardinality(Between(D, o, N)) \in Nat
        /\ Cardinality(Between(closed, o, N)) \in Nat
    BY <1>1, FiniteBetween
  <1>o. /\ E # D => E = D \cup {N + 1}
        /\ closed' # closed => closed' = closed \cup {N + 1}
    BY <1>2 DEF OneMore
  <1>7. /\ E = D => Between(E, o, N + 1) = Between(D, o, N)
        /\ E # D => Cardinality(Between(E, o, N + 1))
                      = Cardinality(Between(D, o, N)) + 1
    BY <1>2, <1>3, <1>o, OneMoreLine
  <1>8. /\ closed' = closed => Between(closed', o, N + 1) = Between(closed, o, N)
        /\ closed' # closed => Cardinality(Between(closed', o, N + 1))
                                = Cardinality(Between(closed, o, N)) + 1
    BY <1>2, <1>3, <1>o, OneMoreLine
  <1>9. (OpenAt(o, n))' <=>
          o = ROOT \/ (OpenAt(o, N) /\ Ended(o, n)' <= Opened(o, n)')
    <2>1. (o + 1)..n = ((o + 1)..N) \cup {n}
      BY <1>1, <1>3
    <2>2. \A m \in (o + 1)..N : m \in 0..N
      BY <1>1, <1>3
    <2> DEFINE P(m) == Ended(o, m)' <= Opened(o, m)'
    <2>3. (OpenAt(o, n))' <=> o = ROOT \/ \A m \in (o + 1)..n : P(m)
      BY DEF OpenAt
    <2>4. OpenAt(o, N) <=> o = ROOT \/ \A m \in (o + 1)..N : P(m)
      BY <1>5, <2>2 DEF OpenAt
    <2>5. P(n) <=> Ended(o, n)' <= Opened(o, n)'
      OBVIOUS
    <2> HIDE DEF P
    <2>6. (\A m \in (o + 1)..n : P(m)) <=> (\A m \in (o + 1)..N : P(m)) /\ P(n)
      BY <2>1
    <2>7. QED
      BY <2>3, <2>4, <2>5, <2>6
  <1>10. QED
    BY <1>3, <1>4, <1>6, <1>7, <1>8, <1>9, <1>h

\* All on the path but the root have names.
LEMMA PathIsNamed ==
  ASSUME NEW p, OnPath(p)
  PROVE  \A i \in 2..Len(p) : p[i] \in Named /\ i \in 1..Len(p)
  <1>0. /\ p \in Seq(Nat) /\ p[1] = ROOT
        /\ \A i \in 1..Len(p) : p[i] \in DOMAIN objects
        /\ \A i, j \in 1..Len(p) : i < j => p[i] < p[j]
    BY DEF OnPath
  <1>1. Len(p) \in Nat /\ \A i \in 1..Len(p) : p[i] \in Nat
    BY <1>0
  <1>2. TAKE i \in 2..Len(p)
  <1>3. i \in 1..Len(p) /\ 1 \in 1..Len(p) /\ 1 < i
    BY <1>1
  <1>4. p[1] < p[i] /\ p[i] \in DOMAIN objects /\ p[i] \in Nat
    BY <1>0, <1>1, <1>3
  <1>5. p[i] # ROOT
    BY <1>0, <1>4 DEF ROOT
  <1>6. QED
    BY <1>3, <1>4, <1>5 DEF Named

\* The current object is the innermost one for the next line.
LEMMA CurrentIsInnermost ==
  ASSUME TreeOK, NEW p, OnPath(p), OpenOnPath(p), NEW n, n = line_number + 1
  PROVE  IsInnermost(curr_object, n)
  <1>1. /\ p \in Seq(Nat) /\ Len(p) > 0 /\ Len(p) \in Nat
        /\ p[Len(p)] = curr_object /\ Len(p) \in 1..Len(p)
    BY DEF OnPath
  <1>2. curr_object \in DOMAIN objects
    BY <1>1 DEF OnPath
  <1>3. /\ line_number \in Nat /\ \A o \in DOMAIN objects : o \in 0..line_number
        /\ n - 1 = line_number /\ \A o \in 0..line_number : o < n
    BY DEF TreeOK, Objects
  <1>4. OpenAt(curr_object, line_number)
    <2>1. CASE Len(p) = 1
      BY <1>1, <2>1 DEF OnPath, OpenAt
    <2>2. CASE Len(p) # 1
      BY <1>1, <2>2, NotOne DEF OpenOnPath, OpenOnPathAt
    <2>3. QED
      BY <2>1, <2>2
  <1>5. ASSUME NEW o \in DOMAIN objects, OpenAt(o, line_number)
        PROVE  o <= curr_object
    <2>1. CASE o = ROOT
      BY <1>2, <1>3, <2>1 DEF ROOT
    <2>2. CASE o # ROOT
      <3>1. PICK i \in 2..Len(p) : o = p[i]
        BY <1>5, <2>2 DEF OpenOnPath, OpenOnPathAt, Named
      <3>2. i \in 1..Len(p) /\ (i = Len(p) \/ i < Len(p))
        BY <1>1
      <3>3. CASE i = Len(p)
        BY <1>1, <1>3, <3>1, <3>3
      <3>4. CASE i < Len(p)
        <4>1. p[i] < p[Len(p)]
          BY <1>1, <3>2, <3>4 DEF OnPath
        <4>2. o < curr_object /\ o \in Int /\ curr_object \in Int
          BY <1>1, <1>2, <1>3, <3>1, <4>1
        <4>3. QED
          BY <4>2
      <3>5. QED
        BY <3>2, <3>3, <3>4
    <2>3. QED
      BY <2>1, <2>2
  <1>6. QED
    BY <1>2, <1>3, <1>4, <1>5 DEF IsInnermost

\* What was innermost at an earlier line remains so.
LEMMA InnermostStays ==
  ASSUME TreeOK, Grown, NEW o, NEW n \in 1..(line_number + 1), IsInnermost(o, n)
  PROVE  IsInnermost(o, n)'
  <1>1. /\ line_number \in Nat /\ \A q \in DOMAIN objects : q \in 0..line_number
        /\ n - 1 \in 0..line_number
    BY DEF TreeOK, Objects
  <1>2. \A q \in DOMAIN objects : (OpenAt(q, n - 1))' <=> OpenAt(q, n - 1)
    BY <1>1, EarlierCounts
  <1>3. \A q \in DOMAIN objects' : q \in DOMAIN objects \/ ~(q < n)
    BY <1>1 DEF Grown
  <1>4. DOMAIN objects \subseteq DOMAIN objects'
    BY DEF Grown
  <1>5. QED
    BY <1>2, <1>3, <1>4 DEF IsInnermost

\* What is open after the next line.
LEMMA OpenNext ==
  ASSUME NEW p, NEW n, line_number' = n, (OpenOnPathAt(p, n))'
  PROVE  OpenOnPath(p)'
  BY DEF OpenOnPath, OpenOnPathAt, OpenAt, Opened, Ended, Named

LEMMA NothingBetween ==
  ASSUME NEW o \in Int, NEW S, S \subseteq Int
  PROVE  Cardinality(Between(S, o, o)) = 0
  <1>1. \A m \in S : ~(o < m /\ m <= o)
    OBVIOUS
  <1>2. Between(S, o, o) = {}
    BY <1>1 DEF Between
  <1>3. QED
    BY <1>2, FS_EmptySet

\* What is open has not been ended more often than others were opened.
LEMMA OpenNow ==
  ASSUME TreeOK, NEW o \in 0..line_number, o # ROOT, OpenAt(o, line_number)
  PROVE  Ended(o, line_number) <= Opened(o, line_number)
  <1>1. CASE o = line_number
    <2>1. /\ Opened(o, o) = Cardinality(Between(DOMAIN objects, o, o))
          /\ Ended(o, o) = Cardinality(Between(closed, o, o))
      BY CountsOfLines
    <2>2. o \in Int /\ DOMAIN objects \subseteq Int /\ closed \subseteq Int
      BY DEF TreeOK, Objects
    <2>3. Opened(o, o) = 0 /\ Ended(o, o) = 0
      BY <2>1, <2>2, NothingBetween
    <2>4. QED
      BY <1>1, <2>3
  <1>2. CASE o # line_number
    <2>1. line_number \in (o + 1)..line_number
      BY <1>2 DEF TreeOK
    <2>2. QED
      BY <2>1 DEF OpenAt
  <1>3. QED
    BY <1>1, <1>2

\* Ending an object closes what has nothing open in it; nothing else does.
LEMMA OpenOrEnded ==
  ASSUME TreeOK, Grown, NEW o \in DOMAIN objects, o # ROOT,
         NEW n, n = line_number + 1
  PROVE  /\ closed' = closed => ((OpenAt(o, n))' <=> OpenAt(o, line_number))
         /\ closed' # closed /\ DOMAIN objects' = DOMAIN objects =>
              ((OpenAt(o, n))' <=>
                 (OpenAt(o, line_number)
                    /\ Ended(o, line_number) < Opened(o, line_number)))
  <1>1. o \in 0..line_number
    BY DEF TreeOK, Objects
  <1>2. /\ Opened(o, line_number) \in Nat /\ Ended(o, line_number) \in Nat
        /\ Opened(o, n)' \in {Opened(o, line_number), Opened(o, line_number) + 1}
        /\ DOMAIN objects' = DOMAIN objects =>
             Opened(o, n)' = Opened(o, line_number)
        /\ closed' = closed => Ended(o, n)' = Ended(o, line_number)
        /\ closed' # closed => Ended(o, n)' = Ended(o, line_number) + 1
    BY <1>1, NewCounts
  <1>3. (OpenAt(o, n))' <=>
          (OpenAt(o, line_number) /\ Ended(o, n)' <= Opened(o, n)')
    BY <1>1, NewCounts
  <1>4. ASSUME OpenAt(o, line_number), closed' = closed
        PROVE  Ended(o, n)' <= Opened(o, n)'
    <2>1. Ended(o, line_number) <= Opened(o, line_number)
      BY <1>1, <1>4, OpenNow
    <2>2. QED
      BY <1>2, <1>4, <2>1
  <1>5. ASSUME closed' # closed, DOMAIN objects' = DOMAIN objects
        PROVE  Ended(o, n)' <= Opened(o, n)'
                 <=> Ended(o, line_number) < Opened(o, line_number)
    BY <1>2, <1>5
  <1>6. QED
    BY <1>3, <1>4, <1>5

\* A line that starts or ends no object leaves the path.
LEMMA PathStays ==
  ASSUME TreeOK, NEW p, OnPath(p), OpenOnPath(p),
         line_number' = line_number + 1,
         UNCHANGED <<objects, closed, curr_object>>
  PROVE  OnPath(p)' /\ OpenOnPath(p)'
  <1>1. Grown
    BY DEF Grown
  <1>2. OnPath(p)'
    BY DEF OnPath
  <1>3. PICK n : n = line_number + 1
    OBVIOUS
  <1>4. /\ \A o \in DOMAIN objects : o \in 0..line_number
        /\ Named' = Named /\ Named \subseteq DOMAIN objects /\ ROOT \notin Named
    BY DEF TreeOK, Objects, Named
  <1>5. \A i \in 2..Len(p) : p[i] \in Named
    BY PathIsNamed
  <1>6. ASSUME NEW o \in Named
        PROVE  /\ Opened(o, n)' = Opened(o, line_number)
               /\ Ended(o, n)' = Ended(o, line_number)
               /\ (OpenAt(o, n))' <=> OpenAt(o, line_number)
    BY <1>1, <1>3, <1>4, NewCounts, OpenOrEnded
  <1>7. (OpenOnPathAt(p, n))'
    BY <1>4, <1>5, <1>6 DEF OpenOnPath, OpenOnPathAt
  <1>8. QED
    BY <1>2, <1>3, <1>7, OpenNext

\* What a line that starts an object does.
LEMMA NewObjectFacts ==
  ASSUME ReadingOK, TreeOK, NEW line \in Lines, NewObject(line),
         NEW n, n = line_number + 1
  PROVE  /\ pc = "read" /\ line_number' = n /\ Grown /\ n \in Nat /\ n # ROOT
         /\ DOMAIN objects' = DOMAIN objects \cup {n} /\ n \notin DOMAIN objects
         /\ \A o \in DOMAIN objects : o \in 0..line_number /\ o < n
         /\ curr_object \in DOMAIN objects /\ curr_object' = n
         /\ objects'[n] = [parent |-> curr_object, child_count |-> 0]
         /\ \A o \in DOMAIN objects : objects'[o].parent = objects[o].parent
         /\ UNCHANGED <<closed, keywords>>
  <1>1. pc = "read" /\ line_number' = n /\ line_number \in Nat
          /\ curr_object \in DOMAIN objects
    BY NextLineType, StatementFlags DEF NewObject, TreeOK
  <1>2. /\ DOMAIN objects \subseteq 0..line_number /\ n \notin DOMAIN objects
        /\ \A o \in DOMAIN objects : o \in 0..line_number /\ o < n
    BY <1>1 DEF TreeOK, Objects
  <1>3. /\ DOMAIN objects' = DOMAIN objects \cup {n} /\ curr_object' = n
        /\ objects'[n] = [parent |-> curr_object, child_count |-> 0]
        /\ UNCHANGED <<closed, keywords>>
    BY <1>1 DEF NewObject
  <1>4. \A o \in DOMAIN objects : objects'[o].parent = objects[o].parent
    <2>1. TAKE o \in DOMAIN objects
    <2>2. objects[o] \in [parent : Nat \cup {NULL}, child_count : Nat]
      BY DEF TreeOK, Objects
    <2>3. objects'[o] \in {objects[o], [objects[o] EXCEPT !.child_count = @ + 1]}
      BY <1>1, <1>2, <1>3 DEF NewObject
    <2>4. QED
      BY <2>2, <2>3
  <1>5. Grown
    BY <1>1, <1>3 DEF Grown
  <1>6. n \in Nat /\ n # ROOT
    BY <1>1 DEF ROOT
  <1>7. QED
    BY <1>1, <1>2, <1>3, <1>4, <1>5, <1>6

\* A new object is put at the end of the path, and open.
LEMMA PathLonger ==
  ASSUME ReadingOK, TreeOK, NEW line \in Lines, NewObject(line),
         NEW p, OnPath(p), OpenOnPath(p)
  PROVE  \E q : OnPath(q)' /\ OpenOnPath(q)'
  <1>0. PICK n : n = line_number + 1
    OBVIOUS
  <1> DEFINE q == Append(p, n)
             new == objects'
  <1>1. /\ line_number' = n /\ Grown /\ n \in Nat
        /\ DOMAIN new = DOMAIN objects \cup {n} /\ n \notin DOMAIN objects
        /\ \A o \in DOMAIN objects : o \in 0..line_number /\ o < n
        /\ curr_object' = n /\ new[n].parent = curr_object /\ n # ROOT
        /\ \A o \in DOMAIN objects : new[o].parent = objects[o].parent
        /\ closed' = closed
    <2>1. objects'[n] = [parent |-> curr_object, child_count |-> 0]
      BY <1>0, NewObjectFacts
    <2>2. new[n].parent = curr_object
      BY <2>1
    <2>3. /\ line_number' = n /\ Grown /\ n \in Nat
          /\ DOMAIN objects' = DOMAIN objects \cup {n} /\ n \notin DOMAIN objects
          /\ \A o \in DOMAIN objects : o \in 0..line_number /\ o < n
          /\ curr_object' = n /\ n # ROOT /\ closed' = closed
      BY <1>0, NewObjectFacts
    <2>4. \A o \in DOMAIN objects : objects'[o].parent = objects[o].parent
      BY <1>0, NewObjectFacts
    <2>5. QED
      BY <2>2, <2>3, <2>4
  <1>2. /\ p \in Seq(Nat) /\ Len(p) > 0 /\ Len(p) \in Nat
        /\ p[1] = ROOT /\ p[Len(p)] = curr_object
    BY DEF OnPath
  <1>3. /\ q \in Seq(Nat) /\ Len(q) = Len(p) + 1 /\ q[Len(q)] = n
        /\ \A i \in 1..Len(p) : q[i] = p[i]
        /\ q[1] = p[1] /\ q[Len(q) - 1] = p[Len(p)]
    BY <1>1, <1>2, LongerPath
  <1>h. objects' = new
    OBVIOUS
  <1> HIDE DEF q, new
  <1>4. \A i \in 1..Len(q) : i = Len(q) \/ i \in 1..Len(p)
    BY <1>2, <1>3
  <1>5. \A i \in 1..Len(p) : q[i] \in DOMAIN objects
    BY <1>3 DEF OnPath
  <1>6. \A i \in 1..Len(q) : q[i] \in DOMAIN new
    BY <1>1, <1>3, <1>4, <1>5
  <1>7. \A i \in 2..Len(q) : new[q[i]].parent = q[i - 1]
    <2>1. TAKE i \in 2..Len(q)
    <2>2. CASE i = Len(q)
      BY <2>2, <1>1, <1>2, <1>3
    <2>3. CASE i # Len(q)
      <3>1. i \in 2..Len(p) /\ i - 1 \in 1..Len(p) /\ i \in 1..Len(p)
        BY <2>3, <1>2, <1>3
      <3>2. q[i] = p[i] /\ q[i - 1] = p[i - 1]
        BY <3>1, <1>3
      <3>3. p[i] \in DOMAIN objects /\ objects[p[i]].parent = p[i - 1]
        BY <3>1 DEF OnPath
      <3>4. QED
        BY <3>2, <3>3, <1>1
    <2>4. QED
      BY <2>2, <2>3
  <1>8. \A i, j \in 1..Len(q) : i < j => q[i] < q[j]
    <2>1. TAKE i, j \in 1..Len(q)
    <2>2. HAVE i < j
    <2>3. i \in 1..Len(p) /\ (j = Len(q) \/ j \in 1..Len(p))
      BY <2>2, <1>2, <1>3
    <2>4. CASE j = Len(q)
      BY <2>3, <2>4, <1>1, <1>3, <1>5
    <2>5. CASE j \in 1..Len(p)
      BY <2>2, <2>3, <2>5, <1>3 DEF OnPath
    <2>6. QED
      BY <2>3, <2>4, <2>5
  <1>9. OnPath(q)'
    BY <1>1, <1>2, <1>3, <1>6, <1>7, <1>8, <1>h DEF OnPath
  <1>10. ASSUME NEW o \in Named
         PROVE  /\ Opened(o, n)' = Opened(o, line_number) + 1
                /\ Ended(o, n)' = Ended(o, line_number)
                /\ (OpenAt(o, n))' <=> OpenAt(o, line_number)
    <2>1. o \in DOMAIN objects /\ o # ROOT /\ o \in 0..line_number
      BY <1>1 DEF Named
    <2>2. DOMAIN objects' # DOMAIN objects
      BY <1>1, <1>h
    <2>3. QED
      BY <1>0, <1>1, <2>1, <2>2, NewCounts, OpenOrEnded
  <1>11. (OpenAt(n, n))' /\ Opened(n, n)' = 0 /\ Ended(n, n)' = 0
    <2>1. DOMAIN new \subseteq Int /\ closed \subseteq Int /\ n \in Int
      BY <1>1 DEF TreeOK
    <2>2. /\ Opened(n, n)' = Cardinality(Between(DOMAIN new, n, n))
          /\ Ended(n, n)' = Cardinality(Between(closed', n, n))
      BY <1>h DEF Opened, Ended, Between
    <2>3. Opened(n, n)' = 0 /\ Ended(n, n)' = 0
      BY <1>1, <2>1, <2>2, NothingBetween
    <2>4. (OpenAt(n, n))'
      <3>1. (n + 1)..n = {}
        BY <2>1
      <3>2. QED
        BY <3>1 DEF OpenAt
    <2>5. QED
      BY <2>3, <2>4
  <1>12. \A i \in 2..Len(q) :
           (OpenAt(q[i], n))' /\ Opened(q[i], n)' = Ended(q[i], n)' + (Len(q) - i)
    <2>1. TAKE i \in 2..Len(q)
    <2>2. CASE i = Len(q)
      BY <1>2, <1>3, <1>11, <2>2
    <2>3. CASE i # Len(q)
      <3>1. PICK o : o = q[i]
        OBVIOUS
      <3>a. i \in 2..Len(p) /\ i \in 1..Len(p)
        BY <2>3, <1>2, <1>3
      <3>2. i \in 2..Len(p) /\ i \in 1..Len(p) /\ o = p[i]
        BY <1>3, <3>1, <3>a
      <3>3. o \in Named
        BY <3>2, PathIsNamed
      <3>4. /\ OpenAt(o, line_number)
            /\ Opened(o, line_number) = Ended(o, line_number) + (Len(p) - i)
        BY <3>2 DEF OpenOnPath, OpenOnPathAt
      <3>5. Ended(o, line_number) \in Nat
        BY <1>0, <1>1, <3>3, NewCounts DEF Named
      <3>6. /\ Opened(o, n)' = Opened(o, line_number) + 1
            /\ Ended(o, n)' = Ended(o, line_number) /\ (OpenAt(o, n))'
        BY <1>10, <3>3, <3>4
      <3>7. Opened(o, n)' = Ended(o, n)' + (Len(q) - i)
        <4>1. i \in Int /\ Len(q) = Len(p) + 1
          BY <1>2, <1>3, <3>2
        <4>2. QED
          BY <1>2, <3>4, <3>5, <3>6, <4>1
      <3>8. QED
        BY <3>1, <3>6, <3>7
    <2>4. QED
      BY <2>2, <2>3
  <1>13. ASSUME NEW o \in Named', (OpenAt(o, n))'
         PROVE  \E i \in 2..Len(q) : o = q[i]
    <2>1. CASE o = n
      BY <1>2, <1>3, <2>1
    <2>2. CASE o # n
      <3>1. o \in Named
        BY <1>1, <1>h, <1>13, <2>2 DEF Named
      <3>2. OpenAt(o, line_number)
        BY <1>10, <1>13, <3>1
      <3>3. PICK i \in 2..Len(p) : o = p[i]
        BY <3>1, <3>2 DEF OpenOnPath, OpenOnPathAt
      <3>4. i \in 2..Len(q) /\ i \in 1..Len(p)
        BY <1>2, <1>3
      <3>5. QED
        BY <1>3, <3>3, <3>4
    <2>3. QED
      BY <2>1, <2>2
  <1>14. (OpenOnPathAt(q, n))'
    BY <1>12, <1>13 DEF OpenOnPathAt
  <1>15. OnPath(q)' /\ OpenOnPath(q)'
    BY <1>1, <1>9, <1>14, OpenNext
  <1>16. QED
    BY <1>15

\* What a line that ends an object does.
LEMMA EndObjectFacts ==
  ASSUME ReadingOK, TreeOK, NEW line \in Lines, EndObject(line),
         NEW n, n = line_number + 1
  PROVE  /\ pc = "read" /\ line_number' = n /\ Grown
         /\ closed' = closed \cup {n} /\ n \notin closed
         /\ curr_object \in DOMAIN objects
         /\ objects[curr_object].parent # NULL =>
              curr_object' = objects[curr_object].parent
         /\ objects[curr_object].parent = NULL => curr_object' = curr_object
         /\ UNCHANGED <<objects, keywords>>
  <1>1. pc = "read" /\ line_number' = n /\ line_number \in Nat
          /\ curr_object \in DOMAIN objects
    BY NextLineType, StatementFlags DEF EndObject, TreeOK
  <1>2. /\ closed' = closed \cup {n} /\ UNCHANGED <<objects, keywords>>
        /\ objects[curr_object].parent # NULL =>
             curr_object' = objects[curr_object].parent
        /\ objects[curr_object].parent = NULL => curr_object' = curr_object
    BY <1>1 DEF EndObject
  <1>3. n \notin closed
    BY <1>1, NewName DEF TreeOK
  <1>4. Grown
    BY <1>1, <1>2 DEF Grown
  <1>5. QED
    BY <1>1, <1>2, <1>3, <1>4

\* An END_OBJECT takes the last object from the path: it is the one that no
\* other is open in. At the root it takes nothing.
LEMMA PathShorter ==
  ASSUME ReadingOK, TreeOK, ParentsComeFirst, NEW line \in Lines,
         EndObject(line), NEW p, OnPath(p), OpenOnPath(p)
  PROVE  \E q : OnPath(q)' /\ OpenOnPath(q)'
  <1>0. PICK n : n = line_number + 1
    OBVIOUS
  <1>1. /\ line_number' = n /\ Grown /\ n \in Nat
        /\ closed' # closed /\ curr_object \in DOMAIN objects
        /\ objects[curr_object].parent # NULL =>
             curr_object' = objects[curr_object].parent
        /\ objects[curr_object].parent = NULL => curr_object' = curr_object
        /\ objects' = objects
    BY <1>0, EndObjectFacts DEF TreeOK
  <1>2. /\ p \in Seq(Nat) /\ Len(p) > 0 /\ Len(p) \in Nat
        /\ p[1] = ROOT /\ p[Len(p)] = curr_object
        /\ Len(p) \in 1..Len(p)
    BY DEF OnPath
  <1>3. ASSUME NEW o \in Named
        PROVE  /\ Opened(o, line_number) \in Nat /\ Ended(o, line_number) \in Nat
               /\ Opened(o, n)' = Opened(o, line_number)
               /\ Ended(o, n)' = Ended(o, line_number) + 1
               /\ (OpenAt(o, n))' <=>
                    (OpenAt(o, line_number)
                       /\ Ended(o, line_number) < Opened(o, line_number))
    <2>1. o \in DOMAIN objects /\ o # ROOT /\ o \in 0..line_number
      BY DEF Named, TreeOK, Objects
    <2>2. QED
      BY <1>0, <1>1, <2>1, NewCounts, OpenOrEnded
  <1>4. ASSUME NEW i \in 2..Len(p)
        PROVE  /\ p[i] \in Named /\ OpenAt(p[i], line_number)
               /\ Opened(p[i], line_number)
                    = Ended(p[i], line_number) + (Len(p) - i)
    BY PathIsNamed DEF OpenOnPath, OpenOnPathAt
  <1>5. Named' = Named
    BY <1>1 DEF Named
  <1>6. ASSUME NEW o \in Named, (OpenAt(o, n))'
        PROVE  \E i \in 2..Len(p) : o = p[i] /\ i < Len(p)
    <2>1. /\ OpenAt(o, line_number)
          /\ Ended(o, line_number) < Opened(o, line_number)
      BY <1>3, <1>6
    <2>2. PICK i \in 2..Len(p) : o = p[i]
      BY <2>1 DEF OpenOnPath, OpenOnPathAt
    <2>3. Opened(o, line_number) = Ended(o, line_number) + (Len(p) - i)
      BY <1>4, <2>2
    <2>4. i < Len(p)
      BY <1>2, <1>3, <2>1, <2>3
    <2>5. QED
      BY <2>2, <2>4
  <1>7. CASE objects[curr_object].parent = NULL
    <2>1. curr_object = ROOT
      <3>1. curr_object # ROOT => objects[curr_object].parent \in DOMAIN objects
        BY <1>1 DEF ParentsComeFirst
      <3>2. QED
        BY <1>7, <3>1, NULLAssumption DEF TreeOK, Objects
    <2>2. Len(p) = 1
      <3>1. SUFFICES ASSUME Len(p) # 1
                     PROVE  FALSE
        OBVIOUS
      <3>2. Len(p) \in 2..Len(p)
        BY <1>2, <3>1, NotOne
      <3>3. QED
        BY <1>2, <2>1, <3>2, PathIsNamed DEF Named
    <2>3. OnPath(p)'
      BY <1>1, <1>7 DEF OnPath
    <2>4. \A i \in 2..Len(p) : FALSE
      BY <2>2
    <2>5. (OpenOnPathAt(p, n))'
      BY <1>5, <1>6, <2>4 DEF OpenOnPathAt
    <2>6. QED
      BY <1>1, <2>3, <2>5, OpenNext
  <1>8. CASE objects[curr_object].parent # NULL
    <2> DEFINE q == SubSeq(p, 1, Len(p) - 1)
    <2>1. Len(p) > 1
      <3>1. curr_object # ROOT
        BY <1>1, <1>8 DEF ParentsComeFirst
      <3>2. QED
        BY <1>2, <3>1
    <2>2. /\ q \in Seq(Nat) /\ Len(q) = Len(p) - 1 /\ Len(q) > 0
          /\ \A i \in 1..Len(q) : q[i] = p[i]
          /\ q[1] = p[1] /\ q[Len(q)] = p[Len(p) - 1]
      BY <1>2, <2>1, ShorterPath
    <2> HIDE DEF q
    <2>3. /\ \A i \in 1..Len(q) : i \in 1..Len(p)
          /\ \A i \in 2..Len(q) : i \in 2..Len(p) /\ i \in 1..Len(q)
                                  /\ i - 1 \in 1..Len(q) /\ i < Len(p)
      BY <1>2, <2>2
    <2>4. p[Len(p) - 1] = curr_object'
      <3>1. Len(p) \in 2..Len(p)
        BY <1>2, <2>1
      <3>2. objects[p[Len(p)]].parent = p[Len(p) - 1]
        BY <3>1 DEF OnPath
      <3>3. QED
        BY <1>1, <1>2, <1>8, <3>2
    <2>5. \A i \in 1..Len(q) : q[i] \in DOMAIN objects
      BY <2>2, <2>3 DEF OnPath
    <2>6. \A i \in 2..Len(q) : objects[q[i]].parent = q[i - 1]
      BY <2>2, <2>3 DEF OnPath
    <2>7. \A i, j \in 1..Len(q) : i < j => q[i] < q[j]
      BY <2>2, <2>3 DEF OnPath
    <2>8. OnPath(q)'
      BY <1>1, <1>2, <2>2, <2>4, <2>5, <2>6, <2>7 DEF OnPath
    <2>9. \A i \in 2..Len(q) :
            (OpenAt(q[i], n))' /\ Opened(q[i], n)' = Ended(q[i], n)' + (Len(q) - i)
      <3>1. TAKE i \in 2..Len(q)
      <3>2. PICK o : o = q[i]
        OBVIOUS
      <3>3. i \in 2..Len(p) /\ o = p[i] /\ i < Len(p) /\ i \in Int
        BY <2>2, <2>3, <3>2
      <3>4. /\ o \in Named /\ OpenAt(o, line_number)
            /\ Opened(o, line_number) = Ended(o, line_number) + (Len(p) - i)
        BY <1>4, <3>3
      <3>5. /\ Ended(o, line_number) \in Nat
            /\ Opened(o, n)' = Opened(o, line_number)
            /\ Ended(o, n)' = Ended(o, line_number) + 1
        BY <1>3, <3>4
      <3>6. Ended(o, line_number) < Opened(o, line_number)
        BY <1>2, <3>3, <3>4, <3>5
      <3>7. (OpenAt(o, n))'
        BY <1>3, <3>4, <3>6
      <3>8. Opened(o, n)' = Ended(o, n)' + (Len(q) - i)
        BY <1>2, <2>2, <3>3, <3>4, <3>5
      <3>9. QED
        BY <3>2, <3>7, <3>8
    <2>10. ASSUME NEW o \in Named', (OpenAt(o, n))'
           PROVE  \E i \in 2..Len(q) : o = q[i]
      <3>1. PICK i \in 2..Len(p) : o = p[i] /\ i < Len(p)
        BY <1>5, <1>6, <2>10
      <3>2. i \in 2..Len(q) /\ i \in 1..Len(q)
        BY <1>2, <2>2, <3>1
      <3>3. QED
        BY <2>2, <3>1, <3>2
    <2>11. (OpenOnPathAt(q, n))'
      BY <2>9, <2>10 DEF OpenOnPathAt
    <2>12. OnPath(q)' /\ OpenOnPath(q)'
      BY <1>1, <2>8, <2>11, OpenNext
    <2>13. QED
      BY <2>12
  <1>9. QED
    BY <1>7, <1>8

\* The number of an object's children follows the objects that are put in it.
LEMMA ChildrenStep ==
  ASSUME ReadingOK, TreeOK, ParentsComeFirst, ChildrenCounted,
         NEW line \in Lines, NewObject(line)
  PROVE  ChildrenCounted'
  <1>0. PICK n, c : n = line_number + 1 /\ c = curr_object
    OBVIOUS
  <1>1. /\ DOMAIN objects' = DOMAIN objects \cup {n} /\ n \notin DOMAIN objects
        /\ c \in DOMAIN objects /\ n \in Nat /\ line_number' = n
        /\ \A o \in DOMAIN objects : objects'[o].parent = objects[o].parent
    BY <1>0, NewObjectFacts
  <1>2. objects'[n] = [parent |-> c, child_count |-> 0]
    BY <1>0, NewObjectFacts
  <1>3. \A o : o \in DOMAIN objects =>
          /\ objects[o].child_count \in Nat
          /\ objects'[o].child_count
               = objects[o].child_count + (IF o = c THEN 1 ELSE 0)
    <2>1. TAKE o
    <2>2. HAVE o \in DOMAIN objects
    <2>3. objects[o] \in [parent : Nat \cup {NULL}, child_count : Nat]
      BY <2>2 DEF TreeOK, Objects
    <2>4. objects'[o] = IF o = c THEN [objects[o] EXCEPT !.child_count = @ + 1]
                        ELSE objects[o]
      BY <1>0, <1>1, <2>2 DEF NewObject
    <2>5. QED
      BY <2>3, <2>4
  <1>4. ASSUME NEW o \in DOMAIN objects'
        PROVE  /\ IsFiniteSet(Children(o)) /\ n \notin Children(o)
               /\ o = c => Children(o)' = Children(o) \cup {n}
               /\ o # c => Children(o)' = Children(o)
    <2>1. Children(o) \subseteq 0..line_number /\ IsFiniteSet(0..line_number)
      BY FS_Interval DEF Children, TreeOK, Objects
    <2>2. IsFiniteSet(Children(o))
      BY <2>1, FS_Subset
    <2>3. n \notin Children(o)
      BY <1>1 DEF Children
    <2>4. \A m \in DOMAIN objects' :
            objects'[m].parent = o <=> (m = n /\ o = c) \/ m \in Children(o)
      BY <1>1, <1>2 DEF Children
    <2>5. QED
      BY <1>1, <2>2, <2>3, <2>4 DEF Children
  <1>5. ASSUME NEW o \in DOMAIN objects'
        PROVE  objects'[o].child_count = Cardinality(Children(o)')
    <2>1. CASE o = n
      <3>1. Children(o) = {}
        <4>1. \A m \in DOMAIN objects :
                objects[m].parent = NULL \/ objects[m].parent \in DOMAIN objects
          BY DEF ParentsComeFirst
        <4>2. n # NULL
          BY <1>1, NULLAssumption
        <4>3. QED
          BY <1>1, <2>1, <4>1, <4>2 DEF Children
      <3>2. Children(o)' = {}
        BY <1>1, <1>4, <2>1, <3>1
      <3>3. QED
        BY <1>2, <2>1, <3>2, FS_EmptySet
    <2>2. CASE o # n
      <3>1. o \in DOMAIN objects
        BY <1>1, <2>2
      <3>2. objects[o].child_count = Cardinality(Children(o))
        BY <3>1 DEF ChildrenCounted
      <3>3. CASE o = c
        <4>1. Cardinality(Children(o)') = Cardinality(Children(o)) + 1
          BY <1>4, <3>3, FS_AddElement
        <4>2. QED
          BY <1>3, <3>1, <3>2, <3>3, <4>1
      <3>4. CASE o # c
        BY <1>3, <1>4, <3>1, <3>2, <3>4
      <3>5. QED
        BY <3>3, <3>4
    <2>3. QED
      BY <2>1, <2>2
  <1>6. QED
    BY <1>5 DEF ChildrenCounted

NestInv == Landed /\ ChildrenCounted /\ Nested

\* A line that neither names an object nor ends one, nor is a keyword.
LEMMA NestStays ==
  ASSUME NestInv, UNCHANGED <<objects, keywords, closed, curr_object>>,
         UNCHANGED line_number,
         pc' \in {"read", "check"} => pc \in {"read", "check"}
  PROVE  NestInv'
  <1>a. ChildrenCounted'
    BY DEF NestInv, ChildrenCounted, Children
  <1>b. \A o, m : (IsInnermost(o, m))' <=> IsInnermost(o, m)
    BY DEF IsInnermost, OpenAt, Opened, Ended
  <1>c. Named' = Named
    BY DEF Named
  <1>1. Landed' /\ ChildrenCounted'
    BY <1>a, <1>b, <1>c DEF NestInv, Landed
  <1>2. Nested'
    BY DEF NestInv, Nested, OnPath, OpenOnPath, OpenOnPathAt, Named, OpenAt,
           Opened, Ended
  <1>3. QED
    BY <1>1, <1>2 DEF NestInv


\* What has landed stays where it is.
LEMMA LandedStays ==
  ASSUME TreeOK, Landed, Grown, NEW m, NEW o,
         \/ m \in Named /\ o = objects[m].parent
         \/ m \in DOMAIN keywords /\ o = keywords[m]
  PROVE  (IsInnermost(o, m))'
  <1>1. IsInnermost(o, m)
    BY DEF Landed
  <1>2. m \in 1..(line_number + 1)
    BY DEF TreeOK, Objects, Keywords, Named, ROOT
  <1>3. QED
    BY <1>1, <1>2, InnermostStays

LEMMA NestRead ==
  ASSUME ReadingOK, TreeOK, ParentsComeFirst, NestInv, NEW line \in Lines,
         ReadLine(line)
  PROVE  NestInv'
  <1>0. PICK n, c : n = line_number + 1 /\ c = curr_object
    OBVIOUS
  <1>1. pc = "read" /\ line_number' = n
    BY <1>0 DEF ReadLine, SkipSFDU, SkipBlank, FoundEnd, KeepGathering,
      NewObject, EndObject, EndStatement, NewKeyword, Statement, Significant,
      NextLine
  <1>2. PICK p : OnPath(p) /\ OpenOnPath(p)
    BY <1>1 DEF NestInv, Nested
  <1>3. IsInnermost(c, n)
    BY <1>0, <1>2, CurrentIsInnermost
  <1>4. n \in 1..(line_number + 1)
    BY <1>0 DEF TreeOK
  <1>5. CASE NewObject(line)
    <2>1. /\ Grown /\ objects'[n].parent = c /\ n \notin DOMAIN objects
          /\ DOMAIN objects' = DOMAIN objects \cup {n}
          /\ \A o \in DOMAIN objects : objects'[o].parent = objects[o].parent
          /\ keywords' = keywords
      <3>1. objects'[n] = [parent |-> c, child_count |-> 0]
        BY <1>0, <1>5, NewObjectFacts
      <3>2. objects'[n].parent = c
        BY <3>1
      <3>3. QED
        BY <1>0, <1>5, <3>2, NewObjectFacts
    <2>2. (IsInnermost(c, n))'
      BY <1>3, <1>4, <2>1, InnermostStays
    <2>3. \A m \in Named' : (IsInnermost(objects[m].parent, m))'
      <3>1. TAKE m \in Named'
      <3>2. PICK o : o = objects'[m].parent
        OBVIOUS
      <3>3. CASE m = n
        BY <2>1, <2>2, <3>2, <3>3
      <3>4. CASE m # n
        <4>1. m \in Named /\ o = objects[m].parent
          BY <2>1, <3>2, <3>4 DEF Named
        <4>2. (IsInnermost(o, m))'
          BY <2>1, <4>1, LandedStays DEF NestInv
        <4>3. QED
          BY <3>2, <4>2
      <3>5. QED
        BY <3>3, <3>4
    <2>4. \A m \in DOMAIN keywords' : (IsInnermost(keywords[m], m))'
      <3>1. TAKE m \in DOMAIN keywords'
      <3>2. PICK o : o = keywords'[m]
        OBVIOUS
      <3>3. (IsInnermost(o, m))'
        BY <2>1, <3>2, LandedStays DEF NestInv
      <3>4. QED
        BY <3>2, <3>3
    <2>5. Nested'
      BY <1>2, <1>5, PathLonger DEF Nested
    <2>6. ChildrenCounted'
      BY <1>5, ChildrenStep DEF NestInv
    <2>7. QED
      BY <2>3, <2>4, <2>5, <2>6 DEF NestInv, Landed
  <1>6. ASSUME Grown, objects' = objects
        PROVE  /\ \A m \in Named' : (IsInnermost(objects[m].parent, m))'
               /\ ChildrenCounted'
    <2>1. \A m \in Named' : (IsInnermost(objects[m].parent, m))'
      <3>1. TAKE m \in Named'
      <3>2. PICK o : o = objects'[m].parent
        OBVIOUS
      <3>3. (IsInnermost(o, m))'
        BY <1>6, <3>2, LandedStays DEF NestInv, Named
      <3>4. QED
        BY <3>2, <3>3
    <2>2. ChildrenCounted'
      BY <1>6 DEF NestInv, ChildrenCounted, Children
    <2>3. QED
      BY <2>1, <2>2
  <1>7. ASSUME Grown, NEW m, m \in DOMAIN keywords, keywords'[m] = keywords[m]
        PROVE  (IsInnermost(keywords[m], m))'
    <2>1. PICK o : o = keywords[m]
      OBVIOUS
    <2>2. (IsInnermost(o, m))'
      BY <1>7, <2>1, LandedStays DEF NestInv
    <2>3. QED
      BY <1>7, <2>1, <2>2
  <1>8. CASE EndObject(line)
    <2>1. Grown /\ objects' = objects /\ keywords' = keywords
      BY <1>0, <1>8, EndObjectFacts
    <2>2. \A m \in DOMAIN keywords' : (IsInnermost(keywords[m], m))'
      BY <1>7, <2>1
    <2>3. Nested'
      BY <1>2, <1>8, PathShorter DEF Nested
    <2>4. QED
      BY <1>6, <2>1, <2>2, <2>3 DEF NestInv, Landed
  <1>9. CASE NewKeyword(line)
    <2>1. /\ UNCHANGED <<objects, closed, curr_object>>
          /\ DOMAIN keywords' = DOMAIN keywords \cup {n} /\ keywords'[n] = c
          /\ \A m \in DOMAIN keywords : m # n => keywords'[m] = keywords[m]
      BY <1>0, <1>1, <1>9 DEF NewKeyword
    <2>2. Grown
      BY <1>0, <1>1, <2>1 DEF Grown
    <2>3. (IsInnermost(c, n))'
      BY <1>3, <1>4, <2>2, InnermostStays
    <2>4. \A m \in DOMAIN keywords' : (IsInnermost(keywords[m], m))'
      <3>1. TAKE m \in DOMAIN keywords'
      <3>2. CASE m = n
        <4>1. PICK o : o = keywords'[m]
          OBVIOUS
        <4>2. (IsInnermost(o, m))'
          BY <2>1, <2>3, <3>2, <4>1
        <4>3. QED
          BY <4>1, <4>2
      <3>3. CASE m # n
        BY <1>7, <2>1, <2>2, <3>3
      <3>4. QED
        BY <3>2, <3>3
    <2>5. Nested'
      BY <1>0, <1>1, <1>2, <2>1, PathStays DEF Nested
    <2>6. QED
      BY <1>6, <2>1, <2>2, <2>4, <2>5 DEF NestInv, Landed
  <1>10. CASE ~NewObject(line) /\ ~EndObject(line) /\ ~NewKeyword(line)
    <2>1. UNCHANGED <<objects, keywords, closed, curr_object>>
      BY <1>10 DEF ReadLine, SkipSFDU, SkipBlank, FoundEnd, KeepGathering,
        EndStatement, Statement, Significant, NextLine, tree
    <2>2. Grown
      BY <1>0, <1>1, <2>1 DEF Grown
    <2>3. \A m \in DOMAIN keywords' : (IsInnermost(keywords[m], m))'
      BY <1>7, <2>1, <2>2
    <2>4. Nested'
      BY <1>0, <1>1, <1>2, <2>1, PathStays DEF Nested
    <2>5. QED
      BY <1>6, <2>1, <2>2, <2>3, <2>4 DEF NestInv, Landed
  <1>11. QED
    BY <1>5, <1>8, <1>9, <1>10

LEMMA NestStep ==
  ASSUME IInv, NestInv, [Next]_vars
  PROVE  NestInv'
  <1>1. CASE OpenFiles
    <2>0. pc = "open" /\ pc' \in {"read", "close"}
      BY <1>1 DEF OpenFiles
    <2>1. /\ objects = <<>> /\ keywords = <<>> /\ closed = {} /\ line_number = 0
          /\ UNCHANGED <<keywords, closed, line_number>>
      BY <2>0, <1>1 DEF OpenFiles, reading, IInv, Fresh
    <2>2. CASE call.label = "unreadable"
      <3>1. UNCHANGED <<objects, curr_object>> /\ pc' = "close"
        BY <1>1, <2>2 DEF OpenFiles
      <3>2. QED
        BY <2>1, <3>1, NestStays
    <2>3. CASE call.label # "unreadable"
      <3>1. /\ objects' = [m \in {0} |-> [parent |-> NULL, child_count |-> 0]]
            /\ curr_object' = 0
        BY <1>1, <2>3 DEF OpenFiles, ROOT
      <3>2. DOMAIN objects' = {0} /\ Named' = {} /\ DOMAIN keywords' = {}
        BY <2>1, <3>1 DEF Named, ROOT
      <3>3. Landed'
        BY <3>2 DEF Landed
      <3>4. ChildrenCounted'
        <4>1. (Children(0))' = {}
          BY <3>1, NULLAssumption DEF Children
        <4>2. objects'[0].child_count = 0
          BY <3>1
        <4>3. (Cardinality(Children(0)))' = 0
          BY <4>1, FS_EmptySet
        <4>4. QED
          BY <3>2, <4>2, <4>3 DEF ChildrenCounted
      <3>5. OnPath(<<0>>)'
        BY <3>1 DEF OnPath, ROOT
      <3>6. OpenOnPath(<<0>>)'
        BY <3>2 DEF OpenOnPath, OpenOnPathAt
      <3>7. QED
        BY <3>3, <3>4, <3>5, <3>6 DEF NestInv, Nested
    <2>4. QED
      BY <2>2, <2>3
  <1>2. ASSUME NEW line \in Lines, ReadLine(line)
        PROVE  NestInv'
    BY <1>2, NestRead DEF IInv
  <1>3. CASE LinesEnd
    BY <1>3, NestStays DEF LinesEnd, tree, reading
  <1>4. CASE CheckEnd
    <2>1. /\ pc' = "close" /\ UNCHANGED <<line_number, closed, keywords, curr_object>>
          /\ objects' = IF line_number = 0 THEN <<>> ELSE objects
      BY <1>4 DEF CheckEnd, reading
    <2>2. CASE line_number = 0
      <3>1. \A m : m \notin DOMAIN keywords
        BY <2>2 DEF IInv, TreeOK, Keywords
      <3>2. objects' = <<>>
        BY <2>1, <2>2
      <3>3. DOMAIN objects' = {} /\ Named' = {} /\ \A m : m \notin DOMAIN keywords'
        BY <2>1, <3>1, <3>2 DEF Named
      <3>4. Landed' /\ ChildrenCounted'
        BY <3>3 DEF Landed, ChildrenCounted
      <3>5. QED
        BY <2>1, <3>4 DEF NestInv, Nested
    <2>3. CASE line_number # 0
      BY <2>1, <2>3, NestStays
    <2>4. QED
      BY <2>2, <2>3
  <1>5. CASE CloseFiles
    BY <1>5, NestStays DEF CloseFiles, tree
  <1>6. CASE UNCHANGED vars
    BY <1>6, NestStays DEF vars, reading, tree
  <1>7. QED
    BY <1>1, <1>2, <1>3, <1>4, <1>5, <1>6 DEF Next

\* There is one innermost object.
LEMMA OneInnermost ==
  ASSUME TreeOK, NEW n, NEW o, IsInnermost(o, n)
  PROVE  o = CHOOSE q \in DOMAIN objects :
               /\ q < n /\ OpenAt(q, n - 1)
               /\ \A p \in DOMAIN objects : p < n /\ OpenAt(p, n - 1) => p <= q
  <1>1. \A q \in DOMAIN objects : q \in Int
    BY DEF TreeOK, Objects
  <1>2. /\ o \in DOMAIN objects /\ o < n /\ OpenAt(o, n - 1)
        /\ \A p \in DOMAIN objects : p < n /\ OpenAt(p, n - 1) => p <= o
    BY DEF IsInnermost
  <1>3. ASSUME NEW q \in DOMAIN objects, q < n, OpenAt(q, n - 1),
               \A p \in DOMAIN objects : p < n /\ OpenAt(p, n - 1) => p <= q
        PROVE  q = o
    <2>1. q <= o /\ o <= q
      BY <1>2, <1>3
    <2>2. QED
      BY <1>1, <1>2, <2>1
  <1>4. QED
    BY <1>2, <1>3

\* In a file of any length, with ends too many or too few, an object or a
\* keyword lands in the innermost object that the END_OBJECTs before it leave
\* open, and objects count those that landed in them (OdlParseFile).
THEOREM NestingFollowsEndsThm == Spec => []NestingFollowsEnds
  <1>1. Init => NestInv
    BY DEF Init, NestInv, Landed, ChildrenCounted, Nested, Named
  <1>2. IInv /\ NestInv /\ [Next]_vars => NestInv'
    BY NestStep
  <1>3. IInv /\ NestInv => NestingFollowsEnds
    <2>1. SUFFICES ASSUME IInv, NestInv
                   PROVE  NestingFollowsEnds
      OBVIOUS
    <2>2. TreeOK
      BY <2>1 DEF IInv
    <2> DEFINE Innermost(n) ==
                 CHOOSE q \in DOMAIN objects :
                   /\ q < n /\ OpenAt(q, n - 1)
                   /\ \A p \in DOMAIN objects :
                        p < n /\ OpenAt(p, n - 1) => p <= q
    <2>3. \A n, o : IsInnermost(o, n) => o = Innermost(n)
      BY <2>2, OneInnermost
    <2> HIDE DEF Innermost
    <2>4. /\ \A n \in DOMAIN objects \ {ROOT} : objects[n].parent = Innermost(n)
          /\ \A n \in DOMAIN keywords : keywords[n] = Innermost(n)
      BY <2>1, <2>3 DEF NestInv, Landed, Named
    <2>5. \A o \in DOMAIN objects :
            objects[o].child_count
              = Cardinality({n \in DOMAIN objects : objects[n].parent = o})
      BY <2>1 DEF NestInv, ChildrenCounted, Children
    <2>6. QED
      BY <2>4, <2>5 DEF NestingFollowsEnds, Innermost
  <1>4. QED
    BY <1>1, <1>2, <1>3, Invariance, PTL DEF Spec

-----------------------------------------------------------------------------
(***************************************************************************)
(* Where statements end.  The flags say of the text what a reading of all  *)
(* of it would; the text is what follows the last statement, from the      *)
(* first line that counts; and no shorter run of it is a statement.        *)
(***************************************************************************)

\* The lines after m and up to n of f that can begin a statement.
FreshIn(f, m, n) ==
  {i \in (m + 1)..n : RemoveComment(f[i]) # "blank" /\ ~(i = 1 /\ f[i] = "sfdu")}

\* The n-th line l cannot.
Skips(l, n) == RemoveComment(l) = "blank" \/ (n = 1 /\ l = "sfdu")

IsFirst(S, i) == i \in S /\ \A j \in S : i <= j
IsLast(S, m, n) == m \in S \cup {0} /\ m <= n /\ \A k \in S : k <= n => k <= m

\* Lines from to n of f without their comments.
Run(f, from, n) == [i \in 1..(n - from + 1) |-> RemoveComment(f[from + i - 1])]

Whole(S, f, n) ==
  \E m \in 0..n : \E from \in 1..n :
    /\ IsLast(S, m, n - 1) /\ IsFirst(FreshIn(f, m, n), from)
    /\ Shortest(Run(f, from, n))

Rest(S, f, n, t) ==
  \E m \in 0..n :
    /\ IsLast(S, m, n)
    /\ \/ t = <<>> /\ FreshIn(f, m, n) = {}
       \/ /\ t # <<>>
          /\ \E from \in 1..n :
               IsFirst(FreshIn(f, m, n), from) /\ t = Run(f, from, n)

HasEqualsIn(t) == \E i \in DOMAIN t : HasEquals(t[i])
HasValueIn(t) ==
  \E i \in DOMAIN t : \E k \in i..Len(t) : HasEquals(t[i]) /\ ~EndsInEquals(t[k])
NotYet(t) == \A n \in 1..Len(t) : ~Complete(SubSeq(t, 1, n))

FlagsTell ==
  (equals_found <=> HasEqualsIn(text)) /\ (val_found <=> HasValueIn(text))

Gathering ==
  pc \in {"open", "read", "check"} /\ ~end_found =>
    Rest(StatementEnds, file, line_number, text) /\ FlagsTell /\ NotYet(text)

ShortInv ==
  /\ Len(file) = line_number
  /\ pc \in {"open", "read"} => ~end_found
  /\ \A n \in StatementEnds : Whole(StatementEnds, file, n)
  /\ Gathering

LEMMA EndsType ==
  ASSUME TreeOK
  PROVE  line_number \in Nat /\ StatementEnds \subseteq 1..line_number
  <1>1. /\ line_number \in Nat /\ DOMAIN objects \subseteq 0..line_number
        /\ DOMAIN keywords \subseteq 1..line_number /\ closed \subseteq 1..line_number
    BY DEF TreeOK, Objects, Keywords
  <1>2. ASSUME NEW n \in StatementEnds
        PROVE  n \in 1..line_number
    <2>1. CASE n \in DOMAIN objects \ {ROOT}
      BY <1>1, <2>1 DEF ROOT
    <2>2. CASE n \in DOMAIN keywords \cup closed
      BY <1>1, <2>2
    <2>3. QED
      BY <2>1, <2>2 DEF StatementEnds
  <1>3. QED
    BY <1>1, <1>2

\* The runs of earlier lines do not change with another line.
LEMMA LastStays ==
  ASSUME NEW N \in Nat, NEW S, S \subseteq 1..N, NEW T,
         T = S \/ T = S \cup {N + 1}, NEW m, NEW n \in 0..N, IsLast(S, m, n)
  PROVE  IsLast(T, m, n)
  <1>1. m \in S \cup {0} /\ m <= n /\ \A k \in S : k <= n => k <= m
    BY DEF IsLast
  <1>2. m \in T \cup {0}
    BY <1>1
  <1>3. ASSUME NEW k \in T, k <= n
        PROVE  k <= m
    <2>1. k # N + 1
      BY <1>3
    <2>2. k \in S
      BY <1>3, <2>1
    <2>3. QED
      BY <1>1, <1>3, <2>2
  <1>4. QED
    BY <1>1, <1>2, <1>3 DEF IsLast

LEMMA LastNext ==
  ASSUME NEW N \in Nat, NEW S, S \subseteq 1..N, NEW m, IsLast(S, m, N)
  PROVE  IsLast(S, m, N + 1)
  BY DEF IsLast

LEMMA LastNew ==
  ASSUME NEW N \in Nat, NEW S, S \subseteq 1..N
  PROVE  IsLast(S \cup {N + 1}, N + 1, N + 1)
  BY DEF IsLast

LEMMA AppendKeeps ==
  ASSUME NEW A, NEW f \in Seq(A), NEW l
  PROVE  /\ \A i \in 1..Len(f) : Append(f, l)[i] = f[i]
         /\ Append(f, l)[Len(f) + 1] = l
         /\ Len(Append(f, l)) = Len(f) + 1 /\ Len(f) \in Nat
         /\ DOMAIN Append(f, l) = 1..(Len(f) + 1) /\ DOMAIN f = 1..Len(f)
  OBVIOUS

\* Files that agree on a line agree on whether it can begin a statement.
LEMMA FreshAlike ==
  ASSUME NEW f, NEW g, NEW m, NEW n, NEW k, NEW i, f[i] = g[i],
         i \in (m + 1)..n <=> i \in (m + 1)..k
  PROVE  i \in FreshIn(g, m, n) <=> i \in FreshIn(f, m, k)
  BY DEF FreshIn

LEMMA FreshStays ==
  ASSUME NEW f \in Seq(Lines), NEW l, NEW m \in Nat, NEW n \in 0..Len(f)
  PROVE  FreshIn(Append(f, l), m, n) = FreshIn(f, m, n)
  <1>1. PICK g : g = Append(f, l)
    OBVIOUS
  <1>2. \A i \in (m + 1)..n : g[i] = f[i]
    BY <1>1, AppendKeeps
  <1>3. ASSUME NEW i
        PROVE  i \in FreshIn(g, m, n) <=> i \in FreshIn(f, m, n)
    <2>1. CASE i \in (m + 1)..n
      BY <1>2, <2>1, FreshAlike
    <2>2. CASE i \notin (m + 1)..n
      BY <2>2 DEF FreshIn
    <2>3. QED
      BY <2>1, <2>2
  <1>4. FreshIn(g, m, n) = FreshIn(f, m, n)
    BY <1>3
  <1>5. QED
    BY <1>1, <1>4

LEMMA FreshNext ==
  ASSUME NEW f \in Seq(Lines), NEW l, NEW m \in 0..Len(f), NEW n, n = Len(f) + 1
  PROVE  /\ Skips(l, n) =>
              FreshIn(Append(f, l), m, n) = FreshIn(f, m, n - 1)
         /\ ~Skips(l, n) =>
              FreshIn(Append(f, l), m, n) = FreshIn(f, m, n - 1) \cup {n}
  <1>0. PICK g : g = Append(f, l)
    OBVIOUS
  <1>1. /\ Len(f) \in Nat /\ n - 1 = Len(f) /\ n \in Nat
        /\ (m + 1)..n = ((m + 1)..(n - 1)) \cup {n}
        /\ n \notin (m + 1)..(n - 1)
    OBVIOUS
  <1>2. (\A i \in (m + 1)..(n - 1) : g[i] = f[i]) /\ g[n] = l
    BY <1>0, <1>1, AppendKeeps
  <1>3. ASSUME NEW i
        PROVE  i \in FreshIn(g, m, n) <=>
                 i \in FreshIn(f, m, n - 1) \/ (i = n /\ ~Skips(l, n))
    <2>1. CASE i \in (m + 1)..(n - 1)
      <3>1. i \in (m + 1)..n /\ i # n
        BY <1>1, <2>1
      <3>2. QED
        BY <1>2, <2>1, <3>1, FreshAlike
    <2>2. CASE i = n
      <3>1. i \in (m + 1)..n /\ i \notin (m + 1)..(n - 1) /\ g[i] = l
        BY <1>1, <1>2, <2>2
      <3>2. i \notin FreshIn(f, m, n - 1)
        BY <3>1 DEF FreshIn
      <3>3. i \in FreshIn(g, m, n) <=> ~Skips(l, n)
        BY <2>2, <3>1 DEF FreshIn, Skips
      <3>4. QED
        BY <2>2, <3>2, <3>3
    <2>3. CASE i \notin (m + 1)..(n - 1) /\ i # n
      <3>1. i \notin (m + 1)..n
        BY <1>1, <2>3
      <3>2. QED
        BY <2>3, <3>1 DEF FreshIn
    <2>4. QED
      BY <2>1, <2>2, <2>3
  <1>4. /\ Skips(l, n) => FreshIn(g, m, n) = FreshIn(f, m, n - 1)
        /\ ~Skips(l, n) => FreshIn(g, m, n) = FreshIn(f, m, n - 1) \cup {n}
    BY <1>3
  <1>5. QED
    BY <1>0, <1>4

LEMMA SequenceIsFunction ==
  ASSUME NEW A, NEW s \in Seq(A)
  PROVE  s = [i \in 1..Len(s) |-> s[i]]
  OBVIOUS

LEMMA RunStays ==
  ASSUME NEW f \in Seq(Lines), NEW l, NEW n \in 0..Len(f), NEW from \in 1..n
  PROVE  Run(Append(f, l), from, n) = Run(f, from, n)
  <1>1. \A i \in 1..(n - from + 1) : Append(f, l)[from + i - 1] = f[from + i - 1]
    <2>1. \A i \in 1..(n - from + 1) : from + i - 1 \in 1..Len(f)
      OBVIOUS
    <2>2. QED
      BY <2>1, AppendKeeps
  <1>2. QED
    BY <1>1 DEF Run

LEMMA RunNext ==
  ASSUME NEW f \in Seq(Lines), NEW l \in Lines, NEW from \in 1..Len(f)
  PROVE  Run(Append(f, l), from, Len(f) + 1)
           = Append(Run(f, from, Len(f)), RemoveComment(l))
  <1> DEFINE N == Len(f)
             r == Run(f, from, N)
             g == Append(f, l)
  <1>1. N \in Nat /\ from \in 1..N /\ N - from + 1 \in Nat
    OBVIOUS
  <1>2. /\ \A i \in 1..N : g[i] = f[i] /\ g[N + 1] = l
    BY AppendKeeps
  <1>3. r \in Seq(AllLines) /\ Len(r) = N - from + 1
    <2>1. \A i \in 1..(N - from + 1) : RemoveComment(f[from + i - 1]) \in AllLines
      <3>1. \A i \in 1..(N - from + 1) : f[from + i - 1] \in Lines
        OBVIOUS
      <3>2. QED
        BY <3>1, RemoveCommentType
    <2>2. QED
      BY <1>1, <2>1 DEF Run
  <1>4. RemoveComment(l) \in AllLines
    BY RemoveCommentType
  <1>h. N = Len(f) /\ r = Run(f, from, N) /\ g = Append(f, l)
    OBVIOUS
  <1>5. \A i \in 1..(N - from + 1) : r[i] = RemoveComment(f[from + i - 1])
    BY DEF Run
  <1>6. \A i \in 1..(N + 1 - from + 1) :
          Append(r, RemoveComment(l))[i] = RemoveComment(g[from + i - 1])
    <2>1. TAKE i \in 1..(N + 1 - from + 1)
    <2>2. CASE i = N + 1 - from + 1
      <3>1. i = Len(r) + 1 /\ from + i - 1 = N + 1
        BY <1>1, <1>3, <2>2
      <3>2. Append(r, RemoveComment(l))[i] = RemoveComment(l)
        BY <1>3, <1>4, <3>1, AppendKeeps
      <3>3. QED
        BY <1>2, <3>1, <3>2
    <2>3. CASE i # N + 1 - from + 1
      <3>1. i \in 1..Len(r) /\ i \in 1..(N - from + 1) /\ from + i - 1 \in 1..N
        BY <1>1, <1>3, <2>3
      <3>2. Append(r, RemoveComment(l))[i] = r[i]
        BY <1>3, <3>1, AppendKeeps
      <3>3. QED
        BY <1>2, <1>5, <3>1, <3>2
    <2>4. QED
      BY <2>2, <2>3
  <1> HIDE DEF N, r, g
  <1>7. Append(r, RemoveComment(l))
          = [i \in 1..(N + 1 - from + 1) |-> RemoveComment(g[from + i - 1])]
    <2>1. /\ Append(r, RemoveComment(l)) \in Seq(AllLines)
          /\ Len(Append(r, RemoveComment(l))) = N + 1 - from + 1
      BY <1>1, <1>3, <1>4, AppendKeeps, Longer
    <2>2. Append(r, RemoveComment(l))
            = [i \in 1..(N + 1 - from + 1) |-> Append(r, RemoveComment(l))[i]]
      BY <2>1, SequenceIsFunction
    <2>3. QED
      BY <1>6, <2>2
  <1>8. QED
    BY <1>h, <1>7 DEF Run

LEMMA RunOfOne ==
  ASSUME NEW f \in Seq(Lines), NEW l \in Lines
  PROVE  Run(Append(f, l), Len(f) + 1, Len(f) + 1) = Append(<<>>, RemoveComment(l))
  <1>1. Append(f, l)[Len(f) + 1] = l /\ Len(f) \in Nat
    BY AppendKeeps
  <1>2. Run(Append(f, l), Len(f) + 1, Len(f) + 1)
          = [i \in 1..1 |-> RemoveComment(Append(f, l)[Len(f) + 1 + i - 1])]
    BY <1>1 DEF Run
  <1>3. \A i \in 1..1 : RemoveComment(Append(f, l)[Len(f) + 1 + i - 1]) = RemoveComment(l)
    BY <1>1
  <1>4. Append(<<>>, RemoveComment(l)) = [i \in 1..1 |-> RemoveComment(l)]
    OBVIOUS
  <1>5. QED
    BY <1>2, <1>3, <1>4

-----------------------------------------------------------------------------
(* The flags. *)

LEMMA EqualsOfLonger ==
  ASSUME NEW t \in Seq(AllLines), NEW l \in AllLines, NEW g, g = Append(t, l)
  PROVE  HasEqualsIn(g) <=> HasEqualsIn(t) \/ HasEquals(l)
  <1>1. /\ \A i \in 1..Len(t) : g[i] = t[i]
        /\ g[Len(t) + 1] = l /\ Len(t) \in Nat
        /\ DOMAIN g = 1..(Len(t) + 1) /\ DOMAIN t = 1..Len(t)
    BY AppendKeeps
  <1>2. 1..(Len(t) + 1) = (1..Len(t)) \cup {Len(t) + 1}
    BY <1>1
  <1>3. HasEqualsIn(g) <=> \E i \in 1..(Len(t) + 1) : HasEquals(g[i])
    BY <1>1 DEF HasEqualsIn
  <1>4. HasEqualsIn(t) <=> \E i \in 1..Len(t) : HasEquals(t[i])
    BY <1>1 DEF HasEqualsIn
  <1>5. QED
    BY <1>1, <1>2, <1>3, <1>4

LEMMA ValueOfLonger ==
  ASSUME NEW t \in Seq(AllLines), NEW l \in AllLines, NEW g, g = Append(t, l)
  PROVE  HasValueIn(g) <=> HasValueIn(t) \/ (HasEqualsIn(g) /\ ~EndsInEquals(l))
  <1> DEFINE N == Len(t)
  <1>1. /\ \A i \in 1..N : g[i] = t[i]
        /\ g[N + 1] = l /\ N \in Nat /\ Len(g) = N + 1
        /\ DOMAIN g = 1..(N + 1) /\ DOMAIN t = 1..N
    BY AppendKeeps
  <1>2. HasValueIn(g) <=>
          \E i \in 1..(N + 1) : \E k \in i..(N + 1) :
            HasEquals(g[i]) /\ ~EndsInEquals(g[k])
    BY <1>1 DEF HasValueIn
  <1>3. HasValueIn(t) <=>
          \E i \in 1..N : \E k \in i..N : HasEquals(t[i]) /\ ~EndsInEquals(t[k])
    BY <1>1 DEF HasValueIn
  <1>4. HasEqualsIn(g) <=> \E i \in 1..(N + 1) : HasEquals(g[i])
    BY <1>1 DEF HasEqualsIn
  <1> HIDE DEF N
  <1>5. ASSUME HasValueIn(g)
        PROVE  HasValueIn(t) \/ (HasEqualsIn(g) /\ ~EndsInEquals(l))
    <2>0. PICK i \in 1..(N + 1) :
            \E k \in i..(N + 1) : HasEquals(g[i]) /\ ~EndsInEquals(g[k])
      BY <1>2, <1>5
    <2>1. PICK k \in i..(N + 1) : HasEquals(g[i]) /\ ~EndsInEquals(g[k])
      BY <2>0
    <2>2. CASE k = N + 1
      BY <1>1, <1>4, <2>1, <2>2
    <2>3. CASE k # N + 1
      <3>1. i \in 1..N /\ k \in i..N /\ k \in 1..N
        BY <1>1, <2>1, <2>3
      <3>2. HasEquals(t[i]) /\ ~EndsInEquals(t[k])
        BY <1>1, <2>1, <3>1
      <3>3. QED
        BY <1>3, <3>1, <3>2
    <2>4. QED
      BY <2>2, <2>3
  <1>6. ASSUME HasValueIn(t)
        PROVE  HasValueIn(g)
    <2>0. PICK i \in 1..N :
            \E k \in i..N : HasEquals(t[i]) /\ ~EndsInEquals(t[k])
      BY <1>3, <1>6
    <2>1. PICK k \in i..N : HasEquals(t[i]) /\ ~EndsInEquals(t[k])
      BY <2>0
    <2>2. i \in 1..(N + 1) /\ k \in i..(N + 1) /\ k \in 1..N
      BY <1>1, <2>1
    <2>3. HasEquals(g[i]) /\ ~EndsInEquals(g[k])
      BY <1>1, <2>1, <2>2
    <2>4. QED
      BY <1>2, <2>2, <2>3
  <1>7. ASSUME HasEqualsIn(g), ~EndsInEquals(l)
        PROVE  HasValueIn(g)
    <2>1. PICK i \in 1..(N + 1) : HasEquals(g[i])
      BY <1>4, <1>7
    <2>2. N + 1 \in i..(N + 1) /\ ~EndsInEquals(g[N + 1])
      BY <1>1, <1>7, <2>1
    <2>3. QED
      BY <1>2, <2>1, <2>2
  <1>8. QED
    BY <1>5, <1>6, <1>7

LEMMA GatheredType ==
  ASSUME ReadingOK, NEW line \in Lines
  PROVE  /\ text \in Seq(AllLines) /\ RemoveComment(line) \in AllLines
         /\ Gathered(line) = Append(text, RemoveComment(line))
         /\ Gathered(line) \in Seq(AllLines) /\ Gathered(line) # <<>>
  <1>1. text \in Seq(AllLines) /\ RemoveComment(line) \in AllLines
    BY RemoveCommentType DEF ReadingOK
  <1>2. Append(text, RemoveComment(line)) \in Seq(AllLines)
          /\ Append(text, RemoveComment(line)) # <<>>
    <2>1. Len(Append(text, RemoveComment(line))) > 0
      BY <1>1, AppendKeeps
    <2>2. QED
      BY <1>1, <2>1, Longer
  <1>3. QED
    BY <1>1, <1>2 DEF Gathered

\* The flags after a line tell of the text with that line.
LEMMA FlagsNext ==
  ASSUME ReadingOK, FlagsTell, NEW line \in Lines
  PROVE  /\ EqualsFound(line) <=> HasEqualsIn(Gathered(line))
         /\ ValFound(line) <=> HasValueIn(Gathered(line))
  <1>1. PICK g, l : g = Gathered(line) /\ l = RemoveComment(line)
    OBVIOUS
  <1>2. text \in Seq(AllLines) /\ l \in AllLines /\ g = Append(text, l)
    BY <1>1, GatheredType
  <1>3. HasEqualsIn(g) <=> HasEqualsIn(text) \/ HasEquals(l)
    BY <1>2, EqualsOfLonger
  <1>4. HasValueIn(g) <=> HasValueIn(text) \/ (HasEqualsIn(g) /\ ~EndsInEquals(l))
    BY <1>2, ValueOfLonger
  <1>5. EqualsFound(line) <=> HasEqualsIn(g)
    BY <1>1, <1>3 DEF FlagsTell, EqualsFound
  <1>6. ValFound(line) <=> HasValueIn(g)
    BY <1>1, <1>4, <1>5 DEF FlagsTell, ValFound
  <1>7. QED
    BY <1>1, <1>5, <1>6

\* The parser takes the text for a statement exactly when it is one.
LEMMA BalancedIsComplete ==
  ASSUME ReadingOK, FlagsTell, NEW line \in Lines
  PROVE  Complete(Gathered(line)) <=> Gathered(line) = <<"end">> \/ Balanced(line)
  <1>1. PICK g : g = Gathered(line)
    OBVIOUS
  <1>2. HasValue(g) <=> HasValueIn(g) /\ CheckBalance(g)
    BY DEF HasValue, HasValueIn
  <1>3. HasValueIn(g) => HasEqualsIn(g)
    BY DEF HasValueIn, HasEqualsIn
  <1>4. Balanced(line) <=>
          g = <<"end_object">> \/ (HasEqualsIn(g) /\ HasValueIn(g) /\ CheckBalance(g))
    BY <1>1, FlagsNext DEF Balanced
  <1>5. Complete(g) <=> g = <<"end">> \/ g = <<"end_object">> \/ HasValue(g)
    BY DEF Complete
  <1>6. QED
    BY <1>1, <1>2, <1>3, <1>4, <1>5

LEMMA StartsOfLonger ==
  ASSUME NEW t \in Seq(AllLines), NEW l \in AllLines, NEW g, g = Append(t, l)
  PROVE  /\ \A n \in 1..Len(t) : SubSeq(g, 1, n) = SubSeq(t, 1, n)
         /\ SubSeq(g, 1, Len(g)) = g
         /\ Len(g) = Len(t) + 1 /\ Len(t) \in Nat
  OBVIOUS

LEMMA NotYetNext ==
  ASSUME ReadingOK, NotYet(text), NEW line \in Lines
  PROVE  /\ Complete(Gathered(line)) => Shortest(Gathered(line))
         /\ ~Complete(Gathered(line)) => NotYet(Gathered(line))
  <1>1. PICK g, l : g = Gathered(line) /\ l = RemoveComment(line)
    OBVIOUS
  <1>2. text \in Seq(AllLines) /\ l \in AllLines /\ g = Append(text, l)
    BY <1>1, GatheredType
  <1>3. /\ \A n \in 1..Len(text) : SubSeq(g, 1, n) = SubSeq(text, 1, n)
        /\ SubSeq(g, 1, Len(g)) = g
        /\ Len(g) = Len(text) + 1 /\ Len(text) \in Nat
    BY <1>2, StartsOfLonger
  <1>4. \A n \in 1..Len(text) : ~Complete(SubSeq(g, 1, n))
    BY <1>3 DEF NotYet
  <1>5. Complete(g) => Shortest(g)
    BY <1>3, <1>4 DEF Shortest
  <1>6. ~Complete(g) => NotYet(g)
    <2>1. \A n \in 1..Len(g) : n \in 1..Len(text) \/ n = Len(g)
      BY <1>3
    <2>2. QED
      BY <1>3, <1>4, <2>1 DEF NotYet
  <1>7. QED
    BY <1>1, <1>5, <1>6

-----------------------------------------------------------------------------
(* One more line. *)

\* A statement found stays one, as the lines it was read from stay.
LEMMA WholeStays ==
  ASSUME NEW f \in Seq(Lines), NEW l, NEW g, g = Append(f, l),
         NEW N, N = Len(f), NEW S, S \subseteq 1..N,
         NEW T, T = S \/ T = S \cup {N + 1}, NEW n \in S, Whole(S, f, n)
  PROVE  Whole(T, g, n)
  <1>1. PICK m \in 0..n :
          \E from \in 1..n :
            /\ IsLast(S, m, n - 1) /\ IsFirst(FreshIn(f, m, n), from)
            /\ Shortest(Run(f, from, n))
    BY DEF Whole
  <1>2. PICK from \in 1..n :
          /\ IsLast(S, m, n - 1) /\ IsFirst(FreshIn(f, m, n), from)
          /\ Shortest(Run(f, from, n))
    BY <1>1
  <1>3. N \in Nat /\ n \in 1..N /\ n \in 0..Len(f) /\ n - 1 \in 0..N /\ m \in Nat
    OBVIOUS
  <1>4. IsLast(T, m, n - 1)
    BY <1>2, <1>3, LastStays
  <1>5. FreshIn(g, m, n) = FreshIn(f, m, n)
    BY <1>3, FreshStays
  <1>6. Run(g, from, n) = Run(f, from, n)
    BY <1>3, RunStays
  <1>7. QED
    BY <1>2, <1>4, <1>5, <1>6 DEF Whole

\* A blank line, or the SFDU, before a statement belongs to none.
LEMMA RestSkips ==
  ASSUME NEW f \in Seq(Lines), NEW l, NEW g, g = Append(f, l),
         NEW N, N = Len(f), NEW S, S \subseteq 1..N, Rest(S, f, N, <<>>),
         RemoveComment(l) = "blank" \/ (N = 0 /\ l = "sfdu")
  PROVE  Rest(S, g, N + 1, <<>>)
  <1>1. PICK m \in 0..N : IsLast(S, m, N) /\ FreshIn(f, m, N) = {}
    BY DEF Rest
  <1>2. N \in Nat /\ m \in 0..Len(f) /\ m \in 0..(N + 1) /\ (N + 1) - 1 = N
    OBVIOUS
  <1>3. FreshIn(g, m, N + 1) = {}
    <2>1. PICK n : n = N + 1
      OBVIOUS
    <2>2. n = Len(f) + 1 /\ n - 1 = N /\ (N = 0 => n = 1)
      BY <1>2, <2>1
    <2>a. Skips(l, n)
      BY <2>2 DEF Skips
    <2>b. FreshIn(Append(f, l), m, n) = FreshIn(f, m, n - 1)
      BY <1>2, <2>2, <2>a, FreshNext
    <2>3. FreshIn(g, m, n) = FreshIn(f, m, n - 1)
      BY <2>b
    <2>4. QED
      BY <1>1, <2>1, <2>2, <2>3
  <1>4. IsLast(S, m, N + 1)
    BY <1>1, <1>2, LastNext
  <1>5. QED
    BY <1>2, <1>3, <1>4 DEF Rest

\* Any other line is gathered with those since the first that counts.
Longest(S, f, N, g, t) ==
  \E m \in 0..N : \E from \in 1..(N + 1) :
    /\ IsLast(S, m, N) /\ IsFirst(FreshIn(g, m, N + 1), from)
    /\ t = Run(g, from, N + 1)

LEMMA RestGathers ==
  ASSUME NEW f \in Seq(Lines), NEW l \in Lines, NEW g, g = Append(f, l),
         NEW N, N = Len(f), NEW S, S \subseteq 1..N,
         NEW t, Rest(S, f, N, t),
         ~(N = 0 /\ l = "sfdu"), t # <<>> \/ RemoveComment(l) # "blank"
  PROVE  Longest(S, f, N, g, Append(t, RemoveComment(l)))
  <1>1. PICK m \in 0..N :
          /\ IsLast(S, m, N)
          /\ \/ t = <<>> /\ FreshIn(f, m, N) = {}
             \/ /\ t # <<>>
                /\ \E from \in 1..N :
                     IsFirst(FreshIn(f, m, N), from) /\ t = Run(f, from, N)
    BY DEF Rest
  <1>2. N \in Nat /\ m \in 0..Len(f) /\ m \in 0..(N + 1) /\ (N + 1) - 1 = N
          /\ N + 1 \in 1..(N + 1)
    OBVIOUS
  <1>3. /\ Skips(l, N + 1) => FreshIn(g, m, N + 1) = FreshIn(f, m, N)
        /\ ~Skips(l, N + 1) =>
             FreshIn(g, m, N + 1) = FreshIn(f, m, N) \cup {N + 1}
    BY <1>2, FreshNext
  <1>a. t = <<>> => ~Skips(l, N + 1)
    BY <1>2 DEF Skips
  <1>4. CASE t = <<>>
    <2>1. FreshIn(g, m, N + 1) = {N + 1}
      BY <1>1, <1>3, <1>4, <1>a
    <2>2. IsFirst(FreshIn(g, m, N + 1), N + 1)
      BY <1>2, <2>1 DEF IsFirst
    <2>3. Append(t, RemoveComment(l)) = Run(g, N + 1, N + 1)
      BY <1>4, RunOfOne
    <2>4. QED
      BY <1>1, <1>2, <2>2, <2>3 DEF Longest
  <1>5. CASE t # <<>>
    <2>1. PICK from \in 1..N : IsFirst(FreshIn(f, m, N), from) /\ t = Run(f, from, N)
      BY <1>1, <1>5
    <2>2. from \in 1..Len(f) /\ from \in 1..(N + 1) /\ from <= N + 1
      BY <1>2
    <2>3. IsFirst(FreshIn(g, m, N + 1), from)
      BY <1>3, <2>1, <2>2 DEF IsFirst
    <2>4. Append(t, RemoveComment(l)) = Run(g, from, N + 1)
      BY <2>1, <2>2, RunNext
    <2>5. QED
      BY <1>1, <2>2, <2>3, <2>4 DEF Longest
  <1>6. QED
    BY <1>4, <1>5

\* If they are no statement yet they are what remains to be gathered, and if
\* they are one it is found whole and nothing remains.
LEMMA LongestRemains ==
  ASSUME NEW f, NEW g, NEW N \in Nat, NEW S, S \subseteq 1..N, NEW t, t # <<>>,
         Longest(S, f, N, g, t)
  PROVE  Rest(S, g, N + 1, t)
  <1>1. PICK m \in 0..N :
          \E from \in 1..(N + 1) :
            /\ IsLast(S, m, N) /\ IsFirst(FreshIn(g, m, N + 1), from)
            /\ t = Run(g, from, N + 1)
    BY DEF Longest
  <1>2. m \in 0..(N + 1)
    OBVIOUS
  <1>3. IsLast(S, m, N + 1)
    BY <1>1, LastNext
  <1>4. QED
    BY <1>1, <1>2, <1>3 DEF Rest

LEMMA LongestFound ==
  ASSUME NEW f, NEW g, NEW N \in Nat, NEW S, S \subseteq 1..N, NEW t,
         Longest(S, f, N, g, t), Shortest(t), NEW T, T = S \cup {N + 1}
  PROVE  Whole(T, g, N + 1) /\ Rest(T, g, N + 1, <<>>)
  <1>1. PICK m \in 0..N :
          \E from \in 1..(N + 1) :
            /\ IsLast(S, m, N) /\ IsFirst(FreshIn(g, m, N + 1), from)
            /\ t = Run(g, from, N + 1)
    BY DEF Longest
  <1>2. m \in 0..(N + 1) /\ (N + 1) - 1 = N /\ N \in 0..N
    OBVIOUS
  <1>3. IsLast(T, m, N)
    BY <1>1, <1>2, LastStays
  <1>4. Whole(T, g, N + 1)
    BY <1>1, <1>2, <1>3 DEF Whole
  <1>a. IsLast(S \cup {N + 1}, N + 1, N + 1)
    BY LastNew
  <1>5. IsLast(T, N + 1, N + 1) /\ N + 1 \in 0..(N + 1)
    BY <1>a
  <1>6. FreshIn(g, N + 1, N + 1) = {}
    BY DEF FreshIn
  <1>7. QED
    BY <1>4, <1>5, <1>6 DEF Rest

-----------------------------------------------------------------------------
(* The steps. *)

\* What a turn of the loop does to the ends of statements.
LEMMA EndsNext ==
  ASSUME TreeOK, NEW line \in Lines, ReadLine(line)
  PROVE  StatementEnds' =
           IF NewObject(line) \/ EndObject(line) \/ NewKeyword(line)
           THEN StatementEnds \cup {line_number + 1} ELSE StatementEnds
  <1>1. line_number' = line_number + 1 /\ line_number + 1 # ROOT
    BY DEF ReadLine, SkipSFDU, SkipBlank, FoundEnd, KeepGathering, NewObject,
      EndObject, EndStatement, NewKeyword, Statement, Significant, NextLine,
      TreeOK, ROOT
  <1>2. CASE NewObject(line)
    <2>1. DOMAIN objects' = DOMAIN objects \cup {line_number + 1}
      BY <1>1, <1>2 DEF NewObject
    <2>2. UNCHANGED <<keywords, closed>>
      BY <1>2 DEF NewObject
    <2>3. QED
      BY <1>1, <1>2, <2>1, <2>2 DEF StatementEnds
  <1>3. CASE EndObject(line)
    <2>1. closed' = closed \cup {line_number + 1} /\ UNCHANGED <<objects, keywords>>
      BY <1>1, <1>3 DEF EndObject
    <2>2. QED
      BY <1>3, <2>1 DEF StatementEnds
  <1>4. CASE NewKeyword(line)
    <2>1. DOMAIN keywords' = DOMAIN keywords \cup {line_number + 1}
            /\ UNCHANGED <<objects, closed>>
      BY <1>1, <1>4 DEF NewKeyword
    <2>2. QED
      BY <1>4, <2>1 DEF StatementEnds
  <1>5. CASE ~(NewObject(line) \/ EndObject(line) \/ NewKeyword(line))
    <2>1. UNCHANGED <<objects, keywords, closed>>
      BY <1>5 DEF ReadLine, SkipSFDU, SkipBlank, FoundEnd, KeepGathering,
        EndStatement, tree
    <2>2. QED
      BY <1>5, <2>1 DEF StatementEnds
  <1>6. QED
    BY <1>2, <1>3, <1>4, <1>5

LEMMA ShortRead ==
  ASSUME ReadingOK, TreeOK, ShortInv, NEW line \in Lines, ReadLine(line)
  PROVE  ShortInv'
  <1>1. NextLine(line)
    BY DEF ReadLine, SkipSFDU, SkipBlank, FoundEnd, KeepGathering, NewObject,
      EndObject, EndStatement, NewKeyword, Statement, Significant
  <1>2. PICK f, g, N, S, T, t :
          /\ f = file /\ g = file' /\ N = line_number /\ S = StatementEnds
          /\ T = StatementEnds' /\ t = Gathered(line)
    OBVIOUS
  <1>3. /\ f \in Seq(Lines) /\ g = Append(f, line) /\ N = Len(f) /\ N \in Nat
        /\ S \subseteq 1..N /\ (T = S \/ T = S \cup {N + 1})
        /\ line_number' = N + 1 /\ Len(g) = N + 1
        /\ t = Append(text, RemoveComment(line)) /\ t # <<>>
    <2>1. f \in Seq(Lines) /\ g = Append(f, line) /\ N = Len(f)
            /\ line_number' = N + 1
      BY <1>1, <1>2 DEF NextLine, ReadingOK, ShortInv
    <2>2. N \in Nat /\ S \subseteq 1..N
      BY <1>2, EndsType
    <2>3. T = S \/ T = S \cup {N + 1}
      BY <1>2, EndsNext
    <2>4. Len(g) = N + 1
      BY <2>1, AppendKeeps
    <2>5. QED
      BY <1>2, <2>1, <2>2, <2>3, <2>4, GatheredType
  <1>4. \A n \in S : Whole(S, f, n) /\ Whole(T, g, n)
    <2>1. TAKE n \in S
    <2>2. Whole(S, f, n)
      BY <1>2 DEF ShortInv
    <2>3. QED
      BY <1>3, <2>2, WholeStays
  <1>a. pc = "read" /\ ~end_found
    BY <1>1 DEF NextLine, ShortInv
  <1>b. pc' = "read" => ~end_found'
    BY <1>a DEF ReadLine, SkipSFDU, SkipBlank, FoundEnd, KeepGathering,
      NewObject, EndObject, EndStatement, NewKeyword
  <1>c. pc' # "open"
    BY <1>a DEF ReadLine, SkipSFDU, SkipBlank, FoundEnd, KeepGathering,
      NewObject, EndObject, EndStatement, NewKeyword
  <1>5. ASSUME T = S, Gathering'
        PROVE  ShortInv'
    BY <1>2, <1>3, <1>4, <1>5, <1>b, <1>c DEF ShortInv
  <1>6. Rest(S, f, N, text) /\ FlagsTell /\ NotYet(text)
    BY <1>2, <1>a DEF ShortInv, Gathering
  <1>7. CASE SkipSFDU(line) \/ SkipBlank(line)
    <2>1. /\ T = S /\ UNCHANGED <<text, equals_found, val_found, end_found>>
          /\ RemoveComment(line) = "blank" \/ (N = 0 /\ line = "sfdu")
          /\ RemoveComment(line) = "blank" => text = <<>>
      <3>1. UNCHANGED <<objects, keywords, closed>>
        BY <1>7 DEF SkipSFDU, SkipBlank, tree
      <3>2. QED
        BY <1>2, <1>7, <3>1 DEF SkipSFDU, SkipBlank, Skipped, StatementEnds,
          RemoveComment
    <2>2. text = <<>>
      <3>1. CASE N = 0
        <4>1. ~(\E from \in 1..0 : TRUE)
          OBVIOUS
        <4>2. QED
          BY <1>6, <3>1, <4>1 DEF Rest
      <3>2. QED
        BY <2>1, <3>1
    <2>3. Rest(S, g, N + 1, <<>>)
      BY <1>3, <1>6, <2>1, <2>2, RestSkips
    <2>4. Gathering'
      BY <1>2, <1>3, <1>6, <2>1, <2>2, <2>3 DEF Gathering, FlagsTell
    <2>5. QED
      BY <1>5, <2>1, <2>4
  <1>8. CASE FoundEnd(line) \/ EndStatement(line)
    <2>1. end_found'
      BY <1>8 DEF FoundEnd, EndStatement
    <2>2. UNCHANGED <<objects, keywords, closed>>
      BY <1>8 DEF FoundEnd, EndStatement, tree
    <2>3. T = S
      BY <1>2, <2>2 DEF StatementEnds
    <2>4. QED
      BY <1>5, <2>1, <2>3 DEF Gathering
  <1>9. ASSUME Significant(line)
        PROVE  Longest(S, f, N, g, t)
    <2>1. ~(N = 0 /\ line = "sfdu")
            /\ (text # <<>> \/ RemoveComment(line) # "blank")
      BY <1>2, <1>9 DEF Significant, Skipped
    <2>2. QED
      BY <1>3, <1>6, <1>9, <2>1, RestGathers
  <1>10. /\ Complete(t) <=> t = <<"end">> \/ Balanced(line)
         /\ Complete(t) => Shortest(t)
         /\ ~Complete(t) => NotYet(t)
         /\ EqualsFound(line) <=> HasEqualsIn(t)
         /\ ValFound(line) <=> HasValueIn(t)
    BY <1>2, <1>6, BalancedIsComplete, NotYetNext, FlagsNext
  <1>11. CASE KeepGathering(line)
    <2>1. /\ Significant(line) /\ t # <<"end">> /\ ~Balanced(line)
          /\ text' = t /\ equals_found' = EqualsFound(line)
          /\ val_found' = ValFound(line) /\ end_found' = end_found
          /\ UNCHANGED <<objects, keywords, closed>>
      BY <1>2, <1>11 DEF KeepGathering, tree
    <2>2. T = S
      BY <1>2, <2>1 DEF StatementEnds
    <2>3. Rest(S, g, N + 1, t) /\ NotYet(t)
      <3>1. Longest(S, f, N, g, t)
        BY <1>9, <2>1
      <3>2. QED
        BY <1>3, <1>10, <2>1, <3>1, LongestRemains
    <2>4. FlagsTell'
      BY <1>10, <2>1 DEF FlagsTell
    <2>5. Gathering'
      BY <1>2, <1>3, <2>1, <2>2, <2>3, <2>4 DEF Gathering
    <2>6. QED
      BY <1>5, <2>2, <2>5
  <1>12. CASE NewObject(line) \/ EndObject(line) \/ NewKeyword(line)
    <2>1. /\ Statement(line) /\ end_found' = end_found
          /\ T = S \cup {N + 1}
      <3>1. T = S \cup {N + 1}
        BY <1>2, <1>12, EndsNext
      <3>2. QED
        BY <1>12, <3>1 DEF NewObject, EndObject, NewKeyword
    <2>2. /\ Significant(line) /\ Balanced(line) /\ text' = <<>>
          /\ equals_found' = FALSE /\ val_found' = FALSE
      BY <2>1 DEF Statement
    <2>4. Longest(S, f, N, g, t) /\ Shortest(t)
      BY <1>9, <1>10, <2>2
    <2>5. Whole(T, g, N + 1) /\ Rest(T, g, N + 1, <<>>)
      BY <1>3, <2>1, <2>4, LongestFound
    <2>6. FlagsTell'
      BY <2>2 DEF FlagsTell, HasEqualsIn, HasValueIn
    <2>7. NotYet(<<>>)
      BY DEF NotYet
    <2>8. Gathering'
      BY <1>2, <1>3, <2>2, <2>5, <2>6, <2>7 DEF Gathering
    <2>9. \A n \in T : Whole(T, g, n)
      BY <1>4, <2>1, <2>5
    <2>10. QED
      BY <1>2, <1>3, <1>b, <1>c, <2>8, <2>9 DEF ShortInv
  <1>13. QED
    BY <1>7, <1>8, <1>11, <1>12 DEF ReadLine

\* The other steps leave the file alone.
LEMMA ShortStays ==
  ASSUME ShortInv, UNCHANGED <<file, line_number, StatementEnds>>,
         \/ pc' \notin {"open", "read", "check"}
         \/ /\ pc' = pc \/ pc' = "check" \/ (pc = "open" /\ pc' = "read")
            /\ pc \in {"open", "read", "check"}
            /\ UNCHANGED <<text, equals_found, val_found, end_found>>
  PROVE  ShortInv'
  <1>1. \A n \in StatementEnds' : Whole(StatementEnds', file', n)
    BY DEF ShortInv
  <1>2. CASE pc' \notin {"open", "read", "check"}
    BY <1>1, <1>2 DEF ShortInv, Gathering
  <1>3. CASE /\ pc' = pc \/ pc' = "check" \/ (pc = "open" /\ pc' = "read")
             /\ pc \in {"open", "read", "check"}
             /\ UNCHANGED <<text, equals_found, val_found, end_found>>
    <2>1. FlagsTell' <=> FlagsTell
      BY <1>3 DEF FlagsTell
    <2>2. Gathering'
      BY <1>3, <2>1 DEF ShortInv, Gathering
    <2>3. pc' \in {"open", "read"} => pc \in {"open", "read"}
      BY <1>3
    <2>4. QED
      BY <1>1, <1>3, <2>2, <2>3 DEF ShortInv
  <1>4. QED
    BY <1>2, <1>3

LEMMA ShortStep ==
  ASSUME IInv, ShortInv, [Next]_vars
  PROVE  ShortInv'
  <1>1. CASE OpenFiles
    <2>1. pc = "open" /\ pc' \in {"read", "close"}
            /\ UNCHANGED <<file, line_number, text, equals_found, val_found, end_found>>
      BY <1>1 DEF OpenFiles, reading
    <2>2. UNCHANGED StatementEnds
      <3>1. objects = <<>> /\ UNCHANGED <<keywords, closed>>
        BY <1>1, <2>1 DEF OpenFiles, IInv, Fresh
      <3>2. DOMAIN objects = {} /\ DOMAIN objects' \subseteq {ROOT}
        BY <1>1, <3>1 DEF OpenFiles
      <3>3. QED
        BY <3>1, <3>2 DEF StatementEnds
    <2>3. QED
      BY <2>1, <2>2, ShortStays
  <1>2. ASSUME NEW line \in Lines, ReadLine(line)
        PROVE  ShortInv'
    BY <1>2, ShortRead DEF IInv
  <1>3. CASE LinesEnd
    BY <1>3, ShortStays DEF LinesEnd, tree, reading, StatementEnds
  <1>4. CASE CheckEnd
    <2>1. /\ pc' = "close"
          /\ UNCHANGED <<file, line_number, closed, keywords>>
          /\ objects' = IF line_number = 0 THEN <<>> ELSE objects
      BY <1>4 DEF CheckEnd, reading
    <2>2. UNCHANGED StatementEnds
      <3>1. CASE line_number = 0
        <4>1. DOMAIN objects \subseteq 0..0
          BY <3>1 DEF IInv, TreeOK, Objects
        <4>2. DOMAIN objects \ {ROOT} = {} /\ DOMAIN objects' \ {ROOT} = {}
          BY <2>1, <3>1, <4>1 DEF ROOT
        <4>3. QED
          BY <2>1, <4>2 DEF StatementEnds
      <3>2. CASE line_number # 0
        BY <2>1, <3>2 DEF StatementEnds
      <3>3. QED
        BY <3>1, <3>2
    <2>3. QED
      BY <2>1, <2>2, ShortStays
  <1>5. CASE CloseFiles
    BY <1>5, ShortStays DEF CloseFiles, tree, StatementEnds
  <1>6. CASE UNCHANGED vars
    <2>1. UNCHANGED <<file, line_number, StatementEnds, pc, text, equals_found,
                      val_found, end_found>>
      BY <1>6 DEF vars, reading, tree, StatementEnds
    <2>2. QED
      BY <2>1, ShortStays
  <1>7. QED
    BY <1>1, <1>2, <1>3, <1>4, <1>5, <1>6 DEF Next

LEMMA ShortInit == Init => ShortInv
  <1>1. SUFFICES ASSUME Init
                 PROVE  ShortInv
    OBVIOUS
  <1>2. /\ file = <<>> /\ line_number = 0 /\ text = <<>> /\ ~end_found
        /\ ~equals_found /\ ~val_found
        /\ objects = <<>> /\ keywords = <<>> /\ closed = {}
    BY <1>1 DEF Init
  <1>3. StatementEnds = {} /\ Len(file) = 0
    BY <1>2 DEF StatementEnds
  <1>4. IsLast({}, 0, 0) /\ FreshIn(file, 0, 0) = {} /\ 0 \in 0..0
    BY DEF IsLast, FreshIn
  <1>5. Rest(StatementEnds, file, line_number, text)
    BY <1>2, <1>3, <1>4 DEF Rest
  <1>6. FlagsTell /\ NotYet(text)
    BY <1>2 DEF FlagsTell, NotYet, HasEqualsIn, HasValueIn
  <1>7. QED
    BY <1>2, <1>3, <1>5, <1>6 DEF ShortInv, Gathering

-----------------------------------------------------------------------------
(* What the invariant says of the lines from the last statement on. *)

LEMMA LastIs ==
  ASSUME TreeOK, NEW m, NEW n, IsLast(StatementEnds, m, n)
  PROVE  LastEnd(n) = m
  <1> DEFINE S == StatementEnds
  <1>1. S \cup {0} \subseteq Int
    BY EndsType
  <1>2. m \in S \cup {0} /\ m <= n /\ \A k \in S : k <= n => k <= m
    BY DEF IsLast
  <1>3. ASSUME NEW j \in S \cup {0}, j <= n, \A k \in S : k <= n => k <= j
        PROVE  j = m
    <2>1. m \in Int /\ j \in Int
      BY <1>1, <1>2, <1>3
    <2>2. j \in S => j <= m
      BY <1>2, <1>3
    <2>3. m \in S => m <= j
      BY <1>2, <1>3
    <2>4. \A k \in S : k > 0
      BY EndsType
    <2>5. QED
      BY <1>2, <1>3, <2>1, <2>2, <2>3, <2>4
  <1> HIDE DEF S
  <1>4. m = CHOOSE j \in S \cup {0} : j <= n /\ \A k \in S : k <= n => k <= j
    BY <1>2, <1>3
  <1>5. QED
    BY <1>4 DEF LastEnd, S

LEMMA LinesAreRun ==
  ASSUME NEW m \in Nat, NEW n \in Nat
  PROVE  /\ FreshIn(file, m, n) = {} => LinesOf(m, n) = <<>>
         /\ \A from : IsFirst(FreshIn(file, m, n), from) =>
                        LinesOf(m, n) = Run(file, from, n)
  <1> DEFINE F == FreshIn(file, m, n)
  <1>1. LinesOf(m, n) =
          IF F = {} THEN <<>>
          ELSE Run(file, CHOOSE i \in F : \A j \in F : i <= j, n)
    BY DEF LinesOf, FreshIn, Run
  <1>2. F \subseteq Int
    BY DEF FreshIn
  <1> HIDE DEF F
  <1>3. ASSUME NEW from, IsFirst(F, from)
        PROVE  from = (CHOOSE i \in F : \A j \in F : i <= j) /\ F # {}
    <2>1. from \in F /\ \A j \in F : from <= j
      BY <1>3 DEF IsFirst
    <2>2. ASSUME NEW i \in F, \A j \in F : i <= j
          PROVE  i = from
      BY <1>2, <2>1, <2>2
    <2>3. QED
      BY <2>1, <2>2
  <1>4. QED
    BY <1>1, <1>3 DEF F

\* In a file of any length the flags that OdlParseFile keeps from line to line
\* end each statement where a reading of all its text would: it is the shortest
\* run of lines that has its value, from the first line after the statement
\* before it that is not blank.
THEOREM StatementsAreShortestThm == Spec => []StatementsAreShortest
  <1>1. IInv /\ ShortInv /\ [Next]_vars => ShortInv'
    BY ShortStep
  <1>2. ASSUME IInv, ShortInv
        PROVE  StatementsAreShortest
    <2>1. TreeOK /\ line_number \in Nat /\ StatementEnds \subseteq 1..line_number
      BY <1>2, EndsType DEF IInv
    <2>2. ASSUME NEW n \in StatementEnds
          PROVE  Shortest(LinesOf(LastEnd(n - 1), n))
      <3>1. PICK m \in 0..n :
              \E from \in 1..n :
                /\ IsLast(StatementEnds, m, n - 1)
                /\ IsFirst(FreshIn(file, m, n), from)
                /\ Shortest(Run(file, from, n))
        BY <1>2 DEF ShortInv, Whole
      <3>2. PICK from \in 1..n :
              /\ IsLast(StatementEnds, m, n - 1)
              /\ IsFirst(FreshIn(file, m, n), from)
              /\ Shortest(Run(file, from, n))
        BY <3>1
      <3>3. m \in Nat /\ n \in Nat
        BY <2>1
      <3>4. LastEnd(n - 1) = m
        BY <2>1, <3>2, LastIs
      <3>5. LinesOf(m, n) = Run(file, from, n)
        BY <3>2, <3>3, LinesAreRun
      <3>6. QED
        BY <3>2, <3>4, <3>5
    <2>3. ASSUME pc \in {"read", "check"}, ~end_found
          PROVE  /\ text = LinesOf(LastEnd(line_number), line_number)
                 /\ \A n \in 1..Len(text) : ~Complete(SubSeq(text, 1, n))
      <3>1. Rest(StatementEnds, file, line_number, text) /\ NotYet(text)
        BY <1>2, <2>3 DEF ShortInv, Gathering
      <3>2. PICK m \in 0..line_number :
              /\ IsLast(StatementEnds, m, line_number)
              /\ \/ text = <<>> /\ FreshIn(file, m, line_number) = {}
                 \/ \E from : /\ IsFirst(FreshIn(file, m, line_number), from)
                              /\ text = Run(file, from, line_number)
        BY <3>1 DEF Rest
      <3>3. LastEnd(line_number) = m
        BY <2>1, <3>2, LastIs
      <3>4. LinesOf(m, line_number) = text
        BY <2>1, <3>2, LinesAreRun
      <3>5. QED
        BY <3>1, <3>3, <3>4 DEF NotYet
    <2>4. QED
      BY <2>2, <2>3 DEF StatementsAreShortest
  <1>3. IInv /\ ShortInv => StatementsAreShortest
    BY <1>2
  <1>4. QED
    BY ShortInit, <1>1, <1>3, Invariance, PTL DEF Spec

=============================================================================
