------------------------------ MODULE OdlParse ------------------------------
(***************************************************************************)
(* The parser of a label file (OdlParseFile of io_lablib3.c): it gathers   *)
(* lines into a statement until its value is complete, and builds the tree *)
(* of objects and keywords from the statements.                            *)
(*                                                                         *)
(* A line stands for what the parser tells apart in it after blanks at the *)
(* ends are gone; a keyword or an object is named by the line its          *)
(* statement ends in, which is the line_number the code gives it.  One     *)
(* step is one turn of the loop around fgets.                              *)
(***************************************************************************)
EXTENDS Integers, Sequences, FiniteSets

CONSTANTS
  Lines,     \* the lines a file may hold
  MaxLines,  \* bound: lines of a file
  Calls,     \* which files a call passes, and which it names
  NULL

AllLines ==
  { "object",        \* OBJECT = A
    "object_is",     \* OBJECT =
    "end_object",    \* END_OBJECT
    "end_object_of", \* END_OBJECT = A
    "end",           \* END
    "end_of",        \* END = A
    "key",           \* K = A
    "key_is",        \* K =
    "key_list",      \* K = (A,
    "key_quote",     \* K = "A
    "word",          \* A
    "list",          \* (A,
    "close_list",    \* A)
    "quote",         \* "
    "cut_quote",     \* A /* "
    "blank",         \* nothing, or a comment
    "sfdu" }         \* CCSD... = SFDU_LABEL

ASSUME LinesAssumption == Lines \subseteq AllLines
ASSUME MaxLinesAssumption == MaxLines \in Nat
ASSUME CallsAssumption ==
  Calls \subseteq [label : {"passed", "named", "unreadable"},
                   message : {"stdout", "named"},
                   ignore_missing_end : BOOLEAN]
ASSUME NULLAssumption == NULL \notin Int

VARIABLES
  pc, call,
  open_files,   \* the label and the message file, while they are open
  file,         \* the lines fgets has returned whole
  line_number,
  text,         \* the lines of the statement being gathered; <<>> is NULL
  equals_found, val_found, end_found,
  curr_object,
  objects,      \* line number -> parent and child_count
  keywords,     \* line number -> parent
  closed,       \* history: the line numbers of the END_OBJECT statements
  messages,     \* the complaints about the nesting and the end
  root

reading == <<file, line_number, text, equals_found, val_found, end_found>>
tree == <<curr_object, objects, keywords, closed, root>>
vars == <<pc, call, open_files, reading, tree, messages>>

ROOT == 0

-----------------------------------------------------------------------------
(***************************************************************************)
(* Lines and the text they make up                                         *)
(***************************************************************************)

\* Removing a comment counts the quotes of its own line only, so a quote
\* that closes an earlier line's value goes with the comment before it.
RemoveComment(line) == IF line = "cut_quote" THEN "word" ELSE line

HasEquals(line) ==
  line \in {"object", "object_is", "end_object_of", "end_of", "key", "key_is",
            "key_list", "key_quote", "sfdu"}
EndsInEquals(line) == line \in {"object_is", "key_is"}

Opening == {"key_list", "list"}
Closing == {"close_list"}
Quoting == {"key_quote", "quote"}
Count(S, t) == Cardinality({i \in DOMAIN t : t[i] \in S})

\* The text from the line with its first '=' on.
FromEquals(t) ==
  SubSeq(t, CHOOSE i \in DOMAIN t :
              HasEquals(t[i]) /\ \A j \in 1..(i - 1) : ~HasEquals(t[j]), Len(t))

\* The line the value starts in: that of the '=' unless it ends there, and
\* then the first that is not blank, if there is one.
ValueLines(t) ==
  LET from == FromEquals(t)
      Rest == {i \in DOMAIN from :
                 IF i = 1 THEN ~EndsInEquals(from[i]) ELSE from[i] # "blank"}
  IN {from[i] : i \in {j \in Rest : \A k \in Rest : j <= k}}

CheckBalance(t) ==
  LET from == FromEquals(t)
  IN /\ ValueLines(t) \subseteq Opening => Count(Opening, from) = Count(Closing, from)
     /\ ValueLines(t) \subseteq Quoting => Count(Quoting, from) % 2 = 0

-----------------------------------------------------------------------------
(***************************************************************************)
(* The statement the text is, by the word it starts with.  "OBJECT" on a   *)
(* line of its own is not followed by a blank, so it starts a keyword.     *)
(***************************************************************************)
StartsObject(t) == t[1] \in {"object", "object_is"}
StartsEndObject(t) == t[1] \in {"end_object", "end_object_of"}
StartsEnd(t) == t[1] = "end_of"
StartsKeyword(t) == ~StartsObject(t) /\ ~StartsEndObject(t) /\ ~StartsEnd(t)

\* The text with one more line, and the flags after it.
Gathered(line) == Append(text, RemoveComment(line))
EqualsFound(line) == equals_found \/ HasEquals(RemoveComment(line))
ValFound(line) ==
  val_found \/ (EqualsFound(line) /\ ~EndsInEquals(RemoveComment(line)))
Balanced(line) ==
  \/ Gathered(line) = <<"end_object">>
  \/ EqualsFound(line) /\ ValFound(line) /\ CheckBalance(Gathered(line))

-----------------------------------------------------------------------------
Init ==
  /\ pc = "open" /\ call \in Calls
  /\ open_files = IF call.label = "passed" THEN {"label"} ELSE {}
  /\ file = <<>> /\ line_number = 0 /\ text = <<>>
  /\ equals_found = FALSE /\ val_found = FALSE /\ end_found = FALSE
  /\ curr_object = NULL /\ objects = <<>> /\ keywords = <<>> /\ closed = {}
  /\ messages = {} /\ root = NULL

\* OdlOpenMessageFile and fopen, and the root object.  A message file that is
\* not wanted or cannot be opened is stdout.
OpenFiles ==
  /\ pc = "open"
  /\ open_files' = open_files
       \cup (IF call.message = "named" THEN {"message"} ELSE {})
       \cup (IF call.label = "named" THEN {"label"} ELSE {})
  /\ IF call.label = "unreadable"
     THEN pc' = "close" /\ UNCHANGED <<curr_object, objects, root>>
     ELSE /\ pc' = "read" /\ curr_object' = ROOT /\ root' = ROOT
          /\ objects' = [n \in {ROOT} |-> [parent |-> NULL, child_count |-> 0]]
  /\ UNCHANGED <<call, reading, keywords, closed, messages>>

\* fgets returns another line, and it has its newline.
NextLine(line) ==
  /\ pc = "read" /\ Len(file) < MaxLines
  /\ file' = Append(file, line)
  /\ line_number' = line_number + 1
  /\ UNCHANGED <<call, open_files, root>>

\* The SFDU is looked for in the first line only.
Skipped(line) == line = "sfdu" /\ line_number = 0

SkipSFDU(line) ==
  /\ NextLine(line) /\ Skipped(line)
  /\ UNCHANGED <<pc, text, equals_found, val_found, end_found, tree, messages>>

SkipBlank(line) ==
  /\ NextLine(line)
  /\ text = <<>> /\ RemoveComment(line) = "blank"
  /\ UNCHANGED <<pc, text, equals_found, val_found, end_found, tree, messages>>

\* The line counts: it is not the SFDU, and not blank before a statement.
Significant(line) ==
  NextLine(line) /\ ~Skipped(line) /\ (text # <<>> \/ RemoveComment(line) # "blank")

FoundEnd(line) ==
  /\ Significant(line)
  /\ Gathered(line) = <<"end">>
  /\ text' = Gathered(line) /\ end_found' = TRUE /\ pc' = "check"
  /\ UNCHANGED <<equals_found, val_found, tree, messages>>

KeepGathering(line) ==
  /\ Significant(line)
  /\ Gathered(line) # <<"end">> /\ ~Balanced(line)
  /\ text' = Gathered(line)
  /\ equals_found' = EqualsFound(line) /\ val_found' = ValFound(line)
  /\ UNCHANGED <<pc, end_found, tree, messages>>

\* A bug: one flag of the statement is left to the next.
StatementKeepingFlag(line) ==
  /\ Significant(line) /\ Balanced(line)
  /\ text' = <<>> /\ equals_found' = FALSE /\ UNCHANGED val_found

\* The text is a whole statement: the flags are reset and it is freed.
Statement(line) ==
  /\ Significant(line) /\ Balanced(line)
  /\ text' = <<>> /\ equals_found' = FALSE /\ val_found' = FALSE

\* A bug: the new object is counted in itself, not in the current one.
NewUncounted(line) ==
  /\ Statement(line)
  /\ StartsObject(Gathered(line))
  /\ objects' = [n \in DOMAIN objects \cup {line_number'} |->
                   IF n = line_number' THEN [parent |-> curr_object, child_count |-> 1]
                   ELSE objects[n]]
  /\ curr_object' = line_number'
  /\ UNCHANGED <<pc, end_found, keywords, closed, messages>>

NewObject(line) ==
  /\ Statement(line)
  /\ StartsObject(Gathered(line))
  /\ objects' = [n \in DOMAIN objects \cup {line_number'} |->
                   IF n = line_number' THEN [parent |-> curr_object, child_count |-> 0]
                   ELSE IF n = curr_object
                        THEN [objects[n] EXCEPT !.child_count = @ + 1]
                        ELSE objects[n]]
  /\ curr_object' = line_number'
  /\ UNCHANGED <<pc, end_found, keywords, closed, messages>>

\* OdlValidEndObjDesc complains at the root, which stays the current object.
EndObject(line) ==
  /\ Statement(line)
  /\ StartsEndObject(Gathered(line))
  /\ closed' = closed \cup {line_number'}
  /\ IF objects[curr_object].parent # NULL
     THEN curr_object' = objects[curr_object].parent /\ UNCHANGED messages
     ELSE messages' = messages \cup {"extra"} /\ UNCHANGED curr_object
  /\ UNCHANGED <<pc, end_found, objects, keywords>>

EndStatement(line) ==
  /\ Statement(line)
  /\ StartsEnd(Gathered(line))
  /\ end_found' = TRUE /\ pc' = "check"
  /\ UNCHANGED <<curr_object, objects, keywords, closed, messages>>

NewKeyword(line) ==
  /\ Statement(line)
  /\ StartsKeyword(Gathered(line))
  /\ keywords' = [n \in DOMAIN keywords \cup {line_number'} |->
                    IF n = line_number' THEN curr_object ELSE keywords[n]]
  /\ UNCHANGED <<pc, end_found, curr_object, objects, closed, messages>>

\* fgets returns nothing, or it has no newline to return: the line is longer
\* than intext or it is the last of the file, and the loop is left before it
\* is counted.
LinesEnd ==
  /\ pc = "read"
  /\ pc' = "check"
  /\ UNCHANGED <<call, open_files, reading, tree, messages>>

\* The END is missed unless the caller does without: OdlExpandLabelFile does,
\* the label an included file goes into having an END of its own.
MissingEnd == ~end_found /\ ~call.ignore_missing_end

\* A bug: objects of the first level are taken for the root.
CheckTopOnly ==
  /\ pc = "check"
  /\ messages' = messages
       \cup (IF objects[curr_object].parent \notin {NULL, ROOT} THEN {"not enough"} ELSE {})
       \cup (IF MissingEnd THEN {"no END"} ELSE {})
  /\ root' = IF line_number = 0 THEN NULL ELSE root
  /\ pc' = "close"
  /\ objects' = IF line_number = 0 THEN <<>> ELSE objects
  /\ UNCHANGED <<call, open_files, reading, curr_object, keywords, closed>>

\* What follows the loop.
CheckEnd ==
  /\ pc = "check"
  /\ messages' = messages
       \cup (IF objects[curr_object].parent # NULL THEN {"not enough"} ELSE {})
       \cup (IF MissingEnd THEN {"no END"} ELSE {})
  /\ root' = IF line_number = 0 THEN NULL ELSE root
  /\ pc' = "close"
  /\ objects' = IF line_number = 0 THEN <<>> ELSE objects
  /\ UNCHANGED <<call, open_files, reading, curr_object, keywords, closed>>

\* A bug: the caller's file is closed too.
CloseBoth ==
  /\ pc = "close"
  /\ open_files' = {}
  /\ text' = <<>>
  /\ pc' = "done"
  /\ UNCHANGED <<call, file, line_number, equals_found, val_found, end_found,
                 tree, messages>>

CloseFiles ==
  /\ pc = "close"
  /\ open_files' = open_files
       \ ((IF call.label # "passed" THEN {"label"} ELSE {})
           \cup (IF call.message # "stdout" THEN {"message"} ELSE {}))
  /\ text' = <<>>
  /\ pc' = "done"
  /\ UNCHANGED <<call, file, line_number, equals_found, val_found, end_found,
                 tree, messages>>

ReadLine(line) ==
  \/ SkipSFDU(line) \/ SkipBlank(line) \/ FoundEnd(line) \/ KeepGathering(line)
  \/ NewObject(line) \/ EndObject(line) \/ EndStatement(line) \/ NewKeyword(line)

Next ==
  OpenFiles \/ (\E line \in Lines : ReadLine(line)) \/ LinesEnd \/ CheckEnd
  \/ CloseFiles

\* The parser is a sequential function: while it can take a step it does.
Spec == Init /\ [][Next]_vars /\ WF_vars(Next)

-----------------------------------------------------------------------------
TypeOK ==
  /\ pc \in {"open", "read", "check", "close", "done"}
  /\ call \in Calls
  /\ open_files \subseteq {"label", "message"}
  /\ file \in Seq(Lines) /\ line_number \in Nat
  /\ text \in Seq(AllLines)
  /\ equals_found \in BOOLEAN /\ val_found \in BOOLEAN /\ end_found \in BOOLEAN
  /\ DOMAIN objects \subseteq 0..line_number
  /\ \A n \in DOMAIN objects :
       objects[n] \in [parent : Nat \cup {NULL}, child_count : Nat]
  /\ DOMAIN keywords \subseteq 1..line_number
  /\ \A n \in DOMAIN keywords : keywords[n] \in DOMAIN objects
  /\ closed \subseteq 1..line_number
  /\ messages \subseteq {"extra", "not enough", "no END"}
  /\ root \in {ROOT, NULL}
  /\ pc \in {"read", "check"} => curr_object \in DOMAIN objects

\* The objects form one tree, in which parents come before their children in
\* the file: following parent from any object, as the expansion does, reaches
\* the root.
ParentsComeFirst ==
  \A n \in DOMAIN objects :
    IF n = ROOT THEN objects[n].parent = NULL
    ELSE objects[n].parent \in DOMAIN objects /\ objects[n].parent < n

(***************************************************************************)
(* The reading of a file that needs no flags: a statement is the shortest  *)
(* run of lines, from the first that is not blank, that has its value.     *)
(***************************************************************************)
HasValue(s) ==
  /\ \E i \in DOMAIN s : \E k \in i..Len(s) : HasEquals(s[i]) /\ ~EndsInEquals(s[k])
  /\ CheckBalance(s)
Complete(s) == s \in {<<"end">>, <<"end_object">>} \/ HasValue(s)
Shortest(s) ==
  Complete(s) /\ \A n \in 1..(Len(s) - 1) : ~Complete(SubSeq(s, 1, n))

StatementEnds == (DOMAIN objects \ {ROOT}) \cup DOMAIN keywords \cup closed
LastEnd(n) == CHOOSE m \in StatementEnds \cup {0} :
                /\ m <= n
                /\ \A k \in StatementEnds : k <= n => k <= m

\* Lines m + 1 to n without the SFDU and the blank lines before the first.
LinesOf(m, n) ==
  LET Fresh == {i \in (m + 1)..n : /\ RemoveComment(file[i]) # "blank"
                                   /\ ~(i = 1 /\ file[i] = "sfdu")}
  IN IF Fresh = {} THEN <<>>
     ELSE LET from == CHOOSE i \in Fresh : \A j \in Fresh : i <= j
          IN [i \in 1..(n - from + 1) |-> RemoveComment(file[from + i - 1])]

\* Every line goes to one statement: each statement found is the shortest that
\* starts after the one before it (the flags of OdlParseFile, kept from turn
\* to turn of its loop, never find one early, late or with lines of another),
\* and what follows the last is being gathered.
StatementsAreShortest ==
  /\ \A n \in StatementEnds : Shortest(LinesOf(LastEnd(n - 1), n))
  /\ pc \in {"read", "check"} /\ ~end_found =>
       /\ text = LinesOf(LastEnd(line_number), line_number)
       /\ \A n \in 1..Len(text) : ~Complete(SubSeq(text, 1, n))

\* The object o is open at line n: on no line since were more objects closed
\* than opened.
Opened(o, n) == Cardinality({m \in DOMAIN objects : o < m /\ m <= n})
Ended(o, n) == Cardinality({m \in closed : o < m /\ m <= n})
OpenAt(o, n) ==
  o = ROOT \/ \A m \in (o + 1)..n : Ended(o, m) <= Opened(o, m)

\* Keywords and objects land in the innermost object that is open where they
\* stand (curr_object, moved by OdlPasteObjDesc and by END_OBJECT, also one
\* too many of them), and child_count counts the objects that do.
NestingFollowsEnds ==
  LET Innermost(n) == CHOOSE o \in DOMAIN objects :
                        /\ o < n /\ OpenAt(o, n - 1)
                        /\ \A p \in DOMAIN objects :
                             p < n /\ OpenAt(p, n - 1) => p <= o
  IN /\ \A n \in DOMAIN objects \ {ROOT} : objects[n].parent = Innermost(n)
     /\ \A n \in DOMAIN keywords : keywords[n] = Innermost(n)
     /\ \A o \in DOMAIN objects :
          objects[o].child_count
            = Cardinality({n \in DOMAIN objects : objects[n].parent = o})

\* A label the parser has no complaint about closes each of its objects, with
\* no END_OBJECT to spare, and ends in END, unless it was read to be included
\* in another (ignore_missing_end): the end of such a file may have been cut
\* off unnoticed, but not from inside one of its objects.
QuietMeansComplete ==
  pc = "done" /\ root # NULL /\ messages = {} =>
    /\ end_found \/ call.ignore_missing_end
    /\ Cardinality(closed) = Cardinality(DOMAIN objects \ {ROOT})

\* When OdlParseFile returns, the files it opened are closed and a file passed
\* to it is not; and there is a tree exactly if a line was read.
FilesReleased ==
  pc = "done" =>
    /\ open_files = (IF call.label = "passed" THEN {"label"} ELSE {})
    /\ (root # NULL) <=> line_number > 0
=============================================================================
