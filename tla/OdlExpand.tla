----------------------------- MODULE OdlExpand ------------------------------
(***************************************************************************)
(* The expansion of "^STRUCTURE" and "^CATALOG" keywords                   *)
(* (OdlParseLabelFile and OdlExpandLabelFile of io_lablib3.c): each names  *)
(* a label file; its keywords and objects are appended to the object the   *)
(* keyword stands in, and the keyword goes.                                *)
(*                                                                         *)
(* A tree is a function from positions to objects.  A position is the      *)
(* sequence of child numbers that leads to the object from the root, so    *)
(* the parent chain of an object is the prefixes of its position.  One     *)
(* step is one turn of the "while (! done)" loop.                          *)
(***************************************************************************)
EXTENDS Naturals, Sequences, FiniteSets

CONSTANTS
  Names,     \* file names as labels spell them
  Label,     \* the name in the path given to OdlParseLabelFile
  Attached,  \* a value that is a location only, not a quoted file name
  NoDirectory,
  Directories, \* the directory parts that path can have, or NoDirectory
  Masks,     \* the values of the argument expand: subsets of Kinds
  Disks,     \* the functions from names to the labels parsed from a file
  Spelling,  \* the name of the file find_file settles on for a name
  MaxTurns   \* bound: turns of the loop

Kinds == {"STRUCTURE", "CATALOG"}

ASSUME NamesAssumption == Label \in Names /\ Attached \notin Names
ASSUME SpellingAssumption == Spelling \in [Names -> Names]
ASSUME DirectoriesAssumption == Directories # {}
ASSUME MasksAssumption == Masks \subseteq SUBSET Kinds

(***************************************************************************)
(* A statement of a label file: kind is one of Kinds or another name; to,  *)
(* at and unit are the file name and the start location of its value.      *)
(***************************************************************************)
Statements == [kind : Kinds \cup {"other"}, to : Names \cup {Attached},
               at : Nat \ {0}, unit : {"record", "byte"}]
Positions == Seq(Nat)

\* The position p and those of the objects above it.
Above(p) == {SubSeq(p, 1, n) : n \in 0..Len(p)}

(***************************************************************************)
(* A file is the sequence of the labels its start locations give, <<>> if  *)
(* there is no such file.  A label is what the parser makes of the text    *)
(* from there on: the root and the objects below it, each with its         *)
(* statements in order.                                                    *)
(***************************************************************************)
ASSUME DisksAssumption ==
  \A d \in Disks :
    /\ DOMAIN d = Names
    /\ \A n \in Names : \A i \in DOMAIN d[n] :
         /\ DOMAIN d[n] = 1..Len(d[n])
         /\ <<>> \in DOMAIN d[n][i]
         /\ IsFiniteSet(DOMAIN d[n][i])
         /\ \A p \in DOMAIN d[n][i] :
              /\ p \in Positions
              /\ Above(p) \subseteq DOMAIN d[n][i]
              /\ d[n][i][p] \in Seq(Statements)

VARIABLES
  disk, directory, \* what is given
  tree,      \* position -> [file_name, keywords]
  expanding, \* the kind of keyword looked for, or "done"
  expand,    \* what is left of the mask
  turns

vars == <<disk, directory, tree, expanding, expand, turns>>

(***************************************************************************)
(* OdlParseFile stamps the name of the file on every object and keyword.   *)
(* via is not in the code: it is the list of files whose inclusion led to  *)
(* the keyword, for the properties to speak of.                            *)
(***************************************************************************)
FileName(dir, n) == [directory |-> dir, name |-> n]

Keyword(s, fspec, via) ==
  [kind |-> s.kind, to |-> s.to, at |-> s.at, unit |-> s.unit,
   file_name |-> fspec, via |-> via]

Stamp(statements, fspec, via) ==
  [i \in DOMAIN statements |-> Keyword(statements[i], fspec, via)]

\* The kind looked for first, and the mask left for the tail call.
FirstKind(mask) ==
  IF "STRUCTURE" \in mask THEN "STRUCTURE"
  ELSE IF "CATALOG" \in mask THEN "CATALOG" ELSE "done"

\* OdlParseLabelFile: the label is parsed, then expanded.
Init ==
  /\ disk \in Disks
  /\ 1 \in DOMAIN disk[Label]
  /\ directory \in Directories
  /\ tree = [p \in DOMAIN disk[Label][1] |->
              [file_name |-> FileName(directory, Label),
               keywords |-> Stamp(disk[Label][1][p],
                                  FileName(directory, Label), <<Label>>)]]
  /\ \E mask \in Masks :
       /\ expanding = FirstKind(mask)
       /\ expand = mask \ {FirstKind(mask)}
  /\ turns = 0

(***************************************************************************)
(* OdlFindKwd with ODL_RECURSIVE_DOWN and position 1: an object is visited *)
(* before its children and these from the first to the last.               *)
(***************************************************************************)
Before(p, q) ==
  \/ Len(p) < Len(q) /\ p = SubSeq(q, 1, Len(p))
  \/ \E n \in 1..Len(p) :
       /\ n <= Len(q)
       /\ p[n] < q[n]
       /\ SubSeq(p, 1, n - 1) = SubSeq(q, 1, n - 1)

Places == UNION {{p} \X DOMAIN tree[p].keywords : p \in DOMAIN tree}

KeywordAt(l) == tree[l[1]].keywords[l[2]]

Candidates == {l \in Places : KeywordAt(l).kind = expanding}

Found(l) ==
  /\ l \in Candidates
  /\ \A o \in Candidates :
       ~ (Before(o[1], l[1]) \/ (o[1] = l[1] /\ o[2] < l[2]))

(***************************************************************************)
(* OdlGetFileName: the quoted name, which has no directory, or the name of *)
(* the file the keyword itself was parsed from.                            *)
(***************************************************************************)
OdlGetFileName(kwd) ==
  IF kwd.to = Attached THEN kwd.file_name ELSE FileName(NoDirectory, kwd.to)

OwnFileOnly(p, kwd) == kwd.file_name = OdlGetFileName(kwd)

\* The name compared is the keyword's value, not the path it resolves to.
ExpandIsRecursive(p, kwd) ==
  \/ kwd.file_name = OdlGetFileName(kwd)
  \/ \E q \in Above(p) : tree[q].file_name = OdlGetFileName(kwd)

\* The name itself if there is such a file, else the first change of case
\* for which there is one.
find_file(n) == Spelling[n]

\* The file is looked for beside the label given first.
OdlGetFileSpec(kwd) == FileName(directory, find_file(kwd.to))

(***************************************************************************)
(* OdlLocateStart and OdlParseFile.  Past the last record there is no file *)
(* pointer, and the parser opens the file itself, at its first line; past  *)
(* the last byte it finds no line, and there is no temporary root.         *)
(***************************************************************************)
Location(labels, kwd) ==
  IF kwd.at \in DOMAIN labels THEN {kwd.at}
  ELSE IF kwd.unit = "record" THEN {1} \cap DOMAIN labels ELSE {}

ChildCount(p) == Cardinality({q \in DOMAIN tree :
                                Len(q) = Len(p) + 1 /\ p \in Above(q)})

Without(s, i) == SubSeq(s, 1, i - 1) \o SubSeq(s, i + 1, Len(s))

\* Where the object at q of the included label goes: below p, last.
Grafted(p, q) == p \o <<ChildCount(p) + q[1]>> \o Tail(q)

LeftInPlace(l) == tree

\* OdlFreeKwd(OdlCutKwd(kwd)).
Cut(l) == [tree EXCEPT ![l[1]].keywords = Without(@, l[2])]

PastedFirst(l, new) == new \o Without(tree[l[1]].keywords, l[2])

\* OdlPasteKwd of each keyword of the temporary root.
Appended(l, new) == Without(tree[l[1]].keywords, l[2]) \o new

(***************************************************************************)
(* The keywords and the sub-objects of the temporary root are pasted last  *)
(* in the object of the keyword, and the keyword is cut and freed.         *)
(***************************************************************************)
Splice(l, label, fspec, via) ==
  LET below == DOMAIN label \ {<<>>}
      grown == {Grafted(l[1], q) : q \in below}
  IN  [p \in DOMAIN tree \cup grown |->
        IF p = l[1]
        THEN [tree[p] EXCEPT
                !.keywords = Appended(l, Stamp(label[<<>>], fspec, via))]
        ELSE IF p \in DOMAIN tree THEN tree[p]
        ELSE LET q == CHOOSE q \in below : p = Grafted(l[1], q)
             IN  [file_name |-> fspec, keywords |-> Stamp(label[q], fspec, via)]]

\* The keyword is reported and dropped.
RefuseRecursive ==
  /\ turns < MaxTurns
  /\ \E l \in Places :
       /\ Found(l)
       /\ ExpandIsRecursive(l[1], KeywordAt(l))
       /\ tree' = Cut(l)
  /\ turns' = turns + 1
  /\ UNCHANGED <<disk, directory, expanding, expand>>

\* No such file, or nothing in it from the location on.
NothingToParse ==
  /\ turns < MaxTurns
  /\ \E l \in Places :
       /\ Found(l)
       /\ ~ ExpandIsRecursive(l[1], KeywordAt(l))
       /\ KeywordAt(l).to # Attached
       /\ Location(disk[find_file(KeywordAt(l).to)], KeywordAt(l)) = {}
       /\ tree' = Cut(l)
  /\ turns' = turns + 1
  /\ UNCHANGED <<disk, directory, expanding, expand>>

ExpandKeyword ==
  /\ turns < MaxTurns
  /\ \E l \in Places :
       /\ Found(l)
       /\ ~ ExpandIsRecursive(l[1], KeywordAt(l))
       /\ KeywordAt(l).to # Attached
       /\ LET file == find_file(KeywordAt(l).to) IN
          \E at \in Location(disk[file], KeywordAt(l)) :
            tree' = Splice(l, disk[file][at], OdlGetFileSpec(KeywordAt(l)),
                           Append(KeywordAt(l).via, file))
  /\ turns' = turns + 1
  /\ UNCHANGED <<disk, directory, expanding, expand>>

\* No keyword of this kind is left: the tail call takes the next.
NextKind ==
  /\ expanding # "done"
  /\ Candidates = {}
  /\ expanding' = FirstKind(expand)
  /\ expand' = expand \ {FirstKind(expand)}
  /\ UNCHANGED <<disk, directory, tree, turns>>

Turn == RefuseRecursive \/ NothingToParse \/ ExpandKeyword

Next == Turn \/ NextKind

Spec == Init /\ [][Next]_vars /\ WF_vars(Next)

-----------------------------------------------------------------------------
Entered(kwd) == {kwd.via[i] : i \in DOMAIN kwd.via}

(***************************************************************************)
(* Types.                                                                  *)
(***************************************************************************)
Keywords == [kind : Kinds \cup {"other"}, to : Names \cup {Attached},
             at : Nat \ {0}, unit : {"record", "byte"},
             file_name : [directory : Directories, name : Names],
             via : Seq(Names)]

TypeOK ==
  /\ disk \in Disks
  /\ directory \in Directories
  /\ DOMAIN tree \subseteq Positions
  /\ IsFiniteSet(DOMAIN tree)
  /\ \A p \in DOMAIN tree :
       /\ Above(p) \subseteq DOMAIN tree
       /\ tree[p] \in [file_name : [directory : {directory}, name : Names],
                       keywords : Seq(Keywords)]
  /\ expanding \in Kinds \cup {"done"}
  /\ expand \subseteq Kinds
  /\ turns \in Nat

(***************************************************************************)
(* The case ExpandIsRecursive covers: the label is named without a         *)
(* directory, labels spell names as the files are, and a file other than   *)
(* the label has its "^" keywords inside its objects, where the file's     *)
(* name stays on the parent chain.                                         *)
(***************************************************************************)
Tidy ==
  /\ directory = NoDirectory
  /\ \A n \in Names : find_file(n) = n
  /\ \A n \in Names : \A i \in DOMAIN disk[n] : \A j \in DOMAIN disk[n][i][<<>>] :
       disk[n][i][<<>>][j].kind \in Kinds => n = Label

(***************************************************************************)
(* No file is parsed again while what it included is being expanded        *)
(* (io_lablib3.c:404, "We're in trouble if we've encountered this file     *)
(* before").                                                               *)
(***************************************************************************)
NoFileReentered ==
  \A l \in Places : \A i, j \in DOMAIN KeywordAt(l).via :
    KeywordAt(l).via[i] = KeywordAt(l).via[j] => i = j

\* The check that keywords and parents make keeps out every cycle of
\* inclusions in the case it covers.
TidyFilesNotReentered == Tidy => NoFileReentered

(***************************************************************************)
(* What appending amounts to: in every object the keywords of the object's *)
(* own file stand before those spliced in, however often and in whatever   *)
(* order its keywords are expanded, so that OdlFindKwd meets them first    *)
(* (io_lablib3.c:440-448).  It is not what the comments say the expansion  *)
(* does: see IncludedInPlace.                                              *)
(***************************************************************************)
OwnKeywordsFirst ==
  Tidy => \A p \in DOMAIN tree : \A i, j \in DOMAIN tree[p].keywords :
            /\ i < j
            /\ tree[p].keywords[j].file_name = tree[p].file_name
            => tree[p].keywords[i].file_name = tree[p].file_name

(***************************************************************************)
(* The results go "into the tree right where the keyword is sitting", like *)
(* include files in C (io_lablib3.c:140-142, 330-332): the keywords behind *)
(* one that is expanded stay behind what takes its place.                  *)
(***************************************************************************)
Behind(keywords, i) == SubSeq(keywords, i + 1, Len(keywords))

IncludedInPlace ==
  [][\A l \in Places : Found(l) =>
       LET behind == Behind(tree[l[1]].keywords, l[2])
           now == tree'[l[1]].keywords
       IN  behind = Behind(now, Len(now) - Len(behind))]_vars

(***************************************************************************)
(* Expansion ends, whatever includes what.                                 *)
(***************************************************************************)
ExpansionEnds == Tidy ~> expanding = "done"

=============================================================================
