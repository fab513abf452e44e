---------------------------- MODULE OdlWildCard -----------------------------
(***************************************************************************)
(* OdlWildCardCompare (io_lablib3.c): how the searches of a label compare  *)
(* the text they are given, in which "*" stands for anything, with names   *)
(* and values.  A text is a sequence of characters.                        *)
(***************************************************************************)
EXTENDS SequencesExt, Integers

CONSTANTS
  Characters,
  WildCards, \* texts that searches are given
  PlainTexts \* names and values that they come upon

ASSUME TextsAssumption ==
  WildCards \subseteq Seq(Characters) /\ PlainTexts \subseteq Seq(Characters)

Star == "*"
Quotes == {"'", "\""}

\* StripLeading and StripTrailing of one character.
Stripped(s, c) ==
  LET kept == {i \in DOMAIN s : s[i] # c}
  IN  IF kept = {} THEN <<>>
      ELSE SubSeq(s, Min(kept), Max(kept))

\* A text that begins with a quote loses its quotes, and the blanks in them.
Unquoted(s) ==
  IF s # <<>> /\ s[1] \in Quotes THEN Stripped(Stripped(s, s[1]), " ") ELSE s

\* The places from `from' on where chunk is in text.
Occurrences(text, chunk, from) ==
  {i \in from..(Len(text) - Len(chunk) + 1) :
     SubSeq(text, i, i + Len(chunk) - 1) = chunk}

\* A bug: the search begins after the character the last chunk ended with.
StrStrPast(text, chunk, from) ==
  LET starts == Occurrences(text, chunk, from + 1)
  IN  IF starts = {} THEN 0 ELSE Min(starts)

\* strstr: where `chunk' first is in `text' at or after `from', or 0.
StrStr(text, chunk, from) ==
  LET starts == Occurrences(text, chunk, from)
  IN  IF starts = {} THEN 0 ELSE Min(starts)

\* The stretches between the stars of a pattern: where the one that j is in
\* begins, whether it ends at j, and what it is up to there.
ChunkStart(pattern, j) == Max({0} \cup {x \in 1..j : pattern[x] = Star}) + 1
ChunkEnds(pattern, j) ==
  pattern[j] # Star /\ (j < Len(pattern) => pattern[j + 1] = Star)
Chunk(pattern, j) == SubSeq(pattern, ChunkStart(pattern, j), j)

\* text_start when `substr' has come past the place j of the pattern, or 0 when
\* a chunk was not found: each is looked for where the one before it ended.
TextStart(pattern, text) ==
  LET After(chunk, from) ==
        LET at == IF from = 0 THEN 0 ELSE StrStr(text, chunk, from)
        IN  IF at = 0 THEN 0 ELSE at + Len(chunk)
      past[j \in 0..Len(pattern)] ==
        IF j = 0 THEN 1
        ELSE IF ChunkEnds(pattern, j) THEN After(Chunk(pattern, j), past[j - 1])
        ELSE past[j - 1]
  IN  past

\* The first chunk may be anywhere, and the last, when no star follows it, must
\* end the text where it is first found.
OdlWildCardCompare(wildcard_text, plain_text) ==
  LET pattern == Unquoted(wildcard_text)
      text == Unquoted(plain_text)
      stop == TextStart(pattern, text)[Len(pattern)]
  IN  IF Star \notin Range(pattern) THEN text = pattern
      ELSE stop # 0 /\ (Last(pattern) # Star => stop = Len(text) + 1)

-----------------------------------------------------------------------------

\* What a pattern with stars usually means: where in the text the first j
\* characters of the pattern may end, when it may begin after those in `begin'.
MayEnd(pattern, text, begin) ==
  LET ends[j \in 0..Len(pattern)] ==
        IF j = 0 THEN begin
        ELSE IF pattern[j] = Star
          THEN {k \in 0..Len(text) : \E e \in ends[j - 1] : e <= k}
          ELSE {k \in 1..Len(text) :
                  k - 1 \in ends[j - 1] /\ text[k] = pattern[j]}
  IN  ends

Glob(pattern, text, begin) ==
  Len(text) \in MayEnd(pattern, text, begin)[Len(pattern)]

\* OdlWildCardCompare takes a text without stars for itself alone.  With stars
\* it is the usual comparison as if the pattern began with one ("^*STRUCTURE"
\* finds "^" anywhere), as long as a chunk that must end the text is in it
\* once; it passes over a name that says STRUCTURE twice, and in no case takes
\* a text that does not have the chunks in their order.
ComparesLikeGlob(wildcard_text, plain_text) ==
  LET pattern == Unquoted(wildcard_text)
      text == Unquoted(plain_text)
      found == OdlWildCardCompare(wildcard_text, plain_text)
      globbed ==
        Glob(pattern, text, IF Star \in Range(pattern) THEN 0..Len(text) ELSE {0})
  IN  /\ found => globbed
      /\ globbed /\ ~found =>
           /\ Last(pattern) # Star
           /\ Cardinality(Occurrences(text, Chunk(pattern, Len(pattern)), 1)) > 1

=============================================================================
