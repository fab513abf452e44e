# iomedley in TLA+

iomedley is a C library that loads the headers and reads the pixels of raster
images and cubes in a dozen formats, and writes thirteen. The caller opens a
file, `iom_LoadHeader` finds out what it is, `iom_read_qube_data` reads all of
it or a slice, and an `iom_Write...` function writes a cube that is in memory.
PDS labels are read with a parser of their own (`io_lablib3.c`), which is a
library inside the library: an object tree, a parser, and the expansion of
labels that include other labels.

This directory holds TLA+ modules that model these parts, TLC configurations
that check them on small instances, and TLAPS proofs of the invariants that
matter most. `PROJECT.json` maps every definition to the lines it models.
Line numbers in this file are of the sources in `src/`.

    tlc -workers 2 -config MCQube.cfg MCQube      (any MC module with a cfg)
    tlapm QubeReaderProofs.tla                    (any ...Proofs module)

## 1. The system

Nothing in the library runs concurrently: it has no threads, no callbacks of
its own and no lock. What is hard about it is what sequential C makes hard.

 * A call is a long series of steps of which every one can fail: malloc, seek,
   a short read, a full disk, a jump out of a decoder. Each failure has its
   own way out, and each way out a list of things to put back.
 * State lives on between calls: the slice in a header, the attached image, the
   position of an open file, the pointers of a tree, the files a writer left.
   Long legal sequences of calls reach states that no single call shows.
 * Twelve readers share one open file and one header, one after the other.
 * Sizes are computed in one place and looped over in another.
 * Loops go by pointers, by levels, or by files that include each other, and
   have to end.
 * The file system is shared: another process may create a file between a
   writer's check and its open.

### Inventory

**Cube header and cube reader** (`iomedley.c`, `iomedley.h`).
State: `struct iom_iheader`, that is size, slice (`s_lo`, `s_hi`, `s_skip`),
dim, prefix, suffix, corner, dptr, order, formats, and `data`, the decoded
image if a loader attached it.
Operations: `iom_init_iheader`, `iom_SetSliceInHeader` (a name for
`iom_MergeHeaderAndSlice`), `iom_ClearSliceInHeader`, `iom_read_qube_data`,
`iom_detach_iheader_data`, `iom_cleanup_iheader`.
Correct when: a read delivers the pixels of the slice, in file order, in whole
planes; nothing is copied from outside the plane or to outside the block; the
slice is put back; nothing stays allocated; and a read returns.

**Unified header loader** (`iom_LoadHeader`).
State: the open file's position, the header being filled, what the reader at
work has allocated. It calls twelve readers in a fixed order until one answers 1.
Correct when: a file is accepted by its own reader whatever the ones before it
did to the stream; a rejection leaves nothing behind; an accepted header
describes the file, and the attached image is as large as the header says.

**Readers of label formats** (`io_vicar.c`, `io_isis.c`, `io_aviris.c`,
`io_grd.c`, `io_goes.c`, `io_imath.c`, `io_envi.c`). They read a label and leave
the image in its file. The ISIS reader goes through the ODL parser.

**Readers of decoded images** (`io_pnm.c`, `io_jpeg.c`, `io_png.c`, `io_tiff.c`,
`io_gif.c`). They decode the whole image to memory with a library that may give
up at any point, two of them by `longjmp`.

**Writers** (the same files, `io_raw.c`, `io_ers.c`, `io_bmp.c`, and the write
functions of `iomedley.c`). Without state between calls; they check that the
file does not exist, that the cube suits the format, convert, open, write, close.
Correct when: a file that was there is not touched without force, success means
a whole file, a reader of this library finds in it the cube that was written,
failure leaves neither a file nor a block, and the caller's block stays the
caller's.

**Item formats and byte order** (`iom_byte_swap_data`, `iom_NBYTESI`,
`iom__ConvertToBIP`, `iom_Cpos`, `iom_Xpos`, and what each writer and reader says
of the order of bytes). Pure functions on a block of memory.
Correct when: a value written on one host is found at its sample, line and band
on any other.

**ODL object tree** (`io_lablib3.c`). State: `OBJDESC` blocks with five pointers
and a level. Operations: new, cut, paste as last child / before / after, copy,
free, and the traversal used by the level adjustment and by the search.
Correct when: the pointers agree, nothing points to a freed block, levels follow
parents, walks end, and a search answers the object asked for.

**Keywords of ODL objects** (`io_lablib3.c`). State: `KEYWORD` blocks with a name,
a value and three pointers, and the two ends of its list in each object.
Operations: new, cut, paste before / after / last, copy, free one and free all,
`OdlFindKwd`, `OdlNextKwd`, searches for objects by keyword, and the comparison
of names with wild cards.
Correct when: the lists agree with the tree they hang on, an object that is freed
takes exactly its own keywords with it, and a search passes over nothing where
one list ends and the walk goes on to the next object.

**ODL parser** (`OdlParseFile`). State: the text of the statement being gathered,
three flags about it, the object that statements are hung at.
Correct when: each statement gets its own lines, each object and keyword its
place, the files are closed, and a damaged label is complained about.

**ODL expansion** (`OdlParseLabelFile`, `OdlExpandLabelFile`). A `^STRUCTURE` or
`^CATALOG` keyword is replaced by what is in the file it names.
The comments say that they go where the keyword stood; the code appends them to
its object. Correct when: expansion ends, no file is expanded inside itself, and
what an object has of its own file stays before what is appended to it.

**The BMP reader** (`iom_ReadBMP`, `iom_GetBMPHeader`), which the loader does not
call. It reads a file a byte after the other and never seeks: where it is when it
comes to the image follows from all it has read before.
Correct when: every pixel is read from where the file has it.

**Decompression and file names** (`iom_uncompress`,
`iom_expand_filename`), **LIST and QUEUE** (`tools.c`), **ODL validation and
printing**, **verbosity**, **the demonstration program** `test.c`, the **build
files** and the **vendored libraries** (giflib, libjpeg, libpng, libtiff): not
modelled, see section 8.

### How the parts interact

    caller --LoadHeader--> readers --attach image / fill header--> iheader
       |                      \--ISIS--> ODL parser -> expansion -> object tree
       |--SetSlice / ClearSlice--> iheader
       |--read_qube_data--> iheader + the open file, or the attached image
       |--Write...--> a file by name

The loader and the cube reader share the header and nothing else: the loader's
model (`HeaderLoader`) checks that a header describes the file and that an
attached image is as large as the header says, and the cube reader's model
(`QubeReader`) starts from headers of that kind. The parser, the expansion and
the tree share the tree: `OdlTree` models the pointers, `OdlForest` says that
they are a forest of sequences of children, and the parser and the expansion are
modelled over such a forest. The only calls they make on the tree are pasting
as last child, cutting, freeing and searching downwards from the root. The lists
of keywords hang on the same tree: `OdlLabel` extends `OdlTree` by them, and
`OdlFreeTree` is one step of both. The writers and the readers meet in a file:
`Writers` says what is left on the disk, and `CubeLayout` which byte of the
caller's data is where in it, and where a reader looks for each value.

## 2. Modules

| module | models | extends / instantiates |
|---|---|---|
| `QubeGeometry` | axis orders, sizes of lines and planes, the C divisions | |
| `QubeReader` | the header between calls and a read step by step | `QubeGeometry` |
| `QubeSpec` | what a read promises, without blocks and offsets | `QubeGeometry` |
| `QubeRefinement` | the bytes of a file, the refinement mapping | `QubeReader`, INSTANCE `QubeSpec` |
| `QubeHistory` | a history variable: the slice set last | `QubeReader` |
| `HeaderLoader` | `iom_LoadHeader` and its twelve readers | `QubeGeometry` |
| `BmpFile` | the headers of BMP files, and where their reader looks for each pixel | |
| `CubeLayout` | where the values and bytes of a cube lie in memory and in each kind of file | `BmpFile` |
| `Writers` | the thirteen `iom_Write...` functions | `CubeLayout` |
| `OdlTree` | the pointers and levels of the object tree | |
| `OdlForest` | the same operations on sequences of children | |
| `OdlTreeForest` | which sequences of children the pointers stand for | `OdlTree`, INSTANCE `OdlForest` |
| `OdlTreeRefinement` | the order of a label, and what a search over it should answer | `OdlTreeForest` |
| `OdlLabel` | keywords of objects, searches by keyword, `OdlFreeTree` with them | `OdlTree` |
| `OdlKeywordLists` | the same operations on a sequence of keywords for each object | |
| `OdlLabelLists` | which sequences of keywords the pointers stand for | `OdlLabel`, `OdlTreeForest`, INSTANCE `OdlKeywordLists` |
| `OdlLabelRefinement` | the order of the keywords, and what searches for and by them should answer | `OdlLabelLists`, `OdlTreeRefinement` |
| `OdlWildCard` | `OdlWildCardCompare` on texts over any characters, and what a pattern usually means | |
| `OdlParse` | `OdlParseFile` | |
| `OdlExpand` | `OdlParseLabelFile`, `OdlExpandLabelFile` | |
| `...Proofs` | theorems about `QubeReader`, `OdlTree`, `OdlLabel`, `OdlParse`, `OdlExpand`, `HeaderLoader`, `CubeLayout`, `Writers` | the component, `TLAPS` |
| `MC...` | instances for TLC | |

Definitions keep the names of the source where TLA+ allows it (`s_lo`, `dsize`,
`OdlCutObjDesc`, `CheckBalance`). Operators introduced by a comment "A bug:" or
"Mutant:" are not part of the models: each is a plausible mistake in the
definition that follows it, and `PROJECT.json` names the property that notices
it. No definition refers to them.

### QubeReader

One variable for each field of the header that changes after it was loaded, and
one for each local of `iom_read_qube_data` that lives across a step. `head` is
what the loader left. `pc` is the point the read has reached: the two
allocations, and for each plane the seek, the chunks `read_fully` asks for, the
comparison of what was read with what was asked, and the lines. `live` is the
set of blocks the library owns. `out` stands for the output: the offset in the
file (or in the attached image) from which each pixel was copied. `fault` and
`asked` are history: whether the file failed this read, and the slice it began
with.

`SetSliceInHeader` copies positive fields through `iom_orders`; `ReadQubeData`
fills in the defaults, clips, makes the slice 0-based and computes the size of
the output as the code does, with C division. A short `read(2)` of any length, an
error and the end of the file are one action (`ReadShort`), since `read_fully`
treats them alike.

A slice whose lower end is past its upper end is not refused by the code, and
makes a dimension negative. If the product of the extents is negative the
allocation cannot be granted and the model follows the code; if it is not (two
negative dimensions, or a stride that rounds the count up to zero or one) the
loops run on a negative number converted to `size_t`. `SliceInContract` leaves
these calls out, since what C does then is undefined. It is a hazard without a
property in `PROJECT.json`.

### HeaderLoader

A file is its format, its dimensions, order and size of item, and a set of
traits, each a thing that some reader tests or trips over. Each reader fills in
`h->size` in its own way, which is what `HeaderDescribesFile` is about: Vicar,
AVIRIS and ENVI by the table `iom_orders` (`TableHeader`), an ISIS qube in the
order of its axes, an ISIS image by exchanging what it has read (`Exchanged`), GRD,
GOES and the decoders one by one, and IMath with the two numbers of the file turned
(`io_imath.c:82`). Labels that are accepted although something is missing are
modelled as accepted: a dimension left out is 0 (`Given`), and a qube whose axes
are not known has order -1 and an image with an unknown `BAND_STORAGE_TYPE`
whatever the variable held (`NoOrg`, or any order). `iom_orders[h->org]` is looked
up by the cube reader afterwards; the model of the loader ends before that. A label reader
answers in one step, the ISIS, AVIRIS and Vicar readers with the step at which
they hold the label. A decoder has a step for the test of the first bytes, for
the creation of the library's structures, for the allocations and for the
reading, and in each of these memory or the file may fail. `blocks` is what is
allocated, `lost` the readers that dropped an image, `hardship` whether anything
failed in this call: the models of `NothingLost` and `SoundFileLoaded` need to
know it. `crash` says that the code followed a pointer that is NULL; the program
stops there, which is why the runs of this module do not check for deadlock.

The caller loads again only after a cleanup, as `iomedley.h` asks.

### Writers

`StagesOf` gives each writer its steps in its order. The steps are shared and
consult the writer for what differs: who opens exclusively, who tests the stream
and when, who removes the file, who frees what. The state is the data file and
the ERS label on the disk, the open handle, the blocks, what was freed that was
not the writer's, and the fault that a write met and who saw it. A file is
absent, the user's (`theirs`), a part, whole, or `garbled`: whole, but not what
its label says, because the writer does not refuse an item or an order that its
format cannot describe. The same call is made again and again on what it left
behind. `Intrude` is another process that creates the file between two steps.

What a file is `whole` or `garbled` by is not declared but computed: when the
last of its data is written, `Writers` asks `CubeLayout` for the bytes and
whether a reader finds the cube in them. A file is `padded` when it is whole and
has bytes behind the data that are not the caller's.

### CubeLayout

A value is named by its place, `<<sample, line, band>>`, and a byte by the place
and its number within the item as the writing host has it. `Given` is the
caller's block in these terms, `OneWrite`, `PixelRows`, `Strips`, `BottomUp`,
`Grid` and `Matrix` are the six ways in which the writers put it into a file. Two
of them change the item: `Grid` converts every item to a real of four bytes, whose
bytes are the caller's only if it was one before, and the reader of PNG files makes
ints of 16-bit samples with zeros above them (`toInts`), so that a short of -1 is
read as 65535. And
`ItemAt` is what a reader finds for a place, on a host of a given order.
`ReadsBack` compares the two for every place and both orders. Bytes from past the
end of the block are `"beyond"`: `iom_NBYTESI` gives 5 for the four-byte reals,
whose number in the enumeration is 5 (`iomedley.h:76`), so the writers that call
it write, and `iom__ConvertToBIP` copies, more than there is.

The order of bytes a writer states in its label and the one a reader takes the
word to mean are translated separately (`OrderWord`, `OrderMeant`). `iom_LSB4`,
with which GRD and IMath write their sizes, does nothing on a little-endian host,
while their readers take the sizes for a big-endian machine's: such a file is
`Unreadable`.

`BmpFile` has the headers of BMP files word by word, and computes how far
`iom_ReadBMP` has read when it comes to the image (`ImageAt`) and at which bit of
the file it finds a pixel (`BitAt`). `Made` and `ReadInPlace` say what a BMP file
is, apart from the reader: the offset in the file tells where the rows begin, each
is filled up to four bytes, the last comes first, and blue is before red. The
decoders for run-length coding are left out: no header reaches them.

### OdlTree, OdlForest

Editing the links is one step: the routines are straight-line code. The traversal
is a loop and takes a step for each object visited and each parent climbed to, so
that `WalkReturns` says something. `OdlTraverseTree` decides by levels where
to stop, and the level adjustment, which repairs the levels, uses that same
traversal; that is modelled as it is. `Tree(o)`, the blocks `OdlFreeTree` frees,
is the least set that the pointers close, and not the forest's notion of a
subtree: that the two agree is a consequence that `ImplementsForest` checks.

`OdlForest` says what a reader of `io_lablib3.h` would expect: cut takes an
object with all below it out of its parent's sequence, a paste puts it at the
end, before or after, a free removes it with all below. The mapping
(`OdlTreeForest`) reads the sequence of children off the pointers, in a function
as long as there are objects with that parent.

`OdlTreeRefinement` says what `OdlFindObjDesc` should answer without a walk. `Met`
is what a loop along a pointer comes to: the least set that the pointer does not
leave. From it are the objects above and below one and its older siblings, and
`Precedes`, the order of the label: an object stands before what hangs below it
and before all at and below its younger siblings. The answer is the one of the
matches in the scope with so many of them before it (`Answers`).

The paste routines ask for an object in no tree and a place outside it
(`CanPaste`); all callers in the source satisfy that.

### OdlLabel, OdlKeywordLists, OdlWildCard

The tree's actions are those of `OdlTree` with the keyword variables unchanged
(a new object and a copy have no keywords), but for `OdlFreeTree`, which frees the
lists of what it frees. A search shares the walk of the tree and adds a step for each keyword of a
list it runs through; `OdlNextKwd` begins in the middle of one. A name or a value
asked for is the set of those it matches, so that a search does not depend on how
text is compared; `OdlWildCard` says that, with a text as a sequence of
characters. The loop of `OdlWildCardCompare` over the chunks of a pattern is the
recursive function `TextStart` over the places of the pattern, and the usual
meaning of a pattern is another (`MayEnd`): the places of the text where the first
so many characters of the pattern may end.

`OdlKeywordLists` is the specification: a sequence of keywords for each object,
with the operations of the same names. The mapping (`OdlLabelLists`) reads them
off the pointers. `OdlLabelRefinement` continues the order of the objects by that
of the keywords in a list, and defines the answers of searches by both.

### OdlParse

A step is one turn of the loop around `fgets`, and a line is one of seventeen
kinds: what the parser tells apart after blanks at the ends are gone. An object
or a keyword is named by the line number of the end of its statement, which is
what the code records. The flags `equals_found`, `val_found`, `balanced` and the
gathered text are the code's. `CheckBalance` counts parentheses and quotes of the
text from the first `=` on. A call says whether a missing END is complained about:
`OdlParseLabelFile` asks for one, `OdlExpandLabelFile` passes
`ignore_missing_end = 1` for the labels it includes (`io_lablib3.c:431`). `closed`
is history: the lines of the END_OBJECTs.

### OdlExpand

A tree is a function from positions to objects, where a position is the list of
child numbers from the root: the parents of an object are the prefixes of its
position. A file is the sequence of labels that its start locations give. One
step is one turn of the `while (! done)` loop: it finds the first keyword of the
kind, refuses it, finds nothing to parse, or splices. `via` on a keyword is
history: the files whose inclusion led to it. The name in a file and the path
the label was named with are kept apart, since the recursion check compares full
names.

## 3. Runs

Twelve runs. State counts are of distinct states.

| run | module, cfg | states | shows |
|---|---|---|---|
| `qube` | `MCQube` | 157 404 | a read implements `QubeSpec`, stays inside its blocks, leaks nothing, restores the slice, and returns |
| `odl_label` | `MCOdlLabel` | 420 684 | the pointers implement a forest with lists of keywords, levels follow parents, a search by class answers the n-th match of its scope; wild cards |
| `odl_search` | `MCOdlLabel`, `MCOdlSearch.cfg` | 345 073 | searches for and by keywords answer the n-th match; every walk ends |
| `parse` | `MCOdlParse` | 2 108 232 | statements, nesting, complaints and files of every short label |
| `expand` | `MCOdlExpand` | 25 431 | recursion is recognised where the check covers it, order of keywords, termination |
| `loader` | `MCHeaderLoader` | 1 616 | sound files are loaded, described and attached whole; failures leave nothing |
| `writers` | `MCWriters` | 32 044 | files, blocks and the caller's data after every success and failure, and what a reader finds in the files |
| `qube_reuse` | `MCQubeHistory`, `MCQubeReuse.cfg` | | *violated*: a second slice does not replace the first |
| `odl_down` | `MCOdlTree`, `MCOdlDown.cfg` | | *violated*: a downward search leaves its sub-tree |
| `expand_mutual` | `MCOdlExpand`, `MCOdlExpandMutual.cfg` | | *violated*: a cycle through first-level keywords is not recognised |
| `expand_place` | `MCOdlExpand`, `MCOdlExpandPlace.cfg` | | *violated*: what is included does not come to stand where the keyword stood |
| `load_planes` | `MCHeaderLoader`, `MCLoadPlanes.cfg` | | *violated*: a TIFF with separate planes is attached as one plane |

The properties, and what breaks them:

**qube.** `ImplementsQubeSpec` is the main one. The bytes of a file are laid out
in `QubeRefinement` from what the fields of a header mean, and the reader's
offsets are looked up in them, so a wrong term in an offset delivers padding or
another pixel. `OutputFits` and `LineInsidePlane` are the two bounds that the
loops of the reader rest on but never test. `NothingLeaks` and `SliceRestored`
cover all ways out. `ImageReadsInBounds` bounds the copy out of an attached
image. `ReadReturns` is termination whatever the file does.

**odl_label.** `LinksAgree` in four parts: nothing dangles, siblings agree, first
and last child agree with the siblings, and every child is reached from the
first. `LevelsFollowParents` after each adjustment, which matters because the
adjustment decides by old levels where to stop. `FindAnswers` leaves out searches
that start at an object without children and with a right sibling
(`EscapesSubtree`): those are the finding of `odl_down`.
`KwdLinksAgree` has the same four parts for the lists, each tied to
the tree: no keyword outlives its object, whoever frees either.
`ImplementsLists` says that each operation does to the lists what it does to
sequences, and that editing the tree does nothing to them. `WildCardsFind`
compares `OdlWildCardCompare` with the usual meaning of a pattern. They differ in
two ways, which are in the statement: the first chunk may be anywhere in the
name, and a last chunk that occurs twice makes the comparison fail.

**odl_search.** `KwdAnswers` and `ObjectAnswers` define the answer by the label's
order: all objects of the scope, with all their keywords, the n-th that fits. The
case of `odl_down` is left out here too (`EscapesSubtree`), and for
`ObjectAnswers` searches by name and value where an object has two keywords of
the name asked for (`NamesDiffer`), of which the code looks at the first.
`SearchEnds` is about searches, `WalkReturns` about level adjustments too.

**parse.** `StatementsAreShortest` compares the flags that are kept from line to
line with a reading that needs none: a statement is the shortest run of lines
from its first that has a complete value. `NestingFollowsEnds` defines the
innermost open object from the END_OBJECTs alone. `QuietMeansComplete`: no
complaint means as many END_OBJECTs as OBJECTs, and that END was seen, if the
caller asks for one. An included label that is cut off between two objects is
taken without a word.
`FilesReleased`: what was opened is closed, what was passed is not.

**expand.** `TidyFilesNotReentered` and `ExpansionEnds` hold where the recursion
check can see the names it compares: the label is given without a directory,
labels spell names as the files are spelled, and only the top label has its
keywords on the first level (`Tidy`). `OwnKeywordsFirst` is what appending comes to
over many expansions: what an object has of its own file, the keywords of kinds
not yet expanded among them, stays before all that was spliced in, and
`OdlFindKwd` meets it first. No document asks for that; the comments say something
else, which `expand_place` refutes.

**loader.** `NothingLost` and `FailureOwnsNothing` are about memory across twelve
readers. `SoundFileLoaded`: a reader does not suffer from the ones before it,
wherever they left the stream and whatever they put into the header. `HeaderDescribesFile` relates the order each
reader chooses with the dimensions it puts on the axes in its own way, on which the
cube reader and every caller of `iom_GetSamples`, `iom_GetLines` and `iom_GetBands`
rely; IMath files are turned, and a dimension that a PDS label leaves out is 0.
Left out are PDS labels whose order is not known. `ImageIsWholeInOnePlane` relates the
size of the block with the dimensions.

**writers.** `ExistingFilesKept` at every moment of a call without force;
`GIFReplacesNothing` over a step, for the one writer that opens exclusively;
`SuccessIsWhole`, `FailureLeavesNothing`, `NothingKept` and `CallersDataKept`
when a call returns; `CallsReturn`. `CubesReadBack` says for which cubes each
writer may be trusted (`Faithful`), in both directions: from every other cube it
makes a file in which a reader finds other values, or none. Four kinds of mistake
would show in it: a place computed with the sizes in another order, an item taken
for another width, a row or band counted from the other end, and an order of
bytes stated but not kept. `BMPFilesRead` is about files that other programs
wrote: `ReadInPlace` for each of the files in `BMPFiles`, which may be any of
`BMPKinds`.

### Known exceptions, built into the statements

The writers' properties name the writers they do not hold of, because the code is
written that way. What documentation there is of the writers describes other code:
the comment at `iomedley.h:288-300` says that they take the pointer of an output
file already opened, with the file's name for information only, and swap bytes as
the external format asks, and they open the file by name and swap nothing; the
comment at `io_bmp.c:706-717` says that `iom_WriteBMP` writes a GIF and returns 1
or 0, and some of its returns are -1. No run is made of either, and neither speaks
of the cases below.

 * IMath tests for an existing file the wrong way round (`io_imath.c:109`):
   without force it refuses a new file and overwrites an old one.
 * Vicar and GRD open the file before they look at the kind of item or the
   order, and leave an empty file when they refuse.
 * Vicar forgets to close the file when it refuses, and PNG, TIFF and GIF leave
   blocks or library structures behind on some failures; PNG on a failed open
   destroys structures that it has not created (`wild_pointer`).
 * BMP frees the caller's data, and asks a closed stream for errors.
 * On a little-endian host the sizes that GRD and IMath write are in an order in
   which their own readers do not recognise them. IMath also writes columns as
   rows, and is read back turned: it is trusted only with a single real of eight
   bytes, on a big-endian host. GRD converts every item to four-byte reals, and is
   trusted with these only.
 * PNG files of shorts are read back as ints without a sign (`io_png.c:119-125`).
 * Vicar, ENVI, ERS and raw read past the end of a block of four-byte reals, and
   leave what is there behind the data (`padded`); ISIS names reals of five bytes,
   which no reader knows. BMP, PNM, JPEG, GIF and PNG are right for some kinds of
   item and do not refuse all others.
 * No writer looks at what `fclose` answers, so an error that shows only then is
   not noticed by any.
 * In all writers but GIF the test for the file and the open are two steps, and a
   file created between them is overwritten.
 * An error in libjpeg while writing ends the program.

### Findings

Each violated run states a sentence of the source.

 1. `qube_reuse`. "The iom_iheader can be reused by setting a different slice"
    (`iomedley.c:429`). A read writes its defaults into the header and
    `iom_SetSliceInHeader` copies positive fields only, so the second slice is
    mixed with the first.
 2. `odl_down`. "treat the current object as the root of a sub-tree"
    (`io_lablib3.c:715`). `OdlTraverseTree` goes to the right sibling of an object
    without children whatever the root level is.
 3. `expand_mutual`. "We're in trouble if we've encountered this file before"
    (`io_lablib3.c:404`). The name of a file is on its root, which is freed after
    the splice; a cycle through keywords of the first level leaves no trace.
 4. `expand_place`. "insert the results into the tree right where the keyword is
    sitting. In other words, these keywords function just like include files in
    "C"" (`io_lablib3.c:140-142`, and again at 330). `OdlExpandLabelFile` appends the
    results to the object of the keyword (`io_lablib3.c:440-456`), behind the
    keywords and objects that follow.
 5. `load_planes`. "non-NULL if all of the image is loaded" (`iomedley.h:146`),
    but a strip TIFF with separate planes is read plane over plane.

Seen while modelling, without a run of their own: the condition at `io_bmp.c:243`
refuses every compressed BMP file but those that say they have 32 bits, so the
run-length decoders are never reached, and images of 32 bits are read as if they
had 24; headers of other lengths than 12, 40 and 64 are read as the shortest; a
label without an image object
makes the ISIS reader compare `*r_obj` (`io_isis.c:402`), which `iom_LoadHeader`
passes as NULL, and the comment at `io_isis.c:47` allows that; `dim` is the extent of the slice and ignores `s_skip`, while the comment at
`iomedley.h:126` and `test.c` take it for the size of the result
(`iomedley.c:491`); `iom_NBYTESI(iom_FLOAT)` is 5 (`iomedley.h:76`); an extension
record before the image ends the GIF reader (`io_gif.c:362`); a GIF file without a
colour map is dereferenced; an ISIS qube with unknown axis names is accepted with
order -1, an index into `iom_orders` later; `CheckBalance` adds up braces and parentheses (`io_lablib3.c:5875`); a
quote closed on a line with a comment before it is lost with the comment; END and
END_OBJECT are swallowed by a `KEY =` that still waits for its value; a last line
without a newline is dropped, and `OdlParseLabelString` writes such files;
`line_number` of a keyword is the last line of its statement; the tail call for
`^CATALOG` does not look for `^STRUCTURE` keywords that it brings in; the
comment of `iom_Cpos` has the axes of BIL in another order than its code.

## 4. Bounds, and why they are enough

**qube.** Four headers, one for each shape that a loader produces: line prefix
and suffix with an offset; a line suffix, side planes and a corner with two-byte
items; an attached image; an axis left at 0. Extents of 1 to 3, so that a stride
of 2 divides one and not another. Eight one-axis slices whose combinations, set
one after another without a clear, give the mixed ones; among them a lower end
without an upper, an upper end past the cube, a lower end past the cube, and
negative fields. `MaxSingleReadSize` is 6 (1 GiB in the code), so that a plane
takes one to three chunks. Reads fail at every allocation, seek and byte.

**odl_label.** Four objects: the smallest number with an object, a parent, and a
sibling on both sides, or a tree of three pasted into a place of its own.
`MaxLevel = 3`: a cut object keeps its level, and pasting below it and cutting
again raises levels for ever; nothing is pasted below level 3. Searches of every
scope, with and without a class, first and second matches. Three keywords have a
neighbour on both sides; of two objects there are three, of three two and of four
one (`FewObjects`), so that a list is freed with an object, with the tree above it,
and not with one beside it. One search for a keyword and one for
an object come between the edits. All blocks are interchangeable, and the run uses that
symmetry. Patterns and texts of up to four characters, of two letters, a quote and
a star.

**odl_search.** The first object made decides what follows. Without `root` every
tree of the four other objects is edited, and searched by class while they are three,
to see that each walk ends: liveness does not allow symmetry. With it one of two labels is
parsed, object by object, with five objects on up to four levels, so that a walk
climbs out of two levels at once and comes to siblings with children of their own,
and then two keywords are put into every list and order, and none is searched for
while one is in no list (`AllListed`); ten requests, each of a
kind, and one object of another class than the rest.

**parse.** All files of at most five lines (`MaxLines`) of twelve of the
seventeen kinds: a statement over several lines takes three, and an object around
it two more. The five kinds left out differ from others only in what is on the
same line (`K = (A,` from `K =` then `(A,`). The theorems of `OdlParseProofs` are
for files of any length and all kinds.

**expand.** Three files. All ways in which three files include each other from
inside objects; start locations inside and past the end, by records and by
bytes; a value without a file name; a missing file; keywords on the first level
of included files; every mask; with and without a directory. `MaxTurns = 20` is
never reached where `Tidy` holds, which `ExpansionEnds` shows: a behaviour
stopped by the bound would not end in `done`. `expand_place` has the same files.

**loader.** Files of two samples, three lines and one to four bands, all
different so that swapped axes show; every order the format allows, item sizes
of 1, 2, 4 and 8, and each trait. The readers do no arithmetic on dimensions
beyond products, and the theorems are for any.

**writers.** Thirteen writers, six kinds of item, four orders (one unset), one to
three bands, with and without force: 1 872 calls. The ERS label and the data
file are there or not independently. No counter. Images are of two samples and
three lines, different from each other and, in two of three cubes, from the
number of bands, so that sizes in a wrong order show; a BMP row of them is filled
up. BMP files of one to nine and of 33 samples: rows that end inside a byte, inside
a group of four bytes and on one. The host that writes is little-endian in the cfg; the run also holds with
`HostIsBig = TRUE`, where GRD is faithful to reals of four bytes. Readers are on hosts of both orders.

## 5. Fairness

The code is sequential, and the only assumption is that a call that has begun
goes on: `WF_vars(Reader)`, `WF_vars(Next)` for the parser and
the expansion, `WF_vars(LabelReader \/ ImageReader)`, `WF_vars(Step)`,
and in `odl_search` `WF_label_vars(WalkEither)`, the next step of the adjustment or
search under way. The caller
is under no fairness: it may stop between calls. Neither is the other process in
`Writers`, nor `SkipComment` in `HeaderLoader`, which is a loop of the code that
does not end (`io_pnm.c:491`): `LoadReturns` excepts exactly that file. No
outcome of malloc, read or a library is favoured.

## 6. What is proved

Eight modules, 55 theorems and 689 lemmas, 21 590 obligations. Those about behaviours
are of the form `Spec => []P`, `Spec => [][A]_vars`, or that one specification
implements another, for every value of the constants under the named assumptions
in the component's module. These only give the constants their types, except
`NULL` being outside the other sets, and `DisksAssumption`: what a parser makes of
a file is a finite tree.

Where a proof follows a pointer, a sequence or a file from one end to the other,
there is no induction rule to cite: those of the library take an operator as a
parameter. Two arguments stand in for it. A set that a pointer does not leave
holds all that is reached along it (`ChildrenReached`, `Met`); and of the natural
numbers with a property one is the least (`LeastNat`: the library has that
inclusion of finite sets is well-founded, and `1..n` grows with n), so a formula
that holds of 0 and goes from n to n + 1 holds of all.

Liveness is out of the prover's reach, but half of it is not: that no step goes
back. `ReadsGoForward`, `WalksGoForward`, `SearchesGoForward` and
`LoadsGoForward` say of a loop of the library what each step of it uses up, for
instances of any size. They are about steps, and so do not depend on fairness.
What the runs add is that a call at work always has a step to take, and takes it.

**QubeReaderProofs.** `TypeOK` is not inductive: the loops subtract and divide.
`LoopBounds` adds that strides are positive, and extents not negative once
memory is granted, which is where `SliceInContract` enters. From
`TypeInv == TypeOK /\ LoopBounds` follow the rest, each with an invariant of its
own: `ShiftedSlice` (during a read the slice is what was asked, minus one) gives
`SliceRestoredThm`; `Ownership` (which blocks each `pc` holds) gives
`NothingLeaksThm`; `Shape` (the plane's size and the clipped slice) gives
`LineInsidePlaneThm`; `Progress` (bytes copied, as a sum of whole planes, whole
lines) gives `OutputFitsThm`. The lemmas beneath are about C division and strides:
`Strides(n, k) <= Items(n, k)`, and what one more line or plane adds.

`ImplementsQubeSpecThm` is that the reader delivers what `QubeSpec` promises, for
cubes and slices of every size. It has two halves. One is about files alone: a
file is laid out as lines of pixels, planes of lines and a sequence of planes, and
`FileHas` says at which byte each pixel is, from lemmas on sequences put together
of parts of equal length (`FlattenedParts`, `ByteInPart`). The other is an
invariant of the loops: `DeliveryInv` has that the header still describes the cube
that was loaded (`SameCube`), that the plane in memory is the one of the present band (`PlaneTaken`), and that what has been
copied are the pixels of so many whole planes and lines of the slice, in the order
of the file (`Delivery`). At `finish` both meet the definition in `QubeSpec` of
which pixels a slice has. `ImageReadsInBoundsThm` comes from the same invariant.

For `ReadsGoForward` what is left of a read is a tuple of four naturals: the part
of the call it is in, the planes to come, the place within the loop over planes,
and the bytes of the plane to be read or the lines to be copied. Each step makes
it smaller in the order of a dictionary, from the bounds of the loops (`LoopBounds`,
`Shape`, `Progress`) that the other theorems needed.

**OdlTreeProofs.** `TypeCorrect` and `LinksAlwaysAgree`. The pointers that agree
are not enough to keep agreeing: cutting the first child must know that its right
sibling, and no other object, becomes first. `ChildrenReached`, that a set closed
under right siblings with the first child in it has every child, supplies it, and
is itself a part of `LinksAgree`. Freeing needs that the freed set is closed.

`NeverACycle` is that no set of objects has the parents of all its members: it
needs that a paste goes to a place outside the object's tree. `LevelsAlwaysFollow`
needs it, and an invariant of the adjustment, `LevelInv`: below the object pasted,
the path from it down to where the walk is has only objects whose level is higher
than its own, so that the walk, which stops by levels, does not stop early; and
every object with a wrong level is in each set that is closed under the pointers
and holds what the walk goes on to, from the object it is at or from right
siblings of that path. What is wrong is always still ahead.

`PointersAreForest` rests on `Lines`: the children of each object are a line
without repetition, from the first along `right_sibling`, as long as there are
children. Lemmas on such lines, for any pointers, say what cutting one out and
putting one in does to the sequence; each operation then is its namesake of
`OdlForest`.

`SearchesAnswer` needs first that nothing precedes itself, and what comes before
the object that a step of the walk goes to: before the first child what is before
its parent and the parent (`BeforeFirstChild`), before the right sibling all at and
below the object in addition (`BeforeRightSibling`). Then the
invariant of a search is short (`FindInv`): what of the scope the walk has passed
is exactly what stands before the object it is at, or, when it climbs, before or
below it (`Passed`), and the count is that of the matches there (`Tally`). The
lemmas on a step of the walk (`VisitGoesOn`, `ClimbGoesOn`) speak of any set of
matches, so that searches by keyword use them too.

`WalksGoForward` has sets in the place of numbers: what a walk has not passed
(`ToGo`, all but what stands before it in the label's order) and the objects it can
climb to (`Height`). A step makes the first smaller, or leaves it and climbs, or
comes from a climb to the sibling it looked for, and none adds to it. That holds of
the walk that repairs the levels too, though it may stop by a wrong one.

**OdlLabelProofs.** `LabelTypeCorrect` and `KwdLinksAlwaysAgree`, by the same plan
for the lists, one lemma per operation and under it one step per part of
`KwdLinksAgree`. `OdlFreeTree` is where the two structures meet: a keyword whose
object stays keeps both neighbours, because neighbours share an object.
`PointersAreLists` is by the lemmas on lines of `OdlTreeProofs`.

For the searches the tree's invariants are shown to hold of the label as well
(`LabelTreeStands`). `ObjectSearchesAnswer` is from `ObjectInv`, which is the
invariant of a search in the tree with another set of matches; `FitsIfWanted` is
where `NamesDiffer` enters, since the code tests the first keyword of the name.
`KwdSearchesAnswer` is from `KeywordInv`: the keywords passed are those of the
objects passed, and of the object visited those before `kwd`, and in the list the
search began in none before the keyword it began with. That a climb has passed
the whole list of the start (`ClimbPassedStart`) is what makes this go from one
object to the next. Both theorems are for all trees and lists that edits can make;
the run `odl_search` has the trees of two labels. `SearchesGoForward` adds to the
measure of the walk the keywords of the object from `kwd` on.

`WildCardsAlwaysFind` is about texts alone, of any length over any characters, and
`AnyTextsCompare` is its statement of one pattern and one text. Both sides are
recursive functions over the places of the pattern; that there are such functions
is proved first (`Iterated`). That looking for each chunk where it first is loses
nothing is then said for every place of the pattern (`Reaches`): past a star, the
usual comparison may be anywhere from the end of the first chunks found on, and
within a chunk wherever the text has that much of it, from there on. `ChunksReach`
proves it of all places by looking at the least of which it does not hold. At the end
of the pattern the two differ only if the last chunk must end the text: the code
looks at the first place that has it, the usual comparison at the last.

**OdlParseProofs.** The invariant `IInv` has the types in two groups, the order of
parents and children, that what is gathered is not yet a statement, that the
counts of objects opened and closed agree with the depth of `curr_object`
(`Stack`), and what a silent parser implies at each `pc` (`Quiet`). It gives
`TypeCorrect`, `ParentsComeFirstThm`, `QuietMeansCompleteThm` and
`FilesReleasedThm`, for files of any length and lines. Two more invariants stand
on it. `NestInv` says that everything in the tree landed in the innermost object
open at its line, that the counts of children are right, and that the path from
the root to `curr_object` has just the objects still open, each with as many more
lines opened than ended after it as the path goes on below it. `CurrentIsInnermost`
and `OneInnermost`, which rest on counting lines, lead to `NestingFollowsEndsThm`. `ShortInv` says that the text gathered
is what the file has from the end of the last statement on (`Rest`), that the
flags tell of it what a reading without them would (`FlagsTell`), and that no
shorter part of it is a statement (`NotYet`); `StatementsAreShortestThm` follows.

**OdlExpandProofs.** `TypeCorrect` needs that a splice keeps a tree a tree. For
`TidyNotReentered` the invariant is `Tidy => AllTraced(tree)`: every file in the
history of a keyword is its own, or has its name on an object above. With it the
code's check, which sees only these names, is as good as the history.
`OwnKeywordsComeFirst`, about the order that appending leaves, needs of a splice
that the file it brings is not the object's own, which the check has seen to, and of a cut that what is left keeps
its order.

**HeaderLoaderProofs.** `IInv` says for each reader and stage what is allocated
(`BlocksInv`) and what the header may hold while no reader has answered
(`LoadInv`). It gives `TypeCorrect`, `FailureOwnsNothingThm`, `NothingLostThm` and
`HeaderDescribesFileThm`, for files of any dimensions: one lemma for each way of
filling in `h->size` (`TableDescribes`, `ObjectDescribes`, `ImagesDescribe`,
`PlanesDescribe`). `SoundFileLoadedThm` rests
on `SoundInv`: as long as nothing failed, the reader of a sound file is still to
come or at work, and the program has not stopped. `ImageIsWholeThm` rests on
`RoomInv`: a decoder that has begun to read has taken a block of the size the
header will say.

`LoadsGoForward` counts four stages for each reader still to be tried, and those
that the present one has left: from at most 48 down, whatever fails. The comment
without an end (`SkipComment`) is the only loop that is not among these steps.

**CubeLayoutProofs.** About the operators, for cubes of any size. `ItemDigits`
takes the index of an item for a numeral of three digits, in the bases the order
gives; `PlacesFoundAgain` is that the digits are found again. Each of the ways to
write a file then has a theorem that `ReadsBack` holds (`OneWriteReadsBack`,
`StripsReadBack`, `CopiedRowsReadBack`, `BottomUpReadsBack`), for PNG with bytes; of
shorts `ShortsReadUnsigned` says what is read instead. A byte of the
caller's data has a place (`GivenHasPlace`), and turning the bytes of an item
twice is turning them from the first order to the last (`TurnedTwice`).
`EveryKindReadInPlace` is about BMP files of any size by any program: what is in
a header is read from it, the image begins where the file says, and the four ways
of filling up a row come to the same number of bytes.

**WritersProofs.** The steps of thirteen writers are a table, and the invariant is
about where in it a call stands. `StagesInOrder` collects what is so of every
entry of the table, `StageFacts` and `CopyFacts` apply it to the present stage.
`IInv == TypeOK /\ DiskInv /\ HeldInv`, where `DiskInv` has that a call which
found a file does not get past its check (`Refused`), that the files are not the
call's before it opens them (`NotYetOurs`), that the data of a pair is closed
before its label is opened (`DataBeforeLabel`) and what GIF has opened stays its
own (`GIFsOwn`), and `HeldInv` that there is a copy of the data exactly from the
conversion on (`CopyMade`). One lemma for each action. It gives
`WritersTypeCorrect`, `ExistingFilesAlwaysKept`, `SuccessAlwaysWhole`,
`FailureAlwaysLeavesNothing`, `NothingEverKept`, `CallersDataAlwaysKept` and
`GIFNeverReplaces`, for any set of calls and any size of image. For
`CubesReadBackExactly` the invariant `FileInv` adds what a writer has refused and
converted before it opens its file (`Suited`, `CopiesKnown`), and the rest is about
operators. One half, that the cubes of `Faithful` read back, is from the theorems
of `CubeLayoutProofs`. The other is that no other cube does: for each writer there
is a place of the cube whose value a reader finds elsewhere, in the wrong order or
not at all. `padded`, the bytes past the end of the block, is exact in both
directions too (`NothingBeyond`). `BMPFilesAlwaysRead` is `EveryKindReadInPlace` at
the stage where the run looks at it.

## 7. What is only model-checked

 * Liveness: `ReadReturns`, `WalkReturns`, `SearchEnds`, `ExpansionEnds`,
   `LoadReturns`, `CallsReturn`. TLAPS here does not reach fairness. For four of
   them theorems say that no step goes back. There is none for `CallsReturn`,
   because a writer is a list of at most eight stages that is gone through once.
   Nor for `ExpansionEnds`: a turn of that loop replaces a keyword by as many as
   the file has, and what gets smaller is a bag of keywords, each weighed by the
   files that may still be included through it; that is an induction over data.
 * The sentences of the source that the code contradicts (the findings), which TLC
   refutes.

Every other property of the passing runs is a theorem.

## 8. What is not modelled

 * The values of pixels beyond their order and the order of their bytes: VAX
   reals (`vax_ieee_r`, `ieee_vax_r`; nothing writes them), interlacing, colour
   maps other than those of BMP, the widening of TIFF samples and quantizing. In the cube reader a
   pixel is where it came from.
 * The text of labels: numbers, names, wording, the values of prefix, suffix, gain
   and offset that readers take from them. The cube reader's headers have the
   shapes the readers produce, not their parsing. The macros of `header.h`.
 * Sizes beyond the width of an `int` or `size_t`: products of dimensions are
   mathematical. Several of them are `int` products in the code.
 * `iom_uncompress` and its like: a shell pipeline, called by nothing in `src/`.
   That a file's packed copy is behind `fp` while its name leads to the packed
   file is a trait of `HeaderLoader`.
 * BMP files that end early or whose image cannot be allocated, and the
   run-length decoders, which no header reaches.
 * ODL validation, printing and the conversion of values: functions on text
   without a state of their own.
 * LIST and QUEUE, which the rest of the library does not use, verbosity,
   `test.c`, build files.
 * The vendored libraries: every outcome their callers are prepared for is
   allowed. They are more than nine tenths of the lines in `src/`; of the
   library's own sources more than two fifths of the lines are mapped, and most of the rest is
   the text handling named here.


## 9. Plan

Done in this order: the cube reader (its arithmetic and its many exits are the
library's core), the object tree with its forest, the parser, the expansion, the
header loader, the writers; the proofs for the first five; then the layout of
files with the order of bytes, the keyword lists and searches by keyword, BMP
files, and the proofs for these and for the writers, for the nesting and the
gathering of statements, for the order of included keywords and for what the
loader promises of sound files; then the proofs of the three refinements, of the
levels, of what searches answer and of which cubes read back; last the proof about
wild cards, and those that reads, walks, searches and loads go forward.

Next:

 1. The refinements and answers above once more for the label as a whole, in one
    specification of a label without pointers: a forest with lists, and searches
    as functions of it.
 2. `VaxReals`: the conversions over small words, for TLC.
 3. The values that label readers take from labels (prefix, suffix, gain, offset),
    as the initial states of `QubeReader`.
