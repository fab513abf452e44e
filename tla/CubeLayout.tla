----------------------------- MODULE CubeLayout -----------------------------
(***************************************************************************)
(* Where the values of a cube lie in memory and in a file: which bytes of  *)
(* the caller's data a writer of this library puts where, and which bytes  *)
(* its reader then finds for each value, on a host of the same order of    *)
(* bytes or of the other.                                                  *)
(*                                                                         *)
(* A place is <<sample, line, band>>.  A byte is <<place, part>>, the part *)
(* counted within the item there as the writing host has it; one that is   *)
(* none of the caller's is a word alone.  The colours that JPEG and GIF    *)
(* lose, and VAX numbers, which nothing writes, are left out.              *)
(***************************************************************************)
EXTENDS BmpFile

\* Whether the host that writes is big-endian.
CONSTANT HostIsBig

ASSUME HostAssumption == HostIsBig \in BOOLEAN

\* The position of the samples, the lines and the bands in the sizes.
iom_orders ==
  [BSQ |-> <<1, 2, 3>>, BIL |-> <<1, 3, 2>>, BIP |-> <<2, 3, 1>>]

\* The sizes in the order in which a cube is stored.
SizesOf(dims, org) ==
  [i \in 1..3 |-> dims[CHOOSE d \in 1..3 : iom_orders[org][d] = i]]

CountOf(dims) == dims[1] * dims[2] * dims[3]

\* A bug: BIL is taken for lines of bands of samples.
iom_CposLineFirst(at, org, size) ==
  CASE org = "BSQ" -> at[1] + size[1] * (at[2] + at[3] * size[2])
    [] org = "BIP" -> at[3] + size[1] * (at[1] + at[2] * size[2])
    [] org = "BIL" -> at[1] + size[1] * (at[2] + at[3] * size[2])

\* The item at a place, counted from the first.
iom_Cpos(at, org, size) ==
  CASE org = "BSQ" -> at[1] + size[1] * (at[2] + at[3] * size[2])
    [] org = "BIP" -> at[3] + size[1] * (at[1] + at[2] * size[2])
    [] org = "BIL" -> at[1] + size[1] * (at[3] + at[2] * size[2])

\* The place of an item.
iom_Xpos(i, org, size) ==
  LET d == <<i % size[1], (i \div size[1]) % size[2],
             i \div (size[1] * size[2])>>
  IN [k \in 1..3 |-> d[iom_orders[org][k]]]

\* The bytes of an item, and what the library takes them to be.
Width ==
  [BYTE |-> 1, SHORT |-> 2, INT |-> 4, LONG |-> 8, FLOAT |-> 4, DOUBLE |-> 8]
iom_NBYTESI == [Width EXCEPT !["FLOAT"] = 5]

-----------------------------------------------------------------------------
(* The order of the bytes of an item.                                      *)

OrderOn(big) == IF big THEN "MSB" ELSE "LSB"
Native == OrderOn(HostIsBig)

\* Where an item in the one order has the part that is at `part' in the other.
Turned(from, to, w, part) == IF from = to THEN part ELSE w - 1 - part

\* An item of w bytes as a host of the other order would have it, or as it is.
iom_byte_swap_data(item, w, from, to) ==
  [part \in 0..(w - 1) |-> item[Turned(from, to, w, part)]]

\* What the writers say of it in a label, of integers and of reals.
OrderWord(writer, item) ==
  LET real == item \in {"FLOAT", "DOUBLE"}
  IN CASE writer = "Vicar" /\ real -> IF HostIsBig THEN "IEEE" ELSE "RIEEE"
       [] writer = "Vicar" /\ ~real -> IF HostIsBig THEN "HIGH" ELSE "LOW"
       [] writer = "ENVI" -> IF HostIsBig THEN "1" ELSE "0"
       [] writer = "ISIS" -> IF HostIsBig THEN "SUN" ELSE "PC"
       [] OTHER -> IF HostIsBig THEN "MSBFirst" ELSE "LSBFirst"

\* What the readers take the words to mean.
OrderMeant(word) ==
  IF word \in {"IEEE", "HIGH", "1", "SUN", "MSBFirst"} THEN "MSB" ELSE "LSB"

-----------------------------------------------------------------------------
(* Memory, as a function from 0.                                           *)

\* The caller's data.
Given(cube) ==
  [k \in 0..(CountOf(cube.dims) * Width[cube.item] - 1) |->
     <<iom_Xpos(k \div Width[cube.item], cube.org,
                SizesOf(cube.dims, cube.org)),
       k % Width[cube.item]>>]

Byte(data, k) == IF k \in DOMAIN data THEN data[k] ELSE <<"beyond">>
First(n, data) == [k \in 0..(n - 1) |-> Byte(data, k)]

\* Where the data has the k-th item of BIP order.
InGiven(cube, k) ==
  iom_Cpos(iom_Xpos(k, "BIP", SizesOf(cube.dims, "BIP")),
           cube.org, SizesOf(cube.dims, cube.org))

\* The copy in BIP order, made of as many bytes an item as iom_NBYTESI says.
iom__ConvertToBIP(cube) ==
  LET nbytes == iom_NBYTESI[cube.item]
  IN [k \in 0..(CountOf(cube.dims) * nbytes - 1) |->
        Byte(Given(cube), InGiven(cube, k \div nbytes) * nbytes + (k % nbytes))]

-----------------------------------------------------------------------------
(* A file is what its reader makes of it: a cube and the bytes of it.      *)

FileOf(dims, org, item, order, bytes) ==
  [dims |-> dims, org |-> org, item |-> item, order |-> order, bytes |-> bytes]

\* One that its reader does not recognise.
Unreadable == FileOf(<<0, 0, 0>>, "BSQ", "none", Native, <<>>)

\* The kind of item in the label: not all writers have a name for each, and
\* no reader knows reals of five bytes.
LabelledItem(writer, item) ==
  IF \/ item = "LONG" /\ writer \in {"ENVI", "ISIS", "ERS"}
     \/ item = "FLOAT" /\ writer = "ISIS"
  THEN "none" ELSE item

\* Vicar, ENVI, ISIS, ERS and Raw: one fwrite of the data.  The caller knows
\* what a Raw file holds.
OneWrite(writer, cube) ==
  FileOf(cube.dims, cube.org, LabelledItem(writer, cube.item),
         OrderMeant(OrderWord(writer, cube.item)),
         First(CountOf(cube.dims) * iom_NBYTESI[cube.item], Given(cube)))

\* What the readers of pixels give.
PixelOrder(writer, bands) ==
  IF bands = 1 /\ writer \in {"PNM", "JPEG", "TIFF"} THEN "BSQ" ELSE "BIP"

\* PNM, JPEG, PNG and GIF: the rows of the data or of its copy, with a byte a
\* sample, in PNG two when they are SHORT, the high one first.  This is what is
\* in the file, and what the readers of bytes give.
PixelRows(writer, cube, data) ==
  LET item == IF writer = "PNG" THEN cube.item ELSE "BYTE"
      w == Width[item]
  IN FileOf(cube.dims, PixelOrder(writer, cube.dims[3]), item, "MSB",
            [k \in 0..(CountOf(cube.dims) * w - 1) |->
               Byte(data, (k \div w) * w + Turned(Native, "MSB", w, k % w))])

\* Two bytes made into four, the upper two of them none of the caller's: a
\* negative number is read as a positive one.
toInts(file) ==
  FileOf(file.dims, file.org, "INT", file.order,
         [k \in 0..(CountOf(file.dims) * 4 - 1) |->
            IF k % 4 < 2 THEN <<"zero">>
            ELSE Byte(file.bytes, (k \div 4) * 2 + (k % 4) - 2)])

\* What the reader of PNG files makes of these rows.
iom_GetPNGHeader(file) == IF file.item = "SHORT" THEN toInts(file) ELSE file

\* TIFF: strips that are gathered sample by sample; the file says which order
\* they are in.
Strips(cube) ==
  LET w == Width[cube.item]
  IN FileOf(cube.dims, PixelOrder("TIFF", cube.dims[3]), cube.item, Native,
            [k \in 0..(CountOf(cube.dims) * w - 1) |->
               Byte(Given(cube), InGiven(cube, k \div w) * w + (k % w))])

\* BMP: the rows from the last, filled up to four bytes, blue before red; one
\* byte a pixel unless there are three bands.
writeBMP(w, h, n, data) ==
  LET row == 4 * ((w * n + 3) \div 4)
  IN [at \in 0..(row * h - 1) |->
        IF at % row < w * n
        THEN Byte(data, ((h - 1 - at \div row) * w + (at % row) \div n) * n
                          + (n - 1 - ((at % row) % n)))
        ELSE <<"pad">>]

\* What iom_ReadBMP makes of an image behind such headers.  Through a map of
\* greys a value is itself.
iom_GetBMPHeader(file, image) ==
  LET b == ReadHeader(file)
      z == zout(file, b)
      Found(k) ==
        Byte(image, BitAt(file, b, (k \div z) % b.xout, k \div (z * b.xout),
                          k % z) \div 8 - file.bfOffBits)
  IN IF Bogus(b) THEN Unreadable
     ELSE FileOf(<<b.xout, b.yout, z>>, "BIP", "BYTE", "MSB",
                 [k \in 0..(b.xout * b.yout * z - 1) |->
                    IF b.biBitCount = 24 \/ file.colours = graymap
                    THEN Found(k) ELSE <<"recoloured">>])

BottomUp(cube, data) ==
  LET w == cube.dims[1]
      h == cube.dims[2]
      n == IF cube.dims[3] = 3 THEN 3 ELSE 1
      nc == IF n = 3 THEN 0 ELSE 256
  IN iom_GetBMPHeader(
       BMPFile(54 + 4 * nc, InfoHeader(WIN_NEW, w, h, 8 * n, BI_RGB, nc),
               [i \in 0..(nc - 1) |-> graymap[i]]),
       writeBMP(w, h, n, data))

\* GRD: the values of the only band, each made a real of four bytes.  Its sizes
\* are written as the host has them, for iom_LSB4 does nothing on a host that is
\* not big-endian, and read as those of a big-endian one.
Grid(cube) ==
  IF HostIsBig
  THEN FileOf(cube.dims, "BSQ", "FLOAT", "MSB",
              [k \in 0..(CountOf(cube.dims) * Width["FLOAT"] - 1) |->
                 IF cube.item = "FLOAT" THEN Byte(Given(cube), k)
                 ELSE <<"converted">>])
  ELSE Unreadable

\* IMath: likewise, and column by column, read as lines of a turned image.
Matrix(cube) ==
  LET w == cube.dims[1]
      h == cube.dims[2]
      Source(k) == (k % h) * w + k \div h
  IN IF HostIsBig
     THEN FileOf(<<h, w, 1>>, "BSQ", "DOUBLE", "MSB",
                 [k \in 0..(w * h * 8 - 1) |->
                    Byte(Given(cube), Source(k \div 8) * 8 + (k % 8))])
     ELSE Unreadable

FileBy(writer, cube, copied) ==
  LET data == IF copied THEN iom__ConvertToBIP(cube) ELSE Given(cube)
  IN CASE writer \in {"Vicar", "ENVI", "ISIS", "ERS", "Raw"} ->
            OneWrite(writer, cube)
       [] writer \in {"PNM", "JPEG", "GIF"} -> PixelRows(writer, cube, data)
       [] writer = "PNG" -> iom_GetPNGHeader(PixelRows("PNG", cube, data))
       [] writer = "TIFF" -> Strips(cube)
       [] writer = "BMP" -> BottomUp(cube, data)
       [] writer = "GRD" -> Grid(cube)
       [] writer = "IMath" -> Matrix(cube)

\* The bytes of the item at a place, in a file as a reader has it on a host of
\* an order.
ItemAt(file, at, order) ==
  LET w == Width[file.item]
      i == iom_Cpos(at, file.org, SizesOf(file.dims, file.org))
  IN iom_byte_swap_data(
       [part \in 0..(w - 1) |-> Byte(file.bytes, i * w + part)],
       w, file.order, order)

\* The item that was at a place in the caller's data, on a host of an order.
ItemGiven(cube, at, order) ==
  LET w == Width[cube.item]
  IN [part \in 0..(w - 1) |-> <<at, Turned(Native, order, w, part)>>]

\* Whether readers find the cube that was written, whatever their host.
ReadsBack(file, cube) ==
  /\ file.dims = cube.dims /\ file.item = cube.item
  /\ \A x \in 0..(cube.dims[1] - 1), y \in 0..(cube.dims[2] - 1),
        z \in 0..(cube.dims[3] - 1), big \in BOOLEAN :
       ItemAt(file, <<x, y, z>>, OrderOn(big))
         = ItemGiven(cube, <<x, y, z>>, OrderOn(big))

\* Whether the file has bytes that are not the caller's.
ReachesBeyond(file) ==
  \E k \in DOMAIN file.bytes : file.bytes[k] = <<"beyond">>

=============================================================================
