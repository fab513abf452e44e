------------------------------- MODULE BmpFile ------------------------------
(***************************************************************************)
(* BMP files (io_bmp.c): the headers iom_WriteBMP writes and iom_ReadBMP   *)
(* reads, and where in the file the reader looks for the values of the     *)
(* image.  iom_ReadBMP reads a byte after the other: where it has got to   *)
(* follows from all that it has read before.                               *)
(*                                                                         *)
(* The headers are words of two bytes, from the 14th byte on.  A colour is *)
(* <<red, green, blue>>.  Lengths are of a few bytes: no sum overflows an  *)
(* int, and a height is not negative.                                      *)
(***************************************************************************)
EXTENDS Integers, Sequences

Word == 65536

BI_RGB == 0
BI_RLE4 == 2
WIN_OS2_OLD == 12
WIN_NEW == 40
OS2_NEW == 64

BMPFile(bfOffBits, words, colours) ==
  [bfOffBits |-> bfOffBits, words |-> words, colours |-> colours]

\* The two words of an integer, as putint writes them.
Low(i) == i % Word
High(i) == i \div Word

getshort(file, at) == file.words[(at - 12) \div 2]
getint(file, at) == getshort(file, at) + Word * getshort(file, at + 2)

-----------------------------------------------------------------------------
(* The headers.                                                            *)

\* BITMAPINFOHEADER.
InfoHeader(biSize, w, h, bits, compression, used) ==
  LET biSizeImage == ((w * bits + 31) \div 32) * 3 * h
  IN  <<Low(biSize), High(biSize), Low(w), High(w), Low(h), High(h), 1, bits,
        Low(compression), High(compression), Low(biSizeImage),
        High(biSizeImage), 75 * 39, 0, 75 * 39, 0, Low(used), High(used),
        Low(used), High(used)>>

\* What the reader knows after the headers, and how far it has read.
ReadHeader(file) ==
  LET biSize == getint(file, 14)
  IN  IF biSize \in {WIN_NEW, OS2_NEW}
      THEN [biSize |-> biSize, xout |-> getint(file, 18),
            yout |-> getint(file, 22), biPlanes |-> getshort(file, 26),
            biBitCount |-> getshort(file, 28),
            biCompression |-> getint(file, 30), biClrUsed |-> getint(file, 46),
            at |-> 54]
      ELSE [biSize |-> biSize, xout |-> getshort(file, 18),
            yout |-> getshort(file, 20), biPlanes |-> getshort(file, 22),
            biBitCount |-> getshort(file, 24), biCompression |-> BI_RGB,
            biClrUsed |-> 0, at |-> 26]

\* What it refuses.  All that is compressed goes by the last condition, but what
\* says that it has 32 bits; the code's conditions on each kind of run-length
\* coding are part of it.
Bogus(b) ==
  \/ b.biBitCount \notin {1, 4, 8, 24, 32}
  \/ b.biPlanes # 1 \/ b.biCompression > BI_RLE4
  \/ b.biBitCount # 32 /\ b.biCompression # BI_RGB

\* 1 << biBitCount.
Shifted == <<2, 4, 8, 16, 32, 64, 128, 256>>

\* The number of colours after the headers.
cmaplen(b) ==
  IF b.biBitCount \in {24, 32} THEN 0
  ELSE IF b.biClrUsed # 0 THEN b.biClrUsed ELSE Shifted[b.biBitCount]

\* The colours iom_WriteBMP writes.
graymap == [i \in 0..255 |-> <<i, i, i>>]

\* The bands of the image.
zout(file, b) ==
  IF \/ b.biBitCount \in {24, 32}
     \/ \E i \in 0..(cmaplen(b) - 1) : \E k \in 2..3 :
          file.colours[i][k] # file.colours[i][1]
  THEN 3 ELSE 1

Positive(n) == IF n > 0 THEN n ELSE 0

\* A bug: what is between the colours and the image is not skipped.
ImageAfterColours(file, b) ==
  b.at + (IF b.biSize = WIN_OS2_OLD THEN 3 * cmaplen(b)
          ELSE Positive(b.biSize - 40) + 4 * cmaplen(b))

\* Where the reader is when it comes to the image: it has read the headers, the
\* rest of a longer one, the colours, and bPad bytes more.
ImageAt(file, b) ==
  LET bPad == file.bfOffBits - (b.biSize + 14) - 4 * cmaplen(b)
  IN  b.at + (IF b.biSize = WIN_OS2_OLD THEN 3 * cmaplen(b)
              ELSE Positive(b.biSize - 40) + 4 * cmaplen(b) + Positive(bPad))

-----------------------------------------------------------------------------
(* The image, from its last row.                                           *)

\* The bytes of a row, as loadBMP1, loadBMP4, loadBMP8 and loadBMP24 fill it up.
RowBytes(w, bits) ==
  CASE bits = 1 -> 4 * ((w + 31) \div 32)
    [] bits = 4 -> 4 * ((w + 7) \div 8)
    [] bits = 8 -> 4 * ((w + 3) \div 4)
    [] OTHER -> 3 * w + ((4 - ((w * 3) % 4)) % 4)

\* The bit of the file at which the reader finds the k-th band of a pixel, or
\* the colour from which it takes it.
BitAt(file, b, x, y, k) ==
  LET row == ImageAt(file, b)
               + (b.yout - 1 - y) * RowBytes(b.xout, b.biBitCount)
      each == 8 \div b.biBitCount
  IN  IF b.biBitCount \in {24, 32} THEN 8 * (row + 3 * x + 2 - k)
      ELSE 8 * (row + x \div each) + b.biBitCount * (x % each)

-----------------------------------------------------------------------------
(* What a BMP file is.                                                     *)

\* A file of a kind, of an image of w by h: its headers, its colours (grey ones
\* and perhaps another), a gap and the image.
Made(f) ==
  LET n == IF f.bits = 24 THEN 0 ELSE IF f.used # 0 THEN f.used ELSE Shifted[f.bits]
      old == f.biSize = WIN_OS2_OLD
  IN  BMPFile(14 + f.biSize + (IF old THEN 3 ELSE 4) * n + f.gap,
              IF old THEN <<Low(f.biSize), High(f.biSize), f.w, f.h, 1, f.bits>>
              ELSE InfoHeader(f.biSize, f.w, f.h, f.bits, BI_RGB, f.used),
              [i \in 0..(n - 1) |->
                 IF f.coloured /\ i = n - 1 THEN <<i, 0, i>> ELSE <<i, i, i>>])

Extent == Nat \ {0}

\* The kinds of uncompressed files that iom_ReadBMP reads right, of any size:
\* the three headers, the numbers of bits, all the colours or some, and a gap
\* where the header allows it.  The first colour is grey.
BMPKinds ==
  {f \in [biSize : {WIN_OS2_OLD, WIN_NEW, OS2_NEW}, w : Extent, h : Extent,
          bits : {1, 4, 8, 24}, used : Nat, gap : Nat, coloured : BOOLEAN] :
     /\ f.biSize = WIN_OS2_OLD => f.used = 0 /\ f.gap = 0
     /\ f.coloured => f.bits # 24 /\ f.used # 1}

\* The reader takes each pixel from where the file has it: the offset in the
\* file says where the rows begin, and each is filled up to four bytes.
ReadInPlace(f) ==
  LET file == Made(f)
      b == ReadHeader(file)
      row == 32 * ((f.w * f.bits + 31) \div 32)
  IN  /\ ~Bogus(b) /\ b.xout = f.w /\ b.yout = f.h
      /\ zout(file, b) = IF f.coloured \/ f.bits = 24 THEN 3 ELSE 1
      /\ \A x \in 0..(f.w - 1), y \in 0..(f.h - 1), k \in 0..2 :
           BitAt(file, b, x, y, k) =
             8 * file.bfOffBits + (f.h - 1 - y) * row
               + (IF f.bits = 24 THEN 24 * x + 8 * (2 - k) ELSE f.bits * x)

=============================================================================
