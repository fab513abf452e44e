-------------------------- MODULE CubeLayoutProofs --------------------------
(***************************************************************************)
(* iom_Cpos and iom_Xpos are inverse to each other, and what the writers   *)
(* write reads back, for cubes of any size: the run tries them on images   *)
(* of two by three.  BMP files of every kind are read from where their     *)
(* pixels are.  And what does not read back: for each writer, which cubes. *)
(***************************************************************************)
EXTENDS CubeLayout, TLAPS

LEMMA TimesMonotone ==
  ASSUME NEW s \in Nat, NEW a \in Int, NEW b \in Int, a <= b
  PROVE s * a <= s * b
<1>1. s * (b - a) >= 0
  OBVIOUS
<1>2. s * (b - a) = s * b - s * a
  OBVIOUS
<1> QED BY <1>1, <1>2

LEMMA DivMod ==
  ASSUME NEW s \in Nat \ {0}, NEW r \in 0..(s - 1), NEW q \in Nat
  PROVE /\ (r + s * q) % s = r
        /\ (r + s * q) \div s = q
OBVIOUS

\* Three digits, the first two of which are below s and t.
LEMMA Digits ==
  ASSUME NEW s \in Nat \ {0}, NEW t \in Nat \ {0},
         NEW a \in 0..(s - 1), NEW b \in 0..(t - 1), NEW c \in Nat
  PROVE /\ (a + s * (b + c * t)) % s = a
        /\ ((a + s * (b + c * t)) \div s) % t = b
        /\ (a + s * (b + c * t)) \div (s * t) = c
<1>1. c * t \in Nat /\ c * t = t * c
  OBVIOUS
<1>2. (a + s * (b + c * t)) % s = a /\ (a + s * (b + c * t)) \div s = b + c * t
  BY <1>1, DivMod
<1>3. (b + c * t) % t = b
  BY <1>1, DivMod
<1>4. s * t \in Nat \ {0} /\ s * b \in Nat
  OBVIOUS
<1>5. s * b <= s * (t - 1)
  BY TimesMonotone
<1>6. s * (t - 1) = s * t - s
  OBVIOUS
<1>7. a + s * b \in 0..(s * t - 1)
  BY <1>4, <1>5, <1>6
<1>8. a + s * (b + c * t) = (a + s * b) + (s * t) * c
  <2>1. s * (b + c * t) = s * b + s * (c * t)
    BY <1>1
  <2>2. s * (c * t) = (s * t) * c
    OBVIOUS
  <2> QED BY <2>1, <2>2, <1>1, <1>4
<1>9. ((a + s * b) + (s * t) * c) \div (s * t) = c
  BY <1>4, <1>7, DivMod
<1> QED BY <1>2, <1>3, <1>8, <1>9

\* And they stay below the product.
LEMMA DigitsBelow ==
  ASSUME NEW s \in Nat \ {0}, NEW t \in Nat \ {0}, NEW u \in Nat \ {0},
         NEW a \in 0..(s - 1), NEW b \in 0..(t - 1), NEW c \in 0..(u - 1)
  PROVE a + s * (b + c * t) \in 0..(s * t * u - 1)
<1>1. c * t \in Nat /\ t * c = c * t /\ t * u \in Nat \ {0}
  OBVIOUS
<1>2. t * c <= t * (u - 1) /\ t * (u - 1) = t * u - t
  BY TimesMonotone
<1>3. b + c * t <= t * u - 1
  BY <1>1, <1>2
<1>4. s * (b + c * t) <= s * (t * u - 1)
  BY <1>1, <1>3, TimesMonotone
<1>5. s * (t * u - 1) = s * t * u - s
  BY <1>1
<1>6. s * (b + c * t) \in Nat /\ s * t * u \in Nat
  BY <1>1
<1> QED BY <1>4, <1>5, <1>6

-----------------------------------------------------------------------------

Dims == [1..3 -> Nat \ {0}]
\* The number whose digits are a, b and c.
Item(a, b, c, s, t) == a + s * (b + c * t)

\* It is below their product, and the digits can be had from it.
IsNumeral(a, b, c, s, t, u) ==
  /\ Item(a, b, c, s, t) \in 0..(s * t * u - 1)
  /\ Item(a, b, c, s, t) % s = a
  /\ (Item(a, b, c, s, t) \div s) % t = b
  /\ Item(a, b, c, s, t) \div (s * t) = c

LEMMA ItemDigits ==
  ASSUME NEW s \in Nat \ {0}, NEW t \in Nat \ {0}, NEW u \in Nat \ {0},
         NEW a \in 0..(s - 1), NEW b \in 0..(t - 1), NEW c \in 0..(u - 1)
  PROVE IsNumeral(a, b, c, s, t, u)
<1>1. c \in Nat
  OBVIOUS
<1>2. Item(a, b, c, s, t) \in 0..(s * t * u - 1)
  BY DigitsBelow DEF Item
<1>3. /\ Item(a, b, c, s, t) % s = a
      /\ (Item(a, b, c, s, t) \div s) % t = b
      /\ Item(a, b, c, s, t) \div (s * t) = c
  BY <1>1, Digits DEF Item
<1> QED BY <1>2, <1>3 DEF IsNumeral

PlacesIn(dims) == {at \in [1..3 -> Nat] : \A d \in 1..3 : at[d] < dims[d]}

\* The sizes in each order.
LEMMA SizesInOrder ==
  ASSUME NEW dims \in Dims
  PROVE /\ SizesOf(dims, "BSQ")[1] = dims[1]
        /\ SizesOf(dims, "BSQ")[2] = dims[2]
        /\ SizesOf(dims, "BIL")[1] = dims[1]
        /\ SizesOf(dims, "BIL")[2] = dims[3]
        /\ SizesOf(dims, "BIP")[1] = dims[3]
        /\ SizesOf(dims, "BIP")[2] = dims[1]
<1>1. SizesOf(dims, "BSQ")[1] = dims[1] /\ SizesOf(dims, "BSQ")[2] = dims[2]
  BY DEF SizesOf, iom_orders
<1>2. SizesOf(dims, "BIL")[1] = dims[1] /\ SizesOf(dims, "BIL")[2] = dims[3]
  BY DEF SizesOf, iom_orders
<1>3. SizesOf(dims, "BIP")[1] = dims[3] /\ SizesOf(dims, "BIP")[2] = dims[1]
  BY DEF SizesOf, iom_orders
<1> QED BY <1>1, <1>2, <1>3

\* iom_Cpos gives every place of a cube an item of its own within the cube,
\* in each of the three orders, and iom_Xpos finds the place again.
THEOREM PlacesFoundAgain ==
  ASSUME NEW dims \in Dims, NEW org \in DOMAIN iom_orders,
         NEW at \in PlacesIn(dims)
  PROVE LET size == SizesOf(dims, org)
            i == iom_Cpos(at, org, size)
        IN i \in 0..(CountOf(dims) - 1) /\ iom_Xpos(i, org, size) = at
<1> DEFINE size == SizesOf(dims, org)
           i == iom_Cpos(at, org, size)
<1>1. PICK s \in Nat \ {0}, t \in Nat \ {0}, u \in Nat \ {0} :
        dims[1] = s /\ dims[2] = t /\ dims[3] = u
  BY DEF Dims
<1>2. PICK x \in 0..(s - 1), y \in 0..(t - 1), z \in 0..(u - 1) :
        at[1] = x /\ at[2] = y /\ at[3] = z
  BY <1>1 DEF PlacesIn
<1>3. at = [k \in 1..3 |-> at[k]] /\ CountOf(dims) = s * t * u
  BY <1>1 DEF PlacesIn, CountOf
<1>4. CASE org = "BSQ"
  <2>1. size[1] = s /\ size[2] = t
    BY <1>1, <1>4, SizesInOrder
  <2>2. i = Item(x, y, z, s, t)
    BY <1>2, <1>4, <2>1 DEF iom_Cpos, Item
  <2>3. IsNumeral(x, y, z, s, t, u)
    BY ItemDigits
  <2>4. s * t * u = s * t * u
    OBVIOUS
  <2>5. i \in 0..(CountOf(dims) - 1)
    BY <1>3, <2>2, <2>3, <2>4 DEF IsNumeral
  <2>6. <<i % size[1], (i \div size[1]) % size[2],
          i \div (size[1] * size[2])>> = <<x, y, z>>
    BY <2>1, <2>2, <2>3 DEF IsNumeral
  <2>7. /\ iom_orders["BSQ"][1] = 1 /\ iom_orders["BSQ"][2] = 2
        /\ iom_orders["BSQ"][3] = 3
    BY DEF iom_orders
  <2>8. \A k \in 1..3 :
          <<x, y, z>>[iom_orders["BSQ"][k]] = at[k]
    BY <1>2, <2>7
  <2> HIDE DEF size, i
  <2>9. iom_Xpos(i, org, size) = at
    BY <1>3, <1>4, <2>6, <2>8 DEF iom_Xpos
  <2> QED BY <2>5, <2>9 DEF size, i
<1>5. CASE org = "BIL"
  <2>1. size[1] = s /\ size[2] = u
    BY <1>1, <1>5, SizesInOrder
  <2>2. i = Item(x, z, y, s, u)
    BY <1>2, <1>5, <2>1 DEF iom_Cpos, Item
  <2>3. IsNumeral(x, z, y, s, u, t)
    BY ItemDigits
  <2>4. s * u * t = s * t * u
    OBVIOUS
  <2>5. i \in 0..(CountOf(dims) - 1)
    BY <1>3, <2>2, <2>3, <2>4 DEF IsNumeral
  <2>6. <<i % size[1], (i \div size[1]) % size[2],
          i \div (size[1] * size[2])>> = <<x, z, y>>
    BY <2>1, <2>2, <2>3 DEF IsNumeral
  <2>7. /\ iom_orders["BIL"][1] = 1 /\ iom_orders["BIL"][2] = 3
        /\ iom_orders["BIL"][3] = 2
    BY DEF iom_orders
  <2>8. \A k \in 1..3 :
          <<x, z, y>>[iom_orders["BIL"][k]] = at[k]
    BY <1>2, <2>7
  <2> HIDE DEF size, i
  <2>9. iom_Xpos(i, org, size) = at
    BY <1>3, <1>5, <2>6, <2>8 DEF iom_Xpos
  <2> QED BY <2>5, <2>9 DEF size, i
<1>6. CASE org = "BIP"
  <2>1. size[1] = u /\ size[2] = s
    BY <1>1, <1>6, SizesInOrder
  <2>2. i = Item(z, x, y, u, s)
    BY <1>2, <1>6, <2>1 DEF iom_Cpos, Item
  <2>3. IsNumeral(z, x, y, u, s, t)
    BY ItemDigits
  <2>4. u * s * t = s * t * u
    OBVIOUS
  <2>5. i \in 0..(CountOf(dims) - 1)
    BY <1>3, <2>2, <2>3, <2>4 DEF IsNumeral
  <2>6. <<i % size[1], (i \div size[1]) % size[2],
          i \div (size[1] * size[2])>> = <<z, x, y>>
    BY <2>1, <2>2, <2>3 DEF IsNumeral
  <2>7. /\ iom_orders["BIP"][1] = 2 /\ iom_orders["BIP"][2] = 3
        /\ iom_orders["BIP"][3] = 1
    BY DEF iom_orders
  <2>8. \A k \in 1..3 :
          <<z, x, y>>[iom_orders["BIP"][k]] = at[k]
    BY <1>2, <2>7
  <2> HIDE DEF size, i
  <2>9. iom_Xpos(i, org, size) = at
    BY <1>3, <1>6, <2>6, <2>8 DEF iom_Xpos
  <2> QED BY <2>5, <2>9 DEF size, i
<1> QED BY <1>4, <1>5, <1>6 DEF iom_orders

-----------------------------------------------------------------------------

Cubes == [dims : Dims, item : DOMAIN Width, org : DOMAIN iom_orders]

\* The bytes of an item of the k-th follow those of the one before.
LEMMA BytesOfItem ==
  ASSUME NEW w \in Nat \ {0}, NEW n \in Nat \ {0}, NEW i \in 0..(n - 1),
         NEW part \in 0..(w - 1)
  PROVE /\ i * w + part \in 0..(n * w - 1)
        /\ (i * w + part) \div w = i /\ (i * w + part) % w = part
<1>1. i * w + part = part + w * i /\ w * i \in Nat
  OBVIOUS
<1>2. w * i <= w * (n - 1) /\ w * (n - 1) = n * w - w
  BY TimesMonotone
<1>3. n * w \in Nat
  OBVIOUS
<1>4. (part + w * i) \div w = i /\ (part + w * i) % w = part
  BY DivMod
<1> QED BY <1>1, <1>2, <1>3, <1>4

\* And each byte belongs to one of them.
LEMMA ItemOfByte ==
  ASSUME NEW w \in Nat \ {0}, NEW n \in Nat \ {0}, NEW k \in 0..(n * w - 1)
  PROVE k \div w \in 0..(n - 1) /\ k % w \in 0..(w - 1)
<1>1. k \in Nat /\ k < n * w
  OBVIOUS
<1>2. k = w * (k \div w) + (k % w) /\ k % w \in 0..(w - 1)
  BY <1>1
<1>3. k \div w \in Nat
  BY <1>1
<1>4. PICK q \in Nat : q = k \div w
  BY <1>3
<1>5. ASSUME q >= n PROVE FALSE
  <2>1. w * n <= w * q
    BY <1>5, TimesMonotone
  <2>2. w * n = n * w /\ w * n \in Nat /\ w * q \in Nat
    OBVIOUS
  <2> QED BY <1>1, <1>2, <1>4, <2>1, <2>2
<1> QED BY <1>2, <1>4, <1>5

LEMMA WidthTyped ==
  ASSUME NEW item \in DOMAIN Width
  PROVE Width[item] \in 1..8 /\ iom_NBYTESI[item] \in Width[item]..8
BY DEF Width, iom_NBYTESI

LEMMA CountTyped ==
  ASSUME NEW dims \in Dims
  PROVE CountOf(dims) \in Nat \ {0}
<1>1. PICK s \in Nat \ {0}, t \in Nat \ {0}, u \in Nat \ {0} :
        dims[1] = s /\ dims[2] = t /\ dims[3] = u
  BY DEF Dims
<1>2. s * t \in Nat \ {0}
  OBVIOUS
<1>3. (s * t) * u \in Nat \ {0}
  BY <1>2
<1> QED BY <1>1, <1>3 DEF CountOf

\* The caller's data has the item of a place at its iom_Cpos.
LEMMA GivenHasPlace ==
  ASSUME NEW cube \in Cubes, NEW at \in PlacesIn(cube.dims),
         NEW part \in 0..(Width[cube.item] - 1)
  PROVE LET w == Width[cube.item]
            k == iom_Cpos(at, cube.org, SizesOf(cube.dims, cube.org)) * w
                   + part
        IN /\ k \in 0..(CountOf(cube.dims) * w - 1)
           /\ k \in DOMAIN Given(cube)
           /\ Given(cube)[k] = <<at, part>>
<1> DEFINE w == Width[cube.item]
           size == SizesOf(cube.dims, cube.org)
           i == iom_Cpos(at, cube.org, size)
           n == CountOf(cube.dims)
           k == i * w + part
<1>1. cube.dims \in Dims /\ cube.org \in DOMAIN iom_orders
      /\ cube.item \in DOMAIN Width
  BY DEF Cubes
<1>2. i \in 0..(n - 1) /\ iom_Xpos(i, cube.org, size) = at
  BY <1>1, PlacesFoundAgain
<1>3. w \in Nat \ {0} /\ n \in Nat \ {0} /\ part \in 0..(w - 1)
  BY <1>1, WidthTyped, CountTyped
<1>4. Given(cube) = [j \in 0..(n * w - 1) |->
                       <<iom_Xpos(j \div w, cube.org, size), j % w>>]
  BY DEF Given
<1> HIDE DEF i, w, n, size
<1>5. k \in 0..(n * w - 1) /\ k \div w = i /\ k % w = part
  BY <1>2, <1>3, BytesOfItem
<1> HIDE DEF k
<1>6. k \in DOMAIN Given(cube) /\ Given(cube)[k] = <<at, part>>
  BY <1>2, <1>4, <1>5
<1> QED BY <1>5, <1>6 DEF i, w, n, size, k

LEMMA TurnedTyped ==
  ASSUME NEW b, NEW c, NEW w \in Nat \ {0}, NEW part \in 0..(w - 1)
  PROVE Turned(b, c, w, part) \in 0..(w - 1)
<1>1. w - 1 - part \in 0..(w - 1)
  OBVIOUS
<1> QED BY <1>1 DEF Turned

\* Turning twice is turning from the first order to the last.
LEMMA TurnedTwice ==
  ASSUME NEW a \in {"MSB", "LSB"}, NEW b \in {"MSB", "LSB"},
         NEW c \in {"MSB", "LSB"}, NEW w \in Nat \ {0}, NEW part \in 0..(w - 1)
  PROVE Turned(a, b, w, Turned(b, c, w, part)) = Turned(a, c, w, part)
<1>1. CASE b = c
  BY <1>1 DEF Turned
<1>2. CASE b # c /\ a = b
  BY <1>2 DEF Turned
<1>3. CASE b # c /\ a # b
  <2>1. a = c
    BY <1>3
  <2>2. w - 1 - (w - 1 - part) = part
    OBVIOUS
  <2> QED BY <1>3, <2>1, <2>2 DEF Turned
<1> QED BY <1>1, <1>2, <1>3

LEMMA OrdersTyped ==
  /\ Native \in {"MSB", "LSB"}
  /\ \A big \in BOOLEAN : OrderOn(big) \in {"MSB", "LSB"}
BY DEF Native, OrderOn

\* A file reads back if it has each byte of each item, in the order that it
\* says.
LEMMA ReadsBackIf ==
  ASSUME NEW cube \in Cubes, NEW file,
         file.dims = cube.dims, file.item = cube.item,
         file.order \in {"MSB", "LSB"},
         \A at \in PlacesIn(cube.dims) :
           \A part \in 0..(Width[cube.item] - 1) :
             Byte(file.bytes,
                  iom_Cpos(at, file.org, SizesOf(file.dims, file.org))
                    * Width[cube.item] + part)
               = <<at, Turned(Native, file.order, Width[cube.item], part)>>
  PROVE ReadsBack(file, cube)
<1> DEFINE w == Width[cube.item]
           i(at) == iom_Cpos(at, file.org, SizesOf(file.dims, file.org))
<1> SUFFICES ASSUME NEW x \in 0..(cube.dims[1] - 1),
                    NEW y \in 0..(cube.dims[2] - 1),
                    NEW z \in 0..(cube.dims[3] - 1), NEW big \in BOOLEAN
             PROVE ItemAt(file, <<x, y, z>>, OrderOn(big))
                     = ItemGiven(cube, <<x, y, z>>, OrderOn(big))
  BY DEF ReadsBack
<1>1. <<x, y, z>> \in PlacesIn(cube.dims)
  <2>1. cube.dims \in Dims
    BY DEF Cubes
  <2>2. x \in Nat /\ y \in Nat /\ z \in Nat
    BY <2>1 DEF Dims
  <2>3. x < cube.dims[1] /\ y < cube.dims[2] /\ z < cube.dims[3]
    BY <2>1 DEF Dims
  <2>4. <<x, y, z>> \in [1..3 -> Nat]
    BY <2>2
  <2> QED BY <2>3, <2>4 DEF PlacesIn
<1> DEFINE at == <<x, y, z>>
           order == OrderOn(big)
           f == [part \in 0..(w - 1) |-> <<at, Turned(Native, file.order, w, part)>>]
           found == [part \in 0..(w - 1) |-> Byte(file.bytes, i(at) * w + part)]
<1>2. found = f
  BY <1>1
<1>3. ItemAt(file, at, order)
        = iom_byte_swap_data(found, w, file.order, order)
  BY DEF ItemAt
<1>4. w \in Nat \ {0}
  BY WidthTyped DEF Cubes
<1>5. order \in {"MSB", "LSB"} /\ Native \in {"MSB", "LSB"}
  BY OrdersTyped
<1>6. ItemGiven(cube, at, order)
        = [part \in 0..(w - 1) |-> <<at, Turned(Native, order, w, part)>>]
  BY DEF ItemGiven
<1> HIDE DEF w, order, found, i, at
<1>7. \A part \in 0..(w - 1) :
        f[Turned(file.order, order, w, part)]
          = <<at, Turned(Native, order, w, part)>>
  <2> TAKE part \in 0..(w - 1)
  <2>1. Turned(file.order, order, w, part) \in 0..(w - 1)
    BY <1>4, TurnedTyped
  <2>2. f[Turned(file.order, order, w, part)]
          = <<at, Turned(Native, file.order, w,
                         Turned(file.order, order, w, part))>>
    BY <2>1
  <2> QED BY <1>4, <1>5, <2>2, TurnedTwice
<1> HIDE DEF f
<1>8. iom_byte_swap_data(f, w, file.order, order)
        = [part \in 0..(w - 1) |-> f[Turned(file.order, order, w, part)]]
  BY DEF iom_byte_swap_data
<1>9. [part \in 0..(w - 1) |-> f[Turned(file.order, order, w, part)]]
         = [part \in 0..(w - 1) |-> <<at, Turned(Native, order, w, part)>>]
  BY <1>7
<1>10. ItemAt(file, at, order) = ItemGiven(cube, at, order)
  BY <1>2, <1>3, <1>6, <1>8, <1>9
<1> QED BY <1>10 DEF at, order

\* Vicar, ENVI, ISIS, ERS and Raw files give back cubes of any size, in any
\* order and of any item that the label names, reals of four bytes included.
THEOREM OneWriteReadsBack ==
  ASSUME NEW cube \in Cubes, NEW writer,
         LabelledItem(writer, cube.item) = cube.item
  PROVE ReadsBack(OneWrite(writer, cube), cube)
<1> DEFINE file == OneWrite(writer, cube)
           w == Width[cube.item]
           nbytes == iom_NBYTESI[cube.item]
           n == CountOf(cube.dims)
<1>1. /\ file.dims = cube.dims /\ file.item = cube.item
      /\ file.org = cube.org /\ file.bytes = First(n * nbytes, Given(cube))
      /\ file.order = Native
  BY DEF OneWrite, FileOf, OrderMeant, OrderWord, Native, OrderOn
<1>2. SUFFICES ASSUME NEW at \in PlacesIn(cube.dims), NEW part \in 0..(w - 1)
               PROVE Byte(file.bytes,
                          iom_Cpos(at, cube.org, SizesOf(cube.dims, cube.org))
                            * w + part) = <<at, part>>
  BY <1>1, OrdersTyped, ReadsBackIf DEF Turned
<1> DEFINE k == iom_Cpos(at, cube.org, SizesOf(cube.dims, cube.org)) * w + part
<1>3. /\ k \in 0..(n * w - 1)
      /\ k \in DOMAIN Given(cube) /\ Given(cube)[k] = <<at, part>>
  BY GivenHasPlace
<1>4. w \in Nat /\ nbytes \in Nat /\ w <= nbytes /\ n \in Nat
  BY WidthTyped, CountTyped DEF Cubes
<1> HIDE DEF k, w, nbytes, n, file
<1>5. n * w <= n * nbytes /\ n * w \in Nat /\ n * nbytes \in Nat
  BY <1>4, TimesMonotone
<1>6. k \in 0..(n * nbytes - 1)
  BY <1>3, <1>5
<1>7. Byte(file.bytes, k) = <<at, part>>
  BY <1>1, <1>3, <1>6 DEF Byte, First
<1> QED BY <1>7 DEF k

-----------------------------------------------------------------------------

\* An image of one band is the same in BSQ and in BIP order.
LEMMA OneBand ==
  ASSUME NEW dims \in Dims, dims[3] = 1, NEW at \in PlacesIn(dims)
  PROVE iom_Cpos(at, "BSQ", SizesOf(dims, "BSQ"))
          = iom_Cpos(at, "BIP", SizesOf(dims, "BIP"))
<1>1. PICK s \in Nat, t \in Nat : dims[1] = s /\ dims[2] = t
  BY DEF Dims
<1>2. PICK x \in Nat, y \in Nat : at[1] = x /\ at[2] = y
  BY DEF PlacesIn
<1>3. at[3] = 0
  BY DEF PlacesIn
<1>4. iom_Cpos(at, "BSQ", SizesOf(dims, "BSQ")) = x + s * (y + 0 * t)
  BY <1>1, <1>2, <1>3, SizesInOrder DEF iom_Cpos
<1>5. iom_Cpos(at, "BIP", SizesOf(dims, "BIP")) = 0 + 1 * (x + y * s)
  BY <1>1, <1>2, <1>3, SizesInOrder DEF iom_Cpos
<1>6. x + s * (y + 0 * t) = 0 + 1 * (x + y * s)
  OBVIOUS
<1> QED BY <1>4, <1>5, <1>6

\* What is gathered for BIP order has the item of a place there.
LEMMA GatheredFromGiven ==
  ASSUME NEW cube \in Cubes, NEW at \in PlacesIn(cube.dims), NEW org,
         org = "BIP" \/ (org = "BSQ" /\ cube.dims[3] = 1)
  PROVE LET i == iom_Cpos(at, org, SizesOf(cube.dims, org))
        IN /\ i \in 0..(CountOf(cube.dims) - 1)
           /\ InGiven(cube, i) =
                iom_Cpos(at, cube.org, SizesOf(cube.dims, cube.org))
<1>1. cube.dims \in Dims /\ "BIP" \in DOMAIN iom_orders
  BY DEF Cubes, iom_orders
<1> DEFINE j == iom_Cpos(at, "BIP", SizesOf(cube.dims, "BIP"))
<1>2. iom_Cpos(at, org, SizesOf(cube.dims, org)) = j
  BY <1>1, OneBand
<1>3. /\ j \in 0..(CountOf(cube.dims) - 1)
      /\ iom_Xpos(j, "BIP", SizesOf(cube.dims, "BIP")) = at
  BY <1>1, PlacesFoundAgain
<1> QED BY <1>2, <1>3 DEF InGiven

\* A file of the items in that order reads back.
LEMMA GatheredReadsBack ==
  ASSUME NEW cube \in Cubes, NEW file,
         file.dims = cube.dims, file.item = cube.item,
         file.org = "BIP" \/ (file.org = "BSQ" /\ cube.dims[3] = 1),
         file.order \in {"MSB", "LSB"},
         \A k \in 0..(CountOf(cube.dims) * Width[cube.item] - 1) :
           Byte(file.bytes, k) =
             Byte(Given(cube),
                  InGiven(cube, k \div Width[cube.item]) * Width[cube.item]
                    + Turned(Native, file.order, Width[cube.item],
                             k % Width[cube.item]))
  PROVE ReadsBack(file, cube)
<1> DEFINE w == Width[cube.item]
           n == CountOf(cube.dims)
<1>1. SUFFICES ASSUME NEW at \in PlacesIn(cube.dims), NEW part \in 0..(w - 1)
               PROVE Byte(file.bytes,
                          iom_Cpos(at, file.org, SizesOf(cube.dims, file.org))
                            * w + part)
                       = <<at, Turned(Native, file.order, w, part)>>
  BY ReadsBackIf
<1> DEFINE i == iom_Cpos(at, file.org, SizesOf(cube.dims, file.org))
           g == iom_Cpos(at, cube.org, SizesOf(cube.dims, cube.org))
           turned == Turned(Native, file.order, w, part)
<1>2. i \in 0..(n - 1) /\ InGiven(cube, i) = g
  BY GatheredFromGiven
<1>3. w \in Nat \ {0} /\ n \in Nat \ {0}
  BY WidthTyped, CountTyped DEF Cubes
<1>4. turned \in 0..(w - 1)
  BY <1>3, TurnedTyped
<1>5. /\ g * w + turned \in DOMAIN Given(cube)
      /\ Given(cube)[g * w + turned] = <<at, turned>>
  BY <1>4, GivenHasPlace
<1>6. \A k \in 0..(n * w - 1) :
        Byte(file.bytes, k) =
          Byte(Given(cube), InGiven(cube, k \div w) * w
                              + Turned(Native, file.order, w, k % w))
  OBVIOUS
<1> HIDE DEF i, g, w, n
<1>7. /\ i * w + part \in 0..(n * w - 1)
      /\ (i * w + part) \div w = i /\ (i * w + part) % w = part
  BY <1>2, <1>3, BytesOfItem
<1>8. Byte(file.bytes, i * w + part) = Byte(Given(cube), g * w + turned)
  BY <1>2, <1>6, <1>7
<1> QED BY <1>5, <1>8 DEF Byte, i

\* TIFF files give back cubes of any size, in any order and of any item.
THEOREM StripsReadBack ==
  ASSUME NEW cube \in Cubes
  PROVE ReadsBack(Strips(cube), cube)
<1> DEFINE file == Strips(cube)
           w == Width[cube.item]
<1>1. /\ file.dims = cube.dims /\ file.item = cube.item
      /\ file.org = PixelOrder("TIFF", cube.dims[3])
      /\ file.bytes = [k \in 0..(CountOf(cube.dims) * w - 1) |->
                        Byte(Given(cube),
                             InGiven(cube, k \div w) * w + (k % w))]
      /\ file.order = Native
  BY DEF Strips, FileOf
<1>2. file.org = "BIP" \/ (file.org = "BSQ" /\ cube.dims[3] = 1)
  BY <1>1 DEF PixelOrder
<1> HIDE DEF file
<1>3. \A k \in 0..(CountOf(cube.dims) * w - 1) :
        Byte(file.bytes, k) =
          Byte(Given(cube), InGiven(cube, k \div w) * w
                              + Turned(Native, file.order, w, k % w))
  BY <1>1 DEF Byte, Turned
<1>4. ReadsBack(file, cube)
  BY <1>1, <1>2, <1>3, OrdersTyped, GatheredReadsBack
<1> QED BY <1>4 DEF file

\* The rows of images that iom__ConvertToBIP has copied hold their values: in
\* PNG files bytes and shorts, in PNM, JPEG and GIF files bytes.
LEMMA CopiedRowsHold ==
  ASSUME NEW cube \in Cubes, NEW writer,
         cube.item = "BYTE" \/ (writer = "PNG" /\ cube.item = "SHORT")
  PROVE ReadsBack(PixelRows(writer, cube, iom__ConvertToBIP(cube)), cube)
<1> DEFINE file == PixelRows(writer, cube, iom__ConvertToBIP(cube))
           copy == iom__ConvertToBIP(cube)
           w == Width[cube.item]
           n == CountOf(cube.dims)
<1>1. /\ file.dims = cube.dims /\ file.item = cube.item
      /\ file.org = PixelOrder(writer, cube.dims[3])
      /\ file.order = "MSB"
      /\ file.bytes = [k \in 0..(n * w - 1) |->
                         Byte(copy, (k \div w) * w
                                      + Turned(Native, "MSB", w, k % w))]
  BY DEF PixelRows, FileOf
<1>2. file.org = "BIP" \/ (file.org = "BSQ" /\ cube.dims[3] = 1)
  BY <1>1 DEF PixelOrder
<1>3. iom_NBYTESI[cube.item] = w
  BY DEF iom_NBYTESI, Width
<1>4. copy = [k \in 0..(n * w - 1) |->
                Byte(Given(cube), InGiven(cube, k \div w) * w + (k % w))]
  BY <1>3 DEF iom__ConvertToBIP
<1> HIDE DEF file, copy, n, w
<1>5. w \in Nat \ {0} /\ n \in Nat \ {0}
  BY WidthTyped, CountTyped DEF Cubes, n, w
<1>6. ASSUME NEW k \in 0..(n * w - 1)
      PROVE Byte(file.bytes, k) =
              Byte(Given(cube), InGiven(cube, k \div w) * w
                                  + Turned(Native, "MSB", w, k % w))
  <2> DEFINE i == k \div w
             turned == Turned(Native, "MSB", w, k % w)
             from == i * w + turned
  <2>1. i \in 0..(n - 1) /\ k % w \in 0..(w - 1)
    BY <1>5, ItemOfByte
  <2>2. turned \in 0..(w - 1)
    BY <1>5, <2>1, TurnedTyped
  <2> HIDE DEF i, turned
  <2>3. /\ from \in 0..(n * w - 1)
        /\ from \div w = i /\ from % w = turned
    BY <1>5, <2>1, <2>2, BytesOfItem
  <2>4. Byte(file.bytes, k) = Byte(copy, from)
    BY <1>1 DEF Byte, i, turned
  <2> HIDE DEF from
  <2>5. Byte(copy, from) = Byte(Given(cube), InGiven(cube, i) * w + turned)
    BY <1>4, <2>3 DEF Byte
  <2> QED BY <2>4, <2>5 DEF i, turned
<1>7. ReadsBack(file, cube)
  BY <1>1, <1>2, <1>6, GatheredReadsBack DEF w, n
<1> QED BY <1>7 DEF file, copy

\* The pixels of byte images that iom__ConvertToBIP has copied read back from
\* PNM, JPEG, PNG and GIF files of any size, as bytes.
THEOREM CopiedRowsReadBack ==
  ASSUME NEW cube \in Cubes, cube.item = "BYTE",
         NEW writer \in {"PNM", "JPEG", "PNG", "GIF"}
  PROVE  ReadsBack(FileBy(writer, cube, TRUE), cube)
<1> DEFINE rows == PixelRows(writer, cube, iom__ConvertToBIP(cube))
<1>1. ReadsBack(rows, cube)
  BY CopiedRowsHold
<1>2. rows.item # "SHORT"
  BY DEF PixelRows, FileOf
<1> HIDE DEF rows
<1>3. iom_GetPNGHeader(rows) = rows
  BY <1>2 DEF iom_GetPNGHeader
<1>4. FileBy(writer, cube, TRUE) = rows
  BY <1>3 DEF FileBy, rows
<1> QED BY <1>1, <1>4

\* A short as an int without a sign, on a host of an order.
UnsignedGiven(cube, at, order) ==
  [part \in 0..3 |->
     IF Turned(order, "MSB", 4, part) < 2 THEN <<"zero">>
     ELSE <<at, Turned(Native, "MSB", 2, Turned(order, "MSB", 4, part) - 2)>>]

\* Shorts that iom__ConvertToBIP has copied do not read back from a PNG file:
\* its reader (toInts, io_png.c:85) gives for each an int, made of the short's
\* two bytes with zeros above them, so that -1 is read as 65535.
THEOREM ShortsReadUnsigned ==
  ASSUME NEW cube \in Cubes, cube.item = "SHORT"
  PROVE  LET file == FileBy("PNG", cube, TRUE)
         IN  /\ ~ReadsBack(file, cube)
             /\ file.dims = cube.dims /\ file.item = "INT"
             /\ \A at \in PlacesIn(cube.dims), big \in BOOLEAN :
                  ItemAt(file, at, OrderOn(big))
                    = UnsignedGiven(cube, at, OrderOn(big))
<1> DEFINE rows == PixelRows("PNG", cube, iom__ConvertToBIP(cube))
           file == toInts(rows)
           n == CountOf(cube.dims)
<1>1. FileBy("PNG", cube, TRUE) = file
  <2>1. rows.item = "SHORT"
    BY DEF PixelRows, FileOf
  <2> HIDE DEF rows
  <2> QED BY <2>1 DEF FileBy, iom_GetPNGHeader, rows
<1>2. /\ rows.dims = cube.dims /\ rows.item = cube.item /\ rows.order = "MSB"
      /\ rows.org \in DOMAIN iom_orders
      /\ DOMAIN rows.bytes = 0..(n * 2 - 1)
  BY DEF PixelRows, FileOf, PixelOrder, iom_orders, Width
<1>3. ReadsBack(rows, cube)
  BY CopiedRowsHold
<1> HIDE DEF rows
<1>4. /\ file.dims = cube.dims /\ file.item = "INT" /\ file.order = "MSB"
      /\ file.org = rows.org
      /\ file.bytes = [k \in 0..(n * 4 - 1) |->
                         IF k % 4 < 2 THEN <<"zero">>
                         ELSE Byte(rows.bytes, (k \div 4) * 2 + (k % 4) - 2)]
  BY <1>2 DEF toInts, FileOf
<1> HIDE DEF file
<1>5. cube.dims \in Dims /\ n \in Nat \ {0}
  BY CountTyped DEF Cubes
<1>6. ASSUME NEW at \in PlacesIn(cube.dims)
      PROVE  /\ iom_Cpos(at, rows.org, SizesOf(cube.dims, rows.org)) \in 0..(n - 1)
             /\ \A p \in 0..1 :
                  Byte(rows.bytes,
                       iom_Cpos(at, rows.org, SizesOf(cube.dims, rows.org)) * 2 + p)
                    = <<at, Turned(Native, "MSB", 2, p)>>
  <2> DEFINE i == iom_Cpos(at, rows.org, SizesOf(cube.dims, rows.org))
  <2>1. i \in 0..(n - 1)
    BY <1>2, <1>5, PlacesFoundAgain
  <2>2. ItemAt(rows, at, "MSB") = ItemGiven(cube, at, "MSB")
    <3>1. /\ at[1] \in 0..(cube.dims[1] - 1) /\ at[2] \in 0..(cube.dims[2] - 1)
          /\ at[3] \in 0..(cube.dims[3] - 1) /\ at = <<at[1], at[2], at[3]>>
      BY <1>5 DEF PlacesIn, Dims
    <3>2. OrderOn(TRUE) = "MSB" /\ TRUE \in BOOLEAN
      BY DEF OrderOn
    <3> QED BY <1>3, <3>1, <3>2 DEF ReadsBack
  <2>3. Width[cube.item] = 2 /\ Width[rows.item] = 2
    BY <1>2 DEF Width
  <2>4. ASSUME NEW p \in 0..1
        PROVE  Byte(rows.bytes, i * 2 + p) = <<at, Turned(Native, "MSB", 2, p)>>
    <3>1. p \in 0..(2 - 1)
      OBVIOUS
    <3>2. ItemAt(rows, at, "MSB")[p] = Byte(rows.bytes, i * 2 + p)
      <4> HIDE DEF i
      <4> QED BY <1>2, <2>3, <3>1 DEF ItemAt, iom_byte_swap_data, Turned, i
    <3>3. ItemGiven(cube, at, "MSB")[p] = <<at, Turned(Native, "MSB", 2, p)>>
      BY <2>3, <3>1 DEF ItemGiven
    <3> QED BY <2>2, <3>2, <3>3
  <2> QED BY <2>1, <2>4
<1>7. ASSUME NEW at \in PlacesIn(cube.dims), NEW big \in BOOLEAN
      PROVE  ItemAt(file, at, OrderOn(big)) = UnsignedGiven(cube, at, OrderOn(big))
  <2> DEFINE i == iom_Cpos(at, rows.org, SizesOf(cube.dims, rows.org))
             order == OrderOn(big)
  <2>1. i \in 0..(n - 1)
    BY <1>6
  <2>2. \A p \in 0..1 :
          Byte(rows.bytes, i * 2 + p) = <<at, Turned(Native, "MSB", 2, p)>>
    BY <1>6
  <2>3. ItemAt(file, at, order)
          = [part \in 0..3 |-> Byte(file.bytes, i * 4 + Turned("MSB", order, 4, part))]
    <3>1. /\ file.dims = cube.dims /\ file.org = rows.org /\ file.order = "MSB"
          /\ Width[file.item] = 4 /\ 4 - 1 = 3
      BY <1>4 DEF Width
    <3> DEFINE item == [part \in 0..3 |-> Byte(file.bytes, i * 4 + part)]
    <3>2. ItemAt(file, at, order) = iom_byte_swap_data(item, 4, "MSB", order)
      BY <3>1 DEF ItemAt
    <3>3. iom_byte_swap_data(item, 4, "MSB", order)
            = [part \in 0..3 |-> item[Turned("MSB", order, 4, part)]]
      <4> HIDE DEF item, order
      <4> QED BY <3>1 DEF iom_byte_swap_data
    <3>4. \A part \in 0..3 : Turned("MSB", order, 4, part) \in 0..3
      <4> HIDE DEF order
      <4> QED BY DEF Turned
    <3>5. \A part \in 0..3 : item[Turned("MSB", order, 4, part)]
                               = Byte(file.bytes, i * 4 + Turned("MSB", order, 4, part))
      <4> HIDE DEF i, order
      <4> QED BY <3>4
    <3> HIDE DEF item, i, order
    <3> QED BY <3>2, <3>3, <3>5
  <2>4. order \in {"MSB", "LSB"}
    BY DEF OrderOn
  <2> HIDE DEF i, order
  <2>5. ASSUME NEW q \in 0..3
        PROVE  Byte(file.bytes, i * 4 + q) =
                 IF q < 2 THEN <<"zero">> ELSE <<at, Turned(Native, "MSB", 2, q - 2)>>
    <3>1. /\ i * 4 + q \in 0..(n * 4 - 1)
          /\ (i * 4 + q) \div 4 = i /\ (i * 4 + q) % 4 = q
      BY <1>5, <2>1
    <3>2. Byte(file.bytes, i * 4 + q) =
            IF q < 2 THEN <<"zero">> ELSE Byte(rows.bytes, i * 2 + q - 2)
      BY <1>4, <3>1 DEF Byte
    <3>3. CASE q < 2
      BY <3>2, <3>3
    <3>4. CASE q >= 2
      <4>1. q - 2 \in 0..1 /\ i * 2 + q - 2 = i * 2 + (q - 2)
        BY <2>1, <3>4
      <4> QED BY <2>2, <3>2, <3>4, <4>1
    <3> QED BY <3>3, <3>4
  <2>6. ASSUME NEW part \in 0..3
        PROVE  /\ Turned("MSB", order, 4, part) = Turned(order, "MSB", 4, part)
               /\ Turned(order, "MSB", 4, part) \in 0..3
    BY DEF Turned
  <2>7. \A part \in 0..3 :
          Byte(file.bytes, i * 4 + Turned("MSB", order, 4, part))
            = IF Turned(order, "MSB", 4, part) < 2 THEN <<"zero">>
              ELSE <<at, Turned(Native, "MSB", 2,
                                Turned(order, "MSB", 4, part) - 2)>>
    BY <2>5, <2>6
  <2> QED BY <2>3, <2>7 DEF UnsignedGiven, order
<1>8. ~ReadsBack(file, cube)
  BY <1>4 DEF ReadsBack
<1> QED BY <1>1, <1>4, <1>7, <1>8

-----------------------------------------------------------------------------
(* BMP files.                                                              *)

MadeColours(f) ==
  IF f.bits = 24 THEN 0 ELSE IF f.used # 0 THEN f.used ELSE Shifted[f.bits]

LEMMA TwoWords ==
  ASSUME NEW i \in Nat
  PROVE  Low(i) + Word * High(i) = i
BY DEF Low, High, Word

\* What is in a header is read from it.
LEMMA HeaderReadBack ==
  ASSUME NEW f \in BMPKinds, NEW file, file = Made(f)
  PROVE  LET b == ReadHeader(file)
         IN  /\ b.biSize = f.biSize /\ b.xout = f.w /\ b.yout = f.h
             /\ b.biPlanes = 1 /\ b.biBitCount = f.bits
             /\ b.biCompression = BI_RGB /\ b.biClrUsed = f.used
             /\ b.at = IF f.biSize = WIN_OS2_OLD THEN 26 ELSE 54
<1> DEFINE b == ReadHeader(file)
<1>1. CASE f.biSize = WIN_OS2_OLD
  <2>1. file.words = <<Low(12), High(12), f.w, f.h, 1, f.bits>>
    BY <1>1 DEF Made, BMPFile, WIN_OS2_OLD
  <2>2. /\ getshort(file, 14) = Low(12) /\ getshort(file, 16) = High(12)
        /\ getshort(file, 18) = f.w /\ getshort(file, 20) = f.h
        /\ getshort(file, 22) = 1 /\ getshort(file, 24) = f.bits
    BY <2>1 DEF getshort
  <2>3. getint(file, 14) = 12
    BY <2>2, TwoWords DEF getint
  <2>4. b = [biSize |-> 12, xout |-> f.w, yout |-> f.h, biPlanes |-> 1,
             biBitCount |-> f.bits, biCompression |-> BI_RGB,
             biClrUsed |-> 0, at |-> 26]
    BY <2>2, <2>3 DEF ReadHeader, WIN_NEW, OS2_NEW
  <2>5. f.used = 0
    BY <1>1 DEF BMPKinds
  <2> QED BY <1>1, <2>4, <2>5 DEF WIN_OS2_OLD
<1>2. CASE f.biSize # WIN_OS2_OLD
  <2> DEFINE size == ((f.w * f.bits + 31) \div 32) * 3 * f.h
  <2>1. file.words =
          <<Low(f.biSize), High(f.biSize), Low(f.w), High(f.w), Low(f.h),
            High(f.h), 1, f.bits, Low(BI_RGB), High(BI_RGB), Low(size),
            High(size), 75 * 39, 0, 75 * 39, 0, Low(f.used), High(f.used),
            Low(f.used), High(f.used)>>
    BY <1>2 DEF Made, BMPFile, InfoHeader
  <2> HIDE DEF size
  <2>2. /\ getshort(file, 14) = Low(f.biSize)
        /\ getshort(file, 16) = High(f.biSize)
        /\ getshort(file, 18) = Low(f.w) /\ getshort(file, 20) = High(f.w)
        /\ getshort(file, 22) = Low(f.h) /\ getshort(file, 24) = High(f.h)
    BY <2>1 DEF getshort
  <2>3. /\ getshort(file, 26) = 1 /\ getshort(file, 28) = f.bits
        /\ getshort(file, 30) = Low(BI_RGB)
        /\ getshort(file, 32) = High(BI_RGB)
        /\ getshort(file, 46) = Low(f.used)
        /\ getshort(file, 48) = High(f.used)
    BY <2>1 DEF getshort
  <2>4. /\ f.biSize \in Nat /\ f.w \in Nat /\ f.h \in Nat /\ f.used \in Nat
        /\ f.biSize \in {WIN_NEW, OS2_NEW}
    BY <1>2 DEF BMPKinds, Extent, WIN_OS2_OLD, WIN_NEW, OS2_NEW
  <2>5. /\ getint(file, 14) = f.biSize /\ getint(file, 18) = f.w
        /\ getint(file, 22) = f.h
    BY <2>2, <2>4, TwoWords DEF getint
  <2>6. getint(file, 30) = BI_RGB /\ getint(file, 46) = f.used
    BY <2>3, <2>4, TwoWords DEF getint, BI_RGB
  <2>7. b = [biSize |-> f.biSize, xout |-> f.w, yout |-> f.h, biPlanes |-> 1,
             biBitCount |-> f.bits, biCompression |-> BI_RGB,
             biClrUsed |-> f.used, at |-> 54]
    BY <2>3, <2>4, <2>5, <2>6 DEF ReadHeader
  <2> QED BY <1>2, <2>7
<1> QED BY <1>1, <1>2

\* The colours are counted as they are in the file, and the image begins
\* where the file says.
LEMMA ImageWhereTold ==
  ASSUME NEW f \in BMPKinds, NEW file, file = Made(f)
  PROVE  LET b == ReadHeader(file)
         IN  /\ cmaplen(b) = MadeColours(f) /\ MadeColours(f) \in Nat
             /\ ImageAt(file, b) = file.bfOffBits /\ file.bfOffBits \in Nat
<1> DEFINE b == ReadHeader(file)
           n == MadeColours(f)
<1>1. /\ b.biSize = f.biSize /\ b.biBitCount = f.bits /\ b.biClrUsed = f.used
      /\ b.at = IF f.biSize = WIN_OS2_OLD THEN 26 ELSE 54
  BY HeaderReadBack
<1>2. f.bits \in {1, 4, 8, 24} /\ f.used \in Nat /\ f.gap \in Nat
  BY DEF BMPKinds
<1>3. Shifted[1] = 2 /\ Shifted[4] = 16 /\ Shifted[8] = 256
  BY DEF Shifted
<1>4. n \in Nat
  BY <1>2, <1>3 DEF MadeColours
<1>5. cmaplen(b) = n
  BY <1>1, <1>2 DEF cmaplen, MadeColours
<1>6. file.bfOffBits =
        14 + f.biSize + (IF f.biSize = WIN_OS2_OLD THEN 3 ELSE 4) * n + f.gap
  BY DEF Made, BMPFile, MadeColours
<1> HIDE DEF n, b
<1>7. CASE f.biSize = WIN_OS2_OLD
  <2>1. f.gap = 0
    BY <1>7 DEF BMPKinds
  <2>2. file.bfOffBits = 26 + 3 * n
    BY <1>4, <1>6, <1>7, <2>1 DEF WIN_OS2_OLD
  <2>3. ImageAt(file, b) = 26 + 3 * n
    BY <1>1, <1>5, <1>7 DEF ImageAt
  <2> QED BY <1>4, <1>5, <2>2, <2>3 DEF b, n
<1>8. CASE f.biSize # WIN_OS2_OLD
  <2>1. f.biSize \in {40, 64}
    BY <1>8 DEF BMPKinds, WIN_OS2_OLD, WIN_NEW, OS2_NEW
  <2>2. file.bfOffBits = 14 + f.biSize + 4 * n + f.gap
    BY <1>4, <1>6, <1>8, <2>1
  <2>3. file.bfOffBits - (b.biSize + 14) - 4 * cmaplen(b) = f.gap
    BY <1>1, <1>2, <1>4, <1>5, <2>1, <2>2
  <2>4. ImageAt(file, b) =
          54 + (Positive(f.biSize - 40) + 4 * n + Positive(f.gap))
    BY <1>1, <1>5, <1>8, <2>3 DEF ImageAt
  <2>5. Positive(f.biSize - 40) = f.biSize - 40 /\ Positive(f.gap) = f.gap
    BY <1>2, <2>1 DEF Positive
  <2>6. ImageAt(file, b) = 14 + f.biSize + 4 * n + f.gap
    BY <1>2, <1>4, <2>1, <2>4, <2>5
  <2> QED BY <1>2, <1>4, <1>5, <2>1, <2>2, <2>6 DEF b, n
<1> QED BY <1>7, <1>8

\* The rows are filled up to four bytes, however the decoder counts.
LEMMA RowsFilled ==
  ASSUME NEW w \in Nat, NEW bits \in {1, 4, 8, 24}
  PROVE  /\ RowBytes(w, bits) = 4 * ((w * bits + 31) \div 32)
         /\ RowBytes(w, bits) \in Nat
<1>1. CASE bits = 1
  BY <1>1 DEF RowBytes
<1>2. CASE bits = 4
  BY <1>2 DEF RowBytes
<1>3. CASE bits = 8
  BY <1>3 DEF RowBytes
<1>4. CASE bits = 24
  BY <1>4 DEF RowBytes
<1> QED BY <1>1, <1>2, <1>3, <1>4

LEMMA BitInRow ==
  ASSUME NEW x \in Nat, NEW bits \in {1, 4, 8}
  PROVE  /\ 8 * (x \div (8 \div bits)) + bits * (x % (8 \div bits)) = bits * x
         /\ x \div (8 \div bits) \in Nat /\ x % (8 \div bits) \in Nat
<1>1. CASE bits = 1
  BY <1>1
<1>2. CASE bits = 4
  BY <1>2
<1>3. CASE bits = 8
  BY <1>3
<1> QED BY <1>1, <1>2, <1>3

\* The image has three bands when a colour is not grey.
LEMMA BandsByColours ==
  ASSUME NEW f \in BMPKinds, NEW file, file = Made(f)
  PROVE  zout(file, ReadHeader(file)) =
           IF f.coloured \/ f.bits = 24 THEN 3 ELSE 1
<1> DEFINE b == ReadHeader(file)
           n == MadeColours(f)
<1>1. cmaplen(b) = n /\ n \in Nat /\ b.biBitCount = f.bits
  BY ImageWhereTold, HeaderReadBack
<1>2. file.colours = [i \in 0..(n - 1) |->
                        IF f.coloured /\ i = n - 1 THEN <<i, 0, i>>
                        ELSE <<i, i, i>>]
  BY DEF Made, BMPFile, MadeColours
<1>3. f.bits \in {1, 4, 8, 24} /\ f.used \in Nat /\ f.coloured \in BOOLEAN
  BY DEF BMPKinds
<1>4. CASE f.bits = 24
  BY <1>1, <1>4 DEF zout
<1>5. CASE f.bits # 24 /\ f.coloured
  <2>1. Shifted[1] = 2 /\ Shifted[4] = 16 /\ Shifted[8] = 256
    BY DEF Shifted
  <2>2. f.used # 1
    BY <1>5 DEF BMPKinds
  <2>3. n >= 2
    BY <1>3, <1>5, <2>1, <2>2 DEF MadeColours
  <2> HIDE DEF n, b
  <2>4. n - 1 \in 0..(n - 1) /\ n - 1 # 0
    BY <1>1, <2>3
  <2>5. file.colours[n - 1] = <<n - 1, 0, n - 1>>
    BY <1>2, <1>5, <2>4
  <2>6. 2 \in 2..3 /\ file.colours[n - 1][2] # file.colours[n - 1][1]
    BY <2>4, <2>5
  <2>7. zout(file, b) = 3
    BY <1>1, <2>4, <2>6 DEF zout
  <2> QED BY <1>5, <2>7 DEF b
<1>6. CASE f.bits # 24 /\ ~f.coloured
  <2> HIDE DEF n, b
  <2>1. ASSUME NEW i \in 0..(n - 1), NEW k \in 2..3
        PROVE  file.colours[i][k] = file.colours[i][1]
    <3>1. file.colours[i] = <<i, i, i>>
      BY <1>2, <1>6
    <3>2. k = 2 \/ k = 3
      OBVIOUS
    <3> QED BY <3>1, <3>2
  <2>2. zout(file, b) = 1
    BY <1>1, <1>3, <1>6, <2>1 DEF zout
  <2> QED BY <1>6, <2>2 DEF b
<1> QED BY <1>3, <1>4, <1>5, <1>6

\* Every kind of uncompressed BMP file, with an image of any size, is read from
\* where its pixels are: past headers of each length, colours and a gap, with
\* the rows as they are filled up (iom_ReadBMP).
THEOREM EveryKindReadInPlace ==
  ASSUME NEW f \in BMPKinds
  PROVE  ReadInPlace(f)
<1> DEFINE file == Made(f)
           b == ReadHeader(file)
           row == 32 * ((f.w * f.bits + 31) \div 32)
           Told(x, y, k) ==
             8 * file.bfOffBits + (f.h - 1 - y) * row
               + (IF f.bits = 24 THEN 24 * x + 8 * (2 - k) ELSE f.bits * x)
<1>1. /\ b.xout = f.w /\ b.yout = f.h /\ b.biPlanes = 1
      /\ b.biBitCount = f.bits /\ b.biCompression = BI_RGB
  BY HeaderReadBack
<1>2. f.w \in Nat /\ f.h \in Nat /\ f.bits \in {1, 4, 8, 24}
  BY DEF BMPKinds, Extent
<1>3. ~Bogus(b)
  BY <1>1, <1>2 DEF Bogus, BI_RGB, BI_RLE4
<1>4. zout(file, b) = IF f.coloured \/ f.bits = 24 THEN 3 ELSE 1
  BY BandsByColours
<1>5. ImageAt(file, b) = file.bfOffBits /\ file.bfOffBits \in Nat
  BY ImageWhereTold
<1>6. RowBytes(f.w, f.bits) \in Nat /\ row = 8 * RowBytes(f.w, f.bits)
  <2> DEFINE q == (f.w * f.bits + 31) \div 32
  <2>1. RowBytes(f.w, f.bits) = 4 * q /\ RowBytes(f.w, f.bits) \in Nat
    BY <1>2, RowsFilled
  <2>2. q \in Int
    BY <1>2
  <2> HIDE DEF q
  <2> QED BY <2>1, <2>2 DEF q
<1> HIDE DEF file, b, row
<1>7. ASSUME NEW x \in 0..(f.w - 1), NEW y \in 0..(f.h - 1), NEW k \in 0..2
      PROVE  BitAt(file, b, x, y, k) = Told(x, y, k)
  <2> DEFINE r == RowBytes(f.w, f.bits)
             up == f.h - 1 - y
             at == file.bfOffBits + up * r
             each == 8 \div f.bits
  <2>1. up \in Nat /\ x \in Nat /\ k \in Nat
    BY <1>2
  <2>2. up * r \in Nat /\ up * row = 8 * (up * r)
    <3> HIDE DEF up, r
    <3> QED BY <1>6, <2>1 DEF r
  <2>3. BitAt(file, b, x, y, k) =
          IF f.bits = 24 THEN 8 * (at + 3 * x + 2 - k)
          ELSE 8 * (at + x \div each) + f.bits * (x % each)
    BY <1>1, <1>2, <1>5 DEF BitAt
  <2>4. at \in Nat /\ 8 * at = 8 * file.bfOffBits + up * row
    <3> HIDE DEF up, r
    <3> QED BY <1>5, <2>2
  <2> HIDE DEF at
  <2>5. CASE f.bits = 24
    <3>1. 8 * (at + 3 * x + 2 - k) = 8 * at + (24 * x + 8 * (2 - k))
      BY <2>1, <2>4
    <3> QED BY <2>3, <2>4, <2>5, <3>1 DEF up
  <2>6. CASE f.bits # 24
    <3>1. /\ 8 * (x \div each) + f.bits * (x % each) = f.bits * x
          /\ x \div each \in Nat /\ f.bits * (x % each) \in Nat
      <4>1. /\ 8 * (x \div each) + f.bits * (x % each) = f.bits * x
            /\ x \div each \in Nat /\ x % each \in Nat
        BY <1>2, <2>1, <2>6, BitInRow
      <4> HIDE DEF each
      <4> QED BY <1>2, <4>1
    <3> HIDE DEF each
    <3>2. 8 * (at + x \div each) + f.bits * (x % each)
            = 8 * at + (8 * (x \div each) + f.bits * (x % each))
      BY <2>4, <3>1
    <3> QED BY <2>3, <2>4, <2>6, <3>1, <3>2 DEF up
  <2> QED BY <2>5, <2>6
<1> QED BY <1>1, <1>3, <1>4, <1>7 DEF ReadInPlace, file, b, row

-----------------------------------------------------------------------------
(* What iom_WriteBMP writes.                                               *)

RowOf(w, n) == 4 * ((w * n + 3) \div 4)

\* Both count the bytes of a row alike.
LEMMA SameRows ==
  ASSUME NEW w \in Extent, NEW n \in {1, 3}
  PROVE  /\ RowOf(w, n) = RowBytes(w, 8 * n) /\ RowOf(w, n) \in Extent
         /\ RowOf(w, n) >= w * n
         /\ 32 * ((w * (8 * n) + 31) \div 32) = 8 * RowOf(w, n)
<1>1. CASE n = 1
  BY <1>1 DEF RowOf, RowBytes, Extent
<1>2. CASE n = 3
  BY <1>2 DEF RowOf, RowBytes, Extent
<1> QED BY <1>1, <1>2

\* Where the file has a pixel that was written, upside down and with its bands
\* backwards, it has that pixel of the data.
PixelKept(w, h, n, data, x, y, k) ==
  Byte(writeBMP(w, h, n, data),
       (h - 1 - y) * RowOf(w, n) + (n * x + (n - 1 - k)))
    = Byte(data, (y * w + x) * n + k)

LEMMA PixelWritten ==
  ASSUME NEW w \in Extent, NEW h \in Extent, NEW n \in {1, 3}, NEW data,
         NEW x \in 0..(w - 1), NEW y \in 0..(h - 1), NEW k \in 0..(n - 1)
  PROVE  PixelKept(w, h, n, data, x, y, k)
<1> DEFINE row == RowOf(w, n)
           c == n * x + (n - 1 - k)
           i == h - 1 - y
           at == i * row + c
<1>1. row \in Nat \ {0} /\ row >= w * n
  BY SameRows DEF Extent
<1>2. c \in 0..(w * n - 1) /\ c \div n = x /\ c % n = n - 1 - k
  <2>1. CASE n = 1
    BY <2>1 DEF Extent
  <2>2. CASE n = 3
    BY <2>2 DEF Extent
  <2> QED BY <2>1, <2>2
<1>3. w * n \in Nat
  BY DEF Extent
<1>4. c \in 0..(row - 1) /\ c < w * n
  BY <1>1, <1>2, <1>3
<1>5. i \in 0..(h - 1) /\ h \in Nat \ {0} /\ h - 1 - i = y
  BY DEF Extent
<1>6. n - 1 - (n - 1 - k) = k
  OBVIOUS
<1>7. writeBMP(w, h, n, data) =
        [p \in 0..(row * h - 1) |->
           IF p % row < w * n
           THEN Byte(data, ((h - 1 - p \div row) * w + (p % row) \div n) * n
                             + (n - 1 - ((p % row) % n)))
           ELSE <<"pad">>]
  BY DEF writeBMP, RowOf
<1> HIDE DEF row, c, i
<1>8. at \in 0..(h * row - 1) /\ at \div row = i /\ at % row = c
  BY <1>1, <1>4, <1>5, BytesOfItem
<1>9. row * h = h * row
  BY <1>1, <1>5
<1> HIDE DEF at
<1>10. writeBMP(w, h, n, data)[at] = Byte(data, (y * w + x) * n + k)
  BY <1>2, <1>4, <1>5, <1>6, <1>7, <1>8, <1>9
<1>11. at \in DOMAIN writeBMP(w, h, n, data)
  BY <1>7, <1>8, <1>9
<1>12. Byte(writeBMP(w, h, n, data), at) = Byte(data, (y * w + x) * n + k)
  BY <1>10, <1>11 DEF Byte
<1> QED BY <1>12 DEF PixelKept, at, i, row, c

\* The pixel and band of an item of the image.
IsPixel(w, h, n, k, x, y, z) ==
  /\ x \in 0..(w - 1) /\ y \in 0..(h - 1) /\ z \in 0..(n - 1)
  /\ (y * w + x) * n + z = k

LEMMA ItemOfPixel ==
  ASSUME NEW w \in Extent, NEW h \in Extent, NEW n \in {1, 3},
         NEW k \in 0..(w * h * n - 1)
  PROVE  IsPixel(w, h, n, k, (k \div n) % w, k \div (n * w), k % n)
<1> DEFINE q == k \div n
           a == k % n
           b == q % w
           c == q \div w
<1>1. w \in Nat \ {0} /\ h \in Nat \ {0} /\ n \in Nat \ {0}
  BY DEF Extent
<1>2. w * h \in Nat \ {0}
  BY <1>1
<1>3. q \in 0..(w * h - 1) /\ a \in 0..(n - 1)
  BY <1>1, <1>2, ItemOfByte
<1>4. w * h = h * w
  BY <1>1
<1>5. k = a + n * q
  <2>1. CASE n = 1
    BY <1>2, <2>1
  <2>2. CASE n = 3
    BY <1>2, <2>2
  <2> QED BY <2>1, <2>2
<1> HIDE DEF a, q
<1>6. q \in 0..(h * w - 1)
  BY <1>3, <1>4
<1>7. c \in 0..(h - 1) /\ b \in 0..(w - 1)
  BY <1>1, <1>6, ItemOfByte
<1>8. q \in Nat
  BY <1>2, <1>3
<1>9. q = b + w * c
  BY <1>1, <1>8
<1> HIDE DEF b, c
<1>10. c \in Nat /\ w * c = c * w
  BY <1>1, <1>7
<1>11. k = a + n * (b + c * w)
  BY <1>5, <1>9, <1>10
<1>12. k \div (n * w) = c
  BY <1>1, <1>3, <1>7, <1>10, <1>11, Digits
<1>13. (c * w + b) * n + a = k
  <2> DEFINE d == c * w
  <2>1. d \in Nat /\ b \in Nat /\ a \in Nat
    BY <1>1, <1>3, <1>7, <1>10
  <2>2. k = a + n * (b + d)
    BY <1>11
  <2> HIDE DEF d
  <2>3. (d + b) * n + a = k
    BY <2>1, <2>2
  <2> QED BY <2>3 DEF d
<1> QED BY <1>3, <1>7, <1>12, <1>13 DEF IsPixel, a, b, q

\* The files that iom_WriteBMP writes are among those that iom_ReadBMP reads
\* right.
WrittenKind(w, h, n) ==
  [biSize |-> WIN_NEW, w |-> w, h |-> h, bits |-> 8 * n,
   used |-> IF n = 3 THEN 0 ELSE 256, gap |-> 0, coloured |-> FALSE]

WrittenHeaders(w, h, n) ==
  LET nc == IF n = 3 THEN 0 ELSE 256
  IN BMPFile(54 + 4 * nc, InfoHeader(WIN_NEW, w, h, 8 * n, BI_RGB, nc),
             [i \in 0..(nc - 1) |-> graymap[i]])

LEMMA WrittenAsMade ==
  ASSUME NEW w \in Extent, NEW h \in Extent, NEW n \in {1, 3}
  PROVE  /\ WrittenKind(w, h, n) \in BMPKinds
         /\ WrittenHeaders(w, h, n) = Made(WrittenKind(w, h, n))
         /\ n = 1 => WrittenHeaders(w, h, n).colours = graymap
<1> DEFINE f == WrittenKind(w, h, n)
           file == Made(f)
           nc == IF n = 3 THEN 0 ELSE 256
           grey == [i \in 0..(nc - 1) |-> graymap[i]]
<1>1. /\ f.biSize = WIN_NEW /\ f.w = w /\ f.h = h /\ f.bits = 8 * n
      /\ f.used = nc /\ f.gap = 0 /\ f.coloured = FALSE
  BY DEF WrittenKind
<1>2. f \in BMPKinds
  <2>1. 8 * n \in {8, 24} /\ (IF n = 3 THEN 0 ELSE 256) \in Nat
    OBVIOUS
  <2> QED BY <2>1 DEF WrittenKind, BMPKinds, WIN_NEW, WIN_OS2_OLD, OS2_NEW
<1>3. (IF f.bits = 24 THEN 0 ELSE IF f.used # 0 THEN f.used
       ELSE Shifted[f.bits]) = nc
  BY <1>1
<1>4. [i \in 0..(nc - 1) |->
         IF f.coloured /\ i = nc - 1 THEN <<i, 0, i>> ELSE <<i, i, i>>] = grey
  BY <1>1 DEF graymap
<1> HIDE DEF f, nc
<1>5. file = BMPFile(54 + 4 * nc, InfoHeader(WIN_NEW, w, h, 8 * n, BI_RGB, nc),
                     grey)
  <2>1. nc \in Nat
    BY DEF nc
  <2>2. 14 + f.biSize + (IF f.biSize = WIN_OS2_OLD THEN 3 ELSE 4) * nc + f.gap
          = 54 + 4 * nc
    BY <1>1, <2>1 DEF WIN_NEW, WIN_OS2_OLD
  <2>3. f.biSize # WIN_OS2_OLD
    BY <1>1 DEF WIN_NEW, WIN_OS2_OLD
  <2> HIDE DEF grey
  <2> QED BY <1>1, <1>3, <1>4, <2>2, <2>3 DEF Made
<1>6. n = 1 => grey = graymap
  BY DEF nc, graymap
<1>7. WrittenHeaders(w, h, n) = file
  BY <1>5 DEF WrittenHeaders, nc
<1>8. WrittenHeaders(w, h, n).colours = grey
  BY DEF WrittenHeaders, BMPFile, nc
<1> QED BY <1>2, <1>6, <1>7, <1>8 DEF f

\* The byte at which the reader looks for a pixel.
LEMMA PixelSought ==
  ASSUME NEW w \in Extent, NEW h \in Extent, NEW n \in {1, 3},
         NEW x \in 0..(w - 1), NEW y \in 0..(h - 1), NEW k \in 0..(n - 1)
  PROVE  LET file == WrittenHeaders(w, h, n)
         IN  BitAt(file, ReadHeader(file), x, y, k) \div 8 - file.bfOffBits
               = (h - 1 - y) * RowOf(w, n) + (n * x + (n - 1 - k))
<1> DEFINE f == WrittenKind(w, h, n)
           file == WrittenHeaders(w, h, n)
           off == file.bfOffBits
           up == h - 1 - y
           row == RowOf(w, n)
           c == n * x + (n - 1 - k)
<1>1. f \in BMPKinds /\ file = Made(f)
  BY WrittenAsMade
<1>2. f.w = w /\ f.h = h /\ f.bits = 8 * n
  BY DEF WrittenKind
<1>3. off \in Nat
  BY <1>1, ImageWhereTold
<1>4. x \in 0..(f.w - 1) /\ y \in 0..(f.h - 1) /\ k \in 0..2
  BY <1>2
<1>5. BitAt(file, ReadHeader(file), x, y, k) =
        8 * off + (f.h - 1 - y) * (32 * ((f.w * f.bits + 31) \div 32))
          + (IF f.bits = 24 THEN 24 * x + 8 * (2 - k) ELSE f.bits * x)
  BY <1>1, <1>4, EveryKindReadInPlace DEF ReadInPlace
<1>6. 32 * ((f.w * f.bits + 31) \div 32) = 8 * row /\ row \in Nat
  BY <1>2, SameRows DEF Extent
<1>7. /\ (IF f.bits = 24 THEN 24 * x + 8 * (2 - k) ELSE f.bits * x) = 8 * c
      /\ c \in Nat
  BY <1>2 DEF Extent
<1>8. up \in Nat /\ f.h - 1 - y = up
  BY <1>2 DEF Extent
<1> HIDE DEF file, off, row, c, up
<1>9. up * row \in Nat /\ up * (8 * row) = 8 * (up * row)
  BY <1>6, <1>8
<1>10. BitAt(file, ReadHeader(file), x, y, k) = 8 * (off + up * row + c)
  BY <1>3, <1>5, <1>6, <1>7, <1>8, <1>9
<1>11. BitAt(file, ReadHeader(file), x, y, k) \div 8 - off = up * row + c
  BY <1>3, <1>7, <1>9, <1>10
<1> QED BY <1>11 DEF file, off, row, c, up

\* BMP files of one band or three, of any size, give back the image that
\* iom__ConvertToBIP has copied: through headers, colours and rows from the last
\* (iom_WriteBMP, iom_ReadBMP).
THEOREM BottomUpReadsBack ==
  ASSUME NEW cube \in Cubes, cube.item = "BYTE", cube.dims[3] \in {1, 3}
  PROVE  ReadsBack(BottomUp(cube, iom__ConvertToBIP(cube)), cube)
<1> DEFINE data == iom__ConvertToBIP(cube)
           result == BottomUp(cube, data)
<1>1. PICK w \in Extent, h \in Extent :
        cube.dims[1] = w /\ cube.dims[2] = h
  BY DEF Cubes, Dims, Extent
<1>2. PICK n \in {1, 3} : cube.dims[3] = n
  OBVIOUS
<1> DEFINE file == WrittenHeaders(w, h, n)
           b == ReadHeader(file)
           image == writeBMP(w, h, n, data)
<1>3. result = iom_GetBMPHeader(file, image)
  BY <1>1, <1>2 DEF BottomUp, WrittenHeaders
<1>4. WrittenKind(w, h, n) \in BMPKinds /\ file = Made(WrittenKind(w, h, n))
  BY WrittenAsMade
<1>5. ReadInPlace(WrittenKind(w, h, n))
  BY <1>4, EveryKindReadInPlace
<1>6. /\ ~Bogus(b) /\ b.xout = w /\ b.yout = h
      /\ zout(file, b) = n /\ b.biBitCount = 8 * n
  <2>1. /\ ~Bogus(b) /\ b.xout = w /\ b.yout = h
        /\ zout(file, b) = IF 8 * n = 24 THEN 3 ELSE 1
    BY <1>4, <1>5 DEF ReadInPlace, WrittenKind
  <2>2. b.biBitCount = 8 * n
    BY <1>4, HeaderReadBack DEF WrittenKind
  <2> QED BY <2>1, <2>2
<1>7. b.biBitCount = 24 \/ file.colours = graymap
  BY <1>6, WrittenAsMade
<1> HIDE DEF data, result, file, b, image
<1> DEFINE Sought(k) ==
             BitAt(file, b, (k \div n) % w, k \div (n * w), k % n) \div 8
               - file.bfOffBits
<1>8. /\ result.dims = <<w, h, n>> /\ result.org = "BIP"
      /\ result.item = "BYTE" /\ result.order = "MSB"
      /\ result.bytes = [k \in 0..(w * h * n - 1) |-> Byte(image, Sought(k))]
  <2> HIDE DEF Sought
  <2>1. iom_GetBMPHeader(file, image)
          = FileOf(<<w, h, n>>, "BIP", "BYTE", "MSB",
                   [k \in 0..(w * h * n - 1) |-> Byte(image, Sought(k))])
    BY <1>6, <1>7 DEF iom_GetBMPHeader, b, Sought
  <2> QED BY <1>3, <2>1 DEF FileOf
<1>9. cube.dims = <<w, h, n>>
  BY <1>1, <1>2 DEF Cubes, Dims
<1>10. CountOf(cube.dims) = w * h * n /\ Width["BYTE"] = 1
  BY <1>1, <1>2 DEF CountOf, Width
<1>11. ASSUME NEW k \in 0..(w * h * n - 1)
       PROVE  result.bytes[k] = Byte(data, k)
  <2> DEFINE x == (k \div n) % w
             y == k \div (n * w)
             z == k % n
  <2>1. /\ x \in 0..(w - 1) /\ y \in 0..(h - 1) /\ z \in 0..(n - 1)
        /\ (y * w + x) * n + z = k
    <3>1. IsPixel(w, h, n, k, x, y, z)
      BY ItemOfPixel
    <3> HIDE DEF x, y, z
    <3> QED BY <3>1 DEF IsPixel
  <2> HIDE DEF x, y, z
  <2>2. Sought(k) = (h - 1 - y) * RowOf(w, n) + (n * x + (n - 1 - z))
    BY <2>1, PixelSought DEF x, y, z, file, b
  <2> HIDE DEF Sought
  <2>3. Byte(image, Sought(k)) = Byte(data, (y * w + x) * n + z)
    <3>1. PixelKept(w, h, n, data, x, y, z)
      BY <2>1, PixelWritten
    <3> QED BY <2>2, <3>1 DEF PixelKept, image
  <2> QED BY <1>8, <2>1, <2>3
<1> DEFINE From(k) == InGiven(cube, k \div 1) * 1
<1>12. ASSUME NEW k \in 0..(w * h * n - 1)
       PROVE  Byte(data, k) = Byte(Given(cube),
                                   From(k) + Turned(Native, "MSB", 1, k % 1))
  <2>1. iom_NBYTESI[cube.item] = 1
    BY DEF iom_NBYTESI, Width
  <2>2. data = [j \in 0..(CountOf(cube.dims) * 1 - 1) |->
                  Byte(Given(cube), From(j) + (j % 1))]
    BY <2>1 DEF data, iom__ConvertToBIP
  <2>3. w * h * n \in Nat /\ w * h * n * 1 = w * h * n
    BY DEF Extent
  <2>4. k % 1 = 0 /\ Turned(Native, "MSB", 1, k % 1) = 0
    BY <2>3 DEF Turned
  <2> HIDE DEF From
  <2>5. data = [j \in 0..(w * h * n - 1) |->
                  Byte(Given(cube), From(j) + (j % 1))]
    BY <1>10, <2>2, <2>3
  <2> QED BY <2>4, <2>5 DEF Byte
<1>13. ASSUME NEW k \in 0..(CountOf(cube.dims) * Width[cube.item] - 1)
       PROVE  Byte(result.bytes, k) =
                Byte(Given(cube),
                     InGiven(cube, k \div Width[cube.item]) * Width[cube.item]
                       + Turned(Native, result.order, Width[cube.item],
                                k % Width[cube.item]))
  <2>1. w * h * n \in Nat /\ w * h * n * 1 = w * h * n
    BY DEF Extent
  <2>2. k \in 0..(w * h * n - 1)
    BY <1>10, <2>1
  <2>3. Byte(result.bytes, k) = Byte(data, k)
    BY <1>8, <1>11, <2>2 DEF Byte
  <2> QED BY <1>8, <1>10, <1>12, <2>2, <2>3
<1>14. ReadsBack(result, cube)
  BY <1>8, <1>9, <1>13, GatheredReadsBack
<1> QED BY <1>14 DEF result, data

-----------------------------------------------------------------------------
(* What need not be copied, and what a file that reads back has in it.     *)

\* The digits of a number below a product.
HasNumeral(i, s, t, u) ==
  \E a \in 0..(s - 1), b \in 0..(t - 1), c \in 0..(u - 1) :
    /\ i = Item(a, b, c, s, t)
    /\ a = i % s /\ b = (i \div s) % t /\ c = i \div (s * t)

LEMMA NumeralOf ==
  ASSUME NEW s \in Nat \ {0}, NEW t \in Nat \ {0}, NEW u \in Nat \ {0},
         NEW i \in 0..(s * t * u - 1)
  PROVE  HasNumeral(i, s, t, u)
<1>1. t * u \in Nat \ {0} /\ (t * u) * s = s * t * u /\ u * t = t * u
  OBVIOUS
<1>2. PICK n \in Nat \ {0} : n = t * u
  BY <1>1
<1>3. i \in 0..(n * s - 1)
  BY <1>1, <1>2
<1>4. PICK q \in 0..(n - 1), a \in 0..(s - 1) : q = i \div s /\ a = i % s
  BY <1>3, ItemOfByte
<1>5. i \in Nat /\ i = s * (i \div s) + (i % s)
  BY <1>1
<1>6. i = a + s * q
  BY <1>4, <1>5
<1>7. q \in 0..(u * t - 1)
  BY <1>1, <1>2, <1>4
<1>8. PICK c \in 0..(u - 1), b \in 0..(t - 1) : c = q \div t /\ b = q % t
  BY <1>7, ItemOfByte
<1>9. q = t * (q \div t) + (q % t)
  <2>1. q \in Nat
    BY <1>2, <1>4
  <2> QED BY <2>1
<1>10. q = b + c * t
  BY <1>8, <1>9
<1>11. i = Item(a, b, c, s, t)
  BY <1>6, <1>10 DEF Item
<1>12. IsNumeral(a, b, c, s, t, u)
  BY ItemDigits
<1> QED BY <1>11, <1>12 DEF IsNumeral, HasNumeral

\* The item that a place is found for is the item at that place.
LEMMA ItemsFoundAgain ==
  ASSUME NEW dims \in Dims, NEW org \in DOMAIN iom_orders,
         NEW i \in 0..(CountOf(dims) - 1)
  PROVE LET size == SizesOf(dims, org)
            at == iom_Xpos(i, org, size)
        IN at \in PlacesIn(dims) /\ iom_Cpos(at, org, size) = i
<1> DEFINE size == SizesOf(dims, org)
           at == iom_Xpos(i, org, size)
<1>1. PICK x \in Nat \ {0}, y \in Nat \ {0}, z \in Nat \ {0} :
        dims[1] = x /\ dims[2] = y /\ dims[3] = z
  BY DEF Dims
<1>2. CountOf(dims) = x * y * z /\ x * z * y = x * y * z /\ z * x * y = x * y * z
  BY <1>1 DEF CountOf
<1>3. CASE org = "BSQ"
  <2>1. size[1] = x /\ size[2] = y
    BY <1>1, <1>3, SizesInOrder
  <2>2. PICK a \in 0..(x - 1), b \in 0..(y - 1), c \in 0..(z - 1) :
          /\ i = Item(a, b, c, x, y)
          /\ a = i % x /\ b = (i \div x) % y /\ c = i \div (x * y)
    <3>1. i \in 0..(x * y * z - 1)
      BY <1>2
    <3>2. HasNumeral(i, x, y, z)
      BY <3>1, NumeralOf
    <3> QED BY <3>2 DEF HasNumeral
  <2>3. at = <<a, b, c>>
    <3>1. iom_orders["BSQ"] = <<1, 2, 3>>
      BY DEF iom_orders
    <3> HIDE DEF size
    <3>2. at = [k \in 1..3 |-> <<a, b, c>>[<<1, 2, 3>>[k]]]
      BY <1>3, <2>1, <2>2, <3>1 DEF iom_Xpos
    <3> QED BY <3>2
  <2>4. at \in PlacesIn(dims)
    <3>1. a \in Nat /\ b \in Nat /\ c \in Nat /\ a < x /\ b < y /\ c < z
      OBVIOUS
    <3> QED BY <1>1, <2>3, <3>1 DEF PlacesIn
  <2>5. iom_Cpos(at, org, size) = i
    <3> HIDE DEF size, at
    <3> QED BY <1>3, <2>1, <2>2, <2>3 DEF iom_Cpos, Item
  <2> QED BY <2>4, <2>5
<1>4. CASE org = "BIL"
  <2>1. size[1] = x /\ size[2] = z
    BY <1>1, <1>4, SizesInOrder
  <2>2. PICK a \in 0..(x - 1), b \in 0..(z - 1), c \in 0..(y - 1) :
          /\ i = Item(a, b, c, x, z)
          /\ a = i % x /\ b = (i \div x) % z /\ c = i \div (x * z)
    <3>1. i \in 0..(x * z * y - 1)
      BY <1>2
    <3>2. HasNumeral(i, x, z, y)
      BY <3>1, NumeralOf
    <3> QED BY <3>2 DEF HasNumeral
  <2>3. at = <<a, c, b>>
    <3>1. iom_orders["BIL"] = <<1, 3, 2>>
      BY DEF iom_orders
    <3> HIDE DEF size
    <3>2. at = [k \in 1..3 |-> <<a, b, c>>[<<1, 3, 2>>[k]]]
      BY <1>4, <2>1, <2>2, <3>1 DEF iom_Xpos
    <3> QED BY <3>2
  <2>4. at \in PlacesIn(dims)
    <3>1. a \in Nat /\ b \in Nat /\ c \in Nat /\ a < x /\ b < z /\ c < y
      OBVIOUS
    <3> QED BY <1>1, <2>3, <3>1 DEF PlacesIn
  <2>5. iom_Cpos(at, org, size) = i
    <3> HIDE DEF size, at
    <3> QED BY <1>4, <2>1, <2>2, <2>3 DEF iom_Cpos, Item
  <2> QED BY <2>4, <2>5
<1>5. CASE org = "BIP"
  <2>1. size[1] = z /\ size[2] = x
    BY <1>1, <1>5, SizesInOrder
  <2>2. PICK a \in 0..(z - 1), b \in 0..(x - 1), c \in 0..(y - 1) :
          /\ i = Item(a, b, c, z, x)
          /\ a = i % z /\ b = (i \div z) % x /\ c = i \div (z * x)
    <3>1. i \in 0..(z * x * y - 1)
      BY <1>2
    <3>2. HasNumeral(i, z, x, y)
      BY <3>1, NumeralOf
    <3> QED BY <3>2 DEF HasNumeral
  <2>3. at = <<b, c, a>>
    <3>1. iom_orders["BIP"] = <<2, 3, 1>>
      BY DEF iom_orders
    <3> HIDE DEF size
    <3>2. at = [k \in 1..3 |-> <<a, b, c>>[<<2, 3, 1>>[k]]]
      BY <1>5, <2>1, <2>2, <3>1 DEF iom_Xpos
    <3> QED BY <3>2
  <2>4. at \in PlacesIn(dims)
    <3>1. a \in Nat /\ b \in Nat /\ c \in Nat /\ a < z /\ b < x /\ c < y
      OBVIOUS
    <3> QED BY <1>1, <2>3, <3>1 DEF PlacesIn
  <2>5. iom_Cpos(at, org, size) = i
    <3> HIDE DEF size, at
    <3> QED BY <1>5, <2>1, <2>2, <2>3 DEF iom_Cpos, Item
  <2> QED BY <2>4, <2>5
<1> QED BY <1>3, <1>4, <1>5 DEF iom_orders

\* An image of one band is the same in every order.
LEMMA OneBandInOrder ==
  ASSUME NEW dims \in Dims, dims[3] = 1, NEW at \in PlacesIn(dims),
         NEW org \in DOMAIN iom_orders
  PROVE  iom_Cpos(at, org, SizesOf(dims, org))
           = iom_Cpos(at, "BIP", SizesOf(dims, "BIP"))
<1>1. CASE org = "BIL"
  <2>1. PICK s \in Nat, t \in Nat : dims[1] = s /\ dims[2] = t
    BY DEF Dims
  <2>2. PICK x \in Nat, y \in Nat : at[1] = x /\ at[2] = y
    BY DEF PlacesIn
  <2>3. at[3] = 0
    BY DEF PlacesIn
  <2>4. iom_Cpos(at, "BIL", SizesOf(dims, "BIL")) = x + s * (0 + y * 1)
    BY <2>1, <2>2, <2>3, SizesInOrder DEF iom_Cpos
  <2>5. iom_Cpos(at, "BIP", SizesOf(dims, "BIP")) = 0 + 1 * (x + y * s)
    BY <2>1, <2>2, <2>3, SizesInOrder DEF iom_Cpos
  <2>6. x + s * (0 + y * 1) = 0 + 1 * (x + y * s)
    OBVIOUS
  <2> QED BY <1>1, <2>4, <2>5, <2>6
<1> QED BY <1>1, OneBand DEF iom_orders

\* What need not be copied is as its copy.
LEMMA CopyAsGiven ==
  ASSUME NEW cube \in Cubes, cube.item # "FLOAT",
         cube.org = "BIP" \/ cube.dims[3] = 1
  PROVE  iom__ConvertToBIP(cube) = Given(cube)
<1> DEFINE w == Width[cube.item]
           n == CountOf(cube.dims)
           data == Given(cube)
<1>1. cube.dims \in Dims /\ cube.org \in DOMAIN iom_orders
      /\ cube.item \in DOMAIN Width /\ "BIP" \in DOMAIN iom_orders
  BY DEF Cubes, iom_orders
<1>2. w \in Nat \ {0} /\ n \in Nat \ {0}
  BY <1>1, WidthTyped, CountTyped
<1>3. ASSUME NEW i \in 0..(n - 1) PROVE InGiven(cube, i) = i
  <2> DEFINE at == iom_Xpos(i, "BIP", SizesOf(cube.dims, "BIP"))
  <2>1. /\ at \in PlacesIn(cube.dims)
        /\ iom_Cpos(at, "BIP", SizesOf(cube.dims, "BIP")) = i
    BY <1>1, ItemsFoundAgain
  <2> HIDE DEF at
  <2>2. iom_Cpos(at, cube.org, SizesOf(cube.dims, cube.org)) = i
    BY <1>1, <2>1, OneBandInOrder
  <2> QED BY <2>2 DEF InGiven, at
<1>4. iom__ConvertToBIP(cube) =
        [k \in 0..(n * w - 1) |->
           Byte(data, InGiven(cube, k \div w) * w + (k % w))]
  <2>1. iom_NBYTESI[cube.item] = w
    BY DEF iom_NBYTESI, Width
  <2> QED BY <2>1 DEF iom__ConvertToBIP
<1>5. data = [k \in 0..(n * w - 1) |-> data[k]]
  BY DEF Given
<1> HIDE DEF w, n, data
<1>6. ASSUME NEW k \in 0..(n * w - 1)
      PROVE  Byte(data, InGiven(cube, k \div w) * w + (k % w)) = data[k]
  <2>1. PICK i \in 0..(n - 1), p \in 0..(w - 1) : i = k \div w /\ p = k % w
    BY <1>2, ItemOfByte
  <2>2. k = i * w + p
    <3>1. n * w \in Nat
      BY <1>2
    <3>2. k = w * (k \div w) + (k % w)
      BY <1>2, <3>1
    <3> QED BY <1>2, <2>1, <3>2
  <2>3. InGiven(cube, k \div w) * w + (k % w) = k
    BY <1>3, <2>1, <2>2
  <2> QED BY <1>5, <2>3 DEF Byte
<1>7. iom__ConvertToBIP(cube) = data
  BY <1>4, <1>5, <1>6
<1> QED BY <1>7 DEF data

\* A file that reads back and has as many bytes as the cube has no other.
LEMMA NothingBeyond ==
  ASSUME NEW cube \in Cubes, NEW file, ReadsBack(file, cube),
         file.org \in DOMAIN iom_orders, file.order \in {"MSB", "LSB"},
         DOMAIN file.bytes = 0..(CountOf(cube.dims) * Width[cube.item] - 1)
  PROVE  ~ReachesBeyond(file)
<1> DEFINE w == Width[cube.item]
           n == CountOf(cube.dims)
<1>1. cube.dims \in Dims /\ file.dims = cube.dims /\ file.item = cube.item
  BY DEF Cubes, ReadsBack
<1>2. w \in Nat \ {0} /\ n \in Nat \ {0}
  BY <1>1, WidthTyped, CountTyped DEF Cubes
<1>3. PICK big \in BOOLEAN : file.order = OrderOn(big)
  BY DEF OrderOn
<1>4. ASSUME NEW k \in 0..(n * w - 1)
      PROVE  file.bytes[k] # <<"beyond">>
  <2> HIDE DEF w, n
  <2>1. PICK i \in 0..(n - 1), p \in 0..(w - 1) : i = k \div w /\ p = k % w
    BY <1>2, ItemOfByte
  <2>2. k = i * w + p
    <3>1. n * w \in Nat
      BY <1>2
    <3>2. k = w * (k \div w) + (k % w)
      BY <1>2, <3>1
    <3> QED BY <1>2, <2>1, <3>2
  <2>3. PICK at \in PlacesIn(cube.dims) :
          iom_Cpos(at, file.org, SizesOf(cube.dims, file.org)) = i
    BY <1>1, ItemsFoundAgain DEF n
  <2>4. ItemAt(file, at, file.order) = ItemGiven(cube, at, file.order)
    <3>1. /\ at[1] \in 0..(cube.dims[1] - 1) /\ at[2] \in 0..(cube.dims[2] - 1)
          /\ at[3] \in 0..(cube.dims[3] - 1) /\ at = <<at[1], at[2], at[3]>>
      BY <1>1 DEF PlacesIn, Dims
    <3> QED BY <1>3, <3>1 DEF ReadsBack
  <2>5. ItemAt(file, at, file.order)[p] = Byte(file.bytes, k)
    BY <1>1, <2>2, <2>3 DEF ItemAt, iom_byte_swap_data, Turned, w
  <2>6. ItemGiven(cube, at, file.order)[p]
          = <<at, Turned(Native, file.order, w, p)>>
    BY DEF ItemGiven, w
  <2>7. Byte(file.bytes, k) = file.bytes[k]
    BY DEF Byte, w, n
  <2>8. file.bytes[k] = <<at, Turned(Native, file.order, w, p)>>
    BY <2>4, <2>5, <2>6, <2>7
  <2>9. Len(<<at, Turned(Native, file.order, w, p)>>) # Len(<<"beyond">>)
    OBVIOUS
  <2> QED BY <2>8, <2>9
<1> QED BY <1>4 DEF ReachesBeyond

-----------------------------------------------------------------------------
(* What the other writers write, and what does not read back.              *)

\* One that its reader refuses does not.
LEMMA UnreadableIsNot ==
  ASSUME NEW cube \in Cubes
  PROVE  ~ReadsBack(Unreadable, cube)
<1>1. cube.dims[1] # 0
  BY DEF Cubes, Dims
<1>2. Unreadable.dims[1] = 0
  BY DEF Unreadable, FileOf
<1> QED BY <1>1, <1>2 DEF ReadsBack

\* GRD files give back one band of reals, from hosts that are big-endian.
LEMMA GridReadsBack ==
  ASSUME NEW cube \in Cubes, cube.dims[3] = 1, HostIsBig, cube.item = "FLOAT"
  PROVE  ReadsBack(Grid(cube), cube)
<1> DEFINE file == Grid(cube)
           w == Width[cube.item]
<1>1. /\ file.dims = cube.dims /\ file.item = cube.item
      /\ file.org = "BSQ" /\ file.order = "MSB"
      /\ file.bytes = [k \in 0..(CountOf(cube.dims) * w - 1) |-> Byte(Given(cube), k)]
  BY DEF Grid, FileOf
<1>2. Native = "MSB"
  BY DEF Native, OrderOn
<1>3. ASSUME NEW at \in PlacesIn(cube.dims), NEW part \in 0..(w - 1)
      PROVE  Byte(file.bytes,
                  iom_Cpos(at, file.org, SizesOf(file.dims, file.org))
                    * w + part)
               = <<at, Turned(Native, file.order, w, part)>>
  <2> DEFINE k == iom_Cpos(at, cube.org, SizesOf(cube.dims, cube.org)) * w
                    + part
  <2>1. k \in DOMAIN Given(cube) /\ Given(cube)[k] = <<at, part>>
    BY GivenHasPlace
  <2>0. DOMAIN Given(cube) = 0..(CountOf(cube.dims) * w - 1)
    BY DEF Given
  <2>2. iom_Cpos(at, cube.org, SizesOf(cube.dims, cube.org))
          = iom_Cpos(at, "BSQ", SizesOf(cube.dims, "BSQ"))
    <3>1. /\ cube.dims \in Dims /\ cube.org \in DOMAIN iom_orders
          /\ "BSQ" \in DOMAIN iom_orders
      BY DEF Cubes, iom_orders
    <3> QED BY <3>1, OneBandInOrder
  <2> HIDE DEF file
  <2> QED BY <1>1, <1>2, <2>0, <2>1, <2>2 DEF Byte, Turned
<1> HIDE DEF file
<1>4. ReadsBack(file, cube)
  BY <1>1, <1>3, ReadsBackIf
<1> QED BY <1>4 DEF file

\* IMath files give back one real of eight bytes, from such hosts, and no
\* image: its lines would be its columns.
LEMMA MatrixDiffers ==
  ASSUME NEW cube \in Cubes, ReadsBack(Matrix(cube), cube)
  PROVE  /\ HostIsBig /\ cube.item = "DOUBLE"
         /\ cube.dims[1] = 1 /\ cube.dims[2] = 1 /\ cube.dims[3] = 1
<1> DEFINE file == Matrix(cube)
           h == cube.dims[2]
           Source(k) == (k % h) * cube.dims[1] + k \div h
           at == <<0, 1, 0>>
<1>1. HostIsBig
  BY UnreadableIsNot DEF Matrix
<1>2. PICK w \in Nat \ {0} : w = cube.dims[1]
  BY DEF Cubes, Dims
<1>3. h \in Nat \ {0} /\ cube.dims \in Dims /\ cube.dims[3] \in Nat
      /\ cube.org \in DOMAIN iom_orders
  BY DEF Cubes, Dims
<1>4. /\ file.dims = <<h, w, 1>> /\ file.item = "DOUBLE" /\ file.org = "BSQ"
      /\ file.order = "MSB"
      /\ file.bytes = [k \in 0..(w * h * 8 - 1) |->
                         Byte(Given(cube), Source(k \div 8) * 8 + (k % 8))]
  BY <1>1, <1>2 DEF Matrix, FileOf
<1> HIDE DEF file
<1>5. cube.item = "DOUBLE" /\ cube.dims = <<h, w, 1>>
  BY <1>4 DEF ReadsBack, file
<1>6. w = h /\ cube.dims[3] = 1
  BY <1>2, <1>5
<1>7. ASSUME w # 1 PROVE FALSE
  <2>1. w >= 2 /\ w % w = 0 /\ w \div w = 1
    BY <1>7
  <2>2. at \in PlacesIn(cube.dims)
    <3>1. at \in [1..3 -> Nat]
      OBVIOUS
    <3>2. 0 < cube.dims[1] /\ 1 < cube.dims[2] /\ 0 < cube.dims[3]
      BY <1>2, <1>6, <2>1
    <3>3. at[1] = 0 /\ at[2] = 1 /\ at[3] = 0
      OBVIOUS
    <3> HIDE DEF at
    <3>4. \A d \in 1..3 : at[d] < cube.dims[d]
      BY <3>2, <3>3
    <3> QED BY <3>1, <3>4 DEF PlacesIn
  <2>3. SizesOf(cube.dims, "BSQ")[1] = w /\ SizesOf(cube.dims, "BSQ")[2] = w
    BY <1>2, <1>3, <1>6, SizesInOrder
  <2>4. iom_Cpos(at, "BSQ", SizesOf(cube.dims, "BSQ")) = w
    BY <2>3 DEF iom_Cpos
  <2>5. ItemAt(file, at, "MSB") = ItemGiven(cube, at, "MSB")
    <3>1. OrderOn(TRUE) = "MSB" /\ TRUE \in BOOLEAN
      BY DEF OrderOn
    <3>2. /\ 0 \in 0..(cube.dims[1] - 1) /\ 1 \in 0..(cube.dims[2] - 1)
          /\ 0 \in 0..(cube.dims[3] - 1)
      BY <1>2, <1>6, <2>1
    <3>3. ReadsBack(file, cube)
      BY DEF file
    <3>4. ItemAt(file, <<0, 1, 0>>, OrderOn(TRUE))
            = ItemGiven(cube, <<0, 1, 0>>, OrderOn(TRUE))
      BY <3>2, <3>3 DEF ReadsBack
    <3> QED BY <3>1, <3>4
  <2>6. ItemAt(file, at, "MSB")[0] = Byte(file.bytes, w * 8 + 0)
    <3>1. Width["DOUBLE"] = 8 /\ 0 \in 0..(8 - 1)
      BY DEF Width
    <3>2. file.dims = cube.dims
      BY <1>4, <1>5
    <3> HIDE DEF at
    <3> QED BY <1>4, <2>4, <3>1, <3>2 DEF ItemAt, iom_byte_swap_data, Turned
  <2>7. ItemGiven(cube, at, "MSB")[0] = <<at, 0>>
    <3>1. Width[cube.item] = 8 /\ 0 \in 0..(8 - 1) /\ Native = "MSB"
      BY <1>1, <1>5 DEF Width, Native, OrderOn
    <3> HIDE DEF at
    <3> QED BY <3>1 DEF ItemGiven, Turned
  <2>8. Byte(file.bytes, w * 8 + 0) = Byte(Given(cube), 8)
    <3>1. w * h \in Nat \ {0} /\ w * h >= 2 * w
      <4>1. w * 2 <= w * w
        BY <2>1, TimesMonotone
      <4>2. w * w \in Nat
        OBVIOUS
      <4> QED BY <1>6, <2>1, <4>1, <4>2
    <3>2. PICK m \in Nat : m = w * h
      BY <3>1
    <3>3. w * 8 + 0 \in 0..(w * h * 8 - 1)
      BY <3>1, <3>2
    <3>4. (w * 8 + 0) \div 8 = w /\ (w * 8 + 0) % 8 = 0
      OBVIOUS
    <3>5. Source(w) = 1
      <4>1. w % h = 0 /\ w \div h = 1 /\ cube.dims[1] = w
        BY <1>2, <1>6, <2>1
      <4> HIDE DEF h
      <4>2. Source(w) = 0 * w + 1
        BY <4>1
      <4> QED BY <4>2
    <3> HIDE DEF Source
    <3>6. file.bytes[w * 8 + 0] = Byte(Given(cube), 1 * 8 + 0)
      BY <1>4, <3>3, <3>4, <3>5
    <3> QED BY <1>4, <3>3, <3>6 DEF Byte
  <2> DEFINE other == iom_Xpos(1, cube.org, SizesOf(cube.dims, cube.org))
  <2>9. CountOf(cube.dims) = w * w /\ w * w \in Nat /\ w * w >= 2 * w
    <3>1. w * 2 <= w * w
      BY <2>1, TimesMonotone
    <3>2. CountOf(cube.dims) = w * w * 1
      BY <1>2, <1>6 DEF CountOf
    <3> QED BY <2>1, <3>1, <3>2
  <2>10. /\ other \in PlacesIn(cube.dims)
         /\ iom_Cpos(other, cube.org, SizesOf(cube.dims, cube.org)) = 1
    <3>1. 1 \in 0..(CountOf(cube.dims) - 1)
      BY <2>1, <2>9
    <3> QED BY <1>3, <3>1, ItemsFoundAgain
  <2>11. Byte(Given(cube), 8) = <<other, 0>>
    <3>1. Width[cube.item] = 8 /\ 0 \in 0..(8 - 1)
      BY <1>5 DEF Width
    <3> HIDE DEF other
    <3>2. /\ 1 * 8 + 0 \in DOMAIN Given(cube)
          /\ Given(cube)[1 * 8 + 0] = <<other, 0>>
      BY <2>10, <3>1, GivenHasPlace
    <3> QED BY <3>2 DEF Byte
  <2>12. other = at
    <3> HIDE DEF at, other
    <3>1. <<other, 0>> = <<at, 0>>
      BY <2>5, <2>6, <2>7, <2>8, <2>11
    <3> QED BY <3>1
  <2>13. iom_Cpos(at, cube.org, SizesOf(cube.dims, cube.org)) = w
    <3>1. "BSQ" \in DOMAIN iom_orders
      BY DEF iom_orders
    <3> HIDE DEF at
    <3>2. iom_Cpos(at, cube.org, SizesOf(cube.dims, cube.org))
            = iom_Cpos(at, "BSQ", SizesOf(cube.dims, "BSQ"))
      BY <1>3, <1>6, <2>2, <3>1, OneBandInOrder
    <3> QED BY <2>4, <3>2
  <2> QED BY <2>1, <2>10, <2>12, <2>13
<1> QED BY <1>1, <1>2, <1>5, <1>6, <1>7

LEMMA MatrixOfOne ==
  ASSUME NEW cube \in Cubes, HostIsBig, cube.item = "DOUBLE",
         cube.dims[1] = 1, cube.dims[2] = 1, cube.dims[3] = 1
  PROVE  ReadsBack(Matrix(cube), cube)
<1> DEFINE file == Matrix(cube)
           w == Width[cube.item]
<1>1. cube.dims = <<1, 1, 1>> /\ cube.dims \in Dims
      /\ cube.org \in DOMAIN iom_orders /\ "BSQ" \in DOMAIN iom_orders
  BY DEF Cubes, Dims, iom_orders
<1>2. /\ file.dims = cube.dims /\ file.item = cube.item
      /\ file.org = "BSQ" /\ file.order = "MSB"
      /\ file.bytes = [k \in 0..7 |-> Byte(Given(cube), k)]
  <2>1. ASSUME NEW k \in 0..(1 * 1 * 8 - 1)
        PROVE  (((k \div 8) % 1) * 1 + (k \div 8) \div 1) * 8 + (k % 8) = k
    OBVIOUS
  <2>2. /\ file.dims = <<1, 1, 1>> /\ file.item = "DOUBLE"
        /\ file.org = "BSQ" /\ file.order = "MSB"
        /\ file.bytes =
             [k \in 0..(1 * 1 * 8 - 1) |->
                Byte(Given(cube), (((k \div 8) % 1) * 1 + (k \div 8) \div 1) * 8
                                    + (k % 8))]
    BY DEF Matrix, FileOf
  <2> HIDE DEF file
  <2>3. [k \in 0..(1 * 1 * 8 - 1) |->
           Byte(Given(cube), (((k \div 8) % 1) * 1 + (k \div 8) \div 1) * 8
                               + (k % 8))]
          = [k \in 0..(1 * 1 * 8 - 1) |-> Byte(Given(cube), k)]
    BY <2>1
  <2> QED BY <1>1, <2>2, <2>3
<1>3. Native = "MSB" /\ w = 8
  BY DEF Native, OrderOn, Width
<1> HIDE DEF file
<1>4. ASSUME NEW at \in PlacesIn(cube.dims), NEW part \in 0..(w - 1)
      PROVE  Byte(file.bytes,
                  iom_Cpos(at, file.org, SizesOf(file.dims, file.org))
                    * w + part)
               = <<at, Turned(Native, file.order, w, part)>>
  <2>1. iom_Cpos(at, "BSQ", SizesOf(cube.dims, "BSQ")) = 0
    <3>1. iom_Cpos(at, "BSQ", SizesOf(cube.dims, "BSQ"))
            \in 0..(CountOf(cube.dims) - 1)
      BY <1>1, PlacesFoundAgain
    <3>2. CountOf(cube.dims) = 1
      BY <1>1 DEF CountOf
    <3> QED BY <3>1, <3>2
  <2>2. iom_Cpos(at, cube.org, SizesOf(cube.dims, cube.org))
          = iom_Cpos(at, "BSQ", SizesOf(cube.dims, "BSQ"))
    BY <1>1, OneBandInOrder
  <2>3. 0 * w + part \in DOMAIN Given(cube)
        /\ Given(cube)[0 * w + part] = <<at, part>>
    BY <2>1, <2>2, GivenHasPlace
  <2>4. 0 * w + part = part /\ part \in 0..7
    BY <1>3
  <2>5. Byte(file.bytes, part) = <<at, part>>
    BY <1>2, <2>3, <2>4 DEF Byte
  <2> QED BY <1>2, <1>3, <2>1, <2>4, <2>5 DEF Turned
<1>5. ReadsBack(file, cube)
  BY <1>2, <1>4, ReadsBackIf
<1> QED BY <1>5 DEF file

\* A writer that takes reals for items of five bytes writes more than there is.
LEMMA RealsGoBeyond ==
  ASSUME NEW cube \in Cubes, cube.item = "FLOAT", NEW writer
  PROVE  ReachesBeyond(OneWrite(writer, cube))
<1> DEFINE n == CountOf(cube.dims)
           k == n * 4
           bytes == OneWrite(writer, cube).bytes
<1>1. n \in Nat \ {0}
  BY CountTyped DEF Cubes
<1>2. bytes = First(n * 5, Given(cube)) /\ DOMAIN Given(cube) = 0..(n * 4 - 1)
  BY DEF OneWrite, FileOf, Given, iom_NBYTESI, Width
<1> HIDE DEF n, bytes
<1>3. k \in 0..(n * 5 - 1) /\ k \notin DOMAIN Given(cube)
  BY <1>1, <1>2
<1> HIDE DEF k
<1>4. k \in DOMAIN bytes /\ bytes[k] = <<"beyond">>
  BY <1>2, <1>3 DEF First, Byte
<1> QED BY <1>4 DEF ReachesBeyond, bytes

\* BMP files are of bytes, and have one band or three.
LEMMA BottomUpDiffers ==
  ASSUME NEW cube \in Cubes, NEW data,
         cube.item # "BYTE" \/ cube.dims[3] \notin {1, 3}
  PROVE  ~ReadsBack(BottomUp(cube, data), cube)
<1> DEFINE result == BottomUp(cube, data)
<1>1. PICK w \in Extent, h \in Extent :
        cube.dims[1] = w /\ cube.dims[2] = h
  BY DEF Cubes, Dims, Extent
<1>2. PICK n \in {1, 3} : n = IF cube.dims[3] = 3 THEN 3 ELSE 1
  OBVIOUS
<1> DEFINE file == WrittenHeaders(w, h, n)
           image == writeBMP(w, h, n, data)
<1>3. result = iom_GetBMPHeader(file, image)
  <2>1. (IF n = 3 THEN 0 ELSE 256) = (IF cube.dims[3] = 3 THEN 0 ELSE 256)
    BY <1>2
  <2> QED BY <1>1, <1>2, <2>1 DEF BottomUp, WrittenHeaders
<1>4. \/ result = Unreadable
      \/ /\ result.item = "BYTE"
         /\ result.dims[3] = zout(file, ReadHeader(file))
  <2> HIDE DEF file, image
  <2> DEFINE b == ReadHeader(file)
             z == zout(file, b)
             x == iom_GetBMPHeader(file, image)
  <2>1. CASE ~Bogus(b)
    <3>1. x.item = "BYTE" /\ x.dims = <<b.xout, b.yout, z>>
      BY <2>1 DEF iom_GetBMPHeader, FileOf
    <3> HIDE DEF b, z, x
    <3>2. x.dims[3] = z
      BY <3>1
    <3> QED BY <1>3, <3>1, <3>2 DEF b, z, x
  <2>2. CASE Bogus(b)
    <3>1. x = Unreadable
      BY <2>2 DEF iom_GetBMPHeader
    <3> HIDE DEF x
    <3> QED BY <1>3, <3>1 DEF x
  <2> QED BY <2>1, <2>2
<1>5. zout(file, ReadHeader(file)) = n
  <2>1. /\ WrittenKind(w, h, n) \in BMPKinds
        /\ file = Made(WrittenKind(w, h, n))
    BY WrittenAsMade
  <2>2. zout(file, ReadHeader(file)) = IF 8 * n = 24 THEN 3 ELSE 1
    <3>1. WrittenKind(w, h, n).bits = 8 * n
          /\ WrittenKind(w, h, n).coloured = FALSE
      BY DEF WrittenKind
    <3> HIDE DEF file
    <3> QED BY <2>1, <3>1, BandsByColours
  <2> QED BY <2>2
<1> HIDE DEF result
<1>6. CASE result = Unreadable
  BY <1>6, UnreadableIsNot DEF result
<1>7. CASE result.item = "BYTE" /\ result.dims[3] = n
  <2>1. result.dims[3] = cube.dims[3] => cube.dims[3] \in {1, 3}
    BY <1>7
  <2> QED BY <1>7, <2>1 DEF ReadsBack, result
<1> QED BY <1>4, <1>5, <1>6, <1>7

\* A BMP file of such an image has a byte for each value.
LEMMA BottomUpWhole ==
  ASSUME NEW cube \in Cubes, NEW data, cube.item = "BYTE",
         cube.dims[3] \in {1, 3}
  PROVE  LET result == BottomUp(cube, data)
         IN  /\ result.org = "BIP" /\ result.order = "MSB"
             /\ DOMAIN result.bytes = 0..(CountOf(cube.dims) * 1 - 1)
<1> DEFINE result == BottomUp(cube, data)
<1>1. PICK w \in Extent, h \in Extent :
        cube.dims[1] = w /\ cube.dims[2] = h
  BY DEF Cubes, Dims, Extent
<1>2. PICK n \in {1, 3} : cube.dims[3] = n
  OBVIOUS
<1> DEFINE f == WrittenKind(w, h, n)
           file == WrittenHeaders(w, h, n)
           b == ReadHeader(file)
           image == writeBMP(w, h, n, data)
<1>3. result = iom_GetBMPHeader(file, image)
  BY <1>1, <1>2 DEF BottomUp, WrittenHeaders
<1>4. f \in BMPKinds /\ file = Made(f)
  BY WrittenAsMade
<1>5. ReadInPlace(f)
  BY <1>4, EveryKindReadInPlace
<1>6. f.w = w /\ f.h = h /\ f.bits = 8 * n /\ f.coloured = FALSE
  BY DEF WrittenKind
<1> HIDE DEF f, file
<1>7. /\ ~Bogus(b) /\ b.xout = w /\ b.yout = h /\ zout(file, b) = n
  <2>1. /\ ~Bogus(b) /\ b.xout = w /\ b.yout = h
        /\ zout(file, b) = IF 8 * n = 24 THEN 3 ELSE 1
    BY <1>4, <1>5, <1>6 DEF ReadInPlace
  <2> QED BY <2>1
<1>8. CountOf(cube.dims) * 1 = w * h * n
  <2>1. CountOf(cube.dims) = w * h * n /\ w * h * n \in Nat
    BY <1>1, <1>2 DEF CountOf, Extent
  <2> QED BY <2>1
<1> HIDE DEF result, image, b
<1>9. /\ result.org = "BIP" /\ result.order = "MSB"
      /\ DOMAIN result.bytes = 0..(w * h * n - 1)
  <2>1. ~Bogus(ReadHeader(file))
    BY <1>7 DEF b
  <2>2. /\ iom_GetBMPHeader(file, image).org = "BIP"
        /\ iom_GetBMPHeader(file, image).order = "MSB"
        /\ DOMAIN iom_GetBMPHeader(file, image).bytes
             = 0..(b.xout * b.yout * zout(file, b) - 1)
    BY <2>1 DEF iom_GetBMPHeader, FileOf, b
  <2> QED BY <1>3, <1>7, <2>2
<1> QED BY <1>8, <1>9 DEF result

-----------------------------------------------------------------------------
(* Each writer's files: which of them read back, and which of those have   *)
(* bytes that are not the caller's.                                        *)

ReadsBackWhen(writer, cube, copied, faithful, beyond) ==
  LET file == FileBy(writer, cube, copied)
  IN  /\ ReadsBack(file, cube) <=> faithful
      /\ faithful => (ReachesBeyond(file) <=> beyond)

LEMMA OneWriteWhen ==
  ASSUME NEW cube \in Cubes, NEW copied,
         NEW writer \in {"Vicar", "ENVI", "ISIS", "ERS", "Raw"}
  PROVE  ReadsBackWhen(writer, cube, copied,
                       LabelledItem(writer, cube.item) = cube.item,
                       cube.item = "FLOAT")
<1> DEFINE file == OneWrite(writer, cube)
           named == LabelledItem(writer, cube.item) = cube.item
<1>1. FileBy(writer, cube, copied) = file
  BY DEF FileBy
<1>2. ReadsBack(file, cube) <=> named
  <2>1. file.item = LabelledItem(writer, cube.item)
    BY DEF OneWrite, FileOf
  <2>2. named => ReadsBack(file, cube)
    BY OneWriteReadsBack
  <2>3. ReadsBack(file, cube) => named
    <3>1. ReadsBack(file, cube) => file.item = cube.item
      BY DEF ReadsBack
    <3> QED BY <2>1, <3>1
  <2> QED BY <2>2, <2>3
<1>3. cube.item = "FLOAT" => ReachesBeyond(file)
  BY RealsGoBeyond
<1>4. ASSUME named, cube.item # "FLOAT" PROVE ~ReachesBeyond(file)
  <2>1. /\ file.org = cube.org
        /\ file.bytes = First(CountOf(cube.dims) * iom_NBYTESI[cube.item],
                              Given(cube))
        /\ file.order = OrderMeant(OrderWord(writer, cube.item))
    BY DEF OneWrite, FileOf
  <2>2. iom_NBYTESI[cube.item] = Width[cube.item]
    BY <1>4 DEF iom_NBYTESI, Width
  <2>3. file.order \in {"MSB", "LSB"}
    BY <2>1 DEF OrderMeant
  <2>4. ReadsBack(file, cube)
    BY <1>2, <1>4
  <2>5. file.org \in DOMAIN iom_orders
    BY <2>1 DEF Cubes
  <2> HIDE DEF file
  <2>6. DOMAIN file.bytes = 0..(CountOf(cube.dims) * Width[cube.item] - 1)
    BY <2>1, <2>2 DEF First
  <2> QED BY <2>3, <2>4, <2>5, <2>6, NothingBeyond
<1> QED BY <1>1, <1>2, <1>3, <1>4 DEF ReadsBackWhen

LEMMA PixelRowsWhen ==
  ASSUME NEW cube \in Cubes, NEW copied \in BOOLEAN,
         NEW writer \in {"PNM", "JPEG", "PNG", "GIF"},
         copied \/ cube.org = "BIP" \/ cube.dims[3] = 1,
         writer = "PNG" => cube.item \in {"BYTE", "SHORT"}
  PROVE  ReadsBackWhen(writer, cube, copied, cube.item = "BYTE", FALSE)
<1> DEFINE data == IF copied THEN iom__ConvertToBIP(cube) ELSE Given(cube)
           rows == PixelRows(writer, cube, data)
           file == IF writer = "PNG" THEN iom_GetPNGHeader(rows) ELSE rows
           right == cube.item = "BYTE"
<1>1. FileBy(writer, cube, copied) = file
  BY DEF FileBy
<1>2. /\ rows.org = PixelOrder(writer, cube.dims[3]) /\ rows.order = "MSB"
      /\ rows.item = IF writer = "PNG" THEN cube.item ELSE "BYTE"
      /\ DOMAIN rows.bytes = 0..(CountOf(cube.dims) * Width[rows.item] - 1)
  BY DEF PixelRows, FileOf
<1>5. right => file = rows
  BY <1>2 DEF iom_GetPNGHeader
<1>6. ~right => file.item # cube.item
  <2> HIDE DEF rows
  <2>1. CASE writer = "PNG" /\ cube.item = "SHORT"
    BY <1>2, <2>1 DEF iom_GetPNGHeader, toInts, FileOf
  <2>2. CASE writer # "PNG"
    BY <1>2, <2>2
  <2> QED BY <2>1, <2>2
<1>3. ASSUME right PROVE ReadsBack(file, cube) /\ ~ReachesBeyond(file)
  <2>1. data = iom__ConvertToBIP(cube)
    <3>1. cube.item # "FLOAT"
      BY <1>3
    <3> QED BY <3>1, CopyAsGiven
  <2>2. ReadsBack(file, cube)
    <3>1. ReadsBack(PixelRows(writer, cube, iom__ConvertToBIP(cube)), cube)
      BY <1>3, CopiedRowsHold
    <3>2. ReadsBack(rows, cube)
      BY <2>1, <3>1
    <3> HIDE DEF rows
    <3> QED BY <1>3, <1>5, <3>2
  <2> HIDE DEF rows, file
  <2>3. DOMAIN file.bytes = 0..(CountOf(cube.dims) * Width[cube.item] - 1)
    BY <1>2, <1>3, <1>5
  <2>4. file.org \in DOMAIN iom_orders /\ file.order \in {"MSB", "LSB"}
    BY <1>2, <1>3, <1>5 DEF PixelOrder, iom_orders
  <2> QED BY <2>2, <2>3, <2>4, NothingBeyond
<1> HIDE DEF file
<1>4. ASSUME ~right PROVE ~ReadsBack(file, cube)
  BY <1>4, <1>6 DEF ReadsBack
<1> QED BY <1>1, <1>3, <1>4 DEF ReadsBackWhen

LEMMA StripsWhen ==
  ASSUME NEW cube \in Cubes, NEW copied
  PROVE  ReadsBackWhen("TIFF", cube, copied, TRUE, FALSE)
<1> DEFINE file == Strips(cube)
<1>1. FileBy("TIFF", cube, copied) = file
  BY DEF FileBy
<1>2. ReadsBack(file, cube)
  BY StripsReadBack
<1>3. /\ file.org \in DOMAIN iom_orders /\ file.order \in {"MSB", "LSB"}
      /\ DOMAIN file.bytes = 0..(CountOf(cube.dims) * Width[cube.item] - 1)
  BY OrdersTyped DEF Strips, FileOf, PixelOrder, iom_orders
<1> HIDE DEF file
<1>4. ~ReachesBeyond(file)
  BY <1>2, <1>3, NothingBeyond
<1> QED BY <1>1, <1>2, <1>4 DEF ReadsBackWhen

LEMMA GridWhen ==
  ASSUME NEW cube \in Cubes, NEW copied, cube.dims[3] = 1
  PROVE  ReadsBackWhen("GRD", cube, copied,
                       HostIsBig /\ cube.item = "FLOAT", FALSE)
<1> DEFINE file == Grid(cube)
<1>1. FileBy("GRD", cube, copied) = file
  BY DEF FileBy
<1>2. CASE HostIsBig /\ cube.item = "FLOAT"
  <2>1. ReadsBack(file, cube)
    BY <1>2, GridReadsBack
  <2>2. /\ file.org \in DOMAIN iom_orders /\ file.order \in {"MSB", "LSB"}
        /\ DOMAIN file.bytes = 0..(CountOf(cube.dims) * Width[cube.item] - 1)
    BY <1>2 DEF Grid, FileOf, iom_orders
  <2> HIDE DEF file
  <2>3. ~ReachesBeyond(file)
    BY <2>1, <2>2, NothingBeyond
  <2> QED BY <1>1, <1>2, <2>1, <2>3 DEF ReadsBackWhen
<1>3. CASE ~HostIsBig
  <2>1. ~ReadsBack(file, cube)
    BY <1>3, UnreadableIsNot DEF Grid
  <2> HIDE DEF file
  <2> QED BY <1>1, <1>3, <2>1 DEF ReadsBackWhen
<1>4. CASE HostIsBig /\ cube.item # "FLOAT"
  <2>1. file.item = "FLOAT"
    BY <1>4 DEF Grid, FileOf
  <2> HIDE DEF file
  <2> QED BY <1>1, <1>4, <2>1 DEF ReadsBackWhen, ReadsBack
<1> QED BY <1>2, <1>3, <1>4

\* An image of one value.
Single(cube) == cube.dims[1] = 1 /\ cube.dims[2] = 1 /\ cube.dims[3] = 1

LEMMA MatrixWhen ==
  ASSUME NEW cube \in Cubes, NEW copied
  PROVE  ReadsBackWhen("IMath", cube, copied,
                       HostIsBig /\ cube.item = "DOUBLE" /\ Single(cube), FALSE)
<1> DEFINE file == Matrix(cube)
           right == HostIsBig /\ cube.item = "DOUBLE" /\ Single(cube)
<1>1. FileBy("IMath", cube, copied) = file
  BY DEF FileBy
<1>2. ASSUME right PROVE ReadsBack(file, cube) /\ ~ReachesBeyond(file)
  <2>1. ReadsBack(file, cube)
    BY <1>2, MatrixOfOne DEF Single
  <2>2. CountOf(cube.dims) * Width[cube.item] = 8
    <3>1. CountOf(cube.dims) = 1 /\ Width[cube.item] = 8
      BY <1>2 DEF CountOf, Width, Single
    <3> QED BY <3>1
  <2>3. /\ file.org \in DOMAIN iom_orders /\ file.order \in {"MSB", "LSB"}
        /\ DOMAIN file.bytes = 0..(cube.dims[1] * cube.dims[2] * 8 - 1)
    BY <1>2 DEF Matrix, FileOf, iom_orders
  <2>4. cube.dims[1] * cube.dims[2] * 8 = 8
    BY <1>2 DEF Single
  <2> HIDE DEF file
  <2>5. DOMAIN file.bytes = 0..(CountOf(cube.dims) * Width[cube.item] - 1)
    BY <2>2, <2>3, <2>4
  <2> QED BY <2>1, <2>3, <2>5, NothingBeyond
<1>3. ReadsBack(file, cube) => right
  BY MatrixDiffers DEF Single
<1> HIDE DEF file, right
<1>4. ReadsBackWhen("IMath", cube, copied, right, FALSE)
  BY <1>1, <1>2, <1>3 DEF ReadsBackWhen
<1> QED BY <1>4 DEF right

LEMMA BottomUpWhen ==
  ASSUME NEW cube \in Cubes, NEW copied \in BOOLEAN,
         copied \/ cube.org = "BIP"
  PROVE  ReadsBackWhen("BMP", cube, copied,
                       cube.item = "BYTE" /\ cube.dims[3] \in {1, 3}, FALSE)
<1> DEFINE data == IF copied THEN iom__ConvertToBIP(cube) ELSE Given(cube)
           file == BottomUp(cube, data)
           right == cube.item = "BYTE" /\ cube.dims[3] \in {1, 3}
<1>1. FileBy("BMP", cube, copied) = file
  BY DEF FileBy
<1>2. ASSUME right PROVE ReadsBack(file, cube) /\ ~ReachesBeyond(file)
  <2>1. data = iom__ConvertToBIP(cube)
    <3>1. cube.item # "FLOAT"
      BY <1>2
    <3> QED BY <3>1, CopyAsGiven
  <2>2. ReadsBack(BottomUp(cube, iom__ConvertToBIP(cube)), cube)
    BY <1>2, BottomUpReadsBack
  <2>3. /\ file.org = "BIP" /\ file.order = "MSB"
        /\ DOMAIN file.bytes = 0..(CountOf(cube.dims) * 1 - 1)
    <3> HIDE DEF data
    <3> QED BY <1>2, BottomUpWhole
  <2>4. ReadsBack(file, cube)
    BY <2>1, <2>2
  <2>5. Width[cube.item] = 1 /\ "BIP" \in DOMAIN iom_orders
    BY <1>2 DEF Width, iom_orders
  <2> HIDE DEF file
  <2>6. ~ReachesBeyond(file)
    BY <2>3, <2>4, <2>5, NothingBeyond
  <2> QED BY <2>4, <2>6
<1>3. ASSUME ~right PROVE ~ReadsBack(file, cube)
  <2> HIDE DEF data
  <2> QED BY <1>3, BottomUpDiffers
<1> HIDE DEF file, right
<1>4. ReadsBackWhen("BMP", cube, copied, right, FALSE)
  BY <1>1, <1>2, <1>3 DEF ReadsBackWhen
<1> QED BY <1>4 DEF right

=============================================================================
