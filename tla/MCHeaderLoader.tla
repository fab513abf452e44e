--------------------------- MODULE MCHeaderLoader ---------------------------
(***************************************************************************)
(* Instances of the header loader for TLC: small files of every format,    *)
(* in each order of axes and with each trait that its reader treats apart. *)
(***************************************************************************)
EXTENDS HeaderLoader

File(format, z, org, bytes, traits) ==
  [format |-> format, x |-> 2, y |-> 3, z |-> z, org |-> org, bytes |-> bytes,
   traits |-> traits]

\* Cubes that stay in their file, in every order their format allows.
LabelFiles ==
  {File(f, 4, org, 2, t) : f \in {"Vicar", "ENVI"}, org \in Orgs,
     t \in {{}, {"bad label"}, {"keyword missing"}}}
  \cup {File("ISIS", 4, org, 2, t) : org \in Orgs,
          t \in {{}, {"image object"}, {"image object", "image pointer"},
                 {"bad label"}, {"keyword missing"}}
                \cup {o \cup {u} : o \in {{}, {"image object"}},
                        u \in {"dimensions missing", "order missing",
                               "order unknown"}}}
  \cup {File("AVIRIS", 4, "BIL", 2, t) : t \in {{}, {"bad label"}}}
  \cup {File("GRD", 4, "BSQ", 4, {}), File("GOES", 1, "BSQ", 2, {}),
        File("IMath", 1, "BSQ", 8, {})}

\* Images, gray and in colours, of one and two bytes.
ImageFiles ==
  {File(f, z, "BIP", 1, t) : f \in {"PNM", "JPEG", "PNG", "GIF"}, z \in {1, 3},
     t \in {{}, {"packed"}}}
  \cup {File("PNM", 1, "BIP", 2, {}), File("PNG", 1, "BIP", 2, {}),
        File("PNG", 4, "BIP", 2, {}),
        File("PNM", 1, "BIP", 2, {"bad label"}),
        File("PNM", 3, "BIP", 1, {"in comment"}),
        File("GIF", 3, "BIP", 1, {"no colormap"}),
        File("GIF", 3, "BIP", 1, {"extension"}),
        File("GIF", 3, "BIP", 1, {"no image"})}
  \cup {File("TIFF", z, "BIP", bytes, t) : z \in {1, 3}, bytes \in {1, 4},
          t \in {{}, {"wide"}, {"tiled"}, {"tiled", "separate"}, {"packed"},
                 {"tiled", "separate", "wide"}}}

WholeFiles ==
  LabelFiles \cup ImageFiles
    \cup {File("TIFF", 3, "BIP", 1, {"separate"}),
          File("ISIS", 4, "BSQ", 2, {"packed"}),
          File("other", 1, "BSQ", 1, {})}

ObjectlessFiles == {File("ISIS", 1, "BSQ", 1, {"no image object"})}

MCFiles == WholeFiles \cup ObjectlessFiles

=============================================================================
