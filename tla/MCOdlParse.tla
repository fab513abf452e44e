----------------------------- MODULE MCOdlParse -----------------------------
(***************************************************************************)
(* Instances of the parser for TLC.                                        *)
(***************************************************************************)
EXTENDS OdlParse

Call(label, message, ignore) ==
  [label |-> label, message |-> message, ignore_missing_end |-> ignore]

\* The calls of OdlParseLabelFptr and of OdlParseLabelFile, of a file that is
\* not there, and of OdlExpandLabelFile, which has opened what it includes.
MCCalls == {Call("passed", "stdout", FALSE), Call("named", "named", FALSE),
            Call("unreadable", "named", FALSE), Call("passed", "named", TRUE)}

\* One line for each way to begin, carry on or end a statement.
MCLines == AllLines \ {"end_object_of", "key_list", "key_quote", "object_is", "word"}

\* A statement over several lines takes three, and an object two more.
MCMaxLines == 5
=============================================================================
