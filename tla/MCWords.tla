------------------------------ MODULE MCWords ------------------------------
(***************************************************************************)
(* Values for TLC: all lines of three characters, and lines of five from   *)
(* the characters that have to do with each other.                         *)
(***************************************************************************)
EXTENDS WordsProperties

LinesOf(chars, length) == UNION {[1 .. l -> chars] : l \in 1 .. length}

SomeLines ==
  LinesOf(Chars, 3)
    \cup LinesOf({"n", " ", "'", "\"", "$"}, 5)
    \cup LinesOf({"n", " ", "\\", "$", "\""}, 5)
    \cup LinesOf({"n", " ", "\\", "[", "]", "'"}, 4)
    \cup LinesOf({"1", "-", ">", "|", " "}, 5)
    \cup LinesOf({"$", "{", "}", "n", "?"}, 5)
    \cup LinesOf({"n", "*", "'", "~"}, 5)
    \cup LinesOf({"n", "1", "~", ">"}, 4)

(* $n is a pattern, $nn is not set. *)
SomeVariables == [name \in {<<"n">>} |-> <<"n", "*">>]
SpecialValues == [c \in is_special_parameter_char |-> IF c = "-" THEN <<"n">> ELSE <<"1">>]
SomeHomes == [name \in {<<>>, <<"n">>} |-> <<"n">>]
SomeFiles == {<<"n">>, <<"n", "n">>, <<"1">>}
=============================================================================
