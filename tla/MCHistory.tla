------------------------------ MODULE MCHistory ------------------------------
(***************************************************************************)
(* Values for TLC.  Commands other than history -c are interchangeable.    *)
(***************************************************************************)
EXTENDS History, TLC

CONSTANTS a, b, c, clr

SomeCommands == {a, b, c, clr}
AnyCommand == Permutations({a, b, c})
=============================================================================
