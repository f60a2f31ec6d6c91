------------------------------ MODULE Expander ------------------------------
(***************************************************************************)
(* The expander (expander/pipeline.c, expander.c): from the parts of the   *)
(* words of a command to its arguments, word by word, and to the targets   *)
(* of its redirections.                                                    *)
(***************************************************************************)
EXTENDS Integers, FiniteSets, SequencesExt

CONSTANTS
  environment,  \* the variables of the shell: a function of names
  special,      \* what $?, $$ and $- stand for: a function of characters
  home,         \* the home directories: a function of names, <<>> the user's
  Files         \* the names in the current directory

ASSUME ExpanderAssumption ==
  IsFiniteSet(Files) /\ \A name \in Files : name \in Seq(Range(name))

VARIABLES
  node,      \* what is left to expand: [argv_parts, redir, invalid]
  argv,      \* the arguments so far, NULL as <<>>
  targets    \* r->target of the redirections so far

expandVars == <<node, argv, targets>>

no_node == [argv_parts |-> <<>>, redir |-> <<>>, invalid |-> FALSE]

ExpandInit ==
  /\ node = no_node
  /\ argv = <<>>
  /\ targets = <<>>

literal(value) == [type |-> "literal", value |-> value]

-----------------------------------------------------------------------------
(* The passes over the parts of a word *)

shell_state_getenv(key) == IF key \in DOMAIN environment THEN environment[key] ELSE <<>>

(* A name that cannot be one is kept as it is. *)
expand_params_in_string(value) ==
  IF value[1] \in DOMAIN special THEN special[value[1]]
  ELSE IF value[1] = "n" THEN shell_state_getenv(value)
  ELSE value

pass_expand_params(word) ==
  [i \in DOMAIN word |->
    IF word[i].type = "variable" THEN literal(expand_params_in_string(word[i].value))
    ELSE word[i]]

(* -1: a user who is not known, or no HOME. *)
pass_expand_tilde_Fails(word) ==
  \E i \in DOMAIN word : word[i].type = "tilde" /\ Tail(word[i].value) \notin DOMAIN home

pass_expand_tilde(word) ==
  [i \in DOMAIN word |->
    IF word[i].type = "tilde" THEN literal(home[Tail(word[i].value)]) ELSE word[i]]

build_str_from_parts(word) == FlattenSeq([i \in DOMAIN word |-> word[i].value])

-----------------------------------------------------------------------------
(* glob(3) (external): whether a pattern matches a name. *)

(* [n1] at place i of the pattern, with something in it and a bracket that *)
(* closes it.                                                              *)
BracketEnds(pattern, i) == {k \in i + 2 .. Len(pattern) : pattern[k] = "]"}
IsBracket(pattern, i) == pattern[i] = "[" /\ BracketEnds(pattern, i) # {}

(* The characters one element of a pattern takes, and where the next begins. *)
element(pattern, i) ==
  CASE pattern[i] = "\\" /\ i < Len(pattern) -> [chars |-> {pattern[i + 1]}, next |-> i + 2]
    [] IsBracket(pattern, i) ->
         LET k == Min(BracketEnds(pattern, i))
         IN  [chars |-> {pattern[l] : l \in i + 1 .. k - 1}, next |-> k + 1]
    [] OTHER -> [chars |-> {pattern[i]}, next |-> i + 1]

(* Where in a name the rest of the pattern, from its place i on, matches    *)
(* the rest of the name.                                                   *)
glob_matches(pattern, name) ==
  LET match[i \in 1 .. Len(pattern) + 1] ==
        IF i > Len(pattern) THEN {Len(name) + 1}
        ELSE IF pattern[i] = "*"
             THEN {j \in 1 .. Len(name) + 1 : \E k \in match[i + 1] : j <= k}
        ELSE LET e == element(pattern, i)
             IN  {j \in 1 .. Len(name) :
                    (pattern[i] = "?" \/ name[j] \in e.chars) /\ j + 1 \in match[e.next]}
  IN  1 \in match[1]

matches(pattern) == {name \in Files : name # <<>> /\ glob_matches(pattern, name)}

-----------------------------------------------------------------------------
(* What a word without tilde errors becomes: a single literal is kept, all *)
(* else is a pattern, and none of its matches is missing.                  *)
pass_glob(pattern) == SetToSeq(matches(pattern))

single_literal(word) == Len(word) = 1 /\ word[1].type = "literal"

argv_entry_AlwaysGlob(word) ==
  pass_glob(build_str_from_parts(pass_expand_tilde(pass_expand_params(word))))

argv_entry(word) ==
  LET parts == pass_expand_tilde(pass_expand_params(word))
  IN  IF single_literal(parts) THEN <<parts[1].value>>
      ELSE pass_glob(build_str_from_parts(parts))

(* One round of expand_argv_parts. *)
word_fails_OnlyTilde(word) == pass_expand_tilde_Fails(word)
word_fails(word) == pass_expand_tilde_Fails(word) \/ argv_entry(word) = <<>>

ExpandWord ==
  LET word == Head(node.argv_parts)
      failed == word_fails(word)
  IN  /\ node.argv_parts # <<>>
      /\ IF failed
         THEN /\ argv' = <<>>
              /\ node' = [node EXCEPT !.argv_parts = <<>>, !.invalid = TRUE]
         ELSE /\ argv' = argv \o argv_entry(word)
              /\ node' = [node EXCEPT !.argv_parts = Tail(@)]
      /\ UNCHANGED targets

(* expand_redirection_target, of one redirection; NULL is <<>>.            *)
ExpandTarget ==
  LET word == Head(node.redir)
      failed == pass_expand_tilde_Fails(word)
  IN  /\ node.argv_parts = <<>>
      /\ node.redir # <<>>
      /\ targets' = Append(targets,
           IF failed THEN <<>>
           ELSE build_str_from_parts(pass_expand_tilde(pass_expand_params(word))))
      /\ node' = [node EXCEPT !.redir = Tail(@), !.invalid = (@ \/ failed)]
      /\ UNCHANGED argv

expander_expand_cmd == ExpandWord \/ ExpandTarget
=============================================================================
