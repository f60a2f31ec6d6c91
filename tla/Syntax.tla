------------------------------- MODULE Syntax -------------------------------
(***************************************************************************)
(* Tokens (lexer/lexer.h) and the nodes of the syntax tree                 *)
(* (parser/parser.h).  A word is its place on the line, counted in tokens; *)
(* the three redirection operators are one kind of token.                  *)
(***************************************************************************)
EXTENDS Integers, Sequences, SequencesExt

token_type_e == {"word", "fd", "redir", "pipe", "and", "or", "semi", "bg", "eof"}

(* TOK_FD is a number with a redirection right behind it. *)
TokensAfter(line) ==
  IF line = <<>> THEN token_type_e
  ELSE CASE Last(line) = "fd" -> {"redir"}
         [] Last(line) = "eof" -> {"eof"}
         [] OTHER -> token_type_e

(* NULL *)
NoNode == [type |-> "null"]

cmd_node_t(argv_parts, redir, is_bg) ==
  [type |-> "cmd", argv_parts |-> argv_parts, redir |-> redir, is_bg |-> is_bg]

pipe_node_t(nodes) == [type |-> "pipeline", nodes |-> nodes]

cond_node_t(left, op, right) ==
  [type |-> "conditional", left |-> left, op |-> op, right |-> right]

seq_node_t(nodes) == [type |-> "sequence", nodes |-> nodes]

IsCommand(node) == node.type = "cmd"
IsPipeline(node) == node.type = "pipeline"
IsConditional(node) == node.type = "conditional"
IsSequence(node) == node.type = "sequence"
=============================================================================
