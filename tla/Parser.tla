------------------------------- MODULE Parser -------------------------------
(***************************************************************************)
(* parser/parser.c: recursive descent over tokens that the lexer gives out *)
(* one by one.  The functions do not call themselves, so that the C stack  *)
(* is one set of locals for each of them; a step is one round of a loop,   *)
(* or what a function does between its loops.  The lexer may return any    *)
(* token, for there is a line with any tokens.                             *)
(*                                                                         *)
(* Left out: raw_str, the text of a command.                               *)
(***************************************************************************)
EXTENDS Syntax

CONSTANT MaxTokens  \* bound: the line ends after that many tokens

VARIABLES
  line,     \* the tokens the lexer has returned: the last one is g_tok
  at,       \* where the shell is
  command,  \* parse_command: argv_parts and redir so far
  pipe,     \* parse_pipeline: node->pipe.nodes
  left, op, \* parse_conditional: left, and op or "none"
  root      \* parser_create_ast: root_node

parser_vars == <<line, at, command, pipe, left, op, root>>

g_tok == Last(line)

ParserPlaces == {"command", "arguments", "redirections", "target", "pipeline",
                 "conditional", "separators"}

no_arguments == [argv_parts |-> <<>>, redir |-> <<>>]

ParserIdle ==
  /\ command = no_arguments
  /\ pipe = <<>>
  /\ left = NoNode
  /\ op = "none"

ParserInit ==
  /\ line = <<>>
  /\ at = "prompt"
  /\ root = NoNode
  /\ ParserIdle

next_token ==
  \E t \in TokensAfter(line) :
    /\ Len(line) >= MaxTokens => t = "eof" \/ g_tok = "fd"
    /\ line' = Append(line, t)

Goto(place) == at' = place

-----------------------------------------------------------------------------
(* parser_create_ast: the first token. *)
EmptyLine ==
  /\ at = "prompt"
  /\ line' = <<"eof">>
  /\ Goto("parsed")
  /\ UNCHANGED <<command, pipe, left, op, root>>

StartLine ==
  /\ at = "prompt"
  /\ next_token
  /\ line' # <<"eof">>
  /\ root' = seq_node_t(<<>>)
  /\ Goto("command")
  /\ UNCHANGED <<command, pipe, left, op>>

-----------------------------------------------------------------------------
(* parse_command *)

(* A round of parse_arguments.  After a redirection words are no longer    *)
(* taken for arguments.                                                    *)
ParseArgument ==
  /\ at \in {"command", "arguments"}
  /\ g_tok = "word"
  /\ command' = [command EXCEPT !.argv_parts = Append(@, Len(line))]
  /\ next_token
  /\ Goto("arguments")
  /\ UNCHANGED <<pipe, left, op, root>>

(* parse_redirection: a descriptor, then the operator.  The lexer returns  *)
(* a descriptor only before an operator, so that the error "Unexpected     *)
(* token type" cannot happen.                                              *)
ParseDescriptor ==
  /\ at \in {"arguments", "redirections"}
  /\ g_tok = "fd"
  /\ next_token
  /\ Goto("redirections")
  /\ UNCHANGED <<command, pipe, left, op, root>>

ParseOperator ==
  /\ at \in {"arguments", "redirections"}
  /\ g_tok = "redir"
  /\ next_token
  /\ Goto("target")
  /\ UNCHANGED <<command, pipe, left, op, root>>

ParseTarget ==
  /\ at = "target"
  /\ g_tok = "word"
  /\ command' = [command EXCEPT !.redir = Append(@, Len(line))]
  /\ next_token
  /\ Goto("redirections")
  /\ UNCHANGED <<pipe, left, op, root>>

(* exit(EXIT_FAILURE) *)
MissingTarget ==
  /\ at = "target"
  /\ g_tok # "word"
  /\ Goto("exit")
  /\ UNCHANGED <<line, command, pipe, left, op, root>>

is_bg_Always == g_tok \in {"bg", "semi"}
is_bg == g_tok = "bg"

EndCommand ==
  /\ at \in {"arguments", "redirections"}
  /\ g_tok \notin {"fd", "redir"}
  /\ at = "arguments" => g_tok # "word"
  /\ pipe' = Append(pipe, cmd_node_t(command.argv_parts, command.redir, is_bg))
  /\ command' = no_arguments
  /\ Goto("pipeline")
  /\ UNCHANGED <<line, left, op, root>>

-----------------------------------------------------------------------------
(* parse_pipeline *)

(* The first command of a pipeline may be NULL, a later one may not. *)
NoFirstCommand ==
  /\ at = "command"
  /\ g_tok # "word"
  /\ pipe = <<>>
  /\ pipe' = <<NoNode>>
  /\ Goto("pipeline")
  /\ UNCHANGED <<line, command, left, op, root>>

(* exit(EXIT_FAILURE) *)
NoLaterCommand ==
  /\ at = "command"
  /\ g_tok # "word"
  /\ pipe # <<>>
  /\ Goto("exit")
  /\ UNCHANGED <<line, command, pipe, left, op, root>>

ParsePipe ==
  /\ at = "pipeline"
  /\ g_tok = "pipe"
  /\ next_token
  /\ Goto("command")
  /\ UNCHANGED <<command, pipe, left, op, root>>

(* What parse_pipeline returns. *)
pipeline_Always == pipe_node_t(pipe)
pipeline == IF Len(pipe) = 1 THEN pipe[1] ELSE pipe_node_t(pipe)

(* parse_conditional takes the pipeline for its left side, or its next     *)
(* right side.                                                             *)
joined_RightFirst == IF op = "none" THEN pipeline ELSE cond_node_t(pipeline, op, left)
joined == IF op = "none" THEN pipeline ELSE cond_node_t(left, op, pipeline)

EndPipeline ==
  /\ at = "pipeline"
  /\ g_tok # "pipe"
  /\ left' = joined
  /\ op' = "none"
  /\ pipe' = <<>>
  /\ Goto("conditional")
  /\ UNCHANGED <<line, command, root>>

ParseAndOr ==
  /\ at = "conditional"
  /\ g_tok \in {"and", "or"}
  /\ op' = g_tok
  /\ next_token
  /\ Goto("command")
  /\ UNCHANGED <<command, pipe, left, root>>

-----------------------------------------------------------------------------
(* parser_create_ast: the loop *)
EndConditional ==
  /\ at = "conditional"
  /\ g_tok \notin {"and", "or"}
  /\ left # NoNode
  /\ root' = [root EXCEPT !.nodes = Append(@, left)]
  /\ left' = NoNode
  /\ Goto("separators")
  /\ UNCHANGED <<line, command, pipe, op>>

(* Whatever follows on the line is dropped. *)
NothingParsed_Retried ==
  /\ Goto("command")
  /\ UNCHANGED <<line, command, pipe, left, op, root>>

NothingParsed ==
  /\ Goto("parsed")
  /\ UNCHANGED <<line, command, pipe, left, op, root>>

EndOfCommands ==
  /\ at = "conditional"
  /\ g_tok \notin {"and", "or"}
  /\ left = NoNode
  /\ NothingParsed

separator_Single(t) == t = "semi"
separator(t) == t \in {"semi", "bg"}

ParseSeparator ==
  /\ at = "separators"
  /\ separator(g_tok)
  /\ next_token
  /\ UNCHANGED <<at, command, pipe, left, op, root>>

EndOfSeparators ==
  /\ at = "separators"
  /\ ~separator(g_tok)
  /\ Goto(IF g_tok = "eof" THEN "parsed" ELSE "command")
  /\ UNCHANGED <<line, command, pipe, left, op, root>>

ParserStep ==
  \/ ParseArgument \/ ParseDescriptor \/ ParseOperator \/ ParseTarget
  \/ MissingTarget \/ EndCommand
  \/ NoFirstCommand \/ NoLaterCommand \/ ParsePipe \/ EndPipeline
  \/ ParseAndOr \/ EndConditional \/ EndOfCommands
  \/ ParseSeparator \/ EndOfSeparators
=============================================================================
