------------------------------- MODULE Words -------------------------------
(***************************************************************************)
(* From a line to the arguments of its first command: the lexer, what the  *)
(* parser hands on of a command, and the expander.                         *)
(***************************************************************************)
EXTENDS Lexer, Expander

vars == <<lexVars, expandVars>>

Init == LexInit /\ ExpandInit

(* The words a command begins with (parse_arguments). *)
FirstWords(toks) ==
  SubSeq(toks, 1, Min({i \in DOMAIN toks : toks[i].type # "word"}) - 1)

AfterWords == SubSeq(tokens, Len(FirstWords(tokens)) + 1, Len(tokens))

(* Its redirections, each an operator, perhaps with a number, and a word.  *)
operator_at(toks, i) == IF toks[i].type = "fd" THEN i + 1 ELSE i

parse_redirection(toks) ==
  LET redir[i \in 1 .. Len(toks)] ==
        LET op == operator_at(toks, i)
        IN  IF toks[op].type # "redir" THEN <<>>
            ELSE <<toks[op + 1].parts>> \o redir[op + 2]
  IN  redir[1]

(* A number without an operator, or an operator without a word.            *)
is_malformed(toks) ==
  LET bad[i \in 1 .. Len(toks)] ==
        LET op == operator_at(toks, i)
        IN  IF toks[op].type # "redir" THEN toks[i].type = "fd"
            ELSE toks[op + 1].type = "word" => bad[op + 2]
  IN  bad[1]

(* The command that parse_command makes of the first tokens.  Nothing      *)
(* initialises invalid of the node.                                        *)
parse_command ==
  LET words == FirstWords(tokens)
  IN  /\ phase = "parsed"
      /\ words # <<>>
      /\ ~is_malformed(AfterWords)
      /\ \E garbage \in BOOLEAN :
           node' = [argv_parts |-> [i \in DOMAIN words |-> words[i].parts],
                    redir |-> parse_redirection(AfterWords), invalid |-> garbage]
      /\ phase' = "expand"
      /\ UNCHANGED <<input, pos, quote_ctx, start, parts, tokens, argv, targets>>

(* parse_redirection exits the shell. *)
MalformedRedirection ==
  /\ phase = "parsed"
  /\ FirstWords(tokens) # <<>>
  /\ is_malformed(AfterWords)
  /\ phase' = "exited"
  /\ UNCHANGED <<input, pos, quote_ctx, start, parts, tokens, expandVars>>

Expands ==
  /\ phase = "expand"
  /\ expander_expand_cmd
  /\ UNCHANGED lexVars

(* The command is complete. *)
Done == phase = "expand" /\ node.argv_parts = <<>> /\ node.redir = <<>>

Next ==
  \/ LexNext /\ UNCHANGED expandVars
  \/ parse_command
  \/ MalformedRedirection
  \/ Expands

Spec == Init /\ [][Next]_vars

(* readline may never return, but the shell gets on with what it has read. *)
FairSpec == Spec /\ WF_vars(phase # "prompt" /\ Next)
=============================================================================
