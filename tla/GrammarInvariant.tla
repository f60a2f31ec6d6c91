-------------------------- MODULE GrammarInvariant --------------------------
(***************************************************************************)
(* The parser keeps step with every grammatical line that begins with the  *)
(* tokens it has read: the inductive invariant behind ParserMeetsGrammar.  *)
(* It is written like the grammar, by positions on the line.               *)
(***************************************************************************)
EXTENDS CommandLineInvariant

(* The i-th list, and the j-th pipeline of it, and the commands of that. *)
ListAt(l, i) == G!Lists(l)[i]
PipelinesAt(l, i) == G!Pipelines(l, ListAt(l, i))
CommandsAt(l, i, j) == G!Commands(l, PipelinesAt(l, i)[j])

(* root has the trees of the first i lists, and of those between two       *)
(* separators nothing.                                                     *)
FullLists(l, i) == {x \in 1 .. i : ~G!Empty(ListAt(l, x))}

ListsParsed(l, i) ==
  LET full == G!InOrder(FullLists(l, i))
  IN  root = seq_node_t([k \in DOMAIN full |-> G!ListTree(l, ListAt(l, full[k]))])

(* The parser is in the i-th list, and in the j-th pipeline of it: what is *)
(* before is in root and left.                                             *)
InList(l, i) ==
  /\ i \in DOMAIN G!Lists(l)
  /\ ~G!Empty(ListAt(l, i))
  /\ ListsParsed(l, i - 1)

InPipeline(l, i, j) ==
  /\ InList(l, i)
  /\ j \in DOMAIN PipelinesAt(l, i)
  /\ IF j = 1 THEN left = NoNode /\ op = "none"
     ELSE /\ left = G!FirstPipelines(l, ListAt(l, i))[j - 1]
          /\ op = l[PipelinesAt(l, i)[j].from - 1]

(* The first k commands of it are in pipe. *)
CommandsParsed(l, i, j, k) ==
  pipe = [c \in 1 .. k |-> G!CommandTree(l, CommandsAt(l, i, j)[c])]

(* The parser is in command c: it has had nothing but arguments, *)
InArguments(l, c) ==
  /\ \A x \in c.from .. Len(line) - 1 : l[x] = "word"
  /\ command = [argv_parts |-> G!InOrder(c.from .. Len(line) - 1), redir |-> <<>>]

(* or a redirection; no word is at hand that is neither. *)
InRedirections(l, c) ==
  /\ \E x \in c.from .. Len(line) - 1 : l[x] # "word"
  /\ at = "target" <=> l[Len(line) - 1] = "redir"
  /\ command = [argv_parts |-> G!InOrder(G!Arguments(l, c)),
                redir |-> G!InOrder({x \in G!Targets(l, c) : x < Len(line)})]

InCommandAt(l, c) ==
  /\ at = "command" => Len(line) = c.from
  /\ at # "command" => Len(line) \in c.from + 1 .. c.to + 1
  /\ at = "arguments" => InArguments(l, c)
  /\ at \in {"redirections", "target"} => InRedirections(l, c)

(* Where the parser is on l, by the function that it is in. *)
StepInCommand(l) ==
  \E i \in DOMAIN G!Lists(l) : \E j \in DOMAIN PipelinesAt(l, i) : \E k \in DOMAIN CommandsAt(l, i, j) :
    /\ InPipeline(l, i, j)
    /\ CommandsParsed(l, i, j, k - 1)
    /\ InCommandAt(l, CommandsAt(l, i, j)[k])

StepInPipeline(l) ==
  \E i \in DOMAIN G!Lists(l) : \E j \in DOMAIN PipelinesAt(l, i) : \E k \in DOMAIN CommandsAt(l, i, j) :
    /\ InPipeline(l, i, j)
    /\ CommandsParsed(l, i, j, k)
    /\ Len(line) = CommandsAt(l, i, j)[k].to + 1

StepInConditional(l) ==
  \E i \in DOMAIN G!Lists(l) : \E j \in DOMAIN PipelinesAt(l, i) :
    /\ InList(l, i)
    /\ left = G!FirstPipelines(l, ListAt(l, i))[j]
    /\ Len(line) = PipelinesAt(l, i)[j].to + 1

StepInSeparators(l) ==
  /\ Len(line) > 1
  /\ \E i \in DOMAIN G!Lists(l) :
       \/ Len(line) = ListAt(l, i).to + 1 /\ ListsParsed(l, i)
       \/ Len(line) = ListAt(l, i).from /\ ListsParsed(l, i - 1)

(* The end that has been read is that of l. *)
Whole(l) == g_tok = "eof" => l = line

InStep(l) ==
  /\ at \in {"command"} \cup InCommand => StepInCommand(l)
  /\ at = "pipeline" /\ Whole(l) => StepInPipeline(l)
  /\ at = "conditional" /\ Whole(l) => StepInConditional(l)
  /\ at = "separators" /\ Whole(l) => StepInSeparators(l)
  /\ at = "parsed" => g_tok = "eof" /\ (l = line => root = G!Tree(l))
  /\ ~(at = "exit" /\ stack = <<>>)

(* l begins with the tokens that have been read. *)
Continues(l) == Len(l) >= Len(line) /\ \A x \in DOMAIN line : l[x] = line[x]

GrammarInv ==
  \A l \in Seq(token_type_e) : Continues(l) /\ G!Grammatical(l) => InStep(l)
=============================================================================
