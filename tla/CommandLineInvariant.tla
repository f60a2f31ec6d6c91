------------------------ MODULE CommandLineInvariant ------------------------
(***************************************************************************)
(* What the parser and exec_node know while they are at work on a line:    *)
(* the inductive invariants of CommandLine.                                *)
(***************************************************************************)
EXTENDS CommandLineProperties

CommandNodes ==
  [type : {"cmd"}, argv_parts : Seq(Nat) \ {<<>>}, redir : Seq(Nat), is_bg : BOOLEAN]

PipelineNodes == [type : {"pipeline"}, nodes : Seq(CommandNodes \cup {NoNode})]

(* Only the first command of a pipeline may be missing.                    *)
OneMissing(nodes) == \A i \in DOMAIN nodes : i # 1 => nodes[i] \in CommandNodes

JobNodes ==
  CommandNodes \cup {n \in PipelineNodes : Len(n.nodes) > 1 /\ OneMissing(n.nodes)}

ListItem == [op : {"none", "and", "or"}, job : JobNodes \cup {NoNode}]

(* In a tree that is a list each conditional has a job to its right and    *)
(* a list to its left.                                                     *)
IsList(n) ==
  /\ ListItems(n) \in Seq(ListItem)
  /\ \A i \in DOMAIN ListItems(n) : ListItems(n)[i].op = "none" <=> i = 1

IsTree(n) ==
  /\ n = seq_node_t(n.nodes)
  /\ n.nodes \in Seq(Range(n.nodes))
  /\ \A i \in DOMAIN n.nodes : n.nodes[i] # NoNode /\ IsList(n.nodes[i])

-----------------------------------------------------------------------------
(* The parser *)

InCommand == {"arguments", "redirections", "target"}
BetweenLines == {"prompt", "parsed", "exec_node"}

LocalsOK ==
  /\ at \in ParserPlaces \cup {"prompt", "parsed", "exec_node", "exit"}
  /\ line \in Seq(token_type_e)
  /\ at \in ParserPlaces \cup {"parsed"} => line # <<>>
  /\ at = "prompt" => line = <<>>
  /\ command \in [argv_parts : Seq(Nat), redir : Seq(Nat)]
  /\ pipe \in Seq(CommandNodes \cup {NoNode}) /\ OneMissing(pipe)
  /\ IsList(left)
  /\ op \in {"none", "and", "or"}
  /\ root = NoNode \/ IsTree(root)

(* Which of the locals are in use where.                                   *)
PlacesOK ==
  /\ at \in InCommand => command.argv_parts # <<>>
  /\ at = "arguments" => command.redir = <<>>
  /\ at \notin InCommand \cup {"exit"} => command = no_arguments
  /\ at = "pipeline" => pipe # <<>>
  /\ at \in BetweenLines \cup {"conditional", "separators"} => pipe = <<>> /\ op = "none"
  /\ at \in BetweenLines \cup {"separators"} => left = NoNode
  /\ at # "conditional" /\ op = "none" => left = NoNode
  /\ at \in ParserPlaces => root # NoNode
  /\ at = "prompt" => root = NoNode

(* A list has not more operators than the line has had tokens.             *)
LengthOK ==
  /\ at \in ParserPlaces /\ Len(line) > MaxTokens => g_tok \in {"eof", "redir"}
  /\ at \in ParserPlaces =>
       Len(ListItems(left)) + (IF op = "none" THEN 0 ELSE 1) \in 1 .. Len(line)
  /\ Len(ListItems(left)) + (IF op = "none" THEN 0 ELSE 1) <= MaxTokens + 1

ParserInv == LocalsOK /\ PlacesOK /\ LengthOK

-----------------------------------------------------------------------------
(* The words that have been taken off the line.                            *)
InOrder(words, tokens, n) ==
  /\ words \in Seq(Nat)
  /\ Range(words) = {i \in 1 .. n : tokens[i] = "word"}
  /\ \A i, j \in DOMAIN words : i < j => words[i] < words[j]

PipeWords(nodes) == FlattenSeq([i \in DOMAIN nodes |-> CommandWords(nodes[i])])

Taken == ((Words(root) \o ListWords(left)) \o PipeWords(pipe)) \o (command.argv_parts \o command.redir)

WordsInv ==
  /\ at \in ParserPlaces => InOrder(Taken, line, Len(line) - 1)
  /\ at = "parsed" => InOrder(Words(root), line, Len(line))
  /\ at = "pipeline" /\ pipe = <<NoNode>> => g_tok # "word"
  /\ at = "conditional" /\ left = NoNode => g_tok # "word"

-----------------------------------------------------------------------------
(* Where & has been read.                                                  *)
InBackground(job) == job # NoNode /\ IsBackground(job)

EndsAt(words, n) == words # <<>> /\ Last(words) = n

(* & is the next token behind the last word of a command with one.         *)
CommandBackground ==
  /\ at = "arguments" => EndsAt(command.argv_parts, Len(line) - 1)
  /\ at = "redirections" =>
       \/ g_tok = "redir"
       \/ EndsAt(command.argv_parts \o command.redir, Len(line) - 1)
  /\ at = "pipeline" /\ Last(pipe) # NoNode =>
       /\ Last(pipe).is_bg = (g_tok = "bg")
       /\ EndsAt(CommandWords(Last(pipe)), Len(line) - 1)

(* & is behind the last word of a job if the job is in the background, and *)
(* only then.                                                              *)
MarkedOn(l, job) ==
  \E n \in 0 .. Len(l) - 1 :
    EndsAt(JobWords(job), n) /\ (InBackground(job) <=> l[n + 1] = "bg")

(* Of a list that is being parsed only the last job can be in the          *)
(* background, and then & is the next token.                               *)
ListBackground ==
  at # "exit" =>
    \A i \in DOMAIN ListItems(left) :
      LET job == ListItems(left)[i].job IN
      job # NoNode =>
        /\ MarkedOn(line, job)
        /\ InBackground(job) => at = "conditional" /\ i = Len(ListItems(left)) /\ g_tok = "bg"

(* In the tree a job in the background ends its list.                      *)
TreeBackground ==
  at \in ParserPlaces \cup {"parsed"} =>
    LET items == Items(root) IN
    \A i \in DOMAIN items :
      items[i].job # NoNode =>
        /\ MarkedOn(line, items[i].job)
        /\ InBackground(items[i].job) /\ i < Len(items) => items[i + 1].op = "none"

BackgroundInv == CommandBackground /\ ListBackground /\ TreeBackground

-----------------------------------------------------------------------------
(* The calls of exec_node *)

Calls(caller, called) ==
  \/ /\ IsSequence(caller.node)
     /\ caller.pc \in 1 .. Len(caller.node.nodes)
     /\ called.node = caller.node.nodes[caller.pc]
  \/ /\ IsConditional(caller.node)
     /\ caller.pc = 1
     /\ called.node = caller.node.left
  \/ /\ IsConditional(caller.node)
     /\ caller.pc = 2
     /\ called.node = caller.node.right
     /\ called.pc = 0

(* The first call is for the root; all others are for lists.               *)
FramesOK(frames) ==
  /\ frames \in Seq(Range(frames))
  /\ \A i \in DOMAIN frames :
       /\ i = Len(frames) =>
            /\ frames[i].node = root
            /\ frames[i].pc \in IF root = NoNode THEN {0} ELSE 0 .. Len(root.nodes)
       /\ i < Len(frames) =>
            /\ IsList(frames[i].node)
            /\ frames[i].pc \in IF IsConditional(frames[i].node) THEN 0 .. 2 ELSE {0}
            /\ Calls(frames[i + 1], frames[i])

StackInv ==
  /\ FramesOK(stack)
  /\ at \notin {"exec_node", "exit"} => stack = <<>> /\ ran = <<>> /\ status = 0
  /\ Len(stack) = 1 /\ stack[1].pc = 0 => ran = <<>>
  /\ Len(stack) > 1 /\ IsConditional(stack[2].node) /\ stack[2].pc = 2 => GoesOn(stack[2].node)
  /\ status \in ExitCodes \cup {0, JOB_STOPPED_EXIT_CODE, -1}
  /\ outcome \in {"none", "started", "ok", "failed", "stopped"}
  /\ ran \in Seq(JobNodes)
=============================================================================
