----------------------- MODULE CommandLineProperties -----------------------
(***************************************************************************)
(* What parsing and executing a line must guarantee.                       *)
(***************************************************************************)
EXTENDS CommandLine

G == INSTANCE Grammar

(* A list as AndOrLists knows it.  Conditionals lean to the left: the last *)
(* item is the first to be read off the tree, and what is left of it has   *)
(* one operator less.                                                      *)
ListItems(n) ==
  LET read[k \in 0 .. MaxTokens] ==
        IF k = 0 THEN {[left |-> n, items |-> <<>>]}
        ELSE {IF IsConditional(r.left)
              THEN [left |-> r.left.left,
                    items |-> <<[op |-> r.left.op, job |-> r.left.right]>> \o r.items]
              ELSE r : r \in read[k - 1]}
      r == CHOOSE r \in read[MaxTokens] : TRUE
  IN  <<[op |-> "none", job |-> r.left]>> \o r.items

(* The lists of a tree, from left to right. *)
Items(n) ==
  IF IsSequence(n) THEN FlattenSeq([i \in DOMAIN n.nodes |-> ListItems(n.nodes[i])])
  ELSE ListItems(n)

(* The words of a job, a list and a tree, from left to right. *)
CommandWords(n) == IF n = NoNode THEN <<>> ELSE n.argv_parts \o n.redir

JobWords(n) ==
  IF IsPipeline(n) THEN FlattenSeq([i \in DOMAIN n.nodes |-> CommandWords(n.nodes[i])])
  ELSE CommandWords(n)

ListWords(n) ==
  LET items == ListItems(n)
  IN  FlattenSeq([i \in DOMAIN items |-> JobWords(items[i].job)])

Words(n) ==
  IF IsSequence(n) THEN FlattenSeq([i \in DOMAIN n.nodes |-> ListWords(n.nodes[i])])
  ELSE ListWords(n)

-----------------------------------------------------------------------------
(* The tree that is being built.  A pipeline has at least two commands, of *)
(* which only the first may be missing; a sequence has no missing nodes.   *)
IsJobNode(n) ==
  \/ IsCommand(n) /\ n.argv_parts # <<>> /\ n.is_bg \in BOOLEAN
  \/ /\ IsPipeline(n)
     /\ Len(n.nodes) > 1
     /\ \A i \in DOMAIN n.nodes :
          IsCommand(n.nodes[i]) \/ (i = 1 /\ n.nodes[i] = NoNode)

IsListNode(n) ==
  \A item \in Range(ListItems(n)) :
    /\ item.op \in {"none", "and", "or"}
    /\ item.job = NoNode \/ IsJobNode(item.job)

(* Type correctness of the locals of the parser and of the calls of        *)
(* exec_node; a status is an exit code, the code of a stopped job, or -1.  *)
CommandLineTypeOK ==
  /\ at \in ParserPlaces \cup {"prompt", "parsed", "exec_node", "exit"}
  /\ line \in Seq(token_type_e)
  /\ root # NoNode =>
       /\ IsSequence(root)
       /\ \A i \in DOMAIN root.nodes :
            root.nodes[i] # NoNode /\ IsListNode(root.nodes[i])
  /\ IsListNode(left)
  /\ op \in {"none", "and", "or"}
  /\ status \in ExitCodes \cup {0, JOB_STOPPED_EXIT_CODE, -1}
  /\ \A i \in DOMAIN ran : IsJobNode(ran[i])
  /\ outcome \in {"none", "started", "ok", "failed", "stopped"}

(* The parser builds the tree of the grammar for each grammatical line, and *)
(* reads all of it; it gives up, by dropping the rest of the line or by     *)
(* ending the shell, only where the line cannot become grammatical.         *)
ParserMeetsGrammar ==
  /\ at = "parsed" =>
       IF g_tok = "eof" THEN G!Grammatical(line) => root = G!Tree(line)
                        ELSE ~G!Viable(line)
  /\ at = "exit" /\ stack = <<>> => ~G!Viable(line)

(* Whatever the line, grammatical or not: each word that was read is in the *)
(* tree once, and they are in their order.  (Neither the NULLs nor words    *)
(* after a redirection, which start a new command, lose or repeat one.)     *)
WordsInOrder ==
  at = "parsed" =>
    LET words == Words(root) IN
    /\ Range(words) = {i \in DOMAIN line : line[i] = "word"}
    /\ \A i, j \in DOMAIN words : i < j => words[i] < words[j]

(* A job is in the background exactly if & follows its last word on the     *)
(* line, and then it is the last job of its list: none waits for how it     *)
(* ends.                                                                    *)
BackgroundEndsList ==
  at = "parsed" =>
    LET items == Items(root) IN
    \A i \in DOMAIN items :
      LET job == items[i].job IN
      job # NoNode =>
        /\ IsBackground(job) <=> line[Last(JobWords(job)) + 1] = "bg"
        /\ IsBackground(job) /\ i < Len(items) => items[i + 1].op = "none"

(* What is left of a call, the next one on the stack still being what is   *)
(* left of the right side of a conditional.                                *)
IsRight(frames, i) ==
  i < Len(frames) /\ IsConditional(frames[i + 1].node) /\ frames[i + 1].pc = 2

RightItem(n) == <<[op |-> n.op, job |-> n.right]>>

ItemsLeft(frames, i) ==
  LET n == frames[i].node
      p == frames[i].pc
  IN  CASE p = 0 /\ IsRight(frames, i)   -> RightItem(frames[i + 1].node)
        [] p = 0 /\ ~IsRight(frames, i)  -> Items(n)
        [] p > 0 /\ IsSequence(n)        -> Items(seq_node_t(SubSeq(n.nodes, p + 1, Len(n.nodes))))
        [] p = 1 /\ IsConditional(n)     -> RightItem(n)
        [] p = 2 /\ IsConditional(n)     -> <<>>

(* exec_node gives && and || their meaning, whatever the uninitialised flag *)
(* of the nodes is: see AndOrLists.                                         *)
Todo == FlattenSeq([i \in DOMAIN stack |-> ItemsLeft(stack, i)])

Lists == INSTANCE AndOrLists WITH todo <- Todo

ImplementsLists == Lists!Spec

(* A line that was typed is done with: the loops of the parser consume the *)
(* line, and exec_node comes to the end of the tree.                       *)
EveryLineEnds == at # "prompt" ~> at \in {"prompt", "exit"}

-----------------------------------------------------------------------------
(* README.md:41, "Conditional execution (`&&` returns on failure, `||`     *)
(* returns on success)": after && nothing runs if the job before failed.   *)
AndFollowsSuccess ==
  [][ (ran' # ran /\ ran' # <<>> /\ Todo # <<>> /\ Todo[1].op = "and")
        => outcome # "failed" ]_vars
=============================================================================
