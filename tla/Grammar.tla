------------------------------ MODULE Grammar ------------------------------
(***************************************************************************)
(* The grammar that README.md (lines 19-26) shows by example, not as the   *)
(* parser reads a line but as one would cut it up on paper: at the         *)
(* separators into lists, at && and || into pipelines, at | into commands. *)
(* A command is words and then redirections.                               *)
(***************************************************************************)
EXTENDS Syntax, FiniteSets, Functions

Positions(l, from, to, kinds) == {i \in from .. to : l[i] \in kinds}

InOrder(positions) ==
  CHOOSE s \in [1 .. Cardinality(positions) -> positions] :
    /\ Range(s) = positions
    /\ \A i, j \in DOMAIN s : i < j => s[i] < s[j]

(* The pieces of l[from .. to] between tokens of these kinds. *)
Pieces(l, from, to, kinds) ==
  LET cuts == <<from - 1>> \o InOrder(Positions(l, from, to, kinds)) \o <<to + 1>>
  IN  [k \in 1 .. Len(cuts) - 1 |-> [from |-> cuts[k] + 1, to |-> cuts[k + 1] - 1]]

Empty(piece) == piece.from > piece.to

Lists(l) == Pieces(l, 1, Len(l) - 1, {"semi", "bg"})
Pipelines(l, list) == Pieces(l, list.from, list.to, {"and", "or"})
Commands(l, pipeline) == Pieces(l, pipeline.from, pipeline.to, {"pipe"})

(* The first token of a command that is no argument. *)
Arguments(l, c) ==
  {i \in c.from .. c.to : \A j \in c.from .. i : l[j] = "word"}
Targets(l, c) == Positions(l, c.from, c.to, {"word"}) \ Arguments(l, c)

IsGrammaticalCommand(l, c) ==
  /\ Arguments(l, c) # {}
  /\ \A i \in c.from .. c.to :
       /\ l[i] = "fd" => i < c.to /\ l[i + 1] = "redir"
       /\ l[i] = "redir" => i < c.to /\ l[i + 1] = "word"
       /\ i \in Targets(l, c) => l[i - 1] = "redir"

(* A line with its end.  Lists may be empty, but for the first: separators *)
(* may stand side by side.                                                 *)
Grammatical(l) ==
  /\ l[Len(l)] = "eof"
  /\ Len(l) > 1 => ~Empty(Lists(l)[1])
  /\ \A i \in DOMAIN Lists(l) :
       LET list == Lists(l)[i] IN
       ~Empty(list) =>
         \A j \in DOMAIN Pipelines(l, list) :
           LET pipeline == Pipelines(l, list)[j] IN
           \A k \in DOMAIN Commands(l, pipeline) :
             IsGrammaticalCommand(l, Commands(l, pipeline)[k])

(* The line can still become grammatical. *)
Viable(l) ==
  \E rest \in {<<"eof">>, <<"word", "eof">>, <<"redir", "word", "eof">>} :
    Grammatical(l \o rest)

-----------------------------------------------------------------------------
CommandTree(l, c) ==
  cmd_node_t(InOrder(Arguments(l, c)), InOrder(Targets(l, c)), l[c.to + 1] = "bg")

PipelineTree(l, pipeline) ==
  LET commands == Commands(l, pipeline)
      trees == [k \in DOMAIN commands |-> CommandTree(l, commands[k])]
  IN  IF Len(trees) = 1 THEN trees[1] ELSE pipe_node_t(trees)

(* The trees of the first j pipelines of a list: && and || group to the    *)
(* left and bind alike.                                                    *)
FirstPipelines(l, list) ==
  LET pipelines == Pipelines(l, list)
      tree[j \in DOMAIN pipelines] ==
        IF j = 1 THEN PipelineTree(l, pipelines[1])
        ELSE cond_node_t(tree[j - 1], l[pipelines[j].from - 1], PipelineTree(l, pipelines[j]))
  IN  tree

ListTree(l, list) == FirstPipelines(l, list)[Len(Pipelines(l, list))]

Tree(l) ==
  IF l = <<"eof">> THEN NoNode
  ELSE LET lists == Lists(l)
           full == InOrder({i \in DOMAIN lists : ~Empty(lists[i])})
       IN  seq_node_t([k \in DOMAIN full |-> ListTree(l, lists[full[k]])])
=============================================================================
