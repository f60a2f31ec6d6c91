---------------------------- MODULE CommandLine ----------------------------
(***************************************************************************)
(* One line after the other: shell_loop parses it, expands all of it, and  *)
(* exec_node (executor/executor.c) walks over the tree.  exec_node calls   *)
(* itself: stack is the C stack, the innermost call first, and status what *)
(* the last call returned.                                                 *)
(*                                                                         *)
(* What a job does is the concern of JobControl; here it is what run_job   *)
(* returns.  Words are not looked into: any expansion may fail, which is   *)
(* decided where exec_node or run_job finds out.  The builtin exit, and    *)
(* Ctrl-C, are in JobControl.                                              *)
(***************************************************************************)
EXTENDS Parser

CONSTANTS
  Garbage,   \* what memory that malloc returns may hold: subset of BOOLEAN
  ExitCodes  \* what builtins may return, 0 for success

JOB_STOPPED_EXIT_CODE == 146

ASSUME CommandLineAssumption ==
  /\ MaxTokens \in Nat \ {0}
  /\ Garbage \subseteq BOOLEAN
  /\ Garbage # {}
  /\ 0 \in ExitCodes
  /\ ExitCodes \subseteq Int

VARIABLES
  stack,   \* the calls of exec_node: [node, pc]
  status,  \* what the last of them returned
  ran,     \* the nodes of this line for which a job was run, in order
  outcome  \* how the last job went: none, started, ok, failed, stopped

execution_vars == <<stack, status, ran, outcome>>

vars == <<parser_vars, execution_vars>>

Init ==
  /\ ParserInit
  /\ stack = <<>>
  /\ status = 0
  /\ ran = <<>>
  /\ outcome = "none"

Call(node) == [node |-> node, pc |-> 0]

(* The rest of shell_loop: expander_expand_ast, which walks over the whole *)
(* tree before any of it runs, history_save_command, exec_node.            *)
ExecuteLine ==
  /\ at = "parsed"
  /\ Goto("exec_node")
  /\ stack' = <<Call(root)>>
  /\ status' = 0
  /\ UNCHANGED <<line, command, pipe, left, op, root, ran, outcome>>

(* parser_free_ast, and the next turn of the loop. *)
FinishLine ==
  /\ at = "exec_node"
  /\ stack = <<>>
  /\ Goto("prompt")
  /\ line' = <<>>
  /\ root' = NoNode
  /\ ran' = <<>>
  /\ status' = 0
  /\ outcome' = "none"
  /\ UNCHANGED <<command, pipe, left, op, stack>>

-----------------------------------------------------------------------------
(* exec_node *)
node == Head(stack).node
pc == Head(stack).pc

Executing == at = "exec_node" /\ stack # <<>>

Return(s) ==
  /\ stack' = Tail(stack)
  /\ status' = s

(* Call n, with p for where to go on after it. *)
CallFrom(p, n) ==
  /\ stack' = <<Call(n), [node |-> node, pc |-> p]>> \o Tail(stack)
  /\ UNCHANGED status

(* The expander sets invalid of commands only; nobody clears it. *)
MayBeInvalid(n) == IsCommand(n) \/ TRUE \in Garbage
MayBeValid(n) == n # NoNode /\ FALSE \in Garbage

Unusable ==
  /\ Executing
  /\ pc = 0
  /\ node = NoNode \/ MayBeInvalid(node)
  /\ Return(-1)
  /\ UNCHANGED <<parser_vars, ran, outcome>>

(* A frame whose flag was read. *)
Usable == Executing /\ (pc = 0 => MayBeValid(node))

NextOfSequence ==
  /\ Usable
  /\ IsSequence(node)
  /\ pc < Len(node.nodes)
  /\ CallFrom(pc + 1, node.nodes[pc + 1])
  /\ UNCHANGED <<parser_vars, ran, outcome>>

EndOfSequence ==
  /\ Usable
  /\ IsSequence(node)
  /\ pc = Len(node.nodes)
  /\ Return(status)
  /\ UNCHANGED <<parser_vars, ran, outcome>>

LeftOfConditional ==
  /\ Usable
  /\ IsConditional(node)
  /\ pc = 0
  /\ CallFrom(1, node.left)
  /\ UNCHANGED <<parser_vars, ran, outcome>>

GoesOn_Swapped(cond) ==
  \/ cond.op = "and" /\ status # 0
  \/ cond.op = "or" /\ status = 0

GoesOn(cond) ==
  \/ cond.op = "and" /\ status = 0
  \/ cond.op = "or" /\ status # 0

RightOfConditional ==
  /\ Usable
  /\ IsConditional(node)
  /\ pc = 1
  /\ GoesOn(node)
  /\ CallFrom(2, node.right)
  /\ UNCHANGED <<parser_vars, ran, outcome>>

EndOfConditional ==
  /\ Usable
  /\ IsConditional(node)
  /\ \/ pc = 1 /\ ~GoesOn(node)
     \/ pc = 2
  /\ Return(status)
  /\ UNCHANGED <<parser_vars, ran, outcome>>

-----------------------------------------------------------------------------
(* compile_pipeline_job skips what is NULL; the last command says whether  *)
(* the job is in the background.                                           *)
Processes(n) == IF IsPipeline(n) THEN SelectSeq(n.nodes, IsCommand) ELSE <<n>>

IsBackground(n) ==
  IF IsPipeline(n) THEN n.nodes[Max({i \in DOMAIN n.nodes : IsCommand(n.nodes[i])})].is_bg
  ELSE n.is_bg

RunsJob ==
  /\ Usable
  /\ IsCommand(node) \/ IsPipeline(node)
  /\ ran' = Append(ran, node)
  /\ UNCHANGED parser_vars

(* handle_pure_builtin_execution: also with &. *)
RunBuiltin ==
  /\ RunsJob
  /\ Len(Processes(node)) = 1
  /\ \E code \in ExitCodes :
       /\ Return(code)
       /\ outcome' = IF code = 0 THEN "ok" ELSE "failed"

RunBackground ==
  /\ RunsJob
  /\ IsBackground(node)
  /\ Return(0)
  /\ outcome' = "started"

(* handle_foreground_execution returns 0 for a job that ended, however it  *)
(* did.                                                                    *)
RunForeground ==
  /\ RunsJob
  /\ ~IsBackground(node)
  /\ \/ /\ outcome' \in {"ok", "failed"}
        /\ Return(0)
     \/ /\ outcome' = "stopped"
        /\ Return(JOB_STOPPED_EXIT_CODE)

(* A pipeline whose first command is missing may be one command, whose     *)
(* expansion may have failed: its argv is empty, and builtin_is_builtin    *)
(* reads through NULL.                                                     *)
NoName ==
  /\ Usable
  /\ IsPipeline(node)
  /\ Len(Processes(node)) = 1
  /\ Goto("exit")
  /\ UNCHANGED <<line, command, pipe, left, op, root, execution_vars>>

-----------------------------------------------------------------------------
ExecutionStep ==
  \/ ExecuteLine \/ FinishLine
  \/ Unusable
  \/ NextOfSequence \/ EndOfSequence
  \/ LeftOfConditional \/ RightOfConditional \/ EndOfConditional
  \/ RunBuiltin \/ RunBackground \/ RunForeground \/ NoName

(* What the shell does without waiting for the user. *)
LineStep ==
  \/ ParserStep /\ UNCHANGED execution_vars
  \/ ExecutionStep

TypeLine == (EmptyLine \/ StartLine) /\ UNCHANGED execution_vars

Next == TypeLine \/ LineStep

Spec == Init /\ [][Next]_vars

FairSpec == Spec /\ WF_vars(LineStep)
=============================================================================
