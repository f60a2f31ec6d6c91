------------------------- MODULE PipelineProperties -------------------------
(***************************************************************************)
(* What run_job must guarantee of descriptors, groups and data.            *)
(***************************************************************************)
EXTENDS PipelineData

Ends == {closed, terminal, history, signals, file}
          \cup {ReadEnd(k) : k \in 0 .. MaxProcesses - 1}
          \cup {WriteEnd(k) : k \in 0 .. MaxProcesses - 1}

(* Type correctness; no more in a pipe than it holds, and the end the next *)
(* child shall read from is one the shell has open.                        *)
PipelineTypeOK ==
  /\ pc \in {"prompt", "fork", "sync", "setpgid", "close", "wait", "leave", "exit"}
  /\ fds \in [Fds -> Ends]
  /\ n \in 1 .. MaxProcesses + 1
  /\ child \in [Processes -> {"none", "forked", "joined", "running", "dead"}]
  /\ table \in [Processes -> [Fds -> Ends]]
  /\ group \in [Processes -> Processes \cup {ShellGroup}]
  /\ held \in [Processes -> Nat]
  /\ buf \in [0 .. MaxProcesses - 1 -> 0 .. PIPE_BUF]
  /\ pc = "fork" /\ ctx.in_fd # -1 => fds[ctx.in_fd] = ReadEnd(n - 1)

Holders(end) == {i \in Processes : \E m \in Fds : table[i][m] = end}

(* Which ends a pipeline leaves open decides whether its readers see the   *)
(* end of the data: once run_job has launched the job, only process k can  *)
(* write to pipe k, neither the shell nor a later process, and only k and  *)
(* its successor can read from it.                                         *)
EndsAreHeld ==
  pc \in {"wait", "leave", "prompt"} =>
    \A k \in Processes \ {MaxProcesses} :
      /\ Holders(WriteEnd(k)) \subseteq {k}
      /\ Holders(ReadEnd(k)) \subseteq {k, k + 1}
      /\ \A m \in Fds : fds[m] \notin {ReadEnd(k), WriteEnd(k)}

(* A program runs with its standard input and output on the pipes of its   *)
(* place in the pipeline, whatever numbers the ends had, and without any   *)
(* other descriptor of the shell than the history's and, if it is a builtin *)
(* of a pipeline, those fg has leaked.                                     *)
ProgramIsConnected ==
  \A i \in Processes :
    child[i] = "running" =>
      /\ i > 1 => table[i][STDIN_FILENO] = ReadEnd(i - 1)
      /\ i < Len(job) => table[i][STDOUT_FILENO] = WriteEnd(i)
      /\ \A m \in Fds \ {0, 1, 2} :
           \/ table[i][m] \in {closed, history, ReadEnd(i)}
           \/ m \in leaked /\ table[i][m] = signals /\ Len(job) > 1

(* Whatever was run, in whatever order, and however few numbers are left,  *)
(* the shell has the descriptors it started with and one more for each job *)
(* that fg has waited for: no other step leaks one, the second close of    *)
(* the synchronisation pipe hits none of these, and a builtin's            *)
(* redirections are undone (of standard error they are not).               *)
ShellDescriptorsKept ==
  pc = "prompt" =>
    \A m \in Fds \ {STDERR_FILENO} :
      fds[m] = IF m \in leaked THEN signals ELSE shell_descriptors[m]

(* When a foreground job is waited for, and the terminal is its group's,    *)
(* each of its processes is in that group, which is not the shell's unless *)
(* the first child was killed before it could make one.                    *)
JobIsOneGroup ==
  pc = "wait" =>
    /\ \A i \in Processes : Alive(i) => group[i] = ctx.pgid
    /\ ctx.pgid = ShellGroup => ~Alive(1)

-----------------------------------------------------------------------------
(* Liveness *)

(* run_job gets through its loop whenever children die: the read from the  *)
(* synchronisation pipe cannot hang.                                       *)
JobIsLaunched == pc = "fork" ~> pc \in {"wait", "prompt", "exit"}

(* A pipeline ends from left to right, and the shell comes back to its     *)
(* prompt: once no process writes for ever, every reader gets to the end   *)
(* of its data.  What can keep it is only a writer whose pipe is full and  *)
(* has no reader but the writer itself: see PipelineEndsWithLast.          *)
Endless(i) == Alive(i) /\ job[i].program.endless /\ ~job[i].program.input

WaitsForItself(i) ==
  /\ child[i] = "running"
  /\ held[i] > 0
  /\ i < Len(job)
  /\ buf[i] = PIPE_BUF
  /\ Holders(ReadEnd(i)) = {i}

PipelineEnds ==
  pc = "wait" /\ (\A i \in Processes : ~Endless(i))
    ~> pc = "prompt" \/ \E i \in Processes : WaitsForItself(i)

(* README.md, "Pipeline execution with proper pipe setup": a pipeline ends *)
(* from right to left too, when its last process, which everything is      *)
(* written for, has ended.                                                 *)
PipelineEndsWithLast ==
  pc = "wait" /\ Len(job) > 1 /\ ~Alive(Len(job)) ~> pc = "prompt"
=============================================================================
