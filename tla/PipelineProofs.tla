--------------------------- MODULE PipelineProofs ---------------------------
(***************************************************************************)
(* Descriptors and groups are as run_job needs them, for pipelines of      *)
(* every length.                                                           *)
(***************************************************************************)
EXTENDS PipelineInvariant, LibraryProofs

LEMMA MemberOfSeq ==
  ASSUME NEW S, NEW s \in Seq(S), NEW i \in DOMAIN s
  PROVE  s[i] \in S
OBVIOUS

LEMMA Constants ==
  /\ MaxFd \in Nat /\ MaxFd >= 3
  /\ MaxProcesses \in Nat /\ MaxProcesses > 0
  /\ PIPE_BUF \in Nat /\ PIPE_BUF > 0
  /\ 1 \in Processes /\ Processes \in SUBSET Nat
  /\ NoGroup \notin Processes /\ ShellGroup \notin Processes /\ NoGroup # ShellGroup
BY DescriptorsAssumption, PipelineDataAssumption DEF Processes, NoGroup, ShellGroup

LEMMA LineType ==
  ASSUME NEW line \in Lines
  PROVE  /\ line \in Seq([program : Programs, redir : Redirections])
         /\ Len(line) \in 1 .. MaxProcesses
         /\ \A i \in DOMAIN line :
              line[i].redir \in Redirections /\ line[i].program.size \in Nat
<1>1. /\ line \in Seq([program : Programs, redir : Redirections])
      /\ Len(line) \in 1 .. MaxProcesses
  BY PipelineDataAssumption
<1>2. ASSUME NEW i \in DOMAIN line
      PROVE  line[i].redir \in Redirections /\ line[i].program.size \in Nat
  <2>1. line[i] \in [program : Programs, redir : Redirections]
    BY <1>1, MemberOfSeq
  <2>2. line[i].program \in Programs
    BY <2>1
  <2> QED BY <2>1, <2>2 DEF Programs
<1> QED BY <1>1, <1>2

-----------------------------------------------------------------------------
(* What a descriptor stands for *)

LEMMA EndsDiffer ==
  /\ closed \notin {terminal, history, signals, file}
  /\ terminal \notin {history, signals, file}
  /\ history \notin {signals, file}
  /\ signals # file
BY DEF closed, terminal, history, signals, file

LEMMA PipeEndsDiffer ==
  ASSUME NEW j, NEW k
  PROVE  /\ ReadEnd(j) \notin {closed, terminal, history, signals, file}
         /\ WriteEnd(j) \notin {closed, terminal, history, signals, file}
         /\ ReadEnd(j) # WriteEnd(k)
         /\ ReadEnd(j) = ReadEnd(k) <=> j = k
         /\ WriteEnd(j) = WriteEnd(k) <=> j = k
         /\ IsReadEnd(ReadEnd(j)) /\ ReadEnd(j)[2] = j
         /\ IsWriteEnd(WriteEnd(j)) /\ WriteEnd(j)[2] = j
BY DEF ReadEnd, WriteEnd, IsReadEnd, IsWriteEnd, closed, terminal, history, signals, file

LEMMA NotPipeEnds ==
  \A f \in {closed, terminal, history, signals, file} : ~IsReadEnd(f) /\ ~IsWriteEnd(f)
BY DEF IsReadEnd, IsWriteEnd, closed, terminal, history, signals, file

LEMMA EndsOfPipes ==
  /\ {closed, terminal, history, signals, file} \subseteq Ends
  /\ \A k \in 0 .. MaxProcesses - 1 : ReadEnd(k) \in Ends /\ WriteEnd(k) \in Ends
BY DEF Ends

-----------------------------------------------------------------------------
(* Tables *)

LEMMA LowestIsFree ==
  ASSUME NEW t, NEW m \in Fds, t[m] = closed
  PROVE  Lowest(t) \in Fds /\ t[Lowest(t)] = closed
<1> DEFINE free == {k \in Fds : t[k] = closed}
<1>1. free \in SUBSET Nat /\ free # {}
  BY Constants DEF Fds
<1>2. Min(free) \in free
  BY <1>1, MinInSet
<1>3. Lowest(t) = Min(free)
  BY DEF Lowest, Full
<1> QED BY <1>2, <1>3

LEMMA LowestOfFull ==
  ASSUME NEW t
  PROVE  /\ Lowest(t) = -1 <=> Full(t)
         /\ ~Full(t) => Lowest(t) \in Fds /\ t[Lowest(t)] = closed
<1>1. CASE Full(t)
  BY <1>1 DEF Lowest
<1>2. CASE ~Full(t)
  <2>1. PICK m \in Fds : t[m] = closed
    BY <1>2 DEF Full
  <2>2. Lowest(t) \in Fds /\ t[Lowest(t)] = closed
    BY <2>1, LowestIsFree
  <2> QED BY <1>2, <2>2, Constants DEF Fds
<1> QED BY <1>1, <1>2

(* Table u is table t with both ends of pipe k at these numbers.           *)
PipeMade(t, u, in, out, k) ==
  /\ in # out /\ t[in] = closed /\ t[out] = closed
  /\ u \in [Fds -> Ends]
  /\ u[in] = ReadEnd(k) /\ u[out] = WriteEnd(k)
  /\ \A m \in Fds \ {in, out} : u[m] = t[m]

LEMMA PipeOpens ==
  ASSUME NEW t \in [Fds -> Ends], NEW k \in 0 .. MaxProcesses - 1, PipeFits(t)
  PROVE  \E in, out \in Fds :
           PipeMade(t, Pipe(t, k).table, in, out, k) /\ Pipe(t, k).ends = <<in, out>>
<1>0. PICK l, m \in Fds : l # m /\ t[l] = closed /\ t[m] = closed
  BY DEF PipeFits
<1>1. PICK in \in Fds : in = Lowest(t) /\ t[in] = closed
  BY <1>0, LowestIsFree
<1>2. PICK half \in [Fds -> Ends] : half = [t EXCEPT ![in] = ReadEnd(k)]
  BY <1>1, EndsOfPipes
<1>3. half[l] = closed \/ half[m] = closed
  BY <1>0, <1>2
<1>4. PICK out \in Fds : out = Lowest(half) /\ half[out] = closed
  BY <1>0, <1>3, LowestIsFree
<1>5. in # out /\ t[out] = closed
  BY <1>1, <1>2, <1>4, PipeEndsDiffer
<1>6. Pipe(t, k) = [table |-> [half EXCEPT ![out] = WriteEnd(k)], ends |-> <<in, out>>]
  BY <1>1, <1>2, <1>4 DEF Pipe
<1>7. Pipe(t, k).table = [half EXCEPT ![out] = WriteEnd(k)] /\ Pipe(t, k).ends = <<in, out>>
  BY <1>6
<1>8. PICK u : u = Pipe(t, k).table
  OBVIOUS
<1>9. PipeMade(t, u, in, out, k)
  BY <1>1, <1>2, <1>4, <1>5, <1>7, <1>8, EndsOfPipes DEF PipeMade
<1> QED BY <1>7, <1>8, <1>9

(* What handle_redirection leaves of a table, if only standard input,      *)
(* output and error are redirected.                                        *)
LEMMA Redirected ==
  ASSUME StandardRedirections, NEW t \in [Fds -> Ends], NEW redir \in Redirections
  PROVE  /\ handle_redirection(t, redir) \in [Fds -> Ends]
         /\ \A m \in 0 .. 2 : handle_redirection(t, redir)[m] \in {t[m], file}
         /\ \A m \in Fds \ (0 .. 2) : handle_redirection(t, redir)[m] = t[m]
<1>1. file \in Ends
  BY EndsOfPipes
<1>2. 0 .. 2 \subseteq Fds
  BY Constants DEF Fds
<1>3. ASSUME NEW m \in Fds \ (0 .. 2), NEW i \in DOMAIN redir PROVE redir[i].fd # m
  <2>1. redir \in Seq([fd : Fds, exists : BOOLEAN])
    BY PipelineDataAssumption
  <2>2. redir[i] \in [fd : Fds, exists : BOOLEAN]
    BY <2>1, MemberOfSeq
  <2>3. redir[i].fd \in Nat /\ redir[i].fd <= 2
    BY <2>2, Constants DEF StandardRedirections, STDERR_FILENO, Fds
  <2>4. m \in Nat /\ m > 2
    BY Constants DEF Fds
  <2> QED BY <2>3, <2>4
<1> QED BY <1>1, <1>2, <1>3 DEF handle_redirection

-----------------------------------------------------------------------------
(* Parts of the invariant that a step leaves alone *)

(* The steps of the children leave the shell alone.                        *)
LEMMA ShellKept ==
  ASSUME PipelineInv, UNCHANGED shellVars
  PROVE  /\ ctx' \in executor_ctx_t
         /\ LoopInv'
         /\ ShellInv'
         /\ leaked' \in SUBSET Free
         /\ (Running <=> Running') /\ (Forked <=> Forked')
BY DEF PipelineInv, shellVars, LoopInv, ShellInv, StandardOpen, PipeOpen, ShellUses,
       Unused, Running, Forked

LEMMA ChildKept ==
  ASSUME NEW i \in Processes, ChildOK(i),
         UNCHANGED <<child[i], table[i], copy[i], job, leaked>>,
         (i < n \/ (i = n /\ Forked)) <=> (i < n \/ (i = n /\ Forked))'
  PROVE  ChildOK(i)'
BY DEF ChildOK, ConnectingInv, RunningInv, ChildUses, PipeOpen, StandardOpen, Unused, Alive

LEMMA GroupKept ==
  ASSUME NEW i \in Processes, GroupOK(i),
         UNCHANGED <<child[i], copy[i], group[i], shellVars>>
  PROVE  GroupOK(i)'
BY DEF GroupOK, Alive, Running, shellVars

LEMMA FdsAre ==
  /\ Fds = (0 .. 3) \cup Free /\ Free \cap (0 .. 3) = {} /\ Free \subseteq Nat
  /\ Free \subseteq Numbers /\ -1 \in Numbers /\ -1 \notin Fds /\ -1 \notin Free
BY Constants DEF Fds, Free, Numbers

(* A number that is not in use is none of the four that a shell keeps.     *)
LEMMA ClosedIsFree ==
  ASSUME NEW t, StandardOpen(t), NEW m \in Fds, t[m] = closed
  PROVE  m \in Free
<1>1. m \notin {0, 1, 2, 3}
  BY EndsDiffer DEF StandardOpen, STDIN_FILENO, STDOUT_FILENO, STDERR_FILENO
<1> QED BY <1>1, FdsAre

LEMMA NoDescriptors ==
  /\ no_descriptors \in [Fds -> Ends]
  /\ \A m \in Fds : no_descriptors[m] = closed
BY EndsOfPipes DEF no_descriptors

LEMMA ShellDescriptors ==
  /\ shell_descriptors \in [Fds -> Ends]
  /\ StandardOpen(shell_descriptors)
  /\ \A m \in Free : shell_descriptors[m] = closed
<1>1. 0 \in Fds /\ 1 \in Fds /\ 2 \in Fds /\ 3 \in Fds
  BY FdsAre
<1>2. \A m \in Free : m \in Fds /\ m > 3
  BY Constants, FdsAre DEF Free
<1>3. \A m \in Fds : shell_descriptors[m] = IF m <= 2 THEN terminal ELSE IF m = 3 THEN history ELSE closed
  BY DEF shell_descriptors, STDERR_FILENO
<1>4. shell_descriptors \in [Fds -> Ends]
  BY EndsOfPipes DEF shell_descriptors
<1>5. StandardOpen(shell_descriptors)
  BY <1>1, <1>3 DEF StandardOpen, STDIN_FILENO, STDOUT_FILENO, STDERR_FILENO
<1>6. \A m \in Free : shell_descriptors[m] = closed
  BY <1>2, <1>3, FdsAre
<1> QED BY <1>4, <1>5, <1>6

-----------------------------------------------------------------------------
(* The steps of the shell *)

LEMMA NobodyForked ==
  /\ no_child \in [Processes -> {"none", "forked", "joined", "running", "dead"}]
  /\ no_table \in [Processes -> [Fds -> Ends]]
  /\ no_ctx \in executor_ctx_t
  /\ no_copy \in [Processes -> executor_ctx_t]
  /\ shell_group \in [Processes -> Processes \cup {ShellGroup}]
  /\ nothing_held \in [Processes -> Nat]
  /\ empty_pipes \in [0 .. MaxProcesses - 1 -> 0 .. PIPE_BUF]
  /\ empty_pipes[0] = 0
  /\ shell_group[1] = ShellGroup
  /\ \A i \in Processes : no_child[i] = "none" /\ no_table[i] = no_descriptors
<1>1. no_ctx \in executor_ctx_t
  BY FdsAre DEF no_ctx, executor_ctx_t
<1> QED BY <1>1, Constants, NoDescriptors
     DEF no_child, no_table, no_copy, shell_group, nothing_held, empty_pipes

LEMMA PipelineInit == Init => PipelineInv
<1> SUFFICES ASSUME Init PROVE PipelineInv
  OBVIOUS
<1>1. /\ pc = "prompt" /\ fds = shell_descriptors /\ ctx = no_ctx
      /\ job = <<>> /\ n = 1 /\ child = no_child /\ table = no_table /\ copy = no_copy
      /\ group = shell_group /\ held = nothing_held /\ buf = empty_pipes /\ leaked = {}
  BY DEF Init
<1>2. PipelineTypeOK
  BY <1>1, Constants, NobodyForked, ShellDescriptors DEF PipelineTypeOK
<1>3. LoopInv /\ ShellInv
  BY <1>1, ShellDescriptors DEF LoopInv, ShellInv, Unused, Running, Forked
<1>4. ChildInv
  <2>1. ASSUME NEW i \in Processes PROVE ChildOK(i)
    <3>1. child[i] = "none" /\ table[i] = no_descriptors
      BY <1>1, NobodyForked
    <3>2. ~(i < n \/ (i = n /\ Forked))
      BY <1>1, Constants DEF Forked, Processes
    <3> QED BY <3>1, <3>2 DEF ChildOK
  <2> QED BY <2>1 DEF ChildInv
<1>5. GroupInv
  <2>1. ~Running
    BY <1>1 DEF Running
  <2>2. child[1] = "none" /\ group[1] = ShellGroup /\ buf[0] = 0
    BY <1>1, NobodyForked, Constants
  <2> QED BY <2>1, <2>2 DEF GroupInv, FirstGroupInv, GroupOK
<1> QED BY <1>1, <1>2, <1>3, <1>4, <1>5, NobodyForked DEF PipelineInv

(* executor_init_context: three numbers that were closed.                  *)
LEMMA ContextOpens ==
  ASSUME PipelineInv, pc = "prompt", NEW line \in Lines, NEW bg, StartJob(line, bg)
  PROVE  \E a, b, s \in Free :
           /\ a # b /\ a # s /\ b # s
           /\ fds[a] = closed /\ fds[b] = closed /\ fds[s] = closed
           /\ fds' \in [Fds -> Ends]
           /\ fds'[a] = ReadEnd(0) /\ fds'[b] = WriteEnd(0) /\ fds'[s] = signals
           /\ \A m \in Fds \ {a, b, s} : fds'[m] = fds[m]
           /\ ctx' = [no_ctx EXCEPT !.sync_pipe = <<a, b>>, !.sfd = s]
<1>1. /\ fds \in [Fds -> Ends] /\ StandardOpen(fds)
      /\ PipeFits(fds) /\ ~Full(Pipe(fds, 0).table)
  BY DEF PipelineInv, PipelineTypeOK, ShellInv, StartJob
<1>2. 0 \in 0 .. MaxProcesses - 1
  BY Constants
<1>3. PICK a, b \in Fds :
         PipeMade(fds, Pipe(fds, 0).table, a, b, 0) /\ Pipe(fds, 0).ends = <<a, b>>
  BY <1>1, <1>2, PipeOpens
<1>4. PICK half : half = Pipe(fds, 0).table
  OBVIOUS
<1>5. PipeMade(fds, half, a, b, 0)
  BY <1>3, <1>4
<1>6. a \in Free /\ b \in Free
  BY <1>1, <1>5, ClosedIsFree DEF PipeMade
<1>8. PICK s \in Fds : s = Lowest(half) /\ half[s] = closed
  BY <1>1, <1>4, LowestOfFull
<1>9. s # a /\ s # b
  BY <1>5, <1>8, PipeEndsDiffer DEF PipeMade
<1>10. s \in Free /\ fds[s] = closed
  BY <1>1, <1>5, <1>8, <1>9, ClosedIsFree DEF PipeMade
<1>11. /\ ctx' = [no_ctx EXCEPT !.sync_pipe = Pipe(fds, 0).ends, !.sfd = Lowest(Pipe(fds, 0).table)]
       /\ fds' = [Pipe(fds, 0).table EXCEPT ![Lowest(Pipe(fds, 0).table)] = signals]
  BY <1>1 DEF StartJob, Open
<1>12. /\ ctx' = [no_ctx EXCEPT !.sync_pipe = <<a, b>>, !.sfd = s]
       /\ fds' = [half EXCEPT ![s] = signals]
  BY <1>3, <1>4, <1>8, <1>11
<1>13. /\ fds' \in [Fds -> Ends]
       /\ fds'[a] = ReadEnd(0) /\ fds'[b] = WriteEnd(0) /\ fds'[s] = signals
       /\ \A m \in Fds \ {a, b, s} : fds'[m] = fds[m]
  BY <1>5, <1>9, <1>8, <1>12, EndsOfPipes DEF PipeMade
<1> QED BY <1>5, <1>6, <1>9, <1>10, <1>12, <1>13 DEF PipeMade

LEMMA PipelineStartJob ==
  ASSUME PipelineInv, pc = "prompt", NEW line \in Lines, NEW bg \in BOOLEAN, StartJob(line, bg)
  PROVE  PipelineInv'
<1>1. PICK a, b, s \in Free :
         /\ a # b /\ a # s /\ b # s
         /\ fds[a] = closed /\ fds[b] = closed /\ fds[s] = closed
         /\ fds' \in [Fds -> Ends]
         /\ fds'[a] = ReadEnd(0) /\ fds'[b] = WriteEnd(0) /\ fds'[s] = signals
         /\ \A m \in Fds \ {a, b, s} : fds'[m] = fds[m]
         /\ ctx' = [no_ctx EXCEPT !.sync_pipe = <<a, b>>, !.sfd = s]
  BY ContextOpens
<1>2. /\ pc' = "fork" /\ job' = line /\ n' = 1
      /\ child' = no_child /\ table' = no_table /\ copy' = no_copy
      /\ group' = shell_group /\ held' = nothing_held /\ buf' = empty_pipes
      /\ leaked' = leaked
  BY DEF StartJob
<1>3. /\ fds \in [Fds -> Ends] /\ StandardOpen(fds) /\ leaked \in SUBSET Free
      /\ \A m \in Free : Unused(fds, m)
  BY DEF PipelineInv, PipelineTypeOK, ShellInv
<1>4. /\ ctx' \in executor_ctx_t
      /\ ctx'.sync_pipe[1] = a /\ ctx'.sync_pipe[2] = b /\ ctx'.sfd = s
      /\ ctx'.in_fd = -1 /\ ctx'.pgid = NoGroup
  BY <1>1, FdsAre DEF no_ctx, executor_ctx_t
<1>5. 0 \in 0 .. MaxProcesses - 1
  BY Constants
<1>7. /\ StandardOpen(fds)'
      /\ fds'[a] = ReadEnd(0) /\ fds'[b] = WriteEnd(0) /\ fds'[s] = signals
      /\ \A m \in Free \ {a, b, s} : Unused(fds, m)'
      /\ leaked' \cap {a, b, s} = {}
  BY <1>1, <1>2, <1>3, FdsAre, EndsDiffer
     DEF Unused, StandardOpen, STDIN_FILENO, STDOUT_FILENO, STDERR_FILENO
<1>8. line # <<>> /\ Len(line) \in 1 .. MaxProcesses
  BY LineType
<1>9. PipelineTypeOK'
  BY <1>1, <1>2, <1>4, NobodyForked, Constants DEF PipelineTypeOK
<1>10. LoopInv'
  BY <1>2, <1>4, <1>8 DEF LoopInv, Running, Forked
<1>11. ShellInv'
  <2>1. ShellUses' \subseteq {a, b, s, -1} /\ {a, b, s} \subseteq ShellUses'
    BY <1>2, <1>4 DEF ShellUses, Running, Forked
  <2>2. -1 \notin leaked'
    BY <1>2, <1>3, FdsAre
  <2>3. leaked' \cap (ShellUses' \cup {ctx'.sync_pipe[1], ctx'.sync_pipe[2]}) = {}
    BY <1>4, <1>7, <2>1, <2>2
  <2>4. \A m \in Free \ ShellUses' : Unused(fds, m)'
    BY <1>7, <2>1
  <2>5. n' = 1 /\ Running' /\ ~Forked' /\ pc' = "fork"
    BY <1>2 DEF Running, Forked
  <2> QED BY <1>4, <1>7, <2>3, <2>4, <2>5 DEF ShellInv
<1>12. ChildInv'
  <2> SUFFICES ASSUME NEW i \in Processes PROVE ChildOK(i)'
    BY DEF ChildInv
  <2>1. child'[i] = "none" /\ table'[i] = no_descriptors
    BY <1>2, NobodyForked
  <2>2. ~(i < n \/ (i = n /\ Forked))'
    BY <1>2, Constants DEF Forked, Processes
  <2> QED BY <2>1, <2>2 DEF ChildOK, Alive
<1>13. GroupInv'
  <2>1. child'[1] = "none" /\ group'[1] = ShellGroup /\ buf'[0] = 0
    BY <1>2, NobodyForked, Constants
  <2> QED BY <1>4, <2>1 DEF GroupInv, FirstGroupInv, GroupOK
<1> QED BY <1>2, <1>3, <1>4, <1>9, <1>10, <1>11, <1>12, <1>13, NobodyForked DEF PipelineInv

(* xpipe, unless this is the last process.                                 *)
LEMMA ForkOpens ==
  ASSUME PipelineInv, ForkProcess
  PROVE  \E in, out \in Numbers, t \in [Fds -> Ends] :
           /\ IF n = Len(job) THEN in = -1 /\ out = -1 /\ t = fds
              ELSE in \in Free /\ out \in Free /\ PipeMade(fds, t, in, out, n)
           /\ ctx' = [ctx EXCEPT !.fd0 = in, !.out_fd = out]
           /\ fork_process(t, ctx')
           /\ fds' = close_sync_write(t)
<1>1. /\ pc = "fork" /\ n <= Len(job) /\ fds \in [Fds -> Ends] /\ StandardOpen(fds)
      /\ n < Len(job) => PipeFits(fds)
  BY DEF ForkProcess, PipelineInv, PipelineTypeOK, ShellInv, Running
<1>2. n \in 1 .. Len(job) /\ Len(job) \in 1 .. MaxProcesses
  <2>1. job \in Lines /\ n \in 1 .. Len(job) + 1
    BY <1>1 DEF PipelineInv, LoopInv
  <2> QED BY <1>1, <2>1, LineType
<1>3. CASE n = Len(job)
  <2>1. /\ ctx' = [ctx EXCEPT !.fd0 = -1, !.out_fd = -1]
        /\ fork_process(fds, ctx')
        /\ fds' = close_sync_write(fds)
    <3>1. PICK p : p = IF n < Len(job) THEN Pipe(fds, n) ELSE [table |-> fds, ends |-> <<-1, -1>>]
      OBVIOUS
    <3>2. /\ ctx' = [ctx EXCEPT !.fd0 = p.ends[1], !.out_fd = p.ends[2]]
          /\ fork_process(p.table, ctx')
          /\ fds' = close_sync_write(p.table)
      BY <3>1, Zenon DEF ForkProcess
    <3>3. p = [table |-> fds, ends |-> <<-1, -1>>]
      BY <1>2, <1>3, <3>1
    <3>4. p.table = fds /\ p.ends[1] = -1 /\ p.ends[2] = -1
      BY <3>3
    <3> QED BY <3>2, <3>4
  <2> QED BY <1>1, <1>3, <2>1, FdsAre
<1>4. CASE n # Len(job)
  <2>1. n < Len(job) /\ n \in 0 .. MaxProcesses - 1
    BY <1>2, <1>4, Constants
  <2>6. PICK in, out \in Fds :
           PipeMade(fds, Pipe(fds, n).table, in, out, n) /\ Pipe(fds, n).ends = <<in, out>>
    BY <1>1, <2>1, PipeOpens
  <2>7. PICK t : t = Pipe(fds, n).table
    OBVIOUS
  <2>8. PipeMade(fds, t, in, out, n) /\ t \in [Fds -> Ends]
    BY <2>6, <2>7 DEF PipeMade
  <2>9. in \in Free /\ out \in Free /\ in \in Numbers /\ out \in Numbers
    BY <1>1, <2>8, ClosedIsFree, FdsAre DEF PipeMade
  <2>10. /\ ctx' = [ctx EXCEPT !.fd0 = Pipe(fds, n).ends[1], !.out_fd = Pipe(fds, n).ends[2]]
         /\ fork_process(Pipe(fds, n).table, ctx')
         /\ fds' = close_sync_write(Pipe(fds, n).table)
    BY <2>1 DEF ForkProcess
  <2>11. /\ ctx' = [ctx EXCEPT !.fd0 = in, !.out_fd = out]
         /\ fork_process(t, ctx')
         /\ fds' = close_sync_write(t)
    BY <2>6, <2>7, <2>10
  <2> QED BY <1>4, <2>8, <2>9, <2>11
<1> QED BY <1>3, <1>4

LEMMA CloseTable ==
  ASSUME NEW t \in [Fds -> Ends], NEW m \in Numbers
  PROVE  /\ Close(t, m) \in [Fds -> Ends]
         /\ \A l \in Fds : Close(t, m)[l] = IF l = m THEN closed ELSE t[l]
BY FdsAre, EndsOfPipes DEF Close

LEMMA PipelineForkProcess ==
  ASSUME PipelineInv, ForkProcess
  PROVE  PipelineInv'
<1>1. PICK in, out \in Numbers, t \in [Fds -> Ends] :
         /\ IF n = Len(job) THEN in = -1 /\ out = -1 /\ t = fds
            ELSE in \in Free /\ out \in Free /\ PipeMade(fds, t, in, out, n)
         /\ ctx' = [ctx EXCEPT !.fd0 = in, !.out_fd = out]
         /\ fork_process(t, ctx')
         /\ fds' = close_sync_write(t)
  BY ForkOpens
<1>2. /\ pc = "fork" /\ n <= Len(job)
      /\ pc' = IF ctx.pgid = NoGroup THEN "sync" ELSE "setpgid"
      /\ UNCHANGED <<job, n, group, leaked, buf>>
  BY DEF ForkProcess
<1>3. /\ fds \in [Fds -> Ends] /\ StandardOpen(fds) /\ leaked \in SUBSET Free
      /\ \A m \in Free \ ShellUses : Unused(fds, m)
      /\ leaked \cap (ShellUses \cup {ctx.sync_pipe[1], ctx.sync_pipe[2]}) = {}
      /\ ctx \in executor_ctx_t
      /\ ctx.sfd \in Free /\ fds[ctx.sfd] = signals
      /\ ctx.sync_pipe[1] \in Free /\ ctx.sync_pipe[2] \in Free
      /\ ctx.pgid = NoGroup => fds[ctx.sync_pipe[1]] = ReadEnd(0)
      /\ ctx.pgid = NoGroup => fds[ctx.sync_pipe[2]] = WriteEnd(0)
      /\ ctx.pgid = NoGroup <=> n = 1
      /\ IF n = 1 THEN ctx.in_fd = -1
         ELSE ctx.in_fd \in Free /\ fds[ctx.in_fd] = ReadEnd(n - 1)
      /\ ShellUses = {ctx.sfd, ctx.in_fd}
                       \cup (IF n = 1 THEN {ctx.sync_pipe[1], ctx.sync_pipe[2]} ELSE {})
  BY <1>2 DEF PipelineInv, PipelineTypeOK, LoopInv, ShellInv, ShellUses, Running, Forked
<1>4. /\ job \in Lines /\ n \in 1 .. Len(job) /\ Len(job) \in 1 .. MaxProcesses
      /\ n \in Processes
  <2>1. job \in Lines /\ n \in 1 .. Len(job) + 1
    BY <1>2 DEF PipelineInv, LoopInv
  <2> QED BY <1>2, <2>1, LineType, Constants DEF Processes
<1>5. /\ ctx' \in executor_ctx_t
      /\ ctx'.pgid = ctx.pgid /\ ctx'.sfd = ctx.sfd /\ ctx'.in_fd = ctx.in_fd
      /\ ctx'.sync_pipe = ctx.sync_pipe /\ ctx'.fd0 = in /\ ctx'.out_fd = out
  BY <1>1, <1>3 DEF executor_ctx_t
<1>6. /\ in # -1 => in \notin ShellUses /\ in \notin leaked
      /\ out # -1 => out \notin ShellUses /\ out \notin leaked
      /\ in \notin leaked /\ out \notin leaked
  <2>1. \A m \in Free : fds[m] = closed => m \notin ShellUses
    BY <1>3, PipeEndsDiffer, EndsDiffer, FdsAre
  <2>2. \A m \in Free : fds[m] = closed => m \notin leaked
    BY <1>3, <2>1, EndsDiffer DEF Unused
  <2>3. -1 \notin leaked
    BY <1>3, FdsAre
  <2> QED BY <1>1, <2>1, <2>2, <2>3 DEF PipeMade
<1>7. /\ StandardOpen(t)
      /\ \A m \in Free \ (ShellUses \cup {in, out}) : Unused(t, m)
      /\ t[ctx.sfd] = signals
      /\ n = 1 => t[ctx.sync_pipe[1]] = ReadEnd(0) /\ t[ctx.sync_pipe[2]] = WriteEnd(0)
      /\ n # 1 => t[ctx.in_fd] = ReadEnd(n - 1)
      /\ PipeOpen(t, in, out, n)
  <2>1. CASE n = Len(job)
    BY <1>1, <1>3, <2>1 DEF PipeOpen
  <2>2. CASE n # Len(job)
    <3>1. in \in Free /\ out \in Free /\ PipeMade(fds, t, in, out, n)
      BY <1>1, <2>2
    <3>2. \A m \in Fds : m \notin Free \/ m \in ShellUses => t[m] = fds[m]
      BY <1>6, <3>1, FdsAre DEF PipeMade
    <3>3. StandardOpen(t)
      BY <1>3, <3>2, FdsAre DEF StandardOpen, STDIN_FILENO, STDOUT_FILENO, STDERR_FILENO
    <3>4. PipeOpen(t, in, out, n)
      BY <2>2, <3>1 DEF PipeOpen, PipeMade
    <3>5. \A m \in Free \ (ShellUses \cup {in, out}) : Unused(t, m)
      BY <1>3, <3>1, FdsAre DEF PipeMade, Unused
    <3> QED BY <1>3, <3>2, <3>3, <3>4, <3>5, FdsAre
  <2> QED BY <2>1, <2>2
<1>8. /\ fds' \in [Fds -> Ends]
      /\ \A m \in Fds : fds'[m] = IF n = 1 /\ m = ctx.sync_pipe[2] THEN closed ELSE t[m]
  <2>1. fds' = IF n = 1 THEN Close(t, ctx.sync_pipe[2]) ELSE t
    BY <1>1, <1>3 DEF close_sync_write
  <2>2. CASE n = 1
    <3>1. ctx.sync_pipe[2] \in Numbers /\ fds' = Close(t, ctx.sync_pipe[2])
      BY <1>3, <2>1, <2>2, FdsAre
    <3> QED BY <2>2, <3>1, CloseTable
  <2>3. CASE n # 1
    BY <2>1, <2>3
  <2> QED BY <2>2, <2>3
<1>9. /\ child' = [child EXCEPT ![n] = "forked"]
      /\ table' = [table EXCEPT ![n] = t]
      /\ copy' = [copy EXCEPT ![n] = ctx']
      /\ held' = [held EXCEPT ![n] = IF job[n].program.input THEN 0 ELSE job[n].program.size]
  BY <1>1 DEF fork_process
<1>10. /\ child \in [Processes -> {"none", "forked", "joined", "running", "dead"}]
       /\ table \in [Processes -> [Fds -> Ends]]
       /\ copy \in [Processes -> executor_ctx_t]
       /\ held \in [Processes -> Nat]
       /\ group \in [Processes -> Processes \cup {ShellGroup}]
       /\ buf \in [0 .. MaxProcesses - 1 -> 0 .. PIPE_BUF]
  BY DEF PipelineInv, PipelineTypeOK
<1>11. PipelineTypeOK'
  <2>1. child' \in [Processes -> {"none", "forked", "joined", "running", "dead"}]
    BY <1>4, <1>9, <1>10
  <2>2. table' \in [Processes -> [Fds -> Ends]]
    BY <1>4, <1>9, <1>10
  <2>3. held' \in [Processes -> Nat]
    BY <1>4, <1>9, <1>10, LineType
  <2>4. n' \in 1 .. MaxProcesses + 1
    BY <1>2, <1>4, Constants
  <2>5. pc' \in {"sync", "setpgid"}
    BY <1>2
  <2> QED BY <1>2, <1>8, <1>10, <2>1, <2>2, <2>3, <2>4, <2>5 DEF PipelineTypeOK
<1>12. copy' \in [Processes -> executor_ctx_t]
  BY <1>4, <1>5, <1>9, <1>10
<1>13. LoopInv'
  BY <1>2, <1>3, <1>4, <1>5, LineType DEF LoopInv, Running, Forked, PipelineInv
<1>14. ShellInv'
  <2>1. pc' \in {"sync", "setpgid"} /\ Running' /\ Forked' /\ (pc' = "fork") = FALSE
    BY <1>2 DEF Running, Forked
  <2>2. ShellUses' = {ctx.sfd, ctx.in_fd, in, out} \cup (IF n = 1 THEN {ctx.sync_pipe[1]} ELSE {})
    BY <1>3, <1>5, <2>1 DEF ShellUses
  <2>3. ctx.sync_pipe[2] \notin {ctx.sfd, in, out} \/ n # 1
    BY <1>3, <1>6, FdsAre, EndsDiffer, PipeEndsDiffer
  <2>4. n = 1 => ctx.sync_pipe[1] # ctx.sync_pipe[2]
    BY <1>3, PipeEndsDiffer
  <2>5. \A m \in Free \ ShellUses' : Unused(fds, m)'
    BY <1>2, <1>3, <1>7, <1>8, <2>2, FdsAre DEF Unused
  <2>11. leaked' \cap (ShellUses' \cup {ctx'.sync_pipe[1], ctx'.sync_pipe[2]}) = {}
    BY <1>2, <1>3, <1>5, <1>6, <2>2
  <2>6. StandardOpen(fds)'
    BY <1>3, <1>7, <1>8, FdsAre DEF StandardOpen, STDIN_FILENO, STDOUT_FILENO, STDERR_FILENO
  <2>7. PipeOpen(fds, ctx.fd0, ctx.out_fd, n)'
    BY <1>2, <1>3, <1>5, <1>7, <1>8, <1>6, FdsAre DEF PipeOpen
  <2>8. fds'[ctx.sfd] = signals /\ (n = 1 => fds'[ctx.sync_pipe[1]] = ReadEnd(0))
    BY <1>3, <1>7, <1>8, <2>3, <2>4, FdsAre
  <2>9. IF n = 1 THEN ctx.in_fd = -1 ELSE ctx.in_fd \in Free /\ fds'[ctx.in_fd] = ReadEnd(n - 1)
    BY <1>3, <1>7, <1>8, FdsAre
  <2>10. n # Len(job) + 1
    BY <1>4
  <2> QED BY <1>2, <1>3, <1>5, <2>1, <2>5, <2>6, <2>7, <2>8, <2>9, <2>10, <2>11 DEF ShellInv
<1>15. ChildInv'
  <2> SUFFICES ASSUME NEW i \in Processes PROVE ChildOK(i)'
    BY DEF ChildInv
  <2>1. ~Forked /\ Forked'
    BY <1>2 DEF Forked
  <2>2. CASE i # n
    <3>1. UNCHANGED <<child[i], table[i], copy[i], job, leaked>>
      BY <1>2, <1>9, <1>10, <2>2
    <3>2. ChildOK(i)
      BY DEF PipelineInv, ChildInv
    <3> QED BY <1>2, <2>1, <2>2, <3>1, <3>2, ChildKept
  <2>3. CASE i = n
    <3>1. child'[i] = "forked" /\ table'[i] = t /\ copy'[i] = ctx'
      BY <1>4, <1>9, <1>10, <2>3
    <3>2. ChildUses(i)' = {ctx.in_fd, in, out, ctx.sfd}
                            \cup (IF i = 1 THEN {ctx.sync_pipe[1], ctx.sync_pipe[2]} ELSE {})
      BY <1>5, <3>1 DEF ChildUses
    <3>3. /\ \A m \in Free \ ChildUses(i)' : Unused(t, m)
          /\ leaked \cap ChildUses(i)' = {}
      BY <1>3, <1>6, <1>7, <2>3, <3>2
    <3>4. ConnectingInv(i)'
      BY <1>2, <1>3, <1>5, <1>7, <2>3, <3>1, <3>3
         DEF ConnectingInv, PipeOpen, StandardOpen, Unused
    <3> QED BY <1>2, <2>1, <2>3, <3>1, <3>4 DEF ChildOK, Alive
  <2> QED BY <2>2, <2>3
<1>16. GroupInv'
  <2>1. n = 1 => child[1] = "none"
    BY <1>2, <1>4, Constants DEF PipelineInv, ChildInv, ChildOK, Forked
  <2>2. FirstGroupInv'
    <3>1. n # 1 => child'[1] = child[1]
      BY <1>4, <1>9, <1>10, Constants
    <3>2. n = 1 => child'[1] = "forked" /\ ctx'.pgid = NoGroup
      BY <1>3, <1>4, <1>5, <1>9, <1>10
    <3> QED BY <1>2, <1>3, <1>5, <2>1, <3>1, <3>2
         DEF PipelineInv, GroupInv, FirstGroupInv, Alive, Running
  <2>3. ASSUME NEW i \in Processes \ {1} PROVE GroupOK(i)'
    <3>1. GroupOK(i)
      BY DEF PipelineInv, GroupInv
    <3>2. CASE i = n
      BY <1>2, <1>4, <1>5, <1>9, <1>10, <3>2 DEF GroupOK
    <3>3. CASE i # n
      BY <1>2, <1>3, <1>5, <1>9, <1>10, <3>1, <3>3 DEF GroupOK, Alive, Running
    <3> QED BY <3>2, <3>3
  <2> QED BY <2>2, <2>3 DEF GroupInv
<1> QED BY <1>2, <1>3, <1>5, <1>11, <1>12, <1>13, <1>14, <1>15, <1>16 DEF PipelineInv

(* The other steps of the shell change no child but its group.             *)
LEMMA ChildrenKept ==
  ASSUME PipelineInv, UNCHANGED <<child, table, copy, job, leaked>>,
         \A i \in Processes : (i < n \/ (i = n /\ Forked)) <=> (i < n \/ (i = n /\ Forked))'
  PROVE  ChildInv' /\ copy' \in [Processes -> executor_ctx_t]
<1>1. ASSUME NEW i \in Processes PROVE ChildOK(i)'
  <2>1. ChildOK(i)
    BY DEF PipelineInv, ChildInv
  <2>2. UNCHANGED <<child[i], table[i], copy[i], job, leaked>>
    OBVIOUS
  <2> QED BY <2>1, <2>2, ChildKept
<1> QED BY <1>1 DEF ChildInv, PipelineInv

LEMMA PipelineExits ==
  ASSUME PipelineInv, Exit, pc \in {"fork", "prompt"}
  PROVE  PipelineInv'
<1>1. /\ pc \in {"fork", "prompt"} /\ pc' = "exit" /\ fds' = no_descriptors
      /\ UNCHANGED <<ctx, job, n, leaked, child, table, copy, group, held, buf>>
  BY DEF Exit, childVars
<1>2. ~Forked /\ ~Forked' /\ ~Running'
  BY <1>1 DEF Forked, Running
<1>3. PipelineTypeOK'
  BY <1>1, NoDescriptors DEF PipelineInv, PipelineTypeOK
<1>4. ShellInv' /\ LoopInv'
  BY <1>1, <1>2 DEF ShellInv, LoopInv, PipelineInv
<1>5. ChildInv'
  BY <1>1, <1>2, ChildrenKept
<1>6. GroupInv'
  BY <1>1, <1>2 DEF PipelineInv, GroupInv, FirstGroupInv, GroupOK
<1> QED BY <1>1, <1>3, <1>4, <1>5, <1>6 DEF PipelineInv

(* The first child has spoken or is dead: no other end to write is left.   *)
LEMMA PipelineReadSync == ASSUME PipelineInv, ReadSync PROVE PipelineInv'
<1>1. /\ pc = "sync" /\ pc' = "close" /\ SyncReadReturns
      /\ buf' = [buf EXCEPT ![0] = 0]
      /\ fds' = Close(fds, ctx.sync_pipe[1])
      /\ ctx' = [ctx EXCEPT !.pgid = group[n]]
      /\ UNCHANGED <<job, n, leaked, child, table, copy, group, held>>
  BY DEF ReadSync, childVars
<1>2. Forked /\ Forked' /\ Running /\ Running'
  BY <1>1 DEF Forked, Running
<1>3. /\ job \in Lines /\ n = 1 /\ ctx.pgid = NoGroup /\ ctx \in executor_ctx_t
      /\ Len(job) \in 1 .. MaxProcesses
  <2>1. job \in Lines /\ n = 1 /\ ctx.pgid = NoGroup /\ ctx \in executor_ctx_t
    BY <1>1, <1>2 DEF PipelineInv, LoopInv
  <2> QED BY <2>1, LineType
<1>4. /\ ChildOK(1) /\ FirstGroupInv /\ 1 \in Processes
      /\ child[1] \in {"none", "forked", "joined", "running", "dead"}
  BY Constants DEF PipelineInv, ChildInv, GroupInv, PipelineTypeOK
<1>5. child[1] \notin {"none", "forked"}
  <2>1. child[1] # "none"
    BY <1>2, <1>3, <1>4 DEF ChildOK
  <2>2. ASSUME child[1] = "forked" PROVE FALSE
    <3>1. buf[0] \in 0 .. PIPE_BUF
      BY Constants DEF PipelineInv, PipelineTypeOK
    <3>2. ~Held(WriteEnd(0))
      BY <1>1, <1>4, <2>2, <3>1, Constants DEF SyncReadReturns, FirstGroupInv
    <3>3. ConnectingInv(1)
      BY <1>4, <2>2 DEF ChildOK
    <3>4. copy[1].sync_pipe[2] \in Fds /\ table[1][copy[1].sync_pipe[2]] = WriteEnd(0)
      BY <2>2, <3>3, FdsAre DEF ConnectingInv
    <3> QED BY <1>4, <3>2, <3>4 DEF Held
  <2> QED BY <2>1, <2>2
<1>6. /\ ctx' \in executor_ctx_t /\ ctx'.pgid \in {1, ShellGroup}
      /\ Alive(1) => ctx'.pgid = 1
      /\ ctx'.sfd = ctx.sfd /\ ctx'.in_fd = ctx.in_fd /\ ctx'.out_fd = ctx.out_fd
      /\ ctx'.sync_pipe = ctx.sync_pipe /\ ctx'.fd0 = ctx.fd0
  <2>1. /\ group[1] \in {1, ShellGroup} /\ group[1] \in Processes \cup {ShellGroup}
        /\ Alive(1) => group[1] = 1
    BY <1>4, <1>5 DEF FirstGroupInv, Alive, PipelineInv, PipelineTypeOK
  <2> QED BY <1>1, <1>3, <2>1 DEF executor_ctx_t
<1>7. ctx'.pgid # NoGroup
  BY <1>6, Constants
<1>8. /\ fds \in [Fds -> Ends] /\ StandardOpen(fds)
      /\ \A m \in Free \ ShellUses : Unused(fds, m)
      /\ leaked \cap (ShellUses \cup {ctx.sync_pipe[1], ctx.sync_pipe[2]}) = {}
      /\ ctx.sfd \in Free /\ fds[ctx.sfd] = signals
      /\ ctx.sync_pipe[1] \in Free /\ ctx.sync_pipe[2] \in Free
      /\ fds[ctx.sync_pipe[1]] = ReadEnd(0)
      /\ ctx.in_fd = -1
      /\ PipeOpen(fds, ctx.fd0, ctx.out_fd, 1)
      /\ ShellUses = {ctx.sfd, ctx.in_fd, ctx.sync_pipe[1], ctx.fd0, ctx.out_fd}
  BY <1>1, <1>2, <1>3 DEF PipelineInv, PipelineTypeOK, ShellInv, ShellUses
<1>9. /\ fds' \in [Fds -> Ends]
      /\ \A m \in Fds : fds'[m] = IF m = ctx.sync_pipe[1] THEN closed ELSE fds[m]
  BY <1>1, <1>8, CloseTable, FdsAre
<1>10. PipelineTypeOK'
  <2>1. buf' \in [0 .. MaxProcesses - 1 -> 0 .. PIPE_BUF]
    BY <1>1, Constants DEF PipelineInv, PipelineTypeOK
  <2> QED BY <1>1, <1>9, <2>1 DEF PipelineInv, PipelineTypeOK
<1>11. LoopInv'
  BY <1>1, <1>2, <1>3, <1>7, LineType DEF LoopInv
<1>12. ShellInv'
  <2>1. ShellUses' = {ctx.sfd, ctx.in_fd, ctx.fd0, ctx.out_fd}
    BY <1>1, <1>2, <1>6, <1>7 DEF ShellUses
  <2>2. /\ \A m \in Free \ ShellUses' : Unused(fds, m)'
        /\ leaked' \cap (ShellUses' \cup {ctx'.sync_pipe[1], ctx'.sync_pipe[2]}) = {}
    BY <1>1, <1>6, <1>8, <1>9, <2>1, FdsAre DEF Unused
  <2>3. StandardOpen(fds)'
    BY <1>8, <1>9, FdsAre DEF StandardOpen, STDIN_FILENO, STDOUT_FILENO, STDERR_FILENO
  <2>4. PipeOpen(fds, ctx.fd0, ctx.out_fd, n)'
    <3>1. n' = 1 /\ job' = job /\ ctx'.fd0 = ctx.fd0 /\ ctx'.out_fd = ctx.out_fd
      BY <1>1, <1>3, <1>6
    <3>2. ASSUME NEW m \in Free, NEW end, fds[m] = end, end \in {ReadEnd(1), WriteEnd(1)}
          PROVE  fds'[m] = end
      <4>1. end # ReadEnd(0)
        BY <3>2, PipeEndsDiffer
      <4> QED BY <1>8, <1>9, <3>2, <4>1, FdsAre
    <3>3. CASE 1 = Len(job)
      BY <1>8, <3>1, <3>3 DEF PipeOpen
    <3>4. CASE 1 # Len(job)
      BY <1>8, <3>1, <3>2, <3>4 DEF PipeOpen
    <3> QED BY <3>3, <3>4
  <2>5. fds'[ctx.sfd] = signals
    BY <1>8, <1>9, FdsAre, PipeEndsDiffer
  <2> QED BY <1>1, <1>2, <1>3, <1>6, <1>7, <1>8, <2>2, <2>3, <2>4, <2>5 DEF ShellInv
<1>13. ChildInv' /\ copy' \in [Processes -> executor_ctx_t]
  BY <1>1, <1>2, ChildrenKept
<1>14. GroupInv'
  <2>1. buf'[0] = 0
    BY <1>1, Constants DEF PipelineInv, PipelineTypeOK
  <2>2. FirstGroupInv'
    BY <1>1, <1>4, <1>5, <1>6, <2>1 DEF FirstGroupInv, Alive
  <2>3. ASSUME NEW i \in Processes \ {1} PROVE GroupOK(i)'
    <3>1. child[i] = "none"
      <4>1. ChildOK(i) /\ i \in Nat /\ i > 1
        BY Constants DEF PipelineInv, ChildInv, Processes
      <4> QED BY <1>3, <4>1 DEF ChildOK
    <3> QED BY <1>1, <3>1 DEF GroupOK, Alive
  <2> QED BY <2>2, <2>3 DEF GroupInv
<1> QED BY <1>1, <1>6, <1>10, <1>11, <1>12, <1>13, <1>14 DEF PipelineInv

(* The parent's setpgid comes too late only for a child that has made its  *)
(* own.                                                                    *)
LEMMA PipelineSetGroup == ASSUME PipelineInv, SetGroup PROVE PipelineInv'
<1>1. /\ pc = "setpgid" /\ pc' = "close"
      /\ group' = IF child[n] = "running" THEN group ELSE [group EXCEPT ![n] = ctx.pgid]
      /\ UNCHANGED <<fds, ctx, job, n, leaked, child, table, copy, held, buf>>
  BY DEF SetGroup, setpgid_by_parent
<1>2. Forked /\ Forked' /\ Running /\ Running'
  BY <1>1 DEF Forked, Running
<1>3. /\ job \in Lines /\ n > 1 /\ ctx.pgid # NoGroup
      /\ n \in Processes /\ FirstGroupInv /\ ctx.pgid \in {1, ShellGroup}
  <2>1. job \in Lines /\ n > 1 /\ ctx.pgid # NoGroup /\ n \in 1 .. Len(job) + 1 /\ n <= Len(job)
    BY <1>1, <1>2 DEF PipelineInv, LoopInv
  <2>2. FirstGroupInv /\ ctx.pgid \in {1, ShellGroup}
    BY <1>2, <2>1 DEF PipelineInv, GroupInv, FirstGroupInv
  <2> QED BY <2>1, <2>2, LineType, Constants DEF Processes
<1>4. /\ group' \in [Processes -> Processes \cup {ShellGroup}]
      /\ \A i \in Processes \ {n} : group'[i] = group[i]
      /\ child[n] # "running" => group'[n] = ctx.pgid
      /\ child[n] = "running" => group'[n] = group[n]
  <2>1. /\ group \in [Processes -> Processes \cup {ShellGroup}]
        /\ ctx.pgid \in Processes \cup {ShellGroup}
    BY <1>3, Constants DEF PipelineInv, PipelineTypeOK
  <2> QED BY <1>1, <1>3, <2>1
<1>5. PipelineTypeOK'
  BY <1>1, <1>4 DEF PipelineInv, PipelineTypeOK
<1>6. LoopInv' /\ ShellInv'
  BY <1>1, <1>2, <1>3
     DEF PipelineInv, LoopInv, ShellInv, StandardOpen, PipeOpen, ShellUses, Unused
<1>7. ChildInv' /\ copy' \in [Processes -> executor_ctx_t]
  BY <1>1, <1>2, ChildrenKept
<1>8. GroupInv'
  <2>1. n # 1 /\ 1 \in Processes
    BY <1>3, Constants
  <2>2. FirstGroupInv'
    BY <1>1, <1>2, <1>3, <1>4, <2>1 DEF FirstGroupInv, Alive
  <2>3. ASSUME NEW i \in Processes \ {1} PROVE GroupOK(i)'
    BY <1>1, <1>2, <1>3, <1>4, Constants DEF PipelineInv, GroupInv, GroupOK, Alive
  <2> QED BY <2>2, <2>3 DEF GroupInv
<1> QED BY <1>1, <1>5, <1>6, <1>7, <1>8 DEF PipelineInv

(* What the shell keeps for the next process: the end it reads from.       *)
LEMMA PipelineParentCloses == ASSUME PipelineInv, ParentCloses PROVE PipelineInv'
<1>1. /\ pc = "close" /\ pc' = "fork"
      /\ fds' = Close(Close(fds, ctx.in_fd), ctx.out_fd)
      /\ ctx' = [ctx EXCEPT !.in_fd = ctx.fd0]
      /\ n' = n + 1
      /\ UNCHANGED <<job, leaked, child, table, copy, group, held, buf>>
  BY DEF ParentCloses, close_pipes, childVars
<1>2. Forked /\ ~Forked' /\ Running /\ Running'
  BY <1>1 DEF Forked, Running
<1>3. /\ job \in Lines /\ n \in 1 .. Len(job) /\ ctx.pgid # NoGroup /\ ctx \in executor_ctx_t
      /\ Len(job) \in 1 .. MaxProcesses
  <2>1. /\ job \in Lines /\ n \in 1 .. Len(job) + 1 /\ n <= Len(job) /\ ctx.pgid # NoGroup
        /\ ctx \in executor_ctx_t
    BY <1>1, <1>2 DEF PipelineInv, LoopInv
  <2> QED BY <2>1, LineType
<1>4. /\ ctx' \in executor_ctx_t /\ ctx'.pgid = ctx.pgid /\ ctx'.sfd = ctx.sfd
      /\ ctx'.in_fd = ctx.fd0 /\ ctx'.out_fd = ctx.out_fd /\ ctx'.sync_pipe = ctx.sync_pipe
  BY <1>1, <1>3 DEF executor_ctx_t
<1>5. /\ fds \in [Fds -> Ends] /\ StandardOpen(fds)
      /\ \A m \in Free \ ShellUses : Unused(fds, m)
      /\ leaked \cap (ShellUses \cup {ctx.sync_pipe[1], ctx.sync_pipe[2]}) = {}
      /\ ctx.sfd \in Free /\ fds[ctx.sfd] = signals
      /\ ctx.sync_pipe[1] \in Free /\ ctx.sync_pipe[2] \in Free
      /\ IF n = 1 THEN ctx.in_fd = -1
         ELSE ctx.in_fd \in Free /\ fds[ctx.in_fd] = ReadEnd(n - 1)
      /\ PipeOpen(fds, ctx.fd0, ctx.out_fd, n)
      /\ ShellUses = {ctx.sfd, ctx.in_fd, ctx.fd0, ctx.out_fd}
  <2>1. n # Len(job) + 1
    BY <1>3
  <2> QED BY <1>1, <1>2, <1>3, <2>1 DEF PipelineInv, PipelineTypeOK, ShellInv, ShellUses
<1>6. /\ fds' \in [Fds -> Ends]
      /\ \A m \in Fds : fds'[m] = IF m \in {ctx.in_fd, ctx.out_fd} THEN closed ELSE fds[m]
  <2>1. ctx.in_fd \in Numbers /\ ctx.out_fd \in Numbers
    BY <1>3 DEF executor_ctx_t
  <2>2. PICK t : t = Close(fds, ctx.in_fd)
    OBVIOUS
  <2>3. t \in [Fds -> Ends] /\ \A m \in Fds : t[m] = IF m = ctx.in_fd THEN closed ELSE fds[m]
    BY <1>5, <2>1, <2>2, CloseTable
  <2>4. fds' = Close(t, ctx.out_fd)
    BY <1>1, <2>2
  <2>5. /\ fds' \in [Fds -> Ends]
        /\ \A m \in Fds : fds'[m] = IF m = ctx.out_fd THEN closed ELSE t[m]
    BY <2>1, <2>3, <2>4, CloseTable
  <2> QED BY <2>3, <2>5
<1>7. IF n = Len(job) THEN ctx.fd0 = -1
      ELSE ctx.fd0 \in Free /\ fds'[ctx.fd0] = ReadEnd(n)
  <2>1. CASE n = Len(job)
    BY <1>5, <2>1 DEF PipeOpen
  <2>2. CASE n # Len(job)
    <3>1. ctx.fd0 \in Free /\ ctx.fd0 # ctx.out_fd /\ fds[ctx.fd0] = ReadEnd(n)
      BY <1>5, <2>2 DEF PipeOpen
    <3>2. n - 1 # n
      BY <1>3
    <3>3. ctx.fd0 # ctx.in_fd
      BY <1>5, <3>1, <3>2, FdsAre, PipeEndsDiffer
    <3> QED BY <1>6, <2>2, <3>1, <3>3, FdsAre
  <2> QED BY <2>1, <2>2
<1>8. ctx.out_fd \in Free \cup {-1} /\ ctx.in_fd \in Free \cup {-1}
  BY <1>5 DEF PipeOpen
<1>9. PipelineTypeOK'
  <2>1. n' \in 1 .. MaxProcesses + 1
    BY <1>1, <1>3, Constants
  <2>2. ctx'.in_fd # -1 => fds'[ctx'.in_fd] = ReadEnd((n - 1)')
    <3>1. n' - 1 = n
      BY <1>1, <1>3
    <3> QED BY <1>4, <1>7, <3>1
  <2> QED BY <1>1, <1>6, <2>1, <2>2 DEF PipelineInv, PipelineTypeOK
<1>10. LoopInv'
  <2>1. job # <<>> /\ n' \in 1 .. Len(job) + 1 /\ n' # 1
    BY <1>1, <1>3
  <2> QED BY <1>1, <1>2, <1>3, <1>4, <2>1 DEF LoopInv
<1>11. ShellInv'
  <2>1. ShellUses' = {ctx.sfd, ctx.fd0}
    BY <1>1, <1>2, <1>3, <1>4 DEF ShellUses
  <2>2. /\ \A m \in Free \ ShellUses' : Unused(fds, m)'
        /\ leaked' \cap (ShellUses' \cup {ctx'.sync_pipe[1], ctx'.sync_pipe[2]}) = {}
    BY <1>1, <1>4, <1>5, <1>6, <2>1, FdsAre DEF Unused
  <2>3. StandardOpen(fds)'
    BY <1>5, <1>6, <1>8, FdsAre DEF StandardOpen, STDIN_FILENO, STDOUT_FILENO, STDERR_FILENO
  <2>4. fds'[ctx.sfd] = signals
    <3>1. ctx.sfd # ctx.in_fd /\ ctx.sfd # ctx.out_fd
      BY <1>5, FdsAre, PipeEndsDiffer DEF PipeOpen
    <3> QED BY <1>5, <1>6, <3>1, FdsAre
  <2>5. IF n' = 1 \/ n' = Len(job) + 1 THEN ctx'.in_fd = -1
        ELSE ctx'.in_fd \in Free /\ fds'[ctx'.in_fd] = ReadEnd((n - 1)')
    <3>1. n' - 1 = n /\ n' # 1 /\ (n' = Len(job) + 1 <=> n = Len(job))
      BY <1>1, <1>3
    <3> QED BY <1>4, <1>7, <3>1
  <2> QED BY <1>1, <1>2, <1>3, <1>4, <1>5, <2>2, <2>3, <2>4, <2>5 DEF ShellInv
<1>12. ChildInv' /\ copy' \in [Processes -> executor_ctx_t]
  <2>1. ASSUME NEW i \in Processes
        PROVE  (i < n \/ (i = n /\ Forked)) <=> (i < n \/ (i = n /\ Forked))'
    BY <1>1, <1>2, <1>3, Constants
  <2> QED BY <1>1, <2>1, ChildrenKept
<1>13. GroupInv'
  <2>1. FirstGroupInv'
    BY <1>1, <1>2, <1>3, <1>4 DEF PipelineInv, GroupInv, FirstGroupInv, Alive
  <2>2. ASSUME NEW i \in Processes \ {1} PROVE GroupOK(i)'
    BY <1>1, <1>2, <1>3, <1>4, Constants DEF PipelineInv, GroupInv, GroupOK, Alive
  <2> QED BY <2>1, <2>2 DEF GroupInv
<1> QED BY <1>1, <1>4, <1>9, <1>10, <1>11, <1>12, <1>13 DEF PipelineInv

LEMMA PipelineWaits == ASSUME PipelineInv, Launch \/ JobFinished PROVE PipelineInv'
<1>1. /\ (pc = "fork" /\ n > Len(job) /\ pc' \in {"wait", "leave"}) \/ (pc = "wait" /\ pc' = "leave")
      /\ UNCHANGED <<fds, ctx, job, n, leaked, child, table, copy, group, held, buf>>
  BY DEF Launch, JobFinished, childVars
<1>2. ~Forked /\ ~Forked' /\ Running /\ Running'
  BY <1>1 DEF Forked, Running
<1>3. job \in Lines /\ n = Len(job) + 1 /\ n # 1 /\ ctx.pgid # NoGroup
  <2>1. job \in Lines /\ n \in 1 .. Len(job) + 1
    BY <1>1, <1>2 DEF PipelineInv, LoopInv
  <2>2. Len(job) \in 1 .. MaxProcesses
    BY <2>1, LineType
  <2>3. n = Len(job) + 1 /\ n # 1
    BY <1>1, <2>1, <2>2 DEF PipelineInv, LoopInv
  <2> QED BY <1>1, <2>1, <2>3 DEF PipelineInv, LoopInv
<1>4. PipelineTypeOK'
  BY <1>1 DEF PipelineInv, PipelineTypeOK
<1>5. LoopInv'
  BY <1>1, <1>2, <1>3, LineType DEF PipelineInv, LoopInv
<1>6. ShellInv'
  BY <1>1, <1>2, <1>3 DEF PipelineInv, ShellInv, StandardOpen, PipeOpen, ShellUses, Unused
<1>7. ChildInv' /\ copy' \in [Processes -> executor_ctx_t]
  BY <1>1, <1>2, ChildrenKept
<1>8. n' = n /\ n \in Nat /\ \A i \in Processes : i \in Nat
  BY <1>1, Constants DEF PipelineInv, PipelineTypeOK
<1>9. GroupInv'
  <2>1. FirstGroupInv'
    BY <1>1, <1>2, <1>3 DEF PipelineInv, GroupInv, FirstGroupInv, Alive
  <2>2. ASSUME NEW i \in Processes \ {1} PROVE GroupOK(i)'
    <3>1. GroupOK(i) /\ ChildOK(i)
      BY DEF PipelineInv, GroupInv, ChildInv
    <3> QED BY <1>1, <1>2, <1>8, <3>1 DEF GroupOK, ChildOK, Alive
  <2> QED BY <2>1, <2>2 DEF GroupInv
<1> QED BY <1>1, <1>4, <1>5, <1>6, <1>7, <1>9 DEF PipelineInv

(* The numbers of the synchronisation pipe have been closed before, and    *)
(* nothing but the signal descriptor is open above the ones that stay.     *)
LEMMA PipelineLeaveRunJob == ASSUME PipelineInv, LeaveRunJob PROVE PipelineInv'
<1>1. /\ pc = "leave" /\ pc' = "prompt" /\ ctx' = no_ctx
      /\ fds' = Close(Close(Close(fds, ctx.sfd), ctx.sync_pipe[1]), ctx.sync_pipe[2])
      /\ UNCHANGED <<job, n, leaked, child, table, copy, group, held, buf>>
  BY DEF LeaveRunJob, executor_destroy_context, childVars
<1>2. ~Forked /\ ~Forked' /\ Running /\ ~Running'
  BY <1>1 DEF Forked, Running
<1>3. /\ fds \in [Fds -> Ends] /\ StandardOpen(fds)
      /\ \A m \in Free \ {ctx.sfd, -1} : Unused(fds, m)
      /\ leaked \cap {ctx.sfd, ctx.sync_pipe[1], ctx.sync_pipe[2]} = {}
      /\ ctx.sfd \in Free /\ ctx.sync_pipe[1] \in Free /\ ctx.sync_pipe[2] \in Free
  <2>1. ctx.pgid # NoGroup /\ n = Len(job) + 1
    BY <1>1 DEF PipelineInv, LoopInv
  <2> QED BY <1>1, <1>2, <2>1 DEF PipelineInv, PipelineTypeOK, ShellInv, ShellUses
<1>4. /\ fds' \in [Fds -> Ends]
      /\ \A m \in Fds : fds'[m] = IF m \in {ctx.sfd, ctx.sync_pipe[1], ctx.sync_pipe[2]}
                                  THEN closed ELSE fds[m]
  <2>1. ctx.sfd \in Numbers /\ ctx.sync_pipe[1] \in Numbers /\ ctx.sync_pipe[2] \in Numbers
    BY <1>3, FdsAre
  <2>2. PICK t : t = Close(fds, ctx.sfd)
    OBVIOUS
  <2>3. t \in [Fds -> Ends] /\ \A m \in Fds : t[m] = IF m = ctx.sfd THEN closed ELSE fds[m]
    BY <1>3, <2>1, <2>2, CloseTable
  <2>4. PICK u : u = Close(t, ctx.sync_pipe[1])
    OBVIOUS
  <2>5. /\ u \in [Fds -> Ends]
        /\ \A m \in Fds : u[m] = IF m = ctx.sync_pipe[1] THEN closed ELSE t[m]
    BY <2>1, <2>3, <2>4, CloseTable
  <2>6. fds' = Close(u, ctx.sync_pipe[2])
    BY <1>1, <2>2, <2>4
  <2>7. /\ fds' \in [Fds -> Ends]
        /\ \A m \in Fds : fds'[m] = IF m = ctx.sync_pipe[2] THEN closed ELSE u[m]
    BY <2>1, <2>5, <2>6, CloseTable
  <2> QED BY <2>3, <2>5, <2>7
<1>5. PipelineTypeOK'
  BY <1>1, <1>4 DEF PipelineInv, PipelineTypeOK
<1>6. LoopInv'
  BY <1>1, <1>2 DEF PipelineInv, LoopInv
<1>7. ShellInv'
  <2>1. StandardOpen(fds)'
    BY <1>3, <1>4, FdsAre DEF StandardOpen, STDIN_FILENO, STDOUT_FILENO, STDERR_FILENO
  <2>2. \A m \in Free : Unused(fds, m)'
    BY <1>1, <1>3, <1>4, FdsAre DEF Unused
  <2> QED BY <1>1, <1>2, <2>1, <2>2 DEF ShellInv
<1>8. ChildInv' /\ copy' \in [Processes -> executor_ctx_t]
  BY <1>1, <1>2, ChildrenKept
<1>9. GroupInv'
  BY <1>1, <1>2 DEF PipelineInv, GroupInv, FirstGroupInv, GroupOK
<1> QED BY <1>1, <1>5, <1>6, <1>7, <1>8, <1>9, NobodyForked DEF PipelineInv

LEMMA OpenTable ==
  ASSUME NEW t \in [Fds -> Ends], NEW f \in Ends, StandardOpen(t)
  PROVE  /\ Lowest(t) \in Free \cup {-1}
         /\ Lowest(t) = -1 <=> Full(t)
         /\ Lowest(t) # -1 => t[Lowest(t)] = closed
         /\ Open(t, f) \in [Fds -> Ends]
         /\ \A m \in Fds : Open(t, f)[m] = IF m = Lowest(t) THEN f ELSE t[m]
<1>1. /\ Lowest(t) = -1 <=> Full(t)
      /\ ~Full(t) => Lowest(t) \in Fds /\ t[Lowest(t)] = closed
  BY LowestOfFull
<1>2. ~Full(t) => Lowest(t) \in Free
  BY <1>1, ClosedIsFree
<1> QED BY <1>1, <1>2, FdsAre DEF Open

LEMMA MoveTable ==
  ASSUME NEW t \in [Fds -> Ends], NEW old \in Numbers, NEW new \in Fds, old # new
  PROVE  /\ Move(t, old, new) \in [Fds -> Ends]
         /\ \A m \in Fds :
              Move(t, old, new)[m] = IF old = -1 THEN t[m]
                                     ELSE IF m = old THEN closed
                                     ELSE IF m = new THEN t[old] ELSE t[m]
<1>1. old = -1 \/ old \in Fds
  BY Constants DEF Numbers, Fds
<1>2. closed \in Ends
  BY EndsOfPipes
<1> QED BY <1>1, <1>2, FdsAre DEF Move

(* Standard input and output are saved at numbers that were closed, if     *)
(* there are any, and put back from these.  What is opened meanwhile at    *)
(* another number stays.                                                   *)
LEMMA BuiltinUndone ==
  ASSUME StandardRedirections, PipelineInv, pc = "prompt", NEW redir \in Redirections,
         CanRedirect(saved(fds), redir),
         NEW l \in Numbers, NEW v \in [Fds -> Ends],
         LET used == handle_redirection(saved(fds), redir) IN
         /\ l # -1 => used[l] = closed
         /\ \A m \in Fds \ {l} : v[m] = used[m]
  PROVE  /\ l \in Free \cup {-1}
         /\ l # -1 => fds[l] = closed
         /\ put_back(fds, v) \in [Fds -> Ends]
         /\ StandardOpen(put_back(fds, v))
         /\ \A m \in Free : put_back(fds, v)[m] = IF m = l THEN v[l] ELSE fds[m]
<1>1. fds \in [Fds -> Ends] /\ StandardOpen(fds)
  BY DEF PipelineInv, PipelineTypeOK, ShellInv
<1>2. fds[0] = terminal /\ fds[1] = terminal /\ terminal # closed /\ terminal \in Ends
  BY <1>1, EndsDiffer, EndsOfPipes DEF StandardOpen, STDIN_FILENO, STDOUT_FILENO
<1>3. PICK a : a = Lowest(fds)
  OBVIOUS
<1>4. PICK t : t = Open(fds, terminal)
  OBVIOUS
<1>5. /\ a \in Free \cup {-1} /\ (a = -1 <=> Full(fds)) /\ (a # -1 => fds[a] = closed)
      /\ t \in [Fds -> Ends] /\ \A m \in Fds : t[m] = IF m = a THEN terminal ELSE fds[m]
  BY <1>1, <1>2, <1>3, <1>4, OpenTable
<1>6. StandardOpen(t)
  BY <1>1, <1>5, FdsAre DEF StandardOpen, STDIN_FILENO, STDOUT_FILENO, STDERR_FILENO
<1>7. PICK b : b = Lowest(t)
  OBVIOUS
<1>8. PICK u : u = Open(t, terminal)
  OBVIOUS
<1>9. /\ b \in Free \cup {-1} /\ (b = -1 <=> Full(t)) /\ (b # -1 => fds[b] = closed /\ b # a)
      /\ u \in [Fds -> Ends]
      /\ \A m \in Fds : u[m] = IF m \in {a, b} THEN terminal ELSE fds[m]
  <2>1. /\ b \in Free \cup {-1} /\ (b = -1 <=> Full(t)) /\ (b # -1 => t[b] = closed)
        /\ u \in [Fds -> Ends]
        /\ \A m \in Fds : u[m] = IF m = b THEN terminal ELSE t[m]
    BY <1>2, <1>5, <1>6, <1>7, <1>8, OpenTable
  <2> QED BY <1>2, <1>5, <2>1, FdsAre
<1>10. PICK used : used = handle_redirection(u, redir)
  OBVIOUS
<1>11. saved(fds) = u /\ t[1] = terminal
  <2>1. t[1] = terminal
    BY <1>6 DEF StandardOpen, STDOUT_FILENO
  <2> QED BY <1>2, <1>4, <1>8, <2>1 DEF saved, STDIN_FILENO, STDOUT_FILENO
<1>12. /\ used \in [Fds -> Ends]
       /\ \A m \in 0 .. 2 : used[m] \in {u[m], file}
       /\ \A m \in Fds \ (0 .. 2) : used[m] = u[m]
  BY <1>9, <1>10, Redirected
<1>13. a = -1 \/ b = -1 => used = u /\ Full(u)
  <2>1. a = -1 => Full(u)
    BY <1>2, <1>5, <1>9 DEF Full
  <2>2. b = -1 => Full(u)
    BY <1>2, <1>5, <1>9 DEF Full
  <2>3. Full(u) => redir = <<>>
    BY <1>11 DEF CanRedirect
  <2>4. redir = <<>> => used = u
    BY <1>9, <1>10 DEF handle_redirection
  <2> QED BY <2>1, <2>2, <2>3, <2>4
<1>14. /\ l # -1 => used[l] = closed
       /\ \A m \in Fds \ {l} : v[m] = used[m]
  BY <1>10, <1>11
<1>15. l = -1 \/ (l \in Free /\ l \notin {a, b} /\ fds[l] = closed)
  <2> SUFFICES ASSUME l # -1 PROVE l \in Free /\ l \notin {a, b} /\ fds[l] = closed
    OBVIOUS
  <2>1. l \in Fds /\ used[l] = closed
    BY <1>14, Constants DEF Numbers, Fds
  <2>2. l \notin 0 .. 2
    <3>1. l \in 0 .. 2 => u[l] \in {terminal, file}
      BY <1>1, <1>5, <1>9, FdsAre
         DEF StandardOpen, STDIN_FILENO, STDOUT_FILENO, STDERR_FILENO
    <3> QED BY <1>12, <2>1, <3>1, EndsDiffer
  <2>3. u[l] = closed
    BY <1>12, <2>1, <2>2
  <2>4. l \notin {a, b} /\ fds[l] = closed
    BY <1>2, <1>9, <2>1, <2>3
  <2> QED BY <1>1, <2>1, <2>4, ClosedIsFree
<1>16. put_back(fds, v) = Move(Move(v, a, 0), b, 1)
  BY <1>2, <1>3, <1>4, <1>7 DEF put_back, STDIN_FILENO, STDOUT_FILENO
<1>17. PICK back : back = Move(v, a, 0)
  OBVIOUS
<1>18. PICK w : w = Move(back, b, 1)
  OBVIOUS
<1>19. /\ a \in Numbers /\ b \in Numbers
       /\ a \notin {0, 1, 2, 3} /\ b \notin {0, 1, 2, 3} /\ l \notin {0, 1, 2, 3}
       /\ 0 \in Fds /\ 1 \in Fds /\ 2 \in Fds /\ 3 \in Fds
  BY <1>5, <1>9, <1>15, FdsAre
<1>20. /\ back \in [Fds -> Ends]
       /\ \A m \in Fds : back[m] = IF a = -1 THEN v[m] ELSE IF m = a THEN closed
                                   ELSE IF m = 0 THEN v[a] ELSE v[m]
  BY <1>17, <1>19, MoveTable
<1>21. /\ w \in [Fds -> Ends]
       /\ \A m \in Fds : w[m] = IF b = -1 THEN back[m] ELSE IF m = b THEN closed
                                ELSE IF m = 1 THEN back[b] ELSE back[m]
  BY <1>18, <1>19, <1>20, MoveTable
<1>22. w[0] = terminal
  <2>1. w[0] = back[0]
    BY <1>19, <1>21
  <2>2. CASE a = -1
    BY <1>2, <1>9, <1>13, <1>14, <1>19, <1>20, <2>1, <2>2
  <2>3. CASE a # -1
    <3>1. back[0] = v[a] /\ a \in Free
      BY <1>5, <1>19, <1>20, <2>3
    <3>2. v[a] = used[a] /\ used[a] = u[a] /\ u[a] = terminal
      BY <1>9, <1>12, <1>14, <1>15, <1>19, <2>3, <3>1, FdsAre
    <3> QED BY <2>1, <3>1, <3>2
  <2> QED BY <2>2, <2>3
<1>23. w[1] = terminal
  <2>1. CASE b = -1
    <3>1. w[1] = back[1] /\ back[1] = v[1]
      BY <1>19, <1>20, <1>21, <2>1
    <3> QED BY <1>2, <1>9, <1>13, <1>14, <1>19, <2>1, <3>1
  <2>2. CASE b # -1
    <3>1. w[1] = back[b] /\ b \in Free
      BY <1>9, <1>19, <1>21, <2>2
    <3>2. back[b] = v[b]
      BY <1>9, <1>19, <1>20, <2>2, <3>1, FdsAre
    <3>3. v[b] = used[b] /\ used[b] = u[b] /\ u[b] = terminal
      BY <1>9, <1>12, <1>14, <1>15, <1>19, <2>2, <3>1, FdsAre
    <3> QED BY <3>1, <3>2, <3>3
  <2> QED BY <2>1, <2>2
<1>24. w[2] \in {terminal, file} /\ w[3] = history
  <2>1. fds[2] \in {terminal, file} /\ fds[3] = history
    BY <1>1 DEF StandardOpen, STDERR_FILENO
  <2>2. u[2] = fds[2] /\ u[3] = fds[3]
    BY <1>9, <1>19, FdsAre
  <2>3. v[2] \in {u[2], file} /\ v[3] = u[3]
    BY <1>12, <1>14, <1>19, FdsAre
  <2>4. w[2] = v[2] /\ w[3] = v[3]
    BY <1>19, <1>20, <1>21
  <2> QED BY <2>1, <2>2, <2>3, <2>4
<1>25. ASSUME NEW m \in Free PROVE w[m] = IF m = l THEN v[l] ELSE fds[m]
  <2>1. m \in Fds \ (0 .. 2) /\ m # 0 /\ m # 1 /\ m # -1
    BY FdsAre
  <2>2. w[m] = IF m \in {a, b} THEN closed ELSE v[m]
    BY <1>20, <1>21, <2>1
  <2>3. m # l => v[m] = IF m \in {a, b} THEN terminal ELSE fds[m]
    BY <1>9, <1>12, <1>14, <2>1
  <2> QED BY <1>5, <1>9, <1>15, <2>1, <2>2, <2>3
<1>26. put_back(fds, v) = w
  BY <1>16, <1>17, <1>18
<1>27. StandardOpen(w)
  BY <1>22, <1>23, <1>24 DEF StandardOpen, STDIN_FILENO, STDOUT_FILENO, STDERR_FILENO
<1> QED BY <1>15, <1>21, <1>25, <1>26, <1>27

(* What a builtin leaves of the shell's descriptors: fg leaves its own.    *)
LEMMA BuiltinLeaves ==
  ASSUME StandardRedirections, PipelineInv, NEW redir \in Redirections,
         RunBuiltin(redir) \/ BringToForeground(redir)
  PROVE  /\ fds' \in [Fds -> Ends] /\ StandardOpen(fds)' /\ leaked' \in SUBSET Free
         /\ \A m \in Free : Unused(fds, m)'
<1> DEFINE used == handle_redirection(saved(fds), redir)
<1>1. /\ pc = "prompt" /\ CanRedirect(saved(fds), redir) /\ leaked \in SUBSET Free
      /\ \A m \in Free : Unused(fds, m)
  BY DEF RunBuiltin, BringToForeground, PipelineInv, ShellInv
<1>2. used \in [Fds -> Ends] /\ -1 \in Numbers
  <2>1. fds \in [Fds -> Ends]
    BY DEF PipelineInv, PipelineTypeOK
  <2>2. ASSUME NEW t \in [Fds -> Ends], NEW f \in Ends PROVE Open(t, f) \in [Fds -> Ends]
    BY <2>2, LowestOfFull DEF Open
  <2>3. PICK t : t = Open(fds, fds[0])
    OBVIOUS
  <2>4. t \in [Fds -> Ends] /\ t[1] \in Ends
    BY <2>1, <2>2, <2>3, FdsAre
  <2>5. 0 \in Fds /\ 1 \in Fds /\ fds[0] \in Ends
    BY <2>1, FdsAre
  <2>6. saved(fds) = Open(Open(fds, fds[0]), fds[1])
    BY DEF saved, STDIN_FILENO, STDOUT_FILENO
  <2>7. saved(fds) \in [Fds -> Ends]
    BY <2>1, <2>2, <2>3, <2>4, <2>5, <2>6
  <2> QED BY <2>7, Redirected, FdsAre
<1>3. CASE RunBuiltin(redir)
  <2>1. /\ put_back(fds, used) \in [Fds -> Ends] /\ StandardOpen(put_back(fds, used))
        /\ \A m \in Free : put_back(fds, used)[m] = fds[m]
    BY <1>1, <1>2, BuiltinUndone, FdsAre
  <2>2. fds' = put_back(fds, used) /\ leaked' = leaked
    BY <1>3 DEF RunBuiltin
  <2> QED BY <1>1, <2>1, <2>2 DEF Unused, StandardOpen
<1>4. CASE BringToForeground(redir)
  <2>1. PICK l : l = Lowest(used)
    OBVIOUS
  <2>2. l \in Fds /\ used[l] = closed /\ ~Full(used)
    BY <1>4, <2>1, LowestOfFull DEF BringToForeground
  <2>3. PICK v : v = Open(used, signals)
    OBVIOUS
  <2>4. v \in [Fds -> Ends] /\ v[l] = signals /\ \A m \in Fds \ {l} : v[m] = used[m]
    BY <1>2, <2>1, <2>2, <2>3, EndsOfPipes DEF Open
  <2>5. l \in Numbers
    BY <2>2, Constants DEF Fds, Numbers
  <2>6. /\ l \in Free \cup {-1}
        /\ put_back(fds, v) \in [Fds -> Ends] /\ StandardOpen(put_back(fds, v))
        /\ \A m \in Free : put_back(fds, v)[m] = IF m = l THEN v[l] ELSE fds[m]
    BY <1>1, <2>2, <2>4, <2>5, BuiltinUndone
  <2>7. fds' = put_back(fds, v) /\ leaked' = leaked \cup {l}
    BY <1>4, <2>1, <2>3 DEF BringToForeground
  <2>8. l \in Free
    BY <2>2, <2>6, FdsAre
  <2> QED BY <1>1, <2>4, <2>6, <2>7, <2>8 DEF Unused, StandardOpen
<1> QED BY <1>3, <1>4

LEMMA PipelineBuiltins ==
  ASSUME StandardRedirections, PipelineInv, NEW redir \in Redirections,
         RunBuiltin(redir) \/ BringToForeground(redir)
  PROVE  PipelineInv'
<1>1. /\ pc = "prompt" /\ pc' = "prompt"
      /\ UNCHANGED <<ctx, job, n, child, table, copy, group, held, buf>>
      /\ leaked' = leaked \/ Finished
  BY DEF RunBuiltin, BringToForeground, childVars
<1>2. /\ fds' \in [Fds -> Ends] /\ StandardOpen(fds)' /\ leaked' \in SUBSET Free
      /\ \A m \in Free : Unused(fds, m)'
  BY BuiltinLeaves
<1>3. ~Forked /\ ~Forked' /\ ~Running /\ ~Running'
  BY <1>1 DEF Forked, Running
<1>4. PipelineTypeOK'
  BY <1>1, <1>2 DEF PipelineInv, PipelineTypeOK
<1>5. LoopInv'
  BY <1>1, <1>3 DEF PipelineInv, LoopInv
<1>6. ShellInv'
  BY <1>1, <1>2, <1>3 DEF ShellInv
<1>7. ChildInv' /\ copy' \in [Processes -> executor_ctx_t]
  <2>1. CASE leaked' = leaked
    BY <1>1, <1>3, <2>1, ChildrenKept
  <2>2. CASE Finished
    <3>1. ASSUME NEW i \in Processes PROVE ChildOK(i)'
      <4>1. ChildOK(i) /\ ~Alive(i)
        BY <2>2 DEF PipelineInv, ChildInv, Finished
      <4> QED BY <1>1, <1>3, <4>1 DEF ChildOK, Alive
    <3> QED BY <1>1, <3>1 DEF ChildInv, PipelineInv
  <2> QED BY <1>1, <2>1, <2>2
<1>8. GroupInv'
  BY <1>1, <1>3 DEF PipelineInv, GroupInv, FirstGroupInv, GroupOK
<1> QED BY <1>1, <1>2, <1>4, <1>5, <1>6, <1>7, <1>8 DEF PipelineInv

-----------------------------------------------------------------------------
(* The steps of the children *)

LEMMA PipelineChild ==
  ASSUME PipelineInv, NEW i \in Processes, UNCHANGED shellVars,
         child' \in [Processes -> {"none", "forked", "joined", "running", "dead"}],
         table' \in [Processes -> [Fds -> Ends]],
         copy' \in [Processes -> executor_ctx_t],
         group' \in [Processes -> Processes \cup {ShellGroup}],
         held' \in [Processes -> Nat],
         buf' \in [0 .. MaxProcesses - 1 -> 0 .. PIPE_BUF],
         \A j \in Processes \ {i} : UNCHANGED <<child[j], table[j], copy[j], group[j]>>,
         ChildOK(i)', FirstGroupInv', i # 1 => GroupOK(i)'
  PROVE  PipelineInv'
<1>1. /\ ctx' \in executor_ctx_t /\ LoopInv' /\ ShellInv' /\ leaked' \in SUBSET Free
      /\ (Running <=> Running') /\ (Forked <=> Forked')
  BY ShellKept
<1>2. PipelineTypeOK'
  BY DEF PipelineInv, PipelineTypeOK, shellVars
<1>3. ASSUME NEW j \in Processes \ {i} PROVE ChildOK(j)'
  <2>1. ChildOK(j) /\ UNCHANGED <<child[j], table[j], copy[j], job, leaked>>
    BY DEF PipelineInv, ChildInv, shellVars
  <2>2. (j < n \/ (j = n /\ Forked)) <=> (j < n \/ (j = n /\ Forked))'
    BY <1>1 DEF shellVars
  <2> QED BY <2>1, <2>2, ChildKept
<1>4. ASSUME NEW j \in Processes \ {1}, j # i PROVE GroupOK(j)'
  <2>1. GroupOK(j) /\ UNCHANGED <<child[j], copy[j], group[j], shellVars>>
    BY <1>4 DEF PipelineInv, GroupInv
  <2> QED BY <2>1, GroupKept
<1>5. ChildInv'
  BY <1>3 DEF ChildInv
<1>6. GroupInv'
  BY <1>4 DEF GroupInv
<1> QED BY <1>1, <1>2, <1>5, <1>6 DEF PipelineInv

LEMMA PipelineDies ==
  ASSUME PipelineInv, NEW i \in Processes, Alive(i), Dies(i), UNCHANGED shellVars,
         buf' \in [0 .. MaxProcesses - 1 -> 0 .. PIPE_BUF], buf'[0] = buf[0]
  PROVE  PipelineInv'
<1>1. /\ child' = [child EXCEPT ![i] = "dead"]
      /\ table' = [table EXCEPT ![i] = no_descriptors]
      /\ copy' = [copy EXCEPT ![i] = no_ctx]
      /\ held' = [held EXCEPT ![i] = 0]
      /\ group' = group
  BY DEF Dies
<1>2. /\ child \in [Processes -> {"none", "forked", "joined", "running", "dead"}]
      /\ table \in [Processes -> [Fds -> Ends]]
      /\ copy \in [Processes -> executor_ctx_t]
      /\ held \in [Processes -> Nat]
      /\ group \in [Processes -> Processes \cup {ShellGroup}]
  BY DEF PipelineInv, PipelineTypeOK
<1>3. /\ child' \in [Processes -> {"none", "forked", "joined", "running", "dead"}]
      /\ table' \in [Processes -> [Fds -> Ends]]
      /\ copy' \in [Processes -> executor_ctx_t]
      /\ held' \in [Processes -> Nat]
  BY <1>1, <1>2, NoDescriptors, NobodyForked
<1>4. child'[i] = "dead" /\ table'[i] = no_descriptors
  BY <1>1, <1>2
<1>5. (Running <=> Running') /\ (Forked <=> Forked')
  BY ShellKept
<1>6. ChildOK(i)'
  <2>1. ChildOK(i) /\ child[i] # "none"
    BY DEF PipelineInv, ChildInv, Alive
  <2> QED BY <1>4, <1>5, <2>1 DEF ChildOK, Alive, shellVars
<1>7. FirstGroupInv'
  <2>1. child'[1] = child[1] \/ child'[1] = "dead"
    BY <1>1, <1>2, Constants
  <2> QED BY <1>1, <1>5, <2>1, Constants
       DEF PipelineInv, GroupInv, FirstGroupInv, Alive, shellVars
<1>8. GroupOK(i)'
  BY <1>4 DEF GroupOK, Alive
<1>9. \A j \in Processes \ {i} : UNCHANGED <<child[j], table[j], copy[j], group[j]>>
  BY <1>1, <1>2
<1> QED BY <1>1, <1>2, <1>3, <1>6, <1>7, <1>8, <1>9, PipelineChild

LEMMA DataMoves ==
  ASSUME PipelineInv, UNCHANGED <<child, table, copy, group, shellVars>>,
         held' \in [Processes -> Nat],
         buf' \in [0 .. MaxProcesses - 1 -> 0 .. PIPE_BUF], buf'[0] = buf[0]
  PROVE  PipelineInv'
<1>1. ChildInv' /\ copy' \in [Processes -> executor_ctx_t]
  BY ShellKept, ChildrenKept DEF shellVars
<1>2. PipelineTypeOK'
  BY DEF PipelineInv, PipelineTypeOK, shellVars
<1>3. GroupInv'
  <2>1. FirstGroupInv'
    BY ShellKept DEF PipelineInv, GroupInv, FirstGroupInv, Alive, shellVars
  <2>2. ASSUME NEW j \in Processes \ {1} PROVE GroupOK(j)'
    BY GroupKept DEF PipelineInv, GroupInv
  <2> QED BY <2>1, <2>2 DEF GroupInv
<1> QED BY <1>1, <1>2, <1>3, ShellKept DEF PipelineInv

(* A child that has been forked is one of the job's.                       *)
LEMMA ChildOfJob ==
  ASSUME PipelineInv, NEW i \in Processes, child[i] # "none"
  PROVE  /\ job \in Lines /\ i \in DOMAIN job /\ i <= Len(job) /\ Len(job) \in 1 .. MaxProcesses
         /\ job[i].redir \in Redirections
<1>1. ChildOK(i) /\ LoopInv
  BY DEF PipelineInv, ChildInv
<1>2. (i < n \/ (i = n /\ Forked)) /\ i \in Nat /\ i >= 1 /\ n \in Nat
  BY <1>1, Constants DEF ChildOK, Processes, PipelineInv, PipelineTypeOK
<1>3. job \in Lines
  <2>1. CASE job = <<>>
    <3>1. n \in 1 .. 1 /\ (Forked => n <= 0)
      BY <1>1, <2>1 DEF LoopInv
    <3> QED BY <1>2, <3>1
  <2> QED BY <1>1, <2>1 DEF LoopInv
<1>4. Len(job) \in 1 .. MaxProcesses /\ job \in Seq([program : Programs, redir : Redirections])
  BY <1>3, LineType
<1>5. i <= Len(job)
  BY <1>1, <1>2, <1>4 DEF LoopInv
<1> QED BY <1>2, <1>3, <1>4, <1>5, LineType

LEMMA PipelineJoinGroup ==
  ASSUME PipelineInv, NEW i \in Processes, JoinGroup(i)
  PROVE  PipelineInv'
<1> DEFINE c == copy[i]
<1>1. /\ child \in [Processes -> {"none", "forked", "joined", "running", "dead"}]
      /\ table \in [Processes -> [Fds -> Ends]]
      /\ copy \in [Processes -> executor_ctx_t]
      /\ held \in [Processes -> Nat]
      /\ group \in [Processes -> Processes \cup {ShellGroup}]
      /\ buf \in [0 .. MaxProcesses - 1 -> 0 .. PIPE_BUF]
  BY DEF PipelineInv, PipelineTypeOK
<1>2. PICK u : u = Close(table[i], c.sfd)
  OBVIOUS
<1>3. PICK v : v = Close(u, c.sync_pipe[1])
  OBVIOUS
<1>4. PICK w : w = Close(v, c.sync_pipe[2])
  OBVIOUS
<1>5. /\ child[i] = "forked" /\ child' = [child EXCEPT ![i] = "joined"]
      /\ copy' = copy /\ held' = held /\ UNCHANGED shellVars
      /\ c.pgid = NoGroup =>
           /\ table' = [table EXCEPT ![i] = w]
           /\ group' = [group EXCEPT ![i] = i]
           /\ buf' = [buf EXCEPT ![0] = 1]
      /\ c.pgid # NoGroup =>
           /\ table' = [table EXCEPT ![i] = u]
           /\ group' = [group EXCEPT ![i] = c.pgid]
           /\ buf' = buf
  BY <1>2, <1>3, <1>4 DEF JoinGroup
<1>6. ConnectingInv(i) /\ ChildOK(i)
  BY <1>5 DEF PipelineInv, ChildInv, ChildOK
<1>7. c \in executor_ctx_t /\ table[i] \in [Fds -> Ends] /\ (c.pgid = NoGroup <=> i = 1)
  BY <1>1, <1>6 DEF ConnectingInv
<1>8. c.sfd \in Numbers /\ c.sync_pipe[1] \in Numbers /\ c.sync_pipe[2] \in Numbers
  BY <1>7 DEF executor_ctx_t
<1>9. u \in [Fds -> Ends] /\ \A m \in Fds : u[m] = IF m = c.sfd THEN closed ELSE table[i][m]
  BY <1>2, <1>7, <1>8, CloseTable
<1>10. v \in [Fds -> Ends] /\ \A m \in Fds : v[m] = IF m = c.sync_pipe[1] THEN closed ELSE u[m]
  BY <1>3, <1>8, <1>9, CloseTable
<1>11. w \in [Fds -> Ends] /\ \A m \in Fds : w[m] = IF m = c.sync_pipe[2] THEN closed ELSE v[m]
  BY <1>4, <1>8, <1>10, CloseTable
<1> DEFINE gone == {c.sfd} \cup (IF i = 1 THEN {c.sync_pipe[1], c.sync_pipe[2]} ELSE {})
<1>12. PICK t : t = IF i = 1 THEN w ELSE u
  OBVIOUS
<1>13. t \in [Fds -> Ends] /\ \A m \in Fds : t[m] = IF m \in gone THEN closed ELSE table[i][m]
  <2>1. CASE i = 1
    BY <1>9, <1>10, <1>11, <1>12, <2>1
  <2>2. CASE i # 1
    BY <1>9, <1>12, <2>2
  <2> QED BY <2>1, <2>2
<1>14. child'[i] = "joined" /\ table'[i] = t /\ copy'[i] = c
  BY <1>1, <1>5, <1>7, <1>12
<1>15. /\ child' \in [Processes -> {"none", "forked", "joined", "running", "dead"}]
       /\ table' \in [Processes -> [Fds -> Ends]]
       /\ copy' \in [Processes -> executor_ctx_t]
       /\ held' \in [Processes -> Nat]
  <2>1. table' = [table EXCEPT ![i] = t]
    BY <1>5, <1>7, <1>12
  <2> QED BY <1>1, <1>5, <1>13, <2>1
<1>16. /\ group' \in [Processes -> Processes \cup {ShellGroup}]
       /\ buf' \in [0 .. MaxProcesses - 1 -> 0 .. PIPE_BUF]
       /\ i = 1 => group'[1] = 1
       /\ i # 1 => group'[1] = group[1] /\ group'[i] = c.pgid /\ buf' = buf
  <2>1. CASE i = 1
    BY <1>1, <1>5, <1>7, <2>1, Constants
  <2>2. CASE i # 1
    <3>1. c.pgid \in Processes \cup {ShellGroup}
      BY <1>7, <2>2 DEF executor_ctx_t
    <3> QED BY <1>1, <1>5, <1>7, <2>2, <3>1, Constants
  <2> QED BY <2>1, <2>2
<1>17. ChildOK(i)'
  <2>1. /\ c.in_fd \notin gone \/ c.in_fd = -1
        /\ c.fd0 \notin gone \/ c.fd0 = -1
        /\ c.out_fd \notin gone \/ c.out_fd = -1
    <3>1. /\ \A m \in gone : m \in Free /\ table[i][m] \in {signals, ReadEnd(0), WriteEnd(0)}
      BY <1>5, <1>6 DEF ConnectingInv
    <3>2. c.in_fd = -1 \/ table[i][c.in_fd] \notin {signals, ReadEnd(0), WriteEnd(0)}
      <4>1. i \in Nat /\ (i # 1 => i - 1 # 0)
        BY Constants
      <4> QED BY <1>6, <4>1, PipeEndsDiffer DEF ConnectingInv
    <3>3. /\ c.fd0 = -1 \/ table[i][c.fd0] \notin {signals, ReadEnd(0), WriteEnd(0)}
          /\ c.out_fd = -1 \/ table[i][c.out_fd] \notin {signals, ReadEnd(0), WriteEnd(0)}
      <4>1. i # 0
        BY Constants DEF Processes
      <4> QED BY <1>6, <4>1, PipeEndsDiffer DEF ConnectingInv, PipeOpen
    <3> QED BY <3>1, <3>2, <3>3
  <2>2. \A m \in gone : m \in Free
    BY <1>5, <1>6 DEF ConnectingInv
  <2>3. StandardOpen(t)
    <3>1. 0 \notin gone /\ 1 \notin gone /\ 2 \notin gone /\ 3 \notin gone
      BY <2>2, FdsAre
    <3>2. t[0] = table[i][0] /\ t[1] = table[i][1] /\ t[2] = table[i][2] /\ t[3] = table[i][3]
      BY <1>13, <3>1, FdsAre
    <3> QED BY <1>6, <3>2 DEF ConnectingInv, StandardOpen, STDIN_FILENO, STDOUT_FILENO, STDERR_FILENO
  <2>4. ChildUses(i)' = {c.in_fd, c.fd0, c.out_fd} /\ ChildUses(i) = {c.in_fd, c.fd0, c.out_fd} \cup gone
    BY <1>5, <1>14 DEF ChildUses
  <2>5. /\ \A m \in Free \ {c.in_fd, c.fd0, c.out_fd} : Unused(t, m)
        /\ leaked \cap {c.in_fd, c.fd0, c.out_fd} = {}
    BY <1>6, <1>13, <2>4, FdsAre DEF ConnectingInv, Unused
  <2>6. IF i = 1 THEN c.in_fd = -1 ELSE c.in_fd \in Free /\ t[c.in_fd] = ReadEnd(i - 1)
    BY <1>6, <1>13, <2>1, FdsAre DEF ConnectingInv
  <2>7. PipeOpen(t, c.fd0, c.out_fd, i)
    BY <1>6, <1>13, <2>1, FdsAre DEF ConnectingInv, PipeOpen
  <2>8. ConnectingInv(i)'
    BY <1>5, <1>7, <1>14, <2>3, <2>4, <2>5, <2>6, <2>7
       DEF ConnectingInv, PipeOpen, StandardOpen, Unused, shellVars
  <2> QED BY <1>5, <1>6, <1>14, <2>8, ShellKept DEF ChildOK, Alive, shellVars
<1>18. FirstGroupInv'
  <2>1. CASE i = 1
    <3>1. ~(Running /\ ctx.pgid # NoGroup)
      BY <1>5, <2>1 DEF PipelineInv, GroupInv, FirstGroupInv
    <3> QED BY <1>5, <1>14, <1>16, <2>1, <3>1, ShellKept DEF FirstGroupInv, shellVars
  <2>2. CASE i # 1
    <3>1. child'[1] = child[1] /\ group'[1] = group[1] /\ buf'[0] = buf[0]
      BY <1>1, <1>5, <1>16, <2>2, Constants
    <3> QED BY <1>5, <3>1, ShellKept
         DEF PipelineInv, GroupInv, FirstGroupInv, Alive, shellVars
  <2> QED BY <2>1, <2>2
<1>19. i # 1 => GroupOK(i)'
  BY <1>5, <1>14, <1>16, ShellKept DEF PipelineInv, GroupInv, GroupOK, Alive, shellVars
<1>20. \A j \in Processes \ {i} : UNCHANGED <<child[j], table[j], copy[j], group[j]>>
  BY <1>1, <1>5
<1> QED BY <1>5, <1>15, <1>16, <1>17, <1>18, <1>19, <1>20, PipelineChild

(* First the redirections, then the pipes, which hide them.                *)
LEMMA Connected ==
  ASSUME StandardRedirections, PipelineInv, NEW i \in Processes, child[i] = "joined"
  PROVE  LET w == connected(table[i], copy[i], job[i].redir) IN
         /\ w \in [Fds -> Ends]
         /\ IF i = 1 THEN w[0] \in {terminal, file} ELSE w[0] = ReadEnd(i - 1)
         /\ IF i = Len(job) THEN w[1] \in {terminal, file} ELSE w[1] = WriteEnd(i)
         /\ w[2] \in {terminal, file}
         /\ \A m \in Fds \ {0, 1, 2} :
              \/ w[m] \in {closed, history, ReadEnd(i)}
              \/ m \in leaked /\ w[m] = signals
<1> DEFINE c == copy[i]
<1>1. ConnectingInv(i) /\ table[i] \in [Fds -> Ends] /\ c \in executor_ctx_t
  BY DEF PipelineInv, PipelineTypeOK, ChildInv, ChildOK
<1>2. job[i].redir \in Redirections
  BY ChildOfJob
<1>3. PICK in, out, fd0 : in = c.in_fd /\ out = c.out_fd /\ fd0 = c.fd0
  OBVIOUS
<1>4. PICK t : t = table[i]
  OBVIOUS
<1>5. /\ t \in [Fds -> Ends] /\ StandardOpen(t)
      /\ in \in Numbers /\ out \in Numbers
      /\ \A m \in Free \ {in, fd0, out} : Unused(t, m)
      /\ IF i = 1 THEN in = -1 ELSE in \in Free /\ t[in] = ReadEnd(i - 1)
      /\ PipeOpen(t, fd0, out, i)
  BY <1>1, <1>3, <1>4 DEF ConnectingInv, ChildUses, executor_ctx_t
<1>6. PICK u : u = handle_redirection(t, job[i].redir)
  OBVIOUS
<1>7. /\ u \in [Fds -> Ends]
      /\ \A m \in 0 .. 2 : u[m] \in {t[m], file}
      /\ \A m \in Fds \ (0 .. 2) : u[m] = t[m]
  BY <1>2, <1>5, <1>6, Redirected
<1>8. u[0] \in {terminal, file} /\ u[1] \in {terminal, file} /\ u[2] \in {terminal, file} /\ u[3] = history
  <2>1. t[0] = terminal /\ t[1] = terminal /\ t[2] \in {terminal, file} /\ t[3] = history
    BY <1>5 DEF StandardOpen, STDIN_FILENO, STDOUT_FILENO, STDERR_FILENO
  <2>2. u[0] \in {t[0], file} /\ u[1] \in {t[1], file} /\ u[2] \in {t[2], file} /\ u[3] = t[3]
    BY <1>7, FdsAre
  <2> QED BY <2>1, <2>2
<1>9. \A m \in Free : u[m] = t[m]
  BY <1>7, FdsAre
<1>10. PICK v : v = Move(u, in, 0)
  OBVIOUS
<1>11. 0 \in Fds /\ 1 \in Fds /\ 2 \in Fds /\ 3 \in Fds /\ in \notin {0, 1, 2, 3} /\ out \notin {0, 1, 2, 3}
  BY <1>5, FdsAre DEF PipeOpen
<1>12. /\ v \in [Fds -> Ends]
       /\ \A m \in Fds : v[m] = IF in = -1 THEN u[m] ELSE IF m = in THEN closed
                                ELSE IF m = 0 THEN u[in] ELSE u[m]
  BY <1>5, <1>7, <1>10, <1>11, MoveTable
<1>13. PICK w : w = Move(v, out, 1)
  OBVIOUS
<1>14. /\ w \in [Fds -> Ends]
       /\ \A m \in Fds : w[m] = IF out = -1 THEN v[m] ELSE IF m = out THEN closed
                                ELSE IF m = 1 THEN v[out] ELSE v[m]
  BY <1>5, <1>11, <1>12, <1>13, MoveTable
<1>15. w = connected(table[i], c, job[i].redir)
  BY <1>3, <1>4, <1>6, <1>10, <1>13 DEF connected, STDIN_FILENO, STDOUT_FILENO
<1>16. in # -1 => in # out
  BY <1>5, PipeEndsDiffer, FdsAre DEF PipeOpen
<1>17. IF i = 1 THEN w[0] \in {terminal, file} ELSE w[0] = ReadEnd(i - 1)
  <2>1. w[0] = v[0]
    BY <1>11, <1>14
  <2>2. v[0] = IF in = -1 THEN u[0] ELSE u[in]
    BY <1>11, <1>12
  <2> QED BY <1>5, <1>8, <1>9, <2>1, <2>2, FdsAre
<1>18. IF i = Len(job) THEN w[1] \in {terminal, file} ELSE w[1] = WriteEnd(i)
  <2>1. CASE i = Len(job)
    <3>1. out = -1
      BY <1>5, <2>1 DEF PipeOpen
    <3>2. w[1] = v[1] /\ v[1] = u[1]
      BY <1>11, <1>12, <1>14, <3>1
    <3> QED BY <1>8, <2>1, <3>2
  <2>2. CASE i # Len(job)
    <3>1. out \in Free /\ t[out] = WriteEnd(i) /\ out # -1 /\ out \in Fds
      BY <1>5, <2>2, FdsAre DEF PipeOpen
    <3>2. w[1] = v[out] /\ v[out] = u[out]
      BY <1>11, <1>12, <1>14, <1>16, <3>1
    <3> QED BY <1>9, <2>2, <3>1, <3>2
  <2> QED BY <2>1, <2>2
<1>19. w[2] \in {terminal, file} /\ w[3] = history
  <2>1. w[2] = v[2] /\ v[2] = u[2] /\ w[3] = v[3] /\ v[3] = u[3]
    BY <1>11, <1>12, <1>14
  <2> QED BY <1>8, <2>1
<1>20. ASSUME NEW m \in Free
       PROVE  w[m] \in {closed, ReadEnd(i)} \/ (m \in leaked /\ w[m] = signals)
  <2>1. m \in Fds /\ m \notin {0, 1, 2, 3, -1}
    BY FdsAre
  <2>2. w[m] = IF m \in {in, out} THEN closed ELSE t[m]
    BY <1>9, <1>12, <1>14, <2>1
  <2>3. fd0 = -1 \/ t[fd0] = ReadEnd(i)
    BY <1>5 DEF PipeOpen
  <2> QED BY <1>5, <2>1, <2>2, <2>3 DEF Unused
<1>21. ASSUME NEW m \in Fds \ {0, 1, 2}
       PROVE  w[m] \in {closed, history, ReadEnd(i)} \/ (m \in leaked /\ w[m] = signals)
  <2>1. m = 3 \/ m \in Free
    BY FdsAre
  <2> QED BY <1>19, <1>20, <2>1
<1> QED BY <1>14, <1>15, <1>17, <1>18, <1>19, <1>21

(* execv closes the signal descriptors, and nothing else.                  *)
LEMMA Executed ==
  ASSUME NEW i, NEW t \in [Fds -> Ends], NEW w \in execute_process(i, t)
  PROVE  /\ w \in [Fds -> Ends]
         /\ \A m \in Fds : w[m] = t[m] \/ (t[m] = signals /\ w[m] = closed)
         /\ Len(job) > 1 \/ \A m \in Fds : w[m] # signals
<1>1. /\ execv(t) \in [Fds -> Ends]
      /\ \A m \in Fds : execv(t)[m] = IF t[m] = signals THEN closed ELSE t[m]
  BY EndsOfPipes DEF execv
<1>2. w = execv(t) \/ (w = t /\ Len(job) > 1)
  BY DEF execute_process
<1> QED BY <1>1, <1>2, EndsDiffer

LEMMA PipelineConnectIO ==
  ASSUME StandardRedirections, PipelineInv, NEW i \in Processes, ConnectIO(i)
  PROVE  PipelineInv'
<1>1. child[i] = "joined" /\ UNCHANGED <<shellVars, buf>>
  BY DEF ConnectIO
<1>2. /\ child \in [Processes -> {"none", "forked", "joined", "running", "dead"}]
      /\ table \in [Processes -> [Fds -> Ends]]
      /\ copy \in [Processes -> executor_ctx_t]
      /\ held \in [Processes -> Nat]
      /\ group \in [Processes -> Processes \cup {ShellGroup}]
      /\ buf \in [0 .. MaxProcesses - 1 -> 0 .. PIPE_BUF]
  BY DEF PipelineInv, PipelineTypeOK
<1>3. CASE ~CanRedirect(table[i], job[i].redir)
  <2>1. Dies(i) /\ Alive(i)
    BY <1>1, <1>3 DEF ConnectIO, Alive
  <2> QED BY <1>1, <1>2, <2>1, PipelineDies
<1>4. CASE CanRedirect(table[i], job[i].redir)
  <2>1. PICK t : t = connected(table[i], copy[i], job[i].redir)
    OBVIOUS
  <2>10. /\ t \in [Fds -> Ends]
         /\ IF i = 1 THEN t[0] \in {terminal, file} ELSE t[0] = ReadEnd(i - 1)
         /\ IF i = Len(job) THEN t[1] \in {terminal, file} ELSE t[1] = WriteEnd(i)
         /\ t[2] \in {terminal, file}
         /\ \A m \in Fds \ {0, 1, 2} :
              \/ t[m] \in {closed, history, ReadEnd(i)}
              \/ m \in leaked /\ t[m] = signals
    BY <1>1, <2>1, Connected
  <2>11. PICK w \in execute_process(i, t) : table' = [table EXCEPT ![i] = w]
    BY <1>4, <2>1 DEF ConnectIO
  <2>12. /\ w \in [Fds -> Ends]
         /\ \A m \in Fds : w[m] = t[m] \/ (t[m] = signals /\ w[m] = closed)
         /\ Len(job) > 1 \/ \A m \in Fds : w[m] # signals
    BY <2>10, <2>11, Executed
  <2>2. /\ w \in [Fds -> Ends]
        /\ IF i = 1 THEN w[0] \in {terminal, file} ELSE w[0] = ReadEnd(i - 1)
        /\ IF i = Len(job) THEN w[1] \in {terminal, file} ELSE w[1] = WriteEnd(i)
        /\ w[2] \in {terminal, file}
        /\ \A m \in Fds \ {0, 1, 2} :
             \/ w[m] \in {closed, history, ReadEnd(i)}
             \/ m \in leaked /\ w[m] = signals /\ Len(job) > 1
    BY <2>10, <2>12, FdsAre, PipeEndsDiffer, EndsDiffer
  <2>3. /\ child' = [child EXCEPT ![i] = "running"]
        /\ table' = [table EXCEPT ![i] = w]
        /\ UNCHANGED <<copy, group, held>>
    BY <1>4, <2>11 DEF ConnectIO
  <2>4. child'[i] = "running" /\ table'[i] = w /\ copy'[i] = copy[i] /\ group'[i] = group[i]
    BY <1>2, <2>3
  <2>5. /\ child' \in [Processes -> {"none", "forked", "joined", "running", "dead"}]
        /\ table' \in [Processes -> [Fds -> Ends]]
    BY <1>2, <2>2, <2>3
  <2>6. ChildOK(i)'
    <3>1. ChildOK(i)
      BY DEF PipelineInv, ChildInv
    <3>2. RunningInv(i)'
      BY <1>1, <2>2, <2>4 DEF RunningInv, shellVars, STDIN_FILENO, STDOUT_FILENO, STDERR_FILENO
    <3> QED BY <1>1, <2>4, <3>1, <3>2, ShellKept DEF ChildOK, Alive, shellVars
  <2>7. FirstGroupInv'
    <3>1. child'[1] = child[1] \/ (i = 1 /\ child'[1] = "running" /\ child[1] = "joined")
      BY <1>1, <1>2, <2>3, Constants
    <3> QED BY <1>1, <2>3, <3>1, ShellKept
         DEF PipelineInv, GroupInv, FirstGroupInv, Alive, shellVars
  <2>8. i # 1 => GroupOK(i)'
    BY <1>1, <2>4, ShellKept DEF PipelineInv, GroupInv, GroupOK, Alive, shellVars
  <2>9. \A j \in Processes \ {i} : UNCHANGED <<child[j], table[j], copy[j], group[j]>>
    BY <1>2, <2>3
  <2> QED BY <1>1, <1>2, <2>3, <2>5, <2>6, <2>7, <2>8, <2>9, PipelineChild
<1> QED BY <1>3, <1>4

(* A running program has the ends of its own two pipes.                    *)
LEMMA RunningEnds ==
  ASSUME PipelineInv, NEW i \in Processes, child[i] = "running"
  PROVE  /\ IsReadEnd(table[i][STDIN_FILENO]) =>
              table[i][STDIN_FILENO][2] = i - 1 /\ i - 1 \in 1 .. MaxProcesses - 1
         /\ IsWriteEnd(table[i][STDOUT_FILENO]) =>
              table[i][STDOUT_FILENO][2] = i /\ i \in 1 .. MaxProcesses - 1
<1>1. RunningInv(i)
  BY DEF PipelineInv, ChildInv, ChildOK
<1>2. i <= Len(job) /\ Len(job) \in 1 .. MaxProcesses
  BY ChildOfJob
<1>3. i \in 1 .. MaxProcesses /\ MaxProcesses \in Nat
  BY Constants DEF Processes
<1>4. IsReadEnd(table[i][STDIN_FILENO]) => table[i][STDIN_FILENO] = ReadEnd(i - 1) /\ i # 1
  BY <1>1, NotPipeEnds DEF RunningInv
<1>5. IsWriteEnd(table[i][STDOUT_FILENO]) => table[i][STDOUT_FILENO] = WriteEnd(i) /\ i # Len(job)
  BY <1>1, NotPipeEnds DEF RunningInv
<1>6. ReadEnd(i - 1)[2] = i - 1 /\ WriteEnd(i)[2] = i
  BY PipeEndsDiffer
<1>7. /\ i # 1 => i - 1 \in 1 .. MaxProcesses - 1
      /\ i # Len(job) => i \in 1 .. MaxProcesses - 1
  BY <1>2, <1>3
<1> QED BY <1>4, <1>5, <1>6, <1>7

LEMMA PipelineReads ==
  ASSUME PipelineInv, NEW i \in Processes, ReadData(i) \/ ReadEof(i)
  PROVE  PipelineInv'
<1>1. child[i] = "running" /\ UNCHANGED shellVars
  BY DEF ReadData, ReadEof, Reads
<1>2. /\ held \in [Processes -> Nat]
      /\ buf \in [0 .. MaxProcesses - 1 -> 0 .. PIPE_BUF]
  BY DEF PipelineInv, PipelineTypeOK
<1>3. CASE ReadData(i)
  <2>1. PICK k : k = table[i][STDIN_FILENO][2]
    OBVIOUS
  <2>2. /\ IsReadEnd(table[i][STDIN_FILENO]) /\ buf[k] > 0
        /\ buf' = [buf EXCEPT ![k] = buf[k] - 1]
        /\ held' = [held EXCEPT ![i] = 1]
        /\ UNCHANGED <<child, table, copy, group, shellVars>>
    BY <1>3, <2>1 DEF ReadData
  <2>3. k \in 1 .. MaxProcesses - 1
    BY <1>1, <2>1, <2>2, RunningEnds
  <2>4. held' \in [Processes -> Nat]
    BY <1>2, <2>2
  <2>5. k \in 0 .. MaxProcesses - 1 /\ k # 0 /\ 0 \in 0 .. MaxProcesses - 1
    BY <2>3, Constants
  <2>6. buf[k] - 1 \in 0 .. PIPE_BUF
    <3>1. buf[k] \in 0 .. PIPE_BUF
      BY <1>2, <2>5
    <3> QED BY <2>2, <3>1, Constants
  <2>7. buf' \in [0 .. MaxProcesses - 1 -> 0 .. PIPE_BUF] /\ buf'[0] = buf[0]
    BY <1>2, <2>2, <2>5, <2>6
  <2> QED BY <2>2, <2>4, <2>7, DataMoves
<1>4. CASE ReadEof(i)
  <2>1. Alive(i) /\ Dies(i) /\ buf' = buf
    BY <1>1, <1>4 DEF ReadEof, Alive
  <2> QED BY <1>1, <1>2, <2>1, PipelineDies
<1> QED BY <1>3, <1>4

LEMMA PipelineWriteData ==
  ASSUME PipelineInv, NEW i \in Processes, WriteData(i)
  PROVE  PipelineInv'
<1>1. child[i] = "running" /\ UNCHANGED shellVars
  BY DEF WriteData
<1>2. /\ held \in [Processes -> Nat]
      /\ buf \in [0 .. MaxProcesses - 1 -> 0 .. PIPE_BUF]
  BY DEF PipelineInv, PipelineTypeOK
<1>3. PICK out : out = table[i][STDOUT_FILENO]
  OBVIOUS
<1>4. PICK room \in BOOLEAN : room = (IsWriteEnd(out) /\ Held(ReadEnd(out[2])))
  OBVIOUS
<1>5. /\ room => buf[out[2]] < PIPE_BUF
      /\ buf' = IF room THEN [buf EXCEPT ![out[2]] = buf[out[2]] + 1] ELSE buf
      /\ \/ Dies(i)
         \/ /\ held' = [held EXCEPT ![i] = left_to_write(i)]
            /\ UNCHANGED <<child, table, copy, group>>
  BY <1>3, <1>4 DEF WriteData
<1>6. buf' \in [0 .. MaxProcesses - 1 -> 0 .. PIPE_BUF] /\ buf'[0] = buf[0]
  <2>1. CASE room
    <3>1. PICK k : k = out[2]
      OBVIOUS
    <3>2. k \in 1 .. MaxProcesses - 1
      BY <1>1, <1>3, <1>4, <2>1, <3>1, RunningEnds
    <3>3. k \in 0 .. MaxProcesses - 1 /\ k # 0 /\ 0 \in 0 .. MaxProcesses - 1
      BY <3>2, Constants
    <3>4. buf[k] + 1 \in 0 .. PIPE_BUF
      <4>1. buf[k] \in 0 .. PIPE_BUF /\ buf[k] < PIPE_BUF
        BY <1>2, <1>5, <2>1, <3>1, <3>3
      <4> QED BY <4>1, Constants
    <3>5. buf' = [buf EXCEPT ![k] = buf[k] + 1]
      BY <1>5, <2>1, <3>1
    <3> QED BY <1>2, <3>3, <3>4, <3>5
  <2>2. CASE ~room
    BY <1>2, <1>5, <2>2
  <2> QED BY <2>1, <2>2
<1>7. CASE Dies(i)
  <2>1. Alive(i)
    BY <1>1 DEF Alive
  <2> QED BY <1>1, <1>6, <1>7, <2>1, PipelineDies
<1>8. CASE /\ held' = [held EXCEPT ![i] = left_to_write(i)]
           /\ UNCHANGED <<child, table, copy, group>>
  <2>3. held[i] \in Nat /\ held[i] > 0
    BY <1>2 DEF WriteData
  <2>2. left_to_write(i) \in Nat
    BY <2>3 DEF left_to_write
  <2>1. held' \in [Processes -> Nat]
    BY <1>2, <1>8, <2>2
  <2> QED BY <1>1, <1>6, <1>8, <2>1, DataMoves
<1> QED BY <1>5, <1>7, <1>8

LEMMA PipelineStep ==
  ASSUME StandardRedirections, PipelineInv, [Next]_vars
  PROVE  PipelineInv'
<1>1. CASE ShellStep
  <2>1. CASE ForkProcess BY <2>1, PipelineForkProcess
  <2>2. CASE ReadSync BY <2>2, PipelineReadSync
  <2>3. CASE SetGroup BY <2>3, PipelineSetGroup
  <2>4. CASE ParentCloses BY <2>4, PipelineParentCloses
  <2>5. CASE Launch \/ JobFinished BY <2>5, PipelineWaits
  <2>6. CASE LeaveRunJob BY <2>6, PipelineLeaveRunJob
  <2>7. CASE PipeFails BY <2>7, PipelineExits DEF PipeFails
  <2> QED BY <1>1, <2>1, <2>2, <2>3, <2>4, <2>5, <2>6, <2>7 DEF ShellStep
<1>2. ASSUME pc = "prompt", NEW line \in Lines, NEW bg \in BOOLEAN, StartJob(line, bg)
      PROVE  PipelineInv'
  BY <1>2, PipelineStartJob
<1>3. ASSUME NEW redir \in Redirections,
             RunBuiltin(redir) \/ BringToForeground(redir) \/ BuiltinCannotOpen(redir)
      PROVE  PipelineInv'
  BY <1>3, PipelineBuiltins, PipelineExits DEF BuiltinCannotOpen
<1>4. CASE CallFails
  BY <1>4, PipelineExits DEF CallFails
<1>5. ASSUME NEW i \in Processes, ChildStep(i) PROVE PipelineInv'
  <2>1. CASE JoinGroup(i) BY <2>1, PipelineJoinGroup
  <2>2. CASE ConnectIO(i) BY <2>2, PipelineConnectIO
  <2>3. CASE ReadData(i) \/ ReadEof(i) BY <2>3, PipelineReads
  <2>4. CASE WriteData(i) BY <2>4, PipelineWriteData
  <2> QED BY <1>5, <2>1, <2>2, <2>3, <2>4 DEF ChildStep
<1>6. ASSUME NEW i \in Processes, Killed(i) PROVE PipelineInv'
  <2>1. Alive(i) /\ Dies(i) /\ UNCHANGED shellVars /\ buf' = buf
    BY <1>6 DEF Killed
  <2>2. buf' \in [0 .. MaxProcesses - 1 -> 0 .. PIPE_BUF]
    BY <2>1 DEF PipelineInv, PipelineTypeOK
  <2> QED BY <2>1, <2>2, PipelineDies
<1>7. CASE UNCHANGED vars
  <2>1. UNCHANGED <<child, table, copy, group, held, buf, shellVars>>
    BY <1>7 DEF vars, childVars
  <2> QED BY <2>1, DataMoves DEF PipelineInv, PipelineTypeOK
<1> QED BY <1>1, <1>2, <1>3, <1>4, <1>5, <1>6, <1>7 DEF Next

(* What run_job counts on, for pipelines of every length: where it is in   *)
(* its loop, what the shell and each child have open, and which group each *)
(* child is in.  A redirection of another number than the three standard   *)
(* ones could hit the end of a pipe: of these the theorem says nothing.    *)
THEOREM PipelineIsOrdered ==
  ASSUME StandardRedirections
  PROVE  Spec => []PipelineInv
<1>1. Init => PipelineInv
  BY PipelineInit
<1>2. PipelineInv /\ [Next]_vars => PipelineInv'
  BY PipelineStep
<1> QED BY <1>1, <1>2, PTL DEF Spec

-----------------------------------------------------------------------------
(* What follows for a job *)

(* Besides the synchronisation pipe, which is pipe 0, a child has ends of  *)
(* the pipe before and of the pipe after it.                               *)
LEMMA EndsOfChild ==
  ASSUME PipelineInv, NEW i \in Processes, NEW k \in Processes, NEW m \in Fds
  PROVE  /\ table[i][m] = WriteEnd(k) => k = i
         /\ table[i][m] = ReadEnd(k) => i \in {k, k + 1}
<1>1. child[i] \in {"none", "forked", "joined", "running", "dead"} /\ ChildOK(i)
  BY DEF PipelineInv, PipelineTypeOK, ChildInv
<1>2. k # 0 /\ i \in Nat /\ k \in Nat
  BY Constants DEF Processes
<1>3. CASE ~Alive(i)
  BY <1>1, <1>3, NoDescriptors, PipeEndsDiffer DEF ChildOK
<1>4. CASE child[i] \in {"forked", "joined"}
  <2>1. ConnectingInv(i)
    BY <1>1, <1>4 DEF ChildOK
  <2>2. m \notin Free =>
          table[i][m] \in {terminal, file, history}
    <3>1. m \notin Free => m \in {0, 1, 2, 3}
      BY FdsAre
    <3> QED BY <2>1, <3>1
         DEF ConnectingInv, StandardOpen, STDIN_FILENO, STDOUT_FILENO, STDERR_FILENO
  <2>3. m \in Free =>
          table[i][m] \in {closed, signals, ReadEnd(0), WriteEnd(0), ReadEnd(i), WriteEnd(i)}
            \cup (IF i = 1 THEN {} ELSE {ReadEnd(i - 1)})
    <3>1. m \in Free \ ChildUses(i) => table[i][m] \in {closed, signals}
      BY <2>1 DEF ConnectingInv, Unused
    <3>2. m \in Free /\ m \in ChildUses(i) =>
            table[i][m] \in {signals, ReadEnd(0), WriteEnd(0), ReadEnd(i), WriteEnd(i)}
              \cup (IF i = 1 THEN {} ELSE {ReadEnd(i - 1)})
      BY <2>1, FdsAre DEF ChildUses, ConnectingInv, PipeOpen
    <3> QED BY <3>1, <3>2
  <2>4. table[i][m] = WriteEnd(k) => WriteEnd(k) = WriteEnd(i)
    BY <1>2, <2>2, <2>3, PipeEndsDiffer
  <2>5. table[i][m] = ReadEnd(k) =>
          ReadEnd(k) = ReadEnd(i) \/ ReadEnd(k) = ReadEnd(i - 1)
    BY <1>2, <2>2, <2>3, PipeEndsDiffer
  <2> QED BY <1>2, <2>4, <2>5, PipeEndsDiffer
<1>5. CASE child[i] = "running"
  <2>1. RunningInv(i)
    BY <1>1, <1>5 DEF ChildOK
  <2>2. table[i][m] \in {closed, terminal, file, history, signals,
                         ReadEnd(i), ReadEnd(i - 1), WriteEnd(i)}
    BY <2>1 DEF RunningInv, STDIN_FILENO, STDOUT_FILENO, STDERR_FILENO
  <2>3. table[i][m] = WriteEnd(k) => WriteEnd(k) = WriteEnd(i)
    BY <2>2, PipeEndsDiffer
  <2>4. table[i][m] = ReadEnd(k) =>
          ReadEnd(k) = ReadEnd(i) \/ ReadEnd(k) = ReadEnd(i - 1)
    BY <2>2, PipeEndsDiffer
  <2> QED BY <1>2, <2>3, <2>4, PipeEndsDiffer
<1> QED BY <1>1, <1>3, <1>4, <1>5 DEF Alive

LEMMA PipelineEndsHeld == PipelineInv => EndsAreHeld
<1> SUFFICES ASSUME PipelineInv, pc \in {"wait", "leave", "prompt"},
                    NEW k \in Processes \ {MaxProcesses}
             PROVE  /\ Holders(WriteEnd(k)) \subseteq {k}
                    /\ Holders(ReadEnd(k)) \subseteq {k, k + 1}
                    /\ \A m \in Fds : fds[m] \notin {ReadEnd(k), WriteEnd(k)}
  BY DEF EndsAreHeld
<1>1. Holders(WriteEnd(k)) \subseteq {k} /\ Holders(ReadEnd(k)) \subseteq {k, k + 1}
  BY EndsOfChild DEF Holders
<1>2. StandardOpen(fds) /\ \A m \in Free : fds[m] \in {closed, signals}
  <2>1. CASE pc = "prompt"
    BY <2>1 DEF PipelineInv, ShellInv, Unused
  <2>2. CASE pc \in {"wait", "leave"}
    <3>1. Running /\ ~Forked
      BY <2>2 DEF Running, Forked
    <3>2. n = Len(job) + 1 /\ ctx.pgid # NoGroup
      BY <2>2 DEF PipelineInv, LoopInv
    <3>3. /\ StandardOpen(fds) /\ ctx.in_fd = -1 /\ fds[ctx.sfd] = signals
          /\ \A m \in Free \ ShellUses : Unused(fds, m)
      BY <3>1, <3>2 DEF PipelineInv, ShellInv
    <3>4. ShellUses = {ctx.sfd, ctx.in_fd}
      BY <3>1, <3>2 DEF ShellUses
    <3> QED BY <3>3, <3>4, FdsAre DEF Unused
  <2> QED BY <2>1, <2>2
<1>3. ASSUME NEW m \in Fds PROVE fds[m] \in {closed, signals, terminal, file, history}
  <2>1. m \in {0, 1, 2, 3} \/ m \in Free
    BY FdsAre
  <2> QED BY <1>2, <2>1 DEF StandardOpen, STDIN_FILENO, STDOUT_FILENO, STDERR_FILENO
<1> QED BY <1>1, <1>3, PipeEndsDiffer

(* In a pipeline of any length, an end to write is open in its writer      *)
(* alone once the job is launched: no reader waits for an end of data that *)
(* another process, or the shell, keeps away.                              *)
THEOREM EndsAreHeldByTheirOwners ==
  ASSUME StandardRedirections
  PROVE  Spec => []EndsAreHeld
BY PipelineIsOrdered, PipelineEndsHeld, PTL

LEMMA PipelineConnected == PipelineInv => ProgramIsConnected
<1> SUFFICES ASSUME PipelineInv, NEW i \in Processes, child[i] = "running"
             PROVE  /\ i > 1 => table[i][STDIN_FILENO] = ReadEnd(i - 1)
                    /\ i < Len(job) => table[i][STDOUT_FILENO] = WriteEnd(i)
                    /\ \A m \in Fds \ {0, 1, 2} :
                         \/ table[i][m] \in {closed, history, ReadEnd(i)}
                         \/ m \in leaked /\ table[i][m] = signals /\ Len(job) > 1
  BY DEF ProgramIsConnected
<1>1. RunningInv(i)
  BY DEF PipelineInv, ChildInv, ChildOK
<1>2. i \in Nat /\ Len(job) \in Nat
  BY ChildOfJob, Constants
<1> QED BY <1>1, <1>2 DEF RunningInv

(* Every program of a pipeline runs with its place's ends as its standard  *)
(* input and output, whatever it redirects of these.                       *)
THEOREM ProgramsAreConnected ==
  ASSUME StandardRedirections
  PROVE  Spec => []ProgramIsConnected
BY PipelineIsOrdered, PipelineConnected, PTL

LEMMA PipelineKeepsShell == PipelineInv => ShellDescriptorsKept
<1> SUFFICES ASSUME PipelineInv, pc = "prompt", NEW m \in Fds \ {STDERR_FILENO}
             PROVE  fds[m] = IF m \in leaked THEN signals ELSE shell_descriptors[m]
  BY DEF ShellDescriptorsKept
<1>1. StandardOpen(fds) /\ leaked \in SUBSET Free /\ \A l \in Free : Unused(fds, l)
  BY DEF PipelineInv, ShellInv
<1>2. m \in {0, 1, 3} \/ m \in Free
  BY FdsAre DEF STDERR_FILENO
<1>3. m \in {0, 1, 3} => m \notin leaked
  BY <1>1, FdsAre
<1> QED BY <1>1, <1>2, <1>3, ShellDescriptors
     DEF Unused, StandardOpen, STDIN_FILENO, STDOUT_FILENO, STDERR_FILENO

(* The shell never closes a descriptor it needs, and leaks only those of   *)
(* fg: not by the second close of the synchronisation pipe, nor by a       *)
(* builtin that finds no number to save its standard input at, and         *)
(* whichever children die or cannot open their files.                      *)
THEOREM ShellKeepsItsDescriptors ==
  ASSUME StandardRedirections
  PROVE  Spec => []ShellDescriptorsKept
BY PipelineIsOrdered, PipelineKeepsShell, PTL

LEMMA PipelineOneGroup == PipelineInv => JobIsOneGroup
<1> SUFFICES ASSUME PipelineInv, pc = "wait"
             PROVE  /\ \A i \in Processes : Alive(i) => group[i] = ctx.pgid
                    /\ ctx.pgid = ShellGroup => ~Alive(1)
  BY DEF JobIsOneGroup
<1>1. Running /\ ~Forked /\ ctx.pgid # NoGroup
  BY DEF PipelineInv, LoopInv, Running, Forked
<1>2. FirstGroupInv /\ \A i \in Processes \ {1} : GroupOK(i)
  BY DEF PipelineInv, GroupInv
<1>3. \A i \in Processes : child[i] # "none" => i < n
  BY <1>1 DEF PipelineInv, ChildInv, ChildOK
<1>4. child[1] \in {"none", "forked", "joined", "running", "dead"}
  BY Constants DEF PipelineInv, PipelineTypeOK
<1>5. Alive(1) => group[1] = ctx.pgid
  BY <1>1, <1>2, <1>4 DEF FirstGroupInv, Alive
<1>6. ASSUME NEW i \in Processes \ {1}, Alive(i) PROVE group[i] = ctx.pgid
  BY <1>1, <1>2, <1>3, <1>6 DEF GroupOK, Alive
<1>7. ctx.pgid = ShellGroup => ~Alive(1)
  BY <1>1, <1>2, Constants DEF FirstGroupInv
<1> QED BY <1>5, <1>6, <1>7

(* However the first child, the others and the parent interleave, a        *)
(* foreground job is one process group when the shell waits for it.        *)
THEOREM JobsAreOneGroup ==
  ASSUME StandardRedirections
  PROVE  Spec => []JobIsOneGroup
BY PipelineIsOrdered, PipelineOneGroup, PTL
=============================================================================
