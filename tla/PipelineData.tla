---------------------------- MODULE PipelineData ----------------------------
(***************************************************************************)
(* Which process of a job holds which end of which pipe: the descriptors   *)
(* side of run_job, fork_process and handle_redirection                    *)
(* (executor/executor.c), the data that flows through the pipes, and the   *)
(* synchronisation pipe with the process groups it orders.                 *)
(*                                                                         *)
(* Pipe 0 is the synchronisation pipe, pipe k joins the processes k and    *)
(* k + 1.  Signals, stops and the job table are in JobControl: here a      *)
(* child may be killed at any moment, and a job is waited for until all    *)
(* its processes are dead.  A job that is stopped instead, and brought back *)
(* by fg, costs the shell the descriptor BringToForeground says.           *)
(***************************************************************************)
EXTENDS Descriptors, SequencesExt

CONSTANTS
  MaxProcesses,  \* bound: the longest pipeline
  PIPE_BUF,      \* what a pipe holds before a writer has to wait
  Redirections,  \* what a command may redirect: lists of [fd, exists]
  Lines          \* the pipelines the user types: lists of [program, redir]

(* What a program does: whether it reads before each write, whether it goes *)
(* on as long as it can, and how often it writes by itself: echo, cat of a *)
(* file, yes, head -1 and cat.                                             *)
Programs == [input : BOOLEAN, endless : BOOLEAN, size : Nat \ {0}]

ASSUME PipelineDataAssumption ==
  /\ MaxProcesses \in Nat \ {0}
  /\ PIPE_BUF \in Nat \ {0}
  /\ Redirections \subseteq Seq([fd : Fds, exists : BOOLEAN])
  /\ Lines \subseteq Seq([program : Programs, redir : Redirections])
  /\ \A line \in Lines : Len(line) \in 1 .. MaxProcesses

Processes == 1 .. MaxProcesses

NoGroup == 0
ShellGroup == -1

VARIABLES
  pc,     \* prompt, fork, sync, setpgid, close, wait, leave, exit
  fds,    \* the descriptors of the shell
  ctx,    \* executor_ctx_t, with fd[0] of run_job
  job,    \* the processes of the job: [program, redir]
  is_background,
  n,      \* the process run_job is at
  leaked, \* the numbers fg has opened, which nothing closes
  (* the children *)
  child,  \* none, forked, joined, running, dead
  table,  \* their descriptors
  copy,   \* their copies of ctx
  group,  \* their process groups
  held,   \* how often a program has still to write
  (* the pipes *)
  buf     \* how much is in each

shellVars == <<pc, fds, ctx, job, is_background, n, leaked>>
childVars == <<child, table, copy, group, held>>
vars == <<shellVars, childVars, buf>>

no_ctx == [pgid |-> NoGroup, sfd |-> -1, in_fd |-> -1, out_fd |-> -1,
           sync_pipe |-> <<-1, -1>>, fd0 |-> -1]

no_child == [i \in Processes |-> "none"]
no_table == [i \in Processes |-> no_descriptors]
no_copy == [i \in Processes |-> no_ctx]
shell_group == [i \in Processes |-> ShellGroup]
nothing_held == [i \in Processes |-> 0]
empty_pipes == [k \in 0 .. MaxProcesses - 1 |-> 0]

shell_descriptors ==
  [m \in Fds |-> IF m <= STDERR_FILENO THEN terminal ELSE IF m = 3 THEN history ELSE closed]

Init ==
  /\ pc = "prompt"
  /\ fds = shell_descriptors
  /\ ctx = no_ctx
  /\ job = <<>>
  /\ is_background = FALSE
  /\ n = 1
  /\ leaked = {}
  /\ child = no_child
  /\ table = no_table
  /\ copy = no_copy
  /\ group = shell_group
  /\ held = nothing_held
  /\ buf = empty_pipes

Alive(i) == child[i] \notin {"none", "dead"}
Finished == \A i \in Processes : ~Alive(i)

(* Somebody has this end open. *)
Held(end) ==
  \/ \E m \in Fds : fds[m] = end
  \/ \E i \in Processes : \E m \in Fds : table[i][m] = end

(* exit of the shell, which closes everything. *)
Exit ==
  /\ pc' = "exit"
  /\ fds' = no_descriptors
  /\ UNCHANGED <<ctx, job, is_background, n, leaked, childVars, buf>>

-----------------------------------------------------------------------------
(* run_job *)

(* executor_init_context *)
StartJob(line, bg) ==
  /\ PipeFits(fds)
  /\ ~Full(Pipe(fds, 0).table)
  /\ \E p \in {Pipe(fds, 0)} :
       /\ ctx' = [no_ctx EXCEPT !.sync_pipe = p.ends, !.sfd = Lowest(p.table)]
       /\ fds' = Open(p.table, signals)
  /\ job' = line
  /\ is_background' = bg
  /\ n' = 1
  /\ child' = no_child
  /\ table' = no_table
  /\ copy' = no_copy
  /\ group' = shell_group
  /\ held' = nothing_held
  /\ buf' = empty_pipes
  /\ pc' = "fork"
  /\ UNCHANGED leaked

(* A fork for process n of a shell with these descriptors and this context. *)
fork_process(t, c) ==
  /\ child' = [child EXCEPT ![n] = "forked"]
  /\ table' = [table EXCEPT ![n] = t]
  /\ copy' = [copy EXCEPT ![n] = c]
  /\ held' = [held EXCEPT ![n] = IF job[n].program.input THEN 0 ELSE job[n].program.size]

close_sync_write_Forgotten(t) == t
close_sync_write(t) == IF ctx.pgid = NoGroup THEN Close(t, ctx.sync_pipe[2]) ELSE t

(* One round of the loop up to what it does about the process group: xpipe *)
(* unless this is the last process, fork, and the shell's copy of the end  *)
(* to which the first child writes.                                        *)
ForkProcess ==
  /\ pc = "fork"
  /\ n <= Len(job)
  /\ n < Len(job) => PipeFits(fds)
  /\ \E p \in {IF n < Len(job) THEN Pipe(fds, n) ELSE [table |-> fds, ends |-> <<-1, -1>>]} :
       /\ ctx' = [ctx EXCEPT !.fd0 = p.ends[1], !.out_fd = p.ends[2]]
       /\ fork_process(p.table, ctx')
       /\ fds' = close_sync_write(p.table)
  /\ pc' = IF ctx.pgid = NoGroup THEN "sync" ELSE "setpgid"
  /\ UNCHANGED <<job, is_background, n, group, leaked, buf>>

(* xpipe has no two numbers left. *)
PipeFails ==
  /\ pc = "fork"
  /\ n < Len(job)
  /\ ~PipeFits(fds)
  /\ Exit

(* xpipe, xfork or xsignalfd fails, for this reason or another, or         *)
(* xtcsetpgrp of fg.                                                       *)
CallFails ==
  /\ pc = "prompt" \/ (pc = "fork" /\ n <= Len(job))
  /\ Exit

(* The read returns once the first child has written, or has died and with *)
(* it the last end to write.                                               *)
SyncReadReturns_AtOnce == TRUE
SyncReadReturns == buf[0] > 0 \/ ~Held(WriteEnd(0))

ReadSync ==
  /\ pc = "sync"
  /\ SyncReadReturns
  /\ buf' = [buf EXCEPT ![0] = 0]
  /\ fds' = Close(fds, ctx.sync_pipe[1])
  /\ ctx' = [ctx EXCEPT !.pgid = group[n]]  \* getpgid: also of a zombie
  /\ pc' = "close"
  /\ UNCHANGED <<job, is_background, n, leaked, childVars>>

(* setpgid(pid, job->pgid), which fails once the child has called exec. *)
setpgid_by_parent_Omitted == UNCHANGED group
setpgid_by_parent ==
  group' = IF child[n] = "running" THEN group ELSE [group EXCEPT ![n] = ctx.pgid]

SetGroup ==
  /\ pc = "setpgid"
  /\ setpgid_by_parent
  /\ pc' = "close"
  /\ UNCHANGED <<fds, ctx, job, is_background, n, leaked, child, table, copy, held, buf>>

close_pipes_KeepsWriteEnd == fds' = Close(fds, ctx.in_fd)
close_pipes_OneRoundLate ==
  fds' = [m \in Fds |-> IF m = ctx.in_fd \/ fds[m] = WriteEnd(n - 1) THEN closed ELSE fds[m]]
close_pipes_ClosesReadEnd == fds' = Close(Close(fds, ctx.in_fd), ctx.fd0)
close_pipes == fds' = Close(Close(fds, ctx.in_fd), ctx.out_fd)

ParentCloses ==
  /\ pc = "close"
  /\ close_pipes
  /\ ctx' = [ctx EXCEPT !.in_fd = ctx.fd0]
  /\ n' = n + 1
  /\ pc' = "fork"
  /\ UNCHANGED <<job, is_background, leaked, childVars, buf>>

Launch ==
  /\ pc = "fork"
  /\ n > Len(job)
  /\ pc' = IF is_background THEN "leave" ELSE "wait"
  /\ UNCHANGED <<fds, ctx, job, is_background, n, leaked, childVars, buf>>

(* handle_foreground_execution *)
JobFinished ==
  /\ pc = "wait"
  /\ Finished
  /\ pc' = "leave"
  /\ UNCHANGED <<fds, ctx, job, is_background, n, leaked, childVars, buf>>

(* executor_destroy_context: the synchronisation pipe is closed once more, *)
(* by numbers that have been given out again since.                        *)
executor_destroy_context_KeepsSfd ==
  fds' = Close(Close(fds, ctx.sync_pipe[1]), ctx.sync_pipe[2])
executor_destroy_context ==
  fds' = Close(Close(Close(fds, ctx.sfd), ctx.sync_pipe[1]), ctx.sync_pipe[2])

LeaveRunJob ==
  /\ pc = "leave"
  /\ executor_destroy_context
  /\ ctx' = no_ctx
  /\ pc' = "prompt"
  /\ UNCHANGED <<job, is_background, n, leaked, childVars, buf>>

-----------------------------------------------------------------------------
(* handle_redirection, of a child or of the shell *)

OpensAll(redir) == \A i \in DOMAIN redir : redir[i].exists

(* open gives the least number that is free, and dup2 copies it to the one  *)
(* that is asked for.  The two may be the same, which close then frees     *)
(* again, so that the least is the same each time.                         *)
handle_redirection(t, redir) ==
  LET opened == Lowest(t) IN
  [m \in Fds |-> IF m # opened /\ \E i \in DOMAIN redir : redir[i].fd = m THEN file ELSE t[m]]

(* xopen takes the shell for a child: _exit, of either. *)
CanRedirect(t, redir) == redir = <<>> \/ (OpensAll(redir) /\ ~Full(t))

(* handle_pure_builtin_execution, in the shell itself: standard input and  *)
(* output are saved and put back.                                          *)
saved(t) == Open(Open(t, t[STDIN_FILENO]), t[STDOUT_FILENO])

put_back(t, u) ==
  Move(Move(u, Lowest(t), STDIN_FILENO), Lowest(Open(t, t[STDIN_FILENO])), STDOUT_FILENO)

RunBuiltin(redir) ==
  /\ pc = "prompt"
  /\ CanRedirect(saved(fds), redir)
  /\ fds' = put_back(fds, handle_redirection(saved(fds), redir))
  /\ UNCHANGED <<pc, ctx, job, is_background, n, leaked, childVars, buf>>

(* builtin_fg of a job: it opens a signal descriptor for the wait, and does *)
(* not close it.  One step, at the end of the wait: no process looks at    *)
(* what the shell has open meanwhile.                                      *)
BringToForeground(redir) ==
  LET used == handle_redirection(saved(fds), redir) IN
  /\ pc = "prompt"
  /\ is_background
  /\ Finished
  /\ CanRedirect(saved(fds), redir)
  /\ ~Full(used)
  /\ fds' = put_back(fds, Open(used, signals))
  /\ leaked' = leaked \cup {Lowest(used)}
  /\ is_background' = FALSE
  /\ UNCHANGED <<pc, ctx, job, n, childVars, buf>>

BuiltinCannotOpen(redir) ==
  /\ pc = "prompt"
  /\ ~CanRedirect(saved(fds), redir)
  /\ Exit

-----------------------------------------------------------------------------
(* fork_process in the child, and the program it becomes *)

(* The first child makes its own group and says so; setpgid and write are  *)
(* one step: what lies between is that of a child killed before.           *)
JoinGroup(i) ==
  /\ child[i] = "forked"
  /\ child' = [child EXCEPT ![i] = "joined"]
  /\ LET c == copy[i]
         t == Close(table[i], c.sfd)
     IN  IF c.pgid = NoGroup
         THEN /\ table' = [table EXCEPT ![i] = Close(Close(t, c.sync_pipe[1]), c.sync_pipe[2])]
              /\ group' = [group EXCEPT ![i] = i]
              /\ buf' = [buf EXCEPT ![0] = 1]
         ELSE /\ table' = [table EXCEPT ![i] = t]
              /\ group' = [group EXCEPT ![i] = c.pgid]
              /\ UNCHANGED buf
  /\ UNCHANGED <<copy, held, shellVars>>

(* The end of a process closes what it has open. *)
Dies(i) ==
  /\ child' = [child EXCEPT ![i] = "dead"]
  /\ table' = [table EXCEPT ![i] = no_descriptors]
  /\ copy' = [copy EXCEPT ![i] = no_ctx]
  /\ held' = [held EXCEPT ![i] = 0]
  /\ UNCHANGED group

connected_RedirectionsLast(t, c, redir) ==
  handle_redirection(Move(Move(t, c.in_fd, STDIN_FILENO), c.out_fd, STDOUT_FILENO), redir)
connected(t, c, redir) ==
  Move(Move(handle_redirection(t, redir), c.in_fd, STDIN_FILENO), c.out_fd, STDOUT_FILENO)

(* A builtin, of which none reads, runs in the child; execv of another     *)
(* program closes the signal descriptors (SFD_CLOEXEC).                    *)
execv(t) == [m \in Fds |-> IF t[m] = signals THEN closed ELSE t[m]]

execute_process(i, t) ==
  IF Len(job) > 1 /\ ~job[i].program.input THEN {t, execv(t)} ELSE {execv(t)}

ConnectIO(i) ==
  /\ child[i] = "joined"
  /\ IF CanRedirect(table[i], job[i].redir)
     THEN /\ child' = [child EXCEPT ![i] = "running"]
          /\ \E t \in execute_process(i, connected(table[i], copy[i], job[i].redir)) :
               table' = [table EXCEPT ![i] = t]
          /\ UNCHANGED <<copy, group, held>>
     ELSE Dies(i)
  /\ UNCHANGED <<shellVars, buf>>

(* A program that reads.  Only a pipe makes it wait: what else there is to *)
(* read has ended.                                                         *)
Reads(i) == child[i] = "running" /\ job[i].program.input /\ held[i] = 0

ReadData(i) ==
  LET in == table[i][STDIN_FILENO] IN
  /\ Reads(i)
  /\ IsReadEnd(in)
  /\ buf[in[2]] > 0
  /\ buf' = [buf EXCEPT ![in[2]] = @ - 1]
  /\ held' = [held EXCEPT ![i] = 1]
  /\ UNCHANGED <<child, table, copy, group, shellVars>>

ReadEof(i) ==
  LET in == table[i][STDIN_FILENO] IN
  /\ Reads(i)
  /\ IsReadEnd(in) => buf[in[2]] = 0 /\ ~Held(WriteEnd(in[2]))
  /\ Dies(i)
  /\ UNCHANGED <<shellVars, buf>>

left_to_write(i) ==
  IF job[i].program.endless /\ ~job[i].program.input THEN held[i] ELSE held[i] - 1

(* A program that writes: SIGPIPE without a reader, else a wait for room.  *)
WriteData(i) ==
  LET out == table[i][STDOUT_FILENO]
      broken == IsWriteEnd(out) /\ ~Held(ReadEnd(out[2]))
      k == out[2]
  IN  /\ child[i] = "running"
      /\ held[i] > 0
      /\ IsWriteEnd(out) /\ ~broken => buf[k] < PIPE_BUF
      /\ buf' = IF IsWriteEnd(out) /\ ~broken THEN [buf EXCEPT ![k] = @ + 1] ELSE buf
      /\ IF broken \/ (held[i] = 1 /\ ~job[i].program.endless)
         THEN Dies(i)
         ELSE /\ held' = [held EXCEPT ![i] = left_to_write(i)]
              /\ UNCHANGED <<child, table, copy, group>>
      /\ UNCHANGED shellVars

(* By Ctrl-C, by another program, or because there is no such command. *)
Killed(i) ==
  /\ Alive(i)
  /\ Dies(i)
  /\ UNCHANGED <<shellVars, buf>>

-----------------------------------------------------------------------------
ShellStep ==
  \/ ForkProcess \/ PipeFails \/ ReadSync \/ SetGroup \/ ParentCloses
  \/ Launch \/ JobFinished \/ LeaveRunJob

ChildStep(i) ==
  \/ JoinGroup(i) \/ ConnectIO(i)
  \/ ReadData(i) \/ ReadEof(i) \/ WriteData(i)

Next ==
  \/ ShellStep
  \/ pc = "prompt" /\ Finished /\ \E line \in Lines, bg \in BOOLEAN : StartJob(line, bg)
  \/ \E redir \in Redirections :
       RunBuiltin(redir) \/ BringToForeground(redir) \/ BuiltinCannotOpen(redir)
  \/ CallFails
  \/ \E i \in Processes : ChildStep(i) \/ Killed(i)

Spec == Init /\ [][Next]_vars

(* The shell and each child run: nobody else is needed for a step of theirs. *)
FairSpec ==
  /\ Spec
  /\ WF_vars(ShellStep)
  /\ \A i \in Processes : WF_vars(ChildStep(i))
=============================================================================
