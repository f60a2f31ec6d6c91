-------------------------- MODULE PipelineInvariant --------------------------
(***************************************************************************)
(* Why run_job keeps its descriptors apart: what the shell and each of its *)
(* children have open at every moment, and which group a child is in.      *)
(***************************************************************************)
EXTENDS PipelineProperties

(* What an invariant can say of a redirection to any other number: nothing. *)
StandardRedirections ==
  \A redir \in Redirections : \A i \in DOMAIN redir : redir[i].fd <= STDERR_FILENO

Numbers == -1 .. MaxFd
Free == 4 .. MaxFd  \* what is closed when the shell starts

(* The shell does not use this number: fg has leaked it, or it is closed. *)
Unused(t, m) == t[m] = IF m \in leaked THEN signals ELSE closed

executor_ctx_t ==
  [pgid : Processes \cup {NoGroup, ShellGroup}, sfd : Numbers, in_fd : Numbers,
   out_fd : Numbers, sync_pipe : Numbers \X Numbers, fd0 : Numbers]

Running == pc \in {"fork", "sync", "setpgid", "close", "wait", "leave"}
Forked == pc \in {"sync", "setpgid", "close"}  \* process n, too

StandardOpen(t) ==
  /\ t[STDIN_FILENO] = terminal
  /\ t[STDOUT_FILENO] = terminal
  /\ t[STDERR_FILENO] \in {terminal, file}
  /\ t[3] = history

(* Where run_job is. *)
LoopInv ==
  /\ job = <<>> \/ job \in Lines
  /\ n \in 1 .. Len(job) + 1
  /\ Forked => n <= Len(job)
  /\ pc \in {"prompt", "wait", "leave"} => n = Len(job) + 1
  /\ Running /\ pc # "fork" => job # <<>>
  /\ pc = "fork" => job # <<>> /\ (ctx.pgid = NoGroup <=> n = 1)
  /\ pc = "sync" => n = 1 /\ ctx.pgid = NoGroup
  /\ pc = "setpgid" => n > 1
  /\ pc \in {"setpgid", "close", "wait", "leave"} => ctx.pgid # NoGroup

(* The ends of the pipe between process k and the next, in a table. *)
PipeOpen(t, in, out, k) ==
  IF k = Len(job) THEN in = -1 /\ out = -1
  ELSE in \in Free /\ out \in Free /\ in # out /\ t[in] = ReadEnd(k) /\ t[out] = WriteEnd(k)

ShellUses ==
  {ctx.sfd, ctx.in_fd}
    \cup (IF ctx.pgid = NoGroup THEN {ctx.sync_pipe[1]} ELSE {})
    \cup (IF ctx.pgid = NoGroup /\ pc = "fork" THEN {ctx.sync_pipe[2]} ELSE {})
    \cup (IF Forked THEN {ctx.fd0, ctx.out_fd} ELSE {})

(* The shell has open what it needs for the next process, each end at a    *)
(* number of its own.                                                      *)
ShellInv ==
  /\ pc = "prompt" => StandardOpen(fds) /\ \A m \in Free : Unused(fds, m)
  /\ pc = "exit" => fds = no_descriptors
  /\ Running =>
       /\ StandardOpen(fds)
       /\ \A m \in Free \ ShellUses : Unused(fds, m)
       /\ leaked \cap (ShellUses \cup {ctx.sync_pipe[1], ctx.sync_pipe[2]}) = {}
       /\ ctx.sfd \in Free /\ fds[ctx.sfd] = signals
       /\ ctx.sync_pipe[1] \in Free /\ ctx.sync_pipe[2] \in Free
       /\ ctx.pgid = NoGroup => fds[ctx.sync_pipe[1]] = ReadEnd(0)
       /\ ctx.pgid = NoGroup /\ pc = "fork" => fds[ctx.sync_pipe[2]] = WriteEnd(0)
       /\ IF n = 1 \/ n = Len(job) + 1 THEN ctx.in_fd = -1
          ELSE ctx.in_fd \in Free /\ fds[ctx.in_fd] = ReadEnd(n - 1)
       /\ Forked => PipeOpen(fds, ctx.fd0, ctx.out_fd, n)

(* So has a child, until it has moved its ends to where a program looks.   *)
ChildUses(i) ==
  LET c == copy[i] IN
  {c.in_fd, c.fd0, c.out_fd}
    \cup (IF child[i] = "forked" THEN {c.sfd} ELSE {})
    \cup (IF child[i] = "forked" /\ i = 1 THEN {c.sync_pipe[1], c.sync_pipe[2]} ELSE {})

ConnectingInv(i) ==
  LET c == copy[i]
      t == table[i]
  IN  /\ c.pgid = NoGroup <=> i = 1
      /\ StandardOpen(t)
      /\ \A m \in Free \ ChildUses(i) : Unused(t, m)
      /\ leaked \cap ChildUses(i) = {}
      /\ IF i = 1 THEN c.in_fd = -1 ELSE c.in_fd \in Free /\ t[c.in_fd] = ReadEnd(i - 1)
      /\ PipeOpen(t, c.fd0, c.out_fd, i)
      /\ child[i] = "forked" => c.sfd \in Free /\ t[c.sfd] = signals
      /\ child[i] = "forked" /\ i = 1 =>
           /\ c.sync_pipe[1] \in Free /\ t[c.sync_pipe[1]] = ReadEnd(0)
           /\ c.sync_pipe[2] \in Free /\ t[c.sync_pipe[2]] = WriteEnd(0)

RunningInv(i) ==
  LET t == table[i] IN
  /\ IF i = 1 THEN t[STDIN_FILENO] \in {terminal, file} ELSE t[STDIN_FILENO] = ReadEnd(i - 1)
  /\ IF i = Len(job) THEN t[STDOUT_FILENO] \in {terminal, file}
     ELSE t[STDOUT_FILENO] = WriteEnd(i)
  /\ t[STDERR_FILENO] \in {terminal, file}
  /\ \A m \in Fds \ {0, 1, 2} :
       \/ t[m] \in {closed, history, ReadEnd(i)}
       \/ m \in leaked /\ t[m] = signals /\ Len(job) > 1

ChildOK(i) ==
  /\ child[i] = "none" <=> ~(i < n \/ (i = n /\ Forked))
  /\ ~Alive(i) => table[i] = no_descriptors
  /\ child[i] \in {"forked", "joined"} => ConnectingInv(i)
  /\ child[i] = "running" => RunningInv(i)

ChildInv == \A i \in Processes : ChildOK(i)

(* The first child is in a group of its own as soon as it says so, and the *)
(* others follow it there, by themselves or moved by the parent.           *)
FirstGroupInv ==
  /\ buf[0] > 0 => child[1] \notin {"none", "forked"}
  /\ group[1] \in {1, ShellGroup}
  /\ child[1] \in {"joined", "running"} => group[1] = 1
  /\ Running /\ ctx.pgid # NoGroup =>
       /\ child[1] # "forked"
       /\ ctx.pgid \in {1, ShellGroup}
       /\ Alive(1) => ctx.pgid = 1

GroupOK(i) ==
  Running /\ ctx.pgid # NoGroup /\ Alive(i) =>
    /\ copy[i].pgid = ctx.pgid
    /\ child[i] # "forked" \/ i < n \/ (i = n /\ pc = "close") => group[i] = ctx.pgid

GroupInv == FirstGroupInv /\ \A i \in Processes \ {1} : GroupOK(i)

PipelineInv ==
  /\ PipelineTypeOK
  /\ ctx \in executor_ctx_t
  /\ copy \in [Processes -> executor_ctx_t]
  /\ leaked \in SUBSET Free
  /\ LoopInv
  /\ ShellInv
  /\ ChildInv
  /\ GroupInv
=============================================================================
