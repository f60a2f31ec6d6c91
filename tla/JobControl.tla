----------------------------- MODULE JobControl -----------------------------
(***************************************************************************)
(* The job control of the shell: run_job and handle_foreground_execution   *)
(* (executor/executor.c), the reaper (shell/signal.c), the fg and bg        *)
(* builtins (builtin/job_control.c) and the part of shell_loop that        *)
(* decides when the shell leaves (shell/shell.c), over the job table and   *)
(* the kernel.  The shell is one sequential process whose program counter  *)
(* is pc; children, other programs and the keyboard act between any two of *)
(* its steps.                                                              *)
(***************************************************************************)
EXTENDS JobTable, Kernel

CONSTANTS
  PipelineSizes,  \* how many processes the jobs of the user have
  FgArgs, BgArgs  \* arguments of fg and bg: sequences of job ids, 0 stands
                  \* for no argument

ASSUME JobControlAssumption ==
  /\ PipelineSizes \subseteq Nat \ {0}
  /\ FgArgs \subseteq Seq(Nat)
  /\ BgArgs \subseteq Seq(Nat)

VARIABLES
  pc,      \* where the shell is, see PCs
  table,   \* the job table
  cur,     \* the job run_job is running, NoJob in readline
  left,    \* processes of cur that run_job has still to fork
  args,    \* ids that the fg or bg being executed has still to handle
  saved,   \* ctx.prev_mask: the three signals were blocked before run_job
  wait,    \* the job handle_foreground_execution waits for, or NoJob
  warned   \* warning_exit of shell_loop

shellVars == <<pc, table, cur, left, args, saved, wait, warned>>
vars == <<kernelVars, shellVars>>

(* readline; the fork loop; leaving run_job; between two ids of fg or bg;  *)
(* fg before it blocks signals; poll; draining the signalfd; the waitpid   *)
(* loop; and the three ways a shell ends: in order, by SIGINT, by the      *)
(* exit of a failing system-call wrapper.                                  *)
PCs == {"readline", "fork", "leave", "fg", "bg", "fgmask", "poll", "drain",
        "reap", "exit", "killed", "fatal"}
Gone == {"exit", "killed", "fatal"}

TypeOK ==
  /\ KernelTypeOK
  /\ pc \in PCs
  /\ table \in shell_jobs_t
  /\ cur \in Jobs \cup {NoJob}
  /\ left \in Nat
  /\ args \in Seq(Nat)
  /\ saved \in BOOLEAN
  /\ wait \in Jobs \cup {NoJob}
  /\ warned \in BOOLEAN

Init ==
  /\ KernelInit
  /\ pc = "readline"
  /\ table = init_shell_jobs
  /\ cur = NoJob
  /\ left = 0
  /\ args = <<>>
  /\ saved = FALSE
  /\ wait = NoJob
  /\ warned = FALSE

-----------------------------------------------------------------------------
(* run_job: forking a job of one or more processes *)

(* The three signals are blocked, to be read from a signalfd. *)
executor_init_context_NoMask == saved' = blocked /\ UNCHANGED blocked
executor_init_context == saved' = blocked /\ blocked' = TRUE

StartJob(j, n, bg) ==
  /\ pc = "readline"
  /\ j \notin Listed(table)
  /\ table' = jobs_add_job(table, j, bg)
  /\ cur' = j
  /\ left' = n
  /\ executor_init_context
  /\ warned' = FALSE
  /\ pc' = "fork"
  /\ UNCHANGED <<childVars, tty, pending, args, wait>>

(* The kernel gives no id away that names a process, a group, or (the pid  *)
(* space being large) anything the table still mentions.                   *)
FreshPid(p) ==
  /\ proc[p] = "none"
  /\ ~GroupExists(p)
  /\ p # tty
  /\ \A j \in Listed(table) : /\ table.at[j].pgid # p
                              /\ table.at[j].process[p] = "absent"

ForkProcess(p) ==
  /\ pc = "fork"
  /\ left > 0
  /\ FreshPid(p)
  /\ LET pgid == IF table.at[cur].pgid = NoPid THEN p ELSE table.at[cur].pgid
     IN  /\ Fork(p, pgid, saved)
         /\ table' = add_child(table, cur, p, pgid)
  /\ left' = left - 1
  /\ UNCHANGED <<pc, cur, args, saved, wait, warned>>

(* xpipe, xsignalfd or xfork of run_job fails. *)
ForkFails ==
  /\ pc = "fork"
  /\ left > 0
  /\ pc' = "fatal"
  /\ UNCHANGED <<kernelVars, table, cur, left, args, saved, wait, warned>>

LaunchBackground ==
  /\ pc = "fork"
  /\ left = 0
  /\ table.at[cur].is_background
  /\ pc' = "leave"
  /\ UNCHANGED <<kernelVars, table, cur, left, args, saved, wait, warned>>

LaunchForeground ==
  /\ pc = "fork"
  /\ left = 0
  /\ ~table.at[cur].is_background
  /\ tty' = table.at[cur].pgid
  /\ wait' = cur
  /\ pc' = "poll"
  /\ UNCHANGED <<childVars, blocked, pending,
                 table, cur, left, args, saved, warned>>

(* The old mask comes back: what was pending is delivered, SIGCHLD to      *)
(* nobody and SIGINT to its default action.                                *)
executor_destroy_context_KeepsMask ==
  pc' = "readline" /\ UNCHANGED <<blocked, pending>>
executor_destroy_context ==
  /\ blocked' = saved
  /\ IF saved
     THEN pc' = "readline" /\ UNCHANGED pending
     ELSE /\ pc' = IF "INT" \in pending THEN "killed" ELSE "readline"
          /\ pending' = {}

LeaveRunJob ==
  /\ pc = "leave"
  /\ executor_destroy_context
  /\ cur' = NoJob
  /\ saved' = FALSE
  /\ UNCHANGED <<childVars, tty, table, left, args, wait, warned>>

-----------------------------------------------------------------------------
(* handle_foreground_execution, called by run_job (wait = cur) or by fg *)

shell_regain_control_Forgotten == UNCHANGED tty
shell_regain_control == tty' = Shell

ReturnToCaller ==
  /\ shell_regain_control
  /\ wait' = NoJob
  /\ pc' = IF wait = cur THEN "leave" ELSE "fg"

JobFinished ==
  /\ pc = "poll"
  /\ table.at[wait].live_processes = 0
  /\ table' = jobs_remove_job(table, table.at[wait].pgid)
  /\ ReturnToCaller
  /\ UNCHANGED <<childVars, blocked, pending,
                 cur, left, args, saved, warned>>

PollReturns ==
  /\ pc = "poll"
  /\ table.at[wait].live_processes > 0
  /\ pending # {}
  /\ pc' = "drain"
  /\ UNCHANGED <<kernelVars, table, cur, left, args, saved, wait, warned>>

DrainChld ==
  /\ pc = "drain"
  /\ "CHLD" \in pending
  /\ pending' = pending \ {"CHLD"}
  /\ pc' = "reap"
  /\ UNCHANGED <<childVars, tty, blocked,
                 table, cur, left, args, saved, wait, warned>>

(* SIGINT passed on lets members of the group end: ChildEnds. *)
DrainInt ==
  /\ pc = "drain"
  /\ "INT" \in pending
  /\ pending' = pending \ {"INT"}
  /\ UNCHANGED <<childVars, tty, blocked, shellVars>>

DrainTstp ==
  /\ pc = "drain"
  /\ "TSTP" \in pending
  /\ pending' = pending \ {"TSTP"}
  /\ SendTstp(table.at[wait].pgid)
  /\ UNCHANGED <<proc, report, group, deaf, tty, blocked, shellVars>>

JobStopped ==
  /\ pc = "drain"
  /\ pending = {}
  /\ table.at[wait].state = "stopped"
  /\ ReturnToCaller
  /\ UNCHANGED <<childVars, blocked, pending,
                 table, cur, left, args, saved, warned>>

PollAgain ==
  /\ pc = "drain"
  /\ pending = {}
  /\ table.at[wait].state # "stopped"
  /\ pc' = "poll"
  /\ UNCHANGED <<kernelVars, table, cur, left, args, saved, wait, warned>>

-----------------------------------------------------------------------------
(* handle_sigchld_events: from readline's event hook and while draining *)

EventHook_NotInstalled == FALSE /\ UNCHANGED vars
EventHook ==
  /\ pc = "readline"
  /\ \E p \in Pids : Owed(p)
  /\ pc' = "reap"
  /\ UNCHANGED <<kernelVars, table, cur, left, args, saved, wait, warned>>

Reap(p) ==
  /\ pc = "reap"
  /\ Wait(p)
  /\ LET j == jobs_find_process_by_pid(table, p)
     IN  table' = IF j = NoJob THEN table
                  ELSE handle_report(table, j, p, ReportOf(p))
  /\ UNCHANGED <<pc, cur, left, args, saved, wait, warned>>

ReapDone ==
  /\ pc = "reap"
  /\ \A p \in Pids : ~Owed(p)
  /\ pc' = IF wait = NoJob THEN "readline" ELSE "drain"
  /\ UNCHANGED <<kernelVars, table, cur, left, args, saved, wait, warned>>

-----------------------------------------------------------------------------
(* The builtins: an entry of their own in the table while they run *)

StartBuiltin(name, j, ids, bg) ==
  /\ pc = "readline"
  /\ j \notin Listed(table)
  /\ table' = jobs_add_job(table, j, bg)
  /\ cur' = j
  /\ args' = ids
  /\ warned' = FALSE
  /\ pc' = name
  /\ UNCHANGED <<kernelVars, left, saved, wait>>

(* handle_pure_builtin_execution is over: run_job drops the entry. *)
drop_builtin_Forgotten == UNCHANGED table
drop_builtin == table' = jobs_remove_job(table, NoPid)

EndBuiltin ==
  /\ drop_builtin
  /\ cur' = NoJob
  /\ args' = <<>>
  /\ pc' = "readline"
  /\ UNCHANGED <<kernelVars, left, saved, wait, warned>>

AllIdsDone == pc \in {"fg", "bg"} /\ args = <<>> /\ EndBuiltin

(* The job that fg or bg chooses for the id at hand *)
target == IF pc = "fg" THEN find_target_job_fg(table, Head(args))
                       ELSE find_target_job_bg(table, Head(args))

NoSuchJob ==
  /\ pc \in {"fg", "bg"}
  /\ args # <<>>
  /\ target = NoJob
  /\ EndBuiltin

(* xtcsetpgrp or xkill on a group that is gone, or on the group 0 of an    *)
(* entry without processes, exits the shell.                               *)
NoSuchGroup ==
  /\ pc \in {"fg", "bg"}
  /\ args # <<>>
  /\ target # NoJob
  /\ ~GroupExists(table.at[target].pgid)
  /\ pc' = "fatal"
  /\ UNCHANGED <<kernelVars, table, cur, left, args, saved, wait, warned>>

to_foreground_Forgotten(t, j) == t
to_foreground(t, j) ==
  Store(t, j, [t.at[j] EXCEPT !.is_background = FALSE], t.running_jobs_count)

(* builtin_fg up to its call of sigprocmask *)
Fg ==
  /\ pc = "fg"
  /\ args # <<>>
  /\ target # NoJob
  /\ LET pgid == table.at[target].pgid
     IN  /\ GroupExists(pgid)
         /\ tty' = pgid
         /\ IF table.at[target].is_background
            THEN /\ table' = to_foreground(table, target)
                 /\ UNCHANGED <<proc, report, tstp, pending>>
            ELSE /\ table' = resume_job(table, target, FALSE)
                 /\ Continue(pgid)
  /\ wait' = target
  /\ args' = Tail(args)
  /\ pc' = "fgmask"
  /\ UNCHANGED <<group, deaf, blocked, cur, left, saved, warned>>

FgBlocksSignals ==
  /\ pc = "fgmask"
  /\ blocked' = TRUE
  /\ pc' = "poll"
  /\ UNCHANGED <<childVars, tty, pending,
                 table, cur, left, args, saved, wait, warned>>

(* No descriptor is left for the signalfd of fg. *)
SignalfdFails ==
  /\ pc = "fgmask"
  /\ blocked' = TRUE
  /\ pc' = "fatal"
  /\ UNCHANGED <<childVars, tty, pending,
                 table, cur, left, args, saved, wait, warned>>

Bg ==
  /\ pc = "bg"
  /\ args # <<>>
  /\ target # NoJob
  /\ GroupExists(table.at[target].pgid)
  /\ Continue(table.at[target].pgid)
  /\ table' = resume_job(table, target, TRUE)
  /\ args' = Tail(args)
  /\ UNCHANGED <<group, deaf, tty, blocked, pc, cur, left, saved, wait, warned>>

(* Any line that leaves the jobs alone: another builtin adds its entry and  *)
(* removes it, an invalid line runs nothing.                               *)
OtherLine ==
  /\ pc = "readline"
  /\ warned' = FALSE
  /\ UNCHANGED <<kernelVars, pc, table, cur, left, args, saved, wait>>

-----------------------------------------------------------------------------
(* Leaving the shell *)

Exit ==
  /\ pc = "readline"
  /\ pc' = "exit"
  /\ UNCHANGED <<kernelVars, table, cur, left, args, saved, wait, warned>>

EndOfFile ==
  /\ pc = "readline"
  /\ IF table.running_jobs_count > 0 /\ ~warned
     THEN warned' = TRUE /\ UNCHANGED pc
     ELSE pc' = "exit" /\ UNCHANGED warned
  /\ UNCHANGED <<kernelVars, table, cur, left, args, saved, wait>>

(* Ctrl-C while the shell owns the terminal: the default action of SIGINT. *)
KeyInt ==
  /\ pc \notin Gone
  /\ tty = Shell
  /\ IF blocked
     THEN pending' = pending \cup {"INT"} /\ UNCHANGED pc
     ELSE pc' = "killed" /\ UNCHANGED pending
  /\ UNCHANGED <<childVars, tty, blocked,
                 table, cur, left, args, saved, wait, warned>>

(* Ctrl-Z there: suspends the shell for a while, or stays pending. *)
KeyTstp ==
  /\ pc \notin Gone
  /\ tty = Shell
  /\ blocked
  /\ pending' = pending \cup {"TSTP"}
  /\ UNCHANGED <<childVars, tty, blocked, shellVars>>

(* Ctrl-Z while a job owns it: the kernel signals the job. *)
KeyTstpToForeground ==
  /\ pc \notin Gone
  /\ KeyTstpToJob
  /\ UNCHANGED shellVars

ChildRuns(p) ==
  /\ pc \notin Gone
  /\ ChildStep(p)
  /\ UNCHANGED shellVars

-----------------------------------------------------------------------------
(* Steps of the shell itself, what the user types, what the children do *)

ShellStep ==
  \/ \E p \in Pids : ForkProcess(p)
  \/ LaunchBackground \/ LaunchForeground \/ LeaveRunJob
  \/ JobFinished \/ PollReturns
  \/ DrainChld \/ DrainInt \/ DrainTstp \/ JobStopped \/ PollAgain
  \/ EventHook \/ (\E p \in Pids : Reap(p)) \/ ReapDone
  \/ AllIdsDone \/ NoSuchJob \/ NoSuchGroup
  \/ Fg \/ FgBlocksSignals \/ Bg

UserStep ==
  \/ \E j \in Jobs, n \in PipelineSizes, bg \in BOOLEAN : StartJob(j, n, bg)
  \/ \E j \in Jobs, ids \in FgArgs, bg \in BOOLEAN : StartBuiltin("fg", j, ids, bg)
  \/ \E j \in Jobs, ids \in BgArgs, bg \in BOOLEAN : StartBuiltin("bg", j, ids, bg)
  \/ OtherLine \/ Exit \/ EndOfFile
  \/ KeyInt \/ KeyTstp \/ KeyTstpToForeground

EnvironmentStep ==
  \/ ForkFails \/ SignalfdFails
  \/ \E p \in Pids : ChildRuns(p)

Next == ShellStep \/ UserStep \/ EnvironmentStep

Spec == Init /\ [][Next]_vars

(* The shell keeps running, and readline calls its event hook again and    *)
(* again while it waits for a key (10 times a second).                     *)
FairSpec == Spec /\ WF_vars(ShellStep)
=============================================================================
