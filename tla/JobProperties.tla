--------------------------- MODULE JobProperties ---------------------------
(***************************************************************************)
(* What the job control of the shell must guarantee: who owns the          *)
(* terminal, which job is waited for, and how the job table relates to the *)
(* processes that really exist.                                            *)
(***************************************************************************)
EXTENDS JobControl

-----------------------------------------------------------------------------
(* Safety: the terminal and the job that is waited for *)

ProcessesOf(j) == {p \in Pids : table.at[j].process[p] # "absent"}

(* The terminal belongs to the group of the job handle_foreground_execution *)
(* waits for, and to the shell whenever it waits for none: after the job   *)
(* finished, stopped, or was the last of several ids given to fg.          *)
TerminalFollowsWait ==
  tty = IF wait = NoJob THEN Shell ELSE table.at[wait].pgid

(* The loop of handle_foreground_execution keeps a pointer to the job while *)
(* it calls the reaper, which frees finished background jobs: the pointer  *)
(* never dangles.                                                          *)
WaitedJobStaysListed ==
  wait # NoJob => wait \in Listed(table) /\ ~table.at[wait].is_background

(* jobs_remove_job finds its job again by process group, and pgid 0 stands *)
(* for the builtin that is running: no two entries have the same one.      *)
GroupsAreDistinct ==
  \A j, k \in Listed(table) : table.at[j].pgid = table.at[k].pgid => j = k

(* builtin_fg tests is_background where it means "already running": a      *)
(* stopped job must never be marked background, or fg would wait for it     *)
(* without waking it.                                                      *)
StoppedIsForeground ==
  \A j \in Listed(table) :
    table.at[j].state = "stopped" => ~table.at[j].is_background

(* run_job blocks SIGCHLD before it forks: when its wait is about to call  *)
(* poll, every report owed about a process of the job has left a SIGCHLD   *)
(* for the signalfd.                                                       *)
LaunchedJobIsHeard ==
  pc = "poll" /\ wait = cur /\ (\E p \in ProcessesOf(wait) : Owed(p))
    => "CHLD" \in pending

(* The same of a job waited for by fg, as README.md has it of all critical *)
(* sections ("Signal masking during critical sections").                  *)
WaitedJobIsHeard ==
  pc = "poll" /\ (\E p \in ProcessesOf(wait) : Owed(p)) => "CHLD" \in pending

(* Whichever way run_job ends (job finished, stopped or in the background), *)
(* readline runs with the three signals unblocked and no child was forked  *)
(* with them blocked.                                                      *)
RunJobRestoresMask ==
  /\ pc = "readline" => ~blocked
  /\ deaf = {}

-----------------------------------------------------------------------------
(* Safety: the job table against the processes that really exist *)

(* jobs.h: "Count of running processes". *)
LiveCountIsExact ==
  \A j \in Listed(table) :
    table.at[j].live_processes = Cardinality(ProcessesIn(table.at[j], "running"))

(* The "running job counter" of README.md is what EOF decides on. *)
RunningCountIsExact ==
  table.running_jobs_count =
    Cardinality({j \in Listed(table) : table.at[j].state # "stopped"})

(* jobs.h: "Unique job ID", the name a job has for fg and bg. *)
JobIdsAreUnique ==
  \A j, k \in Listed(table) : table.at[j].id = table.at[k].id => j = k

(* tcsetpgrp and kill exit the shell when they fail.  In fg and bg they    *)
(* fail only when "fg &" chooses its own entry: every other job they may    *)
(* choose, whatever it went through since, still has its process group.    *)
OnlyOwnEntryEndsShell ==
  [][NoSuchGroup => pc = "fg" /\ target = cur]_vars

(* A job leaves the table, announced as done, only once each of its        *)
(* processes has been waited for.                                          *)
DoneMeansFinished ==
  [][\A j \in Listed(table) \ Listed(table') :
       \A p \in ProcessesOf(j) : proc'[p] = "none"]_vars

(* Ctrl-D leaves behind a process that still runs only after the warning.  *)
EndOfFileWarns ==
  [][EndOfFile /\ pc' = "exit" => warned \/ \A p \in Pids : proc[p] # "running"]_vars

-----------------------------------------------------------------------------
(* Liveness *)

Unfinished(j) == \E p \in ProcessesOf(j) : proc[p] \in {"running", "stopped"}

(* run_job comes back to the prompt once every process of the foreground   *)
(* job has ended.                                                          *)
LaunchedJobReturns ==
  wait # NoJob /\ wait = cur /\ ~Unfinished(wait) ~> pc \in Gone \cup {"readline"}

(* A shell left alone at its prompt announces, and forgets, every          *)
(* background job that has ended.                                          *)
IdleShellReports ==
  <>[](pc \in {"readline", "reap"} /\ wait = NoJob) =>
    []<>(\A j \in Listed(table) : table.at[j].is_background => Unfinished(j))

-----------------------------------------------------------------------------
(* The abstract protocol the terminal follows *)

(* The job that owns the terminal, as its process group tells it; a group  *)
(* that no job of the table has stands for itself, a holder the protocol   *)
(* does not know.                                                          *)
Holder ==
  IF tty = Shell THEN NoJob
  ELSE IF PgidAt(table, tty) = {} THEN tty
  ELSE jobs_find_job_by_pgid(table, tty)

Protocol == INSTANCE TerminalProtocol
              WITH NoHolder <- NoJob, holder <- Holder, known <- Listed(table)

(* Whatever the children and other programs do, the shell hands the        *)
(* terminal to one known job at a time, forgets that job only when it      *)
(* takes the terminal back, and never passes it from job to job.           *)
ImplementsProtocol == Protocol!Spec
=============================================================================
