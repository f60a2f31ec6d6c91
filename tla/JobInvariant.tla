---------------------------- MODULE JobInvariant ----------------------------
(***************************************************************************)
(* An inductive invariant of the job control.  None of the properties of   *)
(* JobProperties survives a step from an arbitrary state: they need to     *)
(* know where the shell is, which entries have no process group yet, and   *)
(* from where on SIGCHLD is blocked.                                       *)
(***************************************************************************)
EXTENDS JobProperties

(* No job is twice in the list, and an entry without a process group is    *)
(* the one being set up or the builtin being run.                          *)
EntriesOK ==
  /\ NoDuplicates(table)
  /\ GroupsAreDistinct
  /\ \A j \in Listed(table) :
       table.at[j].pgid = NoPid => /\ j = cur
                                   /\ pc # "leave"
                                   /\ ProcessesOf(j) = {}

AtPrompt == pc = "readline" \/ (pc = "reap" /\ wait = NoJob)
InFg == pc \in {"fg", "bg", "fgmask"} \/ (wait # NoJob /\ wait # cur)

(* What the program counter says about the other variables of the shell.   *)
PlaceOK ==
  /\ AtPrompt => cur = NoJob
  /\ InFg => cur \in Listed(table) /\ table.at[cur].pgid = NoPid
  /\ pc = "fork" => /\ cur \in Listed(table)
                    /\ left = 0 => table.at[cur].pgid # NoPid
  /\ pc \in {"fgmask", "poll", "drain"} => wait # NoJob
  /\ pc \in {"readline", "fork", "leave", "fg", "bg"} => wait = NoJob

(* The job that is waited for has a process group, which owns the terminal. *)
WaitOK ==
  /\ TerminalFollowsWait
  /\ WaitedJobStaysListed
  /\ wait # NoJob => table.at[wait].pgid # NoPid

(* From its first fork until it leaves, run_job has SIGCHLD blocked.       *)
Blocking == pc \in {"fork", "leave", "poll", "drain"} \/ (pc = "reap" /\ wait # NoJob)
(* Where a report about a process of cur must have left a SIGCHLD.         *)
Listening == pc = "fork" \/ (pc \in {"poll", "drain"} /\ wait = cur)

HeardOK ==
  /\ \A p \in Pids : proc[p] = "none" => report[p] = "none"
  /\ Blocking => blocked
  /\ Listening => \A p \in ProcessesOf(cur) : Owed(p) => "CHLD" \in pending

(* Every part above holds between any two steps.                           *)
IInv == TypeOK /\ EntriesOK /\ PlaceOK /\ WaitOK /\ StoppedIsForeground /\ HeardOK

-----------------------------------------------------------------------------
(* The mask: what more holds of a shell in which nobody types fg.  It      *)
(* blocks the three signals inside run_job only, so that run_job always    *)
(* finds, and gives back, a mask without them.                             *)
NoFg == FgArgs = {}

MaskInv ==
  /\ RunJobRestoresMask
  /\ ~saved
  /\ pc \notin {"fg", "fgmask"}
  /\ wait # NoJob => wait = cur
  /\ blocked => Blocking \/ pc \in Gone

-----------------------------------------------------------------------------
(* The counters: what more holds of jobs of one process that only the      *)
(* terminal and the shell signal, if the counters have room for all jobs.  *)
OneProcessJobs ==
  /\ PipelineSizes = {1}
  /\ ExtSignals = {}
  /\ MaxUnsigned > 0
  /\ IsFiniteSet(Jobs)
  /\ Cardinality(Jobs) <= MaxSize

(* An entry before its fork, and the process of an entry as the table has  *)
(* it: running, whatever has become of it since; stopped and reported; or  *)
(* ended and reported.                                                     *)
Empty(job) ==
  /\ ProcessesIn(job, "absent") = Pids
  /\ job.live_processes = 0
  /\ job.state = "running"

Launched(job) ==
  LET p == job.pgid IN
  /\ job.process[p] = "running"
  /\ job.live_processes = 1
  /\ job.state = "running"
  /\ proc[p] # "none"
  /\ proc[p] = "stopped" <=> report[p] = "stopped"
  /\ job.is_background => proc[p] # "stopped" /\ p \notin tstp

Suspended(job) ==
  LET p == job.pgid IN
  /\ job.process[p] = "stopped"
  /\ job.live_processes = 0
  /\ job.state = "stopped"
  /\ proc[p] = "stopped"
  /\ report[p] = "none"

Ended(job) ==
  LET p == job.pgid IN
  /\ job.process[p] = "done"
  /\ job.live_processes = 0
  /\ job.state = "running"
  /\ proc[p] = "none"

SoloJob(job) ==
  /\ ProcessesIn(job, "absent") = Pids \ {job.pgid}
  /\ Launched(job) \/ Suspended(job) \/ Ended(job)

(* An entry without a process group has not been forked yet, and a process *)
(* is the one of an entry, and its own group.                              *)
SoloEntry(j) ==
  IF table.at[j].pgid = NoPid THEN Empty(table.at[j]) ELSE SoloJob(table.at[j])

Owned(p) == group[p] = p /\ \E j \in Listed(table) : table.at[j].pgid = p

SoloTable ==
  /\ \A j \in Listed(table) : SoloEntry(j)
  /\ \A p \in Pids : proc[p] # "none" => Owned(p)
  /\ \A p \in tstp : proc[p] = "running"
  /\ RunningCountIsExact

(* Where the shell is while an entry in the foreground is as it is.        *)
Placed(j) ==
  LET job == table.at[j]
      here == job.process[job.pgid]
  IN  job.pgid # NoPid =>
        /\ here = "running" => job.is_background \/ wait = j \/ (pc = "fork" /\ cur = j)
        /\ here = "done" => wait = j /\ pc \in {"reap", "drain", "poll"}

SoloPlace ==
  /\ \A j \in Listed(table) : Placed(j)
  /\ pc \in {"poll", "fgmask"} => table.at[wait].state # "stopped"
  /\ pc = "fork" => /\ table.at[cur].state # "stopped"
                    /\ left = IF table.at[cur].pgid = NoPid THEN 1 ELSE 0

SoloInv == SoloTable /\ SoloPlace
=============================================================================
