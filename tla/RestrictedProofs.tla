-------------------------- MODULE RestrictedProofs --------------------------
(***************************************************************************)
(* What the job control guarantees of shells that are used in a restricted *)
(* way: without fg, the signal mask is what it was after every job; with   *)
(* jobs of one process that only the terminal and the shell signal, the    *)
(* counters of the job table are exact.                                    *)
(***************************************************************************)
EXTENDS JobControlProofs

-----------------------------------------------------------------------------
(* The mask *)

LEMMA InitMask == Init => MaskInv
BY DEF Init, KernelInit, MaskInv, RunJobRestoresMask

(* The steps that leave the mask, and who inherited it, alone.             *)
LEMMA SameMask ==
  ASSUME MaskInv, UNCHANGED <<deaf, blocked, saved>>,
         pc' \notin {"fg", "fgmask", "readline"} \/ (~blocked /\ pc' = "readline"),
         wait' # NoJob => wait' = cur',
         Blocking \/ pc \in Gone => Blocking' \/ pc' \in Gone
  PROVE  MaskInv'
BY DEF MaskInv, RunJobRestoresMask

LEMMA ShellKeepsMask ==
  ASSUME NoFg, IInv, MaskInv, ShellStep
  PROVE  MaskInv'
<1>1. ASSUME NEW p \in Pids, ForkProcess(p) PROVE MaskInv'
  <2>1. deaf' = deaf /\ UNCHANGED <<blocked, saved, pc, wait, cur>> /\ pc = "fork"
    BY <1>1 DEF ForkProcess, Fork, MaskInv
  <2> QED BY <2>1, SameMask DEF MaskInv, Blocking, Gone
<1>2. ASSUME NEW p \in Pids, Reap(p) PROVE MaskInv'
  <2>1. deaf' = deaf /\ UNCHANGED <<blocked, saved, pc, wait, cur>> /\ pc = "reap"
    BY <1>2 DEF Reap, Wait, MaskInv, RunJobRestoresMask
  <2> QED BY <2>1, SameMask DEF MaskInv, Blocking, Gone
<1>3. CASE LaunchBackground \/ LaunchForeground
  BY <1>3 DEF LaunchBackground, LaunchForeground, kernelVars, childVars, MaskInv,
              RunJobRestoresMask, Blocking, Gone
<1>4. CASE LeaveRunJob
  <2>1. wait = NoJob /\ ~blocked' /\ ~saved' /\ deaf' = deaf /\ wait' = wait
        /\ pc' \in {"readline", "killed"}
    BY <1>4 DEF LeaveRunJob, executor_destroy_context, childVars, IInv, PlaceOK, MaskInv
  <2> QED BY <2>1 DEF MaskInv, RunJobRestoresMask
<1>5. CASE JobFinished \/ JobStopped
  <2>1. /\ wait = cur /\ pc' = "leave" /\ wait' = NoJob
        /\ UNCHANGED <<deaf, blocked, saved>>
    BY <1>5 DEF JobFinished, JobStopped, ReturnToCaller, childVars, IInv, PlaceOK, MaskInv
  <2> QED BY <2>1 DEF MaskInv, RunJobRestoresMask, Blocking
<1>6. CASE PollReturns \/ DrainChld \/ DrainInt \/ DrainTstp \/ PollAgain
  <2>1. UNCHANGED <<deaf, blocked, saved, wait, cur>> /\ pc' \in {"drain", "reap", "poll"}
        /\ wait # NoJob
    BY <1>6 DEF PollReturns, DrainChld, DrainInt, DrainTstp, PollAgain,
                kernelVars, childVars, shellVars, IInv, PlaceOK
  <2> QED BY <2>1, SameMask DEF MaskInv, Blocking, Gone
<1>7. CASE EventHook
  BY <1>7 DEF EventHook, kernelVars, childVars, MaskInv, RunJobRestoresMask
<1>8. CASE ReapDone
  BY <1>8 DEF ReapDone, kernelVars, childVars, MaskInv, RunJobRestoresMask, Blocking, Gone
<1>9. CASE AllIdsDone \/ NoSuchJob
  <2>1. pc = "bg" /\ wait = NoJob /\ pc' = "readline"
        /\ UNCHANGED <<deaf, blocked, saved, wait>>
    BY <1>9 DEF AllIdsDone, NoSuchJob, EndBuiltin, kernelVars, childVars, IInv, PlaceOK, MaskInv
  <2> QED BY <2>1 DEF MaskInv, RunJobRestoresMask, Blocking, Gone
<1>10. CASE NoSuchGroup
  BY <1>10 DEF NoSuchGroup, kernelVars, childVars, MaskInv, RunJobRestoresMask, Gone
<1>11. CASE Bg
  BY <1>11 DEF Bg, IInv, PlaceOK, MaskInv, RunJobRestoresMask, Blocking, Gone
<1>12. ~Fg /\ ~FgBlocksSignals
  BY DEF Fg, FgBlocksSignals, MaskInv
<1> QED BY <1>1, <1>2, <1>3, <1>4, <1>5, <1>6, <1>7, <1>8, <1>9, <1>10, <1>11, <1>12
        DEF ShellStep

LEMMA UserKeepsMask ==
  ASSUME NoFg, IInv, MaskInv, UserStep
  PROVE  MaskInv'
<1>1. ASSUME NEW j \in Jobs, NEW n \in PipelineSizes, NEW bg \in BOOLEAN,
             StartJob(j, n, bg)
      PROVE  MaskInv'
  BY <1>1 DEF StartJob, executor_init_context, childVars, IInv, PlaceOK, MaskInv,
              RunJobRestoresMask, Blocking
<1>2. ASSUME NEW j \in Jobs, NEW ids \in BgArgs, NEW bg \in BOOLEAN,
             StartBuiltin("bg", j, ids, bg)
      PROVE  MaskInv'
  BY <1>2 DEF StartBuiltin, kernelVars, childVars, IInv, PlaceOK, MaskInv,
              RunJobRestoresMask, Blocking, Gone
<1>3. CASE OtherLine \/ Exit \/ EndOfFile
  BY <1>3 DEF OtherLine, Exit, EndOfFile, kernelVars, childVars, MaskInv,
              RunJobRestoresMask, Gone
<1>4. CASE KeyInt \/ KeyTstp \/ KeyTstpToForeground
  BY <1>4 DEF KeyInt, KeyTstp, KeyTstpToForeground, KeyTstpToJob, childVars, shellVars,
              MaskInv, RunJobRestoresMask, Blocking, Gone
<1> QED BY <1>1, <1>2, <1>3, <1>4 DEF UserStep, NoFg

LEMMA EnvironmentKeepsMask ==
  ASSUME MaskInv, EnvironmentStep
  PROVE  MaskInv'
<1>1. CASE ForkFails
  BY <1>1 DEF ForkFails, kernelVars, childVars, MaskInv, RunJobRestoresMask, Gone
<1>2. ASSUME NEW p \in Pids, ChildRuns(p) PROVE MaskInv'
  <2>1. UNCHANGED <<deaf, blocked, saved, pc, wait, cur>>
    BY <1>2 DEF ChildRuns, ChildStep, ChildEnds, ChildStops, OtherStops, OtherKills,
                OtherContinues, Stop, End, shellVars
  <2> QED BY <2>1 DEF MaskInv, RunJobRestoresMask, Blocking
<1>3. ~SignalfdFails
  BY DEF SignalfdFails, MaskInv
<1> QED BY <1>1, <1>2, <1>3 DEF EnvironmentStep

(* As long as nobody types fg, run_job gives the mask back that it found,  *)
(* whichever way the job ended, and no child inherits a mask that makes it *)
(* deaf to Ctrl-C and Ctrl-Z, with any number of jobs in the background.   *)
THEOREM MaskIsRestored ==
  ASSUME NoFg
  PROVE  Spec => []RunJobRestoresMask
<1>1. Init => MaskInv
  BY InitMask
<1>2. IInv /\ MaskInv /\ [Next]_vars => MaskInv'
  <2> SUFFICES ASSUME IInv, MaskInv, [Next]_vars PROVE MaskInv'
    OBVIOUS
  <2>1. CASE UNCHANGED vars
    BY <2>1 DEF vars, kernelVars, childVars, shellVars, MaskInv, RunJobRestoresMask,
                Blocking
  <2> QED BY <2>1, ShellKeepsMask, UserKeepsMask, EnvironmentKeepsMask DEF Next
<1>3. MaskInv => RunJobRestoresMask
  BY DEF MaskInv
<1> QED BY <1>1, <1>2, <1>3, Invariance, PTL DEF Spec

-----------------------------------------------------------------------------
(* What the operators on the table do to the counters *)

LEMMA StoreIs ==
  ASSUME NEW t, DOMAIN t.at = Jobs, NEW j \in Jobs, NEW job, NEW n
  PROVE  /\ DOMAIN Store(t, j, job, n).at = Jobs
         /\ Store(t, j, job, n).at[j] = job
         /\ Store(t, j, job, n).running_jobs_count = n
BY DEF Store

LEMMA TableDomain ==
  ASSUME NEW t \in shell_jobs_t
  PROVE  DOMAIN t.at = Jobs
BY DEF shell_jobs_t

LEMMA AddJobCounts ==
  ASSUME NEW t \in shell_jobs_t, NEW j \in Jobs, NEW bg \in BOOLEAN
  PROVE  /\ jobs_add_job(t, j, bg).at[j].live_processes = 0
         /\ jobs_add_job(t, j, bg).running_jobs_count
              = Plus(t.running_jobs_count, 1, MaxSize)
BY DEF shell_jobs_t, jobs_add_job, jobs_new_job

(* The entry that is removed counted, unless it was stopped.               *)
LEMMA RemoveJobCounts ==
  ASSUME NEW t \in shell_jobs_t, DistinctGroups(t), NEW j \in Listed(t)
  PROVE  jobs_remove_job(t, t.at[j].pgid).running_jobs_count
           = IF t.at[j].state # "stopped" THEN Minus(t.running_jobs_count, MaxSize)
             ELSE t.running_jobs_count
<1> DEFINE K == PgidAt(t, t.at[j].pgid)
<1>1. K # {} /\ K \in SUBSET (1 .. Len(t.jobs)) /\ Len(t.jobs) \in Nat
  BY DEF PgidAt, Listed, ToSet, shell_jobs_t
<1>2. Max(K) \in K
  BY <1>1, MaxInSet
<1>3. t.jobs[Max(K)] = j
  BY <1>2, ListedType DEF PgidAt, DistinctGroups
<1> QED BY <1>1, <1>3 DEF jobs_remove_job

LEMMA CompletedCounts ==
  ASSUME NEW t \in shell_jobs_t, DistinctGroups(t), NEW j \in Listed(t)
  PROVE  jobs_mark_job_completed(t, j).running_jobs_count
           = Minus(t.running_jobs_count, MaxSize)
<1> DEFINE new == [t.at[j] EXCEPT !.state = "done"]
           d == Store(t, j, new, t.running_jobs_count)
<1>1. j \in Jobs /\ t.at[j] \in job_t /\ t.running_jobs_count \in 0 .. MaxSize
  BY ListedType, TableType
<1>2. new \in job_t /\ new.pgid = t.at[j].pgid /\ new.state = "done"
  BY <1>1 DEF job_t, JobStates
<1>3. InPlace(t, d, j) /\ d.at[j] = new /\ d.running_jobs_count = t.running_jobs_count
  <2> HIDE DEF new
  <2> QED BY <1>1, <1>2, StoreFacts, StoreIs, TableDomain
<1>4. jobs_mark_job_completed(t, j) = jobs_remove_job(d, d.at[j].pgid)
  BY <1>2, <1>3 DEF jobs_mark_job_completed
<1> HIDE DEF new, d
<1>5. Listed(d) = Listed(t) /\ d \in shell_jobs_t
  BY <1>3, InPlaceListed DEF InPlace
<1>6. DistinctGroups(d)
  BY <1>2, <1>3, <1>5, ListedType DEF DistinctGroups, InPlace
<1> QED BY <1>2, <1>3, <1>4, <1>5, <1>6, RemoveJobCounts

(* The jobs that count as running, of which there are no more than jobs.   *)
Counted(t) == {j \in Listed(t) : t.at[j].state # "stopped"}

LEMMA CountedIsFinite ==
  ASSUME OneProcessJobs, NEW t \in shell_jobs_t
  PROVE  /\ IsFiniteSet(Counted(t))
         /\ Cardinality(Counted(t)) \in Nat
         /\ Cardinality(Counted(t)) <= MaxSize
<1>1. Counted(t) \subseteq Jobs
  BY ListedType DEF Counted
<1>2. /\ IsFiniteSet(Counted(t))
      /\ Cardinality(Counted(t)) <= Cardinality(Jobs)
  BY <1>1, FS_Subset DEF OneProcessJobs
<1>3. Cardinality(Counted(t)) \in Nat /\ Cardinality(Jobs) \in Nat
  BY <1>2, FS_CardinalityType DEF OneProcessJobs
<1> QED BY <1>2, <1>3, JobTableAssumption DEF OneProcessJobs

(* One more, and one less.                                                 *)
LEMMA CountsUp ==
  ASSUME OneProcessJobs, NEW t \in shell_jobs_t, NEW u \in shell_jobs_t,
         NEW j, j \notin Counted(t), Counted(u) = Counted(t) \cup {j},
         t.running_jobs_count = Cardinality(Counted(t)),
         u.running_jobs_count = Plus(t.running_jobs_count, 1, MaxSize)
  PROVE  u.running_jobs_count = Cardinality(Counted(u))
<1>1. Cardinality(Counted(u)) = Cardinality(Counted(t)) + 1
  BY CountedIsFinite, FS_AddElement
<1>2. Cardinality(Counted(u)) <= MaxSize /\ Cardinality(Counted(t)) \in Nat
  BY CountedIsFinite
<1> QED BY <1>1, <1>2, JobTableAssumption DEF Plus

LEMMA CountsDown ==
  ASSUME OneProcessJobs, NEW t \in shell_jobs_t, NEW u \in shell_jobs_t,
         NEW j \in Counted(t), Counted(u) = Counted(t) \ {j},
         t.running_jobs_count = Cardinality(Counted(t)),
         u.running_jobs_count = Minus(t.running_jobs_count, MaxSize)
  PROVE  u.running_jobs_count = Cardinality(Counted(u))
<1>1. Cardinality(Counted(u)) = Cardinality(Counted(t)) - 1
  BY CountedIsFinite, FS_RemoveElement
<1>2. Cardinality(Counted(u)) \in Nat /\ Cardinality(Counted(t)) \in Nat
  BY CountedIsFinite
<1> QED BY <1>1, <1>2 DEF Minus
-----------------------------------------------------------------------------
(* What they do to an entry whose only process is that of its group *)

Alone(job, p) == ProcessesIn(job, "absent") = Pids \ {p}

LEMMA AddChildIs ==
  ASSUME OneProcessJobs, NEW t \in shell_jobs_t, NEW j \in Jobs, NEW p \in Pids,
         Empty(t.at[j])
  PROVE  LET u == add_child(t, j, p, p)
         IN  /\ Alone(u.at[j], p)
             /\ u.at[j].process[p] = "running"
             /\ u.at[j].live_processes = 1
             /\ u.running_jobs_count = t.running_jobs_count
<1> DEFINE job == t.at[j]
           new == [job EXCEPT !.process[p] = "running",
                              !.pgid = p,
                              !.live_processes = Plus(@, 1, MaxUnsigned)]
<1>1. job \in job_t
  BY TableType
<1>2. Plus(job.live_processes, 1, MaxUnsigned) = 1
  BY JobTableAssumption DEF Empty, OneProcessJobs, Plus
<1>3. /\ new.process[p] = "running"
      /\ \A q \in Pids \ {p} : new.process[q] = job.process[q]
      /\ new.live_processes = 1
  BY <1>1, <1>2 DEF job_t
<1>4. add_child(t, j, p, p) = Store(t, j, new, t.running_jobs_count)
  BY DEF add_child
<1> HIDE DEF new
<1>5. Alone(new, p)
  BY <1>3 DEF Empty, Alone, ProcessesIn
<1> QED BY <1>3, <1>4, <1>5, StoreIs, TableDomain

LEMMA NoteExitedIs ==
  ASSUME NEW t \in shell_jobs_t, NEW j \in Jobs, NEW p \in Pids,
         t.at[j].live_processes = 1
  PROVE  LET u == note_exited(t, j, p)
         IN  /\ u.at[j].process[p] = "done"
             /\ u.at[j].live_processes = 0
             /\ u.running_jobs_count = t.running_jobs_count
<1> DEFINE job == t.at[j]
           new == [job EXCEPT !.process[p] = "done",
                              !.live_processes = Minus(@, MaxUnsigned)]
<1>1. job \in job_t
  BY TableType
<1>2. new.process[p] = "done" /\ new.live_processes = 0
  BY <1>1 DEF job_t, Minus
<1>3. note_exited(t, j, p) = Store(t, j, new, t.running_jobs_count)
  BY DEF note_exited
<1> HIDE DEF new
<1> QED BY <1>2, <1>3, StoreIs, TableDomain

LEMMA NoteContinuedIs ==
  ASSUME NEW t \in shell_jobs_t, NEW j \in Jobs, NEW p \in Pids
  PROVE  LET u == note_continued(t, j, p)
         IN  /\ u.at[j].process[p] = "running"
             /\ u.at[j].live_processes = t.at[j].live_processes
             /\ u.running_jobs_count = t.running_jobs_count
<1> DEFINE job == t.at[j]
           new == [job EXCEPT !.process[p] = "running"]
<1>1. job \in job_t
  BY TableType
<1>2. new.process[p] = "running" /\ new.live_processes = job.live_processes
  BY <1>1 DEF job_t
<1>3. note_continued(t, j, p) = Store(t, j, new, t.running_jobs_count)
  BY DEF note_continued
<1> HIDE DEF new
<1> QED BY <1>2, <1>3, StoreIs, TableDomain

LEMMA NoteStoppedIs ==
  ASSUME NEW t \in shell_jobs_t, NEW j \in Jobs, NEW p \in Pids
  PROVE  LET u == note_stopped(t, j, p)
         IN  /\ u.at[j].process[p] = "stopped"
             /\ u.at[j].live_processes = 0
             /\ u.at[j].state = "stopped"
             /\ u.running_jobs_count = Minus(t.running_jobs_count, MaxSize)
<1> DEFINE one == [t.at[j] EXCEPT !.process[p] = "stopped"]
           t1 == Store(t, j, one, t.running_jobs_count)
           two == [one EXCEPT !.process = AllMoved(one, "running", "stopped"),
                              !.state = "stopped"]
           s == Store(t1, j, two, Minus(t1.running_jobs_count, MaxSize))
           three == [two EXCEPT !.live_processes = 0]
<1>1. t.at[j] \in job_t
  BY TableType
<1>2. /\ one.process[p] = "stopped"
      /\ one = [one EXCEPT !.pgid = @]
  BY <1>1 DEF job_t
<1>3. /\ three.process[p] = "stopped"
      /\ three.live_processes = 0
      /\ three.state = "stopped"
  BY <1>1, <1>2 DEF AllMoved, job_t
<1>4. DOMAIN t1.at = Jobs /\ t1.at[j] = one /\ t1.running_jobs_count = t.running_jobs_count
  <2> HIDE DEF one
  <2> QED BY StoreIs, TableDomain
<1>5. s = jobs_mark_job_stopped(t1, j)
  BY <1>4 DEF jobs_mark_job_stopped
<1>6. /\ DOMAIN s.at = Jobs /\ s.at[j] = two
      /\ s.running_jobs_count = Minus(t.running_jobs_count, MaxSize)
  <2> HIDE DEF two, t1
  <2> QED BY <1>4, StoreIs
<1>7. note_stopped(t, j, p) = Store(s, j, three, s.running_jobs_count)
  BY <1>5, <1>6 DEF note_stopped
<1> HIDE DEF three, s
<1> QED BY <1>3, <1>6, <1>7, StoreIs

LEMMA ResumeJobIs ==
  ASSUME OneProcessJobs, NEW t \in shell_jobs_t, NEW j \in Jobs, NEW p \in Pids,
         NEW bg \in BOOLEAN,
         Alone(t.at[j], p), t.at[j].process[p] = "stopped", t.at[j].live_processes = 0
  PROVE  LET u == resume_job(t, j, bg)
         IN  /\ u.at[j].process[p] = "running"
             /\ u.at[j].live_processes = 1
             /\ u.running_jobs_count = Plus(t.running_jobs_count, 1, MaxSize)
<1> DEFINE job == t.at[j]
           live == Plus(job.live_processes, Cardinality(ProcessesIn(job, "stopped")),
                        MaxUnsigned)
           moved == AllMoved(job, "stopped", "running")
           one == [job EXCEPT !.process = moved, !.live_processes = live,
                              !.state = "continued"]
           c == Store(t, j, one, t.running_jobs_count)
           two == Resumed(c.at[j], bg)
<1>1. job \in job_t
  BY TableType
<1>2. live = 1
  <2>1. ProcessesIn(job, "stopped") = {p}
    BY DEF Alone, ProcessesIn
  <2>2. Cardinality(ProcessesIn(job, "stopped")) = 1
    BY <2>1, FS_Singleton
  <2> QED BY <2>2, JobTableAssumption DEF OneProcessJobs, Plus
<1>3. moved[p] = "running"
  BY DEF AllMoved
<1> HIDE DEF live, moved
<1>4. LET r == Resumed(one, bg) IN r.process[p] = "running" /\ r.live_processes = 1
  BY <1>1, <1>2, <1>3 DEF job_t, Resumed
<1>5. c = jobs_mark_job_continued(t, j)
  BY DEF jobs_mark_job_continued, Continued, live, moved
<1>6. c.at[j] = one /\ DOMAIN c.at = Jobs /\ c.running_jobs_count = t.running_jobs_count
  <2> HIDE DEF one
  <2> QED BY StoreIs, TableDomain
<1>7. two.process[p] = "running" /\ two.live_processes = 1
  BY <1>4, <1>6
<1>8. resume_job(t, j, bg) = Store(c, j, two, Plus(c.running_jobs_count, 1, MaxSize))
  BY <1>5 DEF resume_job
<1> HIDE DEF c, two
<1> QED BY <1>6, <1>7, <1>8, StoreIs

-----------------------------------------------------------------------------
(* SoloInv: an entry and its process *)

(* What a step may do: a job leaves the table with no process left.        *)
OnlyFinishedLeave ==
  \A j \in Listed(table) \ Listed(table') : \A p \in ProcessesOf(j) : proc'[p] = "none"

(* An entry that does not change, and of whose process waitpid has as much *)
(* to report as before.                                                    *)
LEMMA KeepsEntry ==
  ASSUME NEW i \in Jobs, SoloEntry(i), table'.at[i] = table.at[i],
         \A q \in Pids : table.at[i].pgid = q =>
           /\ proc'[q] = proc[q]
           /\ report'[q] = report[q]
           /\ q \in tstp' => q \in tstp,
         table.at[i].pgid \in Pids \cup {NoPid}
  PROVE  SoloEntry(i)'
<1>1. CASE table.at[i].pgid = NoPid
  BY <1>1 DEF SoloEntry, Empty, ProcessesIn
<1>2. CASE table.at[i].pgid # NoPid
  BY <1>2 DEF SoloEntry, SoloJob, ProcessesIn, Launched, Suspended, Ended
<1> QED BY <1>1, <1>2

(* A step that changes no entry, and no process but for a pending stop.    *)
LEMMA SameEntries ==
  ASSUME IInv, SoloTable, table' = table, UNCHANGED <<proc, report, group>>,
         \A p \in tstp' : proc[p] = "running",
         \A i \in Listed(table) : table.at[i].pgid \in tstp' =>
           table.at[i].pgid \in tstp \/ ~table.at[i].is_background
  PROVE  SoloTable'
<1>1. ASSUME NEW i \in Listed(table) PROVE SoloEntry(i)'
  <2>1. CASE table.at[i].pgid = NoPid
    BY <2>1 DEF SoloTable, SoloEntry, Empty, ProcessesIn
  <2>2. CASE table.at[i].pgid # NoPid
    BY <2>2 DEF SoloTable, SoloEntry, SoloJob, ProcessesIn, Launched, Suspended, Ended
  <2> QED BY <2>1, <2>2
<1> QED BY <1>1 DEF SoloTable, Owned, RunningCountIsExact

(* A step that changes one entry, j, and one process, p, which is the      *)
(* process of j or, if p is NoPid, none.                                   *)
LEMMA OneEntry ==
  ASSUME IInv, SoloTable, NEW j \in Jobs, NEW p \in Pids \cup {NoPid},
         Listed(table') \ {j} = Listed(table) \ {j},
         \A i \in Jobs \ {j} : table'.at[i] = table.at[i],
         j \in Listed(table) => table.at[j].pgid \in {p, NoPid},
         \A i \in Listed(table) \ {j} : table.at[i].pgid # p,
         \A q \in Pids \ {p} : /\ proc'[q] = proc[q]
                               /\ report'[q] = report[q]
                               /\ group'[q] = group[q]
                               /\ q \in tstp' => q \in tstp,
         tstp' \subseteq Pids,
         j \in Listed(table') => SoloEntry(j)',
         p \in Pids /\ proc'[p] # "none" =>
           j \in Listed(table') /\ table'.at[j].pgid = p /\ group'[p] = p,
         p \in tstp' => proc'[p] = "running",
         RunningCountIsExact'
  PROVE  SoloTable'
<1>1. ASSUME NEW i \in Listed(table'), i # j PROVE SoloEntry(i)'
  <2>1. i \in Listed(table) /\ i \in Jobs /\ table.at[i].pgid \in Pids \cup {NoPid}
    BY <1>1, TypeFacts DEF IInv
  <2> QED BY <1>1, <2>1, KeepsEntry, Constants DEF SoloTable
<1>2. ASSUME NEW q \in Pids, proc'[q] # "none" PROVE Owned(q)'
  <2>1. CASE q = p
    BY <1>2, <2>1 DEF Owned
  <2>2. CASE q # p
    <3>1. proc[q] # "none" /\ group'[q] = group[q] /\ q # NoPid
      BY <1>2, <2>2, Constants
    <3>2. PICK i \in Listed(table) : table.at[i].pgid = q /\ group[q] = q
      BY <3>1 DEF SoloTable, Owned
    <3>3. i # j /\ i \in Jobs
      BY <2>2, <3>1, <3>2, TypeFacts DEF IInv
    <3> QED BY <3>1, <3>2, <3>3 DEF Owned
  <2> QED BY <2>1, <2>2
<1>3. \A q \in tstp' : proc'[q] = "running"
  BY DEF SoloTable
<1> QED BY <1>1, <1>2, <1>3 DEF SoloTable

-----------------------------------------------------------------------------
(* SoloInv: the steps that leave the table alone *)

(* Those of them after which the children are as they were, too.           *)
LEMMA QuietStepsKeepTable ==
  ASSUME IInv, SoloTable, table' = table, UNCHANGED <<proc, report, group, tstp>>
  PROVE  SoloTable'
<1>1. \A p \in tstp' : proc[p] = "running"
  BY DEF SoloTable
<1> QED BY <1>1, SameEntries

LEMMA LaunchKeepsSolo ==
  ASSUME IInv, SoloInv, LaunchBackground \/ LaunchForeground
  PROVE  SoloInv'
<1>1. table' = table /\ UNCHANGED <<proc, report, group, tstp>>
  BY DEF LaunchBackground, LaunchForeground, kernelVars, childVars
<1>2. SoloTable'
  BY <1>1, QuietStepsKeepTable DEF SoloInv
<1>3. SoloPlace'
  <2>1. CASE LaunchBackground
    BY <1>1, <2>1 DEF LaunchBackground, SoloInv, SoloPlace, Placed
  <2>2. CASE LaunchForeground
    <3>1. \A j \in Listed(table) : wait # j
      BY <2>2, TableFacts, Constants DEF LaunchForeground, IInv, PlaceOK
    <3> QED BY <1>1, <2>2, <3>1 DEF LaunchForeground, SoloInv, SoloPlace, Placed
  <2> QED BY <2>1, <2>2
<1> QED BY <1>2, <1>3 DEF SoloInv

LEMMA WaitingKeepsSolo ==
  ASSUME IInv, SoloInv,
         PollReturns \/ DrainChld \/ DrainInt \/ PollAgain \/ ReapDone \/ FgBlocksSignals
  PROVE  SoloInv'
<1>1. table' = table /\ UNCHANGED <<proc, report, group, tstp, wait, cur, left>>
  BY DEF PollReturns, DrainChld, DrainInt, PollAgain, ReapDone, FgBlocksSignals,
         kernelVars, childVars, shellVars
<1>2. SoloTable'
  BY <1>1, QuietStepsKeepTable DEF SoloInv
<1>3. wait = NoJob => \A j \in Listed(table) : wait # j
  BY TableFacts, Constants
<1>4. /\ pc \in {"poll", "drain", "reap", "fgmask"}
      /\ pc' \in {"poll", "drain", "reap"} \/ (pc' = "readline" /\ wait = NoJob)
      /\ pc' = "poll" => table.at[wait].state # "stopped"
  BY DEF PollReturns, DrainChld, DrainInt, PollAgain, ReapDone, FgBlocksSignals, shellVars,
         SoloInv, SoloPlace
<1>5. SoloPlace'
  BY <1>1, <1>3, <1>4 DEF SoloInv, SoloPlace, Placed
<1> QED BY <1>2, <1>5 DEF SoloInv

LEMMA LeavingKeepsSolo ==
  ASSUME IInv, SoloInv, LeaveRunJob \/ JobStopped
  PROVE  SoloInv'
<1>1. table' = table /\ UNCHANGED <<proc, report, group, tstp>>
  BY DEF LeaveRunJob, JobStopped, kernelVars, childVars
<1>2. SoloTable'
  BY <1>1, QuietStepsKeepTable DEF SoloInv
<1>3. CASE LeaveRunJob
  <2>1. pc = "leave" /\ wait = NoJob /\ wait' = wait /\ pc' \in {"readline", "killed"}
    BY <1>3 DEF LeaveRunJob, executor_destroy_context, IInv, PlaceOK
  <2>2. \A j \in Listed(table) : wait # j
    BY <2>1, TableFacts, Constants
  <2>3. SoloPlace'
    BY <1>1, <2>1, <2>2 DEF SoloInv, SoloPlace, Placed
  <2> QED BY <1>2, <2>3 DEF SoloInv
<1>4. CASE JobStopped
  <2>1. /\ pc = "drain" /\ wait' = NoJob /\ pc' \in {"leave", "fg"}
        /\ wait \in Listed(table) /\ table.at[wait].pgid # NoPid
        /\ table.at[wait].state = "stopped"
    BY <1>4 DEF JobStopped, ReturnToCaller, IInv, PlaceOK, WaitOK, WaitedJobStaysListed
  <2>2. table.at[wait].process[table.at[wait].pgid] = "stopped"
    BY <2>1 DEF SoloInv, SoloTable, SoloEntry, SoloJob, Launched, Suspended, Ended
  <2>3. SoloPlace'
    BY <1>1, <2>1, <2>2 DEF SoloInv, SoloPlace, Placed
  <2> QED BY <1>2, <2>3 DEF SoloInv
<1> QED BY <1>3, <1>4

LEMMA PromptKeepsSolo ==
  ASSUME IInv, SoloInv,
         EventHook \/ NoSuchGroup \/ OtherLine \/ Exit \/ EndOfFile \/ KeyInt \/ KeyTstp
         \/ ForkFails \/ SignalfdFails
  PROVE  SoloInv'
<1>1. table' = table /\ UNCHANGED <<proc, report, group, tstp, wait, cur, left>>
  BY DEF EventHook, NoSuchGroup, OtherLine, Exit, EndOfFile, KeyInt, KeyTstp, ForkFails,
         SignalfdFails, kernelVars, childVars, shellVars
<1>2. SoloTable'
  BY <1>1, QuietStepsKeepTable DEF SoloInv
<1>3. wait = NoJob => \A j \in Listed(table) : wait # j
  BY TableFacts, Constants
<1>4. SoloPlace'
  <2>1. CASE EventHook \/ NoSuchGroup \/ Exit \/ EndOfFile \/ OtherLine
    <3>1. /\ pc \in {"readline", "fg", "bg"} /\ wait = NoJob
          /\ pc' \notin {"poll", "fgmask", "fork"}
      BY <2>1 DEF EventHook, NoSuchGroup, Exit, EndOfFile, OtherLine, IInv, PlaceOK
    <3> QED BY <1>1, <1>3, <3>1 DEF SoloInv, SoloPlace, Placed
  <2>2. CASE ForkFails
    <3>1. table.at[cur].pgid = NoPid /\ pc = "fork" /\ pc' = "fatal"
      BY <2>2 DEF ForkFails, SoloInv, SoloPlace, IInv, TypeOK
    <3> QED BY <1>1, <3>1 DEF SoloInv, SoloPlace, Placed
  <2>3. CASE KeyTstp
    BY <1>1, <2>3 DEF KeyTstp, shellVars, SoloInv, SoloPlace, Placed
  <2>5. CASE SignalfdFails
    BY <1>1, <2>5 DEF SignalfdFails, SoloInv, SoloPlace, Placed
  <2>4. CASE KeyInt
    <3>1. wait = NoJob
      BY <2>4, TypeFacts, Constants
         DEF KeyInt, IInv, WaitOK, TerminalFollowsWait, WaitedJobStaysListed
    <3>2. pc' = pc \/ (pc' = "killed" /\ pc # "fork")
      BY <2>4 DEF KeyInt, IInv, HeardOK, Blocking
    <3> QED BY <1>1, <1>3, <3>1, <3>2 DEF SoloInv, SoloPlace, Placed
  <2> QED BY <2>1, <2>2, <2>3, <2>4, <2>5
<1> QED BY <1>2, <1>4 DEF SoloInv

-----------------------------------------------------------------------------
(* SoloInv: the children *)

(* Ctrl-Z reaches the one process of the job that is waited for.           *)
LEMMA StopKeepsSolo ==
  ASSUME IInv, SoloInv, DrainTstp \/ KeyTstpToForeground
  PROVE  SoloInv'
<1>1. /\ table' = table
      /\ UNCHANGED <<proc, report, group, pc, wait, cur, left>>
  BY DEF DrainTstp, KeyTstpToForeground, KeyTstpToJob, shellVars
<1>2. wait # NoJob /\ tstp' = tstp \cup Running(table.at[wait].pgid)
  BY DEF DrainTstp, KeyTstpToForeground, KeyTstpToJob, SendTstp, IInv, PlaceOK, WaitOK,
         TerminalFollowsWait
<1>3. wait \in Listed(table) /\ ~table.at[wait].is_background
  BY <1>2 DEF IInv, WaitOK, WaitedJobStaysListed
<1>4. \A p \in Running(table.at[wait].pgid) :
        proc[p] = "running" /\ table.at[wait].pgid = p
  BY DEF Running, Members, SoloInv, SoloTable, Owned
<1>5. \A p \in tstp' : proc[p] = "running"
  BY <1>2, <1>4 DEF SoloInv, SoloTable
<1>6. ASSUME NEW i \in Listed(table), table.at[i].pgid \in tstp'
      PROVE  table.at[i].pgid \in tstp \/ ~table.at[i].is_background
  <2>1. CASE table.at[i].pgid \in tstp
    BY <2>1
  <2>2. CASE table.at[i].pgid \in Running(table.at[wait].pgid)
    BY <1>3, <1>4, <2>2 DEF IInv, EntriesOK, GroupsAreDistinct
  <2> QED BY <1>2, <1>6, <2>1, <2>2
<1>7. SoloTable'
  BY <1>1, <1>5, <1>6, SameEntries DEF SoloInv
<1>8. SoloPlace'
  BY <1>1 DEF SoloInv, SoloPlace, Placed
<1> QED BY <1>7, <1>8 DEF SoloInv

(* The entry of a process.                                                 *)
LEMMA OwnerOf ==
  ASSUME IInv, SoloInv, NEW p \in Pids, proc[p] # "none"
  PROVE  \E j \in Jobs :
           /\ j \in Listed(table)
           /\ table.at[j].pgid = p /\ group[p] = p
           /\ SoloJob(table.at[j])
           /\ ~Ended(table.at[j])
           /\ \A i \in Listed(table) \ {j} : table.at[i].pgid # p
<1>1. group[p] = p /\ \E j \in Listed(table) : table.at[j].pgid = p
  BY DEF SoloInv, SoloTable, Owned
<1>2. PICK j \in Listed(table) : table.at[j].pgid = p
  BY <1>1
<1>3. j \in Jobs /\ p # NoPid
  BY TableFacts, Constants
<1>4. SoloJob(table.at[j])
  BY <1>2, <1>3 DEF SoloInv, SoloTable, SoloEntry
<1>5. ~Ended(table.at[j])
  BY <1>2 DEF Ended
<1>6. \A i \in Listed(table) \ {j} : table.at[i].pgid # p
  BY <1>2 DEF IInv, EntriesOK, GroupsAreDistinct
<1> QED BY <1>1, <1>2, <1>3, <1>4, <1>5, <1>6

LEMMA ChildKeepsSolo ==
  ASSUME OneProcessJobs, IInv, IInv', SoloInv, NEW p \in Pids, ChildRuns(p)
  PROVE  SoloInv'
<1>1. /\ UNCHANGED <<pc, table, cur, left, wait>>
      /\ ChildEnds(p) \/ ChildStops(p)
  BY DEF ChildRuns, ChildStep, OtherStops, OtherKills, OtherContinues, OneProcessJobs,
         shellVars
<1>2. proc[p] = "running" /\ group' = group /\ tstp' = tstp \ {p}
      /\ proc \in [Pids -> {"none", "running", "stopped", "zombie"}]
      /\ report \in [Pids -> {"none", "stopped", "continued"}]
  BY <1>1 DEF ChildEnds, ChildStops, Stop, End, IInv, TypeOK, KernelTypeOK
<1>3. PICK j \in Jobs :
        /\ j \in Listed(table)
        /\ table.at[j].pgid = p /\ group[p] = p
        /\ SoloJob(table.at[j])
        /\ ~Ended(table.at[j])
        /\ \A i \in Listed(table) \ {j} : table.at[i].pgid # p
  BY <1>2, OwnerOf
<1>4. Launched(table.at[j])
  BY <1>2, <1>3 DEF SoloJob, Suspended
<1>5. \A q \in Pids \ {p} : proc'[q] = proc[q] /\ report'[q] = report[q]
  BY <1>1, <1>2 DEF ChildEnds, ChildStops, Stop, End
<1>6. /\ proc'[p] # "none"
      /\ proc'[p] = "stopped" <=> report'[p] = "stopped"
      /\ table.at[j].is_background => proc'[p] # "stopped"
  <2>1. CASE ChildEnds(p)
    BY <1>2, <2>1 DEF ChildEnds, End
  <2>2. CASE ChildStops(p)
    BY <1>2, <1>3, <1>4, <2>2 DEF ChildStops, Stop, Launched
  <2> QED BY <1>1, <2>1, <2>2
<1>7. SoloEntry(j)'
  BY <1>1, <1>2, <1>3, <1>4, <1>6, Constants DEF SoloEntry, SoloJob, ProcessesIn, Launched
<1>8. SoloTable'
  <2>1. RunningCountIsExact'
    BY <1>1 DEF SoloInv, SoloTable, RunningCountIsExact
  <2>2. tstp' \subseteq Pids
    BY DEF IInv, TypeOK, KernelTypeOK
  <2> QED BY <1>1, <1>2, <1>3, <1>5, <1>7, <2>1, <2>2, OneEntry DEF SoloInv
<1>9. SoloPlace'
  BY <1>1 DEF SoloInv, SoloPlace, Placed
<1> QED BY <1>8, <1>9 DEF SoloInv

-----------------------------------------------------------------------------
(* SoloInv: entries come and go *)

LEMMA EveryEntryCounts ==
  ASSUME IInv, IInv', NEW j \in Jobs, OneProcessJobs, RunningCountIsExact,
         \A i \in Jobs \ {j} : table'.at[i] = table.at[i],
         Listed(table') \ {j} = Listed(table) \ {j},
         \/ /\ (j \in Counted(table') <=> j \in Counted(table))
            /\ table'.running_jobs_count = table.running_jobs_count
         \/ /\ j \notin Counted(table) /\ j \in Counted(table')
            /\ table'.running_jobs_count = Plus(table.running_jobs_count, 1, MaxSize)
         \/ /\ j \in Counted(table) /\ j \notin Counted(table')
            /\ table'.running_jobs_count = Minus(table.running_jobs_count, MaxSize)
  PROVE  RunningCountIsExact'
<1>1. table \in shell_jobs_t /\ table' \in shell_jobs_t
  BY TypeFacts DEF IInv, TypeOK
<1>2. table.running_jobs_count = Cardinality(Counted(table))
  BY DEF RunningCountIsExact, Counted
<1>3. Counted(table') \ {j} = Counted(table) \ {j}
  BY <1>1, ListedType DEF Counted
<1>4. table'.running_jobs_count = Cardinality(Counted(table'))
  <2>1. CASE /\ (j \in Counted(table') <=> j \in Counted(table))
             /\ table'.running_jobs_count = table.running_jobs_count
    <3>1. Counted(table') = Counted(table)
      BY <1>3, <2>1
    <3> QED BY <1>2, <2>1, <3>1
  <2>2. CASE /\ j \notin Counted(table) /\ j \in Counted(table')
             /\ table'.running_jobs_count = Plus(table.running_jobs_count, 1, MaxSize)
    <3>1. Counted(table') = Counted(table) \cup {j}
      BY <1>3, <2>2
    <3> QED BY <1>1, <1>2, <2>2, <3>1, CountsUp
  <2>3. CASE /\ j \in Counted(table) /\ j \notin Counted(table')
             /\ table'.running_jobs_count = Minus(table.running_jobs_count, MaxSize)
    <3>1. Counted(table') = Counted(table) \ {j}
      BY <1>3, <2>3
    <3> QED BY <1>1, <1>2, <2>3, <3>1, CountsDown
  <2> QED BY <2>1, <2>2, <2>3
<1> QED BY <1>4 DEF RunningCountIsExact, Counted

(* A job or a builtin is added, before its first process.                  *)
LEMMA AddingKeepsSolo ==
  ASSUME OneProcessJobs, IInv, IInv', SoloInv, pc = "readline",
         NEW j \in Jobs, j \notin Listed(table), NEW bg \in BOOLEAN,
         table' = jobs_add_job(table, j, bg), cur' = j, wait' = wait,
         UNCHANGED <<proc, report, group, tstp>>,
         pc' \in {"fork", "fg", "bg"}, pc' = "fork" => left' = 1
  PROVE  SoloInv' /\ OnlyFinishedLeave
<1>1. /\ Listed(table') = Listed(table) \cup {j}
      /\ table'.at[j].pgid = NoPid
      /\ table'.at[j].state = "running"
      /\ table'.at[j].process = [p \in Pids |-> "absent"]
      /\ \A i \in Jobs \ {j} : table'.at[i] = table.at[i]
      /\ table'.at[j].live_processes = 0
      /\ table'.running_jobs_count = Plus(table.running_jobs_count, 1, MaxSize)
  BY TableFacts, AddJobFacts, AddJobCounts
<1>2. SoloEntry(j)'
  BY <1>1 DEF SoloEntry, Empty, ProcessesIn
<1>3. RunningCountIsExact'
  <2>1. j \notin Counted(table) /\ j \in Counted(table')
    BY <1>1 DEF Counted
  <2> QED BY <1>1, <2>1, EveryEntryCounts DEF SoloInv, SoloTable
<1>4. SoloTable'
  <2>1. \A i \in Listed(table) \ {j} : table.at[i].pgid # NoPid
    BY NoOpenEntry
  <2>2. tstp' \subseteq Pids /\ NoPid \notin Pids /\ NoPid \notin tstp'
    BY Constants DEF IInv, TypeOK, KernelTypeOK
  <2> QED BY <1>1, <1>2, <1>3, <2>1, <2>2, OneEntry DEF SoloInv
<1>5. SoloPlace'
  <2>1. wait = NoJob /\ \A i \in Listed(table) : wait # i /\ i \in Jobs \ {j}
    BY TableFacts, Constants DEF IInv, PlaceOK
  <2> QED BY <1>1, <2>1 DEF SoloInv, SoloPlace, Placed
<1>6. OnlyFinishedLeave
  BY <1>1 DEF OnlyFinishedLeave
<1> QED BY <1>4, <1>5, <1>6 DEF SoloInv

LEMMA StartJobKeepsSolo ==
  ASSUME OneProcessJobs, IInv, IInv', SoloInv, NEW j \in Jobs, NEW n \in PipelineSizes,
         NEW bg \in BOOLEAN, StartJob(j, n, bg)
  PROVE  SoloInv' /\ OnlyFinishedLeave
BY AddingKeepsSolo DEF StartJob, childVars, OneProcessJobs

LEMMA StartBuiltinKeepsSolo ==
  ASSUME OneProcessJobs, IInv, IInv', SoloInv, NEW name \in {"fg", "bg"}, NEW j \in Jobs,
         NEW ids, NEW bg \in BOOLEAN, StartBuiltin(name, j, ids, bg)
  PROVE  SoloInv' /\ OnlyFinishedLeave
BY AddingKeepsSolo DEF StartBuiltin, kernelVars, childVars

(* An entry is removed that has no process, or none that is left.          *)
LEMMA RemovingKeepsTable ==
  ASSUME OneProcessJobs, IInv, IInv', SoloInv, NEW j \in Listed(table),
         \/ table.at[j].pgid = NoPid
         \/ proc[table.at[j].pgid] = "none" /\ SoloJob(table.at[j]),
         table.at[j].state # "stopped",
         table' = jobs_remove_job(table, table.at[j].pgid),
         UNCHANGED <<proc, report, group, tstp>>
  PROVE  SoloTable' /\ OnlyFinishedLeave
<1>1. /\ j \in Jobs
      /\ Listed(table') = Listed(table) \ {j}
      /\ \A i \in Jobs \ {j} : table'.at[i] = table.at[i]
      /\ table'.running_jobs_count = Minus(table.running_jobs_count, MaxSize)
  BY TableFacts, RemoveJobByGroup, RemoveJobCounts
<1>2. RunningCountIsExact'
  <2>1. j \in Counted(table) /\ j \notin Counted(table')
    BY <1>1 DEF Counted
  <2> QED BY <1>1, <2>1, EveryEntryCounts DEF SoloInv, SoloTable
<1>3. PICK p \in Pids \cup {NoPid} : p = table.at[j].pgid
  BY <1>1, TypeFacts DEF IInv
<1>4. /\ \A i \in Listed(table) \ {j} : table.at[i].pgid # p
      /\ p \in Pids => proc[p] = "none"
      /\ tstp' \subseteq Pids
      /\ p \notin tstp'
  BY <1>1, <1>3, Constants DEF IInv, EntriesOK, GroupsAreDistinct, TypeOK, KernelTypeOK,
                               SoloInv, SoloTable
<1>5. SoloTable'
  BY <1>1, <1>2, <1>3, <1>4, OneEntry DEF SoloInv
<1>6. OnlyFinishedLeave
  <2>1. CASE p = NoPid
    <3>1. ProcessesOf(j) = {}
      BY <1>3, <2>1 DEF IInv, EntriesOK
    <3> QED BY <1>1, <3>1 DEF OnlyFinishedLeave
  <2>2. CASE p \in Pids
    <3>1. ProcessesOf(j) \subseteq {p} /\ proc' = proc
      BY <1>3, <2>2, Constants DEF SoloJob, ProcessesIn, ProcessesOf
    <3> QED BY <1>1, <1>4, <2>2, <3>1 DEF OnlyFinishedLeave
  <2> QED BY <2>1, <2>2
<1> QED BY <1>5, <1>6

LEMMA EndBuiltinKeepsSolo ==
  ASSUME OneProcessJobs, IInv, IInv', SoloInv, pc \in {"fg", "bg"}, EndBuiltin
  PROVE  SoloInv' /\ OnlyFinishedLeave
<1>1. /\ pc' = "readline" /\ wait = NoJob /\ wait' = wait
      /\ UNCHANGED <<proc, report, group, tstp>>
      /\ table' = jobs_remove_job(table, NoPid)
  BY DEF EndBuiltin, drop_builtin, kernelVars, childVars, IInv, PlaceOK
<1>2. PICK j \in Listed(table) : j = cur /\ table.at[j].pgid = NoPid
  BY DEF IInv, PlaceOK, InFg
<1>3. table.at[j].state = "running"
  BY <1>2 DEF SoloInv, SoloTable, SoloEntry, Empty
<1>4. SoloTable' /\ OnlyFinishedLeave
  BY <1>1, <1>2, <1>3, RemovingKeepsTable
<1>5. /\ Listed(table') = Listed(table) \ {j}
      /\ \A i \in Jobs \ {j} : table'.at[i] = table.at[i]
  BY <1>1, <1>2, TableFacts, RemoveJobByGroup
<1>6. SoloPlace'
  BY <1>1, <1>5, TableFacts, Constants DEF SoloInv, SoloPlace, Placed
<1> QED BY <1>4, <1>6 DEF SoloInv

LEMMA JobFinishedKeepsSolo ==
  ASSUME OneProcessJobs, IInv, IInv', SoloInv, JobFinished
  PROVE  SoloInv' /\ OnlyFinishedLeave
<1>1. /\ pc = "poll" /\ pc' \in {"leave", "fg"} /\ wait' = NoJob
      /\ UNCHANGED <<proc, report, group, tstp>>
      /\ table' = jobs_remove_job(table, table.at[wait].pgid)
  BY DEF JobFinished, ReturnToCaller, childVars
<1>2. PICK j \in Listed(table) : j = wait /\ table.at[j].pgid # NoPid
                                 /\ table.at[j].live_processes = 0
  BY DEF JobFinished, IInv, PlaceOK, WaitOK, WaitedJobStaysListed
<1>3. Ended(table.at[j]) /\ SoloJob(table.at[j])
  BY <1>1, <1>2 DEF SoloInv, SoloTable, SoloPlace, SoloEntry, SoloJob, Launched, Suspended
<1>4. proc[table.at[j].pgid] = "none" /\ table.at[j].state # "stopped"
  BY <1>3 DEF Ended
<1>5. SoloTable' /\ OnlyFinishedLeave
  BY <1>1, <1>2, <1>3, <1>4, RemovingKeepsTable
<1>6. /\ Listed(table') = Listed(table) \ {j}
      /\ \A i \in Jobs \ {j} : table'.at[i] = table.at[i]
  BY <1>1, <1>2, TableFacts, RemoveJobByGroup
<1>7. ASSUME NEW i \in Listed(table') PROVE Placed(i)'
  <2>1. i \in Listed(table) /\ i # wait /\ table'.at[i] = table.at[i]
    BY <1>2, <1>6, TableFacts
  <2>2. Placed(i)
    BY <2>1 DEF SoloInv, SoloPlace
  <2> QED BY <1>1, <2>1, <2>2 DEF Placed
<1>8. SoloPlace'
  BY <1>1, <1>7 DEF SoloPlace
<1> QED BY <1>5, <1>8 DEF SoloInv

-----------------------------------------------------------------------------
(* SoloInv: an entry changes with its process *)

LEMMA ForkKeepsSolo ==
  ASSUME OneProcessJobs, IInv, IInv', SoloInv, NEW p \in Pids, ForkProcess(p)
  PROVE  SoloInv' /\ OnlyFinishedLeave
<1>1. PICK j \in Jobs : j = cur /\ j \in Listed(table)
  BY TableFacts DEF ForkProcess, IInv, PlaceOK
<1>2. /\ table.at[j].pgid = NoPid /\ left = 1 /\ left' = 0
      /\ UNCHANGED <<pc, cur, wait>> /\ pc = "fork" /\ wait = NoJob
      /\ table.at[j].state # "stopped"
  <2>1. left = IF table.at[j].pgid = NoPid THEN 1 ELSE 0
    BY <1>1 DEF ForkProcess, SoloInv, SoloPlace
  <2> QED BY <1>1, <2>1 DEF ForkProcess, SoloInv, SoloPlace, IInv, PlaceOK
<1>3. Empty(table.at[j])
  BY <1>1, <1>2 DEF SoloInv, SoloTable, SoloEntry
<1>4. table' = add_child(table, j, p, p) /\ Fork(p, p, saved) /\ FreshPid(p)
  BY <1>1, <1>2 DEF ForkProcess
<1>5. /\ InPlace(table, table', j)
      /\ table'.at[j].pgid = p
      /\ table'.at[j].is_background = table.at[j].is_background
      /\ table'.at[j].state = table.at[j].state
      /\ Alone(table'.at[j], p)
      /\ table'.at[j].process[p] = "running"
      /\ table'.at[j].live_processes = 1
      /\ table'.running_jobs_count = table.running_jobs_count
  BY <1>3, <1>4, TableFacts, AddChildFacts, AddChildIs
<1>6. /\ Listed(table') = Listed(table)
      /\ \A i \in Jobs \ {j} : table'.at[i] = table.at[i]
  BY <1>5, InPlaceListed DEF InPlace
<1>7. /\ proc'[p] = "running" /\ group'[p] = p
      /\ report' = report /\ report[p] = "none"
      /\ tstp' = tstp /\ p \notin tstp /\ tstp \subseteq Pids
      /\ \A q \in Pids \ {p} : proc'[q] = proc[q] /\ group'[q] = group[q]
  BY <1>4 DEF Fork, FreshPid, IInv, TypeOK, KernelTypeOK, HeardOK, SoloInv, SoloTable
<1>8. SoloEntry(j)'
  BY <1>3, <1>5, <1>7, Constants DEF SoloEntry, SoloJob, Alone, ProcessesIn, Launched, Empty
<1>9. RunningCountIsExact'
  <2>1. j \in Counted(table') <=> j \in Counted(table)
    BY <1>5, <1>6 DEF Counted
  <2> QED BY <1>5, <1>6, <2>1, EveryEntryCounts DEF SoloInv, SoloTable
<1>10. SoloTable'
  <2>1. \A i \in Listed(table) \ {j} : table.at[i].pgid # p
    BY <1>4 DEF FreshPid
  <2> QED BY <1>1, <1>2, <1>5, <1>6, <1>7, <1>8, <1>9, <2>1, OneEntry DEF SoloInv
<1>11. SoloPlace'
  BY <1>1, <1>2, <1>5, <1>6, TableFacts, Constants DEF SoloInv, SoloPlace, Placed
<1> QED BY <1>6, <1>10, <1>11 DEF SoloInv, OnlyFinishedLeave

(* SIGCONT to a group of one stopped process.                              *)
LEMMA ContinueIs ==
  ASSUME IInv, SoloInv, NEW p \in Pids, proc[p] = "stopped", group[p] = p, Continue(p)
  PROVE  /\ proc'[p] = "running" /\ report'[p] = "continued"
         /\ p \notin tstp' /\ tstp' \subseteq tstp
         /\ \A q \in Pids \ {p} : proc'[q] = proc[q] /\ report'[q] = report[q]
<1>1. p \in Members(p)
  BY DEF Members
<1>2. \A q \in Members(p) : q = p
  BY DEF Members, SoloInv, SoloTable, Owned
<1> QED BY <1>1, <1>2 DEF Continue

(* fg and bg wake a stopped job.                                           *)
LEMMA ResumingKeepsTable ==
  ASSUME OneProcessJobs, IInv, IInv', SoloInv, NEW j \in Listed(table),
         table.at[j].state = "stopped", table.at[j].pgid \in Pids,
         NEW bg \in BOOLEAN, table' = resume_job(table, j, bg),
         Continue(table.at[j].pgid), group' = group
  PROVE  /\ SoloTable' /\ OnlyFinishedLeave
         /\ Listed(table') = Listed(table)
         /\ \A i \in Jobs \ {j} : table'.at[i] = table.at[i]
         /\ table'.at[j].is_background = bg
         /\ table'.at[j].state = "running"
         /\ table'.at[j].process[table'.at[j].pgid] = "running"
<1>1. PICK p \in Pids : p = table.at[j].pgid
  OBVIOUS
<1>2. /\ j \in Jobs
      /\ p # NoPid
      /\ \A i \in Listed(table) \ {j} : table.at[i].pgid # p
  BY <1>1, TableFacts, Constants DEF IInv, EntriesOK, GroupsAreDistinct
<1>3. Suspended(table.at[j]) /\ Alone(table.at[j], p)
  BY <1>1, <1>2 DEF SoloInv, SoloTable, SoloEntry, SoloJob, Alone, Launched, Ended
<1>4. group[p] = p /\ proc[p] = "stopped"
  BY <1>1, <1>3 DEF Suspended, SoloInv, SoloTable, Owned
<1>5. /\ proc'[p] = "running" /\ report'[p] = "continued"
      /\ p \notin tstp' /\ tstp' \subseteq tstp
      /\ \A q \in Pids \ {p} : proc'[q] = proc[q] /\ report'[q] = report[q]
  BY <1>1, <1>4, ContinueIs
<1>6. /\ SameGroup(table, table', j)
      /\ table'.at[j].is_background = bg
      /\ table'.at[j].state = "running"
      /\ table'.at[j].process[p] = "running"
      /\ table'.at[j].live_processes = 1
      /\ table'.running_jobs_count = Plus(table.running_jobs_count, 1, MaxSize)
  BY <1>1, <1>2, <1>3, TableFacts, ResumeJobFacts, ResumeJobIs DEF Suspended
<1>7. /\ Listed(table') = Listed(table)
      /\ \A i \in Jobs \ {j} : table'.at[i] = table.at[i]
      /\ table'.at[j].pgid = p
      /\ Alone(table'.at[j], p)
  BY <1>1, <1>3, <1>6, InPlaceListed DEF SameGroup, InPlace, Alone, ProcessesIn
<1>8. SoloEntry(j)'
  BY <1>2, <1>5, <1>6, <1>7 DEF SoloEntry, SoloJob, Alone, Launched, ProcessesIn
<1>9. RunningCountIsExact'
  <2>1. j \notin Counted(table) /\ j \in Counted(table')
    BY <1>6, <1>7 DEF Counted
  <2> QED BY <1>2, <1>6, <1>7, <2>1, EveryEntryCounts DEF SoloInv, SoloTable
<1>10. SoloTable'
  <2>1. tstp' \subseteq Pids
    BY <1>5 DEF IInv, TypeOK, KernelTypeOK
  <2> QED BY <1>1, <1>2, <1>4, <1>5, <1>7, <1>8, <1>9, <2>1, OneEntry DEF SoloInv
<1> QED BY <1>6, <1>7, <1>10 DEF OnlyFinishedLeave

LEMMA BgKeepsSolo ==
  ASSUME OneProcessJobs, IInv, IInv', SoloInv, Bg
  PROVE  SoloInv' /\ OnlyFinishedLeave
<1>1. PICK j \in Listed(table) :
        /\ table.at[j].state = "stopped"
        /\ GroupExists(table.at[j].pgid)
        /\ Continue(table.at[j].pgid)
        /\ table' = resume_job(table, j, TRUE)
  BY FindBgFacts, TableFacts DEF Bg, target
<1>2. table.at[j].pgid \in Pids
  BY <1>1, TypeFacts, ExistingGroup DEF IInv
<1>3. /\ UNCHANGED <<group, pc, cur, wait>> /\ pc = "bg" /\ wait = NoJob
  BY DEF Bg, target, IInv, PlaceOK
<1>4. /\ SoloTable' /\ OnlyFinishedLeave
      /\ Listed(table') = Listed(table)
      /\ \A i \in Jobs \ {j} : table'.at[i] = table.at[i]
      /\ table'.at[j].is_background
      /\ table'.at[j].process[table'.at[j].pgid] = "running"
  BY <1>1, <1>2, <1>3, ResumingKeepsTable
<1>5. SoloPlace'
  BY <1>3, <1>4, TableFacts DEF SoloInv, SoloPlace, Placed
<1> QED BY <1>4, <1>5 DEF SoloInv

LEMMA ToForegroundIs ==
  ASSUME NEW t \in shell_jobs_t, NEW j \in Jobs
  PROVE  LET u == to_foreground(t, j)
         IN  /\ SameGroup(t, u, j)
             /\ ~u.at[j].is_background
             /\ u.at[j].process = t.at[j].process
             /\ u.at[j].live_processes = t.at[j].live_processes
             /\ u.at[j].state = t.at[j].state
             /\ u.running_jobs_count = t.running_jobs_count
<1> DEFINE new == [t.at[j] EXCEPT !.is_background = FALSE]
<1>1. t.at[j] \in job_t
  BY TableType
<1>2. /\ new.process = t.at[j].process
      /\ new.live_processes = t.at[j].live_processes
      /\ new.state = t.at[j].state
  BY <1>1 DEF job_t
<1>3. to_foreground(t, j) = Store(t, j, new, t.running_jobs_count)
  BY DEF to_foreground
<1> HIDE DEF new
<1> QED BY <1>2, <1>3, StoreIs, TableDomain, FgTableFacts

LEMMA FgKeepsSolo ==
  ASSUME OneProcessJobs, IInv, IInv', SoloInv, Fg
  PROVE  SoloInv' /\ OnlyFinishedLeave
<1>1. PICK j \in Listed(table) :
        /\ \/ table.at[j].state = "stopped"
           \/ table.at[j].is_background /\ table.at[j].state = "running"
        /\ GroupExists(table.at[j].pgid)
        /\ IF table.at[j].is_background
           THEN /\ table' = to_foreground(table, j)
                /\ UNCHANGED <<proc, report, tstp, pending>>
           ELSE /\ table' = resume_job(table, j, FALSE)
                /\ Continue(table.at[j].pgid)
        /\ wait' = j
  BY FindFgFacts, TableFacts DEF Fg, target
<1>2. table.at[j].pgid \in Pids /\ j \in Jobs /\ table.at[j].pgid # NoPid
  BY <1>1, TypeFacts, ExistingGroup, Constants DEF IInv
<1>3. /\ UNCHANGED <<group, cur>> /\ pc = "fg" /\ pc' = "fgmask" /\ wait = NoJob
      /\ \A i \in Listed(table) : wait # i /\ i \in Jobs
  BY TableFacts, Constants DEF Fg, target, IInv, PlaceOK
<1>4. CASE table.at[j].is_background
  <2>1. table' = to_foreground(table, j) /\ UNCHANGED <<proc, report, group, tstp>>
    BY <1>1, <1>3, <1>4
  <2>2. /\ SameGroup(table, table', j)
        /\ ~table'.at[j].is_background
        /\ table'.at[j].process = table.at[j].process
        /\ table'.at[j].live_processes = table.at[j].live_processes
        /\ table'.at[j].state = table.at[j].state
        /\ table'.running_jobs_count = table.running_jobs_count
    BY <1>2, <2>1, TableFacts, ToForegroundIs
  <2>3. /\ Listed(table') = Listed(table)
        /\ \A i \in Jobs \ {j} : table'.at[i] = table.at[i]
        /\ table'.at[j].pgid = table.at[j].pgid
    BY <2>2, InPlaceListed DEF SameGroup, InPlace
  <2>4. SoloJob(table.at[j]) /\ Launched(table.at[j])
    <3>1. table.at[j].state # "stopped"
      BY <1>4 DEF IInv, StoppedIsForeground
    <3>2. table.at[j].process[table.at[j].pgid] # "done"
      BY <1>2, <1>3 DEF SoloInv, SoloPlace, Placed
    <3> QED BY <1>2, <3>1, <3>2 DEF SoloInv, SoloTable, SoloEntry, SoloJob, Suspended, Ended
  <2>5. SoloEntry(j)'
    BY <1>2, <2>1, <2>2, <2>3, <2>4 DEF SoloEntry, SoloJob, Launched, ProcessesIn
  <2>6. RunningCountIsExact'
    <3>1. j \in Counted(table') <=> j \in Counted(table)
      BY <2>2, <2>3 DEF Counted
    <3> QED BY <1>2, <2>2, <2>3, <3>1, EveryEntryCounts DEF SoloInv, SoloTable
  <2>7. PICK p \in Pids : p = table.at[j].pgid
    BY <1>2
  <2>8. SoloTable'
    <3>1. \A i \in Listed(table) \ {j} : table.at[i].pgid # p
      BY <2>7 DEF IInv, EntriesOK, GroupsAreDistinct
    <3>2. group[p] = p /\ tstp' \subseteq Pids /\ (p \in tstp' => proc'[p] = "running")
      BY <2>1, <2>4, <2>7 DEF Launched, SoloInv, SoloTable, Owned, IInv, TypeOK, KernelTypeOK
    <3> QED BY <1>2, <2>1, <2>3, <2>5, <2>6, <2>7, <3>1, <3>2, OneEntry DEF SoloInv
  <2>9. SoloPlace'
    <3>1. table'.at[j].process[table'.at[j].pgid] = "running" /\ table'.at[j].state # "stopped"
      BY <2>2, <2>3, <2>4 DEF Launched
    <3> QED BY <1>1, <1>3, <2>3, <3>1 DEF SoloInv, SoloPlace, Placed
  <2> QED BY <2>3, <2>8, <2>9 DEF SoloInv, OnlyFinishedLeave
<1>5. CASE ~table.at[j].is_background
  <2>1. /\ table.at[j].state = "stopped"
        /\ table' = resume_job(table, j, FALSE)
        /\ Continue(table.at[j].pgid)
    BY <1>1, <1>5
  <2>2. /\ SoloTable' /\ OnlyFinishedLeave
        /\ Listed(table') = Listed(table)
        /\ \A i \in Jobs \ {j} : table'.at[i] = table.at[i]
        /\ table'.at[j].state = "running"
        /\ table'.at[j].process[table'.at[j].pgid] = "running"
    BY <1>2, <1>3, <2>1, ResumingKeepsTable
  <2>3. SoloPlace'
    BY <1>1, <1>3, <2>2 DEF SoloInv, SoloPlace, Placed
  <2> QED BY <2>2, <2>3 DEF SoloInv
<1> QED BY <1>4, <1>5

(* The reaper finds the entry of a process that has something to report,   *)
(* and the table has that process as running.                              *)
LEMMA ReportsReachOwner ==
  ASSUME IInv, SoloInv, NEW p \in Pids, Owed(p)
  PROVE  \E j \in Jobs :
           /\ j \in Listed(table)
           /\ j = jobs_find_process_by_pid(table, p)
           /\ table.at[j].pgid = p /\ p # NoPid /\ group[p] = p
           /\ \A i \in Listed(table) \ {j} : table.at[i].pgid # p
           /\ Alone(table.at[j], p)
           /\ Launched(table.at[j])
<1>1. proc[p] # "none" /\ p # NoPid
  BY Constants DEF Owed, IInv, HeardOK
<1>2. PICK j \in Jobs :
        /\ j \in Listed(table)
        /\ table.at[j].pgid = p /\ group[p] = p
        /\ SoloJob(table.at[j])
        /\ ~Ended(table.at[j])
        /\ \A i \in Listed(table) \ {j} : table.at[i].pgid # p
  BY <1>1, OwnerOf
<1>3. Launched(table.at[j]) /\ Alone(table.at[j], p)
  BY <1>2 DEF SoloJob, Suspended, Owed, Alone
<1>4. \A i \in Listed(table) \ {j} : table.at[i].process[p] = "absent"
  <2> SUFFICES ASSUME NEW i \in Listed(table) \ {j} PROVE p \in ProcessesIn(table.at[i], "absent")
    BY DEF ProcessesIn
  <2> QED BY <1>2 DEF SoloInv, SoloTable, SoloEntry, Empty, SoloJob
<1>5. table.at[j].process[p] # "absent"
  BY <1>2, <1>3 DEF Launched
<1> DEFINE K == {k \in DOMAIN table.jobs : table.at[table.jobs[k]].process[p] # "absent"}
<1>6. K # {} /\ K \in SUBSET (DOMAIN table.jobs)
  BY <1>2, <1>5 DEF Listed, ToSet
<1>7. PICK k \in K : LastOf(table, K) = table.jobs[k]
  BY <1>6, LastOfFacts, TableFacts
<1>8. table.jobs[k] = j
  BY <1>4, <1>7, ListedType, TableFacts
<1>9. jobs_find_process_by_pid(table, p) = j
  BY <1>7, <1>8 DEF jobs_find_process_by_pid
<1> QED BY <1>1, <1>2, <1>3, <1>9

(* The four reports about a job of one process: the end of a background    *)
(* job removes the entry, every other report changes it.                   *)
LEMMA ReportIs ==
  ASSUME NEW t \in shell_jobs_t, NEW j \in Jobs, NEW p \in Pids,
         t.at[j].process[p] # "absent", t.at[j].live_processes = 1
  PROVE  /\ handle_report(t, j, p, "continued") = note_continued(t, j, p)
         /\ ~t.at[j].is_background =>
              /\ handle_report(t, j, p, "stopped") = note_stopped(t, j, p)
              /\ handle_report(t, j, p, "exited") = note_exited(t, j, p)
<1>1. /\ note_process(t, j, p, "continued") = note_continued(t, j, p)
      /\ note_process(t, j, p, "stopped") = note_stopped(t, j, p)
      /\ note_process(t, j, p, "exited") = note_exited(t, j, p)
  BY DEF note_process
<1>2. note_continued(t, j, p).at[j].live_processes = 1
  BY NoteContinuedIs
<1>3. /\ note_stopped(t, j, p).at[j].is_background = t.at[j].is_background
      /\ note_exited(t, j, p).at[j].is_background = t.at[j].is_background
  BY NoteStoppedFacts, NoteExitedFacts
<1> QED BY <1>1, <1>2, <1>3 DEF handle_report

LEMMA BackgroundEndIs ==
  ASSUME NEW t \in shell_jobs_t, NoDuplicates(t), DistinctGroups(t),
         NEW j \in Listed(t), NEW p \in Pids,
         t.at[j].process[p] # "absent", t.at[j].live_processes = 1, t.at[j].is_background
  PROVE  LET u == handle_report(t, j, p, "exited")
         IN  /\ Listed(u) = Listed(t) \ {j}
             /\ \A i \in Jobs \ {j} : u.at[i] = t.at[i]
             /\ u.running_jobs_count = Minus(t.running_jobs_count, MaxSize)
<1> DEFINE n == note_exited(t, j, p)
<1>1. j \in Jobs
  BY ListedType
<1>2. /\ SameGroup(t, n, j)
      /\ n.at[j].is_background
      /\ n.at[j].live_processes = 0
      /\ n.running_jobs_count = t.running_jobs_count
  BY <1>1, NoteExitedFacts, NoteExitedIs
<1>3. handle_report(t, j, p, "exited") = jobs_mark_job_completed(n, j)
  <2>1. note_process(t, j, p, "exited") = n
    BY DEF note_process
  <2> QED BY <1>2, <2>1 DEF handle_report
<1> HIDE DEF n
<1>4. /\ n \in shell_jobs_t
      /\ Listed(n) = Listed(t)
      /\ NoDuplicates(n)
      /\ \A i \in Jobs \ {j} : n.at[i] = t.at[i]
  BY <1>2, InPlaceListed DEF SameGroup, InPlace
<1>5. DistinctGroups(n)
  <2>1. \A i \in Listed(n) : n.at[i].pgid = t.at[i].pgid
    BY <1>1, <1>2, <1>4, ListedType DEF SameGroup
  <2> QED BY <1>4, <2>1 DEF DistinctGroups
<1> QED BY <1>2, <1>3, <1>4, <1>5, CompletedFacts, CompletedCounts

LEMMA ReapKeepsSolo ==
  ASSUME OneProcessJobs, IInv, IInv', SoloInv, NEW p \in Pids, Reap(p)
  PROVE  SoloInv' /\ OnlyFinishedLeave
<1>1. /\ pc = "reap" /\ UNCHANGED <<pc, cur, wait>>
      /\ Wait(p) /\ Owed(p)
  BY DEF Reap, Wait
<1>2. PICK j \in Jobs :
        /\ j \in Listed(table)
        /\ j = jobs_find_process_by_pid(table, p)
        /\ table.at[j].pgid = p /\ p # NoPid /\ group[p] = p
        /\ \A i \in Listed(table) \ {j} : table.at[i].pgid # p
        /\ Alone(table.at[j], p)
        /\ Launched(table.at[j])
  BY <1>1, ReportsReachOwner
<1>3. table' = handle_report(table, j, p, ReportOf(p))
  BY <1>2, Constants DEF Reap
<1>4. /\ table.at[j].process[p] = "running"
      /\ table.at[j].live_processes = 1
      /\ table.at[j].state = "running"
      /\ proc[p] = "stopped" <=> report[p] = "stopped"
      /\ table.at[j].is_background => proc[p] # "stopped" /\ p \notin tstp
  BY <1>2 DEF Launched
<1>5. /\ report'[p] = "none"
      /\ tstp' = tstp /\ tstp' \subseteq Pids
      /\ proc[p] = "zombie" => proc'[p] = "none"
      /\ proc[p] # "zombie" => proc'[p] = proc[p] /\ group'[p] = group[p] /\ proc[p] # "none"
      /\ p \in tstp' => proc'[p] = "running"
      /\ \A q \in Pids \ {p} : /\ proc'[q] = proc[q]
                               /\ report'[q] = report[q]
                               /\ group'[q] = group[q]
  BY <1>1 DEF Wait, IInv, TypeOK, KernelTypeOK, HeardOK, Owed, SoloInv, SoloTable
(* What is left to show of each report. *)
<1>6. ASSUME Listed(table') \ {j} = Listed(table) \ {j},
             \A i \in Jobs \ {j} : table'.at[i] = table.at[i],
             j \in Listed(table') => SoloEntry(j)' /\ table'.at[j].pgid = p,
             proc'[p] # "none" => j \in Listed(table'),
             j \in Listed(table') => Placed(j)',
             \/ /\ j \in Counted(table')
                /\ table'.running_jobs_count = table.running_jobs_count
             \/ /\ j \notin Counted(table')
                /\ table'.running_jobs_count = Minus(table.running_jobs_count, MaxSize)
      PROVE  SoloInv' /\ OnlyFinishedLeave
  <2>1. RunningCountIsExact'
    <3>1. j \in Counted(table)
      BY <1>2, <1>4 DEF Counted
    <3> QED BY <1>6, <3>1, EveryEntryCounts DEF SoloInv, SoloTable
  <2>2. proc'[p] # "none" => group'[p] = p
    BY <1>2, <1>5
  <2>3. SoloTable'
    BY <1>2, <1>5, <1>6, <2>1, <2>2, OneEntry DEF SoloInv
  <2>4. SoloPlace'
    <3>1. ASSUME NEW i \in Listed(table') PROVE Placed(i)'
      <4>1. CASE i = j
        BY <1>6, <4>1
      <4>2. CASE i # j
        <5>1. i \in Listed(table) /\ i \in Jobs \ {j}
          BY <1>6, <4>2, TableFacts
        <5> QED BY <1>1, <1>6, <5>1 DEF SoloInv, SoloPlace, Placed
      <4> QED BY <4>1, <4>2
    <3> QED BY <1>1, <3>1 DEF SoloPlace
  <2>5. OnlyFinishedLeave
    <3>1. ProcessesOf(j) \subseteq {p}
      BY <1>2 DEF Alone, ProcessesIn, ProcessesOf
    <3> QED BY <1>6, <3>1 DEF OnlyFinishedLeave
  <2> QED BY <2>3, <2>4, <2>5 DEF SoloInv
(* And of those that leave the entry where it is. *)
<1>7. ASSUME SameGroup(table, table', j)
      PROVE  /\ Listed(table') = Listed(table)
             /\ \A i \in Jobs \ {j} : table'.at[i] = table.at[i]
             /\ table'.at[j].pgid = p
             /\ Alone(table'.at[j], p)
  BY <1>2, <1>7, InPlaceListed DEF SameGroup, InPlace, Alone, ProcessesIn
<1>8. CASE proc[p] = "zombie" /\ table.at[j].is_background
  <2>1. table' = handle_report(table, j, p, "exited")
    BY <1>3, <1>8 DEF ReportOf
  <2>2. /\ Listed(table') = Listed(table) \ {j}
        /\ \A i \in Jobs \ {j} : table'.at[i] = table.at[i]
        /\ table'.running_jobs_count = Minus(table.running_jobs_count, MaxSize)
    BY <1>2, <1>4, <1>8, <2>1, TableFacts, BackgroundEndIs
  <2>3. j \notin Counted(table')
    BY <2>2 DEF Counted
  <2> QED BY <1>5, <1>6, <1>8, <2>2, <2>3
<1>9. CASE proc[p] = "zombie" /\ ~table.at[j].is_background
  <2>1. table' = note_exited(table, j, p)
    BY <1>3, <1>4, <1>9, TableFacts, ReportIs DEF ReportOf
  <2>2. /\ SameGroup(table, table', j)
        /\ table'.at[j].state = "running"
        /\ table'.at[j].process[p] = "done"
        /\ table'.at[j].live_processes = 0
        /\ table'.running_jobs_count = table.running_jobs_count
    BY <1>4, <2>1, TableFacts, NoteExitedFacts, NoteExitedIs
  <2>3. SoloEntry(j)'
    BY <1>2, <1>5, <1>7, <1>9, <2>2 DEF SoloEntry, SoloJob, Alone, ProcessesIn, Ended
  <2>4. Placed(j)'
    BY <1>1, <1>2, <1>4, <1>7, <1>9, <2>2 DEF SoloInv, SoloPlace, Placed
  <2>5. j \in Counted(table')
    BY <1>2, <1>7, <2>2 DEF Counted
  <2> QED BY <1>2, <1>6, <1>7, <2>2, <2>3, <2>4, <2>5
<1>10. CASE proc[p] = "stopped"
  <2>1. table' = note_stopped(table, j, p)
    BY <1>3, <1>4, <1>10, TableFacts, ReportIs DEF ReportOf
  <2>2. /\ SameGroup(table, table', j)
        /\ table'.at[j].state = "stopped"
        /\ table'.at[j].process[p] = "stopped"
        /\ table'.at[j].live_processes = 0
        /\ table'.running_jobs_count = Minus(table.running_jobs_count, MaxSize)
    BY <1>4, <2>1, TableFacts, NoteStoppedFacts, NoteStoppedIs
  <2>3. SoloEntry(j)'
    BY <1>2, <1>5, <1>7, <1>10, <2>2 DEF SoloEntry, SoloJob, Alone, ProcessesIn, Suspended
  <2>4. Placed(j)'
    BY <1>7, <2>2 DEF Placed
  <2>5. j \notin Counted(table')
    BY <2>2 DEF Counted
  <2> QED BY <1>2, <1>6, <1>7, <2>2, <2>3, <2>4, <2>5
<1>11. CASE proc[p] \notin {"zombie", "stopped"}
  <2>1. ReportOf(p) = "continued"
    BY <1>1, <1>4, <1>11 DEF ReportOf, Owed, IInv, TypeOK, KernelTypeOK
  <2>2. table' = note_continued(table, j, p)
    BY <1>3, <1>4, <2>1, TableFacts, ReportIs
  <2>3. /\ SameGroup(table, table', j)
        /\ table'.at[j].is_background = table.at[j].is_background
        /\ table'.at[j].state = "running"
        /\ table'.at[j].process[p] = "running"
        /\ table'.at[j].live_processes = 1
        /\ table'.running_jobs_count = table.running_jobs_count
    BY <1>4, <2>2, TableFacts, NoteContinuedFacts, NoteContinuedIs
  <2>4. SoloEntry(j)'
    BY <1>2, <1>4, <1>5, <1>7, <1>11, <2>3
       DEF SoloEntry, SoloJob, Alone, ProcessesIn, Launched
  <2>5. Placed(j)'
    BY <1>1, <1>2, <1>4, <1>7, <2>3 DEF SoloInv, SoloPlace, Placed
  <2>6. j \in Counted(table')
    BY <1>2, <1>7, <2>3 DEF Counted
  <2> QED BY <1>2, <1>6, <1>7, <2>3, <2>4, <2>5, <2>6
<1> QED BY <1>8, <1>9, <1>10, <1>11

-----------------------------------------------------------------------------
(* SoloInv is inductive *)

LEMMA InitSolo == Init => SoloInv
<1> SUFFICES ASSUME Init PROVE SoloInv
  OBVIOUS
<1>1. Listed(table) = {} /\ table.running_jobs_count = 0
  BY InitTableType DEF Init, init_shell_jobs
<1>2. RunningCountIsExact
  BY <1>1, FS_EmptySet DEF RunningCountIsExact
<1>3. SoloTable
  BY <1>1, <1>2 DEF SoloTable, Init, KernelInit
<1>4. SoloPlace
  BY <1>1 DEF SoloPlace, Init
<1> QED BY <1>3, <1>4 DEF SoloInv

LEMMA NextSolo ==
  ASSUME OneProcessJobs, IInv, SoloInv, [Next]_vars
  PROVE  SoloInv' /\ OnlyFinishedLeave
<1>1. IInv'
  BY NextInv
<1>2. ASSUME table' = table, SoloInv' PROVE SoloInv' /\ OnlyFinishedLeave
  BY <1>2 DEF OnlyFinishedLeave
<1>3. CASE ShellStep
  <2>1. ASSUME NEW p \in Pids, ForkProcess(p) \/ Reap(p)
        PROVE  SoloInv' /\ OnlyFinishedLeave
    BY <1>1, <2>1, ForkKeepsSolo, ReapKeepsSolo
  <2>2. CASE LaunchBackground \/ LaunchForeground \/ LeaveRunJob \/ JobStopped
    <3>1. table' = table
      BY <2>2 DEF LaunchBackground, LaunchForeground, LeaveRunJob, JobStopped
    <3> QED BY <1>2, <2>2, <3>1, LaunchKeepsSolo, LeavingKeepsSolo
  <2>3. CASE PollReturns \/ DrainChld \/ DrainInt \/ PollAgain \/ ReapDone \/ FgBlocksSignals
    <3>1. table' = table
      BY <2>3 DEF PollReturns, DrainChld, DrainInt, PollAgain, ReapDone, FgBlocksSignals,
                  shellVars
    <3> QED BY <1>2, <2>3, <3>1, WaitingKeepsSolo
  <2>4. CASE DrainTstp \/ EventHook \/ NoSuchGroup
    <3>1. table' = table
      BY <2>4 DEF DrainTstp, EventHook, NoSuchGroup, shellVars
    <3> QED BY <1>2, <2>4, <3>1, StopKeepsSolo, PromptKeepsSolo
  <2>5. CASE JobFinished \/ AllIdsDone \/ NoSuchJob
    BY <1>1, <2>5, JobFinishedKeepsSolo, EndBuiltinKeepsSolo DEF AllIdsDone, NoSuchJob
  <2>6. CASE Fg \/ Bg
    BY <1>1, <2>6, FgKeepsSolo, BgKeepsSolo
  <2> QED BY <1>3, <2>1, <2>2, <2>3, <2>4, <2>5, <2>6 DEF ShellStep
<1>4. CASE UserStep
  <2>1. ASSUME NEW j \in Jobs, NEW n \in PipelineSizes, NEW bg \in BOOLEAN,
               StartJob(j, n, bg)
        PROVE  SoloInv' /\ OnlyFinishedLeave
    BY <1>1, <2>1, StartJobKeepsSolo
  <2>2. ASSUME NEW name \in {"fg", "bg"}, NEW j \in Jobs, NEW ids, NEW bg \in BOOLEAN,
               StartBuiltin(name, j, ids, bg)
        PROVE  SoloInv' /\ OnlyFinishedLeave
    BY <1>1, <2>2, StartBuiltinKeepsSolo
  <2>3. CASE OtherLine \/ Exit \/ EndOfFile \/ KeyInt \/ KeyTstp \/ KeyTstpToForeground
    <3>1. table' = table
      BY <2>3 DEF OtherLine, Exit, EndOfFile, KeyInt, KeyTstp, KeyTstpToForeground,
                  shellVars
    <3> QED BY <1>2, <2>3, <3>1, PromptKeepsSolo, StopKeepsSolo
  <2> QED BY <1>4, <2>1, <2>2, <2>3 DEF UserStep
<1>5. CASE EnvironmentStep
  <2>1. CASE ForkFails \/ SignalfdFails
    <3>1. table' = table
      BY <2>1 DEF ForkFails, SignalfdFails
    <3> QED BY <1>2, <2>1, <3>1, PromptKeepsSolo
  <2>2. ASSUME NEW p \in Pids, ChildRuns(p) PROVE SoloInv' /\ OnlyFinishedLeave
    <3>1. table' = table
      BY <2>2 DEF ChildRuns, shellVars
    <3> QED BY <1>1, <1>2, <2>2, <3>1, ChildKeepsSolo
  <2> QED BY <1>5, <2>1, <2>2 DEF EnvironmentStep
<1>6. CASE UNCHANGED vars
  <2>1. UNCHANGED <<proc, report, group, tstp, pc, table, cur, left, wait>>
    BY <1>6 DEF vars, kernelVars, childVars, shellVars
  <2>2. SoloTable'
    BY <2>1, QuietStepsKeepTable DEF SoloInv
  <2>3. SoloPlace'
    BY <2>1 DEF SoloInv, SoloPlace, Placed
  <2> QED BY <1>2, <2>1, <2>2, <2>3 DEF SoloInv
<1> QED BY <1>3, <1>4, <1>5, <1>6 DEF Next

LEMMA SoloInvariance ==
  ASSUME OneProcessJobs
  PROVE  Spec => [](IInv /\ SoloInv)
<1>1. Init => IInv /\ SoloInv
  BY InitInv, InitSolo
<1>2. (IInv /\ SoloInv) /\ [Next]_vars => (IInv /\ SoloInv)'
  BY NextInv, NextSolo
<1> QED BY <1>1, <1>2, PTL DEF Spec

-----------------------------------------------------------------------------
(* What follows for jobs of one process that only the terminal and the     *)
(* shell signal.                                                           *)

(* live_processes of a job is the number of its processes that the table   *)
(* has as running, after every launch, stop, continuation and end.         *)
THEOREM LiveCountsAreExact ==
  ASSUME OneProcessJobs
  PROVE  Spec => []LiveCountIsExact
<1>1. ASSUME IInv, SoloInv, NEW j \in Listed(table)
      PROVE  table.at[j].live_processes = Cardinality(ProcessesIn(table.at[j], "running"))
  <2> DEFINE job == table.at[j]
  <2>1. CASE job.pgid = NoPid
    <3>1. job.live_processes = 0 /\ ProcessesIn(job, "running") = {}
      BY <1>1, <2>1 DEF SoloInv, SoloTable, SoloEntry, Empty, ProcessesIn
    <3> QED BY <3>1, FS_EmptySet
  <2>2. CASE job.pgid # NoPid
    <3>1. SoloJob(job) /\ job.pgid \in Pids
      BY <1>1, <2>2, TypeFacts DEF IInv, SoloInv, SoloTable, SoloEntry
    <3>2. CASE Launched(job)
      <4>1. ProcessesIn(job, "running") = {job.pgid}
        BY <3>1, <3>2 DEF SoloJob, Launched, ProcessesIn
      <4>2. Cardinality(ProcessesIn(job, "running")) = 1
        BY <4>1, FS_Singleton
      <4> QED BY <3>2, <4>2 DEF Launched
    <3>3. CASE Suspended(job) \/ Ended(job)
      <4>1. ProcessesIn(job, "running") = {} /\ job.live_processes = 0
        BY <3>1, <3>3 DEF SoloJob, Suspended, Ended, ProcessesIn
      <4> QED BY <4>1, FS_EmptySet
    <3> QED BY <3>1, <3>2, <3>3 DEF SoloJob
  <2> QED BY <2>1, <2>2
<1>2. IInv /\ SoloInv => LiveCountIsExact
  BY <1>1 DEF LiveCountIsExact
<1> QED BY <1>2, SoloInvariance, PTL

(* The counter that Ctrl-D decides on is the number of jobs that are not   *)
(* stopped, whichever way they came, went, stopped and continued.          *)
THEOREM RunningCountsAreExact ==
  ASSUME OneProcessJobs
  PROVE  Spec => []RunningCountIsExact
<1>1. SoloInv => RunningCountIsExact
  BY DEF SoloInv, SoloTable
<1> QED BY <1>1, SoloInvariance, PTL

(* An id that fg or bg is given leads to an entry whose process group still *)
(* exists, or to the entry of "fg &" itself: in no other way do tcsetpgrp   *)
(* and kill fail in the two builtins and exit the shell.                    *)
THEOREM OnlyOwnEntryIsFatal ==
  ASSUME OneProcessJobs
  PROVE  Spec => OnlyOwnEntryEndsShell
<1>1. ASSUME IInv, SoloInv, NoSuchGroup
      PROVE  pc = "fg" /\ target = cur
  <2> DEFINE job == table.at[target]
  <2>1. /\ target \in Listed(table)
        /\ \/ job.state = "stopped"
           \/ pc = "fg" /\ job.is_background /\ job.state = "running"
    BY <1>1, TableFacts, FindFgFacts, FindBgFacts DEF NoSuchGroup, target
  <2>2. /\ pc \in {"fg", "bg"} /\ wait = NoJob /\ target # NoJob
        /\ ~GroupExists(job.pgid)
    BY <1>1 DEF NoSuchGroup, IInv, PlaceOK
  <2>3. CASE job.pgid = NoPid
    <3>1. target = cur
      BY <1>1, <2>1, <2>3 DEF IInv, EntriesOK
    <3>2. job.state = "running"
      BY <1>1, <2>1, <2>3 DEF SoloInv, SoloTable, SoloEntry, Empty
    <3> QED BY <2>1, <3>1, <3>2
  <2>4. CASE job.pgid # NoPid
    <3>1. job.pgid \in Pids
      BY <1>1, <2>1, <2>4, TypeFacts DEF IInv, EntriesOK
    <3>2. SoloJob(job)
      BY <1>1, <2>1, <2>4 DEF SoloInv, SoloTable, SoloEntry
    <3>3. ~Ended(job)
      BY <1>1, <2>1, <2>2, <2>4, TypeFacts, Constants
         DEF Ended, SoloInv, SoloPlace, Placed
    <3>4. proc[job.pgid] # "none"
      BY <3>2, <3>3 DEF SoloJob, Launched, Suspended
    <3>5. job.pgid \in Members(job.pgid)
      BY <1>1, <3>1, <3>4 DEF Members, SoloInv, SoloTable, Owned
    <3> QED BY <2>2, <3>5 DEF GroupExists
  <2> QED BY <2>3, <2>4
<1>2. IInv /\ SoloInv /\ [Next]_vars =>
        [NoSuchGroup => pc = "fg" /\ target = cur]_vars
  BY <1>1
<1> QED BY <1>2, SoloInvariance, PTL DEF Spec, OnlyOwnEntryEndsShell

(* A job is only forgotten, and announced as done, once waitpid has given  *)
(* its process away.                                                       *)
THEOREM DoneJobsAreFinished ==
  ASSUME OneProcessJobs
  PROVE  Spec => DoneMeansFinished
<1>1. IInv /\ SoloInv /\ [Next]_vars =>
        [\A j \in Listed(table) \ Listed(table') : \A p \in ProcessesOf(j) : proc'[p] = "none"]_vars
  BY NextSolo DEF OnlyFinishedLeave
<1> QED BY <1>1, SoloInvariance, PTL DEF Spec, DoneMeansFinished

(* Ctrl-D leaves no process behind that runs, unless the warning has been  *)
(* given.                                                                  *)
THEOREM RunningJobsAreAnnounced ==
  ASSUME OneProcessJobs
  PROVE  Spec => EndOfFileWarns
<1>1. ASSUME IInv, SoloInv, EndOfFile, pc' = "exit"
      PROVE  warned \/ \A p \in Pids : proc[p] # "running"
  <2> SUFFICES ASSUME ~warned, NEW p \in Pids, proc[p] = "running" PROVE FALSE
    OBVIOUS
  <2>1. table.running_jobs_count = 0
    <3>1. table.running_jobs_count \in Nat /\ ~(table.running_jobs_count > 0)
      BY <1>1, TableFacts, TableType DEF EndOfFile
    <3> QED BY <3>1
  <2>2. Counted(table) = {}
    <3>1. Cardinality(Counted(table)) = 0
      BY <1>1, <2>1 DEF SoloInv, SoloTable, RunningCountIsExact, Counted
    <3> QED BY <1>1, <3>1, TableFacts, CountedIsFinite, FS_EmptySet
  <2>3. PICK j \in Listed(table) : SoloJob(table.at[j]) /\ table.at[j].pgid = p
    BY <1>1, OwnerOf
  <2>4. table.at[j].state = "stopped"
    BY <2>2 DEF Counted
  <2> QED BY <2>3, <2>4 DEF SoloJob, Launched, Suspended, Ended
<1>2. IInv /\ SoloInv /\ [Next]_vars =>
        [EndOfFile /\ pc' = "exit" => warned \/ \A p \in Pids : proc[p] # "running"]_vars
  BY <1>1
<1> QED BY <1>2, SoloInvariance, PTL DEF Spec, EndOfFileWarns
=============================================================================
