------------------------------ MODULE JobTable ------------------------------
(***************************************************************************)
(* The job table of the shell: executor/jobs.c and the selection of a job  *)
(* by the fg and bg builtins.  The doubly linked list is a sequence, oldest *)
(* entry first; every function of the source is an operator from a table   *)
(* to a table (or to what it returns), so that a handler of the shell that *)
(* calls several of them is one expression.                                *)
(*                                                                         *)
(* A definition with a suffix, such as Minus_NoWrap, is the one without it *)
(* with a bug: it is used only to see that a property notices the bug.     *)
(*                                                                         *)
(* Not kept: argv, redirections, the command text, the exit status of a    *)
(* process and jobs_count, which only printing reads.  PROCESS_DONE and    *)
(* PROCESS_KILLED are one state, nothing reads the difference.             *)
(***************************************************************************)
EXTENDS ProcessIds, Integers, Sequences, FiniteSetsExt, SequencesExt

CONSTANTS
  Jobs,         \* addresses a job_t may have
  NoJob,        \* NULL
  MaxUnsigned,  \* UINT_MAX, the largest live_processes
  MaxSize       \* SIZE_MAX, the largest running_jobs_count

ASSUME JobTableAssumption ==
  /\ NoJob \notin Jobs
  /\ MaxUnsigned \in Nat
  /\ MaxSize \in Nat

-----------------------------------------------------------------------------
(* process_t, job_t and shell_jobs_t *)

ProcessStates == {"absent", "running", "done", "stopped"}
JobStates == {"running", "done", "stopped", "continued"}

job_t == [id             : Nat,
          pgid           : Pids \cup {NoPid},
          process        : [Pids -> ProcessStates],
          is_background  : BOOLEAN,
          state          : JobStates,
          live_processes : 0 .. MaxUnsigned]

shell_jobs_t == [jobs               : Seq(Jobs),
                 at                 : [Jobs -> job_t],
                 running_jobs_count : 0 .. MaxSize]

(* xcalloc'ed memory; a freed job_t is put back in this state. *)
jobs_new_job(bg) ==
  [id |-> 0, pgid |-> NoPid, process |-> [p \in Pids |-> "absent"],
   is_background |-> bg, state |-> "running", live_processes |-> 0]

init_shell_jobs ==
  [jobs |-> <<>>, at |-> [j \in Jobs |-> jobs_new_job(FALSE)],
   running_jobs_count |-> 0]

Listed(t) == ToSet(t.jobs)

(* No job is twice in the list: every address occurs at one position.      *)
NoDuplicates(t) ==
  \A k, l \in DOMAIN t.jobs : t.jobs[k] = t.jobs[l] => k = l

ProcessesIn(job, state) == {p \in Pids : job.process[p] = state}

(* The unsigned counters of the source wrap around. *)
Plus(n, k, max) == (n + k) % (max + 1)
Minus_NoWrap(n, max) == n - 1
Minus(n, max) == IF n = 0 THEN max ELSE n - 1

-----------------------------------------------------------------------------
(* Searches: all of them run from the tail of the list. *)

LastOf(t, positions) ==
  IF positions = {} THEN NoJob ELSE t.jobs[Max(positions)]

PgidAt(t, pgid) == {k \in DOMAIN t.jobs : t.at[t.jobs[k]].pgid = pgid}

jobs_find_job_by_pgid(t, pgid) == LastOf(t, PgidAt(t, pgid))

(* jobs_find_process_by_pid followed by ->parent_job *)
jobs_find_process_by_pid(t, p) ==
  LastOf(t, {k \in DOMAIN t.jobs : t.at[t.jobs[k]].process[p] # "absent"})

HasId(t, k, id) == id = 0 \/ t.at[t.jobs[k]].id = id

find_target_job_fg(t, id) ==
  LastOf(t, {k \in DOMAIN t.jobs :
               /\ HasId(t, k, id)
               /\ LET job == t.at[t.jobs[k]]
                  IN  \/ job.state = "stopped"
                      \/ job.is_background /\ job.state = "running"})

find_target_job_bg(t, id) ==
  LastOf(t, {k \in DOMAIN t.jobs :
               HasId(t, k, id) /\ t.at[t.jobs[k]].state = "stopped"})

-----------------------------------------------------------------------------
(* Adding and removing *)

(* The first position whose job has a larger id than the position, which   *)
(* is a free id only if the list is in the order of the ids.               *)
NewId(t) ==
  LET gaps == {k \in DOMAIN t.jobs : t.at[t.jobs[k]].id >= k + 1}
  IN  IF gaps = {} THEN Len(t.jobs) + 1 ELSE Min(gaps)

jobs_add_job(t, j, bg) ==
  [jobs |-> Append(t.jobs, j),
   at |-> [t.at EXCEPT ![j] = [jobs_new_job(bg) EXCEPT !.id = NewId(t)]],
   running_jobs_count |-> Plus(t.running_jobs_count, 1, MaxSize)]

jobs_remove_job(t, pgid) ==
  IF PgidAt(t, pgid) = {} THEN t
  ELSE LET k == Max(PgidAt(t, pgid))
           j == t.jobs[k]
       IN  [jobs |-> RemoveAt(t.jobs, k),
            at |-> [t.at EXCEPT ![j] = jobs_new_job(FALSE)],
            running_jobs_count |->
              IF t.at[j].state # "stopped"
              THEN Minus(t.running_jobs_count, MaxSize)
              ELSE t.running_jobs_count]

-----------------------------------------------------------------------------
(* State changes of a job *)

(* What a function with a pointer to job j leaves behind: *j is job, and   *)
(* n jobs count as running.                                                *)
Store(t, j, job, n) ==
  [jobs |-> t.jobs, at |-> [t.at EXCEPT ![j] = job], running_jobs_count |-> n]

AllMoved(job, from, to) ==
  [p \in Pids |-> IF job.process[p] = from THEN to ELSE job.process[p]]

(* run_job, for a child just forked into group pgid *)
add_child(t, j, p, pgid) ==
  Store(t, j, [t.at[j] EXCEPT !.process[p] = "running",
                              !.pgid = pgid,
                              !.live_processes = Plus(@, 1, MaxUnsigned)],
        t.running_jobs_count)

jobs_mark_job_stopped(t, j) ==
  Store(t, j, [t.at[j] EXCEPT !.process = AllMoved(t.at[j], "running", "stopped"),
                              !.state = "stopped"],
        Minus(t.running_jobs_count, MaxSize))

Continued(job, live) ==
  [job EXCEPT !.process = AllMoved(job, "stopped", "running"),
              !.live_processes = live,
              !.state = "continued"]

jobs_mark_job_continued_NotCounted(t, j) ==
  Store(t, j, Continued(t.at[j], t.at[j].live_processes), t.running_jobs_count)

jobs_mark_job_continued(t, j) ==
  LET woken == Cardinality(ProcessesIn(t.at[j], "stopped"))
  IN  Store(t, j,
            Continued(t.at[j], Plus(t.at[j].live_processes, woken, MaxUnsigned)),
            t.running_jobs_count)

jobs_mark_job_completed(t, j) ==
  jobs_remove_job(Store(t, j, [t.at[j] EXCEPT !.state = "done"],
                        t.running_jobs_count),
                  t.at[j].pgid)

(* The continuation of a stopped job, as fg and bg both do it. *)
Resumed(job, bg) == [job EXCEPT !.is_background = bg, !.state = "running"]

resume_job_NotCounted(t, j, bg) ==
  LET c == jobs_mark_job_continued(t, j)
  IN  Store(c, j, Resumed(c.at[j], bg), c.running_jobs_count)

resume_job(t, j, bg) ==
  LET c == jobs_mark_job_continued(t, j)
  IN  Store(c, j, Resumed(c.at[j], bg), Plus(c.running_jobs_count, 1, MaxSize))

(* One report of waitpid about process p of job j, and the test that       *)
(* follows every report.                                                   *)
note_exited(t, j, p) ==
  Store(t, j, [t.at[j] EXCEPT !.process[p] = "done",
                              !.live_processes = Minus(@, MaxUnsigned)],
        t.running_jobs_count)

note_stopped(t, j, p) ==
  LET s == jobs_mark_job_stopped(
             Store(t, j, [t.at[j] EXCEPT !.process[p] = "stopped"],
                   t.running_jobs_count), j)
  IN  Store(s, j, [s.at[j] EXCEPT !.live_processes = 0], s.running_jobs_count)

note_continued(t, j, p) ==
  Store(t, j, [t.at[j] EXCEPT !.process[p] = "running"], t.running_jobs_count)

note_process(t, j, p, report) ==
  CASE report = "exited"    -> note_exited(t, j, p)
    [] report = "stopped"   -> note_stopped(t, j, p)
    [] report = "continued" -> note_continued(t, j, p)

handle_report_AnyJob(t, j, p, report) ==
  LET n == note_process(t, j, p, report)
  IN  IF n.at[j].live_processes = 0 THEN jobs_mark_job_completed(n, j) ELSE n

handle_report_AnyReport(t, j, p, report) ==
  LET n == note_process(t, j, p, report)
  IN  IF n.at[j].is_background THEN jobs_mark_job_completed(n, j) ELSE n

handle_report_KeepsStopped(t, j, p, report) ==
  LET n == note_process(t, j, p, report)
  IN  IF /\ n.at[j].live_processes = 0
         /\ n.at[j].is_background
         /\ n.at[j].state # "stopped"
      THEN jobs_mark_job_completed(n, j)
      ELSE n

handle_report_KeepsDone(t, j, p, report) == note_process(t, j, p, report)

handle_report(t, j, p, report) ==
  LET n == note_process(t, j, p, report)
  IN  IF n.at[j].live_processes = 0 /\ n.at[j].is_background
      THEN jobs_mark_job_completed(n, j)
      ELSE n
=============================================================================
