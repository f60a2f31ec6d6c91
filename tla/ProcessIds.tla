----------------------------- MODULE ProcessIds -----------------------------
(***************************************************************************)
(* The process ids of one session of the shell: what the kernel hands out  *)
(* and what the job table records.                                         *)
(***************************************************************************)
EXTENDS FiniteSets

CONSTANTS
  Pids,   \* process ids, which are the ids of process groups too
  NoPid   \* 0, the pgid of a job that has not forked

ASSUME ProcessIdsAssumption ==
  /\ IsFiniteSet(Pids)
  /\ NoPid \notin Pids
=============================================================================
