-------------------------- MODULE TerminalProtocol --------------------------
(***************************************************************************)
(* What the shell promises about its terminal, without signals, counters   *)
(* or process states: it knows a set of jobs, and either holds the         *)
(* terminal itself or has handed it to one of them.                        *)
(***************************************************************************)
CONSTANTS
  Jobs,
  NoHolder  \* the shell holds the terminal itself

VARIABLES
  holder,  \* the job that owns the terminal, or NoHolder
  known    \* the jobs of the table

Init ==
  /\ holder = NoHolder
  /\ known = {}

Enter(j) ==
  /\ holder = NoHolder
  /\ j \notin known
  /\ known' = known \cup {j}
  /\ UNCHANGED holder

HandOver(j) ==
  /\ holder = NoHolder
  /\ j \in known
  /\ holder' = j
  /\ UNCHANGED known

(* The job stopped and stays known, or it finished. *)
TakeBack ==
  /\ holder # NoHolder
  /\ holder' = NoHolder
  /\ known' \in {known, known \ {holder}}

(* Any other job may be found finished at any time. *)
Forget(j) ==
  /\ j \in known
  /\ j # holder
  /\ known' = known \ {j}
  /\ UNCHANGED holder

Next ==
  \/ \E j \in Jobs : Enter(j) \/ HandOver(j) \/ Forget(j)
  \/ TakeBack

Spec == Init /\ [][Next]_<<holder, known>>
=============================================================================
