----------------------------- MODULE BoundedLog -----------------------------
(***************************************************************************)
(* A log that remembers the last commands, at most HIST_SIZE of them, and  *)
(* may be emptied.                                                         *)
(***************************************************************************)
EXTENDS Naturals, Sequences

CONSTANTS
  Commands,
  HIST_SIZE,
  CanForget  \* the log may be emptied

VARIABLE log

Remember(l, cmd) ==
  IF Len(l) < HIST_SIZE THEN Append(l, cmd) ELSE Append(Tail(l), cmd)

Init == log = <<>>

Add(cmd) == log' = Remember(log, cmd)

Empty == CanForget /\ log' = <<>>

Next == Empty \/ \E cmd \in Commands : Add(cmd)

Spec == Init /\ [][Next]_log
=============================================================================
