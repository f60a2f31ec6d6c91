----------------------------- MODULE AndOrLists -----------------------------
(***************************************************************************)
(* What a line means: lists of jobs that && and || join, one list after    *)
(* the other.  A job runs in its turn, at most once, if the operator       *)
(* before it agrees with the status so far; one that cannot be run counts  *)
(* as failed.                                                              *)
(***************************************************************************)
EXTENDS Integers, Sequences

VARIABLES
  todo,   \* the jobs whose turn has not come: [op, job]; a list starts with op "none"
  ran,    \* the jobs that were run
  status  \* of the last job whose turn it was

(* The status with which it is the job's turn. *)
Agrees(item) ==
  \/ item.op = "none"
  \/ item.op = "and" /\ status = 0
  \/ item.op = "or" /\ status # 0

Init == todo = <<>> /\ ran = <<>> /\ status = 0

Read ==
  /\ todo = <<>>
  /\ ran = <<>>
  /\ todo' # <<>>
  /\ todo'[1].op = "none"
  /\ status' = 0
  /\ UNCHANGED ran

Run ==
  /\ todo # <<>>
  /\ Agrees(todo[1])
  /\ todo' = Tail(todo)
  /\ ran' = Append(ran, todo[1].job)

Skip ==
  /\ todo # <<>>
  /\ ~Agrees(todo[1])
  /\ todo' = Tail(todo)
  /\ UNCHANGED <<ran, status>>

(* The next n jobs, of one list, cannot be run. *)
Fail(n) ==
  /\ Agrees(todo[1])
  /\ \A i \in 2 .. n : todo[i].op # "none"
  /\ n > 1 => todo[1].op = "none"
  /\ todo' = SubSeq(todo, n + 1, Len(todo))
  /\ status' = -1
  /\ UNCHANGED ran

(* Nor can the line. *)
FailLine ==
  /\ ran = <<>>
  /\ todo' = <<>>
  /\ status' = -1
  /\ UNCHANGED ran

Finish ==
  /\ todo = <<>>
  /\ ran' = <<>>
  /\ status' = 0
  /\ UNCHANGED todo

Next ==
  \/ Read \/ Run \/ Skip \/ FailLine \/ Finish
  \/ \E n \in 1 .. Len(todo) : Fail(n)

Spec == Init /\ [][Next]_<<todo, ran, status>>
=============================================================================
