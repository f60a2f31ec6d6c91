---------------------------- MODULE Descriptors ----------------------------
(***************************************************************************)
(* File descriptors (external: the source only calls open, pipe, dup, dup2 *)
(* and close).  A table says what each number of a process stands for; a   *)
(* pipe has an end to read and an end to write.                            *)
(***************************************************************************)
EXTENDS Integers, Sequences, FiniteSetsExt

CONSTANT MaxFd  \* bound: the largest descriptor

ASSUME DescriptorsAssumption == MaxFd \in Nat /\ MaxFd >= 3

STDIN_FILENO == 0
STDOUT_FILENO == 1
STDERR_FILENO == 2

Fds == 0 .. MaxFd

(* What a descriptor may stand for. *)
closed == <<"closed", 0>>
terminal == <<"terminal", 0>>
history == <<"history", 0>>  \* the stream that history.c keeps open
signals == <<"signalfd", 0>>
file == <<"file", 0>>        \* what a redirection opens
ReadEnd(k) == <<"read", k>>
WriteEnd(k) == <<"write", k>>

IsReadEnd(f) == f[1] = "read"
IsWriteEnd(f) == f[1] = "write"

no_descriptors == [n \in Fds |-> closed]

Full(t) == \A n \in Fds : t[n] # closed

(* The number the next open or dup returns: -1 if there is none left. *)
Lowest(t) == IF Full(t) THEN -1 ELSE Min({n \in Fds : t[n] = closed})

Open(t, f) == IF Full(t) THEN t ELSE [t EXCEPT ![Lowest(t)] = f]

(* pipe takes two numbers, or fails and takes none. *)
PipeFits(t) == \E l, m \in Fds : l # m /\ t[l] = closed /\ t[m] = closed

(* pipe: the table it leaves, and the two numbers. *)
Pipe(t, k) ==
  LET in == Lowest(t)
      half == [t EXCEPT ![in] = ReadEnd(k)]
      out == Lowest(half)
  IN  [table |-> [half EXCEPT ![out] = WriteEnd(k)], ends |-> <<in, out>>]

(* Closing -1, or a number that is not open, only fails. *)
Close(t, n) == IF n \in Fds THEN [t EXCEPT ![n] = closed] ELSE t

(* dup2(old, new), close(old), unless there is no old. *)
Move(t, old, new) ==
  IF old \in Fds THEN [t EXCEPT ![new] = t[old], ![old] = closed] ELSE t
=============================================================================
