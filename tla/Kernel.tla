------------------------------- MODULE Kernel -------------------------------
(***************************************************************************)
(* What the shell observes of the operating system (external: the source   *)
(* only calls it).  Child processes and their process groups, the reports  *)
(* waitpid can give about each, the terminal's foreground group, and the   *)
(* shell's own signal mask with the signals pending on it.                 *)
(*                                                                         *)
(* A child always notices SIGTSTP on its own time: one process of a group  *)
(* may be stopped, and reported, before another.  How a child ends (exit,  *)
(* SIGINT, SIGPIPE) is its own affair: it may end at any moment it runs.   *)
(***************************************************************************)
EXTENDS ProcessIds

CONSTANTS
  Shell,      \* the shell's own process group
  ExtSignals  \* signals other programs send to the children, a subset of
              \* {"STOP", "CONT", "KILL"}

ASSUME KernelAssumption ==
  /\ Shell \notin Pids \cup {NoPid}
  /\ ExtSignals \subseteq {"STOP", "CONT", "KILL"}

VARIABLES
  proc,     \* proc[p]: none, running, stopped or zombie
  report,   \* report[p]: a job-control event of p that waitpid still owes
  group,    \* group[p]: the process group of p
  deaf,     \* children that inherited a mask blocking SIGINT and SIGTSTP
  tstp,     \* children with SIGTSTP pending
  tty,      \* foreground process group of the terminal
  blocked,  \* the shell blocks SIGCHLD, SIGINT and SIGTSTP
  pending   \* blocked signals pending on the shell, as signalfd reads them

childVars == <<proc, report, group, deaf, tstp>>
kernelVars == <<childVars, tty, blocked, pending>>

KernelTypeOK ==
  /\ proc \in [Pids -> {"none", "running", "stopped", "zombie"}]
  /\ report \in [Pids -> {"none", "stopped", "continued"}]
  /\ group \in [Pids -> Pids \cup {Shell}]
  /\ deaf \in SUBSET Pids
  /\ tstp \in SUBSET Pids
  /\ tty \in Pids \cup {Shell}
  /\ blocked \in BOOLEAN
  /\ pending \in SUBSET {"CHLD", "INT", "TSTP"}

KernelInit ==
  /\ proc = [p \in Pids |-> "none"]
  /\ report = [p \in Pids |-> "none"]
  /\ group = [p \in Pids |-> Shell]
  /\ deaf = {}
  /\ tstp = {}
  /\ tty = Shell
  /\ blocked = FALSE
  /\ pending = {}

-----------------------------------------------------------------------------
(* Process groups, waitpid and kill *)

Members(g) == {p \in Pids : proc[p] # "none" /\ group[p] = g}
GroupExists(g) == Members(g) # {}
Running(g) == {p \in Members(g) : proc[p] = "running"}

Owed(p) == proc[p] = "zombie" \/ report[p] # "none"
ReportOf(p) == IF proc[p] = "zombie" THEN "exited" ELSE report[p]

(* A child's change of state raises SIGCHLD.  The shell has no handler for *)
(* it, so it is lost unless blocked.                                       *)
NotifyShell == pending' = IF blocked THEN pending \cup {"CHLD"} ELSE pending

(* waitpid(-1) reports p and consumes the report. *)
Wait(p) ==
  /\ Owed(p)
  /\ report' = [report EXCEPT ![p] = "none"]
  /\ IF proc[p] = "zombie"
     THEN /\ proc' = [proc EXCEPT ![p] = "none"]
          /\ group' = [group EXCEPT ![p] = Shell]
          /\ deaf' = deaf \ {p}
     ELSE UNCHANGED <<proc, group, deaf>>
  /\ UNCHANGED <<tstp, tty, blocked, pending>>

(* kill(-g, SIGCONT): wakes the stopped members, drops their pending stops *)
(* and replaces a stop nobody has waited for.                              *)
Continue(g) ==
  LET woken == {p \in Members(g) : proc[p] = "stopped"}
  IN  /\ proc' = [p \in Pids |-> IF p \in woken THEN "running" ELSE proc[p]]
      /\ report' = [p \in Pids |-> IF p \in woken THEN "continued" ELSE report[p]]
      /\ tstp' = tstp \ Members(g)
      /\ IF woken # {} THEN NotifyShell ELSE UNCHANGED pending

(* kill(-g, SIGTSTP), from the terminal or from the shell *)
SendTstp(g) == tstp' = tstp \cup Running(g)

(* fork and setpgid of a child with the signal mask the shell had before *)
Fork(p, g, mask) ==
  /\ proc' = [proc EXCEPT ![p] = "running"]
  /\ group' = [group EXCEPT ![p] = g]
  /\ deaf' = IF mask THEN deaf \cup {p} ELSE deaf
  /\ UNCHANGED <<report, tstp, tty, blocked, pending>>

-----------------------------------------------------------------------------
(* What the children do, and what other programs do to them *)

Stop(p) ==
  /\ proc[p] = "running"
  /\ proc' = [proc EXCEPT ![p] = "stopped"]
  /\ report' = [report EXCEPT ![p] = "stopped"]
  /\ tstp' = tstp \ {p}
  /\ NotifyShell
  /\ UNCHANGED <<group, deaf, tty, blocked>>

End(p) ==
  /\ proc' = [proc EXCEPT ![p] = "zombie"]
  /\ report' = [report EXCEPT ![p] = "none"]
  /\ tstp' = tstp \ {p}
  /\ NotifyShell
  /\ UNCHANGED <<group, deaf, tty, blocked>>

ChildEnds(p) == proc[p] = "running" /\ End(p)

ChildStops(p) == p \in tstp \ deaf /\ Stop(p)

OtherStops(p) == "STOP" \in ExtSignals /\ Stop(p)

OtherKills(p) == "KILL" \in ExtSignals /\ proc[p] = "stopped" /\ End(p)

OtherContinues(p) ==
  /\ "CONT" \in ExtSignals
  /\ proc[p] = "stopped"
  /\ proc' = [proc EXCEPT ![p] = "running"]
  /\ report' = [report EXCEPT ![p] = "continued"]
  /\ tstp' = tstp \ {p}
  /\ NotifyShell
  /\ UNCHANGED <<group, deaf, tty, blocked>>

ChildStep(p) ==
  \/ ChildEnds(p)
  \/ ChildStops(p)
  \/ OtherStops(p)
  \/ OtherKills(p)
  \/ OtherContinues(p)

(* Keys while another group than the shell's owns the terminal.  Ctrl-C    *)
(* only lets members end, which they may do anyway.                        *)
KeyTstpToJob ==
  /\ tty # Shell
  /\ Running(tty) # {}
  /\ SendTstp(tty)
  /\ UNCHANGED <<proc, report, group, deaf, tty, blocked, pending>>
=============================================================================
