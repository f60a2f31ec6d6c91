------------------------------- MODULE History -------------------------------
(***************************************************************************)
(* The history of one user: sessions of the shell, one after the other,    *)
(* the ring each keeps in memory (history/history.c, builtin/history.c)    *)
(* and the file they share.  A session may be ended at any step, by a      *)
(* signal or by the exit of a failing system-call wrapper.                 *)
(*                                                                         *)
(* A line of the file is the command on it.  Each line of the trimmed file *)
(* reaches it in a step of its own: stdio writes whenever its buffer is    *)
(* full.                                                                   *)
(***************************************************************************)
EXTENDS HistoryRing, SequencesExt

CONSTANTS
  ClearCommand,  \* the line "history -c"
  CrashPoints,   \* where a session may be ended: subset of load, prompt, trim
  MaxLines       \* bound: no command is typed once the file is that long

ASSUME HistoryAssumption ==
  /\ ClearCommand \in Commands
  /\ CrashPoints \subseteq {"load", "prompt", "trim"}
  /\ MaxLines \in Nat

VARIABLES
  file,   \* the lines of HISTFILE
  hist,   \* shell_state.hist
  at,     \* off (no session), load, prompt, trim
  pos     \* lines read by history_load, or written by history_trim

vars == <<file, hist, at, pos>>

Init ==
  /\ file = <<>>
  /\ hist = history_init
  /\ at = "off"
  /\ pos = 0

StartSession ==
  /\ at = "off"
  /\ at' = "load"
  /\ UNCHANGED <<file, hist, pos>>

LoadLine ==
  /\ at = "load"
  /\ pos < Len(file)
  /\ hist' = store(hist, file[pos + 1])
  /\ pos' = pos + 1
  /\ UNCHANGED <<file, at>>

LoadDone ==
  /\ at = "load"
  /\ pos = Len(file)
  /\ at' = "prompt"
  /\ pos' = 0
  /\ UNCHANGED <<file, hist>>

history_save_command_NotFlushed(cmd) == UNCHANGED file
history_save_command(cmd) == file' = Append(file, cmd)

(* The line is saved before it runs, also when it is history -c. *)
Type(cmd) ==
  /\ at = "prompt"
  /\ Len(file) < MaxLines
  /\ history_save_command(cmd)
  /\ hist' = IF cmd = ClearCommand THEN clear(store(hist, cmd)) ELSE store(hist, cmd)
  /\ UNCHANGED <<at, pos>>

(* The end of the process, which frees hist. *)
EndSession ==
  /\ at' = "off"
  /\ hist' = history_init
  /\ pos' = 0

(* shell_cleanup calls history_trim, which leaves the file alone unless the *)
(* ring is full and else truncates it.                                     *)
Leave ==
  /\ at = "prompt"
  /\ IF hist.cmd_count < HIST_SIZE
     THEN EndSession /\ UNCHANGED file
     ELSE at' = "trim" /\ file' = <<>> /\ UNCHANGED <<hist, pos>>

trimmed_line_FromZero(k) == hist.cmd_list[k]
trimmed_line(k) == hist.cmd_list[(hist.start + k) % HIST_SIZE]

TrimLine ==
  /\ at = "trim"
  /\ pos < HIST_SIZE
  /\ file' = Append(file, trimmed_line(pos))
  /\ pos' = pos + 1
  /\ UNCHANGED <<hist, at>>

TrimDone ==
  /\ at = "trim"
  /\ pos = HIST_SIZE
  /\ EndSession
  /\ UNCHANGED file

Crash ==
  /\ at \in CrashPoints
  /\ EndSession
  /\ UNCHANGED file

Next ==
  \/ StartSession \/ LoadLine \/ LoadDone
  \/ \E cmd \in Commands : Type(cmd)
  \/ Leave \/ TrimLine \/ TrimDone \/ Crash

Spec == Init /\ [][Next]_vars

-----------------------------------------------------------------------------
(* Properties *)

HistoryTypeOK ==
  /\ file \in Seq(Commands)
  /\ hist \in history_t
  /\ at \in {"off", "load", "prompt", "trim"}
  /\ pos \in Nat

(* The last lines of a file, which are what a session keeps of it. *)
Recent(lines) ==
  IF Len(lines) <= HIST_SIZE THEN lines
  ELSE SubSeq(lines, Len(lines) - HIST_SIZE + 1, Len(lines))

(* What history prints at the prompt is what the next session will print   *)
(* too, all of it or, after history -c, the end of it: ring and file do    *)
(* not drift apart, however often the ring has turned.                     *)
PrintedIsSaved == at = "prompt" => IsSuffix(Printed(hist), Recent(file))

(* history.h: history_trim is there "to ensure it doesn't exceed the       *)
(* maximum allowed size": a session that is left in order leaves at most   *)
(* HIST_SIZE lines.                                                        *)
FileIsTrimmed ==
  [][at' = "off" /\ (Leave \/ TrimDone) => (Len(file') <= HIST_SIZE)]_vars

RingLog == INSTANCE BoundedLog WITH log <- Printed(hist), CanForget <- TRUE

(* The ring is a log of the last HIST_SIZE commands: loading a file of any *)
(* length, saving at a full ring and history -c only add at one end and    *)
(* drop at the other.                                                      *)
RingIsALog == RingLog!Spec

FileLog == INSTANCE BoundedLog
             WITH log <- IF at = "trim" THEN Printed(hist) ELSE Recent(file),
                  CanForget <- FALSE

(* Across sessions, and unless one dies while it rewrites the file, no     *)
(* command is lost but the oldest: trimming changes nothing that a later   *)
(* session could load.                                                     *)
FileIsALog == FileLog!Spec

-----------------------------------------------------------------------------
(* A ring that is not full starts at slot 0 and prints no NULL.            *)
RingOK(h) ==
  /\ h \in history_t
  /\ h.cmd_count < HIST_SIZE => h.start = 0
  /\ Printed(h) \in Seq(Commands)

(* What the properties need to know at every step: while loading, the ring *)
(* holds the end of what was read, and while trimming the file is the      *)
(* beginning of the ring.                                                  *)
HistoryInv ==
  /\ HistoryTypeOK
  /\ RingOK(hist)
  /\ at = "off" => hist.cmd_count = 0
  /\ at \in {"off", "prompt"} => pos = 0
  /\ at = "load" => pos <= Len(file) /\ Printed(hist) = Recent(SubSeq(file, 1, pos))
  /\ PrintedIsSaved
  /\ at = "trim" => /\ hist.cmd_count = HIST_SIZE
                    /\ pos <= HIST_SIZE
                    /\ file = SubSeq(Printed(hist), 1, pos)
=============================================================================
