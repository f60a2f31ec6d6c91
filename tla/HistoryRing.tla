---------------------------- MODULE HistoryRing ----------------------------
(***************************************************************************)
(* The circular buffer of history/history.c, as operators on a history_t.  *)
(* Left out: the time stamps and readline's own list, which is only        *)
(* written here.                                                           *)
(***************************************************************************)
EXTENDS Integers, Sequences

CONSTANTS
  Commands,  \* the lines a user types, except the empty one
  NoCommand, \* NULL
  HIST_SIZE

ASSUME HistoryRingAssumption ==
  /\ NoCommand \notin Commands
  /\ HIST_SIZE \in Nat \ {0}

Slots == 0 .. HIST_SIZE - 1

history_t == [cmd_list  : [Slots -> Commands \cup {NoCommand}],
              cmd_count : 0 .. HIST_SIZE,
              start     : Slots]

history_init ==
  [cmd_list |-> [k \in Slots |-> NoCommand], cmd_count |-> 0, start |-> 0]

(* The body both of history_load, for a line of the file, and of            *)
(* history_save_command: a free slot, or the oldest one.                   *)
Stored(h, slot, cmd, count, start) ==
  [cmd_list  |-> [h.cmd_list EXCEPT ![slot] = cmd],
   cmd_count |-> count,
   start     |-> start]

store_NotAdvanced(h, cmd) ==
  IF h.cmd_count < HIST_SIZE
  THEN Stored(h, h.cmd_count, cmd, h.cmd_count + 1, h.start)
  ELSE Stored(h, h.start, cmd, h.cmd_count, h.start)

store(h, cmd) ==
  IF h.cmd_count < HIST_SIZE
  THEN Stored(h, h.cmd_count, cmd, h.cmd_count + 1, h.start)
  ELSE Stored(h, h.start, cmd, h.cmd_count, (h.start + 1) % HIST_SIZE)

(* history -c *)
clear_KeepsStart(h) ==
  [cmd_list  |-> [k \in Slots |-> IF k < h.cmd_count THEN NoCommand ELSE h.cmd_list[k]],
   cmd_count |-> 0,
   start     |-> h.start]

clear(h) ==
  [cmd_list  |-> [k \in Slots |-> IF k < h.cmd_count THEN NoCommand ELSE h.cmd_list[k]],
   cmd_count |-> 0,
   start     |-> 0]

(* What history prints: the entries from start on. *)
Printed(h) ==
  [i \in 1 .. h.cmd_count |-> h.cmd_list[(h.start + i - 1) % HIST_SIZE]]
=============================================================================
