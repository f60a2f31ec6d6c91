---------------------------- MODULE MCJobControl ----------------------------
(***************************************************************************)
(* Values for TLC.  Jobs and process ids are interchangeable, so the runs  *)
(* without liveness properties explore one representative of each orbit.   *)
(***************************************************************************)
EXTENDS JobInvariant, TLC

AnyJobAnyPid == Permutations(Jobs) \cup Permutations(Pids)

(* fg or bg typed alone *)
NoIds == {<<0>>}

(* fg alone, with an id, and with two *)
SomeIds == {<<0>>, <<2>>, <<1, 2>>}
=============================================================================
