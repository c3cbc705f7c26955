------------------------------- MODULE MCProc -------------------------------
(* Small instances of Proc: Init, the video driver, NBOOT - 1 drivers and   *)
(* the clients Init creates.                                                *)
EXTENDS Proc

(* Priorities that differ, so that schedule has something to compare.       *)
MCBootPriority == [p \in Boot |-> IF p = INIT THEN 1 ELSE 2]
(* All equal, which leaves the order of the list to decide.                 *)
MCFlatPriority == [p \in Boot |-> 1]
=============================================================================
