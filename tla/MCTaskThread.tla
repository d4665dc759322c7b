---------------------------- MODULE MCTaskThread ----------------------------
(* Small instances of TaskThread for TLC. *)
EXTENDS TaskThread

CONSTANTS loop, once

(* loop: posted with postLoopTask, no delay; once: posted with postTask and *)
(* 1 ms, its functor may throw.                                             *)
MCMs == [t \in Tasks |-> IF t = loop THEN 0 ELSE 1]
MCOutcomes ==
  [t \in Tasks |-> IF t = loop THEN {"CONTINUE"} ELSE {"FINISH", "THROW"}]
=============================================================================
