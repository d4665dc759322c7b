---------------------------- MODULE TaskService ----------------------------
(***************************************************************************)
(* What one scheduler thread promises to those who post tasks to it        *)
(* (iTask.h, iThread): a posted functor is called when at least ms         *)
(* milliseconds have passed since it was posted, or since it last returned *)
(* CONTINUE; one functor at a time; once, if it returns FINISH or throws.  *)
(* No order is promised among the functors that are due.                   *)
(***************************************************************************)
EXTENDS Integers

CONSTANTS Tasks, Ms, Outcomes, MaxTime

VARIABLES
  clock,
  state,     (* state[t]: "idle", "pending", "running" or "gone"            *)
  since      (* since[t]: the time t's delay counts from                    *)

vars == <<clock, state, since>>

Init ==
  /\ clock = 0
  /\ state = [t \in Tasks |-> "idle"]
  /\ since = [t \in Tasks |-> 0]

Tick ==
  /\ clock < MaxTime
  /\ clock' = clock + 1
  /\ UNCHANGED <<state, since>>

Post(t) ==
  /\ state[t] = "idle"
  /\ state' = [state EXCEPT ![t] = "pending"]
  /\ since' = [since EXCEPT ![t] = clock]
  /\ UNCHANGED clock

Call(t) ==
  /\ state[t] = "pending"
  /\ clock - since[t] >= Ms[t]
  /\ \A u \in Tasks : state[u] # "running"
  /\ state' = [state EXCEPT ![t] = "running"]
  /\ UNCHANGED <<clock, since>>

(* FINISH, or an exception. *)
Drop(t) ==
  /\ state[t] = "running"
  /\ Outcomes[t] \cap {"FINISH", "THROW"} # {}
  /\ state' = [state EXCEPT ![t] = "gone"]
  /\ UNCHANGED <<clock, since>>

(* CONTINUE. *)
Rearm(t) ==
  /\ state[t] = "running"
  /\ "CONTINUE" \in Outcomes[t]
  /\ state' = [state EXCEPT ![t] = "pending"]
  /\ since' = [since EXCEPT ![t] = clock]
  /\ UNCHANGED clock

Next == Tick \/ \E t \in Tasks : Post(t) \/ Call(t) \/ Drop(t) \/ Rearm(t)

Spec == Init /\ [][Next]_vars
=============================================================================
