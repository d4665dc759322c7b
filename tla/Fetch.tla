-------------------------------- MODULE Fetch --------------------------------
(***************************************************************************)
(* What a fetch of the HTTP client promises, whichever build makes it: it  *)
(* tells its callback of one answer, or of one failure, or of an answer    *)
(* and then of a failure to close the connection behind it; and then it    *)
(* returns.  The caller of the fetch that waits sees the last it told.     *)
(* A fetch may throw instead, before it has told anything.  Some fetches   *)
(* may return without a word, but not once they are under way.             *)
(***************************************************************************)
EXTENDS Sequences

CONSTANT Fetches  (* calls of fetch                                        *)

VARIABLES
  told,   (* told[f]: what the callback of f was called with                *)
  state,  (* state[f]: "running", "returned" or "thrown"                    *)
  mute    (* mute[f]: f may yet return without having told anything         *)

vars == <<told, state, mute>>

Init ==
  /\ told = [f \in Fetches |-> <<>>]
  /\ state = [f \in Fetches |-> "running"]
  /\ mute \in [Fetches -> BOOLEAN]

(* f is under way: from here on it has something to tell. *)
Engage(f) ==
  /\ state[f] = "running"
  /\ mute' = [mute EXCEPT ![f] = FALSE]
  /\ UNCHANGED <<told, state>>

Answer(f) ==
  /\ state[f] = "running" /\ told[f] = <<>>
  /\ told' = [told EXCEPT ![f] = <<"response">>]
  /\ UNCHANGED <<state, mute>>

Fail(f) ==
  /\ state[f] = "running" /\ told[f] \in {<<>>, <<"response">>}
  /\ told' = [told EXCEPT ![f] = Append(@, "error")]
  /\ state' = [state EXCEPT ![f] = "returned"]
  /\ UNCHANGED mute

Return(f) ==
  /\ state[f] = "running" /\ (told[f] # <<>> \/ mute[f])
  /\ state' = [state EXCEPT ![f] = "returned"]
  /\ UNCHANGED <<told, mute>>

AnswerReturn(f) ==
  /\ state[f] = "running" /\ told[f] = <<>>
  /\ told' = [told EXCEPT ![f] = <<"response">>]
  /\ state' = [state EXCEPT ![f] = "returned"]
  /\ UNCHANGED mute

AnswerFail(f) ==
  /\ state[f] = "running" /\ told[f] = <<>>
  /\ told' = [told EXCEPT ![f] = <<"response", "error">>]
  /\ state' = [state EXCEPT ![f] = "returned"]
  /\ UNCHANGED mute

Throw(f) ==
  /\ state[f] = "running" /\ told[f] = <<>>
  /\ state' = [state EXCEPT ![f] = "thrown"]
  /\ UNCHANGED <<told, mute>>

Next ==
  \E f \in Fetches :
    \/ Engage(f)
    \/ Answer(f) \/ Fail(f) \/ Return(f)
    \/ AnswerReturn(f) \/ AnswerFail(f)
    \/ Throw(f)

Spec == Init /\ [][Next]_vars
=============================================================================
