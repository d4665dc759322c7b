----------------------------- MODULE HttpClient -----------------------------
(***************************************************************************)
(* Fetches of the HTTP client, in whichever build: the coroutine of        *)
(* WebClientCoro.cpp (module WebClient) or the handlers of                 *)
(* WebClientAsync.cpp (module WebClientAsync).  The initial state chooses  *)
(* the build; the two name the places of their programs differently, so    *)
(* that only the actions of one of them are ever enabled.                  *)
(***************************************************************************)
EXTENDS Sequences

CONSTANT Fetches  (* calls of fetch *)

VARIABLES kind, pc, armed, told

vars == <<kind, pc, armed, told>>

Coro  == INSTANCE WebClient
Async == INSTANCE WebClientAsync WITH pending <- pc

Init == Coro!Init \/ Async!Init

Returned(f) == pc[f] \in {"returned", "none"}
Thrown(f)   == pc[f] \in {"thrown", "threw"}
Over(f)     == Returned(f) \/ Thrown(f)

Terminating == (\A f \in Fetches : Over(f)) /\ UNCHANGED vars

Next == Coro!Next \/ Async!Next \/ Terminating

Spec == Init /\ [][Next]_vars
LiveSpec == Spec /\ Coro!Fairness /\ Async!Fairness

-----------------------------------------------------------------------------
(* Properties *)

CoroPlaces  == {"start", "returned", "thrown"} \cup Coro!Awaits
AsyncPlaces == {"run", "none", "threw"} \cup Async!Operations

TypeOK ==
  /\ kind \in [Fetches -> Coro!Kinds]
  /\ pc \in [Fetches -> CoroPlaces] \cup [Fetches -> AsyncPlaces]
  /\ armed \in [Fetches -> BOOLEAN]
  /\ told \in [Fetches -> {<<>>, <<"response">>, <<"error">>,
                           <<"response", "error">>}]

(* What module Fetch sees of a fetch.  It may yet return without a word in  *)
(* the build without coroutines, until its first deadline is set.           *)
State ==
  [f \in Fetches |-> IF Returned(f) THEN "returned"
                     ELSE IF Thrown(f) THEN "thrown" ELSE "running"]
Mute ==
  [f \in Fetches |-> kind[f] = "https" /\ pc[f] \in AsyncPlaces /\ ~armed[f]]

(* A fetch keeps the promise of Fetch: its callback is told an answer, a    *)
(* failure, or an answer and then a failure to close, and nothing after it. *)
(* Once it is on the network it never returns without a word, whatever      *)
(* happens there; before, only where a failure of checkSSL is logged and    *)
(* not told: in the build without coroutines.                               *)
Promise == INSTANCE Fetch WITH state <- State, mute <- Mute
FetchSpec == Promise!Spec

(* A fetch returns or throws although the peer may never say a word.        *)
FetchReturns == \A f \in Fetches : <>Over(f)

(* The response that fetch returns is the one the server gave: a server     *)
(* that has answered is not reported as a failure.                          *)
ResponseKept ==
  \A f \in Fetches :
    Over(f) /\ told[f] # <<>> /\ Head(told[f]) = "response" => Len(told[f]) = 1
=============================================================================
