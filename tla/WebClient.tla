------------------------------ MODULE WebClient ------------------------------
(***************************************************************************)
(* The HTTP client of the coroutine build: Client::fetch (Client.cpp) and  *)
(* httpConnect::run (WebClientCoro.cpp).                                   *)
(*                                                                         *)
(* A fetch runs an io_context of its own on the calling thread, with one   *)
(* coroutine in it, until that ends.  Each of its awaits succeeds, fails,  *)
(* or, once a deadline is set, times out; the peer owes it nothing.  What  *)
(* a URL can be is a kind: "bad" is refused, "nopath" has no "/" after     *)
(* its host, and its parsing throws.  The callback itself does not throw.  *)
(***************************************************************************)
EXTENDS Sequences

CONSTANT Fetches  (* calls of fetch *)

Kinds == {"http", "https", "bad", "nopath"}
Awaits == {"resolve", "connect", "handshake", "write", "read", "shutdown"}

VARIABLES
  kind,   (* kind[f]: the URL of f                                          *)
  pc,     (* pc[f]: the await f is in, or "start", "returned", "thrown"     *)
  armed,  (* armed[f]: a deadline is set on its stream                      *)
  told    (* told[f]: what its callback was called with, in order           *)

vars == <<kind, pc, armed, told>>

Init ==
  /\ kind \in [Fetches -> Kinds]
  /\ pc = [f \in Fetches |-> "start"]
  /\ armed = [f \in Fetches |-> FALSE]
  /\ told = [f \in Fetches |-> <<>>]

Goto(f, from, to) ==
  /\ pc[f] = from
  /\ pc' = [pc EXCEPT ![f] = to]
  /\ UNCHANGED kind

Callback(f, what) == told' = [told EXCEPT ![f] = Append(@, what)]
ExpiresAfter(f) == armed' = [armed EXCEPT ![f] = TRUE]

-----------------------------------------------------------------------------
(* fetch: the checks of the URL. *)
Refuse(f) ==
  /\ kind[f] = "bad"
  /\ Goto(f, "start", "returned")
  /\ Callback(f, "error")
  /\ UNCHANGED armed

(* params: str.substr(npos). *)
ParseThrows(f) ==
  /\ kind[f] = "nopath"
  /\ Goto(f, "start", "thrown")
  /\ UNCHANGED <<armed, told>>

(* checkSSL fails. *)
SniFail(f) ==
  /\ kind[f] = "https"
  /\ Goto(f, "start", "returned")
  /\ Callback(f, "error")
  /\ UNCHANGED armed

Start(f) ==
  /\ kind[f] \in {"http", "https"}
  /\ Goto(f, "start", "resolve")
  /\ UNCHANGED <<armed, told>>

(* Mutant of Resolved: no deadline for the connect. *)
ResolvedForever(f) ==
  /\ Goto(f, "resolve", "connect")
  /\ UNCHANGED <<armed, told>>

Resolved(f) ==
  /\ Goto(f, "resolve", "connect")
  /\ ExpiresAfter(f)
  /\ UNCHANGED told

(* Without SSL the handshake does nothing. *)
Connected(f) ==
  /\ Goto(f, "connect", IF kind[f] = "https" THEN "handshake" ELSE "write")
  /\ ExpiresAfter(f)
  /\ UNCHANGED told

Handshaken(f) ==
  /\ Goto(f, "handshake", "write")
  /\ ExpiresAfter(f)
  /\ UNCHANGED told

Written(f) ==
  /\ Goto(f, "write", "read")
  /\ UNCHANGED <<armed, told>>

(* Mutant of Read: the callback is called once, at the end. *)
ReadQuiet(f) ==
  /\ Goto(f, "read", "shutdown")
  /\ UNCHANGED <<armed, told>>

(* The response: the callback; then the shutdown, with SSL an await. *)
Read(f) ==
  /\ Goto(f, "read", "shutdown")
  /\ Callback(f, "response")
  /\ ExpiresAfter(f)

Shutdown(f) ==
  /\ Goto(f, "shutdown", "returned")
  /\ UNCHANGED <<armed, told>>

(* Mutant of Fail: it goes on. *)
FailGoOn(f) ==
  /\ pc[f] \in Awaits
  /\ Callback(f, "error")
  /\ UNCHANGED <<kind, armed, pc>>

(* fail(m_ec, ...), return: an await, or the shutdown of a plain socket,    *)
(* ends with an error of the network or of the peer.                        *)
Fail(f) ==
  /\ pc[f] \in Awaits
  /\ Goto(f, pc[f], "returned")
  /\ Callback(f, "error")
  /\ UNCHANGED armed

(* The shutdown of a plain socket is no await. *)
Plain(f) == pc[f] = "shutdown" /\ kind[f] = "http"

(* The same with the error of the deadline. *)
Timeout(f) ==
  /\ pc[f] \in Awaits \ {"resolve"}
  /\ ~Plain(f)
  /\ armed[f]
  /\ Goto(f, pc[f], "returned")
  /\ Callback(f, "error")
  /\ UNCHANGED armed

-----------------------------------------------------------------------------
Begin(f) == Refuse(f) \/ ParseThrows(f) \/ SniFail(f) \/ Start(f)

Await(f) ==
  \/ Resolved(f) \/ Connected(f) \/ Handshaken(f)
  \/ Written(f) \/ Read(f) \/ Shutdown(f)
  \/ Fail(f) \/ Timeout(f)

Next == \E f \in Fetches : Begin(f) \/ Await(f)

(* The calling thread runs; the resolver answers in the end; deadlines      *)
(* pass.  Nothing is asked of the peer.                                     *)
Fairness ==
  \A f \in Fetches :
    /\ WF_vars(Begin(f))
    /\ WF_vars((pc[f] = "resolve" \/ Plain(f)) /\ Await(f))
    /\ WF_vars(Timeout(f))
=============================================================================
