--------------------------- MODULE WebClientAsync ---------------------------
(***************************************************************************)
(* The HTTP client of the build without coroutines: Client::fetch          *)
(* (Client.cpp) and the handlers of httpConnect (WebClientAsync.cpp).      *)
(*                                                                         *)
(* pending[f] is the handler of the operation in flight on the io_context  *)
(* of f; the operation's completion runs it, and it begins the next one or *)
(* none.  run() of the io_context, and fetch, return when none is left.    *)
(* Otherwise it is as in WebClient, but the deadline of the connect also   *)
(* has to do for the handshake, a plain socket is shut down inside         *)
(* on_read, and a failure of checkSSL is not told to the callback.         *)
(***************************************************************************)
EXTENDS Sequences

CONSTANT Fetches  (* calls of fetch *)

Kinds == {"http", "https", "bad", "nopath"}
Operations ==
  {"on_resolve", "on_connect", "on_handshake", "on_write", "on_read", "on_shutdown"}

VARIABLES
  kind,     (* kind[f]: the URL of f                                        *)
  pending,  (* pending[f]: in Operations, "run" at first, "none" at the    *)
            (* end, or "threw"                                             *)
  armed,    (* armed[f]: a deadline is set on its stream                    *)
  told      (* told[f]: what its callback was called with, in order         *)

vars == <<kind, pending, armed, told>>

Init ==
  /\ kind \in [Fetches -> Kinds]
  /\ pending = [f \in Fetches |-> "run"]
  /\ armed = [f \in Fetches |-> FALSE]
  /\ told = [f \in Fetches |-> <<>>]

On(f, operation, next) ==
  /\ pending[f] = operation
  /\ pending' = [pending EXCEPT ![f] = next]
  /\ UNCHANGED kind

Callback(f, what) == told' = [told EXCEPT ![f] = @ \o what]
ExpiresAfter(f) == armed' = [armed EXCEPT ![f] = TRUE]

-----------------------------------------------------------------------------
(* fetch: the checks and the parsing of the URL. *)
Refuse(f) ==
  /\ kind[f] = "bad"
  /\ On(f, "run", "none")
  /\ Callback(f, <<"error">>)
  /\ UNCHANGED armed

ParseThrows(f) ==
  /\ kind[f] = "nopath"
  /\ On(f, "run", "threw")
  /\ UNCHANGED <<armed, told>>

(* run: checkSSL fails, and only logs. *)
SniFail(f) ==
  /\ kind[f] = "https"
  /\ On(f, "run", "none")
  /\ UNCHANGED <<armed, told>>

(* run: async_resolve. *)
Start(f) ==
  /\ kind[f] \in {"http", "https"}
  /\ On(f, "run", "on_resolve")
  /\ UNCHANGED <<armed, told>>

-----------------------------------------------------------------------------
(* Mutant of OnResolve: no deadline. *)
OnResolveForever(f) ==
  /\ On(f, "on_resolve", "on_connect")
  /\ UNCHANGED <<armed, told>>

OnResolve(f) ==
  /\ On(f, "on_resolve", "on_connect")
  /\ ExpiresAfter(f)
  /\ UNCHANGED told

(* on_connect, with SSL and without. *)
OnConnectSsl(f) ==
  /\ kind[f] = "https"
  /\ On(f, "on_connect", "on_handshake")
  /\ UNCHANGED <<armed, told>>

OnConnect(f) ==
  /\ kind[f] = "http"
  /\ On(f, "on_connect", "on_write")
  /\ ExpiresAfter(f)
  /\ UNCHANGED told

OnHandshake(f) ==
  /\ On(f, "on_handshake", "on_write")
  /\ ExpiresAfter(f)
  /\ UNCHANGED told

OnWrite(f) ==
  /\ On(f, "on_write", "on_read")
  /\ UNCHANGED <<armed, told>>

(* on_read: the callback, and the shutdown: with SSL an operation, else at  *)
(* once, with on_shutdown after it.                                         *)
OnReadSsl(f) ==
  /\ kind[f] = "https"
  /\ On(f, "on_read", "on_shutdown")
  /\ Callback(f, <<"response">>)
  /\ ExpiresAfter(f)

OnRead(f) ==
  /\ kind[f] = "http"
  /\ On(f, "on_read", "none")
  /\ Callback(f, <<"response">>) \/ Callback(f, <<"response", "error">>)
  /\ UNCHANGED armed

OnShutdown(f) ==
  /\ On(f, "on_shutdown", "none")
  /\ UNCHANGED <<armed, told>>

(* Mutant of Fail: no return after it. *)
FailGoOn(f) ==
  /\ pending[f] \in Operations
  /\ Callback(f, <<"error">>)
  /\ UNCHANGED <<kind, armed, pending>>

(* Mutant of Fail: the handler only returns. *)
FailSilent(f) ==
  /\ pending[f] \in Operations
  /\ On(f, pending[f], "none")
  /\ UNCHANGED <<armed, told>>

(* A handler is called with an error: fail, and no further operation. *)
Fail(f) ==
  /\ pending[f] \in Operations
  /\ On(f, pending[f], "none")
  /\ Callback(f, <<"error">>)
  /\ UNCHANGED armed

(* The same with the error of the deadline. *)
Timeout(f) ==
  /\ pending[f] \in Operations \ {"on_resolve"}
  /\ armed[f]
  /\ On(f, pending[f], "none")
  /\ Callback(f, <<"error">>)
  /\ UNCHANGED armed

-----------------------------------------------------------------------------
Run(f) == Refuse(f) \/ ParseThrows(f) \/ SniFail(f) \/ Start(f)
Handler(f) ==
  \/ OnResolve(f) \/ OnConnectSsl(f) \/ OnConnect(f) \/ OnHandshake(f)
  \/ OnWrite(f) \/ OnReadSsl(f) \/ OnRead(f) \/ OnShutdown(f)
  \/ Fail(f) \/ Timeout(f)

Next == \E f \in Fetches : Run(f) \/ Handler(f)

(* As in WebClient: the caller, the resolver and the clock, not the peer. *)
Fairness ==
  \A f \in Fetches :
    /\ WF_vars(Run(f))
    /\ WF_vars(pending[f] = "on_resolve" /\ Handler(f))
    /\ WF_vars(Timeout(f))
=============================================================================
