------------------------------- MODULE WsCoro -------------------------------
(***************************************************************************)
(* A web socket of the coroutine build: what HttpServer::session           *)
(* (ServerCoro.cpp) does after the upgrade.                                *)
(*                                                                         *)
(* The stream and the wsSubscriber are locals of the coroutine.  The       *)
(* closures of the wsSubscriber hold copies: publisher one of the stream,  *)
(* close one of the stream, which it resets, and one of the wsSubscriber   *)
(* itself.  The handler gets a weak pointer, which the application's       *)
(* threads lock to call getPublisher or stop while the session reads.      *)
(* What the application or the stream throws in the coroutine is caught at *)
(* the end of the try block: an answer, and return.                        *)
(***************************************************************************)
EXTENDS Integers, FiniteSets

CONSTANT Users  (* threads of the application that use the socket           *)

VARIABLES
  pc,       (* where the coroutine is                                       *)
  ws,       (* who has a copy of the stream's pointer: "session",           *)
            (* "publisher", and "close" until its reset                     *)
  open,     (* the connection                                               *)
  subRefs,  (* who holds the wsSubscriber: "session", "close", users        *)
  upc,      (* upc[u]: where u is in getPublisher or stop                   *)
  deleted,  (* times the deleter ran                                        *)
  bad       (* undefined behaviour: "null", a null stream was used, or "no" *)

vars == <<pc, ws, open, subRefs, upc, deleted, bad>>

(* The values of pc; those of WsAsync are others.                           *)
Places == {"accept", "handler", "read", "sub", "drop", "dropWs", "unwind", "over"}

Init ==
  /\ pc = "accept"
  /\ ws = {"session"}
  /\ open = TRUE
  /\ subRefs = {"session"}
  /\ upc = [u \in Users |-> "idle"]
  /\ deleted = 0
  /\ bad = "no"

(* A reference to the wsSubscriber goes; with the last one go its closures  *)
(* and their copies of the stream's pointer.                                *)
Release(holder) ==
  /\ subRefs' = subRefs \ {holder}
  /\ ws' = IF subRefs' = {} THEN ws \ {"publisher", "close"} ELSE ws

-----------------------------------------------------------------------------
(* The coroutine *)

(* async_accept(req, yield) throws: the locals go, and the catch clause      *)
(* answers into the socket the stream has been moved out of.                *)
AcceptError ==
  /\ pc = "accept"
  /\ pc' = "over"
  /\ ws' = {}
  /\ open' = FALSE
  /\ subRefs' = {}
  /\ UNCHANGED <<upc, deleted, bad>>

(* Mutant of OnAccept: the closures refer to the stream of the session, as  *)
(* they do in the build without coroutines.                                 *)
OnAcceptRef ==
  /\ pc = "accept"
  /\ pc' = "handler"
  /\ UNCHANGED <<ws, open, subRefs, upc, deleted, bad>>

(* The closures are set. *)
OnAccept ==
  /\ pc = "accept"
  /\ ws' = ws \cup {"publisher", "close"}
  /\ subRefs' = subRefs \cup {"close"}
  /\ pc' = "handler"
  /\ UNCHANGED <<open, upc, deleted, bad>>

(* The call of func, which may throw. *)
Handler ==
  /\ pc = "handler"
  /\ pc' \in {"read", "unwind"}
  /\ UNCHANGED <<ws, open, subRefs, upc, deleted, bad>>

(* A message.  A text goes to the subscriber, anything else is dropped. *)
OnMessage ==
  /\ pc = "read"
  /\ open
  /\ pc' \in {"sub", "read"}
  /\ UNCHANGED <<ws, open, subRefs, upc, deleted, bad>>

(* The subscriber, which is given the text and publishes it,                *)
(* or throws (and the write throws when the connection is gone).            *)
SubWrite ==
  /\ pc = "sub"
  /\ pc' \in IF open THEN {"read", "unwind"} ELSE {"unwind"}
  /\ UNCHANGED <<ws, open, subRefs, upc, deleted, bad>>

(* An error, closed among them: the deleter, which may throw. *)
OnReadError ==
  /\ pc = "read"
  /\ open' = FALSE
  /\ deleted' = deleted + 1
  /\ pc' \in {"drop", "unwind"}
  /\ UNCHANGED <<ws, subRefs, upc, bad>>

(* wsSub.reset() *)
DropSub ==
  /\ pc = "drop"
  /\ Release("session")
  /\ pc' = "dropWs"
  /\ UNCHANGED <<open, upc, deleted, bad>>

(* Mutant of DropWs: no return after it. *)
DropWsGoOn ==
  /\ pc = "dropWs"
  /\ ws' = ws \ {"session"}
  /\ pc' = "read"
  /\ UNCHANGED <<open, subRefs, upc, deleted, bad>>

(* ws.reset(), return. *)
DropWs ==
  /\ pc = "dropWs"
  /\ ws' = ws \ {"session"}
  /\ pc' = "over"
  /\ UNCHANGED <<open, subRefs, upc, deleted, bad>>

(* The locals go with the try block; the answer is written to the socket    *)
(* the stream has been moved out of, and the session returns.               *)
Unwind ==
  /\ pc = "unwind"
  /\ subRefs' = subRefs \ {"session"}
  /\ ws' = IF subRefs' = {} THEN {} ELSE ws \ {"session"}
  /\ pc' = "over"
  /\ UNCHANGED <<open, upc, deleted, bad>>

-----------------------------------------------------------------------------
(* The application's threads *)

Goto(u, from, to) ==
  /\ upc[u] = from
  /\ upc' = [upc EXCEPT ![u] = to]
  /\ UNCHANGED <<pc, deleted>>

(* func.lock() gives a pointer: the handler has handed the weak one out. *)
Lock(u) ==
  /\ \E op \in {"publish", "stop"} : Goto(u, "idle", op)
  /\ pc \in Places \ {"accept"}
  /\ subRefs # {} /\ subRefs' = subRefs \cup {u}
  /\ UNCHANGED <<ws, open, bad>>

(* publisher: its own ws is never null; ws->write(...) may throw. *)
PublishWrite(u) ==
  /\ Goto(u, "publish", "unlock")
  /\ UNCHANGED <<ws, open, subRefs, bad>>

(* Mutant of StopCheck: no check of ws. *)
StopNoCheck(u) ==
  /\ Goto(u, "stop", "close")
  /\ UNCHANGED <<ws, open, subRefs, bad>>

(* close: if (ws). *)
StopCheck(u) ==
  /\ Goto(u, "stop", IF "close" \in ws THEN "close" ELSE "unlock")
  /\ UNCHANGED <<ws, open, subRefs, bad>>

(* ws->close(...); it throws, past the reset, when the connection is gone.  *)
(* A second thread may have reset ws since the check.                       *)
StopClose(u) ==
  /\ IF "close" \in ws
     THEN /\ Goto(u, "close", IF open THEN "reset" ELSE "unlock")
          /\ open' = FALSE
          /\ UNCHANGED bad
     ELSE /\ upc[u] = "close"
          /\ bad' = "null"
          /\ UNCHANGED <<pc, deleted, upc, open>>
  /\ UNCHANGED <<ws, subRefs>>

(* ws.reset(); the wsSubscriber that close holds stays. *)
StopReset(u) ==
  /\ Goto(u, "reset", "unlock")
  /\ ws' = ws \ {"close"}
  /\ UNCHANGED <<open, subRefs, bad>>

Unlock(u) ==
  /\ Goto(u, "unlock", "idle")
  /\ pc \in Places
  /\ Release(u)
  /\ UNCHANGED <<open, bad>>

-----------------------------------------------------------------------------
(* The peer closes the connection, or it breaks, or it is idle too long. *)
PeerCloses ==
  /\ open
  /\ open' = FALSE
  /\ UNCHANGED <<pc, ws, subRefs, upc, deleted, bad>>

Session ==
  \/ AcceptError \/ OnAccept \/ Handler
  \/ OnMessage \/ SubWrite
  \/ OnReadError \/ DropSub \/ DropWs \/ Unwind

User(u) ==
  \/ Lock(u) \/ Unlock(u)
  \/ PublishWrite(u)
  \/ StopCheck(u) \/ StopClose(u) \/ StopReset(u)

Next == Session \/ PeerCloses \/ \E u \in Users : User(u)
=============================================================================
