------------------------------ MODULE WsAsync ------------------------------
(***************************************************************************)
(* A web socket of the build without coroutines: what becomes of struct    *)
(* HttpServer (ServerAsync.cpp) after run_ws.                              *)
(*                                                                         *)
(* The session lives as long as an operation of its chain is pending or a  *)
(* callback runs.  on_accept_ws makes a wsSubscriber whose closures        *)
(* publisher and close refer to the session and use its m_ws; the handler  *)
(* gets a weak pointer to the wsSubscriber.  The application's threads     *)
(* lock it and call getPublisher or stop while the io thread works on the  *)
(* session: the two share m_ws without a lock, so each use of it is a step.*)
(* The handler sets a deleter and a subscriber that publishes what it got. *)
(* Nothing between these and the function of the io thread catches: what   *)
(* they throw ends the process (pc = "thrown").                            *)
(***************************************************************************)
EXTENDS Integers, FiniteSets

CONSTANT Users  (* threads of the application that use the socket           *)

VARIABLES
  pc,       (* the pending operation or the place in the io callback        *)
  m_ws,     (* the stream is with the "session"; {}: null                   *)
  open,     (* the connection                                               *)
  subRefs,  (* who holds the wsSubscriber: "session" (m_wsSub), users       *)
  upc,      (* upc[u]: where u is in getPublisher or stop                   *)
  deleted,  (* times the deleter ran                                        *)
  bad       (* undefined behaviour: "null" or "freed" used, or "no"         *)

(* The values of pc; those of WsCoro are others.                            *)
Places == {"acceptWs", "arm", "readWs", "got", "subscriber", "subWrite",
           "dropMember", "dropStream", "end", "freed", "thrown"}

vars == <<pc, m_ws, open, subRefs, upc, deleted, bad>>

Init ==
  /\ pc = "acceptWs"
  /\ m_ws = {"session"}
  /\ open = TRUE
  /\ subRefs = {}
  /\ upc = [u \in Users |-> "idle"]
  /\ deleted = 0
  /\ bad = "no"

(* The last operation is over: the session is destroyed with its members.   *)
Freed == pc = "freed"

-----------------------------------------------------------------------------
(* The io thread *)

AcceptError ==
  /\ pc = "acceptWs"
  /\ pc' = "freed"
  /\ m_ws' = {}
  /\ open' = FALSE
  /\ UNCHANGED <<subRefs, upc, deleted, bad>>

(* Mutant of OnAccept: close holds the wsSubscriber it is a member of, as   *)
(* it does in the coroutine build.                                          *)
OnAcceptCycle ==
  /\ pc = "acceptWs"
  /\ subRefs' = {"session", "close"}
  /\ pc' = "arm"
  /\ UNCHANGED <<m_ws, open, upc, deleted, bad>>

(* The wsSubscriber, and the handler, which is given a weak pointer to it.  *)
OnAccept ==
  /\ pc = "acceptWs"
  /\ subRefs' = {"session"}
  /\ pc' = "arm"
  /\ UNCHANGED <<m_ws, open, upc, deleted, bad>>

(* The handler throws, out of on_accept_ws and of the io thread. *)
HandlerThrows ==
  /\ pc = "acceptWs"
  /\ subRefs' = {"session"}
  /\ pc' = "thrown"
  /\ UNCHANGED <<m_ws, open, upc, deleted, bad>>

(* m_ws->... of the io thread, from one place to the next. *)
Use(from, to) ==
  /\ pc = from
  /\ IF m_ws # {} THEN pc' = to /\ UNCHANGED bad ELSE bad' = "null" /\ UNCHANGED pc
  /\ UNCHANGED <<m_ws, open, subRefs, upc, deleted>>

(* do_read_ws, and the last line of on_read_ws. *)
Arm == Use("arm", "readWs")

(* on_read_ws without an error, in front of m_ws->got_text(). *)
OnMessage ==
  /\ pc = "readWs"
  /\ open
  /\ pc' = "got"
  /\ UNCHANGED <<m_ws, open, subRefs, upc, deleted, bad>>

GotText == \E to \in {"subscriber", "arm"} : Use("got", to)

(* The subscriber locks the weak pointer (m_wsSub holds it) and calls the   *)
(* publisher: if (!m_ws) return false.                                      *)
SubCheck ==
  /\ pc = "subscriber"
  /\ pc' = IF m_ws # {} THEN "subWrite" ELSE "arm"
  /\ UNCHANGED <<m_ws, open, subRefs, upc, deleted, bad>>

(* ... m_ws->write(...), which throws when the connection is gone. *)
SubWrite ==
  /\ pc = "subWrite"
  /\ CASE m_ws = {}            -> bad' = "null" /\ UNCHANGED pc
       [] m_ws # {} /\ open    -> pc' = "arm" /\ UNCHANGED bad
       [] m_ws # {} /\ ~open   -> pc' = "thrown" /\ UNCHANGED bad
  /\ UNCHANGED <<m_ws, open, subRefs, upc, deleted>>

(* Mutant of OnReadError: the deleter is called if there is a stream, not   *)
(* if there is a wsSubscriber.                                              *)
OnReadErrorStream ==
  /\ pc = "readWs"
  /\ open' = FALSE
  /\ deleted' = IF m_ws # {} THEN deleted + 1 ELSE deleted
  /\ pc' = "dropMember"
  /\ UNCHANGED <<m_ws, subRefs, upc, bad>>

(* on_read_ws with an error: the deleter, which may throw; m_wsSub.reset(), *)
(* m_ws.reset(), and nothing more is pending.                               *)
OnReadError ==
  /\ pc = "readWs"
  /\ open' = FALSE
  /\ deleted' = deleted + 1
  /\ pc' \in {"dropMember", "thrown"}
  /\ UNCHANGED <<m_ws, subRefs, upc, bad>>

DropSub ==
  /\ pc = "dropMember"
  /\ subRefs' = subRefs \ {"session"}
  /\ pc' = "dropStream"
  /\ UNCHANGED <<m_ws, open, upc, deleted, bad>>

DropWs ==
  /\ pc = "dropStream"
  /\ m_ws' = {}
  /\ pc' = "end"
  /\ UNCHANGED <<open, subRefs, upc, deleted, bad>>

(* Mutant of End: after fail the callback goes on to the next read. *)
EndNot ==
  /\ pc = "end"
  /\ pc' = "readWs"
  /\ UNCHANGED <<m_ws, open, subRefs, upc, deleted, bad>>

(* return: the last reference to the session goes with the callback. *)
End ==
  /\ pc = "end"
  /\ pc' = "freed"
  /\ UNCHANGED <<m_ws, open, subRefs, upc, deleted, bad>>

-----------------------------------------------------------------------------
(* The application's threads *)

Goto(u, from, to) ==
  /\ pc # "thrown"
  /\ upc[u] = from
  /\ upc' = [upc EXCEPT ![u] = to]
  /\ UNCHANGED <<pc, deleted>>

(* func.lock() gives a pointer: getPublisher or stop is called. *)
Lock(u) ==
  /\ \E op \in {"publishCheck", "stopCheck"} : Goto(u, "idle", op)
  /\ pc \in Places
  /\ subRefs # {}
  /\ subRefs' = subRefs \cup {u}
  /\ UNCHANGED <<m_ws, open, bad>>

(* A use of the session behind the closure's reference is undefined. *)
Undefined(u, from, why) ==
  /\ pc # "thrown"
  /\ upc[u] = from
  /\ bad' = why
  /\ UNCHANGED <<pc, deleted, upc>>

Check(u, from, to) ==
  /\ IF Freed
     THEN Undefined(u, from, "freed")
     ELSE Goto(u, from, IF m_ws # {} THEN to ELSE "unlock") /\ UNCHANGED bad
  /\ UNCHANGED <<m_ws, open, subRefs>>

(* publisher: if (!m_ws) return false. *)
PublishCheck(u) == Check(u, "publishCheck", "publishWrite")

(* close: if (m_ws). *)
StopCheck(u) == Check(u, "stopCheck", "stopClose")

(* m_ws->write(...); what it throws ends in the task's thread. *)
PublishWrite(u) ==
  /\ CASE Freed  -> Undefined(u, "publishWrite", "freed")
       [] ~Freed /\ m_ws # {} ->
                     Goto(u, "publishWrite", "unlock") /\ UNCHANGED bad
       [] OTHER  -> Undefined(u, "publishWrite", "null")
  /\ UNCHANGED <<m_ws, open, subRefs>>

(* m_ws->close(...); it throws, past the reset, when the connection is gone.*)
StopClose(u) ==
  /\ CASE Freed  -> Undefined(u, "stopClose", "freed") /\ UNCHANGED open
       [] ~Freed /\ m_ws # {} ->
            /\ Goto(u, "stopClose", IF open THEN "stopReset" ELSE "unlock")
            /\ open' = FALSE
            /\ UNCHANGED bad
       [] OTHER  -> Undefined(u, "stopClose", "null") /\ UNCHANGED open
  /\ UNCHANGED <<m_ws, subRefs>>

(* m_ws.reset() *)
StopReset(u) ==
  /\ IF Freed
     THEN Undefined(u, "stopReset", "freed") /\ UNCHANGED m_ws
     ELSE Goto(u, "stopReset", "unlock") /\ m_ws' = {} /\ UNCHANGED bad
  /\ UNCHANGED <<open, subRefs>>

(* The locked pointer goes; the last one takes the wsSubscriber with it. *)
Unlock(u) ==
  /\ Goto(u, "unlock", "idle")
  /\ pc \in Places
  /\ subRefs' = subRefs \ {u}
  /\ UNCHANGED <<m_ws, open, bad>>

-----------------------------------------------------------------------------
(* The peer closes the connection, or it breaks, or it is idle too long. *)
PeerCloses ==
  /\ open
  /\ open' = FALSE
  /\ UNCHANGED <<pc, m_ws, subRefs, upc, deleted, bad>>

Io ==
  \/ AcceptError \/ OnAccept \/ HandlerThrows \/ Arm
  \/ OnMessage \/ GotText \/ SubCheck \/ SubWrite
  \/ OnReadError \/ DropSub \/ DropWs \/ End

User(u) ==
  \/ Lock(u) \/ Unlock(u)
  \/ PublishCheck(u) \/ PublishWrite(u)
  \/ StopCheck(u) \/ StopClose(u) \/ StopReset(u)

Next == Io \/ PeerCloses \/ \E u \in Users : User(u)
=============================================================================
