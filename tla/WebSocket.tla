----------------------------- MODULE WebSocket -----------------------------
(***************************************************************************)
(* A web socket of the server and the threads of the application that use  *)
(* it, in whichever build: the coroutine goes on as module WsCoro says,    *)
(* the callbacks as WsAsync does.  The initial state chooses the build;    *)
(* the two name the places of their programs differently, so that only     *)
(* the actions of one of them are ever enabled.                            *)
(***************************************************************************)
EXTENDS Integers, FiniteSets

CONSTANT Users  (* threads of the application that use the socket           *)

ASSUME WebSocketAssumption ==
  Users \cap {"session", "close"} = {}   \* the other holders in subRefs

VARIABLES pc, ws, open, subRefs, upc, deleted, bad

vars == <<pc, ws, open, subRefs, upc, deleted, bad>>

Coro  == INSTANCE WsCoro
Async == INSTANCE WsAsync WITH m_ws <- ws

Init == Coro!Init \/ Async!Init
Next == Coro!Next \/ Async!Next
Spec == Init /\ [][Next]_vars

(* A thread of the pool runs what its context has for the session: the read *)
(* of a connection that is closed completes.  The peer need not send or     *)
(* close, and the application's threads need not call, or go on.            *)
FairSpec == Spec /\ WF_vars(Coro!Session) /\ WF_vars(Async!Io)

-----------------------------------------------------------------------------
(* Properties *)

TypeOK ==
  /\ pc \in Coro!Places \cup Async!Places
  /\ ws \in SUBSET {"session", "publisher", "close"}
  /\ open \in BOOLEAN
  /\ subRefs \in SUBSET ({"session", "close"} \cup Users)
  /\ upc \in [Users -> {"idle", "unlock", "publish", "stop", "close", "reset",
                        "publishCheck", "publishWrite", "stopCheck", "stopClose",
                        "stopReset"}]
  /\ deleted \in 0 .. 1
  /\ bad \in {"no", "null", "freed"}

(* In the coroutine build whoever is in a closure finds the stream that it  *)
(* works on alive, however the session has ended in the meantime.           *)
ClosureHasStream ==
  \A u \in Users : upc[u] \in {"publish", "close", "reset"} => ws # {}

(* The deleter is the last the application hears of the socket, and it      *)
(* hears it once, whoever closes the connection and whatever its own        *)
(* threads are doing in stop or getPublisher: no text is read and no        *)
(* subscriber runs after it.                                                *)
DeleterLast ==
  deleted = 1 =>
    pc \in {"drop", "dropWs", "unwind", "over"}
           \cup {"dropMember", "dropStream", "end", "freed", "thrown"}

(* What ends a session without its deleter: the handler or the subscriber   *)
(* throws, as one that publishes on a closed connection does, or a stream   *)
(* or a session is used that is no more.                                    *)
Broken == pc \in {"unwind", "thrown"} \/ bad # "no"

(* The application is told of the end of the socket: once the connection    *)
(* is closed, by the peer or by a stop that any thread may be in the middle *)
(* of, having reset the session's stream or not, the deleter runs, wherever *)
(* the session was.                                                         *)
EndTold ==
  ~open /\ pc \notin {"accept", "acceptWs", "over", "freed"}
    ~> deleted = 1 \/ Broken

AllIdle == \A u \in Users : upc[u] = "idle"

(* In the build without coroutines the wsSubscriber is destroyed when the   *)
(* session is gone and no thread of the application is in a call: weak      *)
(* pointers to it lock no more, and its users can see that the socket is    *)
(* gone.                                                                    *)
ReleasedByMember == pc = "freed" /\ AllIdle => subRefs = {}

(* The same of either build. *)
Released == pc \in {"over", "freed"} /\ AllIdle => subRefs = {}
=============================================================================
