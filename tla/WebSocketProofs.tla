-------------------------- MODULE WebSocketProofs --------------------------
(***************************************************************************)
(* Theorems about WebSocket, in either build and for any set of threads of *)
(* the application: whoever stops, publishes or ends the session, and in   *)
(* whatever order.                                                         *)
(***************************************************************************)
EXTENDS WebSocket, TLAPS

-----------------------------------------------------------------------------
(* Types, and the two builds kept apart *)

CoroCalls  == {"publish", "stop", "close", "reset"}
AsyncCalls == {"publishCheck", "publishWrite", "stopCheck", "stopClose",
               "stopReset"}

(* The threads are in the calls of the build whose session there is: no     *)
(* other action of theirs is ever enabled.                                  *)
Apart ==
  \A u \in Users :
    /\ upc[u] \in CoroCalls => pc \in Coro!Places
    /\ upc[u] \in AsyncCalls => pc \in Async!Places

(* While its session goes on the deleter has not run: what DeleterLast says *)
(* of the places after it, and what keeps deleted at one.                   *)
Base == TypeOK /\ Apart /\ DeleterLast

(* A session begins with nothing of it used. *)
LEMMA BaseInit == Init => Base
<1> SUFFICES ASSUME Init PROVE Base
  OBVIOUS
<1>1. /\ pc \in {"accept", "acceptWs"} /\ ws = {"session"} /\ open = TRUE
      /\ subRefs \in {{}, {"session"}} /\ upc = [u \in Users |-> "idle"]
      /\ deleted = 0 /\ bad = "no"
  BY DEF Init, Coro!Init, Async!Init
<1>2. QED
  BY <1>1, WebSocketAssumption
     DEF Base, TypeOK, Apart, DeleterLast, CoroCalls, AsyncCalls,
         Coro!Places, Async!Places

(* The coroutine, and the threads of the application beside it. *)
LEMMA BaseCoro == ASSUME Base, Coro!Next PROVE Base'
<1> USE WebSocketAssumption
    DEF Base, TypeOK, Apart, DeleterLast, CoroCalls, AsyncCalls,
        Coro!Places, Async!Places
<1>1. CASE Coro!AcceptError
  BY <1>1 DEF Coro!AcceptError, Coro!Release
<1>2. CASE Coro!OnAccept
  BY <1>2 DEF Coro!OnAccept, Coro!Release
<1>3. CASE Coro!Handler
  BY <1>3 DEF Coro!Handler, Coro!Release
<1>4. CASE Coro!OnMessage
  BY <1>4 DEF Coro!OnMessage, Coro!Release
<1>5. CASE Coro!SubWrite
  BY <1>5 DEF Coro!SubWrite, Coro!Release
<1>6. CASE Coro!OnReadError
  <2>1. deleted' = 1
    BY <1>6 DEF Coro!OnReadError
  <2>2. open' \in BOOLEAN
    BY <1>6 DEF Coro!OnReadError
  <2>3. TypeOK'
    BY <1>6, <2>1, <2>2 DEF Coro!OnReadError
  <2>4. Apart'
    BY <1>6 DEF Coro!OnReadError
  <2>5. DeleterLast'
    BY <1>6 DEF Coro!OnReadError
  <2>6. QED
    BY <2>3, <2>4, <2>5
<1>7. CASE Coro!DropSub
  BY <1>7 DEF Coro!DropSub, Coro!Release
<1>8. CASE Coro!DropWs
  BY <1>8 DEF Coro!DropWs, Coro!Release
<1>9. CASE Coro!Unwind
  BY <1>9 DEF Coro!Unwind, Coro!Release
<1>10. CASE Coro!PeerCloses
  BY <1>10 DEF Coro!PeerCloses, Coro!Release
<1>11. ASSUME NEW u \in Users, Coro!Lock(u) PROVE Base'
  <2>1. PICK op \in {"publish", "stop"} : upc' = [upc EXCEPT ![u] = op]
    BY <1>11 DEF Coro!Lock, Coro!Goto
  <2>2. TypeOK'
    BY <1>11, <2>1 DEF Coro!Lock, Coro!Goto
  <2>3. Apart'
    BY <1>11, <2>1 DEF Coro!Lock, Coro!Goto
  <2>4. DeleterLast'
    BY <1>11, <2>1 DEF Coro!Lock, Coro!Goto
  <2>5. QED
    BY <2>2, <2>3, <2>4
<1>12. ASSUME NEW u \in Users, Coro!Unlock(u) PROVE Base'
  <2>1. ws' \in SUBSET {"session", "publisher", "close"}
    BY <1>12 DEF Coro!Unlock, Coro!Release
  <2>2. TypeOK'
    BY <1>12, <2>1 DEF Coro!Unlock, Coro!Goto, Coro!Release
  <2>3. Apart'
    BY <1>12, <2>1 DEF Coro!Unlock, Coro!Goto, Coro!Release
  <2>4. DeleterLast'
    BY <1>12, <2>1 DEF Coro!Unlock, Coro!Goto, Coro!Release
  <2>5. QED
    BY <2>2, <2>3, <2>4
<1>13. ASSUME NEW u \in Users, Coro!PublishWrite(u) PROVE Base'
  BY <1>13 DEF Coro!PublishWrite, Coro!Goto, Coro!Release
<1>14. ASSUME NEW u \in Users, Coro!StopCheck(u) PROVE Base'
  BY <1>14 DEF Coro!StopCheck, Coro!Goto, Coro!Release
<1>15. ASSUME NEW u \in Users, Coro!StopClose(u) PROVE Base'
  <2>1. CASE "close" \in ws
    <3>1. PICK to \in {"reset", "unlock"} : upc' = [upc EXCEPT ![u] = to]
      BY <1>15, <2>1 DEF Coro!StopClose, Coro!Goto
    <3>2. TypeOK'
      BY <1>15, <2>1, <3>1 DEF Coro!StopClose, Coro!Goto
    <3>3. Apart'
      BY <1>15, <2>1, <3>1 DEF Coro!StopClose, Coro!Goto
    <3>4. DeleterLast'
      BY <1>15, <2>1 DEF Coro!StopClose, Coro!Goto
    <3>5. QED
      BY <3>2, <3>3, <3>4
  <2>2. CASE "close" \notin ws
    BY <1>15, <2>2 DEF Coro!StopClose
  <2>3. QED
    BY <2>1, <2>2
<1>16. ASSUME NEW u \in Users, Coro!StopReset(u) PROVE Base'
  BY <1>16 DEF Coro!StopReset, Coro!Goto, Coro!Release
<1>20. QED
  BY <1>1, <1>2, <1>3, <1>4, <1>5, <1>6, <1>7, <1>8, <1>9, <1>10, <1>11,
     <1>12, <1>13, <1>14, <1>15, <1>16 DEF Coro!Next, Coro!Session, Coro!User

(* A call of a thread: from one place of the build to another.              *)
LEMMA BaseCall ==
  ASSUME Base, NEW u \in Users, NEW to \in {"idle", "unlock"} \cup AsyncCalls,
         upc' = [upc EXCEPT ![u] = to],
         to \in AsyncCalls => upc[u] \in AsyncCalls,
         UNCHANGED <<pc, subRefs, deleted>>,
         ws' \subseteq ws, open' \in BOOLEAN,
         bad' \in {"no", "null", "freed"}
  PROVE  Base'
<1>1. TypeOK'
  BY DEF Base, TypeOK, AsyncCalls
<1>2. \A v \in Users : upc'[v] = upc[v] \/ (v = u /\ upc'[v] = to)
  BY DEF Base, TypeOK
<1>3. Apart'
  BY <1>2 DEF Base, Apart, CoroCalls, AsyncCalls
<1>4. DeleterLast'
  BY DEF Base, DeleterLast
<1>5. QED
  BY <1>1, <1>3, <1>4 DEF Base

(* The callbacks of the build without coroutines, and the threads beside    *)
(* them.                                                                    *)
LEMMA BaseAsync == ASSUME Base, Async!Next PROVE Base'
<1> USE WebSocketAssumption
    DEF Base, TypeOK, Apart, DeleterLast, CoroCalls, AsyncCalls,
        Coro!Places, Async!Places
<1>1. CASE Async!AcceptError
  BY <1>1 DEF Async!AcceptError
<1>2. CASE Async!OnAccept
  BY <1>2 DEF Async!OnAccept
<1>3. CASE Async!HandlerThrows
  BY <1>3 DEF Async!HandlerThrows
<1>4. CASE Async!Arm
  BY <1>4 DEF Async!Arm, Async!Use
<1>5. CASE Async!OnMessage
  BY <1>5 DEF Async!OnMessage
<1>6. CASE Async!GotText
  BY <1>6 DEF Async!GotText, Async!Use
<1>7. CASE Async!SubCheck
  BY <1>7 DEF Async!SubCheck
<1>8. CASE Async!SubWrite
  BY <1>8 DEF Async!SubWrite
<1>9. CASE Async!OnReadError
  <2>1. deleted' = 1
    BY <1>9 DEF Async!OnReadError
  <2>2. open' \in BOOLEAN
    BY <1>9 DEF Async!OnReadError
  <2>3. TypeOK'
    BY <1>9, <2>1, <2>2 DEF Async!OnReadError
  <2>4. Apart'
    BY <1>9 DEF Async!OnReadError
  <2>5. DeleterLast'
    BY <1>9 DEF Async!OnReadError
  <2>6. QED
    BY <2>3, <2>4, <2>5
<1>10. CASE Async!DropSub
  BY <1>10 DEF Async!DropSub
<1>11. CASE Async!DropWs
  BY <1>11 DEF Async!DropWs
<1>12. CASE Async!End
  BY <1>12 DEF Async!End
<1>13. CASE Async!PeerCloses
  BY <1>13 DEF Async!PeerCloses
<1>14. ASSUME NEW u \in Users, Async!Lock(u) PROVE Base'
  <2>1. PICK op \in {"publishCheck", "stopCheck"} :
           upc' = [upc EXCEPT ![u] = op]
    BY <1>14 DEF Async!Lock, Async!Goto
  <2>2. TypeOK'
    BY <1>14, <2>1 DEF Async!Lock, Async!Goto
  <2>3. Apart'
    BY <1>14, <2>1 DEF Async!Lock, Async!Goto
  <2>4. DeleterLast'
    BY <1>14, <2>1 DEF Async!Lock, Async!Goto
  <2>5. QED
    BY <2>2, <2>3, <2>4
<1>15. ASSUME NEW u \in Users, Async!Unlock(u) PROVE Base'
  BY <1>15 DEF Async!Unlock, Async!Goto, Async!Undefined, Async!Freed
<1>16. ASSUME NEW u \in Users, Async!PublishCheck(u) PROVE Base'
  BY <1>16 DEF Async!PublishCheck, Async!Goto, Async!Undefined, Async!Freed,
     Async!Check
<1>17. ASSUME NEW u \in Users, Async!PublishWrite(u) PROVE Base'
  BY <1>17 DEF Async!PublishWrite, Async!Goto, Async!Undefined, Async!Freed
<1>18. ASSUME NEW u \in Users, Async!StopCheck(u) PROVE Base'
  BY <1>18 DEF Async!StopCheck, Async!Goto, Async!Undefined, Async!Freed,
     Async!Check
<1>19. ASSUME NEW u \in Users, Async!StopClose(u) PROVE Base'
  <2>1. PICK to \in {"stopClose", "stopReset", "unlock"} :
           upc' = [upc EXCEPT ![u] = to]
    BY <1>19 DEF Async!StopClose, Async!Goto, Async!Undefined
  <2>2. /\ upc[u] = "stopClose" /\ UNCHANGED <<pc, subRefs, deleted>>
        /\ ws' \subseteq ws /\ open' \in BOOLEAN
        /\ bad' \in {"no", "null", "freed"}
    BY <1>19 DEF Async!StopClose, Async!Goto, Async!Undefined, Async!Freed
  <2>3. QED
    BY <2>1, <2>2, BaseCall
<1>20. ASSUME NEW u \in Users, Async!StopReset(u) PROVE Base'
  <2>1. PICK to \in {"stopReset", "unlock"} :
           upc' = [upc EXCEPT ![u] = to]
    BY <1>20 DEF Async!StopReset, Async!Goto, Async!Undefined
  <2>2. /\ upc[u] = "stopReset" /\ UNCHANGED <<pc, subRefs, deleted>>
        /\ ws' \subseteq ws /\ open' \in BOOLEAN
        /\ bad' \in {"no", "null", "freed"}
    BY <1>20 DEF Async!StopReset, Async!Goto, Async!Undefined, Async!Freed
  <2>3. QED
    BY <2>1, <2>2, BaseCall
<1>21. QED
  BY <1>1, <1>2, <1>3, <1>4, <1>5, <1>6, <1>7, <1>8, <1>9, <1>10, <1>11,
     <1>12, <1>13, <1>14, <1>15, <1>16, <1>17, <1>18, <1>19, <1>20
     DEF Async!Next, Async!Io, Async!User

(* What holds at first holds on. *)
LEMMA BaseStep == ASSUME Base, [Next]_vars PROVE Base'
<1>1. CASE Next
  BY <1>1, BaseCoro, BaseAsync DEF Next
<1>2. CASE UNCHANGED vars
  BY <1>2 DEF vars, Base, TypeOK, Apart, DeleterLast
<1>3. QED
  BY <1>1, <1>2

(* Types. *)
THEOREM TypeCorrect == Spec => []TypeOK
<1>1. Base => TypeOK
  BY DEF Base
<1>2. QED
  BY BaseInit, BaseStep, <1>1, PTL DEF Spec

(* The deleter is the last the application hears of the socket, in either   *)
(* build and with any number of threads in stop and getPublisher.           *)
THEOREM DeleterLastHolds == Spec => []DeleterLast
<1>1. Base => DeleterLast
  BY DEF Base
<1>2. QED
  BY BaseInit, BaseStep, <1>1, PTL DEF Spec

-----------------------------------------------------------------------------
(* Who holds the wsSubscriber, and what it holds *)

(* A thread of the application holds it while it is in a call. *)
UsersHold == \A u \in Users : u \in subRefs <=> upc[u] # "idle"

(* In the coroutine build its closures, and with them the copy of the       *)
(* stream that publisher has, are there as long as anyone holds it.         *)
CoroHolds ==
  /\ pc = "accept" => ws = {"session"} /\ subRefs = {"session"}
  /\ pc \in Coro!Places \ {"accept"} /\ subRefs # {} => "publisher" \in ws

(* In the other build only the session and the threads hold it, and the     *)
(* session until on_read_ws has dropped its member.                         *)
AsyncHolds ==
  pc \in Async!Places =>
    /\ "close" \notin subRefs
    /\ pc = "acceptWs" => subRefs = {}
    /\ pc \in {"dropStream", "end", "freed"} => "session" \notin subRefs

Inv == Base /\ UsersHold /\ CoroHolds /\ AsyncHolds

(* Before the closures are set the session is alone with the stream. *)
LEMMA InvInit == Init => Inv
<1> SUFFICES ASSUME Init PROVE Inv
  OBVIOUS
<1>1. \/ pc = "accept" /\ subRefs = {"session"}
      \/ pc = "acceptWs" /\ subRefs = {}
  BY DEF Init, Coro!Init, Async!Init
<1>2. ws = {"session"} /\ upc = [u \in Users |-> "idle"]
  BY DEF Init, Coro!Init, Async!Init
<1>3. QED
  BY <1>1, <1>2, BaseInit, WebSocketAssumption
     DEF Inv, UsersHold, CoroHolds, AsyncHolds, Coro!Places,
         Async!Places

(* The coroutine build: what drops the wsSubscriber drops its closures. *)
LEMMA CoroHoldsStep ==
  ASSUME Base, UsersHold, CoroHolds, Coro!Next
      PROVE  UsersHold' /\ CoroHolds'
<1> USE WebSocketAssumption DEF Base, TypeOK, Apart, CoroCalls, AsyncCalls,
    UsersHold, CoroHolds, Coro!Places, Async!Places
<1>1. CASE Coro!AcceptError
  BY <1>1 DEF Coro!AcceptError
<1>2. CASE Coro!OnAccept
  BY <1>2 DEF Coro!OnAccept
<1>3. CASE Coro!Handler
  BY <1>3 DEF Coro!Handler
<1>4. CASE Coro!OnMessage
  BY <1>4 DEF Coro!OnMessage
<1>5. CASE Coro!SubWrite
  BY <1>5 DEF Coro!SubWrite
<1>6. CASE Coro!OnReadError
  BY <1>6 DEF Coro!OnReadError
<1>7. CASE Coro!DropSub
  BY <1>7 DEF Coro!DropSub, Coro!Release
<1>8. CASE Coro!DropWs
  BY <1>8 DEF Coro!DropWs
<1>9. CASE Coro!Unwind
  BY <1>9 DEF Coro!Unwind
<1>10. CASE Coro!PeerCloses
  BY <1>10 DEF Coro!PeerCloses
<1>11. ASSUME NEW u \in Users, Coro!Lock(u)
      PROVE  UsersHold' /\ CoroHolds'
  BY <1>11 DEF Coro!Lock, Coro!Goto
<1>12. ASSUME NEW u \in Users, Coro!Unlock(u)
      PROVE  UsersHold' /\ CoroHolds'
  BY <1>12 DEF Coro!Unlock, Coro!Goto, Coro!Release
<1>13. ASSUME NEW u \in Users, Coro!PublishWrite(u)
      PROVE  UsersHold' /\ CoroHolds'
  BY <1>13 DEF Coro!PublishWrite, Coro!Goto
<1>14. ASSUME NEW u \in Users, Coro!StopCheck(u)
      PROVE  UsersHold' /\ CoroHolds'
  BY <1>14 DEF Coro!StopCheck, Coro!Goto
<1>15. ASSUME NEW u \in Users, Coro!StopClose(u)
      PROVE  UsersHold' /\ CoroHolds'
  BY <1>15 DEF Coro!StopClose, Coro!Goto
<1>16. ASSUME NEW u \in Users, Coro!StopReset(u)
      PROVE  UsersHold' /\ CoroHolds'
  BY <1>16 DEF Coro!StopReset, Coro!Goto
<1>17. QED
  BY <1>1, <1>2, <1>3, <1>4, <1>5, <1>6, <1>7, <1>8, <1>9, <1>10, <1>11,
     <1>12, <1>13, <1>14, <1>15, <1>16
     DEF Coro!Next, Coro!Session, Coro!User

(* The other build: the member goes before the session. *)
LEMMA AsyncHoldsStep ==
  ASSUME Base, UsersHold, AsyncHolds, Async!Next
      PROVE  UsersHold' /\ AsyncHolds'
<1> USE WebSocketAssumption DEF Base, TypeOK, Apart, CoroCalls, AsyncCalls,
    UsersHold, AsyncHolds, Coro!Places, Async!Places
<1>1. CASE Async!AcceptError
  BY <1>1 DEF Async!AcceptError
<1>2. CASE Async!OnAccept
  BY <1>2 DEF Async!OnAccept
<1>3. CASE Async!HandlerThrows
  BY <1>3 DEF Async!HandlerThrows
<1>4. CASE Async!Arm
  BY <1>4 DEF Async!Arm, Async!Use
<1>5. CASE Async!OnMessage
  BY <1>5 DEF Async!OnMessage
<1>6. CASE Async!GotText
  BY <1>6 DEF Async!GotText, Async!Use
<1>7. CASE Async!SubCheck
  BY <1>7 DEF Async!SubCheck
<1>8. CASE Async!SubWrite
  BY <1>8 DEF Async!SubWrite
<1>9. CASE Async!OnReadError
  BY <1>9 DEF Async!OnReadError
<1>10. CASE Async!DropSub
  BY <1>10 DEF Async!DropSub
<1>11. CASE Async!DropWs
  BY <1>11 DEF Async!DropWs
<1>12. CASE Async!End
  BY <1>12 DEF Async!End
<1>13. CASE Async!PeerCloses
  BY <1>13 DEF Async!PeerCloses
<1>14. ASSUME NEW u \in Users, Async!Lock(u)
      PROVE  UsersHold' /\ AsyncHolds'
  <2>1. PICK op \in {"publishCheck", "stopCheck"} :
           upc' = [upc EXCEPT ![u] = op]
    BY <1>14 DEF Async!Lock, Async!Goto
  <2>2. /\ subRefs # {} /\ subRefs' = subRefs \cup {u} /\ upc[u] = "idle"
        /\ UNCHANGED <<pc, bad>>
    BY <1>14 DEF Async!Lock, Async!Goto
  <2>3. UsersHold'
    BY <2>1, <2>2
  <2>4. AsyncHolds'
    BY <2>2
  <2>5. QED
    BY <2>3, <2>4
<1>15. ASSUME NEW u \in Users, Async!Unlock(u)
      PROVE  UsersHold' /\ AsyncHolds'
  <2>1. /\ upc' = [upc EXCEPT ![u] = "idle"] /\ subRefs' = subRefs \ {u}
        /\ pc' = pc
    BY <1>15 DEF Async!Unlock, Async!Goto
  <2>2. UsersHold'
    BY <2>1
  <2>3. AsyncHolds'
    BY <2>1
  <2>4. QED
    BY <2>2, <2>3
<1>16. ASSUME NEW u \in Users, Async!PublishCheck(u)
      PROVE  UsersHold' /\ AsyncHolds'
  BY <1>16 DEF Async!PublishCheck, Async!Goto, Async!Check, Async!Undefined,
     Async!Freed
<1>17. ASSUME NEW u \in Users, Async!PublishWrite(u)
      PROVE  UsersHold' /\ AsyncHolds'
  BY <1>17 DEF Async!PublishWrite, Async!Goto, Async!Undefined, Async!Freed
<1>18. ASSUME NEW u \in Users, Async!StopCheck(u)
      PROVE  UsersHold' /\ AsyncHolds'
  BY <1>18 DEF Async!StopCheck, Async!Goto, Async!Check, Async!Undefined,
     Async!Freed
<1>19. ASSUME NEW u \in Users, Async!StopClose(u)
      PROVE  UsersHold' /\ AsyncHolds'
  BY <1>19 DEF Async!StopClose, Async!Goto, Async!Undefined, Async!Freed
<1>20. ASSUME NEW u \in Users, Async!StopReset(u)
      PROVE  UsersHold' /\ AsyncHolds'
  BY <1>20 DEF Async!StopReset, Async!Goto, Async!Undefined, Async!Freed
<1>21. QED
  BY <1>1, <1>2, <1>3, <1>4, <1>5, <1>6, <1>7, <1>8, <1>9, <1>10, <1>11,
     <1>12, <1>13, <1>14, <1>15, <1>16, <1>17, <1>18, <1>19, <1>20
     DEF Async!Next, Async!Io, Async!User

(* No action leads from one build to the other; the one that either has, of *)
(* the peer, changes nothing but the connection.                            *)
LEMMA CoroStays ==
  ASSUME Base, Coro!Next
  PROVE  \/ pc \in Coro!Places /\ pc' \in Coro!Places
         \/ UNCHANGED <<pc, ws, subRefs, upc, deleted, bad>>
<1> USE DEF Base, TypeOK, Apart, CoroCalls, Coro!Places
<1>1. CASE Coro!Session
  BY <1>1 DEF Coro!Session, Coro!AcceptError, Coro!OnAccept,
         Coro!Handler, Coro!OnMessage, Coro!SubWrite, Coro!OnReadError,
         Coro!DropSub, Coro!DropWs, Coro!Unwind
<1>2. CASE Coro!PeerCloses
  BY <1>2 DEF Coro!PeerCloses
<1>3. ASSUME NEW u \in Users, Coro!User(u)
      PROVE  pc \in Coro!Places /\ pc' \in Coro!Places
  BY <1>3 DEF Coro!User, Coro!Lock, Coro!Unlock, Coro!PublishWrite,
         Coro!StopCheck, Coro!StopClose, Coro!StopReset, Coro!Goto
<1>4. QED
  BY <1>1, <1>2, <1>3 DEF Coro!Next

(* The same of the callbacks. *)
LEMMA AsyncStays ==
  ASSUME Base, Async!Next
  PROVE  \/ pc \in Async!Places /\ pc' \in Async!Places
         \/ UNCHANGED <<pc, ws, subRefs, upc, deleted, bad>>
<1> USE DEF Base, TypeOK, Apart, AsyncCalls, Async!Places
<1>1. CASE Async!Io
  BY <1>1 DEF Async!Io, Async!AcceptError, Async!OnAccept,
         Async!HandlerThrows, Async!Arm, Async!OnMessage, Async!GotText,
         Async!SubCheck, Async!SubWrite, Async!OnReadError, Async!DropSub,
         Async!DropWs, Async!End, Async!Use
<1>2. CASE Async!PeerCloses
  BY <1>2 DEF Async!PeerCloses
<1>3. ASSUME NEW u \in Users, Async!User(u)
      PROVE  pc \in Async!Places /\ pc' \in Async!Places
  BY <1>3 DEF Async!User, Async!Lock, Async!Unlock, Async!PublishCheck,
         Async!PublishWrite, Async!StopCheck, Async!StopClose,
         Async!StopReset, Async!Goto, Async!Check, Async!Undefined,
         Async!Freed
<1>4. QED
  BY <1>1, <1>2, <1>3 DEF Async!Next

(* The invariant is inductive. *)
LEMMA InvStep == ASSUME Inv, [Next]_vars PROVE Inv'
<1>1. Base'
  BY BaseStep DEF Inv
<1>2. CASE UNCHANGED <<pc, ws, subRefs, upc, deleted, bad>>
  BY <1>1, <1>2 DEF Inv, UsersHold, CoroHolds, AsyncHolds
<1>3. CASE Coro!Next /\ pc \in Coro!Places /\ pc' \in Coro!Places
  BY <1>1, <1>3, CoroHoldsStep
     DEF Inv, Next, AsyncHolds, Coro!Places, Async!Places
<1>4. CASE Async!Next /\ pc \in Async!Places /\ pc' \in Async!Places
  BY <1>1, <1>4, AsyncHoldsStep
     DEF Inv, Next, CoroHolds, Coro!Places, Async!Places
<1>5. QED
  BY <1>2, <1>3, <1>4, CoroStays, AsyncStays DEF Inv, Next, vars

(* In the coroutine build the stream of a closure is alive. *)
THEOREM ClosureHasStreamHolds == Spec => []ClosureHasStream
<1>1. Inv => ClosureHasStream
  BY DEF Inv, Base, TypeOK, Apart, CoroCalls, UsersHold, CoroHolds,
         ClosureHasStream
<1>2. QED
  BY InvInit, InvStep, <1>1, PTL DEF Spec

(* In the build without coroutines nobody is left to hold the wsSubscriber  *)
(* of a session that is gone.                                               *)
THEOREM ReleasedByMemberHolds == Spec => []ReleasedByMember
<1>1. Inv => ReleasedByMember
  BY DEF Inv, Base, TypeOK, UsersHold, AsyncHolds, ReleasedByMember, AllIdle,
         Async!Places
<1>2. QED
  BY InvInit, InvStep, <1>1, PTL DEF Spec

=============================================================================
