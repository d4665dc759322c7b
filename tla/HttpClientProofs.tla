-------------------------- MODULE HttpClientProofs --------------------------
(***************************************************************************)
(* Theorems about HttpClient, in either build and for any number of calls  *)
(* of fetch: its types, and that the fetches keep the promise of Fetch.    *)
(***************************************************************************)
EXTENDS HttpClient, SequenceTheorems, TLAPS

-----------------------------------------------------------------------------
(* The inductive invariant *)

Told == {<<>>, <<"response">>, <<"error">>, <<"response", "error">>}

(* The places before the response, and those behind it. *)
Early == {"start", "run"} \cup (Coro!Awaits \ {"shutdown"})
                          \cup (Async!Operations \ {"on_shutdown"})
Late  == {"shutdown", "on_shutdown"}

(* What a fetch at p has told its callback, and, without coroutines,        *)
(* whether it has a deadline.                                               *)
Fits(p, a, t) ==
  /\ p \in Early => t = <<>>
  /\ p \in Late => t = <<"response">>
  /\ p \in {"run", "on_resolve"} => ~a
  /\ p \in Async!Operations \ {"on_resolve"} => a

Inv == TypeOK /\ \A f \in Fetches : Fits(pc[f], armed[f], told[f])

(* What a callback is told, one word after another. *)
LEMMA Words ==
  /\ Append(<<>>, "error") = <<"error">>
  /\ Append(<<>>, "response") = <<"response">>
  /\ Append(<<"response">>, "error") = <<"response", "error">>
  /\ <<>> \o <<"error">> = <<"error">>
  /\ <<>> \o <<"response">> = <<"response">>
  /\ <<>> \o <<"response", "error">> = <<"response", "error">>
  /\ <<"response">> \o <<"error">> = <<"response", "error">>
  /\ <<"response">> # <<>>
<1>1. Append(<<>>, "error") = <<"error">>
  OBVIOUS
<1>2. Append(<<>>, "response") = <<"response">>
  OBVIOUS
<1>3. Append(<<"response">>, "error") = <<"response", "error">>
  <2> DEFINE one == Append(<<"response">>, "error")
             two == <<"response", "error">>
  <2>1. one \in Seq({"response", "error"}) /\ two \in Seq({"response", "error"})
    OBVIOUS
  <2>2. Len(one) = 2 /\ one[1] = "response" /\ one[2] = "error"
    BY AppendProperties, <<"response">> \in Seq({"response", "error"})
  <2>3. Len(two) = 2 /\ two[1] = "response" /\ two[2] = "error"
    OBVIOUS
  <2> HIDE DEF one, two
  <2>4. one = two
    BY <2>1, <2>2, <2>3, SeqEqual
  <2>5. QED
    BY <2>4 DEF one, two
<1>4. \A s \in Seq({"response", "error"}) : <<>> \o s = s
  BY ConcatEmptySeq
<1>5. /\ <<"error">> \in Seq({"response", "error"})
      /\ <<"response">> \in Seq({"response", "error"})
      /\ <<"response", "error">> \in Seq({"response", "error"})
  OBVIOUS
<1>6. <<"response">> \o <<"error">> = Append(<<"response">>, "error")
  BY <1>5, AppendIsConcat
<1>7. <<"response">> # <<>>
  OBVIOUS
<1>8. QED
  BY <1>1, <1>2, <1>3, <1>4, <1>5, <1>6, <1>7

(* A fetch of either build begins before its first await. *)
LEMMA InvInit == Init => Inv
<1> SUFFICES ASSUME Init PROVE Inv
  OBVIOUS
<1>1. CASE Coro!Init
  BY <1>1 DEF Coro!Init, Inv, TypeOK, Fits, Early, Late, CoroPlaces,
              Coro!Awaits, Async!Operations
<1>2. CASE Async!Init
  BY <1>2 DEF Async!Init, Inv, TypeOK, Fits, Early, Late, AsyncPlaces,
              Coro!Kinds, Async!Kinds, Coro!Awaits, Async!Operations
<1>3. QED
  BY <1>1, <1>2 DEF Init

-----------------------------------------------------------------------------
(* A step of one fetch *)

(* The places of either build are left for places of it. *)
SameBuild(f, p) ==
  \/ pc[f] \in CoroPlaces /\ p \in CoroPlaces
  \/ pc[f] \in AsyncPlaces /\ p \in AsyncPlaces

(* f goes to p, with a for its deadline and t told; the others stay.        *)
Moves(f, p, a, t) ==
  /\ UNCHANGED kind
  /\ pc' = [pc EXCEPT ![f] = p]
  /\ armed' = [armed EXCEPT ![f] = a]
  /\ told' = [told EXCEPT ![f] = t]
  /\ SameBuild(f, p) /\ Fits(p, a, t)

(* That keeps the invariant. *)
LEMMA MoveKeeps ==
  ASSUME Inv, NEW f \in Fetches, NEW p, NEW a \in BOOLEAN, NEW t \in Told,
         Moves(f, p, a, t)
  PROVE  Inv'
<1>1. TypeOK'
  <2>1. pc' \in [Fetches -> CoroPlaces] \cup [Fetches -> AsyncPlaces]
    BY DEF Inv, TypeOK, Moves, SameBuild, CoroPlaces, AsyncPlaces,
           Coro!Awaits, Async!Operations
  <2>2. armed' \in [Fetches -> BOOLEAN]
    BY DEF Inv, TypeOK, Moves
  <2>3. told' \in [Fetches -> Told]
    BY DEF Inv, TypeOK, Moves, Told
  <2>4. QED
    BY <2>1, <2>2, <2>3 DEF Inv, TypeOK, Moves, Told
<1>2. ASSUME NEW g \in Fetches PROVE Fits(pc[g], armed[g], told[g])'
  <2>1. CASE g = f
    <3>1. pc'[g] = p /\ armed'[g] = a /\ told'[g] = t /\ Fits(p, a, t)
      BY <2>1 DEF Inv, TypeOK, Moves
    <3>2. QED
      BY <3>1 DEF Fits
  <2>2. CASE g # f
    <3>1. /\ pc'[g] = pc[g] /\ armed'[g] = armed[g] /\ told'[g] = told[g]
          /\ Fits(pc[g], armed[g], told[g])
      BY <2>2 DEF Inv, TypeOK, Moves
    <3>2. QED
      BY <3>1 DEF Fits
  <2>3. QED
    BY <2>1, <2>2
<1>3. QED
  BY <1>1, <1>2 DEF Inv

(* The state of a fetch at p, as module Fetch has it. *)
StateAt(p) ==
  IF p \in {"returned", "none"} THEN "returned"
  ELSE IF p \in {"thrown", "threw"} THEN "thrown" ELSE "running"

(* What module Fetch sees of such a step. *)
LEMMA View ==
  ASSUME Inv, NEW f \in Fetches, NEW p, pc' = [pc EXCEPT ![f] = p]
  PROVE  /\ State[f] = StateAt(pc[f])
         /\ State' = [State EXCEPT ![f] = StateAt(p)]
         /\ StateAt(p) = StateAt(pc[f]) => State' = State
<1>1. State[f] = StateAt(pc[f])
  BY DEF State, StateAt, Returned, Thrown
<1>2. State' = [State EXCEPT ![f] = StateAt(p)]
  BY DEF State, StateAt, Returned, Thrown, Inv, TypeOK
<1>3. StateAt(p) = StateAt(pc[f]) => State' = State
  BY <1>1, <1>2 DEF State
<1>4. QED
  BY <1>1, <1>2, <1>3

(* A fetch may return without a word as before, unless it is given its      *)
(* first deadline in the build without coroutines.                          *)
LEMMA MuteStays ==
  ASSUME Inv, NEW f \in Fetches, NEW p,
         UNCHANGED kind, pc' = [pc EXCEPT ![f] = p], SameBuild(f, p),
         p \in AsyncPlaces => UNCHANGED armed
  PROVE  UNCHANGED Mute
<1>1. ASSUME NEW g \in Fetches
      PROVE  (pc[g] \in AsyncPlaces) = (pc'[g] \in AsyncPlaces)
  <2>1. pc[f] \in AsyncPlaces <=> p \in AsyncPlaces
    BY DEF SameBuild, CoroPlaces, AsyncPlaces, Coro!Awaits, Async!Operations
  <2>2. QED
    BY <2>1 DEF Inv, TypeOK
<1>2. CASE UNCHANGED armed
  BY <1>1, <1>2 DEF Mute
<1>3. CASE p \notin AsyncPlaces
  <2>1. \A g \in Fetches : pc[g] \notin AsyncPlaces
    BY <1>3 DEF SameBuild, Inv, TypeOK, CoroPlaces, AsyncPlaces, Coro!Awaits,
                Async!Operations
  <2>2. QED
    BY <1>1, <2>1 DEF Mute
<1>4. QED
  BY <1>2, <1>3

(* Once it has a deadline it may not. *)
LEMMA MuteEnds ==
  ASSUME Inv, NEW f \in Fetches, NEW p \in AsyncPlaces,
         UNCHANGED kind, pc' = [pc EXCEPT ![f] = p], pc[f] \in AsyncPlaces,
         armed' = [armed EXCEPT ![f] = TRUE]
  PROVE  Mute' = [Mute EXCEPT ![f] = FALSE]
BY DEF Mute, Inv, TypeOK

-----------------------------------------------------------------------------
(* Such steps as module Fetch sees them *)

(* What is kept, and that a deadline changes nothing for Fetch but in the   *)
(* build without coroutines.                                                *)
LEMMA Seen ==
  ASSUME Inv, NEW f \in Fetches, NEW p, NEW a \in BOOLEAN, NEW t \in Told,
         Moves(f, p, a, t), a = armed[f] \/ p \notin AsyncPlaces
  PROVE  /\ Inv' /\ UNCHANGED Mute
         /\ told' = [told EXCEPT ![f] = t]
         /\ State[f] = StateAt(pc[f])
         /\ State' = [State EXCEPT ![f] = StateAt(p)]
         /\ StateAt(p) = StateAt(pc[f]) => State' = State
<1>1. Inv'
  BY MoveKeeps
<1>2. UNCHANGED Mute
  <2>1. p \in AsyncPlaces => UNCHANGED armed
    BY DEF Moves, Inv, TypeOK
  <2>2. QED
    BY <2>1, MuteStays DEF Moves
<1>3. QED
  BY <1>1, <1>2, View DEF Moves

(* Fetch sees nothing, ... *)
LEMMA Stutters ==
  ASSUME Inv, NEW f \in Fetches, NEW p, NEW a \in BOOLEAN,
         Moves(f, p, a, told[f]), a = armed[f] \/ p \notin AsyncPlaces,
         StateAt(pc[f]) = "running", StateAt(p) = "running"
  PROVE  Inv' /\ UNCHANGED Promise!vars
<1>1. told[f] \in Told /\ told = [told EXCEPT ![f] = told[f]]
  BY DEF Inv, TypeOK, Told
<1>2. QED
  BY <1>1, Seen DEF Promise!vars

(* ... a fetch that gets under way, ... *)
LEMMA Engages ==
  ASSUME Inv, NEW f \in Fetches, NEW p \in AsyncPlaces,
         Moves(f, p, TRUE, told[f]), pc[f] \in AsyncPlaces,
         StateAt(pc[f]) = "running", StateAt(p) = "running"
  PROVE  Inv' /\ Promise!Next
<1>1. told[f] \in Told /\ told = [told EXCEPT ![f] = told[f]]
  BY DEF Inv, TypeOK, Told
<1>2. Inv'
  BY <1>1, MoveKeeps
<1>3. Mute' = [Mute EXCEPT ![f] = FALSE]
  BY MuteEnds DEF Moves
<1>4. State[f] = "running" /\ State' = State
  BY View DEF Moves
<1>5. Promise!Engage(f)
  BY <1>1, <1>3, <1>4 DEF Promise!Engage, Moves
<1>6. QED
  BY <1>2, <1>5 DEF Promise!Next

(* ... an answer, ... *)
LEMMA Answers ==
  ASSUME Inv, NEW f \in Fetches, NEW p, NEW a \in BOOLEAN,
         Moves(f, p, a, <<"response">>), a = armed[f] \/ p \notin AsyncPlaces,
         told[f] = <<>>, StateAt(pc[f]) = "running", StateAt(p) = "running"
  PROVE  Inv' /\ Promise!Next
<1>1. <<"response">> \in Told
  BY DEF Told
<1>2. /\ Inv' /\ UNCHANGED Mute /\ told' = [told EXCEPT ![f] = <<"response">>]
      /\ State[f] = "running" /\ State' = State
  BY <1>1, Seen
<1>3. Promise!Answer(f)
  BY <1>2 DEF Promise!Answer
<1>4. QED
  BY <1>2, <1>3 DEF Promise!Next

(* ... an answer and the end at once, ... *)
LEMMA AnswersReturns ==
  ASSUME Inv, NEW f \in Fetches, NEW p,
         NEW t \in {<<"response">>, <<"response", "error">>},
         Moves(f, p, armed[f], t), told[f] = <<>>,
         StateAt(pc[f]) = "running", StateAt(p) = "returned"
  PROVE  Inv' /\ Promise!Next
<1>1. t \in Told /\ armed[f] \in BOOLEAN
  BY DEF Told, Inv, TypeOK
<1>2. /\ Inv' /\ UNCHANGED Mute /\ told' = [told EXCEPT ![f] = t]
      /\ State[f] = "running" /\ State' = [State EXCEPT ![f] = "returned"]
  BY <1>1, Seen
<1>3. Promise!AnswerReturn(f) \/ Promise!AnswerFail(f)
  BY <1>2 DEF Promise!AnswerReturn, Promise!AnswerFail
<1>4. QED
  BY <1>2, <1>3 DEF Promise!Next

(* ... a failure, ... *)
LEMMA Fails ==
  ASSUME Inv, NEW f \in Fetches, NEW p, NEW t, Moves(f, p, armed[f], t),
         \/ told[f] = <<>> /\ t = <<"error">>
         \/ told[f] = <<"response">> /\ t = <<"response", "error">>,
         StateAt(pc[f]) = "running", StateAt(p) = "returned"
  PROVE  Inv' /\ Promise!Next
<1>1. t \in Told /\ armed[f] \in BOOLEAN
  BY DEF Told, Inv, TypeOK
<1>2. /\ Inv' /\ UNCHANGED Mute /\ told' = [told EXCEPT ![f] = t]
      /\ State[f] = "running" /\ State' = [State EXCEPT ![f] = "returned"]
  BY <1>1, Seen
<1>3. told' = [told EXCEPT ![f] = Append(@, "error")]
  BY <1>2, Words
<1>4. Promise!Fail(f)
  BY <1>2, <1>3 DEF Promise!Fail
<1>5. QED
  BY <1>2, <1>4 DEF Promise!Next

(* ... the end, ... *)
LEMMA Returns ==
  ASSUME Inv, NEW f \in Fetches, NEW p, Moves(f, p, armed[f], told[f]),
         told[f] # <<>> \/ Mute[f],
         StateAt(pc[f]) = "running", StateAt(p) = "returned"
  PROVE  Inv' /\ Promise!Next
<1>1. /\ told[f] \in Told /\ armed[f] \in BOOLEAN
      /\ told = [told EXCEPT ![f] = told[f]]
  BY DEF Told, Inv, TypeOK
<1>2. /\ Inv' /\ UNCHANGED <<Mute, told>>
      /\ State[f] = "running" /\ State' = [State EXCEPT ![f] = "returned"]
  BY <1>1, Seen
<1>3. Promise!Return(f)
  BY <1>2 DEF Promise!Return
<1>4. QED
  BY <1>2, <1>3 DEF Promise!Next

(* ... or a throw. *)
LEMMA Throws ==
  ASSUME Inv, NEW f \in Fetches, NEW p, Moves(f, p, armed[f], told[f]),
         told[f] = <<>>, StateAt(pc[f]) = "running", StateAt(p) = "thrown"
  PROVE  Inv' /\ Promise!Next
<1>1. /\ told[f] \in Told /\ armed[f] \in BOOLEAN
      /\ told = [told EXCEPT ![f] = told[f]]
  BY DEF Told, Inv, TypeOK
<1>2. /\ Inv' /\ UNCHANGED <<Mute, told>>
      /\ State[f] = "running" /\ State' = [State EXCEPT ![f] = "thrown"]
  BY <1>1, Seen
<1>3. Promise!Throw(f)
  BY <1>2 DEF Promise!Throw
<1>4. QED
  BY <1>2, <1>3 DEF Promise!Next

-----------------------------------------------------------------------------
(* The steps of the two builds *)

(* Every step of the coroutine is one of Fetch, or none. *)
LEMMA CoroStep ==
  ASSUME Inv, NEW f \in Fetches, Coro!Begin(f) \/ Coro!Await(f)
  PROVE  Inv' /\ [Promise!Next]_(Promise!vars)
<1> USE DEF SameBuild, Fits, Early, Late, CoroPlaces, AsyncPlaces,
            Coro!Awaits, Async!Operations
<1> DEFINE here == /\ told[f] \in Told /\ told = [told EXCEPT ![f] = told[f]]
                   /\ armed[f] \in BOOLEAN
                   /\ armed = [armed EXCEPT ![f] = armed[f]]
                   /\ Fits(pc[f], armed[f], told[f])
<1>0. here
  BY DEF Inv, TypeOK, Told
<1>1. CASE Coro!Refuse(f)
  <2>1. Moves(f, "returned", armed[f], <<"error">>) /\ told[f] = <<>>
    BY <1>0, <1>1, Words DEF Moves, Coro!Refuse, Coro!Goto, Coro!Callback
  <2>2. pc[f] = "start"
    BY <1>1 DEF Coro!Refuse, Coro!Goto
  <2>3. QED
    BY <1>0, <2>1, <2>2, Fails DEF StateAt
<1>2. CASE Coro!ParseThrows(f)
  <2>1. Moves(f, "thrown", armed[f], told[f]) /\ told[f] = <<>>
    BY <1>0, <1>2 DEF Moves, Coro!ParseThrows, Coro!Goto
  <2>2. pc[f] = "start"
    BY <1>2 DEF Coro!ParseThrows, Coro!Goto
  <2>3. QED
    BY <1>0, <2>1, <2>2, Throws DEF StateAt
<1>3. CASE Coro!SniFail(f)
  <2>1. Moves(f, "returned", armed[f], <<"error">>) /\ told[f] = <<>>
    BY <1>0, <1>3, Words DEF Moves, Coro!SniFail, Coro!Goto, Coro!Callback
  <2>2. pc[f] = "start"
    BY <1>3 DEF Coro!SniFail, Coro!Goto
  <2>3. QED
    BY <1>0, <2>1, <2>2, Fails DEF StateAt
<1>4. CASE Coro!Start(f)
  <2>1. Moves(f, "resolve", armed[f], told[f])
    BY <1>0, <1>4 DEF Moves, Coro!Start, Coro!Goto
  <2>2. pc[f] = "start"
    BY <1>4 DEF Coro!Start, Coro!Goto
  <2>3. QED
    BY <1>0, <2>1, <2>2, Stutters DEF StateAt
<1>5. CASE Coro!Resolved(f)
  <2>1. Moves(f, "connect", TRUE, told[f])
    BY <1>0, <1>5 DEF Moves, Coro!Resolved, Coro!Goto, Coro!ExpiresAfter
  <2>2. pc[f] = "resolve"
    BY <1>5 DEF Coro!Resolved, Coro!Goto
  <2>3. QED
    BY <1>0, <2>1, <2>2, Stutters DEF StateAt
<1>6. CASE Coro!Connected(f)
  <2>1. PICK p \in {"handshake", "write"} : Moves(f, p, TRUE, told[f])
    BY <1>0, <1>6 DEF Moves, Coro!Connected, Coro!Goto, Coro!ExpiresAfter
  <2>2. pc[f] = "connect"
    BY <1>6 DEF Coro!Connected, Coro!Goto
  <2>3. QED
    BY <1>0, <2>1, <2>2, Stutters DEF StateAt
<1>7. CASE Coro!Handshaken(f)
  <2>1. Moves(f, "write", TRUE, told[f])
    BY <1>0, <1>7 DEF Moves, Coro!Handshaken, Coro!Goto, Coro!ExpiresAfter
  <2>2. pc[f] = "handshake"
    BY <1>7 DEF Coro!Handshaken, Coro!Goto
  <2>3. QED
    BY <1>0, <2>1, <2>2, Stutters DEF StateAt
<1>8. CASE Coro!Written(f)
  <2>1. Moves(f, "read", armed[f], told[f])
    BY <1>0, <1>8 DEF Moves, Coro!Written, Coro!Goto
  <2>2. pc[f] = "write"
    BY <1>8 DEF Coro!Written, Coro!Goto
  <2>3. QED
    BY <1>0, <2>1, <2>2, Stutters DEF StateAt
<1>9. CASE Coro!Read(f)
  <2>1. Moves(f, "shutdown", TRUE, <<"response">>) /\ told[f] = <<>>
    BY <1>0, <1>9, Words DEF Moves, Coro!Read, Coro!Goto, Coro!Callback,
       Coro!ExpiresAfter
  <2>2. pc[f] = "read"
    BY <1>9 DEF Coro!Read, Coro!Goto
  <2>3. QED
    BY <1>0, <2>1, <2>2, Answers DEF StateAt
<1>10. CASE Coro!Shutdown(f)
  <2>1. Moves(f, "returned", armed[f], told[f]) /\ told[f] # <<>>
    BY <1>0, <1>10, Words DEF Moves, Coro!Shutdown, Coro!Goto
  <2>2. pc[f] = "shutdown"
    BY <1>10 DEF Coro!Shutdown, Coro!Goto
  <2>3. QED
    BY <1>0, <2>1, <2>2, Returns DEF StateAt
<1>11. CASE Coro!Fail(f)
  <2>1. /\ told[f] \in {<<>>, <<"response">>}
        /\ StateAt(pc[f]) = "running" /\ SameBuild(f, "returned")
    BY <1>0, <1>11 DEF StateAt, Coro!Fail
  <2>2. PICK t \in Told :
           /\ told' = [told EXCEPT ![f] = t]
           /\ \/ told[f] = <<>> /\ t = <<"error">>
              \/ told[f] = <<"response">> /\ t = <<"response", "error">>
    BY <1>11, <2>1, Words DEF Coro!Fail, Coro!Callback, Told
  <2>3. Moves(f, "returned", armed[f], t)
    BY <1>0, <1>11, <2>1, <2>2 DEF Moves, Coro!Fail, Coro!Goto
  <2>4. QED
    BY <2>1, <2>2, <2>3, Fails DEF StateAt
<1>12. CASE Coro!Timeout(f)
  <2>1. /\ told[f] \in {<<>>, <<"response">>}
        /\ StateAt(pc[f]) = "running" /\ SameBuild(f, "returned")
    BY <1>0, <1>12 DEF StateAt, Coro!Timeout
  <2>2. PICK t \in Told :
           /\ told' = [told EXCEPT ![f] = t]
           /\ \/ told[f] = <<>> /\ t = <<"error">>
              \/ told[f] = <<"response">> /\ t = <<"response", "error">>
    BY <1>12, <2>1, Words DEF Coro!Timeout, Coro!Callback, Told
  <2>3. Moves(f, "returned", armed[f], t)
    BY <1>0, <1>12, <2>1, <2>2 DEF Moves, Coro!Timeout, Coro!Goto
  <2>4. QED
    BY <2>1, <2>2, <2>3, Fails DEF StateAt
<1>13. QED
  BY <1>1, <1>2, <1>3, <1>4, <1>5, <1>6, <1>7, <1>8, <1>9, <1>10, <1>11,
     <1>12
     DEF Coro!Begin, Coro!Await, Promise!vars

(* The same of the handlers; a deadline is a step of Fetch too. *)
LEMMA AsyncStep ==
  ASSUME Inv, NEW f \in Fetches, Async!Run(f) \/ Async!Handler(f)
  PROVE  Inv' /\ [Promise!Next]_(Promise!vars)
<1> USE DEF SameBuild, Fits, Early, Late, CoroPlaces, AsyncPlaces,
            Coro!Awaits, Async!Operations
<1> DEFINE here == /\ told[f] \in Told /\ told = [told EXCEPT ![f] = told[f]]
                   /\ armed[f] \in BOOLEAN
                   /\ armed = [armed EXCEPT ![f] = armed[f]]
                   /\ Fits(pc[f], armed[f], told[f])
<1>0. here
  BY DEF Inv, TypeOK, Told
<1>1. CASE Async!Refuse(f)
  <2>1. Moves(f, "none", armed[f], <<"error">>) /\ told[f] = <<>>
    BY <1>0, <1>1, Words DEF Moves, Async!Refuse, Async!On, Async!Callback
  <2>2. pc[f] = "run"
    BY <1>1 DEF Async!Refuse, Async!On
  <2>3. QED
    BY <1>0, <2>1, <2>2, Fails DEF StateAt
<1>2. CASE Async!ParseThrows(f)
  <2>1. Moves(f, "threw", armed[f], told[f]) /\ told[f] = <<>>
    BY <1>0, <1>2 DEF Moves, Async!ParseThrows, Async!On
  <2>2. pc[f] = "run"
    BY <1>2 DEF Async!ParseThrows, Async!On
  <2>3. QED
    BY <1>0, <2>1, <2>2, Throws DEF StateAt
<1>3. CASE Async!SniFail(f)
  <2>1. Moves(f, "none", armed[f], told[f]) /\ Mute[f]
    BY <1>0, <1>3, Words DEF Moves, Async!SniFail, Async!On, Mute
  <2>2. pc[f] = "run"
    BY <1>3 DEF Async!SniFail, Async!On
  <2>3. QED
    BY <1>0, <2>1, <2>2, Returns DEF StateAt
<1>4. CASE Async!Start(f)
  <2>1. Moves(f, "on_resolve", armed[f], told[f])
    BY <1>0, <1>4 DEF Moves, Async!Start, Async!On
  <2>2. pc[f] = "run"
    BY <1>4 DEF Async!Start, Async!On
  <2>3. QED
    BY <1>0, <2>1, <2>2, Stutters DEF StateAt
<1>5. CASE Async!OnResolve(f)
  <2>1. Moves(f, "on_connect", TRUE, told[f]) /\ pc[f] \in AsyncPlaces
    BY <1>0, <1>5 DEF Moves, Async!OnResolve, Async!On, Async!ExpiresAfter
  <2>2. pc[f] = "on_resolve"
    BY <1>5 DEF Async!OnResolve, Async!On
  <2>3. QED
    BY <1>0, <2>1, <2>2, Engages DEF StateAt
<1>6. CASE Async!OnConnectSsl(f)
  <2>1. Moves(f, "on_handshake", armed[f], told[f])
    BY <1>0, <1>6 DEF Moves, Async!OnConnectSsl, Async!On
  <2>2. pc[f] = "on_connect"
    BY <1>6 DEF Async!OnConnectSsl, Async!On
  <2>3. QED
    BY <1>0, <2>1, <2>2, Stutters DEF StateAt
<1>7. CASE Async!OnConnect(f)
  <2>1. Moves(f, "on_write", TRUE, told[f]) /\ pc[f] \in AsyncPlaces
    BY <1>0, <1>7 DEF Moves, Async!OnConnect, Async!On, Async!ExpiresAfter
  <2>2. pc[f] = "on_connect"
    BY <1>7 DEF Async!OnConnect, Async!On
  <2>3. QED
    BY <1>0, <2>1, <2>2, Engages DEF StateAt
<1>8. CASE Async!OnHandshake(f)
  <2>1. Moves(f, "on_write", TRUE, told[f]) /\ pc[f] \in AsyncPlaces
    BY <1>0, <1>8 DEF Moves, Async!OnHandshake, Async!On, Async!ExpiresAfter
  <2>2. pc[f] = "on_handshake"
    BY <1>8 DEF Async!OnHandshake, Async!On
  <2>3. QED
    BY <1>0, <2>1, <2>2, Engages DEF StateAt
<1>9. CASE Async!OnWrite(f)
  <2>1. Moves(f, "on_read", armed[f], told[f])
    BY <1>0, <1>9 DEF Moves, Async!OnWrite, Async!On
  <2>2. pc[f] = "on_write"
    BY <1>9 DEF Async!OnWrite, Async!On
  <2>3. QED
    BY <1>0, <2>1, <2>2, Stutters DEF StateAt
<1>10. CASE Async!OnReadSsl(f)
  <2>1. Moves(f, "on_shutdown", armed[f], <<"response">>) /\ told[f] = <<>>
    BY <1>0, <1>10, Words DEF Moves, Async!OnReadSsl, Async!On, Async!Callback,
       Async!ExpiresAfter
  <2>2. pc[f] = "on_read"
    BY <1>10 DEF Async!OnReadSsl, Async!On
  <2>3. QED
    BY <1>0, <2>1, <2>2, Answers DEF StateAt
<1>11. CASE Async!OnRead(f)
  <2>1. PICK t \in {<<"response">>, <<"response", "error">>} :
           Moves(f, "none", armed[f], t) /\ told[f] = <<>>
    BY <1>0, <1>11, Words DEF Moves, Async!OnRead, Async!On, Async!Callback
  <2>2. pc[f] = "on_read"
    BY <1>11 DEF Async!OnRead, Async!On
  <2>3. QED
    BY <1>0, <2>1, <2>2, AnswersReturns DEF StateAt
<1>12. CASE Async!OnShutdown(f)
  <2>1. Moves(f, "none", armed[f], told[f]) /\ told[f] # <<>>
    BY <1>0, <1>12, Words DEF Moves, Async!OnShutdown, Async!On
  <2>2. pc[f] = "on_shutdown"
    BY <1>12 DEF Async!OnShutdown, Async!On
  <2>3. QED
    BY <1>0, <2>1, <2>2, Returns DEF StateAt
<1>13. CASE Async!Fail(f)
  <2>1. /\ told[f] \in {<<>>, <<"response">>}
        /\ StateAt(pc[f]) = "running" /\ SameBuild(f, "none")
    BY <1>0, <1>13 DEF StateAt, Async!Fail
  <2>2. PICK t \in Told :
           /\ told' = [told EXCEPT ![f] = t]
           /\ \/ told[f] = <<>> /\ t = <<"error">>
              \/ told[f] = <<"response">> /\ t = <<"response", "error">>
    BY <1>13, <2>1, Words DEF Async!Fail, Async!Callback, Told
  <2>3. Moves(f, "none", armed[f], t)
    BY <1>0, <1>13, <2>1, <2>2 DEF Moves, Async!Fail, Async!On
  <2>4. QED
    BY <2>1, <2>2, <2>3, Fails DEF StateAt
<1>14. CASE Async!Timeout(f)
  <2>1. /\ told[f] \in {<<>>, <<"response">>}
        /\ StateAt(pc[f]) = "running" /\ SameBuild(f, "none")
    BY <1>0, <1>14 DEF StateAt, Async!Timeout
  <2>2. PICK t \in Told :
           /\ told' = [told EXCEPT ![f] = t]
           /\ \/ told[f] = <<>> /\ t = <<"error">>
              \/ told[f] = <<"response">> /\ t = <<"response", "error">>
    BY <1>14, <2>1, Words DEF Async!Timeout, Async!Callback, Told
  <2>3. Moves(f, "none", armed[f], t)
    BY <1>0, <1>14, <2>1, <2>2 DEF Moves, Async!Timeout, Async!On
  <2>4. QED
    BY <2>1, <2>2, <2>3, Fails DEF StateAt
<1>15. QED
  BY <1>1, <1>2, <1>3, <1>4, <1>5, <1>6, <1>7, <1>8, <1>9, <1>10, <1>11,
     <1>12, <1>13, <1>14
     DEF Async!Run, Async!Handler, Promise!vars

-----------------------------------------------------------------------------
(* The theorems *)

(* What holds at first holds on, and each step is one of Fetch. *)
LEMMA InvStep ==
  ASSUME Inv, [Next]_vars PROVE Inv' /\ [Promise!Next]_(Promise!vars)
<1>1. CASE Coro!Next
  BY <1>1, CoroStep DEF Coro!Next
<1>2. CASE Async!Next
  BY <1>2, AsyncStep DEF Async!Next
<1>3. CASE UNCHANGED vars
  <2>1. Inv'
    BY <1>3 DEF vars, Inv, TypeOK, Fits
  <2>2. UNCHANGED State /\ UNCHANGED Mute
    BY <1>3 DEF vars, State, Mute, Returned, Thrown
  <2>3. QED
    BY <1>3, <2>1, <2>2 DEF vars, Promise!vars
<1>4. QED
  BY <1>1, <1>2, <1>3 DEF Next, Terminating

(* Types. *)
THEOREM TypeCorrect == Spec => []TypeOK
<1>1. Inv => TypeOK
  BY DEF Inv
<1>2. QED
  BY InvInit, InvStep, <1>1, PTL DEF Spec

(* Before its first word a fetch is as module Fetch has it at first. *)
LEMMA PromiseInit == Init => Promise!Init
<1> SUFFICES ASSUME Init PROVE Promise!Init
  OBVIOUS
<1>1. told = [f \in Fetches |-> <<>>]
  BY DEF Init, Coro!Init, Async!Init
<1>2. State = [f \in Fetches |-> "running"]
  BY DEF Init, Coro!Init, Async!Init, State, Returned, Thrown
<1>3. Mute \in [Fetches -> BOOLEAN]
  BY DEF Mute
<1>4. QED
  BY <1>1, <1>2, <1>3 DEF Promise!Init

(* The fetches of either build keep the promise of Fetch: what a callback   *)
(* is told, in which order, and that a fetch that is under way does not     *)
(* return without a word.                                                   *)
THEOREM KeepsPromise == Spec => FetchSpec
<1>1. QED
  BY InvInit, InvStep, PromiseInit, PTL DEF Spec, FetchSpec, Promise!Spec

=============================================================================
