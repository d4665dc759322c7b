-------------------------- MODULE TaskThreadProofs --------------------------
(***************************************************************************)
(* Theorems about TaskThread, for every set of tasks, delays and outcomes. *)
(***************************************************************************)
EXTENDS TaskThread, TLAPS

-----------------------------------------------------------------------------
(* The sequence that queue_ is, a std::queue. *)

(* push *)
LEMMA AppendFacts ==
  ASSUME NEW S, NEW q \in Seq(S), NEW e \in S
  PROVE  /\ Append(q, e) \in Seq(S)
         /\ Len(Append(q, e)) = Len(q) + 1
         /\ Append(q, e) # <<>>
         /\ \A i \in 1..Len(q) : Append(q, e)[i] = q[i]
         /\ Append(q, e)[Len(q) + 1] = e
OBVIOUS

(* front and pop *)
LEMMA PopFacts ==
  ASSUME NEW S, NEW q \in Seq(S), q # <<>>
  PROVE  /\ Len(q) \in Nat \ {0}
         /\ Head(q) \in S
         /\ Head(q) = q[1]
         /\ Tail(q) \in Seq(S)
         /\ Len(Tail(q)) = Len(q) - 1
         /\ \A i \in 1..Len(Tail(q)) : Tail(q)[i] = q[i + 1]
OBVIOUS

Distinct(q) == \A i, j \in 1..Len(q) : q[i] = q[j] => i = j

Holds(q, e) == \E i \in 1..Len(q) : q[i] = e

(* A push of something that is not there repeats nothing. *)
LEMMA AppendDistinct ==
  ASSUME NEW S, NEW q \in Seq(S), NEW e \in S, Distinct(q), ~Holds(q, e)
  PROVE  /\ Distinct(Append(q, e))
         /\ \A i \in 1..Len(Append(q, e)) :
              Append(q, e)[i] = e \/ Holds(q, Append(q, e)[i])
<1> DEFINE r == Append(q, e)
<1>1. /\ Len(q) \in Nat /\ Len(r) = Len(q) + 1 /\ r[Len(q) + 1] = e
      /\ \A i \in 1..Len(q) : r[i] = q[i]
  BY AppendFacts
<1> HIDE DEF r
<1>2. Distinct(r) /\ \A i \in 1..Len(r) : r[i] = e \/ Holds(q, r[i])
  BY <1>1 DEF Distinct, Holds
<1>3. QED
  BY <1>2 DEF r

(* A pop removes what front gives. *)
LEMMA PopDistinct ==
  ASSUME NEW S, NEW q \in Seq(S), q # <<>>, Distinct(q)
  PROVE  /\ Holds(q, Head(q))
         /\ Distinct(Tail(q))
         /\ \A i \in 1..Len(Tail(q)) :
              Tail(q)[i] # Head(q) /\ Holds(q, Tail(q)[i])
<1> DEFINE r == Tail(q)
<1>1. /\ Len(q) \in Nat \ {0} /\ Len(r) = Len(q) - 1 /\ Head(q) = q[1]
      /\ \A i \in 1..Len(r) : r[i] = q[i + 1]
  BY PopFacts
<1> HIDE DEF r
<1>2. \A i \in 1..Len(r) : i + 1 \in 1..Len(q) /\ i + 1 # 1
  BY <1>1
<1>3. /\ Holds(q, Head(q)) /\ Distinct(r)
      /\ \A i \in 1..Len(r) : r[i] # Head(q) /\ Holds(q, r[i])
  BY <1>1, <1>2 DEF Distinct, Holds
<1>4. QED
  BY <1>3 DEF r

-----------------------------------------------------------------------------
(* Types, and the two facts their proof needs: the worker has a task in     *)
(* hand exactly between getTask and putTask, and what the round has still   *)
(* to pop is in queue_ (at every step of the round, not only when it pops). *)

InHand ==
  IF wpc \in {"got", "run", "repost"} THEN cur \in Tasks ELSE cur = NoTask

RoundFits == wpc \in {"batch", "got", "run", "repost"} => size <= Len(queue_)

Base == TypeOK /\ InHand /\ RoundFits

(* Init and the steps preserve Base. *)
LEMMA BaseInit == Init => Base
<1> SUFFICES ASSUME Init PROVE Base
  OBVIOUS
<1>1. queue_ \in Seq(Tasks) /\ InHand /\ RoundFits
  BY DEF Init, InHand, RoundFits
<1>2. /\ ts \in [Tasks -> Nat]
      /\ ppc \in [Tasks -> {"idle", "stamp", "put", "notify", "posted"}]
  BY DEF Init
<1>3. m_sleep \in Int /\ loaded \in Int
  BY DEF Init
<1>4. isRun_ \in BOOLEAN /\ m_wait \in BOOLEAN /\ seen \in BOOLEAN
  BY DEF Init
<1>5. clock \in Nat /\ realtime \in Nat /\ size \in Nat /\ sleep \in Int
  BY DEF Init
<1>6. owed \in SUBSET Tasks /\ cur \in Tasks \cup {NoTask}
  BY DEF Init
<1>7. QED
  BY <1>1, <1>2, <1>3, <1>4, <1>5, <1>6 DEF Init, Base, TypeOK

(* Every step of the worker, the waker and the callers preserves Base. *)
LEMMA BaseStep ==
  ASSUME Base, [Next]_vars
  PROVE  Base'
<1> USE TaskThreadAssumption DEF Base, TypeOK, InHand, RoundFits, vars,
                                 workerVars, wakerVars
<1>1. ASSUME Tick PROVE Base'
  BY <1>1 DEF Tick
<1>2. ASSUME NEW t \in Tasks, PushBegin(t) PROVE Base'
  BY <1>2 DEF PushBegin
<1>3. ASSUME NEW t \in Tasks, PushStamp(t) PROVE Base'
  BY <1>3 DEF PushStamp
<1>4. ASSUME NEW t \in Tasks, PushPut(t) PROVE Base'
  BY AppendFacts, <1>4 DEF PushPut
<1>5. ASSUME NEW t \in Tasks, PushNotify(t) PROVE Base'
  BY <1>5 DEF PushNotify, Woken
<1>6. ASSUME LoopStart PROVE Base'
  BY <1>6 DEF LoopStart
<1>7. ASSUME LoopExit PROVE Base'
  BY <1>7 DEF LoopExit
<1>8. ASSUME ConPark PROVE Base'
  BY <1>8 DEF ConPark
<1>9. ASSUME ConSize PROVE Base'
  BY <1>9 DEF ConSize, Queued
<1>10. ASSUME GetTask PROVE Base'
  BY PopFacts, <1>10 DEF GetTask
<1>11. ASSUME PutBack PROVE Base'
  BY AppendFacts, <1>11 DEF PutBack
<1>12. ASSUME StartFunctor PROVE Base'
  BY <1>12 DEF StartFunctor
<1>13. ASSUME FunctorFinish PROVE Base'
  BY <1>13 DEF FunctorFinish
<1>14. ASSUME FunctorContinue PROVE Base'
  BY <1>14 DEF FunctorContinue
<1>15. ASSUME Repost PROVE Base'
  BY AppendFacts, <1>15 DEF Repost
<1>16. ASSUME FunctorThrow PROVE Base'
  BY <1>16 DEF FunctorThrow
<1>17. ASSUME EndRound PROVE Base'
  BY <1>17 DEF EndRound
<1>18. ASSUME DisLoad PROVE Base'
  BY <1>18 DEF DisLoad
<1>19. ASSUME DisStore PROVE Base'
  BY <1>19 DEF DisStore
<1>20. ASSUME DisPark PROVE Base'
  BY <1>20 DEF DisPark
<1>21. ASSUME DisLeave PROVE Base'
  BY <1>21 DEF DisLeave
<1>22. ASSUME SpuriousWakeup PROVE Base'
  BY <1>22 DEF SpuriousWakeup, Woken, Parked
<1>23. ASSUME WakerCheck PROVE Base'
  BY <1>23 DEF WakerCheck
<1>24. ASSUME WakerToggleRead PROVE Base'
  BY <1>24 DEF WakerToggleRead
<1>25. ASSUME WakerToggleWrite PROVE Base'
  BY <1>25 DEF WakerToggleWrite
<1>26. ASSUME WakerLock PROVE Base'
  BY <1>26 DEF WakerLock
<1>27. ASSUME WakerNotify PROVE Base'
  BY <1>27 DEF WakerNotify, Woken
<1>28. ASSUME WakerReset PROVE Base'
  BY <1>28 DEF WakerReset
<1>29. ASSUME Stop PROVE Base'
  <2>1. isRun_' = FALSE /\ UNCHANGED <<clock, queue_, ts, m_sleep, m_wait,
                                       workerVars, wakerVars, ppc>>
    BY <1>29 DEF Stop
  <2>2. InHand' /\ RoundFits'
    BY <2>1
  <2>3. QED
    BY <2>1, <2>2
<1>30. ASSUME UNCHANGED vars PROVE Base'
  BY <1>30
<1>31. QED
  BY <1>1, <1>2, <1>3, <1>4, <1>5, <1>6, <1>7, <1>8, <1>9, <1>10, <1>11,
     <1>12, <1>13, <1>14, <1>15, <1>16, <1>17, <1>18, <1>19, <1>20, <1>21,
     <1>22, <1>23, <1>24, <1>25, <1>26, <1>27, <1>28, <1>29, <1>30 DEF Next,
     Push, Worker, Waker

(* Every variable keeps its type. *)
THEOREM TypeCorrect == Spec => []TypeOK
<1>1. Spec => []Base
  BY BaseInit, BaseStep, PTL DEF Spec
<1>2. QED
  BY <1>1, PTL DEF Base

(* front() and pop() find a task: the size read under an earlier lock is    *)
(* never more than what is in queue_.                                       *)
THEOREM NoPopEmptyHolds == Spec => []NoPopEmpty
<1>1. Base => NoPopEmpty
  BY DEF Base, RoundFits, NoPopEmpty
<1>2. QED
  BY <1>1, BaseInit, BaseStep, PTL DEF Spec

-----------------------------------------------------------------------------
(* Wakeups.  WakeupPending is not inductive: between isWait's write of      *)
(* m_wait and the park the waker may be anywhere in its toggle, but it      *)
(* cannot have passed putTask, which needs mutex.                           *)

Waking ==
  /\ wpc = "conWait" /\ queue_ # <<>> => \E t \in Tasks : ppc[t] = "notify"
  /\ wpc = "disReturn" /\ loaded > 0 =>
       m_wait \/ kpc \in {"toggleRead", "toggleWrite", "ready"}
  /\ wpc = "disWait" =>
       m_wait \/ kpc \in {"toggleRead", "toggleWrite", "ready", "notify"}

(* Every step preserves Waking. *)
LEMMA WakingStep ==
  ASSUME TypeOK, Waking, [Next]_vars
  PROVE  Waking'
<1> USE DEF TypeOK, Waking, Locked, vars, workerVars, wakerVars
<1>1. ASSUME Tick PROVE Waking'
  BY <1>1 DEF Tick
<1>2. ASSUME NEW t \in Tasks, PushBegin(t) PROVE Waking'
  BY <1>2 DEF PushBegin
<1>3. ASSUME NEW t \in Tasks, PushStamp(t) PROVE Waking'
  BY <1>3 DEF PushStamp
<1>4. ASSUME NEW t \in Tasks, PushPut(t) PROVE Waking'
  BY <1>4 DEF PushPut
<1>5. ASSUME NEW t \in Tasks, PushNotify(t) PROVE Waking'
  BY <1>5 DEF PushNotify, Woken
<1>6. ASSUME LoopStart PROVE Waking'
  BY <1>6 DEF LoopStart
<1>7. ASSUME LoopExit PROVE Waking'
  BY <1>7 DEF LoopExit
<1>8. ASSUME ConPark PROVE Waking'
  BY <1>8 DEF ConPark
<1>9. ASSUME ConSize PROVE Waking'
  BY <1>9 DEF ConSize, Queued
<1>10. ASSUME GetTask PROVE Waking'
  BY <1>10 DEF GetTask
<1>11. ASSUME PutBack PROVE Waking'
  BY <1>11 DEF PutBack
<1>12. ASSUME StartFunctor PROVE Waking'
  BY <1>12 DEF StartFunctor
<1>13. ASSUME FunctorFinish PROVE Waking'
  BY <1>13 DEF FunctorFinish
<1>14. ASSUME FunctorContinue PROVE Waking'
  BY <1>14 DEF FunctorContinue
<1>15. ASSUME Repost PROVE Waking'
  BY <1>15 DEF Repost
<1>16. ASSUME FunctorThrow PROVE Waking'
  BY <1>16 DEF FunctorThrow
<1>17. ASSUME EndRound PROVE Waking'
  BY <1>17 DEF EndRound
<1>18. ASSUME DisLoad PROVE Waking'
  BY <1>18 DEF DisLoad
<1>19. ASSUME DisStore PROVE Waking'
  BY <1>19 DEF DisStore
<1>20. ASSUME DisPark PROVE Waking'
  BY <1>20 DEF DisPark
<1>21. ASSUME DisLeave PROVE Waking'
  BY <1>21 DEF DisLeave
<1>22. ASSUME SpuriousWakeup PROVE Waking'
  BY <1>22 DEF SpuriousWakeup, Woken, Parked
<1>23. ASSUME WakerCheck PROVE Waking'
  BY <1>23 DEF WakerCheck
<1>24. ASSUME WakerToggleRead PROVE Waking'
  BY <1>24 DEF WakerToggleRead
<1>25. ASSUME WakerToggleWrite PROVE Waking'
  BY <1>25 DEF WakerToggleWrite
<1>26. ASSUME WakerLock PROVE Waking'
  BY <1>26 DEF WakerLock
<1>27. ASSUME WakerNotify PROVE Waking'
  BY <1>27 DEF WakerNotify, Woken
<1>28. ASSUME WakerReset PROVE Waking'
  BY <1>28 DEF WakerReset
<1>29. ASSUME Stop PROVE Waking'
  BY <1>29 DEF Stop
<1>30. ASSUME UNCHANGED vars PROVE Waking'
  BY <1>30
<1>31. QED
  BY <1>1, <1>2, <1>3, <1>4, <1>5, <1>6, <1>7, <1>8, <1>9, <1>10, <1>11,
     <1>12, <1>13, <1>14, <1>15, <1>16, <1>17, <1>18, <1>19, <1>20, <1>21,
     <1>22, <1>23, <1>24, <1>25, <1>26, <1>27, <1>28, <1>29, <1>30 DEF Next,
     Push, Worker, Waker

(* No lost wakeup. *)
THEOREM WakeupPendingHolds == Spec => []WakeupPending
<1>1. Init => Waking
  BY DEF Init, Waking
<1>2. Waking => WakeupPending
  BY DEF Waking, WakeupPending
<1>3. QED
  BY <1>1, <1>2, TypeCorrect, WakingStep, PTL DEF Spec

-----------------------------------------------------------------------------
(* One place for a task; what the worker has in hand has been pushed too.   *)

Place == OnePlace /\ (cur # NoTask => ppc[cur] \in {"notify", "posted"})

(* A push puts one more task into one place. *)
LEMMA OnePlaceAfter ==
  ASSUME OnePlace, NEW e, Distinct(queue_'),
         \A i \in 1..Len(queue_') : queue_'[i] = e \/ Holds(queue_, queue_'[i]),
         e # cur', ppc'[e] \in {"notify", "posted"}, cur' \in {cur, NoTask},
         ~Holds(queue_, NoTask), \A t : t # e => ppc'[t] = ppc[t]
  PROVE  OnePlace'
<1>1. ASSUME NEW i \in 1..Len(queue_')
      PROVE  queue_'[i] # cur' /\ ppc'[queue_'[i]] \in {"notify", "posted"}
  <2>1. CASE queue_'[i] = e
    BY <2>1
  <2>2. CASE queue_'[i] # e
    <3>1. PICK j \in 1..Len(queue_) : queue_[j] = queue_'[i]
      BY <2>2 DEF Holds
    <3>2. queue_[j] # cur /\ queue_[j] # NoTask
      BY DEF OnePlace, Holds
    <3>3. ppc[queue_[j]] \in {"notify", "posted"}
      BY DEF OnePlace
    <3>4. QED
      BY <2>2, <3>1, <3>2, <3>3
  <2>3. QED
    BY <2>1, <2>2
<1>2. QED
  BY <1>1 DEF OnePlace, Distinct

(* Every step preserves Place. *)
LEMMA PlaceStep ==
  ASSUME Base, Place, [Next]_vars
  PROVE  Place'
<1> USE TaskThreadAssumption DEF Base, TypeOK, InHand, RoundFits, Place,
        OnePlace, vars, workerVars, wakerVars
<1>1. ASSUME Tick PROVE Place'
  BY <1>1 DEF Tick
<1>2. ASSUME NEW t \in Tasks, PushBegin(t) PROVE Place'
  BY <1>2 DEF PushBegin
<1>3. ASSUME NEW t \in Tasks, PushStamp(t) PROVE Place'
  BY <1>3 DEF PushStamp
<1>4. ASSUME NEW t \in Tasks, PushPut(t) PROVE Place'
  <2>1. /\ queue_ \in Seq(Tasks) /\ Distinct(queue_)
        /\ t \in Tasks /\ ~Holds(queue_, t) /\ queue_' = Append(queue_, t)
    BY <1>4 DEF PushPut, Holds, Distinct
  <2>2. /\ Distinct(queue_')
        /\ \A i \in 1..Len(queue_') :
             queue_'[i] = t \/ Holds(queue_, queue_'[i])
    BY <2>1, AppendDistinct
  <2>3. cur # t /\ UNCHANGED cur /\ ppc' = [ppc EXCEPT ![t] = "notify"]
    BY <1>4 DEF PushPut
  <2>4. ~Holds(queue_, NoTask)
    BY <2>1 DEF Holds
  <2>5. ppc'[t] \in {"notify", "posted"}
    BY <2>1, <2>3
  <2>6. \A u : u # t => ppc'[u] = ppc[u]
    BY <2>3
  <2>7. OnePlace'
    BY <2>1, <2>2, <2>3, <2>4, <2>5, <2>6, OnePlaceAfter
  <2>8. QED
    BY <2>3, <2>7
<1>5. ASSUME NEW t \in Tasks, PushNotify(t) PROVE Place'
  BY <1>5 DEF PushNotify
<1>6. ASSUME LoopStart PROVE Place'
  BY <1>6 DEF LoopStart
<1>7. ASSUME LoopExit PROVE Place'
  BY <1>7 DEF LoopExit
<1>8. ASSUME ConPark PROVE Place'
  BY <1>8 DEF ConPark
<1>9. ASSUME ConSize PROVE Place'
  BY <1>9 DEF ConSize
<1>10. ASSUME GetTask PROVE Place'
  <2>1. /\ queue_ \in Seq(Tasks) /\ Distinct(queue_) /\ queue_ # <<>>
        /\ cur' = Head(queue_) /\ queue_' = Tail(queue_) /\ UNCHANGED ppc
    BY <1>10 DEF GetTask, Distinct
  <2>2. /\ Holds(queue_, cur') /\ Distinct(queue_')
        /\ \A i \in 1..Len(queue_') :
             queue_'[i] # cur' /\ Holds(queue_, queue_'[i])
    BY <2>1, PopDistinct
  <2>3. QED
    BY <2>1, <2>2 DEF Distinct, Holds
<1>11. ASSUME PutBack PROVE Place'
  <2>1. /\ queue_ \in Seq(Tasks) /\ Distinct(queue_)
        /\ cur \in Tasks /\ ~Holds(queue_, cur) /\ queue_' = Append(queue_, cur)
    BY <1>11 DEF PutBack, Holds, Distinct
  <2>2. /\ Distinct(queue_')
        /\ \A i \in 1..Len(queue_') :
             queue_'[i] = cur \/ Holds(queue_, queue_'[i])
    BY <2>1, AppendDistinct
  <2>3. cur' = NoTask /\ UNCHANGED ppc
    BY <1>11 DEF PutBack
  <2>4. ~Holds(queue_, NoTask)
    BY <2>1 DEF Holds
  <2>5. ppc'[cur] \in {"notify", "posted"}
    BY <2>1, <2>3
  <2>6. \A u : u # cur => ppc'[u] = ppc[u]
    BY <2>3
  <2>7. OnePlace'
    BY <2>1, <2>2, <2>3, <2>4, <2>5, <2>6, OnePlaceAfter
  <2>8. QED
    BY <2>3, <2>7
<1>12. ASSUME StartFunctor PROVE Place'
  BY <1>12 DEF StartFunctor
<1>13. ASSUME FunctorFinish PROVE Place'
  BY <1>13 DEF FunctorFinish
<1>14. ASSUME FunctorContinue PROVE Place'
  BY <1>14 DEF FunctorContinue
<1>15. ASSUME Repost PROVE Place'
  <2>1. /\ queue_ \in Seq(Tasks) /\ Distinct(queue_)
        /\ cur \in Tasks /\ ~Holds(queue_, cur) /\ queue_' = Append(queue_, cur)
    BY <1>15 DEF Repost, Holds, Distinct
  <2>2. /\ Distinct(queue_')
        /\ \A i \in 1..Len(queue_') :
             queue_'[i] = cur \/ Holds(queue_, queue_'[i])
    BY <2>1, AppendDistinct
  <2>3. cur' = NoTask /\ UNCHANGED ppc
    BY <1>15 DEF Repost
  <2>4. ~Holds(queue_, NoTask)
    BY <2>1 DEF Holds
  <2>5. ppc'[cur] \in {"notify", "posted"}
    BY <2>1, <2>3
  <2>6. \A u : u # cur => ppc'[u] = ppc[u]
    BY <2>3
  <2>7. OnePlace'
    BY <2>1, <2>2, <2>3, <2>4, <2>5, <2>6, OnePlaceAfter
  <2>8. QED
    BY <2>3, <2>7
<1>16. ASSUME FunctorThrow PROVE Place'
  BY <1>16 DEF FunctorThrow
<1>17. ASSUME EndRound PROVE Place'
  BY <1>17 DEF EndRound
<1>18. ASSUME DisLoad PROVE Place'
  BY <1>18 DEF DisLoad
<1>19. ASSUME DisStore PROVE Place'
  BY <1>19 DEF DisStore
<1>20. ASSUME DisPark PROVE Place'
  BY <1>20 DEF DisPark
<1>21. ASSUME DisLeave PROVE Place'
  BY <1>21 DEF DisLeave
<1>22. ASSUME SpuriousWakeup PROVE Place'
  BY <1>22 DEF SpuriousWakeup
<1>23. ASSUME WakerCheck PROVE Place'
  BY <1>23 DEF WakerCheck
<1>24. ASSUME WakerToggleRead PROVE Place'
  BY <1>24 DEF WakerToggleRead
<1>25. ASSUME WakerToggleWrite PROVE Place'
  BY <1>25 DEF WakerToggleWrite
<1>26. ASSUME WakerLock PROVE Place'
  BY <1>26 DEF WakerLock
<1>27. ASSUME WakerNotify PROVE Place'
  BY <1>27 DEF WakerNotify
<1>28. ASSUME WakerReset PROVE Place'
  BY <1>28 DEF WakerReset
<1>29. ASSUME Stop PROVE Place'
  BY <1>29 DEF Stop
<1>30. ASSUME UNCHANGED vars PROVE Place'
  BY <1>30
<1>31. QED
  BY <1>1, <1>2, <1>3, <1>4, <1>5, <1>6, <1>7, <1>8, <1>9, <1>10, <1>11,
     <1>12, <1>13, <1>14, <1>15, <1>16, <1>17, <1>18, <1>19, <1>20, <1>21,
     <1>22, <1>23, <1>24, <1>25, <1>26, <1>27, <1>28, <1>29, <1>30 DEF Next,
     Push, Worker, Waker

(* A task is never in two places. *)
THEOREM OnePlaceHolds == Spec => []OnePlace
<1>1. Init => Place
  BY DEF Init, Place, OnePlace
<1>2. Spec => []Base
  BY BaseInit, BaseStep, PTL DEF Spec
<1>3. QED
  BY <1>1, <1>2, PlaceStep, PTL DEF Spec, Place

-----------------------------------------------------------------------------
(* The time the round compares with is never ahead of the clock.            *)

Past == realtime <= clock

(* Every step preserves Past. *)
LEMMA PastStep ==
  ASSUME TypeOK, Past, [Next]_vars
  PROVE  Past'
<1> USE DEF TypeOK, Past, vars, workerVars, wakerVars
<1>1. ASSUME Tick PROVE Past'
  BY <1>1 DEF Tick
<1>2. ASSUME NEW t \in Tasks, PushBegin(t) PROVE Past'
  BY <1>2 DEF PushBegin
<1>3. ASSUME NEW t \in Tasks, PushStamp(t) PROVE Past'
  BY <1>3 DEF PushStamp
<1>4. ASSUME NEW t \in Tasks, PushPut(t) PROVE Past'
  BY <1>4 DEF PushPut
<1>5. ASSUME NEW t \in Tasks, PushNotify(t) PROVE Past'
  BY <1>5 DEF PushNotify
<1>6. ASSUME LoopStart PROVE Past'
  BY <1>6 DEF LoopStart
<1>7. ASSUME LoopExit PROVE Past'
  BY <1>7 DEF LoopExit
<1>8. ASSUME ConPark PROVE Past'
  BY <1>8 DEF ConPark
<1>9. ASSUME ConSize PROVE Past'
  BY <1>9 DEF ConSize
<1>10. ASSUME GetTask PROVE Past'
  BY <1>10 DEF GetTask
<1>11. ASSUME PutBack PROVE Past'
  BY <1>11 DEF PutBack
<1>12. ASSUME StartFunctor PROVE Past'
  BY <1>12 DEF StartFunctor
<1>13. ASSUME FunctorFinish PROVE Past'
  BY <1>13 DEF FunctorFinish
<1>14. ASSUME FunctorContinue PROVE Past'
  BY <1>14 DEF FunctorContinue
<1>15. ASSUME Repost PROVE Past'
  BY <1>15 DEF Repost
<1>16. ASSUME FunctorThrow PROVE Past'
  BY <1>16 DEF FunctorThrow
<1>17. ASSUME EndRound PROVE Past'
  BY <1>17 DEF EndRound
<1>18. ASSUME DisLoad PROVE Past'
  BY <1>18 DEF DisLoad
<1>19. ASSUME DisStore PROVE Past'
  BY <1>19 DEF DisStore
<1>20. ASSUME DisPark PROVE Past'
  BY <1>20 DEF DisPark
<1>21. ASSUME DisLeave PROVE Past'
  BY <1>21 DEF DisLeave
<1>22. ASSUME SpuriousWakeup PROVE Past'
  BY <1>22 DEF SpuriousWakeup
<1>23. ASSUME WakerCheck PROVE Past'
  BY <1>23 DEF WakerCheck
<1>24. ASSUME WakerToggleRead PROVE Past'
  BY <1>24 DEF WakerToggleRead
<1>25. ASSUME WakerToggleWrite PROVE Past'
  BY <1>25 DEF WakerToggleWrite
<1>26. ASSUME WakerLock PROVE Past'
  BY <1>26 DEF WakerLock
<1>27. ASSUME WakerNotify PROVE Past'
  BY <1>27 DEF WakerNotify
<1>28. ASSUME WakerReset PROVE Past'
  BY <1>28 DEF WakerReset
<1>29. ASSUME Stop PROVE Past'
  BY <1>29 DEF Stop
<1>30. ASSUME UNCHANGED vars PROVE Past'
  BY <1>30
<1>31. QED
  BY <1>1, <1>2, <1>3, <1>4, <1>5, <1>6, <1>7, <1>8, <1>9, <1>10, <1>11,
     <1>12, <1>13, <1>14, <1>15, <1>16, <1>17, <1>18, <1>19, <1>20, <1>21,
     <1>22, <1>23, <1>24, <1>25, <1>26, <1>27, <1>28, <1>29, <1>30 DEF Next,
     Push, Worker, Waker

(* No functor is called before its time. *)
THEOREM NotEarlyHolds == Spec => NotEarly
<1> DEFINE Due == \A t \in Tasks : (wpc' = "run" /\ wpc # "run" /\ cur = t)
                                   => clock - ts[t] >= Ms[t]
<1>1. Init => Past
  BY DEF Init, Past
<1>2. ASSUME Base, Past, [Next]_vars PROVE Due
  <2> USE TaskThreadAssumption DEF Base, TypeOK, InHand, Past
  <2>1. CASE StartFunctor
    BY <1>2, <2>1 DEF StartFunctor, NotDue
  <2>2. CASE wpc' = wpc
    BY <2>2
  <2>3. ASSUME wpc' # wpc, wpc' = "run" PROVE StartFunctor
    BY <1>2, <2>3 DEF Next, Push, Worker, Waker, vars, workerVars, wakerVars,
       Tick, PushBegin, PushStamp, PushPut, PushNotify, LoopStart, LoopExit,
       ConPark, ConSize, GetTask, PutBack, FunctorFinish, FunctorContinue,
       Repost, FunctorThrow, EndRound, DisLoad, DisStore, DisPark, DisLeave,
       SpuriousWakeup, Woken, Parked, WakerCheck, WakerToggleRead,
       WakerToggleWrite, WakerLock, WakerNotify, WakerReset, Stop
  <2>4. QED
    BY <2>1, <2>2, <2>3
<1>3. Spec => []Base
  BY BaseInit, BaseStep, PTL DEF Spec
<1>4. Spec => []Past
  BY <1>1, TypeCorrect, PastStep, PTL DEF Spec
<1>5. QED
  BY <1>2, <1>3, <1>4, PTL DEF Spec, NotEarly

-----------------------------------------------------------------------------
(* What is in queue_ after a push or a pop.                                 *)

(* A push adds its task and nothing else. *)
LEMMA QueuedAppend ==
  ASSUME NEW q \in Seq(Tasks), NEW e \in Tasks, NEW t
  PROVE  Holds(Append(q, e), t) <=> Holds(q, t) \/ t = e
<1> DEFINE r == Append(q, e)
<1>1. /\ Len(q) \in Nat /\ Len(r) = Len(q) + 1 /\ r[Len(q) + 1] = e
      /\ \A i \in 1..Len(q) : r[i] = q[i]
  BY AppendFacts
<1> HIDE DEF r
<1>2. 1..Len(r) = 1..Len(q) \cup {Len(q) + 1}
  BY <1>1
<1>3. Holds(r, t) <=> Holds(q, t) \/ t = e
  BY <1>1, <1>2 DEF Holds
<1>4. QED
  BY <1>3 DEF r

(* A pop removes no task but the first. *)
LEMMA QueuedPop ==
  ASSUME NEW q \in Seq(Tasks), q # <<>>, NEW t
  PROVE  Holds(q, t) <=> Holds(Tail(q), t) \/ t = Head(q)
<1> DEFINE r == Tail(q)
<1>1. /\ Len(q) \in Nat \ {0} /\ Len(r) = Len(q) - 1 /\ Head(q) = q[1]
      /\ \A i \in 1..Len(r) : r[i] = q[i + 1]
  BY PopFacts
<1> HIDE DEF r
<1>2. \A i \in 1..Len(q) : i = 1 \/ i - 1 \in 1..Len(r)
  BY <1>1
<1>3. \A i \in 1..Len(r) : i + 1 \in 1..Len(q) /\ 1 \in 1..Len(q)
  BY <1>1
<1>4. ASSUME Holds(q, t) PROVE Holds(r, t) \/ t = Head(q)
  <2>1. PICK i \in 1..Len(q) : q[i] = t
    BY <1>4 DEF Holds
  <2>2. CASE i = 1
    BY <1>1, <2>1, <2>2
  <2>3. CASE i - 1 \in 1..Len(r)
    <3>1. r[i - 1] = q[(i - 1) + 1] /\ (i - 1) + 1 = i
      BY <1>1, <2>3
    <3>2. QED
      BY <2>1, <2>3, <3>1 DEF Holds
  <2>4. QED
    BY <1>2, <2>2, <2>3
<1>5. ASSUME Holds(r, t) PROVE Holds(q, t)
  <2>1. PICK i \in 1..Len(r) : r[i] = t
    BY <1>5 DEF Holds
  <2>2. QED
    BY <1>1, <1>3, <2>1 DEF Holds
<1>6. t = Head(q) => Holds(q, t)
  BY <1>1 DEF Holds
<1>7. QED
  BY <1>4, <1>5, <1>6 DEF r

-----------------------------------------------------------------------------
(* Recurring tasks.                                                         *)

Kept(t) == Outcomes[t] = {"CONTINUE"} /\ ppc[t] \in {"notify", "posted"}
             => Holds(queue_, t) \/ cur = t

AllKept == \A t \in Tasks : Kept(t)

(* Every step keeps the recurring tasks. *)
LEMMA KeptStep ==
  ASSUME Base, AllKept, [Next]_vars
  PROVE  AllKept'
<1> USE TaskThreadAssumption DEF Base, TypeOK, InHand, RoundFits, AllKept,
        Kept, vars, workerVars, wakerVars
<1>1. ASSUME Tick PROVE AllKept'
  BY <1>1 DEF Tick, Holds
<1>2. ASSUME NEW t \in Tasks, PushBegin(t) PROVE AllKept'
  BY <1>2 DEF PushBegin, Holds
<1>3. ASSUME NEW t \in Tasks, PushStamp(t) PROVE AllKept'
  BY <1>3 DEF PushStamp, Holds
<1>4. ASSUME NEW t \in Tasks, PushPut(t) PROVE AllKept'
  <2>1. /\ queue_ \in Seq(Tasks) /\ t \in Tasks
        /\ queue_' = Append(queue_, t)
    BY <1>4 DEF PushPut
  <2>2. \A u \in Tasks : Holds(queue_', u) <=> Holds(queue_, u) \/ u = t
    BY <2>1, QueuedAppend
  <2>3. QED
    BY <1>4, <2>2 DEF PushPut
<1>5. ASSUME NEW t \in Tasks, PushNotify(t) PROVE AllKept'
  BY <1>5 DEF PushNotify, Holds
<1>6. ASSUME LoopStart PROVE AllKept'
  BY <1>6 DEF LoopStart, Holds
<1>7. ASSUME LoopExit PROVE AllKept'
  BY <1>7 DEF LoopExit, Holds
<1>8. ASSUME ConPark PROVE AllKept'
  BY <1>8 DEF ConPark, Holds
<1>9. ASSUME ConSize PROVE AllKept'
  BY <1>9 DEF ConSize, Holds
<1>10. ASSUME GetTask PROVE AllKept'
  <2>1. /\ queue_ \in Seq(Tasks) /\ queue_ # <<>>
        /\ queue_' = Tail(queue_) /\ cur' = Head(queue_)
    BY <1>10 DEF GetTask
  <2>2. \A u \in Tasks : Holds(queue_, u) <=> Holds(queue_', u) \/ u = cur'
    BY <2>1, QueuedPop
  <2>3. QED
    BY <1>10, <2>2 DEF GetTask
<1>11. ASSUME PutBack PROVE AllKept'
  <2>1. /\ queue_ \in Seq(Tasks) /\ cur \in Tasks
        /\ queue_' = Append(queue_, cur)
    BY <1>11 DEF PutBack
  <2>2. \A u \in Tasks : Holds(queue_', u) <=> Holds(queue_, u) \/ u = cur
    BY <2>1, QueuedAppend
  <2>3. QED
    BY <1>11, <2>2 DEF PutBack
<1>12. ASSUME StartFunctor PROVE AllKept'
  BY <1>12 DEF StartFunctor, Holds
<1>13. ASSUME FunctorFinish PROVE AllKept'
  BY <1>13 DEF FunctorFinish, Holds
<1>14. ASSUME FunctorContinue PROVE AllKept'
  BY <1>14 DEF FunctorContinue, Holds
<1>15. ASSUME Repost PROVE AllKept'
  <2>1. /\ queue_ \in Seq(Tasks) /\ cur \in Tasks
        /\ queue_' = Append(queue_, cur)
    BY <1>15 DEF Repost
  <2>2. \A u \in Tasks : Holds(queue_', u) <=> Holds(queue_, u) \/ u = cur
    BY <2>1, QueuedAppend
  <2>3. QED
    BY <1>15, <2>2 DEF Repost
<1>16. ASSUME FunctorThrow PROVE AllKept'
  <2>1. "THROW" \in Outcomes[cur] /\ UNCHANGED <<queue_, ppc>>
    BY <1>16 DEF FunctorThrow
  <2>2. \A u \in Tasks : Holds(queue_', u) <=> Holds(queue_, u)
    BY <2>1
  <2>3. \A u \in Tasks : Outcomes[u] = {"CONTINUE"} => u # cur
    BY <2>1
  <2>4. QED
    BY <2>1, <2>2, <2>3
<1>17. ASSUME EndRound PROVE AllKept'
  BY <1>17 DEF EndRound, Holds
<1>18. ASSUME DisLoad PROVE AllKept'
  BY <1>18 DEF DisLoad, Holds
<1>19. ASSUME DisStore PROVE AllKept'
  BY <1>19 DEF DisStore, Holds
<1>20. ASSUME DisPark PROVE AllKept'
  BY <1>20 DEF DisPark, Holds
<1>21. ASSUME DisLeave PROVE AllKept'
  BY <1>21 DEF DisLeave, Holds
<1>22. ASSUME SpuriousWakeup PROVE AllKept'
  BY <1>22 DEF SpuriousWakeup, Holds
<1>23. ASSUME WakerCheck PROVE AllKept'
  BY <1>23 DEF WakerCheck, Holds
<1>24. ASSUME WakerToggleRead PROVE AllKept'
  BY <1>24 DEF WakerToggleRead, Holds
<1>25. ASSUME WakerToggleWrite PROVE AllKept'
  BY <1>25 DEF WakerToggleWrite, Holds
<1>26. ASSUME WakerLock PROVE AllKept'
  BY <1>26 DEF WakerLock, Holds
<1>27. ASSUME WakerNotify PROVE AllKept'
  BY <1>27 DEF WakerNotify, Holds
<1>28. ASSUME WakerReset PROVE AllKept'
  BY <1>28 DEF WakerReset, Holds
<1>29. ASSUME Stop PROVE AllKept'
  BY <1>29 DEF Stop, Holds
<1>30. ASSUME UNCHANGED vars PROVE AllKept'
  BY <1>30 DEF Holds
<1>31. QED
  BY <1>1, <1>2, <1>3, <1>4, <1>5, <1>6, <1>7, <1>8, <1>9, <1>10, <1>11,
     <1>12, <1>13, <1>14, <1>15, <1>16, <1>17, <1>18, <1>19, <1>20, <1>21,
     <1>22, <1>23, <1>24, <1>25, <1>26, <1>27, <1>28, <1>29, <1>30 DEF Next,
     Push, Worker, Waker

(* A recurring task is never dropped. *)
THEOREM RecurringTaskKeptHolds == Spec => []RecurringTaskKept
<1>1. Init => AllKept
  BY DEF Init, AllKept, Kept
<1>2. AllKept => RecurringTaskKept
  BY DEF AllKept, Kept, RecurringTaskKept, Queued, Holds
<1>3. Spec => []Base
  BY BaseInit, BaseStep, PTL DEF Spec
<1>4. QED
  BY <1>1, <1>2, <1>3, KeptStep, PTL DEF Spec

-----------------------------------------------------------------------------
(* Rounds.  A task that was due when the round took its size is among the   *)
(* next `size` tasks of queue_, or in hand and about to be called: the      *)
(* tasks put back and pushed meanwhile are all behind it.                   *)

Ahead(t) == \E i \in 1..size : queue_[i] = t

Owing ==
  wpc \in {"batch", "got", "run", "repost"} =>
    \A t \in owed : ~NotDue(t, realtime) /\ (Ahead(t) \/ (wpc = "got" /\ cur = t))

(* A task the round owes a call was posted, and is not the one that has   *)
(* been called.                                                            *)
LEMMA OwedPosted ==
  ASSUME Base, Place, Owing, wpc \in {"batch", "got", "run", "repost"},
         NEW u \in owed
  PROVE  ppc[u] \in {"notify", "posted"} /\ (wpc # "got" => u # cur)
<1>1. CASE Ahead(u)
  <2>1. PICK i \in 1..size : queue_[i] = u
    BY <1>1 DEF Ahead
  <2>2. i \in 1..Len(queue_)
    BY DEF Base, TypeOK, RoundFits
  <2>3. QED
    BY <2>1, <2>2 DEF Place, OnePlace
<1>2. CASE wpc = "got" /\ cur = u
  BY <1>2, TaskThreadAssumption DEF Base, InHand, Place
<1>3. QED
  BY <1>1, <1>2 DEF Owing

(* Every step preserves Owing. *)
LEMMA OwingStep ==
  ASSUME Base, Place, Owing, [Next]_vars
  PROVE  Owing'
<1> USE TaskThreadAssumption DEF Base, TypeOK, InHand, RoundFits, Place,
        OnePlace, Owing, Ahead, NotDue, vars, workerVars, wakerVars
<1>1. ASSUME Tick PROVE Owing'
  BY <1>1 DEF Tick
<1>2. ASSUME NEW t \in Tasks, PushBegin(t) PROVE Owing'
  BY <1>2 DEF PushBegin
<1>3. ASSUME NEW t \in Tasks, PushStamp(t) PROVE Owing'
  <2>1. \A u \in owed : wpc \in {"batch", "got", "run", "repost"} => u # t
    BY <1>3, OwedPosted DEF PushStamp
  <2>2. QED
    BY <1>3, <2>1 DEF PushStamp
<1>4. ASSUME NEW t \in Tasks, PushPut(t) PROVE Owing'
  <2>1. /\ queue_ \in Seq(Tasks) /\ t \in Tasks
        /\ queue_' = Append(queue_, t)
    BY <1>4 DEF PushPut
  <2>2. \A i \in 1..Len(queue_) : queue_'[i] = queue_[i]
    BY <2>1, AppendFacts
  <2>3. wpc \in {"batch", "got", "run", "repost"} =>
          \A i \in 1..size : queue_'[i] = queue_[i]
    BY <2>2
  <2>4. QED
    BY <1>4, <2>3 DEF PushPut
<1>5. ASSUME NEW t \in Tasks, PushNotify(t) PROVE Owing'
  BY <1>5 DEF PushNotify, Woken
<1>6. ASSUME LoopStart PROVE Owing'
  BY <1>6 DEF LoopStart
<1>7. ASSUME LoopExit PROVE Owing'
  BY <1>7 DEF LoopExit
<1>8. ASSUME ConPark PROVE Owing'
  BY <1>8 DEF ConPark
<1>9. ASSUME ConSize PROVE Owing'
  BY <1>9 DEF ConSize, Queued
<1>10. ASSUME GetTask PROVE Owing'
  <2>1. /\ size > 0 /\ queue_ \in Seq(Tasks) /\ queue_ # <<>>
        /\ queue_' = Tail(queue_) /\ cur' = Head(queue_) /\ size' = size - 1
        /\ wpc = "batch" /\ wpc' = "got" /\ UNCHANGED <<owed, ts, realtime>>
    BY <1>10 DEF GetTask
  <2>2. /\ Len(queue_') = Len(queue_) - 1 /\ cur' = queue_[1]
        /\ \A i \in 1..Len(queue_') : queue_'[i] = queue_[i + 1]
    BY <2>1, PopFacts
  <2>3. ASSUME NEW i \in 1..size, i # 1
        PROVE  i - 1 \in 1..size' /\ queue_'[i - 1] = queue_[i]
    <3>1. i - 1 \in 1..size' /\ i - 1 \in 1..Len(queue_')
      BY <2>1, <2>2, <2>3
    <3>2. queue_'[i - 1] = queue_[(i - 1) + 1] /\ (i - 1) + 1 = i
      BY <2>2, <3>1
    <3>3. QED
      BY <3>1, <3>2
  <2>4. ASSUME NEW u \in owed PROVE Ahead(u)' \/ cur' = u
    <3>1. PICK i \in 1..size : queue_[i] = u
      BY <2>1
    <3>2. CASE i = 1
      BY <2>2, <3>1, <3>2
    <3>3. CASE i # 1
      BY <2>3, <3>1, <3>3
    <3>4. QED
      BY <3>2, <3>3
  <2>5. QED
    BY <2>1, <2>4
<1>11. ASSUME PutBack PROVE Owing'
  <2>1. /\ queue_ \in Seq(Tasks) /\ cur \in Tasks
        /\ queue_' = Append(queue_, cur)
    BY <1>11 DEF PutBack
  <2>2. \A i \in 1..Len(queue_) : queue_'[i] = queue_[i]
    BY <2>1, AppendFacts
  <2>3. wpc \in {"batch", "got", "run", "repost"} =>
          \A i \in 1..size : queue_'[i] = queue_[i]
    BY <2>2
  <2>4. /\ wpc = "got" /\ NotDue(cur, realtime) /\ wpc' = "batch"
        /\ UNCHANGED <<owed, size, realtime, ts>>
    BY <1>11 DEF PutBack
  <2>5. ASSUME NEW u \in owed
        PROVE  ~NotDue(u, realtime)' /\ Ahead(u)'
    <3>1. ~NotDue(u, realtime) /\ u # cur
      BY <2>4
    <3>2. PICK i \in 1..size : queue_[i] = u
      BY <2>4, <3>1
    <3>3. i \in 1..size' /\ queue_'[i] = u
      BY <2>3, <2>4, <3>2
    <3>4. QED
      BY <2>4, <3>1, <3>3
  <2>6. QED
    BY <2>4, <2>5
<1>12. ASSUME StartFunctor PROVE Owing'
  BY <1>12 DEF StartFunctor
<1>13. ASSUME FunctorFinish PROVE Owing'
  BY <1>13 DEF FunctorFinish
<1>14. ASSUME FunctorContinue PROVE Owing'
  <2>1. \A u \in owed : u # cur
    BY <1>14, OwedPosted DEF FunctorContinue
  <2>2. QED
    BY <1>14, <2>1 DEF FunctorContinue
<1>15. ASSUME Repost PROVE Owing'
  <2>1. /\ queue_ \in Seq(Tasks) /\ cur \in Tasks
        /\ queue_' = Append(queue_, cur)
    BY <1>15 DEF Repost
  <2>2. \A i \in 1..Len(queue_) : queue_'[i] = queue_[i]
    BY <2>1, AppendFacts
  <2>3. wpc \in {"batch", "got", "run", "repost"} =>
          \A i \in 1..size : queue_'[i] = queue_[i]
    BY <2>2
  <2>4. QED
    BY <1>15, <2>3 DEF Repost
<1>16. ASSUME FunctorThrow PROVE Owing'
  BY <1>16 DEF FunctorThrow
<1>17. ASSUME EndRound PROVE Owing'
  BY <1>17 DEF EndRound
<1>18. ASSUME DisLoad PROVE Owing'
  BY <1>18 DEF DisLoad
<1>19. ASSUME DisStore PROVE Owing'
  BY <1>19 DEF DisStore
<1>20. ASSUME DisPark PROVE Owing'
  BY <1>20 DEF DisPark
<1>21. ASSUME DisLeave PROVE Owing'
  BY <1>21 DEF DisLeave
<1>22. ASSUME SpuriousWakeup PROVE Owing'
  BY <1>22 DEF SpuriousWakeup, Woken, Parked
<1>23. ASSUME WakerCheck PROVE Owing'
  BY <1>23 DEF WakerCheck
<1>24. ASSUME WakerToggleRead PROVE Owing'
  BY <1>24 DEF WakerToggleRead
<1>25. ASSUME WakerToggleWrite PROVE Owing'
  BY <1>25 DEF WakerToggleWrite
<1>26. ASSUME WakerLock PROVE Owing'
  BY <1>26 DEF WakerLock
<1>27. ASSUME WakerNotify PROVE Owing'
  BY <1>27 DEF WakerNotify, Woken
<1>28. ASSUME WakerReset PROVE Owing'
  BY <1>28 DEF WakerReset
<1>29. ASSUME Stop PROVE Owing'
  BY <1>29 DEF Stop
<1>30. ASSUME UNCHANGED vars PROVE Owing'
  BY <1>30
<1>31. QED
  BY <1>1, <1>2, <1>3, <1>4, <1>5, <1>6, <1>7, <1>8, <1>9, <1>10, <1>11,
     <1>12, <1>13, <1>14, <1>15, <1>16, <1>17, <1>18, <1>19, <1>20, <1>21,
     <1>22, <1>23, <1>24, <1>25, <1>26, <1>27, <1>28, <1>29, <1>30 DEF Next,
     Push, Worker, Waker

(* A round that runs to its end has started every task it found due. *)
THEOREM RoundCoversHolds == Spec => []RoundCovers
<1>1. Init => Place /\ Owing
  BY DEF Init, Place, OnePlace, Owing
<1>2. TypeOK /\ Owing => RoundCovers
  BY DEF TypeOK, Owing, Ahead, RoundCovers
<1>3. Spec => []Base
  BY BaseInit, BaseStep, PTL DEF Spec
<1>4. Spec => []Place
  BY <1>1, <1>3, PlaceStep, PTL DEF Spec
<1>5. Spec => []Owing
  BY <1>1, <1>3, <1>4, OwingStep, PTL DEF Spec
<1>6. QED
  BY <1>2, <1>5, TypeCorrect, PTL

-----------------------------------------------------------------------------
(* The thread implements TaskService.  Every step is a step of the service  *)
(* or leaves clock, ts and every State(t) as they are.                      *)

Stutter == (\A u \in Tasks : State(u)' = State(u)) /\ UNCHANGED <<clock, ts>>

Served == Stutter \/ Service!Next

(* The step simulation: what each action is for the service. *)
LEMMA ServedStep ==
  ASSUME Base, Place, Past, [Next]_vars
  PROVE  Served
<1>q. /\ \A u \in Tasks : Queued(u) <=> Holds(queue_, u)
      /\ \A u \in Tasks : Queued(u)' <=> Holds(queue_', u)
      /\ \A u \in Tasks : Holds(queue_, u) =>
           u # cur /\ ppc[u] \in {"notify", "posted"}
  BY DEF Queued, Holds, Place, OnePlace
<1> USE TaskThreadAssumption DEF Base, TypeOK, InHand, RoundFits, Past, Served,
        Place, vars, workerVars, wakerVars
<1>1. ASSUME Tick PROVE Served
  <2>1. \A u \in Tasks : State(u)' = State(u)
    BY <1>1, <1>q DEF Tick, State
  <2>2. Service!Tick
    BY <1>1, <2>1 DEF Tick, Service!Tick
  <2>3. QED
    BY <2>2 DEF Service!Next
<1>2. ASSUME NEW t \in Tasks, PushBegin(t) PROVE Served
  BY <1>2, <1>q DEF PushBegin, Stutter, State
<1>3. ASSUME NEW t \in Tasks, PushStamp(t) PROVE Served
  <2>1. /\ t \in Tasks /\ State(t) = "idle"
        /\ \A u \in Tasks : State(u)' = IF u = t THEN "pending" ELSE State(u)
    BY <1>3, <1>q DEF PushStamp, State
  <2>2. [u \in Tasks |-> State(u)']
          = [[u \in Tasks |-> State(u)] EXCEPT ![t] = "pending"]
    BY <2>1
  <2>3. Service!Post(t)
    BY <1>3, <2>1, <2>2 DEF PushStamp, NotDue, Service!Post
  <2>4. QED
    BY <2>1, <2>3 DEF Service!Next
<1>4. ASSUME NEW t \in Tasks, PushPut(t) PROVE Served
  <2>1. /\ queue_ \in Seq(Tasks) /\ t \in Tasks
        /\ queue_' = Append(queue_, t)
    BY <1>4 DEF PushPut
  <2>2. \A u \in Tasks : Holds(queue_', u) <=> Holds(queue_, u) \/ u = t
    BY <2>1, QueuedAppend
  <2>3. QED
    BY <1>4, <1>q, <2>2 DEF PushPut, Stutter, State
<1>5. ASSUME NEW t \in Tasks, PushNotify(t) PROVE Served
  BY <1>5, <1>q DEF PushNotify, Stutter, State, Woken, Parked
<1>6. ASSUME LoopStart PROVE Served
  BY <1>6, <1>q DEF LoopStart, Stutter, State
<1>7. ASSUME LoopExit PROVE Served
  BY <1>7, <1>q DEF LoopExit, Stutter, State
<1>8. ASSUME ConPark PROVE Served
  BY <1>8, <1>q DEF ConPark, Stutter, State
<1>9. ASSUME ConSize PROVE Served
  BY <1>9, <1>q DEF ConSize, Stutter, State
<1>10. ASSUME GetTask PROVE Served
  <2>1. /\ queue_ \in Seq(Tasks) /\ queue_ # <<>>
        /\ queue_' = Tail(queue_) /\ cur' = Head(queue_)
    BY <1>10 DEF GetTask
  <2>2. \A u \in Tasks : Holds(queue_, u) <=> Holds(queue_', u) \/ u = cur'
    BY <2>1, QueuedPop
  <2>3. QED
    BY <1>10, <1>q, <2>1, <2>2 DEF GetTask, Stutter, State
<1>11. ASSUME PutBack PROVE Served
  <2>1. /\ queue_ \in Seq(Tasks) /\ cur \in Tasks
        /\ queue_' = Append(queue_, cur)
    BY <1>11 DEF PutBack
  <2>2. \A u \in Tasks : Holds(queue_', u) <=> Holds(queue_, u) \/ u = cur
    BY <2>1, QueuedAppend
  <2>3. QED
    BY <1>11, <1>q, <2>2 DEF PutBack, Stutter, State
<1>12. ASSUME StartFunctor PROVE Served
  <2>1. /\ cur \in Tasks /\ State(cur) = "pending"
        /\ \A u \in Tasks : State(u)' = IF u = cur THEN "running" ELSE State(u)
    BY <1>12, <1>q DEF StartFunctor, State
  <2>2. [u \in Tasks |-> State(u)']
          = [[u \in Tasks |-> State(u)] EXCEPT ![cur] = "running"]
    BY <2>1
  <2>3. Service!Call(cur)
    <3>1. \A u \in Tasks : State(u) # "running"
      BY <1>12 DEF StartFunctor, State
    <3>2. clock - ts[cur] >= Ms[cur]
      BY <1>12, <2>1 DEF StartFunctor, NotDue
    <3>3. QED
      BY <1>12, <2>1, <2>2, <3>1, <3>2 DEF StartFunctor, Service!Call
  <2>4. QED
    BY <2>1, <2>3 DEF Service!Next
<1>13. ASSUME FunctorFinish PROVE Served
  <2>1. /\ cur \in Tasks /\ State(cur) = "running"
        /\ \A u \in Tasks : State(u)' = IF u = cur THEN "gone" ELSE State(u)
    BY <1>13, <1>q DEF FunctorFinish, State
  <2>2. [u \in Tasks |-> State(u)']
          = [[u \in Tasks |-> State(u)] EXCEPT ![cur] = "gone"]
    BY <2>1
  <2>3. Service!Drop(cur)
    BY <1>13, <2>1, <2>2 DEF FunctorFinish, NotDue, Service!Drop
  <2>4. QED
    BY <2>1, <2>3 DEF Service!Next
<1>14. ASSUME FunctorContinue PROVE Served
  <2>1. /\ cur \in Tasks /\ State(cur) = "running"
        /\ \A u \in Tasks : State(u)' = IF u = cur THEN "pending" ELSE State(u)
    BY <1>14, <1>q DEF FunctorContinue, State
  <2>2. [u \in Tasks |-> State(u)']
          = [[u \in Tasks |-> State(u)] EXCEPT ![cur] = "pending"]
    BY <2>1
  <2>3. Service!Rearm(cur)
    BY <1>14, <2>1, <2>2 DEF FunctorContinue, NotDue, Service!Rearm
  <2>4. QED
    BY <2>1, <2>3 DEF Service!Next
<1>15. ASSUME Repost PROVE Served
  <2>1. /\ queue_ \in Seq(Tasks) /\ cur \in Tasks
        /\ queue_' = Append(queue_, cur)
    BY <1>15 DEF Repost
  <2>2. \A u \in Tasks : Holds(queue_', u) <=> Holds(queue_, u) \/ u = cur
    BY <2>1, QueuedAppend
  <2>3. QED
    BY <1>15, <1>q, <2>2 DEF Repost, Stutter, State
<1>16. ASSUME FunctorThrow PROVE Served
  <2>1. /\ cur \in Tasks /\ State(cur) = "running"
        /\ \A u \in Tasks : State(u)' = IF u = cur THEN "gone" ELSE State(u)
    BY <1>16, <1>q DEF FunctorThrow, State
  <2>2. [u \in Tasks |-> State(u)']
          = [[u \in Tasks |-> State(u)] EXCEPT ![cur] = "gone"]
    BY <2>1
  <2>3. Service!Drop(cur)
    BY <1>16, <2>1, <2>2 DEF FunctorThrow, NotDue, Service!Drop
  <2>4. QED
    BY <2>1, <2>3 DEF Service!Next
<1>17. ASSUME EndRound PROVE Served
  BY <1>17, <1>q DEF EndRound, Stutter, State
<1>18. ASSUME DisLoad PROVE Served
  BY <1>18, <1>q DEF DisLoad, Stutter, State
<1>19. ASSUME DisStore PROVE Served
  BY <1>19, <1>q DEF DisStore, Stutter, State
<1>20. ASSUME DisPark PROVE Served
  BY <1>20, <1>q DEF DisPark, Stutter, State
<1>21. ASSUME DisLeave PROVE Served
  BY <1>21, <1>q DEF DisLeave, Stutter, State
<1>22. ASSUME SpuriousWakeup PROVE Served
  BY <1>22, <1>q DEF SpuriousWakeup, Stutter, State, Woken, Parked
<1>23. ASSUME WakerCheck PROVE Served
  BY <1>23, <1>q DEF WakerCheck, Stutter, State
<1>24. ASSUME WakerToggleRead PROVE Served
  BY <1>24, <1>q DEF WakerToggleRead, Stutter, State
<1>25. ASSUME WakerToggleWrite PROVE Served
  BY <1>25, <1>q DEF WakerToggleWrite, Stutter, State
<1>26. ASSUME WakerLock PROVE Served
  BY <1>26, <1>q DEF WakerLock, Stutter, State
<1>27. ASSUME WakerNotify PROVE Served
  BY <1>27, <1>q DEF WakerNotify, Stutter, State, Woken, Parked
<1>28. ASSUME WakerReset PROVE Served
  BY <1>28, <1>q DEF WakerReset, Stutter, State
<1>29. ASSUME Stop PROVE Served
  BY <1>29, <1>q DEF Stop, Stutter, State
<1>30. ASSUME UNCHANGED vars PROVE Served
  BY <1>30, <1>q DEF Stutter, State
<1>31. QED
  BY <1>1, <1>2, <1>3, <1>4, <1>5, <1>6, <1>7, <1>8, <1>9, <1>10, <1>11,
     <1>12, <1>13, <1>14, <1>15, <1>16, <1>17, <1>18, <1>19, <1>20, <1>21,
     <1>22, <1>23, <1>24, <1>25, <1>26, <1>27, <1>28, <1>29, <1>30 DEF Next,
     Push, Worker, Waker

(* The scheduler thread keeps the promises of TaskService: no task is       *)
(* called early, twice at a time, twice, or after it has returned FINISH.   *)
THEOREM ServiceImplemented == Spec => ServiceSpec
<1>1. Init => Service!Init
  <2>1. ASSUME Init, NEW t \in Tasks PROVE State(t) = "idle"
    <3>1. ppc[t] = "idle"
      BY <2>1 DEF Init
    <3>2. QED
      BY <3>1 DEF State
  <2>2. Init => clock = 0 /\ ts = [t \in Tasks |-> 0]
    BY DEF Init
  <2>3. QED
    BY <2>1, <2>2 DEF Service!Init
<1>2. Init => Place /\ Past
  BY DEF Init, Place, OnePlace, Past
<1>3. Served => [Service!Next]_(Service!vars)
  BY DEF Served, Stutter, Service!vars
<1>4. Spec => []Base
  BY BaseInit, BaseStep, PTL DEF Spec
<1>5. Spec => []Place /\ []Past
  BY <1>2, <1>4, TypeCorrect, PlaceStep, PastStep, PTL DEF Spec
<1>6. QED
  BY <1>1, <1>3, <1>4, <1>5, ServedStep, PTL DEF Spec, ServiceSpec, Service!Spec
=============================================================================
