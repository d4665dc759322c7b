----------------------------- MODULE TaskThread -----------------------------
(***************************************************************************)
(* One scheduler thread of the task manager (class Thread and its helper   *)
(* internalThread, Task.cpp).  Three kinds of process share it:            *)
(*                                                                         *)
(*   - the worker, Thread::loop: takes rounds over queue_, runs the tasks  *)
(*     that are due, puts the others back, then parks on condition_;       *)
(*   - the waker, internalThread::loop: polls m_wait and un-parks it;      *)
(*   - the callers of push, one per task.                                  *)
(*                                                                         *)
(* A critical section of `mutex` is one step, except the one in which the  *)
(* worker decides to park: there it also holds m_mx and reads and writes   *)
(* m_sleep and m_wait, which the other two touch without any lock.         *)
(* Sleeps take any time; `clock` counts milliseconds for the time stamps.  *)
(***************************************************************************)
EXTENDS Integers, Sequences, FiniteSets

CONSTANTS
  Tasks,     (* the Tuple objects, each pushed once by a caller of its own  *)
  NoTask,    (* the null tuple_                                             *)
  Ms,        (* Ms[t]: the delay t is pushed with                           *)
  Outcomes,  (* Outcomes[t]: the ways a call of t's functor may end         *)
  MaxTime    (* bound on clock                                              *)

ASSUME TaskThreadAssumption ==
  /\ NoTask \notin Tasks
  /\ Ms \in [Tasks -> Int]
  /\ Outcomes \in [Tasks -> SUBSET {"FINISH", "CONTINUE", "THROW"}]
  /\ MaxTime \in Nat

VARIABLES
  clock,     (* high_resolution_clock, in milliseconds                      *)
  queue_,    (* the tasks waiting, oldest first                             *)
  ts,        (* ts[t]: when t was pushed or last returned CONTINUE          *)
  isRun_,    (* cleared by ~Thread                                          *)
  m_sleep,   (* > 0: the worker may park                                    *)
  m_wait,    (* the worker asks the waker to wake it                        *)
  wpc,       (* where the worker is                                         *)
  realtime,  (* the clock at the start of the worker's round                *)
  size,      (* tasks the round has still to look at                        *)
  cur,       (* the task in the worker's hand                               *)
  sleep,     (* the worker's local sleep                                    *)
  loaded,    (* m_sleep as isWait read it                                   *)
  kpc,       (* where the waker is                                          *)
  seen,      (* m_wait as the waker's unlocked toggle read it               *)
  ppc,       (* ppc[t]: where the caller pushing t is                       *)
  owed       (* history: tasks due at the round's start, not started yet    *)

workerVars == <<wpc, realtime, size, cur, sleep, loaded, owed>>
wakerVars  == <<kpc, seen>>
vars == <<clock, queue_, ts, isRun_, m_sleep, m_wait, workerVars, wakerVars,
          ppc>>

-----------------------------------------------------------------------------
(* Vocabulary *)

(* The worker is inside isWait, with mutex and m_mx locked. *)
Locked == wpc \in {"disStore", "disReturn"}

(* The worker is blocked on condition_: the queue is empty, or it dozes. *)
Parked == wpc \in {"conWait", "disWait"}

(* condition_.notify_one(): only the worker ever waits on condition_. *)
Woken(pc) == CASE pc = "conWait" -> "con"
               [] pc = "disWait" -> "dis"
               [] OTHER -> pc

(* Mutant of NotDue: the comparison off by one. *)
NotDueLess(t, time) == time - ts[t] < Ms[t] - 1

(* difftime < timerun *)
NotDue(t, time) == time - ts[t] < Ms[t]

Queued(t) == \E i \in 1..Len(queue_) : queue_[i] = t

-----------------------------------------------------------------------------
Init ==
  /\ clock = 0
  /\ queue_ = <<>>
  /\ ts = [t \in Tasks |-> 0]
  /\ isRun_ = TRUE
  /\ m_sleep = -1
  /\ m_wait = FALSE
  /\ wpc = "top"
  /\ realtime = 0
  /\ size = 0
  /\ cur = NoTask
  /\ sleep = 0
  /\ loaded = -1
  /\ kpc = "check"
  /\ seen = FALSE
  /\ ppc = [t \in Tasks |-> "idle"]
  /\ owed = {}

(* Bounded by MaxTime. *)
Tick ==
  /\ clock < MaxTime
  /\ clock' = clock + 1
  /\ UNCHANGED <<queue_, ts, isRun_, m_sleep, m_wait, workerVars, wakerVars,
                 ppc>>

-----------------------------------------------------------------------------
(* push, by the caller that owns t.  It holds a shared_ptr to the Thread,   *)
(* so no push overlaps ~Thread.                                             *)

PushBegin(t) ==
  /\ ppc[t] = "idle"
  /\ isRun_
  /\ m_sleep' = -1
  /\ ppc' = [ppc EXCEPT ![t] = "stamp"]
  /\ UNCHANGED <<clock, queue_, ts, isRun_, m_wait, workerVars, wakerVars>>

PushStamp(t) ==
  /\ ppc[t] = "stamp"
  /\ ts' = [ts EXCEPT ![t] = clock]
  /\ ppc' = [ppc EXCEPT ![t] = "put"]
  /\ UNCHANGED <<clock, queue_, isRun_, m_sleep, m_wait, workerVars,
                 wakerVars>>

(* Mutant of PushPut: push without the notification. *)
PushPutSilent(t) ==
  /\ ppc[t] = "put"
  /\ ~Locked
  /\ queue_' = Append(queue_, t)
  /\ ppc' = [ppc EXCEPT ![t] = "posted"]
  /\ UNCHANGED <<clock, ts, isRun_, m_sleep, m_wait, workerVars, wakerVars>>

PushPut(t) ==
  /\ ppc[t] = "put"
  /\ ~Locked
  /\ queue_' = Append(queue_, t)
  /\ ppc' = [ppc EXCEPT ![t] = "notify"]
  /\ UNCHANGED <<clock, ts, isRun_, m_sleep, m_wait, workerVars, wakerVars>>

PushNotify(t) ==
  /\ ppc[t] = "notify"
  /\ wpc' = Woken(wpc)
  /\ ppc' = [ppc EXCEPT ![t] = "posted"]
  /\ UNCHANGED <<clock, queue_, ts, isRun_, m_sleep, m_wait, realtime, size,
                 cur, sleep, loaded, owed, wakerVars>>

-----------------------------------------------------------------------------
(* The worker: Thread::loop *)

(* Mutant of LoopStart: the loop does not look at isRun_. *)
LoopStartAlways ==
  /\ wpc = "top"
  /\ wpc' = "con"
  /\ sleep' = 0
  /\ realtime' = clock
  /\ UNCHANGED <<clock, queue_, ts, isRun_, m_sleep, m_wait, size, cur, loaded,
                 owed, wakerVars, ppc>>

LoopStart ==
  /\ wpc = "top"
  /\ isRun_
  /\ wpc' = "con"
  /\ sleep' = 0
  /\ realtime' = clock
  /\ UNCHANGED <<clock, queue_, ts, isRun_, m_sleep, m_wait, size, cur, loaded,
                 owed, wakerVars, ppc>>

LoopExit ==
  /\ wpc = "top"
  /\ ~isRun_
  /\ wpc' = "done"
  /\ UNCHANGED <<clock, queue_, ts, isRun_, m_sleep, m_wait, realtime, size,
                 cur, sleep, loaded, owed, wakerVars, ppc>>

(* sizeTask's first half, on an empty queue: release mutex and block. *)
ConPark ==
  /\ wpc = "con"
  /\ queue_ = <<>>
  /\ wpc' = "conWait"
  /\ UNCHANGED <<clock, queue_, ts, isRun_, m_sleep, m_wait, realtime, size,
                 cur, sleep, loaded, owed, wakerVars, ppc>>

(* Mutant of ConSize: one pop too many. *)
ConSizeMore ==
  /\ wpc = "con"
  /\ queue_ # <<>>
  /\ size' = Len(queue_) + 1
  /\ owed' = {t \in Tasks : Queued(t) /\ ~NotDue(t, realtime)}
  /\ wpc' = "batch"
  /\ UNCHANGED <<clock, queue_, ts, isRun_, m_sleep, m_wait, realtime, cur,
                 sleep, loaded, wakerVars, ppc>>

ConSize ==
  /\ wpc = "con"
  /\ queue_ # <<>>
  /\ size' = Len(queue_)
  /\ owed' = {t \in Tasks : Queued(t) /\ ~NotDue(t, realtime)}
  /\ wpc' = "batch"
  /\ UNCHANGED <<clock, queue_, ts, isRun_, m_sleep, m_wait, realtime, cur,
                 sleep, loaded, wakerVars, ppc>>

(* Mutants of GetTask: the countdown does not stop at zero; front() without *)
(* pop().                                                                   *)
GetTaskPastZero ==
  /\ wpc = "batch"
  /\ queue_ # <<>>
  /\ cur' = Head(queue_)
  /\ queue_' = Tail(queue_)
  /\ size' = size - 1
  /\ wpc' = "got"
  /\ UNCHANGED <<clock, ts, isRun_, m_sleep, m_wait, realtime, sleep, loaded,
                 owed, wakerVars, ppc>>

GetTaskPeek ==
  /\ wpc = "batch"
  /\ size > 0
  /\ cur' = Head(queue_)
  /\ size' = size - 1
  /\ wpc' = "got"
  /\ UNCHANGED <<clock, queue_, ts, isRun_, m_sleep, m_wait, realtime, sleep,
                 loaded, owed, wakerVars, ppc>>

GetTask ==
  /\ wpc = "batch"
  /\ size > 0
  /\ cur' = Head(queue_)
  /\ queue_' = Tail(queue_)
  /\ size' = size - 1
  /\ sleep' = IF sleep > Ms[cur'] THEN Ms[cur'] ELSE sleep
  /\ wpc' = "got"
  /\ UNCHANGED <<clock, ts, isRun_, m_sleep, m_wait, realtime, loaded, owed,
                 wakerVars, ppc>>

(* Mutants of PutBack: the task is put in front; the task is dropped. *)
PutBackFront ==
  /\ wpc = "got"
  /\ NotDue(cur, realtime)
  /\ queue_' = <<cur>> \o queue_
  /\ cur' = NoTask
  /\ wpc' = "batch"
  /\ UNCHANGED <<clock, ts, isRun_, m_sleep, m_wait, realtime, size, sleep,
                 loaded, owed, wakerVars, ppc>>

PutBackNot ==
  /\ wpc = "got"
  /\ NotDue(cur, realtime)
  /\ cur' = NoTask
  /\ wpc' = "batch"
  /\ UNCHANGED <<clock, queue_, ts, isRun_, m_sleep, m_wait, realtime, size,
                 sleep, loaded, owed, wakerVars, ppc>>

(* Not due at the round's realtime: back to the tail.  putTask's notify_one *)
(* finds nobody waiting when the worker itself calls it.                    *)
PutBack ==
  /\ wpc = "got"
  /\ NotDue(cur, realtime)
  /\ queue_' = Append(queue_, cur)
  /\ cur' = NoTask
  /\ wpc' = "batch"
  /\ UNCHANGED <<clock, ts, isRun_, m_sleep, m_wait, realtime, size, sleep,
                 loaded, owed, wakerVars, ppc>>

StartFunctor ==
  /\ wpc = "got"
  /\ ~NotDue(cur, realtime)
  /\ owed' = owed \ {cur}
  /\ wpc' = "run"
  /\ UNCHANGED <<clock, queue_, ts, isRun_, m_sleep, m_wait, realtime, size,
                 cur, sleep, loaded, wakerVars, ppc>>

(* The functor returns FINISH (an empty functor counts as FINISH). *)
FunctorFinish ==
  /\ wpc = "run"
  /\ "FINISH" \in Outcomes[cur]
  /\ cur' = NoTask
  /\ wpc' = "batch"
  /\ UNCHANGED <<clock, queue_, ts, isRun_, m_sleep, m_wait, realtime, size,
                 sleep, loaded, owed, wakerVars, ppc>>

(* Mutant of FunctorContinue: the time stamp is kept. *)
FunctorContinueOldStamp ==
  /\ wpc = "run"
  /\ "CONTINUE" \in Outcomes[cur]
  /\ wpc' = "repost"
  /\ UNCHANGED <<clock, queue_, ts, isRun_, m_sleep, m_wait, realtime, size,
                 cur, sleep, loaded, owed, wakerVars, ppc>>

(* The functor returns CONTINUE: a new time stamp, then putTask. *)
FunctorContinue ==
  /\ wpc = "run"
  /\ "CONTINUE" \in Outcomes[cur]
  /\ ts' = [ts EXCEPT ![cur] = clock]
  /\ wpc' = "repost"
  /\ UNCHANGED <<clock, queue_, isRun_, m_sleep, m_wait, realtime, size, cur,
                 sleep, loaded, owed, wakerVars, ppc>>

Repost ==
  /\ wpc = "repost"
  /\ queue_' = Append(queue_, cur)
  /\ cur' = NoTask
  /\ wpc' = "batch"
  /\ UNCHANGED <<clock, ts, isRun_, m_sleep, m_wait, realtime, size, sleep,
                 loaded, owed, wakerVars, ppc>>

(* The functor throws a std::exception: the round is abandoned, the task is *)
(* gone, m_sleep is not set, and ~size parks before the catch clause logs.  *)
FunctorThrow ==
  /\ wpc = "run"
  /\ "THROW" \in Outcomes[cur]
  /\ cur' = NoTask
  /\ size' = 0
  /\ owed' = {}
  /\ wpc' = "dis"
  /\ UNCHANGED <<clock, queue_, ts, isRun_, m_sleep, m_wait, realtime, sleep,
                 loaded, wakerVars, ppc>>

EndRound ==
  /\ wpc = "batch"
  /\ size = 0
  /\ m_sleep' = IF sleep = 0 THEN 1 ELSE sleep
  /\ wpc' = "dis"
  /\ UNCHANGED <<clock, queue_, ts, isRun_, m_wait, realtime, size, cur, sleep,
                 loaded, owed, wakerVars, ppc>>

(* ~size, then isWait: lock mutex and m_mx, read m_sleep ... *)
DisLoad ==
  /\ wpc = "dis"
  /\ loaded' = m_sleep
  /\ wpc' = "disStore"
  /\ UNCHANGED <<clock, queue_, ts, isRun_, m_sleep, m_wait, realtime, size,
                 cur, sleep, owed, wakerVars, ppc>>

(* Mutant of DisStore: m_wait is not written. *)
DisStoreNot ==
  /\ wpc = "disStore"
  /\ wpc' = "disReturn"
  /\ UNCHANGED <<clock, queue_, ts, isRun_, m_sleep, m_wait, realtime, size,
                 cur, sleep, loaded, owed, wakerVars, ppc>>

(* ... write m_wait ... *)
DisStore ==
  /\ wpc = "disStore"
  /\ m_wait' = (loaded > 0)
  /\ wpc' = "disReturn"
  /\ UNCHANGED <<clock, queue_, ts, isRun_, m_sleep, realtime, size, cur,
                 sleep, loaded, owed, wakerVars, ppc>>

(* ... and return m_wait, from a register or read again after the waker's   *)
(* unlocked write: the data race may give either.  True: block.             *)
DisPark ==
  /\ wpc = "disReturn"
  /\ loaded > 0 \/ m_wait
  /\ wpc' = "disWait"
  /\ UNCHANGED <<clock, queue_, ts, isRun_, m_sleep, m_wait, realtime, size,
                 cur, sleep, loaded, owed, wakerVars, ppc>>

(* False: back to the top of the loop. *)
DisLeave ==
  /\ wpc = "disReturn"
  /\ loaded <= 0 \/ ~m_wait
  /\ wpc' = "top"
  /\ UNCHANGED <<clock, queue_, ts, isRun_, m_sleep, m_wait, realtime, size,
                 cur, sleep, loaded, owed, wakerVars, ppc>>

(* condition_.wait may return without a notification. *)
SpuriousWakeup ==
  /\ Parked
  /\ wpc' = Woken(wpc)
  /\ UNCHANGED <<clock, queue_, ts, isRun_, m_sleep, m_wait, realtime, size,
                 cur, sleep, loaded, owed, wakerVars, ppc>>

-----------------------------------------------------------------------------
(* The waker: internalThread::loop.  Finding m_wait false changes nothing.  *)

WakerCheck ==
  /\ kpc = "check"
  /\ ~Locked
  /\ m_wait
  /\ kpc' = "toggleRead"
  /\ UNCHANGED <<clock, queue_, ts, isRun_, m_sleep, m_wait, workerVars, seen,
                 ppc>>

(* m_wait = !m_wait, after unlock: a read and a write that race isWait. *)
WakerToggleRead ==
  /\ kpc = "toggleRead"
  /\ seen' = m_wait
  /\ kpc' = "toggleWrite"
  /\ UNCHANGED <<clock, queue_, ts, isRun_, m_sleep, m_wait, workerVars, ppc>>

WakerToggleWrite ==
  /\ kpc = "toggleWrite"
  /\ m_wait' = ~seen
  /\ kpc' = "ready"
  /\ UNCHANGED <<clock, queue_, ts, isRun_, m_sleep, workerVars, seen, ppc>>

(* m_ready, that is putTask({}): lock and unlock mutex ... *)
WakerLock ==
  /\ kpc = "ready"
  /\ ~Locked
  /\ kpc' = "notify"
  /\ UNCHANGED <<clock, queue_, ts, isRun_, m_sleep, m_wait, workerVars, seen,
                 ppc>>

(* ... and notify_one. *)
WakerNotify ==
  /\ kpc = "notify"
  /\ wpc' = Woken(wpc)
  /\ kpc' = "reset"
  /\ UNCHANGED <<clock, queue_, ts, isRun_, m_sleep, m_wait, realtime, size,
                 cur, sleep, loaded, owed, seen, ppc>>

WakerReset ==
  /\ kpc = "reset"
  /\ m_sleep' = -1
  /\ kpc' = "check"
  /\ UNCHANGED <<clock, queue_, ts, isRun_, m_wait, workerVars, seen, ppc>>

-----------------------------------------------------------------------------
(* ~Thread, once no caller holds the Thread: its first statement.  What the *)
(* rest of the destructor waits for is in module ThreadDestructor.          *)
Stop ==
  /\ isRun_
  /\ \A t \in Tasks : ppc[t] \in {"idle", "posted"}
  /\ isRun_' = FALSE
  /\ UNCHANGED <<clock, queue_, ts, m_sleep, m_wait, workerVars, wakerVars,
                 ppc>>

Push(t) == PushBegin(t) \/ PushStamp(t) \/ PushPut(t) \/ PushNotify(t)

Worker ==
  \/ LoopStart \/ LoopExit \/ ConPark \/ ConSize \/ GetTask \/ PutBack
  \/ StartFunctor \/ FunctorFinish \/ FunctorContinue \/ Repost
  \/ FunctorThrow \/ EndRound \/ DisLoad \/ DisStore
  \/ DisPark \/ DisLeave

Waker ==
  \/ WakerCheck \/ WakerToggleRead \/ WakerToggleWrite
  \/ WakerLock \/ WakerNotify \/ WakerReset

Next ==
  \/ Tick
  \/ \E t \in Tasks : Push(t)
  \/ Worker
  \/ SpuriousWakeup
  \/ Waker
  \/ Stop

Spec == Init /\ [][Next]_vars

(* Each thread runs when it can, time passes, and a functor returns.  The   *)
(* waker gets a mutex that is released over and over, and the race on       *)
(* m_wait does not turn every "do not wait" into a wait for ever (strong    *)
(* fairness).  Nobody has to push, to stop the thread, or to wake it        *)
(* spuriously.                                                              *)
Fairness ==
  /\ WF_vars(Tick)
  /\ WF_vars(Worker)
  /\ WF_vars(Waker)
  /\ SF_vars(WakerCheck)
  /\ SF_vars(WakerLock)
  /\ SF_vars(DisLeave /\ loaded <= 0)
  /\ \A t \in Tasks : WF_vars(PushNotify(t))

FairSpec == Spec /\ Fairness

-----------------------------------------------------------------------------
(* Properties *)

TypeOK ==
  /\ clock \in Nat
  /\ queue_ \in Seq(Tasks)
  /\ ts \in [Tasks -> Nat]
  /\ isRun_ \in BOOLEAN
  /\ m_sleep \in Int
  /\ m_wait \in BOOLEAN
  /\ wpc \in {"top", "con", "conWait", "batch", "got", "run", "repost", "dis",
              "disStore", "disReturn", "disWait", "done"}
  /\ realtime \in Nat
  /\ size \in Nat
  /\ cur \in Tasks \cup {NoTask}
  /\ sleep \in Int
  /\ loaded \in Int
  /\ kpc \in {"check", "toggleRead", "toggleWrite", "ready", "notify", "reset"}
  /\ seen \in BOOLEAN
  /\ ppc \in [Tasks -> {"idle", "stamp", "put", "notify", "posted"}]
  /\ owed \in SUBSET Tasks

(* getTask calls front() and pop() without looking whether queue_ is empty: *)
(* the size it counts down was read under an earlier lock.  What the round  *)
(* has still to pop is there.                                               *)
NoPopEmpty == wpc = "batch" => size <= Len(queue_)

(* A task is in one place: never twice in queue_, never in queue_ while the *)
(* worker has it in hand, nor before its caller has put it there.           *)
OnePlace ==
  /\ \A i, j \in 1..Len(queue_) : queue_[i] = queue_[j] => i = j
  /\ \A i \in 1..Len(queue_) :
       queue_[i] # cur /\ ppc[queue_[i]] \in {"notify", "posted"}

(* postLoopTask: a functor that only ever returns CONTINUE stays with the   *)
(* thread for good, whatever other functors throw and whoever else pushes.  *)
RecurringTaskKept ==
  \A t \in Tasks :
    Outcomes[t] = {"CONTINUE"} /\ ppc[t] \in {"notify", "posted"}
      => Queued(t) \/ cur = t

(* A round that runs to its end has started every task that was queued and  *)
(* due when it took its size: putting tasks back at the tail while others   *)
(* push makes no due task miss its round.                                   *)
RoundCovers == wpc = "batch" /\ size = 0 => owed = {}

(* No lost wakeup.  A worker blocked on a queue that is no longer empty has *)
(* a notification coming from the caller that filled it; a worker that      *)
(* dozes has left m_wait set for the waker, or the waker is on its way to   *)
(* notify, although m_wait and m_sleep are written without mutex.           *)
WakeupPending ==
  /\ wpc = "conWait" /\ queue_ # <<>> => \E t \in Tasks : ppc[t] = "notify"
  /\ wpc = "disWait" =>
       m_wait \/ kpc \in {"toggleRead", "toggleWrite", "ready", "notify"}

(* ms is a lower bound: a functor is never called earlier than ms after its *)
(* push, or after its last return, though the round compares with a clock   *)
(* read before it blocked.                                                  *)
NotEarly ==
  [][\A t \in Tasks : (wpc' = "run" /\ wpc # "run" /\ cur = t)
                       => clock - ts[t] >= Ms[t]]_vars

(* The thread keeps the promises of TaskService.  A task is posted when its *)
(* push has stamped it and pending while it is on its way into queue_, in   *)
(* it, or in the worker's hand before and after its call.                   *)
State(t) ==
  IF ppc[t] \in {"idle", "stamp"} THEN "idle"
  ELSE IF cur = t THEN IF wpc = "run" THEN "running" ELSE "pending"
  ELSE IF ppc[t] = "put" \/ Queued(t) THEN "pending" ELSE "gone"

Service == INSTANCE TaskService
             WITH state <- [t \in Tasks |-> State(t)], since <- ts

ServiceSpec == Service!Spec

(* A queued task whose time comes is called, unless the thread is stopped:  *)
(* it is not starved by recurring tasks, by a throwing one, or by a park.   *)
DueTaskStarts ==
  \A t \in Tasks :
    (Queued(t) /\ ts[t] + Ms[t] <= MaxTime)
      ~> ((wpc = "run" /\ cur = t) \/ ~isRun_)

(* After isRun_ = false the worker leaves its loop, or it is blocked on an  *)
(* empty queue, where nobody will notify it.                                *)
StopReachesWorker ==
  ~isRun_ ~> (wpc = "done" \/ (wpc = "conWait" /\ queue_ = <<>>))
=============================================================================
