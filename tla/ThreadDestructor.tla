-------------------------- MODULE ThreadDestructor --------------------------
(***************************************************************************)
(* ~Thread to its end (Task.cpp): clear isRun_, join the worker, join the  *)
(* waker, and then destroy the members, where ~internalThread clears the   *)
(* isRun_ that the waker's loop looks at.                                  *)
(***************************************************************************)
EXTENDS TaskThread

VARIABLES
  wakerRun,  (* internalThread::isRun_                                      *)
  dpc        (* where the destructor is                                     *)

allVars == <<vars, wakerRun, dpc>>

DInit ==
  /\ Init
  /\ wakerRun = TRUE
  /\ dpc = "none"

(* isRun_ = false *)
DStop ==
  /\ dpc = "none"
  /\ Stop
  /\ dpc' = "joinWorker"
  /\ UNCHANGED wakerRun

(* thread_.reset() *)
JoinWorker ==
  /\ dpc = "joinWorker"
  /\ wpc = "done"
  /\ dpc' = "joinWaker"
  /\ UNCHANGED <<vars, wakerRun>>

(* m_internalTask.reset() *)
JoinWaker ==
  /\ dpc = "joinWaker"
  /\ kpc = "exit"
  /\ dpc' = "members"
  /\ UNCHANGED <<vars, wakerRun>>

(* ~internalThread *)
ClearWakerRun ==
  /\ dpc = "members"
  /\ wakerRun' = FALSE
  /\ dpc' = "returned"
  /\ UNCHANGED vars

(* internalThread::loop finds isRun_ cleared. *)
WakerExit ==
  /\ kpc = "check"
  /\ ~wakerRun
  /\ kpc' = "exit"
  /\ UNCHANGED <<clock, queue_, ts, isRun_, m_sleep, m_wait, workerVars, seen,
                 ppc, wakerRun, dpc>>

(* The steps of module TaskThread, in the Thread that is being destroyed. *)
ThreadStep ==
  /\ \/ Tick
     \/ \E t \in Tasks : Push(t)
     \/ Worker
     \/ SpuriousWakeup
     \/ Waker
  /\ UNCHANGED <<wakerRun, dpc>>

Destructor == DStop \/ JoinWorker \/ JoinWaker \/ ClearWakerRun

DNext == ThreadStep \/ WakerExit \/ Destructor

DFairSpec ==
  /\ DInit
  /\ [][DNext]_allVars
  /\ Fairness
  /\ WF_allVars(WakerExit)
  /\ WF_allVars(JoinWorker \/ JoinWaker \/ ClearWakerRun)

(* A program that has a recurring task on the thread, as the example that   *)
(* ends with `std::getchar(); return 0;` has, leaves main and the static    *)
(* Task's destructor: ~Thread returns.                                      *)
DestructorReturns ==
  (dpc = "joinWorker" /\ \E t \in Tasks : ppc[t] = "posted" /\ Outcomes[t] = {"CONTINUE"})
    ~> dpc = "returned"
=============================================================================
