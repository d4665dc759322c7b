------------------------------- MODULE Server -------------------------------
(***************************************************************************)
(* The server object of ServerCoro.cpp and ServerAsync.cpp (class Server): *)
(* run, its io_context, the listener, the threads of m_pool, and handlers  *)
(* that keep a thread because they fetch from this very server, as that of *)
(* the example does (Test.cpp:67-90).                                      *)
(*                                                                         *)
(* What a session does with a request is in HttpSession; here a request    *)
(* waits for a thread of its context, holds it while its handler runs, and *)
(* needs a thread once more when its answer is out.  Each run makes a new  *)
(* context, and m_ioc is the only owner of the last one: a second run, or  *)
(* the destructor, frees it whoever is in it.  The process then has no     *)
(* defined future: fate says why, and nothing is claimed of what follows.  *)
(***************************************************************************)
EXTENDS Integers, FiniteSets

CONSTANTS
  MaxWorker,  (* bound on setWorker                                         *)
  MaxRuns,    (* bound on the calls of run                                  *)
  Requests,   (* requests of clients                                        *)
  Fetching    (* those whose handler fetches from the server                *)

ASSUME ServerAssumption ==
  /\ MaxWorker \in Nat /\ MaxRuns \in Nat
  /\ Fetching \subseteq Requests
  /\ <<"idle">> \notin Requests
  /\ \A r \in Fetching : <<"fetch", r>> \notin Requests

Own(r) == <<"fetch", r>>   \* the request that the handler of r makes
All == Requests \cup {Own(r) : r \in Fetching}
Idle == <<"idle">>

Contexts == 1..MaxRuns
Threads == Contexts \X (1..MaxWorker)   \* the k-th thread of a run

VARIABLES
  coro,      (* the build: WITH_COROUTINE                                   *)
  blocking,  (* the build: BLOCKING_IO                                      *)
  m_worker,
  m_ioc,     (* the last context made, 0 if none                            *)
  running,   (* where the program is in run: "no", "reset", "listen",       *)
             (* "threads"                                                   *)
  stopped,   (* the contexts stop was called for                            *)
  listener,  (* listener[g]: "none", "spawned", "accepting" or "failed"     *)
  m_pool,    (* the threads made, all joinable for ever                     *)
  at,        (* at[t]: the context t is in (run, poll), or 0                *)
  ended,     (* the threads whose function has returned                     *)
  on,        (* on[t]: the request whose handler t runs, or Idle            *)
  state,     (* state[q]: "none", "sent", "handled", "fetching", "writing", *)
             (* "over" or "lost"                                            *)
  host,      (* host[q]: the context that q was sent to, or 0               *)
  fetched,   (* fetched[r]: "none", "response" or "error"                   *)
  calm,      (* history: the last run began when no thread was left to run  *)
  fate       (* "no"; "freed": a context freed under a thread; "swallowed": *)
             (* a session that caught its own unwinding; "thrown": an       *)
             (* exception out of a thread; "null", "terminate", "quiet":    *)
             (* how the destructor ended                                    *)

build    == <<coro, blocking>>
program  == <<m_worker, m_ioc, running, stopped, calm>>
requests == <<state, host, fetched>>
threads  == <<m_pool, at, ended, on>>
vars == <<build, program, listener, threads, requests, fate>>

Init ==
  /\ coro \in BOOLEAN /\ blocking \in BOOLEAN
  /\ m_worker \in 1..MaxWorker
  /\ m_ioc = 0 /\ running = "no" /\ stopped = {} /\ calm = FALSE
  /\ listener = [g \in Contexts |-> "none"]
  /\ m_pool = {}
  /\ at = [t \in Threads |-> 0] /\ ended = {}
  /\ on = [t \in Threads |-> Idle]
  /\ state = [q \in All |-> "none"] /\ host = [q \in All |-> 0]
  /\ fetched = [r \in Fetching |-> "none"]
  /\ fate = "no"

-----------------------------------------------------------------------------
(* The program's thread *)

SetWorker(n) ==
  /\ running = "no" /\ m_ioc < MaxRuns
  /\ m_worker' = n
  /\ UNCHANGED <<build, m_ioc, running, stopped, calm, listener, threads,
                 requests, fate>>

(* if (m_ioc) m_ioc->stop() *)
RunStop ==
  /\ running = "no" /\ m_ioc < MaxRuns
  /\ running' = "reset"
  /\ stopped' = stopped \cup ({m_ioc} \ {0})
  /\ calm' = (m_pool \subseteq ended)
  /\ UNCHANGED <<build, m_worker, m_ioc, listener, threads, requests, fate>>

(* What freeing the context g does to the process.  Suspended sessions are  *)
(* unwound with an exception, and the catch (...) of a session that awaits  *)
(* its write does not let it pass.                                          *)
FateOfFreeing(g) ==
  CASE \E t \in m_pool : at[t] = g -> "freed"
    [] coro /\ \E q \in All : host[q] = g /\ state[q] = "writing" -> "swallowed"
    [] OTHER -> "no"

Lose(g) ==
  state' = [q \in All |->
              IF host[q] = g /\ state[q] \in {"sent", "writing"} THEN "lost"
              ELSE state[q]]

(* m_ioc.reset(new io_context): the old one goes, with its connections. *)
RunReset ==
  /\ running = "reset"
  /\ running' = "listen"
  /\ fate' = IF m_ioc = 0 THEN "no" ELSE FateOfFreeing(m_ioc)
  /\ Lose(m_ioc)
  /\ m_ioc' = m_ioc + 1
  /\ UNCHANGED <<build, m_worker, stopped, calm, listener, threads, host,
                 fetched>>

(* The listener: a coroutine that begins on one of the threads, or an       *)
(* object whose constructor opens, binds and listens at once.               *)
RunListen ==
  /\ running = "listen"
  /\ running' = "threads"
  /\ \E l \in IF coro THEN {"spawned"} ELSE {"accepting", "failed"} :
       listener' = [listener EXCEPT ![m_ioc] = l]
  /\ UNCHANGED <<build, m_worker, m_ioc, stopped, calm, threads, requests,
                 fate>>

(* The threads; one that cannot be made throws, which run logs. *)
RunThreads ==
  /\ running = "threads"
  /\ running' = "no"
  /\ \E made \in 0..m_worker :
       m_pool' = m_pool \cup {<<m_ioc, k>> : k \in 1..made}
  /\ UNCHANGED <<build, m_worker, m_ioc, stopped, calm, listener, at, ended,
                 on, requests, fate>>

(* ~Server: it stops and resets m_ioc without a look at the pointer or at   *)
(* who is inside; m_pool then destroys threads that nobody joined.          *)
Destroy ==
  /\ running = "no"
  /\ fate' = IF m_ioc = 0 THEN "null"
             ELSE IF m_pool # {} THEN "terminate" ELSE "quiet"
  /\ UNCHANGED <<build, program, listener, threads, requests>>

-----------------------------------------------------------------------------
(* A thread of m_pool *)

Free(t, g) == g # 0 /\ at[t] = g /\ on[t] = Idle

(* A thread reads m_ioc when it begins, and with poll in each turn. *)
Enter(t) ==
  /\ t \in m_pool \ ended /\ at[t] = 0
  /\ at' = [at EXCEPT ![t] = m_ioc]
  /\ UNCHANGED <<build, program, listener, m_pool, ended, on, requests, fate>>

(* Mutant of ListenerStart: what fails is logged, and it goes on. *)
ListenerGoesOn(t) ==
  /\ Free(t, m_ioc) /\ m_ioc \notin stopped
  /\ listener[m_ioc] = "spawned"
  /\ listener' = [listener EXCEPT ![m_ioc] = "accepting"]
  /\ UNCHANGED <<build, program, threads, requests, fate>>

(* The coroutine of the listener opens, binds and listens; if one fails it  *)
(* returns, and the context has nothing to do any more.                     *)
ListenerStart(t) ==
  /\ Free(t, m_ioc) /\ m_ioc \notin stopped
  /\ listener[m_ioc] = "spawned"
  /\ \E l \in {"accepting", "failed"} :
       listener' = [listener EXCEPT ![m_ioc] = l]
  /\ UNCHANGED <<build, program, threads, requests, fate>>

(* A context without work stops itself when a thread looks at it: when its  *)
(* listener has returned, or is not there yet because run is not so far.    *)
(* (do_accept after an error, in the other build, is work.)                 *)
NoWork(g) ==
  \/ listener[g] = "none"
  \/ coro /\ listener[g] = "failed"

Ready(g) ==
  \/ listener[g] = "spawned"
  \/ \E q \in All : host[q] = g /\ state[q] \in {"sent", "writing"}

LeaveNow(t) ==
  /\ Free(t, m_ioc)
  /\ \/ m_ioc \in stopped
     \/ NoWork(m_ioc)
     \/ ~blocking /\ ~Ready(m_ioc)
  /\ at' = [at EXCEPT ![t] = 0]
  /\ stopped' = IF NoWork(m_ioc) THEN stopped \cup {m_ioc} ELSE stopped
  /\ UNCHANGED <<build, m_worker, m_ioc, running, calm, listener, m_pool, on,
                 requests, fate>>

(* Mutant of Leave: run in a loop, as poll is. *)
LeaveAgain(t) == LeaveNow(t) /\ UNCHANGED ended

(* run returns when its context is stopped or has no work, and ends the     *)
(* thread; poll also when nothing is ready, and the thread calls it again.  *)
Leave(t) ==
  /\ LeaveNow(t)
  /\ ended' = IF blocking THEN ended \cup {t} ELSE ended

(* Mutant of Take: a thread takes a request although its handler blocks. *)
TakeMore(t, q) ==
  /\ at[t] = host[q] /\ host[q] \notin stopped
  /\ state[q] = "sent"
  /\ state' = [state EXCEPT ![q] = "handled"]
  /\ on' = [on EXCEPT ![t] = q]
  /\ UNCHANGED <<build, program, listener, m_pool, at, ended, host, fetched,
                 fate>>

(* A free thread accepts, reads and calls the handler. *)
Take(t, q) ==
  /\ Free(t, host[q]) /\ host[q] \notin stopped
  /\ state[q] = "sent"
  /\ state' = [state EXCEPT ![q] = "handled"]
  /\ on' = [on EXCEPT ![t] = q]
  /\ UNCHANGED <<build, program, listener, m_pool, at, ended, host, fetched,
                 fate>>

(* The client is gone when its request has been read: remote_endpoint       *)
(* throws, outside of the session's try and through the thread's function.  *)
PeerGone(t, q) ==
  /\ Free(t, host[q]) /\ host[q] \notin stopped
  /\ state[q] = "sent"
  /\ q \notin Requests => fetched[q[2]] = "error"
  /\ fate' = "thrown"
  /\ UNCHANGED <<build, program, listener, threads, requests>>

(* The handler returns (the one that fetches, when its fetch has), and the  *)
(* write of the answer is pending.                                          *)
Answer(t, q) ==
  /\ on[t] = q /\ state[q] = "handled"
  /\ q \in Fetching => fetched[q] # "none"
  /\ state' = [state EXCEPT ![q] = "writing"]
  /\ on' = [on EXCEPT ![t] = Idle]
  /\ UNCHANGED <<build, program, listener, m_pool, at, ended, host, fetched,
                 fate>>

Written(t, q) ==
  /\ Free(t, host[q]) /\ host[q] \notin stopped
  /\ state[q] = "writing"
  /\ state' = [state EXCEPT ![q] = "over"]
  /\ UNCHANGED <<build, program, listener, threads, host, fetched, fate>>

-----------------------------------------------------------------------------
(* Clients, and the client inside a handler *)

(* Connections are accepted by the system, also for a stopped context. *)
Listening == m_ioc # 0 /\ listener[m_ioc] = "accepting"

Send(q) ==
  /\ q \in Requests /\ state[q] = "none"
  /\ Listening
  /\ state' = [state EXCEPT ![q] = "sent"]
  /\ host' = [host EXCEPT ![q] = m_ioc]
  /\ UNCHANGED <<build, program, listener, threads, fetched, fate>>

(* The handler fetches; the connection may be refused. *)
BeginFetch(r) ==
  /\ r \in Fetching /\ state[r] = "handled" /\ fetched[r] = "none"
  /\ IF Listening
     THEN /\ state' = [state EXCEPT ![r] = "fetching", ![Own(r)] = "sent"]
          /\ host' = [host EXCEPT ![Own(r)] = m_ioc]
          /\ UNCHANGED fetched
     ELSE /\ fetched' = [fetched EXCEPT ![r] = "error"]
          /\ UNCHANGED <<state, host>>
  /\ UNCHANGED <<build, program, listener, threads, fate>>

EndFetch(r) ==
  /\ r \in Fetching /\ state[r] = "fetching"
  /\ state[Own(r)] \in {"over", "lost"}
  /\ fetched' = [fetched EXCEPT ![r] =
                   IF state[Own(r)] = "over" THEN "response" ELSE "error"]
  /\ state' = [state EXCEPT ![r] = "handled"]
  /\ UNCHANGED <<build, program, listener, threads, host, fate>>

(* Mutant of Deadline: a fetch without one. *)
DeadlineNever(r) ==
  /\ r \in Fetching /\ FALSE
  /\ UNCHANGED vars

(* The client's deadline passes while no thread is free for the request,    *)
(* which stays with the server.                                             *)
Deadline(r) ==
  /\ r \in Fetching /\ state[r] = "fetching"
  /\ state[Own(r)] \notin {"over", "lost"}
  /\ ~ \E t \in m_pool : Free(t, host[Own(r)])
  /\ fetched' = [fetched EXCEPT ![r] = "error"]
  /\ state' = [state EXCEPT ![r] = "handled"]
  /\ UNCHANGED <<build, program, listener, threads, host, fate>>

-----------------------------------------------------------------------------
(* The process is running, and defined. *)
Up == fate = "no"

Next ==
  /\ Up
  /\ \/ \E n \in 1..MaxWorker : SetWorker(n)
     \/ RunStop \/ RunReset \/ RunListen \/ RunThreads \/ Destroy
     \/ \E t \in Threads : Enter(t) \/ Leave(t) \/ ListenerStart(t)
     \/ \E t \in Threads, q \in All :
          Take(t, q) \/ PeerGone(t, q) \/ Answer(t, q) \/ Written(t, q)
     \/ \E r \in Requests :
          Send(r) \/ BeginFetch(r) \/ EndFetch(r) \/ Deadline(r)

(* run goes on; threads run what their context has for them; handlers       *)
(* return, and fetches end.                                                 *)
Fairness ==
  /\ WF_vars(Up /\ (RunReset \/ RunListen \/ RunThreads))
  /\ \A t \in Threads :
       /\ WF_vars(Up /\ Enter(t)) /\ WF_vars(Up /\ Leave(t))
       /\ WF_vars(Up /\ ListenerStart(t))
  /\ \A q \in All :
       /\ WF_vars(Up /\ \E t \in Threads : Take(t, q) \/ Written(t, q))
       /\ WF_vars(Up /\ \E t \in Threads : Answer(t, q))
  /\ \A r \in Fetching :
       WF_vars(Up /\ (BeginFetch(r) \/ EndFetch(r) \/ Deadline(r)))

Spec == Init /\ [][Next]_vars /\ Fairness

-----------------------------------------------------------------------------
(* Properties *)

TypeOK ==
  /\ coro \in BOOLEAN /\ blocking \in BOOLEAN /\ calm \in BOOLEAN
  /\ m_worker \in 1..MaxWorker
  /\ m_ioc \in 0..MaxRuns /\ stopped \subseteq Contexts
  /\ running \in {"no", "reset", "listen", "threads"}
  /\ listener \in [Contexts -> {"none", "spawned", "accepting", "failed"}]
  /\ m_pool \subseteq Threads
  /\ at \in [Threads -> 0..MaxRuns] /\ ended \subseteq m_pool
  /\ on \in [Threads -> All \cup {Idle}]
  /\ state \in [All -> {"none", "sent", "handled", "fetching", "writing",
                        "over", "lost"}]
  /\ host \in [All -> 0..MaxRuns]
  /\ fetched \in [Fetching -> {"none", "response", "error"}]
  /\ fate \in {"no", "freed", "swallowed", "thrown", "null",
               "terminate", "quiet"}
  /\ \A q \in All :
       state[q] \in {"handled", "fetching"} <=> \E t \in Threads : on[t] = q

(* A server that listens and has a thread answers every request that it is  *)
(* sent, or loses it to a later run, even when its handlers have taken all  *)
(* the threads and wait for this same server: their fetches time out.  So   *)
(* does one that runs again when all its threads have ended, as after a     *)
(* listener that failed.  Not claimed of a run beside threads of an earlier *)
(* one: they may look at the new context before it has work, which stops it.*)
EveryAnswered ==
  \A q \in Requests :
    (calm /\ state[q] = "sent" /\ m_pool \ ended # {})
      ~> (state[q] \in {"over", "lost"} \/ fate # "no")

(* A listener that cannot open, bind or listen ends the threads of the      *)
(* server (they do not spin or wait for nothing), and the program may run   *)
(* it again.  In the build without coroutines on_accept calls do_accept     *)
(* after each error, for ever, and with poll the threads sleep and look.    *)
FailedListenerRests ==
  \A g \in Contexts :
    (coro /\ blocking /\ listener[g] = "failed")
      ~> (m_pool \subseteq ended \/ m_ioc # g \/ fate # "no")
=============================================================================
