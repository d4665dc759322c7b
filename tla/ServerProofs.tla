---------------------------- MODULE ServerProofs ----------------------------
(***************************************************************************)
(* The type invariant of Server, for every number of threads, runs and     *)
(* requests and every choice of those that fetch: above all, that a thread *)
(* runs each request whose handler has begun and not ended, and one only.  *)
(***************************************************************************)
EXTENDS Server, TLAPS

-----------------------------------------------------------------------------
(* The invariant *)

Flags == coro \in BOOLEAN /\ blocking \in BOOLEAN /\ calm \in BOOLEAN

(* run has made a context where it needs one, and may where it will. *)
Program ==
  /\ m_worker \in 1 .. MaxWorker
  /\ m_ioc \in 0 .. MaxRuns /\ stopped \subseteq Contexts
  /\ running \in {"no", "reset", "listen", "threads"}
  /\ running = "reset" => m_ioc < MaxRuns
  /\ running \in {"listen", "threads"} => m_ioc # 0
  /\ listener \in [Contexts -> {"none", "spawned", "accepting", "failed"}]
  /\ fate \in {"no", "freed", "swallowed", "thrown", "null",
               "terminate", "quiet"}

(* Only threads that were made are in a context, or have ended. *)
Pool ==
  /\ m_pool \subseteq Threads
  /\ at \in [Threads -> 0 .. MaxRuns] /\ ended \subseteq m_pool
  /\ \A t \in Threads : at[t] # 0 => t \in m_pool

States == {"none", "sent", "handled", "fetching", "writing", "over", "lost"}
Busy(q) == state[q] \in {"handled", "fetching"}

(* The threads run what is being handled, each something else. *)
Handlers ==
  /\ on \in [Threads -> All \cup {Idle}]
  /\ state \in [All -> States]
  /\ \A q \in All : Busy(q) <=> \E t \in Threads : on[t] = q
  /\ \A t, u \in Threads : on[t] = on[u] => t = u \/ on[t] = Idle

(* A handler fetches once, and until then its own request is not there. *)
Fetched ==
  /\ host \in [All -> 0 .. MaxRuns]
  /\ fetched \in [Fetching -> {"none", "response", "error"}]
  /\ \A r \in Fetching :
       fetched[r] = "none" /\ state[r] # "fetching" => state[Own(r)] = "none"

Inv == Flags /\ Program /\ Pool /\ Handlers /\ Fetched

(* The requests of handlers are none of the clients', and no two the same.  *)
LEMMA Owned ==
  /\ Fetching \subseteq Requests /\ Requests \subseteq All /\ Idle \notin All
  /\ \A r \in Fetching : Own(r) \in All /\ Own(r) \notin Requests
  /\ \A r, s \in Fetching : Own(r) = Own(s) => r = s
BY ServerAssumption DEF All, Own, Idle

-----------------------------------------------------------------------------
(* The steps *)

(* What the build is stays, and calm is a truth. *)
LEMMA FlagsStep == ASSUME Flags, [Next]_vars PROVE Flags'
<1>1. UNCHANGED <<coro, blocking>> /\ (calm' = calm \/ calm' \in BOOLEAN)
  BY DEF Flags, Next, vars, build, program, SetWorker, RunStop, RunReset,
     RunListen, RunThreads, Destroy, Enter, Leave, LeaveNow, ListenerStart,
     Take, PeerGone, Answer, Written, Send, BeginFetch, EndFetch, Deadline
<1>2. QED
  BY <1>1 DEF Flags

(* The context a context's threads are in. *)
LEMMA ContextIn ==
  ASSUME Program
  PROVE  /\ MaxRuns \in Nat /\ MaxWorker \in Nat /\ m_ioc \in Nat
         /\ m_ioc # 0 => m_ioc \in Contexts
BY ServerAssumption DEF Program, Contexts

(* No step takes the program's own thread out of the steps of run() and of
   ~Server, or gives it a context it never made. *)
LEMMA ProgramStep == ASSUME Program, [Next]_vars PROVE Program'
<1> USE DEF Program, build, program
<1>0. /\ MaxRuns \in Nat /\ MaxWorker \in Nat /\ m_ioc \in Nat
      /\ m_ioc # 0 => m_ioc \in Contexts
  BY ContextIn
<1>1. CASE UNCHANGED vars
  BY <1>1 DEF vars
<1>2. ASSUME NEW n \in 1 .. MaxWorker, SetWorker(n) PROVE Program'
  BY <1>0, <1>2 DEF SetWorker
<1>3. CASE RunStop
  BY <1>0, <1>3 DEF RunStop
<1>4. CASE RunReset
  <2>1. FateOfFreeing(m_ioc) \in {"freed", "swallowed", "no"}
    BY DEF FateOfFreeing
  <2>2. QED
    BY <1>0, <1>4, <2>1 DEF RunReset
<1>5. CASE RunListen
  BY <1>0, <1>5 DEF RunListen
<1>6. CASE RunThreads \/ Destroy
  BY <1>0, <1>6 DEF RunThreads, Destroy
<1>7. ASSUME NEW t \in Threads, Leave(t) PROVE Program'
  BY <1>0, <1>7 DEF Leave, LeaveNow, Free
<1>8. ASSUME NEW t \in Threads, ListenerStart(t) PROVE Program'
  BY <1>0, <1>8 DEF ListenerStart, Free
<1>9. ASSUME NEW t \in Threads, NEW q \in All,
             \/ Enter(t) \/ Take(t, q) \/ PeerGone(t, q) \/ Answer(t, q)
             \/ Written(t, q)
      PROVE  Program'
  BY <1>9 DEF Enter, Take, PeerGone, Answer, Written
<1>10. ASSUME NEW r \in Requests,
              Send(r) \/ BeginFetch(r) \/ EndFetch(r) \/ Deadline(r)
       PROVE  Program'
  BY <1>10 DEF Send, BeginFetch, EndFetch, Deadline
<1>11. ASSUME NEW t \in Threads, Enter(t) PROVE Program'
  BY <1>11 DEF Enter
<1>12. QED
  BY <1>1, <1>2, <1>3, <1>4, <1>5, <1>6, <1>7, <1>8, <1>9, <1>10, <1>11
     DEF Next

(* A thread that runs a context, or that ended, stays one that was started. *)
LEMMA PoolStep == ASSUME Program, Pool, [Next]_vars PROVE Pool'
<1> USE DEF Pool, threads
<1>1. CASE \/ UNCHANGED vars \/ RunStop \/ RunReset \/ RunListen \/ Destroy
           \/ \E n \in 1 .. MaxWorker : SetWorker(n)
  BY <1>1 DEF vars, RunStop, RunReset, RunListen, Destroy, SetWorker
<1>2. CASE RunThreads
  <2>1. PICK made \in 0 .. m_worker :
           m_pool' = m_pool \cup {<<m_ioc, k>> : k \in 1 .. made}
    BY <1>2 DEF RunThreads
  <2>2. m_ioc \in Contexts /\ \A k \in 1 .. made : k \in 1 .. MaxWorker
    BY <1>2, ContextIn DEF RunThreads, Program
  <2>3. m_pool' \subseteq Threads /\ m_pool \subseteq m_pool'
    BY <2>1, <2>2 DEF Threads
  <2>4. at' = at /\ ended' = ended
    BY <1>2 DEF RunThreads
  <2>5. QED
    BY <2>3, <2>4
<1>3. ASSUME NEW t \in Threads, Enter(t) PROVE Pool'
  BY <1>3 DEF Enter, Program
<1>4. ASSUME NEW t \in Threads, Leave(t) PROVE Pool'
  <2>1. 0 \in 0 .. MaxRuns
    BY ServerAssumption
  <2>2. t \in m_pool
    BY <1>4 DEF Leave, LeaveNow, Free
  <2>3. m_pool' = m_pool /\ at' = [at EXCEPT ![t] = 0]
    BY <1>4 DEF Leave, LeaveNow
  <2>4. ended' \subseteq m_pool
    BY <1>4, <2>2 DEF Leave
  <2>5. QED
    BY <2>1, <2>3, <2>4
<1>5. ASSUME NEW t \in Threads, NEW q \in All,
             \/ ListenerStart(t) \/ Take(t, q) \/ PeerGone(t, q)
             \/ Answer(t, q) \/ Written(t, q)
      PROVE  Pool'
  BY <1>5 DEF ListenerStart, Take, PeerGone, Answer, Written
<1>6. ASSUME NEW t \in Threads, ListenerStart(t) PROVE Pool'
  BY <1>6 DEF ListenerStart
<1>7. ASSUME NEW r \in Requests,
             Send(r) \/ BeginFetch(r) \/ EndFetch(r) \/ Deadline(r)
      PROVE  Pool'
  BY <1>7 DEF Send, BeginFetch, EndFetch, Deadline
<1>8. QED
  BY <1>1, <1>2, <1>3, <1>4, <1>5, <1>6, <1>7 DEF Next

(* What leaves the threads alone, and busy what is. *)
LEMMA HandlersStay ==
  ASSUME Handlers, on' = on, state' \in [All -> States],
         \A q \in All : Busy(q)' <=> Busy(q)
  PROVE  Handlers'
BY DEF Handlers

(* When a request is sent: nothing has begun. *)
LEMMA FetchBegins ==
  ASSUME Handlers, Fetched, NEW r \in Requests, BeginFetch(r)
  PROVE  /\ r \in Fetching /\ Own(r) \in All \ Requests
         /\ state[r] = "handled" /\ state[Own(r)] = "none"
         /\ on' = on
         /\ \/ /\ state' = [state EXCEPT ![r] = "fetching", ![Own(r)] = "sent"]
               /\ fetched' = fetched
            \/ /\ state' = state
               /\ fetched' = [fetched EXCEPT ![r] = "error"]
         /\ host' = host \/ host' = [host EXCEPT ![Own(r)] = m_ioc]
BY Owned DEF BeginFetch, Fetched, threads

(* What is being handled stays on one thread, and a thread handles one thing. *)
LEMMA HandlersStep ==
  ASSUME Program, Handlers, Fetched, [Next]_vars
  PROVE  Handlers'
<1>1. CASE \/ UNCHANGED vars \/ RunStop \/ RunListen \/ RunThreads
           \/ Destroy
           \/ \E n \in 1 .. MaxWorker : SetWorker(n)
           \/ \E t \in Threads : Enter(t) \/ Leave(t) \/ ListenerStart(t)
           \/ \E t \in Threads, q \in All : PeerGone(t, q)
  <2>1. on' = on /\ state' = state
    BY <1>1 DEF vars, RunStop, RunListen, RunThreads, Destroy, SetWorker,
       Enter, Leave, LeaveNow, ListenerStart, PeerGone, requests, threads
  <2>2. QED
    BY <2>1, HandlersStay DEF Handlers, Busy
<1>2. CASE RunReset
  <2>1. /\ on' = on
        /\ state' = [q \in All |->
                       IF host[q] = m_ioc /\ state[q] \in {"sent", "writing"}
                       THEN "lost" ELSE state[q]]
    BY <1>2 DEF RunReset, Lose, threads
  <2>2. state' \in [All -> States] /\ \A q \in All : Busy(q)' <=> Busy(q)
    BY <2>1 DEF Handlers, States, Busy
  <2>3. QED
    BY <2>1, <2>2, HandlersStay
<1>3. ASSUME NEW t \in Threads, NEW q \in All, Take(t, q) PROVE Handlers'
  <2>1. /\ on[t] = Idle /\ state[q] = "sent"
        /\ on' = [on EXCEPT ![t] = q]
        /\ state' = [state EXCEPT ![q] = "handled"]
    BY <1>3 DEF Take, Free
  <2>2. \A u \in Threads : on[u] # q
    BY <2>1 DEF Handlers, Busy
  <2>3. on' \in [Threads -> All \cup {Idle}] /\ state' \in [All -> States]
    BY <2>1 DEF Handlers, States
  <2>4. \A p \in All : Busy(p)' <=> Busy(p) \/ p = q
    BY <2>1 DEF Handlers, Busy
  <2>5. \A u \in Threads : on'[u] = IF u = t THEN q ELSE on[u]
    BY <2>1 DEF Handlers
  <2>6. ASSUME NEW p \in All
        PROVE  Busy(p)' <=> \E u \in Threads : on'[u] = p
    BY <2>1, <2>2, <2>4, <2>5, Owned DEF Handlers
  <2>7. \A u, v \in Threads : on'[u] = on'[v] => u = v \/ on'[u] = Idle
    BY <2>2, <2>5 DEF Handlers
  <2>8. QED
    BY <2>3, <2>6, <2>7 DEF Handlers
<1>4. ASSUME NEW t \in Threads, NEW q \in All, Answer(t, q) PROVE Handlers'
  <2>1. /\ on[t] = q
        /\ on' = [on EXCEPT ![t] = Idle]
        /\ state' = [state EXCEPT ![q] = "writing"]
    BY <1>4 DEF Answer
  <2>2. \A u \in Threads : on[u] = q => u = t
    BY <2>1, Owned DEF Handlers
  <2>3. on' \in [Threads -> All \cup {Idle}] /\ state' \in [All -> States]
    BY <2>1 DEF Handlers, States
  <2>4. \A p \in All : Busy(p)' <=> Busy(p) /\ p # q
    BY <2>1 DEF Handlers, Busy
  <2>5. \A u \in Threads : on'[u] = IF u = t THEN Idle ELSE on[u]
    BY <2>1 DEF Handlers
  <2>6. ASSUME NEW p \in All
        PROVE  Busy(p)' <=> \E u \in Threads : on'[u] = p
    BY <2>1, <2>2, <2>4, <2>5, Owned DEF Handlers
  <2>7. \A u, v \in Threads : on'[u] = on'[v] => u = v \/ on'[u] = Idle
    BY <2>5 DEF Handlers
  <2>8. QED
    BY <2>3, <2>6, <2>7 DEF Handlers
<1>5. ASSUME NEW q \in All,
             (\E t \in Threads : Written(t, q)) \/ Send(q)
      PROVE  Handlers'
  <2>1. /\ on' = on /\ state[q] \in {"writing", "none"}
        /\ \E to \in {"over", "sent"} : state' = [state EXCEPT ![q] = to]
    BY <1>5 DEF Written, Send, threads
  <2>2. state' \in [All -> States] /\ \A p \in All : Busy(p)' <=> Busy(p)
    BY <2>1 DEF Handlers, States, Busy
  <2>3. QED
    BY <2>1, <2>2, HandlersStay
<1>6. ASSUME NEW r \in Requests, BeginFetch(r) PROVE Handlers'
  <2>1. on' = on /\ state' \in [All -> States]
    BY <1>6, FetchBegins DEF Handlers, States
  <2>2. \A p \in All : Busy(p)' <=> Busy(p)
    BY <1>6, FetchBegins DEF Handlers, Busy
  <2>3. QED
    BY <2>1, <2>2, HandlersStay
<1>7. ASSUME NEW r \in Requests, EndFetch(r) \/ Deadline(r) PROVE Handlers'
  <2>1. /\ on' = on /\ state[r] = "fetching"
        /\ state' = [state EXCEPT ![r] = "handled"]
    BY <1>7 DEF EndFetch, Deadline, threads
  <2>2. state' \in [All -> States] /\ \A p \in All : Busy(p)' <=> Busy(p)
    BY <2>1 DEF Handlers, States, Busy
  <2>3. QED
    BY <2>1, <2>2, HandlersStay
<1>8. QED
  BY <1>1, <1>2, <1>3, <1>4, <1>5, <1>6, <1>7, Owned DEF Next

(* Where the own requests are that were not sent. *)
LEMMA FetchedStep ==
  ASSUME Program, Handlers, Fetched, [Next]_vars
  PROVE  Fetched'
<1>0. m_ioc \in 0 .. MaxRuns
  BY DEF Program
<1>1. CASE \/ UNCHANGED vars \/ RunStop \/ RunListen \/ RunThreads
           \/ Destroy
           \/ \E n \in 1 .. MaxWorker : SetWorker(n)
           \/ \E t \in Threads : Enter(t) \/ Leave(t) \/ ListenerStart(t)
           \/ \E t \in Threads, q \in All : PeerGone(t, q)
  BY <1>1 DEF Fetched, vars, RunStop, RunListen, RunThreads, Destroy,
     SetWorker, Enter, Leave, LeaveNow, ListenerStart, PeerGone, requests
<1>2. ASSUME UNCHANGED <<host, fetched>>,
             \A q \in All : (state[q] = "none" => state'[q] = "none")
                           /\ (state'[q] = "fetching" <=> state[q] = "fetching")
      PROVE  Fetched'
  BY <1>2, Owned DEF Fetched
<1>3. CASE RunReset
  <2>1. /\ UNCHANGED <<host, fetched>>
        /\ state' = [q \in All |->
                       IF host[q] = m_ioc /\ state[q] \in {"sent", "writing"}
                       THEN "lost" ELSE state[q]]
    BY <1>3 DEF RunReset, Lose
  <2>2. QED
    BY <1>2, <2>1
<1>4. ASSUME NEW t \in Threads, NEW q \in All,
             Take(t, q) \/ Answer(t, q) \/ Written(t, q)
      PROVE  Fetched'
  <2>1. /\ UNCHANGED <<host, fetched>>
        /\ state[q] \in {"sent", "handled", "writing"}
        /\ \E to \in {"handled", "writing", "over"} :
             state' = [state EXCEPT ![q] = to]
    BY <1>4 DEF Take, Answer, Written
  <2>2. QED
    BY <1>2, <2>1 DEF Handlers
<1>5. ASSUME NEW q \in Requests, Send(q) PROVE Fetched'
  <2>1. /\ state' = [state EXCEPT ![q] = "sent"] /\ state[q] = "none"
        /\ host' = [host EXCEPT ![q] = m_ioc] /\ fetched' = fetched
    BY <1>5 DEF Send
  <2>2. QED
    BY <1>0, <2>1, Owned DEF Handlers, Fetched
<1>6. ASSUME NEW r \in Requests, BeginFetch(r) PROVE Fetched'
  BY <1>0, <1>6, FetchBegins, Owned DEF Handlers, Fetched
<1>7. ASSUME NEW r \in Requests, EndFetch(r) \/ Deadline(r) PROVE Fetched'
  <2>1. /\ r \in Fetching /\ host' = host
        /\ state' = [state EXCEPT ![r] = "handled"]
        /\ \E how \in {"response", "error"} :
             fetched' = [fetched EXCEPT ![r] = how]
    BY <1>7 DEF EndFetch, Deadline
  <2>2. QED
    BY <2>1, Owned DEF Handlers, Fetched
<1>8. QED
  BY <1>1, <1>3, <1>4, <1>5, <1>6, <1>7 DEF Next

-----------------------------------------------------------------------------
(* The theorem *)

(* At first nothing runs. *)
LEMMA InvInit == Init => Inv
<1> SUFFICES ASSUME Init PROVE Inv
  OBVIOUS
<1>1. Flags
  BY DEF Init, Flags
<1>2. MaxRuns \in Nat /\ MaxWorker \in Nat
  BY ServerAssumption
<1>3. Program /\ Pool
  BY <1>2 DEF Init, Program, Pool
<1>4. Handlers
  BY Owned DEF Init, Handlers, States, Busy
<1>5. Fetched
  BY <1>2, Owned DEF Init, Fetched
<1>6. QED
  BY <1>1, <1>3, <1>4, <1>5 DEF Inv

(* The invariant is inductive. *)
LEMMA InvStep == ASSUME Inv, [Next]_vars PROVE Inv'
BY FlagsStep, ProgramStep, PoolStep, HandlersStep, FetchedStep, Zenon DEF Inv

(* Types; a thread runs what a handler is busy with, and only threads that  *)
(* were made end.                                                           *)
THEOREM TypeCorrect == Spec => []TypeOK
<1>1. ASSUME Inv PROVE TypeOK
  <2>1. Flags /\ Program /\ Pool /\ Handlers /\ Fetched
    BY <1>1, Zenon DEF Inv
  <2>2. \A q \in All :
          state[q] \in {"handled", "fetching"} <=> \E t \in Threads : on[t] = q
    BY <2>1 DEF Handlers, Busy
  <2>3. QED
    BY <2>1, <2>2, Zenon
       DEF Flags, Program, Pool, Handlers, States, Fetched, TypeOK
<1>2. QED
  BY InvInit, InvStep, <1>1, PTL DEF Spec
=============================================================================
