------------------------------ MODULE Postgres ------------------------------
(***************************************************************************)
(* The connection pool (class Postgres, Postgresql.cpp; SQLite.cpp is the  *)
(* same text under another header) behind dbFacade (DBFacade.cpp), which   *)
(* keeps the configuration for run.  run fills m_pool_conn; every query    *)
(* takes a connection, waits on m_condition when there is none, prepares   *)
(* its statement unless the connection has it, executes it, and gives the  *)
(* connection back when the Connection guard goes out of scope, also on    *)
(* the way out of an exception.                                            *)
(*                                                                         *)
(* Query (iDBFacade.h) turns what is thrown into a result.  The recurring  *)
(* task that run posts calls query_private itself: what that throws is no  *)
(* std::exception, and ends the process from the scheduler's thread.       *)
(*                                                                         *)
(* A critical section of m_mux is one step.  The server may refuse any     *)
(* connection, statement or execution.                                     *)
(***************************************************************************)
EXTENDS Integers, Sequences, FiniteSets

CONSTANTS
  Queries,   (* the calls of query_private                                  *)
  Deletes,   (* those of them that the recurring task makes                 *)
  Conns,     (* connections that can be made: bounds the attempts to run    *)
  Stmts, stmtOf,  (* stmtOf[q]: q's statement, named by a hash of its text  *)
  NoConn,
  Worker     (* m_worker of the configuration                               *)

ASSUME PostgresAssumption ==
  /\ Deletes \subseteq Queries
  /\ NoConn \notin Conns
  /\ stmtOf \in [Queries -> Stmts]
  /\ Worker \in Nat

(* Only what counts queries (WakeupsCover) needs this one. *)
ASSUME QueriesFinite == IsFiniteSet(Queries)

VARIABLES
  m_config_ptr, (* whether dbFacade has a configuration                     *)
  m_isRun,
  m_pool_conn,  (* the free connections, oldest first                       *)
  rpc,          (* where the caller of run is                               *)
  made,         (* connections this run has made                            *)
  total,        (* history: connections all runs have made                  *)
  down,         (* the process has ended                                    *)
  stmts,        (* stmts[c]: m_stmt_list of c                               *)
  server,       (* server[c]: what the server has prepared for c            *)
  pc,           (* pc[q]: where the query is                                *)
  conn          (* conn[q]: the connection q holds                          *)

runVars == <<m_config_ptr, m_isRun, rpc, made, total>>
vars == <<runVars, down, m_pool_conn, stmts, server, pc, conn>>

Pooled == {m_pool_conn[i] : i \in 1..Len(m_pool_conn)}
Held   == {conn[q] : q \in Queries} \ {NoConn}

Init ==
  /\ m_config_ptr = FALSE
  /\ m_isRun = FALSE
  /\ m_pool_conn = <<>>
  /\ rpc = "idle"
  /\ made = 0
  /\ total = 0
  /\ down = FALSE
  /\ stmts = [c \in Conns |-> {}]
  /\ server = [c \in Conns |-> {}]
  /\ pc = [q \in Queries |-> "idle"]
  /\ conn = [q \in Queries |-> NoConn]

-----------------------------------------------------------------------------
(* The thread that sets the facade up.  run takes the configuration away,   *)
(* whatever comes of it, so that a run that failed needs another one.       *)

queryVars == <<stmts, server, pc, conn>>

SetConfiguration ==
  /\ rpc = "idle"
  /\ m_config_ptr' = TRUE
  /\ UNCHANGED <<m_isRun, rpc, made, total, down, m_pool_conn, queryVars>>

RunBegin ==
  /\ rpc = "idle"
  /\ m_config_ptr /\ ~m_isRun
  /\ m_config_ptr' = FALSE
  /\ made' = 0
  /\ rpc' = "connect"
  /\ UNCHANGED <<m_isRun, total, down, m_pool_conn, queryVars>>

(* It runs already: throw, past the catch of run. *)
RunTwice ==
  /\ rpc = "idle"
  /\ m_config_ptr /\ m_isRun
  /\ m_config_ptr' = FALSE
  /\ UNCHANGED <<m_isRun, rpc, made, total, down, m_pool_conn, queryVars>>

(* Mutant of RunConnect: one connection too many. *)
RunConnectMore ==
  /\ rpc = "connect"
  /\ made <= Worker
  /\ \E c \in Conns \ (Pooled \cup Held) : m_pool_conn' = Append(m_pool_conn, c)
  /\ made' = made + 1 /\ total' = total + 1
  /\ UNCHANGED <<m_config_ptr, m_isRun, rpc, down, queryVars>>

(* emplace, without m_mux: nobody else looks while m_isRun is false. *)
RunConnect ==
  /\ rpc = "connect"
  /\ made < Worker
  /\ \E c \in Conns \ (Pooled \cup Held) : m_pool_conn' = Append(m_pool_conn, c)
  /\ made' = made + 1 /\ total' = total + 1
  /\ UNCHANGED <<m_config_ptr, m_isRun, rpc, down, queryVars>>

(* The constructor of PostgresConnection throws: the connections made so    *)
(* far stay in the pool.                                                    *)
RunFail ==
  /\ rpc = "connect"
  /\ made < Worker
  /\ rpc' = "idle"
  /\ UNCHANGED <<m_config_ptr, m_isRun, made, total, down, m_pool_conn,
                 queryVars>>

(* The recurring task is posted; its first call is eight hours away. *)
RunEnd ==
  /\ rpc = "connect"
  /\ made = Worker
  /\ m_isRun' = TRUE
  /\ rpc' = "idle"
  /\ UNCHANGED <<m_config_ptr, made, total, down, m_pool_conn, queryVars>>

-----------------------------------------------------------------------------
(* query_private *)

Goto(q, from, to) ==
  /\ pc[q] = from
  /\ pc' = [pc EXCEPT ![q] = to]
  /\ UNCHANGED runVars

(* Something is thrown at q: ~Connection gives the connection back, and the *)
(* task of run takes the process with it.                                   *)
Throws(q) == down' = (q \in Deletes)

(* Not running: throw. *)
Refuse(q) ==
  /\ Goto(q, "idle", "done")
  /\ ~m_isRun /\ q \notin Deletes
  /\ UNCHANGED <<down, m_pool_conn, stmts, server, conn>>

Begin(q) ==
  /\ Goto(q, "idle", "get")
  /\ m_isRun
  /\ UNCHANGED <<down, m_pool_conn, stmts, server, conn>>

(* getConnection, on an empty pool. *)
GetWait(q) ==
  /\ Goto(q, "get", "wait")
  /\ m_pool_conn = <<>>
  /\ UNCHANGED <<down, m_pool_conn, stmts, server, conn>>

(* Mutant of Get: front() without pop(). *)
GetPeek(q) ==
  /\ Goto(q, "get", "find")
  /\ m_pool_conn # <<>>
  /\ conn' = [conn EXCEPT ![q] = Head(m_pool_conn)]
  /\ UNCHANGED <<down, m_pool_conn, stmts, server>>

Get(q) ==
  /\ Goto(q, "get", "find")
  /\ m_pool_conn # <<>>
  /\ conn' = [conn EXCEPT ![q] = Head(m_pool_conn)]
  /\ m_pool_conn' = Tail(m_pool_conn)
  /\ UNCHANGED <<down, stmts, server>>

(* condition_variable::wait may return without a notification. *)
SpuriousWakeup(q) ==
  /\ Goto(q, "wait", "get")
  /\ UNCHANGED <<down, m_pool_conn, stmts, server, conn>>

(* findStmt *)
Find(q) ==
  /\ Goto(q, "find", IF stmtOf[q] \in stmts[conn[q]] THEN "exec" ELSE "prepare")
  /\ UNCHANGED <<down, m_pool_conn, stmts, server, conn>>

(* PQprepare, addStmt.  The server has the statement already if PQprepare   *)
(* is called for it twice, and refuses.                                     *)
Prepare(q) ==
  /\ Goto(q, "prepare", "exec")
  /\ stmtOf[q] \notin server[conn[q]]
  /\ server' = [server EXCEPT ![conn[q]] = @ \cup {stmtOf[q]}]
  /\ stmts' = [stmts EXCEPT ![conn[q]] = @ \cup {stmtOf[q]}]
  /\ UNCHANGED <<down, m_pool_conn, conn>>

(* Mutants of PrepareFail: the exception passes the guard by; addStmt       *)
(* before the result is looked at.                                          *)
PrepareFailLeak(q) ==
  /\ Goto(q, "prepare", "done")
  /\ Throws(q)
  /\ conn' = [conn EXCEPT ![q] = NoConn]
  /\ UNCHANGED <<m_pool_conn, stmts, server>>

PrepareFailAdd(q) ==
  /\ Goto(q, "prepare", "free")
  /\ Throws(q)
  /\ stmts' = [stmts EXCEPT ![conn[q]] = @ \cup {stmtOf[q]}]
  /\ UNCHANGED <<m_pool_conn, server, conn>>

(* ... or an exception. *)
PrepareFail(q) ==
  /\ Goto(q, "prepare", "free")
  /\ Throws(q)
  /\ UNCHANGED <<m_pool_conn, stmts, server, conn>>

(* PQexecPrepared, and its result ... *)
Exec(q) ==
  /\ Goto(q, "exec", "free")
  /\ UNCHANGED <<down, m_pool_conn, stmts, server, conn>>

(* ... or an exception. *)
ExecFail(q) ==
  /\ Goto(q, "exec", "free")
  /\ Throws(q)
  /\ UNCHANGED <<m_pool_conn, stmts, server, conn>>

(* ~Connection: freeConnection. *)
Free(q) ==
  /\ Goto(q, "free", "notify")
  /\ m_pool_conn' = Append(m_pool_conn, conn[q])
  /\ conn' = [conn EXCEPT ![q] = NoConn]
  /\ UNCHANGED <<down, stmts, server>>

(* Mutant of Notify: no notify_one. *)
NotifyNobody(q) ==
  /\ Goto(q, "notify", "done")
  /\ UNCHANGED <<down, m_pool_conn, stmts, server, conn>>

(* notify_one: somebody who waits, if anybody does. *)
Notify(q) ==
  /\ pc[q] = "notify"
  /\ \/ \E p \in Queries :
          pc[p] = "wait" /\ pc' = [pc EXCEPT ![q] = "done", ![p] = "get"]
     \/ /\ \A p \in Queries : pc[p] # "wait"
        /\ pc' = [pc EXCEPT ![q] = "done"]
  /\ UNCHANGED <<runVars, down, m_pool_conn, stmts, server, conn>>

Run ==
  SetConfiguration \/ RunBegin \/ RunTwice \/ RunConnect \/ RunFail \/ RunEnd

Step(q) ==
  \/ GetWait(q) \/ Get(q) \/ Find(q) \/ Prepare(q) \/ PrepareFail(q)
  \/ Exec(q) \/ ExecFail(q) \/ Free(q) \/ Notify(q)

Next ==
  /\ ~down
  /\ \/ Run
     \/ \E q \in Queries : Refuse(q) \/ Begin(q) \/ Step(q) \/ SpuriousWakeup(q)

Spec == Init /\ [][Next]_vars

(* A thread in a query goes on, and the server answers.  (No promise that   *)
(* run succeeds, that anybody asks, or that mutexes are handed out in turn: *)
(* the queries are finitely many.)                                          *)
Fairness == \A q \in Queries : WF_vars(~down /\ Step(q))

FairSpec == Spec /\ Fairness

-----------------------------------------------------------------------------
(* Properties *)

TypeOK ==
  /\ m_config_ptr \in BOOLEAN /\ m_isRun \in BOOLEAN /\ down \in BOOLEAN
  /\ m_pool_conn \in Seq(Conns)
  /\ rpc \in {"idle", "connect"}
  /\ made \in 0..Worker /\ total \in Nat
  /\ stmts \in [Conns -> SUBSET Stmts]
  /\ server \in [Conns -> SUBSET Stmts]
  /\ pc \in [Queries -> {"idle", "get", "wait", "find", "prepare", "exec",
                         "free", "notify", "done"}]
  /\ conn \in [Queries -> Conns \cup {NoConn}]

(* A connection serves one query at a time: no two hold the same one, and   *)
(* none that is held is in the pool, or twice in it.                        *)
Exclusive ==
  /\ \A p, q \in Queries : conn[p] = conn[q] /\ conn[p] # NoConn => p = q
  /\ \A i, j \in 1..Len(m_pool_conn) : m_pool_conn[i] = m_pool_conn[j] => i = j
  /\ Pooled \cap Held = {}

(* No connection leaks, whatever the server refuses: each one that any run  *)
(* has made is in the pool or with a query, and once a run has succeeded    *)
(* there are at least m_worker (more, if another had failed halfway).       *)
NoLeak ==
  /\ Cardinality(Pooled \cup Held) = total
  /\ m_isRun => total >= Worker

(* No lost wakeup: while a query waits there are no more free connections   *)
(* than queries about to take one and notifications about to be given,      *)
(* although a query that never waited may take the connection that a        *)
(* notification was for.                                                    *)
WakeupsCover ==
  (\E q \in Queries : pc[q] = "wait")
    => Len(m_pool_conn) <=
         Cardinality({q \in Queries : pc[q] \in {"get", "notify"}})

(* A statement is executed only on a connection for which the server has    *)
(* it: the names kept with the connection survive its trips through the     *)
(* pool and no failed PQprepare leaves one behind.                          *)
PreparedBeforeExec ==
  \A q \in Queries : pc[q] = "exec" => stmtOf[q] \in server[conn[q]]

(* A query that has been let in returns, if there is a worker at all and    *)
(* none of the recurring task's throws.                                     *)
QueryReturns == \A q \in Queries : pc[q] = "get" ~> (pc[q] = "done" \/ down)
=============================================================================
