--------------------------- MODULE PostgresProofs ---------------------------
(***************************************************************************)
(* Theorems about Postgres, for every set of queries, statements and       *)
(* connections and every m_worker.                                         *)
(***************************************************************************)
EXTENDS Postgres, FiniteSetTheorems, TLAPS

-----------------------------------------------------------------------------
(* The pool as a set. *)

Elems(pool) == {pool[i] : i \in 1..Len(pool)}
Distinct(pool) == \A i, j \in 1..Len(pool) : pool[i] = pool[j] => i = j

(* What a connection that comes to the pool changes. *)
LEMMA PushFacts ==
  ASSUME NEW pool \in Seq(Conns), NEW c \in Conns
  PROVE  /\ Append(pool, c) \in Seq(Conns) /\ Append(pool, c) # <<>>
         /\ Len(Append(pool, c)) = Len(pool) + 1
         /\ Elems(Append(pool, c)) = Elems(pool) \cup {c}
         /\ Distinct(pool) /\ c \notin Elems(pool) => Distinct(Append(pool, c))
<1> DEFINE r == Append(pool, c)
<1>1. /\ r \in Seq(Conns) /\ r # <<>>
      /\ Len(pool) \in Nat /\ Len(r) = Len(pool) + 1 /\ r[Len(pool) + 1] = c
      /\ \A i \in 1..Len(pool) : r[i] = pool[i]
  OBVIOUS
<1> HIDE DEF r
<1>2. \A i \in 1..Len(r) : i \in 1..Len(pool) \/ i = Len(pool) + 1
  BY <1>1
<1>3. 1..Len(pool) \subseteq 1..Len(r) /\ Len(pool) + 1 \in 1..Len(r)
  BY <1>1
<1>4. Elems(r) = Elems(pool) \cup {c}
  <2>1. ASSUME NEW i \in 1..Len(r) PROVE r[i] \in Elems(pool) \cup {c}
    BY <1>1, <1>2 DEF Elems
  <2>2. ASSUME NEW i \in 1..Len(pool) PROVE pool[i] \in Elems(r)
    <3>1. i \in 1..Len(r) /\ r[i] = pool[i]
      BY <1>1, <1>3
    <3>2. QED
      BY <3>1 DEF Elems
  <2>3. c \in Elems(r)
    BY <1>1, <1>3 DEF Elems
  <2>4. QED
    BY <2>1, <2>2, <2>3 DEF Elems
<1>5. Distinct(pool) /\ c \notin Elems(pool) => Distinct(r)
  BY <1>1, <1>2 DEF Distinct, Elems
<1>6. QED
  BY <1>1, <1>4, <1>5 DEF r

(* And one that goes: the front of the queue. *)
LEMMA PopFacts ==
  ASSUME NEW pool \in Seq(Conns), pool # <<>>
  PROVE  /\ Len(pool) \in Nat \ {0} /\ Head(pool) \in Conns
         /\ Tail(pool) \in Seq(Conns) /\ Len(Tail(pool)) = Len(pool) - 1
         /\ Elems(pool) = Elems(Tail(pool)) \cup {Head(pool)}
         /\ Distinct(pool) => /\ Distinct(Tail(pool))
                              /\ Head(pool) \notin Elems(Tail(pool))
<1> DEFINE h == Head(pool)
           r == Tail(pool)
<1>1. /\ Len(pool) \in Nat \ {0} /\ h \in Conns /\ h = pool[1]
      /\ r \in Seq(Conns) /\ Len(r) = Len(pool) - 1
      /\ \A i \in 1..Len(r) : r[i] = pool[i + 1]
  OBVIOUS
<1> HIDE DEF h, r
<1>2. \A i \in 1..Len(r) : i + 1 \in 1..Len(pool) /\ i + 1 # 1
  BY <1>1
<1>3. 1 \in 1..Len(pool)
  BY <1>1
<1>4. Elems(pool) = Elems(r) \cup {h}
  <2>1. ASSUME NEW i \in 1..Len(r) PROVE r[i] \in Elems(pool)
    BY <1>1, <1>2 DEF Elems
  <2>2. ASSUME NEW i \in 1..Len(pool) PROVE pool[i] \in Elems(r) \cup {h}
    <3>1. i = 1 \/ (i - 1 \in 1..Len(r) /\ r[i - 1] = pool[i])
      BY <1>1
    <3>2. QED
      BY <1>1, <3>1 DEF Elems
  <2>3. h \in Elems(pool)
    BY <1>1, <1>3 DEF Elems
  <2>4. QED
    BY <2>1, <2>2, <2>3 DEF Elems
<1>5. Distinct(pool) => Distinct(r) /\ h \notin Elems(r)
  BY <1>1, <1>2, <1>3 DEF Distinct, Elems
<1>6. QED
  BY <1>1, <1>4, <1>5 DEF h, r

-----------------------------------------------------------------------------
(* Types.  A query has a connection exactly between getConnection and       *)
(* freeConnection.                                                          *)

Holding(q) == pc[q] \in {"find", "prepare", "exec", "free"}

InHand == \A q \in Queries : Holding(q) <=> conn[q] # NoConn

Base == TypeOK /\ InHand

(* Init and the steps preserve Base. *)
LEMMA BaseInit == Init => Base
<1> SUFFICES ASSUME Init PROVE Base
  OBVIOUS
<1>1. m_pool_conn \in Seq(Conns)
  BY DEF Init
<1>2. made \in 0..Worker /\ total \in Nat
  BY PostgresAssumption DEF Init
<1>3. /\ stmts \in [Conns -> SUBSET Stmts]
      /\ server \in [Conns -> SUBSET Stmts]
  BY DEF Init
<1>4. InHand
  BY DEF Init, InHand, Holding
<1>5. QED
  BY <1>1, <1>2, <1>3, <1>4 DEF Init, Base, TypeOK

(* Every step keeps Base. *)
LEMMA BaseStep == Base /\ [Next]_vars => Base'
<1> SUFFICES ASSUME Base, [Next]_vars PROVE Base'
  OBVIOUS
<1> USE PostgresAssumption
    DEF Base, TypeOK, InHand, Holding, runVars, queryVars, Goto
<1>1. ASSUME SetConfiguration \/ RunBegin \/ RunTwice \/ RunFail \/ RunEnd
      PROVE  Base'
  <2>1. UNCHANGED <<down, m_pool_conn, total, stmts, server, pc, conn>>
    BY <1>1 DEF SetConfiguration, RunBegin, RunTwice, RunFail, RunEnd
  <2>2. rpc' \in {"idle", "connect"} /\ made' \in 0..Worker
    BY <1>1 DEF SetConfiguration, RunBegin, RunTwice, RunFail, RunEnd
  <2>3. m_config_ptr' \in BOOLEAN /\ m_isRun' \in BOOLEAN
    BY <1>1 DEF SetConfiguration, RunBegin, RunTwice, RunFail, RunEnd
  <2>4. QED
    BY <2>1, <2>2, <2>3
<1>2. ASSUME RunConnect PROVE Base'
  <2>1. m_pool_conn' \in Seq(Conns)
    BY <1>2, PushFacts DEF RunConnect
  <2>2. QED
    BY <1>2, <2>1 DEF RunConnect
<1>3. ASSUME NEW q \in Queries, Refuse(q) \/ Begin(q) \/ GetWait(q)
      PROVE  Base'
  BY <1>3 DEF Refuse, Begin, GetWait
<1>4. ASSUME NEW q \in Queries, Get(q) PROVE Base'
  <2>1. /\ Head(m_pool_conn) \in Conns
        /\ m_pool_conn' \in Seq(Conns)
    BY <1>4, PopFacts DEF Get
  <2>2. QED
    BY <1>4, <2>1 DEF Get
<1>5. ASSUME NEW q \in Queries, Find(q) PROVE Base'
  BY <1>5 DEF Find
<1>6. ASSUME NEW q \in Queries, Prepare(q) PROVE Base'
  <2>1. conn[q] \in Conns /\ stmtOf[q] \in Stmts
    BY <1>6 DEF Prepare
  <2>2. /\ stmts' \in [Conns -> SUBSET Stmts]
        /\ server' \in [Conns -> SUBSET Stmts]
    BY <1>6, <2>1 DEF Prepare
  <2>3. QED
    BY <1>6, <2>2 DEF Prepare
<1>7. ASSUME NEW q \in Queries, PrepareFail(q) \/ Exec(q) \/ ExecFail(q)
      PROVE  Base'
  <2>1. down' \in BOOLEAN
    <3>1. CASE Exec(q)
      BY <3>1 DEF Exec
    <3>2. CASE PrepareFail(q) \/ ExecFail(q)
      <4>1. down' = (q \in Deletes)
        BY <3>2, Zenon DEF PrepareFail, ExecFail, Throws
      <4>2. QED
        BY <4>1
    <3>3. QED
      BY <1>7, <3>1, <3>2
  <2>2. UNCHANGED <<runVars, m_pool_conn, stmts, server, conn>>
    BY <1>7 DEF PrepareFail, Exec, ExecFail
  <2>3. pc' = [pc EXCEPT ![q] = "free"] /\ Holding(q)
    BY <1>7 DEF PrepareFail, Exec, ExecFail
  <2>4. QED
    BY <2>1, <2>2, <2>3
<1>8. ASSUME NEW q \in Queries, Free(q) PROVE Base'
  <2>1. conn[q] \in Conns
    BY <1>8 DEF Free
  <2>2. m_pool_conn' \in Seq(Conns)
    BY <1>8, <2>1, PushFacts DEF Free
  <2>3. QED
    BY <1>8, <2>2 DEF Free
<1>9. ASSUME NEW q \in Queries, Notify(q) PROVE Base'
  BY <1>9 DEF Notify
<1>10. ASSUME NEW q \in Queries, SpuriousWakeup(q) PROVE Base'
  BY <1>10 DEF SpuriousWakeup
<1>11. ASSUME UNCHANGED vars PROVE Base'
  BY <1>11 DEF vars
<1>12. QED
  BY <1>1, <1>2, <1>3, <1>4, <1>5, <1>6, <1>7, <1>8, <1>9, <1>10, <1>11
     DEF Next, Run, Step

(* Every variable keeps its type; in particular run makes no connection     *)
(* more than m_worker.                                                      *)
THEOREM TypeCorrect == Spec => []TypeOK
<1>1. Base => TypeOK
  BY DEF Base
<1>2. QED
  BY <1>1, BaseInit, BaseStep, PTL DEF Spec

-----------------------------------------------------------------------------
(* Prepared statements: what a connection remembers the server has. *)

Remembered == \A c \in Conns : stmts[c] \subseteq server[c]

Known == Remembered /\ PreparedBeforeExec

(* The steps preserve Known: the statements of another connection than the  *)
(* query's, and the connections of other queries, stay as they are.         *)
LEMMA KnownStep == Base /\ Known /\ [Next]_vars => Known'
<1> SUFFICES ASSUME Base, Known, [Next]_vars PROVE Known'
  OBVIOUS
<1> USE PostgresAssumption
    DEF Base, TypeOK, InHand, Holding, Known, Remembered, PreparedBeforeExec,
        runVars, queryVars, Goto
<1>1. ASSUME Run PROVE Known'
  BY <1>1 DEF Run, SetConfiguration, RunBegin, RunTwice, RunConnect, RunFail,
              RunEnd
<1>2. ASSUME NEW q \in Queries, Refuse(q) \/ Begin(q) \/ GetWait(q)
      PROVE  Known'
  BY <1>2 DEF Refuse, Begin, GetWait
<1>3. ASSUME NEW q \in Queries, Get(q) PROVE Known'
  BY <1>3 DEF Get
<1>4. ASSUME NEW q \in Queries, Find(q) PROVE Known'
  BY <1>4 DEF Find
<1>5. ASSUME NEW q \in Queries, Prepare(q) PROVE Known'
  <2>1. conn[q] \in Conns
    BY <1>5 DEF Prepare
  <2>2. \A c \in Conns : stmts'[c] \subseteq server'[c]
    BY <1>5, <2>1 DEF Prepare
  <2>3. \A c \in Conns : server[c] \subseteq server'[c]
    BY <1>5, <2>1 DEF Prepare
  <2>4. ASSUME NEW p \in Queries, pc'[p] = "exec"
        PROVE  stmtOf[p] \in server'[conn[p]]
    <3>1. CASE p = q
      BY <1>5, <2>1, <3>1 DEF Prepare
    <3>2. CASE p # q
      <4>1. pc[p] = "exec"
        BY <1>5, <2>4, <3>2 DEF Prepare
      <4>2. conn[p] \in Conns /\ stmtOf[p] \in server[conn[p]]
        BY <4>1
      <4>3. QED
        BY <4>2, <2>3
    <3>3. QED
      BY <3>1, <3>2
  <2>5. QED
    BY <1>5, <2>2, <2>4 DEF Prepare
<1>6. ASSUME NEW q \in Queries, PrepareFail(q) \/ Exec(q) \/ ExecFail(q)
      PROVE  Known'
  BY <1>6 DEF PrepareFail, Exec, ExecFail, Throws
<1>7. ASSUME NEW q \in Queries, Free(q) PROVE Known'
  BY <1>7 DEF Free
<1>8. ASSUME NEW q \in Queries, Notify(q) PROVE Known'
  BY <1>8 DEF Notify
<1>9. ASSUME NEW q \in Queries, SpuriousWakeup(q) PROVE Known'
  BY <1>9 DEF SpuriousWakeup
<1>10. ASSUME UNCHANGED vars PROVE Known'
  BY <1>10 DEF vars
<1>11. QED
  BY <1>1, <1>2, <1>3, <1>4, <1>5, <1>6, <1>7, <1>8, <1>9, <1>10
     DEF Next, Step

(* A statement is executed only where the server has prepared it. *)
THEOREM PreparedBeforeExecHolds == Spec => []PreparedBeforeExec
<1>1. Init => Known
  BY DEF Init, Known, Remembered, PreparedBeforeExec
<1>2. Known => PreparedBeforeExec
  BY DEF Known
<1>3. QED
  BY <1>1, <1>2, BaseInit, BaseStep, KnownStep, PTL DEF Spec

-----------------------------------------------------------------------------
(* Connections go from the pool to a query and back; a run makes new ones.  *)

All == Pooled \cup Held

Carried == All' = All /\ UNCHANGED total

Made == \E c \in Conns \ All : All' = All \cup {c} /\ total' = total + 1

(* A step of a query or of run keeps the connections apart, and carries     *)
(* them or makes one.                                                       *)
LEMMA PoolStep ==
  Base /\ Exclusive /\ [Next]_vars =>
    /\ Exclusive'
    /\ Carried \/ (RunConnect /\ Made)
<1> SUFFICES ASSUME Base, Exclusive, [Next]_vars
             PROVE  Exclusive' /\ (Carried \/ (RunConnect /\ Made))
  OBVIOUS
<1> USE PostgresAssumption
<1>0. /\ m_pool_conn \in Seq(Conns) /\ conn \in [Queries -> Conns \cup {NoConn}]
      /\ Pooled = Elems(m_pool_conn) /\ Distinct(m_pool_conn)
      /\ Pooled \cap Held = {} /\ NoConn \notin Held
      /\ Pooled' = Elems(m_pool_conn')
      /\ Distinct(m_pool_conn') => \A i, j \in 1..Len(m_pool_conn') :
                                     m_pool_conn'[i] = m_pool_conn'[j] => i = j
  BY DEF Base, TypeOK, Exclusive, Pooled, Held, Elems, Distinct
<1>s. ASSUME UNCHANGED <<m_pool_conn, conn, total>>
      PROVE  Exclusive' /\ Carried
  BY <1>s DEF Exclusive, Pooled, Held, Carried, All
<1>1. ASSUME SetConfiguration \/ RunBegin \/ RunTwice \/ RunFail \/ RunEnd
      PROVE  UNCHANGED <<m_pool_conn, conn, total>>
  BY <1>1 DEF SetConfiguration, RunBegin, RunTwice, RunFail, RunEnd, queryVars
<1>2. ASSUME RunConnect PROVE Exclusive' /\ Made
  <2>1. PICK c \in Conns \ All :
          m_pool_conn' = Append(m_pool_conn, c) /\ UNCHANGED conn
    BY <1>2 DEF RunConnect, All, queryVars
  <2>2. Pooled' = Pooled \cup {c} /\ Held' = Held
    BY <2>1, <1>0, PushFacts DEF Held
  <2>3. Distinct(m_pool_conn')
    BY <2>1, <1>0, PushFacts DEF All
  <2>4. Exclusive'
    BY <2>1, <2>2, <2>3, <1>0 DEF Exclusive, All
  <2>5. All' = All \cup {c} /\ total' = total + 1
    BY <1>2, <2>2 DEF All, RunConnect
  <2>6. QED
    BY <2>4, <2>5 DEF Made
<1>3. ASSUME NEW q \in Queries, Get(q) PROVE Exclusive' /\ Carried
  <2> DEFINE h == Head(m_pool_conn)
  <2>1. /\ m_pool_conn # <<>> /\ m_pool_conn' = Tail(m_pool_conn)
        /\ conn' = [conn EXCEPT ![q] = h]
        /\ conn[q] = NoConn /\ total' = total
    BY <1>3 DEF Get, Goto, runVars, Base, InHand, Holding
  <2>2. h \in Conns /\ Pooled = Pooled' \cup {h}
    BY <2>1, <1>0, PopFacts
  <2>3. Distinct(m_pool_conn') /\ h \notin Pooled'
    BY <2>1, <1>0, PopFacts
  <2> HIDE DEF h
  <2>4. /\ \A p \in Queries \ {q} : conn'[p] = conn[p] /\ conn[p] # h
        /\ conn'[q] = h
    BY <2>1, <2>2, <1>0 DEF Held
  <2>5. Held' = Held \cup {h}
    BY <2>1, <2>2, <2>4, <1>0 DEF Held
  <2>6. Exclusive'
    BY <2>2, <2>3, <2>4, <2>5, <1>0 DEF Exclusive
  <2>7. QED
    BY <2>1, <2>2, <2>5, <2>6 DEF Carried, All
<1>4. ASSUME NEW q \in Queries, Free(q) PROVE Exclusive' /\ Carried
  <2> DEFINE c == conn[q]
  <2>1. /\ m_pool_conn' = Append(m_pool_conn, c)
        /\ conn' = [conn EXCEPT ![q] = NoConn]
        /\ c # NoConn /\ total' = total
    BY <1>4 DEF Free, Goto, runVars, Base, InHand, Holding
  <2>2. c \in Held /\ c \in Conns /\ c \notin Pooled
    BY <2>1, <1>0 DEF Held
  <2>3. \A p \in Queries \ {q} : conn[p] # c /\ conn'[p] = conn[p]
    BY <2>1, <1>0 DEF Exclusive
  <2>4. conn'[q] = NoConn
    BY <2>1, <1>0
  <2> HIDE DEF c
  <2>5. Pooled' = Pooled \cup {c}
    BY <2>1, <2>2, <1>0, PushFacts
  <2>6. Distinct(m_pool_conn')
    BY <2>1, <2>2, <1>0, PushFacts
  <2>7. Held' = Held \ {c}
    BY <2>2, <2>3, <2>4 DEF Held, c
  <2>8. Exclusive'
    BY <2>3, <2>4, <2>5, <2>6, <2>7, <1>0 DEF Exclusive
  <2>9. QED
    BY <2>1, <2>2, <2>5, <2>7, <2>8 DEF Carried, All
<1>5. ASSUME NEW q \in Queries,
             \/ Refuse(q) \/ Begin(q) \/ GetWait(q) \/ Find(q) \/ Prepare(q)
             \/ PrepareFail(q) \/ Exec(q) \/ ExecFail(q) \/ Notify(q)
             \/ SpuriousWakeup(q)
      PROVE  UNCHANGED <<m_pool_conn, conn, total>>
  BY <1>5 DEF Refuse, Begin, GetWait, Find, Prepare, PrepareFail, Exec,
              ExecFail, Notify, SpuriousWakeup, Goto, runVars
<1>6. ASSUME UNCHANGED vars PROVE UNCHANGED <<m_pool_conn, conn, total>>
  BY <1>6 DEF vars, runVars
<1>7. QED
  BY <1>s, <1>1, <1>2, <1>3, <1>4, <1>5, <1>6 DEF Next, Run, Step

(* A connection serves one query at a time, and is in the pool only while   *)
(* it serves none.                                                          *)
THEOREM ExclusiveHolds == Spec => []Exclusive
<1>1. Init => Exclusive
  BY DEF Init, Exclusive, Pooled, Held
<1>2. QED
  BY <1>1, BaseInit, BaseStep, PoolStep, PTL DEF Spec

-----------------------------------------------------------------------------
(* No leak: the connections count up to what the runs have made. *)

Counted ==
  /\ IsFiniteSet(All) /\ Cardinality(All) = total
  /\ made <= total
  /\ m_isRun => Worker <= total

(* The steps preserve Counted. *)
LEMMA CountedStep == Base /\ Exclusive /\ Counted /\ [Next]_vars => Counted'
<1> SUFFICES ASSUME Base, Exclusive, Counted, [Next]_vars PROVE Counted'
  OBVIOUS
<1>1. /\ made \in Nat /\ total \in Nat /\ Worker \in Nat
      /\ m_isRun \in BOOLEAN
  BY PostgresAssumption DEF Base, TypeOK
<1>2. IsFiniteSet(All') /\ Cardinality(All') = total'
  <2>1. CASE Carried
    BY <2>1 DEF Carried, Counted
  <2>2. CASE Made
    BY <2>2, <1>1, FS_AddElement DEF Made, Counted
  <2>3. QED
    BY <2>1, <2>2, PoolStep
<1>3. made' <= total' /\ (m_isRun' => Worker <= total')
  <2>1. CASE SetConfiguration \/ RunTwice \/ RunFail \/ RunBegin
    BY <2>1, <1>1 DEF SetConfiguration, RunTwice, RunFail, RunBegin, Counted
  <2>2. CASE RunConnect
    BY <2>2, <1>1 DEF RunConnect, Counted
  <2>3. CASE RunEnd
    BY <2>3, <1>1 DEF RunEnd, Counted
  <2>4. ASSUME NEW q \in Queries,
               Refuse(q) \/ Begin(q) \/ Step(q) \/ SpuriousWakeup(q)
        PROVE  UNCHANGED runVars
    BY <2>4 DEF Refuse, Begin, Step, GetWait, Get, Find, Prepare, PrepareFail,
                Exec, ExecFail, Free, Notify, SpuriousWakeup, Goto
  <2>5. CASE UNCHANGED runVars
    BY <2>5, <1>1 DEF runVars, Counted
  <2>6. CASE UNCHANGED vars
    BY <2>6, <2>5 DEF vars
  <2>7. QED
    BY <2>1, <2>2, <2>3, <2>4, <2>5, <2>6 DEF Next, Run
<1>4. QED
  BY <1>2, <1>3 DEF Counted

(* No connection is lost, whatever the server refuses. *)
THEOREM NoLeakHolds == Spec => []NoLeak
<1>1. Init => Counted
  <2> SUFFICES ASSUME Init PROVE Counted
    OBVIOUS
  <2>1. All = {}
    BY DEF Init, All, Pooled, Held
  <2>2. QED
    BY <2>1, FS_EmptySet DEF Init, Counted
<1>2. Base /\ Counted => NoLeak
  BY PostgresAssumption DEF Base, TypeOK, Counted, All, NoLeak
<1>3. Spec => [](Base /\ Exclusive)
  BY BaseInit, BaseStep, ExclusiveHolds, PTL DEF Spec
<1>4. QED
  BY <1>1, <1>2, <1>3, CountedStep, PTL DEF Spec

-----------------------------------------------------------------------------
(* No lost wakeup: the free connections are covered, one by one, by queries *)
(* that will look at the pool again or notify.  The pool grows without one  *)
(* only in run, before there is anybody to wait.                            *)

Able == {q \in Queries : pc[q] \in {"get", "notify"}}

Waiting == \E q \in Queries : pc[q] = "wait"

LetIn ==
  /\ \A q \in Queries : pc[q] \notin {"idle", "done"} => m_isRun
  /\ rpc = "connect" => ~m_isRun

(* The steps preserve LetIn. *)
LEMMA LetInStep == Base /\ LetIn /\ [Next]_vars => LetIn'
<1> SUFFICES ASSUME Base, LetIn, [Next]_vars PROVE LetIn'
  OBVIOUS
<1> USE DEF Base, TypeOK, LetIn, runVars, queryVars, Goto
<1>1. ASSUME Run PROVE LetIn'
  BY <1>1 DEF Run, SetConfiguration, RunBegin, RunTwice, RunConnect, RunFail,
              RunEnd
<1>2. ASSUME NEW q \in Queries, Refuse(q) \/ Begin(q) \/ SpuriousWakeup(q)
      PROVE  LetIn'
  BY <1>2 DEF Refuse, Begin, SpuriousWakeup
<1>3. ASSUME NEW q \in Queries, Notify(q) PROVE LetIn'
  BY <1>3 DEF Notify
<1>4. ASSUME NEW q \in Queries, Step(q), ~Notify(q)
      PROVE  LetIn'
  BY <1>4 DEF Step, GetWait, Get, Find, Prepare, PrepareFail, Exec, ExecFail,
              Free
<1>5. ASSUME UNCHANGED vars PROVE LetIn'
  BY <1>5 DEF vars
<1>6. QED
  BY <1>1, <1>2, <1>3, <1>4, <1>5 DEF Next

(* The steps preserve WakeupsCover. *)
LEMMA CoverStep == Base /\ LetIn /\ WakeupsCover /\ [Next]_vars => WakeupsCover'
<1> SUFFICES ASSUME Base, LetIn, WakeupsCover, [Next]_vars, Waiting'
             PROVE  Len(m_pool_conn') <= Cardinality(Able')
  BY DEF WakeupsCover, Waiting, Able
<1>0. /\ m_pool_conn \in Seq(Conns) /\ Len(m_pool_conn) \in Nat
      /\ pc \in [Queries -> {"idle", "get", "wait", "find", "prepare", "exec",
                             "free", "notify", "done"}]
  BY DEF Base, TypeOK
<1>f. /\ IsFiniteSet(Able) /\ Cardinality(Able) \in Nat
      /\ IsFiniteSet(Able') /\ Cardinality(Able') \in Nat
  BY QueriesFinite, FS_Subset, FS_CardinalityType DEF Able
<1>c. Waiting => Len(m_pool_conn) <= Cardinality(Able)
  BY DEF WakeupsCover, Waiting, Able
<1>s. ASSUME UNCHANGED m_pool_conn, Able \subseteq Able', Waiting
      PROVE  Len(m_pool_conn') <= Cardinality(Able')
  BY <1>s, <1>0, <1>f, <1>c, FS_Subset
<1>1. ASSUME Run PROVE Len(m_pool_conn') <= Cardinality(Able')
  <2>1. UNCHANGED pc /\ Waiting
    BY <1>1 DEF Run, SetConfiguration, RunBegin, RunTwice, RunConnect, RunFail,
                RunEnd, queryVars, Waiting
  <2>2. m_isRun
    BY <2>1 DEF Waiting, LetIn
  <2>3. UNCHANGED m_pool_conn
    BY <1>1, <2>2 DEF Run, SetConfiguration, RunBegin, RunTwice, RunConnect,
                      RunFail, RunEnd, LetIn
  <2>4. QED
    BY <1>s, <2>1, <2>3 DEF Able
<1>2. ASSUME NEW q \in Queries,
             \/ Refuse(q) \/ Begin(q) \/ SpuriousWakeup(q) \/ Find(q)
             \/ Prepare(q) \/ PrepareFail(q) \/ Exec(q) \/ ExecFail(q)
      PROVE  Len(m_pool_conn') <= Cardinality(Able')
  <2>1. PICK to \in {"done", "get", "exec", "prepare", "free"} :
          pc' = [pc EXCEPT ![q] = to]
    BY <1>2 DEF Refuse, Begin, SpuriousWakeup, Find, Prepare, PrepareFail, Exec,
                ExecFail, Goto
  <2>2. UNCHANGED m_pool_conn /\ pc[q] \notin {"get", "notify"}
    BY <1>2 DEF Refuse, Begin, SpuriousWakeup, Find, Prepare, PrepareFail, Exec,
                ExecFail, Goto
  <2>3. Able \subseteq Able' /\ Waiting
    BY <1>0, <2>1, <2>2 DEF Able, Waiting
  <2>4. QED
    BY <1>s, <2>2, <2>3
<1>3. ASSUME NEW q \in Queries, GetWait(q)
      PROVE  Len(m_pool_conn') <= Cardinality(Able')
  BY <1>3, <1>0, <1>f DEF GetWait
<1>4. ASSUME NEW q \in Queries, Get(q)
      PROVE  Len(m_pool_conn') <= Cardinality(Able')
  <2>1. /\ pc[q] = "get" /\ pc' = [pc EXCEPT ![q] = "find"]
        /\ m_pool_conn # <<>> /\ m_pool_conn' = Tail(m_pool_conn)
    BY <1>4 DEF Get, Goto
  <2>2. Able' = Able \ {q} /\ q \in Able /\ Waiting
    BY <1>0, <2>1 DEF Able, Waiting
  <2>3. Len(m_pool_conn') = Len(m_pool_conn) - 1
    BY <1>0, <2>1, PopFacts
  <2>4. Cardinality(Able') = Cardinality(Able) - 1
    BY <1>f, <2>2, FS_RemoveElement
  <2>5. QED
    BY <1>0, <1>c, <1>f, <2>2, <2>3, <2>4
<1>5. ASSUME NEW q \in Queries, Free(q)
      PROVE  Len(m_pool_conn') <= Cardinality(Able')
  <2>1. /\ pc[q] = "free" /\ pc' = [pc EXCEPT ![q] = "notify"]
        /\ conn[q] \in Conns /\ m_pool_conn' = Append(m_pool_conn, conn[q])
    BY <1>5 DEF Free, Goto, Base, TypeOK, InHand, Holding
  <2>2. Able' = Able \cup {q} /\ q \notin Able /\ Waiting
    BY <1>0, <2>1 DEF Able, Waiting
  <2>3. Len(m_pool_conn') = Len(m_pool_conn) + 1
    BY <1>0, <2>1, PushFacts
  <2>4. Cardinality(Able') = Cardinality(Able) + 1
    BY <1>f, <2>2, FS_AddElement
  <2>5. QED
    BY <1>0, <1>c, <1>f, <2>2, <2>3, <2>4
<1>6. ASSUME NEW q \in Queries, Notify(q)
      PROVE  Len(m_pool_conn') <= Cardinality(Able')
  <2>1. PICK p \in Queries :
          pc[p] = "wait" /\ pc' = [pc EXCEPT ![q] = "done", ![p] = "get"]
    <3>1. CASE \A p \in Queries : pc[p] # "wait"
      BY <1>6, <3>1, <1>0 DEF Notify, Waiting
    <3>2. QED
      BY <1>6, <3>1 DEF Notify
  <2>2. UNCHANGED m_pool_conn /\ pc[q] = "notify" /\ Waiting
    BY <1>6, <2>1 DEF Notify, Waiting
  <2>3. Able' = (Able \ {q}) \cup {p} /\ q \in Able /\ p \notin Able \ {q}
    BY <1>0, <2>1, <2>2 DEF Able
  <2>4. /\ IsFiniteSet(Able \ {q})
        /\ Cardinality(Able \ {q}) = Cardinality(Able) - 1
    BY <1>f, <2>3, FS_RemoveElement
  <2>5. Cardinality(Able') = Cardinality(Able)
    BY <1>f, <2>3, <2>4, FS_AddElement
  <2>6. QED
    BY <1>c, <2>2, <2>5
<1>7. ASSUME UNCHANGED vars PROVE Len(m_pool_conn') <= Cardinality(Able')
  <2>1. UNCHANGED <<m_pool_conn, pc>> /\ Waiting
    BY <1>7 DEF vars, Waiting
  <2>2. QED
    BY <1>s, <2>1 DEF Able
<1>8. QED
  BY <1>1, <1>2, <1>3, <1>4, <1>5, <1>6, <1>7 DEF Next, Step

(* While a query waits, no free connection is without somebody who will     *)
(* take it or notify.                                                       *)
THEOREM WakeupsCoverHolds == Spec => []WakeupsCover
<1>1. Init => LetIn /\ WakeupsCover
  BY DEF Init, LetIn, WakeupsCover
<1>2. Spec => []Base
  BY BaseInit, BaseStep, PTL DEF Spec
<1>3. QED
  BY <1>1, <1>2, LetInStep, CoverStep, PTL DEF Spec
=============================================================================
