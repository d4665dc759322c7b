------------------------------- MODULE Logger -------------------------------
(***************************************************************************)
(* The logger (Logger.cpp): threads log lines, which go to stdout or, when *)
(* a dump interval is set, to a list that a loop task of the FHT_MAIN      *)
(* thread appends to a file; the destructor appends the rest.              *)
(*                                                                         *)
(* The first line that passes the level creates the writer and posts the   *)
(* dump task, without the mutex.  Two threads in that code at once, or a   *)
(* dump that locked its weak pointer before the destructor and the mutex   *)
(* after it, are undefined behaviour: undefined becomes TRUE, and nothing  *)
(* is claimed of what follows.  A line is <<t, n>>, the nth of thread t.   *)
(***************************************************************************)
EXTENDS Integers, Sequences, FiniteSets, SequencesExt

CONSTANTS
  Threads,   (* threads that log                                            *)
  MaxLines   (* bound: lines per thread                                     *)

ASSUME LoggerAssumption == MaxLines \in Nat \ {0}

VARIABLES
  late,       (* the program calls the setters at any time, or only before  *)
              (* its first line, as InitCore does                           *)
  verbose,    (* a line passes m_verboseLogging; FALSE: level OFF           *)
  interval,   (* m_intervalSec # 0                                          *)
  writer,     (* m_write is not null                                        *)
  task,       (* the dump task is in the queue of FHT_MAIN                  *)
  dumping,    (* it has locked its weak pointer                             *)
  m_list,     (* the lines to dump                                          *)
  file,       (* the file                                                   *)
  out,        (* stdout                                                     *)
  lost,       (* lines of a dump that could not open the file               *)
  lpc,        (* lpc[t]: where t is in log                                  *)
  sent,       (* sent[t]: lines of t that are written or filtered           *)
  logged,     (* the lines that passed the level                            *)
  life,       (* of the Logger, a static of the first call                 *)
  nullWrite,  (* the destructor called a method of a null m_write           *)
  undefined

conf == <<late, verbose, interval>>
dump == <<task, dumping>>
lines == <<m_list, file, out, lost>>
vars == <<conf, dump, lines, writer, lpc, sent, logged, life, nullWrite, undefined>>

Init ==
  /\ late \in BOOLEAN
  /\ verbose = FALSE
  /\ interval = FALSE
  /\ writer = FALSE
  /\ task = FALSE
  /\ dumping = FALSE
  /\ m_list = <<>> /\ file = <<>> /\ out = <<>> /\ lost = <<>>
  /\ lpc = [t \in Threads |-> "idle"]
  /\ sent = [t \in Threads |-> 0]
  /\ logged = {}
  /\ life = "unmade"
  /\ nullWrite = FALSE
  /\ undefined = FALSE

-----------------------------------------------------------------------------
(* setLevelVerboseLogging, setTimeDump: before the first line, unless late. *)
Configure ==
  /\ life # "destroyed" /\ life' = "alive"
  /\ late \/ \A t \in Threads : lpc[t] = "idle" /\ sent[t] = 0
  /\ verbose' \in BOOLEAN
  /\ interval' \in BOOLEAN
  /\ UNCHANGED <<late, dump, lines, writer, lpc, sent, logged, nullWrite, undefined>>

(* log, for a line below the level. *)
Filter(t) ==
  /\ life # "destroyed" /\ life' = "alive"
  /\ lpc[t] = "idle" /\ sent[t] < MaxLines
  /\ ~verbose
  /\ sent' = [sent EXCEPT ![t] = @ + 1]
  /\ UNCHANGED <<conf, dump, lines, writer, lpc, logged, nullWrite, undefined>>

(* log: if (!m_write). *)
Check(t) ==
  /\ life # "destroyed" /\ life' = "alive"
  /\ lpc[t] = "idle" /\ sent[t] < MaxLines
  /\ verbose
  /\ lpc' = [lpc EXCEPT ![t] = IF writer THEN "stream" ELSE "create"]
  /\ UNCHANGED <<conf, dump, lines, writer, sent, logged, nullWrite, undefined>>

(* Mutant of Create: the task is posted when there is no interval. *)
CreateNoTask(t) ==
  /\ lpc[t] = "create"
  /\ writer' = TRUE
  /\ task' = (task \/ ~interval)
  /\ undefined' = (undefined \/ writer \/ \E u \in Threads \ {t} : lpc[u] = "create")
  /\ lpc' = [lpc EXCEPT ![t] = "stream"]
  /\ UNCHANGED <<conf, dumping, lines, sent, logged, life, nullWrite>>

(* m_write.reset(new logWriter), and the task if there is an interval. *)
Create(t) ==
  /\ lpc[t] = "create"
  /\ writer' = TRUE
  /\ task' = (task \/ interval)
  /\ undefined' = (undefined \/ writer \/ \E u \in Threads \ {t} : lpc[u] = "create")
  /\ lpc' = [lpc EXCEPT ![t] = "stream"]
  /\ UNCHANGED <<conf, dumping, lines, sent, logged, life, nullWrite>>

(* ~LoggerStream: the closure, under the mutex. *)
Append_(t) ==
  LET line == <<t, sent[t] + 1>> IN
  /\ lpc[t] = "stream"
  /\ IF interval
     THEN m_list' = Append(m_list, line) /\ UNCHANGED out
     ELSE out' = Append(out, line) /\ UNCHANGED m_list
  /\ lpc' = [lpc EXCEPT ![t] = "idle"]
  /\ sent' = [sent EXCEPT ![t] = @ + 1]
  /\ logged' = logged \cup {line}
  /\ UNCHANGED <<conf, dump, file, lost, writer, life, nullWrite, undefined>>

-----------------------------------------------------------------------------
(* Mutant of WriteFromList: the list is copied, not swapped. *)
WriteFromCopy ==
  /\ UNCHANGED m_list
  /\ \/ file' = file \o m_list /\ UNCHANGED lost
     \/ lost' = lost \o m_list /\ UNCHANGED file

(* Mutant of WriteFromList: the list is written from its end. *)
WriteReversed ==
  /\ m_list' = <<>>
  /\ \/ file' = file \o Reverse(m_list) /\ UNCHANGED lost
     \/ lost' = lost \o Reverse(m_list) /\ UNCHANGED file

(* writeFromList of the swapped list: the lines are lost if the file does   *)
(* not open.                                                                *)
WriteFromList ==
  /\ m_list' = <<>>
  /\ \/ file' = file \o m_list /\ UNCHANGED lost
     \/ lost' = lost \o m_list /\ UNCHANGED file

(* Mutant of DumpLock: FINISH after the first dump. *)
DumpLockOnce ==
  /\ task /\ ~dumping
  /\ dumping' = writer
  /\ task' = FALSE
  /\ UNCHANGED <<conf, lines, writer, lpc, sent, logged, life, nullWrite, undefined>>

(* The dump task: f_write.lock(), or FINISH. *)
DumpLock ==
  /\ task /\ ~dumping
  /\ IF writer THEN dumping' = TRUE /\ UNCHANGED task
               ELSE task' = FALSE /\ UNCHANGED dumping
  /\ UNCHANGED <<conf, lines, writer, lpc, sent, logged, life, nullWrite, undefined>>

(* swap and write under the mutex; CONTINUE. *)
DumpWrite ==
  /\ dumping
  /\ dumping' = FALSE
  /\ IF life = "alive"
     THEN WriteFromList /\ UNCHANGED undefined
     ELSE undefined' = TRUE /\ UNCHANGED <<m_list, file, lost>>
  /\ UNCHANGED <<conf, task, out, writer, lpc, sent, logged, life, nullWrite>>

(* ~Logger, at the end of main, when the program's threads log no more.  A  *)
(* null m_write is not checked for.                                         *)
Destroy ==
  /\ life = "alive" /\ \A t \in Threads : lpc[t] = "idle"
  /\ life' = "destroyed"
  /\ writer' = FALSE
  /\ IF writer THEN WriteFromList /\ UNCHANGED nullWrite
               ELSE nullWrite' = TRUE /\ UNCHANGED <<m_list, file, lost>>
  /\ UNCHANGED <<conf, dump, out, lpc, sent, logged, undefined>>

-----------------------------------------------------------------------------
Log(t) == Filter(t) \/ Check(t) \/ Create(t) \/ Append_(t)

Next ==
  \/ Configure
  \/ DumpLock \/ DumpWrite
  \/ Destroy
  \/ \E t \in Threads : Log(t)

(* FHT_MAIN runs its loop tasks; a thread that began to log goes on; that   *)
(* threads log, and when the program ends, is up to the program.            *)
Fairness ==
  /\ WF_vars(DumpLock) /\ WF_vars(DumpWrite)
  /\ \A t \in Threads : WF_vars(Create(t) \/ Append_(t))

Spec == Init /\ [][Next]_vars
LiveSpec == Spec /\ Fairness

-----------------------------------------------------------------------------
(* Properties *)

Lines == Threads \X (1 .. MaxLines)

TypeOK ==
  /\ {late, verbose, interval, writer, task, dumping, nullWrite, undefined} \subseteq BOOLEAN
  /\ dumping => task
  /\ life \in {"unmade", "alive", "destroyed"}
  /\ \A s \in {m_list, file, out, lost} : s \in Seq(Lines)
  /\ lpc \in [Threads -> {"idle", "create", "stream"}]
  /\ sent \in [Threads -> 0 .. MaxLines]
  /\ logged \subseteq Lines

Dumped == file \o m_list

(* Every line that passed the level is in one place and once there: in the  *)
(* file, in the list to be dumped, on stdout, or lost with a dump that      *)
(* could not open the file; and none is left in the list of a destroyed     *)
(* logger.                                                                  *)
LinesOnce ==
  ~undefined =>
    LET all == file \o m_list \o out \o lost IN
    /\ ToSet(all) = logged /\ Len(all) = Cardinality(logged)
    /\ life = "destroyed" => m_list = <<>>

(* The file and the list that follows it hold the lines of a thread in the  *)
(* order in which it logged them, across dumps and the destructor's one.    *)
InOrder ==
  ~undefined => \A i, j \in DOMAIN Dumped :
    i < j /\ Dumped[i][1] = Dumped[j][1] => Dumped[i][2] < Dumped[j][2]

(* With the interval set before the first line, a line in the list leaves   *)
(* it, by the dump task or by the destructor.                               *)
ListDrained ==
  \A t \in Threads, n \in 1 .. MaxLines :
    ~late /\ <<t, n>> \in ToSet(m_list) ~> (<<t, n>> \notin ToSet(m_list) \/ undefined)
=============================================================================
