---------------------------- MODULE LoggerProofs ----------------------------
(***************************************************************************)
(* Theorems about Logger, for any threads and any number of lines: each    *)
(* line is in one place and once there, and those of a thread are dumped   *)
(* in the order in which it logged them.                                   *)
(***************************************************************************)
EXTENDS Logger, SequenceTheorems, FiniteSetTheorems, TLAPS

-----------------------------------------------------------------------------
(* What is in sequences of lines that are appended to each other *)

(* A list appended to the file brings its lines to the file. *)
LEMMA ConcatSet ==
  ASSUME NEW S, NEW s \in Seq(S), NEW r \in Seq(S)
  PROVE  ToSet(s \o r) = ToSet(s) \cup ToSet(r)
<1> DEFINE c == s \o r
<1>1. /\ Len(s) \in Nat /\ Len(r) \in Nat /\ Len(c) = Len(s) + Len(r)
      /\ \A i \in 1 .. Len(s) : c[i] = s[i]
      /\ \A i \in 1 .. Len(r) : c[Len(s) + i] = r[i]
      /\ DOMAIN s = 1 .. Len(s) /\ DOMAIN r = 1 .. Len(r)
      /\ DOMAIN c = 1 .. Len(c)
  BY ConcatProperties, LenProperties
<1> HIDE DEF c
<1>2. ASSUME NEW i \in DOMAIN c PROVE c[i] \in ToSet(s) \cup ToSet(r)
  <2>1. CASE i <= Len(s)
    BY <2>1, <1>1 DEF ToSet
  <2>2. CASE i > Len(s)
    <3>1. i - Len(s) \in 1 .. Len(r) /\ c[i] = r[i - Len(s)]
      <4>1. i - Len(s) \in 1 .. Len(r) /\ Len(s) + (i - Len(s)) = i
        BY <2>2, <1>1
      <4>2. QED
        BY <4>1, <1>1
    <3>2. QED
      BY <3>1, <1>1 DEF ToSet
  <2>3. QED
    BY <2>1, <2>2, <1>1
<1>3. ASSUME NEW i \in DOMAIN s PROVE s[i] \in ToSet(c)
  <2>1. i \in DOMAIN c /\ c[i] = s[i]
    BY <1>1
  <2>2. QED
    BY <2>1 DEF ToSet
<1>4. ASSUME NEW i \in DOMAIN r PROVE r[i] \in ToSet(c)
  <2>1. Len(s) + i \in DOMAIN c /\ c[Len(s) + i] = r[i]
    BY <1>1
  <2>2. QED
    BY <2>1 DEF ToSet
<1>5. ToSet(c) = ToSet(s) \cup ToSet(r)
  BY <1>2, <1>3, <1>4 DEF ToSet
<1>6. QED
  BY <1>5 DEF c

(* A line appended to a list is in it. *)
LEMMA AppendSet ==
  ASSUME NEW S, NEW s \in Seq(S), NEW e \in S
  PROVE  ToSet(Append(s, e)) = ToSet(s) \cup {e}
<1> DEFINE c == Append(s, e)
<1>1. /\ Len(s) \in Nat /\ DOMAIN s = 1 .. Len(s)
      /\ DOMAIN c = 1 .. Len(s) + 1 /\ c[Len(s) + 1] = e
      /\ \A i \in DOMAIN s : c[i] = s[i]
  BY LenProperties, AppendProperties
<1> HIDE DEF c
<1>2. \A i \in DOMAIN c : i \in DOMAIN s \/ i = Len(s) + 1
  BY <1>1
<1>3. DOMAIN s \subseteq DOMAIN c /\ Len(s) + 1 \in DOMAIN c
  BY <1>1
<1>4. ToSet(c) = ToSet(s) \cup {e}
  BY <1>1, <1>2, <1>3 DEF ToSet
<1>5. QED
  BY <1>4 DEF c

(* Nothing is in an empty list. *)
LEMMA NoLines == ToSet(<<>>) = {} /\ Len(<<>>) = 0
BY DEF ToSet

(* The lines of a thread are numbered upwards. *)
Increasing(s) ==
  \A i, j \in DOMAIN s : i < j /\ s[i][1] = s[j][1] => s[i][2] < s[j][2]

(* A line with a greater number than those of its thread keeps the order. *)
LEMMA IncreasingAppend ==
  ASSUME NEW S, NEW s \in Seq(S), NEW e \in S, Increasing(s),
         \A l \in ToSet(s) : l[1] = e[1] => l[2] < e[2]
  PROVE  Increasing(Append(s, e))
<1> DEFINE r == Append(s, e)
<1>1. /\ Len(s) \in Nat /\ DOMAIN s = 1 .. Len(s)
      /\ Len(r) = Len(s) + 1 /\ DOMAIN r = 1 .. Len(r)
      /\ \A i \in DOMAIN s : r[i] = s[i]
      /\ r[Len(s) + 1] = e
  BY AppendProperties, LenProperties
<1> HIDE DEF r
<1>2. ASSUME NEW i \in DOMAIN r, NEW j \in DOMAIN r, i < j, r[i][1] = r[j][1]
      PROVE  r[i][2] < r[j][2]
  <2>1. i \in DOMAIN s /\ r[i] = s[i]
    BY <1>1, <1>2
  <2>2. CASE j \in DOMAIN s
    <3>1. r[j] = s[j]
      BY <2>2, <1>1
    <3>2. QED
      BY <2>1, <2>2, <3>1, <1>2 DEF Increasing
  <2>3. CASE j = Len(s) + 1
    <3>1. r[j] = e /\ s[i] \in ToSet(s)
      BY <2>1, <2>3, <1>1 DEF ToSet
    <3>2. QED
      BY <3>1, <2>1, <1>2
  <2>4. QED
    BY <2>2, <2>3, <1>1
<1>3. Increasing(r)
  BY <1>2 DEF Increasing
<1>4. QED
  BY <1>3 DEF r

(* A list that is cut from the end keeps it. *)
LEMMA IncreasingPrefix ==
  ASSUME NEW S, NEW s \in Seq(S), NEW r \in Seq(S), Increasing(s \o r)
  PROVE  Increasing(s)
<1> DEFINE c == s \o r
<1>1. /\ Len(s) \in Nat /\ Len(r) \in Nat /\ Len(c) = Len(s) + Len(r)
      /\ \A i \in 1 .. Len(s) : c[i] = s[i]
      /\ DOMAIN s = 1 .. Len(s) /\ DOMAIN c = 1 .. Len(c)
  BY ConcatProperties, LenProperties
<1>2. Increasing(c)
  OBVIOUS
<1> HIDE DEF c
<1>3. \A i \in DOMAIN s : i \in DOMAIN c /\ c[i] = s[i]
  BY <1>1
<1>4. QED
  BY <1>2, <1>3 DEF Increasing

-----------------------------------------------------------------------------
(* The inductive invariant *)

(* Who is in log is there within its bound, while the logger lives, and     *)
(* comes to the list with a writer made.                                    *)
Logging ==
  \A t \in Threads :
    /\ lpc[t] # "idle" => sent[t] < MaxLines /\ life = "alive"
    /\ lpc[t] = "stream" => writer

(* Only the destructor takes the writer away, and it empties the list.      *)
ListHasWriter == m_list # <<>> => writer /\ life # "destroyed"

(* A thread's next line has a number that none of its lines has. *)
Numbered == \A l \in logged : l[2] <= sent[l[1]]

(* LinesOnce, the places one by one. *)
Once ==
  /\ IsFiniteSet(logged)
  /\ logged = ToSet(file) \cup ToSet(m_list) \cup ToSet(out) \cup ToSet(lost)
  /\ Len(file) + Len(m_list) + Len(out) + Len(lost) = Cardinality(logged)

Inv ==
  /\ TypeOK
  /\ Logging /\ ListHasWriter /\ Numbered /\ Once
  /\ Increasing(Dumped)

(* A logger begins with no line. *)
LEMMA InvInit == Init => Inv
<1> SUFFICES ASSUME Init PROVE Inv
  OBVIOUS
<1>1. TypeOK
  <2>1. {late, verbose, interval, writer, task, dumping, nullWrite, undefined}
          \subseteq BOOLEAN
    BY DEF Init
  <2>2. \A l \in {m_list, file, out, lost} : l \in Seq(Lines)
    BY EmptySeq DEF Init
  <2>3. QED
    BY <2>1, <2>2, LoggerAssumption DEF Init, TypeOK
<1>2. Logging /\ ListHasWriter /\ Numbered
  BY DEF Init, Logging, ListHasWriter, Numbered
<1>3. Once
  BY NoLines, FS_EmptySet DEF Init, Once
<1>4. Increasing(Dumped)
  <2>1. Dumped = <<>>
    BY DEF Init, Dumped
  <2>2. QED
    BY <2>1 DEF Increasing
<1>5. QED
  BY <1>1, <1>2, <1>3, <1>4 DEF Inv

(* What a dump of the list does, by the task or by the destructor. *)
LEMMA Written ==
  ASSUME Inv, WriteFromList
  PROVE  /\ m_list' = <<>> /\ file' \in Seq(Lines) /\ lost' \in Seq(Lines)
         /\ ToSet(file') \cup ToSet(m_list') \cup ToSet(lost')
              = ToSet(file) \cup ToSet(m_list) \cup ToSet(lost)
         /\ Len(file') + Len(m_list') + Len(lost')
              = Len(file) + Len(m_list) + Len(lost)
         /\ Increasing(Dumped')
<1>1. /\ file \in Seq(Lines) /\ m_list \in Seq(Lines) /\ lost \in Seq(Lines)
      /\ Len(file) \in Nat /\ Len(m_list) \in Nat /\ Len(lost) \in Nat
  BY DEF Inv, TypeOK
<1>2. m_list' = <<>> /\ ToSet(m_list') = {} /\ Len(m_list') = 0
  BY NoLines DEF WriteFromList
<1>3. CASE file' = file \o m_list /\ UNCHANGED lost
  <2>1. /\ file' \in Seq(Lines) /\ Len(file') = Len(file) + Len(m_list)
        /\ ToSet(file') = ToSet(file) \cup ToSet(m_list)
    BY <1>1, <1>3, ConcatProperties, ConcatSet
  <2>2. Dumped' = Dumped
    BY <1>2, <1>3, <2>1, ConcatEmptySeq DEF Dumped
  <2>3. QED
    BY <1>1, <1>2, <1>3, <2>1, <2>2 DEF Inv
<1>4. CASE lost' = lost \o m_list /\ UNCHANGED file
  <2>1. /\ lost' \in Seq(Lines) /\ Len(lost') = Len(lost) + Len(m_list)
        /\ ToSet(lost') = ToSet(lost) \cup ToSet(m_list)
    BY <1>1, <1>4, ConcatProperties, ConcatSet
  <2>2. Dumped' = file
    BY <1>1, <1>2, <1>4, ConcatEmptySeq DEF Dumped
  <2>3. Increasing(file)
    BY <1>1, IncreasingPrefix DEF Inv, Dumped
  <2>4. QED
    BY <1>1, <1>2, <1>4, <2>1, <2>2, <2>3
<1>5. QED
  BY <1>3, <1>4 DEF WriteFromList

(* No line is written or moved. *)
LinesStay == UNCHANGED <<m_list, file, out, lost, logged>>

(* Then the invariant of the places and of the order goes on. *)
LEMMA Stays ==
  ASSUME Inv, LinesStay PROVE Once' /\ Increasing(Dumped)'
BY DEF Inv, LinesStay, Once, Increasing, Dumped, ToSet

(* Calls of log and of the setters that write no line. *)
LEMMA QuietStep ==
  ASSUME Inv,
         \/ Configure \/ DumpLock
         \/ \E t \in Threads : Filter(t) \/ Check(t) \/ Create(t)
  PROVE  Inv'
<1>1. CASE Configure
  <2>1. TypeOK'
    BY <1>1 DEF Configure, Inv, TypeOK, conf, dump, lines
  <2>2. Logging' /\ ListHasWriter' /\ Numbered'
    BY <1>1 DEF Configure, Inv, Logging, ListHasWriter, Numbered, dump, lines
  <2>3. QED
    BY <1>1, <2>1, <2>2, Stays DEF Configure, Inv, LinesStay, lines
<1>2. CASE DumpLock
  <2>1. TypeOK'
    BY <1>2 DEF DumpLock, Inv, TypeOK, conf, dump, lines
  <2>2. Logging' /\ ListHasWriter' /\ Numbered'
    BY <1>2 DEF DumpLock, Inv, Logging, ListHasWriter, Numbered, lines
  <2>3. QED
    BY <1>2, <2>1, <2>2, Stays DEF DumpLock, Inv, LinesStay, lines
<1>3. ASSUME NEW t \in Threads, Filter(t) PROVE Inv'
  <2>1. TypeOK'
    <3>1. sent' \in [Threads -> 0 .. MaxLines]
      BY <1>3, LoggerAssumption DEF Filter, Inv, TypeOK
    <3>2. QED
      BY <1>3, <3>1 DEF Filter, Inv, TypeOK, conf, dump, lines
  <2>2. Logging' /\ ListHasWriter' /\ Numbered'
    BY <1>3
       DEF Filter, Inv, TypeOK, Logging, ListHasWriter, Numbered, Lines, lines
  <2>3. QED
    BY <1>3, <2>1, <2>2, Stays DEF Filter, Inv, LinesStay, lines
<1>4. ASSUME NEW t \in Threads, Check(t) PROVE Inv'
  <2>1. TypeOK'
    BY <1>4 DEF Check, Inv, TypeOK, conf, dump, lines
  <2>2. Logging' /\ ListHasWriter' /\ Numbered'
    BY <1>4 DEF Check, Inv, TypeOK, Logging, ListHasWriter, Numbered, lines
  <2>3. QED
    BY <1>4, <2>1, <2>2, Stays DEF Check, Inv, LinesStay, lines
<1>5. ASSUME NEW t \in Threads, Create(t) PROVE Inv'
  <2>1. TypeOK'
    BY <1>5 DEF Create, Inv, TypeOK, conf, lines
  <2>2. Logging' /\ ListHasWriter' /\ Numbered'
    BY <1>5 DEF Create, Inv, TypeOK, Logging, ListHasWriter, Numbered, lines
  <2>3. QED
    BY <1>5, <2>1, <2>2, Stays DEF Create, Inv, LinesStay, lines
<1>6. QED
  BY <1>1, <1>2, <1>3, <1>4, <1>5

(* A dump. *)
LEMMA DumpStep == ASSUME Inv, DumpWrite \/ Destroy PROVE Inv'
<1>1. /\ Len(file) \in Nat /\ Len(m_list) \in Nat /\ Len(lost) \in Nat
      /\ Len(out) \in Nat
  BY DEF Inv, TypeOK
<1>2. ASSUME WriteFromList, UNCHANGED <<out, logged>>
      PROVE  Once' /\ Increasing(Dumped)'
  <2>1. /\ file' \in Seq(Lines) /\ lost' \in Seq(Lines) /\ m_list' = <<>>
        /\ Len(file') \in Nat /\ Len(lost') \in Nat /\ Len(m_list') \in Nat
    BY <1>2, Written
  <2>2. Once'
    BY <1>1, <1>2, <2>1, Written DEF Inv, Once
  <2>3. QED
    BY <1>2, <2>2, Written DEF Increasing
<1>3. CASE DumpWrite
  <2>1. CASE life = "alive"
    <3>1. WriteFromList /\ UNCHANGED <<undefined, out, logged>>
      BY <1>3, <2>1 DEF DumpWrite
    <3>2. TypeOK'
      <4>1. \A l \in {m_list', file', out', lost'} : l \in Seq(Lines)
        BY <3>1, Written, EmptySeq DEF Inv, TypeOK
      <4>2. QED
        BY <1>3, <3>1, <4>1 DEF DumpWrite, Inv, TypeOK, conf
    <3>3. Logging' /\ ListHasWriter' /\ Numbered'
      BY <1>3, <3>1, Written
         DEF DumpWrite, Inv, Logging, ListHasWriter, Numbered
    <3>4. QED
      BY <1>2, <3>1, <3>2, <3>3 DEF Inv
  <2>2. CASE life # "alive"
    <3>1. LinesStay /\ undefined' = TRUE
      BY <1>3, <2>2 DEF DumpWrite, LinesStay
    <3>2. TypeOK'
      BY <1>3, <3>1 DEF DumpWrite, Inv, TypeOK, LinesStay, conf
    <3>3. Logging' /\ ListHasWriter' /\ Numbered'
      BY <1>3, <3>1
         DEF DumpWrite, Inv, Logging, ListHasWriter, Numbered, LinesStay
    <3>4. QED
      BY <3>1, <3>2, <3>3, Stays DEF Inv
  <2>3. QED
    BY <2>1, <2>2
<1>4. CASE Destroy
  <2>1. CASE writer
    <3>1. WriteFromList /\ UNCHANGED <<nullWrite, out, logged>>
      BY <1>4, <2>1 DEF Destroy
    <3>2. TypeOK'
      <4>1. \A l \in {m_list', file', out', lost'} : l \in Seq(Lines)
        BY <3>1, Written, EmptySeq DEF Inv, TypeOK
      <4>2. QED
        BY <1>4, <3>1, <4>1 DEF Destroy, Inv, TypeOK, conf, dump
    <3>3. Logging' /\ ListHasWriter' /\ Numbered'
      BY <1>4, <3>1, Written
         DEF Destroy, Inv, Logging, ListHasWriter, Numbered
    <3>4. QED
      BY <1>2, <3>1, <3>2, <3>3 DEF Inv
  <2>2. CASE ~writer
    <3>1. LinesStay /\ nullWrite' = TRUE /\ m_list = <<>>
      BY <1>4, <2>2 DEF Destroy, LinesStay, Inv, ListHasWriter
    <3>2. TypeOK'
      BY <1>4, <3>1 DEF Destroy, Inv, TypeOK, LinesStay, conf, dump
    <3>3. Logging' /\ ListHasWriter' /\ Numbered'
      BY <1>4, <3>1
         DEF Destroy, Inv, Logging, ListHasWriter, Numbered, LinesStay
    <3>4. QED
      BY <3>1, <3>2, <3>3, Stays DEF Inv
  <2>3. QED
    BY <2>1, <2>2
<1>5. QED
  BY <1>3, <1>4

(* A line is written: its number is new, so it was nowhere. *)
LEMMA AppendStep == ASSUME Inv, NEW t \in Threads, Append_(t) PROVE Inv'
<1> DEFINE line == <<t, sent[t] + 1>>
<1>1. /\ line \in Lines /\ line[1] = t /\ line[2] = sent[t] + 1
      /\ sent[t] \in Nat /\ sent[t] < MaxLines
  BY LoggerAssumption DEF Append_, Inv, TypeOK, Logging, Lines
<1>2. /\ \A u \in Threads : sent[u] \in Nat
      /\ \A l \in logged : l[1] \in Threads /\ l[2] \in Nat
  BY DEF Inv, TypeOK, Lines
<1>3. line \notin logged
  BY <1>1, <1>2 DEF Inv, Numbered
<1>4. /\ file \in Seq(Lines) /\ m_list \in Seq(Lines)
      /\ out \in Seq(Lines) /\ lost \in Seq(Lines)
      /\ Len(file) \in Nat /\ Len(m_list) \in Nat
      /\ Len(out) \in Nat /\ Len(lost) \in Nat
  BY DEF Inv, TypeOK
<1>5. /\ sent' = [sent EXCEPT ![t] = sent[t] + 1]
      /\ logged' = logged \cup {line}
      /\ lpc' = [lpc EXCEPT ![t] = "idle"]
      /\ UNCHANGED <<file, lost, life, writer>>
      /\ writer /\ life = "alive"
  BY DEF Append_, lines, dump, conf, Inv, Logging
<1>6. \/ m_list' = Append(m_list, line) /\ UNCHANGED out
      \/ out' = Append(out, line) /\ UNCHANGED m_list
  BY DEF Append_
<1> HIDE DEF line
<1>7. /\ m_list' \in Seq(Lines) /\ out' \in Seq(Lines)
      /\ Len(m_list') + Len(out') = Len(m_list) + Len(out) + 1
      /\ ToSet(m_list') \cup ToSet(out')
           = ToSet(m_list) \cup ToSet(out) \cup {line}
      /\ Len(m_list') \in Nat /\ Len(out') \in Nat
  <2>1. CASE m_list' = Append(m_list, line) /\ UNCHANGED out
    BY <2>1, <1>1, <1>4, AppendProperties, AppendSet
  <2>2. CASE out' = Append(out, line) /\ UNCHANGED m_list
    BY <2>2, <1>1, <1>4, AppendProperties, AppendSet
  <2>3. QED
    BY <1>6, <2>1, <2>2
<1>8. TypeOK'
  <2>1. sent' \in [Threads -> 0 .. MaxLines]
    BY <1>1, <1>5, LoggerAssumption DEF Inv, TypeOK
  <2>2. lpc' \in [Threads -> {"idle", "create", "stream"}]
    BY <1>5 DEF Inv, TypeOK
  <2>3. \A l \in {m_list', file', out', lost'} : l \in Seq(Lines)
    BY <1>4, <1>5, <1>7
  <2>4. logged' \subseteq Lines
    BY <1>1, <1>5 DEF Inv, TypeOK
  <2>5. UNCHANGED <<late, verbose, interval, writer, task, dumping, nullWrite,
                    undefined, life>>
    BY DEF Append_, conf, dump
  <2>6. QED
    BY <2>1, <2>2, <2>3, <2>4, <2>5 DEF Inv, TypeOK
<1>9. Logging' /\ ListHasWriter'
  BY <1>5 DEF Inv, TypeOK, Logging, ListHasWriter
<1>10. Numbered'
  BY <1>1, <1>2, <1>5 DEF Inv, TypeOK, Numbered
<1>11. Once'
  <2>1. IsFiniteSet(logged) /\ Cardinality(logged) \in Nat
    BY FS_CardinalityType DEF Inv, Once
  <2>2. /\ IsFiniteSet(logged')
        /\ Cardinality(logged') = Cardinality(logged) + 1
    BY <1>3, <1>5, <2>1, FS_AddElement
  <2>3. logged' = ToSet(file') \cup ToSet(m_list') \cup ToSet(out')
                    \cup ToSet(lost')
    BY <1>5, <1>7 DEF Inv, Once
  <2>4. Len(file') + Len(m_list') + Len(out') + Len(lost')
          = Cardinality(logged')
    <3>1. Len(file) + Len(m_list) + Len(out) + Len(lost) = Cardinality(logged)
      BY DEF Inv, Once
    <3>2. Len(file') = Len(file) /\ Len(lost') = Len(lost)
      BY <1>5
    <3>3. /\ Len(m_list') + Len(out') = Len(m_list) + Len(out) + 1
          /\ Len(m_list') \in Nat /\ Len(out') \in Nat
      BY <1>7
    <3>4. /\ Len(file) \in Nat /\ Len(m_list) \in Nat
          /\ Len(out) \in Nat /\ Len(lost) \in Nat
      BY <1>4
    <3>5. QED
      BY <2>1, <2>2, <3>1, <3>2, <3>3, <3>4
  <2>5. QED
    BY <2>2, <2>3, <2>4 DEF Once
<1>12. Increasing(Dumped)'
  <2>1. CASE m_list' = Append(m_list, line)
    <3>1. Dumped \in Seq(Lines) /\ ToSet(Dumped) \subseteq logged
      BY <1>4, ConcatProperties, ConcatSet DEF Dumped, Inv, Once
    <3>2. Dumped' = Append(Dumped, line)
      <4>1. Append(m_list, line) = m_list \o <<line>> /\ <<line>> \in Seq(Lines)
        BY <1>1, <1>4, AppendIsConcat
      <4>2. file \o (m_list \o <<line>>) = Dumped \o <<line>>
        BY <1>4, <4>1, ConcatAssociative DEF Dumped
      <4>3. QED
        BY <1>1, <1>5, <2>1, <3>1, <4>1, <4>2, AppendIsConcat DEF Dumped
    <3>3. \A l \in ToSet(Dumped) : l[1] = line[1] => l[2] < line[2]
      BY <1>1, <1>2, <3>1 DEF Inv, Numbered
    <3>4. Increasing(Append(Dumped, line))
      BY <1>1, <3>1, <3>3, IncreasingAppend DEF Inv
    <3>5. QED
      BY <3>2, <3>4 DEF Increasing
  <2>2. CASE UNCHANGED m_list
    BY <1>5, <2>2 DEF Inv, Increasing, Dumped
  <2>3. QED
    BY <1>6, <2>1, <2>2
<1>13. QED
  BY <1>8, <1>9, <1>10, <1>11, <1>12 DEF Inv

-----------------------------------------------------------------------------
(* The theorems *)

(* The invariant is inductive. *)
LEMMA InvStep == ASSUME Inv, [Next]_vars PROVE Inv'
<1>1. CASE UNCHANGED vars
  <2>1. TypeOK'
    BY <1>1 DEF vars, conf, dump, lines, Inv, TypeOK
  <2>2. Logging' /\ ListHasWriter' /\ Numbered'
    BY <1>1 DEF vars, lines, Inv, Logging, ListHasWriter, Numbered
  <2>3. QED
    BY <1>1, <2>1, <2>2, Stays DEF vars, lines, Inv, LinesStay
<1>2. QED
  BY <1>1, QuietStep, DumpStep, AppendStep DEF Next, Log

(* Types. *)
THEOREM TypeCorrect == Spec => []TypeOK
<1>1. Inv => TypeOK
  BY DEF Inv
<1>2. QED
  BY InvInit, InvStep, <1>1, PTL DEF Spec

(* Every line that passed the level is in one place and once there, and     *)
(* none is left in the list of a destroyed logger.                          *)
THEOREM LinesOnceHolds == Spec => []LinesOnce
<1>1. ASSUME Inv PROVE LinesOnce
  <2>1. /\ file \in Seq(Lines) /\ m_list \in Seq(Lines)
        /\ out \in Seq(Lines) /\ lost \in Seq(Lines)
        /\ Len(file) \in Nat /\ Len(m_list) \in Nat
        /\ Len(out) \in Nat /\ Len(lost) \in Nat
    BY <1>1 DEF Inv, TypeOK
  <2> DEFINE dumped == file \o m_list
             written == dumped \o out
             all == written \o lost
  <2>2. /\ dumped \in Seq(Lines)
        /\ Len(dumped) = Len(file) + Len(m_list)
        /\ ToSet(dumped) = ToSet(file) \cup ToSet(m_list)
    BY <2>1, ConcatProperties, ConcatSet
  <2> HIDE DEF dumped
  <2>3. /\ written \in Seq(Lines)
        /\ Len(written) = Len(dumped) + Len(out)
        /\ ToSet(written) = ToSet(dumped) \cup ToSet(out)
    <3>1. /\ written \in Seq(Lines)
          /\ Len(written) = Len(dumped) + Len(out)
      BY <2>1, <2>2, ConcatProperties
    <3>2. ToSet(written) = ToSet(dumped) \cup ToSet(out)
      BY <2>1, <2>2, ConcatSet
    <3>3. QED
      BY <3>1, <3>2
  <2> HIDE DEF written
  <2>4. /\ Len(all) = Len(written) + Len(lost)
        /\ ToSet(all) = ToSet(written) \cup ToSet(lost)
    BY <2>1, <2>3, ConcatProperties, ConcatSet
  <2> HIDE DEF all
  <2>5. ToSet(all) = logged /\ Len(all) = Cardinality(logged)
    BY <1>1, <2>1, <2>2, <2>3, <2>4 DEF Inv, Once
  <2>6. QED
    BY <1>1, <2>5
       DEF dumped, written, all, Inv, ListHasWriter, LinesOnce
<1>2. QED
  BY InvInit, InvStep, <1>1, PTL DEF Spec

(* The file and the list hold the lines of a thread in its order. *)
THEOREM InOrderHolds == Spec => []InOrder
<1>1. Inv => InOrder
  BY DEF Inv, Increasing, InOrder
<1>2. QED
  BY InvInit, InvStep, <1>1, PTL DEF Spec

=============================================================================
