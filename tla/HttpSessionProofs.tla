------------------------- MODULE HttpSessionProofs --------------------------
(***************************************************************************)
(* Theorems about HttpSession, in either build, for any requests, any      *)
(* registered names and whatever HendlerManager publishes in the meantime: *)
(* the names under which a request is looked up, and what that finds.      *)
(***************************************************************************)
EXTENDS HttpSession, SequenceTheorems, TLAPS

-----------------------------------------------------------------------------
(* The names in a location *)

(* What a URL can have for its location: any segments, empty ones too. *)
Location(loc) == loc \in Seq(Segments)

(* What Length is, case by case. *)
LEMMA LengthIs ==
  ASSUME NEW path \in Seq(Segments), path # <<>>
  PROVE  /\ Len(path) \in Nat \ {0}
         /\ path[Len(path)] = Empty => Length(path) = 2 * Len(path) - 1
         /\ path[Len(path)] # Empty => Length(path) = 2 * Len(path)
         /\ Length(path) \in Nat \ {0}
<1>1. Len(path) \in Nat \ {0}
  BY EmptySeq
<1>2. CASE path[Len(path)] = Empty
  <2>1. Length(path) = 2 * Len(path) - 1
    BY <1>2 DEF Length
  <2>2. QED
    BY <1>1, <1>2, <2>1
<1>3. CASE path[Len(path)] # Empty
  <2>1. Length(path) = 2 * Len(path) - 0
    BY <1>3 DEF Length
  <2>2. QED
    BY <1>1, <1>3, <2>1
<1>4. QED
  BY <1>2, <1>3

(* A length is a number, that of the empty location zero. *)
LEMMA LengthNat ==
  ASSUME NEW path \in Seq(Segments)
  PROVE  Length(path) \in Nat /\ (Length(path) # 0 => path # <<>>)
<1>1. CASE path = <<>>
  BY <1>1 DEF Length
<1>2. CASE path # <<>>
  BY <1>2, LengthIs
<1>3. QED
  BY <1>1, <1>2

(* A name ends in a segment of the location or behind it, with a '/'.       *)
Whole(loc, k) == SubSeq(loc, 1, k)
Slash(loc, k) == SubSeq(loc, 1, k - 1) \o <<Empty>>

(* Both are locations, and agree where the segment is empty. *)
LEMMA TwoNames ==
  ASSUME NEW loc, Location(loc), NEW k \in 1 .. Len(loc)
  PROVE  /\ Whole(loc, k) \in Seq(Segments)
         /\ Len(Whole(loc, k)) = k /\ Whole(loc, k)[k] = loc[k]
         /\ Slash(loc, k) \in Seq(Segments)
         /\ Len(Slash(loc, k)) = k /\ Slash(loc, k)[k] = Empty
         /\ loc[k] = Empty => Whole(loc, k) = Slash(loc, k)
<1> DEFINE whole  == SubSeq(loc, 1, k)
           before == SubSeq(loc, 1, k - 1)
<1>1. /\ k \in Nat \ {0} /\ k - 1 \in Int /\ k <= Len(loc)
      /\ \A m \in 1 .. k : loc[m] \in Segments
      /\ \A m \in 1 .. k - 1 : loc[m] \in Segments
      /\ <<Empty>> \in Seq(Segments)
      /\ Len(<<Empty>>) = 1 /\ <<Empty>>[1] = Empty
  BY ElementOfSeq, HttpAssumption DEF Location
<1>2. whole \in Seq(Segments) /\ Len(whole) = k /\ whole[k] = loc[k]
  BY <1>1, SubSeqProperties
<1>3. before \in Seq(Segments) /\ Len(before) = k - 1
  BY <1>1, SubSeqProperties
<1>4. whole = before \o <<loc[k]>>
  BY SubSeqRecursiveSecond DEF Location
<1> HIDE DEF whole, before
<1>5. /\ before \o <<Empty>> \in Seq(Segments) /\ Len(before \o <<Empty>>) = k
      /\ (before \o <<Empty>>)[k] = Empty
  BY <1>1, <1>3, ConcatProperties
<1>6. QED
  BY <1>2, <1>4, <1>5 DEF whole, before, Whole, Slash

(* The name of a length: where it ends. *)
LEMMA UptoIs ==
  ASSUME NEW loc, NEW k \in Nat \ {0}
  PROVE  /\ Upto(loc, 2 * k) = Whole(loc, k)
         /\ Upto(loc, 2 * k - 1) = Slash(loc, k)
<1>1. (2 * k) % 2 = 0 /\ (2 * k + 1) \div 2 = k
  OBVIOUS
<1>2. (2 * k - 1) % 2 # 0 /\ (2 * k - 1 + 1) \div 2 = k
  OBVIOUS
<1>3. QED
  BY <1>1, <1>2 DEF Upto, Whole, Slash

(* A length is even or odd. *)
LEMMA Halves ==
  ASSUME NEW l \in Nat \ {0}
  PROVE  \E k \in Nat \ {0} : l = 2 * k \/ l = 2 * k - 1
<1>1. (l + 1) \div 2 \in Nat \ {0}
  OBVIOUS
<1>2. l = 2 * ((l + 1) \div 2) \/ l = 2 * ((l + 1) \div 2) - 1
  OBVIOUS
<1>3. QED
  BY <1>1, <1>2

(* The name of a length has that length; where a segment is empty, it is    *)
(* the name in front of the segment over again, and one shorter.            *)
LEMMA UptoLength ==
  ASSUME NEW loc, Location(loc), NEW l \in 1 .. Length(loc)
  PROVE  /\ Length(Upto(loc, l)) \in {l - 1, l}
         /\ Length(Upto(loc, l)) # l => Upto(loc, l) = Upto(loc, l - 1)
         /\ \E k \in 1 .. Len(loc) :
              Upto(loc, l) \in {Whole(loc, k), Slash(loc, k)}
<1>1. loc \in Seq(Segments) /\ Length(loc) \in Nat /\ loc # <<>>
  BY LengthNat DEF Location
<1>2. PICK k \in Nat \ {0} : l = 2 * k \/ l = 2 * k - 1
  <2>1. l \in Nat \ {0}
    BY <1>1
  <2>2. QED
    BY <2>1, Halves
<1>3. k \in 1 .. Len(loc)
  BY <1>1, <1>2, LengthIs
<1>4. /\ Whole(loc, k) \in Seq(Segments) /\ Len(Whole(loc, k)) = k
      /\ Whole(loc, k)[k] = loc[k] /\ Whole(loc, k) # <<>>
      /\ Slash(loc, k) \in Seq(Segments) /\ Len(Slash(loc, k)) = k
      /\ Slash(loc, k)[k] = Empty /\ Slash(loc, k) # <<>>
      /\ loc[k] = Empty => Whole(loc, k) = Slash(loc, k)
  BY <1>3, TwoNames
<1>5. Upto(loc, 2 * k) = Whole(loc, k) /\ Upto(loc, 2 * k - 1) = Slash(loc, k)
  BY UptoIs
<1>6. Length(Slash(loc, k)) = 2 * k - 1
  BY <1>4, LengthIs
<1>7. CASE l = 2 * k /\ loc[k] # Empty
  <2>1. Length(Whole(loc, k)) = 2 * k
    BY <1>4, <1>7, LengthIs
  <2>2. QED
    BY <1>3, <1>5, <1>7, <2>1
<1>8. CASE l = 2 * k /\ loc[k] = Empty
  <2>1. Upto(loc, l) = Slash(loc, k) /\ Upto(loc, l - 1) = Slash(loc, k)
    BY <1>4, <1>5, <1>8
  <2>2. QED
    BY <1>3, <1>6, <1>8, <2>1
<1>9. CASE l = 2 * k - 1
  BY <1>3, <1>5, <1>6, <1>9
<1>10. QED
  BY <1>2, <1>7, <1>8, <1>9

(* No name of the location is left out. *)
LEMMA UptoAll ==
  ASSUME NEW loc, Location(loc), NEW k \in 1 .. Len(loc),
         NEW name \in {Whole(loc, k), Slash(loc, k)}
  PROVE  \E l \in 1 .. Length(loc) : Upto(loc, l) = name
<1>1. loc \in Seq(Segments) /\ loc # <<>> /\ k \in Nat \ {0}
  BY EmptySeq DEF Location
<1>2. /\ Len(loc) \in Nat \ {0} /\ Length(loc) \in Nat
      /\ Length(loc) = 2 * Len(loc) \/ Length(loc) = 2 * Len(loc) - 1
      /\ loc[Len(loc)] # Empty => Length(loc) = 2 * Len(loc)
  BY <1>1, LengthIs
<1>3. 2 * k - 1 \in 1 .. Length(loc)
  BY <1>1, <1>2
<1>4. CASE name = Slash(loc, k) \/ loc[k] = Empty
  <2>1. name = Upto(loc, 2 * k - 1)
    BY <1>1, <1>4, UptoIs, TwoNames
  <2>2. QED
    BY <1>3, <2>1
<1>5. CASE name = Whole(loc, k) /\ loc[k] # Empty
  <2>1. 2 * k \in 1 .. Length(loc)
    <3>1. k = Len(loc) => Length(loc) = 2 * k
      BY <1>2, <1>5
    <3>2. QED
      BY <1>1, <1>2, <3>1
  <2>2. name = Upto(loc, 2 * k)
    BY <1>1, <1>5, UptoIs
  <2>3. QED
    BY <2>1, <2>2
<1>6. QED
  BY <1>4, <1>5

-----------------------------------------------------------------------------
(* The names under which a request is looked up *)

(* A function on 1..n is a sequence of that length. *)
LEMMA SequenceOf ==
  ASSUME NEW S, NEW n \in Nat, NEW f \in [1 .. n -> S]
  PROVE  f \in Seq(S) /\ Len(f) = n
<1>1. f \in Seq(S)
  BY SeqDef
<1>2. Len(f) \in Nat /\ 1 .. Len(f) = 1 .. n
  BY <1>1, LenProperties
<1>3. Len(f) <= n /\ n <= Len(f)
  <2>1. Len(f) > n => Len(f) \in 1 .. Len(f) /\ Len(f) \notin 1 .. n
    BY <1>2
  <2>2. n > Len(f) => n \in 1 .. n /\ n \notin 1 .. Len(f)
    BY <1>2
  <2>3. QED
    BY <1>2, <2>1, <2>2
<1>4. QED
  BY <1>1, <1>2, <1>3

(* Those of requests are such. *)
LEMMA RequestLocation == ASSUME NEW r \in Requests PROVE Location(r.loc)
BY HttpAssumption DEF Location

(* With lessenAll one name, ... *)
LEMMA CandidatesLessen ==
  ASSUME NEW r \in Requests
  PROVE  /\ Len(Candidates(r, TRUE)) = 1
         /\ Candidates(r, TRUE)[1] = [ws |-> r.ws, path |-> LessenPath]
<1> DEFINE names == Candidates(r, TRUE)
           name  == [ws |-> r.ws, path |-> LessenPath]
<1>1. names = [j \in 1 .. 1 |-> name]
  BY DEF Candidates
<1> HIDE DEF names, name
<1>2. names \in [1 .. 1 -> {name}] /\ names[1] = name
  BY <1>1
<1>3. Len(names) = 1
  BY <1>2, SequenceOf
<1>4. QED
  BY <1>2, <1>3 DEF names, name

(* ... else those of the lengths from that of the location down to one.     *)
LEMMA CandidatesElse ==
  ASSUME NEW r \in Requests
  PROVE  /\ Length(r.loc) \in Nat
         /\ Len(Candidates(r, FALSE)) = Length(r.loc)
         /\ \A j \in 1 .. Length(r.loc) :
              Candidates(r, FALSE)[j]
                = [ws |-> r.ws, path |-> Upto(r.loc, Length(r.loc) + 1 - j)]
<1> DEFINE names == Candidates(r, FALSE)
           n == Length(r.loc)
           name(l) == [ws |-> r.ws, path |-> Upto(r.loc, l)]
<1>1. n \in Nat
  BY RequestLocation, LengthNat DEF Location
<1>2. names = [j \in 1 .. n |-> name(n + 1 - j)]
  BY DEF Candidates, Places
<1> HIDE DEF names, n, name
<1>3. names \in [1 .. n -> {name(l) : l \in Int}]
  BY <1>1, <1>2
<1>4. Len(names) = n
  BY <1>1, <1>3, SequenceOf
<1>5. \A j \in 1 .. n : names[j] = name(n + 1 - j)
  BY <1>2
<1>6. QED
  BY <1>1, <1>4, <1>5 DEF names, n, name

(* What the search is to go through: names under which the request may be   *)
(* served, all of those that are registered, and from the longest to the    *)
(* shortest, where the same name may stand twice; only a location without a *)
(* segment has none.                                                        *)
Order(r, all) ==
  LET names == Candidates(r, all) IN
  /\ Len(names) \in Nat
  /\ Len(names) = 0 => r.loc = <<>> /\ ~all
  /\ \A j \in 1 .. Len(names) : Serves(names[j], r, all)
  /\ \A id \in Ids : Serves(id, r, all) =>
       \E j \in 1 .. Len(names) : names[j] = id
  /\ \A j, k \in 1 .. Len(names) : j < k /\ names[j] # names[k] =>
       Length(names[k].path) < Length(names[j].path)

(* With lessenAll it does. *)
LEMMA OrderLessen == ASSUME NEW r \in Requests PROVE Order(r, TRUE)
<1> DEFINE names == Candidates(r, TRUE)
           name  == [ws |-> r.ws, path |-> LessenPath]
<1>1. Len(names) = 1 /\ names[1] = name
  BY CandidatesLessen
<1>2. Serves(name, r, TRUE)
  BY DEF Serves
<1>3. \A id \in Ids : Serves(id, r, TRUE) => id = name
  BY HttpAssumption DEF Serves
<1> HIDE DEF names, name
<1>4. \A j \in 1 .. Len(names) : j = 1
  BY <1>1
<1>5. \A j \in 1 .. Len(names) : Serves(names[j], r, TRUE)
  BY <1>1, <1>2, <1>4, Zenon
<1>6. \A j, k \in 1 .. Len(names) : ~(j < k)
  BY <1>1
<1>7. ASSUME NEW id \in Ids, Serves(id, r, TRUE)
      PROVE  \E j \in 1 .. Len(names) : names[j] = id
  <2>1. id = name
    BY <1>3, <1>7
  <2>2. 1 \in 1 .. Len(names)
    BY <1>1
  <2>3. QED
    BY <1>1, <2>1, <2>2
<1>8. Len(names) \in Nat /\ Len(names) # 0
  BY <1>1
<1>9. QED
  BY <1>5, <1>6, <1>7, <1>8, Zenon DEF Order, names

(* And without. *)
LEMMA OrderElse == ASSUME NEW r \in Requests PROVE Order(r, FALSE)
<1> DEFINE names == Candidates(r, FALSE)
           n == Length(r.loc)
           served(id) == Serves(id, r, FALSE)
           name(l) == [ws |-> r.ws, path |-> Upto(r.loc, l)]
<1>1. /\ n \in Nat /\ Len(names) = n
      /\ \A j \in 1 .. n : names[j] = name(n + 1 - j)
  BY CandidatesElse
<1>2. n = 0 => r.loc = <<>>
  BY RequestLocation, LengthIs DEF Location
<1>3. \A l \in 1 .. n :
        /\ Length(Upto(r.loc, l)) \in {l - 1, l}
        /\ Length(Upto(r.loc, l)) # l => Upto(r.loc, l) = Upto(r.loc, l - 1)
  BY RequestLocation, UptoLength
<1>4. ASSUME NEW l \in 1 .. n PROVE served(name(l))
  <2>1. PICK k \in 1 .. Len(r.loc) :
           Upto(r.loc, l) \in {Whole(r.loc, k), Slash(r.loc, k)}
    BY RequestLocation, UptoLength
  <2>2. QED
    BY <2>1 DEF Serves, Whole, Slash
<1>5. ASSUME NEW id \in Ids, served(id)
      PROVE  \E l \in 1 .. n : id = name(l)
  <2>1. id = [ws |-> r.ws, path |-> id.path]
    BY <1>5, HttpAssumption DEF Serves
  <2>2. PICK k \in 1 .. Len(r.loc) :
           id.path \in {Whole(r.loc, k), Slash(r.loc, k)}
    BY <1>5 DEF Serves, Whole, Slash
  <2>3. PICK l \in 1 .. n : Upto(r.loc, l) = id.path
    BY <2>2, RequestLocation, UptoAll
  <2>4. QED
    BY <2>1, <2>3
<1>6. \A l \in 1 .. n : /\ Length(name(l).path) \in {l - 1, l}
                        /\ Length(name(l).path) # l => name(l) = name(l - 1)
  BY <1>3
<1> HIDE DEF names, n, served, name
<1>7. \A j \in 1 .. n : n + 1 - j \in 1 .. n /\ n + 1 - (n + 1 - j) = j
  BY <1>1
<1>8. \A j \in 1 .. n : served(names[j])
  BY <1>1, <1>4, <1>7
<1>9. ASSUME NEW id \in Ids, served(id)
      PROVE  \E j \in 1 .. n : names[j] = id
  <2>1. PICK l \in 1 .. n : id = name(l)
    BY <1>5, <1>9
  <2>2. n + 1 - l \in 1 .. n /\ names[n + 1 - l] = id
    BY <1>1, <1>7, <2>1
  <2>3. QED
    BY <2>2
<1>10. ASSUME NEW l \in 1 .. n, NEW m \in 1 .. n, m < l, name(l) # name(m)
       PROVE  Length(name(m).path) < Length(name(l).path)
  <2>1. Length(name(m).path) \in Int /\ Length(name(m).path) <= m
    BY <1>1, <1>6
  <2>2. CASE Length(name(l).path) = l
    BY <1>1, <1>10, <2>1, <2>2
  <2>3. CASE Length(name(l).path) # l
    <3>1. Length(name(l).path) = l - 1 /\ name(l) = name(l - 1)
      BY <1>6, <2>3
    <3>2. m < l - 1
      BY <1>1, <1>10, <3>1
    <3>3. QED
      BY <1>1, <2>1, <3>1, <3>2
  <2>4. QED
    BY <2>2, <2>3
<1>11. ASSUME NEW j \in 1 .. n, NEW k \in 1 .. n, j < k, names[j] # names[k]
       PROVE  Length(names[k].path) < Length(names[j].path)
  <2>1. /\ n + 1 - j \in 1 .. n /\ n + 1 - k \in 1 .. n
        /\ n + 1 - k < n + 1 - j
    BY <1>1, <1>11
  <2>2. QED
    BY <1>1, <1>10, <1>11, <2>1
<1>12. Len(names) = n /\ Len(names) \in Nat
  BY <1>1
<1>13. QED
  <2>1. Len(names) = 0 => r.loc = <<>>
    BY <1>2, <1>12 DEF n
  <2>2. QED
    BY <1>8, <1>9, <1>11, <1>12, <2>1, Zenon DEF Order, names, served

(* It does either way. *)
LEMMA OrderOf ==
  ASSUME NEW r \in Requests, NEW all \in BOOLEAN
  PROVE  Order(r, all)
<1>1. all = TRUE \/ all = FALSE
  OBVIOUS
<1>2. QED
  BY <1>1, OrderLessen, OrderElse, Zenon

(* The search goes through the names under which the request may be served, *)
(* through all of them, and from the longest to the shortest, with nothing  *)
(* between a name and the same name: what it finds first is the longest     *)
(* there is.                                                                *)
THEOREM SearchOrder ==
  ASSUME NEW r \in Requests, NEW all \in BOOLEAN
  PROVE  LET names == Candidates(r, all) IN
         /\ \A j \in 1 .. Len(names) : Serves(names[j], r, all)
         /\ \A id \in Ids : Serves(id, r, all) =>
              \E j \in 1 .. Len(names) : names[j] = id
         /\ \A j, k \in 1 .. Len(names) : j < k /\ names[j] # names[k] =>
              Length(names[k].path) < Length(names[j].path)
BY OrderOf, Zenon DEF Order


-----------------------------------------------------------------------------
(* The invariant *)

(* The names of the request at hand, and whether it may be served under one *)
(* of them.                                                                 *)
Names == Candidates(req, lessen)
Served(id) == Serves(id, req, lessen)

(* What stayed registered is among the names from the k-th on. *)
Ahead(k) ==
  \A id \in stable : Served(id) => \E j \in k .. Len(Names) : Names[j] = id

(* TypeOK without lessen, which goes with Names, and i. *)
Typed ==
  /\ published \in SUBSET Ids
  /\ pc \in CoroPlaces \cup AsyncPlaces
  /\ asked \in 0 .. MaxRequests
  /\ req \in Requests
  /\ dataReq.header \in Hdrs \cup {NoHdr}
  /\ func \in Ids \cup {NoId}
  /\ answer \in AnswerKinds
  /\ stable \in SUBSET Ids
  /\ why \in {"no", "client", "error", "answer", "thrown"}

Turn ==
  /\ Len(Names) \in Nat
  /\ i \in Nat /\ (Searching => i \in 1 .. (Len(Names) + 1))

(* What stayed registered still is. *)
Known == Searching \/ Calling => stable \subseteq published

(* The search has passed over nothing that stayed; without coroutines it    *)
(* has cleared m_func once it has turned, and it has not turned for a       *)
(* request without names.                                                   *)
Sought ==
  /\ Searching => Ahead(i)
  /\ pc = "searching" /\ i > 1 => func = NoId
  /\ Calling =>
       \/ pc = "calling" /\ Len(Names) = 0
       \/ /\ i \in 1 .. Len(Names) /\ Ahead(i)
          /\ func = Names[i] /\ func \in Ids
  /\ Answering /\ answer = "404" => \A id \in stable : ~Served(id)

(* What can be answered where, and that nothing follows the end. *)
Closing ==
  /\ pc = "write" => answer \in {"ok", "file"}
  /\ pc = "last" => answer \in {"head", "400", "404", "405", "500"}
  /\ why # "no" => pc \in {"over", "ended"}
  /\ ClosedOnlyAsked

(* The data given to the handler is that of the request. *)
Given ==
  /\ Searching \/ Calling => dataReq.params = ParsedParams(req)
  /\ pc \in {"search", "call"} => dataReq.header = req.hdr

Inv ==
  /\ lessen \in BOOLEAN
  /\ Typed /\ Turn /\ Known /\ Sought /\ Closing /\ Given

-----------------------------------------------------------------------------
(* The steps *)

(* The operators the two builds share are the same in both. *)
LEMMA Shared ==
  /\ Coro!Names = Names /\ Async!Names = Names
  /\ Coro!Outcomes = Outcomes /\ Async!Outcomes = Outcomes
  /\ \A outcome : /\ Coro!AnswerTo(outcome) = AnswerTo(outcome)
                   /\ Async!AnswerTo(outcome) = AnswerTo(outcome)
  /\ \A kind, r : /\ Coro!NeedEof(kind, r) <=> NeedEof(kind, r)
                  /\ Async!NeedEof(kind, r) <=> NeedEof(kind, r)
  /\ \A r : /\ Coro!ParsedParams(r) = ParsedParams(r)
            /\ Async!ParsedParams(r) = ParsedParams(r)
  /\ \A names, j : /\ Coro!Behind(names, j) = Behind(names, j)
                    /\ Async!Behind(names, j) = Behind(names, j)
<1>1. Coro!Names = Names /\ Async!Names = Names
  BY Zenon DEF Names, Candidates, Places, Length, Upto,
     Coro!Names, Coro!Candidates, Coro!Places, Coro!Length, Coro!Upto,
     Async!Names, Async!Candidates, Async!Places, Async!Length, Async!Upto
<1>2. Coro!Outcomes = Outcomes /\ Async!Outcomes = Outcomes
  BY DEF Outcomes, Coro!Outcomes, Async!Outcomes
<1>3. ASSUME NEW outcome
      PROVE  /\ Coro!AnswerTo(outcome) = AnswerTo(outcome)
             /\ Async!AnswerTo(outcome) = AnswerTo(outcome)
  BY Zenon DEF AnswerTo, Coro!AnswerTo, Async!AnswerTo
<1>4. ASSUME NEW kind, NEW r
      PROVE  /\ Coro!NeedEof(kind, r) <=> NeedEof(kind, r)
             /\ Async!NeedEof(kind, r) <=> NeedEof(kind, r)
  BY Zenon DEF NeedEof, Coro!NeedEof, Async!NeedEof
<1>5. ASSUME NEW r
      PROVE  /\ Coro!ParsedParams(r) = ParsedParams(r)
             /\ Async!ParsedParams(r) = ParsedParams(r)
  BY Zenon DEF ParsedParams, Parse, Step, Emplace, None,
     Coro!ParsedParams, Coro!Parse, Coro!Step, Coro!Emplace, Coro!None,
     Async!ParsedParams, Async!Parse, Async!Step, Async!Emplace, Async!None,
     FoldLeft, MapThenFoldSet, Max, Coro!FoldLeft, Coro!MapThenFoldSet,
     Coro!Max, Async!FoldLeft, Async!MapThenFoldSet, Async!Max
<1>6. ASSUME NEW names, NEW j
      PROVE  /\ Coro!Behind(names, j) = Behind(names, j)
             /\ Async!Behind(names, j) = Behind(names, j)
  BY Zenon DEF Behind, Coro!Behind, Async!Behind
<1>7. QED
  BY <1>1, <1>2, <1>3, <1>4, <1>5, <1>6

(* What the names are does not change while a request is served. *)
LEMMA NamesStay ==
  ASSUME UNCHANGED <<req, lessen>>
  PROVE  Names' = Names /\ \A id : Served(id)' <=> Served(id)
BY DEF Names, Served

(* How a handler's end is answered. *)
LEMMA AnswerKind ==
  ASSUME NEW outcome \in Outcomes
  PROVE  /\ outcome \in {"ok", "file"} => AnswerTo(outcome) = outcome
         /\ outcome \notin {"ok", "file"} =>
              AnswerTo(outcome) \in {"400", "405", "500"}
         /\ AnswerTo(outcome) \in AnswerKinds \ {"404", "head"}
<1>1. outcome \in {"ok", "file", "string", "chars", "other"}
  BY DEF Outcomes
<1>2. CASE outcome \in {"ok", "file"}
  BY <1>2 DEF AnswerTo, AnswerKinds
<1>3. CASE outcome = "string"
  BY <1>3 DEF AnswerTo, AnswerKinds
<1>4. CASE outcome = "chars"
  BY <1>4 DEF AnswerTo, AnswerKinds
<1>5. CASE outcome = "other"
  BY <1>5 DEF AnswerTo, AnswerKinds
<1>6. QED
  BY <1>1, <1>2, <1>3, <1>4, <1>5

(* The switch is never written. *)
LEMMA LessenStays == ASSUME [Next]_vars PROVE lessen' = lessen
<1>1. CASE UNCHANGED vars
  BY <1>1 DEF vars
<1>2. CASE Coro!Next
  BY <1>2 DEF Coro!Next, Coro!Publish, Coro!ReadEof, Coro!ReadError, Coro!Read,
     Coro!ReadOther, Coro!ReadHead, Coro!ReadPage, Coro!PeerGone, Coro!Found,
     Coro!NotThere, Coro!NotFound, Coro!Call, Coro!Upgrade, Coro!WriteDone,
     Coro!WriteError
<1>3. CASE Async!Next
  BY <1>3 DEF Async!Next, Async!OnRead, Async!OnWrite, Async!Publish,
     Async!DoRead, Async!ReadEnd, Async!Read, Async!ReadOther, Async!ReadHead,
     Async!ReadPage, Async!PeerGone, Async!Found, Async!NotThere,
     Async!Searched, Async!Call, Async!RunWs, Async!Written, Async!WriteError
<1>4. QED
  BY <1>1, <1>2, <1>3 DEF Next

(* The request and the data read for it are those the constants allow, and  *)
(* the rest stays within its sets.                                          *)
LEMMA TypedStep == ASSUME Typed, Turn, [Next]_vars PROVE Typed'
<1> USE DEF Typed, CoroPlaces, AsyncPlaces, AnswerKinds
<1>1. CASE UNCHANGED vars
  BY <1>1 DEF vars
<1>2. CASE Coro!Publish \/ Coro!ReadEof \/ Coro!ReadError \/ Coro!NotThere
           \/ Coro!NotFound \/ Coro!Upgrade \/ Coro!WriteDone
           \/ Coro!WriteError
  BY <1>2 DEF Coro!Publish, Coro!ReadEof, Coro!ReadError, Coro!NotThere,
     Coro!NotFound, Coro!Upgrade, Coro!WriteDone, Coro!WriteError,
     Coro!ReturnAnswer, Coro!serving
<1>3. ASSUME NEW r \in Requests,
             Coro!ReadOther(r) \/ Coro!ReadHead(r) \/ Coro!ReadPage(r)
             \/ Coro!PeerGone(r)
      PROVE  Typed'
  BY <1>3, HttpAssumption DEF Coro!Read, Coro!ReadOther, Coro!ReadHead,
     Coro!ReadPage, Coro!PeerGone, Coro!ReturnAnswer
<1>4. CASE Coro!Found
  BY <1>4 DEF Coro!Found
<1>5. CASE Coro!Call
  BY <1>5, AnswerKind, Shared DEF Coro!Call
<1>6. CASE Async!Publish \/ Async!DoRead \/ Async!NotThere \/ Async!Searched
           \/ Async!RunWs \/ Async!Written \/ Async!WriteError
           \/ \E reason \in {"client", "error"} : Async!ReadEnd(reason)
  BY <1>6 DEF Async!Publish, Async!DoRead, Async!NotThere, Async!Searched,
     Async!RunWs, Async!Written, Async!WriteError, Async!ReadEnd
<1>7. ASSUME NEW r \in Requests,
             Async!ReadOther(r) \/ Async!ReadHead(r) \/ Async!ReadPage(r)
             \/ Async!PeerGone(r)
      PROVE  Typed'
  BY <1>7, HttpAssumption DEF Async!Read, Async!ReadOther, Async!ReadHead,
     Async!ReadPage, Async!PeerGone, Async!KeptHeader
<1>8. CASE Async!Found
  BY <1>8 DEF Async!Found
<1>9. CASE Async!Call
  BY <1>9, AnswerKind, Shared DEF Async!Call
<1>10. QED
  BY <1>1, <1>2, <1>3, <1>4, <1>5, <1>6, <1>7, <1>8, <1>9
     DEF Next, Coro!Next, Async!Next, Async!OnRead, Async!OnWrite

(* The search stops behind the last name. *)
LEMMA TurnStep ==
  ASSUME Typed, Turn, Len(Names)' \in Nat, [Next]_vars
  PROVE  Turn'
<1> USE DEF Turn, Searching
<1>1. CASE UNCHANGED vars
  BY <1>1, NamesStay DEF vars
<1>2. CASE Coro!Publish \/ Coro!ReadEof \/ Coro!ReadError \/ Coro!Found
           \/ Coro!NotFound \/ Coro!Call \/ Coro!Upgrade
           \/ Coro!WriteDone \/ Coro!WriteError
  BY <1>2, NamesStay DEF Coro!Publish, Coro!ReadEof, Coro!ReadError,
     Coro!Found, Coro!NotFound, Coro!Call, Coro!Upgrade, Coro!WriteDone,
     Coro!WriteError, Coro!ReturnAnswer, Coro!serving
<1>3. ASSUME NEW r \in Requests,
             Coro!ReadOther(r) \/ Coro!ReadHead(r) \/ Coro!ReadPage(r)
             \/ Coro!PeerGone(r)
      PROVE  Turn'
  BY <1>3 DEF Coro!Read, Coro!ReadOther, Coro!ReadHead, Coro!ReadPage,
     Coro!PeerGone, Coro!ReturnAnswer
<1>4. CASE Coro!NotThere
  BY <1>4, NamesStay, Shared DEF Coro!NotThere, Behind
<1>5. CASE Async!Publish \/ Async!DoRead \/ Async!Found \/ Async!Searched
           \/ Async!Call \/ Async!RunWs \/ Async!Written
           \/ Async!WriteError
           \/ \E reason \in {"client", "error"} : Async!ReadEnd(reason)
  BY <1>5, NamesStay DEF Async!Publish, Async!DoRead, Async!Found,
     Async!Searched, Async!Call, Async!RunWs, Async!Written,
     Async!WriteError, Async!ReadEnd
<1>6. ASSUME NEW r \in Requests,
             Async!ReadOther(r) \/ Async!ReadHead(r) \/ Async!ReadPage(r)
             \/ Async!PeerGone(r)
      PROVE  Turn'
  BY <1>6 DEF Async!Read, Async!ReadOther, Async!ReadHead, Async!ReadPage,
     Async!PeerGone
<1>7. CASE Async!NotThere
  BY <1>7, NamesStay, Shared DEF Async!NotThere, Behind
<1>8. QED
  BY <1>1, <1>2, <1>3, <1>4, <1>5, <1>6, <1>7
     DEF Next, Coro!Next, Async!Next, Async!OnRead, Async!OnWrite

(* A map is published with what stays in it; a request begins with all that *)
(* is published.                                                            *)
LEMMA KnownStep == ASSUME Known, [Next]_vars PROVE Known'
<1> USE DEF Known, Searching, Calling
<1>1. CASE UNCHANGED vars
  BY <1>1 DEF vars
<1>2. CASE Coro!Next
  BY <1>2 DEF Coro!Next, Coro!Publish, Coro!ReadEof, Coro!ReadError, Coro!Read,
     Coro!ReadOther, Coro!ReadHead, Coro!ReadPage, Coro!PeerGone, Coro!Found,
     Coro!NotThere, Coro!NotFound, Coro!Call, Coro!Upgrade, Coro!WriteDone,
     Coro!WriteError, Coro!ReturnAnswer, Coro!serving
<1>3. CASE Async!Next
  BY <1>3 DEF Async!Next, Async!OnRead, Async!OnWrite, Async!Publish,
     Async!DoRead, Async!ReadEnd, Async!Read, Async!ReadOther, Async!ReadHead,
     Async!ReadPage, Async!PeerGone, Async!Found, Async!NotThere,
     Async!Searched, Async!Call, Async!RunWs, Async!Written, Async!WriteError
<1>4. QED
  BY <1>1, <1>2, <1>3 DEF Next

(* Which answer ends the connection is known where it is written. *)
LEMMA ClosingStep == ASSUME Closing, [Next]_vars PROVE Closing'
<1> USE DEF Closing, ClosedOnlyAsked
<1>1. CASE UNCHANGED vars
  BY <1>1 DEF vars, NeedEof
<1>2. CASE Coro!Publish \/ Coro!ReadEof \/ Coro!ReadError \/ Coro!Found
           \/ Coro!NotThere \/ Coro!NotFound \/ Coro!Upgrade
           \/ Coro!WriteError
  BY <1>2 DEF Coro!Publish, Coro!ReadEof, Coro!ReadError,
     Coro!Found, Coro!NotThere, Coro!NotFound, Coro!Upgrade,
     Coro!WriteError, Coro!ReturnAnswer, Coro!serving
<1>3. ASSUME NEW r \in Requests,
             Coro!ReadOther(r) \/ Coro!ReadHead(r) \/ Coro!ReadPage(r)
             \/ Coro!PeerGone(r)
      PROVE  Closing'
  BY <1>3 DEF Coro!Read, Coro!ReadOther, Coro!ReadHead, Coro!ReadPage,
     Coro!PeerGone, Coro!ReturnAnswer
<1>4. CASE Coro!Call
  BY <1>4, AnswerKind, Shared DEF Coro!Call
<1>5. CASE Coro!WriteDone
  BY <1>5, Shared DEF Coro!WriteDone, Coro!serving, NeedEof
<1>6. CASE Async!Publish \/ Async!DoRead \/ Async!Found \/ Async!NotThere
           \/ Async!Searched \/ Async!Call \/ Async!RunWs
           \/ Async!WriteError
           \/ \E reason \in {"client", "error"} : Async!ReadEnd(reason)
  BY <1>6 DEF Async!Publish, Async!DoRead, Async!Found, Async!NotThere,
     Async!Searched, Async!Call, Async!RunWs, Async!WriteError, Async!ReadEnd
<1>7. ASSUME NEW r \in Requests,
             Async!ReadOther(r) \/ Async!ReadHead(r) \/ Async!ReadPage(r)
             \/ Async!PeerGone(r)
      PROVE  Closing'
  BY <1>7 DEF Async!Read, Async!ReadOther, Async!ReadHead, Async!ReadPage,
     Async!PeerGone
<1>8. CASE Async!Written
  BY <1>8, Shared DEF Async!Written
<1>9. QED
  BY <1>1, <1>2, <1>3, <1>4, <1>5, <1>6, <1>7, <1>8
     DEF Next, Coro!Next, Async!Next, Async!OnRead, Async!OnWrite

(* Each page that is read brings its own parameters. *)
LEMMA GivenStep == ASSUME Given, [Next]_vars PROVE Given'
<1> USE DEF Given, Searching, Calling
<1>1. CASE UNCHANGED vars
  BY <1>1 DEF vars, ParsedParams
<1>2. CASE Coro!Publish \/ Coro!ReadEof \/ Coro!ReadError \/ Coro!Found
           \/ Coro!NotThere \/ Coro!NotFound \/ Coro!Call \/ Coro!Upgrade
           \/ Coro!WriteDone \/ Coro!WriteError
  BY <1>2 DEF Coro!Publish, Coro!ReadEof, Coro!ReadError, Coro!Found,
     Coro!NotThere, Coro!NotFound, Coro!Call, Coro!Upgrade, Coro!WriteDone,
     Coro!WriteError, Coro!ReturnAnswer, Coro!serving
<1>3. ASSUME NEW r \in Requests,
             Coro!ReadOther(r) \/ Coro!ReadHead(r) \/ Coro!ReadPage(r)
             \/ Coro!PeerGone(r)
      PROVE  Given'
  BY <1>3, Shared DEF Coro!Read, Coro!ReadOther, Coro!ReadHead, Coro!ReadPage,
     Coro!PeerGone, Coro!ReturnAnswer
<1>4. CASE Async!Publish \/ Async!DoRead \/ Async!Found \/ Async!NotThere
           \/ Async!Searched \/ Async!Call \/ Async!RunWs \/ Async!Written
           \/ Async!WriteError
           \/ \E reason \in {"client", "error"} : Async!ReadEnd(reason)
  BY <1>4 DEF Async!Publish, Async!DoRead, Async!Found, Async!NotThere,
     Async!Searched, Async!Call, Async!RunWs, Async!Written,
     Async!WriteError, Async!ReadEnd
<1>5. ASSUME NEW r \in Requests,
             Async!ReadOther(r) \/ Async!ReadHead(r) \/ Async!ReadPage(r)
             \/ Async!PeerGone(r)
      PROVE  Given'
  BY <1>5, Shared DEF Async!Read, Async!ReadOther, Async!ReadHead,
     Async!ReadPage, Async!PeerGone
<1>6. QED
  BY <1>1, <1>2, <1>3, <1>4, <1>5
     DEF Next, Coro!Next, Async!Next, Async!OnRead, Async!OnWrite

(* Ahead, as the search goes: a map is published, ... *)
LEMMA AheadStays ==
  ASSUME UNCHANGED <<req, lessen>>, stable' \subseteq stable,
         NEW k, Ahead(k)
  PROVE  Ahead(k)'
BY NamesStay, Zenon DEF Ahead

(* ... a request comes, ... *)
LEMMA AheadAll ==
  ASSUME Order(req', lessen'), stable' \subseteq Ids
  PROVE  Ahead(1)'
BY Zenon DEF Order, Ahead, Names, Served

(* ... a name is not there, ... *)
LEMMA AheadNext ==
  ASSUME NEW k \in 1 .. Len(Names), Ahead(k), Names[k] \notin stable
  PROVE  Ahead(Behind(Names, k))
<1>1. SUFFICES ASSUME NEW id \in stable, Served(id)
               PROVE  \E j \in Behind(Names, k) .. Len(Names) : Names[j] = id
  BY DEF Ahead
<1>2. PICK j \in k .. Len(Names) : Names[j] = id
  BY <1>1 DEF Ahead
<1>3. j # k /\ Names[j] # Names[k]
  BY <1>2
<1>4. j \in Behind(Names, k) .. Len(Names)
  BY <1>3 DEF Behind
<1>5. QED
  BY <1>2, <1>4

(* ... and all are through. *)
LEMMA AheadNone ==
  ASSUME Len(Names) \in Nat, NEW k \in Nat, k > Len(Names), Ahead(k)
  PROVE  \A id \in stable : ~Served(id)
BY DEF Ahead

(* The search goes on, or stops at what it has found. *)
LEMMA SoughtStep ==
  ASSUME Typed, Turn, Known, Sought, Order(req', lessen'), [Next]_vars
  PROVE  Sought'
<1> USE DEF Searching, Calling, Answering
<1>1. ASSUME UNCHANGED <<pc, req, lessen, i, func, answer>>,
             stable' \subseteq stable
      PROVE  Sought'
  <2>1. /\ Ahead(i) => Ahead(i)'
        /\ Names' = Names /\ \A id : Served(id)' <=> Served(id)
    BY <1>1, AheadStays, NamesStay
  <2>2. QED
    BY <1>1, <2>1 DEF Sought
<1>2. ASSUME pc' \notin {"search", "searching", "call", "calling"},
             ~Answering' \/ answer' # "404"
      PROVE  Sought'
  BY <1>2 DEF Sought
<1>3. CASE UNCHANGED vars \/ Coro!Publish \/ Async!Publish
  <2>1. /\ UNCHANGED <<pc, req, lessen, i, func, answer>>
        /\ stable' \subseteq stable
    BY <1>3 DEF vars, Coro!Publish, Coro!serving, Async!Publish
  <2>2. QED
    BY <1>1, <2>1
<1>4. CASE Coro!ReadEof \/ Coro!ReadError \/ Coro!Upgrade \/ Coro!WriteDone
           \/ Coro!WriteError \/ Async!DoRead \/ Async!RunWs
           \/ Async!Written \/ Async!WriteError
           \/ \E reason \in {"client", "error"} : Async!ReadEnd(reason)
  BY <1>2, <1>4 DEF Coro!ReadEof, Coro!ReadError, Coro!Upgrade,
     Coro!WriteDone, Coro!WriteError, Async!DoRead, Async!RunWs,
     Async!Written, Async!WriteError, Async!ReadEnd
<1>5. CASE Coro!Call \/ Async!Call
  BY <1>2, <1>5, AnswerKind, Shared DEF Coro!Call, Async!Call
<1>6. ASSUME NEW r \in Requests,
             \/ Coro!ReadOther(r) \/ Coro!ReadHead(r) \/ Coro!PeerGone(r)
             \/ Async!ReadOther(r) \/ Async!ReadHead(r) \/ Async!PeerGone(r)
      PROVE  Sought'
  BY <1>2, <1>6 DEF Coro!ReadOther, Coro!ReadHead, Coro!PeerGone,
     Coro!ReturnAnswer, Async!ReadOther, Async!ReadHead, Async!PeerGone
<1>7. ASSUME NEW r \in Requests, Coro!ReadPage(r) \/ Async!ReadPage(r)
      PROVE  Sought'
  <2>1. stable' = published /\ i' = 1 /\ pc' \in {"search", "searching"}
    BY <1>7 DEF Coro!ReadPage, Coro!Read, Async!ReadPage, Async!Read
  <2>2. Ahead(1)'
    BY <2>1, AheadAll DEF Typed
  <2>3. Ahead(i)'
    BY <2>1, <2>2
  <2>4. QED
    BY <2>1, <2>3 DEF Sought
<1>8. CASE Coro!Found \/ Async!Found
  <2>1. /\ i \in Nat /\ i <= Len(Names) /\ Len(Names) \in Nat /\ 1 <= i
        /\ func' = Names[i] /\ func' \in Ids /\ i' = i
        /\ pc' \in {"call", "calling"} /\ Ahead(i)
        /\ stable' = stable /\ UNCHANGED <<req, lessen>>
    BY <1>8, Shared DEF Coro!Found, Async!Found, Typed, Turn, Sought
  <2>2. Ahead(i)' /\ Names' = Names
    BY <2>1, AheadStays, NamesStay
  <2>3. i' \in 1 .. Len(Names)' /\ func' = Names'[i']
    BY <2>1, <2>2
  <2>4. QED
    BY <2>1, <2>2, <2>3 DEF Sought
<1>9. CASE Coro!NotThere \/ Async!NotThere
  <2>1. /\ i \in 1 .. Len(Names) /\ Names[i] \notin published
        /\ i' = Behind(Names, i)
        /\ pc' = pc /\ pc \in {"search", "searching"} /\ Ahead(i)
        /\ pc = "searching" => func' = NoId
        /\ stable' = stable /\ UNCHANGED <<req, lessen>>
    BY <1>9, Shared DEF Coro!NotThere, Async!NotThere, Turn, Sought
  <2>2. PICK k : k = Behind(Names, i)
    OBVIOUS
  <2>3. Ahead(k)
    BY <2>1, <2>2, AheadNext DEF Known
  <2>4. Ahead(k)'
    BY <2>1, <2>3, AheadStays
  <2>5. Ahead(i)'
    BY <2>1, <2>2, <2>4
  <2>6. QED
    BY <2>1, <2>5 DEF Sought
<1>10. CASE Coro!NotFound \/ (Async!Searched /\ func = NoId)
  <2>1. /\ i \in Nat /\ i > Len(Names) /\ Len(Names) \in Nat /\ Ahead(i)
        /\ stable' = stable /\ UNCHANGED <<req, lessen>>
        /\ pc' \in {"last", "writing"}
    BY <1>10, Shared DEF Coro!NotFound, Coro!ReturnAnswer, Async!Searched,
       Turn, Sought
  <2>2. \A id \in stable : ~Served(id)
    BY <2>1, AheadNone
  <2>3. \A id \in stable' : ~Served(id)'
    BY <2>1, <2>2, NamesStay
  <2>4. QED
    BY <2>1, <2>3 DEF Sought
<1>11. CASE Async!Searched /\ func # NoId
  <2>1. /\ i \in Nat /\ 1 <= i /\ i > Len(Names) /\ Len(Names) \in Nat
        /\ pc = "searching" /\ pc' = "calling" /\ UNCHANGED <<req, lessen>>
    BY <1>11, Shared DEF Async!Searched, Turn
  <2>2. Len(Names) = 0
    BY <1>11, <2>1 DEF Sought
  <2>3. Len(Names)' = 0
    BY <2>1, <2>2, NamesStay
  <2>4. QED
    BY <2>1, <2>3 DEF Sought
<1>12. QED
  BY <1>3, <1>4, <1>5, <1>6, <1>7, <1>8, <1>9, <1>10, <1>11
     DEF Next, Coro!Next, Async!Next, Async!OnRead, Async!OnWrite

-----------------------------------------------------------------------------
(* The theorems *)

(* Either build starts without a request. *)
LEMMA InvInit == Init => Inv
<1> SUFFICES ASSUME Init PROVE Inv
  OBVIOUS
<1>1. lessen \in BOOLEAN
  BY DEF Init, Coro!Init, Async!Init
<1>2. /\ published \in SUBSET Ids /\ pc \in {"read", "run"}
      /\ asked = 0 /\ req = (CHOOSE r \in Requests : TRUE)
      /\ dataReq.header = NoHdr /\ i = 1 /\ func = NoId /\ answer = "ok"
      /\ stable = {} /\ why = "no"
  BY DEF Init, Coro!Init, Async!Init
<1>3. req \in Requests
  BY <1>2, HttpAssumption
<1>4. Typed
  BY <1>2, <1>3, HttpAssumption
     DEF Typed, CoroPlaces, AsyncPlaces, AnswerKinds
<1>5. Turn
  <2>1. Order(req, lessen)
    BY <1>1, <1>3, OrderOf, Zenon
  <2>2. Len(Names) \in Nat
    BY <2>1, Zenon DEF Order, Names
  <2>3. QED
    BY <1>2, <2>2 DEF Turn, Searching
<1>6. Known /\ Sought /\ Closing /\ Given
  BY <1>2 DEF Known, Sought, Closing, Given, Searching, Calling, Answering,
     ClosedOnlyAsked
<1>7. QED
  BY <1>1, <1>4, <1>5, <1>6, Zenon DEF Inv

(* The invariant is inductive. *)
LEMMA InvStep == ASSUME Inv, [Next]_vars PROVE Inv'
<1>1. Typed /\ Turn /\ Known /\ Sought /\ Closing /\ Given
  BY Zenon DEF Inv
<1>2. lessen' \in BOOLEAN
  BY LessenStays, Zenon DEF Inv
<1>3. Typed'
  BY <1>1, TypedStep, Zenon
<1>4. Order(req', lessen')
  <2>1. req' \in Requests
    BY <1>3 DEF Typed
  <2>2. QED
    BY <1>2, <2>1, OrderOf, Zenon
<1>5. Len(Names)' \in Nat
  BY <1>4, Zenon DEF Order, Names
<1>6. Turn'
  BY <1>1, <1>5, TurnStep, Zenon
<1>7. Known' /\ Sought' /\ Closing' /\ Given'
  BY <1>1, <1>4, KnownStep, SoughtStep, ClosingStep, GivenStep, Zenon
<1>8. QED
  BY <1>2, <1>3, <1>6, <1>7, Zenon DEF Inv

(* Types; the search stays within the names of its request. *)
THEOREM TypeCorrect == Spec => []TypeOK
<1>1. ASSUME Inv PROVE TypeOK
  <2>1. Typed /\ Turn /\ lessen \in BOOLEAN
    BY <1>1, Zenon DEF Inv
  <2>2. /\ i \in Nat
        /\ Searching => i \in 1 .. (Len(Candidates(req, lessen)) + 1)
    BY <2>1, Zenon DEF Turn, Names
  <2>3. QED
    BY <2>1, <2>2, Zenon DEF Typed, TypeOK
<1>2. QED
  BY InvInit, InvStep, <1>1, PTL DEF Spec

(* The handler that is called has the longest of the names that stayed      *)
(* registered, or a longer one, and "not found" is said only when none did. *)
THEOREM LongestStableHolds == Spec => []LongestStable
<1>1. ASSUME Inv PROVE LongestStable
  <2>1. Turn /\ Sought
    BY <1>1, Zenon DEF Inv
  <2>2. /\ Len(Names) = 0 => req.loc = <<>> /\ ~lessen
        /\ \A j \in 1 .. Len(Names) : Served(Names[j])
        /\ \A j, k \in 1 .. Len(Names) :
             j < k /\ Names[j] # Names[k] =>
               Length(Names[k].path) < Length(Names[j].path)
    <3>1. Order(req, lessen)
      BY <1>1, OrderOf, Zenon DEF Inv, Typed
    <3>2. QED
      BY <3>1, Zenon DEF Order, Names, Served
  <2>3. \A id \in Ids : Length(id.path) \in Int
    BY LengthNat, HttpAssumption
  <2>4. stable \subseteq Ids
    BY <1>1 DEF Inv, Typed
  <2>5. ASSUME Calling, ~(pc = "calling" /\ Len(Names) = 0)
        PROVE  /\ Served(func)
               /\ \A id \in stable : Served(id) =>
                    Length(id.path) <= Length(func.path)
    <3>1. /\ i \in 1 .. Len(Names) /\ func = Names[i] /\ func \in Ids
          /\ Ahead(i)
      BY <2>1, <2>5 DEF Sought
    <3>2. ASSUME NEW id \in stable, Served(id)
          PROVE  Length(id.path) <= Length(func.path)
      <4>1. PICK j \in i .. Len(Names) : Names[j] = id
        BY <3>1, <3>2 DEF Ahead
      <4>2. j \in 1 .. Len(Names) /\ (j = i \/ i < j)
        BY <3>1
      <4>3. Length(id.path) \in Int /\ Length(func.path) \in Int
        BY <2>3, <2>4, <3>1
      <4>4. CASE Names[j] = Names[i]
        BY <3>1, <4>1, <4>3, <4>4
      <4>5. CASE i < j /\ Names[i] # Names[j]
        <5>1. Length(id.path) < Length(func.path)
          BY <2>2, <3>1, <4>1, <4>2, <4>5, Zenon
        <5>2. QED
          BY <4>3, <5>1
      <4>6. QED
        BY <4>2, <4>4, <4>5
    <3>3. QED
      BY <2>2, <3>1, <3>2, Zenon
  <2>6. Answering /\ answer = "404" => \A id \in stable : ~Served(id)
    BY <2>1 DEF Sought
  <2>7. QED
    BY <2>2, <2>5, <2>6, Zenon DEF LongestStable, Served
<1>2. QED
  BY InvInit, InvStep, <1>1, PTL DEF Spec

(* The server ends a connection in good order only after an answer that     *)
(* says so, or after an error in the coroutine.                             *)
THEOREM ClosedOnlyAskedHolds == Spec => []ClosedOnlyAsked
<1>1. Inv => ClosedOnlyAsked
  BY Zenon DEF Inv, Closing
<1>2. QED
  BY InvInit, InvStep, <1>1, PTL DEF Spec

(* The handler is given the data of its request, as far as parseUrl gets    *)
(* from the queries of the requests what they say.                          *)
THEOREM OwnDataHolds ==
  ASSUME \A r \in Requests :
           r.query # NoQuery => Parse(r.query) = Params(r.query)
  PROVE  Spec => []OwnData
<1>1. ASSUME Inv PROVE OwnData
  <2>1. /\ Searching \/ Calling => dataReq.params = ParsedParams(req)
        /\ pc \in {"search", "call"} => dataReq.header = req.hdr
    BY <1>1, Zenon DEF Inv, Given
  <2>2. req \in Requests
    BY <1>1, Zenon DEF Inv, Typed
  <2>3. QED
    BY <2>1, <2>2 DEF OwnData, ParsedParams
<1>2. QED
  BY InvInit, InvStep, <1>1, PTL DEF Spec

=============================================================================
