---------------------------- MODULE HttpSession ----------------------------
(***************************************************************************)
(* One connection of the web server, in whichever build: the coroutine of  *)
(* ServerCoro.cpp (module HttpCoro) or the chain of callbacks of           *)
(* ServerAsync.cpp (module HttpAsync).  The initial state chooses the      *)
(* build; the two name the places of their programs differently, so that   *)
(* only the actions of one of them are ever enabled.                       *)
(***************************************************************************)
EXTENDS Http

VARIABLES
  published, lessen, pc, asked, req, dataReq, i, func, answer, stable, why

vars == <<published, lessen, pc, asked, req, dataReq, i, func, answer, stable,
          why>>

Coro  == INSTANCE HttpCoro
Async == INSTANCE HttpAsync WITH
           m_lessen_all <- lessen, m_req <- req, m_dataReq <- dataReq,
           m_func <- func

Init == Coro!Init \/ Async!Init
Next == Coro!Next \/ Async!Next
Spec == Init /\ [][Next]_vars

CoroPlaces == {"read", "search", "call", "write", "last", "upgraded", "over"}
AsyncPlaces ==
  {"run", "reading", "searching", "calling", "writing", "ws", "ended"}

Searching == pc \in {"search", "searching"}
Calling   == pc \in {"call", "calling"}
Answering == pc \in {"write", "last", "writing"}

-----------------------------------------------------------------------------
(* Properties *)

TypeOK ==
  /\ published \in SUBSET Ids
  /\ lessen \in BOOLEAN
  /\ pc \in CoroPlaces \cup AsyncPlaces
  /\ asked \in 0..MaxRequests
  /\ req \in Requests
  /\ dataReq.header \in Hdrs \cup {NoHdr}
  /\ i \in Nat /\ (Searching => i \in 1..(Len(Candidates(req, lessen)) + 1))
  /\ func \in Ids \cup {NoId}
  /\ answer \in AnswerKinds
  /\ stable \in SUBSET Ids
  /\ why \in {"no", "client", "error", "answer", "thrown"}

(* The search takes several lookups, in maps that may differ.  Yet it never *)
(* passes over a handler that was there all the time: the handler it calls  *)
(* has the longest of the request's names that stayed registered, or a      *)
(* longer one, and is not left from an earlier request; and "not found" is  *)
(* said only when none stayed.  (Not so without coroutines for a target     *)
(* that begins with its '?': the search does not turn, and what is called   *)
(* is the handler of the request before.)                                   *)
LongestStable ==
  LET Stayed == {id \in stable : Serves(id, req, lessen)}
      LeftOver == pc = "calling" /\ req.loc = <<>> /\ ~lessen
  IN
  /\ Calling /\ ~LeftOver =>
       /\ Serves(func, req, lessen)
       /\ \A id \in Stayed : Length(id.path) <= Length(func.path)
  /\ Answering /\ answer = "404" => Stayed = {}

(* A handler is given the data of the request it is called for, and of no   *)
(* earlier one on the same connection: all the parameters its query says    *)
(* (Params: the first of a name, the rest of the query behind a name's      *)
(* first '='), and in the coroutine build its headers.  (The m_dataReq of   *)
(* the other build lives as long as the connection, and for headers its     *)
(* emplace keeps what is there.)                                            *)
OwnData ==
  /\ Calling =>
       dataReq.params = IF req.query = NoQuery THEN None ELSE Params(req.query)
  /\ pc = "call" => dataReq.header = req.hdr

(* The server ends a connection in good order only after an answer that     *)
(* tells the client so: one that says close, or that only the end of the    *)
(* connection delimits.  The coroutine also ends it after an error.         *)
ClosedOnlyAsked ==
  why = "answer" =>
    \/ NeedEof(answer, req)
    \/ pc = "over" /\ answer \in {"400", "404", "405", "500"}
=============================================================================
