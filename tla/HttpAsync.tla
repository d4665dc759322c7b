----------------------------- MODULE HttpAsync ------------------------------
(***************************************************************************)
(* One connection of the web server built without coroutines: struct       *)
(* HttpServer of ServerAsync.cpp, up to run_ws, from where module WsAsync  *)
(* goes on.                                                                *)
(*                                                                         *)
(* The session is a chain of callbacks, each of which starts the next read *)
(* or write and returns; pc names the operation that is pending, or the    *)
(* place in on_read.  Unlike the coroutine's, its request data (m_dataReq, *)
(* m_func) are members that live as long as the connection.  Each lookup   *)
(* is a step, because HendlerManager may publish another map between two.  *)
(***************************************************************************)
EXTENDS Http

VARIABLES
  published,  (* the names in HendlerManager's published map               *)
  m_lessen_all,
  pc,         (* "run", "reading", "searching", "calling", "writing", "ws" *)
              (* or "ended"                                                *)
  asked,      (* requests read, at most MaxRequests                        *)
  m_req,
  m_dataReq,  (* its params, and the optional one of its headers           *)
  i,          (* the next candidate to look up                             *)
  m_func,     (* the handler the last lookup found                         *)
  answer,     (* the kind of the answer being written                      *)
  stable,     (* history: names published ever since m_req was read        *)
  why         (* history: why the connection is over                       *)

vars == <<published, m_lessen_all, pc, asked, m_req, m_dataReq, i, m_func,
          answer, stable, why>>

Init ==
  /\ published \in SUBSET Ids
  /\ m_lessen_all \in BOOLEAN
  /\ pc = "run"
  /\ asked = 0
  /\ m_req = CHOOSE r \in Requests : TRUE
  /\ m_dataReq = [header |-> NoHdr, params |-> None]
  /\ i = 1
  /\ m_func = NoId
  /\ answer = "ok"
  /\ stable = {}
  /\ why = "no"

(* HendlerManager publishes a map. *)
Publish ==
  /\ pc \in {"searching", "calling"}
  /\ published' \in SUBSET Ids
  /\ stable' = stable \cap published'
  /\ UNCHANGED <<m_lessen_all, pc, asked, m_req, m_dataReq, i, m_func, answer,
                 why>>

(* run, dispatched to do_read. *)
DoRead ==
  /\ pc = "run"
  /\ pc' = "reading"
  /\ UNCHANGED <<published, m_lessen_all, asked, m_req, m_dataReq, i, m_func,
                 answer, stable, why>>

-----------------------------------------------------------------------------
(* on_read *)

(* end_of_stream: do_close; or any other error, the time-out of 30 s too:   *)
(* nothing is pending any more and the session goes.                        *)
ReadEnd(reason) ==
  /\ pc = "reading"
  /\ pc' = "ended"
  /\ why' = reason
  /\ UNCHANGED <<published, m_lessen_all, asked, m_req, m_dataReq, i, m_func,
                 answer, stable>>

(* Mutant of Read: one request too many. *)
ReadMore(r) ==
  /\ pc = "reading"
  /\ asked <= MaxRequests
  /\ asked' = asked + 1
  /\ m_req' = r
  /\ stable' = published
  /\ UNCHANGED <<published, m_lessen_all, m_func, why>>

Read(r) ==
  /\ pc = "reading"
  /\ asked < MaxRequests
  /\ asked' = asked + 1
  /\ m_req' = r
  /\ stable' = published
  /\ UNCHANGED <<published, m_lessen_all, m_func, why>>

ReadOther(r) ==
  /\ Read(r)
  /\ r.method = "other"
  /\ answer' = "400"
  /\ pc' = "writing"
  /\ UNCHANGED <<m_dataReq, i>>

ReadHead(r) ==
  /\ Read(r)
  /\ r.method = "head"
  /\ answer' = "head"
  /\ pc' = "writing"
  /\ UNCHANGED <<m_dataReq, i>>

(* m_dataReq.headers.emplace: what is there stays. *)
KeptHeader(r) == IF m_dataReq.header = NoHdr THEN r.hdr ELSE m_dataReq.header

(* Mutant of ReadPage: the parameters are emplaced, too. *)
ReadPageEmplace(r) ==
  /\ Read(r)
  /\ r.method = "page"
  /\ m_dataReq' = [header |-> KeptHeader(r),
                   params |-> IF m_dataReq.params = None THEN ParsedParams(r)
                              ELSE m_dataReq.params]
  /\ i' = 1
  /\ pc' = "searching"
  /\ UNCHANGED answer

(* m_dataReq.params is assigned. *)
ReadPage(r) ==
  /\ Read(r)
  /\ r.method = "page"
  /\ m_dataReq' = [params |-> ParsedParams(r), header |-> KeptHeader(r)]
  /\ i' = 1
  /\ pc' = "searching"
  /\ UNCHANGED answer

(* The client is gone by now: remote_endpoint throws, and nothing catches   *)
(* it on its way out of the thread's function.                              *)
PeerGone(r) ==
  /\ Read(r)
  /\ r.method = "page"
  /\ pc' = "ended" /\ why' = "thrown"
  /\ UNCHANGED <<m_dataReq, i, answer>>

Names == Candidates(m_req, m_lessen_all)

Found ==
  /\ pc = "searching"
  /\ i <= Len(Names)
  /\ Names[i] \in published
  /\ m_func' = Names[i]
  /\ pc' = "calling"
  /\ UNCHANGED <<published, m_lessen_all, asked, m_req, m_dataReq, i, answer,
                 stable, why>>

(* Mutant of NotThere: m_func is assigned only what is found. *)
NotThereKeep ==
  /\ pc = "searching"
  /\ i <= Len(Names)
  /\ Names[i] \notin published
  /\ i' = Behind(Names, i)
  /\ UNCHANGED <<published, m_lessen_all, pc, asked, m_req, m_dataReq, m_func,
                 answer, stable, why>>

NotThere ==
  /\ pc = "searching"
  /\ i <= Len(Names)
  /\ Names[i] \notin published
  /\ m_func' = NoId
  /\ i' = Behind(Names, i)
  /\ UNCHANGED <<published, m_lessen_all, pc, asked, m_req, m_dataReq, answer,
                 stable, why>>

(* The loop is through: if (!m_func).  A search without any name has not    *)
(* touched m_func, and finds the handler of the request before.             *)
Searched ==
  /\ pc = "searching"
  /\ i > Len(Names)
  /\ IF m_func = NoId
     THEN pc' = "writing" /\ answer' = "404"
     ELSE pc' = "calling" /\ UNCHANGED answer
  /\ UNCHANGED <<published, m_lessen_all, asked, m_req, m_dataReq, i, m_func,
                 stable, why>>

Call ==
  /\ pc = "calling"
  /\ ~m_req.ws
  /\ \E outcome \in Outcomes : answer' = AnswerTo(outcome)
  /\ pc' = "writing"
  /\ UNCHANGED <<published, m_lessen_all, asked, m_req, m_dataReq, i, m_func,
                 stable, why>>

RunWs ==
  /\ pc = "calling"
  /\ m_req.ws
  /\ pc' = "ws"
  /\ UNCHANGED <<published, m_lessen_all, asked, m_req, m_dataReq, i, m_func,
                 answer, stable, why>>

-----------------------------------------------------------------------------
(* on_write, with close bound to need_eof when the write was started *)

(* Mutant of Written: it closes whatever close says. *)
WrittenClose ==
  /\ pc = "writing"
  /\ pc' = "ended" /\ why' = "answer"
  /\ UNCHANGED <<published, m_lessen_all, asked, m_req, m_dataReq, i, m_func,
                 answer, stable>>

Written ==
  /\ pc = "writing"
  /\ IF NeedEof(answer, m_req)
     THEN pc' = "ended" /\ why' = "answer"
     ELSE pc' = "reading" /\ UNCHANGED why
  /\ UNCHANGED <<published, m_lessen_all, asked, m_req, m_dataReq, i, m_func,
                 answer, stable>>

WriteError ==
  /\ pc = "writing"
  /\ pc' = "ended"
  /\ why' = "error"
  /\ UNCHANGED <<published, m_lessen_all, asked, m_req, m_dataReq, i, m_func,
                 answer, stable>>

OnRead ==
  \/ \E reason \in {"client", "error"} : ReadEnd(reason)
  \/ \E r \in Requests :
       ReadOther(r) \/ ReadHead(r) \/ ReadPage(r) \/ PeerGone(r)
  \/ Found \/ NotThere \/ Searched
  \/ Call \/ RunWs

OnWrite == Written \/ WriteError

Next == Publish \/ DoRead \/ OnRead \/ OnWrite
=============================================================================
