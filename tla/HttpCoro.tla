------------------------------ MODULE HttpCoro ------------------------------
(***************************************************************************)
(* One connection of the web server built with coroutines (the default):   *)
(* HttpServer::session, up to the upgrade to a web socket, from where      *)
(* module WsCoro goes on.                                                  *)
(*                                                                         *)
(* The coroutine gives way at each read and write; each lookup in the      *)
(* registry is a step too, because HendlerManager may publish another map  *)
(* between two of them.                                                    *)
(***************************************************************************)
EXTENDS Http

VARIABLES
  published,  (* the names in HendlerManager's published map               *)
  lessen,     (* lessen_all                                                *)
  pc,         (* "read", "search", "call", "write", "last" (a write with   *)
              (* a return behind it), "upgraded" or "over"                 *)
  asked,      (* requests read, at most MaxRequests                        *)
  req,        (* the request being served                                  *)
  dataReq,    (* its params, and the optional one of its headers           *)
  i,          (* the next candidate to look up                             *)
  func,       (* the handler found                                         *)
  answer,     (* the kind of the answer being written                      *)
  stable,     (* history: names published ever since req was read          *)
  why         (* history: why the connection is over                       *)

serving == <<asked, req, dataReq, i, func, answer>>
vars == <<published, lessen, pc, serving, stable, why>>

Init ==
  /\ published \in SUBSET Ids
  /\ lessen \in BOOLEAN
  /\ pc = "read"
  /\ asked = 0
  /\ req = CHOOSE r \in Requests : TRUE
  /\ dataReq = [header |-> NoHdr, params |-> None]
  /\ i = 1
  /\ func = NoId
  /\ answer = "ok"
  /\ stable = {}
  /\ why = "no"

(* HendlerManager publishes a map. *)
Publish ==
  /\ pc \in {"search", "call"}
  /\ published' \in SUBSET Ids
  /\ stable' = stable \cap published'
  /\ UNCHANGED <<lessen, pc, serving, why>>

-----------------------------------------------------------------------------
(* The client ends the stream between requests: break, shutdown. *)
ReadEof ==
  /\ pc = "read"
  /\ pc' = "over"
  /\ why' = "client"
  /\ UNCHANGED <<published, lessen, serving, stable>>

(* Anything else that ends a read, the time-out of 30 s included. *)
ReadError ==
  /\ pc = "read"
  /\ pc' = "over"
  /\ why' = "error"
  /\ UNCHANGED <<published, lessen, serving, stable>>

(* return lambda(...): the session returns once the answer is written.      *)
ReturnAnswer(kind) ==
  /\ answer' = kind
  /\ pc' = "last"

(* Mutant of Read: one request too many. *)
ReadMore(r) ==
  /\ pc = "read"
  /\ asked <= MaxRequests
  /\ asked' = asked + 1
  /\ req' = r
  /\ stable' = published
  /\ UNCHANGED <<published, lessen, why>>

Read(r) ==
  /\ pc = "read"
  /\ asked < MaxRequests
  /\ asked' = asked + 1
  /\ req' = r
  /\ stable' = published
  /\ UNCHANGED <<published, lessen, why>>

ReadOther(r) ==
  /\ Read(r)
  /\ r.method = "other"
  /\ ReturnAnswer("400")
  /\ UNCHANGED <<dataReq, i, func>>

ReadHead(r) ==
  /\ Read(r)
  /\ r.method = "head"
  /\ ReturnAnswer("head")
  /\ UNCHANGED <<dataReq, i, func>>

(* dataReq and func are made anew in each turn of the loop. *)
ReadPage(r) ==
  /\ Read(r)
  /\ r.method = "page"
  /\ dataReq' = [params |-> ParsedParams(r), header |-> r.hdr]
  /\ i' = 1
  /\ func' = NoId
  /\ pc' = "search"
  /\ UNCHANGED answer

(* The client is gone by now: remote_endpoint throws, and nothing catches   *)
(* it on its way out of the thread's function.                              *)
PeerGone(r) ==
  /\ Read(r)
  /\ r.method = "page"
  /\ pc' = "over" /\ why' = "thrown"
  /\ UNCHANGED <<dataReq, i, func, answer>>

-----------------------------------------------------------------------------
Names == Candidates(req, lessen)

Found ==
  /\ pc = "search"
  /\ i <= Len(Names)
  /\ Names[i] \in published
  /\ func' = Names[i]
  /\ pc' = "call"
  /\ UNCHANGED <<published, lessen, asked, req, dataReq, i, answer, stable,
                 why>>

NotThere ==
  /\ pc = "search"
  /\ i <= Len(Names)
  /\ Names[i] \notin published
  /\ i' = Behind(Names, i)
  /\ UNCHANGED <<published, lessen, pc, asked, req, dataReq, func, answer,
                 stable, why>>

NotFound ==
  /\ pc = "search"
  /\ i > Len(Names)
  /\ ReturnAnswer("404")
  /\ UNCHANGED <<published, lessen, asked, req, dataReq, i, func, stable, why>>

(* The handler: a page or a file, or an exception, caught by its type.      *)
(* What is thrown answers and returns.                                      *)
Call ==
  /\ pc = "call"
  /\ ~req.ws
  /\ \E outcome \in Outcomes :
       /\ answer' = AnswerTo(outcome)
       /\ pc' = IF outcome \in {"ok", "file"} THEN "write" ELSE "last"
  /\ UNCHANGED <<published, lessen, asked, req, dataReq, i, func, stable, why>>

Upgrade ==
  /\ pc = "call"
  /\ req.ws
  /\ pc' = "upgraded"
  /\ UNCHANGED <<published, lessen, serving, stable, why>>

-----------------------------------------------------------------------------
(* The answer is out: close_ is need_eof, and the loop goes on or not. *)
WriteDone ==
  /\ pc \in {"write", "last"}
  /\ IF pc = "last" \/ NeedEof(answer, req)
     THEN pc' = "over" /\ why' = "answer"
     ELSE pc' = "read" /\ UNCHANGED why
  /\ UNCHANGED <<published, lessen, serving, stable>>

WriteError ==
  /\ pc \in {"write", "last"}
  /\ pc' = "over"
  /\ why' = "error"
  /\ UNCHANGED <<published, lessen, serving, stable>>

Next ==
  \/ Publish
  \/ ReadEof \/ ReadError
  \/ \E r \in Requests :
       ReadOther(r) \/ ReadHead(r) \/ ReadPage(r) \/ PeerGone(r)
  \/ Found \/ NotThere \/ NotFound
  \/ Call \/ Upgrade
  \/ WriteDone \/ WriteError
=============================================================================
