-------------------------------- MODULE Http --------------------------------
(***************************************************************************)
(* What the two builds of the web server (ServerCoro.cpp, ServerAsync.cpp) *)
(* have in common: requests, the names under which a handler of a request  *)
(* is looked up, answers, and the registry of handlers, which belongs to   *)
(* HendlerManager (module Hendler) and changes at any time.                *)
(*                                                                         *)
(* A location is the sequence of its segments: /a/b is <<"a", "b">>, /a/   *)
(* is <<"a", Empty>>, /a//b is <<"a", Empty, "b">>, / is <<Empty>>, and    *)
(* <<>> is the location of a target that begins with its '?'.  The name of *)
(* a handler is one too, with a mark on those given to FHT::webSocket.     *)
(***************************************************************************)
EXTENDS Query

CONSTANTS
  Segments,    (* the segments of locations                                 *)
  Empty,       (* the empty one among them                                  *)
  Requests,    (* the requests a client may send, a set of records          *)
  Hdrs, NoHdr, (* values of an optional header, and its absence             *)
  NoQuery,     (* the query of a target without '?'                         *)
  LessenPath,  (* "head", the only location when lessenAll is set           *)
  Ids,         (* the names under which handlers are registered             *)
  NoId,
  MaxRequests  (* requests on one connection                                *)

ASSUME HttpAssumption ==
  /\ Empty \in Segments
  /\ Requests # {}
  /\ \A r \in Requests :
       /\ r.method \in {"page", "head", "other"}
       /\ r.keep \in BOOLEAN /\ r.ws \in BOOLEAN
       /\ r.hdr \in Hdrs \cup {NoHdr}
       /\ r.loc \in Seq(Segments)
  /\ NoHdr \notin Hdrs
  /\ Ids \subseteq [ws : BOOLEAN, path : Seq(Segments) \ {<<>>}]
  /\ NoId \notin Ids
  /\ MaxRequests \in Nat

(* How long a name is, as names compare: /a/ is longer than /a, / is the    *)
(* shortest.                                                                *)
Length(path) ==
  IF path = <<>> THEN 0
  ELSE 2 * Len(path) - (IF path[Len(path)] = Empty THEN 1 ELSE 0)

(* The name of that length in a location: up to the end of a segment, or up *)
(* to the '/' in front of one.                                              *)
Upto(loc, length) ==
  LET k == (length + 1) \div 2 IN
  IF length % 2 = 0 THEN SubSeq(loc, 1, k)
  ELSE SubSeq(loc, 1, k - 1) \o <<Empty>>

(* Mutant of Places: from the other end. *)
PlacesShortest(loc) == [j \in 1 .. Length(loc) |-> Upto(loc, j)]

(* The search goes through loc/ from its end and stops at each '/' and      *)
(* after each: /a/b/ gives /a/b, /a/, /a and /.  An empty loc gives / alone,*)
(* in which the loop, whose i starts at 0, does not turn.                   *)
Places(loc) == [j \in 1 .. Length(loc) |-> Upto(loc, Length(loc) + 1 - j)]

(* Where it goes on behind the j-th name.  An empty segment, as in /a//b,   *)
(* gives the same name twice, /a/, at which the loop stops once.            *)
Behind(names, j) ==
  IF j < Len(names) /\ names[j + 1] = names[j] THEN j + 2 ELSE j + 1

(* parseUrl, as to the parameters. *)
ParsedParams(r) == IF r.query = NoQuery THEN None ELSE Parse(r.query)

Candidates(r, lessen) ==
  LET places == IF lessen THEN <<LessenPath>> ELSE Places(r.loc) IN
  [j \in DOMAIN places |-> [ws |-> r.ws, path |-> places[j]]]

(* The reference for the search: the names under which r may be served.     *)
Serves(id, r, lessen) ==
  /\ id.ws = r.ws
  /\ IF lessen THEN id.path = LessenPath
     ELSE \E k \in 1..Len(r.loc) :
            \/ id.path = SubSeq(r.loc, 1, k)
            \/ id.path = SubSeq(r.loc, 1, k - 1) \o <<Empty>>

(* An answer ends the connection, by the rules of HTTP, when the client did *)
(* not ask to keep it or when nothing else tells the end of the answer: the *)
(* answer to HEAD and a file go without prepare_payload.                    *)
NeedEof(kind, r) == kind \in {"head", "file"} \/ ~r.keep

AnswerKinds == {"ok", "file", "head", "400", "404", "405", "500"}

(* How a handler may end, and the answer that makes. *)
Outcomes == {"ok", "file", "string", "chars", "other"}

AnswerTo(outcome) ==
  CASE outcome = "string" -> "405"
    [] outcome = "chars"  -> "400"
    [] outcome = "other"  -> "500"
    [] OTHER              -> outcome
=============================================================================
