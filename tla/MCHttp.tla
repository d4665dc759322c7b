------------------------------- MODULE MCHttp -------------------------------
(* Small instances of HttpSession for TLC. *)
EXTENDS HttpSession

A   == <<"a">>
AB  == <<"a", "b">>
S   == <<Empty>>            \* the root
AS  == <<"a", Empty>>       \* /a/
ASB == <<"a", Empty, "b">>  \* /a//b

(* Every query of at most five characters. *)
Queries == UNION {[1..n -> {"a", "=", "&"}] : n \in 0..5}
ASSUME ParseMeansParams == \A query \in Queries : Parse(query) = Params(query)

Twice  == <<"a", "=", "&", "a", "=", "a">>   \* a=&a=a
Uneven == <<"=", "a", "=", "=", "&">>        \* =a==&

(* Locations of two segments, with an empty segment inside, with a slash at *)
(* the end and without a segment; a web socket; pages with and without   *)
(* the optional header, kept open and not; HEAD and an unknown method.      *)
MCRequests ==
  LET Page(loc, query, keep, h) ==
        [method |-> "page", keep |-> keep, ws |-> FALSE, hdr |-> h, loc |-> loc,
         query |-> query]
  IN {Page(AB, Twice, TRUE, "none"), Page(AB, NoQuery, TRUE, "x"),
      Page(AS, Uneven, FALSE, "y"), Page(<<>>, <<"a">>, TRUE, "none"),
      Page(ASB, NoQuery, TRUE, "none"),
      [Page(AB, NoQuery, TRUE, "none") EXCEPT !.ws = TRUE],
      [Page(A, NoQuery, TRUE, "x") EXCEPT !.method = "head"],
      [Page(A, NoQuery, TRUE, "none") EXCEPT !.method = "other"]}

MCHead == <<"head">>

MCIds == [ws : {FALSE}, path : {AB, AS, A, MCHead}]
         \cup [ws : {TRUE}, path : {AB, S}]
=============================================================================
