----------------------------- MODULE MCPostgres -----------------------------
(* Small instances of Postgres for TLC. *)
EXTENDS Postgres

CONSTANTS q1, q2, q3, q4, s1, s2

(* Two statements, each of two queries. *)
MCStmtOf == [q \in Queries |-> IF q \in {q1, q2} THEN s1 ELSE s2]
=============================================================================
