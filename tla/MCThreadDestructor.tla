------------------------- MODULE MCThreadDestructor -------------------------
(* One recurring task, and the destruction of its Thread. *)
EXTENDS ThreadDestructor

MCMs == [t \in Tasks |-> 0]
MCOutcomes == [t \in Tasks |-> {"CONTINUE"}]
=============================================================================
