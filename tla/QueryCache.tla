-------------------------------- MODULE QueryCache ---------------------------------
(* The cache behind the panels' lists (TanStack Query, external), as the panels       *)
(* configure it: an answer is good for a while, a mutation drops keys by prefix, and   *)
(* a window that gets the focus asks nothing again.  Operators on one entry.           *)
EXTENDS Integers, Sequences

CONSTANT NULL      \* no data, no answer

(* fetch: "idle", "asked" (the server has not read yet), "answered" (its answer is on
   the way).  raced: the answer on the way was read before the entry was dropped. *)
Never == [data |-> NULL, fresh |-> FALSE, fetch |-> "idle", answer |-> NULL, raced |-> FALSE]
Asked(e) == [e EXCEPT !.fetch = "asked", !.answer = NULL, !.raced = FALSE]

\* A component that shows the entry appears: it asks unless the data is fresh.
Mounted(e) == IF e.fetch = "idle" /\ (e.data = NULL \/ ~ e.fresh) THEN Asked(e) ELSE e

\* Dropped by a mutation.  A shown entry is asked again at once, unless its first answer
\* is still on the way; a hidden one waits until it is shown.
Invalidated(e, shown) ==
  CASE e = Never -> e
    [] e # Never /\ shown /\ (e.data # NULL \/ e.fetch = "idle") -> Asked([e EXCEPT !.fresh = FALSE])
    [] OTHER -> [e EXCEPT !.fresh = FALSE, !.raced = @ \/ e.fetch = "answered"]

Read(e, rows) == [e EXCEPT !.fetch = "answered", !.answer = rows]
Answered(e) == [e EXCEPT !.data = e.answer, !.fresh = TRUE, !.fetch = "idle", !.answer = NULL]
\* A mutation, or the age of the data, leaves nothing more to come.
Settled(e) == e.data # NULL /\ e.fetch = "idle" /\ ~ e.raced
====================================================================================
