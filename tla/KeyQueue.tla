------------------------------- MODULE KeyQueue -------------------------------
(***************************************************************************)
(* What a controller asks of its work queue, and OrgController assumes of  *)
(* it: a set of keys that wait for a worker, and the keys that workers     *)
(* hold. A key is held by one worker at a time and only when somebody      *)
(* asked for it; a request made while the key is held waits for the end of *)
(* that pass; a request for later is lost only when the queue is closed.   *)
(***************************************************************************)
CONSTANT Keys

VARIABLES
    pending, \* keys that wait for a worker
    later,   \* keys to be requested again after a delay
    held,    \* keys workers hold
    closed   \* has the queue been closed?

vars == <<pending, later, held, closed>>

Init == pending = {} /\ later = {} /\ held = {} /\ closed = FALSE

Request(k) ==
    /\ ~closed
    /\ pending' = pending \cup {k}
    /\ UNCHANGED <<later, held, closed>>

RequestLater(k) ==
    /\ ~closed
    /\ later' = later \cup {k}
    /\ UNCHANGED <<pending, held, closed>>

(* The delay is over; the key may have been asked for later twice.         *)
Due(k) ==
    /\ ~closed
    /\ k \in later
    /\ pending' = pending \cup {k}
    /\ later' \in {later, later \ {k}}
    /\ UNCHANGED <<held, closed>>

Take(k) ==
    /\ k \in pending \ held
    /\ pending' = pending \ {k}
    /\ held' = held \cup {k}
    /\ UNCHANGED <<later, closed>>

Release(k) ==
    /\ k \in held
    /\ held' = held \ {k}
    /\ UNCHANGED <<pending, later, closed>>

Close ==
    /\ ~closed
    /\ closed' = TRUE
    /\ later' = {}
    /\ UNCHANGED <<pending, held>>

Next ==
    \/ \E k \in Keys : Request(k) \/ RequestLater(k) \/ Due(k) \/ Take(k) \/ Release(k)
    \/ Close

Spec == Init /\ [][Next]_vars
===============================================================================
