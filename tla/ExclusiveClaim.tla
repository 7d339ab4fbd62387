--------------------------- MODULE ExclusiveClaim ---------------------------
(***************************************************************************)
(* What a race for one driver promises: the free driver goes to one of the *)
(* workers and stays with it.  A driver that is taken, or that does not    *)
(* exist, goes to nobody.                                                  *)
(***************************************************************************)
CONSTANTS Workers, Nobody

VARIABLES
    winners,           \* workers told that they have the driver
    holder             \* the worker the driver is assigned to

vars == <<winners, holder>>

Init == winners = {} /\ holder = Nobody

Take(w) ==
    /\ winners = {}
    /\ winners' = {w}
    /\ holder' = w

(* The next race is for a free driver. *)
Reset == winners' = {} /\ holder' = Nobody

Next == Reset \/ \E w \in Workers : Take(w)

Spec == Init /\ [][Next]_vars
=============================================================================
