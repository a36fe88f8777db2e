---------------------------- MODULE SharedNetwork ----------------------------
(***************************************************************************)
(* What network management promises: any number of users hold a network,   *)
(* and it is awake exactly while somebody holds it.  Closing puts every    *)
(* network to sleep under its holders; what they still do afterwards may   *)
(* wake one again, but never one that nobody holds.                        *)
(***************************************************************************)
CONSTANTS Networks, Users

VARIABLES
  held,    (* who holds each network       *)
  awake,   (* whether each network is awake *)
  closed   (* whether sharing has ended     *)

vars == <<held, awake, closed>>

Init ==
  /\ held = [n \in Networks |-> {}]
  /\ awake = [n \in Networks |-> FALSE]
  /\ closed = FALSE

Change(n, users) ==
  /\ ~closed /\ closed' = FALSE
  /\ held' = [held EXCEPT ![n] = users]
  /\ awake' = [awake EXCEPT ![n] = users # {}]

Take(u, n) == u \notin held[n] /\ Change(n, held[n] \cup {u})

Leave(u, n) == u \in held[n] /\ Change(n, held[n] \ {u})

(* One user hands its hold over to another. *)
HandOver(u, v, n) ==
  /\ u \in held[n]
  /\ v \notin held[n]
  /\ Change(n, (held[n] \cup {v}) \ {u})

Close ==
  /\ ~closed /\ closed' = TRUE
  /\ awake' = [n \in Networks |-> FALSE]
  /\ UNCHANGED held

Linger ==
  /\ closed /\ closed' = TRUE
  /\ \A n \in Networks : awake'[n] => held'[n] # {}

Next ==
  \/ \E n \in Networks, u, v \in Users : Take(u, n) \/ Leave(u, n) \/ HandOver(u, v, n)
  \/ Close
  \/ Linger

Spec == Init /\ [][Next]_vars
=============================================================================
