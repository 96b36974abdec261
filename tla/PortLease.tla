------------------------------ MODULE PortLease ------------------------------
(***************************************************************************)
(* What the unit registry of unit-manager promises to the units of the     *)
(* system: a unit holds two ports of its own, one for its output URL and    *)
(* one for its inference URL, from its registration until its release.      *)
(***************************************************************************)
CONSTANTS Unit, Port

VARIABLE lease   (* the ports each unit holds                               *)

Init == lease = [u \in Unit |-> {}]

Leased == UNION {lease[u] : u \in Unit}

Grant(u, out, inf) ==
    /\ lease[u] = {}
    /\ out # inf
    /\ {out, inf} \cap Leased = {}
    /\ lease' = [lease EXCEPT ![u] = {out, inf}]

Return(u) ==
    /\ lease[u] # {}
    /\ lease' = [lease EXCEPT ![u] = {}]

Next ==
    \E u \in Unit :
        \/ \E out, inf \in Port : Grant(u, out, inf)
        \/ Return(u)

Spec == Init /\ [][Next]_lease
==============================================================================
