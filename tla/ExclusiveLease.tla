--------------------------- MODULE ExclusiveLease ---------------------------
(***************************************************************************)
(* What the daemon's address and port allocators promise their callers: a  *)
(* holder is given a resource only while nobody else has it, and keeps it  *)
(* until it lets go of it.  The allocators of network.go are shown to      *)
(* implement this specification.                                           *)
(***************************************************************************)
CONSTANTS
    Holder,     \* whoever can be given a resource (a container)
    Resource    \* what is handed out (IP addresses, ports)

VARIABLE
    held        \* held[h] is the set of the resources that h has

Init == held = [h \in Holder |-> {}]

Taken == UNION {held[h] : h \in Holder}

(* h is given a resource that nobody has. *)
Take(h, r) ==
    /\ r \notin Taken
    /\ held' = [held EXCEPT ![h] = @ \cup {r}]

(* Holders let go of some of what they have: one of them releases it, or a *)
(* restart takes it from many at once.                                     *)
Drop ==
    /\ held' \in [Holder -> SUBSET Resource]
    /\ \A h \in Holder : held'[h] \subseteq held[h]

Next ==
    \/ \E h \in Holder, r \in Resource : Take(h, r)
    \/ Drop

Spec == Init /\ [][Next]_held

TypeOK == held \in [Holder -> SUBSET Resource]

(* Nothing has two holders. *)
Exclusive ==
    \A g, h \in Holder : g # h => held[g] \cap held[h] = {}
=============================================================================
