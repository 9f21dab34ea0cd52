---------------------------- MODULE SandboxSlots ----------------------------
(***************************************************************************)
(* What a worker's sandbox pool promises its callers, seen through the     *)
(* listing of the pool: every id is absent, or holds one slot in one of    *)
(* the three states a listed sandbox shows.  A slot is taken only as       *)
(* "warming", only while fewer than Capacity are taken, and a sandbox that *)
(* has left "warming" never shows it again before its slot is given up.    *)
(***************************************************************************)
EXTENDS Naturals, FiniteSets

CONSTANTS Id, Capacity

VARIABLE view     \* what the listing shows for each id

Absent == "absent"
Shown  == {"warming", "ready", "executing"}
Held   == {i \in Id : view[i] # Absent}

Init == view = [i \in Id |-> Absent]

(* A free id takes a slot, below the capacity. *)
Admit(i) ==
    /\ view[i] = Absent
    /\ Cardinality(Held) < Capacity
    /\ view' = [view EXCEPT ![i] = "warming"]

(* A held slot shows another state, never "warming" again. *)
Turn(i) ==
    /\ view[i] # Absent
    /\ \E s \in Shown \ {"warming"} : view' = [view EXCEPT ![i] = s]

(* Any number of slots are given up at once. *)
Release(S) ==
    /\ S \subseteq Held
    /\ view' = [i \in Id |-> IF i \in S THEN Absent ELSE view[i]]

Next ==
    \/ \E i \in Id : Admit(i) \/ Turn(i)
    \/ \E S \in SUBSET Id : Release(S)

Spec == Init /\ [][Next]_view
=============================================================================
