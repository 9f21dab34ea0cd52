----------------------------- MODULE SandboxLife -----------------------------
(***************************************************************************)
(* What the orchestrators promise about sandboxes to those who know only   *)
(* ids, records and answers, whatever handlers overlap, die or time out.   *)
(*                                                                         *)
(* A sandbox runs on one worker, once.  Its route leads to that worker or  *)
(* nowhere; its record is opened behind the route, is closed once and      *)
(* never opened again; a client is given its id only when it has both.     *)
(* Route and record are taken away only from what has ended, or has been   *)
(* cut off: by a fault, or by a destruction that does not wait for the     *)
(* worker.                                                                 *)
(***************************************************************************)
EXTENDS Naturals, FiniteSets

CONSTANTS Sandbox, Worker, Nowhere, Capacity

VARIABLES
    run,      \* "new", "warming", "live" or "gone"
    on,       \* the worker it runs or ran on
    way,      \* where its route leads
    shown,    \* its record: "none", "running" or "destroyed"
    given,    \* the ids clients have been given
    cut       \* the sandboxes cut off

lifeVars == <<run, on, way, shown, given, cut>>

Running(s)  == run[s] \in {"warming", "live"}
RunningOn(w) == {s \in Sandbox : on[s] = w /\ Running(s)}

(* Nobody needs to reach s any more. *)
Settled(s) == s \in cut \/ ~Running(s)

Init ==
    /\ run = [s \in Sandbox |-> "new"]
    /\ on = [s \in Sandbox |-> Nowhere]
    /\ way = [s \in Sandbox |-> Nowhere]
    /\ shown = [s \in Sandbox |-> "none"]
    /\ given = {}
    /\ cut = {}

(* A worker with a free slot takes a new sandbox. *)
Admit(s, w) ==
    /\ run[s] = "new"
    /\ Cardinality(RunningOn(w)) < Capacity
    /\ run' = [run EXCEPT ![s] = "warming"]
    /\ on' = [on EXCEPT ![s] = w]
    /\ UNCHANGED <<way, shown, given, cut>>

ComeUp(s) ==
    /\ run[s] = "warming"
    /\ run' = [run EXCEPT ![s] = "live"]
    /\ UNCHANGED <<on, way, shown, given, cut>>

(* Sandboxes end, all those of a worker that dies at once. *)
End(S) ==
    /\ \A s \in S : Running(s)
    /\ run' = [s \in Sandbox |-> IF s \in S THEN "gone" ELSE run[s]]
    /\ UNCHANGED <<on, way, shown, given, cut>>

(* The route leads to the worker that has the sandbox. *)
Lead(s) ==
    /\ run[s] # "new"
    /\ way' = [way EXCEPT ![s] = on[s]]
    /\ UNCHANGED <<run, on, shown, given, cut>>

Open(s) ==
    /\ shown[s] = "none"
    /\ run[s] # "new" /\ way[s] = on[s]
    /\ shown' = [shown EXCEPT ![s] = "running"]
    /\ UNCHANGED <<run, on, way, given, cut>>

Give(s) ==
    /\ shown[s] # "none"
    /\ way[s] = on[s] \/ Settled(s)
    /\ given' = given \cup {s}
    /\ UNCHANGED <<run, on, way, shown, cut>>

Close(s) ==
    /\ shown[s] # "none" /\ Settled(s)
    /\ shown' = [shown EXCEPT ![s] = "destroyed"]
    /\ UNCHANGED <<run, on, way, given, cut>>

Drop(s) ==
    /\ Settled(s)
    /\ way' = [way EXCEPT ![s] = Nowhere]
    /\ UNCHANGED <<run, on, shown, given, cut>>

(* The sandbox may end in this, and its route be gone. *)
CutOff(s) ==
    /\ cut' = cut \cup {s}
    /\ \/ UNCHANGED run
       \/ Running(s) /\ run' = [run EXCEPT ![s] = "gone"]
    /\ way' \in {way, [way EXCEPT ![s] = Nowhere]}
    /\ UNCHANGED <<on, shown, given>>

Next ==
    \/ \E s \in Sandbox : \/ \E w \in Worker : Admit(s, w)
                          \/ ComeUp(s) \/ Lead(s) \/ Open(s) \/ Give(s)
                          \/ Close(s) \/ Drop(s) \/ CutOff(s)
    \/ \E S \in SUBSET Sandbox : End(S)

Spec == Init /\ [][Next]_lifeVars
=============================================================================
