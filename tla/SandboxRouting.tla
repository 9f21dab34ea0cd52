--------------------------- MODULE SandboxRouting ---------------------------
(***************************************************************************)
(* Sandboxes as the orchestrators see them: create places one on a worker  *)
(* and stores its route and record, destroy goes through the route to the  *)
(* worker, marks the record and drops the route                            *)
(* (orchestrator/routes/sandboxes.py, admin.py, proxy.py, state.py; the    *)
(* destructions of credential_checker.py).  The workers' pools are those   *)
(* of BoxManager, reduced to what the orchestrator can tell: a sandbox is  *)
(* warming, live or gone.  A handler is suspended at every call to Redis   *)
(* or to a worker; any orchestrator may run it.                            *)
(*                                                                         *)
(* A definition preceded by "Slip:" is its namesake with one plausible     *)
(* mistake and not part of the model.                                      *)
(***************************************************************************)
EXTENDS Naturals, FiniteSets

CONSTANTS
    Sandbox,        \* ids the workers hand out (uuid4), each once
    Worker,
    NoWorker,
    NoSandbox,
    Creator,        \* bound: POST /sandboxes handlers at once
    Destroyer,      \* bound: destructions at once
    Capacity,       \* AGENTBOX_MAX_SANDBOXES of every worker
    Kinds,          \* the kinds of destruction in use, of AllKinds
    FaultKinds,     \* which faults happen, of AllFaults
    MaxFaults       \* bound: how many of them

AllKinds == {"user",     \* DELETE /sandboxes/{id}, and the admin's
             "bulk",     \* POST /admin/sandboxes/bulk-destroy
             "grace",    \* credential checker, within the grace period
             "expired"}  \* credential checker, past the expiry

AllFaults == {"timeout",   \* a call to a worker times out
              "abort",     \* a handler dies: Redis raises, or its process ends
              "crash",     \* a worker dies
              "lapse",     \* the registration of a running worker expires
              "oldroute"}  \* the route's TTL of an hour is over

ASSUME ConstantsAssumption ==
    /\ NoWorker \notin Worker
    /\ NoSandbox \notin Sandbox
    /\ Capacity \in Nat
    /\ Kinds \subseteq AllKinds
    /\ FaultKinds \subseteq AllFaults
    /\ MaxFaults \in Nat

VARIABLES
    box,        \* the sandbox on its worker
    home,       \* the worker it was created on
    up,         \* the running workers
    listed,     \* the workers in the registry
    reported,   \* active_sandboxes in the registry
    route,      \* agentbox:route:{sandbox_id}
    record,     \* state of agentbox:sandbox:{sandbox_id}
    indexed,    \* agentbox:sandboxes:index
    returned,   \* ids a client has been given
    creator,    \* Creator -> [pc, worker, box]
    destroyer,  \* Destroyer -> [pc, kind, box, worker]
    loose,      \* sandboxes given up without a word from their worker
    faults      \* faults so far

workerVars == <<box, home, up>>
registry   == <<listed, reported>>
redisVars  == <<registry, route, record, indexed>>
faultVars  == <<loose, faults>>
vars == <<workerVars, redisVars, returned, creator, destroyer, faultVars>>

NoCreate  == [pc |-> "idle", worker |-> NoWorker, box |-> NoSandbox]
NoDestroy == [pc |-> "idle", kind |-> "user", box |-> NoSandbox,
              worker |-> NoWorker]

TypeOK ==
    /\ box \in [Sandbox -> {"new", "warming", "live", "gone"}]
    /\ home \in [Sandbox -> Worker \cup {NoWorker}]
    /\ up \subseteq Worker
    /\ listed \subseteq Worker
    /\ reported \in [Worker -> 0..Capacity]
    /\ route \in [Sandbox -> Worker \cup {NoWorker}]
    /\ record \in [Sandbox -> {"none", "running", "destroyed"}]
    /\ indexed \subseteq Sandbox
    /\ returned \subseteq Sandbox
    /\ creator \in [Creator -> [pc : {"idle", "post", "wait", "route", "record",
                                      "index", "return"},
                                worker : Worker \cup {NoWorker},
                                box : Sandbox \cup {NoSandbox}]]
    /\ destroyer \in [Destroyer -> [pc : {"idle", "route", "worker", "send",
                                          "mark", "unroute"},
                                    kind : AllKinds,
                                    box : Sandbox \cup {NoSandbox},
                                    worker : Worker \cup {NoWorker}]]
    /\ loose \subseteq Sandbox
    /\ faults \in 0..MaxFaults

Init ==
    /\ box = [s \in Sandbox |-> "new"]
    /\ home = [s \in Sandbox |-> NoWorker]
    /\ up = Worker
    /\ listed = Worker
    /\ reported = [w \in Worker |-> 0]
    /\ route = [s \in Sandbox |-> NoWorker]
    /\ record = [s \in Sandbox |-> "none"]
    /\ indexed = {}
    /\ returned = {}
    /\ creator = [c \in Creator |-> NoCreate]
    /\ destroyer = [d \in Destroyer |-> NoDestroy]
    /\ loose = {}
    /\ faults = 0

Fault(kind) ==
    /\ kind \in FaultKinds
    /\ faults < MaxFaults
    /\ faults' = faults + 1

-----------------------------------------------------------------------------
(* The workers. *)

Held(w) == {s \in Sandbox : home[s] = w /\ box[s] \in {"warming", "live"}}

(* box.start() has returned: the 201 is on its way to whoever waits. *)
Ready(s) ==
    /\ box[s] = "warming"
    /\ box' = [box EXCEPT ![s] = "live"]
    /\ creator' = [c \in Creator |->
                     IF creator[c].pc = "wait" /\ creator[c].box = s
                     THEN [creator[c] EXCEPT !.pc = "route"] ELSE creator[c]]
    /\ UNCHANGED <<home, up, redisVars, returned, destroyer, faultVars>>

(* box.start() has raised: the creation fails. *)
StartFails(s) ==
    /\ box[s] = "warming"
    /\ box' = [box EXCEPT ![s] = "gone"]
    /\ creator' = [c \in Creator |->
                     IF creator[c].pc = "wait" /\ creator[c].box = s
                     THEN NoCreate ELSE creator[c]]
    /\ UNCHANGED <<home, up, redisVars, returned, destroyer, faultVars>>

(* The worker's own reaper, idle or too old; nobody is told. *)
Reaped(s) ==
    /\ box[s] = "live"
    /\ box' = [box EXCEPT ![s] = "gone"]
    /\ UNCHANGED <<home, up, redisVars, returned, creator, destroyer,
                   faultVars>>

Crash(w) ==
    /\ w \in up
    /\ Fault("crash")
    /\ up' = up \ {w}
    /\ box' = [s \in Sandbox |-> IF s \in Held(w) THEN "gone" ELSE box[s]]
    /\ creator' = [c \in Creator |->
                     IF creator[c].pc = "wait" /\ creator[c].worker = w
                     THEN NoCreate ELSE creator[c]]
    /\ UNCHANGED <<home, redisVars, returned, destroyer, loose>>

(* A worker comes (back) and registers, or re-registers. *)
Register(w) ==
    /\ w \notin listed \/ w \notin up
    /\ up' = up \cup {w}
    /\ listed' = listed \cup {w}
    /\ reported' = [reported EXCEPT ![w] = Cardinality(Held(w))]
    /\ UNCHANGED <<box, home, route, record, indexed, returned, creator,
                   destroyer, faultVars>>

Heartbeat(w) ==
    /\ w \in up /\ w \in listed
    /\ reported' = [reported EXCEPT ![w] = Cardinality(Held(w))]
    /\ UNCHANGED <<workerVars, listed, route, record, indexed, returned,
                   creator, destroyer, faultVars>>

RegistryDrops(w) ==
    /\ w \in listed
    /\ IF w \in up THEN Fault("lapse") ELSE UNCHANGED faults
    /\ listed' = listed \ {w}
    /\ UNCHANGED <<workerVars, reported, route, record, indexed, returned,
                   creator, destroyer, loose>>

(* An hour after the creation, which is long over. *)
RouteExpires(s) ==
    /\ route[s] # NoWorker
    /\ \A c \in Creator : creator[c].box # s
    /\ Fault("oldroute")
    /\ route' = [route EXCEPT ![s] = NoWorker]
    /\ loose' = loose \cup {s}
    /\ UNCHANGED <<workerVars, registry, record, indexed, returned, creator,
                   destroyer>>

-----------------------------------------------------------------------------
(* POST /sandboxes. *)

(* pick_worker: the most available slots by the last reports, be it none   *)
(* (docs/operations/scaling.md:31 says "a worker with capacity").          *)
Pick(c) ==
    /\ creator[c].pc = "idle"
    /\ \E w \in listed :
         /\ \A v \in listed : reported[w] <= reported[v]
         /\ creator' = [creator EXCEPT ![c] =
                          [pc |-> "post", worker |-> w, box |-> NoSandbox]]
    /\ UNCHANGED <<workerVars, redisVars, returned, destroyer, faultVars>>

(* The worker registers a new sandbox, or refuses (503). *)
Post(c) ==
    /\ creator[c].pc = "post"
    /\ LET w == creator[c].worker IN
       \/ /\ w \in up
          /\ Cardinality(Held(w)) < Capacity
          /\ \E s \in Sandbox :
               /\ box[s] = "new"
               /\ box' = [box EXCEPT ![s] = "warming"]
               /\ home' = [home EXCEPT ![s] = w]
               /\ creator' = [creator EXCEPT ![c].pc = "wait", ![c].box = s]
       \/ /\ w \notin up \/ Cardinality(Held(w)) >= Capacity
          /\ creator' = [creator EXCEPT ![c] = NoCreate]
          /\ UNCHANGED <<box, home>>
    /\ UNCHANGED <<up, redisVars, returned, destroyer, faultVars>>

(* The client's timeout of 120 s: a 502, and the worker goes on. *)
PostTimesOut(c) ==
    /\ creator[c].pc = "wait"
    /\ Fault("timeout")
    /\ creator' = [creator EXCEPT ![c] = NoCreate]
    /\ UNCHANGED <<workerVars, redisVars, returned, destroyer, loose>>

CreatorGoes(c, pc) == creator' = [creator EXCEPT ![c].pc = pc]

(* Slip: the client has the id while the record is still being written. *)
SetRoute_Returned(c) ==
    /\ creator[c].pc = "route"
    /\ route' = [route EXCEPT ![creator[c].box] = creator[c].worker]
    /\ returned' = returned \cup {creator[c].box}
    /\ CreatorGoes(c, "record")
    /\ UNCHANGED <<workerVars, registry, record, indexed, destroyer,
                   faultVars>>

SetRoute(c) ==
    /\ creator[c].pc = "route"
    /\ route' = [route EXCEPT ![creator[c].box] = creator[c].worker]
    /\ CreatorGoes(c, "record")
    /\ UNCHANGED <<workerVars, registry, record, indexed, returned,
                   destroyer, faultVars>>

CreateRecord(c) ==
    /\ creator[c].pc = "record"
    /\ record' = [record EXCEPT ![creator[c].box] = "running"]
    /\ CreatorGoes(c, "index")
    /\ UNCHANGED <<workerVars, registry, route, indexed, returned, destroyer,
                   faultVars>>

IndexRecord(c) ==
    /\ creator[c].pc = "index"
    /\ indexed' = indexed \cup {creator[c].box}
    /\ CreatorGoes(c, "return")
    /\ UNCHANGED <<workerVars, registry, route, record, returned, destroyer,
                   faultVars>>

Return(c) ==
    /\ creator[c].pc = "return"
    /\ returned' = returned \cup {creator[c].box}
    /\ creator' = [creator EXCEPT ![c] = NoCreate]
    /\ UNCHANGED <<workerVars, redisVars, destroyer, faultVars>>

CreateStep(c) == \/ Post(c) \/ SetRoute(c) \/ CreateRecord(c)
                 \/ IndexRecord(c) \/ Return(c)

-----------------------------------------------------------------------------
(* Destructions. *)

(* Whom each kind can name: a client an id it was given, the admin's       *)
(* filter and the checker a record that is listed as running.              *)
Target(kind) == IF kind = "user" THEN returned
                ELSE {s \in indexed : record[s] = "running"}

(* The checker does not ask the worker once the credentials have expired.  *)
Ask(d) ==
    /\ destroyer[d].pc = "idle"
    /\ \E kind \in Kinds : \E s \in Target(kind) :
         /\ destroyer' = [destroyer EXCEPT ![d] =
                            [pc |-> IF kind = "expired" THEN "mark" ELSE "route",
                             kind |-> kind, box |-> s, worker |-> NoWorker]]
         /\ loose' = IF kind = "expired" THEN loose \cup {s} ELSE loose
    /\ UNCHANGED <<workerVars, redisVars, returned, creator, faults>>

DestroyerGoes(d, pc) == destroyer' = [destroyer EXCEPT ![d].pc = pc]

(* Slip: a worker that cannot be reached counts as one without it. *)
ProxyFails_Any(d) == DestroyerGoes(d, "mark") /\ UNCHANGED loose

(* The proxied DELETE raises with a status other than 404: a DELETE of one *)
(* sandbox is given up, the others go on ("Worker may be gone").           *)
ProxyFails(d) ==
    IF destroyer[d].kind = "user"
    THEN destroyer' = [destroyer EXCEPT ![d] = NoDestroy] /\ UNCHANGED loose
    ELSE DestroyerGoes(d, "mark") /\ loose' = loose \cup {destroyer[d].box}

(* Slip: the route goes before the worker is asked. *)
LookUp_AndUnroute(d) ==
    /\ destroyer[d].pc = "route"
    /\ LET w == route[destroyer[d].box] IN
       destroyer' = [destroyer EXCEPT
                       ![d].worker = w,
                       ![d].pc = IF w = NoWorker THEN "mark" ELSE "worker"]
    /\ route' = [route EXCEPT ![destroyer[d].box] = NoWorker]
    /\ UNCHANGED <<workerVars, registry, record, indexed, returned, creator,
                   faultVars>>

(* get_route; no route is a 404, which goes on for every kind. *)
LookUp(d) ==
    /\ destroyer[d].pc = "route"
    /\ LET w == route[destroyer[d].box] IN
       destroyer' = [destroyer EXCEPT
                       ![d].worker = w,
                       ![d].pc = IF w = NoWorker THEN "mark" ELSE "worker"]
    /\ UNCHANGED <<workerVars, redisVars, returned, creator, faultVars>>

(* get_worker; one that is not registered is a 502. *)
FindWorker(d) ==
    /\ destroyer[d].pc = "worker"
    /\ IF destroyer[d].worker \in listed
       THEN DestroyerGoes(d, "send") /\ UNCHANGED loose
       ELSE ProxyFails(d)
    /\ UNCHANGED <<workerVars, redisVars, returned, creator, faults>>

(* The worker pops the sandbox, or has none of this id: a 404. *)
Send(d) ==
    /\ destroyer[d].pc = "send"
    /\ LET s == destroyer[d].box IN
       \/ /\ destroyer[d].worker \in up
          /\ box' = [box EXCEPT ![s] =
                       IF s \in Held(destroyer[d].worker) THEN "gone" ELSE @]
          /\ DestroyerGoes(d, "mark")
          /\ UNCHANGED loose
       \/ /\ destroyer[d].worker \notin up
          /\ ProxyFails(d)
          /\ UNCHANGED box
    /\ UNCHANGED <<home, up, redisVars, returned, creator, faults>>

(* The timeout of 60 s (30 s): the worker may have popped it or not. *)
SendTimesOut(d) ==
    /\ destroyer[d].pc = "send"
    /\ Fault("timeout")
    /\ ProxyFails(d)
    /\ LET s == destroyer[d].box IN
       \/ /\ s \in Held(destroyer[d].worker)
          /\ box' = [box EXCEPT ![s] = "gone"]
       \/ UNCHANGED box
    /\ UNCHANGED <<home, up, redisVars, returned, creator>>

(* update_sandbox_state(id, "destroyed"). *)
Mark(d) ==
    /\ destroyer[d].pc = "mark"
    /\ record' = [record EXCEPT ![destroyer[d].box] = "destroyed"]
    /\ DestroyerGoes(d, "unroute")
    /\ UNCHANGED <<workerVars, registry, route, indexed, returned, creator,
                   faultVars>>

Unroute(d) ==
    /\ destroyer[d].pc = "unroute"
    /\ route' = [route EXCEPT ![destroyer[d].box] = NoWorker]
    /\ destroyer' = [destroyer EXCEPT ![d] = NoDestroy]
    /\ UNCHANGED <<workerVars, registry, record, indexed, returned, creator,
                   faultVars>>

DestroyStep(d) == LookUp(d) \/ FindWorker(d) \/ Send(d) \/ Mark(d) \/ Unroute(d)

(* A handler of an orchestrator ends where it is. *)
Abort ==
    /\ Fault("abort")
    /\ \/ \E c \in Creator :
            /\ creator[c].pc # "idle"
            /\ creator' = [creator EXCEPT ![c] = NoCreate]
            /\ UNCHANGED destroyer
       \/ \E d \in Destroyer :
            /\ destroyer[d].pc # "idle"
            /\ destroyer' = [destroyer EXCEPT ![d] = NoDestroy]
            /\ UNCHANGED creator
    /\ UNCHANGED <<workerVars, redisVars, returned, loose>>

-----------------------------------------------------------------------------
Next ==
    \/ \E s \in Sandbox : Ready(s) \/ StartFails(s) \/ Reaped(s) \/ RouteExpires(s)
    \/ \E w \in Worker : \/ Crash(w) \/ Register(w)
                         \/ Heartbeat(w) \/ RegistryDrops(w)
    \/ \E c \in Creator : Pick(c) \/ PostTimesOut(c) \/ CreateStep(c)
    \/ \E d \in Destroyer : Ask(d) \/ SendTimesOut(d) \/ DestroyStep(d)
    \/ Abort

Spec == Init /\ [][Next]_vars

-----------------------------------------------------------------------------
(* Invariants. *)

(* The only sandboxes that run although they are recorded as destroyed are *)
(* those given up in one of these ways, or whose route had expired.  In    *)
(* particular a DELETE of one sandbox never leaves one, whatever times out *)
(* or dies meanwhile: it marks the record once the worker has answered.    *)
OnlyLooseRunOn ==
    \A s \in Sandbox \ loose :
        record[s] = "destroyed" => box[s] \notin {"warming", "live"}

(* A sandbox a client was given can be reached as long as it runs, unless  *)
(* it was given up: its route is there before the id is and goes only      *)
(* after the worker has popped it.  (docs/operations/scaling.md:42 gives   *)
(* the route the TTL "Sandbox lifetime"; it is an hour from the creation.) *)
ReturnedIsReachable ==
    \A s \in returned \ loose : box[s] = "live" => route[s] = home[s]

-----------------------------------------------------------------------------
(* Action properties. *)

(* A destroyed sandbox never shows as running again: a late write of its   *)
(* creation cannot overtake its destruction.                               *)
NoResurrection ==
    [][\A s \in Sandbox : record[s] = "destroyed" => record'[s] = "destroyed"]_vars

-----------------------------------------------------------------------------
(* What holds of every reachable state, and follows from itself.           *)

(* A sandbox its worker has not handed out is known nowhere; no worker     *)
(* runs more than it may.                                                  *)
BoxesFit ==
    /\ \A s \in Sandbox :
         /\ box[s] = "new" => /\ home[s] = NoWorker /\ route[s] = NoWorker
                             /\ s \notin indexed
                             /\ \A c \in Creator : creator[c].box # s
         /\ box[s] # "new" => home[s] \in Worker
    /\ \A w \in Worker : IsFiniteSet(Held(w)) /\ Cardinality(Held(w)) <= Capacity

(* A creation has its sandbox to itself, on the worker it picked, and the  *)
(* index names it only once the route and the record are written.          *)
CreatorsFit ==
    \A c \in Creator :
        /\ creator[c].pc # "idle" => creator[c].worker \in Worker
        /\ creator[c].pc \in {"wait", "route", "record", "index", "return"} =>
             /\ creator[c].box \in Sandbox
             /\ home[creator[c].box] = creator[c].worker
        /\ creator[c].pc \in {"wait", "route", "record", "index"} =>
             creator[c].box \notin indexed
        /\ creator[c].pc \in {"record", "index"} =>
             route[creator[c].box] = creator[c].worker
        /\ creator[c].pc = "return" => creator[c].box \in indexed
        /\ \A d \in Creator :
             creator[c].box = creator[d].box /\ creator[c].box # NoSandbox => c = d

Runs(s) == box[s] \in {"warming", "live"}

(* A destruction knows its sandbox from the index or a client; it asks the *)
(* sandbox's own worker, and marks what does not run any more.             *)
DestroyersFit ==
    \A d \in Destroyer : destroyer[d].pc # "idle" =>
        /\ destroyer[d].box \in indexed
        /\ destroyer[d].box \notin loose /\ Runs(destroyer[d].box) =>
             \/ destroyer[d].pc = "route"
             \/ /\ destroyer[d].pc \in {"worker", "send"}
                /\ destroyer[d].worker = home[destroyer[d].box]

(* What is recorded as destroyed was indexed, what a client was given too; *)
(* and as long as an indexed sandbox runs its route leads to it.           *)
RecordsFit ==
    /\ returned \subseteq indexed
    /\ \A s \in Sandbox :
         /\ record[s] = "destroyed" => s \in indexed
         /\ s \notin loose /\ Runs(s) /\ s \in indexed =>
              record[s] # "destroyed" /\ route[s] = home[s]

(* The inductive invariant. *)
IInv == TypeOK /\ BoxesFit /\ CreatorsFit /\ DestroyersFit /\ RecordsFit

(* What has been indexed, or is about to be, has a record. *)
IndexedIsRecorded ==
    /\ \A s \in indexed : record[s] # "none"
    /\ \A c \in Creator : creator[c].pc = "index" => record[creator[c].box] # "none"

-----------------------------------------------------------------------------
(* The sandboxes seen as SandboxLife sees them. *)
Life == INSTANCE SandboxLife WITH
    Nowhere <- NoWorker, run <- box, on <- home, way <- route, shown <- record,
    given <- returned, cut <- loose

(* However create_sandbox, the destructions and the faults overlap, the    *)
(* sandboxes keep to the life that SandboxLife describes; in particular    *)
(* NoResurrection, and no client has an id that has no record yet.         *)
ImplementsLife == Life!Spec
=============================================================================
