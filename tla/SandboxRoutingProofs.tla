------------------------- MODULE SandboxRoutingProofs -------------------------
(***************************************************************************)
(* IInv of SandboxRouting is an inductive invariant, for every number of   *)
(* sandboxes, workers, creations, destructions and faults of every kind.   *)
(* From it: a sandbox recorded as destroyed does not run unless it was     *)
(* given up, a sandbox that a client knows is reachable while it runs, and *)
(* no record returns from the destroyed ones; and SandboxRouting           *)
(* implements SandboxLife.                                                 *)
(***************************************************************************)
EXTENDS SandboxRouting, FiniteSetTheorems, TLAPS

USE ConstantsAssumption

CreatorState ==
    [pc : {"idle", "post", "wait", "route", "record", "index", "return"},
     worker : Worker \cup {NoWorker}, box : Sandbox \cup {NoSandbox}]

DestroyerState ==
    [pc : {"idle", "route", "worker", "send", "mark", "unroute"},
     kind : AllKinds, box : Sandbox \cup {NoSandbox},
     worker : Worker \cup {NoWorker}]

(* Creation c becomes r, the others stay as they are. *)
Becomes(c, r) ==
    /\ r \in CreatorState
    /\ creator' \in [Creator -> CreatorState]
    /\ creator'[c] = r
    /\ \A x \in Creator : x # c => creator'[x] = creator[x]

(* Destruction d becomes r, the others stay as they are. *)
Turns(d, r) ==
    /\ r \in DestroyerState
    /\ destroyer' \in [Destroyer -> DestroyerState]
    /\ destroyer'[d] = r
    /\ \A x \in Destroyer : x # d => destroyer'[x] = destroyer[x]

LEMMA CreatorBecomes ==
    ASSUME TypeOK, NEW c \in Creator, NEW r \in CreatorState,
           creator' = [creator EXCEPT ![c] = r]
    PROVE  Becomes(c, r)
BY DEF Becomes, TypeOK, CreatorState

LEMMA DestroyerTurns ==
    ASSUME TypeOK, NEW d \in Destroyer, NEW r \in DestroyerState,
           destroyer' = [destroyer EXCEPT ![d] = r]
    PROVE  Turns(d, r)
BY DEF Turns, TypeOK, DestroyerState

LEMMA IdleTypes == NoCreate \in CreatorState /\ NoDestroy \in DestroyerState
BY DEF NoCreate, NoDestroy, CreatorState, DestroyerState, AllKinds

(* What CreatorsFit says of one creation that is r, and of two of them.    *)
CreatorFits(r) ==
    /\ r.pc # "idle" => r.worker \in Worker
    /\ r.pc \in {"wait", "route", "record", "index", "return"} =>
         r.box \in Sandbox /\ home[r.box] = r.worker
    /\ r.pc \in {"wait", "route", "record", "index"} => r.box \notin indexed
    /\ r.pc \in {"record", "index"} => route[r.box] = r.worker
    /\ r.pc = "return" => r.box \in indexed

LEMMA CreatorsFitParts ==
    CreatorsFit <=>
        /\ \A c \in Creator : CreatorFits(creator[c])
        /\ \A c, d \in Creator :
             creator[c].box = creator[d].box /\ creator[c].box # NoSandbox => c = d
BY DEF CreatorsFit, CreatorFits

(* A worker that is given no sandbox does not hold more than before. *)
LEMMA HeldStays ==
    ASSUME BoxesFit, UNCHANGED home, \A s \in Sandbox : Runs(s)' => Runs(s)
    PROVE  \A w \in Worker : IsFiniteSet(Held(w)') /\ Cardinality(Held(w)') <= Capacity
<1> SUFFICES ASSUME NEW w \in Worker
             PROVE  IsFiniteSet(Held(w)') /\ Cardinality(Held(w)') <= Capacity
  OBVIOUS
<1>1. Held(w)' \subseteq Held(w)
  BY DEF Held, Runs
<1>2. IsFiniteSet(Held(w)) /\ Cardinality(Held(w)) <= Capacity
  BY DEF BoxesFit
<1>3. /\ IsFiniteSet(Held(w)') /\ Cardinality(Held(w)') <= Cardinality(Held(w))
      /\ Cardinality(Held(w)) \in Nat /\ Cardinality(Held(w)') \in Nat
  BY <1>1, <1>2, FS_Subset, FS_CardinalityType
<1> QED
  BY <1>2, <1>3

-----------------------------------------------------------------------------
(* What a step does that moves only creations: it leaves the sandboxes and *)
(* the Redis keys alone, and every creation goes on as it is, is given up, *)
(* picks a worker or hears that its sandbox is ready.                      *)

GoesOn(c) ==
    \/ creator'[c] = creator[c]
    \/ creator'[c] = NoCreate
    \/ /\ creator'[c].pc = "post" /\ creator'[c].box = NoSandbox
       /\ creator'[c].worker \in Worker
    \/ /\ creator[c].pc = "wait" /\ creator'[c].pc = "route"
       /\ creator'[c].box = creator[c].box /\ creator'[c].worker = creator[c].worker

LEMMA CreatorsGoOn ==
    ASSUME IInv, creator' \in [Creator -> CreatorState],
           \A c \in Creator : GoesOn(c),
           UNCHANGED <<home, route, record, indexed, returned, destroyer, loose>>,
           box' \in [Sandbox -> {"new", "warming", "live", "gone"}],
           \A s \in Sandbox : (box'[s] = "new" <=> box[s] = "new") /\ (Runs(s)' => Runs(s))
    PROVE  BoxesFit' /\ CreatorsFit' /\ DestroyersFit' /\ RecordsFit'
<1>1. BoxesFit'
  <2>1. \A w \in Worker : IsFiniteSet(Held(w)') /\ Cardinality(Held(w)') <= Capacity
    BY HeldStays DEF IInv
  <2>2. \A s \in Sandbox : \A c \in Creator : creator'[c].box = s => creator[c].box = s
    BY DEF GoesOn, NoCreate
  <2> QED
    BY <2>1, <2>2 DEF IInv, BoxesFit
<1>2. CreatorsFit'
  <2> SUFFICES ASSUME NEW c \in Creator PROVE
        /\ creator'[c].pc # "idle" => creator'[c].worker \in Worker
        /\ creator'[c].pc \in {"wait", "route", "record", "index", "return"} =>
             /\ creator'[c].box \in Sandbox
             /\ home'[creator'[c].box] = creator'[c].worker
        /\ creator'[c].pc \in {"wait", "route", "record", "index"} =>
             creator'[c].box \notin indexed'
        /\ creator'[c].pc \in {"record", "index"} =>
             route'[creator'[c].box] = creator'[c].worker
        /\ creator'[c].pc = "return" => creator'[c].box \in indexed'
        /\ \A d \in Creator :
             creator'[c].box = creator'[d].box /\ creator'[c].box # NoSandbox => c = d
    BY DEF CreatorsFit
  <2>1. \A x \in Creator : creator'[x].box = NoSandbox \/ creator'[x].box = creator[x].box
    BY DEF GoesOn, NoCreate
  <2>2. GoesOn(c)
    OBVIOUS
  <2> QED
    BY <2>1, <2>2 DEF IInv, CreatorsFit, GoesOn, NoCreate
<1>3. DestroyersFit'
  BY DEF IInv, DestroyersFit, TypeOK
<1>4. RecordsFit'
  BY DEF IInv, RecordsFit
<1> QED
  BY <1>1, <1>2, <1>3, <1>4

(* The steps of a worker. *)
LEMMA WorkersIInv ==
    ASSUME IInv, NEW s \in Sandbox, Ready(s) \/ StartFails(s) \/ Reaped(s) PROVE IInv'
<1>0. TypeOK /\ creator \in [Creator -> CreatorState]
  BY DEF IInv, TypeOK, CreatorState
<1>1. PICK v \in {"live", "gone"} :
        /\ box' = [box EXCEPT ![s] = v] /\ Runs(s)
        /\ UNCHANGED <<home, up, redisVars, returned, destroyer, faultVars>>
  BY DEF Ready, StartFails, Reaped, Runs
<1>2. \A c \in Creator : [creator[c] EXCEPT !.pc = "route"] \in CreatorState
  BY <1>0 DEF CreatorState
<1>3. \A c \in Creator : creator'[c] \in CreatorState /\ GoesOn(c)
  <2> SUFFICES ASSUME NEW c \in Creator PROVE creator'[c] \in CreatorState /\ GoesOn(c)
    OBVIOUS
  <2>1. CASE Ready(s)
    <3> DEFINE r == [creator[c] EXCEPT !.pc = "route"]
    <3>1. r \in CreatorState /\ r.pc = "route" /\ r.box = creator[c].box
          /\ r.worker = creator[c].worker
      BY <1>0 DEF CreatorState
    <3>2. creator'[c] = IF creator[c].pc = "wait" /\ creator[c].box = s THEN r ELSE creator[c]
      BY <2>1 DEF Ready
    <3> HIDE DEF r
    <3> QED
      BY <1>0, <3>1, <3>2 DEF GoesOn
  <2>2. CASE StartFails(s) \/ Reaped(s)
    BY <1>0, <2>2, IdleTypes DEF StartFails, Reaped, GoesOn
  <2> QED
    BY <2>1, <2>2
<1>4. creator' \in [Creator -> CreatorState]
  <2>1. creator' = [c \in Creator |-> creator'[c]]
    BY <1>0 DEF Ready, StartFails, Reaped
  <2> QED
    BY <1>3, <2>1
<1>5. /\ box' \in [Sandbox -> {"new", "warming", "live", "gone"}]
      /\ \A x \in Sandbox : (box'[x] = "new" <=> box[x] = "new") /\ (Runs(x)' => Runs(x))
  BY <1>0, <1>1 DEF TypeOK, Runs
<1>6. TypeOK'
  BY <1>0, <1>1, <1>4, <1>5 DEF TypeOK, CreatorState, redisVars, registry, faultVars
<1> QED
  BY <1>1, <1>3, <1>4, <1>5, <1>6, CreatorsGoOn DEF IInv, redisVars, faultVars

LEMMA CrashIInv ==
    ASSUME IInv, NEW w \in Worker, Crash(w) PROVE IInv'
<1>0. TypeOK /\ creator \in [Creator -> CreatorState]
  BY DEF IInv, TypeOK, CreatorState
<1>1. creator' \in [Creator -> CreatorState] /\ \A c \in Creator : GoesOn(c)
  BY <1>0, IdleTypes DEF Crash, GoesOn
<1>2. /\ box' \in [Sandbox -> {"new", "warming", "live", "gone"}]
      /\ \A x \in Sandbox : (box'[x] = "new" <=> box[x] = "new") /\ (Runs(x)' => Runs(x))
  BY <1>0 DEF TypeOK, Runs, Crash, Held
<1>3. TypeOK'
  BY <1>0, <1>1, <1>2 DEF TypeOK, CreatorState, redisVars, registry, Crash, Fault
<1> QED
  BY <1>1, <1>2, <1>3, CreatorsGoOn DEF IInv, redisVars, Crash

LEMMA RegistryIInv ==
    ASSUME IInv, NEW w \in Worker, Register(w) \/ Heartbeat(w) \/ RegistryDrops(w)
    PROVE  IInv'
<1>0. TypeOK /\ creator \in [Creator -> CreatorState]
  BY DEF IInv, TypeOK, CreatorState
<1>1. /\ UNCHANGED <<box, home, route, record, indexed, returned, creator, destroyer, loose>>
      /\ up' \subseteq Worker /\ listed' \subseteq Worker
  BY <1>0 DEF Register, Heartbeat, RegistryDrops, workerVars, faultVars, TypeOK
<1>2. Cardinality(Held(w)) \in 0..Capacity
  BY FS_CardinalityType DEF IInv, BoxesFit
<1>3. reported' \in [Worker -> 0..Capacity] /\ faults' \in 0..MaxFaults
  BY <1>0, <1>2 DEF Register, Heartbeat, RegistryDrops, Fault, TypeOK, faultVars
<1>4. TypeOK'
  BY <1>0, <1>1, <1>3 DEF TypeOK
<1> QED
  BY <1>0, <1>1, <1>4, CreatorsGoOn DEF IInv, GoesOn, Runs, TypeOK

LEMMA PickIInv ==
    ASSUME IInv, NEW c \in Creator, Pick(c) PROVE IInv'
<1>0. TypeOK
  BY DEF IInv
<1>1. PICK w \in Worker :
        creator' = [creator EXCEPT ![c] = [pc |-> "post", worker |-> w, box |-> NoSandbox]]
  BY <1>0 DEF Pick, TypeOK
<1> DEFINE r == [pc |-> "post", worker |-> w, box |-> NoSandbox]
<1>2. Becomes(c, r)
  BY <1>0, <1>1, CreatorBecomes DEF CreatorState
<1>3. \A x \in Creator : GoesOn(x)
  BY <1>2 DEF Becomes, GoesOn
<1>4. TypeOK'
  BY <1>0, <1>2 DEF Pick, Becomes, TypeOK, CreatorState, workerVars, redisVars, registry, faultVars
<1> QED
  BY <1>0, <1>2, <1>3, <1>4, CreatorsGoOn
     DEF IInv, Becomes, Pick, Runs, TypeOK, workerVars, redisVars, faultVars

(* A creation that is given up, by a timeout or with its orchestrator. *)
LEMMA GivenUpIInv ==
    ASSUME IInv, NEW c \in Creator, creator' = [creator EXCEPT ![c] = NoCreate],
           UNCHANGED <<workerVars, redisVars, returned, destroyer, loose>>,
           faults' \in 0..MaxFaults
    PROVE  IInv'
<1>0. TypeOK
  BY DEF IInv
<1>1. Becomes(c, NoCreate)
  BY <1>0, IdleTypes, CreatorBecomes
<1>2. \A x \in Creator : GoesOn(x)
  BY <1>1 DEF Becomes, GoesOn
<1>3. TypeOK'
  BY <1>0, <1>1 DEF Becomes, TypeOK, CreatorState, workerVars, redisVars, registry
<1> QED
  BY <1>0, <1>1, <1>2, <1>3, CreatorsGoOn
     DEF IInv, Becomes, Runs, TypeOK, workerVars, redisVars

-----------------------------------------------------------------------------
(* Steps of a creation that write something. *)

(* The record of c keeps its sandbox and its worker. *)
LEMMA GoesBecomes ==
    ASSUME TypeOK, NEW c \in Creator,
           NEW pc \in {"idle", "post", "wait", "route", "record", "index", "return"},
           CreatorGoes(c, pc)
    PROVE  \E r \in CreatorState : /\ Becomes(c, r)
                                   /\ r.pc = pc /\ r.box = creator[c].box
                                   /\ r.worker = creator[c].worker
<1> DEFINE r == [creator[c] EXCEPT !.pc = pc]
<1>1. /\ r \in CreatorState /\ r.pc = pc
      /\ r.box = creator[c].box /\ r.worker = creator[c].worker
  BY DEF TypeOK, CreatorState
<1>2. creator' = [creator EXCEPT ![c] = r]
  BY DEF CreatorGoes
<1> HIDE DEF r
<1> QED
  BY <1>1, <1>2, CreatorBecomes

LEMMA PostIInv ==
    ASSUME IInv, NEW c \in Creator, Post(c) PROVE IInv'
<1>0. TypeOK
  BY DEF IInv
<1>1. CASE creator' = [creator EXCEPT ![c] = NoCreate] /\ UNCHANGED <<box, home>>
  BY <1>0, <1>1, GivenUpIInv DEF Post, TypeOK, workerVars, faultVars
<1>2. ASSUME creator[c].worker \in up,
             Cardinality(Held(creator[c].worker)) < Capacity,
             NEW s \in Sandbox, box[s] = "new",
             box' = [box EXCEPT ![s] = "warming"],
             home' = [home EXCEPT ![s] = creator[c].worker],
             creator' = [creator EXCEPT ![c].pc = "wait", ![c].box = s]
      PROVE  IInv'
  <2> DEFINE w == creator[c].worker
             r == [creator[c] EXCEPT !.pc = "wait", !.box = s]
  <2>1. /\ r \in CreatorState
        /\ r.pc = "wait" /\ r.box = s /\ r.worker = w /\ w \in Worker
    BY <1>0, <1>2 DEF TypeOK, CreatorState
  <2>2. creator' = [creator EXCEPT ![c] = r]
    BY <1>2
  <2> HIDE DEF r
  <2>3. Becomes(c, r)
    BY <1>0, <2>1, <2>2, CreatorBecomes
  <2>4. UNCHANGED <<up, listed, reported, route, record, indexed, returned,
                    destroyer, loose, faults>>
    BY DEF Post, redisVars, registry, faultVars
  <2>5. /\ \A x \in Sandbox : box'[x] = IF x = s THEN "warming" ELSE box[x]
        /\ \A x \in Sandbox : home'[x] = IF x = s THEN w ELSE home[x]
        /\ home[s] = NoWorker /\ s \notin indexed
        /\ \A x \in Creator : creator[x].box # s
    BY <1>0, <1>2 DEF TypeOK, IInv, BoxesFit
  <2>6. TypeOK'
    BY <1>0, <1>2, <2>1, <2>3, <2>4 DEF TypeOK, Becomes, CreatorState
  <2>7. BoxesFit'
    <3>1. \A v \in Worker : IsFiniteSet(Held(v)') /\ Cardinality(Held(v)') <= Capacity
      <4> SUFFICES ASSUME NEW v \in Worker
                   PROVE  IsFiniteSet(Held(v)') /\ Cardinality(Held(v)') <= Capacity
        OBVIOUS
      <4>1. IsFiniteSet(Held(v)) /\ Cardinality(Held(v)) <= Capacity
            /\ Cardinality(Held(v)) \in Nat
        BY FS_CardinalityType DEF IInv, BoxesFit
      <4>2. CASE v = w
        <5>1. Held(v)' = Held(v) \cup {s}
          BY <2>5, <4>2 DEF Held
        <5>2. s \notin Held(v)
          BY <1>2 DEF Held
        <5>3. IsFiniteSet(Held(v)') /\ Cardinality(Held(v)') = Cardinality(Held(v)) + 1
          BY <4>1, <5>1, <5>2, FS_AddElement
        <5> QED
          BY <1>2, <4>1, <4>2, <5>3
      <4>3. CASE v # w
        <5>1. Held(v)' = Held(v)
          BY <1>2, <2>5, <4>3 DEF Held
        <5> QED
          BY <4>1, <5>1
      <4> QED
        BY <4>2, <4>3
    <3>2. \A x \in Sandbox :
             /\ box'[x] = "new" => /\ home'[x] = NoWorker /\ route'[x] = NoWorker
                                  /\ x \notin indexed'
                                  /\ \A y \in Creator : creator'[y].box # x
             /\ box'[x] # "new" => home'[x] \in Worker
      BY <2>1, <2>3, <2>4, <2>5 DEF IInv, BoxesFit, Becomes
    <3> QED
      BY <3>1, <3>2 DEF BoxesFit
  <2>8. CreatorsFit'
    <3>1. \A x \in Creator : CreatorFits(creator[x])
      BY CreatorsFitParts DEF IInv
    <3>2. CreatorFits(creator[c])'
      BY <2>1, <2>3, <2>4, <2>5 DEF Becomes, CreatorFits
    <3>3. ASSUME NEW x \in Creator, x # c PROVE CreatorFits(creator[x])'
      BY <2>3, <2>4, <2>5, <3>1, <3>3 DEF Becomes, CreatorFits
    <3>4. \A x, y \in Creator :
             creator'[x].box = creator'[y].box /\ creator'[x].box # NoSandbox => x = y
      BY <2>1, <2>3, <2>5, CreatorsFitParts DEF IInv, Becomes
    <3>5. \A x \in Creator : CreatorFits(creator[x])'
      BY <3>2, <3>3
    <3> QED
      BY <3>4, <3>5 DEF CreatorsFit, CreatorFits
  <2>9. DestroyersFit'
    BY <1>0, <2>4, <2>5 DEF IInv, DestroyersFit, TypeOK, Runs
  <2>10. RecordsFit'
    BY <2>4, <2>5 DEF IInv, RecordsFit, Runs
  <2> QED
    BY <2>6, <2>7, <2>8, <2>9, <2>10 DEF IInv
<1> QED
  BY <1>1, <1>2 DEF Post

LEMMA SetRouteIInv ==
    ASSUME IInv, NEW c \in Creator, SetRoute(c) PROVE IInv'
<1>0. TypeOK /\ creator[c].pc = "route"
  BY DEF IInv, SetRoute
<1>1. PICK r \in CreatorState : /\ Becomes(c, r)
                               /\ r.pc = "record" /\ r.box = creator[c].box
                               /\ r.worker = creator[c].worker
  BY <1>0, GoesBecomes DEF SetRoute
<1>2. /\ r.box \in Sandbox /\ r.worker \in Worker /\ home[r.box] = r.worker
      /\ r.box \notin indexed
      /\ \A x \in Creator : x # c => creator[x].box # r.box
  BY <1>0, <1>1 DEF IInv, CreatorsFit, TypeOK
<1>3. /\ UNCHANGED <<box, home, up, listed, reported, record, indexed, returned,
                     destroyer, loose, faults>>
      /\ route' = [route EXCEPT ![r.box] = r.worker]
  BY <1>1 DEF SetRoute, workerVars, registry, faultVars
<1>4. TypeOK'
  BY <1>0, <1>1, <1>2, <1>3 DEF TypeOK, Becomes, CreatorState
<1>5. BoxesFit'
  <2>1. \A w \in Worker : IsFiniteSet(Held(w)') /\ Cardinality(Held(w)') <= Capacity
    BY <1>3, HeldStays DEF IInv, Runs
  <2>2. box[r.box] # "new"
    BY <1>0, <1>1, <1>2 DEF IInv, BoxesFit
  <2> QED
    BY <1>0, <1>1, <1>2, <1>3, <2>1, <2>2 DEF IInv, BoxesFit, Becomes, TypeOK
<1>6. CreatorsFit'
  <2>1. CreatorFits(creator[c])'
    BY <1>0, <1>1, <1>2, <1>3 DEF Becomes, CreatorFits, TypeOK
  <2>2. ASSUME NEW x \in Creator, x # c PROVE CreatorFits(creator[x])'
    <3>1. creator'[x] = creator[x] /\ creator[x].box # r.box /\ CreatorFits(creator[x])
      BY <1>1, <1>2, <2>2, CreatorsFitParts DEF IInv, Becomes
    <3> QED
      BY <1>0, <1>3, <3>1 DEF CreatorFits, TypeOK
  <2>3. \A x, y \in Creator :
           creator'[x].box = creator'[y].box /\ creator'[x].box # NoSandbox => x = y
    BY <1>1, CreatorsFitParts DEF IInv, Becomes
  <2>4. \A x \in Creator : CreatorFits(creator[x])'
    BY <2>1, <2>2
  <2> QED
    BY <2>3, <2>4 DEF CreatorsFit, CreatorFits
<1>7. DestroyersFit'
  BY <1>3 DEF IInv, DestroyersFit, Runs
<1>8. RecordsFit'
  BY <1>0, <1>2, <1>3 DEF IInv, RecordsFit, Runs, TypeOK
<1> QED
  BY <1>4, <1>5, <1>6, <1>7, <1>8 DEF IInv

LEMMA CreateRecordIInv ==
    ASSUME IInv, NEW c \in Creator, CreateRecord(c) PROVE IInv'
<1>0. TypeOK /\ creator[c].pc = "record"
  BY DEF IInv, CreateRecord
<1>1. PICK r \in CreatorState : /\ Becomes(c, r)
                               /\ r.pc = "index" /\ r.box = creator[c].box
                               /\ r.worker = creator[c].worker
  BY <1>0, GoesBecomes DEF CreateRecord
<1>2. /\ r.box \in Sandbox /\ r.worker \in Worker /\ r.box \notin indexed
  BY <1>0, <1>1 DEF IInv, CreatorsFit, TypeOK
<1>3. /\ UNCHANGED <<box, home, up, listed, reported, route, indexed, returned,
                     destroyer, loose, faults>>
      /\ record' = [record EXCEPT ![r.box] = "running"]
  BY <1>1 DEF CreateRecord, workerVars, registry, faultVars
<1>4. TypeOK'
  BY <1>0, <1>1, <1>2, <1>3 DEF TypeOK, Becomes, CreatorState
<1>5. BoxesFit'
  <2>1. \A w \in Worker : IsFiniteSet(Held(w)') /\ Cardinality(Held(w)') <= Capacity
    BY <1>3, HeldStays DEF IInv, Runs
  <2> QED
    BY <1>1, <1>3, <2>1 DEF IInv, BoxesFit, Becomes
<1>6. CreatorsFit'
  BY <1>0, <1>1, <1>3 DEF IInv, CreatorsFit, Becomes
<1>7. DestroyersFit'
  BY <1>3 DEF IInv, DestroyersFit, Runs
<1>8. RecordsFit'
  BY <1>0, <1>2, <1>3 DEF IInv, RecordsFit, Runs, TypeOK
<1> QED
  BY <1>4, <1>5, <1>6, <1>7, <1>8 DEF IInv

LEMMA IndexRecordIInv ==
    ASSUME IInv, NEW c \in Creator, IndexRecord(c) PROVE IInv'
<1>0. TypeOK /\ creator[c].pc = "index"
  BY DEF IInv, IndexRecord
<1>1. PICK r \in CreatorState : /\ Becomes(c, r)
                               /\ r.pc = "return" /\ r.box = creator[c].box
                               /\ r.worker = creator[c].worker
  BY <1>0, GoesBecomes DEF IndexRecord
<1>2. /\ r.box \in Sandbox /\ r.worker \in Worker /\ home[r.box] = r.worker
      /\ route[r.box] = r.worker /\ r.box \notin indexed
      /\ \A x \in Creator : x # c => creator[x].box # r.box
  BY <1>0, <1>1 DEF IInv, CreatorsFit, TypeOK
<1>3. /\ UNCHANGED <<box, home, up, listed, reported, route, record, returned,
                     destroyer, loose, faults>>
      /\ indexed' = indexed \cup {r.box}
  BY <1>1 DEF IndexRecord, workerVars, registry, faultVars
<1>4. TypeOK'
  BY <1>0, <1>1, <1>2, <1>3 DEF TypeOK, Becomes, CreatorState
<1>5. BoxesFit'
  <2>1. \A w \in Worker : IsFiniteSet(Held(w)') /\ Cardinality(Held(w)') <= Capacity
    BY <1>3, HeldStays DEF IInv, Runs
  <2>2. box[r.box] # "new"
    BY <1>0, <1>1, <1>2 DEF IInv, BoxesFit
  <2> QED
    BY <1>1, <1>3, <2>1, <2>2 DEF IInv, BoxesFit, Becomes
<1>6. CreatorsFit'
  BY <1>0, <1>1, <1>2, <1>3 DEF IInv, CreatorsFit, Becomes
<1>7. DestroyersFit'
  BY <1>3 DEF IInv, DestroyersFit, Runs
<1>8. RecordsFit'
  BY <1>2, <1>3 DEF IInv, RecordsFit, Runs
<1> QED
  BY <1>4, <1>5, <1>6, <1>7, <1>8 DEF IInv

LEMMA ReturnIInv ==
    ASSUME IInv, NEW c \in Creator, Return(c) PROVE IInv'
<1>0. TypeOK /\ creator[c].pc = "return"
  BY DEF IInv, Return
<1>1. Becomes(c, NoCreate)
  BY <1>0, IdleTypes, CreatorBecomes DEF Return
<1>2. creator[c].box \in indexed
  BY <1>0 DEF IInv, CreatorsFit
<1>3. /\ UNCHANGED <<box, home, up, listed, reported, route, record, indexed,
                     destroyer, loose, faults>>
      /\ returned' = returned \cup {creator[c].box}
  BY DEF Return, workerVars, redisVars, registry, faultVars
<1>4. TypeOK'
  BY <1>0, <1>1, <1>2, <1>3 DEF TypeOK, Becomes, CreatorState
<1>5. BoxesFit'
  <2>1. \A w \in Worker : IsFiniteSet(Held(w)') /\ Cardinality(Held(w)') <= Capacity
    BY <1>3, HeldStays DEF IInv, Runs
  <2> QED
    BY <1>1, <1>3, <2>1 DEF IInv, BoxesFit, Becomes, NoCreate
<1>6. CreatorsFit'
  BY <1>0, <1>1, <1>3 DEF IInv, CreatorsFit, Becomes, NoCreate
<1>7. DestroyersFit'
  BY <1>3 DEF IInv, DestroyersFit, Runs
<1>8. RecordsFit'
  BY <1>2, <1>3 DEF IInv, RecordsFit, Runs
<1> QED
  BY <1>4, <1>5, <1>6, <1>7, <1>8 DEF IInv

-----------------------------------------------------------------------------
(* Steps of a destruction. *)

(* What a destruction that is r may do once the sandboxes have changed.    *)
DestroyerFits(r) ==
    r.pc # "idle" =>
        /\ r.box \in indexed
        /\ r.box \notin loose' /\ box'[r.box] \in {"warming", "live"} =>
             \/ r.pc = "route"
             \/ r.pc \in {"worker", "send"} /\ r.worker = home[r.box]

(* A destruction moves; sandboxes may end by it, or be given up.           *)
LEMMA DestroyerMoves ==
    ASSUME IInv, NEW d \in Destroyer, NEW r, Turns(d, r), DestroyerFits(r),
           UNCHANGED <<home, up, redisVars, returned, creator>>,
           loose \subseteq loose', loose' \subseteq Sandbox, faults' \in 0..MaxFaults,
           box' \in [Sandbox -> {"new", "warming", "live", "gone"}],
           \A s \in Sandbox : (box'[s] = "new" <=> box[s] = "new") /\ (Runs(s)' => Runs(s))
    PROVE  IInv'
<1>0. TypeOK
  BY DEF IInv
<1>1. UNCHANGED <<home, up, listed, reported, route, record, indexed, returned, creator>>
  BY DEF redisVars, registry
<1>2. TypeOK'
  BY <1>0, <1>1 DEF TypeOK, Turns, DestroyerState
<1>3. BoxesFit'
  <2>1. \A w \in Worker : IsFiniteSet(Held(w)') /\ Cardinality(Held(w)') <= Capacity
    BY <1>1, HeldStays DEF IInv
  <2> QED
    BY <1>1, <2>1 DEF IInv, BoxesFit
<1>4. CreatorsFit'
  BY <1>1 DEF IInv, CreatorsFit
<1>5. DestroyersFit'
  <2>1. ASSUME NEW x \in Destroyer, x # d, destroyer[x].pc # "idle"
        PROVE  DestroyerFits(destroyer[x])
    <3>1. destroyer[x].box \in Sandbox
      BY <1>0, <2>1 DEF IInv, DestroyersFit, TypeOK
    <3> QED
      BY <2>1, <3>1 DEF IInv, DestroyersFit, DestroyerFits, Runs
  <2> QED
    BY <1>1, <2>1 DEF DestroyersFit, DestroyerFits, Turns, Runs
<1>6. RecordsFit'
  BY <1>1 DEF IInv, RecordsFit
<1> QED
  BY <1>2, <1>3, <1>4, <1>5, <1>6 DEF IInv

(* What is known of a destruction under way. *)
LEMMA DestroyerKnows ==
    ASSUME IInv, NEW d \in Destroyer, destroyer[d].pc # "idle"
    PROVE  LET s == destroyer[d].box
           IN  /\ TypeOK /\ destroyer[d] \in DestroyerState /\ s \in Sandbox
               /\ s \in indexed /\ box[s] # "new"
               /\ s \notin loose /\ Runs(s) =>
                    /\ record[s] # "destroyed" /\ route[s] = home[s] /\ home[s] \in Worker
                    /\ \/ destroyer[d].pc = "route"
                       \/ /\ destroyer[d].pc \in {"worker", "send"}
                          /\ destroyer[d].worker = home[s]
<1>1. TypeOK /\ destroyer[d] \in DestroyerState
  BY DEF IInv, TypeOK, DestroyerState
<1>2. destroyer[d].box \in indexed /\ destroyer[d].box \in Sandbox
  BY <1>1 DEF IInv, DestroyersFit, TypeOK
<1> QED
  BY <1>1, <1>2 DEF IInv, BoxesFit, DestroyersFit, RecordsFit

(* A destruction goes on to pc, or is given up. *)
LEMMA Destroying ==
    ASSUME IInv, NEW d \in Destroyer, NEW pc \in {"route", "worker", "send", "mark", "unroute"},
           DestroyerGoes(d, pc)
    PROVE  \E r \in DestroyerState : /\ Turns(d, r)
                                     /\ r.pc = pc /\ r.box = destroyer[d].box
                                     /\ r.worker = destroyer[d].worker
<1> DEFINE r == [destroyer[d] EXCEPT !.pc = pc]
<1>1. /\ r \in DestroyerState /\ r.pc = pc
      /\ r.box = destroyer[d].box /\ r.worker = destroyer[d].worker
  BY DEF IInv, TypeOK, DestroyerState
<1>2. destroyer' = [destroyer EXCEPT ![d] = r]
  BY DEF DestroyerGoes
<1> HIDE DEF r
<1> QED
  BY <1>1, <1>2, DestroyerTurns DEF IInv

LEMMA DestroyerGivenUp ==
    ASSUME IInv, NEW d \in Destroyer, destroyer' = [destroyer EXCEPT ![d] = NoDestroy],
           UNCHANGED <<home, up, redisVars, returned, creator, loose>>,
           faults' \in 0..MaxFaults,
           box' \in [Sandbox -> {"new", "warming", "live", "gone"}],
           \A s \in Sandbox : (box'[s] = "new" <=> box[s] = "new") /\ (Runs(s)' => Runs(s))
    PROVE  IInv'
<1>1. Turns(d, NoDestroy)
  BY IdleTypes, DestroyerTurns DEF IInv
<1>2. DestroyerFits(NoDestroy) /\ loose' \subseteq Sandbox
  BY DEF DestroyerFits, NoDestroy, IInv, TypeOK
<1> QED
  BY <1>1, <1>2, DestroyerMoves

(* The proxied request failed, whatever it did to the sandbox.             *)
LEMMA ProxyFailsIInv ==
    ASSUME IInv, NEW d \in Destroyer, destroyer[d].pc # "idle", ProxyFails(d),
           UNCHANGED <<home, up, redisVars, returned, creator>>,
           faults' \in 0..MaxFaults,
           box' \in [Sandbox -> {"new", "warming", "live", "gone"}],
           \A s \in Sandbox : (box'[s] = "new" <=> box[s] = "new") /\ (Runs(s)' => Runs(s))
    PROVE  IInv'
<1>1. CASE destroyer[d].kind = "user"
  BY <1>1, DestroyerGivenUp DEF ProxyFails
<1>2. CASE destroyer[d].kind # "user"
  <2>1. DestroyerGoes(d, "mark") /\ loose' = loose \cup {destroyer[d].box}
    BY <1>2 DEF ProxyFails
  <2>2. PICK r \in DestroyerState : Turns(d, r) /\ r.pc = "mark" /\ r.box = destroyer[d].box
    BY <2>1, Destroying
  <2>3. r.box \in indexed /\ r.box \in Sandbox
    BY <2>2, DestroyerKnows
  <2>4. DestroyerFits(r) /\ loose \subseteq loose' /\ loose' \subseteq Sandbox
    BY <2>1, <2>2, <2>3 DEF DestroyerFits, IInv, TypeOK
  <2> QED
    BY <2>2, <2>4, DestroyerMoves
<1> QED
  BY <1>1, <1>2

LEMMA AskIInv ==
    ASSUME IInv, NEW d \in Destroyer, Ask(d) PROVE IInv'
<1>0. TypeOK
  BY DEF IInv
<1>1. PICK kind \in AllKinds, s \in indexed :
        /\ destroyer' = [destroyer EXCEPT ![d] =
                            [pc |-> IF kind = "expired" THEN "mark" ELSE "route",
                             kind |-> kind, box |-> s, worker |-> NoWorker]]
        /\ loose' = IF kind = "expired" THEN loose \cup {s} ELSE loose
  BY DEF Ask, Target, IInv, RecordsFit
<1> DEFINE r == [pc |-> IF kind = "expired" THEN "mark" ELSE "route",
                 kind |-> kind, box |-> s, worker |-> NoWorker]
<1>2. s \in Sandbox
  BY <1>0 DEF TypeOK
<1>3. r \in DestroyerState
  BY <1>2 DEF DestroyerState
<1>4. Turns(d, r)
  BY <1>0, <1>1, <1>3, DestroyerTurns
<1>5. DestroyerFits(r) /\ loose \subseteq loose' /\ loose' \subseteq Sandbox
  BY <1>0, <1>1, <1>2 DEF DestroyerFits, TypeOK
<1>6. UNCHANGED <<box, home, up, redisVars, returned, creator, faults>>
  BY DEF Ask, workerVars
<1> QED
  BY <1>0, <1>4, <1>5, <1>6, DestroyerMoves DEF TypeOK, Runs

LEMMA LookUpIInv ==
    ASSUME IInv, NEW d \in Destroyer, LookUp(d) PROVE IInv'
<1>0. destroyer[d].pc = "route"
  BY DEF LookUp
<1>1. PICK s \in Sandbox :
        /\ s = destroyer[d].box /\ s \in indexed
        /\ s \notin loose /\ Runs(s) => route[s] = home[s] /\ home[s] \in Worker
  BY <1>0, DestroyerKnows
<1>2. TypeOK /\ destroyer[d] \in DestroyerState
  BY <1>0, DestroyerKnows
<1>3. PICK r \in DestroyerState :
        /\ destroyer' = [destroyer EXCEPT ![d] = r]
        /\ r.pc = IF route[s] = NoWorker THEN "mark" ELSE "worker"
        /\ r.box = s /\ r.worker = route[s]
  <2> DEFINE r == [destroyer[d] EXCEPT
                     !.worker = route[s],
                     !.pc = IF route[s] = NoWorker THEN "mark" ELSE "worker"]
  <2>1. /\ r \in DestroyerState /\ r.box = s /\ r.worker = route[s]
        /\ r.pc = IF route[s] = NoWorker THEN "mark" ELSE "worker"
    BY <1>1, <1>2 DEF DestroyerState, TypeOK
  <2>2. destroyer' = [destroyer EXCEPT ![d] = r]
    BY <1>1 DEF LookUp
  <2> QED
    BY <2>1, <2>2
<1>4. UNCHANGED <<box, home, up, redisVars, returned, creator, loose, faults>>
  BY DEF LookUp, workerVars, faultVars
<1>5. DestroyerFits(r)
  BY <1>1, <1>3, <1>4 DEF DestroyerFits, Runs
<1>6. Turns(d, r)
  BY <1>2, <1>3, DestroyerTurns
<1> QED
  BY <1>2, <1>4, <1>5, <1>6, DestroyerMoves DEF TypeOK, Runs

LEMMA FindWorkerIInv ==
    ASSUME IInv, NEW d \in Destroyer, FindWorker(d) PROVE IInv'
<1>0. destroyer[d].pc = "worker" /\ TypeOK
  BY DEF FindWorker, IInv
<1>1. UNCHANGED <<box, home, up, redisVars, returned, creator, faults>>
  BY DEF FindWorker, workerVars
<1>2. CASE ProxyFails(d)
  BY <1>0, <1>1, <1>2, ProxyFailsIInv DEF TypeOK, Runs
<1>3. CASE DestroyerGoes(d, "send") /\ UNCHANGED loose
  <2>1. PICK r \in DestroyerState : /\ Turns(d, r) /\ r.pc = "send"
                                   /\ r.box = destroyer[d].box
                                   /\ r.worker = destroyer[d].worker
    BY <1>3, Destroying
  <2>2. DestroyerFits(r)
    BY <1>0, <1>1, <1>3, <2>1, DestroyerKnows DEF DestroyerFits, Runs
  <2> QED
    BY <1>0, <1>1, <1>3, <2>1, <2>2, DestroyerMoves DEF TypeOK, Runs
<1> QED
  BY <1>2, <1>3 DEF FindWorker

LEMMA SendIInv ==
    ASSUME IInv, NEW d \in Destroyer, Send(d) PROVE IInv'
<1>0. destroyer[d].pc = "send" /\ TypeOK
  BY DEF Send, IInv
<1>1. PICK s \in Sandbox :
        /\ s = destroyer[d].box /\ s \in indexed
        /\ s \notin loose /\ Runs(s) => destroyer[d].worker = home[s]
  BY <1>0, DestroyerKnows
<1>2. UNCHANGED <<home, up, redisVars, returned, creator, faults>>
  BY DEF Send
<1>3. CASE ProxyFails(d) /\ UNCHANGED box
  BY <1>0, <1>1, <1>2, <1>3, ProxyFailsIInv DEF TypeOK, Runs
<1>4. CASE /\ box' = [box EXCEPT ![s] = IF s \in Held(destroyer[d].worker) THEN "gone" ELSE @]
           /\ DestroyerGoes(d, "mark") /\ UNCHANGED loose
  <2>1. PICK r \in DestroyerState : Turns(d, r) /\ r.pc = "mark" /\ r.box = s
    BY <1>1, <1>4, Destroying
  <2>2. /\ box' \in [Sandbox -> {"new", "warming", "live", "gone"}]
        /\ \A x \in Sandbox : (box'[x] = "new" <=> box[x] = "new") /\ (Runs(x)' => Runs(x))
    BY <1>0, <1>1, <1>4 DEF TypeOK, Held, Runs
  <2>3. s \notin loose => ~Runs(s)'
    <3>1. Runs(s) /\ s \notin loose => s \in Held(destroyer[d].worker)
      BY <1>1 DEF Held, Runs
    <3>2. box'[s] = IF s \in Held(destroyer[d].worker) THEN "gone" ELSE box[s]
      BY <1>0, <1>1, <1>4 DEF TypeOK
    <3> QED
      BY <3>1, <3>2 DEF Runs
  <2>4. DestroyerFits(r)
    BY <1>1, <1>4, <2>1, <2>3 DEF DestroyerFits, Runs
  <2> QED
    BY <1>0, <1>1, <1>2, <1>4, <2>1, <2>2, <2>4, DestroyerMoves DEF TypeOK
<1> QED
  BY <1>1, <1>3, <1>4 DEF Send

LEMMA SendTimesOutIInv ==
    ASSUME IInv, NEW d \in Destroyer, SendTimesOut(d) PROVE IInv'
<1>1. TypeOK /\ faults' \in 0..MaxFaults
  BY DEF IInv, SendTimesOut, Fault, TypeOK
<1>2. /\ box' \in [Sandbox -> {"new", "warming", "live", "gone"}]
      /\ \A x \in Sandbox : (box'[x] = "new" <=> box[x] = "new") /\ (Runs(x)' => Runs(x))
  BY <1>1 DEF SendTimesOut, TypeOK, Held, Runs
<1> QED
  BY <1>1, <1>2, ProxyFailsIInv DEF SendTimesOut

LEMMA MarkIInv ==
    ASSUME IInv, NEW d \in Destroyer, Mark(d) PROVE IInv'
<1> DEFINE s == destroyer[d].box
<1>0. destroyer[d].pc = "mark"
  BY DEF Mark
<1>1. TypeOK /\ s \in Sandbox /\ s \in indexed /\ (s \notin loose => ~Runs(s))
  BY <1>0, DestroyerKnows
<1>2. PICK r \in DestroyerState : Turns(d, r) /\ r.pc = "unroute" /\ r.box = s
  BY Destroying DEF Mark
<1>3. /\ UNCHANGED <<box, home, up, listed, reported, route, indexed, returned,
                     creator, loose, faults>>
      /\ record' = [record EXCEPT ![s] = "destroyed"]
  BY DEF Mark, workerVars, registry, faultVars
<1>4. TypeOK'
  BY <1>1, <1>2, <1>3 DEF TypeOK, Turns, DestroyerState
<1>5. BoxesFit'
  <2>1. \A w \in Worker : IsFiniteSet(Held(w)') /\ Cardinality(Held(w)') <= Capacity
    BY <1>3, HeldStays DEF IInv, Runs
  <2> QED
    BY <1>3, <2>1 DEF IInv, BoxesFit
<1>6. CreatorsFit'
  BY <1>3 DEF IInv, CreatorsFit
<1>7. DestroyersFit'
  BY <1>1, <1>2, <1>3 DEF IInv, DestroyersFit, Turns, Runs
<1>8. RecordsFit'
  BY <1>1, <1>3 DEF IInv, RecordsFit, Runs, TypeOK
<1> QED
  BY <1>4, <1>5, <1>6, <1>7, <1>8 DEF IInv

(* A route that goes: of a sandbox nobody creates, which was given up or   *)
(* does not run.                                                           *)
LEMMA RouteGoes ==
    ASSUME IInv, NEW s \in Sandbox, route' = [route EXCEPT ![s] = NoWorker],
           \A c \in Creator : creator[c].pc \in {"record", "index"} => creator[c].box # s,
           s \in loose' \/ ~Runs(s),
           UNCHANGED <<box, home, up, registry, record, indexed, returned, creator>>,
           loose \subseteq loose', loose' \subseteq Sandbox, faults' \in 0..MaxFaults,
           \/ UNCHANGED destroyer
           \/ \E d \in Destroyer : Turns(d, NoDestroy)
    PROVE  IInv'
<1>0. TypeOK /\ UNCHANGED <<listed, reported>>
  BY DEF IInv, registry
<1>1. /\ destroyer' \in [Destroyer -> DestroyerState]
      /\ \A d \in Destroyer : destroyer'[d] \in {destroyer[d], NoDestroy}
  BY <1>0 DEF Turns, TypeOK, DestroyerState
<1>2. TypeOK'
  BY <1>0, <1>1 DEF TypeOK, DestroyerState
<1>3. BoxesFit'
  <2>1. \A w \in Worker : IsFiniteSet(Held(w)') /\ Cardinality(Held(w)') <= Capacity
    BY HeldStays DEF IInv, Runs
  <2> QED
    BY <1>0, <2>1 DEF IInv, BoxesFit, TypeOK
<1>4. CreatorsFit'
  BY <1>0 DEF IInv, CreatorsFit, TypeOK
<1>5. DestroyersFit'
  BY <1>1 DEF IInv, DestroyersFit, Runs, NoDestroy
<1>6. RecordsFit'
  BY <1>0 DEF IInv, RecordsFit, Runs, TypeOK
<1> QED
  BY <1>2, <1>3, <1>4, <1>5, <1>6 DEF IInv

LEMMA UnrouteIInv ==
    ASSUME IInv, NEW d \in Destroyer, Unroute(d) PROVE IInv'
<1> DEFINE s == destroyer[d].box
<1>0. destroyer[d].pc = "unroute"
  BY DEF Unroute
<1>1. TypeOK /\ s \in Sandbox /\ s \in indexed /\ (s \notin loose => ~Runs(s))
  BY <1>0, DestroyerKnows
<1>2. Turns(d, NoDestroy)
  BY <1>1, IdleTypes, DestroyerTurns DEF Unroute
<1>3. \A c \in Creator : creator[c].pc \in {"record", "index"} => creator[c].box # s
  BY <1>1 DEF IInv, CreatorsFit
<1> QED
  BY <1>1, <1>2, <1>3, RouteGoes DEF Unroute, TypeOK, workerVars, faultVars

LEMMA RouteExpiresIInv ==
    ASSUME IInv, NEW s \in Sandbox, RouteExpires(s) PROVE IInv'
<1>1. TypeOK /\ faults' \in 0..MaxFaults
  BY DEF IInv, RouteExpires, Fault, TypeOK
<1> QED
  BY <1>1, RouteGoes DEF RouteExpires, TypeOK, workerVars

LEMMA AbortIInv ==
    ASSUME IInv, Abort PROVE IInv'
<1>1. TypeOK /\ faults' \in 0..MaxFaults
  BY DEF IInv, Abort, Fault, TypeOK
<1>2. CASE \E c \in Creator : creator' = [creator EXCEPT ![c] = NoCreate] /\ UNCHANGED destroyer
  BY <1>1, <1>2, GivenUpIInv DEF Abort
<1>3. CASE \E d \in Destroyer : destroyer' = [destroyer EXCEPT ![d] = NoDestroy] /\ UNCHANGED creator
  BY <1>1, <1>3, DestroyerGivenUp DEF Abort, TypeOK, Runs, workerVars
<1> QED
  BY <1>2, <1>3 DEF Abort

-----------------------------------------------------------------------------
LEMMA InitIInv == Init => IInv
<1> SUFFICES ASSUME Init PROVE IInv
  OBVIOUS
<1> USE DEF Init
<1>1. TypeOK
  BY IdleTypes DEF TypeOK, CreatorState, DestroyerState
<1>2. BoxesFit
  <2>1. \A w \in Worker : Held(w) = {}
    BY DEF Held
  <2> QED
    BY <2>1, FS_EmptySet DEF BoxesFit, NoCreate
<1>3. CreatorsFit /\ DestroyersFit /\ RecordsFit
  BY DEF CreatorsFit, DestroyersFit, RecordsFit, NoCreate, NoDestroy
<1> QED
  BY <1>1, <1>2, <1>3 DEF IInv

LEMMA StepIInv == IInv /\ [Next]_vars => IInv'
<1> SUFFICES ASSUME IInv, [Next]_vars PROVE IInv'
  OBVIOUS
<1>1. CASE UNCHANGED vars
  BY <1>1 DEF vars, workerVars, redisVars, registry, faultVars, IInv, TypeOK, BoxesFit, Held,
     CreatorsFit, DestroyersFit, RecordsFit, Runs
<1>2. ASSUME NEW s \in Sandbox, Ready(s) \/ StartFails(s) \/ Reaped(s) \/ RouteExpires(s)
      PROVE  IInv'
  BY <1>2, WorkersIInv, RouteExpiresIInv
<1>3. ASSUME NEW w \in Worker, Crash(w) \/ Register(w) \/ Heartbeat(w) \/ RegistryDrops(w)
      PROVE  IInv'
  BY <1>3, CrashIInv, RegistryIInv
<1>4. ASSUME NEW c \in Creator, Pick(c) \/ PostTimesOut(c) \/ CreateStep(c) PROVE IInv'
  <2>1. CASE PostTimesOut(c)
    <3>1. faults' \in 0..MaxFaults
      BY <2>1 DEF PostTimesOut, Fault, IInv, TypeOK
    <3> QED
      BY <2>1, <3>1, GivenUpIInv DEF PostTimesOut
  <2> QED
    BY <1>4, <2>1, PickIInv, PostIInv, SetRouteIInv, CreateRecordIInv, IndexRecordIInv,
       ReturnIInv DEF CreateStep
<1>5. ASSUME NEW d \in Destroyer, Ask(d) \/ SendTimesOut(d) \/ DestroyStep(d) PROVE IInv'
  BY <1>5, AskIInv, SendTimesOutIInv, LookUpIInv, FindWorkerIInv, SendIInv, MarkIInv,
     UnrouteIInv DEF DestroyStep
<1> QED
  BY <1>1, <1>2, <1>3, <1>4, <1>5, AbortIInv DEF Next

(* The inductive invariant holds in every reachable state. *)
THEOREM InvariantHolds == Spec => []IInv
BY InitIInv, StepIInv, PTL DEF Spec

(* Every variable keeps its type; in particular no worker reports more     *)
(* sandboxes than it may run.                                              *)
THEOREM TypeCorrect == Spec => []TypeOK
<1>1. IInv => TypeOK
  BY DEF IInv
<1> QED
  BY <1>1, InvariantHolds, PTL

(* A sandbox that is recorded as destroyed does not run, unless it was     *)
(* given up: destroy_sandbox marks the record once the worker has answered *)
(* (orchestrator/routes/sandboxes.py).                                     *)
THEOREM OnlyLooseRunOnHolds == Spec => []OnlyLooseRunOn
<1>1. IInv => OnlyLooseRunOn
  BY DEF IInv, OnlyLooseRunOn, RecordsFit, Runs
<1> QED
  BY <1>1, InvariantHolds, PTL

(* While a sandbox that a client was given runs its route leads to it,     *)
(* unless it was given up: create_sandbox writes the route before it       *)
(* answers, and only a destruction that has asked the worker drops it.     *)
THEOREM ReturnedIsReachableHolds == Spec => []ReturnedIsReachable
<1>1. IInv => ReturnedIsReachable
  BY DEF IInv, ReturnedIsReachable, RecordsFit, Runs, TypeOK
<1> QED
  BY <1>1, InvariantHolds, PTL

(* A destroyed record stays destroyed: create_sandbox cannot write it      *)
(* after a destruction, which needs the index or the client to know of it. *)
THEOREM NoResurrectionHolds == Spec => NoResurrection
<1>1. ASSUME IInv, [Next]_vars, NEW s \in Sandbox, record[s] = "destroyed"
      PROVE  record'[s] = "destroyed"
  <2>1. ASSUME NEW c \in Creator, CreateRecord(c) PROVE record'[s] = "destroyed"
    <3>1. creator[c].box # s
      BY <1>1, <2>1 DEF IInv, CreatorsFit, RecordsFit, CreateRecord
    <3> QED
      BY <1>1, <2>1, <3>1 DEF CreateRecord, IInv, TypeOK
  <2>2. ASSUME NEW d \in Destroyer, Mark(d) PROVE record'[s] = "destroyed"
    BY <1>1, <2>2 DEF Mark, IInv, TypeOK
  <2>3. CASE UNCHANGED record
    BY <1>1, <2>3
  <2> QED
    BY <1>1, <2>1, <2>2, <2>3
       DEF Next, vars, workerVars, redisVars, registry, Ready, StartFails, Reaped,
           RouteExpires, Crash, Register, Heartbeat, RegistryDrops, Pick, PostTimesOut,
           CreateStep, Post, SetRoute, IndexRecord, Return, Ask, SendTimesOut,
           DestroyStep, LookUp, FindWorker, Send, Unroute, Abort
<1>2. IInv /\ [Next]_vars => [\A s \in Sandbox : record[s] = "destroyed" => record'[s] = "destroyed"]_vars
  BY <1>1
<1> QED
  BY <1>2, InvariantHolds, PTL DEF Spec, NoResurrection

-----------------------------------------------------------------------------
(* The life of a sandbox. *)

(* A step that neither writes records nor indexes, and after which who is  *)
(* about to index was so before.                                           *)
LEMMA RecordedKept ==
    ASSUME IndexedIsRecorded, UNCHANGED <<record, indexed>>,
           \A c \in Creator : creator'[c].pc = "index" => creator'[c] = creator[c]
    PROVE  IndexedIsRecorded'
BY DEF IndexedIsRecorded

(* The same of a step that changes one creation. *)
LEMMA RecordedKeptBy ==
    ASSUME TypeOK, IndexedIsRecorded, UNCHANGED <<record, indexed>>, NEW c \in Creator,
           NEW r \in CreatorState, Becomes(c, r), r.pc # "index"
    PROVE  IndexedIsRecorded'
<1>1. \A x \in Creator : creator'[x].pc = "index" => creator'[x] = creator[x]
  BY DEF Becomes
<1> QED
  BY <1>1, RecordedKept

(* A creation indexes only what it has recorded. *)
LEMMA IndexedIsRecordedStep ==
    ASSUME IInv, IndexedIsRecorded, [Next]_vars
    PROVE  IndexedIsRecorded'
<1>0. TypeOK
  BY DEF IInv
<1>1. CASE UNCHANGED vars
  BY <1>1, RecordedKept DEF vars, redisVars
<1>2. ASSUME NEW s \in Sandbox, Ready(s) \/ StartFails(s) \/ Reaped(s) \/ RouteExpires(s)
      PROVE  IndexedIsRecorded'
  <2>1. UNCHANGED <<record, indexed>>
    BY <1>2 DEF Ready, StartFails, Reaped, RouteExpires, redisVars
  <2>2. \A c \in Creator : creator'[c].pc = "index" => creator'[c] = creator[c]
    <3>1. CASE UNCHANGED creator
      BY <3>1
    <3>2. ASSUME NEW c \in Creator, Ready(s) \/ StartFails(s), creator'[c].pc = "index"
          PROVE  creator'[c] = creator[c]
      <4>1. PICK r \in CreatorState : r = creator[c]
        BY <1>0 DEF TypeOK, CreatorState
      <4>2. \/ creator'[c] = [r EXCEPT !.pc = "route"] \/ creator'[c] = NoCreate
            \/ creator'[c] = r
        BY <3>2, <4>1 DEF Ready, StartFails
      <4>3. [r EXCEPT !.pc = "route"].pc = "route" /\ NoCreate.pc = "idle"
        BY DEF CreatorState, NoCreate
      <4> QED
        BY <3>2, <4>1, <4>2, <4>3
    <3> QED
      BY <1>2, <3>1, <3>2 DEF Reaped, RouteExpires
  <2> QED
    BY <2>1, <2>2, RecordedKept
<1>3. ASSUME NEW w \in Worker, Crash(w) \/ Register(w) \/ Heartbeat(w) \/ RegistryDrops(w)
      PROVE  IndexedIsRecorded'
  <2>1. UNCHANGED <<record, indexed>>
    BY <1>3 DEF Crash, Register, Heartbeat, RegistryDrops, redisVars
  <2>2. \A c \in Creator : creator'[c].pc = "index" => creator'[c] = creator[c]
    BY <1>3 DEF Crash, Register, Heartbeat, RegistryDrops, NoCreate
  <2> QED
    BY <2>1, <2>2, RecordedKept
<1>4. ASSUME NEW c \in Creator, Pick(c) \/ PostTimesOut(c) \/ CreateStep(c)
      PROVE  IndexedIsRecorded'
  <2>1. CASE Pick(c)
    <3>1. PICK w \in Worker :
            creator' = [creator EXCEPT ![c] = [pc |-> "post", worker |-> w, box |-> NoSandbox]]
      BY <1>0, <2>1 DEF Pick, TypeOK
    <3>2. PICK r : r = [pc |-> "post", worker |-> w, box |-> NoSandbox]
      OBVIOUS
    <3>3. r \in CreatorState /\ r.pc = "post"
      BY <3>2 DEF CreatorState
    <3>4. Becomes(c, r)
      BY <1>0, <3>1, <3>2, <3>3, CreatorBecomes
    <3> QED
      BY <1>0, <2>1, <3>3, <3>4, RecordedKeptBy DEF Pick, redisVars
  <2>2. CASE PostTimesOut(c)
    BY <1>0, <2>2, CreatorBecomes, IdleTypes, RecordedKeptBy
       DEF PostTimesOut, redisVars, NoCreate
  <2>3. CASE Post(c)
    <3>1. PICK r \in CreatorState :
            r = creator[c]
      BY <1>0 DEF TypeOK, CreatorState
    <3>2. CASE creator' = [creator EXCEPT ![c] = NoCreate]
      BY <1>0, <2>3, <3>2, CreatorBecomes, IdleTypes, RecordedKeptBy
         DEF Post, redisVars, NoCreate
    <3>3. ASSUME NEW s \in Sandbox,
                 creator' = [creator EXCEPT ![c].pc = "wait", ![c].box = s]
          PROVE  IndexedIsRecorded'
      <4>1. PICK n : n = [r EXCEPT !.pc = "wait", !.box = s]
        OBVIOUS
      <4>2. n \in CreatorState /\ n.pc = "wait"
        BY <4>1 DEF CreatorState
      <4>3. creator' = [creator EXCEPT ![c] = n]
        BY <3>1, <3>3, <4>1
      <4> QED
        BY <1>0, <2>3, <4>2, <4>3, CreatorBecomes, RecordedKeptBy DEF Post, redisVars
    <3> QED
      BY <2>3, <3>2, <3>3 DEF Post
  <2>4. CASE SetRoute(c)
    <3>1. PICK r \in CreatorState : Becomes(c, r) /\ r.pc = "record"
      BY <1>0, <2>4, GoesBecomes DEF SetRoute
    <3> QED
      BY <1>0, <2>4, <3>1, RecordedKeptBy DEF SetRoute
  <2>5. CASE CreateRecord(c)
    <3>1. PICK r \in CreatorState :
            Becomes(c, r) /\ r.pc = "index" /\ r.box = creator[c].box
      BY <1>0, <2>5, GoesBecomes DEF CreateRecord
    <3>2. creator[c].box \in Sandbox
      BY <2>5 DEF CreateRecord, IInv, CreatorsFit
    <3>3. /\ record'[creator[c].box] = "running"
          /\ \A s \in Sandbox : record'[s] = "none" => record[s] = "none"
      BY <1>0, <2>5, <3>2 DEF CreateRecord, TypeOK
    <3>4. \A x \in Creator : creator'[x].pc = "index" => creator'[x].box \in Sandbox
      BY <3>1, <3>2 DEF Becomes, IInv, CreatorsFit
    <3>5. UNCHANGED indexed
      BY <2>5 DEF CreateRecord
    <3> QED
      BY <1>0, <3>1, <3>3, <3>4, <3>5 DEF Becomes, IndexedIsRecorded, TypeOK
  <2>6. CASE IndexRecord(c)
    <3>1. PICK r \in CreatorState : Becomes(c, r) /\ r.pc = "return"
      BY <1>0, <2>6, GoesBecomes DEF IndexRecord
    <3>2. indexed' = indexed \cup {creator[c].box} /\ UNCHANGED record
          /\ creator[c].pc = "index"
      BY <2>6 DEF IndexRecord
    <3> QED
      BY <3>1, <3>2 DEF Becomes, IndexedIsRecorded
  <2>7. CASE Return(c)
    BY <1>0, <2>7, CreatorBecomes, IdleTypes, RecordedKeptBy DEF Return, redisVars, NoCreate
  <2> QED
    BY <1>4, <2>1, <2>2, <2>3, <2>4, <2>5, <2>6, <2>7 DEF CreateStep
<1>5. ASSUME NEW d \in Destroyer, Ask(d) \/ SendTimesOut(d) \/ DestroyStep(d)
      PROVE  IndexedIsRecorded'
  <2>1. UNCHANGED <<creator, indexed>>
    BY <1>5 DEF Ask, SendTimesOut, DestroyStep, LookUp, FindWorker, Send, Mark, Unroute,
       redisVars
  <2>2. \A s \in Sandbox : record'[s] = "none" => record[s] = "none"
    BY <1>0, <1>5 DEF Ask, SendTimesOut, DestroyStep, LookUp, FindWorker, Send, Mark,
       Unroute, redisVars, TypeOK
  <2>3. \A c \in Creator : creator[c].pc = "index" => creator[c].box \in Sandbox
    BY DEF IInv, CreatorsFit
  <2> QED
    BY <1>0, <2>1, <2>2, <2>3 DEF IndexedIsRecorded, TypeOK
<1>6. CASE Abort
  <2>1. UNCHANGED <<record, indexed>>
    BY <1>6 DEF Abort, redisVars
  <2>2. \A c \in Creator : creator'[c].pc = "index" => creator'[c] = creator[c]
    BY <1>0, <1>6 DEF Abort, NoCreate, TypeOK
  <2> QED
    BY <2>1, <2>2, RecordedKept
<1> QED
  BY <1>1, <1>2, <1>3, <1>4, <1>5, <1>6 DEF Next

-----------------------------------------------------------------------------
(* Whatever the orchestrators have to do with s no more. *)
LEMMA SettledMeans ==
    /\ \A s \in Sandbox : Life!Running(s) <=> Runs(s)
    /\ \A s \in Sandbox : Life!Settled(s) <=> s \in loose \/ ~Runs(s)
    /\ \A w \in Worker : Life!RunningOn(w) = Held(w)
BY DEF Life!Running, Life!Settled, Life!RunningOn, Runs, Held

(* One sandbox ends. *)
LEMMA OneEnds ==
    ASSUME TypeOK, NEW s \in Sandbox, Runs(s), box' = [box EXCEPT ![s] = "gone"],
           UNCHANGED <<home, route, record, returned, loose>>
    PROVE  Life!Next
<1>1. box' = [t \in Sandbox |-> IF t \in {s} THEN "gone" ELSE box[t]]
  BY DEF TypeOK
<1>2. Life!End({s})
  BY <1>1, SettledMeans DEF Life!End
<1>3. {s} \in SUBSET Sandbox
  OBVIOUS
<1> QED
  BY <1>2, <1>3 DEF Life!Next

(* One sandbox is cut off, as it ends or not. *)
LEMMA OneCutOff ==
    ASSUME TypeOK, NEW s \in Sandbox, loose' = loose \cup {s},
           UNCHANGED box \/ (Runs(s) /\ box' = [box EXCEPT ![s] = "gone"]),
           UNCHANGED route \/ route' = [route EXCEPT ![s] = NoWorker],
           UNCHANGED <<home, record, returned>>
    PROVE  Life!Next
<1>1. Life!CutOff(s)
  BY SettledMeans DEF Life!CutOff
<1> QED
  BY <1>1 DEF Life!Next

LifeUnchanged == UNCHANGED <<box, home, route, record, returned, loose>>

LEMMA WorkersLive ==
    ASSUME IInv, NEW s \in Sandbox, Ready(s) \/ StartFails(s) \/ Reaped(s) \/ RouteExpires(s)
    PROVE  Life!Next
<1>0. TypeOK
  BY DEF IInv
<1>1. CASE Ready(s)
  <2>1. Life!ComeUp(s)
    BY <1>1 DEF Ready, Life!ComeUp, redisVars, faultVars
  <2> QED
    BY <2>1 DEF Life!Next
<1>2. CASE StartFails(s) \/ Reaped(s)
  BY <1>0, <1>2, OneEnds DEF StartFails, Reaped, Runs, redisVars, faultVars
<1>3. CASE RouteExpires(s)
  BY <1>0, <1>3, OneCutOff DEF RouteExpires, workerVars
<1> QED
  BY <1>1, <1>2, <1>3

LEMMA RegistryLives ==
    ASSUME IInv, NEW w \in Worker,
           Crash(w) \/ Register(w) \/ Heartbeat(w) \/ RegistryDrops(w)
    PROVE  Life!Next \/ LifeUnchanged
<1>1. CASE Crash(w)
  <2>1. /\ Held(w) \in SUBSET Sandbox
        /\ \A s \in Held(w) : Life!Running(s)
    BY DEF Held, Life!Running
  <2>2. Life!End(Held(w))
    BY <1>1, <2>1 DEF Crash, Life!End, redisVars
  <2> QED
    BY <2>1, <2>2 DEF Life!Next
<1>2. CASE Register(w) \/ Heartbeat(w) \/ RegistryDrops(w)
  BY <1>2 DEF Register, Heartbeat, RegistryDrops, LifeUnchanged, workerVars, faultVars
<1> QED
  BY <1>1, <1>2

LEMMA CreationsLive ==
    ASSUME IInv, IndexedIsRecorded, NEW c \in Creator,
           Pick(c) \/ PostTimesOut(c) \/ CreateStep(c)
    PROVE  Life!Next \/ LifeUnchanged
<1>0. TypeOK /\ CreatorFits(creator[c])
  BY CreatorsFitParts DEF IInv
<1>1. CASE Pick(c) \/ PostTimesOut(c) \/ IndexRecord(c)
  BY <1>1 DEF Pick, PostTimesOut, IndexRecord, LifeUnchanged, workerVars, redisVars, faultVars
<1>2. CASE Post(c)
  <2>1. CASE UNCHANGED <<box, home>>
    BY <1>2, <2>1 DEF Post, LifeUnchanged, redisVars, faultVars
  <2>2. ASSUME NEW s \in Sandbox, box[s] = "new",
               Cardinality(Held(creator[c].worker)) < Capacity,
               box' = [box EXCEPT ![s] = "warming"],
               home' = [home EXCEPT ![s] = creator[c].worker]
        PROVE  Life!Next
    <3>1. creator[c].worker \in Worker
      BY <1>0, <1>2 DEF Post, CreatorFits
    <3>2. PICK w \in Worker : w = creator[c].worker
      BY <3>1
    <3>3. Cardinality(Life!RunningOn(w)) < Capacity
      BY <2>2, <3>2, SettledMeans
    <3>4. UNCHANGED <<route, record, returned, loose>>
      BY <1>2 DEF Post, redisVars, faultVars
    <3>5. Life!Cardinality(Life!RunningOn(w)) = Cardinality(Life!RunningOn(w))
      BY DEF Life!Cardinality, Cardinality
    <3>6. Life!Admit(s, w)
      BY <2>2, <3>2, <3>3, <3>4, <3>5 DEF Life!Admit
    <3> QED
      BY <3>6 DEF Life!Next
  <2> QED
    BY <1>2, <2>1, <2>2 DEF Post
<1>3. CASE SetRoute(c) \/ CreateRecord(c) \/ Return(c)
  <2>1. PICK s \in Sandbox : s = creator[c].box /\ home[s] = creator[c].worker
    BY <1>0, <1>3 DEF SetRoute, CreateRecord, Return, CreatorFits
  <2>2. box[s] # "new"
    BY <2>1 DEF IInv, BoxesFit
  <2>3. CASE SetRoute(c)
    <3>1. Life!Lead(s)
      BY <2>1, <2>2, <2>3 DEF SetRoute, Life!Lead, workerVars, faultVars
    <3> QED
      BY <3>1 DEF Life!Next
  <2>4. CASE CreateRecord(c)
    <3>1. route[s] = home[s] /\ s \notin indexed
      BY <1>0, <2>1, <2>4 DEF CreateRecord, CreatorFits
    <3>2. record[s] # "destroyed"
      BY <3>1 DEF IInv, RecordsFit
    <3>3. record' = [record EXCEPT ![s] = "running"]
          /\ UNCHANGED <<box, home, route, returned, loose>>
      BY <2>1, <2>4 DEF CreateRecord, workerVars, faultVars
    <3>4. CASE record[s] = "none"
      <4>1. Life!Open(s)
        BY <2>2, <3>1, <3>3, <3>4 DEF Life!Open
      <4> QED
        BY <4>1 DEF Life!Next
    <3>5. CASE record[s] = "running"
      BY <1>0, <3>3, <3>5 DEF LifeUnchanged, TypeOK
    <3> QED
      BY <1>0, <3>2, <3>4, <3>5 DEF TypeOK
  <2>5. CASE Return(c)
    <3>1. s \in indexed
      BY <1>0, <2>1, <2>5 DEF Return, CreatorFits
    <3>2. record[s] # "none"
      BY <3>1 DEF IndexedIsRecorded
    <3>3. route[s] = home[s] \/ Life!Settled(s)
      BY <3>1, SettledMeans DEF IInv, RecordsFit
    <3>4. Life!Give(s)
      BY <2>1, <2>5, <3>2, <3>3 DEF Return, Life!Give, workerVars, redisVars, faultVars
    <3> QED
      BY <3>4 DEF Life!Next
  <2> QED
    BY <1>3, <2>3, <2>4, <2>5
<1> QED
  BY <1>1, <1>2, <1>3 DEF CreateStep

(* A proxied DELETE that fails cuts the sandbox off, or is given up. *)
LEMMA ProxyFailsCuts ==
    ASSUME NEW d \in Destroyer, ProxyFails(d)
    PROVE  UNCHANGED loose \/ loose' = loose \cup {destroyer[d].box}
BY DEF ProxyFails

LEMMA DestructionsLive ==
    ASSUME IInv, IndexedIsRecorded, NEW d \in Destroyer,
           Ask(d) \/ SendTimesOut(d) \/ DestroyStep(d)
    PROVE  Life!Next \/ LifeUnchanged
<1>0. TypeOK
  BY DEF IInv
<1>1. CASE Ask(d)
  <2>1. UNCHANGED <<box, home, route, record, returned>>
    BY <1>1 DEF Ask, workerVars, redisVars
  <2>2. PICK kind \in Kinds, s \in Sandbox :
          loose' = IF kind = "expired" THEN loose \cup {s} ELSE loose
    BY <1>0, <1>1 DEF Ask, Target, TypeOK
  <2> QED
    BY <1>0, <2>1, <2>2, OneCutOff DEF LifeUnchanged
<1>2. CASE LookUp(d)
  BY <1>2 DEF LookUp, LifeUnchanged, workerVars, redisVars, faultVars
<1>3. CASE FindWorker(d) \/ SendTimesOut(d) \/ Send(d) \/ Mark(d) \/ Unroute(d)
  <2>1. PICK s \in Sandbox : s = destroyer[d].box /\ s \in indexed
    BY <1>0, <1>3 DEF FindWorker, SendTimesOut, Send, Mark, Unroute, IInv, DestroyersFit, TypeOK
  <2>2. CASE FindWorker(d)
    <3>1. UNCHANGED <<box, home, route, record, returned>>
          /\ (UNCHANGED loose \/ loose' = loose \cup {s})
      BY <2>1, <2>2, ProxyFailsCuts DEF FindWorker, workerVars, redisVars
    <3> QED
      BY <1>0, <3>1, OneCutOff DEF LifeUnchanged
  <2>3. CASE Send(d) \/ SendTimesOut(d)
    <3>1. UNCHANGED <<home, route, record, returned>>
      BY <2>3 DEF Send, SendTimesOut, redisVars
    <3>2. UNCHANGED loose \/ loose' = loose \cup {s}
      BY <2>1, <2>3, ProxyFailsCuts DEF Send, SendTimesOut
    <3>3. UNCHANGED box \/ (Runs(s) /\ box' = [box EXCEPT ![s] = "gone"])
      BY <1>0, <2>1, <2>3 DEF Send, SendTimesOut, Held, Runs, TypeOK
    <3> QED
      BY <1>0, <3>1, <3>2, <3>3, OneEnds, OneCutOff DEF LifeUnchanged
  <2>4. CASE Mark(d) \/ Unroute(d)
    <3>1. Life!Settled(s)
      BY <2>1, <2>4, SettledMeans DEF Mark, Unroute, IInv, DestroyersFit
    <3>2. record[s] # "none"
      BY <2>1 DEF IndexedIsRecorded
    <3>3. Life!Close(s) \/ Life!Drop(s)
      BY <2>1, <2>4, <3>1, <3>2
         DEF Mark, Unroute, Life!Close, Life!Drop, workerVars, faultVars
    <3> QED
      BY <3>3 DEF Life!Next
  <2> QED
    BY <1>3, <2>2, <2>3, <2>4
<1> QED
  BY <1>1, <1>2, <1>3 DEF DestroyStep

LEMMA LifeStep ==
    ASSUME IInv, IndexedIsRecorded, [Next]_vars
    PROVE  [Life!Next]_(Life!lifeVars)
<1>1. CASE UNCHANGED vars
  BY <1>1 DEF vars, workerVars, redisVars, faultVars, Life!lifeVars
<1>2. CASE Abort
  BY <1>2 DEF Abort, workerVars, redisVars, Life!lifeVars
<1>3. CASE Next /\ ~Abort
  BY <1>3, WorkersLive, RegistryLives, CreationsLive, DestructionsLive
     DEF Next, LifeUnchanged, Life!lifeVars
<1> QED
  BY <1>1, <1>2, <1>3

(* create_sandbox, the four ways of destruction and the workers, with all  *)
(* that may fail between them, keep to the life of SandboxLife: among the  *)
(* rest, that no worker runs more than it may, that a client is given no   *)
(* id without a record, and that a record is closed only when the sandbox  *)
(* has ended or was cut off.                                               *)
THEOREM LifeHolds == Spec => ImplementsLife
<1>1. Init => IndexedIsRecorded
  BY DEF Init, IndexedIsRecorded, NoCreate
<1>2. Init => Life!Init
  BY DEF Init, Life!Init
<1> QED
  BY <1>1, <1>2, LifeStep, IndexedIsRecordedStep, InvariantHolds, PTL
     DEF Spec, ImplementsLife, Life!Spec
=============================================================================
