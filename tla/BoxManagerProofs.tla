-------------------------- MODULE BoxManagerProofs --------------------------
(***************************************************************************)
(* IInv of BoxManager is an inductive invariant, for every set of ids and  *)
(* boxes, every capacity, and with or without id reuse and graceful drain; *)
(* the invariants, StoppedOnce and the refinement of SandboxSlots follow.  *)
(***************************************************************************)
EXTENDS BoxManager, FiniteSetTheorems, TLAPS

USE ConstantsAssumption

(* A set of registered ids that only shrinks stays within the capacity. *)
LEMMA ShrinkKeepsBound ==
    ASSUME IsFiniteSet(Occupied), CapacityBound, Occupied' \subseteq Occupied
    PROVE  IsFiniteSet(Occupied)' /\ CapacityBound'
<1>1. IsFiniteSet(Occupied') /\ Cardinality(Occupied') <= Cardinality(Occupied)
  BY FS_Subset
<1>2. Cardinality(Occupied') \in Nat /\ Cardinality(Occupied) \in Nat
  BY <1>1, FS_CardinalityType
<1>3. Cardinality(Occupied) <= MaxSandboxes
  BY DEF CapacityBound
<1>4. Cardinality(Occupied') <= MaxSandboxes
  BY <1>1, <1>2, <1>3
<1> QED
  BY <1>1, <1>4 DEF CapacityBound

(* One more id, below the capacity, stays within it. *)
LEMMA GrowKeepsBound ==
    ASSUME IsFiniteSet(Occupied), HasRoom, NEW i, i \notin Occupied,
           Occupied' = Occupied \cup {i}
    PROVE  IsFiniteSet(Occupied)' /\ CapacityBound'
<1>1. /\ IsFiniteSet(Occupied')
      /\ Cardinality(Occupied') = Cardinality(Occupied) + 1
  BY FS_AddElement
<1>2. Cardinality(Occupied) \in Nat
  BY FS_CardinalityType
<1>3. Cardinality(Occupied) < MaxSandboxes
  BY DEF HasRoom
<1>4. Cardinality(Occupied') <= MaxSandboxes
  BY <1>1, <1>2, <1>3
<1> QED
  BY <1>1, <1>4 DEF CapacityBound

(* The initial state satisfies the inductive invariant. *)
LEMMA InitIInv == Init => IInv
<1> SUFFICES ASSUME Init PROVE IInv
  OBVIOUS
<1> USE DEF Init
<1>1. Occupied = {}
  BY DEF Occupied
<1>2. IsFiniteSet(Occupied) /\ CapacityBound
  BY <1>1, FS_EmptySet DEF CapacityBound
<1>3. TypeOK
  BY DEF TypeOK
<1>4. PoolIndexed /\ PooledIsLive /\ NoStuckSlot
  BY <1>1 DEF PoolIndexed, PooledIsLive, NoStuckSlot
<1>5. EnginePhases
  BY DEF EnginePhases
<1> QED
  BY <1>2, <1>3, <1>4, <1>5 DEF IInv

(* The invariants that speak of the pool and the engines, without the      *)
(* finiteness of the pool.                                                 *)
Core == TypeOK /\ PoolIndexed /\ EnginePhases /\ PooledIsLive /\ NoStuckSlot

(* create_sandbox registers a fresh object under a free id.                *)
LEMMA CreateCore ==
    ASSUME Core, NEW i \in Id, NEW b \in Box, Create(i, b)
    PROVE  Core'
<1> USE DEF Core, Create, requestVars, engineVars, loopVars, IdIsFree
<1>1. TypeOK'
  BY DEF TypeOK
<1>2. PoolIndexed'
  BY DEF TypeOK, PoolIndexed, Occupied, EnginePhases, PooledIsLive
<1>3. EnginePhases'
  BY DEF TypeOK, EnginePhases
<1>4. PooledIsLive'
  BY DEF TypeOK, EnginePhases, PooledIsLive, Occupied
<1>5. NoStuckSlot'
  BY DEF TypeOK, NoStuckSlot, Occupied, PooledIsLive
<1> QED
  BY <1>1, <1>2, <1>3, <1>4, <1>5 DEF Core

(* A browser appears under an engine that is still starting.               *)
LEMMA LaunchCore ==
    ASSUME Core, NEW b \in Box, Launch(b)
    PROVE  Core'
<1> USE DEF Core, Launch, requestVars, loopVars
<1>1. TypeOK'
  BY DEF TypeOK
<1>2. PoolIndexed'
  BY DEF TypeOK, PoolIndexed, Occupied
<1>3. EnginePhases'
  BY DEF TypeOK, EnginePhases
<1>4. PooledIsLive'
  BY DEF TypeOK, EnginePhases, PooledIsLive, Occupied, PoolIndexed
<1>5. NoStuckSlot'
  BY DEF TypeOK, NoStuckSlot, EnginePhases, PooledIsLive, Occupied, PoolIndexed
<1> QED
  BY <1>1, <1>2, <1>3, <1>4, <1>5

(* The engine becomes _started; a plain box turns READY.                   *)
LEMMA EngineUpCore ==
    ASSUME Core, NEW b \in Box, EngineUp(b)
    PROVE  Core'
<1> USE DEF Core, EngineUp, Answer, Touched, loopVars
<1>1. TypeOK'
  BY DEF TypeOK
<1>2. PoolIndexed'
  BY DEF TypeOK, PoolIndexed, Occupied
<1>3. EnginePhases'
  BY DEF TypeOK, EnginePhases
<1>4. PooledIsLive'
  BY DEF TypeOK, EnginePhases, PooledIsLive, Occupied, PoolIndexed
<1>5. NoStuckSlot'
  BY DEF TypeOK, NoStuckSlot, EnginePhases, PooledIsLive, Occupied, PoolIndexed
<1> QED
  BY <1>1, <1>2, <1>3, <1>4, <1>5

(* A GitBox has its repository and turns READY.                            *)
LEMMA SetupDoneCore ==
    ASSUME Core, NEW b \in Box, SetupDone(b)
    PROVE  Core'
<1> USE DEF Core, SetupDone, Answer, Touched, engineVars, loopVars
<1>1. TypeOK'
  BY DEF TypeOK
<1>2. PoolIndexed'
  BY DEF TypeOK, PoolIndexed, Occupied
<1>3. EnginePhases'
  BY DEF TypeOK, EnginePhases
<1>4. PooledIsLive'
  BY DEF TypeOK, EnginePhases, PooledIsLive, Occupied, PoolIndexed
<1>5. NoStuckSlot'
  BY DEF TypeOK, NoStuckSlot, EnginePhases, PooledIsLive, Occupied, PoolIndexed
<1> QED
  BY <1>1, <1>2, <1>3, <1>4, <1>5

(* A failed create_sandbox frees its id, whoever holds it.                 *)
LEMMA StartFailsCore ==
    ASSUME Core, NEW b \in Box, StartFails(b)
    PROVE  Core'
<1> USE DEF Core, StartFails, engineVars, loopVars
<1>1. TypeOK'
  BY DEF TypeOK
<1>2. PoolIndexed'
  BY DEF TypeOK, PoolIndexed, Occupied
<1>3. EnginePhases'
  BY DEF TypeOK, EnginePhases
<1>4. PooledIsLive'
  BY DEF TypeOK, EnginePhases, PooledIsLive, Occupied, PoolIndexed
<1>5. NoStuckSlot'
  BY DEF TypeOK, NoStuckSlot, EnginePhases, PooledIsLive, Occupied, PoolIndexed
<1> QED
  BY <1>1, <1>2, <1>3, <1>4, <1>5

(* An execution marks its sandbox and is counted in.                       *)
LEMMA ExecBeginCore ==
    ASSUME Core, NEW i \in Id, ExecBegin(i)
    PROVE  Core'
<1> USE DEF Core, ExecBegin, Touched, requestVars, engineVars, loopVars
<1>1. TypeOK'
  BY DEF TypeOK
<1>2. PoolIndexed'
  BY DEF TypeOK, PoolIndexed, Occupied
<1>3. EnginePhases'
  BY DEF TypeOK, EnginePhases, PooledIsLive, Occupied
<1>4. PooledIsLive'
  BY DEF TypeOK, EnginePhases, PooledIsLive, Occupied, PoolIndexed
<1>5. NoStuckSlot'
  BY DEF TypeOK, NoStuckSlot, EnginePhases, PooledIsLive, Occupied, PoolIndexed
<1> QED
  BY <1>1, <1>2, <1>3, <1>4, <1>5

(* The finally clause counts an execution out.                             *)
LEMMA ExecEndCore ==
    ASSUME Core, NEW b \in Box, ExecEnd(b)
    PROVE  Core'
<1> USE DEF Core, ExecEnd, requestVars, engineVars, loopVars
<1>1. TypeOK'
  BY DEF TypeOK
<1>2. PoolIndexed'
  BY DEF TypeOK, PoolIndexed, Occupied
<1>3. EnginePhases'
  BY DEF TypeOK, EnginePhases
<1>4. PooledIsLive'
  BY DEF TypeOK, EnginePhases, PooledIsLive, Occupied, PoolIndexed
<1>5. NoStuckSlot'
  BY DEF TypeOK, NoStuckSlot, EnginePhases, PooledIsLive, Occupied, PoolIndexed
<1> QED
  BY <1>1, <1>2, <1>3, <1>4, <1>5

(* A touch only moves the idle clock.                                      *)
LEMMA TouchCore ==
    ASSUME Core, NEW i \in Id, Touch(i)
    PROVE  Core'
<1> USE DEF Core, Touch, Touched, requestVars, engineVars, loopVars
<1>1. TypeOK'
  BY DEF TypeOK
<1>2. PoolIndexed'
  BY DEF TypeOK, PoolIndexed, Occupied
<1>3. EnginePhases'
  BY DEF TypeOK, EnginePhases
<1>4. PooledIsLive'
  BY DEF TypeOK, EnginePhases, PooledIsLive, Occupied, PoolIndexed
<1>5. NoStuckSlot'
  BY DEF TypeOK, NoStuckSlot, EnginePhases, PooledIsLive, Occupied, PoolIndexed
<1> QED
  BY <1>1, <1>2, <1>3, <1>4, <1>5

(* Time passing only moves the clocks.                                     *)
LEMMA BecomeDueCore ==
    ASSUME Core, NEW b \in Box, NEW d \in {"idle", "aged"}, BecomeDue(b, d)
    PROVE  Core'
<1> USE DEF Core, BecomeDue, requestVars, engineVars, loopVars
<1>1. TypeOK'
  BY DEF TypeOK
<1>2. PoolIndexed'
  BY DEF TypeOK, PoolIndexed, Occupied
<1>3. EnginePhases'
  BY DEF TypeOK, EnginePhases
<1>4. PooledIsLive'
  BY DEF TypeOK, EnginePhases, PooledIsLive, Occupied, PoolIndexed
<1>5. NoStuckSlot'
  BY DEF TypeOK, NoStuckSlot, EnginePhases, PooledIsLive, Occupied, PoolIndexed
<1> QED
  BY <1>1, <1>2, <1>3, <1>4, <1>5

(* A box that has been stopped was out of the pool before.                 *)
LEMMA StopReturnsCore ==
    ASSUME Core, NEW b \in Box, StopReturns(b)
    PROVE  Core'
<1> USE DEF Core, StopReturns, requestVars, loopVars
<1>1. TypeOK'
  BY DEF TypeOK
<1>2. PoolIndexed'
  BY DEF TypeOK, PoolIndexed, Occupied
<1>3. EnginePhases'
  BY DEF TypeOK, EnginePhases
<1>4. PooledIsLive'
  BY DEF TypeOK, EnginePhases, PooledIsLive, Occupied, PoolIndexed
<1>5. NoStuckSlot'
  BY DEF TypeOK, NoStuckSlot, EnginePhases, PooledIsLive, Occupied, PoolIndexed
<1> QED
  BY <1>1, <1>2, <1>3, <1>4, <1>5

(* Cancelling the reaper abandons only boxes out of the pool.              *)
LEMMA StopCore ==
    ASSUME Core, Stop
    PROVE  Core'
<1> USE DEF Core, Stop, requestVars
<1>1. TypeOK'
  BY DEF TypeOK
<1>2. PoolIndexed'
  BY DEF TypeOK, PoolIndexed, Occupied
<1>3. EnginePhases'
  BY DEF TypeOK, EnginePhases
<1>4. PooledIsLive'
  BY DEF TypeOK, EnginePhases, PooledIsLive, Occupied, PoolIndexed
<1>5. NoStuckSlot'
  BY DEF TypeOK, NoStuckSlot, EnginePhases, PooledIsLive, Occupied, PoolIndexed
<1> QED
  BY <1>1, <1>2, <1>3, <1>4, <1>5

(* The end of stop() changes no box.                                       *)
LEMMA StopDoneCore ==
    ASSUME Core, StopDone
    PROVE  Core'
<1> USE DEF Core, StopDone, requestVars, engineVars
<1>1. TypeOK'
  BY DEF TypeOK
<1>2. PoolIndexed'
  BY DEF TypeOK, PoolIndexed, Occupied
<1>3. EnginePhases'
  BY DEF TypeOK, EnginePhases
<1>4. PooledIsLive'
  BY DEF TypeOK, EnginePhases, PooledIsLive, Occupied, PoolIndexed
<1>5. NoStuckSlot'
  BY DEF TypeOK, NoStuckSlot, EnginePhases, PooledIsLive, Occupied, PoolIndexed
<1> QED
  BY <1>1, <1>2, <1>3, <1>4, <1>5

(* A batch of destructions keeps the core facts, whoever asks for it.      *)
LEMMA DestroyAllCore ==
    ASSUME Core, NEW ids \in SUBSET Id, NEW who \in {"client", "reaper", "stop"},
           DestroyAll(ids, who),
           reapQueue' \subseteq Id, stopQueue' \subseteq Id,
           mgr' \in {"running", "cancelling", "destroying", "stopped"}
    PROVE  Core'
<1> DEFINE hit == {pool[i] : i \in ids} \ {NoBox}
<1> USE DEF Core, DestroyAll, requestVars
<1>0. /\ pool' = [i \in Id |-> IF i \in ids THEN NoBox ELSE pool[i]]
      /\ state' = [b \in Box |-> IF b \in hit THEN "destroyed" ELSE state[b]]
      /\ browser' = [b \in Box |->
                       IF b \in hit /\ started[b] THEN "closing" ELSE browser[b]]
      /\ closer' = [b \in Box |->
                       IF b \in hit /\ started[b] THEN who ELSE closer[b]]
      /\ due' = [b \in Box |-> IF b \in hit THEN "no" ELSE due[b]]
      /\ UNCHANGED <<running, ident, starter, started>>
  OBVIOUS
<1>a. hit \subseteq Box
  BY DEF TypeOK
<1>b. \A b \in hit : b # NoBox /\ \E i \in ids : i \in Occupied /\ pool[i] = b
  BY DEF Occupied
<1>c. \A j \in Occupied : j \notin ids => pool[j] \notin hit
  BY <1>b DEF PoolIndexed
<1>d. \A j \in Id : j \in Occupied' =>
         j \in Occupied /\ j \notin ids /\ pool'[j] = pool[j] /\ pool[j] \in Box
  BY <1>0 DEF Occupied, TypeOK
<1>e. \A b \in hit : state[b] # "unborn" /\ closer[b] = "none"
                     /\ browser[b] \in {"none", "open"}
  BY <1>b DEF PooledIsLive
<1> HIDE DEF hit, DestroyAll
<1>1. TypeOK'
  BY <1>0, <1>a DEF TypeOK
<1>2. PoolIndexed'
  BY <1>0, <1>d DEF PoolIndexed, Occupied
<1>3. EnginePhases'
  BY <1>0, <1>a, <1>e DEF EnginePhases, TypeOK
<1>4. PooledIsLive'
  BY <1>0, <1>c, <1>d DEF PooledIsLive, Occupied
<1>5. NoStuckSlot'
  BY <1>0, <1>c, <1>d DEF NoStuckSlot, Occupied
<1> QED
  BY <1>1, <1>2, <1>3, <1>4, <1>5

(* One run of a destruction loop stays within the loop's list.             *)
LEMMA OneRunSubset ==
    ASSUME NEW Q, NEW D \in OneRun(Q)
    PROVE  D \subseteq Q
BY DEF OneRun

(* Every step but Create leaves at most the registered ids registered.     *)
LEMMA OnlyCreateRegisters ==
    ASSUME TypeOK, Next, ~ \E i \in Id, b \in Box : Create(i, b)
    PROVE  Occupied' \subseteq Occupied
<1> USE DEF TypeOK, Occupied
<1>1. ASSUME NEW b \in Box, StartStep(b) \/ ExecEnd(b) \/ StopReturns(b)
                            \/ BecomeDue(b, "idle") \/ BecomeDue(b, "aged")
      PROVE  Occupied' \subseteq Occupied
  BY <1>1 DEF StartStep, Launch, EngineUp, SetupDone, StartFails, ExecEnd,
              StopReturns, BecomeDue
<1>2. ASSUME NEW i \in Id, ExecBegin(i) \/ Touch(i) \/ Destroy(i)
      PROVE  Occupied' \subseteq Occupied
  BY <1>2 DEF ExecBegin, Touch, Destroy, DestroyAll
<1>3. ASSUME NEW D, NEW who, DestroyAll(D, who)
      PROVE  Occupied' \subseteq Occupied
  BY <1>3 DEF DestroyAll
<1>4. ASSUME ReapScan \/ ReapNext \/ StopSnapshot \/ StopNext
      PROVE  Occupied' \subseteq Occupied
  BY <1>3, <1>4 DEF ReapScan, ReapNext, StopSnapshot, StopNext
<1>5. ASSUME Stop \/ StopDone
      PROVE  Occupied' \subseteq Occupied
  BY <1>5 DEF Stop, StopDone
<1> QED
  BY <1>1, <1>2, <1>4, <1>5 DEF Next

(* Every step of the pool keeps the core facts. *)
LEMMA NextCore ==
    ASSUME Core, Next
    PROVE  Core'
<1>1. ASSUME NEW i \in Id, NEW b \in Box, Create(i, b) PROVE Core'
  BY <1>1, CreateCore
<1>2. ASSUME NEW b \in Box, StartStep(b) PROVE Core'
  BY <1>2, LaunchCore, EngineUpCore, SetupDoneCore, StartFailsCore DEF StartStep
<1>3. ASSUME NEW b \in Box, ExecEnd(b) \/ StopReturns(b) \/ BecomeDue(b, "idle")
                            \/ BecomeDue(b, "aged")
      PROVE  Core'
  BY <1>3, ExecEndCore, StopReturnsCore, BecomeDueCore
<1>4. ASSUME NEW i \in Id, ExecBegin(i) \/ Touch(i) PROVE Core'
  BY <1>4, ExecBeginCore, TouchCore
<1>5. ASSUME NEW i \in Id, Destroy(i) PROVE Core'
  BY <1>5, DestroyAllCore DEF Destroy, loopVars, Core, TypeOK
<1>6. CASE ReapScan
  <2>1. PICK D \in OneRun(Victims) : DestroyAll(D, "reaper") /\ reapQueue' = Victims \ D
    BY <1>6 DEF ReapScan
  <2>2. Victims \subseteq Id /\ D \subseteq Victims
    BY OneRunSubset DEF Victims, Occupied
  <2> QED
    BY <1>6, <2>1, <2>2, DestroyAllCore DEF ReapScan, Core, TypeOK
<1>7. CASE ReapNext
  <2>1. PICK D \in OneRun(reapQueue) :
            DestroyAll(D, "reaper") /\ reapQueue' = reapQueue \ D
    BY <1>7 DEF ReapNext
  <2>2. reapQueue \subseteq Id /\ D \subseteq reapQueue
    BY OneRunSubset DEF Core, TypeOK
  <2> QED
    BY <1>7, <2>1, <2>2, DestroyAllCore DEF ReapNext, Core, TypeOK
<1>8. CASE Stop
  BY <1>8, StopCore
<1>9. CASE StopSnapshot
  <2>1. PICK D \in OneRun(Occupied) : DestroyAll(D, "stop") /\ stopQueue' = Occupied \ D
    BY <1>9 DEF StopSnapshot
  <2>2. Occupied \subseteq Id /\ D \subseteq Occupied
    BY OneRunSubset DEF Occupied
  <2> QED
    BY <1>9, <2>1, <2>2, DestroyAllCore DEF StopSnapshot, Core, TypeOK
<1>10. CASE StopNext
  <2>1. PICK D \in OneRun(stopQueue) :
            DestroyAll(D, "stop") /\ stopQueue' = stopQueue \ D
    BY <1>10 DEF StopNext
  <2>2. stopQueue \subseteq Id /\ D \subseteq stopQueue
    BY OneRunSubset DEF Core, TypeOK
  <2> QED
    BY <1>10, <2>1, <2>2, DestroyAllCore DEF StopNext, Core, TypeOK
<1>11. CASE StopDone
  BY <1>11, StopDoneCore
<1> QED
  BY <1>1, <1>2, <1>3, <1>4, <1>5, <1>6, <1>7, <1>8, <1>9, <1>10, <1>11 DEF Next

(* Every step of the pool keeps the inductive invariant. *)
LEMMA NextIInv == IInv /\ [Next]_vars => IInv'
<1> SUFFICES ASSUME IInv, [Next]_vars PROVE IInv'
  OBVIOUS
<1>1. Core /\ IsFiniteSet(Occupied) /\ CapacityBound
  BY DEF IInv, Core
<1>2. CASE UNCHANGED vars
  BY <1>1, <1>2 DEF vars, requestVars, engineVars, loopVars, IInv, TypeOK,
       CapacityBound, PoolIndexed, EnginePhases, PooledIsLive, NoStuckSlot, Occupied
<1>3. CASE \E i \in Id, b \in Box : Create(i, b)
  <2>1. PICK i \in Id, b \in Box : Create(i, b)
    BY <1>3
  <2>2. HasRoom /\ i \notin Occupied /\ Occupied' = Occupied \cup {i}
    BY <2>1, <1>1 DEF Create, IdIsFree, Occupied, Core, TypeOK
  <2>3. IsFiniteSet(Occupied)' /\ CapacityBound'
    BY <2>2, <1>1, GrowKeepsBound
  <2>4. Core'
    BY <2>1, <1>1, CreateCore
  <2> QED
    BY <2>3, <2>4 DEF IInv, Core
<1>4. CASE Next /\ ~ \E i \in Id, b \in Box : Create(i, b)
  <2>1. Occupied' \subseteq Occupied
    BY <1>1, <1>4, OnlyCreateRegisters DEF Core
  <2>2. IsFiniteSet(Occupied)' /\ CapacityBound'
    BY <2>1, <1>1, ShrinkKeepsBound
  <2>3. Core'
    BY <1>1, <1>4, NextCore
  <2> QED
    BY <2>2, <2>3 DEF IInv, Core
<1> QED
  BY <1>2, <1>3, <1>4

(* The inductive invariant holds in every reachable state of the pool.     *)
THEOREM InvariantHolds == Spec => []IInv
BY InitIInv, NextIInv, PTL DEF Spec

(* Every variable of the pool keeps its type (box_manager.py's fields).    *)
THEOREM TypeCorrect == Spec => []TypeOK
<1>1. IInv => TypeOK
  BY DEF IInv
<1> QED
  BY InvariantHolds, <1>1, PTL

(* create_sandbox never registers more than max_sandboxes ids, whatever    *)
(* the interleaving of creations, failures, destructions and reaping.      *)
THEOREM CapacityHolds == Spec => []CapacityBound
<1>1. IInv => CapacityBound
  BY DEF IInv
<1> QED
  BY InvariantHolds, <1>1, PTL

(* An id never resolves to a box that is being stopped or has been: the    *)
(* pop in _destroy_sandbox precedes every box.stop().                      *)
THEOREM PooledHolds == Spec => []PooledIsLive
<1>1. IInv => PooledIsLive
  BY DEF IInv
<1> QED
  BY InvariantHolds, <1>1, PTL

(* A registered sandbox shows WARMING or EXECUTING, the states _reap       *)
(* skips, only while a coroutine will still change that.                   *)
THEOREM NoStuckSlotHolds == Spec => []NoStuckSlot
<1>1. IInv => NoStuckSlot
  BY DEF IInv
<1> QED
  BY InvariantHolds, <1>1, PTL

(* box.stop() begins at most once on a box: only a registered, open box    *)
(* is handed to a stopper, and a stopper never takes over from another.    *)
THEOREM StoppedOnceHolds == Spec => StoppedOnce
<1> DEFINE Once == \A b \in Box :
         /\ browser'[b] = "closing" /\ browser[b] # "closing" => browser[b] = "open"
         /\ closer[b] # "none" => closer'[b] \in {closer[b], "none"}
<1>1. ASSUME IInv, [Next]_vars PROVE [Once]_vars
  <2> SUFFICES ASSUME Next PROVE Once
    BY <1>1
  <2> USE <1>1 DEF IInv, TypeOK
  <2>1. ASSUME NEW D \in SUBSET Id, NEW who, DestroyAll(D, who) PROVE Once
    <3> DEFINE hit == {pool[i] : i \in D} \ {NoBox}
    <3>1. /\ browser' = [b \in Box |->
                       IF b \in hit /\ started[b] THEN "closing" ELSE browser[b]]
          /\ closer' = [b \in Box |->
                       IF b \in hit /\ started[b] THEN who ELSE closer[b]]
      BY <2>1 DEF DestroyAll
    <3>2. \A b \in hit : closer[b] = "none" /\ browser[b] \in {"none", "open"}
      BY DEF PooledIsLive, Occupied
    <3>3. \A b \in Box : started[b] => browser[b] \in {"open", "closing"}
      BY DEF EnginePhases
    <3> QED
      BY <3>1, <3>2, <3>3
  <2>2. ASSUME NEW i \in Id, NEW b \in Box, Create(i, b) PROVE Once
    BY <2>2 DEF Create, engineVars
  <2>3. ASSUME NEW b \in Box, StartStep(b) PROVE Once
    BY <2>3 DEF StartStep, Launch, EngineUp, SetupDone, StartFails, engineVars
  <2>4. ASSUME NEW b \in Box, ExecEnd(b) \/ StopReturns(b) \/ BecomeDue(b, "idle")
                              \/ BecomeDue(b, "aged")
        PROVE  Once
    BY <2>4 DEF ExecEnd, StopReturns, BecomeDue, engineVars
  <2>5. ASSUME NEW i \in Id, ExecBegin(i) \/ Touch(i) PROVE Once
    BY <2>5 DEF ExecBegin, Touch, engineVars
  <2>6. ASSUME NEW i \in Id, Destroy(i) PROVE Once
    BY <2>1, <2>6 DEF Destroy
  <2>7. ASSUME ReapScan \/ ReapNext PROVE Once
    BY <2>1, <2>7, OneRunSubset DEF ReapScan, ReapNext, Victims, Occupied
  <2>8. ASSUME StopSnapshot \/ StopNext PROVE Once
    BY <2>1, <2>8, OneRunSubset DEF StopSnapshot, StopNext, Occupied
  <2>9. ASSUME Stop \/ StopDone PROVE Once
    BY <2>9 DEF Stop, StopDone, engineVars
  <2> QED
    BY <2>2, <2>3, <2>4, <2>5, <2>6, <2>7, <2>8, <2>9 DEF Next
<1> QED
  BY <1>1, InvariantHolds, PTL DEF Spec, StoppedOnce

-----------------------------------------------------------------------------
(* Refinement: what a caller sees of the pool is a behaviour of            *)
(* SandboxSlots.                                                           *)

View == [i \in Id |-> IF pool[i] = NoBox THEN "absent" ELSE state[pool[i]]]

(* The slots the abstraction counts are the registered ids.                *)
LEMMA HeldIsOccupied ==
    ASSUME Core
    PROVE  /\ Slots!Held = Occupied
           /\ \A i \in Occupied : View[i] \in {"warming", "ready", "executing"}
<1>1. \A i \in Occupied : state[pool[i]] \in {"warming", "ready", "executing"}
  BY DEF Core, TypeOK, PooledIsLive, Occupied
<1> QED
  BY <1>1 DEF Slots!Held, Slots!Absent, Occupied, View

(* Giving up any set of ids, the others unchanged, is a Release. *)
LEMMA ReleaseStep ==
    ASSUME Core, NEW D \in SUBSET Id,
           \A i \in Id : View'[i] = IF i \in D THEN "absent" ELSE View[i]
    PROVE  Slots!Next
<1> DEFINE S == D \cap Occupied
<1>1. S \subseteq Slots!Held /\ S \in SUBSET Id
  BY HeldIsOccupied DEF Occupied
<1>2. View' = [i \in Id |-> IF i \in S THEN "absent" ELSE View[i]]
  BY DEF View, Occupied
<1> HIDE DEF S
<1> QED
  BY <1>1, <1>2 DEF Slots!Next, Slots!Release, Slots!Absent, View

(* One id shows "ready" or "executing" instead, the others are unchanged.  *)
LEMMA TurnStep ==
    ASSUME Core, NEW i \in Occupied, NEW s \in {"ready", "executing"},
           View' = [View EXCEPT ![i] = s]
    PROVE  Slots!Next
<1>1. View[i] # "absent" /\ i \in Id
  BY HeldIsOccupied DEF Occupied
<1>2. Slots!Turn(i)
  BY <1>1 DEF Slots!Turn, Slots!Absent, Slots!Shown, View
<1> QED
  BY <1>1, <1>2 DEF Slots!Next

(* A change of one box's state to "ready" or "executing" shows at its id,  *)
(* if it has one.                                                          *)
LEMMA StateStep ==
    ASSUME Core, NEW b \in Box, NEW s \in {"ready", "executing"},
           UNCHANGED pool, state' = [state EXCEPT ![b] = s]
    PROVE  Slots!Next \/ UNCHANGED View
<1> USE DEF Core, TypeOK
<1>1. CASE \E i \in Occupied : pool[i] = b
  <2>1. PICK i \in Occupied : pool[i] = b
    BY <1>1
  <2>2. \A j \in Occupied : pool[j] = b => j = i
    BY <2>1 DEF PoolIndexed
  <2>3. \A j \in Occupied : pool[j] \in Box
    BY DEF Occupied
  <2>4. \A j \in Id : View'[j] = IF j = i THEN s ELSE View[j]
    BY <2>1, <2>2, <2>3 DEF View, Occupied
  <2>5. View' = [j \in Id |-> IF j = i THEN s ELSE View[j]]
    BY <2>4 DEF View
  <2>6. [View EXCEPT ![i] = s] = [j \in Id |-> IF j = i THEN s ELSE View[j]]
    BY DEF View
  <2> QED
    BY <2>5, <2>6, TurnStep
<1>2. CASE ~ \E i \in Occupied : pool[i] = b
  BY <1>2 DEF View, Occupied
<1> QED
  BY <1>1, <1>2

(* A batch of destructions gives up exactly its ids.                       *)
LEMMA DestroyAllReleases ==
    ASSUME Core, NEW D \in SUBSET Id, NEW who, DestroyAll(D, who)
    PROVE  Slots!Next
<1> DEFINE hit == {pool[i] : i \in D} \ {NoBox}
<1>1. /\ pool' = [i \in Id |-> IF i \in D THEN NoBox ELSE pool[i]]
      /\ state' = [b \in Box |-> IF b \in hit THEN "destroyed" ELSE state[b]]
  BY DEF DestroyAll
<1>2. \A j \in Occupied : j \notin D => pool[j] \notin hit /\ pool[j] \in Box
  BY DEF Core, TypeOK, PoolIndexed, Occupied
<1>3. \A i \in Id : View'[i] = IF i \in D THEN "absent" ELSE View[i]
  BY <1>1, <1>2 DEF View, Occupied, Core, TypeOK
<1> QED
  BY <1>3, ReleaseStep

(* Every step of the pool is a step of the slots or leaves the listing. *)
LEMMA StepRefines ==
    ASSUME IInv, [Next]_vars
    PROVE  Slots!Next \/ UNCHANGED View
<1>0. Core
  BY DEF IInv, Core
<1>1. ASSUME NEW i \in Id, NEW b \in Box, Create(i, b)
      PROVE  Slots!Next
  <2>1. i \notin Occupied /\ View[i] = "absent"
    BY <1>1 DEF Create, IdIsFree, Occupied, View
  <2>2. \A j \in Occupied : pool[j] # b
    BY <1>0, <1>1 DEF Create, Core, PooledIsLive
  <2>3. View' = [View EXCEPT ![i] = "warming"]
    BY <1>0, <1>1, <2>1, <2>2 DEF Create, View, Core, TypeOK, Occupied
  <2>4. Cardinality(Slots!Held) < MaxSandboxes
    BY <1>0, <1>1, HeldIsOccupied DEF Create, HasRoom
  <2>5. Slots!Admit(i)
    <3>1. Slots!Cardinality(Slots!Held) = Cardinality(Slots!Held)
      BY DEF Slots!Cardinality, Cardinality
    <3> QED
      BY <2>1, <2>3, <2>4, <3>1 DEF Slots!Admit, Slots!Absent, View
  <2> QED
    BY <2>5 DEF Slots!Next
<1>2. ASSUME NEW b \in Box, StartStep(b)
      PROVE  Slots!Next \/ UNCHANGED View
  <2>1. CASE Launch(b)
    BY <2>1 DEF Launch, View
  <2>2. CASE EngineUp(b)
    BY <1>0, <2>2, StateStep DEF EngineUp, Answer, View
  <2>3. CASE SetupDone(b)
    BY <1>0, <2>3, StateStep DEF SetupDone, Answer
  <2>4. CASE StartFails(b)
    <3>1. ident[b] \in Id
      BY <1>0, <2>4 DEF StartFails, Core, TypeOK, EnginePhases
    <3>2. \A i \in Id : View'[i] = IF i \in {ident[b]} THEN "absent" ELSE View[i]
      BY <1>0, <2>4 DEF StartFails, View, Core, TypeOK
    <3> QED
      BY <1>0, <3>1, <3>2, ReleaseStep
  <2> QED
    BY <1>2, <2>1, <2>2, <2>3, <2>4 DEF StartStep
<1>3. ASSUME NEW b \in Box, ExecEnd(b)
      PROVE  Slots!Next \/ UNCHANGED View
  <2>1. CASE state[b] = "executing"
    BY <1>0, <1>3, <2>1, StateStep DEF ExecEnd
  <2>2. CASE state[b] # "executing"
    BY <1>0, <1>3, <2>2 DEF ExecEnd, View, Core, TypeOK
  <2> QED
    BY <2>1, <2>2
<1>4. ASSUME NEW b \in Box, StopReturns(b) \/ BecomeDue(b, "idle") \/ BecomeDue(b, "aged")
      PROVE  UNCHANGED View
  BY <1>4 DEF StopReturns, BecomeDue, View
<1>5. ASSUME NEW i \in Id, ExecBegin(i)
      PROVE  Slots!Next \/ UNCHANGED View
  <2>1. pool[i] \in Box
    BY <1>0, <1>5 DEF ExecBegin, Core, TypeOK
  <2>2. UNCHANGED pool /\ \E s \in {"ready", "executing"} :
                              state' = [state EXCEPT ![pool[i]] = s]
    BY <1>5 DEF ExecBegin
  <2> QED
    BY <1>0, <2>1, <2>2, StateStep
<1>6. ASSUME NEW i \in Id, Touch(i)
      PROVE  UNCHANGED View
  BY <1>6 DEF Touch, View
<1>7. ASSUME NEW i \in Id, Destroy(i)
      PROVE  Slots!Next
  BY <1>0, <1>7, DestroyAllReleases DEF Destroy
<1>8. ASSUME ReapScan \/ ReapNext
      PROVE  Slots!Next
  BY <1>0, <1>8, DestroyAllReleases, OneRunSubset
     DEF ReapScan, ReapNext, Victims, Occupied, Core, TypeOK
<1>9. ASSUME StopSnapshot \/ StopNext
      PROVE  Slots!Next
  BY <1>0, <1>9, DestroyAllReleases, OneRunSubset
     DEF StopSnapshot, StopNext, Occupied, Core, TypeOK
<1>10. ASSUME Stop \/ StopDone \/ UNCHANGED vars
      PROVE  UNCHANGED View
  BY <1>10 DEF Stop, StopDone, vars, View
<1> QED
  BY <1>1, <1>2, <1>3, <1>4, <1>5, <1>6, <1>7, <1>8, <1>9, <1>10 DEF Next

(* The pool implements SandboxSlots: a slot opens only as "warming", below *)
(* the capacity and on a free id, and never goes back to "warming".        *)
THEOREM PoolImplementsSlots == Spec => ImplementsSlots
<1>1. Init => Slots!Init
  BY DEF Init, Slots!Init, Slots!Absent
<1>2. IInv /\ [Next]_vars => [Slots!Next]_View
  BY StepRefines
<1> QED
  BY <1>1, <1>2, InvariantHolds, PTL DEF Spec, ImplementsSlots, Slots!Spec, View
=============================================================================
