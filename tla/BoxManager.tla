----------------------------- MODULE BoxManager -----------------------------
(***************************************************************************)
(* The sandbox pool of one worker (manager/box_manager.py) with the boxes  *)
(* it owns: create / execute / destroy requests, the background reaper and *)
(* the shutdown, all coroutines of one event loop.                         *)
(*                                                                         *)
(* An action is what a coroutine does between two suspensions.  The body   *)
(* of every "async with self._lock" block contains no await and the lock   *)
(* is therefore free whenever a coroutine reaches it: each block is part   *)
(* of the action around it and the lock needs no variable.                 *)
(*                                                                         *)
(* A box is one SandboxInfo object with its CodeExecutorBox and browser.   *)
(* Ids are separate from boxes because _sandboxes maps an id to whichever  *)
(* object holds it now.                                                    *)
(*                                                                         *)
(* A definition preceded by "Slip:" is not part of the model: it is its    *)
(* namesake with one plausible mistake, kept to show which property would  *)
(* notice.                                                                 *)
(***************************************************************************)
EXTENDS Naturals, FiniteSets

CONSTANTS
    Id,             \* sandbox ids
    Box,            \* SandboxInfo objects, each created at most once
    GitBox,         \* those whose box is a GitBox: start() has a second phase
    NoBox,          \* "no entry" in the pool
    NoId,           \* the id of an object not created yet
    MaxSandboxes,   \* AGENTBOX_MAX_SANDBOXES
    MaxRunning,     \* bound: executions in flight on one sandbox
    ReuseIds,       \* may a caller pass the id of an earlier sandbox again?
    GracefulDrain   \* does shutdown wait for the requests in flight?

ASSUME ConstantsAssumption ==
    /\ GitBox \subseteq Box
    /\ NoBox \notin Box
    /\ NoId \notin Id
    /\ MaxSandboxes \in Nat
    /\ MaxRunning \in Nat
    /\ ReuseIds \in BOOLEAN
    /\ GracefulDrain \in BOOLEAN

VARIABLES
    pool,        \* _sandboxes: Id -> the box registered under it
    ident,       \* sandbox_id of a created object
    state,       \* SandboxInfo.state ("unborn" before the object exists)
    starter,     \* where the create_sandbox call of the box is
    started,     \* PyodideEngine._started
    browser,     \* the Chromium process behind the engine
    running,     \* run_code / run_shell calls in flight
    due,         \* past idle_timeout since the last touch() / past max_lifetime
    closer,      \* who awaits box.stop()
    reapQueue,   \* ids of to_destroy the reaper has not reached
    stopQueue,   \* ids of stop()'s snapshot it has not reached
    mgr          \* phase of the manager

requestVars == <<ident, starter>>
engineVars  == <<started, browser, closer>>
loopVars    == <<reapQueue, stopQueue, mgr>>
vars == <<pool, state, running, due, requestVars, engineVars, loopVars>>

Pooled(b)   == \E i \in Id : pool[i] = b
Occupied    == {i \in Id : pool[i] # NoBox}
Closing(who) == \E b \in Box : closer[b] = who

TypeOK ==
    /\ pool \in [Id -> Box \cup {NoBox}]
    /\ ident \in [Box -> Id \cup {NoId}]
    /\ state \in [Box -> {"unborn", "warming", "ready", "executing", "destroyed"}]
    /\ starter \in [Box -> {"none", "launching", "setup", "returned", "raised"}]
    /\ started \in [Box -> BOOLEAN]
    /\ browser \in [Box -> {"none", "open", "closing", "closed", "lost"}]
    /\ running \in [Box -> 0..MaxRunning]
    /\ due \in [Box -> {"no", "idle", "aged"}]
    /\ closer \in [Box -> {"none", "client", "reaper", "stop"}]
    /\ reapQueue \subseteq Id
    /\ stopQueue \subseteq Id
    /\ mgr \in {"running", "cancelling", "destroying", "stopped"}

Init ==
    /\ pool = [i \in Id |-> NoBox]
    /\ ident = [b \in Box |-> NoId]
    /\ state = [b \in Box |-> "unborn"]
    /\ starter = [b \in Box |-> "none"]
    /\ started = [b \in Box |-> FALSE]
    /\ browser = [b \in Box |-> "none"]
    /\ running = [b \in Box |-> 0]
    /\ due = [b \in Box |-> "no"]
    /\ closer = [b \in Box |-> "none"]
    /\ reapQueue = {}
    /\ stopQueue = {}
    /\ mgr = "running"

-----------------------------------------------------------------------------
(* Requests.  With GracefulDrain no request arrives or is still running    *)
(* once the shutdown begins (the ASGI server finishes its requests before  *)
(* it runs the end of lifespan); without it they may (the class used as a  *)
(* context manager beside other tasks of the loop).                        *)

Serving ==
    \/ mgr = "running"
    \/ ~GracefulDrain /\ mgr # "stopped"

Quiet == \A b \in Box :
    /\ starter[b] \notin {"launching", "setup"}
    /\ running[b] = 0
    /\ closer[b] # "client"

HasRoom == Cardinality(Occupied) < MaxSandboxes

(* Slip: the duplicate check is missing. *)
IdIsFree_NoCheck(i) == ReuseIds \/ \A b \in Box : ident[b] # i

IdIsFree(i) ==
    /\ pool[i] = NoBox
    /\ ReuseIds \/ \A b \in Box : ident[b] # i

(* create_sandbox up to the first await of box.start(). *)
Create(i, b) ==
    /\ Serving
    /\ state[b] = "unborn"
    /\ HasRoom
    /\ IdIsFree(i)
    /\ pool' = [pool EXCEPT ![i] = b]
    /\ ident' = [ident EXCEPT ![b] = i]
    /\ state' = [state EXCEPT ![b] = "warming"]
    /\ starter' = [starter EXCEPT ![b] = "launching"]
    /\ UNCHANGED <<running, due, engineVars, loopVars>>

(* chromium.launch() has answered; the engine is not _started yet. *)
Launch(b) ==
    /\ starter[b] = "launching"
    /\ browser[b] = "none"
    /\ browser' = [browser EXCEPT ![b] = "open"]
    /\ UNCHANGED <<pool, state, running, due, requestVars, started, closer,
                   loopVars>>

(* SandboxInfo.touch(): the idle time starts again, the age does not. *)
Touched(b) == due' = [due EXCEPT ![b] = IF @ = "idle" THEN "no" ELSE @]

(* The rest of create_sandbox once box.start() has returned: READY and     *)
(* touch(), whether or not the object is still in the pool.                *)
Answer(b) ==
    /\ starter' = [starter EXCEPT ![b] = "returned"]
    /\ state' = [state EXCEPT ![b] = "ready"]
    /\ Touched(b)

(* The engine is up.  A plain box has then started and create_sandbox      *)
(* returns; a GitBox goes on with its repository.                          *)
EngineUp(b) ==
    /\ starter[b] = "launching"
    /\ browser[b] = "open"
    /\ started' = [started EXCEPT ![b] = TRUE]
    /\ \/ /\ b \notin GitBox
          /\ Answer(b)
       \/ /\ b \in GitBox
          /\ starter' = [starter EXCEPT ![b] = "setup"]
          /\ UNCHANGED <<state, due>>
    /\ UNCHANGED <<pool, running, ident, browser, closer, loopVars>>

(* The last command of GitBox.start() requires the engine to be _started.  *)
SetupDone(b) ==
    /\ starter[b] = "setup"
    /\ started[b]
    /\ Answer(b)
    /\ UNCHANGED <<pool, running, ident, engineVars, loopVars>>

(* Slip: an error in the second phase of a GitBox's start is waited out.   *)
StartFails_LaunchOnly(b) ==
    /\ starter[b] = "launching"
    /\ starter' = [starter EXCEPT ![b] = "raised"]
    /\ pool' = [pool EXCEPT ![ident[b]] = NoBox]
    /\ UNCHANGED <<state, running, due, ident, engineVars, loopVars>>

(* box.start() raises: the entry of this id is popped, and nothing stops   *)
(* what had been launched.                                                 *)
StartFails(b) ==
    /\ starter[b] \in {"launching", "setup"}
    /\ starter' = [starter EXCEPT ![b] = "raised"]
    /\ pool' = [pool EXCEPT ![ident[b]] = NoBox]
    /\ UNCHANGED <<state, running, due, ident, engineVars, loopVars>>

(* run_code / run_shell: _get_info, EXECUTING, touch, and the box's first  *)
(* await.  On a box whose engine is still starting the box raises at once  *)
(* and the finally clause marks it READY.                                  *)
ExecBegin(i) ==
    /\ Serving
    /\ pool[i] # NoBox
    /\ LET b == pool[i] IN
       /\ state[b] # "destroyed"
       /\ Touched(b)
       /\ \/ /\ started[b]
             /\ running[b] < MaxRunning
             /\ running' = [running EXCEPT ![b] = @ + 1]
             /\ state' = [state EXCEPT ![b] = "executing"]
          \/ /\ ~started[b]
             /\ state' = [state EXCEPT ![b] = "ready"]
             /\ UNCHANGED running
    /\ UNCHANGED <<pool, requestVars, engineVars, loopVars>>

(* Slip: no finally clause. *)
ExecEnd_NoFinally(b) ==
    /\ running[b] > 0
    /\ running' = [running EXCEPT ![b] = @ - 1]
    /\ UNCHANGED <<pool, state, due, requestVars, engineVars, loopVars>>

(* The call returns, times out or raises: the finally clause. *)
ExecEnd(b) ==
    /\ running[b] > 0
    /\ running' = [running EXCEPT ![b] = @ - 1]
    /\ state' = [state EXCEPT ![b] = IF @ = "executing" THEN "ready" ELSE @]
    /\ UNCHANGED <<pool, due, requestVars, engineVars, loopVars>>

(* File operations and update_credentials only touch the sandbox. *)
Touch(i) ==
    /\ Serving
    /\ pool[i] # NoBox
    /\ Touched(pool[i])
    /\ UNCHANGED <<pool, state, running, requestVars, engineVars, loopVars>>

-----------------------------------------------------------------------------
(* Destruction.  _destroy_sandbox pops the id, marks the object DESTROYED  *)
(* and enters box.stop(), which suspends only if the engine is _started.   *)
(* The clock of an unregistered object is not read again: it is reset.     *)

Suspends(i) == pool[i] # NoBox /\ started[pool[i]]

(* Slip: a started box is unregistered only after it has been stopped. *)
DestroyAll_StopFirst(ids, who) ==
    LET hit == {pool[i] : i \in ids} \ {NoBox} IN
    /\ pool' = [i \in Id |-> IF i \in ids /\ ~Suspends(i) THEN NoBox ELSE pool[i]]
    /\ state' = [b \in Box |-> IF b \in hit THEN "destroyed" ELSE state[b]]
    /\ browser' = [b \in Box |->
                     IF b \in hit /\ started[b] THEN "closing" ELSE browser[b]]
    /\ closer' = [b \in Box |->
                     IF b \in hit /\ started[b] THEN who ELSE closer[b]]
    /\ UNCHANGED <<due, running, requestVars, started>>

DestroyAll(ids, who) ==
    LET hit == {pool[i] : i \in ids} \ {NoBox} IN
    /\ pool' = [i \in Id |-> IF i \in ids THEN NoBox ELSE pool[i]]
    /\ state' = [b \in Box |-> IF b \in hit THEN "destroyed" ELSE state[b]]
    /\ browser' = [b \in Box |->
                     IF b \in hit /\ started[b] THEN "closing" ELSE browser[b]]
    /\ closer' = [b \in Box |->
                     IF b \in hit /\ started[b] THEN who ELSE closer[b]]
    /\ due' = [b \in Box |-> IF b \in hit THEN "no" ELSE due[b]]
    /\ UNCHANGED <<running, requestVars, started>>

(* The ids a loop of _destroy_sandbox calls over Q goes through before it  *)
(* suspends: it runs past ids that are gone or not started, up to the      *)
(* first box that has to be stopped.  The order of Q is not modelled.      *)
OneRun(Q) ==
    IF \E i \in Q : Suspends(i)
    THEN {D \in SUBSET Q : \E i \in D : /\ Suspends(i)
                                        /\ \A j \in D \ {i} : ~Suspends(j)}
    ELSE {Q}

Destroy(i) ==
    /\ Serving
    /\ pool[i] # NoBox
    /\ DestroyAll({i}, "client")
    /\ UNCHANGED loopVars

(* PyodideEngine.stop() ends. *)
StopReturns(b) ==
    /\ closer[b] # "none"
    /\ closer' = [closer EXCEPT ![b] = "none"]
    /\ started' = [started EXCEPT ![b] = FALSE]
    /\ browser' = [browser EXCEPT ![b] = "closed"]
    /\ UNCHANGED <<pool, state, running, due, requestVars, loopVars>>

-----------------------------------------------------------------------------
(* The reaper. *)

MayReap(b) ==
    \/ state[b] = "destroyed"
    \/ /\ state[b] \notin {"warming", "executing"}
       /\ due[b] # "no"

(* Slip: the idle timeout is forgotten. *)
Victims_AgedOnly == {i \in Occupied : state[pool[i]] = "ready" /\ due[pool[i]] = "aged"}

Victims == {i \in Occupied : MayReap(pool[i])}

ReaperAwake == mgr = "running" /\ ~Closing("reaper")

(* _reap: the scan, and the destructions up to the first suspension. *)
ReapScan ==
    /\ ReaperAwake
    /\ reapQueue = {}
    /\ \E D \in OneRun(Victims) :
         /\ DestroyAll(D, "reaper")
         /\ reapQueue' = Victims \ D
    /\ UNCHANGED <<stopQueue, mgr>>

(* Its loop goes on after a box.stop(), with the list of the old scan. *)
ReapNext ==
    /\ ReaperAwake
    /\ reapQueue # {}
    /\ \E D \in OneRun(reapQueue) :
         /\ DestroyAll(D, "reaper")
         /\ reapQueue' = reapQueue \ D
    /\ UNCHANGED <<stopQueue, mgr>>

(* Time passes. *)
BecomeDue(b, d) ==
    /\ Pooled(b)
    /\ due[b] # d /\ due[b] # "aged"
    /\ due' = [due EXCEPT ![b] = d]
    /\ UNCHANGED <<pool, state, running, requestVars, engineVars, loopVars>>

-----------------------------------------------------------------------------
(* Shutdown. *)

(* stop(): _started = False, the reaper is cancelled.  CancelledError is   *)
(* not an Exception: it leaves the box.stop() the reaper was awaiting with *)
(* its calls to the browser unanswered ("lost"), and drops the list.       *)
Stop ==
    /\ mgr = "running"
    /\ GracefulDrain => Quiet
    /\ mgr' = "cancelling"
    /\ reapQueue' = {}
    /\ started' = [b \in Box |-> started[b] /\ closer[b] # "reaper"]
    /\ browser' = [b \in Box |->
                     IF closer[b] = "reaper" THEN "lost" ELSE browser[b]]
    /\ closer' = [b \in Box |->
                     IF closer[b] = "reaper" THEN "none" ELSE closer[b]]
    /\ UNCHANGED <<pool, state, running, due, requestVars, stopQueue>>

(* ids = list(self._sandboxes.keys()) and the first destructions. *)
StopSnapshot ==
    /\ mgr = "cancelling"
    /\ mgr' = "destroying"
    /\ \E D \in OneRun(Occupied) :
         /\ DestroyAll(D, "stop")
         /\ stopQueue' = Occupied \ D
    /\ UNCHANGED reapQueue

StopNext ==
    /\ mgr = "destroying"
    /\ ~Closing("stop")
    /\ stopQueue # {}
    /\ \E D \in OneRun(stopQueue) :
         /\ DestroyAll(D, "stop")
         /\ stopQueue' = stopQueue \ D
    /\ UNCHANGED <<reapQueue, mgr>>

(* Slip: stop() returns after the first box.stop() that suspends. *)
StopDone_AfterOne ==
    /\ mgr = "destroying"
    /\ ~Closing("stop")
    /\ mgr' = "stopped"
    /\ UNCHANGED <<pool, state, running, due, requestVars, engineVars,
                   reapQueue, stopQueue>>

StopDone ==
    /\ mgr = "destroying"
    /\ ~Closing("stop")
    /\ stopQueue = {}
    /\ mgr' = "stopped"
    /\ UNCHANGED <<pool, state, running, due, requestVars, engineVars,
                   reapQueue, stopQueue>>

-----------------------------------------------------------------------------
StartStep(b) == Launch(b) \/ EngineUp(b) \/ SetupDone(b) \/ StartFails(b)

Next ==
    \/ \E i \in Id, b \in Box : Create(i, b)
    \/ \E b \in Box : \/ StartStep(b)
                      \/ ExecEnd(b)
                      \/ StopReturns(b)
                      \/ BecomeDue(b, "idle")
                      \/ BecomeDue(b, "aged")
    \/ \E i \in Id : ExecBegin(i) \/ Touch(i) \/ Destroy(i)
    \/ ReapScan \/ ReapNext
    \/ Stop \/ StopSnapshot \/ StopNext \/ StopDone

(* Playwright answers every call or raises, the event loop runs what is    *)
(* runnable, and the reaper's sleep ends.  Requests, the passing of time   *)
(* and the end of an execution carry no fairness.                          *)
Fairness ==
    /\ \A b \in Box : WF_vars(StartStep(b)) /\ WF_vars(StopReturns(b))
    /\ WF_vars(ReapScan) /\ WF_vars(ReapNext)
    /\ WF_vars(StopSnapshot) /\ WF_vars(StopNext) /\ WF_vars(StopDone)

Spec == Init /\ [][Next]_vars
FairSpec == Spec /\ Fairness
-----------------------------------------------------------------------------
(* Invariants. *)

(* At most AGENTBOX_MAX_SANDBOXES ids are registered, sandboxes whose      *)
(* browser is still starting included (create_sandbox checks and inserts   *)
(* without suspending in between).                                         *)
CapacityBound == Cardinality(Occupied) <= MaxSandboxes

(* A request that resolves an id never reaches a box that is being stopped *)
(* or has been: _destroy_sandbox unregisters before it stops.  This is why *)
(* the DESTROYED branches of _get_info and _reap never run.                *)
PooledIsLive ==
    \A i \in Occupied :
        /\ state[pool[i]] \notin {"unborn", "destroyed"}
        /\ closer[pool[i]] = "none"
        /\ browser[pool[i]] \in {"none", "open"}

(* No slot is lost for good: the reaper skips WARMING and EXECUTING, so a  *)
(* registered sandbox may show them only while a coroutine is at work that *)
(* will change the state back or free the slot.                            *)
NoStuckSlot ==
    \A i \in Occupied :
        /\ state[pool[i]] = "warming" => starter[pool[i]] = "launching"
                                         \/ starter[pool[i]] = "setup"
        /\ state[pool[i]] = "executing" => running[pool[i]] > 0

(* When stop() has returned after a drained shutdown, nothing is           *)
(* registered and no box.stop() is in progress.                            *)
StoppedIsEmpty ==
    GracefulDrain /\ mgr = "stopped" =>
        /\ Occupied = {}
        /\ \A b \in Box : closer[b] = "none" /\ browser[b] # "closing"

(* The pool is an index: a box sits under its own id only.                 *)
PoolIndexed == \A i \in Occupied : ident[pool[i]] = i

(* What the phases of start() and stop() say about the engine.             *)
EnginePhases ==
    \A b \in Box :
        /\ starter[b] = "none" <=> state[b] = "unborn"
        /\ state[b] # "unborn" => ident[b] # NoId
        /\ starter[b] = "launching" => ~started[b] /\ closer[b] = "none"
                                       /\ browser[b] \in {"none", "open"}
        /\ started[b] => browser[b] \in {"open", "closing"}
        /\ browser[b] = "closing" <=> closer[b] # "none"
        /\ starter[b] = "none" => ~started[b] /\ browser[b] = "none"

(* The inductive strengthening of the invariants above.                    *)
IInv ==
    /\ TypeOK
    /\ IsFiniteSet(Occupied)
    /\ CapacityBound
    /\ PoolIndexed
    /\ EnginePhases
    /\ PooledIsLive
    /\ NoStuckSlot

-----------------------------------------------------------------------------
(* Action properties. *)

(* box.stop() runs at most once on a box: the pop makes one caller the     *)
(* owner of the object, whatever destroys it.                              *)
StoppedOnce ==
    [][\A b \in Box :
         /\ browser'[b] = "closing" /\ browser[b] # "closing" => browser[b] = "open"
         /\ closer[b] # "none" => closer'[b] \in {closer[b], "none"}]_vars

(* box_manager.py:358, "Don't reap sandboxes that are warming up or        *)
(* executing": the reaper's step that takes a sandbox never finds it in    *)
(* one of these states.  (Not so: the list of one scan is worked off over  *)
(* several box.stop() calls.  Nor would the state be enough: the first of  *)
(* two overlapping executions to return sets READY.)                       *)
ReaperSparesBusy ==
    [][\A i \in Occupied :
         (ReapScan \/ ReapNext) /\ pool'[i] # pool[i] =>
             state[pool[i]] \notin {"warming", "executing"}]_vars

-----------------------------------------------------------------------------
(* Liveness, under FairSpec and a drained shutdown. *)

(* A sandbox that may be reaped is reaped or used again.                   *)
IdleIsReaped ==
    \A b \in Box :
        Pooled(b) /\ MayReap(b) ~> ~Pooled(b) \/ ~MayReap(b)

(* Every create_sandbox returns or raises, so WARMING slots come back.     *)
StartSettles ==
    \A b \in Box :
        starter[b] \in {"launching", "setup"} ~> starter[b] \in {"returned", "raised"}

(* No slot is taken for ever: the reaper skips warming sandboxes and takes *)
(* one list after another, and creations, executions and the stops of      *)
(* other sandboxes suspend in between (box_manager.py _reap, create_sandbox).*)
SlotsComeBack == StartSettles /\ IdleIsReaped

(* stop() terminates, wherever it cancelled the reaper, and from its       *)
(* return on nothing is left (box_manager.py stop).                        *)
StopEmpties ==
    /\ mgr # "running" ~> mgr = "stopped"
    /\ [](mgr = "stopped" => []StoppedIsEmpty)

-----------------------------------------------------------------------------
(* The pool implements the slots of SandboxSlots. *)
Slots == INSTANCE SandboxSlots WITH
    Capacity <- MaxSandboxes,
    view <- [i \in Id |-> IF pool[i] = NoBox THEN "absent" ELSE state[pool[i]]]

ImplementsSlots == Slots!Spec
=============================================================================
