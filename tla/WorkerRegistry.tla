--------------------------- MODULE WorkerRegistry ---------------------------
(***************************************************************************)
(* Membership of the worker fleet: each worker registers, heartbeats and   *)
(* deregisters over HTTP (api/app.py); the orchestrators' handlers         *)
(* (orchestrator/routes/workers.py) keep one Redis hash with a TTL per     *)
(* worker and a set of worker ids (orchestrator/state.py), one Redis       *)
(* command at a time.                                                      *)
(*                                                                         *)
(* A client that gives up does not stop the handler that serves it, so     *)
(* several handlers may be at work for one worker.  Which orchestrator     *)
(* runs a handler does not matter: all share the Redis.                    *)
(*                                                                         *)
(* A definition preceded by "Slip:" is its namesake with one plausible     *)
(* mistake and not part of the model.                                      *)
(***************************************************************************)
EXTENDS Naturals, FiniteSets

CONSTANTS
    Worker,
    NoWorker,
    Handler,        \* bound: requests the orchestrators serve at once
    Attempts,       \* registration attempts at startup (5)
    Threshold,      \* AGENTBOX_HEARTBEAT_UNHEALTHY_THRESHOLD
    FaultKinds,     \* which faults happen, of AllFaults
    MaxFaults,      \* bound: how many of them
    Restarts        \* may a worker id come back after its process ended?

AllFaults == {"lost",     \* a request never reaches an orchestrator
              "timeout",  \* the client gives up on a handler still at work
              "late",     \* a worker's heartbeats stay out for the whole TTL
              "redis",    \* a Redis command raises: the handler answers 500
              "killed",   \* an orchestrator dies in the middle of a handler
              "crash"}    \* a worker dies without deregistering

ASSUME ConstantsAssumption ==
    /\ NoWorker \notin Worker
    /\ Attempts \in Nat \ {0}
    /\ Threshold \in Nat \ {0}
    /\ FaultKinds \subseteq AllFaults
    /\ MaxFaults \in Nat
    /\ Restarts \in BOOLEAN

VARIABLES
    phase,      \* of the worker process
    attempt,    \* registration attempts that have failed
    failures,   \* failure_count, capped at Threshold
    call,       \* the request the worker is waiting for
    handler,    \* Handler -> [worker, pc, waited]
    key,        \* the worker's hash: absent, without or with a TTL
    index,      \* agentbox:workers:index
    todo,       \* list_workers: ids read from the index, still to look up
    missing,    \* list_workers: id found expired, about to be srem'ed
    torn,       \* workers with a registration that ended before its EXPIRE
    faults      \* faults so far

workerVars == <<phase, attempt, failures, call>>
redisVars  == <<key, index>>
listVars   == <<todo, missing>>
faultVars  == <<torn, faults>>
vars == <<workerVars, handler, redisVars, listVars, faultVars>>

Commands == {"get", "hset", "expire", "sadd", "delete", "srem"}
Answers  == {"ok", "unknown", "error"}     \* 200, 404, 500

Idle == [worker |-> NoWorker, pc |-> "idle", waited |-> FALSE]

TypeOK ==
    /\ phase \in [Worker -> {"new", "joining", "serving", "leaving", "off"}]
    /\ attempt \in [Worker -> 0..Attempts]
    /\ failures \in [Worker -> 0..Threshold]
    /\ call \in [Worker ->
                   {"none", "register", "heartbeat", "reregister", "deregister"}]
    /\ handler \in [Handler -> [worker : Worker \cup {NoWorker},
                                pc : {"idle"} \cup Commands \cup Answers,
                                waited : BOOLEAN]]
    /\ key \in [Worker -> {"absent", "untimed", "timed"}]
    /\ index \subseteq Worker
    /\ todo \subseteq Worker
    /\ missing \in Worker \cup {NoWorker}
    /\ torn \subseteq Worker
    /\ faults \in 0..MaxFaults

Init ==
    /\ phase = [w \in Worker |-> "new"]
    /\ attempt = [w \in Worker |-> 0]
    /\ failures = [w \in Worker |-> 0]
    /\ call = [w \in Worker |-> "none"]
    /\ handler = [h \in Handler |-> Idle]
    /\ key = [w \in Worker |-> "absent"]
    /\ index = {}
    /\ todo = {}
    /\ missing = NoWorker
    /\ torn = {}
    /\ faults = 0

Fault(kind) ==
    /\ kind \in FaultKinds
    /\ faults < MaxFaults
    /\ faults' = faults + 1

-----------------------------------------------------------------------------
(* The worker. *)

(* The first command of the handler of each request. *)
First == [register   |-> "hset",   heartbeat  |-> "get",
          reregister |-> "hset",   deregister |-> "delete"]

Waiting(w) == {h \in Handler : handler[h].worker = w /\ handler[h].waited}

(* The handlers that go on without their client. *)
Abandoned(w) ==
    [h \in Handler |-> IF h \in Waiting(w)
                       THEN [handler[h] EXCEPT !.waited = FALSE]
                       ELSE handler[h]]

(* w posts request c: it is served by an idle handler, or lost. *)
Post(w, c) ==
    /\ call' = [call EXCEPT ![w] = c]
    /\ \/ \E h \in Handler :
            /\ handler[h].pc = "idle"
            /\ handler' = [Abandoned(w) EXCEPT
                             ![h] = [worker |-> w, pc |-> First[c], waited |-> TRUE]]
            /\ UNCHANGED faults
       \/ /\ Fault("lost")
          /\ handler' = Abandoned(w)

Boot(w) ==
    /\ phase[w] = "new" \/ (Restarts /\ phase[w] = "off")
    /\ phase' = [phase EXCEPT ![w] = "joining"]
    /\ attempt' = [attempt EXCEPT ![w] = 0]
    /\ failures' = [failures EXCEPT ![w] = 0]
    /\ UNCHANGED <<call, handler, redisVars, listVars, faultVars>>

(* One of the attempts at startup. *)
Register(w) ==
    /\ phase[w] = "joining"
    /\ call[w] = "none"
    /\ attempt[w] < Attempts
    /\ Post(w, "register")
    /\ UNCHANGED <<phase, attempt, failures, redisVars, listVars, torn>>

(* Registered or out of attempts: the application starts to serve. *)
ServeUnregistered(w) ==
    /\ phase[w] = "joining"
    /\ call[w] = "none"
    /\ attempt[w] = Attempts
    /\ phase' = [phase EXCEPT ![w] = "serving"]
    /\ UNCHANGED <<attempt, failures, call, handler, redisVars, listVars, faultVars>>

Heartbeat(w) ==
    /\ phase[w] = "serving"
    /\ call[w] = "none"
    /\ Post(w, "heartbeat")
    /\ UNCHANGED <<phase, attempt, failures, redisVars, listVars, torn>>

(* heartbeat_task.cancel(), then deregister. *)
Leave(w) ==
    /\ phase[w] = "serving"
    /\ phase' = [phase EXCEPT ![w] = "leaving"]
    /\ Post(w, "deregister")
    /\ UNCHANGED <<attempt, failures, redisVars, listVars, torn>>

(* The end of the process, after manager.stop() or at once. *)
Crash(w) ==
    /\ phase[w] \notin {"new", "off"}
    /\ Fault("crash")
    /\ phase' = [phase EXCEPT ![w] = "off"]
    /\ call' = [call EXCEPT ![w] = "none"]
    /\ handler' = Abandoned(w)
    /\ UNCHANGED <<attempt, failures, redisVars, listVars, torn>>

(* The request raises on the worker's side: no answer, or raise_for_status *)
(* of an answered (re-)registration.                                       *)
CallFails(w) ==
    /\ call' = [call EXCEPT ![w] = "none"]
    /\ attempt' = [attempt EXCEPT ![w] =
                     IF call[w] = "register" THEN @ + 1 ELSE @]
    /\ failures' = [failures EXCEPT ![w] =
                      IF call[w] \in {"heartbeat", "reregister"}
                      /\ @ < Threshold
                      THEN @ + 1 ELSE @]
    /\ phase' = [phase EXCEPT ![w] =
                   IF call[w] = "deregister" THEN "off" ELSE @]

(* The timeout of the HTTP client, or the connection breaks. *)
TimesOut(w) ==
    /\ call[w] # "none"
    /\ IF Waiting(w) = {} THEN UNCHANGED faults ELSE Fault("timeout")
    /\ handler' = Abandoned(w)
    /\ CallFails(w)
    /\ UNCHANGED <<redisVars, listVars, torn>>

(* The request returns: the heartbeat loop resets its counter. *)
CallReturns(w) ==
    /\ call' = [call EXCEPT ![w] = "none"]
    /\ phase' = [phase EXCEPT ![w] =
                   CASE call[w] = "register"   -> "serving"
                     [] call[w] = "deregister" -> "off"
                     [] OTHER                  -> @]
    /\ failures' = [failures EXCEPT ![w] =
                      IF call[w] \in {"heartbeat", "reregister"} THEN 0 ELSE @]
    /\ UNCHANGED attempt

(* Slip: a 404 is just another answer. *)
Receive_Ignore404(h) ==
    /\ handler[h].pc \in Answers
    /\ handler[h].waited
    /\ handler' = [handler EXCEPT ![h] = Idle]
    /\ LET w == handler[h].worker IN
       IF handler[h].pc = "error" /\ call[w] \in {"register", "reregister"}
       THEN CallFails(w) ELSE CallReturns(w)
    /\ UNCHANGED <<redisVars, listVars, faultVars>>

(* An answer arrives.  Only a heartbeat's 404 and a registration's error   *)
(* are told from a success (a heartbeat's error resets the failure count); *)
(* the 404 posts a registration at once.                                   *)
Receive(h) ==
    /\ handler[h].pc \in Answers
    /\ handler[h].waited
    /\ LET w == handler[h].worker IN
       \/ /\ handler[h].pc = "unknown"
          /\ call' = [call EXCEPT ![w] = "reregister"]
          /\ \/ /\ handler' = [handler EXCEPT ![h].pc = First["reregister"]]
                /\ UNCHANGED faults
             \/ /\ Fault("lost")
                /\ handler' = [handler EXCEPT ![h] = Idle]
          /\ UNCHANGED <<phase, attempt, failures>>
       \/ /\ handler[h].pc # "unknown"
          /\ handler' = [handler EXCEPT ![h] = Idle]
          /\ IF handler[h].pc = "error" /\ call[w] \in {"register", "reregister"}
             THEN CallFails(w) ELSE CallReturns(w)
          /\ UNCHANGED faults
    /\ UNCHANGED <<redisVars, listVars, torn>>

-----------------------------------------------------------------------------
(* The orchestrators' handlers, one Redis command at a time. *)

(* The commands of register_worker and of deregister_worker, in order. *)
Following(h) ==
    [hset |-> "expire", expire |-> "sadd", sadd |-> "ok",
     delete |-> "srem", srem |-> "ok"][handler[h].pc]

Goes(h, pc) ==
    /\ handler' = [handler EXCEPT ![h].pc = pc]
    /\ UNCHANGED <<workerVars, listVars, faultVars>>

(* worker_heartbeat's get_worker: a 404, or on with register_worker. *)
Get(h) ==
    /\ handler[h].pc = "get"
    /\ Goes(h, IF key[handler[h].worker] = "absent" THEN "unknown" ELSE "hset")
    /\ UNCHANGED redisVars

(* HSET leaves the TTL of an existing hash alone, a new one has none. *)
Hset(h) ==
    /\ handler[h].pc = "hset"
    /\ key' = [key EXCEPT ![handler[h].worker] =
                 IF @ = "absent" THEN "untimed" ELSE @]
    /\ Goes(h, Following(h))
    /\ UNCHANGED index

(* Slip: the TTL is set on first registration only. *)
Expire_Skipped(h) ==
    /\ handler[h].pc = "expire"
    /\ Goes(h, Following(h))
    /\ UNCHANGED redisVars

Expire(h) ==
    /\ handler[h].pc = "expire"
    /\ key' = [key EXCEPT ![handler[h].worker] =
                 IF @ = "absent" THEN @ ELSE "timed"]
    /\ Goes(h, Following(h))
    /\ UNCHANGED index

Sadd(h) ==
    /\ handler[h].pc = "sadd"
    /\ index' = index \cup {handler[h].worker}
    /\ Goes(h, Following(h))
    /\ UNCHANGED key

Delete(h) ==
    /\ handler[h].pc = "delete"
    /\ key' = [key EXCEPT ![handler[h].worker] = "absent"]
    /\ Goes(h, Following(h))
    /\ UNCHANGED index

Srem(h) ==
    /\ handler[h].pc = "srem"
    /\ index' = index \ {handler[h].worker}
    /\ Goes(h, Following(h))
    /\ UNCHANGED key

Command(h) == Get(h) \/ Hset(h) \/ Expire(h) \/ Sadd(h) \/ Delete(h) \/ Srem(h)

(* The handler of h ends before its next command. *)
Torn(h) == torn' = IF handler[h].pc = "expire"
                   THEN torn \cup {handler[h].worker} ELSE torn

RedisFails(h) ==
    /\ handler[h].pc \in Commands
    /\ Fault("redis")
    /\ Torn(h)
    /\ handler' = [handler EXCEPT ![h].pc = "error"]
    /\ UNCHANGED <<workerVars, redisVars, listVars>>

(* The client sees a broken connection: TimesOut. *)
Killed(h) ==
    /\ handler[h].pc \in Commands
    /\ Fault("killed")
    /\ Torn(h)
    /\ handler' = [handler EXCEPT ![h] = Idle]
    /\ UNCHANGED <<workerVars, redisVars, listVars>>

(* The answer of an abandoned request goes nowhere. *)
Unheard(h) ==
    /\ handler[h].pc \in Answers
    /\ ~handler[h].waited
    /\ handler' = [handler EXCEPT ![h] = Idle]
    /\ UNCHANGED <<workerVars, redisVars, listVars, faultVars>>

(* Redis drops the hash: the worker has been silent for the TTL. *)
KeyExpires(w) ==
    /\ key[w] = "timed"
    /\ IF phase[w] = "off" THEN UNCHANGED faults ELSE Fault("late")
    /\ key' = [key EXCEPT ![w] = "absent"]
    /\ UNCHANGED <<workerVars, handler, index, listVars, torn>>

-----------------------------------------------------------------------------
(* list_workers, in pick_worker, in the listing and in the metrics. *)

ListBegin ==
    /\ todo = {} /\ missing = NoWorker
    /\ index # {}
    /\ todo' = index
    /\ UNCHANGED <<workerVars, handler, redisVars, missing, faultVars>>

ListGet(w) ==
    /\ w \in todo /\ missing = NoWorker
    /\ todo' = todo \ {w}
    /\ missing' = IF key[w] = "absent" THEN w ELSE NoWorker
    /\ UNCHANGED <<workerVars, handler, redisVars, faultVars>>

(* "Expired -- clean up index", whatever happened since the lookup. *)
ListSrem ==
    /\ missing # NoWorker
    /\ index' = index \ {missing}
    /\ missing' = NoWorker
    /\ UNCHANGED <<workerVars, handler, key, todo, faultVars>>

-----------------------------------------------------------------------------
Next ==
    \/ \E w \in Worker : \/ Boot(w) \/ Register(w) \/ ServeUnregistered(w)
                         \/ Heartbeat(w) \/ Leave(w) \/ Crash(w)
                         \/ TimesOut(w) \/ KeyExpires(w)
    \/ \E h \in Handler : \/ Receive(h) \/ Command(h)
                          \/ RedisFails(h) \/ Killed(h) \/ Unheard(h)
    \/ \E w \in Worker : ListGet(w)
    \/ ListBegin \/ ListSrem

(* The heartbeat loop and the handlers go on; a request that is lost or    *)
(* broken raises in the end; Redis drops the hash of a silent worker.      *)
(* Nothing forces a worker to boot or leave, a fault or a listing.         *)
Fairness ==
    /\ \A w \in Worker : /\ WF_vars(Register(w)) /\ WF_vars(Heartbeat(w))
                         /\ WF_vars(ServeUnregistered(w))
                         /\ WF_vars(TimesOut(w) /\ Waiting(w) = {})
                         /\ WF_vars(KeyExpires(w) /\ phase[w] = "off")
                         /\ WF_vars(ListGet(w))
    /\ \A h \in Handler : WF_vars(Receive(h)) /\ WF_vars(Command(h) \/ Unheard(h))
    /\ WF_vars(ListSrem)

Spec == Init /\ [][Next]_vars
FairSpec == Spec /\ Fairness

(* What list_workers would return in this state. *)
Listed(w) == w \in index /\ key[w] # "absent"

-----------------------------------------------------------------------------
(* Invariants. *)

(* A hash without TTL is on its way to get one: unless a registration of   *)
(* this worker ended between its HSET and its EXPIRE, for a failing Redis  *)
(* or a dying orchestrator, no worker is registered on a hash that never   *)
(* goes away.                                                              *)
UntimedIsHeld ==
    \A w \in Worker : key[w] = "untimed" =>
        \/ w \in torn
        \/ \E h \in Handler : handler[h].worker = w /\ handler[h].pc = "expire"

(* What the proofs need besides: an idle handler serves nobody, a busy one *)
(* a worker.                                                               *)
HandlersServe ==
    \A h \in Handler : IF handler[h].pc = "idle" THEN handler[h] = Idle
                                               ELSE handler[h].worker \in Worker

(* A registration under way at startup is not one attempt too many.        *)
AttemptLeft == \A w \in Worker : call[w] = "register" => attempt[w] < Attempts

(* A worker waits for at most one handler, which serves what it has posted *)
(* (Post and TimesOut see to it; Receive needs it to keep the types).      *)
OneWaited ==
    \A w \in Worker :
        /\ \A g, h \in Waiting(w) : g = h
        /\ \A h \in Waiting(w) :
             /\ call[w] # "none"
             /\ handler[h].pc \in {"get", "unknown"} => call[w] = "heartbeat"
             /\ handler[h].pc \in {"delete", "srem"} => call[w] = "deregister"
             /\ handler[h].pc \in {"hset", "expire", "sadd"} => call[w] # "deregister"

(* The inductive invariant: who waits for which handler, which hash has    *)
(* yet to get its TTL, and what the types need to be kept.                 *)
IInv == TypeOK /\ HandlersServe /\ AttemptLeft /\ UntimedIsHeld /\ OneWaited

-----------------------------------------------------------------------------
(* Liveness, under FairSpec: the faults are bounded, so these say what     *)
(* holds once they have stopped.                                           *)

(* A worker that goes on serving is in the end listed for good, whatever   *)
(* was lost, expired or cleaned from the index before: the 404 of a        *)
(* heartbeat re-registers it and every heartbeat repairs the index.        *)
ServingIsListed ==
    \A w \in Worker :
        <>[](phase[w] = "serving") => <>[]Listed(w)

(* A worker that is gone is in the end not listed (state.py:91, "TTL acts  *)
(* as liveness timeout"), but for one whose registration ended between the *)
(* HSET and the EXPIRE: nothing else gives its hash a TTL.                 *)
GoneIsDropped ==
    \A w \in Worker :
        <>[](phase[w] = "off" /\ w \notin torn) => <>[]~Listed(w)
=============================================================================
