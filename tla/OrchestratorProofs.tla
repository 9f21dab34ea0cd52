-------------------------- MODULE OrchestratorProofs --------------------------
(***************************************************************************)
(* The two parts of an orchestrator that keep a state of their own.        *)
(*                                                                         *)
(* IInv of WorkerRegistry is an inductive invariant, for every set of      *)
(* workers and handlers, every number of attempts and every choice of      *)
(* faults: no hash is left without a TTL but by a torn registration, and   *)
(* no worker takes an answer for another's.                                *)
(*                                                                         *)
(* CheckerIInv of CredentialChecker is one too, for every number of        *)
(* checkers, sandboxes and overlapping PATCHes, every notice and grace     *)
(* period: the timer is the credentials', no checker repeats itself, and   *)
(* no sandbox is shut down unannounced or for an expiry it does not have.  *)
(***************************************************************************)
EXTENDS WorkerRegistry, CredentialChecker, TLAPS

-----------------------------------------------------------------------------
(* The registry of the workers. *)

USE ConstantsAssumption

HandlerState == [worker : Worker \cup {NoWorker},
                 pc : {"idle"} \cup Commands \cup Answers,
                 waited : BOOLEAN]

(* The part of the invariant that the worker's side and its handlers keep  *)
(* among themselves.                                                       *)
Calls == TypeOK /\ HandlersServe /\ AttemptLeft /\ OneWaited

(* UntimedIsHeld survives a step that lets the hashes alone and the        *)
(* handlers that are about to set a TTL, too.                              *)
LEMMA HeldKept ==
    ASSUME UntimedIsHeld, UNCHANGED <<key, torn>>,
           \A h \in Handler : handler[h].pc = "expire" =>
               /\ handler'[h].pc = "expire"
               /\ handler'[h].worker = handler[h].worker
    PROVE  UntimedIsHeld'
BY DEF UntimedIsHeld

(* Giving up a request changes who waits, and nothing else. *)
LEMMA AbandonedHandlers ==
    ASSUME TypeOK, HandlersServe, NEW w \in Worker
    PROVE  /\ Abandoned(w) \in [Handler -> HandlerState]
           /\ \A h \in Handler :
                /\ Abandoned(w)[h].worker = handler[h].worker
                /\ Abandoned(w)[h].pc = handler[h].pc
                /\ Abandoned(w)[h].waited =>
                     handler[h].waited /\ handler[h].worker # w
                /\ handler[h].pc = "idle" => Abandoned(w)[h] = Idle
<1>1. handler \in [Handler -> HandlerState]
  BY DEF TypeOK, HandlerState
<1>2. \A h \in Handler : Abandoned(w)[h] =
          IF h \in Waiting(w) THEN [handler[h] EXCEPT !.waited = FALSE] ELSE handler[h]
  BY DEF Abandoned
<1>3. \A h \in Handler : handler[h] \in HandlerState
  BY <1>1
<1>4. ASSUME NEW h \in Handler
      PROVE  /\ Abandoned(w)[h] \in HandlerState
             /\ Abandoned(w)[h].worker = handler[h].worker
             /\ Abandoned(w)[h].pc = handler[h].pc
             /\ Abandoned(w)[h].waited => handler[h].waited /\ handler[h].worker # w
             /\ handler[h].pc = "idle" => Abandoned(w)[h] = Idle
  <2>1. CASE h \in Waiting(w)
    <3>1. Abandoned(w)[h] = [handler[h] EXCEPT !.waited = FALSE]
      BY <1>2, <2>1
    <3>2. handler[h].worker = w /\ handler[h].pc # "idle"
      BY <2>1 DEF Waiting, HandlersServe, Idle
    <3> QED
      BY <1>3, <3>1, <3>2 DEF HandlerState
  <2>2. CASE h \notin Waiting(w)
    BY <1>2, <1>3, <2>2 DEF Waiting, HandlersServe
  <2> QED
    BY <2>1, <2>2
<1>5. Abandoned(w) \in [Handler -> HandlerState]
  BY <1>4 DEF Abandoned
<1> QED
  BY <1>4, <1>5

(* First is the command that the request starts with. *)
LEMMA FirstCommand ==
    /\ First["register"] = "hset" /\ First["heartbeat"] = "get"
    /\ First["reregister"] = "hset" /\ First["deregister"] = "delete"
BY DEF First

(* A waiting handler of OneWaited, for one worker.                         *)
Serves(h, w) ==
    /\ call[w] # "none"
    /\ handler[h].pc \in {"get", "unknown"} => call[w] = "heartbeat"
    /\ handler[h].pc \in {"delete", "srem"} => call[w] = "deregister"
    /\ handler[h].pc \in {"hset", "expire", "sadd"} => call[w] # "deregister"

(* A post leaves one handler waiting for its worker, at the first command  *)
(* of the request, or none; the other workers' handlers are untouched.     *)
LEMMA PostStep ==
    ASSUME TypeOK, HandlersServe, OneWaited, NEW w \in Worker,
           NEW c \in {"register", "heartbeat", "deregister"}, Post(w, c)
    PROVE  /\ handler' \in [Handler -> HandlerState]
           /\ call' \in [Worker -> {"none", "register", "heartbeat",
                                     "reregister", "deregister"}]
           /\ call' = [call EXCEPT ![w] = c]
           /\ faults' \in 0..MaxFaults
           /\ HandlersServe' /\ OneWaited'
           /\ \A h \in Handler : handler[h].pc = "expire" =>
                  /\ handler'[h].pc = "expire"
                  /\ handler'[h].worker = handler[h].worker
<1> DEFINE Fresh == [worker |-> w, pc |-> First[c], waited |-> TRUE]
<1>1. call' = [call EXCEPT ![w] = c]
  BY DEF Post
<1>2. call' \in [Worker -> {"none", "register", "heartbeat",
                            "reregister", "deregister"}]
  BY <1>1 DEF TypeOK
<1>3. faults' \in 0..MaxFaults
  BY DEF Post, Fault, TypeOK
<1>4. Fresh \in HandlerState /\ Fresh.pc \in {"hset", "get", "delete"}
  BY FirstCommand DEF HandlerState, Commands
<1>5. Fresh.worker = w /\ Fresh.pc = First[c]
  OBVIOUS
<1>6. handler' = Abandoned(w)
      \/ \E h \in Handler : /\ handler[h].pc = "idle"
                            /\ handler' = [Abandoned(w) EXCEPT ![h] = Fresh]
  BY DEF Post
<1>7. PICK new \in SUBSET Handler :
          /\ \A g, h \in new : g = h
          /\ \A h \in new : handler[h].pc = "idle"
          /\ handler' = [h \in Handler |-> IF h \in new THEN Fresh ELSE Abandoned(w)[h]]
  <2>1. CASE handler' = Abandoned(w)
    <3>1. handler' = [h \in Handler |-> IF h \in {} THEN Fresh ELSE Abandoned(w)[h]]
      BY <2>1 DEF Abandoned
    <3>2. {} \in SUBSET Handler
      OBVIOUS
    <3>3. WITNESS {} \in SUBSET Handler
    <3> QED
      BY <3>1
  <2>2. ASSUME NEW h \in Handler, handler[h].pc = "idle",
               handler' = [Abandoned(w) EXCEPT ![h] = Fresh]
        PROVE  \E new \in SUBSET Handler :
                   /\ \A f, g \in new : f = g
                   /\ \A g \in new : handler[g].pc = "idle"
                   /\ handler' = [g \in Handler |->
                                   IF g \in new THEN Fresh ELSE Abandoned(w)[g]]
    <3>1. handler' = [g \in Handler |-> IF g \in {h} THEN Fresh ELSE Abandoned(w)[g]]
      BY <2>2, AbandonedHandlers
    <3>2. {h} \in SUBSET Handler
      OBVIOUS
    <3>3. WITNESS {h} \in SUBSET Handler
    <3> QED
      BY <2>2, <3>1
  <2> QED
    BY <1>6, <2>1, <2>2
<1>8. \A h \in Handler : handler'[h] = IF h \in new THEN Fresh ELSE Abandoned(w)[h]
  BY <1>7
<1>9. handler' \in [Handler -> HandlerState]
  BY <1>4, <1>7, AbandonedHandlers
<1> HIDE DEF Fresh
<1>10. HandlersServe'
  BY <1>4, <1>5, <1>8, AbandonedHandlers DEF HandlersServe
<1>11. ASSUME NEW v \in Worker, NEW h \in Waiting(v)'
       PROVE  \/ v = w /\ h \in new /\ handler'[h] = Fresh
              \/ v # w /\ h \in Waiting(v) /\ handler'[h].pc = handler[h].pc
  BY <1>5, <1>8, AbandonedHandlers DEF Waiting
<1>12. OneWaited'
  <2>1. ASSUME NEW v \in Worker, NEW g \in Waiting(v)', NEW h \in Waiting(v)'
        PROVE  g = h
    BY <1>7, <1>11 DEF OneWaited
  <2>2. ASSUME NEW v \in Worker, NEW h \in Waiting(v)'
        PROVE  Serves(h, v)'
    <3>1. CASE v = w
      BY <1>1, <1>2, <1>5, <1>11, <3>1, FirstCommand DEF Serves, TypeOK
    <3>2. CASE v # w
      BY <1>1, <1>11, <3>2 DEF Serves, TypeOK, OneWaited
    <3> QED
      BY <3>1, <3>2
  <2> QED
    BY <2>1, <2>2 DEF OneWaited, Serves
<1>13. ASSUME NEW h \in Handler, handler[h].pc = "expire"
       PROVE  handler'[h].pc = "expire" /\ handler'[h].worker = handler[h].worker
  BY <1>7, <1>8, <1>13, AbandonedHandlers
<1> QED
  BY <1>1, <1>2, <1>3, <1>9, <1>10, <1>12, <1>13

(* A worker that gives up its request waits for nothing.                   *)
LEMMA AbandonStep ==
    ASSUME TypeOK, HandlersServe, OneWaited, NEW w \in Worker,
           handler' = Abandoned(w),
           \A v \in Worker : v # w => call'[v] = call[v]
    PROVE  /\ handler' \in [Handler -> HandlerState]
           /\ HandlersServe' /\ OneWaited'
           /\ \A h \in Handler : handler[h].pc = "expire" =>
                  /\ handler'[h].pc = "expire"
                  /\ handler'[h].worker = handler[h].worker
<1>1. /\ handler' \in [Handler -> HandlerState]
      /\ HandlersServe'
      /\ \A h \in Handler : handler[h].pc = "expire" =>
             /\ handler'[h].pc = "expire"
             /\ handler'[h].worker = handler[h].worker
  BY AbandonedHandlers DEF HandlersServe
<1>2. ASSUME NEW v \in Worker, NEW h \in Waiting(v)'
      PROVE  v # w /\ h \in Waiting(v) /\ handler'[h].pc = handler[h].pc
  BY AbandonedHandlers DEF Waiting
<1>3. OneWaited'
  BY <1>2 DEF OneWaited
<1> QED
  BY <1>1, <1>3

(* A handler that ends leaves the others as they are; the request it       *)
(* served may end with it.                                                 *)
LEMMA FreeStep ==
    ASSUME TypeOK, HandlersServe, OneWaited, NEW h \in Handler,
           handler' = [handler EXCEPT ![h] = Idle],
           \A v \in Worker : call'[v] = call[v] \/ h \in Waiting(v)
    PROVE  /\ handler' \in [Handler -> HandlerState]
           /\ HandlersServe' /\ OneWaited'
<1>1. Idle \in HandlerState
  BY DEF Idle, HandlerState
<1>2. handler' \in [Handler -> HandlerState]
  BY <1>1 DEF TypeOK, HandlerState
<1>3. HandlersServe'
  BY DEF HandlersServe, TypeOK, Idle
<1>4. ASSUME NEW v \in Worker, NEW g \in Waiting(v)'
      PROVE  g # h /\ g \in Waiting(v) /\ handler'[g] = handler[g]
  BY DEF Waiting, TypeOK, Idle
<1>5. \A v \in Worker : Waiting(v)' # {} => call'[v] = call[v]
  BY <1>4 DEF OneWaited
<1>6. OneWaited'
  BY <1>4, <1>5 DEF OneWaited
<1> QED
  BY <1>2, <1>3, <1>6

(* A handler that goes on to its next command or answer.                   *)
LEMMA GoStep ==
    ASSUME TypeOK, HandlersServe, OneWaited, NEW h \in Handler,
           handler[h].pc # "idle", NEW pc \in Commands \cup Answers,
           handler' = [handler EXCEPT ![h].pc = pc],
           call' \in [Worker -> {"none", "register", "heartbeat",
                                 "reregister", "deregister"}],
           \A v \in Worker : call'[v] = call[v] \/ h \in Waiting(v),
           \A v \in Worker : h \in Waiting(v) => Serves(h, v)'
    PROVE  /\ handler' \in [Handler -> HandlerState]
           /\ HandlersServe' /\ OneWaited'
<1>1. handler \in [Handler -> HandlerState]
  BY DEF TypeOK, HandlerState
<1>2. handler[h] \in HandlerState
  BY <1>1
<1>3. [handler[h] EXCEPT !.pc = pc] \in HandlerState
  BY <1>2 DEF HandlerState
<1>4. handler' \in [Handler -> HandlerState]
  BY <1>1, <1>3
<1>5. /\ handler'[h].pc = pc
      /\ handler'[h].worker = handler[h].worker
      /\ handler'[h].waited = handler[h].waited
      /\ \A g \in Handler : g # h => handler'[g] = handler[g]
  BY <1>1, <1>2 DEF HandlerState
<1>6. HandlersServe'
  BY <1>5 DEF HandlersServe, Commands, Answers
<1>7. \A v \in Worker : Waiting(v)' = Waiting(v)
  BY <1>5 DEF Waiting
<1>8. ASSUME NEW v \in Worker, NEW g \in Waiting(v)
      PROVE  Serves(g, v)'
  <2>1. CASE g = h
    BY <1>8, <2>1
  <2>2. CASE g # h
    <3>1. Serves(g, v)
      BY <1>8 DEF OneWaited, Serves
    <3>2. handler'[g] = handler[g]
      BY <1>5, <1>8, <2>2 DEF Waiting
    <3>3. call'[v] = call[v]
      BY <1>8, <2>2 DEF OneWaited
    <3> QED
      BY <3>1, <3>2, <3>3 DEF Serves
  <2> QED
    BY <2>1, <2>2
<1>9. OneWaited'
  BY <1>7, <1>8 DEF OneWaited, Serves
<1> QED
  BY <1>4, <1>6, <1>9

(* What a failed or an answered request does to its worker.                *)
LEMMA CallEnds ==
    ASSUME TypeOK, AttemptLeft, NEW w \in Worker, CallFails(w) \/ CallReturns(w)
    PROVE  /\ phase' \in [Worker -> {"new", "joining", "serving", "leaving", "off"}]
           /\ attempt' \in [Worker -> 0..Attempts]
           /\ failures' \in [Worker -> 0..Threshold]
           /\ call' \in [Worker -> {"none", "register", "heartbeat",
                                     "reregister", "deregister"}]
           /\ \A v \in Worker : v # w => call'[v] = call[v]
           /\ AttemptLeft'
<1>1. CASE CallFails(w)
  <2>1. \A v \in Worker : attempt[v] \in 0..Attempts /\ failures[v] \in 0..Threshold
    BY DEF TypeOK
  <2>2. \A v \in Worker : call[v] = "register" => attempt[v] + 1 \in 0..Attempts
    BY <2>1 DEF AttemptLeft
  <2>3. \A v \in Worker : failures[v] < Threshold => failures[v] + 1 \in 0..Threshold
    BY <2>1
  <2>4. attempt' \in [Worker -> 0..Attempts] /\ failures' \in [Worker -> 0..Threshold]
    BY <1>1, <2>2, <2>3 DEF CallFails, TypeOK
  <2> QED
    BY <1>1, <2>4 DEF CallFails, TypeOK, AttemptLeft
<1>2. CASE CallReturns(w)
  <2>1. 0 \in 0..Threshold
    OBVIOUS
  <2> QED
    BY <1>2, <2>1 DEF CallReturns, TypeOK, AttemptLeft
<1> QED
  BY <1>1, <1>2

(* A process that starts counts its attempts and failures afresh.          *)
LEMMA BootIInv ==
    ASSUME IInv, NEW w \in Worker, Boot(w)
    PROVE  IInv'
<1> USE DEF IInv, Boot, redisVars, listVars, faultVars
<1>1. TypeOK'
  BY DEF TypeOK
<1>2. HandlersServe' /\ OneWaited'
  BY DEF HandlersServe, OneWaited, Waiting
<1>3. AttemptLeft'
  BY DEF AttemptLeft, TypeOK
<1>4. UntimedIsHeld'
  BY HeldKept
<1> QED
  BY <1>1, <1>2, <1>3, <1>4

(* The posts of a worker: at startup, in the heartbeat loop, at the end.   *)
LEMMA PostingIInv ==
    ASSUME IInv, NEW w \in Worker, Register(w) \/ Heartbeat(w) \/ Leave(w)
    PROVE  IInv'
<1> DEFINE c == IF Register(w) THEN "register"
                ELSE IF Heartbeat(w) THEN "heartbeat" ELSE "deregister"
<1>1. /\ Post(w, c)
      /\ UNCHANGED <<attempt, failures, key, index, todo, missing, torn>>
      /\ phase' = phase \/ phase' = [phase EXCEPT ![w] = "leaving"]
      /\ c = "register" => attempt[w] < Attempts
  BY DEF Register, Heartbeat, Leave, redisVars, listVars
<1>2. c \in {"register", "heartbeat", "deregister"}
  OBVIOUS
<1> HIDE DEF c
<1>3. /\ handler' \in [Handler -> HandlerState]
      /\ call' \in [Worker -> {"none", "register", "heartbeat",
                                "reregister", "deregister"}]
      /\ call' = [call EXCEPT ![w] = c]
      /\ faults' \in 0..MaxFaults
      /\ HandlersServe' /\ OneWaited'
      /\ \A h \in Handler : handler[h].pc = "expire" =>
             /\ handler'[h].pc = "expire"
             /\ handler'[h].worker = handler[h].worker
  BY <1>1, <1>2, PostStep DEF IInv
<1>4. phase' \in [Worker -> {"new", "joining", "serving", "leaving", "off"}]
  BY <1>1 DEF IInv, TypeOK
<1>5. TypeOK'
  BY <1>1, <1>3, <1>4 DEF IInv, TypeOK, HandlerState
<1>6. AttemptLeft'
  BY <1>1, <1>3 DEF IInv, AttemptLeft, TypeOK
<1>7. UntimedIsHeld'
  BY <1>1, <1>3, HeldKept DEF IInv
<1> QED
  BY <1>3, <1>5, <1>6, <1>7 DEF IInv

(* Out of attempts, the application serves all the same.                   *)
LEMMA ServeUnregisteredIInv ==
    ASSUME IInv, NEW w \in Worker, ServeUnregistered(w)
    PROVE  IInv'
<1> USE DEF IInv, ServeUnregistered, redisVars, listVars, faultVars
<1>1. TypeOK'
  BY DEF TypeOK
<1>2. HandlersServe' /\ OneWaited' /\ AttemptLeft'
  BY DEF HandlersServe, OneWaited, Waiting, AttemptLeft
<1>3. UntimedIsHeld'
  BY HeldKept
<1> QED
  BY <1>1, <1>2, <1>3

(* The worker dies, or gives up a request: its handlers go on unheard.     *)
LEMMA GivingUpIInv ==
    ASSUME IInv, NEW w \in Worker, Crash(w) \/ TimesOut(w)
    PROVE  IInv'
<1>1. /\ handler' = Abandoned(w)
      /\ UNCHANGED <<key, index, todo, missing, torn>>
      /\ faults' \in 0..MaxFaults
  BY DEF IInv, TypeOK, Crash, TimesOut, Fault, redisVars, listVars
<1>2. /\ phase' \in [Worker -> {"new", "joining", "serving", "leaving", "off"}]
      /\ attempt' \in [Worker -> 0..Attempts]
      /\ failures' \in [Worker -> 0..Threshold]
      /\ call' \in [Worker -> {"none", "register", "heartbeat",
                                "reregister", "deregister"}]
      /\ \A v \in Worker : v # w => call'[v] = call[v]
      /\ AttemptLeft'
  <2>1. CASE Crash(w)
    BY <2>1 DEF IInv, TypeOK, AttemptLeft, Crash
  <2>2. CASE TimesOut(w)
    BY <2>2, CallEnds DEF IInv, TimesOut
  <2> QED
    BY <2>1, <2>2
<1>3. /\ handler' \in [Handler -> HandlerState]
      /\ HandlersServe' /\ OneWaited'
      /\ \A h \in Handler : handler[h].pc = "expire" =>
             /\ handler'[h].pc = "expire"
             /\ handler'[h].worker = handler[h].worker
  BY <1>1, <1>2, AbandonStep DEF IInv
<1>4. TypeOK'
  BY <1>1, <1>2, <1>3 DEF IInv, TypeOK, HandlerState
<1>5. UntimedIsHeld'
  BY <1>1, <1>3, HeldKept DEF IInv
<1> QED
  BY <1>2, <1>3, <1>4, <1>5 DEF IInv

(* An answer ends the request it belongs to, or a heartbeat's 404 turns it *)
(* into a registration.                                                    *)
LEMMA ReceiveIInv ==
    ASSUME IInv, NEW h \in Handler, Receive(h)
    PROVE  IInv'
<1> DEFINE w == handler[h].worker
<1>1. w \in Worker /\ h \in Waiting(w) /\ handler[h].pc \in Answers
  BY DEF IInv, HandlersServe, Receive, Waiting, Answers
<1>2. UNCHANGED <<key, index, todo, missing, torn>>
  BY DEF Receive, redisVars, listVars
<1>3. faults' \in 0..MaxFaults
  BY DEF Receive, Fault, IInv, TypeOK
<1>4. /\ handler' \in [Handler -> HandlerState]
      /\ HandlersServe' /\ OneWaited' /\ AttemptLeft'
      /\ phase' \in [Worker -> {"new", "joining", "serving", "leaving", "off"}]
      /\ attempt' \in [Worker -> 0..Attempts]
      /\ failures' \in [Worker -> 0..Threshold]
      /\ call' \in [Worker -> {"none", "register", "heartbeat",
                                "reregister", "deregister"}]
  <2>1. CASE handler[h].pc = "unknown"
    <3>1. /\ call' = [call EXCEPT ![w] = "reregister"]
          /\ \/ handler' = [handler EXCEPT ![h].pc = "hset"]
             \/ handler' = [handler EXCEPT ![h] = Idle]
          /\ UNCHANGED <<phase, attempt, failures>>
      BY <2>1, FirstCommand DEF Receive
    <3>2. call' \in [Worker -> {"none", "register", "heartbeat",
                                "reregister", "deregister"}]
      BY <3>1 DEF IInv, TypeOK
    <3>3. \A v \in Worker : call'[v] = call[v] \/ h \in Waiting(v)
      BY <1>1, <3>1 DEF IInv, TypeOK
    <3>4. handler' \in [Handler -> HandlerState] /\ HandlersServe' /\ OneWaited'
      <4>1. CASE handler' = [handler EXCEPT ![h] = Idle]
        BY <3>3, <4>1, FreeStep DEF IInv
      <4>2. CASE handler' = [handler EXCEPT ![h].pc = "hset"]
        <5>1. handler'[h].pc = "hset"
          BY <4>2 DEF IInv, TypeOK
        <5>2. \A v \in Worker : h \in Waiting(v) => v = w
          BY DEF Waiting
        <5>3. call'[w] = "reregister"
          BY <1>1, <3>1 DEF IInv, TypeOK
        <5>4. \A v \in Worker : h \in Waiting(v) => Serves(h, v)'
          BY <5>1, <5>2, <5>3 DEF Serves
        <5>5. "hset" \in Commands \cup Answers /\ handler[h].pc # "idle"
          BY <2>1 DEF Commands
        <5> QED
          BY <3>2, <3>3, <4>2, <5>4, <5>5, GoStep DEF IInv
      <4> QED
        BY <3>1, <4>1, <4>2
    <3>5. AttemptLeft'
      BY <1>1, <3>1 DEF IInv, TypeOK, AttemptLeft
    <3> QED
      BY <3>1, <3>2, <3>4, <3>5 DEF IInv, TypeOK
  <2>2. CASE handler[h].pc # "unknown"
    <3>1. /\ handler' = [handler EXCEPT ![h] = Idle]
          /\ CallFails(w) \/ CallReturns(w)
      BY <2>2 DEF Receive
    <3>2. \A v \in Worker : v # w => call'[v] = call[v]
      BY <1>1, <3>1, CallEnds DEF IInv
    <3>3. \A v \in Worker : call'[v] = call[v] \/ h \in Waiting(v)
      BY <1>1, <3>2
    <3>4. handler' \in [Handler -> HandlerState] /\ HandlersServe' /\ OneWaited'
      BY <3>1, <3>3, FreeStep DEF IInv
    <3> QED
      BY <1>1, <3>1, <3>4, CallEnds DEF IInv
  <2> QED
    BY <2>1, <2>2
<1>5. TypeOK'
  BY <1>2, <1>3, <1>4 DEF IInv, TypeOK, HandlerState
<1>6. \A g \in Handler : g # h => handler'[g] = handler[g]
  BY DEF Receive, IInv, TypeOK
<1>7. UntimedIsHeld'
  BY <1>1, <1>2, <1>6, HeldKept DEF IInv, Answers
<1> QED
  BY <1>4, <1>5, <1>7 DEF IInv

(* The next command of each command, and what it tells of the request.     *)
LEMMA FollowingCommand ==
    ASSUME NEW h \in Handler
    PROVE  /\ handler[h].pc = "hset" => Following(h) = "expire"
           /\ handler[h].pc = "expire" => Following(h) = "sadd"
           /\ handler[h].pc = "sadd" => Following(h) = "ok"
           /\ handler[h].pc = "delete" => Following(h) = "srem"
           /\ handler[h].pc = "srem" => Following(h) = "ok"
BY DEF Following

(* One command of a handler: the invariant but for the hashes.             *)
LEMMA CommandCalls ==
    ASSUME Calls, NEW h \in Handler, Command(h)
    PROVE  Calls'
<1>1. PICK pc \in Commands \cup Answers :
          /\ Goes(h, pc)
          /\ handler[h].pc = "get" => pc \in {"unknown", "hset"}
          /\ handler[h].pc = "hset" => pc = "expire"
          /\ handler[h].pc = "expire" => pc = "sadd"
          /\ handler[h].pc = "delete" => pc = "srem"
          /\ handler[h].pc \in {"sadd", "srem"} => pc = "ok"
  BY FollowingCommand DEF Command, Get, Hset, Expire, Sadd, Delete, Srem,
                          Commands, Answers
<1>2. handler[h].pc \in Commands /\ handler[h].worker \in Worker
  BY DEF Calls, HandlersServe, Command, Get, Hset, Expire, Sadd, Delete, Srem, Commands
<1>3. /\ handler' = [handler EXCEPT ![h].pc = pc]
      /\ UNCHANGED <<phase, attempt, failures, call, todo, missing, torn, faults>>
  BY <1>1 DEF Goes, workerVars, listVars, faultVars
<1>4. handler'[h].pc = pc
  BY <1>3 DEF Calls, TypeOK
<1>5. \A v \in Worker : h \in Waiting(v) => Serves(h, v)
  BY DEF Calls, OneWaited, Serves
<1>6. \A v \in Worker : h \in Waiting(v) => Serves(h, v)'
  BY <1>1, <1>2, <1>3, <1>4, <1>5 DEF Serves, Commands
<1>7. handler' \in [Handler -> HandlerState] /\ HandlersServe' /\ OneWaited'
  BY <1>2, <1>3, <1>6, GoStep DEF Calls, TypeOK, Commands
<1>8. key' \in [Worker -> {"absent", "untimed", "timed"}] /\ index' \subseteq Worker
  BY <1>2 DEF Calls, TypeOK, Command, Get, Hset, Expire, Sadd, Delete, Srem, redisVars
<1>9. TypeOK' /\ AttemptLeft'
  BY <1>3, <1>7, <1>8 DEF Calls, TypeOK, AttemptLeft, HandlerState
<1> QED
  BY <1>7, <1>9 DEF Calls

(* One command of a handler: only HSET makes a hash without TTL, and the   *)
(* same handler's next command is to set it.                               *)
LEMMA CommandHeld ==
    ASSUME Calls, UntimedIsHeld, NEW h \in Handler, Command(h)
    PROVE  UntimedIsHeld'
<1> DEFINE w == handler[h].worker
<1>1. torn' = torn /\ handler[h].pc # "idle" /\ w \in Worker
  BY DEF Command, Get, Hset, Expire, Sadd, Delete, Srem, Goes, faultVars,
         Calls, HandlersServe
<1>2. /\ \A g \in Handler : g # h => handler'[g] = handler[g]
      /\ handler'[h].worker = w
  BY DEF Command, Get, Hset, Expire, Sadd, Delete, Srem, Goes, Calls, TypeOK
<1>3. CASE Get(h) \/ Sadd(h) \/ Srem(h)
  BY <1>1, <1>2, <1>3, HeldKept DEF Get, Sadd, Srem, Goes, faultVars, redisVars
<1>4. CASE Hset(h)
  <2>1. handler'[h].pc = "expire"
    BY <1>4, FollowingCommand DEF Hset, Goes, Calls, TypeOK
  <2>2. \A v \in Worker : v # w => key'[v] = key[v]
    BY <1>4 DEF Hset, Calls, TypeOK
  <2> QED
    BY <1>1, <1>2, <2>1, <2>2 DEF UntimedIsHeld
<1>5. CASE Expire(h) \/ Delete(h)
  <2>1. key'[w] # "untimed" /\ \A v \in Worker : v # w => key'[v] = key[v]
    BY <1>1, <1>5 DEF Expire, Delete, Calls, TypeOK
  <2> QED
    BY <1>1, <1>2, <2>1 DEF UntimedIsHeld
<1> QED
  BY <1>3, <1>4, <1>5 DEF Command

(* A handler whose Redis fails answers 500.                                *)
LEMMA RedisFailsIInv ==
    ASSUME IInv, NEW h \in Handler, RedisFails(h)
    PROVE  IInv'
<1>1. /\ handler' = [handler EXCEPT ![h].pc = "error"]
      /\ UNCHANGED <<phase, attempt, failures, call, key, index, todo, missing>>
      /\ faults' \in 0..MaxFaults
      /\ handler[h].pc \in Commands
  BY DEF RedisFails, workerVars, redisVars, listVars, Fault, IInv, TypeOK
<1>2. handler[h].worker \in Worker
  BY <1>1 DEF IInv, HandlersServe, Commands
<1>3. torn' = IF handler[h].pc = "expire" THEN torn \cup {handler[h].worker} ELSE torn
  BY DEF RedisFails, Torn
<1>4. handler'[h].pc = "error"
  BY <1>1 DEF IInv, TypeOK
<1>5. \A v \in Worker : h \in Waiting(v) => Serves(h, v)'
  BY <1>1, <1>4 DEF IInv, OneWaited, Serves
<1>6. handler' \in [Handler -> HandlerState] /\ HandlersServe' /\ OneWaited'
  BY <1>1, <1>5, GoStep DEF IInv, TypeOK, Commands, Answers
<1>7. TypeOK' /\ AttemptLeft'
  BY <1>1, <1>2, <1>3, <1>6 DEF IInv, TypeOK, AttemptLeft, HandlerState
<1>8. \A g \in Handler : g # h => handler'[g] = handler[g]
  BY <1>1
<1>9. UntimedIsHeld'
  BY <1>1, <1>3, <1>8 DEF IInv, UntimedIsHeld
<1> QED
  BY <1>6, <1>7, <1>9 DEF IInv

(* A handler ends without an answer, or its answer goes nowhere.           *)
LEMMA EndingIInv ==
    ASSUME IInv, NEW h \in Handler, Killed(h) \/ Unheard(h)
    PROVE  IInv'
<1>1. /\ handler' = [handler EXCEPT ![h] = Idle]
      /\ UNCHANGED <<phase, attempt, failures, call, key, index, todo, missing>>
      /\ faults' \in 0..MaxFaults
      /\ handler[h].pc \in Commands \cup Answers
  BY DEF Killed, Unheard, workerVars, redisVars, listVars, faultVars, Fault, IInv, TypeOK
<1>2. handler[h].worker \in Worker
  BY <1>1 DEF IInv, HandlersServe, Commands, Answers
<1>3. torn' = IF handler[h].pc = "expire" THEN torn \cup {handler[h].worker} ELSE torn
  BY DEF Killed, Unheard, Torn, faultVars, Answers
<1>4. handler' \in [Handler -> HandlerState] /\ HandlersServe' /\ OneWaited'
  BY <1>1, FreeStep DEF IInv
<1>5. TypeOK' /\ AttemptLeft'
  BY <1>1, <1>2, <1>3, <1>4 DEF IInv, TypeOK, AttemptLeft, HandlerState
<1>6. \A g \in Handler : g # h => handler'[g] = handler[g]
  BY <1>1
<1>7. UntimedIsHeld'
  BY <1>1, <1>3, <1>6 DEF IInv, UntimedIsHeld
<1> QED
  BY <1>4, <1>5, <1>7 DEF IInv

(* Only a hash with a TTL expires.                                         *)
LEMMA KeyExpiresIInv ==
    ASSUME IInv, NEW w \in Worker, KeyExpires(w)
    PROVE  IInv'
<1> USE DEF IInv, KeyExpires, workerVars, listVars
<1>1. TypeOK'
  BY DEF TypeOK, Fault
<1>2. HandlersServe' /\ OneWaited' /\ AttemptLeft'
  BY DEF HandlersServe, OneWaited, Waiting, AttemptLeft
<1>3. UntimedIsHeld'
  BY DEF UntimedIsHeld, TypeOK
<1> QED
  BY <1>1, <1>2, <1>3

(* A listing touches the index only.                                       *)
LEMMA ListIInv ==
    ASSUME IInv, ListBegin \/ ListSrem \/ \E w \in Worker : ListGet(w)
    PROVE  IInv'
<1>1. UNCHANGED <<phase, attempt, failures, call, handler, key, torn, faults>>
  BY DEF ListBegin, ListSrem, ListGet, workerVars, redisVars, faultVars
<1>2. index' \subseteq Worker /\ todo' \subseteq Worker /\ missing' \in Worker \cup {NoWorker}
  BY DEF IInv, TypeOK, ListBegin, ListSrem, ListGet, redisVars
<1>3. TypeOK'
  BY <1>1, <1>2 DEF IInv, TypeOK
<1>4. HandlersServe' /\ OneWaited' /\ AttemptLeft' /\ UntimedIsHeld'
  BY <1>1 DEF IInv, HandlersServe, OneWaited, Waiting, AttemptLeft, UntimedIsHeld
<1> QED
  BY <1>3, <1>4 DEF IInv

(* At the start nobody waits and no hash exists.                           *)
LEMMA InitIInv == Init => IInv
<1> SUFFICES ASSUME Init PROVE IInv
  OBVIOUS
<1> USE DEF Init
<1>1. TypeOK
  BY DEF TypeOK, Idle
<1>2. HandlersServe /\ AttemptLeft /\ UntimedIsHeld
  BY DEF HandlersServe, AttemptLeft, UntimedIsHeld, Idle
<1>3. OneWaited
  BY DEF OneWaited, Waiting, Idle
<1> QED
  BY <1>1, <1>2, <1>3 DEF IInv

(* Every step keeps the invariant.                                         *)
LEMMA StepIInv == IInv /\ [Next]_vars => IInv'
<1> SUFFICES ASSUME IInv, [Next]_vars PROVE IInv'
  OBVIOUS
<1>1. ASSUME NEW w \in Worker,
             \/ Boot(w) \/ Register(w) \/ ServeUnregistered(w) \/ Heartbeat(w)
             \/ Leave(w) \/ Crash(w) \/ TimesOut(w) \/ KeyExpires(w)
      PROVE  IInv'
  BY <1>1, BootIInv, PostingIInv, ServeUnregisteredIInv, GivingUpIInv, KeyExpiresIInv
<1>2. ASSUME NEW h \in Handler, Command(h)
      PROVE  IInv'
  BY <1>2, CommandCalls, CommandHeld DEF IInv, Calls
<1>3. ASSUME NEW h \in Handler, Receive(h) \/ RedisFails(h) \/ Killed(h) \/ Unheard(h)
      PROVE  IInv'
  BY <1>3, ReceiveIInv, RedisFailsIInv, EndingIInv
<1>4. CASE ListBegin \/ ListSrem \/ \E w \in Worker : ListGet(w)
  BY <1>4, ListIInv
<1>5. CASE UNCHANGED vars
  BY <1>5 DEF vars, workerVars, redisVars, listVars, faultVars, IInv, TypeOK,
              HandlersServe, AttemptLeft, UntimedIsHeld, OneWaited, Waiting
<1> QED
  BY <1>1, <1>2, <1>3, <1>4, <1>5 DEF Next

(* IInv holds in every reachable state, for all workers, handlers and      *)
(* faults.                                                                 *)
THEOREM InvariantHolds == Spec => []IInv
<1> QED
  BY InitIInv, StepIInv, PTL DEF Spec

(* The variables keep their types.                                         *)
THEOREM TypeCorrect == Spec => []TypeOK
<1>1. IInv => TypeOK
  BY DEF IInv
<1> QED
  BY <1>1, InvariantHolds, PTL

(* Unless a registration was torn, a hash without TTL is about to get one  *)
(* from a handler still at work: no worker stays in Redis for ever because *)
(* two handlers, an expiry and a deregistration met in the wrong order.    *)
THEOREM UntimedIsHeldHolds == Spec => []UntimedIsHeld
<1>1. IInv => UntimedIsHeld
  BY DEF IInv
<1> QED
  BY <1>1, InvariantHolds, PTL

-----------------------------------------------------------------------------
(* The credential checker: steps of a checker, of the clock and clients,   *)
(* of the PATCH handlers, and what follows.                                *)

PassState == [pc : {"sleep", "loop", "webhook", "retry", "delete", "mark"},
              at : Time, seen : [Sandbox -> Time],
              cur : Sandbox \cup {NoSandbox}]

(* The pass of o is over with s. *)
LEMMA DoneStep ==
    ASSUME CheckerTypeOK, NEW o \in Orchestrator, NEW s \in Sandbox, Done(o, s)
    PROVE  /\ pass' \in [Orchestrator -> PassState]
           /\ pass'[o].pc = "loop" /\ pass'[o].cur = NoSandbox
           /\ pass'[o].at = pass[o].at
           /\ pass'[o].seen[s] = 0
           /\ \A t \in Sandbox \ {s} : pass'[o].seen[t] = pass[o].seen[t]
           /\ \A q \in Orchestrator \ {o} : pass'[q] = pass[q]
<1>1. pass \in [Orchestrator -> PassState] /\ 0 \in Time
  BY CheckerConstants DEF CheckerTypeOK, PassState, Time
<1>2. PICK r \in PassState : r = pass[o]
  BY <1>1
<1>3. r.seen \in [Sandbox -> Time] /\ r.at \in Time
  BY DEF PassState
<1>4. PICK n : n = [r EXCEPT !.pc = "loop", !.cur = NoSandbox, !.seen[s] = 0]
  OBVIOUS
<1>5. n \in PassState /\ n.pc = "loop" /\ n.cur = NoSandbox /\ n.at = r.at
      /\ n.seen = [r.seen EXCEPT ![s] = 0]
  BY <1>1, <1>3, <1>4 DEF PassState
<1>6. pass' = [pass EXCEPT ![o] = n]
  BY <1>1, <1>2, <1>4 DEF Done
<1> QED
  BY <1>1, <1>2, <1>3, <1>5, <1>6

(* The pass of o goes over to s. *)
LEMMA EnterStep ==
    ASSUME CheckerTypeOK, NEW o \in Orchestrator, NEW s \in Sandbox,
           NEW pc \in {"webhook", "retry", "delete", "mark"}, Enter(o, s, pc)
    PROVE  /\ pass' \in [Orchestrator -> PassState]
           /\ pass'[o].pc = pc /\ pass'[o].cur = s
           /\ pass'[o].at = pass[o].at /\ pass'[o].seen = pass[o].seen
           /\ \A q \in Orchestrator \ {o} : pass'[q] = pass[q]
<1>1. pass \in [Orchestrator -> PassState]
  BY DEF CheckerTypeOK, PassState
<1>2. PICK r \in PassState : r = pass[o]
  BY <1>1
<1>4. PICK n : n = [r EXCEPT !.pc = pc, !.cur = s]
  OBVIOUS
<1>5. n \in PassState /\ n.pc = pc /\ n.cur = s /\ n.at = r.at /\ n.seen = r.seen
  BY <1>4 DEF PassState
<1>6. pass' = [pass EXCEPT ![o] = n]
  BY <1>1, <1>2, <1>4 DEF Enter
<1> QED
  BY <1>1, <1>2, <1>5, <1>6

(* The pass of o is over. *)
LEMMA SleepStep ==
    ASSUME CheckerTypeOK, NEW o \in Orchestrator, pass' = [pass EXCEPT ![o] = Asleep]
    PROVE  /\ pass' \in [Orchestrator -> PassState]
           /\ pass'[o] = Asleep
           /\ \A q \in Orchestrator \ {o} : pass'[q] = pass[q]
<1>1. pass \in [Orchestrator -> PassState]
  BY DEF CheckerTypeOK, PassState
<1>2. Asleep \in PassState
  BY CheckerConstants DEF Asleep, Unseen, Time, PassState
<1> QED
  BY <1>1, <1>2

LEMMA AsleepFields ==
    /\ Asleep.pc = "sleep" /\ Asleep.cur = NoSandbox /\ Asleep.at = 0
    /\ \A s \in Sandbox : Asleep.seen[s] = 0
BY DEF Asleep, Unseen

(* What is known of one checker and one sandbox survives a step that lets  *)
(* the checker's own memory alone.                                         *)
SameTold(o, s) == told'[o][s] = told[o][s] /\ (s \in heard'[o] <=> s \in heard[o])
Forgotten(o, s) == told'[o][s] = 0 /\ s \notin heard'[o]

LEMMA TellKept ==
    ASSUME NEW o \in Orchestrator, NEW s \in Sandbox, TellFits(o, s),
           SameTold(o, s) \/ Forgotten(o, s),
           pass'[o].seen[s] \in {0, pass[o].seen[s]},
           s \in notified[o] => s \in notified'[o],
           record[s] = "destroyed" => record'[s] = "destroyed"
    PROVE  TellFits(o, s)'
BY DEF TellFits, SameTold, Forgotten

LEMMA TimelyKept ==
    ASSUME NEW o \in Orchestrator, NEW s \in Sandbox, TimelyFits(o, s),
           CheckerTypeOK, CheckerTypeOK',
           s \in timely' => s \in timely /\ expires'[s] = expires[s],
           UNCHANGED now, o \in swept' => o \in swept,
           pass'[o].seen[s] = pass[o].seen[s], pass'[o].at = pass[o].at,
           s \in notified'[o] => s \in notified[o] \/ s \in tried' \/ s \notin Hooked,
           s \in timely' /\ s \in tried => s \in tried',
           s \in Visible' => s \in Visible,
           checkerFaults <= checkerFaults'
    PROVE  TimelyFits(o, s)'
<1>1. now \in Nat /\ expires[s] \in Nat /\ checkerFaults \in Nat /\ checkerFaults' \in Nat
  BY CheckerConstants DEF CheckerTypeOK, Time
<1>2. Wasted(o, s)' <= Wasted(o, s) /\ Wasted(o, s) \in Nat /\ Wasted(o, s)' \in Nat
  BY DEF Wasted
<1>3. PICK W \in Nat : W = Wasted(o, s)
  BY <1>2
<1>4. PICK V \in Nat : V = Wasted(o, s)'
  BY <1>2
<1>5. V <= W
  BY <1>2, <1>3, <1>4
<1>8. SUFFICES ASSUME s \in timely'
      PROVE  /\ expires'[s] # 0
             /\ pass'[o].seen[s] # 0 => pass'[o].seen[s] = expires'[s] /\ pass'[o].at = now'
             /\ s \in Hooked =>
                  /\ s \in notified'[o] => s \in tried'
                  /\ s \notin tried' /\ (s \in Visible' \/ pass'[o].seen[s] # 0) =>
                       now' + LeadTime + V <= expires'[s] + checkerFaults'
  BY <1>4 DEF TimelyFits
<1>9. /\ expires[s] # 0
      /\ pass[o].seen[s] # 0 => pass[o].seen[s] = expires[s] /\ pass[o].at = now
      /\ s \in Hooked =>
           /\ s \in notified[o] => s \in tried
           /\ s \notin tried /\ (s \in Visible \/ pass[o].seen[s] # 0) =>
                now + LeadTime + W <= expires[s] + checkerFaults
  BY <1>3, <1>8 DEF TimelyFits
<1> QED
  BY <1>1, <1>5, <1>8, <1>9, CheckerConstants

LEMMA PassKept ==
    ASSUME NEW o \in Orchestrator, PassFits(o), CheckerTypeOK, CheckerTypeOK',
           now <= now', pass'[o] = pass[o], notified'[o] = notified[o],
           \A s \in Sandbox : SameTold(o, s) \/ Forgotten(o, s)
    PROVE  PassFits(o)'
<1>1. pass[o].at \in Nat /\ now \in Nat /\ now' \in Nat
  BY DEF CheckerTypeOK, Time
<1> QED
  BY <1>1 DEF PassFits, SameTold, Forgotten

(* No step of a checker touches clocks, credentials or PATCHes. *)
LEMMA TimersKept ==
    ASSUME CheckerIInv, UNCHANGED <<expires, creds, patch, drifted>>
    PROVE  (\A s \in Sandbox : TimerFits(s)') /\ (\A p \in Patcher : PatchFits(p)')
BY DEF CheckerIInv, TimerFits, PatchFits, Storing

(* Only a creation shows a sandbox to the checkers. *)
LEMMA VisibleKept ==
    ASSUME UNCHANGED order, NEW s \in Sandbox, record'[s] = "running" => record[s] = "running"
    PROVE  s \in Visible' => s \in Visible
BY DEF Visible

LEMMA VisibleRuns ==
    ASSUME NEW s \in Sandbox, s \in Visible
    PROVE  record[s] = "running"
BY DEF Visible

(* A step of the checker of o: what remains to be shown is about o.        *)
LEMMA CheckerStep ==
    ASSUME CheckerIInv, CheckerTypeOK', NEW o \in Orchestrator,
           UNCHANGED <<now, order, expires, timely, creds, patch, drifted>>,
           \A q \in Orchestrator \ {o} :
               /\ pass'[q] = pass[q] /\ notified'[q] = notified[q]
               /\ told'[q] = told[q] /\ heard'[q] = heard[q]
               /\ q \in swept' => q \in swept,
           \A s \in Sandbox : record'[s] \in {record[s], "destroyed"},
           \A s \in Sandbox : record'[s] = "none" =>
               s \notin notified'[o] /\ pass'[o].seen[s] = 0,
           tried \subseteq tried', checkerFaults <= checkerFaults',
           PassFits(o)',
           \A s \in Sandbox : TellFits(o, s)' /\ TimelyFits(o, s)'
    PROVE  CheckerIInv'
<1>0. CheckerTypeOK /\ now <= now
  BY CheckerConstants DEF CheckerIInv, CheckerTypeOK, Time
<1>1. ASSUME NEW s \in Sandbox
      PROVE  NewFits(s)' /\ TimerFits(s)' /\ (s \in Visible' => s \in Visible)
  <2>1. s \in Visible' => s \in Visible
    BY VisibleKept
  <2>2. NewFits(s)'
    <3>1. SUFFICES ASSUME record'[s] = "none" PROVE NewFits(s)'
      BY DEF NewFits
    <3>2. record[s] = "none"
      BY <3>1
    <3>3. NewFits(s)
      BY DEF CheckerIInv
    <3> QED
      BY <3>1, <3>2, <3>3 DEF NewFits, Patching
  <2> QED
    BY <2>1, <2>2, TimersKept
<1>2. ASSUME NEW q \in Orchestrator \ {o}
      PROVE  PassFits(q)' /\ \A s \in Sandbox : TellFits(q, s)' /\ TimelyFits(q, s)'
  <2>0. \A s \in Sandbox : SameTold(q, s)
    BY DEF SameTold
  <2>1. PassFits(q)'
    BY <1>0, <2>0, PassKept DEF CheckerIInv
  <2>2. ASSUME NEW s \in Sandbox PROVE TellFits(q, s)' /\ TimelyFits(q, s)'
    <3>1. TellFits(q, s) /\ TimelyFits(q, s)
      BY DEF CheckerIInv
    <3>2. TellFits(q, s)'
      BY <2>0, <3>1, TellKept DEF SameTold, Forgotten
    <3>3. TimelyFits(q, s)'
      BY <1>0, <1>1, <3>1, TimelyKept
    <3> QED
      BY <3>2, <3>3
  <2> QED
    BY <2>1, <2>2
<1>3. \A p \in Patcher : PatchFits(p)'
  BY TimersKept
<1>4. \A q \in Orchestrator : PassFits(q)'
  BY <1>2
<1>5. \A q \in Orchestrator, s \in Sandbox : TellFits(q, s)' /\ TimelyFits(q, s)'
  BY <1>2
<1> QED
  BY <1>1, <1>3, <1>4, <1>5 DEF CheckerIInv

-----------------------------------------------------------------------------
LEMMA ScanStep ==
    ASSUME CheckerIInv, NEW o \in Orchestrator, Scan(o)
    PROVE  CheckerIInv'
<1>1. CheckerTypeOK /\ now \in Time /\ expires \in [Sandbox -> Time] /\ 0 \in Time
      /\ pass \in [Orchestrator -> PassState]
  BY CheckerConstants DEF CheckerIInv, CheckerTypeOK, PassState, Time
<1>2. PICK n : n = [pc |-> "loop", at |-> now, cur |-> NoSandbox,
                    seen |-> [s \in Sandbox |-> IF s \in Visible THEN expires[s] ELSE 0]]
  OBVIOUS
<1>3. /\ n \in PassState /\ n.pc = "loop" /\ n.at = now /\ n.cur = NoSandbox
      /\ \A s \in Sandbox : n.seen[s] = IF s \in Visible THEN expires[s] ELSE 0
  BY <1>1, <1>2 DEF PassState
<1>4. pass' = [pass EXCEPT ![o] = n]
  BY <1>2 DEF Scan
<1>5. pass' \in [Orchestrator -> PassState] /\ pass'[o] = n
      /\ \A q \in Orchestrator \ {o} : pass'[q] = pass[q]
  BY <1>1, <1>3, <1>4
<1>6. CheckerTypeOK'
  BY <1>1, <1>5 DEF Scan, CheckerTypeOK, PassState, recordVars, heldVars, patchVars,
     hookVars, toldVars
<1>7. PassFits(o)'
  BY <1>1, <1>3, <1>5 DEF PassFits, Scan, Time
<1>8. ASSUME NEW s \in Sandbox
      PROVE  /\ TellFits(o, s)' /\ TimelyFits(o, s)'
             /\ record'[s] = "none" => s \notin notified'[o] /\ pass'[o].seen[s] = 0
  <2>1. TellFits(o, s) /\ TimelyFits(o, s) /\ NewFits(s)
    BY DEF CheckerIInv
  <2>2. s \in Visible => record[s] = "running"
    BY VisibleRuns
  <2>3. UNCHANGED <<now, record, expires, timely, tried, asked, told, heard, notified, checkerFaults>>
        /\ (Visible' = Visible)
    BY DEF Scan, recordVars, hookVars, toldVars, Visible
  <2>4. TellFits(o, s)'
    BY <1>3, <1>5, <2>1, <2>2, <2>3 DEF TellFits
  <2>5. record'[s] = "none" => s \notin notified'[o] /\ pass'[o].seen[s] = 0
    BY <1>3, <1>5, <2>1, <2>2, <2>3 DEF NewFits
  <2>6. TimelyFits(o, s)'
    <3>1. SUFFICES ASSUME s \in timely PROVE TimelyFits(o, s)'
      BY <2>3 DEF TimelyFits
    <3>2. pass'[o].seen[s] = 0 => s \notin Visible
      BY <1>3, <1>5, <2>1, <3>1 DEF TimelyFits
    <3>3. pass'[o].seen[s] # 0 => Wasted(o, s)' = 0
      BY DEF Wasted
    <3>4. pass[o].seen[s] = 0 /\ Wasted(o, s) \in {0, 1}
      <4>1. PassFits(o)
        BY DEF CheckerIInv
      <4> QED
        BY <4>1, AsleepFields DEF PassFits, Scan, Wasted
    <3>5. now \in Nat /\ expires[s] \in Nat /\ checkerFaults \in Nat /\ LeadTime \in Nat
      BY <1>1, CheckerConstants DEF CheckerTypeOK, Time
    <3>6. pass'[o].seen[s] # 0 => s \in Visible /\ pass'[o].seen[s] = expires'[s]
                                  /\ pass'[o].at = now'
      BY <1>3, <1>5, <2>3
    <3>7. s \notin tried /\ s \in Hooked /\ s \in Visible =>
            now + LeadTime <= expires[s] + checkerFaults
      <4>1. PICK W \in {0, 1} : W = Wasted(o, s)
        BY <3>4
      <4>2. s \notin tried /\ s \in Hooked /\ s \in Visible =>
              now + LeadTime + W <= expires[s] + checkerFaults
        BY <2>1, <3>1, <4>1 DEF TimelyFits
      <4> QED
        BY <3>5, <4>2
    <3>8. s \notin tried' /\ s \in Hooked /\ (s \in Visible' \/ pass'[o].seen[s] # 0) =>
            now' + LeadTime + Wasted(o, s)' <= expires'[s] + checkerFaults'
      BY <2>3, <3>2, <3>3, <3>5, <3>6, <3>7
    <3>9. expires'[s] # 0 /\ (s \in Hooked => (s \in notified'[o] => s \in tried'))
      BY <2>1, <2>3, <3>1 DEF TimelyFits
    <3> QED
      BY <3>6, <3>8, <3>9 DEF TimelyFits
  <2> QED
    BY <2>4, <2>5, <2>6
<1>9. /\ UNCHANGED <<now, order, record, expires, timely, creds, patch, drifted,
                     notified, told, heard, tried, asked, checkerFaults>>
      /\ \A q \in Orchestrator \ {o} : q \in swept' => q \in swept
      /\ checkerFaults <= checkerFaults'
  BY <1>1 DEF Scan, recordVars, heldVars, patchVars, hookVars, toldVars, CheckerTypeOK
<1> QED
  BY <1>5, <1>6, <1>7, <1>8, <1>9, CheckerStep

(* A step that ends with the checker of o done with s: what remains to be  *)
(* shown is about o and s.                                                 *)
LEMMA DoneFits ==
    ASSUME CheckerIInv, CheckerTypeOK', NEW o \in Orchestrator, NEW s \in Sandbox,
           Done(o, s), pass[o].seen[s] # 0,
           UNCHANGED <<now, order, expires, timely, creds, patch, drifted, swept,
                       checkerFaults>>,
           \A q \in Orchestrator \ {o} : /\ notified'[q] = notified[q]
                                         /\ told'[q] = told[q] /\ heard'[q] = heard[q],
           \A t \in Sandbox \ {s} : /\ SameTold(o, t)
                                    /\ t \in notified'[o] <=> t \in notified[o],
           \A t \in Sandbox : record'[t] \in {record[t], "destroyed"},
           tried \subseteq tried',
           TellFits(o, s)',
           s \in timely /\ s \in Hooked =>
               /\ s \in notified'[o] => s \in tried'
               /\ s \notin tried' /\ s \in Visible' =>
                    now + LeadTime + 1 <= expires[s] + checkerFaults
    PROVE  CheckerIInv'
<1>1. CheckerTypeOK /\ PassFits(o)
  BY DEF CheckerIInv
<1>2. /\ pass'[o].pc = "loop" /\ pass'[o].cur = NoSandbox
      /\ pass'[o].at = pass[o].at
      /\ pass'[o].seen[s] = 0
      /\ \A t \in Sandbox \ {s} : pass'[o].seen[t] = pass[o].seen[t]
      /\ \A q \in Orchestrator \ {o} : pass'[q] = pass[q]
  BY <1>1, DoneStep
<1>3. PassFits(o)'
  BY <1>1, <1>2 DEF PassFits
<1>4. now \in Nat /\ checkerFaults \in Nat /\ expires[s] \in Nat
  BY <1>1 DEF CheckerTypeOK, Time
<1>5. ASSUME NEW t \in Sandbox
      PROVE  /\ TellFits(o, t)' /\ TimelyFits(o, t)'
             /\ record'[t] = "none" => t \notin notified'[o] /\ pass'[o].seen[t] = 0
  <2>1. TellFits(o, t) /\ TimelyFits(o, t) /\ NewFits(t)
    BY DEF CheckerIInv
  <2>2. record'[t] = "none" => t \notin notified'[o] /\ pass'[o].seen[t] = 0
    BY <1>2, <2>1 DEF NewFits
  <2>3. CASE t # s
    <3>1. TellFits(o, t)'
      BY <1>2, <2>1, <2>3, TellKept DEF SameTold, Forgotten
    <3>2. t \in Visible' => t \in Visible
      BY VisibleKept
    <3>3. TimelyFits(o, t)'
      BY <1>1, <1>2, <1>4, <2>1, <2>3, <3>2, TimelyKept
    <3> QED
      BY <2>2, <3>1, <3>3
  <2>4. CASE t = s
    <3>1. expires'[s] # 0 \/ s \notin timely'
      BY <2>1, <2>4 DEF TimelyFits
    <3>2. Wasted(o, s)' \in {0, 1}
      BY DEF Wasted
    <3>3. PICK W \in {0, 1} : W = Wasted(o, s)'
      BY <3>2
    <3>4. s \in timely' /\ s \in Hooked /\ s \notin tried' /\ s \in Visible' =>
            now' + LeadTime + W <= expires'[s] + checkerFaults'
      BY <1>4, CheckerConstants
    <3>5. TimelyFits(o, s)'
      BY <1>2, <3>1, <3>3, <3>4 DEF TimelyFits
    <3> QED
      BY <2>2, <2>4, <3>5
  <2> QED
    BY <2>3, <2>4
<1>6. checkerFaults <= checkerFaults'
  BY <1>4
<1> QED
  BY <1>2, <1>3, <1>5, <1>6, CheckerStep

(* What a checker has seen of a sandbox it has not told of yet. *)
LEMMA UntoldBefore ==
    ASSUME CheckerIInv, NEW o \in Orchestrator, NEW s \in Sandbox,
           pass[o].seen[s] # 0, s \notin notified[o]
    PROVE  told[o][s] = 0 /\ s \notin heard[o]
BY DEF CheckerIInv, TellFits

LEMMA DestroyExpiredStep ==
    ASSUME CheckerIInv, NEW o \in Orchestrator, NEW s \in Sandbox, DestroyExpired(o, s)
    PROVE  CheckerIInv'
<1>1. CheckerTypeOK /\ TellFits(o, s) /\ TimelyFits(o, s)
  BY DEF CheckerIInv
<1>2. Done(o, s) /\ pass[o].seen[s] # 0
      /\ UNCHANGED <<now, order, expires, timely, creds, alive, patch, drifted, swept,
                     checkerFaults, tried, asked, told, heard, patches>>
      /\ record' = [record EXCEPT ![s] = "destroyed"]
      /\ notified' = [notified EXCEPT ![o] = @ \ {s}]
      /\ shuttingDown' = [shuttingDown EXCEPT ![o] = @ \ {s}]
  BY DEF DestroyExpired, AtHand, heldVars, patchVars, hookVars, toldVars
<1>3. pass' \in [Orchestrator -> PassState] /\ pass'[o].seen[s] = 0
  BY <1>1, <1>2, DoneStep
<1>4. CheckerTypeOK'
  BY <1>1, <1>2, <1>3 DEF CheckerTypeOK, PassState
<1>5. record'[s] = "destroyed" /\ s \notin notified'[o]
  BY <1>1, <1>2 DEF CheckerTypeOK
<1>6. TellFits(o, s)'
  BY <1>1, <1>2, <1>3, <1>5 DEF TellFits
<1>7. s \notin Visible'
  BY <1>5 DEF Visible
<1>9. /\ \A t \in Sandbox : record'[t] \in {record[t], "destroyed"}
      /\ \A q \in Orchestrator \ {o} : notified'[q] = notified[q]
      /\ \A t \in Sandbox \ {s} : t \in notified'[o] <=> t \in notified[o]
  BY <1>1, <1>2 DEF CheckerTypeOK
<1> QED
  BY <1>2, <1>4, <1>5, <1>6, <1>7, <1>9, DoneFits DEF SameTold

LEMMA MarkStep ==
    ASSUME CheckerIInv, NEW o \in Orchestrator, Mark(o)
    PROVE  CheckerIInv'
<1>1. CheckerTypeOK /\ PassFits(o)
  BY DEF CheckerIInv
<1>2. PICK s \in Sandbox : s = pass[o].cur /\ pass[o].seen[s] # 0
  BY <1>1 DEF PassFits, Mark
<1>3. Done(o, s)
      /\ UNCHANGED <<now, order, expires, timely, creds, alive, patch, drifted, swept,
                     checkerFaults, tried, asked, told, heard, patches, shuttingDown>>
      /\ record' = [record EXCEPT ![s] = "destroyed"]
      /\ notified' = [notified EXCEPT ![o] = @ \ {s}]
  BY <1>2 DEF Mark, heldVars, patchVars, hookVars, toldVars
<1>4. pass' \in [Orchestrator -> PassState] /\ pass'[o].seen[s] = 0
  BY <1>1, <1>3, DoneStep
<1>5. CheckerTypeOK'
  BY <1>1, <1>3, <1>4 DEF CheckerTypeOK, PassState
<1>6. record'[s] = "destroyed" /\ s \notin notified'[o]
  BY <1>1, <1>3 DEF CheckerTypeOK
<1>7. TellFits(o, s)'
  <2>1. TellFits(o, s)
    BY DEF CheckerIInv
  <2> QED
    BY <1>3, <1>4, <1>6, <2>1 DEF TellFits
<1>8. s \notin Visible'
  BY <1>6 DEF Visible
<1>9. /\ \A t \in Sandbox : record'[t] \in {record[t], "destroyed"}
      /\ \A q \in Orchestrator \ {o} : notified'[q] = notified[q]
      /\ \A t \in Sandbox \ {s} : t \in notified'[o] <=> t \in notified[o]
  BY <1>1, <1>3 DEF CheckerTypeOK
<1> QED
  BY <1>2, <1>3, <1>5, <1>6, <1>7, <1>8, <1>9, DoneFits DEF SameTold

LEMMA SkipStep ==
    ASSUME CheckerIInv, NEW o \in Orchestrator, NEW s \in Sandbox, Skip(o, s)
    PROVE  CheckerIInv'
<1>1. CheckerTypeOK /\ TellFits(o, s) /\ TimelyFits(o, s)
  BY DEF CheckerIInv
<1>2. Done(o, s) /\ pass[o].seen[s] # 0
      /\ UNCHANGED <<now, order, record, expires, timely, creds, alive, patch, drifted,
                     swept, checkerFaults, tried, asked, told, heard, patches, shuttingDown, notified>>
  BY DEF Skip, AtHand, recordVars, heldVars, patchVars, hookVars, toldVars
<1>3. pass' \in [Orchestrator -> PassState] /\ pass'[o].seen[s] = 0
  BY <1>1, <1>2, DoneStep
<1>4. CheckerTypeOK'
  BY <1>1, <1>2, <1>3 DEF CheckerTypeOK, PassState
<1>5. TellFits(o, s)'
  BY <1>1, <1>2, <1>3, TellKept DEF SameTold, Forgotten
<1>6. pass[o].seen[s] \in Nat /\ pass[o].at \in Nat /\ now \in Nat /\ expires[s] \in Nat
      /\ checkerFaults \in Nat
  BY <1>1 DEF CheckerTypeOK, Time
<1>7. s \in notified[o] \/ pass[o].seen[s] > pass[o].at + LeadTime
  BY <1>6, CheckerConstants DEF Skip, Expired, InGrace, InLead, Left
<1>8. s \in timely /\ s \in Hooked =>
          /\ s \in notified'[o] => s \in tried'
          /\ s \notin tried' => now + LeadTime + 1 <= expires[s] + checkerFaults
  <2>1. SUFFICES ASSUME s \in timely, s \in Hooked
        PROVE /\ s \in notified[o] => s \in tried
              /\ s \notin tried => now + LeadTime + 1 <= expires[s] + checkerFaults
    BY <1>2
  <2>2. /\ s \in notified[o] => s \in tried
        /\ pass[o].seen[s] = expires[s] /\ pass[o].at = now
    BY <1>1, <1>2, <2>1 DEF TimelyFits
  <2> QED
    BY <1>6, <1>7, <2>2, CheckerConstants
<1> QED
  BY <1>2, <1>4, <1>5, <1>8, DoneFits DEF SameTold

(* A step of the checker of o that does not end with s yet, nor changes    *)
(* what the pass has seen.                                                 *)
LEMMA UnderWayFits ==
    ASSUME CheckerIInv, CheckerTypeOK', NEW o \in Orchestrator, NEW s \in Sandbox,
           pass[o].seen[s] # 0,
           pass'[o].seen = pass[o].seen, pass'[o].at = pass[o].at,
           UNCHANGED <<now, order, record, expires, timely, creds, patch, drifted, swept,
                       checkerFaults>>,
           \A q \in Orchestrator \ {o} :
               /\ pass'[q] = pass[q] /\ notified'[q] = notified[q]
               /\ told'[q] = told[q] /\ heard'[q] = heard[q],
           \A t \in Sandbox \ {s} : SameTold(o, t) /\ (t \in notified'[o] <=> t \in notified[o]),
           TellFits(o, s)', s \in notified[o] => s \in notified'[o],
           tried \subseteq tried',
           PassFits(o)',
           s \in timely /\ s \in Hooked /\ s \in notified'[o] => s \in tried'
    PROVE  CheckerIInv'
<1>1. CheckerTypeOK
  BY DEF CheckerIInv
<1>2. checkerFaults <= checkerFaults'
  BY <1>1 DEF CheckerTypeOK
<1>3. ASSUME NEW t \in Sandbox
      PROVE  /\ TellFits(o, t)' /\ TimelyFits(o, t)'
             /\ record'[t] = "none" => t \notin notified'[o] /\ pass'[o].seen[t] = 0
  <2>1. TellFits(o, t) /\ TimelyFits(o, t) /\ NewFits(t)
    BY DEF CheckerIInv
  <2>2. NewFits(s)
    BY DEF CheckerIInv
  <2>3. record'[t] = "none" => t \notin notified'[o] /\ pass'[o].seen[t] = 0
    BY <2>1, <2>2 DEF NewFits
  <2>4. TellFits(o, t)'
    <3>1. CASE t = s
      BY <3>1
    <3>2. CASE t # s
      BY <2>1, <3>2, TellKept DEF SameTold, Forgotten
    <3> QED
      BY <3>1, <3>2
  <2>5. t \in Visible' => t \in Visible
    BY VisibleKept
  <2>6. t \in notified'[o] => t \in notified[o] \/ t \in tried' \/ t \notin Hooked \/ t \notin timely
    OBVIOUS
  <2>7. TimelyFits(o, t)'
    <3>1. CASE t \notin timely
      BY <3>1 DEF TimelyFits
    <3>2. CASE t \in timely
      BY <1>1, <1>2, <2>1, <2>5, <2>6, <3>2, TimelyKept
    <3> QED
      BY <3>1, <3>2
  <2> QED
    BY <2>3, <2>4, <2>7
<1> QED
  BY <1>2, <1>3, CheckerStep

LEMMA BeginShutdownStep ==
    ASSUME CheckerIInv, NEW o \in Orchestrator, NEW s \in Sandbox, BeginShutdown(o, s)
    PROVE  CheckerIInv'
<1>1. CheckerTypeOK /\ PassFits(o) /\ TimelyFits(o, s) /\ TellFits(o, s)
  BY DEF CheckerIInv
<1>2. Enter(o, s, "delete") /\ pass[o].seen[s] # 0
      /\ UNCHANGED <<now, order, record, expires, timely, creds, alive, patch, drifted,
                     swept, checkerFaults, tried, asked, told, heard, patches, notified>>
      /\ shuttingDown' = [shuttingDown EXCEPT ![o] = @ \cup {s}]
  BY DEF BeginShutdown, AtHand, recordVars, heldVars, patchVars, hookVars, toldVars
<1>3. /\ pass' \in [Orchestrator -> PassState]
      /\ pass'[o].pc = "delete" /\ pass'[o].cur = s
      /\ pass'[o].at = pass[o].at /\ pass'[o].seen = pass[o].seen
      /\ \A q \in Orchestrator \ {o} : pass'[q] = pass[q]
  BY <1>1, <1>2, EnterStep
<1>4. CheckerTypeOK'
  BY <1>1, <1>2, <1>3 DEF CheckerTypeOK, PassState
<1>5. pass[o].seen[s] <= pass[o].at + GracePeriod
  <2>1. pass[o].seen[s] \in Nat /\ pass[o].at \in Nat
    BY <1>1 DEF CheckerTypeOK, Time
  <2> QED
    BY <2>1, CheckerConstants DEF BeginShutdown, InGrace, Expired, Left
<1>6. PassFits(o)'
  BY <1>1, <1>2, <1>3, <1>5 DEF PassFits
<1>7. s \in timely /\ s \in Hooked /\ s \in notified'[o] => s \in tried'
  BY <1>1, <1>2 DEF TimelyFits
<1>8. TellFits(o, s)'
  BY <1>1, <1>2, <1>3 DEF TellFits
<1> QED
  BY <1>8, <1>2, <1>3, <1>4, <1>6, <1>7, UnderWayFits DEF SameTold

LEMMA DeleteStep ==
    ASSUME CheckerIInv, NEW o \in Orchestrator, DeleteAtWorker(o)
    PROVE  CheckerIInv'
<1>1. CheckerTypeOK /\ PassFits(o)
  BY DEF CheckerIInv
<1>2. PICK s \in Sandbox : s = pass[o].cur /\ pass[o].seen[s] # 0
                           /\ pass[o].seen[s] <= pass[o].at + GracePeriod
  BY <1>1 DEF PassFits, DeleteAtWorker
<1>3. /\ UNCHANGED <<now, order, record, expires, timely, creds, patch, drifted, swept,
                     checkerFaults, tried, told, heard, patches, notified, shuttingDown>>
      /\ pass' = [pass EXCEPT ![o].pc = "mark"]
      /\ alive' \subseteq alive
      /\ asked' = asked \cup {s}
  BY <1>2 DEF DeleteAtWorker, recordVars, patchVars, hookVars, toldVars
<1>4. /\ pass' \in [Orchestrator -> PassState]
      /\ pass'[o].pc = "mark" /\ pass'[o].cur = s
      /\ pass'[o].at = pass[o].at /\ pass'[o].seen = pass[o].seen
      /\ \A q \in Orchestrator \ {o} : pass'[q] = pass[q]
  <2>1. pass \in [Orchestrator -> PassState]
    BY <1>1 DEF CheckerTypeOK, PassState
  <2>2. PICK r \in PassState : r = pass[o]
    BY <2>1
  <2>3. PICK n : n = [r EXCEPT !.pc = "mark"]
    OBVIOUS
  <2>4. n \in PassState /\ n.pc = "mark" /\ n.cur = r.cur /\ n.at = r.at /\ n.seen = r.seen
    BY <2>3 DEF PassState
  <2>5. pass' = [pass EXCEPT ![o] = n]
    BY <1>3, <2>1, <2>2, <2>3
  <2> QED
    BY <1>2, <2>1, <2>2, <2>4, <2>5
<1>5. CheckerTypeOK'
  BY <1>1, <1>3, <1>4 DEF CheckerTypeOK, PassState
<1>6. PassFits(o)'
  BY <1>1, <1>2, <1>3, <1>4 DEF PassFits
<1>7. s \in timely /\ s \in Hooked /\ s \in notified'[o] => s \in tried'
  <2>1. TimelyFits(o, s)
    BY DEF CheckerIInv
  <2> QED
    BY <1>3, <2>1 DEF TimelyFits
<1>8. TellFits(o, s)'
  <2>1. TellFits(o, s)
    BY DEF CheckerIInv
  <2> QED
    BY <1>3, <1>4, <2>1 DEF TellFits
<1> QED
  BY <1>8, <1>2, <1>3, <1>4, <1>5, <1>6, <1>7, UnderWayFits DEF SameTold

LEMMA AnnounceStep ==
    ASSUME CheckerIInv, NEW o \in Orchestrator, NEW s \in Sandbox, Announce(o, s)
    PROVE  CheckerIInv'
<1>1. CheckerTypeOK /\ PassFits(o) /\ TellFits(o, s) /\ TimelyFits(o, s)
  BY DEF CheckerIInv
<1>2. pass[o].seen[s] # 0 /\ s \notin notified[o]
      /\ UNCHANGED <<now, order, record, expires, timely, creds, alive, patch, drifted,
                     swept, checkerFaults, tried, asked, told, heard, patches, shuttingDown>>
  BY DEF Announce, AtHand, InLead, recordVars, heldVars, patchVars, hookVars, toldVars
<1>3. CASE s \in Hooked
  <2>1. Enter(o, s, "webhook") /\ UNCHANGED notified
    BY <1>3 DEF Announce
  <2>2. /\ pass' \in [Orchestrator -> PassState]
        /\ pass'[o].pc = "webhook" /\ pass'[o].cur = s
        /\ pass'[o].at = pass[o].at /\ pass'[o].seen = pass[o].seen
        /\ \A q \in Orchestrator \ {o} : pass'[q] = pass[q]
    BY <1>1, <2>1, EnterStep
  <2>3. CheckerTypeOK'
    BY <1>1, <1>2, <2>1, <2>2 DEF CheckerTypeOK, PassState
  <2>4. PassFits(o)'
    BY <1>1, <1>2, <2>1, <2>2 DEF PassFits
  <2>5. TellFits(o, s)'
    BY <1>1, <1>2, <2>1, <2>2 DEF TellFits
  <2> QED
    BY <1>2, <2>1, <2>2, <2>3, <2>4, <2>5, UnderWayFits DEF SameTold
<1>4. CASE s \notin Hooked
  <2>1. Done(o, s) /\ notified' = [notified EXCEPT ![o] = @ \cup {s}]
    BY <1>4 DEF Announce
  <2>2. pass' \in [Orchestrator -> PassState] /\ pass'[o].seen[s] = 0
    BY <1>1, <2>1, DoneStep
  <2>3. CheckerTypeOK'
    BY <1>1, <1>2, <2>1, <2>2 DEF CheckerTypeOK, PassState
  <2>4. TellFits(o, s)'
    BY <1>1, <1>2, <2>1, <2>2, UntoldBefore DEF TellFits
  <2>5. /\ \A q \in Orchestrator \ {o} : notified'[q] = notified[q]
        /\ \A t \in Sandbox \ {s} : t \in notified'[o] <=> t \in notified[o]
    BY <1>1, <2>1 DEF CheckerTypeOK
  <2> QED
    BY <1>2, <1>4, <2>1, <2>3, <2>4, <2>5, DoneFits DEF SameTold
<1> QED
  BY <1>3, <1>4

(* Telling counts up to 3, and only of this checker and sandbox. *)
LEMMA TellStep ==
    ASSUME CheckerTypeOK, NEW o \in Orchestrator, NEW s \in Sandbox, NEW ok \in BOOLEAN,
           Tell(o, s, ok), told[o][s] \in {0, 1}
    PROVE  /\ told' \in [Orchestrator -> [Sandbox -> 0..3]]
           /\ heard' \in [Orchestrator -> SUBSET Sandbox]
           /\ told'[o][s] \in {told[o][s], told[o][s] + 1}
           /\ s \in heard'[o] => s \in heard[o] \/ (ok /\ told'[o][s] # 0)
           /\ told'[o][s] = 0 => told[o][s] = 0
           /\ \A t \in Sandbox \ {s} : SameTold(o, t)
           /\ \A q \in Orchestrator \ {o} : told'[q] = told[q] /\ heard'[q] = heard[q]
           /\ tried \subseteq tried' /\ tried' \subseteq Sandbox
           /\ pass[o].seen[s] = expires[s] => s \in tried'
<1>0. told[o] \in [Sandbox -> 0..3]
  BY DEF CheckerTypeOK
<1>1. CASE pass[o].seen[s] = expires[s]
  <2>1. PICK k \in {1, 2} : k = told[o][s] + 1 /\ told' = [told EXCEPT ![o][s] = k]
    <3>1. told[o][s] < 3 /\ told[o][s] + 1 \in {1, 2}
      OBVIOUS
    <3> QED
      BY <1>1, <3>1 DEF Tell
  <2>2. PICK f : f = [told[o] EXCEPT ![s] = k]
    OBVIOUS
  <2>3. f \in [Sandbox -> 0..3] /\ f[s] = k /\ \A t \in Sandbox \ {s} : f[t] = told[o][t]
    BY <1>0, <2>2
  <2>4. told' = [told EXCEPT ![o] = f]
    BY <2>1, <2>2 DEF CheckerTypeOK
  <2>5. told' \in [Orchestrator -> [Sandbox -> 0..3]] /\ told'[o] = f
        /\ \A q \in Orchestrator \ {o} : told'[q] = told[q]
    BY <2>3, <2>4 DEF CheckerTypeOK
  <2>6. /\ heard' \in [Orchestrator -> SUBSET Sandbox]
        /\ s \in heard'[o] => s \in heard[o] \/ ok
        /\ \A t \in Sandbox \ {s} : t \in heard'[o] <=> t \in heard[o]
        /\ \A q \in Orchestrator \ {o} : heard'[q] = heard[q]
    <3>1. heard' = IF ok THEN [heard EXCEPT ![o] = @ \cup {s}] ELSE heard
      BY <1>1 DEF Tell
    <3> QED
      BY <3>1 DEF CheckerTypeOK
  <2>7. tried' = tried \cup {s}
    BY <1>1 DEF Tell
  <2> QED
    BY <2>1, <2>3, <2>5, <2>6, <2>7 DEF CheckerTypeOK, SameTold
<1>2. CASE pass[o].seen[s] # expires[s]
  <2>1. UNCHANGED <<told, heard, tried>>
    BY <1>2 DEF Tell, toldVars
  <2> QED
    BY <1>2, <2>1 DEF CheckerTypeOK, SameTold
<1> QED
  BY <1>1, <1>2

LEMMA FireStep ==
    ASSUME CheckerIInv, NEW o \in Orchestrator, Fire(o)
    PROVE  CheckerIInv'
<1>1. CheckerTypeOK /\ PassFits(o)
  BY DEF CheckerIInv
<1>2. PICK s \in Sandbox : s = pass[o].cur /\ pass[o].seen[s] # 0 /\ s \notin notified[o]
  BY <1>1 DEF PassFits, Fire
<1>3. told[o][s] = 0 /\ s \notin heard[o] /\ TimelyFits(o, s) /\ TellFits(o, s)
  BY <1>2, UntoldBefore DEF CheckerIInv
<1>4. /\ UNCHANGED <<now, order, record, expires, timely, creds, alive, patch, drifted,
                     swept, checkerFaults, patches, shuttingDown, asked>>
      /\ notified' = [notified EXCEPT ![o] = @ \cup {s}]
  BY <1>2 DEF Fire, recordVars, heldVars, patchVars
<1>5. /\ s \in notified'[o]
      /\ \A t \in Sandbox \ {s} : t \in notified'[o] <=> t \in notified[o]
      /\ \A q \in Orchestrator \ {o} : notified'[q] = notified[q]
      /\ notified' \in [Orchestrator -> SUBSET Sandbox]
  BY <1>1, <1>4 DEF CheckerTypeOK
<1>6. PICK ok \in BOOLEAN : /\ Tell(o, s, ok)
                            /\ IF ok THEN Done(o, s) ELSE Enter(o, s, "retry")
  BY <1>2 DEF Fire
<1>7. /\ told' \in [Orchestrator -> [Sandbox -> 0..3]]
      /\ heard' \in [Orchestrator -> SUBSET Sandbox]
      /\ told'[o][s] \in {0, 1}
      /\ s \in heard'[o] => ok /\ told'[o][s] # 0
      /\ \A t \in Sandbox \ {s} : SameTold(o, t)
      /\ \A q \in Orchestrator \ {o} : told'[q] = told[q] /\ heard'[q] = heard[q]
      /\ tried \subseteq tried' /\ tried' \subseteq Sandbox
      /\ pass[o].seen[s] = expires[s] => s \in tried'
  BY <1>1, <1>3, <1>6, TellStep
<1>8. s \in timely => s \in tried'
  BY <1>2, <1>3, <1>7 DEF TimelyFits
<1>9. TellFits(o, s)'
  BY <1>5, <1>7 DEF TellFits
<1>10. CASE ok
  <2>1. Done(o, s)
    BY <1>6, <1>10
  <2>2. pass' \in [Orchestrator -> PassState] /\ pass'[o].seen[s] = 0
    BY <1>1, <2>1, DoneStep
  <2>3. CheckerTypeOK'
    BY <1>1, <1>4, <1>5, <1>7, <2>2 DEF CheckerTypeOK, PassState
  <2> QED
    BY <1>2, <1>4, <1>5, <1>7, <1>8, <1>9, <2>1, <2>3, DoneFits
<1>11. CASE ~ok
  <2>1. /\ pass' \in [Orchestrator -> PassState]
        /\ pass'[o].pc = "retry" /\ pass'[o].cur = s
        /\ pass'[o].at = pass[o].at /\ pass'[o].seen = pass[o].seen
        /\ \A q \in Orchestrator \ {o} : pass'[q] = pass[q]
    BY <1>1, <1>6, <1>11, EnterStep
  <2>2. CheckerTypeOK'
    BY <1>1, <1>4, <1>5, <1>7, <2>1 DEF CheckerTypeOK, PassState
  <2>3. PassFits(o)'
    BY <1>1, <1>2, <1>4, <1>5, <1>7, <1>11, <2>1 DEF PassFits
  <2> QED
    BY <1>2, <1>4, <1>5, <1>7, <1>8, <1>9, <2>1, <2>2, <2>3, UnderWayFits
<1> QED
  BY <1>10, <1>11

LEMMA FireAgainStep ==
    ASSUME CheckerIInv, NEW o \in Orchestrator, FireAgain(o)
    PROVE  CheckerIInv'
<1>1. CheckerTypeOK /\ PassFits(o)
  BY DEF CheckerIInv
<1>2. PICK s \in Sandbox : /\ s = pass[o].cur /\ pass[o].seen[s] # 0 /\ s \in notified[o]
                           /\ told[o][s] \in {0, 1} /\ s \notin heard[o]
  BY <1>1 DEF PassFits, FireAgain
<1>3. TimelyFits(o, s)
  BY DEF CheckerIInv
<1>4. /\ UNCHANGED <<now, order, record, expires, timely, creds, alive, patch, drifted,
                     swept, checkerFaults, patches, shuttingDown, notified, asked>>
      /\ \E ok \in BOOLEAN : Tell(o, s, ok)
      /\ Done(o, s)
  BY <1>2 DEF FireAgain, recordVars, heldVars, patchVars
<1>5. /\ told' \in [Orchestrator -> [Sandbox -> 0..3]]
      /\ heard' \in [Orchestrator -> SUBSET Sandbox]
      /\ told'[o][s] \in 0..2
      /\ s \in heard'[o] => told'[o][s] # 0
      /\ \A t \in Sandbox \ {s} : SameTold(o, t)
      /\ \A q \in Orchestrator \ {o} : told'[q] = told[q] /\ heard'[q] = heard[q]
      /\ tried \subseteq tried' /\ tried' \subseteq Sandbox
  BY <1>1, <1>2, <1>4, TellStep
<1>6. pass' \in [Orchestrator -> PassState] /\ pass'[o].seen[s] = 0
  BY <1>1, <1>4, DoneStep
<1>7. CheckerTypeOK'
  BY <1>1, <1>4, <1>5, <1>6 DEF CheckerTypeOK, PassState
<1>8. TellFits(o, s)'
  BY <1>2, <1>4, <1>5 DEF TellFits
<1>9. s \in timely /\ s \in Hooked => s \in tried'
  BY <1>2, <1>3, <1>4, <1>5 DEF TimelyFits
<1> QED
  BY <1>2, <1>4, <1>5, <1>7, <1>8, <1>9, DoneFits

(* A pass that ends whole has nothing at hand. *)
LEMMA EndPassStep ==
    ASSUME CheckerIInv, NEW o \in Orchestrator, EndPass(o)
    PROVE  CheckerIInv'
<1>1. CheckerTypeOK /\ PassFits(o)
  BY DEF CheckerIInv
<1>2. /\ UNCHANGED <<now, order, record, expires, timely, creds, alive, patch, drifted,
                     swept, checkerFaults, patches, shuttingDown, notified, tried, asked, told, heard>>
      /\ pass' = [pass EXCEPT ![o] = Asleep]
      /\ \A s \in Sandbox : pass[o].seen[s] = 0
  BY DEF EndPass, recordVars, heldVars, patchVars, hookVars, toldVars, Unseen
<1>3. /\ pass' \in [Orchestrator -> PassState]
      /\ pass'[o] = Asleep
      /\ \A q \in Orchestrator \ {o} : pass'[q] = pass[q]
  BY <1>1, <1>2, SleepStep
<1>4. CheckerTypeOK'
  BY <1>1, <1>2, <1>3 DEF CheckerTypeOK, PassState
<1>5. PassFits(o)'
  BY <1>1, <1>2, <1>3, AsleepFields DEF PassFits, CheckerTypeOK, Time
<1>6. ASSUME NEW s \in Sandbox
      PROVE  /\ TellFits(o, s)' /\ TimelyFits(o, s)'
             /\ record'[s] = "none" => s \notin notified'[o] /\ pass'[o].seen[s] = 0
  <2>1. TellFits(o, s) /\ TimelyFits(o, s) /\ NewFits(s)
    BY DEF CheckerIInv
  <2>2. pass'[o].seen[s] = 0 /\ pass[o].seen[s] = 0
    BY <1>2, <1>3, AsleepFields
  <2>3. TellFits(o, s)'
    BY <1>2, <2>1, <2>2, TellKept DEF SameTold, Forgotten
  <2>4. TimelyFits(o, s)'
    BY <1>2, <2>1, <2>2 DEF TimelyFits, Visible, Wasted
  <2>5. record'[s] = "none" => s \notin notified'[o] /\ pass'[o].seen[s] = 0
    BY <1>2, <2>1, <2>2 DEF NewFits
  <2> QED
    BY <2>3, <2>4, <2>5
<1>7. checkerFaults <= checkerFaults'
  BY <1>1, <1>2 DEF CheckerTypeOK
<1> QED
  BY <1>2, <1>3, <1>4, <1>5, <1>6, <1>7, CheckerStep

(* A pass that is given up costs a fault; so what it leaves unannounced is *)
(* no more than the faults account for.                                    *)
LEMMA GivenUp ==
    ASSUME CheckerIInv, CheckerTypeOK', NEW o \in Orchestrator,
           NEW s \in Sandbox,
           UNCHANGED <<now, order, record, expires, timely, tried>>,
           checkerFaults' = checkerFaults + 1, pass'[o] = Asleep,
           s \in notified'[o] => s \in notified[o]
    PROVE  TimelyFits(o, s)'
<1>1. CheckerTypeOK /\ TimelyFits(o, s)
  BY DEF CheckerIInv
<1>2. now \in Nat /\ checkerFaults \in Nat /\ expires[s] \in Nat
  BY <1>1 DEF CheckerTypeOK, Time
<1>3. PICK W \in {0, 1} : W = Wasted(o, s)
  BY DEF Wasted
<1>4. PICK V \in {0, 1} : V = Wasted(o, s)'
  BY DEF Wasted
<1>5. Visible' = Visible /\ pass'[o].seen[s] = 0
  BY AsleepFields DEF Visible
<1>6. s \in timely /\ s \in Hooked /\ s \notin tried /\ s \in Visible =>
        now + LeadTime + V <= expires[s] + checkerFaults'
  <2>1. s \in timely /\ s \in Hooked /\ s \notin tried /\ s \in Visible =>
          now + LeadTime + W <= expires[s] + checkerFaults
    BY <1>1, <1>3 DEF TimelyFits
  <2> QED
    BY <1>2, <2>1, CheckerConstants
<1>7. s \in timely => /\ expires[s] # 0
                      /\ s \in Hooked /\ s \in notified'[o] => s \in tried
  BY <1>1 DEF TimelyFits
<1> QED
  BY <1>4, <1>5, <1>6, <1>7 DEF TimelyFits

LEMMA PassFailsStep ==
    ASSUME CheckerIInv, NEW o \in Orchestrator, PassFails(o)
    PROVE  CheckerIInv'
<1>1. CheckerTypeOK /\ PassFits(o)
  BY DEF CheckerIInv
<1>2. /\ UNCHANGED <<now, order, record, expires, timely, creds, alive, patch, drifted,
                     swept, patches, shuttingDown, notified, tried, asked, told, heard>>
      /\ pass' = [pass EXCEPT ![o] = Asleep]
      /\ checkerFaults' = checkerFaults + 1 /\ checkerFaults < MaxCheckerFaults
  BY DEF PassFails, CheckerFault, recordVars, heldVars, patchVars, hookVars, toldVars
<1>3. /\ pass' \in [Orchestrator -> PassState]
      /\ pass'[o] = Asleep
      /\ \A q \in Orchestrator \ {o} : pass'[q] = pass[q]
  BY <1>1, <1>2, SleepStep
<1>4. CheckerTypeOK' /\ checkerFaults <= checkerFaults'
  BY <1>1, <1>2, <1>3, CheckerConstants DEF CheckerTypeOK, PassState
<1>5. PassFits(o)'
  BY <1>1, <1>2, <1>3, AsleepFields DEF PassFits, CheckerTypeOK, Time
<1>6. ASSUME NEW s \in Sandbox
      PROVE  /\ TellFits(o, s)' /\ TimelyFits(o, s)'
             /\ record'[s] = "none" => s \notin notified'[o] /\ pass'[o].seen[s] = 0
  <2>1. TellFits(o, s) /\ NewFits(s)
    BY DEF CheckerIInv
  <2>2. pass'[o].seen[s] = 0
    BY <1>3, AsleepFields
  <2>3. TellFits(o, s)'
    BY <1>2, <2>1, <2>2, TellKept DEF SameTold, Forgotten
  <2>4. TimelyFits(o, s)'
    BY <1>2, <1>3, <1>4, GivenUp
  <2>5. record'[s] = "none" => s \notin notified'[o] /\ pass'[o].seen[s] = 0
    BY <1>2, <2>1, <2>2 DEF NewFits
  <2> QED
    BY <2>3, <2>4, <2>5
<1> QED
  BY <1>2, <1>3, <1>4, <1>5, <1>6, CheckerStep

LEMMA RestartStep ==
    ASSUME CheckerIInv, NEW o \in Orchestrator, Restart(o)
    PROVE  CheckerIInv'
<1>1. CheckerTypeOK /\ PassFits(o)
  BY DEF CheckerIInv
<1>2. /\ UNCHANGED <<now, order, record, expires, timely, creds, alive, patch, drifted,
                     swept, patches, tried, asked>>
      /\ pass' = [pass EXCEPT ![o] = Asleep]
      /\ notified' = [notified EXCEPT ![o] = {}]
      /\ shuttingDown' = [shuttingDown EXCEPT ![o] = {}]
      /\ told' = [told EXCEPT ![o] = Unseen]
      /\ heard' = [heard EXCEPT ![o] = {}]
      /\ checkerFaults' = checkerFaults + 1 /\ checkerFaults < MaxCheckerFaults
  BY DEF Restart, CheckerFault, recordVars, heldVars, patchVars, hookVars, toldVars
<1>3. /\ pass' \in [Orchestrator -> PassState]
      /\ pass'[o] = Asleep
      /\ \A q \in Orchestrator \ {o} : pass'[q] = pass[q]
  BY <1>1, <1>2, SleepStep
<1>4. Unseen \in [Sandbox -> 0..3] /\ \A s \in Sandbox : Unseen[s] = 0
  BY DEF Unseen
<1>5. /\ notified' \in [Orchestrator -> SUBSET Sandbox] /\ notified'[o] = {}
      /\ told' \in [Orchestrator -> [Sandbox -> 0..3]]
      /\ \A s \in Sandbox : told'[o][s] = 0
      /\ heard' \in [Orchestrator -> SUBSET Sandbox] /\ heard'[o] = {}
      /\ \A q \in Orchestrator \ {o} : /\ notified'[q] = notified[q]
                                    /\ told'[q] = told[q] /\ heard'[q] = heard[q]
  BY <1>1, <1>2, <1>4 DEF CheckerTypeOK
<1>6. CheckerTypeOK' /\ checkerFaults <= checkerFaults'
  BY <1>1, <1>2, <1>3, <1>5, CheckerConstants DEF CheckerTypeOK, PassState
<1>7. PassFits(o)'
  BY <1>1, <1>2, <1>3, AsleepFields DEF PassFits, CheckerTypeOK, Time
<1>8. ASSUME NEW s \in Sandbox
      PROVE  /\ TellFits(o, s)' /\ TimelyFits(o, s)'
             /\ record'[s] = "none" => s \notin notified'[o] /\ pass'[o].seen[s] = 0
  <2>1. TellFits(o, s)'
    BY <1>5 DEF TellFits
  <2>2. TimelyFits(o, s)'
    BY <1>2, <1>3, <1>5, <1>6, GivenUp
  <2> QED
    BY <1>3, <1>5, <2>1, <2>2, AsleepFields
<1>9. \A s \in Sandbox : record'[s] \in {record[s], "destroyed"}
  BY <1>2
<1> QED
  BY <1>2, <1>3, <1>5, <1>6, <1>7, <1>8, <1>9, CheckerStep

-----------------------------------------------------------------------------
(* Time passes; what stays timely was swept by every checker. *)
LEMMA TickStep ==
    ASSUME CheckerIInv, Tick
    PROVE  CheckerIInv'
<1>1. CheckerTypeOK
  BY DEF CheckerIInv
<1>2. /\ UNCHANGED <<order, record, expires, creds, alive, notified, shuttingDown, pass,
                     patch, patches, drifted, checkerFaults, tried, asked, told, heard>>
      /\ now' = now + 1 /\ now < MaxTime /\ swept' = {} /\ timely' \subseteq timely
      /\ timely' # {} => /\ swept = Orchestrator
                         /\ \A o \in Orchestrator : pass[o].pc = "sleep"
  BY DEF Tick, recordVars, heldVars, patchVars, toldVars
<1>3. now \in Nat /\ now' \in Time /\ now <= now'
  BY <1>1, <1>2, CheckerConstants DEF CheckerTypeOK, Time
<1>4. CheckerTypeOK'
  BY <1>1, <1>2, <1>3 DEF CheckerTypeOK
<1>5. ASSUME NEW s \in Sandbox PROVE NewFits(s)' /\ TimerFits(s)'
  <2>1. NewFits(s)
    BY DEF CheckerIInv
  <2>2. NewFits(s)'
    BY <1>2, <2>1 DEF NewFits, Patching
  <2> QED
    BY <1>2, <2>2, TimersKept
<1>6. \A p \in Patcher : PatchFits(p)'
  BY <1>2, TimersKept
<1>7. ASSUME NEW o \in Orchestrator PROVE PassFits(o)'
  <2>1. PassFits(o)
    BY DEF CheckerIInv
  <2> QED
    BY <1>1, <1>2, <1>3, <1>4, <2>1, PassKept DEF SameTold, Forgotten
<1>8. ASSUME NEW o \in Orchestrator, NEW s \in Sandbox
      PROVE  TellFits(o, s)' /\ TimelyFits(o, s)'
  <2>1. PassFits(o) /\ TellFits(o, s) /\ TimelyFits(o, s)
    BY DEF CheckerIInv
  <2>2. TellFits(o, s)'
    BY <1>2, <2>1, TellKept DEF SameTold, Forgotten
  <2>3. SUFFICES ASSUME s \in timely' PROVE TimelyFits(o, s)'
    BY <2>2 DEF TimelyFits
  <2>4. s \in timely /\ o \in swept /\ pass[o].seen[s] = 0
    BY <1>2, <2>1, <2>3, AsleepFields DEF PassFits
  <2>5. Wasted(o, s) = 1 /\ Wasted(o, s)' = 0 /\ Visible' = Visible
    BY <1>2, <2>4 DEF Wasted, Visible
  <2>6. s \in Hooked /\ s \notin tried /\ s \in Visible =>
          now' + LeadTime <= expires[s] + checkerFaults
    BY <1>2, <1>3, <2>1, <2>4, <2>5, CheckerConstants DEF TimelyFits
  <2>7. now' \in Nat
    BY <1>3 DEF Time
  <2>8. s \in Hooked /\ s \notin tried /\ s \in Visible =>
          now' + LeadTime + Wasted(o, s)' <= expires[s] + checkerFaults
    BY <2>5, <2>6, <2>7, CheckerConstants
  <2>9. expires[s] # 0 /\ (s \in Hooked => (s \in notified[o] => s \in tried))
    BY <2>1, <2>4 DEF TimelyFits
  <2> QED
    BY <1>2, <2>4, <2>5, <2>8, <2>9 DEF TimelyFits
<1> QED
  BY <1>4, <1>5, <1>6, <1>7, <1>8 DEF CheckerIInv

(* A newer record can only push older ones off the page. *)
LEMMA VisibleAppended ==
    ASSUME CheckerTypeOK, NEW s \in Sandbox, order' = Append(order, s),
           NEW t \in Sandbox \ {s}, record'[t] = record[t]
    PROVE  t \in Visible' => t \in Visible
<1>1. order \in Seq(Sandbox)
  BY DEF CheckerTypeOK
<1>2. Len(order) \in Nat /\ Len(order') = Len(order) + 1
      /\ order'[Len(order) + 1] = s
      /\ \A i \in 1..Len(order) : order'[i] = order[i]
  BY <1>1
<1>3. SUFFICES ASSUME t \in Visible' PROVE t \in Visible
  OBVIOUS
<1>4. PICK i \in 1..Len(order') : i + Window > Len(order') /\ order'[i] = t
  BY <1>3 DEF Visible
<1>5. i \in 1..Len(order) /\ i + Window > Len(order) /\ order[i] = t
  BY <1>2, <1>4, CheckerConstants
<1>6. record[t] = "running"
  BY <1>3 DEF Visible
<1> QED
  BY <1>5, <1>6 DEF Visible

LEMMA CreateStep ==
    ASSUME CheckerIInv, NEW s \in Sandbox, Create(s)
    PROVE  CheckerIInv'
<1>1. CheckerTypeOK /\ NewFits(s) /\ TimerFits(s) /\ record[s] = "none"
  BY DEF CheckerIInv, Create
<1>2. PICK e \in Later(now) \cup {0}, g \in Given :
         /\ expires' = [expires EXCEPT ![s] = IF g THEN e ELSE 0]
         /\ creds' = [creds EXCEPT ![s] = e]
         /\ drifted' = IF g \/ e = 0 THEN drifted ELSE drifted \cup {s}
         /\ timely' = IF g /\ e > now + LeadTime THEN timely \cup {s} ELSE timely
  BY DEF Create
<1>3. /\ record' = [record EXCEPT ![s] = "running"]
      /\ alive' = alive \cup {s}
      /\ order' = Append(order, s)
      /\ UNCHANGED <<now, notified, shuttingDown, pass, swept, patch, patches,
                     checkerFaults, tried, asked, told, heard>>
  BY DEF Create, passVars, toldVars
<1>4. now \in Nat /\ e \in Time /\ e \in Nat /\ checkerFaults \in Nat /\ 0 \in Time
  BY <1>1, CheckerConstants DEF CheckerTypeOK, Time, Later
<1>5. CheckerTypeOK'
  <2>1. order' \in Seq(Sandbox)
    BY <1>1, <1>3 DEF CheckerTypeOK
  <2> QED
    BY <1>1, <1>2, <1>3, <1>4, <2>1 DEF CheckerTypeOK
<1>6. /\ creds'[s] = e /\ record'[s] = "running"
      /\ s \in timely' => expires'[s] = e /\ e > now + LeadTime
      /\ s \notin drifted' => expires'[s] = e
      /\ \A t \in Sandbox \ {s} :
           /\ expires'[t] = expires[t] /\ creds'[t] = creds[t] /\ record'[t] = record[t]
           /\ (t \in timely' <=> t \in timely) /\ (t \in drifted' <=> t \in drifted)
  BY <1>1, <1>2, <1>3 DEF CheckerTypeOK, NewFits
<1>7. ~Patching(s) /\ \A o \in Orchestrator : s \notin notified[o] /\ pass[o].seen[s] = 0
  BY <1>1 DEF NewFits
<1>8. ASSUME NEW t \in Sandbox PROVE NewFits(t)' /\ TimerFits(t)'
  <2>1. NewFits(t) /\ TimerFits(t) /\ Storing(t)' = Storing(t)
    BY <1>3 DEF CheckerIInv, Storing
  <2>2. NewFits(t)'
    BY <1>3, <1>6, <2>1 DEF NewFits, Patching
  <2>3. Storing(s) = {}
    BY <1>7 DEF Storing, Patching
  <2>4. TimerFits(t)'
    BY <1>3, <1>6, <2>1, <2>3 DEF TimerFits
  <2> QED
    BY <2>2, <2>4
<1>9. \A p \in Patcher : PatchFits(p)'
  BY <1>3 DEF CheckerIInv, PatchFits
<1>10. ASSUME NEW o \in Orchestrator PROVE PassFits(o)'
  <2>1. PassFits(o) /\ now <= now'
    BY <1>3, <1>4 DEF CheckerIInv
  <2> QED
    BY <1>1, <1>3, <1>5, <2>1, PassKept DEF SameTold, Forgotten
<1>11. ASSUME NEW o \in Orchestrator, NEW t \in Sandbox
       PROVE  TellFits(o, t)' /\ TimelyFits(o, t)'
  <2>1. TellFits(o, t) /\ TimelyFits(o, t)
    BY DEF CheckerIInv
  <2>2. TellFits(o, t)'
    <3>1. record[t] = "destroyed" => record'[t] = "destroyed"
      BY <1>1, <1>6
    <3> QED
      BY <1>3, <2>1, <3>1, TellKept DEF SameTold, Forgotten
  <2>3. CASE t = s
    <3>1. Wasted(o, s)' \in {0, 1}
      BY DEF Wasted
    <3>2. s \in timely' => now' + LeadTime + Wasted(o, s)' <= expires'[s] + checkerFaults'
                           /\ expires'[s] # 0
      BY <1>3, <1>4, <1>6, <3>1, CheckerConstants
    <3>3. s \notin notified'[o] /\ pass'[o].seen[s] = 0
      BY <1>3, <1>7
    <3> QED
      BY <2>2, <2>3, <3>2, <3>3 DEF TimelyFits
  <2>4. CASE t # s
    <3>1. t \in Visible' => t \in Visible
      BY <1>1, <1>3, <1>6, <2>4, VisibleAppended
    <3> QED
      BY <1>1, <1>3, <1>4, <1>5, <1>6, <2>1, <2>2, <2>4, <3>1, TimelyKept
  <2> QED
    BY <2>3, <2>4
<1> QED
  BY <1>5, <1>8, <1>9, <1>10, <1>11 DEF CheckerIInv

(* A PATCH handler's step leaves the checkers' side alone, but for the     *)
(* expiry that it stores.                                                  *)
LEMMA PatchStep ==
    ASSUME CheckerIInv, CheckerTypeOK', NEW s \in Sandbox,
           UNCHANGED <<now, order, record, notified, pass, swept>>,
           checkerFaults <= checkerFaults',
           record[s] # "none",
           \A t \in Sandbox \ {s} :
               /\ expires'[t] = expires[t] /\ creds'[t] = creds[t]
               /\ t \in tried' <=> t \in tried
               /\ \A o \in Orchestrator : SameTold(o, t),
           \A o \in Orchestrator : SameTold(o, s) \/ Forgotten(o, s),
           timely' \subseteq timely,
           s \in timely' => expires'[s] = expires[s] /\ (s \in tried => s \in tried'),
           \A t \in Sandbox : Patching(t)' => Patching(t) \/ t = s,
           \A t \in Sandbox : TimerFits(t)',
           \A p \in Patcher : PatchFits(p)'
    PROVE  CheckerIInv'
<1>1. CheckerTypeOK /\ now <= now'
  BY DEF CheckerIInv, CheckerTypeOK, Time
<1>2. ASSUME NEW t \in Sandbox PROVE NewFits(t)'
  <2>1. NewFits(t)
    BY DEF CheckerIInv
  <2> QED
    BY <2>1 DEF NewFits
<1>3. ASSUME NEW o \in Orchestrator PROVE PassFits(o)'
  <2>1. PassFits(o)
    BY DEF CheckerIInv
  <2>2. \A t \in Sandbox : SameTold(o, t) \/ Forgotten(o, t)
    OBVIOUS
  <2> QED
    BY <1>1, <2>1, <2>2, PassKept DEF SameTold, Forgotten
<1>4. ASSUME NEW o \in Orchestrator, NEW t \in Sandbox
      PROVE  TellFits(o, t)' /\ TimelyFits(o, t)'
  <2>1. TellFits(o, t) /\ TimelyFits(o, t)
    BY DEF CheckerIInv
  <2>2. TellFits(o, t)'
    <3>1. SameTold(o, t) \/ Forgotten(o, t)
      OBVIOUS
    <3> QED
      BY <2>1, <3>1, TellKept DEF SameTold, Forgotten
  <2>3. CASE t \notin timely'
    BY <2>2, <2>3 DEF TimelyFits
  <2>4. CASE t \in timely'
    <3>1. t \in timely /\ expires'[t] = expires[t] /\ (t \in tried => t \in tried')
      BY <2>4
    <3>2. t \in Visible' => t \in Visible
      BY VisibleKept
    <3> QED
      BY <1>1, <2>1, <2>2, <3>1, <3>2, TimelyKept
  <2> QED
    BY <2>3, <2>4
<1> QED
  BY <1>2, <1>3, <1>4 DEF CheckerIInv

PatchState == [pc : {"idle", "worker", "expiry"}, box : Sandbox \cup {NoSandbox},
               new : Time, given : BOOLEAN]

LEMMA NoPatchFields ==
    /\ NoPatch \in PatchState
    /\ NoPatch.pc = "idle" /\ NoPatch.box = NoSandbox /\ NoSandbox \notin Sandbox
BY CheckerConstants DEF NoPatch, PatchState, Time

(* What a handler becomes when its PATCH is over. *)
LEMMA PatchOver ==
    ASSUME CheckerTypeOK, NEW p \in Patcher, patch' = [patch EXCEPT ![p] = NoPatch],
           \A q \in Patcher : PatchFits(q)
    PROVE  /\ patch' \in [Patcher -> PatchState]
           /\ \A q \in Patcher : PatchFits(q)'
           /\ \A t \in Sandbox : /\ Patching(t)' => Patching(t)
                                 /\ Storing(t)' = Storing(t) \ {p}
           /\ \A q \in Patcher \ {p} : patch'[q] = patch[q]
<1>1. patch \in [Patcher -> PatchState]
  BY DEF CheckerTypeOK, PatchState
<1>2. patch' \in [Patcher -> PatchState] /\ patch'[p] = NoPatch
      /\ \A q \in Patcher \ {p} : patch'[q] = patch[q]
  BY <1>1, NoPatchFields
<1>3. \A q \in Patcher : PatchFits(q)'
  BY <1>2, NoPatchFields DEF PatchFits
<1>4. ASSUME NEW t \in Sandbox
      PROVE  (Patching(t)' => Patching(t)) /\ Storing(t)' = Storing(t) \ {p}
  BY <1>2, NoPatchFields DEF Patching, Storing
<1> QED
  BY <1>2, <1>3, <1>4

LEMMA PatchBeginStep ==
    ASSUME CheckerIInv, NEW p \in Patcher, NEW s \in Sandbox, PatchBegin(p, s)
    PROVE  CheckerIInv'
<1>1. CheckerTypeOK
  BY DEF CheckerIInv
<1>2. /\ UNCHANGED <<now, order, record, expires, creds, alive, notified, shuttingDown,
                     pass, swept, drifted, checkerFaults, tried, asked, told, heard, timely>>
      /\ patch[p].pc = "idle" /\ record[s] = "running"
      /\ patches < MaxPatches /\ patches' = patches + 1
  BY DEF PatchBegin, recordVars, heldVars, passVars, hookVars, toldVars
<1>3. PICK e \in Later(now), g \in BOOLEAN :
         patch' = [patch EXCEPT ![p] = [pc |-> "worker", box |-> s, new |-> e, given |-> g]]
  BY CheckerConstants DEF PatchBegin
<1>4. e \in Time
  BY <1>1, CheckerConstants DEF CheckerTypeOK, Time, Later
<1>5. PICK n : n = [pc |-> "worker", box |-> s, new |-> e, given |-> g]
  OBVIOUS
<1>6. n \in PatchState /\ n.pc = "worker" /\ n.box = s
  BY <1>4, <1>5 DEF PatchState
<1>7. patch \in [Patcher -> PatchState]
  BY <1>1 DEF CheckerTypeOK, PatchState
<1>8. patch' \in [Patcher -> PatchState] /\ patch'[p] = n
      /\ \A q \in Patcher \ {p} : patch'[q] = patch[q]
  BY <1>3, <1>5, <1>6, <1>7
<1>9. CheckerTypeOK'
  BY <1>1, <1>2, <1>8, CheckerConstants DEF CheckerTypeOK, PatchState
<1>10. ASSUME NEW t \in Sandbox
       PROVE  TimerFits(t)' /\ (Patching(t)' => Patching(t) \/ t = s)
  <2>1. Storing(t)' = Storing(t)
    BY <1>2, <1>6, <1>8 DEF Storing
  <2>2. TimerFits(t) /\ p \notin Storing(t) /\ Storing(t) \subseteq Patcher
    BY <1>2 DEF CheckerIInv, Storing
  <2>3. TimerFits(t)'
    BY <1>2, <1>8, <2>1, <2>2 DEF TimerFits
  <2>4. Patching(t)' => Patching(t) \/ t = s
    BY <1>6, <1>8 DEF Patching
  <2> QED
    BY <2>3, <2>4
<1>11. ASSUME NEW q \in Patcher PROVE PatchFits(q)'
  <2>1. PatchFits(q)
    BY DEF CheckerIInv
  <2> QED
    BY <1>6, <1>8, <2>1 DEF PatchFits
<1>12. checkerFaults <= checkerFaults'
  BY <1>1, <1>2 DEF CheckerTypeOK
<1> QED
  BY <1>2, <1>9, <1>10, <1>11, <1>12, PatchStep DEF SameTold, Forgotten

LEMMA PatchWorkerStep ==
    ASSUME CheckerIInv, NEW p \in Patcher, PatchWorker(p)
    PROVE  CheckerIInv'
<1>1. CheckerTypeOK /\ PatchFits(p) /\ \A q \in Patcher : PatchFits(q)
  BY DEF CheckerIInv
<1>2. PICK s \in Sandbox : s = patch[p].box
  BY <1>1 DEF PatchFits, PatchWorker
<1>3. /\ UNCHANGED <<now, order, record, expires, alive, notified, shuttingDown,
                     pass, swept, patches, checkerFaults, tried, asked, told, heard, timely>>
      /\ patch[p].pc = "worker"
  BY DEF PatchWorker, recordVars, passVars, hookVars, toldVars
<1>4. NewFits(s) /\ Patching(s)
  BY <1>2 DEF CheckerIInv, Patching
<1>5. record[s] # "none"
  BY <1>4 DEF NewFits
<1>6. checkerFaults <= checkerFaults' /\ patch \in [Patcher -> PatchState]
      /\ creds \in [Sandbox -> Time]
  BY <1>1, <1>3 DEF CheckerTypeOK, PatchState
<1>7. CASE s \notin alive
  <2>1. patch' = [patch EXCEPT ![p] = NoPatch] /\ UNCHANGED <<creds, drifted>>
    BY <1>2, <1>7 DEF PatchWorker
  <2>2. /\ patch' \in [Patcher -> PatchState]
        /\ \A q \in Patcher : PatchFits(q)'
        /\ \A t \in Sandbox : /\ Patching(t)' => Patching(t)
                              /\ Storing(t)' = Storing(t) \ {p}
        /\ \A q \in Patcher \ {p} : patch'[q] = patch[q]
    BY <1>1, <2>1, PatchOver
  <2>3. CheckerTypeOK'
    BY <1>1, <1>3, <2>1, <2>2 DEF CheckerTypeOK, PatchState
  <2>4. ASSUME NEW t \in Sandbox PROVE TimerFits(t)'
    <3>1. TimerFits(t) /\ p \notin Storing(t) /\ Storing(t) \subseteq Patcher
      BY <1>3 DEF CheckerIInv, Storing
    <3>2. Storing(t)' = Storing(t)
      BY <2>2, <3>1
    <3> QED
      BY <1>3, <2>1, <2>2, <3>1, <3>2 DEF TimerFits
  <2> QED
    BY <1>3, <1>5, <1>6, <2>1, <2>2, <2>3, <2>4, PatchStep DEF SameTold, Forgotten
<1>8. CASE s \in alive
  <2>1. PICK r \in PatchState : r = patch[p]
    BY <1>6
  <2>2. PICK n : n = [r EXCEPT !.pc = "expiry"]
    OBVIOUS
  <2>3. n \in PatchState /\ n.pc = "expiry" /\ n.box = s /\ n.new = r.new /\ r.new \in Time
    BY <1>2, <2>1, <2>2 DEF PatchState
  <2>4. /\ patch' = [patch EXCEPT ![p] = n]
        /\ creds' = [creds EXCEPT ![s] = r.new]
        /\ drifted' = IF Storing(s) = {} THEN drifted \ {s} ELSE drifted \cup {s}
    BY <1>2, <1>6, <1>8, <2>1, <2>2 DEF PatchWorker
  <2>5. /\ patch' \in [Patcher -> PatchState] /\ patch'[p] = n
        /\ \A q \in Patcher \ {p} : patch'[q] = patch[q]
        /\ creds' \in [Sandbox -> Time] /\ creds'[s] = n.new
        /\ \A t \in Sandbox \ {s} : creds'[t] = creds[t]
    BY <1>6, <2>3, <2>4
  <2>6. CheckerTypeOK'
    BY <1>1, <1>3, <2>4, <2>5 DEF CheckerTypeOK, PatchState
  <2>7. ASSUME NEW q \in Patcher PROVE PatchFits(q)'
    BY <1>1, <2>3, <2>5 DEF PatchFits
  <2>8. ASSUME NEW t \in Sandbox
        PROVE  TimerFits(t)' /\ (Patching(t)' => Patching(t) \/ t = s)
    <3>1. TimerFits(t) /\ Storing(t) \subseteq Patcher /\ p \notin Storing(t)
      BY <1>3 DEF CheckerIInv, Storing
    <3>2. /\ t = s => Storing(t)' = Storing(t) \cup {p}
          /\ t # s => Storing(t)' = Storing(t)
      <4>1. ASSUME NEW q \in Patcher
            PROVE  q \in Storing(t)' <=> q \in Storing(t) \/ (q = p /\ t = s)
        <5>1. CASE q = p
          BY <2>3, <2>5, <3>1, <5>1 DEF Storing
        <5>2. CASE q # p
          BY <2>5, <5>2 DEF Storing
        <5> QED
          BY <5>1, <5>2
      <4>2. Storing(t)' \subseteq Patcher
        BY DEF Storing
      <4> QED
        BY <3>1, <4>1, <4>2
    <3>3. ASSUME t = s PROVE TimerFits(t)'
      <4>1. SUFFICES ASSUME t \notin drifted' PROVE TimerFits(t)'
        BY DEF TimerFits
      <4>2. Storing(t)' = {p}
        BY <2>4, <3>2, <3>3, <4>1
      <4> QED
        BY <2>5, <3>3, <4>2 DEF TimerFits
    <3>4. ASSUME t # s PROVE TimerFits(t)'
      <4>1. Storing(t)' = Storing(t) /\ (t \in drifted' <=> t \in drifted)
        BY <2>4, <3>2, <3>4
      <4> QED
        BY <1>3, <2>5, <3>1, <3>4, <4>1 DEF TimerFits
    <3>5. Patching(t)' => Patching(t) \/ t = s
      BY <2>3, <2>5 DEF Patching
    <3> QED
      BY <3>3, <3>4, <3>5
  <2> QED
    BY <1>3, <1>5, <1>6, <2>5, <2>6, <2>7, <2>8, PatchStep DEF SameTold, Forgotten
<1> QED
  BY <1>7, <1>8

LEMMA PatchExpiryStep ==
    ASSUME CheckerIInv, NEW p \in Patcher, PatchExpiry(p)
    PROVE  CheckerIInv'
<1>1. CheckerTypeOK /\ PatchFits(p) /\ \A q \in Patcher : PatchFits(q)
  BY DEF CheckerIInv
<1>2. PICK s \in Sandbox : s = patch[p].box
  BY <1>1 DEF PatchFits, PatchExpiry
<1>3. /\ UNCHANGED <<now, order, record, alive, creds, notified, shuttingDown,
                     pass, swept, patches, checkerFaults>>
      /\ patch[p].pc = "expiry"
      /\ patch' = [patch EXCEPT ![p] = NoPatch]
  BY DEF PatchExpiry, heldVars, passVars
<1>4. NewFits(s) /\ Patching(s)
  BY <1>2 DEF CheckerIInv, Patching
<1>5. record[s] # "none"
  BY <1>4 DEF NewFits
<1>6. checkerFaults <= checkerFaults' /\ patch[p].new \in Time
  BY <1>1, <1>3 DEF CheckerTypeOK
<1>7. /\ patch' \in [Patcher -> PatchState]
      /\ \A q \in Patcher : PatchFits(q)'
      /\ \A t \in Sandbox : /\ Patching(t)' => Patching(t)
                            /\ Storing(t)' = Storing(t) \ {p}
      /\ \A q \in Patcher \ {p} : patch'[q] = patch[q]
  BY <1>1, <1>3, PatchOver
<1>8. ASSUME NEW t \in Sandbox
      PROVE  TimerFits(t) /\ Storing(t) \subseteq Patcher /\ (p \in Storing(t) <=> t = s)
  BY <1>2, <1>3 DEF CheckerIInv, Storing
<1>9. CASE patch[p].given
  <2>1. /\ expires' = [expires EXCEPT ![s] = patch[p].new]
        /\ told' = [o \in Orchestrator |-> [told[o] EXCEPT ![s] = 0]]
        /\ heard' = [o \in Orchestrator |-> heard[o] \ {s}]
        /\ tried' = tried \ {s} /\ asked' = asked \ {s} /\ timely' = timely \ {s} /\ drifted' = drifted
    BY <1>2, <1>9 DEF PatchExpiry
  <2>2. /\ expires' \in [Sandbox -> Time] /\ expires'[s] = patch[p].new
        /\ \A t \in Sandbox \ {s} : expires'[t] = expires[t]
        /\ told' \in [Orchestrator -> [Sandbox -> 0..3]]
        /\ heard' \in [Orchestrator -> SUBSET Sandbox]
        /\ \A o \in Orchestrator : /\ Forgotten(o, s)
                                   /\ \A t \in Sandbox \ {s} : SameTold(o, t)
    <3>1. expires \in [Sandbox -> Time]
      BY <1>1 DEF CheckerTypeOK
    <3>2. ASSUME NEW o \in Orchestrator
          PROVE  /\ told'[o] \in [Sandbox -> 0..3] /\ Forgotten(o, s)
                 /\ heard'[o] \in SUBSET Sandbox
                 /\ \A t \in Sandbox \ {s} : SameTold(o, t)
      <4>1. /\ told'[o] = [told[o] EXCEPT ![s] = 0] /\ told[o] \in [Sandbox -> 0..3]
            /\ heard'[o] = heard[o] \ {s} /\ heard[o] \in SUBSET Sandbox
        BY <1>1, <2>1 DEF CheckerTypeOK
      <4> QED
        BY <4>1 DEF Forgotten, SameTold
    <3>3. told' \in [Orchestrator -> [Sandbox -> 0..3]]
          /\ heard' \in [Orchestrator -> SUBSET Sandbox]
      BY <2>1, <3>2
    <3> QED
      BY <1>6, <2>1, <3>1, <3>2, <3>3
  <2>3. CheckerTypeOK'
    BY <1>1, <1>3, <1>7, <2>1, <2>2 DEF CheckerTypeOK, PatchState
  <2>4. ASSUME NEW t \in Sandbox PROVE TimerFits(t)'
    <3>1. CASE t = s
      <4>1. SUFFICES ASSUME t \notin drifted PROVE TimerFits(t)'
        BY <2>1 DEF TimerFits
      <4>2. Storing(t) = {p} /\ patch[p].new = creds[t]
        BY <1>8, <3>1, <4>1 DEF TimerFits
      <4>3. Storing(t)' = {}
        BY <1>7, <4>2
      <4> QED
        BY <1>3, <2>2, <3>1, <4>2, <4>3 DEF TimerFits
    <3>2. CASE t # s
      <4>1. Storing(t)' = Storing(t)
        BY <1>7, <1>8, <3>2
      <4> QED
        BY <1>3, <1>7, <1>8, <2>1, <2>2, <3>2, <4>1 DEF TimerFits
    <3> QED
      BY <3>1, <3>2
  <2> QED
    BY <1>3, <1>5, <1>6, <1>7, <2>1, <2>2, <2>3, <2>4, PatchStep DEF SameTold, Forgotten
<1>10. CASE ~patch[p].given
  <2>1. drifted' = drifted \cup {s} /\ UNCHANGED <<expires, tried, asked, told, heard, timely>>
    BY <1>2, <1>10 DEF PatchExpiry, hookVars, toldVars
  <2>2. CheckerTypeOK'
    BY <1>1, <1>3, <1>7, <2>1 DEF CheckerTypeOK, PatchState
  <2>3. ASSUME NEW t \in Sandbox PROVE TimerFits(t)'
    <3>1. SUFFICES ASSUME t \notin drifted' PROVE TimerFits(t)'
      BY DEF TimerFits
    <3>2. t # s /\ t \notin drifted
      BY <2>1, <3>1
    <3>3. Storing(t)' = Storing(t)
      BY <1>7, <1>8, <3>2
    <3> QED
      BY <1>3, <1>7, <1>8, <2>1, <3>2, <3>3 DEF TimerFits
  <2> QED
    BY <1>3, <1>5, <1>6, <1>7, <2>1, <2>2, <2>3, PatchStep DEF SameTold, Forgotten
<1> QED
  BY <1>9, <1>10

LEMMA PatchBreaksOffStep ==
    ASSUME CheckerIInv, NEW p \in Patcher, PatchBreaksOff(p)
    PROVE  CheckerIInv'
<1>1. CheckerTypeOK /\ PatchFits(p) /\ \A q \in Patcher : PatchFits(q)
  BY DEF CheckerIInv
<1>2. PICK s \in Sandbox : s = patch[p].box
  BY <1>1 DEF PatchFits, PatchBreaksOff
<1>3. /\ UNCHANGED <<now, order, record, expires, alive, creds, notified, shuttingDown,
                     pass, swept, patches, tried, asked, told, heard, timely>>
      /\ patch[p].pc = "expiry"
      /\ patch' = [patch EXCEPT ![p] = NoPatch]
      /\ drifted' = drifted \cup {s}
      /\ checkerFaults' = checkerFaults + 1 /\ checkerFaults < MaxCheckerFaults
  BY <1>2 DEF PatchBreaksOff, CheckerFault, recordVars, heldVars, passVars, hookVars, toldVars
<1>4. NewFits(s) /\ Patching(s)
  BY <1>2 DEF CheckerIInv, Patching
<1>5. record[s] # "none"
  BY <1>4 DEF NewFits
<1>6. /\ patch' \in [Patcher -> PatchState]
      /\ \A q \in Patcher : PatchFits(q)'
      /\ \A t \in Sandbox : /\ Patching(t)' => Patching(t)
                            /\ Storing(t)' = Storing(t) \ {p}
      /\ \A q \in Patcher \ {p} : patch'[q] = patch[q]
  BY <1>1, <1>3, PatchOver
<1>7. CheckerTypeOK' /\ checkerFaults <= checkerFaults'
  BY <1>1, <1>3, <1>6, CheckerConstants DEF CheckerTypeOK, PatchState
<1>8. ASSUME NEW t \in Sandbox PROVE TimerFits(t)'
  <2>1. SUFFICES ASSUME t \notin drifted' PROVE TimerFits(t)'
    BY DEF TimerFits
  <2>2. t # s /\ t \notin drifted /\ TimerFits(t) /\ p \notin Storing(t)
        /\ Storing(t) \subseteq Patcher
    BY <1>2, <1>3, <2>1 DEF CheckerIInv, Storing
  <2>3. Storing(t)' = Storing(t)
    BY <1>6, <2>2
  <2> QED
    BY <1>3, <1>6, <2>2, <2>3 DEF TimerFits
<1> QED
  BY <1>3, <1>5, <1>6, <1>7, <1>8, PatchStep DEF SameTold, Forgotten

-----------------------------------------------------------------------------
LEMMA CheckerInitIInv == CheckerInit => CheckerIInv
<1> SUFFICES ASSUME CheckerInit PROVE CheckerIInv
  OBVIOUS
<1>1. 0 \in Time /\ 1 \in Time /\ 0 <= 1 /\ <<>> \in Seq(Sandbox)
  BY CheckerConstants DEF Time
<1>2. pass \in [Orchestrator -> PassState] /\ \A o \in Orchestrator : pass[o] = Asleep
  <2>1. Asleep \in PassState
    BY <1>1 DEF Asleep, Unseen, PassState
  <2> QED
    BY <2>1 DEF CheckerInit
<1>3. patch \in [Patcher -> PatchState] /\ \A p \in Patcher : patch[p] = NoPatch
  BY NoPatchFields DEF CheckerInit
<1>4. told \in [Orchestrator -> [Sandbox -> 0..3]]
      /\ heard \in [Orchestrator -> SUBSET Sandbox]
      /\ \A o \in Orchestrator, s \in Sandbox : told[o][s] = 0 /\ s \notin heard[o]
  BY DEF CheckerInit, Unseen
<1>5. CheckerTypeOK
  BY <1>1, <1>2, <1>3, <1>4, CheckerConstants
     DEF CheckerInit, CheckerTypeOK, PassState, PatchState
<1>6. ASSUME NEW s \in Sandbox PROVE NewFits(s) /\ TimerFits(s)
  <2>1. ~Patching(s) /\ Storing(s) = {}
    BY <1>3, NoPatchFields DEF Patching, Storing
  <2> QED
    BY <1>2, <2>1, AsleepFields DEF CheckerInit, NewFits, TimerFits
<1>7. \A p \in Patcher : PatchFits(p)
  BY <1>3, NoPatchFields DEF PatchFits
<1>8. \A o \in Orchestrator : PassFits(o)
  BY <1>2, AsleepFields DEF CheckerInit, PassFits
<1>9. \A o \in Orchestrator, s \in Sandbox : TellFits(o, s) /\ TimelyFits(o, s)
  BY <1>4 DEF CheckerInit, TellFits, TimelyFits
<1> QED
  BY <1>5, <1>6, <1>7, <1>8, <1>9 DEF CheckerIInv

LEMMA CheckerStutter ==
    ASSUME CheckerIInv, UNCHANGED credentialVars
    PROVE  CheckerIInv'
<1>1. UNCHANGED <<now, order, record, expires, alive, creds, notified, shuttingDown, pass,
                  swept, patch, patches, drifted, checkerFaults, tried, asked, told, heard, timely>>
  BY DEF credentialVars, recordVars, heldVars, passVars, patchVars, hookVars, toldVars
<1>2. CheckerTypeOK'
  BY <1>1 DEF CheckerIInv, CheckerTypeOK
<1>3. ASSUME NEW s \in Sandbox PROVE NewFits(s)' /\ TimerFits(s)'
  <2>1. NewFits(s)
    BY DEF CheckerIInv
  <2> QED
    BY <1>1, <2>1, TimersKept DEF NewFits, Patching
<1>4. \A p \in Patcher : PatchFits(p)'
  BY <1>1, TimersKept
<1>5. \A o \in Orchestrator : PassFits(o)'
  BY <1>1 DEF CheckerIInv, PassFits
<1>6. ASSUME NEW o \in Orchestrator, NEW s \in Sandbox
      PROVE  TellFits(o, s)' /\ TimelyFits(o, s)'
  <2>1. TellFits(o, s) /\ TimelyFits(o, s)
    BY DEF CheckerIInv
  <2> QED
    BY <1>1, <2>1 DEF TellFits, TimelyFits, Wasted, Visible
<1> QED
  BY <1>2, <1>3, <1>4, <1>5, <1>6 DEF CheckerIInv

LEMMA CheckerIInvStep ==
    ASSUME CheckerIInv, [CheckerNext]_credentialVars
    PROVE  CheckerIInv'
<1>1. CASE Tick
  BY <1>1, TickStep
<1>2. ASSUME NEW s \in Sandbox, Create(s) PROVE CheckerIInv'
  BY <1>2, CreateStep
<1>3. ASSUME NEW p \in Patcher,
             \/ \E s \in Sandbox : PatchBegin(p, s)
             \/ PatchWorker(p) \/ PatchExpiry(p) \/ PatchBreaksOff(p)
      PROVE  CheckerIInv'
  BY <1>3, PatchBeginStep, PatchWorkerStep, PatchExpiryStep, PatchBreaksOffStep
<1>4. ASSUME NEW o \in Orchestrator, Scan(o) \/ PassFails(o) \/ Restart(o)
      PROVE  CheckerIInv'
  BY <1>4, ScanStep, PassFailsStep, RestartStep
<1>5. ASSUME NEW o \in Orchestrator, Handle(o) PROVE CheckerIInv'
  BY <1>5, DestroyExpiredStep, BeginShutdownStep, AnnounceStep, SkipStep, DeleteStep,
     MarkStep, FireStep, FireAgainStep, EndPassStep DEF Handle
<1>6. CASE UNCHANGED credentialVars
  BY <1>6, CheckerStutter
<1> QED
  BY <1>1, <1>2, <1>3, <1>4, <1>5, <1>6 DEF CheckerNext

(* CheckerIInv holds of every reachable state. *)
THEOREM CheckerInvariantHolds == CheckerSpec => []CheckerIInv
<1> QED
  BY CheckerInitIInv, CheckerIInvStep, PTL DEF CheckerSpec

(* What the checkers and PATCH handlers hold is of its kind: in particular *)
(* an expiry a pass works with is one that some client has brought.        *)
THEOREM CheckerTypeCorrect == CheckerSpec => []CheckerTypeOK
<1>1. CheckerIInv => CheckerTypeOK
  BY DEF CheckerIInv
<1> QED
  BY <1>1, CheckerInvariantHolds, PTL

(* docs/operations/data-access.md:119: the record's expiry is that of the  *)
(* credentials the worker holds, but for drifted sandboxes and PATCHes in  *)
(* progress, however many of them overlap.                                 *)
THEOREM TimerMatchesHolds == CheckerSpec => []TimerMatches
<1>1. CheckerIInv => TimerMatches
  <2> SUFFICES ASSUME CheckerIInv, NEW s \in Sandbox \ drifted, ~Patching(s)
               PROVE  expires[s] = creds[s]
    BY DEF TimerMatches
  <2>1. Storing(s) = {}
    BY DEF Storing, Patching
  <2> QED
    BY <2>1 DEF CheckerIInv, TimerFits
<1> QED
  BY <1>1, CheckerInvariantHolds, PTL

(* credential_checker.py:101: a checker posts about an expiry at most      *)
(* twice between its restarts, and not again once a post was answered 2xx, *)
(* however its passes and the PATCHes overlap.                             *)
THEOREM NoDuplicateWebhookHolds == CheckerSpec => NoDuplicateWebhook
<1>1. ASSUME CheckerIInv, [CheckerNext]_credentialVars,
             NEW o \in Orchestrator, NEW s \in Sandbox, told'[o][s] > told[o][s]
      PROVE  told[o][s] < 2 /\ s \notin heard[o]
  <2>1. CheckerTypeOK /\ PassFits(o) /\ told[o][s] \in 0..3
    BY <1>1 DEF CheckerIInv, CheckerTypeOK
  <2>2. \E q \in Orchestrator : Fire(q) \/ FireAgain(q)
    <3>1. ASSUME UNCHANGED told PROVE FALSE
      BY <1>1, <2>1, <3>1
    <3>2. ASSUME NEW q \in Orchestrator, Restart(q) PROVE FALSE
      BY <1>1, <2>1, <3>2 DEF Restart, Unseen, CheckerTypeOK
    <3>3. ASSUME NEW p \in Patcher, PatchExpiry(p) PROVE FALSE
      <4>1. UNCHANGED told \/ told' = [q \in Orchestrator |-> [told[q] EXCEPT ![patch[p].box] = 0]]
        BY <3>3 DEF PatchExpiry, hookVars, toldVars
      <4>2. told[o] \in [Sandbox -> 0..3]
        BY <2>1 DEF CheckerTypeOK
      <4> QED
        BY <1>1, <2>1, <3>1, <4>1, <4>2
    <3>4. \A q \in Orchestrator :
             Scan(q) \/ PassFails(q) => UNCHANGED told
      BY DEF Scan, PassFails, hookVars, toldVars
    <3>5. \A q \in Orchestrator : Handle(q) => Fire(q) \/ FireAgain(q) \/ UNCHANGED told
      BY DEF Handle, DestroyExpired, BeginShutdown, Announce, Skip, Mark, DeleteAtWorker,
             EndPass, hookVars, toldVars
    <3>6. \A p \in Patcher : \/ \E t \in Sandbox : PatchBegin(p, t)
                             \/ PatchWorker(p) \/ PatchBreaksOff(p)
                             => UNCHANGED told
      BY DEF PatchBegin, PatchWorker, PatchBreaksOff, hookVars, toldVars
    <3>7. Tick \/ (\E t \in Sandbox : Create(t)) \/ UNCHANGED credentialVars => UNCHANGED told
      BY DEF Tick, Create, credentialVars, hookVars, toldVars
    <3> QED
      BY <1>1, <3>1, <3>2, <3>3, <3>4, <3>5, <3>6, <3>7 DEF CheckerNext
  <2>3. PICK q \in Orchestrator : Fire(q) \/ FireAgain(q)
    BY <2>2
  <2>4. PICK t \in Sandbox, ok \in BOOLEAN :
           /\ t = pass[q].cur /\ Tell(q, t, ok)
           /\ told[q][t] \in {0, 1} /\ t \notin heard[q]
    <3>1. PassFits(q)
      BY <1>1 DEF CheckerIInv
    <3>2. CASE Fire(q)
      <4>1. PICK t \in Sandbox : t = pass[q].cur /\ pass[q].seen[t] # 0 /\ t \notin notified[q]
        BY <3>1, <3>2 DEF PassFits, Fire
      <4>2. told[q][t] = 0 /\ t \notin heard[q]
        BY <1>1, <4>1, UntoldBefore
      <4>3. \E ok \in BOOLEAN : Tell(q, t, ok)
        BY <3>2, <4>1 DEF Fire
      <4> QED
        BY <4>1, <4>2, <4>3
    <3>3. CASE FireAgain(q)
      BY <3>1, <3>3 DEF PassFits, FireAgain
    <3> QED
      BY <2>3, <3>2, <3>3
  <2>5. /\ \A u \in Sandbox \ {t} : SameTold(q, u)
        /\ \A n \in Orchestrator \ {q} : told'[n] = told[n]
    BY <2>1, <2>4, TellStep
  <2>6. q = o /\ t = s
    BY <1>1, <2>1, <2>5 DEF SameTold
  <2> QED
    BY <2>4, <2>6
<1>2. CheckerIInv /\ [CheckerNext]_credentialVars =>
        \A o \in Orchestrator, s \in Sandbox :
            told'[o][s] > told[o][s] => told[o][s] < 2 /\ s \notin heard[o]
  BY <1>1
<1> QED
  BY <1>2, CheckerInvariantHolds, PTL DEF CheckerSpec, NoDuplicateWebhook

(* docs/operations/data-access.md:119-120: a checker deletes a sandbox     *)
(* with fresh credentials only if they came during its pass.               *)
THEOREM RefreshThenScanSurvivesHolds == CheckerSpec => RefreshThenScanSurvives
<1>1. ASSUME CheckerIInv, [CheckerNext]_credentialVars, NEW s \in (alive \ alive') \ drifted
      PROVE  \/ creds[s] <= now + GracePeriod
             \/ Patching(s)
             \/ \E o \in Orchestrator : pass[o].cur = s /\ pass[o].seen[s] # expires[s]
  <2>1. PICK o \in Orchestrator : DeleteAtWorker(o)
    <3>1. \A o \in Orchestrator :
             Scan(o) \/ PassFails(o) \/ Restart(o) => UNCHANGED alive
      BY DEF Scan, PassFails, Restart, heldVars
    <3>2. \A o \in Orchestrator : Handle(o) => DeleteAtWorker(o) \/ UNCHANGED alive
      BY DEF Handle, DestroyExpired, BeginShutdown, Announce, Skip, Mark, Fire, FireAgain,
             EndPass, heldVars
    <3>3. \A p \in Patcher : \/ \E t \in Sandbox : PatchBegin(p, t)
                             \/ PatchWorker(p) \/ PatchExpiry(p) \/ PatchBreaksOff(p)
                             => UNCHANGED alive
      BY DEF PatchBegin, PatchWorker, PatchExpiry, PatchBreaksOff, heldVars
    <3>4. Tick => UNCHANGED alive
      BY DEF Tick, heldVars
    <3>5. \A t \in Sandbox : Create(t) => alive \subseteq alive'
      BY DEF Create
    <3>6. UNCHANGED credentialVars => UNCHANGED alive
      BY DEF credentialVars, heldVars
    <3> QED
      BY <1>1, <3>1, <3>2, <3>3, <3>4, <3>5, <3>6 DEF CheckerNext
  <2>2. s = pass[o].cur /\ pass[o].seen[s] <= pass[o].at + GracePeriod /\ pass[o].at <= now
        /\ s \in Sandbox
    <3>1. CheckerTypeOK /\ PassFits(o)
      BY <1>1 DEF CheckerIInv
    <3>2. s = pass[o].cur
      BY <1>1, <2>1 DEF DeleteAtWorker
    <3> QED
      BY <1>1, <2>1, <3>1, <3>2 DEF PassFits, DeleteAtWorker, CheckerTypeOK
  <2>3. CASE pass[o].seen[s] # expires[s]
    BY <2>2, <2>3
  <2>4. CASE Patching(s)
    BY <2>4
  <2>5. CASE pass[o].seen[s] = expires[s] /\ ~Patching(s)
    <3>1. Storing(s) = {}
      BY <2>5 DEF Storing, Patching
    <3>2. expires[s] = creds[s]
      BY <1>1, <2>2, <3>1 DEF CheckerIInv, TimerFits
    <3>3. creds[s] \in Nat /\ pass[o].at \in Nat /\ now \in Nat
      BY <1>1, <2>2 DEF CheckerIInv, CheckerTypeOK, Time
    <3> QED
      BY <2>2, <2>5, <3>2, <3>3, CheckerConstants
  <2> QED
    BY <2>3, <2>4, <2>5
<1>2. CheckerIInv /\ [CheckerNext]_credentialVars => DeletedForItsExpiry
  BY <1>1 DEF DeletedForItsExpiry
<1> QED
  BY <1>2, CheckerInvariantHolds, PTL DEF CheckerSpec, RefreshThenScanSurvives

(* docs/operations/data-access.md:88: a sandbox whose credentials came in  *)
(* time is not shut down unannounced while every checker makes its pass in *)
(* every time unit, whatever the notice, the grace period and the number   *)
(* of checkers; each failed pass or restart uses up one unit of the notice.*)
THEOREM AnnouncedBeforeShutdownHolds == CheckerSpec => AnnouncedBeforeShutdown
<1>1. ASSUME CheckerIInv, NEW o \in Orchestrator, NEW s \in Hooked \cap timely,
             BeginShutdown(o, s)
      PROVE  s \in tried \/ checkerFaults >= LeadTime - GracePeriod
  <2>1. CheckerTypeOK /\ s \in Sandbox /\ TimelyFits(o, s)
    BY <1>1, CheckerConstants DEF CheckerIInv
  <2>2. pass[o].seen[s] \in Nat /\ pass[o].at \in Nat /\ now \in Nat /\ expires[s] \in Nat
        /\ checkerFaults \in Nat
    BY <2>1 DEF CheckerTypeOK, Time
  <2>3. pass[o].seen[s] # 0 /\ pass[o].seen[s] <= pass[o].at + GracePeriod
    BY <1>1, <2>2, CheckerConstants DEF BeginShutdown, AtHand, InGrace, Expired, Left
  <2>4. PICK W \in {0, 1} : W = Wasted(o, s)
    BY DEF Wasted
  <2>5. /\ pass[o].seen[s] = expires[s] /\ pass[o].at = now
        /\ s \notin tried => now + LeadTime + W <= expires[s] + checkerFaults
    BY <2>1, <2>3, <2>4 DEF TimelyFits
  <2> QED
    BY <2>2, <2>3, <2>5, CheckerConstants
<1>2. CheckerIInv =>
        \A o \in Orchestrator, s \in Hooked \cap timely :
            BeginShutdown(o, s) => s \in tried \/ checkerFaults >= LeadTime - GracePeriod
  BY <1>1
<1> QED
  BY <1>2, CheckerInvariantHolds, PTL DEF AnnouncedBeforeShutdown

-----------------------------------------------------------------------------
(* What AskedBeforeClosed rests on, step by step.  A step that does not    *)
(* let a checker come to, leave or be done with a sandbox:                 *)
LEMMA AskKept ==
    ASSUME CheckerTypeOK, CheckerTypeOK', NEW o \in Orchestrator, NEW s \in Sandbox,
           AskFits(o, s),
           record'[s] = "none" => record[s] = "none",
           s \in timely' => s \in timely /\ expires'[s] = expires[s]
                            /\ (s \in asked => s \in asked'),
           UNCHANGED now, o \in swept' => o \in swept,
           s \in shuttingDown'[o] => s \in shuttingDown[o],
           pass'[o] = pass[o],
           s \in Visible' => s \in Visible,
           checkerFaults <= checkerFaults'
    PROVE  AskFits(o, s)'
<1>1. now \in Nat /\ expires[s] \in Nat /\ checkerFaults \in Nat /\ checkerFaults' \in Nat
      /\ GracePeriod \in Nat
  BY CheckerConstants DEF CheckerTypeOK, Time
<1>2. PICK W \in {0, 1} : W = Wasted(o, s)
  BY DEF Wasted
<1>3. PICK V \in {0, 1} : V = Wasted(o, s)' /\ V <= W
  BY <1>2 DEF Wasted
<1>4. s \in timely' /\ s \notin asked' /\ (s \in Visible' \/ pass'[o].seen[s] # 0) =>
        now' + GracePeriod + V <= expires'[s] + checkerFaults'
  <2>1. SUFFICES ASSUME s \in timely', s \notin asked', s \in Visible' \/ pass'[o].seen[s] # 0
        PROVE now + GracePeriod + V <= expires[s] + checkerFaults'
    OBVIOUS
  <2>2. now + GracePeriod + W <= expires[s] + checkerFaults
    BY <1>2, <2>1 DEF AskFits
  <2> QED
    BY <1>1, <1>2, <1>3, <2>2
<1> QED
  BY <1>3, <1>4 DEF AskFits

(* The checker of o is done with s: another of its unit's passes is over.  *)
LEMMA AskDone ==
    ASSUME CheckerIInv, CheckerTypeOK', AskIInv, NEW o \in Orchestrator, NEW s \in Sandbox,
           Done(o, s), pass[o].seen[s] # 0,
           UNCHANGED <<now, order, expires, timely, asked, swept, checkerFaults>>,
           \A q \in Orchestrator : shuttingDown'[q] \subseteq shuttingDown[q],
           \A t \in Sandbox : record'[t] \in {record[t], "destroyed"},
           pass[o].pc # "delete",
           s \in timely /\ s \notin asked /\ s \in Visible' =>
               now + GracePeriod + 1 <= expires[s] + checkerFaults
    PROVE  AskIInv'
<1>1. CheckerTypeOK /\ checkerFaults <= checkerFaults'
  BY DEF CheckerIInv, CheckerTypeOK
<1>2. /\ pass'[o].pc = "loop" /\ pass'[o].seen[s] = 0 /\ pass'[o].cur = NoSandbox
      /\ \A t \in Sandbox \ {s} : pass'[o].seen[t] = pass[o].seen[t]
      /\ \A q \in Orchestrator \ {o} : pass'[q] = pass[q]
  BY <1>1, DoneStep
<1>3. ASSUME NEW q \in Orchestrator, NEW t \in Sandbox PROVE AskFits(q, t)'
  <2>1. AskFits(q, t) /\ (t \in Visible' => t \in Visible)
    BY VisibleKept DEF AskIInv
  <2>2. CASE q # o
    BY <1>1, <1>2, <2>1, <2>2, AskKept
  <2>3. CASE q = o /\ t # s
    BY <1>2, <2>1, <2>3 DEF AskFits, Wasted
  <2>4. CASE q = o /\ t = s
    <3>1. PICK V \in {0, 1} : V = Wasted(o, s)'
      BY DEF Wasted
    <3>2. now \in Nat /\ expires[s] \in Nat /\ checkerFaults \in Nat /\ GracePeriod \in Nat
      BY <1>1, CheckerConstants DEF CheckerTypeOK, Time
    <3>3. s \in timely /\ s \notin asked /\ s \in Visible' =>
            now + GracePeriod + V <= expires[s] + checkerFaults
      BY <3>2
    <3> QED
      BY <1>2, <2>1, <2>4, <3>1, <3>3 DEF AskFits
  <2> QED
    BY <2>2, <2>3, <2>4
<1> QED
  BY <1>3 DEF AskIInv

(* The checker of o goes from one stage of s to the next. *)
LEMMA AskEnter ==
    ASSUME CheckerIInv, CheckerTypeOK', AskIInv, NEW o \in Orchestrator, NEW s \in Sandbox,
           pass'[o].cur = s, pass'[o].seen = pass[o].seen, pass'[o].at = pass[o].at,
           \A q \in Orchestrator \ {o} : pass'[q] = pass[q]
                                         /\ shuttingDown'[q] = shuttingDown[q],
           UNCHANGED <<now, order, record, expires, timely, swept, checkerFaults>>,
           asked \subseteq asked',
           \A t \in Sandbox \ {s} :
               /\ t \in shuttingDown'[o] <=> t \in shuttingDown[o]
               /\ t \in timely /\ t \notin asked => t \notin shuttingDown[o],
           record[s] # "none",
           s \in timely /\ s \notin asked' =>
               /\ s \in shuttingDown'[o] => pass'[o].pc = "delete"
               /\ pass'[o].pc \in {"webhook", "retry"} =>
                    pass[o].seen[s] > pass[o].at + GracePeriod
    PROVE  AskIInv'
<1>1. CheckerTypeOK /\ checkerFaults <= checkerFaults'
  BY DEF CheckerIInv, CheckerTypeOK
<1>2. ASSUME NEW q \in Orchestrator, NEW t \in Sandbox PROVE AskFits(q, t)'
  <2>1. AskFits(q, t) /\ (t \in Visible' => t \in Visible)
    BY VisibleKept DEF AskIInv
  <2>2. CASE q # o
    BY <1>1, <2>1, <2>2, AskKept
  <2>3. CASE q = o
    <3>1. Wasted(q, t)' = Wasted(q, t)
      BY <2>3 DEF Wasted
    <3>2. t \in timely' /\ t \notin asked' =>
            /\ t \in shuttingDown'[o] => pass'[o].pc = "delete" /\ pass'[o].cur = t
            /\ pass'[o].pc \in {"webhook", "retry"} /\ pass'[o].cur = t =>
                 pass'[o].seen[t] > pass'[o].at + GracePeriod
      BY <2>3
    <3>3. t \in timely' /\ t \notin asked' /\ (t \in Visible' \/ pass'[q].seen[t] # 0) =>
            now' + GracePeriod + Wasted(q, t)' <= expires'[t] + checkerFaults'
      BY <2>1, <2>3, <3>1 DEF AskFits
    <3>4. record'[t] = "none" => t \notin shuttingDown'[q]
      BY <2>1, <2>3 DEF AskFits
    <3> QED
      BY <2>3, <3>2, <3>3, <3>4 DEF AskFits
  <2> QED
    BY <2>2, <2>3
<1> QED
  BY <1>2 DEF AskIInv

(* Who is shutting down a sandbox and not at its DELETE has sent it. *)
LEMMA SentBefore ==
    ASSUME AskIInv, NEW o \in Orchestrator, NEW s \in Sandbox, s \in timely, s \notin asked,
           pass[o].pc # "delete" \/ pass[o].cur # s
    PROVE  s \notin shuttingDown[o]
BY DEF AskIInv, AskFits

(* Neither expired nor to be shut down: so the notice is not over. *)
LEMMA NoticeLeft ==
    ASSUME CheckerIInv, AskIInv, NEW o \in Orchestrator, NEW s \in Sandbox, AtHand(o, s),
           ~Expired(o, s), ~InGrace(o, s), s \in timely, s \notin asked
    PROVE  pass[o].seen[s] > pass[o].at + GracePeriod
<1>1. s \notin shuttingDown[o]
  BY SentBefore DEF AtHand
<1>2. pass[o].seen[s] \in Nat /\ pass[o].at \in Nat
  BY DEF CheckerIInv, CheckerTypeOK, Time
<1> QED
  BY <1>1, <1>2, CheckerConstants DEF Expired, InGrace, Left

LEMMA NoticeNow ==
    ASSUME CheckerIInv, NEW o \in Orchestrator, NEW s \in Sandbox, s \in timely,
           pass[o].seen[s] # 0, pass[o].seen[s] > pass[o].at + GracePeriod
    PROVE  now + GracePeriod + 1 <= expires[s] + checkerFaults
<1>1. pass[o].seen[s] = expires[s] /\ pass[o].at = now
  BY DEF CheckerIInv, TimelyFits
<1>2. now \in Nat /\ expires[s] \in Nat /\ checkerFaults \in Nat
  BY DEF CheckerIInv, CheckerTypeOK, Time
<1> QED
  BY <1>1, <1>2, CheckerConstants

(* A pass has at hand only what had been created when it read the records. *)
LEMMA AtHandCreated ==
    ASSUME CheckerIInv, NEW o \in Orchestrator, NEW s \in Sandbox, pass[o].seen[s] # 0
    PROVE  record[s] # "none"
BY DEF CheckerIInv, NewFits

LEMMA AskHandleStep ==
    ASSUME CheckerIInv, CheckerTypeOK', AskIInv, NEW o \in Orchestrator, Handle(o)
    PROVE  AskIInv'
<1>1. CheckerTypeOK /\ PassFits(o) /\ 0 # 1
  BY DEF CheckerIInv
<1>2. ASSUME NEW s \in Sandbox, DestroyExpired(o, s) PROVE AskIInv'
  <2>1. /\ Done(o, s) /\ pass[o].seen[s] # 0 /\ pass[o].pc = "loop"
        /\ UNCHANGED <<now, order, expires, timely, asked, swept, checkerFaults>>
        /\ record' = [record EXCEPT ![s] = "destroyed"]
        /\ shuttingDown' = [shuttingDown EXCEPT ![o] = @ \ {s}]
    BY <1>2 DEF DestroyExpired, AtHand, patchVars, hookVars
  <2>2. /\ s \notin Visible' /\ \A t \in Sandbox : record'[t] \in {record[t], "destroyed"}
        /\ \A q \in Orchestrator : shuttingDown'[q] \subseteq shuttingDown[q]
    BY <1>1, <2>1 DEF Visible, CheckerTypeOK
  <2> QED
    BY <2>1, <2>2, AskDone
<1>3. ASSUME NEW s \in Sandbox, BeginShutdown(o, s) PROVE AskIInv'
  <2>1. /\ Enter(o, s, "delete") /\ pass[o].seen[s] # 0 /\ pass[o].pc = "loop"
        /\ UNCHANGED <<now, order, record, expires, timely, asked, swept, checkerFaults>>
        /\ shuttingDown' = [shuttingDown EXCEPT ![o] = @ \cup {s}]
    BY <1>3 DEF BeginShutdown, AtHand, recordVars, patchVars, hookVars
  <2>2. /\ pass'[o].pc = "delete" /\ pass'[o].cur = s
        /\ pass'[o].at = pass[o].at /\ pass'[o].seen = pass[o].seen
        /\ \A q \in Orchestrator \ {o} : pass'[q] = pass[q]
    BY <1>1, <2>1, EnterStep
  <2>3. /\ \A q \in Orchestrator \ {o} : shuttingDown'[q] = shuttingDown[q]
        /\ \A t \in Sandbox \ {s} : t \in shuttingDown'[o] <=> t \in shuttingDown[o]
    BY <1>1, <2>1 DEF CheckerTypeOK
  <2>4. \A t \in Sandbox : t \in timely /\ t \notin asked => t \notin shuttingDown[o]
    BY <2>1, SentBefore
  <2> QED
    BY <2>1, <2>2, <2>3, <2>4, AskEnter, AtHandCreated
<1>4. ASSUME NEW s \in Sandbox, Announce(o, s) PROVE AskIInv'
  <2>1. /\ pass[o].seen[s] # 0 /\ pass[o].pc = "loop" /\ AtHand(o, s)
        /\ ~Expired(o, s) /\ ~InGrace(o, s)
        /\ UNCHANGED <<now, order, record, expires, timely, asked, swept, checkerFaults,
                       shuttingDown>>
    BY <1>4 DEF Announce, AtHand, InLead, recordVars, patchVars, hookVars
  <2>2. s \in timely /\ s \notin asked => pass[o].seen[s] > pass[o].at + GracePeriod
    BY <2>1, NoticeLeft
  <2>3. CASE s \in Hooked
    <3>1. Enter(o, s, "webhook")
      BY <1>4, <2>3 DEF Announce
    <3>2. /\ pass'[o].pc = "webhook" /\ pass'[o].cur = s
          /\ pass'[o].at = pass[o].at /\ pass'[o].seen = pass[o].seen
          /\ \A q \in Orchestrator \ {o} : pass'[q] = pass[q]
      BY <1>1, <3>1, EnterStep
    <3>3. \A t \in Sandbox : t \in timely /\ t \notin asked => t \notin shuttingDown[o]
      BY <2>1, SentBefore
    <3> QED
      BY <2>1, <2>2, <3>2, <3>3, AskEnter, AtHandCreated
  <2>4. CASE s \notin Hooked
    <3>1. Done(o, s)
      BY <1>4, <2>4 DEF Announce
    <3>2. s \in timely /\ s \notin asked => now + GracePeriod + 1 <= expires[s] + checkerFaults
      BY <2>1, <2>2, NoticeNow
    <3> QED
      BY <2>1, <3>1, <3>2, AskDone
  <2> QED
    BY <2>3, <2>4
<1>5. ASSUME NEW s \in Sandbox, Skip(o, s) PROVE AskIInv'
  <2>1. /\ Done(o, s) /\ pass[o].seen[s] # 0 /\ pass[o].pc = "loop" /\ AtHand(o, s)
        /\ ~Expired(o, s) /\ ~InGrace(o, s)
        /\ UNCHANGED <<now, order, record, expires, timely, asked, swept, checkerFaults,
                       shuttingDown>>
    BY <1>5 DEF Skip, AtHand, recordVars, patchVars, hookVars
  <2>2. s \in timely /\ s \notin asked => now + GracePeriod + 1 <= expires[s] + checkerFaults
    BY <2>1, NoticeLeft, NoticeNow
  <2> QED
    BY <2>1, <2>2, AskDone
<1>6. CASE DeleteAtWorker(o)
  <2>1. PICK s \in Sandbox : s = pass[o].cur /\ pass[o].seen[s] # 0
    BY <1>1, <1>6 DEF PassFits, DeleteAtWorker
  <2>2. /\ UNCHANGED <<now, order, record, expires, timely, swept, checkerFaults,
                       shuttingDown>>
        /\ asked' = asked \cup {s} /\ pass[o].pc = "delete"
        /\ pass' = [pass EXCEPT ![o].pc = "mark"]
    BY <1>6, <2>1 DEF DeleteAtWorker, recordVars, patchVars
  <2>3. /\ pass'[o].cur = s /\ pass'[o].at = pass[o].at /\ pass'[o].seen = pass[o].seen
        /\ \A q \in Orchestrator \ {o} : pass'[q] = pass[q]
    BY <1>1, <2>1, <2>2 DEF CheckerTypeOK
  <2>4. \A t \in Sandbox \ {s} : t \in timely /\ t \notin asked => t \notin shuttingDown[o]
    BY <2>1, SentBefore
  <2> QED
    BY <2>1, <2>2, <2>3, <2>4, AskEnter, AtHandCreated
<1>7. CASE Mark(o)
  <2>1. PICK s \in Sandbox : s = pass[o].cur /\ pass[o].seen[s] # 0
    BY <1>1, <1>7 DEF PassFits, Mark
  <2>2. /\ Done(o, s) /\ pass[o].pc = "mark"
        /\ UNCHANGED <<now, order, expires, timely, asked, swept, checkerFaults, shuttingDown>>
        /\ record' = [record EXCEPT ![s] = "destroyed"]
    BY <1>7, <2>1 DEF Mark, patchVars, hookVars
  <2>3. s \notin Visible' /\ \A t \in Sandbox : record'[t] \in {record[t], "destroyed"}
    BY <1>1, <2>2 DEF Visible, CheckerTypeOK
  <2> QED
    BY <2>1, <2>2, <2>3, AskDone
<1>8. CASE Fire(o) \/ FireAgain(o)
  <2>1. PICK s \in Sandbox : s = pass[o].cur /\ pass[o].seen[s] # 0
    BY <1>1, <1>8 DEF PassFits, Fire, FireAgain
  <2>2. /\ pass[o].pc \in {"webhook", "retry"}
        /\ UNCHANGED <<now, order, record, expires, timely, asked, swept, checkerFaults,
                       shuttingDown>>
        /\ Done(o, s) \/ Enter(o, s, "retry")
    BY <1>8, <2>1 DEF Fire, FireAgain, recordVars, patchVars
  <2>3. s \in timely /\ s \notin asked => pass[o].seen[s] > pass[o].at + GracePeriod
    BY <2>1, <2>2 DEF AskIInv, AskFits
  <2>4. CASE Done(o, s)
    <3>1. s \in timely /\ s \notin asked => now + GracePeriod + 1 <= expires[s] + checkerFaults
      BY <2>1, <2>3, NoticeNow
    <3> QED
      BY <2>1, <2>2, <2>4, <3>1, AskDone
  <2>5. CASE Enter(o, s, "retry")
    <3>1. /\ pass'[o].pc = "retry" /\ pass'[o].cur = s
          /\ pass'[o].at = pass[o].at /\ pass'[o].seen = pass[o].seen
          /\ \A q \in Orchestrator \ {o} : pass'[q] = pass[q]
      BY <1>1, <2>5, EnterStep
    <3>2. \A t \in Sandbox : t \in timely /\ t \notin asked => t \notin shuttingDown[o]
      BY <2>2, SentBefore
    <3> QED
      BY <2>1, <2>2, <2>3, <3>1, <3>2, AskEnter, AtHandCreated
  <2> QED
    BY <2>2, <2>4, <2>5
<1>9. CASE EndPass(o)
  <2>1. /\ UNCHANGED <<now, order, record, expires, timely, asked, swept, checkerFaults,
                       shuttingDown>>
        /\ pass[o].pc = "loop" /\ pass' = [pass EXCEPT ![o] = Asleep]
        /\ \A s \in Sandbox : pass[o].seen[s] = 0
    BY <1>9 DEF EndPass, recordVars, patchVars, hookVars, Unseen
  <2>2. pass'[o] = Asleep /\ \A q \in Orchestrator \ {o} : pass'[q] = pass[q]
    BY <1>1, <2>1, SleepStep
  <2>3. ASSUME NEW q \in Orchestrator, NEW t \in Sandbox PROVE AskFits(q, t)'
    <3>1. AskFits(q, t) /\ Visible' = Visible
      BY <2>1 DEF AskIInv, Visible
    <3>2. pass'[q].seen[t] = pass[q].seen[t] /\ Wasted(q, t)' = Wasted(q, t)
      BY <2>1, <2>2, AsleepFields DEF Wasted
    <3>3. q # o => pass'[q] = pass[q]
      BY <2>2
    <3> QED
      BY <2>1, <2>2, <3>1, <3>2, <3>3, AsleepFields DEF AskFits
  <2> QED
    BY <2>3 DEF AskIInv
<1> QED
  BY <1>2, <1>3, <1>4, <1>5, <1>6, <1>7, <1>8, <1>9 DEF Handle

(* A pass begins: it has the visible sandboxes at hand.                    *)
LEMMA AskScanStep ==
    ASSUME CheckerIInv, CheckerTypeOK', AskIInv, NEW o \in Orchestrator, Scan(o)
    PROVE  AskIInv'
<1>1. CheckerTypeOK /\ PassFits(o)
  BY DEF CheckerIInv
<1>2. /\ UNCHANGED <<now, order, record, expires, timely, asked, checkerFaults, shuttingDown>>
      /\ swept' = swept \cup {o} /\ pass[o].pc = "sleep" /\ Visible' = Visible
  BY DEF Scan, recordVars, patchVars, hookVars, Visible
<1>3. /\ pass'[o].pc = "loop"
      /\ \A s \in Sandbox : pass'[o].seen[s] = IF s \in Visible THEN expires[s] ELSE 0
      /\ \A q \in Orchestrator \ {o} : pass'[q] = pass[q]
  BY <1>1 DEF Scan, CheckerTypeOK
<1>4. ASSUME NEW q \in Orchestrator, NEW s \in Sandbox PROVE AskFits(q, s)'
  <2>1. AskFits(q, s)
    BY DEF AskIInv
  <2>2. CASE q # o
    BY <1>2, <1>3, <2>1, <2>2 DEF AskFits, Wasted
  <2>3. CASE q = o
    <3>1. SUFFICES ASSUME s \in timely, s \notin asked
          PROVE /\ s \notin shuttingDown[o]
                /\ s \in Visible \/ pass'[o].seen[s] # 0 =>
                     now + GracePeriod + Wasted(o, s)' <= expires[s] + checkerFaults
      BY <1>2, <1>3, <2>1, <2>3 DEF AskFits
    <3>2. s \notin shuttingDown[o]
      BY <1>2, <3>1, SentBefore
    <3>3. CASE s \in Visible
      <4>1. expires[s] # 0
        BY <3>1 DEF CheckerIInv, TimelyFits
      <4>2. Wasted(o, s)' = 0
        BY <1>3, <3>3, <4>1 DEF Wasted
      <4>3. PICK W \in {0, 1} : W = Wasted(o, s)
        BY DEF Wasted
      <4>4. now + GracePeriod + W <= expires[s] + checkerFaults
        BY <2>1, <2>3, <3>1, <3>3, <4>3 DEF AskFits
      <4>5. now \in Nat /\ expires[s] \in Nat /\ checkerFaults \in Nat /\ GracePeriod \in Nat
        BY <1>1, CheckerConstants DEF CheckerTypeOK, Time
      <4> QED
        BY <3>2, <4>2, <4>4, <4>5
    <3>4. CASE s \notin Visible
      BY <1>3, <3>2, <3>4
    <3> QED
      BY <3>3, <3>4
  <2> QED
    BY <2>2, <2>3
<1> QED
  BY <1>4 DEF AskIInv

(* A pass that is given up costs a fault, and its checker one pass.        *)
LEMMA AskGivenUp ==
    ASSUME CheckerIInv, CheckerTypeOK', AskIInv, NEW o \in Orchestrator,
           PassFails(o) \/ Restart(o)
    PROVE  AskIInv'
<1>1. CheckerTypeOK
  BY DEF CheckerIInv
<1>2. /\ UNCHANGED <<now, order, record, expires, timely, asked, swept>>
      /\ Visible' = Visible
      /\ pass' = [pass EXCEPT ![o] = Asleep]
      /\ checkerFaults' = checkerFaults + 1
      /\ \A q \in Orchestrator : shuttingDown'[q] \subseteq shuttingDown[q]
      /\ shuttingDown'[o] = {} \/ pass[o].pc # "delete"
  <2>1. CASE PassFails(o)
    BY <2>1 DEF PassFails, CheckerFault, recordVars, hookVars, Visible
  <2>2. CASE Restart(o)
    <3>1. /\ UNCHANGED <<now, order, record, expires, timely, asked, swept>>
          /\ Visible' = Visible
          /\ pass' = [pass EXCEPT ![o] = Asleep]
          /\ checkerFaults' = checkerFaults + 1
          /\ shuttingDown' = [shuttingDown EXCEPT ![o] = {}]
      BY <2>2 DEF Restart, CheckerFault, recordVars, Visible
    <3>2. shuttingDown \in [Orchestrator -> SUBSET Sandbox]
      BY <1>1 DEF CheckerTypeOK
    <3> QED
      BY <3>1, <3>2
  <2> QED
    BY <2>1, <2>2
<1>3. pass'[o] = Asleep /\ \A q \in Orchestrator \ {o} : pass'[q] = pass[q]
  BY <1>1, <1>2, SleepStep
<1>4. ASSUME NEW q \in Orchestrator, NEW s \in Sandbox PROVE AskFits(q, s)'
  <2>1. AskFits(q, s)
    BY DEF AskIInv
  <2>2. now \in Nat /\ expires[s] \in Nat /\ checkerFaults \in Nat /\ GracePeriod \in Nat
    BY <1>1, CheckerConstants DEF CheckerTypeOK, Time
  <2>3. CASE q # o
    <3>1. checkerFaults <= checkerFaults'
      BY <1>2, <2>2
    <3> QED
      BY <1>1, <1>2, <1>3, <2>1, <2>3, <3>1, AskKept
  <2>4. CASE q = o
    <3>1. SUFFICES ASSUME s \in timely, s \notin asked
          PROVE /\ s \notin shuttingDown'[o]
                /\ s \in Visible =>
                     now + GracePeriod + Wasted(o, s)' <= expires[s] + checkerFaults'
      BY <1>2, <1>3, <2>1, <2>4, AsleepFields DEF AskFits
    <3>2. s \notin shuttingDown'[o]
      BY <1>2, <3>1, SentBefore
    <3>3. PICK V \in {0, 1} : V = Wasted(o, s)'
      BY DEF Wasted
    <3>4. PICK W \in {0, 1} : W = Wasted(o, s)
      BY DEF Wasted
    <3>5. s \in Visible => now + GracePeriod + W <= expires[s] + checkerFaults
      BY <2>1, <2>4, <3>1, <3>4 DEF AskFits
    <3>6. s \in Visible => now + GracePeriod + V <= expires[s] + checkerFaults'
      BY <1>2, <2>2, <3>5
    <3> QED
      BY <3>2, <3>3, <3>6
  <2> QED
    BY <2>3, <2>4
<1> QED
  BY <1>4 DEF AskIInv

LEMMA AskTickStep ==
    ASSUME CheckerIInv, AskIInv, Tick
    PROVE  AskIInv'
<1>1. /\ UNCHANGED <<order, record, expires, asked, shuttingDown, pass, checkerFaults>>
      /\ now' = now + 1 /\ swept' = {} /\ Visible' = Visible /\ timely' \subseteq timely
      /\ timely' # {} => /\ swept = Orchestrator
                         /\ \A o \in Orchestrator : pass[o].pc = "sleep"
  BY DEF Tick, recordVars, Visible
<1>2. ASSUME NEW o \in Orchestrator, NEW s \in Sandbox PROVE AskFits(o, s)'
  <2>1. AskFits(o, s) /\ PassFits(o)
    BY DEF AskIInv, CheckerIInv
  <2>2. SUFFICES ASSUME s \in timely', s \notin asked PROVE AskFits(o, s)'
    BY <1>1, <2>1 DEF AskFits
  <2>3. s \in timely /\ pass[o] = Asleep /\ o \in swept
    BY <1>1, <2>1, <2>2 DEF PassFits
  <2>4. Wasted(o, s) = 1 /\ Wasted(o, s)' = 0
    BY <1>1, <2>3, AsleepFields DEF Wasted
  <2>5. now \in Nat /\ expires[s] \in Nat /\ checkerFaults \in Nat /\ GracePeriod \in Nat
    BY CheckerConstants DEF CheckerIInv, CheckerTypeOK, Time
  <2>6. s \in Visible => now' + GracePeriod + 0 <= expires[s] + checkerFaults
    BY <1>1, <2>1, <2>2, <2>3, <2>4, <2>5 DEF AskFits
  <2>7. s \notin shuttingDown[o]
    BY <2>2, <2>3, SentBefore, AsleepFields
  <2> QED
    BY <1>1, <2>1, <2>3, <2>4, <2>6, <2>7, AsleepFields DEF AskFits
<1> QED
  BY <1>2 DEF AskIInv

LEMMA AskCreateStep ==
    ASSUME CheckerIInv, CheckerTypeOK', AskIInv, NEW s \in Sandbox, Create(s)
    PROVE  AskIInv'
<1>1. CheckerTypeOK /\ NewFits(s) /\ record[s] = "none"
  BY DEF CheckerIInv, Create
<1>2. PICK e \in Later(now) \cup {0}, g \in Given :
         /\ expires' = [expires EXCEPT ![s] = IF g THEN e ELSE 0]
         /\ timely' = IF g /\ e > now + LeadTime THEN timely \cup {s} ELSE timely
  BY DEF Create
<1>3. /\ record' = [record EXCEPT ![s] = "running"]
      /\ order' = Append(order, s)
      /\ UNCHANGED <<now, shuttingDown, pass, swept, checkerFaults, asked>>
  BY DEF Create, passVars
<1>4. now \in Nat /\ e \in Nat /\ checkerFaults \in Nat
      /\ LeadTime \in Nat /\ GracePeriod \in Nat /\ GracePeriod < LeadTime
  BY <1>1, CheckerConstants DEF CheckerTypeOK, Time, Later
<1>5. /\ record'[s] = "running"
      /\ s \in timely' => expires'[s] = e /\ e > now + LeadTime
      /\ \A t \in Sandbox \ {s} :
           expires'[t] = expires[t] /\ record'[t] = record[t] /\ (t \in timely' <=> t \in timely)
  BY <1>1, <1>2, <1>3 DEF CheckerTypeOK, NewFits
<1>6. ASSUME NEW o \in Orchestrator, NEW t \in Sandbox PROVE AskFits(o, t)'
  <2>1. AskFits(o, t) /\ AskFits(o, s) /\ PassFits(o)
    BY DEF AskIInv, CheckerIInv
  <2>2. CASE t = s
    <3>1. s \notin shuttingDown[o] /\ pass[o].seen[s] = 0
      BY <1>1, <2>1 DEF AskFits, NewFits
    <3>2. PICK V \in {0, 1} : V = Wasted(o, s)'
      BY DEF Wasted
    <3>3. s \in timely' => now' + GracePeriod + V <= expires'[s] + checkerFaults'
      BY <1>3, <1>4, <1>5
    <3>4. pass[o].pc \in {"webhook", "retry"} => pass[o].cur # s
      BY <2>1, <3>1 DEF PassFits
    <3> QED
      BY <1>3, <1>5, <2>2, <3>1, <3>2, <3>3, <3>4 DEF AskFits
  <2>3. CASE t # s
    <3>1. t \in Visible' => t \in Visible
      BY <1>1, <1>3, <1>5, <2>3, VisibleAppended
    <3>2. checkerFaults <= checkerFaults'
      BY <1>3, <1>4
    <3> QED
      BY <1>1, <1>3, <1>5, <2>1, <2>3, <3>1, <3>2, AskKept
  <2> QED
    BY <2>2, <2>3
<1> QED
  BY <1>6 DEF AskIInv

LEMMA AskPatchStep ==
    ASSUME CheckerIInv, CheckerTypeOK', AskIInv, NEW p \in Patcher,
           \/ \E s \in Sandbox : PatchBegin(p, s)
           \/ PatchWorker(p) \/ PatchExpiry(p) \/ PatchBreaksOff(p)
    PROVE  AskIInv'
<1>1. CheckerTypeOK
  BY DEF CheckerIInv
<1>2. /\ UNCHANGED <<now, order, record, shuttingDown, pass, swept>>
      /\ checkerFaults <= checkerFaults'
  BY <1>1 DEF PatchBegin, PatchWorker, PatchExpiry, PatchBreaksOff, CheckerFault,
     recordVars, passVars, CheckerTypeOK
<1>3. ASSUME NEW t \in Sandbox
      PROVE  t \in timely' => t \in timely /\ expires'[t] = expires[t]
                              /\ (t \in asked => t \in asked')
  <2>1. CASE PatchExpiry(p)
    <3>1. PICK s : s = patch[p].box
      OBVIOUS
    <3>2. CASE patch[p].given
      <4>1. /\ expires' = [expires EXCEPT ![s] = patch[p].new]
            /\ timely' = timely \ {s} /\ asked' = asked \ {s}
        BY <2>1, <3>1, <3>2 DEF PatchExpiry
      <4> QED
        BY <1>1, <4>1 DEF CheckerTypeOK
    <3>3. CASE ~patch[p].given
      BY <2>1, <3>3 DEF PatchExpiry, hookVars
    <3> QED
      BY <3>2, <3>3
  <2>2. CASE ~PatchExpiry(p)
    <3>1. UNCHANGED <<timely, expires, asked>>
      BY <2>2 DEF PatchBegin, PatchWorker, PatchBreaksOff, recordVars, hookVars
    <3> QED
      BY <3>1
  <2> QED
    BY <2>1, <2>2
<1>4. ASSUME NEW o \in Orchestrator, NEW t \in Sandbox PROVE AskFits(o, t)'
  <2>1. AskFits(o, t) /\ (t \in Visible' => t \in Visible)
    BY <1>2, VisibleKept DEF AskIInv
  <2> QED
    BY <1>1, <1>2, <1>3, <2>1, AskKept
<1> QED
  BY <1>4 DEF AskIInv

(* A worker has been asked of whatever is shut down, and the pass that     *)
(* asks comes before the expiry, as many passes as the grace period has    *)
(* time units.                                                             *)
THEOREM AskInvariantHolds == CheckerSpec => []AskIInv
<1>1. CheckerInit => AskIInv
  BY DEF CheckerInit, AskIInv, AskFits
<1>2. ASSUME CheckerIInv, CheckerIInv', AskIInv, [CheckerNext]_credentialVars
      PROVE  AskIInv'
  <2>1. CheckerTypeOK'
    BY <1>2 DEF CheckerIInv
  <2>2. CASE UNCHANGED credentialVars
    <3>1. UNCHANGED <<now, order, record, expires, timely, asked, shuttingDown, pass, swept,
                      checkerFaults>>
      BY <2>2 DEF credentialVars, recordVars, passVars, hookVars
    <3> QED
      BY <1>2, <3>1 DEF AskIInv, AskFits, Wasted, Visible
  <2> QED
    BY <1>2, <2>1, <2>2, AskTickStep, AskCreateStep, AskPatchStep, AskScanStep,
       AskGivenUp, AskHandleStep DEF CheckerNext
<1> QED
  BY <1>1, <1>2, CheckerInvariantHolds, PTL DEF CheckerSpec

(* credential_checker.py:10-11: no record is closed for its expired        *)
(* credentials, with the worker left alone, unless failed passes and       *)
(* restarts have used up the grace period; whatever that and the number    *)
(* of checkers are, if the credentials came in time.                       *)
THEOREM AskedBeforeClosedHolds == CheckerSpec => AskedBeforeClosed
<1>1. ASSUME CheckerIInv, AskIInv, NEW o \in Orchestrator, NEW s \in timely,
             DestroyExpired(o, s)
      PROVE  s \in asked \/ checkerFaults >= GracePeriod
  <2>1. CheckerTypeOK /\ s \in Sandbox
    BY <1>1 DEF CheckerIInv, CheckerTypeOK
  <2>2. now \in Nat /\ expires[s] \in Nat /\ checkerFaults \in Nat /\ GracePeriod \in Nat
    BY <2>1, CheckerConstants DEF CheckerTypeOK, Time
  <2>3. pass[o].seen[s] # 0 /\ pass[o].seen[s] <= pass[o].at
    BY <1>1 DEF DestroyExpired, AtHand, Expired
  <2>4. pass[o].seen[s] = expires[s] /\ pass[o].at = now
    BY <1>1, <2>1, <2>3 DEF CheckerIInv, TimelyFits
  <2>5. PICK W \in {0, 1} : W = Wasted(o, s)
    BY DEF Wasted
  <2>6. s \notin asked => now + GracePeriod + W <= expires[s] + checkerFaults
    BY <1>1, <2>1, <2>3, <2>5 DEF AskIInv, AskFits
  <2> QED
    BY <2>2, <2>3, <2>4, <2>6
<1>2. CheckerIInv /\ AskIInv =>
        \A o \in Orchestrator, s \in timely :
            DestroyExpired(o, s) => s \in asked \/ checkerFaults >= GracePeriod
  BY <1>1
<1> QED
  BY <1>2, CheckerInvariantHolds, AskInvariantHolds, PTL DEF AskedBeforeClosed
=============================================================================
