---------------------------- MODULE SessionPool ----------------------------
(***************************************************************************)
(* The browser sessions of a worker (browser/pool.py, session.py) and the  *)
(* orchestrators' handlers that create and delete them and keep their      *)
(* routes (orchestrator/routes/browsers.py).                               *)
(*                                                                         *)
(* Unlike the pool of sandboxes, this one keeps its lock while browsers    *)
(* start and close, so the lock is a variable: asyncio.Lock serves its     *)
(* waiters in order, and the head of the queue holds it.  A handler of the *)
(* worker goes on when the orchestrator that called it has given up.       *)
(*                                                                         *)
(* A definition preceded by "Slip:" is its namesake with one plausible     *)
(* mistake and not part of the model.                                      *)
(***************************************************************************)
EXTENDS Naturals, FiniteSets, Sequences

CONSTANTS
    MaxCreated,     \* bound: sessions that may be created
    Call,           \* bound: POSTs and DELETEs served at once
    Cleaner,        \* the _cleanup_loop task
    MaxSessions,
    MaxBroken       \* bound: starts and closes that fail

ASSUME ConstantsAssumption ==
    /\ MaxCreated \in Nat
    /\ Cleaner \notin Call
    /\ MaxSessions \in Nat \ {0}
    /\ MaxBroken \in Nat

(* Session ids are uuid4's, each of one session: numbered as they are      *)
(* drawn.                                                                  *)
Session == 1..MaxCreated
NoSession == 0

VARIABLES
    pooled,     \* the keys of _sessions
    browser,    \* Session -> the state of the browser behind it
    due,        \* pooled sessions idle for longer than _idle_timeout
    queue,      \* _lock: its holder, then who waits for it
    call,       \* Call -> a request at the orchestrator and at the worker
    cleaner,    \* where the clean-up task is
    todo,       \* to_close of the current clean-up
    target,     \* the session it closes
    phase,      \* of the worker: up, stopping, stopped
    route,      \* sessions with a browser_route in Redis
    given,      \* pooled sessions whose client may count on the route
    lost        \* sessions whose start() or close() failed or was broken off

poolVars    == <<pooled, browser, due>>
cleanerVars == <<cleaner, todo, target>>
routeVars   == <<route, given>>
vars == <<poolVars, queue, call, cleanerVars, phase, routeVars, lost>>

Idle == [op |-> "none", sess |-> NoSession, orch |-> "idle", work |-> "idle"]

TypeOK ==
    /\ pooled \subseteq Session
    /\ browser \in [Session -> {"unused", "starting", "open", "closed"}]
    /\ due \subseteq Session
    /\ queue \in Seq(Call \cup {Cleaner})
    /\ call \in [Call ->
                   [op   : {"none", "create", "close"},
                    sess : Session \cup {NoSession},
                    orch : {"idle", "posted", "gone"},
                    work : {"idle", "waiting", "starting", "closing", "ok", "error"}]]
    /\ cleaner \in {"asleep", "waiting", "closing", "dead"}
    /\ todo \subseteq Session
    /\ target \in Session \cup {NoSession}
    /\ phase \in {"up", "stopping", "stopped"}
    /\ route \subseteq Session
    /\ given \subseteq Session
    /\ lost \subseteq Session

Init ==
    /\ pooled = {}
    /\ browser = [s \in Session |-> "unused"]
    /\ due = {}
    /\ queue = <<>>
    /\ call = [c \in Call |-> Idle]
    /\ cleaner = "asleep" /\ todo = {} /\ target = NoSession
    /\ phase = "up"
    /\ route = {} /\ given = {}
    /\ lost = {}

-----------------------------------------------------------------------------
(* The lock. *)

Holds(t) == queue # <<>> /\ Head(queue) = t
Request(t) == queue' = Append(queue, t)
Release == queue' = Tail(queue)

(* The handler of c at the worker, in its turn at the lock. *)
Turn(c, op, work) == Holds(c) /\ call[c].op = op /\ call[c].work = work
Working(c, work) == call' = [call EXCEPT ![c].work = work]

-----------------------------------------------------------------------------
(* create_session *)

(* The ids that no session has, and no request is going to give to one.    *)
Unused == {s \in Session : browser[s] = "unused" /\ \A c \in Call : call[c].sess # s}

(* POST /browsers, up to the worker's lock; s is the id that it will draw. *)
AskCreate(c, s) ==
    /\ phase = "up"
    /\ call[c] = Idle
    /\ s \in Unused /\ \A t \in Unused : s <= t
    /\ call' = [call EXCEPT ![c] = [op |-> "create", sess |-> s,
                                    orch |-> "posted", work |-> "waiting"]]
    /\ Request(c)
    /\ UNCHANGED <<poolVars, cleanerVars, phase, routeVars, lost>>

(* Slip: off by one. *)
HasRoom_OffByOne == Cardinality(pooled) <= MaxSessions

HasRoom == Cardinality(pooled) < MaxSessions

(* The pool is full: 503. *)
Refuse(c) ==
    /\ Turn(c, "create", "waiting")
    /\ ~HasRoom
    /\ Working(c, "error")
    /\ Release
    /\ UNCHANGED <<poolVars, cleanerVars, phase, routeVars, lost>>

(* BrowserSession(...), and playwright.launch begins. *)
Admit(c) ==
    /\ Turn(c, "create", "waiting")
    /\ HasRoom
    /\ browser' = [browser EXCEPT ![call[c].sess] = "starting"]
    /\ Working(c, "starting")
    /\ UNCHANGED <<pooled, due, queue, cleanerVars, phase, routeVars, lost>>

(* session.start raises, without a browser or with one that nobody closes, *)
(* if it was the context or the page that failed.                          *)
StartFails(c) ==
    /\ Turn(c, "create", "starting")
    /\ Cardinality(lost) < MaxBroken
    /\ \E b \in {"closed", "open"} : browser' = [browser EXCEPT ![call[c].sess] = b]
    /\ lost' = lost \cup {call[c].sess}
    /\ Working(c, "error")
    /\ Release
    /\ UNCHANGED <<pooled, due, cleanerVars, phase, routeVars>>

(* Context and page are there: the session is registered. *)
Started(c) ==
    /\ Turn(c, "create", "starting")
    /\ browser' = [browser EXCEPT ![call[c].sess] = "open"]
    /\ pooled' = pooled \cup {call[c].sess}
    /\ Working(c, "ok")
    /\ Release
    /\ UNCHANGED <<due, cleanerVars, phase, routeVars, lost>>

-----------------------------------------------------------------------------
(* close_session *)

(* DELETE /browsers/{id} of a session with a route, up to the lock. *)
AskClose(c, s) ==
    /\ phase = "up"
    /\ call[c] = Idle
    /\ s \in route
    /\ call' = [call EXCEPT ![c] = [op |-> "close", sess |-> s,
                                    orch |-> "posted", work |-> "waiting"]]
    /\ Request(c)
    /\ UNCHANGED <<poolVars, cleanerVars, phase, routeVars, lost>>

(* Slip: the session is looked up, not popped. *)
Close_Stays(c) ==
    /\ Turn(c, "close", "waiting")
    /\ call[c].sess \in pooled
    /\ Working(c, "closing")
    /\ UNCHANGED <<poolVars, queue, cleanerVars, phase, routeVars, lost>>

(* Popped, to be closed with the lock held. *)
Close(c) ==
    /\ Turn(c, "close", "waiting")
    /\ call[c].sess \in pooled
    /\ pooled' = pooled \ {call[c].sess}
    /\ due' = due \ {call[c].sess}
    /\ given' = given \ {call[c].sess}
    /\ Working(c, "closing")
    /\ UNCHANGED <<browser, queue, cleanerVars, phase, route, lost>>

(* SessionNotFound: 404. *)
CloseMisses(c) ==
    /\ Turn(c, "close", "waiting")
    /\ call[c].sess \notin pooled
    /\ Working(c, "error")
    /\ Release
    /\ UNCHANGED <<poolVars, cleanerVars, phase, routeVars, lost>>

(* session.close() only logs what playwright raises: the browser of s is   *)
(* closed, or stays open with nobody left to close it.                     *)
Shut(s) ==
    \/ /\ browser' = [browser EXCEPT ![s] = "closed"]
       /\ UNCHANGED lost
    \/ /\ Cardinality(lost) < MaxBroken
       /\ lost' = lost \cup {s}
       /\ UNCHANGED browser

Closed(c) ==
    /\ Turn(c, "close", "closing")
    /\ Shut(call[c].sess)
    /\ Working(c, "ok")
    /\ Release
    /\ UNCHANGED <<pooled, due, cleanerVars, phase, routeVars>>

-----------------------------------------------------------------------------
(* The orchestrator's side of a request. *)

Answered(c) == call[c].work \in {"ok", "error"}

(* The answer to a creation: its route is written and its id returned. *)
SetRoute(c) ==
    /\ call[c].op = "create" /\ call[c].orch = "posted" /\ call[c].work = "ok"
    /\ route' = route \cup {call[c].sess}
    /\ given' = given \cup ({call[c].sess} \cap pooled)
    /\ call' = [call EXCEPT ![c] = Idle]
    /\ UNCHANGED <<poolVars, queue, cleanerVars, phase, lost>>

(* An error is passed on. *)
Refused(c) ==
    /\ call[c].op = "create" /\ call[c].orch = "posted" /\ call[c].work = "error"
    /\ call' = [call EXCEPT ![c] = Idle]
    /\ UNCHANGED <<poolVars, queue, cleanerVars, phase, routeVars, lost>>

(* "Clean up route regardless of worker response": closed, or its 404. *)
DropRoute(c) ==
    /\ call[c].op = "close" /\ call[c].orch = "posted" /\ Answered(c)
    /\ route' = route \ {call[c].sess}
    /\ call' = [call EXCEPT ![c] = Idle]
    /\ UNCHANGED <<poolVars, queue, cleanerVars, phase, given, lost>>

(* Slip: the route is dropped although the worker did not answer. *)
GiveUp_Unroute(c) ==
    /\ call[c].orch = "posted"
    /\ call' = [call EXCEPT ![c].orch = "gone"]
    /\ route' = route \ {call[c].sess}
    /\ UNCHANGED <<poolVars, queue, cleanerVars, phase, given, lost>>

(* The request to the worker times out (502), or the orchestrator or its   *)
(* Redis fails before the route is written.                                *)
GiveUp(c) ==
    /\ call[c].orch = "posted"
    /\ call' = [call EXCEPT ![c].orch = "gone"]
    /\ UNCHANGED <<poolVars, queue, cleanerVars, phase, routeVars, lost>>

(* The worker's answer to nobody. *)
Unheard(c) ==
    /\ call[c].orch = "gone" /\ Answered(c)
    /\ call' = [call EXCEPT ![c] = Idle]
    /\ UNCHANGED <<poolVars, queue, cleanerVars, phase, routeVars, lost>>

(* The route is an hour old. *)
RouteExpires(s) ==
    /\ s \in route
    /\ route' = route \ {s}
    /\ given' = given \ {s}
    /\ UNCHANGED <<poolVars, queue, call, cleanerVars, phase, lost>>

-----------------------------------------------------------------------------
(* Idle sessions.  A command over the WebSocket touches its session. *)

BecomeDue(s) ==
    /\ s \in pooled \ due
    /\ due' = due \cup {s}
    /\ UNCHANGED <<pooled, browser, queue, call, cleanerVars, phase, routeVars, lost>>

Touch(s) ==
    /\ phase = "up"
    /\ s \in due
    /\ due' = due \ {s}
    /\ UNCHANGED <<pooled, browser, queue, call, cleanerVars, phase, routeVars, lost>>

(* Slip: nothing catches the KeyError in the loop. *)
CleanOn_Uncaught(left, q) ==
    \/ /\ \E s \in left \cap pooled : target' = s /\ todo' = left \ {s}
       /\ cleaner' = "waiting"
       /\ queue' = Append(q, Cleaner)
    \/ /\ left = {} \/ left \ pooled # {}
       /\ cleaner' = IF left = {} THEN "asleep" ELSE "dead"
       /\ todo' = {} /\ target' = NoSession
       /\ queue' = q

(* On with the sessions left, given the lock's queue: the next, if it is   *)
(* still there, whatever its idle time now.  For one closed since the scan *)
(* self._sessions[sid] raises a KeyError: the loop logs it and sleeps.     *)
CleanOn(left, q) ==
    \/ /\ \E s \in left \cap pooled : target' = s /\ todo' = left \ {s}
       /\ cleaner' = "waiting"
       /\ queue' = Append(q, Cleaner)
    \/ /\ left = {} \/ left \ pooled # {}
       /\ cleaner' = "asleep"
       /\ todo' = {} /\ target' = NoSession
       /\ queue' = q

CleanScan ==
    /\ cleaner = "asleep"
    /\ due # {}
    /\ CleanOn(due, queue)
    /\ UNCHANGED <<poolVars, call, phase, routeVars, lost>>

(* Slip: popped, not closed. *)
CleanClose_Forgets ==
    /\ cleaner = "waiting" /\ Holds(Cleaner)
    /\ target \in pooled
    /\ pooled' = pooled \ {target}
    /\ due' = due \ {target}
    /\ given' = given \ {target}
    /\ cleaner' = "asleep" /\ todo' = {} /\ target' = NoSession
    /\ Release
    /\ UNCHANGED <<browser, call, phase, route, lost>>

(* close_session in its turn at the lock. *)
CleanClose ==
    /\ cleaner = "waiting" /\ Holds(Cleaner)
    /\ target \in pooled
    /\ pooled' = pooled \ {target}
    /\ due' = due \ {target}
    /\ given' = given \ {target}
    /\ cleaner' = "closing"
    /\ UNCHANGED <<browser, queue, call, todo, target, phase, route, lost>>

(* SessionNotFound: closed while the clean-up waited. *)
CleanMisses ==
    /\ cleaner = "waiting" /\ Holds(Cleaner)
    /\ target \notin pooled
    /\ CleanOn(todo, Tail(queue))
    /\ UNCHANGED <<poolVars, call, phase, routeVars, lost>>

CleanClosed ==
    /\ cleaner = "closing"
    /\ Shut(target)
    /\ CleanOn(todo, Tail(queue))
    /\ UNCHANGED <<pooled, due, call, phase, routeVars>>

-----------------------------------------------------------------------------
(* stop *)

(* Slip: the cancelled task keeps its place at the lock. *)
Stop_Locked ==
    /\ phase = "up"
    /\ \A c \in Call : call[c].work \in {"idle", "ok", "error"}
    /\ phase' = "stopping"
    /\ lost' = IF cleaner = "closing" THEN lost \cup {target} ELSE lost
    /\ cleaner' = "dead" /\ todo' = {} /\ target' = NoSession
    /\ UNCHANGED <<poolVars, queue, call, routeVars>>

(* The server has finished its requests, so that nobody but the clean-up   *)
(* task can be at the lock.  It is cancelled wherever it is: at the lock   *)
(* it leaves the queue, inside session.close() it leaves a browser that    *)
(* only playwright.stop() will end.                                        *)
Stop ==
    /\ phase = "up"
    /\ \A c \in Call : call[c].work \in {"idle", "ok", "error"}
    /\ phase' = "stopping"
    /\ lost' = IF cleaner = "closing" THEN lost \cup {target} ELSE lost
    /\ queue' = <<>>
    /\ cleaner' = "dead" /\ todo' = {} /\ target' = NoSession
    /\ UNCHANGED <<poolVars, call, routeVars>>

(* With the lock: every session closed, the dict cleared after the last. *)
StopCloses(s) ==
    /\ phase = "stopping" /\ queue = <<>>
    /\ s \in pooled \ lost /\ browser[s] = "open"
    /\ Shut(s)
    /\ UNCHANGED <<pooled, due, queue, call, cleanerVars, phase, routeVars>>

(* playwright.stop() takes every browser it has launched with it. *)
StopDone ==
    /\ phase = "stopping" /\ queue = <<>>
    /\ \A s \in pooled : browser[s] = "closed" \/ s \in lost
    /\ pooled' = {} /\ due' = {} /\ given' = {}
    /\ browser' = [s \in Session |-> IF browser[s] = "open" THEN "closed" ELSE browser[s]]
    /\ phase' = "stopped"
    /\ UNCHANGED <<queue, call, cleanerVars, route, lost>>

-----------------------------------------------------------------------------
CreateStep(c) ==
    Refuse(c) \/ Admit(c) \/ StartFails(c) \/ Started(c)
CloseStep(c) == Close(c) \/ CloseMisses(c) \/ Closed(c)
OrchestratorStep(c) == SetRoute(c) \/ Refused(c) \/ DropRoute(c) \/ Unheard(c)
CleanStep == CleanScan \/ CleanClose \/ CleanMisses \/ CleanClosed

Next ==
    \/ \E c \in Call : \/ \E s \in Session : AskCreate(c, s) \/ AskClose(c, s)
                       \/ CreateStep(c) \/ CloseStep(c)
                       \/ OrchestratorStep(c) \/ GiveUp(c)
    \/ \E s \in Session : RouteExpires(s) \/ BecomeDue(s) \/ Touch(s) \/ StopCloses(s)
    \/ CleanStep \/ Stop \/ StopDone

(* Playwright answers or raises, the lock serves its waiters in order, the *)
(* orchestrator's handlers, the clean-up and the shutdown go on.  Of the   *)
(* steps joined here at most one is enabled at a time.                     *)
Fairness ==
    /\ \A c \in Call : WF_vars(CreateStep(c) \/ CloseStep(c) \/ OrchestratorStep(c))
    /\ WF_vars(CleanStep \/ StopDone \/ \E s \in Session : StopCloses(s))

Spec == Init /\ [][Next]_vars
FairSpec == Spec /\ Fairness

-----------------------------------------------------------------------------
(* Invariants. *)

Starting == {call[c].sess : c \in {d \in Call : call[d].work = "starting"}}
Closing  == {call[c].sess : c \in {d \in Call : call[d].work = "closing"}}
            \cup (IF cleaner = "closing" THEN {target} ELSE {})

(* The sessions that are registered and those whose browser is starting    *)
(* stay within max_sessions: the test in create_session holds until the    *)
(* session it lets in is registered.                                       *)
CapacityBound == Cardinality(pooled \cup Starting) <= MaxSessions

(* get_session, which takes no lock, never returns a session whose browser *)
(* is closing or closed while the worker serves.                           *)
PooledIsOpen ==
    phase = "up" => \A s \in pooled : browser[s] = "open" /\ s \notin Closing

(* Every open browser is in the pool, in the hands of the one that starts  *)
(* or closes it, or was lost when a start failed half way, playwright      *)
(* would not close it or the clean-up was cancelled in a close: no order   *)
(* of creations, deletions, clean-ups and abandoned requests loses         *)
(* another.                                                                *)
OpenIsOwned ==
    \A s \in Session : browser[s] = "open" =>
        s \in pooled \cup Starting \cup Closing \cup lost

(* A session that a client was given and that still lives has its route,   *)
(* unless that reached its TTL: no DELETE that timed out or lost a race    *)
(* against the clean-up takes the route of a living session.               *)
ReturnedIsRouted == given \subseteq route

(* What the proofs need besides.  The lock: each in the queue waits for it *)
(* or works under it, once; only its holder starts or closes a browser.    *)
Waits(t) ==
    IF t = Cleaner THEN cleaner \in {"waiting", "closing"}
                   ELSE call[t].work \in {"waiting", "starting", "closing"}

LockFits ==
    /\ \A i \in 1..Len(queue) : Waits(queue[i])
    /\ \A i, j \in 1..Len(queue) : queue[i] = queue[j] => i = j
    /\ \A c \in Call : call[c].work \in {"starting", "closing"} => Holds(c)
    /\ cleaner = "closing" => Holds(Cleaner)
    /\ phase # "up" => queue = <<>> /\ cleaner = "dead"

(* How far the browser of a request is; a session that was asked to close  *)
(* is out of the pool for good.                                            *)
Launched(s) == browser[s] \in {"open", "closed"}

CallsFit ==
    \A c \in Call :
        /\ call[c].op = "none" => call[c] = Idle
        /\ call[c].op = "create" =>
             /\ call[c].sess \in Session
             /\ call[c].work \in {"waiting", "starting", "ok", "error"}
             /\ call[c].work = "waiting" => browser[call[c].sess] = "unused"
             /\ call[c].work = "starting" => browser[call[c].sess] = "starting"
             /\ call[c].work = "ok" => Launched(call[c].sess)
             /\ \A d \in Call \ {c} :
                  call[d].op = "create" => call[d].sess # call[c].sess
        /\ call[c].op = "close" =>
             /\ call[c].sess \in Session
             /\ call[c].work \in {"waiting", "closing", "ok", "error"}
             /\ Launched(call[c].sess)
             /\ call[c].work # "waiting" => call[c].sess \notin pooled

CleanerFits ==
    cleaner \in {"waiting", "closing"} => target \in Session /\ Launched(target)

RoutesFit == given \subseteq pooled /\ \A s \in route : Launched(s)

(* The inductive invariant. *)
IInv ==
    /\ TypeOK /\ LockFits /\ CallsFit /\ CleanerFits /\ RoutesFit
    /\ CapacityBound /\ PooledIsOpen /\ OpenIsOwned /\ ReturnedIsRouted

-----------------------------------------------------------------------------
(* Liveness, under FairSpec. *)

(* No session stays in the pool idle for ever, also one whose client never *)
(* got its id, whatever the clean-up met on its passes and whoever held    *)
(* the lock, also for a start that failed.                                 *)
IdleIsClosed == \A s \in Session : []<>(s \notin due)

(* The shutdown does not hang, wherever it met the clean-up task.          *)
StopTerminates == []<>(phase # "stopping")
=============================================================================
