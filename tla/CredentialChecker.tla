-------------------------- MODULE CredentialChecker --------------------------
(***************************************************************************)
(* Expiry of caller-provided S3 credentials (path_credentials mode): the   *)
(* checker of each orchestrator scans the sandbox records, fires webhooks, *)
(* shuts sandboxes down (orchestrator/credential_checker.py), while        *)
(* clients PATCH fresh credentials (orchestrator/routes/sandboxes.py).     *)
(*                                                                         *)
(* Time is counted in units of the check interval, from 1; an expiry of 0  *)
(* is an absent one.  A pass works on the records and the time it read at  *)
(* its beginning, and is suspended at every webhook, every call to a       *)
(* worker and every Redis command.  Routes are in SandboxRouting.          *)
(*                                                                         *)
(* Init, Next and their like are named for the checker, so that one module *)
(* of proofs can extend this one and WorkerRegistry, the other part of an  *)
(* orchestrator.                                                           *)
(*                                                                         *)
(* A definition preceded by "Slip:" is its namesake with one plausible     *)
(* mistake and not part of the model.                                      *)
(***************************************************************************)
EXTENDS Naturals, FiniteSets, Sequences

CONSTANTS
    Sandbox,
    NoSandbox,
    Hooked,         \* those with a credential_webhook_url
    Orchestrator,
    Patcher,        \* bound: PATCH handlers at once
    LeadTime,       \* AGENTBOX_CREDENTIAL_EXPIRY_LEAD_TIME
    GracePeriod,    \* AGENTBOX_CREDENTIAL_GRACE_PERIOD
    Window,         \* records a scan reads: the newest 100
    Given,          \* do bodies carry "expiration", or the "expires_at" of
                    \* the document, which is not read? of BOOLEAN
    MinLife,        \* bound: the least lifetime of credentials clients bring
    MaxTime,        \* bound: the end of time
    MaxPatches,     \* bound: PATCHes in all
    CheckerFaultKinds,  \* which faults happen, of AllCheckerFaults
    MaxCheckerFaults    \* bound: how many of them

AllCheckerFaults == {"redis",    \* a Redis command of a pass raises
                     "restart",  \* an orchestrator restarts
                     "patch"}    \* a PATCH breaks off half done

ASSUME CheckerConstants ==
    /\ NoSandbox \notin Sandbox
    /\ Hooked \subseteq Sandbox
    /\ LeadTime \in Nat /\ GracePeriod \in Nat /\ GracePeriod < LeadTime
    /\ Window \in Nat
    /\ Given \subseteq BOOLEAN
    /\ MinLife \in Nat \ {0}
    /\ MaxTime \in Nat \ {0} /\ MaxPatches \in Nat
    /\ CheckerFaultKinds \subseteq AllCheckerFaults /\ MaxCheckerFaults \in Nat

VARIABLES
    now,
    order,       \* sandboxes:index, by created_at
    record,      \* state of the record
    expires,     \* credential_expires_at of the record
    alive,       \* the sandboxes running on their workers
    creds,       \* expiry of the credentials the worker holds
    notified,    \* of each checker
    shuttingDown,\* of each checker
    pass,        \* the pass of each checker: [pc, at, seen, cur]
    swept,       \* the checkers that have scanned in this time unit
    patch,       \* Patcher -> [pc, box, new, given]
    patches,     \* PATCHes so far
    drifted,     \* sandboxes whose last POST or PATCH did not name the
                 \* expiration, or was a PATCH that broke off or overlapped
                 \* with another
    checkerFaults,   \* faults so far
    tried,       \* those whose current expiry a webhook was posted for
    asked,       \* those whose worker got a DELETE for the current expiry
    told,        \* webhooks each checker posted about the current expiry
                 \* since its last restart, up to 3
    heard,       \* those for which one of them was answered 2xx
    timely       \* those whose first credentials came more than LeadTime
                 \* before their expiry, as long as every checker has made
                 \* a pass, whole or failed, in every time unit since

recordVars == <<order, record, expires>>
heldVars   == <<alive, creds>>
passVars   == <<notified, shuttingDown, pass, swept>>
patchVars  == <<patch, patches, drifted>>
toldVars   == <<told, heard>>
hookVars   == <<tried, asked, toldVars, timely>>
credentialVars == <<now, recordVars, heldVars, passVars, patchVars, checkerFaults,
                    hookVars>>

Time == 0..MaxTime
Unseen == [s \in Sandbox |-> 0]
Asleep == [pc |-> "sleep", at |-> 0, seen |-> Unseen, cur |-> NoSandbox]
NoPatch == [pc |-> "idle", box |-> NoSandbox, new |-> 0, given |-> FALSE]

CheckerTypeOK ==
    /\ now \in Time
    /\ order \in Seq(Sandbox)
    /\ record \in [Sandbox -> {"none", "running", "destroyed"}]
    /\ expires \in [Sandbox -> Time]
    /\ alive \subseteq Sandbox
    /\ creds \in [Sandbox -> Time]
    /\ notified \in [Orchestrator -> SUBSET Sandbox]
    /\ shuttingDown \in [Orchestrator -> SUBSET Sandbox]
    /\ pass \in [Orchestrator ->
                   [pc : {"sleep", "loop", "webhook", "retry", "delete", "mark"},
                    at : Time, seen : [Sandbox -> Time],
                    cur : Sandbox \cup {NoSandbox}]]
    /\ swept \subseteq Orchestrator
    /\ patch \in [Patcher -> [pc : {"idle", "worker", "expiry"},
                              box : Sandbox \cup {NoSandbox},
                              new : Time, given : BOOLEAN]]
    /\ patches \in 0..MaxPatches
    /\ checkerFaults \in 0..MaxCheckerFaults
    /\ tried \subseteq Sandbox
    /\ asked \subseteq Sandbox
    /\ told \in [Orchestrator -> [Sandbox -> 0..3]]
    /\ heard \in [Orchestrator -> SUBSET Sandbox]
    /\ timely \subseteq Sandbox
    /\ drifted \subseteq Sandbox

CheckerInit ==
    /\ now = 1
    /\ order = <<>>
    /\ record = [s \in Sandbox |-> "none"]
    /\ expires = [s \in Sandbox |-> 0]
    /\ alive = {}
    /\ creds = [s \in Sandbox |-> 0]
    /\ notified = [o \in Orchestrator |-> {}]
    /\ shuttingDown = [o \in Orchestrator |-> {}]
    /\ pass = [o \in Orchestrator |-> Asleep]
    /\ swept = {}
    /\ patch = [p \in Patcher |-> NoPatch]
    /\ patches = 0
    /\ checkerFaults = 0
    /\ tried = {}
    /\ asked = {}
    /\ told = [o \in Orchestrator |-> Unseen]
    /\ heard = [o \in Orchestrator |-> {}]
    /\ timely = {}
    /\ drifted = {}

(* The expiries of credentials that a client brings at time t. *)
Later(t) == (t + MinLife)..MaxTime

CheckerFault(kind) ==
    /\ kind \in CheckerFaultKinds
    /\ checkerFaults < MaxCheckerFaults
    /\ checkerFaults' = checkerFaults + 1

Tick ==
    /\ now < MaxTime
    /\ now' = now + 1
    /\ swept' = {}
    /\ timely' = IF /\ swept = Orchestrator
                    /\ \A o \in Orchestrator : pass[o].pc = "sleep"
                 THEN timely ELSE {}
    /\ UNCHANGED <<recordVars, heldVars, notified, shuttingDown, pass,
                   patchVars, checkerFaults, tried, asked, toldVars>>

-----------------------------------------------------------------------------
(* Clients. *)

(* POST /sandboxes has succeeded, with credentials that expire at e or     *)
(* never (0).  The worker has them as they are; the record has the expiry  *)
(* only if the body named it "expiration".                                 *)
Create(s) ==
    /\ record[s] = "none"
    /\ \E e \in Later(now) \cup {0}, g \in Given :
         /\ creds' = [creds EXCEPT ![s] = e]
         /\ expires' = [expires EXCEPT ![s] = IF g THEN e ELSE 0]
         /\ drifted' = IF g \/ e = 0 THEN drifted ELSE drifted \cup {s}
         /\ timely' = IF g /\ e > now + LeadTime THEN timely \cup {s} ELSE timely
    /\ record' = [record EXCEPT ![s] = "running"]
    /\ alive' = alive \cup {s}
    /\ order' = Append(order, s)
    /\ UNCHANGED <<now, passVars, patch, patches, checkerFaults, tried, asked, toldVars>>

(* PATCH .../credentials: the record is read and found running. *)
PatchBegin(p, s) ==
    /\ patch[p].pc = "idle"
    /\ patches < MaxPatches
    /\ record[s] = "running"
    /\ \E e \in Later(now), g \in Given :
         patch' = [patch EXCEPT ![p] = [pc |-> "worker", box |-> s, new |-> e,
                                        given |-> g]]
    /\ patches' = patches + 1
    /\ UNCHANGED <<now, recordVars, heldVars, passVars, checkerFaults, hookVars,
                   drifted>>

(* PATCHes whose credentials the worker of s has, and the record has not. *)
Storing(s) == {p \in Patcher : patch[p].box = s /\ patch[p].pc = "expiry"}

(* The worker takes the credentials, or answers 404 and the PATCH fails. *)
PatchWorker(p) ==
    /\ patch[p].pc = "worker"
    /\ LET s == patch[p].box IN
       IF s \in alive
       THEN /\ creds' = [creds EXCEPT ![s] = patch[p].new]
            /\ patch' = [patch EXCEPT ![p].pc = "expiry"]
            /\ drifted' = IF Storing(s) = {} THEN drifted \ {s} ELSE drifted \cup {s}
       ELSE /\ patch' = [patch EXCEPT ![p] = NoPatch]
            /\ UNCHANGED <<creds, drifted>>
    /\ UNCHANGED <<now, recordVars, alive, passVars, patches, checkerFaults, hookVars>>

(* Slip: the new expiry is never stored. *)
PatchExpiry_NotStored(p) ==
    /\ patch[p].pc = "expiry"
    /\ patch' = [patch EXCEPT ![p] = NoPatch]
    /\ UNCHANGED <<now, recordVars, heldVars, passVars, patches, drifted,
                   checkerFaults, hookVars>>

(* update_credential_expiry, if the body named an expiration. *)
PatchExpiry(p) ==
    /\ patch[p].pc = "expiry"
    /\ LET s == patch[p].box IN
       IF patch[p].given
       THEN /\ expires' = [expires EXCEPT ![s] = patch[p].new]
            /\ told' = [o \in Orchestrator |-> [told[o] EXCEPT ![s] = 0]]
            /\ heard' = [o \in Orchestrator |-> heard[o] \ {s}]
            /\ tried' = tried \ {s} /\ asked' = asked \ {s}
            /\ timely' = timely \ {s}
            /\ UNCHANGED drifted
       ELSE /\ drifted' = drifted \cup {s}
            /\ UNCHANGED <<expires, hookVars>>
    /\ patch' = [patch EXCEPT ![p] = NoPatch]
    /\ UNCHANGED <<now, order, record, heldVars, passVars, patches, checkerFaults>>

(* The PATCH breaks off, though the worker has the credentials: its answer *)
(* is late, Redis raises, or the orchestrator dies.                        *)
PatchBreaksOff(p) ==
    /\ patch[p].pc = "expiry"
    /\ CheckerFault("patch")
    /\ drifted' = drifted \cup {patch[p].box}
    /\ patch' = [patch EXCEPT ![p] = NoPatch]
    /\ UNCHANGED <<now, recordVars, heldVars, passVars, patches, hookVars>>

-----------------------------------------------------------------------------
(* The checkers. *)

(* list_sandbox_records(state="running"): the newest Window records first, *)
(* destroyed ones included, and only then those that are running.          *)
Visible ==
    LET n == Len(order) IN
    {s \in Sandbox : /\ record[s] = "running"
                     /\ \E i \in 1..n : i + Window > n /\ order[i] = s}

Scan(o) ==
    /\ pass[o].pc = "sleep"
    /\ pass' = [pass EXCEPT ![o] =
                  [pc |-> "loop", at |-> now, cur |-> NoSandbox,
                   seen |-> [s \in Sandbox |-> IF s \in Visible THEN expires[s]
                                                                ELSE 0]]]
    /\ swept' = swept \cup {o}
    /\ UNCHANGED <<now, recordVars, heldVars, notified, shuttingDown, patchVars,
                   checkerFaults, hookVars>>

(* One record is done with. *)
Done(o, s) == pass' = [pass EXCEPT ![o].pc = "loop", ![o].cur = NoSandbox,
                                   ![o].seen[s] = 0]

(* The next record is being handled. *)
Enter(o, s, pc) == pass' = [pass EXCEPT ![o].pc = pc, ![o].cur = s]

AtHand(o, s) == pass[o].pc = "loop" /\ pass[o].seen[s] # 0
Left(o, s)   == pass[o].seen[s] - pass[o].at

(* Slip: credentials that have expired are somebody else's business. *)
Expired_Never(o, s) == FALSE

Expired(o, s) == pass[o].seen[s] <= pass[o].at

(* Slip: the last moment of the grace period is taken for its beginning. *)
InGrace_Strict(o, s) ==
    /\ ~Expired(o, s)
    /\ Left(o, s) < GracePeriod
    /\ s \notin shuttingDown[o]

(* Slip: the shutdown begins a time unit early. *)
InGrace_Early(o, s) ==
    /\ ~Expired(o, s)
    /\ Left(o, s) <= GracePeriod + 1
    /\ s \notin shuttingDown[o]

InGrace(o, s) ==
    /\ ~Expired(o, s)
    /\ Left(o, s) <= GracePeriod
    /\ s \notin shuttingDown[o]

(* Slip: notified is not consulted. *)
InLead_Again(o, s) ==
    /\ ~Expired(o, s) /\ ~InGrace(o, s)
    /\ Left(o, s) <= LeadTime

(* Slip: the lead time is over as soon as the grace period begins. *)
InLead_Late(o, s) ==
    /\ ~Expired(o, s) /\ ~InGrace(o, s)
    /\ Left(o, s) <= GracePeriod
    /\ s \notin notified[o]

InLead(o, s) ==
    /\ ~Expired(o, s) /\ ~InGrace(o, s)
    /\ Left(o, s) <= LeadTime
    /\ s \notin notified[o]

(* The worker is not asked: see SandboxRouting. *)
DestroyExpired(o, s) ==
    /\ AtHand(o, s) /\ Expired(o, s)
    /\ record' = [record EXCEPT ![s] = "destroyed"]
    /\ notified' = [notified EXCEPT ![o] = @ \ {s}]
    /\ shuttingDown' = [shuttingDown EXCEPT ![o] = @ \ {s}]
    /\ Done(o, s)
    /\ UNCHANGED <<now, order, expires, heldVars, swept, patchVars, checkerFaults,
                   hookVars>>

BeginShutdown(o, s) ==
    /\ AtHand(o, s) /\ InGrace(o, s)
    /\ shuttingDown' = [shuttingDown EXCEPT ![o] = @ \cup {s}]
    /\ Enter(o, s, "delete")
    /\ UNCHANGED <<now, recordVars, heldVars, notified, swept, patchVars, checkerFaults,
                   hookVars>>

(* The DELETE to the worker: done, or failed and ignored. *)
DeleteAtWorker(o) ==
    /\ pass[o].pc = "delete"
    /\ \/ alive' = alive \ {pass[o].cur}
       \/ UNCHANGED alive
    /\ asked' = asked \cup {pass[o].cur}
    /\ pass' = [pass EXCEPT ![o].pc = "mark"]
    /\ UNCHANGED <<now, recordVars, creds, notified, shuttingDown, swept, patchVars,
                   checkerFaults, tried, toldVars, timely>>

Mark(o) ==
    /\ pass[o].pc = "mark"
    /\ LET s == pass[o].cur IN
       /\ record' = [record EXCEPT ![s] = "destroyed"]
       /\ notified' = [notified EXCEPT ![o] = @ \ {s}]
       /\ Done(o, s)
    /\ UNCHANGED <<now, order, expires, heldVars, shuttingDown, swept, patchVars,
                   checkerFaults, hookVars>>

Announce(o, s) ==
    /\ AtHand(o, s) /\ InLead(o, s)
    /\ IF s \in Hooked
       THEN Enter(o, s, "webhook") /\ UNCHANGED notified
       ELSE /\ notified' = [notified EXCEPT ![o] = @ \cup {s}]
            /\ Done(o, s)
    /\ UNCHANGED <<now, recordVars, heldVars, shuttingDown, swept, patchVars,
                   checkerFaults, hookVars>>

(* A POST leaves for the client, about the expiry the pass has read;       *)
(* ok: it is answered 2xx in time.  One that is not may have arrived.      *)
Tell(o, s, ok) ==
    IF pass[o].seen[s] = expires[s]
    THEN /\ told' = [told EXCEPT ![o][s] = IF @ < 3 THEN @ + 1 ELSE @]
         /\ heard' = IF ok THEN [heard EXCEPT ![o] = @ \cup {s}] ELSE heard
         /\ tried' = tried \cup {s}
    ELSE UNCHANGED <<toldVars, tried>>

(* The first attempt, and after a failure the second one. *)
Fire(o) ==
    /\ pass[o].pc = "webhook"
    /\ LET s == pass[o].cur IN
       /\ notified' = [notified EXCEPT ![o] = @ \cup {s}]
       /\ \/ Tell(o, s, TRUE) /\ Done(o, s)
          \/ Tell(o, s, FALSE) /\ Enter(o, s, "retry")
    /\ UNCHANGED <<now, recordVars, heldVars, shuttingDown, swept, patchVars,
                   checkerFaults, asked, timely>>

FireAgain(o) ==
    /\ pass[o].pc = "retry"
    /\ LET s == pass[o].cur IN
       /\ \E ok \in BOOLEAN : Tell(o, s, ok)
       /\ Done(o, s)
    /\ UNCHANGED <<now, recordVars, heldVars, notified, shuttingDown, swept,
                   patchVars, checkerFaults, asked, timely>>

Skip(o, s) ==
    /\ AtHand(o, s)
    /\ ~Expired(o, s) /\ ~InGrace(o, s) /\ ~InLead(o, s)
    /\ Done(o, s)
    /\ UNCHANGED <<now, recordVars, heldVars, notified, shuttingDown, swept,
                   patchVars, checkerFaults, hookVars>>

EndPass(o) ==
    /\ pass[o].pc = "loop"
    /\ pass[o].seen = Unseen
    /\ pass' = [pass EXCEPT ![o] = Asleep]
    /\ UNCHANGED <<now, recordVars, heldVars, notified, shuttingDown, swept,
                   patchVars, checkerFaults, hookVars>>

(* A Redis command of the pass raises: the pass is given up, "will retry". *)
PassFails(o) ==
    /\ pass[o].pc \in {"loop", "mark"}
    /\ CheckerFault("redis")
    /\ pass' = [pass EXCEPT ![o] = Asleep]
    /\ UNCHANGED <<now, recordVars, heldVars, notified, shuttingDown, swept,
                   patchVars, hookVars>>

(* The orchestrator restarts: its checker has forgotten everything. *)
Restart(o) ==
    /\ CheckerFault("restart")
    /\ pass' = [pass EXCEPT ![o] = Asleep]
    /\ notified' = [notified EXCEPT ![o] = {}]
    /\ shuttingDown' = [shuttingDown EXCEPT ![o] = {}]
    /\ told' = [told EXCEPT ![o] = Unseen]
    /\ heard' = [heard EXCEPT ![o] = {}]
    /\ UNCHANGED <<now, recordVars, heldVars, swept, patchVars, tried, asked, timely>>

-----------------------------------------------------------------------------
Handle(o) ==
    \/ \E s \in Sandbox : \/ DestroyExpired(o, s) \/ BeginShutdown(o, s)
                          \/ Announce(o, s) \/ Skip(o, s)
    \/ DeleteAtWorker(o) \/ Mark(o) \/ Fire(o) \/ FireAgain(o) \/ EndPass(o)

CheckerNext ==
    \/ Tick
    \/ \E s \in Sandbox : Create(s)
    \/ \E p \in Patcher : \/ \E s \in Sandbox : PatchBegin(p, s)
                          \/ PatchWorker(p) \/ PatchExpiry(p) \/ PatchBreaksOff(p)
    \/ \E o \in Orchestrator : Scan(o) \/ Handle(o) \/ PassFails(o) \/ Restart(o)

(* The checkers sleep, scan and go on. *)
CheckerFairness ==
    \A o \in Orchestrator : WF_credentialVars(Scan(o)) /\ WF_credentialVars(Handle(o))

CheckerSpec == CheckerInit /\ [][CheckerNext]_credentialVars
CheckerFairSpec == CheckerSpec /\ CheckerFairness

-----------------------------------------------------------------------------
Patching(s) == \E p \in Patcher : patch[p].box = s

(* docs/operations/data-access.md:119, "This resets the expiry timer": the *)
(* record's expiry is that of the credentials the worker holds, but for a  *)
(* PATCH in progress, and for those that drifted: by PATCHes that overlap  *)
(* or break off, or by the bodies the document shows for POST and PATCH,   *)
(* which call the field "expires_at" and leave the timer alone.            *)
TimerMatches ==
    \A s \in Sandbox \ drifted :
        record[s] = "running" /\ ~Patching(s) => expires[s] = creds[s]

(* credential_checker.py:101, "to avoid duplicate webhooks": between its   *)
(* restarts a checker posts about an expiry at most twice, and never again *)
(* once a post was answered 2xx.  (The client may see it twice: a post     *)
(* that timed out had arrived; and two checkers each post, with a          *)
(* "notified" of its own.)                                                 *)
NoDuplicateWebhook ==
    [][\A o \in Orchestrator, s \in Sandbox :
         told'[o][s] > told[o][s] => told[o][s] < 2 /\ s \notin heard[o]]_credentialVars

(* A sandbox is deleted for the credentials it has, unless fresh ones came *)
(* while the pass was under way, or it drifted.                            *)
DeletedForItsExpiry ==
    \A s \in (alive \ alive') \ drifted :
        \/ creds[s] <= now + GracePeriod
        \/ Patching(s)
        \/ \E o \in Orchestrator : /\ pass[o].cur = s
                                   /\ pass[o].seen[s] # expires[s]

(* docs/operations/data-access.md:119-120, "resets the expiry timer ...    *)
(* without interrupting the sandbox".  This is not so, as a pass goes by   *)
(* what it read before the webhooks and DELETEs of others.  True is that   *)
(* the DELETE hits a sandbox with fresh credentials only if they came      *)
(* while the pass was under way, or if it drifted.                         *)
RefreshThenScanSurvives == [][DeletedForItsExpiry]_credentialVars

(* docs/operations/data-access.md:88, "When credentials are within         *)
(* AGENTBOX_CREDENTIAL_EXPIRY_LEAD_TIME of expiry, the orchestrator POSTs  *)
(* to credential_webhook_url": no sandbox is shut down unless a webhook    *)
(* has been posted about this expiry, if its credentials came in time and  *)
(* the checkers kept up; unless passes failed or orchestrators restarted   *)
(* as many times as LeadTime exceeds GracePeriod.                          *)
(* (Not so after a refresh: "notified" still has it from the last time.)   *)
AnnouncedBeforeShutdown ==
    [][\A o \in Orchestrator, s \in Hooked \cap timely :
         BeginShutdown(o, s) =>
             s \in tried \/ checkerFaults >= LeadTime - GracePeriod]_credentialVars

(* credential_checker.py:137-143 closes the record of expired credentials  *)
(* without a word to the worker, which then runs the sandbox on: lines 10  *)
(* and 11 count on the graceful shutdown before.  So they may, if the      *)
(* credentials came in time and the checkers kept up: the worker has been  *)
(* sent a DELETE, unless passes failed or orchestrators restarted as many  *)
(* times as the grace period has passes.                                   *)
AskedBeforeClosed ==
    [][\A o \in Orchestrator, s \in timely :
         DestroyExpired(o, s) =>
             s \in asked \/ checkerFaults >= GracePeriod]_credentialVars

(* credential_checker.py:122, "check all running sandboxes": a record with *)
(* expired credentials is in the end closed, or refreshed, as long as it   *)
(* is among the newest Window records.  (Those that newer ones push off    *)
(* the page are never looked at again, and stay open.)                     *)
ExpiredIsClosed ==
    \A s \in Sandbox :
        s \in Visible /\ expires[s] # 0 /\ expires[s] <= now ~>
            record[s] = "destroyed" \/ expires[s] > now \/ s \notin Visible

-----------------------------------------------------------------------------
(* What holds of every reachable state, and follows from itself. *)

(* Before its creation nothing is known of a sandbox. *)
NewFits(s) ==
    record[s] = "none" =>
        /\ expires[s] = 0 /\ creds[s] = 0 /\ s \notin timely /\ ~Patching(s)
        /\ \A o \in Orchestrator : s \notin notified[o] /\ pass[o].seen[s] = 0

PatchFits(p) ==
    IF patch[p].pc = "idle" THEN patch[p] = NoPatch ELSE patch[p].box \in Sandbox

(* The record has the worker's expiry, or a PATCH is about to store it.    *)
TimerFits(s) ==
    s \notin drifted =>
        /\ Storing(s) = {} => expires[s] = creds[s]
        /\ \A p \in Storing(s) : Storing(s) = {p} /\ patch[p].new = creds[s]

(* Whom a pass has at hand it has seen; it announces once, and shuts down  *)
(* only what was within the grace period when the pass began.              *)
PassFits(o) ==
    /\ pass[o].at <= now
    /\ pass[o].pc = "sleep" => pass[o] = Asleep
    /\ IF pass[o].pc \in {"sleep", "loop"} THEN pass[o].cur = NoSandbox
       ELSE LET s == pass[o].cur IN
            /\ s \in Sandbox /\ pass[o].seen[s] # 0
            /\ pass[o].pc \in {"delete", "mark"} => pass[o].seen[s] <= pass[o].at + GracePeriod
            /\ pass[o].pc = "webhook" => s \notin notified[o]
            /\ pass[o].pc = "retry" =>
                 s \in notified[o] /\ told[o][s] \in {0, 1} /\ s \notin heard[o]

(* Who has told of an expiry remembers it, or has destroyed the sandbox.   *)
TellFits(o, s) ==
    /\ told[o][s] \in 0..2
    /\ s \in heard[o] => told[o][s] # 0
    /\ told[o][s] # 0 =>
         s \in notified[o] \/ (record[s] = "destroyed" /\ pass[o].seen[s] = 0)

(* Each time unit that ends without a webhook, once one is due, cost every *)
(* checker a pass; the unit at hand has too, if its pass is over.          *)
Wasted(o, s) == IF o \in swept /\ pass[o].seen[s] = 0 THEN 1 ELSE 0
TimelyFits(o, s) ==
    s \in timely =>
        /\ expires[s] # 0
        /\ pass[o].seen[s] # 0 => pass[o].seen[s] = expires[s] /\ pass[o].at = now
        /\ s \in Hooked =>
             /\ s \in notified[o] => s \in tried
             /\ s \notin tried /\ (s \in Visible \/ pass[o].seen[s] # 0) =>
                  now + LeadTime + Wasted(o, s) <= expires[s] + checkerFaults

(* Each time unit that ends without a DELETE, once the grace period has    *)
(* begun, cost every checker a pass, too; and who has a sandbox down as    *)
(* shutting down has sent its DELETE, or is about to.                      *)
AskFits(o, s) ==
    /\ record[s] = "none" => s \notin shuttingDown[o]
    /\ s \in timely /\ s \notin asked =>
         /\ s \in shuttingDown[o] => pass[o].pc = "delete" /\ pass[o].cur = s
         /\ pass[o].pc \in {"webhook", "retry"} /\ pass[o].cur = s =>
              pass[o].seen[s] > pass[o].at + GracePeriod
         /\ s \in Visible \/ pass[o].seen[s] # 0 =>
              now + GracePeriod + Wasted(o, s) <= expires[s] + checkerFaults

(* The inductive invariant, and what AskedBeforeClosed needs besides. *)
CheckerIInv ==
    /\ CheckerTypeOK
    /\ \A s \in Sandbox : NewFits(s) /\ TimerFits(s)
    /\ \A p \in Patcher : PatchFits(p)
    /\ \A o \in Orchestrator : PassFits(o)
    /\ \A o \in Orchestrator, s \in Sandbox : TellFits(o, s) /\ TimelyFits(o, s)

AskIInv == \A o \in Orchestrator, s \in Sandbox : AskFits(o, s)
=============================================================================
