---------------------------- MODULE LazySandbox ----------------------------
(***************************************************************************)
(* The agents' clients that create their sandbox on first use:             *)
(* AgentBoxBackend (async, on AgentBoxClient) and AgentBoxSandbox of       *)
(* agentbox.langchain (synchronous, its calls may come from threads); and  *)
(* AgentBoxClient.run, which creates and destroys one for a single         *)
(* execution.                                                              *)
(* The server is what the client sees of it: sandboxes that it creates,    *)
(* destroys, or reaps when they are idle.                                  *)
(***************************************************************************)
EXTENDS Naturals, FiniteSets

CONSTANTS
    Call,  \* calls of the agent to its client
    Box,   \* sandboxes the server may create
    Ops    \* operations called: "execute", "write", "reset", "close", "run"

VARIABLES
    backend,  \* TRUE: AgentBoxBackend; FALSE: AgentBoxSandbox
    held,     \* _sandbox, _sandbox_id
    shut,     \* the HTTP client is closed for good (AgentBoxSandbox.close)
    box,      \* for every sandbox: "none", "live", "destroyed"
    gone,     \* the handles whose state is "destroyed" (Sandbox.destroy)
    call,     \* for every call, where it is
    lost      \* history: creations overlapped, or a request to the server failed

clientVars == <<backend, held, shut, box, gone, call, lost>>

NoBox == "none"

ASSUME ConstantsAssumption == NoBox \notin Box

Creating == {c \in Call : call[c].at = "creating" /\ call[c].op # "run"}
Active(c) == call[c].at \notin {"idle", "done", "failed"}

TypeOK ==
    /\ backend \in BOOLEAN /\ shut \in BOOLEAN /\ lost \in BOOLEAN
    /\ held \in Box \cup {NoBox}
    /\ box \in [Box -> {"none", "live", "destroyed"}]
    /\ gone \subseteq Box
    /\ call \in [Call -> [op : {"none", "execute", "write", "reset", "close", "run"},
                        at : {"idle", "creating", "ready", "mkdir", "executing",
                              "deleting", "done", "failed"},
                        to : Box \cup {NoBox}, sent : SUBSET (Box \cup {NoBox})]]

ClientInit ==
    /\ backend \in BOOLEAN
    /\ held = NoBox /\ shut = FALSE
    /\ box = [b \in Box |-> "none"]
    /\ gone = {}
    /\ call = [c \in Call |-> [op |-> "none", at |-> "idle", to |-> NoBox, sent |-> {}]]
    /\ lost = FALSE

Moved(c, at) == call' = [call EXCEPT ![c].at = at]

\* Slip: run() destroys its sandbox only after a successful execution.
After_Success(c, at) == IF call[c].op = "run" /\ at # "failed" THEN "deleting" ELSE at

\* Where a call goes after an execution or without one: run() to its finally.
After(c, at) == IF call[c].op = "run" THEN "deleting" ELSE at

\* POST /sandboxes is awaited.  (An overlap is noted when the second begins.)
Ask(c, op) ==
    /\ call' = [call EXCEPT ![c] = [@ EXCEPT !.op = op, !.at = "creating"]]
    /\ lost' = (lost \/ Creating \ {c} # {})

\* The test of _ensure_sandbox.
Usable(b) == b # NoBox /\ (backend => b \notin gone)

\* A call that needs a sandbox: _ensure_sandbox returns or asks for a new one.
Ensure(c, op) ==
    /\ call[c].at = "idle" /\ ~shut
    /\ op \in Ops \cap {"execute", "write"}
    /\ IF Usable(held)
       THEN /\ call' = [call EXCEPT ![c] = [@ EXCEPT !.op = op, !.at = "ready", !.to = held]]
            /\ UNCHANGED lost
       ELSE Ask(c, op)
    /\ UNCHANGED <<backend, held, shut, box, gone>>

\* The new sandbox is held, and used by the call that asked for it.
Created(c, b) ==
    /\ call[c].at = "creating" /\ box[b] = "none"
    /\ box' = [box EXCEPT ![b] = "live"]
    /\ held' = IF call[c].op = "run" THEN held ELSE b
    /\ call' = [call EXCEPT ![c] = [@ EXCEPT !.to = b,
                   !.at = IF call[c].op = "reset" THEN "done" ELSE "ready"]]
    /\ UNCHANGED <<backend, shut, gone, lost>>

\* The creation fails; if it only timed out the sandbox lives without a holder.
CreateFails(c) ==
    /\ call[c].at = "creating"
    /\ Moved(c, "failed")
    /\ \/ UNCHANGED <<box, lost>>
       \/ \E b \in Box : box[b] = "none" /\ box' = [box EXCEPT ![b] = "live"] /\ lost' = TRUE
    /\ UNCHANGED <<backend, held, shut, gone>>

\* Slip: every request goes to the sandbox held at that time.
Target_Latest(c) == IF call[c].op = "run" THEN call[c].to ELSE held

\* The sandbox a request of call c goes to: the handle that the call was given,
\* or (AgentBoxSandbox) whatever _sandbox_id is by now.
Target(c) == IF backend \/ call[c].op = "run" THEN call[c].to ELSE held

\* A request reaches its sandbox, or 404.  write is mkdir and then write.
Send(c, at) ==
    /\ ~shut
    /\ call' = [call EXCEPT ![c].sent = @ \cup {Target(c)},
                   ![c].at = IF box[Target(c)] = "live" THEN at ELSE After(c, "failed")]
    /\ UNCHANGED <<backend, held, shut, box, gone, lost>>

WriteSends(c) ==
    /\ call[c].op = "write"
    /\ \/ call[c].at = "ready" /\ Send(c, "mkdir")
       \/ call[c].at = "mkdir" /\ Send(c, "done")

\* POST /execute; the answer comes when the execution has one.
ExecuteSends(c) ==
    /\ call[c].op \in {"execute", "run"}
    /\ call[c].at = "ready" /\ Send(c, "executing")

\* The HTTP client gives up, or is closed under the call; the server goes on.
RequestFails(c) ==
    /\ call[c].at \in {"ready", "mkdir", "executing"}
    /\ Moved(c, After(c, "failed"))
    /\ UNCHANGED <<backend, held, shut, box, gone, lost>>

Executed(c) ==
    /\ call[c].at = "executing"
    /\ Moved(c, After(c, "done"))
    /\ UNCHANGED <<backend, held, shut, box, gone, lost>>

\* AgentBoxClient.run: a sandbox of its own.
RunBegin(c) ==
    /\ call[c].at = "idle" /\ backend /\ "run" \in Ops
    /\ call' = [call EXCEPT ![c] = [@ EXCEPT !.op = "run", !.at = "creating"]]
    /\ UNCHANGED <<backend, held, shut, box, gone, lost>>

----------------------------------------------------------------------------
\* AgentBoxBackend.reset: destroy what is held, then create.
ResetBegin(c) ==
    /\ call[c].at = "idle" /\ backend /\ "reset" \in Ops
    /\ IF held = NoBox THEN Ask(c, "reset")
       ELSE /\ call' = [call EXCEPT ![c] = [@ EXCEPT !.op = "reset", !.at = "deleting", !.to = held]]
            /\ UNCHANGED lost
    /\ UNCHANGED <<backend, held, shut, box, gone>>

\* close: destroy what is held, then close the HTTP client.  AgentBoxClient
\* opens a new one for the next call, httpx.Client of AgentBoxSandbox raises.
CloseBegin(c) ==
    /\ call[c].at = "idle" /\ "close" \in Ops /\ ~shut
    /\ call' = [call EXCEPT ![c] = [@ EXCEPT !.op = "close", !.to = held,
                   !.at = IF held = NoBox THEN "done" ELSE "deleting"]]
    /\ shut' = (~backend /\ held = NoBox)
    /\ UNCHANGED <<backend, held, box, gone, lost>>

\* DELETE is served, or it fails, which reset and close ignore.
Deleted(c) ==
    LET b == call[c].to IN
    /\ call[c].at = "deleting"
    /\ \/ /\ box' = [box EXCEPT ![b] = "destroyed"]
          /\ gone' = IF backend /\ box[b] = "live" THEN gone \cup {b} ELSE gone
          /\ lost' = (lost \/ (call[c].op = "reset" /\ (Creating # {} \/ b # held)))
       \/ lost' = TRUE /\ UNCHANGED <<box, gone>>
    /\ Moved(c, IF call[c].op = "reset" THEN "creating" ELSE "done")
    /\ shut' = (shut \/ (call[c].op = "close" /\ ~backend))
    /\ UNCHANGED <<backend, held>>

\* The server reaps the sandbox; the client is not told.
Reaped(b) ==
    /\ box[b] = "live"
    /\ box' = [box EXCEPT ![b] = "destroyed"]
    /\ UNCHANGED <<backend, held, shut, gone, call, lost>>

----------------------------------------------------------------------------
CallStep(c) ==
    \/ \E op \in Ops : Ensure(c, op)
    \/ \E b \in Box : Created(c, b)
    \/ CreateFails(c)
    \/ WriteSends(c) \/ ExecuteSends(c) \/ Executed(c) \/ RequestFails(c) \/ RunBegin(c)
    \/ ResetBegin(c) \/ CloseBegin(c) \/ Deleted(c)

Next == (\E c \in Call : CallStep(c)) \/ (\E b \in Box : Reaped(b))

Spec == ClientInit /\ [][Next]_clientVars

----------------------------------------------------------------------------
\* All requests of one call go to the same sandbox; those of AgentBoxSandbox,
\* which reads _sandbox_id for each, unless creations overlapped.
OneTarget ==
    \A c \in Call : backend \/ ~lost => Cardinality(call[c].sent) <= 1

\* While no call is in progress only the sandbox held is alive, of all the
\* client created, unless creations overlapped or requests to the server failed.
OnlyHeldIsLive ==
    (\A c \in Call : ~Active(c)) /\ ~lost =>
        {b \in Box : box[b] = "live"} \subseteq {held}

----------------------------------------------------------------------------
\* What holds of every reachable state, and follows from itself.

\* Where a call goes it has been given a sandbox; it has not sent anything
\* before that, and reset and close send nothing at all.
CallsFit ==
    \A c \in Call :
        /\ call[c].at \in {"idle", "creating"} \/ call[c].op \in {"reset", "close"} =>
               call[c].sent = {}
        /\ call[c].at \in {"ready", "mkdir", "executing", "deleting"} => call[c].to \in Box
        /\ call[c].at \in {"ready", "mkdir", "executing"} =>
               call[c].op \in {"execute", "write", "run"}
        /\ call[c].at = "creating" => call[c].op \in {"execute", "write", "run", "reset"}
        /\ call[c].at = "mkdir" => call[c].op = "write"
        /\ call[c].op \in {"reset", "run"} => backend

\* The server made the sandboxes that the client knows, and a handle is only
\* marked as destroyed when its sandbox is.
BoxesFit ==
    /\ held # NoBox => box[held] # "none"
    /\ \A c \in Call : call[c].to # NoBox => box[call[c].to] # "none"
    /\ \A b \in gone : box[b] = "destroyed"

\* A creation has the field for itself: what is held then does not run, and
\* AgentBoxSandbox does not hold anything yet.
CreationsApart ==
    ~lost => \A c \in Creating :
                 /\ \A d \in Creating : d = c
                 /\ held = NoBox \/ (backend /\ box[held] # "live")

\* Who sends goes to the sandbox that is given to the call, or held.
SentToTarget ==
    \A c \in Call :
        /\ backend => call[c].sent \subseteq {call[c].to}
        /\ ~backend /\ ~lost => call[c].sent \subseteq {held} \ {NoBox}
        /\ ~backend /\ call[c].at \in {"ready", "mkdir", "executing"} => held # NoBox

\* Whatever lives is held, or in the hands of a run() that will destroy it.
LiveIsOwned ==
    ~lost => \A b \in Box : box[b] = "live" =>
        \/ b = held
        \/ \E c \in Call : /\ call[c].op = "run" /\ call[c].to = b
                           /\ call[c].at \in {"ready", "executing", "deleting"}

\* The inductive invariant.
IInv == TypeOK /\ CallsFit /\ BoxesFit /\ CreationsApart /\ SentToTarget /\ LiveIsOwned
=============================================================================
