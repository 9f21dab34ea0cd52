--------------------------- MODULE CommandChannel ---------------------------
(***************************************************************************)
(* The commands of sandbox code to one browser session: client -- WebSocket*)
(* -- orchestrator proxy -- WebSocket -- handler of the browser worker.    *)
(* Code in a Pyodide page goes through the bridge of its worker, which     *)
(* opens a connection for every command; native Python (AgentCore) keeps   *)
(* one connection for the session.  Neither end numbers its frames: a      *)
(* client takes the next frame for the answer to the command it sent last. *)
(*                                                                         *)
(* The proxy relays in order and ends both sides when one ends, so its two *)
(* hops are one queue in each direction.  The pages' contents, and whether *)
(* an answer says ok or error, are left out.                               *)
(***************************************************************************)
EXTENDS Naturals, Sequences

CONSTANTS
    Task,         \* coroutines of sandbox code that use the session
    Kinds,        \* kinds of command they send
    MaxConns,     \* bound: connections ever opened
    MaxCommands,  \* bound: commands of one task
    MaxProgress   \* bound: progress messages of one solve_captcha (six in the code)

VARIABLES
    native,   \* TRUE: _NativeBackend; FALSE: _PyodideBackend and the bridge
    session,  \* the worker's session: "open" or "closed"
    conn,     \* the connections, in the order they were opened
    kept,     \* _NativeBackend._connections[session_id], 0 for none
    closed,   \* Browser._closed of the native client
    command   \* for every task, its last command

channelVars == <<native, session, conn, kept, closed, command>>

Conns == DOMAIN conn
NoCommand == [task |-> "none", number |-> 0]
Id(t) == [task |-> t, number |-> command[t].number]
Frame(type, id) == [type |-> type, of |-> id]
Greeting == Frame("greeting", NoCommand)

\* The connections a task could be using: it waits for a greeting or an answer.
Receiving(c) == {t \in Task : command[t].on = c /\ command[t].at = "waiting"}
Idle(t) == command[t].at \in {"idle", "failed", "done"}

ChannelInit ==
    /\ session = "open"
    /\ conn = <<>>
    /\ kept = 0
    /\ closed = FALSE
    /\ command = [t \in Task |->
           [at |-> "idle", kind |-> "none", on |-> 0, number |-> 0, got |-> Greeting]]

----------------------------------------------------------------------------
\* A connection to an open session is greeted and served; one to a session the
\* pool no longer has is told so and closed (the frame is taken for the greeting).
Opened == [client  |-> "open",
           handler |-> IF session = "open" THEN "running" ELSE "ended",
           up |-> <<>>, down |-> <<Greeting>>,
           serving |-> NoCommand, progress |-> 0, skewed |-> FALSE]

MayCommand(t, k) ==
    /\ Idle(t)
    /\ command[t].number < MaxCommands
    /\ ~closed
    /\ k \in Kinds

Numbered(t, k) == [command[t] EXCEPT !.kind = k, !.number = @ + 1, !.on = 0, !.got = Greeting]

\* The client connects: for every command of the bridge, for the first of the
\* native client.  Without a route (the orchestrator drops it with the session)
\* the connection is refused.
Connect(t, k) ==
    /\ MayCommand(t, k)
    /\ ~native \/ kept = 0
    /\ \/ /\ Len(conn) < MaxConns
          /\ conn' = Append(conn, Opened)
          /\ command' = [command EXCEPT ![t] =
                 [Numbered(t, k) EXCEPT !.at = "greeting", !.on = Len(conn) + 1]]
       \/ /\ session = "closed"
          /\ command' = [command EXCEPT ![t] = [Numbered(t, "none") EXCEPT !.at = "failed"]]
          /\ UNCHANGED conn
    /\ UNCHANGED <<native, session, kept, closed>>

\* The bridge closes its connection after the command (frames that come later
\* are lost); the native client's stays.
Shut(r) == [r EXCEPT !.client = "closed"]
Ended(r) == IF native THEN r ELSE [Shut(r) EXCEPT !.down = <<>>, !.skewed = FALSE]

\* ws.send and the recv after it, of command r of task t on connection c: to
\* a closed connection it raises; while another task is in recv the command is
\* sent but recv raises, and the command's answer stays for whoever is next.
Transmitted(t, c, r) ==
    LET now == [conn[c] EXCEPT !.down = IF r.at = "greeting" THEN Tail(@) ELSE @]
        busy == Receiving(c) \ {t} # {}
    IN  IF now.handler = "ended" \/ now.client = "closed"
        THEN /\ conn' = [conn EXCEPT ![c] = Ended(now)]
             /\ command' = [command EXCEPT ![t] = [r EXCEPT !.at = "failed", !.kind = "none"]]
        ELSE /\ conn' = [conn EXCEPT ![c] = [now EXCEPT
                    !.up = Append(@, [task |-> t, number |-> r.number, kind |-> r.kind]),
                    !.skewed = @ \/ busy]]
             /\ command' = [command EXCEPT ![t] =
                    [r EXCEPT !.at = IF busy THEN "failed" ELSE "waiting", !.on = c, !.kind = "none"]]

\* A later command of the native client uses the connection it kept, whatever
\* has become of it.
Reuse(t, k) ==
    /\ MayCommand(t, k)
    /\ native /\ kept # 0
    /\ Transmitted(t, kept, Numbered(t, k))
    /\ UNCHANGED <<native, session, kept, closed>>

\* The greeting is there: keep the connection (native) and send the command.
Greeted(t) ==
    LET c == command[t].on IN
    /\ command[t].at = "greeting" /\ conn[c].down # <<>>
    /\ kept' = IF native THEN c ELSE kept
    /\ Transmitted(t, c, command[t])
    /\ UNCHANGED <<native, session, closed>>

\* The next frame is the answer, whatever it is.
Taken(t) ==
    LET c == command[t].on
        next == Head(conn[c].down)
        now == [conn[c] EXCEPT !.down = Tail(@), !.skewed = @ \/ next.type = "info"]
    IN
    /\ conn[c].down # <<>>
    /\ conn' = [conn EXCEPT ![c] = Ended(now)]
    /\ command' = [command EXCEPT ![t].at = "done", ![t].got = next]

Receive(t) ==
    /\ command[t].at = "waiting"
    /\ Taken(t)
    /\ UNCHANGED <<native, session, kept, closed>>

\* The connection has ended and all its frames are taken: recv raises.
Dropped(t) ==
    LET c == command[t].on IN
    /\ command[t].at \in {"greeting", "waiting"}
    /\ conn[c].down = <<>>
    /\ conn[c].handler = "ended" \/ conn[c].client = "closed"
    /\ conn' = [conn EXCEPT ![c] = Ended(@)]
    /\ command' = [command EXCEPT ![t].at = "failed", ![t].kind = "none"]
    /\ UNCHANGED <<native, session, kept, closed>>

\* Slip: the recv of the answer has no timeout.
TimesOut_NotAnswer(t) ==
    /\ command[t].at = "greeting"
    /\ conn' = [conn EXCEPT ![command[t].on] = Ended([@ EXCEPT !.skewed = TRUE])]
    /\ command' = [command EXCEPT ![t].at = "failed", ![t].kind = "none"]
    /\ UNCHANGED <<native, session, kept, closed>>

\* asyncio.wait_for ends the recv after 5 s (greeting) or 30 s (answer).
TimesOut(t) ==
    LET c == command[t].on IN
    /\ command[t].at \in {"greeting", "waiting"}
    /\ conn' = [conn EXCEPT ![c] = Ended([@ EXCEPT !.skewed = TRUE])]
    /\ command' = [command EXCEPT ![t].at = "failed", ![t].kind = "none"]
    /\ UNCHANGED <<native, session, kept, closed>>

\* Browser.close of the native client: no more commands, the kept connection
\* is closed and forgotten; then the session is deleted.
CloseBrowser ==
    /\ native /\ ~closed
    /\ closed' = TRUE
    /\ kept' = 0
    /\ conn' = IF kept = 0 THEN conn ELSE [conn EXCEPT ![kept] = Shut(@)]
    /\ UNCHANGED <<native, session, command>>

\* DELETE of the session: by its client, or the pool's clean-up.
CloseSession ==
    /\ session = "open"
    /\ session' = "closed"
    /\ UNCHANGED <<native, conn, kept, closed, command>>

----------------------------------------------------------------------------
\* The handler of connection c at the worker: one command at a time.
Serve(c, r) ==
    /\ conn[c].handler = "running"
    /\ conn' = [conn EXCEPT ![c] = r]
    /\ UNCHANGED <<native, session, kept, closed, command>>

TakeCommand(c) ==
    /\ conn[c].serving = NoCommand /\ conn[c].up # <<>>
    /\ Serve(c, [conn[c] EXCEPT !.serving = Head(conn[c].up), !.up = Tail(@)])

\* solve_captcha tells its stages; a send that fails is swallowed.
Progress(c) ==
    /\ conn[c].serving # NoCommand /\ conn[c].serving.kind = "solve_captcha"
    /\ conn[c].progress < MaxProgress
    /\ Serve(c, [conn[c] EXCEPT !.progress = @ + 1,
                    !.down = IF conn[c].client = "open"
                             THEN Append(@, Frame("info", [task |-> conn[c].serving.task,
                                                           number |-> conn[c].serving.number]))
                             ELSE @])

\* Slip: after "Invalid command" the loop goes on with the command (no
\* continue) and answers a second time.
Reply_Twice(c) ==
    LET s == conn[c].serving
        gone == conn[c].client = "closed"
        answer == Frame("answer", [task |-> s.task, number |-> s.number])
    IN
    /\ s # NoCommand
    /\ Serve(c, [conn[c] EXCEPT !.serving = NoCommand, !.progress = 0,
                    !.handler = IF gone \/ s.kind = "close" THEN "ended" ELSE @,
                    !.up = IF gone \/ s.kind = "close" THEN <<>> ELSE @,
                    !.down = IF gone THEN @
                             ELSE @ \o (IF s.kind = "unknown" THEN <<answer, answer>> ELSE <<answer>>)])

\* The answer: to a command, to one that does not validate ("unknown"), or to
\* "close", after which the handler ends.  If the client is gone, send raises.
Reply(c) ==
    LET s == conn[c].serving
        gone == conn[c].client = "closed"
    IN
    /\ s # NoCommand
    /\ Serve(c, [conn[c] EXCEPT !.serving = NoCommand, !.progress = 0,
                    !.handler = IF gone \/ s.kind = "close" THEN "ended" ELSE @,
                    !.up = IF gone \/ s.kind = "close" THEN <<>> ELSE @,
                    !.down = IF gone THEN @
                             ELSE Append(@, Frame("answer", [task |-> s.task, number |-> s.number]))])

\* receive_json raises WebSocketDisconnect.
Hangup(c) ==
    /\ conn[c].serving = NoCommand
    /\ conn[c].client = "closed"
    /\ Serve(c, [conn[c] EXCEPT !.handler = "ended", !.up = <<>>])

\* The connection breaks: the orchestrator or the worker restarts.
Break(c) == Serve(c, [conn[c] EXCEPT !.handler = "ended", !.serving = NoCommand, !.up = <<>>])

HandlerStep(c) == TakeCommand(c) \/ Progress(c) \/ Reply(c) \/ Hangup(c)

----------------------------------------------------------------------------
\* What a client takes for the answer to a command is that command's own
\* answer, unless an earlier exchange on the same connection went wrong: a
\* timeout, a progress message taken for an answer, a command sent while
\* another task received.  On a connection of the bridge, which serves one
\* command only, it is at worst a progress message of that same command.
OwnAnswer ==
    \A t \in Task :
        command[t].at = "done" =>
            /\ native => \/ conn[command[t].on].skewed
                         \/ command[t].got = Frame("answer", Id(t))
            /\ ~native => command[t].got.of = Id(t)
----------------------------------------------------------------------------
\* What holds of every reachable state, and follows from itself.

Numbers == [task : Task \cup {"none"}, number : Nat]
Commands == [task : Task, number : Nat \ {0}, kind : Kinds]
Frames == [type : {"greeting", "answer", "info"}, of : Numbers]
Connections ==
    [client : {"open", "closed"}, handler : {"running", "ended"},
     up : Seq(Commands), down : Seq(Frames), serving : Commands \cup {NoCommand},
     progress : Nat, skewed : BOOLEAN]
CommandStates ==
    [at : {"idle", "greeting", "waiting", "done", "failed"}, kind : Kinds \cup {"none"},
     on : Nat, number : Nat, got : Frames]

ChannelTypeOK ==
    /\ native \in BOOLEAN /\ closed \in BOOLEAN
    /\ session \in {"open", "closed"}
    /\ conn \in Seq(Connections)
    /\ kept \in {0} \cup Conns
    /\ command \in [Task -> CommandStates]

Uses(t, c) == command[t].on = c /\ command[t].at \in {"greeting", "waiting"}
Sender(s) == [task |-> s.task, number |-> s.number]

\* Connection r carries nothing.
Quiet(r) == r.up = <<>> /\ r.serving = NoCommand /\ r.down = <<>>

\* Connection r carries command id and what answers it and nothing else: the
\* command is on its way, or served, or the last frame answers it.
Carries(r, id) ==
    /\ Len(r.up) <= 1
    /\ \A i \in DOMAIN r.up : Sender(r.up[i]) = id
    /\ r.serving # NoCommand => r.up = <<>> /\ Sender(r.serving) = id
    /\ \A i \in DOMAIN r.down :
          \/ r.down[i] = Frame("info", id)
          \/ /\ r.down[i] = Frame("answer", id)
             /\ i = Len(r.down) /\ r.up = <<>> /\ r.serving = NoCommand

\* A connection that can be used and that nobody uses carries nothing, unless
\* it is skewed; the bridge keeps none, and closes one before it is skewed.
ConnsFit ==
    /\ ~native => kept = 0 /\ \A c \in Conns : ~conn[c].skewed
    /\ \A c \in Conns :
          /\ ~conn[c].skewed /\ conn[c].client = "open" /\ conn[c].handler = "running"
          /\ \A t \in Task : ~Uses(t, c)
          => Quiet(conn[c])

\* Who waits for the greeting has a fresh connection that is not kept yet; who
\* waits for an answer has the connection to himself and it carries nothing
\* but his command, unless it is skewed.
TasksFit ==
    \A t \in Task :
        LET c == command[t].on IN
        /\ command[t].at \in {"greeting", "waiting", "done"} =>
               c \in Conns /\ command[t].number # 0
        /\ command[t].at = "greeting" =>
               /\ command[t].kind \in Kinds /\ c # kept /\ ~conn[c].skewed
               /\ conn[c].up = <<>> /\ conn[c].serving = NoCommand
               /\ conn[c].down = <<Greeting>>
        /\ command[t].at = "waiting" /\ ~conn[c].skewed => Carries(conn[c], Id(t))
        /\ \A u \in Task : u # t /\ Uses(t, c) /\ Uses(u, c) => conn[c].skewed

ChannelInv == ChannelTypeOK /\ ConnsFit /\ TasksFit /\ OwnAnswer
=============================================================================
