---------------------------- MODULE BrowserScript ----------------------------
(***************************************************************************)
(* Code in a sandbox that drives a browser: the executions of a page       *)
(* (PyodideExec) await browser commands (CommandChannel), and while one    *)
(* waits others have the page.  An execution and the task that sends its   *)
(* commands have the same name.  With native = TRUE the tasks are          *)
(* coroutines of an AgentCore sandbox, whose interpreter is a process      *)
(* outside of this repository.                                             *)
(***************************************************************************)
EXTENDS CommandChannel, PyodideExec

ASSUME SameNames == Exec = Task

vars == <<channelVars, pageVars>>

Init == native \in BOOLEAN /\ ChannelInit /\ PageInit

Code(A) == A /\ UNCHANGED channelVars
Channel(A) == A /\ UNCHANGED pageVars

\* run_code or the shell's python starts an execution.
Begin(e) == ~native /\ \E p \in Page, shell \in BOOLEAN : Code(ExecBegin(e, p, shell))

\* The code awaits a browser command, and goes on when it has the answer or
\* the exception.
AwaitCommand(e) == ExecAwait(e) /\ \E k \in Kinds : Connect(e, k)
GoOn(e) == Idle(e) /\ Code(ExecResume(e))

Finish(e) == Code(ExecReturns(e) \/ ExecRaises(e) \/ ExecExits(e))
GiveUp(e) == Code(ExecTimesOut(e))

\* The client's side of a command; a native task sends commands as it likes.
CommandStep(t) ==
    \/ \E k \in Kinds : native /\ Channel(Connect(t, k) \/ Reuse(t, k))
    \/ Channel(Greeted(t) \/ Receive(t) \/ Dropped(t) \/ TimesOut(t))

ConnStep(c) == Channel(HandlerStep(c) \/ Break(c))

Next ==
    \/ \E e \in Exec : Begin(e) \/ AwaitCommand(e) \/ GoOn(e) \/ Finish(e) \/ GiveUp(e)
                       \/ CommandStep(e)
    \/ \E c \in Conns : ConnStep(c)
    \/ \E p \in Page : ~native /\ Inside(p) # {} /\ Code(PageCloses(p))
    \/ Channel(CloseBrowser \/ CloseSession)

Spec == Init /\ [][Next]_vars

\* Code in a page ends or comes to its next await, the page's event loop goes
\* on, and a waiting client times out.  The worker need not answer.
Fairness ==
    \A e \in Exec :
        /\ WF_vars(Finish(e))
        /\ WF_vars(GoOn(e))
        /\ WF_vars(Channel(TimesOut(e)))

FairSpec == Spec /\ Fairness

\* Every execution leaves its page, whatever becomes of its browser commands,
\* of the executions that share the page, and of its caller's own timeout:
\* nothing keeps sys.stdout for ever.
ExecutionsEnd == \A e \in Exec : exec[e].at = "awaiting" ~> exec[e].at = "ended"

\* The inductive invariant: neither half depends on the other's.
IInv == ChannelInv /\ PageInv
=============================================================================
