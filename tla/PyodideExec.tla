---------------------------- MODULE PyodideExec ----------------------------
(***************************************************************************)
(* Python executions in the Pyodide pages of sandboxes: run_code           *)
(* (PyodideEngine.execute) and the shell's python command (PythonExec).    *)
(* A page has one interpreter and one sys.stdout.  Every execution puts a  *)
(* new StringIO there, runs its code, reads what is there then, and puts   *)
(* sys.__stdout__ back.  Code runs without interruption up to an await;    *)
(* then other executions of the page run.                                  *)
(*                                                                         *)
(* The text printed is a token for each stretch of code between awaits.    *)
(* sys.stderr goes the way of sys.stdout; sys.argv, sys.stdin and the      *)
(* working directory, which PythonExec sets and nobody resets, and what    *)
(* the code does to variables and files of the page are left out.          *)
(***************************************************************************)
EXTENDS Naturals

CONSTANTS
    Exec,         \* executions
    Page,         \* pages, one for each sandbox
    MaxStretches  \* bound: stretches of code between awaits in one execution

VARIABLES
    stdout,  \* for every page, what sys.stdout is: an execution's StringIO or Real
    text,    \* for every execution, the tokens printed to its StringIO
    exec,    \* for every execution, where it is
    result   \* for every execution, what its caller was answered

pageVars == <<stdout, text, exec, result>>

Real == "sys.__stdout__"

ASSUME RealIsNoExecution == Real \notin Exec

Pending == [code |-> "pending", out |-> {}]
Own(e) == {<<e, i>> : i \in 1 .. exec[e].printed}
Inside(p) == {e \in Exec : exec[e].page = p /\ exec[e].at \in {"turn", "awaiting"}}
Free(p) == \A e \in Inside(p) : exec[e].at # "turn"

PageInit ==
    /\ stdout = [p \in Page |-> Real]
    /\ text = [e \in Exec |-> {}]
    /\ exec = [e \in Exec |-> [at |-> "none", page |-> "none", shell |-> FALSE,
                               printed |-> 0, mixed |-> FALSE]]
    /\ result = [e \in Exec |-> Pending]

\* The next stretch of e's code prints to whatever sys.stdout is at that time;
\* to Real it goes to the console of the page.
Stretch(e, r, out) ==
    /\ exec' = [exec EXCEPT ![e] = [r EXCEPT !.at = "turn", !.printed = @ + 1]]
    /\ text' = IF out = Real THEN text
               ELSE [text EXCEPT ![out] = @ \cup {<<e, r.printed + 1>>}]

\* page.evaluate: swap sys.stdout and run the first stretch of the code.
ExecBegin(e, p, shell) ==
    LET others == Inside(p) IN
    /\ exec[e].at = "none" /\ Free(p)
    /\ stdout' = [stdout EXCEPT ![p] = e]
    /\ exec' = [x \in Exec |->
           IF x = e THEN [exec[e] EXCEPT !.at = "turn", !.page = p, !.shell = shell,
                                         !.printed = 1, !.mixed = others # {}]
           ELSE IF x \in others THEN [exec[x] EXCEPT !.mixed = TRUE] ELSE exec[x]]
    /\ text' = [text EXCEPT ![e] = @ \cup {<<e, 1>>}]
    /\ UNCHANGED result

\* The code awaits something and the page is free for others.
ExecAwait(e) ==
    /\ exec[e].at = "turn" /\ exec[e].printed < MaxStretches
    /\ exec' = [exec EXCEPT ![e].at = "awaiting"]
    /\ UNCHANGED <<stdout, text, result>>

ExecResume(e) ==
    /\ exec[e].at = "awaiting" /\ Free(exec[e].page)
    /\ Stretch(e, exec[e], stdout[exec[e].page])
    /\ UNCHANGED <<stdout, result>>

Answer(e, code, out) ==
    result' = IF result[e] = Pending
              THEN [result EXCEPT ![e] = [code |-> code, out |-> out]] ELSE result

\* Slip: getvalue is called when sys.stdout has been put back.
Captured_Late(p) == {}

\* sys.stdout.getvalue() of the object that is there, which raises for Real.
Captured(p) == IF stdout[p] = Real THEN {} ELSE text[stdout[p]]

\* Slip: sys.stdout is put back only by the execution it belongs to.
Restored_Own(e, p) == [stdout EXCEPT ![p] = IF @ = e THEN Real ELSE @]

\* sys.stdout = sys.__stdout__, on every path.
Restored(e, p) == [stdout EXCEPT ![p] = Real]

Leave(e) ==
    /\ exec[e].at = "turn"
    /\ exec' = [exec EXCEPT ![e].at = "ended"]
    /\ stdout' = Restored(e, exec[e].page)
    /\ UNCHANGED text

\* The code ends.  execute() answers an error if getvalue raises, PythonExec
\* answers success without the output.
ExecReturns(e) ==
    LET p == exec[e].page IN
    /\ Leave(e)
    /\ Answer(e, IF stdout[p] = Real /\ ~exec[e].shell THEN "error" ELSE "ok", Captured(p))

\* The code raises.  execute() drops what was printed, PythonExec returns it.
ExecRaises(e) ==
    /\ Leave(e)
    /\ Answer(e, "error", IF exec[e].shell THEN Captured(exec[e].page) ELSE {})

\* The code calls sys.exit(0), which only PythonExec takes for success, as long
\* as sys.last_value is still that SystemExit: a getvalue that raises replaces it.
ExecExits(e) ==
    LET p == exec[e].page IN
    /\ exec[e].shell
    /\ Leave(e)
    /\ \E code \in IF stdout[p] = Real THEN {"ok", "error"} ELSE {"ok"} :
           Answer(e, code, Captured(p))

\* asyncio.wait_for of execute() gives up (124); the page goes on.  The shell
\* has no timeout.
ExecTimesOut(e) ==
    /\ exec[e].at \in {"turn", "awaiting"} /\ ~exec[e].shell
    /\ result[e] = Pending
    /\ Answer(e, "timeout", {})
    /\ UNCHANGED <<stdout, text, exec>>

\* The sandbox is destroyed: the page closes, evaluate raises.  (What is left
\* of the page is as good as new.)
PageCloses(p) ==
    /\ exec' = [e \in Exec |-> IF e \in Inside(p) THEN [exec[e] EXCEPT !.at = "ended"] ELSE exec[e]]
    /\ result' = [e \in Exec |-> IF e \in Inside(p) /\ result[e] = Pending
                                 THEN [code |-> "gone", out |-> {}] ELSE result[e]]
    /\ stdout' = [stdout EXCEPT ![p] = Real]
    /\ UNCHANGED text

----------------------------------------------------------------------------
\* Nothing that was printed is answered to two callers, however executions
\* overlap, time out and swap sys.stdout under each other.
OutputOnce ==
    \A e, f \in Exec : e # f => result[e].out \cap result[f].out = {}

\* An execution that has had its page to itself (no other one, a timed-out one
\* that goes on included, was there at any time) is answered success with all
\* that it printed, or an error with nothing else in it.
AloneIsExact ==
    \A e \in Exec : ~exec[e].mixed =>
        /\ result[e].out \subseteq Own(e)
        /\ result[e].code = "ok" => result[e].out = Own(e)
----------------------------------------------------------------------------
\* What holds of every reachable state, and follows from itself.

PageTypeOK ==
    /\ stdout \in [Page -> Exec \cup {Real}]
    /\ text \in [Exec -> SUBSET (Exec \X Nat)]
    /\ exec \in [Exec -> [at : {"none", "turn", "awaiting", "ended"},
                          page : Page \cup {"none"}, shell : BOOLEAN,
                          printed : Nat, mixed : BOOLEAN]]
    /\ result \in [Exec -> [code : {"pending", "ok", "error", "timeout", "gone"},
                            out : SUBSET (Exec \X Nat)]]

\* The tokens printed so far.
Printed == UNION {Own(e) : e \in Exec}

\* What a StringIO or an answer holds was printed, and is in one StringIO only.
TokensFit ==
    /\ \A e \in Exec : text[e] \cup result[e].out \subseteq Printed
    /\ \A e, f \in Exec : e # f => text[e] \cap text[f] = {}

\* The StringIO of a page was put there by an execution of the page, and
\* nobody was answered what it holds.
StdoutFits ==
    \A p \in Page : stdout[p] # Real =>
        /\ exec[stdout[p]].at # "none" /\ exec[stdout[p]].page = p
        /\ \A f \in Exec : result[f].out \cap text[stdout[p]] = {}

\* An execution that has not begun left no trace; one that is in its page
\* alone has its StringIO there, and all that it printed in it.
ExecsFit ==
    \A e \in Exec :
        /\ exec[e].at = "none" => exec[e].printed = 0 /\ text[e] = {} /\ result[e] = Pending
        /\ exec[e].at \in {"turn", "awaiting"} =>
               LET p == exec[e].page IN
               /\ p \in Page
               /\ ~exec[e].mixed => /\ Inside(p) = {e} /\ stdout[p] = e /\ text[e] = Own(e)
                                    /\ result[e].out = {} /\ result[e].code # "ok"

PageInv == PageTypeOK /\ TokensFit /\ StdoutFits /\ ExecsFit /\ OutputOnce /\ AloneIsExact
=============================================================================
