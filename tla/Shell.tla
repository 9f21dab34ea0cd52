--------------------------------- MODULE Shell ---------------------------------
(***************************************************************************)
(* A sandbox's shell (box/shell): one file system and one environment      *)
(* behind every run_shell call.  A script runs on its own here, as a       *)
(* caller who waits sees it; the commands of Calls, which read first and   *)
(* write in another step, may overlap with scripts and with each other, as *)
(* nothing keeps the calls of two callers apart.                           *)
(***************************************************************************)
EXTENDS Bash

CONSTANTS
    Home,           \* the file system at the start
    Scripts,        \* programs that are run, numbered
    Calls,          \* commands that are run in two steps, numbered
    Log, Notes,     \* a file, and the lines that are appended to it
    Texts,          \* what patches make of a file
    MaxSteps        \* bound on what is run

VARIABLES
    st,             \* the file system, the directory, the variables, the last exit code
    pending,        \* the second steps that are still to come, and the exit codes so far
    noted,          \* the notes that should be in the log
    steps           \* how much was run

vars == <<st, pending, noted, steps>>

Lit(word) == [type |-> "lit", word |-> word]
Command(name, opts, n, words) ==
    [type |-> "command", name |-> name, opts |-> opts, n |-> n,
     args |-> [i \in DOMAIN words |-> Lit(words[i])]]
Script(body) == [type |-> "program", body |-> body]

(* echo note >> log *)
AppendTo(p, note) ==
    Script(<<[type |-> "redirected", body |-> Command("echo", {}, 0, <<<<note>>>>),
               redirects |-> <<[op |-> ">>", dest |-> Lit(AbsWord(p))]>>]>>)

-----------------------------------------------------------------------------

Init ==
    /\ st = [fs |-> Home, cwd |-> Root, vars |-> [x \in {} |-> <<>>], last |-> 0]
    /\ pending = {}
    /\ noted = {}
    /\ steps = 0

Step == steps < MaxSteps /\ steps' = steps + 1

RunScript(i) ==
    /\ Step
    /\ st' = RunShell(Scripts[i], st).st
    /\ UNCHANGED <<pending, noted>>

(* A note counts when no command is half done with the log. *)
Note(note) ==
    /\ Step
    /\ st' = RunShell(AppendTo(Log, note), st).st
    /\ noted' = IF \E call \in pending : call.todo.path = Log THEN noted ELSE noted \cup {note}
    /\ UNCHANGED pending

(* The command ends, or has a second step to come. *)
Leaves(begun, others) ==
    IF begun.todo = Nothing
    THEN st' = Noted(begun.result).st /\ pending' = others
    ELSE /\ st' = begun.result.st
         /\ pending' = others \cup {[exit |-> begun.result.exit, todo |-> begun.todo]}

BeginCall(i) ==
    /\ Step
    /\ Leaves(Begun(Calls[i], st), pending)
    /\ UNCHANGED noted

EndCall(call) ==
    /\ Leaves(Further([Ok(st, <<>>) EXCEPT !.exit = call.exit], call.todo), pending \ {call})
    /\ UNCHANGED <<noted, steps>>

Next ==
    \/ \E i \in DOMAIN Scripts : RunScript(i)
    \/ \E note \in Notes : Note(note)
    \/ \E i \in DOMAIN Calls : BeginCall(i)
    \/ \E call \in pending : EndCall(call)

Spec == Init /\ [][Next]_vars

-----------------------------------------------------------------------------
(* Properties. *)

(* A script that uses none of the known departures (see Bash) does to      *)
(* files, directory, variables, exit code and output what it does in bash, *)
(* whatever ran before it (cst_walker.py, builtins.py).                    *)
Agree(b, e) == b.plain => e.st = b.st /\ e.exit = b.exit /\ e.out = b.out
AgreesWithBash ==
    \A i \in DOMAIN Scripts : Agree(Bash(Scripts[i], <<>>, st), RunShell(Scripts[i], st))

(* A line appended to the log while no command is half done with it stays: *)
(* redirections append in one step, and what reads and writes back keeps   *)
(* what it read (memfs.py write_file, the two-step builtins).              *)
AppendsSurvive ==
    noted # {} => IsFile(st.fs, Log) /\ noted \subseteq ToSet(st.fs[Log].text)

Files == {p \in DOMAIN st.fs : IsFile(st.fs, p)}

(* The diff that shows all of old, in one section or cut in two after line *)
(* k, with the lines that go and come.                                     *)
WholeDiff(old, new, k) ==
    LET a == Lines(old)
        b == Lines(new)
        same == Len(LongestCommonPrefix({a, b}))
        As(op, ls) == [i \in DOMAIN ls |-> [op |-> op, line |-> ls[i]]]
        shown == As(" ", SubSeq(a, 1, same)) \o As("-", SubSeq(a, same + 1, Len(a)))
                 \o As("+", SubSeq(b, same + 1, Len(b)))
    IN  SubSeq(shown, 1, k) \o As("@@", IF k = 0 THEN <<>> ELSE <<<<>>>>) \o SubSeq(shown, k + 1, Len(shown))

(* apply_patch with a diff that shows the whole of a file turns it into    *)
(* the new text and touches nothing else, also when a blank "@@" cuts the  *)
(* diff into sections whose lines occur elsewhere too (apply_patch.py,     *)
(* v4a.py).                                                                *)
PatchesApply ==
    \A p \in Files, new \in Texts :
        LET old == st.fs[p].text
            Update(k) == [type |-> "update", path |-> AbsWord(p), diff |-> WholeDiff(old, new, k)]
        IN  \A k \in 0..(Len(Lines(old)) - 1) :
                Whole(ApplyPatch([ops |-> <<Update(k)>>], st)).st.fs = Put(st.fs, p, File(new))
=============================================================================
