------------------------------ MODULE MCShell ------------------------------
(* One directory, two files and the log; words are short. *)
EXTENDS Shell

A == <<Slash, "a">>
B == <<Slash, "b">>
D == <<Slash, "d">>
E == <<Slash, "e">>
L == <<Slash, "log">>
X == <<"x">>
Y == <<"y">>

Cmd(name, words) == Command(name, {}, 0, words)
Opt(name, opt, n, words) == Command(name, {opt}, n, words)
With(cmd, values) == [cmd EXCEPT !.args = values]
Var(name) == [type |-> "var", name |-> name]
Subst(body) == [type |-> "subst", body |-> body]
Set(name, value) == [type |-> "assignment", name |-> name, value |-> value]
Export(name, value) == [type |-> "export", name |-> name, value |-> value]
Pipe(body) == [type |-> "pipeline", body |-> body]
Not(body) == [type |-> "negated", body |-> body]
List2(left, op, right) == [type |-> "list", left |-> left, op |-> op, right |-> right]
To(body, op, word) ==
    [type |-> "redirected", body |-> body, redirects |-> <<[op |-> op, dest |-> Lit(word)]>>]
Sub(body) == [type |-> "subshell", body |-> body]
If(cond, body, otherwise) ==
    [type |-> "if", cond |-> cond, body |-> body, elifs |-> <<>>, otherwise |-> otherwise]

MCAlphabet == <<Blank, Slash, "a", "b", "d", "e", "log", "m", "n", "o", "x", "y", "0", "1", "2">>
MCCommands == {"cat", "echo"}
MCLog == <<"log">>

MCHome ==
    (Root :> Dir) @@ (<<"d">> :> Dir) @@ (<<"a">> :> File(<<"y", NL, "x", NL, "y", NL>>))
    @@ (<<"log">> :> File(<<"x", NL>>))

MCScripts == <<
    Script(<<Cmd("cd", <<<<"d">>>>), To(Cmd("pwd", <<>>), ">", X)>>),
    Script(<<List2(List2(Cmd("mkdir", <<D \o X>>), "||", Cmd("rmdir", <<D>>)), "&&",
                   To(Cmd("echo", <<X, Y>>), ">", B))>>),
    Script(<<List2(Cmd("cat", <<B>>), "||", Cmd("cp", <<A, B>>))>>),
    Script(<<Pipe(<<Cmd("cat", <<A, L>>), Cmd("grep", <<X>>), Opt("wc", "l", 0, <<>>)>>)>>),
    Script(<<Set("v", Subst(Pipe(<<Cmd("cat", <<A>>), Opt("head", "n", 1, <<>>)>>))),
             To(With(Cmd("echo", <<>>), <<Var("v"), Var("?")>>), ">>", A)>>),
    Script(<<Set("v", Subst(Cmd("cd", <<D>>))), Cmd("pwd", <<>>)>>),
    Script(<<Export("w", Lit(Y)), To(With(Cmd("echo", <<>>), <<Var("w"), Var("v")>>), ">>", B)>>),
    Script(<<If(Opt("test", "f", 0, <<A>>), <<Opt("cp", "r", 0, <<D, E>>)>>, <<>>)>>),
    Script(<<[If(Not(To(Cmd("cat", <<B>>), ">", D \o <<"o">>)),
                 <<Cmd("echo", <<X>>), Cmd("ls", <<>>)>>, <<Export("u", Var("v")), Sub(<<Cmd("cd", <<D>>)>>)>>)
              EXCEPT !.elifs = <<[cond |-> Cmd("false", <<>>), body |-> <<Cmd("mkdir", <<E>>)>>]>>]>>),
    Script(<<If(Cmd("rmdir", <<E>>), <<List2(Cmd("mv", <<A, B>>), "||", Cmd("false", <<>>))>>, <<>>),
             Cmd("ls", <<<<"x">>>>)>>),
    Script(<<To(Cmd("sort", <<>>), "<", A), Sub(<<Opt("rm", "f", 0, <<B>>), Cmd("pwd", <<>>)>>)>>),
    Script(<<Pipe(<<Cmd("ls", <<D>>), Cmd("xargs", <<<<"touch">>>>)>>)>>),
    Script(<<To(Cmd("tac", <<>>), ">", D), Cmd("rmdir", <<<<DotDot, "d">>>>)>>),
    Script(<<Pipe(<<With(Cmd("echo", <<>>), <<[type |-> "glob", word |-> D]>>),
                    Opt("tee", "a", 0, <<D \o Y>>)>>)>>)>>

Call(name, opts, n, words) ==
    [name |-> name, opts |-> opts, n |-> n, words |-> words, stdin |-> <<>>]
Patch2 == [name |-> "apply_patch", opts |-> {}, n |-> 0, words |-> <<>>, stdin |-> <<>>,
           ops |-> <<[type |-> "add", path |-> B, diff |-> <<[op |-> "+", line |-> X]>>],
                     [type |-> "update", path |-> L, diff |-> <<[op |-> " ", line |-> X],
                                                               [op |-> "+", line |-> Y]>>],
                     [type |-> "delete", path |-> A, diff |-> <<>>]>>]

MCCalls == <<
    Call("touch", {}, 0, <<L>>), Call("touch", {}, 0, <<D \o X, D \o Y>>),
    Call("sed", {"i"}, 0, <<<<"x", "y">>, L>>),
    Call("edit", {"insert"}, 1, <<L, X>>),
    Call("edit", {"replace"}, 0, <<A, <<"x", NL>>, <<NL>>>>),
    Call("edit", {"create"}, 0, <<D \o Y \o X, X>>),
    Call("mv", {}, 0, <<A, B>>), Call("mv", {}, 0, <<D, E>>), Patch2>>

Short == {<<>>, X, Y}
MCTexts == {Join(ls, <<NL>>) : ls \in [1..2 -> Short]} \cup {Unlines(<<Y, X, X, Y>>)}
=============================================================================
