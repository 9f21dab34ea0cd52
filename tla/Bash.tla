--------------------------------- MODULE Bash ---------------------------------
(***************************************************************************)
(* What bash and the GNU commands do with the trees that CSTWalker walks,  *)
(* for comparison: nothing here runs by the interpreter's rules or by its  *)
(* builtins.  Only the data is shared: trees, texts, paths and nodes.      *)
(*                                                                         *)
(* An answer is plain when no part of the script is among what is known to *)
(* go otherwise in the interpreter.  Of the language:                      *)
(*   what the left side of a list, a condition or all but the last command *)
(*   of a subshell or a branch wrote is dropped; an if with elif or else   *)
(*   runs all of it or nothing; ! does nothing; what a subshell, a $( ) or *)
(*   a pipeline does to the directory and the variables stays; a file is   *)
(*   opened after the command ran, and that it cannot be is passed over;   *)
(*   an input file makes the command run twice; the value of an export is  *)
(*   not expanded, a variable not split into words, and an assignment      *)
(*   succeeds whatever its $( ) did.                                       *)
(* Of the commands:                                                        *)
(*   test succeeds; one that fails on some of its files writes nothing and *)
(*   stops there; cp copies a directory without -r, and cp and mv take a   *)
(*   directory that exists for the name of the copy, and a file for one    *)
(*   that differs from itself; mv leaves a directory that is not empty;    *)
(*   rm leaves directories; touch and tee succeed; head ends its last line *)
(*   and makes one of an empty input; ls does not sort, and fails with 1;  *)
(*   xargs runs nothing for no items, and fails as its command does; some  *)
(*   commands are unknown.                                                 *)
(***************************************************************************)
EXTENDS CSTWalker

Plainly(r, plain) == [r EXCEPT !.plain = @ /\ plain]
Answer(st0, exit, out) ==
    [st |-> [st0 EXCEPT !.last = exit], exit |-> exit, out |-> out, plain |-> TRUE]
NotPlain(r) == Plainly(r, FALSE)

-----------------------------------------------------------------------------
(* Files. *)

(* The place a word leads to; what it passes on the way has to be there. *)
Nowhere == <<Oops, Oops>>
Place(st0, word) ==
    LET Onward(at, part) ==
            CASE ~IsDir(st0.fs, at) -> Nowhere
              [] IsDir(st0.fs, at) /\ part = Dot -> at
              [] IsDir(st0.fs, at) /\ part = DotDot -> SubSeq(at, 1, Len(at) - 1)
              [] OTHER -> Append(at, part)
    IN  IF word = <<>> THEN Nowhere
        ELSE IF Head(word) = Slash THEN FoldLeft(Onward, Root, Tail(word))
        ELSE FoldLeft(Onward, st0.cwd, word)
Places(c, st0) == [i \in DOMAIN c.words |-> Place(st0, c.words[i])]

(* Opening for writing. *)
Opens(fs, p) == IsFile(fs, p) \/ (p \notin DOMAIN fs /\ MayHold(fs, p))
Emptied(fs, p) == Put(fs, p, File(<<>>))
Added(fs, p, text) == Put(fs, p, File((IF p \in DOMAIN fs THEN fs[p].text ELSE <<>>) \o text))

Tree(fs, p) == {q \in DOMAIN fs : IsPrefix(p, q)}
Without(fs, paths) == [q \in DOMAIN fs \ paths |-> fs[q]]

(* The node at p, and all below it, also at q. *)
Grafted(fs, p, q) ==
    LET Onto(r) == p \o SubSeq(r, Len(q) + 1, Len(r))
        copies == {q \o SubSeq(t, Len(p) + 1, Len(t)) : t \in Tree(fs, p)}
    IN  [r \in DOMAIN fs \cup copies |-> IF r \in copies THEN fs[Onto(r)] ELSE fs[r]]

InOrder(words) == SortSeq(SetToSeq(words), Before)

-----------------------------------------------------------------------------
(* Commands, of words that are expanded. *)

(* One operand after the other, also behind those that fail. *)
OnEach(c, st0, May(_, _), Do(_, _)) ==
    LET One(done, p) == IF May(done.fs, p) THEN [done EXCEPT !.fs = Do(@, p)]
                        ELSE [done EXCEPT !.exit = 1]
        all == FoldLeft(One, [fs |-> st0.fs, exit |-> 0], Places(c, st0))
    IN  Plainly(Answer([st0 EXCEPT !.fs = all.fs], all.exit, <<>>),
                all.exit = 0 \/ all.fs = st0.fs)

Free(fs, p) == p \notin DOMAIN fs /\ MayHold(fs, p)
UnixMkdir(c, st0) == OnEach(c, st0, Free, LAMBDA fs, p : Put(fs, p, Dir))
UnixRmdir(c, st0) ==
    OnEach(c, st0, LAMBDA fs, p : p # Root /\ IsDir(fs, p) /\ Tree(fs, p) = {p},
           LAMBDA fs, p : Without(fs, {p}))
UnixTouch(c, st0) ==
    LET r == OnEach(c, st0, LAMBDA fs, p : p \in DOMAIN fs \/ MayHold(fs, p),
                    LAMBDA fs, p : IF p \in DOMAIN fs THEN fs ELSE Emptied(fs, p))
    IN  Plainly(r, r.exit = 0)
UnixRm(c, st0) ==
    LET May(fs, p) == CASE IsDir(fs, p) -> "r" \in c.opts /\ p # Root
                        [] IsFile(fs, p) -> TRUE
                        [] OTHER -> c.opts # {}
    IN  Plainly(OnEach(c, st0, May, LAMBDA fs, p : Without(fs, Tree(fs, p))),
                \A i \in DOMAIN c.words : ~IsDir(st0.fs, Places(c, st0)[i]))

(* Where cp and mv put p when they are told q. *)
Target(fs, p, q) == IF IsDir(fs, q) THEN Append(q, Last(p)) ELSE q

UnixCp(c, st0) ==
    LET p == Places(c, st0)[1]
        q == Places(c, st0)[2]
        to == Target(st0.fs, p, q)
        done == IF IsDir(st0.fs, p)
                THEN "r" \in c.opts /\ ~IsPrefix(p, to) /\ ~IsFile(st0.fs, to) /\ MayHold(st0.fs, to)
                ELSE IsFile(st0.fs, p) /\ p # to /\ Opens(st0.fs, to)
    IN  Plainly(Answer(IF done THEN [st0 EXCEPT !.fs = Grafted(@, p, to)] ELSE st0,
                       IF done THEN 0 ELSE 1, <<>>),
                /\ p # q /\ (p \in DOMAIN st0.fs => ~IsDir(st0.fs, q))
                /\ IsDir(st0.fs, p) => "r" \in c.opts)

UnixMv(c, st0) ==
    LET p == Places(c, st0)[1]
        q == Places(c, st0)[2]
        to == Target(st0.fs, p, q)
        done == /\ p \in DOMAIN st0.fs /\ ~IsPrefix(p, to) /\ MayHold(st0.fs, to)
                /\ to \in DOMAIN st0.fs => IsFile(st0.fs, p) /\ IsFile(st0.fs, to)
    IN  Plainly(Answer(IF done THEN [st0 EXCEPT !.fs = Without(Grafted(@, p, to), Tree(@, p))]
                       ELSE st0, IF done THEN 0 ELSE 1, <<>>),
                /\ p # q /\ (p \in DOMAIN st0.fs => ~IsDir(st0.fs, q))
                /\ IsDir(st0.fs, p) => Tree(st0.fs, p) = {p})

UnixTee(c, st0) ==
    LET start(fs, p) == IF "a" \in c.opts THEN fs ELSE Emptied(fs, p)
        r == OnEach(c, st0, Opens, LAMBDA fs, p : Added(start(fs, p), p, c.stdin))
    IN  Plainly([r EXCEPT !.out = c.stdin], r.exit = 0)

UnixCat(c, st0) ==
    LET files == SelectSeq(Places(c, st0), LAMBDA p : IsFile(st0.fs, p))
        text == FlattenSeq([i \in DOMAIN files |-> st0.fs[files[i]].text])
    IN  IF c.words = <<>> THEN Answer(st0, 0, c.stdin)
        ELSE IF Len(files) = Len(c.words) THEN Answer(st0, 0, text)
        ELSE Plainly(Answer(st0, 1, text), text = <<>>)

UnixLs(c, st0) ==
    LET word == IF c.words = <<>> THEN <<Dot>> ELSE c.words[1]
        p == Place(st0, word)
        names == {q \in Tree(st0.fs, p) : Len(q) = Len(p) + 1}
    IN  CASE IsFile(st0.fs, p) -> Answer(st0, 0, Append(word, NL))
          [] IsDir(st0.fs, p) ->
                Plainly(Answer(st0, 0, Unlines(InOrder({<<Last(q)>> : q \in names}))),
                        Cardinality(names) < 2)
          [] OTHER -> NotPlain(Answer(st0, 2, <<>>))

UnixHead(c, st0) ==
    LET shown == SubSeq(KeepEnds(c.stdin), 1, IF c.n < Len(KeepEnds(c.stdin)) THEN c.n ELSE Len(KeepEnds(c.stdin)))
    IN  Plainly(Answer(st0, 0, FlattenSeq(shown)), Len(shown) = c.n /\ Last(Last(shown)) = NL)

UnixTest(c, st0) ==
    LET p == Place(st0, c.words[1])
        holds == /\ "f" \in c.opts => IsFile(st0.fs, p)
                 /\ "d" \in c.opts => IsDir(st0.fs, p)
    IN  Plainly(Answer(st0, IF holds THEN 0 ELSE 1, <<>>), holds)

UnixGrep(c, st0) ==
    LET hits == SelectSeq(SplitLines(c.stdin), LAMBDA l : c.words[1][1] \in ToSet(l))
    IN  Answer(st0, IF hits = <<>> THEN 1 ELSE 0, Unlines(hits))

UnixWc(c, st0) ==   \* -l
    Answer(st0, 0, <<ToString(Cardinality({i \in DOMAIN c.stdin : c.stdin[i] = NL})), NL>>)

UnixCd(c, st0) ==
    IF IsDir(st0.fs, Place(st0, c.words[1]))
    THEN Answer([st0 EXCEPT !.cwd = Place(st0, c.words[1])], 0, <<>>)
    ELSE Answer(st0, 1, <<>>)

RECURSIVE Unix(_, _)

(* All items behind the words. *)
UnixXargs(c, st0) ==
    LET items == SelectSeq(SplitAt(c.stdin, {NL, Blank}), LAMBDA w : w # <<>>)
        r == Unix([name |-> c.words[1][1], opts |-> c.opts, n |-> 0, stdin |-> <<>>,
                   words |-> Tail(c.words) \o items], st0)
    IN  Plainly(r, items # <<>> /\ r.exit = 0)

Unix(c, st0) ==
    CASE c.name = "echo" -> Answer(st0, 0, Append(Join(c.words, <<Blank>>), NL))
      [] c.name = "pwd" -> Answer(st0, 0, <<Slash>> \o st0.cwd \o <<NL>>)
      [] c.name = "false" -> Answer(st0, 1, <<>>)
      [] c.name = "test" -> UnixTest(c, st0)
      [] c.name = "cat" -> UnixCat(c, st0)
      [] c.name = "head" -> UnixHead(c, st0)
      [] c.name = "grep" -> UnixGrep(c, st0)
      [] c.name = "wc" -> UnixWc(c, st0)
      [] c.name = "sort" -> Answer(st0, 0, Unlines(SortSeq(SplitLines(c.stdin), Before)))
      [] c.name = "ls" -> UnixLs(c, st0)
      [] c.name = "cd" -> UnixCd(c, st0)
      [] c.name = "mkdir" -> UnixMkdir(c, st0)
      [] c.name = "rmdir" -> UnixRmdir(c, st0)
      [] c.name = "touch" -> UnixTouch(c, st0)
      [] c.name = "rm" -> UnixRm(c, st0)
      [] c.name = "cp" -> UnixCp(c, st0)
      [] c.name = "mv" -> UnixMv(c, st0)
      [] c.name = "tee" -> UnixTee(c, st0)
      [] c.name = "xargs" -> UnixXargs(c, st0)
      [] OTHER -> NotPlain(Answer(st0, 0, <<>>))

-----------------------------------------------------------------------------
(* Scripts. *)

(* What a process of its own leaves behind of r. *)
Forked(st0, r) ==
    Plainly([r EXCEPT !.st = [st0 EXCEPT !.fs = r.st.fs, !.last = r.exit]],
            r.st.cwd = st0.cwd /\ r.st.vars = st0.vars)

RECURSIVE Bash(_, _, _)

(* The words of a value and how its $( ) ended; split: a variable may be   *)
(* none or several.                                                        *)
BashWords(v, split, st0) ==
    LET As(st1, words, exit, plain) ==
            [st |-> st1, words |-> words, exit |-> exit, plain |-> plain]
        inner == Forked(st0, Bash(v.body, <<>>, st0))
        text == VarOf(st0, v.name)
        p == Place(st0, v.word)
        names == IF IsDir(st0.fs, p) THEN {q \in Tree(st0.fs, p) : Len(q) = Len(p) + 1} ELSE {}
        parts == SelectSeq(SplitAt(text, {NL, Blank}), LAMBDA w : w # <<>>)
    IN  CASE v.type = "lit" -> As(st0, <<v.word>>, 0, TRUE)
          [] v.type = "var" ->
                IF split THEN As(st0, parts, 0, parts = <<text>>) ELSE As(st0, <<text>>, 0, TRUE)
          [] v.type = "subst" -> As(inner.st, <<StripNL(inner.out)>>, inner.exit, inner.plain)
          [] v.type = "glob" ->
                As(st0, IF names = {} THEN <<Append(v.word, Star)>>
                        ELSE InOrder({Append(v.word, Last(q)) : q \in names}), 0, TRUE)

BashArgs(args, st0) ==
    LET Add(done, v) ==
            LET w == BashWords(v, TRUE, done.st) IN
            [w EXCEPT !.words = done.words \o @, !.plain = @ /\ done.plain]
    IN  FoldLeft(Add, [st |-> st0, words |-> <<>>, exit |-> 0, plain |-> TRUE], args)

BashCommand(node, stdin, w) ==
    Plainly(Unix([name |-> node.name, opts |-> node.opts, n |-> node.n, words |-> w.words,
                  stdin |-> stdin], w.st), w.plain)

BashAssign(node, w, plain) ==
    Plainly(Answer([w.st EXCEPT !.vars = (node.name :> w.words[1]) @@ @], w.exit, <<>>),
            w.plain /\ w.exit = 0 /\ plain)

(* One after the other, with the output of all. *)
BashAll(nodes, stdin, st0) ==
    LET Add(done, node) == LET r == Bash(node, stdin, done.st) IN
                           Plainly([r EXCEPT !.out = done.out \o @], done.plain)
    IN  FoldLeft(Add, Answer(st0, 0, <<>>), nodes)

(* As BashAll, plain if only the last one writes. *)
BashTurn(nodes, stdin, st0) ==
    LET r == BashAll(nodes, stdin, st0)
        before == BashAll(IF nodes = <<>> THEN <<>> ELSE Front(nodes), stdin, st0)
    IN  Plainly(r, before.out = <<>>)

(* if, elif, ... and else. *)
BashIf(node, stdin, st0) ==
    LET clauses == <<[cond |-> node.cond, body |-> node.body]>> \o node.elifs
        Try(done, clause) ==
            IF done.taken THEN done
            ELSE LET cond == Bash(clause.cond, stdin, done.r.st)
                     body == BashTurn(clause.body, stdin, cond.st)
                     plain == done.r.plain /\ cond.plain /\ cond.out = <<>>
                     so_far == done.r.out \o cond.out
                 IN  IF cond.exit = 0
                     THEN [taken |-> TRUE, r |-> Plainly([body EXCEPT !.out = so_far \o @], plain)]
                     ELSE [taken |-> FALSE, r |-> Plainly(Answer(cond.st, 0, so_far), plain)]
        tried == FoldLeft(Try, [taken |-> FALSE, r |-> Answer(st0, 0, <<>>)], clauses)
        other == BashTurn(node.otherwise, stdin, tried.r.st)
    IN  Plainly(IF tried.taken THEN tried.r
                ELSE Plainly([other EXCEPT !.out = tried.r.out \o @], tried.r.plain),
                node.elifs = <<>> /\ node.otherwise = <<>>)

(* One redirection: the file is opened, and then the body runs. *)
BashRedirected(node, stdin, st0) ==
    LET rd == node.redirects[1]
        dest == BashWords(rd.dest, FALSE, st0)
        p == Place(st0, dest.words[1])
        aside == Bash(node.body, stdin, st0)
        opened == [st0 EXCEPT !.fs = IF rd.op = ">" \/ p \notin DOMAIN @ THEN Emptied(@, p) ELSE @]
        r == Bash(node.body, stdin, opened)
        Read == Plainly(Bash(node.body, st0.fs[p].text, st0), [aside.st EXCEPT !.last = st0.last] = st0)
        Written == Plainly([r EXCEPT !.st.fs = Added(@, p, r.out), !.out = <<>>],
                           aside.out = r.out /\ r.st.cwd = st0.cwd)
    IN  CASE Len(node.redirects) = 1 /\ dest.plain /\ rd.op = "<" /\ IsFile(st0.fs, p) -> Read
          [] Len(node.redirects) = 1 /\ dest.plain /\ rd.op \in {">", ">>"} /\ Opens(st0.fs, p) -> Written
          [] OTHER -> NotPlain(Answer(st0, 1, <<>>))

Bash(node, stdin, st0) ==
    CASE node.type = "program" -> BashAll(node.body, stdin, st0)
      [] node.type = "command" -> BashCommand(node, stdin, BashArgs(node.args, st0))
      [] node.type = "assignment" -> BashAssign(node, BashWords(node.value, FALSE, st0), TRUE)
      [] node.type = "export" ->
            LET w == BashWords(node.value, FALSE, st0) IN
            BashAssign(node, [w EXCEPT !.exit = 0], w.words[1] = Raw(node.value))
      [] node.type = "pipeline" ->
            LET Add(done, cmd) == Plainly(Forked(done.st, Bash(cmd, done.out, done.st)), done.plain)
            IN  FoldLeft(Add, Answer(st0, 0, stdin), node.body)
      [] node.type = "negated" ->
            LET r == Bash(node.body, stdin, st0) IN
            NotPlain(Answer(r.st, IF r.exit = 0 THEN 1 ELSE 0, r.out))
      [] node.type = "list" ->
            LET left == Bash(node.left, stdin, st0)
                right == Bash(node.right, stdin, left.st)
            IN  IF (node.op = "&&") = (left.exit = 0)
                THEN Plainly([right EXCEPT !.out = left.out \o @], left.plain /\ left.out = <<>>)
                ELSE left
      [] node.type = "redirected" -> BashRedirected(node, stdin, st0)
      [] node.type = "subshell" -> Forked(st0, BashTurn(node.body, stdin, st0))
      [] node.type = "if" -> BashIf(node, stdin, st0)
=============================================================================
