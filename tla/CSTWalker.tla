------------------------------- MODULE CSTWalker -------------------------------
(***************************************************************************)
(* The shell interpreter (box/shell/cst_walker.py): it walks the syntax    *)
(* tree of a script and runs its commands on the sandbox's only shell      *)
(* state, also those of a subshell, a pipeline or a $( ).                  *)
(*                                                                         *)
(* A node is a record with its type:                                       *)
(*   program, subshell : body, a sequence of nodes                         *)
(*   command           : name, opts, n, args (values)                      *)
(*   assignment, export: name, value                                       *)
(*   pipeline          : body                                              *)
(*   negated           : body, a node                                      *)
(*   list              : left, op, right                                   *)
(*   redirected        : body, redirects ([op, dest : value])              *)
(*   if                : cond, body, elifs ([cond, body]), otherwise       *)
(* and a value: lit (word), var (name), subst (body), glob (word), which   *)
(* stands for the pattern word/*.                                          *)
(***************************************************************************)
EXTENDS Builtins

CONSTANT Star   \* the name in a pattern that matches every name

Noted(r) == [r EXCEPT !.st.last = r.exit]

(* What runs first, what runs behind it, and the output of both. *)
Beside(first, r) == [r EXCEPT !.out = first.out \o @, !.err = first.err \o @]

SetVar(st, name, word) == [st EXCEPT !.vars = (name :> word) @@ @]
VarOf(st, name) ==
    IF name = "?" THEN <<ToString(st.last)>>
    ELSE IF name \in DOMAIN st.vars THEN st.vars[name] ELSE <<>>

RECURSIVE StripNL(_)
StripNL(text) == IF text # <<>> /\ Last(text) = NL THEN StripNL(Front(text)) ELSE text

(* The entries of the directory in order, or the pattern when there are none. *)
Glob(word, st) ==
    LET p == ResolvePath(st, word)
        names == IF IsDir(st.fs, p) THEN ListDir(st.fs, p) ELSE <<>>
    IN  IF names = <<>> THEN <<Append(word, Star)>>
        ELSE Sorted([i \in DOMAIN names |-> Append(word, names[i])])

(* The text of an export, which is not expanded. *)
Raw(v) == CASE v.type = "lit" -> v.word
            [] v.type = "var" -> <<"$", v.name>>
            [] OTHER -> <<"$", "(">>

RECURSIVE Eval(_, _, _)

(* The words that a value stands for; a $( ) runs before the command does. *)
Literal(v, st) ==
    CASE v.type = "lit" -> <<v.word>>
      [] v.type = "var" -> <<VarOf(st, v.name)>>
      [] v.type = "glob" -> Glob(v.word, st)

Substituting(r) == [st |-> r.st, words |-> <<StripNL(r.out)>>]
Value(v, st) ==
    IF v.type = "subst" THEN Substituting(Eval(v.body, <<>>, st))
    ELSE [st |-> st, words |-> Literal(v, st)]

Behind(done, w) == [w EXCEPT !.words = done.words \o @]
Words(args, st) ==
    FoldLeft(LAMBDA done, v : Behind(done, Value(v, done.st)),
             [st |-> st, words |-> <<>>], args)

(* A command of words that are taken apart already, run as a new script. *)
Rerun(c, words, st) ==
    Eval([type |-> "program",
          body |-> <<[type |-> "command", name |-> words[1][1], opts |-> c.opts \ {"I"}, n |-> 0,
                      args |-> [i \in 1..(Len(words) - 1) |->
                                    [type |-> "lit", word |-> words[i + 1]]]]>>],
         <<>>, st)

(* The items of the input put in for {}, or at most n a time behind the words. *)
Batches(c) ==
    LET words == IF c.words = <<>> THEN <<<<"echo">>>> ELSE c.words
        items == Fields(c.stdin)
        size == IF c.n = 0 THEN Len(items) ELSE c.n
        Filled(item) == [i \in DOMAIN words |->
                            FlattenSeq([k \in DOMAIN words[i] |->
                                IF words[i][k] = "{}" THEN item ELSE <<words[i][k]>>])]
        Batch(i) == SubSeq(items, i, IF i + size - 1 < Len(items) THEN i + size - 1 ELSE Len(items))
    IN  IF items = <<>> THEN <<>>
        ELSE IF "I" \in c.opts THEN [i \in DOMAIN items |-> Filled(items[i])]
        ELSE [i \in 1..((Len(items) + size - 1) \div size) |-> words \o Batch((i - 1) * size + 1)]

RerunAll(c, lines, st) ==
    FoldLeft(LAMBDA done, words : Beside(done, Rerun(c, words, done.st)), Ok(st, <<>>), lines)

Run(c, st) ==
    CASE c.name \notin {"xargs", "nohup", "sudo"} -> Builtin(c, st)
      [] c.name \in {"nohup", "sudo"} /\ c.words = <<>> -> Fail(st, 1)
      [] OTHER -> RerunAll(c, IF c.name = "xargs" THEN Batches(c) ELSE <<c.words>>, st)

RunCommand(node, stdin, w) == Noted(Run(("words" :> w.words) @@ ("stdin" :> stdin) @@ node, w.st))

(* One after the other; the result is that of the last. *)
InTurn(nodes, stdin, st) ==
    FoldLeft(LAMBDA done, node : Noted(Eval(node, stdin, done.st)), Ok(st, <<>>), nodes)

(* Slip: an append begins the file anew. *)
RedirectTo_Anew(r, op, body, st, word, p) ==
    IF op \in {">", ">>"} THEN [r EXCEPT !.st = After(st, WriteFile(st.fs, p, r.out, FALSE)), !.out = <<>>]
    ELSE r

(* The body has run; what cannot be written is passed over.  An input file *)
(* runs the body again.                                                    *)
RedirectTo(r, op, body, st, word, p) ==
    LET Written(text, append) == After(st, WriteFile(st.fs, p, text, append))
    IN  CASE op = "2>&1" -> [r EXCEPT !.out = @ \o r.err, !.err = <<>>]
          [] op # "2>&1" /\ word = <<>> -> [r EXCEPT !.st = st]
          [] op \in {"2>", "2>>"} /\ word # <<>> ->
                [r EXCEPT !.st = Written(r.err, op = "2>>"), !.err = <<>>]
          [] op = "<" /\ word # <<>> ->
                IF IsFile(st.fs, p) THEN Eval(body, st.fs[p].text, st) ELSE [r EXCEPT !.st = st]
          [] op \in {">", ">>"} /\ word # <<>> ->
                [r EXCEPT !.st = Written(r.out, op = ">>"), !.out = <<>>]

RedirectValue(r, op, body, v) ==
    RedirectTo(r, op, body, v.st, v.words[1], ResolvePath(v.st, v.words[1]))
Redirect(r, rd, body) == RedirectValue(r, rd.op, body, Value(rd.dest, r.st))

(* The walker looks for children that read "elif" and "else", but tree-    *)
(* sitter's grammar makes one node of each such clause, which reads on.    *)
(* So after a condition that succeeds all clauses run in turn, also the    *)
(* conditions among them, and after one that fails nothing does.           *)
IfStatement(node, stdin, st) ==
    LET cond == Eval(node.cond, stdin, st)
        Clause(c) == <<c.cond>> \o c.body
        children == node.body \o FlattenSeq([i \in DOMAIN node.elifs |-> Clause(node.elifs[i])])
                        \o node.otherwise
    IN  IF cond.exit = 0 THEN InTurn(children, stdin, cond.st) ELSE Ok(cond.st, <<>>)

(* Each command reads what the one before wrote; errors of the last show.  *)
(* (The test for "!" finds nothing: that is a node of its own.)            *)
Pipeline(node, stdin, st) ==
    Noted(FoldLeft(LAMBDA done, cmd : Eval(cmd, done.out, done.st), Ok(st, stdin), node.body))

(* Slip: || is taken for &&. *)
List_NoOr(node, stdin, st) ==
    LET left == Noted(Eval(node.left, stdin, st)) IN
    IF left.exit = 0 THEN Noted(Eval(node.right, stdin, left.st)) ELSE left

(* What the left side wrote is dropped when the right one runs. *)
List(node, stdin, st) ==
    LET left == Noted(Eval(node.left, stdin, st))
        skips == \/ node.op = "&&" /\ left.exit # 0
                 \/ node.op = "||" /\ left.exit = 0
    IN  IF skips THEN left ELSE Noted(Eval(node.right, stdin, left.st))

Eval(node, stdin, st) ==
    CASE node.type = "program" ->
            FoldLeft(LAMBDA done, child : Beside(done, Noted(Eval(child, stdin, done.st))),
                     Ok(st, <<>>), node.body)
      [] node.type = "command" ->
            RunCommand(node, stdin, Words(node.args, st))
      [] node.type = "assignment" ->
            LET v == Value(node.value, st) IN Ok(SetVar(v.st, node.name, v.words[1]), <<>>)
      [] node.type = "export" -> Ok(SetVar(st, node.name, Raw(node.value)), <<>>)
      [] node.type = "pipeline" -> Pipeline(node, stdin, st)
      [] node.type = "list" -> List(node, stdin, st)
      [] node.type = "redirected" ->
            FoldLeft(LAMBDA r, rd : Redirect(r, rd, node.body),
                     Noted(Eval(node.body, stdin, st)), node.redirects)
      [] node.type = "subshell" -> InTurn(node.body, stdin, st)
      [] node.type = "negated" -> InTurn(<<node.body>>, stdin, st)
      [] node.type = "if" -> IfStatement(node, stdin, st)

(* ShellExecutor.run *)
RunShell(script, st) == Noted(Eval(script, <<>>, st))
=============================================================================
