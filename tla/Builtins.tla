-------------------------------- MODULE Builtins --------------------------------
(***************************************************************************)
(* The builtin commands of the shell (box/shell/buildin_exec).  A command  *)
(* runs on the state of a sandbox's shell                                  *)
(*    st : [fs : file system, cwd : path, vars : names to texts,           *)
(*          last : the last exit code]                                     *)
(* and gives a result: the state after it, its exit code and its output.   *)
(*                                                                         *)
(* A command's arguments are taken apart already:                          *)
(*    c : [name, opts : its flags, n : its number, words : the others,     *)
(*         stdin]                                                          *)
(* A word is a sequence of names, of which the first may be the root's;    *)
(* the slashes between them are left out.  An empty input is like none.    *)
(* Error messages are not told apart.                                      *)
(***************************************************************************)
EXTENDS MemFS, Patch

CONSTANTS
    Slash,          \* the token that begins an absolute path
    Dot, DotDot,
    Oops,           \* any error message
    Alphabet,       \* the tokens in the order that sort puts them in
    Commands        \* the commands that /bin shows

Ok(st, out) == [st |-> st, exit |-> 0, out |-> out, err |-> <<>>]
Fail(st, code) == [st |-> st, exit |-> code, out |-> <<>>, err |-> <<Oops, NL>>]

(* The state with the file system of a MemFS result. *)
After(st, r) == [st EXCEPT !.fs = r.fs]

-----------------------------------------------------------------------------
(* Paths. *)

Normalize(path) ==
    FoldLeft(LAMBDA done, part :
                 CASE part = Dot -> done
                   [] part = DotDot -> IF done = <<>> THEN <<>> ELSE Front(done)
                   [] OTHER -> Append(done, part),
             <<>>, path)

ResolvePath(st, word) ==
    CASE word = <<>> -> st.cwd
      [] word # <<>> /\ Head(word) = Slash -> Normalize(Tail(word))
      [] OTHER -> Normalize(st.cwd \o word)

Path(c, st, i) == ResolvePath(st, c.words[i])
AbsWord(p) == <<Slash>> \o p

VirtualDirs == {<<"bin">>, <<"usr", "bin">>}
IsVirtualBin(p) == p # Root /\ Front(p) \in VirtualDirs /\ Last(p) \in Commands

-----------------------------------------------------------------------------
(* Texts. *)

(* text.split() *)
Fields(text) == SelectSeq(SplitAt(text, {NL, Blank}), LAMBDA w : w # <<>>)

(* What a filter reads: its files one after the other, else its input. *)
Readable(c, st) == \A i \in DOMAIN c.words : IsFile(st.fs, Path(c, st, i))
Input(c, st) ==
    IF c.words = <<>> THEN c.stdin
    ELSE FlattenSeq([i \in DOMAIN c.words |-> st.fs[Path(c, st, i)].text])

Filter(c, st, F(_)) == IF Readable(c, st) THEN Ok(st, F(Input(c, st))) ELSE Fail(st, 1)

(* Those that take a program before their files. *)
Program(c) == c.words[1]
Rest(c) == [c EXCEPT !.words = Tail(c.words)]
OnlyFirst(c) == [c EXCEPT !.words = IF @ = <<>> THEN @ ELSE <<Head(@)>>]
OnlyLast(c) == [c EXCEPT !.words = IF @ = <<>> THEN @ ELSE <<Last(@)>>]

-----------------------------------------------------------------------------
(* Commands that only read. *)

Echo(c, st) ==
    LET text == Join(c.words, <<Blank>>) IN
    Ok(st, IF "n" \in c.opts THEN text ELSE Append(text, NL))

Pwd(c, st) == Ok(st, Append(AbsWord(st.cwd), NL))
Env(c, st) ==
    Ok(st, Unlines([i \in DOMAIN SetToSeq(DOMAIN st.vars) |->
                        LET v == SetToSeq(DOMAIN st.vars)[i] IN <<v, "=">> \o st.vars[v]]))

(* A file in /bin reads as a stub that names the command. *)
Cat(c, st) ==
    LET Content(p) == IF IsVirtualBin(p) THEN <<"exec", Last(p), NL>> ELSE st.fs[p].text
        Shown(i) == IsVirtualBin(Path(c, st, i)) \/ IsFile(st.fs, Path(c, st, i))
    IN  IF \A i \in DOMAIN c.words : Shown(i)
        THEN Ok(st, IF c.words = <<>> THEN c.stdin
                    ELSE FlattenSeq([i \in DOMAIN c.words |-> Content(Path(c, st, i))]))
        ELSE Fail(st, 1)

(* text.split("\n")[:n]: a last line end makes one empty line more. *)
HeadText(n, text) == Unlines(SubSeq(Lines(text), 1, IF n < Len(Lines(text)) THEN n ELSE Len(Lines(text))))
HeadCmd(c, st) == Filter(OnlyLast(c), st, LAMBDA text : HeadText(c.n, text))

(* lines[-n:]: all of them when n is 0. *)
TailText(n, text) ==
    LET ls == SplitLines(text) IN
    Unlines(SubSeq(ls, IF n = 0 \/ n > Len(ls) THEN 1 ELSE Len(ls) - n + 1, Len(ls)))
TailCmd(c, st) == Filter(OnlyLast(c), st, LAMBDA text : TailText(c.n, text))

(* Lines, words and characters of one file or the input, and its name. *)
Counts(text) ==
    <<<<"l", Len(SelectSeq(text, LAMBDA x : x = NL))>>, <<"w", Len(Fields(text))>>, <<"c", Len(text)>>>>
Numbers(counts) == [i \in DOMAIN counts |-> <<ToString(counts[i][2])>>]
Wc(c, st) ==
    Filter(OnlyFirst(c), st, LAMBDA text :
        Append(Join(Numbers(SelectSeq(Counts(text), LAMBDA k : k[1] \in c.opts \/ c.opts = {}))
                        \o OnlyFirst(c).words, <<Blank>>), NL))

(* The lines of each file, or of the input, with the pattern or, inverted, *)
(* the others, among them the empty one behind the last line end; a hit    *)
(* brings n lines of context after it.                                     *)
Hits(c, ls) == {i \in DOMAIN ls : Contains(ls[i], Program(c)[1]) # ("v" \in c.opts)}

Found(c, ls, hits, prefix) ==
    IF "c" \in c.opts THEN <<<<ToString(Cardinality(hits))>>>>
    ELSE LET at == SetToSortSeq({k \in DOMAIN ls : \E h \in hits : k \in h..(h + c.n)}, <) IN
         [k \in DOMAIN at |-> prefix \o ls[at[k]]]

Grepped(c, st, files, texts) ==
    LET Prefix(i) == IF Len(files) > 1 THEN Append(files[i], ":") ELSE <<>> IN
    [Ok(st, Unlines(FlattenSeq([i \in DOMAIN texts |->
                Found(c, texts[i], Hits(c, texts[i]), Prefix(i))])))
        EXCEPT !.exit = IF \E i \in DOMAIN texts : Hits(c, texts[i]) # {} THEN 0 ELSE 1]

Grep(c, st) ==
    IF c.words = <<>> \/ ~Readable(Rest(c), st) THEN Fail(st, 2)
    ELSE Grepped(c, st, Tail(c.words),
                 IF Len(c.words) = 1 THEN <<Lines(c.stdin)>>
                 ELSE [i \in 1..(Len(c.words) - 1) |-> Lines(st.fs[Path(c, st, i + 1)].text)])

Rank(x) == CHOOSE i \in DOMAIN Alphabet : Alphabet[i] = x
Before(a, b) ==     \* a < b, as sequences of tokens
    \/ IsStrictPrefix(a, b)
    \/ \E i \in DOMAIN a \cap DOMAIN b :
           /\ Rank(a[i]) < Rank(b[i])
           /\ \A j \in 1..(i - 1) : a[j] = b[j]

(* Lines taken one by one, each put in behind those that are not greater. *)
Sorted(ls) ==
    FoldLeft(LAMBDA done, l :
                 LET n == Cardinality({i \in DOMAIN done : ~Before(l, done[i])})
                 IN  SubSeq(done, 1, n) \o <<l>> \o SubSeq(done, n + 1, Len(done)),
             <<>>, ls)

Deduped(ls) == FoldLeft(LAMBDA done, l : IF l \in ToSet(done) THEN done ELSE Append(done, l), <<>>, ls)

Sort(c, st) ==
    LET Ordered(ls) == IF "r" \in c.opts THEN Reverse(ls) ELSE ls
        Once(ls) == IF "u" \in c.opts THEN Deduped(ls) ELSE ls
    IN  Filter(c, st, LAMBDA text : Unlines(Once(Ordered(Sorted(SplitLines(text))))))

(* Adjacent equal lines, with how many there are. *)
Groups(ls) ==
    FoldLeft(LAMBDA gs, l : IF gs # <<>> /\ Last(gs)[1] = l
                            THEN Append(Front(gs), <<l, Last(gs)[2] + 1>>)
                            ELSE Append(gs, <<l, 1>>),
             <<>>, ls)

Uniq(c, st) ==
    LET Kept(g) == ("d" \in c.opts => g[2] > 1) /\ ("u" \in c.opts => g[2] = 1)
        Line(g) == IF "c" \in c.opts THEN <<ToString(g[2]), Blank>> \o g[1] ELSE g[1]
    IN  Filter(OnlyFirst(c), st, LAMBDA text :
            Unlines(EachLine(SelectSeq(Groups(SplitLines(text)), Kept), Line)))

(* Field n of every line; a line with fewer gives an empty one, or none.   *)
Cut(c, st) ==
    LET Kept(l) == "s" \in c.opts => Contains(l, Blank)
        Field(fs) == IF c.n \in DOMAIN fs THEN fs[c.n] ELSE <<>>
    IN  IF c.n = 0 THEN Fail(st, 1)
        ELSE Filter(c, st, LAMBDA text :
                 Unlines(EachLine(SelectSeq(SplitLines(text), Kept), LAMBDA l : Field(SplitAt(l, {Blank})))))

(* Deletes a token, squeezes it, or puts another in its place. *)
Tr(c, st) ==
    LET a == Program(c)[1]
        text == c.stdin
        Squeezed == FoldLeft(LAMBDA t, x : IF x = a /\ t # <<>> /\ Last(t) = a THEN t
                                           ELSE Append(t, x), <<>>, text)
    IN  CASE text = <<>> -> Ok(st, <<>>)
          [] text # <<>> /\ c.words = <<>> -> Fail(st, 1)
          [] OTHER ->
             IF "d" \in c.opts THEN Ok(st, SelectSeq(text, LAMBDA x : x # a))
             ELSE IF "s" \in c.opts THEN Ok(st, Squeezed)
             ELSE IF Len(c.words) < 2 THEN Fail(st, 1)
             ELSE Ok(st, Substituted(text, a, c.words[2][1]))

Rev(c, st) ==
    Filter(OnlyFirst(c), st, LAMBDA text : Unlines(EachLine(SplitLines(text), Reverse)))

(* Exit code 1 tells that two files differ. *)
Diff(c, st) ==
    LET Content(i) == SplitLines(st.fs[Path(c, st, i)].text) IN
    CASE Len(c.words) < 2 -> Fail(st, 1)
      [] Len(c.words) >= 2 /\ ~Readable([c EXCEPT !.words = SubSeq(@, 1, 2)], st) -> Fail(st, 1)
      [] OTHER -> IF Content(1) = Content(2) THEN Ok(st, <<>>)
                  ELSE [Ok(st, <<"differ", NL>>) EXCEPT !.exit = 1]

(* Which commands there are is asked of the table, not of the files. *)
Which(c, st) ==
    IF c.words # <<>> /\ \A i \in DOMAIN c.words : \E k \in Commands : c.words[i] = <<k>>
    THEN Ok(st, Unlines([i \in DOMAIN c.words |-> <<Slash, "bin">> \o c.words[i]]))
    ELSE [Fail(st, 1) EXCEPT !.err = IF c.words = <<>> /\ c.name # "which" THEN <<>> ELSE @]

(* Names only.  A path that is missing is no failure when another is there. *)
Ls(c, st) ==
    LET words == IF c.words = <<>> THEN <<<<>>>> ELSE c.words
        Names(w, ns) == (IF Len(words) > 1 THEN <<Append(w, ":")>> ELSE <<>>) \o [k \in DOMAIN ns |-> <<ns[k]>>]
        Shown(w, p) == CASE p \in VirtualDirs -> Names(w, SetToSeq(Commands))
                         [] p \notin VirtualDirs /\ IsDir(st.fs, p) -> Names(w, ListDir(st.fs, p))
                         [] p \notin VirtualDirs /\ IsFile(st.fs, p) -> <<w>>
                         [] OTHER -> <<>>
        missing == {i \in DOMAIN words : LET p == ResolvePath(st, words[i]) IN
                                         p \notin VirtualDirs /\ ~Exists(st.fs, p)}
        Listed(ls) == [st |-> st, exit |-> IF missing # {} /\ ls = <<>> THEN 1 ELSE 0, out |-> Unlines(ls),
                       err |-> IF missing = {} THEN <<>> ELSE <<Oops, NL>>]
    IN  Listed(FlattenSeq([i \in DOMAIN words |-> Shown(words[i], ResolvePath(st, words[i]))]))

(* The entries of the directory alone, all taken for files; with a name,   *)
(* those of that name.                                                     *)
Find(c, st) ==
    LET start == IF c.words = <<>> THEN <<Dot>> ELSE Program(c)
        p == ResolvePath(st, start)
        found == SelectSeq(IF IsDir(st.fs, p) /\ "d" \notin c.opts THEN ListDir(st.fs, p) ELSE <<>>,
                           LAMBDA name : Len(c.words) > 1 => c.words[2] = <<name>>)
    IN  Ok(st, Unlines([i \in DOMAIN found |->
            Append(IF p = Root THEN <<Slash>> ELSE start, found[i])]))

(* du -s: the sizes of the files below. *)
Du(c, st) ==
    LET p == IF c.words = <<>> THEN st.cwd ELSE Path(c, st, 1)
        size == MapThenSumSet(LAMBDA q : Len(st.fs[q].text), {q \in DOMAIN st.fs : Below(p, q)})
    IN  IF Exists(st.fs, p) THEN Ok(st, <<ToString(size), NL>>) ELSE Fail(st, 1)

-----------------------------------------------------------------------------
(* Commands that write. *)

Cd(c, st) ==
    LET p == IF c.words = <<>> THEN Root ELSE Path(c, st, 1) IN
    IF IsDir(st.fs, p) THEN Ok([st EXCEPT !.cwd = p], <<>>) ELSE Fail(st, 1)

(* An operation on one operand after the other, up to the first that fails. *)
Each(c, st, Op(_, _)) ==
    LET r == FoldLeft(LAMBDA r, i : IF r.ok THEN Op(r.fs, Path(c, st, i)) ELSE r,
                      Done(st.fs), [i \in DOMAIN c.words |-> i])
    IN  IF c.words # <<>> /\ r.ok THEN Ok(After(st, r), <<>>) ELSE Fail(After(st, r), 1)

MkdirCmd(c, st) == Each(c, st, LAMBDA fs, p : IF "p" \in c.opts THEN MkdirP(fs, p) ELSE Mkdir(fs, p))
RmdirCmd(c, st) == Each(c, st, Rmdir)

(* Directories stay, also with -r, which only hides that. *)
Rm(c, st) ==
    LET force == c.opts \cap {"r", "f"} # {} IN
    Each(c, st, LAMBDA fs, p : IF force THEN Done(RemoveFile(fs, p).fs) ELSE RemoveFile(fs, p))

(* Files that cannot be written are passed over. *)
Tee(c, st) ==
    LET r == FoldLeft(LAMBDA fs, i : WriteFile(fs, Path(c, st, i), c.stdin, "a" \in c.opts).fs,
                      st.fs, [i \in DOMAIN c.words |-> i])
    IN  Ok([st EXCEPT !.fs = r], c.stdin)

(* The destination is taken as it is, also a directory that exists. *)
Cp(c, st) ==
    LET r == Copy(st.fs, Path(c, st, 1), Path(c, st, 2)) IN
    IF Len(c.words) < 2 THEN Fail(st, 1)
    ELSE IF r.ok THEN Ok(After(st, r), <<>>) ELSE Fail(After(st, r), 1)

-----------------------------------------------------------------------------
(* Commands that read or copy first and write or remove in another step:   *)
(* the result of the first step, and what is left to do.                   *)

(* And ops, what the command does then: see NextOp.                        *)

Todo(do, p, text) == [do |-> do, path |-> p, text |-> text, ops |-> <<>>]
Nothing == Todo("nothing", Root, <<>>)
ToWrite(p, text) == Todo("write", p, text)
ToRemove(p) == Todo("remove", p, <<>>)
Then(result, todo) == [result |-> result, todo |-> todo]

Finish(fs, todo) ==
    CASE todo.do = "write" -> WriteFile(fs, todo.path, todo.text, FALSE).fs
      [] todo.do = "unlink" -> RemoveFile(fs, todo.path).fs
      [] todo.do = "remove" -> IF RemoveFile(fs, todo.path).ok THEN RemoveFile(fs, todo.path).fs
                               ELSE Rmdir(fs, todo.path).fs
      [] todo.do = "nothing" -> fs

(* The first of several operations, [type, path, diff], of touch or        *)
(* apply_patch, after the result so far: it reads, and then there is its   *)
(* write and what comes behind.  One that fails is passed over.            *)
RECURSIVE NextOp(_, _)
NextOp(r, ops) ==
    LET op == Head(ops)
        fs == r.st.fs
        p == ResolvePath(r.st, op.path)
        parents == MkdirP(fs, IF p = Root THEN Root ELSE Front(p))
        updated == ApplyV4ADiff(fs[p].text, op.diff)
        Begin(st, todo) == Then([r EXCEPT !.st = st], [todo EXCEPT !.ops = Tail(ops)])
    IN  CASE ops = <<>> -> Then(r, Nothing)
          [] ops # <<>> /\ op.type = "touch" ->
                IF IsFile(fs, p) THEN NextOp(r, Tail(ops)) ELSE Begin(r.st, ToWrite(p, <<>>))
          [] ops # <<>> /\ op.type = "add" /\ ~IsFile(fs, p) /\ CreateV4A(op.diff).ok ->
                Begin(After(r.st, parents), ToWrite(p, CreateV4A(op.diff).text))
          [] ops # <<>> /\ op.type = "update" /\ IsFile(fs, p) /\ updated.ok ->
                Begin(r.st, ToWrite(p, updated.text))
          [] ops # <<>> /\ op.type = "delete" /\ IsFile(fs, p) ->
                Begin(r.st, Todo("unlink", p, <<>>))
          [] OTHER -> NextOp([r EXCEPT !.exit = 1], Tail(ops))

(* The second step, and the first one of what comes behind. *)
Further(r, todo) == NextOp([r EXCEPT !.st.fs = Finish(@, todo)], todo.ops)

RECURSIVE Whole(_)
Whole(begun) ==
    IF begun.todo = Nothing THEN begun.result ELSE Whole(Further(begun.result, begun.todo))

TouchBegin(c, st) ==
    IF c.words = <<>> THEN Then(Fail(st, 1), Nothing)
    ELSE NextOp(Ok(st, <<>>), [i \in DOMAIN c.words |->
                                  [type |-> "touch", path |-> c.words[i], diff |-> <<>>]])

(* Operations on files one after the other, also behind one that failed.   *)
(* That a new file cannot be written is passed over.                       *)
ApplyPatch(c, st) ==
    IF c.ops = <<>> THEN Then(Fail(st, 1), Nothing)
    ELSE NextOp(Ok(st, <<"applied", NL>>), c.ops)

(* A copy, and then the file or the directory, if it is empty, is removed. *)
MvBegin(c, st) ==
    LET r == Copy(st.fs, Path(c, st, 1), Path(c, st, 2)) IN
    IF Len(c.words) < 2 THEN Then(Fail(st, 1), Nothing)
    ELSE IF r.ok THEN Then(Ok(After(st, r), <<>>), ToRemove(Path(c, st, 1)))
    ELSE Then(Fail(After(st, r), 1), Nothing)

(* s/old/new/ on a file or the input, everywhere (g) or once. *)
SedBegin(c, st) ==
    LET old == Program(c)[1]
        text == Input(Rest(c), st)
        out == IF "g" \in c.opts THEN Substituted(text, old, Program(c)[2])
               ELSE LET i == SelectInSeq(text, LAMBDA x : x = old) IN
                    IF i = 0 THEN text ELSE ReplaceAt(text, i, Program(c)[2])
    IN  CASE c.words = <<>> \/ (Len(c.words) = 1 /\ c.stdin = <<>>) -> Then(Fail(st, 1), Nothing)
          [] Len(c.words) > 1 /\ ~Readable(Rest(c), st) -> Then(Fail(st, 1), Nothing)
          [] OTHER -> IF "i" \in c.opts /\ Len(c.words) > 1
                      THEN Then(Ok(st, <<>>), ToWrite(Path(c, st, 2), out))
                      ELSE Then(Ok(st, out), Nothing)

(* edit <file> with --create, --insert n, or --old and --new; with none of *)
(* them, or --diff, it only reads.                                         *)
EditBegin(c, st) ==
    LET p == Path(c, st, 1)
        text == st.fs[p].text
        parents == MkdirP(st.fs, IF p = Root THEN Root ELSE Front(p))
        Begin(r) == IF ~r.ok THEN Then(Fail(st, 1), Nothing)
                    ELSE Then(Ok(st, <<p, NL>>),
                              IF "diff" \in c.opts THEN Nothing ELSE ToWrite(p, r.text))
    IN  CASE "create" \in c.opts ->
                IF IsFile(st.fs, p) THEN Then(Fail(st, 1), Nothing)
                ELSE Then(Ok(After(st, parents), <<p, NL>>), ToWrite(p, c.words[2]))
          [] "create" \notin c.opts /\ ~IsFile(st.fs, p) -> Then(Fail(st, 1), Nothing)
          [] "insert" \in c.opts /\ IsFile(st.fs, p) -> Begin(Insert(text, c.n, c.words[2]))
          [] "replace" \in c.opts /\ IsFile(st.fs, p) ->
                Begin(StrReplace(text, c.words[2], c.words[3]))
          [] OTHER -> Then(Ok(st, text), Nothing)

-----------------------------------------------------------------------------
(* Small ones. *)

Nl(c, st) ==
    LET Numbered(ls) ==
            [i \in DOMAIN ls |->
                IF Fields(ls[i]) = <<>> THEN ls[i]
                ELSE <<ToString(Cardinality({k \in 1..i : Fields(ls[k]) # <<>>})), Blank>> \o ls[i]]
    IN  Filter(c, st, LAMBDA text : Unlines(Numbered(SplitLines(text))))

Seq1(c, st) == Ok(st, Unlines([i \in 1..c.n |-> <<ToString(i)>>]))

Basename(c, st) ==
    IF c.words = <<>> THEN Fail(st, 1)
    ELSE Ok(st, IF c.words[1] \in {<<>>, <<Slash>>} THEN <<NL>> ELSE <<Last(c.words[1]), NL>>)
Dirname(c, st) ==
    LET Up(w) == CASE w = <<Slash>> -> w
                   [] Len(w) < 2 /\ w # <<Slash>> -> <<Dot>>
                   [] OTHER -> Front(w)
    IN  IF c.words = <<>> THEN Fail(st, 1)
        ELSE Ok(st, Unlines([i \in DOMAIN c.words |-> Up(c.words[i])]))
Realpath(c, st) ==
    IF c.words = <<>> THEN Fail(st, 1)
    ELSE Ok(st, Unlines([i \in DOMAIN c.words |-> AbsWord(Path(c, st, i))]))

(* A new file, or directory, of a name that is new, in /tmp. *)
Mktemp(c, st) ==
    LET p == Path(c, st, 1)
        parents == MkdirP(st.fs, IF "d" \in c.opts \/ p = Root THEN p ELSE Front(p))
        made == IF "d" \in c.opts THEN parents ELSE WriteFile(parents.fs, p, <<>>, FALSE)
    IN  Ok(After(st, made), Append(AbsWord(p), NL))

FileCmd(c, st) ==
    LET Kind(p) == CASE IsVirtualBin(p) -> "executable"
                     [] ~IsVirtualBin(p) /\ IsDir(st.fs, p) -> "directory"
                     [] ~IsVirtualBin(p) /\ IsFile(st.fs, p) -> "text"
                     [] OTHER -> "missing"
    IN  IF c.words = <<>> THEN Fail(st, 1)
        ELSE Ok(st, Unlines([i \in DOMAIN c.words |-> Append(c.words[i], Kind(Path(c, st, i)))]))

(* Those that do nothing (test and [ too: every condition is true), those  *)
(* that print one text of their own, and those that refuse.                *)
NoOps == {"true", "test", "[", "chmod", "chown", "sleep", "kill", "jobs", "lsof"}
Told == {"uuidgen", "ps", "whoami", "id", "hostname", "uname", "uptime", "free"}
Refused == {"curl", "wget", "ln", "man"}

-----------------------------------------------------------------------------
(* The table of builtins. *)

Simple(c, st) ==
    CASE c.name = "echo" -> Echo(c, st)
      [] c.name = "pwd" -> Pwd(c, st)
      [] c.name = "env" -> Env(c, st)
      [] c.name = "cat" -> Cat(c, st)
      [] c.name = "head" -> HeadCmd(c, st)
      [] c.name = "tail" -> TailCmd(c, st)
      [] c.name = "wc" -> Wc(c, st)
      [] c.name = "grep" -> Grep(c, st)
      [] c.name = "sort" -> Sort(c, st)
      [] c.name = "uniq" -> Uniq(c, st)
      [] c.name = "cut" -> Cut(c, st)
      [] c.name = "tr" -> Tr(c, st)
      [] c.name = "rev" -> Rev(c, st)
      [] c.name = "nl" -> Nl(c, st)
      [] c.name = "diff" -> Diff(c, st)
      [] c.name \in {"which", "command", "type"} -> Which(c, st)
      [] c.name = "ls" -> Ls(c, st)
      [] c.name = "find" -> Find(c, st)
      [] c.name = "du" -> Du(c, st)
      [] c.name = "cd" -> Cd(c, st)
      [] c.name = "mkdir" -> MkdirCmd(c, st)
      [] c.name = "rmdir" -> RmdirCmd(c, st)
      [] c.name = "rm" -> Rm(c, st)
      [] c.name = "tee" -> Tee(c, st)
      [] c.name = "cp" -> Cp(c, st)
      [] c.name = "seq" -> Seq1(c, st)
      [] c.name = "basename" -> Basename(c, st)
      [] c.name = "dirname" -> Dirname(c, st)
      [] c.name = "realpath" -> Realpath(c, st)
      [] c.name = "mktemp" -> Mktemp(c, st)
      [] c.name = "file" -> FileCmd(c, st)
      [] c.name \in NoOps -> Ok(st, <<>>)
      [] c.name \in Told -> Ok(st, <<c.name, NL>>)
      [] c.name = "false" -> [Ok(st, <<>>) EXCEPT !.exit = 1]
      [] c.name \in Refused -> Fail(st, 1)
      [] OTHER -> Fail(st, 127)

Begun(c, st) ==
    CASE c.name = "touch" -> TouchBegin(c, st)
      [] c.name = "mv" -> MvBegin(c, st)
      [] c.name = "sed" -> SedBegin(c, st)
      [] c.name = "edit" -> EditBegin(c, st)
      [] c.name = "apply_patch" -> ApplyPatch(c, st)
      [] OTHER -> Then(Simple(c, st), Nothing)

Builtin(c, st) == Whole(Begun(c, st))
=============================================================================
