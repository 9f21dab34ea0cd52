--------------------------------- MODULE MemFS ---------------------------------
(***************************************************************************)
(* The file system of a page (Emscripten's MEMFS) as box/memfs/memfs.py    *)
(* uses it: a function from paths to nodes.  Every operation is a single   *)
(* page.evaluate(), so it is one step.                                     *)
(*                                                                         *)
(* A path is the sequence of its names, the root is <<>>; a text is a      *)
(* sequence of tokens, one of which ends a line.  A directory lists its    *)
(* entries in one fixed order.  An operation returns the file system after *)
(* it and whether it succeeded.                                            *)
(***************************************************************************)
EXTENDS Naturals, SequencesExt

Dir == [dir |-> TRUE, text |-> <<>>]
File(text) == [dir |-> FALSE, text |-> text]

Root == <<>>
Exists(fs, p) == p \in DOMAIN fs
IsDir(fs, p) == Exists(fs, p) /\ fs[p].dir
IsFile(fs, p) == Exists(fs, p) /\ ~fs[p].dir
Entries(fs, p) == {q \in DOMAIN fs : q # Root /\ Front(q) = p}

(* p is p itself or below it. *)
Below(p, q) == IsPrefix(p, q)

Done(fs) == [ok |-> TRUE, fs |-> fs]
Error(fs) == [ok |-> FALSE, fs |-> fs]

Put(fs, p, node) == [q \in DOMAIN fs \cup {p} |-> IF q = p THEN node ELSE fs[q]]
Drop(fs, p) == [q \in DOMAIN fs \ {p} |-> fs[q]]

(* A node can be made at p. *)
MayHold(fs, p) == p # Root /\ IsDir(fs, Front(p))

(* The names in a directory. *)
ListDir(fs, p) == SetToSeq({Last(q) : q \in Entries(fs, p)})

WriteFile(fs, p, text, append) ==
    CASE IsFile(fs, p) ->
            Done(Put(fs, p, File(IF append THEN fs[p].text \o text ELSE text)))
      [] ~Exists(fs, p) /\ MayHold(fs, p) -> Done(Put(fs, p, File(text)))
      [] OTHER -> Error(fs)

Mkdir(fs, p) ==
    IF ~Exists(fs, p) /\ MayHold(fs, p) THEN Done(Put(fs, p, Dir)) ELSE Error(fs)

(* What cannot be made is passed over. *)
MkdirP(fs, p) ==
    Done(FoldLeft(LAMBDA g, n : Mkdir(g, SubSeq(p, 1, n)).fs, fs, [n \in 1..Len(p) |-> n]))

Rmdir(fs, p) ==
    IF IsDir(fs, p) /\ p # Root /\ Entries(fs, p) = {} THEN Done(Drop(fs, p)) ELSE Error(fs)

RemoveFile(fs, p) == IF IsFile(fs, p) THEN Done(Drop(fs, p)) ELSE Error(fs)

(* A directory that is there already is filled (EEXIST is no error, of a   *)
(* file neither); the first error ends it, what was copied stays.  Nobody  *)
(* copies a directory into itself, which in the code never ends.           *)
RECURSIVE Copy(_, _, _)
Copy(fs, src, dst) ==
    CASE ~Exists(fs, src) -> Error(fs)
      [] IsDir(fs, src) ->
            LET made == IF Exists(fs, dst) THEN Done(fs) ELSE Mkdir(fs, dst)
                Entry(r, name) == IF r.ok THEN Copy(r.fs, Append(src, name), Append(dst, name))
                                  ELSE r
            IN  FoldLeft(Entry, made, IF made.ok THEN ListDir(fs, src) ELSE <<>>)
      [] OTHER -> WriteFile(fs, dst, fs[src].text, FALSE)
=============================================================================
