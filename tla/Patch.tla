--------------------------------- MODULE Patch ---------------------------------
(***************************************************************************)
(* Editing of a text: search.py, patcher.py and v4a.py of box/patch, pure  *)
(* functions on strings.  A text is a sequence of tokens, of which NL ends *)
(* a line; a line's Blank tokens in front are its indentation, a line that *)
(* begins with Hash is a comment, and Fancy is a quotation mark that a     *)
(* model may have written in place of Quote.                               *)
(*                                                                         *)
(* The time and evaluation budgets of the fuzzy search are left out: texts *)
(* are far smaller than they allow.                                        *)
(***************************************************************************)
EXTENDS Integers, SequencesExt

CONSTANTS NL, Blank, Hash, Quote, Fancy

-----------------------------------------------------------------------------
(* Lines. *)

SplitAt(text, ends) ==
    FoldLeft(LAMBDA parts, x : IF x \in ends THEN Append(parts, <<>>)
                               ELSE Append(Front(parts), Append(Last(parts), x)),
             <<<<>>>>, text)

(* text.split("\n"): one line more than line ends. *)
Lines(text) == SplitAt(text, {NL})

(* text.splitlines(): no last empty line. *)
NoEmptyLast(ls) == IF Last(ls) = <<>> THEN Front(ls) ELSE ls
SplitLines(text) == NoEmptyLast(Lines(text))

(* text.splitlines(keepends=True) *)
KeepEnds(text) ==
    LET ls == Lines(text) IN
    [i \in DOMAIN SplitLines(text) |-> IF i < Len(ls) THEN Append(ls[i], NL) ELSE ls[i]]
Ended(text) == IF text = <<>> \/ Last(text) = NL THEN text ELSE Append(text, NL)

Join(parts, sep) ==
    FoldLeft(LAMBDA t, i : t \o (IF i = 1 THEN <<>> ELSE sep) \o parts[i],
             <<>>, [i \in DOMAIN parts |-> i])

Unlines(ls) == FlattenSeq([i \in DOMAIN ls |-> Append(ls[i], NL)])

Rstrip(l) == SubSeq(l, 1, SelectLastInSeq(l, LAMBDA x : x # Blank))
Lstrip(l) == SubSeq(l, Min({Len(l) + 1} \cup {i \in DOMAIN l : l[i] # Blank}), Len(l))
Strip(l) == Lstrip(Rstrip(l))
Substituted(text, x, y) == [i \in DOMAIN text |-> IF text[i] = x THEN y ELSE text[i]]
Normalise(l) == Substituted(Strip(l), Fancy, Quote)
Indent(l) == Len(l) - Len(Lstrip(l))

IsCommentOrBlank(l) == Strip(l) = <<>> \/ Head(Lstrip(l)) = Hash

-----------------------------------------------------------------------------
(* Finding lines: four ways of looking at a line, each laxer than the one  *)
(* before it.                                                              *)

Seen(tier, l) ==
    CASE tier = 1 -> l
      [] tier = 2 -> Rstrip(l)
      [] tier = 3 -> Strip(l)
      [] tier = 4 -> Normalise(l)

Window(ls, i, n) == SubSeq(ls, i, i + n - 1)

Matches(tier, ls, pattern, start) ==
    {i \in start..(Len(ls) - Len(pattern) + 1) :
        \A j \in DOMAIN pattern : Seen(tier, ls[i + j - 1]) = Seen(tier, pattern[j])}

(* The first match of the strictest tier that has one; 0 is none. *)
FirstMatch(tiers, ls, pattern, start) ==
    LET hit == {k \in 1..tiers : Matches(k, ls, pattern, start) # {}} IN
    IF hit = {} THEN 0 ELSE Min(Matches(Min(hit), ls, pattern, start))

FindLines(ls, pattern) == IF pattern = <<>> THEN 1 ELSE FirstMatch(4, ls, pattern, 1)
CountMatches(ls, pattern) ==
    IF pattern = <<>> THEN 0 ELSE Cardinality(UNION {Matches(k, ls, pattern, 1) : k \in 2..4})

-----------------------------------------------------------------------------
(* difflib.SequenceMatcher: the pairs of positions that it matches, from   *)
(* the longest block outwards.                                             *)

Blocks(a, b) ==
    {c \in [a : 1..Len(a), b : 1..Len(b), len : 1..Len(a)] :
        /\ c.a + c.len - 1 <= Len(a) /\ c.b + c.len - 1 <= Len(b)
        /\ Window(a, c.a, c.len) = Window(b, c.b, c.len)}

Longest(blocks) ==
    CHOOSE c \in blocks : \A d \in blocks :
        \/ c.len > d.len
        \/ c.len = d.len /\ c.a < d.a
        \/ c.len = d.len /\ c.a = d.a /\ c.b <= d.b

Shifted(pairs, i, j) == [k \in DOMAIN pairs |-> <<pairs[k][1] + i, pairs[k][2] + j>>]

RECURSIVE Matching(_, _), Around(_, _, _)
Matching(a, b) == IF Blocks(a, b) = {} THEN <<>> ELSE Around(a, b, Longest(Blocks(a, b)))
Around(a, b, c) ==
    Matching(SubSeq(a, 1, c.a - 1), SubSeq(b, 1, c.b - 1))
    \o Shifted([k \in 1..c.len |-> <<k, k>>], c.a - 1, c.b - 1)
    \o Shifted(Matching(SubSeq(a, c.a + c.len, Len(a)), SubSeq(b, c.b + c.len, Len(b))),
               c.a + c.len - 1, c.b + c.len - 1)

(* ratio(), in percent *)
Ratio(a, b) ==
    IF a = <<>> /\ b = <<>> THEN 100 ELSE (200 * Len(Matching(a, b))) \div (Len(a) + Len(b))

-----------------------------------------------------------------------------
(* The fuzzy search. *)

EachLine(ls, F(_)) == [i \in DOMAIN ls |-> F(ls[i])]
Code(ls) == {Normalise(ls[i]) : i \in {k \in DOMAIN ls : ~IsCommentOrBlank(ls[k])}}

(* A line of code weighs ten times one of comment. *)
Weight(l) == IF IsCommentOrBlank(l) THEN 100 ELSE 1000

(* Where the lines of a gap are paired one by one, line j's partner; 0 is  *)
(* none.                                                                   *)
Partner(pairs, len, j) ==
    LET before == {p \in ToSet(pairs) : p[2] < j}
        after == {p \in ToSet(pairs) : p[2] > j}
        i == Max({0} \cup {p[1] : p \in before}) + j - Max({0} \cup {p[2] : p \in before})
    IN  IF i < Min({len + 1} \cup {p[1] : p \in after}) THEN i ELSE 0

(* What line b gains from line a in its place. *)
Likeness(a, b) ==
    IF IsCommentOrBlank(b) THEN Ratio(a, b)
    ELSE IF Normalise(a) = Normalise(b) THEN Weight(b) ELSE 0

(* What chunk gains of the pattern's weight.  Lines that only the chunk    *)
(* has cost nothing.                                                       *)
Gain(a, b, pairs) ==
    MapThenSumSet(LAMBDA j :
        IF \E p \in ToSet(pairs) : p[2] = j THEN Weight(b[j])
        ELSE LET i == Partner(pairs, Len(a), j) IN IF i = 0 THEN 0 ELSE Likeness(a[i], b[j]),
        DOMAIN b)

GainOf(a, b) == Gain(a, b, Matching(a, b))
SmartScore(chunk, pattern) ==
    IF /\ Cardinality({j \in DOMAIN pattern : ~IsCommentOrBlank(pattern[j])}) >= 3
       /\ Code(chunk) \cap Code(pattern) = {}
    THEN 0 ELSE GainOf(EachLine(chunk, Strip), EachLine(pattern, Strip))

(* The windows, [at, len], that the search accepts. *)
FuzzyMatches(ls, pattern) ==
    LET n == Len(pattern)
        low == IF n = 1 THEN 1 ELSE (7 * n) \div 10
        total == MapThenSumSet(LAMBDA j : Weight(pattern[j]), DOMAIN pattern)
    IN  {w \in [at : DOMAIN ls, len : low..((13 * n + 9) \div 10)] :
            /\ w.at + w.len - 1 <= Len(ls)
            /\ Cardinality(Code(Window(ls, w.at, w.len)) \cap Code(pattern)) >= 2
            /\ Ratio(EachLine(Window(ls, w.at, w.len), Normalise), EachLine(pattern, Normalise)) > 60
            /\ 10 * SmartScore(Window(ls, w.at, w.len), pattern) >= 9 * total}

(* The best of them; of equals those as long as the pattern come first,    *)
(* then shorter ones, and then the first in the text.                      *)
Best(ws, score, n) ==
    LET Length(w) == IF w.len = n THEN 0 ELSE w.len IN
    CHOOSE w \in ws : \A v \in ws :
        \/ score[w] > score[v]
        \/ score[w] = score[v] /\ Length(w) < Length(v)
        \/ score[w] = score[v] /\ Length(w) = Length(v) /\ w.at <= v.at

FuzzyFind(ls, pattern, ws) ==
    Best(ws, [w \in ws |-> SmartScore(Window(ls, w.at, w.len), pattern)], Len(pattern))

-----------------------------------------------------------------------------
(* str_replace and insert. *)

Occurrences(text, old) ==
    {i \in 1..(Len(text) - Len(old) + 1) : Window(text, i, Len(old)) = old}

Spliced(s, i, n, new) == SubSeq(s, 1, i - 1) \o new \o SubSeq(s, i + n, Len(s))

(* New lines are moved by as much as the first old line is off. *)
Indented(ls, old, new, i) ==
    LET offset == IF Strip(ls[i]) # <<>> /\ Strip(old[1]) # <<>>
                  THEN Indent(ls[i]) - Indent(old[1]) ELSE 0
        Moved(l) ==
            CASE Strip(l) = <<>> -> l
              [] Strip(l) # <<>> /\ offset >= 0 -> [k \in 1..offset |-> Blank] \o l
              [] Strip(l) # <<>> /\ offset < 0 ->
                    SubSeq(l, 1 + (IF -offset < Indent(l) THEN -offset ELSE Indent(l)), Len(l))
    IN  EachLine(new, Moved)

Edited(text) == [ok |-> TRUE, text |-> text]
NotEdited == [ok |-> FALSE, text |-> <<>>]

(* The tiers, each tried when the one before found nothing: the text       *)
(* itself, ...                                                             *)
ReplaceExact(text, old, new, there) ==
    IF \E i, j \in there : i < j /\ j >= i + Len(old) THEN NotEdited
    ELSE Edited(Spliced(text, Min(there), Len(old), new))

(* ... lines, found at i, ... *)
ReplaceLines(ls, pattern, new, i) ==
    IF CountMatches(ls, pattern) > 1 THEN NotEdited
    ELSE Edited(Append(Join(Spliced(ls, i, Len(pattern), Indented(ls, pattern, new, i)), <<NL>>), NL))

(* ... and the best of the windows that are like the pattern. *)
ReplaceFuzzy(ls, new, ws, best, end) ==
    IF ws = {} THEN NotEdited
    ELSE Edited(Join(Spliced(ls, best.at, best.len, new), <<NL>>) \o end)

(* Lines that differ by their indentation alone are found as lines already, *)
(* so _try_indent_offset never has anything to do.  The last resort, a     *)
(* match by syntax trees, is not modelled: its library is optional.        *)
ReplaceByLine(ls, pattern, new, i, ws, end) ==
    IF i # 0 THEN ReplaceLines(ls, pattern, new, i)
    ELSE ReplaceFuzzy(ls, new, ws, FuzzyFind(ls, pattern, ws), end)

StrReplace(text, old, new) ==
    LET ls == SplitLines(text)
        pattern == SplitLines(old)
        end == IF text # <<>> /\ Last(text) = NL THEN <<NL>> ELSE <<>>
    IN  IF old = new THEN NotEdited
        ELSE IF Occurrences(text, old) # {} THEN ReplaceExact(text, old, new, Occurrences(text, old))
        ELSE ReplaceByLine(ls, pattern, SplitLines(new), FindLines(ls, pattern),
                           FuzzyMatches(ls, pattern), end)

(* Behind line n. *)
Insert(text, n, new) ==
    IF n > Len(KeepEnds(text)) THEN NotEdited
    ELSE Edited(FlattenSeq(Spliced(KeepEnds(text), n + 1, 0, KeepEnds(Ended(new)))))

-----------------------------------------------------------------------------
(* V4A diffs.  A line of a diff is [op, line]: op is " ", "-" or "+", "@@" *)
(* with the anchor (an empty one is none), "eof" for the end of the file,  *)
(* or anything else, which is malformed.  A cursor is the number of lines  *)
(* that are passed.                                                        *)

Applied(lines) == [ok |-> TRUE, lines |-> lines]
Malformed == [ok |-> FALSE, lines |-> <<>>]

(* Behind the next line like the anchor, unless there is one before it. *)
AdvanceCursorToAnchor(anchor, lines, cursor) ==
    LET Ahead(tier) ==
            IF \E i \in 1..cursor : Seen(tier, lines[i]) = Seen(tier, anchor) THEN {}
            ELSE {i \in (cursor + 1)..Len(lines) : Seen(tier, lines[i]) = Seen(tier, anchor)}
        tiers == {tier \in {1, 3} : Ahead(tier) # {}}
    IN  IF Strip(anchor) = <<>> \/ tiers = {} THEN cursor ELSE Min(Ahead(Min(tiers)))

(* The lines a section is to be found by, and its changes: at which of     *)
(* those, the lines that go and the lines that come.                       *)
ReadSection(section) ==
    LET Flush(s) == IF s.del \o s.ins = <<>> THEN s
                    ELSE [s EXCEPT !.chunks = Append(@, [at |-> Len(s.context) - Len(s.del),
                                                         del |-> s.del, ins |-> s.ins]),
                                   !.del = <<>>, !.ins = <<>>]
        Read(s, d) == CASE d.op = " " -> LET f == Flush(s) IN [f EXCEPT !.context = Append(@, d.line)]
                        [] d.op = "-" -> [s EXCEPT !.context = Append(@, d.line),
                                                   !.del = Append(@, d.line)]
                        [] d.op = "+" -> [s EXCEPT !.ins = Append(@, d.line)]
    IN  Flush(FoldLeft(Read, [context |-> <<>>, del |-> <<>>, ins |-> <<>>, chunks |-> <<>>], section))

FindContextCore(lines, context, start) ==
    IF context = <<>> THEN start ELSE FirstMatch(3, lines, context, start + 1) - 1

(* Slip: searched from the top of the file, also behind another section. *)
FindContext_FromTop(lines, context, start, eof) == FindContextCore(lines, context, 0)

(* At the end of the file first when the diff says so; -1 is nowhere. *)
FindContext(lines, context, start, eof) ==
    LET end == IF Len(context) < Len(lines) THEN Len(lines) - Len(context) ELSE 0
        At(from) == FindContextCore(lines, context, from)
    IN  At(IF eof /\ At(end) # -1 THEN end ELSE start)

(* A section, found behind the line `at`, or not at all, and the sections  *)
(* before it.                                                              *)
Placed(sections, s, at) ==
    [ok |-> at # -1,
     passed |-> at + Len(s.context),
     chunks |-> sections.chunks \o [k \in DOMAIN s.chunks |-> [s.chunks[k] EXCEPT !.at = @ + at]]]

Section(sections, s, lines, cursor, eof) ==
    Placed(sections, s, FindContext(lines, s.context, cursor, eof))

(* The sections, [ok, passed, chunks], and behind them those of the diff. *)
RECURSIVE ParseUpdateDiff(_, _, _)
ParseUpdateDiff(diff, lines, sections) ==
    LET anchored == Head(diff).op = "@@"
        rest == IF anchored THEN Tail(diff) ELSE diff
        n == Min({Len(rest) + 1} \cup {i \in DOMAIN rest : rest[i].op \notin {" ", "-", "+"}})
        eof == n \in DOMAIN rest /\ rest[n].op = "eof"
        broken == n \in DOMAIN rest /\ rest[n].op \notin {"eof", "@@"}
        cursor == IF anchored THEN AdvanceCursorToAnchor(Head(diff).line, lines, sections.passed)
                  ELSE sections.passed
    IN  IF ~sections.ok \/ diff = <<>> \/ Head(diff).op = "eof" THEN sections
        ELSE IF (~anchored /\ sections.passed # 0) \/ broken \/ (n = 1 /\ ~eof)
        THEN [sections EXCEPT !.ok = FALSE]
        ELSE ParseUpdateDiff(SubSeq(rest, IF eof THEN n + 1 ELSE n, Len(rest)), lines,
                             Section(sections, ReadSection(SubSeq(rest, 1, n - 1)), lines, cursor, eof))

(* Chunks are in order and do not overlap, or it fails. *)
ApplyChunks(lines, chunks) ==
    LET Do(s, ch) ==
            IF ~s.ok \/ ch.at > Len(lines) \/ s.cursor > ch.at THEN [s EXCEPT !.ok = FALSE]
            ELSE [ok |-> TRUE, lines |-> s.lines \o SubSeq(lines, s.cursor + 1, ch.at) \o ch.ins,
                  cursor |-> ch.at + Len(ch.del)]
        End(done) == IF done.ok THEN Applied(done.lines \o SubSeq(lines, done.cursor + 1, Len(lines)))
                     ELSE Malformed
    IN  End(FoldLeft(Do, [ok |-> TRUE, lines |-> <<>>, cursor |-> 0], chunks))

ApplySections(lines, parsed) == IF parsed.ok THEN ApplyChunks(lines, parsed.chunks) ELSE Malformed

ApplyV4ADiff(text, diff) ==
    LET Written(r) == IF r.ok THEN Edited(Join(r.lines, <<NL>>)) ELSE NotEdited
        lines == Lines(text)
    IN  Written(ApplySections(lines,
            ParseUpdateDiff(diff, lines, [ok |-> TRUE, passed |-> 0, chunks |-> <<>>])))

(* A new file: added lines only, and no end of the last one. *)
CreateV4A(diff) ==
    IF \A i \in DOMAIN diff : diff[i].op = "+"
    THEN Edited(Join([i \in DOMAIN diff |-> diff[i].line], <<NL>>))
    ELSE NotEdited
=============================================================================
