-------------------------------- MODULE GitRepo --------------------------------
(***************************************************************************)
(* The git command of a sandbox (box/git/builtin_git.py): one repository,  *)
(* on which isomorphic-git works inside the page.  A command is a script   *)
(* of a few awaited calls of that library; each of them is one step here,  *)
(* and the scripts of two callers may interleave, as nothing keeps them    *)
(* apart.  What the library's calls do is taken from how the scripts use   *)
(* them.                                                                   *)
(*                                                                         *)
(* A branch is a file in .git/refs/heads, but the library looks up a name   *)
(* in .git first: once a merge --continue has left a file .git/main there,  *)
(* main is what that file says to every command that resolves the name.     *)
(*                                                                         *)
(* A tree is a function from the files to their contents or None.  Commits *)
(* are numbered; commit 0 is that of a branch without any.                 *)
(***************************************************************************)
EXTENDS Naturals, Sequences, FiniteSetsExt

CONSTANTS
    Files, Contents, Branches, Main, Callers,
    Starts,         \* repositories that earlier commands have made: [commits, refs, shadow]
    None,           \* no file, no branch
    Marked,         \* a file with conflict markers
    Unmerged,       \* an entry of the index that is in conflict
    MaxCommits,     \* bound on the commits
    MaxCalls        \* bound on the commands and edits

Trees == [Files -> Contents \cup {None, Marked, Unmerged}]

(* Commits are numbered as they are made: [parents, tree, from], where     *)
(* from has their ancestors, with themselves and 0, the lack of a commit.  *)
WellMade(log) ==
    /\ log \in Seq([parents : Seq(Nat), tree : Trees, from : SUBSET Nat])
    /\ \A i \in DOMAIN log :
         /\ {0, i} \subseteq log[i].from /\ log[i].from \subseteq 0..i
         /\ \A a \in log[i].from \ {0} : log[a].from \subseteq log[i].from

ASSUME ConstantsAssumption ==
    /\ Main \in Branches /\ None \notin Branches /\ Branches \cap Nat = {}
    /\ MaxCommits \in Nat /\ MaxCalls \in Nat
    /\ \A start \in Starts :
         /\ WellMade(start.commits)
         /\ Main \in DOMAIN start.refs /\ DOMAIN start.refs \subseteq Branches
         /\ \A b \in DOMAIN start.refs : start.refs[b] \in 0..Len(start.commits)
         /\ DOMAIN start.shadow \subseteq Branches
         /\ \A b \in DOMAIN start.shadow : start.shadow[b] \in 1..Len(start.commits)

VARIABLES
    commits,        \* their parents, trees and ancestors
    refs,           \* the branches' commits
    shadow,         \* files .git/<branch>, which are read before the branch
    head,           \* the current branch, or the number of a commit
    index, work,    \* trees
    mergeBranch,    \* AGENTBOX_MERGE_BRANCH
    calls,          \* what the callers' commands have still to do
    steps,          \* how much was begun
    overtaken,      \* branches a --continue wrote that were not where it took them from
    behind,         \* the index missed a step of HEAD
    staged,         \* files that were added, removed or marked since HEAD had them
    merged          \* what a command said it merged: [branch, tip, into]

repo == <<commits, refs, shadow, head, index, work>>
recorded == <<merged, overtaken, behind>>
noted == <<staged, recorded>>
vars == <<repo, mergeBranch, calls, steps, noted>>

NoTree == [f \in Files |-> None]

Idle == [do |-> "idle"]

-----------------------------------------------------------------------------
(* Commits. *)

TreeOf(id) == IF id = 0 THEN NoTree ELSE commits[id].tree
Ancestors(id) == IF id = 0 THEN {0} ELSE commits[id].from

(* The current branch is undefined when HEAD is detached. *)
OnBranch == head \in DOMAIN refs
HeadId == IF OnBranch THEN refs[head] ELSE head
HeadTree == TreeOf(HeadId)

Commit(parents, tree) ==
    [parents |-> parents, tree |-> tree,
     from |-> {0, Len(commits) + 1} \cup UNION {Ancestors(parents[i]) : i \in DOMAIN parents}]

AddCommit(parents, tree) ==
    /\ Len(commits) < MaxCommits
    /\ commits' = Append(commits, Commit(parents, tree))

NewId == Len(commits) + 1
PointTo(at, b, id) == [c \in DOMAIN at \cup {b} |-> IF c = b THEN id ELSE at[c]]

(* A name is resolved by .git/<name> before .git/refs/heads/<name>. *)
Names == DOMAIN refs \cup DOMAIN shadow
IdOf(to) ==
    CASE to \in DOMAIN shadow -> shadow[to]
      [] to \in DOMAIN refs \ DOMAIN shadow -> refs[to]
      [] OTHER -> to

(* A checkout sets HEAD to a branch only where no such file hides it. *)
HeadAt(to) == IF to \in DOMAIN refs \ DOMAIN shadow THEN to ELSE IdOf(to)

(* git.merge wants one last common commit, and merges file by file. *)
Common(ours, theirs) == Ancestors(ours) \cap Ancestors(theirs)
OneBase(ours, theirs) ==
    LET base == Max(Common(ours, theirs)) IN
    base # 0 /\ Common(ours, theirs) \subseteq Ancestors(base)

MergedTree(ours, theirs) ==
    LET base == TreeOf(Max(Common(ours, theirs)))
        a == TreeOf(ours)
        b == TreeOf(theirs)
    IN  [f \in Files |-> CASE a[f] = b[f] \/ b[f] = base[f] -> a[f]
                           [] a[f] = base[f] /\ b[f] # base[f] -> b[f]
                           [] OTHER -> Unmerged]

Conflicts(tree) == \E f \in Files : tree[f] = Unmerged

-----------------------------------------------------------------------------
(* The library's calls on the index and the files. *)

(* git.checkout puts in what differs from the index and, with force, all;  *)
(* files that are neither in the index nor in the tree stay.               *)
Refreshed(tree, force) ==
    [f \in Files |-> (tree[f] # index[f] \/ force) /\ (tree[f] # None \/ index[f] # None)]
Loses(tree) == \E f \in Files : tree[f] # index[f] /\ work[f] \notin {index[f], tree[f]}

PutOut(tree, force) ==
    /\ work' = [f \in Files |-> IF Refreshed(tree, force)[f] THEN tree[f] ELSE work[f]]
    /\ index' = [f \in Files |-> IF Refreshed(tree, force)[f] THEN tree[f] ELSE index[f]]

(* git.add of files that are there, with or without markers. *)
AddAll(fs) == [f \in Files |-> IF f \in fs /\ work[f] # None THEN work[f] ELSE index[f]]

(* What is staged by hand after a step of this module. *)
NowStaged(fs) == staged' = {f \in staged \cup fs : index'[f] # HeadTree'[f]}

-----------------------------------------------------------------------------
(* The steps of a caller's command. *)

Overtakes(b, at, id) ==
    overtaken' = IF b \in DOMAIN at /\ at[b] # id THEN overtaken \cup {b} ELSE overtaken

Init ==
    /\ \E start \in Starts : /\ commits = start.commits
                             /\ refs = start.refs /\ shadow = start.shadow
    /\ head = Main
    /\ index = HeadTree
    /\ work = HeadTree
    /\ mergeBranch = None
    /\ calls = [c \in Callers |-> Idle]
    /\ steps = 0
    /\ overtaken = {} /\ behind = FALSE
    /\ staged = {}
    /\ merged = {}

Begin(c) ==
    /\ calls[c] = Idle
    /\ steps < MaxCalls
    /\ steps' = steps + 1

Continue(c, do) ==
    /\ calls[c].do = do
    /\ UNCHANGED steps

Return(c) == calls' = [calls EXCEPT ![c] = Idle]
GoOn(c, call) == calls' = [calls EXCEPT ![c] = call]

(* Files are written and removed also by what is no git command. *)
EditFile(f, content) ==
    /\ steps < MaxCalls
    /\ steps' = steps + 1
    /\ work[f] # content
    /\ work' = [work EXCEPT ![f] = content]
    /\ UNCHANGED <<commits, refs, shadow, head, index, mergeBranch, calls, noted>>

(* git add: "." leaves out what is not there; a file that is named must be. *)
Add(c, fs) ==
    /\ Begin(c)
    /\ fs = Files \/ \A f \in fs : work[f] # None
    /\ index' = AddAll(fs)
    /\ Return(c)
    /\ UNCHANGED <<commits, refs, shadow, head, work, mergeBranch, recorded>>
    /\ NowStaged(fs)

(* Slip: the commit has no parent. *)
CommitStep_Orphan(c) ==
    /\ Begin(c)
    /\ ~Conflicts(index)
    /\ AddCommit(<<>>, index)
    /\ refs' = IF OnBranch THEN PointTo(refs, head, NewId) ELSE refs
    /\ head' = IF OnBranch THEN head ELSE NewId
    /\ Return(c)
    /\ UNCHANGED <<shadow, index, work, mergeBranch, recorded>>
    /\ NowStaged({})

(* git commit -m: what is in the index, on top of HEAD; also in a merge    *)
(* that has conflicts, which it does not conclude.                         *)
CommitStep(c) ==
    /\ Begin(c)
    /\ ~Conflicts(index)
    /\ AddCommit(IF HeadId = 0 THEN <<>> ELSE <<HeadId>>, index)
    /\ refs' = IF OnBranch THEN PointTo(refs, head, NewId) ELSE refs
    /\ head' = IF OnBranch THEN head ELSE NewId
    /\ Return(c)
    /\ UNCHANGED <<shadow, index, work, mergeBranch, recorded>>
    /\ NowStaged({})

(* git branch: nothing is made of a HEAD without commits. *)
NewBranch(c, b) ==
    /\ Begin(c)
    /\ b \notin DOMAIN refs
    /\ HeadId # 0
    /\ refs' = PointTo(refs, b, HeadId)
    /\ Return(c)
    /\ UNCHANGED <<commits, shadow, head, index, work, mergeBranch, noted>>

(* git branch -d, -D: the current branch too, which detaches HEAD; a file   *)
(* .git/<branch> stays.                                                     *)
DeleteBranch(c, b) ==
    /\ Begin(c)
    /\ b \in DOMAIN refs
    /\ refs[b] # 0
    /\ head' = IF head = b THEN refs[b] ELSE head
    /\ refs' = [d \in DOMAIN refs \ {b} |-> refs[d]]
    /\ merged' = {m \in merged : m.branch # b}
    /\ Return(c)
    /\ UNCHANGED <<commits, shadow, index, work, mergeBranch, staged, overtaken, behind>>

(* git checkout of a branch or, by its number, a commit. *)
Checkout(c, to) ==
    /\ Begin(c)
    /\ IdOf(to) # 0 /\ ~Loses(TreeOf(IdOf(to)))
    /\ PutOut(TreeOf(IdOf(to)), FALSE)
    /\ head' = HeadAt(to)
    /\ Return(c)
    /\ UNCHANGED <<commits, refs, shadow, mergeBranch, recorded>>
    /\ NowStaged({})

(* git rm: out of the index and the work tree. *)
Rm(c, f) ==
    /\ Begin(c)
    /\ index' = [index EXCEPT ![f] = None]
    /\ work' = [work EXCEPT ![f] = None]
    /\ Return(c)
    /\ UNCHANGED <<commits, refs, shadow, head, mergeBranch, recorded>>
    /\ NowStaged({f})

(* git mv: the files at once, the index in two steps. *)
Mv(c, f, g) ==
    /\ Begin(c)
    /\ f # g /\ work[f] # None
    /\ work' = [work EXCEPT ![f] = None, ![g] = work[f]]
    /\ GoOn(c, [do |-> "remove", old |-> f, new |-> g])
    /\ UNCHANGED <<commits, refs, shadow, head, index, mergeBranch, noted>>

MvRemove(c) ==
    /\ Continue(c, "remove")
    /\ index' = [index EXCEPT ![calls[c].old] = None]
    /\ GoOn(c, [calls[c] EXCEPT !.do = "add"])
    /\ UNCHANGED <<commits, refs, shadow, head, work, mergeBranch, recorded>>
    /\ NowStaged({calls[c].old})

(* The file may be gone by now: then nothing is added. *)
MvAdd(c) ==
    /\ Continue(c, "add")
    /\ index' = AddAll({calls[c].new})
    /\ Return(c)
    /\ UNCHANGED <<commits, refs, shadow, head, work, mergeBranch, recorded>>
    /\ NowStaged({calls[c].new})

(* git reset --hard and git merge --abort: the current branch is read and, *)
(* in another step, checked out with force.  Abort forgets the merge.      *)
Reset(c, abort) ==
    /\ Begin(c)
    /\ abort => OnBranch
    /\ mergeBranch' = IF abort THEN None ELSE mergeBranch
    /\ GoOn(c, [do |-> "checkout", ref |-> head])
    /\ UNCHANGED <<repo, noted>>

(* Slip: the branch is read, but nothing is checked out. *)
ForceCheckout_Skipped(c) ==
    /\ Continue(c, "checkout")
    /\ Return(c)
    /\ UNCHANGED <<repo, mergeBranch, recorded>>
    /\ NowStaged({})

(* git.checkout(force) of the branch that was current; it may be gone.     *)
ForceCheckout(c) ==
    LET to == calls[c].ref IN
    /\ Continue(c, "checkout")
    /\ IF IdOf(to) \in DOMAIN commits
       THEN /\ PutOut(TreeOf(IdOf(to)), TRUE)
            /\ head' = HeadAt(to)
            /\ UNCHANGED behind
       ELSE behind' = TRUE /\ UNCHANGED <<index, work, head>>
    /\ Return(c)
    /\ UNCHANGED <<commits, refs, shadow, mergeBranch, merged, overtaken>>
    /\ NowStaged({})

(* Where git.merge writes its result: to the ref it found by the name.     *)
MergesTo(id, tip) ==
    LET hidden == head \in DOMAIN shadow IN
    /\ refs' = IF hidden THEN refs ELSE PointTo(refs, head, id)
    /\ shadow' = IF hidden THEN PointTo(shadow, head, id) ELSE shadow
    /\ merged' = merged \cup {[branch |-> head, tip |-> tip,
                               into |-> IF hidden THEN "file" ELSE "branch"]}

(* git merge b, with or without --no-ff, into the current branch: its tip  *)
(* is moved here, the work tree follows in a step of its own.              *)
Merge(c, b, noFF) ==
    LET ours == IdOf(head)
        theirs == IdOf(b)
        tree == MergedTree(ours, theirs)
        checkout == [do |-> "checkout", ref |-> head]
    IN  /\ Begin(c)
        /\ OnBranch /\ b \in Names
        /\ ours # 0 /\ theirs # 0
        /\ UNCHANGED <<head, index, work, mergeBranch, staged, overtaken, behind>>
        /\ \/ /\ theirs \in Ancestors(ours)
              /\ Return(c)
              /\ UNCHANGED <<commits, refs, shadow, merged>>
           \/ /\ theirs \notin Ancestors(ours)
              /\ ours \in Ancestors(theirs) /\ ~noFF
              /\ MergesTo(theirs, theirs)
              /\ GoOn(c, checkout)
              /\ UNCHANGED commits
           \/ /\ theirs \notin Ancestors(ours)
              /\ ours \notin Ancestors(theirs) \/ noFF
              /\ OneBase(ours, theirs) /\ ~Conflicts(index) /\ ~Conflicts(tree)
              /\ AddCommit(<<ours, theirs>>, tree)
              /\ MergesTo(NewId, theirs)
              /\ GoOn(c, checkout)

(* A merge with conflicts: files are written with both sides, the index    *)
(* has entries that are not merged, and the branch is remembered.          *)
MergeConflict(c, b) ==
    LET ours == IdOf(head)
        theirs == IdOf(b)
        tree == MergedTree(ours, theirs)
    IN  /\ Begin(c)
        /\ OnBranch /\ b \in Names
        /\ ours # 0 /\ theirs # 0
        /\ OneBase(ours, theirs) /\ ~Conflicts(index) /\ Conflicts(tree)
        /\ work' = [f \in Files |-> CASE tree[f] = None -> work[f]
                                    [] tree[f] = Unmerged -> Marked
                                    [] OTHER -> tree[f]]
        /\ index' = [f \in Files |-> IF tree[f] = Unmerged THEN Unmerged ELSE index[f]]
        /\ mergeBranch' = b
        /\ Return(c)
        /\ UNCHANGED <<commits, refs, shadow, head, recorded>>
        /\ NowStaged({f \in Files : tree[f] = Unmerged})

(* git merge --continue: the branches are resolved by name, now; then      *)
(* everything is added, committed with two parents, and the ref is written. *)
MergeContinue(c) ==
    /\ Begin(c)
    /\ OnBranch /\ mergeBranch \in Names
    /\ IdOf(head) # 0 /\ IdOf(mergeBranch) # 0
    /\ GoOn(c, [do |-> "stage", ours |-> head, at |-> IdOf(head),
                theirs |-> IdOf(mergeBranch)])
    /\ UNCHANGED <<repo, mergeBranch, noted>>

StageAll(c) ==
    /\ Continue(c, "stage")
    /\ index' = AddAll(Files)
    /\ GoOn(c, [calls[c] EXCEPT !.do = "commit"])
    /\ UNCHANGED <<commits, refs, shadow, head, work, mergeBranch, recorded>>
    /\ NowStaged(Files)

(* Slip: the other branch is not among the parents. *)
MergeCommit_OneParent(c) ==
    LET call == calls[c] IN
    /\ Continue(c, "commit")
    /\ ~Conflicts(index)
    /\ AddCommit(<<call.at>>, index)
    /\ shadow' = PointTo(shadow, call.ours, NewId)
    /\ Overtakes(call.ours, shadow, call.at)
    /\ GoOn(c, [do |-> "write", ours |-> call.ours, at |-> call.at,
                theirs |-> call.theirs, oid |-> NewId])
    /\ UNCHANGED <<refs, head, index, work, mergeBranch, staged, merged, behind>>

(* git.commit({ref: ours}) takes the name for a path: it writes .git/ours. *)
MergeCommit(c) ==
    LET call == calls[c] IN
    /\ Continue(c, "commit")
    /\ ~Conflicts(index)
    /\ AddCommit(<<call.at, call.theirs>>, index)
    /\ shadow' = PointTo(shadow, call.ours, NewId)
    /\ Overtakes(call.ours, shadow, call.at)
    /\ GoOn(c, [do |-> "write", ours |-> call.ours, at |-> call.at,
                theirs |-> call.theirs, oid |-> NewId])
    /\ UNCHANGED <<refs, head, index, work, mergeBranch, staged, merged, behind>>

(* git.writeRef, by force: the branch, wherever it is by now. *)
MergeWrite(c) ==
    LET call == calls[c] IN
    /\ Continue(c, "write")
    /\ refs' = PointTo(refs, call.ours, call.oid)
    /\ mergeBranch' = None
    /\ merged' = merged \cup {[branch |-> call.ours, tip |-> call.theirs, into |-> "branch"]}
    /\ Overtakes(call.ours, refs, call.at)
    /\ behind' = (behind \/ (head = call.ours /\ index # TreeOf(call.oid)))
    /\ Return(c)
    /\ UNCHANGED <<commits, shadow, head, index, work>>
    /\ NowStaged({})

(* The commit fails while an entry is in conflict (its file was removed):  *)
(* the merge stays.                                                        *)
MergeCommitFails(c) ==
    /\ Continue(c, "commit")
    /\ Conflicts(index)
    /\ Return(c)
    /\ UNCHANGED <<repo, mergeBranch, noted>>

Next ==
    \/ \E f \in Files, content \in Contents \cup {None} : EditFile(f, content)
    \/ \E c \in Callers :
        \/ Add(c, Files)
        \/ \E f \in Files : Add(c, {f}) \/ Rm(c, f)
        \/ \E f, g \in Files : Mv(c, f, g)
        \/ \E b \in Branches : \/ NewBranch(c, b) \/ DeleteBranch(c, b)
                               \/ \E noFF \in BOOLEAN : Merge(c, b, noFF)
                               \/ MergeConflict(c, b)
        \/ \E to \in Names \cup DOMAIN commits : Checkout(c, to)
        \/ \E abort \in BOOLEAN : Reset(c, abort)
        \/ CommitStep(c) \/ MergeContinue(c)
        \/ MvRemove(c) \/ MvAdd(c) \/ ForceCheckout(c)
        \/ StageAll(c) \/ MergeCommit(c) \/ MergeCommitFails(c) \/ MergeWrite(c)

Spec == Init /\ [][Next]_vars

-----------------------------------------------------------------------------
(* Properties. *)

(* A --continue writes b, which is not at the commit it took for b: a      *)
(* command moved b meanwhile, or .git/b, which it read, is an older one.   *)
Overwritten(b) ==
    \E c \in Callers : /\ calls[c].do = "write" /\ calls'[c] # calls[c]
                       /\ calls[c].ours = b /\ refs[b] # calls[c].at

(* A branch only moves to commits that follow the one it is at: nothing    *)
(* that was committed on it is lost, whatever merges, conflicts, resets    *)
(* and checkouts of two callers overlap and whichever file a name is read  *)
(* from, but for the step in which a merge --continue overwrites a branch  *)
(* that it did not read (builtin_git.py, lines 314 and 326).               *)
HistoryGrows ==
    [][\A b \in DOMAIN refs \cap DOMAIN refs' :
           \/ Overwritten(b)
           \/ refs[b] \in (IF refs'[b] = 0 THEN {0} ELSE commits'[refs'[b]].from)]_vars

(* When no command is half done, the index differs from HEAD only in files *)
(* that were added, removed or marked as in conflict since: a commit does  *)
(* not undo a merge or a checkout that the index has not followed.  Only a *)
(* branch deleted under a merge or a reset leaves it behind, and a         *)
(* --continue whose index others change before it writes the branch.       *)
StagedByHand ==
    ~behind /\ (\A c \in Callers : calls[c] = Idle) =>
        {f \in Files : index[f] # HeadTree[f]} \subseteq staged

(* What a command said it merged into a branch is in it, or in the file    *)
(* .git/<branch> when that took the merge, so that merging it again is     *)
(* "Already up to date", unless a --continue overwrote it (builtin_git.py  *)
(* merge, --continue).                                                     *)
MergedIsRecorded ==
    \A m \in merged :
        m.branch \in DOMAIN refs \ overtaken =>
            m.tip \in Ancestors(IF m.into = "file" THEN shadow[m.branch] ELSE refs[m.branch])
-----------------------------------------------------------------------------
(* What holds of every reachable state, and follows from itself.           *)

Id == 0..Len(commits)
Steps ==
    {Idle} \cup [do : {"remove", "add"}, old : Files, new : Files]
           \cup [do : {"checkout"}, ref : Branches \cup Nat]
           \cup [do : {"stage", "commit"}, ours : Branches, at : Nat, theirs : Nat]
           \cup [do : {"write"}, ours : Branches, at : Nat, theirs : Nat, oid : Nat]

TypeOK ==
    /\ DOMAIN refs \subseteq Branches
    /\ \A b \in DOMAIN refs : refs[b] \in Id
    /\ DOMAIN shadow \subseteq Branches
    /\ \A b \in DOMAIN shadow : shadow[b] \in Id \ {0}
    /\ head \in DOMAIN refs \cup (Id \ {0})
    /\ index \in Trees /\ work \in Trees
    /\ mergeBranch \in Branches \cup {None}
    /\ calls \in [Callers -> Steps]
    /\ steps \in 0..MaxCalls
    /\ overtaken \subseteq Branches /\ behind \in BOOLEAN
    /\ staged \subseteq Files
    /\ merged \subseteq [branch : Branches, tip : Nat, into : {"file", "branch"}]

(* What a merge --continue is about to join are commits, and what it is    *)
(* about to write follows both.                                            *)
CallFits(c) ==
    /\ calls[c].do \in {"stage", "commit", "write"} =>
           calls[c].at \in Id /\ calls[c].theirs \in Id
    /\ calls[c].do = "write" =>
           /\ calls[c].oid \in Id \ {0} /\ calls[c].theirs \in Ancestors(calls[c].oid)
           /\ Ancestors(calls[c].at) \subseteq Ancestors(calls[c].oid)

(* A merge is recorded for branches only, and in the history of what took  *)
(* it, but for those that were overtaken.                                  *)
Recorded(m) ==
    /\ m.into = "file" =>
          /\ m.branch \in DOMAIN shadow
          /\ m.branch \in overtaken \/ m.tip \in Ancestors(shadow[m.branch])
    /\ m.into = "branch" =>
          m.branch \in overtaken \/ m.tip \in Ancestors(refs[m.branch])
MergedFits == \A m \in merged : m.branch \in DOMAIN refs /\ Recorded(m)

(* The index follows HEAD, or somebody is about to make it follow. *)
Differing == {f \in Files : index[f] # HeadTree[f]}
IndexFits ==
    \/ behind
    \/ Differing \subseteq staged
    \/ \E c \in Callers : calls[c].do = "checkout"

(* The inductive invariant. *)
IInv ==
    /\ WellMade(commits) /\ TypeOK /\ MergedFits /\ IndexFits
    /\ \A c \in Callers : CallFits(c)
=============================================================================
