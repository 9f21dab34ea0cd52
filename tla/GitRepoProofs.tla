---------------------------- MODULE GitRepoProofs ----------------------------
(***************************************************************************)
(* IInv of GitRepo is an inductive invariant, for all files, branches and  *)
(* callers, and every repository to begin with: branches only move on, what *)
(* was merged is recorded, and the index follows HEAD, however the commands *)
(* of the callers overlap; what a merge --continue with an old .git/<branch> *)
(* does to a branch is the one exception.                                   *)
(***************************************************************************)
EXTENDS GitRepo, TLAPS

USE ConstantsAssumption

(* Caller c goes on with r, the others where they were. *)
CallBecomes(c, r) ==
    /\ calls' \in [Callers -> Steps]
    /\ calls'[c] = r
    /\ \A d \in Callers : d # c => calls'[d] = calls[d]

LEMMA IdleDoes == Idle.do = "idle" /\ Idle \in Steps
BY DEF Idle, Steps

LEMMA ReturnGives ==
    ASSUME TypeOK, NEW c \in Callers, Return(c)
    PROVE  CallBecomes(c, Idle)
BY DEF TypeOK, Return, CallBecomes, Steps

LEMMA GoOnGives ==
    ASSUME TypeOK, NEW c \in Callers, NEW r \in Steps, GoOn(c, r)
    PROVE  CallBecomes(c, r)
BY DEF TypeOK, GoOn, CallBecomes

(* What a command that is half done remembers. *)
LEMMA CallKinds ==
    ASSUME TypeOK, NEW c \in Callers
    PROVE  /\ calls[c].do \in {"remove", "add"} =>
                 calls[c] \in [do : {"remove", "add"}, old : Files, new : Files]
           /\ calls[c].do = "checkout" =>
                 calls[c] \in [do : {"checkout"}, ref : Branches \cup Nat]
           /\ calls[c].do \in {"stage", "commit"} =>
                 calls[c] \in [do : {"stage", "commit"}, ours : Branches, at : Nat, theirs : Nat]
           /\ calls[c].do = "write" =>
                 calls[c] \in [do : {"write"}, ours : Branches, at : Nat, theirs : Nat, oid : Nat]
<1>1. calls[c] \in Steps
  BY DEF TypeOK
<1> QED
  BY <1>1 DEF Steps, Idle

-----------------------------------------------------------------------------
(* Commits and their ancestors. *)

LEMMA LogFits ==
    ASSUME NEW log, WellMade(log)
    PROVE  /\ Len(log) \in Nat /\ DOMAIN log = 1..Len(log)
           /\ \A i \in DOMAIN log : log[i].tree \in Trees
<1> DEFINE Entry == [parents : Seq(Nat), tree : Trees, from : SUBSET Nat]
<1>1. log \in Seq(Entry)
  BY DEF WellMade
<1>2. \A x \in Entry : x.tree \in Trees
  OBVIOUS
<1> HIDE DEF Entry
<1>3. /\ Len(log) \in Nat /\ DOMAIN log = 1..Len(log)
      /\ \A i \in 1..Len(log) : log[i] \in Entry
  BY <1>1
<1> QED
  BY <1>2, <1>3

LEMMA Log ==
    ASSUME WellMade(commits)
    PROVE  /\ Len(commits) \in Nat /\ DOMAIN commits = 1..Len(commits)
           /\ Id \subseteq Nat /\ 0 \in Id /\ DOMAIN commits = Id \ {0}
           /\ \A i \in DOMAIN commits : commits[i].tree \in Trees
<1>1. /\ Len(commits) \in Nat /\ DOMAIN commits = 1..Len(commits)
      /\ \A i \in DOMAIN commits : commits[i].tree \in Trees
  BY LogFits
<1> QED
  BY <1>1 DEF Id

LEMMA AncestorsFit ==
    ASSUME WellMade(commits), NEW i \in Id
    PROVE  /\ {0, i} \subseteq Ancestors(i) /\ Ancestors(i) \subseteq Id
           /\ \A a \in Ancestors(i) : Ancestors(a) \subseteq Ancestors(i)
           /\ TreeOf(i) \in Trees
<1>1. CASE i = 0
  BY <1>1 DEF Ancestors, TreeOf, NoTree, Trees, Id
<1>2. CASE i # 0
  <2>1. /\ i \in DOMAIN commits /\ commits[i].tree \in Trees
        /\ {0, i} \subseteq commits[i].from /\ commits[i].from \subseteq 0..i
        /\ \A a \in commits[i].from \ {0} : commits[a].from \subseteq commits[i].from
    BY <1>2, Log DEF WellMade
  <2>2. 0..i \subseteq Id
    BY Log DEF Id
  <2> QED
    BY <1>2, <2>1, <2>2 DEF Ancestors, TreeOf
<1> QED
  BY <1>1, <1>2

(* The commits there are stay as they are. *)
LogGrows ==
    \A i \in DOMAIN commits : i \in DOMAIN commits' /\ commits'[i] = commits[i]

LEMMA CommitAdded ==
    ASSUME WellMade(commits), NEW parents \in Seq(Nat), NEW tree \in Trees,
           \A i \in DOMAIN parents : parents[i] \in Id,
           AddCommit(parents, tree)
    PROVE  /\ WellMade(commits') /\ LogGrows
           /\ NewId \in DOMAIN commits' /\ NewId # 0 /\ NewId \notin Id
           /\ Id' = Id \cup {NewId}
           /\ commits'[NewId].tree = tree
           /\ {0, NewId} \subseteq commits'[NewId].from
           /\ \A i \in DOMAIN parents : Ancestors(parents[i]) \subseteq commits'[NewId].from
<1> DEFINE Entry == [parents : Seq(Nat), tree : Trees, from : SUBSET Nat]
           n == Len(commits) + 1
           from == {0, n} \cup UNION {Ancestors(parents[i]) : i \in DOMAIN parents}
           new == Commit(parents, tree)
<1>1. new = [parents |-> parents, tree |-> tree, from |-> from]
  BY DEF Commit
<1>2. \A i \in DOMAIN parents : Ancestors(parents[i]) \subseteq Id
  BY AncestorsFit
<1>3. n \in Nat \ {0} /\ Id = 0..(n - 1) /\ from \subseteq 0..n
  BY <1>2, Log DEF Id
<1>4. new \in Entry
  BY <1>1, <1>3
<1>5. commits \in Seq(Entry)
  BY DEF WellMade
<1>6. commits' = Append(commits, new)
  BY DEF AddCommit
<1>7. new.tree = tree /\ new.from = from
  BY <1>1
<1> HIDE DEF new, from, Entry
<1>8. /\ commits' \in Seq(Entry) /\ Len(commits') = n /\ DOMAIN commits' = 1..n
      /\ commits'[n] = new
      /\ \A i \in 1..(n - 1) : commits'[i] = commits[i]
  BY <1>4, <1>5, <1>6
<1>9. LogGrows /\ DOMAIN commits = 1..(n - 1)
  BY <1>3, <1>8, Log DEF LogGrows
<1>10. Id' = Id \cup {n}
  BY <1>3, <1>8 DEF Id
<1>11. \A a \in from \ {0} : commits'[a].from \subseteq from
  <2> SUFFICES ASSUME NEW a \in from, a # 0 PROVE commits'[a].from \subseteq from
    OBVIOUS
  <2>1. CASE a = n
    BY <1>7, <1>8, <2>1
  <2>2. CASE a # n
    <3>1. PICK i \in DOMAIN parents : a \in Ancestors(parents[i])
      BY <2>2 DEF from
    <3>2. parents[i] \in Id /\ Ancestors(parents[i]) \subseteq from
      BY DEF from
    <3>3. Ancestors(a) \subseteq Ancestors(parents[i]) /\ a \in Id
      BY <3>1, <3>2, AncestorsFit
    <3>4. commits'[a] = commits[a]
      BY <1>3, <1>8, <3>3
    <3> QED
      BY <3>2, <3>3, <3>4 DEF Ancestors
  <2> QED
    BY <2>1, <2>2
<1>12. ASSUME NEW i \in DOMAIN commits'
       PROVE  /\ {0, i} \subseteq commits'[i].from /\ commits'[i].from \subseteq 0..i
              /\ \A a \in commits'[i].from \ {0} : commits'[a].from \subseteq commits'[i].from
  <2>1. CASE i = n
    BY <1>3, <1>7, <1>8, <1>11, <2>1 DEF from
  <2>2. CASE i # n
    <3>1. i \in DOMAIN commits /\ commits'[i] = commits[i]
      BY <1>3, <1>8, <1>9, <2>2
    <3>2. /\ {0, i} \subseteq commits[i].from /\ commits[i].from \subseteq 0..i
          /\ \A a \in commits[i].from \ {0} : commits[a].from \subseteq commits[i].from
      BY <3>1 DEF WellMade
    <3>3. \A a \in 0..i \ {0} : commits'[a] = commits[a]
      BY <1>3, <1>8, <1>9, <3>1
    <3> QED
      BY <3>1, <3>2, <3>3
  <2> QED
    BY <2>1, <2>2
<1>13. WellMade(commits')
  BY <1>8, <1>12 DEF WellMade, Entry
<1> QED
  BY <1>3, <1>7, <1>8, <1>9, <1>10, <1>13 DEF NewId, from

LEMMA LogStays ==
    ASSUME WellMade(commits), WellMade(commits'), LogGrows, NEW i \in Id
    PROVE  i \in Id' /\ Ancestors(i)' = Ancestors(i) /\ TreeOf(i)' = TreeOf(i)
<1>1. Len(commits') \in Nat /\ DOMAIN commits' = 1..Len(commits')
  BY LogFits
<1>2. CASE i = 0
  BY <1>1, <1>2 DEF Ancestors, TreeOf, NoTree, Id
<1>3. CASE i # 0
  <2>1. i \in DOMAIN commits /\ i \in DOMAIN commits' /\ commits'[i] = commits[i]
    BY <1>3, Log DEF LogGrows
  <2>2. i \in Id'
    BY <1>1, <2>1 DEF Id
  <2> QED
    BY <1>3, <2>1, <2>2 DEF Ancestors, TreeOf
<1> QED
  BY <1>2, <1>3

-----------------------------------------------------------------------------
(* What the parts of the invariant need of a step. *)

(* The branches only move on; the action HistoryGrows is about. *)
Grows ==
    \A b \in DOMAIN refs \cap DOMAIN refs' :
        \/ Overwritten(b)
        \/ refs[b] \in (IF refs'[b] = 0 THEN {0} ELSE commits'[refs'[b]].from)

(* From commit i to j: where it is, or on to a commit with what it had. *)
MovesTo(i, j) == i = j \/ (j # 0 /\ Ancestors(i) \subseteq commits'[j].from)

MovesOn(b) == (b \in overtaken' /\ Overwritten(b)) \/ MovesTo(refs[b], refs'[b])
FileMovesOn(b) == b \in overtaken' \/ MovesTo(shadow[b], shadow'[b])

LEMMA AncestorsMove ==
    ASSUME WellMade(commits), WellMade(commits'), LogGrows, NEW i \in Id, NEW j, MovesTo(i, j)
    PROVE  LET from == IF j = 0 THEN {0} ELSE commits'[j].from IN
           i \in Ancestors(i) /\ Ancestors(i) \subseteq from
<1>1. Ancestors(i)' = Ancestors(i) /\ i \in Ancestors(i)
  BY LogStays, AncestorsFit
<1> QED
  BY <1>1 DEF Ancestors, MovesTo

LEMMA GrowsBy ==
    ASSUME WellMade(commits), TypeOK, WellMade(commits'), LogGrows,
           \A b \in DOMAIN refs \cap DOMAIN refs' : MovesOn(b)
    PROVE  Grows
<1> SUFFICES ASSUME NEW b \in DOMAIN refs \cap DOMAIN refs', ~Overwritten(b)
             PROVE  refs[b] \in (IF refs'[b] = 0 THEN {0} ELSE commits'[refs'[b]].from)
  BY DEF Grows
<1> PICK i \in Id : i = refs[b]
  BY DEF TypeOK
<1> PICK j : j = refs'[b]
  OBVIOUS
<1>1. MovesTo(i, j)
  BY DEF MovesOn
<1> QED
  BY <1>1, AncestorsMove

(* What was recorded as merged stays in the history of what took it. *)
LEMMA MergedStay ==
    ASSUME IInv, WellMade(commits'), LogGrows, overtaken \subseteq overtaken',
           NEW m \in merged, MovesOn(m.branch), DOMAIN shadow \subseteq DOMAIN shadow',
           m.branch \in DOMAIN shadow => FileMovesOn(m.branch)
    PROVE  Recorded(m)'
<1>1. TypeOK /\ WellMade(commits) /\ m.branch \in DOMAIN refs /\ Recorded(m)
  BY DEF IInv, MergedFits
<1>2. ASSUME m.into = "branch", m.branch \notin overtaken'
      PROVE  m.tip \in Ancestors(refs[m.branch])'
  <2> PICK i \in Id : i = refs[m.branch]
    BY <1>1 DEF TypeOK
  <2> PICK j : j = refs'[m.branch]
    OBVIOUS
  <2>1. MovesTo(i, j) /\ m.tip \in Ancestors(i)
    BY <1>1, <1>2 DEF MovesOn, Recorded
  <2> QED
    BY <1>1, <2>1, AncestorsMove DEF Ancestors
<1>3. ASSUME m.into = "file", m.branch \notin overtaken'
      PROVE  m.tip \in Ancestors(shadow[m.branch])'
  <2>1. m.branch \in DOMAIN shadow /\ m.tip \in Ancestors(shadow[m.branch])
    BY <1>1, <1>3 DEF Recorded
  <2> PICK i \in Id : i = shadow[m.branch]
    BY <1>1, <2>1 DEF TypeOK
  <2> PICK j : j = shadow'[m.branch]
    OBVIOUS
  <2>2. MovesTo(i, j)
    BY <1>3, <2>1 DEF FileMovesOn
  <2> QED
    BY <1>1, <2>1, <2>2, AncestorsMove DEF Ancestors
<1> QED
  BY <1>1, <1>2, <1>3 DEF Recorded

(* The index follows HEAD, or the step of c is one that makes it so. *)
LEMMA IndexKept ==
    ASSUME IInv, NEW c \in Callers, NEW r, CallBecomes(c, r), calls[c].do # "checkout",
           behind => behind',
           Differing \subseteq staged => Differing' \subseteq staged' \/ r.do = "checkout"
    PROVE  IndexFits'
BY DEF IInv, IndexFits, CallBecomes

LEMMA StagedFollows ==
    ASSUME NEW fs \in SUBSET Files, NowStaged(fs), TypeOK,
           Differing' \subseteq Differing \cup fs
    PROVE  /\ staged' \subseteq Files
           /\ Differing \subseteq staged => Differing' \subseteq staged'
<1>1. staged' = {f \in staged \cup fs : f \in Differing'}
  BY DEF NowStaged, Differing, TypeOK
<1> QED
  BY <1>1 DEF TypeOK

LEMMA CallsKept ==
    ASSUME IInv, NEW c \in Callers, NEW r, CallBecomes(c, r), WellMade(commits'), LogGrows,
           r.do \in {"stage", "commit", "write"} => r.at \in Id /\ r.theirs \in Id,
           r.do = "write" =>
               /\ r.oid \in Id' \ {0} /\ r.theirs \in commits'[r.oid].from
               /\ Ancestors(r.at) \subseteq commits'[r.oid].from
    PROVE  \A d \in Callers : CallFits(d)'
<1>1. WellMade(commits)
  BY DEF IInv
<1>2. \A i \in Id : i \in Id' /\ Ancestors(i)' = Ancestors(i)
  BY <1>1, LogStays
<1>3. CallFits(c)'
  <2> PICK do, at, theirs, oid : /\ do = r.do /\ at = r.at /\ theirs = r.theirs
                                 /\ oid = r.oid
    OBVIOUS
  <2>1. do = "write" => Ancestors(oid)' = commits'[oid].from /\ Ancestors(at)' = Ancestors(at)
    BY <1>2 DEF Ancestors
  <2>2. /\ calls'[c].do = do /\ calls'[c].at = at /\ calls'[c].theirs = theirs
        /\ calls'[c].oid = oid
    BY DEF CallBecomes
  <2>3. /\ do \in {"stage", "commit", "write"} => at \in Id' /\ theirs \in Id'
        /\ do = "write" =>
             /\ oid \in Id' \ {0} /\ theirs \in Ancestors(oid)'
             /\ Ancestors(at)' \subseteq Ancestors(oid)'
    BY <1>2, <2>1
  <2> QED
    BY <2>2, <2>3 DEF CallFits, Ancestors
<1>4. ASSUME NEW d \in Callers, d # c
      PROVE  CallFits(d)'
  <2> PICK do, at, theirs, oid : /\ do = calls[d].do /\ at = calls[d].at
                                 /\ theirs = calls[d].theirs /\ oid = calls[d].oid
    OBVIOUS
  <2>1. /\ calls'[d].do = do /\ calls'[d].at = at /\ calls'[d].theirs = theirs
        /\ calls'[d].oid = oid
    BY <1>4 DEF CallBecomes
  <2>2. /\ do \in {"stage", "commit", "write"} => at \in Id /\ theirs \in Id
        /\ do = "write" => /\ oid \in Id \ {0} /\ theirs \in Ancestors(oid)
                           /\ Ancestors(at) \subseteq Ancestors(oid)
    BY DEF IInv, CallFits
  <2>3. /\ do \in {"stage", "commit", "write"} => at \in Id' /\ theirs \in Id'
        /\ do = "write" =>
             /\ oid \in Id' \ {0} /\ theirs \in Ancestors(oid)'
             /\ Ancestors(at)' \subseteq Ancestors(oid)'
    BY <1>2, <2>2
  <2> QED
    BY <2>1, <2>3 DEF CallFits, Ancestors
<1> QED
  BY <1>3, <1>4

LEMMA CallsSame ==
    ASSUME IInv, NEW c \in Callers, NEW r, CallBecomes(c, r), UNCHANGED commits,
           r.do # "write", r.do \in {"stage", "commit"} => r.at \in Id /\ r.theirs \in Id
    PROVE  \A d \in Callers : CallFits(d)'
<1>1. WellMade(commits') /\ LogGrows
  BY DEF IInv, LogGrows
<1> QED
  BY <1>1, CallsKept

LEMMA HeadFits ==
    ASSUME WellMade(commits), TypeOK
    PROVE  HeadId \in Id /\ HeadTree \in Trees /\ (OnBranch <=> head \in DOMAIN refs)
<1>1. HeadId \in Id
  BY DEF TypeOK, HeadId, OnBranch
<1> QED
  BY <1>1, AncestorsFit DEF HeadTree, OnBranch

LEMMA IdOfFits ==
    ASSUME WellMade(commits), TypeOK, NEW to \in Names
    PROVE  IdOf(to) \in Id
BY DEF IdOf, Names, TypeOK

(* A step that makes no commit and moves no branch. *)
LEMMA StepWithoutRefs ==
    ASSUME IInv, UNCHANGED <<commits, refs, shadow, merged>>, overtaken \subseteq overtaken',
           TypeOK', IndexFits', \A d \in Callers : CallFits(d)'
    PROVE  IInv' /\ Grows
<1>1. WellMade(commits) /\ WellMade(commits') /\ LogGrows
  BY DEF IInv, LogGrows
<1>2. \A b \in DOMAIN refs \cap DOMAIN refs' : MovesOn(b)
  BY DEF MovesOn, MovesTo
<1>3. MergedFits'
  BY DEF IInv, MergedFits, Recorded, Ancestors
<1> QED
  BY <1>1, <1>2, <1>3, GrowsBy DEF IInv

(* What the library's calls on the index do. *)
LEMMA PutOutGives ==
    ASSUME TypeOK, NEW tree \in Trees, NEW force \in BOOLEAN, PutOut(tree, force)
    PROVE  index' = tree /\ work' \in Trees
<1>1. index \in Trees /\ work \in Trees
  BY DEF TypeOK
<1>2. \A f \in Files : index'[f] = tree[f] /\ work'[f] \in {tree[f], work[f]}
  BY DEF PutOut, Refreshed
<1> QED
  BY <1>1, <1>2 DEF PutOut, Trees

LEMMA AddAllGives ==
    ASSUME TypeOK, NEW fs \in SUBSET Files
    PROVE  AddAll(fs) \in Trees /\ \A f \in Files \ fs : AddAll(fs)[f] = index[f]
BY DEF TypeOK, AddAll, Trees

(* Where the repository is as it was, its index is as good as it was. *)
LEMMA SameDiffering ==
    ASSUME UNCHANGED <<commits, refs, shadow, head, index>>
    PROVE  Differing' = Differing /\ HeadTree' = HeadTree
BY DEF Differing, HeadTree, HeadId, OnBranch, TreeOf, NoTree

(* An index that changes in some files only. *)
LEMMA IndexOf ==
    ASSUME NEW fs \in SUBSET Files, UNCHANGED <<commits, refs, shadow, head>>,
           \A f \in Files \ fs : index'[f] = index[f]
    PROVE  Differing' \subseteq Differing \cup fs
BY DEF Differing, HeadTree, HeadId, OnBranch, TreeOf, NoTree

-----------------------------------------------------------------------------
(* The actions that touch files and index only. *)

LEMMA EditFileStep ==
    ASSUME IInv, NEW f \in Files, NEW content \in Contents \cup {None},
           EditFile(f, content)
    PROVE  IInv' /\ Grows
<1>1. TypeOK'
  BY DEF IInv, EditFile, TypeOK, Trees, Id, noted, recorded
<1>2. IndexFits' /\ \A d \in Callers : CallFits(d)'
  BY SameDiffering DEF IInv, EditFile, IndexFits, CallFits, Ancestors, Id, noted,
                       recorded
<1> QED
  BY <1>1, <1>2, StepWithoutRefs DEF EditFile, noted, recorded

(* A command that changes the index of some files. *)
LEMMA IndexStep ==
    ASSUME IInv, NEW c \in Callers, NEW r, CallBecomes(c, r),
           calls[c].do # "checkout", r.do # "write",
           r.do \in {"stage", "commit"} => r.at \in Id /\ r.theirs \in Id,
           UNCHANGED <<commits, refs, shadow, head, mergeBranch, recorded>>,
           steps' \in 0..MaxCalls, index' \in Trees, work' \in Trees,
           NEW fs \in SUBSET Files, NowStaged(fs),
           \A f \in Files \ fs : index'[f] = index[f]
    PROVE  IInv' /\ Grows
<1>1. TypeOK
  BY DEF IInv
<1>2. staged' \subseteq Files /\ (Differing \subseteq staged => Differing' \subseteq staged')
  BY <1>1, IndexOf, StagedFollows
<1>3. TypeOK'
  BY <1>1, <1>2 DEF TypeOK, CallBecomes, recorded, Id, Steps
<1>4. IndexFits'
  BY <1>2, IndexKept DEF recorded
<1>5. \A d \in Callers : CallFits(d)'
  BY CallsSame
<1> QED
  BY <1>3, <1>4, <1>5, StepWithoutRefs DEF recorded

LEMMA BeginGives ==
    ASSUME TypeOK, NEW c \in Callers, Begin(c)
    PROVE  calls[c].do = "idle" /\ steps' \in 0..MaxCalls
BY DEF Begin, TypeOK, Idle

LEMMA ContinueGives ==
    ASSUME TypeOK, NEW c \in Callers, NEW do, Continue(c, do)
    PROVE  calls[c].do = do /\ steps' \in 0..MaxCalls
BY DEF Continue, TypeOK

LEMMA AddStep ==
    ASSUME IInv, NEW c \in Callers, NEW fs \in SUBSET Files, Add(c, fs)
    PROVE  IInv' /\ Grows
<1>1. TypeOK
  BY DEF IInv
<1>2. CallBecomes(c, Idle) /\ Idle.do = "idle" /\ calls[c].do = "idle" /\ steps' \in 0..MaxCalls
  BY <1>1, ReturnGives, BeginGives, IdleDoes DEF Add
<1>3. index' \in Trees /\ \A f \in Files \ fs : index'[f] = index[f]
  BY <1>1, AddAllGives DEF Add
<1> QED
  BY <1>1, <1>2, <1>3, IndexStep DEF Add, TypeOK

LEMMA RmStep ==
    ASSUME IInv, NEW c \in Callers, NEW f \in Files, Rm(c, f)
    PROVE  IInv' /\ Grows
<1>1. TypeOK
  BY DEF IInv
<1>2. CallBecomes(c, Idle) /\ Idle.do = "idle" /\ calls[c].do = "idle" /\ steps' \in 0..MaxCalls
  BY <1>1, ReturnGives, BeginGives, IdleDoes DEF Rm
<1>3. /\ index' \in Trees /\ work' \in Trees
      /\ \A g \in Files \ {f} : index'[g] = index[g]
  BY <1>1 DEF Rm, TypeOK, Trees
<1>4. NowStaged({f}) /\ {f} \in SUBSET Files
  BY DEF Rm
<1> QED
  BY <1>1, <1>2, <1>3, <1>4, IndexStep DEF Rm

LEMMA MvRemoveStep ==
    ASSUME IInv, NEW c \in Callers, MvRemove(c)
    PROVE  IInv' /\ Grows
<1>1. TypeOK
  BY DEF IInv
<1>2. calls[c].do = "remove" /\ steps' \in 0..MaxCalls
  BY <1>1, ContinueGives DEF MvRemove
<1>3. calls[c] \in [do : {"remove", "add"}, old : Files, new : Files]
  BY <1>1, <1>2, CallKinds
<1> DEFINE r == [calls[c] EXCEPT !.do = "add"]
<1>4. r \in Steps /\ r.do = "add"
  BY <1>3 DEF Steps
<1>5. GoOn(c, r)
  BY DEF MvRemove
<1> HIDE DEF r
<1>6. CallBecomes(c, r)
  BY <1>1, <1>4, <1>5, GoOnGives
<1> PICK f \in Files : f = calls[c].old
  BY <1>3
<1>7. /\ index' \in Trees
      /\ \A g \in Files \ {f} : index'[g] = index[g]
  BY <1>1 DEF MvRemove, TypeOK, Trees
<1>8. NowStaged({f}) /\ {f} \in SUBSET Files
  BY DEF MvRemove
<1> QED
  BY <1>1, <1>2, <1>4, <1>6, <1>7, <1>8, IndexStep DEF MvRemove, TypeOK

LEMMA MvAddStep ==
    ASSUME IInv, NEW c \in Callers, MvAdd(c)
    PROVE  IInv' /\ Grows
<1>1. TypeOK
  BY DEF IInv
<1>2. calls[c].do = "add" /\ steps' \in 0..MaxCalls
  BY <1>1, ContinueGives DEF MvAdd
<1> PICK f \in Files : f = calls[c].new
  BY <1>1, <1>2, CallKinds
<1>3. CallBecomes(c, Idle) /\ Idle.do = "idle"
  BY <1>1, ReturnGives, IdleDoes DEF MvAdd
<1>4. index' \in Trees /\ \A g \in Files \ {f} : index'[g] = index[g]
  BY <1>1, AddAllGives DEF MvAdd
<1>5. NowStaged({f}) /\ {f} \in SUBSET Files
  BY DEF MvAdd
<1> QED
  BY <1>1, <1>2, <1>3, <1>4, <1>5, IndexStep DEF MvAdd, TypeOK

LEMMA StageAllStep ==
    ASSUME IInv, NEW c \in Callers, StageAll(c)
    PROVE  IInv' /\ Grows
<1>1. TypeOK
  BY DEF IInv
<1>2. calls[c].do = "stage" /\ steps' \in 0..MaxCalls
  BY <1>1, ContinueGives DEF StageAll
<1>3. calls[c] \in [do : {"stage", "commit"}, ours : Branches, at : Nat, theirs : Nat]
  BY <1>1, <1>2, CallKinds
<1> DEFINE r == [calls[c] EXCEPT !.do = "commit"]
<1>4. r \in Steps /\ r.do = "commit" /\ r.at = calls[c].at /\ r.theirs = calls[c].theirs
  BY <1>3 DEF Steps
<1>5. r.at \in Id /\ r.theirs \in Id
  BY <1>2, <1>4 DEF IInv, CallFits
<1>6. GoOn(c, r)
  BY DEF StageAll
<1> HIDE DEF r
<1>7. CallBecomes(c, r)
  BY <1>1, <1>4, <1>6, GoOnGives
<1>8. index' \in Trees
  BY <1>1, AddAllGives DEF StageAll
<1> QED
  BY <1>1, <1>2, <1>4, <1>5, <1>7, <1>8, IndexStep DEF StageAll, TypeOK

(* A command that leaves refs, HEAD and index alone. *)
LEMMA CallStep ==
    ASSUME IInv, NEW c \in Callers, NEW r, CallBecomes(c, r),
           calls[c].do # "checkout", r.do # "write",
           r.do \in {"stage", "commit"} => r.at \in Id /\ r.theirs \in Id,
           UNCHANGED <<commits, refs, shadow, head, index, noted>>,
           steps' \in 0..MaxCalls, work' \in Trees, mergeBranch' \in Branches \cup {None}
    PROVE  IInv' /\ Grows
<1>1. TypeOK'
  BY DEF IInv, TypeOK, CallBecomes, noted, recorded, Id, Steps
<1>2. IndexFits'
  BY SameDiffering, IndexKept DEF noted, recorded
<1>3. \A d \in Callers : CallFits(d)'
  BY CallsSame
<1> QED
  BY <1>1, <1>2, <1>3, StepWithoutRefs DEF noted, recorded

LEMMA MvStep ==
    ASSUME IInv, NEW c \in Callers, NEW f \in Files, NEW g \in Files, Mv(c, f, g)
    PROVE  IInv' /\ Grows
<1>1. TypeOK
  BY DEF IInv
<1> DEFINE r == [do |-> "remove", old |-> f, new |-> g]
<1>2. r \in Steps /\ r.do = "remove"
  BY DEF Steps
<1>3. GoOn(c, r)
  BY DEF Mv
<1> HIDE DEF r
<1>4. CallBecomes(c, r) /\ calls[c].do = "idle" /\ steps' \in 0..MaxCalls
  BY <1>1, <1>2, <1>3, GoOnGives, BeginGives DEF Mv
<1>5. work' \in Trees
  BY <1>1 DEF Mv, TypeOK, Trees
<1> QED
  BY <1>1, <1>2, <1>4, <1>5, CallStep DEF Mv, TypeOK

LEMMA ResetStep ==
    ASSUME IInv, NEW c \in Callers, NEW abort \in BOOLEAN, Reset(c, abort)
    PROVE  IInv' /\ Grows
<1>1. TypeOK /\ WellMade(commits)
  BY DEF IInv
<1> DEFINE r == [do |-> "checkout", ref |-> head]
<1>2. head \in Branches \cup Nat
  BY <1>1, Log DEF TypeOK
<1>3. r \in Steps /\ r.do = "checkout"
  BY <1>2 DEF Steps
<1>4. GoOn(c, r)
  BY DEF Reset
<1> HIDE DEF r
<1>5. CallBecomes(c, r) /\ calls[c].do = "idle" /\ steps' \in 0..MaxCalls
  BY <1>1, <1>3, <1>4, GoOnGives, BeginGives DEF Reset
<1> QED
  BY <1>1, <1>3, <1>5, CallStep DEF Reset, TypeOK, repo

LEMMA MergeContinueStep ==
    ASSUME IInv, NEW c \in Callers, MergeContinue(c)
    PROVE  IInv' /\ Grows
<1>1. TypeOK /\ WellMade(commits)
  BY DEF IInv
<1> PICK at, theirs : at = IdOf(head) /\ theirs = IdOf(mergeBranch)
  OBVIOUS
<1> DEFINE r == [do |-> "stage", ours |-> head, at |-> at, theirs |-> theirs]
<1>2. head \in Branches /\ at \in Id /\ theirs \in Id
  <2>1. head \in Names /\ mergeBranch \in Names /\ head \in Branches
    BY <1>1 DEF MergeContinue, OnBranch, TypeOK, Names
  <2> QED
    BY <1>1, <2>1, IdOfFits
<1>3. r \in Steps /\ r.do = "stage" /\ r.at = at /\ r.theirs = theirs
  BY <1>1, <1>2, Log DEF Steps
<1>4. GoOn(c, r)
  BY DEF MergeContinue
<1> HIDE DEF r
<1>5. CallBecomes(c, r) /\ calls[c].do = "idle" /\ steps' \in 0..MaxCalls
  BY <1>1, <1>3, <1>4, GoOnGives, BeginGives DEF MergeContinue
<1> QED
  BY <1>1, <1>2, <1>3, <1>5, CallStep DEF MergeContinue, TypeOK, repo

LEMMA MergeCommitFailsStep ==
    ASSUME IInv, NEW c \in Callers, MergeCommitFails(c)
    PROVE  IInv' /\ Grows
<1>1. TypeOK
  BY DEF IInv
<1>2. CallBecomes(c, Idle) /\ Idle.do = "idle"
  BY <1>1, ReturnGives, IdleDoes DEF MergeCommitFails
<1>3. calls[c].do = "commit" /\ steps' \in 0..MaxCalls
  BY <1>1, ContinueGives DEF MergeCommitFails
<1> QED
  BY <1>1, <1>2, <1>3, CallStep DEF MergeCommitFails, TypeOK, repo

LEMMA MergedTreeFits ==
    ASSUME WellMade(commits), NEW a \in Id, NEW b \in Id
    PROVE  MergedTree(a, b) \in Trees
<1>1. TreeOf(a) \in Trees /\ TreeOf(b) \in Trees
  BY AncestorsFit
<1> QED
  BY <1>1 DEF MergedTree, Trees

LEMMA MergeConflictStep ==
    ASSUME IInv, NEW c \in Callers, NEW b \in Branches, MergeConflict(c, b)
    PROVE  IInv' /\ Grows
<1>1. TypeOK /\ WellMade(commits)
  BY DEF IInv
<1>2. CallBecomes(c, Idle) /\ Idle.do = "idle"
  BY <1>1, ReturnGives, IdleDoes DEF MergeConflict
<1>3. calls[c].do = "idle" /\ steps' \in 0..MaxCalls
  BY <1>1, BeginGives DEF MergeConflict
<1> PICK tree : tree = MergedTree(IdOf(head), IdOf(b))
  OBVIOUS
<1>4. tree \in Trees
  <2>1. head \in Names /\ b \in Names
    BY DEF MergeConflict, OnBranch, Names
  <2> PICK x \in Id, y \in Id : x = IdOf(head) /\ y = IdOf(b)
    BY <1>1, <2>1, IdOfFits
  <2> QED
    BY <1>1, MergedTreeFits
<1> DEFINE fs == {f \in Files : tree[f] = Unmerged}
<1>5. /\ index' \in Trees /\ work' \in Trees
      /\ \A f \in Files \ fs : index'[f] = index[f]
  BY <1>1, <1>4 DEF MergeConflict, TypeOK, Trees
<1>6. NowStaged(fs) /\ fs \in SUBSET Files
  BY DEF MergeConflict
<1> HIDE DEF fs
<1>7. TypeOK /\ staged' \subseteq Files /\ (Differing \subseteq staged => Differing' \subseteq staged')
  BY <1>1, <1>5, <1>6, IndexOf, StagedFollows DEF MergeConflict
<1>8. TypeOK'
  BY <1>1, <1>2, <1>3, <1>5, <1>7 DEF MergeConflict, TypeOK, CallBecomes, recorded, Id, Steps
<1>9. IndexFits'
  BY <1>2, <1>3, <1>7, IndexKept DEF MergeConflict, recorded
<1>10. \A d \in Callers : CallFits(d)'
  BY <1>2, CallsSame DEF MergeConflict
<1> QED
  BY <1>8, <1>9, <1>10, StepWithoutRefs DEF MergeConflict, recorded

-----------------------------------------------------------------------------
(* Check-outs: afterwards the index is HEAD's. *)

LEMMA CheckedOut ==
    ASSUME WellMade(commits), TypeOK, NEW to, NEW force \in BOOLEAN,
           IdOf(to) \in DOMAIN commits,
           PutOut(TreeOf(IdOf(to)), force), head' = HeadAt(to), UNCHANGED <<commits, refs>>
    PROVE  /\ Differing' = {} /\ index' \in Trees /\ work' \in Trees
           /\ head' \in DOMAIN refs' \cup (Id' \ {0})
<1>0. IdOf(to) \in Id \ {0}
  BY Log
<1> PICK id \in Id : id = IdOf(to) /\ id # 0
  BY <1>0
<1>1. TreeOf(id) \in Trees /\ TreeOf(id)' = TreeOf(id)
  BY AncestorsFit DEF TreeOf, NoTree
<1>2. index' = TreeOf(id) /\ work' \in Trees
  BY <1>1, PutOutGives
<1>3. HeadId' = id /\ head' \in DOMAIN refs' \cup (Id' \ {0})
  <2>1. CASE to \in DOMAIN refs \ DOMAIN shadow
    BY <2>1 DEF HeadAt, HeadId, OnBranch, IdOf
  <2>2. CASE to \notin DOMAIN refs \ DOMAIN shadow
    <3>1. head' = id /\ id \notin Branches
      BY <2>2, Log DEF HeadAt
    <3>2. id \notin DOMAIN refs'
      BY <3>1 DEF TypeOK
    <3> QED
      BY <3>1, <3>2 DEF HeadId, OnBranch, Id
  <2> QED
    BY <2>1, <2>2
<1>4. HeadTree' = index'
  BY <1>1, <1>2, <1>3 DEF HeadTree, TreeOf, NoTree
<1> QED
  BY <1>1, <1>2, <1>3, <1>4 DEF Differing

LEMMA CheckoutStep ==
    ASSUME IInv, NEW c \in Callers, NEW to \in Names \cup DOMAIN commits, Checkout(c, to)
    PROVE  IInv' /\ Grows
<1>1. TypeOK /\ WellMade(commits)
  BY DEF IInv
<1>2. CallBecomes(c, Idle) /\ Idle.do = "idle"
  BY <1>1, ReturnGives, IdleDoes DEF Checkout
<1>3. calls[c].do = "idle" /\ steps' \in 0..MaxCalls
  BY <1>1, BeginGives DEF Checkout
<1>4. IdOf(to) \in DOMAIN commits
  <2>1. CASE to \in Names
    BY <1>1, <2>1, IdOfFits, Log DEF Checkout
  <2>2. CASE to \notin Names
    BY <2>2 DEF IdOf, Names
  <2> QED
    BY <2>1, <2>2
<1>5. /\ Differing' = {} /\ index' \in Trees /\ work' \in Trees
      /\ head' \in DOMAIN refs' \cup (Id' \ {0})
  BY <1>1, <1>4, CheckedOut DEF Checkout
<1>6. staged' \subseteq Files
  BY <1>1 DEF Checkout, NowStaged, TypeOK
<1>7. TypeOK'
  BY <1>1, <1>2, <1>3, <1>5, <1>6 DEF Checkout, TypeOK, CallBecomes, recorded, Id, Steps
<1>8. IndexFits'
  BY <1>5 DEF IndexFits
<1>9. \A d \in Callers : CallFits(d)'
  BY <1>2, CallsSame DEF Checkout
<1> QED
  BY <1>7, <1>8, <1>9, StepWithoutRefs DEF Checkout, recorded

LEMMA ForceCheckoutStep ==
    ASSUME IInv, NEW c \in Callers, ForceCheckout(c)
    PROVE  IInv' /\ Grows
<1>1. TypeOK /\ WellMade(commits)
  BY DEF IInv
<1>2. CallBecomes(c, Idle) /\ Idle.do = "idle"
  BY <1>1, ReturnGives, IdleDoes DEF ForceCheckout
<1>3. calls[c].do = "checkout" /\ steps' \in 0..MaxCalls
  BY <1>1, ContinueGives DEF ForceCheckout
<1> PICK to \in Branches \cup Nat : to = calls[c].ref
  BY <1>1, <1>3, CallKinds
<1>4. staged' \subseteq Files
  BY <1>1 DEF ForceCheckout, NowStaged, TypeOK
<1>5. /\ behind' \in BOOLEAN
      /\ index' \in Trees /\ work' \in Trees
      /\ head' \in DOMAIN refs' \cup (Id' \ {0})
      /\ Differing' = {} \/ behind'
  <2>1. CASE IdOf(to) \in DOMAIN commits
    BY <1>1, <2>1, CheckedOut DEF ForceCheckout, TypeOK
  <2>2. CASE IdOf(to) \notin DOMAIN commits
    <3>1. behind' = TRUE /\ UNCHANGED <<index, work, head, commits, refs>>
      BY <2>2 DEF ForceCheckout
    <3> QED
      BY <1>1, <3>1 DEF TypeOK, Id
  <2> QED
    BY <2>1, <2>2
<1>6. TypeOK'
  BY <1>1, <1>2, <1>3, <1>4, <1>5 DEF ForceCheckout, TypeOK, CallBecomes, Id, Steps
<1>7. IndexFits'
  BY <1>5 DEF IndexFits
<1>8. \A d \in Callers : CallFits(d)'
  BY <1>2, CallsSame DEF ForceCheckout
<1> QED
  BY <1>5, <1>6, <1>7, <1>8, StepWithoutRefs DEF ForceCheckout

-----------------------------------------------------------------------------
(* The actions that make commits or move branches. *)

(* A step of c that moves branches on. *)
LEMMA StepOfRefs ==
    ASSUME IInv, WellMade(commits'), LogGrows, TypeOK', overtaken \subseteq overtaken',
           \A b \in DOMAIN refs \cap DOMAIN refs' : MovesOn(b),
           DOMAIN shadow \subseteq DOMAIN shadow', \A b \in DOMAIN shadow : FileMovesOn(b),
           \A m \in merged' : m.branch \in DOMAIN refs' /\ (m \in merged \/ Recorded(m)'),
           IndexFits', \A d \in Callers : CallFits(d)'
    PROVE  IInv' /\ Grows
<1>1. Grows
  BY GrowsBy DEF IInv
<1>2. ASSUME NEW m \in merged'
      PROVE  m.branch \in DOMAIN refs' /\ Recorded(m)'
  <2>1. CASE m \in merged
    <3>1. m.branch \in DOMAIN refs
      BY <2>1 DEF IInv, MergedFits
    <3> QED
      BY <1>2, <2>1, <3>1, MergedStay
  <2> QED
    BY <1>2, <2>1
<1>3. MergedFits'
  BY <1>2 DEF MergedFits
<1> QED
  BY <1>1, <1>3 DEF IInv

LEMMA FilesStay ==
    ASSUME UNCHANGED shadow
    PROVE  DOMAIN shadow \subseteq DOMAIN shadow' /\ \A b \in DOMAIN shadow : FileMovesOn(b)
BY DEF FileMovesOn, MovesTo

LEMMA LogSame ==
    ASSUME WellMade(commits), UNCHANGED commits
    PROVE  WellMade(commits') /\ LogGrows /\ Id' = Id
BY DEF LogGrows, Id

LEMMA PointToGives ==
    ASSUME NEW b, NEW id, refs' = PointTo(refs, b, id)
    PROVE  /\ DOMAIN refs' = DOMAIN refs \cup {b} /\ refs'[b] = id
           /\ \A d \in DOMAIN refs : d # b => refs'[d] = refs[d]
BY DEF PointTo

LEMMA NewBranchStep ==
    ASSUME IInv, NEW c \in Callers, NEW b \in Branches, NewBranch(c, b)
    PROVE  IInv' /\ Grows
<1>1. TypeOK /\ WellMade(commits)
  BY DEF IInv
<1>2. CallBecomes(c, Idle) /\ Idle.do = "idle"
  BY <1>1, ReturnGives, IdleDoes DEF NewBranch
<1>3. calls[c].do = "idle" /\ steps' \in 0..MaxCalls
  BY <1>1, BeginGives DEF NewBranch
<1>4. WellMade(commits') /\ LogGrows /\ Id' = Id
  BY <1>1, LogSame DEF NewBranch
<1> PICK id \in Id : id = HeadId
  BY <1>1, HeadFits
<1>5. /\ DOMAIN refs' = DOMAIN refs \cup {b} /\ refs'[b] = id
      /\ \A d \in DOMAIN refs : refs'[d] = refs[d]
  BY PointToGives DEF NewBranch
<1>6. TypeOK'
  BY <1>1, <1>2, <1>3, <1>4, <1>5 DEF NewBranch, TypeOK, CallBecomes, noted, recorded, Steps
<1>7. HeadId' = HeadId
  <2>1. head # b
    BY <1>1, Log DEF NewBranch, TypeOK
  <2> QED
    BY <1>5, <2>1 DEF NewBranch, HeadId, OnBranch
<1>8. Differing' = Differing
  BY <1>7 DEF NewBranch, Differing, HeadTree, TreeOf, NoTree
<1>9. IndexFits'
  BY <1>2, <1>3, <1>8, IndexKept DEF NewBranch, noted, recorded
<1>10. \A d \in Callers : CallFits(d)'
  BY <1>2, CallsSame DEF NewBranch
<1>11. \A d \in DOMAIN refs \cap DOMAIN refs' : MovesOn(d)
  BY <1>5 DEF MovesOn, MovesTo
<1>12. \A m \in merged' : m \in merged /\ m.branch \in DOMAIN refs'
  BY <1>5 DEF NewBranch, noted, recorded, IInv, MergedFits
<1> QED
  BY <1>4, <1>5, <1>6, <1>9, <1>10, <1>11, <1>12, StepOfRefs, FilesStay DEF NewBranch, noted, recorded

LEMMA DeleteBranchStep ==
    ASSUME IInv, NEW c \in Callers, NEW b \in Branches, DeleteBranch(c, b)
    PROVE  IInv' /\ Grows
<1>1. TypeOK /\ WellMade(commits)
  BY DEF IInv
<1>2. CallBecomes(c, Idle) /\ Idle.do = "idle"
  BY <1>1, ReturnGives, IdleDoes DEF DeleteBranch
<1>3. calls[c].do = "idle" /\ steps' \in 0..MaxCalls
  BY <1>1, BeginGives DEF DeleteBranch
<1>4. WellMade(commits') /\ LogGrows /\ Id' = Id
  BY <1>1, LogSame DEF DeleteBranch
<1>5. /\ DOMAIN refs' = DOMAIN refs \ {b}
      /\ \A d \in DOMAIN refs \ {b} : refs'[d] = refs[d]
      /\ refs[b] \in Id \ {0} /\ refs[b] \notin Branches
  BY <1>1, Log DEF DeleteBranch, TypeOK
<1>6. TypeOK'
  BY <1>1, <1>2, <1>3, <1>4, <1>5 DEF DeleteBranch, TypeOK, CallBecomes, Steps
<1>7. HeadId' = HeadId
  <2>1. CASE head = b
    BY <1>1, <1>5, <2>1 DEF DeleteBranch, HeadId, OnBranch, TypeOK
  <2>2. CASE head # b
    BY <1>5, <2>2 DEF DeleteBranch, HeadId, OnBranch
  <2> QED
    BY <2>1, <2>2
<1>8. Differing' = Differing
  BY <1>7 DEF DeleteBranch, Differing, HeadTree, TreeOf, NoTree
<1>9. IndexFits'
  BY <1>2, <1>3, <1>8, IndexKept DEF DeleteBranch
<1>10. \A d \in Callers : CallFits(d)'
  BY <1>2, CallsSame DEF DeleteBranch
<1>11. \A d \in DOMAIN refs \cap DOMAIN refs' : MovesOn(d)
  BY <1>5 DEF MovesOn, MovesTo
<1>12. merged' \subseteq merged /\ \A m \in merged' : m.branch \in DOMAIN refs'
  BY <1>5 DEF DeleteBranch, IInv, MergedFits
<1> QED
  BY <1>4, <1>5, <1>6, <1>9, <1>10, <1>11, <1>12, StepOfRefs, FilesStay DEF DeleteBranch

(* A commit of the index, to which HEAD is set. *)
LEMMA CommitOnHead ==
    ASSUME IInv, NEW c \in Callers, CallBecomes(c, Idle), steps' \in 0..MaxCalls,
           WellMade(commits'), LogGrows, NEW new, new \in DOMAIN commits', new # 0,
           Id' = Id \cup {new}, commits'[new].tree = index,
           DOMAIN refs' = DOMAIN refs, \A d \in DOMAIN refs' : refs'[d] \in Id',
           \A d \in DOMAIN refs \cap DOMAIN refs' : MovesOn(d),
           HeadId' = new, head' \in DOMAIN refs' \cup (Id' \ {0}),
           UNCHANGED <<shadow, index, work, mergeBranch, recorded>>, NowStaged({})
    PROVE  IInv' /\ Grows
<1>1. TypeOK /\ Idle.do = "idle"
  BY IdleDoes DEF IInv
<1>2. HeadTree' = index'
  BY DEF HeadTree, TreeOf
<1>3. Differing' = {} /\ IndexFits'
  BY <1>2 DEF Differing, IndexFits
<1>4. staged' \subseteq Files
  BY <1>1 DEF NowStaged, TypeOK
<1>5. TypeOK'
  BY <1>1, <1>4 DEF TypeOK, CallBecomes, recorded, Steps
<1>6. \A d \in Callers : CallFits(d)'
  BY <1>1, CallsKept
<1>7. \A m \in merged' : m \in merged /\ m.branch \in DOMAIN refs'
  BY DEF recorded, IInv, MergedFits
<1> QED
  BY <1>3, <1>5, <1>6, <1>7, StepOfRefs, FilesStay DEF recorded

LEMMA CommitStepStep ==
    ASSUME IInv, NEW c \in Callers, CommitStep(c)
    PROVE  IInv' /\ Grows
<1>1. TypeOK /\ WellMade(commits) /\ index \in Trees
  BY DEF IInv, TypeOK
<1>2. CallBecomes(c, Idle) /\ Idle.do = "idle"
  BY <1>1, ReturnGives, IdleDoes DEF CommitStep
<1>3. calls[c].do = "idle" /\ steps' \in 0..MaxCalls
  BY <1>1, BeginGives DEF CommitStep
<1> PICK id \in Id : id = HeadId
  BY <1>1, HeadFits
<1> DEFINE parents == IF id = 0 THEN <<>> ELSE <<id>>
<1>4. parents \in Seq(Nat) /\ \A i \in DOMAIN parents : parents[i] \in Id
  <2>1. id \in Nat
    BY <1>1, Log
  <2> QED
    BY <2>1
<1>5. id # 0 => 1 \in DOMAIN parents /\ parents[1] = id
  OBVIOUS
<1>6. AddCommit(parents, index)
  BY DEF CommitStep
<1> HIDE DEF parents
<1>7. /\ WellMade(commits') /\ LogGrows
      /\ NewId \in DOMAIN commits' /\ NewId # 0
      /\ Id' = Id \cup {NewId} /\ commits'[NewId].tree = index
      /\ {0, NewId} \subseteq commits'[NewId].from
      /\ \A i \in DOMAIN parents : Ancestors(parents[i]) \subseteq commits'[NewId].from
  BY <1>1, <1>4, <1>6, CommitAdded
<1>8. Ancestors(id) \subseteq commits'[NewId].from
  BY <1>5, <1>7 DEF Ancestors
<1> PICK new : new = NewId
  OBVIOUS
<1>9. new \notin Branches
  BY <1>1, Log DEF NewId
<1>10. CASE OnBranch
  <2>1. /\ DOMAIN refs' = DOMAIN refs /\ refs'[head] = new /\ head' = head
        /\ \A d \in DOMAIN refs : d # head => refs'[d] = refs[d]
        /\ head \in DOMAIN refs /\ refs[head] = id
    <3>1. refs' = PointTo(refs, head, new) /\ head' = head /\ id = refs[head]
      BY <1>10 DEF CommitStep, HeadId
    <3>2. head \in DOMAIN refs
      BY <1>10 DEF OnBranch
    <3>3. /\ DOMAIN refs' = DOMAIN refs \cup {head} /\ refs'[head] = new
          /\ \A d \in DOMAIN refs : d # head => refs'[d] = refs[d]
      BY <3>1, PointToGives
    <3> QED
      BY <3>1, <3>2, <3>3
  <2>2. /\ \A d \in DOMAIN refs' : refs'[d] \in Id'
        /\ head' \in DOMAIN refs'
        /\ \A d \in DOMAIN refs \cap DOMAIN refs' : MovesOn(d)
    BY <1>1, <1>7, <1>8, <2>1 DEF TypeOK, MovesOn, MovesTo
  <2>3. HeadId' = new
    BY <2>1 DEF HeadId, OnBranch
  <2> QED
    BY <1>1, <1>2, <1>3, <1>7, <2>1, <2>2, <2>3, CommitOnHead DEF CommitStep
<1>11. CASE ~OnBranch
  <2>1. refs' = refs /\ head' = new /\ new \in Id' \ {0}
    BY <1>7, <1>11 DEF CommitStep
  <2>2. /\ \A d \in DOMAIN refs' : refs'[d] \in Id'
        /\ \A d \in DOMAIN refs \cap DOMAIN refs' : MovesOn(d)
    BY <1>1, <1>7, <2>1 DEF TypeOK, MovesOn, MovesTo
  <2>3. HeadId' = new
    BY <1>1, <1>9, <2>1 DEF HeadId, OnBranch, TypeOK
  <2> QED
    BY <1>1, <1>2, <1>3, <1>7, <2>1, <2>2, <2>3, CommitOnHead DEF CommitStep
<1> QED
  BY <1>10, <1>11

(* A merge that moves the current branch, or the file that hides it, on to *)
(* a commit that has both.                                                 *)
LEMMA MergedInto ==
    ASSUME IInv, NEW c \in Callers, NEW r \in Steps, r.do = "checkout", CallBecomes(c, r),
           steps' \in 0..MaxCalls,
           WellMade(commits'), LogGrows, Id \subseteq Id',
           NEW to \in Id' \ {0}, head \in DOMAIN refs,
           Ancestors(IdOf(head)) \subseteq commits'[to].from,
           NEW tip \in Nat, tip \in commits'[to].from, MergesTo(to, tip),
           UNCHANGED <<head, index, work, mergeBranch, staged, overtaken, behind>>
    PROVE  IInv' /\ Grows
<1>1. TypeOK
  BY DEF IInv
<1> PICK into : into = IF head \in DOMAIN shadow THEN "file" ELSE "branch"
  OBVIOUS
<1> PICK new : new = [branch |-> head, tip |-> tip, into |-> into]
  OBVIOUS
<1>2. merged' = merged \cup {new} /\ head \in Branches
  BY <1>1 DEF MergesTo, TypeOK
<1>3. /\ new.branch = head /\ new.tip = tip /\ new.into = into
      /\ new \in [branch : Branches, tip : Nat, into : {"file", "branch"}]
  BY <1>2
<1>4. /\ DOMAIN refs' = DOMAIN refs /\ DOMAIN shadow' = DOMAIN shadow
      /\ \A d \in DOMAIN refs : d # head => refs'[d] = refs[d]
      /\ \A d \in DOMAIN shadow : d # head => shadow'[d] = shadow[d]
      /\ head \in DOMAIN shadow => refs' = refs /\ shadow'[head] = to
      /\ head \notin DOMAIN shadow => shadow' = shadow /\ refs'[head] = to
  BY DEF MergesTo, PointTo
<1>5. /\ \A d \in DOMAIN refs' : refs'[d] \in Id'
      /\ \A d \in DOMAIN shadow' : shadow'[d] \in Id' \ {0}
  BY <1>1, <1>4 DEF TypeOK
<1>6. TypeOK'
  BY <1>1, <1>2, <1>3, <1>4, <1>5 DEF TypeOK, CallBecomes, Steps
<1>7. IndexFits'
  BY DEF IndexFits, CallBecomes
<1>8. \A d \in Callers : CallFits(d)'
  BY CallsKept
<1>9. \A d \in DOMAIN refs : MovesOn(d)
  BY <1>4 DEF MovesOn, MovesTo, IdOf
<1>10. \A d \in DOMAIN shadow : FileMovesOn(d)
  BY <1>4 DEF FileMovesOn, MovesTo, IdOf
<1>11. Recorded(new)'
  BY <1>3, <1>4 DEF Recorded, Ancestors
<1>12. ASSUME NEW m \in merged'
       PROVE  m.branch \in DOMAIN refs' /\ (m \in merged \/ Recorded(m)')
  <2>1. CASE m \in merged
    BY <1>4, <2>1 DEF IInv, MergedFits
  <2>2. CASE m = new
    BY <1>3, <1>4, <1>11, <2>2
  <2> QED
    BY <1>2, <1>12, <2>1, <2>2
<1> QED
  BY <1>4, <1>6, <1>7, <1>8, <1>9, <1>10, <1>12, StepOfRefs

LEMMA MergeStep ==
    ASSUME IInv, NEW c \in Callers, NEW b \in Branches, NEW noFF \in BOOLEAN,
           Merge(c, b, noFF)
    PROVE  IInv' /\ Grows
<1>1. TypeOK /\ WellMade(commits)
  BY DEF IInv
<1>2. /\ Begin(c) /\ head \in DOMAIN refs /\ head \in Branches
      /\ head \in Names /\ b \in Names
      /\ IdOf(head) # 0 /\ IdOf(b) # 0
      /\ UNCHANGED <<head, index, work, mergeBranch, staged, overtaken, behind>>
  BY <1>1 DEF Merge, OnBranch, TypeOK, Names
<1> PICK ours \in Id, theirs \in Id : ours = IdOf(head) /\ theirs = IdOf(b)
  BY <1>1, <1>2, IdOfFits
<1> PICK tree : tree = MergedTree(ours, theirs)
  OBVIOUS
<1> DEFINE r == [do |-> "checkout", ref |-> head]
<1>3. calls[c].do = "idle" /\ steps' \in 0..MaxCalls
  BY <1>1, <1>2, BeginGives
<1>4. r \in Steps /\ r.do = "checkout"
  BY <1>2 DEF Steps
<1>5. \/ Return(c) /\ UNCHANGED <<commits, refs, shadow, merged>>
      \/ /\ ours \in Ancestors(theirs)
         /\ MergesTo(theirs, theirs) /\ GoOn(c, r) /\ UNCHANGED commits
      \/ /\ AddCommit(<<ours, theirs>>, tree)
         /\ MergesTo(NewId, theirs) /\ GoOn(c, r)
  BY DEF Merge
<1> HIDE DEF r
<1>6. Ancestors(theirs) \subseteq Id /\ {0, theirs} \subseteq Ancestors(theirs)
  BY <1>1, AncestorsFit
<1>7. theirs \in Nat /\ theirs \in DOMAIN commits /\ theirs \in Id \ {0}
  BY <1>1, <1>2, Log
<1>8. CASE Return(c) /\ UNCHANGED <<commits, refs, shadow, merged>>
  <2>1. CallBecomes(c, Idle) /\ Idle.do = "idle"
    BY <1>1, <1>8, ReturnGives, IdleDoes
  <2> QED
    BY <1>1, <1>2, <1>3, <1>8, <2>1, CallStep DEF TypeOK, noted, recorded
<1>9. CASE /\ ours \in Ancestors(theirs)
           /\ MergesTo(theirs, theirs) /\ GoOn(c, r) /\ UNCHANGED commits
  <2>1. CallBecomes(c, r)
    BY <1>1, <1>4, <1>9, GoOnGives
  <2>2. WellMade(commits') /\ LogGrows /\ Id' = Id
    BY <1>1, <1>9, LogSame
  <2>3. Ancestors(ours) \subseteq Ancestors(theirs)
    BY <1>1, <1>9, AncestorsFit
  <2>4. Ancestors(theirs) = commits'[theirs].from
    BY <1>7, <1>9 DEF Ancestors
  <2> QED
    BY <1>2, <1>3, <1>4, <1>6, <1>7, <1>9, <2>1, <2>2, <2>3, <2>4, MergedInto
<1>10. CASE /\ AddCommit(<<ours, theirs>>, tree)
            /\ MergesTo(NewId, theirs) /\ GoOn(c, r)
  <2>1. CallBecomes(c, r)
    BY <1>1, <1>4, <1>10, GoOnGives
  <2> PICK parents : parents = <<ours, theirs>>
    OBVIOUS
  <2>2. /\ parents \in Seq(Nat) /\ DOMAIN parents = {1, 2}
        /\ parents[1] = ours /\ parents[2] = theirs
    BY <1>1, Log
  <2>3. tree \in Trees
    BY <1>1, MergedTreeFits
  <2> PICK new : new = NewId
    OBVIOUS
  <2>4. /\ WellMade(commits') /\ LogGrows
        /\ new \in DOMAIN commits' /\ new # 0
        /\ Id' = Id \cup {new}
        /\ \A i \in DOMAIN parents : Ancestors(parents[i]) \subseteq commits'[new].from
    <3>1. AddCommit(parents, tree)
      BY <1>10
    <3>2. \A i \in DOMAIN parents : parents[i] \in Id
      BY <2>2
    <3> QED
      BY <1>1, <2>2, <2>3, <3>1, <3>2, CommitAdded
  <2>5. /\ Ancestors(ours) \subseteq commits'[new].from
        /\ theirs \in commits'[new].from
    BY <1>6, <2>2, <2>4 DEF Ancestors
  <2> QED
    BY <1>2, <1>3, <1>4, <1>7, <1>10, <2>1, <2>4, <2>5, MergedInto
<1> QED
  BY <1>5, <1>8, <1>9, <1>10

(* The commit of a merge --continue, which sets the file .git/<branch>. *)
LEMMA MergeCommitStep ==
    ASSUME IInv, NEW c \in Callers, MergeCommit(c)
    PROVE  IInv' /\ Grows
<1>1. TypeOK /\ WellMade(commits) /\ index \in Trees
  BY DEF IInv, TypeOK
<1>2. calls[c].do = "commit" /\ steps' \in 0..MaxCalls
  BY <1>1, ContinueGives DEF MergeCommit
<1> PICK ours \in Branches, at \in Id, theirs \in Id :
        ours = calls[c].ours /\ at = calls[c].at /\ theirs = calls[c].theirs
  BY <1>1, <1>2, CallKinds DEF IInv, CallFits
<1> PICK new : new = NewId
  OBVIOUS
<1> DEFINE parents == <<at, theirs>>
           r == [do |-> "write", ours |-> ours, at |-> at, theirs |-> theirs, oid |-> new]
<1>3. /\ at \in Nat /\ theirs \in Nat /\ new \in Nat
      /\ theirs \in Ancestors(theirs)
  BY <1>1, Log, AncestorsFit DEF NewId
<1>4. parents \in Seq(Nat) /\ \A i \in DOMAIN parents : parents[i] \in Id
  BY <1>3
<1>5. 1 \in DOMAIN parents /\ parents[1] = at /\ 2 \in DOMAIN parents /\ parents[2] = theirs
  OBVIOUS
<1>6. /\ AddCommit(parents, index)
      /\ shadow' = PointTo(shadow, ours, new)
      /\ Overtakes(ours, shadow, at)
      /\ GoOn(c, r)
      /\ UNCHANGED <<refs, head, index, work, mergeBranch, staged, merged, behind>>
  BY DEF MergeCommit
<1>7. /\ r \in Steps /\ r.do = "write" /\ r.at = at /\ r.theirs = theirs /\ r.oid = new
  BY <1>3 DEF Steps
<1> HIDE DEF parents, r
<1>8. CallBecomes(c, r)
  BY <1>1, <1>6, <1>7, GoOnGives
<1>9. /\ WellMade(commits') /\ LogGrows
      /\ new \in DOMAIN commits' /\ new # 0
      /\ Id' = Id \cup {new}
      /\ \A i \in DOMAIN parents : Ancestors(parents[i]) \subseteq commits'[new].from
  BY <1>1, <1>4, <1>6, CommitAdded
<1>10. Ancestors(at) \subseteq commits'[new].from /\ theirs \in commits'[new].from
  BY <1>3, <1>5, <1>9
<1>11. /\ DOMAIN shadow' = DOMAIN shadow \cup {ours} /\ shadow'[ours] = new
       /\ \A d \in DOMAIN shadow : d # ours => shadow'[d] = shadow[d]
  BY <1>6 DEF PointTo
<1>12. /\ overtaken \subseteq overtaken' /\ overtaken' \subseteq Branches
       /\ ours \in DOMAIN shadow /\ shadow[ours] # at => ours \in overtaken'
  BY <1>1, <1>6 DEF Overtakes, TypeOK
<1>13. \A d \in DOMAIN shadow : FileMovesOn(d)
  <2>1. ours \in DOMAIN shadow => FileMovesOn(ours)
    BY <1>9, <1>10, <1>11, <1>12 DEF FileMovesOn, MovesTo
  <2> QED
    BY <1>11, <2>1 DEF FileMovesOn, MovesTo
<1>14. TypeOK'
  <2>1. /\ DOMAIN shadow' \subseteq Branches
        /\ \A d \in DOMAIN shadow' : shadow'[d] \in Id' \ {0}
        /\ \A d \in DOMAIN refs' : refs'[d] \in Id'
    BY <1>1, <1>6, <1>9, <1>11 DEF TypeOK
  <2>2. head' \in DOMAIN refs' \cup (Id' \ {0})
    BY <1>1, <1>6, <1>9 DEF TypeOK
  <2>3. calls' \in [Callers -> Steps]
    BY <1>8 DEF CallBecomes
  <2> QED
    BY <1>1, <1>2, <1>6, <1>12, <2>1, <2>2, <2>3 DEF TypeOK
<1>15. Differing' = Differing
  <2> PICK id \in Id : id = HeadId
    BY <1>1, HeadFits
  <2>1. HeadId' = id /\ TreeOf(id)' = TreeOf(id)
    BY <1>1, <1>6, <1>9, LogStays DEF HeadId, OnBranch
  <2>2. HeadTree' = HeadTree
    BY <2>1 DEF HeadTree, TreeOf, NoTree
  <2> QED
    BY <1>6, <2>2 DEF Differing
<1>16. IndexFits'
  BY <1>2, <1>6, <1>8, <1>15, IndexKept
<1>17. \A d \in Callers : CallFits(d)'
  BY <1>7, <1>8, <1>9, <1>10, CallsKept
<1>18. /\ \A d \in DOMAIN refs \cap DOMAIN refs' : MovesOn(d)
       /\ \A m \in merged' : m.branch \in DOMAIN refs' /\ m \in merged
  BY <1>6 DEF MovesOn, MovesTo, IInv, MergedFits
<1> QED
  BY <1>9, <1>11, <1>12, <1>13, <1>14, <1>16, <1>17, <1>18, StepOfRefs

(* The end of a merge --continue: the branch it began with is written. *)
LEMMA MergeWriteStep ==
    ASSUME IInv, NEW c \in Callers, MergeWrite(c)
    PROVE  IInv' /\ Grows
<1>1. TypeOK /\ WellMade(commits)
  BY DEF IInv
<1>2. CallBecomes(c, Idle) /\ Idle.do = "idle"
  BY <1>1, ReturnGives, IdleDoes DEF MergeWrite
<1>3. calls[c].do = "write" /\ steps' \in 0..MaxCalls
  BY <1>1, ContinueGives DEF MergeWrite
<1> PICK ours \in Branches, at \in Id, theirs \in Id, oid \in Id \ {0} :
        /\ ours = calls[c].ours /\ at = calls[c].at /\ theirs = calls[c].theirs
        /\ oid = calls[c].oid
        /\ theirs \in Ancestors(oid) /\ Ancestors(at) \subseteq Ancestors(oid)
  BY <1>1, <1>3, CallKinds DEF IInv, CallFits
<1> PICK new : new = [branch |-> ours, tip |-> theirs, into |-> "branch"]
  OBVIOUS
<1>4. /\ refs' = PointTo(refs, ours, oid)
      /\ mergeBranch' = None
      /\ merged' = merged \cup {new}
      /\ Overtakes(ours, refs, at)
      /\ behind' = (behind \/ (head = ours /\ index # TreeOf(oid)))
      /\ UNCHANGED <<commits, shadow, head, index, work>>
      /\ NowStaged({})
  BY DEF MergeWrite
<1>5. /\ new.branch = ours /\ new.tip = theirs /\ new.into = "branch"
      /\ new \in [branch : Branches, tip : Nat, into : {"file", "branch"}]
  BY <1>1, Log
<1>6. WellMade(commits') /\ LogGrows /\ Id' = Id
  BY <1>1, <1>4, LogSame
<1>7. /\ DOMAIN refs' = DOMAIN refs \cup {ours} /\ refs'[ours] = oid
      /\ \A d \in DOMAIN refs : d # ours => refs'[d] = refs[d]
  BY <1>4 DEF PointTo
<1>8. /\ overtaken \subseteq overtaken' /\ overtaken' \subseteq Branches
      /\ ours \in DOMAIN refs /\ refs[ours] # at => ours \in overtaken'
  BY <1>1, <1>4 DEF Overtakes, TypeOK
<1>9. \A d \in DOMAIN refs \cap DOMAIN refs' : MovesOn(d)
  <2>1. calls'[c] # calls[c]
    BY <1>2, <1>3 DEF CallBecomes
  <2>2. ours \in DOMAIN refs => MovesOn(ours)
    <3>1. CASE ours \in DOMAIN refs /\ refs[ours] # at
      BY <1>3, <1>8, <2>1, <3>1 DEF MovesOn, Overwritten
    <3>2. CASE refs[ours] = at
      BY <1>4, <1>7, <3>2 DEF MovesOn, MovesTo, Ancestors
    <3> QED
      BY <3>1, <3>2
  <2> QED
    BY <1>7, <2>2 DEF MovesOn, MovesTo
<1>10. /\ staged' \subseteq Files
       /\ behind' \/ (Differing \subseteq staged => Differing' \subseteq staged')
  <2>1. CASE head = ours
    <3>1. HeadTree' = TreeOf(oid)
      BY <1>4, <1>7, <2>1 DEF HeadTree, HeadId, OnBranch, TreeOf, NoTree
    <3>2. behind' \/ Differing' = {}
      BY <1>4, <2>1, <3>1 DEF Differing
    <3> QED
      BY <1>1, <1>4, <3>2 DEF NowStaged, TypeOK
  <2>2. CASE head # ours
    <3>1. HeadId' = HeadId
      BY <1>4, <1>7, <2>2 DEF HeadId, OnBranch
    <3>2. HeadTree' = HeadTree
      BY <1>4, <3>1 DEF HeadTree, TreeOf, NoTree
    <3>3. Differing' = Differing
      BY <1>4, <3>2 DEF Differing
    <3> QED
      BY <1>1, <1>4, <3>3, StagedFollows
  <2> QED
    BY <2>1, <2>2
<1>11. TypeOK'
  <2>1. \A d \in DOMAIN refs' : refs'[d] \in Id'
    BY <1>1, <1>6, <1>7 DEF TypeOK
  <2>2. /\ DOMAIN refs' \subseteq Branches
        /\ head' \in DOMAIN refs' \cup (Id' \ {0})
        /\ merged' \subseteq [branch : Branches, tip : Nat, into : {"file", "branch"}]
    BY <1>1, <1>4, <1>5, <1>6, <1>7 DEF TypeOK
  <2>3. calls' \in [Callers -> Steps] /\ behind' \in BOOLEAN
    BY <1>2, <1>4 DEF CallBecomes
  <2> QED
    BY <1>1, <1>3, <1>4, <1>6, <1>8, <1>10, <2>1, <2>2, <2>3 DEF TypeOK
<1>12. IndexFits'
  <2>1. CASE behind'
    BY <2>1 DEF IndexFits
  <2>2. CASE ~behind'
    BY <1>2, <1>3, <1>4, <1>10, <2>2, IndexKept
  <2> QED
    BY <2>1, <2>2
<1>13. \A d \in Callers : CallFits(d)'
  BY <1>2, <1>4, CallsSame
<1>14. Recorded(new)'
  BY <1>4, <1>5, <1>7 DEF Recorded, Ancestors
<1>15. ASSUME NEW m \in merged'
       PROVE  m.branch \in DOMAIN refs' /\ (m \in merged \/ Recorded(m)')
  <2>1. CASE m \in merged
    BY <1>7, <2>1 DEF IInv, MergedFits
  <2>2. CASE m = new
    BY <1>5, <1>7, <1>14, <2>2
  <2> QED
    BY <1>4, <1>15, <2>1, <2>2
<1> QED
  BY <1>4, <1>6, <1>8, <1>9, <1>11, <1>12, <1>13, <1>15, StepOfRefs, FilesStay

-----------------------------------------------------------------------------
(* The invariant and what follows from it. *)

LEMMA InitIInv == Init => IInv
<1> SUFFICES ASSUME Init PROVE IInv
  OBVIOUS
<1> PICK start \in Starts :
        commits = start.commits /\ refs = start.refs /\ shadow = start.shadow
  BY DEF Init
<1>1. /\ WellMade(commits) /\ Main \in DOMAIN refs /\ DOMAIN refs \subseteq Branches
      /\ \A b \in DOMAIN refs : refs[b] \in Id
      /\ DOMAIN shadow \subseteq Branches
      /\ \A b \in DOMAIN shadow : shadow[b] \in Id \ {0}
  BY DEF Id
<1>2. head \in DOMAIN refs /\ head = Main /\ HeadId = refs[head] /\ OnBranch
  BY <1>1 DEF Init, HeadId, OnBranch
<1>3. HeadTree \in Trees
  <2> PICK id \in Id : id = HeadId
    BY <1>1, <1>2
  <2> QED
    BY <1>1, AncestorsFit DEF HeadTree
<1>4. \A c \in Callers : calls[c] = Idle /\ calls[c].do = "idle"
  BY IdleDoes DEF Init
<1>5. TypeOK
  <2>1. calls \in [Callers -> Steps] /\ steps \in 0..MaxCalls
    BY IdleDoes DEF Init
  <2>2. index \in Trees /\ work \in Trees /\ mergeBranch = None /\ merged = {}
    BY <1>3 DEF Init
  <2>3. overtaken = {} /\ behind = FALSE /\ staged = {}
    BY DEF Init
  <2> QED
    BY <1>1, <1>2, <2>1, <2>2, <2>3 DEF TypeOK
<1>6. MergedFits /\ IndexFits
  BY DEF Init, MergedFits, IndexFits, Differing
<1>7. \A c \in Callers : CallFits(c)
  BY <1>4 DEF CallFits
<1> QED
  BY <1>1, <1>5, <1>6, <1>7 DEF IInv

LEMMA StepIInv == IInv /\ [Next]_vars => IInv' /\ [Grows]_vars
<1> SUFFICES ASSUME IInv, [Next]_vars PROVE IInv' /\ [Grows]_vars
  OBVIOUS
<1>1. CASE UNCHANGED vars
  <2>1. UNCHANGED <<commits, refs, shadow, head, index, work, mergeBranch, calls, steps,
                    overtaken, behind, staged, merged>>
    BY <1>1 DEF vars, repo, noted, recorded
  <2>2. WellMade(commits)' /\ MergedFits' /\ TypeOK'
    BY <2>1 DEF IInv, MergedFits, Recorded, TypeOK, Ancestors, Id
  <2>3. IndexFits' /\ \A c \in Callers : CallFits(c)'
    BY <2>1, SameDiffering DEF IInv, IndexFits, CallFits, Id, Ancestors
  <2> QED
    BY <1>1, <2>2, <2>3 DEF IInv
<1>2. ASSUME NEW f \in Files, NEW content \in Contents \cup {None}, EditFile(f, content)
      PROVE  IInv' /\ Grows
  BY <1>2, EditFileStep
<1>3. ASSUME NEW c \in Callers, Add(c, Files)
      PROVE  IInv' /\ Grows
  BY <1>3, AddStep
<1>4. ASSUME NEW c \in Callers, NEW f \in Files, Add(c, {f}) \/ Rm(c, f)
      PROVE  IInv' /\ Grows
  BY <1>4, AddStep, RmStep
<1>5. ASSUME NEW c \in Callers, NEW f \in Files, NEW g \in Files, Mv(c, f, g)
      PROVE  IInv' /\ Grows
  BY <1>5, MvStep
<1>6. ASSUME NEW c \in Callers, NEW b \in Branches,
             NewBranch(c, b) \/ DeleteBranch(c, b) \/ MergeConflict(c, b)
      PROVE  IInv' /\ Grows
  BY <1>6, NewBranchStep, DeleteBranchStep, MergeConflictStep
<1>11. ASSUME NEW c \in Callers, NEW b \in Branches, NEW noFF \in BOOLEAN, Merge(c, b, noFF)
       PROVE  IInv' /\ Grows
  BY <1>11, MergeStep
<1>7. ASSUME NEW c \in Callers, NEW to \in Names \cup DOMAIN commits, Checkout(c, to)
      PROVE  IInv' /\ Grows
  BY <1>7, CheckoutStep
<1>8. ASSUME NEW c \in Callers, NEW abort \in BOOLEAN, Reset(c, abort)
      PROVE  IInv' /\ Grows
  BY <1>8, ResetStep
<1>9. ASSUME NEW c \in Callers,
             CommitStep(c) \/ MergeContinue(c) \/ MvRemove(c) \/ MvAdd(c) \/ ForceCheckout(c)
      PROVE  IInv' /\ Grows
  BY <1>9, CommitStepStep, MergeContinueStep, MvRemoveStep, MvAddStep, ForceCheckoutStep
<1>10. ASSUME NEW c \in Callers, 
             StageAll(c) \/ MergeCommit(c) \/ MergeCommitFails(c) \/ MergeWrite(c)
       PROVE  IInv' /\ Grows
  BY <1>10, StageAllStep, MergeCommitStep, MergeCommitFailsStep, MergeWriteStep
<1> QED
  BY <1>1, <1>2, <1>3, <1>4, <1>5, <1>6, <1>7, <1>8, <1>9, <1>10, <1>11 DEF Next

(* The inductive invariant holds of every repository the commands can      *)
(* make (box/git/builtin_git.py), however those of several callers overlap. *)
THEOREM InvariantHolds == Spec => []IInv
<1>1. IInv /\ [Next]_vars => IInv'
  BY StepIInv
<1> QED
  BY InitIInv, <1>1, PTL DEF Spec

(* HEAD is always a branch that exists or a commit, every branch is at a   *)
(* commit that exists or at none, and a half-done command remembers what   *)
(* its next step needs (box/git/builtin_git.py).                           *)
THEOREM TypeCorrect == Spec => []TypeOK
<1>1. IInv => TypeOK
  BY DEF IInv
<1> QED
  BY InvariantHolds, <1>1, PTL

(* Between commands the index differs from HEAD in what somebody staged    *)
(* and in nothing else: the next git commit does not undo a merge, reset   *)
(* or checkout (the merge, reset and checkout scripts of builtin_git.py).   *)
THEOREM StagedByHandHolds == Spec => []StagedByHand
<1>1. IInv => StagedByHand
  <2> SUFFICES ASSUME IInv, ~behind, \A c \in Callers : calls[c] = Idle
               PROVE  Differing \subseteq staged
    BY DEF StagedByHand, Differing
  <2>1. \A c \in Callers : calls[c].do # "checkout"
    BY IdleDoes
  <2> QED
    BY <2>1 DEF IInv, IndexFits
<1> QED
  BY InvariantHolds, <1>1, PTL

(* The tip a merge reported as merged is from then on in the history of its *)
(* branch, or of the file .git/<branch> where that took the merge, so that  *)
(* merging again is "Already up to date", unless a merge --continue has     *)
(* overwritten it (builtin_git.py, merge).                                   *)
THEOREM MergedIsRecordedHolds == Spec => []MergedIsRecorded
<1>1. IInv => MergedIsRecorded
  BY DEF IInv, MergedFits, Recorded, MergedIsRecorded, TypeOK
<1> QED
  BY InvariantHolds, <1>1, PTL

(* No command moves a branch to a commit that lacks what was committed on  *)
(* it, whatever the commands of the callers interleave, but for the last   *)
(* step of a merge --continue that took for the branch what it is not at:  *)
(* it was moved meanwhile, or .git/<branch> is older (builtin_git.py).      *)
THEOREM HistoryGrowsHolds == Spec => HistoryGrows
<1>1. IInv /\ [Next]_vars => [Grows]_vars
  BY StepIInv
<1> QED
  BY InvariantHolds, <1>1, PTL DEF Spec, HistoryGrows, Grows
=============================================================================
