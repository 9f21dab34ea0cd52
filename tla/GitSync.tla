------------------------------- MODULE GitSync -------------------------------
(***************************************************************************)
(* Sandboxes that share a repository through a store (S3, or a directory): *)
(* restore at the start, git commit, push, pull and fetch, of a GitBox     *)
(* (box/git_box.py, box/git/sync.py, host_commands/git_sync.py) and of an  *)
(* AgentCoreBox, which also pushes when it stops (box/agentcore_box.py,    *)
(* box/git/engine_sync.py).                                                *)
(*                                                                         *)
(* Box and store are both maps from files to their contents, copied file   *)
(* by file in either direction.  The files are one for each commit, the    *)
(* branch (refs/heads/main) and .agentbox-push-ref, which a push writes    *)
(* last and every restore and pull also copies into the box.  A box runs   *)
(* one transfer at a time.  Left out: the working tree and the index,      *)
(* other branches, and tags.                                               *)
(*                                                                         *)
(* A definition preceded by "Slip:" is its namesake with one plausible     *)
(* mistake and not part of the model.                                      *)
(***************************************************************************)
EXTENDS Naturals, FiniteSets

CONSTANTS
    Box,
    AgentCore,      \* those that are AgentCoreBoxes, the others are GitBoxes
    Commit,         \* bound: the commits that may be made
    Branch,         \* the file .git/refs/heads/main
    PushRef,        \* the file .agentbox-push-ref
    Absent,         \* the content of a file that is not there
    MaxTransfers,   \* bound on the transfers that are begun
    MaxFaults       \* bound: files that cannot be read, stores that fail, crashes

ASSUME ConstantsAssumption ==
    /\ AgentCore \subseteq Box
    /\ Branch \notin Commit /\ PushRef \notin Commit /\ Absent \notin Commit
    /\ Branch # PushRef
    /\ MaxTransfers \in Nat /\ MaxFaults \in Nat

File == Commit \cup {Branch, PushRef}
Content == Commit \cup {Absent}
Nothing == [f \in File |-> Absent]

VARIABLES
    store,      \* File -> its content
    mem,        \* Box -> File -> its content
    up,         \* the boxes that execute commands
    gone,       \* the boxes that have been stopped or have died
    refsFirst,  \* boxes whose restored .git/refs is older than their .git/objects
    lastPull,   \* Box -> AGENTBOX_LAST_PULL_REF
    op,         \* Box -> the transfer under way
    past,       \* Commit -> its history with itself, {} until it is made
    transfers,  \* transfers begun so far
    faults,     \* faults so far
    ahead,      \* commits that the branch in the store was ahead of
    pulled      \* boxes whose lastPull is a pull's, not the restore's

boxVars  == <<mem, up, gone, refsFirst, lastPull, op>>
histVars == <<ahead, pulled>>
vars == <<store, boxVars, past, transfers, faults, histVars>>

Idle == [kind |-> "none", pc |-> "idle", head |-> Absent, todo |-> {}, errors |-> FALSE]

TypeOK ==
    /\ store \in [File -> Content]
    /\ mem \in [Box -> [File -> Content]]
    /\ up \subseteq Box /\ gone \subseteq Box \ up /\ refsFirst \subseteq Box
    /\ lastPull \in [Box -> Content]
    /\ op \in [Box -> [kind : {"none", "restore", "pull", "fetch", "push", "sync"},
                       pc : {"idle", "list", "copy"},
                       head : Content, todo : SUBSET File, errors : BOOLEAN]]
    /\ past \in [Commit -> SUBSET Commit]
    /\ transfers \in 0..MaxTransfers /\ faults \in 0..MaxFaults
    /\ ahead \subseteq Commit
    /\ pulled \subseteq Box

Init ==
    /\ store = Nothing
    /\ mem = [b \in Box |-> Nothing]
    /\ up = {} /\ gone = {} /\ refsFirst = {}
    /\ lastPull = [b \in Box |-> Absent]
    /\ op = [b \in Box |-> Idle]
    /\ past = [c \in Commit |-> {}]
    /\ transfers = 0 /\ faults = 0
    /\ ahead = {} /\ pulled = {}

Transfer == transfers < MaxTransfers /\ transfers' = transfers + 1
Fault == faults < MaxFaults /\ faults' = faults + 1

Stored(files) == {f \in File : files[f] # Absent}

(* The store's PushRef is read as ref: an error looks like a missing file. *)
Read(ref) ==
    \/ ref = store[PushRef] /\ UNCHANGED faults
    \/ ref = Absent /\ ref # store[PushRef] /\ Fault

(* b begins a push or a pull, with the HEAD it pushes or, in a GitBox, the *)
(* PushRef it pulls, both read before the files are listed.                *)
Begin(b, kind, head) ==
    op' = [op EXCEPT ![b] = [Idle EXCEPT !.kind = kind, !.pc = "list", !.head = head]]

(* b lists the files and begins to copy them. *)
Copy(b, kind, files) ==
    op' = [op EXCEPT ![b].kind = kind, ![b].pc = "copy", ![b].todo = files]
End(b) == op' = [op EXCEPT ![b] = Idle]

(* b and all it holds are gone. *)
Gone(b) ==
    /\ End(b)
    /\ mem' = [mem EXCEPT ![b] = Nothing]
    /\ up' = up \ {b}
    /\ gone' = gone \cup {b}
    /\ refsFirst' = refsFirst \ {b}
    /\ lastPull' = [lastPull EXCEPT ![b] = Absent]
    /\ pulled' = pulled \ {b}

-----------------------------------------------------------------------------
(* Start and stop. *)

(* start(): restore what the store has, or init. *)
Start(b) ==
    /\ b \notin up \cup gone /\ op[b] = Idle
    /\ IF Stored(store) = {} THEN up' = up \cup {b} /\ UNCHANGED <<op, transfers>>
                             ELSE Copy(b, "restore", Stored(store)) /\ Transfer /\ UNCHANGED up
    /\ UNCHANGED <<store, mem, gone, refsFirst, lastPull, past, faults, histVars>>

(* Errors are logged.  A GitBox that got anything notes the PushRef of the *)
(* store as it is now.                                                     *)
RestoreDone(b) ==
    /\ op[b].kind = "restore" /\ op[b].pc = "copy" /\ op[b].todo = {}
    /\ up' = up \cup {b}
    /\ IF b \in AgentCore \/ Stored(mem[b]) = {}
       THEN UNCHANGED <<lastPull, faults>>
       ELSE \E ref \in Content :
                Read(ref) /\ lastPull' = [lastPull EXCEPT ![b] = ref]
    /\ End(b)
    /\ UNCHANGED <<store, mem, gone, refsFirst, past, transfers, histVars>>

(* stop() of a GitBox closes its page, whatever runs in it. *)
Close(b) ==
    /\ b \in up \ AgentCore
    /\ Gone(b)
    /\ UNCHANGED <<store, past, transfers, faults, ahead>>

(* stop() of an AgentCoreBox pushes its files first ... *)
Stop(b) ==
    /\ b \in up \cap AgentCore /\ op[b] = Idle
    /\ Transfer
    /\ up' = up \ {b}
    /\ Copy(b, "sync", Stored(mem[b]))
    /\ UNCHANGED <<store, mem, gone, refsFirst, lastPull, past, faults, histVars>>

(* ... and ends the session, whatever the errors. *)
SyncDone(b) ==
    /\ op[b].kind = "sync" /\ op[b].pc = "copy" /\ op[b].todo = {}
    /\ Gone(b)
    /\ UNCHANGED <<store, past, transfers, faults, ahead>>

(* The worker or the session dies. *)
Dies(b) ==
    /\ b \in up \/ op[b] # Idle
    /\ Fault
    /\ Gone(b)
    /\ UNCHANGED <<store, past, transfers, ahead>>

-----------------------------------------------------------------------------
(* git commit.  Executions of a sandbox may overlap: it may come while a   *)
(* transfer of the same box is under way, also at its stop.  The git of an *)
(* AgentCoreBox wants the commit that it builds on.                        *)
MakeCommit(b, c) ==
    LET head == mem[b][Branch] IN
    /\ b \in up \/ op[b].kind = "sync"
    /\ past[c] = {}
    /\ b \in AgentCore /\ head # Absent => mem[b][head] = head
    /\ past' = [past EXCEPT ![c] = {c} \cup (IF head = Absent THEN {} ELSE past[head])]
    /\ mem' = [mem EXCEPT ![b][c] = c, ![b][Branch] = c]
    /\ UNCHANGED <<store, up, gone, refsFirst, lastPull, op, transfers, faults, histVars>>

-----------------------------------------------------------------------------
(* git push, pull and fetch, up to the copying. *)

(* "Everything up-to-date": nothing committed yet, or this HEAD has been   *)
(* pushed.                                                                 *)
PushSkips(b, ref) ==
    LET head == mem[b][Branch] IN
    IF head = Absent THEN b \notin AgentCore ELSE ref = head

Push(b) ==
    /\ b \in up /\ op[b] = Idle
    /\ Transfer
    /\ \E ref \in Content : Read(ref) /\ ~PushSkips(b, ref)
    /\ Begin(b, "push", mem[b][Branch])
    /\ UNCHANGED <<store, mem, up, gone, refsFirst, lastPull, past, histVars>>

(* "Already up to date": an empty store, or the PushRef of the last pull.  *)
PullSkips(b, ref) ==
    \/ Stored(store) = {}
    \/ b \notin AgentCore /\ ref # Absent /\ ref = lastPull[b]

Pull(b) ==
    /\ b \in up /\ op[b] = Idle
    /\ Transfer
    /\ \E ref \in Content :
           /\ IF b \in AgentCore THEN ref = Absent /\ UNCHANGED faults ELSE Read(ref)
           /\ ~PullSkips(b, ref)
           /\ Begin(b, "pull", ref)
    /\ UNCHANGED <<store, mem, up, gone, refsFirst, lastPull, past, histVars>>

Fetch(b) ==
    /\ b \in up \ AgentCore /\ op[b] = Idle
    /\ Transfer
    /\ Stored(store) # {}
    /\ Copy(b, "fetch", Stored(store) \ {PushRef})
    /\ UNCHANGED <<store, mem, up, gone, refsFirst, lastPull, past, faults, histVars>>

Outgoing(b) == op[b].kind \in {"push", "sync"}

List(b) ==
    /\ op[b].pc = "list"
    /\ Copy(b, op[b].kind, Stored(IF Outgoing(b) THEN mem[b] ELSE store))
    /\ UNCHANGED <<store, mem, up, gone, refsFirst, lastPull, past, transfers, faults, histVars>>

-----------------------------------------------------------------------------
(* The transfer, file by file. *)

(* Slip: no order. *)
MayCome_AnyOrder(b, f) == f \in op[b].todo

(* The listing of a store is sorted: .git/objects before .git/refs.  In a  *)
(* page the walk finds directories in the order in which they were made,   *)
(* by git init .git/objects first, but by the restore of a store that has  *)
(* only the branch .git/refs first; find lists in any order.  Where the    *)
(* walk finds PushRef depends on what was there first.                     *)
MayCome(b, f) ==
    /\ f \in op[b].todo
    /\ f = Branch => \/ Outgoing(b) /\ b \in AgentCore \cup refsFirst
                     \/ op[b].todo \cap Commit = {}
    /\ f # PushRef => Outgoing(b) \/ PushRef \notin op[b].todo

Ticked(b, f) == op' = [op EXCEPT ![b].todo = @ \ {f}]

(* Each file makes the directories that it lacks. *)
CopyIn(b, f) ==
    /\ op[b].pc = "copy" /\ ~Outgoing(b) /\ MayCome(b, f)
    /\ mem' = [mem EXCEPT ![b][f] = store[f]]
    /\ refsFirst' = IF f = Branch /\ op[b].kind = "restore" /\ Stored(mem[b]) \cap Commit = {}
                    THEN refsFirst \cup {b} ELSE refsFirst
    /\ Ticked(b, f)
    /\ UNCHANGED <<store, up, gone, lastPull, past, transfers, faults, histVars>>

CopyOut(b, f) ==
    /\ op[b].pc = "copy" /\ Outgoing(b) /\ MayCome(b, f)
    /\ store' = [store EXCEPT ![f] = mem[b][f]]
    /\ Ticked(b, f)
    /\ ahead' = IF f # Branch THEN ahead
                ELSE ahead \cup {c \in past[mem[b][Branch]] : store[c] # c}
    /\ UNCHANGED <<mem, up, gone, refsFirst, lastPull, past, transfers, faults, pulled>>

(* A file that cannot be read, there or here: on with the others. *)
Misses(b, f) ==
    /\ op[b].pc = "copy" /\ MayCome(b, f)
    /\ Fault
    /\ op' = [op EXCEPT ![b].todo = @ \ {f}, ![b].errors = op[b].kind \in {"push", "pull"}]
    /\ UNCHANGED <<store, mem, up, gone, refsFirst, lastPull, past, transfers, histVars>>

(* The store raises: that is the end of the command, of a start or a stop. *)
StoreFails(b) ==
    /\ op[b] # Idle
    /\ Fault
    /\ IF op[b].kind \in {"restore", "sync"} THEN Gone(b)
       ELSE End(b) /\ UNCHANGED <<mem, up, gone, refsFirst, lastPull, pulled>>
    /\ UNCHANGED <<store, past, transfers, ahead>>

-----------------------------------------------------------------------------
(* The end of a command. *)

(* Slip: HEAD as it is in the end, not as it was before the listing. *)
PushDone_HeadNow(b) ==
    /\ op[b].kind = "push" /\ op[b].pc = "copy" /\ op[b].todo = {}
    /\ store' = IF op[b].errors \/ op[b].head = Absent THEN store
                ELSE [store EXCEPT ![PushRef] = mem[b][Branch]]
    /\ End(b)
    /\ UNCHANGED <<mem, up, gone, refsFirst, lastPull, past, transfers, faults, histVars>>

(* Slip: errors are no reason not to record the push. *)
PushDone_DespiteErrors(b) ==
    /\ op[b].kind = "push" /\ op[b].pc = "copy" /\ op[b].todo = {}
    /\ store' = IF op[b].head = Absent THEN store
                ELSE [store EXCEPT ![PushRef] = op[b].head]
    /\ End(b)
    /\ UNCHANGED <<mem, up, gone, refsFirst, lastPull, past, transfers, faults, histVars>>

(* Without errors the pushed commit is recorded. *)
PushDone(b) ==
    /\ op[b].kind = "push" /\ op[b].pc = "copy" /\ op[b].todo = {}
    /\ store' = IF op[b].errors \/ op[b].head = Absent THEN store
                ELSE [store EXCEPT ![PushRef] = op[b].head]
    /\ End(b)
    /\ UNCHANGED <<mem, up, gone, refsFirst, lastPull, past, transfers, faults, histVars>>

(* Slip: PushRef as it is in the end, not as it was before the listing. *)
PullDone_RefNow(b) ==
    /\ op[b].kind \in {"pull", "fetch"} /\ op[b].pc = "copy" /\ op[b].todo = {}
    /\ IF op[b].kind = "fetch" \/ op[b].errors \/ op[b].head = Absent
       THEN UNCHANGED <<lastPull, pulled>>
       ELSE /\ lastPull' = [lastPull EXCEPT ![b] = store[PushRef]]
            /\ pulled' = pulled \cup {b}
    /\ End(b)
    /\ UNCHANGED <<store, mem, up, gone, refsFirst, past, transfers, faults, ahead>>

(* Without errors a pull is remembered by the PushRef it began with. *)
PullDone(b) ==
    /\ op[b].kind \in {"pull", "fetch"} /\ op[b].pc = "copy" /\ op[b].todo = {}
    /\ IF op[b].kind = "fetch" \/ op[b].errors \/ op[b].head = Absent
       THEN UNCHANGED <<lastPull, pulled>>
       ELSE /\ lastPull' = [lastPull EXCEPT ![b] = op[b].head]
            /\ pulled' = pulled \cup {b}
    /\ End(b)
    /\ UNCHANGED <<store, mem, up, gone, refsFirst, past, transfers, faults, ahead>>

-----------------------------------------------------------------------------
Next ==
    \E b \in Box :
        \/ Start(b) \/ RestoreDone(b) \/ Close(b) \/ Stop(b) \/ SyncDone(b) \/ Dies(b)
        \/ Push(b) \/ Pull(b) \/ Fetch(b) \/ List(b)
        \/ PushDone(b) \/ PullDone(b) \/ StoreFails(b)
        \/ \E c \in Commit : MakeCommit(b, c)
        \/ \E f \in File : CopyIn(b, f) \/ CopyOut(b, f) \/ Misses(b, f)

Spec == Init /\ [][Next]_vars

-----------------------------------------------------------------------------
(* Invariants. *)

(* The commits of a history that some files lack. *)
Lacks(files, c) == {d \in past[c] : files[d] # d}

(* "Everything up-to-date" is true: when a box would not push its HEAD, as *)
(* it or another box has recorded it, then the store has every commit of   *)
(* its history, whatever pushes of other boxes broke off or overlapped;    *)
(* but for a commit that the branch in the store was once ahead of.        *)
SkippedPushIsStored ==
    \A b \in up : LET head == mem[b][Branch] IN
        PushSkips(b, store[PushRef]) /\ head # Absent =>
            Lacks(store, head) \subseteq ahead

(* "Already up to date" is true: a GitBox that would not pull again what   *)
(* it pulled lacks no commit of it, even if a push was under way during    *)
(* the pull; with the same exception.                                      *)
SkippedPullIsHere ==
    \A b \in pulled : op[b] = Idle /\ PullSkips(b, store[PushRef]) =>
        Lacks(mem[b], lastPull[b]) \subseteq ahead

-----------------------------------------------------------------------------
(* Action properties. *)

(* What a push records as pushed is in the store: all of the HEAD that it  *)
(* began with that its box has, even if commits were made in the meantime  *)
(* or other boxes pushed.                                                  *)
RecordedIsStored ==
    [][\A b \in Box : PushDone(b) /\ store' # store =>
           Lacks(store', store'[PushRef]) \subseteq Lacks(mem[b], store'[PushRef])]_vars

(* The store's branch never gets ahead of its commits by a GitBox's push,  *)
(* so that one that breaks off leaves a repository to restore, unless the  *)
(* box committed during the push, lacks commits itself, could not read one, *)
(* or was itself restored from a store that had the branch alone.          *)
BranchAfterCommits ==
    [][\A b \in Box \ (AgentCore \cup refsFirst) :
           /\ CopyOut(b, Branch)
           /\ mem[b][Branch] = op[b].head /\ ~op[b].errors
           => Lacks(store', op[b].head) \subseteq Lacks(mem[b], op[b].head)]_vars
-----------------------------------------------------------------------------
(* What holds of every reachable state, and follows from itself.           *)

Made == {c \in Commit : past[c] # {}}

(* The references whose whole history is in the store, or was once missing *)
(* behind the store's branch; those of which this is true of what b lacks. *)
Backed ==
    {r \in Content : \/ r = Absent
                     \/ r \in Made /\ Lacks(store, r) \subseteq ahead}
BackedBut(b) ==
    {r \in Content : \/ r = Absent
                     \/ r \in Made /\ Lacks(store, r) \cap Lacks(mem[b], r) \subseteq ahead}

(* A history consists of commits that were made; a commit's file holds it  *)
(* or is not there.                                                        *)
HistoryFits == \A c \in Commit : past[c] \subseteq Made
FilesFit ==
    \A c \in Commit : /\ store[c] \in {c, Absent}
                      /\ \A b \in Box : mem[b][c] \in {c, Absent}

(* The files a transfer still has to copy are there.                       *)
TodoFits(b) ==
    op[b].pc = "copy" =>
        \A f \in op[b].todo : IF Outgoing(b) THEN mem[b][f] # Absent ELSE store[f] # Absent

(* A push has copied what its box has of the HEAD it records, but for what *)
(* it still has to copy or could not read.                                 *)
PushFits(b) ==
    op[b].kind = "push" =>
        /\ b \in AgentCore \/ op[b].head # Absent
        /\ op[b].head \in BackedBut(b)
        /\ (op[b].pc = "copy" /\ ~op[b].errors /\ op[b].head # Absent =>
                Lacks(store, op[b].head) \subseteq Lacks(mem[b], op[b].head) \cup op[b].todo)

(* A pull has copied all of the PushRef it began with, with the same       *)
(* exceptions.                                                             *)
PullFits(b) ==
    op[b].kind = "pull" =>
        /\ b \in up
        /\ b \notin AgentCore \/ op[b].head = Absent
        /\ op[b].head \in Backed
        /\ (op[b].pc = "copy" /\ ~op[b].errors /\ op[b].head # Absent =>
                Lacks(mem[b], op[b].head) \subseteq ahead \cup op[b].todo)

(* What a box remembers as pulled it has, with the same exceptions.        *)
PulledFits(b) ==
    b \in pulled =>
        /\ b \in up \ AgentCore
        /\ lastPull[b] \in Made
        /\ Lacks(mem[b], lastPull[b]) \subseteq ahead

(* What the references say of the commits in store and boxes.              *)
StoreFits == store[Branch] \in Backed /\ store[PushRef] \in Backed
BoxFits(b) ==
    /\ mem[b][PushRef] \in Backed
    /\ mem[b][Branch] \in BackedBut(b)
    /\ TodoFits(b) /\ PushFits(b) /\ PullFits(b) /\ PulledFits(b)
    /\ op[b].kind = "sync" => b \in AgentCore
    /\ op[b].kind = "restore" => b \notin up \cup gone

(* The inductive invariant. *)
IInv ==
    /\ TypeOK /\ HistoryFits /\ FilesFit /\ StoreFits
    /\ \A b \in Box : BoxFits(b)

-----------------------------------------------------------------------------
(* Store and boxes seen as SharedRepo sees them. *)
CommitsIn(files) == {c \in Commit : files[c] = c}
Repo == INSTANCE SharedRepo WITH
    None <- Absent, hist <- past, owed <- ahead,
    kept <- CommitsIn(store), tip <- store[Branch], mark <- store[PushRef],
    held <- [b \in Box |-> CommitsIn(mem[b])],
    head <- [b \in Box |-> mem[b][Branch]],
    seen <- [b \in Box |-> IF b \in pulled THEN lastPull[b] ELSE Absent]

(* However restores, commits, pushes, pulls and stops of GitBoxes and      *)
(* AgentCoreBoxes overlap and break off, they share the repository as      *)
(* SharedRepo says: no commit leaves the store, and what is recorded as    *)
(* pushed or remembered as pulled is complete.                             *)
ImplementsRepo == Repo!Spec
=============================================================================
