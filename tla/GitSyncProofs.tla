---------------------------- MODULE GitSyncProofs ----------------------------
(***************************************************************************)
(* IInv of GitSync is an inductive invariant, for all boxes and commits:   *)
(* what is recorded as pushed is in the store, and what is remembered as   *)
(* pulled is in the box, whatever commits, transfers and crashes of this   *)
(* or other boxes come in between.                                         *)
(***************************************************************************)
EXTENDS GitSync, TLAPS

USE ConstantsAssumption

Files == [File -> Content]
OpState ==
    [kind : {"none", "restore", "pull", "fetch", "push", "sync"},
     pc : {"idle", "list", "copy"},
     head : Content, todo : SUBSET File, errors : BOOLEAN]

(* Some component g of every box becomes x for b, others stay as they are. *)
OpBecomes(b, o) ==
    /\ op' \in [Box -> OpState]
    /\ op'[b] = o
    /\ \A d \in Box : d # b => op'[d] = op[d]
MemBecomes(b, m) ==
    /\ mem' \in [Box -> Files]
    /\ mem'[b] = m
    /\ \A d \in Box : d # b => mem'[d] = mem[d]
LastPullBecomes(b, r) ==
    /\ lastPull' \in [Box -> Content]
    /\ lastPull'[b] = r
    /\ \A d \in Box : d # b => lastPull'[d] = lastPull[d]

LEMMA OpChanges ==
    ASSUME TypeOK, NEW b \in Box, NEW o \in OpState, op' = [op EXCEPT ![b] = o]
    PROVE  OpBecomes(b, o)
BY DEF TypeOK, OpState, OpBecomes

LEMMA MemChanges ==
    ASSUME TypeOK, NEW b \in Box, NEW m \in Files, mem' = [mem EXCEPT ![b] = m]
    PROVE  MemBecomes(b, m)
BY DEF TypeOK, Files, MemBecomes

LEMMA LastPullChanges ==
    ASSUME TypeOK, NEW b \in Box, NEW r \in Content,
           lastPull' = [lastPull EXCEPT ![b] = r]
    PROVE  LastPullBecomes(b, r)
BY DEF TypeOK, LastPullBecomes

(* No file of the store, no commit's history and no exception is lost. *)
Grow ==
    /\ \A f \in File : store[f] # Absent => store'[f] # Absent
    /\ ahead \subseteq ahead'
    /\ \A c \in Made : past'[c] = past[c]

(* All but b is as before. *)
OthersStay(b) ==
    \A d \in Box \ {b} : /\ mem'[d] = mem[d] /\ op'[d] = op[d]
                         /\ lastPull'[d] = lastPull[d]
                         /\ d \in up' <=> d \in up
                         /\ d \in gone' <=> d \in gone
                         /\ d \in pulled' <=> d \in pulled

-----------------------------------------------------------------------------
(* What was backed stays so. *)

LEMMA CommitFiles ==
    ASSUME IInv, NEW c \in Commit
    PROVE  /\ c \in File /\ c # Absent
           /\ store[c] = c <=> store[c] # Absent
           /\ \A b \in Box : mem[b][c] = c <=> mem[b][c] # Absent
BY DEF IInv, FilesFit, File

LEMMA HistoryMade ==
    ASSUME IInv, NEW r \in Made
    PROVE  past[r] \subseteq Made /\ past[r] # {} /\ Made \subseteq Commit
BY DEF IInv, HistoryFits, Made

LEMMA BackedGrows ==
    ASSUME IInv, FilesFit', Grow
    PROVE  Backed \subseteq Backed'
<1> SUFFICES ASSUME NEW r \in Backed, r # Absent PROVE r \in Backed'
  BY DEF Backed
<1>1. r \in Made /\ Lacks(store, r) \subseteq ahead /\ r \in Content
  BY DEF Backed
<1>2. r \in Made' /\ past'[r] = past[r]
  BY <1>1, HistoryMade DEF Grow, Made
<1>3. Lacks(store, r)' \subseteq ahead'
  <2> SUFFICES ASSUME NEW d \in past[r], store'[d] # d PROVE d \in ahead'
    BY <1>2 DEF Lacks
  <2>1. d \in Commit
    BY <1>1, HistoryMade
  <2>2. store[d] # d
    BY <2>1, CommitFiles DEF Grow, FilesFit
  <2> QED
    BY <1>1, <2>2 DEF Lacks, Grow
<1> QED
  BY <1>1, <1>2, <1>3 DEF Backed

LEMMA BackedButGrows ==
    ASSUME IInv, FilesFit', Grow, NEW b \in Box,
           \A f \in File : mem[b][f] # Absent => mem'[b][f] # Absent
    PROVE  BackedBut(b) \subseteq BackedBut(b)'
<1> SUFFICES ASSUME NEW r \in BackedBut(b), r # Absent PROVE r \in BackedBut(b)'
  BY DEF BackedBut
<1>1. /\ r \in Made /\ r \in Content
      /\ Lacks(store, r) \cap Lacks(mem[b], r) \subseteq ahead
  BY DEF BackedBut
<1>2. r \in Made' /\ past'[r] = past[r]
  BY <1>1, HistoryMade DEF Grow, Made
<1>3. (Lacks(store, r) \cap Lacks(mem[b], r) \subseteq ahead)'
  <2> SUFFICES ASSUME NEW d \in past[r], store'[d] # d, mem'[b][d] # d
               PROVE  d \in ahead'
    BY <1>2 DEF Lacks
  <2>1. d \in Commit
    BY <1>1, HistoryMade
  <2>2. store[d] # d /\ mem[b][d] # d
    BY <2>1, CommitFiles DEF Grow, FilesFit
  <2> QED
    BY <1>1, <2>2 DEF Lacks, Grow
<1> QED
  BY <1>1, <1>2, <1>3 DEF BackedBut

-----------------------------------------------------------------------------
(* A box keeps what holds of it. *)

(* The files of b are there and, those of commits that were made, as they  *)
(* were.                                                                   *)
FilesStay(b) ==
    /\ \A f \in File : mem[b][f] # Absent => mem'[b][f] # Absent
    /\ \A c \in Made : mem'[b][c] = mem[b][c]

LEMMA TodoKept ==
    ASSUME IInv, Grow, NEW b \in Box, op'[b] = op[b], FilesStay(b)
    PROVE  TodoFits(b)'
<1>1. TodoFits(b) /\ op[b].todo \subseteq File
  BY DEF IInv, BoxFits, TypeOK
<1>2. Outgoing(b)' <=> Outgoing(b)
  BY DEF Outgoing
<1> QED
  BY <1>1, <1>2 DEF TodoFits, Grow, FilesStay

LEMMA PushKept ==
    ASSUME IInv, FilesFit', Grow, NEW b \in Box, op'[b] = op[b], FilesStay(b)
    PROVE  PushFits(b)'
<1> SUFFICES ASSUME op[b].kind = "push" PROVE PushFits(b)'
  BY DEF PushFits
<1>1. PushFits(b)
  BY DEF IInv, BoxFits
<1>2. op[b].head \in BackedBut(b)'
  BY <1>1, BackedButGrows DEF PushFits, FilesStay
<1>3. ASSUME op[b].pc = "copy", ~op[b].errors, op[b].head # Absent
      PROVE  (Lacks(store, op[b].head) \subseteq Lacks(mem[b], op[b].head) \cup op[b].todo)'
  <2> PICK r : r = op[b].head
    OBVIOUS
  <2>1. r \in Made /\ past'[r] = past[r]
    BY <1>1, <1>3 DEF PushFits, BackedBut, Grow
  <2>2. SUFFICES ASSUME NEW d \in past[r], store'[d] # d, mem'[b][d] = d
                 PROVE  d \in op[b].todo
    BY <2>1 DEF Lacks
  <2>3. d \in Made /\ d \in Commit
    BY <2>1, HistoryMade
  <2>4. store[d] # d /\ mem[b][d] = d
    BY <2>2, <2>3, CommitFiles DEF Grow, FilesFit, FilesStay
  <2> QED
    BY <1>1, <1>3, <2>4 DEF PushFits, Lacks
<1> QED
  BY <1>1, <1>2, <1>3 DEF PushFits

LEMMA PullKept ==
    ASSUME IInv, FilesFit', Grow, NEW b \in Box, op'[b] = op[b], FilesStay(b),
           b \in up => b \in up'
    PROVE  PullFits(b)'
<1> SUFFICES ASSUME op[b].kind = "pull" PROVE PullFits(b)'
  BY DEF PullFits
<1>1. PullFits(b)
  BY DEF IInv, BoxFits
<1>2. op[b].head \in Backed'
  BY <1>1, BackedGrows DEF PullFits
<1>3. ASSUME op[b].pc = "copy", ~op[b].errors, op[b].head # Absent
      PROVE  (Lacks(mem[b], op[b].head) \subseteq ahead \cup op[b].todo)'
  <2> PICK r : r = op[b].head
    OBVIOUS
  <2>1. r \in Made /\ past'[r] = past[r]
    BY <1>1, <1>3 DEF PullFits, Backed, Grow
  <2>2. SUFFICES ASSUME NEW d \in past[r], mem'[b][d] # d
                 PROVE  d \in ahead' \cup op[b].todo
    BY <2>1 DEF Lacks
  <2>3. d \in Made
    BY <2>1, HistoryMade
  <2>4. mem[b][d] # d
    BY <2>2, <2>3 DEF FilesStay
  <2> QED
    BY <1>1, <1>3, <2>4 DEF PullFits, Lacks, Grow
<1> QED
  BY <1>1, <1>2, <1>3 DEF PullFits

LEMMA PulledKept ==
    ASSUME IInv, FilesFit', Grow, NEW b \in Box, b \in pulled, b \in up',
           lastPull'[b] = lastPull[b],
           \A f \in File : mem[b][f] # Absent => mem'[b][f] # Absent
    PROVE  PulledFits(b)'
<1> PICK r : r = lastPull[b]
  OBVIOUS
<1>1. /\ b \in up \ AgentCore /\ r \in Made
      /\ Lacks(mem[b], r) \subseteq ahead
  BY DEF IInv, BoxFits, PulledFits
<1>2. r \in Made' /\ past'[r] = past[r]
  BY <1>1, HistoryMade DEF Grow, Made
<1>3. ASSUME NEW d \in past[r], mem'[b][d] # d PROVE d \in ahead'
  <2>1. d \in Commit
    BY <1>1, HistoryMade
  <2>2. mem[b][d] # d
    BY <1>3, <2>1, CommitFiles DEF FilesFit
  <2> QED
    BY <1>1, <2>2 DEF Lacks, Grow
<1> QED
  BY <1>1, <1>2, <1>3 DEF PulledFits, Lacks

(* A box nobody touches. *)
LEMMA BoxKept ==
    ASSUME IInv, FilesFit', Grow, NEW b \in Box,
           mem'[b] = mem[b], op'[b] = op[b], lastPull'[b] = lastPull[b],
           b \in up' <=> b \in up, b \in gone' <=> b \in gone,
           b \in pulled' <=> b \in pulled
    PROVE  BoxFits(b)'
<1>1. FilesStay(b) /\ \A f \in File : mem[b][f] # Absent => mem'[b][f] # Absent
  BY DEF FilesStay
<1>2. BoxFits(b)
  BY DEF IInv
<1>3. TodoFits(b)' /\ PushFits(b)' /\ PullFits(b)'
  BY <1>1, TodoKept, PushKept, PullKept
<1>4. PulledFits(b)'
  BY <1>1, <1>2, PulledKept DEF BoxFits, PulledFits
<1>5. mem'[b][PushRef] \in Backed' /\ mem'[b][Branch] \in BackedBut(b)'
  BY <1>1, <1>2, BackedGrows, BackedButGrows DEF BoxFits
<1> QED
  BY <1>2, <1>3, <1>4, <1>5 DEF BoxFits

(* A step of b preserves the invariant if b fits after it. *)
LEMMA StepOfBox ==
    ASSUME IInv, TypeOK', HistoryFits', FilesFit', StoreFits', Grow,
           NEW b \in Box, OthersStay(b), BoxFits(b)'
    PROVE  IInv'
<1>1. ASSUME NEW d \in Box PROVE BoxFits(d)'
  <2>1. CASE d = b
    BY <2>1
  <2>2. CASE d # b
    BY <2>2, BoxKept DEF OthersStay
  <2> QED
    BY <2>1, <2>2
<1> QED
  BY <1>1 DEF IInv

(* A step that leaves the files, the history and the exceptions alone. *)
LEMMA QuietStep ==
    ASSUME IInv, TypeOK', UNCHANGED <<store, mem, past, ahead>>,
           NEW b \in Box, OthersStay(b),
           TodoFits(b)', PushFits(b)', PullFits(b)', PulledFits(b)',
           op'[b].kind = "sync" => b \in AgentCore,
           op'[b].kind = "restore" => b \notin up' \cup gone'
    PROVE  IInv'
<1>1. Grow /\ HistoryFits' /\ FilesFit' /\ StoreFits' /\ BoxFits(b)'
  BY DEF IInv, Grow, HistoryFits, Made, FilesFit, StoreFits, Backed, BackedBut, Lacks, BoxFits
<1> QED
  BY <1>1, StepOfBox

-----------------------------------------------------------------------------
(* What the common parts of the actions do. *)

LEMMA EndGives ==
    ASSUME TypeOK, NEW b \in Box, End(b)
    PROVE  /\ op' \in [Box -> OpState]
           /\ \A d \in Box : d # b => op'[d] = op[d]
           /\ TodoFits(b)' /\ PushFits(b)' /\ PullFits(b)'
           /\ op'[b].kind = "none"
<1>1. Idle \in OpState
  BY DEF Idle, OpState, Content
<1>2. OpBecomes(b, Idle)
  BY <1>1, OpChanges DEF End
<1> QED
  BY <1>2 DEF OpBecomes, TodoFits, PushFits, PullFits, Idle

LEMMA BeginGives ==
    ASSUME TypeOK, NEW b \in Box, NEW head \in Content,
           NEW kind \in {"push", "pull"}, Begin(b, kind, head)
    PROVE  /\ op' \in [Box -> OpState]
           /\ \A d \in Box : d # b => op'[d] = op[d]
           /\ op'[b].kind = kind /\ op'[b].pc = "list" /\ op'[b].head = head
<1> DEFINE o == [Idle EXCEPT !.kind = kind, !.pc = "list", !.head = head]
<1>1. o \in OpState /\ o.kind = kind /\ o.pc = "list" /\ o.head = head
  BY DEF Idle, OpState
<1>2. op' = [op EXCEPT ![b] = o]
  BY DEF Begin
<1> HIDE DEF o
<1>3. OpBecomes(b, o)
  BY <1>1, <1>2, OpChanges
<1> QED
  BY <1>1, <1>3 DEF OpBecomes

LEMMA CopyGives ==
    ASSUME TypeOK, NEW b \in Box, NEW files \in SUBSET File,
           NEW kind \in {"none", "restore", "pull", "fetch", "push", "sync"},
           Copy(b, kind, files)
    PROVE  /\ op' \in [Box -> OpState]
           /\ \A d \in Box : d # b => op'[d] = op[d]
           /\ op'[b].kind = kind /\ op'[b].pc = "copy" /\ op'[b].todo = files
           /\ op'[b].head = op[b].head /\ op'[b].errors = op[b].errors
<1> DEFINE o == [op[b] EXCEPT !.kind = kind, !.pc = "copy", !.todo = files]
<1>1. op[b] \in OpState
  BY DEF TypeOK, OpState
<1>2. /\ o \in OpState /\ o.kind = kind /\ o.pc = "copy" /\ o.todo = files
      /\ o.head = op[b].head /\ o.errors = op[b].errors
  BY <1>1 DEF OpState
<1>3. op' = [op EXCEPT ![b] = o]
  BY <1>1 DEF Copy, TypeOK, OpState
<1> HIDE DEF o
<1>4. OpBecomes(b, o)
  BY <1>2, <1>3, OpChanges
<1> QED
  BY <1>2, <1>4 DEF OpBecomes

(* A file less to copy, and an error or not. *)
LEMMA TodoGives ==
    ASSUME TypeOK, NEW b \in Box, NEW f \in File, NEW e \in BOOLEAN,
           op' = [op EXCEPT ![b].todo = @ \ {f}, ![b].errors = e]
    PROVE  /\ op' \in [Box -> OpState]
           /\ \A d \in Box : d # b => op'[d] = op[d]
           /\ op'[b].todo = op[b].todo \ {f} /\ op'[b].errors = e
           /\ op'[b].kind = op[b].kind /\ op'[b].pc = op[b].pc /\ op'[b].head = op[b].head
<1>1. op[b] \in OpState
  BY DEF TypeOK, OpState
<1> DEFINE o == [op[b] EXCEPT !.todo = @ \ {f}, !.errors = e]
<1>2. /\ o \in OpState /\ o.kind = op[b].kind /\ o.pc = op[b].pc /\ o.head = op[b].head
      /\ o.todo = op[b].todo \ {f} /\ o.errors = e
  BY <1>1 DEF OpState
<1>3. op' = [op EXCEPT ![b] = o]
  BY <1>1 DEF TypeOK, OpState
<1> HIDE DEF o
<1>4. OpBecomes(b, o)
  BY <1>2, <1>3, OpChanges
<1> QED
  BY <1>2, <1>4 DEF OpBecomes

LEMMA TickGives ==
    ASSUME TypeOK, NEW b \in Box, NEW f \in File, Ticked(b, f)
    PROVE  /\ op' \in [Box -> OpState]
           /\ \A d \in Box : d # b => op'[d] = op[d]
           /\ op'[b].todo = op[b].todo \ {f} /\ op'[b].errors = op[b].errors
           /\ op'[b].kind = op[b].kind /\ op'[b].pc = op[b].pc /\ op'[b].head = op[b].head
<1>1. op[b] \in OpState
  BY DEF TypeOK, OpState
<1>2. PICK e \in BOOLEAN : e = op[b].errors
  BY <1>1 DEF OpState
<1>3. op' = [op EXCEPT ![b].todo = @ \ {f}, ![b].errors = e]
  BY <1>1, <1>2 DEF Ticked, TypeOK, OpState
<1> QED
  BY <1>2, <1>3, TodoGives

(* What a box that goes leaves fits, whatever it was doing. *)
LEMMA GoneGives ==
    ASSUME IInv, NEW b \in Box, Gone(b), UNCHANGED <<store, past, ahead>>,
           transfers' \in 0..MaxTransfers, faults' \in 0..MaxFaults
    PROVE  IInv'
<1>0. TypeOK
  BY DEF IInv
<1>1. /\ op' \in [Box -> OpState] /\ op'[b].kind = "none"
      /\ \A d \in Box : d # b => op'[d] = op[d]
      /\ TodoFits(b)' /\ PushFits(b)' /\ PullFits(b)'
  BY <1>0, EndGives DEF Gone
<1>2. MemBecomes(b, Nothing)
  BY <1>0, MemChanges DEF Gone, Nothing, Files, Content
<1>3. LastPullBecomes(b, Absent)
  BY <1>0, LastPullChanges DEF Gone, Content
<1>4. TypeOK'
  BY <1>0, <1>1, <1>2, <1>3 DEF TypeOK, MemBecomes, LastPullBecomes, Files, OpState, Gone
<1>5. Grow /\ HistoryFits' /\ StoreFits'
  BY DEF IInv, Grow, HistoryFits, Made, StoreFits, Backed, Lacks
<1>6. FilesFit'
  <2>1. ASSUME NEW d \in Box, NEW c \in Commit PROVE mem'[d][c] \in {c, Absent}
    BY <1>2 DEF IInv, FilesFit, MemBecomes, Nothing, File
  <2> QED
    BY <2>1 DEF IInv, FilesFit
<1>7. OthersStay(b)
  BY <1>1, <1>2, <1>3 DEF OthersStay, MemBecomes, LastPullBecomes, Gone
<1>8. BoxFits(b)'
  BY <1>1, <1>2 DEF BoxFits, MemBecomes, Nothing, File, Backed, BackedBut, Content,
                    PulledFits, Gone
<1> QED
  BY <1>4, <1>5, <1>6, <1>7, <1>8, StepOfBox

-----------------------------------------------------------------------------
(* The actions: start and stop. *)

LEMMA InitIInv == Init => IInv
<1> SUFFICES ASSUME Init PROVE IInv
  OBVIOUS
<1>1. TypeOK
  BY DEF Init, TypeOK, Nothing, Idle, Content, File
<1>2. Made = {} /\ HistoryFits
  BY DEF Init, Made, HistoryFits
<1>3. FilesFit /\ StoreFits
  BY DEF Init, FilesFit, StoreFits, Backed, Nothing, File, Content
<1>4. ASSUME NEW b \in Box PROVE BoxFits(b)
  BY DEF Init, BoxFits, Backed, BackedBut, Nothing, File, Content, Idle, TodoFits,
         PushFits, PullFits, PulledFits
<1> QED
  BY <1>1, <1>2, <1>3, <1>4 DEF IInv

LEMMA StartIInv == ASSUME IInv, NEW b \in Box, Start(b) PROVE IInv'
<1>0. TypeOK /\ BoxFits(b)
  BY DEF IInv
<1>1. b \notin pulled /\ b \notin up \cup gone /\ op[b] = Idle
  BY <1>0 DEF Start, BoxFits, PulledFits
<1>2. CASE Stored(store) = {}
  <2>1. TypeOK' /\ OthersStay(b)
    BY <1>0, <1>1, <1>2 DEF Start, TypeOK, OthersStay, histVars
  <2>2. /\ TodoFits(b)' /\ PushFits(b)' /\ PullFits(b)' /\ PulledFits(b)'
        /\ op'[b].kind = "none"
    BY <1>1, <1>2 DEF Start, Idle, TodoFits, PushFits, PullFits, PulledFits, histVars
  <2> QED
    BY <1>2, <2>1, <2>2, QuietStep DEF Start, histVars
<1>3. CASE Stored(store) # {}
  <2>1. Stored(store) \in SUBSET File
    BY DEF Stored
  <2>2. Copy(b, "restore", Stored(store))
    BY <1>3 DEF Start
  <2>3. /\ op' \in [Box -> OpState]
        /\ \A d \in Box : d # b => op'[d] = op[d]
        /\ op'[b].kind = "restore" /\ op'[b].todo = Stored(store)
    BY <1>0, <2>1, <2>2, CopyGives
  <2>4. TypeOK' /\ OthersStay(b)
    BY <1>0, <1>3, <2>3 DEF Start, Transfer, TypeOK, OpState, OthersStay, histVars
  <2>5. TodoFits(b)' /\ PushFits(b)' /\ PullFits(b)' /\ PulledFits(b)'
    BY <1>1, <2>3 DEF Start, TodoFits, PushFits, PullFits, PulledFits, Outgoing, Stored, histVars
  <2> QED
    BY <1>1, <1>3, <2>3, <2>4, <2>5, QuietStep DEF Start, histVars
<1> QED
  BY <1>2, <1>3

LEMMA ReadGives ==
    ASSUME TypeOK, NEW ref, Read(ref)
    PROVE  ref \in {store[PushRef], Absent} /\ faults' \in 0..MaxFaults
BY DEF Read, Fault, TypeOK

LEMMA RestoreDoneIInv == ASSUME IInv, NEW b \in Box, RestoreDone(b) PROVE IInv'
<1>0. TypeOK /\ BoxFits(b)
  BY DEF IInv
<1>1. b \notin pulled /\ b \notin gone
  BY <1>0 DEF RestoreDone, BoxFits, PulledFits
<1>2. /\ op' \in [Box -> OpState]
      /\ \A d \in Box : d # b => op'[d] = op[d]
      /\ TodoFits(b)' /\ PushFits(b)' /\ PullFits(b)'
      /\ op'[b].kind = "none"
  BY <1>0, EndGives DEF RestoreDone
<1>3. /\ lastPull' \in [Box -> Content]
      /\ \A d \in Box : d # b => lastPull'[d] = lastPull[d]
      /\ faults' \in 0..MaxFaults
  <2>1. CASE UNCHANGED <<lastPull, faults>>
    BY <1>0, <2>1 DEF TypeOK
  <2>2. CASE \E ref \in Content : Read(ref) /\ lastPull' = [lastPull EXCEPT ![b] = ref]
    BY <1>0, <2>2, ReadGives, LastPullChanges DEF LastPullBecomes
  <2> QED
    BY <2>1, <2>2 DEF RestoreDone
<1>4. TypeOK' /\ OthersStay(b)
  BY <1>0, <1>1, <1>2, <1>3 DEF RestoreDone, TypeOK, OpState, OthersStay, histVars
<1>5. PulledFits(b)'
  BY <1>1 DEF RestoreDone, PulledFits, histVars
<1> QED
  BY <1>2, <1>4, <1>5, QuietStep DEF RestoreDone, histVars

LEMMA CloseIInv == ASSUME IInv, NEW b \in Box, Close(b) PROVE IInv'
BY GoneGives DEF Close, IInv, TypeOK

LEMMA SyncDoneIInv == ASSUME IInv, NEW b \in Box, SyncDone(b) PROVE IInv'
BY GoneGives DEF SyncDone, IInv, TypeOK

LEMMA FaultGives == ASSUME TypeOK, Fault PROVE faults' \in 0..MaxFaults
BY DEF TypeOK, Fault

LEMMA TransferGives == ASSUME TypeOK, Transfer PROVE transfers' \in 0..MaxTransfers
BY DEF TypeOK, Transfer

LEMMA DiesIInv == ASSUME IInv, NEW b \in Box, Dies(b) PROVE IInv'
BY GoneGives, FaultGives DEF Dies, IInv, TypeOK

LEMMA StopIInv == ASSUME IInv, NEW b \in Box, Stop(b) PROVE IInv'
<1>0. TypeOK /\ BoxFits(b)
  BY DEF IInv
<1>1. Stored(mem[b]) \in SUBSET File
  BY DEF Stored
<1>2. /\ op' \in [Box -> OpState]
      /\ \A d \in Box : d # b => op'[d] = op[d]
      /\ op'[b].kind = "sync" /\ op'[b].todo = Stored(mem[b])
  BY <1>0, <1>1, CopyGives DEF Stop
<1>3. transfers' \in 0..MaxTransfers
  BY <1>0, TransferGives DEF Stop
<1>4. TypeOK' /\ OthersStay(b)
  BY <1>0, <1>2, <1>3 DEF Stop, TypeOK, OpState, OthersStay, histVars
<1>5. b \in AgentCore /\ b \notin pulled
  BY <1>0 DEF Stop, BoxFits, PulledFits
<1>6. TodoFits(b)' /\ PushFits(b)' /\ PullFits(b)' /\ PulledFits(b)'
  BY <1>2, <1>5 DEF Stop, TodoFits, PushFits, PullFits, PulledFits, Outgoing, Stored, histVars
<1> QED
  BY <1>2, <1>4, <1>5, <1>6, QuietStep DEF Stop, histVars

LEMMA StoreFailsIInv == ASSUME IInv, NEW b \in Box, StoreFails(b) PROVE IInv'
<1>0. TypeOK /\ BoxFits(b) /\ faults' \in 0..MaxFaults
  BY FaultGives DEF IInv, StoreFails
<1>1. CASE Gone(b)
  BY <1>0, <1>1, GoneGives DEF StoreFails, TypeOK
<1>2. CASE End(b) /\ UNCHANGED <<mem, up, gone, refsFirst, lastPull, pulled>>
  <2>1. /\ op' \in [Box -> OpState]
        /\ \A d \in Box : d # b => op'[d] = op[d]
        /\ TodoFits(b)' /\ PushFits(b)' /\ PullFits(b)'
        /\ op'[b].kind = "none"
    BY <1>0, <1>2, EndGives
  <2>2. TypeOK' /\ OthersStay(b)
    BY <1>0, <1>2, <2>1 DEF StoreFails, TypeOK, OpState, OthersStay
  <2>3. PulledFits(b)'
    BY <1>0, <1>2 DEF StoreFails, BoxFits, PulledFits, Made, Lacks
  <2> QED
    BY <1>2, <2>1, <2>2, <2>3, QuietStep DEF StoreFails
<1> QED
  BY <1>1, <1>2 DEF StoreFails

-----------------------------------------------------------------------------
(* The actions: how transfers begin. *)

(* Files, history, exceptions and what was pulled before stay. *)
LEMMA PulledStays ==
    ASSUME IInv, NEW b \in Box, UNCHANGED <<mem, up, lastPull, past, ahead, pulled>>
    PROVE  PulledFits(b)'
BY DEF IInv, BoxFits, PulledFits, Made, Lacks

LEMMA PushIInv == ASSUME IInv, NEW b \in Box, Push(b) PROVE IInv'
<1>0. TypeOK /\ BoxFits(b)
  BY DEF IInv
<1> PICK head \in Content : head = mem[b][Branch]
  BY <1>0 DEF TypeOK, File
<1>1. /\ op' \in [Box -> OpState]
      /\ \A d \in Box : d # b => op'[d] = op[d]
      /\ op'[b].kind = "push" /\ op'[b].pc = "list" /\ op'[b].head = head
  BY <1>0, BeginGives DEF Push
<1>2. b \in AgentCore \/ head # Absent
  BY DEF Push, PushSkips
<1>3. faults' \in 0..MaxFaults /\ transfers' \in 0..MaxTransfers
  BY <1>0, ReadGives, TransferGives DEF Push
<1>4. TypeOK' /\ OthersStay(b)
  BY <1>0, <1>1, <1>3 DEF Push, TypeOK, OpState, OthersStay, histVars
<1>5. head \in BackedBut(b)'
  BY <1>0 DEF Push, BoxFits, BackedBut, Made, Lacks, histVars
<1>6. TodoFits(b)' /\ PushFits(b)' /\ PullFits(b)'
  BY <1>1, <1>2, <1>5 DEF TodoFits, PushFits, PullFits
<1>7. PulledFits(b)'
  BY PulledStays DEF Push, histVars
<1> QED
  BY <1>1, <1>4, <1>6, <1>7, QuietStep DEF Push, histVars

LEMMA PullIInv == ASSUME IInv, NEW b \in Box, Pull(b) PROVE IInv'
<1>0. TypeOK /\ BoxFits(b)
  BY DEF IInv
<1> PICK ref \in Content :
        /\ IF b \in AgentCore THEN ref = Absent /\ UNCHANGED faults ELSE Read(ref)
        /\ Begin(b, "pull", ref)
  BY DEF Pull
<1>1. /\ op' \in [Box -> OpState]
      /\ \A d \in Box : d # b => op'[d] = op[d]
      /\ op'[b].kind = "pull" /\ op'[b].pc = "list" /\ op'[b].head = ref
  BY <1>0, BeginGives
<1>2. ref \in {store[PushRef], Absent} /\ faults' \in 0..MaxFaults
  BY <1>0, ReadGives DEF TypeOK
<1>3. transfers' \in 0..MaxTransfers
  BY <1>0, TransferGives DEF Pull
<1>4. TypeOK' /\ OthersStay(b)
  BY <1>0, <1>1, <1>2, <1>3 DEF Pull, TypeOK, OpState, OthersStay, histVars
<1>5. ref \in Backed'
  BY <1>2 DEF IInv, StoreFits, Pull, Backed, Made, Lacks, histVars
<1>6. TodoFits(b)' /\ PushFits(b)' /\ PullFits(b)'
  BY <1>1, <1>5 DEF Pull, TodoFits, PushFits, PullFits
<1>7. PulledFits(b)'
  BY PulledStays DEF Pull, histVars
<1> QED
  BY <1>1, <1>4, <1>6, <1>7, QuietStep DEF Pull, histVars

LEMMA FetchIInv == ASSUME IInv, NEW b \in Box, Fetch(b) PROVE IInv'
<1>0. TypeOK /\ BoxFits(b)
  BY DEF IInv
<1>1. Stored(store) \ {PushRef} \in SUBSET File
  BY DEF Stored
<1>2. /\ op' \in [Box -> OpState]
      /\ \A d \in Box : d # b => op'[d] = op[d]
      /\ op'[b].kind = "fetch" /\ op'[b].todo = Stored(store) \ {PushRef}
  BY <1>0, <1>1, CopyGives DEF Fetch
<1>3. transfers' \in 0..MaxTransfers
  BY <1>0, TransferGives DEF Fetch
<1>4. TypeOK' /\ OthersStay(b)
  BY <1>0, <1>2, <1>3 DEF Fetch, TypeOK, OpState, OthersStay, histVars
<1>5. TodoFits(b)' /\ PushFits(b)' /\ PullFits(b)'
  BY <1>2 DEF Fetch, TodoFits, PushFits, PullFits, Outgoing, Stored
<1>6. PulledFits(b)'
  BY PulledStays DEF Fetch, histVars
<1> QED
  BY <1>2, <1>4, <1>5, <1>6, QuietStep DEF Fetch, histVars

(* A commit that is not listed is lacking. *)
LEMMA ListedOrLacking ==
    ASSUME IInv, NEW files \in Files, NEW c \in Commit
    PROVE  files[c] = c => c \in Stored(files)
BY DEF Stored, File

LEMMA ListIInv == ASSUME IInv, NEW b \in Box, List(b) PROVE IInv'
<1>0. TypeOK /\ BoxFits(b)
  BY DEF IInv
<1> PICK files \in Files : files = IF Outgoing(b) THEN mem[b] ELSE store
  BY <1>0 DEF TypeOK, Files
<1>1. Stored(files) \in SUBSET File
  BY DEF Stored
<1> PICK kind \in {"none", "restore", "pull", "fetch", "push", "sync"} : kind = op[b].kind
  BY <1>0 DEF TypeOK
<1>2. /\ op' \in [Box -> OpState]
      /\ \A d \in Box : d # b => op'[d] = op[d]
      /\ op'[b].kind = op[b].kind /\ op'[b].pc = "copy" /\ op'[b].todo = Stored(files)
      /\ op'[b].head = op[b].head /\ op'[b].errors = op[b].errors
  BY <1>0, <1>1, CopyGives DEF List
<1>3. TypeOK' /\ OthersStay(b)
  BY <1>0, <1>2 DEF List, TypeOK, OpState, OthersStay, histVars
<1>4. TodoFits(b)'
  BY <1>2 DEF List, TodoFits, Outgoing, Stored
<1> PICK r \in Content : r = op[b].head
  BY <1>0 DEF TypeOK
<1>5. Backed' = Backed /\ BackedBut(b)' = BackedBut(b)
  BY DEF List, Backed, BackedBut, Made, Lacks, histVars
<1>6. PushFits(b)'
  <2> SUFFICES ASSUME kind = "push" PROVE PushFits(b)'
    BY <1>2 DEF PushFits
  <2>1. (b \in AgentCore \/ r # Absent) /\ r \in BackedBut(b) /\ files = mem[b]
    BY <1>0 DEF BoxFits, PushFits, Outgoing
  <2>2. ASSUME r # Absent, NEW d \in past[r], mem[b][d] = d PROVE d \in Stored(files)
    BY <2>1, <2>2, HistoryMade, ListedOrLacking DEF BackedBut
  <2>3. r # Absent => (Lacks(store, op[b].head) \subseteq Lacks(mem[b], op[b].head) \cup op[b].todo)'
    BY <1>2, <2>2 DEF List, Lacks
  <2> QED
    BY <1>2, <1>5, <2>1, <2>3 DEF PushFits
<1>7. PullFits(b)'
  <2> SUFFICES ASSUME kind = "pull" PROVE PullFits(b)'
    BY <1>2 DEF PullFits
  <2>1. /\ b \in up /\ (b \notin AgentCore \/ r = Absent) /\ r \in Backed
        /\ files = store
    BY <1>0 DEF BoxFits, PullFits, Outgoing
  <2>2. ASSUME r # Absent, NEW d \in past[r], d \notin Stored(files) PROVE d \in ahead
    BY <2>1, <2>2, HistoryMade, ListedOrLacking DEF Backed, Lacks
  <2>3. r # Absent => (Lacks(mem[b], op[b].head) \subseteq ahead \cup op[b].todo)'
    BY <1>2, <2>2 DEF List, Lacks, histVars
  <2> QED
    BY <1>2, <1>5, <2>1, <2>3 DEF PullFits, List
<1>8. PulledFits(b)'
  BY PulledStays DEF List, histVars
<1> QED
  BY <1>0, <1>2, <1>3, <1>4, <1>6, <1>7, <1>8, QuietStep DEF List, histVars, BoxFits

-----------------------------------------------------------------------------
(* The actions: files that cannot be read, and how transfers end. *)

LEMMA MissesIInv ==
    ASSUME IInv, NEW b \in Box, NEW f \in File, Misses(b, f) PROVE IInv'
<1>0. TypeOK /\ BoxFits(b)
  BY DEF IInv
<1> PICK e \in BOOLEAN : e <=> op[b].kind \in {"push", "pull"}
  OBVIOUS
<1>1. op' = [op EXCEPT ![b].todo = @ \ {f}, ![b].errors = e]
  BY DEF Misses
<1>2. /\ op' \in [Box -> OpState]
      /\ \A d \in Box : d # b => op'[d] = op[d]
      /\ op'[b].todo = op[b].todo \ {f} /\ op'[b].errors = e
      /\ op'[b].kind = op[b].kind /\ op'[b].pc = op[b].pc /\ op'[b].head = op[b].head
  BY <1>0, <1>1, TodoGives
<1>3. faults' \in 0..MaxFaults
  BY <1>0, FaultGives DEF Misses
<1>4. TypeOK' /\ OthersStay(b)
  BY <1>0, <1>2, <1>3 DEF Misses, TypeOK, OpState, OthersStay, histVars
<1>5. TodoFits(b)'
  BY <1>0, <1>2 DEF Misses, BoxFits, TodoFits, Outgoing
<1>6. Backed' = Backed /\ BackedBut(b)' = BackedBut(b)
  BY DEF Misses, Backed, BackedBut, Made, Lacks, histVars
<1>7. PushFits(b)' /\ PullFits(b)'
  BY <1>0, <1>2, <1>6 DEF Misses, BoxFits, PushFits, PullFits
<1>8. PulledFits(b)'
  BY PulledStays DEF Misses, histVars
<1> QED
  BY <1>0, <1>2, <1>4, <1>5, <1>7, <1>8, QuietStep DEF Misses, histVars, BoxFits

LEMMA PullDoneIInv == ASSUME IInv, NEW b \in Box, PullDone(b) PROVE IInv'
<1>0. TypeOK /\ BoxFits(b)
  BY DEF IInv
<1>1. /\ op' \in [Box -> OpState]
      /\ \A d \in Box : d # b => op'[d] = op[d]
      /\ TodoFits(b)' /\ PushFits(b)' /\ PullFits(b)'
      /\ op'[b].kind = "none"
  BY <1>0, EndGives DEF PullDone
<1>2. CASE UNCHANGED <<lastPull, pulled>>
  <2>1. TypeOK' /\ OthersStay(b)
    BY <1>0, <1>1, <1>2 DEF PullDone, TypeOK, OpState, OthersStay
  <2>2. PulledFits(b)'
    BY <1>2, PulledStays DEF PullDone
  <2> QED
    BY <1>1, <2>1, <2>2, QuietStep DEF PullDone
<1>3. CASE /\ op[b].kind # "fetch" /\ ~op[b].errors /\ op[b].head # Absent
           /\ lastPull' = [lastPull EXCEPT ![b] = op[b].head]
           /\ pulled' = pulled \cup {b}
  <2> PICK r \in Content : r = op[b].head
    BY <1>0 DEF TypeOK
  <2>1. LastPullBecomes(b, r)
    BY <1>0, <1>3, LastPullChanges
  <2>2. TypeOK' /\ OthersStay(b)
    BY <1>0, <1>1, <1>3, <2>1 DEF PullDone, TypeOK, OpState, OthersStay, LastPullBecomes
  <2>3. b \in up \ AgentCore /\ r \in Made /\ Lacks(mem[b], r) \subseteq ahead
    BY <1>0, <1>3 DEF PullDone, BoxFits, PullFits, Backed
  <2>4. PulledFits(b)'
    BY <2>1, <2>3 DEF PullDone, PulledFits, LastPullBecomes, Made, Lacks
  <2> QED
    BY <1>1, <2>2, <2>4, QuietStep DEF PullDone
<1> QED
  BY <1>2, <1>3 DEF PullDone

LEMMA PushDoneIInv == ASSUME IInv, NEW b \in Box, PushDone(b) PROVE IInv'
<1>0. TypeOK /\ BoxFits(b)
  BY DEF IInv
<1>1. /\ op' \in [Box -> OpState]
      /\ \A d \in Box : d # b => op'[d] = op[d]
      /\ TodoFits(b)' /\ PushFits(b)' /\ PullFits(b)'
      /\ op'[b].kind = "none"
  BY <1>0, EndGives DEF PushDone
<1>2. PulledFits(b)'
  BY PulledStays DEF PushDone, histVars
<1>3. CASE store' = store
  <2>1. TypeOK' /\ OthersStay(b)
    BY <1>0, <1>1, <1>3 DEF PushDone, TypeOK, OpState, OthersStay, histVars
  <2> QED
    BY <1>1, <1>2, <1>3, <2>1, QuietStep DEF PushDone, histVars
<1>4. CASE /\ ~op[b].errors /\ op[b].head # Absent
           /\ store' = [store EXCEPT ![PushRef] = op[b].head]
  <2> PICK r \in Content : r = op[b].head
    BY <1>0 DEF TypeOK
  <2>1. /\ store' \in Files /\ store'[PushRef] = r
        /\ \A f \in File : f # PushRef => store'[f] = store[f]
    BY <1>0, <1>4 DEF TypeOK, Files, File
  <2>2. TypeOK' /\ OthersStay(b)
    BY <1>0, <1>1, <2>1 DEF PushDone, TypeOK, OpState, OthersStay, Files, histVars
  <2>3. HistoryFits' /\ FilesFit' /\ Grow
    BY <1>4, <2>1 DEF PushDone, IInv, HistoryFits, Made, FilesFit, Grow, File, histVars
  <2>4. r \in Backed
    BY <1>0, <1>4 DEF PushDone, BoxFits, PushFits, BackedBut, Backed
  <2>5. StoreFits'
    BY <2>1, <2>3, <2>4, BackedGrows DEF IInv, StoreFits, File
  <2>6. mem'[b][PushRef] \in Backed' /\ mem'[b][Branch] \in BackedBut(b)'
    BY <1>0, <2>3, BackedGrows, BackedButGrows DEF PushDone, BoxFits
  <2>7. BoxFits(b)'
    BY <1>1, <1>2, <2>6 DEF BoxFits
  <2> QED
    BY <2>2, <2>3, <2>5, <2>7, StepOfBox
<1> QED
  BY <1>3, <1>4 DEF PushDone

-----------------------------------------------------------------------------
(* The actions: commits and copies. *)

LEMMA MakeCommitIInv ==
    ASSUME IInv, NEW b \in Box, NEW c \in Commit, MakeCommit(b, c) PROVE IInv'
<1>0. TypeOK /\ BoxFits(b) /\ c \notin Made /\ c \in File /\ c # Absent
  BY CommitFiles DEF IInv, MakeCommit, Made
<1> PICK head \in Content : head = mem[b][Branch]
  BY <1>0 DEF TypeOK, File
<1> DEFINE history == {c} \cup (IF head = Absent THEN {} ELSE past[head])
           m == [mem[b] EXCEPT ![c] = c, ![Branch] = c]
<1>1. head = Absent \/ /\ head \in Made
                       /\ Lacks(store, head) \cap Lacks(mem[b], head) \subseteq ahead
  BY <1>0 DEF BoxFits, BackedBut
<1>2. past[head] \subseteq Made \/ head = Absent
  BY <1>1, HistoryMade
<1>3. /\ past' \in [Commit -> SUBSET Commit] /\ past'[c] = history
      /\ \A d \in Commit : d # c => past'[d] = past[d]
  BY <1>0, <1>2 DEF MakeCommit, TypeOK, Made
<1>4. /\ m \in Files /\ m[c] = c /\ m[Branch] = c
      /\ \A f \in File : f # c /\ f # Branch => m[f] = mem[b][f]
  BY <1>0 DEF TypeOK, Files, File, Content
<1>5. mem' = [mem EXCEPT ![b] = m]
  BY <1>0 DEF MakeCommit, TypeOK
<1> HIDE DEF m
<1>6. MemBecomes(b, m)
  BY <1>0, <1>4, <1>5, MemChanges
<1>7. TypeOK' /\ OthersStay(b)
  BY <1>0, <1>3, <1>6 DEF MakeCommit, TypeOK, OthersStay, MemBecomes, Files, histVars
<1>8. Made' = Made \cup {c}
  BY <1>3 DEF Made
<1>9. HistoryFits'
  BY <1>1, <1>2, <1>3, <1>8 DEF IInv, HistoryFits
<1>10. Grow
  BY <1>0, <1>3 DEF MakeCommit, Grow, Made, histVars
<1>11. FilesFit'
  <2>1. ASSUME NEW d \in Box, NEW e \in Commit PROVE mem'[d][e] \in {e, Absent}
    BY <1>4, <1>6 DEF IInv, FilesFit, MemBecomes, File
  <2> QED
    BY <2>1 DEF IInv, FilesFit, MakeCommit
<1>12. FilesStay(b)
  BY <1>0, <1>4, <1>6, HistoryMade DEF FilesStay, MemBecomes, Made, File
<1>13. StoreFits'
  BY <1>10, <1>11, BackedGrows DEF IInv, StoreFits, MakeCommit
<1>14. c \in BackedBut(b)'
  <2> SUFFICES ASSUME NEW d \in history, store[d] # d, mem'[b][d] # d PROVE d \in ahead
    BY <1>3, <1>8 DEF BackedBut, Lacks, Content, MakeCommit, histVars
  <2>1. d # c /\ head # Absent /\ d \in past[head]
    BY <1>4, <1>6 DEF MemBecomes
  <2>2. mem[b][d] # d
    BY <1>2, <1>12, <2>1 DEF FilesStay
  <2> QED
    BY <1>1, <2>1, <2>2 DEF Lacks
<1>15. mem'[b][PushRef] \in Backed'
  BY <1>0, <1>4, <1>6, <1>10, <1>11, BackedGrows DEF BoxFits, MemBecomes, File
<1>16. TodoFits(b)' /\ PushFits(b)' /\ PullFits(b)'
  BY <1>10, <1>11, <1>12, TodoKept, PushKept, PullKept DEF MakeCommit
<1>17. PulledFits(b)'
  BY <1>0, <1>10, <1>11, <1>12, PulledKept DEF MakeCommit, BoxFits, PulledFits, FilesStay, histVars
<1>18. BoxFits(b)'
  BY <1>0, <1>4, <1>6, <1>14, <1>15, <1>16, <1>17 DEF BoxFits, MakeCommit, MemBecomes
<1> QED
  BY <1>7, <1>9, <1>10, <1>11, <1>13, <1>18, StepOfBox

LEMMA CopyInIInv ==
    ASSUME IInv, NEW b \in Box, NEW f \in File, CopyIn(b, f) PROVE IInv'
<1>0. /\ TypeOK /\ BoxFits(b)
      /\ op[b].pc = "copy" /\ op[b].kind \notin {"push", "sync"}
      /\ f \in op[b].todo /\ store[f] # Absent
  BY DEF IInv, CopyIn, Outgoing, MayCome, BoxFits, TodoFits
<1> DEFINE m == [mem[b] EXCEPT ![f] = store[f]]
<1>1. /\ m \in Files /\ m[f] = store[f]
      /\ \A g \in File : g # f => m[g] = mem[b][g]
  BY <1>0 DEF TypeOK, Files
<1>2. mem' = [mem EXCEPT ![b] = m]
  BY <1>0 DEF CopyIn, TypeOK
<1> HIDE DEF m
<1>3. MemBecomes(b, m)
  BY <1>0, <1>1, <1>2, MemChanges
<1>4. /\ op' \in [Box -> OpState]
      /\ \A d \in Box : d # b => op'[d] = op[d]
      /\ op'[b].todo = op[b].todo \ {f} /\ op'[b].errors = op[b].errors
      /\ op'[b].kind = op[b].kind /\ op'[b].pc = op[b].pc /\ op'[b].head = op[b].head
  BY <1>0, TickGives DEF CopyIn
<1>5. TypeOK' /\ OthersStay(b)
  BY <1>0, <1>3, <1>4 DEF CopyIn, TypeOK, OpState, OthersStay, MemBecomes, Files, histVars
<1>6. HistoryFits' /\ Grow
  BY DEF CopyIn, IInv, HistoryFits, Made, Grow, histVars
<1>7. FilesFit'
  <2>1. ASSUME NEW d \in Box, NEW c \in Commit PROVE mem'[d][c] \in {c, Absent}
    BY <1>1, <1>3 DEF IInv, FilesFit, MemBecomes, File
  <2> QED
    BY <2>1 DEF IInv, FilesFit, CopyIn
<1>8. \A g \in File : mem[b][g] # Absent => mem'[b][g] # Absent
  BY <1>0, <1>1, <1>3 DEF MemBecomes
<1>9. StoreFits' /\ store[Branch] \in Backed' /\ store[PushRef] \in Backed'
  BY <1>6, <1>7, BackedGrows DEF IInv, StoreFits, CopyIn
<1>10. Backed' \subseteq BackedBut(b)'
  BY DEF Backed, BackedBut
<1>11. BackedBut(b) \subseteq BackedBut(b)'
  BY <1>6, <1>7, <1>8, BackedButGrows
<1>12. mem'[b][PushRef] \in Backed' /\ mem'[b][Branch] \in BackedBut(b)'
  BY <1>0, <1>1, <1>3, <1>6, <1>7, <1>9, <1>10, <1>11, BackedGrows DEF BoxFits, MemBecomes, File
<1>13. TodoFits(b)'
  BY <1>0, <1>4 DEF CopyIn, BoxFits, TodoFits, Outgoing
<1>14. PushFits(b)'
  BY <1>0, <1>4 DEF PushFits
<1>15. PullFits(b)'
  <2> PICK r \in Content : r = op[b].head
    BY <1>0 DEF TypeOK
  <2> SUFFICES ASSUME op[b].kind = "pull" PROVE PullFits(b)'
    BY <1>4 DEF PullFits
  <2>1. b \in up /\ (b \notin AgentCore \/ r = Absent) /\ r \in Backed /\ r \in Backed'
    BY <1>0, <1>6, <1>7, BackedGrows DEF BoxFits, PullFits
  <2>2. ASSUME ~op[b].errors, r # Absent, NEW d \in past[r], mem'[b][d] # d
        PROVE  d \in ahead \/ (d \in op[b].todo /\ d # f)
    <3>1. d \in Commit
      BY <2>1, <2>2, HistoryMade DEF Backed
    <3>2. d # f
      BY <1>0, <1>1, <1>3, <2>2, <3>1, CommitFiles DEF MemBecomes
    <3>3. mem[b][d] # d
      BY <1>1, <1>3, <2>2, <3>1, <3>2 DEF MemBecomes, File
    <3> QED
      BY <1>0, <2>2, <3>2, <3>3 DEF BoxFits, PullFits, Lacks
  <2>3. ~op[b].errors /\ r # Absent =>
            (Lacks(mem[b], op[b].head) \subseteq ahead \cup op[b].todo)'
    BY <1>4, <2>2 DEF CopyIn, Lacks, histVars
  <2> QED
    BY <1>4, <2>1, <2>3 DEF PullFits, CopyIn
<1>16. PulledFits(b)'
  BY <1>0, <1>6, <1>7, <1>8, PulledKept DEF CopyIn, BoxFits, PulledFits, histVars
<1>17. BoxFits(b)'
  BY <1>0, <1>4, <1>12, <1>13, <1>14, <1>15, <1>16 DEF BoxFits, CopyIn
<1> QED
  BY <1>5, <1>6, <1>7, <1>9, <1>17, StepOfBox

LEMMA CopyOutIInv ==
    ASSUME IInv, NEW b \in Box, NEW f \in File, CopyOut(b, f) PROVE IInv'
<1>0. /\ TypeOK /\ BoxFits(b)
      /\ op[b].pc = "copy" /\ op[b].kind \in {"push", "sync"}
      /\ f \in op[b].todo /\ mem[b][f] # Absent
  BY DEF IInv, CopyOut, Outgoing, MayCome, BoxFits, TodoFits
<1>1. /\ store' \in Files /\ store'[f] = mem[b][f]
      /\ \A g \in File : g # f => store'[g] = store[g]
  BY <1>0 DEF CopyOut, TypeOK, Files
<1>2. /\ op' \in [Box -> OpState]
      /\ \A d \in Box : d # b => op'[d] = op[d]
      /\ op'[b].todo = op[b].todo \ {f} /\ op'[b].errors = op[b].errors
      /\ op'[b].kind = op[b].kind /\ op'[b].pc = op[b].pc /\ op'[b].head = op[b].head
  BY <1>0, TickGives DEF CopyOut
<1> PICK h \in Content : h = mem[b][Branch]
  BY <1>0 DEF TypeOK, File
<1>3. h = Absent \/ (h \in Made /\ h \in BackedBut(b))
  BY <1>0 DEF BoxFits, BackedBut
<1>4. ahead \subseteq ahead' /\ ahead' \subseteq Commit
  <2>1. f = Branch => past[h] \subseteq Commit
    BY <1>0, <1>3, HistoryMade
  <2> QED
    BY <1>0, <2>1 DEF CopyOut, TypeOK
<1>5. TypeOK' /\ OthersStay(b)
  BY <1>0, <1>1, <1>2, <1>4 DEF CopyOut, TypeOK, OpState, OthersStay, Files
<1>6. HistoryFits' /\ Grow
  BY <1>0, <1>1, <1>4 DEF CopyOut, IInv, HistoryFits, Made, Grow
<1>7. FilesFit'
  BY <1>1 DEF IInv, FilesFit, CopyOut, File
<1>8. Backed \subseteq Backed'
  BY <1>6, <1>7, BackedGrows
<1>9. f = Branch => h \in Backed'
  <2> SUFFICES ASSUME f = Branch PROVE h \in Backed'
    OBVIOUS
  <2>1. h \in Made
    BY <1>0, <1>3
  <2>2. ASSUME NEW d \in past[h], store'[d] # d PROVE d \in ahead'
    <3>1. store[d] # d
      BY <1>1, <2>1, <2>2, HistoryMade DEF File
    <3> QED
      BY <3>1 DEF CopyOut
  <2> QED
    BY <2>1, <2>2 DEF Backed, Lacks, Made, CopyOut
<1>10. StoreFits'
  BY <1>0, <1>1, <1>8, <1>9 DEF IInv, StoreFits, BoxFits, File
<1>11. mem'[b][PushRef] \in Backed' /\ mem'[b][Branch] \in BackedBut(b)'
  BY <1>0, <1>6, <1>7, <1>8, BackedButGrows DEF BoxFits, CopyOut
<1>12. TodoFits(b)' /\ PullFits(b)'
  BY <1>0, <1>2 DEF CopyOut, BoxFits, TodoFits, Outgoing, PullFits
<1>13. PushFits(b)'
  <2> PICK r \in Content : r = op[b].head
    BY <1>0 DEF TypeOK
  <2> SUFFICES ASSUME op[b].kind = "push" PROVE PushFits(b)'
    BY <1>2 DEF PushFits
  <2>1. (b \in AgentCore \/ r # Absent) /\ r \in BackedBut(b) /\ r \in BackedBut(b)'
    BY <1>0, <1>6, <1>7, BackedButGrows DEF BoxFits, PushFits, CopyOut
  <2>2. ASSUME ~op[b].errors, r # Absent, NEW d \in past[r], store'[d] # d, mem[b][d] = d
        PROVE  d \in op[b].todo /\ d # f
    <3>1. d \in Commit
      BY <2>1, <2>2, HistoryMade DEF BackedBut
    <3>2. d # f
      BY <1>1, <2>2
    <3>3. store[d] # d
      BY <1>1, <2>2, <3>1, <3>2 DEF File
    <3> QED
      BY <1>0, <2>2, <3>2, <3>3 DEF BoxFits, PushFits, Lacks
  <2>3. ~op[b].errors /\ r # Absent =>
            (Lacks(store, op[b].head) \subseteq Lacks(mem[b], op[b].head) \cup op[b].todo)'
    BY <1>2, <2>2 DEF CopyOut, Lacks
  <2> QED
    BY <1>2, <2>1, <2>3 DEF PushFits
<1>14. PulledFits(b)'
  BY <1>0, <1>6, <1>7, PulledKept DEF CopyOut, BoxFits, PulledFits
<1>15. BoxFits(b)'
  BY <1>0, <1>2, <1>11, <1>12, <1>13, <1>14 DEF BoxFits, CopyOut
<1> QED
  BY <1>5, <1>6, <1>7, <1>10, <1>15, StepOfBox

-----------------------------------------------------------------------------
(* The theorems. *)

LEMMA StepIInv == IInv /\ [Next]_vars => IInv'
<1> SUFFICES ASSUME IInv, [Next]_vars PROVE IInv'
  OBVIOUS
<1>1. CASE UNCHANGED vars
  BY <1>1 DEF vars, boxVars, histVars, IInv, TypeOK, HistoryFits, FilesFit, StoreFits,
              BoxFits, Made, Backed, BackedBut, Lacks, TodoFits, PushFits, PullFits,
              PulledFits, Outgoing
<1>2. CASE Next
  <2> PICK b \in Box :
        \/ Start(b) \/ RestoreDone(b) \/ Close(b) \/ Stop(b) \/ SyncDone(b) \/ Dies(b)
        \/ Push(b) \/ Pull(b) \/ Fetch(b) \/ List(b)
        \/ PushDone(b) \/ PullDone(b) \/ StoreFails(b)
        \/ \E c \in Commit : MakeCommit(b, c)
        \/ \E f \in File : CopyIn(b, f) \/ CopyOut(b, f) \/ Misses(b, f)
    BY <1>2 DEF Next
  <2> QED
    BY StartIInv, RestoreDoneIInv, CloseIInv, StopIInv, SyncDoneIInv, DiesIInv,
       PushIInv, PullIInv, FetchIInv, ListIInv, PushDoneIInv, PullDoneIInv,
       StoreFailsIInv, MakeCommitIInv, CopyInIInv, CopyOutIInv, MissesIInv
<1> QED
  BY <1>1, <1>2

(* The inductive invariant holds in every reachable state, for all boxes   *)
(* and commits, of the code of git_sync.py, sync.py and engine_sync.py.    *)
THEOREM InvariantHolds == Spec => []IInv
BY InitIInv, StepIInv, PTL DEF Spec

(* Every variable keeps its type: in particular no box is up again once it *)
(* was stopped (git_box.py, agentcore_box.py).                             *)
THEOREM TypeCorrect == Spec => []TypeOK
<1>1. IInv => TypeOK
  BY DEF IInv
<1> QED
  BY <1>1, InvariantHolds, PTL

(* When git push says "Everything up-to-date", the store has every commit  *)
(* of the box's HEAD, but for those its branch was once ahead of           *)
(* (host_commands/git_sync.py).                                            *)
THEOREM SkippedPushHolds == Spec => []SkippedPushIsStored
<1>1. IInv => SkippedPushIsStored
  <2> SUFFICES ASSUME IInv, NEW b \in up, mem[b][Branch] # Absent,
                      store[PushRef] = mem[b][Branch]
               PROVE  Lacks(store, mem[b][Branch]) \subseteq ahead
    BY DEF SkippedPushIsStored, PushSkips
  <2> QED
    BY DEF IInv, StoreFits, Backed
<1> QED
  BY <1>1, InvariantHolds, PTL

(* When git pull says "Already up to date" after a pull, the box has every *)
(* commit of what it pulled, with the same exception                       *)
(* (host_commands/git_sync.py).                                            *)
THEOREM SkippedPullHolds == Spec => []SkippedPullIsHere
<1>1. IInv => SkippedPullIsHere
  BY DEF IInv, TypeOK, BoxFits, PulledFits, SkippedPullIsHere
<1> QED
  BY <1>1, InvariantHolds, PTL

(* What a push records as pushed is in the store, as far as its box had it *)
(* (host_commands/git_sync.py, sync.py, engine_sync.py).                   *)
THEOREM RecordedHolds == Spec => RecordedIsStored
<1>1. ASSUME IInv, NEW b \in Box, PushDone(b), store' # store
      PROVE  Lacks(store', store'[PushRef]) \subseteq Lacks(mem[b], store'[PushRef])
  <2>0. TypeOK /\ PushFits(b)
    BY <1>1 DEF IInv, BoxFits
  <2> PICK r \in Content : r = op[b].head
    BY <2>0 DEF TypeOK
  <2>1. /\ ~op[b].errors /\ r # Absent /\ op[b].todo = {} /\ past' = past
        /\ store'[PushRef] = r
        /\ \A c \in Commit : store'[c] = store[c]
    BY <1>1, <2>0 DEF PushDone, TypeOK, File
  <2>2. r \in Made /\ Lacks(store, r) \subseteq Lacks(mem[b], r)
    BY <1>1, <2>0, <2>1 DEF PushDone, PushFits, BackedBut
  <2>3. ASSUME NEW d \in past[r], store'[d] # d PROVE mem[b][d] # d
    BY <1>1, <2>1, <2>2, <2>3, HistoryMade DEF Lacks
  <2> QED
    BY <2>1, <2>3 DEF Lacks
<1>2. IInv /\ [Next]_vars =>
        [\A b \in Box : PushDone(b) /\ store' # store =>
             Lacks(store', store'[PushRef]) \subseteq Lacks(mem[b], store'[PushRef])]_vars
  BY <1>1
<1> QED
  BY <1>2, InvariantHolds, PTL DEF Spec, RecordedIsStored

(* The push of a GitBox writes the branch after its commits, unless the    *)
(* box committed meanwhile, could not read one, or was itself restored     *)
(* from a store that had the branch alone (sync.py, git_box.py).           *)
THEOREM BranchHolds == Spec => BranchAfterCommits
<1>1. ASSUME IInv, NEW b \in Box \ (AgentCore \cup refsFirst), CopyOut(b, Branch),
             mem[b][Branch] = op[b].head, ~op[b].errors
      PROVE  Lacks(store', op[b].head) \subseteq Lacks(mem[b], op[b].head)
  <2>0. TypeOK /\ BoxFits(b) /\ PushFits(b)
    BY <1>1 DEF IInv, BoxFits
  <2> PICK r \in Content : r = op[b].head
    BY <2>0 DEF TypeOK
  <2>1. /\ op[b].kind = "push" /\ op[b].pc = "copy"
        /\ op[b].todo \cap Commit = {}
        /\ \A c \in Commit : store'[c] = store[c]
    BY <1>1, <2>0 DEF CopyOut, MayCome, Outgoing, BoxFits, TypeOK, File
  <2>2. r \in Made /\ Lacks(store, r) \subseteq Lacks(mem[b], r) \cup op[b].todo
    BY <1>1, <2>0, <2>1 DEF PushFits, BackedBut
  <2>3. ASSUME NEW d \in past[r], store'[d] # d PROVE mem[b][d] # d
    BY <1>1, <2>1, <2>2, <2>3, HistoryMade DEF Lacks
  <2> QED
    BY <2>3 DEF Lacks
<1>2. IInv /\ [Next]_vars =>
        [\A b \in Box \ (AgentCore \cup refsFirst) :
           /\ CopyOut(b, Branch)
           /\ mem[b][Branch] = op[b].head /\ ~op[b].errors
           => Lacks(store', op[b].head) \subseteq Lacks(mem[b], op[b].head)]_vars
  BY <1>1
<1> QED
  BY <1>2, InvariantHolds, PTL DEF Spec, BranchAfterCommits

-----------------------------------------------------------------------------
(* The repository as SharedRepo describes it.  What the boxes show of it,  *)
(* by the names of SharedRepo's variables.                                 *)

SeenBy(b) == IF b \in pulled THEN lastPull[b] ELSE Absent
Held == [b \in Box |-> CommitsIn(mem[b])]
Heads == [b \in Box |-> mem[b][Branch]]
Seen == [b \in Box |-> SeenBy(b)]

StoreUnseen == UNCHANGED <<CommitsIn(store), store[Branch], store[PushRef], past, ahead>>
BoxesUnseen == UNCHANGED <<Held, Heads, Seen>>

(* When one box changes, the others show what they did. *)
LEMMA OneBoxShows ==
    ASSUME NEW b \in Box,
           \A d \in Box : d # b => mem'[d] = mem[d] /\ SeenBy(d)' = SeenBy(d)
    PROVE  /\ Held' = [Held EXCEPT ![b] = CommitsIn(mem[b])']
           /\ Heads' = [Heads EXCEPT ![b] = mem'[b][Branch]]
           /\ Seen' = [Seen EXCEPT ![b] = SeenBy(b)']
BY DEF Held, Heads, Seen, CommitsIn

LEMMA SameBoxes ==
    ASSUME UNCHANGED mem, \A d \in Box : SeenBy(d)' = SeenBy(d)
    PROVE  BoxesUnseen
BY DEF BoxesUnseen, Held, Heads, Seen, CommitsIn

LEMMA SameStore == ASSUME UNCHANGED <<store, past, ahead>> PROVE StoreUnseen
BY DEF StoreUnseen, CommitsIn

(* A reference with a history that is backed is complete, in the terms of  *)
(* SharedRepo; what a box remembers likewise.                              *)
LEMMA BackedIsComplete ==
    ASSUME IInv, NEW r \in Backed, r # Absent
    PROVE  r \in Commit /\ Repo!Complete(CommitsIn(store), r)
<1>1. r \in Made /\ Lacks(store, r) \subseteq ahead
  BY DEF Backed
<1>2. past[r] \subseteq Commit /\ past[r] # {} /\ r \in Commit
  BY <1>1, HistoryMade
<1>3. past[r] \subseteq CommitsIn(store) \cup ahead
  BY <1>1, <1>2 DEF Lacks, CommitsIn
<1> QED
  BY <1>2, <1>3 DEF Repo!Complete

LEMMA HereIsComplete ==
    ASSUME IInv, NEW b \in Box, NEW r \in Made, Lacks(mem[b], r) \subseteq ahead
    PROVE  r \in Commit /\ Repo!Complete(Held[b], r)
<1>1. past[r] \subseteq Commit /\ past[r] # {} /\ r \in Commit
  BY HistoryMade
<1>2. past[r] \subseteq CommitsIn(mem[b]) \cup ahead
  BY <1>1 DEF Lacks, CommitsIn
<1> QED
  BY <1>1, <1>2 DEF Repo!Complete, Held

LEMMA InitIsRepos == Init => Repo!Init
<1> SUFFICES ASSUME Init PROVE Repo!Init
  OBVIOUS
<1>1. CommitsIn(Nothing) = {}
  BY DEF CommitsIn, Nothing, File
<1>2. Nothing[Branch] = Absent /\ Nothing[PushRef] = Absent
  BY DEF Nothing, File
<1> QED
  BY <1>1, <1>2 DEF Init, Repo!Init

(* The steps between two copies show nothing. *)
LEMMA QuietShowsNothing ==
    ASSUME IInv, NEW b \in Box,
           \/ Start(b) \/ Stop(b) \/ Push(b) \/ Pull(b) \/ Fetch(b) \/ List(b)
           \/ \E f \in File : Misses(b, f)
    PROVE  StoreUnseen /\ BoxesUnseen
<1>1. UNCHANGED <<store, mem, lastPull, past, ahead, pulled>>
  BY DEF Start, Stop, Push, Pull, Fetch, List, Misses, histVars
<1> QED
  BY <1>1, SameBoxes, SameStore DEF SeenBy

LEMMA RestoreShowsNothing ==
    ASSUME IInv, NEW b \in Box, RestoreDone(b)
    PROVE  StoreUnseen /\ BoxesUnseen
<1>1. b \notin pulled
  BY DEF RestoreDone, IInv, BoxFits, PulledFits
<1>2. \A d \in Box : d # b => lastPull'[d] = lastPull[d]
  BY DEF RestoreDone, IInv, TypeOK
<1>3. \A d \in Box : SeenBy(d)' = SeenBy(d)
  BY <1>1, <1>2 DEF RestoreDone, SeenBy, histVars
<1> QED
  BY <1>3, SameBoxes, SameStore DEF RestoreDone, histVars

LEMMA GoneIsLost ==
    ASSUME IInv, NEW b \in Box, Gone(b), UNCHANGED <<store, past, ahead>>
    PROVE  Repo!Lose(b)
<1>1. MemBecomes(b, Nothing) /\ LastPullBecomes(b, Absent)
  BY MemChanges, LastPullChanges DEF IInv, Gone, Nothing, Files, Content
<1>2. Nothing[Branch] = Absent /\ CommitsIn(Nothing) = {}
  BY DEF CommitsIn, Nothing, File
<1>3. \A d \in Box : d # b => mem'[d] = mem[d] /\ SeenBy(d)' = SeenBy(d)
  BY <1>1 DEF MemBecomes, LastPullBecomes, SeenBy, Gone
<1>4. CommitsIn(mem[b])' = {} /\ mem'[b][Branch] = Absent /\ SeenBy(b)' = Absent
  BY <1>1, <1>2 DEF MemBecomes, SeenBy, Gone, CommitsIn
<1>5. /\ Held' = [Held EXCEPT ![b] = {}] /\ Heads' = [Heads EXCEPT ![b] = Absent]
      /\ Seen' = [Seen EXCEPT ![b] = Absent]
  BY <1>3, <1>4, OneBoxShows
<1> QED
  BY <1>5, SameStore DEF Repo!Lose, StoreUnseen, Held, Heads, Seen, SeenBy

LEMMA MakeCommitIsMake ==
    ASSUME IInv, NEW b \in Box, NEW c \in Commit, MakeCommit(b, c)
    PROVE  Repo!Make(b, c)
<1> DEFINE m == [mem[b] EXCEPT ![c] = c, ![Branch] = c]
<1>1. /\ mem' = [mem EXCEPT ![b] = m] /\ m \in Files /\ m[c] = c /\ m[Branch] = c
      /\ \A d \in Commit : d # c => m[d] = mem[b][d]
  BY DEF MakeCommit, IInv, TypeOK, Files, File, Content
<1> HIDE DEF m
<1>2. MemBecomes(b, m)
  BY <1>1, MemChanges DEF IInv
<1>3. \A d \in Box : d # b => mem'[d] = mem[d] /\ SeenBy(d)' = SeenBy(d)
  BY <1>2 DEF MemBecomes, SeenBy, MakeCommit, histVars
<1>4. /\ CommitsIn(mem[b])' = Held[b] \cup {c} /\ mem'[b][Branch] = c
      /\ SeenBy(b)' = Seen[b]
  <2>1. mem'[b] = m /\ Held[b] = CommitsIn(mem[b])
    BY <1>2 DEF MemBecomes, Held
  <2>2. CommitsIn(m) = CommitsIn(mem[b]) \cup {c}
    BY <1>1 DEF CommitsIn
  <2>3. SeenBy(b)' = Seen[b]
    BY DEF Seen, SeenBy, MakeCommit, histVars
  <2> QED
    BY <1>1, <2>1, <2>2, <2>3 DEF CommitsIn
<1>5. /\ Held' = [Held EXCEPT ![b] = Held[b] \cup {c}]
      /\ Heads' = [Heads EXCEPT ![b] = c]
      /\ Seen' = [Seen EXCEPT ![b] = Seen[b]]
  BY <1>3, <1>4, OneBoxShows
<1>6. Seen' = Seen
  BY <1>5 DEF Seen
<1>7. UNCHANGED <<CommitsIn(store), store[Branch], store[PushRef], ahead>>
  BY DEF MakeCommit, CommitsIn, histVars
<1>8. /\ past[c] = {}
      /\ past' = [past EXCEPT ![c] = {c} \cup (IF Heads[b] = Absent THEN {} ELSE past[Heads[b]])]
  BY DEF MakeCommit, Heads
<1> QED
  BY <1>5, <1>6, <1>7, <1>8 DEF Repo!Make, Held, Heads, Seen, SeenBy

(* A file that comes in is a commit the store has, its branch, or a push   *)
(* ref, which SharedRepo does not know of.                                 *)
LEMMA CopyInIsGet ==
    ASSUME IInv, NEW b \in Box, NEW f \in File, CopyIn(b, f)
    PROVE  [Repo!Next]_(Repo!repoVars)
<1>1. /\ f \in op[b].todo /\ store[f] # Absent
  BY DEF IInv, CopyIn, Outgoing, MayCome, BoxFits, TodoFits
<1> DEFINE m == [mem[b] EXCEPT ![f] = store[f]]
<1>2. /\ mem' = [mem EXCEPT ![b] = m] /\ m \in Files /\ m[f] = store[f]
      /\ \A g \in File : g # f => m[g] = mem[b][g]
  BY DEF CopyIn, IInv, TypeOK, Files
<1> HIDE DEF m
<1>3. MemBecomes(b, m)
  BY <1>2, MemChanges DEF IInv
<1>4. \A d \in Box : SeenBy(d)' = SeenBy(d)
  BY DEF SeenBy, CopyIn, histVars
<1>5. \A d \in Box : d # b => mem'[d] = mem[d]
  BY <1>3 DEF MemBecomes
<1>6. /\ Held' = [Held EXCEPT ![b] = CommitsIn(mem[b])']
      /\ Heads' = [Heads EXCEPT ![b] = mem'[b][Branch]]
      /\ Seen' = Seen
  <2>1. Seen' = Seen
    BY <1>4 DEF Seen
  <2> QED
    BY <1>4, <1>5, <2>1, OneBoxShows
<1>7. StoreUnseen
  BY SameStore DEF CopyIn, histVars
<1>8. CASE f \in Commit
  <2>1. store[f] = f
    BY <1>1, <1>8, CommitFiles
  <2>2. CommitsIn(mem[b])' = Held[b] \cup {f} /\ mem'[b][Branch] = Heads[b]
    BY <1>2, <1>3, <1>8, <2>1 DEF MemBecomes, CommitsIn, Held, Heads, File
  <2>3. Held' = [Held EXCEPT ![b] = Held[b] \cup {f}] /\ Heads' = Heads
    BY <1>6, <2>2 DEF Heads
  <2>4. f \in CommitsIn(store)
    BY <1>8, <2>1 DEF CommitsIn
  <2>5. Repo!Get(b, f)
    BY <1>6, <1>7, <2>3, <2>4 DEF Repo!Get, Held, Heads, Seen, SeenBy, StoreUnseen
  <2> QED
    BY <1>8, <2>5 DEF Repo!Next
<1>9. CASE f = Branch
  <2>1. CommitsIn(mem[b])' = Held[b] /\ mem'[b][Branch] = store[Branch]
    BY <1>2, <1>3, <1>9 DEF MemBecomes, CommitsIn, Held, File
  <2>2. Held' = Held /\ Heads' = [Heads EXCEPT ![b] = store[Branch]]
    BY <1>6, <2>1 DEF Held
  <2>3. Repo!Follow(b)
    BY <1>1, <1>6, <1>7, <1>9, <2>2 DEF Repo!Follow, Held, Heads, Seen, SeenBy, StoreUnseen
  <2> QED
    BY <2>3 DEF Repo!Next
<1>10. CASE f = PushRef
  <2>1. CommitsIn(mem[b])' = Held[b] /\ mem'[b][Branch] = Heads[b]
    BY <1>2, <1>3, <1>10 DEF MemBecomes, CommitsIn, Held, Heads, File
  <2>2. Held' = Held /\ Heads' = Heads
    BY <1>6, <2>1 DEF Held, Heads
  <2> QED
    BY <1>6, <1>7, <2>2 DEF Repo!repoVars, Held, Heads, Seen, SeenBy, StoreUnseen
<1> QED
  BY <1>8, <1>9, <1>10 DEF File

(* A file that goes out is a commit, the branch, or an older push ref.     *)
LEMMA CopyOutIsGive ==
    ASSUME IInv, NEW b \in Box, NEW f \in File, CopyOut(b, f)
    PROVE  Repo!Next
<1>1. /\ f \in op[b].todo /\ mem[b][f] # Absent
  BY DEF IInv, CopyOut, Outgoing, MayCome, BoxFits, TodoFits
<1>2. /\ store' \in Files /\ store'[f] = mem[b][f]
      /\ \A g \in File : g # f => store'[g] = store[g]
  BY DEF CopyOut, IInv, TypeOK, Files
<1>3. BoxesUnseen /\ past' = past
  BY SameBoxes DEF CopyOut, SeenBy
<1>4. CASE f \in Commit
  <2>1. mem[b][f] = f /\ f # Branch /\ f # PushRef
    BY <1>1, <1>4, CommitFiles
  <2>2. CommitsIn(store)' = CommitsIn(store) \cup {f} /\ f \in Held[b]
    BY <1>2, <1>4, <2>1 DEF CommitsIn, Held, File
  <2>3. UNCHANGED <<store[Branch], store[PushRef], ahead>>
    BY <1>2, <2>1 DEF CopyOut, File
  <2>4. Repo!Give(b, f)
    BY <1>3, <2>2, <2>3 DEF Repo!Give, BoxesUnseen, Held, Heads, Seen, SeenBy
  <2> QED
    BY <1>4, <2>4 DEF Repo!Next
<1>5. CASE f = Branch
  <2> PICK h \in Content : h = mem[b][Branch]
    BY DEF IInv, TypeOK, File
  <2>1. h \in Made /\ past[h] \subseteq Commit
    BY <1>1, <1>5, HistoryMade DEF IInv, BoxFits, BackedBut
  <2>2. ahead' = ahead \cup (past[h] \ CommitsIn(store))
    BY <1>5, <2>1 DEF CopyOut, CommitsIn
  <2>3. CommitsIn(store)' = CommitsIn(store) /\ store'[PushRef] = store[PushRef]
    BY <1>2, <1>5 DEF CommitsIn, File
  <2>4. Heads[b] = h /\ store'[Branch] = h /\ h # Absent
    BY <1>1, <1>2, <1>5 DEF Heads
  <2>5. Repo!Lead(b)
    BY <1>3, <2>2, <2>3, <2>4 DEF Repo!Lead, BoxesUnseen, Held, Heads, Seen, SeenBy
  <2> QED
    BY <2>5 DEF Repo!Next
<1>6. CASE f = PushRef
  <2> PICK r \in Content : r = mem[b][PushRef]
    BY DEF IInv, TypeOK, File
  <2>1. r \in Commit /\ Repo!Complete(CommitsIn(store), r)
    BY <1>1, <1>6, BackedIsComplete DEF IInv, BoxFits
  <2>2. /\ CommitsIn(store)' = CommitsIn(store) /\ store'[Branch] = store[Branch]
        /\ store'[PushRef] = r /\ ahead' = ahead
    BY <1>2, <1>6 DEF CopyOut, CommitsIn, File
  <2>3. Repo!Record(r)
    BY <1>3, <2>1, <2>2 DEF Repo!Record, BoxesUnseen, Held, Heads, Seen, SeenBy
  <2> QED
    BY <2>1, <2>3 DEF Repo!Next
<1> QED
  BY <1>4, <1>5, <1>6 DEF File

LEMMA PushDoneIsRecord ==
    ASSUME IInv, NEW b \in Box, PushDone(b)
    PROVE  [Repo!Next]_(Repo!repoVars)
<1>1. BoxesUnseen /\ past' = past /\ ahead' = ahead
  BY SameBoxes DEF PushDone, SeenBy, histVars
<1>2. CASE store' = store
  BY <1>1, <1>2, SameStore
     DEF Repo!repoVars, StoreUnseen, BoxesUnseen, Held, Heads, Seen, SeenBy
<1>3. CASE /\ ~op[b].errors /\ op[b].head # Absent
           /\ store' = [store EXCEPT ![PushRef] = op[b].head]
  <2> PICK r \in Content : r = op[b].head
    BY DEF IInv, TypeOK
  <2>1. PushFits(b)
    BY DEF IInv, BoxFits
  <2>2. r \in Backed /\ r # Absent
    BY <1>3, <2>1 DEF PushDone, PushFits, BackedBut, Backed
  <2>3. r \in Commit /\ Repo!Complete(CommitsIn(store), r)
    BY <2>2, BackedIsComplete
  <2>4. /\ CommitsIn(store)' = CommitsIn(store) /\ store'[Branch] = store[Branch]
        /\ store'[PushRef] = r
    BY <1>3 DEF CommitsIn, File, IInv, TypeOK
  <2>5. Repo!Record(r)
    BY <1>1, <2>3, <2>4 DEF Repo!Record, BoxesUnseen, Held, Heads, Seen, SeenBy
  <2> QED
    BY <2>3, <2>5 DEF Repo!Next
<1> QED
  BY <1>2, <1>3 DEF PushDone

LEMMA PullDoneIsRemember ==
    ASSUME IInv, NEW b \in Box, PullDone(b)
    PROVE  [Repo!Next]_(Repo!repoVars)
<1>1. StoreUnseen
  BY SameStore DEF PullDone
<1>2. CASE UNCHANGED <<lastPull, pulled>>
  <2>1. BoxesUnseen
    BY <1>2, SameBoxes DEF PullDone, SeenBy
  <2> QED
    BY <1>1, <2>1 DEF Repo!repoVars, StoreUnseen, BoxesUnseen, Held, Heads, Seen, SeenBy
<1>3. CASE /\ op[b].kind # "fetch" /\ ~op[b].errors /\ op[b].head # Absent
           /\ lastPull' = [lastPull EXCEPT ![b] = op[b].head]
           /\ pulled' = pulled \cup {b}
  <2> PICK r \in Content : r = op[b].head
    BY DEF IInv, TypeOK
  <2>1. LastPullBecomes(b, r)
    BY <1>3, LastPullChanges DEF IInv
  <2>2. r \in Made /\ Lacks(mem[b], r) \subseteq ahead
    BY <1>3 DEF IInv, PullDone, BoxFits, PullFits, Backed
  <2>3. r \in Commit /\ Repo!Complete(Held[b], r)
    BY <2>2, HereIsComplete
  <2>4. /\ \A d \in Box : d # b => mem'[d] = mem[d] /\ SeenBy(d)' = SeenBy(d)
        /\ SeenBy(b)' = r
    BY <1>3, <2>1 DEF LastPullBecomes, SeenBy, PullDone
  <2>5. Seen' = [Seen EXCEPT ![b] = r] /\ Held' = Held /\ Heads' = Heads
    <3>1. Held' = Held /\ Heads' = Heads
      BY DEF PullDone, Held, Heads, CommitsIn
    <3> QED
      BY <2>4, <3>1, OneBoxShows
  <2>6. Repo!Remember(b, r)
    BY <1>1, <2>3, <2>5 DEF Repo!Remember, StoreUnseen, Held, Heads, Seen, SeenBy
  <2> QED
    BY <2>3, <2>6 DEF Repo!Next
<1> QED
  BY <1>2, <1>3 DEF PullDone

LEMMA StoreFailsIsLose ==
    ASSUME IInv, NEW b \in Box, StoreFails(b)
    PROVE  [Repo!Next]_(Repo!repoVars)
<1>1. CASE Gone(b)
  BY <1>1, GoneIsLost DEF StoreFails, Repo!Next
<1>2. CASE UNCHANGED <<mem, lastPull, pulled>>
  BY <1>2, SameBoxes, SameStore DEF StoreFails, Repo!repoVars, StoreUnseen, BoxesUnseen,
                                    Held, Heads, Seen, SeenBy
<1> QED
  BY <1>1, <1>2 DEF StoreFails

LEMMA RepoStep ==
    ASSUME IInv, [Next]_vars
    PROVE  [Repo!Next]_(Repo!repoVars)
<1>1. CASE UNCHANGED vars
  BY <1>1 DEF vars, boxVars, histVars, CommitsIn, Repo!repoVars
<1>2. CASE Next
  <2> PICK b \in Box :
        \/ Start(b) \/ RestoreDone(b) \/ Close(b) \/ Stop(b) \/ SyncDone(b) \/ Dies(b)
        \/ Push(b) \/ Pull(b) \/ Fetch(b) \/ List(b)
        \/ PushDone(b) \/ PullDone(b) \/ StoreFails(b)
        \/ \E c \in Commit : MakeCommit(b, c)
        \/ \E f \in File : CopyIn(b, f) \/ CopyOut(b, f) \/ Misses(b, f)
    BY <1>2 DEF Next
  <2>1. CASE \/ Start(b) \/ Stop(b) \/ Push(b) \/ Pull(b) \/ Fetch(b) \/ List(b)
             \/ RestoreDone(b) \/ \E f \in File : Misses(b, f)
    <3>1. StoreUnseen /\ BoxesUnseen
      BY <2>1, QuietShowsNothing, RestoreShowsNothing
    <3> QED
      BY <3>1 DEF Repo!repoVars, StoreUnseen, BoxesUnseen, Held, Heads, Seen, SeenBy
  <2>2. CASE Close(b) \/ SyncDone(b) \/ Dies(b)
    <3>1. Repo!Lose(b)
      BY <2>2, GoneIsLost DEF Close, SyncDone, Dies
    <3> QED
      BY <3>1 DEF Repo!Next
  <2>3. CASE \E c \in Commit : MakeCommit(b, c)
    BY <2>3, MakeCommitIsMake DEF Repo!Next
  <2>4. CASE \E f \in File : CopyIn(b, f) \/ CopyOut(b, f)
    BY <2>4, CopyInIsGet, CopyOutIsGive
  <2>5. CASE PushDone(b) \/ PullDone(b) \/ StoreFails(b)
    BY <2>5, PushDoneIsRecord, PullDoneIsRemember, StoreFailsIsLose
  <2> QED
    BY <2>1, <2>2, <2>3, <2>4, <2>5
<1> QED
  BY <1>1, <1>2

(* Restores, commits, pushes, pulls and stops, copying file by file in     *)
(* whatever order and breaking off anywhere (sync.py, engine_sync.py,      *)
(* host_commands/git_sync.py), amount to the steps of SharedRepo: the      *)
(* store loses no commit, histories stand, and what is recorded as pushed  *)
(* or remembered as pulled is complete.                                    *)
THEOREM RepoHolds == Spec => ImplementsRepo
BY InitIsRepos, RepoStep, InvariantHolds, PTL DEF Spec, ImplementsRepo, Repo!Spec
=============================================================================
