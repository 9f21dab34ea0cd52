------------------------------ MODULE SharedRepo ------------------------------
(***************************************************************************)
(* What sandboxes that share a repository can rely on, who know nothing of *)
(* files, transfers and the order in which they copy.                      *)
(*                                                                         *)
(* A commit has one history for good.  The store gets commits only from    *)
(* boxes that hold them, and never loses one.  A commit is recorded as     *)
(* pushed only with its whole history in the store, and remembered as      *)
(* pulled only with its whole history in the box; what the store's branch  *)
(* was set ahead of, and the store has yet to get, is owed and excepted.   *)
(***************************************************************************)
CONSTANTS Box, Commit, None

VARIABLES
    hist,     \* Commit -> its history with itself, {} until it is made
    kept,     \* the commits in the store
    tip,      \* the store's branch
    mark,     \* what the store says was pushed
    owed,     \* commits that were missing when the branch was set
    held,     \* Box -> the commits it holds
    head,     \* Box -> its branch
    seen      \* Box -> what it remembers as pulled

repoVars == <<hist, kept, tip, mark, owed, held, head, seen>>

(* All of r's history is among these commits, or owed. *)
Complete(commits, r) ==
    r \in Commit /\ hist[r] # {} /\ hist[r] \subseteq commits \cup owed

Init ==
    /\ hist = [c \in Commit |-> {}]
    /\ kept = {} /\ tip = None /\ mark = None /\ owed = {}
    /\ held = [b \in Box |-> {}]
    /\ head = [b \in Box |-> None]
    /\ seen = [b \in Box |-> None]

(* A new commit on the box's branch. *)
Make(b, c) ==
    /\ hist[c] = {}
    /\ hist' = [hist EXCEPT ![c] = {c} \cup (IF head[b] = None THEN {} ELSE hist[head[b]])]
    /\ held' = [held EXCEPT ![b] = @ \cup {c}]
    /\ head' = [head EXCEPT ![b] = c]
    /\ UNCHANGED <<kept, tip, mark, owed, seen>>

Give(b, c) ==
    /\ c \in held[b]
    /\ kept' = kept \cup {c}
    /\ UNCHANGED <<hist, tip, mark, owed, held, head, seen>>

Get(b, c) ==
    /\ c \in kept
    /\ held' = [held EXCEPT ![b] = @ \cup {c}]
    /\ UNCHANGED <<hist, kept, tip, mark, owed, head, seen>>

(* The store's branch becomes the box's. *)
Lead(b) ==
    /\ head[b] # None
    /\ tip' = head[b]
    /\ owed' = owed \cup (hist[head[b]] \ kept)
    /\ UNCHANGED <<hist, kept, mark, held, head, seen>>

(* The box's branch becomes the store's. *)
Follow(b) ==
    /\ tip # None
    /\ head' = [head EXCEPT ![b] = tip]
    /\ UNCHANGED <<hist, kept, tip, mark, owed, held, seen>>

(* A push is recorded; an older record may come back. *)
Record(r) ==
    /\ Complete(kept, r)
    /\ mark' = r
    /\ UNCHANGED <<hist, kept, tip, owed, held, head, seen>>

Remember(b, r) ==
    /\ Complete(held[b], r)
    /\ seen' = [seen EXCEPT ![b] = r]
    /\ UNCHANGED <<hist, kept, tip, mark, owed, held, head>>

(* The box is no more. *)
Lose(b) ==
    /\ held' = [held EXCEPT ![b] = {}]
    /\ head' = [head EXCEPT ![b] = None]
    /\ seen' = [seen EXCEPT ![b] = None]
    /\ UNCHANGED <<hist, kept, tip, mark, owed>>

Next ==
    \/ \E r \in Commit : Record(r)
    \/ \E b \in Box :
         \/ Lead(b) \/ Follow(b) \/ Lose(b)
         \/ \E c \in Commit : Make(b, c) \/ Give(b, c) \/ Get(b, c) \/ Remember(b, c)

Spec == Init /\ [][Next]_repoVars
=============================================================================
