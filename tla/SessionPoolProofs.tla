-------------------------- MODULE SessionPoolProofs --------------------------
(***************************************************************************)
(* IInv of SessionPool is an inductive invariant, for every number of      *)
(* sessions, every set of requests and every size of the pool: whatever    *)
(* creations, deletions, clean-ups and abandoned requests overlap, the     *)
(* pool keeps its size, no browser is lost but in a start or a close that  *)
(* failed or was cancelled, and a living session keeps its route.          *)
(***************************************************************************)
EXTENDS SessionPool, FiniteSetTheorems, SequenceTheorems, TLAPS

USE ConstantsAssumption

-----------------------------------------------------------------------------
(* Queues in which nobody stands twice. *)

Waiter == Call \cup {Cleaner}
Members(q) == {q[i] : i \in 1..Len(q)}
Line(q) == q \in Seq(Waiter) /\ \A i, j \in 1..Len(q) : q[i] = q[j] => i = j

LEMMA AppendLine ==
    ASSUME NEW q, Line(q), NEW t \in Waiter, t \notin Members(q)
    PROVE  /\ Line(Append(q, t))
           /\ Members(Append(q, t)) = Members(q) \cup {t}
           /\ q # <<>> => Append(q, t) # <<>> /\ Head(Append(q, t)) = Head(q)
<1> DEFINE r == Append(q, t)
<1>1. /\ r \in Seq(Waiter)
      /\ Len(q) \in Nat /\ Len(r) = Len(q) + 1
      /\ \A i \in 1..Len(q) : r[i] = q[i]
      /\ r[Len(q) + 1] = t
  BY DEF Line
<1> HIDE DEF r
<1>2. Members(r) = Members(q) \cup {t}
  <2>1. \A i \in 1..Len(r) : i \in 1..Len(q) \/ i = Len(q) + 1
    BY <1>1
  <2>2. Len(q) + 1 \in 1..Len(r) /\ \A i \in 1..Len(q) : i \in 1..Len(r)
    BY <1>1
  <2> QED
    BY <1>1, <2>1, <2>2 DEF Members
<1>3. \A i, j \in 1..Len(r) : r[i] = r[j] => i = j
  BY <1>1 DEF Line, Members
<1>4. q # <<>> => r # <<>> /\ Head(r) = Head(q)
  BY <1>1 DEF Line
<1> QED
  BY <1>1, <1>2, <1>3, <1>4 DEF Line, r

LEMMA TailLine ==
    ASSUME NEW q, Line(q), q # <<>>
    PROVE  /\ Line(Tail(q))
           /\ Members(Tail(q)) = Members(q) \ {Head(q)}
<1> DEFINE r == Tail(q)
<1>1. /\ r \in Seq(Waiter)
      /\ Len(q) \in Nat \ {0} /\ Len(r) = Len(q) - 1
      /\ \A i \in 1..Len(r) : r[i] = q[i+1]
      /\ q[1] = Head(q)
  BY HeadTailProperties, EmptySeq DEF Line
<1> HIDE DEF r
<1>2. Members(r) = Members(q) \ {Head(q)}
  <2>1. \A i \in 1..Len(r) : i + 1 \in 1..Len(q) /\ q[i+1] # q[1]
    BY <1>1 DEF Line
  <2>2. \A i \in 1..Len(q) : i = 1 \/ (i - 1 \in 1..Len(r) /\ r[i-1] = q[i])
    BY <1>1
  <2> QED
    BY <1>1, <2>1, <2>2 DEF Members
<1>3. \A i, j \in 1..Len(r) : r[i] = r[j] => i = j
  BY <1>1 DEF Line
<1> QED
  BY <1>1, <1>2, <1>3 DEF Line, r

-----------------------------------------------------------------------------
(* The queue of the lock, without what its holder is at. *)

QueueFits == Line(queue) /\ \A t \in Members(queue) : Waits(t)

LEMMA LockQueue == ASSUME TypeOK, LockFits PROVE QueueFits
BY DEF TypeOK, LockFits, QueueFits, Line, Members, Waiter

LEMMA NextQueue ==
    ASSUME QueueFits', queue' \in Seq(Call \cup {Cleaner})
    PROVE  /\ \A i \in 1..Len(queue') : Waits(queue[i])'
           /\ \A i, j \in 1..Len(queue') : queue'[i] = queue'[j] => i = j
BY DEF QueueFits, Line, Members, Waiter

(* Nobody but the holder starts or closes a browser. *)
LEMMA OneHolder ==
    ASSUME LockFits, NEW t, Holds(t)
    PROVE  /\ phase = "up"
           /\ \A d \in Call : call[d].work \in {"starting", "closing"} => d = t
           /\ cleaner = "closing" => t = Cleaner
BY DEF LockFits, Holds

(* One more at the end: whoever held the lock still does. *)
LEMMA JoinQueue ==
    ASSUME QueueFits, NEW t \in Waiter, ~Waits(t), Request(t), Waits(t)',
           \A u \in Waiter : Waits(u) => Waits(u)'
    PROVE  /\ QueueFits' /\ queue' \in Seq(Call \cup {Cleaner})
           /\ \A u : Holds(u) => Holds(u)'
<1>1. Line(queue') /\ Members(queue') = Members(queue) \cup {t}
  BY AppendLine DEF QueueFits, Request
<1>2. \A u : Holds(u) => Holds(u)'
  BY AppendLine DEF QueueFits, Request, Holds
<1>3. Members(queue) \subseteq Waiter
  BY ElementOfSeq DEF QueueFits, Line, Members
<1> QED
  BY <1>1, <1>2, <1>3 DEF QueueFits, Line, Waiter

(* The holder leaves. *)
LEMMA LeaveQueue ==
    ASSUME QueueFits, NEW t \in Waiter, Holds(t), Release,
           \A u \in Waiter : u # t /\ Waits(u) => Waits(u)'
    PROVE  QueueFits' /\ queue' \in Seq(Call \cup {Cleaner})
<1>1. Line(queue') /\ Members(queue') = Members(queue) \ {t}
  BY TailLine DEF QueueFits, Release, Holds
<1>2. Members(queue) \subseteq Waiter
  BY ElementOfSeq DEF QueueFits, Line, Members
<1> QED
  BY <1>1, <1>2 DEF QueueFits, Line, Waiter

LEMMA KeepQueue ==
    ASSUME QueueFits, UNCHANGED queue, \A u \in Waiter : Waits(u) => Waits(u)'
    PROVE  /\ QueueFits' /\ queue' \in Seq(Call \cup {Cleaner})
           /\ \A u : Holds(u)' = Holds(u)
<1>1. Members(queue) \subseteq Waiter
  BY ElementOfSeq DEF QueueFits, Line, Members
<1> QED
  BY <1>1 DEF QueueFits, Line, Waiter, Members, Holds

(* The clean-up goes on: it joins the queue q, or stays away from it.      *)
LEMMA CleanerGoesOn ==
    ASSUME Line(queue), NEW left, NEW q, CleanOn(left, q), Line(q),
           Cleaner \notin Members(q), Members(q) \subseteq Members(queue),
           \A t \in Members(queue) : Waits(t), UNCHANGED call
    PROVE  QueueFits' /\ queue' \in Seq(Call \cup {Cleaner})
<1>1. CASE queue' = Append(q, Cleaner) /\ cleaner' = "waiting"
  <2>1. Line(queue') /\ Members(queue') = Members(q) \cup {Cleaner}
    BY <1>1, AppendLine DEF Waiter
  <2>2. \A t \in Members(q) : Waits(t)'
    BY DEF Waits
  <2>3. Waits(Cleaner)'
    BY <1>1 DEF Waits
  <2> QED
    BY <2>1, <2>2, <2>3 DEF QueueFits, Line, Waiter
<1>2. CASE queue' = q
  <2>1. \A t \in Members(q) : Waits(t)'
    BY DEF Waits
  <2> QED
    BY <1>2, <2>1 DEF QueueFits, Line, Waiter
<1> QED
  BY <1>1, <1>2 DEF CleanOn

-----------------------------------------------------------------------------
(* Requests. *)

CallState == [op   : {"none", "create", "close"},
              sess : Session \cup {NoSession},
              orch : {"idle", "posted", "gone"},
              work : {"idle", "waiting", "starting", "closing", "ok", "error"}]

(* The worker's side of c moves, and nothing else of any request. *)
LEMMA WorkingCalls ==
    ASSUME TypeOK, NEW c \in Call,
           NEW w \in {"idle", "waiting", "starting", "closing", "ok", "error"},
           Working(c, w)
    PROVE  /\ call' \in [Call -> CallState]
           /\ \A d \in Call : d # c => call'[d] = call[d]
           /\ call'[c].op = call[c].op /\ call'[c].sess = call[c].sess
           /\ call'[c].work = w
<1>1. call \in [Call -> CallState]
  BY DEF TypeOK, CallState
<1>2. call' = [call EXCEPT ![c] = [call[c] EXCEPT !.work = w]]
  BY <1>1 DEF Working
<1>3. call[c] \in CallState
  BY <1>1
<1>4. [call[c] EXCEPT !.work = w] \in CallState
  BY <1>3 DEF CallState
<1> QED
  BY <1>1, <1>2, <1>3, <1>4 DEF CallState

(* The pool's size: it is finite, and what shrinks stays within its bound. *)
LEMMA Finite ==
    ASSUME NEW S \in SUBSET Session
    PROVE  IsFiniteSet(S) /\ Cardinality(S) \in Nat
<1>1. IsFiniteSet(Session)
  BY FS_Interval DEF Session
<1> QED
  BY <1>1, FS_Subset, FS_CardinalityType

LEMMA BoundKept ==
    ASSUME CapacityBound, pooled \cup Starting \in SUBSET Session,
           (pooled \cup Starting)' \subseteq pooled \cup Starting
    PROVE  CapacityBound'
<1>1. Cardinality((pooled \cup Starting)') <= Cardinality(pooled \cup Starting)
  BY Finite, FS_Subset
<1>2. /\ Cardinality((pooled \cup Starting)') \in Nat
      /\ Cardinality(pooled \cup Starting) \in Nat
  BY Finite
<1> QED
  BY <1>1, <1>2 DEF CapacityBound

(* Whether or not playwright closes it, nothing but the browser of s and   *)
(* what is known of it changes.                                            *)
LEMMA ShutBrowser ==
    ASSUME TypeOK, NEW s \in Session, Launched(s), Shut(s)
    PROVE  \E b \in {"open", "closed"} :
             /\ browser' = [browser EXCEPT ![s] = b]
             /\ b = "open" => s \in lost'
             /\ lost \subseteq lost' /\ lost' \subseteq Session
<1>1. CASE browser' = [browser EXCEPT ![s] = "closed"] /\ lost' = lost
  BY <1>1 DEF TypeOK
<1>2. CASE browser' = browser /\ lost' = lost \cup {s}
  <2>1. browser' = [browser EXCEPT ![s] = browser[s]]
    BY <1>2 DEF TypeOK
  <2> QED
    BY <1>2, <2>1 DEF TypeOK, Launched
<1> QED
  BY <1>1, <1>2 DEF Shut

-----------------------------------------------------------------------------
(* One lemma for each action. *)

(* POST /browsers: a number that no session and no request has.            *)
LEMMA AskCreateIInv ==
    ASSUME IInv, NEW c \in Call, NEW s \in Session, AskCreate(c, s)
    PROVE  IInv'
<1> USE DEF IInv, AskCreate, poolVars, cleanerVars, routeVars, Turn, Answered
<1>1. QueueFits /\ c \in Waiter
  BY LockQueue DEF Waiter
<1>2. /\ QueueFits' /\ queue' \in Seq(Call \cup {Cleaner})
      /\ \A u : Holds(u) => Holds(u)'
  BY <1>1, JoinQueue DEF Waits, TypeOK, Idle
<1>3. TypeOK'
  BY <1>2 DEF TypeOK
<1>4. LockFits'
  BY <1>2, NextQueue DEF LockFits
<1>5. Closing' = Closing /\ Starting' = Starting
  BY DEF Closing, Starting, Idle
<1>6. CallsFit'
  BY DEF CallsFit, Launched, Unused
<1>7. CleanerFits' /\ RoutesFit' /\ ReturnedIsRouted'
  BY DEF RoutesFit, ReturnedIsRouted, Launched, CleanerFits
<1>8. PooledIsOpen'
  BY DEF PooledIsOpen, Closing
<1>9. OpenIsOwned'
  BY <1>5 DEF OpenIsOwned
<1>10. CapacityBound'
  BY BoundKept DEF TypeOK, Starting, CallsFit, Idle
<1> QED
  BY <1>3, <1>4, <1>6, <1>7, <1>8, <1>9, <1>10

(* The pool is full.                                                       *)
LEMMA RefuseIInv ==
    ASSUME IInv, NEW c \in Call, Refuse(c)
    PROVE  IInv'
<1> USE DEF IInv, Refuse, poolVars, cleanerVars, routeVars, Turn, Answered
<1>1. QueueFits /\ c \in Waiter
  BY LockQueue DEF Waiter
<1>2. /\ call' \in [Call -> CallState]
      /\ \A d \in Call : d # c => call'[d] = call[d]
      /\ call'[c].op = call[c].op /\ call'[c].sess = call[c].sess
      /\ call'[c].work = "error"
  BY WorkingCalls
<1>3. /\ phase = "up" /\ cleaner # "closing"
      /\ \A d \in Call : call[d].work \in {"starting", "closing"} => d = c
  BY OneHolder
<1>4. call[c].sess \in Session /\ browser[call[c].sess] = "unused"
  BY DEF CallsFit
<1>5. QueueFits' /\ queue' \in Seq(Call \cup {Cleaner})
  BY <1>1, <1>2, LeaveQueue DEF Waits, Waiter
<1>6. TypeOK'
  BY <1>2, <1>5 DEF TypeOK, CallState
<1>7. LockFits'
  BY <1>2, <1>5, NextQueue DEF LockFits, Holds
<1>8. CallsFit'
  BY <1>2, <1>3 DEF CallsFit, Launched
<1>9. CleanerFits' /\ RoutesFit' /\ ReturnedIsRouted'
  BY DEF RoutesFit, ReturnedIsRouted, Launched, CleanerFits
<1>10. PooledIsOpen'
  BY <1>2 DEF PooledIsOpen, Closing
<1>11. OpenIsOwned'
  BY <1>3 DEF OpenIsOwned, Starting, Closing
<1>12. CapacityBound'
  BY <1>2, <1>3, BoundKept DEF TypeOK, Starting
<1> QED
  BY <1>6, <1>7, <1>8, <1>9, <1>10, <1>11, <1>12

(* The browser of a fresh number starts, with the lock held.               *)
LEMMA AdmitIInv ==
    ASSUME IInv, NEW c \in Call, Admit(c)
    PROVE  IInv'
<1> USE DEF IInv, Admit, poolVars, cleanerVars, routeVars, Turn, Answered
<1>1. QueueFits /\ c \in Waiter
  BY LockQueue DEF Waiter
<1>2. /\ call' \in [Call -> CallState]
      /\ \A d \in Call : d # c => call'[d] = call[d]
      /\ call'[c].op = call[c].op /\ call'[c].sess = call[c].sess
      /\ call'[c].work = "starting"
  BY WorkingCalls
<1>3. /\ phase = "up" /\ cleaner # "closing"
      /\ \A d \in Call : call[d].work \in {"starting", "closing"} => d = c
  BY OneHolder
<1>4. call[c].sess \in Session /\ browser[call[c].sess] = "unused"
  BY DEF CallsFit
<1>5. /\ QueueFits' /\ queue' \in Seq(Call \cup {Cleaner})
      /\ \A u : Holds(u)' = Holds(u)
  BY <1>1, <1>2, KeepQueue DEF Waits, Waiter
<1>6. TypeOK'
  BY <1>2 DEF TypeOK, CallState
<1>7. LockFits'
  BY <1>2, <1>5, NextQueue DEF LockFits
<1>8. CallsFit'
  BY <1>2, <1>3, <1>5 DEF TypeOK, CallsFit, Launched, Idle, LockFits, PooledIsOpen, Closing, CleanerFits
<1>9. CleanerFits' /\ RoutesFit' /\ ReturnedIsRouted'
  BY DEF RoutesFit, ReturnedIsRouted, CallsFit, Launched, CleanerFits
<1>10. PooledIsOpen'
  BY <1>2 DEF PooledIsOpen, Closing, CallsFit
<1>11. OpenIsOwned'
  BY <1>3 DEF OpenIsOwned, Starting, Closing
<1>12. Starting = {} /\ Starting' = {call[c].sess}
  BY <1>2, <1>3 DEF Starting
<1>13. IsFiniteSet(pooled) /\ Cardinality(pooled) \in Nat
  BY Finite DEF TypeOK
<1>14. Cardinality(pooled \cup {call[c].sess}) \in 0..Cardinality(pooled) + 1
  BY <1>13, FS_AddElement
<1>15. CapacityBound'
  BY <1>12, <1>13, <1>14 DEF CapacityBound, HasRoom
<1> QED
  BY <1>6, <1>7, <1>8, <1>9, <1>10, <1>11, <1>15

(* What is left of a failed start is lost.                                 *)
LEMMA StartFailsIInv ==
    ASSUME IInv, NEW c \in Call, StartFails(c)
    PROVE  IInv'
<1> USE DEF IInv, StartFails, poolVars, cleanerVars, routeVars, Turn, Answered
<1>1. QueueFits /\ c \in Waiter
  BY LockQueue DEF Waiter
<1>2. /\ call' \in [Call -> CallState]
      /\ \A d \in Call : d # c => call'[d] = call[d]
      /\ call'[c].op = call[c].op /\ call'[c].sess = call[c].sess
      /\ call'[c].work = "error"
  BY WorkingCalls
<1>3. /\ phase = "up" /\ cleaner # "closing"
      /\ \A d \in Call : call[d].work \in {"starting", "closing"} => d = c
  BY OneHolder
<1>4. call[c].sess \in Session /\ browser[call[c].sess] = "starting"
  BY DEF CallsFit
<1>5. PICK b \in {"closed", "open"} :
        browser' = [browser EXCEPT ![call[c].sess] = b]
  OBVIOUS
<1>6. \A d \in Call \ {c} : call[d].op # "none" => call[d].sess # call[c].sess
  BY DEF TypeOK, CallsFit, Launched
<1>7. QueueFits' /\ queue' \in Seq(Call \cup {Cleaner})
  BY <1>1, <1>2, LeaveQueue DEF Waits, Waiter
<1>8. TypeOK'
  BY <1>2, <1>4, <1>5, <1>7 DEF TypeOK, CallState
<1>9. LockFits'
  BY <1>2, <1>7, NextQueue DEF LockFits, Holds
<1>10. CallsFit'
  BY <1>6, <1>2, <1>4, <1>5 DEF CallsFit, Launched
<1>11. CleanerFits' /\ RoutesFit' /\ ReturnedIsRouted'
  BY DEF RoutesFit, ReturnedIsRouted, Launched, CleanerFits
<1>12. PooledIsOpen'
  BY <1>2, <1>5 DEF PooledIsOpen, Closing, CallsFit
<1>13. OpenIsOwned'
  BY <1>3 DEF OpenIsOwned, Starting, Closing
<1>14. CapacityBound'
  BY <1>2, <1>3, BoundKept DEF TypeOK, Starting, CallsFit
<1> QED
  BY <1>8, <1>9, <1>10, <1>11, <1>12, <1>13, <1>14

(* The browser is open, and nobody closes it: the lock is held.            *)
LEMMA StartedIInv ==
    ASSUME IInv, NEW c \in Call, Started(c)
    PROVE  IInv'
<1> USE DEF IInv, Started, poolVars, cleanerVars, routeVars, Turn, Answered
<1>1. QueueFits /\ c \in Waiter
  BY LockQueue DEF Waiter
<1>2. /\ call' \in [Call -> CallState]
      /\ \A d \in Call : d # c => call'[d] = call[d]
      /\ call'[c].op = call[c].op /\ call'[c].sess = call[c].sess
      /\ call'[c].work = "ok"
  BY WorkingCalls
<1>3. /\ phase = "up" /\ cleaner # "closing"
      /\ \A d \in Call : call[d].work \in {"starting", "closing"} => d = c
  BY OneHolder
<1>4. call[c].sess \in Session /\ browser[call[c].sess] = "starting"
  BY DEF CallsFit
<1>5. \A d \in Call \ {c} : call[d].op # "none" => call[d].sess # call[c].sess
  BY DEF TypeOK, CallsFit, Launched
<1>6. QueueFits' /\ queue' \in Seq(Call \cup {Cleaner})
  BY <1>1, <1>2, LeaveQueue DEF Waits, Waiter
<1>7. TypeOK'
  BY <1>2, <1>4, <1>6 DEF TypeOK, CallState
<1>8. LockFits'
  BY <1>2, <1>6, NextQueue DEF LockFits, Holds
<1>9. Closing' = {}
  BY <1>2, <1>3 DEF Closing
<1>10. CallsFit'
  BY <1>5, <1>2, <1>4, <1>6 DEF TypeOK, CallsFit, Launched, Idle, Holds, PooledIsOpen, Closing, CleanerFits
<1>11. CleanerFits' /\ RoutesFit' /\ ReturnedIsRouted'
  BY DEF RoutesFit, ReturnedIsRouted, Launched, CleanerFits
<1>12. PooledIsOpen'
  BY <1>9, <1>2, <1>3, <1>4 DEF TypeOK, PooledIsOpen
<1>13. OpenIsOwned'
  BY <1>3 DEF OpenIsOwned, Starting, Closing
<1>14. CapacityBound'
  BY <1>2, <1>3, BoundKept DEF TypeOK, Starting, CallsFit
<1> QED
  BY <1>7, <1>8, <1>10, <1>11, <1>12, <1>13, <1>14

(* DELETE /browsers/{id}: a session with a route has been launched.        *)
LEMMA AskCloseIInv ==
    ASSUME IInv, NEW c \in Call, NEW s \in Session, AskClose(c, s)
    PROVE  IInv'
<1> USE DEF IInv, AskClose, poolVars, cleanerVars, routeVars, Turn, Answered
<1>1. QueueFits /\ c \in Waiter
  BY LockQueue DEF Waiter
<1>2. /\ QueueFits' /\ queue' \in Seq(Call \cup {Cleaner})
      /\ \A u : Holds(u) => Holds(u)'
  BY <1>1, JoinQueue DEF Waits, TypeOK, Idle
<1>3. TypeOK'
  BY <1>2 DEF TypeOK
<1>4. LockFits'
  BY <1>2, NextQueue DEF LockFits
<1>5. CallsFit'
  BY DEF CallsFit, Launched, RoutesFit
<1>6. CleanerFits' /\ RoutesFit' /\ ReturnedIsRouted'
  BY DEF RoutesFit, ReturnedIsRouted, Launched, CleanerFits
<1>7. PooledIsOpen'
  BY DEF PooledIsOpen, Closing
<1>8. OpenIsOwned'
  BY DEF OpenIsOwned, Starting, Closing, Idle
<1>9. CapacityBound'
  BY BoundKept DEF TypeOK, Starting, CallsFit, Idle
<1> QED
  BY <1>3, <1>4, <1>5, <1>6, <1>7, <1>8, <1>9

(* Popped: out of the pool and into the hands of c.                        *)
LEMMA CloseIInv ==
    ASSUME IInv, NEW c \in Call, Close(c)
    PROVE  IInv'
<1> USE DEF IInv, Close, poolVars, cleanerVars, routeVars, Turn, Answered
<1>1. QueueFits /\ c \in Waiter
  BY LockQueue DEF Waiter
<1>2. /\ call' \in [Call -> CallState]
      /\ \A d \in Call : d # c => call'[d] = call[d]
      /\ call'[c].op = call[c].op /\ call'[c].sess = call[c].sess
      /\ call'[c].work = "closing"
  BY WorkingCalls
<1>3. /\ phase = "up" /\ cleaner # "closing"
      /\ \A d \in Call : call[d].work \in {"starting", "closing"} => d = c
  BY OneHolder
<1>4. call[c].sess \in Session /\ Launched(call[c].sess)
  BY DEF CallsFit
<1>5. /\ QueueFits' /\ queue' \in Seq(Call \cup {Cleaner})
      /\ \A u : Holds(u)' = Holds(u)
  BY <1>1, <1>2, KeepQueue DEF Waits, Waiter
<1>6. TypeOK'
  BY <1>2 DEF TypeOK, CallState
<1>7. LockFits'
  BY <1>2, <1>5, NextQueue DEF LockFits
<1>8. CallsFit'
  BY <1>2, <1>5 DEF CallsFit, Launched
<1>9. CleanerFits' /\ RoutesFit' /\ ReturnedIsRouted'
  BY DEF RoutesFit, ReturnedIsRouted, Launched, CleanerFits
<1>10. PooledIsOpen'
  BY <1>2 DEF PooledIsOpen, Closing
<1>11. OpenIsOwned'
  BY <1>2, <1>3 DEF OpenIsOwned, Starting, Closing
<1>12. CapacityBound'
  BY <1>2, BoundKept DEF TypeOK, Starting, CallsFit, Idle
<1> QED
  BY <1>6, <1>7, <1>8, <1>9, <1>10, <1>11, <1>12

(* Not in the pool any more.                                               *)
LEMMA CloseMissesIInv ==
    ASSUME IInv, NEW c \in Call, CloseMisses(c)
    PROVE  IInv'
<1> USE DEF IInv, CloseMisses, poolVars, cleanerVars, routeVars, Turn, Answered
<1>1. QueueFits /\ c \in Waiter
  BY LockQueue DEF Waiter
<1>2. /\ call' \in [Call -> CallState]
      /\ \A d \in Call : d # c => call'[d] = call[d]
      /\ call'[c].op = call[c].op /\ call'[c].sess = call[c].sess
      /\ call'[c].work = "error"
  BY WorkingCalls
<1>3. /\ phase = "up" /\ cleaner # "closing"
      /\ \A d \in Call : call[d].work \in {"starting", "closing"} => d = c
  BY OneHolder
<1>4. call[c].sess \in Session /\ Launched(call[c].sess)
  BY DEF CallsFit
<1>5. QueueFits' /\ queue' \in Seq(Call \cup {Cleaner})
  BY <1>1, <1>2, LeaveQueue DEF Waits, Waiter
<1>6. TypeOK'
  BY <1>2, <1>5 DEF TypeOK, CallState
<1>7. LockFits'
  BY <1>2, <1>5, NextQueue DEF LockFits, Holds
<1>8. CallsFit'
  BY <1>2, <1>3, <1>4, <1>5 DEF CallsFit, Launched
<1>9. CleanerFits' /\ RoutesFit' /\ ReturnedIsRouted'
  BY DEF RoutesFit, ReturnedIsRouted, Launched, CleanerFits
<1>10. PooledIsOpen'
  BY <1>2 DEF PooledIsOpen, Closing
<1>11. OpenIsOwned'
  BY <1>3 DEF OpenIsOwned, Starting, Closing
<1>12. CapacityBound'
  BY <1>2, <1>4, BoundKept DEF TypeOK, Starting, CallsFit, Idle
<1> QED
  BY <1>6, <1>7, <1>8, <1>9, <1>10, <1>11, <1>12

(* The browser that c popped is closed.                                    *)
LEMMA ClosedIInv ==
    ASSUME IInv, NEW c \in Call, Closed(c)
    PROVE  IInv'
<1> USE DEF IInv, Closed, poolVars, cleanerVars, routeVars, Turn, Answered
<1>1. QueueFits /\ c \in Waiter
  BY LockQueue DEF Waiter
<1>2. /\ call' \in [Call -> CallState]
      /\ \A d \in Call : d # c => call'[d] = call[d]
      /\ call'[c].op = call[c].op /\ call'[c].sess = call[c].sess
      /\ call'[c].work = "ok"
  BY WorkingCalls
<1>3. /\ phase = "up" /\ cleaner # "closing"
      /\ \A d \in Call : call[d].work \in {"starting", "closing"} => d = c
  BY OneHolder
<1>4. call[c].sess \in Session /\ Launched(call[c].sess)
  BY DEF CallsFit
<1>5. PICK b \in {"open", "closed"} :
         /\ browser' = [browser EXCEPT ![call[c].sess] = b]
         /\ b = "open" => call[c].sess \in lost'
         /\ lost \subseteq lost' /\ lost' \subseteq Session
  BY <1>4, ShutBrowser
<1>6. QueueFits' /\ queue' \in Seq(Call \cup {Cleaner})
  BY <1>1, <1>2, LeaveQueue DEF Waits, Waiter
<1>7. TypeOK'
  BY <1>2, <1>6, <1>5 DEF TypeOK, CallState
<1>8. LockFits'
  BY <1>2, <1>6, NextQueue DEF LockFits, Holds
<1>9. CallsFit'
  BY <1>2, <1>4, <1>6, <1>5 DEF CallsFit, Launched
<1>10. CleanerFits' /\ RoutesFit' /\ ReturnedIsRouted'
  BY <1>5 DEF RoutesFit, ReturnedIsRouted, Launched, CleanerFits
<1>11. PooledIsOpen'
  BY <1>2, <1>3, <1>4, <1>5 DEF PooledIsOpen, Closing
<1>12. OpenIsOwned'
  BY <1>3, <1>5 DEF TypeOK, OpenIsOwned, Starting, Closing
<1>13. CapacityBound'
  BY <1>2, BoundKept DEF TypeOK, Starting, CallsFit, Idle
<1> QED
  BY <1>7, <1>8, <1>9, <1>10, <1>11, <1>12, <1>13

(* The route of a session that has been started.                           *)
LEMMA SetRouteIInv ==
    ASSUME IInv, NEW c \in Call, SetRoute(c)
    PROVE  IInv'
<1> USE DEF IInv, SetRoute, poolVars, cleanerVars, routeVars, Turn, Answered
<1>1. QueueFits /\ c \in Waiter
  BY LockQueue DEF Waiter
<1>2. /\ QueueFits' /\ queue' \in Seq(Call \cup {Cleaner})
      /\ \A u : Holds(u)' = Holds(u)
  BY <1>1, KeepQueue DEF Waits
<1>3. TypeOK'
  BY DEF TypeOK, Idle, CallsFit
<1>4. LockFits'
  BY <1>2, NextQueue DEF LockFits, Idle
<1>5. CallsFit'
  BY DEF CallsFit, Launched, Idle
<1>6. CleanerFits' /\ RoutesFit' /\ ReturnedIsRouted'
  BY DEF RoutesFit, ReturnedIsRouted, CallsFit, Launched, CleanerFits
<1>7. PooledIsOpen'
  BY DEF PooledIsOpen, Closing, Idle
<1>8. OpenIsOwned'
  BY DEF OpenIsOwned, Starting, Closing
<1>9. CapacityBound'
  BY BoundKept DEF TypeOK, Starting, CallsFit, Idle
<1> QED
  BY <1>3, <1>4, <1>5, <1>6, <1>7, <1>8, <1>9

(* An error is passed on.                                                  *)
LEMMA RefusedIInv ==
    ASSUME IInv, NEW c \in Call, Refused(c)
    PROVE  IInv'
<1> USE DEF IInv, Refused, poolVars, cleanerVars, routeVars, Turn, Answered
<1>1. QueueFits /\ c \in Waiter
  BY LockQueue DEF Waiter
<1>2. /\ QueueFits' /\ queue' \in Seq(Call \cup {Cleaner})
      /\ \A u : Holds(u)' = Holds(u)
  BY <1>1, KeepQueue DEF Waits
<1>3. TypeOK'
  BY DEF TypeOK, Idle
<1>4. LockFits'
  BY <1>2, NextQueue DEF LockFits, Idle
<1>5. CallsFit'
  BY DEF CallsFit, Launched, Idle
<1>6. CleanerFits' /\ RoutesFit' /\ ReturnedIsRouted'
  BY DEF RoutesFit, ReturnedIsRouted, Launched, CleanerFits
<1>7. PooledIsOpen'
  BY DEF PooledIsOpen, Closing, Idle
<1>8. OpenIsOwned'
  BY DEF OpenIsOwned, Starting, Closing
<1>9. CapacityBound'
  BY BoundKept DEF TypeOK, Starting, CallsFit, Idle
<1> QED
  BY <1>3, <1>4, <1>5, <1>6, <1>7, <1>8, <1>9

(* The session of the route is out of the pool for good.                   *)
LEMMA DropRouteIInv ==
    ASSUME IInv, NEW c \in Call, DropRoute(c)
    PROVE  IInv'
<1> USE DEF IInv, DropRoute, poolVars, cleanerVars, routeVars, Turn, Answered
<1>1. QueueFits /\ c \in Waiter
  BY LockQueue DEF Waiter
<1>2. /\ QueueFits' /\ queue' \in Seq(Call \cup {Cleaner})
      /\ \A u : Holds(u)' = Holds(u)
  BY <1>1, KeepQueue DEF Waits
<1>3. TypeOK'
  BY DEF TypeOK, Idle
<1>4. LockFits'
  BY <1>2, NextQueue DEF LockFits, Idle
<1>5. CallsFit'
  BY DEF CallsFit, Launched, Idle
<1>6. CleanerFits' /\ RoutesFit' /\ ReturnedIsRouted'
  BY DEF RoutesFit, ReturnedIsRouted, CallsFit, Launched, CleanerFits
<1>7. PooledIsOpen'
  BY DEF PooledIsOpen, Closing, Idle
<1>8. OpenIsOwned'
  BY DEF OpenIsOwned, Starting, Closing
<1>9. CapacityBound'
  BY BoundKept DEF TypeOK, Starting, CallsFit, Idle
<1> QED
  BY <1>3, <1>4, <1>5, <1>6, <1>7, <1>8, <1>9

(* The worker goes on alone.                                               *)
LEMMA GiveUpIInv ==
    ASSUME IInv, NEW c \in Call, GiveUp(c)
    PROVE  IInv'
<1> USE DEF IInv, GiveUp, poolVars, cleanerVars, routeVars, Turn, Answered
<1>1. QueueFits /\ c \in Waiter
  BY LockQueue DEF Waiter
<1>2. /\ QueueFits' /\ queue' \in Seq(Call \cup {Cleaner})
      /\ \A u : Holds(u)' = Holds(u)
  BY <1>1, KeepQueue DEF Waits
<1>3. TypeOK'
  BY DEF TypeOK, Idle, CallsFit
<1>4. LockFits'
  BY <1>2, NextQueue DEF LockFits
<1>5. CallsFit'
  BY DEF CallsFit, Launched, Idle
<1>6. CleanerFits' /\ RoutesFit' /\ ReturnedIsRouted'
  BY DEF RoutesFit, ReturnedIsRouted, Launched, CleanerFits
<1>7. PooledIsOpen'
  BY DEF PooledIsOpen, Closing
<1>8. OpenIsOwned'
  BY DEF OpenIsOwned, Starting, Closing
<1>9. CapacityBound'
  BY BoundKept DEF TypeOK, Starting, CallsFit, Idle
<1> QED
  BY <1>3, <1>4, <1>5, <1>6, <1>7, <1>8, <1>9

(* The worker answers nobody.                                              *)
LEMMA UnheardIInv ==
    ASSUME IInv, NEW c \in Call, Unheard(c)
    PROVE  IInv'
<1> USE DEF IInv, Unheard, poolVars, cleanerVars, routeVars, Turn, Answered
<1>1. QueueFits /\ c \in Waiter
  BY LockQueue DEF Waiter
<1>2. /\ QueueFits' /\ queue' \in Seq(Call \cup {Cleaner})
      /\ \A u : Holds(u)' = Holds(u)
  BY <1>1, KeepQueue DEF Waits
<1>3. TypeOK'
  BY DEF TypeOK, Idle
<1>4. LockFits'
  BY <1>2, NextQueue DEF LockFits, Idle
<1>5. CallsFit'
  BY DEF CallsFit, Launched, Idle
<1>6. CleanerFits' /\ RoutesFit' /\ ReturnedIsRouted'
  BY DEF RoutesFit, ReturnedIsRouted, Launched, CleanerFits
<1>7. PooledIsOpen'
  BY DEF PooledIsOpen, Closing, Idle
<1>8. OpenIsOwned'
  BY DEF OpenIsOwned, Starting, Closing
<1>9. CapacityBound'
  BY BoundKept DEF TypeOK, Starting, CallsFit, Idle
<1> QED
  BY <1>3, <1>4, <1>5, <1>6, <1>7, <1>8, <1>9

(* The client can no longer count on the route.                            *)
LEMMA RouteExpiresIInv ==
    ASSUME IInv, NEW s \in Session, RouteExpires(s)
    PROVE  IInv'
<1> USE DEF IInv, RouteExpires, poolVars, cleanerVars, routeVars, Turn, Answered
<1>1. QueueFits /\ Cleaner \in Waiter
  BY LockQueue DEF Waiter
<1>2. /\ QueueFits' /\ queue' \in Seq(Call \cup {Cleaner})
      /\ \A u : Holds(u)' = Holds(u)
  BY <1>1, KeepQueue DEF Waits
<1>3. TypeOK'
  BY DEF TypeOK
<1>4. LockFits'
  BY <1>2, NextQueue DEF LockFits
<1>5. CallsFit'
  BY DEF CallsFit, Launched
<1>6. CleanerFits' /\ RoutesFit' /\ ReturnedIsRouted'
  BY DEF RoutesFit, ReturnedIsRouted, Launched, CleanerFits
<1>7. PooledIsOpen'
  BY DEF PooledIsOpen, Closing
<1>8. OpenIsOwned'
  BY DEF OpenIsOwned, Starting, Closing
<1>9. CapacityBound'
  BY BoundKept DEF TypeOK, Starting, CallsFit, Idle
<1> QED
  BY <1>3, <1>4, <1>5, <1>6, <1>7, <1>8, <1>9

(* Time passes.                                                            *)
LEMMA BecomeDueIInv ==
    ASSUME IInv, NEW s \in Session, BecomeDue(s)
    PROVE  IInv'
<1> USE DEF IInv, BecomeDue, poolVars, cleanerVars, routeVars, Turn, Answered
<1>1. QueueFits /\ Cleaner \in Waiter
  BY LockQueue DEF Waiter
<1>2. /\ QueueFits' /\ queue' \in Seq(Call \cup {Cleaner})
      /\ \A u : Holds(u)' = Holds(u)
  BY <1>1, KeepQueue DEF Waits
<1>3. TypeOK'
  BY DEF TypeOK
<1>4. LockFits'
  BY <1>2, NextQueue DEF LockFits
<1>5. CallsFit'
  BY DEF CallsFit, Launched
<1>6. CleanerFits' /\ RoutesFit' /\ ReturnedIsRouted'
  BY DEF RoutesFit, ReturnedIsRouted, Launched, CleanerFits
<1>7. PooledIsOpen'
  BY DEF PooledIsOpen, Closing
<1>8. OpenIsOwned'
  BY DEF OpenIsOwned, Starting, Closing
<1>9. CapacityBound'
  BY BoundKept DEF TypeOK, Starting, CallsFit, Idle
<1> QED
  BY <1>3, <1>4, <1>5, <1>6, <1>7, <1>8, <1>9

(* A command arrives.                                                      *)
LEMMA TouchIInv ==
    ASSUME IInv, NEW s \in Session, Touch(s)
    PROVE  IInv'
<1> USE DEF IInv, Touch, poolVars, cleanerVars, routeVars, Turn, Answered
<1>1. QueueFits /\ Cleaner \in Waiter
  BY LockQueue DEF Waiter
<1>2. /\ QueueFits' /\ queue' \in Seq(Call \cup {Cleaner})
      /\ \A u : Holds(u)' = Holds(u)
  BY <1>1, KeepQueue DEF Waits
<1>3. TypeOK'
  BY DEF TypeOK
<1>4. LockFits'
  BY <1>2, NextQueue DEF LockFits
<1>5. CallsFit'
  BY DEF CallsFit, Launched
<1>6. CleanerFits' /\ RoutesFit' /\ ReturnedIsRouted'
  BY DEF RoutesFit, ReturnedIsRouted, Launched, CleanerFits
<1>7. PooledIsOpen'
  BY DEF PooledIsOpen, Closing
<1>8. OpenIsOwned'
  BY DEF OpenIsOwned, Starting, Closing
<1>9. CapacityBound'
  BY BoundKept DEF TypeOK, Starting, CallsFit, Idle
<1> QED
  BY <1>3, <1>4, <1>5, <1>6, <1>7, <1>8, <1>9

(* The clean-up begins a pass.                                             *)
LEMMA CleanScanIInv ==
    ASSUME IInv, CleanScan
    PROVE  IInv'
<1> USE DEF IInv, CleanScan, poolVars, cleanerVars, routeVars, Turn, Answered
<1>1. QueueFits /\ Cleaner \in Waiter
  BY LockQueue DEF Waiter
<1>2. /\ QueueFits' /\ queue' \in Seq(Call \cup {Cleaner})
  BY <1>1, CleanerGoesOn DEF Waits, QueueFits
<1>3. TypeOK'
  BY <1>2 DEF TypeOK, CleanOn
<1>4. LockFits'
  BY <1>2, NextQueue DEF LockFits, Holds, CleanOn
<1>5. CallsFit'
  BY DEF CallsFit, Launched
<1>6. CleanerFits' /\ RoutesFit' /\ ReturnedIsRouted'
  BY DEF TypeOK, RoutesFit, ReturnedIsRouted, Launched, CleanerFits, CleanOn, LockFits, PooledIsOpen
<1>7. PooledIsOpen'
  BY DEF PooledIsOpen, Closing, CleanOn
<1>8. OpenIsOwned'
  BY DEF OpenIsOwned, Starting, Closing
<1>9. CapacityBound'
  BY BoundKept DEF TypeOK, Starting, CallsFit, Idle
<1> QED
  BY <1>3, <1>4, <1>5, <1>6, <1>7, <1>8, <1>9

(* Popped: into the hands of the clean-up.                                 *)
LEMMA CleanCloseIInv ==
    ASSUME IInv, CleanClose
    PROVE  IInv'
<1> USE DEF IInv, CleanClose, poolVars, cleanerVars, routeVars, Turn, Answered
<1>1. QueueFits /\ Cleaner \in Waiter
  BY LockQueue DEF Waiter
<1>2. /\ phase = "up"
      /\ \A d \in Call : call[d].work \notin {"starting", "closing"}
  BY OneHolder
<1>3. /\ QueueFits' /\ queue' \in Seq(Call \cup {Cleaner})
      /\ \A u : Holds(u)' = Holds(u)
  BY <1>1, KeepQueue DEF Waits
<1>4. TypeOK'
  BY DEF TypeOK
<1>5. LockFits'
  BY <1>3, NextQueue DEF LockFits
<1>6. CallsFit'
  BY DEF CallsFit, Launched
<1>7. CleanerFits' /\ RoutesFit' /\ ReturnedIsRouted'
  BY DEF RoutesFit, ReturnedIsRouted, Launched, CleanerFits
<1>8. PooledIsOpen'
  BY DEF PooledIsOpen, Closing
<1>9. OpenIsOwned'
  BY DEF OpenIsOwned, Starting, Closing
<1>10. CapacityBound'
  BY BoundKept DEF TypeOK, Starting, CallsFit, Idle
<1> QED
  BY <1>4, <1>5, <1>6, <1>7, <1>8, <1>9, <1>10

(* Closed by another while the clean-up waited.                            *)
LEMMA CleanMissesIInv ==
    ASSUME IInv, CleanMisses
    PROVE  IInv'
<1> USE DEF IInv, CleanMisses, poolVars, cleanerVars, routeVars, Turn, Answered
<1>1. QueueFits /\ Cleaner \in Waiter
  BY LockQueue DEF Waiter
<1>2. /\ phase = "up"
      /\ \A d \in Call : call[d].work \notin {"starting", "closing"}
  BY OneHolder
<1>3. /\ Line(Tail(queue)) /\ Cleaner \notin Members(Tail(queue))
      /\ Members(Tail(queue)) \subseteq Members(queue)
  BY <1>1, TailLine DEF QueueFits, Holds
<1>4. /\ QueueFits' /\ queue' \in Seq(Call \cup {Cleaner})
  BY <1>1, <1>3, CleanerGoesOn DEF QueueFits
<1>5. TypeOK'
  BY <1>4 DEF TypeOK, CleanOn
<1>6. LockFits'
  BY <1>4, NextQueue DEF LockFits, Holds, CleanOn
<1>7. CallsFit'
  BY DEF CallsFit, Launched
<1>8. CleanerFits' /\ RoutesFit' /\ ReturnedIsRouted'
  BY DEF TypeOK, RoutesFit, ReturnedIsRouted, Launched, CleanerFits, CleanOn, LockFits, PooledIsOpen
<1>9. PooledIsOpen'
  BY DEF PooledIsOpen, Closing, CleanOn
<1>10. OpenIsOwned'
  BY DEF OpenIsOwned, Starting, Closing
<1>11. CapacityBound'
  BY BoundKept DEF TypeOK, Starting, CallsFit, Idle
<1> QED
  BY <1>5, <1>6, <1>7, <1>8, <1>9, <1>10, <1>11

(* The browser that the clean-up popped is closed.                         *)
LEMMA CleanClosedIInv ==
    ASSUME IInv, CleanClosed
    PROVE  IInv'
<1> USE DEF IInv, CleanClosed, poolVars, cleanerVars, routeVars, Turn, Answered
<1>1. QueueFits /\ Cleaner \in Waiter
  BY LockQueue DEF Waiter
<1>2. /\ phase = "up" /\ Holds(Cleaner)
      /\ \A d \in Call : call[d].work \notin {"starting", "closing"}
  BY OneHolder DEF LockFits
<1>3. PICK b \in {"open", "closed"} :
         /\ browser' = [browser EXCEPT ![target] = b]
         /\ b = "open" => target \in lost'
         /\ lost \subseteq lost' /\ lost' \subseteq Session
  BY ShutBrowser DEF CleanerFits
<1>4. /\ Line(Tail(queue)) /\ Cleaner \notin Members(Tail(queue))
      /\ Members(Tail(queue)) \subseteq Members(queue)
  BY <1>1, <1>2, TailLine DEF QueueFits, Holds
<1>5. /\ QueueFits' /\ queue' \in Seq(Call \cup {Cleaner})
  BY <1>1, <1>4, CleanerGoesOn DEF QueueFits
<1>6. TypeOK'
  BY <1>5, <1>3 DEF TypeOK, CleanOn
<1>7. LockFits'
  BY <1>5, NextQueue DEF LockFits, Holds, CleanOn
<1>8. CallsFit'
  BY <1>3 DEF CallsFit, Launched, CleanerFits
<1>9. CleanerFits' /\ RoutesFit' /\ ReturnedIsRouted'
  BY <1>3 DEF TypeOK, RoutesFit, ReturnedIsRouted, Launched, CleanerFits, CleanOn, LockFits, PooledIsOpen
<1>10. PooledIsOpen'
  BY <1>3 DEF PooledIsOpen, Closing, CleanOn
<1>11. OpenIsOwned'
  BY <1>3 DEF TypeOK, OpenIsOwned, Starting, Closing
<1>12. CapacityBound'
  BY BoundKept DEF TypeOK, Starting, CallsFit, Idle
<1> QED
  BY <1>6, <1>7, <1>8, <1>9, <1>10, <1>11, <1>12

(* The clean-up is cancelled; what it was closing is lost.                 *)
LEMMA StopIInv ==
    ASSUME IInv, Stop
    PROVE  IInv'
<1> USE DEF IInv, Stop, poolVars, cleanerVars, routeVars, Turn, Answered
<1>1. QueueFits /\ Cleaner \in Waiter
  BY LockQueue DEF Waiter
<1>2. /\ QueueFits' /\ queue' \in Seq(Call \cup {Cleaner})
  BY DEF QueueFits, Line, Members
<1>3. TypeOK'
  BY DEF TypeOK, CleanerFits
<1>4. LockFits'
  BY DEF LockFits
<1>5. CallsFit'
  BY DEF CallsFit, Launched
<1>6. CleanerFits' /\ RoutesFit' /\ ReturnedIsRouted'
  BY DEF RoutesFit, ReturnedIsRouted, Launched, CleanerFits
<1>7. PooledIsOpen'
  BY DEF PooledIsOpen
<1>8. OpenIsOwned'
  BY DEF OpenIsOwned, Starting, Closing
<1>9. CapacityBound'
  BY BoundKept DEF TypeOK, Starting
<1> QED
  BY <1>3, <1>4, <1>5, <1>6, <1>7, <1>8, <1>9

(* The shutdown closes one session after another.                          *)
LEMMA StopClosesIInv ==
    ASSUME IInv, NEW s \in Session, StopCloses(s)
    PROVE  IInv'
<1> USE DEF IInv, StopCloses, poolVars, cleanerVars, routeVars, Turn, Answered
<1>1. QueueFits /\ Cleaner \in Waiter
  BY LockQueue DEF Waiter
<1>2. /\ QueueFits' /\ queue' \in Seq(Call \cup {Cleaner})
      /\ \A u : Holds(u)' = Holds(u)
  BY <1>1, KeepQueue DEF Waits
<1>3. PICK b \in {"open", "closed"} :
         /\ browser' = [browser EXCEPT ![s] = b]
         /\ b = "open" => s \in lost'
         /\ lost \subseteq lost' /\ lost' \subseteq Session
  BY ShutBrowser DEF Launched
<1>4. TypeOK'
  BY <1>3 DEF TypeOK
<1>5. LockFits'
  BY DEF LockFits, Holds
<1>6. CallsFit'
  BY <1>3 DEF CallsFit, Launched
<1>7. CleanerFits' /\ RoutesFit' /\ ReturnedIsRouted'
  BY <1>3 DEF RoutesFit, ReturnedIsRouted, Launched, CleanerFits
<1>8. PooledIsOpen'
  BY DEF PooledIsOpen
<1>9. OpenIsOwned'
  BY <1>3 DEF OpenIsOwned, Starting, Closing
<1>10. CapacityBound'
  BY BoundKept DEF TypeOK, Starting, CallsFit, Idle
<1> QED
  BY <1>4, <1>5, <1>6, <1>7, <1>8, <1>9, <1>10

(* Every browser ends.                                                     *)
LEMMA StopDoneIInv ==
    ASSUME IInv, StopDone
    PROVE  IInv'
<1> USE DEF IInv, StopDone, poolVars, cleanerVars, routeVars, Turn, Answered
<1>1. QueueFits /\ Cleaner \in Waiter
  BY LockQueue DEF Waiter
<1>2. /\ QueueFits' /\ queue' \in Seq(Call \cup {Cleaner})
  BY DEF QueueFits, Line, Members
<1>3. TypeOK'
  BY DEF TypeOK
<1>4. LockFits'
  BY DEF LockFits, Holds
<1>5. CallsFit'
  BY DEF CallsFit, Launched
<1>6. CleanerFits' /\ RoutesFit' /\ ReturnedIsRouted'
  BY DEF TypeOK, RoutesFit, ReturnedIsRouted, Launched, CleanerFits
<1>7. PooledIsOpen'
  BY DEF PooledIsOpen
<1>8. OpenIsOwned'
  BY DEF OpenIsOwned
<1>9. CapacityBound'
  BY BoundKept DEF TypeOK, Starting, CallsFit, Idle
<1> QED
  BY <1>3, <1>4, <1>5, <1>6, <1>7, <1>8, <1>9

LEMMA InitIInv == Init => IInv
<1> SUFFICES ASSUME Init PROVE IInv
  OBVIOUS
<1> USE DEF Init
<1>1. TypeOK
  BY DEF TypeOK, Idle
<1>2. LockFits
  BY DEF LockFits, Idle
<1>3. CallsFit /\ CleanerFits /\ RoutesFit
  BY DEF CallsFit, CleanerFits, RoutesFit, Idle
<1>4. PooledIsOpen /\ OpenIsOwned /\ ReturnedIsRouted
  BY DEF PooledIsOpen, OpenIsOwned, ReturnedIsRouted
<1>5. pooled \cup Starting = {}
  BY DEF Starting, Idle
<1>6. CapacityBound
  BY <1>5, FS_EmptySet DEF CapacityBound
<1> QED
  BY <1>1, <1>2, <1>3, <1>4, <1>6 DEF IInv

LEMMA StepIInv == IInv /\ [Next]_vars => IInv'
<1> SUFFICES ASSUME IInv, [Next]_vars PROVE IInv'
  OBVIOUS
<1>1. CASE UNCHANGED vars
  BY <1>1 DEF vars, poolVars, cleanerVars, routeVars, IInv, TypeOK, LockFits, Waits, Holds,
     CallsFit, Launched, CleanerFits, RoutesFit, CapacityBound, Starting,
     PooledIsOpen, Closing, OpenIsOwned, ReturnedIsRouted
<1>2. ASSUME NEW c \in Call, NEW s \in Session, AskCreate(c, s) \/ AskClose(c, s)
      PROVE  IInv'
  BY <1>2, AskCreateIInv, AskCloseIInv
<1>3. ASSUME NEW c \in Call, CreateStep(c) PROVE IInv'
  BY <1>3, RefuseIInv, AdmitIInv, StartFailsIInv, StartedIInv DEF CreateStep
<1>4. ASSUME NEW c \in Call, CloseStep(c) PROVE IInv'
  BY <1>4, CloseIInv, CloseMissesIInv, ClosedIInv DEF CloseStep
<1>5. ASSUME NEW c \in Call, OrchestratorStep(c) \/ GiveUp(c) PROVE IInv'
  BY <1>5, SetRouteIInv, RefusedIInv, DropRouteIInv, UnheardIInv, GiveUpIInv
     DEF OrchestratorStep
<1>6. ASSUME NEW s \in Session,
             RouteExpires(s) \/ BecomeDue(s) \/ Touch(s) \/ StopCloses(s)
      PROVE  IInv'
  BY <1>6, RouteExpiresIInv, BecomeDueIInv, TouchIInv, StopClosesIInv
<1>7. CASE CleanStep
  BY <1>7, CleanScanIInv, CleanCloseIInv, CleanMissesIInv, CleanClosedIInv DEF CleanStep
<1>8. CASE Stop \/ StopDone
  BY <1>8, StopIInv, StopDoneIInv
<1> QED
  BY <1>1, <1>2, <1>3, <1>4, <1>5, <1>6, <1>7, <1>8 DEF Next

-----------------------------------------------------------------------------
(* The inductive invariant holds in every reachable state of the pool.     *)
THEOREM InvariantHolds == Spec => []IInv
BY InitIInv, StepIInv, PTL DEF Spec

(* Every variable of the pool of browser sessions keeps its type.          *)
THEOREM TypeCorrect == Spec => []TypeOK
<1>1. IInv => TypeOK
  BY DEF IInv
<1> QED
  BY <1>1, InvariantHolds, PTL

(* max_sessions is never exceeded, also not while a browser starts: the    *)
(* lock of create_session (pool.py) spans its test and its registration.   *)
THEOREM CapacityHolds == Spec => []CapacityBound
<1>1. IInv => CapacityBound
  BY DEF IInv
<1> QED
  BY <1>1, InvariantHolds, PTL

(* get_session, without the lock, never returns a session that is being    *)
(* closed or is closed, while the worker serves.                           *)
THEOREM PooledHolds == Spec => []PooledIsOpen
<1>1. IInv => PooledIsOpen
  BY DEF IInv
<1> QED
  BY <1>1, InvariantHolds, PTL

(* No browser is open that is neither pooled nor in somebody's hands, but  *)
(* those of a start that failed half way or of a close that failed or was  *)
(* cancelled.                                                              *)
THEOREM OpenIsOwnedHolds == Spec => []OpenIsOwned
<1>1. IInv => OpenIsOwned
  BY DEF IInv
<1> QED
  BY <1>1, InvariantHolds, PTL

(* No DELETE, in time or too late, drops the route of a living session     *)
(* that its client counts on (routes/browsers.py).                         *)
THEOREM ReturnedIsRoutedHolds == Spec => []ReturnedIsRouted
<1>1. IInv => ReturnedIsRouted
  BY DEF IInv
<1> QED
  BY <1>1, InvariantHolds, PTL
=============================================================================
