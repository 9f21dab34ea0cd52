-------------------------- MODULE LazySandboxProofs --------------------------
(***************************************************************************)
(* IInv of LazySandbox is an inductive invariant, for every set of calls   *)
(* and every number of sandboxes: a call uses one sandbox and none is left *)
(* behind, however calls overlap, but for the cases that lost notes.       *)
(***************************************************************************)
EXTENDS LazySandbox, FiniteSetTheorems, TLAPS

USE ConstantsAssumption

CallState ==
    [op : {"none", "execute", "write", "reset", "close", "run"},
     at : {"idle", "creating", "ready", "mkdir", "executing", "deleting", "done", "failed"},
     to : Box \cup {NoBox}, sent : SUBSET (Box \cup {NoBox})]

(* Call c becomes r, the others stay as they are. *)
Becomes(c, r) ==
    /\ r \in CallState
    /\ call' \in [Call -> CallState]
    /\ call'[c] = r
    /\ \A d \in Call : d # c => call'[d] = call[d]

LEMMA CallBecomes ==
    ASSUME call \in [Call -> CallState], NEW c \in Call, NEW r \in CallState,
           call' = [call EXCEPT ![c] = r]
    PROVE  Becomes(c, r)
BY DEF Becomes

Sending == {"ready", "mkdir", "executing"}

(* A call that is r fits to what is held and to the sandboxes there are.   *)
Fits(r) ==
    /\ r.at \in {"idle", "creating"} \/ r.op \in {"reset", "close"} => r.sent = {}
    /\ r.at \in Sending \cup {"deleting"} => r.to \in Box
    /\ r.at \in Sending => r.op \in {"execute", "write", "run"}
    /\ r.at = "creating" => r.op \in {"execute", "write", "run", "reset"}
    /\ r.at = "mkdir" => r.op = "write"
    /\ r.op \in {"reset", "run"} => backend
    /\ r.to # NoBox => box[r.to] # "none"
    /\ backend => r.sent \subseteq {r.to}
    /\ ~backend /\ ~lost' => r.sent \subseteq {held} \ {NoBox}
    /\ ~backend /\ r.at \in Sending => held # NoBox

(* A run() keeps its sandbox until it is destroyed. *)
Owns(r, b) == r.op = "run" /\ r.to = b /\ r.at \in {"ready", "executing", "deleting"}

(* Only a call moves, in a way that fits. *)
LEMMA MoveIInv ==
    ASSUME IInv, NEW c \in Call, NEW r, Becomes(c, r), Fits(r),
           UNCHANGED <<backend, held, box, gone>>,
           shut' \in BOOLEAN, lost' \in BOOLEAN, lost => lost',
           r.at = "creating" /\ r.op # "run" /\ ~lost' =>
               \/ c \in Creating
               \/ /\ Creating \subseteq {c}
                  /\ held = NoBox \/ (backend /\ box[held] # "live"),
           ~lost' => \A b \in Box : Owns(call[c], b) => Owns(r, b)
    PROVE  IInv'
<1>1. TypeOK'
  BY DEF IInv, TypeOK, Becomes, CallState
<1>2. CallsFit'
  BY DEF IInv, CallsFit, Becomes, Fits, Sending
<1>3. BoxesFit'
  BY DEF IInv, BoxesFit, Becomes, Fits
<1>4. CreationsApart'
  BY DEF IInv, CreationsApart, Creating, Becomes
<1>5. SentToTarget'
  BY DEF IInv, SentToTarget, Becomes, Fits, Sending
<1>6. LiveIsOwned'
  BY DEF IInv, LiveIsOwned, Becomes, Owns
<1> QED
  BY <1>1, <1>2, <1>3, <1>4, <1>5, <1>6 DEF IInv

(* What IInv says of one call. *)
LEMMA CallFits ==
    ASSUME IInv, NEW c \in Call, lost' = lost
    PROVE  call[c] \in CallState /\ Fits(call[c])
<1>1. call[c] \in CallState
  BY DEF IInv, TypeOK, CallState
<1>2. Fits(call[c])
  BY <1>1 DEF IInv, CallsFit, BoxesFit, SentToTarget, Fits, Sending, CallState
<1> QED
  BY <1>1, <1>2

LEMMA EnsureIInv ==
    ASSUME IInv, NEW c \in Call, NEW op \in Ops, Ensure(c, op) PROVE IInv'
<1>0. TypeOK /\ call \in [Call -> CallState] /\ call[c] \in CallState
  BY DEF IInv, TypeOK, CallState
<1>1. call[c].at = "idle" /\ op \in {"execute", "write"} /\ call[c].sent = {}
  BY DEF Ensure, IInv, CallsFit
<1>2. CASE Usable(held)
  <2> DEFINE r == [call[c] EXCEPT !.op = op, !.at = "ready", !.to = held]
  <2>1. held \in Box /\ box[held] # "none"
    BY <1>0, <1>2 DEF Usable, TypeOK, IInv, BoxesFit
  <2>2. /\ r \in CallState
        /\ r.op = op /\ r.at = "ready" /\ r.to = held /\ r.sent = call[c].sent
    BY <1>0, <1>1, <2>1 DEF CallState
  <2>3. call' = [call EXCEPT ![c] = r] /\ UNCHANGED <<backend, held, shut, box, gone, lost>>
    BY <1>2 DEF Ensure
  <2> HIDE DEF r
  <2>4. Becomes(c, r)
    BY <1>0, <2>2, <2>3, CallBecomes
  <2> QED
    BY <1>0, <1>1, <2>1, <2>2, <2>3, <2>4, MoveIInv DEF Fits, Sending, Owns, TypeOK
<1>3. CASE ~Usable(held)
  <2> DEFINE r == [call[c] EXCEPT !.op = op, !.at = "creating"]
  <2>1. /\ r \in CallState
        /\ r.op = op /\ r.at = "creating" /\ r.to = call[c].to /\ r.sent = call[c].sent
    BY <1>0, <1>1 DEF CallState
  <2>2. /\ call' = [call EXCEPT ![c] = r] /\ UNCHANGED <<backend, held, shut, box, gone>>
        /\ lost' = (lost \/ Creating \ {c} # {})
    BY <1>3 DEF Ensure, Ask
  <2>3. held = NoBox \/ (backend /\ box[held] # "live")
    BY <1>3 DEF Usable, IInv, BoxesFit
  <2> HIDE DEF r
  <2>4. Becomes(c, r)
    BY <1>0, <2>1, <2>2, CallBecomes
  <2>5. lost' \in BOOLEAN /\ (lost => lost') /\ (~lost' => Creating \subseteq {c})
    BY <1>0, <2>2 DEF TypeOK
  <2>6. Fits(r)
    BY <1>1, <2>1 DEF Fits, Sending, IInv, BoxesFit
  <2> QED
    BY <1>0, <1>1, <2>1, <2>2, <2>3, <2>4, <2>5, <2>6, MoveIInv DEF Owns, TypeOK
<1> QED
  BY <1>2, <1>3

(* A call of which only the place changes. *)
LEMMA MovedIInv ==
    ASSUME IInv, NEW c \in Call, NEW at, Moved(c, at),
           UNCHANGED <<backend, held, shut, box, gone, lost>>,
           \/ call[c].at = "creating" /\ at = "failed"
           \/ call[c].at \in Sending /\ at = After(c, "failed")
           \/ call[c].at = "executing" /\ at = After(c, "done")
    PROVE  IInv'
<1> DEFINE r == [call[c] EXCEPT !.at = at]
<1>0. TypeOK /\ call \in [Call -> CallState] /\ call[c] \in CallState /\ Fits(call[c])
  BY CallFits DEF IInv, TypeOK, CallState
<1>1. at \in {"failed", "done", "deleting"} /\ (at = "deleting" <=> call[c].op = "run" /\ call[c].at # "creating")
  BY DEF After, Sending
<1>2. /\ r \in CallState /\ r.at = at
      /\ r.op = call[c].op /\ r.to = call[c].to /\ r.sent = call[c].sent
  BY <1>0, <1>1 DEF CallState
<1> HIDE DEF r
<1>3. Becomes(c, r)
  BY <1>0, <1>2, CallBecomes DEF Moved, r
<1>4. Fits(r)
  BY <1>0, <1>1, <1>2 DEF Fits, Sending
<1>5. \A b \in Box : Owns(call[c], b) => Owns(r, b)
  BY <1>1, <1>2 DEF Owns
<1> QED
  BY <1>0, <1>1, <1>2, <1>3, <1>4, <1>5, MoveIInv DEF TypeOK

LEMMA RequestIInv ==
    ASSUME IInv, NEW c \in Call,
           RequestFails(c) \/ Executed(c) \/ (CreateFails(c) /\ UNCHANGED <<box, lost>>)
    PROVE  IInv'
<1>1. \E at : /\ Moved(c, at)
              /\ UNCHANGED <<backend, held, shut, box, gone, lost>>
              /\ \/ call[c].at = "creating" /\ at = "failed"
                 \/ call[c].at \in Sending /\ at = After(c, "failed")
                 \/ call[c].at = "executing" /\ at = After(c, "done")
  BY DEF RequestFails, Executed, CreateFails, Sending
<1> QED
  BY <1>1, MovedIInv

LEMMA SendIInv ==
    ASSUME IInv, NEW c \in Call, WriteSends(c) \/ ExecuteSends(c) PROVE IInv'
<1>0. TypeOK /\ call \in [Call -> CallState] /\ call[c] \in CallState /\ Fits(call[c])
  BY CallFits DEF IInv, TypeOK, CallState, WriteSends, ExecuteSends, Send
<1>1. PICK at : /\ Send(c, at)
                /\ call[c].at \in {"ready", "mkdir"}
                /\ \/ call[c].op = "write" /\ at \in {"mkdir", "done"}
                   \/ call[c].op \in {"execute", "run"} /\ at = "executing"
  BY DEF WriteSends, ExecuteSends
<1> DEFINE next == IF box[Target(c)] = "live" THEN at ELSE After(c, "failed")
           r == [call[c] EXCEPT !.sent = @ \cup {Target(c)}, !.at = next]
<1>2. next \in {at, "failed", "deleting"} /\ (next # at => (next = "deleting" <=> call[c].op = "run"))
  BY DEF After
<1>3. /\ Target(c) \in Box \cup {NoBox}
      /\ backend => Target(c) = call[c].to
      /\ ~backend => Target(c) = held /\ held # NoBox
  BY <1>0, <1>1 DEF Target, TypeOK, CallState, Fits, Sending
<1>4. call' = [call EXCEPT ![c] = r] /\ UNCHANGED <<backend, held, shut, box, gone, lost>>
  BY <1>1 DEF Send
<1> HIDE DEF next
<1>5. /\ r \in CallState /\ r.at = next
      /\ r.op = call[c].op /\ r.to = call[c].to /\ r.sent = call[c].sent \cup {Target(c)}
  BY <1>0, <1>1, <1>2, <1>3 DEF CallState
<1> HIDE DEF r
<1>6. Becomes(c, r)
  BY <1>0, <1>4, <1>5, CallBecomes
<1>7. Fits(r)
  BY <1>0, <1>1, <1>2, <1>3, <1>4, <1>5 DEF Fits, Sending
<1>8. \A b \in Box : Owns(call[c], b) => Owns(r, b)
  BY <1>1, <1>2, <1>5 DEF Owns
<1> QED
  BY <1>0, <1>1, <1>2, <1>4, <1>5, <1>6, <1>7, <1>8, MoveIInv DEF TypeOK

LEMMA RunBeginIInv ==
    ASSUME IInv, NEW c \in Call, RunBegin(c) PROVE IInv'
<1>0. TypeOK /\ call \in [Call -> CallState] /\ call[c] \in CallState /\ Fits(call[c])
  BY CallFits DEF IInv, TypeOK, CallState, RunBegin
<1> DEFINE r == [call[c] EXCEPT !.op = "run", !.at = "creating"]
<1>1. /\ r \in CallState
      /\ r.op = "run" /\ r.at = "creating" /\ r.to = call[c].to /\ r.sent = call[c].sent
  BY <1>0 DEF CallState
<1>2. /\ call[c].at = "idle" /\ backend
      /\ call' = [call EXCEPT ![c] = r] /\ UNCHANGED <<backend, held, shut, box, gone, lost>>
  BY DEF RunBegin
<1> HIDE DEF r
<1>3. Becomes(c, r)
  BY <1>0, <1>1, <1>2, CallBecomes
<1>4. Fits(r)
  BY <1>0, <1>1, <1>2 DEF Fits, Sending
<1> QED
  BY <1>0, <1>1, <1>2, <1>3, <1>4, MoveIInv DEF Owns, TypeOK

LEMMA ResetBeginIInv ==
    ASSUME IInv, NEW c \in Call, ResetBegin(c) PROVE IInv'
<1>0. TypeOK /\ call \in [Call -> CallState] /\ call[c] \in CallState
  BY DEF IInv, TypeOK, CallState
<1>1. call[c].at = "idle" /\ backend /\ call[c].sent = {}
  BY DEF ResetBegin, IInv, CallsFit
<1>2. CASE held = NoBox
  <2> DEFINE r == [call[c] EXCEPT !.op = "reset", !.at = "creating"]
  <2>1. /\ r \in CallState
        /\ r.op = "reset" /\ r.at = "creating" /\ r.to = call[c].to /\ r.sent = {}
    BY <1>0, <1>1 DEF CallState
  <2>2. /\ call' = [call EXCEPT ![c] = r] /\ UNCHANGED <<backend, held, shut, box, gone>>
        /\ lost' = (lost \/ Creating \ {c} # {})
    BY <1>2 DEF ResetBegin, Ask
  <2> HIDE DEF r
  <2>3. Becomes(c, r)
    BY <1>0, <2>1, <2>2, CallBecomes
  <2>4. lost' \in BOOLEAN /\ (lost => lost') /\ (~lost' => Creating \subseteq {c})
    BY <1>0, <2>2 DEF TypeOK
  <2>5. Fits(r)
    BY <1>1, <2>1 DEF Fits, Sending, IInv, BoxesFit
  <2> QED
    BY <1>0, <1>1, <1>2, <2>1, <2>2, <2>3, <2>4, <2>5, MoveIInv DEF Owns, TypeOK
<1>3. CASE held # NoBox
  <2> DEFINE r == [call[c] EXCEPT !.op = "reset", !.at = "deleting", !.to = held]
  <2>1. /\ r \in CallState
        /\ r.op = "reset" /\ r.at = "deleting" /\ r.to = held /\ r.sent = {}
    BY <1>0, <1>1 DEF CallState, TypeOK
  <2>2. call' = [call EXCEPT ![c] = r] /\ UNCHANGED <<backend, held, shut, box, gone, lost>>
    BY <1>3 DEF ResetBegin
  <2> HIDE DEF r
  <2>3. Becomes(c, r)
    BY <1>0, <2>1, <2>2, CallBecomes
  <2>4. Fits(r)
    BY <1>0, <1>1, <1>3, <2>1 DEF Fits, Sending, IInv, BoxesFit, TypeOK
  <2> QED
    BY <1>0, <1>1, <2>1, <2>2, <2>3, <2>4, MoveIInv DEF Owns, TypeOK
<1> QED
  BY <1>2, <1>3

LEMMA CloseBeginIInv ==
    ASSUME IInv, NEW c \in Call, CloseBegin(c) PROVE IInv'
<1>0. TypeOK /\ call \in [Call -> CallState] /\ call[c] \in CallState
  BY DEF IInv, TypeOK, CallState
<1>1. call[c].at = "idle" /\ call[c].sent = {}
  BY DEF CloseBegin, IInv, CallsFit
<1> DEFINE at == IF held = NoBox THEN "done" ELSE "deleting"
           r == [call[c] EXCEPT !.op = "close", !.to = held, !.at = at]
<1>2. /\ r \in CallState
      /\ r.op = "close" /\ r.at = at /\ r.to = held /\ r.sent = {}
  BY <1>0, <1>1 DEF CallState, TypeOK
<1>3. /\ call' = [call EXCEPT ![c] = r] /\ UNCHANGED <<backend, held, box, gone, lost>>
      /\ shut' \in BOOLEAN
  BY DEF CloseBegin
<1> HIDE DEF r
<1>4. Becomes(c, r)
  BY <1>0, <1>2, <1>3, CallBecomes
<1>5. Fits(r)
  BY <1>0, <1>1, <1>2 DEF Fits, Sending, IInv, BoxesFit, TypeOK
<1> QED
  BY <1>0, <1>1, <1>2, <1>3, <1>4, <1>5, MoveIInv DEF Owns, TypeOK

-----------------------------------------------------------------------------
(* Steps of the server. *)

LEMMA CreatedIInv ==
    ASSUME IInv, NEW c \in Call, NEW b \in Box, Created(c, b) PROVE IInv'
<1>0. TypeOK /\ call \in [Call -> CallState] /\ call[c] \in CallState
  BY DEF IInv, TypeOK, CallState
<1>1. call[c].at = "creating" /\ call[c].sent = {} /\ box[b] = "none"
  BY DEF Created, IInv, CallsFit
<1> DEFINE at == IF call[c].op = "reset" THEN "done" ELSE "ready"
           r == [call[c] EXCEPT !.to = b, !.at = at]
<1>2. /\ r \in CallState
      /\ r.op = call[c].op /\ r.at = at /\ r.to = b /\ r.sent = {}
  BY <1>0, <1>1 DEF CallState
<1>3. /\ call' = [call EXCEPT ![c] = r]
      /\ box' = [box EXCEPT ![b] = "live"]
      /\ held' = IF call[c].op = "run" THEN held ELSE b
      /\ UNCHANGED <<backend, shut, gone, lost>>
  BY DEF Created
<1> HIDE DEF r
<1>4. Becomes(c, r)
  BY <1>0, <1>2, <1>3, CallBecomes
<1>5. \A x \in Box : box'[x] = IF x = b THEN "live" ELSE box[x]
  BY <1>0, <1>3 DEF TypeOK
<1>6. TypeOK'
  BY <1>0, <1>3, <1>4 DEF TypeOK, Becomes, CallState
<1>7. CallsFit'
  BY <1>1, <1>2, <1>3, <1>4 DEF IInv, CallsFit, Becomes
<1>8. BoxesFit'
  BY <1>0, <1>1, <1>2, <1>3, <1>4, <1>5 DEF IInv, BoxesFit, Becomes, TypeOK, CallState
<1>9. CreationsApart'
  BY <1>0, <1>1, <1>2, <1>3, <1>4, <1>5
     DEF IInv, CreationsApart, Creating, Becomes, TypeOK, BoxesFit
<1>10. SentToTarget'
  BY <1>0, <1>1, <1>2, <1>3, <1>4
     DEF IInv, SentToTarget, CallsFit, CreationsApart, Creating, Becomes, TypeOK
<1>11. LiveIsOwned'
  BY <1>0, <1>1, <1>2, <1>3, <1>4, <1>5
     DEF IInv, LiveIsOwned, CreationsApart, Creating, Becomes
<1> QED
  BY <1>6, <1>7, <1>8, <1>9, <1>10, <1>11 DEF IInv

(* The client does not hear of what has been created. *)
LEMMA CreateLostIInv ==
    ASSUME IInv, NEW c \in Call, NEW b \in Box, call[c].at = "creating",
           Moved(c, "failed"), box[b] = "none", box' = [box EXCEPT ![b] = "live"],
           lost' = TRUE, UNCHANGED <<backend, held, shut, gone>>
    PROVE  IInv'
<1>0. TypeOK /\ call \in [Call -> CallState] /\ call[c] \in CallState
  BY DEF IInv, TypeOK, CallState
<1> DEFINE r == [call[c] EXCEPT !.at = "failed"]
<1>1. /\ r \in CallState
      /\ r.op = call[c].op /\ r.at = "failed" /\ r.to = call[c].to /\ r.sent = call[c].sent
  BY <1>0 DEF CallState
<1>2. call' = [call EXCEPT ![c] = r]
  BY DEF Moved
<1> HIDE DEF r
<1>3. Becomes(c, r)
  BY <1>0, <1>1, <1>2, CallBecomes
<1>4. \A x \in Box : box'[x] = IF x = b THEN "live" ELSE box[x]
  BY <1>0 DEF TypeOK
<1>5. TypeOK'
  BY <1>0, <1>3 DEF TypeOK, Becomes, CallState
<1>6. CallsFit'
  BY <1>1, <1>3 DEF IInv, CallsFit, Becomes
<1>7. BoxesFit'
  BY <1>0, <1>1, <1>3, <1>4 DEF IInv, BoxesFit, Becomes, TypeOK, CallState
<1>8. SentToTarget'
  BY <1>1, <1>3 DEF IInv, SentToTarget, Becomes
<1> QED
  BY <1>5, <1>6, <1>7, <1>8 DEF IInv, CreationsApart, LiveIsOwned

LEMMA DeletedIInv ==
    ASSUME IInv, NEW c \in Call, Deleted(c) PROVE IInv'
<1> DEFINE b == call[c].to
           at == IF call[c].op = "reset" THEN "creating" ELSE "done"
           r == [call[c] EXCEPT !.at = at]
<1>0. /\ TypeOK /\ call \in [Call -> CallState] /\ call[c] \in CallState
      /\ call[c].at = "deleting" /\ b \in Box /\ box[b] # "none"
  BY DEF Deleted, IInv, TypeOK, CallState, CallsFit, BoxesFit
<1>1. /\ r \in CallState
      /\ r.op = call[c].op /\ r.at = at /\ r.to = b /\ r.sent = call[c].sent
  BY <1>0 DEF CallState
<1>2. call' = [call EXCEPT ![c] = r] /\ UNCHANGED <<backend, held>> /\ shut' \in BOOLEAN
  BY <1>0 DEF Deleted, Moved, TypeOK
<1>3. at \in {"creating", "done"} /\ (at = "creating" <=> call[c].op = "reset")
  OBVIOUS
<1> HIDE DEF at, r
<1>4. Becomes(c, r)
  BY <1>0, <1>1, <1>2, CallBecomes
<1>5. CallsFit'
  BY <1>1, <1>2, <1>3, <1>4 DEF IInv, CallsFit, Becomes, CallState
<1>6. CASE lost' = TRUE /\ UNCHANGED <<box, gone>>
  <2>1. BoxesFit'
    BY <1>1, <1>2, <1>4, <1>6 DEF IInv, BoxesFit, Becomes
  <2>2. TypeOK'
    BY <1>0, <1>2, <1>4, <1>6 DEF TypeOK, Becomes, CallState
  <2>3. SentToTarget'
    BY <1>1, <1>2, <1>3, <1>4, <1>6 DEF IInv, SentToTarget, Becomes
  <2> QED
    BY <1>5, <1>6, <2>1, <2>2, <2>3 DEF IInv, CreationsApart, LiveIsOwned
<1>7. CASE /\ box' = [box EXCEPT ![b] = "destroyed"]
           /\ gone' = IF backend /\ box[b] = "live" THEN gone \cup {b} ELSE gone
           /\ lost' = (lost \/ (call[c].op = "reset" /\ (Creating # {} \/ b # held)))
  <2>1. \A x \in Box : box'[x] = IF x = b THEN "destroyed" ELSE box[x]
    BY <1>0, <1>7 DEF TypeOK
  <2>2. TypeOK'
    BY <1>0, <1>2, <1>4, <1>7 DEF TypeOK, Becomes, CallState
  <2>3. BoxesFit'
    BY <1>0, <1>1, <1>2, <1>4, <1>7, <2>1 DEF IInv, BoxesFit, Becomes, TypeOK, CallState
  <2>4. CreationsApart'
    <3> SUFFICES ASSUME ~lost' PROVE CreationsApart'
      BY DEF CreationsApart
    <3>1. ~lost /\ (call[c].op = "reset" => Creating = {} /\ b = held /\ backend)
      BY <1>7 DEF IInv, CallsFit
    <3>2. CASE call[c].op = "reset"
      <4>1. Creating' = {c}
        BY <1>1, <1>3, <1>4, <3>1, <3>2 DEF Creating, Becomes
      <4> QED
        BY <1>0, <1>2, <2>1, <3>1, <3>2, <4>1 DEF CreationsApart
    <3>3. CASE call[c].op # "reset"
      <4>1. Creating' \subseteq Creating
        BY <1>1, <1>3, <1>4, <3>3 DEF Creating, Becomes
      <4> QED
        BY <1>0, <1>2, <2>1, <3>1, <4>1 DEF IInv, CreationsApart, TypeOK
    <3> QED
      BY <3>2, <3>3
  <2>5. SentToTarget'
    BY <1>0, <1>1, <1>2, <1>3, <1>4, <1>7 DEF IInv, SentToTarget, Becomes, TypeOK
  <2>6. LiveIsOwned'
    BY <1>0, <1>1, <1>2, <1>3, <1>4, <1>7, <2>1 DEF IInv, LiveIsOwned, Becomes, TypeOK
  <2> QED
    BY <1>5, <2>2, <2>3, <2>4, <2>5, <2>6 DEF IInv
<1> QED
  BY <1>6, <1>7 DEF Deleted

LEMMA ReapedIInv ==
    ASSUME IInv, NEW b \in Box, Reaped(b) PROVE IInv'
<1> USE DEF Reaped
<1>1. \A x \in Box : box'[x] = IF x = b THEN "destroyed" ELSE box[x]
  BY DEF IInv, TypeOK
<1>2. TypeOK' /\ CallsFit' /\ SentToTarget'
  BY DEF IInv, TypeOK, CallsFit, SentToTarget
<1>3. BoxesFit'
  BY <1>1 DEF IInv, BoxesFit, TypeOK
<1>4. CreationsApart' /\ LiveIsOwned'
  BY <1>1 DEF IInv, CreationsApart, Creating, LiveIsOwned, TypeOK
<1> QED
  BY <1>2, <1>3, <1>4 DEF IInv

-----------------------------------------------------------------------------
LEMMA InitIInv == ClientInit => IInv
<1> SUFFICES ASSUME ClientInit PROVE IInv
  OBVIOUS
<1> USE DEF ClientInit
<1>1. TypeOK
  BY DEF TypeOK
<1>2. CallsFit /\ BoxesFit
  BY DEF CallsFit, BoxesFit
<1>3. CreationsApart /\ SentToTarget /\ LiveIsOwned
  BY DEF CreationsApart, Creating, SentToTarget, LiveIsOwned
<1> QED
  BY <1>1, <1>2, <1>3 DEF IInv

LEMMA StepIInv == IInv /\ [Next]_clientVars => IInv'
<1> SUFFICES ASSUME IInv, [Next]_clientVars PROVE IInv'
  OBVIOUS
<1>1. CASE UNCHANGED clientVars
  BY <1>1 DEF clientVars, IInv, TypeOK, CallsFit, BoxesFit, CreationsApart, Creating,
     SentToTarget, LiveIsOwned
<1>2. ASSUME NEW c \in Call, CallStep(c) PROVE IInv'
  <2>1. ASSUME NEW op \in Ops, Ensure(c, op) PROVE IInv'
    BY <2>1, EnsureIInv
  <2>2. ASSUME NEW b \in Box, Created(c, b) PROVE IInv'
    BY <2>2, CreatedIInv
  <2>3. CASE CreateFails(c)
    BY <2>3, RequestIInv, CreateLostIInv DEF CreateFails
  <2>4. CASE WriteSends(c) \/ ExecuteSends(c)
    BY <2>4, SendIInv
  <2>5. CASE Executed(c) \/ RequestFails(c)
    BY <2>5, RequestIInv
  <2>6. CASE RunBegin(c) \/ ResetBegin(c) \/ CloseBegin(c) \/ Deleted(c)
    BY <2>6, RunBeginIInv, ResetBeginIInv, CloseBeginIInv, DeletedIInv
  <2> QED
    BY <1>2, <2>1, <2>2, <2>3, <2>4, <2>5, <2>6 DEF CallStep
<1>3. ASSUME NEW b \in Box, Reaped(b) PROVE IInv'
  BY <1>3, ReapedIInv
<1> QED
  BY <1>1, <1>2, <1>3 DEF Next

(* The inductive invariant holds in every reachable state of the client.   *)
THEOREM InvariantHolds == Spec => []IInv
BY InitIInv, StepIInv, PTL DEF Spec

(* Every variable of the client keeps its type. *)
THEOREM TypeCorrect == Spec => []TypeOK
<1>1. IInv => TypeOK
  BY DEF IInv
<1> QED
  BY <1>1, InvariantHolds, PTL

(* The mkdir and the write of one call, and everything else that it sends, *)
(* go to one sandbox: with the handle that AgentBoxBackend passes on       *)
(* always, with the _sandbox_id that AgentBoxSandbox reads anew unless     *)
(* creations overlapped (langchain/backend.py, langchain/sandbox.py).      *)
THEOREM OneTargetHolds == Spec => []OneTarget
<1>1. ASSUME IInv PROVE OneTarget
  <2> SUFFICES ASSUME NEW c \in Call, backend \/ ~lost
               PROVE  Cardinality(call[c].sent) <= 1
    BY DEF OneTarget
  <2>1. PICK b : call[c].sent \subseteq {b}
    BY <1>1 DEF IInv, TypeOK, SentToTarget
  <2>2. call[c].sent = {} \/ call[c].sent = {b}
    BY <2>1
  <2>3. Cardinality({}) = 0 /\ Cardinality({b}) = 1
    BY FS_EmptySet, FS_Singleton
  <2> QED
    BY <2>2, <2>3
<1> QED
  BY <1>1, InvariantHolds, PTL

(* When the calls have come to their end nothing that the client created   *)
(* is alive but what it holds: run() and reset() leave no sandbox behind,  *)
(* but for overlapping creations and requests that failed.                 *)
THEOREM OnlyHeldIsLiveHolds == Spec => []OnlyHeldIsLive
<1>1. IInv => OnlyHeldIsLive
  BY DEF IInv, OnlyHeldIsLive, LiveIsOwned, Active
<1> QED
  BY <1>1, InvariantHolds, PTL
=============================================================================
