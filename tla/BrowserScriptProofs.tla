-------------------------- MODULE BrowserScriptProofs --------------------------
(***************************************************************************)
(* IInv of BrowserScript is an inductive invariant, for every number of    *)
(* executions, pages, connections and commands.  Its halves are proved one *)
(* after the other: the executions of the pages (PyodideExec), then the    *)
(* commands on the connections (CommandChannel).                           *)
(***************************************************************************)
EXTENDS BrowserScript, SequenceTheorems, TLAPS

USE RealIsNoExecution

-----------------------------------------------------------------------------
(* Executions in the pages. *)

ExecState ==
    [at : {"none", "turn", "awaiting", "ended"}, page : Page \cup {"none"},
     shell : BOOLEAN, printed : Nat, mixed : BOOLEAN]
Results == [code : {"pending", "ok", "error", "timeout", "gone"},
            out : SUBSET (Exec \X Nat)]

LEMMA PageTypes ==
    PageTypeOK <=>
        /\ stdout \in [Page -> Exec \cup {Real}]
        /\ text \in [Exec -> SUBSET (Exec \X Nat)]
        /\ exec \in [Exec -> ExecState]
        /\ result \in [Exec -> Results]
BY DEF PageTypeOK, ExecState, Results

(* Where only the place of executions changes, the tokens stay. *)
LEMMA PrintedStays ==
    ASSUME \A e \in Exec : exec'[e].printed = exec[e].printed
    PROVE  Printed' = Printed /\ \A e \in Exec : Own(e)' = Own(e)
BY DEF Printed, Own

(* One more token of execution e: it is in no StringIO and no answer yet.  *)
LEMMA PrintedGrows ==
    ASSUME PageTypeOK, NEW e \in Exec, exec'[e].printed = exec[e].printed + 1,
           \A x \in Exec : x # e => exec'[x].printed = exec[x].printed
    PROVE  /\ Own(e)' = Own(e) \cup {<<e, exec[e].printed + 1>>}
           /\ \A x \in Exec : x # e => Own(x)' = Own(x)
           /\ Printed' = Printed \cup {<<e, exec[e].printed + 1>>}
           /\ <<e, exec[e].printed + 1>> \notin Printed
<1>1. exec[e].printed \in Nat
  BY DEF PageTypeOK
<1>2. Own(e)' = Own(e) \cup {<<e, exec[e].printed + 1>>}
  <2>1. 1 .. exec'[e].printed = (1 .. exec[e].printed) \cup {exec[e].printed + 1}
    BY <1>1
  <2> QED
    BY <2>1 DEF Own
<1>3. \A x \in Exec : x # e => Own(x)' = Own(x)
  BY DEF Own
<1>4. Printed' = Printed \cup {<<e, exec[e].printed + 1>>}
  BY <1>2, <1>3 DEF Printed
<1>5. \A x \in Exec : <<e, exec[e].printed + 1>> \notin Own(x)
  BY <1>1 DEF Own
<1>6. <<e, exec[e].printed + 1>> \notin Printed
  BY <1>5 DEF Printed
<1> QED
  BY <1>2, <1>3, <1>4, <1>6

(* What ExecsFit says of one execution. *)
ExecFits(e) ==
    /\ exec[e].at = "none" => exec[e].printed = 0 /\ text[e] = {} /\ result[e] = Pending
    /\ exec[e].at \in {"turn", "awaiting"} =>
           /\ exec[e].page \in Page
           /\ ~exec[e].mixed => /\ Inside(exec[e].page) = {e} /\ stdout[exec[e].page] = e
                                /\ text[e] = Own(e)
                                /\ result[e].out = {} /\ result[e].code # "ok"

LEMMA ExecsFitEach ==
    ASSUME PageInv, NEW e \in Exec PROVE ExecFits(e)
BY DEF PageInv, ExecsFit, ExecFits

LEMMA ExecBeginInv ==
    ASSUME PageInv, NEW e \in Exec, NEW p \in Page, NEW shell \in BOOLEAN,
           ExecBegin(e, p, shell)
    PROVE  PageInv'
<1>0. PageTypeOK /\ exec \in [Exec -> ExecState]
  BY PageTypes DEF PageInv
<1>1. exec[e].at = "none" /\ exec[e].printed = 0 /\ text[e] = {} /\ result[e] = Pending
  BY DEF ExecBegin, PageInv, ExecsFit
<1>2. PICK others \in SUBSET Exec : others = Inside(p) /\ e \notin others
  BY <1>1 DEF Inside
<1>3. PICK mixed \in BOOLEAN : mixed <=> others # {}
  OBVIOUS
<1>4. /\ stdout' \in [Page -> Exec \cup {Real}] /\ stdout'[p] = e
      /\ \A q \in Page : q # p => stdout'[q] = stdout[q]
  BY <1>0 DEF ExecBegin, PageTypeOK
<1>5. /\ text' \in [Exec -> SUBSET (Exec \X Nat)] /\ text'[e] = {<<e, 1>>}
      /\ \A x \in Exec : x # e => text'[x] = text[x]
  <2>1. text \in [Exec -> SUBSET (Exec \X Nat)] /\ <<e, 1>> \in Exec \X Nat
    BY <1>0, PageTypes
  <2>2. text' = [text EXCEPT ![e] = @ \cup {<<e, 1>>}]
    BY DEF ExecBegin
  <2> QED
    BY <1>1, <2>1, <2>2
<1>6. /\ exec' \in [Exec -> ExecState]
      /\ exec'[e].at = "turn" /\ exec'[e].page = p /\ exec'[e].printed = 1
      /\ ~exec'[e].mixed => others = {}
      /\ \A x \in Exec : x # e =>
           /\ exec'[x].at = exec[x].at /\ exec'[x].page = exec[x].page
           /\ exec'[x].printed = exec[x].printed
           /\ ~exec'[x].mixed => x \notin others /\ ~exec[x].mixed
  <2> DEFINE r == [exec[e] EXCEPT !.at = "turn", !.page = p, !.shell = shell,
                                  !.printed = 1, !.mixed = mixed]
             m(x) == [exec[x] EXCEPT !.mixed = TRUE]
  <2>1. exec' = [x \in Exec |-> IF x = e THEN r ELSE IF x \in others THEN m(x) ELSE exec[x]]
    <3>1. mixed = (others # {})
      BY <1>3
    <3> QED
      BY <1>2, <3>1 DEF ExecBegin
  <2>2. /\ r \in ExecState
        /\ r.at = "turn" /\ r.page = p /\ r.printed = 1 /\ r.mixed = mixed
    BY <1>0 DEF ExecState
  <2>3. ASSUME NEW x \in Exec
        PROVE  /\ m(x) \in ExecState /\ m(x).at = exec[x].at /\ m(x).page = exec[x].page
               /\ m(x).printed = exec[x].printed /\ m(x).mixed = TRUE
    BY <1>0 DEF ExecState
  <2> HIDE DEF r, m
  <2>4. \A x \in Exec : exec'[x] = IF x = e THEN r ELSE IF x \in others THEN m(x) ELSE exec[x]
    BY <2>1
  <2>5. exec' \in [Exec -> ExecState]
    BY <1>0, <2>1, <2>2, <2>3
  <2> QED
    BY <1>3, <2>2, <2>3, <2>4, <2>5
<1>7. result' = result
  BY DEF ExecBegin
<1>8. /\ Own(e)' = {<<e, 1>>}
      /\ \A x \in Exec : x # e => Own(x)' = Own(x)
      /\ Printed' = Printed \cup {<<e, 1>>}
      /\ <<e, 1>> \notin Printed
  <2>1. Own(e) = {}
    BY <1>1 DEF Own
  <2>2. /\ exec[e].printed + 1 = 1 /\ exec'[e].printed = exec[e].printed + 1
        /\ \A x \in Exec : x # e => exec'[x].printed = exec[x].printed
    BY <1>1, <1>6
  <2> QED
    BY <1>0, <2>1, <2>2, PrintedGrows
<1> HIDE DEF Pending
<1>9. PageTypeOK'
  BY <1>0, <1>4, <1>5, <1>6, <1>7 DEF PageTypeOK, ExecState
<1>10. TokensFit'
  BY <1>5, <1>7, <1>8 DEF PageInv, TokensFit
<1>11. StdoutFits'
  <2>1. \A f \in Exec : <<e, 1>> \notin result[f].out
    BY <1>8 DEF PageInv, TokensFit
  <2> SUFFICES ASSUME NEW q \in Page, stdout'[q] # Real
               PROVE  /\ exec'[stdout'[q]].at # "none" /\ exec'[stdout'[q]].page = q
                      /\ \A f \in Exec : result'[f].out \cap text'[stdout'[q]] = {}
    BY DEF StdoutFits
  <2>2. CASE q = p
    BY <1>4, <1>5, <1>6, <1>7, <2>1, <2>2
  <2>3. CASE q # p
    <3>1. stdout'[q] = stdout[q] /\ stdout[q] \in Exec
      BY <1>4, <2>3
    <3>2. /\ exec[stdout[q]].at # "none" /\ exec[stdout[q]].page = q
          /\ \A f \in Exec : result[f].out \cap text[stdout[q]] = {}
      BY <3>1 DEF PageInv, StdoutFits
    <3> QED
      BY <1>1, <1>5, <1>6, <1>7, <3>1, <3>2
  <2> QED
    BY <2>2, <2>3
<1>12. ExecsFit'
  <2>1. Inside(p)' = others \cup {e}
    BY <1>1, <1>2, <1>6 DEF Inside
  <2>2. \A q \in Page : q # p => Inside(q)' = Inside(q)
    BY <1>1, <1>6 DEF Inside
  <2>3. ASSUME NEW x \in Exec, x # e, exec[x].at \in {"turn", "awaiting"}, ~exec'[x].mixed
        PROVE  exec[x].page # p /\ exec[x].page \in Page
    BY <1>2, <1>6, <2>3 DEF Inside, PageInv, ExecsFit
  <2>4. ExecFits(e)'
    <3>1. ~exec'[e].mixed => Inside(p)' = {e}
      BY <1>6, <2>1
    <3>2. result'[e].out = {} /\ result'[e].code # "ok"
      BY <1>1, <1>7 DEF Pending
    <3> QED
      BY <1>4, <1>5, <1>6, <1>8, <3>1, <3>2 DEF ExecFits
  <2>5. ASSUME NEW x \in Exec, x # e PROVE ExecFits(x)'
    <3>1. ExecFits(x) /\ (exec[x].at \in {"turn", "awaiting"} => exec[x].page \in Page)
      BY ExecsFitEach DEF ExecFits
    <3> QED
      BY <1>4, <1>5, <1>6, <1>7, <1>8, <2>2, <2>3, <2>5, <3>1 DEF ExecFits
  <2> QED
    BY <2>4, <2>5 DEF ExecsFit, ExecFits
<1>13. OutputOnce'
  BY <1>7 DEF PageInv, OutputOnce
<1>14. AloneIsExact'
  <2>1. result[e].out = {} /\ result[e].code # "ok"
    BY <1>1 DEF Pending
  <2> QED
    BY <1>6, <1>7, <1>8, <2>1 DEF PageInv, AloneIsExact
<1> QED
  BY <1>9, <1>10, <1>11, <1>12, <1>13, <1>14 DEF PageInv

LEMMA ExecAwaitInv ==
    ASSUME PageInv, NEW e \in Exec, ExecAwait(e)
    PROVE  PageInv'
<1>0. PageTypeOK /\ exec[e].at = "turn"
  BY DEF PageInv, ExecAwait
<1>1. /\ exec' \in [Exec -> ExecState] /\ exec'[e].at = "awaiting"
      /\ \A x \in Exec :
           /\ exec'[x].page = exec[x].page /\ exec'[x].printed = exec[x].printed
           /\ exec'[x].mixed = exec[x].mixed
           /\ x # e => exec'[x].at = exec[x].at
  BY <1>0 DEF ExecAwait, PageTypeOK, ExecState
<1>2. UNCHANGED <<stdout, text, result>>
  BY DEF ExecAwait
<1>3. Printed' = Printed /\ \A x \in Exec : Own(x)' = Own(x)
  BY <1>1, PrintedStays
<1>4. \A p : Inside(p)' = Inside(p)
  BY <1>0, <1>1 DEF Inside
<1>5. PageTypeOK'
  BY <1>0, <1>1, <1>2 DEF PageTypeOK, ExecState
<1>6. TokensFit' /\ OutputOnce'
  BY <1>2, <1>3 DEF PageInv, TokensFit, OutputOnce
<1>7. StdoutFits'
  BY <1>0, <1>1, <1>2 DEF PageInv, StdoutFits, PageTypeOK
<1>8. ExecsFit'
  BY <1>0, <1>1, <1>2, <1>3, <1>4 DEF PageInv, ExecsFit
<1>9. AloneIsExact'
  BY <1>1, <1>2, <1>3 DEF PageInv, AloneIsExact
<1> QED
  BY <1>5, <1>6, <1>7, <1>8, <1>9 DEF PageInv

LEMMA ExecResumeInv ==
    ASSUME PageInv, NEW e \in Exec, ExecResume(e)
    PROVE  PageInv'
<1>0. PageTypeOK /\ exec[e].at = "awaiting"
  BY DEF PageInv, ExecResume
<1>1. PICK p \in Page : p = exec[e].page
  BY <1>0 DEF PageInv, ExecsFit
<1>2. PICK token \in Exec \X Nat : token = <<e, exec[e].printed + 1>>
  <2>1. exec[e].printed + 1 \in Nat
    BY <1>0, PageTypes DEF ExecState
  <2> QED
    BY <2>1
<1>3. PICK out \in Exec \cup {Real} : out = stdout[p]
  BY <1>0 DEF PageTypeOK
<1>4. /\ exec' \in [Exec -> ExecState]
      /\ exec'[e].at = "turn" /\ exec'[e].printed = exec[e].printed + 1
      /\ \A x \in Exec :
           /\ exec'[x].page = exec[x].page /\ exec'[x].mixed = exec[x].mixed
           /\ x # e => exec'[x].at = exec[x].at /\ exec'[x].printed = exec[x].printed
  <2> DEFINE r == [exec[e] EXCEPT !.at = "turn", !.printed = @ + 1]
  <2>1. exec \in [Exec -> ExecState] /\ exec[e] \in ExecState /\ exec[e].printed + 1 \in Nat
    BY <1>0, PageTypes DEF ExecState
  <2>2. /\ r \in ExecState /\ r.at = "turn" /\ r.printed = exec[e].printed + 1
        /\ r.page = exec[e].page /\ r.mixed = exec[e].mixed
    BY <2>1 DEF ExecState
  <2>3. exec' = [exec EXCEPT ![e] = r]
    BY DEF ExecResume, Stretch
  <2> HIDE DEF r
  <2> QED
    BY <2>1, <2>2, <2>3
<1>5. /\ UNCHANGED <<stdout, result>>
      /\ text' \in [Exec -> SUBSET (Exec \X Nat)]
      /\ \A x \in Exec : text'[x] = IF x = out THEN text[x] \cup {token} ELSE text[x]
  <2>1. out \in Exec => text' = [text EXCEPT ![out] = @ \cup {token}]
    BY <1>1, <1>2, <1>3 DEF ExecResume, Stretch
  <2>2. out = Real => text' = text
    BY <1>1, <1>3 DEF ExecResume, Stretch
  <2>3. text \in [Exec -> SUBSET (Exec \X Nat)]
    BY <1>0, PageTypes
  <2>4. CASE out = Real
    BY <2>2, <2>3, <2>4 DEF ExecResume
  <2>5. CASE out \in Exec
    BY <2>1, <2>3, <2>5 DEF ExecResume
  <2> QED
    BY <1>3, <2>4, <2>5
<1>6. /\ Own(e)' = Own(e) \cup {token}
      /\ \A x \in Exec : x # e => Own(x)' = Own(x)
      /\ Printed' = Printed \cup {token}
      /\ token \notin Printed
  BY <1>0, <1>2, <1>4, PrintedGrows
<1>7. \A q : Inside(q)' = Inside(q)
  BY <1>0, <1>4 DEF Inside
<1>8. PageTypeOK'
  BY <1>0, <1>4, <1>5 DEF PageTypeOK, ExecState
<1>9. TokensFit'
  BY <1>5, <1>6 DEF PageInv, TokensFit
<1>10. OutputOnce'
  BY <1>5 DEF PageInv, OutputOnce
<1>11. StdoutFits'
  <2>1. \A f \in Exec : token \notin result[f].out
    BY <1>6 DEF PageInv, TokensFit
  <2> QED
    BY <1>0, <1>4, <1>5, <2>1 DEF PageInv, StdoutFits, PageTypeOK
<1>12. ExecsFit'
  <2>1. out # Real => exec[out].at # "none" /\ exec[out].page = p
    BY <1>3 DEF PageInv, StdoutFits
  <2>2. e \in Inside(p)
    BY <1>0, <1>1 DEF Inside
  <2>3. ASSUME NEW x \in Exec PROVE ExecFits(x)'
    <3>1. ExecFits(x)
      BY ExecsFitEach
    <3>2. CASE x = e
      BY <1>0, <1>1, <1>3, <1>4, <1>5, <1>6, <1>7, <3>1, <3>2 DEF ExecFits
    <3>3. CASE x # e
      <4>1. exec[x].at = "none" => x # out
        BY <1>3, <2>1
      <4>2. exec[x].at \in {"turn", "awaiting"} /\ ~exec[x].mixed => x # out
        BY <2>1, <2>2, <3>1, <3>3 DEF ExecFits
      <4> QED
        BY <1>4, <1>5, <1>6, <1>7, <3>1, <3>3, <4>1, <4>2 DEF ExecFits
    <3> QED
      BY <3>2, <3>3
  <2> QED
    BY <2>3 DEF ExecsFit, ExecFits
<1>13. AloneIsExact'
  <2>1. ~exec[e].mixed => result[e].out = {} /\ result[e].code # "ok"
    BY <1>0 DEF PageInv, ExecsFit
  <2> QED
    BY <1>4, <1>5, <1>6, <2>1 DEF PageInv, AloneIsExact
<1> QED
  BY <1>8, <1>9, <1>10, <1>11, <1>12, <1>13 DEF PageInv

(* An execution leaves the page, with an answer or for one that was given: *)
(* success comes with what the StringIO in place holds.                    *)
LEMMA LeaveInv ==
    ASSUME PageInv, NEW e \in Exec, Leave(e),
           NEW code \in {"ok", "error"}, NEW out, Answer(e, code, out),
           out = {} \/ out = Captured(exec[e].page),
           code = "ok" => out = Captured(exec[e].page)
    PROVE  PageInv'
<1>0. PageTypeOK /\ exec \in [Exec -> ExecState] /\ exec[e].at = "turn"
  BY PageTypes DEF PageInv, Leave
<1>1. PICK p \in Page : p = exec[e].page
  BY <1>0 DEF PageInv, ExecsFit
<1>2. PICK x \in Exec \cup {Real} : x = stdout[p]
  BY <1>0 DEF PageTypeOK
<1>3. /\ x = Real => out = {}
      /\ x \in Exec => out \subseteq text[x] /\ (code = "ok" => out = text[x])
  BY <1>1, <1>2 DEF Captured
<1>4. \A y \in Exec : text[y] \subseteq Printed /\ text[y] \in SUBSET (Exec \X Nat)
  BY <1>0, PageTypes DEF PageInv, TokensFit
<1>5. /\ stdout' \in [Page -> Exec \cup {Real}] /\ stdout'[p] = Real
      /\ \A q \in Page : q # p => stdout'[q] = stdout[q]
  BY <1>0, <1>1, PageTypes DEF Leave, Restored
<1>6. /\ exec' \in [Exec -> ExecState] /\ exec'[e].at = "ended"
      /\ \A y \in Exec :
           /\ exec'[y].page = exec[y].page /\ exec'[y].printed = exec[y].printed
           /\ exec'[y].mixed = exec[y].mixed
           /\ y # e => exec'[y].at = exec[y].at
  <2> DEFINE r == [exec[e] EXCEPT !.at = "ended"]
  <2>1. /\ r \in ExecState /\ r.at = "ended" /\ r.page = exec[e].page
        /\ r.printed = exec[e].printed /\ r.mixed = exec[e].mixed
    BY <1>0 DEF ExecState
  <2>2. exec' = [exec EXCEPT ![e] = r]
    BY DEF Leave
  <2> HIDE DEF r
  <2> QED
    BY <1>0, <2>1, <2>2
<1>7. text' = text
  BY DEF Leave
<1>8. /\ result' \in [Exec -> Results]
      /\ \A y \in Exec : y # e => result'[y] = result[y]
      /\ result'[e] = result[e] \/ (result'[e].code = code /\ result'[e].out = out)
  <2>1. result \in [Exec -> Results]
    BY <1>0, PageTypes
  <2>2. out \in SUBSET (Exec \X Nat)
    BY <1>2, <1>3, <1>4
  <2> DEFINE r == [code |-> code, out |-> out]
  <2>3. r \in Results /\ r.code = code /\ r.out = out
    BY <2>2 DEF Results
  <2>4. result' = result \/ result' = [result EXCEPT ![e] = r]
    BY DEF Answer
  <2> HIDE DEF r
  <2> QED
    BY <2>1, <2>3, <2>4
<1>9. Printed' = Printed /\ \A y \in Exec : Own(y)' = Own(y)
  BY <1>6, PrintedStays
<1>10. PageTypeOK'
  BY <1>0, <1>5, <1>6, <1>7, <1>8 DEF PageTypeOK, ExecState, Results
<1>11. TokensFit'
  BY <1>2, <1>3, <1>4, <1>7, <1>8, <1>9 DEF PageInv, TokensFit
<1>12. \A f \in Exec : x \in Exec => result[f].out \cap text[x] = {}
  BY <1>2 DEF PageInv, StdoutFits
<1>13. OutputOnce'
  BY <1>2, <1>3, <1>8, <1>12 DEF PageInv, OutputOnce
<1>14. StdoutFits'
  <2> SUFFICES ASSUME NEW q \in Page, stdout'[q] # Real
               PROVE  /\ exec'[stdout'[q]].at # "none" /\ exec'[stdout'[q]].page = q
                      /\ \A f \in Exec : result'[f].out \cap text'[stdout'[q]] = {}
    BY DEF StdoutFits
  <2>1. PICK y \in Exec : y = stdout[q] /\ y = stdout'[q] /\ q # p
    BY <1>5
  <2>2. /\ exec[y].at # "none" /\ exec[y].page = q
        /\ \A f \in Exec : result[f].out \cap text[y] = {}
    BY <2>1 DEF PageInv, StdoutFits
  <2>3. x \in Exec => exec[x].page = p
    BY <1>2 DEF PageInv, StdoutFits
  <2>4. out \cap text[y] = {}
    BY <1>2, <1>3, <2>1, <2>2, <2>3 DEF PageInv, TokensFit
  <2> QED
    BY <1>6, <1>7, <1>8, <2>1, <2>2, <2>4
<1>15. ExecsFit'
  <2>1. e \in Inside(p)
    BY <1>0, <1>1 DEF Inside
  <2>2. \A q : q # p => Inside(q)' = Inside(q)
    BY <1>1, <1>6 DEF Inside
  <2>3. ASSUME NEW y \in Exec PROVE ExecFits(y)'
    <3>1. ExecFits(y)
      BY ExecsFitEach
    <3>2. CASE y = e
      BY <1>6, <3>2 DEF ExecFits
    <3>3. CASE y # e
      <4>1. exec[y].at \in {"turn", "awaiting"} /\ ~exec[y].mixed => exec[y].page # p
        BY <2>1, <3>1, <3>3 DEF ExecFits
      <4> QED
        BY <1>5, <1>6, <1>7, <1>8, <1>9, <2>2, <3>1, <3>3, <4>1 DEF ExecFits
    <3> QED
      BY <3>2, <3>3
  <2> QED
    BY <2>3 DEF ExecsFit, ExecFits
<1>16. AloneIsExact'
  <2>1. ~exec[e].mixed => x = e /\ text[e] = Own(e)
    BY <1>0, <1>1, <1>2 DEF PageInv, ExecsFit
  <2> QED
    BY <1>3, <1>6, <1>8, <1>9, <2>1 DEF PageInv, AloneIsExact
<1> QED
  BY <1>10, <1>11, <1>13, <1>14, <1>15, <1>16 DEF PageInv

LEMMA FinishInv ==
    ASSUME PageInv, NEW e \in Exec, ExecReturns(e) \/ ExecRaises(e) \/ ExecExits(e)
    PROVE  PageInv'
<1>1. \E code \in {"ok", "error"}, out \in {{}, Captured(exec[e].page)} :
        /\ Leave(e) /\ Answer(e, code, out)
        /\ code = "ok" => out = Captured(exec[e].page)
  <2>1. CASE ExecReturns(e)
    BY <2>1 DEF ExecReturns
  <2>2. CASE ExecRaises(e)
    BY <2>2 DEF ExecRaises
  <2>3. CASE ExecExits(e)
    BY <2>3 DEF ExecExits
  <2> QED
    BY <2>1, <2>2, <2>3
<1> QED
  BY <1>1, LeaveInv

(* Executions are answered without output and some leave a page.           *)
LEMMA EmptyAnswers ==
    ASSUME PageInv, exec' \in [Exec -> ExecState], result' \in [Exec -> Results],
           stdout' \in [Page -> Exec \cup {Real}], text' = text,
           \A e \in Exec :
             /\ exec'[e].page = exec[e].page /\ exec'[e].printed = exec[e].printed
             /\ exec'[e].mixed = exec[e].mixed
             /\ \/ exec'[e].at = exec[e].at
                \/ exec[e].at \in {"turn", "awaiting"} /\ exec'[e].at = "ended"
             /\ \/ result'[e] = result[e]
                \/ /\ exec[e].at \in {"turn", "awaiting"}
                   /\ result'[e].out = {} /\ result'[e].code # "ok",
           \A p \in Page : \/ stdout'[p] = stdout[p] /\ Inside(p)' = Inside(p)
                           \/ stdout'[p] = Real /\ Inside(p)' = {}
    PROVE  PageInv'
<1>0. PageTypeOK
  BY DEF PageInv
<1>1. Printed' = Printed /\ \A e \in Exec : Own(e)' = Own(e)
  BY PrintedStays
<1>2. PageTypeOK'
  BY <1>0 DEF PageTypeOK, ExecState, Results
<1>3. TokensFit'
  BY <1>1 DEF PageInv, TokensFit
<1>4. OutputOnce'
  BY DEF PageInv, OutputOnce
<1>5. StdoutFits'
  <2> SUFFICES ASSUME NEW q \in Page, stdout'[q] # Real
               PROVE  /\ exec'[stdout'[q]].at # "none" /\ exec'[stdout'[q]].page = q
                      /\ \A f \in Exec : result'[f].out \cap text'[stdout'[q]] = {}
    BY DEF StdoutFits
  <2>1. PICK y \in Exec : y = stdout[q] /\ y = stdout'[q]
    OBVIOUS
  <2>2. /\ exec[y].at # "none" /\ exec[y].page = q
        /\ \A f \in Exec : result[f].out \cap text[y] = {}
    BY <2>1 DEF PageInv, StdoutFits
  <2> QED
    BY <2>1, <2>2
<1>6. ExecsFit'
  <2>1. ASSUME NEW e \in Exec PROVE ExecFits(e)'
    <3>1. ExecFits(e)
      BY ExecsFitEach
    <3>2. exec'[e].at \in {"turn", "awaiting"} => e \in Inside(exec[e].page)'
      BY DEF Inside
    <3> QED
      BY <1>1, <3>1, <3>2 DEF ExecFits
  <2> QED
    BY <2>1 DEF ExecsFit, ExecFits
<1>7. AloneIsExact'
  BY <1>1 DEF PageInv, AloneIsExact
<1> QED
  BY <1>2, <1>3, <1>4, <1>5, <1>6, <1>7 DEF PageInv

LEMMA ExecTimesOutInv ==
    ASSUME PageInv, NEW e \in Exec, ExecTimesOut(e) PROVE PageInv'
<1>0. exec \in [Exec -> ExecState] /\ result \in [Exec -> Results]
      /\ stdout \in [Page -> Exec \cup {Real}]
  BY PageTypes DEF PageInv
<1> DEFINE r == [code |-> "timeout", out |-> {}]
<1>1. r \in Results /\ r.code = "timeout" /\ r.out = {}
  BY DEF Results
<1>2. result' = [result EXCEPT ![e] = r]
  BY DEF ExecTimesOut, Answer
<1>3. exec[e].at \in {"turn", "awaiting"} /\ UNCHANGED <<stdout, text, exec>>
  BY DEF ExecTimesOut
<1>4. \A p : Inside(p)' = Inside(p)
  BY <1>3 DEF Inside
<1> HIDE DEF r
<1>5. result' \in [Exec -> Results]
  BY <1>0, <1>1, <1>2
<1>6. \A x \in Exec : result'[x] = IF x = e THEN r ELSE result[x]
  BY <1>0, <1>2
<1> QED
  BY <1>0, <1>1, <1>3, <1>4, <1>5, <1>6, EmptyAnswers

LEMMA PageClosesInv ==
    ASSUME PageInv, NEW p \in Page, PageCloses(p) PROVE PageInv'
<1>0. exec \in [Exec -> ExecState] /\ result \in [Exec -> Results]
      /\ stdout \in [Page -> Exec \cup {Real}]
  BY PageTypes DEF PageInv
<1> DEFINE r == [code |-> "gone", out |-> {}]
           ended(e) == [exec[e] EXCEPT !.at = "ended"]
<1>1. r \in Results /\ r.code = "gone" /\ r.out = {}
  BY DEF Results
<1>2. ASSUME NEW e \in Exec
      PROVE  /\ ended(e) \in ExecState /\ ended(e).at = "ended" /\ ended(e).page = exec[e].page
             /\ ended(e).printed = exec[e].printed /\ ended(e).mixed = exec[e].mixed
  BY <1>0 DEF ExecState
<1>3. /\ exec' = [e \in Exec |-> IF e \in Inside(p) THEN ended(e) ELSE exec[e]]
      /\ result' = [e \in Exec |-> IF e \in Inside(p) /\ result[e] = Pending
                                   THEN r ELSE result[e]]
      /\ stdout' = [stdout EXCEPT ![p] = Real] /\ text' = text
  BY DEF PageCloses
<1> HIDE DEF r, ended
<1>4. exec' \in [Exec -> ExecState] /\ result' \in [Exec -> Results]
  BY <1>0, <1>1, <1>2, <1>3
<1>5. \A e \in Exec : e \in Inside(p) <=>
                        exec[e].page = p /\ exec[e].at \in {"turn", "awaiting"}
  BY DEF Inside
<1>6. ASSUME NEW e \in Exec
      PROVE  /\ exec'[e] = IF e \in Inside(p) THEN ended(e) ELSE exec[e]
             /\ result'[e] = result[e] \/ (e \in Inside(p) /\ result'[e] = r)
  <2>1. exec'[e] = IF e \in Inside(p) THEN ended(e) ELSE exec[e]
    BY <1>3
  <2>2. result'[e] = IF e \in Inside(p) /\ result[e] = Pending THEN r ELSE result[e]
    BY <1>3
  <2> QED
    BY <2>1, <2>2
<1>7. \A e \in Exec :
        /\ exec'[e].page = exec[e].page /\ exec'[e].printed = exec[e].printed
        /\ exec'[e].mixed = exec[e].mixed
        /\ e \in Inside(p) => exec'[e].at = "ended"
        /\ e \notin Inside(p) => exec'[e].at = exec[e].at
  BY <1>2, <1>6
<1>8. /\ stdout' \in [Page -> Exec \cup {Real}]
      /\ \A q \in Page : stdout'[q] = IF q = p THEN Real ELSE stdout[q]
  BY <1>0, <1>3
<1>9. Inside(p)' = {} /\ \A q \in Page : q # p => Inside(q)' = Inside(q)
  BY <1>5, <1>7 DEF Inside
<1> QED
  BY <1>1, <1>3, <1>4, <1>5, <1>6, <1>7, <1>8, <1>9, EmptyAnswers

-----------------------------------------------------------------------------
(* Commands on the connections. *)

USE DEF Conns

(* Connection c becomes r, the others stay as they are. *)
ConnBecomes(c, r) ==
    /\ r \in Connections /\ conn' \in Seq(Connections) /\ DOMAIN conn' = DOMAIN conn
    /\ conn'[c] = r
    /\ \A d \in DOMAIN conn : d # c => conn'[d] = conn[d]

LEMMA ConnChanges ==
    ASSUME ChannelInv, NEW c \in Conns, NEW r \in Connections,
           conn' = [conn EXCEPT ![c] = r]
    PROVE  ConnBecomes(c, r)
<1>1. conn \in Seq(Connections)
  BY DEF ChannelInv, ChannelTypeOK
<1> QED
  BY <1>1, ExceptSeq DEF ConnBecomes

(* Task t comes to m, the others stay as they are. *)
TaskBecomes(t, m) ==
    /\ m \in CommandStates /\ command' \in [Task -> CommandStates]
    /\ command'[t] = m
    /\ \A u \in Task : u # t => command'[u] = command[u]

LEMMA TaskChanges ==
    ASSUME ChannelInv, NEW t \in Task, NEW m \in CommandStates,
           command' = [command EXCEPT ![t] = m]
    PROVE  TaskBecomes(t, m)
BY DEF ChannelInv, ChannelTypeOK, TaskBecomes

Number(t, m) == [task |-> t, number |-> m.number]

(* What TasksFit says of one task and its connection. *)
TaskFits(t, c) ==
    /\ command[t].at \in {"greeting", "waiting", "done"} =>
           c \in Conns /\ command[t].number # 0
    /\ command[t].at = "greeting" =>
           /\ command[t].kind \in Kinds /\ c # kept /\ ~conn[c].skewed
           /\ conn[c].up = <<>> /\ conn[c].serving = NoCommand
           /\ conn[c].down = <<Greeting>>
    /\ command[t].at = "waiting" /\ ~conn[c].skewed => Carries(conn[c], Id(t))
    /\ \A u \in Task : u # t /\ Uses(t, c) /\ Uses(u, c) => conn[c].skewed

LEMMA TasksFitEach ==
    TasksFit <=> \A t \in Task : TaskFits(t, command[t].on)
BY DEF TasksFit, TaskFits

(* A step of a connection, not of a task: what the connection carries for  *)
(* a command it still does, and nothing comes to one that is at rest.      *)
LEMMA HandlerInv ==
    ASSUME ChannelInv, NEW c \in Conns, NEW r, ConnBecomes(c, r),
           kept' \in {0, kept}, UNCHANGED <<native, command>>,
           session' \in {"open", "closed"}, closed' \in BOOLEAN,
           r.skewed = conn[c].skewed, r.client \in {conn[c].client, "closed"},
           r.handler \in {conn[c].handler, "ended"},
           conn[c].up = <<>> /\ conn[c].serving = NoCommand =>
               r.up = <<>> /\ r.serving = NoCommand /\ r.down = conn[c].down,
           \A id \in Numbers : Carries(conn[c], id) => Carries(r, id)
    PROVE  ChannelInv'
<1>1. ChannelTypeOK'
  BY DEF ChannelInv, ChannelTypeOK, ConnBecomes
<1>2. ConnsFit'
  BY DEF ChannelInv, ConnsFit, ConnBecomes, Quiet, Uses
<1>3. TasksFit'
  <2> SUFFICES ASSUME NEW t \in Task PROVE TaskFits(t, command[t].on)'
    BY DEF TasksFit, TaskFits
  <2>1. TaskFits(t, command[t].on)
    BY TasksFitEach DEF ChannelInv
  <2>2. Id(t) \in Numbers /\ Id(t)' = Id(t)
    BY DEF ChannelInv, ChannelTypeOK, CommandStates, Id, Numbers
  <2> QED
    BY <2>1, <2>2 DEF TaskFits, ConnBecomes, Uses
<1>4. OwnAnswer'
  <2> SUFFICES ASSUME NEW t \in Task, command[t].at = "done"
               PROVE /\ native => \/ conn'[command[t].on].skewed
                                 \/ command[t].got = Frame("answer", Id(t)')
                     /\ ~native => command[t].got.of = Id(t)'
    BY DEF OwnAnswer
  <2>1. command[t].on \in Conns /\ Id(t)' = Id(t)
    BY DEF ChannelInv, TasksFit, Id
  <2> QED
    BY <2>1 DEF ChannelInv, OwnAnswer, ConnBecomes
<1> QED
  BY <1>1, <1>2, <1>3, <1>4 DEF ChannelInv

(* A step of task t on connection c. *)
LEMMA ClientInv ==
    ASSUME ChannelInv, NEW c \in Conns, NEW r, ConnBecomes(c, r),
           NEW t \in Task, NEW m, TaskBecomes(t, m),
           UNCHANGED <<native, session, closed>>, kept' \in {kept, c},
           ~native => ~r.skewed /\ kept' = 0,
           native /\ conn[c].skewed => r.skewed,
           \A u \in Task : u # t /\ Uses(u, c) =>
               /\ command[u].at = "waiting"
               /\ r.skewed \/ (r = conn[c] /\ m.at = "failed"),
           command[t].at \in {"greeting", "waiting"} => command[t].on = c,
           m.at \in {"waiting", "done", "failed"},
           m.at \in {"waiting", "done"} => m.on = c /\ m.number # 0,
           m.at = "waiting" /\ ~r.skewed => Carries(r, Number(t, m)),
           m.at = "done" =>
               /\ native => r.skewed \/ m.got = Frame("answer", Number(t, m))
               /\ ~native => m.got.of = Number(t, m),
           /\ ~r.skewed /\ r.client = "open" /\ r.handler = "running"
           /\ m.at # "waiting" /\ \A u \in Task : u # t => ~Uses(u, c)
           => Quiet(r)
    PROVE  ChannelInv'
<1>1. ChannelTypeOK'
  BY DEF ChannelInv, ChannelTypeOK, ConnBecomes, TaskBecomes
<1>2. ConnsFit'
  <2>1. ~native => kept' = 0 /\ \A d \in Conns : ~conn'[d].skewed
    BY DEF ChannelInv, ConnsFit, ConnBecomes
  <2>2. ASSUME NEW d \in Conns,
               ~conn'[d].skewed, conn'[d].client = "open", conn'[d].handler = "running",
               \A u \in Task : ~(command'[u].on = d /\ command'[u].at \in {"greeting", "waiting"})
        PROVE  Quiet(conn'[d])
    <3>1. CASE d = c
      BY <2>2, <3>1 DEF ConnBecomes, TaskBecomes, Uses
    <3>2. CASE d # c
      <4>1. \A u \in Task : ~Uses(u, d)
        BY <2>2, <3>2 DEF TaskBecomes, Uses
      <4> QED
        BY <2>2, <3>2, <4>1 DEF ChannelInv, ConnsFit, ConnBecomes
    <3> QED
      BY <3>1, <3>2
  <2> QED
    BY <2>1, <2>2 DEF ConnsFit, ConnBecomes, Uses, Quiet
<1>3. TasksFit'
  <2>1. TaskFits(t, command[t].on)'
    BY DEF TaskFits, ConnBecomes, TaskBecomes, Uses, Id, Number
  <2>2. ASSUME NEW x \in Task, x # t PROVE TaskFits(x, command[x].on)'
    <3>1. TaskFits(x, command[x].on) /\ command'[x] = command[x] /\ Id(x)' = Id(x)
      BY <2>2, TasksFitEach DEF ChannelInv, TaskBecomes, Id
    <3>2. CASE command[x].on = c
      BY <2>2, <3>1, <3>2 DEF TaskFits, ConnBecomes, TaskBecomes, Uses
    <3>3. CASE command[x].on # c
      BY <2>2, <3>1, <3>3 DEF TaskFits, ConnBecomes, TaskBecomes, Uses
    <3> QED
      BY <3>2, <3>3
  <2>3. \A x \in Task : TaskFits(x, command[x].on)'
    BY <2>1, <2>2
  <2> QED
    BY <2>3 DEF TasksFit, TaskFits
<1>4. OwnAnswer'
  <2> SUFFICES ASSUME NEW x \in Task, command'[x].at = "done"
               PROVE /\ native => \/ conn'[command'[x].on].skewed
                                 \/ command'[x].got = Frame("answer", Id(x)')
                     /\ ~native => command'[x].got.of = Id(x)'
    BY DEF OwnAnswer
  <2>1. CASE x = t
    BY <2>1 DEF ConnBecomes, TaskBecomes, Id, Number
  <2>2. CASE x # t
    <3>1. command'[x] = command[x] /\ Id(x)' = Id(x) /\ command[x].on \in Conns
      BY <2>2 DEF TaskBecomes, Id, ChannelInv, TasksFit
    <3> QED
      BY <2>2, <3>1 DEF ChannelInv, OwnAnswer, ConnBecomes
  <2> QED
    BY <2>1, <2>2
<1> QED
  BY <1>1, <1>2, <1>3, <1>4 DEF ChannelInv

-----------------------------------------------------------------------------
(* Steps of the handlers. *)

(* The record of a connection, field by field. *)
LEMMA ConnectionFields ==
    ASSUME ChannelInv, NEW c \in Conns
    PROVE  /\ conn[c] \in Connections
           /\ conn[c].client \in {"open", "closed"}
           /\ conn[c].handler \in {"running", "ended"}
           /\ conn[c].up \in Seq(Commands) /\ conn[c].down \in Seq(Frames)
           /\ conn[c].serving \in Commands \cup {NoCommand}
           /\ conn[c].progress \in Nat /\ conn[c].skewed \in BOOLEAN
<1>1. conn[c] \in Connections
  BY ElementOfSeq DEF ChannelInv, ChannelTypeOK
<1> QED
  BY <1>1 DEF Connections

LEMMA CommandNumbers ==
    ASSUME NEW s \in Commands PROVE Sender(s) \in Numbers /\ s # NoCommand
<1>1. s.number # 0 /\ NoCommand.number = 0
  BY DEF Commands, NoCommand
<1> QED
  BY <1>1 DEF Commands, Numbers, Sender

LEMMA OnlyOne == \A n \in Nat \ {0} : n <= 1 => n = 1
OBVIOUS

LEMMA TakeCommandInv ==
    ASSUME ChannelInv, NEW c \in Conns, TakeCommand(c) PROVE ChannelInv'
<1> DEFINE s == Head(conn[c].up)
           r == [conn[c] EXCEPT !.serving = s, !.up = Tail(@)]
<1>0. /\ conn[c].serving = NoCommand /\ conn[c].up # <<>>
      /\ conn' = [conn EXCEPT ![c] = r]
      /\ UNCHANGED <<native, session, kept, closed, command>>
  BY DEF TakeCommand, Serve
<1>1. s \in Commands /\ Tail(conn[c].up) \in Seq(Commands)
  BY <1>0, ConnectionFields, HeadTailProperties
<1>2. /\ r \in Connections /\ r.client = conn[c].client /\ r.handler = conn[c].handler
      /\ r.up = Tail(conn[c].up) /\ r.down = conn[c].down /\ r.serving = s
      /\ r.skewed = conn[c].skewed
  BY <1>1, ConnectionFields DEF Connections
<1> HIDE DEF r, s
<1>3. ConnBecomes(c, r)
  BY <1>0, <1>2, ConnChanges
<1>4. ASSUME NEW id \in Numbers, Carries(conn[c], id) PROVE Carries(r, id)
  <2>1. Sender(s) = id /\ Tail(conn[c].up) = <<>>
    <3>1. conn[c].up \in Seq(Commands) /\ Len(conn[c].up) = 1
      <4>1. PICK up \in Seq(Commands) : up = conn[c].up
        BY ConnectionFields
      <4>2. up # <<>> /\ Len(up) <= 1
        BY <1>0, <1>4, <4>1 DEF Carries
      <4>3. Len(up) \in Nat \ {0}
        BY <4>2, EmptySeq
      <4>4. Len(up) = 1
        BY <4>2, <4>3, OnlyOne
      <4> QED
        BY <4>1, <4>4
    <3>2. s = conn[c].up[1] /\ 1 \in DOMAIN conn[c].up
      BY <3>1 DEF s
    <3>3. Sender(conn[c].up[1]) = id
      BY <1>4, <3>2 DEF Carries
    <3>4. Tail(conn[c].up) = <<>>
      <4>1. Tail(conn[c].up) \in Seq(Commands) /\ Len(Tail(conn[c].up)) = 0
        BY <1>0, <3>1, HeadTailProperties
      <4> QED
        BY <4>1, EmptySeq
    <3> QED
      BY <3>2, <3>3, <3>4
  <2>2. \A i \in DOMAIN conn[c].down : conn[c].down[i] = Frame("info", id)
    BY <1>0, <1>4 DEF Carries
  <2> QED
    BY <1>2, <2>1, <2>2 DEF Carries
<1> QED
  BY <1>0, <1>2, <1>3, <1>4, HandlerInv DEF ChannelInv, ChannelTypeOK

LEMMA ProgressInv ==
    ASSUME ChannelInv, NEW c \in Conns, Progress(c) PROVE ChannelInv'
<1> DEFINE f == Frame("info", Sender(conn[c].serving))
           down == IF conn[c].client = "open" THEN Append(conn[c].down, f) ELSE conn[c].down
           r == [conn[c] EXCEPT !.progress = @ + 1, !.down = down]
<1>0. /\ conn[c].serving # NoCommand /\ conn' = [conn EXCEPT ![c] = r]
      /\ UNCHANGED <<native, session, kept, closed, command>>
  BY DEF Progress, Serve, Sender
<1>1. f \in Frames
  BY <1>0, ConnectionFields, CommandNumbers DEF Frame, Frames
<1> HIDE DEF f
<1>2. down \in Seq(Frames)
  BY <1>1, ConnectionFields
<1> HIDE DEF down
<1>3. /\ r \in Connections /\ r.client = conn[c].client /\ r.handler = conn[c].handler
      /\ r.up = conn[c].up /\ r.down = down /\ r.serving = conn[c].serving
      /\ r.skewed = conn[c].skewed
  <2>1. conn[c].progress + 1 \in Nat
    BY ConnectionFields
  <2> QED
    BY <1>2, <2>1, ConnectionFields DEF Connections
<1> HIDE DEF r
<1>4. ConnBecomes(c, r)
  BY <1>0, <1>3, ConnChanges
<1>5. ASSUME NEW id \in Numbers, Carries(conn[c], id) PROVE Carries(r, id)
  <2>1. \A i \in DOMAIN conn[c].down : conn[c].down[i] = Frame("info", id)
    BY <1>0, <1>5 DEF Carries
  <2>2. f = Frame("info", id)
    BY <1>0, <1>5 DEF Carries, f
  <2>3. \A i \in DOMAIN down : down[i] = Frame("info", id)
    BY <1>1, <2>1, <2>2, ConnectionFields, AppendProperties DEF down
  <2> QED
    BY <1>0, <1>3, <1>5, <2>3 DEF Carries
<1> QED
  BY <1>0, <1>3, <1>4, <1>5, HandlerInv DEF ChannelInv, ChannelTypeOK

LEMMA ReplyInv ==
    ASSUME ChannelInv, NEW c \in Conns, Reply(c) PROVE ChannelInv'
<1> DEFINE s == conn[c].serving
           gone == conn[c].client = "closed"
           f == Frame("answer", Sender(s))
           down == IF gone THEN conn[c].down ELSE Append(conn[c].down, f)
           handler == IF gone \/ s.kind = "close" THEN "ended" ELSE conn[c].handler
           up == IF gone \/ s.kind = "close" THEN <<>> ELSE conn[c].up
           r == [conn[c] EXCEPT !.serving = NoCommand, !.progress = 0, !.handler = handler,
                                !.up = up, !.down = down]
<1>0. /\ s # NoCommand /\ conn' = [conn EXCEPT ![c] = r]
      /\ UNCHANGED <<native, session, kept, closed, command>>
  BY DEF Reply, Serve, Sender
<1>1. f \in Frames
  BY <1>0, ConnectionFields, CommandNumbers DEF Frame, Frames
<1> HIDE DEF f
<1>2. down \in Seq(Frames)
  BY <1>1, ConnectionFields
<1>3. /\ handler \in {"ended", conn[c].handler} /\ up \in {<<>>, conn[c].up}
      /\ handler \in {"running", "ended"} /\ up \in Seq(Commands)
  BY ConnectionFields, EmptySeq
<1> HIDE DEF down, handler, up
<1>4. /\ r \in Connections /\ r.client = conn[c].client /\ r.handler = handler
      /\ r.up = up /\ r.down = down /\ r.serving = NoCommand
      /\ r.skewed = conn[c].skewed
  BY <1>2, <1>3, ConnectionFields DEF Connections
<1> HIDE DEF r
<1>5. ConnBecomes(c, r)
  BY <1>0, <1>4, ConnChanges
<1>6. ASSUME NEW id \in Numbers, Carries(conn[c], id) PROVE Carries(r, id)
  <2>1. \A i \in DOMAIN conn[c].down : conn[c].down[i] = Frame("info", id)
    BY <1>0, <1>6 DEF Carries
  <2>2. f = Frame("answer", id) /\ up = <<>>
    BY <1>0, <1>3, <1>6 DEF Carries, f
  <2>3. \A i \in DOMAIN down :
            down[i] = Frame("info", id) \/ (down[i] = Frame("answer", id) /\ i = Len(down))
    BY <1>1, <2>1, <2>2, ConnectionFields, AppendProperties DEF down
  <2> QED
    BY <1>4, <2>2, <2>3 DEF Carries
<1> QED
  BY <1>0, <1>3, <1>4, <1>5, <1>6, HandlerInv DEF ChannelInv, ChannelTypeOK

LEMMA BreakInv ==
    ASSUME ChannelInv, NEW c \in Conns, Hangup(c) \/ Break(c) PROVE ChannelInv'
<1> DEFINE r == [conn[c] EXCEPT !.handler = "ended", !.serving = NoCommand, !.up = <<>>]
           h == [conn[c] EXCEPT !.handler = "ended", !.up = <<>>]
<1>0. /\ \/ conn' = [conn EXCEPT ![c] = r]
         \/ conn' = [conn EXCEPT ![c] = h] /\ conn[c].serving = NoCommand
      /\ UNCHANGED <<native, session, kept, closed, command>>
  <2>1. CASE Hangup(c)
    BY <2>1 DEF Hangup, Serve
  <2>2. CASE Break(c)
    BY <2>2 DEF Break, Serve
  <2> QED
    BY <2>1, <2>2
<1>1. /\ r \in Connections /\ r.client = conn[c].client /\ r.handler = "ended"
      /\ r.up = <<>> /\ r.down = conn[c].down /\ r.serving = NoCommand
      /\ r.skewed = conn[c].skewed
  BY ConnectionFields, EmptySeq DEF Connections
<1>2. conn[c].serving = NoCommand => h = r
  BY ConnectionFields DEF Connections
<1>3. conn' = [conn EXCEPT ![c] = r]
  BY <1>0, <1>2
<1> HIDE DEF r, h
<1>4. ConnBecomes(c, r)
  BY <1>1, <1>3, ConnChanges
<1>5. ASSUME NEW id \in Numbers, Carries(conn[c], id) PROVE Carries(r, id)
  BY <1>1, <1>5 DEF Carries
<1> QED
  BY <1>0, <1>1, <1>4, <1>5, HandlerInv DEF ChannelInv, ChannelTypeOK

LEMMA CloseInv ==
    ASSUME ChannelInv, CloseBrowser \/ CloseSession PROVE ChannelInv'
<1>1. CASE CloseSession
  BY <1>1 DEF CloseSession, ChannelInv, ChannelTypeOK, ConnsFit, TasksFit, OwnAnswer, Quiet,
     Carries, Uses, Id
<1>2. CASE CloseBrowser /\ kept = 0
  BY <1>2 DEF CloseBrowser, ChannelInv, ChannelTypeOK, ConnsFit, TasksFit, OwnAnswer, Quiet,
     Carries, Uses, Id
<1>3. CASE CloseBrowser /\ kept # 0
  <2> DEFINE r == [conn[kept] EXCEPT !.client = "closed"]
  <2>0. /\ kept \in Conns /\ conn' = [conn EXCEPT ![kept] = r] /\ kept' = 0 /\ closed' = TRUE
        /\ UNCHANGED <<native, session, command>>
    BY <1>3 DEF CloseBrowser, Shut, ChannelInv, ChannelTypeOK
  <2>1. /\ r \in Connections /\ r.client = "closed" /\ r.handler = conn[kept].handler
        /\ r.up = conn[kept].up /\ r.down = conn[kept].down
        /\ r.serving = conn[kept].serving /\ r.skewed = conn[kept].skewed
    BY <2>0, ConnectionFields DEF Connections
  <2> HIDE DEF r
  <2>2. ConnBecomes(kept, r)
    BY <2>0, <2>1, ConnChanges
  <2>3. ASSUME NEW id \in Numbers, Carries(conn[kept], id) PROVE Carries(r, id)
    BY <2>1, <2>3 DEF Carries
  <2> QED
    BY <2>0, <2>1, <2>2, <2>3, HandlerInv DEF ChannelInv, ChannelTypeOK
<1> QED
  BY <1>1, <1>2, <1>3

-----------------------------------------------------------------------------
(* Steps of the tasks. *)

LEMMA CommandFields ==
    ASSUME ChannelInv, NEW t \in Task
    PROVE  /\ command[t] \in CommandStates
           /\ command[t].number \in Nat /\ command[t].on \in Nat
           /\ command[t].got \in Frames /\ command[t].kind \in Kinds \cup {"none"}
BY DEF ChannelInv, ChannelTypeOK, CommandStates

(* What becomes of a connection when its client leaves it alone (native)   *)
(* or closes it (the bridge).                                              *)
LEMMA EndedFields ==
    ASSUME NEW r \in Connections
    PROVE  /\ Ended(r) \in Connections
           /\ native => Ended(r) = r
           /\ ~native => Ended(r).client = "closed" /\ ~Ended(r).skewed
<1>1. <<>> \in Seq(Frames)
  BY EmptySeq
<1> DEFINE e == [[r EXCEPT !.client = "closed"] EXCEPT !.down = <<>>, !.skewed = FALSE]
<1>2. e \in Connections /\ e.client = "closed" /\ ~e.skewed
  BY <1>1 DEF Connections
<1>3. Ended(r) = IF native THEN r ELSE e
  BY DEF Ended, Shut
<1> HIDE DEF e
<1> QED
  BY <1>2, <1>3

(* The users of a connection that is not skewed exclude each other. *)
LEMMA UsersApart ==
    ASSUME ChannelInv, NEW t \in Task, NEW u \in Task, NEW c, t # u, Uses(t, c), Uses(u, c)
    PROVE  /\ c \in Conns /\ conn[c].skewed /\ native
           /\ command[t].at = "waiting" /\ command[u].at = "waiting"
<1>1. TaskFits(t, c) /\ TaskFits(u, c)
  BY TasksFitEach DEF ChannelInv, Uses
<1> QED
  BY <1>1 DEF TaskFits, Uses, ChannelInv, ConnsFit

(* A task that ends its command without an answer. *)
LEMMA FailsInv ==
    ASSUME ChannelInv, NEW t \in Task, NEW c \in Conns, command[t].on = c,
           command[t].at \in {"greeting", "waiting"},
           command' = [command EXCEPT ![t].at = "failed", ![t].kind = "none"],
           UNCHANGED <<native, session, kept, closed>>,
           NEW now \in Connections, conn' = [conn EXCEPT ![c] = Ended(now)],
           native => \/ now.skewed
                     \/ now = conn[c] /\ (now.handler = "ended" \/ now.client = "closed")
    PROVE  ChannelInv'
<1> DEFINE m == [command[t] EXCEPT !.at = "failed", !.kind = "none"]
<1>1. m \in CommandStates /\ m.at = "failed"
  BY CommandFields DEF CommandStates
<1>2. command' = [command EXCEPT ![t] = m]
  OBVIOUS
<1> HIDE DEF m
<1>3. TaskBecomes(t, m)
  BY <1>1, <1>2, TaskChanges
<1>4. PICK r \in Connections :
        /\ r = Ended(now)
        /\ native => r = now
        /\ ~native => r.client = "closed" /\ ~r.skewed
  BY EndedFields
<1>5. ConnBecomes(c, r)
  BY <1>4, ConnChanges
<1>6. \A u \in Task : u # t /\ Uses(u, c) => native /\ command[u].at = "waiting"
  BY UsersApart DEF Uses
<1>7. ~native => kept' = 0
  BY DEF ChannelInv, ConnsFit
<1> QED
  BY <1>1, <1>3, <1>4, <1>5, <1>6, <1>7, ClientInv

LEMMA DroppedInv ==
    ASSUME ChannelInv, NEW t \in Task, Dropped(t) PROVE ChannelInv'
<1>1. PICK c \in Conns : c = command[t].on
  BY DEF Dropped, ChannelInv, TasksFit
<1>2. conn' = [conn EXCEPT ![c] = Ended(conn[c])]
  BY <1>1 DEF Dropped
<1>3. conn[c] \in Connections
  BY ConnectionFields
<1> QED
  BY <1>1, <1>2, <1>3, FailsInv DEF Dropped

LEMMA TimesOutInv ==
    ASSUME ChannelInv, NEW t \in Task, TimesOut(t) PROVE ChannelInv'
<1>1. PICK c \in Conns : c = command[t].on
  BY DEF TimesOut, ChannelInv, TasksFit
<1> DEFINE now == [conn[c] EXCEPT !.skewed = TRUE]
<1>2. conn' = [conn EXCEPT ![c] = Ended(now)]
  BY <1>1 DEF TimesOut
<1>3. now \in Connections /\ now.skewed
  BY ConnectionFields DEF Connections
<1> HIDE DEF now
<1> QED
  BY <1>1, <1>2, <1>3, FailsInv DEF TimesOut

LEMMA ReceiveInv ==
    ASSUME ChannelInv, NEW t \in Task, Receive(t) PROVE ChannelInv'
<1>0. command[t].at = "waiting" /\ UNCHANGED <<native, session, kept, closed>>
  BY DEF Receive
<1>1. PICK c \in Conns : c = command[t].on /\ command[t].number # 0
  BY <1>0 DEF ChannelInv, TasksFit
<1>2. PICK down \in Seq(Frames) : down = conn[c].down /\ down # <<>>
  BY <1>1, ConnectionFields DEF Receive, Taken
<1>3. PICK next \in Frames : next = Head(down) /\ next = down[1]
  BY <1>2, HeadTailProperties
<1>4. /\ Tail(down) \in Seq(Frames) /\ Len(Tail(down)) = Len(down) - 1
      /\ Len(down) \in Nat \ {0} /\ 1 \in DOMAIN down
  BY <1>2, HeadTailProperties, EmptySeq, LenProperties
<1>5. PICK skewed \in BOOLEAN : skewed <=> conn[c].skewed \/ next.type = "info"
  OBVIOUS
<1> DEFINE now == [conn[c] EXCEPT !.down = Tail(down), !.skewed = skewed]
           m == [command[t] EXCEPT !.at = "done", !.got = next]
<1>6. /\ now \in Connections /\ now.down = Tail(down) /\ now.skewed = skewed
      /\ now.up = conn[c].up /\ now.serving = conn[c].serving
  BY <1>4, ConnectionFields DEF Connections
<1>7. conn' = [conn EXCEPT ![c] = Ended(now)]
  <2>1. skewed = (conn[c].skewed \/ next.type = "info")
    BY <1>5, ConnectionFields
  <2> QED
    BY <1>1, <1>2, <1>3, <2>1 DEF Receive, Taken
<1>8. /\ m \in CommandStates /\ m.at = "done" /\ m.on = c /\ m.got = next
      /\ m.number = command[t].number
  BY <1>1, CommandFields DEF CommandStates
<1>9. command' = [command EXCEPT ![t] = m]
  BY <1>1, <1>2, <1>3 DEF Receive, Taken
<1> HIDE DEF now, m
<1>10. TaskBecomes(t, m)
  BY <1>8, <1>9, TaskChanges
<1>11. PICK r \in Connections :
        /\ r = Ended(now)
        /\ native => r = now
        /\ ~native => r.client = "closed" /\ ~r.skewed
  BY <1>6, EndedFields
<1>12. ConnBecomes(c, r)
  BY <1>7, <1>11, ConnChanges
<1>13. \A u \in Task : u # t /\ Uses(u, c) =>
         native /\ command[u].at = "waiting" /\ conn[c].skewed
  BY <1>0, <1>1, UsersApart DEF Uses
<1>14. ~native => kept' = 0 /\ ~conn[c].skewed
  BY <1>0 DEF ChannelInv, ConnsFit
<1>15. ~conn[c].skewed =>
         \/ next = Frame("info", Id(t))
         \/ /\ next = Frame("answer", Id(t))
            /\ 1 = Len(down) /\ conn[c].up = <<>> /\ conn[c].serving = NoCommand
  <2>1. ~conn[c].skewed => Carries(conn[c], Id(t))
    BY <1>0, <1>1 DEF ChannelInv, TasksFit
  <2> QED
    BY <1>2, <1>3, <1>4, <2>1 DEF Carries
<1>16. Number(t, m) = Id(t) /\ \A type, id : Frame(type, id).of = id /\ Frame(type, id).type = type
  BY <1>8 DEF Number, Id, Frame
<1>17. native /\ ~r.skewed => Quiet(r) /\ next = Frame("answer", Id(t))
  <2> SUFFICES ASSUME native, ~r.skewed PROVE Quiet(r) /\ next = Frame("answer", Id(t))
    OBVIOUS
  <2>1. ~conn[c].skewed /\ next.type # "info" /\ r = now
    BY <1>5, <1>6, <1>11
  <2>2. /\ next = Frame("answer", Id(t)) /\ Len(down) = 1
        /\ conn[c].up = <<>> /\ conn[c].serving = NoCommand
    BY <1>15, <1>16, <2>1
  <2>3. Tail(down) = <<>>
    <3>1. Len(Tail(down)) = 0
      BY <1>4, <2>2
    <3> QED
      BY <1>4, <3>1, EmptySeq
  <2> QED
    BY <1>6, <2>1, <2>2, <2>3 DEF Quiet
<1>18. native /\ conn[c].skewed => r.skewed
  BY <1>5, <1>6, <1>11
<1>19. ~native => m.got.of = Number(t, m)
  BY <1>8, <1>14, <1>15, <1>16
<1>20. native => r.skewed \/ m.got = Frame("answer", Number(t, m))
  BY <1>8, <1>16, <1>17
<1> QED
  BY <1>0, <1>1, <1>8, <1>10, <1>11, <1>12, <1>13, <1>14, <1>17, <1>18, <1>19, <1>20, ClientInv

(* Command m of task t is sent on connection c, which is fresh or kept.    *)
LEMMA TransmittedInv ==
    ASSUME ChannelInv, NEW t \in Task, NEW c \in Conns, NEW s \in CommandStates,
           Transmitted(t, c, s), UNCHANGED <<native, session, closed>>,
           kept' \in {kept, c}, ~native => kept' = 0, s.number # 0,
           s.kind \in Kinds,
           \/ s = command[t] /\ s.at = "greeting" /\ s.on = c
           \/ native /\ kept = c /\ Idle(t) /\ s.at \in {"idle", "failed", "done"}
    PROVE  ChannelInv'
<1>1. PICK down \in Seq(Frames) : down = IF s.at = "greeting" THEN Tail(conn[c].down) ELSE conn[c].down
  <2>1. s.at = "greeting" => conn[c].down = <<Greeting>>
    BY DEF ChannelInv, TasksFit
  <2>2. Tail(<<Greeting>>) \in Seq(Frames)
    <3>1. Tail(<<Greeting>>) = <<>>
      OBVIOUS
    <3> QED
      BY <3>1, EmptySeq
  <2> QED
    BY <2>1, <2>2, ConnectionFields
<1>2. PICK busy \in BOOLEAN : busy <=> Receiving(c) \ {t} # {}
  OBVIOUS
<1> DEFINE now == [conn[c] EXCEPT !.down = down]
<1>3. /\ now \in Connections /\ now.down = down
      /\ now.client = conn[c].client /\ now.handler = conn[c].handler
      /\ now.up = conn[c].up /\ now.serving = conn[c].serving /\ now.skewed = conn[c].skewed
  BY ConnectionFields DEF Connections
<1>4. s.at # "greeting" => now = conn[c]
  BY <1>1, ConnectionFields DEF Connections
<1>5. now = [conn[c] EXCEPT !.down = IF s.at = "greeting" THEN Tail(@) ELSE @]
  BY <1>1
<1>6. busy = (Receiving(c) \ {t} # {})
  BY <1>2
<1> HIDE DEF now
<1>7. \A u \in Task : u # t /\ Uses(u, c) => command[u].at = "waiting" /\ busy /\ native
  <2>1. ASSUME NEW u \in Task, u # t, Uses(u, c)
        PROVE  command[u].at = "waiting" /\ native
    <3>1. CASE s = command[t] /\ s.at = "greeting" /\ s.on = c
      BY <2>1, <3>1, UsersApart DEF Uses
    <3>2. CASE native /\ kept = c
      BY <2>1, <3>2 DEF ChannelInv, TasksFit, Uses
    <3> QED
      BY <3>1, <3>2
  <2> QED
    BY <1>2, <2>1 DEF Receiving, Uses
<1>8. s.at = "greeting" => ~conn[c].skewed /\ ~busy
  <2> SUFFICES ASSUME s.at = "greeting" PROVE ~conn[c].skewed /\ ~busy
    OBVIOUS
  <2>1. s = command[t] /\ s.on = c
    OBVIOUS
  <2>2. ~conn[c].skewed
    BY <2>1 DEF ChannelInv, TasksFit
  <2>3. \A u \in Task : u # t => ~Uses(u, c)
    BY <2>1, <2>2, UsersApart DEF Uses
  <2> QED
    BY <1>2, <2>2, <2>3 DEF Receiving, Uses
<1>9. ~native => ~conn[c].skewed
  BY DEF ChannelInv, ConnsFit
<1>10. command[t].at \in {"greeting", "waiting"} => command[t].on = c
  BY DEF Idle
<1>11. CASE now.handler = "ended" \/ now.client = "closed"
  <2> DEFINE m == [s EXCEPT !.at = "failed", !.kind = "none"]
  <2>1. m \in CommandStates /\ m.at = "failed"
    BY DEF CommandStates
  <2>2. command' = [command EXCEPT ![t] = m] /\ conn' = [conn EXCEPT ![c] = Ended(now)]
    BY <1>5, <1>11 DEF Transmitted
  <2> HIDE DEF m
  <2>3. TaskBecomes(t, m)
    BY <2>1, <2>2, TaskChanges
  <2>4. PICK r \in Connections :
          /\ r = Ended(now)
          /\ native => r = now
          /\ ~native => r.client = "closed" /\ ~r.skewed
    BY <1>3, EndedFields
  <2>5. ConnBecomes(c, r)
    BY <2>2, <2>4, ConnChanges
  <2>6. \A u \in Task : u # t /\ Uses(u, c) => command[u].at = "waiting" /\ r = conn[c]
    BY <1>4, <1>7, <1>8, <2>4
  <2>7. native /\ conn[c].skewed => r.skewed
    BY <1>3, <2>4
  <2>8. r.client = "closed" \/ r.handler = "ended"
    BY <1>11, <2>4
  <2> QED
    BY <1>10, <2>1, <2>3, <2>4, <2>5, <2>6, <2>7, <2>8, ClientInv
<1>12. CASE ~(now.handler = "ended" \/ now.client = "closed")
  <2>1. PICK skewed \in BOOLEAN : skewed <=> now.skewed \/ busy
    OBVIOUS
  <2> DEFINE cmd == [task |-> t, number |-> s.number, kind |-> s.kind]
             r == [now EXCEPT !.up = Append(@, cmd), !.skewed = skewed]
             m == [s EXCEPT !.at = IF busy THEN "failed" ELSE "waiting", !.on = c, !.kind = "none"]
  <2>2. cmd \in Commands /\ Sender(cmd) = [task |-> t, number |-> s.number]
    BY DEF Commands, CommandStates, Sender, ChannelInv, TasksFit
  <2>3. /\ m \in CommandStates /\ m.at = (IF busy THEN "failed" ELSE "waiting")
        /\ m.on = c /\ m.number = s.number
    <3>1. c \in Nat
      BY LenProperties DEF ChannelInv, ChannelTypeOK
    <3>2. PICK at \in {"failed", "waiting"} : at = IF busy THEN "failed" ELSE "waiting"
      OBVIOUS
    <3> QED
      BY <3>1, <3>2 DEF CommandStates
  <2>4. command' = [command EXCEPT ![t] = m] /\ conn' = [conn EXCEPT ![c] = r]
    <3>1. skewed = (now.skewed \/ busy)
      BY <1>3, <2>1, ConnectionFields
    <3> QED
      BY <1>5, <1>6, <1>12, <3>1 DEF Transmitted
  <2> HIDE DEF cmd, m
  <2>5. now.up \in Seq(Commands) /\ Append(now.up, cmd) \in Seq(Commands)
    BY <1>3, <2>2, ConnectionFields, AppendProperties
  <2>6. /\ r \in Connections /\ r.up = Append(now.up, cmd) /\ r.skewed = skewed
        /\ r.down = down /\ r.serving = conn[c].serving
    BY <1>3, <2>5 DEF Connections
  <2> HIDE DEF r
  <2>7. TaskBecomes(t, m)
    BY <2>3, <2>4, TaskChanges
  <2>8. ConnBecomes(c, r)
    BY <2>4, <2>6, ConnChanges
  <2>9. ~r.skewed => ~busy /\ ~conn[c].skewed
    BY <1>3, <2>1, <2>6
  <2>10. ~native => ~r.skewed
    BY <1>3, <1>8, <1>9, <2>1, <2>6
  <2>11. \A u \in Task : u # t /\ Uses(u, c) => command[u].at = "waiting" /\ r.skewed
    BY <1>7, <2>9
  <2>12. native /\ conn[c].skewed => r.skewed
    BY <2>9
  <2>13. ~r.skewed => m.at = "waiting" /\ Carries(r, Number(t, m))
    <3> SUFFICES ASSUME ~r.skewed PROVE m.at = "waiting" /\ Carries(r, Number(t, m))
      OBVIOUS
    <3>1. conn[c].up = <<>> /\ conn[c].serving = NoCommand /\ down = <<>>
      <4>1. CASE s = command[t] /\ s.at = "greeting" /\ s.on = c
        <5>1. /\ conn[c].up = <<>> /\ conn[c].serving = NoCommand
              /\ conn[c].down = <<Greeting>>
          BY <4>1 DEF ChannelInv, TasksFit
        <5>2. Tail(<<Greeting>>) = <<>>
          OBVIOUS
        <5> QED
          BY <1>1, <4>1, <5>1, <5>2
      <4>2. CASE native /\ Idle(t) /\ s.at \in {"idle", "failed", "done"}
        <5>1. \A u \in Task : ~Uses(u, c)
          BY <1>7, <2>9, <4>2 DEF Uses, Idle
        <5>2. conn[c].client = "open" /\ conn[c].handler = "running"
          BY <1>3, <1>12, ConnectionFields
        <5>3. Quiet(conn[c])
          BY <2>9, <5>1, <5>2 DEF ChannelInv, ConnsFit
        <5> QED
          BY <1>1, <4>2, <5>3 DEF Quiet
      <4> QED
        BY <4>1, <4>2
    <3>2. r.up = <<cmd>>
      BY <1>3, <2>6, <3>1
    <3>3. Len(r.up) = 1 /\ DOMAIN r.up = {1} /\ r.up[1] = cmd
      BY <3>2
    <3>4. Sender(cmd) = Number(t, m)
      BY <2>2, <2>3 DEF Number
    <3>5. DOMAIN r.down = {}
      BY <2>6, <3>1
    <3> QED
      BY <2>3, <2>6, <2>9, <3>1, <3>3, <3>4, <3>5 DEF Carries
  <2> QED
    BY <1>10, <2>3, <2>6, <2>7, <2>8, <2>10, <2>11, <2>12, <2>13, ClientInv
<1> QED
  BY <1>11, <1>12

LEMMA GreetedInv ==
    ASSUME ChannelInv, NEW t \in Task, Greeted(t) PROVE ChannelInv'
<1>1. PICK c \in Conns : c = command[t].on /\ command[t].number # 0
  BY DEF Greeted, ChannelInv, TasksFit
<1>2. PICK s \in CommandStates :
        s = command[t] /\ s.at = "greeting" /\ s.on = c /\ s.kind \in Kinds
  BY <1>1, CommandFields DEF Greeted, ChannelInv, TasksFit
<1>3. kept' \in {kept, c} /\ (~native => kept' = 0)
  BY <1>1 DEF Greeted, ChannelInv, ConnsFit
<1> QED
  BY <1>1, <1>2, <1>3, TransmittedInv DEF Greeted

(* The record of a task that begins a command of kind k. *)
LEMMA NumberedFields ==
    ASSUME ChannelInv, NEW t \in Task, NEW k \in Kinds \cup {"none"}
    PROVE  LET s == Numbered(t, k)
           IN  /\ s \in CommandStates /\ s.at = command[t].at /\ s.kind = k
               /\ s.number = command[t].number + 1 /\ s.number # 0
<1>1. Greeting \in Frames
  BY DEF Greeting, Frame, Frames, NoCommand, Numbers
<1>2. command[t].number + 1 \in Nat /\ command[t].number + 1 # 0
  BY CommandFields
<1> HIDE DEF Greeting
<1> QED
  BY <1>1, <1>2, CommandFields DEF Numbered, CommandStates

LEMMA ReuseInv ==
    ASSUME ChannelInv, NEW t \in Task, NEW k \in Kinds, Reuse(t, k) PROVE ChannelInv'
<1>1. PICK c \in Conns : c = kept
  BY DEF Reuse, ChannelInv, ChannelTypeOK
<1>2. PICK s \in CommandStates :
        /\ s = Numbered(t, k) /\ s.at = command[t].at /\ s.kind = k /\ s.number # 0
  BY NumberedFields
<1>3. Idle(t) /\ native
  BY DEF Reuse, MayCommand
<1> QED
  BY <1>1, <1>2, <1>3, TransmittedInv DEF Reuse, Idle

LEMMA ConnectInv ==
    ASSUME ChannelInv, NEW t \in Task, NEW k \in Kinds, Connect(t, k) PROVE ChannelInv'
<1>0. /\ UNCHANGED <<native, session, kept, closed>> /\ Idle(t)
      /\ conn \in Seq(Connections) /\ session \in {"open", "closed"}
  BY DEF Connect, MayCommand, ChannelInv, ChannelTypeOK
<1>1. CASE /\ conn' = Append(conn, Opened)
           /\ command' = [command EXCEPT ![t] =
                 [Numbered(t, k) EXCEPT !.at = "greeting", !.on = Len(conn) + 1]]
  <2> DEFINE new == Len(conn) + 1
             m == [Numbered(t, k) EXCEPT !.at = "greeting", !.on = new]
  <2>1. Len(conn) \in Nat /\ DOMAIN conn = 1 .. Len(conn)
    BY <1>0, LenProperties
  <2>2. /\ m \in CommandStates /\ m.at = "greeting" /\ m.on = new /\ m.kind = k
        /\ m.number # 0
    <3>1. PICK s \in CommandStates : s = Numbered(t, k) /\ s.kind = k /\ s.number # 0
      BY NumberedFields
    <3>2. new \in Nat
      BY <2>1
    <3> HIDE DEF new
    <3> QED
      BY <3>1, <3>2 DEF CommandStates
  <2>3. command' = [command EXCEPT ![t] = m]
    BY <1>1
  <2> HIDE DEF m
  <2>4. TaskBecomes(t, m)
    BY <2>2, <2>3, TaskChanges
  <2>5. /\ Opened \in Connections /\ Opened.up = <<>> /\ Opened.serving = NoCommand
        /\ Opened.down = <<Greeting>> /\ ~Opened.skewed
    <3>1. Greeting \in Frames
      BY DEF Greeting, Frame, Frames, NoCommand, Numbers
    <3>2. <<>> \in Seq(Commands) /\ <<Greeting>> \in Seq(Frames)
      BY <3>1, EmptySeq
    <3> QED
      BY <1>0, <3>2 DEF Opened, Connections
  <2> HIDE DEF Opened
  <2>6. /\ conn' \in Seq(Connections) /\ Len(conn') = new
        /\ \A d \in DOMAIN conn : conn'[d] = conn[d]
        /\ conn'[new] = Opened
    BY <1>0, <1>1, <2>1, <2>5, AppendProperties
  <2>7. DOMAIN conn' = DOMAIN conn \cup {new} /\ new \notin DOMAIN conn /\ new # 0
    BY <2>1, <2>6, LenProperties
  <2> HIDE DEF new
  <2>8. ChannelTypeOK'
    BY <1>0, <2>4, <2>6, <2>7 DEF ChannelInv, ChannelTypeOK, TaskBecomes
  <2>9. \A u \in Task : u # t => ~Uses(u, new)
    BY <2>7 DEF ChannelInv, TasksFit, Uses
  <2>10. ConnsFit'
    <3>1. ASSUME NEW d \in DOMAIN conn,
                 ~conn'[d].skewed, conn'[d].client = "open", conn'[d].handler = "running",
                 \A u \in Task : ~(command'[u].on = d /\ command'[u].at \in {"greeting", "waiting"})
          PROVE  Quiet(conn'[d])
      <4>1. \A u \in Task : ~Uses(u, d)
        BY <1>0, <3>1, <2>4 DEF TaskBecomes, Uses, Idle
      <4> QED
        BY <2>6, <3>1, <4>1 DEF ChannelInv, ConnsFit
    <3>2. command'[t].on = new /\ command'[t].at = "greeting"
      BY <2>2, <2>4 DEF TaskBecomes
    <3>3. ~native => kept' = 0 /\ \A d \in DOMAIN conn' : ~conn'[d].skewed
      BY <1>0, <2>5, <2>6, <2>7 DEF ChannelInv, ConnsFit
    <3> QED
      BY <1>0, <2>7, <3>1, <3>2, <3>3 DEF ConnsFit, Uses, Quiet
  <2>11. TasksFit'
    <3>1. TaskFits(t, command[t].on)'
      BY <1>0, <2>2, <2>4, <2>5, <2>6, <2>7, <2>9
         DEF TaskFits, TaskBecomes, Uses, ChannelInv, ChannelTypeOK
    <3>2. ASSUME NEW u \in Task, u # t PROVE TaskFits(u, command[u].on)'
      <4>1. TaskFits(u, command[u].on) /\ command'[u] = command[u] /\ Id(u)' = Id(u)
        BY <2>4, <3>2, TasksFitEach DEF ChannelInv, TaskBecomes, Id
      <4>2. \A v \in Task : command[u].on # new =>
              (command'[v].on = command[u].on => command'[v] = command[v])
        BY <2>2, <2>4 DEF TaskBecomes
      <4> QED
        BY <1>0, <2>6, <2>7, <2>9, <3>2, <4>1, <4>2 DEF TaskFits, Uses
    <3>3. \A u \in Task : TaskFits(u, command[u].on)'
      BY <3>1, <3>2
    <3> QED
      BY <3>3 DEF TasksFit, TaskFits
  <2>12. OwnAnswer'
    <3> SUFFICES ASSUME NEW x \in Task, command'[x].at = "done"
                 PROVE /\ native => \/ conn'[command'[x].on].skewed
                                   \/ command'[x].got = Frame("answer", Id(x)')
                       /\ ~native => command'[x].got.of = Id(x)'
      BY <1>0 DEF OwnAnswer
    <3>1. command'[x] = command[x] /\ Id(x)' = Id(x) /\ command[x].on \in DOMAIN conn
      BY <2>2, <2>4 DEF TaskBecomes, Id, ChannelInv, TasksFit
    <3> QED
      BY <2>6, <3>1 DEF ChannelInv, OwnAnswer
  <2> QED
    BY <2>8, <2>10, <2>11, <2>12 DEF ChannelInv
<1>2. CASE /\ command' = [command EXCEPT ![t] = [Numbered(t, "none") EXCEPT !.at = "failed"]]
           /\ UNCHANGED conn
  <2> DEFINE m == [Numbered(t, "none") EXCEPT !.at = "failed"]
  <2>1. m \in CommandStates /\ m.at = "failed"
    BY NumberedFields DEF CommandStates
  <2>2. command' = [command EXCEPT ![t] = m]
    BY <1>2
  <2> HIDE DEF m
  <2>3. TaskBecomes(t, m)
    BY <2>1, <2>2, TaskChanges
  <2>4. ChannelTypeOK'
    BY <1>0, <1>2, <2>3 DEF ChannelInv, ChannelTypeOK, TaskBecomes
  <2>5. \A u \in Task : \A d : Uses(u, d)' <=> Uses(u, d)
    BY <1>0, <2>1, <2>3 DEF TaskBecomes, Uses, Idle
  <2>6. ConnsFit'
    BY <1>0, <1>2, <2>5 DEF ChannelInv, ConnsFit, Quiet
  <2>7. TasksFit'
    <3>1. ASSUME NEW x \in Task PROVE TaskFits(x, command[x].on)'
      <4>1. CASE x = t
        BY <1>0, <2>1, <2>3, <4>1 DEF TaskFits, TaskBecomes, Uses
      <4>2. CASE x # t
        <5>1. TaskFits(x, command[x].on) /\ command'[x] = command[x] /\ Id(x)' = Id(x)
          BY <2>3, <4>2, TasksFitEach DEF ChannelInv, TaskBecomes, Id
        <5> QED
          BY <1>0, <1>2, <2>5, <5>1 DEF TaskFits
      <4> QED
        BY <4>1, <4>2
    <3> QED
      BY <3>1 DEF TasksFit, TaskFits
  <2>8. OwnAnswer'
    BY <1>0, <1>2, <2>1, <2>3 DEF ChannelInv, OwnAnswer, TaskBecomes, Id
  <2> QED
    BY <2>4, <2>6, <2>7, <2>8 DEF ChannelInv
<1> QED
  BY <1>1, <1>2 DEF Connect

-----------------------------------------------------------------------------
LEMMA InitIInv == Init => IInv
<1> SUFFICES ASSUME Init PROVE IInv
  OBVIOUS
<1> USE DEF Init
<1>1. ChannelTypeOK /\ conn = <<>>
  <2>1. Greeting \in Frames
    BY DEF Greeting, Frame, Frames, NoCommand, Numbers
  <2> QED
    BY <2>1, EmptySeq DEF ChannelInit, ChannelTypeOK, CommandStates
<1>2. ConnsFit /\ TasksFit /\ OwnAnswer
  BY <1>1 DEF ChannelInit, ConnsFit, TasksFit, Uses, OwnAnswer
<1>3. PageTypeOK
  BY DEF PageInit, PageTypeOK, Pending
<1>4. TokensFit /\ StdoutFits /\ ExecsFit /\ OutputOnce /\ AloneIsExact
  BY DEF PageInit, TokensFit, StdoutFits, ExecsFit, OutputOnce, AloneIsExact, Pending
<1> QED
  BY <1>1, <1>2, <1>3, <1>4 DEF IInv, ChannelInv, PageInv

(* Each half stays when its variables do. *)
LEMMA PageStutters == PageInv /\ UNCHANGED pageVars => PageInv'
BY DEF pageVars, PageInv, PageTypeOK, TokensFit, Printed, Own, StdoutFits, ExecsFit, Inside,
   OutputOnce, AloneIsExact

LEMMA ChannelStutters == ChannelInv /\ UNCHANGED channelVars => ChannelInv'
BY DEF channelVars, ChannelInv, ChannelTypeOK, ConnsFit, TasksFit, OwnAnswer, Quiet, Carries,
   Uses, Id

LEMMA StepPageInv ==
    ASSUME PageInv, [Next]_vars PROVE PageInv'
<1>1. CASE UNCHANGED pageVars
  BY <1>1, PageStutters
<1>2. ASSUME NEW e \in Exec,
             \/ Begin(e) \/ AwaitCommand(e) \/ GoOn(e) \/ Finish(e) \/ GiveUp(e)
      PROVE  PageInv'
  BY <1>2, ExecBeginInv, ExecAwaitInv, ExecResumeInv, FinishInv, ExecTimesOutInv
     DEF Begin, AwaitCommand, GoOn, Finish, GiveUp, Code
<1>3. ASSUME NEW p \in Page, Code(PageCloses(p)) PROVE PageInv'
  BY <1>3, PageClosesInv DEF Code
<1>4. \/ UNCHANGED pageVars
      \/ \E e \in Exec : Begin(e) \/ AwaitCommand(e) \/ GoOn(e) \/ Finish(e) \/ GiveUp(e)
      \/ \E p \in Page : Code(PageCloses(p))
  BY DEF Next, vars, CommandStep, ConnStep, Channel
<1> QED
  BY <1>1, <1>2, <1>3, <1>4

LEMMA StepChannelInv ==
    ASSUME ChannelInv, [Next]_vars PROVE ChannelInv'
<1>1. CASE UNCHANGED channelVars
  BY <1>1, ChannelStutters
<1>2. ASSUME NEW t \in Task,
             \/ \E k \in Kinds : Connect(t, k) \/ Reuse(t, k)
             \/ Greeted(t) \/ Receive(t) \/ Dropped(t) \/ TimesOut(t)
      PROVE  ChannelInv'
  BY <1>2, ConnectInv, ReuseInv, GreetedInv, ReceiveInv, DroppedInv, TimesOutInv
<1>3. ASSUME NEW c \in Conns, HandlerStep(c) \/ Break(c) PROVE ChannelInv'
  BY <1>3, TakeCommandInv, ProgressInv, ReplyInv, BreakInv DEF HandlerStep
<1>4. \/ UNCHANGED channelVars
      \/ \E t \in Task : \/ \E k \in Kinds : Connect(t, k) \/ Reuse(t, k)
                         \/ Greeted(t) \/ Receive(t) \/ Dropped(t) \/ TimesOut(t)
      \/ \E c \in Conns : HandlerStep(c) \/ Break(c)
      \/ CloseBrowser \/ CloseSession
  <2>1. ASSUME NEW e \in Exec,
               \/ Begin(e) \/ AwaitCommand(e) \/ GoOn(e) \/ Finish(e) \/ GiveUp(e)
               \/ CommandStep(e)
        PROVE  \/ UNCHANGED channelVars
               \/ \E k \in Kinds : Connect(e, k) \/ Reuse(e, k)
               \/ Greeted(e) \/ Receive(e) \/ Dropped(e) \/ TimesOut(e)
    BY <2>1 DEF Begin, AwaitCommand, GoOn, Finish, GiveUp, CommandStep, Code, Channel
  <2> QED
    BY <2>1, SameNames DEF Next, vars, ConnStep, Code, Channel
<1> QED
  BY <1>1, <1>2, <1>3, <1>4, CloseInv

(* The inductive invariant holds in every reachable state. *)
THEOREM InvariantHolds == Spec => []IInv
<1>1. IInv /\ [Next]_vars => IInv'
  BY StepPageInv, StepChannelInv DEF IInv
<1> QED
  BY InitIInv, <1>1, PTL DEF Spec

(* What a client takes for the answer to its command is that command's own *)
(* answer, unless something went wrong on its connection before; on a      *)
(* connection of the bridge it is always about that command                *)
(* (browser_client/__init__.py, browser/bridge.py, browser/ws_handler.py). *)
THEOREM OwnAnswerHolds == Spec => []OwnAnswer
<1>1. IInv => OwnAnswer
  BY DEF IInv, ChannelInv
<1> QED
  BY <1>1, InvariantHolds, PTL

(* Nothing that was printed is answered to two callers, however the        *)
(* executions of a page swap sys.stdout under each other.                  *)
THEOREM OutputOnceHolds == Spec => []OutputOnce
<1>1. IInv => OutputOnce
  BY DEF IInv, PageInv
<1> QED
  BY <1>1, InvariantHolds, PTL

(* An execution that had its page to itself is answered all that it        *)
(* printed and nothing else, or an error (PyodideEngine.execute,           *)
(* PythonExec).                                                            *)
THEOREM AloneIsExactHolds == Spec => []AloneIsExact
<1>1. IInv => AloneIsExact
  BY DEF IInv, PageInv
<1> QED
  BY <1>1, InvariantHolds, PTL
=============================================================================
