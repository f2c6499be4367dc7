------------------------ MODULE ChangeRequest_proofs ------------------------
(***************************************************************************)
(* What is proved of ChangeRequest, for every set of people and handler    *)
(* slots, every selection of operations and every catalog, schedule and    *)
(* bound: its types, the soundness of a review, the exclusion and the      *)
(* memory of the bundle; and, annotations apart, the freeze's veto and     *)
(* that it implements the life cycle of RequestLifecycle.                  *)
(***************************************************************************)
EXTENDS ChangeRequest, TLAPS

-----------------------------------------------------------------------------
(* The inductive invariant: the types, and what a handler has decided.     *)

\* What a handler may have decided by the time it writes.
Decided(h) ==
    /\ h.op = "approve" /\ h.pc = "write" =>
          h.to \in Open \cup {"WINDOW_EXPIRED", "AWAITING_DEPLOY_APPROVAL", "APPLIED"}
    /\ h.op = "cooling" => h.to \in {"APPLIED", "AWAITING_DEPLOY_APPROVAL"}
    /\ h.op = "tick" /\ h.pc \in {"write", "finish"} =>
          h.to \in {"HALTED_DRIFT", "HALTED_APPLY_FAILED", "APPLIED"}
    /\ h.op = "bundle" /\ h.pc \in {"outcome", "record"} =>
          h.to \in {"failed", "landed-untriggered", "triggered"}

ProcOK == proc \in [Proc -> Handler] /\ \A p \in Proc : Decided(proc[p])
RestOK ==
    /\ signed \subseteq Person
    /\ frozen \in BOOLEAN
    /\ now \in Nat
    /\ catalog \in Catalogs
    /\ effects \in [applies : Nat, landed : BOOLEAN, fired : BOOLEAN]
TypeInv == row \in Row /\ RestOK /\ ProcOK

-----------------------------------------------------------------------------
(* Types.                                                                  *)

\* The row before any submission is a row.
LEMMA AbsentTyped == AbsentRow \in Row
BY DEF AbsentRow, Row, Status, Tier, NowSchedule, NoBundle

\* A free slot is a handler that has decided nothing.
LEMMA IdleTyped == Idle \in Handler /\ Decided(Idle)
BY AbsentTyped, ConstantTypes
   DEF Idle, Handler, OpNames, Pcs, Targets, NowSchedule, Decided

\* A handler that begins on the stored row is well typed.
LEMMA BeginTyped ==
    ASSUME row \in Row, frozen \in BOOLEAN, NEW op \in OpNames, NEW pc \in Pcs
    PROVE  Begin(op, pc) \in Handler
BY IdleTyped DEF Begin, Handler

\* Replacing one handler by a well-typed one keeps all of them typed.
LEMMA SetTyped ==
    ASSUME ProcOK, NEW p \in Proc, NEW h \in Handler, Decided(h), Set(p, h)
    PROVE  ProcOK'
BY DEF ProcOK, Set, Decided

\* So does moving one handler to another program point.
LEMMA GotoTyped ==
    ASSUME ProcOK, NEW p \in Proc, NEW pc \in Pcs, Goto(p, pc),
           Decided([proc[p] EXCEPT !.pc = pc])
    PROVE  ProcOK'
<1> DEFINE h == [proc[p] EXCEPT !.pc = pc]
<1>1. h \in Handler  BY DEF ProcOK, Handler
<1>2. Set(p, h)  BY DEF Goto, Set
<1> QED  BY <1>1, <1>2, SetTyped

\* And so does a handler coming back.
LEMMA ReturnTyped ==
    ASSUME ProcOK, NEW p \in Proc, Return(p)
    PROVE  ProcOK'
BY IdleTyped, SetTyped DEF Return, Set

\* A step that leaves the surroundings alone keeps their types.
LEMMA QuietTyped ==
    ASSUME RestOK, Quiet
    PROVE  RestOK'
BY DEF RestOK, Quiet

\* A step that writes nothing and leaves a well-typed handler behind.
LEMMA NoWriteTyped ==
    ASSUME TypeInv, NoWrite, ProcOK'
    PROVE  TypeInv'
BY QuietTyped DEF NoWrite, TypeInv

\* A row whose status alone changes is a row.
LEMMA StatusTyped ==
    ASSUME NEW r \in Row, NEW s \in Status
    PROVE  [r EXCEPT !.status = s] \in Row
BY DEF Row

\* A row whose eventSeq advances, with or without its status, is a row.
LEMMA BumpTyped ==
    ASSUME NEW r \in Row
    PROVE  /\ [r EXCEPT !.seq = @ + 1] \in Row
           /\ \A s \in Status : [r EXCEPT !.status = s, !.seq = @ + 1] \in Row
<1> DEFINE n == r.seq + 1
<1>1. n \in Nat  BY DEF Row
<1>2. [r EXCEPT !.seq = n] \in Row  BY <1>1 DEF Row
<1>3. ASSUME NEW s \in Status PROVE [r EXCEPT !.status = s, !.seq = n] \in Row
  BY <1>1 DEF Row
<1> QED  BY <1>2, <1>3

\* What a bundle writes into the row, a claim or an outcome, fits its type.
LEMMA ClaimTyped ==
    ASSUME NEW r \in Row, NEW at \in Nat, NEW sha \in BOOLEAN,
           NEW state \in {"running", "failed", "landed-untriggered", "triggered"}
    PROVE  [r EXCEPT !.seq = @ + 1,
                     !.bundle = [state |-> state, at |-> at, sha |-> sha]] \in Row
<1> DEFINE n == r.seq + 1
           b == [state |-> state, at |-> at, sha |-> sha]
<1>1. n \in Nat  BY DEF Row
<1>2. b \in [state : {"none", "running", "failed", "landed-untriggered", "triggered"},
             at : Nat, sha : BOOLEAN]
  OBVIOUS
<1>3. [r EXCEPT !.seq = n, !.bundle = b] \in Row  BY <1>1, <1>2 DEF Row
<1> QED  BY <1>3

\* A step with one status-guarded write at its end.
LEMMA StatusWriteTyped ==
    ASSUME TypeInv, NEW p \in Proc, NEW op, NEW new \in Row, StatusWrite(p, op, new)
    PROVE  TypeInv'
<1>1. RestOK'  BY QuietTyped DEF StatusWrite, TypeInv
<1>2. ProcOK'  BY ReturnTyped DEF StatusWrite, TypeInv
<1>3. row' \in Row  BY DEF StatusWrite, IfStatus, TypeInv
<1> QED  BY <1>1, <1>2, <1>3 DEF TypeInv

\* A window somebody asked for is a schedule.
LEMMA WindowTyped ==
    ASSUME NEW w \in Windows
    PROVE  Window(w) \in [kind : {"now", "window"}, at : Nat, end : Nat]
BY ConstantTypes DEF Window

\* What the handlers build and put back.
LEMMA SubmittedTyped ==
    ASSUME catalog \in Catalogs, NEW set \in BOOLEAN,
           NEW s \in [kind : {"now", "window"}, at : Nat, end : Nat]
    PROVE  /\ SubmittedRow(set, s) \in Row
           /\ SubmittedRow(set, s).status \in Open
           /\ SubmittedRow(set, s).approvals = <<>>
           /\ SubmittedRow(set, s).bundle = NoBundle
<1>1. catalog.tier \in Tier /\ catalog.replace \in BOOLEAN  BY ConstantTypes
<1>2. InitialStatus(catalog.tier) \in Open  BY DEF InitialStatus, Open
<1>3. Len(LadderFor(catalog.tier, catalog.replace)) \in 1..2  BY DEF LadderFor
<1>4. Open \subseteq Status  BY DEF Status
<1> QED  BY <1>1, <1>2, <1>3, <1>4, AbsentTyped DEF SubmittedRow, Row, AbsentRow

\* The requirement in force is a tier and a ladder of one or two steps.
LEMMA CurrentTyped ==
    ASSUME NEW r \in Row, NEW live \in Catalogs
    PROVE  /\ CurrentTier(r, live) \in Tier
           /\ CurrentLadder(r, live) \in Seq({"L2", "L3"})
           /\ Len(CurrentLadder(r, live)) \in 1..2
           /\ CurrentLadder(r, live)[1] = "L2"
           /\ Len(CurrentLadder(r, live)) = 2 => CurrentLadder(r, live)[2] = "L3"
<1>1. live.tier \in Tier /\ r.pinned \in Tier /\ r.tier \in Tier  BY ConstantTypes DEF Row
<1>2. CurrentTier(r, live) \in Tier  BY <1>1 DEF CurrentTier, Strictest
<1> QED  BY <1>2 DEF CurrentLadder, LadderFor

\* The row an approver puts back is a row.
LEMMA ApprovedTyped ==
    ASSUME catalog \in Catalogs, NEW h \in Handler, h.to \in Status
    PROVE  Approved(h) \in Row
<1>1. h.snap \in Row /\ h.by \in Person /\ h.at \in Nat  BY DEF Handler
<1>2. Append(h.snap.approvals, h.by) \in Seq(Person)  BY <1>1 DEF Row
<1>3. h.snap.seq + 1 \in Nat  BY <1>1 DEF Row
<1>4. CurrentTier(h.snap, catalog) \in Tier
      /\ Len(CurrentLadder(h.snap, catalog)) \in 1..2
  BY <1>1, CurrentTyped
<1> QED  BY <1>1, <1>2, <1>3, <1>4 DEF Approved, Row

\* A handler that starts with the row it reads has decided nothing yet.
LEMMA StartTyped ==
    ASSUME TypeInv, NEW p \in Proc, NEW op \in OpNames, NEW pc \in Pcs,
           NEW h \in Handler, h.op = op, h.pc = pc, Decided(h), Set(p, h), NoWrite
    PROVE  TypeInv'
BY SetTyped, NoWriteTyped DEF TypeInv

\* Every step of submit, approve, reject and the annotations.
LEMMA ReviewTyped ==
    ASSUME TypeInv, NEW p \in Proc, Review(p)
    PROVE  TypeInv'
<1> USE DEF TypeInv
<1>0. row \in Row /\ frozen \in BOOLEAN /\ now \in Nat /\ catalog \in Catalogs
      /\ proc[p] \in Handler /\ Decided(proc[p])
  BY DEF RestOK, ProcOK
<1> DEFINE h == proc[p]
<1>1. CASE SubmitStart(p)
  <2>1. PICK set \in Forms, s \in {NowSchedule} \cup {Window(w) : w \in Windows} :
           Set(p, [Begin("submit", "write") EXCEPT !.snap = SubmittedRow(set, s)])
    BY <1>1 DEF SubmitStart
  <2>2. s \in [kind : {"now", "window"}, at : Nat, end : Nat]
    BY WindowTyped DEF NowSchedule
  <2>3. SubmittedRow(set, s) \in Row
    BY <1>0, <2>2, SubmittedTyped, ConstantTypes
  <2>4. Begin("submit", "write") \in Handler  BY <1>0, BeginTyped DEF OpNames, Pcs
  <2>5. ProcOK'
    BY <2>1, <2>3, <2>4, SetTyped DEF Handler, Decided, Begin, Idle
  <2> QED  BY <1>1, <2>5, NoWriteTyped DEF SubmitStart
<1>2. CASE SubmitWrite(p)
  BY <1>0, <1>2, ReturnTyped, QuietTyped DEF SubmitWrite, Handler
<1>3. ASSUME NEW u \in Person, ApproveRead(p, u) PROVE TypeInv'
  <2> DEFINE to == IF Len(row.approvals) + 1 >= Len(CurrentLadder(row, catalog))
                   THEN "WINDOW_EXPIRED" ELSE row.status
  <2>1. PICK pc \in {"freeze", "write"} :
           Set(p, [Begin("approve", pc) EXCEPT !.by = u, !.at = now, !.to = to])
    BY <1>3 DEF ApproveRead
  <2>2. Begin("approve", pc) \in Handler  BY <1>0, BeginTyped DEF OpNames, Pcs
  <2>3. to \in Open \cup {"WINDOW_EXPIRED"}  BY <1>3 DEF ApproveRead
  <2>4. to \in Targets  BY <2>3 DEF Targets, Status, Open, Cancellable
  <2>5. ProcOK'
    BY <1>0, <2>1, <2>2, <2>3, <2>4, SetTyped DEF Handler, Decided, Begin, Idle
  <2> QED  BY <1>3, <2>5, NoWriteTyped DEF ApproveRead
<1>4. CASE ApproveFreeze(p)
  <2>1. PICK to \in {"AWAITING_DEPLOY_APPROVAL", "APPLIED"} :
           Set(p, [h EXCEPT !.pc = "write", !.to = to])
    BY <1>4 DEF ApproveFreeze
  <2>2. [h EXCEPT !.pc = "write", !.to = to] \in Handler
    BY <1>0 DEF Handler, Pcs, Targets, Status, Cancellable
  <2>3. Decided([h EXCEPT !.pc = "write", !.to = to])
    BY <1>0, <1>4 DEF Handler, Decided, ApproveFreeze, At
  <2> QED  BY <1>4, <2>1, <2>2, <2>3, SetTyped, NoWriteTyped DEF ApproveFreeze
<1>5. CASE ApproveWrite(p)
  <2>1. h.to \in Status
    BY <1>0, <1>5 DEF Decided, ApproveWrite, At, Status, Cancellable
  <2>2. Approved(h) \in Row  BY <1>0, <2>1, ApprovedTyped
  <2>3. ProcOK'  BY <1>5, ReturnTyped DEF ApproveWrite
  <2>4. row' \in Row  BY <1>0, <1>5, <2>2 DEF ApproveWrite
  <2>5. RestOK'  BY <1>0, <1>5 DEF ApproveWrite, RestOK, Handler
  <2> QED  BY <2>3, <2>4, <2>5
<1>6. CASE RejectStart(p)
  BY <1>0, <1>6, BeginTyped, SetTyped, NoWriteTyped
     DEF RejectStart, OpNames, Pcs, Decided, Begin, Idle
<1>7. CASE RejectWrite(p)
  <2>1. [h.snap EXCEPT !.status = "REJECTED", !.seq = @ + 1] \in Row
    BY <1>0, BumpTyped DEF Handler, Status, Unlinkable
  <2> QED  BY <1>0, <1>7, <2>1, ReturnTyped, QuietTyped DEF RejectWrite, IfSeq
<1>8. CASE AnnotateStart(p)
  BY <1>0, <1>8, BeginTyped, SetTyped, NoWriteTyped
     DEF AnnotateStart, OpNames, Pcs, Decided, Begin, Idle
<1>9. CASE AnnotateWrite(p)
  <2>1. [h.snap EXCEPT !.seq = @ + 1] \in Row  BY <1>0, BumpTyped DEF Handler
  <2> QED  BY <1>0, <1>9, <2>1, ReturnTyped, QuietTyped DEF AnnotateWrite, IfSeq
<1> QED
  BY <1>1, <1>2, <1>3, <1>4, <1>5, <1>6, <1>7, <1>8, <1>9 DEF Review

\* Every step of the settlers.
LEMMA SettleTyped ==
    ASSUME TypeInv, NEW p \in Proc, Settle(p)
    PROVE  TypeInv'
<1> USE DEF TypeInv
<1>0. row \in Row /\ frozen \in BOOLEAN /\ now \in Nat
      /\ proc[p] \in Handler /\ Decided(proc[p])
  BY DEF RestOK, ProcOK
<1>s. {"WINDOW_EXPIRED", "APPLIED", "HALTED_APPLY_FAILED", "AWAITING_DEPLOY_APPROVAL"}
         \subseteq Status
  BY DEF Status, Cancellable
<1>t. \A r \in Row : CoolingTarget(r) \in {"AWAITING_DEPLOY_APPROVAL", "APPLIED"}
  BY DEF CoolingTarget
<1>1. CASE CoolingStart(p)
  <2> DEFINE h == [Begin("cooling", "write") EXCEPT !.to = CoolingTarget(row)]
  <2>1. Begin("cooling", "write") \in Handler  BY <1>0, BeginTyped DEF OpNames, Pcs
  <2>2. h \in Handler
    BY <1>0, <1>s, <1>t, <2>1 DEF Handler, Targets
  <2>3. Decided(h)  BY <1>0, <1>t, <2>1 DEF Handler, Decided, Begin, Idle
  <2> QED  BY <1>1, <2>2, <2>3, SetTyped, NoWriteTyped DEF CoolingStart
<1>2. CASE CoolingWrite(p)
  <2>1. proc[p].to \in Status
    BY <1>0, <1>s, <1>2 DEF CoolingWrite, StatusWrite, At, Decided
  <2> QED  BY <1>0, <1>2, <2>1, StatusTyped, StatusWriteTyped DEF CoolingWrite
<1>3. CASE WindowStart(p)
  BY <1>0, <1>3, BeginTyped, SetTyped, NoWriteTyped
     DEF WindowStart, OpNames, Pcs, Decided, Begin, Idle
<1>4. CASE WindowWrite(p)
  BY <1>0, <1>4, <1>s, StatusTyped, StatusWriteTyped DEF WindowWrite
<1>5. CASE HoldStart(p)
  BY <1>0, <1>5, BeginTyped, SetTyped, NoWriteTyped
     DEF HoldStart, OpNames, Pcs, Decided, Begin, Idle
<1>6. CASE HoldFreeze(p)
  <2>1. Decided([proc[p] EXCEPT !.pc = "write"])
    BY <1>0, <1>6 DEF Handler, Decided, HoldFreeze, At
  <2> QED  BY <1>6, <2>1, GotoTyped, ReturnTyped, NoWriteTyped DEF HoldFreeze, Pcs
<1>7. CASE HoldWrite(p)
  BY <1>0, <1>7, <1>s, StatusTyped, StatusWriteTyped DEF HoldWrite
<1>8. CASE LeaseStart(p)
  BY <1>0, <1>8, BeginTyped, SetTyped, NoWriteTyped
     DEF LeaseStart, OpNames, Pcs, Decided, Begin, Idle
<1>9. CASE LeaseWrite(p)
  BY <1>0, <1>9, <1>s, StatusTyped, StatusWriteTyped DEF LeaseWrite
<1>10. ASSUME NEW from, NEW to \in Status, SettleStep(p, from, to) PROVE TypeInv'
  <2>1. PICK r \in Row : Set(p, [proc[p] EXCEPT !.snap = r])
    <3>1. [proc[p].snap EXCEPT !.status = to] \in Row
      BY <1>0, StatusTyped DEF Handler
    <3> QED  BY <1>0, <1>10, <3>1 DEF SettleStep, Set, ProcOK
  <2>2. [proc[p] EXCEPT !.snap = r] \in Handler  BY <1>0 DEF Handler
  <2>3. Decided([proc[p] EXCEPT !.snap = r])  BY <1>0 DEF Handler, Decided
  <2>4. ProcOK'  BY <2>1, <2>2, <2>3, SetTyped
  <2>5. row' \in Row  BY <1>0, <1>10, StatusTyped DEF SettleStep, IfStatus
  <2> QED  BY <1>10, <2>4, <2>5, QuietTyped DEF SettleStep
<1>11. CASE SettleCoolingFirst(p)
  BY <1>0, <1>s, <1>t, <1>10, <1>11 DEF SettleCoolingFirst, Handler
<1>12. CASE SettleWindowFirst(p)
  BY <1>s, <1>10, <1>12 DEF SettleWindowFirst
<1> QED
  BY <1>1, <1>2, <1>3, <1>4, <1>5, <1>6, <1>7, <1>8, <1>9, <1>11, <1>12 DEF Settle

\* Every step of cancel and rewindow.
LEMMA RescheduleTyped ==
    ASSUME TypeInv, NEW p \in Proc, Reschedule(p)
    PROVE  TypeInv'
<1> USE DEF TypeInv
<1>0. row \in Row /\ frozen \in BOOLEAN /\ proc[p] \in Handler /\ Decided(proc[p])
  BY DEF RestOK, ProcOK
<1>g. ASSUME proc[p].op \in {"cancel", "rewindow"}
      PROVE  Decided([proc[p] EXCEPT !.pc = "write"])
  BY <1>0, <1>g DEF Handler, Decided
<1>1. CASE CancelStart(p)
  BY <1>0, <1>1, BeginTyped, SetTyped, NoWriteTyped
     DEF CancelStart, OpNames, Pcs, Decided, Begin, Idle
<1>2. CASE CancelDecide(p)
  BY <1>2, <1>g, GotoTyped, ReturnTyped, NoWriteTyped DEF CancelDecide, At, Pcs
<1>3. CASE CancelWrite(p)
  BY <1>0, <1>3, StatusTyped, StatusWriteTyped DEF CancelWrite, Status, Unlinkable
<1>4. CASE RewindowStart(p)
  BY <1>0, <1>4, BeginTyped, SetTyped, NoWriteTyped
     DEF RewindowStart, OpNames, Pcs, Decided, Begin, Idle
<1>5. CASE RewindowDecide(p)
  <2>1. ASSUME NEW w \in Windows,
               Set(p, [proc[p] EXCEPT !.pc = "write", !.win = Window(w)])
        PROVE  ProcOK'
    <3>1. [proc[p] EXCEPT !.pc = "write", !.win = Window(w)] \in Handler
      BY <1>0, WindowTyped DEF Handler, Pcs
    <3>2. Decided([proc[p] EXCEPT !.pc = "write", !.win = Window(w)])
      BY <1>0, <1>5 DEF Handler, Decided, RewindowDecide, At
    <3> QED  BY <2>1, <3>1, <3>2, SetTyped
  <2> QED  BY <1>5, <2>1, ReturnTyped, NoWriteTyped DEF RewindowDecide
<1>6. CASE RewindowWrite(p)
  <2>1. [row EXCEPT !.status = "AWAITING_DEPLOY_APPROVAL", !.schedule = proc[p].win] \in Row
    BY <1>0 DEF Handler, Row, Status, Cancellable
  <2> QED  BY <1>6, <2>1, StatusWriteTyped DEF RewindowWrite
<1> QED  BY <1>1, <1>2, <1>3, <1>4, <1>5, <1>6 DEF Reschedule

\* Every step of the bundle.
LEMMA BundleTyped ==
    ASSUME TypeInv, NEW p \in Proc, Bundle(p)
    PROVE  TypeInv'
<1> USE DEF TypeInv
<1>0. row \in Row /\ RestOK /\ frozen \in BOOLEAN /\ now \in Nat /\ effects.applies \in Nat
      /\ proc[p] \in Handler /\ Decided(proc[p])
  BY DEF RestOK, ProcOK
<1> DEFINE h == proc[p]
<1>g. ASSUME NEW pc \in Pcs, h.op = "bundle", pc \notin {"outcome", "record"}
      PROVE  Decided([h EXCEPT !.pc = pc])
  BY <1>0, <1>g DEF Handler, Decided
<1>s. ASSUME NEW g \in Handler, g.op = "bundle",
             g.to \in {"failed", "landed-untriggered", "triggered"}
      PROVE  Decided(g)
  BY <1>s DEF Decided
<1>r. ASSUME NEW to \in {"failed", "landed-untriggered", "triggered"},
             h.op = "bundle", Set(p, [h EXCEPT !.pc = "outcome", !.to = to])
      PROVE  ProcOK'
  <2>1. [h EXCEPT !.pc = "outcome", !.to = to] \in Handler
    BY <1>0 DEF Handler, Pcs, Targets
  <2>2. Decided([h EXCEPT !.pc = "outcome", !.to = to])
    BY <1>0, <1>r, <1>s, <2>1 DEF Handler
  <2> QED  BY <1>r, <2>1, <2>2, SetTyped
<1>1. CASE BundleStart(p)
  BY <1>0, <1>1, BeginTyped, SetTyped, NoWriteTyped
     DEF BundleStart, OpNames, Pcs, Decided, Begin, Idle
<1>2. CASE BundleDecide(p)
  <2>1. ASSUME NEW to \in {"resume", "run"},
               Set(p, [h EXCEPT !.pc = "claim", !.at = now, !.to = to])
        PROVE  ProcOK'
    <3>1. [h EXCEPT !.pc = "claim", !.at = now, !.to = to] \in Handler
      BY <1>0 DEF Handler, Pcs, Targets
    <3>2. Decided([h EXCEPT !.pc = "claim", !.at = now, !.to = to])
      BY <1>0, <1>2 DEF Handler, Decided, BundleDecide, At
    <3> QED  BY <2>1, <3>1, <3>2, SetTyped
  <2> QED  BY <1>2, <2>1, ReturnTyped, NoWriteTyped DEF BundleDecide
<1>3. CASE BundleClaim(p)
  <2>1. [row EXCEPT !.seq = @ + 1,
                    !.bundle = [state |-> "running", at |-> h.at, sha |-> h.to = "resume"]]
           \in Row
    BY <1>0, ClaimTyped DEF Handler
  <2>2. row' \in Row  BY <1>0, <1>3, <2>1 DEF BundleClaim, IfSeq
  <2>3. ProcOK'  BY <1>3, <1>g, GotoTyped, ReturnTyped DEF BundleClaim, At, Pcs
  <2> QED  BY <1>3, <2>2, <2>3, QuietTyped DEF BundleClaim
<1>4. CASE BundleUnresolved(p)
  BY <1>4, ReturnTyped, NoWriteTyped DEF BundleUnresolved
<1>5. CASE BundleResolve(p)
  <2>1. PICK pc \in {"trigger", "commit"} : Goto(p, pc)  BY <1>5 DEF BundleResolve
  <2>2. Decided([h EXCEPT !.pc = pc])  BY <1>5, <1>g DEF BundleResolve, At, Pcs
  <2> QED  BY <1>5, <2>1, <2>2, GotoTyped, NoWriteTyped DEF BundleResolve, Pcs
<1>6. CASE BundleFail(p)
  BY <1>6, <1>r, NoWriteTyped DEF BundleFail, At
<1>7. CASE BundleLand(p)
  <2>1. ProcOK'  BY <1>7, <1>g, GotoTyped DEF BundleLand, At, Pcs
  <2>2. RestOK'  BY <1>0, <1>7 DEF BundleLand, RestOK
  <2> QED  BY <1>0, <1>7, <2>1, <2>2 DEF BundleLand
<1>8. CASE BundleTrigger(p)
  <2>1. PICK ok \in BOOLEAN :
           /\ Set(p, [h EXCEPT !.pc = "outcome",
                               !.to = IF ok THEN "triggered" ELSE "landed-untriggered"])
           /\ effects' = [effects EXCEPT !.fired = @ \/ ok]
    BY <1>8 DEF BundleTrigger
  <2>2. ProcOK'  BY <1>8, <1>r, <2>1 DEF BundleTrigger, At
  <2>3. RestOK'  BY <1>0, <1>8, <2>1 DEF BundleTrigger, RestOK
  <2> QED  BY <1>0, <1>8, <2>2, <2>3 DEF BundleTrigger
<1>9. CASE OutcomeRead(p)
  <2>1. [h EXCEPT !.pc = "record", !.snap = row] \in Handler  BY <1>0 DEF Handler, Pcs
  <2>2. Decided([h EXCEPT !.pc = "record", !.snap = row])
    BY <1>0, <1>9, <1>s, <2>1 DEF OutcomeRead, At, Handler, Decided
  <2> QED
    BY <1>9, <2>1, <2>2, SetTyped, ReturnTyped, NoWriteTyped DEF OutcomeRead
<1>10. CASE OutcomeWrite(p)
  <2>0. h.to \in {"failed", "landed-untriggered", "triggered"}
    BY <1>0, <1>10 DEF OutcomeWrite, At, Decided
  <2>1. [row EXCEPT !.seq = @ + 1,
                    !.bundle = [state |-> h.to, at |-> now, sha |-> h.to # "failed"]] \in Row
    BY <1>0, <2>0, ClaimTyped
  <2>2. row' \in Row  BY <1>0, <1>10, <2>1 DEF OutcomeWrite, IfSeq
  <2>3. [h EXCEPT !.pc = "outcome"] \in Handler /\ Decided([h EXCEPT !.pc = "outcome"])
    BY <1>0, <1>10, <1>s, <2>0 DEF OutcomeWrite, At, Handler, Pcs
  <2>4. ProcOK'
    BY <1>10, <2>3, GotoTyped, ReturnTyped DEF OutcomeWrite, Pcs
  <2> QED  BY <1>10, <2>2, <2>4, QuietTyped DEF OutcomeWrite
<1> QED
  BY <1>1, <1>2, <1>3, <1>4, <1>5, <1>6, <1>7, <1>8, <1>9, <1>10 DEF Bundle

\* Every step of a scheduler tick.
LEMMA TickTyped ==
    ASSUME TypeInv, NEW p \in Proc, Tick(p)
    PROVE  TypeInv'
<1> USE DEF TypeInv
<1>0. row \in Row /\ RestOK /\ frozen \in BOOLEAN /\ now \in Nat /\ effects.applies \in Nat
      /\ proc[p] \in Handler /\ Decided(proc[p])
  BY DEF RestOK, ProcOK
<1> DEFINE h == proc[p]
<1>s. {"HALTED_DRIFT", "HALTED_APPLY_FAILED", "APPLIED", "APPLYING"} \subseteq Status
  BY DEF Status, Cancellable
<1>g. ASSUME NEW pc \in Pcs, h.op = "tick", pc \notin {"write", "finish"}
      PROVE  Decided([h EXCEPT !.pc = pc])
  BY <1>0, <1>g DEF Handler, Decided
<1>r. ASSUME NEW to \in {"HALTED_DRIFT", "HALTED_APPLY_FAILED", "APPLIED"},
             NEW pc \in {"write", "finish"},
             NEW g \in Handler, g.op = "tick",
             Set(p, [g EXCEPT !.pc = pc, !.to = to])
      PROVE  ProcOK'
  <2>1. [g EXCEPT !.pc = pc, !.to = to] \in Handler
    BY <1>s DEF Handler, Pcs, Targets
  <2>2. Decided([g EXCEPT !.pc = pc, !.to = to])
    BY <1>r DEF Handler, Decided
  <2> QED  BY <1>r, <2>1, <2>2, SetTyped
<1>1. CASE TickStart(p)
  <2> DEFINE g == [Begin("tick", "freeze") EXCEPT !.at = now]
  <2>1. Begin("tick", "freeze") \in Handler  BY <1>0, BeginTyped DEF OpNames, Pcs
  <2>2. g \in Handler  BY <1>0, <2>1 DEF Handler
  <2>3. Decided(g)  BY DEF Decided, Begin, Idle
  <2> QED  BY <1>1, <2>2, <2>3, SetTyped, NoWriteTyped DEF TickStart
<1>2. CASE TickSweep(p)
  <2> DEFINE g == [Begin("tick", "write") EXCEPT !.at = now, !.to = "HALTED_APPLY_FAILED"]
  <2>1. Begin("tick", "write") \in Handler  BY <1>0, BeginTyped DEF OpNames, Pcs
  <2>2. g \in Handler  BY <1>0, <1>s, <2>1 DEF Handler, Targets
  <2>3. Decided(g)  BY <2>1 DEF Decided, Begin, Idle
  <2> QED  BY <1>2, <2>2, <2>3, SetTyped, NoWriteTyped DEF TickSweep
<1>3. CASE TickFreeze(p)
  BY <1>3, <1>g, GotoTyped, ReturnTyped, NoWriteTyped DEF TickFreeze, At, Pcs
<1>4. CASE TickHold(p)
  BY <1>4, ReturnTyped, NoWriteTyped DEF TickHold
<1>5. CASE TickHalt(p)
  BY <1>0, <1>5, <1>r, NoWriteTyped DEF TickHalt, At
<1>6. CASE TickProceed(p)
  BY <1>6, <1>g, GotoTyped, NoWriteTyped DEF TickProceed, At, Pcs
<1>7. CASE TickWrite(p)
  <2>1. h.to \in Status
    BY <1>0, <1>7, <1>s DEF TickWrite, StatusWrite, At, Decided
  <2> QED  BY <1>0, <1>7, <2>1, StatusTyped, StatusWriteTyped DEF TickWrite
<1>8. CASE TickClaim(p)
  <2>1. [row EXCEPT !.status = "APPLYING", !.claimedAt = h.at] \in Row
    BY <1>0, <1>s DEF Row, Handler
  <2>2. row' \in Row  BY <1>0, <1>8, <2>1 DEF TickClaim, IfStatus
  <2>3. ProcOK'  BY <1>8, <1>g, GotoTyped, ReturnTyped DEF TickClaim, At, Pcs
  <2> QED  BY <1>8, <2>2, <2>3, QuietTyped DEF TickClaim
<1>9. CASE TickApply(p)
  <2>1. ProcOK'  BY <1>0, <1>9, <1>r DEF TickApply, At
  <2>2. RestOK'  BY <1>0, <1>9 DEF TickApply, RestOK
  <2> QED  BY <1>0, <1>9, <2>1, <2>2 DEF TickApply
<1>10. CASE TickFinish(p)
  <2>1. h.to \in Status
    BY <1>0, <1>10, <1>s DEF TickFinish, At, Decided
  <2> QED
    BY <1>0, <1>10, <2>1, StatusTyped, ReturnTyped, QuietTyped DEF TickFinish, IfStatus
<1> QED
  BY <1>1, <1>2, <1>3, <1>4, <1>5, <1>6, <1>7, <1>8, <1>9, <1>10 DEF Tick

\* The start.
LEMMA InitTyped == Init => TypeInv
<1> SUFFICES ASSUME Init PROVE TypeInv  OBVIOUS
<1>1. row \in Row  BY ConstantTypes DEF Init
<1>2. signed \subseteq Person  BY <1>1 DEF Init, Signers, Row
<1>3. RestOK  BY <1>2 DEF Init, RestOK
<1>4. ProcOK  BY IdleTyped DEF Init, ProcOK
<1> QED  BY <1>1, <1>3, <1>4 DEF TypeInv

\* Every step of the system.
LEMMA NextTyped == TypeInv /\ [Next]_vars => TypeInv'
<1> SUFFICES ASSUME TypeInv, [Next]_vars PROVE TypeInv'  OBVIOUS
<1> USE DEF TypeInv
<1>1. ASSUME NEW p \in Proc, GiveUp(p) PROVE TypeInv'
  BY <1>1, ReturnTyped, NoWriteTyped DEF GiveUp
<1>2. ASSUME NEW p \in Proc, Step(p) PROVE TypeInv'
  BY <1>1, <1>2, ReviewTyped, SettleTyped, RescheduleTyped, BundleTyped, TickTyped DEF Step
<1>3. CASE Freeze  BY <1>3 DEF Freeze, RestOK, ProcOK
<1>4. CASE Unfreeze
  <2>1. ASSUME NEW p \in Proc
        PROVE  /\ [proc[p] EXCEPT !.veto = FALSE] \in Handler
               /\ Decided([proc[p] EXCEPT !.veto = FALSE])
    BY DEF ProcOK, Handler, Decided
  <2>2. ProcOK'  BY <1>4, <2>1 DEF Unfreeze, ProcOK
  <2> QED  BY <1>4, <2>2 DEF Unfreeze, RestOK
<1>5. CASE ClockTick  BY <1>5 DEF ClockTick, RestOK, ProcOK
<1>6. CASE Restart  BY <1>6, IdleTyped DEF Restart, RestOK, ProcOK
<1>7. CASE UNCHANGED vars  BY <1>7 DEF vars, RestOK, ProcOK
<1> QED  BY <1>2, <1>3, <1>4, <1>5, <1>6, <1>7 DEF Next

\* Whatever handlers interleave, the row and the handlers stay what the
\* types in domain/types.ts say they are, so that no status, ladder length
\* or bundle state outside the code's enumerations is ever stored.
THEOREM Typing == Spec => []TypeOK
<1>1. TypeInv => TypeOK  BY DEF TypeInv, TypeOK, RestOK, ProcOK
<1> QED  BY <1>1, InitTyped, NextTyped, PTL DEF Spec

-----------------------------------------------------------------------------
(***************************************************************************)
(* The review of a request is sound: QuorumMet, SignaturesValid and        *)
(* ApprovalsKept hold in every behaviour of ChangeRequest.                 *)
(*                                                                         *)
(* The argument.  A handler's write is a whole row built from the row it   *)
(* read, so the invariant speaks of every handler's read too: it is a      *)
(* version of the stored row, and one with the row's eventSeq has the      *)
(* row's signatures.  Every change of the row is one of three: none, a     *)
(* change of status within the part of the life cycle past review (which   *)
(* leaves eventSeq alone), or an advance of eventSeq (which makes every    *)
(* other handler's read stale).                                            *)
(***************************************************************************)

-----------------------------------------------------------------------------
(* The inductive invariant.                                                *)

Reader(h) == h.op \notin {"none", "submit"}

\* A handler's read is a version of the row: not newer, and if no guarded
\* write has advanced eventSeq since, with the same signatures and bundle,
\* and still the row itself while the request is under review.
Versioned(r, h) ==
    Reader(h) =>
        /\ h.snap.status # "ABSENT"
        /\ r.status # "ABSENT"
        /\ h.snap.seq <= r.seq
        /\ h.snap.seq = r.seq => /\ h.snap.approvals = r.approvals
                                 /\ h.snap.bundle = r.bundle
                                 /\ r.status \in Open => h.snap = r
        /\ FullySigned(h.snap)

\* A submission writes a row nobody has seen.
Unborn(r, h) ==
    h.op = "submit" => /\ r.status = "ABSENT"
                       /\ h.snap.status \in Open
                       /\ h.snap.approvals = <<>>
                       /\ h.snap.bundle = NoBundle

\* What an approver who got past the handler's checks brings with him.
Approving(live, h) ==
    h.op = "approve" =>
        /\ h.by # Requester
        /\ Len(h.snap.approvals) = 1 => Role[h.by] = "lead"
        /\ Len(h.snap.approvals) < 2
        /\ h.pc = "freeze" \/ h.to \notin Open =>
              Len(h.snap.approvals) + 1 >= Len(CurrentLadder(h.snap, live))

\* Writers guarded on status act on requests that are past their review.
Settlers == {"cooling", "window", "hold", "lease", "tick"}
Guarded(h) ==
    /\ \/ h.op \in Settlers
       \/ h.op \in {"cancel", "rewindow"} /\ h.pc = "write"
       => h.snap.status \in PostReview
    /\ h.pc = "settle" => h.op \in {"cancel", "rewindow", "bundle"}

HandlerInv(r, live, h) ==
    Versioned(r, h) /\ Unborn(r, h) /\ Approving(live, h) /\ Guarded(h)

RowInv(r, keys) ==
    /\ LadderHeld(r)
    /\ FullySigned(r)
    /\ keys = Signers(r)
    /\ r.status = "ABSENT" => r.approvals = <<>> /\ r.bundle = NoBundle

OneSubmit ==
    \A p, q \in Proc : proc[p].op = "submit" /\ proc[q].op = "submit" => p = q

ReviewInv ==
    /\ RowInv(row, signed)
    /\ OneSubmit
    /\ \A p \in Proc : HandlerInv(row, catalog, proc[p])

-----------------------------------------------------------------------------
(* How a row may change.                                                   *)

Touches(r, s) ==
    /\ s.seq = r.seq
    /\ s.approvals = r.approvals
    /\ s.bundle = r.bundle
    /\ s.required = r.required
    /\ s.earliest = r.earliest
    /\ r.status \in PostReview
    /\ s.status \in PostReview

Advances(r, s) ==
    /\ s.seq = r.seq + 1
    /\ r.status # "ABSENT"
    /\ s.status # "ABSENT"

RowStep(r, s) == s = r \/ Touches(r, s) \/ Advances(r, s)

\* Where the statuses past review lie among the others.
LEMMA PostReviewStatus ==
    /\ Cancellable \cup {"APPLYING", "APPLIED", "CANCELLED"} \subseteq PostReview
    /\ "ABSENT" \notin PostReview
    /\ Open \cap PostReview = {}
    /\ "ABSENT" \notin Open
    /\ "REJECTED" \notin PostReview
BY DEF PostReview, Status, Open, Cancellable, Unlinkable

\* A step of one handler keeps what is known of every other one.
LEMMA RowStepKeepsHandler ==
    ASSUME NEW r \in Row, NEW s \in Row, NEW live, NEW h \in Handler,
           HandlerInv(r, live, h), RowStep(r, s)
    PROVE  HandlerInv(s, live, h)
<1>1. r.seq \in Nat /\ s.seq \in Nat /\ h.snap.seq \in Nat  BY DEF Row, Handler
<1>2. CASE s = r  BY <1>2
<1>3. CASE Touches(r, s)
  <2>1. Versioned(s, h)
    BY <1>3, PostReviewStatus DEF HandlerInv, Versioned, Touches
  <2>2. Unborn(s, h)
    BY <1>3, PostReviewStatus DEF HandlerInv, Unborn, Touches
  <2> QED  BY <2>1, <2>2 DEF HandlerInv
<1>4. CASE Advances(r, s)
  <2>1. Versioned(s, h)  BY <1>1, <1>4 DEF HandlerInv, Versioned, Advances
  <2>2. Unborn(s, h)  BY <1>4 DEF HandlerInv, Unborn, Advances
  <2> QED  BY <2>1, <2>2 DEF HandlerInv
<1> QED  BY <1>2, <1>3, <1>4 DEF RowStep

\* A change of status past review keeps the row sound.
LEMMA TouchKeepsRow ==
    ASSUME NEW r \in Row, NEW s \in Row, NEW keys, RowInv(r, keys), Touches(r, s)
    PROVE  RowInv(s, keys)
<1>1. LadderHeld(s) /\ Signers(s) = Signers(r)
  BY DEF RowInv, Touches, LadderHeld, Signers
<1>2. FullySigned(s)  BY DEF RowInv, Touches, FullySigned, Legacy
<1> QED  BY <1>1, <1>2, PostReviewStatus DEF RowInv, Touches

\* Nothing is asked of a free slot.
LEMMA IdleInv ==
    ASSUME NEW r, NEW live
    PROVE  HandlerInv(r, live, Idle)
BY DEF HandlerInv, Versioned, Unborn, Approving, Guarded, Settlers, Reader, Idle

\* One handler takes a step that changes the row in one of the three ways.
LEMMA StepKeeps ==
    ASSUME TypeInv, TypeInv', ReviewInv, UNCHANGED catalog,
           NEW p \in Proc, NEW h \in Handler, Set(p, h),
           RowStep(row, row'), RowInv(row', signed'),
           HandlerInv(row', catalog, h),
           h.op = "submit" => proc[p].op = "submit"
    PROVE  ReviewInv'
<1>1. \A q \in Proc : proc[q] \in Handler  BY DEF TypeInv, ProcOK
<1>2. \A q \in Proc : proc'[q] = IF q = p THEN h ELSE proc[q]
  BY DEF Set, TypeInv, ProcOK
<1>3. OneSubmit'  BY <1>2 DEF ReviewInv, OneSubmit
<1>4. ASSUME NEW q \in Proc PROVE HandlerInv(row', catalog', proc'[q])
  <2>1. CASE q = p  BY <1>2, <2>1
  <2>2. CASE q # p
    BY <1>1, <1>2, <2>2, RowStepKeepsHandler DEF ReviewInv, TypeInv
  <2> QED  BY <2>1, <2>2
<1> QED  BY <1>3, <1>4 DEF ReviewInv

\* A handler that comes back after its write.
LEMMA ReturnKeeps ==
    ASSUME TypeInv, TypeInv', ReviewInv, UNCHANGED catalog,
           NEW p \in Proc, Return(p), RowStep(row, row'), RowInv(row', signed')
    PROVE  ReviewInv'
BY StepKeeps, IdleTyped, IdleInv DEF Return, Set, Idle

\* A handler that goes on without a write.
LEMMA QuietKeeps ==
    ASSUME TypeInv, TypeInv', ReviewInv, NoWrite,
           NEW p \in Proc, NEW h \in Handler, Set(p, h),
           HandlerInv(row, catalog, h),
           h.op = "submit" => proc[p].op = "submit"
    PROVE  ReviewInv'
BY StepKeeps DEF NoWrite, Quiet, RowStep, ReviewInv

\* A handler that comes back without a write.
LEMMA QuietReturnKeeps ==
    ASSUME TypeInv, TypeInv', ReviewInv, NoWrite, NEW p \in Proc, Return(p)
    PROVE  ReviewInv'
BY ReturnKeeps DEF NoWrite, Quiet, RowStep, ReviewInv

\* A write guarded on status.
LEMMA StatusWriteKeeps ==
    ASSUME TypeInv, TypeInv', ReviewInv, NEW p \in Proc, NEW op, NEW new \in Row,
           StatusWrite(p, op, new),
           row.status \in PostReview => Touches(row, new),
           proc[p].snap.status \in PostReview
    PROVE  ReviewInv'
<1>1. row \in Row  BY DEF TypeInv
<1>2. RowStep(row, row')  BY DEF StatusWrite, IfStatus, RowStep
<1>3. RowInv(row', signed')
  BY <1>1, TouchKeepsRow DEF StatusWrite, IfStatus, ReviewInv, Quiet
<1> QED  BY <1>2, <1>3, ReturnKeeps DEF StatusWrite, Quiet

\* A handler begins on the row it reads, or goes on with the read it has.
LEMMA BeginKeeps ==
    ASSUME TypeInv, TypeInv', ReviewInv, UNCHANGED <<row, signed, catalog>>,
           NEW p \in Proc, NEW h, Set(p, h), row.status # "ABSENT",
           h.op \notin {"none", "submit", "approve"}, h.snap = row, Guarded(h)
    PROVE  ReviewInv'
<1>1. h \in Handler  BY DEF TypeInv, ProcOK, Set
<1>2. row.seq \in Nat  BY DEF TypeInv, Row
<1>3. HandlerInv(row, catalog, h)
  BY <1>2 DEF HandlerInv, Versioned, Unborn, Approving, ReviewInv, RowInv
<1> QED  BY <1>1, <1>3, StepKeeps DEF RowStep, ReviewInv

\* A handler that goes on with the read it has.
LEMMA ContinueKeeps ==
    ASSUME TypeInv, TypeInv', ReviewInv, UNCHANGED <<row, signed, catalog>>,
           NEW p \in Proc, NEW h, Set(p, h),
           h.op = proc[p].op, h.snap = proc[p].snap, h.op # "approve", Guarded(h)
    PROVE  ReviewInv'
<1>1. h \in Handler  BY DEF TypeInv, ProcOK, Set
<1>2. HandlerInv(row, catalog, proc[p])  BY DEF ReviewInv
<1>3. HandlerInv(row, catalog, h)
  BY <1>2 DEF HandlerInv, Versioned, Unborn, Approving, Reader
<1> QED  BY <1>1, <1>3, StepKeeps DEF RowStep, ReviewInv

\* A write guarded on eventSeq, by a handler that returns or goes on.
LEMMA AdvanceKeepsRow ==
    ASSUME NEW r \in Row, NEW s \in Row, NEW keys, RowInv(r, keys),
           s.approvals = r.approvals, FullySigned(s), s.status # "ABSENT"
    PROVE  RowInv(s, keys)
BY DEF RowInv, LadderHeld, Signers

\* A row whose signatures and requirement stay is as fully signed as it was.
LEMMA SameSigned ==
    ASSUME NEW r \in Row, NEW s \in Row, FullySigned(r), s.status = r.status,
           s.approvals = r.approvals, s.required = r.required, s.earliest = r.earliest
    PROVE  FullySigned(s)
BY DEF FullySigned, Legacy

-----------------------------------------------------------------------------
(* The invariant is preserved, handler by handler.                         *)

\* The row an approver writes, when eventSeq has not moved since the read.
LEMMA ApprovedKeepsRow ==
    ASSUME NEW h \in Handler, row \in Row, catalog \in Catalogs, h.op = "approve",
           RowInv(row, signed), HandlerInv(row, catalog, h), Approved(h) \in Row,
           h.snap.seq = row.seq, h.by \notin signed, h.to \in Status \ {"ABSENT"}
    PROVE  /\ Advances(row, Approved(h))
           /\ RowInv(Approved(h), signed \cup {h.by})
<1> DEFINE a == row.approvals
           b == Append(a, h.by)
           s == Approved(h)
           n == Len(CurrentLadder(h.snap, catalog))
<1>1. h.snap \in Row /\ h.by \in Person  BY DEF Handler
<1>2. h.snap.approvals = a /\ a \in Seq(Person) /\ Len(a) \in Nat /\ Len(a) < 2
  BY DEF HandlerInv, Versioned, Reader, Approving, Row
<1>3. /\ s.approvals = b /\ s.seq = h.snap.seq + 1 /\ s.status = h.to
      /\ s.required = n /\ s.earliest = h.snap.earliest
  BY <1>1, <1>2 DEF Approved, Row
<1>4. Len(b) = Len(a) + 1 /\ b[Len(a) + 1] = h.by
      /\ \A i \in 1..Len(a) : b[i] = a[i]
  BY <1>1, <1>2
<1> HIDE DEF b
<1>5. Signers(s) = signed \cup {h.by}
  <2>1. Signers(s) = {b[i] : i \in 1..(Len(a) + 1)}  BY <1>3, <1>4 DEF Signers
  <2>2. signed = {a[i] : i \in 1..Len(a)}  BY DEF RowInv, Signers
  <2>3. 1..(Len(a) + 1) = 1..Len(a) \cup {Len(a) + 1}  BY <1>2
  <2> QED  BY <1>4, <2>1, <2>2, <2>3
<1>6. LadderHeld(s)
  <2>1. \A i \in 1..Len(a) : a[i] # h.by  BY DEF RowInv, Signers
  <2>2. ASSUME NEW i \in 1..Len(b), NEW j \in 1..Len(b), b[i] = b[j] PROVE i = j
    <3>1. i \in 1..Len(a) /\ j \in 1..Len(a) => i = j
      BY <1>4, <2>2 DEF RowInv, LadderHeld
    <3>2. i \in 1..Len(a) \/ i = Len(a) + 1  BY <1>2, <1>4
    <3>3. j \in 1..Len(a) \/ j = Len(a) + 1  BY <1>2, <1>4
    <3> QED  BY <1>4, <2>1, <2>2, <3>1, <3>2, <3>3
  <2>3. Requester \notin Signers(s)
    BY <1>5 DEF RowInv, LadderHeld, HandlerInv, Approving
  <2>4. Len(b) >= 2 => Role[b[2]] = "lead"
    <3>1. \A m \in Nat : m < 2 /\ m + 1 >= 2 => m = 1  OBVIOUS
    <3>2. Len(b) >= 2 => Len(a) = 1  BY <1>2, <1>4, <3>1
    <3> QED  BY <1>2, <1>4, <3>2 DEF HandlerInv, Approving
  <2> QED  BY <1>3, <2>2, <2>3, <2>4 DEF LadderHeld
<1>7. FullySigned(s)
  <2>1. h.to \in PostReview => h.to \notin Open  BY PostReviewStatus
  <2>2. h.to \notin Open => Len(a) + 1 >= n
    BY <1>2 DEF HandlerInv, Approving
  <2> QED  BY <1>3, <1>4, <2>1, <2>2 DEF FullySigned
<1>8. Advances(row, s)
  BY <1>3 DEF Advances, HandlerInv, Versioned, Reader
<1> QED  BY <1>3, <1>5, <1>6, <1>7, <1>8 DEF RowInv

\* Submit, approve, reject and the annotations.
LEMMA ReviewKeeps ==
    ASSUME TypeInv, TypeInv', ReviewInv, NEW p \in Proc, Review(p)
    PROVE  ReviewInv'
<1> DEFINE h == proc[p]
<1>0. /\ row \in Row /\ row' \in Row /\ catalog \in Catalogs /\ now \in Nat
      /\ h \in Handler /\ h.snap \in Row /\ Decided(h)
      /\ HandlerInv(row, catalog, h) /\ RowInv(row, signed)
  BY DEF TypeInv, RestOK, ProcOK, Handler, ReviewInv
<1>1. CASE SubmitStart(p)
  <2>1. PICK set \in Forms, s \in {NowSchedule} \cup {Window(w) : w \in Windows} :
           Set(p, [Begin("submit", "write") EXCEPT !.snap = SubmittedRow(set, s)])
    BY <1>1 DEF SubmitStart
  <2> DEFINE g == [Begin("submit", "write") EXCEPT !.snap = SubmittedRow(set, s)]
  <2>2. s \in [kind : {"now", "window"}, at : Nat, end : Nat]
    BY WindowTyped DEF NowSchedule
  <2>3. HandlerInv(row, catalog, g)
    BY <1>0, <1>1, <2>2, SubmittedTyped, ConstantTypes
       DEF HandlerInv, Versioned, Unborn, Approving, Guarded, Settlers, Reader,
           Begin, Idle, SubmitStart
  <2>4. \A q \in Proc : q # p => proc'[q] = Idle
    BY <1>1, <2>1 DEF SubmitStart, Set, TypeInv, ProcOK
  <2>5. proc'[p] = g  BY <2>1 DEF Set, TypeInv, ProcOK
  <2>6. OneSubmit'  BY <2>4 DEF OneSubmit, Idle
  <2>7. \A q \in Proc : HandlerInv(row, catalog, proc'[q])
    BY <2>3, <2>4, <2>5, IdleInv
  <2>8. UNCHANGED <<row, signed, catalog>>  BY <1>1 DEF SubmitStart, NoWrite, Quiet
  <2> QED  BY <1>0, <2>6, <2>7, <2>8 DEF ReviewInv
<1>2. CASE SubmitWrite(p)
  <2>1. row' = h.snap /\ UNCHANGED <<signed, catalog>> /\ Return(p) /\ h.op = "submit"
    BY <1>2 DEF SubmitWrite, At, Quiet
  <2>2. \A q \in Proc : q # p => proc[q].op = "none"
    <3>1. ASSUME NEW q \in Proc, q # p, proc[q].op # "none" PROVE FALSE
      <4>1. proc[q].op # "submit"  BY <2>1, <3>1 DEF ReviewInv, OneSubmit
      <4>2. row.status # "ABSENT"
        BY <3>1, <4>1 DEF ReviewInv, HandlerInv, Versioned, Reader
      <4> QED  BY <1>0, <2>1, <4>2 DEF HandlerInv, Unborn
    <3> QED  BY <3>1
  <2>3. RowInv(row', signed')
    <3>1. signed = {}  BY <1>0, <2>1 DEF HandlerInv, Unborn, RowInv, Signers
    <3>2. row'.approvals = <<>> /\ row'.status \in Open
      BY <1>0, <2>1 DEF HandlerInv, Unborn
    <3> QED
      BY <2>1, <3>1, <3>2, PostReviewStatus DEF RowInv, LadderHeld, FullySigned, Signers
  <2>4. \A q \in Proc : proc'[q] = IF q = p THEN Idle ELSE proc[q]
    BY <2>1 DEF Return, TypeInv, ProcOK
  <2>5. \A q \in Proc : HandlerInv(row', catalog, proc'[q])
    <3>1. ASSUME NEW q \in Proc, q # p PROVE HandlerInv(row', catalog, proc[q])
      BY <2>2, <3>1 DEF ReviewInv, HandlerInv, Versioned, Unborn, Approving, Reader
    <3> QED  BY <2>4, <3>1, IdleInv
  <2>6. OneSubmit'  BY <2>2, <2>4 DEF OneSubmit, Idle
  <2> QED  BY <2>1, <2>3, <2>5, <2>6 DEF ReviewInv
<1>3. ASSUME NEW u \in Person, ApproveRead(p, u) PROVE ReviewInv'
  <2> DEFINE n == Len(row.approvals) + 1
             ladder == CurrentLadder(row, catalog)
             to == IF n >= Len(ladder) THEN "WINDOW_EXPIRED" ELSE row.status
             done == n >= Len(ladder) /\ ~Infeasible(row.schedule, row.earliest, now)
             g == [Begin("approve", IF done THEN "freeze" ELSE "write")
                   EXCEPT !.by = u, !.at = now, !.to = to]
  <2>1. /\ Set(p, g) /\ NoWrite /\ row.status \in Open /\ u # Requester
        /\ n <= Len(ladder) /\ CanSign(ladder[n], Role[u])
    BY <1>3 DEF ApproveRead
  <2>2. /\ Len(ladder) \in 1..2 /\ Len(row.approvals) \in Nat
        /\ Len(ladder) = 2 => ladder[2] = "L3"
    <3>1. Len(row.approvals) \in Nat  BY <1>0 DEF Row
    <3> QED  BY <1>0, <3>1, CurrentTyped
  <2>3. g.op = "approve" /\ g.snap = row /\ g.by = u /\ g.to = to
        /\ g.pc = (IF done THEN "freeze" ELSE "write")
    BY DEF Begin, Idle
  <2> HIDE DEF g
  <2>4. Len(row.approvals) = 1 => Role[u] = "lead"
    BY <2>1, <2>2 DEF CanSign
  <2>5. HandlerInv(row, catalog, g)
    <3>1. Versioned(row, g)
      <4>1. row.seq \in Nat /\ row.status # "ABSENT" /\ FullySigned(row)
        BY <1>0, <2>1, PostReviewStatus DEF RowInv, Row
      <4> QED  BY <2>3, <4>1 DEF Versioned
    <3>2. Approving(catalog, g)
      BY <2>1, <2>2, <2>3, <2>4 DEF Approving
    <3> QED  BY <2>3, <3>1, <3>2 DEF HandlerInv, Unborn, Guarded, Settlers
  <2>6. g \in Handler  BY <2>1 DEF TypeInv, ProcOK, Set
  <2> QED  BY <2>1, <2>3, <2>5, <2>6, QuietKeeps
<1>4. CASE ApproveFreeze(p)
  <2>1. PICK to \in {"AWAITING_DEPLOY_APPROVAL", "APPLIED"} :
           Set(p, [h EXCEPT !.pc = "write", !.to = to])
    BY <1>4 DEF ApproveFreeze
  <2> DEFINE g == [h EXCEPT !.pc = "write", !.to = to]
  <2>2. g \in Handler  BY <2>1 DEF TypeInv, ProcOK, Set
  <2>3. h.op = "approve" /\ h.pc = "freeze"  BY <1>4 DEF ApproveFreeze, At
  <2>4. g.op = h.op /\ g.snap = h.snap /\ g.by = h.by /\ g.pc = "write"
    BY <1>0 DEF Handler
  <2>5. HandlerInv(row, catalog, g)
    BY <1>0, <2>3, <2>4 DEF HandlerInv, Versioned, Unborn, Approving, Guarded, Settlers, Reader
  <2> QED  BY <1>4, <2>1, <2>2, <2>3, <2>4, <2>5, QuietKeeps DEF ApproveFreeze
<1>5. CASE ApproveWrite(p)
  <2>1. h.op = "approve" /\ h.pc = "write" /\ Return(p) /\ UNCHANGED catalog
    BY <1>5 DEF ApproveWrite, At
  <2>2. CASE h.by \notin signed /\ row.seq = h.snap.seq
    <3>1. row' = Approved(h) /\ signed' = signed \cup {h.by}
      BY <1>5, <2>2 DEF ApproveWrite
    <3>2. h.to \in Status \ {"ABSENT"}
      BY <1>0, <2>1 DEF Decided, Status, Open, Cancellable
    <3>3. Advances(row, row') /\ RowInv(row', signed')
      BY <1>0, <2>1, <2>2, <3>1, <3>2, ApprovedKeepsRow
    <3> QED  BY <2>1, <3>3, ReturnKeeps DEF RowStep
  <2>3. CASE ~(h.by \notin signed /\ row.seq = h.snap.seq)
    BY <1>0, <1>5, <2>1, <2>3, ReturnKeeps DEF ApproveWrite, RowStep
  <2> QED  BY <2>2, <2>3
<1>6. CASE RejectStart(p)
  BY <1>6, BeginKeeps, PostReviewStatus
     DEF RejectStart, NoWrite, Quiet, Begin, Idle, Guarded, Settlers
<1>7. CASE RejectWrite(p)
  <2> DEFINE s == [h.snap EXCEPT !.status = "REJECTED", !.seq = @ + 1]
  <2>1. h.op = "reject" /\ Return(p) /\ Quiet /\ IfSeq(p, s)
    BY <1>7 DEF RejectWrite, At
  <2>2. CASE row.seq = h.snap.seq
    <3>1. row' = s  BY <2>1, <2>2 DEF IfSeq
    <3>2. s.status = "REJECTED" /\ s.approvals = row.approvals /\ s.seq = row.seq + 1
      BY <1>0, <2>1, <2>2 DEF HandlerInv, Versioned, Reader, Row
    <3>3. FullySigned(s)  BY <3>2, PostReviewStatus DEF FullySigned
    <3>4. RowInv(row', signed)  BY <1>0, <3>1, <3>2, <3>3, AdvanceKeepsRow
    <3>5. Advances(row, row')
      BY <1>0, <2>1, <3>1, <3>2 DEF Advances, HandlerInv, Versioned, Reader
    <3> QED  BY <2>1, <3>4, <3>5, ReturnKeeps DEF Quiet, RowStep
  <2>3. CASE row.seq # h.snap.seq
    BY <1>0, <2>1, <2>3, ReturnKeeps DEF IfSeq, Quiet, RowStep
  <2> QED  BY <2>2, <2>3
<1>8. CASE AnnotateStart(p)
  BY <1>8, BeginKeeps DEF AnnotateStart, NoWrite, Quiet, Begin, Idle, Guarded, Settlers
<1>9. CASE AnnotateWrite(p)
  <2> DEFINE s == [h.snap EXCEPT !.seq = @ + 1]
  <2>1. h.op = "annotate" /\ Return(p) /\ Quiet /\ IfSeq(p, s)
    BY <1>9 DEF AnnotateWrite, At
  <2>2. CASE row.seq = h.snap.seq
    <3>1. row' = s  BY <2>1, <2>2 DEF IfSeq
    <3>2. s.status = h.snap.status /\ s.approvals = h.snap.approvals
          /\ s.seq = row.seq + 1 /\ s.required = h.snap.required /\ s.earliest = h.snap.earliest
      BY <1>0, <2>2 DEF Row
    <3>3. h.snap.status # "ABSENT" /\ FullySigned(h.snap) /\ row.status # "ABSENT"
          /\ h.snap.approvals = row.approvals
      BY <1>0, <2>1, <2>2 DEF HandlerInv, Versioned, Reader
    <3>4. FullySigned(s)  BY <1>0, <3>1, <3>2, <3>3, SameSigned
    <3>5. RowInv(row', signed)
      BY <1>0, <3>1, <3>2, <3>3, <3>4, AdvanceKeepsRow
    <3>6. Advances(row, row')  BY <3>1, <3>2, <3>3 DEF Advances
    <3> QED  BY <2>1, <3>5, <3>6, ReturnKeeps DEF Quiet, RowStep
  <2>3. CASE row.seq # h.snap.seq
    BY <1>0, <2>1, <2>3, ReturnKeeps DEF IfSeq, Quiet, RowStep
  <2> QED  BY <2>2, <2>3
<1> QED
  BY <1>1, <1>2, <1>3, <1>4, <1>5, <1>6, <1>7, <1>8, <1>9 DEF Review

\* Moving the status within the part past review only touches the row.
LEMMA TouchStatus ==
    ASSUME NEW r \in Row, NEW new \in PostReview, r.status \in PostReview
    PROVE  Touches(r, [r EXCEPT !.status = new])
BY DEF Touches, Row

\* The settlers that cancel, rewindow and apply run first.
LEMMA SettleStepKeeps ==
    ASSUME TypeInv, TypeInv', ReviewInv, NEW p \in Proc,
           NEW from \in PostReview, NEW to \in PostReview,
           proc[p].snap.status = from, SettleStep(p, from, to)
    PROVE  ReviewInv'
<1> DEFINE h == proc[p]
           new == IF row.status = from THEN [h.snap EXCEPT !.status = to] ELSE row
           g == [h EXCEPT !.snap = new]
<1>0. /\ row \in Row /\ row' \in Row /\ h \in Handler /\ h.snap \in Row
      /\ HandlerInv(row, catalog, h) /\ RowInv(row, signed)
  BY DEF TypeInv, ProcOK, Handler, ReviewInv
<1>1. Set(p, g) /\ UNCHANGED <<signed, catalog>>
  BY DEF SettleStep, Set, Quiet, TypeInv, ProcOK
<1>2. g \in Handler  BY <1>1 DEF TypeInv, ProcOK, Set
<1>3. h.op \in {"cancel", "rewindow", "bundle"} /\ h.pc = "settle"
  BY <1>0 DEF HandlerInv, Guarded, SettleStep
<1>4. g.op = h.op /\ g.pc = h.pc /\ g.snap = new  BY <1>0 DEF Handler
<1> HIDE DEF g
<1>5. Unborn(row', g) /\ Approving(catalog, g) /\ Guarded(g)
  BY <1>3, <1>4 DEF Unborn, Approving, Guarded, Settlers
<1>6. CASE row.status = from
  <2>1. row' = [row EXCEPT !.status = to]  BY <1>6 DEF SettleStep, IfStatus
  <2>2. Touches(row, row')  BY <1>0, <1>6, <2>1, TouchStatus
  <2>3. Touches(h.snap, new)  BY <1>0, <1>6, TouchStatus
  <2>4. FullySigned(h.snap) /\ Versioned(row, h) /\ Reader(h) /\ Reader(g)
    BY <1>0, <1>3, <1>4 DEF HandlerInv, Versioned, Reader
  <2>5. FullySigned(new)  BY <2>3, <2>4 DEF Touches, FullySigned, Legacy
  <2>6. Versioned(row', g)
    BY <1>4, <2>2, <2>3, <2>4, <2>5, PostReviewStatus DEF Versioned, Touches
  <2>7. RowInv(row', signed')  BY <1>0, <1>1, <2>2, TouchKeepsRow
  <2>8. HandlerInv(row', catalog, g)  BY <1>5, <2>6 DEF HandlerInv
  <2> QED  BY <1>1, <1>2, <1>3, <1>4, <2>2, <2>7, <2>8, StepKeeps DEF RowStep
<1>7. CASE row.status # from
  <2>1. row' = row /\ new = row  BY <1>7 DEF SettleStep, IfStatus
  <2>2. row.status # "ABSENT"
    BY <1>0, <1>3 DEF HandlerInv, Versioned, Reader
  <2> QED  BY <1>1, <1>3, <1>4, <1>5, <2>1, <2>2, BeginKeeps
<1> QED  BY <1>6, <1>7

\* The settlers a read runs.
LEMMA SettleKeeps ==
    ASSUME TypeInv, TypeInv', ReviewInv, NEW p \in Proc, Settle(p)
    PROVE  ReviewInv'
<1> DEFINE h == proc[p]
<1>0. /\ row \in Row /\ h \in Handler /\ h.snap \in Row /\ Decided(h)
      /\ HandlerInv(row, catalog, h)
  BY DEF TypeInv, ProcOK, Handler, ReviewInv
<1>s. /\ {"APPROVED_COOLING", "AWAITING_DEPLOY_APPROVAL", "WINDOW_EXPIRED", "APPLYING",
          "APPLIED", "HALTED_APPLY_FAILED"} \subseteq PostReview
      /\ PostReview \subseteq Status
      /\ \A r : CoolingTarget(r) \in PostReview
  BY PostReviewStatus DEF Cancellable, CoolingTarget, PostReview
<1>g. h.op \in Settlers => h.snap.status \in PostReview  BY <1>0 DEF HandlerInv, Guarded
<1>w. ASSUME NEW op \in Settlers, NEW new \in PostReview,
             StatusWrite(p, op, [row EXCEPT !.status = new])
      PROVE  ReviewInv'
  <2>1. h.snap.status \in PostReview  BY <1>g, <1>w DEF StatusWrite, At
  <2> QED  BY <1>0, <1>s, <1>w, <2>1, TouchStatus, StatusTyped, StatusWriteKeeps
<1>b. ASSUME NEW g, Set(p, g), NoWrite, row.status \in PostReview,
             g.op \in Settlers, g.snap = row, g.pc # "settle"
      PROVE  ReviewInv'
  BY <1>b, BeginKeeps, PostReviewStatus DEF NoWrite, Quiet, Guarded, Settlers
<1>1. CASE CoolingStart(p)
  BY <1>1, <1>b, <1>s DEF CoolingStart, CoolingElapsed, Begin, Idle, Settlers
<1>2. CASE CoolingWrite(p)
  <2>1. h.to \in PostReview
    BY <1>0, <1>2, <1>s DEF CoolingWrite, StatusWrite, At, Decided
  <2> QED  BY <1>2, <1>w, <2>1 DEF CoolingWrite, Settlers
<1>3. CASE WindowStart(p)
  BY <1>3, <1>b, <1>s DEF WindowStart, NeedsWindowSettlement, Begin, Idle, Settlers
<1>4. CASE WindowWrite(p)  BY <1>4, <1>s, <1>w DEF WindowWrite, Settlers
<1>5. CASE HoldStart(p)
  BY <1>5, <1>b, <1>s DEF HoldStart, NeedsFrozenHoldSettlement, Begin, Idle, Settlers
<1>6. CASE HoldFreeze(p)
  <2>1. CASE Return(p)  BY <1>6, <2>1, QuietReturnKeeps DEF HoldFreeze
  <2>2. CASE Goto(p, "write")
    <3>1. Set(p, [h EXCEPT !.pc = "write"])  BY <2>2 DEF Goto, Set
    <3>2. h.op = "hold"  BY <1>6 DEF HoldFreeze, At
    <3> QED
      BY <1>0, <1>6, <1>g, <3>1, <3>2, ContinueKeeps
         DEF HoldFreeze, NoWrite, Quiet, Guarded, Settlers, Handler
  <2> QED  BY <1>6, <2>1, <2>2 DEF HoldFreeze
<1>7. CASE HoldWrite(p)  BY <1>7, <1>s, <1>w DEF HoldWrite, Settlers
<1>8. CASE LeaseStart(p)
  BY <1>8, <1>b, <1>s DEF LeaseStart, NeedsApplyClaimSettlement, Begin, Idle, Settlers
<1>9. CASE LeaseWrite(p)  BY <1>9, <1>s, <1>w DEF LeaseWrite, Settlers
<1>10. CASE SettleCoolingFirst(p)
  BY <1>10, <1>s, SettleStepKeeps DEF SettleCoolingFirst, CoolingElapsed
<1>11. CASE SettleWindowFirst(p)
  BY <1>11, <1>s, SettleStepKeeps DEF SettleWindowFirst, NeedsWindowSettlement
<1> QED
  BY <1>1, <1>2, <1>3, <1>4, <1>5, <1>6, <1>7, <1>8, <1>9, <1>10, <1>11 DEF Settle

\* Cancel and rewindow.
LEMMA RescheduleKeeps ==
    ASSUME TypeInv, TypeInv', ReviewInv, NEW p \in Proc, Reschedule(p)
    PROVE  ReviewInv'
<1> DEFINE h == proc[p]
<1>0. /\ row \in Row /\ h \in Handler /\ h.snap \in Row
      /\ HandlerInv(row, catalog, h)
  BY DEF TypeInv, ProcOK, Handler, ReviewInv
<1>s. {"AWAITING_DEPLOY_APPROVAL", "CANCELLED"} \subseteq PostReview
      /\ PostReview \subseteq Status
  BY PostReviewStatus DEF Cancellable, PostReview
<1>b. ASSUME NEW g, Set(p, g), NoWrite, row.status \in Cancellable,
             g.op \in {"cancel", "rewindow"}, g.snap = row, g.pc = "settle"
      PROVE  ReviewInv'
  BY <1>b, BeginKeeps, PostReviewStatus DEF NoWrite, Quiet, Guarded, Settlers
<1>c. ASSUME NEW g, Set(p, g), NoWrite, h.op \in {"cancel", "rewindow"}, g.op = h.op,
             g.snap = h.snap, g.pc = "write", h.snap.status \in Cancellable
      PROVE  ReviewInv'
  BY <1>c, ContinueKeeps, PostReviewStatus DEF NoWrite, Quiet, Guarded, Settlers
<1>1. CASE CancelStart(p)  BY <1>1, <1>b DEF CancelStart, Begin, Idle
<1>2. CASE CancelDecide(p)
  <2>1. CASE Return(p)  BY <1>2, <2>1, QuietReturnKeeps DEF CancelDecide
  <2>2. CASE Goto(p, "write") /\ \E u \in Person : MayCancel(h.snap, u, now)
    <3>1. Set(p, [h EXCEPT !.pc = "write"])  BY <2>2 DEF Goto, Set
    <3>2. h.op = "cancel" /\ NoWrite /\ h.snap.status \in Cancellable
      BY <1>2, <2>2 DEF CancelDecide, At, MayCancel
    <3> QED  BY <1>0, <1>c, <3>1, <3>2 DEF Handler
  <2> QED  BY <1>2, <2>1, <2>2 DEF CancelDecide
<1>3. CASE CancelWrite(p)
  <2>1. h.snap.status \in PostReview
    BY <1>0, <1>3 DEF HandlerInv, Guarded, CancelWrite, StatusWrite, At
  <2> QED
    BY <1>0, <1>3, <1>s, <2>1, TouchStatus, StatusTyped, StatusWriteKeeps DEF CancelWrite
<1>4. CASE RewindowStart(p)  BY <1>4, <1>b DEF RewindowStart, Begin, Idle
<1>5. CASE RewindowDecide(p)
  <2>1. CASE Return(p)  BY <1>5, <2>1, QuietReturnKeeps DEF RewindowDecide
  <2>2. ASSUME NEW u \in Person, NEW w \in Windows, MayRewindow(h.snap, u, w, now),
               Set(p, [h EXCEPT !.pc = "write", !.win = Window(w)])
        PROVE  ReviewInv'
    <3>1. h.op = "rewindow" /\ NoWrite  BY <1>5 DEF RewindowDecide, At
    <3>2. h.snap.status \in Cancellable  BY <2>2 DEF MayRewindow, Cancellable
    <3> QED  BY <1>0, <1>c, <2>2, <3>1, <3>2 DEF Handler
  <2> QED  BY <1>5, <2>1, <2>2 DEF RewindowDecide
<1>6. CASE RewindowWrite(p)
  <2> DEFINE s == [row EXCEPT !.status = "AWAITING_DEPLOY_APPROVAL", !.schedule = h.win]
  <2>1. h.snap.status \in PostReview
    BY <1>0, <1>6 DEF HandlerInv, Guarded, RewindowWrite, StatusWrite, At
  <2>2. row.status \in PostReview => Touches(row, s)  BY <1>0, <1>s DEF Touches, Row
  <2>3. s \in Row  BY <1>0, <1>s DEF Row, Handler
  <2> QED  BY <1>6, <2>1, <2>2, <2>3, StatusWriteKeeps DEF RewindowWrite
<1> QED  BY <1>1, <1>2, <1>3, <1>4, <1>5, <1>6 DEF Reschedule

\* The two writes of a bundle, the claim and the outcome.
LEMMA BundleWriteKeeps ==
    ASSUME TypeInv, TypeInv', ReviewInv, NEW p \in Proc, proc[p].op = "bundle",
           UNCHANGED <<signed, catalog>>, NEW b,
           \/ row' = [row EXCEPT !.seq = @ + 1, !.bundle = b]
           \/ row' = row,
           \/ Return(p)
           \/ \E pc \in Pcs \ {"settle"} : Goto(p, pc)
    PROVE  ReviewInv'
<1> DEFINE h == proc[p]
<1>0. /\ row \in Row /\ row' \in Row /\ h \in Handler
      /\ HandlerInv(row, catalog, h) /\ RowInv(row, signed)
  BY DEF TypeInv, ProcOK, ReviewInv
<1>1. row.status # "ABSENT"  BY <1>0 DEF HandlerInv, Versioned, Reader
<1>2. RowStep(row, row') /\ RowInv(row', signed)
  <2>1. CASE row' = row  BY <1>0, <2>1 DEF RowStep
  <2>2. CASE row' = [row EXCEPT !.seq = @ + 1, !.bundle = b]
    <3>1. /\ row'.status = row.status /\ row'.approvals = row.approvals
          /\ row'.required = row.required /\ row'.earliest = row.earliest
          /\ row'.seq = row.seq + 1
      BY <1>0, <2>2 DEF Row
    <3>2. FullySigned(row')  BY <1>0, <3>1, SameSigned DEF RowInv
    <3> QED  BY <1>0, <1>1, <3>1, <3>2, AdvanceKeepsRow DEF RowStep, Advances
  <2> QED  BY <2>1, <2>2
<1>3. CASE Return(p)  BY <1>2, <1>3, ReturnKeeps
<1>4. ASSUME NEW pc \in Pcs \ {"settle"}, Goto(p, pc) PROVE ReviewInv'
  <2> DEFINE g == [h EXCEPT !.pc = pc]
  <2>1. Set(p, g)  BY <1>4 DEF Goto, Set
  <2>2. g \in Handler /\ g.op = "bundle" /\ g.snap = h.snap /\ g.pc # "settle"
    BY <1>0 DEF Handler
  <2>3. HandlerInv(row, catalog, g)
    BY <1>0, <2>2 DEF HandlerInv, Versioned, Unborn, Approving, Guarded, Settlers, Reader
  <2>4. HandlerInv(row', catalog, g)
    BY <1>0, <1>2, <2>2, <2>3, RowStepKeepsHandler
  <2> QED  BY <1>2, <2>1, <2>2, <2>4, StepKeeps
<1> QED  BY <1>3, <1>4

\* The bundle.
LEMMA BundleKeeps ==
    ASSUME TypeInv, TypeInv', ReviewInv, NEW p \in Proc, Bundle(p)
    PROVE  ReviewInv'
<1> DEFINE h == proc[p]
<1>0. /\ row \in Row /\ h \in Handler
      /\ HandlerInv(row, catalog, h) /\ RowInv(row, signed)
  BY DEF TypeInv, ProcOK, ReviewInv
<1>c. ASSUME NEW g, Set(p, g), UNCHANGED <<row, signed, catalog>>, h.op = "bundle",
             g.op = h.op, g.snap = h.snap, g.pc # "settle"
      PROVE  ReviewInv'
  BY <1>c, ContinueKeeps DEF Guarded, Settlers
<1>1. CASE BundleStart(p)
  <2>1. row.status # "ABSENT"
    BY <1>1 DEF BundleStart, BundleEligible, Cancellable
  <2> QED
    BY <1>1, <2>1, BeginKeeps DEF BundleStart, NoWrite, Quiet, Guarded, Settlers, Begin, Idle
<1>2. CASE BundleDecide(p)
  <2>1. CASE Return(p)  BY <1>2, <2>1, QuietReturnKeeps DEF BundleDecide
  <2>2. ASSUME NEW to, Set(p, [h EXCEPT !.pc = "claim", !.at = now, !.to = to])
        PROVE  ReviewInv'
    BY <1>0, <1>2, <1>c, <2>2 DEF BundleDecide, At, NoWrite, Quiet, Handler
  <2> QED  BY <1>2, <2>1, <2>2 DEF BundleDecide
<1>3. CASE BundleClaim(p)
  BY <1>3, BundleWriteKeeps DEF BundleClaim, At, IfSeq, Quiet, Pcs
<1>4. CASE BundleUnresolved(p)
  BY <1>4, QuietReturnKeeps DEF BundleUnresolved
<1>5. CASE BundleResolve(p)
  BY <1>5, BundleWriteKeeps DEF BundleResolve, At, NoWrite, Quiet, Pcs
<1>6. CASE BundleFail(p)
  BY <1>0, <1>6, <1>c DEF BundleFail, At, NoWrite, Quiet, Handler
<1>7. CASE BundleLand(p)
  BY <1>7, BundleWriteKeeps DEF BundleLand, At, Pcs
<1>8. CASE BundleTrigger(p)
  <2>1. PICK to : Set(p, [h EXCEPT !.pc = "outcome", !.to = to])
    BY <1>8 DEF BundleTrigger
  <2> QED  BY <1>0, <1>8, <1>c, <2>1 DEF BundleTrigger, At, Handler
<1>9. CASE OutcomeRead(p)
  <2>1. CASE Return(p)  BY <1>9, <2>1, QuietReturnKeeps DEF OutcomeRead
  <2>2. CASE Set(p, [h EXCEPT !.pc = "record", !.snap = row])
    <3> DEFINE g == [h EXCEPT !.pc = "record", !.snap = row]
    <3>1. h.op = "bundle"  BY <1>9 DEF OutcomeRead, At
    <3>2. row.status # "ABSENT"  BY <1>0, <3>1 DEF HandlerInv, Versioned, Reader
    <3>3. g.op = "bundle" /\ g.snap = row /\ g.pc = "record"
      BY <1>0, <3>1 DEF Handler
    <3> QED
      BY <1>9, <2>2, <3>2, <3>3, BeginKeeps DEF OutcomeRead, NoWrite, Quiet, Guarded, Settlers
  <2> QED  BY <1>9, <2>1, <2>2 DEF OutcomeRead
<1>10. CASE OutcomeWrite(p)
  BY <1>10, BundleWriteKeeps DEF OutcomeWrite, At, IfSeq, Quiet, Pcs
<1> QED
  BY <1>1, <1>2, <1>3, <1>4, <1>5, <1>6, <1>7, <1>8, <1>9, <1>10 DEF Bundle

\* A scheduler tick.
LEMMA TickKeeps ==
    ASSUME TypeInv, TypeInv', ReviewInv, NEW p \in Proc, Tick(p)
    PROVE  ReviewInv'
<1> DEFINE h == proc[p]
<1>0. /\ row \in Row /\ row' \in Row /\ h \in Handler /\ Decided(h)
      /\ HandlerInv(row, catalog, h) /\ RowInv(row, signed)
  BY DEF TypeInv, ProcOK, ReviewInv
<1>s. {"AWAITING_DEPLOY_APPROVAL", "APPLYING", "APPLIED", "HALTED_DRIFT",
        "HALTED_APPLY_FAILED"} \subseteq PostReview
      /\ PostReview \subseteq Status
  BY PostReviewStatus DEF Cancellable, PostReview
<1>g. h.op = "tick" => h.snap.status \in PostReview
  BY <1>0 DEF HandlerInv, Guarded, Settlers
<1>b. ASSUME NEW g, Set(p, g), NoWrite, row.status \in PostReview,
             g.op = "tick", g.snap = row, g.pc # "settle"
      PROVE  ReviewInv'
  BY <1>b, BeginKeeps, PostReviewStatus DEF NoWrite, Quiet, Guarded, Settlers
<1>c. ASSUME NEW g, Set(p, g), UNCHANGED <<row, signed, catalog>>, h.op = "tick",
             g.op = h.op, g.snap = h.snap, g.pc # "settle"
      PROVE  ReviewInv'
  BY <1>c, <1>g, ContinueKeeps DEF Guarded, Settlers
<1>n. ASSUME NEW pc, pc # "settle", Goto(p, pc), NoWrite, h.op = "tick"
      PROVE  ReviewInv'
  <2> DEFINE g == [h EXCEPT !.pc = pc]
  <2>1. Set(p, g)  BY <1>n DEF Goto, Set
  <2>2. g.op = h.op /\ g.snap = h.snap /\ g.pc = pc  BY <1>0 DEF Handler
  <2> QED  BY <1>c, <1>n, <2>1, <2>2 DEF NoWrite, Quiet
<1>1. CASE TickStart(p)
  BY <1>1, <1>b, <1>s DEF TickStart, IsDue, Begin, Idle
<1>2. CASE TickSweep(p)
  BY <1>2, <1>b, <1>s DEF TickSweep, NeedsApplyClaimSettlement, Begin, Idle
<1>3. CASE TickFreeze(p)
  BY <1>3, <1>n, QuietReturnKeeps DEF TickFreeze, At
<1>4. CASE TickHold(p)  BY <1>4, QuietReturnKeeps DEF TickHold
<1>5. CASE TickHalt(p)
  BY <1>0, <1>5, <1>c DEF TickHalt, At, NoWrite, Quiet, Handler
<1>6. CASE TickProceed(p)  BY <1>6, <1>n DEF TickProceed, At
<1>7. CASE TickWrite(p)
  <2>1. h.op = "tick" /\ h.to \in PostReview
    BY <1>0, <1>7, <1>s DEF TickWrite, StatusWrite, At, Decided
  <2> QED
    BY <1>0, <1>7, <1>g, <1>s, <2>1, TouchStatus, StatusTyped, StatusWriteKeeps DEF TickWrite
<1>8. CASE TickClaim(p)
  <2> DEFINE s == [row EXCEPT !.status = "APPLYING", !.claimedAt = h.at]
  <2>1. h.op = "tick" /\ UNCHANGED <<signed, catalog>>  BY <1>8 DEF TickClaim, At, Quiet
  <2>2. CASE row.status = "AWAITING_DEPLOY_APPROVAL"
    <3>1. row' = s /\ Goto(p, "apply")  BY <1>8, <2>2 DEF TickClaim, IfStatus
    <3>2. Touches(row, row')  BY <1>0, <1>s, <2>2, <3>1 DEF Touches, Row
    <3>3. RowInv(row', signed')  BY <1>0, <2>1, <3>2, TouchKeepsRow
    <3> DEFINE g == [h EXCEPT !.pc = "apply"]
    <3>4. Set(p, g) /\ g \in Handler /\ g.op = "tick" /\ g.snap = h.snap /\ g.pc = "apply"
      BY <1>0, <2>1, <3>1 DEF Goto, Set, Handler, Pcs
    <3>5. HandlerInv(row, catalog, g)
      BY <1>0, <1>g, <2>1, <3>4
         DEF HandlerInv, Versioned, Unborn, Approving, Guarded, Settlers, Reader
    <3>6. HandlerInv(row', catalog, g)
      BY <1>0, <3>2, <3>4, <3>5, RowStepKeepsHandler DEF RowStep
    <3> QED  BY <2>1, <3>2, <3>3, <3>4, <3>6, StepKeeps DEF RowStep
  <2>3. CASE row.status # "AWAITING_DEPLOY_APPROVAL"
    BY <1>0, <1>8, <2>1, <2>3, ReturnKeeps DEF TickClaim, IfStatus, RowStep
  <2> QED  BY <2>2, <2>3
<1>9. CASE TickApply(p)
  <2>1. PICK to : Set(p, [h EXCEPT !.pc = "finish", !.to = to])
    BY <1>9 DEF TickApply
  <2> QED  BY <1>0, <1>9, <1>c, <2>1 DEF TickApply, At, Handler
<1>10. CASE TickFinish(p)
  <2>1. h.to \in PostReview /\ Return(p) /\ UNCHANGED <<signed, catalog>>
    BY <1>0, <1>10, <1>s DEF TickFinish, At, Decided, Quiet
  <2>2. row' = row \/ Touches(row, row')
    BY <1>0, <1>10, <1>s, <2>1, TouchStatus DEF TickFinish, IfStatus
  <2>3. RowInv(row', signed')  BY <1>0, <2>1, <2>2, TouchKeepsRow
  <2> QED  BY <2>1, <2>2, <2>3, ReturnKeeps DEF RowStep
<1> QED
  BY <1>1, <1>2, <1>3, <1>4, <1>5, <1>6, <1>7, <1>8, <1>9, <1>10 DEF Tick

\* A stored row of an earlier build is sound and no handler runs.
LEMMA InitReview == Init => ReviewInv
<1> SUFFICES ASSUME Init PROVE ReviewInv  OBVIOUS
<1>1. RowInv(row, signed)
  BY StoredRows DEF Init, RowInv, AbsentRow
<1>2. \A p \in Proc : proc[p] = Idle  BY DEF Init
<1>3. OneSubmit  BY <1>2 DEF OneSubmit, Idle
<1> QED  BY <1>1, <1>2, <1>3, IdleInv DEF ReviewInv

\* Every step of the system keeps the invariant.
LEMMA NextReview == TypeInv /\ TypeInv' /\ ReviewInv /\ [Next]_vars => ReviewInv'
<1> SUFFICES ASSUME TypeInv, TypeInv', ReviewInv, [Next]_vars PROVE ReviewInv'
  OBVIOUS
<1>1. ASSUME NEW p \in Proc, GiveUp(p) PROVE ReviewInv'
  BY <1>1, QuietReturnKeeps DEF GiveUp
<1>2. ASSUME NEW p \in Proc, Step(p) PROVE ReviewInv'
  BY <1>1, <1>2, ReviewKeeps, SettleKeeps, RescheduleKeeps, BundleKeeps, TickKeeps DEF Step
<1>3. CASE UNCHANGED <<row, signed, catalog, proc>>
  <2>1. RowInv(row', signed') /\ OneSubmit'  BY <1>3 DEF ReviewInv, OneSubmit
  <2>2. \A p \in Proc : HandlerInv(row', catalog', proc'[p])  BY <1>3 DEF ReviewInv
  <2> QED  BY <2>1, <2>2 DEF ReviewInv
<1>4. CASE Unfreeze
  <2>1. \A p \in Proc : proc[p] \in Handler  BY DEF TypeInv, ProcOK
  <2>2. \A p \in Proc :
           /\ proc'[p].op = proc[p].op /\ proc'[p].pc = proc[p].pc
           /\ proc'[p].snap = proc[p].snap /\ proc'[p].by = proc[p].by
           /\ proc'[p].to = proc[p].to
    BY <1>4, <2>1 DEF Unfreeze, Handler
  <2>3. UNCHANGED <<row, signed, catalog>>  BY <1>4 DEF Unfreeze
  <2>4. \A p \in Proc : HandlerInv(row, catalog, proc'[p])
    BY <2>2 DEF ReviewInv, HandlerInv, Versioned, Unborn, Approving, Guarded, Reader
  <2>5. OneSubmit'  BY <2>2 DEF ReviewInv, OneSubmit
  <2> QED  BY <2>3, <2>4, <2>5 DEF ReviewInv
<1>5. CASE Restart
  <2>1. UNCHANGED <<row, signed>> /\ \A p \in Proc : proc'[p] = Idle
    BY <1>5 DEF Restart
  <2>2. OneSubmit'  BY <2>1 DEF OneSubmit, Idle
  <2> QED  BY <2>1, <2>2, IdleInv DEF ReviewInv
<1> QED
  BY <1>2, <1>3, <1>4, <1>5 DEF Next, Freeze, ClockTick, vars

\* In every behaviour the stored row is sound and every handler in flight
\* holds a version of it: the induction the results below are read off.
THEOREM ReviewInvariant == Spec => [](TypeInv /\ ReviewInv)
BY InitTyped, NextTyped, InitReview, NextReview, PTL DEF Spec

\* No request gets past its review, and none is applied, without every
\* signature its stored requirement asks for: whatever approvals, rejects,
\* annotations, settlers, ticks, bundles, crashes and catalog deployments
\* overlap, and however many people and workers there are.
THEOREM QuorumAlwaysMet == Spec => []QuorumMet
<1>1. ReviewInv => QuorumMet  BY DEF ReviewInv, RowInv, QuorumMet
<1> QED  BY <1>1, ReviewInvariant, PTL

\* The signatures on a row are those of distinct people, none of them the
\* requester's, the second a lead's.
THEOREM SignaturesAlwaysValid == Spec => []SignaturesValid
<1>1. ReviewInv => SignaturesValid  BY DEF ReviewInv, RowInv, SignaturesValid
<1> QED  BY <1>1, ReviewInvariant, PTL

\* The row's signatures and the dedupe rows say the same: an account that can
\* not sign again has its signature on the row.
THEOREM ApprovalsNeverLost == Spec => []ApprovalsKept
<1>1. ReviewInv => ApprovalsKept  BY DEF ReviewInv, RowInv, ApprovalsKept
<1> QED  BY <1>1, ReviewInvariant, PTL

-----------------------------------------------------------------------------
(* The requirement in force.                                               *)

\* Only approve and reject take a request out of its review.
LEMMA OnlyApproveCompletes ==
    ASSUME TypeInv, TypeInv', ReviewInv, NEW p \in Proc, Step(p), row.status \in Open,
           row'.status \notin Open \cup {"REJECTED"}
    PROVE  ApproveWrite(p) /\ row' # row
<1> DEFINE h == proc[p]
<1>0. /\ row \in Row /\ h \in Handler /\ h.snap \in Row /\ HandlerInv(row, catalog, h)
  BY DEF TypeInv, ProcOK, Handler, ReviewInv
<1>1. row' # row  OBVIOUS
<1>2. ASSUME NEW op, NEW new, StatusWrite(p, op, new), h.snap.status \in PostReview
      PROVE  FALSE
  BY <1>1, <1>2, PostReviewStatus DEF StatusWrite, IfStatus
<1>3. ~Settle(p)
  <2>1. ~NoWrite  BY <1>1 DEF NoWrite
  <2>2. ASSUME NEW op \in Settlers, NEW new, StatusWrite(p, op, new) PROVE FALSE
    BY <1>0, <1>2, <2>2 DEF HandlerInv, Guarded, StatusWrite, At
  <2>3. ASSUME NEW from \in PostReview, NEW to, SettleStep(p, from, to) PROVE FALSE
    BY <1>1, <2>3, PostReviewStatus DEF SettleStep, IfStatus
  <2>4. ~CoolingWrite(p) /\ ~WindowWrite(p) /\ ~HoldWrite(p) /\ ~LeaseWrite(p)
    BY <2>2 DEF CoolingWrite, WindowWrite, HoldWrite, LeaseWrite, Settlers
  <2>5. ~SettleCoolingFirst(p) /\ ~SettleWindowFirst(p)
    BY <2>3, PostReviewStatus DEF SettleCoolingFirst, SettleWindowFirst, Cancellable
  <2> QED
    BY <2>1, <2>4, <2>5
       DEF Settle, CoolingStart, WindowStart, HoldStart, HoldFreeze, LeaseStart
<1>4. ~Reschedule(p)
  <2>1. ~NoWrite  BY <1>1 DEF NoWrite
  <2>2. ASSUME NEW op \in {"cancel", "rewindow"}, NEW new, StatusWrite(p, op, new)
        PROVE  FALSE
    BY <1>0, <1>2, <2>2 DEF HandlerInv, Guarded, StatusWrite, At
  <2> QED
    BY <2>1, <2>2
       DEF Reschedule, CancelStart, CancelDecide, CancelWrite,
           RewindowStart, RewindowDecide, RewindowWrite
<1>5. ~Bundle(p)
  <2>1. row'.status # row.status  OBVIOUS
  <2>2. \A b : [row EXCEPT !.seq = @ + 1, !.bundle = b].status = row.status
    BY <1>0 DEF Row
  <2>3. ~BundleClaim(p) /\ ~OutcomeWrite(p)
    BY <2>1, <2>2 DEF BundleClaim, OutcomeWrite, IfSeq
  <2> QED
    BY <1>1, <2>3
       DEF Bundle, BundleStart, BundleDecide, BundleUnresolved, BundleResolve, BundleFail,
           BundleLand, BundleTrigger, OutcomeRead, NoWrite
<1>6. ~Tick(p)
  <2>1. ~TickWrite(p)
    BY <1>0, <1>2 DEF TickWrite, HandlerInv, Guarded, Settlers, StatusWrite, At
  <2>2. ~TickClaim(p) /\ ~TickFinish(p)
    BY <1>1 DEF TickClaim, TickFinish, IfStatus, Open
  <2> QED
    BY <1>1, <2>1, <2>2
       DEF Tick, TickStart, TickSweep, TickFreeze, TickHold, TickHalt, TickProceed,
           TickApply, NoWrite
<1>7. Review(p)
  BY <1>1, <1>3, <1>4, <1>5, <1>6 DEF Step, GiveUp, NoWrite
<1>8. ~SubmitWrite(p)
  BY <1>0, PostReviewStatus DEF SubmitWrite, At, HandlerInv, Unborn
<1>9. ~RejectWrite(p)
  BY <1>0, <1>1 DEF RejectWrite, IfSeq, Row
<1>10. ~AnnotateWrite(p)
  <2>1. SUFFICES ASSUME AnnotateWrite(p) PROVE FALSE  OBVIOUS
  <2>2. row' = [h.snap EXCEPT !.seq = @ + 1] /\ row.seq = h.snap.seq /\ h.op = "annotate"
    BY <1>1, <2>1 DEF AnnotateWrite, IfSeq, At
  <2>3. h.snap = row  BY <1>0, <2>2 DEF HandlerInv, Versioned, Reader
  <2> QED  BY <1>0, <2>2, <2>3 DEF Row
<1> QED
  BY <1>1, <1>7, <1>8, <1>9, <1>10
     DEF Review, SubmitStart, ApproveRead, ApproveFreeze, RejectStart, AnnotateStart, NoWrite

\* A review completes only on the signatures that the catalog in force at
\* that moment asks for, not merely those asked for at submit.
THEOREM LiveRequirementMet == Spec => MeetsLiveRequirement
<1> DEFINE Completed ==
             row.status \in Open /\ row'.status \notin Open \cup {"REJECTED"}
               => Len(row'.approvals) >= Len(CurrentLadder(row, catalog))
<1>1. TypeInv /\ TypeInv' /\ ReviewInv /\ [Next]_vars => [Completed]_vars
  <2> SUFFICES ASSUME TypeInv, TypeInv', ReviewInv, Next,
                      row.status \in Open, row'.status \notin Open \cup {"REJECTED"}
               PROVE  Len(row'.approvals) >= Len(CurrentLadder(row, catalog))
    OBVIOUS
  <2>1. PICK p \in Proc : Step(p)
    BY DEF Next, Freeze, Unfreeze, ClockTick, Restart
  <2>2. ApproveWrite(p) /\ row' # row  BY <2>1, OnlyApproveCompletes
  <2> DEFINE h == proc[p]
  <2>3. /\ h \in Handler /\ row \in Row /\ h.op = "approve"
        /\ HandlerInv(row, catalog, h)
    BY <2>2 DEF TypeInv, ProcOK, ReviewInv, ApproveWrite, At
  <2>4. row' = Approved(h) /\ row.seq = h.snap.seq  BY <2>2 DEF ApproveWrite
  <2>5. h.snap = row  BY <2>3, <2>4 DEF HandlerInv, Versioned, Reader
  <2>6. row'.status = h.to /\ row'.approvals = Append(row.approvals, h.by)
    BY <2>3, <2>4, <2>5 DEF Approved, Row
  <2>7. Len(row'.approvals) = Len(row.approvals) + 1
    BY <2>3, <2>6 DEF Handler, Row
  <2>8. Len(row.approvals) + 1 >= Len(CurrentLadder(row, catalog))
    BY <2>3, <2>5, <2>6 DEF HandlerInv, Approving
  <2> QED  BY <2>7, <2>8
<1>2. Spec => [][Completed]_vars
  BY <1>1, InitTyped, NextTyped, InitReview, NextReview, PTL DEF Spec
<1> QED  BY <1>2 DEF MeetsLiveRequirement

-----------------------------------------------------------------------------
(***************************************************************************)
(* The bundle's claim is exclusive, and a landed commit stays on record:   *)
(* BundleExclusive and LandedRemembered hold in every behaviour of         *)
(* ChangeRequest.                                                          *)
(*                                                                         *)
(* The argument.  Claims follow one another at least a lease apart, since  *)
(* a claim is a CAS on the eventSeq of a read whose bundle was not live;   *)
(* so of two runs one has outlived its lease.  A run whose claim is still  *)
(* on the row is the latest, and took over the landed commit with it.      *)
(***************************************************************************)

-----------------------------------------------------------------------------
(* The inductive invariant.                                                *)

Holds(h) ==
    h.op = "bundle" /\ h.pc \in {"resolve", "commit", "trigger", "outcome", "record"}
Claiming(h) == h.op = "bundle" /\ h.pc = "claim"
Mine(r, h) == r.bundle.state = "running" /\ r.bundle.at = h.at
OlderBy(h, t) == h.at + BundleLease <= t

Landed(r, t) ==
    /\ r.bundle.at <= t
    /\ r.bundle.sha => r.bundle.state \in {"running", "landed-untriggered", "triggered"}

\* No handler's claim or read is from the future.
Past(t, h) == h.op = "bundle" => h.at <= t /\ h.snap.bundle.at <= t

\* A run whose claim is gone from the row was overtaken a lease later.
Overtaken(r, h) == Holds(h) => Mine(r, h) \/ OlderBy(h, r.bundle.at)

\* What a handler about to claim has seen.
Seen(r, h) ==
    Claiming(h) => /\ h.snap.bundle.at <= h.at
                   /\ ~BundleLive(h.snap, h.at)
                   /\ h.snap.bundle.sha /\ h.snap.seq = r.seq => h.to = "resume"

\* A run that took over a landed commit does not commit again.
Resumed(r, h) ==
    Holds(h) /\ Mine(r, h) /\ r.bundle.sha =>
        /\ h.pc # "commit"
        /\ h.pc = "resolve" => h.to = "resume"
        /\ h.pc \in {"outcome", "record"} => h.to # "failed"

Recording(r, h) == Holds(h) /\ h.pc = "record" /\ h.snap.seq = r.seq => Mine(r, h)

BundleInv(r, t, h) ==
    Past(t, h) /\ Overtaken(r, h) /\ Seen(r, h) /\ Resumed(r, h) /\ Recording(r, h)

Apart(g, h) == Holds(g) /\ Holds(h) => OlderBy(g, h.at) \/ OlderBy(h, g.at)

ClaimInv ==
    /\ Landed(row, now)
    /\ \A p \in Proc : BundleInv(row, now, proc[p])
    /\ \A p, q \in Proc : p # q => Apart(proc[p], proc[q])

-----------------------------------------------------------------------------
(* Steps that leave the bundle alone.                                      *)

BundleKept(r, s) == s.bundle = r.bundle /\ s.seq \in {r.seq, r.seq + 1}

\* A handler that holds no claim and is not about to.
Harmless(t, h) == ~Holds(h) /\ ~Claiming(h) /\ Past(t, h)

\* The types of what the claims are compared by.
LEMMA RowBundle ==
    ASSUME NEW r \in Row
    PROVE  r.seq \in Nat /\ r.bundle.at \in Nat /\ r.bundle.sha \in BOOLEAN
BY DEF Row

\* Nothing is asked of a handler that holds and wants no claim.
LEMMA HarmlessInv ==
    ASSUME NEW r, NEW t, NEW h, Harmless(t, h)
    PROVE  BundleInv(r, t, h)
BY DEF BundleInv, Harmless, Overtaken, Seen, Resumed, Recording

\* What is known of a handler survives a write that leaves the bundle alone.
LEMMA KeptInv ==
    ASSUME NEW r \in Row, NEW s \in Row, NEW t, NEW h \in Handler,
           BundleInv(r, t, h), BundleKept(r, s), Versioned(r, h)
    PROVE  BundleInv(s, t, h)
<1>1. r.seq \in Nat /\ h.snap.seq \in Nat  BY RowBundle DEF Handler
<1>2. Holds(h) \/ Claiming(h) => Reader(h)  BY DEF Holds, Claiming, Reader
<1>3. (Holds(h) \/ Claiming(h)) /\ h.snap.seq = s.seq => h.snap.seq = r.seq
  BY <1>1, <1>2 DEF BundleKept, Versioned
<1> QED
  BY <1>3 DEF BundleInv, BundleKept, Overtaken, Seen, Resumed, Recording, Mine

\* One handler's step that leaves the bundle as it is.
LEMMA KeptStep ==
    ASSUME TypeInv, TypeInv', ReviewInv, ClaimInv, UNCHANGED now,
           BundleKept(row, row'), NEW p \in Proc, NEW h, Set(p, h),
           BundleInv(row', now, h),
           \A q \in Proc : q # p => Apart(h, proc[q])
    PROVE  ClaimInv'
<1>1. \A q \in Proc : proc'[q] = IF q = p THEN h ELSE proc[q]
  BY DEF Set, TypeInv, ProcOK
<1>2. Landed(row', now)  BY DEF ClaimInv, Landed, BundleKept
<1>3. ASSUME NEW q \in Proc PROVE BundleInv(row', now, proc'[q])
  <2>1. CASE q = p  BY <1>1, <2>1
  <2>2. CASE q # p
    <3>1. row \in Row /\ row' \in Row /\ proc[q] \in Handler /\ Versioned(row, proc[q])
      BY DEF TypeInv, ProcOK, ReviewInv, HandlerInv
    <3> QED  BY <1>1, <2>2, <3>1, KeptInv DEF ClaimInv
  <2> QED  BY <2>1, <2>2
<1>4. \A u, v \in Proc : u # v => Apart(proc'[u], proc'[v])
  <2>1. \A g, k : Apart(g, k) <=> Apart(k, g)  BY DEF Apart
  <2> QED  BY <1>1, <2>1 DEF ClaimInv
<1> QED  BY <1>2, <1>3, <1>4 DEF ClaimInv

\* A step that leaves the bundle alone, by a handler without a claim.
LEMMA HarmlessStep ==
    ASSUME TypeInv, TypeInv', ReviewInv, ClaimInv, UNCHANGED now,
           BundleKept(row, row'), NEW p \in Proc, NEW h, Set(p, h), Harmless(now, h)
    PROVE  ClaimInv'
BY KeptStep, HarmlessInv DEF Harmless, Apart

\* A free slot holds no claim.
LEMMA IdleHarmless == ASSUME NEW t PROVE Harmless(t, Idle)
BY DEF Harmless, Holds, Claiming, Past, Idle

\* A handler that comes back gives up whatever it held.
LEMMA ReturnStep ==
    ASSUME TypeInv, TypeInv', ReviewInv, ClaimInv, UNCHANGED now,
           BundleKept(row, row'), NEW p \in Proc, Return(p)
    PROVE  ClaimInv'
BY HarmlessStep, IdleHarmless DEF Return, Set

\* The other lanes never write the bundle.
LEMMA OthersKeep ==
    ASSUME TypeInv, TypeInv', ReviewInv, ClaimInv, NEW p \in Proc,
           Review(p) \/ Settle(p) \/ Reschedule(p) \/ Tick(p) \/ GiveUp(p)
    PROVE  ClaimInv' /\ row'.bundle = row.bundle
<1> DEFINE h == proc[p]
<1>0. /\ row \in Row /\ h \in Handler /\ h.snap \in Row /\ now \in Nat
      /\ HandlerInv(row, catalog, h) /\ RowInv(row, signed) /\ Past(now, h)
      /\ row.bundle.at <= now
  BY DEF TypeInv, RestOK, ProcOK, Handler, ReviewInv, ClaimInv, BundleInv, Landed
<1> USE DEF BundleKept
<1>k. BundleKept(row, row)  OBVIOUS
<1>a. ASSUME NEW op, NEW new,
             StatusWrite(p, op, new), new.bundle = row.bundle, new.seq = row.seq
      PROVE  ClaimInv' /\ row'.bundle = row.bundle
  <2>1. BundleKept(row, row')  BY <1>a DEF StatusWrite, IfStatus
  <2> QED  BY <1>a, <2>1, ReturnStep DEF StatusWrite, Quiet
<1>b. ASSUME NEW g, Set(p, g), UNCHANGED <<row, now>>, g.op # "bundle"
      PROVE  ClaimInv' /\ row'.bundle = row.bundle
  BY <1>b, <1>k, HarmlessStep DEF Harmless, Holds, Claiming, Past
<1>c. ASSUME Return(p), UNCHANGED <<row, now>>
      PROVE  ClaimInv' /\ row'.bundle = row.bundle
  BY <1>c, <1>k, ReturnStep
<1>d. ASSUME NEW new, Return(p), UNCHANGED now, IfSeq(p, new), Reader(h),
             new.bundle = h.snap.bundle, new.seq = h.snap.seq + 1
      PROVE  ClaimInv' /\ row'.bundle = row.bundle
  <2>1. BundleKept(row, row')
    BY <1>0, <1>d DEF IfSeq, HandlerInv, Versioned
  <2> QED  BY <1>d, <2>1, ReturnStep
<1>e. ASSUME NEW from, NEW to, SettleStep(p, from, to)
      PROVE  ClaimInv' /\ row'.bundle = row.bundle
  <2> DEFINE new == IF row.status = from THEN [h.snap EXCEPT !.status = to] ELSE row
             g == [h EXCEPT !.snap = new]
  <2>1. BundleKept(row, row')  BY <1>0, <1>e DEF SettleStep, IfStatus, Row
  <2>2. Set(p, g) /\ UNCHANGED now /\ h.pc = "settle"
    BY <1>e DEF SettleStep, Set, Quiet, TypeInv, ProcOK
  <2>3. g.pc = "settle" /\ g.op = h.op /\ g.at = h.at /\ g.snap = new
    BY <1>0, <2>2 DEF Handler
  <2>4. new.bundle = h.snap.bundle \/ new.bundle = row.bundle  BY <1>0 DEF Row
  <2>5. Harmless(now, g)
    BY <1>0, <2>3, <2>4 DEF Harmless, Holds, Claiming, Past
  <2> QED  BY <2>1, <2>2, <2>5, HarmlessStep
<1>g. ASSUME NEW pc, Goto(p, pc), UNCHANGED <<row, now>>, h.op # "bundle"
      PROVE  ClaimInv' /\ row'.bundle = row.bundle
  <2>1. Set(p, [h EXCEPT !.pc = pc])  BY <1>g DEF Goto, Set
  <2>2. [h EXCEPT !.pc = pc].op # "bundle"  BY <1>0, <1>g DEF Handler
  <2> QED  BY <1>b, <1>g, <2>1, <2>2
<1>s. \A x : [row EXCEPT !.status = x].bundle = row.bundle
             /\ [row EXCEPT !.status = x].seq = row.seq
  BY <1>0 DEF Row
<1> USE DEF NoWrite, Quiet, At
<1>1. CASE Review(p)
  <2>1. CASE SubmitStart(p)
    BY <1>b, <2>1 DEF SubmitStart, Begin, Idle
  <2>2. CASE SubmitWrite(p)
    <3>1. \A q \in Proc : ~Reader(proc[q])
      BY <1>0, <2>2 DEF SubmitWrite, ReviewInv, HandlerInv, Versioned, Unborn
    <3>2. row.bundle = NoBundle /\ row'.bundle = NoBundle
      BY <1>0, <2>2 DEF SubmitWrite, HandlerInv, Unborn, RowInv
    <3>3. \A q \in Proc : proc'[q] = Idle \/ ~Reader(proc'[q])
      BY <2>2, <3>1 DEF SubmitWrite, Return, TypeInv, ProcOK
    <3>4. \A q \in Proc : Harmless(now, proc'[q])
      BY <3>3 DEF Harmless, Holds, Claiming, Past, Reader, Idle
    <3>5. Landed(row', now)  BY <1>0, <3>2 DEF Landed, NoBundle
    <3>6. UNCHANGED now  BY <2>2 DEF SubmitWrite
    <3>7. ClaimInv'
      BY <3>4, <3>5, <3>6, HarmlessInv DEF ClaimInv, Harmless, Apart
    <3> QED  BY <3>2, <3>7
  <2>3. ASSUME NEW u \in Person, ApproveRead(p, u)
        PROVE  ClaimInv' /\ row'.bundle = row.bundle
    BY <1>b, <2>3 DEF ApproveRead, Begin, Idle
  <2>4. CASE ApproveFreeze(p)
    <3>1. PICK to : Set(p, [h EXCEPT !.pc = "write", !.to = to])
      BY <2>4 DEF ApproveFreeze
    <3>2. [h EXCEPT !.pc = "write", !.to = to].op # "bundle"
      BY <1>0, <2>4 DEF ApproveFreeze, Handler
    <3> QED  BY <1>b, <2>4, <3>1, <3>2 DEF ApproveFreeze
  <2>5. CASE ApproveWrite(p)
    <3>1. Approved(h).bundle = h.snap.bundle /\ Approved(h).seq = h.snap.seq + 1
      BY <1>0 DEF Approved, Row
    <3>2. BundleKept(row, row')
      BY <1>0, <2>5, <3>1 DEF ApproveWrite, HandlerInv, Versioned, Reader
    <3> QED  BY <2>5, <3>2, ReturnStep DEF ApproveWrite
  <2>6. CASE RejectStart(p)  BY <1>b, <2>6 DEF RejectStart, Begin, Idle
  <2>7. CASE RejectWrite(p)
    <3> DEFINE s == [h.snap EXCEPT !.status = "REJECTED", !.seq = @ + 1]
    <3>1. s.bundle = h.snap.bundle /\ s.seq = h.snap.seq + 1  BY <1>0 DEF Row
    <3> QED  BY <1>d, <2>7, <3>1 DEF RejectWrite, Reader
  <2>8. CASE AnnotateStart(p)  BY <1>b, <2>8 DEF AnnotateStart, Begin, Idle
  <2>9. CASE AnnotateWrite(p)
    <3> DEFINE s == [h.snap EXCEPT !.seq = @ + 1]
    <3>1. s.bundle = h.snap.bundle /\ s.seq = h.snap.seq + 1  BY <1>0 DEF Row
    <3> QED  BY <1>d, <2>9, <3>1 DEF AnnotateWrite, Reader
  <2> QED
    BY <1>1, <2>1, <2>2, <2>3, <2>4, <2>5, <2>6, <2>7, <2>8, <2>9 DEF Review
<1>2. CASE Settle(p)
  <2>1. CASE CoolingStart(p)  BY <1>b, <2>1 DEF CoolingStart, Begin, Idle
  <2>2. CASE WindowStart(p)  BY <1>b, <2>2 DEF WindowStart, Begin, Idle
  <2>3. CASE HoldStart(p)  BY <1>b, <2>3 DEF HoldStart, Begin, Idle
  <2>4. CASE LeaseStart(p)  BY <1>b, <2>4 DEF LeaseStart, Begin, Idle
  <2>5. CASE HoldFreeze(p)  BY <1>c, <1>g, <2>5 DEF HoldFreeze
  <2>6. CASE CoolingWrite(p)  BY <1>a, <1>s, <2>6 DEF CoolingWrite
  <2>7. CASE WindowWrite(p)  BY <1>a, <1>s, <2>7 DEF WindowWrite
  <2>8. CASE HoldWrite(p)  BY <1>a, <1>s, <2>8 DEF HoldWrite
  <2>9. CASE LeaseWrite(p)  BY <1>a, <1>s, <2>9 DEF LeaseWrite
  <2>10. CASE SettleCoolingFirst(p)  BY <1>e, <2>10 DEF SettleCoolingFirst
  <2>11. CASE SettleWindowFirst(p)  BY <1>e, <2>11 DEF SettleWindowFirst
  <2> QED
    BY <1>2, <2>1, <2>2, <2>3, <2>4, <2>5, <2>6, <2>7, <2>8, <2>9, <2>10, <2>11
       DEF Settle
<1>3. CASE Reschedule(p)
  <2>1. CASE CancelStart(p)  BY <1>b, <2>1 DEF CancelStart, Begin, Idle
  <2>2. CASE RewindowStart(p)  BY <1>b, <2>2 DEF RewindowStart, Begin, Idle
  <2>3. CASE CancelDecide(p)  BY <1>c, <1>g, <2>3 DEF CancelDecide
  <2>4. CASE RewindowDecide(p)
    <3>1. \A w : [h EXCEPT !.pc = "write", !.win = Window(w)].op # "bundle"
      BY <1>0, <2>4 DEF RewindowDecide, Handler
    <3> QED  BY <1>b, <1>c, <2>4, <3>1 DEF RewindowDecide
  <2>5. CASE CancelWrite(p)  BY <1>a, <1>s, <2>5 DEF CancelWrite
  <2>6. CASE RewindowWrite(p)
    <3> DEFINE s == [row EXCEPT !.status = "AWAITING_DEPLOY_APPROVAL", !.schedule = h.win]
    <3>1. s.bundle = row.bundle /\ s.seq = row.seq  BY <1>0 DEF Row
    <3> QED  BY <1>a, <2>6, <3>1 DEF RewindowWrite
  <2> QED  BY <1>3, <2>1, <2>2, <2>3, <2>4, <2>5, <2>6 DEF Reschedule
<1>4. CASE Tick(p)
  <2>1. CASE TickStart(p)  BY <1>b, <2>1 DEF TickStart, Begin, Idle
  <2>2. CASE TickSweep(p)  BY <1>b, <2>2 DEF TickSweep, Begin, Idle
  <2>3. CASE TickFreeze(p)  BY <1>c, <1>g, <2>3 DEF TickFreeze
  <2>4. CASE TickHold(p)  BY <1>c, <2>4 DEF TickHold
  <2>5. CASE TickHalt(p)
    <3>1. [h EXCEPT !.pc = "write", !.to = "HALTED_DRIFT"].op # "bundle"
      BY <1>0, <2>5 DEF TickHalt, Handler
    <3> QED  BY <1>b, <2>5, <3>1 DEF TickHalt
  <2>6. CASE TickProceed(p)  BY <1>g, <2>6 DEF TickProceed
  <2>7. CASE TickWrite(p)  BY <1>a, <1>s, <2>7 DEF TickWrite
  <2>8. CASE TickClaim(p)
    <3> DEFINE s == [row EXCEPT !.status = "APPLYING", !.claimedAt = h.at]
    <3>1. s.bundle = row.bundle /\ s.seq = row.seq  BY <1>0 DEF Row
    <3>2. BundleKept(row, row')  BY <2>8, <3>1 DEF TickClaim, IfStatus
    <3>3. CASE Return(p)  BY <2>8, <3>2, <3>3, ReturnStep DEF TickClaim
    <3>4. CASE Goto(p, "apply")
      <4>1. Set(p, [h EXCEPT !.pc = "apply"])  BY <3>4 DEF Goto, Set
      <4>2. [h EXCEPT !.pc = "apply"].op # "bundle"  BY <1>0, <2>8 DEF TickClaim, Handler
      <4> QED
        BY <2>8, <3>2, <4>1, <4>2, HarmlessStep
           DEF TickClaim, Harmless, Holds, Claiming, Past
    <3> QED  BY <2>8, <3>3, <3>4 DEF TickClaim
  <2>9. CASE TickApply(p)
    <3>1. PICK to : Set(p, [h EXCEPT !.pc = "finish", !.to = to])  BY <2>9 DEF TickApply
    <3>2. [h EXCEPT !.pc = "finish", !.to = to].op # "bundle"
      BY <1>0, <2>9 DEF TickApply, Handler
    <3> QED  BY <1>b, <2>9, <3>1, <3>2 DEF TickApply
  <2>10. CASE TickFinish(p)
    <3>1. BundleKept(row, row')  BY <1>s, <2>10 DEF TickFinish, IfStatus
    <3> QED  BY <2>10, <3>1, ReturnStep DEF TickFinish
  <2> QED
    BY <1>4, <2>1, <2>2, <2>3, <2>4, <2>5, <2>6, <2>7, <2>8, <2>9, <2>10 DEF Tick
<1>5. CASE GiveUp(p)  BY <1>c, <1>5 DEF GiveUp
<1> QED  BY <1>1, <1>2, <1>3, <1>4, <1>5

-----------------------------------------------------------------------------
(* The bundle's own steps.                                                 *)

\* A run goes on with the claim it has, or a handler not yet claiming.
LEMMA BundleGoesOn ==
    ASSUME TypeInv, TypeInv', ReviewInv, ClaimInv, UNCHANGED <<row, now>>,
           NEW p \in Proc, NEW h, Set(p, h), proc[p].op = "bundle",
           h.op = "bundle", h.at = proc[p].at, Holds(h) => Holds(proc[p]),
           ~Claiming(h), h.snap.bundle.at <= now,
           Resumed(row, h), Recording(row, h)
    PROVE  ClaimInv'
<1>1. BundleKept(row, row')  BY DEF BundleKept
<1>2. BundleInv(row, now, proc[p])  BY DEF ClaimInv
<1>3. BundleInv(row, now, h)
  <2>1. Overtaken(row, h)  BY <1>2 DEF BundleInv, Overtaken, Mine, OlderBy
  <2>2. Seen(row, h) /\ Past(now, h)  BY <1>2 DEF Seen, BundleInv, Past
  <2> QED  BY <2>1, <2>2 DEF BundleInv
<1>4. \A q \in Proc : q # p => Apart(h, proc[q])  BY DEF ClaimInv, Apart, OlderBy
<1> QED  BY <1>1, <1>3, <1>4, KeptStep

\* A step that writes the bundle: what the writer has to show, and what every
\* other handler has to.
LEMMA BundleWritten ==
    ASSUME TypeInv, ReviewInv, ClaimInv, UNCHANGED now,
           NEW p \in Proc, NEW h, Set(p, h), row'.seq = row.seq + 1,
           Landed(row', now), BundleInv(row', now, h),
           \A q \in Proc : q # p /\ Holds(proc[q]) =>
              /\ OlderBy(proc[q], row'.bundle.at)
              /\ ~Mine(row', proc[q])
              /\ Holds(h) => OlderBy(proc[q], h.at)
    PROVE  ClaimInv'
<1>0. row.seq \in Nat /\ \A q \in Proc : proc[q].snap.seq \in Nat
  BY RowBundle DEF TypeInv, ProcOK, Handler
<1>1. \A q \in Proc : proc'[q] = IF q = p THEN h ELSE proc[q]
  BY DEF Set, TypeInv, ProcOK
<1>2. ASSUME NEW q \in Proc, q # p PROVE BundleInv(row', now, proc[q])
  <2> DEFINE g == proc[q]
  <2>1. BundleInv(row, now, g) /\ Versioned(row, g)
    BY DEF ClaimInv, ReviewInv, HandlerInv
  <2>2. Past(now, g) /\ Overtaken(row', g) /\ Resumed(row', g)
    BY <1>2, <2>1 DEF BundleInv, Overtaken, Resumed
  <2>3. Reader(g) => g.snap.seq # row'.seq
    BY <1>0, <2>1 DEF Versioned
  <2>4. Seen(row', g) /\ Recording(row', g)
    BY <2>1, <2>3 DEF BundleInv, Seen, Recording, Holds, Claiming, Reader
  <2> QED  BY <2>2, <2>4 DEF BundleInv
<1>3. \A q \in Proc : BundleInv(row', now, proc'[q])  BY <1>1, <1>2
<1>4. \A u, v \in Proc : u # v => Apart(proc'[u], proc'[v])
  BY <1>1 DEF ClaimInv, Apart
<1> QED  BY <1>3, <1>4 DEF ClaimInv

\* The claim: its compare-and-swap makes every older claim a lost one.
LEMMA ClaimWrites ==
    ASSUME TypeInv, TypeInv', ReviewInv, ClaimInv, NEW p \in Proc, BundleClaim(p)
    PROVE  ClaimInv' /\ (row.bundle.sha => row'.bundle.sha)
<1> DEFINE h == proc[p]
           b == [state |-> "running", at |-> h.at, sha |-> h.to = "resume"]
           g == [h EXCEPT !.pc = "resolve"]
<1>0. /\ row \in Row /\ h \in Handler /\ now \in Nat /\ h.at \in Nat
      /\ BundleInv(row, now, h) /\ Versioned(row, h)
  BY DEF TypeInv, RestOK, ProcOK, Handler, ClaimInv, ReviewInv, HandlerInv
<1>1. Claiming(h) /\ Reader(h) /\ h.op = "bundle" /\ UNCHANGED now
  BY DEF BundleClaim, At, Claiming, Reader, Quiet
<1>2. CASE row.seq # h.snap.seq
  <2>1. row' = row /\ Return(p)  BY <1>2 DEF BundleClaim, IfSeq
  <2> QED  BY <1>1, <2>1, ReturnStep DEF BundleKept
<1>3. CASE row.seq = h.snap.seq
  <2>1. row' = [row EXCEPT !.seq = @ + 1, !.bundle = b] /\ Goto(p, "resolve")
    BY <1>3 DEF BundleClaim, IfSeq
  <2>2. /\ row'.seq = row.seq + 1
        /\ row'.bundle.state = "running" /\ row'.bundle.at = h.at
        /\ row'.bundle.sha <=> h.to = "resume"
    BY <1>0, <2>1 DEF Row
  <2>3. Set(p, g)  BY <2>1 DEF Goto, Set
  <2>4. g.op = "bundle" /\ g.pc = "resolve" /\ g.at = h.at /\ g.to = h.to /\ g.snap = h.snap
    BY <1>0, <1>1 DEF Handler
  <2> HIDE DEF b, g
  <2>5. row.bundle = h.snap.bundle  BY <1>0, <1>1, <1>3 DEF Versioned
  <2>6. /\ h.at <= now /\ row.bundle.at <= h.at /\ h.snap.bundle.at <= now
        /\ ~BundleLive(row, h.at)
        /\ row.bundle.sha => h.to = "resume"
    BY <1>0, <1>1, <1>3, <2>5 DEF BundleInv, Past, Seen, BundleLive
  <2>7. Landed(row', now)  BY <2>2, <2>6 DEF Landed
  <2>8. BundleInv(row', now, g)
    BY <2>2, <2>4, <2>6
       DEF BundleInv, Past, Overtaken, Seen, Resumed, Recording, Mine, Claiming
  <2>9. ASSUME NEW q \in Proc, q # p, Holds(proc[q])
        PROVE  OlderBy(proc[q], h.at) /\ proc[q].at # h.at
    <3>1. proc[q].at \in Nat /\ row.bundle.at \in Nat /\ BundleLease \in Nat \ {0}
      BY <1>0, RowBundle, ConstantTypes DEF TypeInv, ProcOK, Handler
    <3>2. Mine(row, proc[q]) \/ OlderBy(proc[q], row.bundle.at)
      BY <2>9 DEF ClaimInv, BundleInv, Overtaken
    <3>3. CASE Mine(row, proc[q])
      BY <1>0, <2>6, <3>1, <3>3 DEF Mine, BundleLive, OlderBy
    <3>4. CASE OlderBy(proc[q], row.bundle.at)
      BY <1>0, <2>6, <3>1, <3>4 DEF OlderBy
    <3> QED  BY <3>2, <3>3, <3>4
  <2>10. \A q \in Proc : q # p /\ Holds(proc[q]) =>
            /\ OlderBy(proc[q], row'.bundle.at)
            /\ ~Mine(row', proc[q])
            /\ Holds(g) => OlderBy(proc[q], g.at)
    BY <2>2, <2>4, <2>9 DEF Mine
  <2>11. ClaimInv'
    BY <1>1, <2>2, <2>3, <2>7, <2>8, <2>10, BundleWritten
  <2> QED  BY <2>2, <2>6, <2>11
<1> QED  BY <1>2, <1>3

\* The outcome: only the holder of the stored claim writes one.
LEMMA OutcomeWrites ==
    ASSUME TypeInv, TypeInv', ReviewInv, ClaimInv, NEW p \in Proc, OutcomeWrite(p)
    PROVE  ClaimInv' /\ (row.bundle.sha => row'.bundle.sha)
<1> DEFINE h == proc[p]
           b == [state |-> h.to, at |-> now, sha |-> h.to # "failed"]
           g == [h EXCEPT !.pc = "outcome"]
<1>0. /\ row \in Row /\ h \in Handler /\ now \in Nat /\ h.at \in Nat /\ Decided(h)
      /\ BundleInv(row, now, h)
  BY DEF TypeInv, RestOK, ProcOK, Handler, ClaimInv
<1>1. h.op = "bundle" /\ h.pc = "record" /\ Holds(h) /\ UNCHANGED now
      /\ h.to \in {"failed", "landed-untriggered", "triggered"}
  BY <1>0 DEF OutcomeWrite, At, Holds, Quiet, Decided
<1>2. CASE row.seq # h.snap.seq
  <2>1. row' = row /\ Goto(p, "outcome")  BY <1>2 DEF OutcomeWrite, IfSeq
  <2>2. Set(p, g)  BY <2>1 DEF Goto, Set
  <2>3. g.op = "bundle" /\ g.pc = "outcome" /\ g.at = h.at /\ g.to = h.to /\ g.snap = h.snap
    BY <1>0, <1>1 DEF Handler
  <2>4. Resumed(row, g) /\ Recording(row, g) /\ h.snap.bundle.at <= now
    BY <1>0, <1>1, <2>3 DEF BundleInv, Past, Resumed, Recording, Mine
  <2>5. ~Claiming(g)  BY <2>3 DEF Claiming
  <2> QED  BY <1>1, <2>1, <2>2, <2>3, <2>4, <2>5, BundleGoesOn
<1>3. CASE row.seq = h.snap.seq
  <2>1. row' = [row EXCEPT !.seq = @ + 1, !.bundle = b] /\ Return(p)
    BY <1>3 DEF OutcomeWrite, IfSeq
  <2>2. /\ row'.seq = row.seq + 1
        /\ row'.bundle.state = h.to /\ row'.bundle.at = now
        /\ row'.bundle.sha <=> h.to # "failed"
    BY <1>0, <2>1 DEF Row
  <2> HIDE DEF b
  <2>3. Mine(row, h) /\ row.bundle.at <= now
    BY <1>0, <1>1, <1>3 DEF BundleInv, Recording, ClaimInv, Landed
  <2>4. row.bundle.sha => h.to # "failed"
    BY <1>0, <1>1, <2>3 DEF BundleInv, Resumed
  <2>5. Landed(row', now)  BY <1>0, <1>1, <2>2 DEF Landed
  <2>6. Set(p, Idle) /\ ~Holds(Idle)  BY <2>1 DEF Return, Set, Holds, Idle
  <2>7. BundleInv(row', now, Idle)  BY IdleHarmless, HarmlessInv
  <2>8. ASSUME NEW q \in Proc, q # p, Holds(proc[q])
        PROVE  OlderBy(proc[q], now)
    <3>1. proc[q].at \in Nat /\ BundleLease \in Nat \ {0}
      BY ConstantTypes DEF TypeInv, ProcOK, Handler
    <3>2. proc[q].at # h.at
      BY <1>0, <1>1, <2>8, <3>1 DEF ClaimInv, Apart, OlderBy
    <3>3. OlderBy(proc[q], row.bundle.at)
      BY <2>3, <2>8, <3>2 DEF ClaimInv, BundleInv, Overtaken, Mine
    <3>4. row.bundle.at \in Nat  BY <1>0, RowBundle
    <3> QED  BY <1>0, <2>3, <3>1, <3>3, <3>4 DEF OlderBy
  <2>9. \A q \in Proc : ~Mine(row', proc[q])  BY <1>1, <2>2 DEF Mine
  <2>10. ClaimInv'
    BY <1>1, <2>2, <2>5, <2>6, <2>7, <2>8, <2>9, BundleWritten
  <2> QED  BY <2>2, <2>4, <2>10
<1> QED  BY <1>2, <1>3

\* Every step of the bundle.
LEMMA BundleClaims ==
    ASSUME TypeInv, TypeInv', ReviewInv, ClaimInv, NEW p \in Proc, Bundle(p)
    PROVE  ClaimInv' /\ (row.bundle.sha => row'.bundle.sha)
<1> DEFINE h == proc[p]
<1>0. /\ row \in Row /\ h \in Handler /\ now \in Nat /\ h.at \in Nat /\ Decided(h)
      /\ BundleInv(row, now, h) /\ Landed(row, now) /\ Versioned(row, h)
  BY DEF TypeInv, RestOK, ProcOK, Handler, ClaimInv, ReviewInv, HandlerInv
<1>k. BundleKept(row, row)  BY DEF BundleKept
<1> USE DEF At, NoWrite, Quiet
<1>1. CASE BundleStart(p)
  <2> DEFINE g == Begin("bundle", "settle")
  <2>1. g.op = "bundle" /\ g.pc = "settle" /\ g.at = 0 /\ g.snap = row
    BY DEF Begin, Idle
  <2>2. Harmless(now, g)
    BY <1>0, <2>1 DEF Harmless, Holds, Claiming, Past, Landed
  <2> QED  BY <1>1, <1>k, <2>2, HarmlessStep DEF BundleStart
<1>2. CASE BundleDecide(p)
  <2>1. CASE Return(p)  BY <1>2, <1>k, <2>1, ReturnStep DEF BundleDecide
  <2>2. ASSUME ~Return(p) PROVE ClaimInv'
    <3> DEFINE to == IF Resumes(h.snap, now) THEN "resume" ELSE "run"
               g == [h EXCEPT !.pc = "claim", !.at = now, !.to = to]
    <3>1. Set(p, g) /\ MayApply(h.snap, now) /\ h.op = "bundle" /\ UNCHANGED <<row, now>>
      BY <1>2, <2>2 DEF BundleDecide
    <3>2. g.op = "bundle" /\ g.pc = "claim" /\ g.at = now /\ g.to = to /\ g.snap = h.snap
      BY <1>0, <3>1 DEF Handler
    <3>3. h.snap.bundle.at <= now  BY <1>0, <3>1 DEF BundleInv, Past
    <3>4. ~BundleLive(h.snap, now) /\ h.snap.bundle.state # "triggered"
      BY <3>1 DEF MayApply
    <3>5. h.snap.bundle.sha /\ h.snap.seq = row.seq => to = "resume"
      <4>1. h.snap.seq = row.seq => h.snap.bundle = row.bundle
        BY <1>0, <3>1 DEF Versioned, Reader
      <4> QED
        BY <1>0, <3>4, <4>1 DEF Landed, Resumes, BundleExpired
    <3>6. BundleInv(row, now, g)
      BY <1>0, <3>2, <3>3, <3>4, <3>5
         DEF BundleInv, Past, Overtaken, Seen, Resumed, Recording, Holds
    <3>7. ~Holds(g)  BY <3>2 DEF Holds
    <3> QED  BY <1>k, <3>1, <3>6, <3>7, KeptStep DEF Apart
  <2> QED  BY <1>2, <2>1, <2>2 DEF BundleDecide
<1>3. CASE BundleClaim(p)  BY <1>3, ClaimWrites
<1>4. CASE BundleUnresolved(p)  BY <1>4, <1>k, ReturnStep DEF BundleUnresolved
<1>r. ASSUME NEW g, Set(p, g), UNCHANGED <<row, now>>, Holds(h),
             g.op = "bundle", g.at = h.at, g.snap = h.snap, g.pc # "claim",
             g.pc # "record", Resumed(row, g)
      PROVE  ClaimInv'
  BY <1>0, <1>r, BundleGoesOn DEF Holds, Claiming, Recording, BundleInv, Past
<1>5. CASE BundleResolve(p)
  <2> DEFINE pc == IF h.to = "resume" THEN "trigger" ELSE "commit"
             g == [h EXCEPT !.pc = pc]
  <2>1. Set(p, g) /\ h.op = "bundle" /\ h.pc = "resolve" /\ UNCHANGED <<row, now>>
    BY <1>5 DEF BundleResolve, Goto, Set
  <2>2. g.op = "bundle" /\ g.pc = pc /\ g.at = h.at /\ g.snap = h.snap
    BY <1>0, <2>1 DEF Handler
  <2>3. Holds(h)  BY <2>1 DEF Holds
  <2>4. Resumed(row, g)
    BY <1>0, <2>1, <2>2, <2>3 DEF BundleInv, Resumed, Mine
  <2> HIDE DEF g
  <2> QED  BY <1>r, <2>1, <2>2, <2>3, <2>4
<1>6. CASE BundleFail(p)
  <2> DEFINE g == [h EXCEPT !.pc = "outcome", !.to = "failed"]
  <2>1. Set(p, g) /\ h.op = "bundle" /\ h.pc = "commit" /\ UNCHANGED <<row, now>>
    BY <1>6 DEF BundleFail
  <2>2. g.op = "bundle" /\ g.pc = "outcome" /\ g.at = h.at /\ g.snap = h.snap
    BY <1>0, <2>1 DEF Handler
  <2>3. Holds(h)  BY <2>1 DEF Holds
  <2>4. Resumed(row, g)
    BY <1>0, <2>1, <2>2, <2>3 DEF BundleInv, Resumed, Mine
  <2> HIDE DEF g
  <2> QED  BY <1>r, <2>1, <2>2, <2>3, <2>4
<1>7. CASE BundleLand(p)
  <2> DEFINE g == [h EXCEPT !.pc = "trigger"]
  <2>1. Set(p, g) /\ h.op = "bundle" /\ h.pc = "commit" /\ UNCHANGED <<row, now>>
    BY <1>7 DEF BundleLand, Goto, Set
  <2>2. g.op = "bundle" /\ g.pc = "trigger" /\ g.at = h.at /\ g.snap = h.snap
    BY <1>0, <2>1 DEF Handler
  <2>3. Holds(h)  BY <2>1 DEF Holds
  <2>4. Resumed(row, g)  BY <2>2 DEF Resumed
  <2> HIDE DEF g
  <2> QED  BY <1>r, <2>1, <2>2, <2>3, <2>4
<1>8. CASE BundleTrigger(p)
  <2>1. PICK to \in {"triggered", "landed-untriggered"} :
           Set(p, [h EXCEPT !.pc = "outcome", !.to = to])
    BY <1>8 DEF BundleTrigger
  <2> DEFINE g == [h EXCEPT !.pc = "outcome", !.to = to]
  <2>2. h.op = "bundle" /\ h.pc = "trigger" /\ UNCHANGED <<row, now>>
    BY <1>8 DEF BundleTrigger
  <2>3. g.op = "bundle" /\ g.pc = "outcome" /\ g.at = h.at /\ g.snap = h.snap /\ g.to = to
    BY <1>0, <2>2 DEF Handler
  <2>4. Holds(h)  BY <2>2 DEF Holds
  <2>5. Resumed(row, g)  BY <2>3 DEF Resumed
  <2> QED  BY <1>r, <2>1, <2>2, <2>3, <2>4, <2>5
<1>9. CASE OutcomeRead(p)
  <2>1. CASE Return(p)  BY <1>9, <1>k, <2>1, ReturnStep DEF OutcomeRead
  <2>2. CASE ClaimIsMine(p)
    <3> DEFINE g == [h EXCEPT !.pc = "record", !.snap = row]
    <3>1. Set(p, g) /\ h.op = "bundle" /\ h.pc = "outcome" /\ UNCHANGED <<row, now>>
      BY <1>9, <2>2 DEF OutcomeRead
    <3>2. g.op = "bundle" /\ g.pc = "record" /\ g.at = h.at /\ g.snap = row /\ g.to = h.to
      BY <1>0, <3>1 DEF Handler
    <3>3. Holds(h) /\ ~Claiming(g)  BY <3>1, <3>2 DEF Holds, Claiming
    <3>4. Resumed(row, g) /\ Recording(row, g) /\ g.snap.bundle.at <= now
      BY <1>0, <2>2, <3>1, <3>2, <3>3
         DEF BundleInv, Resumed, Recording, Mine, ClaimIsMine, Landed
    <3> QED  BY <3>1, <3>2, <3>3, <3>4, BundleGoesOn
  <2> QED  BY <1>9, <2>1, <2>2 DEF OutcomeRead
<1>10. CASE OutcomeWrite(p)  BY <1>10, OutcomeWrites
<1> QED
  BY <1>1, <1>2, <1>3, <1>4, <1>5, <1>6, <1>7, <1>8, <1>9, <1>10
     DEF Bundle, BundleStart, BundleDecide, BundleUnresolved, BundleResolve, BundleFail,
         BundleLand, BundleTrigger, OutcomeRead

\* At the start there is no claim.
LEMMA InitClaim == Init => ClaimInv
<1> SUFFICES ASSUME Init PROVE ClaimInv  OBVIOUS
<1>1. row.bundle = NoBundle /\ now = 0  BY StoredRows DEF Init
<1>2. \A p \in Proc : proc[p] = Idle  BY DEF Init
<1>3. \A p, q \in Proc : Apart(proc[p], proc[q])  BY <1>2 DEF Apart, Holds, Idle
<1>4. Landed(row, now)  BY <1>1 DEF Landed, NoBundle
<1> QED  BY <1>2, <1>3, <1>4, IdleHarmless, HarmlessInv DEF ClaimInv

\* Every step of the system keeps the claims apart.
LEMMA NextClaim ==
    ASSUME TypeInv, TypeInv', ReviewInv, ClaimInv, [Next]_vars
    PROVE  ClaimInv' /\ (row.bundle.sha => row'.bundle.sha)
<1>1. ASSUME NEW p \in Proc, Step(p)
      PROVE  ClaimInv' /\ (row.bundle.sha => row'.bundle.sha)
  BY <1>1, OthersKeep, BundleClaims DEF Step
<1>2. CASE UNCHANGED <<row, now, proc>>
  <2>1. Landed(row', now') /\ \A p, q \in Proc : p # q => Apart(proc'[p], proc'[q])
    BY <1>2 DEF ClaimInv
  <2>2. \A p \in Proc : BundleInv(row', now', proc'[p])  BY <1>2 DEF ClaimInv
  <2> QED  BY <1>2, <2>1, <2>2 DEF ClaimInv
<1>3. CASE Unfreeze
  <2>1. UNCHANGED <<row, now>>  BY <1>3 DEF Unfreeze
  <2>2. \A p \in Proc : proc[p] \in Handler  BY DEF TypeInv, ProcOK
  <2>3. \A p \in Proc :
           /\ proc'[p].op = proc[p].op /\ proc'[p].pc = proc[p].pc
           /\ proc'[p].snap = proc[p].snap /\ proc'[p].at = proc[p].at
           /\ proc'[p].to = proc[p].to
    BY <1>3, <2>2 DEF Unfreeze, Handler
  <2>4. ASSUME NEW p \in Proc PROVE BundleInv(row, now, proc'[p])
    <3>1. BundleInv(row, now, proc[p])  BY DEF ClaimInv
    <3> QED
      BY <2>3, <3>1 DEF BundleInv, Past, Overtaken, Seen, Resumed, Recording, Holds,
                        Claiming, Mine, OlderBy
  <2>5. \A p, q \in Proc : p # q => Apart(proc'[p], proc'[q])
    BY <2>3 DEF ClaimInv, Apart, Holds, OlderBy
  <2> QED  BY <2>1, <2>4, <2>5 DEF ClaimInv
<1>4. CASE ClockTick
  <2>1. UNCHANGED <<row, proc>> /\ now' = now + 1 /\ now \in Nat
    BY <1>4 DEF ClockTick, TypeInv, RestOK
  <2>2. row.bundle.at \in Nat
        /\ \A p \in Proc : proc[p].at \in Nat /\ proc[p].snap.bundle.at \in Nat
    BY RowBundle DEF TypeInv, ProcOK, Handler
  <2>3. Landed(row, now')  BY <2>1, <2>2 DEF ClaimInv, Landed
  <2>4. ASSUME NEW p \in Proc PROVE BundleInv(row, now', proc[p])
    BY <2>1, <2>2 DEF ClaimInv, BundleInv, Past
  <2> QED  BY <2>1, <2>3, <2>4 DEF ClaimInv
<1>5. CASE Restart
  <2>1. UNCHANGED <<row, now>> /\ \A p \in Proc : proc'[p] = Idle  BY <1>5 DEF Restart
  <2>2. \A p, q \in Proc : Apart(proc'[p], proc'[q])  BY <2>1 DEF Apart, Holds, Idle
  <2>3. \A p \in Proc : BundleInv(row, now, proc'[p])
    BY <2>1, IdleHarmless, HarmlessInv
  <2> QED  BY <2>1, <2>2, <2>3 DEF ClaimInv
<1> QED  BY <1>1, <1>2, <1>3, <1>4, <1>5 DEF Next, Freeze, vars

\* The induction step, with the record of a landed commit.
LEMMA ClaimInductive ==
    /\ TypeInv /\ ReviewInv /\ ClaimInv /\ [Next]_vars => ClaimInv'
    /\ TypeInv /\ ReviewInv /\ ClaimInv /\ [Next]_vars
          => [row.bundle.sha => row'.bundle.sha]_vars
BY NextTyped, NextClaim

\* Of two bundles running for one request one has outlived its lease: within
\* a lease the claim is exclusive, however many callers and restarts there are.
THEOREM BundleIsExclusive == Spec => []BundleExclusive
<1>1. TypeInv /\ ClaimInv => BundleExclusive
  <2> SUFFICES ASSUME TypeInv, ClaimInv, NEW p \in Proc, NEW q \in Proc, p # q,
                      InBundle(p), InBundle(q)
               PROVE  ClaimOld(p) \/ ClaimOld(q)
    BY DEF BundleExclusive
  <2>1. Holds(proc[p]) /\ Holds(proc[q])  BY DEF InBundle, Holds
  <2>2. proc[p].at <= now /\ proc[q].at <= now
    BY <2>1 DEF ClaimInv, BundleInv, Past, Holds
  <2>3. OlderBy(proc[p], proc[q].at) \/ OlderBy(proc[q], proc[p].at)
    BY <2>1 DEF ClaimInv, Apart
  <2>4. now \in Nat /\ BundleLease \in Nat /\ proc[p].at \in Nat /\ proc[q].at \in Nat
    BY ConstantTypes DEF TypeInv, RestOK, ProcOK, Handler
  <2> QED  BY <2>2, <2>3, <2>4 DEF OlderBy, ClaimOld
<1> QED
  BY <1>1, InitTyped, NextTyped, InitReview, NextReview, InitClaim, ClaimInductive, PTL
     DEF Spec

\* Once the row has recorded a landed commit no claim, resume, outcome,
\* crash or stale whole-row write makes it forget the commit.
THEOREM LandedIsRemembered == Spec => LandedRemembered
<1>1. Spec => [][row.bundle.sha => row'.bundle.sha]_vars
  BY InitTyped, NextTyped, InitReview, NextReview, InitClaim, ClaimInductive, PTL
     DEF Spec
<1> QED  BY <1>1 DEF LandedRemembered

-----------------------------------------------------------------------------
(***************************************************************************)
(* The freeze, and the life cycle.  Both are proved for handlers other     *)
(* than annotations: a row put back whole past its review is how the       *)
(* scheduler comes to apply twice (DoubleApply.cfg).                       *)
(***************************************************************************)
NoAnnotations == "annotate" \notin Ops

\* What a handler has read by the time it writes by status or ends a review.
Sourced(h) ==
    /\ h.op # "annotate"
    /\ h.op \in {"approve", "reject"} => h.snap.status \in Open
    /\ h.op = "approve" /\ h.to \in Open => h.to = h.snap.status
    /\ h.op = "cooling" => h.snap.status = "APPROVED_COOLING"
    /\ h.op \in {"window", "hold"} => h.snap.status = "AWAITING_DEPLOY_APPROVAL"
    /\ h.op = "lease" => h.snap.status = "APPLYING"
    /\ h.op = "cancel" /\ h.pc = "write" => h.snap.status \in Cancellable
    /\ h.op = "rewindow" /\ h.pc = "write" =>
          h.snap.status \in {"AWAITING_DEPLOY_APPROVAL", "WINDOW_EXPIRED"}
    /\ h.op = "tick" /\ h.pc \in {"freeze", "plan", "claim"} =>
          h.snap.status = "AWAITING_DEPLOY_APPROVAL"
    /\ h.op = "tick" /\ h.pc = "write" =>
          \/ h.snap.status = "AWAITING_DEPLOY_APPROVAL" /\ h.to = "HALTED_DRIFT"
          \/ h.snap.status = "APPLYING" /\ h.to = "HALTED_APPLY_FAILED"
    /\ h.op = "tick" /\ h.pc = "finish" => h.to \in {"APPLIED", "HALTED_APPLY_FAILED"}

\* A handler under the freeze from its start is not on the way to an apply.
Unvetoed(h) ==
    h.veto => /\ h.op = "approve" => h.to # "APPLIED"
              /\ h.op = "hold" => h.pc # "write"
              /\ h.op = "tick" => h.pc \notin {"plan", "claim"}

Yields(h) == Sourced(h) /\ Unvetoed(h) /\ (h.veto => frozen)
VetoInv == \A p \in Proc : Yields(proc[p])

\* Nothing is asked of a free slot.
LEMMA IdleYields == Yields(Idle)
BY DEF Yields, Sourced, Unvetoed, Idle

\* What a handler that moves on keeps.
LEMMA GotoFields ==
    ASSUME TypeInv, NEW p \in Proc, NEW pc, Goto(p, pc)
    PROVE  \E g : /\ Set(p, g)
                  /\ g.op = proc[p].op /\ g.snap = proc[p].snap /\ g.to = proc[p].to
                  /\ g.at = proc[p].at /\ g.veto = proc[p].veto /\ g.win = proc[p].win
                  /\ g.pc = pc
<1> DEFINE g == [proc[p] EXCEPT !.pc = pc]
<1>1. proc[p] \in Handler BY DEF TypeInv, ProcOK
<1>2. Set(p, g) BY DEF Goto, Set
<1> QED BY <1>1, <1>2 DEF Handler

\* A status the settlers and the lanes act on is not one of review.
LEMMA ActedOn ==
    /\ Open \cap Cancellable = {}
    /\ {"APPLIED", "APPLYING", "WINDOW_EXPIRED", "AWAITING_DEPLOY_APPROVAL"} \cap Open = {}
    /\ {"WINDOW_EXPIRED", "AWAITING_DEPLOY_APPROVAL", "APPROVED_COOLING"} \subseteq Cancellable
BY DEF Open, Cancellable

\* An approver asks for the freeze before it records an apply.
LEMMA ReviewYields ==
    ASSUME TypeInv, NoAnnotations, NEW p \in Proc, Review(p), Yields(proc[p])
    PROVE  Yields(proc[p])'
<1> DEFINE h == proc[p]
<1>0. h \in Handler BY DEF TypeInv, ProcOK
<1>f. frozen' = frozen
  BY DEF Review, SubmitStart, SubmitWrite, ApproveRead, ApproveFreeze, ApproveWrite,
         RejectStart, RejectWrite, AnnotateStart, AnnotateWrite, NoWrite, Quiet
<1>b. ASSUME NEW g, Set(p, g), Yields(g) PROVE Yields(proc[p])'
  BY <1>b, <1>f DEF Set, TypeInv, ProcOK, Yields, Sourced, Unvetoed
<1>c. ASSUME Return(p) PROVE Yields(proc[p])' BY <1>b, <1>c, IdleYields DEF Return, Set
<1>1. CASE SubmitStart(p)
  BY <1>1, <1>b DEF SubmitStart, Begin, Idle, Yields, Sourced, Unvetoed
<1>2. ASSUME NEW u \in Person, ApproveRead(p, u) PROVE Yields(proc[p])'
  <2>1. PICK pc, to :
           /\ Set(p, [Begin("approve", pc) EXCEPT !.by = u, !.at = now, !.to = to])
           /\ to \in {"WINDOW_EXPIRED", row.status} /\ row.status \in Open
    BY <1>2 DEF ApproveRead
  <2>2. PICK g : g = [Begin("approve", pc) EXCEPT !.by = u, !.at = now, !.to = to] OBVIOUS
  <2>3. g.op = "approve" /\ g.snap = row /\ g.to = to /\ g.veto = frozen
    BY <2>2 DEF Begin, Idle
  <2>4. Yields(g) BY <2>1, <2>3, ActedOn DEF Yields, Sourced, Unvetoed
  <2> QED BY <1>b, <2>1, <2>2, <2>4
<1>3. CASE ApproveFreeze(p)
  <2> DEFINE to == IF frozen \/ Windowed(h.snap) THEN "AWAITING_DEPLOY_APPROVAL" ELSE "APPLIED"
             g == [h EXCEPT !.pc = "write", !.to = to]
  <2>1. Set(p, g) /\ h.op = "approve" BY <1>3 DEF ApproveFreeze, At
  <2>2. g.op = "approve" /\ g.snap = h.snap /\ g.to = to /\ g.veto = h.veto
    BY <1>0, <2>1 DEF Handler
  <2>3. Yields(g) BY <2>1, <2>2, ActedOn DEF Yields, Sourced, Unvetoed
  <2> QED BY <1>b, <2>1, <2>3
<1>4. CASE RejectStart(p)
  BY <1>4, <1>b DEF RejectStart, Begin, Idle, Yields, Sourced, Unvetoed
<1>5. ~AnnotateStart(p) BY DEF AnnotateStart, MayBegin, NoAnnotations
<1> QED
  BY <1>1, <1>2, <1>3, <1>4, <1>5, <1>c
     DEF Review, SubmitWrite, ApproveWrite, RejectWrite, AnnotateWrite

\* A settler asks for the freeze before it records a held request as applied.
LEMMA SettleYields ==
    ASSUME TypeInv, NEW p \in Proc, Settle(p), Yields(proc[p]), Guarded(proc[p])
    PROVE  Yields(proc[p])'
<1> DEFINE h == proc[p]
<1>0. h \in Handler /\ row \in Row BY DEF TypeInv, ProcOK
<1>f. frozen' = frozen
  BY DEF Settle, CoolingStart, CoolingWrite, WindowStart, WindowWrite, HoldStart, HoldFreeze,
         HoldWrite, LeaseStart, LeaseWrite, SettleCoolingFirst, SettleWindowFirst, SettleStep,
         StatusWrite, NoWrite, Quiet
<1>b. ASSUME NEW g, Set(p, g), Yields(g) PROVE Yields(proc[p])'
  BY <1>b, <1>f DEF Set, TypeInv, ProcOK, Yields, Sourced, Unvetoed
<1>c. ASSUME Return(p) PROVE Yields(proc[p])' BY <1>b, <1>c, IdleYields DEF Return, Set
<1> USE DEF Yields, Sourced, Unvetoed, Begin, Idle
<1>1. CASE CoolingStart(p) BY <1>1, <1>b DEF CoolingStart, CoolingElapsed
<1>2. CASE WindowStart(p) BY <1>2, <1>b DEF WindowStart, NeedsWindowSettlement
<1>3. CASE HoldStart(p) BY <1>3, <1>b DEF HoldStart, NeedsFrozenHoldSettlement
<1>4. CASE HoldFreeze(p)
  <2>1. CASE frozen BY <1>4, <1>c, <2>1 DEF HoldFreeze
  <2>2. CASE ~frozen
    <3>1. h.op = "hold" /\ Goto(p, "write") BY <1>4, <2>2 DEF HoldFreeze, At
    <3> QED BY <1>b, <2>2, <3>1, GotoFields
  <2> QED BY <2>1, <2>2
<1>5. CASE LeaseStart(p) BY <1>5, <1>b DEF LeaseStart, NeedsApplyClaimSettlement
<1>6. ASSUME NEW from, NEW to, SettleStep(p, from, to) PROVE Yields(proc[p])'
  <2> DEFINE s == IF row.status = from THEN [h.snap EXCEPT !.status = to] ELSE row
             g == [h EXCEPT !.snap = s]
  <2>1. Set(p, g) /\ h.pc = "settle" BY <1>6 DEF SettleStep, Set
  <2>2. g.op = h.op /\ g.pc = "settle" /\ g.to = h.to /\ g.veto = h.veto BY <1>0, <2>1 DEF Handler
  <2>3. h.op \notin Settlers \cup {"approve", "reject"}
    BY <2>1 DEF Guarded, Settlers
  <2> QED BY <1>b, <2>1, <2>2, <2>3 DEF Settlers
<1> QED
  BY <1>1, <1>2, <1>3, <1>4, <1>5, <1>6, <1>c
     DEF Settle, CoolingWrite, WindowWrite, HoldWrite, LeaseWrite, StatusWrite,
         SettleCoolingFirst, SettleWindowFirst

\* A cancel or a new window decides no apply.
LEMMA RescheduleYields ==
    ASSUME TypeInv, NEW p \in Proc, Reschedule(p), Yields(proc[p])
    PROVE  Yields(proc[p])'
<1> DEFINE h == proc[p]
<1>0. h \in Handler /\ row \in Row BY DEF TypeInv, ProcOK
<1>f. frozen' = frozen
  BY DEF Reschedule, CancelStart, CancelDecide, CancelWrite, RewindowStart, RewindowDecide,
         RewindowWrite, StatusWrite, NoWrite, Quiet
<1>b. ASSUME NEW g, Set(p, g), Yields(g) PROVE Yields(proc[p])'
  BY <1>b, <1>f DEF Set, TypeInv, ProcOK, Yields, Sourced, Unvetoed
<1>c. ASSUME Return(p) PROVE Yields(proc[p])' BY <1>b, <1>c, IdleYields DEF Return, Set
<1> USE DEF Yields, Sourced, Unvetoed, Begin, Idle
<1>1. CASE CancelStart(p) BY <1>1, <1>b DEF CancelStart
<1>2. CASE CancelDecide(p)
  <2>1. CASE Return(p) BY <1>c, <2>1
  <2>2. CASE \E u \in Person : MayCancel(h.snap, u, now)
    <3>1. h.op = "cancel" /\ Goto(p, "write") /\ h.snap.status \in Cancellable
      BY <1>2, <2>2 DEF CancelDecide, At, MayCancel
    <3> QED BY <1>b, <3>1, GotoFields
  <2> QED BY <1>2, <2>1, <2>2 DEF CancelDecide
<1>3. CASE RewindowStart(p) BY <1>3, <1>b DEF RewindowStart
<1>4. CASE RewindowDecide(p)
  <2>1. CASE Return(p) BY <1>c, <2>1
  <2>2. ASSUME NEW u \in Person, NEW w \in Windows, MayRewindow(h.snap, u, w, now),
               Set(p, [h EXCEPT !.pc = "write", !.win = Window(w)])
        PROVE  Yields(proc[p])'
    <3> DEFINE g == [h EXCEPT !.pc = "write", !.win = Window(w)]
    <3>1. h.op = "rewindow" /\ h.snap.status \in {"AWAITING_DEPLOY_APPROVAL", "WINDOW_EXPIRED"}
      BY <1>4, <2>2 DEF RewindowDecide, At, MayRewindow
    <3>2. g.op = "rewindow" /\ g.pc = "write" /\ g.snap = h.snap /\ g.veto = h.veto
      BY <1>0, <3>1 DEF Handler
    <3> QED BY <1>b, <2>2, <3>1, <3>2
  <2> QED BY <1>4, <2>1, <2>2 DEF RewindowDecide
<1> QED
  BY <1>1, <1>2, <1>3, <1>4, <1>c
     DEF Reschedule, CancelWrite, RewindowWrite, StatusWrite

\* A bundle's step leaves its slot to the bundle, or free.
LEMMA BundleSets ==
    ASSUME TypeInv, NEW p \in Proc, Bundle(p)
    PROVE  \E g : /\ Set(p, g)
                  /\ g = Idle \/ (g.op = "bundle" /\ g.veto \in {frozen, proc[p].veto})
<1> DEFINE h == proc[p]
           Goal == \E g : Set(p, g) /\ (g = Idle \/ (g.op = "bundle" /\ g.veto \in {frozen, h.veto}))
<1>0. h \in Handler BY DEF TypeInv, ProcOK
<1>r. ASSUME Return(p) PROVE Goal BY <1>r DEF Return, Set
<1>g. ASSUME NEW pc, Goto(p, pc), h.op = "bundle" PROVE Goal BY <1>g, GotoFields
<1>s. ASSUME NEW pc, NEW to, Set(p, [h EXCEPT !.pc = pc, !.to = to]), h.op = "bundle" PROVE Goal
  <2>1. PICK g : g = [h EXCEPT !.pc = pc, !.to = to] OBVIOUS
  <2>2. g.op = "bundle" /\ g.veto = h.veto BY <1>0, <1>s, <2>1 DEF Handler
  <2> QED BY <1>s, <2>1, <2>2
<1>1. CASE BundleStart(p)
  <2>1. PICK g : g = Begin("bundle", "settle") OBVIOUS
  <2>2. g.op = "bundle" /\ g.veto = frozen BY <2>1 DEF Begin, Idle
  <2> QED BY <1>1, <2>1, <2>2 DEF BundleStart
<1>2. CASE BundleDecide(p)
  <2>1. PICK g : g = [h EXCEPT !.pc = "claim", !.at = now,
                                !.to = IF Resumes(h.snap, now) THEN "resume" ELSE "run"]
    OBVIOUS
  <2>2. g.op = "bundle" /\ g.veto = h.veto BY <1>0, <1>2, <2>1 DEF Handler, BundleDecide, At
  <2> QED BY <1>2, <1>r, <2>1, <2>2 DEF BundleDecide
<1>3. CASE BundleClaim(p) BY <1>3, <1>g, <1>r DEF BundleClaim, At
<1>4. CASE BundleResolve(p) BY <1>4, <1>g DEF BundleResolve, At
<1>5. CASE BundleFail(p) BY <1>5, <1>s DEF BundleFail, At
<1>6. CASE BundleLand(p) BY <1>6, <1>g DEF BundleLand, At
<1>7. CASE BundleTrigger(p)
  <2>1. PICK to : Set(p, [h EXCEPT !.pc = "outcome", !.to = to]) BY <1>7 DEF BundleTrigger
  <2> QED BY <1>7, <1>s, <2>1 DEF BundleTrigger, At
<1>8. CASE OutcomeRead(p)
  <2>1. PICK g : g = [h EXCEPT !.pc = "record", !.snap = row] OBVIOUS
  <2>2. g.op = "bundle" /\ g.veto = h.veto BY <1>0, <1>8, <2>1 DEF Handler, OutcomeRead, At
  <2> QED BY <1>8, <1>r, <2>1, <2>2 DEF OutcomeRead
<1>9. CASE OutcomeWrite(p) BY <1>9, <1>g, <1>r DEF OutcomeWrite, At
<1> QED
  BY <1>1, <1>2, <1>3, <1>4, <1>5, <1>6, <1>7, <1>8, <1>9, <1>r DEF Bundle, BundleUnresolved

\* The bundle records its own outcome, and no apply of the row.
LEMMA BundleYields ==
    ASSUME TypeInv, NEW p \in Proc, Bundle(p), Yields(proc[p])
    PROVE  Yields(proc[p])'
<1>1. frozen' = frozen
  BY DEF Bundle, BundleStart, BundleDecide, BundleClaim, BundleUnresolved, BundleResolve,
         BundleFail, BundleLand, BundleTrigger, OutcomeRead, OutcomeWrite, NoWrite, Quiet
<1>2. PICK g : Set(p, g) /\ (g = Idle \/ (g.op = "bundle" /\ g.veto \in {frozen, proc[p].veto}))
  BY BundleSets
<1> QED BY <1>1, <1>2 DEF Set, TypeInv, ProcOK, Yields, Sourced, Unvetoed, Idle

\* A tick asks for the freeze before it plans.
LEMMA TickYields ==
    ASSUME TypeInv, NEW p \in Proc, Tick(p), Yields(proc[p])
    PROVE  Yields(proc[p])'
<1> DEFINE h == proc[p]
<1>0. h \in Handler /\ row \in Row BY DEF TypeInv, ProcOK
<1>f. frozen' = frozen
  BY DEF Tick, TickStart, TickSweep, TickFreeze, TickHold, TickHalt, TickProceed, TickWrite,
         TickClaim, TickApply, TickFinish, StatusWrite, NoWrite, Quiet
<1>b. ASSUME NEW g, Set(p, g), Yields(g) PROVE Yields(proc[p])'
  BY <1>b, <1>f DEF Set, TypeInv, ProcOK, Yields, Sourced, Unvetoed
<1>c. ASSUME Return(p) PROVE Yields(proc[p])' BY <1>b, <1>c, IdleYields DEF Return, Set
<1> USE DEF Yields, Sourced, Unvetoed
<1>1. CASE TickStart(p) BY <1>1, <1>b DEF TickStart, IsDue, Begin, Idle
<1>2. CASE TickSweep(p) BY <1>2, <1>b DEF TickSweep, NeedsApplyClaimSettlement, Begin, Idle
<1>3. CASE TickFreeze(p)
  <2>1. CASE frozen BY <1>3, <1>c, <2>1 DEF TickFreeze
  <2>2. CASE ~frozen
    <3>1. h.op = "tick" /\ h.pc = "freeze" /\ Goto(p, "plan") BY <1>3, <2>2 DEF TickFreeze, At
    <3> QED BY <1>b, <2>2, <3>1, GotoFields
  <2> QED BY <2>1, <2>2
<1>4. CASE TickHalt(p)
  <2> DEFINE g == [h EXCEPT !.pc = "write", !.to = "HALTED_DRIFT"]
  <2>1. Set(p, g) /\ h.op = "tick" /\ h.pc = "plan" BY <1>4 DEF TickHalt, At
  <2>2. /\ g.op = "tick" /\ g.pc = "write" /\ g.to = "HALTED_DRIFT" /\ g.snap = h.snap
        /\ g.veto = h.veto
    BY <1>0, <2>1 DEF Handler
  <2> QED BY <1>b, <2>1, <2>2
<1>5. CASE TickProceed(p)
  <2>1. h.op = "tick" /\ h.pc = "plan" /\ Goto(p, "claim") BY <1>5 DEF TickProceed, At
  <2> QED BY <1>b, <2>1, GotoFields
<1>6. CASE TickClaim(p)
  <2>1. h.op = "tick" /\ h.pc = "claim" /\ (Goto(p, "apply") \/ Return(p))
    BY <1>6 DEF TickClaim, At
  <2> QED BY <1>b, <1>c, <2>1, GotoFields
<1>7. CASE TickApply(p)
  <2>1. PICK to \in {"APPLIED", "HALTED_APPLY_FAILED"} :
           Set(p, [h EXCEPT !.pc = "finish", !.to = to])
    BY <1>7 DEF TickApply
  <2> DEFINE g == [h EXCEPT !.pc = "finish", !.to = to]
  <2>2. g.op = "tick" /\ g.pc = "finish" /\ g.to = to /\ g.veto = h.veto
    BY <1>0, <1>7 DEF Handler, TickApply, At
  <2> QED BY <1>b, <2>1, <2>2
<1> QED
  BY <1>1, <1>2, <1>3, <1>4, <1>5, <1>6, <1>7, <1>c
     DEF Tick, TickHold, TickWrite, TickFinish, StatusWrite

\* At the start no handler runs.
LEMMA InitVeto == Init => VetoInv
BY IdleYields DEF Init, VetoInv

\* Other handlers stay as they are.
LEMMA OneMoves ==
    ASSUME TypeInv, NEW p \in Proc, Step(p)
    PROVE  UNCHANGED <<frozen, now, catalog>> /\ \A q \in Proc : q # p => proc'[q] = proc[q]
<1> USE DEF NoWrite, Quiet, Set, Return, Goto, TypeInv, ProcOK
<1>a. ASSUME Review(p) PROVE UNCHANGED <<frozen, now, catalog>>
  BY <1>a DEF Review, SubmitStart, SubmitWrite, ApproveRead, ApproveFreeze, ApproveWrite,
              RejectStart, RejectWrite, AnnotateStart, AnnotateWrite
<1>b. ASSUME Review(p) PROVE \A q \in Proc : q # p => proc'[q] = proc[q]
  BY <1>b DEF Review, SubmitStart, SubmitWrite, ApproveRead, ApproveFreeze, ApproveWrite,
              RejectStart, RejectWrite, AnnotateStart, AnnotateWrite
<1>c. ASSUME Settle(p)
      PROVE  UNCHANGED <<frozen, now, catalog>> /\ \A q \in Proc : q # p => proc'[q] = proc[q]
  BY <1>c DEF Settle, CoolingStart, CoolingWrite, WindowStart, WindowWrite, HoldStart,
              HoldFreeze, HoldWrite, LeaseStart, LeaseWrite, SettleCoolingFirst,
              SettleWindowFirst, SettleStep, StatusWrite
<1>d. ASSUME Reschedule(p)
      PROVE  UNCHANGED <<frozen, now, catalog>> /\ \A q \in Proc : q # p => proc'[q] = proc[q]
  BY <1>d DEF Reschedule, CancelStart, CancelDecide, CancelWrite, RewindowStart,
              RewindowDecide, RewindowWrite, StatusWrite
<1>e. ASSUME Bundle(p)
      PROVE  UNCHANGED <<frozen, now, catalog>> /\ \A q \in Proc : q # p => proc'[q] = proc[q]
  BY <1>e DEF Bundle, BundleStart, BundleDecide, BundleClaim, BundleUnresolved, BundleResolve,
              BundleFail, BundleLand, BundleTrigger, OutcomeRead, OutcomeWrite
<1>f. ASSUME Tick(p)
      PROVE  UNCHANGED <<frozen, now, catalog>> /\ \A q \in Proc : q # p => proc'[q] = proc[q]
  BY <1>f DEF Tick, TickStart, TickSweep, TickFreeze, TickHold, TickHalt, TickProceed,
              TickWrite, TickClaim, TickApply, TickFinish, StatusWrite
<1>g. ASSUME GiveUp(p)
      PROVE  UNCHANGED <<frozen, now, catalog>> /\ \A q \in Proc : q # p => proc'[q] = proc[q]
  BY <1>g DEF GiveUp
<1> QED BY <1>a, <1>b, <1>c, <1>d, <1>e, <1>f, <1>g DEF Step

\* No step brings a handler on the way to an apply under the freeze.
LEMMA NextVeto ==
    ASSUME TypeInv, ReviewInv, NoAnnotations, VetoInv, [Next]_vars
    PROVE  VetoInv'
<1>1. ASSUME NEW p \in Proc, Step(p) PROVE VetoInv'
  <2>1. Guarded(proc[p]) /\ Yields(proc[p]) BY DEF ReviewInv, HandlerInv, VetoInv
  <2>2. ASSUME GiveUp(p) PROVE Yields(proc[p])'
    BY <2>2 DEF GiveUp, Return, TypeInv, ProcOK, Yields, Sourced, Unvetoed, Idle
  <2>3. Yields(proc[p])'
    BY <1>1, <2>1, <2>2, ReviewYields, SettleYields, RescheduleYields, BundleYields, TickYields
       DEF Step
  <2>4. ASSUME NEW q \in Proc, q # p PROVE Yields(proc[q])'
    BY <1>1, <2>4, OneMoves DEF VetoInv, Yields
  <2> QED BY <2>3, <2>4 DEF VetoInv
<1>2. CASE UNCHANGED <<proc, frozen>>
  BY <1>2 DEF VetoInv, Yields
<1>3. CASE Freeze
  BY <1>3 DEF VetoInv, Yields, Freeze
<1>4. CASE Unfreeze
  <2>1. \A q \in Proc : proc'[q] = [proc[q] EXCEPT !.veto = FALSE] /\ proc[q] \in Handler
    BY <1>4 DEF Unfreeze, TypeInv, ProcOK
  <2>2. \A q \in Proc :
           /\ proc'[q].op = proc[q].op /\ proc'[q].pc = proc[q].pc
           /\ proc'[q].snap = proc[q].snap /\ proc'[q].to = proc[q].to /\ ~proc'[q].veto
    BY <2>1 DEF Handler
  <2>3. ASSUME NEW q \in Proc PROVE Yields(proc[q])'
    <3>1. Sourced(proc[q]) BY DEF VetoInv, Yields
    <3>2. Sourced(proc'[q]) BY <2>2, <3>1 DEF Sourced
    <3> QED BY <2>2, <3>2 DEF Yields, Unvetoed, Sourced
  <2> QED BY <2>3 DEF VetoInv
<1>5. CASE Restart
  BY <1>5, IdleYields DEF Restart, VetoInv, Yields, Sourced, Unvetoed, Idle
<1> QED BY <1>1, <1>2, <1>3, <1>4, <1>5 DEF Next, ClockTick, vars

\* Only three writes take a request that was not cooling off to an apply, and
\* none by a handler that was under the freeze throughout.
LEMMA OnlyUnvetoed ==
    ASSUME TypeInv, ReviewInv, VetoInv, NEW p \in Proc, Step(p),
           row.status \notin {"APPLIED", "APPLYING", "APPROVED_COOLING"},
           row'.status \in {"APPLIED", "APPLYING"}
    PROVE  proc'[p] # proc[p] /\ ~proc[p].veto
<1> DEFINE h == proc[p]
<1>0. /\ row \in Row /\ h \in Handler /\ h.snap \in Row /\ Yields(h)
      /\ HandlerInv(row, catalog, h) /\ Decided(h)
  BY DEF TypeInv, ProcOK, Handler, ReviewInv, VetoInv
<1>1. ~NoWrite BY DEF NoWrite
<1>2. \A s, x, b : /\ [row EXCEPT !.status = s].status = s
                   /\ [row EXCEPT !.seq = x, !.bundle = b].status = row.status
                   /\ [row EXCEPT !.status = s, !.schedule = b].status = s
                   /\ [row EXCEPT !.status = s, !.claimedAt = x].status = s
                   /\ [h.snap EXCEPT !.status = s, !.seq = x].status = s
  BY <1>0 DEF Row
<1>3. ASSUME NEW op, NEW s, StatusWrite(p, op, [row EXCEPT !.status = s])
      PROVE  s \in {"APPLIED", "APPLYING"} /\ row.status = h.snap.status /\ h.op = op /\ h.pc = "write"
  BY <1>2, <1>3 DEF StatusWrite, IfStatus, At
<1>4. ASSUME Return(p), h.op # "none" PROVE proc'[p] # h
  BY <1>4 DEF Return, Idle, TypeInv, ProcOK
<1>5. CASE Review(p)
  <2>1. ~SubmitWrite(p)
    BY <1>0 DEF SubmitWrite, At, HandlerInv, Unborn, Open
  <2>2. ~RejectWrite(p) BY <1>0 DEF RejectWrite, IfSeq, Row
  <2>3. ~AnnotateWrite(p) BY <1>0 DEF AnnotateWrite, At, Yields, Sourced
  <2>4. ApproveWrite(p)
    BY <1>1, <1>5, <2>1, <2>2, <2>3
       DEF Review, SubmitStart, ApproveRead, ApproveFreeze, RejectStart, AnnotateStart
  <2>5. row' = Approved(h) /\ h.op = "approve" /\ h.pc = "write" /\ Return(p)
    BY <2>4 DEF ApproveWrite, At
  <2>6. row'.status = h.to BY <1>0, <2>5 DEF Approved, Row
  <2>7. h.to = "APPLIED" BY <1>0, <2>5, <2>6 DEF Decided, Open
  <2> QED BY <1>0, <1>4, <2>5, <2>7 DEF Yields, Unvetoed
<1>6. CASE Settle(p)
  <2>1. ~CoolingWrite(p)
    BY <1>0, <1>3 DEF CoolingWrite, Yields, Sourced
  <2>2. ~WindowWrite(p) /\ ~LeaseWrite(p) BY <1>3 DEF WindowWrite, LeaseWrite
  <2>3. ~SettleCoolingFirst(p) BY DEF SettleCoolingFirst, SettleStep, IfStatus
  <2>4. ~SettleWindowFirst(p) BY <1>0 DEF SettleWindowFirst, SettleStep, IfStatus, Row
  <2>5. HoldWrite(p)
    BY <1>1, <1>6, <2>1, <2>2, <2>3, <2>4
       DEF Settle, CoolingStart, WindowStart, HoldStart, HoldFreeze, LeaseStart
  <2>6. h.op = "hold" /\ h.pc = "write" /\ Return(p) BY <2>5 DEF HoldWrite, StatusWrite, At
  <2> QED BY <1>0, <1>4, <2>6 DEF Yields, Unvetoed
<1>7. ~Reschedule(p)
  <2>1. ~CancelWrite(p) BY <1>3 DEF CancelWrite
  <2>2. ~RewindowWrite(p) BY <1>0 DEF RewindowWrite, StatusWrite, IfStatus, Row
  <2> QED
    BY <1>1, <2>1, <2>2 DEF Reschedule, CancelStart, CancelDecide, RewindowStart, RewindowDecide
<1>8. ~Bundle(p)
  <2>1. row'.status # row.status OBVIOUS
  <2>2. \A b : [row EXCEPT !.seq = @ + 1, !.bundle = b].status = row.status BY <1>0 DEF Row
  <2>3. ~BundleClaim(p) /\ ~OutcomeWrite(p)
    BY <2>1, <2>2 DEF BundleClaim, OutcomeWrite, IfSeq
  <2> QED
    BY <2>1, <2>3
       DEF Bundle, BundleStart, BundleDecide, BundleUnresolved, BundleResolve, BundleFail,
           BundleLand, BundleTrigger, OutcomeRead, NoWrite
<1>9. CASE Tick(p)
  <2>1. ~TickWrite(p)
    BY <1>0, <1>3 DEF TickWrite, Yields, Sourced
  <2>2. ~TickFinish(p) BY DEF TickFinish, IfStatus
  <2>3. TickClaim(p)
    BY <1>1, <1>9, <2>1, <2>2
       DEF Tick, TickStart, TickSweep, TickFreeze, TickHold, TickHalt, TickProceed, TickApply,
           NoWrite
  <2>4. h.op = "tick" /\ h.pc = "claim" /\ (Goto(p, "apply") \/ Return(p))
    BY <2>3 DEF TickClaim, At
  <2>5. CASE Goto(p, "apply")
    <3>1. proc'[p].pc = "apply" BY <1>0, <2>5 DEF Goto, TypeInv, ProcOK, Handler
    <3> QED BY <1>0, <2>4, <3>1 DEF Yields, Unvetoed
  <2> QED BY <1>0, <1>4, <2>4, <2>5 DEF Yields, Unvetoed
<1> QED BY <1>1, <1>5, <1>6, <1>7, <1>8, <1>9 DEF Step, GiveUp

\* No handler that ran entirely under a change freeze records or claims an
\* apply, whatever handlers and ticks run beside it (annotations apart).
THEOREM FreezeVetoHolds == NoAnnotations => (Spec => FreezeVeto)
<1> SUFFICES ASSUME NoAnnotations PROVE Spec => FreezeVeto OBVIOUS
<1> DEFINE Vetoed ==
             row.status \notin {"APPLIED", "APPLYING", "APPROVED_COOLING"}
                /\ row'.status \in {"APPLIED", "APPLYING"}
              => \E p \in Proc : proc'[p] # proc[p] /\ ~proc[p].veto
<1>1. TypeInv /\ ReviewInv /\ VetoInv /\ [Next]_vars => [Vetoed]_vars
  <2> SUFFICES ASSUME TypeInv, ReviewInv, VetoInv, Next,
                      row.status \notin {"APPLIED", "APPLYING", "APPROVED_COOLING"},
                      row'.status \in {"APPLIED", "APPLYING"}
               PROVE  \E p \in Proc : proc'[p] # proc[p] /\ ~proc[p].veto
    OBVIOUS
  <2>1. PICK p \in Proc : Step(p) BY DEF Next, Freeze, Unfreeze, ClockTick, Restart
  <2> QED BY <2>1, OnlyUnvetoed
<1>2. TypeInv /\ ReviewInv /\ VetoInv /\ [Next]_vars => VetoInv' BY NextVeto
<1>3. Spec => [][Vetoed]_vars
  BY <1>1, <1>2, InitTyped, NextTyped, InitReview, NextReview, InitVeto, PTL DEF Spec
<1> QED BY <1>3 DEF FreezeVeto

-----------------------------------------------------------------------------
(***************************************************************************)
(* The life cycle.  A request's row moves along the edges of the module    *)
(* RequestLifecycle: the scheduler's claim is taken once, since a claimed  *)
(* row never waits for its window again, and the one handler that took it  *)
(* runs the executor once.                                                 *)
(***************************************************************************)

\* Stored rows have not been claimed yet, and windows begin after the clock's
\* zero: an unclaimed row is one whose claimedAt is 0.
Unclaimed ==
    /\ NoAnnotations
    /\ MinLead \in Nat \ {0}
    /\ \A r \in InitRows : /\ r.claimedAt = 0
                           /\ r.status \in Open \cup Cancellable \cup {"ABSENT"}
                           /\ Windowed(r) => r.schedule.at > 0

Claimed == {"APPLYING", "HALTED_APPLY_FAILED", "APPLIED", "CANCELLED"}
Granted(h) == h.op = "tick" /\ h.pc \in {"apply", "finish"}

RowLife(r) ==
    /\ r.claimedAt > 0 => r.status \in Claimed
    /\ r.status = "APPLYING" => r.claimedAt > 0
    /\ Windowed(r) => r.schedule.at > 0

\* A decision about a review is written over the row it was made on, a window
\* is asked for and reached after the clock's zero.
HandlerLife(r, h) ==
    /\ h.op = "submit" =>
          h.snap.claimedAt = 0 /\ (Windowed(h.snap) => h.snap.schedule.at > 0)
    /\ h.op \in {"approve", "reject"} /\ h.snap.seq = r.seq => h.snap = r
    /\ h.op = "rewindow" /\ h.pc = "write" => h.win.at > 0
    /\ h.op = "tick" /\ h.pc \in {"freeze", "plan", "claim"} => h.at > 0
    /\ Granted(h) => r.claimedAt > 0

Ran(h, applies) == Granted(h) => applies = IF h.pc = "apply" THEN 0 ELSE 1

LifeInv ==
    /\ RowLife(row)
    /\ effects.applies \in {0, 1} /\ (row.claimedAt = 0 => effects.applies = 0)
    /\ \A p \in Proc : HandlerLife(row, proc[p]) /\ Ran(proc[p], effects.applies)
    /\ \A p, q \in Proc : Granted(proc[p]) /\ Granted(proc[q]) => p = q

\* The moves of a status that take no claim.
Edge(from, to) ==
    \/ to = from
    \/ from = "ABSENT" /\ to \in Open
    \/ from \in Open /\ to \in {"REJECTED", "APPLIED", "AWAITING_DEPLOY_APPROVAL", "WINDOW_EXPIRED"}
    \/ from = "APPROVED_COOLING" /\ to \in {"APPLIED", "AWAITING_DEPLOY_APPROVAL"}
    \/ from = "AWAITING_DEPLOY_APPROVAL" /\ to \in {"APPLIED", "WINDOW_EXPIRED", "HALTED_DRIFT"}
    \/ from = "WINDOW_EXPIRED" /\ to = "AWAITING_DEPLOY_APPROVAL"
    \/ from \in Cancellable /\ to = "CANCELLED"
    \/ from = "APPLYING" /\ to = "HALTED_APPLY_FAILED"
    \/ from = "APPLYING" /\ to = "APPLIED" /\ effects.applies = 1

LifecycleStep == [Lifecycle!LNext]_Lifecycle!lvars

\* Such a move is one of the life cycle's, on a row that is as lawful after it.
LEMMA EdgeLives ==
    ASSUME TypeInv, TypeInv', RowLife(row), Edge(row.status, row'.status),
           row'.claimedAt = row.claimedAt, effects'.applies = effects.applies,
           row'.schedule = row.schedule \/ row'.schedule.at > 0
    PROVE  RowLife(row') /\ LifecycleStep
<1>1. row.claimedAt \in Nat BY DEF TypeInv, Row
<1>2. RowLife(row')
  BY <1>1 DEF RowLife, Edge, Claimed, Open, Cancellable, Windowed
<1>3. row.status = "AWAITING_DEPLOY_APPROVAL" => ~(row.claimedAt > 0)
  BY <1>1 DEF RowLife, Claimed
<1>4. ASSUME NEW from, NEW to, row.status \in from, row'.status \in to
      PROVE  Lifecycle!Move(from, to)
  BY <1>4 DEF Lifecycle!Move
<1>5. LifecycleStep
  <2> USE DEF LifecycleStep, Lifecycle!LNext
  <2>1. CASE row'.status = row.status BY <2>1 DEF Lifecycle!lvars
  <2>2. CASE row.status = "ABSENT" /\ row'.status \in Open
    BY <1>4, <2>2 DEF Lifecycle!Create, Open, Lifecycle!Reviewing
  <2>3. CASE row.status \in Open /\ row'.status \in
               {"REJECTED", "APPLIED", "AWAITING_DEPLOY_APPROVAL", "WINDOW_EXPIRED"}
    BY <1>4, <2>3 DEF Lifecycle!Decide, Open, Lifecycle!Reviewing
  <2>4. CASE row.status = "APPROVED_COOLING" /\ row'.status \in {"APPLIED", "AWAITING_DEPLOY_APPROVAL"}
    BY <1>4, <2>4 DEF Lifecycle!Cool
  <2>5. CASE row.status = "AWAITING_DEPLOY_APPROVAL" /\ row'.status = "APPLIED"
    BY <1>3, <1>4, <2>5 DEF Lifecycle!Release
  <2>6. CASE row.status = "AWAITING_DEPLOY_APPROVAL" /\ row'.status = "WINDOW_EXPIRED"
    BY <1>4, <2>6 DEF Lifecycle!Expire
  <2>7. CASE row.status = "AWAITING_DEPLOY_APPROVAL" /\ row'.status = "HALTED_DRIFT"
    BY <1>4, <2>7 DEF Lifecycle!Drift
  <2>8. CASE row.status = "WINDOW_EXPIRED" /\ row'.status = "AWAITING_DEPLOY_APPROVAL"
    BY <1>4, <2>8 DEF Lifecycle!Rewindow
  <2>9. CASE row.status \in Cancellable /\ row'.status = "CANCELLED"
    BY <1>4, <2>9 DEF Lifecycle!Withdraw, Lifecycle!Parked, Lifecycle!Halted, Cancellable
  <2>10. CASE row.status = "APPLYING" /\ row'.status = "HALTED_APPLY_FAILED"
    BY <1>4, <2>10 DEF Lifecycle!Fail
  <2>11. CASE row.status = "APPLYING" /\ row'.status = "APPLIED" /\ effects.applies = 1
    BY <1>4, <2>11 DEF Lifecycle!Succeed
  <2> QED
    BY <2>1, <2>2, <2>3, <2>4, <2>5, <2>6, <2>7, <2>8, <2>9, <2>10, <2>11 DEF Edge
<1> QED BY <1>2, <1>5

\* One handler takes a step that takes no claim.
LEMMA LifeStep ==
    ASSUME TypeInv, TypeInv', ReviewInv, VetoInv, LifeInv, NEW p \in Proc, NEW h, Set(p, h),
           \/ row' = row
           \/ row'.seq = row.seq + 1
           \/ row'.seq = row.seq /\ row.status \in PostReview,
           Edge(row.status, row'.status),
           row'.claimedAt = row.claimedAt, effects'.applies = effects.applies,
           row'.schedule = row.schedule \/ row'.schedule.at > 0,
           HandlerLife(row', h), ~Granted(h)
    PROVE  LifeInv' /\ LifecycleStep
<1>1. RowLife(row') /\ LifecycleStep BY EdgeLives DEF LifeInv
<1>2. \A q \in Proc : proc'[q] = IF q = p THEN h ELSE proc[q] BY DEF Set, TypeInv, ProcOK
<1>3. ASSUME NEW q \in Proc, q # p PROVE HandlerLife(row', proc[q])
  <2>1. /\ HandlerLife(row, proc[q]) /\ Sourced(proc[q]) /\ Versioned(row, proc[q])
        /\ proc[q].snap.seq \in Nat /\ row.seq \in Nat
    BY DEF LifeInv, VetoInv, Yields, ReviewInv, HandlerInv, TypeInv, ProcOK, Handler, Row
  <2>2. proc[q].op \in {"approve", "reject"} /\ proc[q].snap.seq = row'.seq => proc[q].snap = row'
    BY <2>1, PostReviewStatus DEF HandlerLife, Sourced, Versioned, Reader
  <2> QED BY <2>1, <2>2 DEF HandlerLife
<1>4. ASSUME NEW q \in Proc PROVE HandlerLife(row', proc'[q]) /\ Ran(proc'[q], effects'.applies)
  <2>1. CASE q = p BY <1>2, <2>1 DEF Ran
  <2>2. CASE q # p BY <1>2, <1>3, <2>2 DEF LifeInv
  <2> QED BY <2>1, <2>2
<1>5. \A q, r \in Proc : Granted(proc'[q]) /\ Granted(proc'[r]) => q = r BY <1>2 DEF LifeInv
<1> QED BY <1>1, <1>4, <1>5 DEF LifeInv

\* A handler goes on, or comes back, without a write.
LEMMA QuietLives ==
    ASSUME TypeInv, TypeInv', ReviewInv, VetoInv, LifeInv, NEW p \in Proc, NEW h, Set(p, h),
           row' = row, effects'.applies = effects.applies, HandlerLife(row, h), ~Granted(h)
    PROVE  LifeInv' /\ LifecycleStep
BY LifeStep DEF Edge

\* Nothing is asked of a free slot.
LEMMA IdleLives == ASSUME NEW r PROVE HandlerLife(r, Idle) /\ ~Granted(Idle)
BY DEF HandlerLife, Granted, Idle

\* A write guarded on status, by a handler that comes back.
LEMMA StatusLives ==
    ASSUME TypeInv, TypeInv', ReviewInv, VetoInv, LifeInv, NEW p \in Proc,
           NEW op \in Settlers \cup {"cancel"}, NEW s,
           StatusWrite(p, op, [row EXCEPT !.status = s]),
           row.status = proc[p].snap.status => Edge(row.status, s)
    PROVE  LifeInv' /\ LifecycleStep
<1> DEFINE h == proc[p]
<1>0. row \in Row /\ HandlerInv(row, catalog, h) BY DEF TypeInv, ReviewInv
<1>1. h.op = op /\ h.pc = "write" /\ Set(p, Idle) /\ effects' = effects
  BY DEF StatusWrite, At, Return, Set, Quiet
<1>2. h.snap.status \in PostReview BY <1>0, <1>1 DEF HandlerInv, Guarded
<1>3. CASE row' = row BY <1>1, <1>3, IdleLives, QuietLives
<1>4. CASE row.status = h.snap.status /\ row' = [row EXCEPT !.status = s]
  <2>1. /\ row'.status = s /\ row'.seq = row.seq /\ row'.claimedAt = row.claimedAt
        /\ row'.schedule = row.schedule
    BY <1>0, <1>4 DEF Row
  <2> QED BY <1>1, <1>2, <1>4, <2>1, IdleLives, LifeStep
<1> QED BY <1>3, <1>4 DEF StatusWrite, IfStatus

\* Deciding a review is an edge of the life cycle: the row is the one it was
\* decided on.
LEMMA ReviewLives ==
    ASSUME TypeInv, TypeInv', ReviewInv, VetoInv, LifeInv, Unclaimed, NEW p \in Proc, Review(p)
    PROVE  LifeInv' /\ LifecycleStep
<1> DEFINE h == proc[p]
<1>0. /\ row \in Row /\ h \in Handler /\ h.snap \in Row /\ HandlerLife(row, h) /\ Sourced(h)
      /\ HandlerInv(row, catalog, h) /\ RowInv(row, signed) /\ Decided(h) /\ RowLife(row)
  BY DEF TypeInv, ProcOK, Handler, ReviewInv, VetoInv, Yields, LifeInv
<1>n. ASSUME NEW g, Set(p, g), NoWrite, HandlerLife(row, g), ~Granted(g)
      PROVE  LifeInv' /\ LifecycleStep
  BY <1>n, QuietLives DEF NoWrite, Quiet
<1>r. Return(p) => Set(p, Idle) BY DEF Return, Set
<1>1. CASE SubmitStart(p)
  <2>1. PICK set \in Forms,
             schedule \in {NowSchedule} \cup {Window(w) : w \in {v \in Windows : ValidWindow(v, now)}} :
               Set(p, [Begin("submit", "write") EXCEPT !.snap = SubmittedRow(set, schedule)])
    BY <1>1 DEF SubmitStart
  <2>2. SubmittedRow(set, schedule).claimedAt = 0
        /\ SubmittedRow(set, schedule).schedule = schedule
    BY DEF SubmittedRow, AbsentRow
  <2>3. schedule.kind = "window" => schedule.at > 0
    <3>1. ASSUME NEW w \in Windows, ValidWindow(w, now) PROVE w.at > 0
      BY <3>1, ConstantTypes DEF ValidWindow, Unclaimed, TypeInv, RestOK
    <3> QED BY <2>1, <3>1 DEF NowSchedule, Window
  <2> DEFINE g == [Begin("submit", "write") EXCEPT !.snap = SubmittedRow(set, schedule)]
  <2>4. g.op = "submit" /\ g.snap = SubmittedRow(set, schedule) BY DEF Begin, Idle
  <2>5. HandlerLife(row, g) /\ ~Granted(g)
    BY <2>2, <2>3, <2>4 DEF HandlerLife, Granted, Windowed
  <2> QED BY <1>1, <1>n, <2>1, <2>5 DEF SubmitStart
<1>2. CASE SubmitWrite(p)
  <2>1. /\ row.status = "ABSENT" /\ row' = h.snap /\ h.snap.status \in Open /\ h.op = "submit"
        /\ h.snap.claimedAt = 0 /\ (Windowed(h.snap) => h.snap.schedule.at > 0)
        /\ effects' = effects /\ Set(p, Idle)
    BY <1>0, <1>2, <1>r DEF SubmitWrite, At, HandlerInv, Unborn, HandlerLife, Quiet
  <2>2. row.claimedAt = 0 BY <1>0, <2>1 DEF RowLife, Claimed, Row
  <2>3. RowLife(row') BY <2>1 DEF RowLife, Open
  <2>4. ASSUME NEW q \in Proc PROVE proc'[q] = Idle \/ proc'[q].op \in {"none", "submit"}
    <3>1. Versioned(row, proc[q]) BY DEF ReviewInv, HandlerInv
    <3> QED BY <2>1, <3>1 DEF Versioned, Reader, Set, TypeInv, ProcOK
  <2>5. \A q \in Proc : proc[q].op = "submit" => q = p BY <2>1 DEF ReviewInv, OneSubmit
  <2>6. \A q \in Proc : proc'[q].op \notin {"submit", "approve", "reject", "rewindow", "tick"}
    BY <2>1, <2>4, <2>5 DEF Set, TypeInv, ProcOK, Idle
  <2>7. LifeInv'
    BY <2>1, <2>2, <2>3, <2>6 DEF LifeInv, HandlerLife, Ran, Granted
  <2>8. LifecycleStep
    BY <2>1, <2>2 DEF LifecycleStep, Lifecycle!LNext, Lifecycle!Create, Lifecycle!Move,
                      Lifecycle!Reviewing, Open
  <2> QED BY <2>7, <2>8
<1>3. ASSUME NEW u \in Person, ApproveRead(p, u) PROVE LifeInv' /\ LifecycleStep
  BY <1>3, <1>n DEF ApproveRead, Begin, Idle, HandlerLife, Granted
<1>4. CASE ApproveFreeze(p)
  <2>1. PICK to : Set(p, [h EXCEPT !.pc = "write", !.to = to]) BY <1>4 DEF ApproveFreeze
  <2>2. PICK g : g = [h EXCEPT !.pc = "write", !.to = to] OBVIOUS
  <2>3. g.op = "approve" /\ g.snap = h.snap /\ h.op = "approve"
    BY <1>0, <1>4, <2>2 DEF Handler, ApproveFreeze, At
  <2> QED BY <1>0, <1>4, <1>n, <2>1, <2>2, <2>3 DEF ApproveFreeze, HandlerLife, Granted
<1>5. CASE ApproveWrite(p)
  <2>1. h.op = "approve" /\ h.pc = "write" /\ Set(p, Idle) /\ effects' = effects
    BY <1>5, <1>r DEF ApproveWrite, At
  <2>2. CASE row' = row BY <2>1, <2>2, IdleLives, QuietLives
  <2>3. CASE row.seq = h.snap.seq /\ row' = Approved(h)
    <3>1. h.snap = row /\ row.status \in Open BY <1>0, <2>1, <2>3 DEF HandlerLife, Sourced
    <3>2. /\ row'.status = h.to /\ row'.seq = row.seq + 1 /\ row'.claimedAt = row.claimedAt
          /\ row'.schedule = row.schedule
      BY <1>0, <2>3, <3>1 DEF Approved, Row
    <3>3. Edge(row.status, h.to) BY <1>0, <2>1, <3>1 DEF Edge, Decided, Sourced
    <3> QED BY <2>1, <3>2, <3>3, IdleLives, LifeStep
  <2> QED BY <1>5, <2>2, <2>3 DEF ApproveWrite
<1>6. CASE RejectStart(p)
  BY <1>6, <1>n DEF RejectStart, Begin, Idle, HandlerLife, Granted
<1>7. CASE RejectWrite(p)
  <2>1. h.op = "reject" /\ Set(p, Idle) /\ effects' = effects
    BY <1>7, <1>r DEF RejectWrite, At, Quiet
  <2>2. CASE row' = row BY <2>1, <2>2, IdleLives, QuietLives
  <2>3. CASE row.seq = h.snap.seq /\ row' = [h.snap EXCEPT !.status = "REJECTED", !.seq = @ + 1]
    <3>1. h.snap = row /\ row.status \in Open BY <1>0, <2>1, <2>3 DEF HandlerLife, Sourced
    <3>2. /\ row'.status = "REJECTED" /\ row'.seq = row.seq + 1 /\ row'.claimedAt = row.claimedAt
          /\ row'.schedule = row.schedule
      BY <1>0, <2>3, <3>1 DEF Row
    <3>3. Edge(row.status, "REJECTED") BY <3>1 DEF Edge
    <3> QED BY <2>1, <3>2, <3>3, IdleLives, LifeStep
  <2> QED BY <1>7, <2>2, <2>3 DEF RejectWrite, IfSeq
<1>8. ~AnnotateStart(p) /\ ~AnnotateWrite(p)
  BY <1>0 DEF AnnotateStart, AnnotateWrite, MayBegin, At, Unclaimed, NoAnnotations, Sourced
<1> QED BY <1>1, <1>2, <1>3, <1>4, <1>5, <1>6, <1>7, <1>8 DEF Review

\* So is every settlement: the row still has the status that was settled.
LEMMA SettleLives ==
    ASSUME TypeInv, TypeInv', ReviewInv, VetoInv, LifeInv, NEW p \in Proc, Settle(p)
    PROVE  LifeInv' /\ LifecycleStep
<1> DEFINE h == proc[p]
<1>0. /\ row \in Row /\ h \in Handler /\ h.snap \in Row /\ Sourced(h) /\ Decided(h)
      /\ HandlerInv(row, catalog, h)
  BY DEF TypeInv, ProcOK, Handler, VetoInv, Yields, ReviewInv
<1>n. ASSUME NEW g, Set(p, g), NoWrite, g.op \in {"cooling", "window", "hold", "lease"}
      PROVE  LifeInv' /\ LifecycleStep
  <2>1. HandlerLife(row, g) /\ ~Granted(g) BY <1>n DEF HandlerLife, Granted
  <2> QED BY <1>n, <2>1, QuietLives DEF NoWrite, Quiet
<1>1. CASE CoolingStart(p) BY <1>1, <1>n DEF CoolingStart, Begin, Idle
<1>2. CASE WindowStart(p) BY <1>2, <1>n DEF WindowStart, Begin, Idle
<1>3. CASE HoldStart(p) BY <1>3, <1>n DEF HoldStart, Begin, Idle
<1>4. CASE LeaseStart(p) BY <1>4, <1>n DEF LeaseStart, Begin, Idle
<1>5. CASE HoldFreeze(p)
  <2>1. CASE Return(p)
    BY <1>5, <2>1, IdleLives, QuietLives DEF HoldFreeze, Return, Set, NoWrite, Quiet
  <2>2. CASE Goto(p, "write") BY <1>5, <1>n, <2>2, GotoFields DEF HoldFreeze, At
  <2> QED BY <1>5, <2>1, <2>2 DEF HoldFreeze
<1> USE DEF StatusWrite, At, Settlers, Sourced, Edge
<1>6. CASE CoolingWrite(p) BY <1>0, <1>6, StatusLives DEF CoolingWrite, Decided
<1>7. CASE WindowWrite(p) BY <1>0, <1>7, StatusLives DEF WindowWrite
<1>8. CASE HoldWrite(p) BY <1>0, <1>8, StatusLives DEF HoldWrite
<1>9. CASE LeaseWrite(p) BY <1>0, <1>9, StatusLives DEF LeaseWrite
<1>10. ASSUME NEW from \in PostReview, NEW to, Edge(from, to), SettleStep(p, from, to)
       PROVE  LifeInv' /\ LifecycleStep
  <2> DEFINE s == IF row.status = from THEN [h.snap EXCEPT !.status = to] ELSE row
  <2>0. PICK g : g = [h EXCEPT !.snap = s] OBVIOUS
  <2>1. Set(p, g) /\ h.pc = "settle" /\ effects' = effects
    BY <1>10, <2>0 DEF SettleStep, Set, Quiet
  <2>2. g.op = h.op /\ g.pc = "settle" BY <1>0, <2>0, <2>1 DEF Handler
  <2>3. h.op \in {"cancel", "rewindow", "bundle"} BY <1>0, <2>1 DEF HandlerInv, Guarded
  <2>4. HandlerLife(row', g) /\ ~Granted(g) BY <2>2, <2>3 DEF HandlerLife, Granted
  <2>5. CASE row.status = from
    <3>1. /\ row'.status = to /\ row'.seq = row.seq /\ row'.claimedAt = row.claimedAt
          /\ row'.schedule = row.schedule
      BY <1>0, <1>10, <2>5 DEF SettleStep, IfStatus, Row
    <3> QED BY <1>10, <2>1, <2>4, <2>5, <3>1, LifeStep
  <2>6. CASE row.status # from
    BY <1>10, <2>1, <2>4, <2>6, QuietLives DEF SettleStep, IfStatus
  <2> QED BY <2>5, <2>6
<1>11. CASE SettleCoolingFirst(p)
  BY <1>10, <1>11, PostReviewStatus DEF SettleCoolingFirst, CoolingTarget, Cancellable
<1>12. CASE SettleWindowFirst(p)
  BY <1>10, <1>12, PostReviewStatus DEF SettleWindowFirst, Cancellable
<1> QED
  BY <1>1, <1>2, <1>3, <1>4, <1>5, <1>6, <1>7, <1>8, <1>9, <1>11, <1>12 DEF Settle

\* Cancelling and re-windowing.
LEMMA RescheduleLives ==
    ASSUME TypeInv, TypeInv', ReviewInv, VetoInv, LifeInv, Unclaimed, NEW p \in Proc, Reschedule(p)
    PROVE  LifeInv' /\ LifecycleStep
<1> DEFINE h == proc[p]
<1>0. /\ row \in Row /\ h \in Handler /\ h.snap \in Row /\ Sourced(h) /\ HandlerLife(row, h)
      /\ HandlerInv(row, catalog, h)
  BY DEF TypeInv, ProcOK, Handler, VetoInv, Yields, ReviewInv, LifeInv
<1>n. ASSUME NEW g, Set(p, g), NoWrite, g.op \in {"cancel", "rewindow"},
             g.op = "rewindow" /\ g.pc = "write" => g.win.at > 0
      PROVE  LifeInv' /\ LifecycleStep
  <2>1. HandlerLife(row, g) /\ ~Granted(g) BY <1>n DEF HandlerLife, Granted
  <2> QED BY <1>n, <2>1, QuietLives DEF NoWrite, Quiet
<1>r. ASSUME NoWrite, Return(p) PROVE LifeInv' /\ LifecycleStep
  BY <1>r, IdleLives, QuietLives DEF Return, Set, NoWrite, Quiet
<1>1. CASE CancelStart(p) BY <1>1, <1>n DEF CancelStart, Begin, Idle
<1>2. CASE RewindowStart(p) BY <1>2, <1>n DEF RewindowStart, Begin, Idle
<1>3. CASE CancelDecide(p)
  <2>1. CASE Goto(p, "write") BY <1>3, <1>n, <2>1, GotoFields DEF CancelDecide, At
  <2> QED BY <1>3, <1>r, <2>1 DEF CancelDecide
<1>4. CASE RewindowDecide(p)
  <2>1. ASSUME NEW u \in Person, NEW w \in Windows, MayRewindow(h.snap, u, w, now),
               Set(p, [h EXCEPT !.pc = "write", !.win = Window(w)])
        PROVE  LifeInv' /\ LifecycleStep
    <3>1. PICK g : g = [h EXCEPT !.pc = "write", !.win = Window(w)] OBVIOUS
    <3>2. g.op = "rewindow" /\ g.win = Window(w)
      BY <1>0, <1>4, <3>1 DEF Handler, RewindowDecide, At
    <3>3. w.at > 0
      BY <2>1, ConstantTypes DEF MayRewindow, ValidWindow, Unclaimed, TypeInv, RestOK
    <3>4. Window(w).at = w.at BY DEF Window
    <3>5. Set(p, g) /\ NoWrite BY <1>4, <2>1, <3>1 DEF RewindowDecide
    <3> QED BY <1>n, <3>2, <3>3, <3>4, <3>5
  <2> QED BY <1>4, <1>r, <2>1 DEF RewindowDecide
<1>5. CASE CancelWrite(p)
  BY <1>0, <1>5, StatusLives DEF CancelWrite, StatusWrite, At, Sourced, Edge
<1>6. CASE RewindowWrite(p)
  <2>1. /\ h.op = "rewindow" /\ h.pc = "write" /\ Set(p, Idle) /\ effects' = effects
    BY <1>6 DEF RewindowWrite, StatusWrite, At, Return, Set, Quiet
  <2>2. CASE row' = row BY <2>1, <2>2, IdleLives, QuietLives
  <2>3. CASE /\ row.status = h.snap.status
             /\ row' = [row EXCEPT !.status = "AWAITING_DEPLOY_APPROVAL", !.schedule = h.win]
    <3>1. /\ row'.status = "AWAITING_DEPLOY_APPROVAL" /\ row'.seq = row.seq
          /\ row'.claimedAt = row.claimedAt /\ row'.schedule = h.win
      BY <1>0, <2>3 DEF Row
    <3>2. h.snap.status \in {"AWAITING_DEPLOY_APPROVAL", "WINDOW_EXPIRED"} /\ h.win.at > 0
      BY <1>0, <2>1 DEF Sourced, HandlerLife
    <3>3. row.status \in PostReview BY <2>3, <3>2, PostReviewStatus DEF Cancellable
    <3>4. Edge(row.status, row'.status) BY <2>3, <3>1, <3>2 DEF Edge
    <3> QED BY <2>1, <3>1, <3>2, <3>3, <3>4, IdleLives, LifeStep
  <2> QED BY <1>6, <2>2, <2>3 DEF RewindowWrite, StatusWrite, IfStatus
<1> QED BY <1>1, <1>2, <1>3, <1>4, <1>5, <1>6 DEF Reschedule

\* A bundle leaves the status, the window and the claim alone.
LEMMA BundleLives ==
    ASSUME TypeInv, TypeInv', ReviewInv, VetoInv, LifeInv, NEW p \in Proc, Bundle(p)
    PROVE  LifeInv' /\ LifecycleStep
<1> DEFINE h == proc[p]
<1>0. row \in Row /\ h \in Handler BY DEF TypeInv, ProcOK
<1>f. effects'.applies = effects.applies
  BY DEF Bundle, BundleStart, BundleDecide, BundleClaim, BundleUnresolved, BundleResolve, BundleFail,
         BundleLand, BundleTrigger, OutcomeRead, OutcomeWrite, NoWrite, Quiet, TypeInv, RestOK
<1>g. PICK g : Set(p, g) /\ (g = Idle \/ g.op = "bundle") BY BundleSets
<1>l. \A r : HandlerLife(r, g) /\ ~Granted(g)
  BY <1>g, IdleLives DEF HandlerLife, Granted, Idle
<1>1. CASE row' = row BY <1>1, <1>f, <1>g, <1>l, QuietLives
<1>2. ASSUME NEW b, row' = [row EXCEPT !.seq = @ + 1, !.bundle = b] PROVE LifeInv' /\ LifecycleStep
  <2>1. /\ row'.seq = row.seq + 1 /\ row'.status = row.status /\ row'.claimedAt = row.claimedAt
        /\ row'.schedule = row.schedule
    BY <1>0, <1>2 DEF Row
  <2> QED BY <1>f, <1>g, <1>l, <2>1, LifeStep DEF Edge
<1> QED
  BY <1>1, <1>2
     DEF Bundle, BundleStart, BundleDecide, BundleClaim, BundleUnresolved, BundleResolve, BundleFail,
         BundleLand, BundleTrigger, OutcomeRead, OutcomeWrite, NoWrite, IfSeq

\* A tick takes the claim of a row nobody has claimed, and runs it once.
LEMMA TickLives ==
    ASSUME TypeInv, TypeInv', ReviewInv, VetoInv, LifeInv, NEW p \in Proc, Tick(p)
    PROVE  LifeInv' /\ LifecycleStep
<1> DEFINE h == proc[p]
<1>0. /\ row \in Row /\ h \in Handler /\ h.snap \in Row /\ Sourced(h) /\ HandlerLife(row, h)
      /\ HandlerInv(row, catalog, h) /\ RowLife(row) /\ Ran(h, effects.applies) /\ now \in Nat
      /\ row.claimedAt \in Nat /\ row.schedule.at \in Nat
  BY DEF TypeInv, RestOK, ProcOK, Handler, VetoInv, Yields, ReviewInv, LifeInv, Row
<1>n. ASSUME NEW g, Set(p, g), NoWrite, g.op = "tick", g.pc \notin {"apply", "finish"},
             g.pc \in {"freeze", "plan", "claim"} => g.at > 0
      PROVE  LifeInv' /\ LifecycleStep
  <2>1. HandlerLife(row, g) /\ ~Granted(g) BY <1>n DEF HandlerLife, Granted
  <2> QED BY <1>n, <2>1, QuietLives DEF NoWrite, Quiet
<1>r. ASSUME NoWrite, Return(p) PROVE LifeInv' /\ LifecycleStep
  BY <1>r, IdleLives, QuietLives DEF Return, Set, NoWrite, Quiet
<1>1. CASE TickStart(p)
  <2>1. now > 0 BY <1>0, <1>1 DEF TickStart, IsDue, InWindow, BeforeStart, RowLife
  <2>2. PICK g : g = [Begin("tick", "freeze") EXCEPT !.at = now] OBVIOUS
  <2>3. g.op = "tick" /\ g.pc = "freeze" /\ g.at = now BY <2>2 DEF Begin, Idle
  <2> QED BY <1>1, <1>n, <2>1, <2>2, <2>3 DEF TickStart
<1>2. CASE TickSweep(p)
  <2>2. PICK g : g = [Begin("tick", "write") EXCEPT !.at = now, !.to = "HALTED_APPLY_FAILED"] OBVIOUS
  <2>3. g.op = "tick" /\ g.pc = "write" BY <2>2 DEF Begin, Idle
  <2> QED BY <1>2, <1>n, <2>2, <2>3 DEF TickSweep
<1>3. CASE TickFreeze(p)
  <2>1. CASE Goto(p, "plan")
    <3>1. h.op = "tick" /\ h.at > 0 BY <1>0, <1>3 DEF TickFreeze, At, HandlerLife
    <3> QED BY <1>3, <1>n, <2>1, <3>1, GotoFields DEF TickFreeze
  <2> QED BY <1>3, <1>r, <2>1 DEF TickFreeze
<1>4. CASE TickHold(p) BY <1>4, <1>r DEF TickHold
<1>5. CASE TickHalt(p)
  <2>2. PICK g : g = [h EXCEPT !.pc = "write", !.to = "HALTED_DRIFT"] OBVIOUS
  <2>3. g.op = "tick" /\ g.pc = "write" BY <1>0, <1>5, <2>2 DEF TickHalt, At, Handler
  <2> QED BY <1>5, <1>n, <2>2, <2>3 DEF TickHalt
<1>6. CASE TickProceed(p)
  <2>1. h.op = "tick" /\ h.at > 0 BY <1>0, <1>6 DEF TickProceed, At, HandlerLife
  <2> QED BY <1>6, <1>n, <2>1, GotoFields DEF TickProceed
<1>7. CASE TickWrite(p)
  BY <1>0, <1>7, StatusLives DEF TickWrite, StatusWrite, At, Sourced, Edge, Settlers
<1>8. CASE TickClaim(p)
  <2>1. h.op = "tick" /\ h.at > 0 /\ effects' = effects
    BY <1>0, <1>8 DEF TickClaim, At, HandlerLife, Quiet
  <2>2. CASE row.status # "AWAITING_DEPLOY_APPROVAL"
    BY <1>8, <1>r, <2>2 DEF TickClaim, IfStatus, NoWrite
  <2>3. CASE row.status = "AWAITING_DEPLOY_APPROVAL"
    <3>1. row' = [row EXCEPT !.status = "APPLYING", !.claimedAt = h.at] /\ Goto(p, "apply")
      BY <1>8, <2>3 DEF TickClaim, IfStatus
    <3>2. /\ row'.status = "APPLYING" /\ row'.claimedAt = h.at /\ row'.seq = row.seq
          /\ row'.schedule = row.schedule
      BY <1>0, <3>1 DEF Row
    <3>3. row.claimedAt = 0 BY <1>0, <2>3 DEF RowLife, Claimed
    <3>4. effects.applies = 0 BY <3>3 DEF LifeInv
    <3>5. \A q \in Proc : ~Granted(proc[q]) BY <3>3 DEF LifeInv, HandlerLife
    <3>6. PICK g : Set(p, g) /\ g.op = "tick" /\ g.pc = "apply" BY <2>1, <3>1, GotoFields
    <3>7. \A q \in Proc : proc'[q] = IF q = p THEN g ELSE proc[q]
      BY <3>6 DEF Set, TypeInv, ProcOK
    <3>8. RowLife(row') BY <1>0, <2>1, <3>2 DEF RowLife, Claimed, Windowed
    <3>9. ASSUME NEW q \in Proc, q # p PROVE HandlerLife(row', proc[q])
      <4>1. /\ HandlerLife(row, proc[q]) /\ Sourced(proc[q])
            /\ proc[q].snap.seq \in Nat /\ row.seq \in Nat
        BY DEF LifeInv, VetoInv, Yields, TypeInv, ProcOK, Handler, Row
      <4>2. proc[q].op \in {"approve", "reject"} => proc[q].snap.seq # row.seq
        BY <2>3, <4>1 DEF HandlerLife, Sourced, Open
      <4> QED BY <3>2, <3>5, <4>1, <4>2 DEF HandlerLife
    <3>10. HandlerLife(row', g) BY <2>1, <3>2, <3>6 DEF HandlerLife
    <3>11. ASSUME NEW q \in Proc
           PROVE  HandlerLife(row', proc'[q]) /\ Ran(proc'[q], effects'.applies)
      BY <2>1, <3>4, <3>5, <3>6, <3>7, <3>9, <3>10 DEF Ran
    <3>12. \A q, r \in Proc : Granted(proc'[q]) /\ Granted(proc'[r]) => q = r
      BY <3>5, <3>7
    <3>13. LifeInv' BY <2>1, <3>2, <3>8, <3>11, <3>12 DEF LifeInv
    <3>14. LifecycleStep
      BY <2>1, <2>3, <3>2, <3>3 DEF LifecycleStep, Lifecycle!LNext, Lifecycle!Grant
    <3> QED BY <3>13, <3>14
  <2> QED BY <2>2, <2>3
<1>9. CASE TickApply(p)
  <2>1. PICK to : Set(p, [h EXCEPT !.pc = "finish", !.to = to]) BY <1>9 DEF TickApply
  <2>2. PICK g : g = [h EXCEPT !.pc = "finish", !.to = to] OBVIOUS
  <2>3. h.op = "tick" /\ h.pc = "apply" /\ row' = row BY <1>9 DEF TickApply, At
  <2>4. g.op = "tick" /\ g.pc = "finish" BY <1>0, <2>2, <2>3 DEF Handler
  <2>5. Granted(h) /\ row.claimedAt > 0 /\ effects.applies = 0
    BY <1>0, <2>3 DEF Granted, HandlerLife, Ran
  <2>6. effects'.applies = 1 BY <1>9, <2>5 DEF TickApply, TypeInv, RestOK
  <2>7. \A q \in Proc : proc'[q] = IF q = p THEN g ELSE proc[q]
    BY <2>1, <2>2 DEF Set, TypeInv, ProcOK
  <2>8. \A q \in Proc : q # p => ~Granted(proc[q]) BY <2>5 DEF LifeInv
  <2>9. HandlerLife(row, g) /\ Ran(g, effects'.applies)
    BY <2>4, <2>5, <2>6 DEF HandlerLife, Ran
  <2>10. ASSUME NEW q \in Proc
         PROVE  HandlerLife(row, proc'[q]) /\ Ran(proc'[q], effects'.applies)
    BY <2>7, <2>8, <2>9 DEF LifeInv, Ran
  <2>11. \A q, r \in Proc : Granted(proc'[q]) /\ Granted(proc'[r]) => q = r BY <2>7, <2>8
  <2>12. LifeInv' BY <1>0, <2>3, <2>5, <2>6, <2>10, <2>11 DEF LifeInv
  <2>13. LifecycleStep
    BY <2>3, <2>5, <2>6 DEF LifecycleStep, Lifecycle!LNext, Lifecycle!Execute
  <2> QED BY <2>12, <2>13
<1>10. CASE TickFinish(p)
  <2>1. h.op = "tick" /\ h.pc = "finish" /\ Set(p, Idle) /\ effects' = effects
    BY <1>10 DEF TickFinish, At, Return, Set, Quiet
  <2>2. h.to \in {"APPLIED", "HALTED_APPLY_FAILED"} /\ effects.applies = 1
    BY <1>0, <2>1 DEF Sourced, Ran, Granted
  <2>3. CASE row' = row BY <2>1, <2>3, IdleLives, QuietLives
  <2>4. CASE row.status = "APPLYING" /\ row' = [row EXCEPT !.status = h.to]
    <3>1. /\ row'.status = h.to /\ row'.seq = row.seq /\ row'.claimedAt = row.claimedAt
          /\ row'.schedule = row.schedule
      BY <1>0, <2>4 DEF Row
    <3>2. Edge(row.status, row'.status) BY <2>2, <2>4, <3>1 DEF Edge
    <3> QED BY <2>1, <2>4, <3>1, <3>2, IdleLives, LifeStep, PostReviewStatus
  <2> QED BY <1>10, <2>3, <2>4 DEF TickFinish, IfStatus
<1> QED
  BY <1>1, <1>2, <1>3, <1>4, <1>5, <1>6, <1>7, <1>8, <1>9, <1>10 DEF Tick

\* A request starts as one that nobody has claimed.
LEMMA InitLife == Unclaimed /\ Init => LifeInv /\ Lifecycle!LInit
<1> SUFFICES ASSUME Unclaimed, Init PROVE LifeInv /\ Lifecycle!LInit OBVIOUS
<1>1. /\ row.claimedAt = 0 /\ row.status \in Open \cup Cancellable \cup {"ABSENT"}
      /\ (Windowed(row) => row.schedule.at > 0) /\ effects.applies = 0
      /\ \A p \in Proc : proc[p] = Idle
  BY DEF Init, Unclaimed
<1>2. LifeInv
  BY <1>1, IdleLives DEF LifeInv, RowLife, Ran, Open, Cancellable
<1>3. Lifecycle!LInit
  BY <1>1 DEF Lifecycle!LInit, Lifecycle!Reviewing, Lifecycle!Parked, Lifecycle!Halted, Open, Cancellable
<1> QED BY <1>2, <1>3

\* Every step of the system is one of the life cycle's, or none.
LEMMA NextLife ==
    ASSUME TypeInv, TypeInv', ReviewInv, VetoInv, LifeInv, Unclaimed, [Next]_vars
    PROVE  LifeInv' /\ LifecycleStep
<1>1. ASSUME NEW p \in Proc, Step(p) PROVE LifeInv' /\ LifecycleStep
  <2>1. CASE GiveUp(p)
    BY <2>1, IdleLives, QuietLives DEF GiveUp, Return, Set, NoWrite, Quiet
  <2> QED
    BY <1>1, <2>1, ReviewLives, SettleLives, RescheduleLives, BundleLives, TickLives DEF Step
<1>2. ASSUME UNCHANGED <<row, effects>>,
             \A p \in Proc : \/ proc'[p] = Idle
                             \/ /\ proc'[p].op = proc[p].op /\ proc'[p].pc = proc[p].pc
                                /\ proc'[p].snap = proc[p].snap /\ proc'[p].at = proc[p].at
                                /\ proc'[p].win = proc[p].win
      PROVE  LifeInv' /\ LifecycleStep
  <2>1. ASSUME NEW p \in Proc
        PROVE  /\ HandlerLife(row, proc'[p]) /\ Ran(proc'[p], effects.applies)
               /\ Granted(proc'[p]) => Granted(proc[p])
    BY <1>2, IdleLives DEF LifeInv, HandlerLife, Ran, Granted
  <2>2. LifeInv' BY <1>2, <2>1 DEF LifeInv
  <2>3. LifecycleStep BY <1>2 DEF LifecycleStep, Lifecycle!lvars
  <2> QED BY <2>2, <2>3
<1>3. CASE Unfreeze
  <2>1. \A p \in Proc : proc'[p] = [proc[p] EXCEPT !.veto = FALSE] /\ proc[p] \in Handler
    BY <1>3 DEF Unfreeze, TypeInv, ProcOK
  <2>2. \A p \in Proc : /\ proc'[p].op = proc[p].op /\ proc'[p].pc = proc[p].pc
                        /\ proc'[p].snap = proc[p].snap /\ proc'[p].at = proc[p].at
                        /\ proc'[p].win = proc[p].win
    BY <2>1 DEF Handler
  <2> QED BY <1>2, <1>3, <2>2 DEF Unfreeze
<1>4. CASE Freeze BY <1>2, <1>4 DEF Freeze
<1>5. CASE ClockTick BY <1>2, <1>5 DEF ClockTick
<1>6. CASE Restart BY <1>2, <1>6 DEF Restart
<1>7. CASE UNCHANGED vars BY <1>2, <1>7 DEF vars
<1> QED BY <1>1, <1>3, <1>4, <1>5, <1>6, <1>7 DEF Next

\* ChangeRequest implements the life cycle: whatever handlers, settlers,
\* bundles, ticks, freezes and restarts interleave, a status moves along the
\* life cycle's edges, the scheduler is granted the apply once and runs it
\* once (annotations apart).
THEOREM LifecycleImplemented == Unclaimed => (Spec => LifecycleSpec)
<1> SUFFICES ASSUME Unclaimed PROVE Spec => LifecycleSpec OBVIOUS
<1>0. NoAnnotations BY DEF Unclaimed
<1>1. Init => TypeInv /\ ReviewInv /\ VetoInv /\ LifeInv /\ Lifecycle!LInit
  BY InitTyped, InitReview, InitVeto, InitLife
<1>2. TypeInv /\ ReviewInv /\ VetoInv /\ LifeInv /\ [Next]_vars
        => /\ TypeInv' /\ ReviewInv' /\ VetoInv' /\ LifeInv'
           /\ [Lifecycle!LNext]_Lifecycle!lvars
  BY <1>0, NextTyped, NextReview, NextVeto, NextLife DEF LifecycleStep
<1>3. Spec => Lifecycle!LSpec BY <1>1, <1>2, PTL DEF Spec, Lifecycle!LSpec
<1> QED BY <1>3 DEF LifecycleSpec

\* The executor is started at most once for a request, whatever ticks overlap
\* and however often workers die, as long as nothing puts an old row back.
THEOREM AppliedOnce == Unclaimed => (Spec => []SingleApply)
<1> SUFFICES ASSUME Unclaimed PROVE Spec => []SingleApply OBVIOUS
<1>0. NoAnnotations BY DEF Unclaimed
<1>1. Init => TypeInv /\ ReviewInv /\ VetoInv /\ LifeInv
  BY InitTyped, InitReview, InitVeto, InitLife
<1>2. TypeInv /\ ReviewInv /\ VetoInv /\ LifeInv /\ [Next]_vars
        => TypeInv' /\ ReviewInv' /\ VetoInv' /\ LifeInv'
  BY <1>0, NextTyped, NextReview, NextVeto, NextLife
<1>3. LifeInv => SingleApply BY DEF LifeInv, SingleApply
<1> QED BY <1>1, <1>2, <1>3, PTL DEF Spec
=============================================================================
