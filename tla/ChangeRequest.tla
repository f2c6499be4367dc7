--------------------------- MODULE ChangeRequest ---------------------------
(***************************************************************************)
(* One change request of the control plane, from submission to its end:    *)
(* the HTTP handlers of routes/requests.ts, the lazy settlers they call    *)
(* (domain/cooling.ts, domain/schedule.ts), the scheduled auto-apply of    *)
(* domain/apply/scheduler.ts and the approval-to-apply bundle.             *)
(*                                                                         *)
(* Every handler reads the row, awaits, and writes later, so each is split *)
(* at its awaits: it keeps the row it read (`snap`) in proc[p] and its     *)
(* write is one transact whose condition is checked against the row of     *)
(* that moment.  Two kinds of condition occur in the code: on `eventSeq`,  *)
(* which the same write advances, and on `status`, by writers that leave   *)
(* `eventSeq` alone.  Requests share nothing but the audit chain head and  *)
(* the freeze flag, so one row with many concurrent handlers is modelled.  *)
(***************************************************************************)
EXTENDS Naturals, Sequences, FiniteSets

CONSTANTS
    Person,      \* accounts of the project
    Requester,   \* the account that submitted the request
    Role,        \* [Person -> {"requester", "approver", "lead"}]
    Admin,       \* accounts with isAdmin
    Enrolled,    \* accounts with an enrolled TOTP device
    Proc,        \* slots for concurrently running handlers and ticks
    Ops,         \* the operations this instance exercises
    Forms,       \* subset of BOOLEAN: submitted as a change set or one operation
    Catalogs,    \* what live catalogs say of the operation: records [tier, replace]
    Windows,     \* maintenance windows people ask for: records [at, end]
    Pin,         \* state of the pinned plan: "intact", "absent" or "corrupt"
    InitRows,    \* rows the store may hold at start
    MinLead, MaxHorizon, MaxWindow, StaleAfter,  \* schedule.ts constants
    ApplyLease, BundleLease,                     \* the two claim leases
    MaxTime,     \* bound: the clock stops here
    MaxSeq       \* bound: no unforced eventSeq bump from here on

Tier == {"self_service", "guardrails", "engineer"}

Open == {"AWAITING_CODE_REVIEW", "NEEDS_ENGINEER"}
Cancellable == {"APPROVED_COOLING", "AWAITING_DEPLOY_APPROVAL",
                "WINDOW_EXPIRED", "HALTED_DRIFT", "HALTED_APPLY_FAILED"}
Unlinkable == {"REJECTED", "CANCELLED"}
BundleEligible == {"AWAITING_CODE_REVIEW", "AWAITING_DEPLOY_APPROVAL"}
Status == Open \cup Cancellable \cup Unlinkable
            \cup {"ABSENT", "APPLYING", "APPLIED"}

NowSchedule == [kind |-> "now", at |-> 0, end |-> 0]
Window(w) == [kind |-> "window", at |-> w.at, end |-> w.end]
NoBundle == [state |-> "none", at |-> 0, sha |-> FALSE]

(***************************************************************************)
(* The stored row.  `pinned` is the tier stamped on the items of a change  *)
(* set at submit, `tier` the row's own tier, which approvals ratchet;      *)
(* `replace` records a confirmed destroy-and-recreate, `required` is the   *)
(* stored approvalsRequired.                                               *)
(* `earliest` (earliestApplyAt) is 0 on every row but those of the retired *)
(* cooling-off profile; `signedAt` is the time of the last approval.       *)
(***************************************************************************)
Row == [status : Status, seq : Nat, approvals : Seq(Person), tier : Tier,
        pinned : Tier, set : BOOLEAN, replace : BOOLEAN, required : 1..2,
        schedule : [kind : {"now", "window"}, at : Nat, end : Nat],
        bundle : [state : {"none", "running", "failed", "landed-untriggered",
                           "triggered"}, at : Nat, sha : BOOLEAN],
        claimedAt : Nat, earliest : Nat, signedAt : Nat]

AbsentRow == [status |-> "ABSENT", seq |-> 0, approvals |-> <<>>,
              tier |-> "self_service", pinned |-> "self_service",
              set |-> FALSE, replace |-> FALSE, required |-> 1,
              schedule |-> NowSchedule, bundle |-> NoBundle,
              claimedAt |-> 0, earliest |-> 0, signedAt |-> 0]

-----------------------------------------------------------------------------
(* The approval ladder: domain/exposure.ts, domain/requirement.ts.         *)

Rank == [t \in Tier |-> CASE t = "self_service" -> 0
                          [] t = "guardrails" -> 1
                          [] t = "engineer" -> 2]
Strictest(a, b) == IF Rank[a] >= Rank[b] THEN a ELSE b
LadderFor(tier, replace) ==
    IF tier = "self_service" /\ ~replace THEN <<"L2">> ELSE <<"L2", "L3">>
InitialStatus(tier) ==
    IF tier = "engineer" THEN "NEEDS_ENGINEER" ELSE "AWAITING_CODE_REVIEW"
\* Variant: the last step asks no more than the first.
CanSignEitherLevel(step, role) == role \in {"approver", "lead"}

CanSign(step, role) ==
    IF step = "L3" THEN role = "lead" ELSE role \in {"approver", "lead"}

\* Tighten-only: the stricter of the pinned tier and the live catalog's.
CurrentTier(r, live) ==
    Strictest(IF r.set THEN r.pinned ELSE r.tier, live.tier)
CurrentLadder(r, live) ==
    LadderFor(CurrentTier(r, live), r.replace \/ live.replace)
Signers(r) == {r.approvals[i] : i \in 1..Len(r.approvals)}

-----------------------------------------------------------------------------
(* Time: domain/schedule.ts, domain/cooling.ts and the two leases.         *)

Windowed(r) == r.schedule.kind = "window"
WindowOver(r, t) == Windowed(r) /\ t >= r.schedule.end
Cooling(r, t) == ~WindowOver(r, t) /\ t < r.earliest
BeforeStart(r, t) == Windowed(r) /\ ~WindowOver(r, t) /\ t < r.schedule.at
InWindow(r, t) ==
    Windowed(r) /\ ~WindowOver(r, t) /\ ~Cooling(r, t) /\ ~BeforeStart(r, t)
Infeasible(sched, earliest, t) ==
    sched.kind = "window" /\ (t >= sched.end \/ earliest >= sched.end)
ValidWindow(w, t) ==
    /\ w.at >= t + MinLead
    /\ w.at <= t + MaxHorizon
    /\ w.at < w.end
    /\ w.end - w.at <= MaxWindow

CoolingElapsed(r, t) == r.status = "APPROVED_COOLING" /\ t >= r.earliest
CoolingTarget(r) ==
    IF Windowed(r) THEN "AWAITING_DEPLOY_APPROVAL" ELSE "APPLIED"
NeedsWindowSettlement(r, t) ==
    r.status = "AWAITING_DEPLOY_APPROVAL" /\ WindowOver(r, t)
NeedsSettle(r, t) == CoolingElapsed(r, t) \/ NeedsWindowSettlement(r, t)
NeedsFrozenHoldSettlement(r) ==
    /\ r.status = "AWAITING_DEPLOY_APPROVAL"
    /\ r.schedule.kind = "now"
    /\ Len(r.approvals) >= r.required

ApplyClaimExpired(r, t) == t >= r.claimedAt + ApplyLease
\* Variant: expired claims are looked for among the rows in their window.
ClaimSettlementInWindow(r, t) ==
    r.status = "APPLYING" /\ ApplyClaimExpired(r, t) /\ InWindow(r, t)

NeedsApplyClaimSettlement(r, t) ==
    r.status = "APPLYING" /\ ApplyClaimExpired(r, t)
BundleLive(r, t) == r.bundle.state = "running" /\ t < r.bundle.at + BundleLease
BundleExpired(r, t) == r.bundle.state = "running" /\ ~BundleLive(r, t)
IsDue(r, t) ==
    /\ r.status = "AWAITING_DEPLOY_APPROVAL"
    /\ ~BundleLive(r, t)
    /\ InWindow(r, t)

PostReview == Status \ (Open \cup {"ABSENT", "REJECTED"})
Legacy(r) == r.earliest > 0    \* a row of the retired cooling-off profile

\* The ladder: signed by distinct people, never by the requester, the second
\* step by a lead; and past review, signed to the end.
LadderHeld(r) ==
    /\ \A i, j \in 1..Len(r.approvals) : r.approvals[i] = r.approvals[j] => i = j
    /\ Requester \notin Signers(r)
    /\ Len(r.approvals) >= 2 => Role[r.approvals[2]] = "lead"
FullySigned(r) ==
    r.status \in PostReview /\ ~Legacy(r) => Len(r.approvals) >= r.required

ASSUME ConstantTypes ==
    /\ Requester \in Person
    /\ Role \in [Person -> {"requester", "approver", "lead"}]
    /\ Forms \subseteq BOOLEAN
    /\ Catalogs \subseteq [tier : Tier, replace : BOOLEAN]
    /\ Windows \subseteq [at : Nat, end : Nat]
    /\ InitRows \subseteq Row
    /\ BundleLease \in Nat \ {0}
    /\ MaxTime \in Nat
    /\ MaxSeq \in Nat

\* What earlier builds stored is what this one would have: no row is born
\* with a claim from the future or a landed commit that is on no record.
ASSUME StoredRows ==
    \A r \in InitRows :
        /\ LadderHeld(r)
        /\ FullySigned(r)
        /\ r.status = "ABSENT" => r = AbsentRow
        /\ r.bundle = NoBundle

Senior(u) == Role[u] = "lead" \/ u \in Admin
OwnerOrSenior(u) == u = Requester \/ Senior(u)

MayCancel(r, u, t) ==
    /\ r.status \in Cancellable
    /\ ~BundleLive(r, t)
    /\ OwnerOrSenior(u)

MayRewindow(r, u, w, t) ==
    /\ Windowed(r)
    /\ \/ r.status = "WINDOW_EXPIRED"
       \/ /\ r.status = "AWAITING_DEPLOY_APPROVAL"
          /\ Cooling(r, t) \/ BeforeStart(r, t)
    /\ OwnerOrSenior(u)
    /\ r.approvals # <<>> => t <= r.signedAt + StaleAfter
    /\ ValidWindow(w, t)
    /\ ~Infeasible(Window(w), r.earliest, t)

-----------------------------------------------------------------------------
VARIABLES
    row,      \* the stored request row
    signed,   \* accounts whose dedupe row approvalKey(project, request, user) exists
    frozen,   \* the project's change freeze
    now,      \* the clock
    catalog,  \* what the deployed catalog says of the request's operation
    proc,     \* proc[p]: the handler running in slot p
    effects   \* what reached the outside world: executor runs, a commit, a trigger

vars == <<row, signed, frozen, now, catalog, proc, effects>>

(***************************************************************************)
(* A running handler.  `at` is the instant it took from the clock, `to`    *)
(* what it decided, `win` the window it was asked for, `by` its caller.    *)
(* `veto` is history for the freeze property: the freeze has been on ever  *)
(* since the handler began.                                                *)
(***************************************************************************)
Pcs == {"idle", "settle", "freeze", "write", "claim", "resolve", "commit",
        "trigger", "outcome", "record", "plan", "apply", "finish"}
OpNames == {"none", "submit", "approve", "reject", "annotate", "cancel",
            "rewindow", "bundle", "cooling", "window", "hold", "lease", "tick"}
Targets == Status \cup {"none", "run", "resume", "failed",
                        "landed-untriggered", "triggered"}

Handler == [op : OpNames, pc : Pcs, snap : Row, by : Person, at : Nat,
            to : Targets, win : [kind : {"now", "window"}, at : Nat, end : Nat],
            veto : BOOLEAN]

Idle == [op |-> "none", pc |-> "idle", snap |-> AbsentRow, by |-> Requester,
         at |-> 0, to |-> "none", win |-> NowSchedule, veto |-> FALSE]

MayBegin(p, op) == op \in Ops /\ proc[p] = Idle
At(p, op, pc) == proc[p].op = op /\ proc[p].pc = pc
Begin(op, pc) == [Idle EXCEPT !.op = op, !.pc = pc, !.snap = row, !.veto = frozen]
Set(p, h) == proc' = [proc EXCEPT ![p] = h]
Goto(p, pc) == proc' = [proc EXCEPT ![p].pc = pc]
Return(p) == proc' = [proc EXCEPT ![p] = Idle]

\* transact with the condition ifEquals eventSeq = the value the handler read.
IfSeq(p, new) ==
    row' = IF row.seq = proc[p].snap.seq THEN new ELSE row
\* transact with the condition ifEquals status = s.
IfStatus(s, new) == row' = IF row.status = s THEN new ELSE row

Init ==
    /\ row \in InitRows
    /\ signed = Signers(row)
    /\ frozen = FALSE
    /\ now = 0
    /\ catalog \in Catalogs
    /\ proc = [p \in Proc |-> Idle]
    /\ effects = [applies |-> 0, landed |-> FALSE, fired |-> FALSE]

Quiet == UNCHANGED <<signed, frozen, now, catalog, effects>>
NoWrite == UNCHANGED row /\ Quiet

\* One guarded status update by a writer that leaves eventSeq alone.
StatusWrite(p, op, new) ==
    /\ At(p, op, "write")
    /\ IfStatus(proc[p].snap.status, new)
    /\ Return(p)
    /\ Quiet

\* Every handler may come back without its write: the chain head stayed
\* contended for the whole retry budget, or the store refused.
GiveUp(p) ==
    /\ proc[p].pc \in {"settle", "write", "claim", "outcome", "record", "finish"}
    /\ Return(p)
    /\ NoWrite

-----------------------------------------------------------------------------
(* POST /requests.                                                         *)

SubmittedRow(set, schedule) ==
    [AbsentRow EXCEPT !.status = InitialStatus(catalog.tier),
                      !.tier = catalog.tier, !.pinned = catalog.tier,
                      !.set = set, !.replace = catalog.replace,
                      !.required = Len(LadderFor(catalog.tier, catalog.replace)),
                      !.schedule = schedule]

SubmitStart(p) ==
    /\ MayBegin(p, "submit")
    /\ row.status = "ABSENT"
    /\ \A q \in Proc : proc[q] = Idle
    /\ ~frozen
    /\ \E set \in Forms :
       \E schedule \in {NowSchedule} \cup {Window(w) : w \in {v \in Windows : ValidWindow(v, now)}} :
          Set(p, [Begin("submit", "write") EXCEPT !.snap = SubmittedRow(set, schedule)])
    /\ NoWrite

SubmitWrite(p) ==
    /\ At(p, "submit", "write")
    /\ row' = proc[p].snap
    /\ Return(p)
    /\ Quiet

-----------------------------------------------------------------------------
(* POST /:id/approve.  The handler decides the status of a completed       *)
(* ladder from its own read, and the freeze from a second one.             *)

\* Variant: completion is judged by the stored requirement.
ApproveReadStored(p, u) ==
    /\ MayBegin(p, "approve")
    /\ row.status \in Open
    /\ u \in Enrolled \ (signed \cup {Requester})
    /\ LET n == Len(row.approvals) + 1
       IN  Set(p, [Begin("approve", IF n >= row.required THEN "freeze" ELSE "write")
                   EXCEPT !.by = u, !.at = now, !.to = row.status])
    /\ NoWrite

ApproveRead(p, u) ==
    /\ MayBegin(p, "approve")
    /\ row.status \in Open
    /\ u # Requester
    /\ u \in Enrolled
    /\ u \notin signed
    /\ LET ladder == CurrentLadder(row, catalog)
           n == Len(row.approvals) + 1
       IN  /\ n <= Len(ladder)
           /\ CanSign(ladder[n], Role[u])
           /\ Set(p, [Begin("approve",
                            IF n >= Len(ladder) /\ ~Infeasible(row.schedule, row.earliest, now)
                            THEN "freeze" ELSE "write")
                      EXCEPT !.by = u, !.at = now,
                             !.to = IF n >= Len(ladder) THEN "WINDOW_EXPIRED" ELSE row.status])
    /\ NoWrite

ApproveFreeze(p) ==
    /\ At(p, "approve", "freeze")
    /\ Set(p, [proc[p] EXCEPT !.pc = "write",
                              !.to = IF frozen \/ Windowed(proc[p].snap)
                                     THEN "AWAITING_DEPLOY_APPROVAL" ELSE "APPLIED"])
    /\ NoWrite

Approved(h) ==
    [h.snap EXCEPT !.status = h.to, !.seq = @ + 1,
                   !.approvals = Append(@, h.by),
                   !.required = Len(CurrentLadder(h.snap, catalog)),
                   !.tier = CurrentTier(h.snap, catalog),
                   !.signedAt = h.at]

\* Variant: only the dedupe row is conditional.
ApproveWriteUnguarded(p) ==
    /\ At(p, "approve", "write")
    /\ IF proc[p].by \notin signed
       THEN row' = Approved(proc[p]) /\ signed' = signed \cup {proc[p].by}
       ELSE UNCHANGED <<row, signed>>
    /\ Return(p)
    /\ UNCHANGED <<frozen, now, catalog, effects>>

ApproveWrite(p) ==
    /\ At(p, "approve", "write")
    /\ IF proc[p].by \notin signed /\ row.seq = proc[p].snap.seq
       THEN row' = Approved(proc[p]) /\ signed' = signed \cup {proc[p].by}
       ELSE UNCHANGED <<row, signed>>
    /\ Return(p)
    /\ UNCHANGED <<frozen, now, catalog, effects>>

-----------------------------------------------------------------------------
(* POST /:id/reject, /:id/link-pr and /:id/plan-summary: the row read,     *)
(* with a field changed, put back whole.                                   *)

RejectStart(p) ==
    /\ MayBegin(p, "reject")
    /\ row.status \in Open
    /\ \E u \in Person \ {Requester} : Role[u] \in {"approver", "lead"}
    /\ Set(p, Begin("reject", "write"))
    /\ NoWrite

RejectWrite(p) ==
    /\ At(p, "reject", "write")
    /\ IfSeq(p, [proc[p].snap EXCEPT !.status = "REJECTED", !.seq = @ + 1])
    /\ Return(p)
    /\ Quiet

AnnotateStart(p) ==
    /\ MayBegin(p, "annotate")
    /\ row.status \notin Unlinkable \cup {"ABSENT"}
    /\ row.seq < MaxSeq
    /\ \E u \in Person : Role[u] = "lead"
    /\ Set(p, Begin("annotate", "write"))
    /\ NoWrite

AnnotateWrite(p) ==
    /\ At(p, "annotate", "write")
    /\ IfSeq(p, [proc[p].snap EXCEPT !.seq = @ + 1])
    /\ Return(p)
    /\ Quiet

-----------------------------------------------------------------------------
(* The settlers a read runs: cooling.ts, schedule.ts, settleApplyClaim.    *)

CoolingStart(p) ==
    /\ MayBegin(p, "cooling")
    /\ CoolingElapsed(row, now)
    /\ Set(p, [Begin("cooling", "write") EXCEPT !.to = CoolingTarget(row)])
    /\ NoWrite

CoolingWrite(p) == StatusWrite(p, "cooling", [row EXCEPT !.status = proc[p].to])

\* Variant: a freeze masks the end of a window.
WindowStartUnfrozen(p) ==
    /\ MayBegin(p, "window")
    /\ ~frozen
    /\ NeedsWindowSettlement(row, now)
    /\ Set(p, Begin("window", "write"))
    /\ NoWrite

WindowStart(p) ==
    /\ MayBegin(p, "window")
    /\ NeedsWindowSettlement(row, now)
    /\ Set(p, Begin("window", "write"))
    /\ NoWrite

WindowWrite(p) == StatusWrite(p, "window", [row EXCEPT !.status = "WINDOW_EXPIRED"])

HoldStart(p) ==
    /\ MayBegin(p, "hold")
    /\ NeedsFrozenHoldSettlement(row)
    /\ Set(p, Begin("hold", "freeze"))
    /\ NoWrite

\* Variant: the answer of isFrozen the wrong way round.
HoldFreezeInverted(p) ==
    /\ At(p, "hold", "freeze")
    /\ IF frozen THEN Goto(p, "write") ELSE Return(p)
    /\ NoWrite

HoldFreeze(p) ==
    /\ At(p, "hold", "freeze")
    /\ IF frozen THEN Return(p) ELSE Goto(p, "write")
    /\ NoWrite

HoldWrite(p) == StatusWrite(p, "hold", [row EXCEPT !.status = "APPLIED"])

LeaseStart(p) ==
    /\ MayBegin(p, "lease")
    /\ NeedsApplyClaimSettlement(row, now)
    /\ Set(p, Begin("lease", "write"))
    /\ NoWrite

\* Variant: an expired claim is handed out again.
LeaseWriteRequeue(p) ==
    StatusWrite(p, "lease", [row EXCEPT !.status = "AWAITING_DEPLOY_APPROVAL"])

LeaseWrite(p) == StatusWrite(p, "lease", [row EXCEPT !.status = "HALTED_APPLY_FAILED"])

\* cancel, rewindow and apply settle the row they read before they judge it;
\* a settler that loses its guard hands back the row it re-read.
SettleStep(p, from, to) ==
    /\ proc[p].pc = "settle"
    /\ IfStatus(from, [row EXCEPT !.status = to])
    /\ proc' = [proc EXCEPT ![p].snap = IF row.status = from
                                        THEN [@ EXCEPT !.status = to] ELSE row]
    /\ Quiet

SettleCoolingFirst(p) ==
    /\ CoolingElapsed(proc[p].snap, now)
    /\ SettleStep(p, "APPROVED_COOLING", CoolingTarget(proc[p].snap))

SettleWindowFirst(p) ==
    /\ NeedsWindowSettlement(proc[p].snap, now)
    /\ SettleStep(p, "AWAITING_DEPLOY_APPROVAL", "WINDOW_EXPIRED")

-----------------------------------------------------------------------------
(* POST /:id/cancel and /:id/rewindow.                                     *)

CancelStart(p) ==
    /\ MayBegin(p, "cancel")
    /\ row.status \in Cancellable
    /\ Set(p, Begin("cancel", "settle"))
    /\ NoWrite

CancelDecide(p) ==
    /\ At(p, "cancel", "settle")
    /\ ~NeedsSettle(proc[p].snap, now)
    /\ IF \E u \in Person : MayCancel(proc[p].snap, u, now)
       THEN Goto(p, "write") ELSE Return(p)
    /\ NoWrite

CancelWrite(p) == StatusWrite(p, "cancel", [row EXCEPT !.status = "CANCELLED"])

RewindowStart(p) ==
    /\ MayBegin(p, "rewindow")
    /\ row.status \in Cancellable
    /\ Set(p, Begin("rewindow", "settle"))
    /\ NoWrite

RewindowDecide(p) ==
    /\ At(p, "rewindow", "settle")
    /\ ~NeedsSettle(proc[p].snap, now)
    /\ \/ \E u \in Person, w \in Windows :
             /\ MayRewindow(proc[p].snap, u, w, now)
             /\ Set(p, [proc[p] EXCEPT !.pc = "write", !.win = Window(w)])
       \/ Return(p)
    /\ NoWrite

RewindowWrite(p) ==
    StatusWrite(p, "rewindow", [row EXCEPT !.status = "AWAITING_DEPLOY_APPROVAL",
                                           !.schedule = proc[p].win])

-----------------------------------------------------------------------------
(* POST /:id/apply: the approval-to-apply bundle.  Its claim is a CAS on   *)
(* eventSeq; the time stamped in the claim is the claim's identity.        *)

BundleStart(p) ==
    /\ MayBegin(p, "bundle")
    /\ \E u \in Person : Senior(u)
    /\ row.status \in Cancellable \cup BundleEligible
    /\ Set(p, Begin("bundle", "settle"))
    /\ NoWrite

MayApply(r, t) ==
    /\ r.status \in BundleEligible
    /\ Len(r.approvals) >= Len(CurrentLadder(r, catalog))
    /\ ~BundleLive(r, t)
    /\ r.bundle.state # "triggered"

Resumes(r, t) ==
    r.bundle.sha /\ (r.bundle.state = "landed-untriggered" \/ BundleExpired(r, t))

BundleDecide(p) ==
    /\ At(p, "bundle", "settle")
    /\ ~NeedsSettle(proc[p].snap, now)
    /\ LET r == proc[p].snap
       IN  IF ~frozen /\ MayApply(r, now) /\ r.seq < MaxSeq
           THEN Set(p, [proc[p] EXCEPT !.pc = "claim", !.at = now,
                                       !.to = IF Resumes(r, now) THEN "resume" ELSE "run"])
           ELSE Return(p)
    /\ NoWrite

\* Variants: the claim guarded on status, which it does not move; the claim
\* of a resume that drops the landed commit.
BundleClaimByStatus(p) ==
    LET h == proc[p]
    IN  /\ At(p, "bundle", "claim")
        /\ IfStatus(h.snap.status, [row EXCEPT !.seq = @ + 1,
                                      !.bundle = [state |-> "running", at |-> h.at,
                                                  sha |-> h.to = "resume"]])
        /\ IF row.status = h.snap.status THEN Goto(p, "resolve") ELSE Return(p)
        /\ Quiet

BundleClaimForgetful(p) ==
    LET h == proc[p]
    IN  /\ At(p, "bundle", "claim")
        /\ IfSeq(p, [row EXCEPT !.seq = @ + 1,
                                !.bundle = [state |-> "running", at |-> h.at, sha |-> FALSE]])
        /\ IF row.seq = h.snap.seq THEN Goto(p, "resolve") ELSE Return(p)
        /\ Quiet

BundleClaim(p) ==
    LET h == proc[p]
    IN  /\ At(p, "bundle", "claim")
        /\ IfSeq(p, [row EXCEPT !.seq = @ + 1,
                                !.bundle = [state |-> "running", at |-> h.at,
                                            sha |-> h.to = "resume"]])
        /\ IF row.seq = h.snap.seq THEN Goto(p, "resolve") ELSE Return(p)
        /\ Quiet

\* BUNDLE_REPO_UNRESOLVED: the handler returns and leaves its claim running.
BundleUnresolved(p) ==
    /\ At(p, "bundle", "resolve")
    /\ Return(p)
    /\ NoWrite

BundleResolve(p) ==
    /\ At(p, "bundle", "resolve")
    /\ Goto(p, IF proc[p].to = "resume" THEN "trigger" ELSE "commit")
    /\ NoWrite

BundleFail(p) ==
    /\ At(p, "bundle", "commit")
    /\ Set(p, [proc[p] EXCEPT !.pc = "outcome", !.to = "failed"])
    /\ NoWrite

BundleLand(p) ==
    /\ At(p, "bundle", "commit")
    /\ Goto(p, "trigger")
    /\ effects' = [effects EXCEPT !.landed = TRUE]
    /\ UNCHANGED <<row, signed, frozen, now, catalog>>

BundleTrigger(p) ==
    /\ At(p, "bundle", "trigger")
    /\ \E ok \in BOOLEAN :
          /\ Set(p, [proc[p] EXCEPT !.pc = "outcome",
                                    !.to = IF ok THEN "triggered" ELSE "landed-untriggered"])
          /\ effects' = [effects EXCEPT !.fired = @ \/ ok]
    /\ UNCHANGED <<row, signed, frozen, now, catalog>>

ClaimIsMine(p) == row.bundle.state = "running" /\ row.bundle.at = proc[p].at

OutcomeRead(p) ==
    /\ At(p, "bundle", "outcome")
    /\ IF ClaimIsMine(p)
       THEN Set(p, [proc[p] EXCEPT !.pc = "record", !.snap = row])
       ELSE Return(p)
    /\ NoWrite

OutcomeWrite(p) ==
    LET h == proc[p]
    IN  /\ At(p, "bundle", "record")
        /\ IfSeq(p, [row EXCEPT !.seq = @ + 1,
                                !.bundle = [state |-> h.to, at |-> now,
                                            sha |-> h.to # "failed"]])
        /\ IF row.seq = h.snap.seq THEN Return(p) ELSE Goto(p, "outcome")
        /\ Quiet

-----------------------------------------------------------------------------
(* runDueApplies: one tick's work on this row.                             *)

TickStart(p) ==
    /\ MayBegin(p, "tick")
    /\ IsDue(row, now)
    /\ Set(p, [Begin("tick", "freeze") EXCEPT !.at = now])
    /\ NoWrite

\* The lease sweep runs before the freeze check and whatever the window.
TickSweep(p) ==
    /\ MayBegin(p, "tick")
    /\ NeedsApplyClaimSettlement(row, now)
    /\ Set(p, [Begin("tick", "write") EXCEPT !.at = now, !.to = "HALTED_APPLY_FAILED"])
    /\ NoWrite

TickFreeze(p) ==
    /\ At(p, "tick", "freeze")
    /\ IF frozen THEN Return(p) ELSE Goto(p, "plan")
    /\ NoWrite

\* An absent pin, or a re-plan that threw, holds the row where it is.
TickHold(p) ==
    /\ At(p, "tick", "plan")
    /\ Pin # "corrupt"
    /\ Return(p)
    /\ NoWrite

QuorumLost(r) == Len(r.approvals) < r.required

\* A corrupt pin, a lost quorum, or a re-plan whose digest differs.
TickHalt(p) ==
    /\ At(p, "tick", "plan")
    /\ Pin # "absent"
    /\ Set(p, [proc[p] EXCEPT !.pc = "write", !.to = "HALTED_DRIFT"])
    /\ NoWrite

TickProceed(p) ==
    /\ At(p, "tick", "plan")
    /\ Pin = "intact"
    /\ ~QuorumLost(proc[p].snap)
    /\ Goto(p, "claim")
    /\ NoWrite

TickWrite(p) == StatusWrite(p, "tick", [row EXCEPT !.status = proc[p].to])

TickClaim(p) ==
    /\ At(p, "tick", "claim")
    /\ IfStatus("AWAITING_DEPLOY_APPROVAL",
                [row EXCEPT !.status = "APPLYING", !.claimedAt = proc[p].at])
    /\ IF row.status = "AWAITING_DEPLOY_APPROVAL" THEN Goto(p, "apply") ELSE Return(p)
    /\ Quiet

TickApply(p) ==
    /\ At(p, "tick", "apply")
    /\ \E to \in {"APPLIED", "HALTED_APPLY_FAILED"} :
          Set(p, [proc[p] EXCEPT !.pc = "finish", !.to = to])
    /\ effects' = [effects EXCEPT !.applies = @ + 1]
    /\ UNCHANGED <<row, signed, frozen, now, catalog>>

TickFinish(p) ==
    /\ At(p, "tick", "finish")
    /\ IfStatus("APPLYING", [row EXCEPT !.status = proc[p].to])
    /\ Return(p)
    /\ Quiet

-----------------------------------------------------------------------------
(* The surroundings: the freeze switch, the clock, a restart of the        *)
(* process (which may deploy another catalog and loses every handler).     *)

Freeze ==
    /\ "freeze" \in Ops
    /\ ~frozen
    /\ frozen' = TRUE
    /\ UNCHANGED <<row, signed, now, catalog, proc, effects>>

Unfreeze ==
    /\ frozen
    /\ frozen' = FALSE
    /\ proc' = [p \in Proc |-> [proc[p] EXCEPT !.veto = FALSE]]
    /\ UNCHANGED <<row, signed, now, catalog, effects>>

ClockTick ==
    /\ now < MaxTime
    /\ now' = now + 1
    /\ UNCHANGED <<row, signed, frozen, catalog, proc, effects>>

Restart ==
    /\ "restart" \in Ops
    /\ proc' = [p \in Proc |-> Idle]
    /\ catalog' \in Catalogs
    /\ UNCHANGED <<row, signed, frozen, now, effects>>

-----------------------------------------------------------------------------
Review(p) ==
    \/ SubmitStart(p) \/ SubmitWrite(p)
    \/ (\E u \in Person : ApproveRead(p, u)) \/ ApproveFreeze(p) \/ ApproveWrite(p)
    \/ RejectStart(p) \/ RejectWrite(p)
    \/ AnnotateStart(p) \/ AnnotateWrite(p)

Settle(p) ==
    \/ CoolingStart(p) \/ CoolingWrite(p)
    \/ WindowStart(p) \/ WindowWrite(p)
    \/ HoldStart(p) \/ HoldFreeze(p) \/ HoldWrite(p)
    \/ LeaseStart(p) \/ LeaseWrite(p)
    \/ SettleCoolingFirst(p) \/ SettleWindowFirst(p)

Reschedule(p) ==
    \/ CancelStart(p) \/ CancelDecide(p) \/ CancelWrite(p)
    \/ RewindowStart(p) \/ RewindowDecide(p) \/ RewindowWrite(p)

Bundle(p) ==
    \/ BundleStart(p) \/ BundleDecide(p) \/ BundleClaim(p)
    \/ BundleUnresolved(p) \/ BundleResolve(p)
    \/ BundleFail(p) \/ BundleLand(p) \/ BundleTrigger(p)
    \/ OutcomeRead(p) \/ OutcomeWrite(p)

Tick(p) ==
    \/ TickStart(p) \/ TickSweep(p) \/ TickFreeze(p)
    \/ TickHold(p) \/ TickHalt(p) \/ TickProceed(p) \/ TickWrite(p)
    \/ TickClaim(p) \/ TickApply(p) \/ TickFinish(p)

Step(p) ==
    \/ Review(p) \/ Settle(p) \/ Reschedule(p) \/ Bundle(p) \/ Tick(p)
    \/ GiveUp(p)

Next ==
    \/ \E p \in Proc : Step(p)
    \/ Freeze \/ Unfreeze \/ ClockTick \/ Restart

Spec == Init /\ [][Next]_vars

-----------------------------------------------------------------------------
(* Properties.                                                             *)

TypeOK ==
    /\ row \in Row
    /\ signed \subseteq Person
    /\ frozen \in BOOLEAN
    /\ now \in Nat
    /\ catalog \in Catalogs
    /\ proc \in [Proc -> Handler]
    /\ effects \in [applies : Nat, landed : BOOLEAN, fired : BOOLEAN]

\* A request past its review carries every signature its own ladder asks for,
\* whatever the catalog became while the approvals were being collected and
\* whatever stale full-row writes landed since (approve, ARCH-1, ADV-14).
QuorumMet == FullySigned(row)

\* The ladder is signed in order by distinct people, never by the requester,
\* and its second step only by a lead (approve, canSignStep, decision 0037).
SignaturesValid == LadderHeld(row)

\* No signature is lost: every account whose dedupe row exists, and which so
\* can never sign again, is on the row, across every concurrent approve,
\* reject, link-pr, plan-summary and bundle claim (CONC-1, CONC-2).
ApprovalsKept == signed = Signers(row)

\* From its claim to the recording of its outcome.
InBundle(p) ==
    /\ proc[p].op = "bundle"
    /\ proc[p].pc \in {"resolve", "commit", "trigger", "outcome", "record"}
ClaimOld(p) == now >= proc[p].at + BundleLease

\* Two bundles run for one request only if one of them holds a claim older
\* than the lease: the eventSeq CAS makes the claim exclusive (ERR-11, ERR-2).
BundleExclusive ==
    \A p, q \in Proc :
        p # q /\ InBundle(p) /\ InBundle(q) => ClaimOld(p) \/ ClaimOld(q)

\* A landed commit the row has recorded is never forgotten, so that no later
\* attempt commits again: through a resume, its crash, the takeover of its
\* claim and any full-row write (ERR-12).
LandedRemembered == [][row.bundle.sha => row'.bundle.sha]_vars

\* A review completes only on the signatures that the catalog in force at
\* that moment asks for, not merely those asked for at submit (ADMIN-11).
MeetsLiveRequirement ==
    [][row.status \in Open /\ row'.status \notin Open \cup {"REJECTED"}
         => Len(row'.approvals) >= Len(CurrentLadder(row, catalog))]_vars

\* No handler that ran entirely under a change freeze records or claims an
\* apply; the retired cooling profile alone settles without asking.
FreezeVeto ==
    [][row.status \notin {"APPLIED", "APPLYING", "APPROVED_COOLING"}
         /\ row'.status \in {"APPLIED", "APPLYING"}
           => \E p \in Proc : proc'[p] # proc[p] /\ ~proc[p].veto]_vars

\* The executor is started at most once for a request, whatever ticks overlap
\* and however often workers die (scheduler.ts, the single-apply gate).
SingleApply == effects.applies <= 1

\* While a bundle's claim is live the other lanes keep off: the scheduler
\* does not hold the row and nobody has cancelled it (isDue, API-5).
LaneExclusion == BundleLive(row, now) => row.status \notin {"APPLYING", "CANCELLED"}

\* A bundle that gives up before it has an outcome hands its claim back; only
\* a crash leaves one behind (CONC-6, apply's catch around runBundle).
ClaimHandedBack ==
    [][\A p \in Proc : /\ InBundle(p) /\ proc[p].pc \notin {"outcome", "record"}
                       /\ proc'[p] = Idle /\ ClaimIsMine(p)
                         => row'.bundle.state # "running"]_vars

\* The scheduler claims a row under the window it was dispatched for; a row
\* re-windowed in between is not applied against its new window.
DispatchedOnPaper ==
    [][\A p \in Proc : At(p, "tick", "claim") /\ row'.status = "APPLYING"
                         /\ row.status # "APPLYING"
                           => row.schedule = proc[p].snap.schedule]_vars

\* A request under review has an unsigned step, so the approve handler's
\* nextLadderStep finds one for somebody to sign.
NextStepExists ==
    row.status \in Open => Len(row.approvals) < Len(CurrentLadder(row, catalog))

\* The row as the life cycle sees it.
Lifecycle == INSTANCE RequestLifecycle
             WITH status <- row.status, granted <- row.claimedAt > 0,
                  runs <- effects.applies
LifecycleSpec == Lifecycle!LSpec

-----------------------------------------------------------------------------
(* Progress.                                                               *)

\* Handlers run on unless they crash; requests keep being read, and a read
\* whose settlement loses the audit chain is followed by another one; ticks
\* go on until the process dies.
Fairness ==
    /\ WF_vars(ClockTick)
    /\ \A p \in Proc : WF_vars(proc[p] # Idle /\ Step(p))
    /\ SF_vars(\E p \in Proc : WindowStart(p))
    /\ SF_vars(\E p \in Proc : WindowWrite(p))
    /\ SF_vars(\E p \in Proc : HoldStart(p))
    /\ SF_vars(\E p \in Proc : HoldFreeze(p))
    /\ SF_vars(\E p \in Proc : HoldWrite(p))
    /\ SF_vars(\E p \in Proc : LeaseStart(p))
    /\ SF_vars(\E p \in Proc : LeaseWrite(p))

LiveSpec == Spec /\ Fairness

\* A claimed row is released although its worker may have died (API-2,
\* CONC-10).
ApplyReleased == row.status = "APPLYING" ~> row.status # "APPLYING"

\* A request held only by a freeze moves once the freeze stays off (API-8).
HoldReleased ==
    <>[]~frozen => []<>~NeedsFrozenHoldSettlement(row)

\* A request whose window has closed does not keep waiting for it (T-S4).
WindowSettled ==
    NeedsWindowSettlement(row, now) ~> ~NeedsWindowSettlement(row, now)
=============================================================================
