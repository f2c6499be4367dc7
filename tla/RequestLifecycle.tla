-------------------------- MODULE RequestLifecycle --------------------------
(***************************************************************************)
(* What a change request promises, whatever handlers run concurrently: a   *)
(* status only moves along the edges below, an ended request stays ended,  *)
(* the scheduler is granted the apply at most once, and a grant runs the   *)
(* executor at most once.  ChangeRequest implements it.                    *)
(***************************************************************************)
EXTENDS Naturals

VARIABLES status, granted, runs

lvars == <<status, granted, runs>>

Reviewing == {"AWAITING_CODE_REVIEW", "NEEDS_ENGINEER"}
Halted == {"HALTED_DRIFT", "HALTED_APPLY_FAILED"}
Parked == Halted \cup {"APPROVED_COOLING", "AWAITING_DEPLOY_APPROVAL", "WINDOW_EXPIRED"}

LInit ==
    /\ status \in Reviewing \cup Parked \cup {"ABSENT"}
    /\ granted = FALSE
    /\ runs = 0

Move(from, to) ==
    /\ status \in from
    /\ status' \in to
    /\ UNCHANGED <<granted, runs>>

Create == Move({"ABSENT"}, Reviewing)
Decide == Move(Reviewing, {"REJECTED", "APPLIED", "AWAITING_DEPLOY_APPROVAL", "WINDOW_EXPIRED"})
Cool == Move({"APPROVED_COOLING"}, {"APPLIED", "AWAITING_DEPLOY_APPROVAL"})
Release == ~granted /\ Move({"AWAITING_DEPLOY_APPROVAL"}, {"APPLIED"})
Expire == Move({"AWAITING_DEPLOY_APPROVAL"}, {"WINDOW_EXPIRED"})
Rewindow == Move({"WINDOW_EXPIRED"}, {"AWAITING_DEPLOY_APPROVAL"})
Withdraw == Move(Parked, {"CANCELLED"})
Drift == Move({"AWAITING_DEPLOY_APPROVAL"}, {"HALTED_DRIFT"})
Fail == Move({"APPLYING"}, {"HALTED_APPLY_FAILED"})
Succeed == runs = 1 /\ Move({"APPLYING"}, {"APPLIED"})

Grant ==
    /\ status = "AWAITING_DEPLOY_APPROVAL"
    /\ ~granted
    /\ status' = "APPLYING"
    /\ granted' = TRUE
    /\ UNCHANGED runs

\* A worker that was declared dead may still run what it was granted.
Execute ==
    /\ granted
    /\ runs = 0
    /\ runs' = 1
    /\ UNCHANGED <<status, granted>>

LNext ==
    \/ Create \/ Decide \/ Cool \/ Release \/ Expire \/ Rewindow \/ Withdraw
    \/ Drift \/ Grant \/ Execute \/ Fail \/ Succeed

LSpec == LInit /\ [][LNext]_lvars
=============================================================================
