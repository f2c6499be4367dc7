-------------------------- MODULE MCChangeRequest --------------------------
(* Small instances of ChangeRequest.  Time is counted in coarse units.     *)
EXTENDS ChangeRequest, TLC

CONSTANTS alice, bob, carol, p1, p2, p3

\* alice asks; she is a lead herself, so that only the code keeps her from
\* signing.  Bob is an approver, carol the other lead.
MCPerson == {alice, bob, carol}
MCRole == (alice :> "lead") @@ (bob :> "approver") @@ (carol :> "lead")
MCNobody == {}
MCEnrolled == {bob, carol}

TwoProc == {p1, p2}
ThreeProc == {p1, p2, p3}
ProcSymmetry == Permutations(Proc)

Free == [tier |-> "self_service", replace |-> FALSE]
Guarded == [tier |-> "guardrails", replace |-> FALSE]
Engineered == [tier |-> "engineer", replace |-> FALSE]
Replacing == [tier |-> "self_service", replace |-> TRUE]

NoRow == {AbsentRow}
Scheduled(w) ==
    [AbsentRow EXCEPT !.status = "AWAITING_DEPLOY_APPROVAL", !.seq = 1,
                      !.approvals = <<bob>>, !.schedule = Window(w)]
HeldNow ==
    [AbsentRow EXCEPT !.status = "AWAITING_DEPLOY_APPROVAL", !.seq = 1,
                      !.approvals = <<bob>>]
CoolingRow(schedule) ==
    [AbsentRow EXCEPT !.status = "APPROVED_COOLING", !.approvals = <<carol>>,
                      !.schedule = schedule, !.earliest = 1]

\* Review: one self-service and one engineer catalog, deployed in any order;
\* what is approved is bundled by the same handlers.
ReviewCatalogs == {Free, Engineered, Replacing}
ReviewOps == {"submit", "approve", "reject", "annotate", "bundle", "restart"}
ShortWindow == {[at |-> 1, end |-> 2]}

\* Schedule: a window, the one it may be moved to, every settler and the tick.
EarlyLate == {[at |-> 1, end |-> 2], [at |-> 3, end |-> 4]}
ScheduleOps == {"cooling", "window", "hold", "lease", "cancel", "rewindow",
                "tick", "freeze", "restart"}
ScheduleRows == {Scheduled([at |-> 1, end |-> 2]), HeldNow,
                 CoolingRow(NowSchedule), CoolingRow(Window([at |-> 1, end |-> 2]))}
OnlyFree == {Free}

\* Progress: a tick may die under any claim; reads settle what it leaves.
ProgressOps == {"window", "hold", "lease", "tick", "freeze", "restart"}
ProgressRows == {Scheduled([at |-> 1, end |-> 2]), HeldNow}

\* The disagreements.
AnnotateDuringTick == {"tick", "annotate"}
BundleDuringTick == {"tick", "bundle"}
BundleAlone == {"bundle"}
RewindowDuringTick == {"tick", "window", "rewindow"}
RetieredReview == {"submit", "approve", "restart"}
NoWindows == {}
=============================================================================
