------------------------------ MODULE MCDrift ------------------------------
(* Small instances of Drift.                                               *)
EXTENDS Drift, TLC

CONSTANTS p1, p2, c1, c2, d1, d2, d3, d4, r1, r2

OneProc == {p1}
TwoProc == {p1, p2}
TwoContents == {c1, c2}
FourDigests == {d1, d2, d3, d4}
TwoRequests == {r1, r2}
\* d1 and d2 fix one address that two reports see in different states; d3 is a
\* revert and d4 another address, of both of which the reports say the same.
MCYield == (c1 :> {d1, d3, d4}) @@ (c2 :> {d2, d3, d4})
MCPlace == (d1 :> "here") @@ (d2 :> "here") @@ (d3 :> "there") @@ (d4 :> "beyond")
MCReverts == {d3}
Alike == Permutations(TwoProc) \cup Permutations(TwoRequests)

\* Two uploads at a time, without retention; one at a time, with retention and
\* generation, without and with submissions; what is made of proposals.
DriftMixes == {
    [ops |-> {"upload", "busy", "crash"}, keep |-> 3, start |-> None],
    [ops |-> {"upload", "alone", "generate", "flaky", "ask", "crash"}, keep |-> 1, start |-> None],
    [ops |-> {"upload", "alone", "generate", "submit"}, keep |-> 2, start |-> c1],
    [ops |-> {"ask", "generate", "flaky", "submit", "legitimize", "end"}, keep |-> 1, start |-> c1]}

TwoUploads == {[ops |-> {"upload"}, keep |-> 3, start |-> None]}
Refreshed == {[ops |-> {"ask", "generate", "submit"}, keep |-> 1, start |-> c1]}
Gaps == {[ops |-> {"upload", "generate", "submit"}, keep |-> 1, start |-> c1]}
\* CCP_DRIFT_KEEP=0.5, of which driftKeep makes nothing.
KeepNothing == {[ops |-> {"upload", "alone"}, keep |-> 0, start |-> None]}
=============================================================================
