----------------------------- MODULE MCScanJobs -----------------------------
(* A small instance of ScanJobs.                                           *)
EXTENDS ScanJobs, TLC

CONSTANTS w1, w2, c1, c2, z

TwoWorkers == {w1, w2}
TwoCreators == {c1, c2}
OnePage == {z}

\* Two workers at the queue; a page beside one of them; two clicks at once.
ScanCasts == {[who |-> {w1, w2, c1}, restarts |-> 0], [who |-> {w1, c1, z}, restarts |-> 1]}
ClickCasts == ScanCasts \cup {[who |-> {w1, c1, c2}, restarts |-> 0]}
=============================================================================
