----------------------------- MODULE MCFileStore -----------------------------
(* Small instances of FileStore over DataLock.                             *)
EXTENDS FileStore, TLC

CONSTANTS p1, p2, m1, m2, m3

TwoProcess == {p1, p2}
TwoMutations == {m1, m2}
ThreeMutations == {m1, m2, m3}
NoProcess == {}
TwoHosts == (p1 :> "a") @@ (p2 :> "b")
Power == {{"solo", "write", "power", "nosync"}}
Starts == {{"close"}}
OneHost == (p1 :> "a") @@ (p2 :> "a")

\* Simultaneous starts without writes; one process at a time with every fault
\* but a directory that cannot be synced; and that one without loss of power.
StoreMixes == {{"close"}, {"solo", "write", "close", "power", "full"},
               {"solo", "write", "close", "nosync"}}
=============================================================================
