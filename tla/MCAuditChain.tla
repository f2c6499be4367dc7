---------------------------- MODULE MCAuditChain ----------------------------
(* Small instances of AuditChain.                                          *)
EXTENDS AuditChain, TLC

CONSTANTS w1, w2, w3, p1, p2

TwoWriters == {w1, w2}
ThreeWriters == {w1, w2, w3}
OneReader == {p1}
TwoReaders == {p1, p2}
NoReaders == {}
\* Two milliseconds to the month.
MCMonth == [t \in 0..MaxTime |-> t \div 2]
Like == Permutations(Writer) \cup Permutations(Reader)
=============================================================================
