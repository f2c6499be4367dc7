----------------------------- MODULE MCProjects -----------------------------
(* Small instances of Projects.                                            *)
EXTENDS Projects, TLC

CONSTANTS p1, p2, a1, a2, i1, i2, b1, b2, o1, o2

TwoRequests == {p1, p2}
TwoArtifacts == {a1, a2}
TwoIdentities == {i1, i2}
TwoBundles == {b1, b2}
TwoProposals == {o1, o2}

Trusted == [live |-> TRUE, status |-> "trusted", archived |-> FALSE, version |-> 3,
            request |-> a1, identity |-> i1, trust |-> a1, active |-> 0]

\* Requests and proposals are alike.
Alike == Permutations(TwoRequests) \cup Permutations(TwoProposals)

Draft == [NoMeta EXCEPT !.live = TRUE, !.version = 1, !.identity = i1]

\* Registration, the way to trust, the served data, deregistration among the
\* others, and a registration into the gap a deregistration leaves.
ProjectMixes == {
    [ops |-> {"register", "credential", "request", "crash"}, meta |-> NoMeta, sat |-> {}],
    [ops |-> {"request", "identity", "archive", "trust", "unarchive", "ack"},
     meta |-> Draft, sat |-> {}],
    [ops |-> {"upload", "full", "activate", "ack", "crash"},
     meta |-> Trusted, sat |-> {"upload"}],
    [ops |-> {"upload", "archive", "credential", "deregister", "ack"},
     meta |-> Trusted, sat |-> {"upload"}],
    [ops |-> {"register", "deregister", "ack"}, meta |-> Trusted, sat |-> {}]}

Reborn == {[ops |-> {"register", "credential", "deregister", "ack", "crash"},
            meta |-> Trusted, sat |-> {}]}
=============================================================================
