----------------------------- MODULE MCIdentity -----------------------------
(* Small instances of Identity.                                            *)
EXTENDS Identity, TLC

CONSTANTS p1, p2

TwoRequests == {p1, p2}
Alike == Permutations(TwoRequests)

\* Signing in beside what administrators do; devices and codes; sessions.
IdentityMixes == {
    [ops |-> {"login", "disable", "enable", "promote", "demote", "revokeAll"}, senior |-> FALSE, devices |-> 0],
    [ops |-> {"login", "password", "revokeAll", "resetPassword"}, senior |-> FALSE, devices |-> 0],
    [ops |-> {"login", "reset", "promote"}, senior |-> FALSE, devices |-> 1],
    [ops |-> {"login", "reauth", "offer", "confirm", "remove", "regenerate"}, senior |-> TRUE, devices |-> 1],
    [ops |-> {"login", "reauth", "revoke", "others"}, senior |-> FALSE, devices |-> 0],
    [ops |-> {"login", "exempt", "require", "promote", "demote"}, senior |-> TRUE, devices |-> 0],
    [ops |-> {"login", "exempt", "require", "reauth", "remove"}, senior |-> TRUE, devices |-> 1],
    [ops |-> {"delete", "enrol", "disable", "promote"}, senior |-> FALSE, devices |-> 0]}

\* A name that is deleted and enrolled again beside a sign-in; a second factor
\* asked for after one.
Reenrolled == [ops |-> {"login", "delete", "enrol"}, senior |-> FALSE, devices |-> 0]
Exempted == [ops |-> {"login", "exempt", "require"}, senior |-> TRUE, devices |-> 0]
GapMixes == {Reenrolled, Exempted}
=============================================================================
