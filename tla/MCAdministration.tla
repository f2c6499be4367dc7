--------------------------- MODULE MCAdministration ---------------------------
(* Small instances of Administration.                                      *)
EXTENDS Administration, TLC

CONSTANTS ann, ben, freeze, disabled, policy, t1, t2, t3, s1, c1, c2, p1, p2

MCPerson == {ann, ben}
MCTwoRead == {freeze, disabled}
MCOneRead == {policy}
MCTeam == {t1, t2, t3}
MCSlug == {s1}
MCChange == {c1}
TwoProc == {p1, p2}

MCPower == [t \in {freeze, disabled, policy, ann, ben} |->
              CASE t = freeze -> {"apply"}
                [] t = disabled -> {"op1", "op2"}
                [] t = policy -> {"one", "two"}
                [] OTHER -> {"active", "admin", "lead"}]
\* Without a row everything is enabled and the policy is as shipped.
MCDefault == [t \in {freeze, disabled, policy, ann, ben} |->
                CASE t = freeze -> {"apply"}
                  [] t = disabled -> {"op1", "op2"}
                  [] t = policy -> {"one"}
                  [] OTHER -> {}]
MCWish == [t \in {freeze, disabled, policy, ann, ben} |->
             CASE t = freeze -> {{}, {"apply"}}
               [] t = disabled -> {{"op1"}, {"op1", "op2"}}
               [] t = policy -> {{}, {"one"}, {"two"}}
               [] OTHER -> {{}, {"active"}, {"active", "lead"}, {"active", "admin"}}]
Account(grants) == [live |-> TRUE, grants |-> grants, version |-> 1]
Staff(lead) ==
    [t \in Target |-> CASE t = ann -> Account({"active", "admin"})
                        [] t = ben -> Account({"active", "admin"} \cup lead)
                        [] OTHER -> NoRow(t)]
MCRows == {Staff({})}
MCTeams == {[t \in MCTeam |-> [live |-> TRUE, slugs |-> IF t = t1 THEN {s1} ELSE {},
                              version |-> 1]]}

Settings == {"setting", "ack", "reject"}
Policies == {"policy", "clear", "ack", "reject", "list", "clock"}
Accounts == {"patch", "rename", "delete", "enrol", "touch", "ack"}
MCMixes == {Settings, Policies, Accounts, {"team"}}
Like == Permutations(Proc)
=============================================================================
