---------------------------- MODULE Administration ----------------------------
(***************************************************************************)
(* The administration of a project: routes/admin.ts over the dual-control  *)
(* envelope of domain/dualControl.ts.  An administrator's change that only *)
(* tightens is written at once; one that loosens is kept as a pending      *)
(* change, and a second administrator acknowledges or rejects it within 72 *)
(* hours.                                                                  *)
(*                                                                         *)
(* A row is a setting, the policy, a risk override or an account.  What    *)
(* its value allows is a set of powers (an enabled operation, the right to *)
(* apply, a lower approval count; for an account "active", "admin",        *)
(* "lead"): gaining a power is loosening.  Every handler reads, awaits and *)
(* writes later under a condition on the row's version, so it is split at  *)
(* its awaits.  Teams and the services they own are edited the same way.   *)
(***************************************************************************)
EXTENDS Naturals, FiniteSets

CONSTANTS
    Person,     \* accounts
    TwoRead,    \* settings whose value and version are read one after the other
    OneRead,    \* policy and risk overrides: one read for both
    Freeze,     \* the member of TwoRead that is the change freeze
    Power,      \* [Target -> the powers a row may allow]
    Default,    \* [Target -> the powers when there is no row]
    Wish,       \* [Target -> the values administrators ask for]
    Team, Slug, \* teams and the services they own
    Change,     \* ids of pending changes
    Proc,       \* slots for concurrently running handlers
    Mixes,      \* sets of operations; a behaviour exercises one of them
    InitRows,   \* [Target -> Row] the store may hold at start
    InitTeams,  \* [Team -> TeamRow] the store may hold at start
    None,       \* no person, row or change
    Lease,      \* how long a pending change waits (72 hours)
    MaxTime,    \* bound: the clock stops here
    MaxVersion  \* bound: no write to a row from this version on

Setting == TwoRead \cup OneRead
Target == Setting \cup Person

Row == [live : BOOLEAN, grants : SUBSET UNION {Power[t] : t \in Target}, version : Nat]
NoRow(t) == [live |-> FALSE, grants |-> Default[t], version |-> 0]

TeamRow == [live : BOOLEAN, slugs : SUBSET Slug, version : Nat]
NoTeam == [live |-> FALSE, slugs |-> {}, version |-> 0]

ASSUME AdministrationConstants ==
    /\ Freeze \in TwoRead
    /\ TwoRead \cap OneRead = {} /\ Setting \cap Person = {}
    /\ \A t \in Target : Default[t] \subseteq Power[t] /\ Wish[t] \subseteq SUBSET Power[t]
    /\ InitRows \subseteq [Target -> Row]
    /\ InitTeams \subseteq [Team -> TeamRow] /\ IsFiniteSet(Team)
    /\ \A teams \in InitTeams : \A t \in Team : teams[t].live \/ teams[t] = NoTeam
    /\ \A rows \in InitRows : \A t \in Target :
          rows[t].live <=> rows[t].version > 0
    /\ None \notin Change \cup Person \cup Target \cup Team
    /\ Lease \in Nat /\ MaxTime \in Nat /\ MaxVersion \in Nat

(***************************************************************************)
(* A write to come.  `seen` is the row its value was computed from, and    *)
(* `guard` the row whose version is its condition: one row, but for the    *)
(* settings, which are read twice.  `back` is history: a write since the   *)
(* first read left the row's version no higher than it was.                *)
(***************************************************************************)
ChangeStatus == {"free", "PENDING", "APPLIED", "REJECTED", "EXPIRED"}

Write == [on : Target \cup {None}, seen : Row, guard : Row,
          want : SUBSET UNION {Power[t] : t \in Target}, gone : BOOLEAN, back : BOOLEAN]
Nothing == [live |-> FALSE, grants |-> {}, version |-> 0]
NoWrite == [on |-> None, seen |-> Nothing, guard |-> Nothing,
            want |-> {}, gone |-> FALSE, back |-> FALSE]

ChangeRow == [status : ChangeStatus, by : Person \cup {None}, write : Write, expires : Nat]
FreeChange == [status |-> "free", by |-> None, write |-> NoWrite, expires |-> 0]

Pcs == {"idle", "version", "cover", "commit", "rename", "remove",
        "drift", "ack", "reject", "expire"}
Handler == [pc : Pcs, by : Person \cup {None}, write : Write, loose : BOOLEAN,
            ref : Change \cup {None}, at : Nat]
Idle == [pc |-> "idle", by |-> None, write |-> NoWrite, loose |-> FALSE,
         ref |-> None, at |-> 0]

Clerk == [pc : {"idle", "put", "drop"}, on : Team \cup {None},
          seen : [Team -> TeamRow], want : SUBSET Slug, back : BOOLEAN]
IdleClerk == [pc |-> "idle", on |-> None, seen |-> [t \in Team |-> NoTeam],
              want |-> {}, back |-> FALSE]

VARIABLES
    mix,      \* the operations this behaviour exercises
    row,      \* settings, policy, risk overrides and accounts
    change,   \* the pending changes and how each was resolved
    proc,     \* proc[p]: the handler running in slot p
    team,     \* the team rows
    clerk,    \* clerk[p]: the team handler running in slot p
    now       \* the clock

vars == <<mix, row, change, proc, team, clerk, now>>

Init ==
    /\ mix \in Mixes
    /\ row \in InitRows
    /\ change = [c \in Change |-> FreeChange]
    /\ proc = [p \in Proc |-> Idle]
    /\ team \in InitTeams
    /\ clerk = [p \in Proc |-> IdleClerk]
    /\ now = 0

-----------------------------------------------------------------------------
(* Reading and writing rows.                                               *)

Teams == <<team, clerk>>
Surroundings == <<mix, now, team, clerk>>

ActiveAdmin(u) == row[u].live /\ {"active", "admin"} \subseteq row[u].grants
MayBegin(p, op) == op \in mix /\ proc[p].pc = "idle"
MayWrite(p, op, t) == MayBegin(p, op) /\ row[t].version < MaxVersion
Set(p, h) == proc' = [proc EXCEPT ![p] = h]
Stop(p) == [proc EXCEPT ![p] = Idle]

Fresh(t, want) == [on |-> t, seen |-> row[t], guard |-> row[t], want |-> want,
                   gone |-> FALSE, back |-> FALSE]

\* Variant: the first write of a row does not ask that there be none.
MatchesOrNew(w) ==
    w.guard.live => row[w.on].live /\ row[w.on].version = w.guard.version

\* The condition of every guarded write: ifEquals on the version that was
\* read, ifNotExists when there was no row.
Matches(w) == row[w.on].live = w.guard.live /\ row[w.on].version = w.guard.version

NewRow(w) ==
    IF w.gone THEN NoRow(w.on)
    ELSE [live |-> TRUE, grants |-> w.want, version |-> w.guard.version + 1]

\* History: row t becomes `new`, and its version may have gone back.
After(w, t, new) ==
    IF w.on = t /\ new.version <= row[t].version THEN [w EXCEPT !.back = TRUE] ELSE w
AgeChanges(ch, t, new) ==
    [c \in Change |-> [ch[c] EXCEPT !.write = After(@, t, new)]]
AgeProcs(pr, t, new) ==
    [p \in Proc |-> [pr[p] EXCEPT !.write = After(@, t, new)]]

\* Row t becomes `new`, while handler p ends and the changes become ch.
PutRow(p, t, new, ch) ==
    /\ row' = [row EXCEPT ![t] = new]
    /\ change' = AgeChanges(ch, t, new)
    /\ proc' = AgeProcs(Stop(p), t, new)
    /\ UNCHANGED Surroundings

Return(p) == proc' = Stop(p) /\ UNCHANGED <<row, change, Surroundings>>
Goto(p, pc) ==
    proc' = [proc EXCEPT ![p].pc = pc] /\ UNCHANGED <<row, change, Surroundings>>
Begin(p, h) == Set(p, h) /\ UNCHANGED <<row, change, Surroundings>>

-----------------------------------------------------------------------------
(* classify: anything that is not strictly tightening is loosening.        *)

\* Variant: taking the administrator flag away counts as tightening.
LoosensGainsOnly(t, before, after) ==
    \/ after \ before # {}
    \/ t = Freeze /\ after # {}

Loosens(t, before, after) ==
    \/ after \ before # {}
    \/ t = Freeze /\ after # {}
    \/ t \in Person /\ ("admin" \in before) # ("admin" \in after)

\* PUT /settings/:key and PUT /deployment/:id: the value is read and the
\* change classified by it; a second read supplies the version, and nothing
\* looks at the value again.
SettingRead(p, u, t, want) ==
    /\ MayWrite(p, "setting", t)
    /\ ActiveAdmin(u)
    /\ Begin(p, [Idle EXCEPT !.pc = "version", !.by = u,
                             !.write = Fresh(t, want),
                             !.loose = Loosens(t, row[t].grants, want)])

\* PUT /catalog/:opId: one operation switched in the list that was read.
CatalogRead(p, u, t, x) ==
    /\ MayWrite(p, "setting", t)
    /\ ActiveAdmin(u)
    /\ t # Freeze
    /\ \E want \in {row[t].grants \cup {x}, row[t].grants \ {x}} :
          Begin(p, [Idle EXCEPT !.pc = "version", !.by = u,
                                !.write = Fresh(t, want),
                                !.loose = Loosens(t, row[t].grants, want)])

SettingVersion(p) ==
    /\ proc[p].pc = "version"
    /\ LET w == proc[p].write
       IN  Begin(p, [proc[p] EXCEPT !.pc = "commit",
                                    !.write = [w EXCEPT !.guard = row[w.on]]])

\* PUT /policy and PUT /risk/:opId.
PolicyRead(p, u, t, want) ==
    /\ MayWrite(p, "policy", t)
    /\ ActiveAdmin(u)
    /\ Begin(p, [Idle EXCEPT !.pc = "commit", !.by = u, !.write = Fresh(t, want),
                             !.loose = Loosens(t, row[t].grants, want)])

\* DELETE /risk/:opId: back to the manifest's floor.
RiskClearRead(p, u, t) ==
    /\ MayWrite(p, "clear", t)
    /\ ActiveAdmin(u)
    /\ row[t].live
    /\ Begin(p, [Idle EXCEPT !.pc = "commit", !.by = u,
                             !.write = [Fresh(t, Default[t]) EXCEPT !.gone = TRUE],
                             !.loose = Loosens(t, row[t].grants, Default[t])])

-----------------------------------------------------------------------------
(* Accounts.                                                               *)

PatchRead(p, u, t, want) ==
    /\ MayWrite(p, "patch", t)
    /\ ActiveAdmin(u)
    /\ row[t].live
    /\ Begin(p, [Idle EXCEPT !.pc = "cover", !.by = u, !.write = Fresh(t, want),
                             !.loose = Loosens(t, row[t].grants, want)])

DeleteRead(p, u, t) ==
    /\ MayWrite(p, "delete", t)
    /\ ActiveAdmin(u)
    /\ row[t].live
    /\ t # u
    /\ Begin(p, [Idle EXCEPT !.pc = "cover", !.by = u,
                             !.write = [Fresh(t, {}) EXCEPT !.gone = TRUE]])

\* The last active admin, and the last active lead, stay: judged on the
\* directory as a second read found it.
LosesAdmin(w) ==
    /\ "admin" \in w.seen.grants
    /\ w.gone \/ "active" \in w.seen.grants
    /\ ~({"active", "admin"} \subseteq w.want)
LosesLead(w) ==
    /\ "lead" \in w.seen.grants
    /\ \/ "lead" \notin w.want
       \/ "active" \in w.seen.grants \ w.want
OtherHas(t, powers) == \E u \in Person \ {t} : row[u].live /\ powers \subseteq row[u].grants

CoverRead(p) ==
    LET w == proc[p].write
    IN  /\ proc[p].pc = "cover"
        /\ IF \/ LosesAdmin(w) /\ ~OtherHas(w.on, {"active", "admin"})
              \/ LosesLead(w) /\ ~OtherHas(w.on, {"active", "lead"})
           THEN Return(p)
           ELSE Goto(p, IF w.gone THEN "remove" ELSE "commit")

\* The delete carries no condition, so it is repeated until it lands.
DeleteWrite(p) ==
    LET t == proc[p].write.on
    IN  proc[p].pc = "remove" /\ PutRow(p, t, NoRow(t), change)

\* POST /accounts: a lead, or a member of another project, is loosening.
EnrolRead(p, u, t, want) ==
    /\ MayWrite(p, "enrol", t)
    /\ ActiveAdmin(u)
    /\ ~row[t].live
    /\ "active" \in want /\ "admin" \notin want
    /\ \E elsewhere \in BOOLEAN :
          Begin(p, [Idle EXCEPT !.pc = "commit", !.by = u, !.write = Fresh(t, want),
                                !.loose = "lead" \in want \/ elsewhere])

\* A login, a password change, a TOTP or session reset, a password reset:
\* the row as it was read, one version on.  Resetting a lead's password is
\* loosening.
TouchRead(p, u, t) ==
    /\ MayWrite(p, "touch", t)
    /\ row[t].live
    /\ \E loose \in BOOLEAN :
          /\ loose => ActiveAdmin(u) /\ "lead" \in row[t].grants
          /\ Begin(p, [Idle EXCEPT !.pc = "commit", !.by = u,
                                   !.write = Fresh(t, row[t].grants), !.loose = loose])

\* A rename carries no condition: it writes the display name and the version
\* after the one it read, into whatever row is there by then.
RenameRead(p, u, t) ==
    /\ MayWrite(p, "rename", t)
    /\ ActiveAdmin(u)
    /\ row[t].live
    /\ Begin(p, [Idle EXCEPT !.pc = "rename", !.by = u, !.write = Fresh(t, {})])

RenameWrite(p) ==
    LET w == proc[p].write
    IN  /\ proc[p].pc = "rename"
        /\ PutRow(p, w.on, [live |-> TRUE, version |-> w.seen.version + 1,
                            grants |-> IF row[w.on].live THEN row[w.on].grants ELSE {}],
                  change)

-----------------------------------------------------------------------------
(* commitOrPropose.                                                        *)

CommitWrite(p) ==
    LET w == proc[p].write
    IN  /\ proc[p].pc = "commit"
        /\ ~proc[p].loose
        /\ IF Matches(w) THEN PutRow(p, w.on, NewRow(w), change) ELSE Return(p)

Propose(p, c) ==
    /\ proc[p].pc = "commit"
    /\ proc[p].loose
    /\ change[c].status = "free"
    /\ change' = [change EXCEPT ![c] = [status |-> "PENDING", by |-> proc[p].by,
                                        write |-> proc[p].write, expires |-> now + Lease]]
    /\ proc' = Stop(p)
    /\ UNCHANGED <<row, Surroundings>>

(* ackPending, rejectPending and settlePendingExpiry.                      *)

Pending(c) == change[c].status = "PENDING"
Expired(c) == Pending(c) /\ change[c].expires < now

\* Variant: an expired change is still acknowledged if nobody settled it.
AckReadUnsettled(p, u, c) ==
    /\ MayBegin(p, "ack")
    /\ ActiveAdmin(u)
    /\ Pending(c)
    /\ u # change[c].by
    /\ Begin(p, [Idle EXCEPT !.pc = "drift", !.by = u, !.ref = c, !.at = now,
                             !.write = change[c].write])

AckRead(p, u, c) ==
    /\ MayBegin(p, "ack")
    /\ ActiveAdmin(u)
    /\ Pending(c)
    /\ Expired(c) \/ u # change[c].by
    /\ Begin(p, [Idle EXCEPT !.pc = IF Expired(c) THEN "expire" ELSE "drift",
                             !.by = u, !.ref = c, !.at = now, !.write = change[c].write])

AckDrift(p) ==
    /\ proc[p].pc = "drift"
    /\ IF Matches(proc[p].write) THEN Goto(p, "ack") ELSE Return(p)

\* A resolved change leaves the open partition; only its outcome matters.
Resolve(c, status) == [change EXCEPT ![c] = [FreeChange EXCEPT !.status = status]]

\* Variant: the guard on the change's own status is left out (CONC-9).
AckCommitUnguarded(p) ==
    LET c == proc[p].ref
        w == proc[p].write
    IN  /\ proc[p].pc = "ack"
        /\ IF Matches(w)
           THEN PutRow(p, w.on, NewRow(w), Resolve(c, "APPLIED"))
           ELSE Return(p)

\* One transact: the target's condition, the change still PENDING.  A refusal
\* by the audit chain alone leaves the handler here for its second attempt.
AckCommit(p) ==
    LET c == proc[p].ref
        w == proc[p].write
    IN  /\ proc[p].pc = "ack"
        /\ IF Pending(c) /\ Matches(w)
           THEN PutRow(p, w.on, NewRow(w), Resolve(c, "APPLIED"))
           ELSE Return(p)

RejectRead(p, u, c) ==
    /\ MayBegin(p, "reject")
    /\ ActiveAdmin(u)
    /\ Pending(c)
    /\ Begin(p, [Idle EXCEPT !.pc = IF Expired(c) THEN "expire" ELSE "reject",
                             !.by = u, !.ref = c, !.at = now])

\* GET /config-changes settles what it lists.
ListRead(p, c) ==
    /\ MayBegin(p, "list")
    /\ Expired(c)
    /\ Begin(p, [Idle EXCEPT !.pc = "expire", !.ref = c, !.at = now])

ResolveWrite(p, pc, status) ==
    LET c == proc[p].ref
    IN  /\ proc[p].pc = pc
        /\ change' = IF Pending(c) THEN Resolve(c, status) ELSE change
        /\ proc' = Stop(p)
        /\ UNCHANGED <<row, Surroundings>>

RejectCommit(p) == ResolveWrite(p, "reject", "REJECTED")
ExpireWrite(p) == ResolveWrite(p, "expire", "EXPIRED")

\* The chain head stayed contended, the store refused, or the process died.
GiveUp(p) == proc[p].pc # "idle" /\ Return(p)

-----------------------------------------------------------------------------
(* Teams: one transact writes the team and every team a service is taken   *)
(* from, each under its version.                                           *)

Desk == <<mix, row, change, proc, now>>
Owners(s) == {t \in Team : team[t].live /\ s \in team[t].slugs}
\* Of all the teams read, those the write will depend on.
Involved(t, want) ==
    [x \in Team |-> IF x = t \/ team[x].slugs \cap want # {} THEN team[x] ELSE NoTeam]
Stripped(k) ==
    {t \in Team \ {k.on} : k.seen[t].live /\ k.seen[t].slugs \cap k.want # {}}
Same(k, t) == team[t].live = k.seen[t].live /\ team[t].version = k.seen[t].version

\* POST /teams and PUT /teams/:id/services.
TeamRead(p, t, want) ==
    /\ "team" \in mix
    /\ clerk[p].pc = "idle"
    /\ team[t].version < MaxVersion
    /\ clerk' = [clerk EXCEPT ![p] = [pc |-> "put", on |-> t, seen |-> Involved(t, want),
                                      want |-> want, back |-> FALSE]]
    /\ UNCHANGED <<team, Desk>>

\* PATCH /teams/:id: the whole row put back under its version.
TeamRenameRead(p, t) ==
    /\ "team" \in mix
    /\ clerk[p].pc = "idle"
    /\ team[t].live /\ team[t].version < MaxVersion
    /\ clerk' = [clerk EXCEPT ![p] = [pc |-> "put", on |-> t, back |-> FALSE,
                                      seen |-> [x \in Team |-> IF x = t THEN team[x] ELSE NoTeam],
                                      want |-> team[t].slugs]]
    /\ UNCHANGED <<team, Desk>>

\* Variant: the teams a service is taken from are written without a guard.
TeamWriteOwnGuard(p) ==
    LET k == clerk[p]
    IN  /\ k.pc = "put"
        /\ team' = IF Same(k, k.on)
                   THEN [t \in Team |->
                           IF t = k.on
                           THEN [live |-> TRUE, slugs |-> k.want, version |-> k.seen[t].version + 1]
                           ELSE IF t \in Stripped(k)
                           THEN [k.seen[t] EXCEPT !.slugs = @ \ k.want, !.version = @ + 1]
                           ELSE team[t]]
                   ELSE team
        /\ clerk' = [clerk EXCEPT ![p] = IdleClerk]
        /\ UNCHANGED Desk

TeamWrite(p) ==
    LET k == clerk[p]
    IN  /\ k.pc = "put"
        /\ team' = IF \A t \in Stripped(k) \cup {k.on} : Same(k, t)
                   THEN [t \in Team |->
                           IF t = k.on
                           THEN [live |-> TRUE, slugs |-> k.want, version |-> k.seen[t].version + 1]
                           ELSE IF t \in Stripped(k)
                           THEN [k.seen[t] EXCEPT !.slugs = @ \ k.want, !.version = @ + 1]
                           ELSE team[t]]
                   ELSE team
        /\ clerk' = [clerk EXCEPT ![p] = IdleClerk]
        /\ UNCHANGED Desk

\* DELETE /teams/:id: an empty team, deleted without a condition.
TeamDeleteRead(p, t) ==
    /\ "team" \in mix
    /\ clerk[p].pc = "idle"
    /\ team[t].live /\ team[t].slugs = {}
    /\ clerk' = [clerk EXCEPT ![p] = [IdleClerk EXCEPT !.pc = "drop", !.on = t]]
    /\ UNCHANGED <<team, Desk>>

TeamDeleteWrite(p) ==
    /\ clerk[p].pc = "drop"
    /\ team' = [team EXCEPT ![clerk[p].on] = NoTeam]
    /\ clerk' = [q \in Proc |-> IF q = p THEN IdleClerk ELSE [clerk[q] EXCEPT !.back = TRUE]]
    /\ UNCHANGED Desk

-----------------------------------------------------------------------------
ClockTick ==
    /\ "clock" \in mix
    /\ now < MaxTime
    /\ now' = now + 1
    /\ UNCHANGED <<mix, row, change, proc, team, clerk>>

ReadRow(p) ==
    \E u \in Person :
       \/ \E t \in TwoRead : \/ \E want \in Wish[t] : SettingRead(p, u, t, want)
                             \/ \E x \in Power[t] : CatalogRead(p, u, t, x)
       \/ \E t \in OneRead : \/ \E want \in Wish[t] : PolicyRead(p, u, t, want)
                             \/ RiskClearRead(p, u, t)
       \/ \E t \in Person : \/ \E want \in Wish[t] : \/ PatchRead(p, u, t, want)
                                                             \/ EnrolRead(p, u, t, want)
                            \/ DeleteRead(p, u, t)
                            \/ TouchRead(p, u, t)
                            \/ RenameRead(p, u, t)

WriteRow(p) ==
    \/ SettingVersion(p) \/ CoverRead(p)
    \/ CommitWrite(p) \/ DeleteWrite(p) \/ RenameWrite(p)
    \/ \E c \in Change : Propose(p, c)

DualControl(p) ==
    \/ \E c \in Change : \/ \E u \in Person : AckRead(p, u, c) \/ RejectRead(p, u, c)
                         \/ ListRead(p, c)
    \/ AckDrift(p) \/ AckCommit(p) \/ RejectCommit(p) \/ ExpireWrite(p)

EditTeams(p) ==
    \/ \E t \in Team : \/ \E want \in SUBSET Slug : TeamRead(p, t, want)
                       \/ TeamRenameRead(p, t)
                       \/ TeamDeleteRead(p, t)
    \/ TeamWrite(p) \/ TeamDeleteWrite(p)

Next ==
    \/ \E p \in Proc : ReadRow(p) \/ WriteRow(p) \/ DualControl(p) \/ GiveUp(p) \/ EditTeams(p)
    \/ ClockTick

Spec == Init /\ [][Next]_vars

-----------------------------------------------------------------------------
(* Properties.                                                             *)

TypeOK ==
    /\ mix \in Mixes
    /\ row \in [Target -> Row] /\ \A t \in Target : row[t].live <=> row[t].version > 0
    /\ change \in [Change -> ChangeRow]
    /\ proc \in [Proc -> Handler]
    /\ team \in [Team -> TeamRow]
    /\ clerk \in [Proc -> Clerk]
    /\ now \in Nat

Applies(c) == Pending(c) /\ change'[c].status = "APPLIED"
Lands(p, t) ==
    /\ proc[p].pc = "commit" /\ proc'[p].pc = "idle"
    /\ proc[p].write.on = t /\ row'[t] # row[t]
Intact(w) == \/ w.back
             \/ row[w.on] = IF w.on \in TwoRead THEN w.guard ELSE w.seen

\* A guarded write or an acknowledgement of a policy, a risk override or an
\* account replaces the row it was computed from and no later one, however long
\* it waited and whatever committed in between, as long as the row's version has
\* not gone back (CONC-3, DATA-8, the accountVersion drift guard of PATCH
\* /accounts).  Of a setting it says less, for the code does less: the write
\* replaces the row whose version was read, which is not the one the value was
\* computed from when another write came between the two reads.
NothingOverwritten ==
    [][/\ \A c \in Change : Applies(c) => Intact(change[c].write)
       /\ \A p \in Proc, t \in Target : Lands(p, t) => Intact(proc[p].write)]_vars

\* A change is resolved once: a refusal or an expiry is never overridden by a
\* racing acknowledgement, nor an acknowledgement by them; whoever acknowledges
\* is not who proposed, and does so within the 72 hours, although nothing but a
\* read ever settles an expired change (CONC-9, DATA-8, SELF_ACK, API-6, DATA-7).
ResolvedOnce ==
    [][\A c \in Change :
          /\ change[c].status \in {"APPLIED", "REJECTED", "EXPIRED"}
               => change'[c].status = change[c].status
          /\ Applies(c) => \E p \in Proc : /\ proc[p].pc = "ack" /\ proc[p].ref = c
                                           /\ proc'[p].pc = "idle"
                                           /\ proc[p].by # change[c].by
                                           /\ proc[p].at <= change[c].expires]_vars

Gains(t) == row'[t].grants \ row[t].grants # {}
GainsCapacity(t) ==
    IF t \in Person
    THEN row'[t].live /\ IF row[t].live
                         THEN \/ Gains(t)
                              \/ "admin" \in row[t].grants \ row'[t].grants
                         ELSE "lead" \in row'[t].grants
    ELSE Gains(t)
Acknowledged(t) == \E c \in Change : Applies(c) /\ change[c].write.on = t

\* The same as NothingOverwritten for the settings, whose value is not read again
\* with the version: no write of one replaces a row it was not computed from
\* (PUT /settings/:key, /catalog/:opId, /deployment/:id).
SettingsIntact ==
    [][/\ \A c \in Change :
             Applies(c) /\ change[c].write.on \in TwoRead
               => row[change[c].write.on] = change[c].write.seen
       /\ \A p \in Proc, t \in TwoRead : Lands(p, t) => row[t] = proc[p].write.seen]_vars

\* What loosens a policy, a risk override or an account, judged on the row it
\* changes and not on the one its handler read, goes through a second
\* administrator, as long as the row's version has not gone back
\* (dualControl.ts: "a second distinct active admin must ack").
LooseningShared ==
    [][\A t \in OneRead \cup Person :
          GainsCapacity(t) => \/ Acknowledged(t)
                              \/ \E p \in Proc : Lands(p, t) /\ proc[p].write.back]_vars

\* The same of the settings, whose value and version are read one after the
\* other (PUT /settings/:key, /catalog/:opId, /deployment/:id).
SettingsShared == [][\A t \in TwoRead : Gains(t) => Acknowledged(t)]_vars

\* Somebody can still administer: the guards refuse to remove the last active
\* administrator ("anything that could strand the estate").
SomebodyAdministers == \E u \in Person : ActiveAdmin(u)

\* A service that a team owns gains a second owner only through a handler that
\* read it as nobody's (CONC-14), or that read a team deleted since.
StealStrips ==
    [][\A s \in Slug :
          Cardinality(Owners(s)) = 1 /\ Cardinality(Owners(s)') > 1
            => \E p \in Proc : /\ clerk[p].pc = "put" /\ clerk'[p].pc = "idle"
                               /\ \/ clerk[p].back
                                  \/ \A t \in Team : s \notin clerk[p].seen[t].slugs]_vars

\* Every service has at most one owner (stripFromOthers).
SingleOwner == \A s \in Slug : Cardinality(Owners(s)) <= 1
=============================================================================
