------------------------------- MODULE Identity -------------------------------
(***************************************************************************)
(* One account and its sessions: signing in with a password and a second   *)
(* factor, what its owner does from a session (password, devices, recovery *)
(* codes, other sessions), and what administrators do to it.  Every        *)
(* handler reads the row, waits (a password hash takes a tenth of a        *)
(* second), and writes it if nobody did in between.  The lockout counter   *)
(* rides on the same writes and is left out.                               *)
(* (routes/auth.ts, routes/account.ts, routes/admin.ts, auth/sessions.ts.) *)
(***************************************************************************)
EXTENDS Naturals, FiniteSets, FiniteSetsExt

CONSTANTS
    Proc,         \* requests under way
    Mixes,        \* [ops, senior, devices]: what is going on, and the account
    MaxSession,   \* bound: sessions minted
    MaxSecret,    \* bound: authenticator secrets offered
    MaxCode,      \* bound: sets of recovery codes, one code standing for its set
    MaxVersion,   \* bound: writes of the account row, and deletions
    DeviceLimit   \* MAX_TOTP_DEVICES

ASSUME IdentityConstants ==
    /\ {MaxSession, MaxSecret, MaxCode, MaxVersion, DeviceLimit} \subseteq Nat
    /\ MaxCode > 0 /\ MaxVersion > 0   \* an account, and one set of codes, fit the bounds
    /\ \A m \in Mixes : m.senior \in BOOLEAN /\ m.devices \in 0..MaxSecret

Session == 1..MaxSession
Code == 1..MaxCode
Secret == 1..MaxSecret   \* a device is its secret

\* `required`: what an administrator has said of the second factor, if anything.
Account == [there : BOOLEAN, active : BOOLEAN, senior : BOOLEAN, required : {"unset", "on", "off"},
            version : 0..MaxVersion, sv : 0..MaxVersion, devices : SUBSET Secret, codes : SUBSET Code]
Row == [state : {"unused", "live", "gone"}, sv : 0..MaxVersion,
        pending : {"none", "totp", "enroll"}, offer : 0..MaxSecret, fresh : BOOLEAN,
        era : Nat, factor : {"none", "exempt", "passed"}]
Unused == [state |-> "unused", sv |-> 0, pending |-> "none", offer |-> 0, fresh |-> FALSE,
           era |-> 0, factor |-> "none"]

SelfOps == {"password", "reauth", "offer", "confirm", "remove", "regenerate", "revoke", "others"}
AdminOps == {"disable", "enable", "promote", "demote", "require", "exempt",
             "reset", "revokeAll", "resetPassword", "delete"}
Pcs == {"idle", "slide", "login", "miss", "factor", "drop", "mint", "stamp",
        "clear", "kill", "sweep"} \cup SelfOps \cup AdminOps

\* What a request has read, and the session it will mint.
Request == [pc : Pcs, op : SelfOps \cup {"none"}, acc : Account, s : 0..MaxSession, row : Row,
            pending : {"none", "totp", "enroll"}, era : Nat, factor : {"none", "exempt", "passed"},
            code : 0..MaxCode, kill : SUBSET Session]

VARIABLES
    mix,      \* the operations of this behaviour
    account,  \* its row
    session,  \* session[s]: a session row; `era` and `factor` are history:
              \* a second factor passed, or not asked for by exemption
    proc,     \* proc[p]: a request under way
    secrets,  \* secrets offered so far
    sets,     \* sets of recovery codes generated so far
    era,      \* history: how often every session was revoked
    revoked,  \* history: sessions revoked one by one
    bought    \* history: bought[c], sessions code c has bought

vars == <<mix, account, session, proc, secrets, sets, era, revoked, bought>>

Blank == [there |-> TRUE, active |-> TRUE, senior |-> FALSE, required |-> "unset", version |-> 1,
          sv |-> 1, devices |-> {}, codes |-> {}]
Idle == [pc |-> "idle", op |-> "none", acc |-> Blank, s |-> 0, row |-> Unused, pending |-> "none",
         era |-> 0, factor |-> "none", code |-> 0, kill |-> {}]

Init ==
    /\ mix \in Mixes
    /\ account = [Blank EXCEPT !.senior = mix.senior, !.devices = 1..mix.devices,
                               !.codes = IF mix.devices > 0 THEN {1} ELSE {}]
    /\ session = [s \in Session |-> Unused]
    /\ proc = [p \in Proc |-> Idle]
    /\ secrets = mix.devices
    /\ sets = IF mix.devices > 0 THEN 1 ELSE 0
    /\ era = 0
    /\ revoked = {}
    /\ bought = [c \in Code |-> 0]

-----------------------------------------------------------------------------
On(op) == op \in mix.ops
At(p, pc) == proc[p].pc = pc
Goto(p, h) == proc' = [proc EXCEPT ![p] = h]
Done(p) == Goto(p, Idle)
OnlyRequests == UNCHANGED <<mix, account, session, secrets, sets, era, revoked, bought>>

\* An administrator's word decides, either way; without one, seniority does.
needsTotp(acc) == acc.required = "on" \/ (acc.required = "unset" /\ acc.senior)

\* The guard of every account write: the version is still the one that was read.
MatchesAlways(p) == account.there
Matches(p) == account.there /\ account.version = proc[p].acc.version

Live(s) == session[s].state = "live"
Current(s) == /\ Live(s) /\ account.there /\ account.active
              /\ session[s].sv = account.sv
Resolves(s) == Current(s) /\ session[s].pending = "none"

\* Variant: the row is written back as it was read, whatever happened since.
SaveAlways(p, acc) ==
    /\ account.version < MaxVersion
    /\ account' = IF MatchesAlways(p) THEN [acc EXCEPT !.version = proc[p].acc.version + 1] ELSE account

\* putAccountGuarded: the whole row is written back, one version on, or not at all.
Save(p, acc) ==
    /\ account.version < MaxVersion
    /\ account' = IF Matches(p) THEN [acc EXCEPT !.version = proc[p].acc.version + 1] ELSE account

End(s) == session' = [session EXCEPT ![s].state = "gone"]

-----------------------------------------------------------------------------
(* Signing in.                                                             *)

\* The password is checked against the row that was read: right, or wrong.
LoginRead(p) ==
    /\ On("login") /\ At(p, "idle")
    /\ account.there /\ account.active
    /\ \E pc \in {"login", "miss"} : Goto(p, [Idle EXCEPT !.pc = pc, !.acc = account, !.era = era])
    /\ OnlyRequests

\* A failure is counted on the row if it has not moved.
Miss(p) ==
    /\ At(p, "miss")
    /\ Save(p, proc[p].acc)
    /\ Done(p)
    /\ UNCHANGED <<mix, session, secrets, sets, era, revoked, bought>>

\* An enrolled device is always asked for; an account that needs one enrols it.
LoginWrite(p) ==
    /\ At(p, "login")
    /\ LET acc == proc[p].acc IN
          /\ Save(p, acc)
          /\ Goto(p, IF ~Matches(p) THEN Idle
                     ELSE [proc[p] EXCEPT !.pc = "mint",
                              !.pending = IF acc.devices # {} THEN "totp"
                                          ELSE IF needsTotp(acc) THEN "enroll" ELSE "none",
                              !.factor = IF acc.required = "off" THEN "exempt" ELSE "none"])
    /\ UNCHANGED <<mix, session, secrets, sets, era, revoked, bought>>

\* A session bears the session version of the row its request has read or written.
Mint(p) ==
    /\ At(p, "mint")
    /\ \E s \in Session :
          /\ session[s].state = "unused" /\ \A t \in Session : t < s => session[t].state # "unused"
          /\ LET offers == IF proc[p].pending = "enroll" THEN secrets + 1 ELSE 0 IN
                /\ offers <= MaxSecret
                /\ secrets' = IF offers > 0 THEN offers ELSE secrets
                /\ session' = [session EXCEPT ![s] =
                      [state |-> "live", sv |-> proc[p].acc.sv, pending |-> proc[p].pending,
                       offer |-> offers, fresh |-> FALSE, era |-> proc[p].era, factor |-> proc[p].factor]]
    /\ bought' = [c \in Code |-> IF c = proc[p].code THEN bought[c] + 1 ELSE bought[c]]
    /\ Done(p)
    /\ UNCHANGED <<mix, account, sets, era, revoked>>

\* A pre-session and a code of a device, of the one being enrolled, or for recovery.
FactorRead(p) ==
    /\ On("login") /\ At(p, "idle")
    /\ \E s \in Session :
          /\ Current(s) /\ session[s].pending # "none"
          /\ LET h == [Idle EXCEPT !.pc = "factor", !.acc = account, !.s = s, !.row = session[s],
                                   !.era = session[s].era, !.factor = "passed"]
             IN  \/ session[s].pending = "enroll" /\ Goto(p, h)
                 \/ session[s].pending = "totp" /\ account.devices # {} /\ Goto(p, h)
                 \/ session[s].pending = "totp" /\ \E c \in account.codes : Goto(p, [h EXCEPT !.code = c])
                 \/ session[s].pending = "totp" /\ Goto(p, [h EXCEPT !.pc = "miss"])
    /\ OnlyRequests

\* A first device comes with a fresh set of recovery codes.
WithDevice(acc, secret) ==
    [acc EXCEPT !.devices = @ \cup {secret}, !.codes = IF acc.devices = {} THEN {sets + 1} ELSE @]
Generates(p, acc) == sets' = IF Matches(p) /\ acc.devices = {} THEN sets + 1 ELSE sets

FactorWrite(p) ==
    /\ At(p, "factor")
    /\ LET acc == proc[p].acc
           enrols == proc[p].row.pending = "enroll"
       IN  /\ sets < MaxCode \/ ~enrols
           /\ Save(p, IF enrols THEN WithDevice(acc, proc[p].row.offer)
                      ELSE [acc EXCEPT !.codes = @ \ {proc[p].code}])
           /\ IF enrols THEN Generates(p, acc) ELSE UNCHANGED sets
           /\ Goto(p, IF Matches(p) THEN [proc[p] EXCEPT !.pc = "drop"] ELSE Idle)
    /\ UNCHANGED <<mix, session, secrets, era, revoked, bought>>

\* The pre-session goes; the session itself is minted next.
Drop(p) ==
    /\ At(p, "drop")
    /\ End(proc[p].s)
    /\ Goto(p, [proc[p] EXCEPT !.pc = "mint"])
    /\ UNCHANGED <<mix, account, secrets, sets, era, revoked, bought>>

\* Sign-out, or the end of the session's time.
SignOut(s) ==
    /\ Live(s) /\ End(s)
    /\ UNCHANGED <<mix, account, proc, secrets, sets, era, revoked, bought>>

-----------------------------------------------------------------------------
(* From a session.                                                         *)

Elevated == {"offer", "confirm", "remove", "regenerate", "revoke", "others"}   \* requireReauth

\* withSession resolves the cookie; what it read is what the handler works on.
Enter(p, s, op) ==
    /\ On(op) /\ At(p, "idle") /\ Resolves(s)
    /\ op \in Elevated => session[s].fresh
    /\ \E pc \in {"slide", op} :
          Goto(p, [Idle EXCEPT !.pc = pc, !.op = op, !.acc = account, !.s = s, !.row = session[s],
                               !.era = era, !.factor = session[s].factor])
    /\ OnlyRequests

\* Variant: the row that was read is put back, with the idle window slid.
SlidePut(p) ==
    /\ At(p, "slide")
    /\ session' = [session EXCEPT ![proc[p].s] = proc[p].row]
    /\ Goto(p, [proc[p] EXCEPT !.pc = proc[p].op])
    /\ UNCHANGED <<mix, account, secrets, sets, era, revoked, bought>>

\* The idle window slides in the row there is; a row that is gone stays gone.
Slide(p) ==
    /\ At(p, "slide")
    /\ Goto(p, IF Live(proc[p].s) THEN [proc[p] EXCEPT !.pc = proc[p].op] ELSE Idle)
    /\ OnlyRequests

\* Others are signed out unless they are to be kept.
ChangePassword(p) ==
    /\ At(p, "password")
    /\ \E keep \in BOOLEAN :
          LET acc == IF keep THEN proc[p].acc ELSE [proc[p].acc EXCEPT !.sv = @ + 1] IN
             /\ Save(p, acc)
             /\ era' = IF Matches(p) /\ ~keep THEN era + 1 ELSE era
             /\ Goto(p, IF Matches(p) /\ ~keep
                        THEN [proc[p] EXCEPT !.pc = "mint", !.acc = acc, !.era = era + 1] ELSE Idle)
    /\ UNCHANGED <<mix, session, secrets, sets, revoked, bought>>

\* A password or a device's code, right or wrong; then the session is stamped.
Reauth(p) ==
    /\ At(p, "reauth")
    /\ \E right \in BOOLEAN :
          /\ Save(p, proc[p].acc)
          /\ Goto(p, IF right /\ Matches(p) THEN [proc[p] EXCEPT !.pc = "stamp"] ELSE Idle)
    /\ UNCHANGED <<mix, session, secrets, sets, era, revoked, bought>>

\* putSessionFieldGuarded: one field, if it still is what was read; never a row
\* that is gone.
Stamp(p) ==
    /\ At(p, "stamp")
    /\ LET s == proc[p].s IN
          session' = IF Live(s) /\ session[s].fresh = proc[p].row.fresh
                     THEN [session EXCEPT ![s].fresh = TRUE] ELSE session
    /\ Done(p)
    /\ UNCHANGED <<mix, account, secrets, sets, era, revoked, bought>>

\* The elevation lapses ten minutes on.
Cool ==
    /\ On("offer")
    /\ \E s \in Session : session[s].fresh /\ session' = [session EXCEPT ![s].fresh = FALSE]
    /\ UNCHANGED <<mix, account, proc, secrets, sets, era, revoked, bought>>

Offer(p) ==
    /\ At(p, "offer")
    /\ LET s == proc[p].s IN
          IF /\ Cardinality(proc[p].acc.devices) < DeviceLimit
             /\ Live(s) /\ session[s].offer = proc[p].row.offer
          THEN /\ secrets < MaxSecret /\ secrets' = secrets + 1
               /\ session' = [session EXCEPT ![s].offer = secrets + 1]
          ELSE UNCHANGED <<secrets, session>>
    /\ Done(p)
    /\ UNCHANGED <<mix, account, sets, era, revoked, bought>>

\* A live code of the offered secret makes it a device.
Confirm(p) ==
    /\ At(p, "confirm")
    /\ LET acc == proc[p].acc IN
          IF proc[p].row.offer = 0 \/ Cardinality(acc.devices) >= DeviceLimit
          THEN Done(p) /\ UNCHANGED <<account, sets>>
          ELSE /\ sets < MaxCode
               /\ Save(p, WithDevice(acc, proc[p].row.offer))
               /\ Generates(p, acc)
               /\ Goto(p, IF Matches(p) THEN [proc[p] EXCEPT !.pc = "clear"] ELSE Idle)
    /\ UNCHANGED <<mix, session, secrets, era, revoked, bought>>

ClearOffer(p) ==
    /\ At(p, "clear")
    /\ LET s == proc[p].s IN
          session' = IF Live(s) /\ session[s].offer = proc[p].row.offer
                     THEN [session EXCEPT ![s].offer = 0] ELSE session
    /\ Done(p)
    /\ UNCHANGED <<mix, account, secrets, sets, era, revoked, bought>>

\* The last factor stays while one is required; the codes go with the last one.
Remove(p) ==
    /\ At(p, "remove")
    /\ LET acc == proc[p].acc IN
          \E d \in acc.devices :
             LET rest == acc.devices \ {d} IN
                IF rest = {} /\ needsTotp(acc) THEN UNCHANGED account
                ELSE Save(p, [acc EXCEPT !.devices = rest, !.codes = IF rest = {} THEN {} ELSE @])
    /\ Done(p)
    /\ UNCHANGED <<mix, session, secrets, sets, era, revoked, bought>>

Regenerate(p) ==
    /\ At(p, "regenerate")
    /\ proc[p].acc.devices # {} /\ sets < MaxCode
    /\ Save(p, [proc[p].acc EXCEPT !.codes = {sets + 1}])
    /\ sets' = IF Matches(p) THEN sets + 1 ELSE sets
    /\ Done(p)
    /\ UNCHANGED <<mix, session, secrets, era, revoked, bought>>

\* One session, or every other: found first, deleted one by one.
Sessions == {s \in Session : Live(s)}

Revoke(p) ==
    /\ At(p, "revoke") \/ At(p, "others")
    /\ \E s \in Sessions :
          Goto(p, [Idle EXCEPT !.pc = "kill",
                               !.kill = IF At(p, "revoke") THEN {s} ELSE Sessions \ {proc[p].s}])
    /\ OnlyRequests

Kill(p) ==
    /\ At(p, "kill")
    /\ IF proc[p].kill = {} THEN Done(p) /\ UNCHANGED <<session, revoked>>
       ELSE LET s == Min(proc[p].kill) IN
            /\ End(s) /\ revoked' = revoked \cup {s}
            /\ Goto(p, [proc[p] EXCEPT !.kill = @ \ {s}])
    /\ UNCHANGED <<mix, account, secrets, sets, era, bought>>

-----------------------------------------------------------------------------
(* What administrators do to the account: now, or when a second one agrees *)
(* to what was read before.                                                *)

AdminRead(p) ==
    /\ At(p, "idle") /\ account.there
    /\ \E op \in AdminOps : On(op) /\ Goto(p, [Idle EXCEPT !.pc = op, !.acc = account])
    /\ OnlyRequests

\* Variant: seniority is granted and the sessions go on.
PatchedQuietly(op, acc) ==
    CASE op = "disable" -> [acc EXCEPT !.active = FALSE]
      [] op = "enable" -> [acc EXCEPT !.active = TRUE]
      [] op = "promote" -> [acc EXCEPT !.senior = TRUE]
      [] op = "demote" -> [acc EXCEPT !.senior = FALSE]
      [] op = "require" -> [acc EXCEPT !.required = "on"]
      [] op = "exempt" -> [acc EXCEPT !.required = "off"]

\* A gain of seniority revokes every session: the next one passes the second
\* factor.  Its loss, and a disable, are seen by the next request anyway; what
\* is said of the second factor itself is looked at when someone signs in.
Patched(op, acc) ==
    CASE op = "disable" -> [acc EXCEPT !.active = FALSE]
      [] op = "enable" -> [acc EXCEPT !.active = TRUE]
      [] op = "promote" -> [acc EXCEPT !.senior = TRUE, !.sv = IF acc.senior THEN @ ELSE @ + 1]
      [] op = "demote" -> [acc EXCEPT !.senior = FALSE]
      [] op = "require" -> [acc EXCEPT !.required = "on"]
      [] op = "exempt" -> [acc EXCEPT !.required = "off"]

Patch(p) ==
    /\ \E op \in {"disable", "enable", "promote", "demote", "require", "exempt"} :
          /\ At(p, op)
          /\ Save(p, Patched(op, proc[p].acc))
          /\ era' = IF Matches(p) /\ op = "promote" /\ ~proc[p].acc.senior THEN era + 1 ELSE era
    /\ Done(p)
    /\ UNCHANGED <<mix, session, secrets, sets, revoked, bought>>

\* The factors are cleared, or the sessions revoked, or the password set: each
\* moves the session version; the first two delete the rows as well.
Expel(p) ==
    /\ \E op \in {"reset", "revokeAll", "resetPassword"} :
          /\ At(p, op)
          /\ LET acc == [proc[p].acc EXCEPT !.sv = @ + 1] IN
                Save(p, IF op = "reset" THEN [acc EXCEPT !.devices = {}, !.codes = {}] ELSE acc)
          /\ era' = IF Matches(p) THEN era + 1 ELSE era
          /\ Goto(p, IF Matches(p) /\ op # "resetPassword" THEN [Idle EXCEPT !.pc = "sweep"] ELSE Idle)
    /\ UNCHANGED <<mix, session, secrets, sets, revoked, bought>>

\* Deleted for good, whatever it has become; its sessions after it.
Delete(p) ==
    /\ At(p, "delete") /\ era < MaxVersion
    /\ account' = [account EXCEPT !.there = FALSE]
    /\ era' = era + 1
    /\ Goto(p, [Idle EXCEPT !.pc = "sweep"])
    /\ UNCHANGED <<mix, session, secrets, sets, revoked, bought>>

KillAll(p) ==
    /\ At(p, "sweep")
    /\ Goto(p, [Idle EXCEPT !.pc = "kill", !.kill = Sessions])
    /\ OnlyRequests

\* The name is free again: a new account under it starts where every one does.
Enrol ==
    /\ On("enrol") /\ ~account.there
    /\ account' = Blank
    /\ UNCHANGED <<mix, session, proc, secrets, sets, era, revoked, bought>>

-----------------------------------------------------------------------------
SigningIn(p) == LoginRead(p) \/ Miss(p) \/ LoginWrite(p) \/ FactorRead(p) \/ FactorWrite(p) \/ Drop(p) \/ Mint(p)
Self(p) ==
    \/ \E s \in Session, op \in SelfOps : Enter(p, s, op)
    \/ Slide(p) \/ ChangePassword(p) \/ Reauth(p) \/ Stamp(p) \/ Offer(p) \/ Confirm(p) \/ ClearOffer(p)
    \/ Remove(p) \/ Regenerate(p) \/ Revoke(p) \/ Kill(p)
Admin(p) == AdminRead(p) \/ Patch(p) \/ Expel(p) \/ Delete(p) \/ KillAll(p)

Next ==
    \/ \E p \in Proc : SigningIn(p) \/ Self(p) \/ Admin(p)
    \/ \E s \in Session : SignOut(s)
    \/ Cool \/ Enrol

Spec == Init /\ [][Next]_vars

-----------------------------------------------------------------------------
TypeOK ==
    /\ mix \in Mixes /\ account \in Account
    /\ session \in [Session -> Row] /\ proc \in [Proc -> Request]
    /\ secrets \in 0..MaxSecret /\ sets \in 0..MaxCode
    /\ era \in Nat /\ revoked \subseteq Session /\ bought \in [Code -> Nat]

\* A session that was revoked never resolves again: not one that was deleted
\* while a request of its own was under way (CONC-4), nor one that was bought
\* before every session was revoked, whatever write of the account row comes
\* late (CONC-3).
RevokedStays ==
    \A s \in Session : Resolves(s) => s \notin revoked /\ session[s].era = era

\* Whoever is senior now has passed a second factor in every session that
\* resolves, however the seniority, the session and the devices came about;
\* unless an administrator had exempted the account (totpRequired) when that
\* session signed in, and the account bears an administrator's word since.
Held(factor) == factor = "passed" \/ (factor = "exempt" /\ account.required # "unset")
SecondFactorHeld ==
    account.senior => \A s \in Session : Resolves(s) => Held(session[s].factor)

\* What "a totp change never creates that TOTP gap" (admin.ts) would need: where
\* the account needs a second factor now, every session that resolves has
\* passed one.  It does not hold: a session from before the word stays.
FactorAsRequired ==
    needsTotp(account) => \A s \in Session : Resolves(s) => session[s].factor = "passed"

\* A recovery code buys one session, ever; a code that has is not in the row,
\* whatever was read before it was burned.
CodeOnce ==
    \A c \in Code : bought[c] <= 1 /\ (bought[c] = 1 => c \notin account.codes)
=============================================================================
