--------------------------- MODULE Identity_proofs ---------------------------
(***************************************************************************)
(* Accounts and sessions: types, and that RevokedStays, SecondFactorHeld   *)
(* and CodeOnce hold in every behaviour of Identity in which no name is    *)
(* deleted and enrolled again where people sign in.                        *)
(*                                                                         *)
(* The argument.  A write of the row names the version its request read,   *)
(* so a request whose write succeeds had read the row as it is.  Hence the *)
(* row's session version counts the times every session was revoked, a     *)
(* session is dated by the version it was bought at, and a gain of         *)
(* seniority or a burned code leaves every older read unable to write.     *)
(***************************************************************************)
EXTENDS Identity, TLAPS, WellFoundedInduction

-----------------------------------------------------------------------------
(* The inductive invariants.                                               *)

\* A request that will still write, or decide, by the row it has read.
Reads == {"miss", "login", "factor", "slide"} \cup SelfOps \cup AdminOps

\* A request from a session that had passed every factor.
Entered == {"slide", "clear"} \cup SelfOps

\* What the types rest on: a session version is at most the row's version, a
\* sign-in that enrols has a secret to enrol.
Bounded(acc) == acc.sv <= acc.version
Offered(row) == row.pending = "enroll" => row.offer # 0
Handling(h) ==
    /\ h.pc \in Reads => Bounded(h.acc)
    /\ Offered(h.row)
    /\ h.pc = "slide" => h.op \in SelfOps
    /\ h.pc \in Entered => /\ h.s \in Session
                           /\ session[h.s].state # "unused" /\ session[h.s].pending = "none"
TypeInv ==
    /\ TypeOK
    /\ Bounded(account)
    /\ \A s \in Session : Offered(session[s])
    /\ \A p \in Proc : Handling(proc[p])

\* Without a sign-in there is no session to speak of.
Quiet ==
    /\ \A s \in Session : session[s].state = "unused"
    /\ \A c \in Code : bought[c] = 0
    /\ \A p \in Proc : /\ proc[p].pc \in {"idle", "kill", "sweep"} \cup AdminOps
                       /\ proc[p].pc = "kill" => proc[p].kill = {}

\* The row's history: its session version counts the times every session was
\* revoked; a request has read a version of the row, and one with the row's
\* version is the row.
Counted == account.there => account.sv = era + 1
Deletable ==
    /\ ~account.there => "delete" \in mix.ops
    /\ \A p \in Proc : proc[p].pc = "delete" => "delete" \in mix.ops
VersionRead(h) ==
    h.pc \notin {"idle", "kill", "sweep"} =>
        /\ h.acc.version <= account.version
        /\ account.there /\ h.acc.version = account.version => h.acc = account

\* A session, and a request that will mint one, was bought at one of the
\* row's session versions.
Dated(sv, at) == at <= era /\ sv = at + 1
Bought(s) == Live(s) => Dated(session[s].sv, session[s].era)
Minting == {"login", "factor", "drop", "mint"} \cup Entered
Buys(h) == h.pc \in Minting => Dated(h.acc.sv, h.era)

\* Where the second factor was passed.
Passed(s) ==
    Live(s) /\ session[s].pending = "none" /\ account.there /\ account.senior /\ session[s].era = era
    => Held(session[s].factor)
WillPass(h) ==
    /\ h.pc \in {"factor", "drop"} => h.factor = "passed" /\ h.pending = "none"
    /\ h.pc = "slide" \/ h.pc \in SelfOps => h.pending = "none" /\ (h.acc.senior => Held(h.factor))
    /\ (h.pc = "mint" /\ h.pending = "none" /\ account.there /\ account.senior /\ h.era = era)
          => Held(h.factor)

\* A recovery code that was burned, and the session it has bought or will buy.
Burned(c) == c <= sets /\ c \notin account.codes
Burns(h) ==
    /\ h.code # 0 => h.pc \in {"factor", "drop", "mint"} 
    /\ h.pc = "factor" /\ h.code # 0 => h.code \in h.acc.codes /\ h.row.pending # "enroll"
    /\ h.pc \in {"drop", "mint"} /\ h.code # 0 => Burned(h.code) /\ bought[h.code] = 0
Local(h) == VersionRead(h) /\ Buys(h) /\ WillPass(h) /\ Burns(h)
Codes ==
    /\ account.codes \subseteq 1..sets
    /\ \A c \in Code : bought[c] <= 1 /\ (bought[c] = 1 => Burned(c))
    /\ \A p, q \in Proc : /\ p # q
                          /\ proc[p].pc \in {"drop", "mint"} /\ proc[q].pc \in {"drop", "mint"}
                          /\ proc[p].code # 0
                          => proc[p].code # proc[q].code

Lived ==
    /\ Counted /\ Deletable /\ Codes
    /\ \A s \in Session : Bought(s) /\ Passed(s) /\ (s \in revoked => session[s].state = "gone")
    /\ \A p \in Proc : Local(proc[p])

\* A name is deleted and enrolled again (IdentityGaps.cfg shows what that does).
Reused == {"delete", "enrol"} \subseteq mix.ops
IInv ==
    /\ TypeInv
    /\ "login" \notin mix.ops => Quiet
    /\ ~Reused => Lived

\* The hypothesis of what follows: where people sign in, a name is not
\* deleted and enrolled again.
NamesStay == \A m \in Mixes : ~({"login", "delete", "enrol"} \subseteq m.ops)
-----------------------------------------------------------------------------
(* Types.                                                                  *)

Pending == {"none", "totp", "enroll"}

LEMMA InitialTypes == Init => TypeInv
<1> SUFFICES ASSUME Init PROVE TypeInv OBVIOUS
<1>1. MaxVersion \in Nat /\ MaxVersion > 0 /\ MaxCode \in Nat /\ MaxCode > 0 /\ MaxSession \in Nat /\ MaxSecret \in Nat
  BY IdentityConstants
<1>2. mix.senior \in BOOLEAN /\ mix.devices \in 0..MaxSecret BY IdentityConstants DEF Init
<1>3. Blank \in Account BY <1>1 DEF Blank, Account
<1>4. account \in Account /\ account.sv = 1 /\ account.version = 1
  <2> DEFINE codes == IF mix.devices > 0 THEN {1} ELSE {}
  <2>1. account = [Blank EXCEPT !.senior = mix.senior, !.devices = 1..mix.devices, !.codes = codes]
    BY DEF Init
  <2>2. 1..mix.devices \subseteq Secret BY <1>1, <1>2 DEF Secret
  <2>3. codes \subseteq Code BY <1>1 DEF Code
  <2> HIDE DEF codes
  <2>4. account = [there |-> TRUE, active |-> TRUE, senior |-> mix.senior, required |-> "unset",
                   version |-> 1, sv |-> 1, devices |-> 1..mix.devices, codes |-> codes]
    BY <2>1 DEF Blank
  <2>5. 1 \in 0..MaxVersion BY <1>1
  <2> QED BY <1>2, <2>2, <2>3, <2>4, <2>5 DEF Account
<1>5. Unused \in Row BY <1>1 DEF Unused, Row
<1>6. Idle \in Request BY <1>1, <1>3, <1>5 DEF Idle, Request, Pcs
<1>7. session \in [Session -> Row] /\ proc \in [Proc -> Request] BY <1>5, <1>6 DEF Init
<1>8. TypeOK BY <1>1, <1>2, <1>4, <1>7 DEF Init, TypeOK, Code
<1>9. \A p \in Proc : Handling(proc[p])
  BY DEF Init, Handling, Idle, Unused, Reads, Entered, SelfOps, AdminOps, Offered
<1> QED BY <1>4, <1>8, <1>9 DEF TypeInv, Bounded, Init, Offered, Unused

\* What a step may do to the sessions, by their types.
SessionsTyped ==
    /\ session' \in [Session -> Row]
    /\ \A s \in Session :
          /\ Offered(session'[s])
          /\ session[s].state # "unused" =>
                session'[s].state # "unused" /\ session'[s].pending = session[s].pending

LEMMA SameSessions ==
    ASSUME TypeInv, session' = session PROVE SessionsTyped
BY DEF TypeInv, TypeOK, SessionsTyped

LEMMA EndTyped ==
    ASSUME TypeInv, NEW s, End(s) PROVE SessionsTyped
<1>1. \A t \in Session : session[t] \in Row BY DEF TypeInv, TypeOK
<1>2. \A t \in Session : /\ session'[t] \in Row /\ session'[t].pending = session[t].pending
                         /\ session'[t].offer = session[t].offer
                         /\ session[t].state # "unused" => session'[t].state # "unused"
  BY <1>1 DEF TypeInv, TypeOK, End, Row
<1> QED BY <1>2 DEF TypeInv, TypeOK, SessionsTyped, Offered, End

LEMMA FreshTyped ==
    ASSUME TypeInv, NEW s, NEW b \in BOOLEAN, session' = [session EXCEPT ![s].fresh = b]
    PROVE  SessionsTyped
<1>1. \A t \in Session : session[t] \in Row BY DEF TypeInv, TypeOK
<1>2. \A t \in Session : /\ session'[t] \in Row /\ session'[t].pending = session[t].pending
                         /\ session'[t].offer = session[t].offer
                         /\ session'[t].state = session[t].state
  BY <1>1 DEF TypeInv, TypeOK, Row
<1> QED BY <1>2 DEF TypeInv, TypeOK, SessionsTyped, Offered

LEMMA OfferTyped ==
    ASSUME TypeInv, NEW s \in Session, NEW n \in 0..MaxSecret,
           session[s].pending = "enroll" => n # 0,
           session' = [session EXCEPT ![s].offer = n]
    PROVE  SessionsTyped
<1>1. \A t \in Session : session[t] \in Row BY DEF TypeInv, TypeOK
<1>2. \A t \in Session : /\ session'[t] \in Row /\ session'[t].pending = session[t].pending
                         /\ session'[t].offer = IF t = s THEN n ELSE session[t].offer
                         /\ session'[t].state = session[t].state
  BY <1>1 DEF TypeInv, TypeOK, Row
<1> QED BY <1>2 DEF TypeInv, TypeOK, SessionsTyped, Offered

LEMMA HandlingKept ==
    ASSUME SessionsTyped, NEW h, Handling(h) PROVE Handling(h)'
BY DEF Handling, SessionsTyped

\* A step that moves one request, the rest well typed after it.
LEMMA TypedStep ==
    ASSUME TypeInv, NEW p \in Proc, NEW h \in Request, Goto(p, h), mix' = mix,
           account' \in Account, Bounded(account'), SessionsTyped,
           secrets' \in 0..MaxSecret, sets' \in 0..MaxCode, era' \in Nat,
           revoked' \subseteq Session, bought' \in [Code -> Nat], Handling(h)'
    PROVE  TypeInv'
<1>1. proc' \in [Proc -> Request] /\ proc'[p] = h /\ \A q \in Proc \ {p} : proc'[q] = proc[q]
  BY DEF TypeInv, TypeOK, Goto
<1>2. TypeOK' BY <1>1 DEF TypeInv, TypeOK, SessionsTyped
<1>3. \A s \in Session : Offered(session'[s]) BY DEF SessionsTyped
<1>4. ASSUME NEW q \in Proc PROVE Handling(proc[q])'
  <2>1. CASE q = p BY <2>1, <1>1 DEF Handling
  <2>2. CASE q # p
    <3>1. Handling(proc[q]) BY DEF TypeInv
    <3> QED BY <3>1, <2>2, <1>1 DEF Handling, SessionsTyped
  <2> QED BY <2>1, <2>2
<1> QED BY <1>2, <1>3, <1>4 DEF TypeInv

LEMMA IdleTyped == Idle \in Request /\ Blank \in Account /\ Unused \in Row /\ (TypeInv => Handling(Idle) /\ Handling(Idle)')
<1>1. MaxVersion \in Nat /\ MaxVersion > 0 /\ MaxCode \in Nat /\ MaxCode > 0 /\ MaxSession \in Nat /\ MaxSecret \in Nat
  BY IdentityConstants
<1>2. Blank \in Account BY <1>1 DEF Blank, Account
<1>3. Unused \in Row BY <1>1 DEF Unused, Row
<1>4. Idle \in Request BY <1>1, <1>2, <1>3 DEF Idle, Request, Pcs
<1>5. Handling(Idle) /\ Handling(Idle)'
  BY DEF Handling, Idle, Unused, Reads, Entered, SelfOps, AdminOps, Offered
<1> QED BY <1>2, <1>3, <1>4, <1>5

\* A guarded write of a row that is well typed when the guard holds.
LEMMA SaveTyped ==
    ASSUME TypeInv, NEW p \in Proc, NEW acc, Save(p, acc),
           Matches(p) => acc \in [there : BOOLEAN, active : BOOLEAN, senior : BOOLEAN, required : {"unset", "on", "off"},
                                  version : 0..MaxVersion,
                                  sv : Nat, devices : SUBSET Secret, codes : SUBSET Code]
                         /\ acc.sv <= account.version + 1
    PROVE  account' \in Account /\ Bounded(account')
<1>1. CASE ~Matches(p) BY <1>1 DEF Save, TypeInv, TypeOK
<1>2. CASE Matches(p)
  <2>1. proc[p] \in Request BY DEF TypeInv, TypeOK
  <2>2. account.version \in 0..MaxVersion /\ account.version < MaxVersion /\ proc[p].acc.version = account.version
        /\ MaxVersion \in Nat
    BY <1>2, IdentityConstants DEF Save, Matches, TypeInv, TypeOK, Account
  <2>3. account' = [acc EXCEPT !.version = account.version + 1] BY <1>2, <2>2 DEF Save
  <2> QED BY <1>2, <2>2, <2>3 DEF Account, Bounded
<1> QED BY <1>1, <1>2

LEMMA RequestStep ==
    ASSUME TypeInv, NEW p \in Proc, NEW h \in Request, Goto(p, h), OnlyRequests, Handling(h)
    PROVE  TypeInv'
<1>1. SessionsTyped BY SameSessions DEF OnlyRequests
<1>2. Handling(h)' BY <1>1, HandlingKept
<1> QED BY <1>1, <1>2, TypedStep DEF TypeInv, TypeOK, OnlyRequests

LEMMA SessionStep ==
    ASSUME TypeInv, NEW p \in Proc, NEW h \in Request, Goto(p, h), SessionsTyped, Handling(h),
           UNCHANGED <<mix, account, sets, era>>,
           secrets' \in 0..MaxSecret, revoked' \subseteq Session, bought' \in [Code -> Nat]
    PROVE  TypeInv'
<1>2. Handling(h)' BY HandlingKept
<1> QED BY <1>2, TypedStep DEF TypeInv, TypeOK

LEMMA WriteStep ==
    ASSUME TypeInv, NEW p \in Proc, NEW h \in Request, Goto(p, h), Handling(h),
           account' \in Account, Bounded(account'),
           UNCHANGED <<mix, session, secrets, revoked, bought>>,
           sets' \in 0..MaxCode, era' \in Nat
    PROVE  TypeInv'
<1>1. SessionsTyped BY SameSessions
<1>2. Handling(h)' BY <1>1, HandlingKept
<1> QED BY <1>1, <1>2, TypedStep DEF TypeInv, TypeOK

LEMMA DoneTyped ==
    ASSUME TypeInv, NEW p \in Proc, Done(p)
    PROVE  Idle \in Request /\ Goto(p, Idle) /\ Handling(Idle)
BY IdleTyped DEF Done

\* The row a request has read, and what is written back when nobody moved it.
LEMMA RowRead ==
    ASSUME TypeInv, NEW p \in Proc
    PROVE  /\ proc[p] \in Request /\ proc[p].acc \in Account /\ proc[p].row \in Row
           /\ account \in Account /\ Handling(proc[p])
           /\ Matches(p) => account.there /\ proc[p].acc.version = account.version
           /\ Matches(p) /\ proc[p].pc \in Reads => proc[p].acc.sv <= account.version
<1>1. proc[p] \in Request /\ account \in Account /\ Handling(proc[p]) BY DEF TypeInv, TypeOK
<1>2. proc[p].acc \in Account /\ proc[p].row \in Row BY <1>1 DEF Request
<1> QED BY <1>1, <1>2 DEF Matches, Handling, Bounded, Reads

LEMMA LoginReadTyped == ASSUME TypeInv, NEW p \in Proc, LoginRead(p) PROVE TypeInv'
<1>1. PICK pc \in {"login", "miss"} : Goto(p, [Idle EXCEPT !.pc = pc, !.acc = account, !.era = era])
  BY DEF LoginRead
<1> DEFINE h == [Idle EXCEPT !.pc = pc, !.acc = account, !.era = era]
<1>2. account \in Account /\ Bounded(account) /\ era \in Nat BY DEF TypeInv, TypeOK
<1>3. h \in Request BY <1>2, IdleTyped DEF Request, Pcs, Idle
<1>4. Handling(h) BY <1>2, IdleTyped DEF Idle, Handling, Offered, Unused, Entered, SelfOps, Reads, AdminOps
<1> QED BY <1>1, <1>3, <1>4, RequestStep DEF LoginRead

LEMMA MissTyped == ASSUME TypeInv, NEW p \in Proc, Miss(p) PROVE TypeInv'
<1>1. proc[p].pc \in Reads BY DEF Miss, At, Reads
<1>2. account' \in Account /\ Bounded(account') BY <1>1, RowRead, SaveTyped, IdentityConstants DEF Miss, Account
<1> QED BY <1>2, DoneTyped, WriteStep DEF Miss, TypeInv, TypeOK

LEMMA LoginWriteTyped == ASSUME TypeInv, NEW p \in Proc, LoginWrite(p) PROVE TypeInv'
<1> DEFINE pending == IF proc[p].acc.devices # {} THEN "totp"
                      ELSE IF needsTotp(proc[p].acc) THEN "enroll" ELSE "none"
           factor == IF proc[p].acc.required = "off" THEN "exempt" ELSE "none"
           h == [proc[p] EXCEPT !.pc = "mint", !.pending = pending, !.factor = factor]
<1>1. proc[p].pc \in Reads BY DEF LoginWrite, At, Reads
<1>2. account' \in Account /\ Bounded(account') BY <1>1, RowRead, SaveTyped, IdentityConstants DEF LoginWrite, Account
<1>3. pending \in Pending /\ factor \in {"none", "exempt", "passed"} BY DEF Pending
<1>4. proc[p] \in Request /\ Handling(proc[p]) BY RowRead
<1> HIDE DEF pending, factor
<1>5. h \in Request BY <1>3, <1>4 DEF Request, Pcs, Pending
<1>6. Handling(h) BY <1>4 DEF Request, Handling, Entered, SelfOps, Reads, AdminOps
<1>7. Goto(p, IF ~Matches(p) THEN Idle ELSE h) BY DEF LoginWrite, pending, factor
<1> QED
  <2>1. CASE Matches(p) BY <1>2, <1>5, <1>6, <1>7, <2>1, WriteStep DEF LoginWrite, TypeInv, TypeOK
  <2>2. CASE ~Matches(p) BY <1>2, <1>7, <2>2, IdleTyped, WriteStep DEF LoginWrite, TypeInv, TypeOK
  <2> QED BY <2>1, <2>2

LEMMA MintTyped == ASSUME TypeInv, NEW p \in Proc, Mint(p) PROVE TypeInv'
<1>1. proc[p] \in Request /\ proc[p].acc \in Account BY RowRead
<1> DEFINE offers == IF proc[p].pending = "enroll" THEN secrets + 1 ELSE 0
<1>2. PICK s \in Session :
        /\ session[s].state = "unused"
        /\ offers <= MaxSecret
        /\ secrets' = IF offers > 0 THEN offers ELSE secrets
        /\ session' = [session EXCEPT ![s] =
              [state |-> "live", sv |-> proc[p].acc.sv, pending |-> proc[p].pending,
               offer |-> offers, fresh |-> FALSE, era |-> proc[p].era, factor |-> proc[p].factor]]
  BY DEF Mint
<1>3. MaxSecret \in Nat /\ secrets \in 0..MaxSecret BY IdentityConstants DEF TypeInv, TypeOK
<1>4. offers \in 0..MaxSecret /\ secrets' \in 0..MaxSecret /\ (proc[p].pending = "enroll" => offers # 0)
  BY <1>2, <1>3
<1> HIDE DEF offers
<1> DEFINE row == [state |-> "live", sv |-> proc[p].acc.sv, pending |-> proc[p].pending,
                   offer |-> offers, fresh |-> FALSE, era |-> proc[p].era, factor |-> proc[p].factor]
<1>5. row \in Row /\ Offered(row) /\ row.state = "live" BY <1>1, <1>4 DEF Request, Account, Row, Offered
<1>6. session' = [session EXCEPT ![s] = row] BY <1>2
<1> HIDE DEF row
<1>7. SessionsTyped BY <1>2, <1>5, <1>6 DEF TypeInv, TypeOK, SessionsTyped
<1>8. bought' \in [Code -> Nat] BY DEF Mint, TypeInv, TypeOK
<1> QED BY <1>4, <1>7, <1>8, DoneTyped, SessionStep DEF Mint, TypeInv, TypeOK

LEMMA FactorReadTyped == ASSUME TypeInv, NEW p \in Proc, FactorRead(p) PROVE TypeInv'
<1> DEFINE Read(s) == [Idle EXCEPT !.pc = "factor", !.acc = account, !.s = s, !.row = session[s],
                                   !.era = session[s].era, !.factor = "passed"]
<1>1. PICK s \in Session :
        \/ Goto(p, Read(s))
        \/ \E c \in account.codes : Goto(p, [Read(s) EXCEPT !.code = c])
        \/ Goto(p, [Read(s) EXCEPT !.pc = "miss"])
  BY DEF FactorRead
<1> DEFINE h == Read(s)
<1>2. account \in Account /\ Bounded(account) /\ session[s] \in Row /\ Offered(session[s])
  BY DEF TypeInv, TypeOK
<1>3. \A c \in account.codes : c \in 0..MaxCode BY <1>2, IdentityConstants DEF Account, Code
<1>4. s \in 0..MaxSession BY IdentityConstants DEF Session
<1>5. h \in Request BY <1>2, <1>4, IdleTyped DEF Request, Pcs, Row, Idle
<1>6. h.pc = "factor" /\ h.acc = account /\ h.row = session[s] BY DEF Idle
<1> HIDE DEF h
<1>7. Handling(h) BY <1>2, <1>6 DEF Handling, Entered, SelfOps, Reads, AdminOps
<1>8. ASSUME NEW c \in 0..MaxCode PROVE [h EXCEPT !.code = c] \in Request /\ Handling([h EXCEPT !.code = c])
  BY <1>2, <1>5, <1>6 DEF Request, Handling, Entered, SelfOps, Reads, AdminOps
<1>9. [h EXCEPT !.pc = "miss"] \in Request /\ Handling([h EXCEPT !.pc = "miss"])
  BY <1>2, <1>5, <1>6 DEF Request, Pcs, Handling, Entered, SelfOps, Reads, AdminOps
<1>10. CASE Goto(p, h) BY <1>5, <1>7, <1>10, RequestStep DEF FactorRead
<1>11. CASE \E c \in account.codes : Goto(p, [h EXCEPT !.code = c])
  BY <1>3, <1>8, <1>11, RequestStep DEF FactorRead
<1>12. CASE Goto(p, [h EXCEPT !.pc = "miss"]) BY <1>9, <1>12, RequestStep DEF FactorRead
<1>13. \/ Goto(p, h)
       \/ \E c \in account.codes : Goto(p, [h EXCEPT !.code = c])
       \/ Goto(p, [h EXCEPT !.pc = "miss"])
  BY <1>1 DEF h
<1> QED BY <1>10, <1>11, <1>12, <1>13
\* A device and, with the first one, a set of codes.
LEMMA WithDeviceTyped ==
    ASSUME TypeInv, NEW acc \in Account, NEW d \in Secret, sets < MaxCode
    PROVE  LET new == WithDevice(acc, d) IN
              /\ new \in Account /\ new.sv = acc.sv /\ new.version = acc.version
              /\ new.there = acc.there /\ new.senior = acc.senior /\ new.required = acc.required
              /\ new.codes = IF acc.devices = {} THEN {sets + 1} ELSE acc.codes
<1>1. sets + 1 \in Code BY IdentityConstants DEF TypeInv, TypeOK, Code
<1>2. {sets + 1} \subseteq Code BY <1>1
<1>3. acc.devices \cup {d} \subseteq Secret BY DEF Account
<1> QED BY <1>2, <1>3 DEF Account, WithDevice

LEMMA GeneratesTyped ==
    ASSUME TypeInv, NEW p, NEW acc, Generates(p, acc), sets < MaxCode PROVE sets' \in 0..MaxCode
BY IdentityConstants DEF TypeInv, TypeOK, Generates

LEMMA FactorWriteTyped == ASSUME TypeInv, NEW p \in Proc, FactorWrite(p) PROVE TypeInv'
<1>1. /\ proc[p] \in Request /\ proc[p].acc \in Account /\ proc[p].row \in Row /\ Handling(proc[p])
      /\ proc[p].pc = "factor"
  BY RowRead DEF FactorWrite, At
<1> DEFINE enrols == proc[p].row.pending = "enroll"
<1>2. sets' \in 0..MaxCode
  <2>1. CASE enrols BY <2>1, GeneratesTyped DEF FactorWrite
  <2>2. CASE ~enrols BY <2>2 DEF FactorWrite, TypeInv, TypeOK
  <2> QED BY <2>1, <2>2
<1>3. account' \in Account /\ Bounded(account')
  <2>1. Matches(p) => proc[p].acc.sv <= account.version BY <1>1, RowRead DEF Reads
  <2>2. CASE enrols
    <3>1. proc[p].row.offer \in Secret BY <1>1, <2>2, IdentityConstants DEF Handling, Offered, Row, Secret
    <3>2. sets < MaxCode BY <2>2 DEF FactorWrite
    <3>3. WithDevice(proc[p].acc, proc[p].row.offer) \in Account
          /\ WithDevice(proc[p].acc, proc[p].row.offer).sv = proc[p].acc.sv
      BY <1>1, <3>1, <3>2, WithDeviceTyped
    <3>4. Save(p, WithDevice(proc[p].acc, proc[p].row.offer)) BY <2>2 DEF FactorWrite
    <3> QED BY <1>1, <2>1, <3>3, <3>4, RowRead, SaveTyped, IdentityConstants DEF Account
  <2>3. CASE ~enrols
    <3> DEFINE acc == [proc[p].acc EXCEPT !.codes = @ \ {proc[p].code}]
    <3>1. acc \in Account /\ acc.sv = proc[p].acc.sv BY <1>1 DEF Account
    <3>2. Save(p, acc) BY <2>3 DEF FactorWrite
    <3> HIDE DEF acc
    <3> QED BY <1>1, <2>1, <3>1, <3>2, RowRead, SaveTyped, IdentityConstants DEF Account
  <2> QED BY <2>2, <2>3
<1> DEFINE h == [proc[p] EXCEPT !.pc = "drop"]
<1>4. h \in Request /\ Handling(h) BY <1>1 DEF Request, Pcs, Handling, Entered, SelfOps, Reads, AdminOps
<1>5. Goto(p, IF Matches(p) THEN h ELSE Idle) BY DEF FactorWrite
<1> HIDE DEF h
<1>6. CASE Matches(p) BY <1>2, <1>3, <1>4, <1>5, <1>6, WriteStep DEF FactorWrite, TypeInv, TypeOK
<1>7. CASE ~Matches(p) BY <1>2, <1>3, <1>5, <1>7, IdleTyped, WriteStep DEF FactorWrite, TypeInv, TypeOK
<1> QED BY <1>6, <1>7

LEMMA DropTyped == ASSUME TypeInv, NEW p \in Proc, Drop(p) PROVE TypeInv'
<1> DEFINE h == [proc[p] EXCEPT !.pc = "mint"]
<1>1. proc[p] \in Request /\ Handling(proc[p]) BY RowRead
<1>2. h \in Request /\ Handling(h) BY <1>1 DEF Request, Pcs, Handling, Entered, SelfOps, Reads, AdminOps
<1>3. SessionsTyped BY EndTyped DEF Drop
<1> QED BY <1>2, <1>3, SessionStep DEF Drop, TypeInv, TypeOK

LEMMA EnterTyped ==
    ASSUME TypeInv, NEW p \in Proc, NEW s \in Session, NEW op \in SelfOps, Enter(p, s, op) PROVE TypeInv'
<1>1. PICK pc \in {"slide", op} :
        Goto(p, [Idle EXCEPT !.pc = pc, !.op = op, !.acc = account, !.s = s, !.row = session[s],
                             !.era = era, !.factor = session[s].factor])
  BY DEF Enter
<1> DEFINE h == [Idle EXCEPT !.pc = pc, !.op = op, !.acc = account, !.s = s, !.row = session[s],
                             !.era = era, !.factor = session[s].factor]
<1>2. /\ account \in Account /\ Bounded(account) /\ era \in Nat
      /\ session[s] \in Row /\ Offered(session[s])
  BY DEF TypeInv, TypeOK
<1>3. session[s].state # "unused" /\ session[s].pending = "none"
  BY DEF Enter, Resolves, Current, Live
<1>4. pc \in Pcs BY DEF Pcs, SelfOps
<1>5. s \in 0..MaxSession BY IdentityConstants DEF Session
<1>6. h \in Request BY <1>2, <1>4, <1>5, IdleTyped DEF Request, Idle, Row
<1>7. h.pc = pc /\ h.op = op /\ h.acc = account /\ h.row = session[s] /\ h.s = s BY DEF Idle
<1> HIDE DEF h
<1>8. Handling(h) BY <1>2, <1>3, <1>7 DEF Handling
<1>9. Goto(p, h) BY <1>1 DEF h
<1> QED BY <1>6, <1>8, <1>9, RequestStep DEF Enter

LEMMA SlideTyped == ASSUME TypeInv, NEW p \in Proc, Slide(p) PROVE TypeInv'
<1> DEFINE h == [proc[p] EXCEPT !.pc = proc[p].op]
<1>1. proc[p] \in Request /\ Handling(proc[p]) /\ proc[p].pc = "slide" BY RowRead DEF Slide, At
<1>2. proc[p].op \in SelfOps BY <1>1 DEF Handling
<1>3. h \in Request /\ Handling(h) BY <1>1, <1>2 DEF Request, Pcs, Handling, Entered, Reads
<1>4. Goto(p, h) \/ Goto(p, Idle) BY DEF Slide
<1> HIDE DEF h
<1> QED BY <1>3, <1>4, IdleTyped, RequestStep DEF Slide

LEMMA ChangePasswordTyped == ASSUME TypeInv, NEW p \in Proc, ChangePassword(p) PROVE TypeInv'
<1>1. /\ proc[p] \in Request /\ proc[p].acc \in Account /\ Handling(proc[p]) /\ proc[p].pc = "password"
  BY RowRead DEF ChangePassword, At
<1>2. Matches(p) => proc[p].acc.sv <= account.version BY <1>1, RowRead DEF Reads, SelfOps
<1>3. account.version \in 0..MaxVersion /\ MaxVersion \in Nat /\ era \in Nat
  BY IdentityConstants DEF TypeInv, TypeOK, Account
<1>4. PICK keep \in BOOLEAN :
        LET acc == IF keep THEN proc[p].acc ELSE [proc[p].acc EXCEPT !.sv = @ + 1] IN
           /\ Save(p, acc)
           /\ era' = IF Matches(p) /\ ~keep THEN era + 1 ELSE era
           /\ Goto(p, IF Matches(p) /\ ~keep
                      THEN [proc[p] EXCEPT !.pc = "mint", !.acc = acc, !.era = era + 1] ELSE Idle)
  BY DEF ChangePassword
<1> DEFINE acc == IF keep THEN proc[p].acc ELSE [proc[p].acc EXCEPT !.sv = @ + 1]
           h == [proc[p] EXCEPT !.pc = "mint", !.acc = acc, !.era = era + 1]
<1>5. account.version < MaxVersion BY <1>4 DEF Save
<1>6. Matches(p) => acc \in Account /\ acc.sv <= account.version + 1
  BY <1>1, <1>2, <1>3, <1>5 DEF Account
<1>7. acc.sv \in Nat /\ Save(p, acc) BY <1>1, <1>3, <1>4 DEF Account
<1>8. Matches(p) => h \in Request /\ Handling(h)
  <2> HIDE DEF acc
  <2> SUFFICES ASSUME Matches(p) PROVE h \in Request /\ Handling(h) OBVIOUS
  <2>1. acc \in Account BY <1>6
  <2>2. "mint" \in Pcs /\ era + 1 \in Nat BY <1>3 DEF Pcs
  <2>4. h \in Request BY <1>1, <2>1, <2>2 DEF Request
  <2>3. h.pc = "mint" /\ h.row = proc[p].row BY <1>1 DEF Request
  <2> QED BY <1>1, <2>4, <2>3 DEF Handling, Entered, Reads, SelfOps, AdminOps
<1>9. era' \in Nat BY <1>3, <1>4
<1>10. Goto(p, IF Matches(p) /\ ~keep THEN h ELSE Idle) BY <1>4
<1> HIDE DEF acc, h
<1>11. account' \in Account /\ Bounded(account') BY <1>3, <1>6, <1>7, SaveTyped DEF Account
<1>12. CASE Matches(p) /\ ~keep
  BY <1>8, <1>9, <1>10, <1>11, <1>12, WriteStep DEF ChangePassword, TypeInv, TypeOK
<1>13. CASE ~(Matches(p) /\ ~keep)
  BY <1>9, <1>10, <1>11, <1>13, IdleTyped, WriteStep DEF ChangePassword, TypeInv, TypeOK
<1> QED BY <1>12, <1>13

LEMMA ReauthTyped == ASSUME TypeInv, NEW p \in Proc, Reauth(p) PROVE TypeInv'
<1> DEFINE h == [proc[p] EXCEPT !.pc = "stamp"]
<1>1. proc[p] \in Request /\ proc[p].acc \in Account /\ Handling(proc[p]) /\ proc[p].pc = "reauth"
  BY RowRead DEF Reauth, At
<1>2. Save(p, proc[p].acc) /\ (Goto(p, h) \/ Goto(p, Idle)) BY DEF Reauth
<1>3. account' \in Account /\ Bounded(account')
  BY <1>1, <1>2, RowRead, SaveTyped, IdentityConstants DEF Account, Reads, SelfOps
<1>4. h \in Request /\ Handling(h) BY <1>1 DEF Request, Pcs, Handling, Entered, Reads, SelfOps, AdminOps
<1> HIDE DEF h
<1> QED BY <1>2, <1>3, <1>4, IdleTyped, WriteStep DEF Reauth, TypeInv, TypeOK
LEMMA StampTyped == ASSUME TypeInv, NEW p \in Proc, Stamp(p) PROVE TypeInv'
<1>1. SessionsTyped BY SameSessions, FreshTyped DEF Stamp
<1> QED BY <1>1, DoneTyped, SessionStep DEF Stamp, TypeInv, TypeOK

LEMMA OfferStepTyped == ASSUME TypeInv, NEW p \in Proc, Offer(p) PROVE TypeInv'
<1>1. Handling(proc[p]) /\ proc[p].s \in Session BY RowRead DEF Offer, At, Handling, Entered, SelfOps
<1>2. secrets \in 0..MaxSecret /\ MaxSecret \in Nat BY IdentityConstants DEF TypeInv, TypeOK
<1>3. \/ UNCHANGED <<secrets, session>>
      \/ /\ secrets < MaxSecret /\ secrets' = secrets + 1
         /\ session' = [session EXCEPT ![proc[p].s].offer = secrets + 1]
  BY DEF Offer
<1>4. secrets' \in 0..MaxSecret /\ SessionsTyped BY <1>1, <1>2, <1>3, SameSessions, OfferTyped
<1> QED BY <1>4, DoneTyped, SessionStep DEF Offer, TypeInv, TypeOK

LEMMA ConfirmTyped == ASSUME TypeInv, NEW p \in Proc, Confirm(p) PROVE TypeInv'
<1>1. /\ proc[p] \in Request /\ proc[p].acc \in Account /\ proc[p].row \in Row /\ Handling(proc[p])
      /\ proc[p].pc = "confirm"
  BY RowRead DEF Confirm, At
<1> DEFINE refused == proc[p].row.offer = 0 \/ Cardinality(proc[p].acc.devices) >= DeviceLimit
           new == WithDevice(proc[p].acc, proc[p].row.offer)
           h == [proc[p] EXCEPT !.pc = "clear"]
<1>2. CASE refused
  BY <1>2, DoneTyped, WriteStep DEF Confirm, TypeInv, TypeOK
<1>3. CASE ~refused
  <2>1. sets < MaxCode /\ Save(p, new) /\ Generates(p, proc[p].acc) /\ Goto(p, IF Matches(p) THEN h ELSE Idle)
    BY <1>3 DEF Confirm
  <2>2. proc[p].row.offer \in Secret BY <1>1, <1>3, IdentityConstants DEF Row, Secret
  <2>3. new \in Account /\ new.sv = proc[p].acc.sv BY <1>1, <2>1, <2>2, WithDeviceTyped
  <2>4. Matches(p) => proc[p].acc.sv <= account.version BY <1>1, RowRead DEF Reads, SelfOps
  <2>5. sets' \in 0..MaxCode BY <2>1, GeneratesTyped
  <2>6. h \in Request /\ Handling(h) BY <1>1 DEF Request, Pcs, Handling, Entered, Reads, SelfOps, AdminOps
  <2>7. Goto(p, h) \/ Goto(p, Idle) BY <2>1
  <2> HIDE DEF new, h, refused
  <2>8. account' \in Account /\ Bounded(account')
    BY <2>1, <2>3, <2>4, SaveTyped, IdentityConstants DEF Account, TypeInv, TypeOK
  <2> QED BY <2>5, <2>6, <2>7, <2>8, IdleTyped, WriteStep DEF Confirm, TypeInv, TypeOK
<1> QED BY <1>2, <1>3

LEMMA ClearOfferTyped == ASSUME TypeInv, NEW p \in Proc, ClearOffer(p) PROVE TypeInv'
<1>1. proc[p].s \in Session /\ session[proc[p].s].pending = "none"
  BY RowRead DEF ClearOffer, At, Handling, Entered
<1>2. 0 \in 0..MaxSecret BY IdentityConstants
<1>3. SessionsTyped BY <1>1, <1>2, SameSessions, OfferTyped DEF ClearOffer
<1> QED BY <1>3, DoneTyped, SessionStep DEF ClearOffer, TypeInv, TypeOK

LEMMA RemoveTyped == ASSUME TypeInv, NEW p \in Proc, Remove(p) PROVE TypeInv'
<1>1. proc[p].acc \in Account /\ proc[p].pc = "remove" BY RowRead DEF Remove, At
<1>2. Matches(p) => proc[p].acc.sv <= account.version BY <1>1, RowRead DEF Reads, SelfOps
<1> DEFINE Less(d) == [proc[p].acc EXCEPT !.devices = proc[p].acc.devices \ {d},
                                          !.codes = IF proc[p].acc.devices \ {d} = {} THEN {} ELSE @]
<1>3. UNCHANGED account \/ \E d \in proc[p].acc.devices : Save(p, Less(d)) BY DEF Remove
<1>4. ASSUME NEW d PROVE Less(d) \in Account /\ Less(d).sv = proc[p].acc.sv
  <2>1. proc[p].acc.devices \ {d} \in SUBSET Secret BY <1>1 DEF Account
  <2> QED BY <1>1, <2>1 DEF Account
<1> HIDE DEF Less
<1>5. account' \in Account /\ Bounded(account')
  BY <1>2, <1>3, <1>4, SaveTyped, IdentityConstants DEF Account, TypeInv, TypeOK
<1> QED BY <1>5, DoneTyped, WriteStep DEF Remove, TypeInv, TypeOK

LEMMA RegenerateTyped == ASSUME TypeInv, NEW p \in Proc, Regenerate(p) PROVE TypeInv'
<1>1. proc[p].acc \in Account /\ proc[p].pc = "regenerate" BY RowRead DEF Regenerate, At
<1>2. Matches(p) => proc[p].acc.sv <= account.version BY <1>1, RowRead DEF Reads, SelfOps
<1> DEFINE new == [proc[p].acc EXCEPT !.codes = {sets + 1}]
<1>3. sets + 1 \in Code /\ sets' \in 0..MaxCode
  BY IdentityConstants DEF Regenerate, TypeInv, TypeOK, Code
<1>4. {sets + 1} \in SUBSET Code BY <1>3
<1>5. new \in Account /\ new.sv = proc[p].acc.sv /\ Save(p, new) BY <1>1, <1>4 DEF Account, Regenerate
<1> HIDE DEF new
<1>6. account' \in Account /\ Bounded(account')
  BY <1>2, <1>5, SaveTyped, IdentityConstants DEF Account, TypeInv, TypeOK
<1> QED BY <1>3, <1>6, DoneTyped, WriteStep DEF Regenerate, TypeInv, TypeOK

LEMMA RevokeTyped == ASSUME TypeInv, NEW p \in Proc, Revoke(p) PROVE TypeInv'
<1>1. PICK s \in Sessions :
        Goto(p, [Idle EXCEPT !.pc = "kill", !.kill = IF At(p, "revoke") THEN {s} ELSE Sessions \ {proc[p].s}])
  BY DEF Revoke
<1> DEFINE kill == IF At(p, "revoke") THEN {s} ELSE Sessions \ {proc[p].s}
           h == [Idle EXCEPT !.pc = "kill", !.kill = kill]
<1>2. kill \in SUBSET Session BY DEF Sessions
<1>3. Goto(p, h) BY <1>1
<1> HIDE DEF kill
<1>4. h \in Request BY <1>2, IdleTyped DEF Request, Pcs, Idle
<1>5. Handling(h) BY IdleTyped DEF Idle, Handling, Offered, Unused, Entered, SelfOps, Reads, AdminOps
<1> QED BY <1>3, <1>4, <1>5, RequestStep DEF Revoke

\* A set of sessions that is not empty has a first one.
LEMMA FirstSession ==
    ASSUME NEW S \in SUBSET Session, S # {} PROVE Min(S) \in S
<1>1. S \subseteq Nat BY IdentityConstants DEF Session
<1>2. \E x \in S : \A y \in S : ~(<<y, x>> \in OpToRel(<, Nat))
  BY <1>1, NatLessThanWellFounded, WFMin
<1>3. \A x, y \in Nat : y < x => <<y, x>> \in OpToRel(<, Nat) BY DEF OpToRel
<1>4. \A x, y \in Nat : x =< y \/ y < x OBVIOUS
<1>5. \E x \in S : \A y \in S : x =< y BY <1>1, <1>2, <1>3, <1>4
<1> QED BY <1>5 DEF Min

LEMMA KillTyped == ASSUME TypeInv, NEW p \in Proc, Kill(p) PROVE TypeInv'
<1>1. proc[p] \in Request /\ proc[p].kill \in SUBSET Session /\ Handling(proc[p]) /\ proc[p].pc = "kill"
  BY RowRead DEF Request, Kill, At
<1>2. CASE proc[p].kill = {}
  BY <1>2, DoneTyped, SameSessions, SessionStep DEF Kill, TypeInv, TypeOK
<1>3. CASE proc[p].kill # {}
  <2> DEFINE s == Min(proc[p].kill)
             h == [proc[p] EXCEPT !.kill = @ \ {s}]
  <2>1. End(s) /\ revoked' = revoked \cup {s} /\ Goto(p, h) BY <1>3 DEF Kill
  <2>2. s \in Session BY <1>1, <1>3, FirstSession
  <2> HIDE DEF s
  <2>3. proc[p].kill \ {s} \in SUBSET Session BY <1>1
  <2>4. h \in Request /\ Handling(h) BY <1>1, <2>3 DEF Request, Pcs, Handling, Entered, Reads, SelfOps, AdminOps
  <2>5. SessionsTyped BY <2>1, EndTyped
  <2> QED BY <2>1, <2>2, <2>4, <2>5, SessionStep DEF Kill, TypeInv, TypeOK
<1> QED BY <1>2, <1>3

LEMMA AdminReadTyped == ASSUME TypeInv, NEW p \in Proc, AdminRead(p) PROVE TypeInv'
<1>1. PICK op \in AdminOps : Goto(p, [Idle EXCEPT !.pc = op, !.acc = account]) BY DEF AdminRead
<1> DEFINE h == [Idle EXCEPT !.pc = op, !.acc = account]
<1>2. account \in Account /\ Bounded(account) BY DEF TypeInv, TypeOK
<1>3. h \in Request BY <1>2, IdleTyped DEF Request, Pcs, Idle
<1>4. h.pc = op /\ h.acc = account /\ h.row = Unused BY DEF Idle
<1>5. op \notin {"slide", "clear"} \cup SelfOps BY DEF AdminOps, SelfOps
<1> HIDE DEF h
<1>6. Handling(h) BY <1>2, <1>4, <1>5 DEF Handling, Offered, Unused, Entered
<1>7. Goto(p, h) BY <1>1 DEF h
<1> QED BY <1>3, <1>6, <1>7, RequestStep DEF AdminRead

LEMMA PatchTyped == ASSUME TypeInv, NEW p \in Proc, Patch(p) PROVE TypeInv'
<1>1. PICK op \in {"disable", "enable", "promote", "demote", "require", "exempt"} :
        /\ At(p, op) /\ Save(p, Patched(op, proc[p].acc))
        /\ era' = IF Matches(p) /\ op = "promote" /\ ~proc[p].acc.senior THEN era + 1 ELSE era
  BY DEF Patch
<1>2. proc[p].acc \in Account BY RowRead
<1>3. Matches(p) => proc[p].acc.sv <= account.version BY <1>1, RowRead DEF At, Reads, AdminOps
<1> DEFINE new == Patched(op, proc[p].acc)
<1>4. /\ new \in [there : BOOLEAN, active : BOOLEAN, senior : BOOLEAN, required : {"unset", "on", "off"},
                  version : 0..MaxVersion,
                  sv : Nat, devices : SUBSET Secret, codes : SUBSET Code]
      /\ new.sv <= proc[p].acc.sv + 1
  <2> DEFINE acc == proc[p].acc
             sv == IF acc.senior THEN acc.sv ELSE acc.sv + 1
  <2>1. \/ new = [acc EXCEPT !.active = FALSE] \/ new = [acc EXCEPT !.active = TRUE]
        \/ new = [acc EXCEPT !.senior = TRUE, !.sv = sv] \/ new = [acc EXCEPT !.senior = FALSE]
        \/ new = [acc EXCEPT !.required = "on"] \/ new = [acc EXCEPT !.required = "off"]
    BY DEF Patched
  <2>2. acc.sv \in Nat /\ sv \in Nat /\ sv <= acc.sv + 1 /\ acc.sv <= acc.sv + 1
    BY <1>2, IdentityConstants DEF Account
  <2> HIDE DEF new, sv
  <2> QED BY <1>2, <2>1, <2>2 DEF Account
<1> HIDE DEF new
<1>5. account.version \in Nat /\ proc[p].acc.sv \in Nat BY <1>2, IdentityConstants DEF TypeInv, TypeOK, Account
<1>6. Save(p, new) BY <1>1 DEF new
<1>7. account' \in Account /\ Bounded(account') BY <1>3, <1>4, <1>5, <1>6, SaveTyped
<1>8. era' \in Nat BY <1>1 DEF TypeInv, TypeOK
<1> QED BY <1>7, <1>8, DoneTyped, WriteStep DEF Patch, TypeInv, TypeOK

LEMMA ExpelTyped == ASSUME TypeInv, NEW p \in Proc, Expel(p) PROVE TypeInv'
<1> DEFINE acc == [proc[p].acc EXCEPT !.sv = @ + 1]
           bare == [acc EXCEPT !.devices = {}, !.codes = {}]
           h == [Idle EXCEPT !.pc = "sweep"]
<1>1. /\ proc[p].pc \in {"reset", "revokeAll", "resetPassword"}
      /\ Save(p, acc) \/ Save(p, bare)
      /\ era' \in {era, era + 1} /\ (Goto(p, h) \/ Goto(p, Idle))
  BY DEF Expel, At
<1>2. proc[p].acc \in Account BY RowRead
<1>3. Matches(p) => proc[p].acc.sv <= account.version BY <1>1, RowRead DEF Reads, AdminOps
<1>4. \A new \in {acc, bare} :
         /\ new \in [there : BOOLEAN, active : BOOLEAN, senior : BOOLEAN, required : {"unset", "on", "off"},
                     version : 0..MaxVersion,
                     sv : Nat, devices : SUBSET Secret, codes : SUBSET Code]
         /\ new.sv = proc[p].acc.sv + 1
  <2>1. /\ acc \in [there : BOOLEAN, active : BOOLEAN, senior : BOOLEAN, required : {"unset", "on", "off"},
                     version : 0..MaxVersion,
                     sv : Nat, devices : SUBSET Secret, codes : SUBSET Code]
        /\ acc.sv = proc[p].acc.sv + 1
    BY <1>2, IdentityConstants DEF Account
  <2> HIDE DEF acc
  <2>2. {} \in SUBSET Secret /\ {} \in SUBSET Code OBVIOUS
  <2> QED BY <2>1, <2>2
<1>5. h \in Request /\ Handling(h)
  BY IdleTyped DEF Request, Pcs, Idle, Handling, Offered, Unused, Entered, SelfOps, Reads, AdminOps
<1> HIDE DEF acc, bare, h
<1>6. account.version \in Nat /\ proc[p].acc.sv \in Nat BY <1>2, IdentityConstants DEF TypeInv, TypeOK, Account
<1>7. account' \in Account /\ Bounded(account') BY <1>1, <1>3, <1>4, <1>6, SaveTyped
<1>8. era' \in Nat BY <1>1 DEF TypeInv, TypeOK
<1> QED BY <1>1, <1>5, <1>7, <1>8, IdleTyped, WriteStep DEF Expel, TypeInv, TypeOK

LEMMA DeleteTyped == ASSUME TypeInv, NEW p \in Proc, Delete(p) PROVE TypeInv'
<1> DEFINE h == [Idle EXCEPT !.pc = "sweep"]
<1>1. h \in Request /\ Handling(h)
  BY IdleTyped DEF Request, Pcs, Idle, Handling, Offered, Unused, Entered, SelfOps, Reads, AdminOps
<1>2. account' \in Account /\ Bounded(account') BY DEF Delete, TypeInv, TypeOK, Account, Bounded
<1>3. Goto(p, h) /\ era' \in Nat /\ sets' \in 0..MaxCode BY DEF Delete, TypeInv, TypeOK
<1> HIDE DEF h
<1> QED BY <1>1, <1>2, <1>3, WriteStep DEF Delete

LEMMA KillAllTyped == ASSUME TypeInv, NEW p \in Proc, KillAll(p) PROVE TypeInv'
<1> DEFINE h == [Idle EXCEPT !.pc = "kill", !.kill = Sessions]
<1>1. Sessions \in SUBSET Session BY DEF Sessions
<1>2. h \in Request BY <1>1, IdleTyped DEF Request, Pcs, Idle
<1>3. Handling(h) BY IdleTyped DEF Idle, Handling, Offered, Unused, Entered, SelfOps, Reads, AdminOps
<1> QED BY <1>2, <1>3, RequestStep DEF KillAll

\* Steps of nobody's request.
LEMMA NobodyTyped ==
    ASSUME TypeInv, UNCHANGED <<mix, proc, secrets, sets, era, revoked, bought>>,
           account' \in Account, Bounded(account'), SessionsTyped
    PROVE  TypeInv'
<1>1. \A p \in Proc : Handling(proc[p])' BY DEF TypeInv, Handling, SessionsTyped
<1> QED BY <1>1 DEF TypeInv, TypeOK, SessionsTyped

\* Every step keeps the types, and what they rest on.
THEOREM TypesKept == TypeInv /\ [Next]_vars => TypeInv'
<1> SUFFICES ASSUME TypeInv, [Next]_vars PROVE TypeInv' OBVIOUS
<1>1. ASSUME NEW p \in Proc, SigningIn(p) PROVE TypeInv'
  BY <1>1, LoginReadTyped, MissTyped, LoginWriteTyped, FactorReadTyped, FactorWriteTyped, DropTyped, MintTyped
  DEF SigningIn
<1>2. ASSUME NEW p \in Proc, Self(p) PROVE TypeInv'
  BY <1>2, EnterTyped, SlideTyped, ChangePasswordTyped, ReauthTyped, StampTyped, OfferStepTyped, ConfirmTyped,
     ClearOfferTyped, RemoveTyped, RegenerateTyped, RevokeTyped, KillTyped
  DEF Self
<1>3. ASSUME NEW p \in Proc, Admin(p) PROVE TypeInv'
  BY <1>3, AdminReadTyped, PatchTyped, ExpelTyped, DeleteTyped, KillAllTyped DEF Admin
<1>4. ASSUME NEW s \in Session, SignOut(s) PROVE TypeInv'
  BY <1>4, EndTyped, NobodyTyped DEF SignOut, TypeInv, TypeOK
<1>5. ASSUME Cool PROVE TypeInv'
  BY <1>5, FreshTyped, NobodyTyped DEF Cool, TypeInv, TypeOK
<1>6. ASSUME Enrol PROVE TypeInv'
  <2>1. Bounded(Blank) BY DEF Bounded, Blank
  <2> QED BY <1>6, <2>1, IdleTyped, SameSessions, NobodyTyped DEF Enrol
<1>7. ASSUME UNCHANGED vars PROVE TypeInv'
  BY <1>7, SameSessions, NobodyTyped DEF vars, TypeInv, TypeOK
<1> QED BY <1>1, <1>2, <1>3, <1>4, <1>5, <1>6, <1>7 DEF Next

\* The account, its sessions and the requests under way are well typed.
THEOREM TypeCorrect == Spec => []TypeOK
<1>1. TypeInv => TypeOK BY DEF TypeInv
<1> QED BY InitialTypes, TypesKept, <1>1, PTL DEF Spec
-----------------------------------------------------------------------------
(* What a step may do to the row, to a session and to a code.              *)

\* The row stays, or moves on one version by a request that had read it as it
\* is, or goes.
RowStays == UNCHANGED <<account, era, sets>>
RowMoves ==
    /\ account'.required = "unset" => account.required = "unset"
    /\ account.there /\ account'.there /\ account'.version = account.version + 1
    /\ \/ era' = era /\ account'.sv = account.sv /\ (account'.senior => account.senior)
       \/ era' = era + 1 /\ account'.sv = account.sv + 1
    /\ \/ sets' = sets /\ account'.codes \subseteq account.codes
       \/ sets' = sets + 1 /\ account'.codes \subseteq account.codes \cup {sets + 1}
RowGoes ==
    /\ account'.required = account.required
    /\ ~account'.there /\ "delete" \in mix.ops /\ era' = era + 1
    /\ account'.version = account.version /\ account'.codes = account.codes /\ sets' = sets
RowStep == RowStays \/ RowMoves \/ RowGoes

\* A session that is live was, with the same rights, or is minted by p.
SessionsStep(p) ==
    \A s \in Session : session'[s].state = "live" =>
        \/ /\ Live(s) /\ session'[s].sv = session[s].sv /\ session'[s].era = session[s].era
           /\ session'[s].pending = session[s].pending /\ session'[s].factor = session[s].factor
        \/ /\ At(p, "mint") /\ session'[s].sv = proc[p].acc.sv /\ session'[s].era = proc[p].era
           /\ session'[s].pending = proc[p].pending /\ session'[s].factor = proc[p].factor
RevokedStep ==
    \A s \in revoked' : session'[s].state = "gone"
BoughtStep(p, h) ==
    \/ bought' = bought
    \/ /\ At(p, "mint") /\ h.code = 0
       /\ \A c \in Code : bought'[c] = IF c = proc[p].code THEN bought[c] + 1 ELSE bought[c]
\* A request about to mint has been so, or has just burned its code.
CodeStep(p, h) ==
    h.pc \in {"drop", "mint"} /\ h.code # 0 =>
        \/ proc[p].pc \in {"drop", "mint"} /\ proc[p].code = h.code
        \/ h.code \in account.codes

Alive == TypeInv /\ TypeInv' /\ Lived

LEMMA Arithmetic ==
    ASSUME TypeInv
    PROVE  /\ era \in Nat /\ sets \in Nat /\ account.version \in Nat /\ account.sv \in Nat
           /\ account.there \in BOOLEAN /\ account.senior \in BOOLEAN /\ account.codes \subseteq Code
           /\ \A s \in Session : session[s].era \in Nat /\ session[s].sv \in Nat
           /\ \A p \in Proc : /\ proc[p] \in Request /\ proc[p].acc \in Account
                              /\ proc[p].acc.version \in Nat /\ proc[p].acc.sv \in Nat
                              /\ proc[p].era \in Nat
           /\ \A c \in Code : bought[c] \in Nat /\ c \in Nat
<1>1. MaxVersion \in Nat /\ MaxCode \in Nat BY IdentityConstants
<1>2. era \in Nat /\ sets \in Nat /\ (\A c \in Code : bought[c] \in Nat /\ c \in Nat)
  BY <1>1 DEF TypeInv, TypeOK, Code
<1>3. account \in Account /\ \A s \in Session : session[s] \in Row BY DEF TypeInv, TypeOK
<1>4. \A p \in Proc : proc[p] \in Request /\ proc[p].acc \in Account BY DEF TypeInv, TypeOK, Request
<1>5. \A s \in Session : session[s].era \in Nat /\ session[s].sv \in Nat BY <1>1, <1>3 DEF Row
<1>6. \A p \in Proc : proc[p].acc.version \in Nat /\ proc[p].acc.sv \in Nat BY <1>1, <1>4 DEF Account
<1>7. \A p \in Proc : proc[p].era \in Nat BY <1>4 DEF Request
<1> QED BY <1>1, <1>2, <1>3, <1>4, <1>5, <1>6, <1>7 DEF Account

\* What the row does to its own history.
LEMMA RowLived ==
    ASSUME Alive, RowStep, mix' = mix PROVE Counted' /\ (~account'.there => "delete" \in mix.ops)
BY Arithmetic DEF Alive, Lived, RowStep, RowStays, RowMoves, RowGoes, Counted, Deletable

\* An administrator's word, once given, is only changed.
LEMMA HeldKept ==
    ASSUME RowStep, NEW f, Held(f) PROVE Held(f)'
BY DEF RowStep, RowStays, RowMoves, RowGoes, Held

\* What it leaves true of a request that did not move.
LEMMA OthersLocal ==
    ASSUME Alive, RowStep, NEW q \in Proc, proc'[q] = proc[q],
           proc[q].pc \in {"drop", "mint"} /\ proc[q].code # 0 => bought'[proc[q].code] = bought[proc[q].code]
    PROVE  Local(proc[q])'
<1> DEFINE h == proc[q]
<1>0. Local(h) /\ Counted BY DEF Alive, Lived
<1>1. TypeInv BY DEF Alive
<1>2. VersionRead(h)'
  BY <1>0, <1>1, Arithmetic DEF Local, VersionRead, RowStep, RowStays, RowMoves, RowGoes
<1>3. Buys(h)'
  BY <1>0, <1>1, Arithmetic DEF Local, Buys, Dated, RowStep, RowStays, RowMoves, RowGoes
<1>4. WillPass(h)'
  <2>1. h.pc = "mint" => h.era <= era BY <1>0 DEF Local, Buys, Dated, Minting
  <2>2. Held(h.factor) => Held(h.factor)' BY HeldKept
  <2> QED BY <1>0, <1>1, <2>1, <2>2, Arithmetic DEF Local, WillPass, RowStep, RowStays, RowMoves, RowGoes
<1>5. Burns(h)'
  <2>1. Burns(h) /\ h.code \in Nat BY <1>0, <1>1, Arithmetic, IdentityConstants DEF Local, Request
  <2>2. h.pc \in {"drop", "mint"} /\ h.code # 0 => Burned(h.code)'
    BY <1>1, <2>1, Arithmetic DEF Burns, Burned, RowStep, RowStays, RowMoves, RowGoes
  <2> QED BY <2>1, <2>2 DEF Burns
<1> QED BY <1>2, <1>3, <1>4, <1>5 DEF Local

\* What it leaves true of the sessions.
LEMMA SessionsLived ==
    ASSUME Alive, RowStep, NEW p \in Proc, SessionsStep(p), NEW s \in Session
    PROVE  Bought(s)' /\ Passed(s)'
<1>1. TypeInv /\ Bought(s) /\ Passed(s) /\ Local(proc[p]) BY DEF Alive, Lived
<1>2. era' >= era /\ era' \in Nat /\ era \in Nat
  BY <1>1, Arithmetic DEF RowStep, RowStays, RowMoves, RowGoes
<1>3. (account'.there /\ account'.senior /\ era' = era) => account.there /\ account.senior
  BY <1>1, Arithmetic DEF RowStep, RowStays, RowMoves, RowGoes
<1>4. SUFFICES ASSUME session'[s].state = "live" PROVE Bought(s)' /\ Passed(s)'
  BY DEF Bought, Passed, Live
<1>5. CASE /\ Live(s) /\ session'[s].sv = session[s].sv /\ session'[s].era = session[s].era
           /\ session'[s].pending = session[s].pending /\ session'[s].factor = session[s].factor
  <2>1. Dated(session[s].sv, session[s].era) BY <1>1, <1>5 DEF Bought
  <2>2. Held(session[s].factor) => Held(session[s].factor)' BY <1>5, HeldKept DEF Held
  <2> QED BY <1>1, <1>2, <1>3, <1>5, <2>1, <2>2, Arithmetic DEF Bought, Passed, Dated, Live
<1>6. CASE /\ At(p, "mint") /\ session'[s].sv = proc[p].acc.sv /\ session'[s].era = proc[p].era
           /\ session'[s].pending = proc[p].pending /\ session'[s].factor = proc[p].factor
  <2>1. Dated(proc[p].acc.sv, proc[p].era) BY <1>1, <1>6 DEF Local, Buys, At, Minting
  <2>2. Held(proc[p].factor) => Held(session[s].factor)' BY <1>6, HeldKept DEF Held
  <2> QED BY <1>1, <1>2, <1>3, <1>6, <2>1, <2>2, Arithmetic DEF Bought, Passed, Dated, Live, Local, WillPass, At
<1> QED BY <1>4, <1>5, <1>6 DEF SessionsStep

\* What it leaves true of the codes.
LEMMA CodesLived ==
    ASSUME Alive, RowStep, NEW p \in Proc, NEW h, Goto(p, h), BoughtStep(p, h), CodeStep(p, h)
    PROVE  Codes'
<1>0. TypeInv /\ Codes /\ \A q \in Proc : Local(proc[q]) BY DEF Alive, Lived
<1>1. proc'[p] = h /\ \A q \in Proc \ {p} : proc'[q] = proc[q] BY <1>0 DEF TypeInv, TypeOK, Goto
<1>2. account'.codes \subseteq 1..sets'
  BY <1>0, Arithmetic DEF Codes, RowStep, RowStays, RowMoves, RowGoes
<1>3. ASSUME NEW c \in Code, Burned(c) PROVE Burned(c)'
  BY <1>0, <1>3, Arithmetic DEF Burned, RowStep, RowStays, RowMoves, RowGoes
<1>4. \A c \in Code : bought'[c] <= 1 /\ (bought'[c] = 1 => Burned(c)')
  <2> SUFFICES ASSUME NEW c \in Code PROVE bought'[c] <= 1 /\ (bought'[c] = 1 => Burned(c)') OBVIOUS
  <2>1. bought[c] <= 1 /\ (bought[c] = 1 => Burned(c)) /\ bought[c] \in Nat BY <1>0, Arithmetic DEF Codes
  <2>2. CASE bought'[c] = bought[c] BY <2>1, <2>2, <1>3
  <2>3. CASE At(p, "mint") /\ c = proc[p].code /\ bought'[c] = bought[c] + 1
    <3>1. c # 0 BY IdentityConstants DEF Code
    <3>2. Burned(c) /\ bought[c] = 0 BY <1>0, <2>3, <3>1 DEF Local, Burns, At
    <3> QED BY <2>3, <3>2, <1>3
  <2> QED BY <2>2, <2>3 DEF BoughtStep
<1>5. ASSUME NEW q \in Proc, NEW r \in Proc, q # r,
             proc'[q].pc \in {"drop", "mint"}, proc'[r].pc \in {"drop", "mint"}, proc'[q].code # 0
      PROVE  proc'[q].code # proc'[r].code
  <2>1. ASSUME NEW t \in Proc, t # p, proc[t].pc \in {"drop", "mint"}, proc[t].code # 0,
               h.pc \in {"drop", "mint"}, h.code # 0
        PROVE  proc[t].code # h.code
    <3>1. Burned(proc[t].code) BY <1>0, <2>1 DEF Local, Burns
    <3>2. CASE h.code \in account.codes BY <3>1, <3>2 DEF Burned
    <3>3. CASE proc[p].pc \in {"drop", "mint"} /\ proc[p].code = h.code BY <1>0, <2>1, <3>3 DEF Codes
    <3> QED BY <2>1, <3>2, <3>3 DEF CodeStep
  <2>2. CASE q = p
    <3>1. CASE proc'[r].code = 0 BY <1>5, <3>1
    <3>2. CASE proc'[r].code # 0 BY <1>1, <1>5, <2>1, <2>2, <3>2
    <3> QED BY <3>1, <3>2
  <2>3. CASE r = p
    <3>1. CASE h.code = 0 BY <1>1, <1>5, <2>3, <3>1
    <3>2. CASE h.code # 0 BY <1>1, <1>5, <2>1, <2>3, <3>2
    <3> QED BY <3>1, <3>2
  <2>4. CASE q # p /\ r # p BY <1>0, <1>1, <1>5, <2>4 DEF Codes
  <2> QED BY <2>2, <2>3, <2>4
<1> QED BY <1>2, <1>4, <1>5 DEF Codes

\* A step that moves one request, and what it must see to.
LEMMA LivedStep ==
    ASSUME Alive, RowStep, mix' = mix, NEW p \in Proc, NEW h, Goto(p, h),
           SessionsStep(p), RevokedStep, BoughtStep(p, h), CodeStep(p, h), Local(h)',
           h.pc = "delete" => "delete" \in mix.ops
    PROVE  Lived'
<1>0. TypeInv /\ Lived BY DEF Alive
<1>1. proc'[p] = h /\ \A q \in Proc \ {p} : proc'[q] = proc[q] BY <1>0 DEF TypeInv, TypeOK, Goto
<1>2. Counted' /\ (~account'.there => "delete" \in mix.ops) BY RowLived
<1>3. Deletable' BY <1>0, <1>1, <1>2 DEF Lived, Deletable
<1>4. Codes' BY CodesLived
<1>5. \A s \in Session : Bought(s)' /\ Passed(s)' BY SessionsLived
<1>6. ASSUME NEW q \in Proc PROVE Local(proc[q])'
  <2>1. CASE q = p BY <1>1, <2>1
  <2>2. CASE q # p
    <3>1. ASSUME proc[q].pc \in {"drop", "mint"}, proc[q].code # 0
          PROVE  bought'[proc[q].code] = bought[proc[q].code]
      <4>1. proc[q].code \in Code BY <1>0, <3>1, Arithmetic, IdentityConstants DEF Request, Code
      <4>2. At(p, "mint") => proc[p].code # proc[q].code BY <1>0, <2>2, <3>1 DEF Lived, Codes, At
      <4> QED BY <4>1, <4>2 DEF BoughtStep
    <3> QED BY <1>1, <2>2, <3>1, OthersLocal
  <2> QED BY <2>1, <2>2
<1> QED BY <1>2, <1>3, <1>4, <1>5, <1>6 DEF Lived, RevokedStep
-----------------------------------------------------------------------------
(* Every step keeps the history straight.                                  *)

LEMMA Still ==
    ASSUME Alive, NEW p \in Proc, session' = session, revoked' = revoked, bought' = bought
    PROVE  SessionsStep(p) /\ RevokedStep /\ \A h : BoughtStep(p, h)
<1>1. \A s \in Session : session'[s] = session[s] OBVIOUS
<1>2. SessionsStep(p) BY <1>1 DEF SessionsStep, Live
<1>3. RevokedStep BY <1>1 DEF RevokedStep, Alive, Lived, TypeInv, TypeOK
<1> QED BY <1>2, <1>3 DEF BoughtStep

\* Sessions that change in what gives no rights.
LEMMA Ended ==
    ASSUME Alive, NEW p \in Proc, NEW s, End(s), revoked' = revoked PROVE SessionsStep(p) /\ RevokedStep
<1>1. \A t \in Session : session[t] \in Row BY DEF Alive, TypeInv, TypeOK
<1>2. \A t \in Session : IF t = s THEN session'[t].state = "gone" ELSE session'[t] = session[t]
  BY <1>1 DEF Alive, TypeInv, TypeOK, End, Row
<1>3. SessionsStep(p) BY <1>2 DEF SessionsStep, Live
<1> QED BY <1>2, <1>3 DEF RevokedStep, Alive, Lived, TypeInv, TypeOK

LEMMA Touched ==
    ASSUME Alive, NEW p \in Proc, NEW s, NEW b,
           \/ session' = session
           \/ session' = [session EXCEPT ![s].fresh = b]
           \/ session' = [session EXCEPT ![s].offer = b],
           revoked' = revoked
    PROVE  SessionsStep(p) /\ RevokedStep
<1>1. \A t \in Session : session[t] \in Row BY DEF Alive, TypeInv, TypeOK
<1>2. \A t \in Session : /\ session'[t].state = session[t].state /\ session'[t].sv = session[t].sv
                         /\ session'[t].pending = session[t].pending
                         /\ session'[t].era = session[t].era /\ session'[t].factor = session[t].factor
  BY <1>1 DEF Alive, TypeInv, TypeOK, Row
<1> QED BY <1>2 DEF SessionsStep, RevokedStep, Live, Alive, Lived, TypeInv, TypeOK

LEMMA IdleLocal == Local(Idle)' /\ Idle.code = 0 /\ Idle.pc = "idle"
BY DEF Idle, Local, VersionRead, Buys, Minting, Entered, SelfOps, WillPass, Burns

\* A request that ends.
LEMMA EndsLived ==
    ASSUME Alive, RowStep, mix' = mix, NEW p \in Proc, Goto(p, Idle),
           SessionsStep(p), RevokedStep, bought' = bought
    PROVE  Lived'
BY IdleLocal, LivedStep DEF BoughtStep, CodeStep

\* A request that goes on, with nothing else moved.
LEMMA RequestLived ==
    ASSUME Alive, OnlyRequests, NEW p \in Proc, NEW h, Goto(p, h), CodeStep(p, h), Local(h),
           h.pc = "delete" => "delete" \in mix.ops
    PROVE  Lived'
<1>1. Local(h)' BY DEF OnlyRequests, Local, VersionRead, Buys, Dated, WillPass, Held, Burns, Burned
<1>2. RowStep BY DEF OnlyRequests, RowStep, RowStays
<1> QED BY <1>1, <1>2, Still, LivedStep DEF OnlyRequests

\* A matching row is the one that was read.
LEMMA RowMatched ==
    ASSUME Alive, NEW p \in Proc, proc[p].pc \notin {"idle", "kill", "sweep"}, Matches(p)
    PROVE  proc[p].acc = account /\ account.there /\ account.sv = era + 1
BY DEF Alive, Lived, Local, VersionRead, Matches, Counted

\* A guarded write moves the row, or nothing.
Wide == [there : BOOLEAN, active : BOOLEAN, senior : BOOLEAN, required : {"unset", "on", "off"},
         version : 0..MaxVersion,
         sv : Nat, devices : SUBSET Secret, codes : SUBSET Code]
Lawful(acc) ==
    /\ acc.there
    /\ acc.required = "unset" => account.required = "unset"
    /\ \/ era' = era /\ acc.sv = account.sv /\ (acc.senior => account.senior)
       \/ era' = era + 1 /\ acc.sv = account.sv + 1
    /\ \/ sets' = sets /\ acc.codes \subseteq account.codes
       \/ sets' = sets + 1 /\ acc.codes \subseteq account.codes \cup {sets + 1}
LEMMA SaveLived ==
    ASSUME Alive, NEW p \in Proc, proc[p].pc \notin {"idle", "kill", "sweep"}, NEW acc, Save(p, acc),
           Matches(p) => acc \in Wide /\ Lawful(acc),
           ~Matches(p) => era' = era /\ sets' = sets
    PROVE  /\ RowStep
           /\ Matches(p) => /\ RowMoves /\ proc[p].acc = account /\ proc[p].acc.version < account'.version
                            /\ account'.senior = acc.senior /\ account'.codes = acc.codes
                            /\ account'.required = acc.required
<1>1. CASE ~Matches(p) BY <1>1 DEF Save, RowStep, RowStays
<1>2. CASE Matches(p)
  <2>1. proc[p].acc = account BY <1>2, RowMatched
  <2>2. account.version \in Nat BY Arithmetic DEF Alive
  <2>3. account' = [acc EXCEPT !.version = account.version + 1] BY <1>2, <2>1 DEF Save
  <2>4. /\ account'.there = acc.there /\ account'.version = account.version + 1 /\ account'.sv = acc.sv
        /\ account'.senior = acc.senior /\ account'.codes = acc.codes
        /\ account'.required = acc.required
    BY <1>2, <2>3 DEF Wide
  <2>5. account.there BY <1>2 DEF Matches
  <2>6. RowMoves BY <1>2, <2>4, <2>5 DEF Lawful, RowMoves
  <2> QED BY <2>1, <2>2, <2>4, <2>6 DEF RowStep
<1> QED BY <1>1, <1>2

\* Writing back what was read.
LEMMA SameLawful ==
    ASSUME Alive, NEW p \in Proc, proc[p].pc \notin {"idle", "kill", "sweep"}, Matches(p),
           era' = era, sets' = sets
    PROVE  proc[p].acc \in Wide /\ Lawful(proc[p].acc)
<1>1. proc[p].acc = account /\ account.there BY RowMatched
<1>2. account \in Account /\ MaxVersion \in Nat BY IdentityConstants DEF Alive, TypeInv, TypeOK
<1> QED BY <1>1, <1>2 DEF Wide, Account, Lawful

LEMMA LoginReadLived == ASSUME Alive, NEW p \in Proc, LoginRead(p) PROVE Lived'
<1>1. PICK pc \in {"login", "miss"} : Goto(p, [Idle EXCEPT !.pc = pc, !.acc = account, !.era = era])
  BY DEF LoginRead
<1> DEFINE h == [Idle EXCEPT !.pc = pc, !.acc = account, !.era = era]
<1>2. h.pc = pc /\ h.acc = account /\ h.era = era /\ h.code = 0 BY DEF Idle
<1>3. account.sv = era + 1 /\ era \in Nat BY Arithmetic DEF LoginRead, Alive, Lived, Counted
<1>4. account.version \in Nat BY Arithmetic DEF Alive
<1>5. Goto(p, h) BY <1>1
<1> HIDE DEF h
<1>6. Local(h) BY <1>2, <1>3, <1>4
  DEF Local, VersionRead, Buys, Dated, Minting, Entered, SelfOps, WillPass, Burns
<1> QED BY <1>2, <1>5, <1>6, RequestLived DEF LoginRead, CodeStep

LEMMA MissLived == ASSUME Alive, NEW p \in Proc, Miss(p) PROVE Lived'
<1>1. RowStep BY SameLawful, SaveLived DEF Miss, At
<1> QED BY <1>1, Still, EndsLived DEF Miss, Done

LEMMA LoginWriteLived == ASSUME Alive, NEW p \in Proc, LoginWrite(p) PROVE Lived'
<1> DEFINE acc == proc[p].acc
           pending == IF acc.devices # {} THEN "totp" ELSE IF needsTotp(acc) THEN "enroll" ELSE "none"
           factor == IF acc.required = "off" THEN "exempt" ELSE "none"
<1> PICK h : h = [proc[p] EXCEPT !.pc = "mint", !.pending = pending, !.factor = factor] OBVIOUS
<1>1. proc[p].pc = "login" /\ Save(p, acc) /\ Goto(p, IF ~Matches(p) THEN Idle ELSE h)
  BY DEF LoginWrite, At
<1>2. RowStep /\ (Matches(p) => /\ RowMoves /\ acc = account /\ acc.version < account'.version
                                /\ account'.senior = acc.senior /\ account'.required = acc.required)
  BY <1>1, SameLawful, SaveLived DEF LoginWrite
<1>3. CASE ~Matches(p) BY <1>1, <1>2, <1>3, Still, EndsLived DEF LoginWrite
<1>4. CASE Matches(p)
  <2>1. proc[p] \in Request /\ Local(proc[p]) /\ TypeInv BY Arithmetic DEF Alive, Lived
  <2>2. /\ h.pc = "mint" /\ h.acc = acc /\ h.era = proc[p].era /\ h.code = proc[p].code
        /\ h.pending = pending /\ h.factor = factor
    BY <2>1 DEF Request
  <2>3. h.code = 0 BY <1>1, <2>1, <2>2 DEF Local, Burns
  <2>4. h.pending = "none" /\ account'.senior => Held(h.factor)'
    <3>1. acc \in Account BY <2>1 DEF Request
    <3>2. acc.required = "on" \/ acc.required = "unset" \/ acc.required = "off" BY <3>1 DEF Account
    <3>3. account'.required = acc.required /\ account'.senior = acc.senior BY <1>2, <1>4
    <3>4. CASE acc.required = "off"
      <4>1. h.factor = "exempt" BY <2>2, <3>4
      <4> QED BY <3>3, <3>4, <4>1 DEF Held
    <3>5. CASE acc.required # "off" /\ acc.senior
      <4>1. needsTotp(acc) BY <3>2, <3>5 DEF needsTotp
      <4>2. pending # "none" BY <4>1
      <4> QED BY <2>2, <4>2
    <3> QED BY <3>3, <3>4, <3>5
  <2>5. Dated(acc.sv, proc[p].era) /\ era' = era BY <1>1, <2>1 DEF Local, Buys, Minting, LoginWrite
  <2> HIDE DEF pending, factor
  <2>6. Local(h)'
    <3>1. VersionRead(h)' BY <1>2, <1>4, <2>1, <2>2, Arithmetic DEF VersionRead, RowMoves
    <3>2. Buys(h)' BY <2>2, <2>5 DEF Buys, Dated
    <3>3. WillPass(h)' BY <2>2, <2>4 DEF WillPass, SelfOps
    <3>4. Burns(h)' BY <2>2, <2>3 DEF Burns
    <3> QED BY <3>1, <3>2, <3>3, <3>4 DEF Local
  <2> QED BY <1>1, <1>2, <1>4, <2>2, <2>3, <2>6, Still, LivedStep DEF LoginWrite, CodeStep
<1> QED BY <1>3, <1>4
LEMMA MintLived == ASSUME Alive, NEW p \in Proc, Mint(p) PROVE Lived'
<1> DEFINE Row1(offers) == [state |-> "live", sv |-> proc[p].acc.sv, pending |-> proc[p].pending,
                            offer |-> offers, fresh |-> FALSE, era |-> proc[p].era, factor |-> proc[p].factor]
<1>0. PICK s \in Session :
        \E offers : session[s].state = "unused" /\ session' = [session EXCEPT ![s] = Row1(offers)]
  BY DEF Mint
<1>1. PICK offers : session[s].state = "unused" /\ session' = [session EXCEPT ![s] = Row1(offers)]
  BY <1>0
<1>2. \A t \in Session : session'[t] = IF t = s THEN Row1(offers) ELSE session[t]
  BY <1>1 DEF Alive, TypeInv, TypeOK
<1>3. SessionsStep(p) BY <1>2 DEF SessionsStep, Live, Mint
<1>4. RevokedStep BY <1>1, <1>2 DEF RevokedStep, Mint, Alive, Lived, TypeInv, TypeOK
<1>5. BoughtStep(p, Idle) BY IdleLocal DEF BoughtStep, Mint
<1>6. RowStep BY DEF RowStep, RowStays, Mint
<1>7. CodeStep(p, Idle) BY IdleLocal DEF CodeStep
<1> QED BY <1>3, <1>4, <1>5, <1>6, <1>7, IdleLocal, LivedStep DEF Mint, Done

LEMMA FactorReadLived == ASSUME Alive, NEW p \in Proc, FactorRead(p) PROVE Lived'
<1> DEFINE Read(s) == [Idle EXCEPT !.pc = "factor", !.acc = account, !.s = s, !.row = session[s],
                                   !.era = session[s].era, !.factor = "passed"]
<1>1. PICK s \in Session :
        /\ Current(s)
        /\ \/ Goto(p, Read(s))
           \/ session[s].pending = "totp" /\ \E c \in account.codes : Goto(p, [Read(s) EXCEPT !.code = c])
           \/ Goto(p, [Read(s) EXCEPT !.pc = "miss"])
  BY DEF FactorRead
<1>0. PICK h : h = Read(s) OBVIOUS
<1>2. /\ h.pc = "factor" /\ h.acc = account /\ h.row = session[s] /\ h.pending = "none"
      /\ h.era = session[s].era /\ h.factor = "passed" /\ h.code = 0
  BY <1>0 DEF Idle
<1>9. {"pc", "acc", "row", "pending", "era", "factor", "code"} \subseteq DOMAIN h BY <1>0 DEF Idle
<1>3. Dated(account.sv, session[s].era) BY <1>1 DEF Alive, Lived, Bought, Current
<1>4. account.version \in Nat BY Arithmetic DEF Alive
<1> HIDE DEF Read
<1>5. ASSUME NEW k, k.pc \in {"factor", "miss"}, k.acc = account, k.row = session[s], k.pending = "none",
             k.era = session[s].era, k.factor = "passed",
             k.code # 0 => k.pc = "factor" /\ k.code \in account.codes /\ session[s].pending = "totp",
             Goto(p, k)
      PROVE  Lived'
  <2>1. Local(k) BY <1>3, <1>4, <1>5
    DEF Local, VersionRead, Buys, Minting, Entered, SelfOps, WillPass, Burns
  <2> QED BY <1>5, <2>1, RequestLived DEF FactorRead, CodeStep
<1>6. CASE Goto(p, h) BY <1>2, <1>5, <1>6
<1>7. CASE session[s].pending = "totp" /\ \E c \in account.codes : Goto(p, [h EXCEPT !.code = c])
  <2>3. PICK c \in account.codes : Goto(p, [h EXCEPT !.code = c]) BY <1>7
  <2>4. PICK k : k = [h EXCEPT !.code = c] OBVIOUS
  <2>1. /\ k.pc = "factor" /\ k.acc = account /\ k.row = session[s] /\ k.pending = "none"
        /\ k.era = session[s].era /\ k.factor = "passed" /\ k.code = c
    BY <1>2, <1>9, <2>4
  <2>2. Goto(p, k) BY <2>3, <2>4
  <2> QED BY <1>5, <1>7, <2>1, <2>2
<1>8. CASE Goto(p, [h EXCEPT !.pc = "miss"])
  <2>4. PICK k : k = [h EXCEPT !.pc = "miss"] OBVIOUS
  <2>1. /\ k.pc = "miss" /\ k.acc = account /\ k.row = session[s] /\ k.pending = "none"
        /\ k.era = session[s].era /\ k.factor = "passed" /\ k.code = 0
    BY <1>2, <1>9, <2>4
  <2>2. Goto(p, k) BY <1>8, <2>4
  <2> QED BY <1>5, <2>1, <2>2
<1> QED BY <1>0, <1>1, <1>6, <1>7, <1>8

\* A row with one more device, and its codes.
LEMMA WithDeviceLawful ==
    ASSUME Alive, NEW p \in Proc, proc[p].pc \notin {"idle", "kill", "sweep"}, Matches(p),
           NEW d \in Secret, sets < MaxCode, Generates(p, proc[p].acc), era' = era
    PROVE  WithDevice(proc[p].acc, d) \in Wide /\ Lawful(WithDevice(proc[p].acc, d))
<1>1. proc[p].acc = account /\ account.there BY RowMatched
<1>2. account \in Account /\ MaxVersion \in Nat BY IdentityConstants DEF Alive, TypeInv, TypeOK
<1> DEFINE new == WithDevice(account, d)
<1>3. /\ new \in Account /\ new.sv = account.sv /\ new.there = account.there /\ new.senior = account.senior
      /\ new.required = account.required
      /\ new.codes = IF account.devices = {} THEN {sets + 1} ELSE account.codes
  BY <1>2, WithDeviceTyped DEF Alive
<1> HIDE DEF new
<1>4. sets' = IF account.devices = {} THEN sets + 1 ELSE sets BY <1>1 DEF Generates
<1>5. new \in Wide BY <1>2, <1>3 DEF Wide, Account
<1>6. Lawful(new) BY <1>1, <1>3, <1>4 DEF Lawful
<1> QED BY <1>1, <1>5, <1>6 DEF new

LEMMA FactorWriteLived == ASSUME Alive, NEW p \in Proc, FactorWrite(p) PROVE Lived'
<1> DEFINE acc == proc[p].acc
           enrols == proc[p].row.pending = "enroll"
           new == IF enrols THEN WithDevice(acc, proc[p].row.offer)
                  ELSE [acc EXCEPT !.codes = acc.codes \ {proc[p].code}]
<1> PICK h : h = [proc[p] EXCEPT !.pc = "drop"] OBVIOUS
<1>1. /\ proc[p].pc = "factor" /\ Save(p, new) /\ Goto(p, IF Matches(p) THEN h ELSE Idle)
      /\ era' = era /\ (enrols => sets < MaxCode /\ Generates(p, acc)) /\ (~enrols => sets' = sets)
  BY DEF FactorWrite, At
<1>2. proc[p] \in Request /\ Local(proc[p]) /\ TypeInv /\ acc \in Account BY Arithmetic DEF Alive, Lived
<1>3. Matches(p) => acc = account /\ account.there BY <1>1, RowMatched
<1>4. Matches(p) => new \in Wide /\ Lawful(new)
  <2> SUFFICES ASSUME Matches(p) PROVE new \in Wide /\ Lawful(new) OBVIOUS
  <2>1. CASE enrols
    <3>1. proc[p].row.offer \in Secret
      BY <1>2, <2>1, RowRead, IdentityConstants DEF Handling, Offered, Row, Secret
    <3> QED BY <1>1, <2>1, <3>1, WithDeviceLawful
  <2>2. CASE ~enrols
    <3>1. new = [account EXCEPT !.codes = account.codes \ {proc[p].code}] BY <1>3, <2>2
    <3>2. account \in Account /\ MaxVersion \in Nat BY IdentityConstants DEF Alive, TypeInv, TypeOK
    <3>3. account.codes \ {proc[p].code} \in SUBSET Code BY <3>2 DEF Account
    <3> HIDE DEF new
    <3> QED BY <1>1, <1>3, <2>2, <3>1, <3>2, <3>3 DEF Wide, Lawful, Account
  <2> QED BY <2>1, <2>2
<1>5. ~Matches(p) => sets' = sets BY <1>1 DEF Generates
<1>6. ~enrols => new.codes = acc.codes \ {proc[p].code} BY <1>2 DEF Account
<1> HIDE DEF new
<1>7. RowStep /\ (Matches(p) => /\ RowMoves /\ acc.version < account'.version /\ account'.codes = new.codes)
  BY <1>1, <1>4, <1>5, SaveLived
<1>8. CASE ~Matches(p) BY <1>1, <1>7, <1>8, Still, EndsLived DEF FactorWrite
<1>9. CASE Matches(p)
  <2>1. /\ h.pc = "drop" /\ h.acc = acc /\ h.era = proc[p].era /\ h.code = proc[p].code
        /\ h.factor = proc[p].factor /\ h.pending = proc[p].pending
    BY <1>2 DEF Request
  <2>2. h.code # 0 => h.code \in account.codes /\ ~enrols BY <1>1, <1>2, <1>3, <1>9, <2>1 DEF Local, Burns
  <2>3. h.code # 0 => Burned(h.code)' /\ bought'[h.code] = 0
    <3> SUFFICES ASSUME h.code # 0 PROVE Burned(h.code)' /\ bought'[h.code] = 0 OBVIOUS
    <3>1. h.code \in Code /\ Codes /\ account.codes \subseteq 1..sets
      BY <1>2, <2>2, Arithmetic DEF Alive, Lived, Codes
    <3>2. Burned(h.code)'
      BY <1>1, <1>3, <1>6, <1>7, <1>9, <2>1, <2>2, <3>1, <1>2, Arithmetic DEF Burned
    <3>3. ~Burned(h.code) BY <2>2 DEF Burned
    <3>4. bought[h.code] \in Nat /\ bought[h.code] <= 1 /\ bought[h.code] # 1
      BY <1>2, <3>1, <3>3, Arithmetic DEF Codes
    <3> QED BY <3>2, <3>4 DEF FactorWrite
  <2>4. Local(h)'
    <3>1. VersionRead(h)' BY <1>2, <1>7, <1>9, <2>1, Arithmetic DEF VersionRead, RowMoves
    <3>2. Buys(h)' BY <1>1, <1>2, <2>1 DEF Buys, Dated, Local, Minting
    <3>3. WillPass(h)' BY <1>1, <1>2, <2>1 DEF WillPass, SelfOps, Local
    <3>4. Burns(h)' BY <2>1, <2>3 DEF Burns
    <3> QED BY <3>1, <3>2, <3>3, <3>4 DEF Local
  <2> QED BY <1>1, <1>7, <1>9, <2>1, <2>2, <2>4, Still, LivedStep DEF FactorWrite, CodeStep
<1> QED BY <1>8, <1>9

LEMMA DropLived == ASSUME Alive, NEW p \in Proc, Drop(p) PROVE Lived'
<1> PICK h : h = [proc[p] EXCEPT !.pc = "mint"] OBVIOUS
<1>1. proc[p].pc = "drop" /\ End(proc[p].s) /\ Goto(p, h) BY DEF Drop, At
<1>2. proc[p] \in Request /\ Local(proc[p]) BY Arithmetic DEF Alive, Lived
<1>3. /\ h.pc = "mint" /\ h.acc = proc[p].acc /\ h.era = proc[p].era /\ h.code = proc[p].code
      /\ h.factor = proc[p].factor /\ h.pending = proc[p].pending
  BY <1>2 DEF Request
<1>4. Local(h) BY <1>1, <1>2, <1>3 DEF Local, VersionRead, Buys, Minting, WillPass, Held, SelfOps, Burns
<1>5. Local(h)' BY <1>4 DEF Drop, Local, VersionRead, Buys, Dated, WillPass, Held, Burns, Burned
<1>6. RowStep BY DEF Drop, RowStep, RowStays
<1>7. SessionsStep(p) /\ RevokedStep BY <1>1, Ended DEF Drop
<1> QED BY <1>1, <1>3, <1>5, <1>6, <1>7, LivedStep DEF Drop, BoughtStep, CodeStep

LEMMA EnterLived ==
    ASSUME Alive, NEW p \in Proc, NEW s \in Session, NEW op \in SelfOps, Enter(p, s, op) PROVE Lived'
<1>1. PICK pc \in {"slide", op} :
        Goto(p, [Idle EXCEPT !.pc = pc, !.op = op, !.acc = account, !.s = s, !.row = session[s],
                             !.era = era, !.factor = session[s].factor])
  BY DEF Enter
<1> PICK h : h = [Idle EXCEPT !.pc = pc, !.op = op, !.acc = account, !.s = s, !.row = session[s],
                              !.era = era, !.factor = session[s].factor] OBVIOUS
<1>2. /\ h.pc = pc /\ h.acc = account /\ h.pending = "none" /\ h.era = era
      /\ h.factor = session[s].factor /\ h.code = 0
  BY DEF Idle
<1>3. Resolves(s) /\ account.there BY DEF Enter, Resolves, Current
<1>4. account.sv = era + 1 /\ era \in Nat /\ account.version \in Nat
  BY <1>3, Arithmetic DEF Alive, Lived, Counted
<1>5. session[s].era = era BY <1>3, <1>4, Arithmetic DEF Alive, Lived, Bought, Dated, Resolves, Current
<1>6. account.senior => Held(session[s].factor) BY <1>3, <1>5 DEF Alive, Lived, Passed, Resolves, Current
<1>7. pc \in {"slide"} \cup SelfOps OBVIOUS
<1>8. Local(h)
  <2>1. VersionRead(h) /\ Buys(h) BY <1>2, <1>4 DEF VersionRead, Buys, Dated
  <2>2. WillPass(h) BY <1>2, <1>6, <1>7 DEF WillPass, SelfOps
  <2>3. Burns(h) BY <1>2 DEF Burns
  <2> QED BY <2>1, <2>2, <2>3 DEF Local
<1>9. pc \notin {"drop", "mint", "delete"} BY <1>7 DEF SelfOps
<1> QED BY <1>1, <1>2, <1>8, <1>9, RequestLived DEF Enter, CodeStep

LEMMA SlideLived == ASSUME Alive, NEW p \in Proc, Slide(p) PROVE Lived'
<1>1. proc[p].pc = "slide" /\ proc[p].op \in SelfOps BY RowRead DEF Slide, At, Handling, Alive
<1>2. proc[p] \in Request /\ Local(proc[p]) BY Arithmetic DEF Alive, Lived
<1> PICK h : h = [proc[p] EXCEPT !.pc = proc[p].op] OBVIOUS
<1>3. /\ h.pc = proc[p].op /\ h.acc = proc[p].acc /\ h.era = proc[p].era /\ h.code = proc[p].code
      /\ h.factor = proc[p].factor /\ h.pending = proc[p].pending
  BY <1>2 DEF Request
<1>4. h.code = 0 /\ h.pc \notin {"idle", "kill", "sweep", "factor", "drop", "mint", "delete", "slide"}
  BY <1>1, <1>2, <1>3 DEF Local, Burns, SelfOps
<1>5. Local(h)
  <2>1. VersionRead(h) /\ Buys(h) BY <1>1, <1>2, <1>3 DEF VersionRead, Buys, Local, Minting, Entered
  <2>2. WillPass(h) BY <1>1, <1>2, <1>3, <1>4 DEF WillPass, Local
  <2>3. Burns(h) BY <1>4 DEF Burns
  <2> QED BY <2>1, <2>2, <2>3 DEF Local
<1>6. CASE Goto(p, h) BY <1>4, <1>5, <1>6, RequestLived DEF Slide, CodeStep
<1>7. CASE Goto(p, Idle)
  <2>1. RowStep BY DEF Slide, OnlyRequests, RowStep, RowStays
  <2> QED BY <1>7, <2>1, Still, EndsLived DEF Slide, OnlyRequests
<1> QED BY <1>6, <1>7 DEF Slide
LEMMA ChangePasswordLived == ASSUME Alive, NEW p \in Proc, ChangePassword(p) PROVE Lived'
<1>1. PICK keep \in BOOLEAN :
        LET acc == IF keep THEN proc[p].acc ELSE [proc[p].acc EXCEPT !.sv = @ + 1] IN
           /\ Save(p, acc)
           /\ era' = IF Matches(p) /\ ~keep THEN era + 1 ELSE era
           /\ Goto(p, IF Matches(p) /\ ~keep
                      THEN [proc[p] EXCEPT !.pc = "mint", !.acc = acc, !.era = era + 1] ELSE Idle)
  BY DEF ChangePassword
<1>10. PICK acc : acc = IF keep THEN proc[p].acc ELSE [proc[p].acc EXCEPT !.sv = proc[p].acc.sv + 1] OBVIOUS
<1>11. PICK h : h = [proc[p] EXCEPT !.pc = "mint", !.acc = acc, !.era = era + 1] OBVIOUS
<1>2. /\ proc[p].pc = "password" /\ Save(p, acc) /\ era' = IF Matches(p) /\ ~keep THEN era + 1 ELSE era
      /\ Goto(p, IF Matches(p) /\ ~keep THEN h ELSE Idle) /\ sets' = sets
  BY <1>1, <1>10, <1>11 DEF ChangePassword, At
<1>3. proc[p] \in Request /\ Local(proc[p]) /\ proc[p].acc \in Account /\ account \in Account
  BY Arithmetic DEF Alive, Lived, TypeInv, TypeOK
<1>4. Matches(p) => proc[p].acc = account /\ account.there /\ account.sv = era + 1 BY <1>2, RowMatched
<1>5. /\ acc.there = proc[p].acc.there /\ acc.senior = proc[p].acc.senior /\ acc.codes = proc[p].acc.codes
      /\ acc.required = proc[p].acc.required
      /\ acc.version = proc[p].acc.version
      /\ acc.sv = IF keep THEN proc[p].acc.sv ELSE proc[p].acc.sv + 1
      /\ acc \in Wide
  BY <1>3, <1>10, IdentityConstants DEF Account, Wide
<1>6. Matches(p) => acc \in Wide /\ Lawful(acc) BY <1>2, <1>4, <1>5 DEF Lawful
<1>7. RowStep /\ (Matches(p) => /\ RowMoves /\ proc[p].acc.version < account'.version
                                /\ account'.senior = acc.senior)
  BY <1>2, <1>6, SaveLived
<1>8. CASE ~(Matches(p) /\ ~keep) BY <1>2, <1>7, <1>8, Still, EndsLived DEF ChangePassword
<1>9. CASE Matches(p) /\ ~keep
  <2>1. /\ h.pc = "mint" /\ h.acc = acc /\ h.era = era + 1 /\ h.code = proc[p].code
        /\ h.factor = proc[p].factor /\ h.pending = proc[p].pending
    BY <1>3, <1>11 DEF Request
  <2>2. h.code = 0 /\ (proc[p].acc.senior => Held(h.factor))
    BY <1>2, <1>3, <2>1 DEF Local, Burns, WillPass, SelfOps
  <2>3. VersionRead(h)' BY <1>3, <1>5, <1>7, <1>9, <2>1, Arithmetic DEF VersionRead, RowMoves, Alive
  <2>4. Buys(h)' BY <1>2, <1>4, <1>5, <1>9, <2>1, Arithmetic DEF Buys, Dated, Alive
  <2>8. Held(h.factor) => Held(h.factor)' BY <1>7, HeldKept
  <2>5. WillPass(h)' BY <1>5, <1>7, <1>9, <2>1, <2>2, <2>8 DEF WillPass, SelfOps
  <2>6. Burns(h)' BY <2>1, <2>2 DEF Burns
  <2>7. Local(h)' BY <2>3, <2>4, <2>5, <2>6 DEF Local
  <2> QED BY <1>2, <1>7, <1>9, <2>1, <2>2, <2>7, Still, LivedStep DEF ChangePassword, CodeStep
<1> QED BY <1>8, <1>9

\* A request that has written the row as it read it, and goes on to a step
\* that neither reads nor mints.
LEMMA WroteLived ==
    ASSUME Alive, NEW p \in Proc, proc[p].pc \in SelfOps, NEW h, Goto(p, h), RowMoves, mix' = mix,
           proc[p].acc.version < account'.version, era' = era,
           h = [proc[p] EXCEPT !.pc = "stamp"] \/ h = [proc[p] EXCEPT !.pc = "clear"],
           UNCHANGED <<session, revoked, bought>>
    PROVE  Lived'
<1>1. proc[p] \in Request /\ Local(proc[p]) BY Arithmetic DEF Alive, Lived
<1>2. h.pc \in {"stamp", "clear"} /\ h.acc = proc[p].acc /\ h.era = proc[p].era /\ h.code = proc[p].code
  BY <1>1 DEF Request
<1>3. h.code = 0 BY <1>1, <1>2 DEF Local, Burns, SelfOps
<1>4. VersionRead(h)' BY <1>1, <1>2, Arithmetic DEF VersionRead, RowMoves, Alive
<1>5. Buys(h)' BY <1>1, <1>2 DEF Buys, Dated, Local, Minting, Entered
<1>6. WillPass(h)' /\ Burns(h)' BY <1>2, <1>3 DEF WillPass, SelfOps, Burns
<1>7. Local(h)' BY <1>4, <1>5, <1>6 DEF Local
<1>8. RowStep BY DEF RowStep
<1> QED BY <1>2, <1>3, <1>7, <1>8, Still, LivedStep DEF CodeStep

LEMMA ReauthLived == ASSUME Alive, NEW p \in Proc, Reauth(p) PROVE Lived'
<1> PICK h : h = [proc[p] EXCEPT !.pc = "stamp"] OBVIOUS
<1>1. /\ proc[p].pc = "reauth" /\ Save(p, proc[p].acc) /\ era' = era /\ sets' = sets
      /\ (Matches(p) /\ Goto(p, h)) \/ Goto(p, Idle)
  BY DEF Reauth, At
<1>2. RowStep /\ (Matches(p) => RowMoves /\ proc[p].acc.version < account'.version)
  BY <1>1, SameLawful, SaveLived
<1>3. CASE Goto(p, Idle) BY <1>2, <1>3, Still, EndsLived DEF Reauth
<1>4. CASE Matches(p) /\ Goto(p, h) BY <1>1, <1>2, <1>4, WroteLived DEF Reauth, SelfOps
<1> QED BY <1>1, <1>3, <1>4

LEMMA StampLived == ASSUME Alive, NEW p \in Proc, Stamp(p) PROVE Lived'
<1>1. SessionsStep(p) /\ RevokedStep BY Touched DEF Stamp
<1>2. RowStep BY DEF Stamp, RowStep, RowStays
<1> QED BY <1>1, <1>2, EndsLived DEF Stamp, Done

LEMMA OfferLived == ASSUME Alive, NEW p \in Proc, Offer(p) PROVE Lived'
<1>1. SessionsStep(p) /\ RevokedStep BY Touched DEF Offer
<1>2. RowStep BY DEF Offer, RowStep, RowStays
<1> QED BY <1>1, <1>2, EndsLived DEF Offer, Done

LEMMA ConfirmLived == ASSUME Alive, NEW p \in Proc, Confirm(p) PROVE Lived'
<1> DEFINE refused == proc[p].row.offer = 0 \/ Cardinality(proc[p].acc.devices) >= DeviceLimit
           new == WithDevice(proc[p].acc, proc[p].row.offer)
<1> PICK h : h = [proc[p] EXCEPT !.pc = "clear"] OBVIOUS
<1>1. proc[p].pc = "confirm" /\ era' = era BY DEF Confirm, At
<1>2. CASE refused
  <2>1. RowStep /\ Goto(p, Idle) BY <1>2 DEF Confirm, RowStep, RowStays, Done
  <2> QED BY <2>1, Still, EndsLived DEF Confirm
<1>3. CASE ~refused
  <2>1. sets < MaxCode /\ Save(p, new) /\ Generates(p, proc[p].acc) /\ Goto(p, IF Matches(p) THEN h ELSE Idle)
    BY <1>3 DEF Confirm
  <2>2. proc[p].row.offer \in Secret
    BY <1>3, RowRead, IdentityConstants DEF Row, Secret, Alive
  <2>3. Matches(p) => new \in Wide /\ Lawful(new) BY <1>1, <2>1, <2>2, WithDeviceLawful
  <2>4. ~Matches(p) => sets' = sets BY <2>1 DEF Generates
  <2> HIDE DEF new, refused
  <2>5. RowStep /\ (Matches(p) => RowMoves /\ proc[p].acc.version < account'.version)
    BY <1>1, <2>1, <2>3, <2>4, SaveLived
  <2>6. CASE ~Matches(p) BY <2>1, <2>5, <2>6, Still, EndsLived DEF Confirm
  <2>7. CASE Matches(p) BY <1>1, <2>1, <2>5, <2>7, WroteLived DEF Confirm, SelfOps
  <2> QED BY <2>6, <2>7
<1> QED BY <1>2, <1>3

LEMMA ClearOfferLived == ASSUME Alive, NEW p \in Proc, ClearOffer(p) PROVE Lived'
<1>1. SessionsStep(p) /\ RevokedStep BY Touched DEF ClearOffer
<1>2. RowStep BY DEF ClearOffer, RowStep, RowStays
<1> QED BY <1>1, <1>2, EndsLived DEF ClearOffer, Done

LEMMA RemoveLived == ASSUME Alive, NEW p \in Proc, Remove(p) PROVE Lived'
<1> DEFINE Less(d) == [proc[p].acc EXCEPT !.devices = proc[p].acc.devices \ {d},
                                          !.codes = IF proc[p].acc.devices \ {d} = {} THEN {} ELSE @]
<1>1. proc[p].pc = "remove" /\ era' = era /\ sets' = sets BY DEF Remove, At
<1>2. UNCHANGED account \/ \E d \in proc[p].acc.devices : Save(p, Less(d)) BY DEF Remove
<1>3. ASSUME NEW d, Matches(p) PROVE Less(d) \in Wide /\ Lawful(Less(d))
  <2>1. proc[p].acc = account /\ account.there /\ account \in Account
    BY <1>1, <1>3, RowMatched DEF Alive, TypeInv, TypeOK
  <2>2. account.devices \ {d} \in SUBSET Secret BY <2>1 DEF Account
  <2>3. /\ Less(d) \in Account /\ Less(d).sv = account.sv /\ Less(d).there = account.there
        /\ Less(d).senior = account.senior /\ Less(d).required = account.required
        /\ Less(d).codes \subseteq account.codes
    BY <2>1, <2>2 DEF Account
  <2> HIDE DEF Less
  <2>4. Less(d) \in Wide BY <2>3, IdentityConstants DEF Account, Wide
  <2> QED BY <1>1, <2>1, <2>3, <2>4 DEF Lawful
<1> HIDE DEF Less
<1>4. RowStep BY <1>1, <1>2, <1>3, SaveLived DEF RowStep, RowStays
<1> QED BY <1>4, Still, EndsLived DEF Remove, Done

LEMMA RegenerateLived == ASSUME Alive, NEW p \in Proc, Regenerate(p) PROVE Lived'
<1> DEFINE new == [proc[p].acc EXCEPT !.codes = {sets + 1}]
<1>1. /\ proc[p].pc = "regenerate" /\ era' = era /\ Save(p, new) /\ sets < MaxCode
      /\ sets' = IF Matches(p) THEN sets + 1 ELSE sets
  BY DEF Regenerate, At
<1>2. ASSUME Matches(p) PROVE new \in Wide /\ Lawful(new)
  <2>1. proc[p].acc = account /\ account.there /\ account \in Account
    BY <1>1, <1>2, RowMatched DEF Alive, TypeInv, TypeOK
  <2>2. sets + 1 \in Code BY <1>1, IdentityConstants DEF Alive, TypeInv, TypeOK, Code
  <2>3. {sets + 1} \in SUBSET Code BY <2>2
  <2>4. /\ new \in Account /\ new.sv = account.sv /\ new.there = account.there
        /\ new.senior = account.senior /\ new.required = account.required /\ new.codes = {sets + 1}
    BY <2>1, <2>3 DEF Account
  <2> HIDE DEF new
  <2>5. new \in Wide BY <2>4, IdentityConstants DEF Account, Wide
  <2> QED BY <1>1, <1>2, <2>1, <2>4, <2>5 DEF Lawful
<1> HIDE DEF new
<1>3. RowStep BY <1>1, <1>2, SaveLived
<1> QED BY <1>3, Still, EndsLived DEF Regenerate, Done
LEMMA RevokeLived == ASSUME Alive, NEW p \in Proc, Revoke(p) PROVE Lived'
<1>1. PICK kill : Goto(p, [Idle EXCEPT !.pc = "kill", !.kill = kill]) BY DEF Revoke
<1>2. PICK h : h = [Idle EXCEPT !.pc = "kill", !.kill = kill] OBVIOUS
<1>3. h.pc = "kill" /\ h.code = 0 BY <1>2 DEF Idle
<1>4. Local(h) BY <1>3 DEF Local, VersionRead, Buys, Minting, Entered, SelfOps, WillPass, Burns
<1> QED BY <1>1, <1>2, <1>3, <1>4, RequestLived DEF Revoke, CodeStep

LEMMA KillAllLived == ASSUME Alive, NEW p \in Proc, KillAll(p) PROVE Lived'
<1>1. PICK h : h = [Idle EXCEPT !.pc = "kill", !.kill = Sessions] OBVIOUS
<1>2. h.pc = "kill" /\ h.code = 0 BY <1>1 DEF Idle
<1>3. Local(h) BY <1>2 DEF Local, VersionRead, Buys, Minting, Entered, SelfOps, WillPass, Burns
<1> QED BY <1>1, <1>2, <1>3, RequestLived DEF KillAll, CodeStep

LEMMA KillLived == ASSUME Alive, NEW p \in Proc, Kill(p) PROVE Lived'
<1>0. RowStep BY DEF Kill, RowStep, RowStays
<1>1. CASE proc[p].kill = {} BY <1>0, <1>1, Still, EndsLived DEF Kill, Done
<1>2. CASE proc[p].kill # {}
  <2>1. PICK s : s = Min(proc[p].kill) OBVIOUS
  <2>2. PICK h : h = [proc[p] EXCEPT !.kill = proc[p].kill \ {s}] OBVIOUS
  <2>3. End(s) /\ revoked' = revoked \cup {s} /\ Goto(p, h) /\ proc[p].pc = "kill"
    BY <1>2, <2>1, <2>2 DEF Kill, At
  <2>4. proc[p] \in Request /\ Local(proc[p]) BY Arithmetic DEF Alive, Lived
  <2>5. s \in Session BY <1>2, <2>1, <2>4, FirstSession DEF Request
  <2>6. h.pc = "kill" /\ h.code = 0 BY <2>2, <2>3, <2>4 DEF Request, Local, Burns
  <2>7. Local(h)' BY <2>6 DEF Local, VersionRead, Buys, Minting, Entered, SelfOps, WillPass, Burns
  <2>8. \A t \in Session : session[t] \in Row BY DEF Alive, TypeInv, TypeOK
  <2>9. \A t \in Session : IF t = s THEN session'[t].state = "gone" ELSE session'[t] = session[t]
    BY <2>3, <2>8 DEF Alive, TypeInv, TypeOK, End, Row
  <2>10. SessionsStep(p) BY <2>9 DEF SessionsStep, Live
  <2>11. RevokedStep BY <2>3, <2>5, <2>9 DEF RevokedStep, Alive, Lived, TypeInv, TypeOK
  <2> QED BY <1>0, <2>3, <2>6, <2>7, <2>10, <2>11, LivedStep DEF Kill, BoughtStep, CodeStep
<1> QED BY <1>1, <1>2

LEMMA AdminReadLived == ASSUME Alive, NEW p \in Proc, AdminRead(p) PROVE Lived'
<1>1. PICK op \in AdminOps : On(op) /\ Goto(p, [Idle EXCEPT !.pc = op, !.acc = account]) BY DEF AdminRead
<1>2. PICK h : h = [Idle EXCEPT !.pc = op, !.acc = account] OBVIOUS
<1>3. h.pc = op /\ h.acc = account /\ h.code = 0 BY <1>2 DEF Idle
<1>4. op \notin {"slide", "clear", "login", "factor", "drop", "mint"} \cup SelfOps BY DEF AdminOps, SelfOps
<1>5. account.version \in Nat BY Arithmetic DEF Alive
<1>6. VersionRead(h) /\ Buys(h) BY <1>3, <1>4, <1>5 DEF VersionRead, Buys, Minting, Entered
<1>7. WillPass(h) /\ Burns(h) BY <1>3, <1>4 DEF WillPass, Burns
<1>8. Local(h) BY <1>6, <1>7 DEF Local
<1>9. CodeStep(p, h) BY <1>3 DEF CodeStep
<1>10. h.pc = "delete" => "delete" \in mix.ops BY <1>1, <1>3 DEF On
<1> QED BY <1>1, <1>2, <1>8, <1>9, <1>10, RequestLived DEF AdminRead

LEMMA PatchLived == ASSUME Alive, NEW p \in Proc, Patch(p) PROVE Lived'
<1>1. PICK op \in {"disable", "enable", "promote", "demote", "require", "exempt"} :
        /\ At(p, op) /\ Save(p, Patched(op, proc[p].acc))
        /\ era' = IF Matches(p) /\ op = "promote" /\ ~proc[p].acc.senior THEN era + 1 ELSE era
  BY DEF Patch
<1>2. PICK new : new = Patched(op, proc[p].acc) OBVIOUS
<1>3. proc[p].pc \notin {"idle", "kill", "sweep"} /\ Save(p, new) /\ sets' = sets
  BY <1>1, <1>2 DEF At, Patch
<1>4. ASSUME Matches(p) PROVE new \in Wide /\ Lawful(new)
  <2>1. proc[p].acc = account /\ account.there /\ account \in Account
    BY <1>3, <1>4, RowMatched DEF Alive, TypeInv, TypeOK
  <2> DEFINE sv == IF account.senior THEN account.sv ELSE account.sv + 1
  <2>2. \/ op = "disable" /\ new = [account EXCEPT !.active = FALSE]
        \/ op = "enable" /\ new = [account EXCEPT !.active = TRUE]
        \/ op = "promote" /\ new = [account EXCEPT !.senior = TRUE, !.sv = sv]
        \/ op = "demote" /\ new = [account EXCEPT !.senior = FALSE]
        \/ op = "require" /\ new = [account EXCEPT !.required = "on"]
        \/ op = "exempt" /\ new = [account EXCEPT !.required = "off"]
    BY <1>2, <2>1 DEF Patched
  <2>3. account.sv \in Nat /\ sv \in Nat BY Arithmetic DEF Alive
  <2> HIDE DEF sv
  <2>4. /\ new \in Wide /\ new.there = account.there /\ new.codes = account.codes
        /\ new.required = account.required \/ new.required \in {"on", "off"}
        /\ new.sv = IF op = "promote" THEN sv ELSE account.sv
        /\ new.senior = IF op = "promote" THEN TRUE ELSE IF op = "demote" THEN FALSE ELSE account.senior
    BY <2>1, <2>2, <2>3, IdentityConstants DEF Account, Wide
  <2>5. era' = IF op = "promote" /\ ~account.senior THEN era + 1 ELSE era BY <1>1, <1>4, <2>1
  <2> QED BY <1>3, <2>1, <2>4, <2>5 DEF Lawful, sv
<1>5. ~Matches(p) => era' = era BY <1>1
<1>6. RowStep BY <1>3, <1>4, <1>5, SaveLived
<1> QED BY <1>6, Still, EndsLived DEF Patch, Done

LEMMA SweepLived ==
    ASSUME Alive, RowStep, NEW p \in Proc, Goto(p, [Idle EXCEPT !.pc = "sweep"]), mix' = mix,
           UNCHANGED <<session, revoked, bought>>
    PROVE  Lived'
<1>1. PICK h : h = [Idle EXCEPT !.pc = "sweep"] OBVIOUS
<1>2. h.pc = "sweep" /\ h.code = 0 BY <1>1 DEF Idle
<1>3. Local(h)' BY <1>2 DEF Local, VersionRead, Buys, Minting, Entered, SelfOps, WillPass, Burns
<1> QED BY <1>1, <1>2, <1>3, Still, LivedStep DEF CodeStep

LEMMA ExpelLived == ASSUME Alive, NEW p \in Proc, Expel(p) PROVE Lived'
<1> DEFINE acc == [proc[p].acc EXCEPT !.sv = proc[p].acc.sv + 1]
           bare == [acc EXCEPT !.devices = {}, !.codes = {}]
<1>1. /\ proc[p].pc \in {"reset", "revokeAll", "resetPassword"}
      /\ Save(p, acc) \/ Save(p, bare)
      /\ era' = (IF Matches(p) THEN era + 1 ELSE era) /\ sets' = sets
      /\ Goto(p, [Idle EXCEPT !.pc = "sweep"]) \/ Goto(p, Idle)
  BY DEF Expel, At
<1>2. ASSUME Matches(p) PROVE \A new \in {acc, bare} : new \in Wide /\ Lawful(new)
  <2>1. proc[p].acc = account /\ account.there /\ account \in Account
    BY <1>1, <1>2, RowMatched DEF Alive, TypeInv, TypeOK
  <2>2. account.sv + 1 \in Nat BY Arithmetic DEF Alive
  <2>3. /\ acc \in Wide /\ acc.sv = account.sv + 1 /\ acc.there = account.there
        /\ acc.codes = account.codes /\ acc.required = account.required
    BY <2>1, <2>2, IdentityConstants DEF Account, Wide
  <2> HIDE DEF acc
  <2>4. {} \in SUBSET Secret /\ {} \in SUBSET Code OBVIOUS
  <2>5. bare \in Wide /\ bare.sv = account.sv + 1 /\ bare.there = account.there /\ bare.codes = {}
        /\ bare.required = account.required
    BY <2>3, <2>4 DEF Wide
  <2> HIDE DEF bare
  <2> QED BY <1>1, <1>2, <2>1, <2>3, <2>5 DEF Lawful
<1> HIDE DEF acc, bare
<1>3. RowStep BY <1>1, <1>2, SaveLived
<1> QED BY <1>1, <1>3, Still, EndsLived, SweepLived DEF Expel

LEMMA DeleteLived == ASSUME Alive, NEW p \in Proc, Delete(p) PROVE Lived'
<1>1. account \in Account BY DEF Alive, TypeInv, TypeOK
<1>2. /\ ~account'.there /\ account'.version = account.version /\ account'.codes = account.codes
        /\ account'.required = account.required
  BY <1>1 DEF Delete, Account
<1>3. "delete" \in mix.ops BY DEF Delete, At, Alive, Lived, Deletable
<1>4. RowStep BY <1>2, <1>3 DEF RowStep, RowGoes, Delete
<1> QED BY <1>4, SweepLived DEF Delete

\* Steps of nobody's request.
LEMMA NobodyLived ==
    ASSUME Alive, UNCHANGED <<mix, account, proc, sets, era, revoked, bought>>,
           \A s \in Session : /\ session'[s].state = "live" =>
                                    /\ Live(s) /\ session'[s].sv = session[s].sv
                                    /\ session'[s].pending = session[s].pending
                                    /\ session'[s].era = session[s].era /\ session'[s].factor = session[s].factor
                              /\ session[s].state = "gone" => session'[s].state = "gone"
    PROVE  Lived'
<1>1. Counted' /\ Deletable' /\ Codes' BY DEF Alive, Lived, Counted, Deletable, Codes, Burned
<1>2. \A s \in Session : Bought(s)' /\ Passed(s)' BY DEF Alive, Lived, Bought, Passed, Held, Dated, Live
<1>3. \A p \in Proc : Local(proc[p])'
  BY DEF Alive, Lived, Local, VersionRead, Buys, Dated, WillPass, Held, Burns, Burned
<1> QED BY <1>1, <1>2, <1>3 DEF Alive, Lived

\* Every step keeps the history straight, unless a name is given again.
THEOREM HistoryKept == TypeInv /\ Lived /\ ~Reused /\ [Next]_vars => Lived'
<1> SUFFICES ASSUME TypeInv, Lived, ~Reused, [Next]_vars PROVE Lived' OBVIOUS
<1>0. Alive BY TypesKept DEF Alive
<1>1. ASSUME NEW p \in Proc, SigningIn(p) PROVE Lived'
  BY <1>0, <1>1, LoginReadLived, MissLived, LoginWriteLived, FactorReadLived, FactorWriteLived, DropLived, MintLived
  DEF SigningIn
<1>2. ASSUME NEW p \in Proc, Self(p) PROVE Lived'
  BY <1>0, <1>2, EnterLived, SlideLived, ChangePasswordLived, ReauthLived, StampLived, OfferLived, ConfirmLived,
     ClearOfferLived, RemoveLived, RegenerateLived, RevokeLived, KillLived
  DEF Self
<1>3. ASSUME NEW p \in Proc, Admin(p) PROVE Lived'
  BY <1>0, <1>3, AdminReadLived, PatchLived, ExpelLived, DeleteLived, KillAllLived DEF Admin
<1>4. ASSUME NEW t \in Session, SignOut(t) PROVE Lived'
  <2>1. \A s \in Session : session[s] \in Row BY DEF TypeInv, TypeOK
  <2>2. \A s \in Session : IF s = t THEN session'[s].state = "gone" ELSE session'[s] = session[s]
    BY <1>4, <2>1 DEF TypeInv, TypeOK, SignOut, End, Row
  <2> QED BY <1>0, <1>4, <2>2, NobodyLived DEF SignOut, Live
<1>5. ASSUME Cool PROVE Lived'
  <2>1. PICK t \in Session : session' = [session EXCEPT ![t].fresh = FALSE] BY <1>5 DEF Cool
  <2>2. \A s \in Session : session[s] \in Row BY DEF TypeInv, TypeOK
  <2>3. \A s \in Session : /\ session'[s].state = session[s].state /\ session'[s].sv = session[s].sv
                           /\ session'[s].pending = session[s].pending
                           /\ session'[s].era = session[s].era /\ session'[s].factor = session[s].factor
    BY <2>1, <2>2 DEF TypeInv, TypeOK, Row
  <2> QED BY <1>0, <1>5, <2>3, NobodyLived DEF Cool, Live
<1>6. ~Enrol BY DEF Enrol, On, Reused, Lived, Deletable
<1>7. ASSUME UNCHANGED vars PROVE Lived'
  BY <1>0, <1>7, NobodyLived DEF vars, Live
<1> QED BY <1>1, <1>2, <1>3, <1>4, <1>5, <1>6, <1>7 DEF Next
-----------------------------------------------------------------------------
(* Without a sign-in nothing happens to sessions.                          *)

LEMMA QuietStep ==
    ASSUME TypeInv, Quiet, NEW p \in Proc, NEW h, Goto(p, h), UNCHANGED <<session, bought>>,
           h.pc \in {"idle", "kill", "sweep"} \cup AdminOps, h.pc = "kill" => h.kill = {}
    PROVE  Quiet'
<1>1. proc'[p] = h /\ \A q \in Proc \ {p} : proc'[q] = proc[q] BY DEF TypeInv, TypeOK, Goto
<1>2. ASSUME NEW q \in Proc
      PROVE  /\ proc'[q].pc \in {"idle", "kill", "sweep"} \cup AdminOps
             /\ proc'[q].pc = "kill" => proc'[q].kill = {}
  BY <1>1 DEF Quiet
<1> QED BY <1>2 DEF Quiet

LEMMA QuietKept == TypeInv /\ Quiet /\ "login" \notin mix.ops /\ [Next]_vars => Quiet'
<1> SUFFICES ASSUME TypeInv, Quiet, "login" \notin mix.ops, [Next]_vars PROVE Quiet' OBVIOUS
<1>0. /\ \A s \in Session : session[s].state = "unused"
      /\ \A p \in Proc : /\ proc[p].pc \in {"idle", "kill", "sweep"} \cup AdminOps
                         /\ proc[p].pc = "kill" => proc[p].kill = {}
      /\ Sessions = {}
  BY DEF Quiet, Sessions, Live
<1>1. ASSUME NEW p \in Proc PROVE ~SigningIn(p)
  BY <1>0 DEF SigningIn, LoginRead, Miss, LoginWrite, FactorRead, FactorWrite, Drop, Mint, At, On, AdminOps,
     Current, Live
<1>2. ASSUME NEW p \in Proc, Self(p) PROVE Quiet'
  <2>1. Kill(p)
    BY <1>0, <1>2 DEF Self, Enter, Resolves, Current, Live, Slide, ChangePassword, Reauth, Stamp, Offer, Confirm,
       ClearOffer, Remove, Regenerate, Revoke, At, AdminOps
  <2>2. Goto(p, Idle) /\ UNCHANGED <<session, bought>> BY <1>0, <2>1 DEF Kill, At, Done
  <2> QED BY <2>2, IdleLocal, QuietStep
<1>3. ASSUME NEW p \in Proc, Admin(p) PROVE Quiet'
  <2>1. CASE AdminRead(p)
    <3>1. PICK op \in AdminOps : Goto(p, [Idle EXCEPT !.pc = op, !.acc = account]) BY <2>1 DEF AdminRead
    <3>2. PICK h : h = [Idle EXCEPT !.pc = op, !.acc = account] OBVIOUS
    <3>3. h.pc = op /\ op # "kill" BY <3>2 DEF Idle, AdminOps
    <3> QED BY <2>1, <3>1, <3>2, <3>3, QuietStep DEF AdminRead, OnlyRequests
  <2>2. CASE Patch(p) BY <2>2, IdleLocal, QuietStep DEF Patch, Done
  <2>3. CASE Expel(p) \/ Delete(p)
    <3>1. PICK h : h = [Idle EXCEPT !.pc = "sweep"] OBVIOUS
    <3>2. h.pc = "sweep" BY <3>1 DEF Idle
    <3>3. Goto(p, h) \/ Goto(p, Idle) BY <2>3, <3>1 DEF Expel, Delete
    <3>4. UNCHANGED <<session, bought>> BY <2>3 DEF Expel, Delete
    <3> QED BY <3>2, <3>3, <3>4, IdleLocal, QuietStep
  <2>4. CASE KillAll(p)
    <3>1. PICK h : h = [Idle EXCEPT !.pc = "kill", !.kill = Sessions] OBVIOUS
    <3>2. h.pc = "kill" /\ h.kill = {} BY <1>0, <3>1 DEF Idle
    <3> QED BY <2>4, <3>1, <3>2, QuietStep DEF KillAll, OnlyRequests
  <2> QED BY <1>3, <2>1, <2>2, <2>3, <2>4 DEF Admin
<1>4. ASSUME NEW t \in Session PROVE ~SignOut(t) BY <1>0 DEF SignOut, Live
<1>5. ASSUME Cool PROVE Quiet'
  <2>1. PICK t \in Session : session' = [session EXCEPT ![t].fresh = FALSE] BY <1>5 DEF Cool
  <2>2. \A s \in Session : session[s] \in Row BY DEF TypeInv, TypeOK
  <2>3. \A s \in Session : session'[s].state = session[s].state BY <2>1, <2>2 DEF TypeInv, TypeOK, Row
  <2> QED BY <1>5, <2>3 DEF Cool, Quiet
<1>6. ASSUME Enrol PROVE Quiet' BY <1>6 DEF Enrol, Quiet
<1>7. ASSUME UNCHANGED vars PROVE Quiet' BY <1>7 DEF vars, Quiet
<1> QED BY <1>1, <1>2, <1>3, <1>4, <1>5, <1>6, <1>7 DEF Next

-----------------------------------------------------------------------------
(* What follows.                                                           *)

LEMMA MixFixed == [Next]_vars => mix' = mix
<1> SUFFICES ASSUME [Next]_vars PROVE mix' = mix OBVIOUS
<1>1. ASSUME NEW p \in Proc, SigningIn(p) PROVE mix' = mix
  BY <1>1 DEF SigningIn, LoginRead, Miss, LoginWrite, FactorRead, FactorWrite, Drop, Mint, OnlyRequests
<1>2. ASSUME NEW p \in Proc, Self(p) PROVE mix' = mix
  <2>1. CASE \E s \in Session, op \in SelfOps : Enter(p, s, op)
    BY <2>1 DEF Enter, OnlyRequests
  <2>2. CASE Slide(p) \/ ChangePassword(p) \/ Reauth(p) \/ Stamp(p)
    BY <2>2 DEF Slide, ChangePassword, Reauth, Stamp, OnlyRequests
  <2>3. CASE Offer(p) \/ Confirm(p) \/ ClearOffer(p)
    BY <2>3 DEF Offer, Confirm, ClearOffer, OnlyRequests
  <2>4. CASE Remove(p) \/ Regenerate(p) \/ Revoke(p) \/ Kill(p)
    BY <2>4 DEF Remove, Regenerate, Revoke, Kill, OnlyRequests
  <2> QED BY <1>2, <2>1, <2>2, <2>3, <2>4 DEF Self
<1>3. ASSUME NEW p \in Proc, Admin(p) PROVE mix' = mix
  BY <1>3 DEF Admin, AdminRead, Patch, Expel, Delete, KillAll, OnlyRequests
<1>4. ASSUME NEW s \in Session, SignOut(s) PROVE mix' = mix BY <1>4 DEF SignOut, OnlyRequests
<1>5. CASE Cool \/ Enrol BY <1>5 DEF Cool, Enrol
<1>6. CASE UNCHANGED vars BY <1>6 DEF vars
<1> QED BY <1>1, <1>2, <1>3, <1>4, <1>5, <1>6 DEF Next

LEMMA InitialHistory == Init => IInv
<1> SUFFICES ASSUME Init PROVE IInv OBVIOUS
<1>1. TypeInv BY InitialTypes
<1>2. \A p \in Proc : proc[p] = Idle BY DEF Init
<1>3. \A s \in Session : session[s] = Unused BY DEF Init
<1>4. Unused.state = "unused" BY DEF Unused
<1>5. Idle.pc = "idle" /\ Idle.code = 0 BY IdleLocal
<1>6. Quiet BY <1>2, <1>3, <1>4, <1>5 DEF Quiet, Init
<1>7. /\ account.there /\ account.sv = 1
      /\ account.codes = IF mix.devices > 0 THEN {1} ELSE {}
  BY DEF Init, Blank
<1>8. Counted /\ Deletable BY <1>2, <1>5, <1>7 DEF Counted, Deletable, Init
<1>9. Codes
  <2>1. account.codes \subseteq 1..sets BY <1>7 DEF Init
  <2>2. \A c \in Code : bought[c] = 0 BY DEF Init
  <2> QED BY <1>2, <1>5, <2>1, <2>2 DEF Codes
<1>10. \A s \in Session : Bought(s) /\ Passed(s) /\ (s \in revoked => session[s].state = "gone")
  BY <1>3, <1>4 DEF Bought, Passed, Live, Init
<1>11. Local(Idle)
  BY DEF Idle, Local, VersionRead, Buys, Minting, Entered, SelfOps, WillPass, Burns
<1> QED BY <1>1, <1>2, <1>6, <1>8, <1>9, <1>10, <1>11 DEF IInv, Lived

LEMMA IInvKept == IInv /\ [Next]_vars => IInv'
<1> SUFFICES ASSUME IInv, [Next]_vars PROVE IInv' OBVIOUS
<1>1. mix' = mix BY MixFixed
<1>2. TypeInv' BY TypesKept DEF IInv
<1>3. "login" \notin mix.ops => Quiet' BY QuietKept DEF IInv
<1>4. ~Reused => Lived' BY HistoryKept DEF IInv
<1> QED BY <1>1, <1>2, <1>3, <1>4 DEF IInv, Reused

LEMMA HistoryInvariant == Spec => []IInv
BY InitialHistory, IInvKept, PTL DEF Spec

\* Either nobody signs in, or the history of the row is straight.
LEMMA EitherWay == NamesStay /\ IInv => TypeInv /\ (Quiet \/ Lived)
BY DEF NamesStay, IInv, Reused, TypeInv, TypeOK

LEMMA Cancel == \A m, n \in Nat : m + 1 = n + 1 => m = n OBVIOUS

\* A session that was revoked, one by one or with all the others, never
\* resolves again, whatever request of its own or write of the row was under
\* way (CONC-3, CONC-4), unless the name itself is given to a new account.
THEOREM RevocationHolds == NamesStay => (Spec => []RevokedStays)
<1> SUFFICES ASSUME NamesStay PROVE Spec => []RevokedStays OBVIOUS
<1>1. IInv => RevokedStays
  <2> SUFFICES ASSUME IInv, NEW s \in Session, Resolves(s) PROVE s \notin revoked /\ session[s].era = era
    BY DEF RevokedStays
  <2>1. TypeInv /\ Lived BY EitherWay DEF Resolves, Current, Live, Quiet
  <2>2. session[s].state = "live" /\ account.there /\ session[s].sv = account.sv
    BY DEF Resolves, Current, Live
  <2>3. session[s].sv = session[s].era + 1 /\ account.sv = era + 1
    BY <2>1, <2>2 DEF Lived, Bought, Dated, Live, Counted
  <2>4. session[s].era \in Nat /\ era \in Nat BY <2>1, Arithmetic
  <2>5. session[s].era = era BY <2>2, <2>3, <2>4, Cancel
  <2> QED BY <2>1, <2>2, <2>5 DEF Lived
<1> QED BY <1>1, HistoryInvariant, PTL

\* A session of a senior account has passed a second factor, in whatever order
\* it was minted, the account promoted and its devices reset; or it signed in
\* while an administrator exempted the account, which then bears a word on the
\* second factor for good.  An account nobody said anything of has no such one.
THEOREM SecondFactorHolds == NamesStay => (Spec => []SecondFactorHeld)
<1> SUFFICES ASSUME NamesStay PROVE Spec => []SecondFactorHeld OBVIOUS
<1>1. IInv => SecondFactorHeld
  <2> SUFFICES ASSUME IInv, account.senior, NEW s \in Session, Resolves(s) PROVE Held(session[s].factor)
    BY DEF SecondFactorHeld
  <2>1. TypeInv /\ Lived BY EitherWay DEF Resolves, Current, Live, Quiet
  <2>2. Live(s) /\ session[s].pending = "none" /\ account.there /\ session[s].sv = account.sv
    BY DEF Resolves, Current
  <2>3. session[s].sv = session[s].era + 1 /\ account.sv = era + 1
    BY <2>1, <2>2 DEF Lived, Bought, Dated, Counted
  <2>5. session[s].era \in Nat /\ era \in Nat BY <2>1, Arithmetic
  <2>4. session[s].era = era BY <2>2, <2>3, <2>5, Cancel
  <2> QED BY <2>1, <2>2, <2>4 DEF Lived, Passed
<1> QED BY <1>1, HistoryInvariant, PTL

\* A recovery code buys one session: of two sign-ins that read it unspent,
\* one finds the row moved; and no late write puts a spent code back.
THEOREM CodesHold == NamesStay => (Spec => []CodeOnce)
<1> SUFFICES ASSUME NamesStay PROVE Spec => []CodeOnce OBVIOUS
<1>1. IInv => CodeOnce
  <2> SUFFICES ASSUME IInv, NEW c \in Code PROVE bought[c] <= 1 /\ (bought[c] = 1 => c \notin account.codes)
    BY DEF CodeOnce
  <2>1. Quiet \/ Lived BY EitherWay
  <2>2. CASE Quiet BY <2>2 DEF Quiet
  <2>3. CASE Lived BY <2>3 DEF Lived, Codes, Burned
  <2> QED BY <2>1, <2>2, <2>3
<1> QED BY <1>1, HistoryInvariant, PTL
=============================================================================
