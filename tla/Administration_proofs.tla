------------------------- MODULE Administration_proofs -------------------------
(***************************************************************************)
(* Proofs about Administration: a write of a policy, a risk override or an *)
(* account replaces the row it was computed from, and one of a setting the *)
(* row whose version was read; a change is resolved once, in time and by   *)
(* somebody else than its proposer; loosening is shared; and a service is  *)
(* taken from the team that owns it.                                       *)
(***************************************************************************)
EXTENDS Administration, FiniteSetTheorems, TLAPS

Powers == UNION {Power[t] : t \in Target}

\* A row that was read is still there, or its version has passed it, or its
\* version has gone back at some point.
Holding(w) ==
    \/ w.back
    \/ row[w.on] = w.guard
    \/ row[w.on].version > w.guard.version

\* The value was computed from the row whose version was read, but for settings.
Captured(w) ==
    /\ Holding(w)
    /\ w.on \notin TwoRead => w.guard = w.seen

\* What a handler that asks nobody may write, judged on the row it read.
Tight(w) ==
    w.on \in OneRead \cup Person =>
       IF w.on \in Person /\ ~w.seen.live
       THEN "lead" \notin w.want
       ELSE /\ w.want \subseteq w.seen.grants
            /\ w.on \in Person => ("admin" \in w.seen.grants => "admin" \in w.want)

Acking(h) == h.pc \in {"drift", "ack"}
Writing(h) == h.pc \in {"cover", "commit", "rename", "remove"}

HandlerOK(h) ==
    /\ Writing(h) => h.write.on \in Target /\ Captured(h.write)
    /\ h.pc = "version" => h.write.on \in TwoRead /\ ~h.write.gone
    /\ h.pc \in {"cover", "rename", "remove"} => h.write.on \in Person
    /\ h.pc = "commit" /\ h.write.on \in Person => ~h.write.gone
    /\ h.pc = "commit" /\ h.write.gone => h.write.want = Default[h.write.on]
    /\ h.pc \in {"cover", "commit"} /\ ~h.loose /\ ~(h.pc = "cover" /\ h.write.gone)
          => Tight(h.write)
    /\ h.pc \in {"drift", "ack", "reject", "expire"} => h.ref \in Change
    /\ Acking(h) => change[h.ref].status # "free"
    /\ Acking(h) /\ Pending(h.ref) =>
          /\ h.write = change[h.ref].write
          /\ h.by # change[h.ref].by
          /\ h.at <= change[h.ref].expires

ChangeOK(c) ==
    Pending(c) => change[c].write.on \in Target /\ Captured(change[c].write)

Outcome == {"APPLIED", "REJECTED", "EXPIRED"}

IInv ==
    /\ TypeOK
    /\ \A p \in Proc : HandlerOK(proc[p])
    /\ \A c \in Change : ChangeOK(c)

-----------------------------------------------------------------------------
(* The shape of the data.                                                  *)

LEMMA PowerSets ==
    ASSUME NEW t \in Target
    PROVE  /\ Power[t] \subseteq Powers /\ Default[t] \subseteq Powers
           /\ \A w \in Wish[t] : w \subseteq Powers
    BY AdministrationConstants DEF Powers

LEMMA NoRowType == ASSUME NEW t \in Target PROVE NoRow(t) \in Row /\ NoRow(t).version = 0
    BY PowerSets DEF NoRow, Row, Powers

LEMMA EmptyTypes ==
    NoWrite \in Write /\ FreeChange \in ChangeRow /\ Idle \in Handler
    BY DEF NoWrite, Nothing, Write, FreeChange, ChangeRow, Idle, Handler, Row, ChangeStatus, Pcs

LEMMA IdleOK == HandlerOK(Idle)
    BY DEF HandlerOK, Idle, Writing, Acking

LEMMA FreshType ==
    ASSUME TypeOK, NEW t \in Target, NEW want \in SUBSET Powers
    PROVE  /\ Fresh(t, want) \in Write
           /\ Captured(Fresh(t, want))
    BY DEF Fresh, Write, TypeOK, Powers, Captured, Holding

LEMMA NewRowType ==
    ASSUME NEW w \in Write, w.on \in Target
    PROVE  /\ NewRow(w) \in Row
           /\ NewRow(w).live <=> NewRow(w).version > 0
    BY NoRowType DEF NewRow, Write, Row, NoRow

\* History keeps its shape and only ever grows.
LEMMA AfterType ==
    ASSUME NEW w \in Write, NEW t \in Target, NEW new \in Row
    PROVE  /\ After(w, t, new) \in Write
           /\ After(w, t, new).on = w.on /\ After(w, t, new).seen = w.seen
           /\ After(w, t, new).guard = w.guard
           /\ After(w, t, new).want = w.want /\ After(w, t, new).gone = w.gone
           /\ w.back => After(w, t, new).back
    BY DEF After, Write

\* Writing row t leaves every capture sound.
LEMMA AfterCaptured ==
    ASSUME TypeOK, NEW w \in Write, w.on \in Target, Captured(w),
           NEW t \in Target, NEW new \in Row, row' = [row EXCEPT ![t] = new]
    PROVE  LET a == After(w, t, new)
           IN  /\ a.back \/ row'[a.on] = a.guard \/ row'[a.on].version > a.guard.version
               /\ a.on \notin TwoRead => a.guard = a.seen
<1> row[t].version \in Nat /\ new.version \in Nat /\ w.guard.version \in Nat /\ row \in [Target -> Row]
    BY DEF TypeOK, Row, Write
<1> DEFINE a == After(w, t, new)
<1>0. a.on = w.on /\ a.guard = w.guard /\ a.seen = w.seen /\ (w.back => a.back)
    BY AfterType
<1>1. a.on \notin TwoRead => a.guard = a.seen
    BY <1>0 DEF Captured
<1>2. CASE w.back
    BY <1>0, <1>1, <1>2
<1>3. CASE w.on # t
    <2>1. row'[w.on] = row[w.on]
        BY <1>3
    <2> QED BY <1>0, <1>1, <2>1 DEF Captured, Holding
<1>4. CASE w.on = t /\ new.version <= row[t].version
    <2>1. a = [w EXCEPT !.back = TRUE]
        BY <1>4 DEF After
    <2>2. a.back
        BY <2>1 DEF Write
    <2> QED BY <1>1, <2>2
<1>5. CASE w.on = t /\ ~(new.version <= row[t].version) /\ ~w.back
    <2>1. row[t] = w.guard \/ row[t].version > w.guard.version
        BY <1>5 DEF Captured, Holding
    <2>2. row'[t] = new /\ new.version > w.guard.version
        BY <1>5, <2>1
    <2> QED BY <1>0, <1>1, <1>5, <2>2
<1> QED BY <1>2, <1>3, <1>4, <1>5

-----------------------------------------------------------------------------
(* Steps that write no row.                                                *)

LEMMA BeginKeeps ==
    ASSUME IInv, NEW p \in Proc, NEW h \in Handler, HandlerOK(h), Begin(p, h)
    PROVE  IInv'
<1> USE DEF Begin, Set, Surroundings
<1>1. TypeOK'
    BY DEF IInv, TypeOK
<1>2. \A q \in Proc : proc'[q] = proc[q] \/ proc'[q] = h
    BY DEF IInv, TypeOK
<1>3. ASSUME NEW g, HandlerOK(g) PROVE HandlerOK(g)'
    BY <1>3 DEF HandlerOK, Writing, Acking, Captured, Holding, Tight, Pending
<1>4. \A q \in Proc : HandlerOK(proc[q])
    BY DEF IInv
<1>5. ASSUME NEW q \in Proc PROVE HandlerOK(proc[q])'
    <2>1. CASE proc'[q] = proc[q]
        BY <1>4, <2>1 DEF HandlerOK, Writing, Acking, Captured, Holding, Tight, Pending
    <2>2. CASE proc'[q] = h
        BY <2>2 DEF HandlerOK, Writing, Acking, Captured, Holding, Tight, Pending
    <2> QED BY <1>2, <2>1, <2>2
<1>6. \A c \in Change : ChangeOK(c)'
    BY DEF IInv, ChangeOK, Pending, Captured, Holding
<1> QED BY <1>1, <1>5, <1>6 DEF IInv

LEMMA ReturnKeeps ==
    ASSUME IInv, NEW p \in Proc, Return(p)
    PROVE  IInv'
    BY BeginKeeps, IdleOK, EmptyTypes DEF Return, Begin, Set, Stop

LEMMA GotoKeeps ==
    ASSUME IInv, NEW p \in Proc, NEW pc \in Pcs, Goto(p, pc),
           HandlerOK([proc[p] EXCEPT !.pc = pc])
    PROVE  IInv'
<1>1. [proc[p] EXCEPT !.pc = pc] \in Handler
    BY DEF IInv, TypeOK, Handler
<1>2. Begin(p, [proc[p] EXCEPT !.pc = pc])
    BY DEF Goto, Begin, Set, IInv, TypeOK
<1> QED BY <1>1, <1>2, BeginKeeps

LEMMA SettingKeeps ==
    ASSUME IInv, NEW p \in Proc, NEW u \in Person, NEW t \in TwoRead,
           \/ \E want \in Wish[t] : SettingRead(p, u, t, want)
           \/ \E x \in Power[t] : CatalogRead(p, u, t, x)
    PROVE  IInv'
<1>1. TypeOK /\ t \in Target
    BY DEF IInv, Target, Setting
<1>2. PICK want \in SUBSET Powers :
         Begin(p, [Idle EXCEPT !.pc = "version", !.by = u,
                               !.write = Fresh(t, want),
                               !.loose = Loosens(t, row[t].grants, want)])
    <2>1. row[t].grants \subseteq Powers /\ Power[t] \subseteq Powers /\ \A w \in Wish[t] : w \subseteq Powers
        BY <1>1, PowerSets DEF TypeOK, Row, Powers
    <2>2. CASE \E want \in Wish[t] : SettingRead(p, u, t, want)
        BY <2>1, <2>2 DEF SettingRead
    <2>3. CASE \E x \in Power[t] : CatalogRead(p, u, t, x)
        BY <2>1, <2>3 DEF CatalogRead
    <2> QED BY <2>2, <2>3
<1> DEFINE h == [Idle EXCEPT !.pc = "version", !.by = u,
                             !.write = Fresh(t, want),
                             !.loose = Loosens(t, row[t].grants, want)]
<1>3. Fresh(t, want) \in Write
    BY <1>1, FreshType
<1>4. h \in Handler
    BY <1>3, EmptyTypes DEF Handler, Pcs, Loosens
<1>5. h.pc = "version" /\ h.write.on = t /\ ~h.write.gone
    BY DEF Idle, Fresh
<1>6. HandlerOK(h)
    BY <1>5 DEF HandlerOK, Writing, Acking
<1> QED BY <1>2, <1>4, <1>6, BeginKeeps

LEMMA VersionKeeps ==
    ASSUME IInv, NEW p \in Proc, SettingVersion(p)
    PROVE  IInv'
<1> DEFINE old == proc[p].write
           w == [old EXCEPT !.guard = row[old.on]]
           h == [proc[p] EXCEPT !.pc = "commit", !.write = w]
<1>1. /\ TypeOK /\ proc[p].pc = "version" /\ old.on \in TwoRead /\ old.on \in Target
      /\ proc[p] \in Handler /\ old \in Write /\ ~old.gone
    BY DEF IInv, SettingVersion, HandlerOK, Target, Setting, TypeOK, Handler
<1>2. row[old.on] \in Row
    BY <1>1 DEF TypeOK
<1>3. w \in Write /\ w.on = old.on /\ w.guard = row[old.on] /\ w.gone = old.gone
    <2> HIDE DEF old
    <2> QED BY <1>1, <1>2 DEF Write
<1>4. h \in Handler /\ h.pc = "commit" /\ h.write = w
    <2> HIDE DEF w
    <2> QED BY <1>1, <1>3 DEF Handler, Pcs
<1>5. w.on \notin OneRead \cup Person /\ Captured(w)
    BY <1>1, <1>3, AdministrationConstants DEF Setting, Captured, Holding
<1>6. HandlerOK(h)
    <2> HIDE DEF h, w, old
    <2> QED BY <1>1, <1>3, <1>4, <1>5 DEF HandlerOK, Writing, Acking, Tight
<1>7. Begin(p, h)
    BY DEF SettingVersion
<1> HIDE DEF h
<1> QED BY <1>4, <1>6, <1>7, BeginKeeps

\* A handler that read its row in one go and classified it is in order.
LEMMA ReadyOK ==
    ASSUME IInv, NEW u \in Person, NEW t \in Target \ TwoRead, NEW want \in SUBSET Powers,
           NEW pc \in {"cover", "commit"}, NEW gone \in BOOLEAN, NEW loose \in BOOLEAN,
           pc = "cover" => t \in Person,
           pc = "commit" /\ gone => t \notin Person /\ want = Default[t],
           loose \/ (pc = "cover" /\ gone)
              \/ Tight([Fresh(t, want) EXCEPT !.gone = gone])
    PROVE  LET h == [Idle EXCEPT !.pc = pc, !.by = u,
                                 !.write = [Fresh(t, want) EXCEPT !.gone = gone],
                                 !.loose = loose]
           IN  h \in Handler /\ HandlerOK(h)
<1> DEFINE w == [Fresh(t, want) EXCEPT !.gone = gone]
           h == [Idle EXCEPT !.pc = pc, !.by = u, !.write = w, !.loose = loose]
<1>1. Fresh(t, want) \in Write /\ TypeOK
    BY FreshType DEF IInv
<1>2. /\ w \in Write /\ w.on = t /\ w.gone = gone /\ w.want = want
      /\ w.seen = row[t] /\ w.guard = row[t]
    BY <1>1 DEF Write, Fresh
<1>3. Captured(w)
    BY <1>2 DEF Captured, Holding
<1>4. h \in Handler
    BY <1>2, EmptyTypes DEF Handler, Pcs
<1>5. h.pc = pc /\ h.write = w /\ h.loose = loose
    BY DEF Idle
<1>6. HandlerOK(h)
    <2> HIDE DEF h
    <2> QED BY <1>2, <1>3, <1>5 DEF HandlerOK, Writing, Acking
<1> QED BY <1>4, <1>6

LEMMA GoneFresh ==
    ASSUME TypeOK, NEW t \in Target, NEW want \in SUBSET Powers
    PROVE  [Fresh(t, want) EXCEPT !.gone = FALSE] = Fresh(t, want)
<1>1. Fresh(t, want) \in Write /\ Fresh(t, want).gone = FALSE
    BY FreshType DEF Fresh
<1> QED BY <1>1 DEF Write

LEMMA PolicyKeeps ==
    ASSUME IInv, NEW p \in Proc, NEW u \in Person, NEW t \in OneRead,
           \/ \E want \in Wish[t] : PolicyRead(p, u, t, want)
           \/ RiskClearRead(p, u, t)
    PROVE  IInv'
<1>1. TypeOK /\ t \in Target \ TwoRead /\ t \notin Person
    BY AdministrationConstants DEF IInv, Target, Setting
<1>2. ASSUME NEW want \in SUBSET Powers, NEW gone \in BOOLEAN, ~Loosens(t, row[t].grants, want)
      PROVE  Tight([Fresh(t, want) EXCEPT !.gone = gone])
    <2>1. want \ row[t].grants = {}
        BY <1>2 DEF Loosens
    <2>2. LET w == [Fresh(t, want) EXCEPT !.gone = gone]
          IN  w.on = t /\ w.want = want /\ w.seen = row[t]
        BY DEF Fresh
    <2> QED BY <1>1, <2>1, <2>2 DEF Tight
<1>3. \A want \in SUBSET Powers : Loosens(t, row[t].grants, want) \in BOOLEAN
    BY DEF Loosens
<1>4. CASE \E want \in Wish[t] : PolicyRead(p, u, t, want)
    <2>1. PICK want \in Wish[t] : PolicyRead(p, u, t, want)
        BY <1>4
    <2>2. want \in SUBSET Powers
        BY <1>1, PowerSets
    <2> DEFINE h == [Idle EXCEPT !.pc = "commit", !.by = u,
                                 !.write = [Fresh(t, want) EXCEPT !.gone = FALSE],
                                 !.loose = Loosens(t, row[t].grants, want)]
    <2>3. h \in Handler /\ HandlerOK(h)
        BY <1>1, <1>2, <1>3, <2>2, ReadyOK
    <2>4. Begin(p, h)
        BY <1>1, <2>1, <2>2, GoneFresh DEF PolicyRead
    <2> QED BY <2>3, <2>4, BeginKeeps
<1>5. CASE RiskClearRead(p, u, t)
    <2>1. Default[t] \in SUBSET Powers
        BY <1>1, PowerSets
    <2> DEFINE h == [Idle EXCEPT !.pc = "commit", !.by = u,
                                 !.write = [Fresh(t, Default[t]) EXCEPT !.gone = TRUE],
                                 !.loose = Loosens(t, row[t].grants, Default[t])]
    <2>2. h \in Handler /\ HandlerOK(h)
        BY <1>1, <1>2, <1>3, <2>1, ReadyOK
    <2> QED BY <1>5, <2>2, BeginKeeps DEF RiskClearRead
<1> QED BY <1>4, <1>5

LEMMA AccountKeeps ==
    ASSUME IInv, NEW p \in Proc, NEW u \in Person, NEW t \in Person,
           \/ \E want \in Wish[t] : PatchRead(p, u, t, want) \/ EnrolRead(p, u, t, want)
           \/ DeleteRead(p, u, t) \/ TouchRead(p, u, t) \/ RenameRead(p, u, t)
    PROVE  IInv'
<1>1. TypeOK /\ t \in Target \ TwoRead /\ t \notin OneRead
    BY AdministrationConstants DEF IInv, Target, Setting
<1>2. \A want \in Wish[t] : want \in SUBSET Powers
    BY <1>1, PowerSets
<1>3. row[t].grants \in SUBSET Powers
    BY <1>1 DEF TypeOK, Row, Powers
<1>4. ASSUME NEW want \in SUBSET Powers
      PROVE  LET w == [Fresh(t, want) EXCEPT !.gone = FALSE]
             IN  w.on = t /\ w.want = want /\ w.seen = row[t] /\ w = Fresh(t, want)
    BY <1>1, GoneFresh DEF Fresh
<1>5. CASE \E want \in Wish[t] : PatchRead(p, u, t, want)
    <2>1. PICK want \in Wish[t] : PatchRead(p, u, t, want)
        BY <1>5
    <2> DEFINE loose == Loosens(t, row[t].grants, want)
               h == [Idle EXCEPT !.pc = "cover", !.by = u,
                                 !.write = [Fresh(t, want) EXCEPT !.gone = FALSE],
                                 !.loose = loose]
    <2>2. loose \in BOOLEAN
        BY DEF Loosens
    <2>3. row[t].live
        BY <2>1 DEF PatchRead
    <2>4. ~loose => want \subseteq row[t].grants /\ ("admin" \in row[t].grants => "admin" \in want)
        BY DEF Loosens
    <2>5. loose \/ Tight([Fresh(t, want) EXCEPT !.gone = FALSE])
        BY <1>2, <1>4, <2>3, <2>4 DEF Tight
    <2>6. h \in Handler /\ HandlerOK(h)
        BY <1>1, <1>2, <2>2, <2>5, ReadyOK
    <2>7. Begin(p, h)
        BY <1>2, <1>4, <2>1 DEF PatchRead
    <2> QED BY <2>6, <2>7, BeginKeeps
<1>6. CASE \E want \in Wish[t] : EnrolRead(p, u, t, want)
    <2>1. PICK want \in Wish[t] : EnrolRead(p, u, t, want)
        BY <1>6
    <2>2. PICK elsewhere \in BOOLEAN :
             Begin(p, [Idle EXCEPT !.pc = "commit", !.by = u, !.write = Fresh(t, want),
                                   !.loose = "lead" \in want \/ elsewhere])
        BY <2>1 DEF EnrolRead
    <2> DEFINE loose == "lead" \in want \/ elsewhere
               h == [Idle EXCEPT !.pc = "commit", !.by = u,
                                 !.write = [Fresh(t, want) EXCEPT !.gone = FALSE],
                                 !.loose = loose]
    <2>3. ~row[t].live
        BY <2>1 DEF EnrolRead
    <2>4. loose \/ Tight([Fresh(t, want) EXCEPT !.gone = FALSE])
        BY <1>2, <1>4, <2>3 DEF Tight
    <2>5. h \in Handler /\ HandlerOK(h)
        BY <1>1, <1>2, <2>4, ReadyOK
    <2>6. Begin(p, h)
        BY <1>2, <1>4, <2>2
    <2> QED BY <2>5, <2>6, BeginKeeps
<1>7. CASE DeleteRead(p, u, t)
    <2> DEFINE w == [Fresh(t, {}) EXCEPT !.gone = TRUE]
               h == [Idle EXCEPT !.pc = "cover", !.by = u, !.write = w]
    <2>1. Fresh(t, {}) \in Write
        BY <1>1, FreshType
    <2>2. w \in Write /\ w.on = t /\ w.gone /\ w.seen = row[t] /\ w.guard = row[t]
        BY <2>1 DEF Write, Fresh
    <2>3. h \in Handler /\ h.pc = "cover" /\ h.write = w
        BY <2>2, EmptyTypes DEF Handler, Pcs
    <2>4. HandlerOK(h)
        <3> HIDE DEF h
        <3> QED BY <1>1, <2>2, <2>3 DEF HandlerOK, Writing, Acking, Captured, Holding
    <2> QED BY <1>7, <2>3, <2>4, BeginKeeps DEF DeleteRead
<1>8. CASE TouchRead(p, u, t)
    <2>1. PICK loose \in BOOLEAN :
             Begin(p, [Idle EXCEPT !.pc = "commit", !.by = u,
                                   !.write = Fresh(t, row[t].grants), !.loose = loose])
        BY <1>8 DEF TouchRead
    <2> DEFINE want == row[t].grants
               h == [Idle EXCEPT !.pc = "commit", !.by = u,
                                 !.write = [Fresh(t, want) EXCEPT !.gone = FALSE],
                                 !.loose = loose]
    <2>2. row[t].live
        BY <1>8 DEF TouchRead
    <2>3. Tight([Fresh(t, want) EXCEPT !.gone = FALSE])
        BY <1>3, <1>4, <2>2 DEF Tight
    <2>5. h \in Handler /\ HandlerOK(h)
        BY <1>1, <1>3, <2>3, ReadyOK
    <2>6. Begin(p, h)
        BY <1>3, <1>4, <2>1
    <2> QED BY <2>5, <2>6, BeginKeeps
<1>9. CASE RenameRead(p, u, t)
    <2> DEFINE h == [Idle EXCEPT !.pc = "rename", !.by = u, !.write = Fresh(t, {})]
    <2>1. Fresh(t, {}) \in Write /\ Fresh(t, {}).on = t /\ Captured(Fresh(t, {}))
        BY <1>1, FreshType DEF Fresh
    <2>2. h \in Handler /\ h.pc = "rename" /\ h.write = Fresh(t, {})
        BY <2>1, EmptyTypes DEF Handler, Pcs
    <2>3. HandlerOK(h)
        <3> HIDE DEF h
        <3> QED BY <1>1, <2>1, <2>2 DEF HandlerOK, Writing, Acking
    <2> QED BY <1>9, <2>2, <2>3, BeginKeeps DEF RenameRead
<1> QED BY <1>5, <1>6, <1>7, <1>8, <1>9

LEMMA CoverKeeps ==
    ASSUME IInv, NEW p \in Proc, CoverRead(p)
    PROVE  IInv'
<1>1. proc[p] \in Handler /\ HandlerOK(proc[p]) /\ proc[p].pc = "cover"
    BY DEF IInv, TypeOK, CoverRead
<1>2. CASE Return(p)
    BY <1>2, ReturnKeeps
<1>3. CASE Goto(p, IF proc[p].write.gone THEN "remove" ELSE "commit")
    <2> DEFINE pc == IF proc[p].write.gone THEN "remove" ELSE "commit"
               h == [proc[p] EXCEPT !.pc = pc]
    <2>1. h.pc = pc /\ h.write = proc[p].write /\ h.loose = proc[p].loose
        BY <1>1 DEF Handler
    <2>2. HandlerOK(h)
        <3> HIDE DEF h
        <3> QED BY <1>1, <2>1 DEF HandlerOK, Writing, Acking
    <2>3. pc \in Pcs
        BY DEF Pcs
    <2> QED BY <1>3, <2>2, <2>3, GotoKeeps
<1> QED BY <1>2, <1>3 DEF CoverRead

LEMMA AckReadKeeps ==
    ASSUME IInv, NEW p \in Proc, NEW u \in Person, NEW c \in Change, AckRead(p, u, c)
    PROVE  IInv'
<1> DEFINE h == [Idle EXCEPT !.pc = IF Expired(c) THEN "expire" ELSE "drift",
                             !.by = u, !.ref = c, !.at = now, !.write = change[c].write]
<1>1. change[c] \in ChangeRow /\ now \in Nat /\ ChangeOK(c) /\ Pending(c)
    BY DEF IInv, TypeOK, AckRead
<1>2. h \in Handler
    BY <1>1, EmptyTypes DEF Handler, Pcs, ChangeRow
<1>3. /\ h.pc \in {"expire", "drift"} /\ h.ref = c /\ h.write = change[c].write
      /\ h.by = u /\ h.at = now /\ (h.pc = "drift" => ~Expired(c) /\ u # change[c].by)
    BY DEF Idle, AckRead
<1>4. ~Expired(c) => now <= change[c].expires
    BY <1>1 DEF Expired, ChangeRow
<1>5. HandlerOK(h)
    <2> HIDE DEF h
    <2> QED BY <1>1, <1>3, <1>4 DEF HandlerOK, Writing, Acking, Pending
<1> QED BY <1>2, <1>5, BeginKeeps DEF AckRead

LEMMA RejectReadKeeps ==
    ASSUME IInv, NEW p \in Proc, NEW c \in Change,
           (\E u \in Person : RejectRead(p, u, c)) \/ ListRead(p, c)
    PROVE  IInv'
<1>1. PICK h \in Handler : h.pc \in {"expire", "reject"} /\ h.ref = c /\ Begin(p, h)
    <2>1. now \in Nat
        BY DEF IInv, TypeOK
    <2>2. CASE \E u \in Person : RejectRead(p, u, c)
        <3>1. PICK u \in Person : RejectRead(p, u, c)
            BY <2>2
        <3> DEFINE h == [Idle EXCEPT !.pc = IF Expired(c) THEN "expire" ELSE "reject",
                                     !.by = u, !.ref = c, !.at = now]
        <3>2. h \in Handler /\ h.pc \in {"expire", "reject"} /\ h.ref = c
            BY <2>1, EmptyTypes DEF Handler, Pcs
        <3>3. Begin(p, h)
            BY <3>1 DEF RejectRead
        <3> QED BY <3>2, <3>3
    <2>3. CASE ListRead(p, c)
        <3> DEFINE h == [Idle EXCEPT !.pc = "expire", !.ref = c, !.at = now]
        <3>1. h \in Handler /\ h.pc \in {"expire", "reject"} /\ h.ref = c
            BY <2>1, EmptyTypes DEF Handler, Pcs
        <3>2. Begin(p, h)
            BY <2>3 DEF ListRead
        <3> QED BY <3>1, <3>2
    <2> QED BY <2>2, <2>3
<1>2. HandlerOK(h)
    BY <1>1 DEF HandlerOK, Writing, Acking
<1> QED BY <1>1, <1>2, BeginKeeps

LEMMA DriftKeeps ==
    ASSUME IInv, NEW p \in Proc, AckDrift(p)
    PROVE  IInv'
<1>1. proc[p] \in Handler /\ HandlerOK(proc[p]) /\ proc[p].pc = "drift"
    BY DEF IInv, TypeOK, AckDrift
<1>2. CASE Return(p)
    BY <1>2, ReturnKeeps
<1>3. CASE Goto(p, "ack")
    <2> DEFINE h == [proc[p] EXCEPT !.pc = "ack"]
    <2>1. /\ h.pc = "ack" /\ h.write = proc[p].write /\ h.ref = proc[p].ref
          /\ h.by = proc[p].by /\ h.at = proc[p].at
        BY <1>1 DEF Handler
    <2>2. HandlerOK(h)
        <3> HIDE DEF h
        <3> QED BY <1>1, <2>1 DEF HandlerOK, Writing, Acking
    <2> QED BY <1>3, <2>2, GotoKeeps DEF Pcs
<1> QED BY <1>2, <1>3 DEF AckDrift

-----------------------------------------------------------------------------
(* Steps that write a row.                                                 *)

LEMMA PutRowKeeps ==
    ASSUME IInv, NEW p \in Proc, NEW t \in Target, NEW new \in Row,
           new.live <=> new.version > 0,
           NEW ch \in [Change -> ChangeRow],
           \A c \in Change : ch[c] = change[c] \/ ch[c].status \in Outcome,
           PutRow(p, t, new, ch)
    PROVE  IInv'
<1> USE DEF PutRow, Surroundings
<1>0. TypeOK
    BY DEF IInv
<1>1. row' = [row EXCEPT ![t] = new] /\ row' \in [Target -> Row]
      /\ \A x \in Target : row'[x].live <=> row'[x].version > 0
    BY <1>0 DEF TypeOK
<1>2. change' = [c \in Change |-> [ch[c] EXCEPT !.write = After(@, t, new)]]
    BY DEF AgeChanges
<1>3. \A c \in Change : /\ change'[c] \in ChangeRow
                        /\ change'[c].status = ch[c].status /\ change'[c].by = ch[c].by
                        /\ change'[c].expires = ch[c].expires
                        /\ change'[c].write = After(ch[c].write, t, new)
    <2> TAKE c \in Change
    <2>1. ch[c] \in ChangeRow /\ ch[c].write \in Write
        BY DEF ChangeRow
    <2>2. After(ch[c].write, t, new) \in Write
        BY <2>1, AfterType
    <2> QED BY <1>2, <2>1, <2>2 DEF ChangeRow
<1>4. Stop(p) \in [Proc -> Handler]
    BY <1>0, EmptyTypes DEF Stop, TypeOK
<1>5. proc' = [q \in Proc |-> [Stop(p)[q] EXCEPT !.write = After(@, t, new)]]
    BY DEF AgeProcs
<1>6. \A q \in Proc : LET h == Stop(p)[q]
                      IN  /\ proc'[q] \in Handler
                          /\ proc'[q].pc = h.pc /\ proc'[q].by = h.by /\ proc'[q].loose = h.loose
                          /\ proc'[q].ref = h.ref /\ proc'[q].at = h.at
                          /\ proc'[q].write = After(h.write, t, new)
    <2> TAKE q \in Proc
    <2>1. Stop(p)[q] \in Handler /\ Stop(p)[q].write \in Write
        BY <1>4 DEF Handler
    <2>2. After(Stop(p)[q].write, t, new) \in Write
        BY <2>1, AfterType
    <2> QED BY <1>5, <2>1, <2>2 DEF Handler
<1>7. TypeOK'
    <2>1. change' \in [Change -> ChangeRow]
        BY <1>2, <1>3
    <2>2. proc' \in [Proc -> Handler]
        BY <1>5, <1>6
    <2> QED BY <1>0, <1>1, <2>1, <2>2 DEF TypeOK
<1>8. ASSUME NEW w \in Write, w.on \in Target, Captured(w)
      PROVE  LET a == After(w, t, new)
             IN  /\ a.back \/ row'[a.on] = a.guard \/ row'[a.on].version > a.guard.version
                 /\ a.on \notin TwoRead => a.guard = a.seen
    BY <1>0, <1>1, <1>8, AfterCaptured
<1>9. \A c \in Change : ChangeOK(c)'
    <2> TAKE c \in Change
    <2> SUFFICES ASSUME change'[c].status = "PENDING"
                 PROVE  /\ change'[c].write.on \in Target
                        /\ \/ change'[c].write.back
                           \/ row'[change'[c].write.on] = change'[c].write.guard
                           \/ row'[change'[c].write.on].version > change'[c].write.guard.version
                        /\ change'[c].write.on \notin TwoRead
                             => change'[c].write.guard = change'[c].write.seen
        BY DEF ChangeOK, Pending, Captured, Holding
    <2>1. ch[c] = change[c] /\ Pending(c) /\ ch[c] \in ChangeRow
        BY <1>3 DEF Pending, Outcome
    <2>2. ch[c].write \in Write /\ ch[c].write.on \in Target /\ Captured(ch[c].write)
        BY <2>1 DEF IInv, ChangeOK, ChangeRow
    <2>3. After(ch[c].write, t, new).on = ch[c].write.on
        BY <2>2, AfterType
    <2> QED BY <1>3, <1>8, <2>2, <2>3
<1>10. \A q \in Proc : HandlerOK(proc[q])'
    <2> TAKE q \in Proc
    <2> DEFINE h == Stop(p)[q]
               a == After(h.write, t, new)
    <2>1. h \in Handler /\ h.write \in Write /\ HandlerOK(h)
        <3>1. h = Idle \/ h = proc[q]
            BY <1>0 DEF Stop, TypeOK
        <3>2. h \in Handler
            BY <1>4
        <3> QED BY <3>1, <3>2, IdleOK DEF IInv, Handler
    <2>2. /\ a.on = h.write.on /\ a.seen = h.write.seen
          /\ a.want = h.write.want /\ a.gone = h.write.gone
        BY <2>1, AfterType
    <2>3. /\ proc'[q].pc = h.pc /\ proc'[q].by = h.by /\ proc'[q].loose = h.loose
          /\ proc'[q].ref = h.ref /\ proc'[q].at = h.at /\ proc'[q].write = a
        BY <1>6
    <2> HIDE DEF h, a
    <2>4. Writing(h) => /\ a.on \in Target
                        /\ \/ a.back
                           \/ row'[a.on] = a.guard
                           \/ row'[a.on].version > a.guard.version
                        /\ a.on \notin TwoRead => a.guard = a.seen
        BY <1>8, <2>1, <2>2 DEF HandlerOK, a
    <2>5. Acking(h) /\ change'[h.ref].status = "PENDING"
            => /\ a = change'[h.ref].write
               /\ h.by # change'[h.ref].by
               /\ h.at <= change'[h.ref].expires
        <3> SUFFICES ASSUME Acking(h), change'[h.ref].status = "PENDING"
                     PROVE  /\ a = change'[h.ref].write
                            /\ h.by # change'[h.ref].by
                            /\ h.at <= change'[h.ref].expires
            OBVIOUS
        <3>1. h.ref \in Change
            BY <2>1 DEF HandlerOK, Acking
        <3>2. ch[h.ref] = change[h.ref] /\ Pending(h.ref)
            BY <1>3, <3>1 DEF Pending, Outcome
        <3>3. /\ h.write = change[h.ref].write /\ h.by # change[h.ref].by
              /\ h.at <= change[h.ref].expires
            BY <2>1, <3>2 DEF HandlerOK
        <3> QED BY <1>3, <3>1, <3>2, <3>3 DEF a
    <2>6. h.pc \in {"cover", "commit"} /\ ~h.loose /\ ~(h.pc = "cover" /\ h.write.gone) => Tight(h.write)
        BY <2>1 DEF HandlerOK
    <2>7. Tight(h.write) => Tight(proc[q].write)'
        BY <2>2, <2>3 DEF Tight
    <2>8. Writing(h) => Captured(proc[q].write)'
        BY <2>3, <2>4 DEF Captured, Holding
    <2>9. /\ h.pc = "version" => h.write.on \in TwoRead /\ ~h.write.gone
          /\ h.pc \in {"cover", "rename", "remove"} => h.write.on \in Person
          /\ h.pc = "commit" /\ h.write.on \in Person => ~h.write.gone
          /\ h.pc = "commit" /\ h.write.gone => h.write.want = Default[h.write.on]
          /\ h.pc \in {"drift", "ack", "reject", "expire"} => h.ref \in Change
        BY <2>1 DEF HandlerOK
    <2>10. Acking(h) => change'[h.ref].status # "free"
        BY <1>3, <2>1 DEF HandlerOK, Acking, Outcome
    <2> QED BY <2>2, <2>3, <2>4, <2>5, <2>6, <2>7, <2>8, <2>9, <2>10
            DEF HandlerOK, Writing, Acking, Pending
<1> QED BY <1>7, <1>9, <1>10 DEF IInv

LEMMA ResolveType ==
    ASSUME TypeOK, NEW c \in Change, NEW status \in {"APPLIED", "REJECTED", "EXPIRED"}
    PROVE  /\ Resolve(c, status) \in [Change -> ChangeRow]
           /\ Resolve(c, status)[c].status = status
           /\ \A d \in Change \ {c} : Resolve(c, status)[d] = change[d]
<1>1. [FreeChange EXCEPT !.status = status] \in ChangeRow
    BY EmptyTypes DEF ChangeRow, ChangeStatus
<1>2. [FreeChange EXCEPT !.status = status].status = status
    BY DEF FreeChange
<1> QED BY <1>1, <1>2 DEF Resolve, TypeOK

LEMMA CommitKeeps ==
    ASSUME IInv, NEW p \in Proc, CommitWrite(p)
    PROVE  IInv'
<1> DEFINE w == proc[p].write
<1>1. w \in Write /\ w.on \in Target /\ change \in [Change -> ChangeRow]
    BY DEF IInv, TypeOK, CommitWrite, HandlerOK, Writing, Handler
<1>2. CASE Return(p)
    BY <1>2, ReturnKeeps
<1>3. CASE PutRow(p, w.on, NewRow(w), change)
    BY <1>1, <1>3, NewRowType, PutRowKeeps
<1> QED BY <1>2, <1>3 DEF CommitWrite

LEMMA DeleteKeeps ==
    ASSUME IInv, NEW p \in Proc, DeleteWrite(p)
    PROVE  IInv'
<1> DEFINE t == proc[p].write.on
<1>1. t \in Target /\ change \in [Change -> ChangeRow]
    BY DEF IInv, TypeOK, DeleteWrite, HandlerOK, Writing
<1>2. NoRow(t) \in Row /\ (NoRow(t).live <=> NoRow(t).version > 0)
    BY <1>1, NoRowType DEF NoRow
<1> QED BY <1>1, <1>2, PutRowKeeps DEF DeleteWrite

LEMMA RenameKeeps ==
    ASSUME IInv, NEW p \in Proc, RenameWrite(p)
    PROVE  IInv'
<1> DEFINE w == proc[p].write
           new == [live |-> TRUE, version |-> w.seen.version + 1,
                   grants |-> IF row[w.on].live THEN row[w.on].grants ELSE {}]
<1>1. w \in Write /\ w.on \in Target /\ change \in [Change -> ChangeRow] /\ row \in [Target -> Row]
    BY DEF IInv, TypeOK, RenameWrite, HandlerOK, Writing, Handler
<1>2. new \in Row /\ (new.live <=> new.version > 0)
    BY <1>1 DEF Row, Write
<1> QED BY <1>1, <1>2, PutRowKeeps DEF RenameWrite

LEMMA AckKeeps ==
    ASSUME IInv, NEW p \in Proc, AckCommit(p)
    PROVE  IInv'
<1> DEFINE c == proc[p].ref
           w == proc[p].write
<1>1. TypeOK /\ HandlerOK(proc[p]) /\ proc[p].pc = "ack" /\ c \in Change
    BY DEF IInv, AckCommit, HandlerOK
<1>2. CASE Return(p)
    BY <1>2, ReturnKeeps
<1>3. CASE Pending(c) /\ PutRow(p, w.on, NewRow(w), Resolve(c, "APPLIED"))
    <2>1. w = change[c].write /\ change[c] \in ChangeRow /\ ChangeOK(c)
        BY <1>1, <1>3 DEF IInv, HandlerOK, Acking, TypeOK
    <2>2. w \in Write /\ w.on \in Target
        BY <1>3, <2>1 DEF ChangeOK, ChangeRow
    <2>3. NewRow(w) \in Row /\ (NewRow(w).live <=> NewRow(w).version > 0)
        BY <2>2, NewRowType
    <2> DEFINE ch == Resolve(c, "APPLIED")
    <2>4. ch \in [Change -> ChangeRow] /\ \A d \in Change : ch[d] = change[d] \/ ch[d].status \in Outcome
        BY <1>1, ResolveType DEF Outcome
    <2>5. PutRow(p, w.on, NewRow(w), ch)
        BY <1>3
    <2> HIDE DEF ch, w
    <2> QED BY <2>2, <2>3, <2>4, <2>5, PutRowKeeps
<1> QED BY <1>2, <1>3 DEF AckCommit

\* Steps that change the pending changes but no row.
LEMMA ChangesKeep ==
    ASSUME IInv, NEW p \in Proc, row' = row, proc' = Stop(p), UNCHANGED Surroundings,
           change' \in [Change -> ChangeRow],
           \A c \in Change : \/ change'[c] = change[c]
                             \/ change'[c].status \in Outcome
                             \/ /\ change[c].status = "free"
                                /\ change'[c].status = "PENDING"
                                /\ change'[c].write.on \in Target
                                /\ Captured(change'[c].write)
    PROVE  IInv'
<1>1. TypeOK'
    BY EmptyTypes DEF IInv, TypeOK, Stop, Surroundings
<1>2. \A c \in Change : ChangeOK(c)'
    BY DEF IInv, ChangeOK, Pending, Captured, Holding, Outcome
<1>3. ASSUME NEW q \in Proc
      PROVE  HandlerOK(proc[q])'
    <2>1. CASE proc'[q] = Idle
        BY <2>1 DEF HandlerOK, Idle, Writing, Acking
    <2>2. CASE proc'[q] = proc[q]
        <3> DEFINE h == proc[q]
        <3>1. HandlerOK(h)
            BY DEF IInv
        <3> HIDE DEF h
        <3>2. Acking(h) => h.ref \in Change /\ change[h.ref].status # "free"
            BY <3>1 DEF HandlerOK, Acking
        <3>3. Acking(h) => change'[h.ref].status # "free"
            BY <3>2 DEF Outcome
        <3>4. Acking(h) /\ change'[h.ref].status = "PENDING" => change'[h.ref] = change[h.ref]
            BY <3>2 DEF Outcome
        <3>5. proc'[q] = h
            BY <2>2 DEF h
        <3> QED BY <3>1, <3>3, <3>4, <3>5 DEF HandlerOK, Writing, Acking, Captured, Holding, Tight, Pending
    <2> QED BY <2>1, <2>2 DEF Stop, IInv, TypeOK
<1> QED BY <1>1, <1>2, <1>3 DEF IInv

LEMMA ResolveKeeps ==
    ASSUME IInv, NEW p \in Proc, RejectCommit(p) \/ ExpireWrite(p)
    PROVE  IInv'
<1> DEFINE c == proc[p].ref
<1>1. PICK status \in {"REJECTED", "EXPIRED"} :
         /\ change' = IF Pending(c) THEN Resolve(c, status) ELSE change
         /\ proc' = Stop(p) /\ row' = row /\ UNCHANGED Surroundings
    BY DEF RejectCommit, ExpireWrite, ResolveWrite
<1>2. TypeOK /\ c \in Change
    BY DEF IInv, RejectCommit, ExpireWrite, ResolveWrite, HandlerOK
<1>3. change' \in [Change -> ChangeRow]
    BY <1>1, <1>2, ResolveType DEF TypeOK
<1>4. \A d \in Change : change'[d] = change[d] \/ change'[d].status \in Outcome
    BY <1>1, <1>2, ResolveType DEF Outcome
<1> QED BY <1>1, <1>3, <1>4, ChangesKeep

LEMMA ProposeKeeps ==
    ASSUME IInv, NEW p \in Proc, NEW c \in Change, Propose(p, c)
    PROVE  IInv'
<1> DEFINE new == [status |-> "PENDING", by |-> proc[p].by,
                   write |-> proc[p].write, expires |-> now + Lease]
<1>1. /\ TypeOK /\ proc[p] \in Handler /\ HandlerOK(proc[p]) /\ proc[p].pc = "commit"
      /\ change[c].status = "free" /\ change' = [change EXCEPT ![c] = new]
    BY DEF IInv, TypeOK, Propose
<1>2. new \in ChangeRow
    BY <1>1, AdministrationConstants DEF TypeOK, Handler, ChangeRow, ChangeStatus
<1>3. proc[p].write.on \in Target /\ Captured(proc[p].write)
    BY <1>1 DEF HandlerOK, Writing
<1> HIDE DEF new
<1>4. change' \in [Change -> ChangeRow] /\ change'[c] = new
      /\ \A d \in Change \ {c} : change'[d] = change[d]
    BY <1>1, <1>2 DEF TypeOK
<1>5. new.status = "PENDING" /\ new.write = proc[p].write
    BY DEF new
<1> QED BY <1>1, <1>3, <1>4, <1>5, ChangesKeep DEF Propose

\* Steps that leave the rows, the changes and their handlers alone.
LEMMA ElsewhereKeeps ==
    ASSUME IInv, UNCHANGED <<mix, row, change, proc>>, TypeOK'
    PROVE  IInv'
<1>1. \A q \in Proc : HandlerOK(proc[q])'
    BY DEF IInv, HandlerOK, Writing, Acking, Captured, Holding, Tight, Pending
<1>2. \A c \in Change : ChangeOK(c)'
    BY DEF IInv, ChangeOK, Pending, Captured, Holding
<1> QED BY <1>1, <1>2 DEF IInv

LEMMA TeamRowEdit ==
    ASSUME NEW r \in TeamRow, NEW want \in SUBSET Slug
    PROVE  [r EXCEPT !.slugs = @ \ want, !.version = @ + 1] \in TeamRow
<1> DEFINE less == [r EXCEPT !.slugs = r.slugs \ want]
<1>1. r.slugs \ want \in SUBSET Slug /\ r.version + 1 \in Nat
    BY DEF TeamRow
<1>2. less \in TeamRow
    BY <1>1 DEF TeamRow
<1> HIDE DEF less
<1>3. [less EXCEPT !.version = r.version + 1] \in TeamRow
    BY <1>1, <1>2 DEF TeamRow
<1> QED BY <1>3 DEF less

LEMMA EditTeamsKeeps ==
    ASSUME IInv, NEW p \in Proc, EditTeams(p)
    PROVE  IInv'
<1> USE DEF Desk
<1>1. TypeOK /\ NoTeam \in TeamRow /\ IdleClerk \in Clerk
    BY DEF IInv, NoTeam, TeamRow, IdleClerk, Clerk
<1>2. ASSUME NEW k \in Clerk, clerk' = [clerk EXCEPT ![p] = k], UNCHANGED <<team, Desk>>
      PROVE  TypeOK'
    BY <1>1, <1>2 DEF TypeOK
<1>3. ASSUME NEW t \in Team, NEW want \in SUBSET Slug, TeamRead(p, t, want)
      PROVE  TypeOK'
    <2>1. Involved(t, want) \in [Team -> TeamRow]
        BY <1>1 DEF Involved, TypeOK
    <2>2. [pc |-> "put", on |-> t, seen |-> Involved(t, want), want |-> want, back |-> FALSE] \in Clerk
        BY <2>1 DEF Clerk
    <2> QED BY <1>2, <1>3, <2>2 DEF TeamRead
<1>4. ASSUME NEW t \in Team, TeamRenameRead(p, t)
      PROVE  TypeOK'
    <2> DEFINE k == [pc |-> "put", on |-> t, back |-> FALSE,
                     seen |-> [x \in Team |-> IF x = t THEN team[x] ELSE NoTeam],
                     want |-> team[t].slugs]
    <2>1. k \in Clerk
        BY <1>1 DEF Clerk, TypeOK, TeamRow
    <2> QED BY <1>2, <1>4, <2>1 DEF TeamRenameRead
<1>5. ASSUME NEW t \in Team, TeamDeleteRead(p, t)
      PROVE  TypeOK'
    <2>1. [IdleClerk EXCEPT !.pc = "drop", !.on = t] \in Clerk
        BY <1>1 DEF Clerk
    <2> QED BY <1>2, <1>5, <2>1 DEF TeamDeleteRead
<1>6. ASSUME TeamWrite(p)
      PROVE  TypeOK'
    <2> DEFINE k == clerk[p]
               new == [t \in Team |->
                         IF t = k.on
                         THEN [live |-> TRUE, slugs |-> k.want, version |-> k.seen[t].version + 1]
                         ELSE IF t \in Stripped(k)
                         THEN [k.seen[t] EXCEPT !.slugs = @ \ k.want, !.version = @ + 1]
                         ELSE team[t]]
    <2>1. k \in Clerk
        BY <1>1 DEF TypeOK
    <2>2. \A t \in Team : k.seen[t] \in TeamRow
        BY <2>1 DEF Clerk
    <2>3. ASSUME NEW t \in Team
          PROVE  /\ [live |-> TRUE, slugs |-> k.want, version |-> k.seen[t].version + 1] \in TeamRow
                 /\ [k.seen[t] EXCEPT !.slugs = @ \ k.want, !.version = @ + 1] \in TeamRow
                 /\ team[t] \in TeamRow
        <3>1. k.seen[t] \in TeamRow /\ k.want \in SUBSET Slug /\ team[t] \in TeamRow
            BY <1>1, <2>1, <2>2 DEF TypeOK, Clerk
        <3>2. k.seen[t].version + 1 \in Nat
            BY <3>1 DEF TeamRow
        <3> HIDE DEF k
        <3> QED BY <3>1, <3>2, TeamRowEdit DEF TeamRow
    <2>3a. new \in [Team -> TeamRow]
        <3> HIDE DEF k
        <3> QED BY <2>3
    <2>4. team' \in [Team -> TeamRow]
        BY <1>1, <1>6, <2>3a DEF TeamWrite, TypeOK
    <2> QED BY <1>1, <1>6, <2>4 DEF TeamWrite, TypeOK
<1>7. ASSUME TeamDeleteWrite(p)
      PROVE  TypeOK'
    <2>1. \A q \in Proc : [clerk[q] EXCEPT !.back = TRUE] \in Clerk
        BY <1>1 DEF TypeOK, Clerk
    <2> QED BY <1>1, <1>7, <2>1 DEF TeamDeleteWrite, TypeOK
<1>8. TypeOK'
    BY <1>3, <1>4, <1>5, <1>6, <1>7 DEF EditTeams
<1>9. UNCHANGED <<mix, row, change, proc>>
    BY DEF EditTeams, TeamRead, TeamRenameRead, TeamDeleteRead, TeamWrite, TeamDeleteWrite
<1> QED BY <1>8, <1>9, ElsewhereKeeps

-----------------------------------------------------------------------------
LEMMA InitInv == Init => IInv
<1> SUFFICES ASSUME Init PROVE IInv
    OBVIOUS
<1>1. IdleClerk \in Clerk
    BY DEF IdleClerk, Clerk, NoTeam, TeamRow
<1>2. TypeOK
    BY <1>1, EmptyTypes, AdministrationConstants DEF Init, TypeOK
<1>3. \A p \in Proc : HandlerOK(proc[p])
    BY IdleOK DEF Init
<1>4. \A c \in Change : ChangeOK(c)
    BY DEF Init, FreeChange, ChangeOK, Pending
<1> QED BY <1>2, <1>3, <1>4 DEF IInv

LEMMA StepInv == IInv /\ [Next]_vars => IInv'
<1> SUFFICES ASSUME IInv, [Next]_vars PROVE IInv'
    OBVIOUS
<1>1. CASE UNCHANGED vars
    <2> USE <1>1 DEF vars
    <2>1. TypeOK'
        BY DEF IInv, TypeOK
    <2> QED BY <2>1, ElsewhereKeeps
<1>2. CASE ClockTick
    <2>1. TypeOK'
        BY <1>2 DEF ClockTick, IInv, TypeOK
    <2> QED BY <1>2, <2>1, ElsewhereKeeps DEF ClockTick
<1>3. ASSUME NEW p \in Proc, ReadRow(p) PROVE IInv'
    BY <1>3, SettingKeeps, PolicyKeeps, AccountKeeps DEF ReadRow
<1>4. ASSUME NEW p \in Proc, WriteRow(p) PROVE IInv'
    BY <1>4, VersionKeeps, CoverKeeps, CommitKeeps, DeleteKeeps, RenameKeeps, ProposeKeeps DEF WriteRow
<1>5. ASSUME NEW p \in Proc, DualControl(p) PROVE IInv'
    BY <1>5, AckReadKeeps, RejectReadKeeps, DriftKeeps, AckKeeps, ResolveKeeps DEF DualControl
<1>6. ASSUME NEW p \in Proc, GiveUp(p) PROVE IInv'
    BY <1>6, ReturnKeeps DEF GiveUp
<1>7. ASSUME NEW p \in Proc, EditTeams(p) PROVE IInv'
    BY <1>7, EditTeamsKeeps
<1> QED BY <1>1, <1>2, <1>3, <1>4, <1>5, <1>6, <1>7 DEF Next

\* The rows, the pending changes, the handlers and the teams are well formed
\* in every state, and a row exists exactly when it has a version.
THEOREM AdministrationTypes == Spec => []TypeOK
<1>1. IInv => TypeOK
    BY DEF IInv
<1> QED BY InitInv, StepInv, <1>1, PTL DEF Spec

LEMMA AlwaysInv == Spec => []IInv
    BY InitInv, StepInv, PTL DEF Spec

-----------------------------------------------------------------------------
(* What each step does to one row and to one change.                       *)

\* The statuses of the changes move only where a change is resolved or
\* proposed; writing a row leaves them alone.
LEMMA DriftStatus ==
    ASSUME NEW ch \in [Change -> ChangeRow], NEW t \in Target, NEW new \in Row, NEW c \in Change
    PROVE  AgeChanges(ch, t, new)[c].status = ch[c].status
<1>1. ch[c] \in ChangeRow
    OBVIOUS
<1> QED BY <1>1 DEF AgeChanges, ChangeRow

LEMMA PutStatus ==
    ASSUME TypeOK, NEW p \in Proc, NEW t \in Target, NEW new \in Row,
           NEW ch \in [Change -> ChangeRow], PutRow(p, t, new, ch)
    PROVE  /\ \A c \in Change : change'[c].status = ch[c].status
           /\ \A q \in Proc \ {p} : proc'[q].pc = proc[q].pc
           /\ proc'[p].pc = "idle"
           /\ \A x \in Target \ {t} : row'[x] = row[x]
           /\ row'[t] = new
<1>1. \A c \in Change : change'[c].status = ch[c].status
    BY DriftStatus DEF PutRow
<1>2. \A q \in Proc : proc'[q].pc = Stop(p)[q].pc
    <2>1. Stop(p) \in [Proc -> Handler]
        BY EmptyTypes DEF TypeOK, Stop
    <2>2. \A q \in Proc : Stop(p)[q] \in Handler
        BY <2>1
    <2> QED BY <2>2 DEF PutRow, AgeProcs, Handler
<1>3. Stop(p)[p].pc = "idle" /\ \A q \in Proc \ {p} : Stop(p)[q] = proc[q]
    BY DEF Stop, TypeOK, Idle
<1>4. (\A x \in Target \ {t} : row'[x] = row[x]) /\ row'[t] = new
    BY DEF PutRow, TypeOK
<1> QED BY <1>1, <1>2, <1>3, <1>4

Commits(p) == CommitWrite(p) /\ ~proc[p].loose /\ Matches(proc[p].write)
Acks(p) == AckCommit(p) /\ Pending(proc[p].ref) /\ Matches(proc[p].write)

\* Handler p alone ends, and no row but its own changes.
Alone(p) ==
    /\ proc'[p].pc = "idle"
    /\ \A q \in Proc \ {p} : proc'[q].pc = proc[q].pc
    /\ \A x \in Target \ {proc[p].write.on} : row'[x] = row[x]

SameStatus == \A c \in Change : change'[c].status = change[c].status
Becomes(c, status) ==
    /\ change'[c].status = status
    /\ \A d \in Change \ {c} : change'[d].status = change[d].status

Effect(p) ==
    \/ /\ SameStatus /\ proc[p].write.on \in Target /\ Alone(p)
       /\ \/ Commits(p) /\ row'[proc[p].write.on] = NewRow(proc[p].write)
          \/ DeleteWrite(p) \/ RenameWrite(p)
    \/ Acks(p) /\ Alone(p) /\ Becomes(proc[p].ref, "APPLIED")
    \/ /\ row' = row
       /\ \/ \E c \in Change : change[c].status = "free" /\ Becomes(c, "PENDING")
          \/ \E status \in {"REJECTED", "EXPIRED"} :
                Pending(proc[p].ref) /\ Becomes(proc[p].ref, status)

Inert == row' = row /\ SameStatus

LEMMA AckEffect ==
    ASSUME IInv, NEW p \in Proc, AckCommit(p)
    PROVE  Inert \/ Effect(p)
<1> DEFINE c == proc[p].ref
           w == proc[p].write
<1>1. TypeOK /\ HandlerOK(proc[p]) /\ proc[p].pc = "ack" /\ c \in Change
    BY DEF IInv, AckCommit, HandlerOK
<1>2. CASE Return(p)
    BY <1>2 DEF Return, Inert, SameStatus
<1>3. CASE Pending(c) /\ Matches(w) /\ PutRow(p, w.on, NewRow(w), Resolve(c, "APPLIED"))
    <2>1. w = change[c].write /\ w.on \in Target /\ w \in Write
        BY <1>1, <1>3 DEF IInv, HandlerOK, Acking, ChangeOK, TypeOK, ChangeRow
    <2>2. NewRow(w) \in Row
        BY <2>1, NewRowType
    <2> DEFINE ch == Resolve(c, "APPLIED")
    <2>3. /\ ch \in [Change -> ChangeRow]
          /\ ch[c].status = "APPLIED" /\ \A d \in Change \ {c} : ch[d] = change[d]
        BY <1>1, ResolveType
    <2>4. PutRow(p, w.on, NewRow(w), ch)
        BY <1>3
    <2> HIDE DEF ch
    <2>5. /\ \A d \in Change : change'[d].status = ch[d].status
          /\ Alone(p)
        BY <1>1, <2>1, <2>2, <2>3, <2>4, PutStatus DEF Alone
    <2>6. Becomes(c, "APPLIED")
        BY <1>1, <2>3, <2>5 DEF Becomes
    <2> QED BY <1>3, <2>5, <2>6 DEF Effect, Acks
<1> QED BY <1>2, <1>3 DEF AckCommit

LEMMA PutEffect ==
    ASSUME IInv, NEW p \in Proc, CommitWrite(p) \/ DeleteWrite(p) \/ RenameWrite(p)
    PROVE  Inert \/ Effect(p)
<1> DEFINE w == proc[p].write
<1>1. /\ TypeOK /\ w \in Write /\ w.on \in Target /\ row \in [Target -> Row]
      /\ change \in [Change -> ChangeRow]
    BY DEF IInv, TypeOK, CommitWrite, DeleteWrite, RenameWrite, HandlerOK, Writing, Handler
<1>2. ASSUME NEW new \in Row, PutRow(p, w.on, new, change)
      PROVE  SameStatus /\ Alone(p) /\ row'[w.on] = new
    BY <1>1, <1>2, PutStatus DEF SameStatus, Alone
<1>3. CASE CommitWrite(p)
    <2>1. CASE Return(p)
        BY <2>1 DEF Return, Inert, SameStatus
    <2>2. CASE Matches(w) /\ PutRow(p, w.on, NewRow(w), change)
        <3>1. NewRow(w) \in Row
            BY <1>1, NewRowType
        <3>2. SameStatus /\ Alone(p) /\ row'[w.on] = NewRow(w)
            BY <1>2, <2>2, <3>1
        <3> QED BY <1>1, <1>3, <2>2, <3>2 DEF Effect, Commits, CommitWrite
    <2> QED BY <1>3, <2>1, <2>2 DEF CommitWrite
<1>4. CASE DeleteWrite(p)
    <2>1. NoRow(w.on) \in Row
        BY <1>1, NoRowType
    <2>2. SameStatus /\ Alone(p)
        BY <1>2, <1>4, <2>1 DEF DeleteWrite
    <2> QED BY <1>1, <1>4, <2>2 DEF Effect
<1>5. CASE RenameWrite(p)
    <2> DEFINE new == [live |-> TRUE, version |-> w.seen.version + 1,
                       grants |-> IF row[w.on].live THEN row[w.on].grants ELSE {}]
    <2>1. new \in Row
        BY <1>1 DEF Row, Write
    <2>2. SameStatus /\ Alone(p)
        BY <1>2, <1>5, <2>1 DEF RenameWrite
    <2> QED BY <1>1, <1>5, <2>2 DEF Effect
<1> QED BY <1>3, <1>4, <1>5

LEMMA StepEffect ==
    ASSUME IInv, [Next]_vars
    PROVE  Inert \/ \E p \in Proc : Effect(p)
<1>1. CASE UNCHANGED <<row, change>>
    BY <1>1 DEF Inert, SameStatus
<1>2. ASSUME NEW p \in Proc, ReadRow(p) \/ GiveUp(p) \/ EditTeams(p)
      PROVE  UNCHANGED <<row, change>>
    <2> USE DEF Begin, Desk
    <2>1. CASE ReadRow(p)
        <3>1. ASSUME NEW u \in Person, NEW t \in TwoRead,
                     \/ \E want \in Wish[t] : SettingRead(p, u, t, want)
                     \/ \E x \in Power[t] : CatalogRead(p, u, t, x)
              PROVE  UNCHANGED <<row, change>>
            BY <3>1 DEF SettingRead, CatalogRead
        <3>2. ASSUME NEW u \in Person, NEW t \in OneRead,
                     (\E want \in Wish[t] : PolicyRead(p, u, t, want)) \/ RiskClearRead(p, u, t)
              PROVE  UNCHANGED <<row, change>>
            BY <3>2 DEF PolicyRead, RiskClearRead
        <3>3. ASSUME NEW u \in Person, NEW t \in Person,
                     \/ \E want \in Wish[t] : PatchRead(p, u, t, want) \/ EnrolRead(p, u, t, want)
                     \/ DeleteRead(p, u, t) \/ TouchRead(p, u, t) \/ RenameRead(p, u, t)
              PROVE  UNCHANGED <<row, change>>
            BY <3>3 DEF PatchRead, EnrolRead, DeleteRead, TouchRead, RenameRead
        <3> QED BY <2>1, <3>1, <3>2, <3>3 DEF ReadRow
    <2>2. CASE GiveUp(p)
        BY <2>2 DEF GiveUp, Return
    <2>3. CASE EditTeams(p)
        BY <2>3 DEF EditTeams, TeamRead, TeamRenameRead, TeamDeleteRead, TeamWrite, TeamDeleteWrite
    <2> QED BY <1>2, <2>1, <2>2, <2>3
<1>3. ASSUME NEW p \in Proc, WriteRow(p)
      PROVE  Inert \/ Effect(p)
    <2>1. CASE SettingVersion(p) \/ CoverRead(p)
        BY <2>1 DEF SettingVersion, CoverRead, Begin, Return, Goto, Inert, SameStatus
    <2>2. CASE CommitWrite(p) \/ DeleteWrite(p) \/ RenameWrite(p)
        BY <2>2, PutEffect
    <2>3. ASSUME NEW c \in Change, Propose(p, c)
          PROVE  Effect(p)
        BY <2>3 DEF Propose, Effect, Becomes, IInv, TypeOK
    <2> QED BY <1>3, <2>1, <2>2, <2>3 DEF WriteRow
<1>4. ASSUME NEW p \in Proc, DualControl(p)
      PROVE  Inert \/ Effect(p)
    <2>1. CASE AckCommit(p)
        BY <2>1, AckEffect
    <2>2. CASE UNCHANGED <<row, change>>
        BY <2>2 DEF Inert, SameStatus
    <2>3. CASE RejectCommit(p) \/ ExpireWrite(p)
        <3>1. PICK status \in {"REJECTED", "EXPIRED"} :
                 /\ row' = row
                 /\ change' = IF Pending(proc[p].ref) THEN Resolve(proc[p].ref, status) ELSE change
            BY <2>3 DEF RejectCommit, ExpireWrite, ResolveWrite
        <3>2. TypeOK /\ proc[p].ref \in Change
            BY <2>3 DEF IInv, RejectCommit, ExpireWrite, ResolveWrite, HandlerOK
        <3>3. Pending(proc[p].ref) => Becomes(proc[p].ref, status)
            BY <3>1, <3>2, ResolveType DEF Becomes
        <3> QED BY <3>1, <3>3 DEF Effect, Inert, SameStatus
    <2> QED BY <1>4, <2>1, <2>2, <2>3
            DEF DualControl, AckRead, RejectRead, ListRead, AckDrift, Begin, Goto, Return
<1> QED BY <1>1, <1>2, <1>3, <1>4 DEF Next, ClockTick, vars

-----------------------------------------------------------------------------
LEMMA AckFacts ==
    ASSUME IInv, NEW p \in Proc, Acks(p)
    PROVE  LET c == proc[p].ref
           IN  /\ c \in Change /\ Pending(c) /\ proc[p].pc = "ack"
               /\ proc[p].write = change[c].write
               /\ Intact(change[c].write)
               /\ proc[p].by # change[c].by
               /\ proc[p].at <= change[c].expires
<1> DEFINE c == proc[p].ref
<1>1. HandlerOK(proc[p]) /\ proc[p].pc = "ack" /\ Pending(c)
    BY DEF IInv, Acks, AckCommit
<1>2. c \in Change /\ ChangeOK(c) /\ change[c] \in ChangeRow
    BY <1>1 DEF HandlerOK, IInv, TypeOK
<1>3. /\ proc[p].write = change[c].write /\ proc[p].by # change[c].by
      /\ proc[p].at <= change[c].expires
    BY <1>1 DEF HandlerOK, Acking
<1>4. Intact(change[c].write)
    <2> DEFINE w == change[c].write
    <2>1. w.on \in Target /\ Captured(w) /\ w.guard.version \in Nat /\ Matches(w)
        BY <1>1, <1>2, <1>3 DEF ChangeOK, ChangeRow, Write, Row, Acks
    <2> HIDE DEF w
    <2>2. Intact(w)
        BY <2>1 DEF Captured, Holding, Matches, Intact
    <2> QED BY <2>2 DEF w
<1> QED BY <1>1, <1>2, <1>3, <1>4

LEMMA AppliesFacts ==
    ASSUME IInv, [Next]_vars, NEW c \in Change, Applies(c)
    PROVE  \E p \in Proc : Acks(p) /\ proc[p].ref = c /\ proc'[p].pc = "idle"
<1>1. change[c].status = "PENDING" /\ change'[c].status = "APPLIED"
    BY DEF Applies, Pending
<1>2. PICK p \in Proc : Effect(p)
    BY <1>1, StepEffect DEF Inert, SameStatus
<1>3. Acks(p) /\ Alone(p) /\ Becomes(proc[p].ref, "APPLIED")
    <2>1. ~SameStatus
        BY <1>1 DEF SameStatus
    <2>2. \A d \in Change : change[d].status = "free" => ~Becomes(d, "PENDING")
        BY <1>1 DEF Becomes
    <2>3. \A status \in {"REJECTED", "EXPIRED"} : ~Becomes(proc[p].ref, status)
        BY <1>1 DEF Becomes
    <2> QED BY <1>2, <2>1, <2>2, <2>3 DEF Effect
<1>4. proc[p].ref = c
    BY <1>1, <1>3 DEF Becomes
<1> QED BY <1>3, <1>4 DEF Alone

LEMMA CommitFacts ==
    ASSUME IInv, NEW p \in Proc, Commits(p)
    PROVE  /\ proc[p].pc = "commit" /\ proc[p].write.on \in Target
           /\ Tight(proc[p].write) /\ Intact(proc[p].write)
<1> DEFINE w == proc[p].write
<1>1. /\ HandlerOK(proc[p]) /\ proc[p].pc = "commit" /\ ~proc[p].loose /\ Matches(w)
      /\ w \in Write
    BY DEF IInv, TypeOK, Handler, Commits, CommitWrite
<1>2. w.on \in Target /\ Captured(w) /\ Tight(w)
    BY <1>1 DEF HandlerOK, Writing
<1>3. w.guard.version \in Nat
    BY <1>1 DEF Write, Row
<1> HIDE DEF w
<1>4. Intact(w)
    BY <1>1, <1>2, <1>3 DEF Captured, Holding, Matches, Intact
<1> QED BY <1>1, <1>2, <1>4 DEF w

LEMMA NothingOverwrittenStep ==
    ASSUME IInv, [Next]_vars
    PROVE  /\ \A c \in Change : Applies(c) => Intact(change[c].write)
           /\ \A p \in Proc, t \in Target : Lands(p, t) => Intact(proc[p].write)
<1>1. ASSUME NEW c \in Change, Applies(c) PROVE Intact(change[c].write)
    BY <1>1, AppliesFacts, AckFacts
<1>2. ASSUME NEW p \in Proc, NEW t \in Target, Lands(p, t)
      PROVE  Intact(proc[p].write)
    <2>1. PICK q \in Proc : Effect(q)
        BY <1>2, StepEffect DEF Lands, Inert
    <2>2. Alone(q)
        BY <1>2, <2>1 DEF Effect, Lands
    <2>3. p = q
        BY <1>2, <2>2 DEF Alone, Lands
    <2>4. Commits(p)
        BY <1>2, <2>1, <2>3 DEF Effect, Lands, Acks, AckCommit, DeleteWrite, RenameWrite
    <2> QED BY <2>4, CommitFacts
<1> QED BY <1>1, <1>2

\* A guarded write or an acknowledgement of a policy, a risk override or an
\* account replaces the row it was computed from, and one of a setting the row
\* whose version was read (CONC-3, DATA-8).
THEOREM NothingIsOverwritten == Spec => NothingOverwritten
    BY AlwaysInv, NothingOverwrittenStep, PTL DEF Spec, NothingOverwritten

LEMMA ResolvedOnceStep ==
    ASSUME IInv, [Next]_vars, NEW c \in Change
    PROVE  /\ change[c].status \in {"APPLIED", "REJECTED", "EXPIRED"}
                => change'[c].status = change[c].status
           /\ Applies(c) => \E p \in Proc : /\ proc[p].pc = "ack" /\ proc[p].ref = c
                                            /\ proc'[p].pc = "idle"
                                            /\ proc[p].by # change[c].by
                                            /\ proc[p].at <= change[c].expires
<1>1. ASSUME change[c].status \in {"APPLIED", "REJECTED", "EXPIRED"}
      PROVE  change'[c].status = change[c].status
    <2>1. Inert \/ \E p \in Proc : Effect(p)
        BY StepEffect
    <2>2. CASE SameStatus
        BY <2>2 DEF SameStatus
    <2>3. ASSUME NEW p \in Proc, Acks(p), Becomes(proc[p].ref, "APPLIED")
          PROVE  change'[c].status = change[c].status
        BY <1>1, <2>3 DEF Becomes, Acks, Pending
    <2>4. ASSUME NEW d \in Change, change[d].status = "free", Becomes(d, "PENDING")
          PROVE  change'[c].status = change[c].status
        BY <1>1, <2>4 DEF Becomes
    <2>5. ASSUME NEW p \in Proc, NEW status, Pending(proc[p].ref), Becomes(proc[p].ref, status)
          PROVE  change'[c].status = change[c].status
        BY <1>1, <2>5 DEF Becomes, Pending
    <2> QED BY <2>1, <2>2, <2>3, <2>4, <2>5 DEF Inert, Effect
<1>2. ASSUME Applies(c)
      PROVE  \E p \in Proc : /\ proc[p].pc = "ack" /\ proc[p].ref = c
                             /\ proc'[p].pc = "idle" /\ proc[p].by # change[c].by
                             /\ proc[p].at <= change[c].expires
    BY <1>2, AppliesFacts, AckFacts
<1> QED BY <1>1, <1>2

\* A change is resolved once, never by who proposed it and never by an
\* acknowledgement that came after the 72 hours (CONC-9, DATA-8, SELF_ACK, API-6).
THEOREM ChangesResolvedOnce == Spec => ResolvedOnce
<1>1. IInv /\ [Next]_vars =>
         \A c \in Change :
            /\ change[c].status \in {"APPLIED", "REJECTED", "EXPIRED"}
                 => change'[c].status = change[c].status
            /\ Applies(c) => \E p \in Proc : /\ proc[p].pc = "ack" /\ proc[p].ref = c
                                             /\ proc'[p].pc = "idle"
                                             /\ proc[p].by # change[c].by
                                             /\ proc[p].at <= change[c].expires
    BY ResolvedOnceStep
<1> QED BY AlwaysInv, <1>1, PTL DEF Spec, ResolvedOnce

LEMMA CommitGains ==
    ASSUME IInv, NEW p \in Proc, Commits(p), row'[proc[p].write.on] = NewRow(proc[p].write),
           proc[p].write.on \in OneRead \cup Person, ~proc[p].write.back
    PROVE  ~GainsCapacity(proc[p].write.on)
<1> DEFINE w == proc[p].write
           t == w.on
<1>1. /\ t \in Target /\ Tight(w) /\ row[t] = w.seen /\ proc[p].pc = "commit" /\ w \in Write
      /\ HandlerOK(proc[p])
    BY CommitFacts, AdministrationConstants DEF Intact, IInv, TypeOK, Handler, Setting
<1>2. CASE w.gone
    <2>1. t \notin Person /\ w.want = Default[t] /\ t \in OneRead
        BY <1>1, <1>2 DEF HandlerOK
    <2>2. row'[t].grants = w.want
        BY <1>2, <2>1 DEF NewRow, NoRow
    <2>3. w.want \subseteq row[t].grants
        BY <1>1, <2>1 DEF Tight
    <2> QED BY <2>1, <2>2, <2>3 DEF GainsCapacity, Gains
<1>3. CASE ~w.gone
    <2>1. row'[t].grants = w.want
        BY <1>3 DEF NewRow
    <2>2. CASE t \in Person /\ ~row[t].live
        <3>1. "lead" \notin w.want
            BY <1>1, <2>2 DEF Tight
        <3> QED BY <2>1, <2>2, <3>1 DEF GainsCapacity
    <2>3. CASE ~(t \in Person /\ ~row[t].live)
        <3>1. w.want \subseteq row[t].grants /\ (t \in Person => ("admin" \in row[t].grants => "admin" \in w.want))
            BY <1>1, <2>3 DEF Tight
        <3> QED BY <2>1, <2>3, <3>1 DEF GainsCapacity, Gains
    <2> QED BY <2>2, <2>3
<1> QED BY <1>2, <1>3

LEMMA LooseningStep ==
    ASSUME IInv, [Next]_vars, NEW t \in OneRead \cup Person, GainsCapacity(t)
    PROVE  \/ Acknowledged(t)
           \/ \E p \in Proc : Lands(p, t) /\ proc[p].write.back
<1>0. t \in Target
    BY DEF Target, Setting
<1>1. row'[t] # row[t]
    BY DEF GainsCapacity, Gains
<1>2. PICK p \in Proc : Effect(p)
    BY <1>1, StepEffect DEF Inert
<1>3. Alone(p) /\ proc[p].write.on = t
    <2>1. Alone(p)
        BY <1>1, <1>2 DEF Effect
    <2> QED BY <1>0, <1>1, <2>1 DEF Alone
<1>4. CASE Acks(p) /\ Becomes(proc[p].ref, "APPLIED")
    <2>1. Applies(proc[p].ref) /\ change[proc[p].ref].write.on = t /\ proc[p].ref \in Change
        BY <1>3, <1>4, AckFacts DEF Applies, Becomes
    <2> QED BY <2>1 DEF Acknowledged
<1>5. CASE Commits(p) /\ row'[t] = NewRow(proc[p].write)
    <2>1. Lands(p, t)
        BY <1>1, <1>3, <1>5, CommitFacts DEF Lands, Alone
    <2>2. proc[p].write.back
        BY <1>3, <1>5, CommitGains
    <2> QED BY <2>1, <2>2
<1>6. CASE DeleteWrite(p) \/ RenameWrite(p)
    <2>1. t \in Person /\ TypeOK
        BY <1>3, <1>6 DEF IInv, HandlerOK, DeleteWrite, RenameWrite
    <2>2. CASE DeleteWrite(p)
        BY <1>0, <1>3, <2>1, <2>2 DEF DeleteWrite, PutRow, TypeOK, NoRow, GainsCapacity
    <2>3. CASE RenameWrite(p)
        <3>1. row'[t].grants = IF row[t].live THEN row[t].grants ELSE {}
            BY <1>0, <1>3, <2>1, <2>3 DEF RenameWrite, PutRow, TypeOK
        <3> QED BY <2>1, <3>1 DEF GainsCapacity, Gains
    <2> QED BY <1>6, <2>2, <2>3
<1> QED BY <1>1, <1>2, <1>3, <1>4, <1>5, <1>6 DEF Effect

\* Loosening a policy, a risk override or an account takes a second
\* administrator.
THEOREM LooseningTakesTwo == Spec => LooseningShared
<1>1. IInv /\ [Next]_vars =>
         \A t \in OneRead \cup Person :
            GainsCapacity(t) => \/ Acknowledged(t)
                                \/ \E p \in Proc : Lands(p, t) /\ proc[p].write.back
    BY LooseningStep
<1> QED BY AlwaysInv, <1>1, PTL DEF Spec, LooseningShared

-----------------------------------------------------------------------------
(* Teams: a service is taken from whoever was seen to own it.              *)

\* What a team handler is about to write was computed from is the team as it
\* is, or its version has passed what was read, or a team was deleted since.
ClerkInv(k) ==
    /\ k.pc \in {"put", "drop"} => k.on \in Team
    /\ k.pc = "put" =>
          \A t \in Team :
             /\ k.seen[t].live \/ k.seen[t] = NoTeam
             /\ k.seen[t].live /\ ~k.back =>
                   /\ team[t].live
                   /\ team[t] = k.seen[t] \/ team[t].version > k.seen[t].version

TeamInv ==
    /\ \A t \in Team : team[t].live \/ team[t] = NoTeam
    /\ \A p \in Proc : ClerkInv(clerk[p])

\* The row a team handler writes for team t.
Edited(k, t) ==
    IF t = k.on THEN [live |-> TRUE, slugs |-> k.want, version |-> k.seen[t].version + 1]
    ELSE IF t \in Stripped(k) THEN [k.seen[t] EXCEPT !.slugs = @ \ k.want, !.version = @ + 1]
    ELSE team[t]

\* A handler that is not overtaken writes over the teams as they are.
LEMMA SameSeen ==
    ASSUME TypeOK, TeamInv, NEW p \in Proc, clerk[p].pc = "put", ~clerk[p].back,
           NEW t \in Team, clerk[p].seen[t].live, Same(clerk[p], t)
    PROVE  team[t] = clerk[p].seen[t]
<1>1. team[t].version \in Nat BY DEF TypeOK, TeamRow
<1> QED BY <1>1 DEF TeamInv, ClerkInv, Same

\* A write moves every team it touches one version on.
LEMMA EditedRow ==
    ASSUME TypeOK, TeamInv, NEW p \in Proc, clerk[p].pc = "put",
           \A t \in Stripped(clerk[p]) \cup {clerk[p].on} : Same(clerk[p], t),
           NEW t \in Team
    PROVE  \/ Edited(clerk[p], t) = team[t]
           \/ Edited(clerk[p], t).live /\ Edited(clerk[p], t).version > team[t].version
<1> DEFINE k == clerk[p]
<1>1. k.seen[t] \in TeamRow /\ team[t] \in TeamRow BY DEF TypeOK, Clerk
<1>2. CASE t = k.on BY <1>1, <1>2 DEF Edited, Same, TeamRow
<1>3. CASE t # k.on /\ t \in Stripped(k)
  <2>1. Same(k, t) /\ k.seen[t].live BY <1>3 DEF Stripped
  <2>2. PICK r : r = [k.seen[t] EXCEPT !.slugs = @ \ k.want, !.version = @ + 1] OBVIOUS
  <2>3. r.live = k.seen[t].live /\ r.version = k.seen[t].version + 1 BY <1>1, <2>2 DEF TeamRow
  <2> QED BY <1>1, <1>3, <2>1, <2>2, <2>3 DEF Edited, Same, TeamRow
<1>4. CASE t # k.on /\ t \notin Stripped(k) BY <1>4 DEF Edited
<1> QED BY <1>2, <1>3, <1>4

\* Only the team handlers touch the teams.
LEMMA OthersLeaveTeams ==
    ASSUME NEW p \in Proc, ReadRow(p) \/ WriteRow(p) \/ DualControl(p) \/ GiveUp(p)
    PROVE  UNCHANGED <<team, clerk>>
<1> USE DEF Begin, Return, Goto, PutRow, Surroundings, ResolveWrite
<1>1. CASE ReadRow(p)
  <2>1. \A u, x, want :
           /\ SettingRead(p, u, x, want) => UNCHANGED <<team, clerk>>
           /\ CatalogRead(p, u, x, want) => UNCHANGED <<team, clerk>>
           /\ PolicyRead(p, u, x, want) => UNCHANGED <<team, clerk>>
           /\ RiskClearRead(p, u, x) => UNCHANGED <<team, clerk>>
    BY DEF SettingRead, CatalogRead, PolicyRead, RiskClearRead
  <2>2. \A u, x, want :
           /\ PatchRead(p, u, x, want) => UNCHANGED <<team, clerk>>
           /\ DeleteRead(p, u, x) => UNCHANGED <<team, clerk>>
           /\ RenameRead(p, u, x) => UNCHANGED <<team, clerk>>
    BY DEF PatchRead, DeleteRead, RenameRead
  <2>3. \A u, x, want : EnrolRead(p, u, x, want) => UNCHANGED <<team, clerk>>
    BY DEF EnrolRead
  <2>4. \A u, x : TouchRead(p, u, x) => UNCHANGED <<team, clerk>>
    BY DEF TouchRead
  <2> QED BY <1>1, <2>1, <2>2, <2>3, <2>4 DEF ReadRow
<1>2. CASE WriteRow(p)
  BY <1>2 DEF WriteRow, SettingVersion, CoverRead, CommitWrite, DeleteWrite, RenameWrite, Propose
<1>3. CASE DualControl(p)
  BY <1>3 DEF DualControl, AckRead, RejectRead, ListRead, AckDrift, AckCommit, RejectCommit, ExpireWrite
<1>4. CASE GiveUp(p) BY <1>4 DEF GiveUp
<1> QED BY <1>1, <1>2, <1>3, <1>4

\* At the start no team handler runs.
LEMMA InitTeam == Init => TeamInv
BY AdministrationConstants DEF Init, TeamInv, ClerkInv, IdleClerk

\* Every step keeps what the team handlers know.
LEMMA NextTeam == ASSUME TypeOK, TypeOK', TeamInv, [Next]_vars PROVE TeamInv'
<1>t. \A t \in Team : team[t].version \in Nat BY DEF TypeOK, TeamRow
<1>1. CASE UNCHANGED <<team, clerk>> BY <1>1 DEF TeamInv, ClerkInv
<1>2. ASSUME NEW p \in Proc, NEW k, clerk' = [clerk EXCEPT ![p] = k], team' = team, ClerkInv(k)
      PROVE  TeamInv'
  BY <1>2 DEF TeamInv, ClerkInv, TypeOK
<1>3. ASSUME NEW p \in Proc, NEW t \in Team, NEW want \in SUBSET Slug, TeamRead(p, t, want)
      PROVE  TeamInv'
  <2>1. PICK k : k = [pc |-> "put", on |-> t, seen |-> Involved(t, want), want |-> want, back |-> FALSE]
    OBVIOUS
  <2>2. ClerkInv(k) BY <2>1 DEF ClerkInv, Involved, TeamInv, NoTeam
  <2> QED BY <1>2, <1>3, <2>1, <2>2 DEF TeamRead
<1>4. ASSUME NEW p \in Proc, NEW t \in Team, TeamRenameRead(p, t) PROVE TeamInv'
  <2>1. PICK k : k = [pc |-> "put", on |-> t, back |-> FALSE,
                      seen |-> [x \in Team |-> IF x = t THEN team[x] ELSE NoTeam],
                      want |-> team[t].slugs]
    OBVIOUS
  <2>2. ClerkInv(k) BY <2>1 DEF ClerkInv, TeamInv, NoTeam
  <2> QED BY <1>2, <1>4, <2>1, <2>2 DEF TeamRenameRead
<1>5. ASSUME NEW p \in Proc, NEW t \in Team, TeamDeleteRead(p, t) PROVE TeamInv'
  <2>1. PICK k : k = [IdleClerk EXCEPT !.pc = "drop", !.on = t] OBVIOUS
  <2>2. ClerkInv(k) BY <2>1 DEF ClerkInv, IdleClerk
  <2> QED BY <1>2, <1>5, <2>1, <2>2 DEF TeamDeleteRead
<1>6. ASSUME NEW p \in Proc, TeamWrite(p) PROVE TeamInv'
  <2> DEFINE k == clerk[p]
  <2>1. clerk' = [clerk EXCEPT ![p] = IdleClerk] /\ k.pc = "put" BY <1>6 DEF TeamWrite
  <2>2. ClerkInv(IdleClerk) BY DEF ClerkInv, IdleClerk
  <2>3. CASE team' = team BY <1>2, <2>1, <2>2, <2>3
  <2>4. CASE /\ \A t \in Stripped(k) \cup {k.on} : Same(k, t)
             /\ team' = [t \in Team |-> Edited(k, t)]
    <3>1. \A t \in Team : team'[t] = team[t] \/ (team'[t].live /\ team'[t].version > team[t].version)
      BY <2>1, <2>4, EditedRow
    <3>2. \A t \in Team : team'[t].live \/ team'[t] = NoTeam BY <3>1 DEF TeamInv
    <3>3. ASSUME NEW q \in Proc PROVE ClerkInv(clerk[q])'
      <4>1. ClerkInv(clerk[q]) /\ (q # p => clerk'[q] = clerk[q]) /\ clerk'[p] = IdleClerk
        BY <2>1 DEF TeamInv, TypeOK
      <4>2. CASE q = p BY <4>1, <4>2 DEF ClerkInv, IdleClerk
      <4>3. CASE q # p
        <5>1. \A t \in Team : clerk[q].seen[t].version \in Nat /\ team'[t].version \in Nat
          BY DEF TypeOK, Clerk, TeamRow
        <5> QED BY <1>t, <3>1, <4>1, <4>3, <5>1 DEF ClerkInv
      <4> QED BY <4>2, <4>3
    <3> QED BY <3>2, <3>3 DEF TeamInv
  <2> QED BY <1>6, <2>3, <2>4 DEF TeamWrite, Edited
<1>7. ASSUME NEW p \in Proc, TeamDeleteWrite(p) PROVE TeamInv'
  <2>1. \A t \in Team : team'[t] = team[t] \/ team'[t] = NoTeam BY <1>7 DEF TeamDeleteWrite, TypeOK
  <2>2. \A q \in Proc : IF q = p THEN clerk'[q] = IdleClerk
                        ELSE /\ clerk'[q].pc = clerk[q].pc /\ clerk'[q].on = clerk[q].on
                             /\ clerk'[q].seen = clerk[q].seen /\ clerk'[q].back
    <3>1. \A q \in Proc : clerk'[q] = IF q = p THEN IdleClerk ELSE [clerk[q] EXCEPT !.back = TRUE]
      BY <1>7 DEF TeamDeleteWrite
    <3> QED BY <3>1 DEF TypeOK, Clerk
  <2>3. \A q \in Proc : ClerkInv(clerk[q])' BY <2>2 DEF TeamInv, ClerkInv, IdleClerk
  <2> QED BY <2>1, <2>3 DEF TeamInv
<1> QED
  BY <1>1, <1>3, <1>4, <1>5, <1>6, <1>7, OthersLeaveTeams DEF Next, EditTeams, ClockTick, vars

\* A set within a single element has at most one.
LEMMA AtMostOne == ASSUME NEW S, NEW x, S \subseteq {x} PROVE ~(Cardinality(S) > 1)
<1>1. S = {} \/ S = {x} OBVIOUS
<1>2. Cardinality({}) = 0 /\ Cardinality({x}) = 1 BY FS_EmptySet, FS_Singleton
<1> QED BY <1>1, <1>2

\* A service with one owner gets a second one only from a handler that did not
\* see the first.
LEMMA StealStep ==
    ASSUME TypeOK, TeamInv, NEW p \in Proc, TeamWrite(p), ~clerk[p].back, NEW s \in Slug,
           Cardinality(Owners(s)) = 1, Cardinality(Owners(s)') > 1
    PROVE  \A t \in Team : s \notin clerk[p].seen[t].slugs
<1> SUFFICES ASSUME NEW t \in Team, s \in clerk[p].seen[t].slugs PROVE FALSE OBVIOUS
<1> DEFINE k == clerk[p]
<1>1. k.pc = "put" /\ k.on \in Team /\ k.seen[t].live
  <2>1. k.pc = "put" /\ ClerkInv(k) BY DEF TeamWrite, TeamInv
  <2>2. NoTeam.slugs = {} BY DEF NoTeam
  <2> QED BY <2>1, <2>2 DEF ClerkInv
<1>2. PICK o : Owners(s) = {o}
  <2>1. IsFiniteSet(Owners(s)) BY AdministrationConstants, FS_Subset DEF Owners
  <2> QED BY <2>1, FS_Singleton
<1>3. team' # team
  <2>1. team' = team => Owners(s)' = Owners(s) BY DEF Owners
  <2> QED BY <1>2, <2>1, FS_Singleton
<1>4. /\ \A x \in Stripped(k) \cup {k.on} : Same(k, x)
      /\ team' = [x \in Team |-> Edited(k, x)]
  BY <1>3 DEF TeamWrite, Edited
<1>5. \A x \in Team : k.seen[x].live /\ x \in Stripped(k) \cup {k.on} => team[x] = k.seen[x]
  BY <1>1, <1>4, SameSeen
<1>6. \A x \in Team : x # k.on /\ x \in Stripped(k) =>
         team'[x].slugs = team[x].slugs \ k.want /\ team[x].live
  <2> SUFFICES ASSUME NEW x \in Team, x # k.on, x \in Stripped(k)
               PROVE  team'[x].slugs = team[x].slugs \ k.want /\ team[x].live
    OBVIOUS
  <2>1. team[x] = k.seen[x] /\ k.seen[x].live /\ k.seen[x] \in TeamRow
    BY <1>5 DEF Stripped, TypeOK, Clerk
  <2>2. team'[x] = [k.seen[x] EXCEPT !.slugs = @ \ k.want, !.version = @ + 1] BY <1>4 DEF Edited
  <2> QED BY <2>1, <2>2 DEF TeamRow
<1>7. \A x \in Team : x # k.on /\ x \notin Stripped(k) => team'[x] = team[x] BY <1>4 DEF Edited
<1>8. team'[k.on].slugs = k.want BY <1>1, <1>4 DEF Edited
<1>9. Owners(s)' = {x \in Team : team'[x].live /\ s \in team'[x].slugs} BY DEF Owners
<1>10. CASE s \notin k.want
  <2>1. Owners(s)' \subseteq Owners(s) BY <1>6, <1>7, <1>8, <1>9, <1>10 DEF Owners
  <2> QED BY <1>2, <2>1, AtMostOne
<1>11. CASE s \in k.want
  <2>1. t # k.on => t \in Stripped(k) BY <1>1, <1>11 DEF Stripped
  <2>2. t \in Owners(s) BY <1>1, <1>5, <2>1 DEF Owners
  <2>3. ASSUME NEW x \in Team, x # k.on, x \in Owners(s)' PROVE FALSE
    <3>1. x \notin Stripped(k) BY <1>6, <1>9, <1>11, <2>3
    <3>2. x \in Owners(s) BY <1>7, <1>9, <2>3, <3>1 DEF Owners
    <3> QED BY <1>2, <2>1, <2>2, <2>3, <3>1, <3>2
  <2>4. Owners(s)' \subseteq {k.on} BY <1>9, <2>3
  <2> QED BY <2>4, AtMostOne
<1> QED BY <1>10, <1>11

\* A team changes by a team handler's write, or is deleted.
LEMMA TeamSteps ==
    ASSUME TypeOK, Next, ~(\A t \in Team : team'[t] = team[t] \/ team'[t] = NoTeam)
    PROVE  \E p \in Proc : TeamWrite(p)
<1>1. team' # team OBVIOUS
<1>2. PICK p \in Proc : EditTeams(p)
  BY <1>1, OthersLeaveTeams DEF Next, ClockTick
<1>3. ~TeamDeleteWrite(p) BY DEF TeamDeleteWrite, TypeOK
<1> QED BY <1>1, <1>2, <1>3 DEF EditTeams, TeamRead, TeamRenameRead, TeamDeleteRead

\* A service that a team owns gains a second owner only through a handler that
\* read it as nobody's, or that read a team deleted since.
THEOREM StealsStrip == Spec => StealStrips
<1> DEFINE Stripping ==
             \A s \in Slug :
                Cardinality(Owners(s)) = 1 /\ Cardinality(Owners(s)') > 1
                  => \E p \in Proc : /\ clerk[p].pc = "put" /\ clerk'[p].pc = "idle"
                                     /\ \/ clerk[p].back
                                        \/ \A t \in Team : s \notin clerk[p].seen[t].slugs
<1>1. TypeOK /\ TeamInv /\ [Next]_vars => [Stripping]_vars
  <2> SUFFICES ASSUME TypeOK, TeamInv, Next, NEW s \in Slug,
                      Cardinality(Owners(s)) = 1, Cardinality(Owners(s)') > 1
               PROVE  \E p \in Proc : /\ clerk[p].pc = "put" /\ clerk'[p].pc = "idle"
                                      /\ \/ clerk[p].back
                                         \/ \A t \in Team : s \notin clerk[p].seen[t].slugs
    OBVIOUS
  <2>1. PICK o : Owners(s) = {o}
    <3>1. IsFiniteSet(Owners(s)) BY AdministrationConstants, FS_Subset DEF Owners
    <3> QED BY <3>1, FS_Singleton
  <2>2. ~(Owners(s)' \subseteq Owners(s)) BY <2>1, AtMostOne
  <2>3. ~(\A t \in Team : team'[t] = team[t] \/ team'[t] = NoTeam) BY <2>2 DEF Owners, NoTeam
  <2>4. PICK p \in Proc : TeamWrite(p)
    BY <2>3, TeamSteps
  <2>5. clerk[p].pc = "put" /\ clerk'[p].pc = "idle" BY <2>4 DEF TeamWrite, TypeOK, IdleClerk
  <2> QED BY <2>4, <2>5, StealStep
<1>2. Spec => [][Stripping]_vars
  <2>1. TypeOK /\ TypeOK' /\ TeamInv /\ [Next]_vars => TeamInv' BY NextTeam
  <2> QED BY <1>1, <2>1, InitTeam, AdministrationTypes, PTL DEF Spec
<1> QED BY <1>2 DEF StealStrips
=============================================================================
