-------------------------- MODULE AuditChain_proofs --------------------------
(***************************************************************************)
(* What the audit chain promises, for any number of writers and readers,   *)
(* any budget of attempts, calendar and random draws: it links up, is      *)
(* counted by its head and starves nobody.  The argument: ids only grow,   *)
(* so an entry that lands is the last one; its predecessor is the head     *)
(* that the transact has just compared; and a hash that no longer is the   *)
(* head's never is again.                                                  *)
(***************************************************************************)
EXTENDS AuditChain, FiniteSetTheorems, WellFoundedInduction, TLAPS

-----------------------------------------------------------------------------
(* Types.                                                                  *)

\* A reader holds entries that are stored, and plans on the head it has read.
ReaderOK(r) ==
    /\ r.got \subseteq rows
    /\ r.pc = "plan" => r.need = r.seen.count /\ r.left # 0
    /\ r.pc # "idle" => r.seen.hash # NoId /\ head.hash # NoId
TypeInv == TypeOK /\ IsFiniteSet(rows) /\ \A p \in Reader : ReaderOK(reader[p])

\* The month of a time is a number.
LEMMA MonthTyped == \A t \in 1..MaxTime : Month[t] \in Nat
BY Calendar, ChainConstants

\* The empty head and the idle locals are well typed.
LEMMA InitTyped == NoHead \in Head /\ Fresh \in Call /\ Resting \in Locals
BY DEF NoHead, Head, NoId, Id, Fresh, Call, Kind, Resting, Locals, Entry

\* A minted id is an id, not the empty one and not before the clock.
LEMMA MintTyped ==
    ASSUME minted \in Id, clock \in 1..MaxTime, NEW id \in Mintable
    PROVE  id \in Id /\ id.time >= clock /\ id # NoId
BY ChainConstants DEF Mintable, Id, NoId

\* Any change of a call's locals that keeps their types.
LEMMA WriterTyped ==
    ASSUME writer \in [Writer -> Call], NEW w \in Writer, NEW c \in Call,
           writer' = [writer EXCEPT ![w] = c]
    PROVE  writer' \in [Writer -> Call]
OBVIOUS

\* A call that returns or retries keeps its type.
LEMMA OutcomeTyped ==
    ASSUME writer \in [Writer -> Call], NEW w \in Writer
    PROVE  /\ \A o \in {"ok", "conflict", "contention", "lost"} :
                 /\ Over(w, o) \in Call
                 /\ Return(w, o) => writer' \in [Writer -> Call]
           /\ Retry(w) => writer' \in [Writer -> Call]
<1>1. \A o \in {"ok", "conflict", "contention", "lost"} : Over(w, o) \in Call
  BY DEF Over, Fresh, Call, NoHead, NoId, Head, Id
<1>2. \A o \in {"ok", "conflict", "contention", "lost"} :
         Return(w, o) => writer' \in [Writer -> Call]
  BY <1>1 DEF Return
<1>3. ASSUME Retry(w), writer[w].attempt + 1 < Attempts
      PROVE  writer' \in [Writer -> Call]
  BY <1>3, ChainConstants DEF Retry, Call
<1> QED BY <1>1, <1>2, <1>3, ChainConstants DEF Retry, Call

\* A reader that starts or reads on keeps its type.
LEMMA WalkingTyped ==
    ASSUME TypeInv, NEW b \in BOOLEAN
    PROVE  /\ Walking(b) \in Locals /\ Walking(b).pc = "walk"
           /\ Walking(b).got = {} /\ Walking(b).seen = head
           /\ Walking(b).need = head.count /\ Walking(b).left \in Nat \ {0}
<1>1. head \in Head /\ NoHead \in Head /\ Month[clock] \in Nat
  BY InitTyped, MonthTyped DEF TypeInv, TypeOK
<1>2. head.count \in Nat BY <1>1 DEF Head
<1>3. Walking(b) \in Locals BY <1>1, <1>2 DEF Walking, Locals
<1> QED BY <1>1, <1>3 DEF Walking

\* A probe that starts over keeps its type and the head it is judged against.
LEMMA StartOverTyped ==
    ASSUME TypeInv, NEW r \in Locals
    PROVE  /\ StartOver(r) \in Locals /\ StartOver(r).pc = "walk"
           /\ StartOver(r).got = {} /\ StartOver(r).seen = r.seen
<1>1. Walking(TRUE) \in Locals /\ r.seen \in Head BY WalkingTyped DEF Locals
<1> QED BY <1>1, WalkingTyped DEF StartOver, Locals

\* A partition read keeps the type.
LEMMA NextMonthTyped ==
    ASSUME TypeInv, NEW r \in Locals, r.got \subseteq rows, r.left # 0
    PROVE  /\ NextMonth(r) \in Locals /\ NextMonth(r).got \subseteq rows
           /\ NextMonth(r).pc = r.pc
<1>1. MonthRows(r.left - 1) \subseteq rows BY DEF MonthRows
<1>2. NextMonth(r).got = r.got \cup MonthRows(r.left - 1)
  BY DEF NextMonth, Locals
<1>3. r.left - 1 \in Nat BY DEF Locals
<1>4. r.got \cup MonthRows(r.left - 1) \in SUBSET Entry
  BY <1>1 DEF TypeInv, TypeOK
<1>5. NextMonth(r) \in Locals BY <1>3, <1>4 DEF NextMonth, Locals
<1> QED BY <1>1, <1>2, <1>5 DEF NextMonth, Locals

\* Any change of one reader's locals that keeps their types.
LEMMA ReaderTyped ==
    ASSUME TypeInv, NEW p \in Reader, NEW r \in Locals, ReaderOK(r),
           reader' = [reader EXCEPT ![p] = r],
           UNCHANGED <<rows, head, domain, minted, clock, writer, restarts>>,
           memo' \in Head
    PROVE  TypeInv'
<1>1. TypeOK' BY DEF TypeInv, TypeOK, domain
<1>2. \A q \in Reader : ReaderOK(reader'[q])
  BY DEF TypeInv, TypeOK
<1>3. (\A q \in Reader : ReaderOK(reader[q]))'
  BY <1>2 DEF ReaderOK
<1> QED BY <1>1, <1>3 DEF TypeInv

\* The end of a verified walk is an entry, and the number of entries a number.
LEMMA VerdictTyped ==
    ASSUME TypeInv, NEW r \in Locals, r.got \subseteq rows,
           head.hash \in Id, Verified(TRUE, r.got, NoId, r.seen.hash),
           r.seen.hash # NoId
    PROVE  [hash |-> Last(r.got).id, count |-> Cardinality(r.got)] \in Head
<1>1. PICK l \in r.got : \A f \in r.got : f = l \/ Before(TRUE, f, l)
  BY DEF Verified
<1>2. Last(r.got) \in r.got BY <1>1 DEF Last
<1>3. Cardinality(r.got) \in Nat
  BY FS_Subset, FS_CardinalityType DEF TypeInv
<1> QED BY <1>2, <1>3 DEF TypeInv, TypeOK, Entry, Head

\* Readers hold what they hold when entries are added and the head advances.
LEMMA ReadersStay ==
    ASSUME TypeInv, UNCHANGED reading, rows \subseteq rows',
           head.hash # NoId => head'.hash # NoId
    PROVE  (\A p \in Reader : ReaderOK(reader[p]))'
BY DEF TypeInv, ReaderOK, reading

\* A step of a call that leaves the store alone.
LEMMA CallTyped ==
    ASSUME TypeInv, writer' \in [Writer -> Call], minted' \in Id,
           UNCHANGED <<rows, head, domain, clock, reading, restarts>>
    PROVE  TypeInv'
<1>1. (\A p \in Reader : ReaderOK(reader[p]))' BY ReadersStay
<1> QED BY <1>1 DEF TypeInv, TypeOK, domain, reading

\* An entry that lands is an entry.
LEMMA LandTyped ==
    ASSUME TypeInv, NEW w \in Writer, NEW id \in Mintable,
           Land(w, EntryFor(w, id)), minted' = id,
           UNCHANGED <<clock, reading, restarts>>
    PROVE  TypeInv'
<1> DEFINE e == EntryFor(w, id)
<1>1. id \in Id /\ id # NoId BY MintTyped DEF TypeInv, TypeOK
<1>2. e \in Entry /\ e.id = id
  BY <1>1 DEF TypeInv, TypeOK, EntryFor, Entry, Call, Head
<1>3. rows' = rows \cup {e} /\ head' = [hash |-> id, count |-> writer[w].seen.count + 1]
  BY <1>2 DEF Land
<1>4. rows' \subseteq Entry /\ head' \in Head
  BY <1>1, <1>2, <1>3 DEF TypeInv, TypeOK, Call, Head
<1>5. IsFiniteSet(rows') BY <1>3, FS_AddElement DEF TypeInv
<1>6. key' \in BOOLEAN /\ value' \in Nat BY DEF TypeInv, TypeOK, Land, Call
<1>7. writer' \in [Writer -> Call] BY OutcomeTyped DEF TypeInv, TypeOK, Land
<1>8. head'.hash # NoId BY <1>1, <1>3
<1>9. (\A p \in Reader : ReaderOK(reader[p]))' BY <1>3, <1>8, ReadersStay
<1> QED BY <1>1, <1>4, <1>5, <1>6, <1>7, <1>9 DEF TypeInv, TypeOK, reading

\* No step of a call breaks the types.
LEMMA WriterStepTyped ==
    ASSUME TypeInv, NEW w \in Writer, WriterStep(w)
    PROVE  TypeInv'
<1>1. CASE Begin(w)
  <2>1. PICK k \in Kind :
           writer' = [writer EXCEPT ![w].kind = k, ![w].pc = "read",
                                    ![w].held = IF k = "guarded" THEN value ELSE 0]
    BY <1>1 DEF Begin
  <2>2. writer' \in [Writer -> Call] BY <2>1 DEF TypeInv, TypeOK, Call
  <2> QED BY <1>1, <2>2, CallTyped DEF Begin, TypeInv, TypeOK
<1>2. CASE ReadHead(w)
  <2>1. writer' \in [Writer -> Call] BY <1>2 DEF ReadHead, TypeInv, TypeOK, Call
  <2> QED BY <1>2, <2>1, CallTyped DEF ReadHead, TypeInv, TypeOK
<1>3. CASE Commit(w)
  <2>1. PICK id \in Mintable :
           /\ minted' = id
           /\ Land(w, EntryFor(w, id)) \/ Refuse(w, EntryFor(w, id))
    BY <1>3 DEF Commit
  <2>2. CASE Land(w, EntryFor(w, id))
    BY <1>3, <2>1, <2>2, LandTyped DEF Commit
  <2>3. CASE Refuse(w, EntryFor(w, id))
    <3>1. writer' \in [Writer -> Call]
      BY <2>3, OutcomeTyped DEF Refuse, TypeInv, TypeOK, Call
    <3>2. id \in Id BY MintTyped DEF TypeInv, TypeOK
    <3> QED BY <1>3, <2>1, <2>3, <3>1, <3>2, CallTyped DEF Commit, Refuse
  <2> QED BY <2>1, <2>2, <2>3
<1>4. CASE Diagnose(w)
  <2>1. writer' \in [Writer -> Call]
    BY <1>4, OutcomeTyped DEF Diagnose, TypeInv, TypeOK
  <2> QED BY <1>4, <2>1, CallTyped DEF Diagnose, TypeInv, TypeOK
<1> QED BY <1>1, <1>2, <1>3, <1>4 DEF WriterStep

\* No step of a reader breaks the types.
LEMMA ReaderStepTyped ==
    ASSUME TypeInv, NEW p \in Reader, ReaderStep(p)
    PROVE  TypeInv'
<1> DEFINE r == reader[p]
<1>0. /\ r \in Locals /\ ReaderOK(r) /\ memo \in Head /\ NoHead \in Head
      /\ Resting \in Locals /\ ReaderOK(Resting)
  BY InitTyped DEF TypeInv, TypeOK, ReaderOK, Resting
<1>1. CASE ExportStart(p)
  <2>1. ReaderOK(Walking(FALSE)) BY <1>1, WalkingTyped DEF ExportStart, ReaderOK
  <2> QED BY <1>0, <1>1, <2>1, WalkingTyped, ReaderTyped DEF ExportStart
<1>2. CASE ProbeStart(p)
  <2> DEFINE s == [Walking(TRUE) EXCEPT !.pc = "plan"]
  <2>1. s \in Locals BY WalkingTyped DEF Locals
  <2>2. s.got = {} /\ s.need = s.seen.count /\ s.left # 0 /\ s.seen = head
    BY WalkingTyped DEF Locals
  <2>3. ReaderOK(s) BY <1>2, <2>2 DEF ProbeStart, ReaderOK
  <2> QED BY <1>0, <1>2, <2>1, <2>3, ReaderTyped DEF ProbeStart
<1>3. CASE ProbePlan(p)
  <2>1. CASE memo # NoHead /\ memo.count <= r.seen.count
    <3> DEFINE s == Extending(r)
    <3>1. r.need = r.seen.count /\ r.left # 0 /\ r.got \subseteq rows
      BY <1>0, <1>3 DEF ProbePlan, ReaderOK
    <3>2. r.need - memo.count + 1 \in Nat
      BY <1>0, <2>1, <3>1 DEF Locals, Head
    <3>3. s \in Locals BY <1>0, <3>2 DEF Extending, Locals
    <3>4. s.got = r.got /\ s.left = r.left /\ s.seen = r.seen /\ s.pc = "walk"
      BY <1>0 DEF Extending, Locals
    <3>5. NextMonth(s) \in Locals /\ NextMonth(s).got \subseteq rows
             /\ NextMonth(s).pc = "walk"
      BY <3>1, <3>3, <3>4, NextMonthTyped
    <3>6. NextMonth(s).seen = r.seen BY <3>3, <3>4 DEF NextMonth, Locals
    <3>7. ReaderOK(NextMonth(s))
      BY <1>0, <1>3, <3>5, <3>6 DEF ProbePlan, ReaderOK
    <3>8. reader' = [reader EXCEPT ![p] = NextMonth(s)]
      BY <1>3, <2>1 DEF ProbePlan
    <3>9. /\ UNCHANGED <<rows, head, domain, minted, clock, writer, restarts>>
          /\ memo' \in Head
      BY <1>0, <1>3 DEF ProbePlan
    <3> HIDE DEF s
    <3> QED BY <3>5, <3>7, <3>8, <3>9, ReaderTyped
  <2>2. CASE ~(memo # NoHead /\ memo.count <= r.seen.count)
    <3>1. ReaderOK(StartOver(r))
      BY <1>0, <1>3, StartOverTyped DEF ProbePlan, ReaderOK
    <3>2. StartOver(r) \in Locals BY <1>0, StartOverTyped
    <3> QED BY <1>0, <1>3, <2>2, <3>1, <3>2, ReaderTyped DEF ProbePlan
  <2> QED BY <2>1, <2>2
<1>4. CASE ReadMonth(p)
  <2>1. r.left # 0 /\ r.got \subseteq rows
    BY <1>0, <1>4 DEF ReadMonth, WalkDone, ReaderOK
  <2>2. NextMonth(r).seen = r.seen BY <1>0 DEF NextMonth, Locals
  <2>3. ReaderOK(NextMonth(r))
    BY <1>0, <1>4, <2>1, <2>2, NextMonthTyped DEF ReadMonth, ReaderOK
  <2> QED BY <1>0, <1>4, <2>1, <2>3, NextMonthTyped, ReaderTyped DEF ReadMonth
<1>5. CASE ExtendMemo(p)
  <2>1. r.seen \in Head BY <1>0 DEF Locals
  <2>2. ReaderOK(StartOver(r))
    BY <1>0, <1>5, StartOverTyped DEF ExtendMemo, ReaderOK
  <2>3. memo' \in Head BY <1>0, <1>5, <2>1 DEF ExtendMemo
  <2>4. CASE Anchored(r)
    <3>1. reader' = [reader EXCEPT ![p] = Resting] BY <1>5, <2>4 DEF ExtendMemo
    <3> QED BY <1>0, <1>5, <2>3, <3>1, ReaderTyped DEF ExtendMemo
  <2>5. CASE ~Anchored(r)
    <3>1. reader' = [reader EXCEPT ![p] = StartOver(r)] BY <1>5, <2>5 DEF ExtendMemo
    <3>2. StartOver(r) \in Locals BY <1>0, StartOverTyped
    <3> QED BY <1>5, <2>2, <2>3, <3>1, <3>2, ReaderTyped DEF ExtendMemo
  <2> QED BY <2>4, <2>5
<1>6. CASE FullVerdict(p)
  <2>1. r.seen.hash # NoId /\ r.got \subseteq rows /\ head.hash \in Id
    BY <1>0, <1>6 DEF FullVerdict, ReaderOK, TypeInv, TypeOK, Head
  <2>2. memo' \in Head
    BY <1>0, <1>6, <2>1, VerdictTyped DEF FullVerdict
  <2> QED BY <1>0, <1>6, <2>2, ReaderTyped DEF FullVerdict
<1> QED BY <1>1, <1>2, <1>3, <1>4, <1>5, <1>6 DEF ReaderStep

\* No step breaks the types.
LEMMA StepTyped == TypeInv /\ [Next]_vars => TypeInv'
<1> SUFFICES ASSUME TypeInv, [Next]_vars PROVE TypeInv'
  OBVIOUS
<1>1. CASE \E w \in Writer : WriterStep(w) BY <1>1, WriterStepTyped
<1>2. CASE \E p \in Reader : ReaderStep(p) BY <1>2, ReaderStepTyped
<1>3. CASE Tick
  <2>1. (\A p \in Reader : ReaderOK(reader[p]))' BY <1>3, ReadersStay DEF Tick
  <2> QED BY <1>3, <2>1, ChainConstants DEF Tick, TypeInv, TypeOK, domain, reading
<1>4. CASE StepBack
  <2>1. (\A p \in Reader : ReaderOK(reader[p]))' BY <1>4, ReadersStay DEF StepBack
  <2> QED BY <1>4, <2>1, ChainConstants DEF StepBack, TypeInv, TypeOK, domain, reading
<1>5. CASE Restart
  <2>1. writer' \in [Writer -> Call]
    BY <1>5, OutcomeTyped DEF Restart, TypeInv, TypeOK
  <2>2. /\ reader' \in [Reader -> Locals]
        /\ (\A p \in Reader : ReaderOK(reader[p]))'
    BY <1>5, InitTyped DEF Restart, ReaderOK, Resting
  <2>3. clock' \in 1..MaxTime /\ restarts' \in 0..MaxRestarts
    BY <1>5, ChainConstants DEF Restart, TypeInv, TypeOK
  <2>4. minted' \in Id BY <1>5 DEF Restart, NoId, Id
  <2> QED BY <1>5, <2>1, <2>2, <2>3, <2>4, InitTyped
          DEF Restart, TypeInv, TypeOK, domain
<1>6. CASE UNCHANGED vars
  <2>1. (\A p \in Reader : ReaderOK(reader[p]))' BY <1>6, ReadersStay DEF vars
  <2> QED BY <1>6, <2>1 DEF vars, TypeInv, TypeOK, domain, reading
<1> QED BY <1>1, <1>2, <1>3, <1>4, <1>5, <1>6 DEF Next

\* The initial state is well typed.
LEMMA InitInv == Init => TypeInv
<1> SUFFICES ASSUME Init PROVE TypeInv
  OBVIOUS
<1>1. rows \subseteq Entry /\ IsFiniteSet(rows) BY FS_EmptySet DEF Init
<1>2. minted \in Id /\ clock \in 1..MaxTime /\ restarts \in 0..MaxRestarts
  BY ChainConstants DEF Init, Id, NoId
<1>3. \A p \in Reader : reader[p] = Resting /\ ReaderOK(reader[p])
  BY DEF Init, ReaderOK, Resting
<1> QED BY <1>1, <1>2, <1>3, InitTyped DEF Init, TypeInv, TypeOK

\* The state is well typed at all times: the months of entries are months of
\* the calendar, memos and heads name ids, a walk never runs past its months.
THEOREM ChainTyping == Spec => []TypeOK
<1>1. TypeInv => TypeOK BY DEF TypeInv
<1> QED BY <1>1, InitInv, StepTyped, PTL DEF Spec

-----------------------------------------------------------------------------
(* Order.                                                                  *)

\* The order of entries is strict.
LEMMA BeforeStrict ==
    ASSUME NEW e \in Entry, NEW f \in Entry, NEW served \in BOOLEAN,
           Before(served, e, f)
    PROVE  ~Before(served, f, e) /\ e # f
<1>1. /\ e.month \in Nat /\ f.month \in Nat
      /\ e.id \in Id /\ f.id \in Id
  BY MonthTyped DEF Entry
<1>2. CASE served /\ e.month # f.month BY <1>1, <1>2 DEF Before
<1>3. CASE ~(served /\ e.month # f.month)
  BY <1>1, <1>3 DEF Before, IdBefore, Id
<1> QED BY <1>2, <1>3

\* A verified sequence of entries followed by one more, later than all of them
\* and naming their last, is verified.
LEMMA VerifiedExtends ==
    ASSUME NEW served \in BOOLEAN, NEW es \in SUBSET Entry, NEW n \in Entry,
           NEW from, Verified(served, es, from, n.prev),
           \A f \in es : Before(served, f, n)
    PROVE  Verified(served, es \cup {n}, from, n.id)
<1>1. \A f \in es \cup {n} : ~Before(served, n, f)
  <2>1. ~Before(served, n, n) BY BeforeStrict
  <2> QED BY <2>1, BeforeStrict
<1>2. ASSUME NEW e \in es
      PROVE  \/ e.prev = from /\ \A f \in es \cup {n} : f = e \/ Before(served, e, f)
             \/ \E d \in es \cup {n} :
                  /\ e.prev = d.id /\ Before(served, d, e)
                  /\ \A f \in es \cup {n} :
                        Before(served, f, e) => f = d \/ Before(served, f, d)
  BY <1>1 DEF Verified
<1>3. \/ n.prev = from /\ \A f \in es \cup {n} : f = n \/ Before(served, n, f)
      \/ \E d \in es \cup {n} :
           /\ n.prev = d.id /\ Before(served, d, n)
           /\ \A f \in es \cup {n} :
                 Before(served, f, n) => f = d \/ Before(served, f, d)
  <2>1. CASE es = {} /\ n.prev = from BY <2>1
  <2>2. CASE \E l \in es : l.id = n.prev /\ \A f \in es : f = l \/ Before(served, f, l)
    BY <1>1, <2>2
  <2> QED BY <2>1, <2>2 DEF Verified
<1> QED BY <1>2, <1>3 DEF Verified

-----------------------------------------------------------------------------
(* The invariant.                                                          *)

\* Ids: what is stored precedes what will be minted.
IdsGrow ==
    /\ minted # NoId => /\ minted.time >= 1
                        /\ \A e \in rows : e.id = minted \/ IdBefore(e.id, minted)
    /\ minted = NoId => \A e \in rows : e.id.time < clock
    /\ \A e, f \in rows : e.id = f.id => e = f
    /\ \A e \in rows : e.id # NoId

\* A head that a call has read: if it is still the head, it counts the same,
\* and otherwise it is an earlier one and names an entry or nothing.
SeenOK(s) ==
    /\ s.hash = NoId \/ \E e \in rows : e.id = s.hash
    /\ s.count <= head.count
    /\ s.count = head.count <=> s.hash = head.hash

Linked(served) == Verified(served, rows, NoId, head.hash)
OrderInv ==
    /\ TypeInv
    /\ IdsGrow
    /\ head.count = Cardinality(rows)
    /\ head.hash = NoId \/ \E e \in rows : e.id = head.hash
    /\ \A w \in Writer : SeenOK(writer[w].seen)
    /\ Linked(FALSE)
    /\ ~StepAcrossMonth => /\ \A e \in rows : e.month <= Month[clock]
                           /\ Linked(TRUE)

\* The id about to be minted comes after every stored one.
LEMMA MintLater ==
    ASSUME OrderInv, NEW id \in Mintable, NEW e \in rows
    PROVE  IdBefore(e.id, id)
<1>1. e.id \in Id /\ minted \in Id /\ clock \in 1..MaxTime
  BY DEF OrderInv, TypeInv, TypeOK, Entry
<1>2. CASE clock > minted.time /\ minted # NoId
  BY <1>1, <1>2 DEF OrderInv, IdsGrow, Mintable, IdBefore, Id
<1>3. CASE clock > minted.time /\ minted = NoId
  BY <1>1, <1>3 DEF OrderInv, IdsGrow, Mintable, IdBefore, Id
<1>4. CASE ~(clock > minted.time)
  <2>1. minted # NoId BY <1>1, <1>4 DEF NoId
  <2>2. id = [minted EXCEPT !.draw = @ + 1] BY <1>4 DEF Mintable
  <2> QED BY <1>1, <2>1, <2>2 DEF OrderInv, IdsGrow, IdBefore, Id
<1> QED BY <1>2, <1>3, <1>4

\* The empty head names nothing exactly if nothing is stored.
LEMMA EmptyHead ==
    ASSUME OrderInv
    PROVE  /\ head.hash = NoId <=> rows = {}
           /\ head.count = 0 <=> rows = {}
           /\ SeenOK(head) /\ SeenOK(NoHead)
<1>1. head.hash = NoId <=> rows = {}
  BY DEF OrderInv, Linked, Verified, IdsGrow
<1>2. head.count = 0 <=> rows = {}
  BY FS_EmptySet DEF OrderInv, TypeInv
<1>3. head.count \in Nat BY DEF OrderInv, TypeInv, TypeOK, Head
<1> QED BY <1>1, <1>2, <1>3 DEF SeenOK, NoHead, OrderInv

\* Steps that store nothing: ids may be minted, calls may read the head or
\* forget what they read.
LEMMA NothingStored ==
    ASSUME OrderInv, TypeInv', UNCHANGED <<rows, head, clock>>,
           minted' = minted \/ minted' \in Mintable,
           \A w \in Writer : writer'[w].seen \in {writer[w].seen, head, NoHead}
    PROVE  OrderInv'
<1>1. IdsGrow'
  <2>1. CASE minted' = minted BY <2>1 DEF OrderInv, IdsGrow
  <2>2. CASE minted' \in Mintable
    <3>1. minted' # NoId /\ minted'.time >= 1
      BY <2>2, MintTyped DEF OrderInv, TypeInv, TypeOK, Id
    <3>2. \A e \in rows : IdBefore(e.id, minted') BY <2>2, MintLater
    <3> QED BY <3>1, <3>2 DEF OrderInv, IdsGrow
  <2> QED BY <2>1, <2>2
<1>2. \A w \in Writer : SeenOK(writer'[w].seen) BY EmptyHead DEF OrderInv
<1>3. (\A w \in Writer : SeenOK(writer[w].seen))' BY <1>2 DEF SeenOK
<1>4. Linked(FALSE)' /\ (~StepAcrossMonth => Linked(TRUE)')
  BY DEF OrderInv, Linked
<1> QED BY <1>1, <1>3, <1>4 DEF OrderInv

\* Steps of the clock or of the process.
LEMMA ClockMoves ==
    ASSUME OrderInv, TypeInv', UNCHANGED <<rows, head>>, IdsGrow',
           ~StepAcrossMonth => Month[clock] <= Month[clock'],
           \A w \in Writer : writer'[w].seen \in {writer[w].seen, NoHead}
    PROVE  OrderInv'
<1>1. \A w \in Writer : SeenOK(writer'[w].seen) BY EmptyHead DEF OrderInv
<1>2. (\A w \in Writer : SeenOK(writer[w].seen))' BY <1>1 DEF SeenOK
<1>3. Linked(FALSE)' /\ (~StepAcrossMonth => Linked(TRUE)')
  BY DEF OrderInv, Linked
<1>4. ~StepAcrossMonth => \A e \in rows : e.month <= Month[clock']
  <2>1. Month[clock] \in Nat /\ Month[clock'] \in Nat
    BY MonthTyped DEF OrderInv, TypeInv, TypeOK
  <2>2. \A e \in rows : e.month \in Nat
    BY MonthTyped DEF OrderInv, TypeInv, TypeOK, Entry
  <2> QED BY <2>1, <2>2 DEF OrderInv
<1> QED BY <1>2, <1>3, <1>4 DEF OrderInv

\* An entry lands: it is the last, and its predecessor was.
LEMMA LandOrdered ==
    ASSUME OrderInv, TypeInv', NEW w \in Writer, NEW id \in Mintable,
           Land(w, EntryFor(w, id)), minted' = id, clock' = clock
    PROVE  OrderInv'
<1> DEFINE n == EntryFor(w, id)
<1>1. /\ rows \subseteq Entry /\ clock \in 1..MaxTime /\ minted \in Id
      /\ writer[w] \in Call /\ head \in Head
  BY DEF OrderInv, TypeInv, TypeOK
<1>2. id \in Id /\ id # NoId /\ id.time >= 1
  BY <1>1, MintTyped DEF Id
<1>3. /\ n \in Entry /\ n.id = id /\ n.month = Month[clock]
      /\ n.prev = writer[w].seen.hash
  BY <1>1, <1>2 DEF EntryFor, Entry, Call, Head
<1>4. /\ rows' = rows \cup {n} /\ head' = [hash |-> id, count |-> writer[w].seen.count + 1]
      /\ n.prev = head.hash
  BY <1>3 DEF Land, HeadHolds
<1>5. writer[w].seen.count = head.count
  BY <1>3, <1>4 DEF OrderInv, SeenOK
<1>6. \A e \in rows : IdBefore(e.id, id) BY MintLater
<1>7. \A e \in rows : e.id # id
  BY <1>1, <1>2, <1>6 DEF IdBefore, Entry, Id
<1>8. IdsGrow' BY <1>2, <1>3, <1>4, <1>6, <1>7 DEF OrderInv, IdsGrow
<1>9. head'.count = Cardinality(rows')
  BY <1>4, <1>5, <1>7, <1>3, FS_AddElement DEF OrderInv, TypeInv
<1>10. \A v \in Writer : SeenOK(writer[v].seen)' \/ writer'[v].seen = NoHead
  <2> SUFFICES ASSUME NEW v \in Writer, writer'[v].seen # NoHead
               PROVE  SeenOK(writer[v].seen)'
    OBVIOUS
  <2>1. writer'[v].seen = writer[v].seen /\ writer[v].seen \in Head
    BY DEF Land, Return, Over, Fresh, OrderInv, TypeInv, TypeOK, Call
  <2>2. SeenOK(writer[v].seen) BY DEF OrderInv
  <2>3. writer[v].seen.hash # id BY <1>2, <1>7, <2>2 DEF SeenOK
  <2>4. writer[v].seen.count < head'.count
    BY <1>1, <1>4, <1>5, <2>1, <2>2 DEF SeenOK, Head
  <2>5. head'.hash = id /\ head'.count \in Nat BY <1>1, <1>4, <1>5 DEF Head
  <2> QED BY <1>4, <2>1, <2>2, <2>3, <2>4, <2>5 DEF SeenOK, Head
<1>11. (SeenOK(NoHead))'
  BY <1>1, <1>2, <1>4, <1>5 DEF SeenOK, NoHead, Head
<1>12. (\A v \in Writer : SeenOK(writer[v].seen))'
  BY <1>10, <1>11 DEF SeenOK
<1>13. Linked(FALSE)'
  <2>1. \A f \in rows : Before(FALSE, f, n) BY <1>3, <1>6 DEF Before
  <2>2. Verified(FALSE, rows, NoId, n.prev) BY <1>4 DEF OrderInv, Linked
  <2>3. Verified(FALSE, rows \cup {n}, NoId, n.id)
    BY <1>1, <1>3, <2>1, <2>2, VerifiedExtends
  <2> QED BY <1>3, <1>4, <2>3 DEF Linked
<1>14. ASSUME ~StepAcrossMonth
       PROVE  Linked(TRUE)' /\ \A e \in rows' : e.month <= Month[clock]
  <2>1. \A e \in rows : e.month <= Month[clock] /\ e.month \in Nat
    BY <1>1, <1>14, MonthTyped DEF OrderInv, Entry
  <2>2. Month[clock] \in Nat BY <1>1, MonthTyped
  <2>3. \A f \in rows : Before(TRUE, f, n)
    BY <1>3, <1>6, <2>1, <2>2 DEF Before
  <2>4. Verified(TRUE, rows, NoId, n.prev) BY <1>4, <1>14 DEF OrderInv, Linked
  <2>5. Verified(TRUE, rows \cup {n}, NoId, n.id)
    BY <1>1, <1>3, <2>3, <2>4, VerifiedExtends
  <2>6. Linked(TRUE)' BY <1>3, <1>4, <2>5 DEF Linked
  <2>7. n.month <= Month[clock] BY <1>3, <2>2
  <2>8. \A e \in rows \cup {n} : e.month <= Month[clock] BY <2>1, <2>7
  <2> HIDE DEF n
  <2> QED BY <1>4, <2>6, <2>8
<1>15. \E e \in rows' : e.id = head'.hash BY <1>3, <1>4
<1> QED BY <1>8, <1>9, <1>12, <1>13, <1>14, <1>15 DEF OrderInv

\* What happens to a call that returns or that is to try again.
LEMMA OutcomeOf ==
    ASSUME writer \in [Writer -> Call], NEW w \in Writer
    PROVE  /\ \A o \in {"ok", "conflict", "contention", "lost"} :
                 Return(w, o) =>
                   /\ writer'[w].pc = o /\ writer'[w].seen = NoHead
                   /\ writer'[w].kind = writer[w].kind /\ writer'[w].attempt = 0
           /\ Retry(w) =>
                \/ /\ writer[w].attempt + 1 >= Attempts
                   /\ Return(w, "contention")
                \/ /\ writer'[w].pc = "read" /\ writer'[w].seen = writer[w].seen
                   /\ writer'[w].kind = writer[w].kind
                   /\ writer'[w].attempt = writer[w].attempt + 1
           /\ \A v \in Writer \ {w} :
                 (Retry(w) \/ \E o \in {"ok", "conflict", "contention", "lost"} :
                                 Return(w, o)) => writer'[v] = writer[v]
<1>1. \A o \in {"ok", "conflict", "contention", "lost"} :
         Return(w, o) =>
           /\ writer'[w].pc = o /\ writer'[w].seen = NoHead
           /\ writer'[w].kind = writer[w].kind /\ writer'[w].attempt = 0
           /\ \A v \in Writer \ {w} : writer'[v] = writer[v]
  BY DEF Return, Over, Fresh
<1>2. ASSUME Retry(w), ~(writer[w].attempt + 1 >= Attempts)
      PROVE  /\ writer'[w].pc = "read" /\ writer'[w].seen = writer[w].seen
             /\ writer'[w].kind = writer[w].kind
             /\ writer'[w].attempt = writer[w].attempt + 1
             /\ \A v \in Writer \ {w} : writer'[v] = writer[v]
  BY <1>2 DEF Retry, Call
<1> QED BY <1>1, <1>2 DEF Retry

\* Every step keeps the order.
LEMMA StepOrdered == OrderInv /\ [Next]_vars => OrderInv'
<1> SUFFICES ASSUME OrderInv, [Next]_vars PROVE OrderInv'
  OBVIOUS
<1>0. /\ TypeInv' /\ clock \in 1..MaxTime
      /\ \A e \in rows : e.id.time \in Nat
      /\ writer \in [Writer -> Call]
  BY StepTyped DEF OrderInv, TypeInv, TypeOK, Entry, Id
<1>1. ASSUME NEW w \in Writer, WriterStep(w) PROVE OrderInv'
  <2>1. CASE Begin(w)
    <3>1. \A v \in Writer : writer'[v].seen = writer[v].seen
      BY <1>0, <2>1 DEF Begin, Call
    <3> QED BY <1>0, <2>1, <3>1, NothingStored DEF Begin
  <2>2. CASE ReadHead(w)
    <3>1. \A v \in Writer : writer'[v].seen \in {writer[v].seen, head}
      BY <1>0, <2>2 DEF ReadHead, Call
    <3> QED BY <1>0, <2>2, <3>1, NothingStored DEF ReadHead
  <2>3. CASE Commit(w)
    <3>1. PICK id \in Mintable :
             /\ minted' = id
             /\ Land(w, EntryFor(w, id)) \/ Refuse(w, EntryFor(w, id))
      BY <2>3 DEF Commit
    <3>2. CASE Land(w, EntryFor(w, id))
      BY <1>0, <2>3, <3>1, <3>2, LandOrdered DEF Commit
    <3>3. CASE Refuse(w, EntryFor(w, id))
      <4>1. \A v \in Writer : writer'[v].seen \in {writer[v].seen, NoHead}
        <5>1. CASE Retry(w) BY <1>0, <1>1, <5>1, OutcomeOf
        <5>2. CASE writer' = [writer EXCEPT ![w].pc = "diagnose"]
          BY <1>0, <5>2 DEF Call
        <5> QED BY <3>3, <5>1, <5>2 DEF Refuse
      <4> QED BY <1>0, <2>3, <3>1, <3>3, <4>1, NothingStored DEF Commit, Refuse
    <3> QED BY <3>1, <3>2, <3>3
  <2>4. CASE Diagnose(w)
    <3>1. \A v \in Writer : writer'[v].seen \in {writer[v].seen, NoHead}
      BY <1>0, <1>1, <2>4, OutcomeOf DEF Diagnose
    <3> QED BY <1>0, <2>4, <3>1, NothingStored DEF Diagnose
  <2> QED BY <1>1, <2>1, <2>2, <2>3, <2>4 DEF WriterStep
<1>2. ASSUME NEW p \in Reader, ReaderStep(p) PROVE OrderInv'
  <2>1. UNCHANGED <<rows, head, minted, clock, writer>>
    BY <1>2 DEF ReaderStep, ExportStart, ProbeStart, ProbePlan, ReadMonth,
                ExtendMemo, FullVerdict
  <2> QED BY <1>0, <2>1, NothingStored
<1>3. CASE Tick
  <2>1. Month[clock] <= Month[clock']
    BY <1>0, <1>3, Calendar, ChainConstants DEF Tick
  <2>2. IdsGrow' BY <1>0, <1>3 DEF Tick, OrderInv, IdsGrow
  <2> QED BY <1>0, <1>3, <2>1, <2>2, ClockMoves DEF Tick
<1>4. CASE StepBack
  <2>1. ~StepAcrossMonth => Month[clock] <= Month[clock']
    BY <1>0, <1>4, Calendar, ChainConstants DEF StepBack
  <2>2. IdsGrow' BY <1>0, <1>4 DEF StepBack, Ahead, OrderInv, IdsGrow
  <2> QED BY <1>0, <1>4, <2>1, <2>2, ClockMoves DEF StepBack
<1>5. CASE Restart
  <2>1. Month[clock] <= Month[clock']
    BY <1>0, <1>5, Calendar, ChainConstants DEF Restart
  <2>2. IdsGrow' BY <1>0, <1>5 DEF Restart, Ahead, OrderInv, IdsGrow
  <2>3. \A w \in Writer : writer'[w].seen \in {writer[w].seen, NoHead}
    BY <1>0, <1>5 DEF Restart, Over, Fresh, Call
  <2> QED BY <1>0, <1>5, <2>1, <2>2, <2>3, ClockMoves DEF Restart
<1>6. CASE UNCHANGED vars
  BY <1>0, <1>6, NothingStored DEF vars
<1> QED BY <1>1, <1>2, <1>3, <1>4, <1>5, <1>6 DEF Next

\* The invariant holds at the start.
LEMMA InitOrdered == Init => OrderInv
<1> SUFFICES ASSUME Init PROVE OrderInv
  OBVIOUS
<1>1. TypeInv BY InitInv
<1>2. rows = {} /\ head = NoHead /\ minted = NoId BY DEF Init
<1>3. Linked(FALSE) /\ Linked(TRUE) BY <1>2 DEF Linked, Verified, NoHead
<1>4. head.count = Cardinality(rows) BY <1>2, FS_EmptySet DEF NoHead
<1>5. \A w \in Writer : SeenOK(writer[w].seen)
  BY <1>2 DEF Init, Fresh, SeenOK, NoHead
<1> QED BY <1>1, <1>2, <1>3, <1>4, <1>5 DEF OrderInv, IdsGrow, NoHead

\* The invariant holds at all times.
THEOREM OrderInvariant == Spec => []OrderInv
<1> QED BY InitOrdered, StepOrdered, PTL DEF Spec

\* If the clock is never set back over the start of a month, the chain as it
\* is served links up from its genesis to its head, which counts it.
THEOREM ChainAlwaysVerifies == ~StepAcrossMonth => (Spec => []ChainVerifies)
<1> SUFFICES ASSUME ~StepAcrossMonth PROVE Spec => []ChainVerifies
  OBVIOUS
<1>1. OrderInv => ChainVerifies BY DEF OrderInv, ChainVerifies, Linked
<1> QED BY <1>1, OrderInvariant, PTL

\* The chain as the backup tool reads it verifies whatever the clock does.
THEOREM BackupAlwaysVerifies == Spec => []Verified(FALSE, rows, NoId, head.hash)
<1>1. OrderInv => Verified(FALSE, rows, NoId, head.hash) BY DEF OrderInv, Linked
<1> QED BY <1>1, OrderInvariant, PTL

-----------------------------------------------------------------------------
(* Calls.                                                                  *)

Landed == {w \in Writer : writer[w].pc = "ok"}
Updated == {w \in Writer : writer[w].kind = "guarded" /\ writer[w].pc = "ok"}

\* Every lost round of a call that may be replayed was won by another call.
Turn(c) ==
    /\ c.pc = "idle" => c.attempt = 0
    /\ c.kind # "guarded" =>
         /\ c.pc = "read" => c.attempt <= head.count
         /\ c.pc = "commit" => c.attempt <= c.seen.count
         /\ c.pc = "diagnose" => /\ c.attempt <= c.seen.count
                                 /\ c.kind # "append"
                                 /\ ~key => c.seen.count < head.count
         /\ c.pc = "contention" => Cardinality(Writer) > Attempts
CallInv ==
    /\ OrderInv
    /\ head.count = Cardinality(Landed)
    /\ value = Cardinality(Updated)
    /\ \A w \in Writer : Turn(writer[w])

\* A call that is not done leaves room for itself among those that are.
LEMMA NotAllLanded ==
    ASSUME CallInv, NEW w \in Writer, writer[w].pc # "ok"
    PROVE  head.count < Cardinality(Writer)
<1>1. Landed \subseteq Writer \ {w} BY DEF Landed
<1>2. IsFiniteSet(Writer) /\ IsFiniteSet(Writer \ {w})
      /\ Cardinality(Writer \ {w}) = Cardinality(Writer) - 1
  BY ChainConstants, FS_RemoveElement
<1>3. Cardinality(Landed) <= Cardinality(Writer \ {w}) /\ IsFiniteSet(Landed)
  BY <1>1, <1>2, FS_Subset
<1>4. Cardinality(Landed) \in Nat /\ Cardinality(Writer) \in Nat
  BY <1>2, <1>3, FS_CardinalityType
<1> QED BY <1>2, <1>3, <1>4 DEF CallInv

\* A call that lost a round to another one tries again in time, or the calls
\* outnumber the attempts.
LEMMA RetryTurn ==
    ASSUME CallInv, NEW w \in Writer, Retry(w), writer[w].pc \in {"commit", "diagnose"},
           writer[w].attempt < head.count
    PROVE  Turn(writer'[w])
<1>1. writer \in [Writer -> Call] /\ writer[w].attempt \in Nat /\ head.count \in Nat
  BY DEF CallInv, OrderInv, TypeInv, TypeOK, Call, Head
<1>2. CASE writer[w].attempt + 1 >= Attempts /\ Return(w, "contention")
  <2>1. Cardinality(Writer) \in Nat BY ChainConstants, FS_CardinalityType
  <2>2. Cardinality(Writer) > Attempts
    BY <1>1, <1>2, <2>1, NotAllLanded, ChainConstants
  <2> QED BY <1>1, <1>2, <2>2, OutcomeOf DEF Turn
<1>3. CASE /\ writer'[w].pc = "read" /\ writer'[w].kind = writer[w].kind
           /\ writer'[w].attempt = writer[w].attempt + 1
  BY <1>1, <1>3 DEF Turn
<1> QED BY <1>1, <1>2, <1>3, OutcomeOf

\* Steps after which the same calls are answered and the same entries stored.
LEMMA SameLanded ==
    ASSUME CallInv, OrderInv', UNCHANGED <<head, key, value>>,
           \A w \in Writer :
              /\ Turn(writer'[w])
              /\ writer'[w].pc = "ok" <=> writer[w].pc = "ok"
              /\ writer[w].pc = "ok" => writer'[w].kind = writer[w].kind
    PROVE  CallInv'
<1>1. Landed' = Landed /\ Updated' = Updated BY DEF Landed, Updated
<1>2. (\A w \in Writer : Turn(writer[w]))' BY DEF Turn
<1> QED BY <1>1, <1>2 DEF CallInv

\* The entry's own key is never taken: only the head or the caller's own
\* condition can refuse a transact.
LEMMA KeyAlwaysFree ==
    ASSUME OrderInv, NEW w \in Writer, NEW id \in Mintable
    PROVE  KeyFree(EntryFor(w, id))
<1>1. \A f \in rows : IdBefore(f.id, id) /\ f.id \in Id /\ id \in Id
  BY MintLater, MintTyped DEF OrderInv, TypeInv, TypeOK, Entry
<1>2. \A f \in rows : f.id # id BY <1>1 DEF IdBefore, Id
<1> QED BY <1>2 DEF KeyFree, EntryFor

\* A call lands.
LEMMA LandCounted ==
    ASSUME CallInv, OrderInv', NEW w \in Writer, NEW id \in Mintable,
           writer[w].pc = "commit", Land(w, EntryFor(w, id))
    PROVE  CallInv'
<1>1. /\ writer \in [Writer -> Call] /\ writer[w] \in Call /\ head \in Head
      /\ value \in Nat
  BY DEF CallInv, OrderInv, TypeInv, TypeOK
<1>2. /\ writer'[w].pc = "ok" /\ writer'[w].kind = writer[w].kind
      /\ \A v \in Writer \ {w} : writer'[v] = writer[v]
  BY <1>1, OutcomeOf DEF Land
<1>3. writer[w].seen.count = head.count /\ head'.count = head.count + 1
  BY DEF Land, HeadHolds, CallInv, OrderInv, SeenOK
<1>4. IsFiniteSet(Landed) /\ IsFiniteSet(Updated)
  BY ChainConstants, FS_Subset DEF Landed, Updated
<1>5. Landed' = Landed \cup {w} /\ w \notin Landed BY <1>2 DEF Landed
<1>6. head'.count = Cardinality(Landed')
  <2>1. Cardinality(Landed \cup {w}) = Cardinality(Landed) + 1
    BY <1>4, <1>5, FS_AddElement
  <2>2. head.count = Cardinality(Landed) BY DEF CallInv
  <2> QED BY <1>3, <1>5, <2>1, <2>2
<1>7. value' = Cardinality(Updated')
  <2>1. CASE writer[w].kind = "guarded"
    <3>1. Updated' = Updated \cup {w} /\ w \notin Updated
      BY <1>2, <2>1 DEF Updated
    <3>2. value' = value + 1 BY <2>1 DEF Land, DomainHolds
    <3> QED BY <1>4, <3>1, <3>2, FS_AddElement DEF CallInv
  <2>2. CASE writer[w].kind # "guarded"
    <3>1. Updated' = Updated BY <1>2, <2>2 DEF Updated
    <3>2. value' = value BY <2>2 DEF Land
    <3> QED BY <3>1, <3>2 DEF CallInv
  <2> QED BY <2>1, <2>2
<1>8. \A v \in Writer : (Turn(writer[v]))'
  <2> SUFFICES ASSUME NEW v \in Writer PROVE (Turn(writer[v]))'
    OBVIOUS
  <2>1. CASE v = w BY <1>2, <2>1 DEF Turn
  <2>2. CASE v # w
    <3>1. writer'[v] = writer[v] /\ writer[v] \in Call BY <1>1, <1>2, <2>2
    <3>2. Turn(writer[v]) BY DEF CallInv
    <3>3. head.count \in Nat /\ head'.count = head.count + 1
          /\ (~key' => ~key)
      BY <1>1, <1>3 DEF Head, Land
    <3> QED BY <3>1, <3>2, <3>3 DEF Turn, Call, Head
  <2> QED BY <2>1, <2>2
<1> QED BY <1>6, <1>7, <1>8 DEF CallInv

\* A transact is refused: if not for the caller's own condition, then because
\* the head has moved.
LEMMA RefuseCounted ==
    ASSUME CallInv, OrderInv', NEW w \in Writer, NEW id \in Mintable,
           writer[w].pc = "commit", Refuse(w, EntryFor(w, id))
    PROVE  CallInv'
<1>1. /\ writer \in [Writer -> Call] /\ writer[w] \in Call
      /\ head.count \in Nat /\ Turn(writer[w])
  BY DEF CallInv, OrderInv, TypeInv, TypeOK, Head
<1>2. DomainHolds(w) => writer[w].seen.count < head.count
  <2>1. KeyFree(EntryFor(w, id)) BY KeyAlwaysFree DEF CallInv
  <2>2. DomainHolds(w) => head.hash # writer[w].seen.hash
    BY <2>1 DEF Refuse, HeadHolds
  <2>3. SeenOK(writer[w].seen) BY DEF CallInv, OrderInv
  <2>4. writer[w].seen.count \in Nat BY <1>1 DEF Call, Head
  <2> QED BY <1>1, <2>2, <2>3, <2>4 DEF SeenOK
<1>3. CASE writer[w].kind = "append"
  <2>1. DomainHolds(w) BY <1>3 DEF DomainHolds
  <2>2. Retry(w) BY <1>3 DEF Refuse
  <2>3. writer[w].attempt < head.count
    BY <1>1, <1>2, <1>3, <2>1 DEF Turn, Call, Head
  <2>4. Turn(writer'[w]) BY <2>2, <2>3, RetryTurn
  <2>5. writer'[w].pc # "ok" /\ \A v \in Writer \ {w} : writer'[v] = writer[v]
    BY <1>1, <2>2, OutcomeOf
  <2> QED BY <2>4, <2>5, SameLanded DEF Refuse, domain, CallInv
<1>4. CASE writer[w].kind # "append"
  <2>1. writer' = [writer EXCEPT ![w].pc = "diagnose"] BY <1>4 DEF Refuse
  <2>2. /\ writer'[w].pc = "diagnose" /\ writer'[w].kind = writer[w].kind
        /\ writer'[w].attempt = writer[w].attempt
        /\ writer'[w].seen = writer[w].seen
        /\ \A v \in Writer \ {w} : writer'[v] = writer[v]
    BY <1>1, <2>1 DEF Call
  <2>3. writer[w].kind # "guarded" /\ ~key => DomainHolds(w) BY DEF DomainHolds
  <2>4. Turn(writer'[w]) BY <1>1, <1>2, <1>4, <2>2, <2>3 DEF Turn
  <2> QED BY <2>2, <2>4, SameLanded DEF Refuse, domain, CallInv
<1> QED BY <1>3, <1>4
\* No step breaks the count of the calls.
LEMMA StepCounted == CallInv /\ OrderInv' /\ [Next]_vars => CallInv'
<1> SUFFICES ASSUME CallInv, OrderInv', [Next]_vars PROVE CallInv'
  OBVIOUS
<1>1. /\ writer \in [Writer -> Call] /\ head \in Head /\ minted \in Id
      /\ clock \in 1..MaxTime /\ TypeInv
      /\ \A w \in Writer : Turn(writer[w])
  BY DEF CallInv, OrderInv, TypeInv, TypeOK
<1>2. ASSUME NEW w \in Writer, Begin(w) PROVE CallInv'
  <2>1. PICK k \in Kind : writer' = [writer EXCEPT
                 ![w].kind = k, ![w].pc = "read",
                 ![w].held = IF k = "guarded" THEN value ELSE 0]
    BY <1>2 DEF Begin
  <2>2. /\ writer'[w].pc = "read" /\ writer'[w].attempt = writer[w].attempt
        /\ \A v \in Writer \ {w} : writer'[v] = writer[v]
    BY <1>1, <2>1 DEF Call
  <2>3. writer[w].pc = "idle" /\ writer[w].attempt = 0
    BY <1>1, <1>2 DEF Begin, Turn
  <2>4. Turn(writer'[w]) BY <1>1, <2>2, <2>3 DEF Turn, Head
  <2> QED BY <1>1, <1>2, <2>2, <2>3, <2>4, SameLanded DEF Begin, domain
<1>3. ASSUME NEW w \in Writer, ReadHead(w) PROVE CallInv'
  <2>1. /\ writer'[w].pc = "commit" /\ writer'[w].seen = head
        /\ writer'[w].kind = writer[w].kind
        /\ writer'[w].attempt = writer[w].attempt
        /\ \A v \in Writer \ {w} : writer'[v] = writer[v]
    BY <1>1, <1>3 DEF ReadHead, Call
  <2>2. writer[w].pc = "read" BY <1>3 DEF ReadHead
  <2>3. Turn(writer'[w]) BY <1>1, <2>1, <2>2 DEF Turn
  <2> QED BY <1>1, <1>3, <2>1, <2>2, <2>3, SameLanded DEF ReadHead, domain
<1>4. ASSUME NEW w \in Writer, Commit(w) PROVE CallInv'
  <2>1. PICK id \in Mintable :
           Land(w, EntryFor(w, id)) \/ Refuse(w, EntryFor(w, id))
    BY <1>4 DEF Commit
  <2>2. writer[w].pc = "commit" BY <1>4 DEF Commit
  <2> QED BY <2>1, <2>2, LandCounted, RefuseCounted
<1>5. ASSUME NEW w \in Writer, Diagnose(w) PROVE CallInv'
  <2>1. writer[w].pc = "diagnose" /\ Turn(writer[w]) /\ writer[w] \in Call
        /\ UNCHANGED <<head, key, value>>
    BY <1>1, <1>5 DEF Diagnose, domain
  <2>2. ASSUME NEW o \in {"conflict", "contention"}, Return(w, o),
               o = "contention" => writer[w].kind = "guarded"
        PROVE  CallInv'
    <3>1. /\ writer'[w].pc = o /\ writer'[w].kind = writer[w].kind
          /\ \A v \in Writer \ {w} : writer'[v] = writer[v]
      BY <1>1, <2>2, OutcomeOf
    <3>2. Turn(writer'[w]) BY <2>2, <3>1 DEF Turn
    <3> QED BY <1>1, <2>1, <2>2, <3>1, <3>2, SameLanded
  <2>3. ASSUME DomainHolds(w), writer[w].kind # "guarded", Retry(w)
        PROVE  CallInv'
    <3>1. ~key BY <2>1, <2>3 DEF DomainHolds, Turn, Call, Kind
    <3>2. writer[w].attempt < head.count
      BY <1>1, <2>1, <2>3, <3>1 DEF Turn, Call, Head
    <3>3. Turn(writer'[w]) BY <2>1, <2>3, <3>2, RetryTurn
    <3>4. writer'[w].pc # "ok" /\ \A v \in Writer \ {w} : writer'[v] = writer[v]
      BY <1>1, <2>3, OutcomeOf
    <3> QED BY <1>1, <2>1, <3>3, <3>4, SameLanded
  <2> QED BY <1>5, <2>2, <2>3 DEF Diagnose
<1>6. ASSUME NEW p \in Reader, ReaderStep(p) PROVE CallInv'
  <2>1. UNCHANGED <<head, key, value, writer>>
    BY <1>6 DEF ReaderStep, ExportStart, ProbeStart, ProbePlan, ReadMonth,
                ExtendMemo, FullVerdict, domain
  <2> QED BY <1>1, <2>1, SameLanded
<1>7. CASE Tick \/ StepBack
  <2>1. UNCHANGED <<head, key, value, writer>> BY <1>7 DEF Tick, StepBack, domain
  <2> QED BY <1>1, <2>1, SameLanded
<1>8. CASE Restart
  <2>1. UNCHANGED <<head, key, value>> BY <1>8 DEF Restart, domain
  <2>2. ASSUME NEW v \in Writer
        PROVE  /\ Turn(writer'[v])
               /\ writer'[v].pc = "ok" <=> writer[v].pc = "ok"
               /\ writer[v].pc = "ok" => writer'[v].kind = writer[v].kind
    <3>1. CASE writer[v].pc \in {"read", "commit", "diagnose"}
      <4>1. writer'[v] = Over(v, "lost") BY <1>8, <3>1 DEF Restart
      <4> QED BY <3>1, <4>1 DEF Over, Fresh, Turn
    <3>2. CASE writer[v].pc \notin {"read", "commit", "diagnose"}
      <4>1. writer'[v] = writer[v] BY <1>8, <3>2 DEF Restart
      <4> QED BY <1>1, <4>1
    <3> QED BY <3>1, <3>2
  <2> QED BY <2>1, <2>2, SameLanded
<1>9. CASE UNCHANGED vars
  <2>1. UNCHANGED <<head, key, value, writer>> BY <1>9 DEF vars, domain
  <2> QED BY <1>1, <2>1, SameLanded
<1> QED BY <1>2, <1>3, <1>4, <1>5, <1>6, <1>7, <1>8, <1>9 DEF Next, WriterStep

\* At the start nothing is stored and nobody has called.
LEMMA InitCounted == Init => CallInv
<1> SUFFICES ASSUME Init PROVE CallInv
  OBVIOUS
<1>1. OrderInv BY InitOrdered
<1>2. Landed = {} /\ Updated = {} BY DEF Init, Landed, Updated, Fresh
<1>3. \A w \in Writer : Turn(writer[w]) BY DEF Init, Fresh, Turn
<1> QED BY <1>1, <1>2, <1>3, FS_EmptySet DEF Init, NoHead, CallInv

\* Every entry of the head's count is a call that was answered.
THEOREM CallInvariant == Spec => []CallInv
<1>1. CallInv /\ [Next]_vars => OrderInv' BY StepOrdered DEF CallInv
<1>2. CallInv /\ [Next]_vars => CallInv' BY <1>1, StepCounted
<1> QED BY InitCounted, <1>2, PTL DEF Spec

\* With no more writers than attempts, a call that may be replayed gets
\* through, is in conflict, or is lost with its process: it is never told that
\* the chain is busy.
THEOREM NobodyEverStarves == Spec => []NobodyStarves
<1>1. CallInv => NobodyStarves
  <2> SUFFICES ASSUME CallInv, Cardinality(Writer) <= Attempts,
                      NEW w \in Writer, writer[w].kind # "guarded",
                      writer[w].pc = "contention"
               PROVE  FALSE
    BY DEF NobodyStarves
  <2>1. Cardinality(Writer) > Attempts BY DEF CallInv, Turn
  <2>2. Cardinality(Writer) \in Nat /\ Attempts \in Nat
    BY ChainConstants, FS_CardinalityType
  <2> QED BY <2>1, <2>2
<1> QED BY <1>1, CallInvariant, PTL

\* Every guarded update that was answered shows in the value.
THEOREM NoUpdateLost == Spec => []NoLostUpdate
<1>1. CallInv => NoLostUpdate BY DEF CallInv, Updated, NoLostUpdate
<1> QED BY <1>1, CallInvariant, PTL

-----------------------------------------------------------------------------
(* The readiness probe's memo.  Entries land behind the others, so that an *)
(* entry keeps its place, and a verified walk that ends at an entry has    *)
(* missed none before it: each entry names the one before.                 *)

\* The entries of es up to e; the head s names an entry and counts up to it.
UpTo(es, e) == {f \in es : f = e \/ Before(TRUE, f, e)}
Placed(es, s) == s # NoHead => \E e \in es : e.id = s.hash /\ s.count = Cardinality(UpTo(es, e))

MemoInv ==
    /\ OrderInv
    /\ Placed(rows, memo)
    /\ \A p \in Reader : Placed(rows, reader[p].seen)

\* The order of entries is transitive.
LEMMA BeforeTransitive ==
    ASSUME NEW d \in Entry, NEW e \in Entry, NEW f \in Entry,
           Before(TRUE, d, e), Before(TRUE, e, f)
    PROVE  Before(TRUE, d, f)
<1>1. /\ d.month \in Nat /\ e.month \in Nat /\ f.month \in Nat
      /\ d.id \in Id /\ e.id \in Id /\ f.id \in Id
  BY MonthTyped DEF Entry
<1> QED BY <1>1 DEF Before, IdBefore, Id

\* A finite set of entries has one that none of them precedes.
LEMMA FirstEntry ==
    ASSUME NEW es \in SUBSET Entry, IsFiniteSet(es), es # {}
    PROVE  \E e \in es : \A f \in es : ~Before(TRUE, f, e)
<1> DEFINE Down(e) == {f \in es : Before(TRUE, f, e)}
<1> DEFINE Sizes == {Cardinality(Down(e)) : e \in es}
<1>1. \A e \in es : IsFiniteSet(Down(e)) /\ Cardinality(Down(e)) \in Nat
  BY FS_Subset, FS_CardinalityType
<1>2. Sizes \subseteq Nat /\ Sizes # {} BY <1>1
<1>3. ASSUME NEW e \in es, NEW f \in es, Before(TRUE, f, e)
      PROVE  Cardinality(Down(f)) < Cardinality(Down(e))
  <2>1. Down(f) \subseteq Down(e) BY <1>3, BeforeTransitive
  <2>2. f \in Down(e) /\ f \notin Down(f) BY <1>3, BeforeStrict
  <2>3. Down(f) # Down(e) BY <2>2
  <2> HIDE DEF Down
  <2> QED BY <1>1, <2>1, <2>3, FS_Subset
<1> HIDE DEF Down
<1>4. \E n \in Sizes : \A m \in Sizes : ~(<<m, n>> \in OpToRel(<, Nat))
  <2> HIDE DEF Sizes
  <2> QED BY <1>2, NatLessThanWellFounded, WFMin
<1>5. \A x, y \in Nat : y < x => <<y, x>> \in OpToRel(<, Nat) BY DEF OpToRel
<1>6. PICK n \in Sizes : \A m \in Sizes : ~(m < n)
  <2> HIDE DEF Sizes
  <2> QED BY <1>2, <1>4, <1>5
<1>7. PICK e \in es : n = Cardinality(Down(e)) BY <1>6
<1>8. \A f \in es : ~Before(TRUE, f, e) BY <1>3, <1>6, <1>7
<1> QED BY <1>8

\* A verified walk holds every entry up to its last.
LEMMA WalkMissesNothing ==
    ASSUME OrderInv, Linked(TRUE), NEW got \in SUBSET rows, NEW to, NEW l \in got,
           Verified(TRUE, got, NoId, to), \A f \in got : f = l \/ Before(TRUE, f, l)
    PROVE  got = UpTo(rows, l)
<1>1. rows \subseteq Entry /\ IsFiniteSet(rows) BY DEF OrderInv, TypeInv, TypeOK
<1>2. ASSUME NEW f \in rows, f \notin got, Before(TRUE, f, l) PROVE FALSE
  <2> DEFINE B == {g \in got : Before(TRUE, f, g)}
  <2>1. B \in SUBSET Entry /\ IsFiniteSet(B) /\ B # {} BY <1>1, <1>2, FS_Subset
  <2>2. PICK g \in B : \A h \in B : ~Before(TRUE, h, g)
    <3> HIDE DEF B
    <3> QED BY <2>1, FirstEntry
  <2>3. g \in got /\ g \in rows /\ Before(TRUE, f, g) BY <2>2
  <2>4. ~Before(TRUE, g, f) /\ f # g BY <1>1, <2>3, BeforeStrict
  <2>5. PICK d \in rows : /\ g.prev = d.id
                          /\ \A x \in rows : Before(TRUE, x, g) => x = d \/ Before(TRUE, x, d)
    BY <2>3, <2>4 DEF Linked, Verified
  <2>6. d.id # NoId BY DEF OrderInv, IdsGrow
  <2>7. PICK c \in got : g.prev = c.id /\ Before(TRUE, c, g)
    BY <2>3, <2>5, <2>6 DEF Verified
  <2>8. c = d BY <2>5, <2>7 DEF OrderInv, IdsGrow
  <2>9. f = d \/ Before(TRUE, f, d) BY <2>3, <2>5
  <2> QED BY <1>2, <2>2, <2>7, <2>8, <2>9
<1> QED BY <1>2 DEF UpTo

\* The head is placed.
LEMMA HeadPlaced == ASSUME OrderInv, Linked(TRUE) PROVE Placed(rows, head)
<1>1. CASE rows = {}
  <2>1. head.hash = NoId /\ head.count = 0 /\ head \in Head
    BY <1>1, EmptyHead DEF OrderInv, TypeInv, TypeOK
  <2> QED BY <2>1 DEF Placed, Head, NoHead
<1>2. CASE rows # {}
  <2>1. PICK l \in rows : l.id = head.hash /\ \A f \in rows : f = l \/ Before(TRUE, f, l)
    BY <1>2 DEF Linked, Verified
  <2>2. UpTo(rows, l) = rows BY <2>1 DEF UpTo
  <2> QED BY <2>1, <2>2 DEF Placed, OrderInv
<1> QED BY <1>1, <1>2

\* What is placed stays so when an entry lands.
LEMMA LandKeepsPlaces ==
    ASSUME OrderInv, ~StepAcrossMonth, NEW w \in Writer, NEW id \in Mintable,
           Land(w, EntryFor(w, id)), NEW s, Placed(rows, s)
    PROVE  Placed(rows', s)
<1> DEFINE n == EntryFor(w, id)
<1>1. /\ rows \subseteq Entry /\ clock \in 1..MaxTime /\ minted \in Id /\ writer[w] \in Call
  BY DEF OrderInv, TypeInv, TypeOK
<1>2. id \in Id BY <1>1, MintTyped
<1>3. n \in Entry /\ n.id = id /\ n.month = Month[clock]
  BY <1>1, <1>2 DEF EntryFor, Entry, Call, Head
<1>4. rows' = rows \cup {n} BY DEF Land
<1>5. \A f \in rows : Before(TRUE, f, n)
  <2>1. \A e \in rows : e.month <= Month[clock] /\ e.month \in Nat
    BY <1>1, MonthTyped DEF OrderInv, Entry
  <2>2. Month[clock] \in Nat BY <1>1, MonthTyped
  <2> QED BY <1>3, <2>1, <2>2, MintLater DEF Before
<1> HIDE DEF n
<1>6. \A e \in rows : ~Before(TRUE, n, e) /\ n # e BY <1>1, <1>3, <1>5, BeforeStrict
<1>7. \A e \in rows : UpTo(rows', e) = UpTo(rows, e) BY <1>4, <1>6 DEF UpTo
<1> QED BY <1>4, <1>7 DEF Placed

\* A reader's step leaves the memo placed, and every reader with a head that is.
LEMMA ReaderStepPlaced ==
    ASSUME MemoInv, ~StepAcrossMonth, NEW p \in Reader, ReaderStep(p)
    PROVE  /\ rows' = rows /\ Placed(rows, memo')
           /\ \A q \in Reader : reader'[q].seen \in {reader[q].seen, head, NoHead}
<1> DEFINE r == reader[p]
<1>0. /\ reader \in [Reader -> Locals] /\ r \in Locals /\ ReaderOK(r) /\ TypeInv
      /\ Resting.seen = NoHead /\ Placed(rows, NoHead) /\ Placed(rows, memo) /\ Placed(rows, r.seen)
  BY DEF MemoInv, OrderInv, TypeInv, TypeOK, Resting, Placed
<1>1. \A b \in BOOLEAN : Walking(b) \in Locals /\ Walking(b).seen = head BY <1>0, WalkingTyped
<1>2. StartOver(r).seen = r.seen BY <1>0, StartOverTyped
<1>3. CASE ExportStart(p) BY <1>0, <1>1, <1>3 DEF ExportStart
<1>4. CASE ProbeStart(p)
  <2>1. [Walking(TRUE) EXCEPT !.pc = "plan"].seen = head BY <1>1 DEF Locals
  <2> QED BY <1>0, <1>4, <2>1 DEF ProbeStart
<1>5. CASE ProbePlan(p)
  <2>1. NextMonth(Extending(r)).seen = r.seen
    <3>1. Extending(r).seen = r.seen /\ DOMAIN Extending(r) = DOMAIN r BY <1>0 DEF Extending, Locals
    <3> QED BY <1>0, <3>1 DEF NextMonth, Locals
  <2> QED BY <1>0, <1>2, <1>5, <2>1 DEF ProbePlan
<1>6. CASE ReadMonth(p)
  <2>1. NextMonth(r).seen = r.seen BY <1>0 DEF NextMonth, Locals
  <2> QED BY <1>0, <1>6, <2>1 DEF ReadMonth
<1>7. CASE ExtendMemo(p)
  <2>1. memo' \in {r.seen, NoHead} BY <1>7 DEF ExtendMemo
  <2>2. \A q \in Reader : reader'[q].seen \in {reader[q].seen, NoHead}
    BY <1>0, <1>2, <1>7 DEF ExtendMemo
  <2> QED BY <1>0, <1>7, <2>1, <2>2 DEF ExtendMemo
<1>8. CASE FullVerdict(p)
  <2>1. Placed(rows, memo')
    <3>1. CASE Verified(TRUE, r.got, NoId, r.seen.hash)
               /\ memo' = [hash |-> Last(r.got).id, count |-> Cardinality(r.got)]
      <4>1. r.got \in SUBSET rows /\ r.seen.hash # NoId
        BY <1>0, <1>8 DEF ReaderOK, FullVerdict
      <4>2. \E l \in r.got : \A f \in r.got : f = l \/ Before(TRUE, f, l)
        BY <3>1, <4>1 DEF Verified
      <4>3. Last(r.got) \in r.got /\ \A f \in r.got : f = Last(r.got) \/ Before(TRUE, f, Last(r.got))
        BY <4>2 DEF Last
      <4>4. OrderInv /\ Linked(TRUE) BY DEF MemoInv, OrderInv
      <4>5. r.got = UpTo(rows, Last(r.got)) BY <3>1, <4>1, <4>3, <4>4, WalkMissesNothing
      <4> QED BY <3>1, <4>1, <4>3, <4>5 DEF Placed
    <3>2. CASE memo' \in {memo, NoHead} BY <1>0, <3>2
    <3> QED BY <1>8, <3>1, <3>2 DEF FullVerdict
  <2> QED BY <1>0, <1>8, <2>1 DEF FullVerdict
<1> QED BY <1>3, <1>4, <1>5, <1>6, <1>7, <1>8 DEF ReaderStep

\* Every step keeps the memo placed.
LEMMA StepPlaced == ~StepAcrossMonth => (MemoInv /\ [Next]_vars => MemoInv')
<1> SUFFICES ASSUME ~StepAcrossMonth, MemoInv, [Next]_vars PROVE MemoInv'
  OBVIOUS
<1>1. OrderInv /\ Linked(TRUE) /\ OrderInv' BY StepOrdered DEF MemoInv, OrderInv
<1>2. Placed(rows, head) /\ Placed(rows, NoHead) BY <1>1, HeadPlaced DEF Placed
<1>3. CASE \E p \in Reader : ReaderStep(p)
  <2>1. /\ rows' = rows /\ Placed(rows, memo')
        /\ \A q \in Reader : reader'[q].seen \in {reader[q].seen, head, NoHead}
    BY <1>3, ReaderStepPlaced
  <2>2. \A q \in Reader : Placed(rows, reader'[q].seen) BY <1>2, <2>1 DEF MemoInv
  <2> QED BY <1>1, <2>1, <2>2 DEF MemoInv
<1>4. CASE \E w \in Writer : WriterStep(w)
  <2>1. PICK w \in Writer : WriterStep(w) BY <1>4
  <2>2. UNCHANGED reading
    BY <2>1 DEF WriterStep, Begin, ReadHead, Commit, Diagnose
  <2>3. UNCHANGED rows \/ \E id \in Mintable : Land(w, EntryFor(w, id))
    BY <2>1 DEF WriterStep, Begin, ReadHead, Commit, Diagnose, Refuse
  <2>4. \A s : Placed(rows, s) => Placed(rows', s) BY <1>1, <2>3, LandKeepsPlaces
  <2> QED BY <1>1, <2>2, <2>4 DEF MemoInv, reading
<1>5. CASE Tick BY <1>1, <1>5 DEF MemoInv, Tick, reading
<1>6. CASE StepBack BY <1>1, <1>6 DEF MemoInv, StepBack, reading
<1>7. CASE Restart
  <2>1. rows' = rows /\ memo' = NoHead /\ \A p \in Reader : reader'[p].seen = NoHead
    BY <1>7 DEF Restart, Resting
  <2> QED BY <1>1, <1>2, <2>1 DEF MemoInv
<1>8. CASE UNCHANGED vars BY <1>1, <1>8 DEF MemoInv, vars, reading
<1> QED BY <1>3, <1>4, <1>5, <1>6, <1>7, <1>8 DEF Next

\* If the clock is never set back over the start of a month, what the readiness
\* probe remembers is the place of an entry in the chain, although probes work
\* on from heads and memos of earlier moments (verifyProjectChain).
THEOREM MemoAlwaysSound == ~StepAcrossMonth => (Spec => []MemoSound)
<1> SUFFICES ASSUME ~StepAcrossMonth PROVE Spec => []MemoSound
  OBVIOUS
<1>1. Init => MemoInv
  <2> SUFFICES ASSUME Init PROVE MemoInv OBVIOUS
  <2>1. OrderInv BY InitOrdered
  <2>2. memo = NoHead /\ \A p \in Reader : reader[p].seen = NoHead BY DEF Init, Resting
  <2> QED BY <2>1, <2>2 DEF MemoInv, Placed
<1>2. MemoInv => MemoSound BY DEF MemoInv, MemoSound, Placed, UpTo
<1>3. MemoInv /\ [Next]_vars => MemoInv' BY StepPlaced
<1> QED BY <1>1, <1>2, <1>3, PTL DEF Spec
=============================================================================
