----------------------------- MODULE AuditChain -----------------------------
(***************************************************************************)
(* The hash-chained audit log of one project: its writers (domain/audit.ts)*)
(* and its readers (domain/auditQuery.ts, store/snapshot.ts).              *)
(*                                                                         *)
(* Every mutation appends one entry and advances the chain head in the     *)
(* transact that carries its domain write.  A writer reads the head,       *)
(* awaits, then mints the id of its entry and runs the transact without    *)
(* awaiting in between; a refused transact is diagnosed and perhaps tried  *)
(* again.  A reader reads the head and then the month partitions, newest   *)
(* first, awaiting each.                                                   *)
(*                                                                         *)
(* A hash stands for the entry it covers: two entries never share one, so  *)
(* hash and id are identified, and NoId is the empty hash.                 *)
(***************************************************************************)
EXTENDS Naturals, FiniteSets

CONSTANTS
    Writer,          \* calls that append, each once
    Reader,          \* concurrent readers of the chain
    Attempts,        \* CHAIN_WRITE_ATTEMPTS
    Month,           \* [0..MaxTime -> Nat], the month of each millisecond
    Draws,           \* what the random part of a ulid may be
    StepAcrossMonth, \* may the clock be set back over the start of a month
    MaxTime,         \* bound: the clock stops here
    MaxRestarts      \* bound: restarts of the process

ASSUME ChainConstants ==
    /\ IsFiniteSet(Writer)
    /\ Attempts \in Nat \ {0}
    /\ Draws \subseteq Nat /\ StepAcrossMonth \in BOOLEAN
    /\ MaxTime \in Nat \ {0} /\ MaxRestarts \in Nat
ASSUME Calendar ==
    /\ Month \in [0..MaxTime -> Nat]
    /\ \A s, t \in 0..MaxTime : s <= t => Month[s] <= Month[t]

VARIABLES
    rows,       \* the stored entries
    head,       \* the CHAINHEAD row
    key, value, \* a row that calls create and one that they update
    minted,     \* the last id this process minted
    clock,      \* nowMs()
    writer,     \* the locals of each writer
    reader,     \* the locals of each reader
    memo,       \* verifiedPrefixes
    restarts

domain == <<key, value>>
reading == <<reader, memo>>
vars == <<rows, head, domain, minted, clock, writer, reading, restarts>>

Id == [time : Nat, draw : Nat]
NoId == [time |-> 0, draw |-> 0]
Entry == [month : {Month[t] : t \in 1..MaxTime}, id : Id, prev : Id]
Head == [hash : Id, count : Nat]
NoHead == [hash |-> NoId, count |-> 0]

-----------------------------------------------------------------------------
(* Order.  Ids sort by time and then by their random part.  The server     *)
(* serves entries by partition and then by id, the backup tool by id.      *)

IdBefore(i, j) == i.time < j.time \/ (i.time = j.time /\ i.draw < j.draw)
Before(served, e, f) ==
    IF served /\ e.month # f.month THEN e.month < f.month ELSE IdBefore(e.id, f.id)

\* verifyChain: walked in order, the first entry names `from`, every other
\* one its predecessor, and the last one is `to`.
Verified(served, es, from, to) ==
    /\ \A e \in es :
          \/ e.prev = from /\ \A f \in es : f = e \/ Before(served, e, f)
          \/ \E d \in es :
               /\ e.prev = d.id /\ Before(served, d, e)
               /\ \A f \in es : Before(served, f, e) => f = d \/ Before(served, f, d)
    /\ \/ es = {} /\ to = from
       \/ \E l \in es : l.id = to /\ \A f \in es : f = l \/ Before(served, f, l)

-----------------------------------------------------------------------------
(* Writers.                                                                *)

\* A call only appends, or creates a row with it, or updates one it has read.
Kind == {"append", "create", "guarded"}
Fresh == [kind |-> "append", pc |-> "idle", seen |-> NoHead, held |-> 0, attempt |-> 0]
Call == [kind : Kind,
         pc : {"idle", "read", "commit", "diagnose",
               "ok", "conflict", "contention", "lost"},
         seen : Head, held : Nat, attempt : Nat]

\* Variant: a plain ulid, not a monotonic one.
MintablePlain == {[time |-> clock, draw |-> d] : d \in Draws}

\* monotonicFactory, seeded with the reading that also names the partition.
Mintable ==
    IF clock > minted.time
    THEN {[time |-> clock, draw |-> d] : d \in Draws}
    ELSE {[minted EXCEPT !.draw = @ + 1]}

EntryFor(w, id) ==
    [month |-> Month[clock], id |-> id, prev |-> writer[w].seen.hash]

\* Variant: the update is not guarded.
DomainHoldsUnguarded(w) == writer[w].kind = "create" => ~key

\* The conditions of the transact: of the caller's write, of the head, and of
\* the entry's own key.
DomainHolds(w) ==
    /\ writer[w].kind = "create" => ~key
    /\ writer[w].kind = "guarded" => value = writer[w].held
HeadHolds(w) == head.hash = writer[w].seen.hash
KeyFree(e) == \A f \in rows : f.month = e.month => f.id # e.id

\* The call returns: what it held is gone.
Over(w, outcome) == [Fresh EXCEPT !.kind = writer[w].kind, !.pc = outcome]
Return(w, outcome) == writer' = [writer EXCEPT ![w] = Over(w, outcome)]

\* Variant: one attempt short.
RetryShort(w) ==
    IF writer[w].attempt + 2 >= Attempts
    THEN Return(w, "contention")
    ELSE writer' = [writer EXCEPT ![w].pc = "read", ![w].attempt = @ + 1]

\* chainBackoff, after a lost round.
Retry(w) ==
    IF writer[w].attempt + 1 >= Attempts
    THEN Return(w, "contention")
    ELSE writer' = [writer EXCEPT ![w].pc = "read", ![w].attempt = @ + 1]

\* The caller reads the row it is about to guard, and calls.
Begin(w) ==
    /\ writer[w].pc = "idle"
    /\ \E k \in Kind :
          writer' = [writer EXCEPT ![w].kind = k, ![w].pc = "read",
                                   ![w].held = IF k = "guarded" THEN value ELSE 0]
    /\ UNCHANGED <<rows, head, domain, minted, clock, reading, restarts>>

ReadHead(w) ==
    /\ writer[w].pc = "read"
    /\ writer' = [writer EXCEPT ![w].pc = "commit", ![w].seen = head]
    /\ UNCHANGED <<rows, head, domain, minted, clock, reading, restarts>>

Land(w, e) ==
    /\ DomainHolds(w) /\ HeadHolds(w) /\ KeyFree(e)
    /\ rows' = rows \cup {e}
    /\ head' = [hash |-> e.id, count |-> writer[w].seen.count + 1]
    /\ key' = (key \/ writer[w].kind = "create")
    /\ value' = IF writer[w].kind = "guarded" THEN writer[w].held + 1 ELSE value
    /\ Return(w, "ok")

Refuse(w, e) ==
    /\ ~(DomainHolds(w) /\ HeadHolds(w) /\ KeyFree(e))
    /\ IF writer[w].kind = "append"
       THEN Retry(w)
       ELSE writer' = [writer EXCEPT ![w].pc = "diagnose"]
    /\ UNCHANGED <<rows, head, domain>>

Commit(w) ==
    /\ writer[w].pc = "commit"
    /\ \E id \in Mintable :
          /\ minted' = id
          /\ Land(w, EntryFor(w, id)) \/ Refuse(w, EntryFor(w, id))
    /\ UNCHANGED <<clock, reading, restarts>>

\* failedDomainCondition and what follows from it.
Diagnose(w) ==
    /\ writer[w].pc = "diagnose"
    /\ \/ ~DomainHolds(w) /\ Return(w, "conflict")
       \/ DomainHolds(w) /\ writer[w].kind = "guarded" /\ Return(w, "contention")
       \/ DomainHolds(w) /\ writer[w].kind # "guarded" /\ Retry(w)
    /\ UNCHANGED <<rows, head, domain, minted, clock, reading, restarts>>

-----------------------------------------------------------------------------
(* Readers: exportAuditChain, and verifyProjectChain, which remembers how  *)
(* far the chain was verified.  `left` counts the partitions not yet read. *)

Resting == [pc |-> "idle", probe |-> FALSE, tail |-> FALSE, seen |-> NoHead,
            cached |-> NoHead, need |-> 0, left |-> 0, got |-> {}]
Locals == [pc : {"idle", "plan", "walk"}, probe : BOOLEAN, tail : BOOLEAN,
           seen : Head, cached : Head, need : Nat, left : Nat, got : SUBSET Entry]

Walking(probe) ==
    [pc |-> "walk", probe |-> probe, tail |-> FALSE, seen |-> head,
     cached |-> NoHead, need |-> head.count, left |-> Month[clock] + 2, got |-> {}]
\* A probe that starts over reads the head again to know when to stop, and is
\* judged against the head it read first.
StartOver(r) == [Walking(TRUE) EXCEPT !.seen = r.seen]
WalkDone(r) == Cardinality(r.got) >= r.need \/ r.left = 0
MonthRows(m) == {e \in rows : e.month = m}
NextMonth(r) == [r EXCEPT !.got = @ \cup MonthRows(r.left - 1), !.left = @ - 1]

\* The last n entries, oldest first being the anchor.
Newest(es, n) == {e \in es : Cardinality({f \in es : Before(TRUE, e, f)}) < n}
Oldest(es) == CHOOSE e \in es : \A f \in es : f = e \/ Before(TRUE, e, f)
Last(es) == CHOOSE e \in es : \A f \in es : f = e \/ Before(TRUE, f, e)

ExportStart(p) ==
    /\ reader[p].pc = "idle" /\ head.hash # NoId
    /\ reader' = [reader EXCEPT ![p] = Walking(FALSE)]
    /\ UNCHANGED <<rows, head, domain, minted, clock, writer, memo, restarts>>

ProbeStart(p) ==
    /\ reader[p].pc = "idle" /\ head.hash # NoId
    /\ reader' = [reader EXCEPT ![p] = [Walking(TRUE) EXCEPT !.pc = "plan"]]
    /\ UNCHANGED <<rows, head, domain, minted, clock, writer, memo, restarts>>

Extending(r) ==
    [r EXCEPT !.pc = "walk", !.tail = TRUE, !.cached = memo,
              !.need = r.need - memo.count + 1]

\* Extend the verified prefix if there is one, else start over.
ProbePlan(p) ==
    /\ reader[p].pc = "plan"
    /\ reader' = [reader EXCEPT ![p] =
                    IF memo # NoHead /\ memo.count <= reader[p].seen.count
                    THEN NextMonth(Extending(reader[p]))
                    ELSE StartOver(reader[p])]
    /\ UNCHANGED <<rows, head, domain, minted, clock, writer, memo, restarts>>

ReadMonth(p) ==
    /\ reader[p].pc = "walk" /\ ~WalkDone(reader[p])
    /\ reader' = [reader EXCEPT ![p] = NextMonth(@)]
    /\ UNCHANGED <<rows, head, domain, minted, clock, writer, memo, restarts>>

\* The suffix since the remembered prefix, if its anchor is still there.
Anchored(r) ==
    LET tail == Newest(r.got, r.need)
    IN  Cardinality(tail) = r.need /\ Oldest(tail).id = r.cached.hash
\* Variant: the count is that of the head when the memo is written.
ExtendMemoFresh(p) ==
    LET r == reader[p]
        tail == Newest(r.got, r.need)
    IN  /\ r.pc = "walk" /\ WalkDone(r) /\ r.tail
        /\ IF Anchored(r)
           THEN /\ memo' = IF Verified(TRUE, tail \ {Oldest(tail)},
                                       r.cached.hash, r.seen.hash)
                           THEN [r.seen EXCEPT !.count = head.count] ELSE NoHead
                /\ reader' = [reader EXCEPT ![p] = Resting]
           ELSE /\ memo' = NoHead
                /\ reader' = [reader EXCEPT ![p] = StartOver(r)]
        /\ UNCHANGED <<rows, head, domain, minted, clock, writer, restarts>>

ExtendMemo(p) ==
    LET r == reader[p]
        tail == Newest(r.got, r.need)
    IN  /\ r.pc = "walk" /\ WalkDone(r) /\ r.tail
        /\ IF Anchored(r)
           THEN /\ memo' = IF Verified(TRUE, tail \ {Oldest(tail)},
                                       r.cached.hash, r.seen.hash)
                           THEN r.seen ELSE NoHead
                /\ reader' = [reader EXCEPT ![p] = Resting]
           ELSE /\ memo' = NoHead
                /\ reader' = [reader EXCEPT ![p] = StartOver(r)]
        /\ UNCHANGED <<rows, head, domain, minted, clock, writer, restarts>>

FullVerdict(p) ==
    LET r == reader[p]
    IN  /\ r.pc = "walk" /\ WalkDone(r) /\ ~r.tail
        /\ memo' = IF ~r.probe THEN memo
                   ELSE IF Verified(TRUE, r.got, NoId, r.seen.hash)
                        THEN [hash |-> Last(r.got).id, count |-> Cardinality(r.got)]
                        ELSE NoHead
        /\ reader' = [reader EXCEPT ![p] = Resting]
        /\ UNCHANGED <<rows, head, domain, minted, clock, writer, restarts>>

-----------------------------------------------------------------------------
(* The clock and the process.                                              *)

Ahead(t) == \A e \in rows : e.id.time < t

Tick ==
    /\ clock < MaxTime
    /\ clock' = clock + 1
    /\ UNCHANGED <<rows, head, domain, minted, writer, reading, restarts>>

\* The system clock is corrected.  A process that has minted nothing yet is
\* assumed to keep ahead of the chain.
StepBack ==
    /\ clock > 1
    /\ StepAcrossMonth \/ Month[clock - 1] = Month[clock]
    /\ minted # NoId \/ Ahead(clock - 1)
    /\ clock' = clock - 1
    /\ UNCHANGED <<rows, head, domain, minted, writer, reading, restarts>>

\* A new process serves the same store, later than anything stored.
Restart ==
    /\ restarts < MaxRestarts
    /\ restarts' = restarts + 1
    /\ \E t \in clock..MaxTime : Ahead(t) /\ clock' = t
    /\ minted' = NoId
    /\ writer' = [w \in Writer |->
                    IF writer[w].pc \in {"read", "commit", "diagnose"}
                    THEN Over(w, "lost") ELSE writer[w]]
    /\ reader' = [p \in Reader |-> Resting]
    /\ memo' = NoHead
    /\ UNCHANGED <<rows, head, domain>>

Init ==
    /\ rows = {} /\ head = NoHead
    /\ key = FALSE /\ value = 0
    /\ minted = NoId /\ clock = 1
    /\ writer = [w \in Writer |-> Fresh]
    /\ reader = [p \in Reader |-> Resting]
    /\ memo = NoHead /\ restarts = 0

WriterStep(w) == Begin(w) \/ ReadHead(w) \/ Commit(w) \/ Diagnose(w)
ReaderStep(p) ==
    \/ ExportStart(p) \/ ProbeStart(p) \/ ProbePlan(p)
    \/ ReadMonth(p) \/ ExtendMemo(p) \/ FullVerdict(p)

Next ==
    \/ \E w \in Writer : WriterStep(w)
    \/ \E p \in Reader : ReaderStep(p)
    \/ Tick \/ StepBack \/ Restart

Spec == Init /\ [][Next]_vars

-----------------------------------------------------------------------------
(* Properties.                                                             *)

\* The types of the state.
TypeOK ==
    /\ rows \subseteq Entry /\ head \in Head
    /\ key \in BOOLEAN /\ value \in Nat
    /\ minted \in Id /\ clock \in 1..MaxTime
    /\ writer \in [Writer -> Call]
    /\ reader \in [Reader -> Locals]
    /\ memo \in Head /\ restarts \in 0..MaxRestarts

\* The chain never forks and never reorders: whatever the writers' races, the
\* bursts within a millisecond, the restarts and the corrections of the clock
\* within a month, the entries in the order they are served link up from the
\* genesis to the head, and the head counts them (recordIn, verifyChain).
ChainVerifies ==
    /\ Verified(TRUE, rows, NoId, head.hash)
    /\ head.count = Cardinality(rows)

\* No update is lost: every value-guarded call that was answered has its own
\* effect on the value, in whatever way calls with a stale read lose the guard,
\* the head or both, and although some refused calls are replayed
\* (transactWithAudit: "a domain write is never REPLAYED").
NoLostUpdate ==
    value = Cardinality({w \in Writer : writer[w].kind = "guarded"
                                         /\ writer[w].pc = "ok"})

\* With no more concurrent writers than attempts, nobody whose write may be
\* replayed is told that the chain is busy (CHAIN_WRITE_ATTEMPTS: "the LAST of
\* them needs N attempts to get through").
NobodyStarves ==
    Cardinality(Writer) <= Attempts =>
        \A w \in Writer : writer[w].kind # "guarded" => writer[w].pc # "contention"

\* What the readiness probe remembers is a verified prefix: the entry it names
\* is the one at the position it names, although a probe works from
\* the memo and the head of earlier moments while the chain grows (verifyProjectChain).
MemoSound ==
    memo # NoHead =>
        \E e \in rows :
           /\ e.id = memo.hash
           /\ memo.count = Cardinality({f \in rows : f = e \/ Before(TRUE, f, e)})

\* The backup tool and the server judge the chain alike: "the on-disk and
\* served verdicts cannot diverge" (store/snapshot.ts).
SameVerdict ==
    Verified(TRUE, rows, NoId, head.hash) <=> Verified(FALSE, rows, NoId, head.hash)

\* An export is self-verifying: "accumulating until we have exactly the
\* CHAINHEAD count entries" (auditQuery.ts), it verifies against its own head.
ExportVerifies ==
    \A p \in Reader :
        LET r == reader[p]
        IN  r.pc = "walk" /\ ~r.probe /\ WalkDone(r) =>
                Verified(TRUE, r.got, NoId, r.seen.hash)
=============================================================================
