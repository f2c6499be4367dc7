--------------------------- MODULE Submission_proofs ---------------------------
(***************************************************************************)
(* Theorems about Submission, for any number of copies, keys, attempts and *)
(* any caps.  The inductive invariant says what an admission still knows   *)
(* when its batch is tried: if the gate has not moved since it was read,   *)
(* nothing was written since, and the count it was decided on stands.      *)
(***************************************************************************)
EXTENDS Submission, FiniteSetTheorems, TLAPS

-----------------------------------------------------------------------------
Counted == Open \cup Recent

\* There is room for one more, in the open ones and in the hour.
Room == Cardinality(Open) < MaxOpen /\ Cardinality(Recent) < PerHour

\* Closed, and past its hour: it never counts again.
Settled(r) == request[r] = "closed" /\ age[r] # 0

\* What is known of copy s when its handler is at c.
SoundAs(c, s) ==
    /\ c.gate <= gate
    /\ \A r \in c.seen : request[r] # "none"
    /\ \A r \in c.prune : Settled(r)
    /\ c.pc # "done" => request[s] = "none"
    /\ c.pc = "count" => indexed /\ (c.gate = gate => Counted \subseteq c.seen)
    /\ c.pc \in {"head", "commit"} =>
         /\ c.backfill \/ indexed
         /\ c.gate = gate => Room /\ (c.backfill => Counted \subseteq c.seen)

Sound == \A s \in Submit : SoundAs(copy[s], s)

\* The index points at requests only.
IndexKnown == \A r \in pointers : request[r] # "none"

SInv == TypeOK /\ CapsHeld /\ IndexComplete /\ IndexKnown /\ Sound

-----------------------------------------------------------------------------
LEMMA SubsetsFinite ==
    \A S \in SUBSET Submit :
        /\ IsFiniteSet(S) /\ Cardinality(S) \in Nat
        /\ \A T \in SUBSET S : Cardinality(T) <= Cardinality(S)
        /\ \A s \in Submit : Cardinality(S \cup {s}) <= Cardinality(S) + 1
<1> SUFFICES ASSUME NEW S \in SUBSET Submit
             PROVE  /\ IsFiniteSet(S) /\ Cardinality(S) \in Nat
                    /\ \A T \in SUBSET S : Cardinality(T) <= Cardinality(S)
                    /\ \A s \in Submit : Cardinality(S \cup {s}) <= Cardinality(S) + 1
  OBVIOUS
<1>1. IsFiniteSet(S) BY SubmissionConstants, FS_Subset
<1>2. Cardinality(S) \in Nat BY <1>1, FS_CardinalityType
<1>3. \A T \in SUBSET S : Cardinality(T) <= Cardinality(S) BY <1>1, FS_Subset
<1>4. \A s \in Submit : Cardinality(S \cup {s}) <= Cardinality(S) + 1
  <2> SUFFICES ASSUME NEW s \in Submit PROVE Cardinality(S \cup {s}) <= Cardinality(S) + 1
    OBVIOUS
  <2>1. Cardinality(S \cup {s}) = IF s \in S THEN Cardinality(S) ELSE Cardinality(S) + 1
    BY <1>1, FS_AddElement
  <2> QED BY <2>1, <1>2
<1> QED BY <1>1, <1>2, <1>3, <1>4

LEMMA CountedSets ==
    /\ Open \in SUBSET Submit /\ Recent \in SUBSET Submit
    /\ Cardinality(Open) \in Nat /\ Cardinality(Recent) \in Nat
BY SubsetsFinite DEF Open, Recent

LEMMA FreshCopies ==
    \A pc \in {"arrives", "forget", "attempt", "gate", "index", "count", "head", "commit", "done"} :
        Fresh(pc) \in Copy /\ Fresh(pc).pc = pc /\ Fresh(pc).gate = 0
            /\ Fresh(pc).seen = {} /\ Fresh(pc).prune = {}
BY SubmissionConstants DEF Fresh, Copy, Marker

LEMMA CopyMoves ==
    ASSUME NEW s \in Submit, NEW c, copy \in [Submit -> Copy], Goto(s, c)
    PROVE  copy'[s] = c /\ \A t \in Submit \ {s} : copy'[t] = copy[t]
BY DEF Goto

LEMMA InvInit == Init => SInv
<1> SUFFICES ASSUME Init PROVE SInv OBVIOUS
<1>1. mix \in Mix BY SubmissionConstants DEF Init
<1>2. TypeOK
  <2>1. copy \in [Submit -> Copy] BY FreshCopies DEF Init
  <2>2. request \in [Submit -> {"none", "open", "closed"}] /\ age \in [Submit -> Age]
    BY DEF Init, Age
  <2>3. marker \in [Key -> Marker] /\ dropped \subseteq Key BY <1>1 DEF Init, Marker, Mix
  <2>4. mix \in Mixes /\ indexed \in BOOLEAN /\ pointers \subseteq Submit /\ gate \in Nat /\ head \in Nat
    BY DEF Init
  <2> QED BY <2>1, <2>2, <2>3, <2>4 DEF TypeOK
<1>3. Open = mix.standing /\ Recent = {}
  BY <1>1 DEF Init, Open, Recent, Mix
<1>4. CapsHeld
  BY <1>3, SubmissionConstants, FS_EmptySet DEF Init, CapsHeld
<1>5. Sound
  BY <1>2, FreshCopies DEF Init, Sound, SoundAs
<1> QED BY <1>2, <1>4, <1>5 DEF Init, SInv, IndexComplete, IndexKnown

-----------------------------------------------------------------------------
(* Steps of a handler that only move its copy.                             *)

LEMMA QuietStep ==
    ASSUME SInv, NEW s \in Submit, NEW c \in Copy, Goto(s, c), OnlyCopies, SoundAs(c, s)
    PROVE  SInv'
<1> USE DEF SInv
<1>1. copy \in [Submit -> Copy] /\ copy' \in [Submit -> Copy] BY DEF TypeOK, Goto
<1>2. copy'[s] = c /\ \A t \in Submit \ {s} : copy'[t] = copy[t] BY <1>1, CopyMoves
<1>3. TypeOK' BY <1>1 DEF TypeOK, OnlyCopies
<1>4. Open' = Open /\ Recent' = Recent BY DEF OnlyCopies, Open, Recent
<1>5. CapsHeld' /\ IndexComplete' /\ IndexKnown'
  BY <1>4 DEF CapsHeld, IndexComplete, IndexKnown, OnlyCopies
<1>6. Sound'
  <2> SUFFICES ASSUME NEW t \in Submit PROVE SoundAs(copy[t], t)' BY DEF Sound
  <2>1. SoundAs(copy'[t], t) BY <1>2 DEF Sound
  <2> QED BY <2>1, <1>4 DEF SoundAs, Counted, Room, Settled, OnlyCopies
<1> QED BY <1>3, <1>5, <1>6

LEMMA Begun ==
    ASSUME SInv, NEW s \in Submit, copy[s].pc # "done",
           NEW pc \in {"arrives", "forget", "attempt", "done"}
    PROVE  Fresh(pc) \in Copy /\ SoundAs(Fresh(pc), s)
BY FreshCopies DEF SInv, TypeOK, Sound, SoundAs

LEMMA ArriveStep ==
    ASSUME SInv, NEW s \in Submit, Arrive(s) PROVE SInv'
<1> PICK pc \in {"forget", "done", "attempt"} : Goto(s, Fresh(pc))
  BY DEF Arrive
<1> QED BY Begun, QuietStep DEF Arrive, At

LEMMA LoseStep ==
    ASSUME SInv, NEW s \in Submit, Lose(s) PROVE SInv'
<1>1. CASE copy[s].attempt + 1 < MaxAttempt
  <2> DEFINE c == [Fresh("attempt") EXCEPT !.attempt = copy[s].attempt + 1]
  <2>1. copy[s] \in Copy BY DEF SInv, TypeOK
  <2>2. copy[s].attempt + 1 \in 0..MaxAttempt BY <1>1, <2>1, SubmissionConstants DEF Copy
  <2>3. c \in Copy /\ c.pc = "attempt" /\ c.gate = 0 /\ c.seen = {} /\ c.prune = {}
    BY <2>2, SubmissionConstants DEF Fresh, Copy, Marker
  <2>4. Goto(s, c) BY <1>1 DEF Lose
  <2>5. SoundAs(c, s) BY <2>3 DEF SInv, Sound, SoundAs, TypeOK, Lose, At
  <2> QED BY <2>3, <2>4, <2>5, QuietStep DEF Lose
<1>2. CASE ~(copy[s].attempt + 1 < MaxAttempt)
  <2>1. Goto(s, Fresh("done")) BY <1>2 DEF Lose
  <2> QED BY <2>1, Begun, QuietStep DEF Lose, At
<1> QED BY <1>1, <1>2

LEMMA AttemptStep ==
    ASSUME SInv, NEW s \in Submit, Attempt(s) PROVE SInv'
<1> DEFINE c == [copy[s] EXCEPT !.pc = "gate", !.marker = MarkerOf(s)]
<1>1. CASE Goto(s, Fresh("done"))
  BY <1>1, Begun, QuietStep DEF Attempt, At
<1>2. CASE Goto(s, c)
  <2>1. copy[s] \in Copy /\ MarkerOf(s) \in Marker
    BY SubmissionConstants DEF SInv, TypeOK, MarkerOf, KeyOf, Mix, Marker
  <2>2. c \in Copy /\ c.pc = "gate" /\ c.gate = copy[s].gate /\ c.seen = copy[s].seen
          /\ c.prune = copy[s].prune
    BY <2>1 DEF Copy
  <2>3. SoundAs(c, s) BY <2>2 DEF SInv, Sound, SoundAs, Attempt, At
  <2> QED BY <1>2, <2>2, <2>3, QuietStep DEF Attempt
<1> QED BY <1>1, <1>2 DEF Attempt

LEMMA ReadGateStep ==
    ASSUME SInv, NEW s \in Submit, ReadGate(s) PROVE SInv'
<1> DEFINE c == [copy[s] EXCEPT !.pc = "index", !.gate = gate]
<1>1. copy[s] \in Copy /\ gate \in Nat BY DEF SInv, TypeOK
<1>2. c \in Copy /\ c.pc = "index" /\ c.gate = gate /\ c.seen = copy[s].seen
        /\ c.prune = copy[s].prune
  BY <1>1 DEF Copy
<1>3. SoundAs(c, s) BY <1>1, <1>2 DEF SInv, Sound, SoundAs, ReadGate, At
<1> QED BY <1>2, <1>3, QuietStep DEF ReadGate

LEMMA ReadPointersStep ==
    ASSUME SInv, NEW s \in Submit, ReadPointers(s) PROVE SInv'
<1> DEFINE c == [copy[s] EXCEPT !.pc = "count", !.seen = pointers]
<1>1. copy[s] \in Copy /\ pointers \in SUBSET Submit BY DEF SInv, TypeOK
<1>2. c \in Copy /\ c.pc = "count" /\ c.gate = copy[s].gate /\ c.seen = pointers
        /\ c.prune = copy[s].prune
  BY <1>1 DEF Copy
<1>3. SoundAs(c, s)
  BY <1>1, <1>2
     DEF SInv, Sound, SoundAs, ReadPointers, At, IndexKnown, IndexComplete, Counted
<1> QED BY <1>2, <1>3, QuietStep DEF ReadPointers

LEMMA ReadHeadStep ==
    ASSUME SInv, NEW s \in Submit, ReadHead(s) PROVE SInv'
<1> DEFINE c == [copy[s] EXCEPT !.pc = "commit", !.head = head]
<1>1. copy[s] \in Copy /\ head \in Nat BY DEF SInv, TypeOK
<1>2. c \in Copy /\ c.pc = "commit" /\ c.gate = copy[s].gate /\ c.seen = copy[s].seen
        /\ c.prune = copy[s].prune /\ c.backfill = copy[s].backfill
  BY <1>1 DEF Copy
<1>3. SoundAs(c, s) BY <1>1, <1>2 DEF SInv, Sound, SoundAs, ReadHead, At
<1> QED BY <1>2, <1>3, QuietStep DEF ReadHead

\* An admission knows what it counted: all there was to count when it read the
\* requests, or when the gate has not moved since.
LEMMA DecideStep ==
    ASSUME SInv, NEW s \in Submit, copy[s].pc # "done", NEW seen \in SUBSET Submit,
           NEW backfill \in BOOLEAN, Decide(s, seen, backfill, Recent), OnlyCopies,
           \A r \in seen : request[r] # "none",
           backfill \/ indexed,
           copy[s].gate = gate => Counted \subseteq seen
    PROVE  SInv'
<1> DEFINE c == [copy[s] EXCEPT !.pc = "head", !.seen = seen, !.backfill = backfill,
                                !.prune = seen \ (Recent \cup Open)]
<1>1. CASE Goto(s, Fresh("done"))
  BY <1>1, Begun, QuietStep
<1>2. CASE Goto(s, c) /\ ~(Cardinality(seen \cap Recent) >= PerHour)
                      /\ ~(Cardinality(seen \cap Open) >= MaxOpen)
  <2>1. copy[s] \in Copy BY DEF SInv, TypeOK
  <2>2. c \in Copy /\ c.pc = "head" /\ c.gate = copy[s].gate /\ c.seen = seen
          /\ c.backfill = backfill /\ c.prune = seen \ (Recent \cup Open)
    BY <2>1 DEF Copy
  <2>3. \A r \in c.prune : Settled(r)
    BY <2>2 DEF SInv, TypeOK, Settled, Open, Recent
  <2>4. ASSUME c.gate = gate PROVE Room /\ Counted \subseteq seen
    <3>1. Counted \subseteq seen BY <2>2, <2>4
    <3>2. seen \cap Open = Open /\ seen \cap Recent = Recent BY <3>1 DEF Counted
    <3>3. MaxOpen \in Nat /\ PerHour \in Nat BY SubmissionConstants
    <3> QED BY <3>1, <3>2, <3>3, <1>2, CountedSets DEF Room
  <2>5. c.gate <= gate /\ request[s] = "none"
    BY <2>2 DEF SInv, Sound, SoundAs
  <2>6. SoundAs(c, s) BY <2>2, <2>3, <2>4, <2>5 DEF SoundAs
  <2> QED BY <1>2, <2>2, <2>6, QuietStep
<1> QED BY <1>1, <1>2 DEF Decide

LEMMA MaterializeStep ==
    ASSUME SInv, NEW s \in Submit, Materialize(s) PROVE SInv'
<1>1. Open \cup Recent \in SUBSET Submit /\ \A r \in Open \cup Recent : request[r] # "none"
  BY DEF Open, Recent
<1>2. copy[s].pc # "done" BY DEF Materialize, At
<1>3. Decide(s, Open \cup Recent, TRUE, Recent) /\ OnlyCopies BY DEF Materialize
<1>4. Counted \subseteq Open \cup Recent BY DEF Counted
<1> QED BY <1>1, <1>2, <1>3, <1>4, DecideStep

LEMMA CountStep ==
    ASSUME SInv, NEW s \in Submit, Count(s) PROVE SInv'
<1>1. copy[s] \in Copy /\ SoundAs(copy[s], s) BY DEF SInv, TypeOK, Sound
<1>2. copy[s].seen \in SUBSET Submit BY <1>1 DEF Copy
<1>3. /\ \A r \in copy[s].seen : request[r] # "none"
      /\ indexed /\ (copy[s].gate = gate => Counted \subseteq copy[s].seen)
      /\ copy[s].pc # "done"
  BY <1>1 DEF SoundAs, Count, At
<1>4. Decide(s, copy[s].seen, FALSE, Recent) /\ OnlyCopies BY DEF Count
<1> QED BY <1>2, <1>3, <1>4, DecideStep

-----------------------------------------------------------------------------
(* Steps that write.                                                       *)

LEMMA ForgetStep ==
    ASSUME SInv, NEW s \in Submit, Forget(s) PROVE SInv'
<1> USE DEF SInv
<1>1. Fresh("attempt") \in Copy /\ SoundAs(Fresh("attempt"), s) BY Begun DEF Forget, At
<1>2. copy' \in [Submit -> Copy] /\ copy'[s] = Fresh("attempt")
        /\ \A t \in Submit \ {s} : copy'[t] = copy[t]
  BY <1>1, CopyMoves DEF TypeOK, Forget, Goto
<1>3. marker' \in [Key -> Marker] /\ dropped' \subseteq Key
  <2>1. MarkerOf(s) \in Submit => KeyOf(s) \in Key
    BY SubmissionConstants DEF TypeOK, Mix, KeyOf, MarkerOf
  <2> QED BY <2>1 DEF TypeOK, Forget, Marker
<1>4. Open' = Open /\ Recent' = Recent BY DEF Forget, Open, Recent
<1>5. CapsHeld' /\ IndexComplete' /\ IndexKnown'
  BY <1>4 DEF CapsHeld, IndexComplete, IndexKnown, Forget
<1>6. Sound'
  <2> SUFFICES ASSUME NEW t \in Submit PROVE SoundAs(copy[t], t)' BY DEF Sound
  <2>1. SoundAs(copy'[t], t) BY <1>1, <1>2 DEF Sound
  <2> QED BY <2>1, <1>4 DEF SoundAs, Counted, Room, Settled, Forget
<1> QED BY <1>2, <1>3, <1>5, <1>6 DEF TypeOK, Forget

LEMMA CommitStep ==
    ASSUME SInv, NEW s \in Submit, Commit(s) PROVE SInv'
<1> USE DEF SInv
<1>1. copy[s] \in Copy /\ SoundAs(copy[s], s) /\ copy[s].gate = gate /\ gate \in Nat
  BY DEF TypeOK, Sound, Commit, Holds
<1>2. /\ request[s] = "none" /\ Room
      /\ copy[s].backfill \/ indexed
      /\ copy[s].backfill => Counted \subseteq copy[s].seen
      /\ \A r \in copy[s].seen : request[r] # "none"
      /\ \A r \in copy[s].prune : Settled(r)
  BY <1>1 DEF SoundAs, Commit, At
<1>3. /\ request' = [request EXCEPT ![s] = "open"] /\ age' = age /\ indexed' = TRUE
      /\ gate' = gate + 1 /\ head' = head + 1
  BY DEF Commit
<1>4. copy' \in [Submit -> Copy] /\ copy'[s] = Fresh("done")
        /\ \A t \in Submit \ {s} : copy'[t] = copy[t]
  BY FreshCopies, CopyMoves DEF TypeOK, Commit, Goto
<1>5. TypeOK'
  <2>1. marker' \in [Key -> Marker] BY DEF TypeOK, Commit, Marker
  <2>2. pointers' \in SUBSET Submit BY <1>1 DEF TypeOK, Commit, Copy
  <2>3. request' \in [Submit -> {"none", "open", "closed"}] /\ age' \in [Submit -> Age]
    BY <1>3 DEF TypeOK
  <2>4. mix' \in Mixes /\ indexed' \in BOOLEAN /\ gate' \in Nat /\ head' \in Nat
    BY <1>3 DEF TypeOK, Commit
  <2>5. dropped' \subseteq Key BY DEF TypeOK, Commit
  <2> QED BY <2>1, <2>2, <2>3, <2>4, <2>5, <1>4 DEF TypeOK
<1>6. request \in [Submit -> {"none", "open", "closed"}] BY DEF TypeOK
<1>7. Open' = Open \cup {s} /\ Recent' \subseteq Recent \cup {s}
  BY <1>2, <1>3, <1>6 DEF Open, Recent
<1>8. CapsHeld'
  <2>1. /\ Cardinality(Open \cup {s}) <= Cardinality(Open) + 1
        /\ Cardinality(Recent \cup {s}) <= Cardinality(Recent) + 1
        /\ Cardinality(Recent') <= Cardinality(Recent \cup {s})
        /\ {Cardinality(Recent'), Cardinality(Recent \cup {s}), Cardinality(Open \cup {s})} \subseteq Nat
    <3>1. Recent \cup {s} \in SUBSET Submit /\ Open \cup {s} \in SUBSET Submit
            /\ Recent' \in SUBSET (Recent \cup {s}) /\ Recent' \in SUBSET Submit
      BY <1>7, CountedSets
    <3> QED BY <3>1, CountedSets, SubsetsFinite
  <2> QED BY <2>1, <1>2, <1>7, CountedSets, SubmissionConstants DEF Room, CapsHeld
<1>9. IndexComplete'
  <2> SUFFICES ASSUME NEW r \in (Open \cup Recent)' PROVE r \in pointers'
    BY DEF IndexComplete
  <2>1. CASE r = s BY <2>1 DEF Commit
  <2>2. CASE r # s
    <3>1. r \in Counted BY <2>2, <1>7 DEF Counted
    <3>2. r \notin copy[s].prune BY <3>1, <1>2 DEF Counted, Open, Recent, Settled
    <3>3. r \in (IF copy[s].backfill THEN pointers \cup copy[s].seen ELSE pointers)
      BY <3>1, <1>2 DEF IndexComplete, Counted
    <3> QED BY <3>2, <3>3 DEF Commit
  <2> QED BY <2>1, <2>2
<1>10. \A r \in Submit : request[r] # "none" => request'[r] # "none"
  BY <1>3, <1>6
<1>11. IndexKnown'
  <2> SUFFICES ASSUME NEW r \in pointers' PROVE request'[r] # "none" BY DEF IndexKnown
  <2>1. r \in pointers \cup copy[s].seen \cup {s} BY DEF Commit
  <2>2. r \in Submit BY <2>1, <1>1 DEF TypeOK, Copy
  <2>3. CASE r = s BY <2>3, <1>3, <1>6
  <2>4. CASE r # s BY <2>1, <2>2, <2>4, <1>2, <1>10 DEF IndexKnown
  <2> QED BY <2>3, <2>4
<1>12. Sound'
  <2> SUFFICES ASSUME NEW t \in Submit PROVE SoundAs(copy[t], t)' BY DEF Sound
  <2>1. CASE t = s
    BY <2>1, <1>1, <1>3, <1>4, FreshCopies DEF SoundAs
  <2>2. CASE t # s
    <3>1. copy'[t] = copy[t] /\ copy[t] \in Copy /\ SoundAs(copy[t], t)
      BY <2>2, <1>4 DEF TypeOK, Sound
    <3>2. copy[t].gate \in Nat /\ copy[t].gate <= gate /\ copy[t].gate # gate'
            /\ copy[t].gate <= gate'
      BY <3>1, <1>1, <1>3 DEF SoundAs, Copy
    <3>3. \A r \in copy[t].seen : request'[r] # "none"
      BY <3>1, <1>10 DEF SoundAs, Copy
    <3>4. \A r \in copy[t].prune : Settled(r)'
      <4> SUFFICES ASSUME NEW r \in copy[t].prune PROVE Settled(r)' OBVIOUS
      <4>1. r \in Submit /\ Settled(r) BY <3>1 DEF SoundAs, Copy
      <4>2. r # s BY <4>1, <1>2 DEF Settled
      <4> QED BY <4>1, <4>2, <1>3, <1>6 DEF Settled
    <3>5. copy[t].pc # "done" => request'[t] = "none"
      BY <3>1, <2>2, <1>3, <1>6 DEF SoundAs
    <3> QED BY <3>1, <3>2, <3>3, <3>4, <3>5, <1>3 DEF SoundAs
  <2> QED BY <2>1, <2>2
<1> QED BY <1>5, <1>8, <1>9, <1>11, <1>12

\* Requests only close, and hours only pass: less counts than before.
LEMMA Shrinks ==
    ASSUME SInv, TypeOK', copy' = copy, indexed' = indexed, pointers' = pointers, gate' = gate,
           \A r \in Submit : /\ request[r] = "none" <=> request'[r] = "none"
                             /\ request'[r] = "open" => request[r] = "open"
                             /\ Settled(r) => Settled(r)'
                             /\ request[r] # "none" /\ age'[r] = 0 => age[r] = 0
    PROVE  SInv'
<1> USE DEF SInv
<1>1. Open' \subseteq Open /\ Recent' \subseteq Recent BY DEF Open, Recent
<1>2. /\ Cardinality(Open') <= Cardinality(Open) /\ Cardinality(Recent') <= Cardinality(Recent)
      /\ {Cardinality(Open'), Cardinality(Recent'), Cardinality(Open), Cardinality(Recent)} \subseteq Nat
  <2>1. Open' \in SUBSET Submit /\ Recent' \in SUBSET Submit BY <1>1, CountedSets
  <2> QED BY <2>1, <1>1, CountedSets, SubsetsFinite
<1>3. CapsHeld' BY <1>2, SubmissionConstants DEF CapsHeld
<1>4. IndexComplete' BY <1>1 DEF IndexComplete
<1>5. IndexKnown' BY DEF IndexKnown, TypeOK
<1>6. Room => Room' BY <1>2, SubmissionConstants DEF Room
<1>7. Counted' \subseteq Counted BY <1>1 DEF Counted
<1>8. Sound'
  <2> SUFFICES ASSUME NEW t \in Submit PROVE SoundAs(copy[t], t)' BY DEF Sound
  <2>1. copy[t] \in Copy /\ SoundAs(copy[t], t) /\ copy'[t] = copy[t] BY DEF TypeOK, Sound
  <2>2. copy[t].seen \subseteq Submit /\ copy[t].prune \subseteq Submit BY <2>1 DEF Copy
  <2>3. \A r \in copy[t].seen : request'[r] # "none" BY <2>1, <2>2 DEF SoundAs
  <2>4. \A r \in copy[t].prune : Settled(r)' BY <2>1, <2>2 DEF SoundAs
  <2> QED BY <2>1, <2>3, <2>4, <1>6, <1>7 DEF SoundAs
<1> QED BY <1>3, <1>4, <1>5, <1>8

LEMMA CloseStep ==
    ASSUME SInv, NEW r \in Submit, Close(r) PROVE SInv'
<1>1. TypeOK' BY DEF SInv, TypeOK, Close
<1>2. \A t \in Submit : /\ request[t] = "none" <=> request'[t] = "none"
                        /\ request'[t] = "open" => request[t] = "open"
                        /\ Settled(t) => Settled(t)'
                        /\ request[t] # "none" /\ age'[t] = 0 => age[t] = 0
  BY DEF SInv, TypeOK, Close, Settled
<1> QED BY <1>1, <1>2, Shrinks DEF Close

LEMMA ElsewhereStep ==
    ASSUME SInv, Elsewhere PROVE SInv'
<1>1. TypeOK' BY DEF SInv, TypeOK, Elsewhere
<1> QED BY <1>1, Shrinks DEF Elsewhere, Settled

LEMMA LaterStep ==
    ASSUME SInv, Later PROVE SInv'
<1>1. TypeOK' BY DEF SInv, TypeOK, Later, Age
<1>2. \A t \in Submit : age'[t] = 0 => age[t] = 0
  BY DEF SInv, TypeOK, Later, Age
<1>3. \A t \in Submit : Settled(t) => Settled(t)'
  BY <1>2 DEF Later, Settled
<1> QED BY <1>1, <1>2, <1>3, Shrinks DEF Later

-----------------------------------------------------------------------------
LEMMA InvNext == SInv /\ [Next]_vars => SInv'
<1> SUFFICES ASSUME SInv, [Next]_vars PROVE SInv' OBVIOUS
<1>1. ASSUME NEW s \in Submit, Handler(s) PROVE SInv'
  BY <1>1, ArriveStep, ForgetStep, AttemptStep, ReadGateStep, MaterializeStep, ReadPointersStep,
     CountStep, ReadHeadStep, CommitStep, LoseStep DEF Handler
<1>2. ASSUME UNCHANGED vars PROVE SInv'
  BY <1>2 DEF vars, SInv, TypeOK, CapsHeld, IndexComplete, IndexKnown, Sound, SoundAs, Counted,
              Room, Settled, Open, Recent
<1> QED BY <1>1, <1>2, CloseStep, ElsewhereStep, LaterStep DEF Next

LEMMA InvHolds == Spec => []SInv
BY InvInit, InvNext, PTL DEF Spec

\* Every variable stays in its type.
THEOREM SubmissionTypes == Spec => []TypeOK
BY InvHolds, PTL DEF SInv

\* Neither cap of rate.limits is ever exceeded, however many copies of however
\* many submissions one requester has under way (checkSubmitRateLimit).
THEOREM CapsNeverExceeded == Spec => []CapsHeld
BY InvHolds, PTL DEF SInv

\* Once there is an index, nothing that still counts is missing from it
\* (materialize, and the prunes and pointers that ride along in the batch).
THEOREM NothingUncounted == Spec => []IndexComplete
BY InvHolds, PTL DEF SInv

-----------------------------------------------------------------------------
(* One request per key.  A request within retention is named by its key's  *)
(* marker, unless a copy that had found the marker expired deleted the one *)
(* there was by then; a batch that was prepared without it is refused.     *)

\* An id of key k, of a request or of a marker that dangles, is past retention.
Expired(k) ==
    \E u \in Submit : KeyOf(u) = k /\ age[u] = 2 /\ (Exists(u) \/ u \in mix.dangling)

\* An id whose request is gone is never made again.
Dangles == \A d \in mix.dangling : request[d] = "none" /\ copy[d].pc = "done"

MarkersName ==
    \A k \in Key : marker[k] \in Submit =>
        KeyOf(marker[k]) = k /\ (Exists(marker[k]) \/ marker[k] \in mix.dangling)
DroppedExpired == \A k \in dropped : Expired(k)
KeyKept(s) ==
    /\ copy[s].marker \in Submit => copy[s].marker \in mix.dangling
    /\ At(s, "forget") => KeyOf(s) \in Key /\ Expired(KeyOf(s))
    /\ Exists(s) /\ KeyOf(s) # None /\ age[s] # 2 /\ KeyOf(s) \notin dropped => marker[KeyOf(s)] = s
KInv == SInv /\ Dangles /\ MarkersName /\ DroppedExpired /\ \A s \in Submit : KeyKept(s)

LEMMA Keyed ==
    ASSUME SInv, NEW s \in Submit
    PROVE  /\ KeyOf(s) \in Key \cup {None}
           /\ KeyOf(s) # None => KeyOf(s) \in Key /\ MarkerOf(s) = marker[KeyOf(s)]
           /\ MarkerOf(s) \in Submit => KeyOf(s) # None
           /\ None \notin Key /\ None \notin Submit
           /\ mix.dangling \subseteq Submit
BY SubmissionConstants DEF SInv, TypeOK, Mix, KeyOf, MarkerOf

\* Copies move, requests close, time passes: no marker changes.
LEMMA MarkersStay ==
    ASSUME KInv, SInv', UNCHANGED <<mix, marker, dropped>>,
           \A r \in Submit : /\ request'[r] = "none" <=> request[r] = "none"
                             /\ age[r] = 2 => age'[r] = 2,
           \A s \in Submit : /\ copy'[s].marker \in Submit => copy'[s].marker \in mix.dangling
                             /\ copy[s].pc = "done" => copy'[s].pc = "done"
                             /\ copy'[s].pc = "forget" => \/ copy[s].pc = "forget"
                                                          \/ KeyOf(s) \in Key /\ Expired(KeyOf(s))
    PROVE  KInv'
<1>1. \A k : Expired(k) => Expired(k)' BY DEF Expired, KeyOf, Exists
<1>2. MarkersName' /\ DroppedExpired'
  BY <1>1 DEF KInv, MarkersName, DroppedExpired, KeyOf, Exists
<1>3. Dangles'
  <2>1. mix \in Mix BY SubmissionConstants DEF KInv, SInv, TypeOK
  <2> QED BY <2>1 DEF KInv, Dangles, Mix
<1>4. ASSUME NEW s \in Submit PROVE KeyKept(s)'
  BY <1>1 DEF KInv, KeyKept, At, KeyOf, Exists
<1> QED BY <1>2, <1>3, <1>4 DEF KInv

\* A copy that starts anew, and one that goes on.
LEMMA CopyKept ==
    ASSUME KInv, SInv', NEW s \in Submit, NEW c, Goto(s, c), OnlyCopies, copy[s].pc # "done",
           c.marker \in Submit => c.marker \in mix.dangling,
           c.pc = "forget" => KeyOf(s) \in Key /\ Expired(KeyOf(s))
    PROVE  KInv'
<1>1. copy \in [Submit -> Copy] BY DEF KInv, SInv, TypeOK
<1>2. copy'[s] = c /\ \A t \in Submit \ {s} : copy'[t] = copy[t] BY <1>1, CopyMoves
<1>3. \A t \in Submit : /\ copy'[t].marker \in Submit => copy'[t].marker \in mix.dangling
                        /\ copy[t].pc = "done" => copy'[t].pc = "done"
                        /\ copy'[t].pc = "forget" => \/ copy[t].pc = "forget"
                                                     \/ KeyOf(t) \in Key /\ Expired(KeyOf(t))
  BY <1>2 DEF KInv, KeyKept
<1> QED BY <1>3, MarkersStay DEF OnlyCopies

LEMMA FreshMarker ==
    \A pc : Fresh(pc).marker = None /\ Fresh(pc).pc = pc /\ Fresh(pc).marker \notin Submit
BY SubmissionConstants DEF Fresh

LEMMA ArriveKept == ASSUME KInv, SInv', NEW s \in Submit, Arrive(s) PROVE KInv'
<1>1. PICK pc \in {"forget", "done", "attempt"} :
         /\ Goto(s, Fresh(pc))
         /\ pc = "forget" => MarkerOf(s) \in Submit /\ age[MarkerOf(s)] = 2
  BY DEF Arrive
<1>2. pc = "forget" => KeyOf(s) \in Key /\ Expired(KeyOf(s))
  BY <1>1, Keyed DEF KInv, MarkersName, Expired
<1> QED BY <1>1, <1>2, FreshMarker, CopyKept DEF Arrive, At

\* The marker a copy reads, and will repair, is none or dangles.
LEMMA AttemptKept == ASSUME KInv, SInv', NEW s \in Submit, Attempt(s) PROVE KInv'
<1>0. copy[s].pc # "done" BY DEF Attempt, At
<1>1. CASE Exists(MarkerOf(s))
  <2>1. Goto(s, Fresh("done")) BY <1>1 DEF Attempt
  <2> QED BY <1>0, <2>1, FreshMarker, CopyKept DEF Attempt
<1>2. CASE ~Exists(MarkerOf(s))
  <2>1. MarkerOf(s) \in Submit => MarkerOf(s) \in mix.dangling BY <1>2, Keyed DEF KInv, MarkersName
  <2>2. PICK c : c = [copy[s] EXCEPT !.pc = "gate", !.marker = MarkerOf(s)] OBVIOUS
  <2>3. Goto(s, c) BY <1>2, <2>2 DEF Attempt
  <2>4. copy[s] \in Copy BY DEF KInv, SInv, TypeOK
  <2>5. c.pc = "gate" /\ c.marker = MarkerOf(s) BY <2>2, <2>4 DEF Copy
  <2> QED BY <1>0, <2>1, <2>3, <2>5, CopyKept DEF Attempt
<1> QED BY <1>1, <1>2

\* A copy that goes on with the marker it has read, or ends, or tries again.
LEMMA GoesOn ==
    ASSUME KInv, SInv', NEW s \in Submit, NEW c, Goto(s, c), OnlyCopies, copy[s].pc # "done",
           c.pc # "forget", c.marker \in {copy[s].marker, None}
    PROVE  KInv'
<1>1. c.marker \in Submit => c.marker \in mix.dangling BY Keyed DEF KInv, KeyKept
<1> QED BY <1>1, CopyKept

LEMMA DecideKept ==
    ASSUME KInv, SInv', NEW s \in Submit, NEW seen, NEW backfill, Decide(s, seen, backfill, Recent), OnlyCopies,
           copy[s].pc # "done"
    PROVE  KInv'
<1>1. copy[s] \in Copy BY DEF KInv, SInv, TypeOK
<1>2. CASE Goto(s, Fresh("done")) BY <1>2, FreshMarker, GoesOn
<1>3. CASE Goto(s, [copy[s] EXCEPT !.pc = "head", !.seen = seen, !.backfill = backfill,
                                   !.prune = seen \ (Recent \cup Open)])
  <2>1. PICK c : c = [copy[s] EXCEPT !.pc = "head", !.seen = seen, !.backfill = backfill,
                                     !.prune = seen \ (Recent \cup Open)] OBVIOUS
  <2>2. c.pc = "head" /\ c.marker = copy[s].marker BY <1>1, <2>1 DEF Copy
  <2> QED BY <1>3, <2>1, <2>2, GoesOn
<1> QED BY <1>2, <1>3 DEF Decide

LEMMA ReadKept ==
    ASSUME KInv, SInv', NEW s \in Submit, ReadGate(s) \/ ReadPointers(s) \/ ReadHead(s)
    PROVE  KInv'
<1>1. copy[s] \in Copy BY DEF KInv, SInv, TypeOK
<1>2. CASE ReadGate(s)
  <2>1. PICK c : c = [copy[s] EXCEPT !.pc = "index", !.gate = gate] OBVIOUS
  <2>2. c.pc = "index" /\ c.marker = copy[s].marker BY <1>1, <2>1 DEF Copy
  <2> QED BY <1>2, <2>1, <2>2, GoesOn DEF ReadGate, At
<1>3. CASE ReadPointers(s)
  <2>1. PICK c : c = [copy[s] EXCEPT !.pc = "count", !.seen = pointers] OBVIOUS
  <2>2. c.pc = "count" /\ c.marker = copy[s].marker BY <1>1, <2>1 DEF Copy
  <2> QED BY <1>3, <2>1, <2>2, GoesOn DEF ReadPointers, At
<1>4. CASE ReadHead(s)
  <2>1. PICK c : c = [copy[s] EXCEPT !.pc = "commit", !.head = head] OBVIOUS
  <2>2. c.pc = "commit" /\ c.marker = copy[s].marker BY <1>1, <2>1 DEF Copy
  <2> QED BY <1>4, <2>1, <2>2, GoesOn DEF ReadHead, At
<1> QED BY <1>2, <1>3, <1>4

LEMMA LoseKept == ASSUME KInv, SInv', NEW s \in Submit, Lose(s) PROVE KInv'
<1>1. PICK c : /\ Goto(s, c)
               /\ \/ c = Fresh("done")
                  \/ c = [Fresh("attempt") EXCEPT !.attempt = copy[s].attempt + 1]
  BY DEF Lose
<1>2. c.pc # "forget" /\ c.marker = None BY <1>1 DEF Fresh
<1> QED BY <1>1, <1>2, GoesOn DEF Lose, At

\* What is deleted is a marker past retention, or one that is noted as dropped;
\* its key has an id past retention either way.
LEMMA ForgetKept == ASSUME KInv, SInv', NEW s \in Submit, Forget(s) PROVE KInv'
<1>1. KeyOf(s) \in Key /\ Expired(KeyOf(s)) BY DEF Forget, KInv, KeyKept
<1>2. marker \in [Key -> Marker] /\ copy \in [Submit -> Copy] /\ None \notin Submit /\ None \notin Key
  BY Keyed DEF KInv, SInv, TypeOK
<1>3. marker'[KeyOf(s)] = None /\ \A k \in Key \ {KeyOf(s)} : marker'[k] = marker[k]
  BY <1>1, <1>2 DEF Forget
<1>4. /\ \A k : Expired(k)' <=> Expired(k)
      /\ \A r : KeyOf(r)' = KeyOf(r) /\ (Exists(r)' <=> Exists(r))
      /\ mix' = mix /\ age' = age /\ request' = request
  BY DEF Forget, Expired, Exists, KeyOf
<1>5. copy'[s] = Fresh("attempt") /\ \A t \in Submit \ {s} : copy'[t] = copy[t]
  BY <1>2, CopyMoves DEF Forget
<1>6. MarkersName' BY <1>2, <1>3, <1>4 DEF KInv, MarkersName
<1>7. dropped \subseteq dropped' /\ dropped' \subseteq dropped \cup {KeyOf(s)} BY DEF Forget
<1>8. DroppedExpired' BY <1>1, <1>4, <1>7 DEF KInv, DroppedExpired
<1>9. Dangles'
  <2>1. mix.dangling \subseteq Submit /\ s \notin mix.dangling BY Keyed DEF KInv, Dangles, Forget, At
  <2> QED BY <1>4, <1>5, <2>1 DEF KInv, Dangles
<1>10. ASSUME NEW t \in Submit PROVE KeyKept(t)'
  <2>1. /\ copy'[t].marker \in Submit => copy'[t].marker \in mix.dangling
        /\ copy'[t].pc = "forget" => copy[t].pc = "forget"
    BY <1>5, FreshMarker DEF KInv, KeyKept
  <2>2. ASSUME Exists(t), KeyOf(t) # None, age[t] # 2, KeyOf(t) \notin dropped' PROVE marker'[KeyOf(t)] = t
    <3>1. KeyOf(t) \notin dropped BY <1>7, <2>2
    <3>2. marker[KeyOf(t)] = t /\ KeyOf(t) \in Key BY <2>2, <3>1, Keyed DEF KInv, KeyKept
    <3>3. CASE KeyOf(t) = KeyOf(s)
      <4>1. MarkerOf(s) = t BY <1>1, <1>2, <3>2, <3>3 DEF MarkerOf
      <4>2. age[t] < 2 BY <2>2 DEF KInv, SInv, TypeOK, Age
      <4>3. KeyOf(s) \in dropped' BY <4>1, <4>2 DEF Forget
      <4> QED BY <2>2, <3>3, <4>3
    <3>4. CASE KeyOf(t) # KeyOf(s) BY <1>3, <3>2, <3>4
    <3> QED BY <3>3, <3>4
  <2>3. At(t, "forget")' => KeyOf(t) \in Key /\ Expired(KeyOf(t)) BY <2>1 DEF KInv, KeyKept, At
  <2> QED BY <1>4, <2>1, <2>2, <2>3 DEF KeyKept
<1> QED BY <1>6, <1>8, <1>9, <1>10 DEF KInv

\* A request is written only if its key's marker names no request: there is
\* none, or it dangles.
LEMMA CommitKept == ASSUME KInv, SInv', NEW s \in Submit, Commit(s) PROVE KInv'
<1>1. /\ marker \in [Key -> Marker] /\ copy \in [Submit -> Copy]
      /\ request \in [Submit -> {"none", "open", "closed"}]
  BY DEF KInv, SInv, TypeOK
<1>2. /\ request'[s] = "open" /\ \A r \in Submit \ {s} : request'[r] = request[r]
  BY <1>1 DEF Commit
<1>3. MarkerOf(s) \in Submit => ~Exists(MarkerOf(s))
  BY DEF Commit, Holds, MarkerHolds, KInv, KeyKept, Dangles, Exists
<1>4. /\ KeyOf(s) # None => marker'[KeyOf(s)] = s
      /\ \A k \in Key \ {KeyOf(s)} : marker'[k] = marker[k]
  BY <1>1, Keyed DEF Commit, KInv
<1>5. /\ Exists(s)' /\ mix' = mix /\ age' = age /\ dropped' = dropped
      /\ \A r \in Submit : /\ Exists(r) => Exists(r)'
                           /\ r # s => (Exists(r)' <=> Exists(r))
                           /\ KeyOf(r)' = KeyOf(r)
  BY <1>2 DEF Exists, Commit, KeyOf
<1>6. \A k : Expired(k) => Expired(k)' BY <1>5 DEF Expired
<1>7. copy'[s] = Fresh("done") /\ \A t \in Submit \ {s} : copy'[t] = copy[t]
  BY <1>1, CopyMoves DEF Commit
<1>8. MarkersName'
  <2> SUFFICES ASSUME NEW k \in Key, marker'[k] \in Submit
               PROVE  KeyOf(marker[k])' = k /\ (Exists(marker[k])' \/ marker'[k] \in mix.dangling)
    BY <1>5 DEF MarkersName
  <2>1. CASE k = KeyOf(s)
    <3>1. marker'[k] = s BY <1>4, <2>1, Keyed DEF KInv
    <3> QED BY <1>2, <1>5, <2>1, <3>1 DEF Exists, KeyOf
  <2>2. CASE k # KeyOf(s)
    <3>1. marker'[k] = marker[k] BY <1>4, <2>2
    <3>2. KeyOf(marker[k]) = k /\ (Exists(marker[k]) \/ marker[k] \in mix.dangling)
      BY <3>1 DEF KInv, MarkersName
    <3>3. PICK r \in Submit : r = marker[k] BY <3>1
    <3> QED BY <1>2, <1>5, <3>1, <3>2, <3>3 DEF Exists, KeyOf
  <2> QED BY <2>1, <2>2
<1>9. Dangles'
  <2>1. mix.dangling \subseteq Submit /\ s \notin mix.dangling BY Keyed DEF KInv, Dangles, Commit, At
  <2> QED BY <1>2, <1>5, <1>7, <2>1 DEF KInv, Dangles
<1>10. DroppedExpired' BY <1>5, <1>6 DEF KInv, DroppedExpired
<1>11. ASSUME NEW t \in Submit PROVE KeyKept(t)'
  <2>1. /\ copy'[t].marker \in Submit => copy'[t].marker \in mix.dangling
        /\ copy'[t].pc = "forget" => copy[t].pc = "forget"
    BY <1>7, FreshMarker DEF KInv, KeyKept
  <2>2. ASSUME Exists(t)', KeyOf(t) # None, age[t] # 2, KeyOf(t) \notin dropped PROVE marker'[KeyOf(t)] = t
    <3>1. CASE t = s BY <1>4, <2>2, <3>1
    <3>2. CASE t # s
      <4>1. Exists(t) BY <1>5, <2>2, <3>2
      <4>2. marker[KeyOf(t)] = t BY <2>2, <4>1 DEF KInv, KeyKept
      <4>3. KeyOf(t) # KeyOf(s) BY <1>3, <2>2, <4>1, <4>2, Keyed DEF KInv
      <4> QED BY <1>4, <2>2, <4>2, <4>3, Keyed DEF KInv
    <3> QED BY <3>1, <3>2
  <2>3. At(t, "forget")' => KeyOf(t) \in Key /\ Expired(KeyOf(t)) BY <2>1 DEF KInv, KeyKept, At
  <2> QED BY <1>5, <1>6, <2>1, <2>2, <2>3 DEF KeyKept
<1> QED BY <1>8, <1>9, <1>10, <1>11 DEF KInv

LEMMA InitKept == Init => KInv
<1> SUFFICES ASSUME Init PROVE KInv OBVIOUS
<1>1. SInv BY InvInit
<1>2. mix \in Mixes /\ mix \in Mix BY SubmissionConstants DEF Init
<1>3. \A s \in Submit : Exists(s) => KeyOf(s) = None BY <1>2, SubmissionConstants DEF Init, Exists, KeyOf
<1>4. \A s \in Submit : copy[s].marker \notin Submit /\ copy[s].pc # "forget"
  BY FreshMarker DEF Init
<1>5. Dangles
  <2> SUFFICES ASSUME NEW d \in mix.dangling PROVE request[d] = "none" /\ copy[d].pc = "done" BY DEF Dangles
  <2>1. d \in Submit /\ d \notin mix.standing BY <1>2, SubmissionConstants DEF Mix
  <2> QED BY <2>1, FreshMarker DEF Init
<1>6. MarkersName BY <1>2, SubmissionConstants DEF Init, MarkersName, KeyOf
<1>7. DroppedExpired BY DEF Init, DroppedExpired
<1> QED BY <1>1, <1>3, <1>4, <1>5, <1>6, <1>7 DEF KInv, KeyKept, At

LEMMA NextKept == KInv /\ [Next]_vars => KInv'
<1> SUFFICES ASSUME KInv, [Next]_vars PROVE KInv' OBVIOUS
<1>1. SInv /\ SInv' BY InvNext DEF KInv
<1>2. ASSUME NEW s \in Submit, Handler(s) PROVE KInv'
  <2>1. CASE Materialize(s) BY <1>1, <2>1, DecideKept DEF Materialize, At
  <2>2. CASE Count(s) BY <1>1, <2>2, DecideKept DEF Count, At
  <2> QED BY <1>1, <1>2, <2>1, <2>2, ArriveKept, ForgetKept, AttemptKept, ReadKept, CommitKept, LoseKept
          DEF Handler
<1>3. \A s \in Submit : copy[s].marker \in Submit => copy[s].marker \in mix.dangling BY DEF KInv, KeyKept
<1>4. ASSUME NEW r \in Submit, Close(r) PROVE KInv'
  <2>1. \A t \in Submit : (request'[t] = "none" <=> request[t] = "none") /\ age'[t] = age[t]
    BY <1>1, <1>4 DEF SInv, TypeOK, Close
  <2> QED BY <1>1, <1>3, <1>4, <2>1, MarkersStay DEF Close
<1>5. CASE Elsewhere BY <1>1, <1>3, <1>5, MarkersStay DEF Elsewhere
<1>6. CASE Later
  <2>1. \A t \in Submit : age[t] = 2 => age'[t] = 2 BY <1>6 DEF Later
  <2> QED BY <1>1, <1>3, <1>6, <2>1, MarkersStay DEF Later
<1>7. CASE UNCHANGED vars BY <1>1, <1>3, <1>7, MarkersStay DEF vars
<1> QED BY <1>2, <1>4, <1>5, <1>6, <1>7 DEF Next

\* A key has made two requests only if an id of it, of one of its requests or
\* of the marker that dangled there at first, is past retention: for any number
\* of copies (requests.ts, the marker's condition in the submit's batch).
THEOREM OnceUntilExpiry == Spec => [](\A s, t \in Submit : Two(s, t) => Expired(KeyOf(s)))
<1>1. KInv => \A s, t \in Submit : Two(s, t) => Expired(KeyOf(s))
  BY DEF KInv, KeyKept, DroppedExpired, Expired, Two
<1> QED BY <1>1, InitKept, NextKept, PTL DEF Spec

\* Two requests of a key that are both within retention mean that a copy which
\* had found the marker expired deleted one that was not: nothing but the
\* unguarded delete of readLiveIdempotencyMarker (retention.ts) lets it happen.
THEOREM OncePerKeyHolds == Spec => []OncePerKey
<1>1. KInv => OncePerKey BY DEF KInv, KeyKept, OncePerKey, Two
<1> QED BY <1>1, InitKept, NextKept, PTL DEF Spec
=============================================================================
