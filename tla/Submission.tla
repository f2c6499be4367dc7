------------------------------ MODULE Submission ------------------------------
(***************************************************************************)
(* One requester submitting change requests to one project: the client's   *)
(* retries carry the idempotency key of the first copy, and the requester  *)
(* may hold so many open requests and submit so many in an hour.  Neither  *)
(* is decided by a lock: a marker names the request a key made, an index   *)
(* of pointers is counted, a gate row is bumped, and the batch that writes *)
(* the request is conditioned on all of them.  (routes/requests.ts POST /, *)
(* middleware/rateLimit.ts, domain/retention.ts; the two drift submissions *)
(* of routes/drift.ts are submissions without a key.)  The gates on what   *)
(* is asked are left out: a submission they refuse is one never made.      *)
(***************************************************************************)
EXTENDS Naturals, FiniteSets

CONSTANTS
    Submit,       \* copies of a submit that arrive; each mints the id of its request
    Key,          \* idempotency keys
    None,         \* no key, or no marker
    Mixes,        \* [key, standing, dangling]: the key each copy carries (or None);
                  \* requests older than the index and made without a key; ids
                  \* whose request is gone and whose key's marker still names them
    MaxOpen,      \* rate.limits.maxOpen
    PerHour,      \* rate.limits.submissionsPerHour
    MaxAttempt,   \* CHAIN_WRITE_ATTEMPTS
    MaxHead       \* bound: entries of the project's audit chain

Mix == [key : [Submit -> Key \cup {None}], standing : SUBSET Submit, dangling : SUBSET Submit]

ASSUME SubmissionConstants ==
    /\ IsFiniteSet(Submit)
    /\ None \notin Key /\ None \notin Submit
    /\ Mixes \subseteq Mix
    /\ \A m \in Mixes : /\ Cardinality(m.standing) <= MaxOpen
                        /\ \A s \in m.standing : m.key[s] = None
                        /\ \A s \in m.dangling : m.key[s] # None
    /\ {MaxOpen, PerHour, MaxAttempt, MaxHead} \subseteq Nat

Marker == Submit \cup {None}
Age == 0..2   \* within the hour; later; past the retention of a marker

VARIABLES
    mix,       \* who submits what, and what was there before
    request,   \* request[s]: the request copy s made
    age,       \* age[s]: from when the id was minted
    marker,    \* marker[k]: the request key k made
    dropped,   \* history: keys of which a marker that was still retained was deleted
    indexed,   \* the index has been built from the requests there were
    pointers,  \* the index
    gate,      \* the gate's seq; 0 when there is none
    head,      \* of the audit chain
    copy       \* copy[s]: the handler of a copy

vars == <<mix, request, age, marker, dropped, indexed, pointers, gate, head, copy>>

Copy == [pc : {"arrives", "forget", "attempt", "gate", "index", "count", "head", "commit", "done"},
         attempt : 0..MaxAttempt, marker : Marker, gate : Nat, head : Nat,
         seen : SUBSET Submit,    \* candidates counted
         backfill : BOOLEAN,      \* the admission builds the index
         prune : SUBSET Submit]   \* pointers it drops
Fresh(pc) == [pc |-> pc, attempt |-> 0, marker |-> None, gate |-> 0, head |-> 0, seen |-> {},
              backfill |-> FALSE, prune |-> {}]

Init ==
    /\ mix \in Mixes
    /\ request = [s \in Submit |-> IF s \in mix.standing THEN "open" ELSE "none"]
    /\ age = [s \in Submit |-> IF s \in mix.standing \cup mix.dangling THEN 1 ELSE 0]
    /\ \E m \in [Key -> mix.dangling \cup {None}] :
          /\ \A k \in Key : m[k] # None => mix.key[m[k]] = k
          /\ \A s \in mix.dangling : m[mix.key[s]] # None
          /\ marker = m
    /\ dropped = {}
    /\ indexed = FALSE /\ pointers = {} /\ gate = 0 /\ head = 0
    /\ copy = [s \in Submit |-> Fresh(IF s \in mix.standing \cup mix.dangling THEN "done" ELSE "arrives")]

-----------------------------------------------------------------------------
Goto(s, c) == copy' = [copy EXCEPT ![s] = c]
At(s, pc) == copy[s].pc = pc
KeyOf(s) == mix.key[s]
MarkerOf(s) == IF KeyOf(s) = None THEN None ELSE marker[KeyOf(s)]
Exists(r) == r \in Submit /\ request[r] # "none"
Open == {r \in Submit : request[r] = "open"}
Recent == {r \in Submit : request[r] # "none" /\ age[r] = 0}
OnlyCopies == UNCHANGED <<mix, request, age, marker, dropped, indexed, pointers, gate, head>>

\* The common retry: the marker names the request, and it is the answer.
\* Past its retention, which its id tells, a marker is forgotten, whether or not
\* the request is there.
Arrive(s) ==
    /\ At(s, "arrives")
    /\ LET m == MarkerOf(s) IN
          Goto(s, Fresh(IF m \in Submit /\ age[m] = 2 THEN "forget"
                        ELSE IF Exists(m) THEN "done" ELSE "attempt"))
    /\ OnlyCopies

\* readLiveIdempotencyMarker deletes whatever marker is there by now.
Forget(s) ==
    /\ At(s, "forget")
    /\ marker' = [marker EXCEPT ![KeyOf(s)] = None]
    /\ dropped' = IF MarkerOf(s) \in Submit /\ age[MarkerOf(s)] < 2 THEN dropped \cup {KeyOf(s)} ELSE dropped
    /\ Goto(s, Fresh("attempt"))
    /\ UNCHANGED <<mix, request, age, indexed, pointers, gate, head>>

\* Every attempt reads the marker afresh: none, one to repair, or the answer.
Attempt(s) ==
    /\ At(s, "attempt")
    /\ LET m == MarkerOf(s) IN
          Goto(s, IF Exists(m) THEN Fresh("done") ELSE [copy[s] EXCEPT !.pc = "gate", !.marker = m])
    /\ OnlyCopies

-----------------------------------------------------------------------------
(* checkSubmitRateLimit: the gate first, then what is counted.             *)

ReadGate(s) ==
    /\ At(s, "gate")
    /\ Goto(s, [copy[s] EXCEPT !.pc = "index", !.gate = gate])
    /\ OnlyCopies

\* Variant: the index takes over what is open and forgets the last hour.
DecideOnOpen(s, seen, backfill, now) ==
    Goto(s, IF Cardinality(seen \cap Open) >= MaxOpen THEN Fresh("done")
            ELSE [copy[s] EXCEPT !.pc = "head", !.seen = seen \cap Open, !.backfill = backfill, !.prune = seen \ Open])

\* RATE_LIMITED, or admitted; a closed request past its hour never counts again.
Decide(s, seen, backfill, now) ==
    Goto(s, IF Cardinality(seen \cap now) >= PerHour \/ Cardinality(seen \cap Open) >= MaxOpen
            THEN Fresh("done")
            ELSE [copy[s] EXCEPT !.pc = "head", !.seen = seen, !.backfill = backfill,
                                 !.prune = seen \ (now \cup Open)])

\* The first time, the requests themselves are read.
Materialize(s) ==
    /\ At(s, "index") /\ ~indexed
    /\ Decide(s, Open \cup Recent, TRUE, Recent)
    /\ OnlyCopies

ReadPointers(s) ==
    /\ At(s, "index") /\ indexed
    /\ Goto(s, [copy[s] EXCEPT !.pc = "count", !.seen = pointers])
    /\ OnlyCopies

Count(s) ==
    /\ At(s, "count")
    /\ Decide(s, copy[s].seen, FALSE, Recent)
    /\ OnlyCopies

ReadHead(s) ==
    /\ At(s, "head")
    /\ Goto(s, [copy[s] EXCEPT !.pc = "commit", !.head = head])
    /\ OnlyCopies

-----------------------------------------------------------------------------
(* The batch: the request, its marker, its pointer, the gate, the chain.   *)

MarkerHolds(s) == MarkerOf(s) = copy[s].marker
\* Variant: the admission rides along unguarded; the chain still is.
HoldsUngated(s) == MarkerHolds(s) /\ head = copy[s].head
\* Variant: the marker is put whatever it is by now.
HoldsUnmarked(s) == gate = copy[s].gate /\ head = copy[s].head
Holds(s) == MarkerHolds(s) /\ gate = copy[s].gate /\ head = copy[s].head

Commit(s) ==
    /\ At(s, "commit") /\ Holds(s)
    /\ request' = [request EXCEPT ![s] = "open"]
    /\ marker' = IF KeyOf(s) = None THEN marker ELSE [marker EXCEPT ![KeyOf(s)] = s]
    /\ indexed' = TRUE
    /\ pointers' = ((IF copy[s].backfill THEN pointers \cup copy[s].seen ELSE pointers)
                       \ copy[s].prune) \cup {s}
    /\ gate' = gate + 1
    /\ head' = head + 1
    /\ Goto(s, Fresh("done"))
    /\ UNCHANGED <<mix, age, dropped>>

\* A condition that fails means fresh reads, from the marker on; or CHAIN_CONTENTION.
Lose(s) ==
    /\ At(s, "commit") /\ ~Holds(s)
    /\ LET tried == copy[s].attempt + 1 IN
          Goto(s, IF tried < MaxAttempt THEN [Fresh("attempt") EXCEPT !.attempt = tried]
                  ELSE Fresh("done"))
    /\ OnlyCopies

-----------------------------------------------------------------------------
(* Meanwhile.                                                              *)

\* A request ends for good (rejected, withdrawn, applied), which is audited.
Close(r) ==
    /\ request[r] = "open" /\ head < MaxHead
    /\ request' = [request EXCEPT ![r] = "closed"]
    /\ head' = head + 1
    /\ UNCHANGED <<mix, age, marker, dropped, indexed, pointers, gate, copy>>

\* Another audited write in the project.
Elsewhere ==
    /\ head < MaxHead
    /\ head' = head + 1
    /\ UNCHANGED <<mix, request, age, marker, dropped, indexed, pointers, gate, copy>>

Minted(s) == copy[s].pc \notin {"arrives", "forget"}

Later ==
    /\ \E s \in Submit : Minted(s) /\ age[s] < 2
    /\ age' = [s \in Submit |-> IF Minted(s) /\ age[s] < 2 THEN age[s] + 1 ELSE age[s]]
    /\ UNCHANGED <<mix, request, marker, dropped, indexed, pointers, gate, head, copy>>

Handler(s) ==
    \/ Arrive(s) \/ Forget(s) \/ Attempt(s) \/ ReadGate(s) \/ Materialize(s) \/ ReadPointers(s)
    \/ Count(s) \/ ReadHead(s) \/ Commit(s) \/ Lose(s)

Next == (\E s \in Submit : Handler(s) \/ Close(s)) \/ Elsewhere \/ Later

Spec == Init /\ [][Next]_vars

-----------------------------------------------------------------------------
TypeOK ==
    /\ mix \in Mixes /\ request \in [Submit -> {"none", "open", "closed"}] /\ age \in [Submit -> Age]
    /\ marker \in [Key -> Marker] /\ dropped \subseteq Key /\ indexed \in BOOLEAN /\ pointers \subseteq Submit
    /\ gate \in Nat /\ head \in Nat /\ copy \in [Submit -> Copy]

\* However many copies are under way at once, the requester never holds more
\* open requests than rate.limits allows, nor made more in the hour: every
\* count that admitted one still stood when it was written (CONC-12).
CapsHeld == Cardinality(Open) <= MaxOpen /\ Cardinality(Recent) <= PerHour

\* Every request that still counts is in the index once there is one, those
\* older than it included; what is not pointed at is never counted again.
IndexComplete == indexed => Open \cup Recent \subseteq pointers

\* A key makes one request as long as its marker is retained, however often
\* and however closely its copies arrive, and whatever marker dangled there:
\* two of them mean that one is past retention, or that a copy which had found
\* the marker expired deleted the one that was there by then.
Two(s, t) == s # t /\ Exists(s) /\ Exists(t) /\ KeyOf(s) = KeyOf(t) /\ KeyOf(s) # None
OncePerKey ==
    \A s, t \in Submit : Two(s, t) => age[s] = 2 \/ age[t] = 2 \/ KeyOf(s) \in dropped

\* What one would like: no key makes two requests that are both within
\* retention.  It does not hold: two copies that find one expired marker, of a
\* request or dangling, may each make one (the unguarded delete of retention.ts).
KeyMakesOne == \A s, t \in Submit : Two(s, t) => age[s] = 2 \/ age[t] = 2
=============================================================================
