-------------------------- MODULE Onboarding_proofs --------------------------
(***************************************************************************)
(* A project and the scans of its repository, for every set of requests,   *)
(* proposals, workers, admins and pages and every bound.                   *)
(*                                                                         *)
(* The project.  Every write of the registry row, and every                *)
(* acknowledgement, names the version it was computed from, and the        *)
(* version only grows while the row lives: a reading with the row's        *)
(* version is the row.  An upload owns its version from the moment its row *)
(* is put, so no other upload writes its files and none takes them away.   *)
(* A sweep runs only after the row is gone.                                *)
(*                                                                         *)
(* The scans.  Every write of a job names the status its handler has read. *)
(* A claim takes its job out of the queue, so no two claims under way hold *)
(* one job, and the only way back into the queue is the undoing of a claim *)
(* that still holds it, that is, one that nobody has got.                  *)
(***************************************************************************)
EXTENDS ScanJobs, Projects, TLAPS, WellFoundedInduction

-----------------------------------------------------------------------------
(* The largest of a set of numbers: the one least far from the bound.      *)

LEMMA Largest ==
    ASSUME NEW N \in Nat, NEW S \in SUBSET (0..N), S # {}
    PROVE  Max(S) \in S /\ \A y \in S : Max(S) >= y
<1> DEFINE D == {N - x : x \in S}
<1>1. S \subseteq Nat /\ \A x \in S : N - x \in Nat OBVIOUS
<1>2. D \subseteq Nat /\ D # {} BY <1>1
<1> HIDE DEF D
<1>3. \E d \in D : \A e \in D : ~(<<e, d>> \in OpToRel(<, Nat))
  BY <1>2, NatLessThanWellFounded, WFMin
<1>4. \A x, y \in Nat : y < x => <<y, x>> \in OpToRel(<, Nat) BY DEF OpToRel
<1>5. PICK d \in D : \A e \in D : ~(e < d) BY <1>2, <1>3, <1>4
<1>6. PICK x \in S : d = N - x BY <1>5 DEF D
<1>7. ASSUME NEW y \in S PROVE x >= y
  <2>1. ~(N - y < N - x) BY <1>5, <1>6 DEF D
  <2> QED BY <1>1, <2>1
<1>8. \E z \in S : \A y \in S : z >= y BY <1>7
<1> QED BY <1>8 DEF Max

-----------------------------------------------------------------------------
(* The scans: their inductive invariant.                                   *)

Engaged == {"verify", "fail", "release", "mint"}

\* A claim under way holds one job, out of the queue, that nobody has got and
\* no other claim holds.
Held ==
    \A w \in Worker :
       /\ claim[w].pc \in Engaged <=> claim[w].job # 0
       /\ claim[w].job # 0 => /\ handed[claim[w].job] = 0
                              /\ job[claim[w].job].status \notin {"none", "queued"}
                              /\ \A v \in Worker \ {w} : claim[v].job # claim[w].job

\* What is to be settled was in flight when it was seen.
Settles ==
    \A a \in Creator \cup Wizard : \A j \in asker[a].todo : asker[a].seen[j] \in InFlight

\* A worker at work has a job; a report under way was in order when it was read.
Reports ==
    \A w \in Worker :
       /\ worker[w].pc \in {"work", "send", "sent"} => worker[w].job \in Job
       /\ worker[w].pc = "sent" => worker[w].at \in ALLOWED_NEXT[worker[w].from]

\* A job that does not exist yet was given to nobody.
Fresh == \A j \in Job : job[j].status = "none" => handed[j] = 0

IInv == TypeOK /\ HandedOnce /\ Fresh /\ Held /\ Settles /\ Reports
Forward ==
    \A j \in Job :
       job'[j].status # job[j].status /\ job[j].status # "none" =>
          \/ job'[j].status \in ALLOWED_NEXT[job[j].status]
          \/ job[j].status = "claimed" /\ job'[j].status = "queued" /\ handed[j] = 0

-----------------------------------------------------------------------------
(* The first and the last of a set of jobs.                                *)

LEMMA FirstJob ==
    ASSUME NEW S \in SUBSET Job, S # {} PROVE Min(S) \in S
<1>1. S \subseteq Nat BY ScanConstants DEF Job
<1>2. \E x \in S : \A y \in S : ~(<<y, x>> \in OpToRel(<, Nat))
  BY <1>1, NatLessThanWellFounded, WFMin
<1>3. \A x, y \in Nat : y < x => <<y, x>> \in OpToRel(<, Nat) BY DEF OpToRel
<1>4. \A x, y \in Nat : x =< y \/ y < x OBVIOUS
<1>5. \E x \in S : \A y \in S : x =< y BY <1>1, <1>2, <1>3, <1>4
<1> QED BY <1>5 DEF Min

LEMMA LastJob ==
    ASSUME NEW S \in SUBSET Job, S # {} PROVE Max(S) \in S /\ \A y \in S : Max(S) >= y
<1>1. MaxJobs \in Nat /\ S \in SUBSET (0..MaxJobs) BY ScanConstants DEF Job
<1> QED BY <1>1, Largest

\* The next job's number has not been used.
LEMMA NextIsNew ==
    ASSUME TypeOK, Newest < MaxJobs PROVE Newest + 1 \in Job /\ job[Newest + 1].status = "none"
<1>0. MaxJobs \in Nat BY ScanConstants
<1>1. CASE Known = {}
  <2>1. Newest = 0 BY <1>1 DEF Newest
  <2> QED BY <1>0, <1>1, <2>1 DEF Job, Known
<1>2. CASE Known # {}
  <2>1. Known \in SUBSET Job BY DEF Known
  <2>2. Newest \in Known /\ \A y \in Known : Newest >= y BY <1>2, <2>1, LastJob DEF Newest
  <2>3. Newest \in Nat /\ Newest + 1 \in Job BY <1>0, <2>1, <2>2 DEF Job
  <2>4. Newest + 1 \notin Known BY <2>2, <2>3
  <2> QED BY <2>3, <2>4 DEF Known
<1> QED BY <1>1, <1>2

LEMMA Statuses ==
    /\ \A s \in Status : ALLOWED_NEXT[s] \subseteq {"claimed", "cloning", "scanning", "uploaded", "failed"}
    /\ \A s \in InFlight \cup {"queued"} : "failed" \in ALLOWED_NEXT[s]
    /\ "claimed" \in ALLOWED_NEXT["queued"]
    /\ NoRow \in Row /\ NoRow.status = "none" /\ NoRow.age = 0 /\ ~NoRow.waiting
    /\ {"none", "queued", "claimed", "failed"} \subseteq Status
BY ScanConstants DEF ALLOWED_NEXT, Status, InFlight, Terminal, NoRow, Row

-----------------------------------------------------------------------------
(* One row is written, or none.                                            *)

LEMMA RowWritten ==
    ASSUME IInv, NEW k \in Job, NEW row \in Row, SetRow(k, row), handed' = handed,
           row.status # "none", row.status = "queued" => row.waiting /\ handed[k] = 0
    PROVE  /\ job' \in [Job -> Row] /\ job'[k] = row /\ \A j \in Job \ {k} : job'[j] = job[j]
           /\ HandedOnce' /\ Fresh'
<1>1. job' \in [Job -> Row] /\ job'[k] = row /\ \A j \in Job \ {k} : job'[j] = job[j]
  BY DEF IInv, TypeOK, SetRow
<1>2. ASSUME NEW j \in Job PROVE handed'[j] <= 1 /\ (job'[j].status = "queued" => handed'[j] = 0 /\ job'[j].waiting)
  BY <1>1 DEF IInv, HandedOnce
<1>3. Fresh' BY <1>1 DEF IInv, Fresh
<1> QED BY <1>1, <1>2, <1>3 DEF HandedOnce

LEMMA NoRowWritten ==
    ASSUME IInv, UNCHANGED <<job, handed>> PROVE job' \in [Job -> Row] /\ HandedOnce' /\ Fresh' /\ Forward
BY DEF IInv, TypeOK, HandedOnce, Fresh, Forward

\* What keeps the claims in order: none of them moves, and no row they hold
\* goes back to the queue.
LEMMA HeldKept ==
    ASSUME IInv, UNCHANGED <<claim, handed>>,
           \A w \in Worker : claim[w].job # 0 => job'[claim[w].job].status \notin {"none", "queued"}
    PROVE  Held'
BY DEF IInv, Held

LEMMA SettlesKept == ASSUME IInv, asker' = asker PROVE Settles'
BY DEF IInv, Settles

LEMMA ReportsKept == ASSUME IInv, worker' = worker PROVE Reports'
BY DEF IInv, Reports

\* A job that is held is a job.
LEMMA HeldJobs ==
    ASSUME IInv, NEW w \in Worker, claim[w].job # 0
    PROVE  claim[w].job \in Job /\ job[claim[w].job].status \notin {"none", "queued"}
<1>1. claim[w] \in Claim BY DEF IInv, TypeOK
<1> QED BY <1>1, ScanConstants DEF Claim, Job, IInv, Held

-----------------------------------------------------------------------------
(* Every step.                                                             *)

LEMMA TickStep == ASSUME IInv, Tick PROVE IInv' /\ Forward
<1>1. PICK j \in Job : /\ job[j].status \in InFlight /\ job[j].age < Lease
                       /\ SetRow(j, [job[j] EXCEPT !.age = job[j].age + 1])
  BY DEF Tick
<1>2. job[j] \in Row BY DEF IInv, TypeOK
<1>3. PICK row : row = [job[j] EXCEPT !.age = job[j].age + 1] OBVIOUS
<1>4. row \in Row /\ row.status = job[j].status BY <1>1, <1>2, <1>3, ScanConstants DEF Row
<1>5. row.status \notin {"none", "queued"} BY <1>1, <1>4 DEF InFlight
<1>6. job' \in [Job -> Row] /\ job'[j] = row /\ (\A i \in Job \ {j} : job'[i] = job[i]) /\ HandedOnce' /\ Fresh'
  BY <1>1, <1>3, <1>4, <1>5, RowWritten DEF Tick
<1>7. \A i \in Job : job'[i].status = job[i].status BY <1>4, <1>6
<1>8. Held' BY <1>7, HeldJobs, HeldKept DEF Tick
<1>9. Forward BY <1>7 DEF Forward
<1>10. TypeOK' BY <1>6 DEF Tick, IInv, TypeOK
<1> QED BY <1>6, <1>8, <1>9, <1>10, SettlesKept, ReportsKept DEF IInv, Tick

\* A request's own state moves.
LEMMA AskerStep ==
    ASSUME IInv, NEW a \in Creator \cup Wizard, NEW r \in Asker, asker' = [asker EXCEPT ![a] = r],
           \A j \in r.todo : r.seen[j] \in InFlight
    PROVE  asker' \in [Creator \cup Wizard -> Asker] /\ Settles'
<1>1. asker' \in [Creator \cup Wizard -> Asker] /\ asker'[a] = r
      /\ \A b \in (Creator \cup Wizard) \ {a} : asker'[b] = asker[b]
  BY DEF IInv, TypeOK
<1>2. ASSUME NEW b \in Creator \cup Wizard, NEW j \in asker'[b].todo PROVE asker'[b].seen[j] \in InFlight
  BY <1>1, <1>2 DEF IInv, Settles
<1> QED BY <1>1, <1>2 DEF Settles

LEMMA AskStep == ASSUME IInv, NEW a \in Creator \cup Wizard, NEW todo \in SUBSET Job, Ask(a, todo) PROVE IInv' /\ Forward
<1>1. PICK r : r = [pc |-> "settle", seen |-> [j \in Job |-> job[j].status], todo |-> {j \in todo : Lapsed(j)}]
  OBVIOUS
<1>2. asker' = [asker EXCEPT ![a] = r] BY <1>1 DEF Ask
<1>3. \A j \in Job : job[j].status \in Status BY DEF IInv, TypeOK, Row
<1>4. r \in Asker BY <1>1, <1>3 DEF Asker
<1>5. \A j \in r.todo : r.seen[j] \in InFlight BY <1>1 DEF Lapsed
<1>6. asker' \in [Creator \cup Wizard -> Asker] /\ Settles' BY <1>2, <1>4, <1>5, AskerStep
<1>7. Held' BY HeldKept, HeldJobs DEF Ask
<1>8. TypeOK' BY <1>6 DEF Ask, IInv, TypeOK
<1> QED BY <1>6, <1>7, <1>8, NoRowWritten, ReportsKept DEF IInv, Ask

LEMMA SettleStep == ASSUME IInv, NEW a \in Creator \cup Wizard, Settle(a) PROVE IInv' /\ Forward
<1>1. PICK j : j = Min(asker[a].todo) OBVIOUS
<1>2. PICK row : row = [NoRow EXCEPT !.status = "failed", !.lapsed = TRUE] OBVIOUS
<1>3. asker[a] \in Asker BY DEF IInv, TypeOK
<1>4. j \in asker[a].todo /\ j \in Job BY <1>1, <1>3, FirstJob DEF Settle, Asker
<1>5. asker[a].seen[j] \in InFlight BY <1>4 DEF IInv, Settles
<1>6. row \in Row /\ row.status = "failed"
  <2>1. row = [status |-> "failed", waiting |-> FALSE, age |-> 0, lapsed |-> TRUE] BY <1>2 DEF NoRow
  <2> QED BY <2>1, Statuses, ScanConstants DEF Row
<1>7. \/ job[j].status = asker[a].seen[j] /\ SetRow(j, row)
      \/ UNCHANGED job
  BY <1>1, <1>2 DEF Settle, Lands
<1>8. /\ job' \in [Job -> Row] /\ HandedOnce' /\ Fresh' /\ Forward
      /\ \A i \in Job : job'[i].status \in {job[i].status, "failed"}
  <2>1. CASE job[j].status = asker[a].seen[j] /\ SetRow(j, row)
    <3>1. job' \in [Job -> Row] /\ job'[j] = row /\ (\A i \in Job \ {j} : job'[i] = job[i]) /\ HandedOnce' /\ Fresh'
      BY <1>4, <1>6, <2>1, RowWritten DEF Settle
    <3>2. "failed" \in ALLOWED_NEXT[job[j].status] BY <1>5, <2>1, Statuses
    <3> QED BY <1>6, <3>1, <3>2 DEF Forward
  <2>2. CASE UNCHANGED job BY <2>2, NoRowWritten DEF Settle
  <2> QED BY <1>7, <2>1, <2>2
<1>9. PICK r : r = [asker[a] EXCEPT !.todo = asker[a].todo \ {j}, !.seen = [asker[a].seen EXCEPT ![j] = job'[j].status]]
  OBVIOUS
<1>10. asker' = [asker EXCEPT ![a] = r] BY <1>1, <1>9 DEF Settle
<1>11. job'[j].status \in Status BY <1>4, <1>8 DEF Row
<1>12. /\ r \in Asker /\ r.todo = asker[a].todo \ {j}
       /\ \A i \in Job \ {j} : r.seen[i] = asker[a].seen[i]
  <2>1. asker[a].todo \ {j} \in SUBSET Job BY <1>3 DEF Asker
  <2>2. [asker[a].seen EXCEPT ![j] = job'[j].status] \in [Job -> Status] BY <1>3, <1>11 DEF Asker
  <2>3. \A i \in Job \ {j} : [asker[a].seen EXCEPT ![j] = job'[j].status][i] = asker[a].seen[i]
    BY <1>3 DEF Asker
  <2> QED BY <1>3, <1>9, <2>1, <2>2, <2>3 DEF Asker
<1>13. \A i \in r.todo : r.seen[i] \in InFlight BY <1>3, <1>12 DEF IInv, Settles, Asker
<1>14. asker' \in [Creator \cup Wizard -> Asker] /\ Settles' BY <1>10, <1>12, <1>13, AskerStep
<1>15. Held' BY <1>8, HeldJobs, HeldKept DEF Settle
<1>16. TypeOK' BY <1>8, <1>14 DEF Settle, IInv, TypeOK
<1> QED BY <1>8, <1>14, <1>15, <1>16, ReportsKept DEF IInv, Settle

LEMMA NoAskTyped == NoAsk \in Asker /\ NoAsk.todo = {}
BY Statuses DEF NoAsk, Asker

LEMMA CreateStep == ASSUME IInv, NEW a \in Creator \cup Wizard, Create(a) PROVE IInv' /\ Forward
<1>1. PICK row : row = [NoRow EXCEPT !.status = "queued", !.waiting = TRUE] OBVIOUS
<1>2. row \in Row /\ row.status = "queued" /\ row.waiting
  <2>1. row = [status |-> "queued", waiting |-> TRUE, age |-> 0, lapsed |-> FALSE] BY <1>1 DEF NoRow
  <2> QED BY <2>1, Statuses, ScanConstants DEF Row
<1>3. (Newest < MaxJobs /\ SetRow(Newest + 1, row)) \/ UNCHANGED job BY <1>1 DEF Create
<1>4. job' \in [Job -> Row] /\ HandedOnce' /\ Fresh' /\ Forward /\ Held'
  <2>1. CASE Newest < MaxJobs /\ SetRow(Newest + 1, row)
    <3>1. Newest + 1 \in Job /\ job[Newest + 1].status = "none" BY <2>1, NextIsNew DEF IInv
    <3>2. handed[Newest + 1] = 0 BY <3>1 DEF IInv, Fresh
    <3>3. /\ job' \in [Job -> Row] /\ job'[Newest + 1] = row
          /\ (\A i \in Job \ {Newest + 1} : job'[i] = job[i]) /\ HandedOnce' /\ Fresh'
      BY <1>2, <2>1, <3>1, <3>2, RowWritten DEF Create
    <3>4. Held' BY <3>1, <3>3, HeldJobs, HeldKept DEF Create
    <3> QED BY <3>1, <3>3, <3>4 DEF Forward
  <2>2. CASE UNCHANGED job BY <2>2, NoRowWritten, HeldJobs, HeldKept DEF Create
  <2> QED BY <1>3, <2>1, <2>2
<1>5. asker' \in [Creator \cup Wizard -> Asker] /\ Settles' BY NoAskTyped, AskerStep DEF Create
<1>6. TypeOK' BY <1>4, <1>5 DEF Create, IInv, TypeOK
<1> QED BY <1>4, <1>5, <1>6, ReportsKept DEF IInv, Create

LEMMA LatestStep == ASSUME IInv, NEW a \in Creator \cup Wizard, Latest(a) PROVE IInv' /\ Forward
<1>1. asker' \in [Creator \cup Wizard -> Asker] /\ Settles' BY NoAskTyped, AskerStep DEF Latest
<1>2. Held' BY HeldJobs, HeldKept DEF Latest
<1>3. TypeOK' BY <1>1 DEF Latest, IInv, TypeOK
<1> QED BY <1>1, <1>2, <1>3, NoRowWritten, ReportsKept DEF IInv, Latest

LEMMA CloseStep == ASSUME IInv, Close PROVE IInv' /\ Forward
<1>1. Held' BY HeldJobs, HeldKept DEF Close
<1>2. TypeOK' BY DEF Close, IInv, TypeOK
<1> QED BY <1>1, <1>2, NoRowWritten, ReportsKept, SettlesKept DEF IInv, Close
-----------------------------------------------------------------------------
(* Claims.                                                                 *)

\* A claim moves on with what it holds, or lets it go.
LEMMA ClaimMoves ==
    ASSUME IInv, NEW w \in Worker, NEW c \in Claim, claim' = [claim EXCEPT ![w] = c], handed' = handed,
           c.pc \in Engaged <=> c.job # 0, c.job \in {0, claim[w].job},
           \A v \in Worker : claim'[v].job # 0 => job'[claim'[v].job].status \notin {"none", "queued"}
    PROVE  claim' \in [Worker -> Claim] /\ Held'
<1>1. /\ claim' \in [Worker -> Claim] /\ claim'[w] = c
      /\ \A v \in Worker \ {w} : claim'[v] = claim[v]
  BY DEF IInv, TypeOK
<1>2. ASSUME NEW v \in Worker
      PROVE  /\ claim'[v].pc \in Engaged <=> claim'[v].job # 0
             /\ claim'[v].job # 0 => /\ handed'[claim'[v].job] = 0
                                     /\ \A u \in Worker \ {v} : claim'[u].job # claim'[v].job
  BY <1>1 DEF IInv, Held
<1> QED BY <1>1, <1>2 DEF Held

LEMMA WorkerMoves ==
    ASSUME IInv, NEW w \in Worker, NEW r \in WorkerState, worker' = [worker EXCEPT ![w] = r],
           r.pc \in {"work", "send", "sent"} => r.job \in Job,
           r.pc = "sent" => r.at \in ALLOWED_NEXT[r.from]
    PROVE  worker' \in [Worker -> WorkerState] /\ Reports'
<1>1. worker' \in [Worker -> WorkerState] /\ worker'[w] = r /\ \A v \in Worker \ {w} : worker'[v] = worker[v]
  BY DEF IInv, TypeOK
<1>2. ASSUME NEW v \in Worker
      PROVE  /\ worker'[v].pc \in {"work", "send", "sent"} => worker'[v].job \in Job
             /\ worker'[v].pc = "sent" => worker'[v].at \in ALLOWED_NEXT[worker'[v].from]
  BY <1>1 DEF IInv, Reports
<1> QED BY <1>1, <1>2 DEF Reports

LEMMA NothingsTyped ==
    /\ NoClaim \in Claim /\ NoClaim.job = 0 /\ NoClaim.pc \notin Engaged
    /\ NoWork \in WorkerState /\ NoWork.pc = "idle"
BY Statuses, ScanConstants DEF NoClaim, Claim, Engaged, NoWork, WorkerState

\* A request of the claim's that ends without a job.
LEMMA AnsweredEmpty ==
    ASSUME IInv, NEW w \in Worker,
           worker' = [worker EXCEPT ![w] = IF worker[w].pc = "asked" THEN NoWork ELSE worker[w]]
    PROVE  worker' \in [Worker -> WorkerState] /\ Reports'
<1>1. worker[w] \in WorkerState BY DEF IInv, TypeOK
<1>2. PICK r : r = IF worker[w].pc = "asked" THEN NoWork ELSE worker[w] OBVIOUS
<1> QED BY <1>1, <1>2, NothingsTyped, WorkerMoves DEF IInv, Reports

LEMMA ClaimQueryStep == ASSUME IInv, NEW w \in Worker, ClaimQuery(w) PROVE IInv' /\ Forward
<1>1. PICK c : c = [pc |-> "walk", rows |-> {j \in Job : job[j].waiting}, job |-> 0] OBVIOUS
<1>2. c \in Claim /\ c.job = 0 /\ c.pc \notin Engaged BY <1>1, ScanConstants DEF Claim, Engaged
<1>3. claim' = [claim EXCEPT ![w] = c] BY <1>1 DEF ClaimQuery
<1>4. \A v \in Worker : claim'[v].job # 0 => claim[v].job = claim'[v].job
  BY <1>2, <1>3 DEF IInv, TypeOK
<1>5. claim' \in [Worker -> Claim] /\ Held' BY <1>2, <1>3, <1>4, HeldJobs, ClaimMoves DEF ClaimQuery
<1>6. PICK r : r = [worker[w] EXCEPT !.pc = "asked"] OBVIOUS
<1>7. worker[w] \in WorkerState BY DEF IInv, TypeOK
<1>8. r \in WorkerState /\ r.pc = "asked" BY <1>6, <1>7 DEF WorkerState
<1>9. worker' = [worker EXCEPT ![w] = r] BY <1>6 DEF ClaimQuery
<1>10. worker' \in [Worker -> WorkerState] /\ Reports' BY <1>8, <1>9, WorkerMoves
<1>11. TypeOK' BY <1>5, <1>10 DEF ClaimQuery, IInv, TypeOK
<1> QED BY <1>5, <1>10, <1>11, NoRowWritten, SettlesKept DEF IInv, ClaimQuery

\* A claim that moves while no row does.
LEMMA ClaimOnly ==
    ASSUME IInv, NEW w \in Worker, NEW c \in Claim, claim' = [claim EXCEPT ![w] = c],
           c.pc \in Engaged <=> c.job # 0, c.job \in {0, claim[w].job},
           UNCHANGED <<cast, job, open, artifact, asker, handed, restarts>>,
           worker' \in [Worker -> WorkerState], Reports'
    PROVE  IInv' /\ Forward
<1>1. \A v \in Worker : claim'[v].job # 0 => claim[v].job = claim'[v].job
  BY DEF IInv, TypeOK
<1>2. claim' \in [Worker -> Claim] /\ Held' BY <1>1, HeldJobs, ClaimMoves
<1>3. TypeOK' BY <1>2 DEF IInv, TypeOK
<1> QED BY <1>2, <1>3, NoRowWritten, SettlesKept DEF IInv

LEMMA WorkerSame == ASSUME IInv, worker' = worker PROVE worker' \in [Worker -> WorkerState] /\ Reports'
BY DEF IInv, TypeOK, Reports

LEMMA PassStep ==
    ASSUME IInv, NEW w \in Worker, Pass(w), UNCHANGED <<cast, job, open, artifact, asker, worker, handed, restarts>>
    PROVE  IInv' /\ Forward
<1>1. PICK c : c = [pc |-> "walk", rows |-> claim[w].rows \ {Min(claim[w].rows)}, job |-> 0] OBVIOUS
<1>2. claim[w].rows \in SUBSET Job BY DEF IInv, TypeOK, Claim
<1>3. claim[w].rows \ {Min(claim[w].rows)} \in SUBSET Job BY <1>2
<1>4. c \in Claim /\ c.job = 0 /\ c.pc \notin Engaged BY <1>1, <1>3, ScanConstants DEF Claim, Engaged
<1>5. claim' = [claim EXCEPT ![w] = c] BY <1>1 DEF Pass
<1> QED BY <1>4, <1>5, ClaimOnly, WorkerSame

LEMMA ClaimTakeStep == ASSUME IInv, NEW w \in Worker, ClaimTake(w) PROVE IInv' /\ Forward
<1>1. PICK j : j = Min(claim[w].rows) OBVIOUS
<1>2. claim[w] \in Claim /\ claim[w].rows # {} /\ claim[w].pc = "walk" BY DEF ClaimTake, IInv, TypeOK
<1>3. j \in Job BY <1>1, <1>2, FirstJob DEF Claim
<1>4. CASE Lands(j, "queued")
  <2>1. PICK row : row = [NoRow EXCEPT !.status = "claimed"] OBVIOUS
  <2>2. row \in Row /\ row.status = "claimed"
    <3>1. row = [status |-> "claimed", waiting |-> FALSE, age |-> 0, lapsed |-> FALSE] BY <2>1 DEF NoRow
    <3> QED BY <3>1, Statuses, ScanConstants DEF Row
  <2>3. PICK c : c = [claim[w] EXCEPT !.pc = "verify", !.job = j, !.rows = claim[w].rows \ {j}] OBVIOUS
  <2>4. c \in Claim /\ c.pc = "verify" /\ c.job = j
    <3>1. claim[w].rows \ {j} \in SUBSET Job BY <1>2 DEF Claim
    <3>2. j \in 0..MaxJobs BY <1>3, ScanConstants DEF Job
    <3> QED BY <1>2, <2>3, <3>1, <3>2 DEF Claim
  <2>5. SetRow(j, row) /\ claim' = [claim EXCEPT ![w] = c] BY <1>1, <1>4, <2>1, <2>3 DEF ClaimTake
  <2>6. /\ job' \in [Job -> Row] /\ job'[j] = row /\ (\A i \in Job \ {j} : job'[i] = job[i])
        /\ HandedOnce' /\ Fresh'
    BY <1>3, <2>2, <2>5, RowWritten DEF ClaimTake
  <2>7. job[j].status = "queued" /\ handed[j] = 0 BY <1>3, <1>4 DEF Lands, IInv, HandedOnce
  <2>8. Forward BY <2>2, <2>6, <2>7, Statuses DEF Forward
  <2>9. /\ claim' \in [Worker -> Claim] /\ claim'[w] = c
        /\ \A v \in Worker \ {w} : claim'[v] = claim[v]
    BY <2>4, <2>5 DEF IInv, TypeOK
  <2>10. \A v \in Worker : claim[v].job # j
    BY <1>3, <2>7, HeldJobs, ScanConstants DEF Job
  <2>11. Held'
    <3> SUFFICES ASSUME NEW v \in Worker
                 PROVE  /\ claim'[v].pc \in Engaged <=> claim'[v].job # 0
                        /\ claim'[v].job # 0 =>
                              /\ handed'[claim'[v].job] = 0
                              /\ job'[claim'[v].job].status \notin {"none", "queued"}
                              /\ \A u \in Worker \ {v} : claim'[u].job # claim'[v].job
      BY DEF Held
    <3>1. CASE v = w
      <4>1. claim'[v].pc \in Engaged /\ claim'[v].job = j /\ j # 0
        BY <1>3, <2>4, <2>9, <3>1, ScanConstants DEF Engaged, Job
      <4> QED BY <2>2, <2>6, <2>7, <2>9, <2>10, <3>1, <4>1 DEF ClaimTake
    <3>2. CASE v # w
      <4>1. claim'[v] = claim[v] /\ claim[v].job # j BY <2>9, <2>10, <3>2
      <4>2. claim[v].pc \in Engaged <=> claim[v].job # 0 BY DEF IInv, Held
      <4>3. ASSUME claim[v].job # 0
            PROVE  /\ handed[claim[v].job] = 0 /\ job'[claim[v].job].status \notin {"none", "queued"}
                   /\ \A u \in Worker \ {v} : claim'[u].job # claim[v].job
        <5>1. claim[v].job \in Job /\ job[claim[v].job].status \notin {"none", "queued"} BY <4>3, HeldJobs
        <5>2. /\ handed[claim[v].job] = 0
              /\ \A u \in Worker \ {v} : claim[u].job # claim[v].job
          BY <4>3 DEF IInv, Held
        <5> QED BY <2>4, <2>6, <2>9, <4>1, <5>1, <5>2
      <4> QED BY <4>1, <4>2, <4>3 DEF ClaimTake
    <3> QED BY <3>1, <3>2
  <2>12. TypeOK' BY <2>6, <2>9 DEF ClaimTake, IInv, TypeOK
  <2> QED BY <2>6, <2>8, <2>11, <2>12, SettlesKept, ReportsKept DEF IInv, ClaimTake
<1>5. CASE ~Lands(j, "queued") BY <1>1, <1>5, PassStep DEF ClaimTake
<1> QED BY <1>4, <1>5

LEMMA ClaimNothingStep == ASSUME IInv, NEW w \in Worker, ClaimNothing(w) PROVE IInv' /\ Forward
<1>1. worker' \in [Worker -> WorkerState] /\ Reports' BY AnsweredEmpty DEF ClaimNothing
<1> QED BY <1>1, NothingsTyped, ClaimOnly DEF ClaimNothing

LEMMA ClaimVerifyStep == ASSUME IInv, NEW w \in Worker, ClaimVerify(w) PROVE IInv' /\ Forward
<1>1. PICK next \in {"mint", "fail", "release"} : claim' = [claim EXCEPT ![w].pc = next] BY DEF ClaimVerify
<1>2. PICK c : c = [claim[w] EXCEPT !.pc = next] OBVIOUS
<1>3. claim[w] \in Claim /\ claim[w].job # 0 BY DEF IInv, TypeOK, Held, Engaged, ClaimVerify
<1>4. c \in Claim /\ c.pc = next /\ c.job = claim[w].job BY <1>2, <1>3 DEF Claim
<1>5. claim' = [claim EXCEPT ![w] = c] BY <1>1, <1>2
<1> QED BY <1>3, <1>4, <1>5, ClaimOnly, WorkerSame DEF ClaimVerify, Engaged

LEMMA UndoStep ==
    ASSUME IInv, NEW w \in Worker, NEW pc \in {"fail", "release"}, NEW row \in Row, Undo(w, pc, row),
           row.status \in {"failed", "queued"}, row.status = "queued" => row.waiting
    PROVE  IInv' /\ Forward
<1>1. claim[w] \in Claim /\ claim[w].job # 0 BY DEF IInv, TypeOK, Held, Engaged, Undo
<1>2. PICK j : j = claim[w].job OBVIOUS
<1>3. j \in Job /\ handed[j] = 0 /\ \A v \in Worker \ {w} : claim[v].job # j
  BY <1>1, <1>2, HeldJobs DEF IInv, Held
<1>4. PICK c : c = [claim[w] EXCEPT !.pc = "walk", !.job = 0] OBVIOUS
<1>5. c \in Claim /\ c.pc = "walk" /\ c.job = 0
  <2>1. c = [pc |-> "walk", rows |-> claim[w].rows, job |-> 0] BY <1>1, <1>4 DEF Claim
  <2>2. 0 \in 0..MaxJobs /\ claim[w].rows \in SUBSET Job BY <1>1, ScanConstants DEF Claim
  <2> QED BY <2>1, <2>2 DEF Claim
<1>6. claim' = [claim EXCEPT ![w] = c] BY <1>4 DEF Undo
<1>7. (job[j].status = "claimed" /\ SetRow(j, row)) \/ UNCHANGED job BY <1>2 DEF Undo, Lands
<1>8. /\ job' \in [Job -> Row] /\ HandedOnce' /\ Fresh' /\ Forward
      /\ \A i \in Job \ {j} : job'[i] = job[i]
  <2>1. CASE job[j].status = "claimed" /\ SetRow(j, row)
    <3>1. /\ job' \in [Job -> Row] /\ job'[j] = row /\ (\A i \in Job \ {j} : job'[i] = job[i])
          /\ HandedOnce' /\ Fresh'
      BY <1>3, <2>1, RowWritten DEF Undo
    <3>2. "failed" \in ALLOWED_NEXT["claimed"] BY Statuses DEF InFlight
    <3> QED BY <1>3, <2>1, <3>1, <3>2 DEF Forward
  <2>2. CASE UNCHANGED job BY <2>2, NoRowWritten DEF Undo
  <2> QED BY <1>7, <2>1, <2>2
<1>9. \A v \in Worker : claim'[v].job # 0 => v # w /\ claim'[v] = claim[v]
  BY <1>5, <1>6 DEF IInv, TypeOK
<1>10. \A v \in Worker : claim'[v].job # 0 => job'[claim'[v].job].status \notin {"none", "queued"}
  BY <1>3, <1>8, <1>9, HeldJobs
<1>11. c.pc \notin Engaged BY <1>5 DEF Engaged
<1>12. claim' \in [Worker -> Claim] /\ Held' BY <1>5, <1>6, <1>10, <1>11, ClaimMoves DEF Undo
<1>13. TypeOK' BY <1>8, <1>12 DEF Undo, IInv, TypeOK
<1> QED BY <1>8, <1>12, <1>13, SettlesKept, ReportsKept DEF IInv, Undo

LEMMA FailClaimedStep == ASSUME IInv, NEW w \in Worker, FailClaimed(w) PROVE IInv' /\ Forward
<1>1. PICK row : row = [NoRow EXCEPT !.status = "failed"] OBVIOUS
<1>2. row = [status |-> "failed", waiting |-> FALSE, age |-> 0, lapsed |-> FALSE] BY <1>1 DEF NoRow
<1>3. row \in Row /\ row.status = "failed" BY <1>2, Statuses, ScanConstants DEF Row
<1> QED BY <1>1, <1>3, UndoStep DEF FailClaimed

LEMMA ReleaseClaimedStep == ASSUME IInv, NEW w \in Worker, ReleaseClaimed(w) PROVE IInv' /\ Forward
<1>1. PICK row : row = [NoRow EXCEPT !.status = "queued", !.waiting = TRUE] OBVIOUS
<1>2. row = [status |-> "queued", waiting |-> TRUE, age |-> 0, lapsed |-> FALSE] BY <1>1 DEF NoRow
<1>3. row \in Row /\ row.status = "queued" /\ row.waiting BY <1>2, Statuses, ScanConstants DEF Row
<1> QED BY <1>1, <1>3, UndoStep DEF ReleaseClaimed

LEMMA ClaimMintStep == ASSUME IInv, NEW w \in Worker, ClaimMint(w) PROVE IInv' /\ Forward
<1>1. PICK j : j = claim[w].job OBVIOUS
<1>2. claim[w] \in Claim /\ claim[w].job # 0 BY DEF IInv, TypeOK, Held, Engaged, ClaimMint
<1>3. /\ j \in Job /\ handed[j] = 0 /\ job[j].status \notin {"none", "queued"}
      /\ \A v \in Worker \ {w} : claim[v].job # j
  BY <1>1, <1>2, HeldJobs DEF IInv, Held
<1>4. CASE handed' = [handed EXCEPT ![j] = handed[j] + 1]
           /\ worker' = [worker EXCEPT ![w] = [pc |-> "send", job |-> j, at |-> "cloning", from |-> "none"]]
  <2>1. handed' \in [Job -> Nat] /\ handed'[j] = 1 /\ \A i \in Job \ {j} : handed'[i] = handed[i]
    BY <1>3, <1>4 DEF IInv, TypeOK
  <2>2. HandedOnce' /\ Fresh' /\ Forward
    BY <1>3, <2>1 DEF ClaimMint, IInv, HandedOnce, Fresh, Forward
  <2>3. PICK r : r = [pc |-> "send", job |-> j, at |-> "cloning", from |-> "none"] OBVIOUS
  <2>4. r \in WorkerState BY <1>3, <2>3, ScanConstants DEF WorkerState, Job, Status, InFlight
  <2>5. worker' \in [Worker -> WorkerState] /\ Reports' BY <1>3, <1>4, <2>3, <2>4, WorkerMoves
  <2>6. claim' \in [Worker -> Claim] /\ claim'[w] = NoClaim /\ \A v \in Worker \ {w} : claim'[v] = claim[v]
    BY NothingsTyped DEF ClaimMint, IInv, TypeOK
  <2>7. Held'
    <3> SUFFICES ASSUME NEW v \in Worker
                 PROVE  /\ claim'[v].pc \in Engaged <=> claim'[v].job # 0
                        /\ claim'[v].job # 0 =>
                              /\ handed'[claim'[v].job] = 0
                              /\ job'[claim'[v].job].status \notin {"none", "queued"}
                              /\ \A u \in Worker \ {v} : claim'[u].job # claim'[v].job
      BY DEF Held
    <3>1. CASE v = w BY <2>6, <3>1, NothingsTyped
    <3>2. CASE v # w
      <4>1. claim[v].job # 0 => claim[v].job \in Job \ {j} BY <1>3, <3>2, HeldJobs
      <4> QED BY <2>1, <2>6, <3>2, <4>1, NothingsTyped DEF IInv, Held, ClaimMint
    <3> QED BY <3>1, <3>2
  <2>8. TypeOK' BY <2>1, <2>5, <2>6 DEF ClaimMint, IInv, TypeOK
  <2> QED BY <2>2, <2>5, <2>7, <2>8, SettlesKept DEF IInv, ClaimMint
<1>5. CASE handed' = handed /\ worker' = [worker EXCEPT ![w] = IF worker[w].pc = "asked" THEN NoWork ELSE worker[w]]
  <2>1. worker' \in [Worker -> WorkerState] /\ Reports' BY <1>5, AnsweredEmpty
  <2> QED BY <1>5, <2>1, NothingsTyped, ClaimOnly DEF ClaimMint
<1> QED BY <1>1, <1>4, <1>5 DEF ClaimMint

LEMMA ClaimContendedStep == ASSUME IInv, NEW w \in Worker, ClaimContended(w) PROVE IInv' /\ Forward
BY PassStep DEF ClaimContended

-----------------------------------------------------------------------------
(* Workers.                                                                *)

\* A worker that moves while no row and no claim does.
LEMMA WorkerOnly ==
    ASSUME IInv, NEW w \in Worker, NEW r \in WorkerState, worker' = [worker EXCEPT ![w] = r],
           r.pc \in {"work", "send", "sent"} => r.job \in Job,
           r.pc = "sent" => r.at \in ALLOWED_NEXT[r.from],
           UNCHANGED <<cast, job, open, asker, claim, handed, restarts>>, artifact' \in 0..MaxJobs
    PROVE  IInv' /\ Forward
<1>1. worker' \in [Worker -> WorkerState] /\ Reports' BY WorkerMoves
<1>2. Held' BY HeldKept, HeldJobs
<1>3. TypeOK' BY <1>1 DEF IInv, TypeOK
<1> QED BY <1>1, <1>2, <1>3, NoRowWritten, SettlesKept DEF IInv

\* The worker at work whose state [r] is another's with its next status.
LEMMA SendTyped ==
    ASSUME IInv, NEW w \in Worker, NEW status \in Status, Send(w, status), worker[w].job \in Job
    PROVE  \E r \in WorkerState : /\ worker' = [worker EXCEPT ![w] = r]
                                  /\ r.pc = "send" /\ r.job \in Job
<1>1. PICK r : r = [worker[w] EXCEPT !.pc = "send", !.at = status] OBVIOUS
<1>2. worker[w] \in WorkerState BY DEF IInv, TypeOK
<1>3. r \in WorkerState /\ r.pc = "send" /\ r.job = worker[w].job BY <1>1, <1>2 DEF WorkerState
<1>4. worker' = [worker EXCEPT ![w] = r] BY <1>1 DEF Send
<1> QED BY <1>3, <1>4

LEMMA RefusedTyped ==
    ASSUME IInv, NEW w \in Worker, Refused(w), worker[w].job \in Job
    PROVE  \E r \in WorkerState : /\ worker' = [worker EXCEPT ![w] = r]
                                  /\ r.pc \in {"idle", "send"} /\ (r.pc = "send" => r.job \in Job)
<1>1. CASE worker[w].at \in Terminal BY <1>1, NothingsTyped DEF Refused
<1>2. CASE worker[w].at \notin Terminal
  <2>1. Send(w, "failed") BY <1>2 DEF Refused
  <2> QED BY <2>1, SendTyped, Statuses
<1> QED BY <1>1, <1>2

LEMMA AtWork ==
    ASSUME IInv, NEW w \in Worker, worker[w].pc \in {"work", "send", "sent"}
    PROVE  worker[w] \in WorkerState /\ worker[w].job \in Job /\ job[worker[w].job] \in Row
BY DEF IInv, TypeOK, Reports

LEMMA ReportReadStep == ASSUME IInv, NEW w \in Worker, ReportRead(w) PROVE IInv' /\ Forward
<1>1. PICK from : from = job[worker[w].job].status OBVIOUS
<1>2. worker[w] \in WorkerState /\ worker[w].job \in Job /\ from \in Status /\ worker[w].pc = "send"
  BY <1>1, AtWork DEF ReportRead, Row
<1>3. UNCHANGED <<cast, job, open, artifact, asker, claim, handed, restarts>> /\ artifact' \in 0..MaxJobs
  BY DEF ReportRead, IInv, TypeOK
<1>4. CASE worker[w].at \in ALLOWED_NEXT[from] /\ worker' = [worker EXCEPT ![w].pc = "sent", ![w].from = from]
  <2>1. PICK r : r = [worker[w] EXCEPT !.pc = "sent", !.from = from] OBVIOUS
  <2>2. r \in WorkerState /\ r.pc = "sent" /\ r.from = from /\ r.at = worker[w].at /\ r.job = worker[w].job
    BY <1>2, <2>1 DEF WorkerState
  <2>3. worker' = [worker EXCEPT ![w] = r] BY <1>4, <2>1
  <2> QED BY <1>2, <1>3, <1>4, <2>2, <2>3, WorkerOnly
<1>5. CASE Refused(w) BY <1>2, <1>3, <1>5, RefusedTyped, WorkerOnly
<1> QED BY <1>1, <1>4, <1>5 DEF ReportRead

LEMMA ReportLostStep == ASSUME IInv, NEW w \in Worker, ReportLost(w) PROVE IInv' /\ Forward
<1>1. worker[w].job \in Job BY AtWork DEF ReportLost
<1>2. artifact' \in 0..MaxJobs BY DEF ReportLost, IInv, TypeOK
<1> QED BY <1>1, <1>2, RefusedTyped, WorkerOnly DEF ReportLost

LEMMA ReportWriteStep == ASSUME IInv, NEW w \in Worker, ReportWrite(w) PROVE IInv' /\ Forward
<1>1. PICK j : j = worker[w].job OBVIOUS
<1>2. PICK from : from = worker[w].from OBVIOUS
<1>3. PICK at : at = worker[w].at OBVIOUS
<1>4. worker[w] \in WorkerState /\ j \in Job /\ job[j] \in Row /\ worker[w].pc = "sent"
  BY <1>1, AtWork DEF ReportWrite
<1>5. /\ from \in Status /\ at \in ALLOWED_NEXT[from]
      /\ at \in {"claimed", "cloning", "scanning", "uploaded", "failed"}
  BY <1>2, <1>3, <1>4, Statuses DEF IInv, Reports, WorkerState
<1>6. UNCHANGED <<cast, open, artifact, asker, claim, handed, restarts>> BY DEF ReportWrite
<1>7. CASE job[j].status = from /\ SetRow(j, Reported(w))
  <2>1. PICK row : row = Reported(w) OBVIOUS
  <2>2. row \in Row /\ row.status = at
    <3>1. at \in Status BY <1>5 DEF Status, InFlight, Terminal
    <3>2. job[j].age \in 0..Lease /\ 0 \in 0..Lease BY <1>4, ScanConstants DEF Row
    <3>3. PICK age \in 0..Lease : row = [job[j] EXCEPT !.status = at, !.age = age]
      BY <1>1, <1>3, <2>1, <3>2 DEF Reported
    <3> QED BY <1>4, <3>1, <3>3 DEF Row
  <2>3. /\ job' \in [Job -> Row] /\ job'[j] = row /\ (\A i \in Job \ {j} : job'[i] = job[i])
        /\ HandedOnce' /\ Fresh'
    BY <1>4, <1>5, <1>6, <1>7, <2>1, <2>2, RowWritten
  <2>4. Forward BY <1>5, <1>7, <2>2, <2>3 DEF Forward
  <2>5. Held' BY <1>5, <1>6, <2>2, <2>3, HeldKept, HeldJobs
  <2>6. \E r \in WorkerState : /\ worker' = [worker EXCEPT ![w] = r] /\ r.pc \in {"idle", "work", "send"}
                               /\ (r.pc # "idle" => r.job \in Job)
    <3>1. CASE worker' = [worker EXCEPT ![w] = IF worker[w].at \in Terminal THEN NoWork
                                               ELSE [worker[w] EXCEPT !.pc = "work"]]
      <4>1. PICK s : s = [worker[w] EXCEPT !.pc = "work"] OBVIOUS
      <4>2. s \in WorkerState /\ s.pc = "work" /\ s.job = j BY <1>1, <1>4, <4>1 DEF WorkerState
      <4>3. worker' = [worker EXCEPT ![w] = NoWork] \/ worker' = [worker EXCEPT ![w] = s] BY <3>1, <4>1
      <4> QED BY <1>4, <4>2, <4>3, NothingsTyped
    <3>2. CASE Refused(w) BY <1>1, <1>4, <3>2, RefusedTyped
    <3> QED BY <1>1, <1>2, <1>7, <3>1, <3>2 DEF ReportWrite, Lands
  <2>7. worker' \in [Worker -> WorkerState] /\ Reports' BY <2>6, WorkerMoves
  <2>8. TypeOK' BY <1>6, <2>3, <2>7 DEF IInv, TypeOK
  <2> QED BY <1>6, <2>3, <2>4, <2>5, <2>7, <2>8, SettlesKept DEF IInv
<1>8. CASE Refused(w) /\ UNCHANGED job
  <2>1. artifact' \in 0..MaxJobs BY <1>6 DEF IInv, TypeOK
  <2> QED BY <1>1, <1>4, <1>6, <1>8, <2>1, RefusedTyped, WorkerOnly
<1> QED BY <1>1, <1>2, <1>7, <1>8 DEF ReportWrite, Lands

LEMMA CloneStep == ASSUME IInv, NEW w \in Worker, Clone(w) PROVE IInv' /\ Forward
<1>1. worker[w].job \in Job /\ artifact' \in 0..MaxJobs BY AtWork DEF Clone, IInv, TypeOK
<1>2. PICK next \in Status : Send(w, next) BY DEF Clone, Status, InFlight, Terminal
<1> QED BY <1>1, <1>2, SendTyped, WorkerOnly DEF Clone

LEMMA UploadStep == ASSUME IInv, NEW w \in Worker, Upload(w) PROVE IInv' /\ Forward
<1>1. worker[w].job \in Job BY AtWork DEF Upload
<1>2. artifact' \in 0..MaxJobs BY <1>1, ScanConstants DEF Upload, IInv, TypeOK, Job
<1>3. PICK next \in Status : Send(w, next) BY DEF Upload, Status, Terminal
<1> QED BY <1>1, <1>2, <1>3, SendTyped, WorkerOnly DEF Upload

LEMMA DiesStep == ASSUME IInv, NEW w \in Worker, Dies(w) PROVE IInv' /\ Forward
<1>1. artifact' \in 0..MaxJobs BY DEF Dies, IInv, TypeOK
<1> QED BY <1>1, NothingsTyped, WorkerOnly DEF Dies

\* Every request in the server's hands ends there; the worker's report that was
\* under way is refused.
LEMMA RestartStep == ASSUME IInv, Restart PROVE IInv' /\ Forward
<1>1. asker' \in [Creator \cup Wizard -> Asker] /\ Settles' BY NoAskTyped DEF Restart, Settles
<1>2. claim' \in [Worker -> Claim] /\ Held' BY NothingsTyped DEF Restart, Held
<1>3. ASSUME NEW w \in Worker
      PROVE  /\ worker'[w] \in WorkerState /\ worker'[w].pc # "sent"
             /\ worker'[w].pc \in {"work", "send"} => worker'[w].job \in Job
  <2>1. PICK s : s = [worker[w] EXCEPT !.pc = "send", !.at = "failed"] OBVIOUS
  <2>2. worker[w] \in WorkerState BY DEF IInv, TypeOK
  <2>3. s \in WorkerState /\ s.pc = "send" /\ s.job = worker[w].job BY <2>1, <2>2, Statuses DEF WorkerState
  <2>4. \/ worker'[w] = NoWork
        \/ worker[w].pc = "sent" /\ worker'[w] = s
        \/ worker[w].pc # "sent" /\ worker'[w] = worker[w]
    <3>1. worker'[w] = CutOff(w) BY DEF Restart
    <3>2. CASE worker[w].pc = "asked" BY <3>1, <3>2 DEF CutOff
    <3>3. CASE worker[w].pc = "sent"
      <4>1. CASE worker[w].at \in Terminal BY <3>1, <3>3, <4>1 DEF CutOff
      <4>2. CASE worker[w].at \notin Terminal BY <2>1, <3>1, <3>3, <4>2 DEF CutOff
      <4> QED BY <4>1, <4>2
    <3>4. CASE worker[w].pc \notin {"asked", "sent"} BY <3>1, <3>4 DEF CutOff
    <3> QED BY <3>2, <3>3, <3>4
  <2> QED BY <2>2, <2>3, <2>4, NothingsTyped DEF IInv, Reports
<1>4. worker' \in [Worker -> WorkerState]
  <2>1. \A w \in Worker : CutOff(w) \in WorkerState BY <1>3 DEF Restart
  <2> QED BY <2>1 DEF Restart
<1>5. Reports' BY <1>3 DEF Reports
<1>6. restarts' \in 0..cast'.restarts
  <2>1. cast \in Casts /\ restarts \in 0..cast.restarts BY DEF IInv, TypeOK
  <2>2. cast.restarts \in Nat BY <2>1, ScanConstants
  <2>3. cast' = cast /\ restarts' = restarts + 1 /\ restarts < cast.restarts BY DEF Restart
  <2> QED BY <2>1, <2>2, <2>3
<1>7. TypeOK' BY <1>1, <1>2, <1>4, <1>6 DEF Restart, IInv, TypeOK
<1> QED BY <1>1, <1>2, <1>5, <1>7, NoRowWritten DEF IInv, Restart

-----------------------------------------------------------------------------
(* The theorems of the scans.                                              *)

LEMMA InitIInv == Init => IInv
<1> SUFFICES ASSUME Init PROVE IInv OBVIOUS
<1>1. TypeOK
  <2>1. 0 \in 0..MaxJobs /\ 0 \in 0..cast.restarts BY ScanConstants DEF Init
  <2> QED BY <2>1, Statuses, NoAskTyped, NothingsTyped DEF Init, TypeOK
<1>2. HandedOnce /\ Fresh BY Statuses DEF Init, HandedOnce, Fresh
<1>3. Held BY NothingsTyped DEF Init, Held
<1>4. Settles BY NoAskTyped DEF Init, Settles
<1>5. Reports BY NothingsTyped DEF Init, Reports
<1> QED BY <1>1, <1>2, <1>3, <1>4, <1>5 DEF IInv

LEMMA StutterStep == ASSUME IInv, UNCHANGED vars PROVE IInv' /\ Forward
BY DEF IInv, TypeOK, HandedOnce, Fresh, Held, Settles, Reports, vars, Forward

LEMMA StepIInv == IInv /\ [Next]_vars => IInv' /\ Forward
<1> SUFFICES ASSUME IInv, [Next]_vars PROVE IInv' /\ Forward OBVIOUS
<1>1. CASE \E a \in Creator : Creating(a)
  <2>1. PICK a \in Creator \cup Wizard : CreateRead(a) \/ Settle(a) \/ Create(a) BY <1>1 DEF Creating
  <2>2. CASE CreateRead(a) BY <2>2, AskStep DEF CreateRead
  <2>3. CASE Settle(a) BY <2>3, SettleStep
  <2>4. CASE Create(a) BY <2>4, CreateStep
  <2> QED BY <2>1, <2>2, <2>3, <2>4
<1>2. CASE \E a \in Wizard : Showing(a)
  <2>1. PICK a \in Creator \cup Wizard : LatestRead(a) \/ Settle(a) \/ Latest(a) BY <1>2 DEF Showing
  <2>2. CASE LatestRead(a)
    <3>1. Known \in SUBSET Job /\ Known # {} BY <2>2 DEF LatestRead, Newest, Known
    <3>2. {Newest} \in SUBSET Job BY <3>1, LastJob DEF Newest
    <3> QED BY <2>2, <3>2, AskStep DEF LatestRead
  <2>3. CASE Settle(a) BY <2>3, SettleStep
  <2>4. CASE Latest(a) BY <2>4, LatestStep
  <2> QED BY <2>1, <2>2, <2>3, <2>4
<1>3. CASE \E w \in Worker : Claiming(w)
  BY <1>3, ClaimTakeStep, ClaimContendedStep, ClaimNothingStep, ClaimVerifyStep, FailClaimedStep,
     ReleaseClaimedStep, ClaimMintStep DEF Claiming
<1>4. CASE \E w \in Worker : Working(w)
  BY <1>4, ClaimQueryStep, ReportReadStep, ReportLostStep, ReportWriteStep, CloneStep, UploadStep, DiesStep
     DEF Working
<1>5. CASE Tick \/ Close \/ Restart BY <1>5, TickStep, CloseStep, RestartStep
<1>6. CASE UNCHANGED vars BY <1>6, StutterStep
<1> QED BY <1>1, <1>2, <1>3, <1>4, <1>5, <1>6 DEF Next

\* The inductive invariant holds at every moment: claims, settlements and
\* reports of routes/scanJobs.ts keep to the rows their conditions name.
THEOREM IInvHolds == Spec => []IInv
BY InitIInv, StepIInv, PTL DEF Spec

\* Every row, claim, request and worker keeps its form (store/schema.ts).
THEOREM TypeCorrect == Spec => []TypeOK
<1>1. IInv => TypeOK BY DEF IInv
<1> QED BY <1>1, IInvHolds, PTL

\* A job is given to one worker, ever, and a queued one to none: whatever the
\* number of polls at the same instant, undone claims, lost answers and restarts
\* (claim, failClaimed and releaseClaimed in routes/scanJobs.ts).
THEOREM JobsHandedOnce == Spec => []HandedOnce
<1>1. IInv => HandedOnce BY DEF IInv
<1> QED BY <1>1, IInvHolds, PTL

\* No report, settlement or undone claim moves a job back, save into the queue
\* out of a claim that nobody has got (ALLOWED_NEXT in routes/scanJobs.ts).
THEOREM JobsMoveForward == Spec => ForwardOnly
<1>1. IInv /\ [Next]_vars =>
         [\A j \in Job :
            job'[j].status # job[j].status /\ job[j].status # "none" =>
               \/ job'[j].status \in ALLOWED_NEXT[job[j].status]
               \/ job[j].status = "claimed" /\ job'[j].status = "queued" /\ handed[j] = 0]_vars
  BY StepIInv DEF Forward
<1> QED BY <1>1, IInvHolds, PTL DEF Spec, ForwardOnly

-----------------------------------------------------------------------------
(* The project: its inductive invariant.                                   *)

\* A reading of the row that a condition on its version can tell from the row.
Earlier(m) == m.live /\ m.version <= meta.version /\ (m.version = meta.version => m = meta)

\* What may be proposed of the row m.
Apt(k, m, v) ==
    /\ k = "trust" => m.status = "pending-trust"
    /\ k = "activate" => v \in Data /\ m.status \in Uploadable

\* A request holds what its checks let through.
Checked(h) ==
    /\ h.pc \in {"request", "identity"} => h.meta.status \in Onboardable
    /\ h.pc = "request" => h.want \in Artifact
    /\ h.pc = "identity" => h.want \in Identity
    /\ h.pc = "satellite" => h.want \in Satellite
    /\ h.pc = "propose" => h.want \in Kind /\ Apt(h.want, h.meta, h.data)
    /\ h.pc \in {"upload", "stage", "files", "unstage"} => h.want \in Bundle
    /\ h.pc \in {"stage", "files", "unstage"} => h.data \in Data

Offered(o) == o.state = "open" => Apt(o.kind, o.seen, o.data)

\* Before the id is registered there is nothing to work on.
Unborn ==
    births = 0 =>
       /\ ~meta.live
       /\ \A p \in Proc : proc[p].pc \in {"idle", "register"}
       /\ \A i \in Proposal : offer[i].state # "open"
       /\ \A v \in Data : staged[v] = None /\ files[v] = None

\* In the id's first life a request reads rows of that life, an upload owns its
\* version, whose files have not landed, and nothing is swept.
Lives(h) ==
    /\ h.pc \in {"request", "identity", "archive", "propose"} => Earlier(h.meta)
    /\ h.pc \in {"files", "unstage"} => staged[h.data] = h.want /\ files[h.data] = None
    /\ h.pc = "propose" /\ h.want = "activate" => files[h.data] # None
    /\ h.pc \notin {"sweep", "sweeping"}

Stands(o) ==
    o.state = "open" => Earlier(o.seen) /\ (o.kind = "activate" => files[o.data] # None)

Apart ==
    \A p, q \in Proc :
       p # q /\ proc[p].pc \in {"files", "unstage"} /\ proc[q].pc \in {"files", "unstage"}
          => proc[p].data # proc[q].data

Whole == \A v \in Data : files[v] # None => staged[v] = files[v]
Serves == meta.active > 0 => files[meta.active] # None
Bound ==
    meta.status \in Uploadable =>
       meta.trust = meta.request /\ meta.request = vouched.request /\ meta.identity = vouched.identity

FirstLife ==
    births = 1 /\ meta.live =>
       /\ \A p \in Proc : Lives(proc[p])
       /\ \A i \in Proposal : Stands(offer[i])
       /\ Apart /\ Whole /\ Serves /\ Bound

ProjectInv ==
    /\ ProjectTypeOK
    /\ \A p \in Proc : Checked(proc[p])
    /\ \A i \in Proposal : Offered(offer[i])
    /\ Unborn /\ FirstLife

\* What a step does to a version that has landed.
Kept ==
    \A v \in Data :
       meta.live /\ births = 1 /\ files[v] # None /\ staged[v] # None
          => files'[v] = files[v] /\ (meta'.live => staged'[v] = staged[v])

-----------------------------------------------------------------------------
LEMMA Values ==
    /\ NoMeta \in Meta /\ ~NoMeta.live /\ Idle \in Handler /\ Idle.pc = "idle" /\ NoOffer \in Offer
    /\ NoOffer.state = "none" /\ 1 \in 0..MaxVersion
    /\ \A id \in Identity \cup {None} :
          /\ [NoMeta EXCEPT !.live = TRUE, !.version = 1, !.identity = id] \in Meta
          /\ [NoMeta EXCEPT !.live = TRUE, !.version = 1, !.identity = id].status = "draft"
          /\ [NoMeta EXCEPT !.live = TRUE, !.version = 1, !.identity = id].active = 0
<1>1. 0 \in 0..MaxVersion /\ 1 \in 0..MaxVersion /\ 0 \in 0..MaxData BY ProjectsConstants
<1>2. NoMeta \in Meta BY <1>1 DEF NoMeta, Meta, Rung
<1>3. Idle \in Handler BY <1>1, <1>2 DEF Idle, Handler, Pcs
<1>4. NoOffer \in Offer BY <1>1, <1>2 DEF NoOffer, Offer, Kind
<1>5. \A id \in Identity \cup {None} :
          /\ [NoMeta EXCEPT !.live = TRUE, !.version = 1, !.identity = id] \in Meta
          /\ [NoMeta EXCEPT !.live = TRUE, !.version = 1, !.identity = id].status = "draft"
          /\ [NoMeta EXCEPT !.live = TRUE, !.version = 1, !.identity = id].active = 0
  BY <1>1 DEF NoMeta, Meta, Rung
<1> QED BY <1>1, <1>2, <1>3, <1>4, <1>5 DEF NoMeta, Idle, NoOffer

\* A request at rest asks nothing of the state.
LEMMA AtRest ==
    ASSUME NEW h \in Handler, h.pc \in {"idle", "register"}
    PROVE  Checked(h) /\ Lives(h)
BY DEF Checked, Lives

\* A step of one request that writes no row.
LEMMA OneMoves ==
    ASSUME ProjectInv, NEW p \in Proc, NEW h \in Handler, Goto(p, h), OnlyHandlers,
           Checked(h), births = 0 => meta.live \/ h.pc \in {"idle", "register"},
           births = 1 /\ meta.live =>
              /\ Lives(h)
              /\ h.pc \in {"files", "unstage"} => proc[p].pc \in {"files", "unstage"} /\ h.data = proc[p].data
    PROVE  ProjectInv' /\ Kept
<1>1. /\ proc' \in [Proc -> Handler] /\ proc'[p] = h /\ \A q \in Proc : q # p => proc'[q] = proc[q]
  BY DEF ProjectInv, ProjectTypeOK, Goto
<1>2. /\ meta' = meta /\ births' = births /\ offer' = offer /\ staged' = staged /\ files' = files
      /\ vouched' = vouched
  BY DEF OnlyHandlers, partition
<1>3. ProjectTypeOK' BY <1>1 DEF OnlyHandlers, partition, ProjectInv, ProjectTypeOK
<1>4. \A q \in Proc : Checked(proc'[q]) BY <1>1 DEF ProjectInv
<1>5. \A i \in Proposal : Offered(offer[i])' BY <1>2 DEF ProjectInv, Offered, Apt
<1>6. Unborn' BY <1>1, <1>2 DEF ProjectInv, Unborn
<1>7. ASSUME births = 1, meta.live
      PROVE  FirstLife'
  <2>1. \A q \in Proc : Lives(proc[q])' BY <1>1, <1>2, <1>7 DEF ProjectInv, FirstLife, Lives, Earlier
  <2>2. \A i \in Proposal : Stands(offer[i])' BY <1>2, <1>7 DEF ProjectInv, FirstLife, Stands, Earlier
  <2>3. Apart' BY <1>1, <1>7 DEF ProjectInv, FirstLife, Apart
  <2>4. (Whole /\ Serves /\ Bound)' BY <1>2, <1>7 DEF ProjectInv, FirstLife, Whole, Serves, Bound
  <2> QED BY <2>1, <2>2, <2>3, <2>4 DEF FirstLife
<1>8. FirstLife' BY <1>2, <1>7 DEF FirstLife
<1>9. Kept BY <1>2 DEF Kept
<1> QED BY <1>3, <1>4, <1>5, <1>6, <1>8, <1>9 DEF ProjectInv, Checked, Apt

LEMMA HoldingTyped ==
    ASSUME ProjectTypeOK, NEW pc \in Pcs,
           NEW want \in Artifact \cup Identity \cup Bundle \cup Satellite \cup Kind \cup {None}
    PROVE  /\ Holding(pc, want) \in Handler
           /\ Holding(pc, want).pc = pc /\ Holding(pc, want).meta = meta /\ Holding(pc, want).want = want
<1>1. Idle \in Handler /\ meta \in Meta BY Values DEF ProjectTypeOK
<1> QED BY <1>1 DEF Holding, Handler, Idle

\* The row as it stands is an earlier reading of itself.
LEMMA JustRead == ASSUME ProjectTypeOK, meta.live PROVE Earlier(meta)
<1>1. meta.version \in Int BY ProjectsConstants DEF ProjectTypeOK, Meta
<1> QED BY <1>1 DEF Earlier

-----------------------------------------------------------------------------
(* What reads only.                                                        *)

LEMMA RegisterReadStep == ASSUME ProjectInv, NEW p \in Proc, RegisterRead(p) PROVE ProjectInv' /\ Kept
<1>1. Holding("register", None) \in Handler /\ Holding("register", None).pc = "register"
  BY HoldingTyped DEF Pcs, ProjectInv
<1> QED BY <1>1, AtRest, OneMoves DEF RegisterRead, Begin

LEMMA CredentialReadStep == ASSUME ProjectInv, NEW p \in Proc, CredentialRead(p) PROVE ProjectInv' /\ Kept
<1>1. PICK s \in Satellite : MayHold(s) /\ Begin(p, "credential", Holding("satellite", s))
  BY DEF CredentialRead
<1> DEFINE h == Holding("satellite", s)
<1>2. h \in Handler /\ h.pc = "satellite" /\ h.want = s BY HoldingTyped DEF Pcs, ProjectInv
<1>3. meta.live BY <1>1 DEF MayHold, MayOnboard, MayUpload
<1>4. Goto(p, h) /\ OnlyHandlers BY <1>1 DEF Begin, CredentialRead
<1> HIDE DEF h
<1>5. Checked(h) /\ Lives(h) BY <1>2 DEF Checked, Lives
<1> QED BY <1>2, <1>3, <1>4, <1>5, OneMoves

LEMMA RequestReadStep == ASSUME ProjectInv, NEW p \in Proc, RequestRead(p) PROVE ProjectInv' /\ Kept
<1>1. PICK a \in Artifact : Begin(p, "request", Holding("request", a)) BY DEF RequestRead
<1> DEFINE h == Holding("request", a)
<1>2. h \in Handler /\ h.pc = "request" /\ h.want = a /\ h.meta = meta BY HoldingTyped DEF Pcs, ProjectInv
<1>3. meta.live /\ meta.status \in Onboardable BY DEF RequestRead
<1>4. Goto(p, h) /\ OnlyHandlers BY <1>1 DEF Begin, RequestRead
<1> HIDE DEF h
<1>5. Checked(h) BY <1>2, <1>3 DEF Checked
<1>6. Lives(h) BY <1>2, <1>3, JustRead DEF Lives, ProjectInv
<1> QED BY <1>2, <1>3, <1>4, <1>5, <1>6, OneMoves

LEMMA IdentityReadStep == ASSUME ProjectInv, NEW p \in Proc, IdentityRead(p) PROVE ProjectInv' /\ Kept
<1>1. PICK id \in Identity : Begin(p, "identity", Holding("identity", id)) BY DEF IdentityRead
<1> DEFINE h == Holding("identity", id)
<1>2. h \in Handler /\ h.pc = "identity" /\ h.want = id /\ h.meta = meta BY HoldingTyped DEF Pcs, ProjectInv
<1>3. meta.live /\ meta.status \in Onboardable BY DEF IdentityRead, MayOnboard
<1>4. Goto(p, h) /\ OnlyHandlers BY <1>1 DEF Begin, IdentityRead
<1> HIDE DEF h
<1>5. Checked(h) BY <1>2, <1>3 DEF Checked
<1>6. Lives(h) BY <1>2, <1>3, JustRead DEF Lives, ProjectInv
<1> QED BY <1>2, <1>3, <1>4, <1>5, <1>6, OneMoves

LEMMA ArchiveReadStep == ASSUME ProjectInv, NEW p \in Proc, ArchiveRead(p) PROVE ProjectInv' /\ Kept
<1> DEFINE h == Holding("archive", None)
<1>2. h \in Handler /\ h.pc = "archive" /\ h.meta = meta BY HoldingTyped DEF Pcs, ProjectInv
<1>3. meta.live BY DEF ArchiveRead
<1>4. Goto(p, h) /\ OnlyHandlers BY DEF Begin, ArchiveRead
<1> HIDE DEF h
<1>5. Checked(h) BY <1>2 DEF Checked
<1>6. Lives(h) BY <1>2, <1>3, JustRead DEF Lives, ProjectInv
<1> QED BY <1>2, <1>3, <1>4, <1>5, <1>6, OneMoves

LEMMA ProposeReadStep == ASSUME ProjectInv, NEW p \in Proc, ProposeRead(p) PROVE ProjectInv' /\ Kept
<1>1. PICK k \in Kind, v \in 0..MaxData :
         MayPropose(k, v) /\ Begin(p, k, [Holding("propose", k) EXCEPT !.data = v])
  BY DEF ProposeRead
<1>2. PICK h : h = [Holding("propose", k) EXCEPT !.data = v] OBVIOUS
<1>3. Holding("propose", k) \in Handler /\ Holding("propose", k).pc = "propose"
      /\ Holding("propose", k).meta = meta /\ Holding("propose", k).want = k
  BY HoldingTyped DEF Pcs, ProjectInv
<1>4. h \in Handler /\ h.pc = "propose" /\ h.meta = meta /\ h.want = k /\ h.data = v
  BY <1>2, <1>3 DEF Handler
<1>5. meta.live /\ Apt(k, meta, v) /\ (k = "activate" => files[v] # None)
  BY <1>1 DEF MayPropose, MayUpload, Apt, Landed
<1>6. Goto(p, h) /\ OnlyHandlers BY <1>1, <1>2 DEF Begin, ProposeRead
<1>7. Checked(h) BY <1>4, <1>5 DEF Checked
<1>8. Lives(h) BY <1>4, <1>5, JustRead DEF Lives, ProjectInv
<1> QED BY <1>4, <1>5, <1>6, <1>7, <1>8, OneMoves

LEMMA UploadGateStep == ASSUME ProjectInv, NEW p \in Proc, UploadGate(p) PROVE ProjectInv' /\ Kept
<1>1. PICK b \in Bundle : Begin(p, "upload", [Idle EXCEPT !.pc = "upload", !.want = b])
  BY DEF UploadGate
<1>2. PICK h : h = [Idle EXCEPT !.pc = "upload", !.want = b] OBVIOUS
<1>3. h \in Handler /\ h.pc = "upload" /\ h.want = b BY <1>2, Values DEF Handler, Pcs
<1>4. meta.live BY DEF UploadGate, MayUpload
<1>5. Goto(p, h) /\ OnlyHandlers BY <1>1, <1>2 DEF Begin, UploadGate
<1>6. Checked(h) /\ Lives(h) BY <1>3 DEF Checked, Lives
<1> QED BY <1>3, <1>4, <1>5, <1>6, OneMoves

LEMMA LastVersion == ASSUME NEW S \in SUBSET Data PROVE Max({0} \cup S) \in Nat
<1>1. MaxData \in Nat /\ {0} \cup S \in SUBSET (0..MaxData) BY ProjectsConstants DEF Data
<1>2. Max({0} \cup S) \in 0..MaxData BY <1>1, Largest
<1> QED BY <1>1, <1>2

\* Who has more than a reading of the row works on a project that is, or was,
\* registered.
LEMMA Born ==
    ASSUME ProjectInv, NEW p \in Proc, proc[p].pc \notin {"idle", "register"}
    PROVE  births # 0
BY DEF ProjectInv, Unborn

LEMMA UploadNumberStep == ASSUME ProjectInv, NEW p \in Proc, UploadNumber(p) PROVE ProjectInv' /\ Kept
<1>1. PICK next : /\ next = Max({0} \cup {v \in Data : staged[v] # None}) + 1 /\ next <= MaxData
                  /\ Goto(p, [proc[p] EXCEPT !.pc = "stage", !.data = next])
  BY DEF UploadNumber
<1>2. next \in Data
  <2>1. Max({0} \cup {v \in Data : staged[v] # None}) \in Nat BY LastVersion
  <2> QED BY <1>1, <2>1, ProjectsConstants DEF Data
<1>3. PICK h : h = [proc[p] EXCEPT !.pc = "stage", !.data = next] OBVIOUS
<1>4. proc[p] \in Handler /\ proc[p].pc = "upload" /\ Checked(proc[p])
  BY DEF UploadNumber, At, ProjectInv, ProjectTypeOK
<1>5. h.pc = "stage" /\ h.want = proc[p].want /\ h.data = next BY <1>3, <1>4 DEF Handler
<1>6. h \in Handler
  <2>1. next \in 0..MaxData BY <1>2, ProjectsConstants DEF Data
  <2> QED BY <1>3, <1>4, <2>1 DEF Handler, Pcs
<1>7. Checked(h) BY <1>2, <1>4, <1>5 DEF Checked
<1>8. Lives(h) BY <1>5 DEF Lives
<1>9. Goto(p, h) /\ OnlyHandlers BY <1>1, <1>3 DEF UploadNumber
<1> QED BY <1>4, <1>5, <1>6, <1>7, <1>8, <1>9, Born, OneMoves

LEMMA UploadFailsStep == ASSUME ProjectInv, NEW p \in Proc, UploadFails(p) PROVE ProjectInv' /\ Kept
<1>1. PICK h : h = [proc[p] EXCEPT !.pc = "unstage"] OBVIOUS
<1>2. proc[p] \in Handler /\ proc[p].pc = "files" /\ Checked(proc[p])
  BY DEF UploadFails, At, ProjectInv, ProjectTypeOK
<1>3. h.pc = "unstage" /\ h.want = proc[p].want /\ h.data = proc[p].data BY <1>1, <1>2 DEF Handler
<1>4. h \in Handler BY <1>1, <1>2 DEF Handler, Pcs
<1>5. Checked(h) BY <1>2, <1>3 DEF Checked
<1>6. births = 1 /\ meta.live => Lives(h)
  BY <1>2, <1>3 DEF Lives, ProjectInv, FirstLife
<1>7. Goto(p, h) /\ OnlyHandlers BY <1>1 DEF UploadFails
<1> QED BY <1>2, <1>3, <1>4, <1>5, <1>6, <1>7, Born, OneMoves

LEMMA SweepQueryStep == ASSUME ProjectInv, NEW p \in Proc, SweepQuery(p) PROVE ProjectInv' /\ Kept
<1>1. PICK h : h = [Idle EXCEPT !.pc = "sweeping", !.sat = sat, !.row = meta.live,
                                !.rows = {v \in Data : staged[v] # None}]
  OBVIOUS
<1>2. {v \in Data : staged[v] # None} \in SUBSET Data /\ sat \in SUBSET Satellite /\ meta.live \in BOOLEAN
  BY DEF ProjectInv, ProjectTypeOK, Meta
<1>3. h \in Handler BY <1>1, <1>2, Values DEF Handler, Pcs
<1>4. h.pc = "sweeping" BY <1>1, Values DEF Handler
<1>5. Checked(h) BY <1>4 DEF Checked
<1>6. proc[p].pc = "sweep" BY DEF SweepQuery, At
<1>7. ~(births = 1 /\ meta.live) BY <1>6 DEF ProjectInv, FirstLife, Lives
<1>8. Goto(p, h) /\ OnlyHandlers BY <1>1 DEF SweepQuery
<1> QED BY <1>3, <1>4, <1>5, <1>6, <1>7, <1>8, Born, OneMoves

-----------------------------------------------------------------------------
(* What a step of one request leaves alone when it writes something else   *)
(* than the registry row, in the id's first life.                          *)

\* After its first life the id's later ones are of no concern here.
LEMMA Beyond ==
    ASSUME ProjectInv, ProjectTypeOK', births # 0, births' = births, meta'.live => meta.live,
           ~(births = 1 /\ meta.live), 
           \A q \in Proc : Checked(proc[q])', \A i \in Proposal : Offered(offer[i])'
    PROVE  ProjectInv' /\ Kept
<1>1. Unborn' /\ FirstLife' BY DEF Unborn, FirstLife
<1> QED BY <1>1 DEF ProjectInv, Kept

\* A request that comes to rest.
LEMMA Rests ==
    ASSUME ProjectInv, NEW p \in Proc, Done(p)
    PROVE  /\ proc' \in [Proc -> Handler] /\ proc'[p] = Idle /\ \A q \in Proc : q # p => proc'[q] = proc[q]
           /\ \A q \in Proc : Checked(proc'[q])
<1>1. /\ proc' \in [Proc -> Handler] /\ proc'[p] = Idle /\ \A q \in Proc : q # p => proc'[q] = proc[q]
  BY Values DEF ProjectInv, ProjectTypeOK, Done, Goto
<1>2. Checked(Idle) BY Values, AtRest
<1> QED BY <1>1, <1>2 DEF ProjectInv

\* Nothing of the project is written but its credentials.
LEMMA OnlyRests ==
    ASSUME ProjectInv, NEW p \in Proc, Done(p), births # 0, sat' \subseteq Satellite,
           UNCHANGED <<mix, meta, staged, files, retired, offer, births, vouched, crashes>>
    PROVE  ProjectInv' /\ Kept
<1>1. /\ proc' \in [Proc -> Handler] /\ proc'[p] = Idle /\ \A q \in Proc : q # p => proc'[q] = proc[q]
      /\ \A q \in Proc : Checked(proc'[q])
  BY Rests
<1>2. ProjectTypeOK' BY <1>1 DEF ProjectInv, ProjectTypeOK
<1>3. \A q \in Proc : Checked(proc[q])' BY <1>1 DEF Checked, Apt
<1>4. \A i \in Proposal : Offered(offer[i])' BY DEF ProjectInv, Offered, Apt
<1>5. Unborn' BY DEF Unborn
<1>6. ASSUME births = 1, meta.live PROVE FirstLife'
  <2>1. Lives(Idle) BY Values, AtRest
  <2>2. \A q \in Proc : Lives(proc[q])' BY <1>1, <1>6, <2>1 DEF ProjectInv, FirstLife, Lives, Earlier
  <2>3. \A i \in Proposal : Stands(offer[i])' BY <1>6 DEF ProjectInv, FirstLife, Stands, Earlier
  <2>4. Apart' BY <1>1, <1>6, Values DEF ProjectInv, FirstLife, Apart
  <2>5. (Whole /\ Serves /\ Bound)' BY <1>6 DEF ProjectInv, FirstLife, Whole, Serves, Bound
  <2> QED BY <2>2, <2>3, <2>4, <2>5 DEF FirstLife
<1>7. FirstLife' BY <1>6 DEF FirstLife
<1>8. Kept BY DEF Kept
<1> QED BY <1>2, <1>3, <1>4, <1>5, <1>7, <1>8 DEF ProjectInv

LEMMA CredentialWriteStep == ASSUME ProjectInv, NEW p \in Proc, CredentialWrite(p) PROVE ProjectInv' /\ Kept
<1>1. Done(p) /\ proc[p].pc = "satellite" BY DEF CredentialWrite, At
<1>2. Checked(proc[p]) BY DEF ProjectInv
<1>3. sat' \subseteq Satellite BY <1>1, <1>2 DEF CredentialWrite, Checked, ProjectInv, ProjectTypeOK
<1> QED BY <1>1, <1>3, Born, OnlyRests DEF CredentialWrite

LEMMA CredentialRemoveStep == ASSUME ProjectInv, CredentialRemove PROVE ProjectInv' /\ Kept
<1>1. sat' \subseteq Satellite BY DEF CredentialRemove, ProjectInv, ProjectTypeOK
<1>2. UNCHANGED <<mix, meta, staged, files, retired, offer, proc, births, vouched, crashes>>
  BY DEF CredentialRemove
<1>3. ProjectTypeOK' BY <1>1, <1>2 DEF ProjectInv, ProjectTypeOK
<1>4. \A q \in Proc : Checked(proc[q])' BY <1>2 DEF ProjectInv, Checked, Apt
<1>5. \A i \in Proposal : Offered(offer[i])' BY <1>2 DEF ProjectInv, Offered, Apt
<1>6. Unborn' BY <1>2 DEF ProjectInv, Unborn
<1>7. FirstLife'
  BY <1>2 DEF ProjectInv, FirstLife, Lives, Stands, Earlier, Apart, Whole, Serves, Bound
<1>8. Kept BY <1>2 DEF Kept
<1> QED BY <1>3, <1>4, <1>5, <1>6, <1>7, <1>8 DEF ProjectInv

-----------------------------------------------------------------------------
(* The registry row is written on the condition of its version.            *)

LEMMA RowMoves ==
    ASSUME ProjectInv, NEW p \in Proc, Done(p), births # 0, meta.live,
           meta' \in Meta, meta'.version = meta.version + 1, vouched' \in Meta,
           offer' \in [Proposal -> Offer],
           \A i \in Proposal : offer'[i] = offer[i] \/ offer'[i].state # "open",
           UNCHANGED <<mix, sat, staged, files, retired, births, crashes>>,
           births = 1 => Serves' /\ Bound'
    PROVE  ProjectInv' /\ Kept
<1>1. /\ proc' \in [Proc -> Handler] /\ proc'[p] = Idle /\ \A q \in Proc : q # p => proc'[q] = proc[q]
      /\ \A q \in Proc : Checked(proc'[q])
  BY Rests
<1>2. ProjectTypeOK' BY <1>1 DEF ProjectInv, ProjectTypeOK
<1>3. \A q \in Proc : Checked(proc[q])' BY <1>1 DEF Checked, Apt
<1>4. \A i \in Proposal : Offered(offer[i])' BY DEF ProjectInv, Offered, Apt
<1>5. Unborn' BY DEF Unborn
<1>6. ASSUME births = 1 PROVE FirstLife'
  <2>1. Lives(Idle) BY Values, AtRest
  <2>2. \A m \in Meta : Earlier(m) => m.live /\ m.version <= meta'.version /\ m.version # meta'.version
    <3>1. meta.version \in Int /\ \A m \in Meta : m.version \in Int
      BY ProjectsConstants DEF ProjectInv, ProjectTypeOK, Meta
    <3> QED BY <3>1 DEF Earlier
  <2>3. \A q \in Proc : proc[q].meta \in Meta BY DEF ProjectInv, ProjectTypeOK, Handler
  <2>4. \A i \in Proposal : offer[i].seen \in Meta BY DEF ProjectInv, ProjectTypeOK, Offer
  <2>5. ASSUME NEW q \in Proc PROVE Lives(proc[q])'
    <3>1. Lives(proc[q]) BY <1>6 DEF ProjectInv, FirstLife
    <3>2. CASE q = p BY <1>1, <3>2, Values DEF Lives
    <3>3. CASE q # p BY <1>1, <2>2, <2>3, <3>1, <3>3 DEF Lives, Earlier
    <3> QED BY <3>2, <3>3
  <2>6. \A i \in Proposal : Stands(offer[i])'
    BY <1>6, <2>2, <2>4 DEF ProjectInv, FirstLife, Stands, Earlier
  <2>7. Apart' BY <1>1, <1>6, Values DEF ProjectInv, FirstLife, Apart
  <2>8. Whole' BY <1>6 DEF ProjectInv, FirstLife, Whole
  <2> QED BY <1>6, <2>5, <2>6, <2>7, <2>8 DEF FirstLife
<1>7. FirstLife' BY <1>6 DEF FirstLife
<1>8. Kept BY DEF Kept
<1> QED BY <1>2, <1>3, <1>4, <1>5, <1>7, <1>8 DEF ProjectInv

\* A reading with the row's version is the row.
LEMMA ReadNow ==
    ASSUME ProjectInv, births = 1, meta.live
    PROVE  /\ \A p \in Proc :
                 proc[p].pc \in {"request", "identity", "archive", "propose"} /\ Matches(p) => proc[p].meta = meta
           /\ \A i \in Proposal :
                 offer[i].state = "open" /\ meta.version = offer[i].seen.version => offer[i].seen = meta
BY DEF ProjectInv, FirstLife, Lives, Stands, Earlier, Matches

LEMMA RowTyped ==
    ASSUME ProjectInv, NEW p \in Proc
    PROVE  proc[p] \in Handler /\ proc[p].meta \in Meta /\ meta \in Meta /\ Checked(proc[p])
           /\ vouched \in Meta /\ offer \in [Proposal -> Offer] /\ sat \subseteq Satellite
BY DEF ProjectInv, ProjectTypeOK, Handler

LEMMA NextVersion ==
    ASSUME ProjectInv, meta.version < MaxVersion
    PROVE  meta.version + 1 \in 0..MaxVersion /\ meta.version \in 0..MaxVersion
BY ProjectsConstants DEF ProjectInv, ProjectTypeOK, Meta

LEMMA RequestWriteStep == ASSUME ProjectInv, NEW p \in Proc, RequestWrite(p) PROVE ProjectInv' /\ Kept
<1>1. Done(p) /\ proc[p].pc = "request" /\ births # 0 BY Born DEF RequestWrite, At
<1>2. proc[p].want \in Artifact /\ proc[p].meta \in Meta BY <1>1, RowTyped DEF Checked
<1>3. CASE ~Matches(p) BY <1>1, <1>3, RowTyped, OnlyRests DEF RequestWrite
<1>4. CASE Matches(p)
  <2>1. meta' = [proc[p].meta EXCEPT !.status = "pending-trust", !.request = proc[p].want, !.version = @ + 1]
    BY <1>4 DEF RequestWrite
  <2>2. proc[p].meta.version = meta.version /\ meta.live BY <1>4 DEF Matches
  <2>3. meta.version + 1 \in 0..MaxVersion BY NextVersion DEF RequestWrite
  <2>4. meta'.version = meta.version + 1 /\ meta'.status = "pending-trust" /\ meta'.active = proc[p].meta.active
    BY <1>2, <2>1, <2>2 DEF Meta
  <2>5. meta' \in Meta BY <1>2, <2>1, <2>2, <2>3 DEF Meta, Rung
  <2>6. Bound' BY <2>4 DEF Bound, Uploadable
  <2>7. births = 1 => Serves'
    <3>1. births = 1 => meta'.active = meta.active BY <1>1, <1>4, <2>2, <2>4, ReadNow
    <3> QED BY <2>2, <3>1 DEF Serves, ProjectInv, FirstLife, RequestWrite
  <2> QED BY <1>1, <2>2, <2>4, <2>5, <2>6, <2>7, RowTyped, RowMoves DEF RequestWrite
<1> QED BY <1>3, <1>4

LEMMA IdentityWriteStep == ASSUME ProjectInv, NEW p \in Proc, IdentityWrite(p) PROVE ProjectInv' /\ Kept
<1>1. Done(p) /\ proc[p].pc = "identity" /\ births # 0 BY Born DEF IdentityWrite, At
<1>2. proc[p].want \in Identity /\ proc[p].meta \in Meta /\ proc[p].meta.status \in Onboardable
  BY <1>1, RowTyped DEF Checked
<1>3. CASE ~Matches(p) BY <1>1, <1>3, RowTyped, OnlyRests DEF IdentityWrite
<1>4. CASE Matches(p)
  <2>1. meta' = [proc[p].meta EXCEPT !.identity = proc[p].want, !.version = @ + 1]
    BY <1>4 DEF IdentityWrite
  <2>2. proc[p].meta.version = meta.version /\ meta.live BY <1>4 DEF Matches
  <2>3. meta.version + 1 \in 0..MaxVersion BY NextVersion DEF IdentityWrite
  <2>4. meta'.version = meta.version + 1 /\ meta'.status = proc[p].meta.status /\ meta'.active = proc[p].meta.active
    BY <1>2, <2>1, <2>2 DEF Meta
  <2>5. meta' \in Meta BY <1>2, <2>1, <2>2, <2>3 DEF Meta
  <2>6. Bound' BY <1>2, <2>4 DEF Bound, Uploadable, Onboardable
  <2>7. births = 1 => Serves'
    <3>1. births = 1 => meta'.active = meta.active BY <1>1, <1>4, <2>2, <2>4, ReadNow
    <3> QED BY <2>2, <3>1 DEF Serves, ProjectInv, FirstLife, IdentityWrite
  <2> QED BY <1>1, <2>2, <2>4, <2>5, <2>6, <2>7, RowTyped, RowMoves DEF IdentityWrite
<1> QED BY <1>3, <1>4

LEMMA ArchiveWriteStep == ASSUME ProjectInv, NEW p \in Proc, ArchiveWrite(p) PROVE ProjectInv' /\ Kept
<1>1. Done(p) /\ proc[p].pc = "archive" /\ births # 0 BY Born DEF ArchiveWrite, At
<1>2. meta \in Meta BY RowTyped
<1>3. CASE ~Matches(p) BY <1>1, <1>3, RowTyped, OnlyRests DEF ArchiveWrite
<1>4. CASE Matches(p)
  <2>1. meta' = [meta EXCEPT !.archived = TRUE, !.version = proc[p].meta.version + 1]
    BY <1>4 DEF ArchiveWrite
  <2>2. proc[p].meta.version = meta.version /\ meta.live BY <1>4 DEF Matches
  <2>3. meta.version + 1 \in 0..MaxVersion BY NextVersion DEF ArchiveWrite
  <2>4. /\ meta'.version = meta.version + 1 /\ meta'.status = meta.status /\ meta'.active = meta.active
        /\ meta'.trust = meta.trust /\ meta'.request = meta.request /\ meta'.identity = meta.identity
    BY <1>2, <2>1, <2>2 DEF Meta
  <2>5. meta' \in Meta BY <1>2, <2>1, <2>2, <2>3 DEF Meta
  <2>6. births = 1 => Serves' /\ Bound'
    BY <2>2, <2>4 DEF Bound, Serves, ProjectInv, FirstLife, ArchiveWrite
  <2> QED BY <1>1, <2>2, <2>4, <2>5, <2>6, RowTyped, RowMoves DEF ArchiveWrite
<1> QED BY <1>3, <1>4

LEMMA RegisterStep == ASSUME ProjectInv, NEW p \in Proc, Register(p) PROVE ProjectInv' /\ Kept
<1>1. Done(p) /\ proc[p].pc = "register" BY DEF Register, At
<1>2. CASE meta.live
  <2>1. births # 0 BY <1>2 DEF ProjectInv, Unborn
  <2> QED BY <1>1, <1>2, <2>1, RowTyped, OnlyRests DEF Register
<1>3. CASE ~meta.live
  <2>1. PICK id \in Identity \cup {None} :
           meta' = [NoMeta EXCEPT !.live = TRUE, !.version = 1, !.identity = id] /\ births' = births + 1
    BY <1>3 DEF Register
  <2>2. meta' \in Meta /\ meta'.status = "draft" /\ meta'.active = 0 BY <2>1, Values
  <2>3. UNCHANGED <<mix, sat, staged, files, retired, offer, vouched, crashes>> BY DEF Register
  <2>4. /\ proc' \in [Proc -> Handler] /\ proc'[p] = Idle /\ \A q \in Proc : q # p => proc'[q] = proc[q]
        /\ \A q \in Proc : Checked(proc'[q])
    BY <1>1, Rests
  <2>5. births \in Nat BY DEF ProjectInv, ProjectTypeOK
  <2>6. ProjectTypeOK' BY <2>1, <2>2, <2>3, <2>4, <2>5 DEF ProjectInv, ProjectTypeOK
  <2>7. \A q \in Proc : Checked(proc[q])' BY <2>4 DEF Checked, Apt
  <2>8. \A i \in Proposal : Offered(offer[i])' BY <2>3 DEF ProjectInv, Offered, Apt
  <2>9. Unborn' BY <2>1, <2>5 DEF Unborn
  <2>10. ASSUME births = 0 PROVE FirstLife'
    <3>1. /\ \A q \in Proc : proc[q].pc \in {"idle", "register"}
          /\ \A i \in Proposal : offer[i].state # "open"
          /\ \A v \in Data : staged[v] = None /\ files[v] = None
      BY <2>10 DEF ProjectInv, Unborn
    <3>2. \A q \in Proc : proc'[q].pc \in {"idle", "register"} BY <2>4, <3>1, Values
    <3>3. \A q \in Proc : Lives(proc[q])' BY <3>2 DEF Lives
    <3>4. \A i \in Proposal : Stands(offer[i])' BY <2>3, <3>1 DEF Stands
    <3>5. Apart' BY <3>2 DEF Apart
    <3>6. Whole' BY <2>3, <3>1 DEF Whole
    <3>7. Serves' /\ Bound' BY <2>2 DEF Serves, Bound, Uploadable
    <3> QED BY <3>3, <3>4, <3>5, <3>6, <3>7 DEF FirstLife
  <2>11. FirstLife' BY <2>1, <2>5, <2>10 DEF FirstLife
  <2>12. Kept BY <1>3 DEF Kept
  <2> QED BY <2>6, <2>7, <2>8, <2>9, <2>11, <2>12 DEF ProjectInv
<1> QED BY <1>2, <1>3

-----------------------------------------------------------------------------
(* What two admins decide.                                                 *)

LEMMA ProposeWriteStep == ASSUME ProjectInv, NEW p \in Proc, ProposeWrite(p) PROVE ProjectInv' /\ Kept
<1>1. Done(p) /\ proc[p].pc = "propose" /\ births # 0 BY Born DEF ProposeWrite, At
<1>2. proc[p] \in Handler /\ Checked(proc[p]) BY RowTyped
<1>0. PICK o : o = [state |-> "open", kind |-> proc[p].want, seen |-> proc[p].meta, data |-> proc[p].data]
  OBVIOUS
<1>3. PICK i \in Proposal : offer' = [offer EXCEPT ![i] = o] BY <1>0 DEF ProposeWrite
<1>4. o \in Offer /\ o.kind = proc[p].want /\ o.seen = proc[p].meta /\ o.data = proc[p].data
  BY <1>1, <1>2, <1>0 DEF Offer, Handler, Checked
<1>5. offer' \in [Proposal -> Offer] /\ offer'[i] = o /\ \A j \in Proposal : j # i => offer'[j] = offer[j]
  BY <1>3, <1>4, RowTyped
<1>6. UNCHANGED <<mix, meta, sat, staged, files, retired, births, vouched, crashes>>
  BY DEF ProposeWrite, partition
<1>7. /\ proc' \in [Proc -> Handler] /\ proc'[p] = Idle /\ \A q \in Proc : q # p => proc'[q] = proc[q]
      /\ \A q \in Proc : Checked(proc'[q])
  BY <1>1, Rests
<1>8. ProjectTypeOK' BY <1>5, <1>6, <1>7 DEF ProjectInv, ProjectTypeOK
<1>9. \A q \in Proc : Checked(proc[q])' BY <1>7 DEF Checked, Apt
<1>10. Offered(o) BY <1>1, <1>2, <1>4 DEF Offered, Checked
<1>11. \A j \in Proposal : Offered(offer[j])' BY <1>5, <1>10 DEF ProjectInv, Offered, Apt
<1>12. Unborn' BY <1>1, <1>6 DEF Unborn
<1>13. ASSUME births = 1, meta.live PROVE FirstLife'
  <2>1. Lives(Idle) BY Values, AtRest
  <2>2. \A q \in Proc : Lives(proc[q])' BY <1>6, <1>7, <1>13, <2>1 DEF ProjectInv, FirstLife, Lives, Earlier
  <2>3. Stands(o) BY <1>1, <1>4, <1>13 DEF ProjectInv, FirstLife, Lives, Stands
  <2>4. \A j \in Proposal : Stands(offer[j])'
    BY <1>5, <1>6, <1>13, <2>3 DEF ProjectInv, FirstLife, Stands, Earlier
  <2>5. Apart' BY <1>7, <1>13, Values DEF ProjectInv, FirstLife, Apart
  <2>6. (Whole /\ Serves /\ Bound)' BY <1>6, <1>13 DEF ProjectInv, FirstLife, Whole, Serves, Bound
  <2> QED BY <2>2, <2>4, <2>5, <2>6 DEF FirstLife
<1>14. FirstLife' BY <1>6, <1>13 DEF FirstLife
<1>15. Kept BY <1>6 DEF Kept
<1> QED BY <1>8, <1>9, <1>11, <1>12, <1>14, <1>15 DEF ProjectInv

\* A proposal that is over asks nothing any more.
LEMMA Closed ==
    ASSUME ProjectInv, NEW i \in Proposal, offer' = [offer EXCEPT ![i].state = "over"]
    PROVE  /\ offer' \in [Proposal -> Offer] /\ offer'[i].state = "over"
           /\ \A j \in Proposal : offer'[j] = offer[j] \/ offer'[j].state # "open"
<1>1. offer \in [Proposal -> Offer] BY DEF ProjectInv, ProjectTypeOK
<1>2. PICK o : o = [offer[i] EXCEPT !.state = "over"] OBVIOUS
<1>3. o \in Offer /\ o.state = "over" BY <1>1, <1>2 DEF Offer
<1>4. offer' = [offer EXCEPT ![i] = o] BY <1>2
<1> QED BY <1>1, <1>3, <1>4

LEMMA WithdrawStep == ASSUME ProjectInv, Withdraw PROVE ProjectInv' /\ Kept
<1>1. PICK i \in Proposal : offer' = [offer EXCEPT ![i].state = "over"] BY DEF Withdraw
<1>2. /\ offer' \in [Proposal -> Offer]
      /\ \A j \in Proposal : offer'[j] = offer[j] \/ offer'[j].state # "open"
  BY <1>1, Closed
<1>3. UNCHANGED <<mix, meta, sat, staged, files, retired, proc, births, vouched, crashes>>
  BY DEF Withdraw, partition
<1>4. ProjectTypeOK' BY <1>2, <1>3 DEF ProjectInv, ProjectTypeOK
<1>5. \A q \in Proc : Checked(proc[q])' BY <1>3 DEF ProjectInv, Checked, Apt
<1>6. \A j \in Proposal : Offered(offer[j])' BY <1>2 DEF ProjectInv, Offered, Apt
<1>7. Unborn' BY <1>2, <1>3 DEF ProjectInv, Unborn
<1>8. ASSUME births = 1, meta.live PROVE FirstLife'
  <2>1. \A q \in Proc : Lives(proc[q])' BY <1>3, <1>8 DEF ProjectInv, FirstLife, Lives, Earlier
  <2>2. \A j \in Proposal : Stands(offer[j])' BY <1>2, <1>3, <1>8 DEF ProjectInv, FirstLife, Stands, Earlier
  <2>3. (Apart /\ Whole /\ Serves /\ Bound)'
    BY <1>3, <1>8 DEF ProjectInv, FirstLife, Apart, Whole, Serves, Bound
  <2> QED BY <2>1, <2>2, <2>3 DEF FirstLife
<1>9. FirstLife' BY <1>3, <1>8 DEF FirstLife
<1>10. Kept BY <1>3 DEF Kept
<1> QED BY <1>4, <1>5, <1>6, <1>7, <1>9, <1>10 DEF ProjectInv

\* The row after a trust, an activation or an end of the archive.
LEMMA AppliedRow ==
    ASSUME ProjectInv, NEW i \in Proposal, offer[i].state = "open", meta.live,
           meta.version = offer[i].seen.version, meta.version < MaxVersion,
           offer[i].kind # "deregister", meta' = Applied(offer[i]),
           vouched' = IF offer[i].kind = "trust" THEN offer[i].seen ELSE vouched
    PROVE  /\ meta' \in Meta /\ meta'.version = meta.version + 1
           /\ births = 1 /\ files' = files => Serves' /\ Bound'
<1>1. PICK o : o = offer[i] OBVIOUS
<1>2. o \in Offer /\ o.seen \in Meta /\ meta \in Meta /\ Apt(o.kind, o.seen, o.data)
  BY <1>1 DEF ProjectInv, ProjectTypeOK, Offer, Offered
<1>3. meta.version + 1 \in 0..MaxVersion BY NextVersion
<1>4. meta' = Applied(o) /\ o.seen.version + 1 \in 0..MaxVersion BY <1>1, <1>3
<1>10. o.seen.request \in Artifact \cup {None} /\ o.data \in 0..MaxData BY <1>2 DEF Meta, Offer
<1>5. births = 1 => o.seen = meta /\ (o.kind = "activate" => files[o.data] # None) /\ Serves /\ Bound
  BY <1>1, ReadNow DEF ProjectInv, FirstLife, Stands
<1>6. CASE o.kind = "trust"
  <2>1. meta' = [meta EXCEPT !.status = "trusted", !.trust = o.seen.request, !.version = o.seen.version + 1]
    BY <1>4, <1>6 DEF Applied
  <2>2. meta' \in Meta BY <1>2, <1>4, <1>10, <2>1 DEF Meta, Rung
  <2>3. /\ meta'.version = meta.version + 1 /\ meta'.active = meta.active /\ meta'.trust = o.seen.request
        /\ meta'.request = meta.request /\ meta'.identity = meta.identity
    BY <1>1, <1>2, <2>1 DEF Meta
  <2>4. vouched' = o.seen BY <1>1, <1>6
  <2> QED BY <1>5, <2>2, <2>3, <2>4 DEF Serves, Bound
<1>7. CASE o.kind = "activate"
  <2>1. meta' = [meta EXCEPT !.active = o.data, !.version = o.seen.version + 1,
                             !.status = IF o.seen.status = "trusted" THEN "ready" ELSE @]
    BY <1>4, <1>7 DEF Applied
  <2>2. meta' \in Meta BY <1>2, <1>4, <1>10, <2>1 DEF Meta, Rung
  <2>3. /\ meta'.version = meta.version + 1 /\ meta'.active = o.data /\ meta'.trust = meta.trust
        /\ meta'.request = meta.request /\ meta'.identity = meta.identity
    BY <1>1, <1>2, <2>1 DEF Meta
  <2>4. vouched' = vouched BY <1>1, <1>7
  <2>5. births = 1 => meta.status \in Uploadable BY <1>2, <1>5, <1>7 DEF Apt
  <2> QED BY <1>5, <1>7, <2>2, <2>3, <2>4, <2>5 DEF Serves, Bound
<1>8. CASE o.kind = "unarchive"
  <2>1. meta' = [meta EXCEPT !.archived = FALSE, !.version = o.seen.version + 1]
    BY <1>4, <1>8 DEF Applied
  <2>2. meta' \in Meta BY <1>2, <1>4, <2>1 DEF Meta
  <2>3. /\ meta'.version = meta.version + 1 /\ meta'.active = meta.active /\ meta'.trust = meta.trust
        /\ meta'.request = meta.request /\ meta'.identity = meta.identity /\ meta'.status = meta.status
    BY <1>1, <1>2, <2>1 DEF Meta
  <2>4. vouched' = vouched BY <1>1, <1>8
  <2> QED BY <1>5, <2>2, <2>3, <2>4 DEF Serves, Bound
<1>9. o.kind \in {"trust", "activate", "unarchive"} BY <1>1, <1>2 DEF Offer, Kind
<1> QED BY <1>6, <1>7, <1>8, <1>9

LEMMA AckStep == ASSUME ProjectInv, NEW p \in Proc, Ack(p) PROVE ProjectInv' /\ Kept
<1>1. PICK i \in Proposal :
         /\ offer[i].state = "open" /\ meta.version = offer[i].seen.version
         /\ meta' = Applied(offer[i])
         /\ vouched' = IF offer[i].kind = "trust" THEN offer[i].seen ELSE vouched
         /\ offer' = [offer EXCEPT ![i].state = "over"]
         /\ Goto(p, IF offer[i].kind = "deregister" THEN [Idle EXCEPT !.pc = "sweep"] ELSE Idle)
  BY DEF Ack
<1>2. meta.live /\ meta.version < MaxVersion /\ UNCHANGED <<mix, sat, staged, files, retired, births, crashes>>
  BY DEF Ack
<1>3. births # 0 BY <1>2 DEF ProjectInv, Unborn
<1>4. /\ offer' \in [Proposal -> Offer]
      /\ \A j \in Proposal : offer'[j] = offer[j] \/ offer'[j].state # "open"
  BY <1>1, Closed
<1>5. vouched' \in Meta
  <2>1. offer[i].seen \in Meta BY RowTyped DEF Offer
  <2> QED BY <1>1, <2>1, RowTyped
<1>6. CASE offer[i].kind # "deregister"
  <2>1. Done(p) BY <1>1, <1>6 DEF Done
  <2>2. /\ meta' \in Meta /\ meta'.version = meta.version + 1
        /\ births = 1 => Serves' /\ Bound'
    BY <1>1, <1>2, <1>6, AppliedRow
  <2> QED BY <1>2, <1>3, <1>4, <1>5, <2>1, <2>2, RowMoves
<1>7. CASE offer[i].kind = "deregister"
  <2>1. meta' = NoMeta BY <1>1, <1>7 DEF Applied
  <2>2. PICK h : h = [Idle EXCEPT !.pc = "sweep"] OBVIOUS
  <2>3. h \in Handler /\ h.pc = "sweep" BY <2>2, Values DEF Handler, Pcs
  <2>4. Goto(p, h) BY <1>1, <1>7, <2>2
  <2>5. proc' \in [Proc -> Handler] /\ proc'[p] = h /\ \A q \in Proc : q # p => proc'[q] = proc[q]
    BY <2>3, <2>4 DEF Goto, ProjectInv, ProjectTypeOK
  <2>6. ProjectTypeOK' BY <1>2, <1>4, <1>5, <2>1, <2>5, Values DEF ProjectInv, ProjectTypeOK
  <2>7. Checked(h) BY <2>3 DEF Checked
  <2>8. \A q \in Proc : Checked(proc[q])' BY <2>5, <2>7 DEF ProjectInv, Checked, Apt
  <2>9. \A j \in Proposal : Offered(offer[j])' BY <1>4 DEF ProjectInv, Offered, Apt
  <2>10. Unborn' /\ FirstLife' BY <1>2, <1>3, <2>1, Values DEF Unborn, FirstLife
  <2>11. Kept BY <1>2 DEF Kept
  <2> QED BY <2>6, <2>8, <2>9, <2>10, <2>11 DEF ProjectInv
<1> QED BY <1>6, <1>7

-----------------------------------------------------------------------------
(* The sweep, which does not run in the id's first life.                   *)

\* One request moves and the row, if it is written, is deleted.
LEMMA SweepMoves ==
    ASSUME ProjectInv, NEW p \in Proc, NEW h \in Handler, proc[p].pc = "sweeping", Goto(p, h),
           h.pc \in {"idle", "sweeping"}, meta' = meta \/ meta' = NoMeta, sat' \subseteq Satellite,
           staged' \in [Data -> Bundle \cup {None}], files' \in [Data -> Bundle \cup {None}],
           retired' \in BOOLEAN, UNCHANGED <<mix, offer, births, vouched, crashes>>
    PROVE  ProjectInv' /\ Kept
<1>1. proc' \in [Proc -> Handler] /\ proc'[p] = h /\ \A q \in Proc : q # p => proc'[q] = proc[q]
  BY DEF Goto, ProjectInv, ProjectTypeOK
<1>2. ProjectTypeOK' BY <1>1, Values DEF ProjectInv, ProjectTypeOK
<1>3. Checked(h) BY DEF Checked
<1>4. \A q \in Proc : Checked(proc[q])' BY <1>1, <1>3 DEF ProjectInv, Checked, Apt
<1>5. \A j \in Proposal : Offered(offer[j])' BY DEF ProjectInv, Offered, Apt
<1>6. ~(births = 1 /\ meta.live) BY DEF ProjectInv, FirstLife, Lives
<1>7. births # 0 BY Born
<1>8. meta'.live => meta.live BY Values
<1> QED BY <1>2, <1>4, <1>5, <1>6, <1>7, <1>8, Beyond

LEMMA SweepingTyped ==
    ASSUME ProjectInv, NEW p \in Proc, proc[p].pc = "sweeping"
    PROVE  /\ proc[p] \in Handler
           /\ \A s \in SUBSET Satellite : [proc[p] EXCEPT !.sat = s] \in Handler
                                        /\ [proc[p] EXCEPT !.sat = s].pc = "sweeping"
           /\ \A r \in SUBSET Data : [proc[p] EXCEPT !.rows = r] \in Handler
                                   /\ [proc[p] EXCEPT !.rows = r].pc = "sweeping"
           /\ [proc[p] EXCEPT !.row = FALSE] \in Handler /\ [proc[p] EXCEPT !.row = FALSE].pc = "sweeping"
<1>1. proc[p] \in Handler BY RowTyped
<1> QED BY <1>1 DEF Handler

LEMMA SweepCredentialStep == ASSUME ProjectInv, NEW p \in Proc, SweepCredential(p) PROVE ProjectInv' /\ Kept
<1>1. PICK s \in proc[p].sat : sat' = sat \ {s} /\ Goto(p, [proc[p] EXCEPT !.sat = proc[p].sat \ {s}])
  BY DEF SweepCredential
<1>2. proc[p].pc = "sweeping" BY DEF SweepCredential, At
<1>3. proc[p].sat \ {s} \in SUBSET Satellite /\ sat' \subseteq Satellite BY <1>1, RowTyped DEF Handler
<1>4. PICK h : h = [proc[p] EXCEPT !.sat = proc[p].sat \ {s}] OBVIOUS
<1>5. h \in Handler /\ h.pc = "sweeping" BY <1>2, <1>3, <1>4, SweepingTyped
<1> QED BY <1>1, <1>2, <1>3, <1>4, <1>5, SweepMoves DEF SweepCredential, ProjectInv, ProjectTypeOK

LEMMA SweepDataStep == ASSUME ProjectInv, NEW p \in Proc, SweepData(p) PROVE ProjectInv' /\ Kept
<1>1. PICK v \in proc[p].rows : staged' = [staged EXCEPT ![v] = None]
                               /\ Goto(p, [proc[p] EXCEPT !.rows = proc[p].rows \ {v}])
  BY DEF SweepData
<1>2. proc[p].pc = "sweeping" BY DEF SweepData, At
<1>3. proc[p].rows \ {v} \in SUBSET Data BY <1>1, RowTyped DEF Handler
<1>4. PICK h : h = [proc[p] EXCEPT !.rows = proc[p].rows \ {v}] OBVIOUS
<1>5. h \in Handler /\ h.pc = "sweeping" BY <1>2, <1>3, <1>4, SweepingTyped
<1>6. staged' \in [Data -> Bundle \cup {None}] BY <1>1 DEF ProjectInv, ProjectTypeOK
<1> QED BY <1>1, <1>2, <1>4, <1>5, <1>6, SweepMoves DEF SweepData, ProjectInv, ProjectTypeOK

LEMMA SweepRowStep == ASSUME ProjectInv, NEW p \in Proc, SweepRow(p) PROVE ProjectInv' /\ Kept
<1>1. proc[p].pc = "sweeping" BY DEF SweepRow, At
<1>2. PICK h : h = [proc[p] EXCEPT !.row = FALSE] OBVIOUS
<1>3. h \in Handler /\ h.pc = "sweeping" BY <1>1, <1>2, SweepingTyped
<1> QED BY <1>1, <1>2, <1>3, SweepMoves DEF SweepRow, ProjectInv, ProjectTypeOK

LEMMA RetireStep == ASSUME ProjectInv, NEW p \in Proc, Retire(p) PROVE ProjectInv' /\ Kept
<1>1. proc[p].pc = "sweeping" BY DEF Retire, At
<1>2. Idle \in Handler /\ Idle.pc = "idle" BY Values
<1>3. files' \in [Data -> Bundle \cup {None}] BY DEF Retire
<1> QED BY <1>1, <1>2, <1>3, SweepMoves DEF Retire, Done, ProjectInv, ProjectTypeOK

-----------------------------------------------------------------------------
(* The upload of a data version.                                           *)

LEMMA Uploads ==
    ASSUME ProjectInv, NEW p \in Proc, proc[p].pc \in {"stage", "files", "unstage"}
    PROVE  /\ proc[p] \in Handler /\ proc[p].want \in Bundle /\ proc[p].data \in Data /\ births # 0
           /\ proc[p].want # None
           /\ staged \in [Data -> Bundle \cup {None}] /\ files \in [Data -> Bundle \cup {None}]
<1>1. Checked(proc[p]) /\ proc[p] \in Handler BY RowTyped
<1> QED BY <1>1, Born, ProjectsConstants DEF Checked, ProjectInv, ProjectTypeOK

LEMMA UploadStageStep == ASSUME ProjectInv, NEW p \in Proc, UploadStage(p) PROVE ProjectInv' /\ Kept
<1>1. proc[p].pc = "stage" BY DEF UploadStage, At
<1>2. /\ proc[p] \in Handler /\ proc[p].want \in Bundle /\ proc[p].data \in Data /\ births # 0
      /\ proc[p].want # None
      /\ staged \in [Data -> Bundle \cup {None}] /\ files \in [Data -> Bundle \cup {None}]
  BY <1>1, Uploads
<1>3. UNCHANGED <<mix, meta, sat, files, retired, offer, births, vouched, crashes>> BY DEF UploadStage
<1>4. CASE staged[proc[p].data] # None
  <2>1. PICK h : h = IF proc[p].again THEN Idle ELSE [proc[p] EXCEPT !.pc = "upload", !.again = TRUE]
    OBVIOUS
  <2>2. h \in Handler /\ h.pc \in {"idle", "upload"} /\ (h.pc = "upload" => h.want = proc[p].want)
    <3>1. CASE proc[p].again BY <2>1, <3>1, Values
    <3>2. CASE ~proc[p].again BY <1>2, <2>1, <3>2 DEF Handler, Pcs
    <3> QED BY <3>1, <3>2
  <2>3. Checked(h) /\ Lives(h) BY <1>2, <2>2 DEF Checked, Lives
  <2>4. Goto(p, h) /\ OnlyHandlers BY <1>3, <1>4, <2>1 DEF UploadStage, OnlyHandlers, partition
  <2> QED BY <1>2, <2>2, <2>3, <2>4, OneMoves
<1>5. CASE staged[proc[p].data] = None
  <2>1. PICK h : h = [proc[p] EXCEPT !.pc = "files"] OBVIOUS
  <2>2. h.pc = "files" /\ h.want = proc[p].want /\ h.data = proc[p].data BY <1>2, <2>1 DEF Handler
  <2>3. h \in Handler BY <1>2, <2>1 DEF Handler, Pcs
  <2>4. Goto(p, h) /\ staged' = [staged EXCEPT ![proc[p].data] = proc[p].want]
    BY <1>5, <2>1 DEF UploadStage
  <2>5. proc' \in [Proc -> Handler] /\ proc'[p] = h /\ \A q \in Proc : q # p => proc'[q] = proc[q]
    BY <2>3, <2>4 DEF Goto, ProjectInv, ProjectTypeOK
  <2>6. /\ staged' \in [Data -> Bundle \cup {None}] /\ staged'[h.data] = h.want
        /\ \A v \in Data : staged[v] # None => staged'[v] = staged[v]
    BY <1>2, <1>5, <2>2, <2>4
  <2>7. ProjectTypeOK' BY <1>3, <2>5, <2>6 DEF ProjectInv, ProjectTypeOK
  <2>8. Checked(h) BY <1>2, <2>2 DEF Checked
  <2>9. \A q \in Proc : Checked(proc[q])' BY <2>5, <2>8 DEF ProjectInv, Checked, Apt
  <2>10. \A i \in Proposal : Offered(offer[i])' BY <1>3 DEF ProjectInv, Offered, Apt
  <2>11. Unborn' BY <1>2, <1>3 DEF Unborn
  <2>12. ASSUME births = 1, meta.live PROVE FirstLife'
    <3>1. \A q \in Proc : Lives(proc[q]) /\ Checked(proc[q]) BY <2>12 DEF ProjectInv, FirstLife
    <3>2. Whole /\ Apart /\ Serves /\ Bound /\ \A i \in Proposal : Stands(offer[i])
      BY <2>12 DEF ProjectInv, FirstLife
    <3>3. files[h.data] = None BY <1>2, <1>5, <2>2, <3>2 DEF Whole
    <3>4. \A q \in Proc : proc[q].pc \in {"files", "unstage"} =>
             proc[q].data \in Data /\ staged[proc[q].data] # None
      BY <3>1, ProjectsConstants DEF Lives, Checked
    <3>5. ASSUME NEW q \in Proc PROVE Lives(proc[q])'
      <4>1. CASE q = p BY <1>3, <2>2, <2>5, <2>6, <3>3, <4>1 DEF Lives
      <4>2. CASE q # p BY <1>3, <2>5, <2>6, <3>1, <3>4, <4>2 DEF Lives, Earlier
      <4> QED BY <4>1, <4>2
    <3>6. \A i \in Proposal : Stands(offer[i])' BY <1>3, <3>2 DEF Stands, Earlier
    <3>7. Apart' BY <1>5, <2>2, <2>5, <3>2, <3>4 DEF Apart
    <3>8. Whole' BY <1>3, <2>6, <3>2 DEF Whole
    <3>9. (Serves /\ Bound)' BY <1>3, <3>2 DEF Serves, Bound
    <3> QED BY <3>5, <3>6, <3>7, <3>8, <3>9 DEF FirstLife
  <2>13. FirstLife' BY <1>3, <2>12 DEF FirstLife
  <2>14. Kept BY <1>3, <2>6 DEF Kept
  <2> QED BY <2>7, <2>9, <2>10, <2>11, <2>13, <2>14 DEF ProjectInv
<1> QED BY <1>4, <1>5

LEMMA UploadFilesStep == ASSUME ProjectInv, NEW p \in Proc, UploadFiles(p) PROVE ProjectInv' /\ Kept
<1>1. Done(p) /\ proc[p].pc = "files" BY DEF UploadFiles, At
<1>2. /\ proc[p].want \in Bundle /\ proc[p].data \in Data /\ births # 0 /\ proc[p].want # None
      /\ files \in [Data -> Bundle \cup {None}]
  BY <1>1, Uploads
<1>3. /\ files' = [files EXCEPT ![proc[p].data] = proc[p].want]
      /\ UNCHANGED <<mix, meta, sat, staged, retired, offer, births, vouched, crashes>>
  BY DEF UploadFiles
<1>4. /\ files' \in [Data -> Bundle \cup {None}] /\ files'[proc[p].data] = proc[p].want
      /\ \A v \in Data : v # proc[p].data => files'[v] = files[v]
  BY <1>2, <1>3
<1>5. /\ proc' \in [Proc -> Handler] /\ proc'[p] = Idle /\ \A q \in Proc : q # p => proc'[q] = proc[q]
      /\ \A q \in Proc : Checked(proc'[q])
  BY <1>1, Rests
<1>6. ProjectTypeOK' BY <1>3, <1>4, <1>5 DEF ProjectInv, ProjectTypeOK
<1>7. \A q \in Proc : Checked(proc[q])' BY <1>5 DEF Checked, Apt
<1>8. \A i \in Proposal : Offered(offer[i])' BY <1>3 DEF ProjectInv, Offered, Apt
<1>9. Unborn' BY <1>2, <1>3 DEF Unborn
<1>10. ASSUME births = 1, meta.live
       PROVE  FirstLife' /\ files[proc[p].data] = None
  <2>1. \A q \in Proc : Lives(proc[q]) /\ Checked(proc[q]) BY <1>10 DEF ProjectInv, FirstLife
  <2>2. Whole /\ Apart /\ Serves /\ Bound /\ \A i \in Proposal : Stands(offer[i]) /\ Offered(offer[i])
    BY <1>10 DEF ProjectInv, FirstLife
  <2>3. staged[proc[p].data] = proc[p].want /\ files[proc[p].data] = None BY <1>1, <2>1 DEF Lives
  <2>4. \A v \in Data : files[v] # None => files'[v] # None BY <1>2, <1>4
  <2>5. ASSUME NEW q \in Proc PROVE Lives(proc[q])'
    <3>1. CASE q = p BY <1>5, <3>1, Values DEF Lives
    <3>2. CASE q # p
      <4>1. proc'[q] = proc[q] BY <1>5, <3>2
      <4>2. proc[q].pc \in {"request", "identity", "archive", "propose"} => Earlier(proc[q].meta)'
        BY <1>3, <2>1, <4>1 DEF Lives, Earlier
      <4>3. proc[q].pc \in {"files", "unstage"} => staged'[proc[q].data] = proc[q].want /\ files'[proc[q].data] = None
        <5>1. proc[q].pc \in {"files", "unstage"} => proc[q].data \in Data /\ proc[q].data # proc[p].data
          BY <1>1, <2>1, <2>2, <3>2 DEF Checked, Apart
        <5> QED BY <1>3, <1>4, <2>1, <5>1 DEF Lives
      <4>4. proc[q].pc = "propose" /\ proc[q].want = "activate" => files'[proc[q].data] # None
        BY <2>1, <2>4 DEF Lives, Checked, Apt
      <4> QED BY <2>1, <4>1, <4>2, <4>3, <4>4 DEF Lives
    <3> QED BY <3>1, <3>2
  <2>6. ASSUME NEW i \in Proposal PROVE Stands(offer[i])'
    <3>1. Stands(offer[i]) /\ Offered(offer[i]) BY <2>2
    <3> QED BY <1>3, <2>4, <3>1 DEF Stands, Offered, Apt, Earlier
  <2>7. Apart' BY <1>5, <2>2, Values DEF Apart
  <2>8. Whole' BY <1>3, <1>4, <2>2, <2>3 DEF Whole
  <2>9. Serves'
    <3>1. meta.active > 0 => meta.active \in Data BY ProjectsConstants DEF ProjectInv, ProjectTypeOK, Meta, Data
    <3> QED BY <1>3, <2>2, <2>4, <3>1 DEF Serves
  <2>10. Bound' BY <1>3, <2>2 DEF Bound
  <2> QED BY <2>3, <2>5, <2>6, <2>7, <2>8, <2>9, <2>10 DEF FirstLife
<1>11. FirstLife' BY <1>3, <1>10 DEF FirstLife
<1>12. Kept BY <1>3, <1>4, <1>10 DEF Kept
<1> QED BY <1>6, <1>7, <1>8, <1>9, <1>11, <1>12 DEF ProjectInv

LEMMA UnstageStep == ASSUME ProjectInv, NEW p \in Proc, Unstage(p) PROVE ProjectInv' /\ Kept
<1>1. Done(p) /\ proc[p].pc = "unstage" BY DEF Unstage, At
<1>2. /\ proc[p].want \in Bundle /\ proc[p].data \in Data /\ births # 0
      /\ staged \in [Data -> Bundle \cup {None}]
  BY <1>1, Uploads
<1>3. /\ staged' = [staged EXCEPT ![proc[p].data] = None]
      /\ UNCHANGED <<mix, meta, sat, files, retired, offer, births, vouched, crashes>>
  BY DEF Unstage
<1>4. /\ staged' \in [Data -> Bundle \cup {None}]
      /\ \A v \in Data : v # proc[p].data => staged'[v] = staged[v]
  BY <1>2, <1>3
<1>5. /\ proc' \in [Proc -> Handler] /\ proc'[p] = Idle /\ \A q \in Proc : q # p => proc'[q] = proc[q]
      /\ \A q \in Proc : Checked(proc'[q])
  BY <1>1, Rests
<1>6. ProjectTypeOK' BY <1>3, <1>4, <1>5 DEF ProjectInv, ProjectTypeOK
<1>7. \A q \in Proc : Checked(proc[q])' BY <1>5 DEF Checked, Apt
<1>8. \A i \in Proposal : Offered(offer[i])' BY <1>3 DEF ProjectInv, Offered, Apt
<1>9. Unborn' BY <1>2, <1>3 DEF Unborn
<1>10. ASSUME births = 1, meta.live
       PROVE  FirstLife' /\ files[proc[p].data] = None
  <2>1. \A q \in Proc : Lives(proc[q]) /\ Checked(proc[q]) BY <1>10 DEF ProjectInv, FirstLife
  <2>2. Whole /\ Apart /\ Serves /\ Bound /\ \A i \in Proposal : Stands(offer[i])
    BY <1>10 DEF ProjectInv, FirstLife
  <2>3. files[proc[p].data] = None BY <1>1, <2>1 DEF Lives
  <2>4. ASSUME NEW q \in Proc PROVE Lives(proc[q])'
    <3>1. CASE q = p BY <1>5, <3>1, Values DEF Lives
    <3>2. CASE q # p
      <4>1. proc'[q] = proc[q] BY <1>5, <3>2
      <4>2. proc[q].pc \in {"files", "unstage"} => proc[q].data \in Data /\ proc[q].data # proc[p].data
        BY <1>1, <2>1, <2>2, <3>2 DEF Checked, Apart
      <4> QED BY <1>3, <1>4, <2>1, <4>1, <4>2 DEF Lives, Earlier
    <3> QED BY <3>1, <3>2
  <2>5. \A i \in Proposal : Stands(offer[i])' BY <1>3, <2>2 DEF Stands, Earlier
  <2>6. Apart' BY <1>5, <2>2, Values DEF Apart
  <2>7. Whole' BY <1>3, <1>4, <2>2, <2>3 DEF Whole
  <2>8. (Serves /\ Bound)' BY <1>3, <2>2 DEF Serves, Bound
  <2> QED BY <2>3, <2>4, <2>5, <2>6, <2>7, <2>8 DEF FirstLife
<1>11. FirstLife' BY <1>3, <1>10 DEF FirstLife
<1>12. Kept BY <1>3, <1>4, <1>10 DEF Kept
<1> QED BY <1>6, <1>7, <1>8, <1>9, <1>11, <1>12 DEF ProjectInv

-----------------------------------------------------------------------------
LEMMA ServerRestartStep == ASSUME ProjectInv, ServerRestart PROVE ProjectInv' /\ Kept
<1>1. proc' \in [Proc -> Handler] /\ \A q \in Proc : proc'[q] = Idle BY Values DEF ServerRestart
<1>2. UNCHANGED <<mix, meta, sat, staged, files, retired, offer, births, vouched>>
  BY DEF ServerRestart, partition
<1>3. crashes' \in 0..MaxCrash BY ProjectsConstants DEF ServerRestart, ProjectInv, ProjectTypeOK
<1>4. ProjectTypeOK' BY <1>1, <1>2, <1>3 DEF ProjectInv, ProjectTypeOK
<1>5. \A q \in Proc : proc'[q].pc = "idle" BY <1>1, Values
<1>6. \A q \in Proc : Checked(proc[q])' /\ Lives(proc[q])' BY <1>5 DEF Checked, Lives
<1>7. \A i \in Proposal : Offered(offer[i])' BY <1>2 DEF ProjectInv, Offered, Apt
<1>8. Unborn' BY <1>2, <1>5 DEF ProjectInv, Unborn
<1>9. ASSUME births = 1, meta.live PROVE FirstLife'
  <2>1. \A i \in Proposal : Stands(offer[i])' BY <1>2, <1>9 DEF ProjectInv, FirstLife, Stands, Earlier
  <2>2. Apart' BY <1>5 DEF Apart
  <2>3. (Whole /\ Serves /\ Bound)' BY <1>2, <1>9 DEF ProjectInv, FirstLife, Whole, Serves, Bound
  <2> QED BY <1>6, <2>1, <2>2, <2>3 DEF FirstLife
<1>10. FirstLife' BY <1>2, <1>9 DEF FirstLife
<1>11. Kept BY <1>2 DEF Kept
<1> QED BY <1>4, <1>6, <1>7, <1>8, <1>10, <1>11 DEF ProjectInv

LEMMA InitProject == ProjectInit => ProjectInv
<1> SUFFICES ASSUME ProjectInit PROVE ProjectInv OBVIOUS
<1>1. /\ mix \in Mixes /\ meta = mix.meta /\ sat = mix.sat /\ vouched = meta
      /\ meta \in Meta /\ sat \subseteq Satellite /\ meta.active = 0
      /\ meta.status \in Uploadable => meta.trust = meta.request
  BY ProjectsStart DEF ProjectInit
<1>2. births \in Nat /\ (births = 0 => ~meta.live) BY <1>1 DEF ProjectInit
<1>3. proc \in [Proc -> Handler] /\ \A q \in Proc : proc[q].pc = "idle" BY Values DEF ProjectInit
<1>4. offer \in [Proposal -> Offer] /\ \A i \in Proposal : offer[i].state = "none"
  BY Values DEF ProjectInit
<1>5. /\ staged \in [Data -> Bundle \cup {None}] /\ files \in [Data -> Bundle \cup {None}]
      /\ \A v \in Data : staged[v] = None /\ files[v] = None
  BY DEF ProjectInit
<1>12. retired \in BOOLEAN BY DEF ProjectInit
<1>13. crashes \in 0..MaxCrash
  <2>1. crashes = 0 /\ MaxCrash \in Nat BY ProjectsConstants DEF ProjectInit
  <2> QED BY <2>1
<1>7. ProjectTypeOK BY <1>1, <1>2, <1>3, <1>4, <1>5, <1>12, <1>13 DEF ProjectTypeOK
<1>8. \A q \in Proc : Checked(proc[q]) /\ Lives(proc[q]) BY <1>3 DEF Checked, Lives
<1>9. \A i \in Proposal : Offered(offer[i]) /\ Stands(offer[i]) BY <1>4 DEF Offered, Stands
<1>10. Unborn BY <1>2, <1>3, <1>4, <1>5 DEF Unborn
<1>11. Apart /\ Whole /\ Serves /\ Bound BY <1>1, <1>3, <1>5 DEF Apart, Whole, Serves, Bound
<1> QED BY <1>7, <1>8, <1>9, <1>10, <1>11 DEF ProjectInv, FirstLife

LEMMA ProjectStutter == ASSUME ProjectInv, UNCHANGED projectVars PROVE ProjectInv' /\ Kept
<1>1. UNCHANGED <<mix, meta, sat, staged, files, retired, offer, proc, births, vouched, crashes>>
  BY DEF projectVars, partition
<1>2. ProjectTypeOK' BY <1>1 DEF ProjectInv, ProjectTypeOK
<1>3. \A q \in Proc : Checked(proc[q])' BY <1>1 DEF ProjectInv, Checked, Apt
<1>4. \A i \in Proposal : Offered(offer[i])' BY <1>1 DEF ProjectInv, Offered, Apt
<1>5. Unborn' BY <1>1 DEF ProjectInv, Unborn
<1>6. FirstLife' BY <1>1 DEF ProjectInv, FirstLife, Lives, Stands, Earlier, Apart, Whole, Serves, Bound
<1> QED BY <1>1, <1>2, <1>3, <1>4, <1>5, <1>6 DEF ProjectInv, Kept

LEMMA ProjectStep == ProjectInv /\ [ProjectNext]_projectVars => ProjectInv' /\ Kept
<1> SUFFICES ASSUME ProjectInv, [ProjectNext]_projectVars PROVE ProjectInv' /\ Kept OBVIOUS
<1>1. ASSUME NEW p \in Proc, Onboarding(p) PROVE ProjectInv' /\ Kept
  BY <1>1, RegisterReadStep, RegisterStep, CredentialReadStep, CredentialWriteStep, RequestReadStep,
     RequestWriteStep, IdentityReadStep, IdentityWriteStep, ArchiveReadStep, ArchiveWriteStep,
     ProposeReadStep, ProposeWriteStep, AckStep
     DEF Onboarding
<1>2. ASSUME NEW p \in Proc, Sweeping(p) PROVE ProjectInv' /\ Kept
  BY <1>2, SweepQueryStep, SweepCredentialStep, SweepDataStep, SweepRowStep, RetireStep DEF Sweeping
<1>3. ASSUME NEW p \in Proc, Uploading(p) PROVE ProjectInv' /\ Kept
  BY <1>3, UploadGateStep, UploadNumberStep, UploadStageStep, UploadFilesStep, UploadFailsStep, UnstageStep
     DEF Uploading
<1>4. CASE CredentialRemove \/ Withdraw \/ ServerRestart
  BY <1>4, CredentialRemoveStep, WithdrawStep, ServerRestartStep
<1>5. CASE UNCHANGED projectVars BY <1>5, ProjectStutter
<1> QED BY <1>1, <1>2, <1>3, <1>4, <1>5 DEF ProjectNext

\* The inductive invariant holds at every moment, for any number of requests,
\* proposals, bundles, versions and restarts.
THEOREM ProjectHolds == ProjectSpec => []ProjectInv
BY InitProject, ProjectStep, PTL DEF ProjectSpec

\* The registry row, its partition, the proposals and the requests keep their
\* form (store/schema.ts, ProjectItem).
THEOREM ProjectTypes == ProjectSpec => []ProjectTypeOK
<1>1. ProjectInv => ProjectTypeOK BY DEF ProjectInv
<1> QED BY <1>1, ProjectHolds, PTL

\* A trusted row binds the artifact and the identity two admins saw, whatever
\* was uploaded, confirmed, archived or decided between their looks (CONC-11,
\* the version conditions of routes/projects.ts and domain/projectsLifecycle.ts).
THEOREM TrustAlwaysBinds == ProjectSpec => []TrustBinds
<1>1. ProjectInv => TrustBinds BY DEF ProjectInv, FirstLife, Bound, Uploadable, TrustBinds
<1> QED BY <1>1, ProjectHolds, PTL

\* What is served has its row and its files, through lost races for a number,
\* failed writes and restarts (DATA-12, PUT /projects/:id/data).
THEOREM ServedAlwaysComplete == ProjectSpec => []ServedComplete
<1>1. ASSUME ProjectInv, births = 1, meta.live, meta.active > 0
      PROVE  staged[meta.active] # None /\ files[meta.active] = staged[meta.active]
  <2>1. meta.active \in Data BY <1>1, ProjectsConstants DEF ProjectInv, ProjectTypeOK, Meta, Data
  <2> QED BY <1>1, <2>1 DEF ProjectInv, FirstLife, Serves, Whole
<1>2. ProjectInv => ServedComplete BY <1>1 DEF ServedComplete
<1> QED BY <1>2, ProjectHolds, PTL

\* A version that has landed keeps its content as long as the project stands:
\* no upload, failed write or sweep touches it (domain/projectData.ts).
THEOREM LandedAlwaysStays == ProjectSpec => LandedStays
<1>1. ProjectInv /\ [ProjectNext]_projectVars =>
         [\A v \in Data :
             meta.live /\ births = 1 /\ files[v] # None /\ staged[v] # None
                => files'[v] = files[v] /\ (meta'.live => staged'[v] = staged[v])]_projectVars
  BY ProjectStep DEF Kept
<1> QED BY <1>1, ProjectHolds, PTL DEF ProjectSpec, LandedStays
=============================================================================
