------------------------------- MODULE ScanJobs -------------------------------
(***************************************************************************)
(* The scans of one project's repository: admins ask for one, a worker     *)
(* outside the control plane claims it, clones, scans, uploads what it     *)
(* found and reports as it goes.  The worker may die, the server may       *)
(* restart, answers get lost; a claim that goes silent is failed by the    *)
(* next read that looks at it.  (routes/scanJobs.ts, routes/projects.ts,   *)
(* domain/scanJobLease.ts, tools/catalogctl/internal/scanworker/worker.go.) *)
(***************************************************************************)
EXTENDS Naturals, FiniteSetsExt

CONSTANTS
    Worker,   \* scan workers
    Creator,  \* admins who ask for a scan
    Wizard,   \* pages that show the newest job's progress
    Casts,    \* [who, restarts]: who takes part, and how often the server restarts
    MaxJobs,  \* bound: jobs of the project
    Lease     \* ages a claim may reach: SCAN_JOB_LEASE_MS in steps of Tick

ASSUME ScanConstants ==
    /\ MaxJobs \in Nat /\ Lease \in Nat \ {0}
    /\ Creator \cap Wizard = {}
    /\ \A c \in Casts : c.restarts \in Nat

Job == 1..MaxJobs   \* ULIDs: in the order of their creation
InFlight == {"claimed", "cloning", "scanning"}
Terminal == {"uploaded", "failed"}
Status == {"none", "queued"} \cup InFlight \cup Terminal
ALLOWED_NEXT == [s \in Status |->
    CASE s = "queued" -> {"claimed", "failed"}
      [] s = "claimed" -> {"cloning", "failed"}
      [] s = "cloning" -> {"scanning", "failed"}
      [] s = "scanning" -> {"uploaded", "failed"}
      [] OTHER -> {}]

VARIABLES
    cast,      \* who takes part in this behaviour
    job,       \* job[j]: its row; `waiting` is its place in the queue index
    open,      \* the project still awaits its first scan
    artifact,  \* the job whose scan is the project's trust request
    asker,     \* asker[a]: a request to create a job or to read the newest one
    claim,     \* claim[w]: the server's side of a worker's claim
    worker,    \* worker[w]: the worker's own progress
    handed,    \* history: handed[j], how often job j was given to a worker
    restarts  \* how often the server was restarted

vars == <<cast, job, open, artifact, asker, claim, worker, handed, restarts>>

Row == [status : Status, waiting : BOOLEAN, age : 0..Lease, lapsed : BOOLEAN]
NoRow == [status |-> "none", waiting |-> FALSE, age |-> 0, lapsed |-> FALSE]

\* What the request has seen of each job, and which it found lapsed.
Asker == [pc : {"idle", "settle"}, seen : [Job -> Status], todo : SUBSET Job]
Claim == [pc : {"idle", "walk", "verify", "fail", "release", "mint"},
          rows : SUBSET Job, job : 0..MaxJobs]
\* `at` is the status it works at, or reports.
WorkerState == [pc : {"idle", "asked", "work", "send", "sent"}, job : 0..MaxJobs,
                at : Status, from : Status]

NoAsk == [pc |-> "idle", seen |-> [j \in Job |-> "none"], todo |-> {}]
NoClaim == [pc |-> "idle", rows |-> {}, job |-> 0]
NoWork == [pc |-> "idle", job |-> 0, at |-> "none", from |-> "none"]

Init ==
    /\ cast \in Casts
    /\ job = [j \in Job |-> NoRow]
    /\ open = TRUE
    /\ artifact = 0
    /\ asker = [a \in Creator \cup Wizard |-> NoAsk]
    /\ claim = [w \in Worker |-> NoClaim]
    /\ worker = [w \in Worker |-> NoWork]
    /\ handed = [j \in Job |-> 0]
    /\ restarts = 0

Known == {j \in Job : job[j].status # "none"}
Newest == IF Known = {} THEN 0 ELSE Max(Known)

\* The status write every handler uses: it lands if the status is still `from`.
Lands(j, from) == job[j].status = from
SetRow(j, row) == job' = [job EXCEPT ![j] = row]

-----------------------------------------------------------------------------
(* The lease, settled by whoever reads the row.                            *)

Lapsed(j) == job[j].status \in InFlight /\ job[j].age >= Lease

\* Time passes for a claim.  A claim handler ends within a few GitHub calls of
\* 20 s: none outlives a lease of 30 minutes.
Tick ==
    /\ \E j \in Job :
          /\ job[j].status \in InFlight /\ job[j].age < Lease
          /\ \A w \in Worker : claim[w].job # j
          /\ SetRow(j, [job[j] EXCEPT !.age = @ + 1])
    /\ UNCHANGED <<cast, open, artifact, asker, claim, worker, handed, restarts>>

\* Variant: a page shows the row it reads, and a click refuses on it.
AskSeeing(a, todo) ==
    /\ asker[a].pc = "idle"
    /\ asker' = [asker EXCEPT ![a] = [pc |-> "settle", seen |-> [j \in Job |-> job[j].status], todo |-> {}]]
    /\ UNCHANGED <<cast, job, open, artifact, claim, worker, handed, restarts>>

Ask(a, todo) ==
    /\ asker[a].pc = "idle"
    /\ asker' = [asker EXCEPT ![a] = [pc |-> "settle", seen |-> [j \in Job |-> job[j].status],
                                      todo |-> {j \in todo : Lapsed(j)}]]
    /\ UNCHANGED <<cast, job, open, artifact, claim, worker, handed, restarts>>

CreateRead(a) == open /\ Ask(a, Job)
LatestRead(a) == Newest # 0 /\ Ask(a, {Newest})

\* The settlement of one lapsed row; a lost condition means re-reading the row.
Settle(a) ==
    /\ asker[a].todo # {}
    /\ LET j == Min(asker[a].todo)
           from == asker[a].seen[j]
       IN  /\ IF Lands(j, from)
              THEN SetRow(j, [NoRow EXCEPT !.status = "failed", !.lapsed = TRUE])
              ELSE UNCHANGED job
           /\ asker' = [asker EXCEPT ![a].todo = @ \ {j}, ![a].seen[j] = job'[j].status]
    /\ UNCHANGED <<cast, open, artifact, claim, worker, handed, restarts>>

\* A job is put unless one was seen that has not ended.
Create(a) ==
    /\ asker[a].pc = "settle" /\ asker[a].todo = {}
    /\ asker' = [asker EXCEPT ![a] = NoAsk]
    /\ IF Newest < MaxJobs /\ \A j \in Job : asker[a].seen[j] \in Terminal \cup {"none"}
       THEN SetRow(Newest + 1, [NoRow EXCEPT !.status = "queued", !.waiting = TRUE])
       ELSE UNCHANGED job
    /\ UNCHANGED <<cast, open, artifact, claim, worker, handed, restarts>>

Latest(a) ==
    /\ asker[a].pc = "settle" /\ asker[a].todo = {}
    /\ asker' = [asker EXCEPT ![a] = NoAsk]
    /\ UNCHANGED <<cast, job, open, artifact, claim, worker, handed, restarts>>

\* The project is trusted or archived.
Close ==
    /\ open /\ open' = FALSE
    /\ UNCHANGED <<cast, job, artifact, asker, claim, worker, handed, restarts>>

-----------------------------------------------------------------------------
(* POST /scan-jobs/claim.                                                  *)

\* The worker polls; the server reads the queue.
ClaimQuery(w) ==
    /\ worker[w].pc = "idle" /\ claim[w].pc = "idle"
    /\ worker' = [worker EXCEPT ![w].pc = "asked"]
    /\ claim' = [claim EXCEPT ![w] = [pc |-> "walk", rows |-> {j \in Job : job[j].waiting}, job |-> 0]]
    /\ UNCHANGED <<cast, job, open, artifact, asker, handed, restarts>>

Pass(w) == claim' = [claim EXCEPT ![w] = [pc |-> "walk", rows |-> @.rows \ {Min(@.rows)}, job |-> 0]]

\* Variant: the row is taken as the query returned it.
ClaimTakeSeen(w) ==
    /\ claim[w].pc = "walk" /\ claim[w].rows # {}
    /\ LET j == Min(claim[w].rows) IN
          /\ SetRow(j, [NoRow EXCEPT !.status = "claimed"])
          /\ claim' = [claim EXCEPT ![w].pc = "verify", ![w].job = j, ![w].rows = @ \ {j}]
    /\ UNCHANGED <<cast, open, artifact, asker, worker, handed, restarts>>

\* Queued to claimed, out of the queue; a lost race moves on to the next row.
ClaimTake(w) ==
    /\ claim[w].pc = "walk" /\ claim[w].rows # {}
    /\ LET j == Min(claim[w].rows) IN
          IF Lands(j, "queued")
          THEN /\ SetRow(j, [NoRow EXCEPT !.status = "claimed"])
               /\ claim' = [claim EXCEPT ![w].pc = "verify", ![w].job = j, ![w].rows = @ \ {j}]
          ELSE Pass(w) /\ UNCHANGED job
    /\ UNCHANGED <<cast, open, artifact, asker, worker, handed, restarts>>

\* The project's audit chain is contended: not this job, not now.
ClaimContended(w) ==
    /\ claim[w].pc = "walk" /\ claim[w].rows # {}
    /\ Pass(w)
    /\ UNCHANGED <<cast, job, open, artifact, asker, worker, handed, restarts>>

ClaimNothing(w) ==
    /\ claim[w].pc = "walk" /\ claim[w].rows = {}
    /\ claim' = [claim EXCEPT ![w] = NoClaim]
    /\ worker' = [worker EXCEPT ![w] = IF @.pc = "asked" THEN NoWork ELSE @]
    /\ UNCHANGED <<cast, job, open, artifact, asker, handed, restarts>>

\* The project is looked at again; then the credential is at hand, refused for
\* good, or not to be had just now.
ClaimVerify(w) ==
    /\ claim[w].pc = "verify"
    /\ \E next \in IF open THEN {"mint", "fail", "release"} ELSE {"fail"} :
          claim' = [claim EXCEPT ![w].pc = next]
    /\ UNCHANGED <<cast, job, open, artifact, asker, worker, handed, restarts>>

\* Both undo the claim, and both may fail, which is swallowed.
Undo(w, pc, row) ==
    /\ claim[w].pc = pc
    /\ LET j == claim[w].job IN
          \/ Lands(j, "claimed") /\ SetRow(j, row)
          \/ UNCHANGED job
    /\ claim' = [claim EXCEPT ![w].pc = "walk", ![w].job = 0]
    /\ UNCHANGED <<cast, open, artifact, asker, worker, handed, restarts>>

FailClaimed(w) == Undo(w, "fail", [NoRow EXCEPT !.status = "failed"])
ReleaseClaimed(w) == Undo(w, "release", [NoRow EXCEPT !.status = "queued", !.waiting = TRUE])

\* The onboarding token is minted last and goes out with the answer, which
\* reaches the worker; or the mint fails, or the answer is lost.
ClaimMint(w) ==
    /\ claim[w].pc = "mint"
    /\ LET j == claim[w].job IN
          \/ /\ worker[w].pc = "asked"
             /\ worker' = [worker EXCEPT ![w] = [pc |-> "send", job |-> j, at |-> "cloning", from |-> "none"]]
             /\ handed' = [handed EXCEPT ![j] = @ + 1]
          \/ /\ worker' = [worker EXCEPT ![w] = IF @.pc = "asked" THEN NoWork ELSE @]
             /\ UNCHANGED handed
    /\ claim' = [claim EXCEPT ![w] = NoClaim]
    /\ UNCHANGED <<cast, job, open, artifact, asker, restarts>>

-----------------------------------------------------------------------------
(* The worker's run, and its reports.                                      *)

Send(w, status) == worker' = [worker EXCEPT ![w].pc = "send", ![w].at = status]

\* A report that fails ends in a report of failure; that one is not repeated.
Refused(w) == IF worker[w].at \in Terminal THEN worker' = [worker EXCEPT ![w] = NoWork]
              ELSE Send(w, "failed")

ReportRead(w) ==
    /\ worker[w].pc = "send"
    /\ LET from == job[worker[w].job].status IN
          IF worker[w].at \in ALLOWED_NEXT[from]
          THEN worker' = [worker EXCEPT ![w].pc = "sent", ![w].from = from]
          ELSE Refused(w)
    /\ UNCHANGED <<cast, job, open, artifact, asker, claim, handed, restarts>>

ReportLost(w) ==
    /\ worker[w].pc = "send"
    /\ Refused(w)
    /\ UNCHANGED <<cast, job, open, artifact, asker, claim, handed, restarts>>

\* The age of a job that has ended says nothing more.
Reported(w) == [job[worker[w].job] EXCEPT !.status = worker[w].at,
                                          !.age = IF worker[w].at \in Terminal THEN 0 ELSE @]

\* Variant: the status read before is not the condition of the write.
ReportWriteUnguarded(w) ==
    /\ worker[w].pc = "sent"
    /\ LET j == worker[w].job IN
          /\ SetRow(j, Reported(w))
          /\ worker' = [worker EXCEPT ![w] = IF @.at \in Terminal THEN NoWork ELSE [@ EXCEPT !.pc = "work"]]
    /\ UNCHANGED <<cast, open, artifact, asker, claim, handed, restarts>>

\* Accepted, and the answer arrives or not; or the status has moved on.
ReportWrite(w) ==
    /\ worker[w].pc = "sent"
    /\ LET j == worker[w].job IN
          IF Lands(j, worker[w].from)
          THEN /\ SetRow(j, Reported(w))
               /\ \/ worker' = [worker EXCEPT ![w] = IF @.at \in Terminal THEN NoWork
                                                     ELSE [@ EXCEPT !.pc = "work"]]
                  \/ Refused(w)
          ELSE Refused(w) /\ UNCHANGED job
    /\ UNCHANGED <<cast, open, artifact, asker, claim, handed, restarts>>

Clone(w) ==
    /\ worker[w].pc = "work" /\ worker[w].at = "cloning"
    /\ \E next \in {"scanning", "failed"} : Send(w, next)
    /\ UNCHANGED <<cast, job, open, artifact, asker, claim, handed, restarts>>

\* The artifact is stored while the project awaits it, and the worker told.
Upload(w) ==
    /\ worker[w].pc = "work" /\ worker[w].at = "scanning"
    /\ \/ open /\ artifact' = worker[w].job /\ Send(w, "uploaded")
       \/ Send(w, "failed") /\ UNCHANGED artifact
    /\ UNCHANGED <<cast, job, open, asker, claim, handed, restarts>>

-----------------------------------------------------------------------------
Dies(w) ==
    /\ worker[w].pc # "idle"
    /\ worker' = [worker EXCEPT ![w] = NoWork]
    /\ UNCHANGED <<cast, job, open, artifact, asker, claim, handed, restarts>>

\* A worker whose connection breaks; the report under way, if not its last, is
\* followed by one of failure.
CutOff(w) ==
    CASE worker[w].pc = "asked" -> NoWork
      [] worker[w].pc = "sent" /\ worker[w].at \in Terminal -> NoWork
      [] worker[w].pc = "sent" /\ worker[w].at \notin Terminal -> [worker[w] EXCEPT !.pc = "send", !.at = "failed"]
      [] OTHER -> worker[w]

Restart ==
    /\ restarts < cast.restarts /\ restarts' = restarts + 1
    /\ asker' = [a \in Creator \cup Wizard |-> NoAsk]
    /\ claim' = [w \in Worker |-> NoClaim]
    /\ worker' = [w \in Worker |-> CutOff(w)]
    /\ UNCHANGED <<cast, job, open, artifact, handed>>

Creating(a) == a \in cast.who /\ (CreateRead(a) \/ Settle(a) \/ Create(a))
Showing(a) == a \in cast.who /\ (LatestRead(a) \/ Settle(a) \/ Latest(a))
Claiming(w) ==
    \/ ClaimTake(w) \/ ClaimContended(w) \/ ClaimNothing(w) \/ ClaimVerify(w)
    \/ FailClaimed(w) \/ ReleaseClaimed(w) \/ ClaimMint(w)
Working(w) ==
    w \in cast.who /\ (ClaimQuery(w) \/ ReportRead(w) \/ ReportLost(w) \/ ReportWrite(w)
                    \/ Clone(w) \/ Upload(w) \/ Dies(w))

Next ==
    \/ \E a \in Creator : Creating(a)
    \/ \E a \in Wizard : Showing(a)
    \/ \E w \in Worker : Claiming(w) \/ Working(w)
    \/ Tick \/ Close \/ Restart

\* Time passes, handlers end, and somebody goes on looking at the page and
\* asking for a scan.  Nothing is asked of the workers.
Fairness ==
    /\ WF_vars(Tick)
    /\ \A w \in Worker : WF_vars(Claiming(w))
    /\ WF_vars(\E a \in Creator : Creating(a))
    /\ WF_vars(\E a \in Wizard : Showing(a))

Spec == Init /\ [][Next]_vars /\ Fairness

-----------------------------------------------------------------------------
TypeOK ==
    /\ cast \in Casts
    /\ job \in [Job -> Row] /\ open \in BOOLEAN /\ artifact \in 0..MaxJobs
    /\ asker \in [Creator \cup Wizard -> Asker]
    /\ claim \in [Worker -> Claim] /\ worker \in [Worker -> WorkerState]
    /\ handed \in [Job -> Nat] /\ restarts \in 0..cast.restarts

\* A job is given to one worker, ever: through polls at the same instant, claims
\* that are undone, answers that are lost and servers that restart.  A job that
\* is offered again was never handed out.
HandedOnce ==
    \A j \in Job :
       /\ handed[j] <= 1
       /\ job[j].status = "queued" => handed[j] = 0 /\ job[j].waiting

\* A job moves forward: it leaves a terminal status never, and goes back to the
\* queue only out of a claim nobody has got, whoever reports, settles or undoes.
ForwardOnly ==
    [][\A j \in Job :
          job'[j].status # job[j].status /\ job[j].status # "none" =>
             \/ job'[j].status \in ALLOWED_NEXT[job[j].status]
             \/ job[j].status = "claimed" /\ job'[j].status = "queued" /\ handed[j] = 0]_vars

\* A job in flight does not stay there: it ends or is queued again, though its
\* worker may be gone and the server restart, as long as the project can still be
\* scanned, or a page shows it, the newest (OPS-4).
Unwedged ==
    \A j \in Job : job[j].status \in InFlight ~> \/ job[j].status \notin InFlight
                                                 \/ ~open /\ (j # Newest \/ Wizard \cap cast.who = {})

\* "One at a time, so a repeated click cannot fan out clones."
OneInFlight ==
    \A i, j \in Job : i # j => {job[i].status, job[j].status} \cap (Terminal \cup {"none"}) # {}

\* "The scan worker stopped reporting and its claim expired.  No scan artifact
\* was uploaded."
LapseIsTrue == \A j \in Job : job[j].lapsed => artifact # j
=============================================================================
