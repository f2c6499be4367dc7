---------------------------------- MODULE Drift ----------------------------------
(***************************************************************************)
(* The drift of one project: CI uploads reports of what differs from the   *)
(* code, a runner generates fix proposals from the newest, members submit  *)
(* proposals as change requests, and approvers legitimize what a revert    *)
(* would undo.  A report is a row and a file, a proposal is a row keyed by *)
(* the digest of what it fixes.  (routes/drift.ts, domain/drift.ts,        *)
(* domain/driftProposals.ts.)  Handlers are split at their awaits.  What a *)
(* report says is what it yields; quota, freeze, roles and arming only     *)
(* refuse, and a refusal changes nothing.                                  *)
(***************************************************************************)
EXTENDS Integers, FiniteSets, FiniteSetsExt

CONSTANTS
    Proc,         \* slots for handlers in flight
    Content,      \* what an upload may say
    Digest,       \* proposals that may be generated
    Request,      \* requests that may be made
    None,
    Yield,        \* Yield[c]: the proposals generated from a report
    Place,        \* Place[d]: the addresses a proposal is about, with its flavor
    Reverts,      \* the proposals of flavor revert
    Mixes,        \* [ops, keep, start]: what goes on, CCP_DRIFT_KEEP, the first report
    MaxVersion,   \* bound: reports
    MaxCrash      \* bound: restarts

Version == 1..MaxVersion
Ops == {"upload", "alone", "busy", "generate", "flaky", "ask", "submit", "legitimize", "end", "crash"}
Mix == [ops : SUBSET Ops, keep : Nat, start : Content \cup {None}]

ASSUME DriftConstants ==
    /\ Yield \in [Content -> SUBSET Digest] /\ Reverts \subseteq Digest
    /\ None \notin Content \cup Request /\ MaxVersion \in Nat \ {0} /\ MaxCrash \in Nat
    /\ Mixes \subseteq Mix

VARIABLES
    mix,
    rows,       \* rows[v]: the content whose digest the row of version v has
    files,      \* files[v]: what is on disk for it
    pointer,    \* the version served; 0 when there is none
    prop,       \* prop[d]: the row of a proposal
    request,    \* request[r]: a request made from proposals
    runner,     \* the generation runner of the process
    proc,       \* proc[p]: a handler in flight
    collided,   \* history: two uploads have written the same file
    reopened,   \* history: proposals a generation wrote over once they were submitted
    crashes

vars == <<mix, rows, files, pointer, prop, request, runner, proc, collided, reopened, crashes>>
reports == <<rows, files, pointer>>

Prop == [state : {"none", "open", "submitted", "superseded"}, seen : 0..MaxVersion,
         request : Request \cup {None},     \* that it was submitted as
         engineer : Request \cup {None}]    \* that legitimizes it: legitimizeRequestId
NoProp == [state |-> "none", seen |-> 0, request |-> None, engineer |-> None]

\* of are the proposals it carries out, evidence the report whose rows it pins.
Made == [state : {"none", "live", "ended"}, kind : {"none", "change", "engineer"},
         of : SUBSET Digest, evidence : Content \cup {None}]
NoRequest == [state |-> "none", kind |-> "none", of |-> {}, evidence |-> None]

Runner == [pc : {"off", "read", "generate", "reconcile"}, version : 0..MaxVersion, queued : 0..MaxVersion,
           content : Content \cup {None}, known : [Digest -> Prop]]
Off == [pc |-> "off", version |-> 0, queued |-> 0, content |-> None, known |-> [d \in Digest |-> NoProp]]

Handler == [pc : {"idle", "look", "number", "write", "commit", "list", "prune", "unlink", "schedule",
                  "submit", "prior", "legitimize"},
            content : Content \cup {None}, version : 0..MaxVersion, again : BOOLEAN,
            stale : SUBSET Version, of : SUBSET Digest, prior : Request \cup {None}]
Idle == [pc |-> "idle", content |-> None, version |-> 0, again |-> FALSE,
         stale |-> {}, of |-> {}, prior |-> None]

Init ==
    /\ mix \in Mixes
    /\ rows = [v \in Version |-> IF v = 1 THEN mix.start ELSE None]
    /\ files = rows
    /\ pointer = IF mix.start = None THEN 0 ELSE 1
    /\ prop = [d \in Digest |-> IF mix.start # None /\ d \in Yield[mix.start]
                                THEN [NoProp EXCEPT !.state = "open", !.seen = 1] ELSE NoProp]
    /\ request = [r \in Request |-> NoRequest]
    /\ runner = Off
    /\ proc = [p \in Proc |-> Idle]
    /\ collided = FALSE /\ reopened = {} /\ crashes = 0

-----------------------------------------------------------------------------
On(op) == op \in mix.ops
At(p, pc) == proc[p].pc = pc
Goto(p, h) == proc' = [proc EXCEPT ![p] = h]
Step(p, pc) == Goto(p, [proc[p] EXCEPT !.pc = pc])
Done(p) == Goto(p, Idle)
Stored == {v \in Version : rows[v] # None}
OnlyHandlers == UNCHANGED <<mix, reports, prop, request, runner, collided, reopened, crashes>>
ReportsOnly == UNCHANGED <<mix, prop, request, runner, reopened, crashes>>

-----------------------------------------------------------------------------
(* PUT /projects/:id/drift: a report is staged under the next number and   *)
(* served at once.  The file comes first, the rows are the commit point.   *)

Uploading(p) == proc[p].pc \in {"look", "number", "write", "commit", "list", "prune", "unlink", "schedule"}

UploadStart(p) ==
    /\ At(p, "idle") /\ On("upload")
    /\ On("alone") => \A q \in Proc : ~Uploading(q)
    /\ \E c \in Content : Goto(p, [Idle EXCEPT !.pc = "look", !.content = c])
    /\ OnlyHandlers

\* The report served already is answered with its number.
UploadLook(p) ==
    /\ At(p, "look")
    /\ IF pointer > 0 /\ rows[pointer] = proc[p].content THEN Done(p) ELSE Step(p, "number")
    /\ OnlyHandlers

UploadNumber(p) ==
    /\ At(p, "number")
    /\ LET next == Max(Stored \cup {0}) + 1 IN
          next \in Version /\ Goto(p, [proc[p] EXCEPT !.pc = "write", !.version = next])
    /\ OnlyHandlers

\* The file is written twice over, to the same end.
UploadWrite(p) ==
    /\ At(p, "write")
    /\ LET v == proc[p].version IN
          /\ files' = [files EXCEPT ![v] = proc[p].content]
          /\ collided' = (collided \/ rows[v] # None
                            \/ \E q \in Proc \ {p} : proc[q].version = v /\ proc[q].pc \in {"write", "commit"})
    /\ Step(p, "commit")
    /\ ReportsOnly /\ UNCHANGED <<rows, pointer>>

\* The file goes and the upload starts over; the second time it stays.
Lose(p) ==
    IF proc[p].again THEN Done(p) /\ UNCHANGED files
    ELSE /\ files' = [files EXCEPT ![proc[p].version] = None]
         /\ Goto(p, [proc[p] EXCEPT !.pc = "look", !.again = TRUE, !.version = 0])

\* One transaction: the version's row, if there is none, and the pointer.
UploadCommit(p) ==
    /\ At(p, "commit")
    /\ LET v == proc[p].version IN
          IF rows[v] = None
          THEN rows' = [rows EXCEPT ![v] = proc[p].content] /\ pointer' = v
               /\ Step(p, "list") /\ UNCHANGED files
          ELSE Lose(p) /\ UNCHANGED <<rows, pointer>>
    /\ ReportsOnly /\ UNCHANGED collided

UploadContended(p) ==
    /\ At(p, "commit") /\ On("busy")
    /\ Lose(p)
    /\ ReportsOnly /\ UNCHANGED <<rows, pointer, collided>>

\* Variant: one too many is removed.
PruneListAll(p) ==
    /\ At(p, "list")
    /\ Goto(p, [proc[p] EXCEPT !.pc = "prune",
           !.stale = {v \in Stored : Cardinality({w \in Stored : w > v}) >= mix.keep - 1}])
    /\ OnlyHandlers

\* pruneDriftVersions: all but the newest, row by row.
PruneList(p) ==
    /\ At(p, "list")
    /\ Goto(p, [proc[p] EXCEPT !.pc = "prune",
           !.stale = {v \in Stored : Cardinality({w \in Stored : w > v}) >= mix.keep}])
    /\ OnlyHandlers

PruneRow(p) ==
    /\ At(p, "prune") /\ proc[p].stale # {}
    /\ rows' = [rows EXCEPT ![Min(proc[p].stale)] = None]
    /\ Step(p, "unlink")
    /\ ReportsOnly /\ UNCHANGED <<files, pointer, collided>>

PruneFile(p) ==
    /\ At(p, "unlink")
    /\ LET v == Min(proc[p].stale) IN
          /\ files' = [files EXCEPT ![v] = None]
          /\ Goto(p, [proc[p] EXCEPT !.pc = "prune", !.stale = @ \ {v}])
    /\ ReportsOnly /\ UNCHANGED <<rows, pointer, collided>>

Pruned(p) ==
    /\ At(p, "prune") /\ proc[p].stale = {}
    /\ IF On("generate") THEN Step(p, "schedule") ELSE Done(p)
    /\ OnlyHandlers

\* POST /:id/drift/generate asks for the version served.
AskGenerate(p) ==
    /\ At(p, "idle") /\ On("ask") /\ pointer > 0
    /\ Goto(p, [Idle EXCEPT !.pc = "schedule", !.version = pointer])
    /\ OnlyHandlers

-----------------------------------------------------------------------------
(* scheduleDriftGeneration: one run at a time, one version in the queue.   *)

Schedule(p) ==
    /\ At(p, "schedule")
    /\ LET v == proc[p].version IN
          runner' = IF runner.pc = "off" THEN [Off EXCEPT !.pc = "read", !.version = v]
                    ELSE [runner EXCEPT !.queued = v]
    /\ Done(p)
    /\ UNCHANGED <<mix, reports, prop, request, collided, reopened, crashes>>

Drain == runner' = IF runner.queued = 0 THEN Off ELSE [Off EXCEPT !.pc = "read", !.version = runner.queued]

\* The stored report, or nothing when it has been pruned.
GenRead ==
    /\ runner.pc = "read"
    /\ IF files[runner.version] = None THEN Drain
       ELSE runner' = [runner EXCEPT !.pc = "generate", !.content = files[runner.version]]
    /\ UNCHANGED <<mix, reports, prop, request, proc, collided, reopened, crashes>>

\* The clone, the command or the batch fails: audited, and the next one runs.
GenFail ==
    /\ On("flaky") /\ runner.pc \in {"generate", "reconcile"}
    /\ Drain
    /\ UNCHANGED <<mix, reports, prop, request, proc, collided, reopened, crashes>>

\* The command has run; the rows there are.
GenQuery ==
    /\ runner.pc = "generate"
    /\ runner' = [runner EXCEPT !.pc = "reconcile", !.known = prop]
    /\ UNCHANGED <<mix, reports, prop, request, proc, collided, reopened, crashes>>

\* Variant: what the report no longer yields is left as it is, and served again.
ReconciledKeeping(d) ==
    LET known == runner.known[d]  fresh == d \in Yield[runner.content] IN
    CASE fresh /\ known.state = "none" -> [NoProp EXCEPT !.state = "open", !.seen = runner.version]
      [] known.state \in {"open", "superseded"} ->
            [prop[d] EXCEPT !.state = "open", !.seen = runner.version]
      [] OTHER -> prop[d]

\* What reconcileProposals puts into the row of d, from the row it knows.
Reconciled(d) ==
    LET known == runner.known[d]  fresh == d \in Yield[runner.content] IN
    CASE fresh /\ known.state = "none" -> [NoProp EXCEPT !.state = "open", !.seen = runner.version]
      [] fresh /\ known.state \in {"open", "superseded"} ->
            [prop[d] EXCEPT !.state = "open", !.seen = runner.version]
      [] ~fresh /\ known.state = "open" -> [prop[d] EXCEPT !.state = "superseded"]
      [] OTHER -> prop[d]

\* One transaction; only a new row is conditional.
GenCommit ==
    /\ runner.pc = "reconcile"
    /\ \A d \in Yield[runner.content] : runner.known[d].state = "none" => prop[d].state = "none"
    /\ prop' = [d \in Digest |-> Reconciled(d)]
    /\ reopened' = reopened \cup {d \in Digest : prop[d].state = "submitted" /\ Reconciled(d) # prop[d]}
    /\ Drain
    /\ UNCHANGED <<mix, reports, request, proc, collided, crashes>>

-----------------------------------------------------------------------------
(* Requests made from proposals.                                           *)

\* addressEligibleFor: the report still says this of the same addresses.
Eligible(c, d) == \E e \in Yield[c] : Place[e] = Place[d]

\* A batch is of one flavor; a revert goes alone.
Batches == {b \in SUBSET Digest : b # {} /\ (b \cap Reverts = {} \/ Cardinality(b) = 1)}

\* The rows must be open and of the version served, and the stored report must
\* say so; the pinned evidence is that report's.  The rows are read first, but
\* the pointer does not go back behind them, so that one step says the same.
SubmitRead(p) ==
    /\ At(p, "idle") /\ On("submit") /\ pointer > 0 /\ files[pointer] # None
    /\ \E b \in Batches :
          /\ \A d \in b : prop[d].state = "open" /\ prop[d].seen = pointer
                          /\ Eligible(files[pointer], d)
          /\ Goto(p, [Idle EXCEPT !.pc = "submit", !.of = b, !.content = files[pointer]])
    /\ OnlyHandlers

Make(r, kind, p) ==
    /\ request[r].state = "none"
    /\ request' = [request EXCEPT ![r] = [state |-> "live", kind |-> kind, of |-> proc[p].of,
                                          evidence |-> proc[p].content]]

\* Variant: the first proposal of the batch is the only one guarded.
SubmitWriteFirst(p) ==
    /\ At(p, "submit")
    /\ IF \E d \in proc[p].of : prop[d].state = "open"
       THEN \E r \in Request :
               /\ Make(r, "change", p)
               /\ prop' = [d \in Digest |-> IF d \in proc[p].of
                              THEN [prop[d] EXCEPT !.state = "submitted", !.request = r] ELSE prop[d]]
       ELSE UNCHANGED <<request, prop>>
    /\ Done(p)
    /\ UNCHANGED <<mix, reports, runner, collided, reopened, crashes>>

\* One transaction: the request and every proposal of the batch, each if open.
SubmitWrite(p) ==
    /\ At(p, "submit")
    /\ IF \A d \in proc[p].of : prop[d].state = "open"
       THEN \E r \in Request :
               /\ Make(r, "change", p)
               /\ prop' = [d \in Digest |-> IF d \in proc[p].of
                              THEN [prop[d] EXCEPT !.state = "submitted", !.request = r] ELSE prop[d]]
       ELSE UNCHANGED <<request, prop>>
    /\ Done(p)
    /\ UNCHANGED <<mix, reports, runner, collided, reopened, crashes>>

\* POST /:id/drift/security/:digest/legitimize: the row, the request it names,
\* then the report.
LegitimizeRead(p) ==
    /\ At(p, "idle") /\ On("legitimize")
    /\ \E d \in Reverts :
          /\ prop[d].state = "open"
          /\ Goto(p, [Idle EXCEPT !.pc = "prior", !.of = {d}, !.prior = prop[d].engineer, !.version = prop[d].seen])
    /\ OnlyHandlers

LegitimizePrior(p) ==
    /\ At(p, "prior")
    /\ LET h == proc[p] IN
          IF \/ h.prior # None /\ request[h.prior].state = "live"
             \/ pointer # h.version \/ files[pointer] = None
             \/ \E d \in h.of : ~Eligible(files[pointer], d)
          THEN Done(p)
          ELSE Goto(p, [h EXCEPT !.pc = "legitimize", !.content = files[pointer]])
    /\ OnlyHandlers

\* Variant: the row is stamped whatever it names by now.
LegitimizeWriteAnyway(p) ==
    /\ At(p, "legitimize")
    /\ LET d == CHOOSE e \in proc[p].of : TRUE IN
          \E r \in Request : /\ Make(r, "engineer", p)
                             /\ prop' = [prop EXCEPT ![d].engineer = r]
    /\ Done(p)
    /\ UNCHANGED <<mix, reports, runner, collided, reopened, crashes>>

\* The row still names the request that was read; its state is not asked.
LegitimizeWrite(p) ==
    /\ At(p, "legitimize")
    /\ LET d == CHOOSE e \in proc[p].of : TRUE IN
          IF prop[d].engineer = proc[p].prior
          THEN \E r \in Request : /\ Make(r, "engineer", p)
                                  /\ prop' = [prop EXCEPT ![d].engineer = r]
          ELSE UNCHANGED <<request, prop>>
    /\ Done(p)
    /\ UNCHANGED <<mix, reports, runner, collided, reopened, crashes>>

\* A request is rejected, cancelled, or applied.
RequestEnds ==
    /\ On("end")
    /\ \E r \in Request : request[r].state = "live" /\ request' = [request EXCEPT ![r].state = "ended"]
    /\ UNCHANGED <<mix, reports, prop, runner, proc, collided, reopened, crashes>>

Restart ==
    /\ On("crash") /\ crashes < MaxCrash
    /\ crashes' = crashes + 1
    /\ proc' = [p \in Proc |-> Idle] /\ runner' = Off
    /\ UNCHANGED <<mix, reports, prop, request, collided, reopened>>

-----------------------------------------------------------------------------
Upload(p) ==
    \/ UploadStart(p) \/ UploadLook(p) \/ UploadNumber(p) \/ UploadWrite(p) \/ UploadCommit(p)
    \/ UploadContended(p) \/ PruneList(p) \/ PruneRow(p) \/ PruneFile(p) \/ Pruned(p)
    \/ AskGenerate(p) \/ Schedule(p)
Generation == GenRead \/ GenFail \/ GenQuery \/ GenCommit
Submission(p) ==
    SubmitRead(p) \/ SubmitWrite(p) \/ LegitimizeRead(p) \/ LegitimizePrior(p) \/ LegitimizeWrite(p)

Next ==
    \/ \E p \in Proc : Upload(p) \/ Submission(p)
    \/ Generation \/ RequestEnds \/ Restart

Spec == Init /\ [][Next]_vars

-----------------------------------------------------------------------------
(* Properties.                                                             *)

TypeOK ==
    /\ mix \in Mixes
    /\ rows \in [Version -> Content \cup {None}] /\ files \in [Version -> Content \cup {None}]
    /\ pointer \in 0..MaxVersion
    /\ prop \in [Digest -> Prop] /\ request \in [Request -> Made]
    /\ runner \in Runner /\ (runner.pc = "off" => runner = Off)
    /\ proc \in [Proc -> Handler]
    /\ collided \in BOOLEAN /\ reopened \subseteq Digest /\ crashes \in 0..MaxCrash

\* "A row can only exist once its body is safely on disk" (ERR-14): what a row
\* promises is there, through retention, lost races and restarts.  It holds
\* unless two uploads have written the same file: see ReportOnDisk.
ServedWhole ==
    ~collided => /\ \A v \in Version : rows[v] # None => files[v] = rows[v]
                 /\ pointer > 0 => rows[pointer] # None

\* The same of every upload.
ReportOnDisk == \A v \in Version : rows[v] # None => files[v] = rows[v]

\* A request and its proposals are one transaction: each names the request it
\* went into, none is in two and none is left behind (unless a generation wrote
\* over it: see SubmittedStays).
SubmittedOnce ==
    \A r \in Request : request[r].kind = "change" =>
       \A d \in request[r].of \ reopened : prop[d].state = "submitted" /\ prop[d].request = r

\* "submitted NEVER reverts to open/superseded."
SubmittedStays == [][\A d \in Digest : prop[d].state = "submitted" => prop'[d].state = "submitted"]_vars

\* The evidence a request pins is of a report that yields its very proposals (the
\* digest its reviewers see is the digest its gate recomputes); and so is what is
\* open for the version served, whatever was generated late, failed or cycled back.
EvidenceYields ==
    ~collided =>
       /\ \A r \in Request : request[r].state # "none" =>
             \A d \in request[r].of : d \in Yield[request[r].evidence]
       /\ \A d \in Digest :
             pointer > 0 /\ prop[d].state = "open" /\ prop[d].seen = pointer => d \in Yield[rows[pointer]]

\* A proposal has one engineer's request at a time (API-18).
LegitimizedOnce ==
    \A d \in Digest : Cardinality({r \in Request : /\ request[r].state = "live"
                                                   /\ request[r].kind = "engineer"
                                                   /\ d \in request[r].of}) <= 1

\* "A proposal from a stale snapshot is never submittable": what a request pins
\* is served when it is made.
SubmittedFresh ==
    [][\A r \in Request : request[r].state = "none" /\ request'[r].state = "live"
                              => request'[r].evidence = rows[pointer]]_vars

\* Retention "never touches the pointer": it names the latest version, "which
\* retention never removes".
PointerKept == pointer > 0 => rows[pointer] # None

\* What is served is never an earlier report than before.
PointerForward == [][pointer' >= pointer]_vars

\* When nothing is under way, proposals are of the report served.
CaughtUp ==
    ~collided /\ On("generate") /\ runner.pc = "off" /\ (\A p \in Proc : proc[p].pc = "idle") /\ pointer > 0 =>
       \A d \in Digest : d \in Yield[rows[pointer]] /\ prop[d].state # "none" =>
                            prop[d].state = "submitted" \/ prop[d].seen = pointer
=============================================================================
