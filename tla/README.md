# cloud-control-plane in TLA+

cloud-control-plane is a portal in front of a Terraform estate. People submit
change requests against a catalog of operations; approvers and leads sign them;
an approved change is applied, at once, in a maintenance window, or by a bundle
that commits it and triggers the deployment. The API (`ccp/api`, TypeScript) is
the part that holds state of record, and it is what these modules model. It has
no lock and no background work beyond one timer: every handler reads a row,
awaits, and writes later, and what keeps the system correct is the condition on
that write. Whether those conditions suffice is the question of this project.

## Inventory

| Component | State it keeps | Operations | What makes it correct |
|---|---|---|---|
| Change-request routes (`routes/requests.ts`) | the request row: status, `eventSeq`, approvals, tier, schedule, `bundle`, `applyClaimedAt`; dedupe rows `APPROVAL#` | submit, approve, reject, link-pr, plan-summary, apply, cancel, rewindow, list, read | no signature is lost or counted twice; a review completes only on what is required; an ended request stays ended |
| Approval ladder (`domain/exposure.ts`, `requirement.ts`, `eligibility.ts`) | none (pure, over the live catalog) | `ladderFor`, `currentRequirement`, `canSignStep` | the requirement is never weaker than the one in force |
| Schedules and lazy settlers (`domain/schedule.ts`, `cooling.ts`) | the row's status | `settleCooling`, `settleWindow`, `settleFrozenHold`, on every read | a closed window and a lifted freeze move the row; a settler never revives one |
| Scheduled auto-apply (`domain/apply/*`) | `APPLYING` and its lease | `runDueApplies`: sweep, freeze check, re-plan, claim, apply, outcome | one apply per request; a dead worker's claim is released |
| Bundle (`domain/bundle.ts`, `bundleClaim.ts`, the apply route) | `bundle` on the row | claim, run or resume, record, take over | one bundle per lease; a landed commit is resumed, never repeated |
| Change freeze and settings (`routes/admin.ts`, `domain/config.ts`) | `freeze.global` and others | put, read | no handler applies under a freeze it was under from its start |
| Audit chain (`domain/audit.ts`, `auditQuery.ts`, `store/snapshot.ts`) | entries in month partitions, one chain head per project, the probe's memo | append within the caller's transaction, retry with back-off, diagnose; probe, export, back up, page | the chain never forks or reorders; no guarded write is lost; a verdict is of the chain |
| Dual control (`domain/dualControl.ts`) | pending configuration changes | propose, acknowledge, reject, expire | two distinct administrators; one resolution; no stale change applied |
| Config store (`store/memoryStore.ts`, `fileStore.ts`, `dataLock.ts`) | all rows; one snapshot file; a lock file | `get`, `put`, `transact`; snapshot, load; heartbeat, takeover | a transaction is atomic; what was answered survives a crash; one writer |
| Submission gate (`middleware/rateLimit.ts`, `domain/retention.ts`) | idempotency markers, the requester's pointers, a gate row | count, admit, index, forget | one request per key; the caps hold; nothing that counts is uncounted |
| Administration (`routes/admin.ts`) | settings, policy, risk overrides, accounts, teams | put, clear, patch, enrol, delete, steal a service | a write replaces the row whose version guards it, and for all but settings that is the row it was computed from; what loosens takes two, but for settings |
| Projects (`routes/projects.ts`, `projectData.ts`, `domain/projectsLifecycle.ts`) | the registry row, credentials, data versions and their files, a tombstone | register, request trust, trust, upload, activate, archive, deregister | trust is of what was seen; what is served has landed whole |
| Scan jobs (`routes/scanJobs.ts`, `domain/scanJobLease.ts`, the scan worker of `catalogctl`) | jobs, claims, their lease | create, claim, report, lapse | a job is handed out once; none stays in flight for ever |
| Accounts, sessions, TOTP (`auth/*`, `routes/auth.ts`, `account.ts`) | accounts, sessions, devices, recovery codes | log in, enrol, re-authenticate, require or exempt, revoke | recovery codes are used once; who must pass a second factor has passed it; revocation is final |
| Drift (`routes/drift.ts`, `domain/drift.ts`, `driftProposals.ts`) | report rows and files, the pointer to the one served, proposals, the generation runner | upload and retain, generate and reconcile, submit, legitimize | what is served is on disk; a proposal is of what is served and goes into one request |
| Web application, catalog tooling, importer, runner | none of record | | outside the model |

How they meet. Every handler commits its domain writes and an audit entry in one
`transact`, whose conditions are evaluated against the store of that moment; a
lost condition is re-read and answered, a lost chain head is retried. Handlers of
one row interact only through the row; rows interact only through the chain head
and the settings. The scheduler is a timer in the server process and goes through
the same store. Nothing else runs in the background: expired windows, leases and
holds are settled by whoever reads the row next.

What is hard here: interleavings of two handlers on one row, where some guard
their writes on `eventSeq` and advance it, and others guard on `status` and leave
`eventSeq` alone; decisions taken on a row, a freeze or a catalog read before an
await; a process that dies between a claim and its outcome; leases that run out
under a worker that is merely slow; deploys that change what the catalog requires
in the middle of a review. `PROJECT.json` lists each hazard at its line.

## Modules

| Module | What it is |
|---|---|
| `RequestLifecycle` | what a request promises whatever runs concurrently: the edges of its status, at most one grant of the apply, at most one executor run per grant |
| `ChangeRequest` | the detailed system: one row, its handlers, settlers, ticks and bundles |
| `MCChangeRequest` | the small instances for TLC |
| `AuditChain` | the audit log of one project: its writers and its readers |
| `MCAuditChain` | its small instances for TLC |
| `Administration`, `MCAdministration` | settings, accounts and teams, and the dual-control envelope over them |
| `DataLock`, `FileStore`, `MCFileStore` | the lock on the data file and the durable store under it |
| `Projects`, `MCProjects` | one project id, from registration to its tombstone |
| `ScanJobs`, `MCScanJobs` | the scans of one project and the workers that run them |
| `Identity`, `MCIdentity` | one account, its sessions and its second factors |
| `Submission`, `MCSubmission` | retried submissions under the caps |
| `Drift`, `MCDrift` | the drift reports of one project and what is made of them |
| `ChangeRequest_proofs` | types, the review's safety, the bundle's exclusion and memory, the freeze's veto, and that `ChangeRequest` implements `RequestLifecycle`, proved |
| `AuditChain_proofs` | the chain's types; its order, its updates, its retry budget and the probe's memo, proved |
| `Administration_proofs`, `FileStore_proofs`, `Submission_proofs`, `Drift_proofs`, `Identity_proofs` | the safety of those five, proved |
| `Onboarding_proofs` | the safety of `Projects` and of `ScanJobs`, proved |

`Projects` calls its specification `ProjectSpec` (and its parts `ProjectInit`,
`ProjectNext`, `projectVars`, `ProjectTypeOK`), so that `Onboarding_proofs` can speak
of it and of `ScanJobs`.

### ChangeRequest

`row` is the stored `RequestItem`, reduced to the fields its handlers decide on;
`signed` the accounts that have a dedupe row `approvalKey(...)`; `frozen` the
setting `freeze.global`; `now` the clock; `catalog` what the deployed catalog says
of the request's operation (its tier and whether it forces a replacement);
`effects` what reached the world outside: executor runs, a landed commit, a fired
trigger. `proc[p]` is one handler in flight: its operation, its program point, the
row it read (`snap`), the instant it took from the clock (`at`), what it decided
(`to`). Handlers are split at their awaits, wherever another handler can run:

| Code | Actions |
|---|---|
| `POST /` | `SubmitStart`, `SubmitWrite` |
| `POST /:id/approve` | `ApproveRead`, `ApproveFreeze` (the read of `isFrozen`), `ApproveWrite` |
| `POST /:id/reject` | `RejectStart`, `RejectWrite` |
| `POST /:id/link-pr`, `/:id/plan-summary` | `AnnotateStart`, `AnnotateWrite` |
| `POST /:id/cancel`, `/:id/rewindow` | a start, the awaited settlers (`SettleCoolingFirst`, `SettleWindowFirst`), a decision, a write |
| `POST /:id/apply` | the same, then `BundleClaim`, `BundleUnresolved` or `BundleResolve`, `BundleFail` or `BundleLand`, `BundleTrigger`, `OutcomeRead`, `OutcomeWrite` |
| `settleCooling`, `settleWindow`, `settleFrozenHold`, `settleApplyClaim` | `Cooling*`, `Window*`, `Hold*`, `Lease*`, each a read and a guarded write; the list, detail and feasibility reads are these |
| `runDueApplies` | `TickSweep`; `TickStart`, `TickFreeze`, `TickHold` / `TickHalt` / `TickProceed`, `TickClaim`, `TickApply`, `TickFinish` |
| the freeze setting, the clock, the process | `Freeze`, `Unfreeze`, `ClockTick`, `Restart` (every handler is lost and another catalog may be deployed) |

A write is `IfSeq` (guarded on `eventSeq`, advances it) or `IfStatus` (guarded on
`status`). `GiveUp` lets any handler come back without its write: the chain head
stayed contended for the whole retry budget, or the store refused.

One row is modelled, not several, because handlers of different rows meet only at
the chain head (here `GiveUp`) and at the settings (here `frozen`).

What is abstracted: timeline events, labels and audit entries; parameters of the
operation; the idempotency marker, quota and rate limit of a submission (`Submission`; a refused
submission has no effect on the row); the plan's digest (the constant `Pin` says
whether the pinned plan is intact, absent or corrupt, and a re-plan may agree or
not); the executor's own retry (one `TickApply` per claim); `approve`'s read of the
dedupe row is merged with its read of the request, which the guard on `eventSeq`
makes equivalent; the two holds of the scheduler (`holdNoPlan`, `holdReplanFailed`)
change no status, so they are a return. `veto` is a history flag for one property.

### RequestLifecycle

`status`, whether the scheduler was ever `granted` the apply, and how often the
executor `runs`. `ChangeRequest` implements it with `granted <- row.claimedAt > 0`
and `runs <- effects.applies`: each step of a handler is one edge of the life cycle
or a stutter.

### AuditChain

`rows` are the stored entries (partition, id, the predecessor's hash), `head` the
CHAINHEAD row, `key` and `value` the two kinds of domain row that a caller guards
(one created with `ifNotExists`, one updated with `ifEquals`), `minted` the state of
the process's monotonic ulid factory, `clock` its clock, `memo` the probe's
`verifiedPrefixes`. `writer[w]` and `reader[p]` are the locals of a call in flight.

| Code | Actions |
|---|---|
| `record`, `transactWithAudit` | `Begin` (the caller's own read, then the call), `ReadHead`, `Commit` (`recordIn` and `transact`, which have no await between them: `Land` or `Refuse`), `Diagnose` (`failedDomainCondition`; conflict, contention or another round) |
| `chainBackoff` | `Retry`, within `Commit` or `Diagnose` |
| `exportAuditChain` | `ExportStart`, `ReadMonth` per partition, `FullVerdict` |
| `verifyProjectChain` | `ProbeStart`, `ProbePlan` (memo and first partition), `ReadMonth`, `ExtendMemo` or `FullVerdict` |
| `summarizeSnapshot` | the order `Before(FALSE, ..)` of `Verified` |
| the clock, the process | `Tick`, `StepBack`, `Restart` |

A hash stands for the entry it covers, so hash and id are one. The random part of a
new ulid is drawn from `Draws`, and its overflow is left out, as are ids that other
projects' chains take from the same factory. The month a walk starts from is that
of its read of the head. A process that has minted nothing is assumed to run ahead
of what is stored: a restart, or a clock corrected before the first append, that
went back behind the newest stored entry would break the order of any ulid log. The
store survives a restart; what a crash may lose belongs to `FileStore`. The paged
reader `readAuditPage` is not modelled.

### Administration

`row[t]` is a setting, the policy, a risk override or an account; what it allows is
a set of powers, and gaining one is loosening. `change` are the pending changes,
`proc` the handlers in flight, `team` and `clerk` the teams and their handlers.

| Code | Actions |
|---|---|
| `PUT /settings/:key`, `/deployment/:id`, `/catalog/:opId` | `SettingRead` or `CatalogRead`, `SettingVersion` (the version is a second read) |
| `PUT /policy`, `PUT` and `DELETE /risk/:opId` | `PolicyRead`, `RiskClearRead` |
| `POST`, `PATCH`, `DELETE /accounts`, a reset or a login's write of the row | `EnrolRead`; `PatchRead` or `DeleteRead`, `CoverRead` (the guards against stranding); `TouchRead`; `RenameRead`, `RenameWrite`; `DeleteWrite` |
| `commitOrPropose` | `CommitWrite` or `Propose` |
| `ackPending`, `rejectPending`, `settlePendingExpiry` | `AckRead`, `AckDrift`, `AckCommit`; `RejectRead`, `RejectCommit`; `ListRead`, `ExpireWrite` |
| `/teams` | `TeamRead`, `TeamRenameRead`, `TeamWrite`; `TeamDeleteRead`, `TeamDeleteWrite` |

A write on its way, of a handler or a proposal, carries the row its value was
computed from (`seen`) and the row whose version is its condition (`guard`). For the
policy, risk overrides and accounts they are one read. A setting is read twice: the
new value and its classification come of the first read, the version of the second,
and nothing looks at the value again. `NothingOverwritten` therefore promises of a
setting only that the row with the guarding version is the one replaced;
`SettingsIntact` and `SettingsShared` state what the others have, and settings do not
(below). `back` is history: the row's version has since gone down or stayed, which
the code's guards cannot see. A delete and a rename carry no condition, and a row
that is deleted and created again starts at version 1. The properties name that
exception.

### DataLock and FileStore

`DataLock` has the lock file and the life of each process, at the grain of system
calls: `Create` (`openSync 'wx'`), `Claim`, `Check` (`readHolder`, `staleReason`),
`Clear` (`unlinkSync`), `Beat`. `overtaken` is history: a live process's claim was
cleared, "fresh" if it had been refreshed. `FileStore` composes it with the store: `disk`
is the data file, `synced` what a loss of power may bring back, `mem[p]` a process's
map, `call[m]` the fate of one mutation. `Apply` and `Persist` are the caller's
synchronous half, `FlushStart`, `FlushRename`, `FlushDone` and `FlushFail` the one
flush under way. What a store holds is the set of the mutations in it, as a later
snapshot replaces the file whole. `Kill` ends one process, `PowerLoss` all of them,
`Close` is an orderly end.

### Projects

`meta` is the registry row, `sat` the credentials, `staged` and `files` the data
versions and what is on disk for them, `retired` the tombstone. Handlers are split at
their awaits: reads and writes of the row; of an upload, `UploadGate`, `UploadNumber`,
`UploadStage`, `UploadFiles` or `UploadFails` with `Unstage`; of a deregistration,
the acknowledged delete and then `SweepQuery`, one step per row, `Retire`. An
acknowledgement is one step (`Ack`), as `Administration` has its own.

### ScanJobs

`job[j]` is a job's row, `asker` a request that creates or shows one, `claim[w]` the
server's side of a claim and `worker[w]` the worker's. A claim walks the queue
(`ClaimQuery`, `Pass`, `ClaimTake`), verifies, and is undone (`FailClaimed`,
`ReleaseClaimed`, either of which may fail) or minted. A report is sent, read,
written and answered in separate steps, and the answer may be lost. `Tick` ages a
claim; a claim handler ends long before a lease does, which is a handful of calls of at
most 20 s against 30 minutes.

### Identity

`account` is the row, `session[s]` the sessions. Every handler resolves its session
(`Enter`), may slide its idle window in a write of its own, and later writes the
account under its version (`Save`) or a session's field under its own guard. Who must
show a second factor is `needsTotp`: `required` is what an administrator has said of
the account (`totpRequired`, set on or off by `PATCH /accounts`, which revokes
nothing), and where that is unset, seniority decides. `factor` and `era` in a session
are history: whether a second factor was passed for it or not asked for, the account
being exempted, and how often everything had been revoked when it was bought. One
recovery code stands for a set. A time code is accepted or not: the code keeps no
record of those it has accepted (`totp.ts:102-108`), so nothing is claimed of one
presented twice. The lockout counter rides on the same guarded writes and is left
out; so is the expiry of sessions by time.

### Submission

`copy[s]` is one arriving copy of a submission, which mints its own request id;
`marker[k]`, `pointers`, `gate` and `head` are the rows it reads one after the other
and its batch is conditioned on. A marker is the id it names, of a request or of one
that is not there (`mix.dangling`); how old it is, is told by that id, so a dangling
marker expires like any other. `Forget` is the delete of a marker that was found
expired, which has no condition; `dropped` is history: the keys of which it deleted a
marker that was not. `Materialize` builds the index once, from requests older than
it. `Age` counts an hour and the retention of a marker.

### Drift

`rows[v]` is the row of a report's version (what stands for its digest), `files[v]`
the file under it, `pointer` the version served, `prop[d]` the row of the proposal
with digest `d`, `request` what was made of proposals, `runner` the process's
`GenState`, `proc[p]` a handler in flight.

| Code | Actions |
|---|---|
| `PUT /:id/drift` | `UploadStart`, `UploadLook` (the dedupe), `UploadNumber`, `UploadWrite` (the file), `UploadCommit` or `UploadContended` (the row and the pointer; `Lose` removes the file and starts over) |
| `pruneDriftVersions` | `PruneList`, `PruneRow`, `PruneFile`, `Pruned` |
| `POST /:id/drift/generate`, `scheduleDriftGeneration`, its loop | `AskGenerate`, `Schedule`, `Drain` |
| `generateDriftProposalsOnce`, `reconcileProposals` | `GenRead`, `GenQuery`, `GenCommit` (`Reconciled`), `GenFail` |
| `POST .../proposals/:digest/submit` | `SubmitRead`, `SubmitWrite` |
| `POST .../security/:digest/legitimize` | `LegitimizeRead`, `LegitimizePrior`, `LegitimizeWrite` |
| a request's end, the process | `RequestEnds`, `Restart` |

What a report says is abstracted to the set of proposals it yields (`Yield`); two
proposals about the same addresses in the same flavor have one `Place`, which is what
`addressEligibleFor` compares. `collided` (two uploads have written one file) and
`reopened` (a generation wrote over a submitted proposal) are history: they mark the
two defects below, and the properties that those break are stated up to them. The
properties of what is served also take at least one version to be retained, and fewer
versions staged during one upload than are retained (the default is 90): runs that
prune have one upload at a time.

## Runs

Each run asks one question. Deadlock is checked in `scan`, where somebody always has
something to do; elsewhere the system may really stop: requests end, calls return,
clocks and counters are bounded. Together the passing runs take every action.

| Run | Instance | Shows |
|---|---|---|
| `review` | 2 handlers; submit, approve, reject, annotate, bundle, restart; three catalogs; with and without a window, as a change set and as one operation | no request leaves review without the signatures that the catalog in force asks for; signatures are valid and none is lost; one bundle per lease; a recorded commit is never forgotten |
| `schedule` | 3 handlers; all settlers, cancel, rewindow, ticks, freeze, restart; a windowed row, a held one, two of the retired cooling profile | every status change is an edge of `RequestLifecycle`, by which the executor starts at most once; no apply by a handler that was frozen throughout |
| `progress` | 2 handlers, fairness | a claimed row is released, a held row moves, a closed window is settled |
| `chain` | 3 writers of any kind, 1 reader, 3 attempts, 2 months, a restart | the chain links up in the order served, guarded updates are not lost, replayable calls get through, the memo is a verified prefix |
| `administration` | 2 administrators, 2 handlers; settings, policy, accounts or teams at a time | a write replaces the row whose version it read, which for all but settings is the row it was computed from; a change is resolved once and in time; what loosens takes two people, but for settings; a stolen service leaves its owner |
| `store` | 2 processes on two hosts, 2 mutations, 2 crashes; simultaneous starts, or one process at a time with failed writes and losses of power | one writer; answered means durable; silence after a failure; everybody is answered; the store opens again |
| `projects` | 2 requests; onboarding, the way to trust, uploads, deregistration | trust binds what was seen; what is served has landed and stays |
| `scan` | 2 workers or a worker and a page; 2 jobs, a restart | a job is handed out once, moves forward, and ends or is queued again |
| `identity` | 2 requests over one account; eight selections of operations | revocation is final; senior accounts have passed a second factor, unless exempted at sign-in; a recovery code buys one session (of time codes it says nothing) |
| `submission` | 3 copies beside a standing request or a dangling marker; caps of 2, 3 attempts | caps, index, and one request per key as long as its marker is retained and no copy deletes it for an expired one |
| `drift` | 2 handlers; two uploads at a time; uploads with retention and generation; submissions; legitimizations | what is served is on disk; one request per proposal, on evidence that yields it; one engineer's request at a time |
| `double_apply` | tick and annotate | **violation**, see below |

Bounds of the requests. Time is counted in coarse units: a window lasts one, both
leases one, approvals go stale after two. Alice asks and is herself a lead, Bob is an
approver, Carol a lead. `MaxTime` stops the clock: 4 units let a window open, close,
be moved and open again, and both leases run out in between; the review needs only 2.
`MaxSeq` bounds the bumps of `eventSeq` that nothing else bounds (annotations and
bundle retries): 4 suffices for a claim, a takeover and two outcomes. Two handlers
show every lost update between a reader and a writer; three let a third party act
between the claim and the outcome of two others. Handler slots are symmetric, except
in `progress`, where symmetry is unsound for liveness.

Bounds of the chain. Three writers on three attempts is the boundary of the budget
(the code's is eight): each of the others may win one round. Chains of up to three
entries give a tail an anchor, a middle and an end. Two milliseconds to the month and
three milliseconds let two entries share a millisecond, a month turn, and a clock go
back within a month. One restart separates two processes; `Draws` has two values, so
that plain ulids of one millisecond may come in either order.

Bounds of the others. `MaxVersion` stops writes of a row, not handlers: 2 lets a row
change under one that has read it, and 5 lets an account or a registry row do so
through several decisions. In `administration` one pending change suffices, since a
second would be about another row or refused for its version; a lease of 1 in a clock
of 2 lets it expire with and without being settled. Three teams are an owner and two
takers. In `store` a claim may miss one heartbeat, so two suffice to be stale. Two
data versions let two uploads fall on one number and a later one become active. Two
jobs are the newest and one before it. Three sessions, secrets and code sets are one
before, one during and one after. In `submission` the standing request and two
copies reach both caps with one more to refuse; with three attempts a copy loses the
gate to the other copy and the head to the rest of the project. In `drift` three
versions let one be pruned while another is staged; two contents share two of their
proposals and differ in one each, about one address; two requests are one before and
one after, or two at once.

A mix (`Ops` in `ChangeRequest`, `Mixes` elsewhere) selects the operations that one
behaviour exercises. Operations are put together when their guards are on the same
attributes; all at once are beyond what is enumerated in minutes.

Fairness. A handler that runs goes on unless its process dies: weak fairness of its
next step. Settlers run because requests keep being read; any one read may lose the
chain or be cut off by a restart, so the settlers' steps have strong fairness. That
assumes contention away: a settler whose guard keeps holding gets its turn. How long
it may lose the chain is the question of `NobodyStarves`, which is of no more writers
than attempts; beyond that the code gives up, and nothing here says when a read that
settles succeeds. The clock advances. Ticks, claims, freezes and restarts get none: the server may never
tick again, and `progress` says that the readers alone release what it left. In
`store` a supervisor restarts a process and a flush goes on; crashes get none. In
`scan` the steps of the server and of somebody who asks are fair and the worker has
none: it may be silent from any step on.

The type invariant of every module is a theorem, so no run checks it.

## Where the code and its comments disagree

One is a run, recorded under "findings":

* `double_apply`: the comment on the scheduler's claim says exactly one worker can
  ever run the executor for a row. The claim is guarded on `status` and does not
  advance `eventSeq`; `link-pr` and `plan-summary` put back the whole row they read,
  guarded on `eventSeq` alone. One that read before the claim returns the row to
  `AWAITING_DEPLOY_APPROVAL`, and the next tick applies again. Without annotations
  `LifecycleSpec` and `SingleApply` are theorems.

Five more contradict a comment in the same way, each with a configuration and the
property that the comment states:

* `LockRace.cfg`, `FreshClaimKept`: the data lock promises one writer, enforced at
  open, and creates its file without a window between checking and creating.
  Clearing a stale lock has that window: two processes read the same stale holder,
  the first clears it and claims, the second's `unlinkSync` removes the fresh claim
  and both hold the file. Everything `FileStore` promises is therefore stated of one
  writer at a time (`overtaken = "no"`).
* `DriftLost.cfg`, `ReportOnDisk`: a report's row can only exist once its body is on
  disk, and the file of a lost race lies under a number that no row claims. Two
  uploads that list the versions together take the same number and so the same file;
  the loser removes the file that the winner's row names, and may have replaced its
  content before.
* `DriftReopened.cfg`, `SubmittedStays`: a submitted proposal never goes back to
  open. A generation reads the proposals, and later sets each that was not submitted
  to open or superseded without a condition; a submission in between is overwritten,
  and the proposal can be submitted again.
* `DriftKeep.cfg`, `PointerKept`: retention never means to keep nothing. `driftKeep`
  asks whether `CCP_DRIFT_KEEP` is positive and then rounds it down: 0.5 keeps
  nothing, and the version just served is removed.
* `IdentityGaps.cfg`, `FactorAsRequired`: a totp change never creates a gap by which a
  session that never proved a second factor goes on, so it bumps no session version
  (`admin.ts:935-937`). It does: where an administrator comes to require the factor,
  after an exemption or of somebody who is not senior, the sessions signed in without
  one resolve as before.

The rest are each shown by a configuration, with the property the code does not
have. Where one configuration lists several, TLC stops at the first that is violated:
leave in the one to be shown.

| Configuration | Property | What happens |
|---|---|---|
| `LaneOverlap` | `LaneExclusion` | the bundle's claim and the scheduler's are guarded on attributes the other does not write, so both lanes, or a bundle and a cancel, can have one request |
| `OffPaper` | `DispatchedOnPaper` | a rewindow between a tick's read and its claim leaves the status as it was: the apply starts outside the window the row shows |
| `StuckReview` | `NextStepExists` | a tier raised and lowered again by deploys leaves an open request with its ladder signed to the end, and nobody can approve it |
| `Unresolved` | `ClaimHandedBack` | the branch for a project without a checkout returns after the bundle's claim was written and leaves it for the lease |
| `ClockStep` | `SameVerdict` | a clock set back over the start of a month puts an entry in the earlier partition with an id of the later time: the server calls the chain broken, the backup tool verifies it |
| `ExportRace` | `ExportVerifies` | an export reads the head, then partitions whole: an entry appended in between is exported beyond its count, and an intact chain is called broken |
| `AdministrationGaps` | `SettingsShared` | a setting's version is read after its value: a loosening judged against a value that has since been tightened is written by one administrator |
| `AdministrationGaps` | `SettingsIntact` | the same two reads: a catalog toggle computed from the list as it was is written under the version of another administrator's toggle, and undoes it |
| `AdministrationGaps` | `SomebodyAdministers` | two administrators delete each other: each guard saw the other, and neither delete has a condition |
| `AdministrationGaps` | `SingleOwner` | two teams claim a service that nobody owns; neither writes the other's row |
| `LockGaps` | `NeverWedged` | a process that dies between creating the lock file and writing it leaves a lock that nobody finds stale |
| `LockGaps` | `ReleaseKeeps` | a release reads the holder and removes the file: a takeover in between loses its claim |
| `PowerLoss` | `AckedDurable` | where a directory cannot be synced, an answered snapshot may be lost with the power |
| `ProjectsGaps` | `NothingLeft` | a credential written while the project is swept outlives the sweep |
| `ProjectsGaps` | `NeverReborn` | an id is registered again between the deletion of its row and its tombstone |
| `ScanGaps` | `OneInFlight` | two requests that both saw no open job create two |
| `ScanGaps` | `LapseIsTrue` | a worker that uploads after its claim lapsed leaves a failed job whose scan was taken |
| `IdentityGaps` | `RevokedStays` | an account deleted and enrolled again starts over at the same session version, and a session minted late for the old one works for the new |
| `Forgotten` | `KeyMakesOne` | two copies find one expired marker, of a request or dangling; the slower one's unguarded delete removes the fresh marker of the other, and both make a request |
| `DriftGaps` | `SubmittedFresh` | the pointer may move between the check that a proposal is of the report served and the transaction, which has no condition on it: the request pins evidence of the report before |
| `DriftGaps` | `PointerForward` | an upload that prunes late, on a list from before, removes the rows after which the next one is numbered |
| `DriftGaps` | `CaughtUp` | a report whose generation was lost (to a restart, a failure, or its own retention) leaves proposals of the report before |

## What is proved

The theorems hold for every value of the constants, under the named assumptions of
each module, which TLC evaluates in every run.

Requests, for every set of people, roles, handler slots, operations and catalogs.
They rest on `ConstantTypes` and `StoredRows`: rows stored by earlier builds satisfy
the row invariants (a ladder validly signed; past review, signed to the end, except
rows of the retired cooling profile; no bundle yet).

* `Typing`. The invariant `TypeInv` adds `Decided`, what a handler may have decided
  by the time it writes: without it a write could store any value.
* `QuorumAlwaysMet`, `SignaturesAlwaysValid`, `ApprovalsNeverLost`,
  `LiveRequirementMet`, all read off `ReviewInvariant`. None is inductive, because a
  handler writes a whole row built from an older one. `ReviewInv` therefore speaks of
  every handler's read: it is a *version* of the row, not newer; if it has the row's
  `eventSeq` it has the row's signatures and bundle, and while the request is open it
  *is* the row; an approver past the checks brings a valid signature; a writer guarded
  on status acts on a request past review. The step rests on there being three kinds
  of change: none, a change of status past review that leaves `eventSeq` alone
  (`Touches`), and an advance of `eventSeq` (`Advances`), which makes every other read
  stale.
* `BundleIsExclusive`, `LandedIsRemembered`: `ClaimInv` relates the stored claim to
  every handler that holds or is about to make one: claims are pairwise at least a
  lease apart or lost, and a handler that resumes has read the landed commit.
* `FreezeVetoHolds`, if `NoAnnotations`: no operation annotates a request, because an
  annotation puts back the whole row it read and with it any status. It is of handlers
  that ran wholly under the freeze: a tick that asked before the freeze may still
  claim, and the executor may still start for it. `VetoInv` says
  from which status each handler decided by the time it writes (`Sourced`), that one
  under the freeze since its start is not on the way to an apply (`Unvetoed`), and
  that the freeze is still on while it is vetoed.
* `LifecycleImplemented`, if `Unclaimed`: no annotations (`DoubleApply.cfg` shows what
  they do), no stored row is claimed, and windows begin after the clock's zero, so
  that `claimedAt = 0` means unclaimed. `LifeInv` adds that a claim once taken stays
  in the states past it, that at most one handler has the grant, and that it knows
  whether its executor has run. Every step of every handler is then an edge of
  `RequestLifecycle` or a stutter. `AppliedOnce` is read off the same invariant.

The chain, for every finite set of writers, any readers, calendar, random parts and
budget (`ChainConstants`, `Calendar`).

* `ChainTyping`, for which a reader's partitions left to read and the rows it has are
  related to what it may still do (`ReaderOK`).
* `ChainAlwaysVerifies` (if the clock is not set back over the start of a month) and
  `BackupAlwaysVerifies` (whatever the clock does). `OrderInv` adds that every stored
  id is at most the last one minted, or before the clock in a process that has minted
  none, that no partition is later than the clock's, and that a head some writer has
  read is the present head or counts less. Then what `Land` appends is later than
  every entry in either order.
* `NobodyEverStarves`, `NoUpdateLost`: `CallInv` counts. The head counts the calls
  that were answered, the value those of them that were guarded, and a call in its
  round `n` has read a head that counts at least `n`: each lost round was won by
  another call.
* `MemoAlwaysSound`, if the clock is not set back over the start of a month
  (`ClockStep.cfg` is the counterexample). `MemoInv` places the memo and what every
  reader has seen: the head each names is an entry, and it counts the entries up to
  that one. An entry lands behind all others, so no place moves; the probe, which
  sorts what it read and takes the entry at the memo's count, finds the memo's.

Administration, for any people, targets, powers, teams and bounds
(`AdministrationConstants`). `IInv` adds to the types what a handler or a pending
change knows of the row that guards it: it has a version no higher than the row's,
and if it has the same one it *is* the row, unless the version has gone back. Where
one read gave value and version (`Captured`), it is also the row the value was
computed from, and whether it loosens was judged on it. Settings are not so:
`NothingIsOverwritten` says of them only that the row whose version was read is
replaced, and `LooseningTakesTwo` says nothing.

* `AdministrationTypes`, `NothingIsOverwritten`, `ChangesResolvedOnce`,
  `LooseningTakesTwo`: action properties, each step of which is
  read off `IInv` and the guard of the write.
* `StealsStrip`: `TeamInv` says the same of the teams a handler has read, each with
  its version, unless a team it read was deleted since; a handler that writes all of
  them where their versions agree strips the service from the one owner it had.

The file store, for any processes, hosts, mutations and faults, assuming
`PowerSynced` (no behaviour both loses power and cannot sync its directory). `SInv`
follows a mutation on its way: `LockKept` (the lock file is the claimant's),
`Tracked` (who waits belongs to an open process whose map has the mutation, and a
snapshot holds what it covers), `Faulted`, and `Durable` (what was answered is on
disk, in the map of whoever has the store, and in every snapshot on its way).

* `StoreTypes`, `OneWriterAtATime`, `AcksAreDurable`, `NoAnswerAfterFailure`.

Submissions, for any copies, keys, attempts and caps. `SInv` says what an admission
still knows when its batch is tried (`Sound`): if the gate has not moved since it was
read, the count stands and what it will index is complete; what it prunes never
counts again.

* `SubmissionTypes`, `CapsNeverExceeded`, `NothingUncounted`.
* `OnceUntilExpiry`: two requests are made for one key only if an id of that key, of a
  request or of the marker that dangled there at first, is past retention.
* `OncePerKeyHolds`: two requests of one key that are both within retention mean that
  a copy which had found the marker expired deleted one that was not. `KInv` says that
  a request within retention is named by its key's marker unless the key was `dropped`
  of so; that a copy on its way to delete a marker has seen an expired id; and that
  no copy makes a request under the id of a dangling marker again. `Forgotten.cfg`
  shows that the exception is met.

Drift, for any handlers, contents, digests, requests and bounds (`DriftConstants`).

* `DriftTypes`; `TypeInv` adds that who holds a version has one, and that an open
  proposal was seen in a version.
* `SubmittedOnceAlways`: inductive as it stands, on the types.
* `LegitimizedOnceAlways`: `EngineerInv` says that the row names the last engineer's
  request made of it (`RowNames`) and that the one a handler found ended stays ended
  (`PriorOf`); a write whose guard holds therefore finds none live.
* `ServedWholeAlways`, `EvidenceYieldsAlways`, if `Orderly`: retention keeps the
  version served (`DriftKeep.cfg`) and does not run beside an upload (`DriftGaps.cfg`,
  `PointerForward`: one that prunes late frees a number in use). As long as no two
  uploads have taken one number (`DriftLost.cfg`), `Clean` holds: a row's file is its
  content, a number referred to by a proposal, a runner or a request still stands for
  the report it stood for, and what a request pins yields its proposals.

Accounts and sessions, for any requests, administrators, secrets, codes and bounds
(`IdentityConstants`). `IInv` says what each request in flight knows of the row it
read: as every write names the version it read, a request whose write succeeds had
read the row as it is. So the session version counts the revocations of everything
(`Counted`), a session is dated by the version it was bought at (`Bought`), a senior
account's session that still counts has passed its factor, or was exempted on an
account that bears an administrator's word for good (`Passed`), and no two requests
that have drawn one code can both spend it (`Codes`).

* `TypeCorrect`, and, if `NamesStay`, `RevocationHolds`, `SecondFactorHolds`,
  `CodesHold`. `NamesStay`: where people sign in, a name is not both deleted and
  enrolled again. `IdentityGaps.cfg` is the counterexample without it.

Projects, for any requests, proposals, artifacts, identities, bundles and bounds
(`ProjectsConstants`, and `ProjectsStart`: a project trusted at the start was trusted
as it stands and serves nothing yet). `ProjectInv` speaks of the id's first life, as
the properties do. There a request or an open proposal holds an earlier reading of the
row, and one with the row's version *is* the row, because every write names its
version and raises it; who writes files or takes a version back owns the version: its
row is his, its files have not landed, and no other request is at it; a version whose
files have landed has the row they were uploaded with; and nothing is swept, because
a sweep starts where the row was deleted.

* `ProjectTypes`, `TrustAlwaysBinds`, `ServedAlwaysComplete`, `LandedAlwaysStays`.

Scan jobs, for any workers, admins, pages, leases and bounds (`ScanConstants`). Every
write of a row names the status its handler read. `IInv` adds that a claim under way
holds a job that is out of the queue, that nobody has got and that no other claim
holds (`Held`), so undoing a claim cannot take a job from a worker that has it.

* `TypeCorrect`, `JobsHandedOnce`, `JobsMoveForward`.

Only model-checked: everything with fairness (`ApplyReleased`, `HoldReleased`,
`WindowSettled`, `Answered`, `Reopens`, `Unwedged`), which is out of the prover's
reach. Every invariant and every action property of the passing runs is a theorem,
some of them under a hypothesis named above, each with the configuration that shows
why it is needed.

## Plan

Done: requests, audit chain, administration and dual control, file store and lock,
projects, scan jobs, identity, submissions, drift; and the proofs above, which cover
every safety property that the runs check. Next:

1. Proofs about what happens where a hypothesis fails: how often a request can be
   applied beside annotations, what a re-enrolled name keeps, how many requests the
   copies of a key whose marker expired can make.
2. The pure functions of the schedule against a reference definition over all small
   windows; the audit log's paged reader.

## Not modelled

The paged reader `readAuditPage`; the lockout counter, password hashing, time-outs of
sessions; the upload token's rate limit; the instance and migration routes; what a
deployment setting means to the deployment; the sweep of expired sessions and the
offline maintenance. Of drift, the read of the report (it changes nothing), the check
button (it triggers an external workflow) and redaction. The settlement of
`domain/settlement.ts` runs to its end before the server listens. The web application,
the catalog tooling (except the scan worker), the importer and the container images
hold no state of record. Validation of parameters and the wire format are data.
