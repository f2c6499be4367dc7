------------------------------- MODULE Projects -------------------------------
(***************************************************************************)
(* One project id: its registry row and the ladder draft, pending-trust,   *)
(* trusted, ready; the rows that gather under it (credentials, staged data *)
(* versions) and the files of those versions; the decisions two admins     *)
(* take about it; its deregistration, which deletes the row in one         *)
(* transaction and sweeps the rest step by step.  (routes/projects.ts,     *)
(* routes/projectData.ts, domain/projectsLifecycle.ts.)  A proposal is     *)
(* applied in one step here: Administration has the acknowledgement's own. *)
(***************************************************************************)
EXTENDS Naturals, FiniteSets, FiniteSetsExt

CONSTANTS
    Proc,        \* requests under way
    Artifact,    \* scans of the repository: the digest of a prescan report
    Identity,    \* cloud identities an admin may confirm
    Bundle,      \* uploaded data
    Proposal,    \* proposals that await a second admin
    None,        \* no value
    Mixes,       \* [ops, meta, sat]: the operations in play and where they start
    MaxData,     \* bound: data versions
    MaxVersion,  \* bound: writes of the registry row
    MaxCrash     \* bound: restarts

ASSUME ProjectsConstants ==
    /\ None \notin Artifact \cup Identity \cup Bundle
    /\ MaxData \in Nat /\ MaxVersion \in Nat \ {0} /\ MaxCrash \in Nat

Rung == {"draft", "pending-trust", "trusted", "ready"}
Onboardable == {"draft", "pending-trust"}
Uploadable == {"trusted", "ready"}
Data == 1..MaxData
Satellite == {"onboard", "upload", "forge"}

Meta == [live : BOOLEAN, status : Rung, archived : BOOLEAN, version : 0..MaxVersion,
         request : Artifact \cup {None}, identity : Identity \cup {None},
         trust : Artifact \cup {None}, active : 0..MaxData]
NoMeta == [live |-> FALSE, status |-> "draft", archived |-> FALSE, version |-> 0,
           request |-> None, identity |-> None, trust |-> None, active |-> 0]

\* A project that is trusted at the start was trusted as it stands, and serves
\* nothing yet.
ASSUME ProjectsStart ==
    \A m \in Mixes :
       /\ m.meta \in Meta /\ m.sat \subseteq Satellite
       /\ m.meta.active = 0
       /\ m.meta.status \in Uploadable => m.meta.trust = m.meta.request

Kind == {"trust", "activate", "unarchive", "deregister"}
Pcs == {"idle", "register", "satellite", "request", "identity", "archive", "propose",
        "upload", "stage", "files", "unstage", "sweep", "sweeping"}

\* What a request has read, and what it is about to write.
Handler == [pc : Pcs, meta : Meta, want : Artifact \cup Identity \cup Bundle \cup Satellite \cup Kind \cup {None},
            data : 0..MaxData, again : BOOLEAN,
            sat : SUBSET Satellite, rows : SUBSET Data, row : BOOLEAN]
Idle == [pc |-> "idle", meta |-> NoMeta, want |-> None, data |-> 0, again |-> FALSE,
         sat |-> {}, rows |-> {}, row |-> FALSE]

\* `seen` is the registry row the proposer and the second admin looked at.
Offer == [state : {"none", "open", "over"}, kind : Kind, seen : Meta, data : 0..MaxData]
NoOffer == [state |-> "none", kind |-> "trust", seen |-> NoMeta, data |-> 0]

VARIABLES
    mix,      \* the operations of this behaviour
    meta,     \* the registry row
    sat,      \* credential rows of the project
    staged,   \* staged[v]: the row of data version v
    files,    \* files[v]: its files
    retired,  \* the id's tombstone
    offer,    \* offer[i]: a proposal
    proc,     \* proc[p]: a request under way
    births,   \* history: how often the id was registered
    vouched,  \* history: the row as it was when two admins trusted it
    crashes   \* how often the server was restarted

partition == <<meta, sat, staged, files, retired>>
projectVars == <<mix, partition, offer, proc, births, vouched, crashes>>

ProjectInit ==
    /\ mix \in Mixes
    /\ meta = mix.meta /\ sat = mix.sat
    /\ staged = [v \in Data |-> None]
    /\ files = [v \in Data |-> None]
    /\ retired = FALSE
    /\ offer = [i \in Proposal |-> NoOffer]
    /\ proc = [p \in Proc |-> Idle]
    /\ births = IF mix.meta.live THEN 1 ELSE 0
    /\ vouched = mix.meta
    /\ crashes = 0

-----------------------------------------------------------------------------
On(op) == op \in mix.ops
At(p, pc) == proc[p].pc = pc
Goto(p, h) == proc' = [proc EXCEPT ![p] = h]
Begin(p, op, h) == On(op) /\ At(p, "idle") /\ Goto(p, h)
Done(p) == Goto(p, Idle)
OnlyHandlers == UNCHANGED <<mix, partition, offer, births, vouched, crashes>>

Holding(pc, want) == [Idle EXCEPT !.pc = pc, !.meta = meta, !.want = want]

MayOnboard(m) == m.live /\ m.status \in Onboardable /\ ~m.archived
MayUpload(m) == m.live /\ m.status \in Uploadable /\ ~m.archived

\* The row is written if its version is still the one that was read.  A row
\* that is gone fails the condition.
MatchesAlways(p) == meta.live
Matches(p) == meta.live /\ meta.version = proc[p].meta.version

-----------------------------------------------------------------------------
(* POST /projects.                                                         *)

RegisterRead(p) ==
    /\ ~meta.live /\ sat = {} /\ ~retired
    /\ \A v \in Data : staged[v] = None
    /\ Begin(p, "register", Holding("register", None))
    /\ OnlyHandlers

Register(p) ==
    /\ At(p, "register")
    /\ Done(p)
    /\ IF meta.live THEN UNCHANGED <<meta, births>>
       ELSE \E id \in Identity \cup {None} :
               /\ meta' = [NoMeta EXCEPT !.live = TRUE, !.version = 1, !.identity = id]
               /\ births' = births + 1
    /\ UNCHANGED <<mix, sat, staged, files, retired, offer, vouched, crashes>>

-----------------------------------------------------------------------------
(* Credentials under the project: onboarding tokens, upload tokens, the    *)
(* sealed forge token.                                                     *)

MayHold(s) ==
    \/ s = "onboard" /\ MayOnboard(meta)
    \/ s = "upload" /\ MayUpload(meta) /\ meta.identity # None
    \/ s = "forge" /\ meta.live /\ ~meta.archived

\* The secret is hashed or sealed between this read and the write.
CredentialRead(p) ==
    /\ \E s \in Satellite : MayHold(s) /\ Begin(p, "credential", Holding("satellite", s))
    /\ OnlyHandlers

CredentialWrite(p) ==
    /\ At(p, "satellite")
    /\ sat' = sat \cup {proc[p].want}
    /\ Done(p)
    /\ UNCHANGED <<mix, meta, staged, files, retired, offer, births, vouched, crashes>>

CredentialRemove ==
    /\ On("credential")
    /\ \E s \in sat : sat' = sat \ {s}
    /\ UNCHANGED <<mix, meta, staged, files, retired, offer, proc, births, vouched, crashes>>

-----------------------------------------------------------------------------
(* The row before it is trusted: artifacts and identity.                   *)

RequestRead(p) ==
    /\ meta.live /\ meta.status \in Onboardable
    /\ \E a \in Artifact : Begin(p, "request", Holding("request", a))
    /\ OnlyHandlers

\* The whole row is put back as it was read, with the artifact in it.
RequestWrite(p) ==
    /\ At(p, "request")
    /\ meta.version < MaxVersion
    /\ meta' = IF ~Matches(p) THEN meta
               ELSE [proc[p].meta EXCEPT !.status = "pending-trust", !.request = proc[p].want,
                                         !.version = @ + 1]
    /\ Done(p)
    /\ UNCHANGED <<mix, sat, staged, files, retired, offer, births, vouched, crashes>>

IdentityRead(p) ==
    /\ MayOnboard(meta)
    /\ \E id \in Identity : Begin(p, "identity", Holding("identity", id))
    /\ OnlyHandlers

\* Variant: the row is put back without its condition.
IdentityWriteUnguarded(p) ==
    /\ At(p, "identity")
    /\ meta.version < MaxVersion
    /\ meta' = IF ~MatchesAlways(p) THEN meta
               ELSE [proc[p].meta EXCEPT !.identity = proc[p].want, !.version = @ + 1]
    /\ Done(p)
    /\ UNCHANGED <<mix, sat, staged, files, retired, offer, births, vouched, crashes>>

IdentityWrite(p) ==
    /\ At(p, "identity")
    /\ meta.version < MaxVersion
    /\ meta' = IF ~Matches(p) THEN meta
               ELSE [proc[p].meta EXCEPT !.identity = proc[p].want, !.version = @ + 1]
    /\ Done(p)
    /\ UNCHANGED <<mix, sat, staged, files, retired, offer, births, vouched, crashes>>

ArchiveRead(p) ==
    /\ meta.live /\ ~meta.archived
    /\ Begin(p, "archive", Holding("archive", None))
    /\ OnlyHandlers

ArchiveWrite(p) ==
    /\ At(p, "archive")
    /\ meta.version < MaxVersion
    /\ meta' = IF ~Matches(p) THEN meta
               ELSE [meta EXCEPT !.archived = TRUE, !.version = proc[p].meta.version + 1]
    /\ Done(p)
    /\ UNCHANGED <<mix, sat, staged, files, retired, offer, births, vouched, crashes>>

-----------------------------------------------------------------------------
(* What two admins decide.                                                 *)

Landed(v) == files[v] # None

\* Variant: the row of the version is taken for its files.
MayProposeUnlanded(k, v) ==
    \/ k = "trust" /\ v = 0 /\ meta.live /\ meta.status = "pending-trust" /\ meta.request # None
    \/ k = "activate" /\ v \in Data /\ MayUpload(meta) /\ meta.active # v /\ staged[v] # None
    \/ k = "unarchive" /\ v = 0 /\ meta.live /\ meta.archived
    \/ k = "deregister" /\ v = 0 /\ meta.live

MayPropose(k, v) ==
    \/ k = "trust" /\ v = 0 /\ meta.live /\ meta.status = "pending-trust" /\ meta.request # None
    \/ k = "activate" /\ v \in Data /\ MayUpload(meta) /\ meta.active # v /\ staged[v] # None /\ Landed(v)
    \/ k = "unarchive" /\ v = 0 /\ meta.live /\ meta.archived
    \/ k = "deregister" /\ v = 0 /\ meta.live

ProposeRead(p) ==
    /\ \E k \in Kind, v \in 0..MaxData :
          MayPropose(k, v) /\ Begin(p, k, [Holding("propose", k) EXCEPT !.data = v])
    /\ OnlyHandlers

ProposeWrite(p) ==
    /\ At(p, "propose")
    /\ \E i \in Proposal :
          /\ offer[i].state = "none"
          /\ offer' = [offer EXCEPT ![i] = [state |-> "open", kind |-> proc[p].want,
                                            seen |-> proc[p].meta, data |-> proc[p].data]]
    /\ Done(p)
    /\ UNCHANGED <<mix, partition, births, vouched, crashes>>

\* The row after a proposal is applied.  The first activation takes a trusted
\* project live.
Applied(o) ==
    CASE o.kind = "trust" -> [meta EXCEPT !.status = "trusted", !.trust = o.seen.request,
                                          !.version = o.seen.version + 1]
      [] o.kind = "activate" -> [meta EXCEPT !.active = o.data, !.version = o.seen.version + 1,
                                             !.status = IF o.seen.status = "trusted" THEN "ready" ELSE @]
      [] o.kind = "unarchive" -> [meta EXCEPT !.archived = FALSE, !.version = o.seen.version + 1]
      [] o.kind = "deregister" -> NoMeta

\* Variant: the version the proposer saw is not compared.
AckUnguarded(p) ==
    /\ At(p, "idle") /\ On("ack")
    /\ meta.live /\ meta.version < MaxVersion
    /\ \E i \in Proposal :
          /\ offer[i].state = "open"
          /\ meta' = Applied(offer[i])
          /\ vouched' = IF offer[i].kind = "trust" THEN offer[i].seen ELSE vouched
          /\ offer' = [offer EXCEPT ![i].state = "over"]
          /\ Goto(p, IF offer[i].kind = "deregister" THEN [Idle EXCEPT !.pc = "sweep"] ELSE Idle)
    /\ UNCHANGED <<mix, sat, staged, files, retired, births, crashes>>

\* The acknowledgement and the change are one transaction, conditional on the
\* version the proposer saw.  What follows a deregistration comes after it.
Ack(p) ==
    /\ At(p, "idle") /\ On("ack")
    /\ meta.live /\ meta.version < MaxVersion
    /\ \E i \in Proposal :
          /\ offer[i].state = "open"
          /\ meta.version = offer[i].seen.version
          /\ meta' = Applied(offer[i])
          /\ vouched' = IF offer[i].kind = "trust" THEN offer[i].seen ELSE vouched
          /\ offer' = [offer EXCEPT ![i].state = "over"]
          /\ Goto(p, IF offer[i].kind = "deregister" THEN [Idle EXCEPT !.pc = "sweep"] ELSE Idle)
    /\ UNCHANGED <<mix, sat, staged, files, retired, births, crashes>>

\* A rejection, or the end of the 72 hours.
Withdraw ==
    /\ \E i \in Proposal : offer[i].state = "open" /\ offer' = [offer EXCEPT ![i].state = "over"]
    /\ UNCHANGED <<mix, partition, proc, births, vouched, crashes>>

-----------------------------------------------------------------------------
(* After a deregistration: everything found under the project is deleted,  *)
(* row by row, then its files, and the id gets its tombstone.              *)

SweepQuery(p) ==
    /\ At(p, "sweep")
    /\ Goto(p, [Idle EXCEPT !.pc = "sweeping", !.sat = sat, !.row = meta.live,
                            !.rows = {v \in Data : staged[v] # None}])
    /\ OnlyHandlers

SweepCredential(p) ==
    /\ At(p, "sweeping")
    /\ \E s \in proc[p].sat : /\ sat' = sat \ {s}
                              /\ Goto(p, [proc[p] EXCEPT !.sat = @ \ {s}])
    /\ UNCHANGED <<mix, meta, staged, files, retired, offer, births, vouched, crashes>>

SweepData(p) ==
    /\ At(p, "sweeping")
    /\ \E v \in proc[p].rows : /\ staged' = [staged EXCEPT ![v] = None]
                               /\ Goto(p, [proc[p] EXCEPT !.rows = @ \ {v}])
    /\ UNCHANGED <<mix, meta, sat, files, retired, offer, births, vouched, crashes>>

SweepRow(p) ==
    /\ At(p, "sweeping") /\ proc[p].row
    /\ meta' = NoMeta
    /\ Goto(p, [proc[p] EXCEPT !.row = FALSE])
    /\ UNCHANGED <<mix, sat, staged, files, retired, offer, births, vouched, crashes>>

Retire(p) ==
    /\ At(p, "sweeping") /\ proc[p].sat = {} /\ proc[p].rows = {} /\ ~proc[p].row
    /\ files' = [v \in Data |-> None]
    /\ retired' = TRUE
    /\ Done(p)
    /\ UNCHANGED <<mix, meta, sat, staged, offer, births, vouched, crashes>>

-----------------------------------------------------------------------------
(* PUT /projects/:id/data: a version is claimed by its row, then written.  *)

UploadGate(p) ==
    /\ "upload" \in sat /\ MayUpload(meta)
    /\ \E b \in Bundle : Begin(p, "upload", [Idle EXCEPT !.pc = "upload", !.want = b])
    /\ OnlyHandlers

UploadNumber(p) ==
    /\ At(p, "upload")
    /\ LET next == Max({0} \cup {v \in Data : staged[v] # None}) + 1
       IN  next <= MaxData /\ Goto(p, [proc[p] EXCEPT !.pc = "stage", !.data = next])
    /\ OnlyHandlers

\* Variant: the row is put without ifNotExists.
UploadStageAnyway(p) ==
    /\ At(p, "stage")
    /\ staged' = [staged EXCEPT ![proc[p].data] = proc[p].want]
    /\ Goto(p, [proc[p] EXCEPT !.pc = "files"])
    /\ UNCHANGED <<mix, meta, sat, files, retired, offer, births, vouched, crashes>>

\* A lost race for the number is tried once more.
UploadStage(p) ==
    /\ At(p, "stage")
    /\ IF staged[proc[p].data] = None
       THEN /\ staged' = [staged EXCEPT ![proc[p].data] = proc[p].want]
            /\ Goto(p, [proc[p] EXCEPT !.pc = "files"])
       ELSE /\ Goto(p, IF proc[p].again THEN Idle ELSE [proc[p] EXCEPT !.pc = "upload", !.again = TRUE])
            /\ UNCHANGED staged
    /\ UNCHANGED <<mix, meta, sat, files, retired, offer, births, vouched, crashes>>

\* A temporary directory takes the version's name when it is complete.
UploadFiles(p) ==
    /\ At(p, "files")
    /\ files' = [files EXCEPT ![proc[p].data] = proc[p].want]
    /\ Done(p)
    /\ UNCHANGED <<mix, meta, sat, staged, retired, offer, births, vouched, crashes>>

UploadFails(p) ==
    /\ At(p, "files") /\ On("full")
    /\ Goto(p, [proc[p] EXCEPT !.pc = "unstage"])
    /\ OnlyHandlers

Unstage(p) ==
    /\ At(p, "unstage")
    /\ staged' = [staged EXCEPT ![proc[p].data] = None]
    /\ Done(p)
    /\ UNCHANGED <<mix, meta, sat, files, retired, offer, births, vouched, crashes>>

-----------------------------------------------------------------------------
ServerRestart ==
    /\ On("crash") /\ crashes < MaxCrash
    /\ crashes' = crashes + 1
    /\ proc' = [p \in Proc |-> Idle]
    /\ UNCHANGED <<mix, partition, offer, births, vouched>>

Onboarding(p) ==
    \/ RegisterRead(p) \/ Register(p)
    \/ CredentialRead(p) \/ CredentialWrite(p)
    \/ RequestRead(p) \/ RequestWrite(p) \/ IdentityRead(p) \/ IdentityWrite(p)
    \/ ArchiveRead(p) \/ ArchiveWrite(p)
    \/ ProposeRead(p) \/ ProposeWrite(p) \/ Ack(p)
Sweeping(p) ==
    SweepQuery(p) \/ SweepCredential(p) \/ SweepData(p) \/ SweepRow(p) \/ Retire(p)
Uploading(p) ==
    UploadGate(p) \/ UploadNumber(p) \/ UploadStage(p) \/ UploadFiles(p) \/ UploadFails(p) \/ Unstage(p)

ProjectNext ==
    \/ \E p \in Proc : Onboarding(p) \/ Sweeping(p) \/ Uploading(p)
    \/ CredentialRemove \/ Withdraw \/ ServerRestart

ProjectSpec == ProjectInit /\ [][ProjectNext]_projectVars

-----------------------------------------------------------------------------
ProjectTypeOK ==
    /\ mix \in Mixes
    /\ meta \in Meta
    /\ sat \subseteq Satellite
    /\ staged \in [Data -> Bundle \cup {None}] /\ files \in [Data -> Bundle \cup {None}]
    /\ retired \in BOOLEAN
    /\ offer \in [Proposal -> Offer]
    /\ proc \in [Proc -> Handler]
    /\ births \in Nat /\ vouched \in Meta /\ crashes \in 0..MaxCrash

\* The trusted row is the one two admins vouched for: the artifact they trusted
\* and the cloud identity that stood beside it are still the row's, whatever
\* uploads, confirmations, archivings and other decisions ran at the same time
\* (CONC-11), as long as the id was registered once.
TrustBinds ==
    births = 1 /\ meta.live /\ meta.status \in {"trusted", "ready"} =>
       /\ meta.trust = meta.request
       /\ meta.request = vouched.request
       /\ meta.identity = vouched.identity

\* What is served is complete: the active version has its row and the files
\* that were uploaded with it, through lost races for a number, failed writes
\* and restarts between the row and its files (DATA-12).
ServedComplete ==
    births = 1 /\ meta.live /\ meta.active > 0 =>
       /\ staged[meta.active] # None
       /\ files[meta.active] = staged[meta.active]

\* A version that has landed keeps its content until the project is gone:
\* digests captured by a proposal cannot drift before the second admin.
LandedStays ==
    [][\A v \in Data :
          meta.live /\ births = 1 /\ files[v] # None /\ staged[v] # None
             => files'[v] = files[v] /\ (meta'.live => staged'[v] = staged[v])]_projectVars

\* "The id is retired rather than recycled."
NeverReborn == births <= 1

\* "A deregistered project must not leave a live upload credential or servable
\* files behind."
NothingLeft ==
    retired => sat = {} /\ \A v \in Data : staged[v] = None /\ files[v] = None
=============================================================================
