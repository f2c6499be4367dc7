----------------------------- MODULE Drift_proofs -----------------------------
(***************************************************************************)
(* Theorems about Drift, for any handlers, reports, proposals and          *)
(* requests.  That a proposal goes into one request is inductive as it     *)
(* stands; that it has one engineer's request at a time rests on the row   *)
(* naming the last of them, and on an ended request staying ended.  What a *)
(* row promises is on disk, and what a request pins yields its proposals,  *)
(* because a number once referred to never gets another report (Clean).    *)
(***************************************************************************)
EXTENDS Drift, FiniteSetTheorems, WellFoundedInduction, TLAPS

-----------------------------------------------------------------------------
(* Types.                                                                  *)

\* Whatever holds a version has one, and what is open has been seen.
HandlerOK(h) ==
    /\ h \in Handler
    /\ h.pc \in {"write", "commit", "list", "prune", "unlink", "schedule", "prior"} => h.version \in Version
RunnerOK(r) ==
    r \in Runner /\ (r.pc = "off" => r = Off) /\ (r.pc # "off" => r.version \in Version)
RowOK(row) == row \in Prop /\ (row.state = "open" => row.seen \in Version)
ReportsOK ==
    /\ rows \in [Version -> Content \cup {None}] /\ files \in [Version -> Content \cup {None}]
    /\ pointer \in 0..MaxVersion
MarksOK == mix \in Mixes /\ collided \in BOOLEAN /\ reopened \subseteq Digest /\ crashes \in 0..MaxCrash

TypeInv ==
    /\ MarksOK /\ ReportsOK
    /\ prop \in [Digest -> Prop] /\ \A d \in Digest : RowOK(prop[d])
    /\ request \in [Request -> Made]
    /\ RunnerOK(runner)
    /\ proc \in [Proc -> Handler] /\ \A p \in Proc : HandlerOK(proc[p])

\* Versions, and the idle records, are well typed.
LEMMA Constants ==
    /\ \A v \in Version : v \in 0..MaxVersion /\ v > 0
    /\ \A v \in 0..MaxVersion : v > 0 => v \in Version
    /\ 0 \in 0..MaxVersion /\ 1 \in Version
    /\ NoProp \in Prop /\ NoRequest \in Made /\ Off \in Runner /\ Idle \in Handler
<1>1. /\ \A v \in Version : v \in 0..MaxVersion /\ v > 0
      /\ \A v \in 0..MaxVersion : v > 0 => v \in Version
      /\ 0 \in 0..MaxVersion /\ 1 \in Version
  BY DriftConstants DEF Version
<1>2. NoProp \in Prop /\ NoRequest \in Made /\ Idle \in Handler
  BY <1>1 DEF NoProp, Prop, NoRequest, Made, Idle, Handler
<1>3. Off \in Runner
  BY <1>1, <1>2 DEF Off, Runner
<1> QED BY <1>1, <1>2, <1>3

\* What a handler becomes.
UploadPc == {"look", "number", "write", "commit", "list", "prune", "unlink", "schedule"}

LEMMA PcMoved ==
    ASSUME NEW h, HandlerOK(h), NEW pc \in UploadPc, h.version \in Version \/ pc \in {"look", "number"}
    PROVE  HandlerOK([h EXCEPT !.pc = pc])
<1>1. [h EXCEPT !.pc = pc].pc = pc /\ [h EXCEPT !.pc = pc].version = h.version
  BY DEF HandlerOK, Handler
<1>2. [h EXCEPT !.pc = pc] \in Handler BY DEF HandlerOK, Handler, UploadPc
<1> QED BY <1>1, <1>2 DEF HandlerOK

LEMMA NumberTaken ==
    ASSUME NEW h, HandlerOK(h), NEW v \in Version
    PROVE  HandlerOK([h EXCEPT !.pc = "write", !.version = v])
BY Constants DEF HandlerOK, Handler

LEMMA StaleListed ==
    ASSUME NEW h, HandlerOK(h), h.version \in Version, NEW s \in SUBSET Version
    PROVE  HandlerOK([h EXCEPT !.pc = "prune", !.stale = s])
BY DEF HandlerOK, Handler

LEMMA StartedOver ==
    ASSUME NEW h, HandlerOK(h)
    PROVE  HandlerOK([h EXCEPT !.pc = "look", !.again = TRUE, !.version = 0])
BY Constants DEF HandlerOK, Handler

LEMMA EvidenceRead ==
    ASSUME NEW h, HandlerOK(h), NEW c \in Content \cup {None}
    PROVE  LET n == [h EXCEPT !.pc = "legitimize", !.content = c] IN
              HandlerOK(n) /\ n.pc = "legitimize" /\ n.of = h.of /\ n.prior = h.prior
BY DEF HandlerOK, Handler

\* How a handler starts.
LEMMA IdleOK == HandlerOK(Idle)
BY Constants DEF HandlerOK, Idle

LEMMA LookStarted ==
    ASSUME NEW c \in Content
    PROVE  HandlerOK([Idle EXCEPT !.pc = "look", !.content = c])
BY Constants DEF HandlerOK, Handler, Idle

LEMMA AskStarted ==
    ASSUME NEW v \in Version
    PROVE  HandlerOK([Idle EXCEPT !.pc = "schedule", !.version = v])
BY Constants DEF HandlerOK, Handler, Idle

LEMMA SubmitStarted ==
    ASSUME NEW b \in SUBSET Digest, NEW c \in Content
    PROVE  HandlerOK([Idle EXCEPT !.pc = "submit", !.of = b, !.content = c])
BY Constants DEF HandlerOK, Handler, Idle

LEMMA PriorStarted ==
    ASSUME NEW d \in Digest, NEW r \in Request \cup {None}, NEW v \in Version
    PROVE  LET n == [Idle EXCEPT !.pc = "prior", !.of = {d}, !.prior = r, !.version = v] IN
              HandlerOK(n) /\ n.pc = "prior" /\ n.of = {d} /\ n.prior = r
<1>1. {d} \in SUBSET Digest /\ v \in 0..MaxVersion BY Constants
<1> QED BY <1>1, Constants DEF HandlerOK, Handler, Idle

\* A handler that moves leaves the others alone.
LEMMA HandlerMoves ==
    ASSUME TypeInv, NEW p \in Proc, NEW h, HandlerOK(h), Goto(p, h)
    PROVE  /\ proc' \in [Proc -> Handler] /\ \A q \in Proc : HandlerOK(proc'[q])
           /\ proc'[p] = h /\ \A q \in Proc : q # p => proc'[q] = proc[q]
<1>1. proc' = [proc EXCEPT ![p] = h] /\ h \in Handler /\ proc \in [Proc -> Handler]
  BY DEF Goto, HandlerOK, TypeInv
<1>2. \A q \in Proc : proc'[q] = IF q = p THEN h ELSE proc[q]
  BY <1>1
<1> QED BY <1>1, <1>2 DEF TypeInv

\* A step of handlers alone.
LEMMA HandlerAlone ==
    ASSUME TypeInv, NEW p \in Proc, NEW h, HandlerOK(h), Goto(p, h), OnlyHandlers
    PROVE  TypeInv'
BY HandlerMoves DEF OnlyHandlers, reports, TypeInv, MarksOK, ReportsOK

\* A step of a handler and the reports.
LEMMA HandlerReports ==
    ASSUME TypeInv, NEW p \in Proc, NEW h, HandlerOK(h), Goto(p, h), ReportsOnly, ReportsOK', collided' \in BOOLEAN
    PROVE  TypeInv'
BY HandlerMoves DEF ReportsOnly, TypeInv, MarksOK

\* The types are what the runs check.
LEMMA TypesFollow == TypeInv => TypeOK
BY DEF TypeInv, TypeOK, MarksOK, ReportsOK, RunnerOK

\* What a generation puts into a row is a row.
LEMMA RowTyped ==
    ASSUME TypeInv, runner.pc = "reconcile", NEW d \in Digest
    PROVE  /\ RowOK(Reconciled(d))
           /\ Reconciled(d).state = "none" => Reconciled(d) = prop[d]
           /\ Reconciled(d).engineer \in {None, prop[d].engineer}
<1>. DEFINE opened == [NoProp EXCEPT !.state = "open", !.seen = runner.version]
            again == [prop[d] EXCEPT !.state = "open", !.seen = runner.version]
            gone == [prop[d] EXCEPT !.state = "superseded"]
<1>1. prop[d] \in Prop /\ RowOK(prop[d]) /\ runner.version \in Version
  BY DEF TypeInv, RunnerOK
<1>2. RowOK(opened) /\ opened.state = "open" /\ opened.engineer = None
  BY <1>1, Constants DEF RowOK, Prop, NoProp
<1>3. /\ RowOK(again) /\ again.state = "open" /\ again.engineer = prop[d].engineer
      /\ RowOK(gone) /\ gone.state = "superseded" /\ gone.engineer = prop[d].engineer
  BY <1>1, Constants DEF RowOK, Prop
<1>4. Reconciled(d) \in {opened, again, gone, prop[d]}
  BY DEF Reconciled
<1> HIDE DEF opened, again, gone
<1> QED BY <1>1, <1>2, <1>3, <1>4

\* The runner, when it goes on or stops, is well typed.
LEMMA DrainTyped == ASSUME TypeInv, Drain PROVE RunnerOK(runner')
<1>1. runner \in Runner /\ runner.queued \in 0..MaxVersion
  BY DEF TypeInv, RunnerOK, Runner
<1>2. CASE runner.queued = 0
  BY <1>2, Constants DEF Drain, Off, RunnerOK
<1>3. CASE runner.queued # 0
  <2>1. runner.queued \in Version BY <1>1, <1>3, DriftConstants DEF Version
  <2>2. runner' = [Off EXCEPT !.pc = "read", !.version = runner.queued] BY <1>3 DEF Drain
  <2>3. runner' \in Runner /\ runner'.pc = "read" /\ runner'.version = runner.queued
    BY <2>2, <1>1, Constants DEF Off, Runner
  <2> QED BY <2>1, <2>3 DEF RunnerOK
<1> QED BY <1>2, <1>3

\* Giving up a number keeps the types.
LEMMA LoseTyped ==
    ASSUME TypeInv, NEW p \in Proc, Lose(p), ReportsOnly, UNCHANGED <<rows, pointer, collided>>, At(p, "commit")
    PROVE  TypeInv'
<1> DEFINE h == [proc[p] EXCEPT !.pc = "look", !.again = TRUE, !.version = 0]
<1>1. proc[p] \in Handler /\ proc[p].version \in Version /\ collided' \in BOOLEAN
  BY DEF TypeInv, HandlerOK, At, MarksOK
<1>2. ReportsOK' BY <1>1 DEF Lose, TypeInv, ReportsOK
<1>3. CASE proc[p].again
  BY <1>1, <1>2, <1>3, HandlerReports, IdleOK DEF Lose, Done
<1>4. CASE ~proc[p].again
  <2>1. Goto(p, h) BY <1>4 DEF Lose
  <2>2. HandlerOK(h) BY StartedOver DEF TypeInv
  <2> QED BY <1>1, <1>2, <2>1, <2>2, HandlerReports
<1> QED BY <1>3, <1>4

\* Every step of an upload, and what asks for a generation, keeps the types.
LEMMA UploadTyped == ASSUME TypeInv, NEW p \in Proc, Upload(p) PROVE TypeInv'
<1>0. /\ HandlerOK(proc[p]) /\ proc[p] \in Handler /\ ReportsOK /\ RunnerOK(runner)
      /\ collided \in BOOLEAN /\ pointer \in 0..MaxVersion
      /\ proc[p].content \in Content \cup {None}
  BY DEF TypeInv, ReportsOK, MarksOK, Handler
<1>1. CASE UploadStart(p)
  <2>1. PICK c \in Content : Goto(p, [Idle EXCEPT !.pc = "look", !.content = c])
    BY <1>1 DEF UploadStart
  <2>2. HandlerOK([Idle EXCEPT !.pc = "look", !.content = c]) BY LookStarted
  <2> QED BY <1>1, <2>1, <2>2, HandlerAlone DEF UploadStart
<1>2. CASE UploadLook(p)
  <2>1. CASE Done(p) BY <1>2, <2>1, HandlerAlone, IdleOK DEF UploadLook, Done
  <2>2. CASE Step(p, "number")
    <3>1. HandlerOK([proc[p] EXCEPT !.pc = "number"]) BY <1>0, PcMoved DEF UploadPc
    <3> QED BY <1>2, <2>2, <3>1, HandlerAlone DEF UploadLook, Step
  <2> QED BY <1>2, <2>1, <2>2 DEF UploadLook
<1>3. CASE UploadNumber(p)
  <2>1. PICK v \in Version : Goto(p, [proc[p] EXCEPT !.pc = "write", !.version = v])
    BY <1>3 DEF UploadNumber
  <2>2. HandlerOK([proc[p] EXCEPT !.pc = "write", !.version = v])
    BY <1>0, NumberTaken
  <2> QED BY <1>3, <2>1, <2>2, HandlerAlone DEF UploadNumber
<1>4. CASE UploadWrite(p)
  <2>1. proc[p].version \in Version BY <1>0, <1>4 DEF UploadWrite, At, HandlerOK
  <2>2. ReportsOK' BY <1>0, <1>4, <2>1 DEF UploadWrite, ReportsOK
  <2>3. collided' \in BOOLEAN BY <1>0, <1>4 DEF UploadWrite
  <2>4. HandlerOK([proc[p] EXCEPT !.pc = "commit"]) BY <1>0, <2>1, PcMoved DEF UploadPc
  <2> QED BY <1>4, <2>2, <2>3, <2>4, HandlerReports DEF UploadWrite, Step
<1>5. CASE UploadCommit(p)
  <2>1. proc[p].version \in Version BY <1>0, <1>5 DEF UploadCommit, At, HandlerOK
  <2>2. CASE rows[proc[p].version] = None
    <3>1. ReportsOK' BY <1>0, <1>5, <2>1, <2>2, Constants DEF UploadCommit, ReportsOK
    <3>2. Step(p, "list") BY <1>5, <2>2 DEF UploadCommit
    <3>3. HandlerOK([proc[p] EXCEPT !.pc = "list"]) BY <1>0, <2>1, PcMoved DEF UploadPc
    <3> QED BY <1>0, <1>5, <3>1, <3>2, <3>3, HandlerReports DEF UploadCommit, Step
  <2>3. CASE rows[proc[p].version] # None
    BY <1>5, <2>3, LoseTyped DEF UploadCommit
  <2> QED BY <2>2, <2>3
<1>6. CASE UploadContended(p)
  BY <1>6, LoseTyped DEF UploadContended
<1>7. CASE PruneList(p)
  <2>1. PICK s \in SUBSET Version : Goto(p, [proc[p] EXCEPT !.pc = "prune", !.stale = s])
    BY <1>7 DEF PruneList, Stored
  <2>2. HandlerOK([proc[p] EXCEPT !.pc = "prune", !.stale = s])
    <3>1. proc[p].version \in Version BY <1>0, <1>7 DEF HandlerOK, PruneList, At
    <3> QED BY <1>0, <3>1, StaleListed
  <2> QED BY <1>7, <2>1, <2>2, HandlerAlone DEF PruneList
<1>8. CASE PruneRow(p)
  <2>1. ReportsOK' BY <1>0, <1>8 DEF PruneRow, ReportsOK
  <2>2. proc[p].version \in Version BY <1>0, <1>8 DEF PruneRow, At, HandlerOK
  <2>3. HandlerOK([proc[p] EXCEPT !.pc = "unlink"]) BY <1>0, <2>2, PcMoved DEF UploadPc
  <2> QED BY <1>0, <1>8, <2>1, <2>3, HandlerReports DEF PruneRow, Step
<1>9. CASE PruneFile(p)
  <2>1. ReportsOK' BY <1>0, <1>9 DEF PruneFile, ReportsOK
  <2>2. PICK s \in SUBSET Version : Goto(p, [proc[p] EXCEPT !.pc = "prune", !.stale = s])
    <3>1. proc[p].stale \ {Min(proc[p].stale)} \in SUBSET Version BY <1>0 DEF Handler
    <3> QED BY <1>9, <3>1 DEF PruneFile
  <2>3. HandlerOK([proc[p] EXCEPT !.pc = "prune", !.stale = s])
    <3>1. proc[p].version \in Version BY <1>0, <1>9 DEF HandlerOK, PruneFile, At
    <3> QED BY <1>0, <3>1, StaleListed
  <2> QED BY <1>0, <1>9, <2>1, <2>2, <2>3, HandlerReports DEF PruneFile
<1>10. CASE Pruned(p)
  <2>1. proc[p].version \in Version BY <1>0, <1>10 DEF Pruned, At, HandlerOK
  <2>2. HandlerOK([proc[p] EXCEPT !.pc = "schedule"]) BY <1>0, <2>1, PcMoved DEF UploadPc
  <2>3. CASE Done(p) BY <1>10, <2>3, HandlerAlone, IdleOK DEF Pruned, Done
  <2>4. CASE Step(p, "schedule") BY <1>10, <2>2, <2>4, HandlerAlone DEF Pruned, Step
  <2> QED BY <1>10, <2>3, <2>4 DEF Pruned
<1>11. CASE AskGenerate(p)
  <2>1. pointer \in Version BY <1>0, <1>11, Constants DEF AskGenerate
  <2>2. HandlerOK([Idle EXCEPT !.pc = "schedule", !.version = pointer])
    BY <2>1, AskStarted
  <2> QED BY <1>11, <2>2, HandlerAlone DEF AskGenerate
<1>12. CASE Schedule(p)
  <2>1. proc[p].version \in Version /\ proc[p].version \in 0..MaxVersion
    BY <1>0, <1>12, Constants DEF Schedule, At, HandlerOK
  <2>2. RunnerOK(runner')
    <3>1. CASE runner.pc = "off"
      BY <1>12, <2>1, <3>1, Constants DEF Schedule, Off, Runner, RunnerOK
    <3>2. CASE runner.pc # "off"
      BY <1>0, <1>12, <2>1, <3>2 DEF Schedule, Runner, RunnerOK
    <3> QED BY <3>1, <3>2
  <2>3. Goto(p, Idle) BY <1>12 DEF Schedule, Done
  <2> QED BY <1>12, <2>2, <2>3, HandlerMoves, IdleOK
       DEF Schedule, reports, TypeInv, MarksOK, ReportsOK
<1> QED BY <1>1, <1>2, <1>3, <1>4, <1>5, <1>6, <1>7, <1>8, <1>9, <1>10, <1>11, <1>12 DEF Upload

\* A generation keeps the types.
LEMMA GenerationTyped == ASSUME TypeInv, Generation PROVE TypeInv'
<1>0. runner \in Runner /\ prop \in [Digest -> Prop] BY DEF TypeInv, RunnerOK
<1>1. ASSUME RunnerOK(runner'), UNCHANGED <<mix, reports, prop, request, proc, collided, reopened, crashes>>
      PROVE  TypeInv'
  BY <1>1 DEF TypeInv, MarksOK, ReportsOK, reports
<1>2. CASE GenRead
  <2>1. CASE files[runner.version] = None
    BY <1>1, <1>2, <2>1, DrainTyped DEF GenRead
  <2>2. CASE files[runner.version] # None
    <3>1. runner.version \in Version BY <1>2 DEF GenRead, TypeInv, RunnerOK
    <3>2. files[runner.version] \in Content \cup {None} BY <3>1 DEF TypeInv, ReportsOK
    <3>3. runner' = [runner EXCEPT !.pc = "generate", !.content = files[runner.version]]
      BY <1>2, <2>2 DEF GenRead
    <3>4. runner' \in Runner /\ runner'.pc = "generate" /\ runner'.version = runner.version
      BY <1>0, <3>2, <3>3 DEF Runner
    <3> QED BY <1>1, <1>2, <3>1, <3>4 DEF GenRead, RunnerOK
  <2> QED BY <2>1, <2>2
<1>3. CASE GenFail
  BY <1>1, <1>3, DrainTyped DEF GenFail
<1>4. CASE GenQuery
  <2>1. runner' \in Runner /\ runner'.pc = "reconcile" /\ runner'.version = runner.version
    BY <1>0, <1>4 DEF GenQuery, Runner
  <2> QED BY <1>1, <1>4, <2>1 DEF GenQuery, RunnerOK, TypeInv
<1>5. CASE GenCommit
  <2>1. /\ prop' = [d \in Digest |-> Reconciled(d)] /\ runner.pc = "reconcile"
        /\ reopened' \subseteq Digest
    BY <1>5 DEF GenCommit, TypeInv, MarksOK
  <2>2. prop' \in [Digest -> Prop] /\ \A d \in Digest : RowOK(prop'[d])
    BY <2>1, RowTyped DEF RowOK
  <2> QED BY <1>5, <2>1, <2>2, DrainTyped DEF GenCommit, TypeInv, MarksOK, ReportsOK, reports
<1> QED BY <1>2, <1>3, <1>4, <1>5 DEF Generation

\* What is made of proposals keeps the types.
LEMMA SubmissionTyped == ASSUME TypeInv, NEW p \in Proc, Submission(p) PROVE TypeInv'
<1>0. /\ HandlerOK(proc[p]) /\ proc[p] \in Handler /\ request \in [Request -> Made]
      /\ prop \in [Digest -> Prop] /\ \A d \in Digest : RowOK(prop[d])
      /\ \A v \in Version : files[v] \in Content \cup {None}
      /\ pointer \in 0..MaxVersion
  BY DEF TypeInv, ReportsOK, HandlerOK
<1>1. ASSUME NEW r \in Request, NEW kind \in {"change", "engineer"}, Make(r, kind, p)
      PROVE  request' \in [Request -> Made]
  <2>1. proc[p].of \in SUBSET Digest /\ proc[p].content \in Content \cup {None} BY <1>0 DEF Handler
  <2> QED BY <1>0, <1>1, <2>1 DEF Make, Made
<1>2. ASSUME Done(p), request' \in [Request -> Made], prop' \in [Digest -> Prop],
             \A d \in Digest : RowOK(prop'[d]),
             UNCHANGED <<mix, reports, runner, collided, reopened, crashes>>
      PROVE  TypeInv'
  BY <1>2, HandlerMoves, IdleOK DEF Done, TypeInv, MarksOK, ReportsOK, reports
<1>3. CASE SubmitRead(p)
  <2>1. files[pointer] \in Content BY <1>0, <1>3, Constants DEF SubmitRead
  <2>2. PICK b \in SUBSET Digest : Goto(p, [Idle EXCEPT !.pc = "submit", !.of = b, !.content = files[pointer]])
    BY <1>3 DEF SubmitRead, Batches
  <2>3. HandlerOK([Idle EXCEPT !.pc = "submit", !.of = b, !.content = files[pointer]])
    BY <2>1, SubmitStarted
  <2> QED BY <1>3, <2>2, <2>3, HandlerAlone DEF SubmitRead
<1>4. CASE SubmitWrite(p)
  <2>1. CASE UNCHANGED <<request, prop>>
    BY <1>0, <1>2, <1>4, <2>1 DEF SubmitWrite
  <2>2. ASSUME NEW r \in Request, Make(r, "change", p),
               prop' = [d \in Digest |-> IF d \in proc[p].of
                          THEN [prop[d] EXCEPT !.state = "submitted", !.request = r] ELSE prop[d]]
        PROVE  TypeInv'
    <3>1. \A d \in Digest : LET n == [prop[d] EXCEPT !.state = "submitted", !.request = r] IN
             n \in Prop /\ n.state = "submitted"
      BY <1>0 DEF Prop
    <3>2. prop' \in [Digest -> Prop] /\ \A d \in Digest : RowOK(prop'[d])
      BY <1>0, <2>2, <3>1 DEF RowOK
    <3> QED BY <1>1, <1>2, <1>4, <2>2, <3>2 DEF SubmitWrite
  <2> QED BY <1>4, <2>1, <2>2 DEF SubmitWrite
<1>5. CASE LegitimizeRead(p)
  <2>1. PICK d \in Reverts : /\ prop[d].state = "open"
           /\ Goto(p, [Idle EXCEPT !.pc = "prior", !.of = {d}, !.prior = prop[d].engineer,
                                   !.version = prop[d].seen])
    BY <1>5 DEF LegitimizeRead
  <2>2. d \in Digest /\ prop[d].engineer \in Request \cup {None} /\ prop[d].seen \in Version
    BY <1>0, <2>1, DriftConstants DEF RowOK, Prop
  <2>3. HandlerOK([Idle EXCEPT !.pc = "prior", !.of = {d}, !.prior = prop[d].engineer, !.version = prop[d].seen])
    BY <2>2, PriorStarted
  <2> QED BY <1>5, <2>1, <2>3, HandlerAlone DEF LegitimizeRead
<1>6. CASE LegitimizePrior(p)
  <2>1. CASE Done(p) BY <1>6, <2>1, HandlerAlone, IdleOK DEF LegitimizePrior, Done
  <2>2. CASE ~Done(p)
    <3>1. /\ pointer = proc[p].version /\ proc[p].version \in Version
          /\ Goto(p, [proc[p] EXCEPT !.pc = "legitimize", !.content = files[pointer]])
      BY <1>0, <1>6, <2>2 DEF LegitimizePrior, At, HandlerOK
    <3>2. HandlerOK([proc[p] EXCEPT !.pc = "legitimize", !.content = files[pointer]])
      BY <1>0, <3>1, EvidenceRead
    <3> QED BY <1>6, <3>1, <3>2, HandlerAlone DEF LegitimizePrior
  <2> QED BY <2>1, <2>2
<1>7. CASE LegitimizeWrite(p)
  <2> DEFINE d == CHOOSE e \in proc[p].of : TRUE
  <2>1. CASE UNCHANGED <<request, prop>>
    BY <1>0, <1>2, <1>7, <2>1 DEF LegitimizeWrite
  <2>2. ASSUME NEW r \in Request, Make(r, "engineer", p), prop' = [prop EXCEPT ![d].engineer = r]
        PROVE  TypeInv'
    <3> HIDE DEF d
    <3>1. \A e \in Digest : LET n == [prop[e] EXCEPT !.engineer = r] IN
             n \in Prop /\ n.state = prop[e].state /\ n.seen = prop[e].seen
      BY <1>0 DEF Prop
    <3>2. /\ prop' \in [Digest -> Prop]
          /\ \A e \in Digest : prop'[e] \in {prop[e], [prop[e] EXCEPT !.engineer = r]}
      BY <1>0, <2>2, <3>1
    <3>3. \A e \in Digest : RowOK(prop'[e])
      BY <1>0, <3>1, <3>2 DEF RowOK
    <3> QED BY <1>1, <1>2, <1>7, <2>2, <3>2, <3>3 DEF LegitimizeWrite
  <2> QED BY <1>7, <2>1, <2>2 DEF LegitimizeWrite
<1> QED BY <1>3, <1>4, <1>5, <1>6, <1>7 DEF Submission

\* A request that ends, and a restart.
LEMMA EnvironmentTyped == ASSUME TypeInv, RequestEnds \/ Restart PROVE TypeInv'
<1>1. CASE RequestEnds
  <2>1. PICK r \in Request : request' = [request EXCEPT ![r].state = "ended"]
    BY <1>1 DEF RequestEnds
  <2>2. request' \in [Request -> Made] BY <2>1 DEF TypeInv, Made
  <2> QED BY <1>1, <2>2 DEF RequestEnds, TypeInv, MarksOK, ReportsOK, reports
<1>2. CASE Restart
  <2>1. crashes' \in 0..MaxCrash BY <1>2, DriftConstants DEF Restart, TypeInv, MarksOK
  <2>2. RunnerOK(Off) BY Constants DEF RunnerOK, Off
  <2>3. proc' \in [Proc -> Handler] /\ \A p \in Proc : HandlerOK(proc'[p])
    BY <1>2, Constants, IdleOK DEF Restart
  <2> QED BY <1>2, <2>1, <2>2, <2>3 DEF Restart, TypeInv, MarksOK, ReportsOK, reports
<1> QED BY <1>1, <1>2

LEMMA InitTyped == Init => TypeInv
<1> SUFFICES ASSUME Init PROVE TypeInv OBVIOUS
<1>1. mix.start \in Content \cup {None} /\ mix \in Mixes
  BY DriftConstants DEF Init, Mix
<1>2. ReportsOK /\ MarksOK
  <2>1. rows \in [Version -> Content \cup {None}] BY <1>1 DEF Init
  <2>2. files = rows /\ pointer \in {0, 1} BY DEF Init
  <2>3. collided = FALSE /\ reopened = {} /\ crashes = 0 BY DEF Init
  <2>4. pointer \in 0..MaxVersion /\ crashes \in 0..MaxCrash
    <3>1. 0 \in 0..MaxVersion /\ 1 \in 0..MaxVersion /\ 0 \in 0..MaxCrash BY DriftConstants
    <3> QED BY <2>2, <2>3, <3>1
  <2>5. files \in [Version -> Content \cup {None}] BY <2>1, <2>2
  <2> QED BY <1>1, <2>1, <2>3, <2>4, <2>5 DEF ReportsOK, MarksOK
<1>3. /\ [NoProp EXCEPT !.state = "open", !.seen = 1] \in Prop
      /\ [NoProp EXCEPT !.state = "open", !.seen = 1].seen = 1
      /\ NoProp.state = "none"
  BY Constants DEF NoProp, Prop
<1>4. prop \in [Digest -> Prop] /\ \A d \in Digest : RowOK(prop[d])
  BY <1>3, Constants DEF Init, RowOK
<1>5. RunnerOK(runner) BY Constants DEF Init, RunnerOK, Off
<1>6. proc \in [Proc -> Handler] /\ \A p \in Proc : HandlerOK(proc[p])
  BY Constants, IdleOK DEF Init
<1> QED BY <1>2, <1>4, <1>5, <1>6, Constants DEF Init, TypeInv

LEMMA StepTyped == TypeInv /\ [Next]_vars => TypeInv'
<1> SUFFICES ASSUME TypeInv, [Next]_vars PROVE TypeInv' OBVIOUS
<1>1. CASE UNCHANGED vars BY <1>1 DEF vars, TypeInv, MarksOK, ReportsOK
<1>2. CASE Next
  BY <1>2, UploadTyped, SubmissionTyped, GenerationTyped, EnvironmentTyped DEF Next
<1> QED BY <1>1, <1>2

LEMMA TypesInvariant == Spec => []TypeInv
BY InitTyped, StepTyped, PTL DEF Spec

\* Reports, proposals, requests, the runner and the handlers stay well typed.
THEOREM DriftTypes == Spec => []TypeOK
BY TypesInvariant, TypesFollow, PTL

-----------------------------------------------------------------------------
(* One request for a proposal.                                             *)

\* A submission makes a request of proposals that are open, so of none that is
\* in another.
LEMMA WriteOnce == ASSUME TypeInv, SubmittedOnce, NEW p \in Proc, SubmitWrite(p) PROVE SubmittedOnce'
<1>0. /\ reopened' = reopened /\ prop \in [Digest -> Prop] /\ request \in [Request -> Made]
      /\ proc[p].of \subseteq Digest
  BY DEF SubmitWrite, TypeInv, Handler
<1>1. CASE UNCHANGED <<request, prop>> BY <1>0, <1>1 DEF SubmittedOnce
<1>2. ASSUME NEW r \in Request, Make(r, "change", p), \A d \in proc[p].of : prop[d].state = "open",
             prop' = [d \in Digest |-> IF d \in proc[p].of
                        THEN [prop[d] EXCEPT !.state = "submitted", !.request = r] ELSE prop[d]]
      PROVE  SubmittedOnce'
  <2>1. /\ request'[r].of = proc[p].of
        /\ \A x \in Request : x # r => request'[x] = request[x]
    BY <1>0, <1>2 DEF Make
  <2>2. \A d \in proc[p].of : prop'[d].state = "submitted" /\ prop'[d].request = r
    BY <1>0, <1>2 DEF Prop
  <2>3. \A d \in Digest \ proc[p].of : prop'[d] = prop[d] BY <1>2
  <2>4. ASSUME NEW x \in Request, x # r, request'[x].kind = "change", NEW d \in request'[x].of \ reopened'
        PROVE  prop'[d].state = "submitted" /\ prop'[d].request = x
    <3>1. d \in Digest /\ prop[d].state = "submitted" /\ prop[d].request = x
      BY <1>0, <2>1, <2>4 DEF SubmittedOnce, Made
    <3>2. d \notin proc[p].of BY <1>2, <3>1
    <3> QED BY <2>3, <3>1, <3>2
  <2> QED BY <2>1, <2>2, <2>4 DEF SubmittedOnce
<1> QED BY <1>1, <1>2 DEF SubmitWrite

\* A legitimization marks its row and leaves what is submitted alone.
LEMMA LegitimizeLeaves ==
    ASSUME TypeInv, SubmittedOnce, NEW p \in Proc, LegitimizeWrite(p) PROVE SubmittedOnce'
<1> DEFINE e == CHOOSE x \in proc[p].of : TRUE
<1>0. reopened' = reopened /\ prop \in [Digest -> Prop] /\ request \in [Request -> Made]
  BY DEF LegitimizeWrite, TypeInv
<1>1. CASE UNCHANGED <<request, prop>> BY <1>0, <1>1 DEF SubmittedOnce
<1>2. ASSUME NEW r \in Request, Make(r, "engineer", p), prop' = [prop EXCEPT ![e].engineer = r]
      PROVE  SubmittedOnce'
  <2> HIDE DEF e
  <2>1. \A d \in Digest : prop'[d].state = prop[d].state /\ prop'[d].request = prop[d].request
    BY <1>0, <1>2 DEF Prop
  <2>2. /\ request'[r].kind = "engineer"
        /\ \A x \in Request : x # r => request'[x] = request[x]
    BY <1>0, <1>2 DEF Make
  <2>3. \A x \in Request : request[x].of \subseteq Digest BY <1>0 DEF Made
  <2> QED BY <1>0, <2>1, <2>2, <2>3 DEF SubmittedOnce
<1> QED BY <1>1, <1>2 DEF LegitimizeWrite

LEMMA StepOnce == TypeInv /\ SubmittedOnce /\ [Next]_vars => SubmittedOnce'
<1> SUFFICES ASSUME TypeInv, SubmittedOnce, [Next]_vars PROVE SubmittedOnce' OBVIOUS
<1>0. \A r \in Request : request[r].of \subseteq Digest /\ prop \in [Digest -> Prop]
  BY DEF TypeInv, Made
<1>1. ASSUME UNCHANGED <<request, prop, reopened>> PROVE SubmittedOnce' BY <1>1 DEF SubmittedOnce
<1>2. CASE UNCHANGED vars BY <1>1, <1>2 DEF vars
<1>3. ASSUME NEW p \in Proc, Upload(p) PROVE SubmittedOnce'
  BY <1>1, <1>3 DEF Upload, UploadStart, UploadLook, UploadNumber, UploadWrite, UploadCommit, UploadContended,
     PruneList, PruneRow, PruneFile, Pruned, AskGenerate, Schedule, OnlyHandlers, ReportsOnly
<1>4. ASSUME NEW p \in Proc, Submission(p) PROVE SubmittedOnce'
  BY <1>1, <1>4, WriteOnce, LegitimizeLeaves
     DEF Submission, SubmitRead, LegitimizeRead, LegitimizePrior, OnlyHandlers
<1>5. CASE Generation
  <2>1. CASE GenCommit
    <3>1. \A d \in Digest \ reopened' : prop[d].state = "submitted" => prop'[d] = prop[d]
      BY <2>1 DEF GenCommit
    <3>2. reopened \subseteq reopened' /\ request' = request BY <2>1 DEF GenCommit
    <3> QED BY <1>0, <3>1, <3>2 DEF SubmittedOnce
  <2> QED BY <1>1, <1>5, <2>1 DEF Generation, GenRead, GenFail, GenQuery
<1>6. CASE RequestEnds
  <2>1. PICK r \in Request : request' = [request EXCEPT ![r].state = "ended"] BY <1>6 DEF RequestEnds
  <2>2. \A x \in Request : request'[x].of = request[x].of /\ request'[x].kind = request[x].kind
    BY <2>1 DEF TypeInv, Made
  <2> QED BY <1>6, <2>2 DEF RequestEnds, SubmittedOnce
<1>7. CASE Restart BY <1>1, <1>7 DEF Restart
<1> QED BY <1>2, <1>3, <1>4, <1>5, <1>6, <1>7 DEF Next

LEMMA InitOnce == Init => SubmittedOnce
<1>1. NoRequest.kind = "none" BY DEF NoRequest
<1> QED BY <1>1 DEF Init, SubmittedOnce

\* A proposal is in the one request its row names, with all of its batch, for
\* any number of submissions at once.
THEOREM SubmittedOnceAlways == Spec => []SubmittedOnce
<1>1. TypeInv /\ SubmittedOnce /\ [Next]_vars => SubmittedOnce' BY StepOnce
<1> QED BY <1>1, InitOnce, TypesInvariant, PTL DEF Spec

-----------------------------------------------------------------------------
(* One engineer's request at a time.                                       *)

\* The row of a proposal names the last engineer's request made of it.
RowNames ==
    /\ \A r \in Request : request[r].state = "live" /\ request[r].kind = "engineer"
          => \A d \in request[r].of : prop[d].engineer = r
    /\ \A d \in Digest : /\ prop[d].state = "none" => prop[d].engineer = None
                         /\ prop[d].engineer # None => request[prop[d].engineer].state # "none"

\* A legitimization is of one proposal that there is, and the request it found
\* in the row has ended by the time it writes.
PriorOf(h) ==
    /\ h.pc \in {"prior", "legitimize"} =>
         /\ \E d \in Digest : h.of = {d} /\ prop[d].state # "none"
         /\ h.prior # None => request[h.prior].state # "none"
    /\ h.pc = "legitimize" /\ h.prior # None => request[h.prior].state = "ended"
EngineerInv == RowNames /\ \A p \in Proc : PriorOf(proc[p])

\* What rows and requests may do without disturbing this.
LEMMA EngineersStay ==
    ASSUME TypeInv, EngineerInv,
           \A d \in Digest : /\ prop'[d].engineer = prop[d].engineer
                             /\ prop'[d].state = "none" => prop[d].state = "none",
           \A r \in Request : /\ request'[r].state = "live" /\ request'[r].kind = "engineer" =>
                                   /\ request[r].state = "live" /\ request[r].kind = "engineer"
                                   /\ request'[r].of = request[r].of
                              /\ request[r].state # "none" => request'[r].state # "none"
                              /\ request[r].state = "ended" => request'[r].state = "ended"
    PROVE  /\ RowNames'
           /\ \A h \in Handler : PriorOf(h) => PriorOf(h)'
<1>1. /\ \A d \in Digest : prop[d].engineer \in Request \cup {None}
      /\ \A r \in Request : request[r].of \subseteq Digest
  BY DEF TypeInv, Prop, Made
<1>2. RowNames' BY <1>1 DEF EngineerInv, RowNames
<1>3. ASSUME NEW h \in Handler, PriorOf(h) PROVE PriorOf(h)'
  <2>1. h.prior \in Request \cup {None} BY DEF Handler
  <2> QED BY <1>3, <2>1 DEF PriorOf
<1> QED BY <1>2, <1>3

\* The same of a step that leaves rows and requests alone.
LEMMA HandlersOnly ==
    ASSUME TypeInv, EngineerInv, UNCHANGED <<prop, request>>, NEW p \in Proc, NEW h, Goto(p, h),
           h.pc \notin {"prior", "legitimize"}
    PROVE  EngineerInv'
<1>1. proc' = [proc EXCEPT ![p] = h] /\ proc \in [Proc -> Handler] BY DEF Goto, TypeInv
<1>2. RowNames' BY DEF EngineerInv, RowNames
<1>3. ASSUME NEW q \in Proc PROVE PriorOf(proc[q])'
  <2>1. CASE q = p
    <3>1. proc'[q] = h BY <1>1, <2>1
    <3> QED BY <3>1 DEF PriorOf
  <2>2. CASE q # p
    <3>1. proc'[q] = proc[q] BY <1>1, <2>2
    <3> QED BY <3>1 DEF EngineerInv, PriorOf
  <2> QED BY <2>1, <2>2
<1> QED BY <1>2, <1>3 DEF EngineerInv

\* An upload moves on through its own places.
LEMMA UploadMoves ==
    ASSUME TypeInv, NEW p \in Proc, Upload(p)
    PROVE  UNCHANGED <<prop, request>> /\ \E h : Goto(p, h) /\ h.pc \in UploadPc \cup {"idle"}
<1>0. proc[p] \in Handler /\ Idle.pc = "idle" BY DEF TypeInv, Idle
<1>1. \A pc \in UploadPc : Step(p, pc) => \E h : Goto(p, h) /\ h.pc \in UploadPc
  <2>1. \A pc \in UploadPc : [proc[p] EXCEPT !.pc = pc].pc = pc BY <1>0 DEF Handler
  <2> QED BY <2>1 DEF Step
<1>2. Done(p) => \E h : Goto(p, h) /\ h.pc = "idle" BY <1>0 DEF Done
<1>3. UNCHANGED <<prop, request>>
  BY DEF Upload, UploadStart, UploadLook, UploadNumber, UploadWrite, UploadCommit, UploadContended,
     PruneList, PruneRow, PruneFile, Pruned, AskGenerate, Schedule, OnlyHandlers, ReportsOnly
<1>4. Lose(p) => \E h : Goto(p, h) /\ h.pc \in UploadPc \cup {"idle"}
  <2>1. [proc[p] EXCEPT !.pc = "look", !.again = TRUE, !.version = 0].pc = "look" BY <1>0 DEF Handler
  <2> QED BY <1>2, <2>1 DEF Lose, UploadPc
<1>5. CASE UploadStart(p)
  <2>1. \A c : [Idle EXCEPT !.pc = "look", !.content = c].pc = "look" BY DEF Idle
  <2> QED BY <1>3, <1>5, <2>1 DEF UploadStart, UploadPc
<1>6. CASE UploadNumber(p)
  <2>1. \A v : [proc[p] EXCEPT !.pc = "write", !.version = v].pc = "write" BY <1>0 DEF Handler
  <2> QED BY <1>3, <1>6, <2>1 DEF UploadNumber, UploadPc
<1>7. CASE PruneList(p) \/ PruneFile(p)
  <2>1. \A v : [proc[p] EXCEPT !.pc = "prune", !.stale = v].pc = "prune" BY <1>0 DEF Handler
  <2> QED BY <1>3, <1>7, <2>1 DEF PruneList, PruneFile, UploadPc
<1>8. CASE AskGenerate(p)
  <2>1. [Idle EXCEPT !.pc = "schedule", !.version = pointer].pc = "schedule" BY DEF Idle
  <2> QED BY <1>3, <1>8, <2>1 DEF AskGenerate, UploadPc
<1>9. CASE UploadLook(p) \/ UploadWrite(p) \/ PruneRow(p) \/ Pruned(p)
  <2>1. Done(p) \/ Step(p, "number") \/ Step(p, "commit") \/ Step(p, "unlink") \/ Step(p, "schedule")
    BY <1>9 DEF UploadLook, UploadWrite, PruneRow, Pruned
  <2> QED BY <1>1, <1>2, <1>3, <2>1 DEF UploadPc
<1>10. CASE UploadCommit(p) \/ UploadContended(p)
  <2>1. Step(p, "list") \/ Lose(p) BY <1>10 DEF UploadCommit, UploadContended
  <2> QED BY <1>1, <1>3, <1>4, <2>1 DEF UploadPc
<1>11. CASE Schedule(p) BY <1>2, <1>3, <1>11 DEF Schedule
<1> QED BY <1>5, <1>6, <1>7, <1>8, <1>9, <1>10, <1>11 DEF Upload

\* A legitimization that has read the row, and then the request it names.
LEMMA LegitimizeReads ==
    ASSUME TypeInv, EngineerInv, NEW p \in Proc, LegitimizeRead(p) \/ LegitimizePrior(p)
    PROVE  EngineerInv'
<1>0. /\ UNCHANGED <<prop, request>> /\ proc \in [Proc -> Handler] /\ HandlerOK(proc[p])
      /\ \A d \in Digest : prop[d].engineer \in Request \cup {None}
      /\ \A r \in Request : request[r].state \in {"none", "live", "ended"}
  BY DEF LegitimizeRead, LegitimizePrior, OnlyHandlers, TypeInv, Prop, Made
<1>1. ASSUME NEW h, Goto(p, h), PriorOf(h) PROVE EngineerInv'
  <2>1. \A q \in Proc : proc'[q] = IF q = p THEN h ELSE proc[q] BY <1>0, <1>1 DEF Goto
  <2>2. \A q \in Proc : PriorOf(proc'[q]) BY <1>1, <2>1 DEF EngineerInv
  <2> QED BY <1>0, <2>2 DEF EngineerInv, RowNames, PriorOf
<1>2. CASE LegitimizeRead(p)
  <2>1. PICK d \in Reverts : /\ prop[d].state = "open"
           /\ Goto(p, [Idle EXCEPT !.pc = "prior", !.of = {d}, !.prior = prop[d].engineer,
                                   !.version = prop[d].seen])
    BY <1>2 DEF LegitimizeRead
  <2> DEFINE h == [Idle EXCEPT !.pc = "prior", !.of = {d}, !.prior = prop[d].engineer, !.version = prop[d].seen]
  <2>2. d \in Digest BY DriftConstants
  <2>3. h.pc = "prior" /\ h.of = {d} /\ h.prior = prop[d].engineer BY DEF Idle
  <2>4. prop[d].engineer # None => request[prop[d].engineer].state # "none"
    BY <2>2 DEF EngineerInv, RowNames
  <2>5. Goto(p, h) BY <2>1
  <2> HIDE DEF h
  <2>6. PriorOf(h) BY <2>1, <2>2, <2>3, <2>4 DEF PriorOf
  <2> QED BY <1>1, <2>5, <2>6
<1>3. CASE LegitimizePrior(p)
  <2>1. CASE Done(p)
    <3>1. Goto(p, Idle) /\ PriorOf(Idle) BY <2>1 DEF Done, PriorOf, Idle
    <3> QED BY <1>1, <3>1
  <2>2. CASE ~Done(p)
    <3> DEFINE h == [proc[p] EXCEPT !.pc = "legitimize", !.content = files[pointer]]
    <3>1. /\ proc[p].pc = "prior" /\ Goto(p, h)
          /\ proc[p].prior # None => request[proc[p].prior].state # "live"
      BY <1>3, <2>2 DEF LegitimizePrior, At
    <3>2. h.pc = "legitimize" /\ h.of = proc[p].of /\ h.prior = proc[p].prior
      BY <1>0 DEF HandlerOK, Handler
    <3>3. proc[p].prior \in Request \cup {None} /\ PriorOf(proc[p])
      BY <1>0 DEF HandlerOK, Handler, EngineerInv
    <3> HIDE DEF h
    <3>4. PriorOf(h) BY <1>0, <3>1, <3>2, <3>3 DEF PriorOf
    <3> QED BY <1>1, <3>1, <3>4
  <2> QED BY <2>1, <2>2
<1> QED BY <1>2, <1>3

\* A handler that ends leaves the others as they were.
LEMMA OthersStay ==
    ASSUME TypeInv, NEW p \in Proc, Done(p), RowNames', \A h \in Handler : PriorOf(h) => PriorOf(h)', EngineerInv
    PROVE  EngineerInv'
<1>1. proc \in [Proc -> Handler] /\ \A q \in Proc : proc'[q] = IF q = p THEN Idle ELSE proc[q]
  BY DEF TypeInv, Done, Goto
<1>2. PriorOf(Idle)' BY DEF PriorOf, Idle
<1>3. ASSUME NEW q \in Proc PROVE PriorOf(proc[q])'
  <2>1. CASE q = p BY <1>1, <1>2, <2>1 DEF PriorOf
  <2>2. CASE q # p
    <3>1. proc'[q] = proc[q] /\ proc[q] \in Handler BY <1>1, <2>2
    <3>2. PriorOf(proc[q]) BY DEF EngineerInv
    <3> QED BY <3>1, <3>2 DEF PriorOf
  <2> QED BY <2>1, <2>2
<1> QED BY <1>3 DEF EngineerInv

\* A submission makes no engineer's request and keeps what the rows name.
LEMMA WriteKeepsEngineers ==
    ASSUME TypeInv, EngineerInv, NEW p \in Proc, SubmitWrite(p) PROVE EngineerInv'
<1>0. prop \in [Digest -> Prop] /\ request \in [Request -> Made] /\ Done(p)
  BY DEF SubmitWrite, TypeInv
<1>1. CASE UNCHANGED <<request, prop>>
  BY <1>0, <1>1, EngineersStay, OthersStay
<1>2. ASSUME NEW r \in Request, Make(r, "change", p),
             prop' = [d \in Digest |-> IF d \in proc[p].of
                        THEN [prop[d] EXCEPT !.state = "submitted", !.request = r] ELSE prop[d]]
      PROVE  EngineerInv'
  <2>1. \A d \in Digest : /\ prop'[d].engineer = prop[d].engineer
                          /\ prop'[d].state = "none" => prop[d].state = "none"
    BY <1>0, <1>2 DEF Prop
  <2>2. /\ request'[r].kind = "change" /\ request'[r].state = "live" /\ request[r].state = "none"
        /\ \A x \in Request : x # r => request'[x] = request[x]
    BY <1>0, <1>2 DEF Make
  <2>3. \A x \in Request : /\ request'[x].state = "live" /\ request'[x].kind = "engineer" =>
                               /\ request[x].state = "live" /\ request[x].kind = "engineer"
                               /\ request'[x].of = request[x].of
                           /\ request[x].state # "none" => request'[x].state # "none"
                           /\ request[x].state = "ended" => request'[x].state = "ended"
    BY <2>2
  <2> QED BY <1>0, <2>1, <2>3, EngineersStay, OthersStay
<1> QED BY <1>1, <1>2 DEF SubmitWrite

\* A legitimization that finds the row as it read it replaces the name of an
\* ended request, or of none.
LEMMA LegitimizeKeepsEngineers ==
    ASSUME TypeInv, EngineerInv, NEW p \in Proc, LegitimizeWrite(p) PROVE EngineerInv'
<1>0. /\ prop \in [Digest -> Prop] /\ request \in [Request -> Made] /\ Done(p)
      /\ proc[p] \in Handler /\ PriorOf(proc[p]) /\ proc[p].pc = "legitimize"
  BY DEF LegitimizeWrite, At, TypeInv, EngineerInv
<1>1. PICK d \in Digest : proc[p].of = {d} /\ prop[d].state # "none"
  BY <1>0 DEF PriorOf
<1>2. (CHOOSE e \in proc[p].of : TRUE) = d BY <1>1
<1>3. CASE UNCHANGED <<request, prop>>
  BY <1>0, <1>3, EngineersStay, OthersStay
<1>4. ASSUME NEW r \in Request, prop[d].engineer = proc[p].prior, Make(r, "engineer", p),
             prop' = [prop EXCEPT ![d].engineer = r]
      PROVE  EngineerInv'
  <2>1. /\ prop'[d].engineer = r /\ prop'[d].state = prop[d].state
        /\ \A e \in Digest : e # d => prop'[e] = prop[e]
    BY <1>0, <1>4 DEF Prop
  <2>2. /\ request'[r].state = "live" /\ request'[r].of = {d} /\ request[r].state = "none"
        /\ \A x \in Request : x # r => request'[x] = request[x]
    BY <1>0, <1>1, <1>4 DEF Make
  <2>3. ASSUME NEW x \in Request, request[x].state = "live", request[x].kind = "engineer"
        PROVE  d \notin request[x].of
    <3>1. d \in request[x].of => prop[d].engineer = x BY <2>3 DEF EngineerInv, RowNames
    <3>2. x # None BY DriftConstants
    <3>3. proc[p].prior # None => request[proc[p].prior].state = "ended" BY <1>0 DEF PriorOf
    <3> QED BY <1>4, <2>3, <3>1, <3>2, <3>3
  <2>4. \A x \in Request : request[x].of \subseteq Digest BY <1>0 DEF Made
  <2>5. \A e \in Digest : prop[e].engineer \in Request \cup {None} BY <1>0 DEF Prop
  <2>6. ASSUME NEW x \in Request, request'[x].state = "live", request'[x].kind = "engineer",
               NEW e \in request'[x].of
        PROVE  prop'[e].engineer = x
    <3>1. CASE x = r BY <2>1, <2>2, <2>6, <3>1
    <3>2. CASE x # r
      <4>1. e \in Digest /\ e # d /\ prop[e].engineer = x
        BY <2>2, <2>3, <2>4, <2>6, <3>2 DEF EngineerInv, RowNames
      <4> QED BY <2>1, <4>1
    <3> QED BY <3>1, <3>2
  <2>7. ASSUME NEW e \in Digest
        PROVE  /\ prop'[e].state = "none" => prop'[e].engineer = None
               /\ prop'[e].engineer # None => request'[prop'[e].engineer].state # "none"
    <3>1. CASE e = d BY <1>1, <2>1, <2>2, <3>1
    <3>2. CASE e # d BY <2>1, <2>2, <2>5, <3>2 DEF EngineerInv, RowNames
    <3> QED BY <3>1, <3>2
  <2>8. RowNames' BY <2>6, <2>7 DEF RowNames
  <2>9. ASSUME NEW h \in Handler, PriorOf(h) PROVE PriorOf(h)'
    <3>1. h.prior \in Request \cup {None} BY DEF Handler
    <3>2. \A e \in Digest : prop'[e].state = prop[e].state BY <2>1
    <3>3. \A x \in Request : request[x].state # "none" => request'[x].state = request[x].state
      BY <2>2
    <3> QED BY <2>9, <3>1, <3>2, <3>3 DEF PriorOf
  <2> QED BY <1>0, <2>8, <2>9, OthersStay
<1> QED BY <1>2, <1>3, <1>4 DEF LegitimizeWrite

\* A generation opens only rows that are not there yet, and those name nobody.
LEMMA CommitKeepsEngineers == ASSUME TypeInv, EngineerInv, GenCommit PROVE EngineerInv'
<1>1. ASSUME NEW d \in Digest
      PROVE  prop'[d].engineer = prop[d].engineer /\ (prop'[d].state = "none" => prop[d].state = "none")
  <2>1. /\ prop'[d] = Reconciled(d) /\ prop[d] \in Prop
        /\ d \in Yield[runner.content] /\ runner.known[d].state = "none" => prop[d].state = "none"
    BY DEF GenCommit, TypeInv
  <2>2. /\ [NoProp EXCEPT !.state = "open", !.seen = runner.version].engineer = None
        /\ [NoProp EXCEPT !.state = "open", !.seen = runner.version].state = "open"
    BY DEF NoProp
  <2>3. /\ [prop[d] EXCEPT !.state = "open", !.seen = runner.version].engineer = prop[d].engineer
        /\ [prop[d] EXCEPT !.state = "open", !.seen = runner.version].state = "open"
        /\ [prop[d] EXCEPT !.state = "superseded"].engineer = prop[d].engineer
        /\ [prop[d] EXCEPT !.state = "superseded"].state = "superseded"
    BY <2>1 DEF Prop
  <2>4. prop[d].state = "none" => prop[d].engineer = None BY DEF EngineerInv, RowNames
  <2> QED BY <2>1, <2>2, <2>3, <2>4 DEF Reconciled
<1>2. request' = request /\ proc' = proc BY DEF GenCommit
<1>3. RowNames' /\ \A h \in Handler : PriorOf(h) => PriorOf(h)' BY <1>1, <1>2, EngineersStay
<1>4. ASSUME NEW q \in Proc PROVE PriorOf(proc[q])'
  <2>1. PriorOf(proc[q]) /\ proc[q] \in Handler BY DEF EngineerInv, TypeInv
  <2> QED BY <1>2, <1>3, <2>1 DEF PriorOf
<1> QED BY <1>3, <1>4 DEF EngineerInv

LEMMA EndKeepsEngineers == ASSUME TypeInv, EngineerInv, RequestEnds PROVE EngineerInv'
<1>1. PICK r \in Request : request' = [request EXCEPT ![r].state = "ended"] /\ request[r].state = "live"
  BY DEF RequestEnds
<1>2. /\ request'[r].state = "ended"
      /\ \A x \in Request : x # r => request'[x] = request[x]
  BY <1>1 DEF TypeInv, Made
<1>3. prop' = prop /\ proc' = proc BY DEF RequestEnds
<1>4. RowNames' /\ \A h \in Handler : PriorOf(h) => PriorOf(h)'
  BY <1>2, <1>3, EngineersStay
<1>5. ASSUME NEW q \in Proc PROVE PriorOf(proc[q])'
  <2>1. PriorOf(proc[q]) /\ proc[q] \in Handler BY DEF EngineerInv, TypeInv
  <2> QED BY <1>3, <1>4, <2>1 DEF PriorOf
<1> QED BY <1>4, <1>5 DEF EngineerInv

LEMMA StepEngineers == TypeInv /\ EngineerInv /\ [Next]_vars => EngineerInv'
<1> SUFFICES ASSUME TypeInv, EngineerInv, [Next]_vars PROVE EngineerInv' OBVIOUS
<1>1. ASSUME UNCHANGED <<prop, request, proc>> PROVE EngineerInv'
  BY <1>1 DEF EngineerInv, RowNames, PriorOf
<1>2. CASE UNCHANGED vars BY <1>1, <1>2 DEF vars
<1>3. ASSUME NEW p \in Proc, Upload(p) PROVE EngineerInv'
  <2>1. PICK h : Goto(p, h) /\ h.pc \in UploadPc \cup {"idle"} BY <1>3, UploadMoves
  <2>2. h.pc \notin {"prior", "legitimize"} BY <2>1 DEF UploadPc
  <2> QED BY <1>3, <2>1, <2>2, UploadMoves, HandlersOnly
<1>4. ASSUME NEW p \in Proc, Submission(p) PROVE EngineerInv'
  <2>1. CASE SubmitRead(p)
    <3>1. PICK b : Goto(p, [Idle EXCEPT !.pc = "submit", !.of = b, !.content = files[pointer]])
      BY <2>1 DEF SubmitRead
    <3>2. [Idle EXCEPT !.pc = "submit", !.of = b, !.content = files[pointer]].pc = "submit" BY DEF Idle
    <3> QED BY <2>1, <3>1, <3>2, HandlersOnly DEF SubmitRead, OnlyHandlers
  <2> QED BY <1>4, <2>1, WriteKeepsEngineers, LegitimizeReads, LegitimizeKeepsEngineers DEF Submission
<1>5. CASE Generation
  BY <1>1, <1>5, CommitKeepsEngineers DEF Generation, GenRead, GenFail, GenQuery
<1>6. CASE RequestEnds BY <1>6, EndKeepsEngineers
<1>7. CASE Restart
  BY <1>7 DEF Restart, EngineerInv, RowNames, PriorOf, Idle
<1> QED BY <1>2, <1>3, <1>4, <1>5, <1>6, <1>7 DEF Next

LEMMA InitEngineers == Init => EngineerInv
<1> SUFFICES ASSUME Init PROVE EngineerInv OBVIOUS
<1>1. \A r \in Request : request[r].state = "none" BY DEF Init, NoRequest
<1>2. \A d \in Digest : prop[d].engineer = None
  <2>1. NoProp.engineer = None /\ [NoProp EXCEPT !.state = "open", !.seen = 1].engineer = None BY DEF NoProp
  <2> QED BY <2>1 DEF Init
<1>3. \A p \in Proc : proc[p].pc = "idle" BY DEF Init, Idle
<1> QED BY <1>1, <1>2, <1>3 DEF EngineerInv, RowNames, PriorOf

\* Two requests about one proposal would both be named by its row.
LEMMA OneEngineer == EngineerInv => LegitimizedOnce
<1> SUFFICES ASSUME EngineerInv, NEW d \in Digest
             PROVE  Cardinality({r \in Request : /\ request[r].state = "live"
                                                 /\ request[r].kind = "engineer"
                                                 /\ d \in request[r].of}) <= 1
  BY DEF LegitimizedOnce
<1> DEFINE S == {r \in Request : request[r].state = "live" /\ request[r].kind = "engineer" /\ d \in request[r].of}
<1>1. \A r \in S : r = prop[d].engineer BY DEF EngineerInv, RowNames
<1>2. S = {} \/ S = {prop[d].engineer} BY <1>1
<1>3. Cardinality({}) = 0 /\ Cardinality({prop[d].engineer}) = 1
  BY FS_EmptySet, FS_Singleton
<1>4. Cardinality(S) <= 1
  <2> HIDE DEF S
  <2> QED BY <1>2, <1>3
<1> QED BY <1>4

\* However many legitimizations of a proposal run at once, and whatever is
\* generated in between, one engineer's request is live (API-18).
THEOREM LegitimizedOnceAlways == Spec => []LegitimizedOnce
<1>1. TypeInv /\ EngineerInv /\ [Next]_vars => EngineerInv' BY StepEngineers
<1>2. EngineerInv => LegitimizedOnce BY OneEngineer
<1> QED BY <1>1, <1>2, InitEngineers, TypesInvariant, PTL DEF Spec

-----------------------------------------------------------------------------
(* What is served.  Where uploads come one at a time, numbers only grow and *)
(* retention stays behind the pointer; where they overlap and nothing is    *)
(* removed, a number is stored for good.  Either way a report that a run, a *)
(* proposal or a request refers to is the one stored under its number.      *)

\* Retention keeps the version served, and it does not run beside an upload: a
\* slow upload might store a number that retention is about to clear.
Orderly ==
    \A m \in Mixes : "upload" \in m.ops =>
        m.keep >= 1 /\ ("alone" \in m.ops \/ m.keep >= MaxVersion)

\* Version v has been served, and is not served anew.
Known(v) == rows[v] # None \/ (On("alone") /\ v <= pointer)

ReportsClean ==
    /\ \A v \in Version : rows[v] # None => files[v] = rows[v]
    /\ pointer > 0 => rows[pointer] # None
    /\ On("alone") => \A v \in Version : rows[v] # None => v <= pointer

Busy == {"look", "number", "write", "commit", "list", "prune", "unlink"}

\* What a handler relies on.
HandlerClean(h) ==
    /\ h.pc \in {"look", "number", "write", "commit"} => h.content \in Content
    /\ h.pc \in {"write", "commit"} /\ On("alone") => \A v \in Version : rows[v] # None => v < h.version
    /\ h.pc = "commit" => files[h.version] = h.content /\ rows[h.version] = None
    /\ h.pc \in {"list", "prune", "unlink", "schedule", "prior"} => Known(h.version)
    /\ h.pc \in {"prune", "unlink"} => \A v \in h.stale : On("alone") /\ v < pointer
    /\ h.pc = "unlink" => h.stale # {} /\ rows[Min(h.stale)] = None
    /\ h.pc = "prior" /\ h.version = pointer => \A d \in h.of : d \in Yield[rows[pointer]]
    /\ h.pc \in {"submit", "legitimize"} => h.content \in Content /\ \A d \in h.of : d \in Yield[h.content]

\* How handlers stand to each other.
Apart(p, q) ==
    /\ proc[p].pc \in Busy => On("upload") /\ (On("alone") => proc[q].pc \notin Busy)
    /\ proc[p].pc = "commit" /\ proc[q].pc = "commit" => proc[p].version # proc[q].version
HandlersClean ==
    /\ \A p \in Proc : HandlerClean(proc[p]) /\ (proc[p].pc \in Busy => On("upload"))
    /\ \A p, q \in Proc : p # q => Apart(p, q)

RowsClean ==
    \A d \in Digest : prop[d].state = "open" =>
        Known(prop[d].seen) /\ (prop[d].seen = pointer => d \in Yield[rows[pointer]])
RunnerClean ==
    /\ runner.pc # "off" => Known(runner.version)
    /\ runner.queued # 0 => Known(runner.queued)
    /\ runner.pc \in {"generate", "reconcile"} =>
         runner.content \in Content /\ (runner.version = pointer => runner.content = rows[pointer])
RequestsClean ==
    \A r \in Request : request[r].state # "none" => \A d \in request[r].of : d \in Yield[request[r].evidence]

Clean == ReportsClean /\ HandlersClean /\ RowsClean /\ RunnerClean /\ RequestsClean
CleanInv == TypeInv /\ (~collided => Clean)

-----------------------------------------------------------------------------
(* Numbers.                                                                *)

LEMMA FirstVersion == ASSUME NEW S \in SUBSET Version, S # {} PROVE Min(S) \in S
<1>1. S \subseteq Nat BY DriftConstants DEF Version
<1>2. \E x \in S : \A y \in S : ~(<<y, x>> \in OpToRel(<, Nat))
  BY <1>1, NatLessThanWellFounded, WFMin
<1>3. \A x, y \in Nat : y < x => <<y, x>> \in OpToRel(<, Nat) BY DEF OpToRel
<1>4. \A x, y \in Nat : x =< y \/ y < x OBVIOUS
<1>5. \E x \in S : \A y \in S : x =< y BY <1>1, <1>2, <1>3, <1>4
<1> QED BY <1>5 DEF Min

LEMMA LastVersion ==
    ASSUME NEW S \in SUBSET (0..MaxVersion), S # {} PROVE Max(S) \in S /\ \A y \in S : Max(S) >= y
<1> DEFINE D == {MaxVersion - x : x \in S}
<1>1. S \subseteq Nat /\ MaxVersion \in Nat /\ \A x \in S : x <= MaxVersion BY DriftConstants
<1>2. \A x \in S : MaxVersion - x \in Nat BY <1>1
<1>3. D \subseteq Nat /\ D # {} BY <1>2
<1> HIDE DEF D
<1>4. \E d \in D : \A e \in D : ~(<<e, d>> \in OpToRel(<, Nat))
  BY <1>3, NatLessThanWellFounded, WFMin
<1>5. \A x, y \in Nat : y < x => <<y, x>> \in OpToRel(<, Nat) BY DEF OpToRel
<1>6. PICK d \in D : \A e \in D : ~(e < d) BY <1>3, <1>4, <1>5
<1>7. PICK x \in S : d = MaxVersion - x BY <1>6 DEF D
<1>8. ASSUME NEW y \in S PROVE x >= y
  <2>1. ~(MaxVersion - y < MaxVersion - x) BY <1>6, <1>7 DEF D
  <2> QED BY <1>1, <2>1
<1>9. \E z \in S : \A y \in S : z >= y BY <1>8
<1> QED BY <1>9 DEF Max

\* Retention finds something to remove only behind the version served, and
\* only where uploads come one at a time.
LEMMA StaleBehind ==
    ASSUME TypeInv, Clean, Orderly, On("upload"), NEW v \in Stored,
           Cardinality({w \in Stored : w > v}) >= mix.keep
    PROVE  On("alone") /\ v < pointer
<1> DEFINE Newer == {w \in Stored : w > v}
<1>1. /\ mix.keep \in Nat /\ mix.keep >= 1 /\ (On("alone") \/ mix.keep >= MaxVersion)
      /\ pointer \in 0..MaxVersion
  BY DriftConstants DEF TypeInv, MarksOK, ReportsOK, Orderly, On, Mix
<1>2. v \in Version /\ Stored \subseteq Version BY DEF Stored
<1>3. Newer \subseteq v+1 .. MaxVersion
  <2>1. ASSUME NEW w \in Version, w > v PROVE w \in v+1 .. MaxVersion
    BY <1>2, <2>1, DriftConstants DEF Version
  <2> QED BY <1>2, <2>1
<1>4. IsFiniteSet(v+1 .. MaxVersion) /\ Cardinality(v+1 .. MaxVersion) = MaxVersion - v
  <2>1. v+1 \in Int /\ MaxVersion \in Int BY <1>2, DriftConstants DEF Version
  <2>2. v+1 <= MaxVersion + 1 BY <1>2, DriftConstants DEF Version
  <2> QED BY <1>2, <2>1, <2>2, FS_Interval, DriftConstants DEF Version
<1>5. IsFiniteSet(Newer) /\ Cardinality(Newer) \in Nat /\ Cardinality(Newer) <= MaxVersion - v
  <2> HIDE DEF Newer
  <2> QED BY <1>3, <1>4, FS_Subset, FS_CardinalityType
<1>6. On("alone") BY <1>1, <1>2, <1>5, DriftConstants DEF Version
<1>7. Newer # {} BY <1>1, <1>5, FS_EmptySet
<1>8. PICK w \in Version : rows[w] # None /\ w > v BY <1>7 DEF Stored
<1>9. w <= pointer BY <1>6, <1>8 DEF Clean, ReportsClean
<1> QED BY <1>1, <1>2, <1>6, <1>8, <1>9, DriftConstants DEF Version

-----------------------------------------------------------------------------
(* What other handlers, rows and the run keep.                             *)

\* A handler moves; it and the others are in order.
LEMMA Moved ==
    ASSUME TypeInv, Clean, NEW p \in Proc, NEW h, HandlerOK(h), Goto(p, h), mix' = mix,
           HandlerClean(h)',
           \A q \in Proc \ {p} : HandlerClean(proc[q])',
           h.pc \in Busy => \/ proc[p].pc \in Busy
                            \/ On("upload") /\ (On("alone") => \A q \in Proc \ {p} : proc[q].pc \notin Busy),
           h.pc = "commit" => \A q \in Proc \ {p} : proc[q].pc = "commit" => proc[q].version # h.version
    PROVE  HandlersClean'
<1>1. proc'[p] = h /\ \A q \in Proc : q # p => proc'[q] = proc[q] BY HandlerMoves
<1>2. \A q \in Proc : HandlerClean(proc[q])'
  <2>1. HandlerClean(proc[p])' BY <1>1 DEF HandlerClean, Known
  <2> QED BY <2>1
<1>3. \A q \in Proc : proc'[q].pc \in Busy => On("upload")'
  BY <1>1 DEF Clean, HandlersClean, On
<1>4. ASSUME NEW a \in Proc, NEW b \in Proc, a # b PROVE Apart(a, b)'
  <2>1. CASE a # p /\ b # p BY <1>1, <1>4, <2>1 DEF Clean, HandlersClean, Apart, On
  <2>2. CASE a = p
    <3>1. proc[a].pc \in Busy => On("upload") /\ (On("alone") => proc[b].pc \notin Busy)
      BY <1>4 DEF Clean, HandlersClean, Apart
    <3> QED BY <1>1, <1>4, <2>2, <3>1 DEF Apart, On
  <2>3. CASE b = p
    <3>1. /\ proc[a].pc \in Busy => On("upload") /\ (On("alone") => proc[b].pc \notin Busy)
          /\ proc[b].pc \in Busy => On("upload") /\ (On("alone") => proc[a].pc \notin Busy)
      BY <1>4 DEF Clean, HandlersClean, Apart
    <3> QED BY <1>1, <1>4, <2>3, <3>1 DEF Apart, On
  <2> QED BY <2>1, <2>2, <2>3
<1> QED BY <1>2, <1>3, <1>4 DEF HandlersClean

\* The others when rows and pointer stay, and no file that one waits to commit.
LEMMA OthersKept ==
    ASSUME TypeInv, Clean, NEW p \in Proc, NEW h, HandlerOK(h), Goto(p, h), UNCHANGED <<mix, rows, pointer>>,
           \A q \in Proc \ {p} : proc[q].pc = "commit" => files'[proc[q].version] = files[proc[q].version]
    PROVE  \A q \in Proc \ {p} : HandlerClean(proc[q])'
<1> SUFFICES ASSUME NEW q \in Proc \ {p} PROVE HandlerClean(proc[q])' OBVIOUS
<1>1. proc'[q] = proc[q] BY HandlerMoves
<1>2. HandlerClean(proc[q]) BY DEF Clean, HandlersClean
<1> QED BY <1>1, <1>2 DEF HandlerClean, Known, On

LEMMA RowsKept ==
    ASSUME TypeInv, RowsClean, UNCHANGED prop,
           \A v \in Version : Known(v) => Known(v)' /\ (v = pointer' => v = pointer /\ rows'[v] = rows[v])
    PROVE  RowsClean'
<1> SUFFICES ASSUME NEW d \in Digest, prop[d].state = "open"
             PROVE  Known(prop[d].seen)' /\ (prop[d].seen = pointer' => d \in Yield[rows'[pointer']])
  BY DEF RowsClean, Known
<1>1. prop[d].seen \in Version BY DEF TypeInv, RowOK
<1>2. Known(prop[d].seen) /\ (prop[d].seen = pointer => d \in Yield[rows[pointer]]) BY DEF RowsClean
<1>3. Known(prop[d].seen)' BY <1>1, <1>2 DEF Known
<1> QED BY <1>1, <1>2, <1>3

LEMMA RunnerKept ==
    ASSUME TypeInv, RunnerClean, UNCHANGED runner,
           \A v \in Version : Known(v) => Known(v)' /\ (v = pointer' => v = pointer /\ rows'[v] = rows[v])
    PROVE  RunnerClean'
<1>1. /\ runner.pc # "off" => runner.version \in Version
      /\ runner.queued # 0 => runner.queued \in Version
      /\ runner.pc \in {"generate", "reconcile"} => runner.pc # "off"
  BY Constants DEF TypeInv, RunnerOK, Runner
<1>2. runner.pc # "off" => Known(runner.version)' BY <1>1 DEF RunnerClean, Known
<1>3. runner.queued # 0 => Known(runner.queued)' BY <1>1 DEF RunnerClean, Known
<1> QED BY <1>1, <1>2, <1>3 DEF RunnerClean

\* A step of one handler that leaves rows, pointer, proposals and requests alone.
LEMMA OnlyMoved ==
    ASSUME TypeInv, Clean, NEW p \in Proc, NEW h, HandlerOK(h), Goto(p, h),
           UNCHANGED <<mix, rows, pointer, prop, request, runner>>,
           \A q \in Proc \ {p} : proc[q].pc = "commit" => files'[proc[q].version] = files[proc[q].version],
           \A v \in Version : rows[v] # None => files'[v] = files[v],
           HandlerClean(h)',
           h.pc \in Busy => \/ proc[p].pc \in Busy
                            \/ On("upload") /\ (On("alone") => \A q \in Proc \ {p} : proc[q].pc \notin Busy),
           h.pc = "commit" => \A q \in Proc \ {p} : proc[q].pc = "commit" => proc[q].version # h.version
    PROVE  Clean'
<1>1. \A q \in Proc \ {p} : HandlerClean(proc[q])' BY OthersKept
<1>2. HandlersClean' BY <1>1, Moved
<1>3. ReportsClean' BY DEF Clean, ReportsClean, On
<1>4. RowsClean' /\ RunnerClean' BY RowsKept, RunnerKept DEF Clean, Known, On
<1>5. RequestsClean' BY DEF Clean, RequestsClean
<1> QED BY <1>2, <1>3, <1>4, <1>5 DEF Clean

\* The same when no file changes either.
LEMMA QuietMove ==
    ASSUME TypeInv, Clean, NEW p \in Proc, NEW h, HandlerOK(h), Goto(p, h), OnlyHandlers, HandlerClean(h),
           h.pc \in Busy => \/ proc[p].pc \in Busy
                            \/ On("upload") /\ (On("alone") => \A q \in Proc \ {p} : proc[q].pc \notin Busy),
           h.pc # "commit"
    PROVE  Clean'
<1>1. UNCHANGED <<mix, rows, files, pointer, prop, request, runner>> BY DEF OnlyHandlers, reports
<1>2. HandlerClean(h)' BY <1>1 DEF HandlerClean, Known, On
<1> QED BY <1>1, <1>2, OnlyMoved

LEMMA IdleClean == HandlerClean(Idle) /\ Idle.pc \notin Busy /\ Idle.pc # "commit"
BY DEF HandlerClean, Idle, Busy

LEMMA EndsClean == ASSUME TypeInv, Clean, NEW p \in Proc, Done(p), OnlyHandlers PROVE Clean'
BY IdleClean, IdleOK, QuietMove DEF Done

\* What a clean state says of one handler.
LEMMA HandlerKnown ==
    ASSUME TypeInv, Clean, NEW p \in Proc
    PROVE  /\ HandlerOK(proc[p]) /\ proc[p] \in Handler /\ HandlerClean(proc[p])
           /\ proc[p].pc \in Busy => On("upload")
           /\ On("alone") /\ proc[p].pc \in Busy => \A q \in Proc \ {p} : proc[q].pc \notin Busy
BY DEF TypeInv, Clean, HandlersClean, Apart

-----------------------------------------------------------------------------
(* Uploads.                                                                *)

LEMMA StartClean == ASSUME TypeInv, Clean, NEW p \in Proc, UploadStart(p) PROVE Clean'
<1>1. PICK c \in Content : Goto(p, [Idle EXCEPT !.pc = "look", !.content = c]) BY DEF UploadStart
<1>2. PICK h : h = [Idle EXCEPT !.pc = "look", !.content = c] OBVIOUS
<1>3. h.pc = "look" /\ h.content = c BY <1>2 DEF Idle
<1>4. HandlerOK(h) /\ Goto(p, h) BY <1>1, <1>2, LookStarted
<1>5. HandlerClean(h) BY <1>3 DEF HandlerClean
<1>6. On("upload") /\ OnlyHandlers /\ (On("alone") => \A q \in Proc : proc[q].pc \notin Busy)
  BY DEF UploadStart, Uploading, Busy
<1> QED BY <1>3, <1>4, <1>5, <1>6, QuietMove

LEMMA LookClean == ASSUME TypeInv, Clean, NEW p \in Proc, UploadLook(p) PROVE Clean'
<1>1. HandlerOK(proc[p]) /\ HandlerClean(proc[p]) /\ proc[p] \in Handler BY HandlerKnown
<1>2. CASE Done(p) BY <1>2, EndsClean DEF UploadLook
<1>3. CASE Step(p, "number")
  <2>1. PICK h : h = [proc[p] EXCEPT !.pc = "number"] OBVIOUS
  <2>2. h.pc = "number" /\ h.content = proc[p].content BY <1>1, <2>1 DEF Handler
  <2>3. HandlerOK(h) /\ Goto(p, h) BY <1>1, <1>3, <2>1, PcMoved DEF UploadPc, Step
  <2>4. proc[p].pc = "look" /\ OnlyHandlers BY DEF UploadLook, At
  <2>5. HandlerClean(h) BY <1>1, <2>2, <2>4 DEF HandlerClean
  <2>6. proc[p].pc \in Busy BY <2>4 DEF Busy
  <2> QED BY <2>2, <2>3, <2>4, <2>5, <2>6, QuietMove
<1> QED BY <1>2, <1>3 DEF UploadLook

\* Where uploads come one at a time, the next number is above all stored.
LEMMA NumberClean == ASSUME TypeInv, Clean, NEW p \in Proc, UploadNumber(p) PROVE Clean'
<1>1. HandlerOK(proc[p]) /\ HandlerClean(proc[p]) /\ proc[p] \in Handler BY HandlerKnown
<1>2. PICK next : next = Max(Stored \cup {0}) + 1 OBVIOUS
<1>3. PICK h : h = [proc[p] EXCEPT !.pc = "write", !.version = next] OBVIOUS
<1>4. proc[p].pc = "number" /\ OnlyHandlers /\ next \in Version /\ Goto(p, h)
  BY <1>2, <1>3 DEF UploadNumber, At
<1>5. h.pc = "write" /\ h.content = proc[p].content /\ h.version = next BY <1>1, <1>3 DEF Handler
<1>6. HandlerOK(h) BY <1>1, <1>3, <1>4, NumberTaken
<1>7. ASSUME NEW v \in Version, rows[v] # None PROVE v < next
  <2>1. PICK S : S = Stored \cup {0} OBVIOUS
  <2>2. S \in SUBSET (0..MaxVersion) /\ S # {} /\ v \in S BY <1>7, <2>1, Constants DEF Stored
  <2>3. Max(S) \in S /\ Max(S) >= v BY <2>2, LastVersion
  <2>4. next = Max(S) + 1 BY <1>2, <2>1
  <2>5. PICK m : m = Max(S) OBVIOUS
  <2>6. m \in S /\ m >= v /\ next = m + 1 BY <2>3, <2>4, <2>5
  <2>7. m \in 0..MaxVersion /\ v \in 0..MaxVersion BY <2>2, <2>6
  <2> QED BY <2>6, <2>7, DriftConstants
<1>8. HandlerClean(h) BY <1>1, <1>4, <1>5, <1>7 DEF HandlerClean
<1>9. proc[p].pc \in Busy BY <1>4 DEF Busy
<1> QED BY <1>4, <1>5, <1>6, <1>8, <1>9, QuietMove

\* A file is written under a number that no row and no other upload has.
LEMMA WriteClean == ASSUME TypeInv, Clean, NEW p \in Proc, UploadWrite(p), ~collided' PROVE Clean'
<1>1. HandlerOK(proc[p]) /\ HandlerClean(proc[p]) /\ proc[p] \in Handler BY HandlerKnown
<1>2. PICK h : h = [proc[p] EXCEPT !.pc = "commit"] OBVIOUS
<1>3. PICK v : v = proc[p].version OBVIOUS
<1>4. /\ proc[p].pc = "write" /\ Goto(p, h) /\ UNCHANGED <<mix, rows, pointer, prop, request, runner>>
      /\ files' = [files EXCEPT ![v] = proc[p].content] /\ rows[v] = None
      /\ \A q \in Proc \ {p} : proc[q].pc = "commit" => proc[q].version # v
  BY <1>2, <1>3 DEF UploadWrite, At, Step, ReportsOnly
<1>5. h.pc = "commit" /\ h.content = proc[p].content /\ h.version = v BY <1>1, <1>2, <1>3 DEF Handler
<1>6. v \in Version BY <1>1, <1>3, <1>4 DEF HandlerOK
<1>7. HandlerOK(h) BY <1>1, <1>2, <1>3, <1>6, PcMoved DEF UploadPc
<1>8. files'[v] = proc[p].content /\ \A w \in Version : w # v => files'[w] = files[w]
  BY <1>4, <1>6 DEF TypeInv, ReportsOK
<1>9. HandlerClean(h)' BY <1>1, <1>3, <1>4, <1>5, <1>8 DEF HandlerClean, On
<1>10. \A q \in Proc \ {p} : proc[q].pc = "commit" => files'[proc[q].version] = files[proc[q].version]
  BY <1>4, <1>8 DEF TypeInv, HandlerOK
<1>11. proc[p].pc \in Busy BY <1>4 DEF Busy
<1>12. \A w \in Version : rows[w] # None => files'[w] = files[w] BY <1>4, <1>8
<1> QED BY <1>4, <1>5, <1>7, <1>9, <1>10, <1>11, <1>12, OnlyMoved

\* A number is served for the first time: nobody refers to it yet.
LEMMA CommitClean == ASSUME TypeInv, Clean, NEW p \in Proc, UploadCommit(p) PROVE Clean'
<1>1. /\ HandlerOK(proc[p]) /\ HandlerClean(proc[p]) /\ proc[p] \in Handler
      /\ proc[p].pc = "commit" /\ proc[p].pc \in Busy
  BY HandlerKnown DEF UploadCommit, At, Busy
<1>2. PICK v : v = proc[p].version OBVIOUS
<1>3. PICK c : c = proc[p].content OBVIOUS
<1>4. PICK h : h = [proc[p] EXCEPT !.pc = "list"] OBVIOUS
<1>5. /\ v \in Version /\ c \in Content /\ c # None /\ rows[v] = None /\ files[v] = c
      /\ On("alone") => \A w \in Version : rows[w] # None => w < v
  BY <1>1, <1>2, <1>3, DriftConstants DEF HandlerOK, HandlerClean
<1>6. /\ rows' = [rows EXCEPT ![v] = c] /\ pointer' = v /\ Goto(p, h)
      /\ UNCHANGED <<mix, files, prop, request, runner>>
  BY <1>2, <1>3, <1>4, <1>5 DEF UploadCommit, Step, ReportsOnly
<1>7. rows'[v] = c /\ \A w \in Version : w # v => rows'[w] = rows[w]
  BY <1>5, <1>6 DEF TypeInv, ReportsOK
<1>8. h.pc = "list" /\ h.version = v BY <1>1, <1>2, <1>4 DEF Handler
<1>9. HandlerOK(h) BY <1>1, <1>2, <1>4, <1>5, PcMoved DEF UploadPc
<1>10. On("alone") => pointer < v
  <2>1. pointer \in 0..MaxVersion /\ (pointer > 0 => rows[pointer] # None)
    BY DEF TypeInv, ReportsOK, Clean, ReportsClean
  <2> QED BY <1>5, <2>1, Constants, DriftConstants DEF Version
<1>11. ~Known(v) BY <1>5, <1>10, DriftConstants DEF Known, Version, TypeInv, ReportsOK
<1>12. ASSUME NEW w \in Version, Known(w) PROVE Known(w)' /\ w # pointer'
  <2>1. w # v BY <1>11, <1>12
  <2>2. rows[w] # None => rows'[w] # None BY <1>7, <2>1
  <2>3. On("alone") /\ w <= pointer => w <= pointer'
    <3>1. pointer \in Int /\ v \in Int /\ w \in Int /\ pointer' = v
      BY <1>5, <1>6, DriftConstants DEF Version, TypeInv, ReportsOK
    <3> QED BY <1>10, <3>1
  <2> QED BY <1>6, <1>12, <2>1, <2>2, <2>3 DEF Known, On
<1>13. ReportsClean'
  <2>1. \A w \in Version : rows'[w] # None => files'[w] = rows'[w]
    BY <1>5, <1>6, <1>7 DEF Clean, ReportsClean
  <2>2. rows'[pointer'] # None BY <1>5, <1>6, <1>7
  <2>3. On("alone") => \A w \in Version : rows'[w] # None => w <= v
    BY <1>5, <1>7, DriftConstants DEF Version
  <2> QED BY <1>6, <2>1, <2>2, <2>3 DEF ReportsClean, On
<1>14. HandlerClean(h)' BY <1>5, <1>7, <1>8 DEF HandlerClean, Known
<1>15. ASSUME NEW q \in Proc \ {p} PROVE HandlerClean(proc[q])'
  <2>1. PICK k : k = proc[q] OBVIOUS
  <2>2. HandlerOK(k) /\ k \in Handler /\ HandlerClean(k) /\ (k.pc \in Busy => ~On("alone"))
    <3>1. HandlerOK(proc[q]) /\ proc[q] \in Handler /\ HandlerClean(proc[q]) BY HandlerKnown
    <3>2. proc[q].pc \in Busy => ~On("alone") BY <1>1, HandlerKnown
    <3> QED BY <2>1, <3>1, <3>2
  <2>3. k.pc = "commit" => k.version # v
    BY <1>1, <1>2, <2>1 DEF Clean, HandlersClean, Apart
  <2>4. k.pc = "commit" => rows'[k.version] = None
    BY <1>7, <2>2, <2>3 DEF HandlerOK, HandlerClean
  <2>5. k.pc \in {"list", "prune", "unlink", "schedule", "prior"} => Known(k.version)' /\ k.version # pointer'
    BY <1>12, <2>2 DEF HandlerOK, HandlerClean, Known
  <2>6. k.pc \in {"prune", "unlink"} => k.stale = {} BY <2>2 DEF HandlerClean, Busy
  <2>7. k.pc \in {"write", "commit"} => ~On("alone") BY <2>2 DEF Busy
  <2>8. HandlerClean(k)' BY <1>6, <2>2, <2>4, <2>5, <2>6, <2>7 DEF HandlerClean, On
  <2>9. proc'[q] = k BY <1>6, <1>9, <2>1, HandlerMoves
  <2> QED BY <2>8, <2>9 DEF HandlerClean, Known
<1>16. HandlersClean' BY <1>1, <1>6, <1>8, <1>9, <1>14, <1>15, Moved
<1>17. RowsClean' /\ RunnerClean'
  <2>1. \A w \in Version : Known(w) => Known(w)' /\ (w = pointer' => w = pointer /\ rows'[w] = rows[w])
    BY <1>12
  <2> QED BY <1>6, <2>1, RowsKept, RunnerKept DEF Clean
<1>18. RequestsClean' BY <1>6 DEF Clean, RequestsClean
<1> QED BY <1>13, <1>16, <1>17, <1>18 DEF Clean

\* Giving up a number removes the file of that upload alone.
LEMMA ContendedClean == ASSUME TypeInv, Clean, NEW p \in Proc, UploadContended(p) PROVE Clean'
<1>1. /\ HandlerOK(proc[p]) /\ HandlerClean(proc[p]) /\ proc[p] \in Handler
      /\ proc[p].pc = "commit" /\ proc[p].pc \in Busy
      /\ UNCHANGED <<mix, rows, pointer, collided, prop, request, runner, reopened, crashes>>
  BY HandlerKnown DEF UploadContended, At, Busy, ReportsOnly
<1>2. CASE Done(p) /\ UNCHANGED files
  BY <1>1, <1>2, EndsClean DEF OnlyHandlers, reports
<1>3. CASE ~proc[p].again
  <2>1. PICK v : v = proc[p].version OBVIOUS
  <2>2. PICK h : h = [proc[p] EXCEPT !.pc = "look", !.again = TRUE, !.version = 0] OBVIOUS
  <2>3. files' = [files EXCEPT ![v] = None] /\ Goto(p, h)
    BY <1>3, <2>1, <2>2 DEF UploadContended, Lose
  <2>4. h.pc = "look" /\ h.content = proc[p].content BY <1>1, <2>2 DEF Handler
  <2>5. HandlerOK(h) BY <1>1, <2>2, StartedOver
  <2>6. v \in Version /\ rows[v] = None BY <1>1, <2>1 DEF HandlerOK, HandlerClean
  <2>7. \A w \in Version : w # v => files'[w] = files[w] BY <2>3, <2>6 DEF TypeInv, ReportsOK
  <2>8. \A q \in Proc \ {p} : proc[q].pc = "commit" => proc[q].version # v
    BY <1>1, <2>1 DEF Clean, HandlersClean, Apart
  <2>9. \A q \in Proc \ {p} : proc[q].pc = "commit" => files'[proc[q].version] = files[proc[q].version]
    BY <2>7, <2>8 DEF TypeInv, HandlerOK
  <2>10. HandlerClean(h)' BY <1>1, <2>4 DEF HandlerClean
  <2>11. \A w \in Version : rows[w] # None => files'[w] = files[w] BY <2>6, <2>7
  <2> QED BY <1>1, <2>3, <2>4, <2>5, <2>9, <2>10, <2>11, OnlyMoved
<1> QED BY <1>2, <1>3 DEF UploadContended, Lose

-----------------------------------------------------------------------------
(* Retention.                                                              *)

LEMMA ListClean == ASSUME TypeInv, Clean, Orderly, NEW p \in Proc, PruneList(p) PROVE Clean'
<1>1. /\ HandlerOK(proc[p]) /\ HandlerClean(proc[p]) /\ proc[p] \in Handler
      /\ proc[p].pc = "list" /\ proc[p].pc \in Busy /\ On("upload") /\ OnlyHandlers
  BY HandlerKnown DEF PruneList, At, Busy
<1>2. PICK s : s = {v \in Stored : Cardinality({w \in Stored : w > v}) >= mix.keep} OBVIOUS
<1>3. PICK h : h = [proc[p] EXCEPT !.pc = "prune", !.stale = s] OBVIOUS
<1>4. Goto(p, h) BY <1>2, <1>3 DEF PruneList
<1>5. h.pc = "prune" /\ h.stale = s /\ h.version = proc[p].version BY <1>1, <1>3 DEF Handler
<1>6. HandlerOK(h)
  <2>1. s \in SUBSET Version /\ proc[p].version \in Version BY <1>1, <1>2 DEF Stored, HandlerOK
  <2> QED BY <1>1, <1>3, <2>1, StaleListed
<1>7. \A v \in s : On("alone") /\ v < pointer BY <1>1, <1>2, StaleBehind
<1>8. HandlerClean(h) BY <1>1, <1>5, <1>7 DEF HandlerClean
<1> QED BY <1>1, <1>4, <1>5, <1>6, <1>8, QuietMove

\* The row removed is not the one served, and no other upload is under way.
LEMMA PruneRowClean == ASSUME TypeInv, Clean, NEW p \in Proc, PruneRow(p) PROVE Clean'
<1>1. /\ HandlerOK(proc[p]) /\ HandlerClean(proc[p]) /\ proc[p] \in Handler
      /\ proc[p].pc = "prune" /\ proc[p].pc \in Busy /\ proc[p].stale # {}
      /\ UNCHANGED <<mix, files, pointer, prop, request, runner>>
  BY HandlerKnown DEF PruneRow, At, Busy, ReportsOnly
<1>2. PICK m : m = Min(proc[p].stale) OBVIOUS
<1>3. PICK h : h = [proc[p] EXCEPT !.pc = "unlink"] OBVIOUS
<1>4. rows' = [rows EXCEPT ![m] = None] /\ Goto(p, h) BY <1>2, <1>3 DEF PruneRow, Step
<1>5. m \in proc[p].stale /\ m \in Version BY <1>1, <1>2, FirstVersion DEF Handler
<1>6. On("alone") /\ m < pointer BY <1>1, <1>5 DEF HandlerClean
<1>7. m # pointer BY <1>5, <1>6, DriftConstants DEF Version
<1>8. rows'[m] = None /\ \A w \in Version : w # m => rows'[w] = rows[w]
  BY <1>4, <1>5 DEF TypeInv, ReportsOK
<1>9. /\ h.pc = "unlink" /\ h.version = proc[p].version /\ h.stale = proc[p].stale
  BY <1>1, <1>3 DEF Handler
<1>10. HandlerOK(h) /\ h.version \in Version
  <2>1. proc[p].version \in Version BY <1>1 DEF HandlerOK
  <2> QED BY <1>1, <1>3, <1>9, <2>1, PcMoved DEF UploadPc
<1>11. ASSUME NEW w \in Version, Known(w) PROVE Known(w)' /\ (w = pointer' => w = pointer /\ rows'[w] = rows[w])
  <2>1. m <= pointer BY <1>5, <1>6, DriftConstants DEF Version, TypeInv, ReportsOK
  <2>2. CASE w = m BY <1>1, <1>6, <1>7, <2>1, <2>2 DEF Known, On
  <2>3. CASE w # m BY <1>1, <1>8, <1>11, <2>3 DEF Known, On
  <2> QED BY <2>2, <2>3
<1>12. ReportsClean'
  <2>1. \A w \in Version : rows'[w] # None => rows[w] # None /\ rows'[w] = rows[w] BY <1>8
  <2>2. pointer > 0 => rows'[pointer] # None
    BY <1>7, <1>8, Constants DEF Clean, ReportsClean, TypeInv, ReportsOK
  <2> QED BY <1>1, <2>1, <2>2 DEF Clean, ReportsClean, On
<1>13. HandlerClean(h)'
  <2>1. Known(h.version)' BY <1>1, <1>9, <1>10, <1>11 DEF HandlerClean, Known
  <2> QED BY <1>1, <1>2, <1>8, <1>9, <2>1 DEF HandlerClean, On
<1>14. ASSUME NEW q \in Proc \ {p} PROVE HandlerClean(proc[q])'
  <2>1. PICK k : k = proc[q] OBVIOUS
  <2>2. HandlerOK(k) /\ HandlerClean(k) /\ k.pc \notin Busy
    <3>1. HandlerOK(proc[q]) /\ HandlerClean(proc[q]) BY HandlerKnown
    <3>2. proc[q].pc \notin Busy BY <1>1, <1>6, HandlerKnown
    <3> QED BY <2>1, <3>1, <3>2
  <2>3. k.pc \in {"schedule", "prior"} =>
          Known(k.version)' /\ (k.version = pointer' => k.version = pointer /\ rows'[pointer'] = rows[pointer])
    BY <1>11, <2>2 DEF HandlerOK, HandlerClean, Known
  <2>4. HandlerClean(k)' BY <2>2, <2>3 DEF HandlerClean, Busy
  <2>5. proc'[q] = k BY <1>4, <1>10, <2>1, HandlerMoves
  <2> QED BY <2>4, <2>5 DEF HandlerClean, Known
<1>15. HandlersClean'
  <2>1. h.pc # "commit" /\ mix' = mix BY <1>1, <1>9
  <2> QED BY <1>1, <1>4, <1>10, <1>13, <1>14, <2>1, Moved
<1>16. RowsClean' /\ RunnerClean' BY <1>1, <1>11, RowsKept, RunnerKept DEF Clean
<1>17. RequestsClean' BY <1>1 DEF Clean, RequestsClean
<1> QED BY <1>12, <1>15, <1>16, <1>17 DEF Clean

LEMMA PruneFileClean == ASSUME TypeInv, Clean, NEW p \in Proc, PruneFile(p) PROVE Clean'
<1>1. /\ HandlerOK(proc[p]) /\ HandlerClean(proc[p]) /\ proc[p] \in Handler
      /\ proc[p].pc = "unlink" /\ proc[p].pc \in Busy
      /\ UNCHANGED <<mix, rows, pointer, prop, request, runner>>
  BY HandlerKnown DEF PruneFile, At, Busy, ReportsOnly
<1>2. PICK m : m = Min(proc[p].stale) OBVIOUS
<1>3. PICK s : s = proc[p].stale \ {m} OBVIOUS
<1>4. PICK h : h = [proc[p] EXCEPT !.pc = "prune", !.stale = s] OBVIOUS
<1>5. files' = [files EXCEPT ![m] = None] /\ Goto(p, h) BY <1>1, <1>2, <1>3, <1>4 DEF PruneFile
<1>6. proc[p].stale # {} /\ rows[m] = None BY <1>1, <1>2 DEF HandlerClean
<1>7. m \in proc[p].stale /\ m \in Version BY <1>1, <1>2, <1>6, FirstVersion DEF Handler
<1>8. On("alone") BY <1>1, <1>7 DEF HandlerClean
<1>9. h.pc = "prune" /\ h.version = proc[p].version /\ h.stale = s BY <1>1, <1>4 DEF Handler
<1>10. HandlerOK(h)
  <2>1. s \in SUBSET Version /\ proc[p].version \in Version BY <1>1, <1>3 DEF Handler, HandlerOK
  <2> QED BY <1>1, <1>4, <2>1, StaleListed
<1>11. \A w \in Version : rows[w] # None => files'[w] = files[w]
  BY <1>5, <1>6, <1>7 DEF TypeInv, ReportsOK
<1>12. \A q \in Proc \ {p} : proc[q].pc # "commit"
  <2>1. \A q \in Proc \ {p} : proc[q].pc \notin Busy BY <1>1, <1>8, HandlerKnown
  <2> QED BY <2>1 DEF Busy
<1>13. HandlerClean(h)' BY <1>1, <1>3, <1>9 DEF HandlerClean, Known, On
<1> QED BY <1>1, <1>5, <1>9, <1>10, <1>11, <1>12, <1>13, OnlyMoved

LEMMA PrunedClean == ASSUME TypeInv, Clean, NEW p \in Proc, Pruned(p) PROVE Clean'
<1>1. /\ HandlerOK(proc[p]) /\ HandlerClean(proc[p]) /\ proc[p] \in Handler
      /\ proc[p].pc = "prune" /\ OnlyHandlers
  BY HandlerKnown DEF Pruned, At
<1>2. CASE Done(p) BY <1>1, <1>2, EndsClean
<1>3. CASE Step(p, "schedule")
  <2>1. PICK h : h = [proc[p] EXCEPT !.pc = "schedule"] OBVIOUS
  <2>2. h.pc = "schedule" /\ h.version = proc[p].version BY <1>1, <2>1 DEF Handler
  <2>3. HandlerOK(h)
    <3>1. proc[p].version \in Version BY <1>1 DEF HandlerOK
    <3> QED BY <1>1, <2>1, <3>1, PcMoved DEF UploadPc
  <2>4. Goto(p, h) BY <1>3, <2>1 DEF Step
  <2>5. HandlerClean(h) /\ h.pc \notin Busy BY <1>1, <2>2 DEF HandlerClean, Busy
  <2> QED BY <1>1, <2>2, <2>3, <2>4, <2>5, QuietMove
<1> QED BY <1>2, <1>3 DEF Pruned

-----------------------------------------------------------------------------
(* Generation, requests and restarts leave the reports alone.              *)

LEMMA ReportsStand ==
    ASSUME TypeInv, Clean, UNCHANGED <<mix, reports>>,
           \A q \in Proc : proc'[q] = proc[q] \/ proc'[q] = Idle,
           RowsClean', RunnerClean', RequestsClean'
    PROVE  Clean'
<1>1. ReportsClean' BY DEF reports, Clean, ReportsClean, On
<1>2. \A q \in Proc : HandlerClean(proc[q])'
  <2> SUFFICES ASSUME NEW q \in Proc PROVE HandlerClean(proc[q])' OBVIOUS
  <2>1. PICK k : k = proc[q] OBVIOUS
  <2>2. HandlerClean(k) BY <2>1, HandlerKnown
  <2>3. HandlerClean(k)' BY <2>2 DEF HandlerClean, Known, On, reports
  <2>4. proc'[q] = k \/ proc'[q].pc = "idle" BY <2>1 DEF Idle
  <2> QED BY <2>3, <2>4 DEF HandlerClean, Known
<1>3. \A q \in Proc : (proc'[q].pc \in Busy => proc[q].pc \in Busy)
        /\ (proc'[q].pc = "commit" => proc'[q] = proc[q])
  BY DEF Idle, Busy
<1>4. \A q \in Proc : proc'[q].pc \in Busy => On("upload")'
  BY <1>3 DEF Clean, HandlersClean, On
<1>5. \A a, b \in Proc : a # b => Apart(a, b)'
  <2> SUFFICES ASSUME NEW a \in Proc, NEW b \in Proc, a # b PROVE Apart(a, b)' OBVIOUS
  <2>1. Apart(a, b) BY DEF Clean, HandlersClean
  <2> QED BY <1>3, <2>1 DEF Apart, On
<1> QED BY <1>1, <1>2, <1>4, <1>5 DEF Clean, HandlersClean

\* A handler that ends makes that known of the others.
LEMMA EndsOrStays == ASSUME TypeInv, NEW p \in Proc, Done(p) PROVE \A q \in Proc : proc'[q] = proc[q] \/ proc'[q] = Idle
BY HandlerMoves, IdleOK DEF Done

LEMMA RowsStand == ASSUME TypeInv, Clean, UNCHANGED <<mix, reports, prop>> PROVE RowsClean'
BY DEF Clean, RowsClean, Known, On, reports
LEMMA RunnerStands == ASSUME TypeInv, Clean, UNCHANGED <<mix, reports, runner>> PROVE RunnerClean'
BY DEF Clean, RunnerClean, Known, On, reports
LEMMA RequestsStand == ASSUME TypeInv, Clean, UNCHANGED request PROVE RequestsClean'
BY DEF Clean, RequestsClean

LEMMA AskClean == ASSUME TypeInv, Clean, NEW p \in Proc, AskGenerate(p) PROVE Clean'
<1>1. PICK v : v = pointer OBVIOUS
<1>2. PICK h : h = [Idle EXCEPT !.pc = "schedule", !.version = v] OBVIOUS
<1>3. OnlyHandlers /\ Goto(p, h) /\ pointer > 0 BY <1>1, <1>2 DEF AskGenerate
<1>4. h.pc = "schedule" /\ h.version = v BY <1>2 DEF Idle
<1>5. v \in Version BY <1>1, <1>3, Constants DEF TypeInv, ReportsOK
<1>6. HandlerOK(h) BY <1>2, <1>5, AskStarted
<1>7. HandlerClean(h) /\ h.pc \notin Busy
  BY <1>1, <1>3, <1>4 DEF HandlerClean, Known, Busy, Clean, ReportsClean
<1> QED BY <1>3, <1>4, <1>6, <1>7, QuietMove

LEMMA ScheduleClean == ASSUME TypeInv, Clean, NEW p \in Proc, Schedule(p) PROVE Clean'
<1>1. /\ HandlerOK(proc[p]) /\ HandlerClean(proc[p]) /\ proc[p].pc = "schedule"
      /\ Done(p) /\ UNCHANGED <<mix, reports, prop, request>>
  BY HandlerKnown DEF Schedule, At
<1>2. PICK v : v = proc[p].version OBVIOUS
<1>3. Known(v)' BY <1>1, <1>2 DEF HandlerClean, Known, On, reports
<1>4. RunnerClean'
  <2>1. CASE runner.pc = "off"
    <3>1. runner' = [Off EXCEPT !.pc = "read", !.version = v] BY <1>2, <2>1 DEF Schedule
    <3>2. runner'.pc = "read" /\ runner'.version = v /\ runner'.queued = 0 BY <3>1 DEF Off
    <3> QED BY <1>3, <3>2 DEF RunnerClean, Known
  <2>2. CASE runner.pc # "off"
    <3>1. runner' = [runner EXCEPT !.queued = v] /\ runner \in Runner
      BY <1>2, <2>2 DEF Schedule, TypeInv, RunnerOK
    <3>2. /\ runner'.pc = runner.pc /\ runner'.version = runner.version /\ runner'.content = runner.content
          /\ runner'.queued = v
      BY <3>1 DEF Runner
    <3> QED BY <1>1, <1>3, <2>2, <3>2 DEF RunnerClean, Clean, Known, On, reports
  <2> QED BY <2>1, <2>2
<1> QED BY <1>1, <1>4, EndsOrStays, RowsStand, RequestsStand, ReportsStand

LEMMA DrainClean == ASSUME TypeInv, Clean, Drain, UNCHANGED <<mix, reports>> PROVE RunnerClean'
<1>1. CASE runner.queued = 0
  <2>1. runner'.pc = "off" /\ runner'.queued = 0 BY <1>1 DEF Drain, Off
  <2> QED BY <2>1 DEF RunnerClean
<1>2. CASE runner.queued # 0
  <2>1. PICK v : v = runner.queued OBVIOUS
  <2>2. Known(v)' BY <1>2, <2>1 DEF Clean, RunnerClean, Known, On, reports
  <2>3. runner' = [Off EXCEPT !.pc = "read", !.version = v] BY <1>2, <2>1 DEF Drain
  <2>4. runner'.pc = "read" /\ runner'.version = v /\ runner'.queued = 0 BY <2>3 DEF Off
  <2> QED BY <2>2, <2>4 DEF RunnerClean, Known
<1> QED BY <1>1, <1>2

\* What a run opens is of the report it read, which is the one of its version.
LEMMA ReconcileClean == ASSUME TypeInv, Clean, GenCommit PROVE RowsClean'
<1>1. /\ runner.pc = "reconcile" /\ UNCHANGED <<mix, reports>> /\ prop' = [d \in Digest |-> Reconciled(d)]
      /\ Known(runner.version) /\ (runner.version = pointer => runner.content = rows[pointer])
  BY DEF GenCommit, Clean, RunnerClean
<1> SUFFICES ASSUME NEW d \in Digest, prop'[d].state = "open"
             PROVE  Known(prop[d].seen)' /\ (prop'[d].seen = pointer => d \in Yield[rows[pointer]])
  BY <1>1 DEF RowsClean, reports
<1>2. prop'[d] = Reconciled(d) /\ prop[d] \in Prop BY <1>1 DEF TypeInv
<1>3. CASE d \in Yield[runner.content] /\ prop'[d].seen = runner.version
  BY <1>1, <1>3 DEF Known, On, reports
<1>4. CASE prop'[d] = prop[d]
  <2>1. Known(prop[d].seen) /\ (prop[d].seen = pointer => d \in Yield[rows[pointer]])
    BY <1>4 DEF Clean, RowsClean
  <2> QED BY <1>1, <1>4, <2>1 DEF Known, On, reports
<1>5. \/ d \in Yield[runner.content] /\ Reconciled(d).seen = runner.version
      \/ Reconciled(d) = prop[d] \/ Reconciled(d).state = "superseded"
  <2>1. /\ [NoProp EXCEPT !.state = "open", !.seen = runner.version].seen = runner.version
        /\ [prop[d] EXCEPT !.state = "open", !.seen = runner.version].seen = runner.version
        /\ [prop[d] EXCEPT !.state = "superseded"].state = "superseded"
    BY <1>2 DEF NoProp, Prop
  <2> QED BY <2>1 DEF Reconciled
<1> QED BY <1>2, <1>3, <1>4, <1>5

LEMMA GenerationClean == ASSUME TypeInv, Clean, Generation PROVE Clean'
<1>1. UNCHANGED <<mix, reports, request, proc>> BY DEF Generation, GenRead, GenFail, GenQuery, GenCommit
<1>2. RunnerClean'
  <2>1. CASE Drain BY <1>1, <2>1, DrainClean
  <2>2. CASE GenRead /\ files[runner.version] # None
    <3>1. PICK c : c = files[runner.version] OBVIOUS
    <3>2. /\ runner' = [runner EXCEPT !.pc = "generate", !.content = c] /\ runner.pc = "read"
          /\ runner \in Runner /\ runner.version \in Version
      BY <2>2, <3>1 DEF GenRead, TypeInv, RunnerOK
    <3>3. /\ runner'.pc = "generate" /\ runner'.content = c /\ runner'.version = runner.version
          /\ runner'.queued = runner.queued
      BY <3>2 DEF Runner
    <3>4. c \in Content BY <2>2, <3>1, <3>2 DEF TypeInv, ReportsOK
    <3>5. runner.version = pointer => c = rows[pointer]
      BY <3>1, <3>2, Constants DEF Clean, ReportsClean
    <3> QED BY <1>1, <3>2, <3>3, <3>4, <3>5 DEF RunnerClean, Clean, Known, On, reports
  <2>3. CASE GenQuery
    <3>1. runner \in Runner /\ runner.pc = "generate" /\ runner' = [runner EXCEPT !.pc = "reconcile", !.known = prop]
      BY <2>3 DEF GenQuery, TypeInv, RunnerOK
    <3>2. /\ runner'.pc = "reconcile" /\ runner'.content = runner.content /\ runner'.version = runner.version
          /\ runner'.queued = runner.queued
      BY <3>1 DEF Runner
    <3> QED BY <1>1, <3>1, <3>2 DEF RunnerClean, Clean, Known, On, reports
  <2> QED BY <2>1, <2>2, <2>3 DEF Generation, GenRead, GenFail, GenCommit
<1>3. RowsClean'
  <2>1. CASE GenCommit BY <2>1, ReconcileClean
  <2>2. CASE UNCHANGED prop BY <1>1, <2>2, RowsStand
  <2> QED BY <2>1, <2>2 DEF Generation, GenRead, GenFail, GenQuery
<1> QED BY <1>1, <1>2, <1>3, RequestsStand, ReportsStand

\* The evidence is the report served, which yields what is open for it.
LEMMA ReadClean == ASSUME TypeInv, Clean, NEW p \in Proc, SubmitRead(p) PROVE Clean'
<1>1. pointer > 0 /\ files[pointer] # None /\ OnlyHandlers BY DEF SubmitRead
<1>2. pointer \in Version BY <1>1, Constants DEF TypeInv, ReportsOK
<1>3. PICK c : c = files[pointer] OBVIOUS
<1>4. c \in Content /\ c = rows[pointer]
  BY <1>1, <1>2, <1>3 DEF TypeInv, ReportsOK, Clean, ReportsClean
<1>5. PICK b \in SUBSET Digest : /\ \A d \in b : prop[d].state = "open" /\ prop[d].seen = pointer
                                 /\ Goto(p, [Idle EXCEPT !.pc = "submit", !.of = b, !.content = c])
  BY <1>3 DEF SubmitRead, Batches
<1>6. PICK h : h = [Idle EXCEPT !.pc = "submit", !.of = b, !.content = c] OBVIOUS
<1>7. h.pc = "submit" /\ h.of = b /\ h.content = c BY <1>6 DEF Idle
<1>8. HandlerOK(h) /\ Goto(p, h) BY <1>4, <1>5, <1>6, SubmitStarted
<1>9. \A d \in b : d \in Yield[c] BY <1>4, <1>5 DEF Clean, RowsClean
<1>10. HandlerClean(h) /\ h.pc \notin Busy BY <1>4, <1>7, <1>9 DEF HandlerClean, Busy
<1> QED BY <1>1, <1>7, <1>8, <1>10, QuietMove

\* A request made by a handler pins what that handler read.
LEMMA MadeClean ==
    ASSUME TypeInv, Clean, NEW p \in Proc, proc[p].pc \in {"submit", "legitimize"},
           NEW r \in Request, NEW kind, Make(r, kind, p)
    PROVE  RequestsClean'
<1>1. /\ request'[r].of = proc[p].of /\ request'[r].evidence = proc[p].content
      /\ \A x \in Request : x # r => request'[x] = request[x]
  BY DEF Make, TypeInv
<1>2. \A d \in proc[p].of : d \in Yield[proc[p].content] BY HandlerKnown DEF HandlerClean
<1> SUFFICES ASSUME NEW x \in Request, request'[x].state # "none"
             PROVE  \A d \in request'[x].of : d \in Yield[request'[x].evidence]
  BY DEF RequestsClean
<1>3. CASE x = r BY <1>1, <1>2, <1>3
<1>4. CASE x # r BY <1>1, <1>4 DEF Clean, RequestsClean
<1> QED BY <1>3, <1>4

\* A row that stays open, as seen before, is clean.
LEMMA SeenStays ==
    ASSUME TypeInv, Clean, UNCHANGED <<mix, reports>>,
           \A d \in Digest : prop'[d].state = "open" => prop[d].state = "open" /\ prop'[d].seen = prop[d].seen
    PROVE  RowsClean'
BY DEF Clean, RowsClean, Known, On, reports

LEMMA SubmitWriteClean == ASSUME TypeInv, Clean, NEW p \in Proc, SubmitWrite(p) PROVE Clean'
<1>1. Done(p) /\ UNCHANGED <<mix, reports, runner>> /\ proc[p].pc \in {"submit", "legitimize"} /\ prop \in [Digest -> Prop]
  BY DEF SubmitWrite, At, TypeInv
<1>2. CASE UNCHANGED <<request, prop>>
  BY <1>1, <1>2, EndsOrStays, RowsStand, RunnerStands, RequestsStand, ReportsStand
<1>3. ASSUME NEW r \in Request, Make(r, "change", p),
             prop' = [d \in Digest |-> IF d \in proc[p].of
                        THEN [prop[d] EXCEPT !.state = "submitted", !.request = r] ELSE prop[d]]
      PROVE  Clean'
  <2>1. \A d \in Digest : [prop[d] EXCEPT !.state = "submitted", !.request = r].state = "submitted"
    BY <1>1 DEF Prop
  <2>2. \A d \in Digest : prop'[d].state = "open" => prop[d].state = "open" /\ prop'[d].seen = prop[d].seen
    BY <1>3, <2>1
  <2> QED BY <1>1, <1>3, <2>2, SeenStays, MadeClean, EndsOrStays, RunnerStands, ReportsStand
<1> QED BY <1>2, <1>3 DEF SubmitWrite

LEMMA LegitimizeReadClean == ASSUME TypeInv, Clean, NEW p \in Proc, LegitimizeRead(p) PROVE Clean'
<1>1. PICK d \in Reverts : /\ prop[d].state = "open"
         /\ Goto(p, [Idle EXCEPT !.pc = "prior", !.of = {d}, !.prior = prop[d].engineer, !.version = prop[d].seen])
  BY DEF LegitimizeRead
<1>2. PICK h : h = [Idle EXCEPT !.pc = "prior", !.of = {d}, !.prior = prop[d].engineer, !.version = prop[d].seen]
  OBVIOUS
<1>3. PICK v : v = prop[d].seen OBVIOUS
<1>4. h.pc = "prior" /\ h.of = {d} /\ h.version = v BY <1>2, <1>3 DEF Idle
<1>5. d \in Digest /\ prop[d].engineer \in Request \cup {None} /\ v \in Version
  BY <1>1, <1>3, DriftConstants DEF TypeInv, RowOK, Prop
<1>6. HandlerOK(h) /\ Goto(p, h) BY <1>1, <1>2, <1>3, <1>5, PriorStarted
<1>7. Known(v) /\ (v = pointer => d \in Yield[rows[pointer]])
  BY <1>1, <1>3, <1>5 DEF Clean, RowsClean
<1>8. HandlerClean(h) /\ h.pc \notin Busy BY <1>4, <1>7 DEF HandlerClean, Busy
<1>9. OnlyHandlers BY DEF LegitimizeRead
<1> QED BY <1>4, <1>6, <1>8, <1>9, QuietMove

LEMMA LegitimizePriorClean == ASSUME TypeInv, Clean, NEW p \in Proc, LegitimizePrior(p) PROVE Clean'
<1>1. /\ HandlerOK(proc[p]) /\ HandlerClean(proc[p]) /\ proc[p] \in Handler
      /\ proc[p].pc = "prior" /\ OnlyHandlers
  BY HandlerKnown DEF LegitimizePrior, At
<1>2. CASE Done(p) BY <1>1, <1>2, EndsClean
<1>3. CASE ~Done(p)
  <2>1. PICK c : c = files[pointer] OBVIOUS
  <2>2. PICK h : h = [proc[p] EXCEPT !.pc = "legitimize", !.content = c] OBVIOUS
  <2>3. Goto(p, h) /\ pointer = proc[p].version /\ c # None BY <1>3, <2>1, <2>2 DEF LegitimizePrior
  <2>4. pointer \in Version BY <1>1, <2>3 DEF HandlerOK
  <2>5. c \in Content /\ c = rows[pointer]
    BY <2>1, <2>3, <2>4, Constants DEF TypeInv, ReportsOK, Clean, ReportsClean
  <2>6. HandlerOK(h)
    <3>1. c \in Content \cup {None} BY <2>5
    <3> QED BY <1>1, <2>2, <3>1, EvidenceRead
  <2>7. h.pc = "legitimize" /\ h.of = proc[p].of /\ h.content = c BY <1>1, <2>2 DEF Handler
  <2>8. HandlerClean(h) /\ h.pc \notin Busy BY <1>1, <2>3, <2>5, <2>6, <2>7 DEF HandlerClean, Busy
  <2> QED BY <1>1, <2>3, <2>6, <2>7, <2>8, QuietMove
<1> QED BY <1>2, <1>3

LEMMA LegitimizeWriteClean == ASSUME TypeInv, Clean, NEW p \in Proc, LegitimizeWrite(p) PROVE Clean'
<1>1. Done(p) /\ UNCHANGED <<mix, reports, runner>> /\ proc[p].pc \in {"submit", "legitimize"} /\ prop \in [Digest -> Prop]
  BY DEF LegitimizeWrite, At, TypeInv
<1>2. CASE UNCHANGED <<request, prop>>
  BY <1>1, <1>2, EndsOrStays, RowsStand, RunnerStands, RequestsStand, ReportsStand
<1>3. ASSUME NEW r \in Request, NEW d, Make(r, "engineer", p), prop' = [prop EXCEPT ![d].engineer = r]
      PROVE  Clean'
  <2>1. \A e \in Digest : [prop[e] EXCEPT !.engineer = r].state = prop[e].state
                          /\ [prop[e] EXCEPT !.engineer = r].seen = prop[e].seen
    BY <1>1 DEF Prop
  <2>2. \A e \in Digest : prop'[e] \in {prop[e], [prop[e] EXCEPT !.engineer = r]} BY <1>1, <1>3
  <2>3. \A e \in Digest : prop'[e].state = "open" => prop[e].state = "open" /\ prop'[e].seen = prop[e].seen
    BY <2>1, <2>2
  <2> QED BY <1>1, <1>3, <2>3, SeenStays, MadeClean, EndsOrStays, RunnerStands, ReportsStand
<1>4. PICK d : d = CHOOSE e \in proc[p].of : TRUE OBVIOUS
<1>5. ASSUME NEW r \in Request, Make(r, "engineer", p),
             prop' = [prop EXCEPT ![CHOOSE e \in proc[p].of : TRUE].engineer = r]
      PROVE  Clean'
  <2>1. prop' = [prop EXCEPT ![d].engineer = r] BY <1>4, <1>5
  <2> QED BY <1>3, <1>5, <2>1
<1> QED BY <1>2, <1>5 DEF LegitimizeWrite

LEMMA RestClean == ASSUME TypeInv, Clean, RequestEnds \/ Restart \/ UNCHANGED vars PROVE Clean'
<1>1. CASE RequestEnds
  <2>1. UNCHANGED <<mix, reports, prop, runner, proc>> BY <1>1 DEF RequestEnds
  <2>2. PICK r \in Request : request[r].state = "live" /\ request' = [request EXCEPT ![r].state = "ended"]
    BY <1>1 DEF RequestEnds
  <2>3. \A x \in Request : request'[x].of = request[x].of /\ request'[x].evidence = request[x].evidence
                           /\ (request'[x].state # "none" => request[x].state # "none")
    BY <2>2 DEF TypeInv, Made
  <2>4. RequestsClean' BY <2>3 DEF Clean, RequestsClean
  <2> QED BY <2>1, <2>4, RowsStand, RunnerStands, ReportsStand
<1>2. CASE Restart
  <2>1. UNCHANGED <<mix, reports, prop, request>> /\ runner' = Off /\ \A q \in Proc : proc'[q] = Idle
    BY <1>2 DEF Restart
  <2>2. RunnerClean' BY <2>1 DEF RunnerClean, Off
  <2> QED BY <2>1, <2>2, RowsStand, RequestsStand, ReportsStand
<1>3. CASE UNCHANGED vars
  <2>1. UNCHANGED <<mix, reports, prop, request, runner, proc>> BY <1>3 DEF vars, reports
  <2> QED BY <2>1, RowsStand, RunnerStands, RequestsStand, ReportsStand
<1> QED BY <1>1, <1>2, <1>3

-----------------------------------------------------------------------------
(* The invariant.                                                          *)

LEMMA InitClean == ASSUME Init PROVE Clean
<1>1. /\ \A v \in Version : rows[v] = IF v = 1 THEN mix.start ELSE None
      /\ files = rows /\ pointer = (IF mix.start = None THEN 0 ELSE 1) /\ mix \in Mix
      /\ runner = Off /\ \A p \in Proc : proc[p] = Idle
  BY DriftConstants DEF Init
<1>2. ReportsClean BY <1>1, Constants DEF ReportsClean
<1>3. HandlersClean BY <1>1 DEF HandlersClean, HandlerClean, Apart, Idle, Busy
<1>4. ASSUME NEW d \in Digest, prop[d].state = "open"
      PROVE  prop[d].seen = 1 /\ mix.start # None /\ d \in Yield[mix.start]
  <2>1. NoProp.state = "none" /\ [NoProp EXCEPT !.state = "open", !.seen = 1].seen = 1 BY DEF NoProp
  <2> QED BY <1>4, <2>1 DEF Init
<1>5. RowsClean BY <1>1, <1>4, Constants DEF RowsClean, Known
<1>6. RunnerClean BY <1>1 DEF RunnerClean, Off
<1>7. RequestsClean BY DEF Init, RequestsClean, NoRequest
<1> QED BY <1>2, <1>3, <1>5, <1>6, <1>7 DEF Clean

\* Files written over stay so.
LEMMA CollidedStays == [Next]_vars => (collided => collided')
BY DEF Next, Upload, UploadStart, UploadLook, UploadNumber, UploadWrite, UploadCommit, UploadContended,
   PruneList, PruneRow, PruneFile, Pruned, AskGenerate, Schedule, Submission, SubmitRead, SubmitWrite,
   LegitimizeRead, LegitimizePrior, LegitimizeWrite, Generation, GenRead, GenFail, GenQuery, GenCommit,
   RequestEnds, Restart, OnlyHandlers, ReportsOnly, vars

LEMMA StepClean == ASSUME Orderly, CleanInv, [Next]_vars PROVE CleanInv'
<1>1. TypeInv' BY StepTyped DEF CleanInv
<1> SUFFICES ASSUME ~collided' PROVE Clean' BY <1>1 DEF CleanInv
<1>2. TypeInv /\ Clean BY CollidedStays DEF CleanInv
<1>3. ASSUME NEW p \in Proc, Upload(p) PROVE Clean'
  BY <1>2, <1>3, StartClean, LookClean, NumberClean, WriteClean, CommitClean, ContendedClean, ListClean,
     PruneRowClean, PruneFileClean, PrunedClean, AskClean, ScheduleClean DEF Upload
<1>4. ASSUME NEW p \in Proc, Submission(p) PROVE Clean'
  BY <1>2, <1>4, ReadClean, SubmitWriteClean, LegitimizeReadClean, LegitimizePriorClean, LegitimizeWriteClean
     DEF Submission
<1>5. CASE Generation BY <1>2, <1>5, GenerationClean
<1>6. CASE RequestEnds \/ Restart \/ UNCHANGED vars BY <1>2, <1>6, RestClean
<1> QED BY <1>3, <1>4, <1>5, <1>6 DEF Next

LEMMA CleanAlways == ASSUME Orderly PROVE Spec => []CleanInv
<1>1. Init => CleanInv BY InitTyped, InitClean DEF CleanInv
<1>2. CleanInv /\ [Next]_vars => CleanInv' BY StepClean
<1> QED BY <1>1, <1>2, PTL DEF Spec

\* Retention, lost races, overlapping uploads and restarts leave every row its
\* file and the pointer its row, until two uploads write the same file (ERR-14).
THEOREM ServedWholeAlways == Orderly => (Spec => []ServedWhole)
<1> SUFFICES ASSUME Orderly PROVE Spec => []ServedWhole OBVIOUS
<1>1. CleanInv => ServedWhole BY DEF CleanInv, Clean, ReportsClean, ServedWhole
<1> QED BY <1>1, CleanAlways, PTL

\* However late a generation comes, whatever it fails or cycles back to, a
\* request pins a report that yields its proposals, and so does what is served.
THEOREM EvidenceYieldsAlways == Orderly => (Spec => []EvidenceYields)
<1> SUFFICES ASSUME Orderly PROVE Spec => []EvidenceYields OBVIOUS
<1>1. CleanInv => EvidenceYields BY DEF CleanInv, Clean, RequestsClean, RowsClean, EvidenceYields
<1> QED BY <1>1, CleanAlways, PTL
=============================================================================
