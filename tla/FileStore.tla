------------------------------- MODULE FileStore -------------------------------
(***************************************************************************)
(* The durable store: store/fileStore.ts under the lock of DataLock.  A    *)
(* mutation changes the process's memory at once and is answered when a    *)
(* snapshot that contains it is on disk; the mutations that arrive during  *)
(* a write share the next one.  What a store holds is the set of the       *)
(* mutations in it.  Processes die at any step, the host loses power, a    *)
(* snapshot fails, the directory may refuse to be synced.                  *)
(***************************************************************************)
EXTENDS DataLock

CONSTANTS
    Mutation,   \* calls of put, delete and transact whose conditions hold
    Mixes       \* sets of faults and loads; a behaviour meets one of them

Answer == {"ok", "failed", "refused", "lost"}
Call == [state : {"new", "applied", "waiting"} \cup Answer, at : Process \cup {None},
         warned : BOOLEAN]
Flush == [step : {"idle", "write", "sync"}, view : SUBSET Mutation, covered : SUBSET Mutation]
IdleFlush == [step |-> "idle", view |-> {}, covered |-> {}]

VARIABLES
    mix,     \* the faults of this behaviour
    disk,    \* the data file
    synced,  \* the data file a power loss may bring back
    mem,     \* mem[p]: the map of process p
    fault,   \* fault[p]: its snapshot failed once
    queued,  \* queued[p]: a flush is waiting its turn
    flush,   \* flush[p]: the flush under way
    call     \* call[m]: what has become of mutation m

storeVars == <<mix, disk, synced, mem, fault, queued, flush, call>>
vars == <<lockVars, storeVars>>

Init ==
    /\ LockInit
    /\ mix \in Mixes
    /\ disk = {} /\ synced = {}
    /\ mem = [p \in Process |-> {}]
    /\ fault = [p \in Process |-> FALSE]
    /\ queued = [p \in Process |-> FALSE]
    /\ flush = [p \in Process |-> IdleFlush]
    /\ call = [m \in Mutation |-> [state |-> "new", at |-> None, warned |-> FALSE]]

-----------------------------------------------------------------------------
(* Opening, closing and dying.                                             *)

\* With "solo" in the mix a process is started when no other is there.
Started(p) ==
    /\ Boot(p)
    /\ "solo" \in mix => \A q \in Process : ~Alive(q)

Acquiring(p) ==
    /\ Started(p) \/ Create(p) \/ Claim(p) \/ Check(p) \/ Clear(p)
    /\ UNCHANGED storeVars
Beating(p) == Beat(p) /\ UNCHANGED storeVars
Ticking == Tick /\ UNCHANGED storeVars

Load(p) ==
    /\ pc[p] = "load"
    /\ Goto(p, "open")
    /\ mem' = [mem EXCEPT ![p] = disk]
    /\ UNCHANGED <<lock, retry, overtaken, crashes, mix, disk, synced, fault, queued, flush, call>>

\* What process p knew is gone, and its callers hear nothing.
Gone(P) ==
    /\ pc' = [p \in Process |-> IF p \in P THEN "down" ELSE pc[p]]
    /\ mem' = [p \in Process |-> IF p \in P THEN {} ELSE mem[p]]
    /\ fault' = [p \in Process |-> p \notin P /\ fault[p]]
    /\ queued' = [p \in Process |-> p \notin P /\ queued[p]]
    /\ flush' = [p \in Process |-> IF p \in P THEN IdleFlush ELSE flush[p]]
    /\ call' = [m \in Mutation |->
                  IF call[m].at \notin P THEN call[m]
                  ELSE [call[m] EXCEPT !.at = None,
                                       !.state = IF @ \in Answer THEN @ ELSE "lost"]]
    /\ UNCHANGED <<retry, overtaken, mix>>

\* A failed load, and the end of a shutdown: drained, or out of time.
Close(p) ==
    /\ "close" \in mix
    /\ Holding(p)
    /\ lock' = Released(p)
    /\ Gone({p})
    /\ UNCHANGED <<crashes, disk, synced>>

Kill(p) ==
    /\ Alive(p)
    /\ crashes < MaxCrash
    /\ crashes' = crashes + 1
    /\ Gone({p})
    /\ UNCHANGED <<lock, disk, synced>>

PowerLoss ==
    /\ "power" \in mix
    /\ crashes < MaxCrash
    /\ crashes' = crashes + 1
    /\ disk' \in {disk, synced}
    /\ Gone(Process)
    /\ UNCHANGED <<lock, synced>>

-----------------------------------------------------------------------------
(* A mutation and its snapshot.                                            *)

UnchangedLock == UNCHANGED <<lockVars, mix>>

\* Variant: the fault is not looked at.
ApplyUnchecked(p, m) ==
    /\ "write" \in mix
    /\ pc[p] = "open"
    /\ call[m].state = "new"
    /\ mem' = [mem EXCEPT ![p] = @ \cup {m}]
    /\ call' = [call EXCEPT ![m] =
                  [state |-> "applied", at |-> p,
                   warned |-> \E n \in Mutation : call[n].at = p /\ call[n].state = "failed"]]
    /\ UNCHANGED <<disk, synced, fault, queued, flush>>
    /\ UnchangedLock

\* The condition holds, so the map takes the mutation; assertDurable refuses
\* it once a snapshot has failed.
Apply(p, m) ==
    /\ "write" \in mix
    /\ pc[p] = "open"
    /\ call[m].state = "new"
    /\ mem' = IF fault[p] THEN mem ELSE [mem EXCEPT ![p] = @ \cup {m}]
    /\ call' = [call EXCEPT ![m] =
                  [state |-> IF fault[p] THEN "refused" ELSE "applied", at |-> p,
                   warned |-> \E n \in Mutation : call[n].at = p /\ call[n].state = "failed"]]
    /\ UNCHANGED <<disk, synced, fault, queued, flush>>
    /\ UnchangedLock

Persist(p, m) ==
    /\ call[m].state = "applied" /\ call[m].at = p
    /\ call' = [call EXCEPT ![m].state = "waiting"]
    /\ queued' = [queued EXCEPT ![p] = TRUE]
    /\ UNCHANGED <<disk, synced, mem, fault, flush>>
    /\ UnchangedLock

Waiters(p) == {m \in Mutation : call[m].state = "waiting" /\ call[m].at = p}

\* Variant: a flush does not wait for the one before it.
FlushStartUnchained(p) ==
    /\ queued[p]
    /\ queued' = [queued EXCEPT ![p] = FALSE]
    /\ flush' = [flush EXCEPT ![p] = [step |-> "write", view |-> mem[p],
                                      covered |-> Waiters(p) \ flush[p].covered]]
    /\ UNCHANGED <<disk, synced, mem, fault, call>>
    /\ UnchangedLock

FlushStart(p) ==
    /\ queued[p] /\ flush[p].step = "idle"
    /\ queued' = [queued EXCEPT ![p] = FALSE]
    /\ flush' = [flush EXCEPT ![p] = [step |-> "write", view |-> mem[p], covered |-> Waiters(p)]]
    /\ UNCHANGED <<disk, synced, mem, fault, call>>
    /\ UnchangedLock

\* The temporary file is complete and takes the data file's name.
FlushRename(p) ==
    /\ flush[p].step = "write"
    /\ disk' = flush[p].view
    /\ flush' = [flush EXCEPT ![p].step = "sync"]
    /\ UNCHANGED <<synced, mem, fault, queued, call>>
    /\ UnchangedLock

Told(M, answer) ==
    [m \in Mutation |-> IF m \in M THEN [call[m] EXCEPT !.state = answer] ELSE call[m]]

\* Variant: everybody who waits by now is answered.
FlushDoneAll(p) ==
    /\ flush[p].step = "sync"
    /\ \/ synced' = disk
       \/ "nosync" \in mix /\ synced' = synced
    /\ call' = Told(Waiters(p), "ok")
    /\ flush' = [flush EXCEPT ![p] = IdleFlush]
    /\ UNCHANGED <<disk, mem, fault, queued>>
    /\ UnchangedLock

\* The directory is synced if it can be, and whom the snapshot covers is told.
FlushDone(p) ==
    /\ flush[p].step = "sync"
    /\ \/ synced' = disk
       \/ "nosync" \in mix /\ synced' = synced
    /\ call' = Told(flush[p].covered, "ok")
    /\ flush' = [flush EXCEPT ![p] = IdleFlush]
    /\ UNCHANGED <<disk, mem, fault, queued>>
    /\ UnchangedLock

FlushFail(p) ==
    /\ "full" \in mix
    /\ flush[p].step = "write"
    /\ fault' = [fault EXCEPT ![p] = TRUE]
    /\ call' = Told(flush[p].covered, "failed")
    /\ flush' = [flush EXCEPT ![p] = IdleFlush]
    /\ UNCHANGED <<disk, synced, mem, queued>>
    /\ UnchangedLock

-----------------------------------------------------------------------------
Run(p) ==
    \/ Load(p)
    \/ \E m \in Mutation : Persist(p, m)
    \/ FlushStart(p) \/ FlushRename(p) \/ FlushDone(p) \/ FlushFail(p)

Next ==
    \/ \E p \in Process : \/ Acquiring(p) \/ Beating(p) \/ Close(p) \/ Kill(p) \/ Run(p)
                          \/ \E m \in Mutation : Apply(p, m)
    \/ Ticking
    \/ PowerLoss

\* A supervisor starts a process again, what it has begun it goes on with,
\* and time passes.
Fairness ==
    /\ \A p \in Process : WF_vars(Acquiring(p)) /\ WF_vars(Run(p))
    /\ WF_vars(Ticking)

Spec == Init /\ [][Next]_vars
FairSpec == Spec /\ Fairness

-----------------------------------------------------------------------------
\* A flush covers callers of its own process that still wait, and nobody else.
TypeOK ==
    /\ LockTypeOK
    /\ mix \in Mixes
    /\ disk \subseteq Mutation /\ synced \subseteq Mutation
    /\ mem \in [Process -> SUBSET Mutation]
    /\ fault \in [Process -> BOOLEAN] /\ queued \in [Process -> BOOLEAN]
    /\ flush \in [Process -> Flush]
    /\ call \in [Mutation -> Call]
    /\ \A p \in Process : flush[p].covered \subseteq Waiters(p)

\* What was answered is on disk: a mutation resolves only once a snapshot that
\* contains it has replaced the file, and survives every crash, restart, later
\* snapshot and loss of power, as long as one process at a time had the file.
AckedDurable ==
    overtaken = "no" => \A m \in Mutation : call[m].state = "ok" => m \in disk

\* Once a caller has been told that its write failed, nothing that process is
\* asked afterwards is answered as done (DATA-3): memory may hold what disk
\* does not, and must not be built upon.
SilentAfterFailure ==
    \A m \in Mutation : call[m].warned => call[m].state # "ok"

\* Every caller hears something, if only that the process died.
Answered ==
    \A m \in Mutation : call[m].state \in {"applied", "waiting"} ~> call[m].state \in Answer

\* Whatever a crash left behind, a process opens the store again, unless the
\* crash came between creating the lock file and writing it.
Reopens ==
    (\A p \in Process : ~Holding(p))
       ~> \/ \E p \in Process : Holding(p)
          \/ lock.there /\ ~lock.written

\* The same without the exception ("it still cannot hold the file forever").
NeverWedged == (\A p \in Process : ~Holding(p)) ~> \E p \in Process : Holding(p)

\* A lock that a live process holds is not removed by another's release ("ONLY
\* if we still hold it").
ReleaseKeeps ==
    [][\A p, q \in Process :
          p # q /\ Holding(p) /\ ~Alive(p)' /\ Holding(q) /\ lock.there => lock'.there]_vars
=============================================================================
