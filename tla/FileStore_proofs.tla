--------------------------- MODULE FileStore_proofs ---------------------------
(***************************************************************************)
(* Theorems about FileStore and its lock, for any processes, hosts,        *)
(* mutations and faults.  The inductive invariant says where a mutation is *)
(* at every stage of its way to the disk.                                  *)
(***************************************************************************)
EXTENDS FileStore, TLAPS

-----------------------------------------------------------------------------
\* Nobody has cleared a live claim: then the lock file is the claimant's.
LockKept ==
    overtaken = "no" => \A p \in Process : Claiming(p) => lock.there /\ lock.by = p

\* What waits belongs to an open process, and only such a one flushes.
Tracked ==
    /\ \A m \in Mutation : call[m].state \in {"applied", "waiting"} =>
         /\ call[m].at \in Process
         /\ pc[call[m].at] = "open"
         /\ m \in mem[call[m].at]
    /\ \A p \in Process : pc[p] # "open" => flush[p] = IdleFlush /\ ~queued[p]
    /\ \A p \in Process : flush[p].step = "write" => flush[p].covered \subseteq flush[p].view

\* A process that told a caller of a failure has its fault set, and refuses.
Faulted ==
    \A m \in Mutation :
       /\ call[m].state = "failed" /\ call[m].at \in Process => fault[call[m].at]
       /\ call[m].warned => call[m].state = "refused"

Done(m) == call[m].state = "ok"

\* With one writer at a time, what was answered is on disk, in the memory of
\* the process that has the store, and in every snapshot on its way.
Durable ==
    overtaken = "no" =>
      /\ \A m \in Mutation : Done(m) => m \in disk /\ ("nosync" \in mix \/ m \in synced)
      /\ \A p \in Process : pc[p] = "open" => \A m \in Mutation : Done(m) => m \in mem[p]
      /\ \A p \in Process : flush[p].step = "write" => \A m \in Mutation : Done(m) => m \in flush[p].view
      /\ \A p \in Process : flush[p].step = "sync" => flush[p].covered \subseteq disk

SInv == TypeOK /\ LockKept /\ Tracked /\ Faulted /\ Durable

\* Only a host that can sync its directory is trusted through a power loss.
PowerSynced == \A x \in Mixes : ~({"power", "nosync"} \subseteq x)

-----------------------------------------------------------------------------
LEMMA TypeInit == Init => TypeOK /\ LockKept /\ Tracked /\ Faulted /\ Durable
BY DataLockConstants
   DEF Init, LockInit, TypeOK, LockTypeOK, LockKept, Tracked, Faulted, Durable, Done, Lock, NoLock,
       Pcs, Call, Flush, IdleFlush, Answer, Claiming, Waiters

LEMMA LockRecords ==
    /\ NoLock \in Lock
    /\ \A p \in Process :
         /\ LockMade(p) \in Lock /\ LockOf(p) \in Lock
         /\ LockMade(p).by = p /\ LockOf(p).by = p
         /\ LockMade(p).there /\ LockOf(p).there
    /\ \A l \in Lock : [l EXCEPT !.written = TRUE] \in Lock
    /\ \A l \in Lock : l.age <= Stale =>
         /\ [l EXCEPT !.age = @ + 1] \in Lock
         /\ [l EXCEPT !.age = @ + 1].by = l.by
         /\ [l EXCEPT !.age = @ + 1].there = l.there
<1>1. /\ NoLock \in Lock
      /\ \A p \in Process :
           /\ LockMade(p) \in Lock /\ LockOf(p) \in Lock
           /\ LockMade(p).by = p /\ LockOf(p).by = p
           /\ LockMade(p).there /\ LockOf(p).there
  <2>1. 0 \in 0..(Stale + 1)
    BY DataLockConstants
  <2> QED BY <2>1 DEF Lock, NoLock, LockMade, LockOf
<1>2. ASSUME NEW l \in Lock
      PROVE  [l EXCEPT !.written = TRUE] \in Lock
  BY <1>2 DEF Lock
<1>3. ASSUME NEW l \in Lock, l.age <= Stale
      PROVE  /\ [l EXCEPT !.age = @ + 1] \in Lock
             /\ [l EXCEPT !.age = @ + 1].by = l.by
             /\ [l EXCEPT !.age = @ + 1].there = l.there
  <2>1. l.age + 1 \in 0..(Stale + 1)
    BY <1>3, DataLockConstants DEF Lock
  <2>2. [l EXCEPT !.age = @ + 1] =
          [there |-> l.there, by |-> l.by, written |-> l.written, age |-> l.age + 1]
    BY DEF Lock
  <2> QED BY <2>1, <2>2 DEF Lock
<1> QED BY <1>1, <1>2, <1>3

\* What a step may do to the lock file and to the lives of the processes.
LEMMA LockSteps ==
    ASSUME LockTypeOK, LockKept, [Next]_vars
    PROVE  LockTypeOK' /\ LockKept'
<1> USE DEF LockTypeOK, LockKept, Goto, Claiming
<1>1. CASE UNCHANGED vars
  BY <1>1 DEF vars, lockVars
<1>2. ASSUME NEW p \in Process, Acquiring(p) PROVE LockTypeOK' /\ LockKept'
  <2>1. CASE Started(p)
    BY <2>1 DEF Started, Boot, Pcs
  <2>2. CASE Create(p)
    BY <2>2, LockRecords DEF Create, Pcs
  <2>3. CASE Claim(p)
    <3>1. lock' \in Lock /\ lock'.by = lock.by /\ lock'.there = lock.there
      BY <2>3, LockRecords DEF Claim, Lock
    <3> QED BY <2>3, <3>1 DEF Claim, Pcs
  <2>4. CASE Check(p)
    BY <2>4 DEF Check, Pcs
  <2>5. CASE Clear(p)
    BY <2>5, LockRecords DEF Clear, Pcs
  <2>6. QED
    BY <1>2, <2>1, <2>2, <2>3, <2>4, <2>5 DEF Acquiring
<1>3. ASSUME NEW p \in Process, Beating(p) PROVE LockTypeOK' /\ LockKept'
  BY <1>3, LockRecords DEF Beating, Beat, Holding
<1>4. ASSUME NEW P \in SUBSET Process, Gone(P), UNCHANGED lock, crashes' \in 0..MaxCrash
      PROVE  LockTypeOK' /\ LockKept'
  <2>1. /\ pc' = [p \in Process |-> IF p \in P THEN "down" ELSE pc[p]]
        /\ UNCHANGED <<retry, overtaken>>
    BY <1>4 DEF Gone
  <2> QED BY <1>4, <2>1 DEF Pcs
<1>5. ASSUME NEW p \in Process, Close(p) PROVE LockTypeOK' /\ LockKept'
  <2>1. /\ pc' = [q \in Process |-> IF q = p THEN "down" ELSE pc[q]]
        /\ UNCHANGED <<retry, overtaken, crashes>>
        /\ Claiming(p)
    BY <1>5 DEF Close, Gone, Holding
  <2>2. lock' \in Lock
    BY <1>5, LockRecords DEF Close, Released
  <2> QED BY <2>1, <2>2 DEF Pcs
<1>6. ASSUME NEW p \in Process, Kill(p) PROVE LockTypeOK' /\ LockKept'
  <2>1. crashes' \in 0..MaxCrash
    BY <1>6, DataLockConstants DEF Kill
  <2> QED BY <1>4, <1>6, <2>1 DEF Kill
<1>7. ASSUME NEW p \in Process, Load(p) PROVE LockTypeOK' /\ LockKept'
  BY <1>7 DEF Load, Pcs
<1>8. CASE UNCHANGED lockVars
  BY <1>8 DEF lockVars
<1>9. CASE Ticking
  <2>1. lock' \in Lock /\ lock'.by = lock.by /\ lock'.there = lock.there
    BY <1>9, LockRecords DEF Ticking, Tick
  <2> QED BY <1>9, <2>1 DEF Ticking, Tick
<1>10. CASE PowerLoss
  <2>1. crashes' \in 0..MaxCrash
    BY <1>10, DataLockConstants DEF PowerLoss
  <2> QED BY <1>4, <1>10, <2>1 DEF PowerLoss
<1>11. ASSUME NEW p \in Process, Run(p) PROVE LockTypeOK' /\ LockKept'
  BY <1>7, <1>8, <1>11 DEF Run, Persist, FlushStart, FlushRename, FlushDone, FlushFail, UnchangedLock
<1>12. ASSUME NEW p \in Process, NEW m \in Mutation, Apply(p, m) PROVE LockTypeOK' /\ LockKept'
  BY <1>8, <1>12 DEF Apply, UnchangedLock
<1>13. QED
  BY <1>1, <1>2, <1>3, <1>5, <1>6, <1>9, <1>10, <1>11, <1>12 DEF Next

-----------------------------------------------------------------------------
StoreTypeOK ==
    /\ mix \in Mixes
    /\ disk \subseteq Mutation /\ synced \subseteq Mutation
    /\ mem \in [Process -> SUBSET Mutation]
    /\ fault \in [Process -> BOOLEAN] /\ queued \in [Process -> BOOLEAN]
    /\ flush \in [Process -> Flush]
    /\ call \in [Mutation -> Call]
    /\ \A p \in Process : flush[p].covered \subseteq Waiters(p)

StoreInv == StoreTypeOK /\ Tracked /\ Faulted /\ Durable

LEMMA TypeParts == TypeOK <=> LockTypeOK /\ StoreTypeOK
BY DEF TypeOK, StoreTypeOK

\* With one writer at a time, a process that is open is the only one.
LEMMA OnlyOpen ==
    ASSUME LockKept, overtaken = "no", NEW p \in Process, NEW q \in Process,
           Claiming(p), Claiming(q)
    PROVE  p = q
BY DEF LockKept

\* Only an open process has a flush under way or waiting.
LEMMA OpenFlushes ==
    ASSUME Tracked, NEW p \in Process, flush[p].step # "idle" PROVE pc[p] = "open"
BY DEF Tracked, IdleFlush

LEMMA OpenQueues ==
    ASSUME Tracked, NEW p \in Process, FlushStart(p) PROVE pc[p] = "open"
BY DEF Tracked, FlushStart

\* Steps of the lock that open and close nothing.
LEMMA QuietSteps ==
    ASSUME StoreInv, UNCHANGED storeVars, overtaken' = "no" => overtaken = "no",
           \A p \in Process : pc'[p] = "open" <=> pc[p] = "open"
    PROVE  StoreInv'
<1> USE DEF StoreInv, storeVars
<1>1. StoreTypeOK'
  BY DEF StoreTypeOK, Waiters
<1>2. Tracked'
  BY DEF Tracked
<1>3. Faulted'
  BY DEF Faulted
<1>4. Durable'
  BY DEF Durable, Done
<1> QED BY <1>1, <1>2, <1>3, <1>4

LEMMA LoadKeeps ==
    ASSUME LockTypeOK, LockKept, StoreInv, NEW p \in Process, Load(p)
    PROVE  StoreInv'
<1>1. /\ UNCHANGED <<mix, disk, synced, fault, queued, flush, call, overtaken>>
      /\ mem' = [mem EXCEPT ![p] = disk]
      /\ \A q \in Process : pc'[q] = "open" <=> (q = p \/ pc[q] = "open")
      /\ pc[p] = "load"
  BY DEF Load, Goto, LockTypeOK
<1> USE <1>1 DEF StoreInv
<1>2. StoreTypeOK'
  BY DEF StoreTypeOK, Waiters
<1>3. mem'[p] = disk /\ \A q \in Process : q # p => mem'[q] = mem[q]
  BY DEF StoreTypeOK
<1>4. Tracked'
  BY <1>3 DEF Tracked
<1>5. Faulted'
  BY DEF Faulted
<1>6. Durable'
  BY <1>3 DEF Durable, Done
<1> QED BY <1>2, <1>4, <1>5, <1>6

\* Death of any set of processes.
LEMMA GoneKeeps ==
    ASSUME LockTypeOK, StoreInv, NEW P \in SUBSET Process, Gone(P),
           UNCHANGED synced, disk' = disk \/ ("power" \in mix /\ P = Process /\ disk' = synced),
           PowerSynced
    PROVE  StoreInv'
<1>1. /\ \A q \in Process : pc'[q] = IF q \in P THEN "down" ELSE pc[q]
      /\ \A q \in Process : mem'[q] = IF q \in P THEN {} ELSE mem[q]
      /\ \A q \in Process : fault'[q] = (q \notin P /\ fault[q])
      /\ \A q \in Process : queued'[q] = (q \notin P /\ queued[q])
      /\ \A q \in Process : flush'[q] = IF q \in P THEN IdleFlush ELSE flush[q]
      /\ UNCHANGED <<overtaken, mix, synced>>
  BY DEF Gone
<1>2. ASSUME NEW m \in Mutation
      PROVE  /\ call[m].at \notin P => call'[m] = call[m]
             /\ call[m].at \in P => /\ call'[m].at = None
                                    /\ call'[m].warned = call[m].warned
                                    /\ call'[m].state \in Answer
                                    /\ call[m].state \in Answer => call'[m].state = call[m].state
                                    /\ call[m].state \notin Answer => call'[m].state = "lost"
             /\ call'[m] \in Call
  <2>1. call[m] \in Call
    BY DEF StoreInv, StoreTypeOK
  <2>2. call[m].at \notin P => call'[m] = call[m]
    BY DEF Gone
  <2>3. ASSUME call[m].at \in P
        PROVE  call'[m] = [state |-> IF call[m].state \in Answer THEN call[m].state ELSE "lost",
                           at |-> None, warned |-> call[m].warned]
    BY <2>1, <2>3 DEF Gone, Call
  <2> QED BY <2>1, <2>2, <2>3 DEF Call, Answer
<1> USE DEF StoreInv
<1>3. StoreTypeOK'
  <2>1. /\ mem' \in [Process -> SUBSET Mutation]
        /\ fault' \in [Process -> BOOLEAN] /\ queued' \in [Process -> BOOLEAN]
        /\ flush' \in [Process -> Flush]
    BY DEF Gone, StoreTypeOK, Flush, IdleFlush
  <2>2. call' \in [Mutation -> Call]
    BY <1>2 DEF Gone
  <2>3. ASSUME NEW q \in Process PROVE flush'[q].covered \subseteq Waiters(q)'
    <3>1. CASE q \in P
      BY <1>1, <3>1 DEF IdleFlush
    <3>2. CASE q \notin P
      BY <1>1, <1>2, <3>2 DEF StoreTypeOK, Waiters
    <3> QED BY <3>1, <3>2
  <2> QED BY <1>1, <2>1, <2>2, <2>3 DEF StoreTypeOK
<1>4. Tracked'
  <2>1. ASSUME NEW m \in Mutation, call'[m].state \in {"applied", "waiting"}
        PROVE  call[m].at \notin P /\ call'[m] = call[m]
    BY <1>2, <2>1 DEF Answer
  <2>2. ASSUME NEW m \in Mutation, call'[m].state \in {"applied", "waiting"}
        PROVE  /\ call'[m].at \in Process
               /\ pc'[call'[m].at] = "open"
               /\ m \in mem'[call'[m].at]
    BY <1>1, <2>1, <2>2 DEF Tracked
  <2>3. ASSUME NEW q \in Process, pc'[q] # "open" PROVE flush'[q] = IdleFlush /\ ~queued'[q]
    BY <1>1, <2>3 DEF Tracked
  <2>4. ASSUME NEW q \in Process, flush'[q].step = "write"
        PROVE  flush'[q].covered \subseteq flush'[q].view
    BY <1>1, <2>4 DEF Tracked, IdleFlush
  <2> QED BY <2>2, <2>3, <2>4 DEF Tracked
<1>5. Faulted'
  <2>1. ASSUME NEW m \in Mutation, call'[m].state = "failed", call'[m].at \in Process
        PROVE  fault'[call'[m].at]
    BY <1>1, <1>2, <2>1, DataLockConstants DEF Faulted
  <2>2. ASSUME NEW m \in Mutation, call'[m].warned PROVE call'[m].state = "refused"
    BY <1>2, <2>2 DEF Faulted, Answer
  <2> QED BY <2>1, <2>2 DEF Faulted
<1>6. Durable'
  <2> SUFFICES ASSUME overtaken = "no" PROVE Durable'
    BY <1>1 DEF Durable
  <2>1. ASSUME NEW m \in Mutation PROVE Done(m)' => Done(m)
    BY <1>2 DEF Done, Answer
  <2>2. ASSUME NEW m \in Mutation, Done(m)' PROVE (m \in disk /\ ("nosync" \in mix \/ m \in synced))'
    <3>1. m \in disk /\ ("nosync" \in mix \/ m \in synced)
      BY <2>1, <2>2 DEF Durable
    <3>2. "power" \in mix => "nosync" \notin mix
      BY DEF PowerSynced, StoreTypeOK
    <3> QED BY <1>1, <3>1, <3>2
  <2>3. ASSUME NEW q \in Process, pc'[q] = "open", NEW m \in Mutation, Done(m)' PROVE m \in mem'[q]
    BY <1>1, <2>1, <2>3 DEF Durable
  <2>4. ASSUME NEW q \in Process, flush'[q].step = "write", NEW m \in Mutation, Done(m)'
        PROVE  m \in flush'[q].view
    BY <1>1, <2>1, <2>4 DEF Durable, IdleFlush
  <2>5. ASSUME NEW q \in Process, flush'[q].step = "sync" PROVE flush'[q].covered \subseteq disk'
    <3>1. q \notin P /\ disk' = disk
      BY <1>1, <2>5 DEF IdleFlush
    <3> QED BY <1>1, <2>5, <3>1 DEF Durable
  <2> QED BY <2>2, <2>3, <2>4, <2>5 DEF Durable
<1> QED BY <1>3, <1>4, <1>5, <1>6

-----------------------------------------------------------------------------
(* The way of a mutation, step by step.                                    *)

LEMMA ApplyKeeps ==
    ASSUME LockTypeOK, StoreInv, NEW p \in Process, NEW m \in Mutation, Apply(p, m)
    PROVE  StoreInv'
<1>1. /\ UNCHANGED <<mix, disk, synced, fault, queued, flush, overtaken, pc>>
      /\ pc[p] = "open" /\ call[m].state = "new"
      /\ \A q \in Process : mem[q] \subseteq mem'[q]
      /\ ~fault[p] => m \in mem'[p]
  BY DEF Apply, UnchangedLock, lockVars, StoreInv, StoreTypeOK
<1>2. /\ \A n \in Mutation : n # m => call'[n] = call[n]
      /\ call'[m].at = p
      /\ call'[m].state = IF fault[p] THEN "refused" ELSE "applied"
      /\ call'[m].warned = \E n \in Mutation : call[n].at = p /\ call[n].state = "failed"
      /\ call' \in [Mutation -> Call]
  BY DEF Apply, StoreInv, StoreTypeOK, Call, Answer
<1> USE DEF StoreInv
<1>3. StoreTypeOK'
  <2>1. mem' \in [Process -> SUBSET Mutation]
    BY DEF Apply, StoreTypeOK
  <2>2. \A q \in Process : Waiters(q) \subseteq Waiters(q)'
    BY <1>1, <1>2 DEF Waiters
  <2> QED BY <1>1, <1>2, <2>1, <2>2 DEF StoreTypeOK
<1>4. Tracked'
  <2>1. ASSUME NEW n \in Mutation, call'[n].state \in {"applied", "waiting"}
        PROVE  call'[n].at \in Process /\ pc'[call'[n].at] = "open" /\ n \in mem'[call'[n].at]
    BY <1>1, <1>2, <2>1 DEF Tracked
  <2> QED BY <1>1, <2>1 DEF Tracked
<1>5. Faulted'
  BY <1>1, <1>2 DEF Faulted
<1>6. Durable'
  <2>1. \A n \in Mutation : Done(n)' => Done(n)
    BY <1>2 DEF Done
  <2> QED BY <1>1, <2>1 DEF Durable
<1> QED BY <1>3, <1>4, <1>5, <1>6

LEMMA PersistKeeps ==
    ASSUME LockTypeOK, StoreInv, NEW p \in Process, NEW m \in Mutation, Persist(p, m)
    PROVE  StoreInv'
<1>1. /\ UNCHANGED <<mix, disk, synced, fault, mem, flush, overtaken, pc>>
      /\ call[m].state = "applied" /\ call[m].at = p
      /\ queued' \in [Process -> BOOLEAN]
      /\ \A q \in Process : q # p => queued'[q] = queued[q]
  BY DEF Persist, UnchangedLock, lockVars, StoreInv, StoreTypeOK
<1>2. /\ \A n \in Mutation : n # m => call'[n] = call[n]
      /\ call'[m] = [state |-> "waiting", at |-> p, warned |-> call[m].warned]
  BY <1>1 DEF Persist, StoreInv, StoreTypeOK, Call
<1>3. call' \in [Mutation -> Call]
  BY <1>2 DEF Persist, StoreInv, StoreTypeOK, Call
<1> USE DEF StoreInv
<1>4. StoreTypeOK'
  <2>1. \A q \in Process : Waiters(q) \subseteq Waiters(q)'
    BY <1>1, <1>2 DEF Waiters
  <2> QED BY <1>1, <1>3, <2>1 DEF StoreTypeOK
<1>5. Tracked'
  BY <1>1, <1>2 DEF Tracked
<1>6. Faulted'
  BY <1>1, <1>2 DEF Faulted
<1>7. Durable'
  <2>1. \A n \in Mutation : Done(n)' => Done(n)
    BY <1>2 DEF Done
  <2> QED BY <1>1, <2>1 DEF Durable
<1> QED BY <1>4, <1>5, <1>6, <1>7

LEMMA FlushStartKeeps ==
    ASSUME LockTypeOK, StoreInv, NEW p \in Process, FlushStart(p), pc[p] = "open"
    PROVE  StoreInv'
<1>1. /\ UNCHANGED <<mix, disk, synced, fault, mem, call, overtaken, pc>>
      /\ queued' \in [Process -> BOOLEAN]
      /\ \A q \in Process : queued'[q] => queued[q]
      /\ flush'[p] = [step |-> "write", view |-> mem[p], covered |-> Waiters(p)]
      /\ \A q \in Process : q # p => flush'[q] = flush[q]
  BY DEF FlushStart, UnchangedLock, lockVars, StoreInv, StoreTypeOK
<1> USE DEF StoreInv
<1>2. Waiters(p) \subseteq mem[p]
  BY DEF Tracked, Waiters
<1>3. StoreTypeOK'
  <2>1. flush'[p] \in Flush
    BY <1>1 DEF Flush, Waiters, StoreTypeOK
  <2>2. flush' \in [Process -> Flush]
    BY <1>1, <2>1 DEF FlushStart, StoreTypeOK
  <2> QED BY <1>1, <2>2 DEF StoreTypeOK, Waiters
<1>4. Tracked'
  BY <1>1, <1>2 DEF Tracked
<1>5. Faulted'
  BY <1>1 DEF Faulted
<1>6. Durable'
  BY <1>1 DEF Durable, Done
<1> QED BY <1>3, <1>4, <1>5, <1>6

LEMMA FlushRenameKeeps ==
    ASSUME LockTypeOK, LockKept, StoreInv, NEW p \in Process, FlushRename(p), pc[p] = "open"
    PROVE  StoreInv'
<1>1. /\ UNCHANGED <<mix, synced, fault, mem, queued, call, overtaken, pc>>
      /\ flush[p].step = "write"
      /\ disk' = flush[p].view
      /\ flush'[p] = [step |-> "sync", view |-> flush[p].view, covered |-> flush[p].covered]
      /\ \A q \in Process : q # p => flush'[q] = flush[q]
  BY DEF FlushRename, UnchangedLock, lockVars, StoreInv, StoreTypeOK, Flush
<1> USE DEF StoreInv
<1>2. StoreTypeOK'
  <2>1. flush[p] \in Flush /\ disk' \subseteq Mutation
    BY <1>1 DEF StoreTypeOK, Flush
  <2>2. flush' \in [Process -> Flush]
    BY <1>1, <2>1 DEF FlushRename, StoreTypeOK, Flush
  <2> QED BY <1>1, <2>1, <2>2 DEF StoreTypeOK, Waiters
<1>3. Tracked'
  BY <1>1 DEF Tracked
<1>4. Faulted'
  BY <1>1 DEF Faulted
<1>5. Durable'
  <2> SUFFICES ASSUME overtaken = "no" PROVE Durable'
    BY <1>1 DEF Durable
  <2>1. \A m \in Mutation : Done(m)' <=> Done(m)
    BY <1>1 DEF Done
  <2>2. \A m \in Mutation : Done(m) => m \in disk'
    BY <1>1 DEF Durable
  <2>3. ASSUME NEW q \in Process, flush'[q].step = "sync" PROVE flush'[q].covered \subseteq disk'
    <3>1. CASE q = p
      BY <1>1, <3>1 DEF Tracked
    <3>2. CASE q # p
      <4>1. pc[q] # "open"
        BY <3>2, OnlyOpen DEF Claiming
      <4> QED BY <1>1, <2>3, <3>2, <4>1 DEF Tracked, IdleFlush
    <3> QED BY <3>1, <3>2
  <2>4. \A q \in Process : flush'[q].step = "write" => flush'[q] = flush[q]
    BY <1>1
  <2> QED BY <1>1, <2>1, <2>2, <2>3, <2>4 DEF Durable
<1> QED BY <1>2, <1>3, <1>4, <1>5

\* Answers given to whom a flush covers.
LEMMA ToldIs ==
    ASSUME StoreTypeOK, NEW p \in Process, NEW a \in {"ok", "failed"},
           call' = Told(flush[p].covered, a)
    PROVE  /\ call' \in [Mutation -> Call]
           /\ \A m \in Mutation : /\ call'[m].at = call[m].at
                                  /\ call'[m].warned = call[m].warned
                                  /\ call'[m].state = IF m \in flush[p].covered THEN a ELSE call[m].state
           /\ \A m \in flush[p].covered : call[m].state = "waiting" /\ call[m].at = p
<1>1. ASSUME NEW m \in Mutation
      PROVE  /\ call'[m] = [state |-> IF m \in flush[p].covered THEN a ELSE call[m].state,
                            at |-> call[m].at, warned |-> call[m].warned]
             /\ call'[m] \in Call
  <2>1. call[m] \in Call
    BY DEF StoreTypeOK
  <2>2. call'[m] = [state |-> IF m \in flush[p].covered THEN a ELSE call[m].state,
                    at |-> call[m].at, warned |-> call[m].warned]
    BY <2>1 DEF Told, Call
  <2> QED BY <2>1, <2>2 DEF Call, Answer
<1>2. call' \in [Mutation -> Call]
  BY <1>1 DEF Told
<1>3. ASSUME NEW m \in flush[p].covered PROVE call[m].state = "waiting" /\ call[m].at = p
  BY DEF StoreTypeOK, Waiters
<1>4. ASSUME NEW m \in Mutation
      PROVE  /\ call'[m].at = call[m].at
             /\ call'[m].warned = call[m].warned
             /\ call'[m].state = IF m \in flush[p].covered THEN a ELSE call[m].state
  <2>1. call'[m] = [state |-> IF m \in flush[p].covered THEN a ELSE call[m].state,
                    at |-> call[m].at, warned |-> call[m].warned]
    BY <1>1
  <2> QED BY <2>1
<1> QED BY <1>2, <1>3, <1>4

LEMMA FlushEndKeeps ==
    ASSUME LockTypeOK, LockKept, StoreInv, NEW p \in Process, FlushDone(p) \/ FlushFail(p),
           pc[p] = "open"
    PROVE  StoreInv'
<1> USE DEF StoreInv
<1>1. /\ UNCHANGED <<mix, disk, mem, queued, overtaken, pc>>
      /\ flush'[p] = IdleFlush
      /\ \A q \in Process : q # p => flush'[q] = flush[q]
  BY DEF FlushDone, FlushFail, UnchangedLock, lockVars, StoreTypeOK
<1>2. PICK a \in {"ok", "failed"} :
         /\ call' = Told(flush[p].covered, a)
         /\ a = "ok" => FlushDone(p)
         /\ a = "failed" => FlushFail(p)
  BY DEF FlushDone, FlushFail
<1>3. /\ a = "failed" => UNCHANGED synced /\ fault'[p] /\ \A q \in Process : q # p => fault'[q] = fault[q]
      /\ a = "ok" => UNCHANGED fault /\ flush[p].step = "sync" /\ (synced' = disk \/ ("nosync" \in mix /\ synced' = synced))
      /\ fault' \in [Process -> BOOLEAN]
  BY <1>2 DEF FlushDone, FlushFail, StoreTypeOK
<1>4. /\ call' \in [Mutation -> Call]
      /\ \A m \in Mutation : /\ call'[m].at = call[m].at
                             /\ call'[m].warned = call[m].warned
                             /\ call'[m].state = IF m \in flush[p].covered THEN a ELSE call[m].state
      /\ \A m \in flush[p].covered : call[m].state = "waiting" /\ call[m].at = p
  BY <1>2, ToldIs
<1>5. StoreTypeOK'
  <2>1. flush' \in [Process -> Flush]
    BY DEF FlushDone, FlushFail, StoreTypeOK, Flush, IdleFlush
  <2>2. ASSUME NEW q \in Process PROVE flush'[q].covered \subseteq Waiters(q)'
    <3>1. CASE q = p
      BY <1>1, <3>1 DEF IdleFlush
    <3>2. CASE q # p
      <4>1. \A m \in flush[q].covered : m \in Mutation /\ call[m].state = "waiting" /\ call[m].at = q
        BY DEF StoreTypeOK, Waiters
      <4> QED BY <1>1, <1>4, <3>2, <4>1 DEF Waiters
    <3> QED BY <3>1, <3>2
  <2>3. synced' \subseteq Mutation
    BY <1>3 DEF StoreTypeOK
  <2> QED BY <1>1, <1>3, <1>4, <2>1, <2>2, <2>3 DEF StoreTypeOK
<1>6. Tracked'
  <2>1. ASSUME NEW m \in Mutation, call'[m].state \in {"applied", "waiting"}
        PROVE  call[m].state \in {"applied", "waiting"}
    BY <1>4, <2>1
  <2>2. \A q \in Process : flush'[q].step = "write" => flush'[q] = flush[q]
    BY <1>1 DEF IdleFlush
  <2> QED BY <1>1, <1>4, <2>1, <2>2 DEF Tracked
<1>7. Faulted'
  <2>1. ASSUME NEW m \in Mutation, call'[m].state = "failed", call'[m].at \in Process
        PROVE  fault'[call'[m].at]
    <3>1. CASE m \in flush[p].covered
      BY <1>3, <1>4, <2>1, <3>1
    <3>2. CASE m \notin flush[p].covered
      BY <1>3, <1>4, <2>1, <3>2 DEF Faulted
    <3> QED BY <3>1, <3>2
  <2>2. ASSUME NEW m \in Mutation, call'[m].warned PROVE call'[m].state = "refused"
    BY <1>4, <2>2 DEF Faulted
  <2> QED BY <2>1, <2>2 DEF Faulted
<1>8. Durable'
  <2> SUFFICES ASSUME overtaken = "no" PROVE Durable'
    BY <1>1 DEF Durable
  <2>0. \A q \in Process : q # p => pc[q] # "open"
    BY OnlyOpen DEF Claiming
  <2>1. ASSUME NEW m \in Mutation, Done(m)'
        PROVE  m \in disk /\ m \in mem[p] /\ ("nosync" \in mix \/ m \in synced')
    <3>1. CASE Done(m)
      <4>1. m \in disk /\ m \in mem[p] /\ ("nosync" \in mix \/ m \in synced)
        BY <3>1 DEF Durable
      <4> QED BY <1>3, <4>1
    <3>2. CASE ~Done(m)
      <4>1. m \in flush[p].covered /\ a = "ok"
        BY <1>4, <2>1, <3>2 DEF Done
      <4>2. m \in disk
        BY <1>3, <4>1 DEF Durable
      <4>3. m \in mem[p]
        BY <1>4, <4>1 DEF Tracked
      <4> QED BY <1>3, <4>1, <4>2, <4>3
    <3> QED BY <3>1, <3>2
  <2>2. \A q \in Process : flush'[q].step = "idle"
    BY <1>1, <2>0 DEF Tracked, IdleFlush
  <2> QED BY <1>1, <2>0, <2>1, <2>2 DEF Durable
<1> QED BY <1>5, <1>6, <1>7, <1>8

-----------------------------------------------------------------------------
LEMMA SInvStep == ASSUME SInv, [Next]_vars, PowerSynced PROVE SInv'
<1> USE DEF SInv
<1>1. LockTypeOK /\ StoreInv
  BY TypeParts DEF StoreInv
<1>2. LockTypeOK' /\ LockKept'
  BY <1>1, LockSteps
<1>3. StoreInv'
  <2>1. CASE UNCHANGED vars
    BY <1>1, <2>1, QuietSteps DEF vars, lockVars
  <2>2. ASSUME NEW p \in Process, Acquiring(p) PROVE StoreInv'
    <3>1. UNCHANGED storeVars
      BY <2>2 DEF Acquiring
    <3>2. overtaken' = "no" => overtaken = "no"
      BY <2>2 DEF Acquiring, Started, Boot, Create, Claim, Check, Clear
    <3>3. \A q \in Process : pc'[q] = "open" <=> pc[q] = "open"
      BY <1>1, <2>2 DEF Acquiring, Started, Boot, Create, Claim, Check, Clear, Goto, LockTypeOK
    <3> QED BY <1>1, <3>1, <3>2, <3>3, QuietSteps
  <2>3. ASSUME NEW p \in Process, Beating(p) PROVE StoreInv'
    BY <1>1, <2>3, QuietSteps DEF Beating, Beat
  <2>4. ASSUME NEW p \in Process, Close(p) PROVE StoreInv'
    BY <1>1, <2>4, GoneKeeps DEF Close
  <2>5. ASSUME NEW p \in Process, Kill(p) PROVE StoreInv'
    BY <1>1, <2>5, GoneKeeps DEF Kill
  <2>6. ASSUME NEW p \in Process, Run(p) PROVE StoreInv'
    <3>1. CASE Load(p)
      BY <1>1, <3>1, LoadKeeps
    <3>2. ASSUME NEW m \in Mutation, Persist(p, m) PROVE StoreInv'
      BY <1>1, <3>2, PersistKeeps
    <3>3. CASE FlushStart(p)
      BY <1>1, <3>3, FlushStartKeeps, OpenQueues DEF StoreInv
    <3>4. CASE FlushRename(p)
      BY <1>1, <3>4, FlushRenameKeeps, OpenFlushes DEF FlushRename, StoreInv
    <3>5. CASE FlushDone(p)
      BY <1>1, <3>5, FlushEndKeeps, OpenFlushes DEF FlushDone, StoreInv
    <3>6. CASE FlushFail(p)
      BY <1>1, <3>6, FlushEndKeeps, OpenFlushes DEF FlushFail, StoreInv
    <3> QED BY <2>6, <3>1, <3>2, <3>3, <3>4, <3>5, <3>6 DEF Run
  <2>7. ASSUME NEW p \in Process, NEW m \in Mutation, Apply(p, m) PROVE StoreInv'
    BY <1>1, <2>7, ApplyKeeps
  <2>8. CASE Ticking
    BY <1>1, <2>8, QuietSteps DEF Ticking, Tick
  <2>9. CASE PowerLoss
    BY <1>1, <2>9, GoneKeeps DEF PowerLoss
  <2> QED BY <2>1, <2>2, <2>3, <2>4, <2>5, <2>6, <2>7, <2>8, <2>9 DEF Next
<1>4. TypeOK'
  BY <1>2, <1>3 DEF StoreInv, StoreTypeOK, TypeOK
<1> QED BY <1>2, <1>3, <1>4 DEF StoreInv

LEMMA SInvHolds == ASSUME PowerSynced PROVE Spec => []SInv
<1>1. Init => SInv
  BY TypeInit DEF SInv
<1>2. SInv /\ [Next]_vars => SInv'
  BY SInvStep
<1> QED BY <1>1, <1>2, PTL DEF Spec

\* Every part of the store and of its lock stays well formed, and a flush
\* covers only callers of its own process that wait.
THEOREM StoreTypes == ASSUME PowerSynced PROVE Spec => []TypeOK
<1>1. SInv => TypeOK
  BY DEF SInv
<1> QED BY <1>1, SInvHolds, PTL

\* For any processes, starting, dying and clearing locks in any order: as long
\* as nobody cleared the claim of a live process, one process has the file.
THEOREM OneWriterAtATime == ASSUME PowerSynced PROVE Spec => []OneWriter
<1>1. SInv => OneWriter
  BY OnlyOpen DEF SInv, OneWriter, Holding, Claiming
<1> QED BY <1>1, SInvHolds, PTL

\* For any processes and mutations: what was answered is on disk, through every
\* crash and every loss of power, if the host that loses power can sync its
\* directory.
THEOREM AcksAreDurable == ASSUME PowerSynced PROVE Spec => []AckedDurable
<1>1. SInv => AckedDurable
  BY DEF SInv, Durable, AckedDurable, Done
<1> QED BY <1>1, SInvHolds, PTL

\* For any processes and mutations: who asks a process that has told somebody
\* of a failed write is not answered that it was done.
THEOREM NoAnswerAfterFailure == ASSUME PowerSynced PROVE Spec => []SilentAfterFailure
<1>1. SInv => SilentAfterFailure
  BY DEF SInv, Faulted, SilentAfterFailure
<1> QED BY <1>1, SInvHolds, PTL
=============================================================================
