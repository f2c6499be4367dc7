------------------------------- MODULE DataLock -------------------------------
(***************************************************************************)
(* One writer per data file: the pid-and-heartbeat lock of                 *)
(* store/dataLock.ts.  A process creates the lock file exclusively, writes *)
(* its identity into it and rewrites it on a timer; another process may    *)
(* clear it once it is stale.  The steps are system calls of different     *)
(* processes, so that reading a lock, removing it and creating one are     *)
(* three steps.                                                            *)
(***************************************************************************)
EXTENDS Naturals, FiniteSets

CONSTANTS
    Process,    \* processes that open the data file (servers, tools)
    Host,       \* [Process -> the host name each reports]
    Forced,     \* processes started with CCP_DATA_LOCK_TAKEOVER=1
    None,       \* no process
    Stale,      \* heartbeats a claim may miss (STALE_MS)
    MaxCrash    \* bound: how many processes may die

ASSUME DataLockConstants ==
    /\ None \notin Process
    /\ Forced \subseteq Process
    /\ Stale \in Nat /\ MaxCrash \in Nat

\* `by` created the file; until `written` it is empty and nobody can read it.
Lock == [there : BOOLEAN, by : Process \cup {None}, written : BOOLEAN, age : 0..(Stale + 1)]
NoLock == [there |-> FALSE, by |-> None, written |-> FALSE, age |-> 0]

Pcs == {"down", "create", "claim", "check", "clear", "load", "open"}

VARIABLES
    lock,       \* the lock file
    pc,         \* pc[p]: where process p is in its life
    retry,      \* retry[p]: p is in its second attempt
    overtaken,  \* history: the claim of a live process was cleared once; "fresh" if it was live by its heartbeat too
    crashes     \* how many processes have died

lockVars == <<lock, pc, retry, overtaken, crashes>>

LockInit ==
    /\ lock = NoLock
    /\ pc = [p \in Process |-> "down"]
    /\ retry = [p \in Process |-> FALSE]
    /\ overtaken = "no"
    /\ crashes = 0

-----------------------------------------------------------------------------
Claiming(p) == pc[p] \in {"claim", "load", "open"}
Holding(p) == pc[p] \in {"load", "open"}
Alive(p) == pc[p] # "down"
Goto(p, to) == pc' = [pc EXCEPT ![p] = to]

LockMade(p) == [there |-> TRUE, by |-> p, written |-> FALSE, age |-> 0]
LockOf(p) == [there |-> TRUE, by |-> p, written |-> TRUE, age |-> 0]

\* Variant: only the process table is asked.
StaleByPid(p) ==
    /\ lock.there /\ lock.written
    /\ Host[lock.by] = Host[p] /\ ~Alive(lock.by)

\* staleReason: the heartbeat is too old, or the holder is a dead process of
\* this host.  A lock that cannot be read has no reason.
StaleReason(p) ==
    /\ lock.there /\ lock.written
    /\ \/ lock.age > Stale
       \/ Host[lock.by] = Host[p] /\ ~Alive(lock.by)

Boot(p) ==
    /\ pc[p] = "down"
    /\ Goto(p, "create")
    /\ retry' = [retry EXCEPT ![p] = FALSE]
    /\ UNCHANGED <<lock, overtaken, crashes>>

\* Variant: the file is opened without O_EXCL.
CreateShared(p) ==
    /\ pc[p] = "create"
    /\ lock' = LockMade(p) /\ Goto(p, "claim")
    /\ UNCHANGED <<retry, overtaken, crashes>>

\* openSync(path, 'wx'), which wins or reports EEXIST.
Create(p) ==
    /\ pc[p] = "create"
    /\ IF ~lock.there THEN lock' = LockMade(p) /\ Goto(p, "claim")
       ELSE UNCHANGED lock /\ Goto(p, IF retry[p] THEN "down" ELSE "check")
    /\ UNCHANGED <<retry, overtaken, crashes>>

\* The identity goes into the file this process created, wherever it is now.
Claim(p) ==
    /\ pc[p] = "claim"
    /\ lock' = IF lock.there /\ lock.by = p THEN [lock EXCEPT !.written = TRUE] ELSE lock
    /\ Goto(p, "load")
    /\ UNCHANGED <<retry, overtaken, crashes>>

Check(p) ==
    /\ pc[p] = "check"
    /\ Goto(p, IF StaleReason(p) \/ p \in Forced THEN "clear" ELSE "down")
    /\ UNCHANGED <<lock, retry, overtaken, crashes>>

\* unlinkSync removes whatever lock is there by now.
Clear(p) ==
    /\ pc[p] = "clear"
    /\ lock' = NoLock
    /\ Goto(p, IF lock.there THEN "create" ELSE "down")
    /\ retry' = [retry EXCEPT ![p] = TRUE]
    /\ overtaken' = IF ~lock.there \/ lock.by = p \/ ~Claiming(lock.by) THEN overtaken
                    ELSE IF lock.age <= Stale /\ p \notin Forced THEN "fresh"
                    ELSE IF overtaken = "no" THEN "stale" ELSE overtaken
    /\ UNCHANGED crashes

\* The heartbeat replaces the file, whoever it belongs to by now.
Beat(p) ==
    /\ Holding(p)
    /\ lock' = LockOf(p)
    /\ UNCHANGED <<pc, retry, overtaken, crashes>>

\* release: a lock somebody else has written is left alone.
Released(p) == IF lock.there /\ lock.written /\ lock.by # p THEN lock ELSE NoLock

Tick ==
    /\ lock.there /\ lock.age <= Stale
    /\ lock' = [lock EXCEPT !.age = @ + 1]
    /\ UNCHANGED <<pc, retry, overtaken, crashes>>

-----------------------------------------------------------------------------
LockTypeOK ==
    /\ lock \in Lock
    /\ pc \in [Process -> Pcs]
    /\ retry \in [Process -> BOOLEAN]
    /\ overtaken \in {"no", "stale", "fresh"}
    /\ crashes \in 0..MaxCrash

\* One writer per data file (CONC-7, DATA-9): as long as nobody's live claim
\* was ever cleared, the lock file admits one process at a time, through
\* simultaneous boots, crashes at any step and every restart.
OneWriter ==
    overtaken = "no" => \A p, q \in Process : Holding(p) /\ Holding(q) => p = q

\* Enforced at open: nobody loses a claim that is being refreshed ("a slow
\* disk never loses a lock it still holds").
FreshClaimKept == overtaken # "fresh"
=============================================================================
