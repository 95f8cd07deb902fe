------------------------------- MODULE UsageSync -------------------------------
(***************************************************************************)
(* Synchronising OmniRoute's usage with the credit ledger.                 *)
(*                                                                         *)
(* Several API processes (replicas) share one database.  In each of them   *)
(* the worker's tick and an administrator's request run the same           *)
(* SyncExecutor: a local mutex, then a PostgreSQL advisory lock, then      *)
(* SyncOmniRoute, which fetches a page of OmniRoute's log, bills its       *)
(* events one by one and moves a cursor after each.  Requests to OmniRoute *)
(* and the database may fail, an acknowledgement may be lost, a process    *)
(* may die, and the connection that holds the advisory lock may be lost    *)
(* while the sync goes on over the other connections of the pool.          *)
(***************************************************************************)
EXTENDS Naturals, Sequences, FiniteSets

CONSTANTS
    Runs,          \* callers of SyncExecutor.Run: a replica's worker, an admin
    Replicas,      \* API processes
    Workers,       \* the callers that are a worker's ticks
    ReplicaOf,     \* the process a caller runs in
    Events,        \* entries OmniRoute may write to its log
    At,            \* the time an entry carries
    PerSecond,     \* ticks of At in one second
    Unknown,       \* entries of keys SLAI does not know
    Free,          \* entries that cost nothing
    Poison,        \* entries whose ingestion always fails
    Modes,         \* the values OMNIROUTE_USAGE_SYNC_MODE may have
    Limit,         \* batch limit
    MaxFaults,     \* bound on failures of any kind
    None

ASSUME RunsAssumption   == /\ Workers \subseteq Runs
                           /\ ReplicaOf \in [Runs -> Replicas]
                           /\ None \notin Runs
ASSUME EventsAssumption == /\ IsFiniteSet(Events)
                           /\ At \in [Events -> Nat \ {0}]
                           /\ PerSecond \in Nat \ {0}
                           /\ Unknown \subseteq Events
                           /\ Free \subseteq Events
                           /\ Poison \subseteq Events
ASSUME ConfigAssumption == /\ Modes \subseteq {"call_logs", "usage_history"}
                           /\ Limit \in Nat \ {0}
                           /\ MaxFaults \in Nat

VARIABLES
    mode,      \* OMNIROUTE_USAGE_SYNC_MODE, the same in every process
    log,       \* OmniRoute's log
    late,      \* entries logged behind the cursor or a page in progress (history)
    cursor,    \* omniroute_sync_state.last_seen_timestamp, 0 for NULL
    events,    \* usage_events
    debits,    \* how often the ledger was debited for an entry
    lock,      \* the caller whose connection holds the advisory lock
    mutex,     \* SyncExecutor.localMu of each process
    status,    \* SyncStatusTracker of each process
    runs,      \* the calls in progress
    lost,      \* those of them whose advisory lock was lost (history)
    faults

vars == <<mode, log, late, cursor, events, debits, lock, mutex, status, runs, lost, faults>>

Idle == [pc |-> "idle", since |-> 0, page |-> << >>, failed |-> FALSE]

\* A call in progress: where it is, the time it asked OmniRoute for, and what is
\* left of its page.
RunState ==
    {x \in [pc : {"idle", "locking", "start", "state", "fetch", "next",
                  "insert", "cursor", "finish", "release", "unlock"},
            since : Nat, page : Seq(log), failed : BOOLEAN] :
        x.pc \in {"insert", "cursor"} => x.page # << >>}

TypeOK ==
    /\ mode \in Modes
    /\ log \subseteq Events /\ late \subseteq log /\ events \subseteq log
    /\ cursor \in Nat
    /\ debits \in [Events -> Nat]
    /\ lock \in Runs \cup {None}
    /\ mutex \in [Replicas -> Runs \cup {None}]
    /\ status \in [Replicas -> [running : BOOLEAN, error : BOOLEAN]]
    /\ runs \in [Runs -> RunState]
    /\ lost \subseteq Runs
    /\ faults \in 0 .. MaxFaults

Init ==
    /\ mode \in Modes
    /\ log = {} /\ late = {} /\ events = {}
    /\ cursor = 0
    /\ debits = [e \in Events |-> 0]
    /\ lock = None
    /\ mutex = [p \in Replicas |-> None]
    /\ status = [p \in Replicas |-> [running |-> FALSE, error |-> FALSE]]
    /\ runs = [r \in Runs |-> Idle]
    /\ lost = {}
    /\ faults = 0

Goto(r, pc) == runs' = [runs EXCEPT ![r].pc = pc]
Fail(r)     == runs' = [runs EXCEPT ![r].pc = "finish", ![r].page = << >>, ![r].failed = TRUE]
Fault       == faults < MaxFaults /\ faults' = faults + 1

--------------------------------------------------------------------------------
(* OmniRoute (external) *)

\* A served request is logged, possibly with a time before others in the log.
Log(e) ==
    /\ e \notin log
    /\ log' = log \cup {e}
    /\ late' = IF \/ At[e] < cursor
                  \/ \E r \in Runs : \/ At[e] < runs[r].since
                                     \/ \E i \in DOMAIN runs[r].page : At[e] < At[runs[r].page[i]]
               THEN late \cup {e} ELSE late
    /\ UNCHANGED <<mode, lost, cursor, events, debits, lock, mutex, status, runs, faults>>

\* What a request for Limit entries may return.  The usage history filters by the
\* time given, inclusively, and starts with the oldest entry; the client does not
\* pass the time to the call logs, which start with the newest.
Offers(since) ==
    LET matching == IF mode = "usage_history" THEN {e \in log : At[e] >= since} ELSE log
        Before(x, y) == IF mode = "usage_history" THEN At[x] <= At[y] ELSE At[x] >= At[y]
    IN  {S \in SUBSET matching :
            /\ Cardinality(S) = IF Cardinality(matching) < Limit THEN Cardinality(matching) ELSE Limit
            /\ \A x \in S, y \in matching \ S : Before(x, y)}

--------------------------------------------------------------------------------
(* SyncExecutor.RunWithLimit *)

\* (Faulty: every sync goes ahead, whatever the mutex says.)
TryLocalMutexAlways(r) ==
    /\ runs[r].pc = "idle"
    /\ mutex' = [mutex EXCEPT ![ReplicaOf[r]] = r]
    /\ Goto(r, "locking")
    /\ UNCHANGED <<mode, lost, log, late, cursor, events, debits, lock, status, faults>>

TryLocalMutex(r) ==
    /\ runs[r].pc = "idle"
    /\ mutex[ReplicaOf[r]] = None
    /\ mutex' = [mutex EXCEPT ![ReplicaOf[r]] = r]
    /\ Goto(r, "locking")
    /\ UNCHANGED <<mode, lost, log, late, cursor, events, debits, lock, status, faults>>

\* (Faulty: the answer of pg_try_advisory_lock is not looked at.)
TryAdvisoryLockAlways(r) ==
    /\ runs[r].pc = "locking"
    /\ \/ lock' = r /\ Goto(r, "start") /\ UNCHANGED faults
       \/ Fault /\ Goto(r, "unlock") /\ UNCHANGED lock
    /\ UNCHANGED <<mode, lost, log, late, cursor, events, debits, mutex, status>>

TryAdvisoryLock(r) ==
    /\ runs[r].pc = "locking"
    /\ \/ lock = None /\ lock' = r /\ Goto(r, "start") /\ UNCHANGED faults
       \/ lock # None /\ Goto(r, "unlock") /\ UNCHANGED <<lock, faults>>
       \/ Fault /\ Goto(r, "unlock") /\ UNCHANGED lock
    /\ UNCHANGED <<mode, lost, log, late, cursor, events, debits, mutex, status>>

MarkStarted(r) ==
    /\ runs[r].pc = "start"
    /\ status' = [status EXCEPT ![ReplicaOf[r]] = [running |-> TRUE, error |-> FALSE]]
    /\ Goto(r, "state")
    /\ UNCHANGED <<mode, lost, log, late, cursor, events, debits, lock, mutex, faults>>

\* The deferred call, after a success, an error or a panic of the sync.
MarkFinished(r) ==
    /\ \/ runs[r].pc = "finish"
       \/ runs[r].pc = "next" /\ runs[r].page = << >>
    /\ status' = [status EXCEPT ![ReplicaOf[r]] = [running |-> FALSE, error |-> runs[r].failed]]
    /\ Goto(r, "release")
    /\ UNCHANGED <<mode, lost, log, late, cursor, events, debits, lock, mutex, faults>>

\* (Faulty: a sync that failed keeps the advisory lock.)
ReleaseAdvisoryLockOnSuccess(r) ==
    /\ runs[r].pc = "release"
    /\ lock' = IF lock = r /\ ~runs[r].failed THEN None ELSE lock
    /\ Goto(r, "unlock")
    /\ UNCHANGED <<mode, lost, log, late, cursor, events, debits, mutex, status, faults>>

ReleaseAdvisoryLock(r) ==
    /\ runs[r].pc = "release"
    /\ lock' = IF lock = r THEN None ELSE lock
    /\ Goto(r, "unlock")
    /\ UNCHANGED <<mode, lost, log, late, cursor, events, debits, mutex, status, faults>>

UnlockLocalMutex(r) ==
    /\ runs[r].pc = "unlock"
    /\ mutex' = [mutex EXCEPT ![ReplicaOf[r]] = None]
    /\ runs' = [runs EXCEPT ![r] = Idle]
    /\ lost' = lost \ {r}
    /\ UNCHANGED <<mode, log, late, cursor, events, debits, lock, status, faults>>

--------------------------------------------------------------------------------
(* SyncOmniRoute *)

\* (Faulty: the next sync starts behind the cursor's second.)
GetSyncStateExclusive(r) ==
    /\ runs[r].pc = "state"
    /\ runs' = [runs EXCEPT ![r].pc = "fetch",
                            ![r].since = IF cursor = 0 THEN 0 ELSE cursor - (cursor % PerSecond) + PerSecond]
    /\ UNCHANGED <<mode, lost, log, late, cursor, events, debits, lock, mutex, status, faults>>

GetSyncState(r) ==
    /\ runs[r].pc = "state"
    /\ runs' = [runs EXCEPT ![r].pc = "fetch", ![r].since = cursor - (cursor % PerSecond)]
    /\ UNCHANGED <<mode, lost, log, late, cursor, events, debits, lock, mutex, status, faults>>

\* (Faulty: the page is taken in OmniRoute's order.)
FetchUnsorted(r) ==
    /\ runs[r].pc = "fetch"
    /\ \E S \in Offers(runs[r].since) :
       \E page \in [1 .. Cardinality(S) -> S] :
          /\ \A i, j \in DOMAIN page : i < j => page[i] # page[j]
          /\ runs' = [runs EXCEPT ![r].pc = "next", ![r].page = page]
    /\ UNCHANGED <<mode, lost, log, late, cursor, events, debits, lock, mutex, status, faults>>

\* The page is sorted by time; equal times are in any order.
Fetch(r) ==
    /\ runs[r].pc = "fetch"
    /\ \E S \in Offers(runs[r].since) :
       \E page \in [1 .. Cardinality(S) -> S] :
          /\ \A i, j \in DOMAIN page : i < j => page[i] # page[j] /\ At[page[i]] <= At[page[j]]
          /\ runs' = [runs EXCEPT ![r].pc = "next", ![r].page = page]
    /\ UNCHANGED <<mode, lost, log, late, cursor, events, debits, lock, mutex, status, faults>>

\* IngestEvent up to its insert: an entry that is there already is a duplicate,
\* one of an unknown key is ignored.
FindUsageEvent(r) ==
    /\ runs[r].pc = "next"
    /\ runs[r].page # << >>
    /\ LET e == Head(runs[r].page)
       IN  IF e \in events \cup Unknown THEN Goto(r, "cursor") ELSE Goto(r, "insert")
    /\ UNCHANGED <<mode, lost, log, late, cursor, events, debits, lock, mutex, status, faults>>

\* (Faulty: an insert that does not look for a conflict.)
InsertUsageEventAgain(r) ==
    /\ runs[r].pc = "insert"
    /\ LET e == Head(runs[r].page)
       IN  /\ e \notin Poison
           /\ events' = events \cup {e}
           /\ debits' = IF e \in Free THEN debits ELSE [debits EXCEPT ![e] = @ + 1]
    /\ \/ Goto(r, "cursor") /\ UNCHANGED faults
       \/ Fail(r) /\ Fault
    /\ UNCHANGED <<mode, lost, log, late, cursor, lock, mutex, status>>

\* The rest of the transaction, with its commit: ON CONFLICT DO NOTHING, then the debit.
\* The acknowledgement of the commit may be lost.
InsertUsageEvent(r) ==
    /\ runs[r].pc = "insert"
    /\ LET e == Head(runs[r].page)
       IN  /\ e \notin Poison
           /\ events' = events \cup {e}
           /\ debits' = IF e \in events \cup Free THEN debits ELSE [debits EXCEPT ![e] = @ + 1]
    /\ \/ Goto(r, "cursor") /\ UNCHANGED faults
       \/ Fail(r) /\ Fault
    /\ UNCHANGED <<mode, lost, log, late, cursor, lock, mutex, status>>

IngestFails(r) ==
    /\ runs[r].pc = "insert"
    /\ Head(runs[r].page) \in Poison
    /\ Fail(r)
    /\ UNCHANGED <<mode, lost, log, late, cursor, events, debits, lock, mutex, status, faults>>

\* (Faulty: the two columns of the cursor are swapped.)
UpdateSyncStateSwapped(r) ==
    /\ runs[r].pc = "cursor"
    /\ cursor' = Head(runs[r].page)
    /\ runs' = [runs EXCEPT ![r].pc = "next", ![r].page = Tail(@)]
    /\ UNCHANGED <<mode, lost, log, late, events, debits, lock, mutex, status, faults>>

UpdateSyncState(r) ==
    /\ runs[r].pc = "cursor"
    /\ cursor' = At[Head(runs[r].page)]
    /\ runs' = [runs EXCEPT ![r].pc = "next", ![r].page = Tail(@)]
    /\ UNCHANGED <<mode, lost, log, late, events, debits, lock, mutex, status, faults>>

--------------------------------------------------------------------------------
(* Failures *)

\* A call to OmniRoute or the database fails, the context is cancelled or the
\* sync panics: the deferred calls of RunWithLimit still run.
Abort(r) ==
    /\ runs[r].pc \in {"state", "fetch", "next", "insert", "cursor"}
    /\ Fault
    /\ Fail(r)
    /\ UNCHANGED <<mode, lost, log, late, cursor, events, debits, lock, mutex, status>>

\* The connection that holds the advisory lock is lost; the sync does not notice.
LoseLockConnection(r) ==
    /\ lock = r
    /\ Fault
    /\ lock' = None
    /\ lost' = lost \cup {r}
    /\ UNCHANGED <<mode, log, late, cursor, events, debits, mutex, status, runs>>

\* A process dies and is restarted; the database ends its sessions.
Crash(p) ==
    /\ \E r \in Runs : ReplicaOf[r] = p /\ runs[r].pc # "idle"
    /\ Fault
    /\ runs' = [r \in Runs |-> IF ReplicaOf[r] = p THEN Idle ELSE runs[r]]
    /\ lock' = IF lock # None /\ ReplicaOf[lock] = p THEN None ELSE lock
    /\ mutex' = [mutex EXCEPT ![p] = None]
    /\ status' = [status EXCEPT ![p] = [running |-> FALSE, error |-> FALSE]]
    /\ lost' = {r \in lost : ReplicaOf[r] # p}
    /\ UNCHANGED <<mode, log, late, cursor, events, debits>>

--------------------------------------------------------------------------------

Continue(r) ==
    \/ TryAdvisoryLock(r)
    \/ MarkStarted(r)
    \/ GetSyncState(r)
    \/ Fetch(r)
    \/ FindUsageEvent(r)
    \/ InsertUsageEvent(r)
    \/ IngestFails(r)
    \/ UpdateSyncState(r)
    \/ MarkFinished(r)
    \/ ReleaseAdvisoryLock(r)
    \/ UnlockLocalMutex(r)

Next ==
    \/ \E e \in Events : Log(e)
    \/ \E r \in Runs : TryLocalMutex(r) \/ Continue(r) \/ Abort(r) \/ LoseLockConnection(r)
    \/ \E p \in Replicas : Crash(p)

Spec == Init /\ [][Next]_vars

\* A call that has begun goes on, and the workers tick for ever.  Nothing makes an
\* administrator ask for a sync.
FairSpec ==
    /\ Spec
    /\ \A r \in Runs : WF_vars(Continue(r))
    /\ \A w \in Workers : WF_vars(TryLocalMutex(w))

--------------------------------------------------------------------------------
(* Properties *)

Syncing(r)  == runs[r].pc \in {"state", "fetch", "next", "insert", "cursor", "finish"}
Settled(e)  == e \in events \cup Unknown

\* An entry is debited at most once, exactly when it is recorded as billed and costs
\* something, even if two syncs run at once: the unique index on usage_events and the
\* transaction around the debit.
BilledOnce ==
    \A e \in Events : debits[e] = IF e \in events \ Free THEN 1 ELSE 0

\* The advisory lock lets one sync run at a time, over all replicas, whatever fails or
\* dies: another one can only join a sync whose lock was lost with its connection.
OneSync ==
    \A r, s \in Runs \ lost : Syncing(r) /\ Syncing(s) => r = s

\* A process reports a running sync while one runs in it, and at no other time:
\* MarkFinished comes before the mutex is given up.
RunningIsTrue ==
    \A p \in Replicas : status[p].running <=> \E r \in Runs : ReplicaOf[r] = p /\ Syncing(r)

\* In the usage history's mode the cursor never passes an entry that is still to be
\* billed, unless the entry was logged behind it: a failed or interrupted sync leaves
\* the entries it did not reach to the next one.
NoEventSkipped ==
    mode = "usage_history" => \A e \in log \ late : At[e] < cursor => Settled(e)

\* Nothing holds the advisory lock or a mutex for ever: when a sync fails, is
\* cancelled or panics, the lock becomes free again.
LockIsReleased ==
    \A r \in Runs : lock = r ~> lock # r

\* Every entry that was not logged behind the cursor is billed in the end.
EventuallyBilled ==
    \A e \in Events : e \in log ~> (Settled(e) \/ e \in late)

================================================================================
