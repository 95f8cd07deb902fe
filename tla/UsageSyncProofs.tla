--------------------------- MODULE UsageSyncProofs ---------------------------
(***************************************************************************)
(* Proofs about UsageSync for every set of callers, processes and entries,  *)
(* every batch limit and any number of failures.                           *)
(*                                                                         *)
(* The invariants come in layers, each proved with the ones before it:     *)
(* types, the two locks, the billing, the cursor.                          *)
(***************************************************************************)
EXTENDS UsageSync, FiniteSetTheorems, SequenceTheorems, TLAPS

-----------------------------------------------------------------------------
(* Types.                                                                  *)

\* What OmniRoute offers is a finite part of its log.
LEMMA OfferedIsLogged ==
  ASSUME TypeOK, NEW t \in Nat, NEW S \in Offers(t)
  PROVE  S \subseteq log /\ IsFiniteSet(S) /\ Cardinality(S) \in Nat
<1>1. S \subseteq log
  BY DEF Offers
<1>2. S \in SUBSET Events
  BY <1>1 DEF TypeOK
<1>3. IsFiniteSet(S)
  BY <1>2, EventsAssumption, FS_Subset
<1> QED
  BY <1>1, <1>3, FS_CardinalityType

\* A finite set listed without repetition is listed in full.
LEMMA ListedInFull ==
  ASSUME NEW S, IsFiniteSet(S), Cardinality(S) \in Nat,
         NEW page \in [1 .. Cardinality(S) -> S],
         \A i, j \in DOMAIN page : i < j => page[i] # page[j]
  PROVE  page \in Seq(S) /\ \A e \in S : \E i \in DOMAIN page : page[i] = e
<1>1. page \in Seq(S)
  OBVIOUS
<1>2. page \in Injection(1 .. Cardinality(S), S)
  BY DEF Injection, IsInjective
<1>3. Cardinality(1 .. Cardinality(S)) = Cardinality(S)
  BY FS_Interval
<1>4. page \in Surjection(1 .. Cardinality(S), S)
  BY <1>2, <1>3, FS_Injection
<1> QED
  BY <1>1, <1>4 DEF Surjection

\* A fetched page is the offered set in some order, sorted by time.
LEMMA FetchedPage ==
  ASSUME TypeOK, NEW r \in Runs, Fetch(r)
  PROVE  \E S \in Offers(runs[r].since), page \in Seq(log) :
           /\ page \in Seq(S)
           /\ \A e \in S : \E i \in DOMAIN page : page[i] = e
           /\ \A i, j \in DOMAIN page : i < j => At[page[i]] <= At[page[j]]
           /\ runs' = [runs EXCEPT ![r].pc = "next", ![r].page = page]
<1>1. PICK S \in Offers(runs[r].since) :
        \E page \in [1 .. Cardinality(S) -> S] :
          /\ \A i, j \in DOMAIN page : i < j => page[i] # page[j] /\ At[page[i]] <= At[page[j]]
          /\ runs' = [runs EXCEPT ![r].pc = "next", ![r].page = page]
  BY DEF Fetch
<1>2. PICK page \in [1 .. Cardinality(S) -> S] :
        /\ \A i, j \in DOMAIN page : i < j => page[i] # page[j] /\ At[page[i]] <= At[page[j]]
        /\ runs' = [runs EXCEPT ![r].pc = "next", ![r].page = page]
  BY <1>1
<1>3. S \subseteq log /\ IsFiniteSet(S) /\ Cardinality(S) \in Nat
  <2>1. runs[r].since \in Nat
    BY DEF TypeOK, RunState
  <2> QED
    BY <2>1, OfferedIsLogged
<1>4. page \in Seq(S) /\ \A e \in S : \E i \in DOMAIN page : page[i] = e
  <2>1. \A i, j \in DOMAIN page : i < j => page[i] # page[j]
    BY <1>2
  <2> QED
    BY <1>3, <2>1, ListedInFull
<1>5. page \in Seq(log)
  BY <1>3, <1>4, SeqMonotonic
<1>6. \A i, j \in DOMAIN page : i < j => At[page[i]] <= At[page[j]]
  BY <1>2
<1>7. runs' = [runs EXCEPT ![r].pc = "next", ![r].page = page]
  BY <1>2
<1> WITNESS S \in Offers(runs[r].since), page \in Seq(log)
<1> QED
  BY <1>4, <1>6, <1>7

\* The type of a call's state depends on the log alone.
LEMMA SameLog ==
  ASSUME log' = log
  PROVE  RunState' = RunState
  BY DEF RunState

\* How far a subtraction in whole seconds goes.
LEMMA SecondStarts ==
  ASSUME NEW t \in Nat, NEW n \in Nat \ {0}
  PROVE  t - (t % n) \in Nat /\ t - (t % n) <= t
  OBVIOUS

\* The ways in which a step changes a call.
LEMMA GotoType ==
  ASSUME TypeOK, NEW r \in Runs,
         NEW pc \in {"idle", "locking", "start", "state", "fetch", "next", "insert",
                     "cursor", "finish", "release", "unlock"},
         Goto(r, pc), pc \in {"insert", "cursor"} => runs[r].page # << >>
  PROVE  runs' \in [Runs -> RunState]
<1>1. [runs[r] EXCEPT !.pc = pc] \in RunState
  BY DEF TypeOK, RunState
<1>2. runs' = [runs EXCEPT ![r] = [runs[r] EXCEPT !.pc = pc]]
  BY DEF Goto
<1> QED
  BY <1>1, <1>2 DEF TypeOK

LEMMA FailType ==
  ASSUME TypeOK, NEW r \in Runs, Fail(r)
  PROVE  runs' \in [Runs -> RunState]
<1> DEFINE failed == [runs[r] EXCEPT !.pc = "finish", !.page = << >>, !.failed = TRUE]
<1>1. << >> \in Seq(log)
  OBVIOUS
<1>2. failed \in RunState
  BY <1>1 DEF TypeOK, RunState
<1>3. runs' = [runs EXCEPT ![r] = failed]
  BY DEF Fail
<1> QED
  BY <1>2, <1>3 DEF TypeOK

LEMMA PageType ==
  ASSUME TypeOK, NEW r \in Runs, NEW page \in Seq(log),
         runs' = [runs EXCEPT ![r].pc = "next", ![r].page = page]
  PROVE  runs' \in [Runs -> RunState]
<1>1. [runs[r] EXCEPT !.pc = "next", !.page = page] \in RunState
  BY DEF TypeOK, RunState
<1>2. runs' = [runs EXCEPT ![r] = [runs[r] EXCEPT !.pc = "next", !.page = page]]
  OBVIOUS
<1> QED
  BY <1>1, <1>2 DEF TypeOK

LEMMA IdleType == Idle \in RunState
  BY DEF Idle, RunState

\* A call that is at an entry of its page has one.
LEMMA PageHead ==
  ASSUME TypeOK, NEW r \in Runs,
         runs[r].pc \in {"insert", "cursor"} \/ runs[r].page # << >>
  PROVE  /\ runs[r].page \in Seq(log) /\ runs[r].page # << >>
         /\ Head(runs[r].page) \in log
         /\ Head(runs[r].page) \in Events
         /\ Tail(runs[r].page) \in Seq(log)
<1>1. runs[r].page \in Seq(log) /\ runs[r].page # << >>
  BY DEF TypeOK, RunState
<1>2. Head(runs[r].page) \in log /\ Tail(runs[r].page) \in Seq(log)
  BY <1>1, HeadTailProperties
<1> QED
  BY <1>1, <1>2 DEF TypeOK

\* Types are kept.  A page only ever shrinks or comes from the log.
LEMMA TypeStep ==
  ASSUME TypeOK, [Next]_vars
  PROVE  TypeOK'
<1>1. ASSUME NEW e \in Events, Log(e) PROVE TypeOK'
  <2>1. ASSUME NEW x \in RunState PROVE x \in RunState'
    <3>1. x.page \in Seq(log) /\ log \subseteq log'
      BY <1>1 DEF Log, RunState
    <3>2. x.page \in Seq(log')
      BY <3>1, SeqMonotonic
    <3> QED
      BY <3>2 DEF RunState
  <2>2. runs' \in [Runs -> RunState']
    BY <1>1, <2>1 DEF Log, TypeOK
  <2> QED
    BY <1>1, <2>2 DEF Log, TypeOK
<1>2. ASSUME NEW r \in Runs, TryLocalMutex(r) PROVE TypeOK'
  BY <1>2, SameLog, GotoType DEF TryLocalMutex, TypeOK
<1>3. ASSUME NEW r \in Runs, TryAdvisoryLock(r) PROVE TypeOK'
  <2>1. runs' \in [Runs -> RunState]
    BY <1>3, GotoType DEF TryAdvisoryLock
  <2>2. lock' \in Runs \cup {None}
    BY <1>3 DEF TryAdvisoryLock, TypeOK
  <2>3. faults' \in 0 .. MaxFaults
    BY <1>3, ConfigAssumption DEF TryAdvisoryLock, Fault, TypeOK
  <2> QED
    BY <1>3, <2>1, <2>2, <2>3, SameLog DEF TryAdvisoryLock, TypeOK
<1>4. ASSUME NEW r \in Runs, MarkStarted(r) PROVE TypeOK'
  BY <1>4, SameLog, GotoType DEF MarkStarted, TypeOK
<1>5. ASSUME NEW r \in Runs, GetSyncState(r) PROVE TypeOK'
  <2>1. cursor - (cursor % PerSecond) \in Nat
    BY SecondStarts, EventsAssumption DEF TypeOK
  <2>2. [runs[r] EXCEPT !.pc = "fetch", !.since = cursor - (cursor % PerSecond)] \in RunState
    BY <2>1 DEF TypeOK, RunState
  <2>3. runs' = [runs EXCEPT ![r] =
                   [runs[r] EXCEPT !.pc = "fetch", !.since = cursor - (cursor % PerSecond)]]
    BY <1>5 DEF GetSyncState
  <2> QED
    BY <1>5, <2>2, <2>3, SameLog DEF GetSyncState, TypeOK
<1>6. ASSUME NEW r \in Runs, Fetch(r) PROVE TypeOK'
  <2>1. runs' \in [Runs -> RunState]
    BY <1>6, FetchedPage, PageType
  <2> QED
    BY <1>6, <2>1, SameLog DEF Fetch, TypeOK
<1>7. ASSUME NEW r \in Runs, FindUsageEvent(r) PROVE TypeOK'
  <2>1. runs' \in [Runs -> RunState]
    BY <1>7, GotoType DEF FindUsageEvent
  <2> QED
    BY <1>7, <2>1, SameLog DEF FindUsageEvent, TypeOK
<1>8. ASSUME NEW r \in Runs, InsertUsageEvent(r) PROVE TypeOK'
  <2>1. runs[r].page # << >> /\ Head(runs[r].page) \in log /\ Head(runs[r].page) \in Events
    BY <1>8, PageHead DEF InsertUsageEvent
  <2>2. runs' \in [Runs -> RunState]
    BY <1>8, <2>1, GotoType, FailType DEF InsertUsageEvent
  <2>3. faults' \in 0 .. MaxFaults
    BY <1>8, ConfigAssumption DEF InsertUsageEvent, Fault, TypeOK
  <2>4. debits' \in [Events -> Nat]
    BY <1>8, <2>1 DEF InsertUsageEvent, TypeOK
  <2> QED
    BY <1>8, <2>1, <2>2, <2>3, <2>4, SameLog DEF InsertUsageEvent, TypeOK
<1>9. ASSUME NEW r \in Runs, IngestFails(r) PROVE TypeOK'
  BY <1>9, SameLog, FailType DEF IngestFails, TypeOK
<1>10. ASSUME NEW r \in Runs, UpdateSyncState(r) PROVE TypeOK'
  <2>1. Head(runs[r].page) \in Events /\ Tail(runs[r].page) \in Seq(log)
    BY <1>10, PageHead DEF UpdateSyncState
  <2>2. cursor' \in Nat
    BY <1>10, <2>1, EventsAssumption DEF UpdateSyncState
  <2>3. runs' = [runs EXCEPT ![r].pc = "next", ![r].page = Tail(runs[r].page)]
    BY <1>10 DEF UpdateSyncState, TypeOK
  <2>4. runs' \in [Runs -> RunState]
    BY <2>1, <2>3, PageType
  <2> QED
    BY <1>10, <2>2, <2>4, SameLog DEF UpdateSyncState, TypeOK
<1>11. ASSUME NEW r \in Runs, MarkFinished(r) PROVE TypeOK'
  <2>1. runs[r].failed \in BOOLEAN
    BY DEF TypeOK, RunState
  <2>2. runs' \in [Runs -> RunState]
    BY <1>11, GotoType DEF MarkFinished
  <2> QED
    BY <1>11, <2>1, <2>2, SameLog DEF MarkFinished, TypeOK
<1>12. ASSUME NEW r \in Runs, ReleaseAdvisoryLock(r) PROVE TypeOK'
  BY <1>12, SameLog, GotoType DEF ReleaseAdvisoryLock, TypeOK
<1>13. ASSUME NEW r \in Runs, UnlockLocalMutex(r) PROVE TypeOK'
  BY <1>13, SameLog, IdleType DEF UnlockLocalMutex, TypeOK
<1>14. ASSUME NEW r \in Runs, Abort(r) PROVE TypeOK'
  <2>1. runs' \in [Runs -> RunState]
    BY <1>14, FailType DEF Abort
  <2>2. faults' \in 0 .. MaxFaults
    BY <1>14, ConfigAssumption DEF Abort, Fault, TypeOK
  <2> QED
    BY <1>14, <2>1, <2>2, SameLog DEF Abort, TypeOK
<1>15. ASSUME NEW r \in Runs, LoseLockConnection(r) PROVE TypeOK'
  <2>1. faults' \in 0 .. MaxFaults
    BY <1>15, ConfigAssumption DEF LoseLockConnection, Fault, TypeOK
  <2> QED
    BY <1>15, <2>1, SameLog DEF LoseLockConnection, TypeOK
<1>16. ASSUME NEW p \in Replicas, Crash(p) PROVE TypeOK'
  <2>1. faults' \in 0 .. MaxFaults
    BY <1>16, ConfigAssumption DEF Crash, Fault, TypeOK
  <2>2. runs' \in [Runs -> RunState]
    BY <1>16, IdleType DEF Crash, TypeOK
  <2> QED
    BY <1>16, <2>1, <2>2, SameLog DEF Crash, TypeOK
<1>17. CASE UNCHANGED vars
  BY <1>17, SameLog DEF vars, TypeOK
<1> QED
  BY <1>1, <1>2, <1>3, <1>4, <1>5, <1>6, <1>7, <1>8, <1>9, <1>10, <1>11, <1>12, <1>13,
     <1>14, <1>15, <1>16, <1>17 DEF Next, Continue

-----------------------------------------------------------------------------
(* The two locks.                                                          *)

\* The mutex of a process is held by its call in progress.
MutexHeld ==
  \A r \in Runs : runs[r].pc # "idle" <=> mutex[ReplicaOf[r]] = r

\* A call that took the advisory lock holds it, unless its connection was lost.
LockHeld ==
  \A r \in Runs \ lost : Syncing(r) \/ runs[r].pc \in {"start", "release"} => lock = r

Locked == MutexHeld /\ LockHeld /\ RunningIsTrue

\* Of the calls of one process one is in progress.
LEMMA OneCallPerProcess ==
  ASSUME MutexHeld, NEW r \in Runs, NEW s \in Runs, ReplicaOf[r] = ReplicaOf[s],
         runs[r].pc # "idle", runs[s].pc # "idle"
  PROVE  r = s
  BY DEF MutexHeld

\* What the ways of changing a call do to it, and to the others.
LEMMA GotoMoves ==
  ASSUME TypeOK, NEW r \in Runs, NEW pc, Goto(r, pc)
  PROVE  /\ runs'[r].pc = pc /\ runs'[r].page = runs[r].page /\ runs'[r].since = runs[r].since
         /\ \A s \in Runs \ {r} : runs'[s] = runs[s]
  BY DEF Goto, TypeOK, RunState

LEMMA FailMoves ==
  ASSUME TypeOK, NEW r \in Runs, Fail(r)
  PROVE  /\ runs'[r].pc = "finish" /\ runs'[r].page = << >> /\ runs'[r].since = runs[r].since
         /\ \A s \in Runs \ {r} : runs'[s] = runs[s]
  BY DEF Fail, TypeOK, RunState

LEMMA TailMoves ==
  ASSUME TypeOK, NEW r \in Runs, UpdateSyncState(r)
  PROVE  runs' = [runs EXCEPT ![r].pc = "next", ![r].page = Tail(runs[r].page)]
  BY DEF UpdateSyncState, TypeOK

LEMMA PageMoves ==
  ASSUME TypeOK, NEW r \in Runs, NEW page,
         runs' = [runs EXCEPT ![r].pc = "next", ![r].page = page]
  PROVE  /\ runs'[r].pc = "next" /\ runs'[r].page = page /\ runs'[r].since = runs[r].since
         /\ \A s \in Runs \ {r} : runs'[s] = runs[s]
  BY DEF TypeOK, RunState

\* The steps of a sync between MarkStarted and MarkFinished.
LEMMA SyncGoesOn ==
  ASSUME Locked, NEW r \in Runs, Syncing(r), Syncing(r)',
         \A s \in Runs \ {r} : runs'[s] = runs[s],
         UNCHANGED <<mutex, status, lock, lost>>
  PROVE  Locked'
<1>1. MutexHeld'
  BY DEF Locked, MutexHeld, Syncing
<1>2. LockHeld'
  BY DEF Locked, LockHeld, Syncing
<1>3. RunningIsTrue'
  BY DEF Locked, RunningIsTrue, Syncing
<1> QED
  BY <1>1, <1>2, <1>3 DEF Locked

LEMMA LockStep ==
  ASSUME TypeOK, Locked, [Next]_vars
  PROVE  Locked'
<1>1. ASSUME NEW e \in Events, Log(e) PROVE Locked'
  BY <1>1 DEF Log, Locked, MutexHeld, LockHeld, RunningIsTrue, Syncing
<1>2. ASSUME NEW r \in Runs, TryLocalMutex(r) PROVE Locked'
  <2>1. /\ runs[r].pc = "idle" /\ runs'[r].pc = "locking"
        /\ \A s \in Runs \ {r} : runs'[s] = runs[s]
    BY <1>2, GotoMoves DEF TryLocalMutex
  <2>2. MutexHeld'
    BY <1>2, <2>1, RunsAssumption DEF TryLocalMutex, Locked, MutexHeld, TypeOK
  <2>3. LockHeld'
    BY <1>2, <2>1 DEF TryLocalMutex, Locked, LockHeld, Syncing
  <2>4. RunningIsTrue'
    BY <1>2, <2>1 DEF TryLocalMutex, Locked, RunningIsTrue, Syncing
  <2> QED
    BY <2>2, <2>3, <2>4 DEF Locked
<1>3. ASSUME NEW r \in Runs, TryAdvisoryLock(r) PROVE Locked'
  <2>1. /\ runs[r].pc = "locking"
        /\ \/ runs'[r].pc = "start" /\ lock = None /\ lock' = r
           \/ runs'[r].pc = "unlock" /\ lock' = lock
        /\ \A s \in Runs \ {r} : runs'[s] = runs[s]
    BY <1>3, GotoMoves DEF TryAdvisoryLock
  <2>2. MutexHeld'
    BY <1>3, <2>1 DEF TryAdvisoryLock, Locked, MutexHeld
  <2>3. LockHeld'
    BY <1>3, <2>1, RunsAssumption DEF TryAdvisoryLock, Locked, LockHeld, Syncing
  <2>4. RunningIsTrue'
    BY <1>3, <2>1 DEF TryAdvisoryLock, Locked, RunningIsTrue, Syncing
  <2> QED
    BY <2>2, <2>3, <2>4 DEF Locked
<1>4. ASSUME NEW r \in Runs, MarkStarted(r) PROVE Locked'
  <2>1. /\ runs[r].pc = "start" /\ runs'[r].pc = "state"
        /\ \A s \in Runs \ {r} : runs'[s] = runs[s]
    BY <1>4, GotoMoves DEF MarkStarted
  <2>2. MutexHeld'
    BY <1>4, <2>1 DEF MarkStarted, Locked, MutexHeld
  <2>3. LockHeld'
    BY <1>4, <2>1 DEF MarkStarted, Locked, LockHeld, Syncing
  <2>4. /\ status'[ReplicaOf[r]].running
        /\ \A p \in Replicas \ {ReplicaOf[r]} : status'[p] = status[p]
    BY <1>4, RunsAssumption DEF MarkStarted, TypeOK
  <2>5. RunningIsTrue'
    BY <2>1, <2>4 DEF Locked, RunningIsTrue, Syncing
  <2> QED
    BY <2>2, <2>3, <2>5 DEF Locked
<1>5. ASSUME NEW r \in Runs, GetSyncState(r) PROVE Locked'
  <2>1. Syncing(r) /\ Syncing(r)' /\ \A s \in Runs \ {r} : runs'[s] = runs[s]
    BY <1>5 DEF GetSyncState, Syncing, TypeOK, RunState
  <2> QED
    BY <1>5, <2>1, SyncGoesOn DEF GetSyncState
<1>6. ASSUME NEW r \in Runs, Fetch(r) PROVE Locked'
  <2>1. Syncing(r)' /\ \A s \in Runs \ {r} : runs'[s] = runs[s]
    BY <1>6, FetchedPage, PageMoves DEF Syncing
  <2> QED
    BY <1>6, <2>1, SyncGoesOn DEF Fetch, Syncing
<1>7. ASSUME NEW r \in Runs, FindUsageEvent(r) PROVE Locked'
  <2>1. Syncing(r)' /\ \A s \in Runs \ {r} : runs'[s] = runs[s]
    BY <1>7, GotoMoves DEF FindUsageEvent, Syncing
  <2> QED
    BY <1>7, <2>1, SyncGoesOn DEF FindUsageEvent, Syncing
<1>8. ASSUME NEW r \in Runs, InsertUsageEvent(r) PROVE Locked'
  <2>1. Syncing(r)' /\ \A s \in Runs \ {r} : runs'[s] = runs[s]
    BY <1>8, GotoMoves, FailMoves DEF InsertUsageEvent, Syncing
  <2> QED
    BY <1>8, <2>1, SyncGoesOn DEF InsertUsageEvent, Syncing
<1>9. ASSUME NEW r \in Runs, IngestFails(r) PROVE Locked'
  <2>1. Syncing(r)' /\ \A s \in Runs \ {r} : runs'[s] = runs[s]
    BY <1>9, FailMoves DEF IngestFails, Syncing
  <2> QED
    BY <1>9, <2>1, SyncGoesOn DEF IngestFails, Syncing
<1>10. ASSUME NEW r \in Runs, UpdateSyncState(r) PROVE Locked'
  <2>1. Syncing(r)' /\ \A s \in Runs \ {r} : runs'[s] = runs[s]
    BY <1>10, TailMoves, PageMoves DEF Syncing
  <2> QED
    BY <1>10, <2>1, SyncGoesOn DEF UpdateSyncState, Syncing
<1>11. ASSUME NEW r \in Runs, MarkFinished(r) PROVE Locked'
  <2>1. /\ Syncing(r) /\ runs'[r].pc = "release"
        /\ \A s \in Runs \ {r} : runs'[s] = runs[s]
    BY <1>11, GotoMoves DEF MarkFinished, Syncing
  <2>2. MutexHeld'
    BY <1>11, <2>1 DEF MarkFinished, Locked, MutexHeld, Syncing
  <2>3. LockHeld'
    BY <1>11, <2>1 DEF MarkFinished, Locked, LockHeld, Syncing
  <2>4. \A s \in Runs : ReplicaOf[s] = ReplicaOf[r] => ~Syncing(s)'
    BY <2>1, OneCallPerProcess DEF Locked, Syncing
  <2>5. /\ ~status'[ReplicaOf[r]].running
        /\ \A p \in Replicas \ {ReplicaOf[r]} : status'[p] = status[p]
    BY <1>11, RunsAssumption DEF MarkFinished, TypeOK
  <2>6. RunningIsTrue'
    BY <2>1, <2>4, <2>5 DEF Locked, RunningIsTrue, Syncing
  <2> QED
    BY <2>2, <2>3, <2>6 DEF Locked
<1>12. ASSUME NEW r \in Runs, ReleaseAdvisoryLock(r) PROVE Locked'
  <2>1. /\ runs[r].pc = "release" /\ runs'[r].pc = "unlock"
        /\ \A s \in Runs \ {r} : runs'[s] = runs[s]
    BY <1>12, GotoMoves DEF ReleaseAdvisoryLock
  <2>2. MutexHeld'
    BY <1>12, <2>1 DEF ReleaseAdvisoryLock, Locked, MutexHeld
  <2>3. LockHeld'
    BY <1>12, <2>1 DEF ReleaseAdvisoryLock, Locked, LockHeld, Syncing
  <2>4. RunningIsTrue'
    BY <1>12, <2>1 DEF ReleaseAdvisoryLock, Locked, RunningIsTrue, Syncing
  <2> QED
    BY <2>2, <2>3, <2>4 DEF Locked
<1>13. ASSUME NEW r \in Runs, UnlockLocalMutex(r) PROVE Locked'
  <2>1. /\ runs[r].pc = "unlock" /\ runs'[r].pc = "idle"
        /\ \A s \in Runs \ {r} : runs'[s] = runs[s]
    BY <1>13 DEF UnlockLocalMutex, Idle, TypeOK
  <2>2. \A s \in Runs \ {r} : ReplicaOf[s] = ReplicaOf[r] => runs[s].pc = "idle"
    BY <2>1, OneCallPerProcess DEF Locked
  <2>3. MutexHeld'
    BY <1>13, <2>1, <2>2, RunsAssumption DEF UnlockLocalMutex, Locked, MutexHeld, TypeOK
  <2>4. LockHeld'
    BY <1>13, <2>1 DEF UnlockLocalMutex, Locked, LockHeld, Syncing
  <2>5. RunningIsTrue'
    BY <1>13, <2>1 DEF UnlockLocalMutex, Locked, RunningIsTrue, Syncing
  <2> QED
    BY <2>3, <2>4, <2>5 DEF Locked
<1>14. ASSUME NEW r \in Runs, Abort(r) PROVE Locked'
  <2>1. Syncing(r)' /\ \A s \in Runs \ {r} : runs'[s] = runs[s]
    BY <1>14, FailMoves DEF Abort, Syncing
  <2> QED
    BY <1>14, <2>1, SyncGoesOn DEF Abort, Syncing
<1>15. ASSUME NEW r \in Runs, LoseLockConnection(r) PROVE Locked'
  BY <1>15 DEF LoseLockConnection, Locked, MutexHeld, LockHeld, RunningIsTrue, Syncing
<1>16. ASSUME NEW p \in Replicas, Crash(p) PROVE Locked'
  <2>1. \A s \in Runs : /\ ReplicaOf[s] = p => runs'[s].pc = "idle"
                        /\ ReplicaOf[s] # p => runs'[s] = runs[s]
    BY <1>16 DEF Crash, Idle
  <2>2. MutexHeld'
    BY <1>16, <2>1, RunsAssumption DEF Crash, Locked, MutexHeld, TypeOK
  <2>3. LockHeld'
    BY <1>16, <2>1, RunsAssumption DEF Crash, Locked, LockHeld, Syncing
  <2>4. RunningIsTrue'
    BY <1>16, <2>1 DEF Crash, Locked, RunningIsTrue, Syncing, TypeOK
  <2> QED
    BY <2>2, <2>3, <2>4 DEF Locked
<1>17. CASE UNCHANGED vars
  BY <1>17 DEF vars, Locked, MutexHeld, LockHeld, RunningIsTrue, Syncing
<1> QED
  BY <1>1, <1>2, <1>3, <1>4, <1>5, <1>6, <1>7, <1>8, <1>9, <1>10, <1>11, <1>12, <1>13,
     <1>14, <1>15, <1>16, <1>17 DEF Next, Continue

-----------------------------------------------------------------------------
(* Billing: an entry and its debit are one transaction.                    *)

LEMMA BillingStep ==
  ASSUME TypeOK, BilledOnce, [Next]_vars
  PROVE  BilledOnce'
<1>1. CASE UNCHANGED <<events, debits>>
  BY <1>1 DEF BilledOnce
<1>2. ASSUME NEW r \in Runs, InsertUsageEvent(r) PROVE BilledOnce'
  <2>1. Head(runs[r].page) \in Events
    BY <1>2, PageHead DEF InsertUsageEvent
  <2>2. CASE Head(runs[r].page) \in events \cup Free
    BY <1>2, <2>2 DEF InsertUsageEvent, BilledOnce
  <2>3. CASE Head(runs[r].page) \notin events \cup Free
    BY <1>2, <2>1, <2>3 DEF InsertUsageEvent, BilledOnce, TypeOK
  <2> QED
    BY <2>2, <2>3
<1>3. \/ UNCHANGED <<events, debits>>
      \/ \E r \in Runs : InsertUsageEvent(r)
  BY DEF Next, Continue, vars, Log, TryLocalMutex, TryAdvisoryLock, MarkStarted,
     GetSyncState, Fetch, FindUsageEvent, IngestFails, UpdateSyncState, MarkFinished,
     ReleaseAdvisoryLock, UnlockLocalMutex, Abort, LoseLockConnection, Crash
<1> QED
  BY <1>1, <1>2, <1>3

-----------------------------------------------------------------------------
(* The cursor.                                                             *)

\* Everything that was logged in time and carries an earlier time is settled.
SettledBefore(t) == \A e \in log \ late : At[e] < t => Settled(e)

\* The entries that a page passes over are settled or stand before it in the page.
PageInOrder(r) ==
  \A i \in DOMAIN runs[r].page : \A e \in log \ late :
    At[e] < At[runs[r].page[i]]
      => Settled(e) \/ \E j \in DOMAIN runs[r].page : j < i /\ runs[r].page[j] = e

\* What a sync knows of the entries behind it.
SyncInOrder(r) ==
  /\ SettledBefore(runs[r].since)
  /\ PageInOrder(r)
  /\ runs[r].pc = "cursor" => Settled(Head(runs[r].page))

InOrder ==
  mode = "usage_history" =>
    SettledBefore(cursor) /\ \A r \in Runs : SyncInOrder(r)

\* A step that logs nothing, forgets nothing and moves no cursor keeps what the calls
\* it leaves alone know.
LEMMA OrderKept ==
  ASSUME log' = log, late' = late, events \subseteq events', mode' = mode
  PROVE  /\ \A t : SettledBefore(t) => SettledBefore(t)'
         /\ \A s \in Runs : runs'[s] = runs[s] /\ SyncInOrder(s) => SyncInOrder(s)'
  BY DEF SettledBefore, SyncInOrder, PageInOrder, Settled

\* A step of one call keeps the order if that call keeps it.
LEMMA OneCallInOrder ==
  ASSUME InOrder, NEW r \in Runs, UNCHANGED <<mode, log, late, cursor>>,
         events \subseteq events', \A s \in Runs \ {r} : runs'[s] = runs[s],
         mode = "usage_history" => SyncInOrder(r)'
  PROVE  InOrder'
  BY OrderKept DEF InOrder

\* A call that keeps its page, with no entry to move the cursor to.
LEMMA SamePageInOrder ==
  ASSUME NEW r, SyncInOrder(r), UNCHANGED <<log, late>>, events \subseteq events',
         runs'[r].since = runs[r].since, runs'[r].page = runs[r].page,
         runs'[r].pc = "cursor" => Settled(Head(runs[r].page))'
  PROVE  SyncInOrder(r)'
  BY DEF SyncInOrder, SettledBefore, PageInOrder, Settled

\* A call without a page.
LEMMA EmptyPageInOrder ==
  ASSUME NEW r, SettledBefore(runs'[r].since), UNCHANGED <<log, late>>,
         events \subseteq events', runs'[r].page = << >>, runs'[r].pc # "cursor"
  PROVE  SyncInOrder(r)'
<1>1. DOMAIN runs'[r].page = {}
  OBVIOUS
<1> QED
  BY <1>1 DEF SyncInOrder, SettledBefore, PageInOrder, Settled

\* A new page: what OmniRoute left out is behind the time it was asked for, or not
\* before anything in the page.
LEMMA FetchInOrder ==
  ASSUME TypeOK, mode = "usage_history", NEW r \in Runs, SyncInOrder(r), Fetch(r)
  PROVE  SyncInOrder(r)'
<1>1. PICK S \in Offers(runs[r].since), page \in Seq(log) :
        /\ page \in Seq(S)
        /\ \A e \in S : \E i \in DOMAIN page : page[i] = e
        /\ \A i, j \in DOMAIN page : i < j => At[page[i]] <= At[page[j]]
        /\ runs' = [runs EXCEPT ![r].pc = "next", ![r].page = page]
  BY FetchedPage
<1>2. /\ runs'[r].pc = "next" /\ runs'[r].page = page /\ runs'[r].since = runs[r].since
      /\ UNCHANGED <<log, late, events>>
  BY <1>1, PageMoves DEF Fetch
<1>3. ASSUME NEW i \in DOMAIN page, NEW e \in log \ late, At[e] < At[page[i]]
      PROVE  Settled(e) \/ \E j \in DOMAIN page : j < i /\ page[j] = e
  <2>1. page[i] \in S /\ DOMAIN page \subseteq Nat
    BY <1>1
  <2>2. page[i] \in Events /\ e \in Events /\ At[page[i]] \in Nat /\ At[e] \in Nat
    BY <1>1, EventsAssumption DEF TypeOK
  <2>3. runs[r].since \in Nat
    BY DEF TypeOK, RunState
  <2>4. CASE At[e] < runs[r].since
    BY <2>4 DEF SyncInOrder, SettledBefore
  <2>5. CASE At[e] >= runs[r].since /\ e \notin S
    <3>1. At[page[i]] <= At[e]
      BY <2>1, <2>5 DEF Offers
    <3> QED
      BY <1>3, <2>2, <3>1
  <2>6. CASE e \in S
    <3>1. PICK j \in DOMAIN page : page[j] = e
      BY <1>1, <2>6
    <3>2. j < i
      <4>1. i < j => At[page[i]] <= At[page[j]]
        BY <1>1
      <4> QED
        BY <1>3, <2>1, <2>2, <3>1, <4>1
    <3> QED
      BY <3>1, <3>2
  <2> QED
    BY <2>2, <2>3, <2>4, <2>5, <2>6
<1>4. SettledBefore(runs[r].since)'
  BY <1>2 DEF SyncInOrder, SettledBefore, Settled
<1>5. \A e : Settled(e)' <=> Settled(e)
  BY <1>2 DEF Settled
<1>6. PageInOrder(r)'
  BY <1>2, <1>3, <1>5 DEF PageInOrder
<1> QED
  BY <1>2, <1>4, <1>6 DEF SyncInOrder

\* The first entry of a page has nothing before it: the cursor may move there.
LEMMA HeadInOrder ==
  ASSUME TypeOK, NEW r \in Runs, SyncInOrder(r), runs[r].page # << >>
  PROVE  SettledBefore(At[Head(runs[r].page)])
<1>1. runs[r].page \in Seq(log) /\ runs[r].page # << >>
  BY PageHead
<1>2. 1 \in DOMAIN runs[r].page /\ Head(runs[r].page) = runs[r].page[1]
  BY <1>1
<1>3. \A j \in DOMAIN runs[r].page : ~(j < 1)
  BY <1>1
<1> QED
  BY <1>2, <1>3 DEF SyncInOrder, PageInOrder, SettledBefore

\* The rest of a page whose first entry is settled.
LEMMA TailInOrder ==
  ASSUME TypeOK, NEW r \in Runs, SyncInOrder(r), UpdateSyncState(r)
  PROVE  SyncInOrder(r)'
<1> DEFINE page == runs[r].page
<1>1. page \in Seq(log) /\ page # << >> /\ Settled(Head(page))
  BY PageHead DEF UpdateSyncState, SyncInOrder
<1>2. /\ runs'[r].pc = "next" /\ runs'[r].page = Tail(page) /\ runs'[r].since = runs[r].since
      /\ UNCHANGED <<log, late, events>>
  BY TailMoves, PageMoves DEF UpdateSyncState
<1>3. /\ DOMAIN page = 1 .. Len(page) /\ Len(page) \in Nat
      /\ DOMAIN Tail(page) = 1 .. Len(page) - 1
      /\ \A i \in 1 .. Len(page) - 1 : Tail(page)[i] = page[i + 1]
      /\ Head(page) = page[1]
  BY <1>1
<1>4. ASSUME NEW i \in DOMAIN Tail(page), NEW e \in log \ late, At[e] < At[Tail(page)[i]]
      PROVE  Settled(e) \/ \E j \in DOMAIN Tail(page) : j < i /\ Tail(page)[j] = e
  <2>1. i + 1 \in DOMAIN page /\ At[e] < At[page[i + 1]]
    BY <1>3, <1>4
  <2>2. Settled(e) \/ \E j \in DOMAIN page : j < i + 1 /\ page[j] = e
    BY <2>1 DEF SyncInOrder, PageInOrder
  <2>3. ASSUME NEW j \in DOMAIN page, j < i + 1, page[j] = e
        PROVE  Settled(e) \/ \E k \in DOMAIN Tail(page) : k < i /\ Tail(page)[k] = e
    <3>1. CASE j = 1
      BY <1>1, <1>3, <2>3, <3>1
    <3>2. CASE j # 1
      <4>1. j - 1 \in DOMAIN Tail(page) /\ j - 1 < i /\ Tail(page)[j - 1] = page[j]
        BY <1>3, <2>3, <3>2
      <4> QED
        BY <2>3, <4>1
    <3> QED
      BY <3>1, <3>2
  <2> QED
    BY <2>2, <2>3
<1>5. SettledBefore(runs[r].since)'
  BY <1>2 DEF SyncInOrder, SettledBefore, Settled
<1>6. \A e : Settled(e)' <=> Settled(e)
  BY <1>2 DEF Settled
<1>7. PageInOrder(r)'
  BY <1>2, <1>4, <1>6 DEF PageInOrder
<1> QED
  BY <1>2, <1>5, <1>7 DEF SyncInOrder

\* An entry that OmniRoute logs behind a sync or the cursor is late; another one is
\* behind nothing.
LEMMA LogInOrder ==
  ASSUME TypeOK, InOrder, NEW e \in Events, Log(e)
  PROVE  InOrder'
<1> SUFFICES ASSUME mode = "usage_history"
             PROVE  SettledBefore(cursor)' /\ \A r \in Runs : SyncInOrder(r)'
  BY DEF InOrder, Log
<1>1. /\ UNCHANGED <<mode, cursor, events, runs>>
      /\ log' \ late' \subseteq (log \ late) \cup {e}
      /\ e \in log' \ late' =>
           /\ ~(At[e] < cursor)
           /\ \A r \in Runs : /\ ~(At[e] < runs[r].since)
                              /\ \A i \in DOMAIN runs[r].page : ~(At[e] < At[runs[r].page[i]])
  BY DEF Log, TypeOK
<1>2. SettledBefore(cursor)'
  BY <1>1 DEF InOrder, SettledBefore, Settled
<1>3. ASSUME NEW r \in Runs PROVE SyncInOrder(r)'
  <2>1. SyncInOrder(r)
    BY DEF InOrder
  <2>2. SettledBefore(runs[r].since)'
    BY <1>1, <2>1 DEF SyncInOrder, SettledBefore, Settled
  <2>3. PageInOrder(r)'
    BY <1>1, <2>1 DEF SyncInOrder, PageInOrder, Settled
  <2> QED
    BY <1>1, <2>1, <2>2, <2>3 DEF SyncInOrder, Settled
<1> QED
  BY <1>2, <1>3

LEMMA OrderStep ==
  ASSUME TypeOK, InOrder, [Next]_vars
  PROVE  InOrder'
<1>1. ASSUME NEW e \in Events, Log(e) PROVE InOrder'
  BY <1>1, LogInOrder
<1>2. ASSUME NEW r \in Runs, TryLocalMutex(r) PROVE InOrder'
  BY <1>2, GotoMoves, SamePageInOrder, OneCallInOrder DEF TryLocalMutex, InOrder
<1>3. ASSUME NEW r \in Runs, TryAdvisoryLock(r) PROVE InOrder'
  BY <1>3, GotoMoves, SamePageInOrder, OneCallInOrder DEF TryAdvisoryLock, InOrder
<1>4. ASSUME NEW r \in Runs, MarkStarted(r) PROVE InOrder'
  BY <1>4, GotoMoves, SamePageInOrder, OneCallInOrder DEF MarkStarted, InOrder
<1>5. ASSUME NEW r \in Runs, GetSyncState(r) PROVE InOrder'
  <2>1. /\ runs'[r].pc = "fetch" /\ runs'[r].since = cursor - (cursor % PerSecond)
        /\ runs'[r].page = runs[r].page
        /\ \A s \in Runs \ {r} : runs'[s] = runs[s]
    BY <1>5 DEF GetSyncState, TypeOK, RunState
  <2>2. /\ cursor \in Nat /\ cursor - (cursor % PerSecond) \in Nat
        /\ cursor - (cursor % PerSecond) <= cursor
    BY SecondStarts, EventsAssumption DEF TypeOK
  <2>3. \A e \in log : At[e] \in Nat
    BY EventsAssumption DEF TypeOK
  <2>4. ASSUME mode = "usage_history" PROVE SyncInOrder(r)'
    <3>1. SettledBefore(cursor) /\ PageInOrder(r)
      BY <2>4 DEF InOrder, SyncInOrder
    <3>2. SettledBefore(runs[r].since)'
      BY <1>5, <2>1, <2>2, <2>3, <3>1 DEF GetSyncState, SettledBefore, Settled
    <3>3. PageInOrder(r)'
      BY <1>5, <2>1, <3>1 DEF GetSyncState, PageInOrder, Settled
    <3> QED
      BY <2>1, <3>2, <3>3 DEF SyncInOrder
  <2> QED
    BY <1>5, <2>1, <2>4, OneCallInOrder DEF GetSyncState
<1>6. ASSUME NEW r \in Runs, Fetch(r) PROVE InOrder'
  <2>1. \A s \in Runs \ {r} : runs'[s] = runs[s]
    BY <1>6, FetchedPage, PageMoves
  <2>2. mode = "usage_history" => SyncInOrder(r)'
    BY <1>6, FetchInOrder DEF InOrder
  <2> QED
    BY <1>6, <2>1, <2>2, OneCallInOrder DEF Fetch
<1>7. ASSUME NEW r \in Runs, FindUsageEvent(r) PROVE InOrder'
  <2>1. /\ runs'[r].page = runs[r].page /\ runs'[r].since = runs[r].since
        /\ \A s \in Runs \ {r} : runs'[s] = runs[s]
        /\ runs'[r].pc = "cursor" => Settled(Head(runs[r].page))
    BY <1>7, GotoMoves DEF FindUsageEvent, Settled
  <2>2. runs'[r].pc = "cursor" => Settled(Head(runs[r].page))'
    BY <1>7, <2>1 DEF FindUsageEvent, Settled
  <2> QED
    BY <1>7, <2>1, <2>2, SamePageInOrder, OneCallInOrder DEF FindUsageEvent, InOrder
<1>8. ASSUME NEW r \in Runs, InsertUsageEvent(r) PROVE InOrder'
  <2>1. events \subseteq events' /\ UNCHANGED <<mode, log, late, cursor>>
    BY <1>8 DEF InsertUsageEvent
  <2>2. CASE Goto(r, "cursor")
    <3>1. /\ runs'[r].page = runs[r].page /\ runs'[r].since = runs[r].since
          /\ \A s \in Runs \ {r} : runs'[s] = runs[s]
      BY <2>2, GotoMoves
    <3>2. Settled(Head(runs[r].page))'
      BY <1>8, <3>1 DEF InsertUsageEvent, Settled
    <3> QED
      BY <2>1, <3>1, <3>2, SamePageInOrder, OneCallInOrder DEF InOrder
  <2>3. CASE Fail(r)
    BY <2>1, <2>3, FailMoves, EmptyPageInOrder, OneCallInOrder DEF InOrder, SyncInOrder
  <2> QED
    BY <1>8, <2>2, <2>3 DEF InsertUsageEvent
<1>9. ASSUME NEW r \in Runs, IngestFails(r) PROVE InOrder'
  BY <1>9, FailMoves, EmptyPageInOrder, OneCallInOrder DEF IngestFails, InOrder, SyncInOrder
<1>10. ASSUME NEW r \in Runs, UpdateSyncState(r) PROVE InOrder'
  <2>1. /\ runs[r].page # << >> /\ cursor' = At[Head(runs[r].page)]
        /\ UNCHANGED <<mode, log, late, events>>
    BY <1>10, PageHead DEF UpdateSyncState
  <2>2. \A s \in Runs \ {r} : runs'[s] = runs[s]
    BY <1>10, TailMoves, PageMoves
  <2>3. ASSUME mode = "usage_history"
        PROVE  SettledBefore(cursor)' /\ \A s \in Runs : SyncInOrder(s)'
    <3>1. \A s \in Runs : SyncInOrder(s)
      BY <2>3 DEF InOrder
    <3>2. SettledBefore(At[Head(runs[r].page)])
      BY <2>1, <3>1, HeadInOrder
    <3>3. SettledBefore(cursor)'
      BY <2>1, <3>2 DEF SettledBefore, Settled
    <3>4. SyncInOrder(r)'
      BY <1>10, <3>1, TailInOrder
    <3>5. \A s \in Runs \ {r} : SyncInOrder(s)'
      BY <2>1, <2>2, <3>1, OrderKept
    <3> QED
      BY <3>3, <3>4, <3>5
  <2> QED
    BY <2>1, <2>3 DEF InOrder
<1>11. ASSUME NEW r \in Runs, MarkFinished(r) PROVE InOrder'
  BY <1>11, GotoMoves, SamePageInOrder, OneCallInOrder DEF MarkFinished, InOrder
<1>12. ASSUME NEW r \in Runs, ReleaseAdvisoryLock(r) PROVE InOrder'
  BY <1>12, GotoMoves, SamePageInOrder, OneCallInOrder DEF ReleaseAdvisoryLock, InOrder
<1>13. ASSUME NEW r \in Runs, UnlockLocalMutex(r) PROVE InOrder'
  <2>1. runs'[r] = Idle /\ \A s \in Runs \ {r} : runs'[s] = runs[s]
    BY <1>13 DEF UnlockLocalMutex, TypeOK
  <2>2. SettledBefore(0)
    BY EventsAssumption DEF SettledBefore, TypeOK
  <2>3. SyncInOrder(r)'
    BY <1>13, <2>1, <2>2, EmptyPageInOrder DEF UnlockLocalMutex, Idle
  <2> QED
    BY <1>13, <2>1, <2>3, OneCallInOrder DEF UnlockLocalMutex
<1>14. ASSUME NEW r \in Runs, Abort(r) PROVE InOrder'
  BY <1>14, FailMoves, EmptyPageInOrder, OneCallInOrder DEF Abort, InOrder, SyncInOrder
<1>15. ASSUME NEW r \in Runs, LoseLockConnection(r) PROVE InOrder'
  BY <1>15, OrderKept DEF LoseLockConnection, InOrder
<1>16. ASSUME NEW p \in Replicas, Crash(p) PROVE InOrder'
  <2>1. UNCHANGED <<mode, log, late, cursor, events>>
    BY <1>16 DEF Crash
  <2>2. \A r \in Runs : runs'[r] = Idle \/ runs'[r] = runs[r]
    BY <1>16 DEF Crash
  <2>3. SettledBefore(0)
    BY EventsAssumption DEF SettledBefore, TypeOK
  <2>4. \A r \in Runs : runs'[r] = Idle => SyncInOrder(r)'
    BY <2>1, <2>3, EmptyPageInOrder DEF Idle
  <2>5. mode = "usage_history" =>
          SettledBefore(cursor)' /\ \A r \in Runs : runs'[r] = runs[r] => SyncInOrder(r)'
    BY <2>1, OrderKept DEF InOrder
  <2> QED
    BY <2>1, <2>2, <2>4, <2>5 DEF InOrder
<1>17. CASE UNCHANGED vars
  BY <1>17, OrderKept DEF vars, InOrder
<1> QED
  BY <1>1, <1>2, <1>3, <1>4, <1>5, <1>6, <1>7, <1>8, <1>9, <1>10, <1>11, <1>12, <1>13,
     <1>14, <1>15, <1>16, <1>17 DEF Next, Continue

-----------------------------------------------------------------------------
(* The theorems.                                                           *)

IInv == TypeOK /\ Locked /\ BilledOnce /\ InOrder

LEMMA InitIInv == Init => IInv
<1> SUFFICES ASSUME Init PROVE IInv
  OBVIOUS
<1>1. TypeOK
  BY IdleType, ConfigAssumption DEF Init, TypeOK
<1>2. Locked
  BY RunsAssumption DEF Init, Locked, MutexHeld, LockHeld, RunningIsTrue, Syncing, Idle
<1>3. BilledOnce
  BY DEF Init, BilledOnce
<1>4. InOrder
  BY DEF Init, InOrder, SettledBefore, SyncInOrder, PageInOrder, Idle
<1> QED
  BY <1>1, <1>2, <1>3, <1>4 DEF IInv

\* The state of a synchronisation keeps its invariant, whatever fails.
THEOREM Invariant == Spec => []IInv
<1>1. Init => IInv
  BY InitIInv
<1>2. IInv /\ [Next]_vars => IInv'
  BY TypeStep, LockStep, BillingStep, OrderStep DEF IInv
<1> QED
  BY <1>1, <1>2, PTL DEF Spec

\* Rows, tracker, locks and pages keep their types.
THEOREM TypeCorrect == Spec => []TypeOK
<1>1. IInv => TypeOK
  BY DEF IInv
<1> QED
  BY <1>1, Invariant, PTL

\* At most one of the syncs that have not lost their lock runs, in however many
\* processes SyncExecutor.RunWithLimit is called.
THEOREM SyncsExclude == Spec => []OneSync
<1>1. IInv => OneSync
  BY DEF IInv, Locked, LockHeld, OneSync
<1> QED
  BY <1>1, Invariant, PTL

\* SyncStatusTracker tells the truth: it is set while a sync of its process runs, and
\* cleared whatever ends the sync.
THEOREM StatusTrue == Spec => []RunningIsTrue
<1>1. IInv => RunningIsTrue
  BY DEF IInv, Locked
<1> QED
  BY <1>1, Invariant, PTL

\* IngestEvent bills an entry at most once and records exactly what it bills, also
\* under concurrent syncs, lost acknowledgements and dying processes.
THEOREM BillingExact == Spec => []BilledOnce
<1>1. IInv => BilledOnce
  BY DEF IInv
<1> QED
  BY <1>1, Invariant, PTL

\* The cursor of omniroute_sync_state never passes an entry that is still to be billed,
\* for every batch limit, page and failure, even when syncs overlap.
THEOREM NothingSkipped == Spec => []NoEventSkipped
<1>1. IInv => NoEventSkipped
  BY DEF IInv, InOrder, SettledBefore, NoEventSkipped
<1> QED
  BY <1>1, Invariant, PTL

=============================================================================
