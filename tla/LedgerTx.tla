------------------------------ MODULE LedgerTx ------------------------------
(***************************************************************************)
(* ledger.Service.Mutate as it runs: every call inside a READ COMMITTED     *)
(* transaction of its own (platform/db InTx), one action per statement, so  *)
(* that calls interleave between statements.  What a transaction wrote is   *)
(* visible to the others only after its commit; until then it holds the     *)
(* lock of the balance row it read FOR UPDATE and, once it has inserted its *)
(* entry, the slot of its idempotency key in the unique index, on which     *)
(* another insert of the same key waits.                                   *)
(*                                                                         *)
(* The order of entries[u] is the order of the commits, which the lock on   *)
(* the balance row makes the order of the inserts as well.                 *)
(***************************************************************************)
EXTENDS LedgerOps, FiniteSets

CONSTANTS
  Users,      \* users that own a balance
  Calls,      \* calls of Mutate: requests, retries, callbacks, usage events
  Keys,       \* idempotency keys
  Refs,       \* values of the pointer columns, compared as a whole
  Reasons,    \* reasons other than the empty one
  Mutations,  \* the mutations a call may ask for
  None        \* no request yet, no answer

ASSUME LedgerTxAssumption ==
  /\ NoKey \notin Keys
  /\ NoReason \notin Reasons
  /\ None \notin Mutations
  /\ Mutations \subseteq [user : Users, type : EntryTypes, delta : Int,
                          key : Keys \cup {NoKey}, ref : Refs,
                          reason : Reasons \cup {NoReason}]

VARIABLES
  balances,   \* committed credit_balances rows
  entries,    \* committed credit_ledger_entries rows of each user
  pc,         \* the next statement of each call
  request,    \* the mutation each call was given
  seen,       \* the balance row each call has read FOR UPDATE
  answer      \* the entry each call holds to return

vars == <<balances, entries, pc, request, seen, answer>>

Entry == [user : Users, type : EntryTypes, delta : Int,
          key : Keys \cup {NoKey}, ref : Refs,
          reason : Reasons \cup {NoReason}, after : Int]

InTx     == {"lookup", "lock", "insert", "commit", "found"}
Returned == {"ok", "conflict", "invalid", "failed", "unacknowledged"}
Steps    == {"idle"} \cup InTx \cup {"committed"} \cup Returned

\* (Faulty: the rollback of a failed transaction leaves its row locked.)
HoldsRowForever(c, u) ==
  pc[c] \in {"insert", "commit", "failed"} /\ request[c].user = u

\* A transaction holds the row it locked until it commits or rolls back.
HoldsRow(c, u) == pc[c] \in {"insert", "commit"} /\ request[c].user = u

\* It holds its key's slot in the unique index from the insert on.
HoldsKey(c, k) == pc[c] = "commit" /\ request[c].key = k /\ k # NoKey

Committed == UNION {{entries[u][i] : i \in DOMAIN entries[u]} : u \in Users}
KeyTaken(k) == k # NoKey /\ \E e \in Committed : e.key = k

-----------------------------------------------------------------------------

Init ==
  /\ balances = [u \in Users |-> ZeroBalance]
  /\ entries  = [u \in Users |-> <<>>]
  /\ pc       = [c \in Calls |-> "idle"]
  /\ request  = [c \in Calls |-> None]
  /\ seen     = [c \in Calls |-> ZeroBalance]
  /\ answer   = [c \in Calls |-> None]

\* InTx begins a transaction and Mutate validates its argument.
Begin(c, m) ==
  /\ pc[c] = "idle"
  /\ request' = [request EXCEPT ![c] = m]
  /\ pc' = [pc EXCEPT ![c] = IF ValidMutation(m) THEN "lookup" ELSE "invalid"]
  /\ UNCHANGED <<balances, entries, seen, answer>>

\* GetByIdempotencyKey: a plain read of the committed entries.
LookupKey(c) ==
  LET k == request[c].key IN
  /\ pc[c] = "lookup"
  /\ \/ /\ ~KeyTaken(k)
        /\ pc' = [pc EXCEPT ![c] = "lock"]
        /\ UNCHANGED answer
     \/ \E e \in Committed :
          /\ k # NoKey
          /\ e.key = k
          /\ \/ /\ Matches(e, request[c])
                /\ pc' = [pc EXCEPT ![c] = "found"]
                /\ answer' = [answer EXCEPT ![c] = e]
             \/ /\ ~Matches(e, request[c])
                /\ pc' = [pc EXCEPT ![c] = "conflict"]
                /\ UNCHANGED answer
  /\ UNCHANGED <<balances, entries, request, seen>>

\* (Faulty: a plain SELECT, without FOR UPDATE.)
LockBalanceWithoutLock(c) ==
  /\ pc[c] = "lock"
  /\ seen' = [seen EXCEPT ![c] = balances[request[c].user]]
  /\ pc' = [pc EXCEPT ![c] = "insert"]
  /\ UNCHANGED <<balances, entries, request, answer>>

\* SELECT .. FROM credit_balances .. FOR UPDATE waits for the row, then reads
\* its latest committed version.
LockBalance(c) ==
  LET u == request[c].user IN
  /\ pc[c] = "lock"
  /\ \A d \in Calls : ~HoldsRow(d, u)
  /\ seen' = [seen EXCEPT ![c] = balances[u]]
  /\ pc' = [pc EXCEPT ![c] = "insert"]
  /\ UNCHANGED <<balances, entries, request, answer>>

\* (Faulty: no unique index, the key was looked up before.)
InsertEntryUnindexed(c) ==
  /\ pc[c] = "insert"
  /\ answer' = [answer EXCEPT
                  ![c] = EntryOf(request[c], Posted(seen[c], request[c]))]
  /\ pc' = [pc EXCEPT ![c] = "commit"]
  /\ UNCHANGED <<balances, entries, request, seen>>

\* UPDATE credit_balances, then INSERT the entry.  The insert waits while an
\* open transaction holds the key, and fails on a committed one: the unique
\* violation rolls the transaction back.
InsertEntry(c) ==
  LET m == request[c]
      b == Posted(seen[c], m)
  IN  /\ pc[c] = "insert"
      /\ \A d \in Calls : ~HoldsKey(d, m.key)
      /\ \/ /\ ~KeyTaken(m.key)
            /\ answer' = [answer EXCEPT ![c] = EntryOf(m, b)]
            /\ pc' = [pc EXCEPT ![c] = "commit"]
         \/ /\ KeyTaken(m.key)
            /\ pc' = [pc EXCEPT ![c] = "failed"]
            /\ UNCHANGED answer
      /\ UNCHANGED <<balances, entries, request, seen>>

\* (Faulty: the balance is written in a transaction of its own, which can
\* succeed when the insert of the entry fails.)
CommitBalanceOnly(c) ==
  LET m == request[c] IN
  /\ pc[c] = "commit"
  /\ balances' = [balances EXCEPT ![m.user] = Posted(seen[c], m)]
  /\ pc' = [pc EXCEPT ![c] = "failed"]
  /\ answer' = [answer EXCEPT ![c] = None]
  /\ UNCHANGED <<entries, request, seen>>

\* COMMIT makes the row and the entry visible together and frees both locks.
Commit(c) ==
  LET m == request[c] IN
  /\ pc[c] = "commit"
  /\ balances' = [balances EXCEPT ![m.user] = Posted(seen[c], m)]
  /\ entries' = [entries EXCEPT ![m.user] = Append(@, answer[c])]
  /\ pc' = [pc EXCEPT ![c] = "committed"]
  /\ UNCHANGED <<request, seen, answer>>

\* Mutate's caller returns the entry, posted or found.
Return(c) ==
  /\ pc[c] \in {"committed", "found"}
  /\ pc' = [pc EXCEPT ![c] = "ok"]
  /\ UNCHANGED <<balances, entries, request, seen, answer>>

\* A statement fails, a later step of the caller's transaction fails, the
\* context is cancelled or the process dies: the deferred Rollback, or the
\* server noticing the lost connection, undoes the transaction.
Rollback(c) ==
  /\ pc[c] \in InTx
  /\ pc' = [pc EXCEPT ![c] = "failed"]
  /\ answer' = [answer EXCEPT ![c] = None]
  /\ UNCHANGED <<balances, entries, request, seen>>

\* The commit took effect, but the caller never learns: tx.Commit returned an
\* error on a broken connection, or the process died before it answered.
LoseAcknowledgement(c) ==
  /\ pc[c] = "committed"
  /\ pc' = [pc EXCEPT ![c] = "unacknowledged"]
  /\ answer' = [answer EXCEPT ![c] = None]
  /\ UNCHANGED <<balances, entries, request, seen>>

Finished ==
  /\ \A c \in Calls : pc[c] \in Returned
  /\ UNCHANGED vars

Step(c) ==
  \/ LookupKey(c)
  \/ LockBalance(c)
  \/ InsertEntry(c)
  \/ Commit(c)
  \/ Return(c)

Next ==
  \/ \E c \in Calls :
       \/ \E m \in Mutations : Begin(c, m)
       \/ Step(c)
       \/ Rollback(c)
       \/ LoseAcknowledgement(c)
  \/ Finished

Spec == Init /\ [][Next]_vars

\* The server runs every statement it was sent; when calls start and whether
\* they fail is up to the environment.
FairSpec == Spec /\ \A c \in Calls : WF_vars(Step(c))

-----------------------------------------------------------------------------

TypeOK ==
  /\ balances \in [Users -> Balance]
  /\ entries \in [Users -> Seq(Entry)]
  /\ pc \in [Calls -> Steps]
  /\ request \in [Calls -> Mutations \cup {None}]
  /\ seen \in [Calls -> Balance]
  /\ answer \in [Calls -> Entry \cup {None}]

BalanceBefore(s, i) == IF i = 1 THEN 0 ELSE s[i - 1].after

\* Every balance is explained by the user's ledger: each entry's
\* balance_after_units is its predecessor's plus its delta, the balance row
\* holds the last one, and its version counts the entries.  A lost update
\* between two concurrent mutations, or an entry without its balance change,
\* breaks it (ledger/service.go Mutate, "FOR UPDATE").
BalanceFollowsLedger ==
  \A u \in Users :
    LET s == entries[u] IN
    /\ \A i \in DOMAIN s : s[i].after = BalanceBefore(s, i) + s[i].delta
    /\ balances[u].available = BalanceBefore(s, Len(s) + 1)
    /\ balances[u].version = Len(s)

\* An idempotency key is applied at most once over all users and mutation
\* types, however many calls carry it at the same time
\* (credit_ledger_entries.idempotency_key UNIQUE).
KeyAppliedOnce ==
  \A u, v \in Users : \A i \in DOMAIN entries[u], j \in DOMAIN entries[v] :
    /\ entries[u][i].key = entries[v][j].key
    /\ entries[u][i].key # NoKey
    => u = v /\ i = j

\* A call that reports success reports an entry that is in the ledger and
\* that is the mutation it was asked for: a replay never acknowledges a
\* different top-up, and nothing acknowledged is ever rolled back.
SuccessIsPosted ==
  \A c \in Calls :
    pc[c] = "ok" =>
      /\ answer[c] \in Committed
      /\ \A f \in {"user", "type", "delta", "key", "ref", "reason"} :
           answer[c][f] = request[c][f]

\* SumDeltas(s, T)[n] adds up the deltas of the entries of s up to n whose
\* type is in T.
SumDeltas(s, T) ==
  LET sum[n \in 0 .. Len(s)] ==
        IF n = 0 THEN 0
        ELSE sum[n - 1] + (IF s[n].type \in T THEN s[n].delta ELSE 0)
  IN  sum[Len(s)]

\* The lifetime counters agree with the ledger: purchased units are what
\* payments and bonuses credited, used units what usage debited; admin
\* adjustments and refunds move neither.
LifetimeFollowsLedger ==
  \A u \in Users :
    /\ balances[u].purchased = SumDeltas(entries[u], PaidTypes)
    /\ balances[u].used = -SumDeltas(entries[u], {"usage_debit"})

\* Waiting ends: a call that began returns, whatever rows and keys the others
\* hold, so that no set of calls waits on itself.
EveryCallReturns ==
  \A c \in Calls : pc[c] = "lookup" ~> pc[c] \in Returned

-----------------------------------------------------------------------------

\* The abstract ledger this module implements.
StatusOf(p) ==
  CASE p = "idle" -> "idle"
    [] p \in {"lookup", "lock", "insert", "commit"} -> "open"
    [] p \in {"committed", "found"} -> "posted"
    [] p = "ok" -> "ok"
    [] p = "conflict" -> "conflict"
    [] OTHER -> "failed"

AbsStatus == [c \in Calls |-> StatusOf(pc[c])]

AbsAnswer ==
  [c \in Calls |-> IF pc[c] = "commit" THEN None ELSE answer[c]]

Abs == INSTANCE Ledger WITH status <- AbsStatus, answer <- AbsAnswer

\* The statement-level transactions implement the abstract ledger.
ImplementsLedger == Abs!Spec

=============================================================================
