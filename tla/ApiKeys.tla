------------------------------ MODULE ApiKeys ------------------------------
(***************************************************************************)
(* The API keys of one account: apikeys.Service (create, rotate, revoke,   *)
(* suspend, resume), usage.Service.IngestEvent, which bills the use of a   *)
(* key and suspends it, and the credits that resume it.  All of it concerns *)
(* one user at a time, so one account is modelled.                         *)
(*                                                                         *)
(* OmniRoute holds the keys that really serve requests.  It is changed     *)
(* inside a database transaction but not by it: when the transaction rolls *)
(* back, OmniRoute stays changed.                                          *)
(*                                                                         *)
(* Locks.  The operations on keys lock the user's row FOR UPDATE.  Billing *)
(* a usage event, and posting to the ledger, insert rows that refer to the *)
(* user and so wait for that lock, and make it wait; they also lock the    *)
(* balance row.  A step waits where its guard mentions the lock.           *)
(***************************************************************************)
EXTENDS Integers, FiniteSets

CONSTANTS
  KeyIds,     \* rows of api_keys and, under the same id, keys at OmniRoute
  Events,     \* entries of OmniRoute's call log
  Cost,       \* the price of each, in credit units
  Postings,   \* ledger postings other than usage
  Amount,     \* their deltas
  Payments,   \* the postings made by payments.Service
  Calls,      \* concurrent requests and usage syncs
  MaxStarts,  \* bound: creations and rotations started
  None

ASSUME ApiKeysAssumption ==
  /\ None \notin KeyIds
  /\ Cost \in [Events -> Nat]
  /\ Amount \in [Postings -> Int]
  /\ Payments \subseteq Postings
  /\ \A t \in Payments : Amount[t] > 0
  /\ MaxStarts \in Nat

VARIABLES
  keys,       \* committed rows of api_keys
  gateway,    \* OmniRoute's keys
  usedBy,     \* OmniRoute's call log: the key each event used
  billed,     \* the events that have a usage_events row and their debit
  posted,     \* the postings made
  balance,    \* credit_balances.available_units
  starts,     \* creations and rotations started so far: their time stamps
  calls       \* what each call is about to do

vars == <<keys, gateway, usedBy, billed, posted, balance, starts, calls>>

KeyStatuses == {"ACTIVE", "SUSPENDED", "REVOKED"}

\* `created' is created_at, the time the inserting transaction began.
Row == [status : KeyStatuses \cup {"none"}, created : 0 .. MaxStarts]

Idle == [at |-> "idle"]

CallState ==
  {Idle}
  \cup [at : {"create", "rotate"}, stamp : 0 .. MaxStarts]
  \cup [at : {"renew"}, old : KeyIds, stamp : 0 .. MaxStarts]
  \cup [at : {"insert"}, key : KeyIds, old : KeyIds \cup {None},
        stamp : 0 .. MaxStarts]
  \cup [at : {"resume"}]
  \cup [at : {"set"}, key : KeyIds, status : KeyStatuses]
  \cup [at : {"resolved"}, event : Events, status : KeyStatuses]
  \cup [at : {"billing"}, event : Events]

\* (Faulty: a credit resumes the key inside its own transaction.)
HoldsUserAcrossResume(c) == calls[c].at \in {"resume", "renew", "insert", "set"}

\* lockUser: SELECT .. FROM users .. FOR UPDATE, past that statement.
HoldsUser(c) == calls[c].at \in {"renew", "insert", "set"}

\* Past the INSERT of a usage event and the FOR UPDATE of the balance row.
HoldsBalance(c) == calls[c].at = "billing"

\* The user's row can be locked FOR UPDATE.
UserFree == \A d \in Calls : ~HoldsUser(d) /\ ~HoldsBalance(d)

\* (Faulty: usage events do not refer to the user, only the balance waits.)
OnlyBalanceFree == \A d \in Calls : ~HoldsBalance(d)

\* A row that refers to the user can be inserted and the balance row locked.
LedgerFree == \A d \in Calls : ~HoldsUser(d) /\ ~HoldsBalance(d)

\* getCurrentAPIKey: the newest key that is not revoked.
Usable == {k \in KeyIds : keys[k].status \in {"ACTIVE", "SUSPENDED"}}
Current ==
  {k \in Usable : \A l \in Usable : keys[l].created <= keys[k].created}

\* activeKeyExists
ActiveKeys == {k \in KeyIds : keys[k].status = "ACTIVE"}

\* An id OmniRoute has never given out.
Fresh == {k \in KeyIds : keys[k].status = "none" /\ gateway[k] = "none"}

\* (Faulty: no partial unique index.)
AnyActive(k, others) == TRUE

\* api_keys_one_active_per_user_idx lets k become ACTIVE next to others.
MayBeActive(k, others) == others \subseteq {k}

Init ==
  /\ keys    = [k \in KeyIds |-> [status |-> "none", created |-> 0]]
  /\ gateway = [k \in KeyIds |-> "none"]
  /\ usedBy  = [e \in Events |-> None]
  /\ billed  = {}
  /\ posted  = {}
  /\ balance = 0
  /\ starts  = 0
  /\ calls   = [c \in Calls |-> Idle]

-----------------------------------------------------------------------------
(* Creating, rotating and revoking a key.                                  *)

\* CreateAPIKey and RotateAPIKey begin: the transaction has its time stamp.
Start(c, op) ==
  /\ calls[c] = Idle
  /\ starts < MaxStarts
  /\ starts' = starts + 1
  /\ calls' = [calls EXCEPT ![c] = [at |-> op, stamp |-> starts']]
  /\ UNCHANGED <<keys, gateway, usedBy, billed, posted, balance>>

\* OmniRoute creates an enabled key for the call that then inserts its row.
CreateExternal(c, old, stamp) ==
  \E k \in Fresh :
    /\ gateway' = [gateway EXCEPT ![k] = "enabled"]
    /\ calls' = [calls EXCEPT ![c] = [at |-> "insert", key |-> k, old |-> old,
                                      stamp |-> stamp]]

\* CreateAPIKey: lockUser, activeKeyExists, OmniRoute's CreateAPIKey.
Create(c) ==
  /\ calls[c].at = "create"
  /\ UserFree
  /\ \/ /\ ActiveKeys = {}
        /\ CreateExternal(c, None, calls[c].stamp)
     \/ /\ ActiveKeys # {} \/ Fresh = {}
        /\ calls' = [calls EXCEPT ![c] = Idle]
        /\ UNCHANGED gateway
  /\ UNCHANGED <<keys, usedBy, billed, posted, balance, starts>>

\* (Faulty: the old key is revoked in the database only.)
RotateLocally(c) ==
  /\ calls[c].at = "rotate"
  /\ UserFree
  /\ \/ \E k \in Current :
          calls' = [calls EXCEPT ![c] = [at |-> "renew", old |-> k,
                                         stamp |-> calls[c].stamp]]
     \/ Current = {} /\ calls' = [calls EXCEPT ![c] = Idle]
  /\ UNCHANGED <<keys, gateway, usedBy, billed, posted, balance, starts>>

\* RotateAPIKey: lockUser, then the current key is deleted at OmniRoute
\* (already deleted is fine).
RotateDelete(c) ==
  /\ calls[c].at = "rotate"
  /\ UserFree
  /\ \/ \E k \in Current :
          /\ gateway' = [gateway EXCEPT ![k] = "none"]
          /\ calls' = [calls EXCEPT ![c] = [at |-> "renew", old |-> k,
                                            stamp |-> calls[c].stamp]]
     \/ /\ Current = {}
        /\ calls' = [calls EXCEPT ![c] = Idle]
        /\ UNCHANGED gateway
  /\ UNCHANGED <<keys, usedBy, billed, posted, balance, starts>>

RotateCreate(c) ==
  /\ calls[c].at = "renew"
  /\ \/ CreateExternal(c, calls[c].old, calls[c].stamp)
     \/ /\ Fresh = {}
        /\ calls' = [calls EXCEPT ![c] = Idle]
        /\ UNCHANGED gateway
  /\ UNCHANGED <<keys, usedBy, billed, posted, balance, starts>>

\* The transaction commits the old key's revocation and the new ACTIVE key,
\* or the index rejects the insert and it rolls back.
Insert(c) ==
  LET k == calls[c].key
      old == calls[c].old
      revoked == [l \in KeyIds |->
                    IF l = old THEN [keys[l] EXCEPT !.status = "REVOKED"]
                    ELSE keys[l]]
      ok == MayBeActive(k, ActiveKeys \ {old})
  IN  /\ calls[c].at = "insert"
      /\ keys' = IF ok
                 THEN [revoked EXCEPT ![k] = [status |-> "ACTIVE",
                                              created |-> calls[c].stamp]]
                 ELSE keys
      /\ calls' = [calls EXCEPT ![c] = Idle]
      /\ UNCHANGED <<gateway, usedBy, billed, posted, balance, starts>>

\* RevokeAPIKey: lockUser, then OmniRoute deletes the current key.
Revoke(c) ==
  /\ calls[c] = Idle
  /\ UserFree
  /\ \E k \in Current :
       /\ gateway' = [gateway EXCEPT ![k] = "none"]
       /\ calls' = [calls EXCEPT
             ![c] = [at |-> "set", key |-> k, status |-> "REVOKED"]]
  /\ UNCHANGED <<keys, usedBy, billed, posted, balance, starts>>

-----------------------------------------------------------------------------
(* Suspending and resuming.                                                *)

\* (Faulty: OmniRoute's word for the status is stored.)
SuspendAsDisabled(c) ==
  /\ calls[c] = Idle
  /\ UserFree
  /\ \E k \in Current :
       /\ gateway' = [gateway EXCEPT ![k] = "disabled"]
       /\ calls' = [calls EXCEPT
             ![c] = [at |-> "set", key |-> k, status |-> "DISABLED"]]
  /\ UNCHANGED <<keys, usedBy, billed, posted, balance, starts>>

\* SuspendAPIKey: lockUser, then OmniRoute disables the current key; it
\* refuses when it does not know the key.
Suspend(c) ==
  /\ calls[c] = Idle
  /\ UserFree
  /\ \E k \in Current :
       /\ keys[k].status = "ACTIVE"
       /\ gateway[k] # "none"
       /\ gateway' = [gateway EXCEPT ![k] = "disabled"]
       /\ calls' = [calls EXCEPT
             ![c] = [at |-> "set", key |-> k, status |-> "SUSPENDED"]]
  /\ UNCHANGED <<keys, usedBy, billed, posted, balance, starts>>

\* An admin asks for ResumeAPIKey.
AskResume(c) ==
  /\ calls[c] = Idle
  /\ Usable # {}
  /\ calls' = [calls EXCEPT ![c] = [at |-> "resume"]]
  /\ UNCHANGED <<keys, gateway, usedBy, billed, posted, balance, starts>>

\* ResumeAPIKey: lockUser, a plain read of the balance, then OmniRoute enables
\* the current key.
Resume(c) ==
  LET able == {k \in Current : /\ balance > 0
                               /\ keys[k].status = "SUSPENDED"
                               /\ gateway[k] # "none"}
  IN  /\ calls[c].at = "resume"
      /\ UserFree
      /\ \/ \E k \in able :
              /\ gateway' = [gateway EXCEPT ![k] = "enabled"]
              /\ calls' = [calls EXCEPT
                    ![c] = [at |-> "set", key |-> k, status |-> "ACTIVE"]]
         \/ /\ able = {}
            /\ calls' = [calls EXCEPT ![c] = Idle]
            /\ UNCHANGED gateway
      /\ UNCHANGED <<keys, usedBy, billed, posted, balance, starts>>

\* markKeyRevoked and updateStatusReturning, and the commit; the index rejects
\* a second ACTIVE key.
Set(c) ==
  LET k == calls[c].key
      ok == calls[c].status = "ACTIVE" => MayBeActive(k, ActiveKeys)
  IN  /\ calls[c].at = "set"
      /\ keys' = IF ok THEN [keys EXCEPT ![k].status = calls[c].status]
                 ELSE keys
      /\ calls' = [calls EXCEPT ![c] = Idle]
      /\ UNCHANGED <<gateway, usedBy, billed, posted, balance, starts>>

-----------------------------------------------------------------------------
(* Usage and credits.                                                      *)

\* The customer, who was given the key when its row was committed, uses it.
Use(e, k) ==
  /\ usedBy[e] = None
  /\ keys[k].status # "none"
  /\ gateway[k] = "enabled"
  /\ usedBy' = [usedBy EXCEPT ![e] = k]
  /\ UNCHANGED <<keys, gateway, billed, posted, balance, starts, calls>>

\* IngestEvent: not a duplicate so far; resolveAPIKey reads the key, whatever
\* its status, without locking it.
Resolve(c, e) ==
  /\ calls[c] = Idle
  /\ usedBy[e] # None
  /\ e \notin billed
  /\ calls' = [calls EXCEPT ![c] = [at |-> "resolved", event |-> e,
                                    status |-> keys[usedBy[e]].status]]
  /\ UNCHANGED <<keys, gateway, usedBy, billed, posted, balance, starts>>

\* insertUsageEvent and the debit.  Without anything to suspend the
\* transaction commits.  Otherwise, if the key was read as ACTIVE, OmniRoute
\* disables it first; when OmniRoute does not know the key the whole
\* transaction rolls back.
Bill(c) ==
  LET e == calls[c].event
      k == usedBy[e]
      drained == /\ Cost[e] > 0
                 /\ balance - Cost[e] <= 0
                 /\ calls[c].status = "ACTIVE"
  IN  /\ calls[c].at = "resolved"
      /\ LedgerFree
      /\ \/ /\ e \in billed \/ (drained /\ gateway[k] = "none")
            /\ calls' = [calls EXCEPT ![c] = Idle]
            /\ UNCHANGED <<gateway, billed, balance>>
         \/ /\ e \notin billed
            /\ ~drained
            /\ billed' = billed \cup {e}
            /\ balance' = balance - Cost[e]
            /\ calls' = [calls EXCEPT ![c] = Idle]
            /\ UNCHANGED gateway
         \/ /\ e \notin billed
            /\ drained
            /\ gateway[k] # "none"
            /\ gateway' = [gateway EXCEPT ![k] = "disabled"]
            /\ calls' = [calls EXCEPT
                           ![c] = [at |-> "billing", event |-> e]]
            /\ UNCHANGED <<billed, balance>>
      /\ UNCHANGED <<keys, usedBy, posted, starts>>

\* suspendResolvedKey's UPDATE, guarded by the status, and the commit.
BillAndSuspend(c) ==
  LET e == calls[c].event
      k == usedBy[e]
  IN  /\ calls[c].at = "billing"
      /\ billed' = billed \cup {e}
      /\ balance' = balance - Cost[e]
      /\ keys' = [keys EXCEPT ![k].status =
                    IF @ = "ACTIVE" THEN "SUSPENDED" ELSE @]
      /\ calls' = [calls EXCEPT ![c] = Idle]
      /\ UNCHANGED <<gateway, usedBy, posted, starts>>

\* A payment or an adjustment commits.  Only payments call
\* autoResumeAfterCredit, and only when they lift the balance above zero.
PostCredit(c, t) ==
  /\ calls[c] = Idle
  /\ t \notin posted
  /\ LedgerFree
  /\ posted' = posted \cup {t}
  /\ balance' = balance + Amount[t]
  /\ calls' = [calls EXCEPT ![c] =
        IF t \in Payments /\ balance <= 0 /\ balance' > 0
        THEN [at |-> "resume"] ELSE Idle]
  /\ UNCHANGED <<keys, gateway, usedBy, billed, starts>>

\* The request dies, or a call to OmniRoute fails after it took effect: the
\* transaction rolls back.
Crash(c) ==
  /\ calls[c] # Idle
  /\ calls' = [calls EXCEPT ![c] = Idle]
  /\ UNCHANGED <<keys, gateway, usedBy, billed, posted, balance, starts>>

Step(c) ==
  \/ Create(c)
  \/ RotateDelete(c)
  \/ RotateCreate(c)
  \/ Insert(c)
  \/ Resume(c)
  \/ Set(c)
  \/ Bill(c)
  \/ BillAndSuspend(c)

Next ==
  \/ \E c \in Calls :
       \/ \E op \in {"create", "rotate"} : Start(c, op)
       \/ Revoke(c)
       \/ Suspend(c)
       \/ AskResume(c)
       \/ \E e \in Events : Resolve(c, e)
       \/ \E t \in Postings : PostCredit(c, t)
       \/ Step(c)
       \/ Crash(c)
  \/ \E e \in Events, k \in KeyIds : Use(e, k)

Spec == Init /\ [][Next]_vars

-----------------------------------------------------------------------------

TypeOK ==
  /\ keys \in [KeyIds -> Row]
  /\ gateway \in [KeyIds -> {"none", "enabled", "disabled"}]
  /\ usedBy \in [Events -> KeyIds \cup {None}]
  /\ billed \subseteq {e \in Events : usedBy[e] # None}
  /\ posted \subseteq Postings
  /\ balance \in Int
  /\ starts \in 0 .. MaxStarts
  /\ calls \in [Calls -> CallState]

\* An account never has two ACTIVE keys, although the newest key by created_at
\* need not be the one created last, and a resume may pick an older one
\* (apikeys/service.go getCurrentAPIKey, api_keys_one_active_per_user_idx).
OneActiveKey == Cardinality(ActiveKeys) <= 1

\* A key that SLAI shows as REVOKED serves no request any more, whatever
\* rolled back or died on the way (deleteOmniRouteKey runs first).
RevokedIsGone ==
  \A k \in KeyIds : keys[k].status = "REVOKED" => gateway[k] # "enabled"

\* README.md: "Resume is allowed only when the user has a positive balance":
\* no bill or debit slips in between the plain read of the balance and the
\* commit of the resume.
ResumeNeedsCredit ==
  [][\A k \in KeyIds :
       keys[k].status = "SUSPENDED" /\ keys'[k].status = "ACTIVE"
         => balance > 0]_vars

\* The calls never all wait for each other: while some request is in
\* progress, one of them can take its next step, auto-resume included, which
\* runs after the credit's transaction has given up its rows.
NeverAllWaiting ==
  (\E c \in Calls : calls[c] # Idle) => \E c \in Calls : ENABLED Step(c)

\* README.md: "If async billing drives a balance below zero, SLAI keeps the
\* negative balance and suspends the API key to prevent future usage."
BillingSuspends ==
  [][billed' # billed /\ balance' < 0 => ActiveKeys' = {}]_vars

-----------------------------------------------------------------------------
(* The refinement.                                                         *)

KeyStatus == [k \in KeyIds |-> keys[k].status]

Abs == INSTANCE Account WITH status <- KeyStatus

\* Requests that lock, ask OmniRoute, die and commit, with usage and credits
\* in between, look like an account whose keys are issued, suspended, resumed
\* and revoked in one step: never two active ones, a revoked one back, a
\* resume without credit, a use billed twice or another key suspended for it.
ImplementsAccount == Abs!Spec

=============================================================================
