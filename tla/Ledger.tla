------------------------------- MODULE Ledger -------------------------------
(***************************************************************************)
(* What the credit ledger promises its callers, with no transaction, lock   *)
(* or index in sight.  A call posts its mutation in one step, or is         *)
(* answered from the entry an earlier call with the same idempotency key    *)
(* posted, or is refused.  A call may also fail after it has posted (the    *)
(* commit took effect and its acknowledgement was lost), which is why       *)
(* callers retry under the same key.                                       *)
(***************************************************************************)
EXTENDS LedgerOps

CONSTANTS
  Users,      \* users that own a balance
  Calls,      \* calls of Mutate; each runs at most once
  Mutations,  \* the mutations a call may ask for
  None        \* no request yet, no answer

VARIABLES
  balances,   \* the balance row of each user
  entries,    \* the ledger entries of each user, oldest first
  status,     \* where each call is
  request,    \* the mutation each call asked for
  answer      \* the entry each acknowledged call returned

vars == <<balances, entries, status, request, answer>>

\* The entries of every user: the credit_ledger_entries table as a set.
Committed == UNION {{entries[u][i] : i \in DOMAIN entries[u]} : u \in Users}

\* The unique index on idempotency_key; a NULL key never conflicts.
KeyTaken(k) == k # NoKey /\ \E e \in Committed : e.key = k

Init ==
  /\ balances = [u \in Users |-> ZeroBalance]
  /\ entries  = [u \in Users |-> <<>>]
  /\ status   = [c \in Calls |-> "idle"]
  /\ request  = [c \in Calls |-> None]
  /\ answer   = [c \in Calls |-> None]

Open(c, m) ==
  /\ status[c] = "idle"
  /\ status'  = [status EXCEPT ![c] = "open"]
  /\ request' = [request EXCEPT ![c] = m]
  /\ UNCHANGED <<balances, entries, answer>>

\* A malformed mutation is refused before anything is read.
Refuse(c, m) ==
  /\ status[c] = "idle"
  /\ ~ValidMutation(m)
  /\ status'  = [status EXCEPT ![c] = "failed"]
  /\ request' = [request EXCEPT ![c] = m]
  /\ UNCHANGED <<balances, entries, answer>>

\* The whole effect of a mutation: balance and entry together, once per key.
Post(c) ==
  LET m == request[c]
      b == Posted(balances[m.user], m)
  IN  /\ status[c] = "open"
      /\ ValidMutation(m)
      /\ ~KeyTaken(m.key)
      /\ balances' = [balances EXCEPT ![m.user] = b]
      /\ entries'  = [entries EXCEPT ![m.user] = Append(@, EntryOf(m, b))]
      /\ status'   = [status EXCEPT ![c] = "posted"]
      /\ answer'   = [answer EXCEPT ![c] = EntryOf(m, b)]
      /\ UNCHANGED request

\* An earlier entry under the same key answers the call.
Replay(c) ==
  /\ status[c] = "open"
  /\ request[c].key # NoKey
  /\ \E e \in Committed :
        /\ e.key = request[c].key
        /\ Matches(e, request[c])
        /\ answer' = [answer EXCEPT ![c] = e]
  /\ status' = [status EXCEPT ![c] = "posted"]
  /\ UNCHANGED <<balances, entries, request>>

Acknowledge(c) ==
  /\ status[c] = "posted"
  /\ status' = [status EXCEPT ![c] = "ok"]
  /\ UNCHANGED <<balances, entries, request, answer>>

\* The key belongs to a different mutation.
Conflict(c) ==
  /\ status[c] = "open"
  /\ request[c].key # NoKey
  /\ \E e \in Committed : e.key = request[c].key /\ ~Matches(e, request[c])
  /\ status' = [status EXCEPT ![c] = "conflict"]
  /\ UNCHANGED <<balances, entries, request, answer>>

Fail(c) ==
  /\ status[c] \in {"open", "posted"}
  /\ status' = [status EXCEPT ![c] = "failed"]
  /\ answer' = [answer EXCEPT ![c] = None]
  /\ UNCHANGED <<balances, entries, request>>

Next ==
  \E c \in Calls :
    \/ \E m \in Mutations : Open(c, m) \/ Refuse(c, m)
    \/ Post(c)
    \/ Replay(c)
    \/ Acknowledge(c)
    \/ Conflict(c)
    \/ Fail(c)

Spec == Init /\ [][Next]_vars

=============================================================================
