--------------------------- MODULE LedgerTxProofs ---------------------------
(***************************************************************************)
(* Proofs about LedgerTx for every set of users, calls, keys and mutations. *)
(*                                                                         *)
(* The invariant IInv says what the two locks are for: at most one open     *)
(* transaction holds a balance row, what it read there is still the         *)
(* committed row, and the key of an inserted entry is neither committed nor *)
(* held by another transaction.  With it a commit is one step of the        *)
(* abstract ledger.                                                        *)
(***************************************************************************)
EXTENDS LedgerTx, TLAPS

\* What a call carries at each point of Mutate.
CallOK(c) ==
  /\ pc[c] # "idle" => request[c] \in Mutations
  /\ pc[c] \notin {"idle", "invalid"} => ValidMutation(request[c])
  /\ pc[c] \notin {"commit", "committed", "found", "ok"} => answer[c] = None
  /\ pc[c] = "commit" =>
       answer[c] = EntryOf(request[c], Posted(seen[c], request[c]))
  /\ pc[c] \in {"committed", "found", "ok"} =>
       /\ answer[c] \in Committed
       /\ Matches(answer[c], request[c])
       /\ answer[c].key = request[c].key
  /\ pc[c] \in {"insert", "commit"} => seen[c] = balances[request[c].user]
  /\ pc[c] = "commit" => ~KeyTaken(request[c].key)
  /\ pc[c] = "found" => request[c].key # NoKey

RowLocksExclusive ==
  \A u \in Users : \A c, d \in Calls :
    HoldsRow(c, u) /\ HoldsRow(d, u) => c = d

KeySlotsExclusive ==
  \A c, d \in Calls :
    HoldsKey(c, request[c].key) /\ HoldsKey(d, request[c].key) => c = d

IInv ==
  /\ TypeOK
  /\ \A c \in Calls : CallOK(c)
  /\ RowLocksExclusive
  /\ KeySlotsExclusive
  /\ BalanceFollowsLedger
  /\ KeyAppliedOnce

-----------------------------------------------------------------------------

\* Posting to a well-typed row gives a well-typed row and entry.
LEMMA PostedType ==
  ASSUME NEW m \in Mutations, NEW b \in Balance
  PROVE  /\ Posted(b, m) \in Balance
         /\ EntryOf(m, Posted(b, m)) \in Entry
         /\ Posted(b, m).available = b.available + m.delta
         /\ Posted(b, m).version = b.version + 1
         /\ EntryOf(m, Posted(b, m)).after = b.available + m.delta
         /\ EntryOf(m, Posted(b, m)).delta = m.delta
  BY LedgerTxAssumption
  DEF Posted, EntryOf, Balance, Entry, EntryTypes, CreditTypes, DebitTypes,
      PaidTypes, AdminTypes

\* An entry is committed when it stands in some user's ledger.
LEMMA InCommitted ==
  ASSUME NEW e
  PROVE  e \in Committed <=>
           \E u \in Users : \E i \in DOMAIN entries[u] : e = entries[u][i]
  BY DEF Committed

\* The commit of one entry adds that entry and nothing else.
LEMMA AppendCommitted ==
  ASSUME entries \in [Users -> Seq(Entry)],
         NEW u \in Users, NEW e \in Entry,
         entries' = [entries EXCEPT ![u] = Append(@, e)]
  PROVE  /\ entries' \in [Users -> Seq(Entry)]
         /\ Len(entries'[u]) = Len(entries[u]) + 1
         /\ \A i \in DOMAIN entries[u] :
              i \in DOMAIN entries'[u] /\ entries'[u][i] = entries[u][i]
         /\ entries'[u][Len(entries[u]) + 1] = e
         /\ \A i \in DOMAIN entries'[u] :
              i \in DOMAIN entries[u] \/ i = Len(entries[u]) + 1
         /\ \A v \in Users : v # u => entries'[v] = entries[v]
         /\ Committed' = Committed \cup {e}
  <1> DEFINE s == entries[u]
  <1>1. s \in Seq(Entry) /\ entries'[u] = Append(s, e)
    OBVIOUS
  <1>2. entries' \in [Users -> Seq(Entry)]
    BY <1>1
  <1>3. /\ Len(entries'[u]) = Len(s) + 1
        /\ DOMAIN s = 1 .. Len(s)
        /\ DOMAIN entries'[u] = 1 .. Len(s) + 1
        /\ entries'[u][Len(s) + 1] = e
        /\ Len(s) \in Nat
    BY <1>1
  <1>4. \A i \in DOMAIN s :
          i \in DOMAIN entries'[u] /\ entries'[u][i] = s[i]
    BY <1>1, <1>3
  <1>5. \A i \in DOMAIN entries'[u] : i \in DOMAIN s \/ i = Len(s) + 1
    BY <1>3
  <1>6. \A v \in Users : v # u => entries'[v] = entries[v]
    OBVIOUS
  <1>7. Committed' = Committed \cup {e}
    <2>1. ASSUME NEW x \in Committed' PROVE x \in Committed \cup {e}
      <3>1. PICK v \in Users : \E i \in DOMAIN entries'[v] : x = entries'[v][i]
        BY <2>1 DEF Committed
      <3>2. CASE v = u
        BY <3>1, <3>2, <1>3, <1>4, <1>5 DEF Committed
      <3>3. CASE v # u
        BY <3>1, <3>3, <1>6 DEF Committed
      <3>4. QED
        BY <3>2, <3>3
    <2>2. ASSUME NEW x \in Committed PROVE x \in Committed'
      <3>1. PICK v \in Users : \E i \in DOMAIN entries[v] : x = entries[v][i]
        BY <2>2, InCommitted
      <3>2. CASE v = u
        BY <3>1, <3>2, <1>4 DEF Committed
      <3>3. CASE v # u
        BY <3>1, <3>3, <1>6 DEF Committed
      <3>4. QED
        BY <3>2, <3>3
    <2>3. e \in Committed'
      BY <1>3 DEF Committed
    <2>4. QED
      BY <2>1, <2>2, <2>3
  <1>8. QED
    BY <1>2, <1>3, <1>4, <1>5, <1>6, <1>7

LEMMA InitIInv == Init => IInv
  <1> SUFFICES ASSUME Init PROVE IInv
    OBVIOUS
  <1>1. ZeroBalance \in Balance
    BY DEF ZeroBalance, Balance
  <1>2. TypeOK
    BY <1>1 DEF Init, TypeOK, Steps
  <1>3. \A c \in Calls : CallOK(c)
    BY DEF Init, CallOK
  <1>4. RowLocksExclusive /\ KeySlotsExclusive
    BY DEF Init, RowLocksExclusive, KeySlotsExclusive, HoldsRow, HoldsKey
  <1>5. BalanceFollowsLedger
    <2>1. \A u \in Users : /\ entries[u] = <<>>
                           /\ balances[u] = ZeroBalance
      BY DEF Init
    <2>2. QED
      BY <2>1 DEF BalanceFollowsLedger, BalanceBefore, ZeroBalance
  <1>6. KeyAppliedOnce
    BY DEF Init, KeyAppliedOnce
  <1>7. QED
    BY <1>2, <1>3, <1>4, <1>5, <1>6 DEF IInv

\* c is the only call a step changes.
OnlyCall(c) ==
  \A d \in Calls \ {c} :
    /\ pc'[d] = pc[d]
    /\ request'[d] = request[d]
    /\ seen'[d] = seen[d]
    /\ answer'[d] = answer[d]

\* A step of call c that commits nothing and takes no lock leaves the other
\* calls, the locks and the ledger as they were.
LEMMA QuietStep ==
  ASSUME IInv, NEW c \in Calls, OnlyCall(c), UNCHANGED <<balances, entries>>
  PROVE  /\ Committed' = Committed
         /\ \A k : KeyTaken(k)' <=> KeyTaken(k)
         /\ \A d \in Calls \ {c} : CallOK(d)'
         /\ BalanceFollowsLedger'
         /\ KeyAppliedOnce'
  <1>1. Committed' = Committed
    BY DEF Committed
  <1>2. \A k : KeyTaken(k)' <=> KeyTaken(k)
    BY <1>1 DEF KeyTaken
  <1>3. ASSUME NEW d \in Calls \ {c} PROVE CallOK(d)'
    <2>1. CallOK(d)
      BY DEF IInv
    <2>2. /\ pc'[d] = pc[d] /\ request'[d] = request[d]
          /\ seen'[d] = seen[d] /\ answer'[d] = answer[d]
          /\ balances' = balances
      BY DEF OnlyCall
    <2>3. (KeyTaken(request[d].key))' <=> KeyTaken(request[d].key)
      BY <1>1, <2>2 DEF KeyTaken
    <2>4. QED
      BY <1>1, <2>1, <2>2, <2>3 DEF CallOK
  <1>4. BalanceFollowsLedger' /\ KeyAppliedOnce'
    BY DEF IInv, BalanceFollowsLedger, BalanceBefore, KeyAppliedOnce
  <1>5. QED
    BY <1>1, <1>2, <1>3, <1>4

\* Dropping locks, or keeping them, keeps them exclusive.
LEMMA NoNewLock ==
  ASSUME IInv, NEW c \in Calls, OnlyCall(c),
         pc'[c] \in {"insert", "commit"} =>
           pc[c] = pc'[c] /\ request'[c] = request[c]
  PROVE  RowLocksExclusive' /\ KeySlotsExclusive'
  <1>1. \A d \in Calls : pc'[d] \in {"insert", "commit"} =>
          pc'[d] = pc[d] /\ request'[d] = request[d]
    BY DEF OnlyCall
  <1>2. RowLocksExclusive'
    BY <1>1 DEF IInv, RowLocksExclusive, HoldsRow
  <1>3. KeySlotsExclusive'
    BY <1>1 DEF IInv, KeySlotsExclusive, HoldsKey
  <1>4. QED
    BY <1>2, <1>3

LEMMA BeginIInv ==
  ASSUME IInv, NEW c \in Calls, NEW m \in Mutations, Begin(c, m)
  PROVE  IInv'
  <1>1. TypeOK'
    BY DEF IInv, TypeOK, Begin, Steps, InTx, Returned
  <1>2. OnlyCall(c)
    BY DEF IInv, TypeOK, OnlyCall, Begin
  <1>3. CallOK(c)'
    BY DEF IInv, TypeOK, CallOK, Begin
  <1>4. RowLocksExclusive' /\ KeySlotsExclusive'
    BY <1>2, NoNewLock DEF IInv, TypeOK, Begin
  <1>5. QED
    BY <1>1, <1>2, <1>3, <1>4, QuietStep DEF IInv, Begin

LEMMA LookupKeyIInv ==
  ASSUME IInv, NEW c \in Calls, LookupKey(c)
  PROVE  IInv'
  <1>1. Committed \subseteq Entry
    BY InCommitted DEF IInv, TypeOK
  <1>2. TypeOK'
    BY <1>1 DEF IInv, TypeOK, LookupKey, Steps, InTx, Returned
  <1>3. OnlyCall(c)
    BY DEF IInv, TypeOK, OnlyCall, LookupKey
  <1>4. UNCHANGED <<balances, entries, request, seen>>
    BY DEF LookupKey
  <1>5. Committed' = Committed
    BY <1>3, <1>4, QuietStep
  <1>6. CallOK(c)'
    BY <1>4, <1>5 DEF IInv, TypeOK, CallOK, LookupKey
  <1>7. RowLocksExclusive' /\ KeySlotsExclusive'
    BY <1>3, NoNewLock DEF IInv, TypeOK, LookupKey
  <1>8. QED
    BY <1>2, <1>3, <1>4, <1>6, <1>7, QuietStep DEF IInv

LEMMA LockBalanceIInv ==
  ASSUME IInv, NEW c \in Calls, LockBalance(c)
  PROVE  IInv'
  <1>1. request[c] \in Mutations /\ request[c].user \in Users
    BY LedgerTxAssumption DEF IInv, CallOK, LockBalance
  <1>2. TypeOK'
    BY <1>1 DEF IInv, TypeOK, LockBalance, Steps, InTx
  <1>3. OnlyCall(c) /\ UNCHANGED <<balances, entries, request, answer>>
    BY DEF IInv, TypeOK, OnlyCall, LockBalance
  <1>4. CallOK(c)'
    BY <1>1, <1>3 DEF IInv, TypeOK, CallOK, LockBalance
  <1>5. RowLocksExclusive'
    <2>1. \A d \in Calls \ {c}, u \in Users : HoldsRow(d, u)' <=> HoldsRow(d, u)
      BY <1>3 DEF OnlyCall, HoldsRow
    <2>2. \A u \in Users : HoldsRow(c, u)' => u = request[c].user
      BY <1>3 DEF HoldsRow
    <2>3. QED
      BY <2>1, <2>2 DEF IInv, RowLocksExclusive, LockBalance
  <1>6. KeySlotsExclusive'
    <2>1. pc'[c] = "insert" /\ \A d \in Calls \ {c} : pc'[d] = pc[d]
      BY <1>3 DEF IInv, TypeOK, LockBalance, OnlyCall
    <2>2. QED
      BY <1>3, <2>1 DEF IInv, KeySlotsExclusive, HoldsKey
  <1>7. QED
    BY <1>2, <1>3, <1>4, <1>5, <1>6, QuietStep DEF IInv

LEMMA InsertEntryIInv ==
  ASSUME IInv, NEW c \in Calls, InsertEntry(c)
  PROVE  IInv'
  <1> DEFINE m == request[c]
  <1>1. m \in Mutations /\ seen[c] \in Balance
    BY DEF IInv, TypeOK, CallOK, InsertEntry
  <1>2. EntryOf(m, Posted(seen[c], m)) \in Entry
    BY <1>1, PostedType
  <1>3. TypeOK'
    BY <1>2 DEF IInv, TypeOK, InsertEntry, Steps, InTx, Returned
  <1>4. OnlyCall(c) /\ UNCHANGED <<balances, entries, request, seen>>
    BY DEF IInv, TypeOK, OnlyCall, InsertEntry
  <1>5. (KeyTaken(m.key))' <=> KeyTaken(m.key)
    BY <1>4, QuietStep DEF KeyTaken
  <1>6. CallOK(c)'
    BY <1>4, <1>5 DEF IInv, TypeOK, CallOK, InsertEntry
  <1>7. pc[c] = "insert" /\ pc'[c] \in {"commit", "failed"}
    BY DEF IInv, TypeOK, InsertEntry
  <1>8. RowLocksExclusive'
    <2>1. \A d \in Calls, u \in Users : HoldsRow(d, u)' => HoldsRow(d, u)
      BY <1>4, <1>7 DEF OnlyCall, HoldsRow
    <2>2. QED
      BY <2>1 DEF IInv, RowLocksExclusive
  <1>9. KeySlotsExclusive'
    <2>1. \A d \in Calls \ {c} : \A k : HoldsKey(d, k)' <=> HoldsKey(d, k)
      BY <1>4 DEF OnlyCall, HoldsKey
    <2>2. \A d \in Calls \ {c} : ~HoldsKey(d, m.key)
      BY DEF InsertEntry
    <2>3. \A d \in Calls : \A k : HoldsKey(d, k) => k = request[d].key
      BY DEF HoldsKey
    <2>4. ASSUME NEW d \in Calls, NEW e \in Calls,
                 HoldsKey(d, request[d].key)', HoldsKey(e, request[d].key)'
          PROVE  d = e
      <3>1. CASE d # c /\ e # c
        BY <1>4, <2>1, <2>4, <3>1 DEF IInv, KeySlotsExclusive, HoldsKey, OnlyCall
      <3>2. CASE d = c /\ e # c
        BY <1>4, <2>2, <2>4, <3>2 DEF HoldsKey, OnlyCall
      <3>3. CASE d # c /\ e = c
        BY <1>4, <2>2, <2>4, <3>3 DEF HoldsKey, OnlyCall
      <3>4. QED
        BY <3>1, <3>2, <3>3
    <2>5. QED
      BY <2>4 DEF KeySlotsExclusive
  <1>10. QED
    BY <1>3, <1>4, <1>6, <1>8, <1>9, QuietStep DEF IInv

LEMMA CommitIInv ==
  ASSUME IInv, NEW c \in Calls, Commit(c)
  PROVE  IInv'
  <1> DEFINE m == request[c]
             u == request[c].user
             b == Posted(seen[c], m)
             n == Len(entries[u]) + 1
  <1>1. /\ m \in Mutations /\ u \in Users /\ m.key \in Keys \cup {NoKey}
        /\ ~KeyTaken(m.key)
        /\ answer[c] = EntryOf(m, b)
        /\ seen[c] = balances[u] /\ balances[u] \in Balance
    BY LedgerTxAssumption DEF IInv, TypeOK, CallOK, Commit
  <1>2. /\ b \in Balance /\ answer[c] \in Entry
        /\ b.available = balances[u].available + m.delta
        /\ b.version = balances[u].version + 1
        /\ answer[c].after = balances[u].available + m.delta
        /\ answer[c].delta = m.delta
        /\ answer[c].key = m.key
        /\ Matches(answer[c], m)
    BY <1>1, PostedType DEF EntryOf, Matches
  <1>3. /\ pc' = [pc EXCEPT ![c] = "committed"]
        /\ balances' = [balances EXCEPT ![u] = b]
        /\ entries' = [entries EXCEPT ![u] = Append(@, answer[c])]
        /\ UNCHANGED <<request, seen, answer>>
        /\ pc[c] = "commit"
    BY DEF Commit
  <1>4. OnlyCall(c) /\ pc'[c] = "committed"
    BY <1>3 DEF IInv, TypeOK, OnlyCall
  <1>5. /\ entries' \in [Users -> Seq(Entry)]
        /\ Len(entries'[u]) = n
        /\ \A i \in DOMAIN entries[u] :
             i \in DOMAIN entries'[u] /\ entries'[u][i] = entries[u][i]
        /\ entries'[u][n] = answer[c]
        /\ \A i \in DOMAIN entries'[u] : i \in DOMAIN entries[u] \/ i = n
        /\ \A v \in Users : v # u => entries'[v] = entries[v]
        /\ Committed' = Committed \cup {answer[c]}
    BY <1>1, <1>2, <1>3, AppendCommitted DEF IInv, TypeOK
  <1>6. TypeOK'
    BY <1>2, <1>3, <1>5 DEF IInv, TypeOK, Steps
  <1>7. \A k : KeyTaken(k)' <=> KeyTaken(k) \/ (k = m.key /\ k # NoKey)
    BY <1>2, <1>5 DEF KeyTaken
  <1>8. ASSUME NEW d \in Calls \ {c} PROVE CallOK(d)'
    <2>1. /\ CallOK(d)
          /\ pc'[d] = pc[d] /\ request'[d] = request[d]
          /\ seen'[d] = seen[d] /\ answer'[d] = answer[d]
      BY <1>4 DEF IInv, OnlyCall
    <2>2. pc[d] \in {"insert", "commit"} =>
            balances'[request[d].user] = balances[request[d].user]
      <3>1. SUFFICES ASSUME pc[d] \in {"insert", "commit"}
                     PROVE  request[d].user # u
        BY <1>1, <1>3 DEF IInv, TypeOK
      <3>2. HoldsRow(c, u) /\ HoldsRow(d, request[d].user)
        BY <1>3, <3>1 DEF HoldsRow
      <3>3. QED
        BY <1>1, <3>2 DEF IInv, RowLocksExclusive
    <2>3. pc[d] = "commit" => ~(KeyTaken(request[d].key))'
      <3>1. SUFFICES ASSUME pc[d] = "commit", (KeyTaken(request[d].key))'
                     PROVE  FALSE
        OBVIOUS
      <3>2. (KeyTaken(request[d].key))' <=>
              KeyTaken(request[d].key)
              \/ (request[d].key = m.key /\ request[d].key # NoKey)
        BY <1>2, <1>5, <2>1 DEF KeyTaken
      <3>3. request[d].key = m.key /\ m.key # NoKey
        BY <2>1, <3>1, <3>2 DEF CallOK
      <3>4. HoldsKey(c, m.key) /\ HoldsKey(d, m.key)
        BY <1>3, <3>1, <3>3 DEF HoldsKey
      <3>5. QED
        BY <3>4 DEF IInv, KeySlotsExclusive
    <2>4. QED
      BY <1>5, <2>1, <2>2, <2>3 DEF CallOK
  <1>9. CallOK(c)'
    BY <1>2, <1>3, <1>4, <1>5 DEF IInv, CallOK
  <1>10. RowLocksExclusive' /\ KeySlotsExclusive'
    BY <1>4, NoNewLock
  <1>11. BalanceFollowsLedger'
    <2>1. ASSUME NEW v \in Users, v # u
          PROVE  entries'[v] = entries[v] /\ balances'[v] = balances[v]
      BY <1>3, <1>5, <2>1 DEF IInv, TypeOK
    <2>2. /\ balances[u].available = BalanceBefore(entries[u], n)
          /\ balances[u].version = n - 1
          /\ \A i \in DOMAIN entries[u] : entries[u][i].after =
               BalanceBefore(entries[u], i) + entries[u][i].delta
      BY <1>1 DEF IInv, BalanceFollowsLedger
    <2>3. /\ n \in Nat \ {0}
          /\ DOMAIN entries[u] = 1 .. n - 1
          /\ DOMAIN entries'[u] = 1 .. n
      BY <1>1, <1>5 DEF IInv, TypeOK
    <2>4. ASSUME NEW i \in 1 .. n
          PROVE  BalanceBefore(entries'[u], i) = BalanceBefore(entries[u], i)
      <3>1. CASE i = 1
        BY <3>1 DEF BalanceBefore
      <3>2. CASE i # 1
        <4>1. i - 1 \in 1 .. n - 1
          BY <2>3, <3>2
        <4>2. entries'[u][i - 1] = entries[u][i - 1]
          BY <1>5, <2>3, <4>1
        <4>3. QED
          BY <3>2, <4>2 DEF BalanceBefore
      <3>3. QED
        BY <3>1, <3>2
    <2>5. \A i \in DOMAIN entries'[u] :
            entries'[u][i].after =
              BalanceBefore(entries'[u], i) + entries'[u][i].delta
      BY <1>2, <1>5, <2>2, <2>3, <2>4
    <2>6. balances'[u] = b
      BY <1>1, <1>3 DEF IInv, TypeOK
    <2>7. BalanceBefore(entries'[u], n + 1) = answer[c].after
      BY <1>5, <2>3 DEF BalanceBefore
    <2>8. /\ balances'[u].available = BalanceBefore(entries'[u], n + 1)
          /\ balances'[u].version = n
      BY <1>2, <2>2, <2>3, <2>6, <2>7
    <2>9. ASSUME NEW v \in Users
          PROVE  /\ \A i \in DOMAIN entries'[v] :
                      entries'[v][i].after =
                        BalanceBefore(entries'[v], i) + entries'[v][i].delta
                 /\ balances'[v].available =
                      BalanceBefore(entries'[v], Len(entries'[v]) + 1)
                 /\ balances'[v].version = Len(entries'[v])
      <3>1. CASE v = u
        BY <1>5, <2>5, <2>8, <3>1
      <3>2. CASE v # u
        BY <2>1, <3>2 DEF IInv, BalanceFollowsLedger
      <3>3. QED
        BY <3>1, <3>2
    <2>10. QED
      BY <2>9 DEF BalanceFollowsLedger, BalanceBefore
  <1>12. KeyAppliedOnce'
    <2>1. ASSUME NEW v \in Users, NEW i \in DOMAIN entries[v]
          PROVE  entries[v][i].key = m.key => m.key = NoKey
      BY <1>1, <2>1, InCommitted DEF KeyTaken
    <2>2. ASSUME NEW v \in Users, NEW i \in DOMAIN entries'[v]
          PROVE  \/ i \in DOMAIN entries[v] /\ entries'[v][i] = entries[v][i]
                 \/ v = u /\ i = n /\ entries'[v][i].key = m.key
      BY <1>2, <1>5
    <2>3. QED
      BY <2>1, <2>2 DEF IInv, KeyAppliedOnce
  <1>13. QED
    BY <1>6, <1>8, <1>9, <1>10, <1>11, <1>12 DEF IInv

LEMMA ReturnIInv ==
  ASSUME IInv, NEW c \in Calls, Return(c)
  PROVE  IInv'
  <1>1. TypeOK'
    BY DEF IInv, TypeOK, Return, Steps, Returned
  <1>2. OnlyCall(c) /\ UNCHANGED <<balances, entries, request, seen, answer>>
    BY DEF IInv, TypeOK, OnlyCall, Return
  <1>3. CallOK(c)'
    BY <1>2, QuietStep DEF IInv, TypeOK, CallOK, Return
  <1>4. RowLocksExclusive' /\ KeySlotsExclusive'
    BY <1>2, NoNewLock DEF IInv, TypeOK, Return
  <1>5. QED
    BY <1>1, <1>2, <1>3, <1>4, QuietStep DEF IInv

\* A call that fails, before its commit or after it, has nothing to return.
LEMMA FailureIInv ==
  ASSUME IInv, NEW c \in Calls, Rollback(c) \/ LoseAcknowledgement(c)
  PROVE  IInv'
  <1>1. TypeOK'
    BY DEF IInv, TypeOK, Rollback, LoseAcknowledgement, Steps, Returned
  <1>2. OnlyCall(c) /\ UNCHANGED <<balances, entries, request, seen>>
    BY DEF IInv, TypeOK, OnlyCall, Rollback, LoseAcknowledgement
  <1>3. CallOK(c)'
    BY <1>2 DEF IInv, TypeOK, CallOK, Rollback, LoseAcknowledgement, InTx
  <1>4. RowLocksExclusive' /\ KeySlotsExclusive'
    BY <1>2, NoNewLock DEF IInv, TypeOK, Rollback, LoseAcknowledgement
  <1>5. QED
    BY <1>1, <1>2, <1>3, <1>4, QuietStep DEF IInv

LEMMA NextIInv == IInv /\ [Next]_vars => IInv'
  <1> SUFFICES ASSUME IInv, [Next]_vars PROVE IInv'
    OBVIOUS
  <1>1. CASE UNCHANGED vars
    <2>1. /\ UNCHANGED <<balances, entries, pc, request, seen, answer>>
          /\ Committed' = Committed
      BY <1>1 DEF vars, Committed
    <2>2. TypeOK' /\ BalanceFollowsLedger' /\ KeyAppliedOnce'
      BY <2>1 DEF IInv, TypeOK, BalanceFollowsLedger, BalanceBefore,
         KeyAppliedOnce
    <2>3. RowLocksExclusive' /\ KeySlotsExclusive'
      BY <2>1 DEF IInv, RowLocksExclusive, HoldsRow, KeySlotsExclusive, HoldsKey
    <2>4. \A c \in Calls : CallOK(c)'
      BY <2>1 DEF IInv, CallOK, KeyTaken
    <2>5. QED
      BY <2>2, <2>3, <2>4 DEF IInv
  <1>2. CASE Finished
    BY <1>1, <1>2 DEF Finished
  <1>3. ASSUME NEW c \in Calls, NEW m \in Mutations, Begin(c, m) PROVE IInv'
    BY <1>3, BeginIInv
  <1>4. ASSUME NEW c \in Calls, Step(c) PROVE IInv'
    BY <1>4, LookupKeyIInv, LockBalanceIInv, InsertEntryIInv, CommitIInv,
       ReturnIInv DEF Step
  <1>5. ASSUME NEW c \in Calls, Rollback(c) \/ LoseAcknowledgement(c)
        PROVE  IInv'
    BY <1>5, FailureIInv
  <1>6. QED
    BY <1>1, <1>2, <1>3, <1>4, <1>5 DEF Next

\* The invariant holds in every reachable state.
THEOREM Invariance == Spec => []IInv
  BY InitIInv, NextIInv, PTL DEF Spec

\* Types: every row, entry and answer the transactions handle is well formed.
THEOREM TypeCorrect == Spec => []TypeOK
  <1>1. IInv => TypeOK
    BY DEF IInv
  <1>2. QED
    BY <1>1, Invariance, PTL

\* Concurrent calls of Mutate never lose an update: each user's balance is
\* what the ledger entries add up to, entry by entry.
THEOREM BalanceCorrect == Spec => []BalanceFollowsLedger
  <1>1. IInv => BalanceFollowsLedger
    BY DEF IInv
  <1>2. QED
    BY <1>1, Invariance, PTL

\* However many calls race or retry under one idempotency key, at most one
\* entry carries it.
THEOREM AtMostOnce == Spec => []KeyAppliedOnce
  <1>1. IInv => KeyAppliedOnce
    BY DEF IInv
  <1>2. QED
    BY <1>1, Invariance, PTL

\* What Mutate acknowledges is committed and is what was asked for.
THEOREM AcknowledgedIsPosted == Spec => []SuccessIsPosted
  <1>1. IInv => SuccessIsPosted
    BY DEF IInv, CallOK, SuccessIsPosted, Matches
  <1>2. QED
    BY <1>1, Invariance, PTL

-----------------------------------------------------------------------------
(* The lifetime counters.  The sums are recursive functions; that they are *)
(* defined at all is shown along the ledger's own growth: the empty ledger *)
(* has one, and an append extends it.                                      *)

Counted(e, T) == IF e.type \in T THEN e.delta ELSE 0

\* f holds the sums of s up to each of its entries.
IsSums(f, s, T) ==
  f = [n \in 0 .. Len(s) |-> IF n = 0 THEN 0 ELSE f[n - 1] + Counted(s[n], T)]

HasSums(s, T) ==
  /\ \E f \in [0 .. Len(s) -> Int] : IsSums(f, s, T)
  /\ \A f, g : IsSums(f, s, T) /\ IsSums(g, s, T) => f = g

LEMMA SumOfSums ==
  ASSUME NEW s, NEW T, HasSums(s, T), NEW f, IsSums(f, s, T)
  PROVE  SumDeltas(s, T) = f[Len(s)]
<1>1. SumDeltas(s, T) = (CHOOSE g : IsSums(g, s, T))[Len(s)]
  BY DEF SumDeltas, IsSums, Counted
<1>2. IsSums(CHOOSE g : IsSums(g, s, T), s, T)
  OBVIOUS
<1> QED
  BY <1>1, <1>2 DEF HasSums

LEMMA SumOfNone ==
  ASSUME NEW T
  PROVE  HasSums(<<>>, T) /\ SumDeltas(<<>>, T) = 0
<1> DEFINE zero == [n \in 0 .. 0 |-> 0]
<1>1. zero \in [0 .. Len(<<>>) -> Int] /\ IsSums(zero, <<>>, T) /\ zero[Len(<<>>)] = 0
  BY DEF IsSums
<1>2. \A f, g : IsSums(f, <<>>, T) /\ IsSums(g, <<>>, T) => f = g
  BY DEF IsSums
<1>3. HasSums(<<>>, T)
  BY <1>1, <1>2 DEF HasSums
<1> QED
  BY <1>1, <1>3, SumOfSums

LEMMA SumOfAppended ==
  ASSUME NEW s \in Seq(Entry), NEW e \in Entry, NEW T, HasSums(s, T)
  PROVE  /\ HasSums(Append(s, e), T)
         /\ SumDeltas(s, T) \in Int
         /\ SumDeltas(Append(s, e), T) = SumDeltas(s, T) + Counted(e, T)
<1> DEFINE t == Append(s, e)
           n == Len(s)
<1>1. /\ n \in Nat /\ Len(t) = n + 1
      /\ \A i \in 1 .. n : t[i] = s[i]
      /\ t[n + 1] = e
  OBVIOUS
<1>2. Counted(e, T) \in Int
  BY DEF Counted, Entry
<1>3. PICK f \in [0 .. n -> Int] : IsSums(f, s, T)
  BY DEF HasSums
<1>4. SumDeltas(s, T) = f[n] /\ f[n] \in Int
  BY <1>1, <1>3, SumOfSums
<1> DEFINE g == [i \in 0 .. n + 1 |-> IF i = n + 1 THEN f[n] + Counted(e, T) ELSE f[i]]
<1>5. g \in [0 .. Len(t) -> Int]
  BY <1>1, <1>2, <1>3, <1>4
<1>6. ASSUME NEW i \in 0 .. n + 1
      PROVE  g[i] = IF i = 0 THEN 0 ELSE g[i - 1] + Counted(t[i], T)
  <2>1. CASE i = 0
    <3>1. g[i] = f[0]
      BY <1>1, <2>1
    <3>2. f[0] = 0
      BY <1>1, <1>3 DEF IsSums
    <3> QED
      BY <2>1, <3>1, <3>2
  <2>2. CASE i \in 1 .. n
    <3>1. g[i] = f[i] /\ g[i - 1] = f[i - 1] /\ t[i] = s[i]
      BY <1>1, <2>2
    <3>2. f[i] = f[i - 1] + Counted(s[i], T)
      BY <1>1, <1>3, <2>2 DEF IsSums
    <3> QED
      BY <1>1, <2>2, <3>1, <3>2
  <2>3. CASE i = n + 1
    <3>1. g[i] = f[n] + Counted(e, T) /\ g[i - 1] = f[n]
      BY <1>1, <2>3
    <3> QED
      BY <1>1, <2>3, <3>1
  <2> QED
    BY <1>1, <2>1, <2>2, <2>3
<1>7. IsSums(g, t, T)
  <2>1. g = [i \in 0 .. n + 1 |-> g[i]]
    OBVIOUS
  <2> HIDE DEF g
  <2> QED
    BY <1>1, <1>6, <2>1 DEF IsSums
<1>8. ASSUME NEW h, NEW k, IsSums(h, t, T), IsSums(k, t, T)
      PROVE  h = k
  <2> DEFINE Cut(a) == [i \in 0 .. n |-> a[i]]
  <2>1. ASSUME NEW a, IsSums(a, t, T)
        PROVE  /\ a = [i \in 0 .. n + 1 |-> a[i]]
               /\ a[n + 1] = a[n] + Counted(e, T)
               /\ IsSums(Cut(a), s, T)
    <3>1. a = [i \in 0 .. n + 1 |-> IF i = 0 THEN 0 ELSE a[i - 1] + Counted(t[i], T)]
      BY <1>1, <2>1 DEF IsSums
    <3>2. \A i \in 0 .. n + 1 : a[i] = IF i = 0 THEN 0 ELSE a[i - 1] + Counted(t[i], T)
      BY <3>1
    <3>3. a = [i \in 0 .. n + 1 |-> a[i]]
      BY <3>1
    <3>4. a[n + 1] = a[n] + Counted(e, T)
      BY <1>1, <3>2
    <3>5. \A i \in 0 .. n :
            a[i] = IF i = 0 THEN 0 ELSE Cut(a)[i - 1] + Counted(s[i], T)
      BY <1>1, <3>2
    <3>6. IsSums(Cut(a), s, T)
      BY <1>1, <3>5 DEF IsSums
    <3> QED
      BY <3>3, <3>4, <3>6
  <2>2. Cut(h) = Cut(k)
    BY <1>8, <2>1 DEF HasSums
  <2>3. \A i \in 0 .. n : h[i] = k[i]
    BY <2>2
  <2>4. h[n + 1] = h[n] + Counted(e, T) /\ k[n + 1] = k[n] + Counted(e, T)
    BY <1>8, <2>1
  <2>5. h[n + 1] = k[n + 1]
    BY <1>1, <2>3, <2>4
  <2>6. \A i \in 0 .. n + 1 : h[i] = k[i]
    BY <1>1, <2>3, <2>5
  <2>7. h = [i \in 0 .. n + 1 |-> h[i]] /\ k = [i \in 0 .. n + 1 |-> k[i]]
    BY <1>8, <2>1
  <2> QED
    BY <2>6, <2>7
<1>9. HasSums(t, T)
  <2> HIDE DEF g, t
  <2> QED
    BY <1>5, <1>7, <1>8 DEF HasSums
<1>10. SumDeltas(t, T) = g[n + 1] /\ g[n + 1] = f[n] + Counted(e, T)
  BY <1>1, <1>7, <1>9, SumOfSums
<1> QED
  BY <1>4, <1>9, <1>10

UsageTypes == {"usage_debit"}

Lifetime ==
  \A u \in Users :
    /\ HasSums(entries[u], PaidTypes) /\ HasSums(entries[u], UsageTypes)
    /\ balances[u].purchased = SumDeltas(entries[u], PaidTypes)
    /\ balances[u].used = -SumDeltas(entries[u], UsageTypes)

\* The counters move by what the entry counts.
LEMMA PostedCounts ==
  ASSUME NEW m \in Mutations, NEW b \in Balance, ValidMutation(m)
  PROVE  /\ Posted(b, m).purchased = b.purchased + Counted(EntryOf(m, Posted(b, m)), PaidTypes)
         /\ Posted(b, m).used = b.used - Counted(EntryOf(m, Posted(b, m)), UsageTypes)
<1>1. m.delta \in Int /\ b.purchased \in Int /\ b.used \in Int
  BY LedgerTxAssumption DEF Balance
<1>2. EntryOf(m, Posted(b, m)).type = m.type /\ EntryOf(m, Posted(b, m)).delta = m.delta
  BY DEF EntryOf
<1>3. m.type \in PaidTypes => m.delta > 0
  BY DEF ValidMutation, CreditTypes
<1>4. m.type = "usage_debit" => m.delta < 0
  BY DEF ValidMutation, DebitTypes
<1> QED
  BY <1>1, <1>2, <1>3, <1>4 DEF Posted, Counted, UsageTypes

LEMMA LifetimeKept ==
  ASSUME IInv, Lifetime, [Next]_vars
  PROVE  Lifetime'
<1>1. CASE UNCHANGED <<balances, entries>>
  BY <1>1 DEF Lifetime
<1>2. ASSUME NEW c \in Calls, Commit(c)
      PROVE  Lifetime'
  <2> DEFINE m == request[c]
             u == request[c].user
             b == balances[u]
             e == answer[c]
  <2>1. /\ m \in Mutations /\ u \in Users /\ b \in Balance /\ ValidMutation(m)
        /\ seen[c] = b /\ e = EntryOf(m, Posted(b, m))
    BY <1>2, LedgerTxAssumption DEF IInv, TypeOK, CallOK, Commit
  <2>2. e \in Entry
    BY <2>1, PostedType
  <2>3. /\ entries[u] \in Seq(Entry)
        /\ entries' = [entries EXCEPT ![u] = Append(@, e)]
        /\ balances' = [balances EXCEPT ![u] = Posted(b, m)]
    BY <1>2, <2>1 DEF IInv, TypeOK, Commit
  <2>4. /\ Posted(b, m).purchased = b.purchased + Counted(e, PaidTypes)
        /\ Posted(b, m).used = b.used - Counted(e, UsageTypes)
    BY <2>1, PostedCounts
  <2>5. ASSUME NEW T, HasSums(entries[u], T)
        PROVE  /\ HasSums(entries'[u], T)
               /\ SumDeltas(entries[u], T) \in Int
               /\ SumDeltas(entries'[u], T) = SumDeltas(entries[u], T) + Counted(e, T)
    <3>1. entries'[u] = Append(entries[u], e)
      BY <2>1, <2>3 DEF IInv, TypeOK
    <3> QED
      BY <2>2, <2>3, <2>5, <3>1, SumOfAppended
  <2> SUFFICES ASSUME NEW v \in Users
               PROVE  /\ HasSums(entries'[v], PaidTypes) /\ HasSums(entries'[v], UsageTypes)
                      /\ balances'[v].purchased = SumDeltas(entries'[v], PaidTypes)
                      /\ balances'[v].used = -SumDeltas(entries'[v], UsageTypes)
    BY DEF Lifetime
  <2>6. CASE v # u
    <3>1. entries'[v] = entries[v] /\ balances'[v] = balances[v]
      BY <2>3, <2>6 DEF IInv, TypeOK
    <3> QED
      BY <3>1 DEF Lifetime
  <2>7. CASE v = u
    <3>1. balances'[u] = Posted(b, m)
      BY <2>1, <2>3 DEF IInv, TypeOK
    <3>2. /\ HasSums(entries[u], PaidTypes) /\ HasSums(entries[u], UsageTypes)
          /\ b.purchased = SumDeltas(entries[u], PaidTypes)
          /\ b.used = -SumDeltas(entries[u], UsageTypes)
      BY <2>1 DEF Lifetime
    <3>3. Counted(e, PaidTypes) \in Int /\ Counted(e, UsageTypes) \in Int
      BY <2>2 DEF Counted, Entry
    <3> HIDE DEF b, e, m
    <3> QED
      BY <2>4, <2>5, <2>7, <3>1, <3>2, <3>3
  <2> QED
    BY <2>6, <2>7
<1>3. CASE UNCHANGED vars
  BY <1>1, <1>3 DEF vars
<1>4. ASSUME NEW c \in Calls,
             \/ \E m \in Mutations : Begin(c, m)
             \/ LookupKey(c) \/ LockBalance(c) \/ InsertEntry(c)
             \/ Return(c) \/ Rollback(c) \/ LoseAcknowledgement(c)
      PROVE  UNCHANGED <<balances, entries>>
  BY <1>4 DEF Begin, LookupKey, LockBalance, InsertEntry, Return, Rollback, LoseAcknowledgement
<1> QED
  BY <1>1, <1>2, <1>3, <1>4 DEF Next, Step, Finished

\* The lifetime counters agree with the ledger entry by entry: purchases are
\* the payments and bonuses credited, usage is what was debited for it, and
\* no lost, repeated or rolled back mutation moves a counter without its entry.
THEOREM LifetimeCorrect == Spec => []LifetimeFollowsLedger
<1>1. Init => Lifetime
  <2> SUFFICES ASSUME Init PROVE Lifetime
    OBVIOUS
  <2>1. \A u \in Users : entries[u] = <<>> /\ balances[u] = ZeroBalance
    BY DEF Init
  <2> QED
    BY <2>1, SumOfNone DEF Lifetime, ZeroBalance
<1>2. IInv /\ Lifetime /\ [Next]_vars => Lifetime'
  BY LifetimeKept
<1>3. Lifetime => LifetimeFollowsLedger
  BY DEF Lifetime, LifetimeFollowsLedger, UsageTypes
<1> QED
  BY Invariance, <1>1, <1>2, <1>3, PTL DEF Spec

-----------------------------------------------------------------------------

\* Both modules post with the same operators.
LEMMA SameOperators ==
  /\ Abs!ZeroBalance = ZeroBalance
  /\ Abs!Committed = Committed
  /\ \A m : Abs!ValidMutation(m) <=> ValidMutation(m)
  /\ \A e, m : Abs!Matches(e, m) <=> Matches(e, m)
  /\ \A b, m : Abs!Posted(b, m) = Posted(b, m)
  /\ \A m, b : Abs!EntryOf(m, b) = EntryOf(m, b)
  BY DEF Abs!ZeroBalance, ZeroBalance, Abs!Committed, Committed,
     Abs!ValidMutation, ValidMutation, Abs!CreditTypes, CreditTypes,
     Abs!DebitTypes, DebitTypes, Abs!AdminTypes, AdminTypes,
     Abs!PaidTypes, PaidTypes, Abs!Matches, Matches,
     Abs!Posted, Posted, Abs!EntryOf, EntryOf

\* A step of one call changes one call of the abstract ledger.
LEMMA AbsOneCall ==
  ASSUME IInv, NEW c \in Calls, OnlyCall(c), TypeOK'
  PROVE  /\ AbsStatus' = [AbsStatus EXCEPT ![c] = StatusOf(pc'[c])]
         /\ AbsAnswer' = [AbsAnswer EXCEPT
                            ![c] = IF pc'[c] = "commit" THEN None ELSE answer'[c]]
         /\ AbsStatus[c] = StatusOf(pc[c])
         /\ AbsAnswer[c] = IF pc[c] = "commit" THEN None ELSE answer[c]
  BY DEF AbsStatus, AbsAnswer, OnlyCall

LEMMA AbsBegin ==
  ASSUME IInv, IInv', NEW c \in Calls, NEW m \in Mutations, Begin(c, m)
  PROVE  Abs!Open(c, m) \/ Abs!Refuse(c, m)
  <1>1. OnlyCall(c) /\ UNCHANGED <<balances, entries, answer>>
    BY DEF IInv, TypeOK, OnlyCall, Begin
  <1>2. /\ pc[c] = "idle" /\ pc'[c] = IF ValidMutation(m) THEN "lookup" ELSE "invalid"
        /\ request' = [request EXCEPT ![c] = m]
    BY DEF IInv, TypeOK, Begin
  <1>3. /\ AbsStatus' = [AbsStatus EXCEPT ![c] =
                           IF ValidMutation(m) THEN "open" ELSE "failed"]
        /\ AbsStatus[c] = "idle"
    BY <1>1, <1>2, AbsOneCall DEF IInv, StatusOf
  <1>4. AbsAnswer' = AbsAnswer
    BY <1>1, <1>2 DEF AbsAnswer, OnlyCall
  <1>5. QED
    BY <1>1, <1>2, <1>3, <1>4, SameOperators DEF Abs!Open, Abs!Refuse

\* Looking up the key is a replay, a conflict, or nothing yet.
LEMMA AbsLookupKey ==
  ASSUME IInv, IInv', NEW c \in Calls, LookupKey(c)
  PROVE  Abs!Replay(c) \/ Abs!Conflict(c) \/ UNCHANGED Abs!vars
  <1>1. OnlyCall(c) /\ UNCHANGED <<balances, entries, request>> /\ pc[c] = "lookup"
    BY DEF IInv, TypeOK, OnlyCall, LookupKey
  <1>2. /\ AbsStatus' = [AbsStatus EXCEPT ![c] = StatusOf(pc'[c])]
        /\ AbsAnswer' = [AbsAnswer EXCEPT
                           ![c] = IF pc'[c] = "commit" THEN None ELSE answer'[c]]
        /\ AbsStatus[c] = "open" /\ AbsAnswer[c] = answer[c]
    BY <1>1, AbsOneCall DEF IInv, StatusOf
  <1>3. CASE pc'[c] = "lock" /\ answer' = answer
    <2>1. AbsStatus' = AbsStatus /\ AbsAnswer' = AbsAnswer
      BY <1>1, <1>2, <1>3 DEF StatusOf, AbsStatus, AbsAnswer
    <2>2. QED
      BY <1>1, <2>1 DEF Abs!vars
  <1>4. ASSUME NEW e \in Committed, request[c].key # NoKey, e.key = request[c].key,
               Matches(e, request[c]), pc'[c] = "found", answer'[c] = e
        PROVE  Abs!Replay(c)
    <2>1. e \in Abs!Committed
      BY SameOperators
    <2>2. /\ AbsAnswer' = [AbsAnswer EXCEPT ![c] = e]
          /\ AbsStatus' = [AbsStatus EXCEPT ![c] = "posted"]
      BY <1>2, <1>4 DEF StatusOf
    <2>3. QED
      BY <1>1, <1>2, <1>4, <2>1, <2>2, SameOperators
      DEF Abs!Replay
  <1>5. ASSUME NEW e \in Committed, request[c].key # NoKey, e.key = request[c].key,
               ~Matches(e, request[c]), pc'[c] = "conflict", answer' = answer
        PROVE  Abs!Conflict(c)
    <2>1. e \in Abs!Committed
      BY SameOperators
    <2>2. AbsStatus' = [AbsStatus EXCEPT ![c] = "conflict"]
      BY <1>2, <1>5 DEF StatusOf
    <2>3. AbsAnswer' = AbsAnswer
      BY <1>1, <1>5 DEF AbsAnswer, OnlyCall
    <2>4. QED
      BY <1>1, <1>2, <1>5, <2>1, <2>2, <2>3, SameOperators
      DEF Abs!Conflict
  <1>6. QED
    BY <1>3, <1>4, <1>5 DEF IInv, TypeOK, LookupKey

\* Locking the row and inserting the entry are invisible; a violation of the
\* unique index fails the call.
LEMMA AbsUncommitted ==
  ASSUME IInv, IInv', NEW c \in Calls, LockBalance(c) \/ InsertEntry(c)
  PROVE  Abs!Fail(c) \/ UNCHANGED Abs!vars
  <1>1. OnlyCall(c) /\ UNCHANGED <<balances, entries, request>>
    BY DEF IInv, TypeOK, OnlyCall, LockBalance, InsertEntry
  <1>2. /\ pc[c] \in {"lock", "insert"} /\ pc'[c] \in {"insert", "commit", "failed"}
        /\ answer[c] = None /\ (pc'[c] # "commit" => answer'[c] = None)
    BY DEF IInv, TypeOK, CallOK, LockBalance, InsertEntry
  <1>3. /\ AbsStatus' = [AbsStatus EXCEPT ![c] = StatusOf(pc'[c])]
        /\ AbsAnswer' = [AbsAnswer EXCEPT ![c] = None]
        /\ AbsStatus[c] = "open" /\ AbsAnswer[c] = None
    BY <1>1, <1>2, AbsOneCall DEF IInv, StatusOf
  <1>4. CASE pc'[c] = "failed"
    BY <1>1, <1>3, <1>4 DEF Abs!Fail, StatusOf
  <1>5. CASE pc'[c] # "failed"
    <2>1. StatusOf(pc'[c]) = "open"
      BY <1>2, <1>5 DEF StatusOf
    <2>2. AbsStatus' = AbsStatus
      BY <1>3, <2>1 DEF AbsStatus
    <2>3. AbsAnswer' = AbsAnswer
      BY <1>3 DEF AbsAnswer
    <2>4. QED
      BY <1>1, <2>2, <2>3 DEF Abs!vars
  <1>6. QED
    BY <1>4, <1>5

\* The commit is the instant at which the mutation happens.
LEMMA AbsCommit ==
  ASSUME IInv, IInv', NEW c \in Calls, Commit(c)
  PROVE  Abs!Post(c)
  <1>1. OnlyCall(c) /\ UNCHANGED <<request, seen, answer>>
    BY DEF IInv, TypeOK, OnlyCall, Commit
  <1>2. /\ pc[c] = "commit" /\ pc'[c] = "committed"
        /\ ValidMutation(request[c])
        /\ seen[c] = balances[request[c].user]
        /\ answer[c] = EntryOf(request[c], Posted(seen[c], request[c]))
        /\ ~KeyTaken(request[c].key)
    BY DEF IInv, TypeOK, CallOK, Commit
  <1>3. /\ AbsStatus' = [AbsStatus EXCEPT ![c] = "posted"]
        /\ AbsAnswer' = [AbsAnswer EXCEPT ![c] = answer[c]]
        /\ AbsStatus[c] = "open"
    BY <1>1, <1>2, AbsOneCall DEF IInv, StatusOf
  <1>4. ~Abs!KeyTaken(request[c].key)
    BY <1>2, SameOperators DEF KeyTaken, Abs!KeyTaken
  <1>5. /\ balances' = [balances EXCEPT ![request[c].user] =
                           Posted(balances[request[c].user], request[c])]
        /\ entries' = [entries EXCEPT ![request[c].user] = Append(@, answer[c])]
    BY <1>2 DEF Commit
  <1>6. QED
    BY <1>1, <1>2, <1>3, <1>4, <1>5, SameOperators DEF Abs!Post

LEMMA AbsReturn ==
  ASSUME IInv, IInv', NEW c \in Calls, Return(c)
  PROVE  Abs!Acknowledge(c)
  <1>1. OnlyCall(c) /\ UNCHANGED <<balances, entries, request, answer>>
    BY DEF IInv, TypeOK, OnlyCall, Return
  <1>2. pc[c] \in {"committed", "found"} /\ pc'[c] = "ok"
    BY DEF IInv, TypeOK, Return
  <1>3. AbsStatus' = [AbsStatus EXCEPT ![c] = "ok"] /\ AbsStatus[c] = "posted"
    BY <1>1, <1>2, AbsOneCall DEF IInv, StatusOf
  <1>4. AbsAnswer' = AbsAnswer
    BY <1>1, <1>2 DEF AbsAnswer, OnlyCall
  <1>5. QED
    BY <1>1, <1>3, <1>4 DEF Abs!Acknowledge

LEMMA AbsFailure ==
  ASSUME IInv, IInv', NEW c \in Calls, Rollback(c) \/ LoseAcknowledgement(c)
  PROVE  Abs!Fail(c)
  <1>1. OnlyCall(c) /\ UNCHANGED <<balances, entries, request>>
    BY DEF IInv, TypeOK, OnlyCall, Rollback, LoseAcknowledgement
  <1>2. /\ pc[c] \in InTx \cup {"committed"}
        /\ pc'[c] \in {"failed", "unacknowledged"}
        /\ answer'[c] = None
    BY DEF IInv, TypeOK, Rollback, LoseAcknowledgement
  <1>3. /\ AbsStatus' = [AbsStatus EXCEPT ![c] = "failed"]
        /\ AbsAnswer' = [AbsAnswer EXCEPT ![c] = None]
        /\ AbsStatus[c] \in {"open", "posted"}
    BY <1>1, <1>2, AbsOneCall DEF IInv, StatusOf, InTx
  <1>4. QED
    BY <1>1, <1>3 DEF Abs!Fail

LEMMA AbsInit == Init => Abs!Init
  BY SameOperators DEF Init, Abs!Init, AbsStatus, AbsAnswer, StatusOf

LEMMA AbsNext == IInv /\ IInv' /\ [Next]_vars => [Abs!Next]_(Abs!vars)
  <1> SUFFICES ASSUME IInv, IInv', [Next]_vars PROVE [Abs!Next]_(Abs!vars)
    OBVIOUS
  <1>1. CASE UNCHANGED vars
    BY <1>1 DEF vars, Abs!vars, AbsStatus, AbsAnswer
  <1>2. CASE Finished
    BY <1>1, <1>2 DEF Finished
  <1>3. ASSUME NEW c \in Calls, NEW m \in Mutations, Begin(c, m)
        PROVE  Abs!Next
    BY <1>3, AbsBegin DEF Abs!Next
  <1>4. ASSUME NEW c \in Calls, Step(c) PROVE [Abs!Next]_(Abs!vars)
    BY <1>4, AbsLookupKey, AbsUncommitted, AbsCommit, AbsReturn
    DEF Step, Abs!Next
  <1>5. ASSUME NEW c \in Calls, Rollback(c) \/ LoseAcknowledgement(c)
        PROVE  Abs!Next
    BY <1>5, AbsFailure DEF Abs!Next
  <1>6. QED
    BY <1>1, <1>2, <1>3, <1>4, <1>5 DEF Next

\* Mutate, run as interleaved transactions that lock, insert, commit, roll
\* back and lose acknowledgements, implements the abstract ledger, in which a
\* mutation is a single step that happens at most once per key.
THEOREM Refinement == Spec => ImplementsLedger
  <1>1. Spec => Abs!Spec
    BY AbsInit, AbsNext, Invariance, PTL DEF Spec, Abs!Spec
  <1>2. QED
    BY <1>1 DEF ImplementsLedger

=============================================================================
