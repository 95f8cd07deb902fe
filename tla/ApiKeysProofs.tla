--------------------------- MODULE ApiKeysProofs ---------------------------
(***************************************************************************)
(* Proofs about ApiKeys for any keys, events, postings and calls: the      *)
(* types, and that an account has one ACTIVE key, that a revoked key does  *)
(* not serve, and that a resume commits over a positive balance only.      *)
(*                                                                         *)
(* The last two are about what a call did before its commit: OmniRoute has *)
(* been asked, the balance has been read.  They hold because nobody else   *)
(* changes OmniRoute, the keys or the balance in between (Excluded, the    *)
(* row locks), so that what the call saw is still so when it commits       *)
(* (Planned).  The last part proves on the same invariant that ApiKeys     *)
(* implements Account, and that revocation is final.                       *)
(***************************************************************************)
EXTENDS ApiKeys, FiniteSetTheorems, TLAPS

-----------------------------------------------------------------------------
(* The invariant.                                                          *)

\* The user's row is locked, or the balance row and a reference to the user.
Holding(call) == call.at \in {"renew", "insert", "set", "billing"}

\* One call at a time: FOR UPDATE against FOR UPDATE and foreign keys.
Excluded ==
  \A c, d \in Calls : Holding(calls[c]) /\ Holding(calls[d]) => c = d

\* What the call about to commit has seen or done is still so.
PlanOf(call) ==
  /\ call.at = "renew" => gateway[call.old] = "none" /\ call.old \in Usable
  /\ call.at = "insert" =>
       /\ keys[call.key].status = "none"
       /\ call.old # None => gateway[call.old] = "none" /\ call.old \in Usable
  /\ call.at = "set" =>
       /\ call.status = "REVOKED" => gateway[call.key] = "none" /\ call.key \in Usable
       /\ call.status = "SUSPENDED" => keys[call.key].status = "ACTIVE"
       /\ call.status = "ACTIVE" => keys[call.key].status = "SUSPENDED" /\ balance > 0
  /\ call.at \in {"resolved", "billing"} => usedBy[call.event] # None
  /\ call.at = "billing" =>
       /\ call.event \notin billed
       /\ Cost[call.event] > 0 /\ balance - Cost[call.event] <= 0

Planned == \A c \in Calls : PlanOf(calls[c])

OneActive == \A k, l \in ActiveKeys : k = l

\* The customer was given the key when its row was committed.
UsedHasRow == \A e \in Events : usedBy[e] # None => keys[usedBy[e]].status # "none"

IInv == TypeOK /\ Excluded /\ Planned /\ OneActive /\ RevokedIsGone /\ UsedHasRow

-----------------------------------------------------------------------------
(* What a call holds at each of its statements.                            *)

LEMMA CallShape ==
  ASSUME NEW call \in CallState
  PROVE  /\ Idle \in CallState /\ Idle.at = "idle"
         /\ call.at \in {"create", "rotate"} => call.stamp \in 0 .. MaxStarts
         /\ call.at = "renew" => call.old \in KeyIds /\ call.stamp \in 0 .. MaxStarts
         /\ call.at = "insert" => /\ call.key \in KeyIds
                                  /\ call.old \in KeyIds \cup {None}
                                  /\ call.stamp \in 0 .. MaxStarts
         /\ call.at = "set" => call.key \in KeyIds /\ call.status \in KeyStatuses
         /\ call.at = "resolved" => call.event \in Events /\ call.status \in KeyStatuses
         /\ call.at = "billing" => call.event \in Events
BY DEF CallState, Idle

\* An idle call has no plan and holds nothing.
LEMMA IdlePlan == PlanOf(Idle)' /\ ~Holding(Idle)
BY DEF PlanOf, Holding, Idle

\* Another call is about to do what it was about to do, and its plan stands
\* unless it holds the rows that this step changes.
LEMMA PlansStand ==
  ASSUME TypeOK, Planned, NEW c \in Calls, NEW new,
         calls' = [calls EXCEPT ![c] = new],
         PlanOf(new)',
         UNCHANGED usedBy,
         \/ UNCHANGED <<keys, gateway, balance, billed>>
         \/ \A d \in Calls \ {c} : ~Holding(calls[d])
  PROVE  Planned'
<1> SUFFICES ASSUME NEW d \in Calls PROVE PlanOf(calls[d])'
  BY DEF Planned
<1>1. CASE d = c
  <2>1. calls'[d] = new
    BY <1>1 DEF TypeOK
  <2> QED
    BY <2>1 DEF PlanOf
<1>2. CASE d # c
  <2>1. calls'[d] = calls[d] /\ PlanOf(calls[d])
    BY <1>2 DEF TypeOK, Planned
  <2>2. CASE UNCHANGED <<keys, gateway, balance, billed>>
    BY <2>1, <2>2 DEF PlanOf, Usable
  <2>3. CASE ~Holding(calls[d])
    BY <2>1, <2>3 DEF PlanOf, Holding
  <2> QED
    BY <1>2, <2>2, <2>3
<1> QED
  BY <1>1, <1>2

\* Only the call that moves can begin to hold the rows.
LEMMA ExclusionStands ==
  ASSUME TypeOK, Excluded, NEW c \in Calls, NEW new,
         calls' = [calls EXCEPT ![c] = new],
         Holding(new) => \A d \in Calls \ {c} : ~Holding(calls[d])
  PROVE  Excluded'
<1>1. \A d \in Calls : calls'[d] = IF d = c THEN new ELSE calls[d]
  BY DEF TypeOK
<1> QED
  BY <1>1 DEF Excluded

\* With the rows free nobody holds them; next to a holder nobody else does.
LEMMA Alone ==
  ASSUME Excluded, NEW c \in Calls,
         UserFree \/ LedgerFree \/ Holding(calls[c])
  PROVE  \A d \in Calls \ {c} : ~Holding(calls[d])
BY DEF Excluded, UserFree, LedgerFree, Holding, HoldsUser, HoldsBalance

-----------------------------------------------------------------------------
(* The kinds of steps.                                                     *)

\* A key goes from SUSPENDED to ACTIVE over a positive balance only.
Commits ==
  \A k \in KeyIds :
    keys[k].status = "SUSPENDED" /\ keys'[k].status = "ACTIVE" => balance > 0

Kept == IInv' /\ Commits

\* Steps that change no key: the invariants about keys stand.
LEMMA KeysStand ==
  ASSUME IInv, UNCHANGED keys,
         \A k \in KeyIds : gateway'[k] = "enabled" =>
           gateway[k] = "enabled" \/ keys[k].status # "REVOKED"
  PROVE  OneActive' /\ RevokedIsGone' /\ Commits /\ (UNCHANGED usedBy => UsedHasRow')
BY DEF IInv, OneActive, RevokedIsGone, Commits, ActiveKeys, UsedHasRow

\* A call moves on, and nothing else changes.
LEMMA QuietStep ==
  ASSUME IInv, NEW c \in Calls, NEW new \in CallState,
         calls' = [calls EXCEPT ![c] = new], PlanOf(new)', ~Holding(new),
         starts' \in 0 .. MaxStarts,
         UNCHANGED <<keys, gateway, usedBy, billed, posted, balance>>
  PROVE  Kept
<1>1. TypeOK'
  BY DEF IInv, TypeOK
<1>2. Excluded'
  BY ExclusionStands DEF IInv
<1>3. Planned'
  BY PlansStand DEF IInv
<1> QED
  BY <1>1, <1>2, <1>3, KeysStand DEF Kept, IInv

\* A call that is alone changes a key at OmniRoute, but enables no revoked one.
LEMMA GatewayStep ==
  ASSUME IInv, NEW c \in Calls, NEW new \in CallState,
         calls' = [calls EXCEPT ![c] = new], PlanOf(new)',
         UserFree \/ LedgerFree \/ Holding(calls[c]),
         NEW k \in KeyIds, NEW g \in {"none", "enabled", "disabled"},
         gateway' = [gateway EXCEPT ![k] = g],
         g = "enabled" => keys[k].status # "REVOKED",
         UNCHANGED <<keys, usedBy, billed, posted, balance, starts>>
  PROVE  Kept
<1>1. TypeOK'
  BY DEF IInv, TypeOK
<1>2. \A d \in Calls \ {c} : ~Holding(calls[d])
  BY Alone DEF IInv
<1>3. Excluded'
  BY <1>2, ExclusionStands DEF IInv
<1>4. Planned'
  BY <1>2, PlansStand DEF IInv
<1>5. \A l \in KeyIds : gateway'[l] = "enabled" =>
        gateway[l] = "enabled" \/ keys[l].status # "REVOKED"
  BY DEF IInv, TypeOK
<1> QED
  BY <1>1, <1>3, <1>4, <1>5, KeysStand DEF Kept, IInv

\* A posting, with or without its usage event, while nobody holds the rows.
LEMMA PostingStep ==
  ASSUME IInv, NEW c \in Calls, NEW new \in CallState,
         calls' = [calls EXCEPT ![c] = new], PlanOf(new)', ~Holding(new),
         LedgerFree, balance' \in Int, posted' \subseteq Postings,
         billed' \subseteq {e \in Events : usedBy[e] # None},
         UNCHANGED <<keys, gateway, usedBy, starts>>
  PROVE  Kept
<1>1. TypeOK'
  BY DEF IInv, TypeOK
<1>2. Excluded'
  BY ExclusionStands DEF IInv
<1>3. \A d \in Calls \ {c} : ~Holding(calls[d])
  BY Alone DEF IInv
<1>4. Planned'
  BY <1>3, PlansStand DEF IInv
<1> QED
  BY <1>1, <1>2, <1>4, KeysStand DEF Kept, IInv

\* The holder of the rows commits and is done.
LEMMA CommitStep ==
  ASSUME IInv, NEW c \in Calls, Holding(calls[c]),
         calls' = [calls EXCEPT ![c] = Idle],
         keys' \in [KeyIds -> Row], balance' \in Int,
         billed' \subseteq {e \in Events : usedBy[e] # None},
         OneActive', RevokedIsGone', Commits,
         \A k \in KeyIds : keys[k].status # "none" => keys'[k].status # "none",
         UNCHANGED <<gateway, usedBy, posted, starts>>
  PROVE  Kept
<1>0. Idle \in CallState /\ PlanOf(Idle)' /\ ~Holding(Idle)
  BY IdlePlan DEF CallState
<1>1. TypeOK'
  BY <1>0 DEF IInv, TypeOK
<1>2. Excluded'
  BY <1>0, ExclusionStands DEF IInv
<1>3. \A d \in Calls \ {c} : ~Holding(calls[d])
  BY Alone DEF IInv
<1>4. Planned'
  BY <1>0, <1>3, PlansStand DEF IInv
<1>5. UsedHasRow'
  BY ApiKeysAssumption DEF IInv, TypeOK, UsedHasRow
<1> QED
  BY <1>1, <1>2, <1>4, <1>5 DEF Kept, IInv

-----------------------------------------------------------------------------
(* The actions.                                                            *)

\* A call that gives up leaves everything as it is.
LEMMA GiveUpStep ==
  ASSUME IInv, NEW c \in Calls, calls' = [calls EXCEPT ![c] = Idle],
         UNCHANGED <<keys, gateway, usedBy, billed, posted, balance, starts>>
  PROVE  Kept
<1>1. Idle \in CallState /\ PlanOf(Idle)' /\ ~Holding(Idle)
  BY IdlePlan DEF CallState
<1>2. starts' \in 0 .. MaxStarts
  BY DEF IInv, TypeOK
<1> QED
  BY <1>1, <1>2, QuietStep

LEMMA StartKept ==
  ASSUME IInv, NEW c \in Calls, NEW op \in {"create", "rotate"}, Start(c, op)
  PROVE  Kept
<1>1. starts' \in 0 .. MaxStarts
  BY ApiKeysAssumption DEF IInv, TypeOK, Start
<1> PICK stamp \in 0 .. MaxStarts : stamp = starts'
  BY <1>1
<1> DEFINE new == [at |-> op, stamp |-> stamp]
<1>2. new \in CallState /\ ~Holding(new) /\ PlanOf(new)'
  BY <1>1 DEF CallState, Holding, PlanOf
<1>3. calls' = [calls EXCEPT ![c] = new]
  BY DEF Start
<1> HIDE DEF new
<1> QED
  BY <1>1, <1>2, <1>3, QuietStep DEF Start

\* OmniRoute creates a key that has no row yet, for a call that is alone.
LEMMA CreateExternalKept ==
  ASSUME IInv, NEW c \in Calls, NEW old \in KeyIds \cup {None}, NEW stamp \in 0 .. MaxStarts,
         CreateExternal(c, old, stamp),
         UserFree \/ Holding(calls[c]),
         old # None => gateway[old] = "none" /\ old \in Usable,
         UNCHANGED <<keys, usedBy, billed, posted, balance, starts>>
  PROVE  Kept
<1>1. PICK k \in Fresh :
        /\ gateway' = [gateway EXCEPT ![k] = "enabled"]
        /\ calls' = [calls EXCEPT ![c] = [at |-> "insert", key |-> k, old |-> old,
                                          stamp |-> stamp]]
  BY DEF CreateExternal
<1> DEFINE new == [at |-> "insert", key |-> k, old |-> old, stamp |-> stamp]
<1>2. k \in KeyIds /\ keys[k].status = "none" /\ gateway[k] = "none"
  BY DEF Fresh
<1>3. new \in CallState
  BY <1>2 DEF CallState
<1>4. PlanOf(new)'
  <2>1. keys' = keys
    OBVIOUS
  <2>2. old # None => gateway'[old] = "none"
    BY <1>1, <1>2 DEF IInv, TypeOK, Usable
  <2> QED
    BY <1>2, <2>1, <2>2 DEF PlanOf, Usable
<1>5. calls' = [calls EXCEPT ![c] = new]
  BY <1>1
<1> HIDE DEF new
<1> QED
  BY <1>1, <1>2, <1>3, <1>4, <1>5, GatewayStep

LEMMA CreateKept ==
  ASSUME IInv, NEW c \in Calls, Create(c)
  PROVE  Kept
<1>1. CASE CreateExternal(c, None, calls[c].stamp)
  <2>1. calls[c].stamp \in 0 .. MaxStarts
    BY CallShape DEF Create, IInv, TypeOK
  <2> QED
    BY <1>1, <2>1, CreateExternalKept DEF Create
<1>2. CASE UNCHANGED gateway /\ calls' = [calls EXCEPT ![c] = Idle]
  BY <1>2, GiveUpStep DEF Create
<1> QED
  BY <1>1, <1>2 DEF Create

LEMMA RotateDeleteKept ==
  ASSUME IInv, NEW c \in Calls, RotateDelete(c)
  PROVE  Kept
<1>1. CASE UNCHANGED gateway /\ calls' = [calls EXCEPT ![c] = Idle]
  BY <1>1, GiveUpStep DEF RotateDelete
<1>2. ASSUME NEW k \in Current,
             gateway' = [gateway EXCEPT ![k] = "none"],
             calls' = [calls EXCEPT ![c] = [at |-> "renew", old |-> k,
                                            stamp |-> calls[c].stamp]]
      PROVE  Kept
  <2>1. k \in KeyIds /\ k \in Usable
    BY DEF Current, Usable
  <2>2. PICK stamp \in 0 .. MaxStarts : stamp = calls[c].stamp
    BY CallShape DEF RotateDelete, IInv, TypeOK
  <2> DEFINE new == [at |-> "renew", old |-> k, stamp |-> stamp]
  <2>3. new \in CallState
    BY <2>1, <2>2 DEF CallState
  <2>4. PlanOf(new)'
    BY <1>2, <2>1 DEF PlanOf, RotateDelete, IInv, TypeOK, Usable
  <2>5. calls' = [calls EXCEPT ![c] = new]
    BY <1>2, <2>2
  <2> HIDE DEF new
  <2> QED
    BY <1>2, <2>1, <2>3, <2>4, <2>5, GatewayStep DEF RotateDelete
<1> QED
  BY <1>1, <1>2 DEF RotateDelete

LEMMA RotateCreateKept ==
  ASSUME IInv, NEW c \in Calls, RotateCreate(c)
  PROVE  Kept
<1>1. CASE CreateExternal(c, calls[c].old, calls[c].stamp)
  <2>1. calls[c].old \in KeyIds /\ calls[c].stamp \in 0 .. MaxStarts
    BY CallShape DEF RotateCreate, IInv, TypeOK
  <2>2. gateway[calls[c].old] = "none" /\ calls[c].old \in Usable
    BY DEF RotateCreate, IInv, Planned, PlanOf
  <2> QED
    BY <1>1, <2>1, <2>2, CreateExternalKept DEF RotateCreate, Holding
<1>2. CASE UNCHANGED gateway /\ calls' = [calls EXCEPT ![c] = Idle]
  BY <1>2, GiveUpStep DEF RotateCreate
<1> QED
  BY <1>1, <1>2 DEF RotateCreate

\* The index lets the new key become ACTIVE next to none but the one revoked
\* with it, which OmniRoute has deleted.
LEMMA InsertKept ==
  ASSUME IInv, NEW c \in Calls, Insert(c)
  PROVE  Kept
<1> DEFINE k == calls[c].key
           old == calls[c].old
           stamp == calls[c].stamp
           revoked == [l \in KeyIds |->
                         IF l = old THEN [keys[l] EXCEPT !.status = "REVOKED"] ELSE keys[l]]
<1>1. /\ k \in KeyIds /\ old \in KeyIds \cup {None} /\ stamp \in 0 .. MaxStarts
      /\ keys[k].status = "none"
      /\ old # None => gateway[old] = "none" /\ old \in Usable
      /\ Holding(calls[c])
  BY CallShape DEF Insert, IInv, TypeOK, Planned, PlanOf, Holding
<1>2. CASE ~MayBeActive(k, ActiveKeys \ {old})
  BY <1>2, GiveUpStep DEF Insert
<1>3. CASE MayBeActive(k, ActiveKeys \ {old})
  <2> DEFINE row(l) == IF l = k THEN [status |-> "ACTIVE", created |-> stamp]
                       ELSE IF l = old THEN [keys[l] EXCEPT !.status = "REVOKED"] ELSE keys[l]
  <2>1. keys' = [l \in KeyIds |-> row(l)]
    BY <1>1, <1>3 DEF Insert
  <2>2. ASSUME NEW l \in KeyIds
        PROVE  /\ row(l) \in Row
               /\ row(l).status = IF l = k THEN "ACTIVE"
                                  ELSE IF l = old THEN "REVOKED" ELSE keys[l].status
    <3>1. keys[l] \in Row
      BY DEF IInv, TypeOK
    <3> QED
      BY <1>1, <3>1 DEF Row, KeyStatuses
  <2> HIDE DEF row
  <2>3. keys' \in [KeyIds -> Row]
    BY <2>1, <2>2
  <2>4. \A l \in KeyIds : keys'[l].status = IF l = k THEN "ACTIVE"
                                  ELSE IF l = old THEN "REVOKED" ELSE keys[l].status
    BY <2>1, <2>2
  <2> HIDE DEF k, old, stamp
  <2>5. OneActive'
    BY <1>3, <2>4 DEF OneActive, ActiveKeys, MayBeActive
  <2>6. RevokedIsGone'
    BY <1>1, <2>4, ApiKeysAssumption DEF RevokedIsGone, IInv, Insert
  <2>7. Commits
    BY <1>1, <2>4 DEF Commits
  <2>8. \A l \in KeyIds : keys[l].status # "none" => keys'[l].status # "none"
    BY <2>4
  <2> QED
    BY <1>1, <2>3, <2>5, <2>6, <2>7, <2>8, CommitStep DEF Insert, IInv, TypeOK
<1> QED
  BY <1>2, <1>3

\* A call about to set a status that OmniRoute has been told.
LEMMA AskedKept ==
  ASSUME IInv, NEW c \in Calls, NEW k \in Current, NEW status \in KeyStatuses,
         NEW g \in {"none", "enabled", "disabled"}, UserFree,
         gateway' = [gateway EXCEPT ![k] = g],
         calls' = [calls EXCEPT ![c] = [at |-> "set", key |-> k, status |-> status]],
         status = "REVOKED" => g = "none",
         status = "SUSPENDED" => keys[k].status = "ACTIVE",
         status = "ACTIVE" => keys[k].status = "SUSPENDED" /\ balance > 0,
         UNCHANGED <<keys, usedBy, billed, posted, balance, starts>>
  PROVE  Kept
<1> DEFINE new == [at |-> "set", key |-> k, status |-> status]
<1>1. k \in KeyIds /\ k \in Usable /\ keys[k].status # "REVOKED"
  BY DEF Current, Usable
<1>2. new \in CallState
  BY <1>1 DEF CallState
<1>3. PlanOf(new)'
  BY <1>1 DEF PlanOf, IInv, TypeOK, Usable
<1>4. calls' = [calls EXCEPT ![c] = new]
  OBVIOUS
<1> HIDE DEF new
<1> QED
  BY <1>1, <1>2, <1>3, <1>4, GatewayStep

LEMMA AskingKept ==
  ASSUME IInv, NEW c \in Calls, Revoke(c) \/ Suspend(c) \/ Resume(c)
  PROVE  Kept
<1>1. CASE Revoke(c)
  BY <1>1, AskedKept DEF Revoke, KeyStatuses
<1>2. CASE Suspend(c)
  BY <1>2, AskedKept DEF Suspend, KeyStatuses
<1>3. CASE Resume(c)
  <2>1. CASE UNCHANGED gateway /\ calls' = [calls EXCEPT ![c] = Idle]
    BY <1>3, <2>1, GiveUpStep DEF Resume
  <2>2. ASSUME NEW k \in Current, balance > 0, keys[k].status = "SUSPENDED",
               gateway' = [gateway EXCEPT ![k] = "enabled"],
               calls' = [calls EXCEPT ![c] = [at |-> "set", key |-> k, status |-> "ACTIVE"]]
        PROVE  Kept
    BY <1>3, <2>2, AskedKept DEF Resume, KeyStatuses
  <2> QED
    BY <1>3, <2>1, <2>2 DEF Resume
<1> QED
  BY <1>1, <1>2, <1>3

LEMMA AskResumeKept ==
  ASSUME IInv, NEW c \in Calls, AskResume(c)
  PROVE  Kept
<1> DEFINE new == [at |-> "resume"]
<1>1. new \in CallState /\ ~Holding(new) /\ PlanOf(new)'
  BY DEF CallState, Holding, PlanOf
<1>2. calls' = [calls EXCEPT ![c] = new] /\ starts' \in 0 .. MaxStarts
  BY DEF AskResume, IInv, TypeOK
<1> HIDE DEF new
<1> QED
  BY <1>1, <1>2, QuietStep DEF AskResume

LEMMA SetKept ==
  ASSUME IInv, NEW c \in Calls, Set(c)
  PROVE  Kept
<1> DEFINE k == calls[c].key
           status == calls[c].status
<1>1. /\ k \in KeyIds /\ status \in KeyStatuses /\ Holding(calls[c])
      /\ status = "REVOKED" => gateway[k] = "none"
      /\ status = "ACTIVE"  => balance > 0
  BY CallShape DEF Set, IInv, TypeOK, Planned, PlanOf, Holding
<1>2. CASE ~(status = "ACTIVE" => MayBeActive(k, ActiveKeys))
  BY <1>2, GiveUpStep DEF Set
<1>3. CASE status = "ACTIVE" => MayBeActive(k, ActiveKeys)
  <2>1. keys' = [keys EXCEPT ![k].status = status]
    BY <1>3 DEF Set
  <2> HIDE DEF k, status
  <2>2. keys \in [KeyIds -> Row]
    BY DEF IInv, TypeOK
  <2>3. /\ keys' \in [KeyIds -> Row]
        /\ \A l \in KeyIds : keys'[l].status = IF l = k THEN status ELSE keys[l].status
    BY <1>1, <2>1, <2>2 DEF Row
  <2>4. OneActive'
    BY <1>3, <2>3 DEF OneActive, ActiveKeys, MayBeActive, IInv
  <2>5. RevokedIsGone'
    BY <1>1, <2>3 DEF RevokedIsGone, IInv, Set
  <2>6. Commits
    BY <1>1, <2>3 DEF Commits
  <2>7. \A l \in KeyIds : keys[l].status # "none" => keys'[l].status # "none"
    BY <1>1, <2>3 DEF KeyStatuses
  <2> QED
    BY <1>1, <2>3, <2>4, <2>5, <2>6, <2>7, CommitStep DEF Set, IInv, TypeOK
<1> QED
  BY <1>2, <1>3

LEMMA UseKept ==
  ASSUME IInv, NEW e \in Events, NEW k \in KeyIds, Use(e, k)
  PROVE  Kept
<1>1. usedBy' \in [Events -> KeyIds \cup {None}]
  BY DEF Use, IInv, TypeOK
<1>2. \A d \in Events : usedBy[d] # None => usedBy'[d] # None
  BY ApiKeysAssumption DEF Use, IInv, TypeOK
<1>3. TypeOK'
  BY <1>1, <1>2 DEF Use, IInv, TypeOK
<1>4. Excluded'
  BY DEF Use, IInv, Excluded
<1>5. Planned'
  <2> SUFFICES ASSUME NEW c \in Calls PROVE PlanOf(calls[c])'
    BY DEF Planned
  <2>1. PlanOf(calls[c])
    BY DEF IInv, Planned
  <2>2. calls[c].at \in {"resolved", "billing"} => calls[c].event \in Events
    BY CallShape DEF IInv, TypeOK
  <2> QED
    BY <1>2, <2>1, <2>2 DEF Use, PlanOf, Usable
<1>6. UsedHasRow'
  BY DEF Use, IInv, TypeOK, UsedHasRow
<1> QED
  BY <1>3, <1>4, <1>5, <1>6, KeysStand DEF Use, Kept, IInv

LEMMA ResolveKept ==
  ASSUME IInv, NEW c \in Calls, NEW e \in Events, Resolve(c, e)
  PROVE  Kept
<1>1. usedBy[e] \in KeyIds
  BY DEF Resolve, IInv, TypeOK
<1>2. keys[usedBy[e]] \in Row /\ keys[usedBy[e]].status # "none"
  BY <1>1 DEF Resolve, IInv, TypeOK, UsedHasRow
<1>3. PICK status \in KeyStatuses : status = keys[usedBy[e]].status
  BY <1>2 DEF Row
<1> DEFINE new == [at |-> "resolved", event |-> e, status |-> status]
<1>4. new \in CallState
  BY <1>3 DEF CallState
<1>5. ~Holding(new) /\ PlanOf(new)'
  BY DEF Resolve, Holding, PlanOf
<1>6. calls' = [calls EXCEPT ![c] = new] /\ starts' \in 0 .. MaxStarts
  BY <1>3 DEF Resolve, IInv, TypeOK
<1> HIDE DEF new
<1> QED
  BY <1>4, <1>5, <1>6, QuietStep DEF Resolve

LEMMA BillKept ==
  ASSUME IInv, NEW c \in Calls, Bill(c)
  PROVE  Kept
<1>1. PICK e \in Events : e = calls[c].event
  BY CallShape DEF Bill, IInv, TypeOK
<1>2. PICK k \in KeyIds : k = usedBy[e] /\ k # None
  BY <1>1, ApiKeysAssumption DEF Bill, IInv, TypeOK, Planned, PlanOf
<1>3. CASE /\ calls' = [calls EXCEPT ![c] = Idle]
           /\ UNCHANGED <<gateway, billed, balance>>
  BY <1>3, GiveUpStep DEF Bill
<1>4. CASE /\ billed' = billed \cup {e}
           /\ balance' = balance - Cost[e]
           /\ calls' = [calls EXCEPT ![c] = Idle]
           /\ UNCHANGED gateway
  <2>1. Idle \in CallState /\ PlanOf(Idle)' /\ ~Holding(Idle)
    BY IdlePlan DEF CallState
  <2>2. balance' \in Int
    BY <1>1, <1>4, ApiKeysAssumption DEF IInv, TypeOK
  <2>3. billed' \subseteq {d \in Events : usedBy[d] # None}
    BY <1>2, <1>4 DEF IInv, TypeOK
  <2>4. posted' \subseteq Postings
    BY DEF Bill, IInv, TypeOK
  <2> QED
    BY <1>4, <2>1, <2>2, <2>3, <2>4, PostingStep DEF Bill
<1>5. CASE /\ e \notin billed /\ Cost[e] > 0 /\ balance - Cost[e] <= 0
           /\ gateway' = [gateway EXCEPT ![k] = "disabled"]
           /\ calls' = [calls EXCEPT ![c] = [at |-> "billing", event |-> e]]
           /\ UNCHANGED <<billed, balance>>
  <2> DEFINE new == [at |-> "billing", event |-> e]
  <2>1. new \in CallState
    BY <1>1 DEF CallState
  <2>2. PlanOf(new)'
    BY <1>2, <1>5 DEF PlanOf, Bill
  <2>3. calls' = [calls EXCEPT ![c] = new]
    BY <1>5
  <2> HIDE DEF new
  <2> QED
    BY <1>2, <1>5, <2>1, <2>2, <2>3, GatewayStep DEF Bill
<1> QED
  BY <1>1, <1>2, <1>3, <1>4, <1>5 DEF Bill

\* The key of the event is suspended if it is still ACTIVE.
LEMMA BillAndSuspendKept ==
  ASSUME IInv, NEW c \in Calls, BillAndSuspend(c)
  PROVE  Kept
<1> DEFINE e == calls[c].event
           k == usedBy[e]
           suspended == IF keys[k].status = "ACTIVE" THEN "SUSPENDED" ELSE keys[k].status
<1>1. e \in Events /\ k # None /\ Holding(calls[c])
  BY CallShape DEF BillAndSuspend, IInv, TypeOK, Planned, PlanOf, Holding
<1>2. k \in KeyIds
  BY <1>1 DEF IInv, TypeOK
<1>3. keys' = [keys EXCEPT ![k].status = suspended]
  BY <1>2 DEF BillAndSuspend, IInv, TypeOK
<1>4. balance' \in Int
  BY <1>1, ApiKeysAssumption DEF BillAndSuspend, IInv, TypeOK
<1>5. billed' \subseteq {d \in Events : usedBy[d] # None}
  BY <1>1 DEF BillAndSuspend, IInv, TypeOK
<1> HIDE DEF k, e
<1>6. keys \in [KeyIds -> Row]
  BY DEF IInv, TypeOK
<1>7. suspended \in KeyStatuses \cup {"none"} /\ suspended # "ACTIVE"
  BY <1>2, <1>6 DEF Row, KeyStatuses
<1>8. /\ suspended = "REVOKED" => keys[k].status = "REVOKED"
      /\ suspended = "none" => keys[k].status = "none"
  OBVIOUS
<1> HIDE DEF suspended
<1>9. /\ keys' \in [KeyIds -> Row]
      /\ \A l \in KeyIds : keys'[l].status = IF l = k THEN suspended ELSE keys[l].status
  BY <1>2, <1>3, <1>6, <1>7 DEF Row
<1>10. OneActive'
  BY <1>7, <1>9 DEF OneActive, ActiveKeys, IInv
<1>11. RevokedIsGone'
  BY <1>8, <1>9 DEF RevokedIsGone, IInv, BillAndSuspend
<1>12. Commits
  BY <1>7, <1>9 DEF Commits
<1>13. \A l \in KeyIds : keys[l].status # "none" => keys'[l].status # "none"
  BY <1>8, <1>9
<1> QED
  BY <1>1, <1>4, <1>5, <1>9, <1>10, <1>11, <1>12, <1>13, CommitStep DEF BillAndSuspend

LEMMA PostCreditKept ==
  ASSUME IInv, NEW c \in Calls, NEW t \in Postings, PostCredit(c, t)
  PROVE  Kept
<1> PICK new : new = IF t \in Payments /\ balance <= 0 /\ balance' > 0
                  THEN [at |-> "resume"] ELSE Idle
  OBVIOUS
<1>1. [at |-> "resume"] \in CallState /\ Idle \in CallState
  BY DEF CallState
<1>2. ~Holding([at |-> "resume"]) /\ PlanOf([at |-> "resume"])'
  BY DEF Holding, PlanOf
<1>3. new \in CallState /\ ~Holding(new) /\ PlanOf(new)'
  BY <1>1, <1>2, IdlePlan
<1>4. calls' = [calls EXCEPT ![c] = new]
  BY DEF PostCredit
<1>5. balance' \in Int
  BY ApiKeysAssumption DEF PostCredit, IInv, TypeOK
<1>6. /\ posted' \subseteq Postings
      /\ billed' \subseteq {d \in Events : usedBy[d] # None}
  BY DEF PostCredit, IInv, TypeOK
<1> QED
  BY <1>3, <1>4, <1>5, <1>6, PostingStep DEF PostCredit

LEMMA CrashKept ==
  ASSUME IInv, NEW c \in Calls, Crash(c)
  PROVE  Kept
BY GiveUpStep DEF Crash

LEMMA NextKept ==
  ASSUME IInv, Next
  PROVE  Kept
<1>1. ASSUME NEW c \in Calls, Step(c) PROVE Kept
  BY <1>1, CreateKept, RotateDeleteKept, RotateCreateKept, InsertKept, AskingKept,
     SetKept, BillKept, BillAndSuspendKept DEF Step
<1> QED
  BY <1>1, StartKept, AskingKept, AskResumeKept, ResolveKept, PostCreditKept,
     CrashKept, UseKept DEF Next

LEMMA StutterKept ==
  ASSUME IInv, UNCHANGED vars
  PROVE  Kept
BY DEF vars, Kept, IInv, Commits, TypeOK, Excluded, Planned, PlanOf, OneActive,
       RevokedIsGone, UsedHasRow, ActiveKeys, Usable

LEMMA InitInv == Init => IInv
<1> SUFFICES ASSUME Init PROVE IInv
  OBVIOUS
<1>1. TypeOK
  BY ApiKeysAssumption DEF Init, TypeOK, Row, CallState
<1>2. Excluded /\ Planned
  BY DEF Init, Excluded, Planned, PlanOf, Holding, Idle
<1>3. OneActive /\ RevokedIsGone /\ UsedHasRow
  BY DEF Init, OneActive, RevokedIsGone, UsedHasRow, ActiveKeys
<1> QED
  BY <1>1, <1>2, <1>3 DEF IInv

-----------------------------------------------------------------------------
(* The theorems.                                                           *)

\* The invariant holds however many keys, events and calls there are: a call
\* that is about to commit is alone, and what it saw is still so.
THEOREM ApiKeysInvariant == Spec => []IInv
<1>1. IInv /\ [Next]_vars => IInv'
  BY NextKept, StutterKept DEF Kept
<1> QED
  BY InitInv, <1>1, PTL DEF Spec

\* The account's rows, OmniRoute's keys and the calls stay within their types,
\* and only events of a known key are billed.
THEOREM ApiKeysTypes == Spec => []TypeOK
<1>1. IInv => TypeOK
  BY DEF IInv
<1> QED
  BY ApiKeysInvariant, <1>1, PTL

\* An account never has two ACTIVE keys: creation, rotation and resume all
\* commit past the partial unique index.
THEOREM OneKey == Spec => []OneActiveKey
<1>1. IInv => OneActiveKey
  <2> SUFFICES ASSUME IInv PROVE Cardinality(ActiveKeys) <= 1
    BY DEF OneActiveKey
  <2>1. CASE ActiveKeys = {}
    BY <2>1, FS_EmptySet
  <2>2. CASE ActiveKeys # {}
    <3>1. PICK k \in ActiveKeys : TRUE
      BY <2>2
    <3>2. ActiveKeys = {k}
      BY <3>1 DEF IInv, OneActive
    <3>3. Cardinality({k}) = 1
      BY FS_Singleton
    <3> QED
      BY <3>2, <3>3
  <2> QED
    BY <2>1, <2>2
<1> QED
  BY ApiKeysInvariant, <1>1, PTL

\* A key shown as REVOKED serves no request: OmniRoute deleted it before the
\* row was written, and nobody enables a revoked or a deleted key.
THEOREM RevokedGone == Spec => []RevokedIsGone
<1>1. IInv => RevokedIsGone
  BY DEF IInv
<1> QED
  BY ApiKeysInvariant, <1>1, PTL

\* A resume commits over a positive balance although it read the balance
\* without locking it: no debit gets past the user's row in between.
THEOREM ResumeOverCredit == Spec => ResumeNeedsCredit
<1>1. IInv /\ [Next]_vars =>
        [\A k \in KeyIds :
           keys[k].status = "SUSPENDED" /\ keys'[k].status = "ACTIVE"
             => balance > 0]_vars
  BY NextKept DEF Kept, Commits
<1> QED
  BY ApiKeysInvariant, <1>1, PTL DEF Spec, ResumeNeedsCredit

-----------------------------------------------------------------------------
(* The refinement.  Six statements change the account; of the others it    *)
(* sees nothing.                                                           *)

\* A step of the account, or none.
AccountStep == [Abs!Next]_(Abs!vars)

LEMMA Unseen ==
  ASSUME UNCHANGED <<keys, usedBy, billed, posted, balance>>
  PROVE  AccountStep
BY DEF AccountStep, Abs!vars, KeyStatus

LEMMA Statuses ==
  /\ Abs!Active = ActiveKeys
  /\ \A k \in KeyIds : KeyStatus[k] = keys[k].status
  /\ \A k \in Usable : Abs!Usable(k)
BY DEF Abs!Active, Abs!Usable, ActiveKeys, Usable, KeyStatus

\* One key of the account gets another status.
LEMMA StatusStep ==
  ASSUME IInv, NEW k \in KeyIds, NEW status \in KeyStatuses,
         keys' = [keys EXCEPT ![k].status = status]
  PROVE  KeyStatus' = [KeyStatus EXCEPT ![k] = status]
<1>1. keys \in [KeyIds -> Row]
  BY DEF IInv, TypeOK
<1>2. \A l \in KeyIds : keys'[l].status = IF l = k THEN status ELSE keys[l].status
  BY <1>1 DEF Row
<1> QED
  BY <1>2 DEF KeyStatus

\* The key that is inserted was never given out, and the old one, which
\* OmniRoute has deleted, is still in use.
LEMMA InsertIssues ==
  ASSUME IInv, NEW c \in Calls, Insert(c)
  PROVE  AccountStep
<1> DEFINE k == calls[c].key
           old == calls[c].old
           revoked == [l \in KeyIds |->
                         IF l = old THEN [keys[l] EXCEPT !.status = "REVOKED"] ELSE keys[l]]
<1>1. /\ k \in KeyIds /\ old \in KeyIds \cup {None}
      /\ keys[k].status = "none"
      /\ old # None => old \in Usable
  BY CallShape DEF Insert, IInv, TypeOK, Planned, PlanOf
<1>2. CASE ~MayBeActive(k, ActiveKeys \ {old})
  BY <1>2, Unseen DEF Insert
<1>3. CASE MayBeActive(k, ActiveKeys \ {old})
  <2>1. keys' = [revoked EXCEPT ![k] = [status |-> "ACTIVE", created |-> calls[c].stamp]]
    BY <1>3 DEF Insert
  <2>2. keys \in [KeyIds -> Row]
    BY DEF IInv, TypeOK
  <2>3. \A l \in KeyIds : keys'[l].status = IF l = k THEN "ACTIVE"
                                  ELSE IF l = old THEN "REVOKED" ELSE keys[l].status
    BY <1>1, <2>1, <2>2 DEF Row
  <2> HIDE DEF k, old, revoked
  <2>4. KeyStatus' = [l \in KeyIds |-> IF l = k THEN "ACTIVE"
                                  ELSE IF l = old THEN "REVOKED" ELSE KeyStatus[l]]
    BY <2>3 DEF KeyStatus
  <2>5. ActiveKeys \subseteq {old}
    BY <1>1, <1>3 DEF MayBeActive, ActiveKeys
  <2>6. Abs!Issue(k, old)
    BY <1>1, <2>4, <2>5, Statuses DEF Abs!Issue, Insert
  <2> QED
    BY <1>1, <2>6 DEF Abs!Next, AccountStep
<1> QED
  BY <1>2, <1>3

LEMMA SetChanges ==
  ASSUME IInv, NEW c \in Calls, Set(c)
  PROVE  AccountStep
<1> DEFINE k == calls[c].key
           status == calls[c].status
<1>1. /\ k \in KeyIds /\ status \in KeyStatuses
      /\ status = "REVOKED" => k \in Usable
      /\ status = "SUSPENDED" => keys[k].status = "ACTIVE"
      /\ status = "ACTIVE" => keys[k].status = "SUSPENDED" /\ balance > 0
  BY CallShape DEF Set, IInv, TypeOK, Planned, PlanOf
<1>2. CASE ~(status = "ACTIVE" => MayBeActive(k, ActiveKeys))
  BY <1>2, Unseen DEF Set
<1>3. CASE status = "ACTIVE" => MayBeActive(k, ActiveKeys)
  <2>1. keys' = [keys EXCEPT ![k].status = status]
    BY <1>3 DEF Set
  <2> HIDE DEF k, status
  <2>2. KeyStatus' = [KeyStatus EXCEPT ![k] = status]
    BY <1>1, <2>1, StatusStep
  <2>3. UNCHANGED <<usedBy, billed, posted, balance>>
    BY DEF Set
  <2>4. CASE status = "REVOKED"
    BY <1>1, <2>2, <2>3, <2>4, Statuses DEF Abs!Revoke, Abs!Next, AccountStep
  <2>5. CASE status = "SUSPENDED"
    BY <1>1, <2>2, <2>3, <2>5, Statuses DEF Abs!Suspend, ActiveKeys, Abs!Next, AccountStep
  <2>6. CASE status = "ACTIVE"
    <3>1. ActiveKeys = {}
      BY <1>1, <1>3, <2>6 DEF MayBeActive, ActiveKeys
    <3> QED
      BY <1>1, <2>2, <2>3, <2>6, <3>1, Statuses DEF Abs!Resume, Abs!Next, AccountStep
  <2> QED
    BY <1>1, <2>4, <2>5, <2>6 DEF KeyStatuses
<1> QED
  BY <1>2, <1>3

\* OmniRoute serves no key that is revoked or has no row.
LEMMA UseIsUse ==
  ASSUME IInv, NEW e \in Events, NEW k \in KeyIds, Use(e, k)
  PROVE  AccountStep
<1>1. k \in Usable
  BY DEF Use, IInv, TypeOK, Row, KeyStatuses, RevokedIsGone, Usable
<1>2. UNCHANGED KeyStatus
  BY DEF Use, KeyStatus
<1> QED
  BY <1>1, <1>2, Statuses DEF Use, Abs!Use, Abs!Next, AccountStep

LEMMA BillBills ==
  ASSUME IInv, NEW c \in Calls, Bill(c)
  PROVE  AccountStep
<1>1. PICK e \in Events : e = calls[c].event
  BY CallShape DEF Bill, IInv, TypeOK
<1>2. usedBy[e] # None
  BY <1>1 DEF Bill, IInv, Planned, PlanOf
<1>3. CASE UNCHANGED <<billed, balance>>
  BY <1>3, Unseen DEF Bill
<1>4. CASE e \notin billed /\ billed' = billed \cup {e} /\ balance' = balance - Cost[e]
  <2>1. UNCHANGED <<KeyStatus, usedBy, posted>>
    BY DEF Bill, KeyStatus
  <2> QED
    BY <1>2, <1>4, <2>1 DEF Abs!Bill, Abs!Next, AccountStep
<1> QED
  BY <1>1, <1>3, <1>4 DEF Bill

\* The key that was ACTIVE when it was read is the only one suspended, and
\* the account is still overdrawn by the debit.
LEMMA SuspendingBills ==
  ASSUME IInv, NEW c \in Calls, BillAndSuspend(c)
  PROVE  AccountStep
<1>1. PICK e \in Events : e = calls[c].event
  BY CallShape DEF BillAndSuspend, IInv, TypeOK
<1>2. usedBy[e] # None /\ e \notin billed /\ Cost[e] > 0 /\ balance - Cost[e] <= 0
  BY <1>1 DEF BillAndSuspend, IInv, Planned, PlanOf
<1>3. PICK k \in KeyIds : k = usedBy[e]
  BY <1>2 DEF IInv, TypeOK
<1>4. /\ billed' = billed \cup {e} /\ balance' = balance - Cost[e]
      /\ keys' = [keys EXCEPT ![k].status = IF @ = "ACTIVE" THEN "SUSPENDED" ELSE @]
      /\ UNCHANGED <<usedBy, posted>>
  BY <1>1, <1>3 DEF BillAndSuspend
<1>5. keys \in [KeyIds -> Row]
  BY DEF IInv, TypeOK
<1>6. CASE keys[k].status = "ACTIVE"
  <2>1. keys' = [keys EXCEPT ![k].status = "SUSPENDED"]
    BY <1>4, <1>5, <1>6
  <2>2. KeyStatus' = [KeyStatus EXCEPT ![k] = "SUSPENDED"]
    BY <2>1, StatusStep DEF KeyStatuses
  <2>3. k \in Abs!Active
    BY <1>6, Statuses DEF ActiveKeys
  <2>4. Abs!Bill(e)
    BY <1>2, <1>3, <1>4, <2>2, <2>3 DEF Abs!Bill
  <2> QED
    BY <2>4 DEF Abs!Next, AccountStep
<1>7. CASE keys[k].status # "ACTIVE"
  <2>1. \A l \in KeyIds : keys'[l].status = keys[l].status
    BY <1>4, <1>5, <1>7 DEF Row
  <2>2. UNCHANGED KeyStatus
    BY <2>1 DEF KeyStatus
  <2>3. Abs!Bill(e)
    BY <1>2, <1>4, <2>2 DEF Abs!Bill
  <2> QED
    BY <2>3 DEF Abs!Next, AccountStep
<1> QED
  BY <1>6, <1>7

LEMMA PostPosts ==
  ASSUME NEW c \in Calls, NEW t \in Postings, PostCredit(c, t)
  PROVE  AccountStep
<1>1. UNCHANGED KeyStatus
  BY DEF PostCredit, KeyStatus
<1> QED
  BY <1>1 DEF PostCredit, Abs!Post, Abs!Next, AccountStep

LEMMA NextImplements ==
  ASSUME IInv, [Next]_vars
  PROVE  AccountStep
<1>1. CASE UNCHANGED vars
  BY <1>1, Unseen DEF vars
<1>2. ASSUME NEW c \in Calls, Step(c) PROVE AccountStep
  <2>1. CASE Create(c) \/ RotateDelete(c) \/ RotateCreate(c) \/ Resume(c)
    BY <2>1, Unseen DEF Create, RotateDelete, RotateCreate, Resume
  <2> QED
    BY <1>2, <2>1, InsertIssues, SetChanges, BillBills, SuspendingBills DEF Step
<1>3. ASSUME NEW c \in Calls,
             \/ \E op \in {"create", "rotate"} : Start(c, op)
             \/ Revoke(c) \/ Suspend(c) \/ AskResume(c) \/ Crash(c)
             \/ \E e \in Events : Resolve(c, e)
      PROVE  AccountStep
  BY <1>3, Unseen DEF Start, Revoke, Suspend, AskResume, Crash, Resolve
<1> QED
  BY <1>1, <1>2, <1>3, UseIsUse, PostPosts DEF Next

LEMMA InitImplements == Init => Abs!Init
BY DEF Init, Abs!Init, KeyStatus

\* Whatever is asked of OmniRoute, read without a lock, rolled back or cut
\* short, the rows and bills are those of an account whose keys are issued,
\* suspended, resumed over credit and revoked for good in single steps, and
\* whose uses and postings count once.
THEOREM AccountImplemented == Spec => ImplementsAccount
<1>1. IInv /\ [Next]_vars => [Abs!Next]_(Abs!vars)
  BY NextImplements DEF AccountStep
<1>2. Spec => Abs!Spec
  BY ApiKeysInvariant, InitImplements, <1>1, PTL DEF Spec, Abs!Spec
<1> QED
  BY <1>2 DEF ImplementsAccount

\* A revoked key is never shown as active or suspended again: no stale resume,
\* suspension or bill that was under way when it was revoked brings it back.
RevokedForGood ==
  [][\A k \in KeyIds : keys[k].status = "REVOKED" => keys'[k].status = "REVOKED"]_vars

\* Every step of the account keeps what is revoked, and so every step of the
\* requests that implement it.
THEOREM RevocationIsFinal == Spec => RevokedForGood
<1> DEFINE Final == \A k \in KeyIds : keys[k].status = "REVOKED" => keys'[k].status = "REVOKED"
<1>1. ASSUME IInv, [Next]_vars PROVE Final
  <2>1. AccountStep
    BY <1>1, NextImplements
  <2> SUFFICES ASSUME NEW k \in KeyIds, KeyStatus[k] = "REVOKED", Abs!Next
               PROVE  KeyStatus'[k] = "REVOKED"
    BY <2>1 DEF AccountStep, Abs!vars, KeyStatus
  <2>2. KeyStatus = [l \in KeyIds |-> KeyStatus[l]]
    BY DEF KeyStatus
  <2> QED
    BY <2>2 DEF Abs!Next, Abs!Revoke, Abs!Suspend, Abs!Resume, Abs!Issue, Abs!Use, Abs!Bill,
                Abs!Post, Abs!Usable, Abs!Active
<1>2. IInv /\ [Next]_vars => [Final]_vars
  BY <1>1
<1> QED
  BY ApiKeysInvariant, <1>2, PTL DEF Spec, RevokedForGood

=============================================================================
