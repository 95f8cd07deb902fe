--------------------------- MODULE PaymentsProofs ---------------------------
(***************************************************************************)
(* Proofs about Payments for any payments, calls, admins, references and   *)
(* bank transactions: the types, that an automatic credit has a provider   *)
(* that confirms the payment, and that two paid payments never share a     *)
(* bank transaction or an admin's reference.                               *)
(*                                                                         *)
(* The three rest on one invariant (Known).  PAID is final at the          *)
(* provider, so that a snapshot on its way to the row, however old, is     *)
(* still true of the provider (True, ProviderTrue); a call has its row to  *)
(* itself while it holds the row's lock (Alone), so that what it saw there *)
(* is still so when it writes (CallsSeen); a row has what its status       *)
(* promises (RowsKnown); and until the answer to its creation is attached, *)
(* a payment has been seen by callbacks of closed records only             *)
(* (EarlyIsClosed).                                                        *)
(*                                                                         *)
(* The second part proves that no payment is credited twice unless it      *)
(* shares its bank transaction with another, and so none at all when the   *)
(* provider matches no transaction to two payments.  The last part proves  *)
(* that Payments implements Purchases.                                     *)
(***************************************************************************)
EXTENDS Payments, FiniteSetTheorems, TLAPS

-----------------------------------------------------------------------------
(* The invariant.                                                          *)

\* A call that created the row; one that applies a snapshot; one that holds
\* the row's lock.
Creates(call, p) == call.at \in {"create", "attach", "cancel"} /\ call.payment = p
Applies(call, p) == call.at \in {"apply", "applying"} /\ call.payment = p
Holds(call, p)   == call.at \in {"applying", "approving"} /\ call.payment = p

\* The provider never goes back to PENDING or to NEEDS_REVIEW.
Closed == {"PAID", "EXPIRED"}

Review == {"pending_review", "needs_review"}

\* The provider will not confirm p, or not alone.
Tainted(p) == (provider[p] # None /\ ~provider[p].exact) \/ Shared(p)

\* What an old snapshot still says: PAID is final, as are the transaction that
\* came with it and an amount that is not the package's.
True(s) ==
  LET now == provider[s.payment] IN
  /\ now # None
  /\ s.status = "PAID" => s = now
  /\ s.status # "PAID" => s.txn = None
  /\ s.status = "PENDING" => s.exact
  /\ s.status \in Closed => now.status \in Closed
  /\ ~s.exact => ~now.exact

ProviderTrue ==
  /\ \A p \in Payments : provider[p] # None => provider[p].payment = p /\ True(provider[p])
  /\ \A s \in callbacks : True(s) /\ s.status \in Closed

\* What a call in progress has seen is still so.
SeenBy(call) ==
  LET p == call.payment IN
  /\ call.at \in {"create", "attach", "cancel"} => rows[p].status # "absent"
  /\ call.at = "create" => provider[p] = None
  /\ call.at = "attach" => provider[p] # None
  /\ call.at \in {"apply", "applying"} => call.snap.payment = p /\ True(call.snap)
  /\ call.at = "applying" /\ call.dup => Shared(p)
  /\ call.at = "approving" => rows[p].status \in Review

CallsSeen == \A c \in Calls : SeenBy(calls[c])

\* One call creates a payment, one at a time holds its row.
Alone ==
  \A c, d \in Calls, p \in Payments :
    \/ Creates(calls[c], p) /\ Creates(calls[d], p)
    \/ Holds(calls[c], p) /\ Holds(calls[d], p)
    => c = d

\* Before the answer to its creation is attached, a payment is known to SLAI
\* by callbacks only, which are sent for closed records.
Early(p) == \E c \in Calls : Creates(calls[c], p)

EarlyIsClosed ==
  \A p \in Payments :
    Early(p) =>
      /\ rows[p].ext # None => provider[p].status \in Closed
      /\ \A c \in Calls : Applies(calls[c], p) => calls[c].snap.status \in Closed

RowsKnown ==
  \A p \in Payments :
    /\ rows[p].status = "absent" => provider[p] = None
    /\ rows[p].ext # None => rows[p].ext = p /\ provider[p] # None
    /\ rows[p].txn # None => provider[p] # None /\ provider[p].txn = rows[p].txn

Known == TypeOK /\ ProviderTrue /\ CallsSeen /\ Alone /\ RowsKnown /\ EarlyIsClosed

-----------------------------------------------------------------------------
(* What a call holds at each of its steps.                                 *)

LEMMA CallShape ==
  ASSUME NEW call \in CallState
  PROVE  /\ call.at # "idle" => call.payment \in Payments
         /\ call.at \in {"apply", "applying"} => call.snap \in Snapshot
         /\ call.at = "applying" => call.dup \in BOOLEAN
         /\ call.at = "approving" => call.admin \in Admins /\ call.ref \in Refs
BY DEF CallState, Idle

\* A call that gives up has seen nothing and holds nothing.
LEMMA IdleSees ==
  /\ Idle \in CallState
  /\ SeenBy(Idle)'
  /\ \A p \in Payments : ~Creates(Idle, p) /\ ~Applies(Idle, p) /\ ~Holds(Idle, p)
BY DEF CallState, Idle, SeenBy, Creates, Applies, Holds

LEMMA MappedShape ==
  ASSUME NEW s \in {"PENDING", "PAID", "EXPIRED", "NEEDS_REVIEW"}
  PROVE  /\ Mapped(s) \in {"paid", "expired", "pending_payment", "needs_review"}
         /\ Mapped(s) = "paid" <=> s = "PAID"
         /\ Mapped(s) = "needs_review" <=> s = "NEEDS_REVIEW"
BY DEF Mapped

-----------------------------------------------------------------------------
(* What stands.                                                            *)

\* How the provider's records change.
Advances ==
  \A p \in Payments :
    \/ provider'[p] = provider[p]
    \/ provider[p] = None
    \/ /\ provider[p] # None /\ provider'[p] # None
       /\ provider[p].status # "PAID"
       /\ provider[p].status \in Closed => provider'[p].status \in Closed
       /\ ~provider[p].exact => ~provider'[p].exact

LEMMA TrueStands ==
  ASSUME NEW s \in Snapshot, True(s), Advances
  PROVE  True(s)'
<1>1. s.payment \in Payments
  BY DEF Snapshot
<1> QED
  BY <1>1 DEF True, Advances

LEMMA SharedStands ==
  ASSUME ProviderTrue, Advances, NEW p \in Payments, Shared(p)
  PROVE  Shared(p)'
<1>1. \A q \in Payments : provider[q] # None /\ provider[q].txn # None => provider'[q] = provider[q]
  BY DEF Advances, ProviderTrue, True
<1> QED
  BY <1>1 DEF Shared

\* What a call has seen is still so, unless another wrote the row it holds.
LEMMA SeenStands ==
  ASSUME ProviderTrue, Advances, NEW call \in CallState, SeenBy(call),
         call.at = "create" => provider'[call.payment] = None,
         \/ rows'[call.payment] = rows[call.payment]
         \/ rows'[call.payment].status # "absent" /\ ~Holds(call, call.payment)
  PROVE  SeenBy(call)'
<1> DEFINE p == call.payment
<1>1. call.at # "idle" => p \in Payments
  BY CallShape
<1>2. call.at \in {"create", "attach", "cancel"} => rows'[p].status # "absent"
  BY DEF SeenBy
<1>3. call.at = "attach" => provider'[p] # None
  BY <1>1 DEF SeenBy, Advances
<1>4. call.at \in {"apply", "applying"} => call.snap.payment = p /\ True(call.snap)'
  <2> SUFFICES ASSUME call.at \in {"apply", "applying"}
               PROVE  call.snap.payment = p /\ True(call.snap)'
    OBVIOUS
  <2>1. PICK s \in Snapshot : s = call.snap
    BY CallShape
  <2> QED
    BY <2>1, TrueStands DEF SeenBy
<1>5. call.at = "applying" /\ call.dup => Shared(p)'
  BY <1>1, SharedStands DEF SeenBy
<1>6. call.at = "approving" => rows'[p].status \in Review
  BY DEF SeenBy, Holds
<1> QED
  BY <1>2, <1>3, <1>4, <1>5, <1>6 DEF SeenBy

\* The calls that do not move have still seen what is so.
LEMMA CallsStand ==
  ASSUME TypeOK, ProviderTrue, CallsSeen, Advances, NEW c \in Calls, NEW new,
         calls' = [calls EXCEPT ![c] = new],
         SeenBy(new)',
         \A p \in Payments :
           provider[p] = None => \/ provider'[p] = None
                                 \/ \A d \in Calls \ {c} : ~Creates(calls[d], p),
         \A p \in Payments :
           \/ rows'[p] = rows[p]
           \/ /\ rows'[p].status # "absent"
              /\ \A d \in Calls \ {c} : ~Holds(calls[d], p)
  PROVE  CallsSeen'
<1> SUFFICES ASSUME NEW d \in Calls PROVE SeenBy(calls[d])'
  BY DEF CallsSeen
<1>1. CASE d = c
  <2>1. calls'[d] = new
    BY <1>1 DEF TypeOK
  <2> QED
    BY <2>1 DEF SeenBy
<1>2. CASE d # c
  <2>1. PICK call \in CallState : call = calls[d]
    BY DEF TypeOK
  <2>2. calls'[d] = call /\ SeenBy(call)
    BY <1>2, <2>1 DEF TypeOK, CallsSeen
  <2>3. call.at = "idle" \/ call.payment \in Payments
    BY CallShape
  <2>4. SeenBy(call)'
    <3>1. CASE call.at = "idle"
      BY <3>1 DEF SeenBy
    <3>2. CASE call.payment \in Payments
      <4>1. call.at = "create" => provider'[call.payment] = None
        BY <1>2, <2>1, <2>2, <3>2 DEF SeenBy, Creates
      <4> QED
        BY <1>2, <2>1, <2>2, <3>2, <4>1, SeenStands
    <3> QED
      BY <2>3, <3>1, <3>2
  <2> QED
    BY <2>2, <2>4 DEF SeenBy
<1> QED
  BY <1>1, <1>2

LEMMA AloneStands ==
  ASSUME TypeOK, Alone, NEW c \in Calls, NEW new,
         calls' = [calls EXCEPT ![c] = new],
         \A p \in Payments : Creates(new, p) => \A d \in Calls \ {c} : ~Creates(calls[d], p),
         \A p \in Payments : Holds(new, p) => \A d \in Calls \ {c} : ~Holds(calls[d], p)
  PROVE  Alone'
<1>1. \A d \in Calls : calls'[d] = IF d = c THEN new ELSE calls[d]
  BY DEF TypeOK
<1> QED
  BY <1>1 DEF Alone, Creates, Holds

\* A call writes rows that nobody else holds, and what the provider knows.
Writes(c) ==
  \A p \in Payments :
    \/ rows'[p] = rows[p]
    \/ /\ rows'[p].status # "absent"
       /\ \A d \in Calls \ {c} : ~Holds(calls[d], p)
       /\ rows'[p].ext # None => rows'[p].ext = p /\ provider[p] # None
       /\ rows'[p].txn # None => provider[p] # None /\ provider[p].txn = rows'[p].txn

\* A call moves on without the provider, and writes its own payment's row.
LEMMA CallStep ==
  ASSUME Known, NEW c \in Calls, NEW new \in CallState,
         calls' = [calls EXCEPT ![c] = new],
         SeenBy(new)',
         \A p \in Payments : Creates(new, p) => \A d \in Calls \ {c} : ~Creates(calls[d], p),
         \A p \in Payments : Holds(new, p) => \A d \in Calls \ {c} : ~Holds(calls[d], p),
         rows' \in [Payments -> Row],
         credits' \subseteq Credit,
         Writes(c),
         EarlyIsClosed',
         UNCHANGED <<provider, callbacks>>
  PROVE  Known'
<1>1. TypeOK'
  BY DEF Known, TypeOK
<1>2. Advances
  BY DEF Advances
<1>3. ProviderTrue'
  BY DEF Known, ProviderTrue, True
<1>4. CallsSeen'
  BY <1>2, CallsStand DEF Known, Writes
<1>5. Alone'
  BY AloneStands DEF Known
<1>6. RowsKnown'
  BY DEF Known, RowsKnown, Writes
<1> QED
  BY <1>1, <1>3, <1>4, <1>5, <1>6 DEF Known

\* It stays closed where no call comes to create or to apply.
LEMMA EarlyStands ==
  ASSUME TypeOK, EarlyIsClosed, NEW c \in Calls, NEW new,
         calls' = [calls EXCEPT ![c] = new],
         \A p \in Payments : Creates(new, p) => Early(p),
         \A p \in Payments : Applies(new, p) /\ Early(p) => new.snap.status \in Closed,
         \A p \in Payments :
           \/ rows'[p].ext # None => rows[p].ext # None
           \/ Early(p) => provider[p].status \in Closed,
         UNCHANGED provider
  PROVE  EarlyIsClosed'
<1>1. \A d \in Calls : calls'[d] = IF d = c THEN new ELSE calls[d]
  BY DEF TypeOK
<1>2. \A p \in Payments : Early(p)' => Early(p)
  BY <1>1 DEF Early, Creates
<1>3. \A d \in Calls, p \in Payments :
        Applies(calls'[d], p) => \/ d = c /\ Applies(new, p)
                                 \/ Applies(calls[d], p) /\ calls'[d] = calls[d]
  BY <1>1
<1>4. ASSUME NEW p \in Payments, NEW d \in Calls, Early(p), Applies(calls'[d], p)
      PROVE  calls'[d].snap.status \in Closed
  BY <1>1, <1>3, <1>4 DEF EarlyIsClosed
<1> QED
  BY <1>2, <1>4 DEF EarlyIsClosed, Applies

\* Only the call changes, and becomes none that creates.
LEMMA QuietStep ==
  ASSUME Known, NEW c \in Calls, NEW new \in CallState,
         calls' = [calls EXCEPT ![c] = new],
         SeenBy(new)',
         \A p \in Payments : ~Creates(new, p),
         \A p \in Payments : Holds(new, p) => ~Locked(p),
         \A p \in Payments : Applies(new, p) /\ Early(p) => new.snap.status \in Closed,
         UNCHANGED <<rows, credits, provider, callbacks>>
  PROVE  Known'
<1>1. EarlyIsClosed'
  BY EarlyStands DEF Known
<1>2. \A p \in Payments : Holds(new, p) => \A d \in Calls \ {c} : ~Holds(calls[d], p)
  BY DEF Locked, Holds
<1>3. rows' \in [Payments -> Row] /\ credits' \subseteq Credit
  BY DEF Known, TypeOK
<1> QED
  BY <1>1, <1>2, <1>3, CallStep DEF Writes

LEMMA GiveUpStep ==
  ASSUME Known, NEW c \in Calls, calls' = [calls EXCEPT ![c] = Idle],
         UNCHANGED <<rows, credits, provider, callbacks>>
  PROVE  Known'
BY IdleSees, QuietStep

\* A row changes and no call does.
LEMMA RowStep ==
  ASSUME Known, NEW p \in Payments, NEW status \in Statuses,
         rows' = [rows EXCEPT ![p].status = status],
         ~Locked(p),
         UNCHANGED <<credits, provider, callbacks, calls>>
  PROVE  Known'
<1>0. rows \in [Payments -> Row]
  BY DEF Known, TypeOK
<1>1. rows' \in [Payments -> Row]
  BY <1>0 DEF Row
<1>2. \A q \in Payments : /\ rows'[q].status = IF q = p THEN status ELSE rows[q].status
                          /\ rows'[q].ext = rows[q].ext
                          /\ rows'[q].txn = rows[q].txn
  BY <1>0 DEF Row
<1>3. status # "absent"
  BY DEF Statuses
<1>4. TypeOK'
  BY <1>1 DEF Known, TypeOK
<1>5. CallsSeen'
  <2> SUFFICES ASSUME NEW d \in Calls PROVE SeenBy(calls[d])'
    BY DEF CallsSeen
  <2>1. SeenBy(calls[d])
    BY DEF Known, CallsSeen
  <2>2. calls[d].at # "idle" => calls[d].payment \in Payments
    BY CallShape DEF Known, TypeOK
  <2>3. calls[d].at = "approving" => calls[d].payment # p
    BY DEF Locked
  <2> QED
    BY <1>2, <1>3, <2>1, <2>2, <2>3 DEF SeenBy, True, Shared
<1>6. ProviderTrue' /\ Alone'
  BY DEF Known, ProviderTrue, Alone, True
<1>7. RowsKnown'
  BY <1>2, <1>3 DEF Known, RowsKnown
<1>8. EarlyIsClosed'
  BY <1>2 DEF Known, EarlyIsClosed, Early
<1> QED
  BY <1>4, <1>5, <1>6, <1>7, <1>8 DEF Known

-----------------------------------------------------------------------------
(* The actions.                                                            *)

LEMMA RowActionsKept ==
  ASSUME Known, NEW p \in Payments,
         CheckoutManualProof(p) \/ UploadProof(p) \/ Reject(p)
  PROVE  Known'
<1>1. CASE CheckoutManualProof(p)
  <2>1. ~Locked(p)
    <3> SUFFICES ASSUME Locked(p) PROVE FALSE
      OBVIOUS
    <3>1. PICK d \in Calls : Holds(calls[d], p)
      BY DEF Locked, Holds
    <3>2. rows[p].status = "absent" /\ provider[p] = None
      BY <1>1 DEF CheckoutManualProof, Absent, Known, RowsKnown
    <3>3. CASE calls[d].at = "applying"
      <4>1. calls[d].snap.payment = p /\ True(calls[d].snap)
        BY <3>1, <3>3 DEF Known, CallsSeen, SeenBy, Holds
      <4> QED
        BY <3>2, <4>1 DEF True
    <3>4. CASE calls[d].at = "approving"
      BY <3>1, <3>2, <3>4 DEF Known, CallsSeen, SeenBy, Holds, Review
    <3> QED
      BY <3>1, <3>3, <3>4 DEF Holds
  <2> QED
    BY <1>1, <2>1, RowStep DEF CheckoutManualProof, Statuses
<1>2. CASE UploadProof(p)
  BY <1>2, RowStep DEF UploadProof, Statuses
<1>3. CASE Reject(p)
  BY <1>3, RowStep DEF Reject, Statuses
<1> QED
  BY <1>1, <1>2, <1>3

\* An absent row is nobody's: no call creates it, applies to it or holds it.
LEMMA AbsentIsFree ==
  ASSUME Known, NEW p \in Payments, rows[p] = Absent
  PROVE  /\ provider[p] = None
         /\ ~Early(p)
         /\ \A d \in Calls : ~Applies(calls[d], p) /\ ~Holds(calls[d], p)
<1>1. rows[p].status = "absent" /\ provider[p] = None
  BY DEF Absent, Known, RowsKnown
<1>2. ~Early(p)
  BY <1>1 DEF Early, Creates, Known, CallsSeen, SeenBy
<1>3. ASSUME NEW d \in Calls PROVE ~Applies(calls[d], p)
  BY <1>1 DEF Applies, Known, CallsSeen, SeenBy, True
<1>4. ASSUME NEW d \in Calls PROVE ~Holds(calls[d], p)
  BY <1>1, <1>3 DEF Applies, Holds, Known, CallsSeen, SeenBy, Review
<1> QED
  BY <1>1, <1>2, <1>3, <1>4

LEMMA ReserveKept ==
  ASSUME Known, NEW c \in Calls, NEW p \in Payments, Reserve(c, p)
  PROVE  Known'
<1> DEFINE new == [at |-> "create", payment |-> p]
<1>1. rows[p] = Absent /\ calls' = [calls EXCEPT ![c] = new]
  BY DEF Reserve
<1>2. new \in CallState
  BY DEF CallState
<1>3. rows \in [Payments -> Row] /\ credits \subseteq Credit
  BY DEF Known, TypeOK
<1>4. rows' \in [Payments -> Row]
  BY <1>3 DEF Reserve, Row, Statuses
<1>5. \A q \in Payments : IF q = p THEN rows'[q].status = "pending_payment"
                                        /\ rows'[q].ext = None /\ rows'[q].txn = None
                          ELSE rows'[q] = rows[q]
  BY <1>1, <1>3 DEF Reserve, Absent
<1>6. ~Early(p) /\ provider[p] = None
      /\ \A d \in Calls : ~Applies(calls[d], p) /\ ~Holds(calls[d], p)
  BY <1>1, AbsentIsFree
<1>7. SeenBy(new)'
  BY <1>5, <1>6 DEF SeenBy, Reserve
<1>8. /\ \A q \in Payments : Creates(new, q) => \A d \in Calls \ {c} : ~Creates(calls[d], q)
      /\ \A q \in Payments : ~Holds(new, q) /\ ~Applies(new, q)
  BY <1>6 DEF Creates, Holds, Applies, Early
<1>9. EarlyIsClosed'
  <2>1. \A d \in Calls : calls'[d] = IF d = c THEN new ELSE calls[d]
    BY <1>1 DEF Known, TypeOK
  <2>2. ASSUME NEW q \in Payments, Early(q)', q # p PROVE Early(q)
    BY <2>1, <2>2 DEF Early, Creates
  <2>3. ASSUME NEW q \in Payments, NEW d \in Calls, Applies(calls'[d], q)
        PROVE  calls'[d] = calls[d] /\ q # p
    BY <1>6, <1>8, <2>1, <2>3 DEF Applies
  <2> HIDE DEF new
  <2> QED
    BY <1>5, <2>2, <2>3 DEF Reserve, Known, EarlyIsClosed, Applies
<1>10. Writes(c)
  BY <1>5, <1>6 DEF Writes
<1>11. UNCHANGED <<provider, callbacks>> /\ credits' \subseteq Credit
  BY <1>3 DEF Reserve
<1> HIDE DEF new
<1> QED
  BY <1>1, <1>2, <1>4, <1>7, <1>8, <1>9, <1>10, <1>11, CallStep

LEMMA AttachKept ==
  ASSUME Known, NEW c \in Calls, Attach(c)
  PROVE  Known'
<1>1. PICK p \in Payments : p = calls[c].payment /\ calls[c].at = "attach"
  BY CallShape DEF Attach, Known, TypeOK
<1>2. rows \in [Payments -> Row] /\ credits' \subseteq Credit
  BY DEF Attach, Known, TypeOK
<1>3. Mapped("PENDING") \in Statuses /\ Mapped("PENDING") # "absent"
  BY MappedShape DEF Statuses
<1>4. rows' = [rows EXCEPT ![p].ext = p, ![p].status = Mapped("PENDING")]
  BY <1>1 DEF Attach
<1>5. rows' \in [Payments -> Row]
  BY <1>2, <1>3, <1>4 DEF Row
<1>6. \A q \in Payments : IF q = p THEN /\ rows'[q].status = Mapped("PENDING")
                                        /\ rows'[q].ext = q
                                        /\ rows'[q].txn = rows[q].txn
                          ELSE rows'[q] = rows[q]
  BY <1>2, <1>4 DEF Row
<1>7. provider[p] # None /\ ~Locked(p)
  BY <1>1 DEF Attach, Known, CallsSeen, SeenBy
<1>8. \A d \in Calls : ~Holds(calls[d], p)
  BY <1>7 DEF Locked, Holds
<1>9. EarlyIsClosed'
  <2>1. \A d \in Calls : calls'[d] = IF d = c THEN Idle ELSE calls[d]
    BY DEF Attach, Known, TypeOK
  <2>2. ~Early(p)'
    BY <1>1, <2>1, IdleSees DEF Early, Known, Alone, Creates
  <2>3. \A q \in Payments : Early(q)' => Early(q) /\ q # p
    BY <2>1, <2>2, IdleSees DEF Early
  <2>4. \A q \in Payments, d \in Calls : Applies(calls'[d], q) => calls'[d] = calls[d]
    BY <2>1, IdleSees
  <2> QED
    BY <1>6, <2>3, <2>4 DEF Attach, Known, EarlyIsClosed
<1>10. Writes(c)
  BY <1>3, <1>6, <1>7, <1>8 DEF Known, RowsKnown, Writes
<1>11. UNCHANGED <<provider, callbacks>> /\ calls' = [calls EXCEPT ![c] = Idle]
  BY DEF Attach
<1> QED
  BY <1>2, <1>5, <1>9, <1>10, <1>11, IdleSees, CallStep

LEMMA CancelKept ==
  ASSUME Known, NEW c \in Calls, Cancel(c)
  PROVE  Known'
<1>1. PICK p \in Payments : p = calls[c].payment /\ calls[c].at = "cancel"
  BY CallShape DEF Cancel, Known, TypeOK
<1>2. rows \in [Payments -> Row] /\ credits' \subseteq Credit
  BY DEF Cancel, Known, TypeOK
<1>3. rows' = [rows EXCEPT ![p].status =
                 IF rows[p].status = "pending_payment" THEN "cancelled" ELSE rows[p].status]
  BY <1>1, <1>2 DEF Cancel
<1>4. rows' \in [Payments -> Row]
  BY <1>2, <1>3 DEF Row, Statuses
<1>5. rows[p].status # "absent" /\ ~Locked(p)
  BY <1>1 DEF Cancel, Known, CallsSeen, SeenBy
<1>6. \A q \in Payments : /\ q # p => rows'[q] = rows[q]
                          /\ rows'[q].ext = rows[q].ext /\ rows'[q].txn = rows[q].txn
                          /\ q = p => rows'[q].status # "absent"
  BY <1>2, <1>3, <1>5 DEF Row
<1>7. \A d \in Calls : ~Holds(calls[d], p)
  BY <1>5 DEF Locked, Holds
<1>8. EarlyIsClosed'
  BY <1>6, IdleSees, EarlyStands DEF Cancel, Known
<1>9. Writes(c)
  BY <1>5, <1>6, <1>7 DEF Known, RowsKnown, Writes
<1>10. UNCHANGED <<provider, callbacks>> /\ calls' = [calls EXCEPT ![c] = Idle]
  BY DEF Cancel
<1> QED
  BY <1>2, <1>4, <1>8, <1>9, <1>10, IdleSees, CallStep

LEMMA ReceiveCallbackKept ==
  ASSUME Known, NEW c \in Calls, ReceiveCallback(c)
  PROVE  Known'
<1>1. PICK s \in callbacks :
        calls' = [calls EXCEPT ![c] = [at |-> "apply", payment |-> s.payment, snap |-> s]]
  BY DEF ReceiveCallback
<1> DEFINE new == [at |-> "apply", payment |-> s.payment, snap |-> s]
<1>2. s \in Snapshot /\ True(s) /\ s.status \in Closed
  BY DEF Known, TypeOK, ProviderTrue
<1>3. new \in CallState
  BY <1>2 DEF CallState, Snapshot
<1>4. SeenBy(new)'
  BY <1>2 DEF SeenBy, True, ReceiveCallback
<1>5. /\ \A p \in Payments : ~Creates(new, p) /\ ~Holds(new, p)
      /\ new.snap.status \in Closed
  BY <1>2 DEF Creates, Holds
<1> HIDE DEF new
<1> QED
  BY <1>1, <1>3, <1>4, <1>5, QuietStep DEF ReceiveCallback, new

LEMMA RefreshKept ==
  ASSUME Known, NEW c \in Calls, NEW p \in Payments, Refresh(c, p)
  PROVE  Known'
<1>1. provider[p] \in Snapshot /\ provider[p].payment = p /\ True(provider[p])
  BY DEF Refresh, Known, TypeOK, RowsKnown, ProviderTrue
<1>2. PICK s \in Snapshot : s = provider[p]
  BY <1>1
<1> DEFINE new == [at |-> "apply", payment |-> p, snap |-> s]
<1>3. new \in CallState
  BY DEF CallState
<1>4. SeenBy(new)'
  BY <1>1, <1>2 DEF SeenBy, True, Refresh
<1>5. \A q \in Payments : ~Creates(new, q) /\ ~Holds(new, q)
  BY DEF Creates, Holds
<1>6. \A q \in Payments : Applies(new, q) /\ Early(q) => new.snap.status \in Closed
  BY <1>2 DEF Applies, Refresh, Known, EarlyIsClosed
<1>7. calls' = [calls EXCEPT ![c] = new]
  BY <1>2 DEF Refresh
<1> HIDE DEF new
<1> QED
  BY <1>3, <1>4, <1>5, <1>6, <1>7, QuietStep DEF Refresh

LEMMA ApplyReadKept ==
  ASSUME Known, NEW c \in Calls, ApplyRead(c)
  PROVE  Known'
<1>1. PICK p \in Payments, s \in Snapshot :
        p = calls[c].payment /\ s = calls[c].snap /\ calls[c].at = "apply"
  BY CallShape DEF ApplyRead, Known, TypeOK
<1>2. PICK dup \in BOOLEAN :
        dup = (Mapped(s.status) = "paid" /\ PaidWith(p, "txn", s.txn))
  OBVIOUS
<1> DEFINE new == [at |-> "applying", payment |-> p, snap |-> s, dup |-> dup]
<1>3. calls' = [calls EXCEPT ![c] = new] /\ ~Locked(p)
  BY <1>1, <1>2 DEF ApplyRead
<1>4. new \in CallState
  BY DEF CallState
<1>5. s.payment = p /\ True(s)
  BY <1>1 DEF Known, CallsSeen, SeenBy
<1>6. dup => Shared(p)
  <2> SUFFICES ASSUME dup PROVE Shared(p)
    OBVIOUS
  <2>1. PICK q \in Payments \ {p} : s.txn # None /\ rows[q].txn = s.txn
    BY <1>2 DEF PaidWith
  <2>2. provider[q] # None /\ provider[q].txn = s.txn
    BY <2>1 DEF Known, RowsKnown
  <2>3. s.status = "PAID"
    BY <1>2, MappedShape DEF Snapshot
  <2>4. provider[p] = s /\ provider[p] # None
    BY <1>5, <2>3 DEF True
  <2> QED
    BY <2>1, <2>2, <2>4 DEF Shared
<1>7. SeenBy(new)'
  BY <1>5, <1>6 DEF SeenBy, True, Shared, ApplyRead
<1>8. /\ \A q \in Payments : ~Creates(new, q)
      /\ \A q \in Payments : Holds(new, q) => ~Locked(q)
  BY <1>3 DEF Creates, Holds
<1>9. \A q \in Payments : Applies(new, q) /\ Early(q) => new.snap.status \in Closed
  BY <1>1 DEF Applies, Known, EarlyIsClosed
<1> HIDE DEF new
<1> QED
  BY <1>3, <1>4, <1>7, <1>8, <1>9, QuietStep DEF ApplyRead

LEMMA WithExternalShape ==
  ASSUME NEW r \in Row, NEW s \in Snapshot, NEW status \in Statuses
  PROVE  /\ WithExternal(r, status, s) \in Row
         /\ WithExternal(r, status, s).status = status
         /\ WithExternal(r, status, s).ext = s.payment
         /\ WithExternal(r, status, s).ref = r.ref
         /\ WithExternal(r, status, s).txn = IF s.txn # None THEN s.txn ELSE r.txn
BY DEF WithExternal, Row, Snapshot

\* A snapshot is written to the row and the call is done.
LEMMA ExternalStep ==
  ASSUME Known, NEW c \in Calls, NEW p \in Payments, NEW s \in Snapshot,
         calls[c].at = "applying", calls[c].payment = p, calls[c].snap = s,
         NEW status \in Statuses,
         rows' = [rows EXCEPT ![p] = WithExternal(rows[p], status, s)],
         calls' = [calls EXCEPT ![c] = Idle],
         credits' \subseteq Credit,
         UNCHANGED <<provider, callbacks>>
  PROVE  Known'
<1>1. rows \in [Payments -> Row] /\ status # "absent"
  BY DEF Known, TypeOK, Statuses
<1>2. rows' \in [Payments -> Row]
  BY <1>1, WithExternalShape
<1>3. s.payment = p /\ True(s)
  BY DEF Known, CallsSeen, SeenBy
<1>4. \A q \in Payments : IF q = p THEN /\ rows'[q].status = status
                                        /\ rows'[q].ext = q
                                        /\ rows'[q].txn = IF s.txn # None THEN s.txn
                                                          ELSE rows[q].txn
                          ELSE rows'[q] = rows[q]
  BY <1>1, <1>3, WithExternalShape
<1>5. \A d \in Calls \ {c} : ~Holds(calls[d], p)
  BY DEF Known, Alone, Holds
<1>6. /\ provider[p] # None
      /\ s.txn # None => provider[p].txn = s.txn
      /\ s.status \in Closed => provider[p].status \in Closed
  BY <1>3 DEF True
<1>7. Writes(c)
  BY <1>1, <1>4, <1>5, <1>6 DEF Writes, Known, RowsKnown
<1>8. Early(p) => provider[p].status \in Closed
  BY <1>6 DEF Known, EarlyIsClosed, Applies
<1>9. EarlyIsClosed'
  BY <1>4, <1>8, IdleSees, EarlyStands DEF Known
<1> QED
  BY <1>2, <1>7, <1>9, IdleSees, CallStep

LEMMA ApplyWriteKept ==
  ASSUME Known, NEW c \in Calls, ApplyWrite(c)
  PROVE  Known'
<1>1. PICK p \in Payments, s \in Snapshot, dup \in BOOLEAN :
        /\ p = calls[c].payment /\ s = calls[c].snap /\ dup = calls[c].dup
        /\ calls[c].at = "applying"
  BY CallShape DEF ApplyWrite, Known, TypeOK
<1>2. credits \subseteq Credit
  BY DEF Known, TypeOK
<1>3. CASE /\ rows' = [rows EXCEPT ![p] = Unpaid(rows[p], s, dup)]
           /\ calls' = [calls EXCEPT ![c] = Idle]
           /\ UNCHANGED credits
  <2>1. CASE Unpaid(rows[p], s, dup) = rows[p]
    <3>1. rows' = rows
      BY <1>3, <2>1 DEF Known, TypeOK
    <3> QED
      BY <1>3, <3>1, GiveUpStep DEF ApplyWrite
  <2>2. CASE Unpaid(rows[p], s, dup) # rows[p]
    <3>1. s.status \in {"PENDING", "PAID", "EXPIRED", "NEEDS_REVIEW"}
      BY DEF Snapshot
    <3>2. PICK status \in Statuses : Unpaid(rows[p], s, dup) = WithExternal(rows[p], status, s)
      BY <2>2, <3>1, MappedShape DEF Unpaid, Statuses
    <3>3. rows' = [rows EXCEPT ![p] = WithExternal(rows[p], status, s)]
      BY <1>3, <3>2
    <3>4. /\ credits' \subseteq Credit
          /\ calls' = [calls EXCEPT ![c] = Idle]
          /\ UNCHANGED <<provider, callbacks>>
      BY <1>2, <1>3 DEF ApplyWrite
    <3> QED
      BY <1>1, <3>3, <3>4, ExternalStep
  <2> QED
    BY <2>1, <2>2
<1>4. CASE /\ calls' = [calls EXCEPT ![c] = [at |-> "conflict", payment |-> p]]
           /\ UNCHANGED <<rows, credits>>
  <2> DEFINE new == [at |-> "conflict", payment |-> p]
  <2>1. new \in CallState
    BY DEF CallState
  <2>2. SeenBy(new)'
    BY DEF SeenBy
  <2>3. \A q \in Payments : ~Creates(new, q) /\ ~Holds(new, q) /\ ~Applies(new, q)
    BY DEF Creates, Holds, Applies
  <2>4. calls' = [calls EXCEPT ![c] = new]
    BY <1>4
  <2> HIDE DEF new
  <2> QED
    BY <1>4, <2>1, <2>2, <2>3, <2>4, QuietStep DEF ApplyWrite
<1>5. CASE /\ rows' = [rows EXCEPT ![p] = WithExternal(rows[p], "paid", s)]
           /\ credits' = IF rows[p].status = "paid" THEN credits
                         ELSE credits \cup {[kind |-> "slai", payment |-> p, admin |-> None]}
           /\ calls' = [calls EXCEPT ![c] = Idle]
  <2>1. credits' \subseteq Credit
    BY <1>2, <1>5 DEF Credit
  <2> QED
    BY <1>1, <1>5, <2>1, ExternalStep DEF ApplyWrite, Statuses
<1> QED
  BY <1>1, <1>3, <1>4, <1>5 DEF ApplyWrite

LEMMA ApproveReadKept ==
  ASSUME Known, NEW c \in Calls, NEW p \in Payments, NEW a \in Admins, NEW ref \in Refs,
         ApproveRead(c, p, a, ref)
  PROVE  Known'
<1> DEFINE new == [at |-> "approving", payment |-> p, admin |-> a, ref |-> ref]
<1>1. new \in CallState
  BY DEF CallState
<1>2. SeenBy(new)'
  BY DEF SeenBy, ApproveRead, Review
<1>3. \A q \in Payments : /\ ~Creates(new, q) /\ ~Applies(new, q)
                          /\ Holds(new, q) => ~Locked(q)
  BY DEF Creates, Applies, Holds, ApproveRead
<1>4. calls' = [calls EXCEPT ![c] = new]
  BY DEF ApproveRead
<1> HIDE DEF new
<1> QED
  BY <1>1, <1>2, <1>3, <1>4, QuietStep DEF ApproveRead

LEMMA ApproveWriteKept ==
  ASSUME Known, NEW c \in Calls, ApproveWrite(c)
  PROVE  Known'
<1>1. PICK p \in Payments, a \in Admins, ref \in Refs :
        /\ p = calls[c].payment /\ a = calls[c].admin /\ ref = calls[c].ref
        /\ calls[c].at = "approving"
  BY CallShape DEF ApproveWrite, Known, TypeOK
<1>2. rows \in [Payments -> Row] /\ credits \subseteq Credit
  BY DEF Known, TypeOK
<1>3. CASE UNCHANGED <<rows, credits>>
  BY <1>3, GiveUpStep DEF ApproveWrite
<1>4. CASE /\ rows' = [rows EXCEPT ![p] = [rows[p] EXCEPT !.status = "paid", !.ref = ref]]
           /\ credits' = credits \cup {[kind |-> "approve", payment |-> p, admin |-> a]}
  <2>1. rows' \in [Payments -> Row]
    BY <1>2, <1>4 DEF Row, Statuses
  <2>2. credits' \subseteq Credit
    BY <1>2, <1>4 DEF Credit
  <2>3. \A q \in Payments : /\ q # p => rows'[q] = rows[q]
                            /\ q = p => rows'[q].status = "paid"
                            /\ rows'[q].ext = rows[q].ext /\ rows'[q].txn = rows[q].txn
    BY <1>2, <1>4 DEF Row
  <2>4. \A d \in Calls \ {c} : ~Holds(calls[d], p)
    BY <1>1 DEF Known, Alone, Holds
  <2>5. Writes(c)
    BY <2>3, <2>4 DEF Writes, Known, RowsKnown
  <2>6. calls' = [calls EXCEPT ![c] = Idle] /\ UNCHANGED <<provider, callbacks>>
    BY DEF ApproveWrite
  <2>7. EarlyIsClosed'
    BY <2>3, <2>6, IdleSees, EarlyStands DEF Known
  <2> QED
    BY <2>1, <2>2, <2>5, <2>6, <2>7, IdleSees, CallStep
<1> QED
  BY <1>1, <1>3, <1>4 DEF ApproveWrite

\* The provider answers the creation, or does not: nobody else knows of it.
LEMMA CreateExternalKept ==
  ASSUME Known, NEW c \in Calls, CreateExternal(c)
  PROVE  Known' /\ Advances
<1>1. PICK p \in Payments : p = calls[c].payment /\ calls[c].at = "create"
  BY CallShape DEF CreateExternal, Known, TypeOK
<1>2. PICK created \in BOOLEAN, next \in {"attach", "cancel"} :
        /\ next = "attach" => created
        /\ provider' = [provider EXCEPT ![p] =
             IF created THEN [payment |-> p, exact |-> TRUE, txn |-> None, status |-> "PENDING"]
             ELSE None]
        /\ calls' = [calls EXCEPT ![c] = [at |-> next, payment |-> p]]
  BY <1>1 DEF CreateExternal
<1> DEFINE record == [payment |-> p, exact |-> TRUE, txn |-> None, status |-> "PENDING"]
           new == [at |-> next, payment |-> p]
<1>0. /\ UNCHANGED <<rows, credits, callbacks>>
      /\ calls' = [calls EXCEPT ![c] = new]
  BY <1>2 DEF CreateExternal
<1>3. record \in Snapshot /\ record # None
  <2>1. record \in Snapshot
    BY DEF Snapshot
  <2> HIDE DEF record
  <2> QED
    BY <2>1, NoneIsNoSnapshot
<1>4. provider[p] = None /\ rows[p].status # "absent"
  BY <1>1 DEF Known, CallsSeen, SeenBy
<1>5. \A q \in Payments : provider'[q] = IF q # p THEN provider[q]
                                         ELSE IF created THEN record ELSE None
  BY <1>2 DEF Known, TypeOK
<1>6. \A s : s.payment \in Payments /\ True(s) => s.payment # p
  BY <1>4 DEF True
<1>7. new \in CallState
  BY DEF CallState
<1>8. TypeOK'
  <2>1. provider' \in [Payments -> Snapshot \cup {None}]
    BY <1>2, <1>3 DEF Known, TypeOK
  <2>2. calls' \in [Calls -> CallState]
    BY <1>2, <1>7 DEF Known, TypeOK
  <2> QED
    BY <1>0, <2>1, <2>2 DEF Known, TypeOK
<1>9. Advances
  BY <1>4, <1>5 DEF Advances
<1>10. ProviderTrue'
  <2>1. ASSUME NEW q \in Payments, provider'[q] # None
        PROVE  provider'[q].payment = q /\ True(provider[q])'
    BY <1>3, <1>4, <1>5, <2>1 DEF Known, ProviderTrue, True, Closed
  <2>2. ASSUME NEW s \in callbacks PROVE True(s)' /\ s.status \in Closed
    BY <1>9, TrueStands DEF Known, TypeOK, ProviderTrue
  <2> QED
    BY <1>0, <2>1, <2>2 DEF ProviderTrue
<1>11. SeenBy(new)'
  BY <1>0, <1>2, <1>3, <1>4, <1>5 DEF SeenBy
<1>12. \A q \in Payments : Creates(new, q) => \A d \in Calls \ {c} : ~Creates(calls[d], q)
  BY <1>1 DEF Creates, Known, Alone
<1>13. \A q \in Payments : ~Holds(new, q) /\ ~Applies(new, q)
  BY DEF Holds, Applies
<1>14. \A q \in Payments : q = p \/ provider'[q] = provider[q]
  BY <1>5
<1>15. \A d \in Calls \ {c} : ~Creates(calls[d], p)
  BY <1>12 DEF Creates
<1>20. \A q \in Payments : Creates(new, q) => q = p
  BY DEF Creates
<1> HIDE DEF new, record
<1>16. CallsSeen'
  BY <1>0, <1>9, <1>11, <1>14, <1>15, CallsStand DEF Known
<1>17. Alone'
  BY <1>0, <1>12, <1>13, AloneStands DEF Known
<1>18. RowsKnown'
  BY <1>0, <1>3, <1>4, <1>5 DEF Known, RowsKnown
<1>19. EarlyIsClosed'
  <2>1. \A d \in Calls : calls'[d] = IF d = c THEN new ELSE calls[d]
    BY <1>0 DEF Known, TypeOK
  <2>2. \A q \in Payments : Early(q)' => Early(q)
    BY <1>1, <1>20, <2>1 DEF Early, Creates
  <2>3. \A q \in Payments, d \in Calls :
          Applies(calls'[d], q) => calls'[d] = calls[d] /\ Applies(calls[d], q)
    BY <1>13, <2>1
  <2>4. rows[p].ext = None
    BY <1>4 DEF Known, RowsKnown
  <2> QED
    BY <1>0, <1>14, <2>2, <2>3, <2>4 DEF Known, EarlyIsClosed
<1> QED
  BY <1>8, <1>9, <1>10, <1>16, <1>17, <1>18, <1>19 DEF Known

\* The provider changes a record of its own, and may send a callback.
LEMMA ProviderStep ==
  ASSUME Known, NEW p \in Payments, NEW now \in Snapshot,
         provider[p] # None, provider[p].status # "PAID",
         provider' = [provider EXCEPT ![p] = now],
         now.payment = p,
         now.status # "PAID" => now.txn = None,
         now.status = "PENDING" => now.exact,
         provider[p].status \in Closed => now.status \in Closed,
         ~provider[p].exact => ~now.exact,
         \/ callbacks' = callbacks
         \/ callbacks' = callbacks \cup {now} /\ now.status \in Closed,
         UNCHANGED <<rows, credits, calls>>
  PROVE  Known' /\ Advances
<1>1. now # None
  BY NoneIsNoSnapshot
<1>2. \A q \in Payments : provider'[q] = IF q = p THEN now ELSE provider[q]
  BY DEF Known, TypeOK
<1>3. Advances
  BY <1>1, <1>2 DEF Advances
<1>4. TypeOK'
  BY DEF Known, TypeOK
<1>5. True(now)'
  BY <1>1, <1>2 DEF True
<1>6. ProviderTrue'
  <2>1. ASSUME NEW q \in Payments, provider'[q] # None
        PROVE  provider'[q].payment = q /\ True(provider[q])'
    <3>1. CASE q = p
      BY <1>1, <1>2, <3>1 DEF True
    <3>2. CASE q # p
      BY <1>2, <2>1, <3>2 DEF Known, ProviderTrue, True
    <3> QED
      BY <3>1, <3>2
  <2>2. ASSUME NEW s \in callbacks' PROVE True(s)' /\ s.status \in Closed
    <3>1. CASE s = now
      <4>1. now.status \in Closed \/ s \in callbacks
        BY <3>1
      <4> QED
        BY <1>5, <3>1, <4>1 DEF Known, ProviderTrue
    <3>2. CASE s # now
      BY <1>3, <3>2, TrueStands DEF Known, TypeOK, ProviderTrue
    <3> QED
      BY <3>1, <3>2
  <2> QED
    BY <2>1, <2>2 DEF ProviderTrue
<1>7. CallsSeen'
  <2> SUFFICES ASSUME NEW d \in Calls PROVE SeenBy(calls[d])'
    BY DEF CallsSeen
  <2>1. PICK call \in CallState : call = calls[d] /\ call = calls'[d]
    BY DEF Known, TypeOK
  <2>2. SeenBy(call)
    BY <2>1 DEF Known, CallsSeen
  <2>3. call.at = "create" => provider'[call.payment] = None
    BY <1>2, <2>2 DEF SeenBy
  <2>4. SeenBy(call)'
    BY <1>3, <2>2, <2>3, SeenStands DEF Known
  <2> QED
    BY <2>1, <2>4 DEF SeenBy
<1>8. Alone'
  BY DEF Known, Alone
<1>9. RowsKnown'
  BY <1>1, <1>2 DEF Known, RowsKnown, ProviderTrue, True
<1>10. EarlyIsClosed'
  BY <1>1, <1>2 DEF Known, EarlyIsClosed, Early, RowsKnown
<1> QED
  BY <1>3, <1>4, <1>6, <1>7, <1>8, <1>9, <1>10 DEF Known

LEMMA ProviderKept ==
  ASSUME Known, NEW p \in Payments,
         ProviderPays(p) \/ ProviderExpires(p) \/ ProviderDoubts(p)
  PROVE  Known' /\ Advances
<1>1. provider[p] # None
  BY DEF ProviderPays, ProviderExpires, ProviderDoubts
<1>2. provider[p] \in Snapshot /\ provider[p].payment = p
  BY <1>1 DEF Known, TypeOK, ProviderTrue
<1>3. /\ provider[p].status # "PAID" => provider[p].txn = None
      /\ provider[p].status = "PENDING" => provider[p].exact
  BY <1>1 DEF Known, ProviderTrue, True
<1>4. provider \in [Payments -> Snapshot \cup {None}]
  BY DEF Known, TypeOK
<1>5. CASE ProviderPays(p)
  <2>1. PICK t \in TxnOf[p] \cup {None}, e \in BOOLEAN :
          /\ e => provider[p].exact
          /\ provider' = [provider EXCEPT ![p] =
               [provider[p] EXCEPT !.status = "PAID", !.txn = t, !.exact = e]]
          /\ callbacks' = callbacks \cup
               {[provider[p] EXCEPT !.status = "PAID", !.txn = t, !.exact = e]}
    BY <1>5 DEF ProviderPays
  <2>2. t \in Txns \cup {None}
    BY PaymentsAssumption
  <2>3. PICK now : now = [provider[p] EXCEPT !.status = "PAID", !.txn = t, !.exact = e]
    OBVIOUS
  <2>4. now \in Snapshot /\ now.payment = p /\ now.status = "PAID" /\ now.exact = e
    BY <1>2, <2>2, <2>3 DEF Snapshot
  <2>5. /\ provider' = [provider EXCEPT ![p] = now]
        /\ callbacks' = callbacks \cup {now}
    BY <2>1, <2>3
  <2>6. /\ provider[p].status # "PAID"
        /\ UNCHANGED <<rows, credits, calls>>
    BY <1>5 DEF ProviderPays
  <2> QED
    BY <1>1, <2>1, <2>4, <2>5, <2>6, ProviderStep DEF Closed
<1>6. CASE ProviderExpires(p)
  <2>1. PICK now : now = [provider[p] EXCEPT !.status = "EXPIRED"]
    OBVIOUS
  <2>2. /\ now \in Snapshot /\ now.payment = p /\ now.status = "EXPIRED"
        /\ now.exact = provider[p].exact /\ now.txn = provider[p].txn
    BY <1>2, <2>1 DEF Snapshot
  <2>3. provider' = [provider EXCEPT ![p] = now]
    BY <1>4, <1>6, <2>1 DEF ProviderExpires
  <2>4. callbacks' = callbacks \cup {now}
    BY <1>4, <1>6, <2>3 DEF ProviderExpires
  <2>5. provider[p].status = "PENDING" /\ UNCHANGED <<rows, credits, calls>>
    BY <1>6 DEF ProviderExpires
  <2> QED
    BY <1>1, <1>3, <2>2, <2>3, <2>4, <2>5, ProviderStep DEF Closed
<1>7. CASE ProviderDoubts(p)
  <2>1. PICK e \in BOOLEAN :
          provider' = [provider EXCEPT ![p].status = "NEEDS_REVIEW", ![p].exact = e]
    BY <1>7 DEF ProviderDoubts
  <2>2. PICK now : now = [provider[p] EXCEPT !.status = "NEEDS_REVIEW", !.exact = e]
    OBVIOUS
  <2>3. /\ now \in Snapshot /\ now.payment = p /\ now.status = "NEEDS_REVIEW"
        /\ now.exact = e /\ now.txn = provider[p].txn
    BY <1>2, <2>2 DEF Snapshot
  <2>4. provider' = [provider EXCEPT ![p] = now]
    BY <1>4, <2>1, <2>2
  <2>5. /\ provider[p].status = "PENDING"
        /\ UNCHANGED <<rows, credits, callbacks, calls>>
    BY <1>7 DEF ProviderDoubts
  <2> QED
    BY <1>1, <1>3, <2>3, <2>4, <2>5, ProviderStep DEF Closed
<1> QED
  BY <1>5, <1>6, <1>7

LEMMA NextKeepsKnown ==
  ASSUME Known, Next
  PROVE  Known'
<1>1. ASSUME NEW c \in Calls, AnswerConflict(c) \/ Crash(c) PROVE Known'
  BY <1>1, GiveUpStep DEF AnswerConflict, Crash
<1> QED
  BY <1>1, RowActionsKept, ProviderKept, ReserveKept, RefreshKept, ApproveReadKept,
     CreateExternalKept, AttachKept, CancelKept, ReceiveCallbackKept, ApplyReadKept,
     ApplyWriteKept, ApproveWriteKept DEF Next

LEMMA StutterKeepsKnown ==
  ASSUME Known, UNCHANGED vars
  PROVE  Known'
BY DEF vars, Known, TypeOK, ProviderTrue, CallsSeen, SeenBy, True, Shared, Alone,
       RowsKnown, EarlyIsClosed, Early

LEMMA InitKnown == Init => Known
<1> SUFFICES ASSUME Init PROVE Known
  OBVIOUS
<1>1. TypeOK
  <2>1. Absent \in Row /\ Idle \in CallState
    BY DEF Absent, Row, CallState
  <2> QED
    BY <2>1 DEF Init, TypeOK
<1>2. ProviderTrue /\ RowsKnown
  BY DEF Init, ProviderTrue, RowsKnown, Absent
<1>3. CallsSeen /\ Alone /\ EarlyIsClosed
  BY DEF Init, CallsSeen, SeenBy, Alone, EarlyIsClosed, Early, Creates, Holds, Applies, Idle
<1> QED
  BY <1>1, <1>2, <1>3 DEF Known

LEMMA NextAdvances ==
  ASSUME Known, Next
  PROVE  Advances
<1>1. CASE UNCHANGED provider
  BY <1>1 DEF Advances
<1>2. CASE ~UNCHANGED provider
  BY <1>2, ProviderKept, CreateExternalKept
     DEF Next, CheckoutManualProof, UploadProof, Reject, Reserve, Refresh, ApproveRead, Attach,
         Cancel, ReceiveCallback, ApplyRead, ApplyWrite, AnswerConflict, ApproveWrite, Crash
<1> QED
  BY <1>1, <1>2

-----------------------------------------------------------------------------
(* What is credited and what is paid.                                      *)

\* Every automatic credit is of a payment that the provider confirms.
CreditsTrue ==
  \A e \in credits :
    e.kind = "slai" =>
      /\ e.admin = None
      /\ provider[e.payment] # None
      /\ provider[e.payment].status = "PAID"
      /\ provider[e.payment].exact

\* A snapshot that is accepted is what the provider says now.
LEMMA Accepted ==
  ASSUME Known, NEW c \in Calls, NEW p \in Payments, NEW s \in Snapshot,
         calls[c].at = "applying", calls[c].payment = p, calls[c].snap = s,
         ~Mismatch(rows[p], s), Mapped(s.status) = "paid"
  PROVE  /\ provider[p] = s /\ s # None
         /\ s.status = "PAID" /\ s.exact
<1>1. s.payment = p /\ True(s)
  BY DEF Known, CallsSeen, SeenBy
<1>2. s.status = "PAID" /\ s.exact
  BY MappedShape DEF Mismatch, Snapshot
<1> QED
  BY <1>1, <1>2 DEF True

\* The cases of applyExternalPaymentInTx: nothing is written, a doubt, a state
\* that is not paid, or paid.
Doubted(p, s) ==
  /\ rows' = [rows EXCEPT ![p] = WithExternal(rows[p], "needs_review", s)]
  /\ UNCHANGED credits
  /\ Tainted(p)

Followed(p, s) ==
  /\ rows' = [rows EXCEPT ![p] = WithExternal(rows[p], Mapped(s.status), s)]
  /\ UNCHANGED credits
  /\ rows[p].status # "paid"
  /\ Mapped(s.status) # "paid"

Paid(p, s) ==
  /\ rows' = [rows EXCEPT ![p] = WithExternal(rows[p], "paid", s)]
  /\ ~UniqueViolation(p, WithExternal(rows[p], "paid", s))
  /\ credits' = IF rows[p].status = "paid" THEN credits
                ELSE credits \cup {[kind |-> "slai", payment |-> p, admin |-> None]}
  /\ provider[p] = s
  /\ s.status = "PAID" /\ s.exact

LEMMA ApplyWriteCases ==
  ASSUME Known, NEW c \in Calls, ApplyWrite(c)
  PROVE  \E p \in Payments, s \in Snapshot :
           /\ calls[c].at = "applying" /\ calls[c].payment = p /\ calls[c].snap = s
           /\ UNCHANGED <<rows, credits>> \/ Doubted(p, s) \/ Followed(p, s) \/ Paid(p, s)
<1>1. PICK p \in Payments, s \in Snapshot, dup \in BOOLEAN :
        /\ p = calls[c].payment /\ s = calls[c].snap /\ dup = calls[c].dup
        /\ calls[c].at = "applying"
  BY CallShape DEF ApplyWrite, Known, TypeOK
<1>2. s.payment = p /\ True(s) /\ (dup => Shared(p))
  BY <1>1 DEF Known, CallsSeen, SeenBy
<1>3. Mismatch(rows[p], s) \/ dup => Tainted(p)
  BY <1>2 DEF Mismatch, Tainted, True, Known, RowsKnown
<1>4. CASE ~(~Mismatch(rows[p], s) /\ Mapped(s.status) = "paid" /\ ~dup)
  <2>1. rows' = [rows EXCEPT ![p] = Unpaid(rows[p], s, dup)] /\ UNCHANGED credits
    BY <1>1, <1>4 DEF ApplyWrite
  <2>2. CASE ~Mismatch(rows[p], s) /\ rows[p].status = "paid" /\ Mapped(s.status) # "paid"
    <3>1. Unpaid(rows[p], s, dup) = rows[p]
      BY <2>2 DEF Unpaid
    <3>2. rows' = rows
      BY <2>1, <3>1 DEF Known, TypeOK
    <3> QED
      BY <1>1, <2>1, <3>2
  <2>3. CASE /\ Mismatch(rows[p], s) \/ dup
             /\ ~(~Mismatch(rows[p], s) /\ rows[p].status = "paid" /\ Mapped(s.status) # "paid")
    BY <1>1, <1>3, <2>1, <2>3 DEF Unpaid, Doubted
  <2>4. CASE /\ ~Mismatch(rows[p], s) /\ ~dup
             /\ ~(rows[p].status = "paid" /\ Mapped(s.status) # "paid")
    BY <1>1, <1>4, <2>1, <2>4 DEF Unpaid, Followed
  <2> QED
    BY <2>2, <2>3, <2>4
<1>5. CASE ~Mismatch(rows[p], s) /\ Mapped(s.status) = "paid" /\ ~dup
  <2>1. provider[p] = s /\ s.status = "PAID" /\ s.exact
    BY <1>1, <1>5, Accepted
  <2> QED
    BY <1>1, <1>5, <2>1 DEF ApplyWrite, Paid
<1> QED
  BY <1>4, <1>5

\* An approval that commits.
ApprovedBy(p, a, ref) ==
  LET paid == [rows[p] EXCEPT !.status = "paid", !.ref = ref] IN
  /\ rows' = [rows EXCEPT ![p] = paid]
  /\ ~UniqueViolation(p, paid)
  /\ \A e \in credits : e.kind = "approve" /\ e.payment = p => e.admin = a
  /\ credits' = credits \cup {[kind |-> "approve", payment |-> p, admin |-> a]}

LEMMA ApproveWriteCases ==
  ASSUME Known, NEW c \in Calls, ApproveWrite(c)
  PROVE  \/ UNCHANGED <<rows, credits>>
         \/ \E p \in Payments, a \in Admins, ref \in Refs :
              /\ calls[c].at = "approving" /\ calls[c].payment = p
              /\ rows[p].status \in Review
              /\ ApprovedBy(p, a, ref)
<1>1. PICK p \in Payments, a \in Admins, ref \in Refs :
        /\ p = calls[c].payment /\ a = calls[c].admin /\ ref = calls[c].ref
        /\ calls[c].at = "approving"
  BY CallShape DEF ApproveWrite, Known, TypeOK
<1>2. rows[p].status \in Review
  BY <1>1 DEF Known, CallsSeen, SeenBy
<1>3. UNCHANGED <<rows, credits>> \/ ApprovedBy(p, a, ref)
  BY <1>1 DEF ApproveWrite, ApprovedBy
<1> QED
  BY <1>1, <1>2, <1>3

\* Only applying and approving credit.
LEMMA CreditsStep ==
  ASSUME Known, Next
  PROVE  \/ UNCHANGED credits
         \/ \E p \in Payments, s \in Snapshot : Paid(p, s)
         \/ \E p \in Payments, a \in Admins, ref \in Refs : ApprovedBy(p, a, ref)
<1>1. ASSUME NEW c \in Calls, ApplyWrite(c)
      PROVE  UNCHANGED credits \/ \E p \in Payments, s \in Snapshot : Paid(p, s)
  BY <1>1, ApplyWriteCases DEF Doubted, Followed
<1>2. ASSUME NEW c \in Calls, ApproveWrite(c)
      PROVE  \/ UNCHANGED credits
             \/ \E p \in Payments, a \in Admins, ref \in Refs : ApprovedBy(p, a, ref)
  BY <1>2, ApproveWriteCases
<1> QED
  BY <1>1, <1>2
     DEF Next, CheckoutManualProof, ProviderPays, ProviderExpires, ProviderDoubts, UploadProof,
         Reject, Reserve, Refresh, ApproveRead, CreateExternal, Attach, Cancel, ReceiveCallback,
         ApplyRead, AnswerConflict, Crash

LEMMA CreditsStayTrue ==
  ASSUME Known, CreditsTrue, [Next]_vars
  PROVE  CreditsTrue'
<1>1. CASE UNCHANGED vars
  BY <1>1 DEF vars, CreditsTrue
<1>2. CASE Next
  <2>1. \A e \in credits : e.kind = "slai" =>
          provider[e.payment] # None /\ provider'[e.payment] = provider[e.payment]
    BY <1>2, NextAdvances DEF CreditsTrue, Advances, Known, TypeOK, Credit
  <2>2. CASE UNCHANGED credits
    BY <2>1, <2>2 DEF CreditsTrue
  <2>3. ASSUME NEW p \in Payments, NEW s \in Snapshot, Paid(p, s) PROVE CreditsTrue'
    <3>1. s # None /\ provider'[p] = s
      BY <1>2, <2>3, NoneIsNoSnapshot, NextAdvances DEF Paid, Advances
    <3> QED
      BY <2>1, <2>3, <3>1 DEF Paid, CreditsTrue
  <2>4. ASSUME NEW p \in Payments, NEW a \in Admins, NEW ref \in Refs, ApprovedBy(p, a, ref)
        PROVE  CreditsTrue'
    BY <2>1, <2>4 DEF ApprovedBy, CreditsTrue
  <2> QED
    BY <1>2, <2>2, <2>3, <2>4, CreditsStep
<1> QED
  BY <1>1, <1>2

\* A row that becomes paid has passed the unique indexes; a paid row that
\* stays paid keeps its transaction and its reference.
LEMMA PaidStep ==
  ASSUME Known, Next
  PROVE  \/ \A q \in Payments : rows'[q] = rows[q]
         \/ \E p \in Payments :
              /\ \A q \in Payments \ {p} : rows'[q] = rows[q]
              /\ rows'[p].status = "paid" => rows'[p] = rows[p] \/ ~UniqueViolation(p, rows'[p])
<1>0. rows \in [Payments -> Row]
  BY DEF Known, TypeOK
<1>1. ASSUME NEW p \in Payments, CheckoutManualProof(p) \/ UploadProof(p) \/ Reject(p)
      PROVE  /\ \A q \in Payments \ {p} : rows'[q] = rows[q]
             /\ rows'[p].status # "paid"
  BY <1>0, <1>1 DEF CheckoutManualProof, UploadProof, Reject, Row
<1>2. ASSUME NEW c \in Calls, NEW p \in Payments, Reserve(c, p)
      PROVE  /\ \A q \in Payments \ {p} : rows'[q] = rows[q]
             /\ rows'[p].status # "paid"
  BY <1>0, <1>2 DEF Reserve, Row
<1>3. ASSUME NEW c \in Calls, Attach(c) \/ Cancel(c)
      PROVE  \E p \in Payments :
               /\ \A q \in Payments \ {p} : rows'[q] = rows[q]
               /\ rows'[p].status = "paid" => rows'[p] = rows[p]
  <2>1. PICK p \in Payments : p = calls[c].payment
    BY <1>3, CallShape DEF Attach, Cancel, Known, TypeOK
  <2>2. \A q \in Payments \ {p} : rows'[q] = rows[q]
    BY <1>0, <1>3, <2>1 DEF Attach, Cancel
  <2>3. CASE Attach(c)
    <3>1. rows'[p].status = Mapped("PENDING")
      BY <1>0, <2>1, <2>3 DEF Attach, Row
    <3> QED
      BY <2>2, <3>1, MappedShape
  <2>4. CASE Cancel(c)
    <3>1. rows'[p] = [rows[p] EXCEPT !.status =
                        IF rows[p].status = "pending_payment" THEN "cancelled" ELSE rows[p].status]
      BY <1>0, <2>1, <2>4 DEF Cancel
    <3>2. rows'[p].status = "paid" => rows'[p] = rows[p]
      BY <1>0, <3>1 DEF Row
    <3> QED
      BY <2>2, <3>2
  <2> QED
    BY <1>3, <2>3, <2>4
<1>4. ASSUME NEW c \in Calls, ApplyWrite(c)
      PROVE  \/ UNCHANGED rows
             \/ \E p \in Payments :
                  /\ \A q \in Payments \ {p} : rows'[q] = rows[q]
                  /\ rows'[p].status = "paid" => ~UniqueViolation(p, rows'[p])
  <2>1. PICK p \in Payments, s \in Snapshot :
          UNCHANGED <<rows, credits>> \/ Doubted(p, s) \/ Followed(p, s) \/ Paid(p, s)
    BY <1>4, ApplyWriteCases
  <2>2. CASE Doubted(p, s)
    <3>1. rows'[p].status = "needs_review"
      BY <1>0, <2>2, WithExternalShape DEF Doubted, Statuses
    <3> QED
      BY <1>0, <2>2, <3>1 DEF Doubted
  <2>3. CASE Followed(p, s)
    <3>1. Mapped(s.status) \in Statuses
      BY MappedShape DEF Snapshot, Statuses
    <3>2. rows'[p].status = Mapped(s.status)
      BY <1>0, <2>3, <3>1, WithExternalShape DEF Followed
    <3> QED
      BY <1>0, <2>3, <3>2 DEF Followed
  <2>4. CASE Paid(p, s)
    BY <1>0, <2>4 DEF Paid
  <2> QED
    BY <2>1, <2>2, <2>3, <2>4
<1>5. ASSUME NEW c \in Calls, ApproveWrite(c)
      PROVE  \/ UNCHANGED rows
             \/ \E p \in Payments :
                  /\ \A q \in Payments \ {p} : rows'[q] = rows[q]
                  /\ ~UniqueViolation(p, rows'[p])
  <2>1. CASE UNCHANGED rows
    BY <2>1
  <2>2. CASE \E p \in Payments, a \in Admins, ref \in Refs : ApprovedBy(p, a, ref)
    <3>1. PICK p \in Payments, a \in Admins, ref \in Refs : ApprovedBy(p, a, ref)
      BY <2>2
    <3>2. \A q \in Payments \ {p} : rows'[q] = rows[q]
      BY <1>0, <3>1 DEF ApprovedBy
    <3>3. ~UniqueViolation(p, rows'[p])
      BY <1>0, <3>1 DEF ApprovedBy
    <3> QED
      BY <3>2, <3>3
  <2> QED
    BY <1>5, <2>1, <2>2, ApproveWriteCases
<1> QED
  BY <1>1, <1>2, <1>3, <1>4, <1>5
     DEF Next, ProviderPays, ProviderExpires, ProviderDoubts, Refresh, ApproveRead,
         CreateExternal, ReceiveCallback, ApplyRead, AnswerConflict, Crash

LEMMA PaidOnceKept ==
  ASSUME Known, PaidOnceEach, [Next]_vars
  PROVE  PaidOnceEach'
<1>1. CASE UNCHANGED vars
  BY <1>1 DEF vars, PaidOnceEach
<1>2. CASE \A q \in Payments : rows'[q] = rows[q]
  BY <1>2 DEF PaidOnceEach
<1>3. ASSUME NEW p \in Payments,
             \A q \in Payments \ {p} : rows'[q] = rows[q],
             rows'[p].status = "paid" => rows'[p] = rows[p] \/ ~UniqueViolation(p, rows'[p])
      PROVE  PaidOnceEach'
  <2>1. ASSUME NEW q \in Payments \ {p}, rows'[p].status = "paid", rows[q].status = "paid"
        PROVE  /\ rows'[p].txn = None \/ rows'[p].txn # rows[q].txn
               /\ rows'[p].ref = None \/ rows'[p].ref # rows[q].ref
    <3>1. CASE rows'[p] = rows[p]
      BY <2>1, <3>1 DEF PaidOnceEach
    <3>2. CASE ~UniqueViolation(p, rows'[p])
      BY <2>1, <3>2 DEF UniqueViolation, PaidWith
    <3> QED
      BY <1>3, <2>1, <3>1, <3>2
  <2> QED
    BY <1>3, <2>1 DEF PaidOnceEach
<1> QED
  BY <1>1, <1>2, <1>3, PaidStep

-----------------------------------------------------------------------------
(* The theorems.                                                           *)

\* However callbacks, refreshes, approvals, attaches, timeouts and crashes
\* interleave, what a call and a snapshot know of the provider and of the row
\* stays true.
THEOREM PaymentsKnown == Spec => []Known
<1>1. Known /\ [Next]_vars => Known'
  BY NextKeepsKnown, StutterKeepsKnown
<1> QED
  BY InitKnown, <1>1, PTL DEF Spec

\* The rows, the ledger's entries, the provider's payments, the callbacks and
\* the calls under way keep their types.
THEOREM PaymentsTypes == Spec => []TypeOK
<1>1. Known => TypeOK
  BY DEF Known
<1> QED
  BY PaymentsKnown, <1>1, PTL

\* ApplySnapshot credits a payment only when the provider has it as PAID over
\* the package's amount and currency, and the ledger's entry outlives every
\* later change of the row.
THEOREM CreditsConfirmed == Spec => []CreditIsConfirmed
<1>1. Init => CreditsTrue
  BY DEF Init, CreditsTrue
<1>2. Known /\ CreditsTrue /\ [Next]_vars => CreditsTrue'
  BY CreditsStayTrue
<1>3. CreditsTrue => CreditIsConfirmed
  BY DEF CreditsTrue, CreditIsConfirmed
<1> QED
  BY PaymentsKnown, <1>1, <1>2, <1>3, PTL DEF Spec

\* Two paid payments never stand for the same money: the unique indexes on the
\* bank transaction and on the admin's reference hold at every commit, whatever
\* the checks for duplicates saw before it.
THEOREM PaidOnce == Spec => []PaidOnceEach
<1>1. Init => PaidOnceEach
  BY DEF Init, PaidOnceEach, Absent
<1>2. Known /\ PaidOnceEach /\ [Next]_vars => PaidOnceEach'
  BY PaidOnceKept
<1> QED
  BY PaymentsKnown, <1>1, <1>2, PTL DEF Spec

-----------------------------------------------------------------------------
(* No payment is credited twice: an approval and an automatic credit of    *)
(* one payment have different idempotency keys, so the ledger alone would  *)
(* take both.                                                              *)
(*                                                                         *)
(* The argument follows one payment.  While it is approved it stays paid,  *)
(* or the provider cannot confirm it any more (Tainted).  Once the         *)
(* provider's confirmation is credited it stays paid, or a late Attach has *)
(* reopened it, and then no doubt about it is under way, so that no admin  *)
(* gets to review it (Reopened).                                           *)

Approved(p)  == \E e \in credits : e.kind = "approve" /\ e.payment = p
Confirmed(p) == \E e \in credits : e.kind = "slai" /\ e.payment = p

\* No snapshot on its way to the row can send it to a review.
SnapsClosed(p) == \A c \in Calls : Applies(calls[c], p) => calls[c].snap.status \in Closed

\* The statuses an admin or a proof can move on.
InReview == Review \cup {"pending_proof", "rejected"}

Reopened(p) == rows[p].status \in {"pending_payment", "expired", "cancelled"} /\ SnapsClosed(p)

OnceOf(p) ==
  /\ ToAttach(p) => /\ rows[p].status \in InReview => Tainted(p)
                    /\ Approved(p) => Tainted(p)
  /\ Approved(p) => rows[p].status = "paid" \/ Tainted(p)
  /\ Confirmed(p) => rows[p].status = "paid" \/ Shared(p) \/ Reopened(p)
  /\ Approved(p) /\ Confirmed(p) => Shared(p)

\* The ledger's idempotency keys, and the approval's check of the admin.
OneOfAKind ==
  \A e, f \in credits : e.kind = f.kind /\ e.payment = f.payment => e = f

Once == OneOfAKind /\ \A p \in Payments : OnceOf(p)

-----------------------------------------------------------------------------
(* What stands.                                                            *)

LEMMA TaintedStands ==
  ASSUME Known, Advances, NEW p \in Payments, Tainted(p)
  PROVE  Tainted(p)'
BY SharedStands DEF Tainted, Advances, Known

\* Every new snapshot comes from a callback or is the provider's record.
LEMMA SnapsStayClosed ==
  ASSUME Known, Next, NEW p \in Payments, SnapsClosed(p),
         provider[p] # None, provider[p].status \in Closed
  PROVE  SnapsClosed(p)'
<1> SUFFICES ASSUME NEW d \in Calls, Applies(calls'[d], p)
             PROVE  calls'[d].snap.status \in Closed
  BY DEF SnapsClosed, Applies
<1>0. calls \in [Calls -> CallState]
  BY DEF Known, TypeOK
<1>1. CASE calls'[d] = calls[d]
  BY <1>1 DEF SnapsClosed
<1>2. ASSUME NEW c \in Calls, ReceiveCallback(c) PROVE calls'[d].snap.status \in Closed
  BY <1>0, <1>2 DEF ReceiveCallback, Known, ProviderTrue, SnapsClosed, Applies
<1>3. ASSUME NEW c \in Calls, NEW q \in Payments, Refresh(c, q)
      PROVE  calls'[d].snap.status \in Closed
  BY <1>0, <1>3 DEF Refresh, SnapsClosed, Applies
<1>4. ASSUME NEW c \in Calls, ApplyRead(c) PROVE calls'[d].snap.status \in Closed
  BY <1>0, <1>4 DEF ApplyRead, SnapsClosed, Applies
<1>5. ASSUME NEW c \in Calls, NEW new, calls' = [calls EXCEPT ![c] = new],
             new.at \notin {"apply", "applying"}
      PROVE  calls'[d] = calls[d]
  BY <1>0, <1>5 DEF Applies
<1>6. ASSUME NEW c \in Calls, NEW new \in {Idle}, calls' = [calls EXCEPT ![c] = new]
      PROVE  calls'[d] = calls[d]
  BY <1>0, <1>6 DEF Applies, Idle
<1>7. ASSUME NEW c \in Calls, CreateExternal(c) PROVE calls'[d] = calls[d]
  <2>1. PICK next \in {"attach", "cancel"} :
          calls' = [calls EXCEPT ![c] = [at |-> next, payment |-> calls[c].payment]]
    BY <1>7 DEF CreateExternal
  <2> QED
    BY <1>0, <2>1 DEF Applies
<1>8. ASSUME NEW c \in Calls, ApplyWrite(c) PROVE calls'[d] = calls[d]
  BY <1>0, <1>8 DEF ApplyWrite, Applies, Idle
<1>9. ASSUME NEW c \in Calls, NEW q \in Payments,
             \/ Reserve(c, q)
             \/ \E a \in Admins, ref \in Refs : ApproveRead(c, q, a, ref)
      PROVE  calls'[d] = calls[d]
  BY <1>0, <1>9 DEF Reserve, ApproveRead, Applies
<1>10. ASSUME NEW c \in Calls,
              Attach(c) \/ Cancel(c) \/ AnswerConflict(c) \/ ApproveWrite(c) \/ Crash(c)
       PROVE  calls'[d] = calls[d]
  BY <1>6, <1>10 DEF Attach, Cancel, AnswerConflict, ApproveWrite, Crash
<1> QED
  BY <1>1, <1>2, <1>3, <1>4, <1>7, <1>8, <1>9, <1>10
     DEF Next, CheckoutManualProof, ProviderPays, ProviderExpires, ProviderDoubts,
         UploadProof, Reject

\* Only a reservation brings an attach.
LEMMA AttachComes ==
  ASSUME Known, Next, NEW p \in Payments, ToAttach(p)'
  PROVE  \/ ToAttach(p)
         \/ /\ rows[p] = Absent /\ rows'[p].status = "pending_payment"
            /\ UNCHANGED credits
<1>0. calls \in [Calls -> CallState] /\ rows \in [Payments -> Row]
  BY DEF Known, TypeOK
<1>1. PICK d \in Calls : calls'[d].at \in {"create", "attach"} /\ calls'[d].payment = p
  BY DEF ToAttach
<1>2. CASE calls'[d] = calls[d]
  BY <1>1, <1>2 DEF ToAttach
<1>3. ASSUME NEW c \in Calls, NEW q \in Payments, Reserve(c, q), calls'[d] # calls[d]
      PROVE  q = p /\ rows[p] = Absent /\ rows'[p].status = "pending_payment" /\ UNCHANGED credits
  BY <1>0, <1>1, <1>3 DEF Reserve, Row
<1>4. ASSUME NEW c \in Calls, CreateExternal(c), calls'[d] # calls[d]
      PROVE  ToAttach(p)
  <2>1. PICK next \in {"attach", "cancel"} :
          calls' = [calls EXCEPT ![c] = [at |-> next, payment |-> calls[c].payment]]
    BY <1>4 DEF CreateExternal
  <2>2. d = c /\ calls[c].payment = p /\ calls[c].at = "create"
    BY <1>0, <1>1, <1>4, <2>1 DEF CreateExternal
  <2> QED
    BY <2>2 DEF ToAttach
<1>5. ASSUME NEW c \in Calls, NEW q \in Payments,
             \/ Refresh(c, q)
             \/ \E a \in Admins, ref \in Refs : ApproveRead(c, q, a, ref)
      PROVE  calls'[d] = calls[d]
  BY <1>0, <1>1, <1>5 DEF Refresh, ApproveRead
<1>6. ASSUME NEW c \in Calls, ReceiveCallback(c) \/ ApplyRead(c) \/ ApplyWrite(c)
      PROVE  calls'[d] = calls[d]
  BY <1>0, <1>1, <1>6 DEF ReceiveCallback, ApplyRead, ApplyWrite, Idle
<1>7. ASSUME NEW c \in Calls,
             Attach(c) \/ Cancel(c) \/ AnswerConflict(c) \/ ApproveWrite(c) \/ Crash(c)
      PROVE  calls'[d] = calls[d]
  BY <1>0, <1>1, <1>7 DEF Attach, Cancel, AnswerConflict, ApproveWrite, Crash, Idle
<1> QED
  BY <1>2, <1>3, <1>4, <1>5, <1>6, <1>7
     DEF Next, CheckoutManualProof, ProviderPays, ProviderExpires, ProviderDoubts,
         UploadProof, Reject

-----------------------------------------------------------------------------
(* What a step does to one payment.                                        *)

\* The credits of p are the same, and so is the payment's row, or ..
Uncredited(p) == (Approved(p)' <=> Approved(p)) /\ (Confirmed(p)' <=> Confirmed(p))

\* .. it was absent, is in review, or an attach or a cancellation came ..
RequestMoves(p) ==
  \/ rows[p] = Absent /\ rows'[p].status \in {"pending_proof", "pending_payment"}
  \/ rows[p].status \in InReview /\ rows'[p].status \in InReview
  \/ ToAttach(p) /\ rows'[p].status = "pending_payment"
  \/ rows[p].status = "pending_payment" /\ rows'[p].status = "cancelled"

\* .. a snapshot was written.
SnapshotMoves(p) ==
  \/ Tainted(p) /\ rows'[p].status = "needs_review"
  \/ /\ rows[p].status # "paid"
     /\ \E c \in Calls :
          /\ Applies(calls[c], p) /\ calls[c].snap \in Snapshot
          /\ rows'[p].status = Mapped(calls[c].snap.status)
          /\ rows'[p].status # "paid"

Moves(p) == /\ Uncredited(p)
            /\ rows'[p].status = rows[p].status \/ RequestMoves(p) \/ SnapshotMoves(p)

\* The provider's confirmation is credited, or an admin approves.
ConfirmedNow(p) ==
  /\ rows'[p].status = "paid"
  /\ Approved(p)' <=> Approved(p)
  /\ Confirmed(p)' => Confirmed(p) \/ (rows[p].status # "paid" /\ provider[p] # None
                                                             /\ provider[p].exact)

ApprovedNow(p) ==
  /\ rows[p].status \in Review /\ rows'[p].status = "paid"
  /\ Confirmed(p)' <=> Confirmed(p)

LEMMA SameCredits ==
  ASSUME NEW p \in Payments, UNCHANGED credits
  PROVE  Uncredited(p)
BY DEF Uncredited, Approved, Confirmed

LEMMA RequestStep ==
  ASSUME Known, NEW p \in Payments, NEW q \in Payments,
         \/ CheckoutManualProof(q) \/ UploadProof(q) \/ Reject(q)
         \/ \E c \in Calls : Reserve(c, q)
  PROVE  Moves(p)
<1>0. rows \in [Payments -> Row]
  BY DEF Known, TypeOK
<1>1. UNCHANGED credits
  BY DEF CheckoutManualProof, UploadProof, Reject, Reserve
<1>2. CASE q # p
  <2>1. rows'[p] = rows[p]
    BY <1>0, <1>2 DEF CheckoutManualProof, UploadProof, Reject, Reserve
  <2> QED
    BY <1>1, <2>1, SameCredits DEF Moves
<1>3. CASE q = p
  <2>1. RequestMoves(p)
    BY <1>0, <1>3 DEF RequestMoves, CheckoutManualProof, UploadProof, Reject, Reserve,
                      InReview, Review, Row
  <2> QED
    BY <1>1, <2>1, SameCredits DEF Moves
<1> QED
  BY <1>2, <1>3

LEMMA AnswerStep ==
  ASSUME Known, NEW p \in Payments, NEW c \in Calls, Attach(c) \/ Cancel(c)
  PROVE  Moves(p)
<1>0. rows \in [Payments -> Row]
  BY DEF Known, TypeOK
<1>1. UNCHANGED credits
  BY DEF Attach, Cancel
<1>2. PICK q \in Payments : q = calls[c].payment
  BY CallShape DEF Attach, Cancel, Known, TypeOK
<1>3. CASE q # p
  <2>1. rows'[p] = rows[p]
    BY <1>0, <1>2, <1>3 DEF Attach, Cancel
  <2> QED
    BY <1>1, <2>1, SameCredits DEF Moves
<1>4. CASE q = p /\ Attach(c)
  <2>1. rows'[p].status = Mapped("PENDING")
    BY <1>0, <1>2, <1>4 DEF Attach, Row
  <2>2. RequestMoves(p)
    BY <1>2, <1>4, <2>1 DEF RequestMoves, Attach, ToAttach, Mapped
  <2> QED
    BY <1>1, <2>2, SameCredits DEF Moves
<1>5. CASE q = p /\ Cancel(c)
  <2>1. rows'[p].status = IF rows[p].status = "pending_payment" THEN "cancelled" ELSE rows[p].status
    BY <1>0, <1>2, <1>5 DEF Cancel, Row
  <2>2. rows'[p].status = rows[p].status \/ RequestMoves(p)
    BY <2>1 DEF RequestMoves
  <2> QED
    BY <1>1, <2>2, SameCredits DEF Moves
<1> QED
  BY <1>3, <1>4, <1>5

LEMMA ApplyStep ==
  ASSUME Known, NEW p \in Payments, NEW c \in Calls, ApplyWrite(c)
  PROVE  Moves(p) \/ ConfirmedNow(p)
<1>0. rows \in [Payments -> Row]
  BY DEF Known, TypeOK
<1>1. PICK q \in Payments, s \in Snapshot :
        /\ calls[c].at = "applying" /\ calls[c].payment = q /\ calls[c].snap = s
        /\ UNCHANGED <<rows, credits>> \/ Doubted(q, s) \/ Followed(q, s) \/ Paid(q, s)
  BY ApplyWriteCases
<1>2. CASE UNCHANGED <<rows, credits>>
  BY <1>2, SameCredits DEF Moves
<1>3. CASE q # p /\ (Doubted(q, s) \/ Followed(q, s))
  <2>1. rows'[p] = rows[p]
    BY <1>0, <1>3 DEF Doubted, Followed
  <2> QED
    BY <1>3, <2>1, SameCredits DEF Moves, Doubted, Followed
<1>4. CASE q = p /\ Doubted(q, s)
  <2>1. rows'[p].status = "needs_review"
    BY <1>0, <1>4, WithExternalShape DEF Doubted, Statuses
  <2> QED
    BY <1>4, <2>1, SameCredits DEF Moves, SnapshotMoves, Doubted
<1>5. CASE q = p /\ Followed(q, s)
  <2>1. Mapped(s.status) \in Statuses
    BY MappedShape DEF Snapshot, Statuses
  <2>2. rows'[p].status = Mapped(s.status)
    BY <1>0, <1>5, <2>1, WithExternalShape DEF Followed
  <2>3. SnapshotMoves(p)
    BY <1>1, <1>5, <2>2 DEF SnapshotMoves, Followed, Applies
  <2> QED
    BY <1>5, <2>3, SameCredits DEF Moves, Followed
<1>6. CASE q # p /\ Paid(q, s)
  <2>1. rows'[p] = rows[p]
    BY <1>0, <1>6 DEF Paid
  <2>2. Uncredited(p)
    BY <1>6 DEF Paid, Uncredited, Approved, Confirmed
  <2> QED
    BY <2>1, <2>2 DEF Moves
<1>7. CASE q = p /\ Paid(q, s)
  <2>0. /\ rows[p] \in Row
        /\ "paid" \in Statuses
    BY <1>0 DEF Statuses
  <2>a. WithExternal(rows[p], "paid", s).status = "paid"
    BY <2>0, WithExternalShape
  <2>b. rows' = [rows EXCEPT ![p] = WithExternal(rows[p], "paid", s)]
    BY <1>7 DEF Paid
  <2>1. rows'[p].status = "paid"
    BY <1>0, <2>a, <2>b
  <2>2. Approved(p)' <=> Approved(p)
    BY <1>7 DEF Paid, Approved
  <2>3. provider[p] # None /\ provider[p].exact
    BY <1>7, NoneIsNoSnapshot DEF Paid
  <2>4. Confirmed(p)' => Confirmed(p) \/ rows[p].status # "paid"
    BY <1>7 DEF Paid, Confirmed
  <2> QED
    BY <2>1, <2>2, <2>3, <2>4 DEF ConfirmedNow
<1> QED
  BY <1>1, <1>2, <1>3, <1>4, <1>5, <1>6, <1>7

LEMMA ApproveStep ==
  ASSUME Known, NEW p \in Payments, NEW c \in Calls, ApproveWrite(c)
  PROVE  Moves(p) \/ ApprovedNow(p)
<1>0. rows \in [Payments -> Row]
  BY DEF Known, TypeOK
<1>1. CASE UNCHANGED <<rows, credits>>
  BY <1>1, SameCredits DEF Moves
<1>2. ASSUME NEW q \in Payments, NEW a \in Admins, NEW ref \in Refs,
             rows[q].status \in Review, ApprovedBy(q, a, ref)
      PROVE  Moves(p) \/ ApprovedNow(p)
  <2>1. CASE q # p
    <3>1. rows'[p] = rows[p]
      BY <1>0, <1>2, <2>1 DEF ApprovedBy
    <3>2. Uncredited(p)
      BY <1>2, <2>1 DEF ApprovedBy, Uncredited, Approved, Confirmed
    <3> QED
      BY <3>1, <3>2 DEF Moves
  <2>2. CASE q = p
    <3>1. rows'[p].status = "paid"
      BY <1>0, <1>2, <2>2 DEF ApprovedBy, Row
    <3>2. Confirmed(p)' <=> Confirmed(p)
      BY <1>2 DEF ApprovedBy, Confirmed
    <3> QED
      BY <1>2, <2>2, <3>1, <3>2 DEF ApprovedNow
  <2> QED
    BY <2>1, <2>2
<1> QED
  BY <1>1, <1>2, ApproveWriteCases

LEMMA StepOf ==
  ASSUME Known, Next, NEW p \in Payments
  PROVE  Moves(p) \/ ConfirmedNow(p) \/ ApprovedNow(p)
<1>1. CASE UNCHANGED <<rows, credits>>
  BY <1>1, SameCredits DEF Moves
<1> QED
  BY <1>1, RequestStep, AnswerStep, ApplyStep, ApproveStep
     DEF Next, ProviderPays, ProviderExpires, ProviderDoubts, Refresh, ApproveRead,
         CreateExternal, ReceiveCallback, ApplyRead, AnswerConflict, Crash

-----------------------------------------------------------------------------
(* The invariant is kept.                                                  *)

\* An exact record can be doubted only as the double of another.
LEMMA ConfirmedIsExact ==
  ASSUME CreditsTrue, NEW p \in Payments, Confirmed(p)
  PROVE  /\ provider[p] # None
         /\ provider[p].status \in Closed
         /\ Tainted(p) => Shared(p)
BY DEF CreditsTrue, Confirmed, Tainted, Closed

LEMMA AbsentIsUncredited ==
  ASSUME Known, CreditsTrue, NEW p \in Payments, OnceOf(p), rows[p] = Absent
  PROVE  ~Approved(p) /\ ~Confirmed(p) /\ ~ToAttach(p)
<1>1. provider[p] = None /\ ~Early(p) /\ rows[p].status = "absent"
  BY AbsentIsFree DEF Absent
<1>2. ~Tainted(p)
  BY <1>1 DEF Tainted, Shared
<1> QED
  BY <1>1, <1>2, ConfirmedIsExact DEF OnceOf, Early, ToAttach, Creates

LEMMA EarlySnaps ==
  ASSUME Known, NEW p \in Payments, ToAttach(p)
  PROVE  SnapsClosed(p)
BY DEF Known, EarlyIsClosed, Early, ToAttach, Creates, SnapsClosed

\* A closed snapshot that is not PAID is an expired one.
LEMMA ClosedMaps ==
  ASSUME NEW s \in Snapshot, s.status \in Closed, Mapped(s.status) # "paid"
  PROVE  Mapped(s.status) = "expired"
BY DEF Snapshot, Closed, Mapped

LEMMA AttachKeepsOnce ==
  ASSUME Known, CreditsTrue, Next, NEW p \in Payments, OnceOf(p), ToAttach(p)'
  PROVE  /\ rows'[p].status \in InReview => Tainted(p)'
         /\ Approved(p)' => Tainted(p)'
<1>1. Tainted(p) => Tainted(p)'
  BY TaintedStands, NextAdvances
<1>2. CASE /\ rows[p] = Absent /\ rows'[p].status = "pending_payment"
           /\ UNCHANGED credits
  BY <1>2, AbsentIsUncredited, SameCredits DEF Uncredited, InReview, Review
<1>3. CASE ToAttach(p)
  <2>1. /\ rows[p].status \in InReview => Tainted(p)
        /\ Approved(p) => Tainted(p)
    BY <1>3 DEF OnceOf
  <2>2. CASE Moves(p)
    <3>1. Approved(p)' => Approved(p)
      BY <2>2 DEF Moves, Uncredited
    <3>2. CASE RequestMoves(p)
      BY <1>1, <1>3, <2>1, <3>1, <3>2, AbsentIsUncredited DEF RequestMoves, InReview, Review
    <3>3. CASE SnapshotMoves(p)
      <4>1. CASE Tainted(p)
        BY <1>1, <4>1
      <4>2. CASE rows'[p].status # "needs_review"
        <5>1. PICK c \in Calls : /\ Applies(calls[c], p) /\ calls[c].snap \in Snapshot
                                 /\ rows'[p].status = Mapped(calls[c].snap.status)
                                 /\ rows'[p].status # "paid"
          BY <3>3, <4>2 DEF SnapshotMoves
        <5>2. rows'[p].status = "expired"
          BY <1>3, <5>1, EarlySnaps, ClosedMaps DEF SnapsClosed
        <5> QED
          BY <1>1, <2>1, <3>1, <5>2 DEF InReview, Review
      <4>3. CASE ~Tainted(p) /\ rows'[p].status = "needs_review"
        <5>1. PICK c \in Calls : /\ Applies(calls[c], p) /\ calls[c].snap \in Snapshot
                                 /\ rows'[p].status = Mapped(calls[c].snap.status)
                                 /\ rows'[p].status # "paid"
          BY <3>3, <4>3 DEF SnapshotMoves
        <5>2. rows'[p].status = "expired"
          BY <1>3, <5>1, EarlySnaps, ClosedMaps DEF SnapsClosed
        <5> QED
          BY <4>3, <5>2
      <4> QED
        BY <4>1, <4>2, <4>3
    <3>4. CASE rows'[p].status = rows[p].status
      BY <1>1, <2>1, <3>1, <3>4
    <3> QED
      BY <2>2, <3>2, <3>3, <3>4 DEF Moves
  <2>3. CASE ConfirmedNow(p)
    BY <1>1, <2>1, <2>3 DEF ConfirmedNow, InReview, Review
  <2>4. CASE ApprovedNow(p)
    BY <1>1, <2>1, <2>4 DEF ApprovedNow, InReview
  <2> QED
    BY <2>2, <2>3, <2>4, StepOf
<1> QED
  BY <1>2, <1>3, AttachComes

LEMMA ApprovedStays ==
  ASSUME Known, CreditsTrue, Next, NEW p \in Payments, OnceOf(p), Approved(p)'
  PROVE  rows'[p].status = "paid" \/ Tainted(p)'
<1>1. Tainted(p) => Tainted(p)'
  BY TaintedStands, NextAdvances
<1>2. CASE Moves(p)
  <2>1. Approved(p) /\ (rows[p].status = "paid" \/ Tainted(p)) /\ (ToAttach(p) => Tainted(p))
    BY <1>2 DEF Moves, Uncredited, OnceOf
  <2>2. CASE RequestMoves(p)
    BY <1>1, <2>1, <2>2, AbsentIsUncredited DEF RequestMoves, InReview, Review
  <2> QED
    BY <1>1, <1>2, <2>1, <2>2 DEF Moves, SnapshotMoves
<1> QED
  BY <1>2, StepOf DEF ConfirmedNow, ApprovedNow

LEMMA ConfirmedStays ==
  ASSUME Known, CreditsTrue, Next, NEW p \in Payments, OnceOf(p), Confirmed(p)'
  PROVE  rows'[p].status = "paid" \/ Shared(p)' \/ Reopened(p)'
<1>1. Shared(p) => Shared(p)'
  BY SharedStands, NextAdvances DEF Known
<1>2. CASE Moves(p)
  <2>1. Confirmed(p)
    BY <1>2 DEF Moves, Uncredited
  <2>2. rows[p].status = "paid" \/ Shared(p) \/ Reopened(p)
    BY <2>1 DEF OnceOf
  <2>3. SnapsClosed(p) => SnapsClosed(p)'
    BY <2>1, ConfirmedIsExact, SnapsStayClosed
  <2>4. CASE rows'[p].status = rows[p].status
    BY <1>1, <2>2, <2>3, <2>4 DEF Reopened
  <2>5. CASE RequestMoves(p)
    <3>1. CASE ToAttach(p) /\ rows'[p].status = "pending_payment"
      BY <2>3, <3>1, EarlySnaps DEF Reopened
    <3>2. CASE rows[p].status \in InReview
      BY <1>1, <2>2, <3>2 DEF InReview, Review, Reopened
    <3>3. CASE rows[p].status = "pending_payment" /\ rows'[p].status = "cancelled"
      BY <1>1, <2>2, <2>3, <3>3 DEF Reopened
    <3> QED
      BY <2>1, <2>5, <3>1, <3>2, <3>3, AbsentIsUncredited DEF RequestMoves
  <2>6. CASE SnapshotMoves(p)
    <3>1. CASE Tainted(p)
      BY <1>1, <2>1, <3>1, ConfirmedIsExact
    <3>2. CASE ~Tainted(p)
      <4>1. PICK c \in Calls : /\ Applies(calls[c], p) /\ calls[c].snap \in Snapshot
                               /\ rows'[p].status = Mapped(calls[c].snap.status)
                               /\ rows'[p].status # "paid"
        BY <2>6, <3>2 DEF SnapshotMoves
      <4>2. rows[p].status # "paid"
        BY <2>6, <3>2 DEF SnapshotMoves
      <4>3. CASE Reopened(p)
        <5>1. rows'[p].status = "expired"
          BY <4>1, <4>3, ClosedMaps DEF Reopened, SnapsClosed
        <5> QED
          BY <2>3, <4>3, <5>1 DEF Reopened
      <4> QED
        BY <1>1, <2>2, <4>2, <4>3
    <3> QED
      BY <3>1, <3>2
  <2> QED
    BY <1>2, <2>4, <2>5, <2>6 DEF Moves
<1> QED
  BY <1>2, StepOf DEF ConfirmedNow, ApprovedNow

LEMMA NeverBoth ==
  ASSUME Known, CreditsTrue, Next, NEW p \in Payments, OnceOf(p), Approved(p)', Confirmed(p)'
  PROVE  Shared(p)'
<1>1. Shared(p) => Shared(p)'
  BY SharedStands, NextAdvances DEF Known
<1>2. CASE Moves(p)
  BY <1>1, <1>2 DEF Moves, Uncredited, OnceOf
<1>3. CASE ConfirmedNow(p)
  BY <1>1, <1>3 DEF ConfirmedNow, OnceOf, Tainted
<1>4. CASE ApprovedNow(p)
  BY <1>1, <1>4 DEF ApprovedNow, OnceOf, Reopened, Review
<1> QED
  BY <1>2, <1>3, <1>4, StepOf

LEMMA OneOfAKindKept ==
  ASSUME Known, CreditsTrue, OneOfAKind, Next
  PROVE  OneOfAKind'
<1>1. CASE UNCHANGED credits
  BY <1>1 DEF OneOfAKind
<1>2. ASSUME NEW p \in Payments, NEW s \in Snapshot, Paid(p, s)
      PROVE  OneOfAKind'
  <2>1. \A e \in credits : e.kind = "slai" /\ e.payment = p =>
          e = [kind |-> "slai", payment |-> p, admin |-> None]
    BY DEF CreditsTrue, Known, TypeOK, Credit
  <2> QED
    BY <1>2, <2>1 DEF Paid, OneOfAKind
<1>3. ASSUME NEW p \in Payments, NEW a \in Admins, NEW ref \in Refs, ApprovedBy(p, a, ref)
      PROVE  OneOfAKind'
  <2>1. \A e \in credits : e.kind = "approve" /\ e.payment = p =>
          e = [kind |-> "approve", payment |-> p, admin |-> a]
    BY <1>3 DEF ApprovedBy, Known, TypeOK, Credit
  <2> QED
    BY <1>3, <2>1 DEF ApprovedBy, OneOfAKind
<1> QED
  BY <1>1, <1>2, <1>3, CreditsStep

LEMMA OnceKept ==
  ASSUME Known, CreditsTrue, Once, [Next]_vars
  PROVE  Once'
<1>1. CASE UNCHANGED vars
  BY <1>1 DEF vars, Once, OneOfAKind, OnceOf, ToAttach, Approved, Confirmed, Tainted, Shared,
              Reopened, SnapsClosed
<1>2. CASE Next
  <2>1. OneOfAKind'
    BY <1>2, OneOfAKindKept DEF Once
  <2>2. ASSUME NEW p \in Payments PROVE OnceOf(p)'
    <3>1. OnceOf(p)
      BY DEF Once
    <3> QED
      BY <1>2, <3>1, AttachKeepsOnce, ApprovedStays, ConfirmedStays, NeverBoth DEF OnceOf
  <2> QED
    BY <2>1, <2>2 DEF Once
<1> QED
  BY <1>1, <1>2

\* A payment has one credit, or it has one of each kind and shares its bank
\* transaction with another.
LEMMA OnceSuffices ==
  ASSUME Known, Once
  PROVE  OwnTransactionCreditedOnce
<1> SUFFICES ASSUME NEW p \in Payments, ~Shared(p)
             PROVE  Cardinality(CreditsOf(p)) <= 1
  BY DEF OwnTransactionCreditedOnce, Shared
<1>1. \A e, f \in CreditsOf(p) : e = f
  <2>1. \A e \in CreditsOf(p) : e \in credits /\ e.kind \in {"approve", "slai"} /\ e.payment = p
    BY DEF CreditsOf, Known, TypeOK, Credit
  <2>2. ~(Approved(p) /\ Confirmed(p))
    BY DEF Once, OnceOf
  <2> QED
    BY <2>1, <2>2 DEF Once, OneOfAKind, Approved, Confirmed
<1>2. CASE CreditsOf(p) = {}
  BY <1>2, FS_EmptySet
<1>3. CASE CreditsOf(p) # {}
  <2>1. PICK e \in CreditsOf(p) : TRUE
    BY <1>3
  <2>2. CreditsOf(p) = {e}
    BY <1>1, <2>1
  <2>3. Cardinality({e}) = 1
    BY FS_Singleton
  <2> QED
    BY <2>2, <2>3
<1> QED
  BY <1>2, <1>3

\* However callbacks, refreshes, approvals, attaches and crashes interleave, a
\* payment whose bank transaction no other payment has is credited at most once.
THEOREM CreditedAtMostOnce == Spec => []OwnTransactionCreditedOnce
<1>1. Init => CreditsTrue /\ Once
  BY DEF Init, CreditsTrue, Once, OneOfAKind, OnceOf, ToAttach, Approved, Confirmed, Idle
<1>2. Known /\ CreditsTrue /\ Once /\ [Next]_vars => CreditsTrue' /\ Once'
  BY CreditsStayTrue, OnceKept
<1>3. Known /\ Once => OwnTransactionCreditedOnce
  BY OnceSuffices
<1> QED
  BY PaymentsKnown, <1>1, <1>2, <1>3, PTL DEF Spec

-----------------------------------------------------------------------------
(* What README.md and docs/architecture.md promise, and when it is so.     *)

\* A record's transaction is one that the provider may match to its payment.
Matched ==
  \A p \in Payments :
    provider[p] # None => provider[p].txn \in TxnOf[p] \cup {None}

LEMMA MatchedKept ==
  ASSUME Known, Matched, [Next]_vars
  PROVE  Matched'
<1> SUFFICES ASSUME NEW p \in Payments, provider'[p] # None
             PROVE  provider'[p].txn \in TxnOf[p] \cup {None}
  BY DEF Matched
<1>1. /\ provider \in [Payments -> Snapshot \cup {None}]
      /\ \A c \in Calls : calls[c].at = "create" => calls[c].payment \in Payments
  BY CallShape DEF Known, TypeOK
<1>2. CASE provider' = provider
  BY <1>2 DEF Matched
<1>3. ASSUME NEW c \in Calls, CreateExternal(c)
      PROVE  provider'[p].txn \in TxnOf[p] \cup {None}
  <2>1. \/ provider'[p] = provider[p]
        \/ provider'[p].txn = None
    BY <1>1, <1>3 DEF CreateExternal
  <2> QED
    BY <2>1 DEF Matched
<1>4. ASSUME NEW q \in Payments, ProviderPays(q)
      PROVE  provider'[p].txn \in TxnOf[p] \cup {None}
  <2>1. provider[q] \in Snapshot
    BY <1>1, <1>4 DEF ProviderPays
  <2>2. PICK t \in TxnOf[q] \cup {None}, e \in BOOLEAN :
          provider' = [provider EXCEPT ![q] =
            [provider[q] EXCEPT !.status = "PAID", !.txn = t, !.exact = e]]
    BY <1>4 DEF ProviderPays
  <2>3. CASE p = q
    BY <1>1, <2>1, <2>2, <2>3 DEF Snapshot
  <2>4. CASE p # q
    BY <1>1, <2>2, <2>4 DEF Matched
  <2> QED
    BY <2>3, <2>4
<1>5. ASSUME NEW q \in Payments, ProviderExpires(q) \/ ProviderDoubts(q)
      PROVE  provider'[p].txn \in TxnOf[p] \cup {None}
  <2>1. provider[q] \in Snapshot
    BY <1>1, <1>5 DEF ProviderExpires, ProviderDoubts
  <2>2. CASE p = q
    <3>1. provider'[p].txn = provider[p].txn
      BY <1>1, <1>5, <2>1, <2>2 DEF ProviderExpires, ProviderDoubts, Snapshot
    <3> QED
      BY <1>1, <1>5, <2>2, <3>1 DEF Matched, ProviderExpires, ProviderDoubts
  <2>3. CASE p # q
    BY <1>1, <1>5, <2>3 DEF Matched, ProviderExpires, ProviderDoubts
  <2> QED
    BY <2>2, <2>3
<1> QED
  BY <1>2, <1>3, <1>4, <1>5
     DEF Next, vars, CheckoutManualProof, UploadProof, Reject, Reserve, Refresh, ApproveRead,
         Attach, Cancel, ReceiveCallback, ApplyRead, ApplyWrite, AnswerConflict, ApproveWrite,
         Crash

\* README.md and docs/architecture.md promise that repeated callbacks and
\* refreshes cannot double-credit.  That is so when the provider matches no
\* bank transaction to two payments; PaymentsDouble.cfg shows that it is not
\* so otherwise.
THEOREM NoDoubleCredit ==
  ASSUME \A p, q \in Payments : p # q => TxnOf[p] \cap TxnOf[q] = {}
  PROVE  Spec => []CreditedOnce
<1>1. Init => Matched
  BY DEF Init, Matched
<1>2. Known /\ Matched /\ [Next]_vars => Matched'
  BY MatchedKept
<1>3. Matched /\ OwnTransactionCreditedOnce => CreditedOnce
  BY PaymentsAssumption DEF Matched, OwnTransactionCreditedOnce, CreditedOnce, Shared
<1> QED
  BY PaymentsKnown, CreditedAtMostOnce, <1>1, <1>2, <1>3, PTL DEF Spec
-----------------------------------------------------------------------------
(* The refinement.  Every step is, of the purchases, one of four things.   *)

\* A paid payment has its entry on the ledger.
PaidIsCredited ==
  \A p \in Payments : rows[p].status = "paid" => \E e \in credits : e.payment = p

OtherRows(p) == \A q \in Payments \ {p} : rows'[q] = rows[q]

\* p is not paid any more, or was not before.
Reopens(p) == OtherRows(p) /\ rows'[p].status # "paid" /\ UNCHANGED <<provider, credits>>

\* No purchase changes.
NoRow == UNCHANGED credits /\ \A q \in Payments : rows'[q] = rows[q]

ByProvider(p, s) == Paid(p, s) /\ UNCHANGED provider

ByDesk(p, a, ref) ==
  ApprovedBy(p, a, ref) /\ rows[p].status \in Review /\ UNCHANGED provider

LEMMA PurchaseStep ==
  ASSUME Known, Next
  PROVE  \/ NoRow
         \/ \E p \in Payments : Reopens(p)
         \/ \E p \in Payments, s \in Snapshot : ByProvider(p, s)
         \/ \E p \in Payments, a \in Admins, ref \in Refs : ByDesk(p, a, ref)
<1>0. rows \in [Payments -> Row]
  BY DEF Known, TypeOK
<1>1. ASSUME NEW p \in Payments, CheckoutManualProof(p) \/ UploadProof(p) \/ Reject(p)
      PROVE  Reopens(p)
  BY <1>0, <1>1 DEF CheckoutManualProof, UploadProof, Reject, Row, Reopens, OtherRows
<1>2. ASSUME NEW c \in Calls, NEW p \in Payments, Reserve(c, p)
      PROVE  Reopens(p)
  BY <1>0, <1>2 DEF Reserve, Row, Reopens, OtherRows
<1>3. ASSUME NEW c \in Calls, Attach(c)
      PROVE  \E p \in Payments : Reopens(p)
  <2>1. PICK p \in Payments : p = calls[c].payment
    BY <1>3, CallShape DEF Attach, Known, TypeOK
  <2>2. OtherRows(p) /\ rows'[p].status = Mapped("PENDING")
    BY <1>0, <1>3, <2>1 DEF Attach, Row, OtherRows
  <2> QED
    BY <1>3, <2>2, MappedShape DEF Reopens, Attach
<1>4. ASSUME NEW c \in Calls, Cancel(c)
      PROVE  NoRow \/ \E p \in Payments : Reopens(p)
  <2>1. PICK p \in Payments : p = calls[c].payment
    BY <1>4, CallShape DEF Cancel, Known, TypeOK
  <2>2. /\ OtherRows(p)
        /\ rows'[p] = [rows[p] EXCEPT !.status =
                         IF rows[p].status = "pending_payment" THEN "cancelled"
                         ELSE rows[p].status]
    BY <1>0, <1>4, <2>1 DEF Cancel, OtherRows
  <2>3. rows'[p].status = "paid" => rows'[p] = rows[p]
    BY <1>0, <2>2 DEF Row
  <2> QED
    BY <1>4, <2>2, <2>3 DEF NoRow, Reopens, OtherRows, Cancel
<1>5. ASSUME NEW c \in Calls, ApplyWrite(c)
      PROVE  \/ NoRow
             \/ \E p \in Payments : Reopens(p)
             \/ \E p \in Payments, s \in Snapshot : ByProvider(p, s)
  <2>1. PICK p \in Payments, s \in Snapshot :
          UNCHANGED <<rows, credits>> \/ Doubted(p, s) \/ Followed(p, s) \/ Paid(p, s)
    BY <1>5, ApplyWriteCases
  <2>2. UNCHANGED provider
    BY <1>5 DEF ApplyWrite
  <2>3. CASE Doubted(p, s)
    <3>1. rows'[p].status = "needs_review"
      BY <1>0, <2>3, WithExternalShape DEF Doubted, Statuses
    <3> QED
      BY <1>0, <2>2, <2>3, <3>1 DEF Doubted, Reopens, OtherRows
  <2>4. CASE Followed(p, s)
    <3>1. Mapped(s.status) \in Statuses
      BY MappedShape DEF Snapshot, Statuses
    <3>2. rows'[p].status = Mapped(s.status)
      BY <1>0, <2>4, <3>1, WithExternalShape DEF Followed
    <3> QED
      BY <1>0, <2>2, <2>4, <3>2 DEF Followed, Reopens, OtherRows
  <2> QED
    BY <2>1, <2>2, <2>3, <2>4 DEF NoRow, ByProvider
<1>6. ASSUME NEW c \in Calls, ApproveWrite(c)
      PROVE  NoRow \/ \E p \in Payments, a \in Admins, ref \in Refs : ByDesk(p, a, ref)
  <2>1. UNCHANGED provider
    BY <1>6 DEF ApproveWrite
  <2> QED
    BY <1>6, <2>1, ApproveWriteCases DEF NoRow, ByDesk
<1>7. CASE UNCHANGED <<rows, credits>>
  BY <1>7 DEF NoRow
<1> QED
  BY <1>1, <1>2, <1>3, <1>4, <1>5, <1>6, <1>7
     DEF Next, ProviderPays, ProviderExpires, ProviderDoubts, Refresh, ApproveRead,
         CreateExternal, ReceiveCallback, ApplyRead, AnswerConflict, Crash

LEMMA CreditedKept ==
  ASSUME Known, PaidIsCredited, [Next]_vars
  PROVE  PaidIsCredited'
<1>1. CASE UNCHANGED vars \/ NoRow
  BY <1>1 DEF vars, NoRow, PaidIsCredited
<1>2. ASSUME NEW p \in Payments, Reopens(p) PROVE PaidIsCredited'
  BY <1>2 DEF Reopens, OtherRows, PaidIsCredited
<1>3. ASSUME NEW p \in Payments, NEW s \in Snapshot, Paid(p, s) PROVE PaidIsCredited'
  <2>1. credits \subseteq credits' /\ OtherRows(p)
    BY <1>3 DEF Paid, OtherRows, Known, TypeOK
  <2>2. PICK new : new = [kind |-> "slai", payment |-> p, admin |-> None]
    OBVIOUS
  <2>3. new.payment = p /\ (rows[p].status = "paid" \/ new \in credits')
    BY <1>3, <2>2 DEF Paid
  <2> QED
    BY <2>1, <2>3 DEF OtherRows, PaidIsCredited
<1>4. ASSUME NEW p \in Payments, NEW a \in Admins, NEW ref \in Refs, ApprovedBy(p, a, ref)
      PROVE  PaidIsCredited'
  <2>1. credits \subseteq credits' /\ OtherRows(p)
    BY <1>4 DEF ApprovedBy, OtherRows, Known, TypeOK
  <2>2. PICK new : new = [kind |-> "approve", payment |-> p, admin |-> a]
    OBVIOUS
  <2>3. new.payment = p /\ new \in credits'
    BY <1>4, <2>2 DEF ApprovedBy
  <2> QED
    BY <2>1, <2>3 DEF OtherRows, PaidIsCredited
<1> QED
  BY <1>1, <1>2, <1>3, <1>4, PurchaseStep DEF ByProvider, ByDesk

\* A payment that shows as paid has its entry on the ledger, at every moment:
\* no request, however it interleaves or dies, leaves one without the other.
THEOREM PaidCredited == Spec => []PaidIsCredited
<1>1. Init => PaidIsCredited
  BY DEF Init, Absent, PaidIsCredited
<1>2. Known /\ PaidIsCredited /\ [Next]_vars => PaidIsCredited'
  BY CreditedKept
<1> QED
  BY <1>1, <1>2, PaymentsKnown, PTL DEF Spec

TenderOf(r) == IF r.status = "paid" THEN [txn |-> r.txn, ref |-> r.ref] ELSE None

LEMMA TenderStep ==
  ASSUME NEW p \in Payments, OtherRows(p)
  PROVE  PaidWithTender' = [PaidWithTender EXCEPT ![p] = TenderOf(rows'[p])]
BY DEF PaidWithTender, TenderOf, OtherRows

\* A row that the unique indexes let become paid has an unused tender.
LEMMA UnusedTender ==
  ASSUME NEW p \in Payments, NEW r \in Row, r.status = "paid", ~UniqueViolation(p, r)
  PROVE  TenderOf(r) \in Tenders /\ Abs!Unused(p, TenderOf(r))
<1>1. TenderOf(r) = [txn |-> r.txn, ref |-> r.ref]
  BY DEF TenderOf
<1>2. TenderOf(r) \in Tenders
  BY <1>1 DEF Tenders, Row
<1>3. ASSUME NEW q \in Payments \ {p}, PaidWithTender[q] # None
      PROVE  /\ r.txn = None \/ r.txn # PaidWithTender[q].txn
             /\ r.ref = None \/ r.ref # PaidWithTender[q].ref
  <2>1. /\ rows[q].status = "paid"
        /\ PaidWithTender[q].txn = rows[q].txn
        /\ PaidWithTender[q].ref = rows[q].ref
    BY <1>3 DEF PaidWithTender
  <2> QED
    BY <2>1 DEF UniqueViolation, PaidWith
<1> QED
  BY <1>1, <1>2, <1>3 DEF Abs!Unused

\* A checkout that begins is of a payment without credits.
LEMMA OpeningStep ==
  ASSUME Known, CreditsTrue, Once, Next, NEW p \in Opening', p \notin Opening
  PROVE  /\ rows[p] = Absent /\ rows'[p].status = "pending_payment"
         /\ PaidWithTender[p] = None
         /\ ~Abs!Credited(p)
<1>1. p \in Payments /\ ToAttach(p)' /\ ~ToAttach(p)
  BY DEF Opening
<1>2. rows[p] = Absent /\ rows'[p].status = "pending_payment"
  BY <1>1, AttachComes
<1>3. PaidWithTender[p] = None
  BY <1>1, <1>2 DEF Absent, PaidWithTender
<1>4. ~Approved(p) /\ ~Confirmed(p)
  BY <1>1, <1>2, AbsentIsUncredited DEF Once
<1>5. ~Abs!Credited(p)
  BY <1>4 DEF Abs!Credited, Approved, Confirmed, Known, TypeOK, Credit
<1> QED
  BY <1>2, <1>3, <1>5

\* None begins with a step that touches a payment that is or becomes paid.
LEMMA NoneOpens ==
  ASSUME Known, CreditsTrue, Once, Next, NEW p \in Payments, OtherRows(p),
         rows[p].status = "paid" \/ rows'[p].status = "paid"
  PROVE  Opening' \subseteq Opening
<1> SUFFICES ASSUME NEW q \in Opening', q \notin Opening PROVE FALSE
  OBVIOUS
<1>1. rows[q] = Absent /\ rows'[q].status = "pending_payment" /\ q \in Payments
  BY OpeningStep DEF Opening
<1> QED
  BY <1>1 DEF OtherRows, Absent

LEMMA AbsProceed ==
  ASSUME Known, CreditsTrue, Once, Next, UNCHANGED credits,
         \A q \in Payments : TenderOf(rows'[q]) = TenderOf(rows[q])
  PROVE  Abs!Proceed
<1>1. \A p \in Payments : Abs!Confirmed(p) => Abs!Confirmed(p)'
  BY NextAdvances DEF Abs!Confirmed, Advances
<1>2. \A p \in Payments : Abs!Contested(p) => Abs!Contested(p)'
  BY NextAdvances, SharedStands DEF Abs!Contested, Shared, Known
<1>3. UNCHANGED PaidWithTender
  BY DEF PaidWithTender, TenderOf
<1>4. \A p \in Opening' \ Opening : PaidWithTender[p] = None /\ ~Abs!Credited(p)
  BY OpeningStep
<1> QED
  BY <1>1, <1>2, <1>3, <1>4 DEF Abs!Proceed, Abs!Advance

LEMMA AbsReopen ==
  ASSUME Known, CreditsTrue, Once, Next, NEW p \in Payments, Reopens(p)
  PROVE  Abs!Next
<1>1. CASE rows[p].status # "paid"
  <2>1. \A q \in Payments : TenderOf(rows'[q]) = TenderOf(rows[q])
    BY <1>1 DEF Reopens, OtherRows, TenderOf
  <2> QED
    BY <2>1, AbsProceed DEF Reopens, Abs!Next
<1>2. CASE rows[p].status = "paid"
  <2>1. PaidWithTender' = [PaidWithTender EXCEPT ![p] = None]
    BY TenderStep DEF Reopens, TenderOf
  <2>2. UNCHANGED <<credits, provider>>
    BY DEF Reopens
  <2>3. Opening' \subseteq Opening
    BY <1>2, NoneOpens DEF Reopens
  <2>4. ToAttach(p) \/ Tainted(p)
    <3>1. Moves(p)
      BY <1>2, StepOf DEF Reopens, ConfirmedNow, ApprovedNow, Review
    <3> QED
      BY <1>2, <3>1 DEF Moves, Reopens, RequestMoves, SnapshotMoves, Absent, InReview, Review
  <2>5. Abs!Confirmed(p) => Abs!Contested(p) \/ p \in Opening
    BY <2>4 DEF Tainted, Abs!Confirmed, Abs!Contested, Shared, Opening
  <2> QED
    BY <2>1, <2>2, <2>2, <2>3, <2>5 DEF Abs!Reopen, Abs!Next
<1> QED
  BY <1>1, <1>2

\* A payment that becomes paid is credited, unless it has been.
LEMMA AbsPaid ==
  ASSUME Known, CreditsTrue, Once, Once', PaidIsCredited, Next, UNCHANGED provider,
         NEW p \in Payments, NEW r \in Row, NEW e \in Credit,
         rows' = [rows EXCEPT ![p] = r], r.status = "paid", ~UniqueViolation(p, r),
         e.payment = p, e.kind = "slai" => Abs!Confirmed(p),
         \/ rows[p].status = "paid" /\ UNCHANGED credits
         \/ rows[p].status # "paid" /\ credits' = credits \cup {e}
  PROVE  Abs!Next
<1>1. rows'[p] = r /\ OtherRows(p)
  BY DEF Known, TypeOK, OtherRows
<1>2. PaidWithTender' = [PaidWithTender EXCEPT ![p] = TenderOf(r)]
  BY <1>1, TenderStep
<1>3. TenderOf(r) \in Tenders /\ Abs!Unused(p, TenderOf(r))
  BY UnusedTender
<1>4. Opening' \subseteq Opening
  BY <1>1, NoneOpens
<1>5. CASE UNCHANGED credits /\ Abs!Credited(p)
  <2>1. Abs!Settle(p, TenderOf(r))
    BY <1>2, <1>3, <1>4, <1>5 DEF Abs!Settle
  <2> QED
    BY <1>3, <2>1 DEF Abs!Next
<1>6. CASE rows[p].status # "paid" /\ credits' = credits \cup {e} /\ e \notin credits
  <2>1. PaidWithTender[p] = None
    BY <1>6 DEF PaidWithTender
  <2>2. ~Abs!Credited(p) \/ Abs!Contested(p)
    <3> SUFFICES ASSUME NEW f \in credits, f.payment = p PROVE Shared(p)
      BY DEF Abs!Credited, Abs!Contested, Shared
    <3>1. e \in credits' /\ f \in credits' /\ e # f
      BY <1>6
    <3>2. e.kind # f.kind
      BY <3>1 DEF Once, OneOfAKind
    <3>3. /\ e.kind \in {"approve", "slai"}
          /\ f.kind \in {"approve", "slai"}
      BY DEF Credit, Known, TypeOK
    <3>4. (Approved(p) /\ Confirmed(p))'
      BY <3>1, <3>2, <3>3 DEF Approved, Confirmed
    <3>5. Shared(p)'
      BY <3>4 DEF Once, OnceOf
    <3> QED
      BY <3>5 DEF Shared
  <2>3. Abs!Complete(p, TenderOf(r), e)
    BY <1>2, <1>3, <1>4, <1>6, <2>1, <2>2 DEF Abs!Complete
  <2> QED
    BY <1>3, <2>3 DEF Abs!Next
<1>7. CASE credits' = credits \cup {e} /\ e \in credits
  BY <1>5, <1>7 DEF Abs!Credited
<1>8. CASE rows[p].status = "paid" /\ UNCHANGED credits
  BY <1>5, <1>8 DEF PaidIsCredited, Abs!Credited
<1> QED
  BY <1>6, <1>7, <1>8

LEMMA AbsByProvider ==
  ASSUME Known, CreditsTrue, Once, Once', PaidIsCredited, Next,
         NEW p \in Payments, NEW s \in Snapshot, ByProvider(p, s)
  PROVE  Abs!Next
<1>1. PICK r : r = WithExternal(rows[p], "paid", s)
  OBVIOUS
<1>2. r \in Row /\ r.status = "paid"
  BY <1>1, WithExternalShape DEF Known, TypeOK, Statuses
<1>3. PICK e : e = [kind |-> "slai", payment |-> p, admin |-> None]
  OBVIOUS
<1>4. e \in Credit /\ e.payment = p
  BY <1>3 DEF Credit
<1>5. Abs!Confirmed(p)
  BY NoneIsNoSnapshot DEF ByProvider, Paid, Abs!Confirmed
<1>6. /\ rows' = [rows EXCEPT ![p] = r]
      /\ ~UniqueViolation(p, r)
      /\ \/ rows[p].status = "paid" /\ UNCHANGED credits
         \/ rows[p].status # "paid" /\ credits' = credits \cup {e}
      /\ UNCHANGED provider
  BY <1>1, <1>3 DEF ByProvider, Paid
<1> QED
  BY <1>2, <1>4, <1>5, <1>6, AbsPaid

LEMMA AbsByDesk ==
  ASSUME Known, CreditsTrue, Once, Once', PaidIsCredited, Next,
         NEW p \in Payments, NEW a \in Admins, NEW ref \in Refs, ByDesk(p, a, ref)
  PROVE  Abs!Next
<1>1. PICK r : r = [rows[p] EXCEPT !.status = "paid", !.ref = ref]
  OBVIOUS
<1>2. r \in Row /\ r.status = "paid"
  BY <1>1 DEF Known, TypeOK, Row, Statuses
<1>3. PICK e : e = [kind |-> "approve", payment |-> p, admin |-> a]
  OBVIOUS
<1>4. e \in Credit /\ e.payment = p /\ e.kind # "slai"
  BY <1>3 DEF Credit
<1>5. /\ rows' = [rows EXCEPT ![p] = r]
      /\ ~UniqueViolation(p, r)
      /\ rows[p].status # "paid" /\ credits' = credits \cup {e}
      /\ UNCHANGED provider
  BY <1>1, <1>3 DEF ByDesk, ApprovedBy, Review
<1> QED
  BY <1>2, <1>4, <1>5, AbsPaid

LEMMA AbsInit == Init => Abs!Init
BY DEF Init, Absent, Idle, Abs!Init, PaidWithTender, Opening, ToAttach

LEMMA AbsNext ==
  ASSUME Known, CreditsTrue, Once, Once', PaidIsCredited, [Next]_vars
  PROVE  [Abs!Next]_(Abs!vars)
<1>1. CASE UNCHANGED vars
  BY <1>1 DEF vars, Abs!vars, PaidWithTender, Opening, ToAttach
<1>2. CASE Next
  <2>1. CASE NoRow
    BY <1>2, <2>1, AbsProceed DEF NoRow, Abs!Next
  <2>2. CASE \E p \in Payments : Reopens(p)
    BY <1>2, <2>2, AbsReopen
  <2> QED
    BY <1>2, <2>1, <2>2, PurchaseStep, AbsByProvider, AbsByDesk
<1> QED
  BY <1>1, <1>2

\* Requests that lock, read, write, die and are repeated implement purchases
\* that are paid and credited in one step, once, for what the provider or the
\* desk has granted, and with a transaction and reference of their own.
THEOREM PurchasesImplemented == Spec => ImplementsPurchases
<1>1. Init => Known /\ CreditsTrue /\ Once /\ PaidIsCredited
  BY InitKnown DEF Init, Absent, CreditsTrue, Once, OneOfAKind, OnceOf, ToAttach, Approved,
                   Confirmed, Idle, PaidIsCredited
<1>2. Known /\ CreditsTrue /\ Once /\ PaidIsCredited /\ [Next]_vars
        => CreditsTrue' /\ Once' /\ PaidIsCredited'
  BY CreditsStayTrue, OnceKept, CreditedKept
<1>3. Known /\ CreditsTrue /\ Once /\ Once' /\ PaidIsCredited /\ [Next]_vars
        => [Abs!Next]_(Abs!vars)
  BY AbsNext
<1>4. Spec => Abs!Spec
  BY PaymentsKnown, AbsInit, <1>1, <1>2, <1>3, PTL DEF Spec, Abs!Spec
<1> QED
  BY <1>4 DEF ImplementsPurchases

=============================================================================
