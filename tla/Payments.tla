------------------------------ MODULE Payments ------------------------------
(***************************************************************************)
(* payments.Service: package checkout through the slai-payment provider,   *)
(* its signed callbacks, refreshes by the customer, the manual-proof       *)
(* fallback, and the reviews of the admins.                                *)
(*                                                                         *)
(* A call is one HTTP request.  Between two of its steps the other calls,  *)
(* the provider and the payer may do anything: the provider is called      *)
(* outside any transaction, a snapshot of its record is applied later, and *)
(* the duplicate checks read other payments before the row is written.     *)
(* A transaction's read step takes the lock of the payment row, its write  *)
(* step commits; a transaction that can be told from a single step only by *)
(* the lock it waits for is a single step.                                 *)
(*                                                                         *)
(* The ledger posts a credit with the write step, once per key: LedgerTx   *)
(* implements the atomic ledger of module Ledger.  A payment is also its   *)
(* checkout reference and its id at the provider, both unique.             *)
(***************************************************************************)
EXTENDS Naturals, FiniteSets

CONSTANTS
  Payments,   \* payment rows, each with its checkout reference
  Calls,      \* concurrent requests
  Admins,     \* admins who review
  Refs,       \* normalized references the admins type in
  Txns,       \* bank transactions
  TxnOf,      \* the bank transactions the provider may match to a payment
  AttachLags, \* may a customer pay while the checkout request still runs?
  None        \* NULL

ASSUME PaymentsAssumption ==
  /\ None \notin Payments \cup Admins \cup Refs \cup Txns
  /\ TxnOf \in [Payments -> SUBSET Txns]
  /\ AttachLags \in BOOLEAN

VARIABLES
  rows,       \* committed rows of the payments table
  credits,    \* ledger entries of payments, with the admin they name
  provider,   \* the provider's record of each payment
  callbacks,  \* signed callbacks sent: any may arrive, again, late or never
  calls       \* what each call is about to do

vars == <<rows, credits, provider, callbacks, calls>>

Statuses == {"pending_payment", "pending_proof", "pending_review", "paid",
             "rejected", "cancelled", "expired", "needs_review"}

Row == [status : Statuses \cup {"absent"}, ext : Payments \cup {None},
        txn : Txns \cup {None}, ref : Refs \cup {None}]

Absent == [status |-> "absent", ext |-> None, txn |-> None, ref |-> None]

\* The idempotency keys are "payment_approve:<id>" and
\* "slai_payment_paid:<id>"; user and amount are those of the payment.
Credit == [kind : {"approve", "slai"}, payment : Payments,
           admin : Admins \cup {None}]

\* A snapshot of a provider record; `exact' says that its amount and currency
\* are those of the package.
Snapshot == [payment : Payments, exact : BOOLEAN, txn : Txns \cup {None},
             status : {"PENDING", "PAID", "EXPIRED", "NEEDS_REVIEW"}]

ASSUME NoneIsNoSnapshot == None \notin Snapshot

Idle == [at |-> "idle"]

CallState ==
  {Idle}
  \cup [at : {"create", "attach", "cancel", "conflict"}, payment : Payments]
  \cup [at : {"apply"}, payment : Payments, snap : Snapshot]
  \cup [at : {"applying"}, payment : Payments, snap : Snapshot, dup : BOOLEAN]
  \cup [at : {"approving"}, payment : Payments, admin : Admins, ref : Refs]

\* (Faulty: the row is read without FOR UPDATE.)
NeverLocked(p) == FALSE

\* The row locks: SELECT .. FOR UPDATE OF p.
Locked(p) ==
  \E c \in Calls : /\ calls[c].at \in {"applying", "approving"}
                   /\ calls[c].payment = p

\* (Faulty: the provider's status is stored as it is.)
Unmapped(s) == s

\* mapExternalStatus
Mapped(s) ==
  CASE s = "PAID"    -> "paid"
    [] s = "EXPIRED" -> "expired"
    [] s = "PENDING" -> "pending_payment"
    [] OTHER         -> "needs_review"

PaidWith(p, field, value) ==
  \E q \in Payments \ {p} :
    value # None /\ rows[q].status = "paid" /\ rows[q][field] = value

\* (Faulty: no partial unique indexes.)
NeverUnique(p, r) == FALSE

\* The partial unique indexes on paid payments reject row r for p.
UniqueViolation(p, r) ==
  /\ r.status = "paid"
  /\ PaidWith(p, "txn", r.txn) \/ PaidWith(p, "ref", r.ref)

Init ==
  /\ rows      = [p \in Payments |-> Absent]
  /\ credits   = {}
  /\ provider  = [p \in Payments |-> None]
  /\ callbacks = {}
  /\ calls     = [c \in Calls |-> Idle]

-----------------------------------------------------------------------------
(* Checkout.                                                               *)

\* checkoutManualProof
CheckoutManualProof(p) ==
  /\ rows[p] = Absent
  /\ rows' = [rows EXCEPT ![p].status = "pending_proof"]
  /\ UNCHANGED <<credits, provider, callbacks, calls>>

\* reserveCheckoutReference
Reserve(c, p) ==
  /\ calls[c] = Idle
  /\ rows[p] = Absent
  /\ rows' = [rows EXCEPT ![p].status = "pending_payment"]
  /\ calls' = [calls EXCEPT ![c] = [at |-> "create", payment |-> p]]
  /\ UNCHANGED <<credits, provider, callbacks>>

\* CreatePayment at the provider succeeds, or fails, or succeeds with its
\* answer lost.
CreateExternal(c) ==
  LET p == calls[c].payment IN
  /\ calls[c].at = "create"
  /\ \E created \in BOOLEAN, next \in {"attach", "cancel"} :
       /\ next = "attach" => created
       /\ provider' = [provider EXCEPT ![p] =
            IF created THEN [payment |-> p, exact |-> TRUE, txn |-> None,
                             status |-> "PENDING"]
            ELSE None]
       /\ calls' = [calls EXCEPT ![c] = [at |-> next, payment |-> p]]
  /\ UNCHANGED <<rows, credits, callbacks>>

\* attachExternalPayment stores the answer, PENDING, whatever the row's
\* status is by now.
Attach(c) ==
  LET p == calls[c].payment IN
  /\ calls[c].at = "attach"
  /\ ~Locked(p)
  /\ rows' = [rows EXCEPT ![p].ext = p, ![p].status = Mapped("PENDING")]
  /\ calls' = [calls EXCEPT ![c] = Idle]
  /\ UNCHANGED <<credits, provider, callbacks>>

\* cancelCheckoutReference
Cancel(c) ==
  LET p == calls[c].payment IN
  /\ calls[c].at = "cancel"
  /\ ~Locked(p)
  /\ rows' = [rows EXCEPT ![p].status =
                IF @ = "pending_payment" THEN "cancelled" ELSE @]
  /\ calls' = [calls EXCEPT ![c] = Idle]
  /\ UNCHANGED <<credits, provider, callbacks>>

-----------------------------------------------------------------------------
(* The provider, as far as the code relies on it.  A payer needs the QR    *)
(* code, which SLAI shows once the row has the provider's id.  A record's  *)
(* amount changes at most once, to what was really paid, and a PAID record *)
(* is final.  Callbacks are sent for PAID and EXPIRED records.             *)

ProviderPays(p) ==
  /\ provider[p] # None
  /\ provider[p].status # "PAID"
  /\ rows[p].ext # None
  /\ AttachLags \/ \A c \in Calls : calls[c] # [at |-> "attach", payment |-> p]
  /\ \E t \in TxnOf[p] \cup {None}, e \in BOOLEAN :
       /\ e => provider[p].exact
       /\ LET paid == [provider[p] EXCEPT !.status = "PAID", !.txn = t,
                                          !.exact = e]
          IN  /\ provider' = [provider EXCEPT ![p] = paid]
              /\ callbacks' = callbacks \cup {paid}
  /\ UNCHANGED <<rows, credits, calls>>

ProviderExpires(p) ==
  /\ provider[p] # None
  /\ provider[p].status = "PENDING"
  /\ provider' = [provider EXCEPT ![p].status = "EXPIRED"]
  /\ callbacks' = callbacks \cup {provider'[p]}
  /\ UNCHANGED <<rows, credits, calls>>

\* An unsafe or unknown state at the provider.
ProviderDoubts(p) ==
  /\ provider[p] # None
  /\ provider[p].status = "PENDING"
  /\ \E e \in BOOLEAN :
       provider' = [provider EXCEPT ![p].status = "NEEDS_REVIEW",
                                    ![p].exact = e]
  /\ UNCHANGED <<rows, credits, callbacks, calls>>

-----------------------------------------------------------------------------
(* ApplySLAIPayment, from a callback or from a refresh.                    *)

\* slaiPaymentCallback
ReceiveCallback(c) ==
  /\ calls[c] = Idle
  /\ \E s \in callbacks :
       calls' = [calls EXCEPT
                   ![c] = [at |-> "apply", payment |-> s.payment, snap |-> s]]
  /\ UNCHANGED <<rows, credits, provider, callbacks>>

\* RefreshForUser asks the provider before it opens the transaction.
Refresh(c, p) ==
  /\ calls[c] = Idle
  /\ rows[p].ext # None
  /\ calls' = [calls EXCEPT
        ![c] = [at |-> "apply", payment |-> p, snap |-> provider[p]]]
  /\ UNCHANGED <<rows, credits, provider, callbacks>>

\* The transaction locks the row and looks for another paid payment with the
\* same bank transaction.
ApplyRead(c) ==
  LET p == calls[c].payment
      s == calls[c].snap
  IN  /\ calls[c].at = "apply"
      /\ ~Locked(p)
      /\ calls' = [calls EXCEPT
            ![c] = [at |-> "applying", payment |-> p, snap |-> s,
                    dup |-> /\ Mapped(s.status) = "paid"
                            /\ PaidWith(p, "txn", s.txn)]]
      /\ UNCHANGED <<rows, credits, provider, callbacks>>

\* (Faulty: only the payment id is validated, not the amount.)
SameIdOnly(r, s) == r.ext \notin {None, s.payment}

\* The snapshot does not belong to the row, or was paid with another amount.
Mismatch(r, s) == r.ext \notin {None, s.payment} \/ ~s.exact

\* updatePaymentExternalState
WithExternal(r, status, s) ==
  [r EXCEPT !.status = status, !.ext = s.payment,
            !.txn = IF s.txn # None THEN s.txn ELSE @]

\* The row applyExternalPaymentInTx writes for a snapshot that is not an
\* acceptable PAID.
Unpaid(r, s, dup) ==
  IF ~Mismatch(r, s) /\ r.status = "paid" /\ Mapped(s.status) # "paid"
  THEN r
  ELSE WithExternal(r, IF Mismatch(r, s) \/ dup THEN "needs_review"
                       ELSE Mapped(s.status), s)

\* applyExternalPaymentInTx writes and the transaction commits.  When an index
\* rejects the paid row, PostgreSQL has aborted the transaction: the UPDATE to
\* needs_review that follows fails too and everything is rolled back.
ApplyWrite(c) ==
  LET p == calls[c].payment
      s == calls[c].snap
      r == rows[p]
      accepted == ~Mismatch(r, s) /\ Mapped(s.status) = "paid"
                    /\ ~calls[c].dup
      paid == WithExternal(r, "paid", s)
  IN  /\ calls[c].at = "applying"
      /\ \/ /\ ~accepted
            /\ rows' = [rows EXCEPT ![p] = Unpaid(r, s, calls[c].dup)]
            /\ calls' = [calls EXCEPT ![c] = Idle]
            /\ UNCHANGED credits
         \/ /\ accepted
            /\ UniqueViolation(p, paid)
            /\ calls' = [calls EXCEPT
                           ![c] = [at |-> "conflict", payment |-> p]]
            /\ UNCHANGED <<rows, credits>>
         \/ /\ accepted
            /\ ~UniqueViolation(p, paid)
            /\ rows' = [rows EXCEPT ![p] = paid]
            /\ credits' = IF r.status = "paid" THEN credits
                          ELSE credits \cup {[kind |-> "slai", payment |-> p,
                                              admin |-> None]}
            /\ calls' = [calls EXCEPT ![c] = Idle]
      /\ UNCHANGED <<provider, callbacks>>

\* The request that ran into the index answers with an error.
AnswerConflict(c) ==
  /\ calls[c].at = "conflict"
  /\ calls' = [calls EXCEPT ![c] = Idle]
  /\ UNCHANGED <<rows, credits, provider, callbacks>>

-----------------------------------------------------------------------------
(* Proofs and reviews.                                                     *)

UploadProof(p) ==
  /\ ~Locked(p)
  /\ rows[p].status \in {"pending_proof", "rejected"}
  /\ rows' = [rows EXCEPT ![p].status = "pending_review"]
  /\ UNCHANGED <<credits, provider, callbacks, calls>>

Reject(p) ==
  /\ ~Locked(p)
  /\ rows[p].status \in {"pending_review", "pending_proof", "needs_review"}
  /\ rows' = [rows EXCEPT ![p].status = "rejected"]
  /\ UNCHANGED <<credits, provider, callbacks, calls>>

\* Approve locks the row, checks its status and looks for another paid
\* payment with the same reference.
ApproveRead(c, p, a, ref) ==
  /\ calls[c] = Idle
  /\ ~Locked(p)
  /\ rows[p].status \in {"pending_review", "needs_review"}
  /\ ~PaidWith(p, "ref", ref)
  /\ calls' = [calls EXCEPT
        ![c] = [at |-> "approving", payment |-> p, admin |-> a, ref |-> ref]]
  /\ UNCHANGED <<rows, credits, provider, callbacks>>

\* The UPDATE and the ledger entry commit together, or an index or an earlier
\* approval by another admin rolls both back.
ApproveWrite(c) ==
  LET p == calls[c].payment
      paid == [rows[p] EXCEPT !.status = "paid", !.ref = calls[c].ref]
      credit == [kind |-> "approve", payment |-> p, admin |-> calls[c].admin]
      refused == \/ UniqueViolation(p, paid)
                 \/ \E e \in credits : /\ e.kind = "approve"
                                       /\ e.payment = p
                                       /\ e # credit
  IN  /\ calls[c].at = "approving"
      /\ \/ /\ refused
            /\ UNCHANGED <<rows, credits>>
         \/ /\ ~refused
            /\ rows' = [rows EXCEPT ![p] = paid]
            /\ credits' = credits \cup {credit}
      /\ calls' = [calls EXCEPT ![c] = Idle]
      /\ UNCHANGED <<provider, callbacks>>

\* A request dies: a lost connection, a cancelled context, a restart of the
\* server.  An open transaction is rolled back.
Crash(c) ==
  /\ calls[c] # Idle
  /\ calls' = [calls EXCEPT ![c] = Idle]
  /\ UNCHANGED <<rows, credits, provider, callbacks>>

Next ==
  \/ \E p \in Payments :
       \/ CheckoutManualProof(p)
       \/ ProviderPays(p)
       \/ ProviderExpires(p)
       \/ ProviderDoubts(p)
       \/ UploadProof(p)
       \/ Reject(p)
  \/ \E c \in Calls :
       \/ \E p \in Payments :
            \/ Reserve(c, p)
            \/ Refresh(c, p)
            \/ \E a \in Admins, ref \in Refs : ApproveRead(c, p, a, ref)
       \/ CreateExternal(c)
       \/ Attach(c)
       \/ Cancel(c)
       \/ ReceiveCallback(c)
       \/ ApplyRead(c)
       \/ ApplyWrite(c)
       \/ AnswerConflict(c)
       \/ ApproveWrite(c)
       \/ Crash(c)

Spec == Init /\ [][Next]_vars

-----------------------------------------------------------------------------

TypeOK ==
  /\ rows \in [Payments -> Row]
  /\ credits \subseteq Credit
  /\ provider \in [Payments -> Snapshot \cup {None}]
  /\ callbacks \subseteq Snapshot
  /\ calls \in [Calls -> CallState]

CreditsOf(p) == {e \in credits : e.payment = p}

\* The provider matched p to a bank transaction of another payment, too.
Shared(p) ==
  \E q \in Payments \ {p} :
    /\ None \notin {provider[p], provider[q]}
    /\ provider[p].txn # None
    /\ provider[p].txn = provider[q].txn

\* README.md: "repeated callbacks do not double-credit"; docs/architecture.md:
\* "duplicate callbacks or manual refreshes cannot double-credit".
CreditedOnce == \A p \in Payments : Cardinality(CreditsOf(p)) <= 1

\* However often callbacks, refreshes and approvals race and repeat, a payment
\* whose bank transaction the provider matched to no other payment puts its
\* credits on the ledger at most once, although a callback and an approval
\* credit under two different idempotency keys.
OwnTransactionCreditedOnce ==
  \A p \in Payments : Cardinality(CreditsOf(p)) <= 1 \/ Shared(p)

\* An automatic credit was confirmed by the provider, for the amount of the
\* package: neither a stale snapshot nor an expired or doubtful record ever
\* credits.
CreditIsConfirmed ==
  \A e \in credits :
    e.kind = "slai" =>
      /\ provider[e.payment].status = "PAID"
      /\ provider[e.payment].exact

\* One bank transaction pays for one payment, and one admin reference
\* approves one, even when both requests looked for duplicates before
\* either committed.
PaidOnceEach ==
  \A p, q \in Payments :
    /\ p # q
    /\ rows[p].status = "paid"
    /\ rows[q].status = "paid"
    => /\ rows[p].txn = None \/ rows[p].txn # rows[q].txn
       /\ rows[p].ref = None \/ rows[p].ref # rows[q].ref

-----------------------------------------------------------------------------
(* The abstract specification.                                             *)

\* An answer of the provider to the creation of p is still to be stored.
ToAttach(p) ==
  \E c \in Calls : calls[c].at \in {"create", "attach"} /\ calls[c].payment = p

Opening == {p \in Payments : ToAttach(p)}

Tenders == [txn : Txns \cup {None}, ref : Refs \cup {None}]

PaidWithTender ==
  [p \in Payments |-> IF rows[p].status = "paid"
                      THEN [txn |-> rows[p].txn, ref |-> rows[p].ref]
                      ELSE None]

Abs == INSTANCE Purchases
         WITH Entries <- Credit, paid <- PaidWithTender, opening <- Opening

\* Callbacks, refreshes, approvals and checkouts, each in several
\* transactions that may interleave, die and be repeated, look like purchases
\* that are paid and credited in one step: never a paid payment without its
\* entry, an entry the provider or the desk has not granted, or a second one.
ImplementsPurchases == Abs!Spec

=============================================================================
