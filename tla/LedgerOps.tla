----------------------------- MODULE LedgerOps -----------------------------
(***************************************************************************)
(* The pure part of ledger.Service.Mutate: which mutations it accepts, when *)
(* a stored entry answers a repeated mutation, how a balance row changes,   *)
(* and the entry it writes.  Every module that posts to the ledger uses     *)
(* these operators.                                                        *)
(*                                                                         *)
(* A mutation is a record [user, type, delta, key, ref, reason].  `ref'     *)
(* stands for the pointers a caller attaches (source, payment_id,           *)
(* usage_event_id, admin_id), which the code only ever compares.  An entry  *)
(* is a mutation together with `after', its balance_after_units.           *)
(***************************************************************************)
EXTENDS Integers, Sequences

CONSTANTS
  NoKey,      \* the nil or empty idempotency key
  NoReason    \* the nil or empty reason

PaidTypes   == {"payment_credit", "bonus_credit"}
CreditTypes == PaidTypes \cup {"admin_adjustment_credit"}
DebitTypes  == {"usage_debit", "admin_adjustment_debit", "refund_debit"}
AdminTypes  == {"admin_adjustment_credit", "admin_adjustment_debit"}
EntryTypes  == CreditTypes \cup DebitTypes

\* A balance row: units in the smallest credit unit, as stored.
\* The balance may be driven below zero; the lifetime counters only grow.
Balance == [available : Int, purchased : Nat, used : Nat, version : Nat]

\* The row INSERT .. ON CONFLICT DO NOTHING creates: the column defaults.
ZeroBalance == [available |-> 0, purchased |-> 0, used |-> 0, version |-> 0]

\* validateMutation
ValidMutation(m) ==
  /\ m.type \in CreditTypes => m.delta > 0
  /\ m.type \in DebitTypes  => m.delta < 0
  /\ m.type \in AdminTypes  => m.reason # NoReason

\* (Faulty: a retry with another amount is taken for the same mutation.)
MatchesAnyAmount(e, m) ==
  /\ e.user   = m.user
  /\ e.type   = m.type
  /\ e.ref    = m.ref
  /\ e.reason = m.reason

\* entryMatchesMutation: the key itself is what the entry was found by.
Matches(e, m) ==
  /\ e.user   = m.user
  /\ e.type   = m.type
  /\ e.delta  = m.delta
  /\ e.ref    = m.ref
  /\ e.reason = m.reason

\* (Faulty: every positive delta counts as a purchase.)
PostedAsPurchase(b, m) ==
  [available |-> b.available + m.delta,
   purchased |-> IF m.delta > 0 THEN b.purchased + m.delta ELSE b.purchased,
   used      |-> IF m.type = "usage_debit" THEN b.used - m.delta ELSE b.used,
   version   |-> b.version + 1]

\* (Faulty: usage is added with the sign of the ledger entry.)
PostedUsageSigned(b, m) ==
  [available |-> b.available + m.delta,
   purchased |-> IF m.type \in PaidTypes /\ m.delta > 0
                 THEN b.purchased + m.delta ELSE b.purchased,
   used      |-> IF m.type = "usage_debit" THEN b.used + m.delta ELSE b.used,
   version   |-> b.version + 1]

\* The balance row after the UPDATE of Mutate, computed from the row it read.
Posted(b, m) ==
  [available |-> b.available + m.delta,
   purchased |-> IF m.type \in PaidTypes /\ m.delta > 0
                 THEN b.purchased + m.delta ELSE b.purchased,
   used      |-> IF m.type = "usage_debit" /\ m.delta < 0
                 THEN b.used - m.delta ELSE b.used,
   version   |-> b.version + 1]

\* The row INSERT INTO credit_ledger_entries writes next to balance row b.
EntryOf(m, b) ==
  [user |-> m.user, type |-> m.type, delta |-> m.delta, key |-> m.key,
   ref |-> m.ref, reason |-> m.reason, after |-> b.available]

=============================================================================
