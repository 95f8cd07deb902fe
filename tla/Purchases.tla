----------------------------- MODULE Purchases -----------------------------
(***************************************************************************)
(* What the payments promise their customers and the desk, with no         *)
(* request, lock or callback in sight.  A payment becomes paid and puts    *)
(* its entry on the ledger in one step, with a tender (bank transaction    *)
(* and reference) that no other paid payment has.  It may be reopened, by  *)
(* a doubt or by the late end of its checkout, and paid again; the ledger  *)
(* keeps the entry and takes no second one.  One exception: a payment      *)
(* whose bank transaction has been matched to another payment, too.        *)
(***************************************************************************)

CONSTANTS
  Payments,
  Entries,    \* ledger entries: which payment, by whom, approved or automatic
  Tenders,    \* what a payment may be paid with
  None        \* not paid; no transaction, no reference

VARIABLES
  paid,       \* each paid payment's tender
  credits,    \* the ledger's entries
  provider,   \* what the provider has of each payment, or None
  opening     \* payments whose checkout has not ended

vars == <<paid, credits, provider, opening>>

Init ==
  /\ paid     = [p \in Payments |-> None]
  /\ credits  = {}
  /\ provider = [p \in Payments |-> None]
  /\ opening  = {}

\* The provider has been paid the exact amount for p.
Confirmed(p) ==
  provider[p] # None /\ provider[p].status = "PAID" /\ provider[p].exact

\* The provider matched p to a bank transaction of another payment, too.
Contested(p) ==
  \E q \in Payments \ {p} :
    /\ None \notin {provider[p], provider[q]}
    /\ provider[p].txn # None
    /\ provider[p].txn = provider[q].txn

Credited(p) == \E e \in credits : e.payment = p

\* No other paid payment has the transaction or the reference.
Unused(p, t) ==
  \A q \in Payments \ {p} :
    paid[q] # None => /\ t.txn = None \/ t.txn # paid[q].txn
                      /\ t.ref = None \/ t.ref # paid[q].ref

\* The provider takes nothing back.
Advance ==
  \A p \in Payments : /\ Confirmed(p) => Confirmed(p)'
                      /\ Contested(p) => Contested(p)'

\* The provider advances or stands still; checkouts begin and end.
Proceed ==
  /\ UNCHANGED <<credits, paid>>
  /\ UNCHANGED provider \/ Advance
  /\ \A p \in opening' \ opening : paid[p] = None /\ ~Credited(p)

\* A payment is paid for the first time, and credited with it.
Complete(p, t, e) ==
  /\ paid[p] = None /\ Unused(p, t)
  /\ ~Credited(p) \/ Contested(p)
  /\ e.payment = p
  /\ e.kind = "slai" => Confirmed(p)
  /\ paid'    = [paid EXCEPT ![p] = t]
  /\ credits' = credits \cup {e}
  /\ opening' \subseteq opening
  /\ UNCHANGED provider

\* A credited payment is paid again, or what it was paid with is completed.
Settle(p, t) ==
  /\ Credited(p) /\ Unused(p, t)
  /\ paid' = [paid EXCEPT ![p] = t]
  /\ opening' \subseteq opening
  /\ UNCHANGED <<credits, provider>>

\* A doubt, or the late end of its checkout, reopens a payment.  One that is
\* confirmed, once its checkout has ended, stays paid for good.
Reopen(p) ==
  /\ Confirmed(p) => Contested(p) \/ p \in opening
  /\ paid' = [paid EXCEPT ![p] = None]
  /\ opening' \subseteq opening
  /\ UNCHANGED <<credits, provider>>

Next ==
  \/ Proceed
  \/ \E p \in Payments :
       \/ Reopen(p)
       \/ \E t \in Tenders :
            Settle(p, t) \/ \E e \in Entries : Complete(p, t, e)

Spec == Init /\ [][Next]_vars

=============================================================================
