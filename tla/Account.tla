------------------------------ MODULE Account ------------------------------
(***************************************************************************)
(* What the keys and the bills of one account promise, with no lock, no    *)
(* transaction and no OmniRoute in sight.  A key is issued, alone or in    *)
(* another's place; it is suspended and resumed, resumed over credit only; *)
(* and it is revoked for good, with no use of it any more.  Never are two  *)
(* of them active.  Each use of a key is billed once, each posting made    *)
(* once, and the balance is theirs alone.  Billing may suspend the key     *)
(* that it bills, and no other, and only when it leaves nothing to spend.  *)
(***************************************************************************)
EXTENDS Integers

CONSTANTS
  KeyIds,
  Events,     \* uses of a key
  Cost,       \* the price of each
  Postings,   \* payments and adjustments
  Amount,     \* their deltas
  None

VARIABLES
  status,     \* the keys
  usedBy,     \* the key of each use so far
  billed,     \* the uses billed
  posted,     \* the postings made
  balance

vars == <<status, usedBy, billed, posted, balance>>

Active == {k \in KeyIds : status[k] = "ACTIVE"}

Usable(k) == status[k] \in {"ACTIVE", "SUSPENDED"}

Init ==
  /\ status  = [k \in KeyIds |-> "none"]
  /\ usedBy  = [e \in Events |-> None]
  /\ billed  = {}
  /\ posted  = {}
  /\ balance = 0

\* A new key becomes active, in place of another or of none.
Issue(k, old) ==
  /\ status[k] = "none"
  /\ old # None => Usable(old)
  /\ Active \subseteq {old}
  /\ status' = [l \in KeyIds |-> IF l = k THEN "ACTIVE"
                                 ELSE IF l = old THEN "REVOKED" ELSE status[l]]
  /\ UNCHANGED <<usedBy, billed, posted, balance>>

Revoke(k) ==
  /\ Usable(k)
  /\ status' = [status EXCEPT ![k] = "REVOKED"]
  /\ UNCHANGED <<usedBy, billed, posted, balance>>

Suspend(k) ==
  /\ k \in Active
  /\ status' = [status EXCEPT ![k] = "SUSPENDED"]
  /\ UNCHANGED <<usedBy, billed, posted, balance>>

Resume(k) ==
  /\ status[k] = "SUSPENDED" /\ Active = {}
  /\ balance > 0
  /\ status' = [status EXCEPT ![k] = "ACTIVE"]
  /\ UNCHANGED <<usedBy, billed, posted, balance>>

Use(e, k) ==
  /\ usedBy[e] = None
  /\ Usable(k)
  /\ usedBy' = [usedBy EXCEPT ![e] = k]
  /\ UNCHANGED <<status, billed, posted, balance>>

\* The debit of a use.
Bill(e) ==
  /\ usedBy[e] # None
  /\ e \notin billed
  /\ billed'  = billed \cup {e}
  /\ balance' = balance - Cost[e]
  /\ \/ UNCHANGED status
     \/ /\ usedBy[e] \in Active
        /\ Cost[e] > 0 /\ balance' <= 0
        /\ status' = [status EXCEPT ![usedBy[e]] = "SUSPENDED"]
  /\ UNCHANGED <<usedBy, posted>>

Post(t) ==
  /\ t \notin posted
  /\ posted'  = posted \cup {t}
  /\ balance' = balance + Amount[t]
  /\ UNCHANGED <<status, usedBy, billed>>

Next ==
  \/ \E k \in KeyIds :
       \/ Revoke(k)
       \/ Suspend(k)
       \/ Resume(k)
       \/ \E old \in KeyIds \cup {None} : Issue(k, old)
       \/ \E e \in Events : Use(e, k)
  \/ \E e \in Events : Bill(e)
  \/ \E t \in Postings : Post(t)

Spec == Init /\ [][Next]_vars

=============================================================================
