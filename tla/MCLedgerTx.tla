----------------------------- MODULE MCLedgerTx -----------------------------
(***************************************************************************)
(* A small instance of LedgerTx.  The mutations are those the callers of    *)
(* Mutate build: a manual top-up (which several calls may ask for, as        *)
(* retries do) and one of another amount under the same key, an admin       *)
(* adjustment of another user that reuses the key, a usage debit larger     *)
(* than the top-up, an adjustment with no key at all (which two calls may   *)
(* both apply), and a debit with the sign of a credit.                     *)
(***************************************************************************)
EXTENDS LedgerTx, TLC

CONSTANTS u1, u2, k1, k2, c1, c2, c3

MCUsers   == {u1, u2}
MCKeys    == {k1, k2}
MCCalls   == {c1, c2, c3}
MCRefs    == {"payment", "admin", "usage"}
MCReasons == {"why"}

TopUp      == [user |-> u1, type |-> "payment_credit", delta |-> 3,
               key |-> k1, ref |-> "payment", reason |-> "why"]
OtherTopUp == [TopUp EXCEPT !.delta = 1]
SameKey    == [user |-> u2, type |-> "admin_adjustment_credit", delta |-> 2,
               key |-> k1, ref |-> "admin", reason |-> "why"]
Usage      == [user |-> u1, type |-> "usage_debit", delta |-> -4,
               key |-> k2, ref |-> "usage", reason |-> "why"]
Adjustment == [user |-> u1, type |-> "admin_adjustment_debit", delta |-> -1,
               key |-> NoKey, ref |-> "admin", reason |-> "why"]
WrongSign  == [user |-> u2, type |-> "usage_debit", delta |-> 1,
               key |-> NoKey, ref |-> "usage", reason |-> "why"]

MCMutations == {TopUp, OtherTopUp, SameKey, Usage, Adjustment, WrongSign}

CallSymmetry == Permutations(MCCalls)

=============================================================================
