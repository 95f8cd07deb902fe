----------------------------- MODULE MCPayments -----------------------------
(***************************************************************************)
(* Small instances of Payments.  The provider may match the second payment  *)
(* to a bank transaction of its own or to the first payment's, the case the *)
(* duplicate checks are for; the counterexamples need the latter only.  Two *)
(* admins may type in the same reference.                                  *)
(***************************************************************************)
EXTENDS Payments, TLC

CONSTANTS p1, p2, t1, t2, c1, c2, a1, a2, r1, r2

MCPayments == {p1, p2}
MCCalls    == {c1, c2}
TwoAdmins  == {a1, a2}
TwoRefs    == {r1, r2}
MCTxns     == {t1, t2}

MixedTxn  == (p1 :> {t1}) @@ (p2 :> {t1, t2})
SharedTxn == (p1 :> {t1}) @@ (p2 :> {t1})

Symmetry == Permutations(MCCalls) \cup Permutations(TwoAdmins)

=============================================================================
