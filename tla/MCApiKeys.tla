----------------------------- MODULE MCApiKeys -----------------------------
(***************************************************************************)
(* A small instance of ApiKeys: three keys, so that a rotation can leave an *)
(* older one behind, a payment that lifts the balance above zero, an admin  *)
(* adjustment that lowers it, one use of a key that costs exactly what a    *)
(* payment brings and one that costs more.                                 *)
(***************************************************************************)
EXTENDS ApiKeys, TLC

CONSTANTS k1, k2, k3, e1, e2, pay, adj, c1, c2

MCKeyIds   == {k1, k2, k3}
MCEvents   == {e1, e2}
MCCost     == (e1 :> 2) @@ (e2 :> 3)
MCPostings == {pay, adj}
MCAmount   == (pay :> 2) @@ (adj :> -1)
MCPayments == {pay}
MCCalls    == {c1, c2}

Symmetry == Permutations(MCKeyIds) \cup Permutations(MCCalls)

=============================================================================
