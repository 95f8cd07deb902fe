----------------------------- MODULE MCCheckout -----------------------------
(* Checkout with a small number of requests in flight, for TLC. *)
EXTENDS Checkout

MCSlots     == 1..2
MCWrites    == {"upload"}
MCRedirects == {}
=============================================================================
