---------------------------- MODULE MCOtpRequests ----------------------------
(***************************************************************************)
(* Instances of OtpRequests: two emails that share an address.             *)
(***************************************************************************)
EXTENDS OtpRequests, TLC

CONSTANTS e1, e2, ip1, c1, c2

MCEmails == {e1, e2}
MCCalls  == {c1, c2}

\* The two requests may be for one email, one of them without an address, or for
\* two emails from one address.
MCAsks == (c1 :> {<<e1, ip1>>}) @@ (c2 :> {<<e1, None>>, <<e2, ip1>>})

=============================================================================
