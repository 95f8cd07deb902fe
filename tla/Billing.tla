------------------------------ MODULE Billing ------------------------------
(***************************************************************************)
(* Buying credits: the billing page of the dashboard                       *)
(* (app/dashboard/billing/page.tsx) and the public list of packages        *)
(* (app/packages/page.tsx).  Choosing a package creates a payment and      *)
(* takes the reader to its checkout, from wherever the reader is by then.  *)
(***************************************************************************)
EXTENDS Tab

CONSTANTS
  Packages,    \* the published packages
  MaxOrders    \* bound: payments created for a package

ASSUME BillingAssumption == None \notin Packages /\ MaxOrders \in Nat \ {0}

VARIABLES
  orders,      \* orders[p] : payments created for p
  signedIn     \* the browser's session is valid

\* useState of the two pages.
BillingFresh == [data |-> FALSE, payments |-> FALSE, loading |-> TRUE, error |-> FALSE,
                 choosing |-> None, checkoutError |-> FALSE]

PackagesFresh == [packages |-> FALSE, asked |-> FALSE, currentUser |-> FALSE, loading |-> TRUE,
                  error |-> FALSE, choosing |-> None, checkoutError |-> FALSE]

BillingState ==
  [data : BOOLEAN, payments : BOOLEAN, loading : BOOLEAN, error : BOOLEAN,
   choosing : Packages \cup {None}, checkoutError : BOOLEAN]

PackagesState ==
  [packages : BOOLEAN, asked : BOOLEAN, currentUser : BOOLEAN, loading : BOOLEAN, error : BOOLEAN,
   choosing : Packages \cup {None}, checkoutError : BOOLEAN]

\* A checkout that has been opened, for a payment of a package.
CheckoutOpened == [package : Packages]

OpenBilling == Mount("billing", BillingFresh, "billing.load", None)

OpenPackages == Mount("packages", PackagesFresh, "packages.load", None)

-----------------------------------------------------------------------------
(* What the pages offer.                                                   *)

\* BillingPage: what was loaded stays on the screen while it reloads, and
\* next to an error.
BillingCards == path = "billing" /\ ui.data

\* PackageCard of the billing page: only the package being bought is busy.
BillingPackage(p) == BillingCards /\ ui.choosing # p

\* PaymentsTable: "No top-ups yet" is said of a history that did not load, too.
PaymentsTable == IF ui.payments THEN "payments" ELSE "No top-ups yet"

\* PackageCard of the public list: a link to /signup until a user is known.
PublicPackage(p) ==
  path = "packages" /\ ui.packages /\ ~ui.loading /\ ~ui.error
    /\ ui.currentUser /\ ui.choosing # p

-----------------------------------------------------------------------------
(* What the API does.                                                      *)

\* The reads of the two pages; the payments are read after the rest.
ServeBilling(c) ==
  /\ \/ Sent(c, "billing.load") /\ Reply(c, Ok(None))
     \/ Sent(c, "billing.payments") /\ Reply(c, Ok(\E p \in Packages : orders[p] > 0))
     \/ Sent(c, "packages.load") /\ Reply(c, Ok(None))
     \/ Sent(c, "packages.me") /\ Reply(c, IF signedIn THEN Ok(None) ELSE Error("unauthorized"))
  /\ UNCHANGED <<path, ui, orders, signedIn>>

\* POST /v1/checkout/package/{package_id}: every call is a new payment.
ServeCheckout(c) ==
  /\ Sent(c, "checkout.package")
  /\ LET p == calls[c].arg IN
     \/ /\ signedIn /\ orders[p] < MaxOrders
        /\ orders' = [orders EXCEPT ![p] = @ + 1]
        /\ Reply(c, Ok(p))
     \/ /\ ~signedIn
        /\ Reply(c, Error("unauthorized"))
        /\ UNCHANGED orders
  /\ UNCHANGED <<path, ui, signedIn>>

-----------------------------------------------------------------------------
(* The pages' handlers.                                                    *)

\* load: Refresh, and the error's Retry.
LoadBilling ==
  /\ path = "billing" /\ ~ui.loading
  /\ ui' = [ui EXCEPT !.loading = TRUE, !.error = FALSE]
  /\ Send("billing.load", None)
  /\ UNCHANGED <<path, orders, signedIn>>

\* The balance, the ledger and the packages have come: the payments are next.
BillingLoaded(c) ==
  /\ Done(c, "billing.load") /\ calls[c].mine
  /\ IF calls[c].ans.ok
     THEN Await(c, "billing.payments", None) /\ UNCHANGED ui
     ELSE ui' = [ui EXCEPT !.error = TRUE, !.loading = FALSE] /\ Settle(c)
  /\ UNCHANGED <<path, orders, signedIn>>

\* A history that cannot be read is shown as an empty one.
PaymentsLoaded(c) ==
  /\ Done(c, "billing.payments") /\ calls[c].mine
  /\ LET ans == calls[c].ans IN
     ui' = [ui EXCEPT !.data = TRUE, !.payments = ans.ok /\ ans.data, !.loading = FALSE]
  /\ Settle(c)
  /\ UNCHANGED <<path, orders, signedIn>>

\* load of the public list, from the error's Retry.
LoadPackages ==
  /\ path = "packages" /\ ui.error
  /\ ui' = [ui EXCEPT !.loading = TRUE, !.error = FALSE]
  /\ Send("packages.load", None)
  /\ UNCHANGED <<path, orders, signedIn>>

\* The effect's other request: who is looking.
AskWho ==
  /\ path = "packages" /\ ~ui.asked
  /\ ui' = [ui EXCEPT !.asked = TRUE]
  /\ Send("packages.me", None)
  /\ UNCHANGED <<path, orders, signedIn>>

PackagesLoaded(c) ==
  /\ Done(c, "packages.load") /\ calls[c].mine
  /\ ui' = IF calls[c].ans.ok THEN [ui EXCEPT !.packages = TRUE, !.loading = FALSE]
           ELSE [ui EXCEPT !.error = TRUE, !.loading = FALSE]
  /\ Settle(c)
  /\ UNCHANGED <<path, orders, signedIn>>

WhoKnown(c) ==
  /\ Done(c, "packages.me") /\ calls[c].mine
  /\ ui' = IF calls[c].ans.ok THEN [ui EXCEPT !.currentUser = TRUE] ELSE ui
  /\ Settle(c)
  /\ UNCHANGED <<path, orders, signedIn>>

\* choosePackage of either page.
ChoosePackage(p) ==
  /\ BillingPackage(p) \/ PublicPackage(p)
  /\ ui' = [ui EXCEPT !.choosing = p, !.checkoutError = FALSE]
  /\ Send("checkout.package", p)
  /\ UNCHANGED <<path, orders, signedIn>>

\* Its continuation: router.push works after the page has gone, too.
PackageChosen(c) ==
  /\ Done(c, "checkout.package")
  /\ LET ans == calls[c].ans IN
     IF ans.ok
     THEN /\ path' = "checkout"
          /\ ui' = [package |-> ans.data]
          /\ calls' = [Orphaned EXCEPT ![c] = NoCall]
     ELSE /\ ui' = IF calls[c].mine
                   THEN [ui EXCEPT !.choosing = None, !.checkoutError = TRUE] ELSE ui
          /\ Settle(c)
          /\ UNCHANGED path
  /\ UNCHANGED <<orders, signedIn>>

BillingNext ==
  \/ LoadBilling \/ LoadPackages \/ AskWho
  \/ \E p \in Packages : ChoosePackage(p)
  \/ \E c \in Slots :
       \/ ServeBilling(c) \/ ServeCheckout(c)
       \/ BillingLoaded(c) \/ PaymentsLoaded(c) \/ PackagesLoaded(c) \/ WhoKnown(c)
       \/ PackageChosen(c)
=============================================================================
