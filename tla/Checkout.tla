------------------------------ MODULE Checkout ------------------------------
(***************************************************************************)
(* The checkout page (app/checkout/[paymentId]/page.tsx) of one payment.   *)
(*                                                                         *)
(* The page loads the payment, polls it every three seconds while its      *)
(* status is one an outside event may change, refreshes it on demand and   *)
(* uploads proofs of payment.  Every answer overwrites the payment shown,  *)
(* whenever it comes: polls do not wait for one another, a refresh and an  *)
(* upload may be under way together, and answers arrive in any order.      *)
(* The row of the payment moves as the payments service moves it.          *)
(***************************************************************************)
EXTENDS Tab

VARIABLES server,  \* the payment's row at the API
          paidAt   \* whether its paid_at is set; the page only prints it

checkoutVars == <<path, ui, calls, server, paidAt>>

Statuses == {"pending_payment", "pending_proof", "pending_review",
             "paid", "rejected", "expired", "needs_review", "cancelled"}

\* What the page reads of a Payment: auto stands for the provider's fields.
Payment == [status : Statuses, auto : BOOLEAN, proofUploaded : BOOLEAN]

NoPayment == [status |-> None, auto |-> FALSE, proofUploaded |-> FALSE]

\* (Faulty: a payment under manual review is not polled.)
AutoRefreshPaymentOnly == {"pending_payment"}

\* The effect's autoRefreshStatuses.
AutoRefresh == {"pending_payment", "pending_review", "needs_review"}

CanUploadProof(p) == p.status \in {"pending_proof", "rejected"}

CanViewProof(p) ==
  p.proofUploaded /\ p.status \in {"pending_review", "rejected", "paid"}

IsAutoPayment(p) == p.auto \/ p.status = "pending_payment"

\* useState and useRef of a page that has just been mounted.
Fresh == [payment |-> NoPayment, previous |-> None, loading |-> TRUE,
          refreshing |-> FALSE, uploading |-> FALSE, error |-> FALSE,
          notice |-> None, success |-> FALSE]

CheckoutState ==
  [payment : Payment \cup {NoPayment}, previous : Statuses \cup {None},
   loading : BOOLEAN, refreshing : BOOLEAN, uploading : BOOLEAN, error : BOOLEAN,
   notice : {None, "confirmed", "refreshed", "submitted"},
   success : BOOLEAN]

CheckoutInit ==
  /\ path = "checkout"
  /\ ui = Fresh
  /\ calls = [c \in Slots |->
       IF \A d \in Slots : c <= d
       THEN [op |-> "load", arg |-> None, st |-> "sent", ans |-> NoAnswer, mine |-> TRUE]
       ELSE NoCall]
  /\ server \in {[NoPayment EXCEPT !.status = "pending_payment", !.auto = TRUE],
                 [NoPayment EXCEPT !.status = "pending_proof"]}
  /\ paidAt = FALSE

-----------------------------------------------------------------------------
(* What the page shows and offers.                                         *)

\* The header's button, next to the loading and error states.
Header ==
  [checkStatus |-> ~ui.refreshing /\ ~ui.loading, retry |-> ui.error]

\* The cards are shown once a payment is loaded, and not while it reloads.
CardsShown == ~ui.loading /\ ui.payment.status # None

\* The card under "Upload payment proof".
ProofCard ==
  CASE ~CardsShown              -> "hidden"
    [] CanUploadProof(ui.payment) -> "form"
    [] CanViewProof(ui.payment)   -> "view"
    [] IsAutoPayment(ui.payment)  -> "not required"
    [] OTHER                      -> "closed"

\* PaymentSuccessModal
SuccessShown == ui.payment.status # None /\ ui.success

-----------------------------------------------------------------------------
(* What the API does.                                                      *)

\* (Faulty: the provider's own word for a status is stored as it came.)
MovesForeign(p) ==
  IF p.auto /\ p.status # "paid" THEN {"pending", "completed"} ELSE {"rejected"}

\* Where a row may go: the provider's snapshots and callbacks move an automatic
\* payment from any status to any of theirs, but a paid one only back to a
\* review, when a snapshot does not match; the desk reviews the others; and a
\* checkout that fails half-way cancels its payment.
Moves(p) ==
  (IF ~p.auto THEN {}
   ELSE IF p.status = "paid" THEN {"needs_review"}
   ELSE {"pending_payment", "paid", "expired", "needs_review"})
  \cup
  CASE p.status \in {"pending_review", "needs_review"} -> {"paid", "rejected"}
    [] p.status = "pending_proof"                     -> {"rejected"}
    [] p.status = "pending_payment"                   -> {"cancelled"}
    [] OTHER                                          -> {}

\* paid_at = COALESCE(paid_at, now()): the date is set once.
PaymentMoves ==
  /\ \E s \in Moves(server) :
       /\ server' = [server EXCEPT !.status = s]
       /\ paidAt' = (paidAt \/ s = "paid")
  /\ UNCHANGED <<path, ui, calls>>

\* payments.get and payments.refresh answer with the row as it is then; what
\* a refresh learns from the provider is a step of PaymentMoves before it.
ServeRead(c) ==
  /\ \E op \in {"load", "refresh", "poll"} : Sent(c, op)
  /\ Reply(c, Ok(server))
  /\ UNCHANGED <<path, ui, server, paidAt>>

\* payments.uploadProof is refused unless the row takes a proof.
ServeUpload(c) ==
  /\ Sent(c, "upload")
  /\ IF CanUploadProof(server)
     THEN /\ server' = [server EXCEPT !.status = "pending_review", !.proofUploaded = TRUE]
          /\ Reply(c, Ok(server'))
     ELSE /\ UNCHANGED server
          /\ Reply(c, Error("conflict"))
  /\ UNCHANGED <<path, ui, paidAt>>

-----------------------------------------------------------------------------
(* The page's handlers.                                                    *)

\* (Faulty: whatever the status has changed to is announced as the success.)
AnnounceAlways(p) ==
  [ui EXCEPT !.payment = p, !.previous = p.status,
             !.success = @ \/ p.status # ui.previous]

\* setPayment and the effect on payment.status: a payment that turns paid
\* before the reader's eyes is announced in a dialog.
Show(p) ==
  [ui EXCEPT !.payment = p, !.previous = p.status,
             !.success = \/ @
                         \/ /\ p.status = "paid" /\ ui.payment.status # "paid"
                            /\ ui.previous \notin {None, "paid"}]

\* load, from the error's Retry (on mount: CheckoutInit and Reopen).
Load ==
  /\ Header.retry
  /\ ui' = [ui EXCEPT !.loading = TRUE, !.error = FALSE]
  /\ Send("load", None)
  /\ UNCHANGED <<path, server, paidAt>>

Loaded(c) ==
  /\ Done(c, "load") /\ calls[c].mine
  /\ ui' = IF calls[c].ans.ok THEN [Show(calls[c].ans.data) EXCEPT !.loading = FALSE]
           ELSE [ui EXCEPT !.error = TRUE, !.loading = FALSE]
  /\ Settle(c)
  /\ UNCHANGED <<path, server, paidAt>>

\* The interval fires: refreshPayment(true), whether or not the last one has
\* been answered.
Poll ==
  /\ ui.payment.status \in AutoRefresh
  /\ Send("poll", None)
  /\ UNCHANGED <<path, ui, server, paidAt>>

\* A quiet refresh reports nothing when it fails.
Polled(c) ==
  /\ Done(c, "poll") /\ calls[c].mine
  /\ ui' = IF calls[c].ans.ok THEN Show(calls[c].ans.data) ELSE ui
  /\ Settle(c)
  /\ UNCHANGED <<path, server, paidAt>>

\* The Check status button: refreshPayment().
CheckStatus ==
  /\ Header.checkStatus
  /\ ui' = [ui EXCEPT !.refreshing = TRUE, !.notice = None, !.error = FALSE]
  /\ Send("refresh", None)
  /\ UNCHANGED <<path, server, paidAt>>

Refreshed(c) ==
  /\ Done(c, "refresh") /\ calls[c].mine
  /\ LET ans == calls[c].ans IN
     ui' = IF ans.ok
           THEN [Show(ans.data) EXCEPT !.refreshing = FALSE,
                   !.notice = IF ans.data.status = "paid" THEN "confirmed" ELSE "refreshed"]
           ELSE [ui EXCEPT !.error = TRUE, !.refreshing = FALSE]
  /\ Settle(c)
  /\ UNCHANGED <<path, server, paidAt>>

\* submitProof, with or without a file chosen in the form.
SubmitProof ==
  /\ ProofCard = "form" /\ ~ui.uploading
  /\ \/ /\ ui' = [ui EXCEPT !.notice = None]
        /\ UNCHANGED calls
     \/ /\ ui' = [ui EXCEPT !.uploading = TRUE, !.notice = None]
        /\ Send("upload", None)
  /\ UNCHANGED <<path, server, paidAt>>

Uploaded(c) ==
  /\ Done(c, "upload") /\ calls[c].mine
  /\ ui' = IF calls[c].ans.ok
           THEN [Show(calls[c].ans.data) EXCEPT !.uploading = FALSE, !.notice = "submitted"]
           ELSE [ui EXCEPT !.uploading = FALSE]
  /\ Settle(c)
  /\ UNCHANGED <<path, server, paidAt>>

\* The dialog is closed by its button or by Escape.
Dismiss ==
  /\ SuccessShown
  /\ ui' = [ui EXCEPT !.success = FALSE]
  /\ UNCHANGED <<path, calls, server, paidAt>>

\* The reader leaves by one of the links and opens the checkout again.
Reopen ==
  /\ Mount("checkout", Fresh, "load", None)
  /\ UNCHANGED <<server, paidAt>>

-----------------------------------------------------------------------------
Answered(c) == Loaded(c) \/ Polled(c) \/ Refreshed(c) \/ Uploaded(c)

Serve(c) == ServeRead(c) \/ ServeUpload(c)

CheckoutNext ==
  \/ PaymentMoves
  \/ Load \/ Poll \/ CheckStatus \/ SubmitProof \/ Dismiss \/ Reopen
  \/ \E c \in Slots :
       \/ Serve(c)
       \/ Answered(c)
       \/ Lost(c) /\ UNCHANGED <<server, paidAt>>

CheckoutSpec == CheckoutInit /\ [][CheckoutNext]_checkoutVars

\* The interval keeps firing, the API answers, continuations run, and of the
\* polls that are sent again and again not every one is lost.
Fairness ==
  /\ SF_checkoutVars(Poll)
  /\ \A c \in Slots : WF_checkoutVars(Serve(c)) /\ WF_checkoutVars(Answered(c))
  /\ SF_checkoutVars(\E c \in Slots : Sent(c, "poll") /\ ServeRead(c))
  /\ SF_checkoutVars(\E c \in Slots : calls[c].ans.ok /\ Polled(c))

LiveSpec == CheckoutSpec /\ Fairness

-----------------------------------------------------------------------------
(* Properties.                                                             *)

CheckoutOperations == {"load", "refresh", "poll", "upload"}

Answers == {Ok(p) : p \in Payment} \cup {Error(w) : w \in {None, "network", "conflict"}}

Calls ==
  [op : CheckoutOperations \cup {None}, arg : {None}, st : {None, "sent", "done"},
   ans : Answers, mine : BOOLEAN]

\* Type invariant: the shapes of the page's state (CheckoutPage's useState)
\* and of its requests.
CheckoutTypeOK ==
  /\ path = "checkout"
  /\ server \in Payment /\ paidAt \in BOOLEAN
  /\ ui \in CheckoutState
  /\ calls \in [Slots -> Calls]

\* The page says "Payment success" in its dialog, and "Payment confirmed and
\* credits added." in its notice, only of a payment that has been paid (it may
\* be under review again since), whatever order its polls, refreshes and
\* uploads are answered in.
SuccessIsTrue ==
  SuccessShown \/ ui.notice = "confirmed" => paidAt

\* "Keep this page open": once the payment has come to rest, the page settles
\* on its status for good, or on one that it takes for final (rejected, expired,
\* cancelled, paid); a late answer that brings an old status back starts the
\* polling again.
PolledSettles ==
  <>[][FALSE]_server =>
    <>[](ui.payment.status \in {"pending_payment", "pending_review", "needs_review"}
           => ui.payment.status = server.status)
=============================================================================
