--------------------------- MODULE AdminPayments ---------------------------
(***************************************************************************)
(* The administrator's review of payments (app/admin/payments/page.tsx)    *)
(* and the settings of the static checkout                                 *)
(* (app/admin/settings/payments/page.tsx).                                 *)
(*                                                                         *)
(* The review is a list and a drawer: a row opens the drawer with what the *)
(* list knows, then the payment is read again.  An administrator types the *)
(* reference of the transfer found at the bank for the payment the drawer  *)
(* shows.  A late answer can put another payment into the drawer.          *)
(***************************************************************************)
EXTENDS Tab

CONSTANTS
  NumPayments,   \* the payments, oldest last
  Transfer,      \* Transfer[p] : the bank's reference of the transfer for p
  UsedElsewhere, \* references of payments approved before
  ListLimit      \* LIMIT

ASSUME AdminPaymentsAssumption ==
  /\ NumPayments \in Nat /\ ListLimit \in Nat \ {0}
  /\ DOMAIN Transfer = 1 .. NumPayments /\ \A p \in DOMAIN Transfer : Transfer[p] # None

VARIABLES
  pay,        \* pay[p] : the row of payment p
  settings    \* the version of the row of payment_settings

paymentVars == <<pay, settings>>

Orders == 1 .. NumPayments

OrderStatuses == {"pending_proof", "pending_review", "needs_review", "paid", "rejected"}

AdminPayment == [status : OrderStatuses, reference : {Transfer[p] : p \in Orders} \cup {None}]

\* An item of the list, and what the drawer holds.
Item == [id : Orders, status : OrderStatuses]

NoItem == [id |-> 0, status |-> None]

ItemOf(p) == [id |-> p, status |-> pay[p].status]

\* AdminPaymentFilter: the status filter "review_queue", or none.
PaymentFilters == {"all", "review_queue"}

InQueue(s) == s \in {"pending_review", "needs_review"}

PaymentOffsets == {ListLimit * n : n \in 0 .. NumPayments}

PaymentList(f, off) ==
  LET found == {p \in Orders : f = "review_queue" => InQueue(pay[p].status)}
      before(p) == Cardinality({q \in found : q < p})
  IN [items  |-> {ItemOf(p) : p \in {q \in found : before(q) \in off .. off + ListLimit - 1}},
      offset |-> off,
      total  |-> Cardinality(found)]

\* useState of the two pages, and of the drawer.
PaymentsFresh ==
  [list |-> [items |-> {}, offset |-> 0, total |-> 0], applied |-> "all",
   loading |-> TRUE, error |-> FALSE, selected |-> NoItem, acting |-> FALSE,
   notice |-> None, reference |-> None]

PaymentsState ==
  [list : [items : SUBSET Item, offset : PaymentOffsets, total : 0 .. NumPayments],
   applied : PaymentFilters, loading : BOOLEAN, error : BOOLEAN,
   selected : Item \cup {NoItem}, acting : BOOLEAN, notice : {None, "approved", "rejected"},
   reference : {Transfer[p] : p \in Orders} \cup {None}]

SettingsFresh == [settings |-> 0, edited |-> FALSE, file |-> FALSE, loading |-> TRUE,
                  saving |-> FALSE, uploading |-> FALSE, error |-> FALSE]

SettingsState ==
  [settings : 0 .. 2, edited : BOOLEAN, file : BOOLEAN, loading : BOOLEAN,
   saving : BOOLEAN, uploading : BOOLEAN, error : BOOLEAN]

OpenPayments == Mount("payments", PaymentsFresh, "payments.list", [filter |-> "all", offset |-> 0])

OpenSettings == Mount("settings", SettingsFresh, "settings.get", None)

-----------------------------------------------------------------------------
(* What the pages offer.                                                   *)

PaymentsSettled == path = "payments" /\ ~ui.loading /\ ~ui.error

\* PaymentsTable: a row's Review or View.
PaymentsTable == IF PaymentsSettled THEN ui.list.items ELSE {}

\* FilterBar: Apply and Clear wait for the list, the quick filters do not.
FilterBar == [apply |-> path = "payments" /\ ~ui.loading, quick |-> path = "payments"]

PaymentPages ==
  [previous |-> PaymentsSettled /\ ui.list.offset # 0,
   next |-> PaymentsSettled /\ ui.list.offset + Cardinality(ui.list.items) < ui.list.total]

\* PaymentDrawer: canApprove and canReject of the payment it shows.
CanApprove == path = "payments" /\ InQueue(ui.selected.status)

CanReject == path = "payments" /\ ui.selected.status \in {"pending_review", "pending_proof", "needs_review"}

PaymentDrawer ==
  [open    |-> path = "payments" /\ ui.selected # NoItem,
   approve |-> CanApprove /\ ~ui.acting /\ ui.reference # None,
   reject  |-> CanReject /\ ~ui.acting]

\* The form and the image of the settings.
SettingsForm == path = "settings" /\ ~ui.loading /\ ui.settings # 0

-----------------------------------------------------------------------------
(* What the API does.                                                      *)

ServePaymentReads(c) ==
  /\ \/ /\ Sent(c, "payments.list")
        /\ Reply(c, Ok(PaymentList(calls[c].arg.filter, calls[c].arg.offset)))
     \/ /\ Sent(c, "payments.get") \/ Sent(c, "payments.reget")
        /\ Reply(c, Ok(ItemOf(calls[c].arg.id)))
     \/ Sent(c, "settings.get") /\ Reply(c, Ok(settings))
  /\ UNCHANGED <<path, ui, paymentVars>>

\* Approve: a paid payment, one not under review, and a reference another
\* payment was approved with are refused.
ServeApprove(c) ==
  /\ Sent(c, "payments.approve")
  /\ LET p == calls[c].arg.id
         r == calls[c].arg.reference
         used == r \in UsedElsewhere \/ \E q \in Orders \ {p} : pay[q].reference = r
     IN \/ /\ InQueue(pay[p].status) /\ ~used
           /\ pay' = [pay EXCEPT ![p] = [status |-> "paid", reference |-> r]]
           /\ Reply(c, Ok(None))
        \/ /\ ~InQueue(pay[p].status) \/ used
           /\ Reply(c, Error("refused"))
           /\ UNCHANGED pay
  /\ UNCHANGED <<path, ui, settings>>

\* Reject
ServeReject(c) ==
  /\ Sent(c, "payments.reject")
  /\ LET p == calls[c].arg.id IN
     \/ /\ pay[p].status \in {"pending_review", "pending_proof", "needs_review"}
        /\ pay' = [pay EXCEPT ![p].status = "rejected"]
        /\ Reply(c, Ok(None))
     \/ /\ pay[p].status \in {"paid", "rejected"}
        /\ Reply(c, Error("refused"))
        /\ UNCHANGED pay
  /\ UNCHANGED <<path, ui, settings>>

\* UploadProof: the customer uploads a proof, or another one.
ProofArrives ==
  /\ path = "payments"
  /\ \E p \in Orders :
       /\ pay[p].status \in {"pending_proof", "rejected"}
       /\ pay' = [pay EXCEPT ![p].status = "pending_review"]
  /\ UNCHANGED <<path, ui, calls, settings>>

\* UpdateSettings and UpdateKHQRImage: two versions stand for all.
ServeSettings(c) ==
  /\ Sent(c, "settings.save") \/ Sent(c, "settings.upload")
  /\ \/ /\ settings' = 3 - settings
        /\ Reply(c, Ok(settings'))
     \/ /\ Reply(c, Error("invalid"))
        /\ UNCHANGED settings
  /\ UNCHANGED <<path, ui, pay>>

-----------------------------------------------------------------------------
(* The handlers of the list.                                               *)

\* load, under filters f that become the applied ones.
LoadPayments(f, off) ==
  /\ ui' = [ui EXCEPT !.applied = f, !.loading = TRUE, !.error = FALSE]
  /\ Send("payments.list", [filter |-> f, offset |-> off])
  /\ UNCHANGED <<path, paymentVars>>

\* applyFilters and clearFilters; then quickFilter.  Dates that validateDateRange
\* refuses are a message and no request.
FilterPayments ==
  \/ FilterBar.apply /\ \E f \in PaymentFilters : LoadPayments(f, 0)
  \/ FilterBar.quick /\ LoadPayments("review_queue", 0)

\* The header's Refresh, and the error's Retry.
RefreshPayments ==
  path = "payments" /\ ~ui.loading /\ LoadPayments(ui.applied, ui.list.offset)

TurnPaymentsPage ==
  \/ /\ PaymentPages.previous
     /\ LoadPayments(ui.applied,
          IF ui.list.offset > ListLimit THEN ui.list.offset - ListLimit ELSE 0)
  \/ PaymentPages.next /\ LoadPayments(ui.applied, ui.list.offset + ListLimit)

PaymentsLoaded(c) ==
  /\ Done(c, "payments.list") /\ calls[c].mine
  /\ ui' = IF calls[c].ans.ok THEN [ui EXCEPT !.list = calls[c].ans.data, !.loading = FALSE]
           ELSE [ui EXCEPT !.error = TRUE, !.loading = FALSE]
  /\ Settle(c)
  /\ UNCHANGED <<path, paymentVars>>

-----------------------------------------------------------------------------
(* The handlers of the drawer.                                             *)

\* (Faulty: the drawer keeps its form when another payment is put into it.)
SelectKeepingForm(item) == [ui EXCEPT !.selected = item]

\* setSelected, and the drawer's effect on the id of its payment.
Select(item) ==
  [ui EXCEPT !.selected = item,
             !.reference = IF item.id = ui.selected.id THEN @ ELSE None]

OpenPayment ==
  /\ \E item \in PaymentsTable :
       /\ ui' = [Select(item) EXCEPT !.notice = None]
       /\ Send("payments.get", [id |-> item.id])
  /\ UNCHANGED <<path, paymentVars>>

\* The answer is put into the drawer, whatever it shows by now.
PaymentRead(c) ==
  /\ Done(c, "payments.get") /\ calls[c].mine
  /\ ui' = IF calls[c].ans.ok THEN Select(calls[c].ans.data) ELSE ui
  /\ Settle(c)
  /\ UNCHANGED <<path, paymentVars>>

CloseDrawer ==
  /\ PaymentDrawer.open
  /\ ui' = [Select(NoItem) EXCEPT !.notice = None]
  /\ UNCHANGED <<path, calls, paymentVars>>

TypeVerified ==
  /\ CanApprove /\ ui.reference = None
  /\ ui' = [ui EXCEPT !.reference = Transfer[ui.selected.id]]
  /\ UNCHANGED <<path, calls, paymentVars>>

\* onApprove and onReject; both will load the list at the filters and the
\* offset of now.
ReviewPayment ==
  /\ LET arg(verdict) == [id |-> ui.selected.id, reference |-> ui.reference, verdict |-> verdict,
                          filter |-> ui.applied, offset |-> ui.list.offset]
     IN \/ PaymentDrawer.approve /\ Send("payments.approve", arg("approved"))
        \/ PaymentDrawer.reject /\ Send("payments.reject", arg("rejected"))
  /\ ui' = [ui EXCEPT !.acting = TRUE, !.notice = None]
  /\ UNCHANGED <<path, paymentVars>>

\* The payment is read again: refreshSelected.
Reviewed(c) ==
  /\ Done(c, "payments.approve") \/ Done(c, "payments.reject")
  /\ calls[c].mine
  /\ IF calls[c].ans.ok
     THEN /\ ui' = [ui EXCEPT !.notice = calls[c].arg.verdict]
          /\ Await(c, "payments.reget", calls[c].arg)
     ELSE /\ ui' = [ui EXCEPT !.acting = FALSE]
          /\ Settle(c)
  /\ UNCHANGED <<path, paymentVars>>

\* Then the list is loaded.
Reread(c) ==
  /\ Done(c, "payments.reget") /\ calls[c].mine
  /\ LET arg == calls[c].arg IN
     \/ /\ calls[c].ans.ok
        /\ ui' = [Select(calls[c].ans.data) EXCEPT !.acting = FALSE, !.loading = TRUE,
                                                   !.error = FALSE]
        /\ Await(c, "payments.list", [filter |-> arg.filter, offset |-> arg.offset])
     \/ /\ ~calls[c].ans.ok
        /\ ui' = [ui EXCEPT !.acting = FALSE]
        /\ Settle(c)
  /\ UNCHANGED <<path, paymentVars>>

-----------------------------------------------------------------------------
(* The handlers of the settings.                                           *)

LoadSettings ==
  /\ path = "settings" /\ ui.error /\ ~ui.loading
  /\ ui' = [ui EXCEPT !.loading = TRUE, !.error = FALSE]
  /\ Send("settings.get", None)
  /\ UNCHANGED <<path, paymentVars>>

\* The form and the file input, which stay enabled while a request is under way.
EditSettings ==
  /\ SettingsForm
  /\ \/ ui' = [ui EXCEPT !.edited = TRUE]
     \/ ui' = [ui EXCEPT !.file = ~@]
  /\ UNCHANGED <<path, calls, paymentVars>>

SaveSettings ==
  /\ SettingsForm /\ ~ui.saving
  /\ ui' = [ui EXCEPT !.saving = TRUE, !.error = FALSE]
  /\ Send("settings.save", None)
  /\ UNCHANGED <<path, paymentVars>>

\* uploadImage
UploadImage ==
  /\ SettingsForm /\ ~ui.uploading
  /\ IF ui.file
     THEN /\ ui' = [ui EXCEPT !.uploading = TRUE, !.error = FALSE]
          /\ Send("settings.upload", None)
     ELSE /\ ui' = [ui EXCEPT !.error = TRUE]
          /\ UNCHANGED calls
  /\ UNCHANGED <<path, paymentVars>>

\* apply overwrites the form, whatever has been typed since the request left.
Applied(version) == [ui EXCEPT !.settings = version, !.edited = FALSE]

SettingsAnswered(c) ==
  /\ calls[c].mine
  /\ LET ans == calls[c].ans
         now == IF ans.ok THEN Applied(ans.data) ELSE [ui EXCEPT !.error = TRUE]
     IN \/ Done(c, "settings.get")    /\ ui' = [now EXCEPT !.loading = FALSE]
        \/ Done(c, "settings.save")   /\ ui' = [now EXCEPT !.saving = FALSE]
        \/ Done(c, "settings.upload") /\ ui' = [now EXCEPT !.uploading = FALSE,
                                                           !.file = @ /\ ~ans.ok]
  /\ Settle(c)
  /\ UNCHANGED <<path, paymentVars>>

AdminPaymentsNext ==
  \/ path = "payments" /\ (\/ FilterPayments \/ RefreshPayments \/ TurnPaymentsPage \/ OpenPayment
                           \/ CloseDrawer \/ TypeVerified \/ ReviewPayment \/ ProofArrives)
  \/ path = "settings" /\ (LoadSettings \/ EditSettings \/ SaveSettings \/ UploadImage)
  \/ \E c \in Slots :
       \/ ServePaymentReads(c) \/ ServeApprove(c) \/ ServeReject(c) \/ ServeSettings(c)
       \/ PaymentsLoaded(c) \/ PaymentRead(c) \/ Reviewed(c) \/ Reread(c) \/ SettingsAnswered(c)
=============================================================================
