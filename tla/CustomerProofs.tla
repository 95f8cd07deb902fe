--------------------------- MODULE CustomerProofs ---------------------------
(***************************************************************************)
(* Proofs about the pages of a customer: Checkout, and Dashboard.  Both    *)
(* are a tab (Tab) whose requests may be answered late, out of order or    *)
(* never, in any number; each is a specification of its own.               *)
(*                                                                         *)
(* Checkout: the types, and that success is announced of a paid payment    *)
(* only.  The page may show an old answer, so what it says is true only if *)
(* what was true once stays true.  "paid" does not: a snapshot that does   *)
(* not match puts the payment back under review.  Its date of payment does *)
(* (PaidForGood): no answer under way says "paid" of a payment without one *)
(* (AnswersTrue), and the page says it only of answers it has had          *)
(* (PageTrue).                                                             *)
(*                                                                         *)
(* Dashboard: the types, that no page and no button that waits for an      *)
(* answer is left busy, and that usage rows are shown under the filters    *)
(* they answer.  The invariant has one part for the rows at the API, one   *)
(* for the requests (what each carries, what its answer holds, and which   *)
(* page waits for it), one for the page at path, and one that says that    *)
(* the usage page waits for one list at a time, under the filters applied. *)
(***************************************************************************)
EXTENDS Checkout, Dashboard, TLAPS

-----------------------------------------------------------------------------
(* Checkout.  The ways in which a step changes the requests under way.     *)

\* The answers' shapes.
LEMMA AnswerShapes ==
  /\ NoAnswer \in Answers /\ ~NoAnswer.ok
  /\ Error("network") \in Answers /\ ~Error("network").ok
  /\ Error("conflict") \in Answers /\ ~Error("conflict").ok
  /\ \A p \in Payment : Ok(p) \in Answers /\ Ok(p).data = p
  /\ \A a \in Answers : a.ok => a.data \in Payment
<1>1. \A why : ~Error(why).ok
  BY DEF Error
<1>2. \A p : Ok(p).ok /\ Ok(p).data = p
  BY DEF Ok
<1>3. \A why \in {None, "network", "conflict"} : Error(why) \in Answers
  BY DEF Answers
<1>4. \A p \in Payment : Ok(p) \in Answers
  BY DEF Answers
<1>5. ASSUME NEW a \in Answers, a.ok PROVE a.data \in Payment
  <2>1. \A why \in {None, "network", "conflict"} : a # Error(why)
    BY <1>1, <1>5
  <2>2. \E p \in Payment : a = Ok(p)
    BY <2>1 DEF Answers
  <2> QED
    BY <2>2, <1>2
<1>6. NoAnswer = Error(None)
  BY DEF NoAnswer
<1> QED
  BY <1>1, <1>2, <1>3, <1>4, <1>5, <1>6

LEMMA NoCallType == NoCall \in Calls /\ ~NoCall.ans.ok
BY AnswerShapes DEF NoCall, Calls

LEMMA SendType ==
  ASSUME calls \in [Slots -> Calls], NEW op \in CheckoutOperations, Send(op, None)
  PROVE  /\ calls' \in [Slots -> Calls]
         /\ \A c \in Slots : calls'[c].ans \in {calls[c].ans, NoAnswer}
<1> DEFINE new == [op |-> op, arg |-> None, st |-> "sent", ans |-> NoAnswer, mine |-> TRUE]
<1>1. new \in Calls /\ new.ans = NoAnswer
  BY AnswerShapes DEF Calls
<1>2. PICK c \in Slots : calls' = [calls EXCEPT ![c] = new]
  BY DEF Send
<1> HIDE DEF new
<1> QED
  BY <1>1, <1>2

LEMMA SettleType ==
  ASSUME calls \in [Slots -> Calls], NEW c \in Slots, Settle(c)
  PROVE  /\ calls' \in [Slots -> Calls]
         /\ \A d \in Slots : calls'[d].ans \in {calls[d].ans, NoAnswer}
<1>1. NoCall.ans = NoAnswer
  BY DEF NoCall
<1> QED
  BY <1>1, NoCallType DEF Settle

LEMMA ReplyType ==
  ASSUME calls \in [Slots -> Calls], NEW c \in Slots, NEW ans \in Answers, Reply(c, ans)
  PROVE  /\ calls' \in [Slots -> Calls]
         /\ \A d \in Slots : calls'[d].ans \in {calls[d].ans, NoAnswer, ans}
<1> DEFINE answered == [calls[c] EXCEPT !.st = "done", !.ans = ans]
<1>1. answered \in Calls /\ answered.ans = ans
  BY DEF Calls
<1>2. NoCall.ans = NoAnswer
  BY DEF NoCall
<1>3. calls' = [calls EXCEPT ![c] = answered] \/ calls' = [calls EXCEPT ![c] = NoCall]
  BY DEF Reply
<1> HIDE DEF answered
<1> QED
  BY <1>1, <1>2, <1>3, NoCallType

LEMMA OrphanedType ==
  ASSUME calls \in [Slots -> Calls]
  PROVE  /\ Orphaned \in [Slots -> Calls]
         /\ \A c \in Slots : Orphaned[c].ans \in {calls[c].ans, NoAnswer}
<1> SUFFICES ASSUME NEW c \in Slots
             PROVE  Orphaned[c] \in Calls /\ Orphaned[c].ans \in {calls[c].ans, NoAnswer}
  BY DEF Orphaned
<1> DEFINE left == [calls[c] EXCEPT !.mine = FALSE]
<1>1. left \in Calls /\ left.ans = calls[c].ans
  BY DEF Calls
<1>2. NoCall.ans = NoAnswer
  BY DEF NoCall
<1>3. Orphaned[c] \in {left, NoCall}
  BY DEF Orphaned
<1> HIDE DEF left
<1> QED
  BY <1>1, <1>2, <1>3, NoCallType

LEMMA MountType ==
  ASSUME calls \in [Slots -> Calls], Reopen
  PROVE  /\ calls' \in [Slots -> Calls]
         /\ \A c \in Slots : calls'[c].ans \in {calls[c].ans, NoAnswer}
<1> DEFINE new == [op |-> "load", arg |-> None, st |-> "sent", ans |-> NoAnswer, mine |-> TRUE]
<1>1. new \in Calls /\ new.ans = NoAnswer
  BY AnswerShapes DEF Calls, CheckoutOperations
<1>2. PICK c \in Slots : calls' = [Orphaned EXCEPT ![c] = new]
  BY DEF Reopen, Mount
<1> HIDE DEF new
<1> QED
  BY <1>1, <1>2, OrphanedType

\* What an answer under way holds is a payment.
LEMMA AnsweredPayment ==
  ASSUME calls \in [Slots -> Calls], NEW c \in Slots, calls[c].ans.ok
  PROVE  calls[c].ans.data \in Payment
<1>1. calls[c].ans \in Answers
  BY DEF Calls
<1> QED
  BY <1>1, AnswerShapes

\* The page with another payment in it.
LEMMA ShowType ==
  ASSUME ui \in CheckoutState, NEW p \in Payment
  PROVE  /\ Show(p) \in CheckoutState
         /\ Show(p).payment = p /\ Show(p).notice = ui.notice
         /\ Show(p).success => ui.success \/ p.status = "paid"
<1>1. p.status \in Statuses
  BY DEF Payment
<1>2. (\/ ui.success
       \/ /\ p.status = "paid" /\ ui.payment.status # "paid"
          /\ ui.previous \notin {None, "paid"}) \in BOOLEAN
  BY DEF CheckoutState
<1> QED
  BY <1>1, <1>2 DEF Show, CheckoutState

-----------------------------------------------------------------------------
(* Checkout: types.                                                        *)

LEMMA PaymentTypes ==
  /\ NoPayment.status = None /\ None \notin Statuses
  /\ \A p \in Payment, s \in Statuses :
       [p EXCEPT !.status = s] \in Payment /\ [p EXCEPT !.status = s].status = s
  /\ \A p \in Payment :
       LET q == [p EXCEPT !.status = "pending_review", !.proofUploaded = TRUE]
       IN  q \in Payment /\ q.status = "pending_review"
BY DEF NoPayment, None, Statuses, Payment

LEMMA MovesType ==
  ASSUME NEW p \in Payment
  PROVE  Moves(p) \subseteq Statuses
BY DEF Moves, Statuses

\* Fields of the page's state set to values of their types.
LEMMA InitType == CheckoutInit => CheckoutTypeOK
<1> SUFFICES ASSUME CheckoutInit PROVE CheckoutTypeOK
  OBVIOUS
<1>1. server \in Payment /\ paidAt \in BOOLEAN
  BY DEF CheckoutInit, Payment, NoPayment, Statuses
<1>2. ui \in CheckoutState
  BY DEF CheckoutInit, Fresh, CheckoutState
<1>3. calls \in [Slots -> Calls]
  BY NoCallType, AnswerShapes DEF CheckoutInit, Calls, CheckoutOperations
<1> QED
  BY <1>1, <1>2, <1>3 DEF CheckoutTypeOK, CheckoutInit

\* A paid payment has a date of payment.
PaidDated == server.status = "paid" => paidAt

\* The row keeps its type and its date of payment; a row turned paid has one.
LEMMA ServerStep ==
  ASSUME CheckoutTypeOK, PaidDated, [CheckoutNext]_checkoutVars
  PROVE  server' \in Payment /\ paidAt' \in BOOLEAN /\ (paidAt => paidAt') /\ PaidDated'
<1> DEFINE Goal == /\ server' \in Payment /\ paidAt' \in BOOLEAN
                   /\ (paidAt => paidAt') /\ PaidDated'
<1> SUFFICES Goal
  OBVIOUS
<1>0. server \in Payment /\ paidAt \in BOOLEAN
  BY DEF CheckoutTypeOK
<1>1. CASE PaymentMoves
  <2>1. PICK s \in Moves(server) :
           server' = [server EXCEPT !.status = s] /\ paidAt' = (paidAt \/ s = "paid")
    BY <1>1 DEF PaymentMoves
  <2>2. s \in Statuses
    BY <1>0, <2>1, MovesType
  <2>3. server' \in Payment /\ server'.status = s
    BY <1>0, <2>1, <2>2, PaymentTypes
  <2> QED
    BY <1>0, <2>1, <2>3 DEF PaidDated
<1>2. ASSUME NEW c \in Slots, ServeUpload(c) PROVE Goal
  <2>1. CASE CanUploadProof(server)
    <3>1. /\ server' = [server EXCEPT !.status = "pending_review", !.proofUploaded = TRUE]
          /\ paidAt' = paidAt
      BY <1>2, <2>1 DEF ServeUpload
    <3>2. server' \in Payment /\ server'.status # "paid"
      BY <1>0, <3>1, PaymentTypes
    <3> QED
      BY <1>0, <3>1, <3>2 DEF PaidDated
  <2>2. CASE ~CanUploadProof(server)
    BY <1>0, <1>2, <2>2 DEF ServeUpload, PaidDated
  <2> QED
    BY <2>1, <2>2
<1>3. CASE UNCHANGED <<server, paidAt>>
  BY <1>0, <1>3 DEF PaidDated
<1>4. \/ PaymentMoves
      \/ \E c \in Slots : ServeUpload(c)
      \/ UNCHANGED <<server, paidAt>>
  BY DEF CheckoutNext, checkoutVars, Load, Poll, CheckStatus, SubmitProof, Dismiss, Reopen,
         Serve, ServeRead, Answered, Loaded, Polled, Refreshed, Uploaded
<1> QED
  BY <1>1, <1>2, <1>3, <1>4

\* The requests keep their type, and what they are answered with is the row.
LEMMA CallsStep ==
  ASSUME CheckoutTypeOK, PaidDated, [CheckoutNext]_checkoutVars
  PROVE  /\ calls' \in [Slots -> Calls]
         /\ \A c \in Slots : calls'[c].ans.ok => \/ calls'[c].ans = calls[c].ans
                                               \/ calls'[c].ans.data = server'
<1> DEFINE Goal == /\ calls' \in [Slots -> Calls]
                   /\ \A c \in Slots : calls'[c].ans.ok =>
                        calls'[c].ans = calls[c].ans \/ calls'[c].ans.data = server'
<1> SUFFICES Goal
  OBVIOUS
<1> HIDE DEF Goal
<1>1. calls \in [Slots -> Calls] /\ server \in Payment /\ server' \in Payment
  BY ServerStep DEF CheckoutTypeOK
<1>2. ASSUME NEW op \in CheckoutOperations, Send(op, None) PROVE Goal
  BY <1>1, <1>2, SendType, AnswerShapes DEF Goal
<1>3. ASSUME NEW c \in Slots, Settle(c) PROVE Goal
  BY <1>1, <1>3, SettleType, AnswerShapes DEF Goal
<1>4. CASE Reopen
  BY <1>1, <1>4, MountType, AnswerShapes DEF Goal
<1>5. ASSUME NEW c \in Slots, ServeRead(c) PROVE Goal
  <2>1. Reply(c, Ok(server)) /\ server' = server
    BY <1>5 DEF ServeRead
  <2>2. Ok(server) \in Answers /\ Ok(server).data = server
    BY <1>1, AnswerShapes
  <2> QED
    BY <1>1, <2>1, <2>2, ReplyType, AnswerShapes DEF Goal
<1>6. ASSUME NEW c \in Slots, ServeUpload(c) PROVE Goal
  <2>1. PICK a \in Answers : Reply(c, a) /\ (a.ok => a.data = server')
    BY <1>1, <1>6, AnswerShapes DEF ServeUpload
  <2> QED
    BY <1>1, <2>1, ReplyType, AnswerShapes DEF Goal
<1>7. ASSUME NEW c \in Slots, Lost(c) PROVE Goal
  <2>1. Reply(c, Error("network"))
    BY <1>7 DEF Lost
  <2> QED
    BY <1>1, <2>1, ReplyType, AnswerShapes DEF Goal
<1>8. CASE UNCHANGED calls
  BY <1>1, <1>8 DEF Goal
<1>9. ASSUME Load \/ Poll \/ CheckStatus \/ SubmitProof PROVE Goal
  <2>1. (\E op \in CheckoutOperations : Send(op, None)) \/ UNCHANGED calls
    BY <1>9 DEF Load, Poll, CheckStatus, SubmitProof, CheckoutOperations
  <2> QED
    BY <2>1, <1>2, <1>8
<1>10. ASSUME NEW c \in Slots, Answered(c) PROVE Goal
  BY <1>3, <1>10 DEF Answered, Loaded, Polled, Refreshed, Uploaded
<1>11. \/ Load \/ Poll \/ CheckStatus \/ SubmitProof
       \/ Reopen
       \/ \E c \in Slots : ServeRead(c) \/ ServeUpload(c) \/ Lost(c) \/ Answered(c)
       \/ UNCHANGED calls
  <2>1. PaymentMoves \/ Dismiss \/ UNCHANGED checkoutVars => UNCHANGED calls
    BY DEF PaymentMoves, Dismiss, checkoutVars
  <2> QED
    BY <2>1 DEF CheckoutNext, Serve
<1> QED
  BY <1>4, <1>5, <1>6, <1>7, <1>8, <1>9, <1>10, <1>11

\* What the page says of the payment, given the payment shown, whether its
\* dialog is open, and its notice.
Says(page) == page.payment.status = "paid" \/ page.success \/ page.notice = "confirmed"

LEMMA FreshType == Fresh \in CheckoutState /\ ~Says(Fresh)
BY DEF Fresh, CheckoutState, Says, NoPayment, None

\* A step of the page shows a payment it was answered with, or the one it
\* showed; only a paid one makes it say more than it said.
LEMMA AnsweredStep ==
  ASSUME CheckoutTypeOK, NEW c \in Slots, Answered(c)
  PROVE  /\ ui' \in CheckoutState
         /\ Says(ui') => \/ Says(ui)
                         \/ calls[c].ans.ok /\ calls[c].ans.data.status = "paid"
<1> DEFINE ans == calls[c].ans
           Goal == /\ ui' \in CheckoutState
                   /\ Says(ui') => Says(ui) \/ (ans.ok /\ ans.data.status = "paid")
<1> SUFFICES Goal
  OBVIOUS
<1>0. ui \in CheckoutState
  BY DEF CheckoutTypeOK
<1>1. CASE ~ans.ok
  <2>1. ui' \in {ui, [ui EXCEPT !.error = TRUE, !.loading = FALSE],
                 [ui EXCEPT !.error = TRUE, !.refreshing = FALSE],
                 [ui EXCEPT !.uploading = FALSE]}
    BY <1>1 DEF Answered, Loaded, Polled, Refreshed, Uploaded
  <2> QED
    BY <1>0, <2>1 DEF CheckoutState, Says
<1>2. CASE ans.ok
  <2> DEFINE shown == Show(ans.data)
  <2>1. ans.data \in Payment
    BY <1>2, AnsweredPayment DEF CheckoutTypeOK
  <2>2. /\ shown \in CheckoutState
        /\ shown.payment = ans.data /\ shown.notice = ui.notice
        /\ shown.success => ui.success \/ ans.data.status = "paid"
    BY <1>0, <2>1, ShowType
  <2>3. \/ ui' = shown
        \/ ui' = [shown EXCEPT !.loading = FALSE]
        \/ ui' = [shown EXCEPT !.refreshing = FALSE,
              !.notice = IF ans.data.status = "paid" THEN "confirmed" ELSE "refreshed"]
        \/ ui' = [shown EXCEPT !.uploading = FALSE, !.notice = "submitted"]
    BY <1>2 DEF Answered, Loaded, Polled, Refreshed, Uploaded
  <2> HIDE DEF shown, ans
  <2>4. CASE ui' = shown
    BY <1>2, <2>2, <2>4 DEF Says
  <2>5. CASE ui' = [shown EXCEPT !.loading = FALSE]
    BY <1>2, <2>2, <2>5 DEF Says, CheckoutState
  <2>6. CASE ui' = [shown EXCEPT !.refreshing = FALSE,
               !.notice = IF ans.data.status = "paid" THEN "confirmed" ELSE "refreshed"]
    BY <1>2, <2>2, <2>6 DEF Says, CheckoutState
  <2>7. CASE ui' = [shown EXCEPT !.uploading = FALSE, !.notice = "submitted"]
    BY <1>2, <2>2, <2>7 DEF Says, CheckoutState
  <2> QED
    BY <2>3, <2>4, <2>5, <2>6, <2>7
<1> QED
  BY <1>1, <1>2

\* The other steps change no payment, and make the page say nothing new.
LEMMA ReaderStep ==
  ASSUME CheckoutTypeOK, [CheckoutNext]_checkoutVars, \A c \in Slots : ~Answered(c)
  PROVE  ui' \in CheckoutState /\ (Says(ui') => Says(ui))
<1>0. ui \in CheckoutState
  BY DEF CheckoutTypeOK
<1>1. CASE Reopen
  BY <1>1, FreshType DEF Reopen, Mount
<1>2. CASE UNCHANGED ui
  BY <1>0, <1>2
<1>3. CASE Load
  BY <1>0, <1>3 DEF Load, CheckoutState, Says
<1>4. CASE CheckStatus
  <2>1. ui' = [ui EXCEPT !.refreshing = TRUE, !.notice = None, !.error = FALSE]
    BY <1>4 DEF CheckStatus
  <2> QED
    BY <1>0, <2>1 DEF CheckoutState, Says, None
<1>6. CASE SubmitProof
  <2>1. \/ ui' = [ui EXCEPT !.notice = None]
        \/ ui' = [ui EXCEPT !.uploading = TRUE, !.notice = None]
    BY <1>6 DEF SubmitProof
  <2> QED
    BY <1>0, <2>1 DEF CheckoutState, Says, None
<1>7. CASE Dismiss
  BY <1>0, <1>7 DEF Dismiss, CheckoutState, Says
<1>8. PaymentMoves \/ Poll \/ UNCHANGED checkoutVars => UNCHANGED ui
  BY DEF PaymentMoves, Poll, checkoutVars
<1>9. \A c \in Slots : Serve(c) \/ Lost(c) => UNCHANGED ui
  BY DEF Serve, ServeRead, ServeUpload, Lost
<1> QED
  BY <1>1, <1>2, <1>3, <1>4, <1>6, <1>7, <1>8, <1>9 DEF CheckoutNext

-----------------------------------------------------------------------------
(* Checkout: the invariant.                                                *)

\* No answer under way says "paid" of a payment that never was.
AnswersTrue ==
  \A c \in Slots : calls[c].ans.ok /\ calls[c].ans.data.status = "paid" => paidAt

\* Nor does the page.
PageTrue == Says(ui) => paidAt

CheckoutIInv == CheckoutTypeOK /\ PaidDated /\ AnswersTrue /\ PageTrue

LEMMA TypeStep ==
  ASSUME CheckoutTypeOK, PaidDated, [CheckoutNext]_checkoutVars
  PROVE  CheckoutTypeOK'
<1>1. path' = "checkout"
  BY DEF CheckoutTypeOK, CheckoutNext, checkoutVars, PaymentMoves, Load, Poll, CheckStatus, SubmitProof,
         Dismiss, Reopen, Mount, Serve, ServeRead, ServeUpload, Answered, Loaded, Polled,
         Refreshed, Uploaded, Lost
<1>2. ui' \in CheckoutState
  BY AnsweredStep, ReaderStep
<1> QED
  BY <1>1, <1>2, ServerStep, CallsStep DEF CheckoutTypeOK

LEMMA InvariantStep ==
  ASSUME CheckoutIInv, [CheckoutNext]_checkoutVars
  PROVE  CheckoutIInv'
<1>1. CheckoutTypeOK /\ PaidDated /\ AnswersTrue /\ PageTrue
  BY DEF CheckoutIInv
<1>2. CheckoutTypeOK'
  BY <1>1, TypeStep
<1>3. (paidAt => paidAt') /\ PaidDated'
  BY <1>1, ServerStep
<1>4. AnswersTrue'
  <2> SUFFICES ASSUME NEW c \in Slots, calls'[c].ans.ok, calls'[c].ans.data.status = "paid"
               PROVE  paidAt'
    BY DEF AnswersTrue
  <2>1. calls'[c].ans = calls[c].ans \/ calls'[c].ans.data = server'
    BY <1>1, CallsStep
  <2> QED
    BY <1>1, <1>3, <2>1 DEF AnswersTrue, PaidDated
<1>5. PageTrue'
  <2> SUFFICES ASSUME Says(ui') PROVE paidAt'
    BY DEF PageTrue
  <2>1. CASE Says(ui)
    BY <1>1, <1>3, <2>1 DEF PageTrue
  <2>2. CASE \E c \in Slots : calls[c].ans.ok /\ calls[c].ans.data.status = "paid"
    BY <1>1, <1>3, <2>2 DEF AnswersTrue
  <2>3. Says(ui) \/ \E c \in Slots : calls[c].ans.ok /\ calls[c].ans.data.status = "paid"
    BY <1>1, AnsweredStep, ReaderStep
  <2> QED
    BY <2>1, <2>2, <2>3
<1> QED
  BY <1>2, <1>3, <1>4, <1>5 DEF CheckoutIInv

LEMMA InvariantInit == CheckoutInit => CheckoutIInv
<1> SUFFICES ASSUME CheckoutInit PROVE CheckoutIInv
  OBVIOUS
<1>1. \A c \in Slots : ~calls[c].ans.ok
  BY AnswerShapes, NoCallType DEF CheckoutInit
<1>2. ~Says(ui)
  BY FreshType DEF CheckoutInit
<1>3. PaidDated
  BY DEF CheckoutInit, PaidDated, NoPayment
<1> QED
  BY <1>1, <1>2, <1>3, InitType DEF CheckoutIInv, AnswersTrue, PageTrue

\* The invariant: what the page and the answers under way say is dated.
THEOREM CheckoutInvariant == CheckoutSpec => []CheckoutIInv
<1>1. CheckoutIInv /\ [CheckoutNext]_checkoutVars => CheckoutIInv'
  BY InvariantStep
<1> QED
  BY <1>1, InvariantInit, PTL DEF CheckoutSpec

\* The page and its requests keep their types, with any number of slots
\* (CheckoutPage's useState, lib/api.ts).
THEOREM CheckoutTypes == CheckoutSpec => []CheckoutTypeOK
<1>1. CheckoutIInv => CheckoutTypeOK
  BY DEF CheckoutIInv
<1> QED
  BY <1>1, CheckoutInvariant, PTL

\* The dialog and the notice of success are shown only of a payment that has
\* been paid, however many polls, refreshes and uploads are under way.
THEOREM CheckoutSuccess == CheckoutSpec => []SuccessIsTrue
<1>1. CheckoutIInv => SuccessIsTrue
  BY DEF CheckoutIInv, PageTrue, Says, SuccessIsTrue, SuccessShown
<1> QED
  BY <1>1, CheckoutInvariant, PTL

\* No snapshot, review or upload clears the date of payment (Moves, ServeUpload).
THEOREM PaidForGood == CheckoutSpec => [][paidAt => paidAt']_paidAt
<1>1. CheckoutIInv /\ [CheckoutNext]_checkoutVars => [paidAt => paidAt']_paidAt
  BY ServerStep DEF CheckoutIInv
<1> QED
  BY <1>1, CheckoutInvariant, PTL DEF CheckoutSpec

-----------------------------------------------------------------------------
(* Dashboard.  The rows at the API.                                        *)

Rows == <<key, orders, signedIn, matching>>

RowsOK ==
  /\ key \in PublicKey \cup {NoKey}
  /\ orders \in [Packages -> 0 .. MaxOrders]
  /\ signedIn \in BOOLEAN
  /\ matching \in [Valid -> 0 .. MaxRows]
  /\ \A f \in Valid : matching[f] <= matching[AllUsage]

-----------------------------------------------------------------------------
(* Dashboard: the requests.                                                *)

UsageQuery == [filters : Valid, offset : 0 .. LastOffset]

\* What a request carries.
ArgOK(op, arg) ==
  /\ op = "usage.list" => arg \in UsageQuery
  /\ op = "checkout.package" => arg \in Packages

\* What its answer holds.
DataOK(op, arg, data) ==
  /\ op \in {"key.get", "key.create", "key.rotate", "key.revoke"} => data \in PublicKey
  /\ op \in {"overview.load", "billing.payments"} => data \in BOOLEAN
  /\ op = "usage.list" => /\ data \in UsageRows
                          /\ data.filters = arg.filters /\ data.offset = arg.offset
  /\ op = "checkout.package" => data \in Packages

\* The requests whose answers the page p waits for.
OpsOf(p) ==
  CASE p = "overview" -> {"overview.load"}
    [] p = "settings" -> {"settings.me", "password", "logout"}
    [] p = "api-key"  -> {"key.get", "key.create", "key.rotate", "key.revoke"}
    [] p = "usage"    -> {"usage.list"}
    [] p = "billing"  -> {"billing.load", "billing.payments", "checkout.package"}
    [] p = "packages" -> {"packages.load", "packages.me", "checkout.package"}
    [] OTHER          -> {}

CallOK(call, p) ==
  /\ call = [op |-> call.op, arg |-> call.arg, st |-> call.st, ans |-> call.ans,
             mine |-> call.mine]
  /\ call.op \in Operations \cup {None}
  /\ call.st \in {None, "sent", "done"}
  /\ call.mine \in BOOLEAN
  /\ call.ans.ok \in BOOLEAN
  /\ ArgOK(call.op, call.arg)
  /\ call.ans.ok => DataOK(call.op, call.arg, call.ans.data)
  /\ call.mine => call.op \in OpsOf(p)

CallsOK ==
  /\ calls = [c \in Slots |-> calls[c]]
  /\ \A c \in Slots : CallOK(calls[c], path)

\* The requests that the page waits for.
Waits == {calls[c].op : c \in {d \in Slots : calls[d].mine}}

-----------------------------------------------------------------------------
(* The pages: what they show, and what they wait for.                      *)

KeyOK(u, waits) ==
  /\ u \in KeyState
  /\ u.loading => "key.get" \in waits
  /\ u.busy    => "key.create" \in waits \/ "key.rotate" \in waits \/ "key.revoke" \in waits

\* The rows shown answer the filters applied, at the offset shown.
UsageOK(u, waits) ==
  /\ u \in UsageState
  /\ u.loading => "usage.list" \in waits
  /\ u.error => ~u.loading
  /\ ~u.loading /\ ~u.error => u.usage.filters = u.applied /\ u.usage.offset = u.offset

BillingOK(u, waits) ==
  /\ u \in BillingState
  /\ u.loading         => "billing.load" \in waits \/ "billing.payments" \in waits
  /\ u.choosing # None => "checkout.package" \in waits

PackagesOK(u, waits) ==
  /\ u \in PackagesState
  /\ u.loading         => "packages.load" \in waits
  /\ u.choosing # None => "checkout.package" \in waits

OverviewOK(u, waits) ==
  /\ u \in OverviewState
  /\ u.loading => "overview.load" \in waits

SettingsOK(u, waits) ==
  /\ u \in SettingsState
  /\ u.loading => "settings.me" \in waits
  /\ u.saving  => "password" \in waits

PageAt(p, u, waits) ==
  /\ p \in Pages \cup {"login", "checkout"}
  /\ p = "login"    => u \in LoginState
  /\ p = "overview" => OverviewOK(u, waits)
  /\ p = "settings" => SettingsOK(u, waits)
  /\ p = "api-key"  => KeyOK(u, waits)
  /\ p = "usage"    => UsageOK(u, waits)
  /\ p = "billing"  => BillingOK(u, waits)
  /\ p = "packages" => PackagesOK(u, waits)
  /\ p = "checkout" => u \in CheckoutOpened

PageOK == PageAt(path, ui, Waits)

\* The usage page waits for one list at a time, under the filters applied.
OneList ==
  path = "usage" =>
    \A c \in Slots : calls[c].mine =>
      /\ ui.loading /\ calls[c].arg.filters = ui.applied
      /\ \A d \in Slots : calls[d].mine => d = c

IInv == RowsOK /\ CallsOK /\ PageOK /\ OneList

-----------------------------------------------------------------------------
(* Requests.                                                               *)

LEMMA NoCallOK ==
  ASSUME NEW p
  PROVE  CallOK(NoCall, p) /\ ~NoCall.mine
BY DEF NoCall, NoAnswer, Error, None, CallOK, ArgOK

\* Another call in slot c, on the same page.
LEMMA OneCall ==
  ASSUME IInv, NEW c \in Slots, NEW new, calls' = [calls EXCEPT ![c] = new],
         path' = path, CallOK(new, path)
  PROVE  /\ CallsOK'
         /\ calls'[c] = new /\ \A d \in Slots \ {c} : calls'[d] = calls[d]
         /\ \A w \in Waits : w # calls[c].op => w \in Waits'
         /\ calls[c].mine /\ new.mine /\ new.op = calls[c].op => Waits \subseteq Waits'
         /\ ~calls[c].mine => Waits \subseteq Waits'
         /\ new.mine => new.op \in Waits'
<1>0. /\ calls = [d \in Slots |-> calls[d]]
      /\ calls' = [d \in Slots |-> calls'[d]]
      /\ calls'[c] = new
      /\ \A d \in Slots \ {c} : calls'[d] = calls[d]
  BY DEF IInv, CallsOK
<1>1. \A d \in Slots : CallOK(calls'[d], path)
  BY <1>0 DEF IInv, CallsOK
<1>2. CallsOK'
  BY <1>0, <1>1 DEF CallsOK
<1>3. new.mine => new.op \in Waits'
  BY <1>0 DEF Waits
<1>4. ASSUME NEW w \in Waits, w # calls[c].op \/ ~calls[c].mine PROVE w \in Waits'
  <2>1. PICK d \in Slots : calls[d].mine /\ w = calls[d].op
    BY DEF Waits
  <2>2. d # c
    BY <1>4, <2>1
  <2> QED
    BY <1>0, <2>1, <2>2 DEF Waits
<1> QED
  BY <1>0, <1>2, <1>3, <1>4

\* A request as it leaves.
Leaving(op, arg) ==
  [op |-> op, arg |-> arg, st |-> "sent", ans |-> NoAnswer, mine |-> TRUE]

LEMMA LeavingOK ==
  ASSUME NEW op \in Operations, NEW arg, NEW p, ArgOK(op, arg), op \in OpsOf(p)
  PROVE  /\ CallOK(Leaving(op, arg), p)
         /\ Leaving(op, arg).mine
         /\ Leaving(op, arg).op = op /\ Leaving(op, arg).arg = arg
<1>1. NoAnswer.ok = FALSE
  BY DEF NoAnswer, Error
<1>2. PICK new : new = Leaving(op, arg)
  OBVIOUS
<1>3. /\ new = [op |-> op, arg |-> arg, st |-> "sent", ans |-> NoAnswer, mine |-> TRUE]
      /\ new.op = op /\ new.arg = arg /\ new.st = "sent" /\ new.ans = NoAnswer
      /\ new.mine = TRUE
  BY <1>2 DEF Leaving
<1>4. CallOK(new, p)
  BY <1>1, <1>3 DEF CallOK
<1> QED
  BY <1>2, <1>3, <1>4

\* The requests of a page that has gone are no longer waited for.
LEMMA Orphans ==
  ASSUME IInv, NEW p, NEW c \in Slots
  PROVE  CallOK(Orphaned[c], p) /\ ~Orphaned[c].mine
<1>1. CallOK(calls[c], path)
  BY DEF IInv, CallsOK
<1>2. PICK old : old = [calls[c] EXCEPT !.mine = FALSE]
  OBVIOUS
<1>3. CallOK(old, p) /\ ~old.mine
  BY <1>1, <1>2 DEF CallOK
<1>4. Orphaned[c] = old \/ Orphaned[c] = NoCall
  BY <1>2 DEF Orphaned
<1> QED
  BY <1>3, <1>4, NoCallOK

\* Another page is opened, and sends its first request.
LEMMA MountStep ==
  ASSUME IInv, NEW p, NEW state, NEW op \in Operations, NEW arg,
         Mount(p, state, op, arg), op \in OpsOf(p), ArgOK(op, arg)
  PROVE  /\ CallsOK' /\ path' = p /\ ui' = state /\ op \in Waits'
         /\ \E c \in Slots : \A d \in Slots : calls'[d].mine => d = c /\ calls'[d].arg = arg
<1>1. PICK c \in Slots : calls' = [Orphaned EXCEPT ![c] = Leaving(op, arg)]
  BY DEF Mount, Leaving
<1>2. PICK new : new = Leaving(op, arg)
  OBVIOUS
<1>3. CallOK(new, p) /\ new.mine /\ new.op = op /\ new.arg = arg
  BY <1>2, LeavingOK
<1>4. /\ Orphaned = [d \in Slots |-> Orphaned[d]]
      /\ calls' = [Orphaned EXCEPT ![c] = new]
  BY <1>1, <1>2 DEF Orphaned
<1>5. calls' = [d \in Slots |-> calls'[d]] /\ calls'[c] = new
  BY <1>4
<1>6. ASSUME NEW d \in Slots PROVE CallOK(calls'[d], p) /\ (calls'[d].mine => d = c)
  BY <1>3, <1>4, Orphans
<1>7. path' = p /\ ui' = state
  BY DEF Mount
<1> QED
  BY <1>3, <1>5, <1>6, <1>7 DEF CallsOK, Waits

LEMMA SendStep ==
  ASSUME IInv, NEW op \in Operations, NEW arg, Send(op, arg),
         op \in OpsOf(path), ArgOK(op, arg), path' = path
  PROVE  /\ CallsOK' /\ Waits \subseteq Waits' /\ op \in Waits'
         /\ \E c \in Slots : /\ calls'[c].mine /\ calls'[c].arg = arg
                             /\ \A d \in Slots \ {c} : calls'[d] = calls[d]
<1>1. PICK c \in Slots : calls[c].op = None /\ calls' = [calls EXCEPT ![c] = Leaving(op, arg)]
  BY DEF Send, Leaving
<1>2. PICK new : new = Leaving(op, arg)
  OBVIOUS
<1>3. CallOK(new, path) /\ new.mine /\ new.op = op /\ new.arg = arg
  BY <1>2, LeavingOK
<1>4. ~calls[c].mine
  <2>1. CallOK(calls[c], path) /\ path \in Pages \cup {"login", "checkout"}
    BY DEF IInv, CallsOK, PageOK, PageAt
  <2> QED
    BY <1>1, <2>1 DEF CallOK, OpsOf, None, Pages
<1>5. /\ CallsOK' /\ Waits \subseteq Waits' /\ op \in Waits'
      /\ calls'[c] = new /\ \A d \in Slots \ {c} : calls'[d] = calls[d]
  <2>1. calls' = [calls EXCEPT ![c] = new]
    BY <1>1, <1>2
  <2> QED
    BY <1>3, <1>4, <2>1, OneCall
<1> QED
  BY <1>3, <1>5

LEMMA SettleStep ==
  ASSUME IInv, NEW c \in Slots, Settle(c), path' = path
  PROVE  /\ CallsOK' /\ \A w \in Waits : w # calls[c].op => w \in Waits'
         /\ ~calls[c].mine => Waits \subseteq Waits'
         /\ ~calls'[c].mine /\ \A d \in Slots \ {c} : calls'[d] = calls[d]
BY NoCallOK, OneCall DEF Settle

\* A continuation goes on to its next request.
LEMMA AwaitStep ==
  ASSUME IInv, NEW c \in Slots, calls[c].mine, NEW op \in Operations, NEW arg,
         Await(c, op, arg), op \in OpsOf(path), ArgOK(op, arg), path' = path
  PROVE  /\ CallsOK' /\ \A w \in Waits : w # calls[c].op => w \in Waits'
         /\ op \in Waits'
<1>1. calls[c].mine = TRUE /\ calls = [d \in Slots |-> calls[d]]
  BY DEF IInv, CallsOK, CallOK
<1>2. PICK new : new = Leaving(op, arg)
  OBVIOUS
<1>3. calls' = [calls EXCEPT ![c] = new]
  BY <1>1, <1>2 DEF Await, Leaving
<1>4. CallOK(new, path) /\ new.mine /\ new.op = op
  BY <1>2, LeavingOK
<1> QED
  BY <1>3, <1>4, OneCall

\* A request is answered, or forgotten when nobody waits for the answer.
LEMMA ReplyStep ==
  ASSUME IInv, NEW c \in Slots, NEW ans, Reply(c, ans), ans.ok \in BOOLEAN, path' = path,
         ans.ok => DataOK(calls[c].op, calls[c].arg, ans.data)
  PROVE  /\ CallsOK' /\ Waits \subseteq Waits'
         /\ \A d \in Slots : calls'[d].mine => calls[d].mine /\ calls'[d].arg = calls[d].arg
<1>1. CallOK(calls[c], path)
  BY DEF IInv, CallsOK
<1>2. CASE calls[c].mine \/ calls[c].op \in Redirects
  <2>1. PICK new : new = [calls[c] EXCEPT !.st = "done", !.ans = ans]
    OBVIOUS
  <2>2. calls' = [calls EXCEPT ![c] = new]
    BY <1>2, <2>1 DEF Reply
  <2>3. /\ new = [op |-> calls[c].op, arg |-> calls[c].arg, st |-> "done", ans |-> ans,
                  mine |-> calls[c].mine]
        /\ new.op = calls[c].op /\ new.mine = calls[c].mine
        /\ new.arg = calls[c].arg /\ new.ans = ans /\ new.st = "done"
    BY <1>1, <2>1 DEF CallOK
  <2>4. CallOK(new, path)
    BY <1>1, <2>3 DEF CallOK
  <2> QED
    BY <2>2, <2>3, <2>4, OneCall
<1>3. CASE ~(calls[c].mine \/ calls[c].op \in Redirects)
  <2>1. calls' = [calls EXCEPT ![c] = NoCall]
    BY <1>3 DEF Reply
  <2>2. /\ CallsOK' /\ Waits \subseteq Waits'
        /\ calls'[c] = NoCall /\ \A d \in Slots \ {c} : calls'[d] = calls[d]
    BY <1>3, <2>1, NoCallOK, OneCall
  <2> QED
    BY <2>2, NoCallOK
<1> QED
  BY <1>2, <1>3

\* A request whose answer a page waits for is one of its own.
LEMMA Owned ==
  ASSUME IInv, NEW c \in Slots, calls[c].mine
  PROVE  /\ calls[c].op \in OpsOf(path) /\ path \in Pages \cup {"login", "checkout"}
         /\ calls[c].op \in Waits
BY DEF IInv, CallsOK, CallOK, PageOK, PageAt, Waits

\* Of the pages that wait for a request of an operation.
LEMMA Owner ==
  ASSUME IInv, NEW c \in Slots, calls[c].mine
  PROVE  /\ calls[c].op = "overview.load" => path = "overview"
         /\ calls[c].op \in {"settings.me", "password", "logout"} => path = "settings"
         /\ calls[c].op \in {"key.get", "key.create", "key.rotate", "key.revoke"}
              => path = "api-key"
         /\ calls[c].op = "usage.list" => path = "usage"
         /\ calls[c].op \in {"billing.load", "billing.payments"} => path = "billing"
         /\ calls[c].op \in {"packages.load", "packages.me"} => path = "packages"
         /\ calls[c].op = "checkout.package" => path \in {"billing", "packages"}
BY Owned DEF OpsOf, Pages

LEMMA ArgKept ==
  ASSUME IInv, NEW c \in Slots
  PROVE  /\ ArgOK(calls[c].op, calls[c].arg)
         /\ calls[c].ans.ok \in BOOLEAN
         /\ calls[c].ans.ok => DataOK(calls[c].op, calls[c].arg, calls[c].ans.data)
         /\ calls[c].mine \in BOOLEAN
BY DEF IInv, CallsOK, CallOK

-----------------------------------------------------------------------------
(* Rows and pages.                                                         *)

LEMMA RowsKept ==
  ASSUME RowsOK, UNCHANGED Rows
  PROVE  RowsOK'
BY DEF Rows, RowsOK

\* What is at path, of all that PageAt says.
LEMMA Only ==
  ASSUME NEW p, NEW u, NEW waits
  PROVE  /\ p = "login"    => (PageAt(p, u, waits) <=> u \in LoginState)
         /\ p = "overview" => (PageAt(p, u, waits) <=> OverviewOK(u, waits))
         /\ p = "settings" => (PageAt(p, u, waits) <=> SettingsOK(u, waits))
         /\ p = "api-key"  => (PageAt(p, u, waits) <=> KeyOK(u, waits))
         /\ p = "usage"    => (PageAt(p, u, waits) <=> UsageOK(u, waits))
         /\ p = "billing"  => (PageAt(p, u, waits) <=> BillingOK(u, waits))
         /\ p = "packages" => (PageAt(p, u, waits) <=> PackagesOK(u, waits))
         /\ p = "checkout" => (PageAt(p, u, waits) <=> u \in CheckoutOpened)
BY DEF PageAt, Pages

LEMMA Here ==
  ASSUME IInv
  PROVE  PageAt(path, ui, Waits)
BY DEF IInv, PageOK

\* A page does not notice what happens elsewhere.
LEMMA PageKept ==
  ASSUME NEW p, NEW u, NEW waits, NEW more, waits \subseteq more, PageAt(p, u, waits)
  PROVE  PageAt(p, u, more)
<1>1. p \in {"overview", "settings"} => PageAt(p, u, more)
  BY DEF PageAt, OverviewOK, SettingsOK
<1>2. p = "api-key" => PageAt(p, u, more)
  BY DEF PageAt, KeyOK
<1>3. p = "usage" => PageAt(p, u, more)
  BY DEF PageAt, UsageOK
<1>4. p \in {"billing", "packages"} => PageAt(p, u, more)
  BY DEF PageAt, BillingOK, PackagesOK
<1>5. p \in {"login", "checkout"} => PageAt(p, u, more)
  BY DEF PageAt
<1> QED
  BY <1>1, <1>2, <1>3, <1>4, <1>5 DEF PageAt, Pages

\* A step of a handler of the page, or of one that has gone, except the usage page's.
LEMMA HandlerStep ==
  ASSUME IInv, UNCHANGED <<path, Rows>>, path # "usage", CallsOK', PageAt(path, ui', Waits')
  PROVE  IInv'
BY RowsKept DEF IInv, PageOK, OneList

\* The API answers; the rows may change.
LEMMA Served ==
  ASSUME IInv, NEW c \in Slots, NEW ans, Reply(c, ans), ans.ok \in BOOLEAN,
         UNCHANGED <<path, ui>>, RowsOK',
         ans.ok => DataOK(calls[c].op, calls[c].arg, ans.data)
  PROVE  IInv'
<1>1. /\ CallsOK' /\ Waits \subseteq Waits'
      /\ \A d \in Slots : calls'[d].mine => calls[d].mine /\ calls'[d].arg = calls[d].arg
  BY ReplyStep
<1>2. PageAt(path, ui, Waits')
  BY <1>1, PageKept DEF IInv, PageOK
<1>3. OneList'
  BY <1>1 DEF IInv, OneList
<1> QED
  BY <1>1, <1>2, <1>3 DEF IInv, PageOK

LEMMA Refused ==
  ASSUME IInv, NEW c \in Slots, NEW why, Reply(c, Error(why)), UNCHANGED <<path, ui>>, RowsOK'
  PROVE  IInv'
<1>1. Error(why).ok = FALSE
  BY DEF Error
<1> QED
  BY <1>1, Served

LEMMA AnsweredOK ==
  ASSUME IInv, NEW c \in Slots, NEW data, Reply(c, Ok(data)), UNCHANGED <<path, ui>>,
         RowsOK', DataOK(calls[c].op, calls[c].arg, data)
  PROVE  IInv'
<1>1. Ok(data).ok = TRUE /\ Ok(data).data = data
  BY DEF Ok
<1> QED
  BY <1>1, Served

\* The rows move while nobody asks.
LEMMA Elsewhere ==
  ASSUME IInv, UNCHANGED <<path, ui, calls>>, RowsOK'
  PROVE  IInv'
BY DEF IInv, CallsOK, PageOK, OneList, Waits

-----------------------------------------------------------------------------
(* What the API does.                                                      *)

LEMMA KeyTypes ==
  ASSUME RowsOK
  PROVE  /\ Usable(key) => key \in PublicKey
         /\ key.id < MaxKeys => NewKey \in PublicKey
         /\ key # NoKey => key \in PublicKey
         /\ \A k \in PublicKey, s \in KeyStatuses : [k EXCEPT !.status = s] \in PublicKey
<1>1. ~Usable(NoKey)
  BY DEF NoKey, Usable, None
<1>2. \A k \in PublicKey, s \in KeyStatuses : [k EXCEPT !.status = s] \in PublicKey
  BY DEF PublicKey
<1>3. key.id < MaxKeys => NewKey \in PublicKey
  <2>1. key.id \in Nat
    <3>1. key \in PublicKey => key.id \in Nat
      BY MaxKeysAssumption DEF PublicKey
    <3>2. key = NoKey => key.id \in Nat
      BY DEF NoKey
    <3> QED
      BY <3>1, <3>2 DEF RowsOK
  <2>2. key.id < MaxKeys => key.id + 1 \in 1 .. MaxKeys
    BY <2>1, MaxKeysAssumption
  <2> QED
    BY <2>2 DEF NewKey, PublicKey, KeyStatuses
<1> QED
  BY <1>1, <1>2, <1>3 DEF RowsOK

\* Only the key changes.
LEMMA KeyRowStep ==
  ASSUME RowsOK, UNCHANGED <<orders, signedIn, matching>>, key' \in PublicKey \/ key' = key
  PROVE  RowsOK'
BY DEF RowsOK

LEMMA ServeKeyStep ==
  ASSUME IInv, NEW c \in Slots, UNCHANGED <<orders, signedIn, matching>>,
         ServeKeyGet(c) \/ ServeKeyCreate(c) \/ ServeKeyRotate(c) \/ ServeKeyRevoke(c)
  PROVE  IInv'
<1>1. RowsOK /\ UNCHANGED <<path, ui>>
  BY DEF IInv, ServeKeyGet, ServeKeyCreate, ServeKeyRotate, ServeKeyRevoke
<1>2. calls[c].op \in {"key.get", "key.create", "key.rotate", "key.revoke"}
  BY DEF ServeKeyGet, ServeKeyCreate, ServeKeyRotate, ServeKeyRevoke, Sent
<1>3. \A k \in PublicKey : DataOK(calls[c].op, calls[c].arg, k)
  BY <1>2 DEF DataOK
<1>4. \/ key' = key /\ \E why : Reply(c, Error(why))
      \/ key' \in PublicKey /\ Reply(c, Ok(key'))
  <2>1. CASE ServeKeyGet(c)
    BY <1>1, <2>1, KeyTypes DEF ServeKeyGet
  <2>2. CASE ServeKeyCreate(c)
    BY <1>1, <2>2, KeyTypes DEF ServeKeyCreate
  <2>3. CASE ServeKeyRotate(c)
    BY <1>1, <2>3, KeyTypes DEF ServeKeyRotate
  <2>4. CASE ServeKeyRevoke(c)
    BY <1>1, <2>4, KeyTypes DEF ServeKeyRevoke, KeyStatuses
  <2> QED
    BY <2>1, <2>2, <2>3, <2>4
<1>5. RowsOK'
  BY <1>1, <1>4, KeyRowStep
<1>6. CASE key' \in PublicKey /\ Reply(c, Ok(key'))
  BY <1>1, <1>3, <1>5, <1>6, AnsweredOK
<1>7. ASSUME NEW why, Reply(c, Error(why)) PROVE IInv'
  BY <1>1, <1>5, <1>7, Refused
<1> QED
  BY <1>4, <1>6, <1>7

LEMMA KeyMovesStep ==
  ASSUME IInv, KeyMoves, UNCHANGED <<orders, signedIn, matching>>
  PROVE  IInv'
<1>1. RowsOK /\ Usable(key)
  BY DEF IInv, KeyMoves
<1>2. PICK s \in KeyStatuses : key' = [key EXCEPT !.status = s]
  BY DEF KeyMoves
<1>3. RowsOK'
  BY <1>1, <1>2, KeyTypes, KeyRowStep
<1> QED
  BY <1>3, Elsewhere DEF KeyMoves

LEMMA ServeBillingStep ==
  ASSUME IInv, NEW c \in Slots, ServeBilling(c), UNCHANGED <<key, matching>>
  PROVE  IInv'
<1>1. RowsOK' /\ UNCHANGED <<path, ui>>
  BY RowsKept DEF IInv, ServeBilling, Rows
<1>2. CASE calls[c].op \in {"billing.load", "packages.load", "packages.me"} /\ Reply(c, Ok(None))
  BY <1>1, <1>2, AnsweredOK DEF DataOK
<1>3. CASE Reply(c, Error("unauthorized"))
  BY <1>1, <1>3, Refused
<1>4. CASE calls[c].op = "billing.payments" /\ Reply(c, Ok(\E p \in Packages : orders[p] > 0))
  <2>1. PICK some \in BOOLEAN : some = (\E p \in Packages : orders[p] > 0)
    OBVIOUS
  <2>2. Reply(c, Ok(some))
    BY <1>4, <2>1
  <2>3. DataOK(calls[c].op, calls[c].arg, some)
    BY <1>4, <2>1 DEF DataOK
  <2> QED
    BY <1>1, <2>2, <2>3, AnsweredOK
<1> QED
  BY <1>2, <1>3, <1>4 DEF ServeBilling, Sent

LEMMA ServeCheckoutStep ==
  ASSUME IInv, NEW c \in Slots, ServeCheckout(c), UNCHANGED <<key, matching>>
  PROVE  IInv'
<1>1. PICK p : p = calls[c].arg
  OBVIOUS
<1>2. calls[c].op = "checkout.package" /\ p \in Packages /\ UNCHANGED <<path, ui, signedIn>>
  BY <1>1, ArgKept DEF ServeCheckout, Sent, ArgOK
<1>3. RowsOK /\ MaxOrders \in Nat
  BY BillingAssumption DEF IInv
<1>4. CASE orders[p] < MaxOrders /\ orders' = [orders EXCEPT ![p] = @ + 1] /\ Reply(c, Ok(p))
  <2>1. orders[p] + 1 \in 0 .. MaxOrders
    BY <1>2, <1>3, <1>4 DEF RowsOK
  <2>2. RowsOK'
    BY <1>2, <1>3, <1>4, <2>1 DEF RowsOK
  <2>3. DataOK(calls[c].op, calls[c].arg, p)
    BY <1>2 DEF DataOK
  <2> QED
    BY <1>2, <1>4, <2>2, <2>3, AnsweredOK
<1>5. CASE Reply(c, Error("unauthorized")) /\ UNCHANGED orders
  BY <1>2, <1>3, <1>5, RowsKept, Refused DEF Rows
<1> QED
  BY <1>1, <1>4, <1>5 DEF ServeCheckout

LEMMA ServeOverviewStep ==
  ASSUME IInv, NEW c \in Slots, ServeOverview(c), UNCHANGED matching
  PROVE  IInv'
<1>1. RowsOK' /\ UNCHANGED <<path, ui>>
  BY RowsKept DEF IInv, ServeOverview, Rows
<1>2. CASE calls[c].op = "overview.load" /\ Reply(c, Ok(key # NoKey))
  <2>1. PICK some \in BOOLEAN : some = (key # NoKey)
    OBVIOUS
  <2>2. Reply(c, Ok(some))
    BY <1>2, <2>1
  <2>3. DataOK(calls[c].op, calls[c].arg, some)
    BY <1>2, <2>1 DEF DataOK
  <2> QED
    BY <1>1, <2>2, <2>3, AnsweredOK
<1>3. CASE calls[c].op = "settings.me" /\ Reply(c, Ok(None))
  BY <1>1, <1>3, AnsweredOK DEF DataOK
<1>4. CASE Reply(c, Error("unauthorized"))
  BY <1>1, <1>4, Refused
<1> QED
  BY <1>2, <1>3, <1>4 DEF ServeOverview, Sent

\* A session ends.
LEMMA SessionRowStep ==
  ASSUME IInv, UNCHANGED <<key, orders, matching>>, signedIn' \in {signedIn, FALSE}
  PROVE  RowsOK'
BY DEF IInv, RowsOK

LEMMA ServeSessionStep ==
  ASSUME IInv, NEW c \in Slots, ServeChangePassword(c) \/ ServeLogout(c), UNCHANGED matching
  PROVE  IInv'
<1>1. calls[c].op \in {"password", "logout"} /\ UNCHANGED <<path, ui>>
  BY DEF ServeChangePassword, ServeLogout, Sent
<1>2. RowsOK'
  BY SessionRowStep DEF ServeChangePassword, ServeLogout
<1>3. CASE Reply(c, Ok(None))
  BY <1>1, <1>2, <1>3, AnsweredOK DEF DataOK
<1>4. CASE Reply(c, Error("invalid"))
  BY <1>1, <1>2, <1>4, Refused
<1> QED
  BY <1>3, <1>4 DEF ServeChangePassword, ServeLogout

\* The offsets of the usage page, and the pages of its list.
LEMMA OffsetTypes ==
  /\ Limit \in Nat \ {0} /\ MaxRows \in Nat /\ LastOffset \in Nat
  /\ 0 \in 0 .. LastOffset /\ 0 \in 0 .. MaxRows /\ 0 \in 0 .. Limit
  /\ AllUsage \in Valid /\ AllUsage \in Filters
<1>1. Limit \in Nat \ {0} /\ MaxRows \in Nat
  BY UsagePageAssumption
<1>2. MaxRows \div Limit \in Nat
  BY <1>1
<1>3. PICK pages \in Nat : pages = MaxRows \div Limit
  BY <1>2
<1>4. LastOffset = pages * Limit
  BY <1>3 DEF LastOffset
<1>5. pages * Limit \in Nat
  BY <1>1, <1>3
<1>6. AllUsage \in Filters /\ AllUsage # Backwards
  BY UsagePageAssumption DEF AllUsage, Backwards
<1> QED
  BY <1>1, <1>4, <1>5, <1>6 DEF Valid

LEMMA UsageAnswerOK ==
  ASSUME RowsOK, NEW f \in Valid, NEW off \in 0 .. LastOffset
  PROVE  /\ UsageAnswer(f, off) \in UsageRows
         /\ UsageAnswer(f, off).filters = f /\ UsageAnswer(f, off).offset = off
<1>1. matching[f] \in 0 .. MaxRows /\ MaxRows \in Nat /\ off \in Nat /\ Limit \in Nat
  BY OffsetTypes DEF RowsOK
<1>2. PICK left : left = IF matching[f] > off THEN matching[f] - off ELSE 0
  OBVIOUS
<1>3. left \in Nat
  BY <1>1, <1>2
<1>4. PICK length : length = IF left < Limit THEN left ELSE Limit
  OBVIOUS
<1>5. length \in 0 .. Limit
  BY <1>1, <1>3, <1>4
<1>6. UsageAnswer(f, off) = [filters |-> f, offset |-> off, all |-> matching[f], length |-> length]
  BY <1>2, <1>4 DEF UsageAnswer
<1> QED
  BY <1>1, <1>5, <1>6 DEF UsageRows

LEMMA ServeUsageStep ==
  ASSUME IInv, NEW c \in Slots, ServeUsage(c), UNCHANGED <<key, orders, signedIn>>
  PROVE  IInv'
<1>1. RowsOK /\ RowsOK' /\ UNCHANGED <<path, ui>>
  BY RowsKept DEF IInv, ServeUsage, Rows
<1>2. PICK arg : arg = calls[c].arg
  OBVIOUS
<1>3. calls[c].op = "usage.list" /\ arg.filters \in Valid /\ arg.offset \in 0 .. LastOffset
  BY <1>2, ArgKept DEF ServeUsage, Sent, ArgOK, UsageQuery
<1>4. PICK rows : rows = UsageAnswer(arg.filters, arg.offset)
  OBVIOUS
<1>5. DataOK(calls[c].op, arg, rows)
  BY <1>1, <1>3, <1>4, UsageAnswerOK DEF DataOK
<1>6. Reply(c, Ok(rows))
  BY <1>2, <1>4 DEF ServeUsage
<1> QED
  BY <1>1, <1>2, <1>5, <1>6, AnsweredOK

\* Every event is let through by AllUsage.
LEMMA UsageBilledStep ==
  ASSUME IInv, UsageBilled, UNCHANGED <<key, orders, signedIn>>
  PROVE  IInv'
<1>1. PICK fs \in SUBSET Valid :
         AllUsage \in fs /\ matching' = [f \in Valid |-> matching[f] + IF f \in fs THEN 1 ELSE 0]
  BY DEF UsageBilled
<1>2. RowsOK /\ matching'[AllUsage] <= MaxRows /\ UNCHANGED <<path, ui, calls>>
  BY DEF IInv, UsageBilled
<1>3. matching'[AllUsage] = matching[AllUsage] + 1 /\ matching[AllUsage] \in Nat /\ MaxRows \in Nat
  BY <1>1, <1>2, OffsetTypes DEF RowsOK
<1>4. ASSUME NEW f \in Valid
      PROVE  matching'[f] \in 0 .. MaxRows /\ matching'[f] <= matching'[AllUsage]
  <2>1. /\ matching[f] \in Nat /\ matching[f] <= matching[AllUsage]
        /\ matching'[f] \in {matching[f], matching[f] + 1}
    BY <1>1, <1>2, OffsetTypes DEF RowsOK
  <2> QED
    BY <1>2, <1>3, <2>1
<1>5. matching' \in [Valid -> 0 .. MaxRows]
  BY <1>1, <1>4
<1>6. RowsOK'
  BY <1>2, <1>4, <1>5 DEF RowsOK
<1> QED
  BY <1>2, <1>6, Elsewhere

-----------------------------------------------------------------------------
(* The API key page.                                                       *)

LEMMA LoadKeyStep ==
  ASSUME IInv, LoadKey, UNCHANGED <<orders, signedIn, matching>>
  PROVE  IInv'
<1>1. UNCHANGED <<path, Rows>> /\ path = "api-key" /\ Send("key.get", None)
  BY DEF LoadKey, Rows
<1>2. KeyOK(ui, Waits)
  BY <1>1, Here, Only
<1>3. CallsOK' /\ Waits \subseteq Waits' /\ "key.get" \in Waits'
  BY <1>1, SendStep DEF ArgOK, Operations, OpsOf
<1>4. KeyOK(ui', Waits')
  BY <1>2, <1>3 DEF LoadKey, KeyOK, KeyState
<1> QED
  BY <1>1, <1>3, <1>4, Only, HandlerStep

\* A step that sends nothing.
LEMMA FormStep ==
  ASSUME IInv, UNCHANGED <<path, calls, Rows>>, path # "usage", PageAt(path, ui', Waits)
  PROVE  IInv'
<1>1. CallsOK' /\ Waits' = Waits
  BY DEF IInv, CallsOK, Waits
<1> QED
  BY <1>1, HandlerStep

LEMMA KeyFormsStep ==
  ASSUME IInv, AskKeyAction \/ CancelKeyAction \/ DismissRawKey,
         UNCHANGED <<orders, signedIn, matching>>
  PROVE  IInv'
<1>1. UNCHANGED <<path, calls, Rows>> /\ path = "api-key"
  BY DEF AskKeyAction, CancelKeyAction, DismissRawKey, HeaderRotates, CurrentKeyCard, ConfirmPanel,
         RawKeyRevealed, KeyCards, Rows
<1>2. KeyOK(ui, Waits)
  BY <1>1, Here, Only
<1>3. 0 \in 0 .. MaxKeys
  BY MaxKeysAssumption
<1>4. \/ \E to \in {None, "rotate", "revoke"} : ui' = [ui EXCEPT !.confirm = to]
      \/ ui' = [ui EXCEPT !.rawKey = 0]
  BY DEF AskKeyAction, CancelKeyAction, DismissRawKey
<1>5. KeyOK(ui', Waits)
  BY <1>2, <1>3, <1>4 DEF KeyOK, KeyState
<1> QED
  BY <1>1, <1>5, Only, FormStep

LEMMA KeyActionsStep ==
  ASSUME IInv, CreateKey \/ ConfirmKeyAction, UNCHANGED <<orders, signedIn, matching>>
  PROVE  IInv'
<1>1. UNCHANGED <<path, Rows>> /\ path = "api-key"
  BY DEF CreateKey, ConfirmKeyAction, CreateForm, ConfirmPanel, KeyCards, Rows
<1>2. KeyOK(ui, Waits)
  BY <1>1, Here, Only
<1>3. PICK op \in {"key.create", "key.rotate", "key.revoke"} : Send(op, None)
  BY DEF CreateKey, ConfirmKeyAction
<1>4. CallsOK' /\ Waits \subseteq Waits' /\ op \in Waits'
  BY <1>1, <1>3, SendStep DEF ArgOK, Operations, OpsOf
<1>5. \/ ui' = [ui EXCEPT !.busy = TRUE, !.error = FALSE, !.notice = None]
      \/ ui' = [ui EXCEPT !.busy = TRUE, !.error = FALSE, !.notice = None, !.confirm = None]
  BY DEF CreateKey, ConfirmKeyAction, Busy
<1>6. KeyOK(ui', Waits')
  BY <1>2, <1>3, <1>4, <1>5 DEF KeyOK, KeyState
<1> QED
  BY <1>1, <1>4, <1>6, Only, HandlerStep

LEMMA KeyLoadedStep ==
  ASSUME IInv, NEW c \in Slots, KeyLoaded(c), UNCHANGED <<orders, signedIn, matching>>
  PROVE  IInv'
<1>1. UNCHANGED <<path, Rows>> /\ calls[c].op = "key.get" /\ path = "api-key"
  BY Owner DEF KeyLoaded, Done, Rows
<1>2. KeyOK(ui, Waits)
  BY <1>1, Here, Only
<1>3. CallsOK' /\ \A w \in Waits : w # "key.get" => w \in Waits'
  BY <1>1, SettleStep DEF KeyLoaded
<1>4. PICK ans : ans = calls[c].ans
  OBVIOUS
<1>5. ans.ok => ans.data \in PublicKey
  BY <1>1, <1>4, ArgKept DEF DataOK
<1>6. \/ \E k \in PublicKey \cup {NoKey} : ui' = [ui EXCEPT !.apiKey = k, !.loading = FALSE]
      \/ ui' = [ui EXCEPT !.error = TRUE, !.loading = FALSE]
  <2>1. PICK data : data = ans.data
    OBVIOUS
  <2>2. \/ ans.ok /\ ui' = [ui EXCEPT !.apiKey = data, !.loading = FALSE]
        \/ ui' = [ui EXCEPT !.apiKey = NoKey, !.loading = FALSE]
        \/ ui' = [ui EXCEPT !.error = TRUE, !.loading = FALSE]
    BY <1>4, <2>1 DEF KeyLoaded
  <2> QED
    BY <1>5, <2>1, <2>2
<1>7. KeyOK(ui', Waits')
  BY <1>2, <1>3, <1>6 DEF KeyOK, KeyState
<1> QED
  BY <1>1, <1>3, <1>7, Only, HandlerStep

\* create, rotate and revoke end; none of them loads the page.
LEMMA KeyActedStep ==
  ASSUME IInv, NEW c \in Slots, KeyCreated(c) \/ KeyRotated(c) \/ KeyRevoked(c),
         UNCHANGED <<orders, signedIn, matching>>
  PROVE  IInv'
<1>1. /\ UNCHANGED <<path, Rows>> /\ path = "api-key"
      /\ calls[c].op \in {"key.create", "key.rotate", "key.revoke"}
  BY Owner DEF KeyCreated, KeyRotated, KeyRevoked, Done, Rows
<1>2. KeyOK(ui, Waits)
  BY <1>1, Here, Only
<1>3. CallsOK' /\ ("key.get" \in Waits => "key.get" \in Waits')
  BY <1>1, SettleStep DEF KeyCreated, KeyRotated, KeyRevoked
<1>4. PICK ans : ans = calls[c].ans
  OBVIOUS
<1>5. ans.ok => ans.data \in PublicKey /\ ans.data.id \in 0 .. MaxKeys
  BY <1>1, <1>4, ArgKept, MaxKeysAssumption DEF DataOK, PublicKey
<1>6. 0 \in 0 .. MaxKeys
  BY MaxKeysAssumption
<1>7. \/ \E k \in PublicKey, raw \in 0 .. MaxKeys, said \in {"created", "rotated", "revoked"} :
           \/ ui' = [ui EXCEPT !.apiKey = k, !.rawKey = raw, !.notice = said, !.busy = FALSE]
           \/ ui' = [ui EXCEPT !.apiKey = k, !.rawKey = raw, !.notice = said, !.confirm = None,
                               !.busy = FALSE]
      \/ ui' = [ui EXCEPT !.error = TRUE, !.busy = FALSE]
  BY <1>4, <1>5, <1>6 DEF KeyCreated, KeyRotated, KeyRevoked, KeyActionFailed
<1>8. KeyOK(ui', Waits')
  BY <1>2, <1>3, <1>7 DEF KeyOK, KeyState
<1> QED
  BY <1>1, <1>3, <1>8, Only, HandlerStep

LEMMA KeyPageStep ==
  ASSUME IInv, KeyPageNext, UNCHANGED <<orders, signedIn, matching>>
  PROVE  IInv'
<1>1. CASE KeyMoves \/ LoadKey \/ CreateKey \/ AskKeyAction \/ CancelKeyAction \/ ConfirmKeyAction
           \/ DismissRawKey
  BY <1>1, KeyMovesStep, LoadKeyStep, KeyFormsStep, KeyActionsStep
<1>2. ASSUME NEW c \in Slots,
             \/ ServeKeyGet(c) \/ ServeKeyCreate(c) \/ ServeKeyRotate(c) \/ ServeKeyRevoke(c)
             \/ KeyLoaded(c) \/ KeyCreated(c) \/ KeyRotated(c) \/ KeyRevoked(c)
      PROVE  IInv'
  BY <1>2, ServeKeyStep, KeyLoadedStep, KeyActedStep
<1> QED
  BY <1>1, <1>2 DEF KeyPageNext

-----------------------------------------------------------------------------
(* Buying credits.                                                         *)

LEMMA LoadBillingStep ==
  ASSUME IInv, LoadBilling, UNCHANGED <<key, matching>>
  PROVE  IInv'
<1>1. UNCHANGED <<path, Rows>> /\ path = "billing" /\ Send("billing.load", None)
  BY DEF LoadBilling, Rows
<1>2. BillingOK(ui, Waits)
  BY <1>1, Here, Only
<1>3. CallsOK' /\ Waits \subseteq Waits' /\ "billing.load" \in Waits'
  BY <1>1, SendStep DEF ArgOK, Operations, OpsOf
<1>4. BillingOK(ui', Waits')
  BY <1>2, <1>3 DEF LoadBilling, BillingOK, BillingState
<1> QED
  BY <1>1, <1>3, <1>4, Only, HandlerStep

LEMMA PackagesLoadsStep ==
  ASSUME IInv, LoadPackages \/ AskWho, UNCHANGED <<key, matching>>
  PROVE  IInv'
<1>1. UNCHANGED <<path, Rows>> /\ path = "packages"
  BY DEF LoadPackages, AskWho, Rows
<1>2. PackagesOK(ui, Waits)
  BY <1>1, Here, Only
<1>3. \/ /\ Send("packages.load", None)
         /\ ui' = [ui EXCEPT !.loading = TRUE, !.error = FALSE]
      \/ /\ Send("packages.me", None)
         /\ ui' = [ui EXCEPT !.asked = TRUE]
  BY DEF LoadPackages, AskWho
<1>4. Send("packages.load", None) => CallsOK' /\ Waits \subseteq Waits' /\ "packages.load" \in Waits'
  BY <1>1, SendStep DEF ArgOK, Operations, OpsOf
<1>5. Send("packages.me", None) => CallsOK' /\ Waits \subseteq Waits'
  BY <1>1, SendStep DEF ArgOK, Operations, OpsOf
<1>6. PackagesOK(ui', Waits')
  BY <1>2, <1>3, <1>4, <1>5 DEF PackagesOK, PackagesState
<1> QED
  BY <1>1, <1>3, <1>4, <1>5, <1>6, Only, HandlerStep

LEMMA BillingLoadedStep ==
  ASSUME IInv, NEW c \in Slots, BillingLoaded(c), UNCHANGED <<key, matching>>
  PROVE  IInv'
<1>1. UNCHANGED <<path, Rows>> /\ calls[c].op = "billing.load" /\ path = "billing" /\ calls[c].mine
  BY Owner DEF BillingLoaded, Done, Rows
<1>2. BillingOK(ui, Waits)
  BY <1>1, Here, Only
<1>3. CASE Await(c, "billing.payments", None) /\ UNCHANGED ui
  <2>1. /\ CallsOK' /\ "billing.payments" \in Waits'
        /\ "checkout.package" \in Waits => "checkout.package" \in Waits'
    BY <1>1, <1>3, AwaitStep DEF ArgOK, Operations, OpsOf
  <2>2. BillingOK(ui', Waits')
    BY <1>2, <1>3, <2>1 DEF BillingOK
  <2> QED
    BY <1>1, <2>1, <2>2, Only, HandlerStep
<1>4. CASE ui' = [ui EXCEPT !.error = TRUE, !.loading = FALSE] /\ Settle(c)
  <2>1. CallsOK' /\ ("checkout.package" \in Waits => "checkout.package" \in Waits')
    BY <1>1, <1>4, SettleStep
  <2>2. BillingOK(ui', Waits')
    BY <1>2, <1>4, <2>1 DEF BillingOK, BillingState
  <2> QED
    BY <1>1, <2>1, <2>2, Only, HandlerStep
<1> QED
  BY <1>3, <1>4 DEF BillingLoaded

LEMMA PaymentsLoadedStep ==
  ASSUME IInv, NEW c \in Slots, PaymentsLoaded(c), UNCHANGED <<key, matching>>
  PROVE  IInv'
<1>1. UNCHANGED <<path, Rows>> /\ calls[c].op = "billing.payments" /\ path = "billing"
  BY Owner DEF PaymentsLoaded, Done, Rows
<1>2. BillingOK(ui, Waits)
  BY <1>1, Here, Only
<1>3. CallsOK' /\ ("checkout.package" \in Waits => "checkout.package" \in Waits')
  BY <1>1, SettleStep DEF PaymentsLoaded
<1>4. PICK ans : ans = calls[c].ans
  OBVIOUS
<1>5. ans.ok \in BOOLEAN /\ (ans.ok => ans.data \in BOOLEAN)
  BY <1>1, <1>4, ArgKept DEF DataOK
<1>6. PICK shown \in BOOLEAN : shown = (ans.ok /\ ans.data)
  BY <1>5
<1>7. ui' = [ui EXCEPT !.data = TRUE, !.payments = shown, !.loading = FALSE]
  BY <1>4, <1>6 DEF PaymentsLoaded
<1>8. BillingOK(ui', Waits')
  BY <1>2, <1>3, <1>7 DEF BillingOK, BillingState
<1> QED
  BY <1>1, <1>3, <1>8, Only, HandlerStep

LEMMA PackagesLoadedStep ==
  ASSUME IInv, NEW c \in Slots, PackagesLoaded(c) \/ WhoKnown(c), UNCHANGED <<key, matching>>
  PROVE  IInv'
<1>1. /\ UNCHANGED <<path, Rows>> /\ path = "packages"
      /\ calls[c].op \in {"packages.load", "packages.me"}
  BY Owner DEF PackagesLoaded, WhoKnown, Done, Rows
<1>2. PackagesOK(ui, Waits)
  BY <1>1, Here, Only
<1>3. CallsOK' /\ \A w \in Waits : w # calls[c].op => w \in Waits'
  BY <1>1, SettleStep DEF PackagesLoaded, WhoKnown
<1>4. \/ /\ calls[c].op = "packages.load"
         /\ \/ ui' = [ui EXCEPT !.packages = TRUE, !.loading = FALSE]
            \/ ui' = [ui EXCEPT !.error = TRUE, !.loading = FALSE]
      \/ /\ calls[c].op = "packages.me"
         /\ ui' \in {[ui EXCEPT !.currentUser = TRUE], ui}
  BY DEF PackagesLoaded, WhoKnown, Done
<1>5. PackagesOK(ui', Waits')
  BY <1>2, <1>3, <1>4 DEF PackagesOK, PackagesState
<1> QED
  BY <1>1, <1>3, <1>5, Only, HandlerStep

LEMMA ChoosePackageStep ==
  ASSUME IInv, NEW p \in Packages, ChoosePackage(p), UNCHANGED <<key, matching>>
  PROVE  IInv'
<1>1. /\ UNCHANGED <<path, Rows>> /\ path \in {"billing", "packages"}
      /\ Send("checkout.package", p)
  BY DEF ChoosePackage, BillingPackage, BillingCards, PublicPackage, Rows
<1>2. CallsOK' /\ Waits \subseteq Waits' /\ "checkout.package" \in Waits'
  BY <1>1, SendStep DEF ArgOK, Operations, OpsOf
<1>3. ui' = [ui EXCEPT !.choosing = p, !.checkoutError = FALSE]
  BY DEF ChoosePackage
<1>4. path = "billing" => BillingOK(ui', Waits')
  <2>1. path = "billing" => BillingOK(ui, Waits)
    BY Here, Only
  <2> QED
    BY <1>2, <1>3, <2>1 DEF BillingOK, BillingState
<1>5. path = "packages" => PackagesOK(ui', Waits')
  <2>1. path = "packages" => PackagesOK(ui, Waits)
    BY Here, Only
  <2> QED
    BY <1>2, <1>3, <2>1 DEF PackagesOK, PackagesState
<1> QED
  BY <1>1, <1>2, <1>4, <1>5, Only, HandlerStep

\* A continuation that uses the router leaves the page.
LEMMA LeaveStep ==
  ASSUME IInv, NEW c \in Slots, NEW p \in {"login", "checkout"},
         path' = p, calls' = [Orphaned EXCEPT ![c] = NoCall], PageAt(p, ui', {}), UNCHANGED Rows
  PROVE  IInv'
<1>1. Orphaned = [d \in Slots |-> Orphaned[d]]
  BY DEF Orphaned
<1>2. calls' = [d \in Slots |-> calls'[d]] /\ \A d \in Slots : calls'[d] \in {Orphaned[d], NoCall}
  BY <1>1
<1>3. CallsOK'
  BY <1>2, Orphans, NoCallOK DEF CallsOK
<1>4. PageAt(p, ui', Waits')
  BY PageKept
<1> QED
  BY <1>3, <1>4, RowsKept DEF IInv, PageOK, OneList

LEMMA PackageChosenStep ==
  ASSUME IInv, NEW c \in Slots, PackageChosen(c), UNCHANGED <<key, matching>>
  PROVE  IInv'
<1>1. calls[c].op = "checkout.package" /\ UNCHANGED Rows
  BY DEF PackageChosen, Done, Rows
<1>2. CASE calls[c].ans.ok
  <2>1. PICK p : p = calls[c].ans.data
    OBVIOUS
  <2>2. p \in Packages
    BY <1>1, <1>2, <2>1, ArgKept DEF DataOK
  <2>3. path' = "checkout" /\ ui' = [package |-> p] /\ calls' = [Orphaned EXCEPT ![c] = NoCall]
    BY <1>2, <2>1 DEF PackageChosen
  <2>4. PageAt("checkout", ui', {})
    BY <2>2, <2>3, Only DEF CheckoutOpened
  <2> QED
    BY <1>1, <2>3, <2>4, LeaveStep
<1>3. CASE ~calls[c].ans.ok
  <2>1. UNCHANGED path /\ Settle(c)
    BY <1>3 DEF PackageChosen
  <2>2. CASE ~calls[c].mine
    <3>1. UNCHANGED ui
      BY <1>3, <2>2 DEF PackageChosen
    <3>2. /\ CallsOK' /\ Waits \subseteq Waits'
          /\ ~calls'[c].mine /\ \A d \in Slots \ {c} : calls'[d] = calls[d]
      BY <2>1, <2>2, SettleStep
    <3>3. PageAt(path, ui, Waits')
      BY <3>2, Here, PageKept
    <3>4. OneList'
      BY <2>1, <3>1, <3>2 DEF IInv, OneList
    <3> QED
      BY <1>1, <2>1, <3>1, <3>2, <3>3, <3>4, RowsKept DEF IInv, PageOK
  <2>3. CASE calls[c].mine
    <3>1. ui' = [ui EXCEPT !.choosing = None, !.checkoutError = TRUE]
      BY <1>3, <2>3 DEF PackageChosen
    <3>2. path \in {"billing", "packages"}
      BY <1>1, <2>3, Owner
    <3>3. CallsOK' /\ \A w \in Waits : w # "checkout.package" => w \in Waits'
      BY <1>1, <2>1, SettleStep
    <3>4. path = "billing" => BillingOK(ui', Waits')
      <4>1. path = "billing" => BillingOK(ui, Waits)
        BY Here, Only
      <4> QED
        BY <3>1, <3>3, <4>1 DEF BillingOK, BillingState
    <3>5. path = "packages" => PackagesOK(ui', Waits')
      <4>1. path = "packages" => PackagesOK(ui, Waits)
        BY Here, Only
      <4> QED
        BY <3>1, <3>3, <4>1 DEF PackagesOK, PackagesState
    <3> QED
      BY <1>1, <2>1, <3>2, <3>3, <3>4, <3>5, Only, HandlerStep
  <2> QED
    BY <2>2, <2>3
<1> QED
  BY <1>2, <1>3

LEMMA BillingStep ==
  ASSUME IInv, BillingNext, UNCHANGED <<key, matching>>
  PROVE  IInv'
<1>1. CASE LoadBilling \/ LoadPackages \/ AskWho
  BY <1>1, LoadBillingStep, PackagesLoadsStep
<1>2. CASE \E p \in Packages : ChoosePackage(p)
  BY <1>2, ChoosePackageStep
<1>3. ASSUME NEW c \in Slots,
             \/ ServeBilling(c) \/ ServeCheckout(c)
             \/ BillingLoaded(c) \/ PaymentsLoaded(c) \/ PackagesLoaded(c) \/ WhoKnown(c)
             \/ PackageChosen(c)
      PROVE  IInv'
  BY <1>3, ServeBillingStep, ServeCheckoutStep, BillingLoadedStep, PaymentsLoadedStep,
     PackagesLoadedStep, PackageChosenStep
<1> QED
  BY <1>1, <1>2, <1>3 DEF BillingNext

-----------------------------------------------------------------------------
(* The overview and the settings.                                          *)

LEMMA ReloadStep ==
  ASSUME IInv, Reload, UNCHANGED matching
  PROVE  IInv'
<1>1. UNCHANGED <<path, Rows>> /\ ui' = [ui EXCEPT !.loading = TRUE, !.error = FALSE]
  BY DEF Reload, Rows
<1>2. CASE path = "overview" /\ Send("overview.load", None)
  <2>1. CallsOK' /\ Waits \subseteq Waits' /\ "overview.load" \in Waits'
    BY <1>1, <1>2, SendStep DEF ArgOK, Operations, OpsOf
  <2>2. OverviewOK(ui, Waits)
    BY <1>2, Here, Only
  <2>3. OverviewOK(ui', Waits')
    BY <1>1, <2>1, <2>2 DEF OverviewOK, OverviewState
  <2> QED
    BY <1>1, <1>2, <2>1, <2>3, Only, HandlerStep
<1>3. CASE path = "settings" /\ Send("settings.me", None)
  <2>1. CallsOK' /\ Waits \subseteq Waits' /\ "settings.me" \in Waits'
    BY <1>1, <1>3, SendStep DEF ArgOK, Operations, OpsOf
  <2>2. SettingsOK(ui, Waits)
    BY <1>3, Here, Only
  <2>3. SettingsOK(ui', Waits')
    BY <1>1, <2>1, <2>2 DEF SettingsOK, SettingsState
  <2> QED
    BY <1>1, <1>3, <2>1, <2>3, Only, HandlerStep
<1> QED
  BY <1>2, <1>3 DEF Reload

LEMMA OverviewLoadedStep ==
  ASSUME IInv, NEW c \in Slots, OverviewLoaded(c), UNCHANGED matching
  PROVE  IInv'
<1>1. UNCHANGED <<path, Rows>> /\ calls[c].op = "overview.load" /\ path = "overview"
  BY Owner DEF OverviewLoaded, Done, Rows
<1>2. OverviewOK(ui, Waits)
  BY <1>1, Here, Only
<1>3. CallsOK'
  BY <1>1, SettleStep DEF OverviewLoaded
<1>4. PICK ans : ans = calls[c].ans
  OBVIOUS
<1>5. ans.ok => ans.data \in BOOLEAN
  BY <1>1, <1>4, ArgKept DEF DataOK
<1>6. \/ \E has \in BOOLEAN : ui' = [ui EXCEPT !.data = TRUE, !.hasKey = has, !.loading = FALSE]
      \/ ui' = [ui EXCEPT !.error = TRUE, !.loading = FALSE]
  BY <1>4, <1>5 DEF OverviewLoaded
<1>7. OverviewOK(ui', Waits')
  BY <1>2, <1>6 DEF OverviewOK, OverviewState
<1> QED
  BY <1>1, <1>3, <1>7, Only, HandlerStep

LEMMA SettingsLoadedStep ==
  ASSUME IInv, NEW c \in Slots, SettingsLoaded(c), UNCHANGED matching
  PROVE  IInv'
<1>1. UNCHANGED <<path, Rows>> /\ calls[c].op = "settings.me" /\ path = "settings"
  BY Owner DEF SettingsLoaded, Done, Rows
<1>2. SettingsOK(ui, Waits)
  BY <1>1, Here, Only
<1>3. CallsOK' /\ ("password" \in Waits => "password" \in Waits')
  BY <1>1, SettleStep DEF SettingsLoaded
<1>4. \/ ui' = [ui EXCEPT !.user = TRUE, !.loading = FALSE]
      \/ ui' = [ui EXCEPT !.error = TRUE, !.loading = FALSE]
  BY DEF SettingsLoaded
<1>5. SettingsOK(ui', Waits')
  BY <1>2, <1>3, <1>4 DEF SettingsOK, SettingsState
<1> QED
  BY <1>1, <1>3, <1>5, Only, HandlerStep

LEMMA SettingsFormsStep ==
  ASSUME IInv, SubmitPassword \/ SignOut, UNCHANGED matching
  PROVE  IInv'
<1>1. UNCHANGED <<path, Rows>> /\ path = "settings"
  BY DEF SubmitPassword, SignOut, PasswordForm, SignOutButtons, SettingsCards, Rows
<1>2. SettingsOK(ui, Waits)
  BY <1>1, Here, Only
<1>3. \/ /\ Send("password", None)
         /\ ui' = [ui EXCEPT !.saving = TRUE, !.refused = FALSE]
      \/ /\ Send("logout", None)
         /\ ui' = [ui EXCEPT !.loggingOut = TRUE]
  BY DEF SubmitPassword, SignOut
<1>4. Send("password", None) => CallsOK' /\ Waits \subseteq Waits' /\ "password" \in Waits'
  BY <1>1, SendStep DEF ArgOK, Operations, OpsOf
<1>5. Send("logout", None) => CallsOK' /\ Waits \subseteq Waits'
  BY <1>1, SendStep DEF ArgOK, Operations, OpsOf
<1>6. SettingsOK(ui', Waits')
  BY <1>2, <1>3, <1>4, <1>5 DEF SettingsOK, SettingsState
<1> QED
  BY <1>1, <1>3, <1>4, <1>5, <1>6, Only, HandlerStep

LEMMA ToLoginStep ==
  ASSUME IInv, NEW c \in Slots, ToLogin(c), UNCHANGED Rows
  PROVE  IInv'
<1>1. path' = "login" /\ calls' = [Orphaned EXCEPT ![c] = NoCall] /\ ui' \in LoginState
  BY DEF ToLogin, LoginState
<1>2. PageAt("login", ui', {})
  BY <1>1, Only
<1> QED
  BY <1>1, <1>2, LeaveStep

\* A continuation that shows nothing: of a page that has gone, or of a logout
\* that failed.
LEMMA SilentStep ==
  ASSUME IInv, NEW c \in Slots, Settle(c), UNCHANGED <<path, ui, Rows>>,
         ~calls[c].mine \/ calls[c].op = "logout"
  PROVE  IInv'
<1>1. /\ CallsOK' /\ \A w \in Waits : w # calls[c].op => w \in Waits'
      /\ ~calls[c].mine => Waits \subseteq Waits'
      /\ ~calls'[c].mine /\ \A d \in Slots \ {c} : calls'[d] = calls[d]
  BY SettleStep
<1>2. PageAt(path, ui, Waits')
  <2>1. CASE ~calls[c].mine
    BY <1>1, <2>1, Here, PageKept
  <2>2. CASE calls[c].mine
    <3>1. calls[c].op = "logout" /\ path = "settings"
      BY <2>2, Owner
    <3>2. SettingsOK(ui, Waits)
      BY <3>1, Here, Only
    <3>3. SettingsOK(ui, Waits')
      BY <1>1, <3>1, <3>2 DEF SettingsOK
    <3> QED
      BY <3>1, <3>3, Only
  <2> QED
    BY <2>1, <2>2
<1>3. OneList'
  BY <1>1 DEF IInv, OneList
<1> QED
  BY <1>1, <1>2, <1>3, RowsKept DEF IInv, PageOK

LEMMA PasswordChangedStep ==
  ASSUME IInv, NEW c \in Slots, PasswordChanged(c), UNCHANGED matching
  PROVE  IInv'
<1>1. calls[c].op = "password" /\ UNCHANGED Rows
  BY DEF PasswordChanged, Done, Rows
<1>2. CASE calls[c].ans.ok
  BY <1>1, <1>2, ToLoginStep DEF PasswordChanged
<1>3. CASE ~calls[c].ans.ok /\ ~calls[c].mine
  BY <1>1, <1>3, SilentStep DEF PasswordChanged
<1>4. CASE ~calls[c].ans.ok /\ calls[c].mine
  <2>1. /\ UNCHANGED path /\ Settle(c) /\ path = "settings"
        /\ ui' = [ui EXCEPT !.saving = FALSE, !.refused = TRUE]
    BY <1>1, <1>4, Owner DEF PasswordChanged
  <2>2. SettingsOK(ui, Waits)
    BY <2>1, Here, Only
  <2>3. CallsOK' /\ ("settings.me" \in Waits => "settings.me" \in Waits')
    BY <1>1, <2>1, SettleStep
  <2>4. SettingsOK(ui', Waits')
    BY <2>1, <2>2, <2>3 DEF SettingsOK, SettingsState
  <2> QED
    BY <1>1, <2>1, <2>3, <2>4, Only, HandlerStep
<1> QED
  BY <1>2, <1>3, <1>4

LEMMA SignedOutStep ==
  ASSUME IInv, NEW c \in Slots, SignedOut(c), UNCHANGED matching
  PROVE  IInv'
<1>1. calls[c].op = "logout" /\ UNCHANGED Rows
  BY DEF SignedOut, Done, Rows
<1> QED
  BY <1>1, ToLoginStep, SilentStep DEF SignedOut

LEMMA OverviewStep ==
  ASSUME IInv, OverviewNext, UNCHANGED matching
  PROVE  IInv'
<1>1. CASE Reload \/ SubmitPassword \/ SignOut
  BY <1>1, ReloadStep, SettingsFormsStep
<1>2. ASSUME NEW c \in Slots,
             \/ ServeOverview(c) \/ ServeChangePassword(c) \/ ServeLogout(c)
             \/ OverviewLoaded(c) \/ SettingsLoaded(c)
             \/ PasswordChanged(c) \/ SignedOut(c)
      PROVE  IInv'
  BY <1>2, ServeOverviewStep, ServeSessionStep, OverviewLoadedStep, SettingsLoadedStep,
     PasswordChangedStep, SignedOutStep
<1> QED
  BY <1>1, <1>2 DEF OverviewNext

-----------------------------------------------------------------------------
(* The usage page.                                                         *)

\* The page asks for the rows at an offset under filters that it commits:
\* it asks only when it waits for nothing.
LEMMA LoadUsageStep ==
  ASSUME IInv, path = "usage", ~ui.loading, UNCHANGED <<key, orders, signedIn>>,
         NEW state \in UsageState, NEW off \in 0 .. LastOffset,
         LoadUsage(state, off, state.applied)
  PROVE  IInv'
<1>1. PICK f \in Valid : f = state.applied
  BY DEF UsageState
<1>2. PICK arg : arg = [filters |-> f, offset |-> off]
  OBVIOUS
<1>3. arg \in UsageQuery /\ arg.filters = f
  BY <1>1, <1>2 DEF UsageQuery
<1>4. UNCHANGED <<path, Rows>> /\ Send("usage.list", arg)
  BY <1>1, <1>2 DEF LoadUsage, Rows
<1>5. ui' = [state EXCEPT !.invalid = FALSE, !.loading = TRUE, !.error = FALSE]
  BY DEF LoadUsage
<1>6. /\ CallsOK' /\ "usage.list" \in Waits'
      /\ \E c \in Slots : /\ calls'[c].mine /\ calls'[c].arg = arg
                          /\ \A d \in Slots \ {c} : calls'[d] = calls[d]
  BY <1>3, <1>4, SendStep DEF ArgOK, Operations, OpsOf
<1>7. /\ ui' \in UsageState /\ ui'.loading /\ ~ui'.error /\ ui'.applied = f
  BY <1>1, <1>5 DEF UsageState
<1>8. UsageOK(ui', Waits')
  BY <1>6, <1>7 DEF UsageOK
<1>9. \A c \in Slots : ~calls[c].mine
  BY DEF IInv, OneList
<1>10. OneList'
  BY <1>3, <1>4, <1>6, <1>7, <1>9 DEF OneList
<1> QED
  BY <1>4, <1>6, <1>8, <1>10, Only, RowsKept DEF IInv, PageOK

\* Next and Previous, and the offsets that they ask for.
LEMMA UsageLoadsStep ==
  ASSUME IInv, UNCHANGED <<key, orders, signedIn>>,
         ClearUsageFilters \/ RefreshUsage \/ PreviousUsage \/ NextUsage
  PROVE  IInv'
<1>1. path = "usage"
  BY DEF ClearUsageFilters, RefreshUsage, PreviousUsage, NextUsage, Pagination, UsageTable,
         EmptyUsageState, FilterBar, UsageSettled
<1>2. UsageOK(ui, Waits)
  BY <1>1, Here, Only
<1>3. ~ui.loading
  BY <1>2 DEF ClearUsageFilters, RefreshUsage, PreviousUsage, NextUsage, Pagination, UsageTable,
              EmptyUsageState, FilterBar, UsageSettled, UsageOK
<1>4. ui \in UsageState /\ ui.offset \in 0 .. LastOffset
  BY <1>2 DEF UsageOK, UsageState
<1>5. CASE ClearUsageFilters
  <2>1. PICK state : state = [ui EXCEPT !.draft = AllUsage, !.applied = AllUsage]
    OBVIOUS
  <2>2. state \in UsageState /\ state.applied = AllUsage
    BY <1>4, <2>1, OffsetTypes DEF UsageState
  <2>3. LoadUsage(state, 0, state.applied)
    BY <1>5, <2>1, <2>2 DEF ClearUsageFilters
  <2> QED
    BY <1>1, <1>3, <2>2, <2>3, OffsetTypes, LoadUsageStep
<1>6. ASSUME NEW off \in 0 .. LastOffset, LoadUsage(ui, off, ui.applied) PROVE IInv'
  BY <1>1, <1>3, <1>4, <1>6, LoadUsageStep
<1>7. CASE RefreshUsage
  BY <1>4, <1>6, <1>7 DEF RefreshUsage
<1>8. CASE PreviousUsage
  <2>1. PICK off : off = IF ui.offset > Limit THEN ui.offset - Limit ELSE 0
    OBVIOUS
  <2>2. off \in 0 .. LastOffset
    BY <1>4, <2>1, OffsetTypes
  <2> QED
    BY <1>6, <1>8, <2>1, <2>2 DEF PreviousUsage
<1>9. CASE NextUsage
  <2>1. ui.offset + Limit \in 0 .. LastOffset
    BY <1>4, <1>9, OffsetTypes DEF NextUsage
  <2> QED
    BY <1>6, <1>9, <2>1 DEF NextUsage
<1> QED
  BY <1>5, <1>7, <1>8, <1>9

\* A step of the page that sends nothing and commits no filter.
LEMMA UsageFormStep ==
  ASSUME IInv, path = "usage", UNCHANGED <<path, calls, Rows>>, UsageOK(ui', Waits),
         ui'.loading = ui.loading, ui'.applied = ui.applied
  PROVE  IInv'
<1>1. CallsOK' /\ Waits' = Waits
  BY DEF IInv, CallsOK, Waits
<1>2. OneList'
  BY DEF IInv, OneList
<1> QED
  BY <1>1, <1>2, Only, RowsKept DEF IInv, PageOK

LEMMA UsageFormsStep ==
  ASSUME IInv, EditUsageFilters \/ SelectUsage, UNCHANGED <<key, orders, signedIn>>
  PROVE  IInv'
<1>1. path = "usage" /\ UNCHANGED <<path, calls, Rows>>
  BY DEF EditUsageFilters, SelectUsage, Rows
<1>2. UsageOK(ui, Waits)
  BY <1>1, Here, Only
<1>3. \/ \E f \in Filters : ui' = [ui EXCEPT !.draft = f]
      \/ ui' = [ui EXCEPT !.selected = ~ui.selected]
  BY DEF EditUsageFilters, SelectUsage
<1>4. PICK selected \in BOOLEAN : selected = ~ui.selected
  OBVIOUS
<1>5. UsageOK(ui', Waits) /\ ui'.loading = ui.loading /\ ui'.applied = ui.applied
  BY <1>2, <1>3, <1>4 DEF UsageOK, UsageState
<1> QED
  BY <1>1, <1>5, UsageFormStep

\* Filters that are refused are not committed.
LEMMA ApplyFiltersStep ==
  ASSUME IInv, ApplyUsageFilters, UNCHANGED <<key, orders, signedIn>>
  PROVE  IInv'
<1>1. path = "usage" /\ ~ui.loading
  BY DEF ApplyUsageFilters, FilterBar
<1>2. UsageOK(ui, Waits)
  BY <1>1, Here, Only
<1>3. CASE ui.draft = Backwards
  <2>1. ui' = [ui EXCEPT !.invalid = TRUE] /\ UNCHANGED <<path, calls, Rows>>
    BY <1>3 DEF ApplyUsageFilters, Rows
  <2>2. UsageOK(ui', Waits) /\ ui'.loading = ui.loading /\ ui'.applied = ui.applied
    BY <1>2, <2>1 DEF UsageOK, UsageState
  <2> QED
    BY <1>1, <2>1, <2>2, UsageFormStep
<1>4. CASE ui.draft # Backwards
  <2>1. PICK state : state = [ui EXCEPT !.applied = ui.draft]
    OBVIOUS
  <2>2. state \in UsageState /\ state.applied = ui.draft
    BY <1>2, <1>4, <2>1 DEF UsageOK, UsageState, Valid
  <2>3. LoadUsage(state, 0, state.applied)
    BY <1>4, <2>1, <2>2 DEF ApplyUsageFilters
  <2> QED
    BY <1>1, <2>2, <2>3, OffsetTypes, LoadUsageStep
<1> QED
  BY <1>3, <1>4

\* The answer is to the filters applied, and brings its offset.
LEMMA UsageLoadedStep ==
  ASSUME IInv, NEW c \in Slots, UsageLoaded(c), UNCHANGED <<key, orders, signedIn>>
  PROVE  IInv'
<1>1. UNCHANGED <<path, Rows>> /\ calls[c].op = "usage.list" /\ path = "usage" /\ calls[c].mine
  BY Owner DEF UsageLoaded, Done, Rows
<1>2. UsageOK(ui, Waits)
  BY <1>1, Here, Only
<1>3. ui.loading /\ calls[c].arg.filters = ui.applied /\ \A d \in Slots : calls[d].mine => d = c
  BY <1>1 DEF IInv, OneList
<1>4. CallsOK' /\ ~calls'[c].mine /\ \A d \in Slots \ {c} : calls'[d] = calls[d]
  BY <1>1, SettleStep DEF UsageLoaded
<1>5. OneList'
  BY <1>3, <1>4 DEF OneList
<1>6. PICK ans, arg : ans = calls[c].ans /\ arg = calls[c].arg
  OBVIOUS
<1>7. /\ arg.filters = ui.applied /\ arg.offset \in 0 .. LastOffset
      /\ ans.ok => /\ ans.data \in UsageRows
                   /\ ans.data.filters = arg.filters /\ ans.data.offset = arg.offset
  BY <1>1, <1>3, <1>6, ArgKept DEF ArgOK, DataOK, UsageQuery
<1>8. \/ \E rows \in UsageRows :
           /\ rows.filters = ui.applied /\ rows.offset = arg.offset
           /\ ui' = [ui EXCEPT !.usage = rows, !.offset = arg.offset, !.loading = FALSE]
      \/ ui' = [ui EXCEPT !.error = TRUE, !.loading = FALSE]
  BY <1>6, <1>7 DEF UsageLoaded
<1>9. ui \in UsageState /\ ~ui.error
  BY <1>2, <1>3 DEF UsageOK
<1>10. UsageOK(ui', Waits')
  BY <1>7, <1>8, <1>9 DEF UsageOK, UsageState
<1> QED
  BY <1>1, <1>4, <1>5, <1>10, Only, RowsKept DEF IInv, PageOK

LEMMA UsagePageStep ==
  ASSUME IInv, UsagePageNext, UNCHANGED <<key, orders, signedIn>>
  PROVE  IInv'
<1>1. CASE UsageBilled \/ EditUsageFilters \/ SelectUsage \/ ApplyUsageFilters
  BY <1>1, UsageBilledStep, UsageFormsStep, ApplyFiltersStep
<1>2. CASE ClearUsageFilters \/ RefreshUsage \/ PreviousUsage \/ NextUsage
  BY <1>2, UsageLoadsStep
<1>3. ASSUME NEW c \in Slots, ServeUsage(c) \/ UsageLoaded(c) PROVE IInv'
  BY <1>3, ServeUsageStep, UsageLoadedStep
<1> QED
  BY <1>1, <1>2, <1>3 DEF UsagePageNext

-----------------------------------------------------------------------------
(* The tab.                                                                *)

\* A page is opened: its first request is the only one that it waits for.
LEMMA OpenStep ==
  ASSUME IInv, NEW p \in Pages \ {"usage"}, NEW state, NEW op \in Operations,
         Mount(p, state, op, None), op \in OpsOf(p), ArgOK(op, None),
         PageAt(p, state, {op}), RowsOK'
  PROVE  IInv'
<1>1. CallsOK' /\ path' = p /\ ui' = state /\ op \in Waits'
  BY MountStep
<1>2. PageAt(p, state, Waits')
  BY <1>1, PageKept
<1> QED
  BY <1>1, <1>2 DEF IInv, PageOK, OneList

LEMMA OpenUsageStep ==
  ASSUME IInv, OpenUsagePage, RowsOK'
  PROVE  IInv'
<1>1. PICK arg : arg = [filters |-> AllUsage, offset |-> 0]
  OBVIOUS
<1>2. ArgOK("usage.list", arg) /\ arg.filters = AllUsage
  BY <1>1, OffsetTypes DEF ArgOK, UsageQuery
<1>3. Mount("usage", UsageFresh, "usage.list", arg)
  BY <1>1 DEF OpenUsagePage
<1>4. /\ CallsOK' /\ path' = "usage" /\ ui' = UsageFresh /\ "usage.list" \in Waits'
      /\ \E c \in Slots : \A d \in Slots : calls'[d].mine => d = c /\ calls'[d].arg = arg
  <2>1. "usage.list" \in Operations /\ "usage.list" \in OpsOf("usage")
    BY DEF Operations, OpsOf
  <2> QED
    BY <1>2, <1>3, <2>1, MountStep
<1>5. UsageFresh \in UsageState
  BY OffsetTypes DEF UsageFresh, UsageState, UsageRows
<1>6. UsageFresh.loading /\ ~UsageFresh.error /\ UsageFresh.applied = AllUsage
  BY DEF UsageFresh
<1>7. UsageOK(ui', Waits')
  BY <1>4, <1>5, <1>6 DEF UsageOK
<1>8. OneList'
  BY <1>2, <1>4, <1>6 DEF OneList
<1> QED
  BY <1>4, <1>7, <1>8, Only DEF IInv, PageOK

LEMMA OpenOverviewStep ==
  ASSUME IInv, OpenOverview, RowsOK'
  PROVE  IInv'
<1>1. PageAt("overview", OverviewFresh, {"overview.load"})
  <2>1. OverviewOK(OverviewFresh, {"overview.load"})
    BY DEF OverviewOK, OverviewFresh, OverviewState
  <2> QED
    BY <2>1, Only
<1> QED
  BY <1>1, OpenStep DEF OpenOverview, Pages, Operations, OpsOf, ArgOK

LEMMA OpenKeyPageStep ==
  ASSUME IInv, OpenKeyPage, RowsOK'
  PROVE  IInv'
<1>1. PageAt("api-key", KeyFresh, {"key.get"})
  <2>1. 0 \in 0 .. MaxKeys
    BY MaxKeysAssumption
  <2>2. KeyOK(KeyFresh, {"key.get"})
    BY <2>1 DEF KeyOK, KeyFresh, KeyState
  <2> QED
    BY <2>2, Only
<1> QED
  BY <1>1, OpenStep DEF OpenKeyPage, Pages, Operations, OpsOf, ArgOK

LEMMA OpenBillingStep ==
  ASSUME IInv, OpenBilling, RowsOK'
  PROVE  IInv'
<1>1. PageAt("billing", BillingFresh, {"billing.load"})
  <2>1. BillingOK(BillingFresh, {"billing.load"})
    BY DEF BillingOK, BillingFresh, BillingState
  <2> QED
    BY <2>1, Only
<1> QED
  BY <1>1, OpenStep DEF OpenBilling, Pages, Operations, OpsOf, ArgOK

LEMMA OpenPackagesStep ==
  ASSUME IInv, OpenPackages, RowsOK'
  PROVE  IInv'
<1>1. PageAt("packages", PackagesFresh, {"packages.load"})
  <2>1. PackagesOK(PackagesFresh, {"packages.load"})
    BY DEF PackagesOK, PackagesFresh, PackagesState
  <2> QED
    BY <2>1, Only
<1> QED
  BY <1>1, OpenStep DEF OpenPackages, Pages, Operations, OpsOf, ArgOK

LEMMA OpenSettingsStep ==
  ASSUME IInv, OpenSettings, RowsOK'
  PROVE  IInv'
<1>1. PageAt("settings", SettingsFresh, {"settings.me"})
  <2>1. SettingsOK(SettingsFresh, {"settings.me"})
    BY DEF SettingsOK, SettingsFresh, SettingsState
  <2> QED
    BY <2>1, Only
<1> QED
  BY <1>1, OpenStep DEF OpenSettings, Pages, Operations, OpsOf, ArgOK

LEMMA NavigateStep ==
  ASSUME IInv, Navigate \/ SignIn
  PROVE  IInv'
<1>1. RowsOK'
  <2>1. CASE Navigate
    BY <2>1, RowsKept DEF IInv, Navigate, Rows
  <2>2. CASE SignIn
    BY <2>2 DEF IInv, RowsOK, SignIn
  <2> QED
    BY <2>1, <2>2
<1>2. \/ OpenOverview \/ OpenKeyPage \/ OpenUsagePage \/ OpenBilling \/ OpenPackages
      \/ OpenSettings
  <2>1. ASSUME NEW p \in Pages,
               CASE p = "overview" -> OpenOverview
                 [] p = "api-key"  -> OpenKeyPage
                 [] p = "usage"    -> OpenUsagePage
                 [] p = "billing"  -> OpenBilling
                 [] p = "packages" -> OpenPackages
                 [] p = "settings" -> OpenSettings
        PROVE  \/ OpenOverview \/ OpenKeyPage \/ OpenUsagePage \/ OpenBilling \/ OpenPackages
               \/ OpenSettings
    BY <2>1 DEF Pages
  <2> QED
    BY <2>1 DEF Navigate, SignIn
<1> QED
  BY <1>1, <1>2, OpenOverviewStep, OpenKeyPageStep, OpenUsageStep, OpenBillingStep,
     OpenPackagesStep, OpenSettingsStep

LEMMA FailsStep ==
  ASSUME IInv, NEW c \in Slots, Fails(c)
  PROVE  IInv'
<1>1. RowsOK'
  BY RowsKept DEF IInv, Fails, Rows
<1> QED
  BY <1>1, Refused DEF Fails, Lost

LEMMA InitIInv ==
  ASSUME Init
  PROVE  IInv
<1>1. RowsOK
  <2>1. 0 \in 0 .. MaxOrders
    BY BillingAssumption
  <2>2. PICK m \in [Valid -> 0 .. MaxRows] : matching = m /\ \A f \in Valid : m[f] <= m[AllUsage]
    BY DEF Init
  <2> QED
    BY <2>1, <2>2 DEF Init, RowsOK
<1>2. CallsOK
  BY NoCallOK DEF Init, CallsOK
<1>3. path = "login" /\ ui \in LoginState
  BY DEF Init, LoginState
<1>4. PageOK
  BY <1>3, Only DEF PageOK
<1> QED
  BY <1>1, <1>2, <1>3, <1>4 DEF IInv, OneList

LEMMA NextIInv ==
  ASSUME IInv, [Next]_vars
  PROVE  IInv'
<1>1. CASE SignIn \/ Navigate
  BY <1>1, NavigateStep
<1>2. CASE KeyPageNext /\ UNCHANGED <<orders, signedIn, matching>>
  BY <1>2, KeyPageStep
<1>3. CASE BillingNext /\ UNCHANGED <<key, matching>>
  BY <1>3, BillingStep
<1>4. CASE OverviewNext /\ UNCHANGED matching
  BY <1>4, OverviewStep
<1>5. CASE UsagePageNext /\ UNCHANGED <<key, orders, signedIn>>
  BY <1>5, UsagePageStep
<1>6. CASE \E c \in Slots : Fails(c)
  BY <1>6, FailsStep
<1>7. CASE UNCHANGED vars
  <2>1. UNCHANGED <<path, ui, calls, Rows>>
    BY <1>7 DEF vars, Rows
  <2> QED
    BY <2>1, RowsKept, Elsewhere DEF IInv
<1> QED
  BY <1>1, <1>2, <1>3, <1>4, <1>5, <1>6, <1>7 DEF Next

-----------------------------------------------------------------------------
(* What holds of the dashboard for any number of keys, packages, usage     *)
(* events, filters and requests.                                           *)

\* The invariant: the rows, the requests and the page agree.
THEOREM DashboardInvariant == Spec => []IInv
BY InitIInv, NextIInv, PTL DEF Spec

\* Every page has the state its useState declares, whatever was answered to
\* the page that was there before, and wherever a late router call leads.
THEOREM DashboardTypes == Spec => []TypeOK
<1>1. ASSUME IInv PROVE TypeOK
  <2>1. PageAt(path, ui, Waits) /\ path \in Pages \cup {"login", "checkout"}
    BY <1>1, Here DEF PageAt
  <2>2. ui \in StateAt
    <3>1. path \in {"login", "overview", "settings"} => ui \in StateAt
      BY <2>1 DEF PageAt, OverviewOK, SettingsOK, StateAt
    <3>2. path \in {"api-key", "usage"} => ui \in StateAt
      BY <2>1 DEF PageAt, KeyOK, UsageOK, StateAt
    <3>3. path \in {"billing", "packages", "checkout"} => ui \in StateAt
      BY <2>1 DEF PageAt, BillingOK, PackagesOK, StateAt
    <3> QED
      BY <2>1, <3>1, <3>2, <3>3 DEF Pages
  <2>3. \A c \in Slots : /\ calls[c].op \in Operations \cup {None}
                         /\ calls[c].st \in {None, "sent", "done"}
                         /\ calls[c].mine \in BOOLEAN
    BY <1>1 DEF IInv, CallsOK, CallOK
  <2> QED
    BY <1>1, <2>1, <2>2, <2>3 DEF TypeOK, IInv, RowsOK
<1> QED
  BY <1>1, DashboardInvariant, PTL

\* No page shows for ever that it loads, and no button that waits for an
\* answer stays busy for good: each waits for a request of its own, whichever
\* others fail, overtake it or are left behind by a page that has gone.
THEOREM DashboardNeverStuck == Spec => []ButtonsRecover
<1>1. ASSUME IInv PROVE ButtonsRecover
  <2>1. ASSUME NEW w \in Waits, NEW ops, w \in ops PROVE Pending(ops)
    BY <2>1 DEF Waits, Pending
  <2>2. PageAt(path, ui, Waits)
    BY <1>1, Here
  <2>3. path = "api-key" =>
          /\ ui.loading => Pending({"key.get"})
          /\ ui.busy    => Pending({"key.create", "key.rotate", "key.revoke"})
    BY <2>1, <2>2 DEF PageAt, KeyOK
  <2>4. path = "usage" => (ui.loading => Pending({"usage.list"}))
    BY <2>1, <2>2 DEF PageAt, UsageOK
  <2>5. path = "billing" =>
          /\ ui.loading         => Pending({"billing.load", "billing.payments"})
          /\ ui.choosing # None => Pending({"checkout.package"})
    BY <2>1, <2>2 DEF PageAt, BillingOK
  <2>6. path = "packages" =>
          /\ ui.loading         => Pending({"packages.load"})
          /\ ui.choosing # None => Pending({"checkout.package"})
    BY <2>1, <2>2 DEF PageAt, PackagesOK
  <2>7. path = "overview" => (ui.loading => Pending({"overview.load"}))
    BY <2>1, <2>2 DEF PageAt, OverviewOK
  <2>8. path = "settings" => /\ ui.loading => Pending({"settings.me"})
                             /\ ui.saving  => Pending({"password"})
    BY <2>1, <2>2 DEF PageAt, SettingsOK
  <2> QED
    BY <2>3, <2>4, <2>5, <2>6, <2>7, <2>8 DEF ButtonsRecover
<1> QED
  BY <1>1, DashboardInvariant, PTL

\* Rows are never shown under filters, or at an offset, that they do not
\* answer, although the two are committed at different times.
THEOREM RowsAnswer == Spec => []RowsAnswerFilters
<1>1. ASSUME IInv PROVE RowsAnswerFilters
  <2>1. path = "usage" => UsageOK(ui, Waits)
    BY <1>1, Here, Only
  <2> QED
    BY <2>1 DEF RowsAnswerFilters, UsageSettled, UsageOK
<1> QED
  BY <1>1, DashboardInvariant, PTL
=============================================================================
