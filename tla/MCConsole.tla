----------------------------- MODULE MCConsole -----------------------------
(* Console with two users, two payments and two packages, for TLC. *)
EXTENDS Console

MCSlots      == 1..2
MCWrites     == {"users.status", "user.status", "user.key", "user.topup", "user.adjust",
                 "payments.approve", "payments.reject", "settings.save", "settings.upload",
                 "package.create", "package.update", "package.toggle", "usage.sync", "sync.run"}
MCRedirects  == {}
MCReferences == {"r1"}
MCStatus     == {"all", "SUSPENDED"}
MCTransfer   == <<"t1", "t2">>
MCUsed       == {"t2"}
MCPriceTexts == {[whole |-> 10, fraction |-> <<5>>], [whole |-> 10, fraction |-> <<5, 0, 5>>]}
MCPrices     == {1050}
MCFilters    == {AnyEvent, "some"}
MCLinks      == [p \in AdminPages |->
                   CASE p = "users" -> {"user"}
                     [] p = "sync"  -> {"usage"}
                     [] OTHER       -> {}]

\* What the continuations of the review of payments read of a settled call.
Live(call) ==
  IF call.st = "done" /\ (call.op \in {"payments.list", "payments.get"}
                          \/ (~call.ans.ok /\ call.op \in {"payments.approve", "payments.reject",
                                                           "payments.reget"}))
  THEN [call EXCEPT !.arg = None] ELSE call

\* Slots have no meaning: a state whose slots are exchanged is the same to TLC.
Weight(call) == IF call.op = None THEN 0 ELSE IF call.op \in Writes THEN 2 ELSE 1

MCCalls == IF Weight(calls[1]) < Weight(calls[2])
           THEN <<Live(calls[2]), Live(calls[1])>> ELSE <<Live(calls[1]), Live(calls[2])>>

\* Nor has what no guard reads before it is set again: the drawer's notice, the
\* rows of a list that is not shown, the form behind a closed panel, the message
\* of an error where Retry is not needed.
MCUi ==
  CASE path = "payments" -> [ui EXCEPT !.notice = None, !.list.total = PaymentPages.next,
                                       !.list.items = PaymentsTable]
    [] path = "packages" -> [ui EXCEPT !.form = IF ui.panel = -1 THEN EmptyForm ELSE @,
                                       !.error = @ /\ ui.loading]
    [] OTHER             -> ui

MCView == <<path, MCUi, MCCalls, usersVars, paymentVars, catalog, listsVars>>
=============================================================================
