---------------------------- MODULE SessionProofs ----------------------------
(***************************************************************************)
(* Proofs about Session for any number of requests under way and any       *)
(* addresses, whichever operations write or redirect: the types, that a    *)
(* shell shows its page to an account that me() has answered or is about   *)
(* to, and that the form for a code names the address the code went to.    *)
(*                                                                         *)
(* An answer is used by a continuation that may run long after it was      *)
(* given, on a page that has changed meanwhile.  The invariant says what a *)
(* request and its answer are still good for (CallOK): what they carry by  *)
(* operation, and that those which a page waits for are its own.  The      *)
(* frame of the administrator's shell is shown from a cache, and then the  *)
(* request that will confirm it is under way (FrameTrue).                  *)
(***************************************************************************)
EXTENDS Session, TLAPS

-----------------------------------------------------------------------------
(* The invariant.                                                          *)

SignIns  == {"login", "google", "signup.verify", "admin.login"}
WhoAmI   == {"session.me", "admin.me"}
CodeOps  == {"signup.request", "reset.request"}
LoggedTo == {"login", "admin/login"}

Answer == [ok : BOOLEAN, data : Accounts \cup Emails \cup {None},
           why : {None, "network", "unauthorized", "invalid", "refused"}]

Call == [op : SessionOps \cup {None},
         arg : Accounts \cup Emails \cup {None}
               \cup [session : Accounts \cup {None}, to : LoggedTo \cup {None}],
         st : {None, "sent", "done"}, ans : Answer, mine : BOOLEAN]

\* The requests whose answers the page p waits for.
OpsOf(p) ==
  CASE p = "login"       -> {"config", "login", "google"}
    [] p = "signup"      -> {"config", "google", "signup.request", "signup.verify"}
    [] p = "reset"       -> {"reset.request", "reset.confirm"}
    [] p = "admin/login" -> {"session.me", "admin.login", "admin.me", "admin.logout"}
    [] p = "dashboard"   -> {"session.me", "logout"}
    [] p = "admin"       -> {"session.me", "sync.status", "logout"}

\* What a request and its answer carry, seen from page p, when codes were sent
\* to the addresses in sent.
CallOK(call, p, sent) ==
  /\ call.op \in SignIns => /\ call.arg \in Accounts
                            /\ call.ans.ok => call.ans.data \in Accounts
  /\ call.op \in WhoAmI  => /\ call.arg \in Accounts \cup {None}
                            /\ call.ans.ok => call.ans.data \in Accounts
  /\ call.op \in CodeOps => /\ call.arg \in Emails
                            /\ call.ans.ok => call.ans.data \in sent
  /\ call.op = "logout"  => call.arg \in [session : Accounts \cup {None}, to : LoggedTo]
  /\ call.mine => call.op \in OpsOf(p)

CallsOK ==
  /\ calls \in [Slots -> Call]
  /\ \A c \in Slots : CallOK(calls[c], path, codeSent)

\* The frame's account is the one that me() answered; the administrator's may
\* be the cached one while me() is asked.
FrameTrue ==
  /\ path = "dashboard" => ui.user = ui.confirmed
  /\ path = "admin" /\ ui.user # None /\ ~ui.error =>
       ui.confirmed = ui.user \/ Pending({"session.me"})

PageOK == ui \in SessionUI /\ FrameTrue /\ CodeFormNamesAddress

TabOK ==
  /\ path \in Routes
  /\ session \in Accounts \cup {NoSession}
  /\ cachedAdmin \in BOOLEAN /\ cachedSync \in BOOLEAN
  /\ codeSent \subseteq Emails

IInv == TabOK /\ CallsOK /\ PageOK

-----------------------------------------------------------------------------
(* Requests.                                                               *)

LEMMA NoCallOK ==
  /\ NoCall \in Call
  /\ NoCall.op = None /\ ~NoCall.mine
  /\ \A p, sent : CallOK(NoCall, p, sent)
BY DEF NoCall, NoAnswer, Error, Call, Answer, None, CallOK, SignIns, WhoAmI, CodeOps

\* Another call in slot c, on the same page.
LEMMA OneCall ==
  ASSUME IInv, NEW c \in Slots, NEW new \in Call, calls' = [calls EXCEPT ![c] = new],
         path' = path, codeSent \subseteq codeSent',
         CallOK(new, path, codeSent')
  PROVE  CallsOK'
<1>1. ASSUME NEW d \in Slots PROVE CallOK(calls'[d], path, codeSent')
  <2>1. CASE d = c
    BY <2>1 DEF IInv, CallsOK
  <2>2. CASE d # c
    <3>1. calls'[d] = calls[d] /\ CallOK(calls[d], path, codeSent)
      BY <2>2 DEF IInv, CallsOK
    <3> QED
      BY <3>1 DEF CallOK
  <2> QED
    BY <2>1, <2>2
<1> QED
  BY <1>1 DEF IInv, CallsOK

\* The page's question who is signed in stays pending.
LEMMA StillPending ==
  ASSUME IInv, NEW c \in Slots, NEW new \in Call, calls' = [calls EXCEPT ![c] = new],
         calls[c].mine /\ calls[c].op = "session.me" => new.mine /\ new.op = "session.me"
  PROVE  Pending({"session.me"}) => Pending({"session.me"})'
BY DEF IInv, CallsOK, Pending

LEMMA Orphans ==
  ASSUME IInv, NEW p
  PROVE  /\ Orphaned \in [Slots -> Call]
         /\ \A c \in Slots : CallOK(Orphaned[c], p, codeSent) /\ ~Orphaned[c].mine
<1>1. ASSUME NEW c \in Slots
      PROVE  Orphaned[c] \in Call /\ CallOK(Orphaned[c], p, codeSent) /\ ~Orphaned[c].mine
  <2>1. calls[c] \in Call /\ CallOK(calls[c], path, codeSent)
    BY DEF IInv, CallsOK
  <2>2. PICK old : old = [calls[c] EXCEPT !.mine = FALSE]
    OBVIOUS
  <2>3. old \in Call /\ CallOK(old, p, codeSent) /\ ~old.mine
    BY <2>1, <2>2 DEF Call, CallOK
  <2>4. Orphaned[c] = old \/ Orphaned[c] = NoCall
    BY <2>2 DEF Orphaned
  <2> QED
    BY <2>3, <2>4, NoCallOK
<1> QED
  BY <1>1 DEF Orphaned

\* Another page, with its first request in slot c.
LEMMA Moved ==
  ASSUME IInv, NEW c \in Slots, NEW new \in Call, calls' = [Orphaned EXCEPT ![c] = new],
         codeSent' = codeSent, CallOK(new, path', codeSent)
  PROVE  CallsOK' /\ calls'[c] = new
<1>1. /\ Orphaned \in [Slots -> Call]
      /\ \A d \in Slots : CallOK(Orphaned[d], path', codeSent)
  BY Orphans
<1>2. \A d \in Slots : CallOK(calls'[d], path', codeSent)
  BY <1>1
<1> QED
  BY <1>1, <1>2 DEF CallsOK

\* A request of the page.
LEMMA RequestOK ==
  ASSUME IInv, NEW op \in SessionOps, NEW arg, NEW p, op \in OpsOf(p),
         op \in SignIns => arg \in Accounts,
         op \in WhoAmI => arg \in Accounts \cup {None},
         op \in CodeOps => arg \in Emails,
         op = "logout" => arg \in [session : Accounts \cup {None}, to : LoggedTo],
         op = "admin.logout" =>
           arg \in [session : Accounts \cup {None}, to : LoggedTo \cup {None}],
         op \notin SignIns \cup WhoAmI \cup CodeOps \cup {"logout", "admin.logout"} =>
           arg \in Accounts \cup Emails \cup {None}
  PROVE  /\ Request(op, arg) \in Call
         /\ CallOK(Request(op, arg), p, codeSent)
         /\ Request(op, arg).op = op /\ Request(op, arg).mine
<1>1. PICK new : new = Request(op, arg)
  OBVIOUS
<1>2. NoAnswer \in Answer /\ ~NoAnswer.ok
  BY DEF NoAnswer, Error, Answer
<1>3. /\ new.op = op /\ new.arg = arg /\ new.st = "sent" /\ new.mine = TRUE
      /\ new.ans = NoAnswer
  BY <1>1 DEF Request
<1>4. arg \in Accounts \cup Emails \cup {None}
              \cup [session : Accounts \cup {None}, to : LoggedTo \cup {None}]
  OBVIOUS
<1>5. new \in Call
  BY <1>1, <1>2, <1>4 DEF Request, Call
<1>6. CallOK(new, p, codeSent)
  BY <1>2, <1>3 DEF CallOK
<1> QED
  BY <1>1, <1>3, <1>5, <1>6

LEMMA AnswersOK ==
  /\ \A why \in {None, "network", "unauthorized", "invalid", "refused"} :
       Error(why) \in Answer /\ ~Error(why).ok
  /\ \A data \in Accounts \cup Emails \cup {None} :
       Ok(data) \in Answer /\ Ok(data).ok /\ Ok(data).data = data
BY DEF Ok, Error, Answer

\* A request is answered, or forgotten when nobody waits for the answer.
LEMMA ReplyStep ==
  ASSUME IInv, NEW c \in Slots, NEW ans \in Answer, Reply(c, ans),
         path' = path, codeSent \subseteq codeSent',
         ans.ok /\ calls[c].op \in SignIns \cup WhoAmI => ans.data \in Accounts,
         ans.ok /\ calls[c].op \in CodeOps => ans.data \in codeSent'
  PROVE  CallsOK' /\ (Pending({"session.me"}) => Pending({"session.me"})')
<1>1. calls[c] \in Call /\ CallOK(calls[c], path, codeSent)
  BY DEF IInv, CallsOK
<1>2. CASE calls[c].mine \/ calls[c].op \in Redirects
  <2>1. PICK new : new = [calls[c] EXCEPT !.st = "done", !.ans = ans]
    OBVIOUS
  <2>2. calls' = [calls EXCEPT ![c] = new]
    BY <1>2, <2>1 DEF Reply
  <2>3. /\ new \in Call /\ new.op = calls[c].op /\ new.mine = calls[c].mine
        /\ new.arg = calls[c].arg /\ new.ans = ans
    BY <1>1, <2>1 DEF Call
  <2>4. CallOK(new, path, codeSent')
    BY <1>1, <2>3 DEF CallOK
  <2> QED
    BY <2>2, <2>3, <2>4, OneCall, StillPending
<1>3. CASE ~(calls[c].mine \/ calls[c].op \in Redirects)
  <2>1. calls' = [calls EXCEPT ![c] = NoCall]
    BY <1>3 DEF Reply
  <2> QED
    BY <1>3, <2>1, NoCallOK, OneCall, StillPending
<1> QED
  BY <1>2, <1>3

LEMMA SettleStep ==
  ASSUME IInv, NEW c \in Slots, Settle(c), path' = path, codeSent \subseteq codeSent'
  PROVE  /\ CallsOK'
         /\ ~calls[c].mine \/ calls[c].op # "session.me" =>
              (Pending({"session.me"}) => Pending({"session.me"})')
BY NoCallOK, OneCall, StillPending DEF Settle

LEMMA SendStep ==
  ASSUME IInv, NEW op \in SessionOps, NEW arg, op \in OpsOf(path), Send(op, arg),
         path' = path, codeSent' = codeSent,
         op \in SignIns => arg \in Accounts,
         op \in WhoAmI => arg \in Accounts \cup {None},
         op \in CodeOps => arg \in Emails,
         op = "logout" => arg \in [session : Accounts \cup {None}, to : LoggedTo],
         op = "admin.logout" =>
           arg \in [session : Accounts \cup {None}, to : LoggedTo \cup {None}],
         op \notin SignIns \cup WhoAmI \cup CodeOps \cup {"logout", "admin.logout"} =>
           arg \in Accounts \cup Emails \cup {None}
  PROVE  CallsOK' /\ (Pending({"session.me"}) => Pending({"session.me"})')
<1>1. PICK c \in Slots : /\ calls[c].op = None
                         /\ calls' = [calls EXCEPT ![c] = Request(op, arg)]
  BY DEF Send, Request
<1>2. /\ Request(op, arg) \in Call /\ CallOK(Request(op, arg), path, codeSent)
      /\ Request(op, arg).op = op /\ Request(op, arg).mine
  BY RequestOK
<1>3. calls[c].op # "session.me"
  BY <1>1 DEF None
<1> QED
  BY <1>1, <1>2, <1>3, OneCall, StillPending

\* A continuation goes on to its next request.
LEMMA AwaitStep ==
  ASSUME IInv, NEW c \in Slots, NEW op \in SessionOps, NEW arg, Await(c, op, arg),
         path' = path, codeSent' = codeSent,
         calls[c].mine => op \in OpsOf(path),
         op \in {"admin.me", "admin.logout", "sync.status"},
         op = "admin.me" => arg \in Accounts \cup {None},
         op = "admin.logout" =>
           arg \in [session : Accounts \cup {None}, to : LoggedTo \cup {None}],
         op = "sync.status" => arg = None
  PROVE  /\ CallsOK'
         /\ ~calls[c].mine \/ calls[c].op # "session.me" =>
              (Pending({"session.me"}) => Pending({"session.me"})')
<1>1. PICK new : new = [op |-> op, arg |-> arg, st |-> "sent", ans |-> NoAnswer,
                        mine |-> calls[c].mine]
  OBVIOUS
<1>2. calls' = [calls EXCEPT ![c] = new]
  BY <1>1 DEF Await
<1>3. NoAnswer \in Answer /\ ~NoAnswer.ok /\ calls[c].mine \in BOOLEAN
  BY DEF NoAnswer, Error, Answer, IInv, CallsOK, Call
<1>4. arg \in Accounts \cup Emails \cup {None}
              \cup [session : Accounts \cup {None}, to : LoggedTo \cup {None}]
  OBVIOUS
<1>5. new \in Call
  BY <1>1, <1>3, <1>4 DEF Call
<1>6. CallOK(new, path, codeSent)
  BY <1>1, <1>3 DEF CallOK, SignIns, WhoAmI, CodeOps
<1> QED
  BY <1>2, <1>5, <1>6, OneCall, StillPending

-----------------------------------------------------------------------------
(* Pages.                                                                  *)

LEMMA SamePage ==
  ASSUME IInv, UNCHANGED <<path, ui>>, codeSent \subseteq codeSent',
         Pending({"session.me"}) => Pending({"session.me"})'
  PROVE  PageOK'
<1>1. ui' \in SessionUI'
  BY DEF IInv, PageOK, SessionUI
<1>2. FrameTrue' /\ CodeFormNamesAddress'
  BY DEF IInv, PageOK, FrameTrue, CodeFormNamesAddress
<1> QED
  BY <1>1, <1>2 DEF PageOK

\* A page that was just mounted.
LEMMA FreshOK ==
  ASSUME IInv, NEW p \in Routes, path' = p, ui' = Fresh(p),
         p = "admin" => Pending({"session.me"})'
  PROVE  PageOK'
<1>0. cachedAdmin \in BOOLEAN /\ cachedSync \in BOOLEAN
  BY DEF IInv, TabOK
<1>1. CASE p = "login"
  BY <1>1 DEF PageOK, Fresh, SessionUI, FrameTrue, CodeFormNamesAddress, GoogleButton
<1>2. CASE p = "signup"
  BY <1>2 DEF PageOK, Fresh, SessionUI, FrameTrue, CodeFormNamesAddress, GoogleButton
<1>3. CASE p = "reset"
  BY <1>3 DEF PageOK, Fresh, SessionUI, FrameTrue, CodeFormNamesAddress
<1>4. CASE p = "admin/login"
  BY <1>4 DEF PageOK, Fresh, SessionUI, FrameTrue, CodeFormNamesAddress
<1>5. CASE p = "dashboard"
  BY <1>5 DEF PageOK, Fresh, SessionUI, FrameTrue, CodeFormNamesAddress
<1>6. CASE p = "admin"
  BY <1>0, <1>6 DEF PageOK, Fresh, SessionUI, FrameTrue, CodeFormNamesAddress
<1> QED
  BY <1>1, <1>2, <1>3, <1>4, <1>5, <1>6 DEF Routes

\* A continuation in slot c goes on to page p, whose first request is new.
LEMMA GoneTo ==
  ASSUME IInv, TabOK', NEW c \in Slots, NEW p \in Routes, NEW new \in Call,
         path' = p, ui' = Fresh(p), calls' = [Orphaned EXCEPT ![c] = new],
         codeSent' = codeSent, CallOK(new, p, codeSent),
         p = "admin" => new.op = "session.me" /\ new.mine
  PROVE  IInv'
<1>1. CallsOK' /\ calls'[c] = new
  BY Moved
<1>2. p = "admin" => Pending({"session.me"})'
  BY <1>1 DEF Pending
<1> QED
  BY <1>1, <1>2, FreshOK DEF IInv

LEMMA FirstOK ==
  ASSUME IInv, NEW p \in Routes \ {"reset"}
  PROVE  /\ First(p) \in Call /\ CallOK(First(p), p, codeSent)
         /\ p = "admin" => First(p).op = "session.me" /\ First(p).mine
         /\ First(p).op \in {"config", "session.me"} /\ First(p).arg \in Accounts \cup {None}
         /\ First(p) # NoCall
<1>1. session \in Accounts \cup {None}
  BY DEF IInv, TabOK, NoSession
<1>2. CASE p \in {"login", "signup"}
  <2>1. First(p) = Request("config", None)
    BY <1>2 DEF First
  <2>2. /\ Request("config", None) \in Call /\ CallOK(Request("config", None), p, codeSent)
        /\ Request("config", None).op = "config"
    BY <1>2, RequestOK DEF SessionOps, OpsOf, SignIns, WhoAmI, CodeOps
  <2>3. Request("config", None).arg = None
    BY DEF Request
  <2> QED
    BY <1>2, <2>1, <2>2, <2>3, NoCallOK DEF None
<1>3. CASE p \in {"admin/login", "dashboard", "admin"}
  <2>1. First(p) = Request("session.me", session)
    BY <1>3 DEF First
  <2>2. /\ Request("session.me", session) \in Call
        /\ CallOK(Request("session.me", session), p, codeSent)
        /\ Request("session.me", session).op = "session.me"
        /\ Request("session.me", session).mine
    BY <1>1, <1>3, RequestOK DEF SessionOps, OpsOf, SignIns, WhoAmI, CodeOps
  <2>3. Request("session.me", session).arg = session
    BY DEF Request
  <2> QED
    BY <1>1, <1>3, <2>1, <2>2, <2>3, NoCallOK DEF None
<1> QED
  BY <1>2, <1>3 DEF Routes

LEMMA GoStep ==
  ASSUME IInv, TabOK', NEW c \in Slots, NEW p \in Routes \ {"reset"}, Go(c, p),
         codeSent' = codeSent
  PROVE  IInv'
<1>1. CASE path = p /\ ~calls[c].mine
  BY <1>1, SettleStep, SamePage DEF Go, IInv
<1>2. CASE ~(path = p /\ ~calls[c].mine)
  BY <1>2, FirstOK, GoneTo DEF Go
<1> QED
  BY <1>1, <1>2

-----------------------------------------------------------------------------
(* What the API does.                                                      *)

LEMMA Served ==
  ASSUME IInv, TabOK', NEW c \in Slots, NEW ans \in Answer, Reply(c, ans),
         UNCHANGED <<path, ui>>, codeSent \subseteq codeSent',
         ans.ok /\ calls[c].op \in SignIns \cup WhoAmI => ans.data \in Accounts,
         ans.ok /\ calls[c].op \in CodeOps => ans.data \in codeSent'
  PROVE  IInv'
BY ReplyStep, SamePage DEF IInv

LEMMA Refused ==
  ASSUME IInv, TabOK', NEW c \in Slots,
         NEW why \in {None, "network", "unauthorized", "invalid", "refused"},
         Reply(c, Error(why)), UNCHANGED <<path, ui>>, codeSent \subseteq codeSent'
  PROVE  IInv'
BY AnswersOK, Served

LEMMA ServeMeStep ==
  ASSUME IInv, NEW c \in Slots, ServeMe(c)
  PROVE  IInv'
<1>1. calls[c].op \in WhoAmI /\ calls[c].arg \in Accounts \cup {None}
  BY DEF ServeMe, Sent, WhoAmI, IInv, CallsOK, CallOK
<1>2. calls[c].op \notin CodeOps
  BY <1>1 DEF WhoAmI, CodeOps
<1>3. TabOK' /\ UNCHANGED <<path, ui, codeSent>>
  BY DEF ServeMe, IInv, TabOK, caches
<1>4. CASE calls[c].arg # NoSession /\ Reply(c, Ok(calls[c].arg))
  <2>1. calls[c].arg \in Accounts
    BY <1>1, <1>4 DEF NoSession
  <2> QED
    BY <1>2, <1>3, <1>4, <2>1, AnswersOK, Served
<1>5. CASE Reply(c, Error("unauthorized"))
  BY <1>3, <1>5, Refused
<1> QED
  BY <1>4, <1>5 DEF ServeMe

LEMMA ServeSignInStep ==
  ASSUME IInv, NEW c \in Slots, ServeSignIn(c)
  PROVE  IInv'
<1>1. calls[c].op \in SignIns /\ calls[c].arg \in Accounts
  BY DEF ServeSignIn, Sent, SignIns, IInv, CallsOK, CallOK
<1>2. calls[c].op \notin CodeOps
  BY <1>1 DEF SignIns, CodeOps
<1>3. TabOK' /\ UNCHANGED <<path, ui, codeSent>>
  BY DEF ServeSignIn, IInv, TabOK, caches
<1>4. CASE Reply(c, Ok(calls[c].arg))
  BY <1>1, <1>2, <1>3, <1>4, AnswersOK, Served
<1>5. CASE Reply(c, Error("invalid"))
  BY <1>3, <1>5, Refused
<1> QED
  BY <1>4, <1>5 DEF ServeSignIn

\* An answer that carries nothing.
LEMMA Acknowledged ==
  ASSUME IInv, TabOK', NEW c \in Slots, Reply(c, Ok(None)),
         calls[c].op \notin SignIns \cup WhoAmI \cup CodeOps,
         UNCHANGED <<path, ui>>, codeSent' = codeSent
  PROVE  IInv'
BY AnswersOK, Served

LEMMA ServeOthersStep ==
  ASSUME IInv, NEW c \in Slots, ServeLogout(c) \/ ServeReset(c) \/ ServeReads(c)
  PROVE  IInv'
<1>1. TabOK' /\ UNCHANGED <<path, ui, codeSent>>
  BY DEF ServeLogout, ServeReset, ServeReads, IInv, TabOK, caches, NoSession
<1>2. calls[c].op \notin SignIns \cup WhoAmI \cup CodeOps
  BY DEF ServeLogout, ServeReset, ServeReads, Sent, SignIns, WhoAmI, CodeOps
<1>3. Reply(c, Ok(None)) \/ Reply(c, Error("invalid"))
  BY DEF ServeLogout, ServeReset, ServeReads
<1> QED
  BY <1>1, <1>2, <1>3, Acknowledged, Refused

LEMMA ServeCodeStep ==
  ASSUME IInv, NEW c \in Slots, ServeCode(c)
  PROVE  IInv'
<1>1. calls[c].op \in CodeOps /\ calls[c].arg \in Emails
  BY DEF ServeCode, Sent, CodeOps, IInv, CallsOK, CallOK
<1>2. calls[c].op \notin SignIns \cup WhoAmI
  BY <1>1 DEF SignIns, WhoAmI, CodeOps
<1>3. TabOK' /\ UNCHANGED <<path, ui>> /\ codeSent \subseteq codeSent'
  BY <1>1 DEF ServeCode, IInv, TabOK, caches
<1>4. CASE codeSent' = codeSent \cup {calls[c].arg} /\ Reply(c, Ok(calls[c].arg))
  BY <1>1, <1>2, <1>3, <1>4, AnswersOK, Served
<1>5. CASE Reply(c, Error("refused"))
  BY <1>3, <1>5, Refused
<1> QED
  BY <1>4, <1>5 DEF ServeCode

LEMMA SessionEndsStep ==
  ASSUME IInv, SessionEnds
  PROVE  IInv'
<1>1. TabOK'
  BY DEF SessionEnds, IInv, TabOK, caches, NoSession
<1>2. CallsOK' /\ (Pending({"session.me"}) => Pending({"session.me"})')
  BY DEF SessionEnds, IInv, CallsOK, Pending
<1> QED
  BY <1>1, <1>2, SamePage DEF SessionEnds, IInv

LEMMA FailsStep ==
  ASSUME IInv, NEW c \in Slots, Fails(c)
  PROVE  IInv'
<1>1. TabOK'
  BY DEF Fails, Lost, IInv, TabOK, caches
<1> QED
  BY <1>1, Refused DEF Fails, Lost

-----------------------------------------------------------------------------
(* Signing in, on the login and signup pages.                              *)

\* A request whose answer a page waits for is one of its own.
LEMMA Owned ==
  ASSUME IInv, NEW c \in Slots, calls[c].mine
  PROVE  calls[c].op \in OpsOf(path) /\ path \in Routes
BY DEF IInv, TabOK, CallsOK, CallOK

LEMMA GoogleConfiguredStep ==
  ASSUME IInv, NEW c \in Slots, GoogleConfigured(c)
  PROVE  IInv'
<1>1. calls[c].op = "config" /\ calls[c].mine /\ UNCHANGED <<path, codeSent>> /\ Settle(c)
  BY DEF GoogleConfigured, Done
<1>2. path \in {"login", "signup"}
  BY <1>1, Owned DEF OpsOf, Routes
<1>3. PICK state \in {"ready", "failed"} : ui' = [ui EXCEPT !.google = state]
  BY DEF GoogleConfigured
<1>4. ui \in SessionUI /\ CodeFormNamesAddress
  BY DEF IInv, PageOK
<1>5. ASSUME path = "login" PROVE PageOK'
  BY <1>1, <1>3, <1>4, <1>5 DEF PageOK, SessionUI, FrameTrue, CodeFormNamesAddress, GoogleButton
<1>6. ASSUME path = "signup" PROVE PageOK'
  BY <1>1, <1>3, <1>4, <1>6 DEF PageOK, SessionUI, FrameTrue, CodeFormNamesAddress, GoogleButton
<1>7. TabOK'
  BY DEF GoogleConfigured, IInv, TabOK, caches
<1> QED
  BY <1>1, <1>2, <1>5, <1>6, <1>7, SettleStep DEF IInv

\* A form is submitted.
LEMMA SubmitStep ==
  ASSUME IInv, NEW op \in SessionOps, NEW arg, op \in OpsOf(path), Submit(op, arg),
         path \in {"login", "signup", "reset", "admin/login"},
         op \in SignIns => arg \in Accounts,
         op \in WhoAmI => arg \in Accounts \cup {None},
         op \in CodeOps => arg \in Emails,
         op \notin {"logout", "admin.logout"},
         op \notin SignIns \cup WhoAmI \cup CodeOps => arg \in Accounts \cup Emails \cup {None}
  PROVE  IInv'
<1>1. Send(op, arg) /\ UNCHANGED <<path, session, caches, codeSent>>
  BY DEF Submit
<1>2. TabOK'
  BY <1>1 DEF IInv, TabOK, caches
<1>3. CallsOK'
  BY <1>1, SendStep
<1>4. ui \in SessionUI /\ CodeFormNamesAddress
  BY DEF IInv, PageOK
<1>5. ASSUME path = "login" PROVE PageOK'
  BY <1>1, <1>4, <1>5 DEF Submit, PageOK, SessionUI, FrameTrue, CodeFormNamesAddress
<1>6. ASSUME path = "signup" PROVE PageOK'
  BY <1>1, <1>4, <1>6 DEF Submit, PageOK, SessionUI, FrameTrue, CodeFormNamesAddress
<1>7. ASSUME path = "reset" PROVE PageOK'
  BY <1>1, <1>4, <1>7 DEF Submit, PageOK, SessionUI, FrameTrue, CodeFormNamesAddress
<1>8. ASSUME path = "admin/login" PROVE PageOK'
  BY <1>1, <1>4, <1>8 DEF Submit, PageOK, SessionUI, FrameTrue, CodeFormNamesAddress
<1> QED
  BY <1>2, <1>3, <1>5, <1>6, <1>7, <1>8 DEF IInv

LEMMA SignInStep ==
  ASSUME IInv, SignIn \/ VerifySignup \/ SubmitAdminLogin
  PROVE  IInv'
<1>1. CASE SignIn
  <2>1. PICK a \in Accounts : \/ path = "login" /\ Submit("login", a)
                              \/ path \in {"login", "signup"} /\ Submit("google", a)
    BY <1>1 DEF SignIn, LoginForm, GoogleAuthButton
  <2> QED
    BY <2>1, SubmitStep DEF OpsOf, SessionOps, SignIns, WhoAmI, CodeOps
<1>2. CASE VerifySignup
  BY <1>2, SubmitStep, SessionAssumption
     DEF VerifySignup, CodeForm, OpsOf, SessionOps, SignIns, WhoAmI, CodeOps
<1>3. CASE SubmitAdminLogin
  BY <1>3, SubmitStep DEF SubmitAdminLogin, OpsOf, SessionOps, SignIns, WhoAmI, CodeOps
<1> QED
  BY <1>1, <1>2, <1>3

\* The cookie is set, and the tab goes to the dashboard.
LEMMA SignedInStep ==
  ASSUME IInv, NEW c \in Slots, SignedIn(c)
  PROVE  IInv'
<1>1. /\ calls[c].op \in {"login", "google", "signup.verify"}
      /\ UNCHANGED <<caches, codeSent>>
  BY DEF SignedIn, Done
<1>2. calls[c].ans.ok => calls[c].ans.data \in Accounts
  BY <1>1 DEF IInv, CallsOK, CallOK, SignIns
<1>3. CASE calls[c].ans.ok
  <2>1. session' = calls[c].ans.data
    BY <1>3 DEF SignedIn
  <2>2. CASE path = "dashboard" /\ Settle(c) /\ UNCHANGED <<path, ui>>
    <3>1. TabOK'
      BY <1>1, <1>2, <1>3, <2>1, <2>2 DEF IInv, TabOK, caches
    <3> QED
      BY <1>1, <2>2, <3>1, SettleStep, SamePage DEF IInv
  <2>3. CASE /\ path' = "dashboard" /\ ui' = Fresh("dashboard")
             /\ calls' = [Orphaned EXCEPT ![c] = Request("session.me", session')]
    <3>1. TabOK'
      BY <1>1, <1>2, <1>3, <2>1, <2>3 DEF IInv, TabOK, caches, Routes
    <3>2. PICK new : new = Request("session.me", session')
      OBVIOUS
    <3>3. new \in Call /\ CallOK(new, "dashboard", codeSent)
      BY <1>2, <1>3, <2>1, <3>2, RequestOK
         DEF OpsOf, SessionOps, SignIns, WhoAmI, CodeOps
    <3> QED
      BY <1>1, <2>3, <3>1, <3>2, <3>3, GoneTo DEF Routes
  <2> QED
    BY <1>3, <2>2, <2>3 DEF SignedIn
<1>4. CASE ~calls[c].ans.ok
  <2>1. /\ ui' = IF calls[c].mine THEN [ui EXCEPT !.loading = FALSE, !.error = TRUE] ELSE ui
        /\ Settle(c) /\ UNCHANGED <<path, session, caches, codeSent>>
    BY <1>4 DEF SignedIn
  <2>2. TabOK'
    BY <2>1 DEF IInv, TabOK, caches
  <2>3. CASE ~calls[c].mine
    BY <2>1, <2>2, <2>3, SettleStep, SamePage DEF IInv
  <2>4. CASE calls[c].mine
    <3>1. path \in {"login", "signup"}
      BY <1>1, <2>4, Owned DEF OpsOf, Routes
    <3>2. ui \in SessionUI /\ CodeFormNamesAddress
      BY DEF IInv, PageOK
    <3>3. ASSUME path = "login" PROVE PageOK'
      BY <2>1, <2>4, <3>2, <3>3 DEF PageOK, SessionUI, FrameTrue, CodeFormNamesAddress
    <3>4. ASSUME path = "signup" PROVE PageOK'
      BY <2>1, <2>4, <3>2, <3>4 DEF PageOK, SessionUI, FrameTrue, CodeFormNamesAddress
    <3> QED
      BY <2>1, <2>2, <3>1, <3>3, <3>4, SettleStep DEF IInv
  <2> QED
    BY <2>3, <2>4
<1> QED
  BY <1>3, <1>4

-----------------------------------------------------------------------------
(* Codes, on the signup and reset pages.                                   *)

LEMMA TypeEmailStep ==
  ASSUME IInv, TypeEmail
  PROVE  IInv'
<1>1. UNCHANGED <<path, calls, session, caches, codeSent>>
  BY DEF TypeEmail
<1>2. PICK e \in Emails : ui' = [ui EXCEPT !.email = e]
  BY DEF TypeEmail
<1>3. ui \in SessionUI
  BY DEF IInv, PageOK
<1>4. ASSUME EmailForm PROVE PageOK'
  BY <1>1, <1>2, <1>3, <1>4 DEF EmailForm, PageOK, SessionUI, FrameTrue, CodeFormNamesAddress
<1>5. ASSUME ResetForm("request") PROVE PageOK'
  BY <1>1, <1>2, <1>3, <1>5 DEF ResetForm, PageOK, SessionUI, FrameTrue, CodeFormNamesAddress
<1>6. TabOK' /\ CallsOK'
  BY <1>1 DEF IInv, TabOK, CallsOK, caches
<1> QED
  BY <1>4, <1>5, <1>6 DEF TypeEmail, IInv

LEMMA RequestCodeStep ==
  ASSUME IInv, RequestCode \/ ConfirmReset
  PROVE  IInv'
<1>1. ui \in SessionUI
  BY DEF IInv, PageOK
<1>2. CASE path = "signup" /\ ui.email # None /\ Submit("signup.request", ui.email)
  <2>1. ui.email \in Emails
    BY <1>1, <1>2 DEF SessionUI
  <2> QED
    BY <1>2, <2>1, SubmitStep DEF OpsOf, SessionOps, SignIns, WhoAmI, CodeOps
<1>3. CASE path = "reset" /\ ui.email # None /\ Submit("reset.request", ui.email)
  <2>1. ui.email \in Emails
    BY <1>1, <1>3 DEF SessionUI
  <2> QED
    BY <1>3, <2>1, SubmitStep DEF OpsOf, SessionOps, SignIns, WhoAmI, CodeOps
<1>4. CASE path = "reset" /\ Submit("reset.confirm", ui.email)
  <2>1. ui.email \in Emails \cup {None}
    BY <1>1, <1>4 DEF SessionUI
  <2> QED
    BY <1>4, <2>1, SubmitStep DEF OpsOf, SessionOps, SignIns, WhoAmI, CodeOps
<1> QED
  BY <1>2, <1>3, <1>4 DEF RequestCode, ConfirmReset, EmailForm, CodeForm, ResetForm

\* The form for the code names the address of the answer, which is one that a
\* code was sent to, whatever was typed since the request left.
LEMMA CodeRequestedStep ==
  ASSUME IInv, NEW c \in Slots, CodeRequested(c)
  PROVE  IInv'
<1>1. /\ calls[c].op \in CodeOps /\ calls[c].mine /\ Settle(c)
      /\ UNCHANGED <<path, session, caches, codeSent>>
  BY DEF CodeRequested, Done, CodeOps
<1>2. path \in {"signup", "reset"}
  BY <1>1, Owned DEF OpsOf, Routes, CodeOps
<1>3. PICK ans : ans = calls[c].ans
  OBVIOUS
<1>4. ans.ok \in BOOLEAN
  BY <1>3 DEF IInv, CallsOK, Call, Answer
<1>5. ans.ok => ans.data \in codeSent /\ ans.data \in Emails
  BY <1>1, <1>3 DEF IInv, TabOK, CallsOK, CallOK
<1>6. ui' = CASE ~ans.ok          -> [ui EXCEPT !.error = TRUE, !.loading = FALSE]
             [] ans.ok /\ path = "signup" ->
                  [ui EXCEPT !.email = ans.data, !.verificationSent = TRUE, !.loading = FALSE]
             [] ans.ok /\ path = "reset"  ->
                  [ui EXCEPT !.email = ans.data, !.step = "confirm", !.loading = FALSE]
  BY <1>3 DEF CodeRequested
<1>7. ui \in SessionUI /\ CodeFormNamesAddress
  BY DEF IInv, PageOK
<1>8. ASSUME ~ans.ok PROVE PageOK'
  <2>1. ui' = [ui EXCEPT !.error = TRUE, !.loading = FALSE]
    BY <1>6, <1>8
  <2>2. ASSUME path = "signup" PROVE PageOK'
    BY <1>1, <1>7, <2>1, <2>2 DEF PageOK, SessionUI, FrameTrue, CodeFormNamesAddress
  <2>3. ASSUME path = "reset" PROVE PageOK'
    BY <1>1, <1>7, <2>1, <2>3 DEF PageOK, SessionUI, FrameTrue, CodeFormNamesAddress
  <2> QED
    BY <1>2, <2>2, <2>3
<1>9. ASSUME ans.ok, path = "signup" PROVE PageOK'
  <2>1. ui' = [ui EXCEPT !.email = ans.data, !.verificationSent = TRUE, !.loading = FALSE]
    BY <1>6, <1>9
  <2> QED
    BY <1>1, <1>5, <1>7, <1>9, <2>1 DEF PageOK, SessionUI, FrameTrue, CodeFormNamesAddress
<1>10. ASSUME ans.ok, path = "reset" PROVE PageOK'
  <2>1. ui' = [ui EXCEPT !.email = ans.data, !.step = "confirm", !.loading = FALSE]
    BY <1>6, <1>10
  <2> QED
    BY <1>1, <1>5, <1>7, <1>10, <2>1 DEF PageOK, SessionUI, FrameTrue, CodeFormNamesAddress
<1>11. TabOK'
  BY <1>1 DEF IInv, TabOK, caches
<1> QED
  BY <1>1, <1>2, <1>8, <1>9, <1>10, <1>11, SettleStep DEF IInv

LEMMA ChangeEmailStep ==
  ASSUME IInv, ChangeEmail
  PROVE  IInv'
<1>1. UNCHANGED <<path, session, caches, codeSent>>
  BY DEF ChangeEmail
<1>2. ui \in SessionUI
  BY DEF IInv, PageOK
<1>3. CASE /\ path = "signup" /\ Send("config", None)
           /\ ui' = [ui EXCEPT !.verificationSent = FALSE, !.error = FALSE, !.google = "loading"]
  <2>1. CallsOK'
    BY <1>1, <1>3, SendStep DEF OpsOf, SessionOps, SignIns, WhoAmI, CodeOps
  <2>2. PageOK'
    BY <1>1, <1>2, <1>3 DEF PageOK, SessionUI, FrameTrue, CodeFormNamesAddress, GoogleButton
  <2> QED
    BY <1>1, <2>1, <2>2 DEF IInv, TabOK, caches
<1>4. CASE /\ path = "reset" /\ UNCHANGED calls
           /\ ui' = [ui EXCEPT !.step = "request", !.error = FALSE]
  <2>1. PageOK'
    BY <1>1, <1>2, <1>4 DEF PageOK, SessionUI, FrameTrue, CodeFormNamesAddress
  <2> QED
    BY <1>1, <1>4, <2>1 DEF IInv, TabOK, CallsOK, caches
<1> QED
  BY <1>3, <1>4 DEF ChangeEmail, CodeForm, ResetForm

LEMMA ResetConfirmedStep ==
  ASSUME IInv, NEW c \in Slots, ResetConfirmed(c)
  PROVE  IInv'
<1>1. /\ calls[c].op = "reset.confirm" /\ calls[c].mine /\ Settle(c)
      /\ UNCHANGED <<path, session, caches, codeSent>>
  BY DEF ResetConfirmed, Done
<1>2. path = "reset"
  BY <1>1, Owned DEF OpsOf, Routes
<1>3. ui \in SessionUI /\ CodeFormNamesAddress
  BY DEF IInv, PageOK
<1>4. \/ ui' = [ui EXCEPT !.step = "success", !.loading = FALSE]
      \/ ui' = [ui EXCEPT !.error = TRUE, !.loading = FALSE]
  BY DEF ResetConfirmed
<1>5. PageOK'
  BY <1>1, <1>2, <1>3, <1>4 DEF PageOK, SessionUI, FrameTrue, CodeFormNamesAddress
<1> QED
  BY <1>1, <1>5, SettleStep DEF IInv, TabOK, caches

-----------------------------------------------------------------------------
(* The administrator's login.                                              *)

LEMMA AdminLoginCheckedStep ==
  ASSUME IInv, NEW c \in Slots, AdminLoginChecked(c)
  PROVE  IInv'
<1>1. /\ path = "admin/login" /\ UNCHANGED <<session, caches, codeSent>>
  BY DEF AdminLoginChecked
<1>2. CASE Go(c, "admin")
  <2>1. TabOK'
    BY <1>1, <1>2 DEF Go, IInv, TabOK, caches, Routes
  <2> QED
    BY <1>1, <1>2, <2>1, GoStep DEF Routes
<1>3. CASE ~Go(c, "admin")
  <2>1. /\ Settle(c) /\ UNCHANGED path
        /\ \E e \in {ui.error, "no access", "failed"} :
             ui' = [ui EXCEPT !.checking = FALSE, !.error = e]
    BY <1>3 DEF AdminLoginChecked
  <2>2. PICK e \in {ui.error, "no access", "failed"} :
          ui' = [ui EXCEPT !.checking = FALSE, !.error = e]
    BY <2>1
  <2>3. ui \in SessionUI
    BY DEF IInv, PageOK
  <2>4. PageOK'
    BY <1>1, <2>1, <2>2, <2>3 DEF PageOK, SessionUI, FrameTrue, CodeFormNamesAddress
  <2> QED
    BY <1>1, <2>1, <2>4, SettleStep DEF IInv, TabOK, caches
<1> QED
  BY <1>2, <1>3

LEMMA AdminLoginEndsStep ==
  ASSUME IInv, TabOK', NEW c \in Slots, NEW error \in {"no access", "failed"},
         AdminLoginEnds(c, error), calls[c].op \in {"admin.login", "admin.me", "admin.logout"},
         codeSent' = codeSent
  PROVE  IInv'
<1>1. Settle(c) /\ UNCHANGED path
  BY DEF AdminLoginEnds
<1>2. CASE ~calls[c].mine
  BY <1>1, <1>2, SettleStep, SamePage DEF AdminLoginEnds, IInv
<1>3. CASE calls[c].mine
  <2>1. path = "admin/login"
    BY <1>3, Owned DEF OpsOf, Routes
  <2>2. ui' = [ui EXCEPT !.loading = FALSE, !.error = error]
    BY <1>3 DEF AdminLoginEnds
  <2>3. ui \in SessionUI
    BY DEF IInv, PageOK
  <2>4. PageOK'
    BY <1>1, <2>1, <2>2, <2>3 DEF PageOK, SessionUI, FrameTrue, CodeFormNamesAddress
  <2> QED
    BY <1>1, <2>4, SettleStep DEF IInv
<1> QED
  BY <1>2, <1>3

LEMMA AdminLoginAnsweredStep ==
  ASSUME IInv, NEW c \in Slots, AdminLoginAnswered(c)
  PROVE  IInv'
<1>1. UNCHANGED <<caches, codeSent>> /\ session \in Accounts \cup {None}
  BY DEF AdminLoginAnswered, IInv, TabOK, NoSession
<1>2. calls[c].op \in {"admin.login", "admin.me", "admin.logout"}
  BY DEF AdminLoginAnswered, Done
<1>3. calls[c].mine => path = "admin/login"
  BY <1>2, Owned DEF OpsOf, Routes
<1>4. CASE /\ calls[c].op = "admin.login" /\ calls[c].ans.ok /\ session' = calls[c].ans.data
           /\ Await(c, "admin.me", session') /\ UNCHANGED <<path, ui>>
  <2>1. session' \in Accounts
    BY <1>4 DEF IInv, CallsOK, CallOK, SignIns
  <2>2. TabOK'
    BY <1>1, <1>4, <2>1 DEF IInv, TabOK, caches
  <2>3. CallsOK' /\ (Pending({"session.me"}) => Pending({"session.me"})')
    BY <1>1, <1>3, <1>4, <2>1, AwaitStep DEF OpsOf, SessionOps
  <2> QED
    BY <1>1, <1>4, <2>2, <2>3, SamePage DEF IInv
<1>5. CASE AdminLoginEnds(c, "failed") /\ UNCHANGED session
  <2>1. TabOK'
    BY <1>1, <1>5 DEF AdminLoginEnds, IInv, TabOK, caches
  <2> QED
    BY <1>1, <1>2, <1>5, <2>1, AdminLoginEndsStep
<1>6. CASE Go(c, "admin") /\ UNCHANGED session
  <2>1. TabOK'
    BY <1>1, <1>6 DEF Go, IInv, TabOK, caches, Routes
  <2> QED
    BY <1>1, <1>6, <2>1, GoStep DEF Routes
<1>7. CASE /\ Await(c, "admin.logout", [session |-> session, to |-> None])
           /\ UNCHANGED <<path, ui, session>>
  <2>1. TabOK'
    BY <1>1, <1>7 DEF IInv, TabOK, caches
  <2>2. [session |-> session, to |-> None]
          \in [session : Accounts \cup {None}, to : LoggedTo \cup {None}]
    BY <1>1
  <2>3. CallsOK' /\ (Pending({"session.me"}) => Pending({"session.me"})')
    BY <1>1, <1>2, <1>3, <1>7, <2>2, AwaitStep DEF OpsOf, SessionOps
  <2> QED
    BY <1>1, <1>7, <2>1, <2>3, SamePage DEF IInv
<1>8. CASE \E error \in {"no access", "failed"} :
             /\ session' \in {session, NoSession} /\ AdminLoginEnds(c, error)
  <2>1. PICK error \in {"no access", "failed"} : AdminLoginEnds(c, error)
    BY <1>8
  <2>2. TabOK'
    BY <1>1, <1>8 DEF AdminLoginEnds, IInv, TabOK, caches, NoSession
  <2> QED
    BY <1>1, <1>2, <2>1, <2>2, AdminLoginEndsStep
<1> QED
  BY <1>4, <1>5, <1>6, <1>7, <1>8 DEF AdminLoginAnswered, Done

-----------------------------------------------------------------------------
(* The shells.                                                             *)

LEMMA DashboardCheckedStep ==
  ASSUME IInv, NEW c \in Slots, DashboardChecked(c)
  PROVE  IInv'
<1>1. /\ path = "dashboard" /\ calls[c].op = "session.me"
      /\ UNCHANGED <<session, caches, codeSent>>
  BY DEF DashboardChecked, Done
<1>2. CASE Go(c, "login")
  <2>1. TabOK'
    BY <1>1, <1>2 DEF Go, IInv, TabOK, caches, Routes
  <2> QED
    BY <1>1, <1>2, <2>1, GoStep DEF Routes
<1>3. CASE ~Go(c, "login")
  <2>1. PICK ans : ans = calls[c].ans
    OBVIOUS
  <2>2. ans.ok => ans.data \in Accounts
    BY <1>1, <2>1 DEF IInv, CallsOK, CallOK, WhoAmI
  <2>3. /\ Settle(c) /\ UNCHANGED path
        /\ ui' = IF ans.ok
                 THEN [ui EXCEPT !.user = ans.data, !.confirmed = ans.data, !.loading = FALSE]
                 ELSE [ui EXCEPT !.error = TRUE, !.loading = FALSE]
    BY <1>3, <2>1 DEF DashboardChecked
  <2>4. ui \in SessionUI /\ FrameTrue
    BY DEF IInv, PageOK
  <2>5. ASSUME ans.ok PROVE PageOK'
    BY <1>1, <2>2, <2>3, <2>4, <2>5 DEF PageOK, SessionUI, FrameTrue, CodeFormNamesAddress
  <2>6. ASSUME ~ans.ok PROVE PageOK'
    BY <1>1, <2>3, <2>4, <2>6 DEF PageOK, SessionUI, FrameTrue, CodeFormNamesAddress
  <2> QED
    BY <1>1, <2>3, <2>5, <2>6, SettleStep DEF IInv, TabOK, caches
<1> QED
  BY <1>2, <1>3

\* The cached administrator is confirmed, replaced, or taken off the screen.
LEMMA AdminCheckedStep ==
  ASSUME IInv, NEW c \in Slots, AdminChecked(c)
  PROVE  IInv'
<1>1. /\ path = "admin" /\ calls[c].op = "session.me"
      /\ UNCHANGED <<session, codeSent>>
  BY DEF AdminChecked, Done
<1>2. PICK ans : ans = calls[c].ans
  OBVIOUS
<1>3. ans.ok => ans.data \in Accounts
  BY <1>1, <1>2 DEF IInv, CallsOK, CallOK, WhoAmI
<1>4. ui \in SessionUI
  BY DEF IInv, PageOK
<1>5. CASE /\ ans.ok /\ cachedAdmin' = TRUE
           /\ ui' = [ui EXCEPT !.user = "admin", !.forbidden = FALSE, !.confirmed = "admin",
                               !.loading = FALSE]
           /\ Await(c, "sync.status", None)
           /\ UNCHANGED <<path, cachedSync>>
  <2>1. TabOK'
    BY <1>1, <1>5 DEF IInv, TabOK
  <2>2. CallsOK'
    BY <1>1, <1>5, AwaitStep DEF OpsOf, SessionOps
  <2>3. PageOK'
    BY <1>1, <1>4, <1>5, SessionAssumption
       DEF PageOK, SessionUI, FrameTrue, CodeFormNamesAddress
  <2> QED
    BY <2>1, <2>2, <2>3 DEF IInv
<1>6. CASE /\ ans.ok /\ cachedAdmin' = FALSE /\ cachedSync' = FALSE
           /\ ui' = [ui EXCEPT !.user = None, !.forbidden = TRUE, !.confirmed = ans.data,
                               !.loading = FALSE]
           /\ Settle(c) /\ UNCHANGED path
  <2>1. TabOK'
    BY <1>1, <1>6 DEF IInv, TabOK
  <2>2. CallsOK'
    BY <1>1, <1>6, SettleStep
  <2>3. PageOK'
    BY <1>1, <1>3, <1>4, <1>6 DEF PageOK, SessionUI, FrameTrue, CodeFormNamesAddress
  <2> QED
    BY <2>1, <2>2, <2>3 DEF IInv
<1>7. CASE cachedAdmin' = FALSE /\ cachedSync' = FALSE /\ Go(c, "admin/login")
  <2>1. TabOK'
    BY <1>1, <1>7 DEF Go, IInv, TabOK, Routes
  <2> QED
    BY <1>1, <1>7, <2>1, GoStep DEF Routes
<1>8. CASE /\ ui' = [ui EXCEPT !.error = TRUE, !.loading = FALSE]
           /\ Settle(c) /\ UNCHANGED <<path, caches>>
  <2>1. TabOK'
    BY <1>1, <1>8 DEF IInv, TabOK, caches
  <2>2. CallsOK'
    BY <1>1, <1>8, SettleStep
  <2>3. PageOK'
    BY <1>1, <1>4, <1>8 DEF PageOK, SessionUI, FrameTrue, CodeFormNamesAddress
  <2> QED
    BY <2>1, <2>2, <2>3 DEF IInv
<1> QED
  BY <1>2, <1>5, <1>6, <1>7, <1>8 DEF AdminChecked

LEMMA SyncAnsweredStep ==
  ASSUME IInv, NEW c \in Slots, SyncAnswered(c)
  PROVE  IInv'
<1>1. /\ calls[c].op = "sync.status" /\ calls[c].mine /\ Settle(c)
      /\ UNCHANGED <<path, session, cachedAdmin, codeSent>>
  BY DEF SyncAnswered, Done
<1>2. PICK ok : ok = calls[c].ans.ok
  OBVIOUS
<1>3. ok \in BOOLEAN
  BY <1>2 DEF IInv, CallsOK, Call, Answer
<1>4. cachedSync' = ok /\ ui' = [ui EXCEPT !.sync = ok]
  BY <1>2 DEF SyncAnswered
<1>5. path = "admin"
  BY <1>1, Owned DEF OpsOf, Routes
<1>6. CallsOK' /\ (Pending({"session.me"}) => Pending({"session.me"})')
  BY <1>1, SettleStep
<1>7. ui \in SessionUI /\ FrameTrue
  BY DEF IInv, PageOK
<1>8. PageOK'
  BY <1>1, <1>3, <1>4, <1>5, <1>6, <1>7 DEF PageOK, SessionUI, FrameTrue, CodeFormNamesAddress
<1> QED
  BY <1>1, <1>3, <1>4, <1>6, <1>8 DEF IInv, TabOK

LEMMA SignOutStep ==
  ASSUME IInv, SignOut
  PROVE  IInv'
<1>1. UNCHANGED <<path, session, codeSent>>
  BY DEF SignOut
<1>2. PICK to \in LoggedTo :
        /\ Send("logout", [session |-> session, to |-> to])
        /\ path \in {"dashboard", "admin"}
        /\ ui' = [ui EXCEPT !.loggingOut = TRUE] \/ UNCHANGED ui
  BY DEF SignOut, LoggedTo, DashboardFrame, AdminFrame, AdminForbiddenState
<1>3. [session |-> session, to |-> to] \in [session : Accounts \cup {None}, to : LoggedTo]
  BY DEF IInv, TabOK, NoSession
<1>4. CallsOK' /\ (Pending({"session.me"}) => Pending({"session.me"})')
  BY <1>1, <1>2, <1>3, SendStep DEF OpsOf, SessionOps, SignIns, WhoAmI, CodeOps
<1>5. ui \in SessionUI /\ FrameTrue
  BY DEF IInv, PageOK
<1>6. ASSUME ui' = [ui EXCEPT !.loggingOut = TRUE] PROVE PageOK'
  <2>1. ASSUME path = "dashboard" PROVE PageOK'
    BY <1>1, <1>4, <1>5, <1>6, <2>1 DEF PageOK, SessionUI, FrameTrue, CodeFormNamesAddress
  <2>2. ASSUME path = "admin" PROVE PageOK'
    BY <1>1, <1>4, <1>5, <1>6, <2>2 DEF PageOK, SessionUI, FrameTrue, CodeFormNamesAddress
  <2> QED
    BY <1>2, <2>1, <2>2
<1>7. ASSUME UNCHANGED ui PROVE PageOK'
  BY <1>1, <1>4, <1>7, SamePage
<1>8. TabOK'
  BY <1>1 DEF SignOut, IInv, TabOK, caches
<1> QED
  BY <1>2, <1>4, <1>6, <1>7, <1>8 DEF IInv

LEMMA SignedOutStep ==
  ASSUME IInv, NEW c \in Slots, SignedOut(c)
  PROVE  IInv'
<1>1. calls[c].op = "logout" /\ UNCHANGED <<caches, codeSent>>
  BY DEF SignedOut, Done
<1>2. PICK p : p = calls[c].arg.to
  OBVIOUS
<1>3. p \in LoggedTo
  BY <1>1, <1>2 DEF IInv, CallsOK, CallOK
<1>4. CASE Settle(c) /\ UNCHANGED <<path, ui>> /\ session' \in {session, NoSession}
  BY <1>1, <1>4, SettleStep, SamePage DEF IInv, TabOK, caches
<1>5. CASE /\ session' = NoSession /\ path' = p /\ ui' = Fresh(p)
           /\ calls' = [Orphaned EXCEPT ![c] =
                IF p = "login" THEN Request("config", None)
                ELSE Request("session.me", NoSession)]
  <2>1. TabOK'
    BY <1>1, <1>3, <1>5 DEF IInv, TabOK, caches, Routes, LoggedTo
  <2>2. PICK new : new = IF p = "login" THEN Request("config", None)
                         ELSE Request("session.me", NoSession)
    OBVIOUS
  <2>3. new \in Call /\ CallOK(new, p, codeSent)
    BY <1>3, <2>2, RequestOK
       DEF OpsOf, SessionOps, SignIns, WhoAmI, CodeOps, LoggedTo, NoSession
  <2> QED
    BY <1>1, <1>3, <1>5, <2>1, <2>2, <2>3, GoneTo DEF Routes, LoggedTo
<1> QED
  BY <1>2, <1>4, <1>5 DEF SignedOut

-----------------------------------------------------------------------------
(* The theorems.                                                           *)

LEMMA NavigateStep ==
  ASSUME IInv, Navigate
  PROVE  IInv'
<1>1. UNCHANGED <<session, caches, codeSent>>
  BY DEF Navigate
<1>2. PICK p \in Routes :
        \/ First(p) # NoCall /\ Mount(p, Fresh(p), First(p).op, First(p).arg)
        \/ First(p) = NoCall /\ path' = p /\ ui' = Fresh(p) /\ calls' = Orphaned
  BY DEF Navigate
<1>3. TabOK' /\ path' = p /\ ui' = Fresh(p)
  BY <1>1, <1>2 DEF Mount, IInv, TabOK, caches
<1>4. CASE p = "reset"
  <2>1. calls' = Orphaned
    BY <1>2, <1>4 DEF First
  <2>2. CallsOK'
    BY <1>1, <1>3, <2>1, Orphans DEF CallsOK
  <2> QED
    BY <1>3, <1>4, <2>2, FreshOK DEF IInv
<1>5. CASE p # "reset"
  <2>1. /\ First(p) \in Call /\ CallOK(First(p), p, codeSent) /\ First(p) # NoCall
        /\ p = "admin" => First(p).op = "session.me" /\ First(p).mine
    BY <1>5, FirstOK
  <2>2. PICK c \in Slots : calls' = [Orphaned EXCEPT ![c] = Request(First(p).op, First(p).arg)]
    BY <1>2, <2>1 DEF Mount, Request
  <2>3. Request(First(p).op, First(p).arg) = First(p)
    BY <1>5 DEF First, Request, Routes
  <2> QED
    BY <1>1, <1>3, <2>1, <2>2, <2>3, GoneTo
<1> QED
  BY <1>4, <1>5

LEMMA InitIInv == Init => IInv
<1> SUFFICES ASSUME Init PROVE IInv
  OBVIOUS
<1>1. TabOK
  BY DEF Init, TabOK, Routes, NoSession
<1>2. PageOK
  BY DEF Init, PageOK, Fresh, SessionUI, FrameTrue, CodeFormNamesAddress, GoogleButton
<1>3. PICK new : new = Request("config", None)
  OBVIOUS
<1>4. NoAnswer \in Answer /\ ~NoAnswer.ok
  BY DEF NoAnswer, Error, Answer
<1>5. new \in Call /\ CallOK(new, "login", codeSent)
  BY <1>3, <1>4 DEF Request, Call, CallOK, SessionOps, OpsOf, SignIns, WhoAmI, CodeOps
<1>6. /\ calls = [c \in Slots |-> IF \A d \in Slots : c <= d THEN new ELSE NoCall]
      /\ path = "login"
  BY <1>3 DEF Init, First
<1>7. CallsOK
  BY <1>5, <1>6, NoCallOK DEF CallsOK
<1> QED
  BY <1>1, <1>2, <1>7 DEF IInv

LEMMA NextIInv == IInv /\ [Next]_vars => IInv'
<1> SUFFICES ASSUME IInv, [Next]_vars PROVE IInv'
  OBVIOUS
<1>1. CASE \/ Navigate \/ SessionEnds
           \/ SignIn \/ VerifySignup \/ TypeEmail \/ RequestCode \/ ChangeEmail \/ ConfirmReset
           \/ SubmitAdminLogin \/ SignOut
  BY <1>1, NavigateStep, SessionEndsStep, SignInStep, TypeEmailStep, RequestCodeStep,
     ChangeEmailStep, SignOutStep
<1>2. ASSUME NEW c \in Slots,
             \/ ServeMe(c) \/ ServeSignIn(c) \/ ServeLogout(c) \/ ServeCode(c) \/ ServeReset(c)
             \/ ServeReads(c) \/ Fails(c)
      PROVE  IInv'
  BY <1>2, ServeMeStep, ServeSignInStep, ServeOthersStep, ServeCodeStep, FailsStep
<1>3. ASSUME NEW c \in Slots,
             \/ GoogleConfigured(c) \/ SignedIn(c) \/ CodeRequested(c) \/ ResetConfirmed(c)
             \/ AdminLoginChecked(c) \/ AdminLoginAnswered(c)
             \/ DashboardChecked(c) \/ AdminChecked(c) \/ SyncAnswered(c) \/ SignedOut(c)
      PROVE  IInv'
  BY <1>3, GoogleConfiguredStep, SignedInStep, CodeRequestedStep, ResetConfirmedStep,
     AdminLoginCheckedStep, AdminLoginAnsweredStep, DashboardCheckedStep, AdminCheckedStep,
     SyncAnsweredStep, SignedOutStep
<1>4. CASE UNCHANGED vars
  <2>1. TabOK' /\ CallsOK' /\ (Pending({"session.me"}) => Pending({"session.me"})')
    BY <1>4 DEF vars, caches, IInv, TabOK, CallsOK, Pending
  <2> QED
    BY <1>4, <2>1, SamePage DEF vars, IInv
<1> QED
  BY <1>1, <1>2, <1>3, <1>4 DEF Next

\* The invariant holds in every behaviour of the tab: what a request under way
\* and its answer are good for, and what the page at path shows.
THEOREM SessionInvariant == Spec => []IInv
BY InitIInv, NextIInv, PTL DEF Spec

\* The page at path has the state that its useState declares, although the
\* continuation that sets it was written by the page that sent the request.
THEOREM SessionTypes == Spec => []TypeOK
<1>1. IInv => TypeOK
  BY DEF IInv, TabOK, CallsOK, PageOK, Call, TypeOK, NoSession
<1> QED
  BY <1>1, SessionInvariant, PTL

\* A shell shows its page to an account that me() has answered since it was
\* mounted, or is about to: DashboardShell and AdminShell with its cache.
THEOREM FrameConfirmed == Spec => []FrameIsConfirmed
<1>1. IInv => FrameIsConfirmed
  BY DEF IInv, PageOK, FrameTrue, FrameIsConfirmed, DashboardFrame, AdminFrame
<1> QED
  BY <1>1, SessionInvariant, PTL

\* The form for the code names an address that the API has sent a code to,
\* on the signup page and on the page that resets a password.
THEOREM CodeFormTrue == Spec => []CodeFormNamesAddress
<1>1. IInv => CodeFormNamesAddress
  BY DEF IInv, PageOK
<1> QED
  BY <1>1, SessionInvariant, PTL
=============================================================================
