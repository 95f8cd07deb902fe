------------------------------ MODULE Session ------------------------------
(***************************************************************************)
(* How a tab gets, checks and ends its session: the login, signup, reset   *)
(* and administrator's login pages (app/login, app/signup,                 *)
(* app/password-reset, app/admin/login), and the two shells that ask who   *)
(* is signed in before they show a page (components/DashboardShell.tsx,    *)
(* AdminShell.tsx).  AdminShell shows the administrator it saw last while  *)
(* it asks; that cache outlives its pages.  Sign-ins and sign-outs go on   *)
(* to the router even when the reader has left the page.                   *)
(***************************************************************************)
EXTENDS Tab

CONSTANTS
  Accounts,   \* the accounts, which are "customer" and "admin"
  Emails      \* the addresses typed into the signup and reset forms

ASSUME SessionAssumption == Accounts = {"customer", "admin"}

VARIABLES
  session,     \* the account of the session in the tab's cookie
  cachedAdmin, \* AdminShell's cachedAdminUser is an administrator
  cachedSync,  \* and its cachedSyncStatus a status
  codeSent     \* the addresses a code was sent to, as far as the API says

caches == <<cachedAdmin, cachedSync>>

vars == <<path, ui, calls, session, caches, codeSent>>

NoSession == None

Routes == {"login", "signup", "reset", "admin/login", "dashboard", "admin"}

\* GoogleAuthButton: while it loads its configuration, with it, without it.
GoogleButton == {"loading", "ready", "failed"}

\* useState of the pages.  confirmed is no state of the code: the account
\* me() has answered to the shell since it was mounted.
Fresh(p) ==
  CASE p = "login"       -> [google |-> "loading", loading |-> FALSE, error |-> FALSE]
    [] p = "signup"      -> [google |-> "loading", loading |-> FALSE, error |-> FALSE,
                             verificationSent |-> FALSE, email |-> None]
    [] p = "reset"       -> [step |-> "request", email |-> None, loading |-> FALSE, error |-> FALSE]
    [] p = "admin/login" -> [checking |-> TRUE, loading |-> FALSE, error |-> None]
    [] p = "dashboard"   -> [user |-> None, loading |-> TRUE, error |-> FALSE,
                             loggingOut |-> FALSE, confirmed |-> None]
    [] p = "admin"       -> [user |-> IF cachedAdmin THEN "admin" ELSE None,
                             sync |-> cachedSync, loading |-> ~cachedAdmin, forbidden |-> FALSE,
                             error |-> FALSE, loggingOut |-> FALSE, confirmed |-> None]

SessionUI ==
  CASE path = "login"       -> [google : GoogleButton, loading : BOOLEAN, error : BOOLEAN]
    [] path = "signup"      -> [google : GoogleButton, loading : BOOLEAN, error : BOOLEAN,
                                verificationSent : BOOLEAN, email : Emails \cup {None}]
    [] path = "reset"       -> [step : {"request", "confirm", "success"},
                                email : Emails \cup {None}, loading : BOOLEAN, error : BOOLEAN]
    [] path = "admin/login" -> [checking : BOOLEAN, loading : BOOLEAN,
                                error : {None, "no access", "failed"}]
    [] path = "dashboard"   -> [user : Accounts \cup {None}, loading : BOOLEAN, error : BOOLEAN,
                                loggingOut : BOOLEAN, confirmed : Accounts \cup {None}]
    [] path = "admin"       -> [user : {"admin", None}, sync : BOOLEAN, loading : BOOLEAN,
                                forbidden : BOOLEAN, error : BOOLEAN, loggingOut : BOOLEAN,
                                confirmed : Accounts \cup {None}]

Request(op, arg) == [op |-> op, arg |-> arg, st |-> "sent", ans |-> NoAnswer, mine |-> TRUE]

\* What the effects of page p ask for; a request leaves with the cookie of now.
First(p) ==
  CASE p \in {"login", "signup"} -> Request("config", None)
    [] p = "reset"               -> NoCall
    [] p \in {"admin/login", "dashboard", "admin"} -> Request("session.me", session)

\* The continuation c goes to page p; when the tab is there, nothing changes.
Go(c, p) ==
  IF path = p /\ ~calls[c].mine THEN Settle(c) /\ UNCHANGED <<path, ui>>
  ELSE /\ path' = p
       /\ ui' = Fresh(p)
       /\ calls' = [Orphaned EXCEPT ![c] = First(p)]

-----------------------------------------------------------------------------
(* What the pages offer.                                                   *)

\* The forms wait for the request they sent; Google's button does not.
LoginForm == path = "login" /\ ~ui.loading

GoogleAuthButton ==
  /\ path \in {"login", "signup"}
  /\ ui.google = "ready"
  /\ path = "signup" => ~ui.verificationSent

EmailForm == path = "signup" /\ ~ui.loading /\ ~ui.verificationSent

CodeForm == path = "signup" /\ ~ui.loading /\ ui.verificationSent

ResetForm(step) == path = "reset" /\ ~ui.loading /\ ui.step = step

SigningIn == path = "admin/login" /\ (ui.loading \/ ui.checking)

\* The shells' frames, around the page that is their child.
DashboardFrame == path = "dashboard" /\ ~ui.loading /\ ~ui.error /\ ui.user # None

AdminFrame ==
  path = "admin" /\ ~ui.loading /\ ~ui.error /\ ~ui.forbidden /\ ui.user # None

AdminForbiddenState == path = "admin" /\ ~ui.loading /\ ~ui.error /\ ui.forbidden

-----------------------------------------------------------------------------
(* What the API does.                                                      *)

\* GET /v1/me: the session that the request left with may have been ended or
\* replaced, and one that was replaced may be good still.
ServeMe(c) ==
  /\ Sent(c, "session.me") \/ Sent(c, "admin.me")
  /\ \/ /\ calls[c].arg # NoSession
        /\ Reply(c, Ok(calls[c].arg))
     \/ /\ calls[c].arg = NoSession \/ calls[c].arg # session
        /\ Reply(c, Error("unauthorized"))
  /\ UNCHANGED <<path, ui, session, caches, codeSent>>

\* The sign-ins: the answer's cookie holds the new session.
ServeSignIn(c) ==
  /\ \E op \in {"login", "google", "signup.verify", "admin.login"} : Sent(c, op)
  /\ \/ Reply(c, Ok(calls[c].arg))
     \/ Reply(c, Error("invalid"))
  /\ UNCHANGED <<path, ui, session, caches, codeSent>>

\* POST /v1/auth/logout revokes the session, if there is one still.
ServeLogout(c) ==
  /\ Sent(c, "logout") \/ Sent(c, "admin.logout")
  /\ session' = IF calls[c].arg.session = session THEN NoSession ELSE session
  /\ Reply(c, Ok(None))
  /\ UNCHANGED <<path, ui, caches, codeSent>>

\* Signup and password reset: a code to the address, or a refusal.
ServeCode(c) ==
  /\ Sent(c, "signup.request") \/ Sent(c, "reset.request")
  /\ \/ /\ codeSent' = codeSent \cup {calls[c].arg}
        /\ Reply(c, Ok(calls[c].arg))
     \/ /\ Reply(c, Error("refused"))
        /\ UNCHANGED codeSent
  /\ UNCHANGED <<path, ui, session, caches>>

\* The reset ends the sessions of its account, the tab's maybe among them.
ServeReset(c) ==
  /\ Sent(c, "reset.confirm")
  /\ \/ session' \in {session, NoSession} /\ Reply(c, Ok(None))
     \/ Reply(c, Error("invalid")) /\ UNCHANGED session
  /\ UNCHANGED <<path, ui, caches, codeSent>>

\* The public configuration, and the status of the usage sync.
ServeReads(c) ==
  /\ Sent(c, "config") \/ Sent(c, "sync.status")
  /\ Reply(c, Ok(None))
  /\ UNCHANGED <<path, ui, session, caches, codeSent>>

\* The session expires, or is ended from another browser.
SessionEnds ==
  /\ session # NoSession
  /\ session' = NoSession
  /\ UNCHANGED <<path, ui, calls, caches, codeSent>>

-----------------------------------------------------------------------------
(* Signing in, on the login and signup pages.                              *)

\* GoogleAuthButton's effects: its configuration, then Google's script.
GoogleConfigured(c) ==
  /\ Done(c, "config") /\ calls[c].mine
  /\ \E state \in {"ready", "failed"} :
       /\ state = "ready" => calls[c].ans.ok
       /\ ui' = [ui EXCEPT !.google = state]
  /\ Settle(c)
  /\ UNCHANGED <<path, session, caches, codeSent>>

Submit(op, arg) ==
  /\ ui' = IF path = "admin/login" THEN [ui EXCEPT !.loading = TRUE, !.error = None]
           ELSE [ui EXCEPT !.loading = TRUE, !.error = FALSE]
  /\ Send(op, arg)
  /\ UNCHANGED <<path, session, caches, codeSent>>

\* submit of the login page, and continueWithGoogle.
SignIn ==
  \E a \in Accounts : \/ LoginForm /\ Submit("login", a)
                      \/ GoogleAuthButton /\ Submit("google", a)

\* verifySignup
VerifySignup == CodeForm /\ Submit("signup.verify", "customer")

\* The cookie is stored as the answer arrives; then the router pushes.
SignedIn(c) ==
  /\ \E op \in {"login", "google", "signup.verify"} : Done(c, op)
  /\ IF calls[c].ans.ok
     THEN /\ session' = calls[c].ans.data
          /\ \/ /\ path = "dashboard"
                /\ Settle(c)
                /\ UNCHANGED <<path, ui>>
             \/ /\ path # "dashboard"
                /\ path' = "dashboard"
                /\ ui' = Fresh("dashboard")
                /\ calls' = [Orphaned EXCEPT ![c] = Request("session.me", session')]
     ELSE /\ ui' = IF calls[c].mine THEN [ui EXCEPT !.loading = FALSE, !.error = TRUE] ELSE ui
          /\ Settle(c)
          /\ UNCHANGED <<path, session>>
  /\ UNCHANGED <<caches, codeSent>>

-----------------------------------------------------------------------------
(* Codes, on the signup and reset pages.                                   *)

TypeEmail ==
  /\ EmailForm \/ ResetForm("request")
  /\ \E e \in Emails \ {ui.email} : ui' = [ui EXCEPT !.email = e]
  /\ UNCHANGED <<path, calls, session, caches, codeSent>>

\* requestSignupOTP and requestReset, from the form or from Resend code.
RequestCode ==
  \/ (EmailForm \/ CodeForm) /\ ui.email # None /\ Submit("signup.request", ui.email)
  \/ (ResetForm("request") \/ ResetForm("confirm")) /\ ui.email # None
     /\ Submit("reset.request", ui.email)

\* (Faulty: the form's address is taken to be the one the code was sent to.)
CodeRequestedForForm(c) ==
  /\ Done(c, "signup.request") \/ Done(c, "reset.request")
  /\ calls[c].mine
  /\ ui' = CASE ~calls[c].ans.ok   -> [ui EXCEPT !.error = TRUE, !.loading = FALSE]
             [] path = "signup"    -> [ui EXCEPT !.verificationSent = TRUE, !.loading = FALSE]
             [] path = "reset"     -> [ui EXCEPT !.step = "confirm", !.loading = FALSE]
  /\ Settle(c)
  /\ UNCHANGED <<path, session, caches, codeSent>>

CodeRequested(c) ==
  /\ Done(c, "signup.request") \/ Done(c, "reset.request")
  /\ calls[c].mine
  /\ LET ans == calls[c].ans IN
     ui' = CASE ~ans.ok          -> [ui EXCEPT !.error = TRUE, !.loading = FALSE]
             [] ans.ok /\ path = "signup" ->
                  [ui EXCEPT !.email = ans.data, !.verificationSent = TRUE, !.loading = FALSE]
             [] ans.ok /\ path = "reset"  ->
                  [ui EXCEPT !.email = ans.data, !.step = "confirm", !.loading = FALSE]
  /\ Settle(c)
  /\ UNCHANGED <<path, session, caches, codeSent>>

\* Change email: back to the first form; the signup's Google button is
\* mounted again.
ChangeEmail ==
  /\ \/ /\ CodeForm
        /\ ui' = [ui EXCEPT !.verificationSent = FALSE, !.error = FALSE, !.google = "loading"]
        /\ Send("config", None)
     \/ /\ ResetForm("confirm")
        /\ ui' = [ui EXCEPT !.step = "request", !.error = FALSE]
        /\ UNCHANGED calls
  /\ UNCHANGED <<path, session, caches, codeSent>>

\* confirmReset
ConfirmReset == ResetForm("confirm") /\ Submit("reset.confirm", ui.email)

ResetConfirmed(c) ==
  /\ Done(c, "reset.confirm") /\ calls[c].mine
  /\ ui' = IF calls[c].ans.ok THEN [ui EXCEPT !.step = "success", !.loading = FALSE]
           ELSE [ui EXCEPT !.error = TRUE, !.loading = FALSE]
  /\ Settle(c)
  /\ UNCHANGED <<path, session, caches, codeSent>>

-----------------------------------------------------------------------------
(* The administrator's login.                                              *)

\* (Faulty: a visitor without a session is told so.)
AdminLoginCheckedTelling(c) ==
  /\ path = "admin/login" /\ Done(c, "session.me") /\ calls[c].mine
  /\ LET ans == calls[c].ans IN
     IF ans.ok /\ ans.data = "admin" THEN Go(c, "admin")
     ELSE /\ ui' = [ui EXCEPT !.checking = FALSE, !.error = IF ans.ok THEN "no access" ELSE ans.why]
          /\ Settle(c)
          /\ UNCHANGED path
  /\ UNCHANGED <<session, caches, codeSent>>

\* The effect: an administrator's session goes on to the console.
AdminLoginChecked(c) ==
  /\ path = "admin/login" /\ Done(c, "session.me") /\ calls[c].mine
  /\ LET ans == calls[c].ans IN
     IF ans.ok /\ ans.data = "admin" THEN Go(c, "admin")
     ELSE /\ ui' = [ui EXCEPT !.checking = FALSE,
                              !.error = IF ans.ok THEN "no access"
                                        ELSE IF ans.why = "unauthorized" THEN @ ELSE "failed"]
          /\ Settle(c)
          /\ UNCHANGED path
  /\ UNCHANGED <<session, caches, codeSent>>

\* submit: login, then me, then for a customer logout.
SubmitAdminLogin ==
  path = "admin/login" /\ ~SigningIn /\ \E a \in Accounts : Submit("admin.login", a)

AdminLoginEnds(c, error) ==
  /\ ui' = IF calls[c].mine THEN [ui EXCEPT !.loading = FALSE, !.error = error] ELSE ui
  /\ Settle(c)
  /\ UNCHANGED path

AdminLoginAnswered(c) ==
  /\ \/ /\ Done(c, "admin.login")
        /\ \/ /\ calls[c].ans.ok
              /\ session' = calls[c].ans.data
              /\ Await(c, "admin.me", session')
              /\ UNCHANGED <<path, ui>>
           \/ ~calls[c].ans.ok /\ AdminLoginEnds(c, "failed") /\ UNCHANGED session
     \/ /\ Done(c, "admin.me")
        /\ \/ calls[c].ans.ok /\ calls[c].ans.data = "admin" /\ Go(c, "admin")
           \/ /\ calls[c].ans.ok /\ calls[c].ans.data # "admin"
              /\ Await(c, "admin.logout", [session |-> session, to |-> None])
              /\ UNCHANGED <<path, ui>>
           \/ ~calls[c].ans.ok /\ AdminLoginEnds(c, "failed")
        /\ UNCHANGED session
     \/ /\ Done(c, "admin.logout")
        /\ session' = IF calls[c].ans.ok THEN NoSession ELSE session
        /\ AdminLoginEnds(c, IF calls[c].ans.ok THEN "no access" ELSE "failed")
  /\ UNCHANGED <<caches, codeSent>>

-----------------------------------------------------------------------------
(* The shells.                                                             *)

\* DashboardShell's effect.
DashboardChecked(c) ==
  /\ path = "dashboard" /\ Done(c, "session.me") /\ calls[c].mine
  /\ LET ans == calls[c].ans IN
     IF ~ans.ok /\ ans.why = "unauthorized" THEN Go(c, "login")
     ELSE /\ ui' = IF ans.ok
                   THEN [ui EXCEPT !.user = ans.data, !.confirmed = ans.data, !.loading = FALSE]
                   ELSE [ui EXCEPT !.error = TRUE, !.loading = FALSE]
          /\ Settle(c)
          /\ UNCHANGED path
  /\ UNCHANGED <<session, caches, codeSent>>

\* (Faulty: a failure does not disturb the administrator that is shown.)
AdminCheckedKeepingUser(c) ==
  /\ path = "admin" /\ Done(c, "session.me") /\ calls[c].mine
  /\ LET ans == calls[c].ans IN
     /\ ui' = CASE ans.ok /\ ans.data = "admin" ->
                     [ui EXCEPT !.user = "admin", !.confirmed = "admin", !.loading = FALSE]
                [] ans.ok /\ ans.data # "admin" ->
                     [ui EXCEPT !.user = None, !.forbidden = TRUE, !.confirmed = ans.data,
                                !.loading = FALSE]
                [] ~ans.ok -> [ui EXCEPT !.error = (ui.user = None), !.loading = FALSE]
     /\ cachedAdmin' = (ans.ok /\ ans.data = "admin")
     /\ Settle(c)
  /\ UNCHANGED <<path, session, cachedSync, codeSent>>

\* AdminShell's effect: the cache is set, or cleared; an administrator's
\* frame then asks for the status of the usage sync.
AdminChecked(c) ==
  /\ path = "admin" /\ Done(c, "session.me") /\ calls[c].mine
  /\ LET ans == calls[c].ans IN
     \/ /\ ans.ok /\ ans.data = "admin"
        /\ cachedAdmin' = TRUE
        /\ ui' = [ui EXCEPT !.user = "admin", !.forbidden = FALSE, !.confirmed = "admin",
                            !.loading = FALSE]
        /\ Await(c, "sync.status", None)
        /\ UNCHANGED <<path, cachedSync>>
     \/ /\ ans.ok /\ ans.data # "admin"
        /\ cachedAdmin' = FALSE /\ cachedSync' = FALSE
        /\ ui' = [ui EXCEPT !.user = None, !.forbidden = TRUE, !.confirmed = ans.data,
                            !.loading = FALSE]
        /\ Settle(c)
        /\ UNCHANGED path
     \/ /\ ~ans.ok /\ ans.why = "unauthorized"
        /\ cachedAdmin' = FALSE /\ cachedSync' = FALSE
        /\ Go(c, "admin/login")
     \/ /\ ~ans.ok /\ ans.why # "unauthorized"
        /\ ui' = [ui EXCEPT !.error = TRUE, !.loading = FALSE]
        /\ Settle(c)
        /\ UNCHANGED <<path, caches>>
  /\ UNCHANGED <<session, codeSent>>

SyncAnswered(c) ==
  /\ Done(c, "sync.status") /\ calls[c].mine
  /\ cachedSync' = calls[c].ans.ok
  /\ ui' = [ui EXCEPT !.sync = calls[c].ans.ok]
  /\ Settle(c)
  /\ UNCHANGED <<path, session, cachedAdmin, codeSent>>

\* Sign out, of DashboardFrame, of AdminFrame and AdminForbiddenState, which
\* clear the caches first, and of the header around the latter, which is
\* never disabled.
SignOut ==
  LET out(to) == Send("logout", [session |-> session, to |-> to]) IN
  /\ \/ /\ DashboardFrame /\ ~ui.loggingOut
        /\ ui' = [ui EXCEPT !.loggingOut = TRUE]
        /\ out("login")
        /\ UNCHANGED caches
     \/ /\ (AdminFrame \/ AdminForbiddenState) /\ ~ui.loggingOut
        /\ ui' = [ui EXCEPT !.loggingOut = TRUE]
        /\ cachedAdmin' = FALSE /\ cachedSync' = FALSE
        /\ out("admin/login")
     \/ /\ AdminForbiddenState
        /\ out("admin/login")
        /\ UNCHANGED <<ui, caches>>
  /\ UNCHANGED <<path, session, codeSent>>

\* The answer clears the cookie, whosever it is by now; a sign-out that
\* failed is forgotten, and its button stays disabled.
SignedOut(c) ==
  /\ Done(c, "logout")
  /\ IF calls[c].ans.ok
     THEN /\ session' = NoSession
          /\ LET p == calls[c].arg.to IN
             \/ path = p /\ Settle(c) /\ UNCHANGED <<path, ui>>
             \/ /\ path # p
                /\ path' = p
                /\ ui' = Fresh(p)
                /\ calls' = [Orphaned EXCEPT ![c] =
                     IF p = "login" THEN Request("config", None)
                     ELSE Request("session.me", NoSession)]
     ELSE Settle(c) /\ UNCHANGED <<path, ui, session>>
  /\ UNCHANGED <<caches, codeSent>>

-----------------------------------------------------------------------------
Init ==
  /\ session \in Accounts \cup {NoSession}
  /\ path = "login" /\ ui = Fresh("login")
  /\ calls = [c \in Slots |-> IF \A d \in Slots : c <= d THEN First("login") ELSE NoCall]
  /\ cachedAdmin = FALSE /\ cachedSync = FALSE
  /\ codeSent = {}

\* A link, or the browser's Back: within the tab, so that the caches stay.
\* Another page of a shell mounts the shell again.
Navigate ==
  /\ \E p \in Routes :
       /\ p = path => p \in {"dashboard", "admin"}
       /\ \/ /\ First(p) # NoCall
             /\ Mount(p, Fresh(p), First(p).op, First(p).arg)
          \/ /\ First(p) = NoCall
             /\ path' = p /\ ui' = Fresh(p) /\ calls' = Orphaned
  /\ UNCHANGED <<session, caches, codeSent>>

Fails(c) == Lost(c) /\ UNCHANGED <<session, caches, codeSent>>

Next ==
  \/ Navigate \/ SessionEnds
  \/ SignIn \/ VerifySignup \/ TypeEmail \/ RequestCode \/ ChangeEmail \/ ConfirmReset
  \/ SubmitAdminLogin \/ SignOut
  \/ \E c \in Slots :
       \/ ServeMe(c) \/ ServeSignIn(c) \/ ServeLogout(c) \/ ServeCode(c) \/ ServeReset(c)
       \/ ServeReads(c) \/ Fails(c)
       \/ GoogleConfigured(c) \/ SignedIn(c) \/ CodeRequested(c) \/ ResetConfirmed(c)
       \/ AdminLoginChecked(c) \/ AdminLoginAnswered(c)
       \/ DashboardChecked(c) \/ AdminChecked(c) \/ SyncAnswered(c) \/ SignedOut(c)

Spec == Init /\ [][Next]_vars

-----------------------------------------------------------------------------
(* Properties.                                                             *)

SessionOps ==
  {"config", "session.me", "login", "google", "signup.request", "signup.verify",
   "reset.request", "reset.confirm", "admin.login", "admin.me", "admin.logout", "logout",
   "sync.status"}

\* Type invariant: the page at path has the state its useState declares.
TypeOK ==
  /\ path \in Routes
  /\ ui \in SessionUI
  /\ \A c \in Slots :
       /\ calls[c].op \in SessionOps \cup {None}
       /\ calls[c].st \in {None, "sent", "done"}
       /\ calls[c].mine \in BOOLEAN
  /\ session \in Accounts \cup {NoSession}
  /\ cachedAdmin \in BOOLEAN /\ cachedSync \in BOOLEAN
  /\ codeSent \subseteq Emails

\* A shell shows its page to an account that me() has answered since it was
\* mounted, or it is about to be answered: AdminShell's cached administrator,
\* whose session may be gone or be another's by now, is confirmed, replaced,
\* or taken off the screen with the answer, even if that is a failure.
FrameIsConfirmed ==
  DashboardFrame \/ AdminFrame =>
    ui.confirmed = ui.user \/ Pending({"session.me"})

\* The form for the code names the address the code was sent to: although
\* Google's failure enables the address field while the code's request is
\* under way, and a late answer then shows the form for the code.
CodeFormNamesAddress ==
  /\ path = "signup" /\ ui.verificationSent => ui.email \in codeSent
  /\ path = "reset" /\ ui.step = "confirm"  => ui.email \in codeSent
=============================================================================
