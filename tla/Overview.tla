------------------------------ MODULE Overview ------------------------------
(***************************************************************************)
(* The dashboard's first page (app/dashboard/page.tsx) and its settings    *)
(* (app/dashboard/settings/page.tsx), where the password is changed and    *)
(* the session ended.  The settings' logout and the password's change end  *)
(* on the login page, whatever page the reader has gone to meanwhile.      *)
(***************************************************************************)
EXTENDS KeyPage, Billing

\* useState of DashboardPage, SettingsPage and PasswordSecurityCard.
OverviewFresh == [data |-> FALSE, hasKey |-> FALSE, loading |-> TRUE, error |-> FALSE]

SettingsFresh == [user |-> FALSE, loading |-> TRUE, loggingOut |-> FALSE,
                  error |-> FALSE, saving |-> FALSE, refused |-> FALSE]

OverviewState == [data : BOOLEAN, hasKey : BOOLEAN, loading : BOOLEAN, error : BOOLEAN]

SettingsState == [user : BOOLEAN, loading : BOOLEAN, loggingOut : BOOLEAN,
                  error : BOOLEAN, saving : BOOLEAN, refused : BOOLEAN]

LoginState == [signIn : {TRUE}]

OpenOverview == Mount("overview", OverviewFresh, "overview.load", None)

OpenSettings == Mount("settings", SettingsFresh, "settings.me", None)

-----------------------------------------------------------------------------
(* What the pages offer.                                                   *)

\* The settings' cards: neither while loading nor next to an error.
SettingsCards == path = "settings" /\ ~ui.loading /\ ~ui.error /\ ui.user

\* PasswordSecurityCard, for an account that signs in with a password.
PasswordForm == SettingsCards /\ ~ui.saving

\* AccountActionsCard and SessionSecurityCard: the two Sign out buttons.
SignOutButtons == SettingsCards /\ ~ui.loggingOut

-----------------------------------------------------------------------------
(* What the API does.                                                      *)

ServeOverview(c) ==
  /\ \/ Sent(c, "overview.load") /\ Reply(c, Ok(key # NoKey))
     \/ Sent(c, "settings.me") /\ Reply(c, IF signedIn THEN Ok(None) ELSE Error("unauthorized"))
  /\ UNCHANGED <<path, ui, key, orders, signedIn>>

\* POST /v1/auth/change-password ends every session of the account.
ServeChangePassword(c) ==
  /\ Sent(c, "password")
  /\ \/ /\ signedIn
        /\ signedIn' = FALSE
        /\ Reply(c, Ok(None))
     \/ /\ Reply(c, Error("invalid"))
        /\ UNCHANGED signedIn
  /\ UNCHANGED <<path, ui, key, orders>>

\* POST /v1/auth/logout
ServeLogout(c) ==
  /\ Sent(c, "logout")
  /\ signedIn' = FALSE
  /\ Reply(c, Ok(None))
  /\ UNCHANGED <<path, ui, key, orders>>

-----------------------------------------------------------------------------
(* The pages' handlers.                                                    *)

\* load of the two pages, from the error's Retry.
Reload ==
  /\ \/ path = "overview" /\ ui.error /\ Send("overview.load", None)
     \/ path = "settings" /\ ui.error /\ Send("settings.me", None)
  /\ ui' = [ui EXCEPT !.loading = TRUE, !.error = FALSE]
  /\ UNCHANGED <<path, key, orders, signedIn>>

\* DashboardPage: of the four reads only the key's may find nothing; any other
\* failure is an error, next to what an earlier load has shown.
OverviewLoaded(c) ==
  /\ Done(c, "overview.load") /\ calls[c].mine
  /\ LET ans == calls[c].ans IN
     ui' = IF ans.ok
           THEN [ui EXCEPT !.data = TRUE, !.hasKey = ans.data, !.loading = FALSE]
           ELSE [ui EXCEPT !.error = TRUE, !.loading = FALSE]
  /\ Settle(c)
  /\ UNCHANGED <<path, key, orders, signedIn>>

SettingsLoaded(c) ==
  /\ Done(c, "settings.me") /\ calls[c].mine
  /\ ui' = IF calls[c].ans.ok THEN [ui EXCEPT !.user = TRUE, !.loading = FALSE]
           ELSE [ui EXCEPT !.error = TRUE, !.loading = FALSE]
  /\ Settle(c)
  /\ UNCHANGED <<path, key, orders, signedIn>>

\* submit of PasswordSecurityCard; what validatePasswordChange refuses is not
\* sent and changes nothing but the messages at the fields.
SubmitPassword ==
  /\ PasswordForm
  /\ ui' = [ui EXCEPT !.saving = TRUE, !.refused = FALSE]
  /\ Send("password", None)
  /\ UNCHANGED <<path, key, orders, signedIn>>

\* The login page, to which two continuations lead.
ToLogin(c) ==
  /\ path' = "login"
  /\ ui' = [signIn |-> TRUE]
  /\ calls' = [Orphaned EXCEPT ![c] = NoCall]

PasswordChanged(c) ==
  /\ Done(c, "password")
  /\ IF calls[c].ans.ok THEN ToLogin(c)
     ELSE /\ ui' = IF calls[c].mine
                   THEN [ui EXCEPT !.saving = FALSE, !.refused = TRUE] ELSE ui
          /\ Settle(c)
          /\ UNCHANGED path
  /\ UNCHANGED <<key, orders, signedIn>>

SignOut ==
  /\ SignOutButtons
  /\ ui' = [ui EXCEPT !.loggingOut = TRUE]
  /\ Send("logout", None)
  /\ UNCHANGED <<path, key, orders, signedIn>>

\* logout after its await: when the request fails the rejection is nobody's,
\* and the buttons stay disabled.
SignedOut(c) ==
  /\ Done(c, "logout")
  /\ IF calls[c].ans.ok THEN ToLogin(c)
     ELSE Settle(c) /\ UNCHANGED <<path, ui>>
  /\ UNCHANGED <<key, orders, signedIn>>

OverviewNext ==
  \/ Reload \/ SubmitPassword \/ SignOut
  \/ \E c \in Slots :
       \/ ServeOverview(c) \/ ServeChangePassword(c) \/ ServeLogout(c)
       \/ OverviewLoaded(c) \/ SettingsLoaded(c)
       \/ PasswordChanged(c) \/ SignedOut(c)
=============================================================================
