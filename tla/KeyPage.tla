------------------------------ MODULE KeyPage ------------------------------
(***************************************************************************)
(* The API key page of the dashboard (app/dashboard/api-key/page.tsx): it  *)
(* shows the account's latest key, creates, rotates and revokes it, and    *)
(* reveals a raw key once, in the answer that created it.                  *)
(*                                                                         *)
(* A rotation replaces the key, so a key is known by its number: the raw   *)
(* key the page reveals, and the prefix it shows, are both that of a key.  *)
(***************************************************************************)
EXTENDS Tab

CONSTANT MaxKeys   \* bound: keys created

ASSUME MaxKeysAssumption == MaxKeys \in Nat \ {0}

VARIABLE key   \* the latest row of api_keys of the account

KeyStatuses == {"ACTIVE", "SUSPENDED", "REVOKED"}

\* PublicAPIKey
PublicKey == [id : 1 .. MaxKeys, status : KeyStatuses]

NoKey == [id |-> 0, status |-> None]

Usable(k) == k.status \in {"ACTIVE", "SUSPENDED"}

NewKey == [id |-> key.id + 1, status |-> "ACTIVE"]

\* useState of the page.
KeyFresh == [apiKey |-> NoKey, rawKey |-> 0, loading |-> TRUE, busy |-> FALSE,
             error |-> FALSE, notice |-> None, confirm |-> None]

KeyState ==
  [apiKey : PublicKey \cup {NoKey}, rawKey : 0 .. MaxKeys, loading : BOOLEAN,
   busy : BOOLEAN, error : BOOLEAN, notice : {None, "created", "rotated", "revoked"},
   confirm : {None, "rotate", "revoke"}]

OpenKeyPage == Mount("api-key", KeyFresh, "key.get", None)

-----------------------------------------------------------------------------
(* What the page offers.                                                   *)

\* The summary, the reveal card and the cards below are rendered only when
\* nothing loads and no error is shown.
KeyCards == path = "api-key" /\ ~ui.loading /\ ~ui.error

\* The header's button: it asks to rotate even while the cards are hidden.
HeaderRotates == path = "api-key" /\ Usable(ui.apiKey) /\ ~ui.busy

\* CurrentKeyCard: the buttons that ask for confirmation.
CurrentKeyCard == [rotate |-> KeyCards /\ Usable(ui.apiKey) /\ ~ui.busy,
                   revoke |-> KeyCards /\ Usable(ui.apiKey) /\ ~ui.busy]

\* ConfirmPanel, inside the card of the current key.
ConfirmPanel == KeyCards /\ ui.apiKey # NoKey /\ ui.confirm # None /\ ~ui.busy

\* RawKeyRevealCard
RawKeyRevealed == KeyCards /\ ui.rawKey # 0

\* CreateOrSecurityCard: the form is there when the key shown is no use.
CreateForm == KeyCards /\ ~Usable(ui.apiKey) /\ ~ui.busy

-----------------------------------------------------------------------------
(* What the API does.                                                      *)

ServeKeyGet(c) ==
  /\ Sent(c, "key.get")
  /\ Reply(c, IF key = NoKey THEN Error("not_found") ELSE Ok(key))
  /\ UNCHANGED <<path, ui, key>>

\* POST /v1/api-key: one usable key an account.
ServeKeyCreate(c) ==
  /\ Sent(c, "key.create")
  /\ \/ /\ ~Usable(key) /\ key.id < MaxKeys
        /\ key' = NewKey
        /\ Reply(c, Ok(key'))
     \/ /\ Usable(key)
        /\ Reply(c, Error("conflict"))
        /\ UNCHANGED key
  /\ UNCHANGED <<path, ui>>

\* POST /v1/api-key/rotate revokes the usable key and creates another.
ServeKeyRotate(c) ==
  /\ Sent(c, "key.rotate")
  /\ \/ /\ Usable(key) /\ key.id < MaxKeys
        /\ key' = NewKey
        /\ Reply(c, Ok(key'))
     \/ /\ ~Usable(key)
        /\ Reply(c, Error("not_found"))
        /\ UNCHANGED key
  /\ UNCHANGED <<path, ui>>

\* DELETE /v1/api-key
ServeKeyRevoke(c) ==
  /\ Sent(c, "key.revoke")
  /\ IF Usable(key)
     THEN /\ key' = [key EXCEPT !.status = "REVOKED"]
          /\ Reply(c, Ok(key'))
     ELSE /\ Reply(c, Error("not_found"))
          /\ UNCHANGED key
  /\ UNCHANGED <<path, ui>>

\* An administrator, or the billing of usage, moves the key.
KeyMoves ==
  /\ Usable(key)
  /\ \E s \in KeyStatuses \ {key.status} : key' = [key EXCEPT !.status = s]
  /\ UNCHANGED <<path, ui, calls>>

-----------------------------------------------------------------------------
(* The page's handlers.                                                    *)

\* load, from the error's Retry.
LoadKey ==
  /\ path = "api-key" /\ ui.error
  /\ ui' = [ui EXCEPT !.loading = TRUE, !.error = FALSE]
  /\ Send("key.get", None)
  /\ UNCHANGED <<path, key>>

\* An account without a key is no error.
KeyLoaded(c) ==
  /\ Done(c, "key.get") /\ calls[c].mine
  /\ LET ans == calls[c].ans IN
     ui' = CASE ans.ok                -> [ui EXCEPT !.apiKey = ans.data, !.loading = FALSE]
             [] ans.why = "not_found" -> [ui EXCEPT !.apiKey = NoKey, !.loading = FALSE]
             [] OTHER                 -> [ui EXCEPT !.error = TRUE, !.loading = FALSE]
  /\ Settle(c)
  /\ UNCHANGED <<path, key>>

\* The start of create, rotate and revoke.
Busy == [ui EXCEPT !.busy = TRUE, !.error = FALSE, !.notice = None]

\* create
CreateKey ==
  /\ CreateForm
  /\ ui' = [Busy EXCEPT !.confirm = None]
  /\ Send("key.create", None)
  /\ UNCHANGED <<path, key>>

AskKeyAction ==
  /\ \/ HeaderRotates /\ ui' = [ui EXCEPT !.confirm = "rotate"]
     \/ CurrentKeyCard.rotate /\ ui' = [ui EXCEPT !.confirm = "rotate"]
     \/ CurrentKeyCard.revoke /\ ui' = [ui EXCEPT !.confirm = "revoke"]
  /\ UNCHANGED <<path, calls, key>>

CancelKeyAction ==
  /\ ConfirmPanel
  /\ ui' = [ui EXCEPT !.confirm = None]
  /\ UNCHANGED <<path, calls, key>>

\* confirmPendingAction: rotate or revoke.
ConfirmKeyAction ==
  /\ ConfirmPanel
  /\ ui' = Busy
  /\ Send(IF ui.confirm = "rotate" THEN "key.rotate" ELSE "key.revoke", None)
  /\ UNCHANGED <<path, key>>

\* The catch of all three, then their finally.
KeyActionFailed == [ui EXCEPT !.error = TRUE, !.busy = FALSE]

\* (Faulty: only success clears the busy flag.)
KeyCreatedStaysBusy(c) ==
  /\ Done(c, "key.create") /\ calls[c].mine
  /\ LET ans == calls[c].ans IN
     ui' = IF ans.ok
           THEN [ui EXCEPT !.apiKey = ans.data, !.rawKey = ans.data.id,
                           !.notice = "created", !.busy = FALSE]
           ELSE [ui EXCEPT !.error = TRUE]
  /\ Settle(c)
  /\ UNCHANGED <<path, key>>

KeyCreated(c) ==
  /\ Done(c, "key.create") /\ calls[c].mine
  /\ LET ans == calls[c].ans IN
     ui' = IF ans.ok
           THEN [ui EXCEPT !.apiKey = ans.data, !.rawKey = ans.data.id,
                           !.notice = "created", !.busy = FALSE]
           ELSE KeyActionFailed
  /\ Settle(c)
  /\ UNCHANGED <<path, key>>

KeyRotated(c) ==
  /\ Done(c, "key.rotate") /\ calls[c].mine
  /\ LET ans == calls[c].ans IN
     ui' = IF ans.ok
           THEN [ui EXCEPT !.apiKey = ans.data, !.rawKey = ans.data.id,
                           !.notice = "rotated", !.confirm = None, !.busy = FALSE]
           ELSE KeyActionFailed
  /\ Settle(c)
  /\ UNCHANGED <<path, key>>

KeyRevoked(c) ==
  /\ Done(c, "key.revoke") /\ calls[c].mine
  /\ LET ans == calls[c].ans IN
     ui' = IF ans.ok
           THEN [ui EXCEPT !.apiKey = ans.data, !.rawKey = 0,
                           !.notice = "revoked", !.confirm = None, !.busy = FALSE]
           ELSE KeyActionFailed
  /\ Settle(c)
  /\ UNCHANGED <<path, key>>

\* The button "I have copied this key".
DismissRawKey ==
  /\ RawKeyRevealed
  /\ ui' = [ui EXCEPT !.rawKey = 0]
  /\ UNCHANGED <<path, calls, key>>

KeyPageNext ==
  \/ KeyMoves \/ LoadKey \/ CreateKey \/ AskKeyAction \/ CancelKeyAction
  \/ ConfirmKeyAction \/ DismissRawKey
  \/ \E c \in Slots :
       \/ ServeKeyGet(c) \/ ServeKeyCreate(c) \/ ServeKeyRotate(c) \/ ServeKeyRevoke(c)
       \/ KeyLoaded(c) \/ KeyCreated(c) \/ KeyRotated(c) \/ KeyRevoked(c)
=============================================================================
