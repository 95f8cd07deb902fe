----------------------------- MODULE AdminUsers -----------------------------
(***************************************************************************)
(* The administrator's pages of users: the directory                       *)
(* (app/admin/users/page.tsx) and one user (app/admin/users/[id]/page.tsx) *)
(* with the status, the API key, manual top-ups and credit adjustments.    *)
(*                                                                         *)
(* What is typed into a form is an input of the action that submits it: a  *)
(* submit that failed may be repeated with what it held, or with another.  *)
(***************************************************************************)
EXTENDS Tab

CONSTANTS
  NumUsers,      \* the users, oldest last
  References,    \* the providers' references of manual payments
  StatusFilters, \* the status filters, "all" among them
  PageSize,      \* LIMIT
  MaxEntries     \* bound: ledger entries under one reference

ASSUME AdminUsersAssumption ==
  /\ NumUsers \in Nat /\ PageSize \in Nat \ {0} /\ MaxEntries \in Nat
  /\ None \notin References /\ "all" \in StatusFilters

VARIABLES
  account,   \* account[u] : the row of user u and of its API key
  topUps,    \* topUps[r]  : the user of the payment with provider_ref r, or 0
  entries    \* entries[r] : ledger entries of the top-ups submitted under reference r

usersVars == <<account, topUps, entries>>

Users == 1 .. NumUsers

UserStatuses == {"ACTIVE", "SUSPENDED"}

Account == [status : UserStatuses, key : {"none", "ACTIVE", "SUSPENDED", "REVOKED"}]

NoDetail == [status |-> None, key |-> None]

\* AdminUserFilter, and a page of the users it lets through.
UserFilter == [status : StatusFilters, offset : {PageSize * n : n \in 0 .. NumUsers}]

AllUsers == [status |-> "all", offset |-> 0]

UserList(f) ==
  LET found == {u \in Users : f.status \in {"all", account[u].status}}
      before(u) == Cardinality({v \in found : v < u})
  IN [rows   |-> {[id |-> u, status |-> account[u].status] :
                    u \in {v \in found : before(v) \in f.offset .. f.offset + PageSize - 1}},
      offset |-> f.offset,
      total  |-> Cardinality(found)]

\* useState of the two pages.
UsersFresh == [data |-> [rows |-> {}, offset |-> 0, total |-> 0], filters |-> AllUsers,
               loading |-> TRUE, acting |-> 0, error |-> FALSE]

UsersState ==
  [data : [rows : SUBSET [id : Users, status : UserStatuses],
           offset : {PageSize * n : n \in 0 .. NumUsers}, total : 0 .. NumUsers],
   filters : UserFilter, loading : BOOLEAN, acting : 0 .. NumUsers, error : BOOLEAN]

UserFresh(u) == [user |-> u, detail |-> NoDetail, loading |-> TRUE, acting |-> FALSE,
                 error |-> FALSE]

UserState ==
  [user : Users, detail : Account \cup {NoDetail}, loading : BOOLEAN, acting : BOOLEAN,
   error : BOOLEAN]

OpenUsers == Mount("users", UsersFresh, "users.list", AllUsers)

\* The link of a row, or the address of the page.
OpenUser == \E u \in Users : Mount("user", UserFresh(u), "user.get", u)

-----------------------------------------------------------------------------
(* What the pages offer.                                                   *)

\* The directory's filter form and its Refresh.
UsersForm == path = "users" /\ ~ui.loading

\* The table, and the buttons under it.
UsersTable == UsersForm /\ ~ui.error /\ ui.data.rows # {}

UsersPrevious == UsersTable /\ ui.data.offset # 0

UsersNext == UsersTable /\ ui.data.offset + Cardinality(ui.data.rows) < ui.data.total

\* A row's Suspend or Activate: only the user acted on last is busy.
StatusButton(row) == UsersTable /\ row \in ui.data.rows /\ ui.acting # row.id

\* The detail stays on the screen while it reloads, and next to an error.
UserCards == path = "user" /\ ui.detail.status # None /\ ~ui.acting

\* The header's buttons of the user, APIKeyCard, TopUpCard and AdjustmentCard.
UserButton(s) == UserCards /\ ui.detail.status # s

APIKeyCard(act) ==
  /\ UserCards
  /\ ui.detail.key # "none"
  /\ ui.detail.key \notin (CASE act = "suspend" -> {"SUSPENDED"}
                             [] act = "resume"  -> {"ACTIVE", "REVOKED"}
                             [] act = "revoke"  -> {"REVOKED"})

-----------------------------------------------------------------------------
(* What the API does.                                                      *)

ServeUsers(c) ==
  /\ \/ /\ Sent(c, "users.list") \/ Sent(c, "users.relist")
        /\ Reply(c, Ok(UserList(calls[c].arg)))
     \/ /\ Sent(c, "user.get") \/ Sent(c, "user.reload")
        /\ Reply(c, Ok(account[calls[c].arg]))
  /\ UNCHANGED <<path, ui, usersVars>>

\* PATCH /v1/admin/users/{id}/status: suspending a user suspends the key.
ServeUserStatus(c) ==
  /\ Sent(c, "users.status") \/ Sent(c, "user.status")
  /\ LET arg == calls[c].arg IN
     /\ account' = [account EXCEPT ![arg.user] =
          [status |-> arg.status,
           key    |-> IF arg.status = "SUSPENDED" /\ @.key = "ACTIVE" THEN "SUSPENDED" ELSE @.key]]
     /\ Reply(c, Ok(account'[arg.user]))
  /\ UNCHANGED <<path, ui, topUps, entries>>

\* The administrator's suspend, resume and revoke of the usable key; to
\* resume it takes a positive balance.
ServeUserKey(c) ==
  /\ Sent(c, "user.key")
  /\ LET arg == calls[c].arg
         key == account[arg.user].key
         to  == CASE arg.act = "suspend" -> "SUSPENDED"
                  [] arg.act = "resume"  -> "ACTIVE"
                  [] arg.act = "revoke"  -> "REVOKED"
     IN \/ /\ key \in {"ACTIVE", "SUSPENDED"}
           /\ account' = [account EXCEPT ![arg.user].key = to]
           /\ Reply(c, Ok(None))
        \/ /\ key \in {"none", "REVOKED"} \/ arg.act = "resume"
           /\ Reply(c, Error("refused"))
           /\ UNCHANGED account
  /\ UNCHANGED <<path, ui, topUps, entries>>

\* A credit may resume a suspended key (ApiKeys).
Credited(u) ==
  \/ account' = account
  \/ /\ account[u].key = "SUSPENDED"
     /\ account' = [account EXCEPT ![u].key = "ACTIVE"]

\* ManualTopUp: the idempotency key is the payment's provider_ref, and a
\* payment that has it already is answered again, or refused to another user.
ServeTopUp(c) ==
  /\ Sent(c, "user.topup")
  /\ LET arg == calls[c].arg
         row == IF arg.key \in References THEN topUps[arg.key] ELSE 0
     IN \/ /\ row = 0 /\ \A r \in References : entries[r] < MaxEntries
           /\ topUps' = [r \in References |-> IF r = arg.key THEN arg.user ELSE topUps[r]]
           /\ entries' = [r \in References |-> entries[r] + IF r = arg.reference THEN 1 ELSE 0]
           /\ Credited(arg.user)
           /\ Reply(c, Ok(None))
        \/ /\ row # 0
           /\ Reply(c, IF row = arg.user THEN Ok(None) ELSE Error("conflict"))
           /\ UNCHANGED usersVars
  /\ UNCHANGED <<path, ui>>

\* AdjustCredits: a credit or a debit under a key of its own, or a refusal.
ServeAdjustment(c) ==
  /\ Sent(c, "user.adjust")
  /\ \E ans \in {Ok(None), Error("refused")} : Reply(c, ans)
  /\ UNCHANGED <<path, ui, usersVars>>

-----------------------------------------------------------------------------
(* The directory's handlers.                                               *)

\* load
LoadUsers(f) ==
  /\ ui' = [ui EXCEPT !.loading = TRUE, !.error = FALSE]
  /\ Send("users.list", f)
  /\ UNCHANGED <<path, usersVars>>

\* submit and resetFilters
ApplyUserFilters ==
  UsersForm /\ \E s \in StatusFilters : LoadUsers([status |-> s, offset |-> 0])

\* The header's Refresh, and the error's Retry.
RefreshUsers == UsersForm /\ LoadUsers(ui.filters)

\* (Faulty: Previous does not look where the list is.)
TurnUsersPageUnchecked ==
  UsersTable /\ LoadUsers([ui.filters EXCEPT !.offset = ui.data.offset - PageSize])

TurnUsersPage ==
  \/ UsersPrevious /\ LoadUsers([ui.filters EXCEPT !.offset =
                                   IF ui.data.offset > PageSize THEN ui.data.offset - PageSize ELSE 0])
  \/ UsersNext     /\ LoadUsers([ui.filters EXCEPT !.offset = ui.data.offset + PageSize])

\* The filters are committed with the answer.
UsersLoaded(c) ==
  /\ Done(c, "users.list") /\ calls[c].mine
  /\ LET ans == calls[c].ans IN
     ui' = IF ans.ok
           THEN [ui EXCEPT !.data = ans.data, !.filters = calls[c].arg, !.loading = FALSE]
           ELSE [ui EXCEPT !.error = TRUE, !.loading = FALSE]
  /\ Settle(c)
  /\ UNCHANGED <<path, usersVars>>

\* updateStatus, once it is confirmed; it will list again under the filters
\* of now.
SetStatus ==
  /\ \E row \in ui.data.rows :
       /\ StatusButton(row)
       /\ ui' = [ui EXCEPT !.acting = row.id, !.error = FALSE]
       /\ Send("users.status",
               [user |-> row.id, filters |-> ui.filters,
                status |-> IF row.status = "ACTIVE" THEN "SUSPENDED" ELSE "ACTIVE"])
  /\ UNCHANGED <<path, usersVars>>

StatusSet(c) ==
  /\ Done(c, "users.status") /\ calls[c].mine
  /\ IF calls[c].ans.ok
     THEN Await(c, "users.relist", calls[c].arg.filters) /\ UNCHANGED ui
     ELSE ui' = [ui EXCEPT !.error = TRUE, !.acting = 0] /\ Settle(c)
  /\ UNCHANGED <<path, usersVars>>

\* (Faulty: the button is released where the list is set, not in the end.)
RelistedWhenOk(c) ==
  /\ Done(c, "users.relist") /\ calls[c].mine
  /\ ui' = IF calls[c].ans.ok THEN [ui EXCEPT !.data = calls[c].ans.data, !.acting = 0]
           ELSE [ui EXCEPT !.error = TRUE]
  /\ Settle(c)
  /\ UNCHANGED <<path, usersVars>>

Relisted(c) ==
  /\ Done(c, "users.relist") /\ calls[c].mine
  /\ LET ans == calls[c].ans IN
     ui' = IF ans.ok THEN [ui EXCEPT !.data = ans.data, !.acting = 0]
           ELSE [ui EXCEPT !.error = TRUE, !.acting = 0]
  /\ Settle(c)
  /\ UNCHANGED <<path, usersVars>>

-----------------------------------------------------------------------------
(* The handlers of the page of a user.                                     *)

\* load, from the error's Retry; the cards stay usable meanwhile.
LoadUser ==
  /\ path = "user" /\ ui.error
  /\ ui' = [ui EXCEPT !.loading = TRUE, !.error = FALSE]
  /\ Send("user.get", ui.user)
  /\ UNCHANGED <<path, usersVars>>

UserLoaded(c) ==
  /\ Done(c, "user.get") /\ calls[c].mine
  /\ ui' = IF calls[c].ans.ok THEN [ui EXCEPT !.detail = calls[c].ans.data, !.loading = FALSE]
           ELSE [ui EXCEPT !.error = TRUE, !.loading = FALSE]
  /\ Settle(c)
  /\ UNCHANGED <<path, usersVars>>

\* runAction
RunAction(op, arg) ==
  /\ ui' = [ui EXCEPT !.acting = TRUE, !.error = FALSE]
  /\ Send(op, arg)
  /\ UNCHANGED <<path, usersVars>>

UpdateUserStatus ==
  \E s \in UserStatuses :
    UserButton(s) /\ RunAction("user.status", [user |-> ui.user, status |-> s])

KeyAction ==
  \E act \in {"suspend", "resume", "revoke"} :
    APIKeyCard(act) /\ RunAction("user.key", [user |-> ui.user, act |-> act])

\* A key no top-up has had before: ui-topup-<user>-<now>.
FreshKey == "fresh"

\* (Faulty: every submit has a key of its own.)
TopUpKeyOfNow(r) == FreshKey

\* submitTopUp's idempotencyKey
TopUpKey(r) == IF r # None THEN r ELSE FreshKey

SubmitTopUp ==
  \E r \in References \cup {None} :
    UserCards /\ RunAction("user.topup", [user |-> ui.user, reference |-> r, key |-> TopUpKey(r)])

SubmitAdjustment == UserCards /\ RunAction("user.adjust", ui.user)

\* The answer to a status holds the user; after the others the page reloads.
ActionDone(c) ==
  /\ \E op \in {"user.status", "user.key", "user.topup", "user.adjust"} : Done(c, op)
  /\ calls[c].mine
  /\ \/ /\ ~calls[c].ans.ok
        /\ ui' = [ui EXCEPT !.error = TRUE, !.acting = FALSE]
        /\ Settle(c)
     \/ /\ calls[c].ans.ok /\ calls[c].op = "user.status"
        /\ ui' = [ui EXCEPT !.detail = calls[c].ans.data, !.acting = FALSE]
        /\ Settle(c)
     \/ /\ calls[c].ans.ok /\ calls[c].op # "user.status"
        /\ ui' = [ui EXCEPT !.error = FALSE]
        /\ Await(c, "user.reload", ui.user)
  /\ UNCHANGED <<path, usersVars>>

\* load({ silent: true }) keeps its failure to itself, but for the error.
UserReloaded(c) ==
  /\ Done(c, "user.reload") /\ calls[c].mine
  /\ LET ans == calls[c].ans IN
     ui' = IF ans.ok
           THEN [ui EXCEPT !.detail = ans.data, !.loading = FALSE, !.acting = FALSE]
           ELSE [ui EXCEPT !.error = TRUE, !.loading = FALSE, !.acting = FALSE]
  /\ Settle(c)
  /\ UNCHANGED <<path, usersVars>>

AdminUsersNext ==
  \/ path = "users" /\ (ApplyUserFilters \/ RefreshUsers \/ TurnUsersPage \/ SetStatus)
  \/ path = "user" /\ (\/ LoadUser \/ UpdateUserStatus \/ KeyAction
                       \/ SubmitTopUp \/ SubmitAdjustment)
  \/ \E c \in Slots :
       \/ ServeUsers(c) \/ ServeUserStatus(c) \/ ServeUserKey(c) \/ ServeTopUp(c)
       \/ ServeAdjustment(c)
       \/ UsersLoaded(c) \/ StatusSet(c) \/ Relisted(c)
       \/ UserLoaded(c) \/ ActionDone(c) \/ UserReloaded(c)
=============================================================================
