------------------------------ MODULE Console ------------------------------
(***************************************************************************)
(* The administrator's tab: the pages of app/admin, one mounted at a time. *)
(* Any of them may be the first, by its address; the reader then follows   *)
(* links, and a request outlives the page that sent it.                    *)
(***************************************************************************)
EXTENDS AdminUsers, AdminPayments, AdminPackages, AdminLists

CONSTANT Links   \* bound: Links[p], the pages gone to from page p

vars == <<path, ui, calls, usersVars, paymentVars, catalog, listsVars>>

AdminPages == {"admin", "users", "user", "payments", "settings", "packages", "usage", "audit", "sync"}

ASSUME ConsoleAssumption == Links \in [AdminPages -> SUBSET AdminPages]

\* The pages' routes, as AdminShell's navigation and the pages' links name them.
Open(p) ==
  CASE p = "admin"    -> OpenAdmin
    [] p = "users"    -> OpenUsers
    [] p = "user"     -> OpenUser
    [] p = "payments" -> OpenPayments
    [] p = "settings" -> OpenSettings
    [] p = "packages" -> OpenPackages
    [] p = "usage"    -> OpenUsage
    [] p = "audit"    -> OpenAudit
    [] p = "sync"     -> OpenSync

Init ==
  /\ path = "address"
  /\ ui = [address |-> TRUE]
  /\ calls = [c \in Slots |-> NoCall]
  /\ account = [u \in Users |-> [status |-> "ACTIVE", key |-> IF u = 1 THEN "ACTIVE" ELSE "none"]]
  /\ topUps = [r \in References |-> 0]
  /\ entries = [r \in References |-> 0]
  /\ pay = [p \in Orders |-> [status |-> "pending_review", reference |-> None]]
  /\ settings = 1
  /\ catalog = [n \in Numbers |->
       IF n = 1 THEN [name |-> 1, price |-> 1050, active |-> TRUE] ELSE NoPackage]
  /\ listed = [f \in ListFilters |-> 0]
  /\ running = FALSE /\ healthy = TRUE

\* The first page, by its address; then pages by links.
Navigate ==
  /\ \E p \in IF path = "address" THEN AdminPages ELSE Links[path] : Open(p)
  /\ UNCHANGED <<usersVars, paymentVars, catalog, listsVars>>

Fails(c) == Lost(c) /\ UNCHANGED <<usersVars, paymentVars, catalog, listsVars>>

Next ==
  \/ Navigate
  \/ AdminUsersNext    /\ UNCHANGED <<paymentVars, catalog, listsVars>>
  \/ AdminPaymentsNext /\ UNCHANGED <<usersVars, catalog, listsVars>>
  \/ AdminPackagesNext /\ UNCHANGED <<usersVars, paymentVars, listsVars>>
  \/ AdminListsNext    /\ UNCHANGED <<usersVars, paymentVars, catalog>>
  \/ \E c \in Slots : Fails(c)

Spec == Init /\ [][Next]_vars

-----------------------------------------------------------------------------
(* Properties.                                                             *)

ConsoleOps ==
  {"users.list", "users.relist", "users.status", "user.get", "user.reload", "user.status",
   "user.key", "user.topup", "user.adjust", "payments.list", "payments.get", "payments.reget",
   "payments.approve", "payments.reject", "settings.get", "settings.save", "settings.upload",
   "packages.list", "packages.relist", "package.create", "package.update", "package.toggle",
   "list.get", "usage.sync", "sync.status", "sync.restatus", "sync.run", "admin.get"}

ConsoleState ==
  CASE path = "address"     -> [address : {TRUE}]
    [] path = "admin"       -> AdminState
    [] path = "users"       -> UsersState
    [] path = "user"        -> UserState
    [] path = "payments"    -> PaymentsState
    [] path = "settings"    -> SettingsState
    [] path = "packages"    -> PackagesState
    [] path \in Lists       -> ListState
    [] path = "sync"        -> SyncState

\* Type invariant: the page at path has the state its useState declares.
TypeOK ==
  /\ path \in AdminPages \cup {"address"}
  /\ ui \in ConsoleState
  /\ \A c \in Slots :
       /\ calls[c].op \in ConsoleOps \cup {None}
       /\ calls[c].st \in {None, "sent", "done"}
       /\ calls[c].mine \in BOOLEAN
  /\ account \in [Users -> Account]
  /\ topUps \in [References -> {0} \cup Users]
  /\ entries \in [References -> 0 .. MaxEntries]
  /\ pay \in [Orders -> AdminPayment]
  /\ settings \in 1 .. 2
  /\ catalog \in [Numbers -> CreditPackage \cup {NoPackage}]
  /\ listed \in [ListFilters -> 0 .. MaxListed]
  /\ running \in BOOLEAN /\ healthy \in BOOLEAN

\* A page that shows that it loads, and a button that shows that it is busy,
\* waits for a request of its own, however many are under way and whichever
\* of them fail: nothing of the console is left disabled for good.
ConsoleRecovers ==
  /\ path = "users" =>
       /\ ui.loading    => Pending({"users.list"})
       /\ ui.acting # 0 => Pending({"users.status", "users.relist"})
  /\ path = "user" =>
       /\ ui.loading => Pending({"user.get"})
       /\ ui.acting  => Pending({"user.status", "user.key", "user.topup", "user.adjust",
                                 "user.reload"})
  /\ path = "payments" =>
       /\ ui.loading => Pending({"payments.list"})
       /\ ui.acting  => Pending({"payments.approve", "payments.reject", "payments.reget"})
  /\ path = "settings" =>
       /\ ui.loading   => Pending({"settings.get"})
       /\ ui.saving    => Pending({"settings.save"})
       /\ ui.uploading => Pending({"settings.upload"})
  /\ path = "packages" =>
       /\ ui.loading    => Pending({"packages.list"})
       /\ ui.saving     => Pending({"package.create", "package.update", "packages.relist"})
       /\ ui.acting # 0 => Pending({"package.toggle", "packages.relist"})
  /\ path \in Lists =>
       /\ ui.loading => Pending({"list.get"})
       /\ ui.syncing => Pending({"usage.sync"})
  /\ path = "sync" =>
       /\ ui.loading => Pending({"sync.status"})
       /\ ui.syncing => Pending({"sync.run", "sync.restatus"})
  /\ path = "admin" => (ui.loading \/ ui.refreshing => Pending({"admin.get"}))

\* A payment is approved with the reference that was verified for it: what
\* was typed for one payment is never sent for another, although a late
\* answer can put another payment into the drawer under the reader's hands.
ApprovedByItsReference ==
  \A p \in Orders : pay[p].reference \in {None, Transfer[p]}

\* Whatever is lost and submitted again, a top-up with a provider's reference
\* is credited once, to one user.
ReferenceCreditsOnce ==
  \A r \in References : entries[r] <= 1

\* An edit is saved to the package it was opened on: no package gets the
\* fields of another, and a price is stored as it was typed.
PackagesKeepTheirFields ==
  \A n \in Numbers : catalog[n] # NoPackage => catalog[n] \in [name : {n}, price : Prices, active : BOOLEAN]
=============================================================================
