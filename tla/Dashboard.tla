----------------------------- MODULE Dashboard -----------------------------
(***************************************************************************)
(* The signed-in user's tab: the pages of app/dashboard and the public     *)
(* list of packages, one mounted at a time, and the links between them.    *)
(* A request outlives the page that sent it; the router's redirects do,    *)
(* too.                                                                    *)
(***************************************************************************)
EXTENDS Overview, UsagePage

vars == <<path, ui, calls, key, orders, signedIn, matching>>

Pages == {"overview", "api-key", "usage", "billing", "packages", "settings"}

Init ==
  /\ path = "login"
  /\ ui = [signIn |-> TRUE]
  /\ calls = [c \in Slots |-> NoCall]
  /\ key = NoKey
  /\ orders = [p \in Packages |-> 0]
  /\ signedIn = FALSE
  /\ matching \in {m \in [Valid -> 0 .. MaxRows] :
                     \A f \in Valid : m[f] <= m[AllUsage]}

\* The login page signs in and replaces itself by the dashboard.
SignIn ==
  /\ path = "login"
  /\ signedIn' = TRUE
  /\ OpenOverview
  /\ UNCHANGED <<key, orders, matching>>

\* navItems and the links of the pages: the reader goes to a page.
Navigate ==
  /\ path # "login"
  /\ \E p \in Pages \ {path} :
       CASE p = "overview" -> OpenOverview
         [] p = "api-key"  -> OpenKeyPage
         [] p = "usage"    -> OpenUsagePage
         [] p = "billing"  -> OpenBilling
         [] p = "packages" -> OpenPackages
         [] p = "settings" -> OpenSettings
  /\ UNCHANGED <<key, orders, signedIn, matching>>

Fails(c) == Lost(c) /\ UNCHANGED <<key, orders, signedIn, matching>>

Next ==
  \/ SignIn \/ Navigate
  \/ KeyPageNext /\ UNCHANGED <<orders, signedIn, matching>>
  \/ BillingNext /\ UNCHANGED <<key, matching>>
  \/ OverviewNext /\ UNCHANGED matching
  \/ UsagePageNext /\ UNCHANGED <<key, orders, signedIn>>
  \/ \E c \in Slots : Fails(c)

Spec == Init /\ [][Next]_vars

-----------------------------------------------------------------------------
(* Properties.                                                             *)

Operations ==
  {"overview.load", "settings.me", "password", "logout", "key.get", "key.create",
   "key.rotate", "key.revoke", "usage.list", "billing.load", "billing.payments",
   "packages.load", "packages.me", "checkout.package"}

\* The state of the page at path.
StateAt ==
  CASE path = "login"    -> LoginState
    [] path = "overview" -> OverviewState
    [] path = "settings" -> SettingsState
    [] path = "api-key"  -> KeyState
    [] path = "usage"    -> UsageState
    [] path = "billing"  -> BillingState
    [] path = "packages" -> PackagesState
    [] path = "checkout" -> CheckoutOpened

\* Type invariant: the page at path has the state its useState declares.
TypeOK ==
  /\ path \in Pages \cup {"login", "checkout"}
  /\ ui \in StateAt
  /\ \A c \in Slots :
       /\ calls[c].op \in Operations \cup {None}
       /\ calls[c].st \in {None, "sent", "done"}
       /\ calls[c].mine \in BOOLEAN
  /\ key \in PublicKey \cup {NoKey}
  /\ orders \in [Packages -> 0 .. MaxOrders]
  /\ signedIn \in BOOLEAN
  /\ matching \in [Valid -> 0 .. MaxRows]

\* A button that shows that it is busy, and a page that shows that it loads,
\* waits for a request of its own: however requests fail and whatever other
\* requests are answered, none is left disabled for good.  (The Sign out
\* buttons are: see SignedOut.)
ButtonsRecover ==
  /\ path = "api-key" =>
       /\ ui.loading => Pending({"key.get"})
       /\ ui.busy    => Pending({"key.create", "key.rotate", "key.revoke"})
  /\ path = "usage" => (ui.loading => Pending({"usage.list"}))
  /\ path = "billing" =>
       /\ ui.loading         => Pending({"billing.load", "billing.payments"})
       /\ ui.choosing # None => Pending({"checkout.package"})
  /\ path = "packages" =>
       /\ ui.loading         => Pending({"packages.load"})
       /\ ui.choosing # None => Pending({"checkout.package"})
  /\ path = "overview" => (ui.loading => Pending({"overview.load"}))
  /\ path = "settings" =>
       /\ ui.loading => Pending({"settings.me"})
       /\ ui.saving  => Pending({"password"})

\* The usage page shows rows only under the filters and at the offset they
\* answer, although the filters are committed before the answer and the
\* offset with it.
RowsAnswerFilters ==
  UsageSettled => /\ ui.usage.filters = ui.applied
                  /\ ui.usage.offset = ui.offset
=============================================================================
