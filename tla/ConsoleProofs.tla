--------------------------- MODULE ConsoleProofs ---------------------------
(***************************************************************************)
(* Proofs about Console for any number of users, payments, packages and    *)
(* requests under way: the types, that nothing stays busy, that a payment  *)
(* is approved by its own reference, that a reference credits once, and    *)
(* that packages keep their fields.                                        *)
(*                                                                         *)
(* All of them are about answers that come late, to a page that has gone   *)
(* on meanwhile.  The invariant has one part for the rows at the API, one  *)
(* for the requests (what each carries, what its answer does, and which    *)
(* page waits for it) and one for the page at path, which relates what it  *)
(* shows to the requests it waits for and to what is stored.               *)
(***************************************************************************)
EXTENDS Console, FiniteSetTheorems, TLAPS

-----------------------------------------------------------------------------
(* The rows at the API.                                                    *)

Rows == <<usersVars, paymentVars, catalog, listsVars>>

\* The packages that are stored; there are more and more of them.
Stored == {n \in Numbers : catalog[n] # NoPackage}

\* What may be saved under number n.
PackageOf(n) == [name : {n}, price : Prices, active : BOOLEAN]

\* A catalogue that was read when the packages in stored were there.
Catalogue(packages, stored) ==
  /\ packages \in [Numbers -> CreditPackage \cup {NoPackage}]
  /\ \A n \in Numbers : packages[n] # NoPackage => n \in stored /\ packages[n] \in PackageOf(n)

UsersRowsOK ==
  /\ account \in [Users -> Account]
  /\ topUps \in [References -> {0} \cup Users]
  /\ entries \in [References -> 0 .. MaxEntries]
  /\ \A r \in References : entries[r] <= 1 /\ (topUps[r] = 0 => entries[r] = 0)

PaymentRowsOK ==
  /\ pay \in [Orders -> AdminPayment]
  /\ \A p \in Orders : pay[p].reference \in {None, Transfer[p]}
  /\ settings \in 1 .. 2

ListRowsOK ==
  /\ listed \in [ListFilters -> 0 .. MaxListed]
  /\ running \in BOOLEAN /\ healthy \in BOOLEAN

RowsOK == UsersRowsOK /\ PaymentRowsOK /\ Catalogue(catalog, Stored) /\ ListRowsOK

-----------------------------------------------------------------------------
(* The requests.                                                           *)

UsersPage == [rows : SUBSET [id : Users, status : UserStatuses],
              offset : {PageSize * n : n \in 0 .. NumUsers}, total : 0 .. NumUsers]

PaymentsPage == [items : SUBSET Item, offset : PaymentOffsets, total : 0 .. NumPayments]

\* A full page of a list is not beyond its end.
RowsPage(rows) ==
  /\ rows \in [query : ListQuery, length : 0 .. ListSize, total : 0 .. MaxListed]
  /\ rows.length = ListSize => rows.query.offset + ListSize <= MaxListed

SyncStatus == [known : BOOLEAN, running : BOOLEAN, healthy : BOOLEAN]

\* What a request carries.
UsersArg(op, arg) ==
  /\ op \in {"users.list", "users.relist"} => arg \in UserFilter
  /\ op \in {"user.get", "user.reload"} => arg \in Users
  /\ op \in {"users.status", "user.status"} => arg.user \in Users /\ arg.status \in UserStatuses
  /\ op = "users.status" => arg.filters \in UserFilter
  /\ op = "user.key" => arg.user \in Users /\ arg.act \in {"suspend", "resume", "revoke"}
  /\ op = "user.topup" => /\ arg.user \in Users /\ arg.reference \in References \cup {None}
                          /\ arg.key = TopUpKey(arg.reference)

PaymentsArg(op, arg) ==
  /\ op \in {"payments.get", "payments.approve", "payments.reject", "payments.reget"} =>
       arg.id \in Orders
  /\ op \in {"payments.list", "payments.approve", "payments.reject", "payments.reget"} =>
       arg.filter \in PaymentFilters /\ arg.offset \in PaymentOffsets
  /\ op \in {"payments.approve", "payments.reject"} => arg.verdict \in {"approved", "rejected"}
  /\ op = "payments.approve" => arg.reference = Transfer[arg.id]

PackagesArg(op, arg, stored) ==
  /\ op = "packages.relist" => arg.toggled \in BOOLEAN
  /\ op = "package.create" => arg.input.name \in Numbers /\ arg.input \in PackageOf(arg.input.name)
  /\ op = "package.update" => arg.id \in Numbers /\ arg.input \in PackageOf(arg.id)
  /\ op = "package.toggle" => arg.id \in stored /\ arg.active \in BOOLEAN

ListsArg(op, arg) == op \in {"list.get", "usage.sync"} => arg \in ListQuery

\* What its answer holds.
UsersData(op, data) ==
  /\ op \in {"users.list", "users.relist"} => data \in UsersPage
  /\ op \in {"user.get", "user.reload", "user.status"} => data \in Account

PaymentsData(op, data) ==
  /\ op = "payments.list" => data \in PaymentsPage
  /\ op \in {"payments.get", "payments.reget"} => data \in Item
  /\ op \in {"settings.get", "settings.save", "settings.upload"} => data \in 1 .. 2

PackagesData(op, data, stored) ==
  op \in {"packages.list", "packages.relist"} => Catalogue(data, stored)

ListsData(op, arg, data) ==
  /\ op = "list.get" => RowsPage(data) /\ data.query = arg
  /\ op \in {"sync.status", "sync.restatus"} => data \in SyncStatus

ArgOK(op, arg, stored) ==
  UsersArg(op, arg) /\ PaymentsArg(op, arg) /\ PackagesArg(op, arg, stored) /\ ListsArg(op, arg)

DataOK(op, arg, data, stored) ==
  /\ UsersData(op, data) /\ PaymentsData(op, data)
  /\ PackagesData(op, data, stored) /\ ListsData(op, arg, data)

\* The requests whose answers the page p waits for.
OpsOf(p) ==
  CASE p = "admin"    -> {"admin.get"}
    [] p = "users"    -> {"users.list", "users.status", "users.relist"}
    [] p = "user"     -> {"user.get", "user.status", "user.key", "user.topup", "user.adjust",
                          "user.reload"}
    [] p = "payments" -> {"payments.list", "payments.get", "payments.approve",
                          "payments.reject", "payments.reget"}
    [] p = "settings" -> {"settings.get", "settings.save", "settings.upload"}
    [] p = "packages" -> {"packages.list", "package.create", "package.update",
                          "package.toggle", "packages.relist"}
    [] p \in Lists    -> {"list.get", "usage.sync"}
    [] p = "sync"     -> {"sync.status", "sync.run", "sync.restatus"}
    [] OTHER          -> {}

CallOK(call, p, stored) ==
  /\ call = [op |-> call.op, arg |-> call.arg, st |-> call.st, ans |-> call.ans,
             mine |-> call.mine]
  /\ call.op \in ConsoleOps \cup {None}
  /\ call.st \in {None, "sent", "done"}
  /\ call.mine \in BOOLEAN
  /\ call.ans.ok \in BOOLEAN
  /\ ArgOK(call.op, call.arg, stored)
  /\ call.ans.ok => DataOK(call.op, call.arg, call.ans.data, stored)
  /\ call.mine => call.op \in OpsOf(p)

CallsOK ==
  /\ calls = [c \in Slots |-> calls[c]]
  /\ \A c \in Slots : CallOK(calls[c], path, Stored)

\* What a request is for: the catalogue is read again on behalf of a saved
\* form or of a toggled row.
Purpose(call) ==
  IF call.op = "packages.relist"
  THEN IF call.arg.toggled THEN "relist after toggle" ELSE "relist after save"
  ELSE call.op

\* The purposes of the requests that the page waits for.
Waits == {Purpose(calls[c]) : c \in {d \in Slots : calls[d].mine}}

-----------------------------------------------------------------------------
(* The pages: what they show, and what they wait for.                      *)

UsersOK(u, waits) ==
  /\ u \in UsersState
  /\ u.loading    => "users.list" \in waits
  /\ u.acting # 0 => "users.status" \in waits \/ "users.relist" \in waits

UserOK(u, waits) ==
  /\ u \in UserState
  /\ u.loading => "user.get" \in waits
  /\ u.acting  => \/ "user.status" \in waits \/ "user.key" \in waits \/ "user.topup" \in waits
                  \/ "user.adjust" \in waits \/ "user.reload" \in waits

\* The reference in the drawer was typed for the payment in the drawer.
PaymentsOK(u, waits) ==
  /\ u \in PaymentsState
  /\ u.loading => "payments.list" \in waits
  /\ u.acting  => \/ "payments.approve" \in waits \/ "payments.reject" \in waits
                  \/ "payments.reget" \in waits
  /\ u.reference # None => u.selected.id \in Orders /\ u.reference = Transfer[u.selected.id]

SettingsOK(u, waits) ==
  /\ u \in SettingsState
  /\ u.loading   => "settings.get" \in waits
  /\ u.saving    => "settings.save" \in waits
  /\ u.uploading => "settings.upload" \in waits

\* The form is of the package that the panel edits.
PackagesOK(u, waits, stored) ==
  /\ u \in PackagesState
  /\ Catalogue(u.packages, stored)
  /\ u.panel > 0 => /\ u.form.name = u.panel
                    /\ ParseMoneyToMinor(u.form.price) \in Prices
  /\ u.loading    => "packages.list" \in waits
  /\ u.saving     => \/ "package.create" \in waits \/ "package.update" \in waits
                     \/ "relist after save" \in waits
  /\ u.acting # 0 => "package.toggle" \in waits \/ "relist after toggle" \in waits

ListOK(u, waits) ==
  /\ u \in ListState
  /\ RowsPage(u.rows) /\ u.rows.query = u.filters
  /\ u.loading => "list.get" \in waits
  /\ u.syncing => "usage.sync" \in waits

SyncOK(u, waits) ==
  /\ u \in SyncState
  /\ u.loading => "sync.status" \in waits
  /\ u.syncing => "sync.run" \in waits \/ "sync.restatus" \in waits

AdminOK(u, waits) ==
  u \in AdminState /\ (u.loading \/ u.refreshing => "admin.get" \in waits)

PageAt(p, u, waits, stored) ==
  /\ p \in AdminPages \cup {"address"}
  /\ p = "address"  => u \in [address : {TRUE}]
  /\ p = "admin"    => AdminOK(u, waits)
  /\ p = "users"    => UsersOK(u, waits)
  /\ p = "user"     => UserOK(u, waits)
  /\ p = "payments" => PaymentsOK(u, waits)
  /\ p = "settings" => SettingsOK(u, waits)
  /\ p = "packages" => PackagesOK(u, waits, stored)
  /\ p \in Lists    => ListOK(u, waits)
  /\ p = "sync"     => SyncOK(u, waits)

PageOK == PageAt(path, ui, Waits, Stored)

IInv == RowsOK /\ CallsOK /\ PageOK

-----------------------------------------------------------------------------
(* Numbers: pages of a list, and prices.                                   *)

\* The offsets at which the pages of a list of up to most entries start.
LEMMA NextOffset ==
  ASSUME NEW size \in Nat \ {0}, NEW most \in Nat,
         NEW offset \in {size * n : n \in 0 .. most}, offset < most
  PROVE  offset + size \in {size * n : n \in 0 .. most}
<1>1. PICK n \in 0 .. most : offset = size * n
  OBVIOUS
<1>2. n <= size * n
  BY <1>1
<1>3. n + 1 \in 0 .. most
  BY <1>1, <1>2
<1>4. offset + size = size * (n + 1)
  BY <1>1
<1> QED
  BY <1>3, <1>4

LEMMA PreviousOffset ==
  ASSUME NEW size \in Nat \ {0}, NEW most \in Nat,
         NEW offset \in {size * n : n \in 0 .. most}
  PROVE  (IF offset > size THEN offset - size ELSE 0) \in {size * n : n \in 0 .. most}
<1>1. PICK n \in 0 .. most : offset = size * n
  OBVIOUS
<1>2. CASE offset > size
  <2>1. n # 0
    BY <1>1, <1>2
  <2>2. n - 1 \in 0 .. most /\ offset - size = size * (n - 1)
    BY <1>1, <2>1
  <2> QED
    BY <1>2, <2>2
<1>3. CASE ~(offset > size)
  <2>1. 0 = size * 0 /\ 0 \in 0 .. most
    OBVIOUS
  <2> QED
    BY <1>3, <2>1
<1> QED
  BY <1>2, <1>3

LEMMA HowMany ==
  ASSUME NEW most \in Nat, NEW S \in SUBSET (1 .. most)
  PROVE  Cardinality(S) \in 0 .. most
<1>1. IsFiniteSet(1 .. most) /\ Cardinality(1 .. most) = most
  BY FS_Interval
<1>2. IsFiniteSet(S) /\ Cardinality(S) <= most
  BY <1>1, FS_Subset
<1> QED
  BY <1>2, FS_CardinalityType

\* A stored price is read back from its text.
LEMMA PriceKept ==
  ASSUME NEW minor \in Nat
  PROVE  ParseMoneyToMinor(MinorToMoney(minor)) = minor
<1>1. minor = 100 * (minor \div 100) + 10 * ((minor % 100) \div 10) + (minor % 10)
  OBVIOUS
<1>2. /\ MinorToMoney(minor).whole = minor \div 100
      /\ MinorToMoney(minor).fraction = <<(minor % 100) \div 10, minor % 10>>
  BY DEF MinorToMoney
<1>3. /\ Len(MinorToMoney(minor).fraction) = 2
      /\ MinorToMoney(minor).fraction[1] = (minor % 100) \div 10
      /\ MinorToMoney(minor).fraction[2] = minor % 10
  BY <1>2
<1>4. ParseMoneyToMinor(MinorToMoney(minor))
        = (minor \div 100) * 100 + 10 * ((minor % 100) \div 10) + (minor % 10)
  BY <1>2, <1>3 DEF ParseMoneyToMinor
<1> QED
  BY <1>1, <1>4

-----------------------------------------------------------------------------
(* Requests.                                                               *)

LEMMA NoCallOK ==
  ASSUME NEW p, NEW stored
  PROVE  CallOK(NoCall, p, stored) /\ ~NoCall.mine
BY DEF NoCall, NoAnswer, Error, None, CallOK, ArgOK, UsersArg, PaymentsArg, PackagesArg, ListsArg

\* A package that is stored is stored for ever.
LEMMA CallKept ==
  ASSUME NEW call, NEW p, NEW stored, NEW more, stored \subseteq more, CallOK(call, p, stored)
  PROVE  CallOK(call, p, more)
BY DEF CallOK, ArgOK, PackagesArg, DataOK, PackagesData, Catalogue

\* Another call in slot c, on the same page.
LEMMA OneCall ==
  ASSUME IInv, NEW c \in Slots, NEW new, calls' = [calls EXCEPT ![c] = new],
         path' = path, Stored \subseteq Stored', CallOK(new, path, Stored')
  PROVE  /\ CallsOK'
         /\ \A w \in Waits : w # Purpose(calls[c]) => w \in Waits'
         /\ calls[c].mine /\ new.mine /\ Purpose(new) = Purpose(calls[c]) => Waits \subseteq Waits'
         /\ ~calls[c].mine => Waits \subseteq Waits'
         /\ new.mine => Purpose(new) \in Waits'
<1>0. /\ calls = [d \in Slots |-> calls[d]]
      /\ calls' = [d \in Slots |-> calls'[d]]
      /\ calls'[c] = new
      /\ \A d \in Slots \ {c} : calls'[d] = calls[d]
  BY DEF IInv, CallsOK
<1>1. ASSUME NEW d \in Slots PROVE CallOK(calls'[d], path, Stored')
  <2>1. CASE d = c
    BY <1>0, <2>1
  <2>2. CASE d # c
    <3>1. calls'[d] = calls[d] /\ CallOK(calls[d], path, Stored)
      BY <1>0, <2>2 DEF IInv, CallsOK
    <3> QED
      BY <3>1, CallKept
  <2> QED
    BY <2>1, <2>2
<1>2. CallsOK'
  BY <1>0, <1>1 DEF CallsOK
<1>3. new.mine => Purpose(new) \in Waits'
  BY <1>0 DEF Waits
<1>4. ASSUME NEW w \in Waits, w # Purpose(calls[c]) \/ ~calls[c].mine PROVE w \in Waits'
  <2>1. PICK d \in Slots : calls[d].mine /\ w = Purpose(calls[d])
    BY DEF Waits
  <2>2. d # c
    BY <1>4, <2>1
  <2> QED
    BY <1>0, <2>1, <2>2 DEF Waits
<1> QED
  BY <1>2, <1>3, <1>4

\* A request as it leaves.
Leaving(op, arg, mine) ==
  [op |-> op, arg |-> arg, st |-> "sent", ans |-> NoAnswer, mine |-> mine]

LEMMA LeavingOK ==
  ASSUME NEW op \in ConsoleOps, NEW arg, NEW mine \in BOOLEAN, NEW p, NEW stored,
         ArgOK(op, arg, stored), mine => op \in OpsOf(p)
  PROVE  /\ CallOK(Leaving(op, arg, mine), p, stored)
         /\ Leaving(op, arg, mine).mine = mine
         /\ Purpose(Leaving(op, arg, mine)) =
              IF op = "packages.relist"
              THEN IF arg.toggled THEN "relist after toggle" ELSE "relist after save"
              ELSE op
<1>1. NoAnswer.ok = FALSE
  BY DEF NoAnswer, Error
<1>2. PICK new : new = Leaving(op, arg, mine)
  OBVIOUS
<1>3. /\ new = [op |-> op, arg |-> arg, st |-> "sent", ans |-> NoAnswer, mine |-> mine]
      /\ new.op = op /\ new.arg = arg /\ new.st = "sent" /\ new.ans = NoAnswer
      /\ new.mine = mine
  BY <1>2 DEF Leaving
<1>4. CallOK(new, p, stored)
  BY <1>1, <1>3 DEF CallOK
<1> QED
  BY <1>2, <1>3, <1>4 DEF Purpose

LEMMA Orphans ==
  ASSUME IInv, NEW p, NEW c \in Slots
  PROVE  CallOK(Orphaned[c], p, Stored) /\ ~Orphaned[c].mine
<1>1. CallOK(calls[c], path, Stored)
  BY DEF IInv, CallsOK
<1>2. PICK old : old = [calls[c] EXCEPT !.mine = FALSE]
  OBVIOUS
<1>3. CallOK(old, p, Stored) /\ ~old.mine
  BY <1>1, <1>2 DEF CallOK
<1>4. Orphaned[c] = old \/ Orphaned[c] = NoCall
  BY <1>2 DEF Orphaned
<1> QED
  BY <1>3, <1>4, NoCallOK

\* Another page is opened, and sends its first request.
LEMMA MountStep ==
  ASSUME IInv, NEW p, NEW state, NEW op \in ConsoleOps \ {"packages.relist"}, NEW arg,
         Mount(p, state, op, arg), op \in OpsOf(p), ArgOK(op, arg, Stored), Stored' = Stored
  PROVE  CallsOK' /\ path' = p /\ ui' = state /\ op \in Waits'
<1>1. PICK c \in Slots : calls' = [Orphaned EXCEPT ![c] = Leaving(op, arg, TRUE)]
  BY DEF Mount, Leaving
<1>2. PICK new : new = Leaving(op, arg, TRUE)
  OBVIOUS
<1>3. CallOK(new, p, Stored) /\ new.mine /\ Purpose(new) = op
  BY <1>2, LeavingOK
<1>4. /\ Orphaned = [d \in Slots |-> Orphaned[d]]
      /\ calls' = [Orphaned EXCEPT ![c] = new]
  BY <1>1, <1>2 DEF Orphaned
<1>5. calls' = [d \in Slots |-> calls'[d]] /\ calls'[c] = new
  BY <1>4
<1>6. ASSUME NEW d \in Slots PROVE CallOK(calls'[d], p, Stored)
  BY <1>3, <1>4, Orphans
<1>7. path' = p /\ ui' = state
  BY DEF Mount
<1> QED
  BY <1>3, <1>5, <1>6, <1>7 DEF CallsOK, Waits

LEMMA SendStep ==
  ASSUME IInv, NEW op \in ConsoleOps \ {"packages.relist"}, NEW arg, Send(op, arg),
         op \in OpsOf(path), ArgOK(op, arg, Stored), path' = path, Stored' = Stored
  PROVE  CallsOK' /\ Waits \subseteq Waits' /\ op \in Waits'
<1>1. PICK c \in Slots : calls[c].op = None /\ calls' = [calls EXCEPT ![c] = Leaving(op, arg, TRUE)]
  BY DEF Send, Leaving
<1>2. PICK new : new = Leaving(op, arg, TRUE)
  OBVIOUS
<1>3. CallOK(new, path, Stored) /\ new.mine /\ Purpose(new) = op
  BY <1>2, LeavingOK
<1>4. ~calls[c].mine
  <2>1. CallOK(calls[c], path, Stored) /\ path \in AdminPages \cup {"address"}
    BY DEF IInv, CallsOK, PageOK, PageAt
  <2> QED
    BY <1>1, <2>1 DEF CallOK, OpsOf, None, AdminPages, Lists
<1> QED
  BY <1>1, <1>2, <1>3, <1>4, OneCall

LEMMA SettleStep ==
  ASSUME IInv, NEW c \in Slots, Settle(c), path' = path, Stored' = Stored
  PROVE  CallsOK' /\ \A w \in Waits : w # Purpose(calls[c]) => w \in Waits'
BY NoCallOK, OneCall DEF Settle

\* A continuation goes on to its next request.
LEMMA AwaitStep ==
  ASSUME IInv, NEW c \in Slots, calls[c].mine, NEW op \in ConsoleOps, NEW arg,
         Await(c, op, arg), op \in OpsOf(path), ArgOK(op, arg, Stored),
         path' = path, Stored' = Stored
  PROVE  /\ CallsOK'
         /\ \A w \in Waits : w # Purpose(calls[c]) => w \in Waits'
         /\ Purpose(Leaving(op, arg, TRUE)) \in Waits'
<1>1. calls[c].mine = TRUE /\ calls = [d \in Slots |-> calls[d]]
  BY DEF IInv, CallsOK, CallOK
<1>2. PICK new : new = Leaving(op, arg, TRUE)
  OBVIOUS
<1>3. calls' = [calls EXCEPT ![c] = new]
  BY <1>1, <1>2 DEF Await, Leaving
<1>4. CallOK(new, path, Stored) /\ new.mine
  BY <1>2, LeavingOK
<1> QED
  BY <1>2, <1>3, <1>4, OneCall

\* A request is answered, or forgotten when nobody waits for the answer.
LEMMA ReplyStep ==
  ASSUME IInv, NEW c \in Slots, NEW ans, Reply(c, ans), ans.ok \in BOOLEAN,
         path' = path, Stored \subseteq Stored',
         ans.ok => DataOK(calls[c].op, calls[c].arg, ans.data, Stored')
  PROVE  CallsOK' /\ Waits \subseteq Waits'
<1>1. CallOK(calls[c], path, Stored')
  BY CallKept DEF IInv, CallsOK
<1>2. CASE calls[c].mine \/ calls[c].op \in Redirects
  <2>1. PICK new : new = [calls[c] EXCEPT !.st = "done", !.ans = ans]
    OBVIOUS
  <2>2. calls' = [calls EXCEPT ![c] = new]
    BY <1>2, <2>1 DEF Reply
  <2>3. /\ new = [op |-> calls[c].op, arg |-> calls[c].arg, st |-> "done", ans |-> ans,
                  mine |-> calls[c].mine]
        /\ new.op = calls[c].op /\ new.mine = calls[c].mine
        /\ new.arg = calls[c].arg /\ new.ans = ans /\ new.st = "done"
    BY <1>1, <2>1 DEF CallOK
  <2>4. CallOK(new, path, Stored') /\ Purpose(new) = Purpose(calls[c])
    BY <1>1, <2>3 DEF CallOK, Purpose
  <2> QED
    BY <2>2, <2>3, <2>4, OneCall
<1>3. CASE ~(calls[c].mine \/ calls[c].op \in Redirects)
  <2>1. calls' = [calls EXCEPT ![c] = NoCall]
    BY <1>3 DEF Reply
  <2> QED
    BY <1>3, <2>1, NoCallOK, OneCall
<1> QED
  BY <1>2, <1>3

\* A request whose answer a page waits for is one of its own.
LEMMA Owned ==
  ASSUME IInv, NEW c \in Slots, calls[c].mine
  PROVE  calls[c].op \in OpsOf(path) /\ path \in AdminPages \cup {"address"}
BY DEF IInv, CallsOK, CallOK, PageOK, PageAt

-----------------------------------------------------------------------------
(* Rows and pages.                                                         *)

LEMMA RowsKept ==
  ASSUME UNCHANGED Rows
  PROVE  Stored' = Stored /\ (RowsOK => RowsOK')
<1>1. Stored' = Stored
  BY DEF Rows, Stored
<1> QED
  BY <1>1 DEF Rows, usersVars, paymentVars, listsVars, RowsOK, UsersRowsOK, PaymentRowsOK, ListRowsOK

\* A page does not notice what happens elsewhere.
LEMMA PageKept ==
  ASSUME NEW p, NEW u, NEW waits, NEW more, waits \subseteq more,
         NEW stored, NEW larger, stored \subseteq larger, PageAt(p, u, waits, stored)
  PROVE  PageAt(p, u, more, larger)
<1>1. p = "admin" \/ p = "sync" \/ p \in Lists => PageAt(p, u, more, larger)
  BY DEF PageAt, AdminOK, SyncOK, ListOK, Lists
<1>2. p = "users" \/ p = "user" => PageAt(p, u, more, larger)
  BY DEF PageAt, UsersOK, UserOK, Lists
<1>3. p = "payments" \/ p = "settings" => PageAt(p, u, more, larger)
  BY DEF PageAt, PaymentsOK, SettingsOK, Lists
<1>4. p = "packages" => PageAt(p, u, more, larger)
  BY DEF PageAt, PackagesOK, Catalogue, Lists
<1>5. p = "address" => PageAt(p, u, more, larger)
  BY DEF PageAt, Lists
<1> QED
  BY <1>1, <1>2, <1>3, <1>4, <1>5 DEF PageAt, AdminPages, Lists

\* The API answers; the rows may change.
LEMMA Served ==
  ASSUME IInv, NEW c \in Slots, NEW ans, Reply(c, ans), ans.ok \in BOOLEAN,
         UNCHANGED <<path, ui>>, RowsOK', Stored \subseteq Stored',
         ans.ok => DataOK(calls[c].op, calls[c].arg, ans.data, Stored')
  PROVE  IInv'
<1>1. CallsOK' /\ Waits \subseteq Waits'
  BY ReplyStep
<1>2. PageAt(path, ui, Waits', Stored')
  BY <1>1, PageKept DEF IInv, PageOK
<1> QED
  BY <1>1, <1>2 DEF IInv, PageOK

LEMMA Refused ==
  ASSUME IInv, NEW c \in Slots, NEW why, Reply(c, Error(why)), UNCHANGED <<path, ui, Rows>>
  PROVE  IInv'
<1>1. Error(why).ok = FALSE
  BY DEF Error
<1> QED
  BY <1>1, RowsKept, Served DEF IInv

LEMMA Answered ==
  ASSUME IInv, NEW c \in Slots, NEW data, Reply(c, Ok(data)), UNCHANGED <<path, ui>>,
         RowsOK', Stored \subseteq Stored', DataOK(calls[c].op, calls[c].arg, data, Stored')
  PROVE  IInv'
<1>1. Ok(data).ok = TRUE /\ Ok(data).data = data
  BY DEF Ok
<1> QED
  BY <1>1, Served

\* An answer that carries nothing.
Silent == {"users.status", "user.key", "user.topup", "user.adjust", "payments.approve",
           "payments.reject", "package.create", "package.update", "package.toggle",
           "usage.sync", "sync.run", "admin.get"}

LEMMA Acknowledged ==
  ASSUME IInv, NEW c \in Slots, NEW data, Reply(c, Ok(data)), UNCHANGED <<path, ui>>,
         RowsOK', Stored \subseteq Stored', calls[c].op \in Silent
  PROVE  IInv'
<1>1. DataOK(calls[c].op, calls[c].arg, data, Stored')
  BY DEF Silent, DataOK, UsersData, PaymentsData, PackagesData, ListsData
<1> QED
  BY <1>1, Answered

LEMMA ArgKept ==
  ASSUME IInv, NEW c \in Slots
  PROVE  /\ ArgOK(calls[c].op, calls[c].arg, Stored)
         /\ calls[c].ans.ok \in BOOLEAN
         /\ calls[c].ans.ok => DataOK(calls[c].op, calls[c].arg, calls[c].ans.data, Stored)
BY DEF IInv, CallsOK, CallOK

-----------------------------------------------------------------------------
(* What the API does: users.                                               *)

LEMMA UserListOK ==
  ASSUME RowsOK, NEW f \in UserFilter
  PROVE  UserList(f) \in UsersPage
<1> DEFINE found == {u \in Users : f.status \in {"all", account[u].status}}
           before(u) == Cardinality({v \in found : v < u})
           rows == {[id |-> u, status |-> account[u].status] :
                     u \in {v \in found : before(v) \in f.offset .. f.offset + PageSize - 1}}
<1>1. rows \in SUBSET [id : Users, status : UserStatuses]
  <2>1. \A u \in Users : account[u].status \in UserStatuses
    BY DEF RowsOK, UsersRowsOK, Account
  <2> HIDE DEF before
  <2>2. ASSUME NEW x \in rows PROVE x \in [id : Users, status : UserStatuses]
    <3>1. PICK u \in Users : x = [id |-> u, status |-> account[u].status]
      OBVIOUS
    <3> QED
      BY <2>1, <3>1
  <2> QED
    BY <2>2
<1>2. Cardinality(found) \in 0 .. NumUsers
  BY HowMany, AdminUsersAssumption DEF Users
<1>3. f.offset \in {PageSize * n : n \in 0 .. NumUsers}
  BY DEF UserFilter
<1>4. UserList(f) = [rows |-> rows, offset |-> f.offset, total |-> Cardinality(found)]
  BY DEF UserList
<1> HIDE DEF found, before, rows
<1> QED
  BY <1>1, <1>2, <1>3, <1>4 DEF UsersPage

LEMMA ServeUsersStep ==
  ASSUME IInv, NEW c \in Slots, ServeUsers(c), UNCHANGED <<paymentVars, catalog, listsVars>>
  PROVE  IInv'
<1>1. UNCHANGED <<path, ui, Rows>>
  BY DEF ServeUsers, Rows
<1>2. RowsOK /\ RowsOK' /\ Stored' = Stored
  BY <1>1, RowsKept DEF IInv
<1>3. CASE calls[c].op \in {"users.list", "users.relist"} /\ Reply(c, Ok(UserList(calls[c].arg)))
  <2>1. UserList(calls[c].arg) \in UsersPage
    BY <1>2, <1>3, ArgKept, UserListOK DEF ArgOK, UsersArg
  <2>2. DataOK(calls[c].op, calls[c].arg, UserList(calls[c].arg), Stored')
    BY <1>3, <2>1 DEF DataOK, UsersData, PaymentsData, PackagesData, ListsData
  <2> QED
    BY <1>1, <1>2, <1>3, <2>2, Answered
<1>4. CASE calls[c].op \in {"user.get", "user.reload"} /\ Reply(c, Ok(account[calls[c].arg]))
  <2>1. account[calls[c].arg] \in Account
    BY <1>2, <1>4, ArgKept DEF ArgOK, UsersArg, RowsOK, UsersRowsOK
  <2>2. DataOK(calls[c].op, calls[c].arg, account[calls[c].arg], Stored')
    BY <1>4, <2>1 DEF DataOK, UsersData, PaymentsData, PackagesData, ListsData
  <2> QED
    BY <1>1, <1>2, <1>4, <2>2, Answered
<1> QED
  BY <1>3, <1>4 DEF ServeUsers, Sent

\* Only the users' rows change.
LEMMA UsersRowsStep ==
  ASSUME IInv, UsersRowsOK', UNCHANGED <<paymentVars, catalog, listsVars>>
  PROVE  RowsOK' /\ Stored' = Stored
<1>1. Stored' = Stored
  BY DEF Stored
<1> QED
  BY <1>1 DEF IInv, RowsOK, PaymentRowsOK, ListRowsOK, paymentVars, listsVars

LEMMA ServeUserStatusStep ==
  ASSUME IInv, NEW c \in Slots, ServeUserStatus(c),
         UNCHANGED <<paymentVars, catalog, listsVars>>
  PROVE  IInv'
<1>1. UsersRowsOK
  BY DEF IInv, RowsOK
<1>2. calls[c].op \in {"users.status", "user.status"} /\ UNCHANGED <<path, ui, topUps, entries>>
  BY DEF ServeUserStatus, Sent
<1>3. PICK arg : arg = calls[c].arg
  OBVIOUS
<1>4. arg.user \in Users /\ arg.status \in UserStatuses
  BY <1>2, <1>3, ArgKept DEF ArgOK, UsersArg
<1>5. PICK new : new = [status |-> arg.status,
                        key |-> IF arg.status = "SUSPENDED" /\ account[arg.user].key = "ACTIVE"
                                THEN "SUSPENDED" ELSE account[arg.user].key]
  OBVIOUS
<1>6. account' = [account EXCEPT ![arg.user] = new] /\ Reply(c, Ok(account'[arg.user]))
  BY <1>3, <1>5 DEF ServeUserStatus
<1>7. new \in Account
  BY <1>1, <1>4, <1>5 DEF UsersRowsOK, Account
<1>8. UsersRowsOK' /\ account'[arg.user] = new
  BY <1>1, <1>2, <1>4, <1>6, <1>7 DEF UsersRowsOK
<1>9. DataOK(calls[c].op, calls[c].arg, new, Stored')
  BY <1>2, <1>7 DEF DataOK, UsersData, PaymentsData, PackagesData, ListsData
<1> QED
  BY <1>2, <1>6, <1>8, <1>9, UsersRowsStep, Answered

LEMMA ServeUserKeyStep ==
  ASSUME IInv, NEW c \in Slots, ServeUserKey(c), UNCHANGED <<paymentVars, catalog, listsVars>>
  PROVE  IInv'
<1>1. UsersRowsOK
  BY DEF IInv, RowsOK
<1>2. calls[c].op = "user.key" /\ UNCHANGED <<path, ui, topUps, entries>>
  BY DEF ServeUserKey, Sent
<1>3. PICK arg : arg = calls[c].arg
  OBVIOUS
<1>4. arg.user \in Users /\ arg.act \in {"suspend", "resume", "revoke"}
  BY <1>2, <1>3, ArgKept DEF ArgOK, UsersArg
<1>5. CASE \E to \in {"SUSPENDED", "ACTIVE", "REVOKED"} :
             account' = [account EXCEPT ![arg.user].key = to] /\ Reply(c, Ok(None))
  <2>1. UsersRowsOK'
    BY <1>1, <1>2, <1>4, <1>5 DEF UsersRowsOK, Account
  <2> QED
    BY <1>2, <1>5, <2>1, UsersRowsStep, Acknowledged DEF Silent
<1>6. CASE UNCHANGED account /\ Reply(c, Error("refused"))
  BY <1>2, <1>6, Refused DEF Rows, usersVars
<1> QED
  BY <1>3, <1>4, <1>5, <1>6 DEF ServeUserKey

\* A reference that has an entry has its payment, which has it under its key:
\* another submit of it is answered with that payment.
LEMMA ServeTopUpStep ==
  ASSUME IInv, NEW c \in Slots, ServeTopUp(c), UNCHANGED <<paymentVars, catalog, listsVars>>
  PROVE  IInv'
<1>1. UsersRowsOK
  BY DEF IInv, RowsOK
<1>2. calls[c].op = "user.topup" /\ UNCHANGED <<path, ui>>
  BY DEF ServeTopUp, Sent
<1>3. PICK arg : arg = calls[c].arg
  OBVIOUS
<1>4. /\ arg.user \in Users /\ arg.user # 0 /\ arg.reference \in References \cup {None}
      /\ arg.reference \in References => arg.key = arg.reference
  BY <1>2, <1>3, ArgKept, AdminUsersAssumption DEF ArgOK, UsersArg, TopUpKey, Users
<1>5. PICK row : row = IF arg.key \in References THEN topUps[arg.key] ELSE 0
  OBVIOUS
<1>6. CASE /\ row = 0 /\ \A r \in References : entries[r] < MaxEntries
           /\ topUps' = [r \in References |-> IF r = arg.key THEN arg.user ELSE topUps[r]]
           /\ entries' = [r \in References |-> entries[r] + IF r = arg.reference THEN 1 ELSE 0]
           /\ Credited(arg.user)
           /\ Reply(c, Ok(None))
  <2>1. account' \in [Users -> Account]
    BY <1>1, <1>4, <1>6 DEF UsersRowsOK, Credited, Account
  <2>2. topUps' \in [References -> {0} \cup Users]
    BY <1>1, <1>4, <1>6 DEF UsersRowsOK
  <2>3. ASSUME NEW r \in References
        PROVE  /\ entries'[r] \in 0 .. MaxEntries /\ entries'[r] <= 1
               /\ topUps'[r] = 0 => entries'[r] = 0
    <3>1. entries[r] \in 0 .. MaxEntries /\ entries[r] < MaxEntries /\ MaxEntries \in Nat
      BY <1>1, <1>6, AdminUsersAssumption DEF UsersRowsOK
    <3>2. CASE r = arg.reference
      <4>1. entries[r] = 0 /\ topUps'[r] = arg.user
        BY <1>1, <1>4, <1>5, <1>6, <3>2 DEF UsersRowsOK
      <4> QED
        BY <1>4, <1>6, <3>1, <3>2, <4>1
    <3>3. CASE r # arg.reference
      <4>1. entries'[r] = entries[r]
        BY <1>6, <3>1, <3>3
      <4> QED
        BY <1>1, <1>4, <1>6, <3>1, <4>1 DEF UsersRowsOK
    <3> QED
      BY <3>2, <3>3
  <2>4. entries' \in [References -> 0 .. MaxEntries]
    BY <1>6, <2>3
  <2>5. UsersRowsOK'
    BY <2>1, <2>2, <2>3, <2>4 DEF UsersRowsOK
  <2> QED
    BY <1>2, <1>6, <2>5, UsersRowsStep, Acknowledged DEF Silent
<1>7. CASE Reply(c, Ok(None)) /\ UNCHANGED usersVars
  BY <1>2, <1>7, RowsKept, Acknowledged DEF Silent, Rows, IInv
<1>8. CASE Reply(c, Error("conflict")) /\ UNCHANGED usersVars
  BY <1>2, <1>8, Refused DEF Rows
<1> QED
  BY <1>3, <1>5, <1>6, <1>7, <1>8 DEF ServeTopUp

LEMMA ServeAdjustmentStep ==
  ASSUME IInv, NEW c \in Slots, ServeAdjustment(c),
         UNCHANGED <<paymentVars, catalog, listsVars>>
  PROVE  IInv'
<1>1. calls[c].op = "user.adjust" /\ UNCHANGED <<path, ui, Rows>>
  BY DEF ServeAdjustment, Sent, Rows
<1>2. Reply(c, Ok(None)) \/ Reply(c, Error("refused"))
  BY DEF ServeAdjustment
<1> QED
  BY <1>1, <1>2, RowsKept, Acknowledged, Refused DEF Silent, IInv

-----------------------------------------------------------------------------
(* What the API does: payments.                                            *)

LEMMA PaymentListOK ==
  ASSUME RowsOK, NEW f \in PaymentFilters, NEW off \in PaymentOffsets
  PROVE  PaymentList(f, off) \in PaymentsPage
<1> DEFINE found == {p \in Orders : f = "review_queue" => InQueue(pay[p].status)}
           before(p) == Cardinality({q \in found : q < p})
           items == {ItemOf(p) : p \in {q \in found : before(q) \in off .. off + ListLimit - 1}}
<1>1. items \in SUBSET Item
  <2>1. \A p \in Orders : pay[p].status \in OrderStatuses
    BY DEF RowsOK, PaymentRowsOK, AdminPayment
  <2> HIDE DEF before
  <2>2. ASSUME NEW x \in items PROVE x \in Item
    <3>1. PICK p \in Orders : x = ItemOf(p)
      OBVIOUS
    <3> QED
      BY <2>1, <3>1 DEF ItemOf, Item
  <2> QED
    BY <2>2
<1>2. Cardinality(found) \in 0 .. NumPayments
  BY HowMany, AdminPaymentsAssumption DEF Orders
<1>3. PaymentList(f, off) = [items |-> items, offset |-> off, total |-> Cardinality(found)]
  BY DEF PaymentList
<1> HIDE DEF found, before, items
<1> QED
  BY <1>1, <1>2, <1>3 DEF PaymentsPage

LEMMA ServePaymentReadsStep ==
  ASSUME IInv, NEW c \in Slots, ServePaymentReads(c), UNCHANGED <<usersVars, catalog, listsVars>>
  PROVE  IInv'
<1>1. UNCHANGED <<path, ui, Rows>>
  BY DEF ServePaymentReads, Rows
<1>2. RowsOK /\ RowsOK' /\ Stored' = Stored
  BY <1>1, RowsKept DEF IInv
<1>3. PICK arg : arg = calls[c].arg
  OBVIOUS
<1>4. CASE calls[c].op = "payments.list" /\ Reply(c, Ok(PaymentList(arg.filter, arg.offset)))
  <2>1. PaymentList(arg.filter, arg.offset) \in PaymentsPage
    BY <1>2, <1>3, <1>4, ArgKept, PaymentListOK DEF ArgOK, PaymentsArg
  <2>2. DataOK(calls[c].op, calls[c].arg, PaymentList(arg.filter, arg.offset), Stored')
    BY <1>4, <2>1 DEF DataOK, UsersData, PaymentsData, PackagesData, ListsData
  <2> QED
    BY <1>1, <1>2, <1>4, <2>2, Answered
<1>5. CASE calls[c].op \in {"payments.get", "payments.reget"} /\ Reply(c, Ok(ItemOf(arg.id)))
  <2>1. ItemOf(arg.id) \in Item
    BY <1>2, <1>3, <1>5, ArgKept
       DEF ArgOK, PaymentsArg, ItemOf, Item, RowsOK, PaymentRowsOK, AdminPayment
  <2>2. DataOK(calls[c].op, calls[c].arg, ItemOf(arg.id), Stored')
    BY <1>5, <2>1 DEF DataOK, UsersData, PaymentsData, PackagesData, ListsData
  <2> QED
    BY <1>1, <1>2, <1>5, <2>2, Answered
<1>6. CASE calls[c].op = "settings.get" /\ Reply(c, Ok(settings))
  <2>1. DataOK(calls[c].op, calls[c].arg, settings, Stored')
    BY <1>2, <1>6
       DEF DataOK, UsersData, PaymentsData, PackagesData, ListsData, RowsOK, PaymentRowsOK
  <2> QED
    BY <1>1, <1>2, <1>6, <2>1, Answered
<1> QED
  BY <1>3, <1>4, <1>5, <1>6 DEF ServePaymentReads, Sent

\* Only the payments' rows change.
LEMMA PaymentRowsStep ==
  ASSUME IInv, PaymentRowsOK', UNCHANGED <<usersVars, catalog, listsVars>>
  PROVE  RowsOK' /\ Stored' = Stored
<1>1. Stored' = Stored
  BY DEF Stored
<1> QED
  BY <1>1 DEF IInv, RowsOK, UsersRowsOK, ListRowsOK, usersVars, listsVars

\* The reference that approves a payment is the one that was typed for it.
LEMMA ServeApproveStep ==
  ASSUME IInv, NEW c \in Slots, ServeApprove(c), UNCHANGED <<usersVars, catalog, listsVars>>
  PROVE  IInv'
<1>1. PaymentRowsOK
  BY DEF IInv, RowsOK
<1>2. calls[c].op = "payments.approve" /\ UNCHANGED <<path, ui, settings>>
  BY DEF ServeApprove, Sent
<1>3. PICK arg : arg = calls[c].arg
  OBVIOUS
<1>4. arg.id \in Orders /\ arg.reference = Transfer[arg.id]
  BY <1>2, <1>3, ArgKept DEF ArgOK, PaymentsArg
<1>5. CASE /\ pay' = [pay EXCEPT ![arg.id] = [status |-> "paid", reference |-> arg.reference]]
           /\ Reply(c, Ok(None))
  <2>1. [status |-> "paid", reference |-> arg.reference] \in AdminPayment
    BY <1>4 DEF AdminPayment, OrderStatuses
  <2>2. PaymentRowsOK'
    BY <1>1, <1>2, <1>4, <1>5, <2>1 DEF PaymentRowsOK
  <2> QED
    BY <1>2, <1>5, <2>2, PaymentRowsStep, Acknowledged DEF Silent
<1>6. CASE Reply(c, Error("refused")) /\ UNCHANGED pay
  BY <1>2, <1>6, Refused DEF Rows, paymentVars
<1> QED
  BY <1>3, <1>5, <1>6 DEF ServeApprove

\* A payment's status alone changes.
LEMMA StatusChanged ==
  ASSUME IInv, NEW p \in Orders, NEW s \in OrderStatuses, pay' = [pay EXCEPT ![p].status = s],
         UNCHANGED <<settings, usersVars, catalog, listsVars>>
  PROVE  RowsOK' /\ Stored' = Stored
<1>1. PaymentRowsOK
  BY DEF IInv, RowsOK
<1>2. PICK new : new = [pay[p] EXCEPT !.status = s]
  OBVIOUS
<1>3. pay' = [pay EXCEPT ![p] = new]
  BY <1>2
<1>4. new \in AdminPayment /\ new.reference = pay[p].reference
  BY <1>1, <1>2 DEF PaymentRowsOK, AdminPayment
<1>5. PaymentRowsOK'
  BY <1>1, <1>3, <1>4 DEF PaymentRowsOK
<1> QED
  BY <1>5, PaymentRowsStep

LEMMA ServeRejectStep ==
  ASSUME IInv, NEW c \in Slots, ServeReject(c), UNCHANGED <<usersVars, catalog, listsVars>>
  PROVE  IInv'
<1>1. calls[c].op = "payments.reject" /\ UNCHANGED <<path, ui, settings>>
  BY DEF ServeReject, Sent
<1>2. PICK arg : arg = calls[c].arg
  OBVIOUS
<1>3. arg.id \in Orders
  BY <1>1, <1>2, ArgKept DEF ArgOK, PaymentsArg
<1>4. CASE pay' = [pay EXCEPT ![arg.id].status = "rejected"] /\ Reply(c, Ok(None))
  <2>1. RowsOK' /\ Stored' = Stored
    BY <1>1, <1>3, <1>4, StatusChanged DEF OrderStatuses
  <2> QED
    BY <1>1, <1>4, <2>1, Acknowledged DEF Silent
<1>5. CASE Reply(c, Error("refused")) /\ UNCHANGED pay
  BY <1>1, <1>5, Refused DEF Rows, paymentVars
<1> QED
  BY <1>2, <1>4, <1>5 DEF ServeReject

\* Something happens at the API that no request of the tab asked for.
LEMMA Elsewhere ==
  ASSUME IInv, RowsOK', Stored' = Stored, UNCHANGED <<path, ui, calls>>
  PROVE  IInv'
BY DEF IInv, CallsOK, PageOK, Waits

LEMMA ProofArrivesStep ==
  ASSUME IInv, ProofArrives, UNCHANGED <<usersVars, catalog, listsVars>>
  PROVE  IInv'
<1>1. UNCHANGED <<path, ui, calls, settings>>
  BY DEF ProofArrives
<1>2. PICK p \in Orders : pay' = [pay EXCEPT ![p].status = "pending_review"]
  BY DEF ProofArrives
<1> QED
  BY <1>1, <1>2, StatusChanged, Elsewhere DEF OrderStatuses

LEMMA ServeSettingsStep ==
  ASSUME IInv, NEW c \in Slots, ServeSettings(c), UNCHANGED <<usersVars, catalog, listsVars>>
  PROVE  IInv'
<1>1. PaymentRowsOK
  BY DEF IInv, RowsOK
<1>2. calls[c].op \in {"settings.save", "settings.upload"} /\ UNCHANGED <<path, ui, pay>>
  BY DEF ServeSettings, Sent
<1>3. CASE settings' = 3 - settings /\ Reply(c, Ok(settings'))
  <2>1. PICK version : version = settings'
    OBVIOUS
  <2>2. PaymentRowsOK' /\ version \in 1 .. 2
    BY <1>1, <1>2, <1>3, <2>1 DEF PaymentRowsOK
  <2>3. DataOK(calls[c].op, calls[c].arg, version, Stored')
    BY <1>2, <2>2 DEF DataOK, UsersData, PaymentsData, PackagesData, ListsData
  <2> QED
    BY <1>2, <1>3, <2>1, <2>2, <2>3, PaymentRowsStep, Answered
<1>4. CASE Reply(c, Error("invalid")) /\ UNCHANGED settings
  BY <1>2, <1>4, Refused DEF Rows, paymentVars
<1> QED
  BY <1>3, <1>4 DEF ServeSettings

-----------------------------------------------------------------------------
(* What the API does: packages.                                            *)

LEMMA PackageShape ==
  /\ \A n \in Numbers : PackageOf(n) \subseteq CreditPackage
  /\ \A n \in Numbers : NoPackage \notin PackageOf(n)
  /\ \A p \in CreditPackage : p # NoPackage
BY AdminPackagesAssumption DEF PackageOf, CreditPackage, NoPackage, Numbers

LEMMA ServePackagesStep ==
  ASSUME IInv, NEW c \in Slots, ServePackages(c),
         UNCHANGED <<usersVars, paymentVars, listsVars>>
  PROVE  IInv'
<1>1. UNCHANGED <<path, ui, Rows>> /\ calls[c].op \in {"packages.list", "packages.relist"}
  BY DEF ServePackages, Rows, Sent
<1>2. RowsOK /\ RowsOK' /\ Stored' = Stored
  BY <1>1, RowsKept DEF IInv
<1>3. DataOK(calls[c].op, calls[c].arg, catalog, Stored')
  BY <1>1, <1>2 DEF DataOK, UsersData, PaymentsData, PackagesData, ListsData, RowsOK
<1> QED
  BY <1>1, <1>2, <1>3, Answered DEF ServePackages

\* One package is written, under its own number.
LEMMA PackageWrittenStep ==
  ASSUME IInv, NEW n \in Numbers, NEW new \in PackageOf(n), catalog' = [catalog EXCEPT ![n] = new],
         UNCHANGED <<usersVars, paymentVars, listsVars>>
  PROVE  RowsOK' /\ Stored \subseteq Stored'
<1>1. Catalogue(catalog, Stored)
  BY DEF IInv, RowsOK
<1>2. new # NoPackage /\ new \in CreditPackage
  BY PackageShape
<1>3. /\ catalog' \in [Numbers -> CreditPackage \cup {NoPackage}]
      /\ catalog'[n] = new /\ \A m \in Numbers \ {n} : catalog'[m] = catalog[m]
  BY <1>1, <1>2 DEF Catalogue
<1>4. Stored \subseteq Stored'
  BY <1>2, <1>3 DEF Stored
<1>5. ASSUME NEW m \in Numbers, catalog'[m] # NoPackage
      PROVE  m \in Stored' /\ catalog'[m] \in PackageOf(m)
  <2>1. m \in Stored'
    BY <1>5 DEF Stored
  <2>2. catalog'[m] \in PackageOf(m)
    BY <1>1, <1>3, <1>5 DEF Catalogue
  <2> QED
    BY <2>1, <2>2
<1>6. Catalogue(catalog', Stored')
  BY <1>3, <1>5 DEF Catalogue
<1> QED
  BY <1>4, <1>6
     DEF IInv, RowsOK, UsersRowsOK, PaymentRowsOK, ListRowsOK, usersVars, paymentVars, listsVars

LEMMA ServePackageWritesStep ==
  ASSUME IInv, NEW c \in Slots, ServeCreatePackage(c) \/ ServeUpdatePackage(c),
         UNCHANGED <<usersVars, paymentVars, listsVars>>
  PROVE  IInv'
<1>1. /\ calls[c].op \in {"package.create", "package.update", "package.toggle"}
      /\ Reply(c, Ok(None)) /\ UNCHANGED <<path, ui>>
  BY DEF ServeCreatePackage, ServeUpdatePackage, Sent
<1>2. PICK arg : arg = calls[c].arg
  OBVIOUS
<1>3. PackagesArg(calls[c].op, arg, Stored) /\ Catalogue(catalog, Stored)
  BY <1>2, ArgKept DEF ArgOK, IInv, RowsOK
<1>4. CASE /\ calls[c].op = "package.create"
           /\ catalog' = [catalog EXCEPT ![arg.input.name] = arg.input]
  BY <1>1, <1>3, <1>4, PackageWrittenStep, Acknowledged DEF PackagesArg, Silent
<1>5. CASE /\ calls[c].op = "package.update"
           /\ catalog' = [catalog EXCEPT ![arg.id] = arg.input]
  BY <1>1, <1>3, <1>5, PackageWrittenStep, Acknowledged DEF PackagesArg, Silent
<1>6. CASE /\ calls[c].op = "package.toggle"
           /\ catalog' = [catalog EXCEPT ![arg.id].active = arg.active]
  <2>1. arg.id \in Numbers /\ catalog[arg.id] # NoPackage /\ arg.active \in BOOLEAN
    BY <1>3, <1>6 DEF PackagesArg, Stored
  <2>2. PICK new : new = [catalog[arg.id] EXCEPT !.active = arg.active]
    OBVIOUS
  <2>3. new \in PackageOf(arg.id)
    BY <1>3, <2>1, <2>2 DEF Catalogue, PackageOf
  <2>4. catalog' = [catalog EXCEPT ![arg.id] = new]
    BY <1>6, <2>2
  <2> QED
    BY <1>1, <2>1, <2>3, <2>4, PackageWrittenStep, Acknowledged DEF Silent
<1> QED
  BY <1>2, <1>4, <1>5, <1>6 DEF ServeCreatePackage, ServeUpdatePackage, Sent

-----------------------------------------------------------------------------
(* What the API does: lists and syncs.                                     *)

\* A page of a list is within what the list holds.
LEMMA ListPageOK ==
  ASSUME RowsOK, NEW q \in ListQuery
  PROVE  RowsPage(ListPage(q)) /\ ListPage(q).query = q
<1>1. q.filter \in ListFilters /\ q.offset \in Nat
  BY AdminListsAssumption DEF ListQuery, ListOffsets
<1>2. listed[q.filter] \in 0 .. MaxListed /\ MaxListed \in Nat /\ ListSize \in Nat \ {0}
  BY <1>1, AdminListsAssumption DEF RowsOK, ListRowsOK
<1>3. PICK left : left = IF listed[q.filter] > q.offset THEN listed[q.filter] - q.offset ELSE 0
  OBVIOUS
<1>4. ListPage(q) = [query |-> q, length |-> IF left < ListSize THEN left ELSE ListSize,
                     total |-> listed[q.filter]]
  BY <1>3 DEF ListPage
<1>5. left \in Nat /\ (left >= ListSize => q.offset + ListSize <= MaxListed)
  BY <1>1, <1>2, <1>3
<1>6. (IF left < ListSize THEN left ELSE ListSize) \in 0 .. ListSize
  BY <1>2, <1>5
<1>7. ListPage(q).length = ListSize => q.offset + ListSize <= MaxListed
  BY <1>2, <1>4, <1>5
<1> QED
  BY <1>2, <1>4, <1>6, <1>7 DEF RowsPage

LEMMA ServeListsStep ==
  ASSUME IInv, NEW c \in Slots, ServeLists(c), UNCHANGED <<usersVars, paymentVars, catalog>>
  PROVE  IInv'
<1>1. UNCHANGED <<path, ui, Rows>>
  BY DEF ServeLists, Rows
<1>2. RowsOK /\ RowsOK' /\ Stored' = Stored
  BY <1>1, RowsKept DEF IInv
<1>3. PICK arg : arg = calls[c].arg
  OBVIOUS
<1>4. CASE calls[c].op = "list.get" /\ Reply(c, Ok(ListPage(arg)))
  <2>1. RowsPage(ListPage(arg)) /\ ListPage(arg).query = arg
    BY <1>2, <1>3, <1>4, ArgKept, ListPageOK DEF ArgOK, ListsArg
  <2>2. DataOK(calls[c].op, calls[c].arg, ListPage(arg), Stored')
    BY <1>3, <1>4, <2>1 DEF DataOK, UsersData, PaymentsData, PackagesData, ListsData
  <2> QED
    BY <1>1, <1>2, <1>4, <2>2, Answered
<1>5. CASE /\ calls[c].op \in {"sync.status", "sync.restatus"}
           /\ Reply(c, Ok([known |-> TRUE, running |-> running, healthy |-> healthy]))
  <2>1. [known |-> TRUE, running |-> running, healthy |-> healthy] \in SyncStatus
    BY <1>2 DEF RowsOK, ListRowsOK, SyncStatus
  <2>2. DataOK(calls[c].op, calls[c].arg,
               [known |-> TRUE, running |-> running, healthy |-> healthy], Stored')
    BY <1>5, <2>1 DEF DataOK, UsersData, PaymentsData, PackagesData, ListsData
  <2> QED
    BY <1>1, <1>2, <1>5, <2>2, Answered
<1>6. CASE calls[c].op = "admin.get" /\ Reply(c, Ok(None))
  BY <1>1, <1>2, <1>6, Acknowledged DEF Silent
<1> QED
  BY <1>3, <1>4, <1>5, <1>6 DEF ServeLists, Sent

\* Only the events and the state of the syncs change.
LEMMA ListRowsStep ==
  ASSUME IInv, ListRowsOK', UNCHANGED <<usersVars, paymentVars, catalog>>
  PROVE  RowsOK' /\ Stored' = Stored
<1>1. Stored' = Stored
  BY DEF Stored
<1> QED
  BY <1>1 DEF IInv, RowsOK, UsersRowsOK, PaymentRowsOK, usersVars, paymentVars

LEMMA ServeSyncStep ==
  ASSUME IInv, NEW c \in Slots, ServeSync(c), UNCHANGED <<usersVars, paymentVars, catalog>>
  PROVE  IInv'
<1>1. ListRowsOK
  BY DEF IInv, RowsOK
<1>2. calls[c].op \in {"usage.sync", "sync.run"} /\ UNCHANGED <<path, ui, running>>
  BY DEF ServeSync, Sent
<1>3. CASE /\ healthy' = TRUE /\ Reply(c, Ok(None))
           /\ \E fs \in SUBSET ListFilters :
                listed' = [f \in ListFilters |->
                  IF f \in fs /\ listed[f] < MaxListed THEN listed[f] + 1 ELSE listed[f]]
  <2>1. PICK fs \in SUBSET ListFilters :
          listed' = [f \in ListFilters |->
            IF f \in fs /\ listed[f] < MaxListed THEN listed[f] + 1 ELSE listed[f]]
    BY <1>3
  <2>2. listed' \in [ListFilters -> 0 .. MaxListed]
    BY <1>1, <2>1, AdminListsAssumption DEF ListRowsOK
  <2>3. ListRowsOK'
    BY <1>1, <1>2, <1>3, <2>2 DEF ListRowsOK
  <2> QED
    BY <1>2, <1>3, <2>3, ListRowsStep, Acknowledged DEF Silent
<1>4. CASE /\ healthy' = FALSE /\ Reply(c, Error("sync_failed")) /\ UNCHANGED listed
  <2>1. ListRowsOK'
    BY <1>1, <1>2, <1>4 DEF ListRowsOK
  <2>2. Error("sync_failed").ok = FALSE
    BY DEF Error
  <2> QED
    BY <1>2, <1>4, <2>1, <2>2, ListRowsStep, Served
<1>5. CASE Reply(c, Error("locked")) /\ UNCHANGED <<listed, healthy>>
  BY <1>2, <1>5, Refused DEF Rows, listsVars
<1> QED
  BY <1>3, <1>4, <1>5 DEF ServeSync

LEMMA WorkerRunsStep ==
  ASSUME IInv, WorkerRuns, UNCHANGED <<usersVars, paymentVars, catalog>>
  PROVE  IInv'
<1>1. UNCHANGED <<path, ui, calls, listed>>
  BY DEF WorkerRuns
<1>2. ListRowsOK'
  BY DEF IInv, RowsOK, ListRowsOK, WorkerRuns
<1> QED
  BY <1>1, <1>2, ListRowsStep, Elsewhere

-----------------------------------------------------------------------------
(* The handlers of a page: the rows are left alone.                        *)

\* What a handler has to leave behind.
LEMMA HandlerStep ==
  ASSUME IInv, UNCHANGED <<path, Rows>>, CallsOK', PageAt(path, ui', Waits', Stored)
  PROVE  IInv'
<1>1. RowsOK' /\ Stored' = Stored
  BY RowsKept DEF IInv
<1>2. PageOK'
  BY <1>1 DEF PageOK
<1> QED
  BY <1>1, <1>2 DEF IInv

\* A handler that sends no request.
LEMMA QuietStep ==
  ASSUME IInv, UNCHANGED <<path, calls, Rows>>, PageAt(path, ui', Waits, Stored)
  PROVE  IInv'
<1>1. RowsOK' /\ Stored' = Stored
  BY RowsKept DEF IInv
<1>2. CallsOK' /\ Waits' = Waits
  BY <1>1 DEF IInv, CallsOK, Waits
<1> QED
  BY <1>2, HandlerStep

\* The page shown is one of those that wait for this operation.
LEMMA Here ==
  ASSUME IInv
  PROVE  PageAt(path, ui, Waits, Stored)
BY DEF IInv, PageOK

\* Which page waits for which request.
LEMMA Owner ==
  ASSUME IInv, NEW c \in Slots, calls[c].mine
  PROVE  /\ calls[c].op \in {"users.list", "users.status", "users.relist"} => path = "users"
         /\ calls[c].op \in {"user.get", "user.status", "user.key", "user.topup", "user.adjust",
                             "user.reload"} => path = "user"
         /\ calls[c].op \in {"payments.list", "payments.get", "payments.approve",
                             "payments.reject", "payments.reget"} => path = "payments"
         /\ calls[c].op \in {"settings.get", "settings.save", "settings.upload"} =>
              path = "settings"
         /\ calls[c].op \in {"packages.list", "package.create", "package.update",
                             "package.toggle", "packages.relist"} => path = "packages"
         /\ calls[c].op \in {"list.get", "usage.sync"} => path \in Lists
         /\ calls[c].op \in {"sync.status", "sync.run", "sync.restatus"} => path = "sync"
         /\ calls[c].op = "admin.get" => path = "admin"
<1>1. calls[c].op \in OpsOf(path) /\ path \in AdminPages \cup {"address"}
  BY Owned
<1> QED
  BY <1>1 DEF OpsOf, AdminPages, Lists

\* What is known of each page.
LEMMA Only ==
  ASSUME NEW u, NEW waits, NEW stored
  PROVE  /\ PageAt("admin", u, waits, stored) <=> AdminOK(u, waits)
         /\ PageAt("users", u, waits, stored) <=> UsersOK(u, waits)
         /\ PageAt("user", u, waits, stored) <=> UserOK(u, waits)
         /\ PageAt("payments", u, waits, stored) <=> PaymentsOK(u, waits)
         /\ PageAt("settings", u, waits, stored) <=> SettingsOK(u, waits)
         /\ PageAt("packages", u, waits, stored) <=> PackagesOK(u, waits, stored)
         /\ \A p \in Lists : PageAt(p, u, waits, stored) <=> ListOK(u, waits)
         /\ PageAt("sync", u, waits, stored) <=> SyncOK(u, waits)
BY DEF PageAt, AdminPages, Lists

-----------------------------------------------------------------------------
(* The directory of users.                                                 *)

LEMMA LoadUsersStep ==
  ASSUME IInv, path = "users", NEW f \in UserFilter, LoadUsers(f),
         UNCHANGED <<paymentVars, catalog, listsVars>>
  PROVE  IInv'
<1>1. UNCHANGED <<path, Rows>> /\ Stored' = Stored
  BY RowsKept DEF LoadUsers, Rows
<1>2. CallsOK' /\ Waits \subseteq Waits' /\ "users.list" \in Waits'
  <2>1. ArgOK("users.list", f, Stored)
    BY DEF ArgOK, UsersArg, PaymentsArg, PackagesArg, ListsArg
  <2> QED
    BY <1>1, <2>1, SendStep DEF LoadUsers, ConsoleOps, OpsOf, Lists
<1>3. UsersOK(ui, Waits)
  BY Here, Only
<1>4. UsersOK(ui', Waits')
  BY <1>2, <1>3 DEF LoadUsers, UsersOK, UsersState
<1> QED
  BY <1>1, <1>2, <1>4, Only, HandlerStep

\* A page of users or of payments is finite.
LEMMA RowsFinite ==
  ASSUME NEW ids, IsFiniteSet(ids), NEW statuses, IsFiniteSet(statuses),
         NEW rows \in SUBSET [id : ids, status : statuses]
  PROVE  Cardinality(rows) \in Nat
<1> DEFINE pairs == ids \X statuses
           all == [id : ids, status : statuses]
           f == [x \in pairs |-> [id |-> x[1], status |-> x[2]]]
<1>1. IsFiniteSet(pairs)
  BY FS_Product
<1>2. f \in Surjection(pairs, all)
  <2>1. f \in [pairs -> all]
    OBVIOUS
  <2>2. ASSUME NEW row \in all PROVE \E x \in pairs : f[x] = row
    <3>1. <<row.id, row.status>> \in pairs
      OBVIOUS
    <3> QED
      BY <3>1
  <2> QED
    BY <2>1, <2>2 DEF Surjection
<1>3. IsFiniteSet(all)
  BY <1>1, <1>2, FS_Surjection
<1> QED
  BY <1>3, FS_Subset, FS_CardinalityType

LEMMA StatusesFinite ==
  /\ IsFiniteSet(Users) /\ IsFiniteSet(UserStatuses)
  /\ IsFiniteSet(Orders) /\ IsFiniteSet(OrderStatuses)
<1>1. IsFiniteSet(Users) /\ IsFiniteSet(Orders)
  BY FS_Interval, AdminUsersAssumption, AdminPaymentsAssumption DEF Users, Orders
<1>2. \A a : IsFiniteSet({a})
  BY FS_Singleton
<1>3. \A a, b : IsFiniteSet({a} \cup {b})
  BY <1>2, FS_AddElement
<1>4. \A a, b, d : IsFiniteSet({a} \cup {b} \cup {d})
  BY <1>3, FS_AddElement
<1>5. \A a, b, d, e, g : IsFiniteSet(({a} \cup {b} \cup {d}) \cup ({e} \cup {g}))
  BY <1>3, <1>4, FS_Union
<1>6. /\ UserStatuses = {"ACTIVE"} \cup {"SUSPENDED"}
      /\ OrderStatuses = ({"pending_proof"} \cup {"pending_review"} \cup {"needs_review"})
                           \cup ({"paid"} \cup {"rejected"})
  BY DEF UserStatuses, OrderStatuses
<1> QED
  BY <1>1, <1>3, <1>5, <1>6

LEMMA UsersFormsStep ==
  ASSUME IInv, path = "users", ApplyUserFilters \/ RefreshUsers \/ TurnUsersPage,
         UNCHANGED <<paymentVars, catalog, listsVars>>
  PROVE  IInv'
<1>1. UsersOK(ui, Waits)
  BY Here, Only
<1>2. PageSize \in Nat \ {0} /\ NumUsers \in Nat
  BY AdminUsersAssumption
<1>3. /\ ui.filters \in UserFilter
      /\ ui.data.offset \in {PageSize * n : n \in 0 .. NumUsers}
      /\ ui.data.rows \in SUBSET [id : Users, status : UserStatuses]
      /\ ui.data.total \in 0 .. NumUsers
  BY <1>1 DEF UsersOK, UsersState
<1>4. ASSUME NEW off \in {PageSize * n : n \in 0 .. NumUsers}
      PROVE  [ui.filters EXCEPT !.offset = off] \in UserFilter
  BY <1>3, <1>4 DEF UserFilter
<1>5. CASE ApplyUserFilters
  <2>1. PICK s \in StatusFilters : LoadUsers([status |-> s, offset |-> 0])
    BY <1>5 DEF ApplyUserFilters
  <2>2. 0 = PageSize * 0 /\ 0 \in 0 .. NumUsers
    BY <1>2
  <2>3. [status |-> s, offset |-> 0] \in UserFilter
    BY <2>2 DEF UserFilter
  <2> QED
    BY <2>1, <2>3, LoadUsersStep
<1>6. CASE RefreshUsers
  BY <1>3, <1>6, LoadUsersStep DEF RefreshUsers
<1>7. CASE UsersPrevious /\ LoadUsers([ui.filters EXCEPT !.offset =
             IF ui.data.offset > PageSize THEN ui.data.offset - PageSize ELSE 0])
  BY <1>2, <1>3, <1>4, <1>7, PreviousOffset, LoadUsersStep
<1>8. CASE UsersNext /\ LoadUsers([ui.filters EXCEPT !.offset = ui.data.offset + PageSize])
  <2>1. Cardinality(ui.data.rows) \in Nat
    BY <1>3, RowsFinite, StatusesFinite
  <2>2. ui.data.offset \in Nat
    BY <1>2, <1>3
  <2>3. ui.data.offset < NumUsers
    BY <1>2, <1>3, <1>8, <2>1, <2>2 DEF UsersNext
  <2> QED
    BY <1>2, <1>3, <1>4, <1>8, <2>3, NextOffset, LoadUsersStep
<1> QED
  BY <1>5, <1>6, <1>7, <1>8 DEF TurnUsersPage

LEMMA SetStatusStep ==
  ASSUME IInv, path = "users", SetStatus, UNCHANGED <<paymentVars, catalog, listsVars>>
  PROVE  IInv'
<1>1. UNCHANGED <<path, Rows>> /\ Stored' = Stored
  BY RowsKept DEF SetStatus, Rows
<1>2. UsersOK(ui, Waits)
  BY Here, Only
<1>3. PICK row \in ui.data.rows :
        /\ ui' = [ui EXCEPT !.acting = row.id, !.error = FALSE]
        /\ Send("users.status",
                [user |-> row.id, filters |-> ui.filters,
                 status |-> IF row.status = "ACTIVE" THEN "SUSPENDED" ELSE "ACTIVE"])
  BY DEF SetStatus
<1>4. row.id \in Users /\ row.id \in 0 .. NumUsers /\ ui.filters \in UserFilter
  BY <1>2, AdminUsersAssumption DEF UsersOK, UsersState, Users
<1>5. PICK arg : arg = [user |-> row.id, filters |-> ui.filters,
                        status |-> IF row.status = "ACTIVE" THEN "SUSPENDED" ELSE "ACTIVE"]
  OBVIOUS
<1>6. ArgOK("users.status", arg, Stored)
  BY <1>4, <1>5 DEF ArgOK, UsersArg, PaymentsArg, PackagesArg, ListsArg, UserStatuses
<1>7. CallsOK' /\ Waits \subseteq Waits' /\ "users.status" \in Waits'
  BY <1>1, <1>3, <1>5, <1>6, SendStep DEF ConsoleOps, OpsOf, Lists
<1>8. UsersOK(ui', Waits')
  BY <1>2, <1>3, <1>4, <1>7 DEF UsersOK, UsersState
<1> QED
  BY <1>1, <1>7, <1>8, Only, HandlerStep

LEMMA UsersLoadedStep ==
  ASSUME IInv, NEW c \in Slots, UsersLoaded(c), UNCHANGED <<paymentVars, catalog, listsVars>>
  PROVE  IInv'
<1>1. UNCHANGED <<path, Rows>> /\ Stored' = Stored
  BY RowsKept DEF UsersLoaded, Rows
<1>2. calls[c].op = "users.list" /\ path = "users" /\ Purpose(calls[c]) = "users.list"
  BY Owner DEF UsersLoaded, Done, Purpose
<1>3. CallsOK' /\ \A w \in Waits : w # "users.list" => w \in Waits'
  BY <1>1, <1>2, SettleStep DEF UsersLoaded
<1>4. UsersOK(ui, Waits)
  BY <1>2, Here, Only
<1>5. calls[c].ans.ok => calls[c].ans.data \in UsersPage /\ calls[c].arg \in UserFilter
  BY <1>2, ArgKept DEF ArgOK, UsersArg, DataOK, UsersData
<1>6. UsersOK(ui', Waits')
  BY <1>3, <1>4, <1>5 DEF UsersLoaded, UsersOK, UsersState, UsersPage
<1> QED
  BY <1>1, <1>2, <1>3, <1>6, Only, HandlerStep

LEMMA StatusSetStep ==
  ASSUME IInv, NEW c \in Slots, StatusSet(c), UNCHANGED <<paymentVars, catalog, listsVars>>
  PROVE  IInv'
<1>1. UNCHANGED <<path, Rows>> /\ Stored' = Stored
  BY RowsKept DEF StatusSet, Rows
<1>2. calls[c].op = "users.status" /\ path = "users" /\ Purpose(calls[c]) = "users.status"
  BY Owner DEF StatusSet, Done, Purpose
<1>3. UsersOK(ui, Waits)
  BY <1>2, Here, Only
<1>4. CASE Await(c, "users.relist", calls[c].arg.filters) /\ UNCHANGED ui
  <2>1. ArgOK("users.relist", calls[c].arg.filters, Stored)
    BY <1>2, ArgKept DEF ArgOK, UsersArg, PaymentsArg, PackagesArg, ListsArg
  <2>2. Purpose(Leaving("users.relist", calls[c].arg.filters, TRUE)) = "users.relist"
    BY DEF Leaving, Purpose
  <2>3. /\ CallsOK' /\ "users.relist" \in Waits'
        /\ \A w \in Waits : w # "users.status" => w \in Waits'
    BY <1>1, <1>2, <1>4, <2>1, <2>2, AwaitStep DEF StatusSet, ConsoleOps, OpsOf, Lists
  <2>4. UsersOK(ui', Waits')
    BY <1>3, <1>4, <2>3 DEF UsersOK
  <2> QED
    BY <1>1, <1>2, <2>3, <2>4, Only, HandlerStep
<1>5. 0 \in 0 .. NumUsers
  BY AdminUsersAssumption
<1>6. CASE ui' = [ui EXCEPT !.error = TRUE, !.acting = 0] /\ Settle(c)
  <2>1. CallsOK' /\ \A w \in Waits : w # "users.status" => w \in Waits'
    BY <1>1, <1>2, <1>6, SettleStep
  <2>2. UsersOK(ui', Waits')
    BY <1>3, <1>5, <1>6, <2>1 DEF UsersOK, UsersState
  <2> QED
    BY <1>1, <1>2, <2>1, <2>2, Only, HandlerStep
<1> QED
  BY <1>4, <1>6 DEF StatusSet

LEMMA RelistedStep ==
  ASSUME IInv, NEW c \in Slots, Relisted(c), UNCHANGED <<paymentVars, catalog, listsVars>>
  PROVE  IInv'
<1>1. UNCHANGED <<path, Rows>> /\ Stored' = Stored
  BY RowsKept DEF Relisted, Rows
<1>2. calls[c].op = "users.relist" /\ path = "users" /\ Purpose(calls[c]) = "users.relist"
  BY Owner DEF Relisted, Done, Purpose
<1>3. CallsOK' /\ \A w \in Waits : w # "users.relist" => w \in Waits'
  BY <1>1, <1>2, SettleStep DEF Relisted
<1>4. UsersOK(ui, Waits)
  BY <1>2, Here, Only
<1>5. calls[c].ans.ok => calls[c].ans.data \in UsersPage
  BY <1>2, ArgKept DEF DataOK, UsersData
<1>6. 0 \in 0 .. NumUsers
  BY AdminUsersAssumption
<1>7. UsersOK(ui', Waits')
  BY <1>3, <1>4, <1>5, <1>6 DEF Relisted, UsersOK, UsersState, UsersPage
<1> QED
  BY <1>1, <1>2, <1>3, <1>7, Only, HandlerStep

-----------------------------------------------------------------------------
(* The page of a user.                                                     *)

LEMMA LoadUserStep ==
  ASSUME IInv, path = "user", LoadUser, UNCHANGED <<paymentVars, catalog, listsVars>>
  PROVE  IInv'
<1>1. UNCHANGED <<path, Rows>> /\ Stored' = Stored
  BY RowsKept DEF LoadUser, Rows
<1>2. UserOK(ui, Waits)
  BY Here, Only
<1>3. CallsOK' /\ Waits \subseteq Waits' /\ "user.get" \in Waits'
  <2>1. ArgOK("user.get", ui.user, Stored)
    BY <1>2 DEF ArgOK, UsersArg, PaymentsArg, PackagesArg, ListsArg, UserOK, UserState
  <2> QED
    BY <1>1, <2>1, SendStep DEF LoadUser, ConsoleOps, OpsOf, Lists
<1>4. UserOK(ui', Waits')
  BY <1>2, <1>3 DEF LoadUser, UserOK, UserState
<1> QED
  BY <1>1, <1>3, <1>4, Only, HandlerStep

LEMMA RunActionStep ==
  ASSUME IInv, path = "user", NEW op \in {"user.status", "user.key", "user.topup", "user.adjust"},
         NEW arg, UsersArg(op, arg), RunAction(op, arg),
         UNCHANGED <<paymentVars, catalog, listsVars>>
  PROVE  IInv'
<1>1. UNCHANGED <<path, Rows>> /\ Stored' = Stored
  BY RowsKept DEF RunAction, Rows
<1>2. UserOK(ui, Waits)
  BY Here, Only
<1>3. CallsOK' /\ Waits \subseteq Waits' /\ op \in Waits'
  <2>1. ArgOK(op, arg, Stored)
    BY DEF ArgOK, PaymentsArg, PackagesArg, ListsArg
  <2>2. op \in ConsoleOps \ {"packages.relist"} /\ op \in OpsOf(path)
    BY DEF ConsoleOps, OpsOf, Lists
  <2> QED
    BY <1>1, <2>1, <2>2, SendStep DEF RunAction
<1>4. UserOK(ui', Waits')
  BY <1>2, <1>3 DEF RunAction, UserOK, UserState
<1> QED
  BY <1>1, <1>3, <1>4, Only, HandlerStep

LEMMA UserActionsStep ==
  ASSUME IInv, path = "user",
         UpdateUserStatus \/ KeyAction \/ SubmitTopUp \/ SubmitAdjustment,
         UNCHANGED <<paymentVars, catalog, listsVars>>
  PROVE  IInv'
<1>1. ui.user \in Users
  BY Here, Only DEF UserOK, UserState
<1>2. CASE UpdateUserStatus
  <2>1. PICK s \in UserStatuses : RunAction("user.status", [user |-> ui.user, status |-> s])
    BY <1>2 DEF UpdateUserStatus
  <2>2. UsersArg("user.status", [user |-> ui.user, status |-> s])
    BY <1>1 DEF UsersArg
  <2> QED
    BY <2>1, <2>2, RunActionStep
<1>3. CASE KeyAction
  <2>1. PICK act \in {"suspend", "resume", "revoke"} :
          RunAction("user.key", [user |-> ui.user, act |-> act])
    BY <1>3 DEF KeyAction
  <2>2. UsersArg("user.key", [user |-> ui.user, act |-> act])
    BY <1>1 DEF UsersArg
  <2> QED
    BY <2>1, <2>2, RunActionStep
<1>4. CASE SubmitTopUp
  <2>1. PICK r \in References \cup {None} :
          RunAction("user.topup", [user |-> ui.user, reference |-> r, key |-> TopUpKey(r)])
    BY <1>4 DEF SubmitTopUp
  <2>2. UsersArg("user.topup", [user |-> ui.user, reference |-> r, key |-> TopUpKey(r)])
    BY <1>1 DEF UsersArg
  <2> QED
    BY <2>1, <2>2, RunActionStep
<1>5. CASE SubmitAdjustment
  BY <1>5, RunActionStep DEF SubmitAdjustment, UsersArg
<1> QED
  BY <1>2, <1>3, <1>4, <1>5

LEMMA UserLoadedStep ==
  ASSUME IInv, NEW c \in Slots, UserLoaded(c), UNCHANGED <<paymentVars, catalog, listsVars>>
  PROVE  IInv'
<1>1. UNCHANGED <<path, Rows>> /\ Stored' = Stored
  BY RowsKept DEF UserLoaded, Rows
<1>2. calls[c].op = "user.get" /\ path = "user" /\ Purpose(calls[c]) = "user.get"
  BY Owner DEF UserLoaded, Done, Purpose
<1>3. CallsOK' /\ \A w \in Waits : w # "user.get" => w \in Waits'
  BY <1>1, <1>2, SettleStep DEF UserLoaded
<1>4. UserOK(ui, Waits)
  BY <1>2, Here, Only
<1>5. calls[c].ans.ok => calls[c].ans.data \in Account
  BY <1>2, ArgKept DEF DataOK, UsersData
<1>6. UserOK(ui', Waits')
  BY <1>3, <1>4, <1>5 DEF UserLoaded, UserOK, UserState
<1> QED
  BY <1>1, <1>2, <1>3, <1>6, Only, HandlerStep

LEMMA ActionDoneStep ==
  ASSUME IInv, NEW c \in Slots, ActionDone(c), UNCHANGED <<paymentVars, catalog, listsVars>>
  PROVE  IInv'
<1>1. UNCHANGED <<path, Rows>> /\ Stored' = Stored
  BY RowsKept DEF ActionDone, Rows
<1>2. /\ calls[c].op \in {"user.status", "user.key", "user.topup", "user.adjust"}
      /\ path = "user" /\ Purpose(calls[c]) = calls[c].op /\ calls[c].mine
  BY Owner DEF ActionDone, Done, Purpose
<1>3. UserOK(ui, Waits)
  BY <1>2, Here, Only
<1>4. CASE /\ ~calls[c].ans.ok
           /\ ui' = [ui EXCEPT !.error = TRUE, !.acting = FALSE] /\ Settle(c)
  <2>1. CallsOK' /\ \A w \in Waits : w # calls[c].op => w \in Waits'
    BY <1>1, <1>2, <1>4, SettleStep
  <2>2. UserOK(ui', Waits')
    BY <1>2, <1>3, <1>4, <2>1 DEF UserOK, UserState
  <2> QED
    BY <1>1, <1>2, <2>1, <2>2, Only, HandlerStep
<1>5. CASE /\ calls[c].ans.ok /\ calls[c].op = "user.status"
           /\ ui' = [ui EXCEPT !.detail = calls[c].ans.data, !.acting = FALSE] /\ Settle(c)
  <2>1. CallsOK' /\ \A w \in Waits : w # calls[c].op => w \in Waits'
    BY <1>1, <1>2, <1>5, SettleStep
  <2>2. calls[c].ans.data \in Account
    BY <1>5, ArgKept DEF DataOK, UsersData
  <2>3. UserOK(ui', Waits')
    BY <1>2, <1>3, <1>5, <2>1, <2>2 DEF UserOK, UserState
  <2> QED
    BY <1>1, <1>2, <2>1, <2>3, Only, HandlerStep
<1>6. CASE ui' = [ui EXCEPT !.error = FALSE] /\ Await(c, "user.reload", ui.user)
  <2>1. ArgOK("user.reload", ui.user, Stored)
    BY <1>3 DEF ArgOK, UsersArg, PaymentsArg, PackagesArg, ListsArg, UserOK, UserState
  <2>2. Purpose(Leaving("user.reload", ui.user, TRUE)) = "user.reload"
    BY DEF Leaving, Purpose
  <2>3. /\ CallsOK' /\ "user.reload" \in Waits'
        /\ \A w \in Waits : w # calls[c].op => w \in Waits'
    BY <1>1, <1>2, <1>6, <2>1, <2>2, AwaitStep DEF ConsoleOps, OpsOf, Lists
  <2>4. UserOK(ui', Waits')
    BY <1>2, <1>3, <1>6, <2>3 DEF UserOK, UserState
  <2> QED
    BY <1>1, <1>2, <2>3, <2>4, Only, HandlerStep
<1> QED
  BY <1>4, <1>5, <1>6 DEF ActionDone

LEMMA UserReloadedStep ==
  ASSUME IInv, NEW c \in Slots, UserReloaded(c), UNCHANGED <<paymentVars, catalog, listsVars>>
  PROVE  IInv'
<1>1. UNCHANGED <<path, Rows>> /\ Stored' = Stored
  BY RowsKept DEF UserReloaded, Rows
<1>2. calls[c].op = "user.reload" /\ path = "user" /\ Purpose(calls[c]) = "user.reload"
  BY Owner DEF UserReloaded, Done, Purpose
<1>3. CallsOK' /\ \A w \in Waits : w # "user.reload" => w \in Waits'
  BY <1>1, <1>2, SettleStep DEF UserReloaded
<1>4. UserOK(ui, Waits)
  BY <1>2, Here, Only
<1>5. calls[c].ans.ok => calls[c].ans.data \in Account
  BY <1>2, ArgKept DEF DataOK, UsersData
<1>6. UserOK(ui', Waits')
  BY <1>3, <1>4, <1>5 DEF UserReloaded, UserOK, UserState
<1> QED
  BY <1>1, <1>2, <1>3, <1>6, Only, HandlerStep

LEMMA AdminUsersStep ==
  ASSUME IInv, AdminUsersNext, UNCHANGED <<paymentVars, catalog, listsVars>>
  PROVE  IInv'
<1>1. CASE path = "users" /\ (ApplyUserFilters \/ RefreshUsers \/ TurnUsersPage \/ SetStatus)
  BY <1>1, UsersFormsStep, SetStatusStep
<1>2. CASE path = "user" /\ (\/ LoadUser \/ UpdateUserStatus \/ KeyAction
                             \/ SubmitTopUp \/ SubmitAdjustment)
  BY <1>2, LoadUserStep, UserActionsStep
<1>3. ASSUME NEW c \in Slots,
             \/ ServeUsers(c) \/ ServeUserStatus(c) \/ ServeUserKey(c) \/ ServeTopUp(c)
             \/ ServeAdjustment(c)
      PROVE  IInv'
  BY <1>3, ServeUsersStep, ServeUserStatusStep, ServeUserKeyStep, ServeTopUpStep,
     ServeAdjustmentStep
<1>4. ASSUME NEW c \in Slots,
             \/ UsersLoaded(c) \/ StatusSet(c) \/ Relisted(c)
             \/ UserLoaded(c) \/ ActionDone(c) \/ UserReloaded(c)
      PROVE  IInv'
  BY <1>4, UsersLoadedStep, StatusSetStep, RelistedStep, UserLoadedStep, ActionDoneStep,
     UserReloadedStep
<1> QED
  BY <1>1, <1>2, <1>3, <1>4 DEF AdminUsersNext

-----------------------------------------------------------------------------
(* The review of payments.                                                 *)

LEMMA LoadPaymentsStep ==
  ASSUME IInv, path = "payments", NEW f \in PaymentFilters, NEW off \in PaymentOffsets,
         LoadPayments(f, off), UNCHANGED <<usersVars, catalog, listsVars>>
  PROVE  IInv'
<1>1. UNCHANGED <<path, Rows>> /\ Stored' = Stored
  BY RowsKept DEF LoadPayments, Rows
<1>2. PaymentsOK(ui, Waits)
  BY Here, Only
<1>3. CallsOK' /\ Waits \subseteq Waits' /\ "payments.list" \in Waits'
  <2>1. ArgOK("payments.list", [filter |-> f, offset |-> off], Stored)
    BY DEF ArgOK, UsersArg, PaymentsArg, PackagesArg, ListsArg
  <2> QED
    BY <1>1, <2>1, SendStep DEF LoadPayments, ConsoleOps, OpsOf, Lists
<1>4. PaymentsOK(ui', Waits')
  BY <1>2, <1>3 DEF LoadPayments, PaymentsOK, PaymentsState
<1> QED
  BY <1>1, <1>3, <1>4, Only, HandlerStep

LEMMA PaymentsFormsStep ==
  ASSUME IInv, path = "payments", FilterPayments \/ RefreshPayments \/ TurnPaymentsPage,
         UNCHANGED <<usersVars, catalog, listsVars>>
  PROVE  IInv'
<1>1. PaymentsOK(ui, Waits)
  BY Here, Only
<1>2. ListLimit \in Nat \ {0} /\ NumPayments \in Nat
  BY AdminPaymentsAssumption
<1>3. /\ ui.applied \in PaymentFilters
      /\ ui.list.offset \in {ListLimit * n : n \in 0 .. NumPayments}
      /\ ui.list.items \in SUBSET [id : Orders, status : OrderStatuses]
      /\ ui.list.total \in 0 .. NumPayments
  BY <1>1 DEF PaymentsOK, PaymentsState, Item, PaymentOffsets
<1>4. CASE FilterPayments
  <2>1. PICK f \in PaymentFilters : LoadPayments(f, 0)
    BY <1>4 DEF FilterPayments, PaymentFilters
  <2>2. 0 = ListLimit * 0 /\ 0 \in 0 .. NumPayments
    BY <1>2
  <2>3. 0 \in PaymentOffsets
    BY <2>2 DEF PaymentOffsets
  <2> QED
    BY <2>1, <2>3, LoadPaymentsStep
<1>5. CASE RefreshPayments
  BY <1>3, <1>5, LoadPaymentsStep DEF RefreshPayments, PaymentOffsets
<1>6. CASE LoadPayments(ui.applied,
             IF ui.list.offset > ListLimit THEN ui.list.offset - ListLimit ELSE 0)
  BY <1>2, <1>3, <1>6, PreviousOffset, LoadPaymentsStep DEF PaymentOffsets
<1>7. CASE PaymentPages.next /\ LoadPayments(ui.applied, ui.list.offset + ListLimit)
  <2>1. Cardinality(ui.list.items) \in Nat
    BY <1>3, RowsFinite, StatusesFinite
  <2>2. ui.list.offset \in Nat
    BY <1>2, <1>3
  <2>3. ui.list.offset + Cardinality(ui.list.items) < ui.list.total
    BY <1>7 DEF PaymentPages
  <2>4. ui.list.offset < NumPayments
    BY <1>2, <1>3, <2>1, <2>2, <2>3
  <2> QED
    BY <1>2, <1>3, <1>7, <2>4, NextOffset, LoadPaymentsStep DEF PaymentOffsets
<1> QED
  BY <1>4, <1>5, <1>6, <1>7 DEF TurnPaymentsPage

LEMMA PaymentsLoadedStep ==
  ASSUME IInv, NEW c \in Slots, PaymentsLoaded(c), UNCHANGED <<usersVars, catalog, listsVars>>
  PROVE  IInv'
<1>1. UNCHANGED <<path, Rows>> /\ Stored' = Stored
  BY RowsKept DEF PaymentsLoaded, Rows
<1>2. calls[c].op = "payments.list" /\ path = "payments" /\ Purpose(calls[c]) = "payments.list"
  BY Owner DEF PaymentsLoaded, Done, Purpose
<1>3. CallsOK' /\ \A w \in Waits : w # "payments.list" => w \in Waits'
  BY <1>1, <1>2, SettleStep DEF PaymentsLoaded
<1>4. PaymentsOK(ui, Waits)
  BY <1>2, Here, Only
<1>5. calls[c].ans.ok => calls[c].ans.data \in PaymentsPage
  BY <1>2, ArgKept DEF DataOK, PaymentsData
<1>6. PaymentsOK(ui', Waits')
  BY <1>3, <1>4, <1>5 DEF PaymentsLoaded, PaymentsOK, PaymentsState, PaymentsPage
<1> QED
  BY <1>1, <1>2, <1>3, <1>6, Only, HandlerStep

-----------------------------------------------------------------------------
(* The drawer.                                                             *)

\* Another payment in the drawer takes the typed reference with it.
LEMMA SelectKeeps ==
  ASSUME NEW waits, PaymentsOK(ui, waits), NEW item \in Item \cup {NoItem}
  PROVE  /\ PaymentsOK(Select(item), waits)
         /\ Select(item).loading = ui.loading /\ Select(item).acting = ui.acting
<1>1. PICK new : new = Select(item)
  OBVIOUS
<1>2. new = [ui EXCEPT !.selected = item,
                       !.reference = IF item.id = ui.selected.id THEN ui.reference ELSE None]
  BY <1>1 DEF Select
<1>3. /\ new \in PaymentsState /\ new.loading = ui.loading /\ new.acting = ui.acting
      /\ new.selected = item
      /\ new.reference = IF item.id = ui.selected.id THEN ui.reference ELSE None
  BY <1>2 DEF PaymentsOK, PaymentsState
<1> QED
  BY <1>1, <1>3 DEF PaymentsOK

LEMMA OpenPaymentStep ==
  ASSUME IInv, path = "payments", OpenPayment, UNCHANGED <<usersVars, catalog, listsVars>>
  PROVE  IInv'
<1>1. UNCHANGED <<path, Rows>> /\ Stored' = Stored
  BY RowsKept DEF OpenPayment, Rows
<1>2. PaymentsOK(ui, Waits)
  BY Here, Only
<1>3. PICK item \in PaymentsTable :
        /\ ui' = [Select(item) EXCEPT !.notice = None]
        /\ Send("payments.get", [id |-> item.id])
  BY DEF OpenPayment
<1>4. item \in Item
  BY <1>2, <1>3 DEF PaymentsTable, PaymentsOK, PaymentsState
<1>5. CallsOK' /\ Waits \subseteq Waits'
  <2>1. ArgOK("payments.get", [id |-> item.id], Stored)
    BY <1>4 DEF ArgOK, UsersArg, PaymentsArg, PackagesArg, ListsArg, Item
  <2> QED
    BY <1>1, <1>3, <2>1, SendStep DEF ConsoleOps, OpsOf, Lists
<1>6. PICK new : new = Select(item)
  OBVIOUS
<1>7. PaymentsOK(new, Waits) /\ ui' = [new EXCEPT !.notice = None]
  BY <1>2, <1>3, <1>4, <1>6, SelectKeeps
<1>8. PaymentsOK(ui', Waits')
  BY <1>5, <1>7 DEF PaymentsOK, PaymentsState
<1> QED
  BY <1>1, <1>5, <1>8, Only, HandlerStep

LEMMA PaymentReadStep ==
  ASSUME IInv, NEW c \in Slots, PaymentRead(c), UNCHANGED <<usersVars, catalog, listsVars>>
  PROVE  IInv'
<1>1. UNCHANGED <<path, Rows>> /\ Stored' = Stored
  BY RowsKept DEF PaymentRead, Rows
<1>2. calls[c].op = "payments.get" /\ path = "payments" /\ Purpose(calls[c]) = "payments.get"
  BY Owner DEF PaymentRead, Done, Purpose
<1>3. CallsOK' /\ \A w \in Waits : w # "payments.get" => w \in Waits'
  BY <1>1, <1>2, SettleStep DEF PaymentRead
<1>4. PaymentsOK(ui, Waits)
  BY <1>2, Here, Only
<1>5. calls[c].ans.ok => calls[c].ans.data \in Item
  BY <1>2, ArgKept DEF DataOK, PaymentsData
<1>6. PaymentsOK(ui', Waits)
  BY <1>4, <1>5, SelectKeeps DEF PaymentRead
<1>7. PaymentsOK(ui', Waits')
  BY <1>3, <1>6 DEF PaymentsOK
<1> QED
  BY <1>1, <1>2, <1>3, <1>7, Only, HandlerStep

LEMMA CloseDrawerStep ==
  ASSUME IInv, path = "payments", CloseDrawer \/ TypeVerified,
         UNCHANGED <<usersVars, catalog, listsVars>>
  PROVE  IInv'
<1>1. UNCHANGED <<path, calls, Rows>>
  BY DEF CloseDrawer, TypeVerified, Rows
<1>2. PaymentsOK(ui, Waits)
  BY Here, Only
<1>3. CASE CloseDrawer
  <2>1. PICK new : new = Select(NoItem)
    OBVIOUS
  <2>2. PaymentsOK(new, Waits) /\ ui' = [new EXCEPT !.notice = None]
    BY <1>2, <1>3, <2>1, SelectKeeps DEF CloseDrawer
  <2>3. PaymentsOK(ui', Waits)
    BY <2>2 DEF PaymentsOK, PaymentsState
  <2> QED
    BY <1>1, <2>3, Only, QuietStep
<1>4. CASE TypeVerified
  <2>1. ui.selected.id \in Orders
    BY <1>2, <1>4
       DEF TypeVerified, CanApprove, InQueue, PaymentsOK, PaymentsState, Item, NoItem, None
  <2>2. ui' = [ui EXCEPT !.reference = Transfer[ui.selected.id]]
    BY <1>4 DEF TypeVerified
  <2>3. PaymentsOK(ui', Waits)
    BY <1>2, <2>1, <2>2 DEF PaymentsOK, PaymentsState
  <2> QED
    BY <1>1, <2>3, Only, QuietStep
<1> QED
  BY <1>3, <1>4

LEMMA ReviewPaymentStep ==
  ASSUME IInv, path = "payments", ReviewPayment, UNCHANGED <<usersVars, catalog, listsVars>>
  PROVE  IInv'
<1>1. UNCHANGED <<path, Rows>> /\ Stored' = Stored
  BY RowsKept DEF ReviewPayment, Rows
<1>2. PaymentsOK(ui, Waits)
  BY Here, Only
<1>3. PICK op \in {"payments.approve", "payments.reject"}, verdict \in {"approved", "rejected"} :
        /\ op = "payments.approve" => InQueue(ui.selected.status) /\ ui.reference # None
        /\ ui.selected.status \in {"pending_review", "pending_proof", "needs_review"}
        /\ Send(op, [id |-> ui.selected.id, reference |-> ui.reference, verdict |-> verdict,
                     filter |-> ui.applied, offset |-> ui.list.offset])
  BY DEF ReviewPayment, PaymentDrawer, CanApprove, CanReject, InQueue
<1>4. PICK arg : arg = [id |-> ui.selected.id, reference |-> ui.reference, verdict |-> verdict,
                        filter |-> ui.applied, offset |-> ui.list.offset]
  OBVIOUS
<1>5. ui.selected.id \in Orders /\ ui.applied \in PaymentFilters /\ ui.list.offset \in PaymentOffsets
  BY <1>2, <1>3 DEF PaymentsOK, PaymentsState, Item, NoItem, None
<1>6. ArgOK(op, arg, Stored)
  <2>1. PaymentsArg(op, arg)
    BY <1>2, <1>3, <1>4, <1>5 DEF PaymentsArg, PaymentsOK
  <2> QED
    BY <2>1 DEF ArgOK, UsersArg, PackagesArg, ListsArg
<1>7. CallsOK' /\ Waits \subseteq Waits' /\ op \in Waits'
  <2>1. op \in ConsoleOps \ {"packages.relist"} /\ op \in OpsOf(path)
    BY DEF ConsoleOps, OpsOf, Lists
  <2> QED
    BY <1>1, <1>3, <1>4, <1>6, <2>1, SendStep
<1>8. ui' = [ui EXCEPT !.acting = TRUE, !.notice = None]
  BY DEF ReviewPayment
<1>9. PaymentsOK(ui', Waits')
  BY <1>2, <1>7, <1>8 DEF PaymentsOK, PaymentsState
<1> QED
  BY <1>1, <1>7, <1>9, Only, HandlerStep

LEMMA ReviewedStep ==
  ASSUME IInv, NEW c \in Slots, Reviewed(c), UNCHANGED <<usersVars, catalog, listsVars>>
  PROVE  IInv'
<1>1. UNCHANGED <<path, Rows>> /\ Stored' = Stored
  BY RowsKept DEF Reviewed, Rows
<1>2. /\ calls[c].op \in {"payments.approve", "payments.reject"}
      /\ path = "payments" /\ Purpose(calls[c]) = calls[c].op /\ calls[c].mine
  BY Owner DEF Reviewed, Done, Purpose
<1>3. PaymentsOK(ui, Waits)
  BY <1>2, Here, Only
<1>4. CASE /\ ui' = [ui EXCEPT !.notice = calls[c].arg.verdict]
           /\ Await(c, "payments.reget", calls[c].arg)
  <2>1. /\ ArgOK("payments.reget", calls[c].arg, Stored)
        /\ calls[c].arg.verdict \in {"approved", "rejected"}
    BY <1>2, ArgKept DEF ArgOK, UsersArg, PaymentsArg, PackagesArg, ListsArg
  <2>2. Purpose(Leaving("payments.reget", calls[c].arg, TRUE)) = "payments.reget"
    BY DEF Leaving, Purpose
  <2>3. /\ CallsOK' /\ "payments.reget" \in Waits'
        /\ \A w \in Waits : w # calls[c].op => w \in Waits'
    BY <1>1, <1>2, <1>4, <2>1, <2>2, AwaitStep DEF ConsoleOps, OpsOf, Lists
  <2>4. PaymentsOK(ui', Waits')
    BY <1>2, <1>3, <1>4, <2>1, <2>3 DEF PaymentsOK, PaymentsState
  <2> QED
    BY <1>1, <1>2, <2>3, <2>4, Only, HandlerStep
<1>5. CASE ui' = [ui EXCEPT !.acting = FALSE] /\ Settle(c)
  <2>1. CallsOK' /\ \A w \in Waits : w # calls[c].op => w \in Waits'
    BY <1>1, <1>2, <1>5, SettleStep
  <2>2. PaymentsOK(ui', Waits')
    BY <1>2, <1>3, <1>5, <2>1 DEF PaymentsOK, PaymentsState
  <2> QED
    BY <1>1, <1>2, <2>1, <2>2, Only, HandlerStep
<1> QED
  BY <1>4, <1>5 DEF Reviewed

LEMMA RereadStep ==
  ASSUME IInv, NEW c \in Slots, Reread(c), UNCHANGED <<usersVars, catalog, listsVars>>
  PROVE  IInv'
<1>1. UNCHANGED <<path, Rows>> /\ Stored' = Stored
  BY RowsKept DEF Reread, Rows
<1>2. /\ calls[c].op = "payments.reget" /\ path = "payments"
      /\ Purpose(calls[c]) = "payments.reget" /\ calls[c].mine
  BY Owner DEF Reread, Done, Purpose
<1>3. PaymentsOK(ui, Waits)
  BY <1>2, Here, Only
<1>4. PICK arg : arg = [filter |-> calls[c].arg.filter, offset |-> calls[c].arg.offset]
  OBVIOUS
<1>5. CASE /\ calls[c].ans.ok
           /\ ui' = [Select(calls[c].ans.data) EXCEPT !.acting = FALSE, !.loading = TRUE,
                                                      !.error = FALSE]
           /\ Await(c, "payments.list", arg)
  <2>1. ArgOK("payments.list", arg, Stored)
    BY <1>2, <1>4, ArgKept DEF ArgOK, UsersArg, PaymentsArg, PackagesArg, ListsArg
  <2>2. Purpose(Leaving("payments.list", arg, TRUE)) = "payments.list"
    BY DEF Leaving, Purpose
  <2>3. CallsOK' /\ "payments.list" \in Waits'
    BY <1>1, <1>2, <1>5, <2>1, <2>2, AwaitStep DEF ConsoleOps, OpsOf, Lists
  <2>4. calls[c].ans.data \in Item
    BY <1>2, <1>5, ArgKept DEF DataOK, PaymentsData
  <2>5. PICK new : new = Select(calls[c].ans.data)
    OBVIOUS
  <2>6. /\ PaymentsOK(new, Waits)
        /\ ui' = [new EXCEPT !.acting = FALSE, !.loading = TRUE, !.error = FALSE]
    BY <1>3, <1>5, <2>4, <2>5, SelectKeeps
  <2>7. PaymentsOK(ui', Waits')
    BY <2>3, <2>6 DEF PaymentsOK, PaymentsState
  <2> QED
    BY <1>1, <1>2, <2>3, <2>7, Only, HandlerStep
<1>6. CASE ui' = [ui EXCEPT !.acting = FALSE] /\ Settle(c)
  <2>1. CallsOK' /\ \A w \in Waits : w # "payments.reget" => w \in Waits'
    BY <1>1, <1>2, <1>6, SettleStep
  <2>2. PaymentsOK(ui', Waits')
    BY <1>3, <1>6, <2>1 DEF PaymentsOK, PaymentsState
  <2> QED
    BY <1>1, <1>2, <2>1, <2>2, Only, HandlerStep
<1> QED
  BY <1>4, <1>5, <1>6 DEF Reread

-----------------------------------------------------------------------------
(* The settings.                                                           *)

LEMMA SettingsFormsStep ==
  ASSUME IInv, path = "settings", LoadSettings \/ SaveSettings \/ UploadImage,
         UNCHANGED <<usersVars, catalog, listsVars>>
  PROVE  IInv'
<1>1. UNCHANGED <<path, Rows>> /\ Stored' = Stored
  BY RowsKept DEF LoadSettings, SaveSettings, UploadImage, Rows
<1>2. SettingsOK(ui, Waits)
  BY Here, Only
<1>3. ASSUME NEW op \in {"settings.get", "settings.save", "settings.upload"}, Send(op, None)
      PROVE  CallsOK' /\ Waits \subseteq Waits' /\ op \in Waits'
  <2>1. ArgOK(op, None, Stored)
    BY DEF ArgOK, UsersArg, PaymentsArg, PackagesArg, ListsArg
  <2>2. op \in ConsoleOps \ {"packages.relist"} /\ op \in OpsOf(path)
    BY DEF ConsoleOps, OpsOf, Lists
  <2> QED
    BY <1>1, <1>3, <2>1, <2>2, SendStep
<1>4. CASE Send("settings.get", None) /\ ui' = [ui EXCEPT !.loading = TRUE, !.error = FALSE]
  <2>1. CallsOK' /\ Waits \subseteq Waits' /\ "settings.get" \in Waits'
    BY <1>3, <1>4
  <2>2. SettingsOK(ui', Waits')
    BY <1>2, <1>4, <2>1 DEF SettingsOK, SettingsState
  <2> QED
    BY <1>1, <2>1, <2>2, Only, HandlerStep
<1>5. CASE Send("settings.save", None) /\ ui' = [ui EXCEPT !.saving = TRUE, !.error = FALSE]
  <2>1. CallsOK' /\ Waits \subseteq Waits' /\ "settings.save" \in Waits'
    BY <1>3, <1>5
  <2>2. SettingsOK(ui', Waits')
    BY <1>2, <1>5, <2>1 DEF SettingsOK, SettingsState
  <2> QED
    BY <1>1, <2>1, <2>2, Only, HandlerStep
<1>6. CASE Send("settings.upload", None) /\ ui' = [ui EXCEPT !.uploading = TRUE, !.error = FALSE]
  <2>1. CallsOK' /\ Waits \subseteq Waits' /\ "settings.upload" \in Waits'
    BY <1>3, <1>6
  <2>2. SettingsOK(ui', Waits')
    BY <1>2, <1>6, <2>1 DEF SettingsOK, SettingsState
  <2> QED
    BY <1>1, <2>1, <2>2, Only, HandlerStep
<1>7. CASE UNCHANGED calls /\ ui' = [ui EXCEPT !.error = TRUE]
  <2>1. SettingsOK(ui', Waits)
    BY <1>2, <1>7 DEF SettingsOK, SettingsState
  <2> QED
    BY <1>1, <1>7, <2>1, Only, QuietStep
<1> QED
  BY <1>4, <1>5, <1>6, <1>7 DEF LoadSettings, SaveSettings, UploadImage

LEMMA EditSettingsStep ==
  ASSUME IInv, path = "settings", EditSettings, UNCHANGED <<usersVars, catalog, listsVars>>
  PROVE  IInv'
<1>1. UNCHANGED <<path, calls, Rows>>
  BY DEF EditSettings, Rows
<1>2. SettingsOK(ui, Waits)
  BY Here, Only
<1>3. SettingsOK(ui', Waits)
  BY <1>2 DEF EditSettings, SettingsOK, SettingsState
<1> QED
  BY <1>1, <1>3, Only, QuietStep

LEMMA SettingsAnsweredStep ==
  ASSUME IInv, NEW c \in Slots, SettingsAnswered(c), UNCHANGED <<usersVars, catalog, listsVars>>
  PROVE  IInv'
<1>1. UNCHANGED <<path, Rows>> /\ Stored' = Stored
  BY RowsKept DEF SettingsAnswered, Rows
<1>2. /\ calls[c].op \in {"settings.get", "settings.save", "settings.upload"}
      /\ path = "settings" /\ Purpose(calls[c]) = calls[c].op
  BY Owner DEF SettingsAnswered, Done, Purpose
<1>3. CallsOK' /\ \A w \in Waits : w # calls[c].op => w \in Waits'
  BY <1>1, <1>2, SettleStep DEF SettingsAnswered
<1>4. SettingsOK(ui, Waits)
  BY <1>2, Here, Only
<1>5. PICK now : now = IF calls[c].ans.ok THEN Applied(calls[c].ans.data)
                       ELSE [ui EXCEPT !.error = TRUE]
  OBVIOUS
<1>6. /\ now \in SettingsState /\ now.loading = ui.loading /\ now.saving = ui.saving
      /\ now.uploading = ui.uploading
  <2>1. CASE calls[c].ans.ok
    <3>1. calls[c].ans.data \in 0 .. 2
      <4>1. calls[c].ans.data \in 1 .. 2
        BY <1>2, <2>1, ArgKept DEF DataOK, PaymentsData
      <4> QED
        BY <4>1
    <3>2. now = [ui EXCEPT !.settings = calls[c].ans.data, !.edited = FALSE]
      BY <1>5, <2>1 DEF Applied
    <3> QED
      BY <1>4, <3>1, <3>2 DEF SettingsOK, SettingsState
  <2>2. CASE ~calls[c].ans.ok
    BY <1>4, <1>5, <2>2 DEF SettingsOK, SettingsState
  <2> QED
    BY <2>1, <2>2
<1>7. \/ calls[c].op = "settings.get"    /\ ui' = [now EXCEPT !.loading = FALSE]
      \/ calls[c].op = "settings.save"   /\ ui' = [now EXCEPT !.saving = FALSE]
      \/ calls[c].op = "settings.upload" /\ \E file \in BOOLEAN :
           ui' = [now EXCEPT !.uploading = FALSE, !.file = file]
  <2>1. (now.file /\ ~calls[c].ans.ok) \in BOOLEAN
    OBVIOUS
  <2> QED
    BY <1>5, <2>1 DEF SettingsAnswered, Done
<1>8. SettingsOK(ui', Waits')
  BY <1>3, <1>4, <1>6, <1>7 DEF SettingsOK, SettingsState
<1> QED
  BY <1>1, <1>2, <1>3, <1>8, Only, HandlerStep

LEMMA AdminPaymentsStep ==
  ASSUME IInv, AdminPaymentsNext, UNCHANGED <<usersVars, catalog, listsVars>>
  PROVE  IInv'
<1>1. CASE path = "payments" /\ (\/ FilterPayments \/ RefreshPayments \/ TurnPaymentsPage
                                 \/ OpenPayment)
  BY <1>1, PaymentsFormsStep, OpenPaymentStep
<1>2. CASE path = "payments" /\ (\/ CloseDrawer \/ TypeVerified \/ ReviewPayment \/ ProofArrives)
  BY <1>2, CloseDrawerStep, ReviewPaymentStep, ProofArrivesStep
<1>3. CASE path = "settings" /\ (LoadSettings \/ EditSettings \/ SaveSettings \/ UploadImage)
  BY <1>3, SettingsFormsStep, EditSettingsStep
<1>4. ASSUME NEW c \in Slots,
             ServePaymentReads(c) \/ ServeApprove(c) \/ ServeReject(c) \/ ServeSettings(c)
      PROVE  IInv'
  BY <1>4, ServePaymentReadsStep, ServeApproveStep, ServeRejectStep, ServeSettingsStep
<1>5. ASSUME NEW c \in Slots,
             \/ PaymentsLoaded(c) \/ PaymentRead(c) \/ Reviewed(c) \/ Reread(c)
             \/ SettingsAnswered(c)
      PROVE  IInv'
  BY <1>5, PaymentsLoadedStep, PaymentReadStep, ReviewedStep, RereadStep, SettingsAnsweredStep
<1> QED
  BY <1>1, <1>2, <1>3, <1>4, <1>5 DEF AdminPaymentsNext

-----------------------------------------------------------------------------
(* The catalogue.                                                          *)

\* Requests of the page that leave, with what may be said of them.
LEMMA LoadPackagesStep ==
  ASSUME IInv, LoadPackages, UNCHANGED <<usersVars, paymentVars, listsVars>>
  PROVE  IInv'
<1>1. UNCHANGED <<path, Rows>> /\ Stored' = Stored /\ path = "packages"
  BY RowsKept DEF LoadPackages, Rows
<1>2. PackagesOK(ui, Waits, Stored)
  BY <1>1, Here, Only
<1>3. CallsOK' /\ Waits \subseteq Waits' /\ "packages.list" \in Waits'
  <2>1. ArgOK("packages.list", None, Stored)
    BY DEF ArgOK, UsersArg, PaymentsArg, PackagesArg, ListsArg
  <2> QED
    BY <1>1, <2>1, SendStep DEF LoadPackages, ConsoleOps, OpsOf, Lists
<1>4. PackagesOK(ui', Waits', Stored)
  BY <1>2, <1>3 DEF LoadPackages, PackagesOK, PackagesState
<1> QED
  BY <1>1, <1>3, <1>4, Only, HandlerStep

LEMMA PackagesLoadedStep ==
  ASSUME IInv, NEW c \in Slots, PackagesLoaded(c),
         UNCHANGED <<usersVars, paymentVars, listsVars>>
  PROVE  IInv'
<1>1. UNCHANGED <<path, Rows>> /\ Stored' = Stored
  BY RowsKept DEF PackagesLoaded, Rows
<1>2. /\ calls[c].op = "packages.list" /\ path = "packages"
      /\ Purpose(calls[c]) = "packages.list"
  BY Owner DEF PackagesLoaded, Done, Purpose
<1>3. CallsOK' /\ \A w \in Waits : w # "packages.list" => w \in Waits'
  BY <1>1, <1>2, SettleStep DEF PackagesLoaded
<1>4. PackagesOK(ui, Waits, Stored)
  BY <1>2, Here, Only
<1>5. calls[c].ans.ok => Catalogue(calls[c].ans.data, Stored)
  BY <1>2, ArgKept DEF DataOK, PackagesData
<1>6. calls[c].ans.ok => calls[c].ans.data \in [Numbers -> CreditPackage \cup {NoPackage}]
  BY <1>5 DEF Catalogue
<1>7. PackagesOK(ui', Waits', Stored)
  BY <1>3, <1>4, <1>5, <1>6 DEF PackagesLoaded, PackagesOK, PackagesState
<1> QED
  BY <1>1, <1>2, <1>3, <1>7, Only, HandlerStep

\* The panel opens on a package that was loaded, with its fields.
LEMMA OpenPanelStep ==
  ASSUME IInv, OpenCreate \/ OpenEdit \/ ClosePanel,
         UNCHANGED <<usersVars, paymentVars, listsVars>>
  PROVE  IInv'
<1>1. UNCHANGED <<path, calls, Rows>> /\ path = "packages"
  BY DEF OpenCreate, OpenEdit, ClosePanel, PackagePanel, VisiblePackages, Rows
<1>2. PackagesOK(ui, Waits, Stored)
  BY <1>1, Here, Only
<1>3. MaxPackages \in Nat \ {0}
  BY AdminPackagesAssumption
<1>4. CASE OpenCreate
  <2>1. MinorToMoney(1000) = [whole |-> 10, fraction |-> <<0, 0>>]
    BY DEF MinorToMoney
  <2>2. EmptyForm \in [name : {0} \cup Numbers, price : Texts, active : BOOLEAN]
    BY <2>1 DEF EmptyForm, Texts
  <2>3. PICK panel \in -1 .. MaxPackages : panel = 0 /\ ~(panel > 0)
    BY <1>3
  <2>4. ui' = [ui EXCEPT !.form = EmptyForm, !.panel = panel]
    BY <1>4, <2>3 DEF OpenCreate
  <2>5. PackagesOK(ui', Waits, Stored)
    BY <1>2, <2>2, <2>3, <2>4 DEF PackagesOK, PackagesState
  <2> QED
    BY <1>1, <2>5, Only, QuietStep
<1>5. CASE OpenEdit
  <2>1. PICK n \in VisiblePackages :
          ui' = [ui EXCEPT !.form = PackageToForm(ui.packages[n]), !.panel = n]
    BY <1>5 DEF OpenEdit
  <2>2. n \in Numbers /\ ui.packages[n] \in PackageOf(n)
    BY <1>2, <2>1 DEF VisiblePackages, PackagesOK, Catalogue
  <2>3. PICK form : form = PackageToForm(ui.packages[n])
    OBVIOUS
  <2>4. /\ form = [name |-> n, price |-> MinorToMoney(ui.packages[n].price),
                   active |-> ui.packages[n].active]
        /\ ui.packages[n].price \in Prices /\ ui.packages[n].active \in BOOLEAN
    BY <2>2, <2>3 DEF PackageToForm, PackageOf
  <2>5. ParseMoneyToMinor(form.price) \in Prices
    <3>1. ui.packages[n].price \in Nat
      BY <2>4, PricesAssumption
    <3> QED
      BY <2>4, <3>1, PriceKept
  <2>6. form \in [name : {0} \cup Numbers, price : Texts, active : BOOLEAN]
    BY <2>2, <2>4 DEF Texts
  <2>7. n \in -1 .. MaxPackages /\ form.name = n
    BY <1>3, <2>2, <2>4 DEF Numbers
  <2>8. ui' = [ui EXCEPT !.form = form, !.panel = n]
    BY <2>1, <2>3
  <2>9. PackagesOK(ui', Waits, Stored)
    BY <1>2, <2>5, <2>6, <2>7, <2>8 DEF PackagesOK, PackagesState
  <2> QED
    BY <1>1, <2>9, Only, QuietStep
<1>6. CASE ClosePanel
  <2>1. PICK panel \in -1 .. MaxPackages : panel = -1 /\ ~(panel > 0)
    BY <1>3
  <2>2. ui' = [ui EXCEPT !.panel = panel]
    BY <1>6, <2>1 DEF ClosePanel
  <2>3. PackagesOK(ui', Waits, Stored)
    BY <1>2, <2>1, <2>2 DEF PackagesOK, PackagesState
  <2> QED
    BY <1>1, <2>3, Only, QuietStep
<1> QED
  BY <1>4, <1>5, <1>6

\* What is submitted is of the package that the panel edits.
LEMMA SubmitPackageStep ==
  ASSUME IInv, SubmitPackage, UNCHANGED <<usersVars, paymentVars, listsVars>>
  PROVE  IInv'
<1>1. UNCHANGED <<path, Rows>> /\ Stored' = Stored
  BY RowsKept DEF SubmitPackage, Rows
<1>2. path = "packages" /\ ui.panel >= 0
  BY DEF SubmitPackage, PackagePanel
<1>3. PackagesOK(ui, Waits, Stored)
  BY <1>2, Here, Only
<1>4. PICK form \in Typed :
        /\ ValidForm(form)
        /\ IF ui.panel = 0
           THEN Send("package.create", [input |-> FormToInput(form)])
           ELSE Send("package.update", [id |-> ui.panel, input |-> FormToInput(form)])
  BY DEF SubmitPackage
<1>5. PICK input : input = FormToInput(form)
  OBVIOUS
<1>6. ParseMoneyToMinor(form.price) \in Prices
  <2>1. CASE form.price \in PriceTexts
    BY <1>4, <2>1, PricesAssumption DEF ValidForm
  <2>2. CASE ui.panel # 0 /\ form.price = ui.form.price
    <3>1. ui.panel \in -1 .. MaxPackages /\ MaxPackages \in Nat
      BY <1>3, AdminPackagesAssumption DEF PackagesOK, PackagesState
    <3>2. ui.panel > 0
      BY <1>2, <2>2, <3>1
    <3> QED
      BY <1>3, <2>2, <3>2 DEF PackagesOK
  <2> QED
    BY <1>4, <2>1, <2>2 DEF Typed
<1>7. /\ input = [name |-> form.name, price |-> ParseMoneyToMinor(form.price),
                  active |-> form.active]
      /\ form.active \in BOOLEAN
  BY <1>4, <1>5 DEF FormToInput, Typed
<1>8. form.name \in Numbers => input.name = form.name /\ input \in PackageOf(form.name)
  BY <1>6, <1>7 DEF PackageOf
<1>9. \/ /\ CallsOK' /\ Waits \subseteq Waits' /\ "package.create" \in Waits'
      \/ /\ CallsOK' /\ Waits \subseteq Waits' /\ "package.update" \in Waits'
  <2>1. CASE ui.panel = 0
    <3>1. form.name \in Numbers
      BY <1>4, <2>1 DEF Typed
    <3>2. ArgOK("package.create", [input |-> input], Stored)
      BY <1>8, <3>1 DEF ArgOK, UsersArg, PaymentsArg, PackagesArg, ListsArg
    <3> QED
      BY <1>1, <1>2, <1>4, <1>5, <2>1, <3>2, SendStep DEF ConsoleOps, OpsOf, Lists
  <2>2. CASE ui.panel # 0
    <3>1. ui.panel \in -1 .. MaxPackages /\ MaxPackages \in Nat
      BY <1>3, AdminPackagesAssumption DEF PackagesOK, PackagesState
    <3>2. ui.panel > 0 /\ ui.panel \in Numbers
      BY <1>2, <2>2, <3>1 DEF Numbers
    <3>3. form.name = ui.panel
      BY <1>3, <1>4, <2>2, <3>2 DEF Typed, PackagesOK
    <3>4. ArgOK("package.update", [id |-> ui.panel, input |-> input], Stored)
      BY <1>8, <3>2, <3>3 DEF ArgOK, UsersArg, PaymentsArg, PackagesArg, ListsArg
    <3> QED
      BY <1>1, <1>2, <1>4, <1>5, <2>2, <3>4, SendStep DEF ConsoleOps, OpsOf, Lists
  <2> QED
    BY <2>1, <2>2
<1>10. ui' = [ui EXCEPT !.saving = TRUE, !.error = FALSE]
  BY DEF SubmitPackage
<1>11. PackagesOK(ui', Waits', Stored)
  BY <1>3, <1>9, <1>10 DEF PackagesOK, PackagesState
<1> QED
  BY <1>1, <1>2, <1>9, <1>11, Only, HandlerStep

LEMMA ToggleActiveStep ==
  ASSUME IInv, ToggleActive, UNCHANGED <<usersVars, paymentVars, listsVars>>
  PROVE  IInv'
<1>1. UNCHANGED <<path, Rows>> /\ Stored' = Stored
  BY RowsKept DEF ToggleActive, Rows
<1>2. PICK n \in Numbers :
        /\ ToggleButton(n)
        /\ ui' = [ui EXCEPT !.acting = n, !.error = FALSE]
        /\ Send("package.toggle", [id |-> n, active |-> ~ui.packages[n].active])
  BY DEF ToggleActive
<1>3. path = "packages" /\ ui.packages[n] # NoPackage
  BY <1>2 DEF ToggleButton, VisiblePackages
<1>4. PackagesOK(ui, Waits, Stored)
  BY <1>3, Here, Only
<1>5. n \in Stored
  BY <1>3, <1>4 DEF PackagesOK, Catalogue
<1>6. PICK arg : arg = [id |-> n, active |-> ~ui.packages[n].active]
  OBVIOUS
<1>7. arg.id = n /\ arg.active \in BOOLEAN
  BY <1>6
<1>8. ArgOK("package.toggle", arg, Stored)
  BY <1>5, <1>7 DEF ArgOK, UsersArg, PaymentsArg, PackagesArg, ListsArg
<1>9. CallsOK' /\ Waits \subseteq Waits' /\ "package.toggle" \in Waits'
  BY <1>1, <1>2, <1>3, <1>6, <1>8, SendStep DEF ConsoleOps, OpsOf, Lists
<1>10. PackagesOK(ui', Waits', Stored)
  BY <1>2, <1>4, <1>9 DEF PackagesOK, PackagesState
<1> QED
  BY <1>1, <1>3, <1>9, <1>10, Only, HandlerStep

\* The button that was busy with a write stays busy until the catalogue is
\* read again; the other one is left alone.
LEMMA PackageAnsweredStep ==
  ASSUME IInv, NEW c \in Slots, PackageWritten(c),
         UNCHANGED <<usersVars, paymentVars, listsVars>>
  PROVE  IInv'
<1>1. UNCHANGED <<path, Rows>> /\ Stored' = Stored
  BY RowsKept DEF PackageWritten, Rows
<1>2. PICK op \in {"package.create", "package.update", "package.toggle"} :
       /\ calls[c].op = op
       /\ \/ /\ ui' = IF op = "package.toggle" THEN ui ELSE [ui EXCEPT !.panel = -1]
             /\ Await(c, "packages.relist", [toggled |-> op = "package.toggle"])
          \/ /\ ui' = IF op = "package.toggle" THEN [ui EXCEPT !.error = TRUE, !.acting = 0]
                      ELSE [ui EXCEPT !.saving = FALSE]
             /\ Settle(c)
  BY DEF PackageWritten, Done
<1>3. path = "packages" /\ Purpose(calls[c]) = op /\ calls[c].mine
  BY <1>2, Owner DEF PackageWritten, Purpose
<1>4. PackagesOK(ui, Waits, Stored)
  BY <1>3, Here, Only
<1>5. PICK panel \in -1 .. MaxPackages : panel = -1 /\ ~(panel > 0)
  BY AdminPackagesAssumption
<1>6. CASE /\ ui' = IF op = "package.toggle" THEN ui ELSE [ui EXCEPT !.panel = -1]
           /\ Await(c, "packages.relist", [toggled |-> op = "package.toggle"])
  <2>1. PICK toggled \in BOOLEAN : toggled = (op = "package.toggle")
    OBVIOUS
  <2>2. PICK arg : arg = [toggled |-> toggled]
    OBVIOUS
  <2>3. arg.toggled = toggled
    BY <2>2
  <2>4. ArgOK("packages.relist", arg, Stored)
    BY <2>3 DEF ArgOK, UsersArg, PaymentsArg, PackagesArg, ListsArg
  <2>5. Purpose(Leaving("packages.relist", arg, TRUE)) =
          IF toggled THEN "relist after toggle" ELSE "relist after save"
    BY <2>3 DEF Leaving, Purpose
  <2>6. Await(c, "packages.relist", arg)
    BY <1>6, <2>1, <2>2
  <2>7. /\ CallsOK'
        /\ (IF toggled THEN "relist after toggle" ELSE "relist after save") \in Waits'
        /\ \A w \in Waits : w # op => w \in Waits'
    BY <1>1, <1>3, <2>4, <2>5, <2>6, AwaitStep DEF ConsoleOps, OpsOf, Lists
  <2>8. CASE op = "package.toggle"
    <3>1. ui' = ui /\ "relist after toggle" \in Waits'
      BY <1>6, <2>1, <2>7, <2>8
    <3>2. PackagesOK(ui', Waits', Stored)
      BY <1>4, <2>7, <2>8, <3>1 DEF PackagesOK
    <3> QED
      BY <1>1, <1>3, <2>7, <3>2, Only, HandlerStep
  <2>9. CASE op # "package.toggle"
    <3>1. ui' = [ui EXCEPT !.panel = panel] /\ "relist after save" \in Waits'
      BY <1>5, <1>6, <2>1, <2>7, <2>9
    <3>2. \A w \in Waits : w \notin {"package.create", "package.update"} => w \in Waits'
      BY <1>2, <2>7, <2>9
    <3>3. PackagesOK(ui', Waits', Stored)
      BY <1>4, <1>5, <3>1, <3>2 DEF PackagesOK, PackagesState
    <3> QED
      BY <1>1, <1>3, <2>7, <3>3, Only, HandlerStep
  <2> QED
    BY <2>8, <2>9
<1>7. CASE /\ ui' = IF op = "package.toggle" THEN [ui EXCEPT !.error = TRUE, !.acting = 0]
                    ELSE [ui EXCEPT !.saving = FALSE]
           /\ Settle(c)
  <2>1. CallsOK' /\ \A w \in Waits : w # op => w \in Waits'
    BY <1>1, <1>3, <1>7, SettleStep
  <2>2. CASE op = "package.toggle"
    <3>1. PackagesOK(ui', Waits', Stored)
      BY <1>4, <1>7, <2>1, <2>2 DEF PackagesOK, PackagesState
    <3> QED
      BY <1>1, <1>3, <2>1, <3>1, Only, HandlerStep
  <2>3. CASE op # "package.toggle"
    <3>1. \A w \in Waits : w \notin {"package.create", "package.update"} => w \in Waits'
      BY <1>2, <2>1, <2>3
    <3>2. PackagesOK(ui', Waits', Stored)
      BY <1>4, <1>7, <2>3, <3>1 DEF PackagesOK, PackagesState
    <3> QED
      BY <1>1, <1>3, <2>1, <3>2, Only, HandlerStep
  <2> QED
    BY <2>2, <2>3
<1> QED
  BY <1>2, <1>6, <1>7

LEMMA PackagesRereadStep ==
  ASSUME IInv, NEW c \in Slots, PackagesReread(c),
         UNCHANGED <<usersVars, paymentVars, listsVars>>
  PROVE  IInv'
<1>1. UNCHANGED <<path, Rows>> /\ Stored' = Stored
  BY RowsKept DEF PackagesReread, Rows
<1>2. calls[c].op = "packages.relist" /\ path = "packages"
  BY Owner DEF PackagesReread, Done
<1>3. PackagesOK(ui, Waits, Stored)
  BY <1>2, Here, Only
<1>4. PICK arg : arg = calls[c].arg
  OBVIOUS
<1>5. Purpose(calls[c]) = IF arg.toggled THEN "relist after toggle" ELSE "relist after save"
  BY <1>2, <1>4 DEF Purpose
<1>6. /\ CallsOK'
      /\ \A w \in Waits :
           w # (IF arg.toggled THEN "relist after toggle" ELSE "relist after save") => w \in Waits'
  BY <1>1, <1>5, SettleStep DEF PackagesReread
<1>7. PICK ans : ans = calls[c].ans
  OBVIOUS
<1>8. /\ ans.ok \in BOOLEAN
      /\ ans.ok => /\ Catalogue(ans.data, Stored)
                   /\ ans.data \in [Numbers -> CreditPackage \cup {NoPackage}]
  BY <1>2, <1>7, ArgKept DEF DataOK, PackagesData, Catalogue
<1>9. PICK seen : seen = IF ans.ok THEN [ui EXCEPT !.packages = ans.data] ELSE ui
  OBVIOUS
<1>10. PackagesOK(seen, Waits, Stored)
  BY <1>3, <1>8, <1>9 DEF PackagesOK, PackagesState
<1>11. PICK error \in BOOLEAN : error = (seen.error \/ ~ans.ok)
  OBVIOUS
<1>12. ui' = IF arg.toggled THEN [seen EXCEPT !.acting = 0, !.error = error]
             ELSE [seen EXCEPT !.saving = FALSE]
  BY <1>4, <1>7, <1>9, <1>11 DEF PackagesReread
<1>13. CASE arg.toggled
  <2>1. \A w \in Waits : w # "relist after toggle" => w \in Waits'
    BY <1>6, <1>13
  <2>2. PackagesOK(ui', Waits', Stored)
    BY <1>10, <1>12, <1>13, <2>1 DEF PackagesOK, PackagesState
  <2> QED
    BY <1>1, <1>2, <1>6, <2>2, Only, HandlerStep
<1>14. CASE ~arg.toggled
  <2>1. \A w \in Waits : w # "relist after save" => w \in Waits'
    BY <1>6, <1>14
  <2>2. PackagesOK(ui', Waits', Stored)
    BY <1>10, <1>12, <1>14, <2>1 DEF PackagesOK, PackagesState
  <2> QED
    BY <1>1, <1>2, <1>6, <2>2, Only, HandlerStep
<1> QED
  BY <1>13, <1>14

LEMMA AdminPackagesStep ==
  ASSUME IInv, AdminPackagesNext, UNCHANGED <<usersVars, paymentVars, listsVars>>
  PROVE  IInv'
<1>1. CASE LoadPackages \/ OpenCreate \/ OpenEdit \/ ClosePanel
  BY <1>1, LoadPackagesStep, OpenPanelStep
<1>2. CASE SubmitPackage \/ ToggleActive
  BY <1>2, SubmitPackageStep, ToggleActiveStep
<1>3. ASSUME NEW c \in Slots,
             ServePackages(c) \/ ServeCreatePackage(c) \/ ServeUpdatePackage(c)
      PROVE  IInv'
  BY <1>3, ServePackagesStep, ServePackageWritesStep
<1>4. ASSUME NEW c \in Slots, PackagesLoaded(c) \/ PackageWritten(c) \/ PackagesReread(c)
      PROVE  IInv'
  BY <1>4, PackagesLoadedStep, PackageAnsweredStep, PackagesRereadStep
<1> QED
  BY <1>1, <1>2, <1>3, <1>4 DEF AdminPackagesNext

-----------------------------------------------------------------------------
(* The lists of events.                                                    *)

LEMMA LoadListStep ==
  ASSUME IInv, path \in Lists, NEW q \in ListQuery, LoadList(q),
         UNCHANGED <<usersVars, paymentVars, catalog>>
  PROVE  IInv'
<1>1. UNCHANGED <<path, Rows>> /\ Stored' = Stored
  BY RowsKept DEF LoadList, Rows
<1>2. ListOK(ui, Waits)
  BY Here, Only
<1>3. CallsOK' /\ Waits \subseteq Waits' /\ "list.get" \in Waits'
  <2>1. ArgOK("list.get", q, Stored)
    BY DEF ArgOK, UsersArg, PaymentsArg, PackagesArg, ListsArg
  <2> QED
    BY <1>1, <2>1, SendStep DEF LoadList, ConsoleOps, OpsOf, Lists
<1>4. ListOK(ui', Waits')
  BY <1>2, <1>3 DEF LoadList, ListOK, ListState
<1> QED
  BY <1>1, <1>3, <1>4, Only, HandlerStep

\* The filters are of the rows that are shown, so the next page exists.
LEMMA ListFormsStep ==
  ASSUME IInv, ApplyListFilters \/ RefreshList \/ TurnListPage,
         UNCHANGED <<usersVars, paymentVars, catalog>>
  PROVE  IInv'
<1>1. path \in Lists
  BY DEF ApplyListFilters, RefreshList, TurnListPage, UsageFilters, AuditFilters, ListEmpty,
         ListSettled, RefreshButton, UsagePages, AuditPages, Lists
<1>2. ListOK(ui, Waits)
  BY <1>1, Here, Only
<1>3. ListSize \in Nat \ {0} /\ MaxListed \in Nat /\ AnyEvent \in ListFilters
  BY AdminListsAssumption
<1>4. /\ ui.filters \in ListQuery /\ ui.rows.query = ui.filters
      /\ ui.filters.offset \in {ListSize * n : n \in 0 .. MaxListed}
      /\ ui.rows.length \in 0 .. ListSize /\ ui.rows.total \in 0 .. MaxListed
      /\ ui.rows.length = ListSize => ui.filters.offset + ListSize <= MaxListed
  BY <1>2 DEF ListOK, ListState, RowsPage, ListQuery, ListOffsets
<1>5. ASSUME NEW off \in {ListSize * n : n \in 0 .. MaxListed}
      PROVE  [ui.filters EXCEPT !.offset = off] \in ListQuery
  BY <1>4, <1>5 DEF ListQuery, ListOffsets
<1>6. PICK from : from = IF path = "usage" THEN ui.filters.offset ELSE ui.rows.query.offset
  OBVIOUS
<1>7. from = ui.filters.offset
  BY <1>4, <1>6
<1>8. CASE ApplyListFilters
  <2>1. PICK f \in ListFilters : LoadList(FirstPage(f))
    BY <1>3, <1>8 DEF ApplyListFilters
  <2>2. 0 = ListSize * 0 /\ 0 \in 0 .. MaxListed
    BY <1>3
  <2>3. FirstPage(f) \in ListQuery
    BY <2>2 DEF FirstPage, ListQuery, ListOffsets
  <2> QED
    BY <1>1, <2>1, <2>3, LoadListStep
<1>9. CASE RefreshList
  BY <1>1, <1>4, <1>9, LoadListStep DEF RefreshList
<1>10. CASE LoadList([ui.filters EXCEPT !.offset = IF from > ListSize THEN from - ListSize ELSE 0])
  BY <1>1, <1>3, <1>4, <1>5, <1>7, <1>10, PreviousOffset, LoadListStep
<1>11. CASE /\ UsagePages.next \/ AuditPages.next
            /\ LoadList([ui.filters EXCEPT !.offset = from + ListSize])
  <2>1. from \in Nat
    BY <1>3, <1>4, <1>7
  <2>2. \/ ui.rows.length = ListSize
        \/ ui.rows.query.offset + ui.rows.length < ui.rows.total
    BY <1>11 DEF UsagePages, AuditPages
  <2>3. from < MaxListed
    BY <1>3, <1>4, <1>7, <2>1, <2>2
  <2> QED
    BY <1>1, <1>3, <1>4, <1>5, <1>7, <1>11, <2>3, NextOffset, LoadListStep
<1> QED
  BY <1>6, <1>8, <1>9, <1>10, <1>11 DEF TurnListPage

LEMMA ListLoadedStep ==
  ASSUME IInv, NEW c \in Slots, ListLoaded(c), UNCHANGED <<usersVars, paymentVars, catalog>>
  PROVE  IInv'
<1>1. UNCHANGED <<path, Rows>> /\ Stored' = Stored
  BY RowsKept DEF ListLoaded, Rows
<1>2. calls[c].op = "list.get" /\ path \in Lists /\ Purpose(calls[c]) = "list.get"
  BY Owner DEF ListLoaded, Done, Purpose
<1>3. CallsOK' /\ \A w \in Waits : w # "list.get" => w \in Waits'
  BY <1>1, <1>2, SettleStep DEF ListLoaded
<1>4. ListOK(ui, Waits)
  BY <1>2, Here, Only
<1>5. calls[c].ans.ok => /\ RowsPage(calls[c].ans.data) /\ calls[c].ans.data.query = calls[c].arg
                         /\ calls[c].arg \in ListQuery
  BY <1>2, ArgKept DEF ArgOK, ListsArg, DataOK, ListsData
<1>6. calls[c].ans.ok => calls[c].ans.data \in
        [query : ListQuery, length : 0 .. ListSize, total : 0 .. MaxListed]
  BY <1>5 DEF RowsPage
<1>7. ListOK(ui', Waits')
  BY <1>3, <1>4, <1>5, <1>6 DEF ListLoaded, ListOK, ListState
<1> QED
  BY <1>1, <1>2, <1>3, <1>7, Only, HandlerStep

LEMMA SelectRowStep ==
  ASSUME IInv, SelectRow, UNCHANGED <<usersVars, paymentVars, catalog>>
  PROVE  IInv'
<1>1. UNCHANGED <<path, calls, Rows>> /\ path \in Lists
  BY DEF SelectRow, Rows
<1>2. ListOK(ui, Waits)
  BY <1>1, Here, Only
<1>3. ListOK(ui', Waits)
  BY <1>2 DEF SelectRow, ListOK, ListState
<1> QED
  BY <1>1, <1>3, Only, QuietStep

LEMMA SyncUsageStep ==
  ASSUME IInv, SyncUsage, UNCHANGED <<usersVars, paymentVars, catalog>>
  PROVE  IInv'
<1>1. UNCHANGED <<path, Rows>> /\ Stored' = Stored /\ path \in Lists
  BY RowsKept DEF SyncUsage, SyncButton, Lists, Rows
<1>2. ListOK(ui, Waits)
  BY <1>1, Here, Only
<1>3. FirstPage(ui.filters.filter) \in ListQuery
  <2>1. 0 = ListSize * 0 /\ 0 \in 0 .. MaxListed
    BY AdminListsAssumption
  <2> QED
    BY <1>2, <2>1 DEF FirstPage, ListOK, ListState, ListQuery, ListOffsets
<1>4. CallsOK' /\ Waits \subseteq Waits' /\ "usage.sync" \in Waits'
  <2>1. ArgOK("usage.sync", FirstPage(ui.filters.filter), Stored)
    BY <1>3 DEF ArgOK, UsersArg, PaymentsArg, PackagesArg, ListsArg
  <2> QED
    BY <1>1, <2>1, SendStep DEF SyncUsage, ConsoleOps, OpsOf, Lists
<1>5. ListOK(ui', Waits')
  BY <1>2, <1>4 DEF SyncUsage, ListOK, ListState
<1> QED
  BY <1>1, <1>4, <1>5, Only, HandlerStep

LEMMA UsageSyncedStep ==
  ASSUME IInv, NEW c \in Slots, UsageSynced(c), UNCHANGED <<usersVars, paymentVars, catalog>>
  PROVE  IInv'
<1>1. UNCHANGED <<path, Rows>> /\ Stored' = Stored
  BY RowsKept DEF UsageSynced, Rows
<1>2. /\ calls[c].op = "usage.sync" /\ path \in Lists /\ Purpose(calls[c]) = "usage.sync"
      /\ calls[c].mine
  BY Owner DEF UsageSynced, Done, Purpose
<1>3. ListOK(ui, Waits)
  BY <1>2, Here, Only
<1>4. CASE /\ ui' = [ui EXCEPT !.syncing = FALSE, !.loading = TRUE, !.error = FALSE]
           /\ Await(c, "list.get", calls[c].arg)
  <2>1. ArgOK("list.get", calls[c].arg, Stored)
    BY <1>2, ArgKept DEF ArgOK, UsersArg, PaymentsArg, PackagesArg, ListsArg
  <2>2. Purpose(Leaving("list.get", calls[c].arg, TRUE)) = "list.get"
    BY DEF Leaving, Purpose
  <2>3. CallsOK' /\ "list.get" \in Waits'
    BY <1>1, <1>2, <1>4, <2>1, <2>2, AwaitStep DEF ConsoleOps, OpsOf, Lists
  <2>4. ListOK(ui', Waits')
    BY <1>3, <1>4, <2>3 DEF ListOK, ListState
  <2> QED
    BY <1>1, <1>2, <2>3, <2>4, Only, HandlerStep
<1>5. CASE ui' = [ui EXCEPT !.syncing = FALSE, !.error = TRUE] /\ Settle(c)
  <2>1. CallsOK' /\ \A w \in Waits : w # "usage.sync" => w \in Waits'
    BY <1>1, <1>2, <1>5, SettleStep
  <2>2. ListOK(ui', Waits')
    BY <1>3, <1>5, <2>1 DEF ListOK, ListState
  <2> QED
    BY <1>1, <1>2, <2>1, <2>2, Only, HandlerStep
<1> QED
  BY <1>4, <1>5 DEF UsageSynced

-----------------------------------------------------------------------------
(* The sync status and the overview.                                       *)

LEMMA LoadStatusStep ==
  ASSUME IInv, LoadStatus \/ RunSync, UNCHANGED <<usersVars, paymentVars, catalog>>
  PROVE  IInv'
<1>1. UNCHANGED <<path, Rows>> /\ Stored' = Stored /\ path = "sync"
  BY RowsKept DEF LoadStatus, RunSync, ManualSync, Rows
<1>2. SyncOK(ui, Waits)
  BY <1>1, Here, Only
<1>3. ASSUME NEW op \in {"sync.status", "sync.run"}, Send(op, None)
      PROVE  CallsOK' /\ Waits \subseteq Waits' /\ op \in Waits'
  <2>1. ArgOK(op, None, Stored)
    BY DEF ArgOK, UsersArg, PaymentsArg, PackagesArg, ListsArg
  <2>2. op \in ConsoleOps \ {"packages.relist"} /\ op \in OpsOf(path)
    BY <1>1 DEF ConsoleOps, OpsOf, Lists
  <2> QED
    BY <1>1, <1>3, <2>1, <2>2, SendStep
<1>4. CASE Send("sync.status", None) /\ ui' = [ui EXCEPT !.loading = TRUE, !.error = FALSE]
  <2>1. CallsOK' /\ Waits \subseteq Waits' /\ "sync.status" \in Waits'
    BY <1>3, <1>4
  <2>2. SyncOK(ui', Waits')
    BY <1>2, <1>4, <2>1 DEF SyncOK, SyncState
  <2> QED
    BY <1>1, <2>1, <2>2, Only, HandlerStep
<1>5. CASE Send("sync.run", None) /\ ui' = [ui EXCEPT !.syncing = TRUE, !.error = FALSE]
  <2>1. CallsOK' /\ Waits \subseteq Waits' /\ "sync.run" \in Waits'
    BY <1>3, <1>5
  <2>2. SyncOK(ui', Waits')
    BY <1>2, <1>5, <2>1 DEF SyncOK, SyncState
  <2> QED
    BY <1>1, <2>1, <2>2, Only, HandlerStep
<1> QED
  BY <1>4, <1>5 DEF LoadStatus, RunSync

LEMMA SyncRanStep ==
  ASSUME IInv, NEW c \in Slots, SyncRan(c), UNCHANGED <<usersVars, paymentVars, catalog>>
  PROVE  IInv'
<1>1. UNCHANGED <<path, Rows>> /\ Stored' = Stored
  BY RowsKept DEF SyncRan, Rows
<1>2. /\ calls[c].op = "sync.run" /\ path = "sync" /\ Purpose(calls[c]) = "sync.run"
      /\ calls[c].mine
  BY Owner DEF SyncRan, Done, Purpose
<1>3. SyncOK(ui, Waits)
  BY <1>2, Here, Only
<1>4. CASE Await(c, "sync.restatus", None) /\ UNCHANGED ui
  <2>1. ArgOK("sync.restatus", None, Stored)
    BY DEF ArgOK, UsersArg, PaymentsArg, PackagesArg, ListsArg
  <2>2. Purpose(Leaving("sync.restatus", None, TRUE)) = "sync.restatus"
    BY DEF Leaving, Purpose
  <2>3. /\ CallsOK' /\ "sync.restatus" \in Waits'
        /\ \A w \in Waits : w # "sync.run" => w \in Waits'
    BY <1>1, <1>2, <1>4, <2>1, <2>2, AwaitStep DEF ConsoleOps, OpsOf, Lists
  <2>4. SyncOK(ui', Waits')
    BY <1>3, <1>4, <2>3 DEF SyncOK
  <2> QED
    BY <1>1, <1>2, <2>3, <2>4, Only, HandlerStep
<1>5. CASE ui' = [ui EXCEPT !.error = TRUE, !.syncing = FALSE] /\ Settle(c)
  <2>1. CallsOK' /\ \A w \in Waits : w # "sync.run" => w \in Waits'
    BY <1>1, <1>2, <1>5, SettleStep
  <2>2. SyncOK(ui', Waits')
    BY <1>3, <1>5, <2>1 DEF SyncOK, SyncState
  <2> QED
    BY <1>1, <1>2, <2>1, <2>2, Only, HandlerStep
<1> QED
  BY <1>4, <1>5 DEF SyncRan

LEMMA StatusLoadedStep ==
  ASSUME IInv, NEW c \in Slots, StatusLoaded(c), UNCHANGED <<usersVars, paymentVars, catalog>>
  PROVE  IInv'
<1>1. UNCHANGED <<path, Rows>> /\ Stored' = Stored
  BY RowsKept DEF StatusLoaded, Rows
<1>2. /\ calls[c].op \in {"sync.status", "sync.restatus"} /\ path = "sync"
      /\ Purpose(calls[c]) = calls[c].op
  BY Owner DEF StatusLoaded, Done, Purpose
<1>3. CallsOK' /\ \A w \in Waits : w # calls[c].op => w \in Waits'
  BY <1>1, <1>2, SettleStep DEF StatusLoaded
<1>4. SyncOK(ui, Waits)
  BY <1>2, Here, Only
<1>5. PICK now : now = IF calls[c].ans.ok THEN [ui EXCEPT !.status = calls[c].ans.data]
                       ELSE [ui EXCEPT !.error = TRUE]
  OBVIOUS
<1>6. calls[c].ans.ok => calls[c].ans.data \in [known : BOOLEAN, running : BOOLEAN, healthy : BOOLEAN]
  BY <1>2, ArgKept DEF DataOK, ListsData, SyncStatus
<1>7. now \in SyncState /\ now.loading = ui.loading /\ now.syncing = ui.syncing
  BY <1>4, <1>5, <1>6 DEF SyncOK, SyncState
<1>8. \/ calls[c].op = "sync.status"   /\ ui' = [now EXCEPT !.loading = FALSE]
      \/ calls[c].op = "sync.restatus" /\ ui' = [now EXCEPT !.syncing = FALSE]
  BY <1>5 DEF StatusLoaded, Done
<1>9. SyncOK(ui', Waits')
  BY <1>3, <1>4, <1>7, <1>8 DEF SyncOK, SyncState
<1> QED
  BY <1>1, <1>2, <1>3, <1>9, Only, HandlerStep

LEMMA LoadAdminStep ==
  ASSUME IInv, LoadAdmin, UNCHANGED <<usersVars, paymentVars, catalog>>
  PROVE  IInv'
<1>1. UNCHANGED <<path, Rows>> /\ Stored' = Stored /\ path = "admin"
  BY RowsKept DEF LoadAdmin, Rows
<1>2. AdminOK(ui, Waits)
  BY <1>1, Here, Only
<1>3. CallsOK' /\ Waits \subseteq Waits' /\ "admin.get" \in Waits'
  <2>1. ArgOK("admin.get", None, Stored)
    BY DEF ArgOK, UsersArg, PaymentsArg, PackagesArg, ListsArg
  <2> QED
    BY <1>1, <2>1, SendStep DEF LoadAdmin, ConsoleOps, OpsOf, Lists
<1>4. AdminOK(ui', Waits')
  BY <1>2, <1>3 DEF LoadAdmin, AdminOK, AdminState
<1> QED
  BY <1>1, <1>3, <1>4, Only, HandlerStep

\* Whichever answer comes first, the overview is shown.
LEMMA AdminLoadedStep ==
  ASSUME IInv, NEW c \in Slots, AdminLoaded(c), UNCHANGED <<usersVars, paymentVars, catalog>>
  PROVE  IInv'
<1>1. UNCHANGED <<path, Rows>> /\ Stored' = Stored
  BY RowsKept DEF AdminLoaded, Rows
<1>2. calls[c].op = "admin.get" /\ path = "admin"
  BY Owner DEF AdminLoaded, Done
<1>3. CallsOK'
  BY <1>1, SettleStep DEF AdminLoaded
<1>4. AdminOK(ui, Waits) /\ calls[c].ans.ok \in BOOLEAN
  BY <1>2, Here, Only, ArgKept
<1>5. PICK shown \in BOOLEAN, error \in BOOLEAN :
        shown = (ui.dashboard \/ calls[c].ans.ok) /\ error = ~calls[c].ans.ok
  OBVIOUS
<1>6. ui' = [ui EXCEPT !.dashboard = shown, !.error = error, !.loading = FALSE,
                       !.refreshing = FALSE]
  BY <1>5 DEF AdminLoaded
<1>7. AdminOK(ui', Waits')
  BY <1>4, <1>6 DEF AdminOK, AdminState
<1> QED
  BY <1>1, <1>2, <1>3, <1>7, Only, HandlerStep

LEMMA AdminListsStep ==
  ASSUME IInv, AdminListsNext, UNCHANGED <<usersVars, paymentVars, catalog>>
  PROVE  IInv'
<1>1. CASE ApplyListFilters \/ RefreshList \/ TurnListPage \/ SelectRow \/ SyncUsage
  BY <1>1, ListFormsStep, SelectRowStep, SyncUsageStep
<1>2. CASE WorkerRuns \/ LoadStatus \/ RunSync \/ LoadAdmin
  BY <1>2, WorkerRunsStep, LoadStatusStep, LoadAdminStep
<1>3. ASSUME NEW c \in Slots,
             \/ ServeLists(c) \/ ServeSync(c)
             \/ ListLoaded(c) \/ UsageSynced(c) \/ SyncRan(c) \/ StatusLoaded(c) \/ AdminLoaded(c)
      PROVE  IInv'
  BY <1>3, ServeListsStep, ServeSyncStep, ListLoadedStep, UsageSyncedStep, SyncRanStep,
     StatusLoadedStep, AdminLoadedStep
<1> QED
  BY <1>1, <1>2, <1>3 DEF AdminListsNext

-----------------------------------------------------------------------------
(* The tab.                                                                *)

\* A page is opened: its first request is one that it waits for.
LEMMA OpenStep ==
  ASSUME IInv, NEW p \in AdminPages, NEW state, NEW op \in ConsoleOps \ {"packages.relist"},
         NEW arg, Mount(p, state, op, arg), op \in OpsOf(p), ArgOK(op, arg, Stored),
         \A waits : op \in waits => PageAt(p, state, waits, Stored), UNCHANGED Rows
  PROVE  IInv'
<1>1. RowsOK' /\ Stored' = Stored
  BY RowsKept DEF IInv
<1>2. CallsOK' /\ path' = p /\ ui' = state /\ op \in Waits'
  BY <1>1, MountStep
<1> QED
  BY <1>1, <1>2 DEF IInv, PageOK

LEMMA NavigateStep ==
  ASSUME IInv, Navigate
  PROVE  IInv'
<1>1. UNCHANGED Rows
  BY DEF Navigate, Rows
<1>2. PICK p \in AdminPages : Open(p)
  <2>1. PICK p \in (IF path = "address" THEN AdminPages ELSE Links[path]) : Open(p)
    BY DEF Navigate
  <2>2. p \in AdminPages
    BY <2>1, ConsoleAssumption DEF IInv, PageOK, PageAt
  <2> QED
    BY <2>1, <2>2
<1>3. CASE p = "admin"
  <2>1. Mount("admin", AdminFresh, "admin.get", None)
    BY <1>2, <1>3 DEF Open, OpenAdmin
  <2>2. ArgOK("admin.get", None, Stored)
    BY DEF ArgOK, UsersArg, PaymentsArg, PackagesArg, ListsArg
  <2>3. ASSUME NEW waits, "admin.get" \in waits PROVE AdminOK(AdminFresh, waits)
    BY <2>3 DEF AdminOK, AdminFresh, AdminState
  <2> QED
    BY <1>1, <2>1, <2>2, <2>3, Only, OpenStep DEF AdminPages, ConsoleOps, OpsOf, Lists
<1>4. CASE p = "users"
  <2>1. Mount("users", UsersFresh, "users.list", AllUsers)
    BY <1>2, <1>4 DEF Open, OpenUsers
  <2>2. 0 = PageSize * 0 /\ 0 \in 0 .. NumUsers
    BY AdminUsersAssumption
  <2>3. AllUsers \in UserFilter
    BY <2>2, AdminUsersAssumption DEF AllUsers, UserFilter
  <2>4. ArgOK("users.list", AllUsers, Stored)
    BY <2>3 DEF ArgOK, UsersArg, PaymentsArg, PackagesArg, ListsArg
  <2>5. UsersFresh \in UsersState
    BY <2>2, <2>3 DEF UsersFresh, UsersState
  <2>6. ASSUME NEW waits, "users.list" \in waits PROVE UsersOK(UsersFresh, waits)
    BY <2>5, <2>6 DEF UsersOK, UsersFresh
  <2> QED
    BY <1>1, <2>1, <2>4, <2>6, Only, OpenStep DEF AdminPages, ConsoleOps, OpsOf, Lists
<1>5. CASE p = "user"
  <2>1. PICK u \in Users : Mount("user", UserFresh(u), "user.get", u)
    BY <1>2, <1>5 DEF Open, OpenUser
  <2>2. ArgOK("user.get", u, Stored)
    BY DEF ArgOK, UsersArg, PaymentsArg, PackagesArg, ListsArg
  <2>3. ASSUME NEW waits, "user.get" \in waits PROVE UserOK(UserFresh(u), waits)
    BY <2>3 DEF UserOK, UserFresh, UserState
  <2> QED
    BY <1>1, <2>1, <2>2, <2>3, Only, OpenStep DEF AdminPages, ConsoleOps, OpsOf, Lists
<1>6. CASE p = "payments"
  <2>1. Mount("payments", PaymentsFresh, "payments.list", [filter |-> "all", offset |-> 0])
    BY <1>2, <1>6 DEF Open, OpenPayments
  <2>2. 0 = ListLimit * 0 /\ 0 \in 0 .. NumPayments
    BY AdminPaymentsAssumption
  <2>3. 0 \in PaymentOffsets /\ "all" \in PaymentFilters
    BY <2>2 DEF PaymentOffsets, PaymentFilters
  <2>4. ArgOK("payments.list", [filter |-> "all", offset |-> 0], Stored)
    BY <2>3 DEF ArgOK, UsersArg, PaymentsArg, PackagesArg, ListsArg
  <2>5. PaymentsFresh \in PaymentsState
    BY <2>2, <2>3 DEF PaymentsFresh, PaymentsState
  <2>6. ASSUME NEW waits, "payments.list" \in waits PROVE PaymentsOK(PaymentsFresh, waits)
    BY <2>5, <2>6 DEF PaymentsOK, PaymentsFresh
  <2> QED
    BY <1>1, <2>1, <2>4, <2>6, Only, OpenStep DEF AdminPages, ConsoleOps, OpsOf, Lists
<1>7. CASE p = "settings"
  <2>1. Mount("settings", SettingsFresh, "settings.get", None)
    BY <1>2, <1>7 DEF Open, OpenSettings
  <2>2. ArgOK("settings.get", None, Stored)
    BY DEF ArgOK, UsersArg, PaymentsArg, PackagesArg, ListsArg
  <2>3. ASSUME NEW waits, "settings.get" \in waits PROVE SettingsOK(SettingsFresh, waits)
    BY <2>3 DEF SettingsOK, SettingsFresh, SettingsState
  <2> QED
    BY <1>1, <2>1, <2>2, <2>3, Only, OpenStep DEF AdminPages, ConsoleOps, OpsOf, Lists
<1>8. CASE p = "packages"
  <2>1. Mount("packages", PackagesFresh, "packages.list", None)
    BY <1>2, <1>8 DEF Open, OpenPackages
  <2>2. ArgOK("packages.list", None, Stored)
    BY DEF ArgOK, UsersArg, PaymentsArg, PackagesArg, ListsArg
  <2>3. PICK panel \in -1 .. MaxPackages : panel = -1 /\ ~(panel > 0)
    BY AdminPackagesAssumption
  <2>4. MinorToMoney(1000) = [whole |-> 10, fraction |-> <<0, 0>>]
    BY DEF MinorToMoney
  <2>5. EmptyForm \in [name : {0} \cup Numbers, price : Texts, active : BOOLEAN]
    BY <2>4 DEF EmptyForm, Texts
  <2>6. PICK state :
          state = [packages |-> [n \in Numbers |-> NoPackage], form |-> EmptyForm, panel |-> panel,
                   loading |-> TRUE, saving |-> FALSE, acting |-> 0, error |-> FALSE]
    OBVIOUS
  <2>7. state = PackagesFresh
    BY <2>3, <2>6 DEF PackagesFresh
  <2>8. Catalogue(state.packages, Stored)
    BY <2>6 DEF Catalogue
  <2>9. state \in PackagesState
    BY <2>5, <2>6 DEF PackagesState
  <2>10. ASSUME NEW waits, "packages.list" \in waits PROVE PackagesOK(state, waits, Stored)
    BY <2>3, <2>6, <2>8, <2>9, <2>10 DEF PackagesOK
  <2> QED
    BY <1>1, <2>1, <2>2, <2>7, <2>10, Only, OpenStep DEF AdminPages, ConsoleOps, OpsOf, Lists
<1>9. CASE p \in Lists
  <2>1. Mount(p, ListFresh, "list.get", FirstPage(AnyEvent))
    BY <1>2, <1>9 DEF Open, OpenUsage, OpenAudit, Lists
  <2>2. 0 = ListSize * 0 /\ 0 \in 0 .. MaxListed /\ 0 \in 0 .. ListSize /\ 0 # ListSize
    BY AdminListsAssumption
  <2>3. FirstPage(AnyEvent) \in ListQuery
    BY <2>2, AdminListsAssumption DEF FirstPage, ListQuery, ListOffsets
  <2>4. ArgOK("list.get", FirstPage(AnyEvent), Stored)
    BY <2>3 DEF ArgOK, UsersArg, PaymentsArg, PackagesArg, ListsArg
  <2>5. ListFresh \in ListState
    BY <2>2, <2>3 DEF ListFresh, ListState
  <2>6. RowsPage(ListFresh.rows)
    BY <2>2, <2>3 DEF ListFresh, RowsPage
  <2>7. ASSUME NEW waits, "list.get" \in waits PROVE ListOK(ListFresh, waits)
    BY <2>5, <2>6, <2>7 DEF ListOK, ListFresh
  <2>8. "list.get" \in OpsOf(p)
    BY <1>9 DEF OpsOf, Lists
  <2> QED
    BY <1>1, <1>9, <2>1, <2>4, <2>7, <2>8, Only, OpenStep DEF ConsoleOps
<1>10. CASE p = "sync"
  <2>1. Mount("sync", SyncFresh, "sync.status", None)
    BY <1>2, <1>10 DEF Open, OpenSync
  <2>2. ArgOK("sync.status", None, Stored)
    BY DEF ArgOK, UsersArg, PaymentsArg, PackagesArg, ListsArg
  <2>3. ASSUME NEW waits, "sync.status" \in waits PROVE SyncOK(SyncFresh, waits)
    BY <2>3 DEF SyncOK, SyncFresh, SyncState, NoStatus
  <2> QED
    BY <1>1, <2>1, <2>2, <2>3, Only, OpenStep DEF AdminPages, ConsoleOps, OpsOf, Lists
<1> QED
  BY <1>2, <1>3, <1>4, <1>5, <1>6, <1>7, <1>8, <1>9, <1>10 DEF AdminPages, Lists

LEMMA FailsStep ==
  ASSUME IInv, NEW c \in Slots, Fails(c)
  PROVE  IInv'
BY Refused DEF Fails, Lost, Rows

LEMMA InitIInv ==
  ASSUME Init
  PROVE  IInv
<1>1. UsersRowsOK
  <2>1. account \in [Users -> Account]
    BY DEF Init, Account, UserStatuses
  <2>2. 0 \in 0 .. MaxEntries /\ 0 <= 1
    BY AdminUsersAssumption
  <2> QED
    BY <2>1, <2>2 DEF Init, UsersRowsOK
<1>2. PaymentRowsOK
  BY DEF Init, PaymentRowsOK, AdminPayment, OrderStatuses
<1>3. Catalogue(catalog, Stored)
  <2>1. 1 \in Numbers
    BY AdminPackagesAssumption DEF Numbers
  <2>2. PICK first : first = [name |-> 1, price |-> 1050, active |-> TRUE]
    OBVIOUS
  <2>3. first \in PackageOf(1)
    BY <2>2, PricesAssumption DEF PackageOf
  <2>4. first # NoPackage /\ first \in CreditPackage
    BY <2>1, <2>3, PackageShape
  <2>5. catalog = [n \in Numbers |-> IF n = 1 THEN first ELSE NoPackage]
    BY <2>2 DEF Init
  <2> QED
    BY <2>1, <2>3, <2>4, <2>5 DEF Catalogue, Stored
<1>4. ListRowsOK
  <2>1. 0 \in 0 .. MaxListed
    BY AdminListsAssumption
  <2>2. listed = [f \in ListFilters |-> 0] /\ running = FALSE /\ healthy = TRUE
    BY DEF Init
  <2> QED
    BY <2>1, <2>2 DEF ListRowsOK
<1>5. CallsOK
  BY NoCallOK DEF Init, CallsOK
<1>6. PageOK
  BY DEF Init, PageOK, PageAt, Lists
<1> QED
  BY <1>1, <1>2, <1>3, <1>4, <1>5, <1>6 DEF IInv, RowsOK

LEMMA NextIInv ==
  ASSUME IInv, [Next]_vars
  PROVE  IInv'
<1>1. CASE Navigate
  BY <1>1, NavigateStep
<1>2. CASE AdminUsersNext /\ UNCHANGED <<paymentVars, catalog, listsVars>>
  BY <1>2, AdminUsersStep
<1>3. CASE AdminPaymentsNext /\ UNCHANGED <<usersVars, catalog, listsVars>>
  BY <1>3, AdminPaymentsStep
<1>4. CASE AdminPackagesNext /\ UNCHANGED <<usersVars, paymentVars, listsVars>>
  BY <1>4, AdminPackagesStep
<1>5. CASE AdminListsNext /\ UNCHANGED <<usersVars, paymentVars, catalog>>
  BY <1>5, AdminListsStep
<1>6. CASE \E c \in Slots : Fails(c)
  BY <1>6, FailsStep
<1>7. CASE UNCHANGED vars
  <2>1. UNCHANGED <<path, ui, calls, Rows>>
    BY <1>7 DEF vars, Rows
  <2> QED
    BY <2>1, RowsKept, Elsewhere DEF IInv
<1> QED
  BY <1>1, <1>2, <1>3, <1>4, <1>5, <1>6, <1>7 DEF Next

-----------------------------------------------------------------------------
(* What holds for any number of users, payments, packages and requests.    *)

\* The invariant: the rows, the requests and the page agree, however the
\* answers are delayed, overtake one another, or are lost.
THEOREM ConsoleInvariant == Spec => []IInv
BY InitIInv, NextIInv, PTL DEF Spec

\* Every page has the state its useState declares, whatever was answered to
\* the page that was there before.
THEOREM ConsoleTypes == Spec => []TypeOK
<1>1. ASSUME IInv PROVE TypeOK
  <2>1. path \in AdminPages \cup {"address"}
    BY <1>1 DEF IInv, PageOK, PageAt
  <2>2. ui \in ConsoleState
    <3>1. PageAt(path, ui, Waits, Stored)
      BY <1>1, Here
    <3>2. path \in {"address", "admin"} => ui \in ConsoleState
      BY <3>1 DEF PageAt, AdminOK, ConsoleState, Lists
    <3>3. path \in {"users", "user"} => ui \in ConsoleState
      BY <3>1 DEF PageAt, UsersOK, UserOK, ConsoleState, Lists
    <3>4. path \in {"payments", "settings"} => ui \in ConsoleState
      BY <3>1 DEF PageAt, PaymentsOK, SettingsOK, ConsoleState, Lists
    <3>5. path = "packages" => ui \in ConsoleState
      BY <3>1 DEF PageAt, PackagesOK, ConsoleState, Lists
    <3>6. path \in Lists \cup {"sync"} => ui \in ConsoleState
      BY <3>1 DEF PageAt, ListOK, SyncOK, ConsoleState, Lists
    <3> QED
      BY <2>1, <3>2, <3>3, <3>4, <3>5, <3>6 DEF AdminPages, Lists
  <2>3. \A c \in Slots : /\ calls[c].op \in ConsoleOps \cup {None}
                         /\ calls[c].st \in {None, "sent", "done"}
                         /\ calls[c].mine \in BOOLEAN
    BY <1>1 DEF IInv, CallsOK, CallOK
  <2> QED
    BY <1>1, <2>1, <2>2, <2>3
       DEF TypeOK, IInv, RowsOK, UsersRowsOK, PaymentRowsOK, ListRowsOK, Catalogue
<1> QED
  BY <1>1, ConsoleInvariant, PTL

\* No page shows for ever that it loads, and no button stays busy for good:
\* each waits for a request of its own, whichever others fail meanwhile.
THEOREM ConsoleNeverStuck == Spec => []ConsoleRecovers
<1>1. ASSUME IInv PROVE ConsoleRecovers
  <2>1. ASSUME NEW w \in Waits, w \notin {"relist after toggle", "relist after save"},
               NEW ops, w \in ops
        PROVE  Pending(ops)
    <3>1. PICK c \in Slots : calls[c].mine /\ w = Purpose(calls[c])
      BY DEF Waits
    <3>2. calls[c].op = w
      BY <2>1, <3>1 DEF Purpose
    <3> QED
      BY <2>1, <3>1, <3>2 DEF Pending
  <2>2. ASSUME NEW w \in Waits, w \in {"relist after toggle", "relist after save"},
               NEW ops, "packages.relist" \in ops
        PROVE  Pending(ops)
    <3>1. PICK c \in Slots : calls[c].mine /\ w = Purpose(calls[c])
      BY DEF Waits
    <3>2. calls[c].op = "packages.relist"
      <4>1. calls[c].op \in OpsOf(path) /\ path \in AdminPages \cup {"address"}
        BY <1>1, <3>1, Owned
      <4>2. calls[c].op \notin {"relist after toggle", "relist after save"}
        BY <4>1 DEF OpsOf, AdminPages, Lists
      <4> QED
        BY <2>2, <3>1, <4>2 DEF Purpose
    <3> QED
      BY <2>2, <3>1, <3>2 DEF Pending
  <2>3. PageAt(path, ui, Waits, Stored)
    BY <1>1, Here
  <2>4. path = "users" => /\ ui.loading    => Pending({"users.list"})
                          /\ ui.acting # 0 => Pending({"users.status", "users.relist"})
    BY <2>1, <2>3 DEF PageAt, UsersOK
  <2>5. path = "user" =>
          /\ ui.loading => Pending({"user.get"})
          /\ ui.acting  => Pending({"user.status", "user.key", "user.topup", "user.adjust",
                                    "user.reload"})
    BY <2>1, <2>3 DEF PageAt, UserOK
  <2>6. path = "payments" =>
          /\ ui.loading => Pending({"payments.list"})
          /\ ui.acting  => Pending({"payments.approve", "payments.reject", "payments.reget"})
    BY <2>1, <2>3 DEF PageAt, PaymentsOK
  <2>7. path = "settings" => /\ ui.loading   => Pending({"settings.get"})
                             /\ ui.saving    => Pending({"settings.save"})
                             /\ ui.uploading => Pending({"settings.upload"})
    BY <2>1, <2>3 DEF PageAt, SettingsOK
  <2>8. path = "packages" =>
          /\ ui.loading    => Pending({"packages.list"})
          /\ ui.saving     => Pending({"package.create", "package.update", "packages.relist"})
          /\ ui.acting # 0 => Pending({"package.toggle", "packages.relist"})
    BY <2>1, <2>2, <2>3 DEF PageAt, PackagesOK
  <2>9. path \in Lists => /\ ui.loading => Pending({"list.get"})
                          /\ ui.syncing => Pending({"usage.sync"})
    BY <2>1, <2>3 DEF PageAt, ListOK
  <2>10. path = "sync" => /\ ui.loading => Pending({"sync.status"})
                          /\ ui.syncing => Pending({"sync.run", "sync.restatus"})
    BY <2>1, <2>3 DEF PageAt, SyncOK
  <2>11. path = "admin" => (ui.loading \/ ui.refreshing => Pending({"admin.get"}))
    BY <2>1, <2>3 DEF PageAt, AdminOK
  <2> QED
    BY <2>4, <2>5, <2>6, <2>7, <2>8, <2>9, <2>10, <2>11 DEF ConsoleRecovers
<1> QED
  BY <1>1, ConsoleInvariant, PTL

\* What was typed for one payment never approves another, although a late
\* answer changes the payment in the drawer.
THEOREM ApprovedByReference == Spec => []ApprovedByItsReference
<1>1. IInv => ApprovedByItsReference
  BY DEF IInv, RowsOK, PaymentRowsOK, ApprovedByItsReference
<1> QED
  BY <1>1, ConsoleInvariant, PTL

\* However often a manual top-up is lost and submitted again, and for
\* whichever users, its reference credits once.
THEOREM ReferenceOnce == Spec => []ReferenceCreditsOnce
<1>1. IInv => ReferenceCreditsOnce
  BY DEF IInv, RowsOK, UsersRowsOK, ReferenceCreditsOnce
<1> QED
  BY <1>1, ConsoleInvariant, PTL

\* A package never gets the fields of another, whichever panel is open when
\* the catalogue, a row or an answer to a save arrives.
THEOREM PackageFields == Spec => []PackagesKeepTheirFields
<1>1. IInv => PackagesKeepTheirFields
  BY DEF IInv, RowsOK, Catalogue, PackageOf, PackagesKeepTheirFields
<1> QED
  BY <1>1, ConsoleInvariant, PTL
=============================================================================
