--------------------------- MODULE AdminPackages ---------------------------
(***************************************************************************)
(* The administrator's catalogue of packages (app/admin/packages/page.tsx):*)
(* a table of what was loaded last, and a panel with one form for creating *)
(* and for editing.  A save sends the whole form, an activation one field, *)
(* and both then read the catalogue again.                                 *)
(*                                                                         *)
(* A price is typed as text and stored in minor units; the conversion both *)
(* ways is modelled, the package's other fields are its name.  The form    *)
(* holds what it was filled with; what is then typed into it is an input   *)
(* of the action that submits it.                                          *)
(***************************************************************************)
EXTENDS Tab, Integers, Sequences

CONSTANTS
  MaxPackages,   \* bound: packages ever created
  PriceTexts,    \* the price texts an administrator types
  Prices         \* the prices they stand for, and those stored before, in minor units

ASSUME AdminPackagesAssumption == MaxPackages \in Nat \ {0}

VARIABLE catalog   \* catalog[n] : package number n, or NoPackage

\* A price as text: its whole part, and the digits after the point.
MinorToMoney(minor) ==
  [whole |-> minor \div 100, fraction |-> <<(minor % 100) \div 10, minor % 10>>]

\* parseMoneyToMinor of a valid text: the fraction is padded to two digits.
ParseMoneyToMinor(text) ==
  LET digit(i) == IF i <= Len(text.fraction) THEN text.fraction[i] ELSE 0
  IN text.whole * 100 + 10 * digit(1) + digit(2)

\* parseMoneyToMinor's pattern; a text that is no amount has whole part -1.
ValidPrice(text) == text.whole >= 0 /\ Len(text.fraction) <= 2

NoPackage == [name |-> 0, price |-> 0, active |-> FALSE]

\* emptyForm: "10.00" and active; the name of a new package is typed.
EmptyForm == [name |-> 0, price |-> [whole |-> 10, fraction |-> <<0, 0>>], active |-> TRUE]

\* packageToForm and formToInput
PackageToForm(p) == [name |-> p.name, price |-> MinorToMoney(p.price), active |-> p.active]

FormToInput(f) == [name |-> f.name, price |-> ParseMoneyToMinor(f.price), active |-> f.active]

\* validateForm
ValidForm(f) == f.name # 0 /\ ValidPrice(f.price)

\* What is typed and accepted is stored as what it stands for, next to the
\* price of the package that is there in the beginning.
ASSUME PricesAssumption ==
  /\ Prices \subseteq Nat /\ 1050 \in Prices
  /\ \A text \in PriceTexts : ValidPrice(text) => ParseMoneyToMinor(text) \in Prices

Numbers == 1 .. MaxPackages

CreditPackage == [name : Numbers, price : Prices, active : BOOLEAN]

Texts == PriceTexts \cup {MinorToMoney(m) : m \in Prices \cup {1000}}

\* useState of the page.  panel: closed (-1), creating (0) or editing package n.
PackagesFresh == [packages |-> [n \in Numbers |-> NoPackage], form |-> EmptyForm, panel |-> -1,
                  loading |-> TRUE, saving |-> FALSE, acting |-> 0, error |-> FALSE]

PackagesState ==
  [packages : [Numbers -> CreditPackage \cup {NoPackage}],
   form : [name : {0} \cup Numbers, price : Texts, active : BOOLEAN],
   panel : -1 .. MaxPackages, loading : BOOLEAN, saving : BOOLEAN,
   acting : {0} \cup Numbers, error : BOOLEAN]

OpenPackages == Mount("packages", PackagesFresh, "packages.list", None)

-----------------------------------------------------------------------------
(* What the page offers.                                                   *)

\* visiblePackages: search and status filter only choose what is in view.
VisiblePackages ==
  IF path = "packages" /\ ~ui.loading
  THEN {n \in Numbers : ui.packages[n] # NoPackage} ELSE {}

\* A row's Activate or Deactivate; Edit is always there.
ToggleButton(n) == n \in VisiblePackages /\ ui.acting # n

\* PackagePanel: its fields and its Cancel stay enabled while it saves.
PackagePanel ==
  [open   |-> path = "packages" /\ ui.panel >= 0,
   submit |-> path = "packages" /\ ui.panel >= 0 /\ ~ui.saving]

-----------------------------------------------------------------------------
(* What the API does.                                                      *)

ServePackages(c) ==
  /\ Sent(c, "packages.list") \/ Sent(c, "packages.relist")
  /\ Reply(c, Ok(catalog))
  /\ UNCHANGED <<path, ui, catalog>>

\* POST /v1/admin/packages: every call is another package, which is numbered
\* as it is named.
ServeCreatePackage(c) ==
  /\ Sent(c, "package.create")
  /\ LET n == calls[c].arg.input.name IN
     /\ catalog[n] = NoPackage
     /\ catalog' = [catalog EXCEPT ![n] = calls[c].arg.input]
  /\ Reply(c, Ok(None))
  /\ UNCHANGED <<path, ui>>

\* PATCH /v1/admin/packages/{id}, with the whole form or with `active'.
ServeUpdatePackage(c) ==
  /\ \/ /\ Sent(c, "package.update")
        /\ catalog' = [catalog EXCEPT ![calls[c].arg.id] = calls[c].arg.input]
     \/ /\ Sent(c, "package.toggle")
        /\ catalog' = [catalog EXCEPT ![calls[c].arg.id].active = calls[c].arg.active]
  /\ Reply(c, Ok(None))
  /\ UNCHANGED <<path, ui>>

-----------------------------------------------------------------------------
(* The page's handlers.                                                    *)

\* load: Refresh, and the error's Retry.
LoadPackages ==
  /\ path = "packages" /\ (~ui.loading \/ ui.error)
  /\ ui' = [ui EXCEPT !.loading = TRUE, !.error = FALSE]
  /\ Send("packages.list", None)
  /\ UNCHANGED <<path, catalog>>

PackagesLoaded(c) ==
  /\ Done(c, "packages.list") /\ calls[c].mine
  /\ ui' = IF calls[c].ans.ok THEN [ui EXCEPT !.packages = calls[c].ans.data, !.loading = FALSE]
           ELSE [ui EXCEPT !.error = TRUE, !.loading = FALSE]
  /\ Settle(c)
  /\ UNCHANGED <<path, catalog>>

OpenCreate ==
  /\ path = "packages"
  /\ ui' = [ui EXCEPT !.form = EmptyForm, !.panel = 0]
  /\ UNCHANGED <<path, calls, catalog>>

\* (Faulty: the form is filled when the panel is mounted, and it is mounted once.)
OpenEditKeepingForm ==
  /\ \E n \in VisiblePackages :
       ui' = [ui EXCEPT !.form = IF ui.panel > 0 THEN @ ELSE PackageToForm(ui.packages[n]),
                        !.panel = n]
  /\ UNCHANGED <<path, calls, catalog>>

\* openEdit: the form is filled from the row, as it was loaded last.
OpenEdit ==
  /\ \E n \in VisiblePackages :
       ui' = [ui EXCEPT !.form = PackageToForm(ui.packages[n]), !.panel = n]
  /\ UNCHANGED <<path, calls, catalog>>

\* The panel's Cancel, its second one and the backdrop.
ClosePanel ==
  /\ PackagePanel.open
  /\ ui' = [ui EXCEPT !.panel = -1]
  /\ UNCHANGED <<path, calls, catalog>>

\* What the panel's fields can hold by the time of a submit; a new package is
\* given a new name and a price, the others keep theirs or get another price.
Typed ==
  [name : IF ui.panel = 0 THEN {n \in Numbers : catalog[n] = NoPackage} ELSE {ui.form.name},
   price : PriceTexts \cup (IF ui.panel = 0 THEN {} ELSE {ui.form.price}), active : BOOLEAN]

\* submitPackage: the form and the panel of the click.
SubmitPackage ==
  /\ PackagePanel.submit
  /\ ui' = [ui EXCEPT !.saving = TRUE, !.error = FALSE]
  /\ \E form \in Typed :
       /\ ValidForm(form)
       /\ IF ui.panel = 0
          THEN Send("package.create", [input |-> FormToInput(form)])
          ELSE Send("package.update", [id |-> ui.panel, input |-> FormToInput(form)])
  /\ UNCHANGED <<path, catalog>>

\* toggleActive, once it is confirmed.
ToggleActive ==
  /\ \E n \in Numbers :
       /\ ToggleButton(n)
       /\ ui' = [ui EXCEPT !.acting = n, !.error = FALSE]
       /\ Send("package.toggle", [id |-> n, active |-> ~ui.packages[n].active])
  /\ UNCHANGED <<path, catalog>>

\* After a save whatever panel is open is closed, and the catalogue is read.
PackageWritten(c) ==
  /\ calls[c].mine
  /\ \E op \in {"package.create", "package.update", "package.toggle"} :
       /\ Done(c, op)
       /\ \/ /\ calls[c].ans.ok
             /\ ui' = IF op = "package.toggle" THEN ui ELSE [ui EXCEPT !.panel = -1]
             /\ Await(c, "packages.relist", [toggled |-> op = "package.toggle"])
          \/ /\ ~calls[c].ans.ok
             /\ ui' = IF op = "package.toggle" THEN [ui EXCEPT !.error = TRUE, !.acting = 0]
                      ELSE [ui EXCEPT !.saving = FALSE]
             /\ Settle(c)
  /\ UNCHANGED <<path, catalog>>

PackagesReread(c) ==
  /\ Done(c, "packages.relist") /\ calls[c].mine
  /\ LET ans  == calls[c].ans
         seen == IF ans.ok THEN [ui EXCEPT !.packages = ans.data] ELSE ui
     IN ui' = IF calls[c].arg.toggled
              THEN [seen EXCEPT !.acting = 0, !.error = @ \/ ~ans.ok]
              ELSE [seen EXCEPT !.saving = FALSE]
  /\ Settle(c)
  /\ UNCHANGED <<path, catalog>>

AdminPackagesNext ==
  \/ LoadPackages \/ OpenCreate \/ OpenEdit \/ ClosePanel
  \/ SubmitPackage \/ ToggleActive
  \/ \E c \in Slots :
       \/ ServePackages(c) \/ ServeCreatePackage(c) \/ ServeUpdatePackage(c)
       \/ PackagesLoaded(c) \/ PackageWritten(c) \/ PackagesReread(c)
=============================================================================
