# SLAI: a TLA+ verification project

SLAI resells access to an LLM gateway. It sells credit packages, keeps a credit
ledger, creates API keys at OmniRoute (the gateway) and bills what OmniRoute logs.
This directory models the parts of `services/api` that move money and keys and the pages
of `apps/web` that customers and administrators use, checks them with TLC and proves their
safety with TLAPS. Paths below are relative to
`services/api/internal` or, in the sections on the web application, to `apps/web/src`,
unless they start at the root of the repository.

- [The system](#the-system): components, state, operations, hard behaviours
- [The plan](#the-plan): modules, runs and theorems, written and to be written
- [Ledger](#ledger), [Payments](#payments), [API keys and billing](#api-keys-and-billing),
  [Usage sync](#usage-sync), [One-time codes](#one-time-codes), [A tab](#a-tab),
  [Checkout page](#checkout-page), [Dashboard](#dashboard), [Console](#console),
  [Session](#session): what the modules say and what the runs show
- [Proofs](#proofs), [Bounds](#bounds), [Fairness](#fairness),
  [Assumptions](#assumptions-about-the-outside), [Not modelled](#not-modelled)

Run a check with `tlc -config LedgerTx.cfg MCLedgerTx`, a proof with
`tlapm LedgerTxProofs.tla`. `PROJECT.json` maps every definition to its lines of code.

## The system

One Go process (one or more replicas) serves HTTP, talks to PostgreSQL, to OmniRoute
and to slai-payment, and runs a usage-sync worker. All lasting state is in PostgreSQL
(READ COMMITTED, explicit row locks, unique indexes) and at the two services. A Next.js
application renders the pages in the browser; they keep React state only, and talk to the
API through a proxy on their own origin.

| Component | State | Operations | What is hard | What makes it correct |
|---|---|---|---|---|
| Credit ledger (`ledger`) | `credit_balances`, `credit_ledger_entries` | `Mutate`, `EnsureBalance`, reads | concurrent debits and credits of a row; retries under one idempotency key; a commit whose answer is lost | the balance is the sum of the entries; a key is applied once; a success is a committed entry; the lifetime counters add up |
| Payments (`payments`, `slaipayment`) | `payments`, proofs, settings; the external payment | checkout, callback, refresh, proof, approve, reject, manual top-up | callbacks lost, repeated, late, reordered, racing refreshes and reviews; two credits under two keys; duplicate bank transactions | credited once, if and only if paid; automatic credit only for a confirmed amount; a bank transaction or reference pays one payment |
| API keys (`apikeys`) | `api_keys`; OmniRoute's keys | create, rotate, revoke, suspend, resume, provision | two systems without a common commit; a crash in between; "current key" by creation time | one ACTIVE key; a revoked key does not serve; what SLAI shows is what OmniRoute does; a resume needs credit |
| Usage billing (`usage/service.go`) | `usage_events` | `IngestEvent` | a key's status read before the wait for the account's row | an event is billed once; an overdrawn account's key is suspended |
| Usage sync (`usage/service.go`, `usage/sync_worker.go`, `platform/db/advisory_lock.go`) | cursor, advisory lock, local mutex, status, worker goroutine | `SyncOmniRoute`, `RunWithLimit`, `Start`, `Stop` | two replicas and an admin syncing at once; a sync that fails half way; a lost lock; a page cut off by the limit | one sync at a time; nothing skipped, nothing billed twice; the status is true; the lock is released |
| Pricing (`usage/pricing.go`, `credits`) | `pricing_rules` | `CalculateCost`, `FindRule`, decimal conversion | rounding, int64 overflow, rule order | the price of a usage is never below the exact price, never off by a unit |
| Authentication (`auth`) | `users`, `sessions`, one-time codes, rate windows | signup, verify, login, change and reset password, Google login, cleanup | counters inside a transaction that rolls back; login against a password change; windows at their edges | codes are used once and expire; a password change ends every session |
| Admin (`admin`) | `admin_audit_logs` | `AdjustCredits`, audit, dashboard | an adjustment's key shared with top-ups and payments | an adjustment and its audit row together or not at all |
| Users, packages (`users`, `packages`) | rows | CRUD, status | status and key suspension in two transactions | a suspended user has no ACTIVE key |
| Notifications (`notifications`) | `user_email_notifications` | low-balance alert | recorded before it is sent | at most one alert, lost only by a crash |
| Clients, HTTP, config, db (`omniroute`, `platform`, `config`, `cmd`) | - | requests, decoding, wiring | - | - |
| Checkout page (`apps/web`, `app/checkout`) | the payment shown, notices, dialog | load, poll, check status, upload a proof | polls, refreshes and uploads answered in any order while the payment moves | success is announced only of a payment that was paid; the page settles on the payment's status |
| Dashboard pages (`app/dashboard`, `app/packages`) | per page: what was loaded, filters, offsets, busy flags | keys, usage, billing, settings | requests that outlive their page, redirects that come late, the raw key in one answer | no button stays busy; rows belong to the filters shown |
| Admin console (`app/admin`) | lists, drawers, panels, forms | users, top-ups, reviews, packages, usage, audit, sync | overlapping reads and writes of one page; a drawer swapped under the reader's hands; a submit whose answer is lost | nothing stays busy; a payment is approved by its own reference; a reference credits once |
| Shells and sign-in pages (`components`, `app/login`, ...) | who is signed in, caches across pages | sign-in, sign-up, reset, sign-out, `me()` | sessions that end, late answers, a cache that outlives a session | no frame for an account nobody confirmed; a code's form names the address it went to |
| API client and proxy (`lib/api.ts`, `app/api`) | - | requests | a request lost before or after it is served | - |

How they interact: `payments`, `admin` and `usage` call `ledger.Mutate` inside their own
transaction (`platform/db/tx.go: InTx`), so a payment, an adjustment or an event commits
with its ledger entry. After a credit's commit `payments` asks `apikeys` to resume the
account's key. `usage` suspends a key inside the transaction of the debit, through
OmniRoute. slai-payment calls back; OmniRoute is polled by the worker. The hazards in
`PROJECT.json` name the line where each of these can go wrong and the property that
would notice. In the browser a page's handlers and the answers to its requests interleave
freely; several requests may be under way, and a page may be gone when its answer comes.

## The plan

| Order | Module | What | State |
|---|---|---|---|
| 1 | `LedgerOps`, `Ledger` | pure ledger arithmetic; the abstract ledger: a call posts once, replays, or is refused, in one step | written |
| 2 | `LedgerTx`, `LedgerTxProofs` | `Mutate` statement by statement, implements `Ledger` | written, proved |
| 3 | `Purchases`; `Payments`, `PaymentsProofs` | paid and credited in one step; checkout to credit, with provider, callbacks and admins, implements `Purchases` | written, safety and refinement proved |
| 4 | `Account`; `ApiKeys`, `ApiKeysProofs` | keys and bills changed in one step; keys across SLAI and OmniRoute, with billing and auto-resume, implements `Account` | written, safety and refinement proved |
| 5 | `UsageSync`, `UsageSyncProofs` | executor, advisory lock, cursor, status | written, safety proved |
| 6 | `OtpRequests`, `OtpRequestsProofs` | requests for one-time codes, limits, cooldown, clean-up | written, safety proved |
| 7 | `Tab`; `Checkout`, `CustomerProofs` | a browser tab and its requests; the checkout page | written, safety proved |
| 8 | `KeyPage`, `UsagePage`, `Billing`, `Overview`, composed by `Dashboard`; `CustomerProofs` | the signed-in user's pages | written, safety proved |
| 9 | `AdminUsers`, `AdminPayments`, `AdminPackages`, `AdminLists`, composed by `Console`; `ConsoleProofs` | the administrator's pages | written, safety proved |
| 10 | `Session`, `SessionProofs` | sign-in, sign-out, the shells' checks and caches | written, safety proved |
| 11 | `SyncWorker`, a part of `UsageSync` | `Start`, `Stop`, the loop and its `done` channel | open |
| 12 | `users.status` and `ProvisionOmniRouteKey`, parts of `ApiKeys` | suspension of a user in two transactions; the admin's provisioning | open |
| 13 | `TopUps`, a part of `Payments` | `ManualTopUp` and `AdjustCredits` statement by statement: key namespace, audit rows, replay and auto-resume | open |
| 14 | `Pricing` | `ceilMulDiv`, rule order, decimal conversion as functions; int64's width as a parameter; README's formula against the code's | open |
| 15 | `Sessions` | login, password change and reset, revocation, in their transactions | open |
| 16 | `Notifications` | the low-balance alert | open |

Additions that share state with a written module become a part of it and of its runs: a
user's status matters through its keys, a top-up through the payments and keys of
idempotency it meets.

## Ledger

`LedgerOps` holds the pure part of `ledger/service.go`: which mutations are valid
(`ValidMutation`), what a mutation makes of a balance (`Posted`), whether a stored entry
is the one a retry asks for (`Matches`).

`Ledger` is what `Mutate` promises: each call is answered once; it posts one entry and
changes one balance in one step, returns the entry its key already has, is refused, or
fails with no effect.

`LedgerTx` is `Mutate` as PostgreSQL sees it. A call's `pc` walks through `Begin`,
`LookupKey` (the unlocked read by idempotency key), `LockBalance` (SELECT ... FOR UPDATE:
waits while `HoldsRow` holds for another call), `InsertEntry` (UPDATE and INSERT: waits
while another call has an uncommitted entry with the same key, `HoldsKey`; aborts if the
key is committed), `Commit` and `Return`, or `Rollback` at any point. A commit may succeed
and its acknowledgement be lost (`LoseAcknowledgement`). `balances` and `entries` are the
two tables (an entry is in the table when it is inserted, visible when it is committed);
`request` and `answer` are the calls.

- **ledger_tx** (`LedgerTx.cfg`): three interleaved calls, two users, shared keys.
  `BalanceFollowsLedger`: each balance is the chain of its entries, no lost update.
  `KeyAppliedOnce`: one entry per key, over all users. `SuccessIsPosted`: a success names a
  committed entry which is the mutation asked for. `LifetimeFollowsLedger`: purchased and
  used counters are the sums of the entries they count. `ImplementsLedger`: the refinement
  of `Ledger`. `EveryCallReturns`: rows and key slots are waited for in one order, so no
  two calls wait for each other.

## Payments

`Payments` follows payments from checkout to credit. A row has its status, its external
payment, its transaction and reference; `credits` is the ledger's entries for a payment by
idempotency key, which is how the ledger answers a repeated key (module 1 shows that it may
be taken as one step). Provider and local state are separate: `ProviderPays`,
`ProviderExpires`, `ProviderDoubts` are slai-payment's (external). A callback or a refresh
carries a snapshot (`ReceiveCallback`, `Refresh`) which stays deliverable for ever:
repeated, late, lost and reordered delivery are all choices of when to call. Applying it
takes two steps, since the row's lock is taken first and the duplicate check (`ApplyRead`)
reads other payments which nothing locks before the UPDATE (`ApplyWrite`) runs into the
unique index or not. `ApproveRead`/`ApproveWrite` do the same for an admin. Checkout is
`Reserve`, `CreateExternal`, `Attach`/`Cancel`, three transactions and requests. `Crash`
ends a request between any two.

- **payments** (`Payments.cfg`): two payments, two requests, two admins with one
  reference; the second payment may be matched to a bank transaction of its own or to the
  first one's. `OwnTransactionCreditedOnce`: a payment whose transaction is matched to no
  other is credited at most once, under either key. `PaidOnceEach`: no two paid
  payments share a transaction or a reference, although both checks race: the partial
  unique indexes decide. `ImplementsPurchases`: the refinement of `Purchases`.
- **payments_second_credit** (`PaymentsDouble.cfg`, expects a violation of `CreditedOnce`):
  with a transaction that two payments share, a refresh moves an approved payment back to `needs_review` and a
  later one credits it again under the other key. `docs/architecture.md:52` says that it
  cannot double-credit.

`Purchases` is what all this promises, without requests and locks: a payment is paid and
credited in one step, with a transaction and a reference that no other paid payment has,
automatically only if the provider has confirmed the exact amount. Its variables are
functions of the state of `Payments`: `paid` is the transaction and reference of the rows
that show as paid, `opening` the payments whose checkout has a provider's answer to attach;
`credits` and `provider` are the same. A payment is `Contested` when the provider matched its
transaction to another payment, too. It says in one place what the code does and does
not exclude. `Reopen`: a payment may lose its paid state (a doubt, or the `Attach` that comes
after the callback and writes its own older status over it), but a confirmed payment with a
transaction of its own only while its checkout is opening. `Settle`: a credited payment may
become paid again, without another entry. `Complete`: a second entry only for a contested
payment, which is `payments_second_credit`.

When both checks for a duplicate transaction pass, the loser is aborted by the index, and
the move to `needs_review` that follows in the same transaction is lost with it
(`AnswerConflict`); no run is about that.

## API keys and billing

`ApiKeys` is one account: `keys` (rows of `api_keys`), `gateway` (OmniRoute's keys),
`balance`, `calls` (requests in progress). Every operation is cut where another can come
between: the external request, then the local statement, then the commit. `HoldsUser` is
`lockUser`'s row lock, `HoldsBalance` the ledger's. `Resolve`, `Bill` and `BillAndSuspend`
are `IngestEvent`: the key's row is read first, the debit waits for the balance, the
suspension tests the status it read. `PostCredit` is a credit followed by
`autoResumeAfterCredit`. `Crash` ends a request anywhere: its transaction is rolled back,
what it asked of OmniRoute stays.

- **api_keys** (`ApiKeys.cfg`): `OneActiveKey` (the index and the current key by time of
  creation agree), `RevokedIsGone` (a key shown as revoked does not serve: OmniRoute is
  always asked first), `NeverAllWaiting` (while a request is in progress one of them can go
  on: the two rows are waited for in one order), `ImplementsAccount` (the refinement of
  `Account`).
- **api_keys_late_usage** (`ApiKeysBilling.cfg`, expects a violation of `BillingSuspends`):
  README.md:461-462 promises that an overdraft suspends the key. Usage of a key rotated
  since suspends nothing.

`Account` is the same account without locks, transactions and OmniRoute: a key is issued
(alone or in place of the one it revokes), suspended, resumed and revoked; a use is billed, a
posting made, each once and each in one step. Its guards are what the code has to achieve
with what it read earlier: `Issue` and `Resume` only next to no other ACTIVE key; `Resume`
only over a positive balance at its commit, although `ResumeAPIKey` reads the balance without
locking it; `Revoke` is final; `Use` only of a key that is not revoked; `Bill` suspends no
key but the one it bills, and only when it leaves nothing to spend. It also shows what
is not promised: `Bill` may leave `status` unchanged however far it overdraws, which is
`api_keys_late_usage`. The mapping is the keys' statuses; the rest is the same variables.

A resume that dies between OmniRoute and its commit leaves a key that SLAI shows as
suspended and that serves requests; the model has this behaviour and claims nothing of it.

## Usage sync

`UsageSync` is the executor over several processes: `mutex` is `localMu` of each, `lock` the
advisory lock, `status` the tracker, `cursor` the row of `omniroute_sync_state`, `events` and
`debits` what is billed. A caller in `Runs` is a worker's tick or an admin's request; it
tries the mutex, then the lock, marks the start, reads the cursor, fetches a page, and for
each entry looks it up, inserts it with its debit, and moves the cursor. `Abort` is any
error, cancellation or panic, after which the deferred calls run in their order;
`LoseLockConnection` frees the lock under a sync that goes on over other connections;
`Crash` ends a process. `Offers` is what OmniRoute may answer (external).

Both fetch modes are explored: `mode` is chosen in `Init`. `lost` remembers the syncs that
lost the lock.

- **usage_sync** (`UsageSync.cfg`, with lock loss, an entry that always fails and a free
  one): `BilledOnce`; `OneSync` (over both replicas, at most one of the syncs that have not
  lost their lock runs: README.md "Automatic Usage Sync Worker"); `RunningIsTrue`
  (`currently_running` is true exactly while a sync runs in the process); `NoEventSkipped`
  (the cursor never passes an entry that is still to be billed and was not logged behind
  it).
- **usage_sync_completes** (`UsageSyncLive.cfg`): `LockIsReleased`, however a sync ends;
  `EventuallyBilled`: what a sync left at its failure, or when it lost its lock, is billed by a
  later one. The run has no entry that always fails and a limit as large as the log, since
  neither is survived: such an entry stops all that come after it (`IngestEvent`'s error ends
  the sync), and with as many entries in one second as the limit the usage history is read
  from that second for ever. Both are listed as hazards without a property.

## One-time codes

`OtpRequests` is `Signup` and `RequestPasswordReset`, the requests for a code. They are one
protocol over two pairs of tables; `flow`, chosen in `Init`, says which pair, and the flows
differ in what `Check` asks of the registered emails. `codes` are the pending codes,
`limits` the rate-limit rows of emails and client addresses, `calls` the requests in
progress with what they will write, `granted` a history: how many requests a key was
granted in its window. A request is a transaction of statements: `Request` (reads the
clock), `Check` (clean-up, registered email), `Lookup` (pending code, cooldown),
`CheckEmailRateLimit` and `CheckIPRateLimit` (each a locked read and an update, or an
insert when there was no row), `Store` (upsert and commit). `HoldsCode` and `HoldsLimit`
say which rows are locked: only rows that exist can be. `Redeem` is the verification with
the right code, `Cleanup` the worker. A wrong code is no step: its `attempts + 1` is
rolled back with the error.

- **otp_requests** (`OtpRequests.cfg`): `EveryRequestCounted` (a rate-limit row counts
  exactly the requests granted since its window opened, however they race for the row or
  its insertion); `WindowRunsToItsEnd` (no clean-up, roll-back or redeemed code forgets or
  restarts a running window). README.md:264 calls the window rolling; the code's window
  is fixed, and this is what is modelled.

Two signups that both find no pending code lock nothing, and the second replaces the first
one's code within the cooldown: `EveryRequestCounted` holds nevertheless, the rows of the
limits decide.

## A tab

`Tab` is what the pages have in common. `path` is the route, `ui` the `useState` values of
the page mounted there, `calls` the requests of `lib/api.ts` under way, one per slot. A
handler is one action up to its next `await`; the request it sends (`Send`, `Mount`) is
served by the API in a second action (`Serve...`, translated from the server's handler), and
its continuation runs in a third (`Loaded`, `Refreshed`, ...), which ends it (`Settle`) or
sends the next one (`Await`). `Lost` fails a request before it is served or after, which the
page cannot tell apart. When a page goes (`Orphaned`), its reads are forgotten; a write that
is under way is still served, and a continuation that uses the router (`Redirects`) still
runs. Each page's module has `Fresh` (its initial `useState`), a few definitions of what the
page shows and offers (which the handlers' guards use, since a button that is not rendered
or is disabled cannot be pressed), the API's side, and the handlers.

## Checkout page

`Checkout` is `app/checkout/[paymentId]/page.tsx` against the row of its payment. `Moves`
says where the row may go: a snapshot of the provider moves an automatic payment from any
status to any of its own, but takes a paid one only back to `needs_review` (a mismatch, or a
duplicate transaction: `payments/service.go: applyExternalPaymentInTx`); the desk reviews;
`ServeUpload` is `UploadProof`. `paidAt` is the row's `paid_at`. `Poll` is the interval,
which does not wait for the last answer; `Show` is `setPayment` with the effect that opens
the dialog. Choosing a file is left to `SubmitProof`, with and without one.

- **checkout** (`Checkout.cfg`): `SuccessIsTrue`: the dialog and the notice announce success
  only of a payment that was paid. A late answer may be older than what the page knows, so
  this rests on the date of payment, which nothing clears, and not on the status, which a
  mismatch may take back. `PolledSettles`: if the payment comes to rest, the page settles on
  its status, unless it has seen a status that it does not poll.

The page stops polling at `expired` and `cancelled`, from which a late payment is still
credited: it then goes on showing the old status until the reader refreshes it.
`PolledSettles` excludes these statuses.

## Dashboard

`Dashboard` composes the pages of a signed-in user, one mounted at a time, with links
between them: `KeyPage` (create, rotate and revoke behind a confirmation, the raw key shown
once), `UsagePage` (filters and pages of events), `Billing` (the billing page, whose two
requests follow one another, and the public packages; choosing a package redirects to its
checkout from wherever the reader is by then), `Overview` (the first page and the settings,
with the password's change and the sign-out). The API's side is kept to what the pages can
tell apart: `key`, `orders`, `signedIn`, `matching` (events per filter).

- **dashboard** (`Dashboard.cfg`): `ButtonsRecover`: a busy button or a loading page has a
  request of its own under way, whatever fails, is lost or overtakes. (A failed sign-out is
  the exception and is left out: its buttons stay disabled.) `RowsAnswerFilters`: the usage
  page shows rows only under the filters and the offset they answer, although the filters
  are committed when they are applied and the offset with the answer.

## Console

`Console` composes the administrator's nine pages: `AdminUsers` (the directory, one user
with status, key, top-ups and adjustments), `AdminPayments` (list and drawer of the review,
the static checkout's settings), `AdminPackages` (table, panel and form, prices as they are
typed), `AdminLists` (usage, audit, sync, overview). What is typed into a form is an input
of the action that submits it, except where it outlives that: the drawer's reference and
the package's form. The payments to be reviewed are manual ones, which only the desk moves.

- **console** (`Console.cfg`): `ConsoleRecovers`: as `ButtonsRecover`, for pages that
  read and write at once. `ApprovedByItsReference`: a payment is approved by the reference
  that was typed for it, although a late answer may put another payment into the drawer.
  `ReferenceCreditsOnce`: a top-up with a provider's reference is credited once however
  often it is lost and submitted again (one without gets a new key each time and is not).
  `PackagesKeepTheirFields`: an edit reaches the package it was opened on, and a price is
  stored as it was typed.

## Session

`Session` is how a tab gets, checks and ends its session: the sign-in, sign-up, reset and
administrator's sign-in pages, and the two shells. `session` is the account in the cookie;
`cachedAdmin` and `cachedSync` are `AdminShell`'s module variables, which outlive its pages;
`codeSent` is the addresses a code went to. Sign-ins and sign-outs redirect even when their
page has gone. A redirect is one step: in the code `finally` enables the form again for the
moment until the new route is there, a second sign-in that no property is about, since the
shell shows nothing before `me()` has answered. `ui.confirmed` is a history: the account
that `me()` has answered to the shell since it was mounted.

- **session** (`Session.cfg`): `FrameIsConfirmed`: a shell shows its frame to an account
  that `me()` has confirmed since it was mounted, or is about to; the cached administrator of
  a session that has ended does not stay. `CodeFormNamesAddress`: the form for a code names
  the address the code went to, although the address can be edited and Google's sign-in used
  while the code is being requested.

## Proofs

`LedgerTxProofs` proves for every set of users, calls, keys and mutations what `ledger_tx`
checks on an instance: `TypeCorrect`, `BalanceCorrect`, `AtMostOnce`,
`AcknowledgedIsPosted`, `LifetimeCorrect` and `Refinement` (`Spec => ImplementsLedger`).

None of the invariants is inductive alone. `BalanceFollowsLedger` survives `InsertEntry`
only if the balance the call read is still the stored one; `KeyAppliedOnce` only if no
other call holds the key uncommitted. `IInv` adds these facts: a call past `LockBalance` has
seen the current balance of its user and is the only one past it for that user (what
FOR UPDATE gives), an inserted entry's key is in no other entry, committed or not (what the
unique index gives), and what a call is about to return is the committed entry of its key.
One lemma per action shows that `IInv` is preserved; `Refinement` uses `IInv` to map every
step of `LedgerTx` to one step of `Ledger` or none. The only assumptions are those on the
constants of `LedgerTx`, which TLC evaluates in its runs.

`LifetimeFollowsLedger` speaks of sums over a ledger of any length. That each has a sum at
all would need an induction over the ledger; instead the invariant carries it (`HasSums`):
an empty ledger has a sum, and the ledger grows at its end only, where the sum of what is
there extends to one entry more (`SumOfAppended`). What is left is arithmetic: a call that
holds the row adds to the counters what its entry will add to the sum when it is committed.

`UsageSyncProofs` proves every safety property of `usage_sync`, for every set of processes,
callers and (finitely many) entries, every batch limit and any number of failures:
`TypeCorrect`, `SyncsExclude`, `StatusTrue`, `BillingExact` and `NothingSkipped`. The
invariant is built in layers. `Locked`: a process's mutex is held by exactly its call in
progress (`MutexHeld`), and a call that took the advisory lock still holds it or has lost its
connection (`LockHeld`); from these `OneSync` follows, and `RunningIsTrue` is kept because no
second call of the process can be syncing when `MarkFinished` clears the flag. `BilledOnce`
is inductive with the types. `InOrder` is the argument for the cursor: whatever was logged in
time before the time a sync asked for is settled, and for each entry of its page everything
earlier is settled or stands before it in the page; so when the first entry of a page is
settled the cursor may move to it. A fetched page has this property since OmniRoute's answer
is a prefix of the log by time and the page is sorted (`FetchInOrder`), the rest of a page
because what is taken off it is settled (`TailInOrder`). The proof does not use the locks:
overlapping syncs may move the cursor backwards but never past anything.

`CustomerProofs` is about the two specifications of a customer's tab (`Checkout`'s definitions
are prefixed where `Dashboard` has the same name). It proves `CheckoutTypes`, `CheckoutSuccess` and `PaidForGood` for any number
of requests under way. An answer is believed whenever it comes, so the invariant must say
what an old answer is still good for: the date of payment, once set, stays (`ServerStep`),
a paid row has one (`PaidDated`), hence no answer under way says "paid" of a payment without
one (`AnswersTrue`), and the page says so only after such an answer (`PageTrue`, over the
payment shown, the dialog and the notice together). `SuccessIsTrue` alone is not inductive: a
page that shows nothing yet may hold such an answer.

Its second half proves `DashboardTypes`, `DashboardNeverStuck` and `RowsAnswer` for any keys,
packages, filters, events and requests under way. `ButtonsRecover` is an invariant of the
mounted page with the requests it has sent, so `CallsOK` says of each request what it
carries, what its answer holds and that it belongs to the page at `path` or has outlived its
page; `PageOK` says for each page which requests it waits for while it is busy or loading
(`Waits`). A request that fails or is lost still has its continuation, which is why no button
stays disabled; one that is orphaned is no longer waited for. `RowsAnswerFilters` needs more than that: two
lists under way could be answered in the wrong order. `OneList` says that there are never
two, since the buttons of the filters and the pages are disabled while the page loads, and
that the list under way was asked for under the filters that are applied. `RowsOK` keeps the numbers of
matching events ordered (no filter matches more than all), from which the offsets have their
types.

`ApiKeysProofs` proves `ApiKeysTypes`, `OneKey`, `RevokedGone` and `ResumeOverCredit` for
any keys, events, postings and calls. `RevokedIsGone` and the guards of a resume are about a
commit that relies on something seen or done before it: OmniRoute was asked to delete the
key, the balance was read. `IInv` says that this is still so (`Planned`: the key about to be
revoked is in use and deleted at OmniRoute, the one about to be resumed is suspended and the
balance positive, the event about to be billed is not billed and will overdraw), which needs
that no two calls are past the row locks at once (`Excluded`): FOR UPDATE on the user's row
shuts out other operations on keys, and the foreign keys of an event and its ledger entry
shut out billing. `OneActive` is the partial unique index, as a fact about every two keys;
`UsedHasRow` says that an event names a key the account was given, so a billed key is not
`"none"`. On the same invariant rests the refinement, `AccountImplemented`: six statements
change the account (`InsertIssues`, `SetChanges`, `UseIsUse`, `BillBills`, `SuspendingBills`,
`PostPosts`), of the others it sees nothing (`Unseen`). From the abstract steps it follows that
revocation is final (`RevocationIsFinal`). `ResumeNeedsCredit` (theorem `ResumeOverCredit`)
has no run of its own: it is the guard of `Resume`.

`PaymentsProofs` first proves `PaymentsTypes`, `CreditsConfirmed` and `PaidOnce` for any payments,
calls, admins, references and transactions. A snapshot may be applied at any later time, so
the invariant `Known` says what an old one is still good for (`True`): PAID is final at the
provider, with its transaction; an amount that is not the package's stays so. `Alone` is
the row lock and the one call that creates a payment, `CallsSeen` is what a call that holds
a row knows of it, `RowsKnown` what a row says of the provider. The unique indexes keep
`PaidOnceEach` themselves; the checks before them only decide which way a request fails.

Its second half proves `CreditedAtMostOnce`: the ledger's keys do not help, since an
approval and an automatic credit use different ones. The proof follows one payment. While it
has an approval's credit it stays paid, or the provider will not confirm it, or not alone
(`Tainted`). Once it has an automatic credit it stays paid, shares its transaction
(`Shared`), or was taken back by an `Attach` that came after the callback (`Reopened`); in
that case no snapshot of a doubt is under way (`EarlyIsClosed`), so no admin gets to approve
it. `payments_second_credit` shows that the excepted case does happen. It follows
(`NoDoubleCredit`) that the promise of `docs/architecture.md:52` is kept as long as
the provider matches no bank transaction to two payments.

Its last part proves `PaidCredited` (a row that shows as paid has its entry) and the
refinement `PurchasesImplemented`. Every step of `Payments` leaves rows and credits alone,
reopens a payment, pays it with a snapshot or pays it by the desk (`PurchaseStep`); each of
the four is mapped to a step of `Purchases` or a stutter (`AbsProceed`, `AbsReopen`,
`AbsByProvider`, `AbsByDesk`). It needs what was proved before: a row that becomes paid while
it has its entry must be the `Settle` of a credited payment (`PaidIsCredited`), an entry of
the second kind must be of a contested one (`Once`, in the next state, too), the indexes keep
the tender unused (`UnusedTender`), and a payment whose checkout begins has no entry yet
(`OpeningStep`). `CreditIsConfirmed` (theorem `CreditsConfirmed`) has no run of its own: the
guard of `Complete` states it. Besides the
assumptions on the constants, `Payments` assumes that `None` is not a snapshot
(`NoneIsNoSnapshot`), which TLC evaluates.

`OtpRequestsProofs` proves `OtpTypes`, `RequestsCounted` and the action property
`WindowsRun` for any requests, emails, addresses, limits and times. A request counts itself
in a row that it writes at the end, from what it read under the row's lock; so the invariant
says what a request knows of the row it holds (`CallOK`), that it is the only one that does
(`Exclusive`), and how far its clock may be behind. The clean-up takes away rows by that
clock. The model defers its deletions to the request's commit, where a window opened
meanwhile must not be one of them: `DelayAssumption` (a request ends within two windows,
`MaxDelay <= 2 * Window`) makes sure of it. The code needs no such bound: its DELETE runs
before the request's other statements and meets the rows that are there then.

`SessionProofs` proves `SessionTypes`, `FrameConfirmed` and `CodeFormTrue` for any number of
requests under way and any addresses, whichever operations outlive their page. The
continuation of a request runs on whatever page is there by then. So the invariant says of
each request what it and its answer carry (`CallOK`): a sign-in's answer an account, a
code's an address that a code was sent to; and that a request whose page is still mounted
is one which that page sends (`OpsOf`), which is why a continuation sets fields that the
page has. `FrameIsConfirmed` is not inductive: an answer ends `me()`'s being asked, and what
it leaves on the screen matters. `FrameTrue` says it for every state of the shells.

`ConsoleProofs` proves `ConsoleTypes`, `ConsoleNeverStuck`, `ApprovedByReference`,
`ReferenceOnce` and `PackageFields` for any number of users, payments, packages, events and
requests under way. A write may be served after its page has gone, and its answer may find
another row, panel or filter on the screen. `CallOK` says what a request and its answer are
still good for: an approval carries the reference that belongs to its payment, a top-up with
a reference is submitted under that reference, a save is of the package it names. `PageAt`
says for each page why the handlers send only such requests: what is typed in the drawer is
of the payment in the drawer, the form behind an open panel is of the panel's package with
its price or a typed one, a full page of events is not beyond the last one. A page's
catalogue may be old, but packages are only added (`Stored`), so a package it shows is still
there. `Waits` are the purposes of the requests the page waits for (`Purpose`: the catalogue
is read again on behalf of a saved form or of a toggled row); one lemma for sending, settling
and going on (`SendStep`, `SettleStep`, `AwaitStep`) says what becomes of them. For the
reference it is not enough that nothing was credited twice: without a payment under it there
is no entry either (`UsersRowsOK`). `PricesAssumption`, which TLC evaluates, says that
`Prices` has what is typed and what the first package costs.

Out of the prover's reach, and left to TLC: everything under fairness
(`EveryCallReturns`, `EventuallyBilled`, `LockIsReleased`, `PolledSettles`) and
`NeverAllWaiting` (ENABLED).

## Bounds

- Ledger: two users and three calls are enough for a lost update (two calls, one row), for a
  key raced by two calls while a third holds the row, and for a key used by two users;
  amounts are chosen so that debits overdraw and entries of one key differ in amount only.
- Payments: a duplicate needs two payments; two requests give every race of two snapshots.
  `MixedTxn` lets the second payment have a transaction of its own or the first one's,
  `SharedTxn` (the counterexamples) the latter only; one reference and two admins are the
  race for a reference.
- API keys: three keys are two rotations; two concurrent calls meet in every pair of
  operations; the third would only wait. `MaxStarts` bounds how many requests begin.
- Usage sync: two processes, two callers in one; three entries, two of them in one second,
  with pages of two (three for liveness); `MaxFaults` failures of any kind.
- One-time codes: two requests, for one email (one of them without an address) or for two
  emails from one address (`Asks`); cooldown and lifetime of one unit, a window of two,
  two requests in it, and `MaxTime` 5, which is two windows and a half: long enough for a
  row to be counted up, refused, restarted and cleaned up. A request takes at most
  `MaxDelay` units, so its clock may be behind the clock of one that commits before it;
  `DelayAssumption` bounds that by two windows, two hours by default.

- The web: two slots, so two requests overlap in every way (a page that sends a third waits
  for one of them: what is missing is three answers overtaking each other, which
  the proofs cover: they are for any number of slots). Dashboard: one package, two keys, pages of one event,
  a filter that is refused. Console: two users, payments and packages, pages of one row, one
  reference of a top-up, one reference of a transfer already used, one price that is valid and one text that is not;
  `Links` follows the links that carry state, and every page can be the first. Session: both
  kinds of account, two addresses.
- `MCView` identifies states of the console that differ in what no guard reads before it is
  written again: which slot holds which request, the drawer's notice, the total behind a list
  (only whether there is a next page matters), a form behind a closed panel, the message of
  an error where Retry is not offered for it, and the arguments of answers that are not used
  any more.

## Fairness

`LedgerTx`: weak fairness of each call's statements. A row lock is held only by a call that
can go on, and PostgreSQL grants a row to a waiter; the contention is bounded by the number
of calls, so weak fairness is enough. `UsageSync`: weak fairness of a call that has begun,
and of the workers' ticks, which the loop's timer repeats; an admin's request is never owed.
`Checkout`: strong fairness of the interval, which fires every three seconds while it is
mounted (a full table of slots disables it now and then only in the model); weak fairness of
the API's answers and of continuations, which the browser runs; and strong fairness of a
poll's being served and answered well, so that not every poll is lost. `PolledSettles` needs
the payment to come to rest as well, which it assumes. `Payments`, `ApiKeys`, `OtpRequests`
and the other pages state safety only (`NeverAllWaiting` is an
invariant). No fairness is assumed of OmniRoute, slai-payment, users, admins, crashes or
failures.

## Assumptions about the outside

slai-payment: a PAID payment stays PAID; a payment is matched only after the user has the
QR code; its amount changes at most once before it is paid; callbacks are signed, so no
other party sends one; `AttachLags` says whether a payment can be matched before `Attach`
has committed. OmniRoute: key ids are unique; a disabled or deleted key serves nothing; the
usage history filters by time, inclusively, and starts with the oldest entry, the call logs
ignore the time (the client does not send it) and start with the newest. With the usage
history, an entry logged behind the cursor's second is never fetched: the model lets it
happen (`late`) and claims nothing about it. PostgreSQL: READ COMMITTED, row locks, unique
indexes and session-level advisory locks as documented; a session's end frees its locks.

## Not modelled

HTTP decoding, cookies, signatures, hashing, mail, file storage, configuration and migrations
are pure I/O or computation without shared state. Of the web application, the landing page,
terms, privacy and docs pages, the theme, styling, and the formatting of numbers and dates
are left out; so are Google's own script and the order in which React commits two `setState`
calls of one continuation, which it batches. `OMNIROUTE_ENABLED=false`
(local keys only) is a subset of the modelled behaviour without the external steps.
Integers are unbounded: the products of `usage/pricing.go` are refused before they overflow,
and a balance of 2^63 micro-units is out of reach of the purchases modelled. `ProvisionOmniRouteKey`, the two transactions of
`users.status`, the statements of `ManualTopUp` and `AdjustCredits`, the worker's `Start` and
`Stop`, pricing, the server's side of login and sessions, and notifications are left open: the
modules of the plan that are not written. Where they are exposed to a hazard it is listed,
with the reason no property covers it.
