----------------------------- MODULE AdminLists -----------------------------
(***************************************************************************)
(* The administrator's pages that only read, and start usage syncs: the    *)
(* usage events (app/admin/usage/page.tsx), the audit log                  *)
(* (app/admin/audit/page.tsx), the sync status (app/admin/sync/page.tsx)   *)
(* and the overview (app/admin/page.tsx).                                  *)
(*                                                                         *)
(* The two lists commit the filters with the answer, so a list and what it *)
(* says of its filters are of one answer even when answers overtake.       *)
(***************************************************************************)
EXTENDS Tab

CONSTANTS
  ListFilters,   \* the filters of a list, AnyEvent among them
  ListSize,      \* LIMIT
  MaxListed      \* bound: events a filter lets through

AnyEvent == "any"

ASSUME AdminListsAssumption ==
  AnyEvent \in ListFilters /\ ListSize \in Nat \ {0} /\ MaxListed \in Nat

VARIABLES
  listed,    \* listed[f] : the events that f lets through
  running,   \* a usage sync runs at the API
  healthy    \* its last result is no error

listsVars == <<listed, running, healthy>>

ListOffsets == {ListSize * n : n \in 0 .. MaxListed}

ListQuery == [filter : ListFilters, offset : ListOffsets]

FirstPage(f) == [filter |-> f, offset |-> 0]

\* A page of a list as the API answers it: how many events it holds, and how
\* many there are.
ListPage(q) ==
  LET left == IF listed[q.filter] > q.offset THEN listed[q.filter] - q.offset ELSE 0 IN
  [query |-> q, length |-> IF left < ListSize THEN left ELSE ListSize, total |-> listed[q.filter]]

\* useState of the four pages.
ListFresh == [rows |-> [query |-> FirstPage(AnyEvent), length |-> 0, total |-> 0],
              filters |-> FirstPage(AnyEvent), selected |-> FALSE, loading |-> TRUE,
              syncing |-> FALSE, error |-> FALSE]

ListState ==
  [rows : [query : ListQuery, length : 0 .. ListSize, total : 0 .. MaxListed],
   filters : ListQuery, selected : BOOLEAN, loading : BOOLEAN, syncing : BOOLEAN,
   error : BOOLEAN]

NoStatus == [known |-> FALSE, running |-> FALSE, healthy |-> FALSE]

SyncFresh == [status |-> NoStatus, loading |-> TRUE, syncing |-> FALSE, error |-> FALSE]

SyncState == [status : [known : BOOLEAN, running : BOOLEAN, healthy : BOOLEAN],
              loading : BOOLEAN, syncing : BOOLEAN, error : BOOLEAN]

AdminFresh == [dashboard |-> FALSE, loading |-> TRUE, refreshing |-> FALSE, error |-> FALSE]

AdminState == [dashboard : BOOLEAN, loading : BOOLEAN, refreshing : BOOLEAN, error : BOOLEAN]

OpenUsage == Mount("usage", ListFresh, "list.get", FirstPage(AnyEvent))

OpenAudit == Mount("audit", ListFresh, "list.get", FirstPage(AnyEvent))

OpenSync == Mount("sync", SyncFresh, "sync.status", None)

OpenAdmin == Mount("admin", AdminFresh, "admin.get", None)

-----------------------------------------------------------------------------
(* What the pages offer.                                                   *)

Lists == {"usage", "audit"}

ListSettled == path \in Lists /\ ~ui.loading /\ ~ui.error

\* The filter forms: Apply (and the audit log's ranges) wait for the list;
\* Clear does not while filters are active.
UsageFilters == [apply |-> path = "usage" /\ ~ui.loading,
                 clear |-> path = "usage" /\ (~ui.loading \/ ui.filters.filter # AnyEvent)]

AuditFilters == [apply |-> path = "audit" /\ ~ui.loading,
                 clear |-> path = "audit" /\ (~ui.loading \/ ui.filters.filter # AnyEvent)]

\* The header's buttons.
RefreshButton == path \in Lists /\ ~ui.loading /\ ~ui.syncing

SyncButton == path = "usage" /\ ~ui.loading /\ ~ui.syncing

\* UsageTable and AuditTable, their empty states, and the drawer of a row.
ListTable == ListSettled /\ ui.rows.length > 0

ListEmpty == ListSettled /\ ui.rows.length = 0

\* Pagination: the usage events do not come with their number.
UsagePages == [previous |-> path = "usage" /\ ListTable /\ ui.filters.offset # 0,
               next     |-> path = "usage" /\ ListTable /\ ui.rows.length = ListSize]

AuditPages ==
  [previous |-> path = "audit" /\ ListTable /\ ui.rows.query.offset # 0,
   next     |-> path = "audit" /\ ListTable /\ ui.rows.query.offset + ui.rows.length < ui.rows.total]

\* The sync page's button.
ManualSync == path = "sync" /\ ~ui.syncing /\ ~ui.status.running

-----------------------------------------------------------------------------
(* What the API does.                                                      *)

ServeLists(c) ==
  /\ \/ Sent(c, "list.get") /\ Reply(c, Ok(ListPage(calls[c].arg)))
     \/ /\ Sent(c, "sync.status") \/ Sent(c, "sync.restatus")
        /\ Reply(c, Ok([known |-> TRUE, running |-> running, healthy |-> healthy]))
     \/ Sent(c, "admin.get") /\ Reply(c, Ok(None))
  /\ UNCHANGED <<path, ui, listsVars>>

\* POST /v1/admin/usage/sync runs the sync of UsageSync and answers with its
\* result, or with its failure; a run bills an event.
ServeSync(c) ==
  /\ Sent(c, "usage.sync") \/ Sent(c, "sync.run")
  /\ \/ /\ ~running
        /\ healthy' = TRUE
        /\ Reply(c, Ok(None))
        /\ \E fs \in SUBSET ListFilters :
             /\ AnyEvent \in fs \/ fs = {}
             /\ listed' = [f \in ListFilters |->
                  IF f \in fs /\ listed[f] < MaxListed THEN listed[f] + 1 ELSE listed[f]]
     \/ /\ ~running
        /\ healthy' = FALSE
        /\ Reply(c, Error("sync_failed"))
        /\ UNCHANGED listed
     \/ /\ running
        /\ Reply(c, Error("locked"))
        /\ UNCHANGED <<listed, healthy>>
  /\ UNCHANGED <<path, ui, running>>

\* The worker's own runs.
WorkerRuns ==
  /\ path = "sync"
  /\ running' = ~running
  /\ healthy' \in IF running THEN BOOLEAN ELSE {healthy}
  /\ UNCHANGED <<path, ui, calls, listed>>

-----------------------------------------------------------------------------
(* The handlers of the two lists.                                          *)

\* load
LoadList(q) ==
  /\ ui' = [ui EXCEPT !.loading = TRUE, !.error = FALSE]
  /\ Send("list.get", q)
  /\ UNCHANGED <<path, listsVars>>

ListLoaded(c) ==
  /\ Done(c, "list.get") /\ calls[c].mine
  /\ ui' = IF calls[c].ans.ok
           THEN [ui EXCEPT !.rows = calls[c].ans.data, !.filters = calls[c].arg, !.loading = FALSE]
           ELSE [ui EXCEPT !.error = TRUE, !.loading = FALSE]
  /\ Settle(c)
  /\ UNCHANGED <<path, listsVars>>

\* applyFilters, applyQuickRange and clearFilters; a form that validateRange
\* refuses changes nothing but a message.
ApplyListFilters ==
  \/ (UsageFilters.apply \/ AuditFilters.apply) /\ \E f \in ListFilters : LoadList(FirstPage(f))
  \/ /\ \/ UsageFilters.clear \/ AuditFilters.clear
        \/ ListEmpty /\ ui.filters.filter # AnyEvent
     /\ LoadList(FirstPage(AnyEvent))

\* refresh, and the error's Retry.
RefreshList == (RefreshButton \/ (path \in Lists /\ ui.error)) /\ LoadList(ui.filters)

\* goToOffset
TurnListPage ==
  LET from == IF path = "usage" THEN ui.filters.offset ELSE ui.rows.query.offset IN
  \/ /\ UsagePages.previous \/ AuditPages.previous
     /\ LoadList([ui.filters EXCEPT !.offset = IF from > ListSize THEN from - ListSize ELSE 0])
  \/ /\ UsagePages.next \/ AuditPages.next
     /\ LoadList([ui.filters EXCEPT !.offset = from + ListSize])

\* The drawer opens on a row, and stays until it is closed.
SelectRow ==
  /\ path \in Lists /\ (ui.selected \/ ListTable)
  /\ ui' = [ui EXCEPT !.selected = ~@]
  /\ UNCHANGED <<path, calls, listsVars>>

\* syncUsage, and its load under the filters of the click.
SyncUsage ==
  /\ SyncButton
  /\ ui' = [ui EXCEPT !.syncing = TRUE, !.error = FALSE]
  /\ Send("usage.sync", FirstPage(ui.filters.filter))
  /\ UNCHANGED <<path, listsVars>>

UsageSynced(c) ==
  /\ Done(c, "usage.sync") /\ calls[c].mine
  /\ IF calls[c].ans.ok
     THEN /\ ui' = [ui EXCEPT !.syncing = FALSE, !.loading = TRUE, !.error = FALSE]
          /\ Await(c, "list.get", calls[c].arg)
     ELSE /\ ui' = [ui EXCEPT !.syncing = FALSE, !.error = TRUE]
          /\ Settle(c)
  /\ UNCHANGED <<path, listsVars>>

-----------------------------------------------------------------------------
(* The handlers of the sync page and of the overview.                      *)

LoadStatus ==
  /\ path = "sync" /\ ((~ui.loading /\ ~ui.syncing) \/ ui.error)
  /\ ui' = [ui EXCEPT !.loading = TRUE, !.error = FALSE]
  /\ Send("sync.status", None)
  /\ UNCHANGED <<path, listsVars>>

\* runSync, then the status.
RunSync ==
  /\ ManualSync
  /\ ui' = [ui EXCEPT !.syncing = TRUE, !.error = FALSE]
  /\ Send("sync.run", None)
  /\ UNCHANGED <<path, listsVars>>

SyncRan(c) ==
  /\ Done(c, "sync.run") /\ calls[c].mine
  /\ IF calls[c].ans.ok
     THEN Await(c, "sync.restatus", None) /\ UNCHANGED ui
     ELSE ui' = [ui EXCEPT !.error = TRUE, !.syncing = FALSE] /\ Settle(c)
  /\ UNCHANGED <<path, listsVars>>

StatusLoaded(c) ==
  /\ calls[c].mine
  /\ LET ans == calls[c].ans
         now == IF ans.ok THEN [ui EXCEPT !.status = ans.data] ELSE [ui EXCEPT !.error = TRUE]
     IN \/ Done(c, "sync.status")   /\ ui' = [now EXCEPT !.loading = FALSE]
        \/ Done(c, "sync.restatus") /\ ui' = [now EXCEPT !.syncing = FALSE]
  /\ Settle(c)
  /\ UNCHANGED <<path, listsVars>>

\* The overview: Refresh is silent, the error's Retry is not.
LoadAdmin ==
  /\ path = "admin"
  /\ \/ /\ ~ui.loading /\ ~ui.refreshing
        /\ ui' = [ui EXCEPT !.refreshing = TRUE, !.error = FALSE]
     \/ /\ ui.error
        /\ ui' = [ui EXCEPT !.loading = TRUE, !.error = FALSE]
  /\ Send("admin.get", None)
  /\ UNCHANGED <<path, listsVars>>

AdminLoaded(c) ==
  /\ Done(c, "admin.get") /\ calls[c].mine
  /\ ui' = [ui EXCEPT !.dashboard = @ \/ calls[c].ans.ok, !.error = ~calls[c].ans.ok,
                      !.loading = FALSE, !.refreshing = FALSE]
  /\ Settle(c)
  /\ UNCHANGED <<path, listsVars>>

AdminListsNext ==
  \/ ApplyListFilters \/ RefreshList \/ TurnListPage \/ SelectRow \/ SyncUsage
  \/ WorkerRuns \/ LoadStatus \/ RunSync \/ LoadAdmin
  \/ \E c \in Slots :
       \/ ServeLists(c) \/ ServeSync(c)
       \/ ListLoaded(c) \/ UsageSynced(c) \/ SyncRan(c) \/ StatusLoaded(c) \/ AdminLoaded(c)
=============================================================================
