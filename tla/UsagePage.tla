----------------------------- MODULE UsagePage -----------------------------
(***************************************************************************)
(* The usage page of the dashboard (app/dashboard/usage/page.tsx): pages   *)
(* of Limit usage events under the filters applied, newest first.  The API *)
(* does not say how many there are.                                        *)
(*                                                                         *)
(* Applying filters commits them at once; the offset is committed with the *)
(* answer.  The two meet again only because nothing is shown in between.   *)
(***************************************************************************)
EXTENDS Tab

CONSTANTS
  Filters,   \* the filter states, AllUsage among them
  Limit,     \* LIMIT
  MaxRows    \* bound: usage events that match a filter

AllUsage  == "all"        \* emptyFilters
Backwards == "backwards"  \* a From that lies after its To

ASSUME UsagePageAssumption ==
  AllUsage \in Filters /\ Backwards \in Filters /\ Limit \in Nat \ {0} /\ MaxRows \in Nat

VARIABLE matching   \* matching[f] : the user's usage events that f lets through

Valid == Filters \ {Backwards}

\* The greatest offset Next can ask for.
LastOffset == (MaxRows \div Limit) * Limit

\* An answer: the query it answers and how many events it holds.  `all' is
\* how many there were to find.
UsageAnswer(f, off) ==
  LET left == IF matching[f] > off THEN matching[f] - off ELSE 0 IN
  [filters |-> f, offset |-> off, all |-> matching[f],
   length  |-> IF left < Limit THEN left ELSE Limit]

UsageRows == [filters : Valid, offset : 0 .. LastOffset, all : 0 .. MaxRows, length : 0 .. Limit]

\* useState of the page.
UsageFresh ==
  [usage   |-> [filters |-> AllUsage, offset |-> 0, all |-> 0, length |-> 0],
   offset  |-> 0, draft |-> AllUsage, applied |-> AllUsage, invalid |-> FALSE,
   selected |-> FALSE, loading |-> TRUE, error |-> FALSE]

UsageState ==
  [usage : UsageRows, offset : 0 .. LastOffset, draft : Filters, applied : Valid,
   invalid : BOOLEAN, selected : BOOLEAN, loading : BOOLEAN, error : BOOLEAN]

OpenUsagePage ==
  Mount("usage", UsageFresh, "usage.list", [filters |-> AllUsage, offset |-> 0])

-----------------------------------------------------------------------------
(* What the page offers.                                                   *)

\* FilterBar, and the header's Refresh: disabled while the page loads.
FilterBar == path = "usage" /\ ~ui.loading

UsageSettled == path = "usage" /\ ~ui.loading /\ ~ui.error

\* UsageTable
UsageTable == UsageSettled /\ ui.usage.length > 0

\* EmptyUsageState: "No usage matches these filters", or "No usage yet".
EmptyUsageState == UsageSettled /\ ui.usage.length = 0

\* The pagination, under the table only.
Pagination == [previous |-> UsageTable /\ ui.offset # 0,
               next     |-> UsageTable /\ ui.usage.length = Limit]

-----------------------------------------------------------------------------

\* GET /v1/usage
ServeUsage(c) ==
  /\ Sent(c, "usage.list")
  /\ Reply(c, Ok(UsageAnswer(calls[c].arg.filters, calls[c].arg.offset)))
  /\ UNCHANGED <<path, ui, matching>>

\* The sync bills another event; AllUsage lets every event through.
UsageBilled ==
  /\ \E fs \in SUBSET Valid :
       /\ AllUsage \in fs
       /\ matching' = [f \in Valid |-> matching[f] + IF f \in fs THEN 1 ELSE 0]
  /\ matching'[AllUsage] <= MaxRows
  /\ UNCHANGED <<path, ui, calls>>

\* load: the filters were validated when they were applied.
LoadUsage(state, off, f) ==
  /\ ui' = [state EXCEPT !.invalid = FALSE, !.loading = TRUE, !.error = FALSE]
  /\ Send("usage.list", [filters |-> f, offset |-> off])
  /\ UNCHANGED <<path, matching>>

\* (Faulty: the rows are stored, the offset they begin at is not.)
UsageLoadedNoOffset(c) ==
  /\ Done(c, "usage.list") /\ calls[c].mine
  /\ LET ans == calls[c].ans IN
     ui' = IF ans.ok
           THEN [ui EXCEPT !.usage = ans.data, !.loading = FALSE]
           ELSE [ui EXCEPT !.error = TRUE, !.loading = FALSE]
  /\ Settle(c)
  /\ UNCHANGED <<path, matching>>

UsageLoaded(c) ==
  /\ Done(c, "usage.list") /\ calls[c].mine
  /\ LET ans == calls[c].ans IN
     ui' = IF ans.ok
           THEN [ui EXCEPT !.usage = ans.data, !.offset = calls[c].arg.offset, !.loading = FALSE]
           ELSE [ui EXCEPT !.error = TRUE, !.loading = FALSE]
  /\ Settle(c)
  /\ UNCHANGED <<path, matching>>

\* The inputs of the filter bar stay enabled while the page loads.
EditUsageFilters ==
  /\ path = "usage"
  /\ \E f \in Filters \ {ui.draft} : ui' = [ui EXCEPT !.draft = f]
  /\ UNCHANGED <<path, calls, matching>>

\* (Faulty: the filters are committed before they are validated.)
ApplyUnvalidated ==
  /\ FilterBar
  /\ IF ui.draft = Backwards
     THEN /\ ui' = [ui EXCEPT !.invalid = TRUE, !.applied = ui.draft]
          /\ UNCHANGED <<path, calls, matching>>
     ELSE LoadUsage([ui EXCEPT !.applied = ui.draft], 0, ui.draft)

\* applyFilters
ApplyUsageFilters ==
  /\ FilterBar
  /\ IF ui.draft = Backwards
     THEN /\ ui' = [ui EXCEPT !.invalid = TRUE]
          /\ UNCHANGED <<path, calls, matching>>
     ELSE LoadUsage([ui EXCEPT !.applied = ui.draft], 0, ui.draft)

\* clearFilters, from the bar or from the empty state.
ClearUsageFilters ==
  /\ FilterBar \/ (EmptyUsageState /\ ui.applied # AllUsage)
  /\ LoadUsage([ui EXCEPT !.draft = AllUsage, !.applied = AllUsage], 0, AllUsage)

\* The header's Refresh, and the error's Retry: load(offset).
RefreshUsage ==
  /\ FilterBar \/ (path = "usage" /\ ui.error)
  /\ LoadUsage(ui, ui.offset, ui.applied)

PreviousUsage ==
  /\ Pagination.previous
  /\ LoadUsage(ui, IF ui.offset > Limit THEN ui.offset - Limit ELSE 0, ui.applied)

NextUsage ==
  /\ Pagination.next /\ ui.offset + Limit <= LastOffset
  /\ LoadUsage(ui, ui.offset + Limit, ui.applied)

\* The drawer of one event; it stays open whatever the page loads.
SelectUsage ==
  /\ path = "usage"
  /\ ui.selected \/ UsageTable
  /\ ui' = [ui EXCEPT !.selected = ~@]
  /\ UNCHANGED <<path, calls, matching>>

UsagePageNext ==
  \/ UsageBilled \/ EditUsageFilters \/ ApplyUsageFilters \/ ClearUsageFilters
  \/ RefreshUsage \/ PreviousUsage \/ NextUsage \/ SelectUsage
  \/ \E c \in Slots : ServeUsage(c) \/ UsageLoaded(c)
=============================================================================
