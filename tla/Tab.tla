-------------------------------- MODULE Tab --------------------------------
(***************************************************************************)
(* One browser tab of the web application (src/apps/web): the route it     *)
(* shows, the React state of the page mounted there, and the requests its  *)
(* pages have sent through lib/api.ts.                                     *)
(*                                                                         *)
(* The modules of the pages EXTEND this one.  A handler of a page is one   *)
(* action up to its next await, so a request is sent by one action, served *)
(* by the API in a second and its continuation runs in a third: between    *)
(* them anything may happen to the page, to the tab and at the API.  An    *)
(* answer is what the API said when it was asked; the network may lose a   *)
(* request before it is served, or its answer after.                       *)
(***************************************************************************)
EXTENDS Naturals, FiniteSets

CONSTANTS
  Slots,     \* bound: the requests that may be under way together
  Writes,    \* the operations that change something at the API, or go on to one that does
  Redirects  \* those whose continuation uses the router

ASSUME TabAssumption == Slots \subseteq Nat

VARIABLES path,   \* the route the tab shows
          ui,     \* useState of the page mounted at path
          calls   \* calls[c] : a request under way

None == "none"    \* null, undefined, the empty string

\* What a promise of lib/api.ts settles with: the payload, or an ApiError.
Ok(data)    == [ok |-> TRUE, data |-> data, why |-> None]
Error(why)  == [ok |-> FALSE, data |-> None, why |-> why]
NoAnswer    == Error(None)

NoCall == [op |-> None, arg |-> None, st |-> None, ans |-> NoAnswer, mine |-> FALSE]

\* A request of one of the operations ops sent by the mounted page is pending.
Pending(ops) == \E c \in Slots : calls[c].mine /\ calls[c].op \in ops

\* apiFetch: the request leaves; its continuation waits for the answer.
Send(op, arg) ==
  \E c \in Slots :
    /\ calls[c].op = None
    /\ \A d \in Slots : d < c => calls[d].op # None
    /\ calls' = [calls EXCEPT ![c] =
         [op |-> op, arg |-> arg, st |-> "sent", ans |-> NoAnswer, mine |-> TRUE]]

Sent(c, op) == calls[c].op = op /\ calls[c].st = "sent"
Done(c, op) == calls[c].op = op /\ calls[c].st = "done"

\* parseResponse: the API has answered the request.  The setState calls of a
\* page that is no longer mounted do nothing, but its router still works.
Reply(c, ans) ==
  calls' = IF calls[c].mine \/ calls[c].op \in Redirects
           THEN [calls EXCEPT ![c].st = "done", ![c].ans = ans]
           ELSE [calls EXCEPT ![c] = NoCall]

\* The continuation ran to its end, or to its next request.
Settle(c) == calls' = [calls EXCEPT ![c] = NoCall]
Await(c, op, arg) ==
  calls' = [calls EXCEPT ![c] =
    [op |-> op, arg |-> arg, st |-> "sent", ans |-> NoAnswer, mine |-> @.mine]]

\* The request fails on its way to the API, or its answer on the way back:
\* the promise rejects either way, and the page cannot tell.
Lost(c) ==
  /\ calls[c].op # None
  /\ calls[c].st = "sent" \/ calls[c].ans.ok
  /\ Reply(c, Error("network"))
  /\ UNCHANGED <<path, ui>>

\* The calls once the page that sent them has been unmounted: a read is of no
\* consequence any more, nor is an answer that was to be shown.
Orphaned ==
  [c \in Slots |->
     IF calls[c].op \in Redirects \/ (calls[c].op \in Writes /\ calls[c].st = "sent")
     THEN [calls[c] EXCEPT !.mine = FALSE] ELSE NoCall]

\* Mounting the page of route p with useState values state runs its effect,
\* which sends its first request.
Mount(p, state, op, arg) ==
  /\ path' = p
  /\ ui' = state
  /\ \E c \in Slots :
       /\ Orphaned[c].op = None
       /\ \A d \in Slots : d < c => Orphaned[d].op # None
       /\ calls' = [Orphaned EXCEPT ![c] =
            [op |-> op, arg |-> arg, st |-> "sent", ans |-> NoAnswer, mine |-> TRUE]]
=============================================================================
