-------------------------- MODULE OtpRequestsProofs --------------------------
(***************************************************************************)
(* Proofs about OtpRequests for any emails, addresses, requests, limits and *)
(* durations: the types, that a rate-limit row counts every request granted *)
(* in its window, and that a window which runs is left to run.             *)
(*                                                                         *)
(* A request works out the rows it will write several statements before it *)
(* commits them, from rows that it has read.  What it is going to write    *)
(* stays right (Fits) because a row has one holder at a time (Exclusive),  *)
(* also a row that is not there yet or that the clean-up deletes.  That    *)
(* rests on the clocks: a request is never ahead of the present, nor so    *)
(* far behind it (CallOK) that a row written while it runs could be stale  *)
(* for it.                                                                 *)
(***************************************************************************)
EXTENDS OtpRequests, TLAPS

-----------------------------------------------------------------------------
(* The invariant.                                                          *)

\* HoldsLimit, as a matter of the request alone.
Holds(call, k) ==
  /\ call.at \notin {"idle", "check"}
  /\ k \in StaleLimits(call.stamp) \/ call.limit[k] # None

\* The row that a request will write for k opens a window when there is none
\* that runs, or counts the request in the one that is there.
Fits(call, k) ==
  \/ /\ call.limit[k] = [count |-> 1, start |-> call.stamp]
     /\ limits[k] = None \/ limits[k].start + Window <= call.stamp
  \/ /\ limits[k] # None
     /\ call.limit[k] = [limits[k] EXCEPT !.count = @ + 1]

CallOK(call) ==
  call.at # "idle" =>
    /\ call.stamp <= now /\ now <= call.stamp + MaxDelay
    /\ call.at = "check" => \A k \in Keys : call.limit[k] = None
    /\ call.at \in {"email", "emailInsert", "ip", "ipInsert", "store"} => call.count # 0
    /\ call.at = "ipInsert" => call.ip # None
    /\ \A k \in Keys : call.limit[k] # None => Fits(call, k)

Exclusive ==
  \A c, d \in Calls, k \in Keys : Holds(calls[c], k) /\ Holds(calls[d], k) => c = d

IInv ==
  /\ TypeOK
  /\ \A c \in Calls : CallOK(calls[c])
  /\ Exclusive
  /\ EveryRequestCounted

-----------------------------------------------------------------------------
(* The shape of a request.                                                 *)

Busy == CallState \ {Idle}

LEMMA IdleShape == Idle \in CallState /\ Idle.at = "idle"
BY DEF Idle, CallState

LEMMA BusyShape ==
  ASSUME NEW call \in CallState, call.at # "idle"
  PROVE  /\ call.email \in Emails /\ call.email \in Keys
         /\ call.ip # None => call.ip \in IPs /\ call.ip \in Keys
         /\ call.stamp \in 0 .. MaxTime
         /\ call.count \in Nat
         /\ call.first \in 0 .. MaxTime
         /\ call.held \in BOOLEAN
         /\ call.limit \in [Keys -> Limit \cup {None}]
BY DEF CallState, Idle, Keys

LEMMA NotIdle ==
  ASSUME NEW call \in CallState, call # Idle
  PROVE  call.at # "idle"
BY DEF CallState, Idle

LEMMA SameHold ==
  ASSUME NEW c \in Calls, NEW k \in Keys
  PROVE  HoldsLimit(c, k) <=> Holds(calls[c], k)
BY DEF HoldsLimit, Holds, Cleaned

LEMMA Numbers ==
  /\ Window \in Nat \ {0} /\ Ttl \in Nat /\ MaxDelay \in Nat /\ MaxTime \in Nat
  /\ MaxDelay <= 2 * Window
BY OtpAssumption, DelayAssumption

\* A request that goes on to another statement keeps what it has planned.
LEMMA CallStep ==
  ASSUME IInv, NEW c \in Calls, NEW new \in CallState,
         calls' = [calls EXCEPT ![c] = new],
         UNCHANGED <<flow, now, users, codes, limits, granted>>,
         CallOK(new),
         \A k \in Keys : Holds(new, k) =>
           Holds(calls[c], k) \/ \A d \in Calls \ {c} : ~HoldsLimit(d, k)
  PROVE  IInv'
<1>1. /\ calls \in [Calls -> CallState]
      /\ calls'[c] = new
      /\ \A d \in Calls \ {c} : calls'[d] = calls[d]
  BY DEF IInv, TypeOK
<1>2. TypeOK'
  BY <1>1 DEF IInv, TypeOK
<1>3. ASSUME NEW d \in Calls PROVE CallOK(calls[d])'
  <2>1. CASE d = c
    BY <1>1, <2>1 DEF CallOK, Fits
  <2>2. CASE d # c
    <3>1. CallOK(calls[d])
      BY DEF IInv
    <3> QED
      BY <1>1, <2>2, <3>1 DEF CallOK, Fits
  <2> QED
    BY <2>1, <2>2
<1>4. ASSUME NEW d \in Calls, NEW k \in Keys
      PROVE  /\ d = c => (Holds(calls[d], k)' <=> Holds(new, k))
             /\ d # c => (Holds(calls[d], k)' <=> Holds(calls[d], k))
  BY <1>1 DEF Holds, StaleLimits
<1>5. ASSUME NEW d \in Calls, NEW k \in Keys, d # c, Holds(new, k)
      PROVE  ~Holds(calls[d], k)
  BY <1>5, SameHold DEF IInv, Exclusive
<1>6. Exclusive'
  BY <1>4, <1>5 DEF IInv, Exclusive
<1>7. EveryRequestCounted'
  BY DEF IInv, EveryRequestCounted
<1> QED
  BY <1>2, <1>3, <1>6, <1>7 DEF IInv

\* Nothing is planned or held by a request that gives up.
LEMMA EndStep ==
  ASSUME IInv, NEW c \in Calls, calls' = [calls EXCEPT ![c] = Idle],
         UNCHANGED <<flow, now, users, codes, limits, granted>>
  PROVE  IInv'
<1>1. CallOK(Idle) /\ \A k \in Keys : ~Holds(Idle, k)
  BY IdleShape DEF CallOK, Holds
<1> QED
  BY <1>1, IdleShape, CallStep

\* A request that only goes on.
LEMMA GotoStep ==
  ASSUME IInv, NEW c \in Calls, calls[c].at # "idle",
         NEW at \in {"lookup", "email", "emailInsert", "ip", "ipInsert", "store"},
         calls' = [calls EXCEPT ![c].at = at],
         UNCHANGED <<flow, now, users, codes, limits, granted>>,
         at # "lookup" => calls[c].at \in {"email", "emailInsert", "ip", "ipInsert", "store"},
         at = "ipInsert" => calls[c].ip # None,
         \A k \in Keys : k \in StaleLimits(calls[c].stamp) =>
            Holds(calls[c], k) \/ \A d \in Calls \ {c} : ~HoldsLimit(d, k)
  PROVE  IInv'
<1>1. PICK new : new = [calls[c] EXCEPT !.at = at]
  OBVIOUS
<1>2. calls[c] \in CallState /\ calls[c] # Idle
  BY IdleShape DEF IInv, TypeOK
<1>3. /\ new \in CallState /\ new.at = at
      /\ new.stamp = calls[c].stamp /\ new.count = calls[c].count
      /\ new.limit = calls[c].limit /\ new.ip = calls[c].ip
  BY <1>1, <1>2 DEF CallState, Idle
<1>4. CallOK(calls[c])
  BY DEF IInv
<1>5. CallOK(new)
  BY <1>3, <1>4 DEF CallOK, Fits
<1>6. ASSUME NEW k \in Keys, Holds(new, k)
      PROVE  Holds(calls[c], k) \/ \A d \in Calls \ {c} : ~HoldsLimit(d, k)
  BY <1>3, <1>4, <1>6 DEF Holds, CallOK
<1>7. calls' = [calls EXCEPT ![c] = new]
  BY <1>1
<1> QED
  BY <1>3, <1>5, <1>6, <1>7, CallStep

\* A request that writes down the row for one more key, which nobody holds.
LEMMA LimitStep ==
  ASSUME IInv, NEW c \in Calls, NEW k \in Keys, NEW r \in Limit, NEW next \in {"ip", "store"},
         calls[c].at \in {"email", "emailInsert", "ip", "ipInsert"},
         calls' = [calls EXCEPT ![c].at = next, ![c].limit[k] = r],
         UNCHANGED <<flow, now, users, codes, limits, granted>>,
         LimitFree(c, k),
         \/ /\ r = [count |-> 1, start |-> calls[c].stamp]
            /\ limits[k] = None \/ limits[k].start + Window <= calls[c].stamp
         \/ /\ limits[k] # None
            /\ r = [limits[k] EXCEPT !.count = @ + 1]
  PROVE  IInv'
<1>1. PICK new : new = [calls[c] EXCEPT !.at = next, !.limit[k] = r]
  OBVIOUS
<1>2. calls[c] \in CallState /\ calls[c].at # "idle" /\ CallOK(calls[c])
  BY DEF IInv, TypeOK
<1>3. calls[c].limit \in [Keys -> Limit \cup {None}]
  BY <1>2, BusyShape
<1>4. /\ new \in CallState /\ new.at = next
      /\ new.stamp = calls[c].stamp /\ new.count = calls[c].count
      /\ new.limit = [calls[c].limit EXCEPT ![k] = r]
  <2>1. calls[c] \in CallState \ {Idle}
    BY <1>2, IdleShape
  <2> QED
    BY <1>1, <1>3, <2>1 DEF CallState
<1>5. \A j \in Keys : new.limit[j] = IF j = k THEN r ELSE calls[c].limit[j]
  BY <1>3, <1>4
<1>6. CallOK(new)
  <2>1. \A j \in Keys : new.limit[j] # None => Fits(new, j)
    BY <1>2, <1>4, <1>5 DEF CallOK, Fits
  <2> QED
    BY <1>2, <1>4, <2>1 DEF CallOK
<1>7. ASSUME NEW j \in Keys, Holds(new, j)
      PROVE  Holds(calls[c], j) \/ \A d \in Calls \ {c} : ~HoldsLimit(d, j)
  <2>1. CASE j = k
    BY <2>1 DEF LimitFree
  <2>2. CASE j # k
    BY <1>4, <1>5, <1>7, <2>2 DEF Holds
  <2> QED
    BY <2>1, <2>2
<1>8. calls' = [calls EXCEPT ![c] = new]
  BY <1>1
<1> QED
  BY <1>4, <1>6, <1>7, <1>8, CallStep

-----------------------------------------------------------------------------
(* The requests.                                                           *)

LEMMA RequestIInv ==
  ASSUME IInv, NEW c \in Calls, NEW e \in Emails, NEW ip \in IPs \cup {None}, Request(c, e, ip)
  PROVE  IInv'
<1>1. PICK new : new = [at |-> "check", email |-> e, ip |-> ip, stamp |-> now, held |-> FALSE,
                        count |-> 0, first |-> 0, limit |-> [k \in Keys |-> None]]
  OBVIOUS
<1>2. now \in 0 .. MaxTime /\ 0 \in 0 .. MaxTime
  BY Numbers DEF IInv, TypeOK
<1>3. new \in CallState
  BY <1>1, <1>2 DEF CallState
<1>4. CallOK(new) /\ \A k \in Keys : ~Holds(new, k)
  BY <1>1, <1>2, Numbers DEF CallOK, Holds
<1> QED
  BY <1>1, <1>3, <1>4, CallStep DEF Request

LEMMA CheckIInv ==
  ASSUME IInv, NEW c \in Calls, Check(c)
  PROVE  IInv'
<1>1. CASE Refuse(c)
  BY <1>1, EndStep DEF Check, Refuse
<1>2. CASE Goto(c, "lookup")
  BY <1>2, GotoStep DEF Check, Goto, LimitFree
<1> QED
  BY <1>1, <1>2 DEF Check

LEMMA LookupIInv ==
  ASSUME IInv, NEW c \in Calls, Lookup(c)
  PROVE  IInv'
<1> DEFINE e == calls[c].email
           t == calls[c].stamp
           row == IF e \in ExpiredCodes(t) THEN None ELSE codes[e]
           Grant(n, first) == calls' = [calls EXCEPT ![c].at = "email", ![c].count = n,
                                            ![c].first = first, ![c].held = row # None]
<1>1. /\ calls[c] \in CallState /\ calls[c].at = "lookup" /\ calls[c] # Idle
      /\ UNCHANGED <<flow, now, users, codes, limits, granted>>
  BY IdleShape DEF IInv, TypeOK, Lookup
<1>2. e \in Emails /\ t \in 0 .. MaxTime
  BY <1>1, BusyShape
<1>3. row # None => row \in Code
  BY <1>2 DEF IInv, TypeOK
<1>4. row # None => row.count + 1 \in Nat \ {0} /\ row.first \in 0 .. MaxTime
  BY <1>3 DEF Code
<1>5. \/ Refuse(c)
      \/ Grant(1, t)
      \/ row # None /\ Grant(row.count + 1, row.first)
  BY Zenon DEF Lookup
<1>6. ASSUME NEW n \in Nat \ {0}, NEW first \in 0 .. MaxTime, Grant(n, first)
      PROVE  IInv'
  <2>1. PICK held \in BOOLEAN : held = (row # None)
    OBVIOUS
  <2>2. PICK new : new = [calls[c] EXCEPT !.at = "email", !.count = n,
                                          !.first = first, !.held = held]
    OBVIOUS
  <2>3. calls' = [calls EXCEPT ![c] = new]
    BY <1>6, <2>1, <2>2
  <2>4. /\ new \in CallState /\ new.at = "email" /\ new.count = n
        /\ new.stamp = t /\ new.limit = calls[c].limit
    BY <1>1, <2>2 DEF CallState
  <2>5. CallOK(calls[c])
    BY DEF IInv
  <2>6. CallOK(new)
    BY <1>1, <2>4, <2>5 DEF CallOK, Fits
  <2>7. \A k \in Keys : Holds(new, k) => Holds(calls[c], k)
    BY <1>1, <2>4 DEF Holds
  <2> QED
    BY <1>1, <2>3, <2>4, <2>6, <2>7, CallStep
<1>7. CASE Refuse(c)
  BY <1>1, <1>7, EndStep DEF Refuse
<1> HIDE DEF row, Grant, t
<1> QED
  BY <1>2, <1>4, <1>5, <1>6, <1>7

LEMMA IncrementIInv ==
  ASSUME IInv, NEW c \in Calls, NEW k \in Keys,
         NEW at \in {"email", "ip"}, calls[c].at = at,
         NEW insert \in {"emailInsert", "ipInsert"}, NEW next \in {"ip", "store"},
         insert = "ipInsert" => calls[c].ip # None,
         Increment(c, k, insert, next),
         UNCHANGED <<flow, now, users, codes, limits, granted>>
  PROVE  IInv'
<1> DEFINE t == calls[c].stamp
           row == IF k \in StaleLimits(t) THEN None ELSE limits[k]
<1>1. calls[c] \in CallState /\ calls[c].at # "idle" /\ t \in 0 .. MaxTime
  BY BusyShape DEF IInv, TypeOK
<1>2. CASE Goto(c, insert)
  BY <1>2, GotoStep DEF Goto, Holds
<1>3. CASE Refuse(c)
  BY <1>3, EndStep DEF Refuse
<1>4. ASSUME row # None, LimitFree(c, k), t >= row.start + Window,
             calls' = [calls EXCEPT ![c].at = next,
                                    ![c].limit[k] = [count |-> 1, start |-> t]]
      PROVE  IInv'
  <2>1. [count |-> 1, start |-> t] \in Limit
    BY <1>1 DEF Limit
  <2>2. limits[k].start + Window <= t
    <3>1. row = limits[k] /\ limits[k] \in Limit
      BY <1>4 DEF IInv, TypeOK
    <3> QED
      BY <1>1, <1>4, <3>1, Numbers DEF Limit
  <2> QED
    BY <1>4, <2>1, <2>2, LimitStep
<1>5. ASSUME row # None, LimitFree(c, k),
             calls' = [calls EXCEPT ![c].at = next,
                                    ![c].limit[k] = [row EXCEPT !.count = @ + 1]]
      PROVE  IInv'
  <2>1. row = limits[k] /\ limits[k] \in Limit
    BY <1>5 DEF IInv, TypeOK
  <2>2. [limits[k] EXCEPT !.count = @ + 1] \in Limit
    BY <2>1 DEF Limit
  <2> QED
    BY <1>5, <2>1, <2>2, LimitStep
<1> QED
  BY <1>2, <1>3, <1>4, <1>5 DEF Increment

LEMMA InsertLimitIInv ==
  ASSUME IInv, NEW c \in Calls, NEW k \in Keys,
         calls[c].at \in {"emailInsert", "ipInsert"}, NEW next \in {"ip", "store"},
         InsertLimit(c, k, next),
         UNCHANGED <<flow, now, users, codes, limits, granted>>
  PROVE  IInv'
<1>1. CASE Refuse(c)
  BY <1>1, EndStep DEF Refuse
<1>2. ASSUME limits[k] = None \/ k \in StaleLimits(calls[c].stamp),
             LimitFree(c, k),
             calls' = [calls EXCEPT ![c].at = next,
                          ![c].limit[k] = [count |-> 1, start |-> calls[c].stamp]]
      PROVE  IInv'
  <2>1. calls[c].stamp \in 0 .. MaxTime
    BY BusyShape DEF IInv, TypeOK
  <2>2. [count |-> 1, start |-> calls[c].stamp] \in Limit
    BY <2>1 DEF Limit
  <2>3. limits[k] = None \/ limits[k].start + Window <= calls[c].stamp
    <3>1. CASE limits[k] # None
      <4>1. limits[k] \in Limit /\ limits[k].start + 2 * Window < calls[c].stamp
        BY <1>2, <3>1 DEF StaleLimits, IInv, TypeOK
      <4> QED
        BY <2>1, <4>1, Numbers DEF Limit
    <3> QED
      BY <3>1
  <2> QED
    BY <1>2, <2>2, <2>3, LimitStep
<1> QED
  BY <1>1, <1>2 DEF InsertLimit

LEMMA CheckEmailRateLimitIInv ==
  ASSUME IInv, NEW c \in Calls, CheckEmailRateLimit(c)
  PROVE  IInv'
<1>1. calls[c].email \in Keys
  BY BusyShape DEF IInv, TypeOK, CheckEmailRateLimit
<1> QED
  BY <1>1, IncrementIInv, InsertLimitIInv DEF CheckEmailRateLimit

LEMMA CheckIPRateLimitIInv ==
  ASSUME IInv, NEW c \in Calls, CheckIPRateLimit(c)
  PROVE  IInv'
<1>1. CASE calls[c].at = "ip" /\ calls[c].ip = None /\ Goto(c, "store")
  BY <1>1, GotoStep DEF Goto, Holds, CheckIPRateLimit
<1>2. CASE calls[c].at = "ip" /\ calls[c].ip # None
             /\ Increment(c, calls[c].ip, "ipInsert", "store")
  <2>1. calls[c].ip \in Keys
    BY <1>2, BusyShape DEF IInv, TypeOK
  <2> QED
    BY <1>2, <2>1, IncrementIInv DEF CheckIPRateLimit
<1>3. CASE calls[c].at = "ipInsert" /\ InsertLimit(c, calls[c].ip, "store")
  <2>1. calls[c].ip \in Keys
    BY <1>3, BusyShape DEF IInv, TypeOK, CallOK
  <2> QED
    BY <1>3, <2>1, InsertLimitIInv DEF CheckIPRateLimit
<1> QED
  BY <1>1, <1>2, <1>3 DEF CheckIPRateLimit

-----------------------------------------------------------------------------
(* The steps that write rate-limit rows.                                   *)

\* A row that a request has not planned to write may change, if the new row is
\* not stale for the request.
LEMMA OtherStands ==
  ASSUME IInv, NEW d \in Calls, calls'[d] = calls[d], now' = now,
         \A k \in Keys :
           \/ limits'[k] = limits[k]
           \/ /\ ~Holds(calls[d], k)
              /\ calls[d].at \notin {"idle", "check"} =>
                   ~(limits'[k] # None /\ limits'[k].start + 2 * Window < calls[d].stamp)
  PROVE  /\ CallOK(calls[d])'
         /\ \A k \in Keys : Holds(calls[d], k)' => Holds(calls[d], k)
<1>1. CallOK(calls[d])
  BY DEF IInv
<1>2. ASSUME NEW k \in Keys, Holds(calls[d], k)' PROVE Holds(calls[d], k)
  <2>1. CASE limits'[k] = limits[k]
    BY <1>2, <2>1 DEF Holds, StaleLimits
  <2>2. CASE limits'[k] # limits[k]
    BY <1>2, <2>2 DEF Holds, StaleLimits
  <2> QED
    BY <2>1, <2>2
<1>3. ASSUME NEW k \in Keys, calls[d].at # "idle", calls[d].limit[k] # None
      PROVE  Fits(calls[d], k)'
  <2>1. Fits(calls[d], k) /\ Holds(calls[d], k)
    BY <1>1, <1>3 DEF CallOK, Holds
  <2> QED
    BY <2>1 DEF Fits
<1>4. CallOK(calls[d])'
  BY <1>1, <1>3 DEF CallOK
<1> QED
  BY <1>2, <1>4

\* What a commit makes of the row of k.
LEMMA StoredRow ==
  ASSUME IInv, NEW c \in Calls, Store(c), NEW k \in Keys
  PROVE  /\ calls[c].at = "store" /\ CallOK(calls[c])
         /\ calls[c].stamp \in 0 .. MaxTime
         /\ now \in 0 .. MaxTime
         /\ limits'[k] \in Limit \cup {None}
         /\ granted'[k] \in Nat
         /\ \/ /\ calls[c].limit[k] # None /\ limits'[k] = calls[c].limit[k]
               /\ limits'[k].count = 1 /\ limits'[k].start = calls[c].stamp
               /\ limits[k] = None \/ limits[k].start + Window <= calls[c].stamp
               /\ granted'[k] = 1
            \/ /\ calls[c].limit[k] # None /\ limits'[k] = calls[c].limit[k]
               /\ limits[k] # None
               /\ limits'[k].count = limits[k].count + 1 /\ limits'[k].start = limits[k].start
               /\ granted'[k] = granted[k] + 1
            \/ /\ calls[c].limit[k] = None
               /\ limits[k] # None /\ limits[k].start + 2 * Window < calls[c].stamp
               /\ limits'[k] = None
            \/ /\ calls[c].limit[k] = None
               /\ limits'[k] = limits[k] /\ granted'[k] = granted[k]
<1> DEFINE t == calls[c].stamp
           counted == {j \in Keys : calls[c].limit[j] # None}
           opened == {j \in counted : \/ limits[j] = None
                                      \/ limits[j].start # calls[c].limit[j].start}
<1>1. /\ calls[c].at = "store" /\ CallOK(calls[c]) /\ calls[c] \in CallState
      /\ now \in 0 .. MaxTime /\ limits[k] \in Limit \cup {None} /\ granted[k] \in Nat
  BY DEF IInv, TypeOK, Store
<1>2. t \in 0 .. MaxTime /\ calls[c].limit[k] \in Limit \cup {None}
  BY <1>1, BusyShape
<1>3. /\ limits'[k] = CASE k \in counted -> calls[c].limit[k]
                        [] k \in StaleLimits(t) \ counted -> None
                        [] OTHER -> limits[k]
      /\ granted'[k] = CASE k \in opened -> 1
                         [] k \in counted \ opened -> granted[k] + 1
                         [] OTHER -> granted[k]
  BY DEF Store
<1>4. CASE calls[c].limit[k] # None
  <2>1. Fits(calls[c], k)
    BY <1>1, <1>4 DEF CallOK
  <2>2. k \in counted
    BY <1>4
  <2>3. limits'[k] = calls[c].limit[k]
    BY <1>3, <2>2
  <2>4. granted'[k] = IF k \in opened THEN 1 ELSE granted[k] + 1
    BY <1>3, <2>2
  <2>5. CASE /\ calls[c].limit[k] = [count |-> 1, start |-> t]
             /\ limits[k] = None \/ limits[k].start + Window <= t
    <3>1. limits[k] = None \/ limits[k].start # t
      BY <1>1, <1>2, <2>5, Numbers DEF Limit
    <3>2. k \in opened
      BY <2>2, <2>5, <3>1
    <3> QED
      BY <1>1, <1>2, <1>4, <2>3, <2>4, <2>5, <3>2
  <2>6. CASE /\ limits[k] # None
             /\ calls[c].limit[k] = [limits[k] EXCEPT !.count = @ + 1]
    <3>1. /\ calls[c].limit[k].start = limits[k].start
          /\ calls[c].limit[k].count = limits[k].count + 1
      BY <1>1, <2>6 DEF Limit
    <3>2. k \notin opened
      BY <2>6, <3>1
    <3> QED
      BY <1>1, <1>2, <1>4, <2>3, <2>4, <2>6, <3>1, <3>2
  <2> QED
    BY <2>1, <2>5, <2>6 DEF Fits
<1>5. CASE calls[c].limit[k] = None
  <2>1. k \notin counted /\ k \notin opened
    BY <1>5
  <2>2. granted'[k] = granted[k]
    BY <1>3, <2>1
  <2>3. CASE k \in StaleLimits(t)
    <3>1. limits'[k] = None
      BY <1>3, <2>1, <2>3
    <3> QED
      BY <1>1, <1>2, <1>5, <2>2, <2>3, <3>1 DEF StaleLimits
  <2>4. CASE k \notin StaleLimits(t)
    <3>1. limits'[k] = limits[k]
      BY <1>3, <2>1, <2>4
    <3> QED
      BY <1>1, <1>2, <1>5, <2>2, <3>1
  <2> QED
    BY <2>3, <2>4
<1> QED
  BY <1>4, <1>5

LEMMA StoreIInv ==
  ASSUME IInv, NEW c \in Calls, Store(c)
  PROVE  IInv'
<1>1. /\ calls \in [Calls -> CallState] /\ calls[c].at = "store" /\ CallOK(calls[c])
      /\ calls' = [calls EXCEPT ![c] = Idle]
      /\ UNCHANGED <<flow, now, users>>
  BY DEF IInv, TypeOK, Store
<1>2. calls'[c] = Idle /\ \A d \in Calls \ {c} : calls'[d] = calls[d]
  BY <1>1
<1>3. TypeOK'
  <2>1. codes' \in [Emails -> Code \cup {None}]
    <3> DEFINE e == calls[c].email
               t == calls[c].stamp
               new == [count |-> calls[c].count, first |-> calls[c].first,
                       sent |-> t, expires |-> t + Ttl]
    <3>1. calls[c] \in CallState /\ calls[c].count # 0
      BY <1>1 DEF CallOK
    <3>2. /\ t \in 0 .. MaxTime /\ calls[c].count \in Nat /\ calls[c].first \in 0 .. MaxTime
          /\ t + Ttl \in Nat
      BY <1>1, <3>1, BusyShape, Numbers
    <3>3. new \in Code
      BY <3>1, <3>2 DEF Code
    <3>4. codes' = [f \in Emails |-> CASE f = e -> new
                                       [] f # e /\ f \in ExpiredCodes(t) -> None
                                       [] OTHER -> codes[f]]
      BY DEF Store
    <3>5. codes \in [Emails -> Code \cup {None}]
      BY DEF IInv, TypeOK
    <3> HIDE DEF new, e, t
    <3>6. \A f \in Emails : (CASE f = e -> new
                               [] f # e /\ f \in ExpiredCodes(t) -> None
                               [] OTHER -> codes[f]) \in Code \cup {None}
      BY <3>3, <3>5
    <3> QED
      BY <3>4, <3>6
  <2>2. /\ limits' = [k \in Keys |-> limits'[k]]
        /\ granted' = [k \in Keys |-> granted'[k]]
    BY DEF Store
  <2>3. limits' \in [Keys -> Limit \cup {None}] /\ granted' \in [Keys -> Nat]
    <3>1. \A k \in Keys : limits'[k] \in Limit \cup {None} /\ granted'[k] \in Nat
      BY StoredRow
    <3> QED
      BY <2>2, <3>1
  <2>4. calls' \in [Calls -> CallState]
    BY <1>1, IdleShape
  <2> QED
    BY <1>1, <2>1, <2>3, <2>4 DEF IInv, TypeOK
<1>4. EveryRequestCounted'
  <2> SUFFICES ASSUME NEW k \in Keys, limits'[k] # None
               PROVE  limits'[k].count = granted'[k]
    BY DEF EveryRequestCounted
  <2>1. limits[k] \in Limit \cup {None} /\ (limits[k] # None => limits[k].count = granted[k])
    BY DEF IInv, TypeOK, EveryRequestCounted
  <2> QED
    BY <2>1, StoredRow DEF Limit
<1>5. ASSUME NEW d \in Calls, d # c
      PROVE  /\ CallOK(calls[d])'
             /\ \A k \in Keys : Holds(calls[d], k)' => Holds(calls[d], k)
  <2>1. ASSUME NEW k \in Keys, limits'[k] # limits[k]
        PROVE  /\ ~Holds(calls[d], k)
               /\ calls[d].at \notin {"idle", "check"} =>
                    ~(limits'[k] # None /\ limits'[k].start + 2 * Window < calls[d].stamp)
    <3>1. Holds(calls[c], k)
      BY <2>1, StoredRow DEF Holds, StaleLimits
    <3>2. ~Holds(calls[d], k)
      BY <1>5, <3>1 DEF IInv, Exclusive
    <3>3. ASSUME calls[d].at \notin {"idle", "check"}, limits'[k] # None
          PROVE  ~(limits'[k].start + 2 * Window < calls[d].stamp)
      <4>1. /\ calls[d].stamp \in 0 .. MaxTime /\ calls[d].stamp <= now
            /\ now \in 0 .. MaxTime
            /\ calls[c].stamp \in 0 .. MaxTime /\ now <= calls[c].stamp + MaxDelay
        BY <1>1, <3>3, BusyShape DEF IInv, TypeOK, CallOK
      <4>2. limits[k] # None => limits[k] \in Limit
        BY DEF IInv, TypeOK
      <4>3. limits[k] # None => ~(limits[k].start + 2 * Window < calls[d].stamp)
        BY <3>2, <3>3 DEF Holds, StaleLimits
      <4>4. \/ limits'[k].start = calls[c].stamp
            \/ limits[k] # None /\ limits'[k].start = limits[k].start
        BY <2>1, <3>3, <4>2, StoredRow DEF Limit
      <4> QED
        BY <4>1, <4>2, <4>3, <4>4, Numbers DEF Limit
    <3> QED
      BY <3>2, <3>3
  <2> QED
    BY <1>1, <1>2, <1>5, <2>1, OtherStands
<1>6. CallOK(calls[c])' /\ \A k \in Keys : ~Holds(calls[c], k)'
  BY <1>2, IdleShape DEF CallOK, Holds
<1>7. \A d \in Calls : CallOK(calls[d])'
  BY <1>5, <1>6
<1>8. Exclusive'
  BY <1>5, <1>6 DEF IInv, Exclusive
<1> QED
  BY <1>3, <1>4, <1>7, <1>8 DEF IInv

LEMMA CleanupIInv ==
  ASSUME IInv, Cleanup
  PROVE  IInv'
<1>1. /\ \A k \in Keys : limits'[k] = IF k \in StaleLimits(now) THEN None ELSE limits[k]
      /\ UNCHANGED <<flow, now, users, calls, granted>>
  BY DEF Cleanup
<1>2. TypeOK'
  BY DEF IInv, TypeOK, Cleanup
<1>3. EveryRequestCounted'
  BY <1>1 DEF IInv, EveryRequestCounted
<1>4. ASSUME NEW d \in Calls
      PROVE  /\ CallOK(calls[d])'
             /\ \A k \in Keys : Holds(calls[d], k)' => Holds(calls[d], k)
  <2>1. \A k \in Keys : k \in StaleLimits(now) => ~Holds(calls[d], k)
    BY SameHold DEF Cleanup
  <2>2. \A k \in Keys : limits'[k] = limits[k] \/ (~Holds(calls[d], k) /\ limits'[k] = None)
    BY <1>1, <2>1
  <2> QED
    BY <1>1, <2>2, OtherStands
<1>5. Exclusive'
  BY <1>1, <1>4 DEF IInv, Exclusive
<1> QED
  BY <1>2, <1>3, <1>4, <1>5 DEF IInv

-----------------------------------------------------------------------------
(* The other steps.                                                        *)

LEMMA TickIInv ==
  ASSUME IInv, Tick
  PROVE  IInv'
<1>1. /\ now \in 0 .. MaxTime /\ now' = now + 1 /\ now < MaxTime
      /\ UNCHANGED <<flow, users, codes, limits, calls, granted>>
  BY DEF IInv, TypeOK, Tick
<1>2. TypeOK'
  BY <1>1, Numbers DEF IInv, TypeOK
<1>3. ASSUME NEW c \in Calls PROVE CallOK(calls[c])'
  <2>1. CASE calls[c].at = "idle"
    BY <1>1, <2>1 DEF CallOK
  <2>2. CASE calls[c].at # "idle"
    <3>1. CallOK(calls[c]) /\ calls[c] # Idle /\ calls[c].stamp \in 0 .. MaxTime
      BY <2>2, IdleShape, BusyShape DEF IInv, TypeOK
    <3>2. now < calls[c].stamp + MaxDelay
      BY <3>1 DEF Tick
    <3> QED
      BY <1>1, <2>2, <3>1, <3>2, Numbers DEF CallOK, Fits
  <2> QED
    BY <2>1, <2>2
<1>4. Exclusive' /\ EveryRequestCounted'
  BY <1>1 DEF IInv, Exclusive, EveryRequestCounted, Holds, StaleLimits
<1> QED
  BY <1>2, <1>3, <1>4 DEF IInv

\* A step that leaves the clock, the limits and the requests alone.
LEMMA CodeStep ==
  ASSUME IInv, TypeOK', UNCHANGED <<now, limits, calls, granted>>
  PROVE  IInv'
BY DEF IInv, CallOK, Fits, Exclusive, EveryRequestCounted, Holds, StaleLimits

LEMMA RedeemIInv ==
  ASSUME IInv, NEW e \in Emails, Redeem(e)
  PROVE  IInv'
<1>1. TypeOK'
  BY DEF IInv, TypeOK, Redeem
<1> QED
  BY <1>1, CodeStep DEF Redeem

LEMMA InitIInv == Init => IInv
<1> SUFFICES ASSUME Init PROVE IInv
  OBVIOUS
<1>1. TypeOK
  BY IdleShape, Numbers DEF Init, TypeOK
<1>2. \A c \in Calls : CallOK(calls[c])
  BY IdleShape DEF Init, CallOK
<1>3. Exclusive /\ EveryRequestCounted
  BY IdleShape DEF Init, Exclusive, Holds, EveryRequestCounted
<1> QED
  BY <1>1, <1>2, <1>3 DEF IInv

LEMMA NextIInv ==
  ASSUME IInv, [Next]_vars
  PROVE  IInv'
<1>1. CASE UNCHANGED vars
  BY <1>1, CodeStep DEF vars, IInv, TypeOK
<1>2. ASSUME NEW c \in Calls, NEW ask \in Asks[c], Request(c, ask[1], ask[2])
      PROVE  IInv'
  <2>1. ask[1] \in Emails /\ ask[2] \in IPs \cup {None}
    BY OtpAssumption
  <2> QED
    BY <1>2, <2>1, RequestIInv
<1>3. ASSUME NEW c \in Calls, Crash(c)
      PROVE  IInv'
  BY <1>3, EndStep DEF Crash
<1> QED
  BY <1>1, <1>2, <1>3, CheckIInv, LookupIInv, CheckEmailRateLimitIInv, CheckIPRateLimitIInv,
     StoreIInv, RedeemIInv, CleanupIInv, TickIInv DEF Next

-----------------------------------------------------------------------------
(* The theorems.                                                           *)

\* The invariant holds however requests, crashes, redemptions, clean-ups and
\* the clock interleave.
THEOREM OtpInvariant == Spec => []IInv
<1>1. IInv /\ [Next]_vars => IInv'
  BY NextIInv
<1> QED
  BY InitIInv, <1>1, PTL DEF Spec

\* The rows, the counters and what a request is about to write keep their
\* types: no code is stored with a count of zero, no row without its window.
THEOREM OtpTypes == Spec => []TypeOK
<1>1. IInv => TypeOK
  BY DEF IInv
<1> QED
  BY OtpInvariant, <1>1, PTL

\* A rate-limit row counts exactly the requests granted in its window, for any
\* number of requests that race for the row or for its insertion.
THEOREM RequestsCounted == Spec => []EveryRequestCounted
<1>1. IInv => EveryRequestCounted
  BY DEF IInv
<1> QED
  BY OtpInvariant, <1>1, PTL

\* A window that runs is neither forgotten nor restarted: by a clean-up, in a
\* request or of the worker, or by a request whose clock is behind.
THEOREM WindowsRun == Spec => WindowRunsToItsEnd
<1> DEFINE Runs == \A k \in Keys : limits[k] # None /\ now < limits[k].start + Window =>
                     limits'[k] # None /\ limits'[k].start = limits[k].start
<1>1. ASSUME IInv, [Next]_vars PROVE Runs
  <2> SUFFICES ASSUME NEW k \in Keys, limits[k] # None, now < limits[k].start + Window
               PROVE  limits'[k] # None /\ limits'[k].start = limits[k].start
    OBVIOUS
  <2>1. limits[k] \in Limit /\ now \in 0 .. MaxTime
    BY <1>1 DEF IInv, TypeOK
  <2>2. ASSUME NEW c \in Calls, Store(c)
        PROVE  limits'[k] # None /\ limits'[k].start = limits[k].start
    <3>1. calls[c].stamp \in 0 .. MaxTime /\ calls[c].stamp <= now
      BY <1>1, <2>2, StoredRow DEF CallOK
    <3>2. /\ ~(limits[k].start + Window <= calls[c].stamp)
          /\ ~(limits[k].start + 2 * Window < calls[c].stamp)
      BY <2>1, <3>1, Numbers DEF Limit
    <3> QED
      BY <1>1, <2>1, <2>2, <3>2, StoredRow DEF Limit
  <2>3. CASE Cleanup
    <3>1. k \notin StaleLimits(now)
      BY <2>1, Numbers DEF StaleLimits, Limit
    <3> QED
      BY <2>3, <3>1 DEF Cleanup
  <2>4. CASE UNCHANGED limits
    BY <2>4
  <2>5. \/ \E c \in Calls : Store(c)
        \/ Cleanup
        \/ UNCHANGED limits
    BY <1>1 DEF Next, vars, Request, Check, Lookup, CheckEmailRateLimit, CheckIPRateLimit,
                Crash, Redeem, Tick
  <2> QED
    BY <2>2, <2>3, <2>4, <2>5
<1>2. IInv /\ [Next]_vars => [Runs]_vars
  BY <1>1
<1> QED
  BY OtpInvariant, <1>2, PTL DEF Spec, WindowRunsToItsEnd
=============================================================================
