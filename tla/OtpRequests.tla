----------------------------- MODULE OtpRequests -----------------------------
(***************************************************************************)
(* The requests for one-time codes of auth.Service: Signup and              *)
(* RequestPasswordReset, which issue a code, VerifySignupEmailOTP and       *)
(* ResetPassword, which redeem it, and the clean-up worker.  The two flows  *)
(* are the same protocol over tables of their own: `flow' says which of     *)
(* them a behaviour is about.                                              *)
(*                                                                         *)
(* A request is one transaction of several statements.  Two limits meet in  *)
(* it: the pending code's row with its cooldown, and the rate-limit rows of *)
(* the email and the client's address with their counters.  A row that is   *)
(* there is locked when it is read; a row that is not there cannot be.      *)
(* What a request writes is seen by the others when it commits.            *)
(*                                                                         *)
(* A wrong code changes nothing: the attempt is counted in the transaction  *)
(* that the error rolls back, so `attempts' stays 0 and is left out.       *)
(***************************************************************************)
EXTENDS Naturals, FiniteSets

CONSTANTS
  Emails,
  IPs,        \* client addresses
  Calls,      \* concurrent requests
  Asks,       \* the emails and addresses each of them may ask with
  Flows,      \* the flows to look at
  Cooldown, Window, Ttl,
  MaxEmail,   \* requests of an email in a window
  MaxIp,      \* requests of an address in a window
  MaxTime,    \* bound: the last instant
  MaxDelay,   \* bound: how long a request takes
  None

ASSUME OtpAssumption ==
  /\ Emails \cap IPs = {} /\ None \notin Emails \cup IPs
  /\ Asks \in [Calls -> SUBSET (Emails \X (IPs \cup {None}))]
  /\ Flows \subseteq {"signup", "reset"}
  /\ {Cooldown, Window, Ttl, MaxEmail, MaxIp} \subseteq Nat \ {0}
  /\ Cooldown <= Ttl /\ {MaxTime, MaxDelay} \subseteq Nat

\* A request is over before a window that opens while it runs is old enough to
\* be cleaned up, so that its clean-up never meets a row written after it.
ASSUME DelayAssumption == MaxDelay <= 2 * Window

VARIABLES
  flow,
  now,
  users,      \* the registered emails
  codes,      \* signup_email_verifications or password_reset_otps
  limits,     \* signup_otp_rate_limits or password_reset_otp_rate_limits
  calls,      \* what each request is about to do, and what it will write
  granted     \* the requests granted in a key's window (history)

vars == <<flow, now, users, codes, limits, calls, granted>>

Keys == Emails \cup IPs
MaxOf(k) == IF k \in Emails THEN MaxEmail ELSE MaxIp

Code  == [count : Nat \ {0}, first : 0 .. MaxTime, sent : 0 .. MaxTime, expires : Nat]
Limit == [count : Nat \ {0}, start : 0 .. MaxTime]

Idle == [at |-> "idle"]

CallState ==
  {Idle} \cup [at : {"check", "lookup", "email", "emailInsert", "ip", "ipInsert", "store"},
               email : Emails, ip : IPs \cup {None}, stamp : 0 .. MaxTime, held : BOOLEAN,
               count : Nat, first : 0 .. MaxTime,
               limit : [Keys -> Limit \cup {None}]]

\* The rows cleanupExpired..State deletes at time t.
ExpiredCodes(t) == {e \in Emails : codes[e] # None /\ codes[e].expires < t}
StaleLimits(t)  == {k \in Keys : limits[k] # None /\ limits[k].start + 2 * Window < t}

\* The rows a request has locked: the pending code it has read, the limits it is
\* going to write, and what its clean-up deletes.
Cleaned(c) == calls[c].at \notin {"idle", "check"}
HoldsCode(c, e) ==
  Cleaned(c) /\ (e \in ExpiredCodes(calls[c].stamp) \/ (calls[c].email = e /\ calls[c].held))

\* (Faulty: the limits are read without FOR UPDATE.)
HoldsNoLimit(c, k) == FALSE

HoldsLimit(c, k) ==
  Cleaned(c) /\ (k \in StaleLimits(calls[c].stamp) \/ calls[c].limit[k] # None)

CodeFree(c, e)  == \A d \in Calls \ {c} : ~HoldsCode(d, e)
LimitFree(c, k) == \A d \in Calls \ {c} : ~HoldsLimit(d, k)

Init ==
  /\ flow \in Flows
  /\ now = 0
  /\ users = IF flow = "signup" THEN {} ELSE Emails
  /\ codes = [e \in Emails |-> None]
  /\ limits = [k \in Keys |-> None]
  /\ calls = [c \in Calls |-> Idle]
  /\ granted = [k \in Keys |-> 0]

Tick ==
  /\ now < MaxTime
  /\ \A c \in Calls : calls[c] # Idle => now < calls[c].stamp + MaxDelay
  /\ now' = now + 1
  /\ UNCHANGED <<flow, users, codes, limits, calls, granted>>

-----------------------------------------------------------------------------
(* Signup and RequestPasswordReset.                                        *)

Goto(c, at) == calls' = [calls EXCEPT ![c].at = at]
Refuse(c)   == calls' = [calls EXCEPT ![c] = Idle]

\* The request reads the clock before its transaction begins.
Request(c, e, ip) ==
  /\ calls[c] = Idle
  /\ calls' = [calls EXCEPT ![c] =
        [at |-> "check", email |-> e, ip |-> ip, stamp |-> now, held |-> FALSE,
         count |-> 0, first |-> 0, limit |-> [k \in Keys |-> None]]]
  /\ UNCHANGED <<flow, now, users, codes, limits, granted>>

\* The clean-up in the transaction, and, of a signup, GetByEmail.
Check(c) ==
  LET t == calls[c].stamp IN
  /\ calls[c].at = "check"
  /\ \A e \in ExpiredCodes(t) : CodeFree(c, e)
  /\ \A k \in StaleLimits(t) : LimitFree(c, k)
  /\ IF flow = "signup" /\ calls[c].email \in users THEN Refuse(c) ELSE Goto(c, "lookup")
  /\ UNCHANGED <<flow, now, users, codes, limits, granted>>

\* (Faulty: the first request is not counted.)
LookupFromZero(c) ==
  LET e == calls[c].email
      t == calls[c].stamp
      row == IF e \in ExpiredCodes(t) THEN None ELSE codes[e]
      Grant(n, first) == calls' = [calls EXCEPT ![c].at = "email", ![c].count = n,
                                      ![c].first = first, ![c].held = row # None]
  IN  /\ calls[c].at = "lookup"
      /\ CodeFree(c, e)
      /\ \/ row = None /\ Grant(0, t)
         \/ /\ row # None
            /\ \/ t < row.sent + Cooldown /\ Refuse(c)
               \/ /\ t >= row.sent + Cooldown
                  /\ \/ t >= row.first + Window /\ Grant(1, t)
                     \/ t < row.first + Window /\ row.count >= MaxEmail /\ Refuse(c)
                     \/ /\ t < row.first + Window /\ row.count < MaxEmail
                        /\ Grant(row.count + 1, row.first)
      /\ UNCHANGED <<flow, now, users, codes, limits, granted>>

\* next..OTPEmailRequest: the pending code, if there is one, the cooldown after it
\* was sent, and the requests counted with it.
Lookup(c) ==
  LET e == calls[c].email
      t == calls[c].stamp
      row == IF e \in ExpiredCodes(t) THEN None ELSE codes[e]
      Grant(n, first) == calls' = [calls EXCEPT ![c].at = "email", ![c].count = n,
                                      ![c].first = first, ![c].held = row # None]
  IN  /\ calls[c].at = "lookup"
      /\ CodeFree(c, e)
      /\ \/ row = None /\ Grant(1, t)
         \/ /\ row # None
            /\ \/ t < row.sent + Cooldown /\ Refuse(c)
               \/ /\ t >= row.sent + Cooldown
                  /\ \/ t >= row.first + Window /\ Grant(1, t)
                     \/ t < row.first + Window /\ row.count >= MaxEmail /\ Refuse(c)
                     \/ /\ t < row.first + Window /\ row.count < MaxEmail
                        /\ Grant(row.count + 1, row.first)
      /\ UNCHANGED <<flow, now, users, codes, limits, granted>>

\* increment..OTPRateLimit for key k.  A row that is there is locked and counted up,
\* started again after its window, or refuses; a missing one is inserted next.
Increment(c, k, insert, next) ==
  LET t == calls[c].stamp
      row == IF k \in StaleLimits(t) THEN None ELSE limits[k]
      Write(r) == calls' = [calls EXCEPT ![c].at = next, ![c].limit[k] = r]
  IN  \/ row = None /\ Goto(c, insert)
      \/ /\ row # None
         /\ LimitFree(c, k)
         /\ \/ t >= row.start + Window /\ Write([count |-> 1, start |-> t])
            \/ t < row.start + Window /\ row.count >= MaxOf(k) /\ Refuse(c)
            \/ /\ t < row.start + Window /\ row.count < MaxOf(k)
               /\ Write([row EXCEPT !.count = @ + 1])

\* The INSERT waits for another request's of the same key, and fails when that
\* has committed.
InsertLimit(c, k, next) ==
  /\ LimitFree(c, k)
  /\ IF limits[k] = None \/ k \in StaleLimits(calls[c].stamp)
     THEN calls' = [calls EXCEPT ![c].at = next,
                                 ![c].limit[k] = [count |-> 1, start |-> calls[c].stamp]]
     ELSE Refuse(c)

CheckEmailRateLimit(c) ==
  /\ \/ calls[c].at = "email" /\ Increment(c, calls[c].email, "emailInsert", "ip")
     \/ calls[c].at = "emailInsert" /\ InsertLimit(c, calls[c].email, "ip")
  /\ UNCHANGED <<flow, now, users, codes, limits, granted>>

\* A request without an address is not limited by it.
CheckIPRateLimit(c) ==
  /\ \/ calls[c].at = "ip" /\ calls[c].ip = None /\ Goto(c, "store")
     \/ calls[c].at = "ip" /\ calls[c].ip # None
          /\ Increment(c, calls[c].ip, "ipInsert", "store")
     \/ calls[c].at = "ipInsert" /\ InsertLimit(c, calls[c].ip, "store")
  /\ UNCHANGED <<flow, now, users, codes, limits, granted>>

\* The upsert of the code and the commit; the mail goes out afterwards, and a mail
\* that fails changes nothing.
Store(c) ==
  LET e == calls[c].email
      t == calls[c].stamp
      counted == {k \in Keys : calls[c].limit[k] # None}
      opened == {k \in counted : \/ limits[k] = None
                                 \/ limits[k].start # calls[c].limit[k].start}
  IN  /\ calls[c].at = "store"
      /\ CodeFree(c, e)
      /\ codes' = [f \in Emails |->
            CASE f = e -> [count |-> calls[c].count, first |-> calls[c].first,
                           sent |-> t, expires |-> t + Ttl]
              [] f # e /\ f \in ExpiredCodes(t) -> None
              [] OTHER -> codes[f]]
      /\ limits' = [k \in Keys |->
            CASE k \in counted -> calls[c].limit[k]
              [] k \in StaleLimits(t) \ counted -> None
              [] OTHER -> limits[k]]
      /\ granted' = [k \in Keys |-> CASE k \in opened -> 1
                                       [] k \in counted \ opened -> granted[k] + 1
                                       [] OTHER -> granted[k]]
      /\ calls' = [calls EXCEPT ![c] = Idle]
      /\ UNCHANGED <<flow, now, users>>

\* The request dies or the database fails it: a roll-back.
Crash(c) ==
  /\ calls[c] # Idle
  /\ calls' = [calls EXCEPT ![c] = Idle]
  /\ UNCHANGED <<flow, now, users, codes, limits, granted>>

-----------------------------------------------------------------------------

\* VerifySignupEmailOTP and ResetPassword with the right code in time: the code's
\* row is locked and deleted.  A signup that finds the email registered by another
\* way rolls back.
Redeem(e) ==
  /\ codes[e] # None
  /\ \A c \in Calls : ~HoldsCode(c, e)
  /\ now < codes[e].expires
  /\ flow = "signup" => e \notin users
  /\ users' = users \cup {e}
  /\ codes' = [codes EXCEPT ![e] = None]
  /\ UNCHANGED <<flow, now, limits, calls, granted>>

\* (Faulty: the cut-off of the rate limits leaves the window out.)
CleanupStarted ==
  /\ codes' = [e \in Emails |-> IF e \in ExpiredCodes(now) THEN None ELSE codes[e]]
  /\ limits' = [k \in Keys |-> IF limits[k] # None /\ limits[k].start < now
                                    /\ \A c \in Calls : ~HoldsLimit(c, k)
                               THEN None ELSE limits[k]]
  /\ UNCHANGED <<flow, now, users, calls, granted>>

\* CleanupExpiredSignupOTPState, from the worker.
Cleanup ==
  /\ \A c \in Calls : /\ \A e \in ExpiredCodes(now) : ~HoldsCode(c, e)
                      /\ \A k \in StaleLimits(now) : ~HoldsLimit(c, k)
  /\ codes' = [e \in Emails |-> IF e \in ExpiredCodes(now) THEN None ELSE codes[e]]
  /\ limits' = [k \in Keys |-> IF k \in StaleLimits(now) THEN None ELSE limits[k]]
  /\ UNCHANGED <<flow, now, users, calls, granted>>

Next ==
  \/ \E c \in Calls :
       \/ \E ask \in Asks[c] : Request(c, ask[1], ask[2])
       \/ Check(c)
       \/ Lookup(c)
       \/ CheckEmailRateLimit(c)
       \/ CheckIPRateLimit(c)
       \/ Store(c)
       \/ Crash(c)
  \/ \E e \in Emails : Redeem(e)
  \/ Cleanup
  \/ Tick

Spec == Init /\ [][Next]_vars

-----------------------------------------------------------------------------

TypeOK ==
  /\ flow \in Flows
  /\ now \in 0 .. MaxTime
  /\ users \subseteq Emails
  /\ codes \in [Emails -> Code \cup {None}]
  /\ limits \in [Keys -> Limit \cup {None}]
  /\ calls \in [Calls -> CallState]
  /\ granted \in [Keys -> Nat]

\* No request slips past a counter: a rate-limit row counts exactly the requests
\* granted to its email or address since its window was opened, however requests
\* race for the row or for its insertion.
EveryRequestCounted ==
  \A k \in Keys : limits[k] # None => limits[k].count = granted[k]

\* A window that runs is neither forgotten nor restarted: clean-up, roll-back and a
\* redeemed code leave the counters alone.
WindowRunsToItsEnd ==
  [][\A k \in Keys : limits[k] # None /\ now < limits[k].start + Window =>
       limits'[k] # None /\ limits'[k].start = limits[k].start]_vars

=============================================================================
