----------------------------- MODULE SendQuota -----------------------------
(***************************************************************************)
(* The daily send limit of an account: check_and_increment_send_limit and  *)
(* refund_daily_send (src/db.rs), and the three handlers that send mail    *)
(* under it (POST /api/emails, SOAP SendEmail, /webmail/send), which make  *)
(* the same calls in the same order.                                       *)
(*                                                                         *)
(* check_and_increment_send_limit locks the connection twice: once to read *)
(* the setting, and again for the three statements on the account's row.   *)
(* It computes the date between the two, so it may wait for the second     *)
(* lock across midnight.  Every statement that fails is ignored.           *)
(***************************************************************************)
EXTENDS Naturals, FiniteSets

CONSTANTS
    Requests,   \* requests to send a message from one account
    Limits,     \* values an admin gives daily_send_limit; 0 is unlimited
    MaxLimit,   \* the largest of them
    MaxDays,    \* bound: the days the calendar goes through
    MaxFaults   \* bound: lost connections and restarts

ASSUME SendQuotaAssumption ==
    /\ IsFiniteSet(Requests)
    /\ MaxLimit \in Nat
    /\ Limits \subseteq 0..MaxLimit
    /\ MaxDays \in Nat \ {0}
    /\ MaxFaults \in Nat

NoDate == 0                     \* daily_send_date is '' before the first send
Dates == 0..MaxDays

VARIABLES
    today,      \* the date
    dbUp,       \* FALSE once the connection is lost
    limit,      \* setting daily_send_limit
    count, date, \* daily_send_count and daily_send_date of the account
    pc,         \* pc[r]: the next step of request r
    lim, day,   \* the limit r has read, and the date r has computed
    faults,
    \* History, read by properties alone:
    counted,    \* requests that incremented the count
    refunded,   \* ... and later decremented it
    delivered,  \* requests whose message Postfix accepted
    stale,      \* checks made with the date of an earlier day
    stray       \* refunds of what the day's count did not hold, or that was sent

row == <<count, date>>
request == <<pc, lim, day>>
history == <<counted, refunded, delivered, stale, stray>>
vars == <<today, dbUp, limit, row, request, faults, history>>

Init ==
    /\ today = 1
    /\ dbUp = TRUE
    /\ limit \in Limits
    /\ count = 0
    /\ date = NoDate
    /\ pc = [r \in Requests |-> "new"]
    /\ lim = [r \in Requests |-> 0]
    /\ day = [r \in Requests |-> NoDate]
    /\ faults = 0
    /\ counted = {}
    /\ refunded = {}
    /\ delivered = {}
    /\ stale = 0
    /\ stray = 0

----------------------------------------------------------------------------
(* A send handler.                                                         *)

Goto(r, step) == pc' = [pc EXCEPT ![r] = step]

LookUpAccount(r) ==
    /\ pc[r] = "new"
    /\ Goto(r, IF dbUp THEN "limit" ELSE "failed")
    /\ UNCHANGED <<today, dbUp, limit, row, lim, day, faults, history>>

\* First lock: the limit, or its default when the read fails (then no statement
\* after it succeeds either). A limit of 0 skips the account's row.
ReadLimit(r) ==
    /\ pc[r] = "limit"
    /\ lim' = [lim EXCEPT ![r] = IF dbUp THEN limit ELSE MaxLimit]
    /\ day' = [day EXCEPT ![r] = today]
    /\ Goto(r, IF lim'[r] = 0 THEN "build" ELSE "check")
    /\ UNCHANGED <<today, dbUp, limit, row, faults, history>>

BugNoReset(r) == count
\* The count after the UPDATE that resets it on another day.
CountOn(r) == IF date # day[r] THEN 0 ELSE count

BugOneMore(n, max) == n > max
AtLimit(n, max) == n >= max

\* Second lock: reset, read and increment.
CheckAndIncrement(r) ==
    /\ pc[r] = "check"
    /\ stale' = IF day[r] < today THEN stale + 1 ELSE stale
    /\ date' = IF dbUp THEN day[r] ELSE date
    /\ \/ /\ dbUp /\ AtLimit(CountOn(r), lim[r])
          /\ count' = CountOn(r)
          /\ Goto(r, "refused")
          /\ UNCHANGED counted
       \/ /\ dbUp /\ ~AtLimit(CountOn(r), lim[r])
          /\ count' = CountOn(r) + 1
          /\ counted' = counted \cup {r}
          /\ Goto(r, "build")
       \/ /\ ~dbUp
          /\ Goto(r, "build")
          /\ UNCHANGED <<count, counted>>
    /\ UNCHANGED <<today, dbUp, limit, lim, day, faults, refunded, delivered, stray>>

\* An address that does not parse, or a message that cannot be built, answers
\* with an error at once: nothing is refunded.
BuildMessage(r, ok) ==
    /\ pc[r] = "build"
    /\ Goto(r, IF ok THEN "send" ELSE "failed")
    /\ UNCHANGED <<today, dbUp, limit, row, lim, day, faults, history>>

\* Postfix may accept the message and the transport still report an error.
SendMessage(r, accepted, ok) ==
    /\ pc[r] = "send"
    /\ ok => accepted
    /\ delivered' = IF accepted THEN delivered \cup {r} ELSE delivered
    /\ Goto(r, IF ok THEN "sent" ELSE "refund")
    /\ UNCHANGED <<today, dbUp, limit, row, lim, day, faults, counted, refunded, stale,
                   stray>>

BugNoFloor(n) == n - 1
\* GREATEST(daily_send_count - 1, 0)
OneLess(n) == IF n = 0 THEN 0 ELSE n - 1

\* refund_daily_send does not look at the date of the count.
Refund(r) ==
    /\ pc[r] = "refund"
    /\ IF dbUp
         THEN /\ count' = OneLess(count)
              /\ refunded' = refunded \cup {r}
              /\ stray' = IF r \in counted \ delivered /\ day[r] = date THEN stray
                          ELSE stray + 1
         ELSE UNCHANGED <<count, refunded, stray>>
    /\ Goto(r, "failed")
    /\ UNCHANGED <<today, dbUp, limit, date, lim, day, faults, counted, delivered, stale>>

----------------------------------------------------------------------------
(* The admin and the environment.                                          *)

SetLimit(n) ==
    /\ dbUp
    /\ limit # n
    /\ limit' = n
    /\ UNCHANGED <<today, dbUp, row, request, faults, history>>

Midnight ==
    /\ today < MaxDays
    /\ today' = today + 1
    /\ UNCHANGED <<dbUp, limit, row, request, faults, history>>

LoseConnection ==
    /\ faults < MaxFaults
    /\ faults' = faults + 1
    /\ dbUp
    /\ dbUp' = FALSE
    /\ UNCHANGED <<today, limit, row, request, history>>

\* The requests under way are lost, with what they were charged.
Restart ==
    /\ faults < MaxFaults
    /\ faults' = faults + 1
    /\ dbUp' = TRUE
    /\ pc' = [r \in Requests |->
                IF pc[r] \in {"limit", "check", "build", "send", "refund"} THEN "cut"
                ELSE pc[r]]
    /\ UNCHANGED <<today, limit, row, lim, day, history>>

----------------------------------------------------------------------------
Handle(r) ==
    \/ LookUpAccount(r) \/ ReadLimit(r) \/ CheckAndIncrement(r) \/ Refund(r)
    \/ \E ok \in BOOLEAN : BuildMessage(r, ok)
    \/ \E accepted, ok \in BOOLEAN : SendMessage(r, accepted, ok)

Next ==
    \/ \E r \in Requests : Handle(r)
    \/ \E n \in Limits : SetLimit(n)
    \/ Midnight \/ LoseConnection \/ Restart

Spec == Init /\ [][Next]_vars

----------------------------------------------------------------------------
(* Properties.                                                             *)

\* The state has its type.
TypeOK ==
    /\ today \in 1..MaxDays
    /\ dbUp \in BOOLEAN
    /\ limit \in Limits
    /\ count \in Nat
    /\ date \in Dates
    /\ pc \in [Requests -> {"new", "limit", "check", "build", "send", "refund", "sent",
                            "refused", "failed", "cut"}]
    /\ lim \in [Requests -> 0..MaxLimit]
    /\ day \in [Requests -> Dates]
    /\ faults \in 0..MaxFaults
    /\ counted \subseteq Requests
    /\ refunded \subseteq Requests
    /\ delivered \subseteq Requests
    /\ stale \in Nat
    /\ stray \in Nat

\* What day d's sends have been charged and not given back.
Charged(d) == {r \in counted \ refunded : day[r] = d}

\* On no day are more messages sent under the limit than it allows, however many
\* requests run at once, with two exceptions that are counted: a request that
\* computed its date before midnight moves the row back to that day, so that
\* two days start again at 0; and a refund may take one from a count that does
\* not hold the send it refunds, or for a message that was accepted after all.
LimitHolds ==
    \A d \in 1..MaxDays :
        Cardinality({r \in counted \cap delivered : day[r] = d})
            <= MaxLimit * (1 + stale) + stray

\* No request is refused before its limit is used up: a refusal finds as many
\* sends charged to the same day, and not refunded, as the limit it has read.
NoEarlyRefusal ==
    [][\A r \in Requests :
          pc[r] = "check" /\ pc'[r] = "refused" =>
              Cardinality(Charged(day[r])) >= lim[r]]_vars

\* src/db.rs:2357 says of check_and_increment_send_limit: "Returns Ok(()) if
\* allowed, Err(msg) if limit reached".  So a request it lets through, with the
\* database up, finds fewer sends charged to its day than its limit.
LimitReachedIsRefused ==
    [][\A r \in Requests :
          dbUp /\ pc[r] = "check" /\ pc'[r] = "build" =>
              Cardinality(Charged(day[r])) < lim[r]]_vars
=============================================================================
