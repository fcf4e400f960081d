----------------------------- MODULE LoginGuard -----------------------------
(***************************************************************************)
(* The admin login's limit on failures (src/web/auth.rs).  Every request   *)
(* to a protected route first asks is_locked_out for its address, then     *)
(* looks its credentials up in the database without holding the table of   *)
(* failures, and then records a failure or clears the address; requests    *)
(* of one address overlap.  The table is lost when the server restarts.    *)
(*                                                                         *)
(* Time is counted in ticks, and an address that a proxy's header names is *)
(* the address the table knows.                                            *)
(***************************************************************************)
EXTENDS Integers, FiniteSets

CONSTANTS
    IPs,            \* client addresses
    Requests,       \* requests the server handles at once
    MAX_FAILURES,
    WINDOW,
    BAN_DURATION,
    MaxTime,        \* bound: the clock stops here
    MaxPerTick,     \* bound: failures of one address in one tick
    MaxFaults       \* bound: lost connections and restarts

ASSUME LoginGuardAssumption ==
    /\ IsFiniteSet(Requests)
    /\ MAX_FAILURES \in Nat \ {0, 1}
    /\ WINDOW \in Nat
    /\ BAN_DURATION \in Nat \ {0}
    /\ MaxTime \in Nat
    /\ MaxPerTick \in Nat
    /\ MaxFaults \in Nat
    /\ "none" \notin IPs

NotBanned == -1                          \* banned_until is None
NoRecord == [count |-> 0, first |-> 0, until |-> NotBanned]

VARIABLES
    now,        \* the clock
    dbUp,       \* FALSE once the connection is lost
    failures,   \* LOGIN_FAILURES, NoRecord for an absent address
    client,     \* client[q]: the address whose credentials q is checking, or "none"
    valid,      \* valid[q]: they are right
    faults,
    \* History, read by properties alone:
    guesses,    \* failures recorded since the address's record was made
    banEnd,     \* the end of the latest ban of an address
    loophole,   \* addresses that a request under way freed during a ban
    log         \* log[a][t]: failures of a at t, since it last logged in

history == <<guesses, banEnd, loophole, log>>
vars == <<now, dbUp, failures, client, valid, faults, history>>

Times == 0..MaxTime

Init ==
    /\ now = 0
    /\ dbUp = TRUE
    /\ failures = [a \in IPs |-> NoRecord]
    /\ client = [q \in Requests |-> "none"]
    /\ valid = [q \in Requests |-> FALSE]
    /\ faults = 0
    /\ guesses = [a \in IPs |-> 0]
    /\ banEnd = [a \in IPs |-> 0]
    /\ loophole = {}
    /\ log = [a \in IPs |-> [t \in Times |-> 0]]

----------------------------------------------------------------------------
(* The table of failures; each function runs under its mutex.              *)

Banned(rec) == rec.until # NotBanned
OutsideWindow(rec) == now - rec.first > WINDOW

\* is_locked_out, its answer and what it leaves of the record.
BanInForce(rec) == Banned(rec) /\ now < rec.until
BugNeverLocked(rec) == FALSE
LockedOut(rec) == IF Banned(rec) THEN BanInForce(rec) ELSE rec.count >= MAX_FAILURES

BugWindowFirst(rec) == rec # NoRecord /\ (OutsideWindow(rec) \/ (Banned(rec) /\ now >= rec.until))
Expired(rec) ==
    /\ rec # NoRecord
    /\ IF Banned(rec) THEN now >= rec.until ELSE OutsideWindow(rec)

AfterLook(rec) == IF Expired(rec) THEN NoRecord ELSE rec

BugCountOn(rec) ==
    [rec EXCEPT !.count = @ + 1,
                !.until = IF rec.count + 1 >= MAX_FAILURES THEN now + BAN_DURATION ELSE @]
\* One failure more, within the window: at the limit the ban begins, and beyond
\* it the ban is extended.
OneMore(rec) ==
    IF rec.count >= MAX_FAILURES
      THEN [rec EXCEPT !.until = now + BAN_DURATION]
      ELSE [rec EXCEPT !.count = @ + 1,
                       !.until = IF rec.count + 1 >= MAX_FAILURES
                                   THEN now + BAN_DURATION ELSE @]

BugKeepCounting(rec) == rec = NoRecord
StartsFresh(rec) == rec = NoRecord \/ OutsideWindow(rec)

\* record_failure
AfterFailure(rec) ==
    IF StartsFresh(rec) THEN [count |-> 1, first |-> now, until |-> NotBanned]
    ELSE OneMore(rec)

----------------------------------------------------------------------------
(* from_request_parts.                                                     *)

\* An address that is not locked out goes on to its credentials.
Arrive(q, a, good) ==
    /\ client[q] = "none"
    /\ ~LockedOut(AfterLook(failures[a]))
    /\ failures' = [failures EXCEPT ![a] = AfterLook(@)]
    /\ client' = [client EXCEPT ![q] = a]
    /\ valid' = [valid EXCEPT ![q] = good]
    /\ UNCHANGED <<now, dbUp, faults, history>>

Done(q) ==
    /\ client' = [client EXCEPT ![q] = "none"]
    /\ valid' = [valid EXCEPT ![q] = FALSE]

\* No or an unknown kind of Authorization header, an admin record without the
\* secret it needs, or no admin at all: refused, and nothing is recorded; as when the
\* client leaves while the admin is looked up.
Refuse(q) ==
    /\ client[q] # "none"
    /\ Done(q)
    /\ UNCHANGED <<now, dbUp, failures, faults, history>>

\* Wrong credentials, or any at all while the database does not answer.
Fail(q) ==
    /\ client[q] # "none"
    /\ ~valid[q] \/ ~dbUp
    /\ LET a == client[q]
           rec == failures[a]
           next == AfterFailure(rec)
       IN  /\ log[a][now] < MaxPerTick
           /\ failures' = [failures EXCEPT ![a] = next]
           /\ guesses' = [guesses EXCEPT ![a] = IF StartsFresh(rec) THEN 1 ELSE @ + 1]
           /\ banEnd' = IF Banned(next) THEN [banEnd EXCEPT ![a] = next.until] ELSE banEnd
           /\ loophole' = IF Banned(next) THEN loophole \ {a}
                          ELSE IF BanInForce(rec) THEN loophole \cup {a} ELSE loophole
           /\ log' = [log EXCEPT ![a][now] = @ + 1]
    /\ Done(q)
    /\ UNCHANGED <<now, dbUp, faults>>

\* clear_failures
Succeed(q) ==
    /\ client[q] # "none"
    /\ valid[q] /\ dbUp
    /\ LET a == client[q]
       IN  /\ failures' = [failures EXCEPT ![a] = NoRecord]
           /\ guesses' = [guesses EXCEPT ![a] = 0]
           /\ loophole' = IF BanInForce(failures[a]) THEN loophole \cup {a} ELSE loophole
           /\ log' = [log EXCEPT ![a] = [t \in Times |-> 0]]
    /\ Done(q)
    /\ UNCHANGED <<now, dbUp, faults, banEnd>>

----------------------------------------------------------------------------
(* The environment.                                                        *)

Tick ==
    /\ now < MaxTime
    /\ now' = now + 1
    /\ UNCHANGED <<dbUp, failures, client, valid, faults, history>>

LoseConnection ==
    /\ faults < MaxFaults
    /\ faults' = faults + 1
    /\ dbUp
    /\ dbUp' = FALSE
    /\ UNCHANGED <<now, failures, client, valid, history>>

Restart ==
    /\ faults < MaxFaults
    /\ faults' = faults + 1
    /\ dbUp' = TRUE
    /\ failures' = [a \in IPs |-> NoRecord]
    /\ client' = [q \in Requests |-> "none"]
    /\ valid' = [q \in Requests |-> FALSE]
    /\ guesses' = [a \in IPs |-> 0]
    /\ banEnd' = [a \in IPs |-> 0]
    /\ loophole' = {}
    /\ log' = [a \in IPs |-> [t \in Times |-> 0]]
    /\ UNCHANGED now

Next ==
    \/ \E q \in Requests :
          \/ \E a \in IPs, good \in BOOLEAN : Arrive(q, a, good)
          \/ Refuse(q) \/ Fail(q) \/ Succeed(q)
    \/ Tick \/ LoseConnection \/ Restart

Spec == Init /\ [][Next]_vars

----------------------------------------------------------------------------
(* Properties.                                                             *)

\* The state has its type; a record counts up to MAX_FAILURES, and is at that
\* count exactly when it carries a ban.
TypeOK ==
    /\ now \in Times
    /\ dbUp \in BOOLEAN
    /\ failures \in [IPs -> [count : 0..MAX_FAILURES, first : Times,
                             until : {NotBanned} \cup 1..(MaxTime + BAN_DURATION)]]
    /\ \A a \in IPs : failures[a].count = MAX_FAILURES <=> Banned(failures[a])
    /\ client \in [Requests -> IPs \cup {"none"}]
    /\ valid \in [Requests -> BOOLEAN]
    /\ faults \in 0..MaxFaults
    /\ guesses \in [IPs -> Nat]
    /\ banEnd \in [IPs -> 0..(MaxTime + BAN_DURATION)]
    /\ loophole \subseteq IPs
    /\ log \in [IPs -> [Times -> 0..MaxPerTick]]

\* An address cannot guess on by sending its requests at once: the check and the
\* count are apart, but only those under way when the last permitted failure is
\* counted come on top of MAX_FAILURES.
GuessesBounded ==
    \A a \in IPs : guesses[a] <= MAX_FAILURES + Cardinality(Requests) - 1

\* A ban lasts BAN_DURATION from its last failure. Only a request that was under
\* way when the ban began ends it early: by logging in, or by failing after the
\* window of the first failure, which starts the record afresh.
BanHonoured ==
    [][\A q \in Requests, a \in IPs :
          client[q] = "none" /\ client'[q] = a => now >= banEnd[a] \/ a \in loophole]_vars

\* The failures in log[a] within WINDOW of its record's first, each by its tick and
\* its number in the tick.
InWindow(a) ==
    LET first == failures[a].first
    IN  {f \in Times \X (1..MaxPerTick) :
           f[2] <= log[a][f[1]] /\ first <= f[1] /\ f[1] <= first + WINDOW}

\* No address is locked out for less than MAX_FAILURES failures since it last
\* logged in, all within WINDOW of the first of them.
NoUnearnedBan ==
    \A a \in IPs : BanInForce(failures[a]) => Cardinality(InWindow(a)) >= MAX_FAILURES
=============================================================================
