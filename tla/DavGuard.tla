------------------------------ MODULE DavGuard ------------------------------
(***************************************************************************)
(* The failure limit that WebDAV, CalDAV, CardDAV and the JMAP login share *)
(* (dav_auth in src/web/routes/webdav.rs), with the four handlers that use *)
(* it.  A handler asks is_locked, looks the account up and compares the    *)
(* password with no lock held, and then records the outcome; attempts at   *)
(* one key overlap.  The table is bounded and in memory.                   *)
(*                                                                         *)
(* Unlike the admin login's (LoginGuard) this table evicts.  A key is the  *)
(* address as the client spells it; time is counted in ticks.              *)
(***************************************************************************)
EXTENDS Integers, FiniteSets

CONSTANTS
    Keys,
    Attempts,       \* password checks under way at once
    MAX_FAILURES,
    WINDOW,
    BAN_DURATION,
    MAX_ENTRIES,
    MaxTime         \* bound: the clock stops here

NoKey == "none"

ASSUME DavGuardAssumption ==
    /\ IsFiniteSet(Keys) /\ NoKey \notin Keys
    /\ MAX_FAILURES \in Nat \ {0} /\ MAX_ENTRIES \in Nat \ {0}
    /\ WINDOW \in Nat /\ BAN_DURATION \in Nat \ {0} /\ MaxTime \in Nat

NotBanned == -1
NoRecord == [count |-> 0, first |-> 0, until |-> NotBanned]
Free == [key |-> NoKey, lenient |-> FALSE]

VARIABLES
    time,
    failures,   \* FAILURES, NoRecord for an absent key
    attempt,    \* attempt[q]: the key whose password q is comparing, and whether its
                \* handler refuses an inactive account without recording a failure
    \* History, read by properties alone:
    banEnd,     \* the end of the latest ban of a key
    freed       \* keys whose ban an attempt under way or an eviction ended

gvars == <<time, failures, attempt, banEnd, freed>>

GInit ==
    /\ time = 0
    /\ failures = [k \in Keys |-> NoRecord]
    /\ attempt = [q \in Attempts |-> Free]
    /\ banEnd = [k \in Keys |-> 0]
    /\ freed = {}

Present == {k \in Keys : failures[k] # NoRecord}
OutOfWindow(rec) == time - rec.first > WINDOW

----------------------------------------------------------------------------
(* The three functions of dav_auth, each under its mutex.                  *)

\* is_locked removes a record whose ban, or else whose window, is over.
BugWindowFirst(rec) == rec # NoRecord /\ OutOfWindow(rec)
IsOver(rec) ==
    /\ rec # NoRecord
    /\ IF rec.until # NotBanned THEN time >= rec.until ELSE OutOfWindow(rec)

Looked(rec) == IF IsOver(rec) THEN NoRecord ELSE rec
is_locked(rec) ==
    ~IsOver(rec) /\ (rec.until # NotBanned \/ rec.count >= MAX_FAILURES)

\* What makes room for a new key: expired records, else the oldest.
Expired(rec) == (rec.until # NotBanned /\ rec.until <= time) \/ OutOfWindow(rec)
Oldest(ks) == {k \in ks : \A j \in ks : failures[k].first <= failures[j].first}

Evictions(k) ==
    IF Cardinality(Present) < MAX_ENTRIES THEN {{}}
    ELSE LET stale == {j \in Present : Expired(failures[j])}
         IN IF Cardinality(Present \ stale) < MAX_ENTRIES THEN {stale}
            ELSE {stale \cup {j} : j \in Oldest(Present \ stale)}

Fresh == [count |-> 1, first |-> time, until |-> NotBanned]

Counted(rec) ==
    IF OutOfWindow(rec) THEN Fresh
    ELSE IF rec.count >= MAX_FAILURES THEN [rec EXCEPT !.until = time + BAN_DURATION]
    ELSE [rec EXCEPT !.count = @ + 1,
                     !.until = IF rec.count + 1 >= MAX_FAILURES
                                 THEN time + BAN_DURATION ELSE @]

InForce(k) == time < banEnd[k]

record_failure(k) ==
    IF k \in Present
      THEN LET new == Counted(failures[k]) IN
           /\ failures' = [failures EXCEPT ![k] = new]
           /\ banEnd' = [banEnd EXCEPT ![k] = IF new.until # NotBanned THEN new.until ELSE @]
           /\ freed' = IF new.until = NotBanned /\ InForce(k) THEN freed \cup {k}
                       ELSE IF new.until # NotBanned THEN freed \ {k} ELSE freed
      ELSE \E gone \in Evictions(k) :
           /\ failures' = [j \in Keys |-> IF j = k THEN Fresh
                                          ELSE IF j \in gone THEN NoRecord ELSE failures[j]]
           /\ freed' = freed \cup {j \in gone : InForce(j)}
           /\ UNCHANGED banEnd

clear(k) ==
    /\ failures' = [failures EXCEPT ![k] = NoRecord]
    /\ freed' = IF InForce(k) THEN freed \cup {k} ELSE freed
    /\ UNCHANGED banEnd

----------------------------------------------------------------------------
(* The handlers.                                                           *)

Ask(q, k, lenient) ==
    /\ attempt[q] = Free
    /\ ~is_locked(failures[k])
    /\ failures' = [failures EXCEPT ![k] = Looked(@)]
    /\ attempt' = [attempt EXCEPT ![q] = [key |-> k, lenient |-> lenient]]
    /\ UNCHANGED <<time, banEnd, freed>>

require_webdav_auth(q, k) == Ask(q, k, FALSE)
authenticate_caldav_account(q, k) == Ask(q, k, TRUE)
authenticate_carddav_account(q, k) == Ask(q, k, TRUE)
auth_login(q, k) == Ask(q, k, FALSE)

Ended(q) == attempt' = [attempt EXCEPT ![q] = Free]

\* No such account, or a wrong password.
Fail(q) ==
    /\ attempt[q] # Free
    /\ record_failure(attempt[q].key)
    /\ Ended(q)
    /\ UNCHANGED time

Succeed(q) ==
    /\ attempt[q] # Free
    /\ clear(attempt[q].key)
    /\ Ended(q)
    /\ UNCHANGED time

\* CalDAV and CardDAV refuse an inactive account before they compare its password.  (An
\* attempt whose client leaves during the look-up just goes no further.)
RefuseInactive(q) ==
    /\ attempt[q].lenient
    /\ Ended(q)
    /\ UNCHANGED <<time, failures, banEnd, freed>>

GTick ==
    /\ time < MaxTime
    /\ time' = time + 1
    /\ UNCHANGED <<failures, attempt, banEnd, freed>>

GNext ==
    \/ \E q \in Attempts :
         \/ \E k \in Keys :
              \/ require_webdav_auth(q, k) \/ authenticate_caldav_account(q, k)
              \/ authenticate_carddav_account(q, k) \/ auth_login(q, k)
         \/ Fail(q) \/ Succeed(q) \/ RefuseInactive(q)
    \/ GTick

GSpec == GInit /\ [][GNext]_gvars

----------------------------------------------------------------------------
(* Properties.                                                             *)

GTypeOK ==
    /\ time \in 0..MaxTime
    /\ \A k \in Keys : /\ failures[k].count \in 0..MAX_FAILURES
                       /\ failures[k].first \in 0..time
                       /\ failures[k].until \in NotBanned..(MaxTime + BAN_DURATION)
    /\ \A q \in Attempts : attempt[q].key \in Keys \cup {NoKey}
    /\ Cardinality(Present) <= MAX_ENTRIES
    /\ freed \subseteq Keys

\* A ban of a key lasts its BAN_DURATION for every protocol, whatever the window of
\* the record does meanwhile; it ends early only by an attempt that was let through
\* before the ban, or by the eviction of the key from a full table.
BanHolds == \A k \in Keys \ freed : InForce(k) => is_locked(failures[k])
=============================================================================
