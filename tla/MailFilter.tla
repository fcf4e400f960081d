----------------------------- MODULE MailFilter -----------------------------
(***************************************************************************)
(* The content filter (src/filter.rs, the "filter" arm of src/main.rs).    *)
(* Postfix pipes each queued message to a process of its own, which reads  *)
(* rules and lists from PostgreSQL and hands the message back to Postfix   *)
(* over SMTP.  Exit status 0 removes the message from the queue, 75        *)
(* (EX_TEMPFAIL) leaves it there for another attempt.                      *)
(*                                                                         *)
(* The processes of different messages run side by side and share only the *)
(* database; each of their queries is an action.  A process that loses its *)
(* connection goes on with the default of every later query.  What the     *)
(* filter writes into a message (footer, pixel, spam flag) and the Junk    *)
(* rewriting of its recipients are left out: no decision modelled here     *)
(* depends on them.                                                        *)
(***************************************************************************)
EXTENDS Naturals, Sequences, FiniteSets

CONSTANTS
    Messages,
    Sender,         \* Sender[m]: the envelope sender, lower case
    Party,          \* Party[m]: <<primary recipient, sender domain>> of m
    Promotional,    \* messages whose sender domain has unsubscribe enabled
    Unsafe,         \* messages whose envelope is_safe_smtp_addr refuses
    Rules,          \* the enabled rate-limit rules
    Limit,          \* Limit[r]: max_messages of rule r
    Matching,       \* Matching[m]: the rules that match m, in their order
    MaxFaults       \* bound: failed sessions, killed processes, outages, deletions

ASSUME MailFilterAssumption ==
    /\ Promotional \subseteq Messages
    /\ Unsafe \subseteq Messages
    /\ Limit \in [Rules -> Nat \ {0}]
    /\ Matching \in [Messages -> Seq(Rules)]
    /\ DOMAIN Sender = Messages
    /\ DOMAIN Party = Messages
    /\ MaxFaults \in Nat

Senders == {Sender[m] : m \in Messages}
Parties == {Party[m] : m \in Messages}
Steps == {"idle", "open", "toggle", "limit", "domain", "unsub", "token", "send",
          "resend", "exiting"}

VARIABLES
    queue,      \* queue[m]: "queued", exit status 0 seen "gone", or "deleted" by
                \* the admin; a message that arrives later is one whose first
                \* attempt starts later
    \* The database.
    dbUp,       \* PostgreSQL is reachable
    filterOn,   \* setting feature_filter_enabled
    counts,     \* rate_limit_counts of the current window, per rule and sender
    unsubscribed, \* unsubscribe_list
    \* The process that filters m: its next step, whether its connection is
    \* alive, RATE_LIMIT_SEEN, the rules still to check, and the rest of its
    \* locals.
    pc, conn, seen, rules, suppressed, token,
    \* What the reinjection port accepted: copies of m, and messages of which
    \* a copy carries a List-Unsubscribe link that works.
    copies, linked,
    faults,
    \* History, read by properties alone:
    unreported, \* copies of m accepted in a session the filter saw fail, or
                \* by a process killed before its exit status reached Postfix
    optedOut,   \* Party[m] was unsubscribed at some time of m's attempt
    steady,     \* ... and throughout, the filter on and the database up
    started,    \* messages each rule counted in its current window
    passed      \* ... and those it let through

database == <<dbUp, filterOn, counts, unsubscribed>>
locals == <<conn, seen, rules, suppressed, token>>
outcome == <<copies, linked, unreported>>
optouts == <<optedOut, steady>>
window == <<started, passed>>
vars == <<queue, database, pc, locals, outcome, faults, optouts, window>>

Init ==
    /\ queue = [m \in Messages |-> "queued"]
    /\ dbUp = TRUE
    /\ filterOn = TRUE
    /\ counts = [k \in Rules \X Senders |-> 0]
    /\ unsubscribed = {}
    /\ pc = [m \in Messages |-> "idle"]
    /\ conn = [m \in Messages |-> FALSE]
    /\ seen = [m \in Messages |-> {}]
    /\ rules = [m \in Messages |-> <<>>]
    /\ suppressed = [m \in Messages |-> FALSE]
    /\ token = [m \in Messages |-> FALSE]
    /\ copies = [m \in Messages |-> 0]
    /\ linked = {}
    /\ faults = 0
    /\ unreported = [m \in Messages |-> 0]
    /\ optedOut = [m \in Messages |-> FALSE]
    /\ steady = [m \in Messages |-> FALSE]
    /\ started = [k \in Rules \X Senders |-> {}]
    /\ passed = [k \in Rules \X Senders |-> {}]

----------------------------------------------------------------------------
(* Postfix.                                                                *)

\* A new process: nothing is remembered of the attempts before it.
Start(m) ==
    /\ queue[m] = "queued"
    /\ pc[m] = "idle"
    /\ pc' = [pc EXCEPT ![m] = "open"]
    /\ seen' = [seen EXCEPT ![m] = {}]
    /\ optedOut' = [optedOut EXCEPT ![m] = Party[m] \in unsubscribed]
    /\ steady' = [steady EXCEPT ![m] = /\ Party[m] \in unsubscribed
                                       /\ m \in Promotional
                                       /\ dbUp /\ filterOn]
    /\ UNCHANGED <<queue, database, conn, rules, suppressed, token, outcome, faults,
                   window>>

\* The process ends: with status 0 the message leaves the queue.
Exit(m, status) ==
    /\ queue' = IF status = 0 /\ queue[m] = "queued" THEN [queue EXCEPT ![m] = "gone"]
                ELSE queue
    /\ pc' = [pc EXCEPT ![m] = "idle"]
    /\ conn' = [conn EXCEPT ![m] = FALSE]
    /\ seen' = [seen EXCEPT ![m] = {}]
    /\ rules' = [rules EXCEPT ![m] = <<>>]
    /\ suppressed' = [suppressed EXCEPT ![m] = FALSE]
    /\ token' = [token EXCEPT ![m] = FALSE]
    /\ steady' = [steady EXCEPT ![m] = FALSE]
    /\ UNCHANGED optedOut

EX_TEMPFAIL == 75

----------------------------------------------------------------------------
(* run_filter.                                                             *)

Step(m, from, to) == pc[m] = from /\ pc' = [pc EXCEPT ![m] = to]

\* An unreachable database bypasses every rule.
BugStallOnOutage == "open"
BugPanicOnOutage == "panicked"
OnOutage == "send"

OpenDb(m) ==
    /\ Step(m, "open", IF dbUp THEN "toggle" ELSE OnOutage)
    /\ conn' = [conn EXCEPT ![m] = dbUp]
    /\ UNCHANGED <<queue, database, seen, rules, suppressed, token, outcome, faults,
                   optouts, window>>

\* The switch, then the rules that apply unless the Message-ID was seen before.
ReadRules(m) ==
    /\ Step(m, "toggle", IF conn[m] /\ ~filterOn THEN "send" ELSE "limit")
    /\ IF pc'[m] = "limit"
         THEN /\ seen' = [seen EXCEPT ![m] = @ \cup {m}]
              /\ rules' = [rules EXCEPT ![m] =
                             IF conn[m] /\ m \notin seen[m] THEN Matching[m] ELSE <<>>]
         ELSE UNCHANGED <<seen, rules>>
    /\ UNCHANGED <<queue, database, conn, suppressed, token, outcome, faults, optouts,
                   window>>

\* The upsert adds one to the count of the rule's current window and returns it.
\* Counts beyond the limit are all alike.
Increment(k) == IF counts[k] > Limit[k[1]] THEN counts[k] ELSE counts[k] + 1

BugOneMore(count, max) == count > max + 1
Exceeds(count, max) == count > max

\* check_rate_limit, one rule. A failed upsert counts as 0.
CheckRule(m) ==
    /\ pc[m] = "limit"
    /\ rules[m] # <<>>
    /\ LET k == <<Head(rules[m]), Sender[m]>>
           over == conn[m] /\ Exceeds(Increment(k), Limit[k[1]])
       IN  /\ counts' = IF conn[m] THEN [counts EXCEPT ![k] = Increment(k)] ELSE counts
           /\ started' = IF conn[m] THEN [started EXCEPT ![k] = @ \cup {m}] ELSE started
           /\ passed' = IF conn[m] /\ ~over THEN [passed EXCEPT ![k] = @ \cup {m}]
                        ELSE passed
           /\ IF over
                THEN Exit(m, EX_TEMPFAIL)
                ELSE /\ rules' = [rules EXCEPT ![m] = Tail(@)]
                     /\ UNCHANGED <<queue, pc, conn, seen, suppressed, token, optouts>>
    /\ UNCHANGED <<dbUp, filterOn, unsubscribed, outcome, faults>>

\* is_unsubscribe_enabled_for_domain; FALSE when the query fails.
CheckDomain(m) ==
    /\ rules[m] = <<>>
    /\ Step(m, "limit", IF conn[m] /\ m \in Promotional THEN "unsub" ELSE "send")
    /\ UNCHANGED <<queue, database, locals, outcome, faults, optouts, window>>

BugCaseSensitive(m) == FALSE
\* FALSE when the query fails.
is_unsubscribed(m) == conn[m] /\ Party[m] \in unsubscribed

\* The first recipient decides for the whole message.
CheckUnsubscribed(m) ==
    /\ Step(m, "unsub", IF is_unsubscribed(m) THEN "send" ELSE "token")
    /\ suppressed' = [suppressed EXCEPT ![m] = is_unsubscribed(m)]
    /\ UNCHANGED <<queue, database, conn, seen, rules, token, outcome, faults, optouts,
                   window>>

\* The link goes into the message whether or not its row could be inserted.
CreateToken(m) ==
    /\ Step(m, "token", "send")
    /\ token' = [token EXCEPT ![m] = conn[m]]
    /\ UNCHANGED <<queue, database, conn, seen, rules, suppressed, outcome, faults,
                   optouts, window>>

\* A suppressed message is dropped.
Drop(m) ==
    /\ pc[m] = "send"
    /\ suppressed[m]
    /\ Exit(m, 0)
    /\ UNCHANGED <<database, outcome, faults, window>>

Fault == faults < MaxFaults /\ faults' = faults + 1

\* One SMTP session of reinject_smtp. An unsafe envelope opens none. Otherwise
\* the listener may fail before or after it has accepted the message, and the
\* filter sees an error or a timeout.
Session(m, accepted, reply) ==
    /\ IF m \in Unsafe
         THEN ~accepted /\ reply = "error" /\ UNCHANGED faults
         ELSE IF reply = "ok" THEN accepted /\ UNCHANGED faults ELSE Fault
    /\ copies' = [copies EXCEPT ![m] = IF accepted THEN @ + 1 ELSE @]
    /\ unreported' = [unreported EXCEPT ![m] = IF accepted /\ reply # "ok" THEN @ + 1 ELSE @]

BugNoReturn(reply) == reply # "timeout"
\* After an error, but not a timeout, the unmodified message is tried.
TriesUnmodified(reply) == reply = "error"

BugDropOnTimeout(reply) == IF reply = "timeout" THEN 0 ELSE EX_TEMPFAIL
FailureStatus(reply) == EX_TEMPFAIL

\* An acknowledged session takes the process to its return from run_filter, and
\* only its exit status takes the message off the queue.
AfterSession(m, reply) ==
    IF reply = "ok"
      THEN /\ pc' = [pc EXCEPT ![m] = "exiting"]
           /\ UNCHANGED <<queue, locals, optouts>>
      ELSE Exit(m, FailureStatus(reply))

Reinject(m, accepted, reply) ==
    /\ pc[m] = "send"
    /\ ~suppressed[m]
    /\ Session(m, accepted, reply)
    /\ linked' = IF accepted /\ token[m] THEN linked \cup {m} ELSE linked
    /\ IF TriesUnmodified(reply)
         THEN Step(m, "send", "resend") /\ UNCHANGED <<queue, locals, optouts>>
         ELSE AfterSession(m, reply)
    /\ UNCHANGED <<database, window>>

ReinjectUnmodified(m, accepted, reply) ==
    /\ pc[m] = "resend"
    /\ Session(m, accepted, reply)
    /\ AfterSession(m, reply)
    /\ UNCHANGED <<database, linked, window>>

\* run_filter returned, main returns, and Postfix sees status 0.
Return(m) ==
    /\ pc[m] = "exiting"
    /\ Exit(m, 0)
    /\ UNCHANGED <<database, outcome, faults, window>>

----------------------------------------------------------------------------
(* The environment.                                                        *)

\* The container stops, or Postfix gives up on the process. A message already
\* handed over stays in the queue all the same.
Kill(m) ==
    /\ pc[m] # "idle"
    /\ Fault
    /\ unreported' = [unreported EXCEPT ![m] = IF pc[m] = "exiting" THEN @ + 1 ELSE @]
    /\ Exit(m, EX_TEMPFAIL)
    /\ UNCHANGED <<database, copies, linked, window>>

\* src/web/routes/queue.rs: postsuper removes the queue files. A process that
\* filters such a message goes on, and may still deliver it.
Discard(S) ==
    /\ Fault
    /\ queue' = [m \in Messages |-> IF m \in S THEN "deleted" ELSE queue[m]]
    /\ UNCHANGED <<database, pc, locals, outcome, optouts, window>>

delete_message(m) == queue[m] = "queued" /\ Discard({m})
purge == \E S \in SUBSET {m \in Messages : queue[m] = "queued"} : S # {} /\ Discard(S)

\* Every open connection dies with the database.
LoseDb ==
    /\ dbUp
    /\ Fault
    /\ dbUp' = FALSE
    /\ conn' = [m \in Messages |-> FALSE]
    /\ steady' = [m \in Messages |-> FALSE]
    /\ UNCHANGED <<queue, filterOn, counts, unsubscribed, pc, seen, rules, suppressed,
                   token, outcome, optedOut, window>>

RestoreDb ==
    /\ ~dbUp
    /\ dbUp' = TRUE
    /\ UNCHANGED <<queue, filterOn, counts, unsubscribed, pc, locals, outcome, faults,
                   optouts, window>>

\* now / window_seconds changes: rule r counts from 0 in a new bucket.
NewWindow(r) ==
    /\ \E s \in Senders : counts[<<r, s>>] > 0
    /\ counts' = [k \in DOMAIN counts |-> IF k[1] = r THEN 0 ELSE counts[k]]
    /\ started' = [k \in DOMAIN started |-> IF k[1] = r THEN {} ELSE started[k]]
    /\ passed' = [k \in DOMAIN passed |-> IF k[1] = r THEN {} ELSE passed[k]]
    /\ UNCHANGED <<queue, dbUp, filterOn, unsubscribed, pc, locals, outcome, faults,
                   optouts>>

\* unsubscribe_one_click, with the token of a delivered copy of m.
Unsubscribe(m) ==
    /\ dbUp
    /\ m \in linked
    /\ unsubscribed' = unsubscribed \cup {Party[m]}
    /\ optedOut' = [n \in Messages |->
                    optedOut[n] \/ (queue[n] # "gone" /\ Party[n] = Party[m])]
    /\ UNCHANGED <<queue, dbUp, filterOn, counts, pc, locals, outcome, faults, steady,
                   window>>

\* An admin deletes the entry.
DeleteUnsubscribe(p) ==
    /\ dbUp
    /\ p \in unsubscribed
    /\ unsubscribed' = unsubscribed \ {p}
    /\ steady' = [m \in Messages |-> steady[m] /\ Party[m] # p]
    /\ UNCHANGED <<queue, dbUp, filterOn, counts, pc, locals, outcome, faults, optedOut,
                   window>>

SetFilter(on) ==
    /\ dbUp
    /\ filterOn # on
    /\ filterOn' = on
    /\ steady' = [m \in Messages |-> steady[m] /\ on]
    /\ UNCHANGED <<queue, dbUp, counts, unsubscribed, pc, locals, outcome, faults,
                   optedOut, window>>

----------------------------------------------------------------------------
Filter(m) ==
    \/ Start(m) \/ OpenDb(m) \/ ReadRules(m) \/ CheckRule(m) \/ CheckDomain(m)
    \/ CheckUnsubscribed(m) \/ CreateToken(m) \/ Drop(m) \/ Return(m)
    \/ \E accepted \in BOOLEAN, reply \in {"ok", "error", "timeout"} :
          \/ Reinject(m, accepted, reply)
          \/ ReinjectUnmodified(m, accepted, reply)

Environment ==
    \/ \E m \in Messages : Kill(m) \/ Unsubscribe(m) \/ delete_message(m)
    \/ purge
    \/ LoseDb \/ RestoreDb
    \/ \E r \in Rules : NewWindow(r)
    \/ \E p \in Parties : DeleteUnsubscribe(p)
    \/ \E on \in BOOLEAN : SetFilter(on)

Next == Environment \/ \E m \in Messages : Filter(m)

\* Postfix retries what is queued, a started process runs to its end, and time
\* passes.  Nothing makes the database come back or the admin act.
Fairness ==
    /\ \A m \in Messages : WF_vars(Filter(m))
    /\ \A r \in Rules : WF_vars(NewWindow(r))

Spec == Init /\ [][Next]_vars /\ Fairness

----------------------------------------------------------------------------
(* Properties.                                                             *)

\* The state has its type.
TypeOK ==
    /\ queue \in [Messages -> {"queued", "gone", "deleted"}]
    /\ dbUp \in BOOLEAN /\ filterOn \in BOOLEAN
    /\ DOMAIN counts = Rules \X Senders
    /\ \A k \in Rules \X Senders : counts[k] \in 0..(Limit[k[1]] + 1)
    /\ unsubscribed \subseteq Parties
    /\ pc \in [Messages -> Steps]
    /\ \A m \in Messages : pc[m] # "idle" => queue[m] # "gone"
    /\ conn \in [Messages -> BOOLEAN]
    /\ seen \in [Messages -> SUBSET Messages]
    /\ rules \in [Messages -> Seq(Rules)]
    /\ suppressed \in [Messages -> BOOLEAN]
    /\ token \in [Messages -> BOOLEAN]
    /\ copies \in [Messages -> Nat]
    /\ linked \subseteq Messages
    /\ faults \in 0..MaxFaults
    /\ unreported \in [Messages -> Nat]
    /\ optedOut \in [Messages -> BOOLEAN]
    /\ steady \in [Messages -> BOOLEAN]
    /\ started \in [Rules \X Senders -> SUBSET Messages]
    /\ passed \in [Rules \X Senders -> SUBSET Messages]

\* The filter never loses a message silently: whatever fails, and whenever, a
\* message that left the queue was accepted by the reinjection port, unless its
\* first recipient had unsubscribed.
NoSilentLoss ==
    \A m \in Messages : queue[m] = "gone" => copies[m] > 0 \/ optedOut[m]

\* A message is delivered twice only for want of an answer: every copy but one
\* was accepted in a session whose last replies the filter did not get, or by a
\* process killed between that session and its exit.
DuplicatesExplained ==
    \A m \in Messages : copies[m] <= 1 + unreported[m]

\* The messages of a sender that a rule lets through in one window never exceed
\* its limit, however many processes count at once.
RateLimitHolds ==
    \A k \in Rules \X Senders : Cardinality(passed[k]) <= Limit[k[1]]

\* Once the first recipient of a promotional message has unsubscribed, no later
\* attempt delivers it, while the database answers and the filter is on.
UnsubscribeHonoured ==
    [][\A m \in Messages : steady[m] => copies'[m] = copies[m]]_vars

\* Every message with a usable envelope leaves the queue in the end, whether the
\* database is up, lost for good or lost and restored, and although each retry
\* counts against its sender's limits.
EventuallySettled ==
    \A m \in Messages \ Unsafe : (queue[m] = "queued") ~> (queue[m] # "queued")

\* src/filter.rs:115 says "Count each message once in the DB window — a retry must
\* not re-increment (that would inflate the count and block unrelated mail from
\* the same sender)": a count never exceeds the number of messages counted.
RetryNotCounted ==
    \A k \in Rules \X Senders : counts[k] <= Cardinality(started[k])
=============================================================================
