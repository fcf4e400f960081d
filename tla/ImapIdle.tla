------------------------------ MODULE ImapIdle ------------------------------
(***************************************************************************)
(* The browser's streams of new-mail counts (idle_stream in                *)
(* src/web/routes/webmail.rs) and the registry through which an            *)
(* administrator sees and ends them (src/web/routes/imap_idle.rs).  Each   *)
(* stream has a task that counts the files of new/ every 5 seconds, and    *)
(* learns that its client has left only when it has something to send.     *)
(***************************************************************************)
EXTENDS Naturals, FiniteSets

CONSTANTS
    Streams,
    MAX_IDLE_SESSIONS,
    MaxNew             \* bound on the files in new/

ASSUME ImapIdleAssumption ==
    IsFiniteSet(Streams) /\ MAX_IDLE_SESSIONS \in Nat /\ MaxNew \in Nat

Unknown == MaxNew + 1  \* no count sent yet

VARIABLES
    newMails,          \* files in new/
    stream,            \* stream[s]: the task's step, its flag, what it counted and sent
    registry,          \* streams listed
    \* History, read by properties alone:
    overlapped         \* two requests were between the check and the insertion

idlevars == <<newMails, stream, registry, overlapped>>

NoStream == [pc |-> "idle", shutdown |-> FALSE, client |-> TRUE, count |-> 0, last |-> Unknown]

IdleInit ==
    /\ newMails = 0
    /\ stream = [s \in Streams |-> NoStream]
    /\ registry = {}
    /\ overlapped = FALSE

In(s, pc) == stream[s].pc = pc
Moves(s, pc) == stream' = [stream EXCEPT ![s].pc = pc]

----------------------------------------------------------------------------

BugRoom == Cardinality(registry) <= MAX_IDLE_SESSIONS
Room == Cardinality(registry) < MAX_IDLE_SESSIONS

\* The registry is locked to look at its size, and again to insert.
idle_stream(s) ==
    /\ In(s, "idle")
    /\ Moves(s, IF Room THEN "admitted" ELSE "ended")
    /\ overlapped' = (overlapped \/ (Room /\ \E t \in Streams : In(t, "admitted")))
    /\ UNCHANGED <<newMails, registry>>

Register(s) ==
    /\ In(s, "admitted")
    /\ Moves(s, "polling")
    /\ registry' = registry \cup {s}
    /\ UNCHANGED <<newMails, overlapped>>

Poll(s) ==
    /\ In(s, "polling")
    /\ stream' = [stream EXCEPT ![s] =
         IF @.shutdown THEN [@ EXCEPT !.pc = "closing"]
         ELSE [@ EXCEPT !.pc = "counted", !.count = newMails]]
    /\ UNCHANGED <<newMails, registry, overlapped>>

\* Only a count that changed is sent, and fails when nobody listens.
Report(s) ==
    /\ In(s, "counted")
    /\ LET changed == stream[s].count # stream[s].last IN
       stream' = [stream EXCEPT ![s].pc = IF changed /\ ~stream[s].client THEN "closing" ELSE "polling",
                                ![s].count = 0, ![s].last = stream[s].count]
    /\ UNCHANGED <<newMails, registry, overlapped>>

Deregister(s) ==
    /\ In(s, "closing")
    /\ stream' = [stream EXCEPT ![s] = [NoStream EXCEPT !.pc = "ended"]]
    /\ registry' = registry \ {s}
    /\ UNCHANGED <<newMails, overlapped>>

----------------------------------------------------------------------------

\* The sessions told to stop are taken from the registry under the same lock.
Stops(S) ==
    /\ stream' = [s \in Streams |-> IF s \in S THEN [stream[s] EXCEPT !.shutdown = TRUE] ELSE stream[s]]
    /\ registry' = registry \ S
    /\ UNCHANGED <<newMails, overlapped>>
disconnect(s) == s \in registry /\ Stops({s})
disconnect_all == registry # {} /\ Stops(registry)

Leave(s) ==
    /\ stream[s].pc \in {"polling", "counted"}
    /\ stream[s].client
    /\ stream' = [stream EXCEPT ![s].client = FALSE]
    /\ UNCHANGED <<newMails, registry, overlapped>>

MailboxChanges ==
    /\ newMails' \in 0..MaxNew
    /\ UNCHANGED <<stream, registry, overlapped>>

IdleNext ==
    \/ \E s \in Streams :
         \/ idle_stream(s) \/ Register(s) \/ Poll(s) \/ Report(s) \/ Deregister(s)
         \/ disconnect(s) \/ Leave(s)
    \/ disconnect_all
    \/ MailboxChanges

----------------------------------------------------------------------------
(* Properties.                                                             *)

IdleTypeOK ==
    /\ newMails \in 0..MaxNew
    /\ registry \subseteq Streams
    /\ \A s \in Streams :
         /\ stream[s].pc \in {"idle", "admitted", "polling", "counted", "closing", "ended"}
         /\ stream[s].count \in 0..MaxNew /\ stream[s].last \in 0..Unknown

\* The registry lists exactly the streams that run and were not told to stop, and no
\* more than MAX_IDLE_SESSIONS of them unless two requests passed the check together: a
\* disconnect, a task that ends and a new request never leave a stream that polls
\* unseen, or one that is listed and gone (idle_stream, disconnect, disconnect_all).
SessionsWithinCap ==
    /\ registry = {s \in Streams : /\ stream[s].pc \in {"polling", "counted", "closing"}
                                   /\ ~stream[s].shutdown}
    /\ overlapped \/ Cardinality(registry) <= MAX_IDLE_SESSIONS
=============================================================================
