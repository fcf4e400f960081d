-------------------------------- MODULE Jmap --------------------------------
(***************************************************************************)
(* JMAP (src/web/routes/jmap): the state string and the snapshot that      *)
(* Mailbox/getChanges and Email/getChanges share, for one account.  Each   *)
(* of the two scans the Maildir, reads the row of jmap_state, and, when    *)
(* the client's state is another, reports the difference to the snapshot   *)
(* and writes a new state; these are separate calls, and method calls of   *)
(* several requests interleave with each other and with mail delivery.     *)
(*                                                                         *)
(* The answers and the methods that only read the Maildir are left out.    *)
(***************************************************************************)
EXTENDS Naturals, FiniteSets

CONSTANTS
    Calls,       \* method calls
    Messages,    \* e-mail ids
    Folders,     \* subfolders of the Maildir, by name
    MaxState,    \* bound: states issued
    MaxMoves     \* bound: deliveries, deletions and folders made

Inbox == "mailbox:inbox"

ASSUME JmapAssumption == MaxState \in Nat \ {0} /\ Inbox \notin Folders

VARIABLES
    token,       \* the client's bearer token is valid
    mail,        \* mail[f]: messages of a folder, {} while it does not exist
    folders,     \* subfolders that exist
    row,         \* the row of jmap_state; [state |-> 1, snapshot |-> {}] while absent
    up,          \* FALSE once the database connection is lost
    call,        \* call[c]: a method call's step and what it has read
    moves,
    \* History, read by properties alone:
    issued,      \* issued[n]: the snapshots some answer named n
    muddled      \* states two overlapping calls have issued, or a lost row restarted

jvars == <<token, mail, folders, row, up, call, moves, issued, muddled>>

NoCall == [pc |-> "idle", since |-> 0, seen |-> {}, state |-> 0]
FirstRow == [state |-> 1, snapshot |-> {}]

JInit ==
    /\ token = FALSE
    /\ mail = [f \in Folders \cup {Inbox} |-> {}]
    /\ folders = {}
    /\ row = FirstRow
    /\ up = TRUE
    /\ call = [c \in Calls |-> NoCall]
    /\ moves = 0
    /\ issued = [n \in 1..MaxState |-> {}]
    /\ muddled = {}

----------------------------------------------------------------------------
(* Tokens.                                                                 *)

\* auth_login issues one to an active account; every request looks it up again, with
\* its expiry and the activity of the account and the domain.
create_jmap_token ==
    /\ up
    /\ ~token
    /\ token' = TRUE
    /\ UNCHANGED <<mail, folders, row, up, call, moves, issued, muddled>>

verify_jmap_token == up /\ token

\* Thirty days pass, or the account is made inactive.
TokenLapses ==
    /\ token
    /\ token' = FALSE
    /\ UNCHANGED <<mail, folders, row, up, call, moves, issued, muddled>>

----------------------------------------------------------------------------
(* The Maildir as the methods see it.                                      *)

\* Mailbox/get, Email/get, Email/getChanges and Thread/get take the id of a folder
\* from its directory name, whose dot mailbox_dir then writes a second time: of the
\* folders they read, only the inbox exists.
mailbox_id_from_dir(f) == [name |-> f, dot |-> f # Inbox]
mailbox_dir(id) == IF id.dot THEN {} ELSE {id.name}
FilesOf(f) == UNION {mail[d] : d \in mailbox_dir(mailbox_id_from_dir(f))}
scan_maildir_folders == folders \cup {Inbox}
EmailIds == UNION {FilesOf(f) : f \in scan_maildir_folders}

\* Mailbox/getChanges takes the id from the display name.
MailboxIds == scan_maildir_folders

----------------------------------------------------------------------------
(* getChanges.                                                             *)

Scan(c, since, ids) ==
    /\ call[c].pc = "idle"
    /\ verify_jmap_token
    /\ call' = [call EXCEPT ![c] =
                  [NoCall EXCEPT !.pc = "scanned", !.since = since, !.seen = ids]]
    /\ UNCHANGED <<token, mail, folders, row, up, moves, issued, muddled>>

mailbox_get_changes(c, since) == Scan(c, since, MailboxIds)
email_get_changes(c, since) == Scan(c, since, EmailIds)

get_jmap_state == IF up THEN row ELSE FirstRow

\* A client whose state is the current one is told that nothing has changed,
\* whatever the scan has found.
ReadState(c) ==
    /\ call[c].pc = "scanned"
    /\ call' = [call EXCEPT
         ![c] = IF @.since = get_jmap_state.state THEN [NoCall EXCEPT !.pc = "done"]
                ELSE [@ EXCEPT !.pc = "diffed", !.state = get_jmap_state.state]]
    /\ UNCHANGED <<token, mail, folders, row, up, moves, issued, muddled>>

BugSameState(c) == call[c].state
NewState(c) == call[c].state + 1

\* States a client may hold: none, the first, and those it was given.
Held == {0, 1} \cup {n \in 1..MaxState : issued[n] # {}}

\* Calls that have read the state c has read, and will issue its successor too.
Rivals(c) == {d \in Calls \ {c} : call[d].pc = "diffed" /\ call[d].state = call[c].state}

\* The state and the ids scanned replace the row; the answer names the new state,
\* written or not.
update_jmap_state(c) ==
    /\ call[c].pc = "diffed"
    /\ NewState(c) <= MaxState
    /\ row' = IF up THEN [state |-> NewState(c), snapshot |-> call[c].seen] ELSE row
    /\ issued' = [issued EXCEPT ![NewState(c)] = @ \cup {call[c].seen}]
    /\ muddled' = muddled \cup
         (IF Rivals(c) # {} THEN call[c].state..MaxState ELSE {}) \cup
         (IF up THEN {} ELSE 1..MaxState)
    /\ call' = [call EXCEPT ![c] = [NoCall EXCEPT !.pc = "done"]]
    /\ UNCHANGED <<token, mail, folders, up, moves>>

----------------------------------------------------------------------------
(* Delivery, IMAP clients, faults.                                         *)

Deliver(m, f) ==
    /\ moves < MaxMoves
    /\ f \in folders \cup {Inbox}
    /\ \A g \in DOMAIN mail : m \notin mail[g]
    /\ mail' = [mail EXCEPT ![f] = @ \cup {m}]
    /\ moves' = moves + 1
    /\ UNCHANGED <<token, folders, row, up, call, issued, muddled>>

Expunge(m, f) ==
    /\ moves < MaxMoves
    /\ m \in mail[f]
    /\ mail' = [mail EXCEPT ![f] = @ \ {m}]
    /\ moves' = moves + 1
    /\ UNCHANGED <<token, folders, row, up, call, issued, muddled>>

MakeFolder(f) ==
    /\ moves < MaxMoves
    /\ f \notin folders
    /\ folders' = folders \cup {f}
    /\ moves' = moves + 1
    /\ UNCHANGED <<token, mail, row, up, call, issued, muddled>>

LoseDatabase ==
    /\ up
    /\ up' = FALSE
    /\ UNCHANGED <<token, mail, folders, row, call, moves, issued, muddled>>

JNext ==
    \/ create_jmap_token \/ TokenLapses
    \/ \E c \in Calls :
         \/ \E s \in Held : mailbox_get_changes(c, s) \/ email_get_changes(c, s)
         \/ ReadState(c) \/ update_jmap_state(c)
    \/ \E m \in Messages, f \in Folders \cup {Inbox} : Deliver(m, f) \/ Expunge(m, f)
    \/ \E f \in Folders : MakeFolder(f)
    \/ LoseDatabase

JSpec == JInit /\ [][JNext]_jvars

----------------------------------------------------------------------------
(* Properties.                                                             *)

Known == Messages \cup Folders \cup {Inbox}

JTypeOK ==
    /\ token \in BOOLEAN
    /\ mail \in [Folders \cup {Inbox} -> SUBSET Messages]
    /\ \A f \in Folders \ folders : mail[f] = {}
    /\ row \in [state : 1..MaxState, snapshot : SUBSET Known]
    /\ \A c \in Calls : /\ call[c].pc \in {"idle", "scanned", "diffed", "done"}
                        /\ call[c].seen \subseteq Known
    /\ muddled \subseteq 1..MaxState

\* A state string names one snapshot, and the row has the latest state issued: a
\* client that holds a state and a client that is given it afterwards were told of the
\* same ids. Calls that overlap from the same state on, and a lost connection, are
\* what can break it.
StateNamesOneSnapshot ==
    \A n \in (1..MaxState) \ muddled :
        /\ Cardinality(issued[n]) <= 1
        /\ issued[n] # {} => row.state >= n
=============================================================================
