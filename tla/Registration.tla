---------------------------- MODULE Registration ----------------------------
(***************************************************************************)
(* Self-registration with invite codes (src/web/routes/registration.rs),   *)
(* the admin handlers that create and delete accounts, codes and the       *)
(* domain, and the Database methods they call (src/db.rs).                 *)
(*                                                                         *)
(* A registration is four database calls, each made by a thread of its own *)
(* that takes the one connection's mutex; other requests run in between.   *)
(* The handler runs on its client's connection and ends with it.           *)
(* The checks of the form itself and the rendering of answers are left     *)
(* out, and so are the configuration files written after a change.         *)
(* The mutex is std's: a thread that locks it twice waits for itself.      *)
(* Names stand for addresses of one domain, already in lower case, as      *)
(* validate_username leaves them.                                          *)
(***************************************************************************)
EXTENDS Naturals, FiniteSets

CONSTANTS
    Registrants,   \* requests to POST /register
    Names,         \* account names
    Codes,         \* invite codes
    Backing,       \* accounts that back a DMARC, abuse or bounce inbox
    MaxFaults      \* bound: lost connections and restarts

ASSUME RegistrationAssumption ==
    /\ Backing \subseteq Names
    /\ MaxFaults \in Nat
    /\ Names \cap {"unmade", "free", "deleted", "none"} = {}

None == "none"
Nobody == "nobody"     \* holds the mutex when nobody does
Deleter == "deleter"   \* the thread that runs delete_account

VARIABLES
    dbUp,      \* FALSE once the connection is lost
    holder,    \* who holds the connection's mutex
    open,      \* the domain exists, is active and registration is enabled
    exists,    \* the domain exists
    accounts,  \* names in the accounts table
    codes,     \* codes[c]: "unmade", "free", the name that used it, "deleted"
    pc,        \* pc[r]: the registration's next call
    name, code, \* what r asks for
    deleting,  \* the name delete_account was called with
    faults,
    \* History, read by properties alone:
    bought,    \* bought[c]: accounts created with c
    taken,     \* registrants whose name another request took after their check
    excused,   \* codes lost to a race, a fault or the deletion of the domain
    abandoned  \* codes of requests whose client left after using them

request == <<pc, name, code>>
history == <<bought, taken, excused, abandoned>>
vars == <<dbUp, holder, open, exists, accounts, codes, request, deleting, faults, history>>

Init ==
    /\ dbUp = TRUE
    /\ holder = Nobody
    /\ open = TRUE
    /\ exists = TRUE
    /\ accounts = Backing
    /\ codes = [c \in Codes |-> "unmade"]
    /\ pc = [r \in Registrants |-> "new"]
    /\ name \in [Registrants -> Names]
    /\ code \in [Registrants -> Codes]
    /\ deleting = None
    /\ faults = 0
    /\ bought = [c \in Codes |-> 0]
    /\ taken = {}
    /\ excused = {}
    /\ abandoned = {}

----------------------------------------------------------------------------
(* The mutex: a call that keeps it for one statement is one step.          *)

Unlocked == holder = Nobody
Release == Nobody

\* Who asked for name n and has not created it yet.
Waiting(n) == {r \in Registrants : name[r] = n /\ pc[r] \in {"code", "create"}}

----------------------------------------------------------------------------
(* handle_form. A request that fails answers with a generic error.         *)

Goto(r, step) == pc' = [pc EXCEPT ![r] = step] /\ UNCHANGED <<name, code>>

GetDomain(r) ==
    /\ pc[r] = "new"
    /\ Unlocked
    /\ Goto(r, IF dbUp /\ open THEN "name" ELSE "error")
    /\ UNCHANGED <<dbUp, holder, open, exists, accounts, codes, deleting, faults, history>>

BugNotChecked(n) == FALSE
\* FALSE when the query fails.
username_exists(n) == dbUp /\ n \in accounts

CheckName(r) ==
    /\ pc[r] = "name"
    /\ Unlocked
    /\ Goto(r, IF username_exists(name[r]) THEN "error" ELSE "code")
    /\ UNCHANGED <<dbUp, holder, open, exists, accounts, codes, deleting, faults, history>>

BugUsable(c) == codes[c] \in Names \cup {"free"}
Usable(c) == codes[c] = "free"

\* UPDATE ... SET used_by WHERE used_by IS NULL.
UseInviteCode(r) ==
    /\ pc[r] = "code"
    /\ Unlocked
    /\ IF dbUp /\ Usable(code[r])
         THEN codes' = [codes EXCEPT ![code[r]] = name[r]] /\ Goto(r, "create")
         ELSE Goto(r, "error") /\ UNCHANGED codes
    /\ UNCHANGED <<dbUp, holder, open, exists, accounts, deleting, faults, history>>

\* The name's unique constraint and the domain's foreign key can refuse the row;
\* nothing gives the code back.
CreateAccount(r) ==
    /\ pc[r] = "create"
    /\ Unlocked
    /\ \/ /\ dbUp /\ exists /\ name[r] \notin accounts
          /\ accounts' = accounts \cup {name[r]}
          /\ bought' = [bought EXCEPT ![code[r]] = @ + 1]
          /\ taken' = taken \cup (Waiting(name[r]) \ {r})
          /\ Goto(r, "created")
          /\ UNCHANGED excused
       \/ /\ ~dbUp \/ ~exists \/ name[r] \in accounts
          /\ excused' = IF ~dbUp \/ ~exists \/ r \in taken
                          THEN excused \cup {code[r]} ELSE excused
          /\ Goto(r, "error")
          /\ UNCHANGED <<accounts, bought, taken>>
    /\ UNCHANGED <<dbUp, holder, open, exists, codes, deleting, faults, abandoned>>

Fault == faults < MaxFaults /\ faults' = faults + 1

\* bcrypt refuses its cost factor.
HashPasswordFails(r) ==
    /\ pc[r] = "create"
    /\ Fault
    /\ excused' = excused \cup {code[r]}
    /\ Goto(r, "error")
    /\ UNCHANGED <<dbUp, holder, open, exists, accounts, codes, deleting, bought, taken, abandoned>>

\* The client closes its connection while the handler waits for a call: the server
\* drops the handler. The call that runs completes on its own thread; no further one
\* is made.
ClientLeaves(r) ==
    /\ pc[r] \in {"name", "code", "create"}
    /\ Goto(r, "left")
    /\ abandoned' = IF pc[r] = "create" THEN abandoned \cup {code[r]} ELSE abandoned
    /\ UNCHANGED <<dbUp, holder, open, exists, accounts, codes, deleting, faults, bought,
                   taken, excused>>

----------------------------------------------------------------------------
(* The admin handlers.                                                     *)

CreateInviteCode(c) ==
    /\ dbUp /\ Unlocked
    /\ codes[c] = "unmade"
    /\ codes' = [codes EXCEPT ![c] = "free"]
    /\ UNCHANGED <<dbUp, holder, open, exists, accounts, request, deleting, faults, history>>

DeleteInviteCode(c) ==
    /\ dbUp /\ Unlocked
    /\ codes[c] \in Names \cup {"free"}
    /\ codes' = [codes EXCEPT ![c] = "deleted"]
    /\ UNCHANGED <<dbUp, holder, open, exists, accounts, request, deleting, faults, history>>

\* accounts.rs create: no code needed.
AdminCreate(n) ==
    /\ dbUp /\ Unlocked
    /\ exists
    /\ n \notin accounts
    /\ accounts' = accounts \cup {n}
    /\ taken' = taken \cup Waiting(n)
    /\ UNCHANGED <<dbUp, holder, open, exists, codes, request, deleting, faults, bought,
                   excused, abandoned>>

\* The accounts of the domain go with it.
DeleteDomain ==
    /\ dbUp /\ Unlocked
    /\ exists
    /\ exists' = FALSE
    /\ open' = FALSE
    /\ accounts' = {}
    /\ UNCHANGED <<dbUp, holder, codes, request, deleting, faults, history>>

CloseRegistration ==
    /\ dbUp /\ Unlocked
    /\ open
    /\ open' = FALSE
    /\ UNCHANGED <<dbUp, holder, exists, accounts, codes, request, deleting, faults, history>>

BugKeepGuard == Deleter
AfterRefusal == Release

Orphans == {c \in Codes : codes[c] \in Names \ accounts}

\* delete_account locks the mutex, and keeps it when it calls
\* cleanup_used_invite_codes, which locks it again.
DeleteAccount(n) ==
    /\ Unlocked
    /\ \/ /\ deleting = None
          /\ IF dbUp /\ n \notin Backing \cap accounts
               THEN /\ accounts' = accounts \ {n}
                    /\ holder' = Deleter
                    /\ deleting' = n
               ELSE holder' = AfterRefusal /\ UNCHANGED <<accounts, deleting>>
          /\ UNCHANGED codes
       \/ /\ deleting = n
          /\ codes' = [c \in Codes |-> IF c \in Orphans THEN "deleted" ELSE codes[c]]
          /\ deleting' = None
          /\ holder' = Release
          /\ UNCHANGED accounts
    /\ UNCHANGED <<dbUp, open, exists, request, faults, history>>

----------------------------------------------------------------------------
(* The environment.                                                        *)

InFlightCodes == {code[r] : r \in {q \in Registrants : pc[q] = "create"}}

LoseConnection ==
    /\ dbUp
    /\ Fault
    /\ dbUp' = FALSE
    /\ UNCHANGED <<holder, open, exists, accounts, codes, request, deleting, history>>

\* Requests under way are never answered.
Restart ==
    /\ Fault
    /\ dbUp' = TRUE
    /\ holder' = Nobody
    /\ deleting' = None
    /\ pc' = [r \in Registrants |->
              IF pc[r] \in {"name", "code", "create"} THEN "cut" ELSE pc[r]]
    /\ excused' = excused \cup InFlightCodes
    /\ UNCHANGED <<open, exists, accounts, codes, name, code, bought, taken, abandoned>>

----------------------------------------------------------------------------
Register(r) == GetDomain(r) \/ CheckName(r) \/ UseInviteCode(r) \/ CreateAccount(r)

Admin ==
    \/ \E c \in Codes : CreateInviteCode(c) \/ DeleteInviteCode(c)
    \/ \E n \in Names : AdminCreate(n) \/ DeleteAccount(n)
    \/ DeleteDomain \/ CloseRegistration

Next ==
    \/ Admin \/ LoseConnection \/ Restart
    \/ \E r \in Registrants : Register(r) \/ HashPasswordFails(r) \/ ClientLeaves(r)

\* A thread that can lock the mutex does so in the end; the admin need not act,
\* but a call of delete_account that began runs on. No client need leave.
Fairness ==
    /\ \A r \in Registrants : WF_vars(Register(r))
    /\ \A n \in Names : WF_vars(deleting = n /\ DeleteAccount(n))

Spec == Init /\ [][Next]_vars /\ Fairness

----------------------------------------------------------------------------
(* Properties.                                                             *)

\* The state has its type, and only delete_account keeps the mutex.
TypeOK ==
    /\ dbUp \in BOOLEAN /\ open \in BOOLEAN /\ exists \in BOOLEAN
    /\ holder \in {Nobody, Deleter}
    /\ holder = Deleter <=> deleting # None
    /\ accounts \subseteq Names
    /\ codes \in [Codes -> {"unmade", "free", "deleted"} \cup Names]
    /\ pc \in [Registrants ->
                 {"new", "name", "code", "create", "created", "error", "cut", "left"}]
    /\ name \in [Registrants -> Names]
    /\ code \in [Registrants -> Codes]
    /\ deleting \in Names \cup {None}
    /\ faults \in 0..MaxFaults
    /\ bought \in [Codes -> Nat]
    /\ taken \subseteq Registrants
    /\ excused \subseteq Codes
    /\ abandoned \subseteq Codes

\* An invite code buys one account, however many requests present it at once.
CodeBuysOneAccount == \A c \in Codes : bought[c] <= 1

\* A registration that fails leaves its code unused (registration.rs checks all
\* it can first): a code is used up for nothing only when another request took
\* the name after the check, the domain was deleted, the server, its connection
\* or bcrypt failed in between, or the client did not wait for its answer.
NoNeedlessBurn ==
    \A c \in Codes : codes[c] \in Names /\ bought[c] = 0 =>
        \/ c \in excused \cup abandoned
        \/ \E r \in Registrants : pc[r] = "create" /\ code[r] = c

\* Every registration is answered, unless delete_account blocks the database,
\* the server stops or the client leaves.
RegistrationAnswered ==
    \A r \in Registrants :
        pc[r] \in {"name", "code", "create"}
            ~> (pc[r] \in {"created", "error", "cut", "left"} \/ deleting # None)

\* src/db.rs:1365 says of the end of delete_account "Clean up any invite codes that
\* referenced this account".  So after the account is gone its code goes too,
\* unless the server is restarted meanwhile.
InviteCodesCleanedUp ==
    \A c \in Codes, n \in Names :
        (deleting = n /\ codes[c] = n) ~> (codes[c] = "deleted" \/ deleting # n)
=============================================================================
