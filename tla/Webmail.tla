------------------------------ MODULE Webmail ------------------------------
(***************************************************************************)
(* Reading and sending mail in the browser (src/web/routes/webmail.rs) for *)
(* one account.  A Maildir is a set of files; their names come from        *)
(* Dovecot for delivered mail, from the handler for the copies it keeps in *)
(* .Sent.  A page lists names, and later requests use them: meanwhile an   *)
(* IMAP client may have renamed or removed the files.                      *)
(*                                                                         *)
(* The REST and SOAP interfaces (api_email.rs, api_soap.rs) do the same    *)
(* with the mailbox of an account; they keep no copy of what they send.    *)
(*                                                                         *)
(* The daily limit of sending is in SendQuota.  Messages parse; paging,    *)
(* sorting and the grouping of folders are left out.                       *)
(***************************************************************************)
EXTENDS Naturals, FiniteSets

CONSTANTS
    Incoming,      \* mails that may be delivered
    Sends,         \* requests to send_email, and the mail each sends
    MailSizes,     \* lengths of formatted mails
    MaxSecond,     \* bound on the clock
    MaxMailFaults  \* bound: copies not written in full, clients that leave, restarts

ASSUME WebmailAssumption == MaxSecond \in Nat /\ MaxMailFaults \in Nat

NoMail == "none"
Mails == Incoming \cup Sends

VARIABLES
    second,
    maildir,    \* files: [folder, dir, name, mail]
    page,       \* what the browser lists: [folder, name, mail]
    answer,     \* last request by name: the mail listed, the mail found
    send,       \* send[s]: step of the request and length of its mail
    mfaults,
    \* History, read by properties alone:
    copies,     \* copies written, whole or in part: [second, size, mail]
    removed     \* mails an IMAP client or a delete_email removed

webvars == <<second, maildir, page, answer, send, mfaults, copies, removed>>

WebmailInit ==
    /\ second \in 0..MaxSecond
    /\ maildir = {}
    /\ page = {}
    /\ answer = [listed |-> NoMail, got |-> NoMail]
    /\ send = [s \in Sends |-> [pc |-> "idle", size |-> 0]]
    /\ mfaults = 0
    /\ copies = {}
    /\ removed = {}

\* A name an IMAP server has moved to cur/ ends with flags.
Named(base) == [base |-> base, flags |-> "none"]
Flagged(name) == [name EXCEPT !.flags = "seen"]

----------------------------------------------------------------------------
(* By name: new/ first, then cur/.                                         *)

Candidates(dir, x) ==
    {f \in maildir : f.folder = x.folder /\ f.dir = dir /\ f.name = x.name}
Found(x) == IF Candidates("new", x) # {} THEN Candidates("new", x) ELSE Candidates("cur", x)
MailOf(files) == IF files = {} THEN NoMail ELSE (CHOOSE f \in files : TRUE).mail
Answers(x) == answer' = [listed |-> x.mail, got |-> MailOf(Found(x))]

read_emails(folder) ==
    {[folder |-> f.folder, name |-> f.name, mail |-> f.mail] :
       f \in {g \in maildir : g.folder = folder}}

inbox(folder) ==
    /\ page' = read_emails(folder)
    /\ UNCHANGED <<second, maildir, answer, send, mfaults, copies, removed>>

Shows(x) == Answers(x) /\ UNCHANGED <<second, maildir, page, send, mfaults, copies, removed>>
view_email(x) == Shows(x)
download_email(x) == Shows(x)
reply_email(x) == Shows(x)

Removes(x) == Found(x)
\* A name that is gone is logged, and the inbox shown as after a deletion.
delete_email(x) ==
    /\ Answers(x)
    /\ maildir' = maildir \ Removes(x)
    /\ removed' = removed \cup {f.mail : f \in Removes(x)}
    /\ UNCHANGED <<second, page, send, mfaults, copies>>

\* REST and SOAP: a name that is gone is answered with an error.
list_emails(folder) == inbox(folder)
get_email(x) == Shows(x)
rest_delete_email(x) == delete_email(x)
handle_list_emails(folder) == inbox(folder)
handle_get_email(x) == Shows(x)
handle_delete_email(x) == delete_email(x)

----------------------------------------------------------------------------
(* Sending.                                                                *)

Steps(s, pc) == send' = [send EXCEPT ![s].pc = pc]

\* The message is built and handed to a thread that talks to Postfix.
send_email(s, size) ==
    /\ send[s].pc = "idle"
    /\ send' = [send EXCEPT ![s] = [pc |-> "smtp", size |-> size]]
    /\ UNCHANGED <<second, maildir, page, answer, mfaults, copies, removed>>

\* A refusal gives the day's allowance back.
SmtpAnswers(s, accepted) ==
    /\ send[s].pc = "smtp"
    /\ Steps(s, IF accepted THEN "accepted" ELSE "done")
    /\ UNCHANGED <<second, maildir, page, answer, mfaults, copies, removed>>

\* The name tells the second and the length: M is the process id, which all sends share.
BugSentName(t, size) == Named(<<t, 0>>)
SentName(t, size) == Named(<<t, size>>)

\* The file takes the place of one of its name.
Written(s) ==
    LET name == SentName(second, send[s].size)
        copy == [folder |-> ".Sent", dir |-> "new", name |-> name, mail |-> s] IN
    /\ maildir' = (maildir \ Candidates("new", copy)) \cup {copy}
    /\ copies' = copies \cup {[second |-> second, size |-> send[s].size, mail |-> s]}

SaveCopy(s) ==
    /\ send[s].pc = "accepted"
    /\ Written(s)
    /\ Steps(s, "done")
    /\ UNCHANGED <<second, page, answer, mfaults, removed>>

\* The directory cannot be made or the file not opened; or the write fails, or is cut
\* short by a restart, when the file has been emptied and holds a part.
SaveFails(s) ==
    /\ send[s].pc = "accepted"
    /\ mfaults < MaxMailFaults
    /\ mfaults' = mfaults + 1
    /\ Written(s) \/ UNCHANGED <<maildir, copies>>
    /\ Steps(s, "done")
    /\ UNCHANGED <<second, page, answer, removed>>

\* The handler is dropped while the thread sends: no copy, and no refund.
SenderLeaves(s) ==
    /\ send[s].pc = "smtp"
    /\ mfaults < MaxMailFaults
    /\ mfaults' = mfaults + 1
    /\ Steps(s, "done")
    /\ UNCHANGED <<second, maildir, page, answer, copies, removed>>

WebRestart ==
    /\ mfaults < MaxMailFaults
    /\ mfaults' = mfaults + 1
    /\ send' = [s \in Sends |-> IF send[s].pc = "idle" THEN send[s] ELSE [send[s] EXCEPT !.pc = "done"]]
    /\ UNCHANGED <<second, maildir, page, answer, copies, removed>>

----------------------------------------------------------------------------
(* Dovecot, for its deliveries and its IMAP clients.                       *)

Deliver(m) ==
    /\ \A f \in maildir : f.mail # m
    /\ m \notin removed
    /\ maildir' = maildir \cup {[folder |-> "INBOX", dir |-> "new", name |-> Named(m), mail |-> m]}
    /\ UNCHANGED <<second, page, answer, send, mfaults, copies, removed>>

SeenByClient(f) ==
    /\ f.dir = "new"
    /\ maildir' = (maildir \ {f}) \cup {[f EXCEPT !.dir = "cur", !.name = Flagged(@)]}
    /\ UNCHANGED <<second, page, answer, send, mfaults, copies, removed>>

Expunged(f) ==
    /\ f.dir = "cur"
    /\ maildir' = maildir \ {f}
    /\ removed' = removed \cup {f.mail}
    /\ UNCHANGED <<second, page, answer, send, mfaults, copies>>

Tick ==
    /\ second < MaxSecond
    /\ second' = second + 1
    /\ UNCHANGED <<maildir, page, answer, send, mfaults, copies, removed>>

WebmailNext ==
    \/ \E folder \in {"INBOX", ".Sent"} :
         inbox(folder) \/ list_emails(folder) \/ handle_list_emails(folder)
    \/ \E x \in page :
         \/ view_email(x) \/ download_email(x) \/ reply_email(x) \/ delete_email(x)
         \/ get_email(x) \/ rest_delete_email(x)
         \/ handle_get_email(x) \/ handle_delete_email(x)
    \/ \E s \in Sends :
         \/ \E n \in MailSizes : send_email(s, n)
         \/ \E b \in BOOLEAN : SmtpAnswers(s, b)
         \/ SaveCopy(s) \/ SaveFails(s) \/ SenderLeaves(s)
    \/ WebRestart
    \/ \E m \in Incoming : Deliver(m)
    \/ \E f \in maildir : SeenByClient(f) \/ Expunged(f)
    \/ Tick

WebmailSpec == WebmailInit /\ [][WebmailNext]_webvars

----------------------------------------------------------------------------
(* Properties.                                                             *)

WebmailTypeOK ==
    /\ second \in 0..MaxSecond /\ mfaults \in 0..MaxMailFaults
    /\ \A f \in maildir : f.mail \in Mails /\ f.dir \in {"new", "cur"}
    /\ \A f \in maildir : f.dir = "cur" <=> f.name.flags # "none"
    /\ {x.mail : x \in page} \subseteq Mails
    /\ \A s \in Sends : send[s].pc \in {"idle", "smtp", "accepted", "done"}
    /\ {c.mail : c \in copies} \subseteq Sends /\ removed \subseteq Mails

\* Two copies of one second and one length have one name.
NamesClash ==
    \E c, e \in copies : c.mail # e.mail /\ c.second = e.second /\ c.size = e.size

\* The copies of sent mails outlive each other, and a name taken from an old page never
\* leads to another mail than it was listed for, whatever was renamed, removed or sent
\* since (send_email, delete_email), unless two mails of one length were sent in one
\* second.
SentCopiesKept ==
    NamesClash \/ /\ \A c \in copies : c.mail \in removed \/ \E f \in maildir : f.mail = c.mail
                  /\ answer.got \in {NoMail, answer.listed}
=============================================================================
