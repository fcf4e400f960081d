------------------------------ MODULE AdminProofs ------------------------------
(***************************************************************************)
(* Theorems about what administrators and AI clients use: the streams of   *)
(* new-mail counts (ImapIdle.tla), webmail (Webmail.tla), the MCP endpoint *)
(* (Mcp.tla), the mail tables (MailTables.tla) and the files generated     *)
(* from them (MailConfig.tla); for any finite set of streams, any mails,   *)
(* calls and requests, any limits, and any tables.                         *)
(***************************************************************************)
EXTENDS MCAdmin, FiniteSetTheorems, SequenceTheorems, FunctionTheorems, WellFoundedInduction, TLAPS

Task == [pc : {"idle", "admitted", "polling", "counted", "closing", "ended"},
         shutdown : BOOLEAN, client : BOOLEAN, count : 0..MaxNew, last : 0..Unknown]

StreamsTyped ==
    /\ newMails \in 0..MaxNew
    /\ stream \in [Streams -> Task]
    /\ registry \subseteq Streams
    /\ overlapped \in BOOLEAN

\* Only a listed stream is told to stop.
FlagsListed == \A s \in Streams : stream[s].pc \in {"idle", "admitted"} => ~stream[s].shutdown

Listed == {s \in Streams : /\ stream[s].pc \in {"polling", "counted", "closing"}
                           /\ ~stream[s].shutdown}

\* Unless two requests overlapped, one at most is between its check and its
\* insertion, and the room it found is still there.
RoomKept ==
    \/ overlapped
    \/ /\ Cardinality(registry) <= MAX_IDLE_SESSIONS
       /\ \A s \in Streams : In(s, "admitted") =>
            /\ Cardinality(registry) < MAX_IDLE_SESSIONS
            /\ \A t \in Streams : In(t, "admitted") => t = s

IdleInv == StreamsTyped /\ FlagsListed /\ registry = Listed /\ RoomKept

------------------------------------------------------------------------------
(* What a step does to the sizes.                                          *)

\* A registry that lost streams is no larger.
LEMMA SmallerRegistry ==
    ASSUME StreamsTyped, NEW S, S \subseteq registry
    PROVE  /\ Cardinality(S) \in Nat /\ Cardinality(registry) \in Nat
           /\ Cardinality(S) <= Cardinality(registry)
BY ImapIdleAssumption, FS_Subset, FS_CardinalityType DEF StreamsTyped

\* One stream more is one stream more.
LEMMA LargerRegistry ==
    ASSUME StreamsTyped, NEW s \in Streams, s \notin registry
    PROVE  Cardinality(registry \cup {s}) = Cardinality(registry) + 1
BY ImapIdleAssumption, FS_Subset, FS_AddElement DEF StreamsTyped

------------------------------------------------------------------------------

\* A count may be the last one sent, and a new task has its type.
LEMMA Counts ==
    /\ 0 \in 0..MaxNew /\ Unknown \in 0..Unknown
    /\ \A n \in 0..MaxNew : n \in 0..Unknown
    /\ NoStream \in Task /\ [NoStream EXCEPT !.pc = "ended"] \in Task
<1>1. 0 \in 0..MaxNew /\ Unknown \in 0..Unknown /\ \A n \in 0..MaxNew : n \in 0..Unknown
  BY ImapIdleAssumption DEF Unknown
<1>2. NoStream \in Task
  BY <1>1 DEF NoStream, Task
<1>3. [NoStream EXCEPT !.pc = "ended"] \in Task
  BY <1>2 DEF Task
<1> QED BY <1>1, <1>2, <1>3

\* Every step keeps the types.
LEMMA TypedStep ==
    ASSUME StreamsTyped, [IdleNext]_idlevars
    PROVE  StreamsTyped'
<1> USE DEF StreamsTyped
<1>0. ASSUME NEW s \in Streams, NEW task \in Task, stream' = [stream EXCEPT ![s] = task]
      PROVE  stream' \in [Streams -> Task]
  BY <1>0
<1>1. ASSUME NEW s \in Streams, idle_stream(s) \/ Register(s) PROVE StreamsTyped'
  <2>1. PICK step \in {"admitted", "ended", "polling"} :
            stream' = [stream EXCEPT ![s] = [stream[s] EXCEPT !.pc = step]]
    BY <1>1 DEF idle_stream, Register, Moves
  <2>2. [stream[s] EXCEPT !.pc = step] \in Task
    BY DEF Task
  <2>3. stream' \in [Streams -> Task]
    BY <1>0, <2>1, <2>2
  <2>4. newMails' = newMails /\ registry' \subseteq Streams /\ overlapped' \in BOOLEAN
    BY <1>1 DEF idle_stream, Register
  <2> QED BY <2>3, <2>4
<1>2. ASSUME NEW s \in Streams, Poll(s) PROVE StreamsTyped'
  BY <1>2 DEF Poll, In, Task
<1>3. ASSUME NEW s \in Streams, Report(s) PROVE StreamsTyped'
  <2>1. PICK step \in {"closing", "polling"} :
            stream' = [stream EXCEPT ![s] = [stream[s] EXCEPT !.pc = step, !.count = 0,
                                                              !.last = stream[s].count]]
    BY <1>3 DEF Report
  <2>2. stream[s] \in Task /\ stream[s].count \in 0..Unknown /\ 0 \in 0..MaxNew
    BY Counts DEF Task
  <2>3. [stream[s] EXCEPT !.pc = step, !.count = 0, !.last = stream[s].count] \in Task
    BY <2>2 DEF Task
  <2>4. stream' \in [Streams -> Task]
    BY <1>0, <2>1, <2>3
  <2> QED BY <1>3, <2>4 DEF Report
<1>4. ASSUME NEW s \in Streams, Deregister(s) PROVE StreamsTyped'
  <2>1. stream' \in [Streams -> Task]
    BY <1>0, <1>4, Counts DEF Deregister
  <2> QED BY <1>4, <2>1 DEF Deregister
<1>5. ASSUME NEW S \in SUBSET Streams, Stops(S) PROVE StreamsTyped'
  BY <1>5 DEF Stops, Task
<1>6. ASSUME NEW s \in Streams, Leave(s) PROVE StreamsTyped'
  BY <1>6 DEF Leave, Task
<1>7. CASE MailboxChanges
  BY <1>7 DEF MailboxChanges
<1>8. CASE UNCHANGED idlevars
  BY <1>8 DEF idlevars
<1> QED
  BY <1>1, <1>2, <1>3, <1>4, <1>5, <1>6, <1>7, <1>8 DEF IdleNext, disconnect, disconnect_all

\* Every step keeps the registry exact: it lists the streams that run and were not
\* told to stop.
LEMMA ListedStep ==
    ASSUME IdleInv, [IdleNext]_idlevars
    PROVE  FlagsListed' /\ (registry = Listed)'
<1> USE DEF IdleInv, StreamsTyped, FlagsListed, Listed
<1>1. ASSUME NEW s \in Streams, idle_stream(s) \/ Register(s)
      PROVE  FlagsListed' /\ (registry = Listed)'
  BY <1>1 DEF idle_stream, Register, Moves, In, Task
<1>2. ASSUME NEW s \in Streams, Poll(s)
      PROVE  FlagsListed' /\ (registry = Listed)'
  BY <1>2 DEF Poll, In, Task
<1>3. ASSUME NEW s \in Streams, Report(s)
      PROVE  FlagsListed' /\ (registry = Listed)'
  BY <1>3 DEF Report, In, Task
<1>4. ASSUME NEW s \in Streams, Deregister(s)
      PROVE  FlagsListed' /\ (registry = Listed)'
  BY <1>4 DEF Deregister, In, NoStream, Task
<1>5. ASSUME NEW S \in SUBSET registry, Stops(S)
      PROVE  FlagsListed' /\ (registry = Listed)'
  BY <1>5 DEF Stops, Task
<1>6. ASSUME NEW s \in Streams, Leave(s)
      PROVE  FlagsListed' /\ (registry = Listed)'
  BY <1>6 DEF Leave, Task
<1>7. ASSUME UNCHANGED <<stream, registry>>
      PROVE  FlagsListed' /\ (registry = Listed)'
  BY <1>7
<1> QED
  BY <1>1, <1>2, <1>3, <1>4, <1>5, <1>6, <1>7
  DEF IdleNext, disconnect, disconnect_all, MailboxChanges, idlevars

\* Every step keeps the room.
LEMMA RoomStep ==
    ASSUME IdleInv, [IdleNext]_idlevars
    PROVE  RoomKept'
<1> USE DEF IdleInv
<1>1. Cardinality(registry) \in Nat /\ MAX_IDLE_SESSIONS \in Nat
  BY ImapIdleAssumption, SmallerRegistry
<1>2. ASSUME NEW s \in Streams, idle_stream(s)
      PROVE  RoomKept'
  <2>1. /\ registry' = registry
        /\ \A t \in Streams \ {s} : stream'[t] = stream[t]
        /\ stream'[s].pc = IF Room THEN "admitted" ELSE "ended"
    BY <1>2 DEF idle_stream, Moves, StreamsTyped, Task
  <2>2. CASE Room
    <3>1. CASE overlapped \/ \E t \in Streams : In(t, "admitted")
      BY <1>2, <2>2, <3>1 DEF idle_stream, RoomKept
    <3>2. CASE ~(overlapped \/ \E t \in Streams : In(t, "admitted"))
      BY <1>1, <2>1, <2>2, <3>2 DEF RoomKept, Room, In
    <3> QED BY <3>1, <3>2
  <2>3. CASE ~Room
    BY <1>1, <1>2, <2>1, <2>3 DEF idle_stream, RoomKept, In
  <2> QED BY <2>2, <2>3
<1>3. ASSUME NEW s \in Streams, Register(s)
      PROVE  RoomKept'
  <2>1. /\ registry' = registry \cup {s} /\ overlapped' = overlapped
        /\ In(s, "admitted") /\ ~In(s, "admitted")'
        /\ \A t \in Streams \ {s} : stream'[t] = stream[t]
    BY <1>3 DEF Register, Moves, In, StreamsTyped, Task
  <2>2. s \notin registry
    BY <2>1 DEF Listed, In
  <2>3. Cardinality(registry') = Cardinality(registry) + 1
    BY <2>1, <2>2, LargerRegistry
  <2>4. CASE overlapped
    BY <2>1, <2>4 DEF RoomKept
  <2>5. CASE ~overlapped
    <3>1. Cardinality(registry') <= MAX_IDLE_SESSIONS
      BY <1>1, <2>1, <2>3, <2>5 DEF RoomKept
    <3>2. \A t \in Streams : ~In(t, "admitted")'
      BY <2>1, <2>5 DEF RoomKept, In
    <3> QED BY <3>1, <3>2 DEF RoomKept
  <2> QED BY <2>4, <2>5
<1>4. ASSUME registry' \subseteq registry, overlapped' = overlapped,
             \A t \in Streams : In(t, "admitted")' => In(t, "admitted")
      PROVE  RoomKept'
  <2>1. Cardinality(registry') \in Nat /\ Cardinality(registry') <= Cardinality(registry)
    BY <1>4, SmallerRegistry
  <2>2. CASE overlapped
    BY <1>4, <2>2 DEF RoomKept
  <2>3. CASE ~overlapped
    <3>1. Cardinality(registry') <= MAX_IDLE_SESSIONS
      BY <1>1, <2>1, <2>3 DEF RoomKept
    <3>2. ASSUME NEW t \in Streams, In(t, "admitted")'
          PROVE  /\ Cardinality(registry') < MAX_IDLE_SESSIONS
                 /\ \A u \in Streams : In(u, "admitted")' => u = t
      BY <1>1, <1>4, <2>1, <2>3, <3>2 DEF RoomKept
    <3> QED BY <3>1, <3>2 DEF RoomKept
  <2> QED BY <2>2, <2>3
<1>5. ASSUME NEW s \in Streams, Poll(s) \/ Report(s) \/ Deregister(s) \/ Leave(s)
      PROVE  RoomKept'
  <2>1. registry' \subseteq registry /\ overlapped' = overlapped
    BY <1>5 DEF Poll, Report, Deregister, Leave
  <2>2. \A t \in Streams \ {s} : stream'[t] = stream[t]
    BY <1>5 DEF Poll, Report, Deregister, Leave, StreamsTyped
  <2>3. stream'[s].pc # "admitted"
    <3>1. CASE Poll(s)
      BY <3>1 DEF Poll, StreamsTyped, Task
    <3>2. CASE Report(s)
      BY <3>2 DEF Report, StreamsTyped, Task
    <3>3. CASE Deregister(s)
      BY <3>3 DEF Deregister, NoStream, StreamsTyped
    <3>4. CASE Leave(s)
      BY <3>4 DEF Leave, StreamsTyped, Task
    <3> QED BY <1>5, <3>1, <3>2, <3>3, <3>4
  <2> QED BY <1>4, <2>1, <2>2, <2>3 DEF In
<1>6. ASSUME NEW S \in SUBSET registry, Stops(S)
      PROVE  RoomKept'
  BY <1>4, <1>6 DEF Stops, In, StreamsTyped, Task
<1>7. CASE MailboxChanges \/ UNCHANGED idlevars
  BY <1>4, <1>7 DEF MailboxChanges, idlevars, In
<1> QED
  BY <1>2, <1>3, <1>5, <1>6, <1>7 DEF IdleNext, disconnect, disconnect_all

------------------------------------------------------------------------------

LEMMA IdleStarts == IdleInit => IdleInv
<1> SUFFICES ASSUME IdleInit PROVE IdleInv
  OBVIOUS
<1>1. StreamsTyped /\ FlagsListed /\ registry = Listed
  <2>1. StreamsTyped
    BY Counts DEF IdleInit, StreamsTyped
  <2> QED BY <2>1 DEF IdleInit, FlagsListed, Listed, NoStream
<1>2. RoomKept
  BY ImapIdleAssumption, FS_EmptySet DEF IdleInit, RoomKept, NoStream, In
<1> QED BY <1>1, <1>2 DEF IdleInv

LEMMA IdleStep == IdleInv /\ [IdleNext]_idlevars => IdleInv'
BY TypedStep, ListedStep, RoomStep DEF IdleInv

\* The registry lists exactly the streams that run and were not told to stop, and no
\* more than the cap unless two requests passed the check together (idle_stream,
\* disconnect, disconnect_all).
THEOREM CapIsKept ==
    IdleInit /\ [][IdleNext]_idlevars => []SessionsWithinCap
<1>1. IdleInv => SessionsWithinCap
  BY DEF IdleInv, Listed, RoomKept, SessionsWithinCap
<1> QED
  BY IdleStarts, IdleStep, <1>1, PTL

------------------------------------------------------------------------------
(* Webmail.  A file is named after the mail it was delivered with, or      *)
(* after the copy it was written as; the list a browser holds names files  *)
(* the same way, long after they were renamed or removed.                  *)

Name == [base : Incoming \cup (Nat \X MailSizes), flags : {"none", "seen"}]
MailFile == [folder : {"INBOX", ".Sent"}, dir : {"new", "cur"}, name : Name, mail : Mails]
Line == [folder : {"INBOX", ".Sent"}, name : Name, mail : Mails]
Copy == [second : Nat, size : MailSizes, mail : Sends]
Sending == [pc : {"idle", "smtp", "accepted", "done"}, size : MailSizes \cup {0}]

MailTyped ==
    /\ second \in 0..MaxSecond /\ mfaults \in 0..MaxMailFaults
    /\ maildir \in SUBSET MailFile /\ page \in SUBSET Line
    /\ copies \in SUBSET Copy /\ removed \in SUBSET Mails
    /\ send \in [Sends -> Sending]
    /\ \A s \in Sends : send[s].pc \in {"smtp", "accepted"} => send[s].size \in MailSizes
    /\ \A f \in maildir : f.dir = "cur" <=> f.name.flags # "none"

NameTells(x) ==
    \/ x.folder = "INBOX" /\ x.name.base = x.mail
    \/ /\ x.folder = ".Sent"
       /\ \E c \in copies : x.name.base = <<c.second, c.size>> /\ x.mail = c.mail

NamesTell == (\A f \in maildir : NameTells(f)) /\ (\A x \in page : NameTells(x))
CopiesStay == \A c \in copies : c.mail \in removed \/ \E f \in maildir : f.mail = c.mail
AnswersAsListed == answer.got \in {NoMail, answer.listed}

WebmailInv ==
    MailTyped /\ NamesTell /\ (NamesClash \/ (CopiesStay /\ AnswersAsListed))

\* Unless two copies have one name, files and lines of one name are of one mail.
LEMMA OneMailEach ==
    ASSUME ~NamesClash, NEW x, NEW y, NameTells(x), NameTells(y),
           x.folder = y.folder, x.name = y.name, copies \in SUBSET Copy
    PROVE  x.mail = y.mail
<1>1. CASE x.folder = "INBOX"
  BY <1>1 DEF NameTells
<1>2. CASE x.folder = ".Sent"
  <2>1. PICK c \in copies : x.name.base = <<c.second, c.size>> /\ x.mail = c.mail
    BY <1>2 DEF NameTells
  <2>2. PICK e \in copies : y.name.base = <<e.second, e.size>> /\ y.mail = e.mail
    BY <1>2 DEF NameTells
  <2>3. c.second = e.second /\ c.size = e.size
    BY <2>1, <2>2
  <2> QED BY <2>1, <2>2, <2>3 DEF NamesClash
<1> QED BY <1>1, <1>2 DEF NameTells

\* What a name leads to is what it was listed for, or nothing.
LEMMA AnswerIsListed ==
    ASSUME MailTyped, NamesTell, ~NamesClash, NEW x \in page
    PROVE  MailOf(Found(x)) \in {NoMail, x.mail}
<1>1. CASE Found(x) = {}
  BY <1>1 DEF MailOf
<1>2. CASE Found(x) # {}
  <2> DEFINE f == CHOOSE g \in Found(x) : TRUE
  <2>1. f \in Found(x)
    BY <1>2
  <2>2. f \in maildir /\ f.folder = x.folder /\ f.name = x.name
    BY <2>1 DEF Found, Candidates
  <2>3. f.mail = x.mail
    BY <2>2, OneMailEach DEF NamesTell, MailTyped
  <2> QED BY <1>2, <2>3 DEF MailOf
<1> QED BY <1>1, <1>2

\* A file or line that told its mail does so when copies are added.
LEMMA StillTells ==
    ASSUME NEW x, NameTells(x), copies \subseteq copies'
    PROVE  NameTells(x)'
BY DEF NameTells

\* Steps that leave files, lines and copies alone, and answer no request by name.
LEMMA QuietMail ==
    ASSUME WebmailInv, UNCHANGED <<maildir, page, answer, copies, removed>>, MailTyped'
    PROVE  WebmailInv'
BY DEF WebmailInv, NamesTell, NameTells, NamesClash, CopiesStay, AnswersAsListed

\* A list names files as they are.
LEMMA InboxStep ==
    ASSUME WebmailInv, NEW folder \in {"INBOX", ".Sent"}, inbox(folder)
    PROVE  WebmailInv'
<1> USE DEF WebmailInv
<1>0. UNCHANGED <<second, maildir, answer, send, mfaults, copies, removed>>
  BY DEF inbox
<1>1. ASSUME NEW x \in page'
      PROVE  x \in Line /\ NameTells(x)
  <2>1. PICK f \in maildir : x = [folder |-> f.folder, name |-> f.name, mail |-> f.mail]
    BY <1>1 DEF inbox, read_emails
  <2>2. f \in MailFile /\ NameTells(f)
    BY DEF MailTyped, NamesTell
  <2>3. x.folder = f.folder /\ x.name = f.name /\ x.mail = f.mail
    BY <2>1
  <2>4. NameTells(x)
    BY <2>2, <2>3 DEF NameTells
  <2> QED BY <2>1, <2>2, <2>4 DEF MailFile, Line
<1>2. MailTyped'
  BY <1>0, <1>1 DEF MailTyped
<1>3. NamesTell'
  BY <1>0, <1>1 DEF NamesTell, NameTells
<1> QED BY <1>0, <1>2, <1>3 DEF NamesClash, CopiesStay, AnswersAsListed

LEMMA ShowsStep ==
    ASSUME WebmailInv, NEW x \in page, Shows(x)
    PROVE  WebmailInv'
<1> USE DEF WebmailInv
<1>0. UNCHANGED <<second, maildir, page, send, mfaults, copies, removed>>
  BY DEF Shows
<1>1. MailTyped' /\ NamesTell'
  BY <1>0 DEF MailTyped, NamesTell, NameTells
<1>2. CASE NamesClash
  BY <1>0, <1>1, <1>2 DEF NamesClash
<1>3. CASE ~NamesClash
  <2>1. MailOf(Found(x)) \in {NoMail, x.mail}
    BY <1>3, AnswerIsListed
  <2>2. answer' = [listed |-> x.mail, got |-> MailOf(Found(x))]
    BY DEF Shows, Answers
  <2>3. AnswersAsListed'
    BY <2>1, <2>2 DEF AnswersAsListed
  <2> QED BY <1>0, <1>1, <1>3, <2>3 DEF CopiesStay
<1> QED BY <1>2, <1>3

LEMMA DeleteStep ==
    ASSUME WebmailInv, NEW x \in page, delete_email(x)
    PROVE  WebmailInv'
<1> USE DEF WebmailInv
<1>0. /\ UNCHANGED <<second, page, send, mfaults, copies>>
      /\ maildir' = maildir \ Found(x)
      /\ removed' = removed \cup {f.mail : f \in Found(x)}
      /\ answer' = [listed |-> x.mail, got |-> MailOf(Found(x))]
  BY DEF delete_email, Removes, Answers
<1>1. Found(x) \subseteq maildir
  BY DEF Found, Candidates
<1>2. MailTyped'
  BY <1>0, <1>1 DEF MailTyped, MailFile
<1>3. NamesTell'
  BY <1>0 DEF NamesTell, NameTells
<1>4. CASE NamesClash
  BY <1>0, <1>2, <1>3, <1>4 DEF NamesClash
<1>5. CASE ~NamesClash
  <2>1. AnswersAsListed'
    BY <1>0, <1>5, AnswerIsListed DEF AnswersAsListed
  <2>2. CopiesStay'
    BY <1>0, <1>5 DEF CopiesStay
  <2> QED BY <1>2, <1>3, <2>1, <2>2
<1> QED BY <1>4, <1>5

\* A copy takes the place of a file of its name: of a copy of the same mail, or the
\* names clash.
LEMMA SaveStep ==
    ASSUME WebmailInv, NEW s \in Sends, send[s].pc = "accepted", Written(s), Steps(s, "done"),
           mfaults' \in 0..MaxMailFaults, UNCHANGED <<second, page, answer, removed>>
    PROVE  WebmailInv'
<1> USE DEF WebmailInv
<1> DEFINE name == SentName(second, send[s].size)
           copy == [folder |-> ".Sent", dir |-> "new", name |-> name, mail |-> s]
           row == [second |-> second, size |-> send[s].size, mail |-> s]
<1>0. /\ UNCHANGED <<second, page, answer, removed>> /\ mfaults' \in 0..MaxMailFaults
      /\ maildir' = (maildir \ Candidates("new", copy)) \cup {copy}
      /\ copies' = copies \cup {row}
      /\ send' = [send EXCEPT ![s].pc = "done"]
      /\ send[s].pc = "accepted"
  BY DEF Written, Steps
<1>1. second \in Nat /\ send[s].size \in MailSizes
  BY <1>0, WebmailAssumption DEF MailTyped
<1>2. name = [base |-> <<second, send[s].size>>, flags |-> "none"]
  BY DEF SentName, Named
<1>3. name \in Name /\ row \in Copy
  BY <1>1, <1>2 DEF Name, Copy
<1>4. copy \in MailFile
  BY <1>3 DEF MailFile, Mails
<1>5. send' \in [Sends -> Sending] /\ send'[s].pc = "done"
      /\ \A u \in Sends \ {s} : send'[u] = send[u]
  BY <1>0 DEF MailTyped, Sending
<1>6. MailTyped'
  BY <1>0, <1>2, <1>3, <1>4, <1>5 DEF MailTyped
<1>7. ASSUME NEW f, f = copy PROVE NameTells(f)'
  <2>1. row \in copies'
    BY <1>0
  <2>2. f.folder = ".Sent" /\ f.mail = s /\ f.name.base = <<row.second, row.size>>
    BY <1>2, <1>7
  <2>3. \E c \in copies' : f.name.base = <<c.second, c.size>> /\ f.mail = c.mail
    BY <2>1, <2>2
  <2> QED BY <2>2, <2>3 DEF NameTells
<1>8. NamesTell'
  BY <1>0, <1>7, StillTells DEF NamesTell
<1>9. CASE NamesClash'
  BY <1>6, <1>8, <1>9
<1>10. CASE ~NamesClash'
  <2>1. ~NamesClash
    BY <1>0, <1>10 DEF NamesClash
  <2>2. ASSUME NEW f \in Candidates("new", copy) PROVE f.mail = s
    <3>1. f \in maildir /\ f.folder = ".Sent" /\ f.name = name
      BY <2>2 DEF Candidates
    <3>2. PICK c \in copies : f.name.base = <<c.second, c.size>> /\ f.mail = c.mail
      BY <3>1 DEF NamesTell, NameTells
    <3>3. c.second = second /\ c.size = send[s].size
      BY <1>2, <3>1, <3>2
    <3>4. row \in copies' /\ c \in copies'
      BY <1>0
    <3> QED BY <1>10, <3>2, <3>3, <3>4 DEF NamesClash
  <2>3. CopiesStay'
    <3>1. ASSUME NEW c \in copies, c.mail \notin removed
          PROVE  \E f \in maildir' : f.mail = c.mail
      BY <1>0, <2>1, <2>2, <3>1 DEF CopiesStay
    <3> QED BY <1>0, <3>1 DEF CopiesStay
  <2> QED BY <1>0, <1>6, <1>8, <2>1, <2>3 DEF AnswersAsListed
<1> QED BY <1>9, <1>10

LEMMA DeliverStep ==
    ASSUME WebmailInv, NEW m \in Incoming, Deliver(m)
    PROVE  WebmailInv'
<1> USE DEF WebmailInv
<1> DEFINE file == [folder |-> "INBOX", dir |-> "new", name |-> Named(m), mail |-> m]
<1>0. /\ UNCHANGED <<second, page, answer, send, mfaults, copies, removed>>
      /\ maildir' = maildir \cup {file}
  BY DEF Deliver
<1>1. file \in MailFile
  BY DEF MailFile, Name, Named, Mails
<1>2. MailTyped'
  BY <1>0, <1>1 DEF MailTyped, Named
<1>3. NameTells(file)
  BY DEF NameTells, Named
<1>4. NamesTell'
  BY <1>0, <1>3 DEF NamesTell, NameTells
<1> QED BY <1>0, <1>2, <1>4 DEF NamesClash, CopiesStay, AnswersAsListed

\* A flag changes neither what a name was made from nor the mail.
LEMMA SeenStep ==
    ASSUME WebmailInv, NEW f \in maildir, SeenByClient(f)
    PROVE  WebmailInv'
<1> USE DEF WebmailInv
<1> DEFINE seen == [f EXCEPT !.dir = "cur", !.name = Flagged(f.name)]
<1>0. /\ UNCHANGED <<second, page, answer, send, mfaults, copies, removed>>
      /\ maildir' = (maildir \ {f}) \cup {seen}
  BY DEF SeenByClient
<1>1. f \in MailFile /\ f.name \in Name
  BY DEF MailTyped, MailFile
<1>2. /\ Flagged(f.name) \in Name /\ Flagged(f.name).flags = "seen"
      /\ Flagged(f.name).base = f.name.base
  BY <1>1 DEF Flagged, Name
<1>3. /\ seen \in MailFile /\ seen.dir = "cur" /\ seen.name = Flagged(f.name)
      /\ seen.mail = f.mail /\ seen.folder = f.folder
  BY <1>1, <1>2 DEF MailFile
<1>4. MailTyped'
  BY <1>0, <1>2, <1>3 DEF MailTyped
<1>5. NameTells(seen)
  BY <1>2, <1>3 DEF NamesTell, NameTells
<1>6. NamesTell'
  BY <1>0, <1>5 DEF NamesTell, NameTells
<1>7. CopiesStay => CopiesStay'
  BY <1>0, <1>3 DEF CopiesStay
<1> QED BY <1>0, <1>4, <1>6, <1>7 DEF NamesClash, AnswersAsListed

LEMMA ExpungedStep ==
    ASSUME WebmailInv, NEW f \in maildir, Expunged(f)
    PROVE  WebmailInv'
<1> USE DEF WebmailInv, Expunged
<1>1. MailTyped'
  BY DEF MailTyped, MailFile
<1>2. NamesTell'
  BY DEF NamesTell, NameTells
<1>3. CopiesStay => CopiesStay'
  BY DEF CopiesStay
<1> QED BY <1>1, <1>2, <1>3 DEF NamesClash, AnswersAsListed

LEMMA TickTyped ==
    ASSUME MailTyped, Tick
    PROVE  MailTyped'
BY WebmailAssumption DEF MailTyped, Tick

\* The steps of a request to send that write no copy.
LEMMA SendTyped ==
    ASSUME MailTyped, NEW s \in Sends,
           \/ \E n \in MailSizes : send_email(s, n)
           \/ \E b \in BOOLEAN : SmtpAnswers(s, b)
           \/ SaveFails(s) /\ ~Written(s)
           \/ SenderLeaves(s)
    PROVE  MailTyped' /\ UNCHANGED <<maildir, page, answer, copies, removed>>
<1> USE DEF MailTyped
<1>1. ASSUME NEW n \in MailSizes, send_email(s, n)
      PROVE  MailTyped' /\ UNCHANGED <<maildir, page, answer, copies, removed>>
  <2>1. [pc |-> "smtp", size |-> n] \in Sending
    BY DEF Sending
  <2> QED BY <1>1, <2>1 DEF send_email
<1>2. ASSUME NEW pc \in {"accepted", "done"}, send[s].pc = "smtp" \/ pc = "done",
             send' = [send EXCEPT ![s].pc = pc], mfaults' \in 0..MaxMailFaults,
             UNCHANGED <<second, maildir, page, answer, copies, removed>>
      PROVE  MailTyped' /\ UNCHANGED <<maildir, page, answer, copies, removed>>
  <2>1. /\ send' \in [Sends -> Sending]
        /\ send'[s].pc = pc /\ send'[s].size = send[s].size
        /\ \A u \in Sends \ {s} : send'[u] = send[u]
    BY <1>2 DEF Sending
  <2> QED BY <1>2, <2>1
<1>3. ASSUME NEW b \in BOOLEAN, SmtpAnswers(s, b)
      PROVE  MailTyped' /\ UNCHANGED <<maildir, page, answer, copies, removed>>
  BY <1>2, <1>3 DEF SmtpAnswers, Steps
<1>4. ASSUME (SaveFails(s) /\ ~Written(s)) \/ SenderLeaves(s)
      PROVE  MailTyped' /\ UNCHANGED <<maildir, page, answer, copies, removed>>
  <2>1. mfaults' \in 0..MaxMailFaults
    BY <1>4, WebmailAssumption DEF SaveFails, SenderLeaves
  <2> QED BY <1>2, <1>4, <2>1 DEF SaveFails, SenderLeaves, Steps
<1> QED BY <1>1, <1>3, <1>4

LEMMA RestartTyped ==
    ASSUME MailTyped, WebRestart
    PROVE  MailTyped'
<1> USE DEF MailTyped
<1>1. \A u \in Sends : [send[u] EXCEPT !.pc = "done"] \in Sending
  BY DEF Sending
<1>2. \A u \in Sends : [send[u] EXCEPT !.pc = "done"].pc = "done"
  BY DEF Sending
<1>3. send' \in [Sends -> Sending]
  BY <1>1 DEF WebRestart
<1>4. \A u \in Sends : send'[u].pc \in {"idle", "done"}
  BY <1>2 DEF WebRestart
<1> QED BY <1>3, <1>4, WebmailAssumption DEF WebRestart

LEMMA WebmailStarts == WebmailInit => WebmailInv
<1> SUFFICES ASSUME WebmailInit PROVE WebmailInv
  OBVIOUS
<1>1. \A s \in Sends : [pc |-> "idle", size |-> 0] \in Sending
  BY DEF Sending
<1>2. MailTyped
  BY <1>1, WebmailAssumption DEF WebmailInit, MailTyped
<1> QED BY <1>2 DEF WebmailInit, WebmailInv, NamesTell, CopiesStay, AnswersAsListed

LEMMA WebmailStep ==
    ASSUME WebmailInv, [WebmailNext]_webvars
    PROVE  WebmailInv'
<1> USE DEF WebmailInv
<1>1. ASSUME NEW folder \in {"INBOX", ".Sent"},
             inbox(folder) \/ list_emails(folder) \/ handle_list_emails(folder)
      PROVE  WebmailInv'
  BY <1>1, InboxStep DEF list_emails, handle_list_emails
<1>2. ASSUME NEW x \in page,
             \/ view_email(x) \/ download_email(x) \/ reply_email(x) \/ delete_email(x)
             \/ get_email(x) \/ rest_delete_email(x)
             \/ handle_get_email(x) \/ handle_delete_email(x)
      PROVE  WebmailInv'
  BY <1>2, ShowsStep, DeleteStep
  DEF view_email, download_email, reply_email, get_email, handle_get_email,
      rest_delete_email, handle_delete_email
<1>3. ASSUME NEW s \in Sends,
             \/ \E n \in MailSizes : send_email(s, n)
             \/ \E b \in BOOLEAN : SmtpAnswers(s, b)
             \/ SaveCopy(s) \/ SaveFails(s) \/ SenderLeaves(s)
      PROVE  WebmailInv'
  <2>1. CASE SaveCopy(s) \/ (SaveFails(s) /\ Written(s))
    <3>1. mfaults' \in 0..MaxMailFaults
      BY <2>1, WebmailAssumption DEF SaveCopy, SaveFails, MailTyped
    <3> QED BY <2>1, <3>1, SaveStep DEF SaveCopy, SaveFails
  <2>2. CASE ~(SaveCopy(s) \/ (SaveFails(s) /\ Written(s)))
    BY <1>3, <2>2, SendTyped, QuietMail
  <2> QED BY <2>1, <2>2
<1>4. CASE WebRestart
  BY <1>4, RestartTyped, QuietMail DEF WebRestart
<1>5. ASSUME NEW m \in Incoming, Deliver(m) PROVE WebmailInv'
  BY <1>5, DeliverStep
<1>6. ASSUME NEW f \in maildir, SeenByClient(f) \/ Expunged(f) PROVE WebmailInv'
  BY <1>6, SeenStep, ExpungedStep
<1>7. CASE Tick
  BY <1>7, TickTyped, QuietMail DEF Tick
<1>8. CASE UNCHANGED webvars
  <2>1. MailTyped'
    BY <1>8 DEF webvars, MailTyped
  <2> QED BY <1>8, <2>1, QuietMail DEF webvars
<1> QED
  BY <1>1, <1>2, <1>3, <1>4, <1>5, <1>6, <1>7, <1>8 DEF WebmailNext

LEMMA WebmailImplies == WebmailInv => WebmailTypeOK /\ SentCopiesKept
<1> SUFFICES ASSUME WebmailInv PROVE WebmailTypeOK /\ SentCopiesKept
  OBVIOUS
<1>1. WebmailTypeOK
  BY DEF WebmailInv, MailTyped, WebmailTypeOK, MailFile, Line, Copy, Sending
<1>2. SentCopiesKept
  BY DEF WebmailInv, SentCopiesKept, CopiesStay, AnswersAsListed
<1> QED BY <1>1, <1>2

\* The mailbox and the requests to send keep their types; a file in cur/ has a name with
\* flags, and only such a file has (mailbox operations of webmail.rs).
THEOREM WebmailTypeCorrect == WebmailSpec => []WebmailTypeOK
BY WebmailStarts, WebmailStep, WebmailImplies, PTL DEF WebmailSpec

\* Copies of sent mail outlive each other, and an old name never leads to another mail,
\* unless two mails of one length were sent in one second (send_email, delete_email).
THEOREM CopiesAreKept == WebmailSpec => []SentCopiesKept
BY WebmailStarts, WebmailStep, WebmailImplies, PTL DEF WebmailSpec

------------------------------------------------------------------------------
(* The MCP guard.  The calls a key was let through in the last Window are   *)
(* matched, one to one, with times in the guard's list; so are its list of *)
(* destructive times with its list of all times.                           *)

\* The values of f are found in q, each at a place of its own.
Fits(f, q) ==
    \E pos \in [DOMAIN f -> 1..Len(q)] :
      /\ \A a, b \in DOMAIN f : pos[a] = pos[b] => a = b
      /\ \A a \in DOMAIN f : q[pos[a]] = f[a]

\* No more values than places.
LEMMA FitsLen ==
    ASSUME NEW f, NEW q \in Seq(Nat), Fits(f, q)
    PROVE  /\ IsFiniteSet(DOMAIN f)
           /\ Cardinality(DOMAIN f) \in Nat /\ Cardinality(DOMAIN f) <= Len(q)
<1>1. PICK pos \in [DOMAIN f -> 1..Len(q)] : \A a, b \in DOMAIN f : pos[a] = pos[b] => a = b
  BY DEF Fits
<1>2. pos \in Injection(DOMAIN f, 1..Len(q))
  BY <1>1, Fun_IsInj
<1>3. Len(q) \in Nat /\ IsFiniteSet(1..Len(q)) /\ Cardinality(1..Len(q)) = Len(q)
  BY FS_Interval
<1>4. IsFiniteSet(DOMAIN f) /\ Cardinality(DOMAIN f) <= Cardinality(1..Len(q))
  BY <1>2, <1>3, FS_Injection
<1> QED BY <1>3, <1>4, FS_CardinalityType

\* Some of the values fit where all do.
LEMMA FitsFewer ==
    ASSUME NEW f, NEW g, NEW q, Fits(f, q), NEW m \in [DOMAIN g -> DOMAIN f],
           \A a, b \in DOMAIN g : m[a] = m[b] => a = b,
           \A a \in DOMAIN g : g[a] = f[m[a]]
    PROVE  Fits(g, q)
<1>1. PICK pos \in [DOMAIN f -> 1..Len(q)] :
            /\ \A a, b \in DOMAIN f : pos[a] = pos[b] => a = b
            /\ \A a \in DOMAIN f : q[pos[a]] = f[a]
  BY DEF Fits
<1> DEFINE p == [a \in DOMAIN g |-> pos[m[a]]]
<1>2. p \in [DOMAIN g -> 1..Len(q)]
  BY <1>1
<1>3. \A a, b \in DOMAIN g : p[a] = p[b] => a = b
  BY <1>1
<1>4. \A a \in DOMAIN g : q[p[a]] = g[a]
  BY <1>1
<1> HIDE DEF p
<1> QED BY <1>2, <1>3, <1>4 DEF Fits

\* One value more fits when it is appended.
LEMMA FitsMore ==
    ASSUME NEW f, NEW q \in Seq(Nat), Fits(f, q), NEW r, NEW v \in Nat, NEW g,
           DOMAIN g \subseteq DOMAIN f \cup {r}, r \in DOMAIN g => g[r] = v,
           \A a \in DOMAIN g \ {r} : g[a] = f[a]
    PROVE  Fits(g, Append(q, v))
<1>1. PICK pos \in [DOMAIN f -> 1..Len(q)] :
            /\ \A a, b \in DOMAIN f : pos[a] = pos[b] => a = b
            /\ \A a \in DOMAIN f : q[pos[a]] = f[a]
  BY DEF Fits
<1> DEFINE n == Append(q, v)
           p == [a \in DOMAIN g |-> IF a = r THEN Len(q) + 1 ELSE pos[a]]
<1>2. /\ Len(q) \in Nat /\ Len(n) = Len(q) + 1 /\ n[Len(q) + 1] = v
      /\ \A i \in 1..Len(q) : n[i] = q[i]
  BY AppendProperties
<1> HIDE DEF n
<1>3. p \in [DOMAIN g -> 1..Len(n)]
  BY <1>1, <1>2
<1>4. \A a, b \in DOMAIN g : p[a] = p[b] => a = b
  <2> SUFFICES ASSUME NEW a \in DOMAIN g, NEW b \in DOMAIN g, p[a] = p[b] PROVE a = b
    OBVIOUS
  <2>1. \A c \in DOMAIN g \ {r} : c \in DOMAIN f /\ p[c] = pos[c] /\ pos[c] \in 1..Len(q)
    BY <1>1
  <2> QED BY <1>1, <1>2, <2>1
<1>5. \A a \in DOMAIN g : n[p[a]] = g[a]
  <2> TAKE a \in DOMAIN g
  <2>1. CASE a = r
    BY <1>2, <2>1
  <2>2. CASE a # r
    <3>1. a \in DOMAIN f /\ p[a] = pos[a] /\ pos[a] \in 1..Len(q)
      BY <1>1, <2>2
    <3> QED BY <1>1, <1>2, <2>2, <3>1
  <2> QED BY <2>1, <2>2
<1> HIDE DEF p
<1>6. Fits(g, n)
  BY <1>3, <1>4, <1>5 DEF Fits
<1> QED BY <1>6 DEF n

\* Every set of natural numbers that has an element has a least one.
LEMMA LeastNatural ==
    ASSUME NEW T, T \subseteq Nat, T # {}
    PROVE  \E m \in T : \A k \in T : m <= k
<1> DEFINE R == OpToRel(<, Nat)
<1>1. \A x, y \in Nat : <<x, y>> \in R <=> x < y
  BY DEF OpToRel
<1>2. IsWellFoundedOn(R, Nat)
  BY NatLessThanWellFounded
<1> HIDE DEF R
<1>3. PICK m \in T : \A k \in T : ~(<<k, m>> \in R)
  BY <1>2, WFMin
<1>4. \A k \in T : ~(k < m)
  BY <1>1, <1>3
<1> QED BY <1>4

\* The front is popped up to the first recent time, wherever that is.
LEMMA FirstRecentIs ==
    ASSUME second \in Nat, NEW q \in Seq(Nat)
    PROVE  /\ FirstRecent(q) \in 1..(Len(q) + 1)
           /\ \A j \in 1..(FirstRecent(q) - 1) : q[j] + Window < second
           /\ FirstRecent(q) <= Len(q) => q[FirstRecent(q)] + Window >= second
<1> DEFINE T == {i \in 1..(Len(q) + 1) : i <= Len(q) => q[i] + Window >= second}
<1>1. Len(q) \in Nat /\ \A i \in 1..Len(q) : q[i] \in Nat
  OBVIOUS
<1>2. T \subseteq Nat /\ Len(q) + 1 \in T
  BY <1>1
<1>3. PICK least \in T : \A k \in T : least <= k
  BY <1>2, LeastNatural
<1>4. ASSUME NEW j \in 1..(least - 1)
      PROVE  q[j] + Window < second
  <2>1. j \in 1..(Len(q) + 1) /\ j <= Len(q) /\ j \notin T
    BY <1>1, <1>3
  <2> QED BY <1>1, <2>1, McpAssumption
<1>5. \E i \in 1..(Len(q) + 1) : /\ \A j \in 1..(i - 1) : q[j] + Window < second
                                 /\ i <= Len(q) => q[i] + Window >= second
  BY <1>3, <1>4
<1>6. \E n \in 1..(Len(q) + 1) : /\ n = FirstRecent(q)
                                 /\ \A j \in 1..(n - 1) : q[j] + Window < second
                                 /\ n <= Len(q) => q[n] + Window >= second
  BY <1>5 DEF FirstRecent
<1> QED BY <1>6

\* What is left is the end of the list.
LEMMA RecentIs ==
    ASSUME second \in Nat, NEW q \in Seq(Nat)
    PROVE  /\ Recent(q) \in Seq(Nat)
           /\ Len(Recent(q)) = Len(q) + 1 - FirstRecent(q)
           /\ \A i \in 1..Len(Recent(q)) :
                Recent(q)[i] = q[FirstRecent(q) + i - 1] /\ FirstRecent(q) + i - 1 \in 1..Len(q)
<1> DEFINE n == FirstRecent(q)
<1>1. n \in 1..(Len(q) + 1) /\ Len(q) \in Nat
  BY FirstRecentIs
<1>2. \A i \in n..Len(q) : q[i] \in Nat
  BY <1>1
<1> HIDE DEF n
<1>3. /\ SubSeq(q, n, Len(q)) \in Seq(Nat)
      /\ Len(SubSeq(q, n, Len(q))) = IF n <= Len(q) THEN Len(q) - n + 1 ELSE 0
      /\ \A i \in 1..(Len(q) - n + 1) : SubSeq(q, n, Len(q))[i] = q[n + i - 1]
  BY <1>1, <1>2, SubSeqProperties
<1>4. Recent(q) = SubSeq(q, n, Len(q))
  BY DEF Recent, n
<1>5. Recent(q) \in Seq(Nat) /\ Len(Recent(q)) = Len(q) + 1 - n
  BY <1>1, <1>3, <1>4
<1>6. ASSUME NEW i \in 1..Len(Recent(q))
      PROVE  Recent(q)[i] = q[n + i - 1] /\ n + i - 1 \in 1..Len(q)
  BY <1>1, <1>3, <1>4, <1>5
<1> QED BY <1>5, <1>6 DEF n

\* Recent values fit into what is left.
LEMMA FitsRecent ==
    ASSUME second \in Nat, NEW f, NEW q \in Seq(Nat), Fits(f, q),
           \A a \in DOMAIN f : f[a] \in Nat /\ f[a] + Window >= second
    PROVE  Fits(f, Recent(q))
<1> DEFINE n == FirstRecent(q) r == Recent(q)
<1>1. /\ n \in 1..(Len(q) + 1) /\ Len(q) \in Nat
      /\ \A j \in 1..(n - 1) : q[j] + Window < second
  BY FirstRecentIs
<1>2. /\ Len(r) = Len(q) + 1 - n
      /\ \A i \in 1..Len(r) : r[i] = q[n + i - 1]
  BY RecentIs
<1> HIDE DEF n, r
<1>3. PICK pos \in [DOMAIN f -> 1..Len(q)] :
            /\ \A a, b \in DOMAIN f : pos[a] = pos[b] => a = b
            /\ \A a \in DOMAIN f : q[pos[a]] = f[a]
  BY DEF Fits
<1>4. ASSUME NEW a \in DOMAIN f PROVE pos[a] >= n
  BY <1>1, <1>3, McpAssumption
<1> DEFINE p == [a \in DOMAIN f |-> pos[a] - n + 1]
<1>5. \A a \in DOMAIN f : p[a] = pos[a] - n + 1 /\ p[a] \in 1..Len(r) /\ pos[a] \in Nat
  BY <1>1, <1>2, <1>3, <1>4
<1>6. p \in [DOMAIN f -> 1..Len(r)]
  BY <1>5
<1> HIDE DEF p
<1>7. \A a, b \in DOMAIN f : p[a] = p[b] => a = b
  <2> SUFFICES ASSUME NEW a \in DOMAIN f, NEW b \in DOMAIN f, p[a] = p[b] PROVE a = b
    OBVIOUS
  <2>1. pos[a] = pos[b]
    BY <1>1, <1>5
  <2> QED BY <1>3, <2>1
<1>8. \A a \in DOMAIN f : r[p[a]] = f[a]
  <2> TAKE a \in DOMAIN f
  <2>1. r[p[a]] = q[n + p[a] - 1]
    BY <1>2, <1>5
  <2>2. n + p[a] - 1 = pos[a]
    BY <1>1, <1>5
  <2> QED BY <1>3, <2>1, <2>2
<1> QED BY <1>6, <1>7, <1>8 DEF Fits, r

\* So do the recent values of another list, when its times are in order.
Ordered(q) == \A i, j \in 1..Len(q) : i <= j => q[i] <= q[j]

LEMMA RecentFits ==
    ASSUME second \in Nat, NEW d \in Seq(Nat), NEW q \in Seq(Nat), Fits(d, q), Ordered(d)
    PROVE  Fits(Recent(d), Recent(q)) /\ Ordered(Recent(d))
<1> DEFINE n == FirstRecent(d) r == Recent(d)
<1>1. /\ n \in 1..(Len(d) + 1) /\ Len(d) \in Nat
      /\ n <= Len(d) => d[n] + Window >= second
  BY FirstRecentIs
<1>2. /\ r \in Seq(Nat) /\ Len(r) = Len(d) + 1 - n
      /\ \A i \in 1..Len(r) : r[i] = d[n + i - 1] /\ n + i - 1 \in 1..Len(d)
  BY RecentIs
<1> HIDE DEF n, r
<1>3. DOMAIN r = 1..Len(r) /\ DOMAIN d = 1..Len(d)
  BY <1>2
<1>4. \A i \in 1..Len(r) : r[i] \in Nat /\ r[i] + Window >= second
  <2> TAKE i \in 1..Len(r)
  <2>1. n \in 1..Len(d) /\ n + i - 1 \in 1..Len(d) /\ n <= n + i - 1
    BY <1>1, <1>2
  <2>2. d[n] <= d[n + i - 1] /\ d[n] \in Nat /\ d[n + i - 1] \in Nat
    BY <2>1 DEF Ordered
  <2>3. d[n + i - 1] + Window >= second
    <3>1. d[n] + Window >= second
      BY <1>1, <2>1
    <3>2. \A x, y \in Nat : x <= y /\ x + Window >= second => y + Window >= second
      BY McpAssumption
    <3> QED BY <2>2, <3>1, <3>2
  <2>4. r[i] = d[n + i - 1]
    BY <1>2
  <2> QED BY <2>2, <2>3, <2>4
<1> DEFINE m == [i \in 1..Len(r) |-> n + i - 1]
<1>5. m \in [DOMAIN r -> DOMAIN d]
  BY <1>2, <1>3
<1>6. \A i \in DOMAIN r : r[i] = d[m[i]]
  BY <1>2, <1>3
<1>7. \A a, b \in DOMAIN r : m[a] = m[b] => a = b
  BY <1>1, <1>3
<1> HIDE DEF m
<1>8. Fits(r, q)
  BY <1>5, <1>6, <1>7, FitsFewer
<1>9. Fits(r, Recent(q))
  BY <1>3, <1>4, <1>8, FitsRecent
<1>10. Ordered(r)
  <2> SUFFICES ASSUME NEW i \in 1..Len(r), NEW j \in 1..Len(r), i <= j PROVE r[i] <= r[j]
    BY DEF Ordered
  <2>1. n + i - 1 \in 1..Len(d) /\ n + j - 1 \in 1..Len(d) /\ n + i - 1 <= n + j - 1
    BY <1>1, <1>2
  <2> QED BY <1>2, <2>1 DEF Ordered
<1> QED BY <1>9, <1>10 DEF r

------------------------------------------------------------------------------

Guard == [calls : Seq(Nat), destructive : Seq(Nat), failures : 0..MaxFailures]
Call == [pc : {"idle", "running", "succeeded", "failed", "answered"},
         key : Keys \cup {"none"}, tool : Tools \cup {"none"}]
Admission == [call : Calls, key : Keys, at : Nat, destructive : BOOLEAN]

GuardTyped ==
    /\ mcp_guard \in [Keys -> Guard]
    /\ request \in [Calls -> Call]
    /\ \A c \in Calls : request[c].pc \in {"running", "succeeded", "failed"} => request[c].key \in Keys
    /\ admitted \in SUBSET Admission /\ IsFiniteSet(admitted)
    /\ \A a \in admitted : a.at <= second

\* When calls of key k that are still recent at time now were let through.
Admitted(k, only, now) ==
    [a \in {b \in admitted : b.key = k /\ b.at + Window >= now /\ (only => b.destructive)} |-> a.at]

\* The lists of a guard account for the calls of its key.
AccountsFor(k, g) ==
    /\ Fits(Admitted(k, FALSE, second), g.calls)
    /\ Fits(Admitted(k, TRUE, second), g.destructive)
    /\ Fits(g.destructive, g.calls)
    /\ Ordered(g.destructive) /\ \A i \in 1..Len(g.destructive) : g.destructive[i] <= second

Limit(only) == IF only THEN DESTRUCTIVE_RATE_LIMIT ELSE RATE_LIMIT
Within(k, t, only) == Cardinality(AdmittedIn(k, t, only)) <= Limit(only)

GuardInv ==
    /\ GuardTyped
    /\ \A k \in Keys : AccountsFor(k, mcp_guard[k])
    /\ \A k \in Keys, t \in Nat, only \in BOOLEAN : Within(k, t, only)
McpInv == WebmailInv /\ GuardInv

\* With fewer calls to account for, the same lists do.
LEMMA FewerAdmitted ==
    ASSUME GuardTyped, second \in Nat, NEW k, NEW only, NEW now \in Nat, second <= now, NEW q,
           Fits(Admitted(k, only, second), q)
    PROVE  Fits(Admitted(k, only, now), q)
<1> DEFINE f == Admitted(k, only, second) g == Admitted(k, only, now)
           m == [a \in DOMAIN g |-> a]
<1>1. DOMAIN g \subseteq DOMAIN f
  BY McpAssumption DEF Admitted, GuardTyped, Admission
<1>2. \A a \in DOMAIN g : g[a] = f[a]
  BY <1>1 DEF Admitted
<1> HIDE DEF f, g
<1>3. m \in [DOMAIN g -> DOMAIN f]
  BY <1>1
<1>4. \A a, b \in DOMAIN g : m[a] = m[b] => a = b
  OBVIOUS
<1>5. \A a \in DOMAIN g : g[a] = f[m[a]]
  BY <1>2
<1> HIDE DEF m
<1> QED BY <1>3, <1>4, <1>5, FitsFewer DEF f, g

\* Evicting old times keeps the account.
LEMMA EvictKeeps ==
    ASSUME GuardTyped, second \in Nat, NEW k \in Keys, NEW g \in Guard, AccountsFor(k, g)
    PROVE  evict_old(g) \in Guard /\ AccountsFor(k, evict_old(g))
<1> DEFINE e == evict_old(g)
<1>1. g.calls \in Seq(Nat) /\ g.destructive \in Seq(Nat)
  BY DEF Guard
<1>2. Recent(g.calls) \in Seq(Nat) /\ Recent(g.destructive) \in Seq(Nat)
  BY <1>1, RecentIs
<1>3. /\ e \in Guard /\ e.calls = Recent(g.calls) /\ e.destructive = Recent(g.destructive)
  BY <1>2 DEF evict_old, Guard
<1>4. \A only : \A a \in DOMAIN Admitted(k, only, second) :
        /\ Admitted(k, only, second)[a] \in Nat
        /\ Admitted(k, only, second)[a] + Window >= second
  BY DEF Admitted, GuardTyped, Admission
<1>5. Fits(Admitted(k, FALSE, second), e.calls)
  BY <1>1, <1>3, <1>4, FitsRecent DEF AccountsFor
<1>6. Fits(Admitted(k, TRUE, second), e.destructive)
  BY <1>1, <1>3, <1>4, FitsRecent DEF AccountsFor
<1>7. Fits(e.destructive, e.calls) /\ Ordered(e.destructive)
  BY <1>1, <1>3, RecentFits DEF AccountsFor
<1>8. \A i \in 1..Len(e.destructive) : e.destructive[i] <= second
  <2> DEFINE n == FirstRecent(g.destructive) d == g.destructive
  <2>1. \A i \in 1..Len(Recent(d)) : Recent(d)[i] = d[n + i - 1] /\ n + i - 1 \in 1..Len(d)
    BY <1>1, RecentIs
  <2>2. \A i \in 1..Len(d) : d[i] <= second
    BY DEF AccountsFor
  <2>3. e.destructive = Recent(d)
    BY <1>3
  <2> HIDE DEF n, d, e
  <2> QED BY <2>1, <2>2, <2>3
<1> QED BY <1>3, <1>5, <1>6, <1>7, <1>8 DEF AccountsFor

\* Recording a call keeps the account, with the call in it.
LEMMA RecordKeeps ==
    ASSUME GuardTyped, second \in Nat, NEW k \in Keys, NEW c \in Calls, NEW b \in BOOLEAN,
           NEW g \in Guard, AccountsFor(k, g), second' = second,
           admitted' = admitted \cup {[call |-> c, key |-> k, at |-> second, destructive |-> b]}
    PROVE  LET r == Recorded(g, b) IN
           /\ r \in Guard
           /\ Fits(Admitted(k, FALSE, second)', r.calls)
           /\ Fits(Admitted(k, TRUE, second)', r.destructive)
           /\ Fits(r.destructive, r.calls)
           /\ Ordered(r.destructive) /\ \A i \in 1..Len(r.destructive) : r.destructive[i] <= second
<1> DEFINE row == [call |-> c, key |-> k, at |-> second, destructive |-> b]
           r == Recorded(g, b)
           d == g.destructive
<1>1. g.calls \in Seq(Nat) /\ d \in Seq(Nat) /\ Len(d) \in Nat
  BY DEF Guard
<1>2. /\ Append(g.calls, second) \in Seq(Nat) /\ Append(d, second) \in Seq(Nat)
      /\ Len(Append(d, second)) = Len(d) + 1
      /\ \A i \in 1..Len(d) : Append(d, second)[i] = d[i]
      /\ Append(d, second)[Len(d) + 1] = second
  BY <1>1, AppendProperties
<1>3. /\ r \in Guard /\ r.calls = Append(g.calls, second)
      /\ r.destructive = IF b THEN Append(d, second) ELSE d
  BY <1>2 DEF Recorded, Guard
<1>4. row.key = k /\ row.at = second /\ row.destructive = b
  OBVIOUS
<1> HIDE DEF row, r, d
<1>5. ASSUME NEW only \in BOOLEAN
      PROVE  /\ DOMAIN (Admitted(k, only, second)') \subseteq DOMAIN Admitted(k, only, second) \cup {row}
             /\ \A a \in DOMAIN (Admitted(k, only, second)') \ {row} :
                  Admitted(k, only, second)'[a] = Admitted(k, only, second)[a]
             /\ row \in DOMAIN (Admitted(k, only, second)') =>
                  Admitted(k, only, second)'[row] = second /\ (only => b)
  BY <1>4 DEF Admitted, row
<1>6. Fits(Admitted(k, FALSE, second)', r.calls)
  <2> DEFINE f == Admitted(k, FALSE, second) h == Admitted(k, FALSE, second)'
  <2>1. Fits(f, g.calls)
    BY DEF AccountsFor
  <2>2. /\ DOMAIN h \subseteq DOMAIN f \cup {row} /\ \A a \in DOMAIN h \ {row} : h[a] = f[a]
        /\ row \in DOMAIN h => h[row] = second
    BY <1>5
  <2> HIDE DEF f, h
  <2>3. Fits(h, Append(g.calls, second))
    BY <1>1, <2>1, <2>2, FitsMore
  <2> QED BY <1>3, <2>3 DEF h
<1>7. Fits(Admitted(k, TRUE, second)', r.destructive)
  <2>1. CASE b
    <3> DEFINE f == Admitted(k, TRUE, second) h == Admitted(k, TRUE, second)'
    <3>1. Fits(f, d)
      BY DEF AccountsFor, d
    <3>2. /\ DOMAIN h \subseteq DOMAIN f \cup {row} /\ \A a \in DOMAIN h \ {row} : h[a] = f[a]
          /\ row \in DOMAIN h => h[row] = second
      BY <1>5
    <3> HIDE DEF f, h
    <3>3. Fits(h, Append(d, second))
      BY <1>1, <3>1, <3>2, FitsMore
    <3> QED BY <1>3, <2>1, <3>3 DEF h
  <2>2. CASE ~b
    <3> DEFINE f == Admitted(k, TRUE, second) h == Admitted(k, TRUE, second)'
               m == [a \in DOMAIN h |-> a]
    <3>1. DOMAIN h \subseteq DOMAIN f /\ \A a \in DOMAIN h : h[a] = f[a]
      BY <1>5, <2>2
    <3>2. Fits(f, d)
      BY DEF AccountsFor, d
    <3> HIDE DEF f, h
    <3>3. m \in [DOMAIN h -> DOMAIN f]
      BY <3>1
    <3>4. \A x, y \in DOMAIN h : m[x] = m[y] => x = y
      OBVIOUS
    <3>5. \A a \in DOMAIN h : h[a] = f[m[a]]
      BY <3>1
    <3> HIDE DEF m
    <3>6. Fits(h, d)
      BY <3>2, <3>3, <3>4, <3>5, FitsFewer
    <3> QED BY <1>3, <2>2, <3>6 DEF h
  <2> QED BY <2>1, <2>2
<1>8. Fits(r.destructive, r.calls)
  <2>1. DOMAIN d = 1..Len(d) /\ DOMAIN Append(d, second) = 1..(Len(d) + 1)
    BY <1>1, <1>2
  <2>2. Fits(d, g.calls)
    BY DEF AccountsFor, d
  <2>3. CASE b
    <3> DEFINE h == Append(d, second) n == Len(d) + 1
    <3>1. /\ DOMAIN h \subseteq DOMAIN d \cup {n} /\ h[n] = second
          /\ \A a \in DOMAIN h \ {n} : h[a] = d[a]
      BY <1>1, <1>2, <2>1
    <3> HIDE DEF h, n
    <3>2. Fits(h, Append(g.calls, second))
      BY <1>1, <2>2, <3>1, FitsMore
    <3> QED BY <1>3, <2>3, <3>2 DEF h
  <2>4. CASE ~b
    <3> DEFINE n == Len(d) + 1
    <3>1. n \notin DOMAIN d
      BY <1>1, <2>1
    <3> HIDE DEF n
    <3>2. Fits(d, Append(g.calls, second))
      BY <1>1, <2>2, <3>1, FitsMore
    <3> QED BY <1>3, <2>4, <3>2
  <2> QED BY <2>3, <2>4
<1>9. Ordered(r.destructive) /\ \A i \in 1..Len(r.destructive) : r.destructive[i] <= second
  <2>1. Ordered(d) /\ \A i \in 1..Len(d) : d[i] <= second
    BY DEF AccountsFor, d
  <2>2. CASE b
    <3>1. \A i \in 1..(Len(d) + 1) : Append(d, second)[i] <= second
      BY <1>1, <1>2, <2>1
    <3>2. ASSUME NEW i \in 1..(Len(d) + 1), NEW j \in 1..(Len(d) + 1), i <= j
          PROVE  Append(d, second)[i] <= Append(d, second)[j]
      <4>1. CASE j = Len(d) + 1
        BY <1>2, <3>1, <4>1
      <4>2. CASE j # Len(d) + 1
        <5>1. i \in 1..Len(d) /\ j \in 1..Len(d)
          BY <1>1, <3>2, <4>2
        <5> QED BY <1>2, <2>1, <3>2, <5>1 DEF Ordered
      <4> QED BY <4>1, <4>2
    <3> QED BY <1>2, <1>3, <2>2, <3>1, <3>2 DEF Ordered
  <2>3. CASE ~b
    BY <1>3, <2>1, <2>3
  <2> QED BY <2>2, <2>3
<1> QED BY <1>3, <1>6, <1>7, <1>8, <1>9 DEF r

\* A call that is let through finds room in every window it belongs to.
LEMMA RoomInWindows ==
    ASSUME GuardTyped, second \in Nat, NEW k \in Keys, NEW c \in Calls, NEW b \in BOOLEAN,
           NEW g \in Guard, AccountsFor(k, g), ~Refuses(g, b),
           admitted' = admitted \cup {[call |-> c, key |-> k, at |-> second, destructive |-> b]},
           NEW x \in Keys, NEW t \in Nat, NEW only \in BOOLEAN, Within(x, t, only)
    PROVE  Within(x, t, only)'
<1> DEFINE row == [call |-> c, key |-> k, at |-> second, destructive |-> b]
           S == AdmittedIn(x, t, only)
<1>1. row.key = k /\ row.at = second /\ row.destructive = b
  OBVIOUS
<1> HIDE DEF row
<1>2. AdmittedIn(x, t, only)' = IF k = x /\ second \in t..(t + Window) /\ (only => b)
                                  THEN S \cup {row} ELSE S
  BY <1>1 DEF AdmittedIn, row
<1>3. IsFiniteSet(S)
  BY FS_Subset DEF GuardTyped, AdmittedIn
<1>4. CASE k = x /\ second \in t..(t + Window) /\ (only => b)
  <2> DEFINE f == Admitted(k, only, second)
             q == IF only THEN g.destructive ELSE g.calls
  <2>1. S \subseteq DOMAIN f
    BY <1>4, McpAssumption DEF AdmittedIn, Admitted, GuardTyped, Admission
  <2>2. q \in Seq(Nat) /\ Fits(f, q)
    BY DEF Guard, AccountsFor
  <2>3. Len(q) < Limit(only) /\ Len(q) \in Nat /\ Limit(only) \in Nat
    BY <1>4, <2>2, McpAssumption DEF Refuses, Limit, Guard
  <2> HIDE DEF f, q
  <2>4. IsFiniteSet(DOMAIN f) /\ Cardinality(DOMAIN f) \in Nat /\ Cardinality(DOMAIN f) <= Len(q)
    BY <2>2, FitsLen
  <2>5. Cardinality(S) <= Cardinality(DOMAIN f) /\ Cardinality(S) \in Nat
    BY <1>3, <2>1, <2>4, FS_Subset, FS_CardinalityType
  <2> HIDE DEF S
  <2>6. Cardinality(S \cup {row}) <= Cardinality(S) + 1 /\ Cardinality(S \cup {row}) \in Nat
    <3>1. Cardinality(S \cup {row}) = IF row \in S THEN Cardinality(S) ELSE Cardinality(S) + 1
      BY <1>3, FS_AddElement
    <3> QED BY <2>5, <3>1
  <2>7. Cardinality(S \cup {row}) <= Limit(only)
    BY <2>3, <2>4, <2>5, <2>6
  <2> QED BY <1>2, <1>4, <2>7 DEF Within, Limit, S
<1>5. CASE ~(k = x /\ second \in t..(t + Window) /\ (only => b))
  BY <1>2, <1>5 DEF Within, Limit
<1> QED BY <1>4, <1>5

\* Time may pass, and counters of failures change.
LEMMA GuardKept ==
    ASSUME GuardInv, GuardTyped', second \in Nat, second' \in Nat, second <= second',
           admitted' = admitted,
           \A k \in Keys : /\ mcp_guard'[k].calls = mcp_guard[k].calls
                           /\ mcp_guard'[k].destructive = mcp_guard[k].destructive
    PROVE  GuardInv'
<1> USE DEF GuardInv
<1>1. ASSUME NEW k \in Keys PROVE AccountsFor(k, mcp_guard[k])'
  <2> DEFINE g == mcp_guard[k] h == mcp_guard'[k]
  <2>1. h.calls = g.calls /\ h.destructive = g.destructive /\ g.destructive \in Seq(Nat)
    BY DEF GuardTyped, Guard
  <2>2. AccountsFor(k, g)
    OBVIOUS
  <2>3. \A only : Admitted(k, only, second)' = Admitted(k, only, second')
    BY DEF Admitted
  <2> HIDE DEF g, h
  <2>4. Fits(Admitted(k, FALSE, second'), h.calls)
    BY <2>1, <2>2, FewerAdmitted DEF AccountsFor
  <2>5. Fits(Admitted(k, TRUE, second'), h.destructive)
    BY <2>1, <2>2, FewerAdmitted DEF AccountsFor
  <2>6. Fits(h.destructive, h.calls) /\ Ordered(h.destructive)
    BY <2>1, <2>2 DEF AccountsFor
  <2>7. \A i \in 1..Len(h.destructive) : h.destructive[i] <= second'
    <3> TAKE i \in 1..Len(h.destructive)
    <3>1. h.destructive[i] \in Nat /\ h.destructive[i] <= second
      BY <2>1, <2>2 DEF AccountsFor
    <3> QED BY <3>1
  <2> QED BY <2>3, <2>4, <2>5, <2>6, <2>7 DEF AccountsFor, h
<1>2. ASSUME NEW k \in Keys, NEW t \in Nat, NEW only \in BOOLEAN PROVE Within(k, t, only)'
  <2>1. Within(k, t, only)
    OBVIOUS
  <2>2. AdmittedIn(k, t, only)' = AdmittedIn(k, t, only)
    BY DEF AdmittedIn
  <2> QED BY <2>1, <2>2 DEF Within, Limit
<1> QED BY <1>1, <1>2

\* Only the call changes.
LEMMA CallChanges ==
    ASSUME GuardInv, second \in Nat, second' = second, UNCHANGED <<mcp_guard, admitted>>,
           request' \in [Calls -> Call],
           \A c \in Calls : request'[c].pc \in {"running", "succeeded", "failed"}
                              => request'[c].key \in Keys
    PROVE  GuardInv'
<1>1. GuardTyped'
  BY DEF GuardInv, GuardTyped
<1> QED BY <1>1, GuardKept

LEMMA NoCalls ==
    NoRequest \in Call /\ Answered \in Call /\ Answered.pc = "answered"
<1>1. NoRequest \in Call
  BY DEF NoRequest, Call
<1> QED BY <1>1 DEF Answered, Call

LEMMA HandleStep ==
    ASSUME GuardInv, second \in Nat, NEW c \in Calls, NEW k \in Keys, NEW tool \in Tools,
           handle(c, k, tool)
    PROVE  GuardInv'
<1> USE DEF GuardInv
<1> DEFINE g == evict_old(mcp_guard[k]) b == IsDestructive(tool)
           row == [call |-> c, key |-> k, at |-> second, destructive |-> b]
           run == [pc |-> "running", key |-> k, tool |-> tool]
<1>0. second' = second
  BY DEF handle, mailbox
<1>1. mcp_guard[k] \in Guard /\ AccountsFor(k, mcp_guard[k])
  BY DEF GuardTyped
<1>2. g \in Guard /\ AccountsFor(k, g)
  BY <1>1, EvictKeeps
<1>3. b \in BOOLEAN /\ run \in Call
  BY DEF IsDestructive, Call
<1>4. \/ /\ Refuses(g, b)
         /\ mcp_guard' = [mcp_guard EXCEPT ![k] = g]
         /\ request' = [request EXCEPT ![c] = Answered]
         /\ admitted' = admitted
      \/ /\ ~Refuses(g, b)
         /\ mcp_guard' = [mcp_guard EXCEPT ![k] = Recorded(g, b)]
         /\ request' = [request EXCEPT ![c] = run]
         /\ admitted' = admitted \cup {row}
  BY DEF handle
<1> HIDE DEF g, b
<1>5. CASE /\ Refuses(g, b)
           /\ mcp_guard' = [mcp_guard EXCEPT ![k] = g]
           /\ request' = [request EXCEPT ![c] = Answered]
           /\ admitted' = admitted
  <2>1. mcp_guard'[k] = g /\ \A x \in Keys \ {k} : mcp_guard'[x] = mcp_guard[x]
    BY <1>5 DEF GuardTyped
  <2>2. GuardTyped'
    BY <1>0, <1>2, <1>5, NoCalls DEF GuardTyped
  <2>3. \A x, only : Admitted(x, only, second)' = Admitted(x, only, second)
    BY <1>0, <1>5 DEF Admitted
  <2>4. \A x \in Keys : AccountsFor(x, mcp_guard[x])'
    BY <1>0, <1>2, <2>1, <2>3 DEF AccountsFor
  <2>5. ASSUME NEW x \in Keys, NEW t \in Nat, NEW only \in BOOLEAN PROVE Within(x, t, only)'
    BY <1>5 DEF Within, Limit, AdmittedIn
  <2> QED BY <2>2, <2>4, <2>5
<1>6. CASE /\ ~Refuses(g, b)
           /\ mcp_guard' = [mcp_guard EXCEPT ![k] = Recorded(g, b)]
           /\ request' = [request EXCEPT ![c] = run]
           /\ admitted' = admitted \cup {row}
  <2> DEFINE r == Recorded(g, b)
  <2>1. /\ r \in Guard
        /\ Fits(Admitted(k, FALSE, second)', r.calls)
        /\ Fits(Admitted(k, TRUE, second)', r.destructive)
        /\ Fits(r.destructive, r.calls)
        /\ Ordered(r.destructive) /\ \A i \in 1..Len(r.destructive) : r.destructive[i] <= second
    BY <1>0, <1>2, <1>3, <1>6, RecordKeeps
  <2> HIDE DEF r
  <2>2. mcp_guard'[k] = r /\ \A x \in Keys \ {k} : mcp_guard'[x] = mcp_guard[x]
    BY <1>6 DEF GuardTyped, r
  <2>3. GuardTyped'
    <3>1. mcp_guard' \in [Keys -> Guard]
      BY <1>6, <2>1 DEF GuardTyped, r
    <3>2. request' \in [Calls -> Call] /\ run.key = k
      BY <1>3, <1>6 DEF GuardTyped
    <3>3. \A x \in Calls : request'[x].pc \in {"running", "succeeded", "failed"}
                             => request'[x].key \in Keys
      BY <1>6, <3>2 DEF GuardTyped
    <3>4. row \in Admission /\ row.at = second
      BY <1>3 DEF Admission
    <3>5. IsFiniteSet(admitted')
      BY <1>6, FS_AddElement DEF GuardTyped
    <3>6. admitted' \in SUBSET Admission /\ \A a \in admitted' : a.at <= second'
      BY <1>0, <1>6, <3>4 DEF GuardTyped
    <3> QED BY <3>1, <3>2, <3>3, <3>5, <3>6 DEF GuardTyped
  <2>4. ASSUME NEW x \in Keys \ {k} PROVE AccountsFor(x, mcp_guard[x])'
    <3>1. \A only : Admitted(x, only, second)' = Admitted(x, only, second)
      <4>1. row.key # x
        BY <2>4
      <4> HIDE DEF row
      <4> QED BY <1>0, <1>6, <4>1 DEF Admitted
    <3>2. AccountsFor(x, mcp_guard[x]) /\ mcp_guard'[x] = mcp_guard[x]
      BY <2>2, <2>4
    <3> QED BY <1>0, <3>1, <3>2 DEF AccountsFor
  <2>5. AccountsFor(k, mcp_guard[k])'
    BY <1>0, <2>1, <2>2 DEF AccountsFor
  <2>6. ASSUME NEW x \in Keys, NEW t \in Nat, NEW only \in BOOLEAN PROVE Within(x, t, only)'
    <3>1. Within(x, t, only)
      OBVIOUS
    <3> QED BY <1>2, <1>3, <1>6, <3>1, RoomInWindows
  <2> QED BY <2>3, <2>4, <2>5, <2>6
<1> QED BY <1>4, <1>5, <1>6

LEMMA OutcomeStep ==
    ASSUME GuardInv, second \in Nat, NEW c \in Calls, Outcome(c)
    PROVE  GuardInv'
<1> DEFINE k == request[c].key
           g == record_outcome(mcp_guard[k], request[c].pc = "succeeded")
<1>1. /\ mcp_guard' = [mcp_guard EXCEPT ![k] = g]
      /\ request' = [request EXCEPT ![c] = Answered]
      /\ UNCHANGED <<second, admitted>>
      /\ k \in Keys
  BY DEF Outcome, mailbox, GuardInv, GuardTyped
<1>2. mcp_guard[k] \in Guard
  BY <1>1 DEF GuardInv, GuardTyped
<1> HIDE DEF k
<1>3. /\ g \in Guard /\ g.calls = mcp_guard[k].calls
      /\ g.destructive = mcp_guard[k].destructive
  <2> DEFINE m == mcp_guard[k]
             n == IF request[c].pc = "succeeded" THEN 0
                  ELSE IF m.failures < MaxFailures THEN m.failures + 1 ELSE m.failures
  <2>1. m \in Guard /\ m.failures \in 0..MaxFailures
    BY <1>2 DEF Guard
  <2>2. n \in 0..MaxFailures
    BY <2>1, McpAssumption
  <2>3. g = [m EXCEPT !.failures = n]
    BY DEF record_outcome
  <2> HIDE DEF n, m
  <2>4. /\ [m EXCEPT !.failures = n] \in Guard
        /\ [m EXCEPT !.failures = n].calls = m.calls
        /\ [m EXCEPT !.failures = n].destructive = m.destructive
    BY <2>1, <2>2 DEF Guard
  <2> QED BY <2>3, <2>4 DEF m
<1> HIDE DEF g
<1>4. GuardTyped'
  BY <1>1, <1>3, NoCalls DEF GuardInv, GuardTyped
<1>5. \A x \in Keys : /\ mcp_guard'[x].calls = mcp_guard[x].calls
                      /\ mcp_guard'[x].destructive = mcp_guard[x].destructive
  BY <1>1, <1>3 DEF GuardInv, GuardTyped
<1> QED BY <1>1, <1>4, <1>5, GuardKept

\* A fresh guard has nothing to account for.
LEMMA FreshAccounts ==
    ASSUME NEW k, admitted = {}
    PROVE  AccountsFor(k, FreshGuard) /\ \A t, only : Within(k, t, only)
<1>1. FreshGuard.calls = <<>> /\ FreshGuard.destructive = <<>>
  BY DEF FreshGuard
<1>2. \A f : DOMAIN f = {} => Fits(f, <<>>)
  <2> SUFFICES ASSUME NEW f, DOMAIN f = {} PROVE Fits(f, <<>>)
    OBVIOUS
  <2> DEFINE p == [a \in DOMAIN f |-> 1]
  <2>1. p \in [DOMAIN f -> 1..Len(<<>>)]
    OBVIOUS
  <2> HIDE DEF p
  <2> QED BY <2>1 DEF Fits
<1>3. \A only : DOMAIN Admitted(k, only, second) = {}
  BY DEF Admitted
<1>4. DOMAIN <<>> = {} /\ Len(<<>>) = 0
  OBVIOUS
<1>5. AccountsFor(k, FreshGuard)
  <2>1. /\ Fits(Admitted(k, FALSE, second), <<>>) /\ Fits(Admitted(k, TRUE, second), <<>>)
        /\ Fits(<<>>, <<>>)
    BY <1>2, <1>3, <1>4
  <2>2. Ordered(<<>>) /\ \A i \in 1..Len(<<>>) : (<<>>)[i] <= second
    BY <1>4 DEF Ordered
  <2> QED BY <1>1, <2>1, <2>2 DEF AccountsFor
<1>6. \A t, only : AdmittedIn(k, t, only) = {}
  BY DEF AdmittedIn
<1>7. \A only : 0 <= Limit(only)
  BY McpAssumption DEF Limit
<1> QED BY <1>5, <1>6, <1>7, FS_EmptySet DEF Within

GuardFresh ==
    /\ mcp_guard = [k \in Keys |-> FreshGuard] /\ admitted = {} /\ second \in Nat
    /\ request \in [Calls -> {NoRequest, Answered}]

LEMMA GuardStarts == GuardFresh => GuardInv
<1> SUFFICES ASSUME GuardFresh PROVE GuardInv
  OBVIOUS
<1>1. FreshGuard \in Guard
  <2>1. <<>> \in Seq(Nat) /\ 0 \in 0..MaxFailures
    BY McpAssumption
  <2> QED BY <2>1 DEF FreshGuard, Guard
<1>2. GuardTyped
  BY <1>1, NoCalls, FS_EmptySet DEF GuardFresh, GuardTyped, NoRequest
<1>3. \A k \in Keys : mcp_guard[k] = FreshGuard
  BY DEF GuardFresh
<1> QED BY <1>2, <1>3, FreshAccounts DEF GuardFresh, GuardInv

LEMMA GuardRestarts == GuardFresh' => GuardInv'
BY GuardStarts, PTL

LEMMA RestartStep ==
    ASSUME GuardInv, second \in Nat, ServerRestarts
    PROVE  GuardInv'
BY GuardRestarts DEF ServerRestarts, GuardFresh

\* The steps of a tool leave the guard and the clock alone.
LEMMA ToolStep ==
    ASSUME GuardInv, second \in Nat, NEW c \in Calls, NEW ok, Returns(c, ok), second' = second,
           request[c].pc = "running"
    PROVE  GuardInv'
<1> DEFINE r == [request[c] EXCEPT !.pc = IF ok THEN "succeeded" ELSE "failed", !.tool = "none"]
<1>1. request[c] \in Call /\ request[c].key \in Keys
  BY DEF GuardInv, GuardTyped
<1>2. r \in Call /\ r.key = request[c].key
  BY <1>1 DEF Call
<1>3. request' = [request EXCEPT ![c] = r]
  BY DEF Returns
<1> HIDE DEF r
<1>4. /\ request' \in [Calls -> Call]
      /\ \A x \in Calls : request'[x].pc \in {"running", "succeeded", "failed"}
                            => request'[x].key \in Keys
  BY <1>1, <1>2, <1>3 DEF GuardInv, GuardTyped
<1> QED BY <1>4, CallChanges DEF Returns

\* A step of the endpoint is a step of the mailbox, or leaves it alone.
LEMMA McpMailStep ==
    ASSUME WebmailInv, [McpNext]_mcpvars
    PROVE  WebmailInv'
<1> USE DEF WebmailInv
<1>1. ASSUME UNCHANGED mailbox PROVE WebmailInv'
  BY <1>1, WebmailStep DEF mailbox, webvars
<1>2. ASSUME NEW c \in Calls, ToolCall(c) PROVE WebmailInv'
  <2>1. ASSUME NEW folder \in {"INBOX", ".Sent"}, tool_list_emails(c, folder) PROVE WebmailInv'
    BY <2>1, InboxStep DEF tool_list_emails
  <2>2. ASSUME NEW x \in page, tool_read_email(c, x) \/ tool_delete_email(c, x) PROVE WebmailInv'
    BY <2>2, ShowsStep, DeleteStep DEF tool_read_email, tool_delete_email
  <2>3. CASE \/ \E k \in Keys, tool \in Tools : handle(c, k, tool)
             \/ dispatch_tool_call(c) \/ tool_list_accounts(c)
             \/ \E b \in BOOLEAN : tool_send_email(c, b)
             \/ Outcome(c)
    <3>1. UNCHANGED mailbox
      BY <2>3 DEF handle, dispatch_tool_call, tool_list_accounts, tool_send_email, Outcome
    <3> QED BY <1>1, <3>1
  <2> QED BY <1>2, <2>1, <2>2, <2>3 DEF ToolCall
<1>3. CASE ServerRestarts
  <2>1. mfaults' \in 0..MaxMailFaults
    BY <1>3, WebmailAssumption DEF ServerRestarts, MailTyped
  <2>2. MailTyped'
    BY <1>3, <2>1 DEF ServerRestarts, MailTyped
  <2> QED BY <1>3, <2>2, QuietMail DEF ServerRestarts
<1>4. CASE \/ \E m \in Incoming : Deliver(m)
           \/ \E f \in maildir : SeenByClient(f)
           \/ Tick
  BY <1>4, WebmailStep DEF WebmailNext
<1>5. CASE UNCHANGED mcpvars
  BY <1>1, <1>5 DEF mcpvars, mailbox, webvars
<1> QED BY <1>2, <1>3, <1>4, <1>5 DEF McpNext

LEMMA McpStep ==
    ASSUME McpInv, [McpNext]_mcpvars
    PROVE  McpInv'
<1> USE DEF McpInv
<1>0. second \in Nat /\ second' \in Nat /\ WebmailInv'
  BY McpMailStep, WebmailAssumption DEF WebmailInv, MailTyped
<1>1. ASSUME NEW c \in Calls, ToolCall(c) PROVE GuardInv'
  <2>1. ASSUME NEW k \in Keys, NEW tool \in Tools, handle(c, k, tool) PROVE GuardInv'
    BY <1>0, <2>1, HandleStep
  <2>2. CASE dispatch_tool_call(c) \/ tool_list_accounts(c)
    BY <1>0, <2>2, ToolStep DEF dispatch_tool_call, tool_list_accounts, Runs, mailbox
  <2>3. ASSUME NEW folder, tool_list_emails(c, folder) PROVE GuardInv'
    BY <1>0, <2>3, ToolStep DEF tool_list_emails, Runs, inbox
  <2>4. ASSUME NEW x \in page, tool_read_email(c, x) \/ tool_delete_email(c, x) PROVE GuardInv'
    BY <1>0, <2>4, ToolStep DEF tool_read_email, tool_delete_email, Runs, Shows, delete_email
  <2>5. ASSUME NEW b \in BOOLEAN, tool_send_email(c, b) PROVE GuardInv'
    BY <1>0, <2>5, ToolStep DEF tool_send_email, Runs, mailbox
  <2>6. CASE Outcome(c)
    BY <1>0, <2>6, OutcomeStep
  <2> QED BY <1>1, <2>1, <2>2, <2>3, <2>4, <2>5, <2>6 DEF ToolCall
<1>2. CASE ServerRestarts
  BY <1>0, <1>2, RestartStep
<1>3. ASSUME UNCHANGED <<mcp_guard, request, admitted>>, second <= second' PROVE GuardInv'
  <2>1. GuardTyped'
    BY <1>0, <1>3 DEF GuardInv, GuardTyped, Admission
  <2> QED BY <1>0, <1>3, <2>1, GuardKept
<1>4. CASE /\ \/ \E m \in Incoming : Deliver(m)
              \/ \E f \in maildir : SeenByClient(f)
              \/ Tick
           /\ UNCHANGED <<mcp_guard, request, admitted>>
  <2>1. second' = second \/ second' = second + 1
    BY <1>4 DEF Deliver, SeenByClient, Tick
  <2>2. second <= second'
    BY <1>0, <2>1
  <2> QED BY <1>0, <1>3, <1>4, <2>2
<1>5. CASE UNCHANGED mcpvars
  BY <1>0, <1>3, <1>5 DEF mcpvars, webvars
<1> QED BY <1>0, <1>1, <1>2, <1>4, <1>5 DEF McpNext

LEMMA McpImplies == McpInv => McpTypeOK /\ McpLimitHolds
<1> SUFFICES ASSUME McpInv PROVE McpTypeOK /\ McpLimitHolds
  OBVIOUS
<1>1. McpTypeOK
  <2>1. ASSUME NEW k \in Keys
        PROVE  /\ mcp_guard[k].failures \in 0..MaxFailures
               /\ Len(mcp_guard[k].destructive) <= Len(mcp_guard[k].calls)
    <3> DEFINE d == mcp_guard[k].destructive q == mcp_guard[k].calls
    <3>1. mcp_guard[k] \in Guard /\ Fits(d, q)
      BY DEF McpInv, GuardInv, GuardTyped, AccountsFor
    <3>2. d \in Seq(Nat) /\ q \in Seq(Nat) /\ mcp_guard[k].failures \in 0..MaxFailures
      BY <3>1 DEF Guard
    <3> HIDE DEF d, q
    <3>3. DOMAIN d = 1..Len(d) /\ Len(d) \in Nat
      BY <3>2
    <3>4. Cardinality(1..Len(d)) = Len(d)
      <4>1. \A n \in Nat : Cardinality(1..n) = n
        <5> TAKE n \in Nat
        <5>1. Cardinality(1..n) = IF 1 > n THEN 0 ELSE n - 1 + 1
          BY FS_Interval
        <5> QED BY <5>1
      <4> QED BY <3>3, <4>1
    <3>5. Cardinality(DOMAIN d) <= Len(q)
      BY <3>1, <3>2, FitsLen
    <3> QED BY <3>2, <3>3, <3>4, <3>5 DEF d, q
  <2> QED BY <2>1, WebmailImplies DEF McpInv, GuardInv, GuardTyped, Call, McpTypeOK
<1>2. McpLimitHolds
  <2> SUFFICES ASSUME NEW k \in Keys, NEW t \in 0..MaxSecond
               PROVE  /\ Cardinality(AdmittedIn(k, t, FALSE)) <= RATE_LIMIT
                      /\ Cardinality(AdmittedIn(k, t, TRUE)) <= DESTRUCTIVE_RATE_LIMIT
    BY DEF McpLimitHolds
  <2>1. t \in Nat
    BY WebmailAssumption
  <2>2. Within(k, t, FALSE) /\ Within(k, t, TRUE)
    BY <2>1 DEF McpInv, GuardInv
  <2> QED BY <2>2 DEF Within, Limit
<1> QED BY <1>1, <1>2

LEMMA McpStarts == WebmailInit /\ McpInit => McpInv
<1> SUFFICES ASSUME WebmailInit, McpInit PROVE McpInv
  OBVIOUS
<1>1. second \in Nat
  BY WebmailAssumption DEF WebmailInit
<1>2. GuardFresh
  BY <1>1 DEF McpInit, GuardFresh
<1> QED BY <1>2, WebmailStarts, GuardStarts DEF McpInv

\* The guard keeps its types, and no list of destructive times is longer than the list
\* of all (McpGuard, check_and_record, evict_old).
THEOREM McpTypeCorrect == McpSpec => []McpTypeOK
BY McpStarts, McpStep, McpImplies, PTL DEF McpSpec

\* No key gets more calls, or more that send or delete, than its limit into any window
\* (check_and_record), whatever overlaps, for any keys, calls, window and limits.
THEOREM McpLimitsHold == McpSpec => []McpLimitHolds
BY McpStarts, McpStep, McpImplies, PTL DEF McpSpec

------------------------------------------------------------------------------
(* The mail tables.  A statement changes rows of one or two tables and      *)
(* leaves the others as they are.                                           *)

DomainRow == [name : DomainNames, active : BOOLEAN, key : Secrets \cup {0}]
AccountRow == [status : {"active", "inactive"}, password : Secrets]
AliasRow == [dom : Domains, source : Sources, destination : Targets, active : BOOLEAN]
ForwardingRow == [dom : Domains, source : {s \in Sources : ~IsCatchAll(s)},
                  destination : Targets, active : BOOLEAN, keep : BOOLEAN]
RelayRow == [status : {"none", "active", "inactive"}, auth : BOOLEAN,
             secret : Secrets \cup {0}, assigned : SUBSET Patterns]
InboxRow == [kind : Kinds, account : Accounts, ruf : Accounts \cup {<<>>}]

\* A look at the tables one by one.
LEMMA TablesAre ==
    \A t : t \in Tables <=>
      /\ t = [domains |-> t.domains, accounts |-> t.accounts, aliases |-> t.aliases,
              forwardings |-> t.forwardings, relays |-> t.relays, milter |-> t.milter,
              size |-> t.size, lists |-> t.lists, inboxes |-> t.inboxes]
      /\ t.domains \in [Domains -> DomainRow \cup {NoDomain}]
      /\ t.accounts \in [Accounts -> AccountRow \cup {NoAccount}]
      /\ t.aliases \in [AliasIds -> AliasRow \cup {NoAlias}]
      /\ t.forwardings \in [ForwardIds -> ForwardingRow \cup {NoAlias}]
      /\ t.relays \in [Relays -> RelayRow]
      /\ t.milter \in BOOLEAN /\ t.size \in Sizes /\ t.lists \in SUBSET Lists
      /\ t.inboxes \in SUBSET InboxRow
BY DEF Tables, DomainRow, AccountRow, AliasRow, ForwardingRow, RelayRow, InboxRow

\* A row that is there is not the row that is not.
LEMMA RowsAreThere ==
    /\ \A row \in DomainRow : row # NoDomain
    /\ \A row \in AccountRow : row # NoAccount
    /\ \A row \in AliasRow \cup ForwardingRow : row # NoAlias
<1>1. \A row \in DomainRow : row.name # "none"
  BY MailTablesAssumption DEF DomainRow
<1>2. \A row \in AccountRow : row.status # "none"
  BY DEF AccountRow
<1>3. \A row \in AliasRow \cup ForwardingRow : row.dom # "none"
  BY MailTablesAssumption DEF AliasRow, ForwardingRow
<1>4. NoDomain.name = "none" /\ NoAccount.status = "none" /\ NoAlias.dom = "none"
  BY DEF NoDomain, NoAccount, NoAlias
<1> QED BY <1>1, <1>2, <1>3, <1>4

\* An address in small letters is its own lowered form.
LEMMA SmallLetters ==
    ASSUME NEW U, NEW N, NEW a \in [user : U, name : N, caps : {FALSE}]
    PROVE  Lower(a) = a /\ [a EXCEPT !.user = AnyUser].user = AnyUser
BY DEF Lower

\* The mail of a mailbox nobody redirects is looked up to itself or not at all, whatever
\* the tables hold (build_virtual_alias_entries).
LEMMA CatchAllSpares == CatchAllSparesMailboxes
<1> DEFINE entries == VirtualAliases(list_all_aliases, list_all_forwardings, list_all_accounts)
           rows == ActiveOf(list_all_aliases) \cup Redirecting(list_all_forwardings)
           CaughtBy(a) == [a EXCEPT !.user = AnyUser]
           spared == {b.address : b \in {c \in ActiveOf(list_all_accounts) :
                       /\ CaughtBy(c.address) \in {r.source : r \in {q \in rows : IsCatchAll(q.source)}}
                       /\ c.address \notin SpecificSources(list_all_aliases, list_all_forwardings)}}
<1>1. entries = Entries(rows) \cup {Entry(a, a) : a \in spared}
  BY DEF VirtualAliases
<1>2. ASSUME NEW x \in ActiveOf(list_all_accounts)
      PROVE  /\ \E u, n : x.address = [user |-> u, name |-> n, caps |-> FALSE]
             /\ Lower(x.address) = x.address
             /\ CaughtBy(x.address).user = AnyUser
  <2>1. PICK y \in Accounts : x.address = Address(y)
    BY DEF ActiveOf, list_all_accounts
  <2> DEFINE u == y[2] n == db.domains[y[1]].name
  <2>2. x.address = [user |-> u, name |-> n, caps |-> FALSE]
    BY <2>1 DEF Address
  <2> HIDE DEF u, n
  <2>3. x.address \in [user : {u}, name : {n}, caps : {FALSE}]
    BY <2>2
  <2> QED BY <2>2, <2>3, SmallLetters
<1> SUFFICES ASSUME NEW x \in ActiveOf(list_all_accounts), ~Redirected(x.address)
             PROVE  /\ \A e \in entries : e.from = x.address => e.to = x.address
                    /\ (\E r \in ActiveOf(list_all_aliases) : r.source = CaughtBy(x.address))
                         => Entry(x.address, x.address) \in entries
  BY DEF CatchAllSparesMailboxes
<1>3. \A r \in rows : Lower(r.source) # x.address
  BY DEF Redirected
<1>4. ASSUME NEW e \in entries, e.from = x.address
      PROVE  e.to = x.address
  <2>1. CASE e \in Entries(rows)
    BY <1>3, <1>4, <2>1 DEF Entries, Entry
  <2>2. CASE e \in {Entry(a, a) : a \in spared}
    BY <1>4, <2>2 DEF Entry
  <2> QED BY <1>1, <1>4, <2>1, <2>2
<1>5. ASSUME NEW r \in ActiveOf(list_all_aliases), r.source = CaughtBy(x.address)
      PROVE  Entry(x.address, x.address) \in entries
  <2>1. r \in rows /\ IsCatchAll(r.source)
    BY <1>2, <1>5 DEF IsCatchAll
  <2>2. x.address \notin SpecificSources(list_all_aliases, list_all_forwardings)
    BY <1>2, <1>3 DEF SpecificSources
  <2>3. x.address \in spared
    BY <1>5, <2>1, <2>2
  <2> QED BY <1>1, <2>3
<1> QED BY <1>4, <1>5

\* TablesTypeOK, of any tables.
Good(t) ==
    /\ t \in Tables
    /\ \A c, d \in Domains :
         t.domains[c] # NoDomain /\ t.domains[d] # NoDomain
           /\ t.domains[c].name = t.domains[d].name => c = d
    /\ \A x \in Accounts : t.accounts[x] # NoAccount => t.domains[x[1]] # NoDomain
    /\ \A i \in AliasIds : t.aliases[i] # NoAlias => t.domains[t.aliases[i].dom] # NoDomain
    /\ \A i \in ForwardIds :
         t.forwardings[i] # NoAlias => t.domains[t.forwardings[i].dom] # NoDomain
    /\ \A b \in t.inboxes : /\ t.accounts[b.account] # NoAccount
                            /\ b.ruf # <<>> => t.accounts[b.ruf] # NoAccount

LEMMA GoodTables == TablesTypeOK <=> Good(db) /\ dbUp \in BOOLEAN
<1>1. (\A a \in list_all_aliases \cup list_all_forwardings : Exists(a.dom)) <=>
        /\ \A i \in AliasIds : db.aliases[i] # NoAlias => db.domains[db.aliases[i].dom] # NoDomain
        /\ \A i \in ForwardIds :
             db.forwardings[i] # NoAlias => db.domains[db.forwardings[i].dom] # NoDomain
  BY DEF list_all_aliases, list_all_forwardings, Exists
<1>2. TablesTypeOK => Good(db) /\ dbUp \in BOOLEAN
  BY <1>1 DEF TablesTypeOK, Good, Exists, HasAccount
<1>3. Good(db) /\ dbUp \in BOOLEAN => TablesTypeOK
  BY <1>1 DEF TablesTypeOK, Good, Exists, HasAccount
<1> QED BY <1>2, <1>3

\* One table is replaced.
LEMMA SetTable ==
    ASSUME NEW t \in Tables
    PROVE  /\ \A v \in [Domains -> DomainRow \cup {NoDomain}] :
                LET u == [t EXCEPT !.domains = v] IN
                /\ u \in Tables /\ u.domains = v /\ u.accounts = t.accounts
                /\ u.aliases = t.aliases /\ u.forwardings = t.forwardings /\ u.inboxes = t.inboxes
           /\ \A v \in [Accounts -> AccountRow \cup {NoAccount}] :
                LET u == [t EXCEPT !.accounts = v] IN
                /\ u \in Tables /\ u.accounts = v /\ u.domains = t.domains
                /\ u.aliases = t.aliases /\ u.forwardings = t.forwardings /\ u.inboxes = t.inboxes
           /\ \A v \in [AliasIds -> AliasRow \cup {NoAlias}] :
                LET u == [t EXCEPT !.aliases = v] IN
                /\ u \in Tables /\ u.aliases = v /\ u.domains = t.domains
                /\ u.accounts = t.accounts /\ u.forwardings = t.forwardings /\ u.inboxes = t.inboxes
           /\ \A v \in [ForwardIds -> ForwardingRow \cup {NoAlias}] :
                LET u == [t EXCEPT !.forwardings = v] IN
                /\ u \in Tables /\ u.forwardings = v /\ u.domains = t.domains
                /\ u.accounts = t.accounts /\ u.aliases = t.aliases /\ u.inboxes = t.inboxes
<1> USE DEF Tables, DomainRow, AccountRow, AliasRow, ForwardingRow
<1>1. ASSUME NEW v \in [Domains -> DomainRow \cup {NoDomain}]
      PROVE  LET u == [t EXCEPT !.domains = v] IN
             /\ u \in Tables /\ u.domains = v /\ u.accounts = t.accounts
             /\ u.aliases = t.aliases /\ u.forwardings = t.forwardings /\ u.inboxes = t.inboxes
  OBVIOUS
<1>2. ASSUME NEW v \in [Accounts -> AccountRow \cup {NoAccount}]
      PROVE  LET u == [t EXCEPT !.accounts = v] IN
             /\ u \in Tables /\ u.accounts = v /\ u.domains = t.domains
             /\ u.aliases = t.aliases /\ u.forwardings = t.forwardings /\ u.inboxes = t.inboxes
  OBVIOUS
<1>3. ASSUME NEW v \in [AliasIds -> AliasRow \cup {NoAlias}]
      PROVE  LET u == [t EXCEPT !.aliases = v] IN
             /\ u \in Tables /\ u.aliases = v /\ u.domains = t.domains
             /\ u.accounts = t.accounts /\ u.forwardings = t.forwardings /\ u.inboxes = t.inboxes
  OBVIOUS
<1>4. ASSUME NEW v \in [ForwardIds -> ForwardingRow \cup {NoAlias}]
      PROVE  LET u == [t EXCEPT !.forwardings = v] IN
             /\ u \in Tables /\ u.forwardings = v /\ u.domains = t.domains
             /\ u.accounts = t.accounts /\ u.aliases = t.aliases /\ u.inboxes = t.inboxes
  OBVIOUS
<1> QED BY <1>1, <1>2, <1>3, <1>4

\* Tables stay good when domains are renamed or added, names distinct.
LEMMA DomainsSet ==
    ASSUME NEW t, Good(t), NEW v \in [Domains -> DomainRow \cup {NoDomain}],
           \A d \in Domains : t.domains[d] # NoDomain => v[d] # NoDomain,
           \A c, d \in Domains : v[c] # NoDomain /\ v[d] # NoDomain /\ v[c].name = v[d].name => c = d
    PROVE  Good([t EXCEPT !.domains = v])
<1> DEFINE u == [t EXCEPT !.domains = v]
<1>1. /\ u \in Tables /\ u.domains = v /\ u.accounts = t.accounts
      /\ u.aliases = t.aliases /\ u.forwardings = t.forwardings /\ u.inboxes = t.inboxes
  BY SetTable DEF Good
<1>2. /\ \A i \in AliasIds : t.aliases[i] # NoAlias => t.aliases[i].dom \in Domains
      /\ \A i \in ForwardIds : t.forwardings[i] # NoAlias => t.forwardings[i].dom \in Domains
      /\ \A x \in Accounts : x[1] \in Domains
  BY TablesAre DEF Good, AliasRow, ForwardingRow, Accounts
<1> HIDE DEF u
<1> QED BY <1>1, <1>2 DEF Good, u

\* ... when accounts are changed or added, each to a domain that is there;
LEMMA AccountsSet ==
    ASSUME NEW t, Good(t), NEW v \in [Accounts -> AccountRow \cup {NoAccount}],
           \A x \in Accounts : t.accounts[x] # NoAccount => v[x] # NoAccount,
           \A x \in Accounts : v[x] # NoAccount => t.domains[x[1]] # NoDomain
    PROVE  Good([t EXCEPT !.accounts = v])
<1> DEFINE u == [t EXCEPT !.accounts = v]
<1>1. /\ u \in Tables /\ u.accounts = v /\ u.domains = t.domains
      /\ u.aliases = t.aliases /\ u.forwardings = t.forwardings /\ u.inboxes = t.inboxes
  BY SetTable DEF Good
<1>2. \A b \in t.inboxes : b.account \in Accounts /\ b.ruf \in Accounts \cup {<<>>}
  BY TablesAre DEF Good, InboxRow
<1> HIDE DEF u
<1> QED BY <1>1, <1>2 DEF Good, u

\* ... when aliases or forwardings are, the same;
LEMMA AliasesSet ==
    ASSUME NEW t, Good(t), NEW v \in [AliasIds -> AliasRow \cup {NoAlias}],
           \A i \in AliasIds : v[i] # NoAlias => t.domains[v[i].dom] # NoDomain
    PROVE  Good([t EXCEPT !.aliases = v])
<1> DEFINE u == [t EXCEPT !.aliases = v]
<1>1. /\ u \in Tables /\ u.aliases = v /\ u.domains = t.domains
      /\ u.accounts = t.accounts /\ u.forwardings = t.forwardings /\ u.inboxes = t.inboxes
  BY SetTable DEF Good
<1> HIDE DEF u
<1> QED BY <1>1 DEF Good, u

LEMMA ForwardingsSet ==
    ASSUME NEW t, Good(t), NEW v \in [ForwardIds -> ForwardingRow \cup {NoAlias}],
           \A i \in ForwardIds : v[i] # NoAlias => t.domains[v[i].dom] # NoDomain
    PROVE  Good([t EXCEPT !.forwardings = v])
<1> DEFINE u == [t EXCEPT !.forwardings = v]
<1>1. /\ u \in Tables /\ u.forwardings = v /\ u.domains = t.domains
      /\ u.accounts = t.accounts /\ u.aliases = t.aliases /\ u.inboxes = t.inboxes
  BY SetTable DEF Good
<1> HIDE DEF u
<1> QED BY <1>1 DEF Good, u

\* ... and when relays, settings, lists or inboxes are changed, an inbox's accounts there.
LEMMA OthersSet ==
    ASSUME NEW t, Good(t)
    PROVE  /\ \A v \in [Relays -> RelayRow] : Good([t EXCEPT !.relays = v])
           /\ \A v \in BOOLEAN : Good([t EXCEPT !.milter = v])
           /\ \A v \in Sizes : Good([t EXCEPT !.size = v])
           /\ \A v \in SUBSET Lists : Good([t EXCEPT !.lists = v])
<1> DEFINE Same(u) == /\ u \in Tables /\ u.domains = t.domains /\ u.accounts = t.accounts
                      /\ u.aliases = t.aliases /\ u.forwardings = t.forwardings
                      /\ u.inboxes = t.inboxes
<1>1. \A u : Same(u) => Good(u)
  BY DEF Good
<1>2. t \in Tables
  BY DEF Good
<1>3. \A v \in [Relays -> RelayRow] : Same([t EXCEPT !.relays = v])
  BY <1>2 DEF Tables, RelayRow
<1>4. \A v \in BOOLEAN : Same([t EXCEPT !.milter = v])
  BY <1>2 DEF Tables
<1>5. \A v \in Sizes : Same([t EXCEPT !.size = v])
  BY <1>2 DEF Tables
<1>6. \A v \in SUBSET Lists : Same([t EXCEPT !.lists = v])
  BY <1>2 DEF Tables
<1> HIDE DEF Same
<1> QED BY <1>1, <1>3, <1>4, <1>5, <1>6

LEMMA InboxesSet ==
    ASSUME NEW t, Good(t), NEW v \in SUBSET InboxRow,
           \A b \in v : /\ t.accounts[b.account] # NoAccount
                        /\ b.ruf # <<>> => t.accounts[b.ruf] # NoAccount
    PROVE  Good([t EXCEPT !.inboxes = v])
<1> DEFINE u == [t EXCEPT !.inboxes = v]
<1>1. /\ u \in Tables /\ u.domains = t.domains /\ u.accounts = t.accounts
      /\ u.aliases = t.aliases /\ u.forwardings = t.forwardings /\ u.inboxes = v
  BY DEF Good, Tables, InboxRow
<1> HIDE DEF u
<1> QED BY <1>1 DEF Good, u

------------------------------------------------------------------------------
(* Each statement keeps the tables good, where PostgreSQL accepts it.       *)

LEMMA RowsOfTables ==
    ASSUME Good(db)
    PROVE  /\ db \in Tables
           /\ \A d \in Domains : db.domains[d] # NoDomain => db.domains[d] \in DomainRow
           /\ \A x \in Accounts : db.accounts[x] # NoAccount => db.accounts[x] \in AccountRow
           /\ \A i \in AliasIds : db.aliases[i] # NoAlias => db.aliases[i] \in AliasRow
           /\ \A i \in ForwardIds : db.forwardings[i] # NoAlias => db.forwardings[i] \in ForwardingRow
           /\ \A r \in Relays : db.relays[r] \in RelayRow
           /\ \A b \in db.inboxes : b \in InboxRow
BY TablesAre DEF Good

LEMMA CreateDomainGood ==
    ASSUME Good(db), NEW d \in Domains, NEW n \in DomainNames, NameFree(n)
    PROVE  Good(create_domain(d, n))
<1> DEFINE row == [name |-> n, active |-> TRUE, key |-> 0]
           v == [db.domains EXCEPT ![d] = row]
<1>1. row \in DomainRow /\ row.name = n
  BY DEF DomainRow
<1> HIDE DEF row
<1>2. db.domains \in [Domains -> DomainRow \cup {NoDomain}]
  BY TablesAre DEF Good
<1>3. /\ v \in [Domains -> DomainRow \cup {NoDomain}]
      /\ v[d] = row /\ \A c \in Domains \ {d} : v[c] = db.domains[c]
  BY <1>1, <1>2
<1>4. create_domain(d, n) = [db EXCEPT !.domains = v]
  BY DEF create_domain, row
<1> HIDE DEF v
<1>5. \A c \in Domains : db.domains[c] # NoDomain => v[c] # NoDomain
  BY <1>1, <1>3, RowsAreThere
<1>6. \A c, e \in Domains : v[c] # NoDomain /\ v[e] # NoDomain /\ v[c].name = v[e].name => c = e
  BY <1>1, <1>3 DEF Good, NameFree
<1> QED BY <1>3, <1>4, <1>5, <1>6, DomainsSet

LEMMA UpdateDomainGood ==
    ASSUME Good(db), NEW d \in Domains
    PROVE  /\ \A n \in DomainNames, b \in BOOLEAN : Good(update_domain(d, n, b))
           /\ \A k \in Secrets \cup {0} : Good(update_domain_dkim(d, k))
<1>0. db.domains \in [Domains -> DomainRow \cup {NoDomain}]
  BY TablesAre DEF Good
<1>1. ASSUME NEW n \in DomainNames, NEW b \in BOOLEAN, Exists(d),
             db.domains[d].name = n \/ NameFree(n)
      PROVE  Good([db EXCEPT !.domains[d].name = n, !.domains[d].active = b])
  <2> DEFINE row == [db.domains[d] EXCEPT !.name = n, !.active = b]
             v == [db.domains EXCEPT ![d] = row]
  <2>1. db.domains[d] \in DomainRow
    BY <1>1, RowsOfTables DEF Exists
  <2>2. row \in DomainRow /\ row.name = n
    BY <2>1 DEF DomainRow
  <2>3. [db EXCEPT !.domains[d].name = n, !.domains[d].active = b] = [db EXCEPT !.domains = v]
    BY <1>0, RowsOfTables DEF Tables
  <2> HIDE DEF row
  <2>4. /\ v \in [Domains -> DomainRow \cup {NoDomain}]
        /\ v[d] = row /\ \A c \in Domains \ {d} : v[c] = db.domains[c]
    BY <1>0, <2>2
  <2> HIDE DEF v
  <2>5. \A c \in Domains : db.domains[c] # NoDomain => v[c] # NoDomain
    BY <2>2, <2>4, RowsAreThere
  <2>6. \A c, e \in Domains : v[c] # NoDomain /\ v[e] # NoDomain /\ v[c].name = v[e].name => c = e
    BY <1>1, <2>2, <2>4 DEF Good, NameFree, Exists
  <2> QED BY <2>3, <2>4, <2>5, <2>6, DomainsSet
<1>2. ASSUME NEW k \in Secrets \cup {0}, Exists(d)
      PROVE  Good([db EXCEPT !.domains[d].key = k])
  <2> DEFINE row == [db.domains[d] EXCEPT !.key = k]
             v == [db.domains EXCEPT ![d] = row]
  <2>1. db.domains[d] \in DomainRow
    BY <1>2, RowsOfTables DEF Exists
  <2>2. row \in DomainRow /\ row.name = db.domains[d].name
    BY <2>1 DEF DomainRow
  <2>3. [db EXCEPT !.domains[d].key = k] = [db EXCEPT !.domains = v]
    OBVIOUS
  <2> HIDE DEF row
  <2>4. /\ v \in [Domains -> DomainRow \cup {NoDomain}]
        /\ v[d] = row /\ \A c \in Domains \ {d} : v[c] = db.domains[c]
    BY <1>0, <2>2
  <2> HIDE DEF v
  <2>5. \A c \in Domains : db.domains[c] # NoDomain => v[c] # NoDomain
    BY <2>2, <2>4, RowsAreThere
  <2>6. \A c, e \in Domains : v[c] # NoDomain /\ v[e] # NoDomain /\ v[c].name = v[e].name => c = e
    BY <1>2, <2>2, <2>4 DEF Good, Exists
  <2> QED BY <2>3, <2>4, <2>5, <2>6, DomainsSet
<1> QED BY <1>1, <1>2 DEF update_domain, update_domain_dkim

\* A domain goes with all that is its own.
LEMMA DeleteDomainGood ==
    ASSUME Good(db), NEW d \in Domains
    PROVE  Good(delete_domain(d))
<1> DEFINE t == delete_domain(d)
           vd == [db.domains EXCEPT ![d] = NoDomain]
           va == [x \in Accounts |-> IF x[1] = d THEN NoAccount ELSE db.accounts[x]]
           vl == [i \in AliasIds |-> IF db.aliases[i].dom = d THEN NoAlias ELSE db.aliases[i]]
           vf == [i \in ForwardIds |-> IF db.forwardings[i].dom = d THEN NoAlias ELSE db.forwardings[i]]
           vb == {[b EXCEPT !.ruf = IF b.ruf \in {d} \X Users THEN <<>> ELSE b.ruf] :
                    b \in {c \in db.inboxes : c.account[1] # d}}
<1>1. t = [db EXCEPT !.domains = vd, !.accounts = va, !.aliases = vl, !.forwardings = vf,
                     !.inboxes = vb]
  BY DEF delete_domain
<1>2. /\ db.domains \in [Domains -> DomainRow \cup {NoDomain}]
      /\ db.accounts \in [Accounts -> AccountRow \cup {NoAccount}]
      /\ db.aliases \in [AliasIds -> AliasRow \cup {NoAlias}]
      /\ db.forwardings \in [ForwardIds -> ForwardingRow \cup {NoAlias}]
      /\ db.inboxes \in SUBSET InboxRow
  BY TablesAre DEF Good
<1>3. /\ vd \in [Domains -> DomainRow \cup {NoDomain}]
      /\ \A c \in Domains : vd[c] = IF c = d THEN NoDomain ELSE db.domains[c]
  BY <1>2
<1>4. /\ va \in [Accounts -> AccountRow \cup {NoAccount}]
      /\ \A x \in Accounts : va[x] = IF x[1] = d THEN NoAccount ELSE db.accounts[x]
  BY <1>2
<1>5. /\ vl \in [AliasIds -> AliasRow \cup {NoAlias}]
      /\ \A i \in AliasIds : vl[i] = IF db.aliases[i].dom = d THEN NoAlias ELSE db.aliases[i]
  BY <1>2
<1>6. /\ vf \in [ForwardIds -> ForwardingRow \cup {NoAlias}]
      /\ \A i \in ForwardIds :
           vf[i] = IF db.forwardings[i].dom = d THEN NoAlias ELSE db.forwardings[i]
  BY <1>2
<1>7. ASSUME NEW b \in vb
      PROVE  /\ b \in InboxRow
             /\ \E c \in db.inboxes : /\ b.account = c.account /\ c.account[1] # d
                                      /\ b.ruf = <<>> \/ (b.ruf = c.ruf /\ c.ruf \notin {d} \X Users)
  <2>1. PICK c \in db.inboxes :
            /\ c.account[1] # d
            /\ b = [c EXCEPT !.ruf = IF c.ruf \in {d} \X Users THEN <<>> ELSE c.ruf]
    BY <1>7
  <2>2. c \in InboxRow
    BY <1>2
  <2>3. /\ b \in InboxRow /\ b.account = c.account
        /\ b.ruf = IF c.ruf \in {d} \X Users THEN <<>> ELSE c.ruf
    BY <2>1, <2>2 DEF InboxRow
  <2> QED BY <2>1, <2>3
<1> HIDE DEF vd, va, vl, vf, vb
<1>8. /\ t \in Tables /\ t.domains = vd /\ t.accounts = va /\ t.aliases = vl
      /\ t.forwardings = vf /\ t.inboxes = vb
  <2>1. vb \in SUBSET InboxRow /\ db \in Tables
    BY <1>7 DEF Good
  <2> HIDE DEF t
  <2> QED BY <1>1, <1>3, <1>4, <1>5, <1>6, <2>1
          DEF Tables, DomainRow, AccountRow, AliasRow, ForwardingRow, InboxRow
<1> HIDE DEF t
<1>9. \A b, c \in Domains :
        t.domains[b] # NoDomain /\ t.domains[c] # NoDomain
          /\ t.domains[b].name = t.domains[c].name => b = c
  BY <1>3, <1>8 DEF Good
<1>10. \A x \in Accounts : t.accounts[x] # NoAccount => t.domains[x[1]] # NoDomain
  BY <1>3, <1>4, <1>8 DEF Good, Accounts
<1>11. /\ \A i \in AliasIds : t.aliases[i] # NoAlias => t.domains[t.aliases[i].dom] # NoDomain
       /\ \A i \in ForwardIds :
            t.forwardings[i] # NoAlias => t.domains[t.forwardings[i].dom] # NoDomain
  <2>1. /\ \A i \in AliasIds : db.aliases[i] # NoAlias => db.aliases[i].dom \in Domains
        /\ \A i \in ForwardIds : db.forwardings[i] # NoAlias => db.forwardings[i].dom \in Domains
    BY <1>2 DEF AliasRow, ForwardingRow
  <2> QED BY <1>3, <1>5, <1>6, <1>8, <2>1 DEF Good
<1>12. \A b \in t.inboxes : /\ t.accounts[b.account] # NoAccount
                            /\ b.ruf # <<>> => t.accounts[b.ruf] # NoAccount
  <2> SUFFICES ASSUME NEW b \in vb
               PROVE  va[b.account] # NoAccount /\ (b.ruf # <<>> => va[b.ruf] # NoAccount)
    BY <1>8
  <2>1. PICK c \in db.inboxes : /\ b.account = c.account /\ c.account[1] # d
                                /\ b.ruf = <<>> \/ (b.ruf = c.ruf /\ c.ruf \notin {d} \X Users)
    BY <1>7
  <2>2. /\ db.accounts[c.account] # NoAccount /\ c.account \in Accounts
        /\ c.ruf # <<>> => db.accounts[c.ruf] # NoAccount
        /\ c.ruf \in Accounts \cup {<<>>}
    BY <1>2 DEF Good, InboxRow
  <2>3. va[b.account] # NoAccount
    BY <1>4, <2>1, <2>2
  <2>4. ASSUME b.ruf # <<>> PROVE va[b.ruf] # NoAccount
    <3>1. c.ruf \in Accounts /\ b.ruf = c.ruf /\ c.ruf[1] # d
      BY <2>1, <2>2, <2>4 DEF Accounts
    <3> QED BY <1>4, <2>2, <2>4, <3>1
  <2> QED BY <2>3, <2>4
<1> QED BY <1>8, <1>9, <1>10, <1>11, <1>12 DEF Good, t

LEMMA AccountStatementsGood ==
    ASSUME Good(db), NEW x \in Accounts
    PROVE  /\ \A pw \in Secrets : AccountFree(x) => Good(create_account(x, pw))
           /\ \A s \in {"active", "inactive"} : Good(update_account(x, s))
           /\ \A pw \in Secrets : Good(update_account_password(x, pw))
<1>0. db.accounts \in [Accounts -> AccountRow \cup {NoAccount}] /\ db \in Tables
  BY TablesAre DEF Good
<1>1. ASSUME NEW row \in AccountRow, db.domains[x[1]] # NoDomain
      PROVE  Good([db EXCEPT !.accounts = [db.accounts EXCEPT ![x] = row]])
  <2> DEFINE v == [db.accounts EXCEPT ![x] = row]
  <2>1. /\ v \in [Accounts -> AccountRow \cup {NoAccount}]
        /\ v[x] = row /\ \A y \in Accounts \ {x} : v[y] = db.accounts[y]
    BY <1>0
  <2> HIDE DEF v
  <2>2. \A y \in Accounts : db.accounts[y] # NoAccount => v[y] # NoAccount
    BY <2>1, RowsAreThere
  <2>3. \A y \in Accounts : v[y] # NoAccount => db.domains[y[1]] # NoDomain
    BY <1>1, <2>1 DEF Good
  <2>4. Good([db EXCEPT !.accounts = v])
    BY <2>1, <2>2, <2>3, AccountsSet
  <2> QED BY <2>4 DEF v
<1>2. ASSUME NEW pw \in Secrets, AccountFree(x)
      PROVE  Good(create_account(x, pw))
  <2> DEFINE row == [status |-> "active", password |-> pw]
  <2>1. row \in AccountRow
    BY DEF AccountRow
  <2>2. create_account(x, pw) = [db EXCEPT !.accounts = [db.accounts EXCEPT ![x] = row]]
    BY DEF create_account
  <2> HIDE DEF row
  <2> QED BY <1>1, <1>2, <2>1, <2>2 DEF AccountFree, Exists
<1>3. ASSUME HasAccount(x)
      PROVE  db.accounts[x] \in AccountRow /\ db.domains[x[1]] # NoDomain
  BY <1>0, <1>3 DEF HasAccount, Good
<1>4. ASSUME NEW s \in {"active", "inactive"}
      PROVE  Good(update_account(x, s))
  <2>1. CASE HasAccount(x)
    <3> DEFINE row == [db.accounts[x] EXCEPT !.status = s]
    <3>1. row \in AccountRow
      BY <1>3, <2>1 DEF AccountRow
    <3>2. update_account(x, s) = [db EXCEPT !.accounts = [db.accounts EXCEPT ![x] = row]]
      BY <2>1 DEF update_account
    <3> HIDE DEF row
    <3> QED BY <1>1, <1>3, <2>1, <3>1, <3>2
  <2>2. CASE ~HasAccount(x)
    BY <2>2 DEF update_account
  <2> QED BY <2>1, <2>2
<1>5. ASSUME NEW pw \in Secrets
      PROVE  Good(update_account_password(x, pw))
  <2>1. CASE HasAccount(x)
    <3> DEFINE row == [db.accounts[x] EXCEPT !.password = pw]
    <3>1. row \in AccountRow
      BY <1>3, <2>1 DEF AccountRow
    <3>2. update_account_password(x, pw) = [db EXCEPT !.accounts = [db.accounts EXCEPT ![x] = row]]
      BY <2>1 DEF update_account_password
    <3> HIDE DEF row
    <3> QED BY <1>1, <1>3, <2>1, <3>1, <3>2
  <2>2. CASE ~HasAccount(x)
    BY <2>2 DEF update_account_password
  <2> QED BY <2>1, <2>2
<1> QED BY <1>2, <1>4, <1>5

\* No inbox is of an account that may be deleted, and none names it for its reports after.
LEMMA DeleteAccountGood ==
    ASSUME Good(db), NEW x \in Accounts, ~BacksInbox(x)
    PROVE  Good(delete_account(x))
<1> DEFINE t == delete_account(x)
           va == [db.accounts EXCEPT ![x] = NoAccount]
           vb == {[b EXCEPT !.ruf = IF b.ruf = x THEN <<>> ELSE b.ruf] : b \in db.inboxes}
<1>1. t = [db EXCEPT !.accounts = va, !.inboxes = vb]
  BY DEF delete_account
<1>2. /\ db.accounts \in [Accounts -> AccountRow \cup {NoAccount}]
      /\ db.inboxes \in SUBSET InboxRow
  BY TablesAre DEF Good
<1>3. /\ va \in [Accounts -> AccountRow \cup {NoAccount}]
      /\ \A y \in Accounts : va[y] = IF y = x THEN NoAccount ELSE db.accounts[y]
  BY <1>2
<1>4. ASSUME NEW b \in vb
      PROVE  /\ b \in InboxRow
             /\ \E c \in db.inboxes : /\ b.account = c.account
                                      /\ b.ruf = <<>> \/ (b.ruf = c.ruf /\ c.ruf # x)
  <2>1. PICK c \in db.inboxes : b = [c EXCEPT !.ruf = IF c.ruf = x THEN <<>> ELSE c.ruf]
    BY <1>4
  <2>2. c \in InboxRow
    BY <1>2
  <2>3. b \in InboxRow /\ b.account = c.account /\ b.ruf = IF c.ruf = x THEN <<>> ELSE c.ruf
    BY <2>1, <2>2 DEF InboxRow
  <2> QED BY <2>1, <2>3
<1> HIDE DEF va, vb
<1>5. /\ t \in Tables /\ t.accounts = va /\ t.inboxes = vb /\ t.domains = db.domains
      /\ t.aliases = db.aliases /\ t.forwardings = db.forwardings
  <2>1. vb \in SUBSET InboxRow /\ db \in Tables
    BY <1>4 DEF Good
  <2> HIDE DEF t
  <2> QED BY <1>1, <1>3, <2>1 DEF Tables, AccountRow, InboxRow
<1> HIDE DEF t
<1>6. \A b \in t.inboxes : /\ t.accounts[b.account] # NoAccount
                           /\ b.ruf # <<>> => t.accounts[b.ruf] # NoAccount
  <2> SUFFICES ASSUME NEW b \in vb
               PROVE  va[b.account] # NoAccount /\ (b.ruf # <<>> => va[b.ruf] # NoAccount)
    BY <1>5
  <2>1. PICK c \in db.inboxes : /\ b.account = c.account
                                /\ b.ruf = <<>> \/ (b.ruf = c.ruf /\ c.ruf # x)
    BY <1>4
  <2>2. /\ db.accounts[c.account] # NoAccount /\ c.account \in Accounts /\ c.account # x
        /\ c.ruf # <<>> => db.accounts[c.ruf] # NoAccount
        /\ c.ruf \in Accounts \cup {<<>>}
    BY <1>2 DEF Good, InboxRow, BacksInbox
  <2> QED BY <1>3, <2>1, <2>2
<1>7. \A y \in Accounts : t.accounts[y] # NoAccount => t.domains[y[1]] # NoDomain
  BY <1>3, <1>5 DEF Good
<1> QED BY <1>5, <1>6, <1>7 DEF Good, t

LEMMA AliasStatementsGood ==
    ASSUME Good(db), NEW i \in AliasIds, NEW s \in Sources, NEW t \in Targets
    PROVE  /\ \A d \in Domains : Exists(d) => Good(create_alias(i, d, s, t))
           /\ \A b \in BOOLEAN : Good(update_alias(i, s, t, b))
<1>0. db.aliases \in [AliasIds -> AliasRow \cup {NoAlias}]
  BY TablesAre DEF Good
<1>1. ASSUME NEW row \in AliasRow \cup {NoAlias},
             row # NoAlias => db.domains[row.dom] # NoDomain
      PROVE  Good([db EXCEPT !.aliases = [db.aliases EXCEPT ![i] = row]])
  <2> DEFINE v == [db.aliases EXCEPT ![i] = row]
  <2>1. /\ v \in [AliasIds -> AliasRow \cup {NoAlias}]
        /\ v[i] = row /\ \A j \in AliasIds \ {i} : v[j] = db.aliases[j]
    BY <1>0
  <2> HIDE DEF v
  <2>2. \A j \in AliasIds : v[j] # NoAlias => db.domains[v[j].dom] # NoDomain
    BY <1>1, <2>1 DEF Good
  <2>3. Good([db EXCEPT !.aliases = v])
    BY <2>1, <2>2, AliasesSet
  <2> QED BY <2>3 DEF v
<1>2. ASSUME NEW d \in Domains, Exists(d)
      PROVE  Good(create_alias(i, d, s, t))
  <2> DEFINE row == [dom |-> d, source |-> s, destination |-> t, active |-> TRUE]
  <2>1. row \in AliasRow /\ row.dom = d
    BY DEF AliasRow
  <2>2. create_alias(i, d, s, t) = [db EXCEPT !.aliases = [db.aliases EXCEPT ![i] = row]]
    BY DEF create_alias
  <2> HIDE DEF row
  <2> QED BY <1>1, <1>2, <2>1, <2>2 DEF Exists
<1>3. ASSUME NEW b \in BOOLEAN
      PROVE  Good(update_alias(i, s, t, b))
  <2>1. CASE db.aliases[i] = NoAlias
    BY <2>1 DEF update_alias
  <2>2. CASE db.aliases[i] # NoAlias
    <3> DEFINE row == [dom |-> db.aliases[i].dom, source |-> s, destination |-> t, active |-> b]
    <3>1. db.aliases[i] \in AliasRow /\ db.domains[db.aliases[i].dom] # NoDomain
      BY <1>0, <2>2 DEF Good
    <3>2. row \in AliasRow /\ row.dom = db.aliases[i].dom
      BY <3>1 DEF AliasRow
    <3>3. update_alias(i, s, t, b) = [db EXCEPT !.aliases = [db.aliases EXCEPT ![i] = row]]
      BY <2>2 DEF update_alias
    <3> HIDE DEF row
    <3> QED BY <1>1, <3>1, <3>2, <3>3
  <2> QED BY <2>1, <2>2
<1> QED BY <1>2, <1>3

LEMMA DeleteAliasGood ==
    ASSUME Good(db), NEW i \in AliasIds
    PROVE  Good(delete_alias(i))
<1> DEFINE v == [db.aliases EXCEPT ![i] = NoAlias]
<1>1. db.aliases \in [AliasIds -> AliasRow \cup {NoAlias}]
  BY TablesAre DEF Good
<1>2. /\ v \in [AliasIds -> AliasRow \cup {NoAlias}]
      /\ v[i] = NoAlias /\ \A j \in AliasIds \ {i} : v[j] = db.aliases[j]
  BY <1>1
<1>3. delete_alias(i) = [db EXCEPT !.aliases = v]
  BY DEF delete_alias
<1> HIDE DEF v
<1>4. \A j \in AliasIds : v[j] # NoAlias => db.domains[v[j].dom] # NoDomain
  BY <1>2 DEF Good
<1> QED BY <1>2, <1>3, <1>4, AliasesSet

LEMMA ForwardingStatementsGood ==
    ASSUME Good(db), NEW i \in ForwardIds, NEW s \in {a \in Sources : ~IsCatchAll(a)},
           NEW t \in Targets, NEW keep \in BOOLEAN
    PROVE  /\ \A d \in Domains : Exists(d) => Good(create_forwarding(i, d, s, t, keep))
           /\ \A b \in BOOLEAN : Good(update_forwarding(i, s, t, b, keep))
<1>0. db.forwardings \in [ForwardIds -> ForwardingRow \cup {NoAlias}]
  BY TablesAre DEF Good
<1>1. ASSUME NEW row \in ForwardingRow, db.domains[row.dom] # NoDomain
      PROVE  Good([db EXCEPT !.forwardings = [db.forwardings EXCEPT ![i] = row]])
  <2> DEFINE v == [db.forwardings EXCEPT ![i] = row]
  <2>1. /\ v \in [ForwardIds -> ForwardingRow \cup {NoAlias}]
        /\ v[i] = row /\ \A j \in ForwardIds \ {i} : v[j] = db.forwardings[j]
    BY <1>0
  <2> HIDE DEF v
  <2>2. \A j \in ForwardIds : v[j] # NoAlias => db.domains[v[j].dom] # NoDomain
    BY <1>1, <2>1 DEF Good
  <2>3. Good([db EXCEPT !.forwardings = v])
    BY <2>1, <2>2, ForwardingsSet
  <2> QED BY <2>3 DEF v
<1>2. ASSUME NEW d \in Domains, Exists(d)
      PROVE  Good(create_forwarding(i, d, s, t, keep))
  <2> DEFINE row == [dom |-> d, source |-> s, destination |-> t, active |-> TRUE, keep |-> keep]
  <2>1. row \in ForwardingRow /\ row.dom = d
    BY DEF ForwardingRow
  <2>2. create_forwarding(i, d, s, t, keep)
          = [db EXCEPT !.forwardings = [db.forwardings EXCEPT ![i] = row]]
    BY DEF create_forwarding
  <2> HIDE DEF row
  <2> QED BY <1>1, <1>2, <2>1, <2>2 DEF Exists
<1>3. ASSUME NEW b \in BOOLEAN
      PROVE  Good(update_forwarding(i, s, t, b, keep))
  <2>1. CASE db.forwardings[i] = NoAlias
    BY <2>1 DEF update_forwarding
  <2>2. CASE db.forwardings[i] # NoAlias
    <3> DEFINE row == [dom |-> db.forwardings[i].dom, source |-> s, destination |-> t,
                       active |-> b, keep |-> keep]
    <3>1. db.forwardings[i] \in ForwardingRow /\ db.domains[db.forwardings[i].dom] # NoDomain
      BY <1>0, <2>2 DEF Good
    <3>2. row \in ForwardingRow /\ row.dom = db.forwardings[i].dom
      BY <3>1 DEF ForwardingRow
    <3>3. update_forwarding(i, s, t, b, keep)
            = [db EXCEPT !.forwardings = [db.forwardings EXCEPT ![i] = row]]
      BY <2>2 DEF update_forwarding
    <3> HIDE DEF row
    <3> QED BY <1>1, <3>1, <3>2, <3>3
  <2> QED BY <2>1, <2>2
<1> QED BY <1>2, <1>3

LEMMA DeleteForwardingGood ==
    ASSUME Good(db), NEW i \in ForwardIds
    PROVE  Good(delete_forwarding(i))
<1> DEFINE v == [db.forwardings EXCEPT ![i] = NoAlias]
<1>1. db.forwardings \in [ForwardIds -> ForwardingRow \cup {NoAlias}]
  BY TablesAre DEF Good
<1>2. /\ v \in [ForwardIds -> ForwardingRow \cup {NoAlias}]
      /\ v[i] = NoAlias /\ \A j \in ForwardIds \ {i} : v[j] = db.forwardings[j]
  BY <1>1
<1>3. delete_forwarding(i) = [db EXCEPT !.forwardings = v]
  BY DEF delete_forwarding
<1> HIDE DEF v
<1>4. \A j \in ForwardIds : v[j] # NoAlias => db.domains[v[j].dom] # NoDomain
  BY <1>2 DEF Good
<1> QED BY <1>2, <1>3, <1>4, ForwardingsSet

LEMMA RelayStatementsGood ==
    ASSUME Good(db), NEW r \in Relays
    PROVE  /\ \A a \in BOOLEAN, k \in Secrets \cup {0} : Good(create_outbound_relay(r, a, k))
           /\ \A s \in {"active", "inactive"}, a \in BOOLEAN, k \in Secrets \cup {0} :
                Good(update_outbound_relay(r, s, a, k))
           /\ Good(delete_outbound_relay(r))
           /\ \A p \in Patterns : /\ Good(create_relay_assignment(r, p))
                                  /\ Good(delete_relay_assignment(r, p))
<1>0. db.relays \in [Relays -> RelayRow] /\ db.relays[r].assigned \in SUBSET Patterns
  BY TablesAre DEF Good, RelayRow
<1>1. ASSUME NEW row \in RelayRow
      PROVE  Good([db EXCEPT !.relays = [db.relays EXCEPT ![r] = row]])
  <2> DEFINE v == [db.relays EXCEPT ![r] = row]
  <2>1. v \in [Relays -> RelayRow]
    BY <1>0
  <2> HIDE DEF v
  <2>2. Good([db EXCEPT !.relays = v])
    BY <2>1, OthersSet
  <2> QED BY <2>2 DEF v
<1>2. ASSUME NEW s \in {"none", "active", "inactive"}, NEW a \in BOOLEAN, NEW k \in Secrets \cup {0},
             NEW ps \in SUBSET Patterns
      PROVE  Good([db EXCEPT !.relays[r] = [status |-> s, auth |-> a, secret |-> k, assigned |-> ps]])
  <2> DEFINE row == [status |-> s, auth |-> a, secret |-> k, assigned |-> ps]
  <2>1. row \in RelayRow
    BY DEF RelayRow
  <2> HIDE DEF row
  <2>2. Good([db EXCEPT !.relays = [db.relays EXCEPT ![r] = row]])
    BY <1>1, <2>1
  <2>3. [db EXCEPT !.relays[r] = row] = [db EXCEPT !.relays = [db.relays EXCEPT ![r] = row]]
    OBVIOUS
  <2> QED BY <2>2, <2>3 DEF row
<1>3. ASSUME NEW a \in BOOLEAN, NEW k \in Secrets \cup {0}
      PROVE  Good(create_outbound_relay(r, a, k))
  BY <1>2 DEF create_outbound_relay
<1>4. ASSUME NEW s \in {"active", "inactive"}, NEW a \in BOOLEAN, NEW k \in Secrets \cup {0}
      PROVE  Good(update_outbound_relay(r, s, a, k))
  BY <1>0, <1>2 DEF update_outbound_relay
<1>5. Good(delete_outbound_relay(r))
  BY <1>2 DEF delete_outbound_relay, NoRelay
<1>6. ASSUME NEW ps \in SUBSET Patterns
      PROVE  Good([db EXCEPT !.relays[r].assigned = ps])
  <2> DEFINE row == [db.relays[r] EXCEPT !.assigned = ps]
  <2>1. row \in RelayRow
    BY <1>0 DEF RelayRow
  <2>2. [db EXCEPT !.relays[r].assigned = ps] = [db EXCEPT !.relays = [db.relays EXCEPT ![r] = row]]
    OBVIOUS
  <2> HIDE DEF row
  <2> QED BY <1>1, <2>1, <2>2
<1>7. ASSUME NEW p \in Patterns
      PROVE  Good(create_relay_assignment(r, p)) /\ Good(delete_relay_assignment(r, p))
  <2> DEFINE more == db.relays[r].assigned \cup {p}
             fewer == db.relays[r].assigned \ {p}
  <2>1. more \in SUBSET Patterns /\ fewer \in SUBSET Patterns
    BY <1>0
  <2>2. /\ create_relay_assignment(r, p) = [db EXCEPT !.relays[r].assigned = more]
        /\ delete_relay_assignment(r, p) = [db EXCEPT !.relays[r].assigned = fewer]
    BY DEF create_relay_assignment, delete_relay_assignment
  <2> HIDE DEF more, fewer
  <2> QED BY <1>6, <2>1, <2>2
<1> QED BY <1>3, <1>4, <1>5, <1>7

LEMMA SettingStatementsGood ==
    ASSUME Good(db)
    PROVE  /\ \A b \in BOOLEAN : Good(set_setting("feature_milter_enabled", b))
           /\ \A s \in Sizes : Good(set_setting("message_size_limit", s))
           /\ \A l \in Lists, on \in BOOLEAN : Good(set_spambl_enabled(l, on))
<1>1. ASSUME NEW b \in BOOLEAN PROVE Good(set_setting("feature_milter_enabled", b))
  <2>1. set_setting("feature_milter_enabled", b) = [db EXCEPT !.milter = b]
    BY DEF set_setting
  <2> QED BY <2>1, OthersSet
<1>2. ASSUME NEW s \in Sizes PROVE Good(set_setting("message_size_limit", s))
  <2>1. set_setting("message_size_limit", s) = [db EXCEPT !.size = s]
    BY DEF set_setting
  <2> QED BY <2>1, OthersSet
<1>3. ASSUME NEW l \in Lists, NEW on \in BOOLEAN PROVE Good(set_spambl_enabled(l, on))
  <2> DEFINE v == IF on THEN db.lists \cup {l} ELSE db.lists \ {l}
  <2>1. v \in SUBSET Lists
    BY TablesAre DEF Good
  <2>2. set_spambl_enabled(l, on) = [db EXCEPT !.lists = v]
    BY DEF set_spambl_enabled
  <2> HIDE DEF v
  <2> QED BY <2>1, <2>2, OthersSet
<1> QED BY <1>1, <1>2, <1>3

LEMMA InboxStatementsGood ==
    ASSUME Good(db), NEW x \in Accounts
    PROVE  /\ \A kind \in Kinds : /\ InboxFree(kind, x) => Good(create_inbox(kind, x))
                                  /\ Good(delete_inbox(kind, x))
           /\ \A ruf \in Accounts \cup {<<>>} :
                ruf = <<>> \/ HasAccount(ruf) => Good(set_dmarc_inbox_ruf(x, ruf))
<1>0. /\ db.inboxes \in SUBSET InboxRow
      /\ \A b \in db.inboxes : /\ db.accounts[b.account] # NoAccount
                               /\ b.ruf # <<>> => db.accounts[b.ruf] # NoAccount
  BY TablesAre DEF Good
<1>1. ASSUME NEW kind \in Kinds, InboxFree(kind, x)
      PROVE  Good(create_inbox(kind, x))
  <2> DEFINE row == [kind |-> kind, account |-> x, ruf |-> <<>>]
             v == db.inboxes \cup {row}
  <2>1. row \in InboxRow /\ row.account = x /\ row.ruf = <<>>
    BY DEF InboxRow
  <2>2. create_inbox(kind, x) = [db EXCEPT !.inboxes = v]
    BY DEF create_inbox
  <2> HIDE DEF row
  <2>3. v \in SUBSET InboxRow
    BY <1>0, <2>1
  <2>4. \A b \in v : /\ db.accounts[b.account] # NoAccount
                     /\ b.ruf # <<>> => db.accounts[b.ruf] # NoAccount
    BY <1>0, <1>1, <2>1 DEF InboxFree, HasAccount
  <2> HIDE DEF v
  <2>5. Good([db EXCEPT !.inboxes = v])
    BY <2>3, <2>4, InboxesSet
  <2> QED BY <2>2, <2>5
<1>2. ASSUME NEW kind \in Kinds
      PROVE  Good(delete_inbox(kind, x))
  <2> DEFINE v == {b \in db.inboxes : ~(b.kind = kind /\ b.account = x)}
  <2>1. delete_inbox(kind, x) = [db EXCEPT !.inboxes = v]
    BY DEF delete_inbox
  <2>2. v \in SUBSET InboxRow
    BY <1>0
  <2>3. \A b \in v : /\ db.accounts[b.account] # NoAccount
                     /\ b.ruf # <<>> => db.accounts[b.ruf] # NoAccount
    BY <1>0
  <2> HIDE DEF v
  <2>4. Good([db EXCEPT !.inboxes = v])
    BY <2>2, <2>3, InboxesSet
  <2> QED BY <2>1, <2>4
<1>3. ASSUME NEW ruf \in Accounts \cup {<<>>}, ruf = <<>> \/ HasAccount(ruf)
      PROVE  Good(set_dmarc_inbox_ruf(x, ruf))
  <2> DEFINE v == {[b EXCEPT !.ruf = IF b.kind = "dmarc" /\ b.account = x THEN ruf ELSE b.ruf] :
                     b \in db.inboxes}
  <2>1. set_dmarc_inbox_ruf(x, ruf) = [db EXCEPT !.inboxes = v]
    BY DEF set_dmarc_inbox_ruf
  <2>2. ASSUME NEW b \in v
        PROVE  /\ b \in InboxRow /\ db.accounts[b.account] # NoAccount
               /\ b.ruf # <<>> => db.accounts[b.ruf] # NoAccount
    <3>1. PICK c \in db.inboxes :
            b = [c EXCEPT !.ruf = IF c.kind = "dmarc" /\ c.account = x THEN ruf ELSE c.ruf]
      BY <2>2
    <3>2. c \in InboxRow
      BY <1>0
    <3>3. b \in InboxRow /\ b.account = c.account /\ b.ruf \in {c.ruf, ruf}
      BY <3>1, <3>2 DEF InboxRow
    <3> QED BY <1>0, <1>3, <3>3 DEF HasAccount
  <2>3. v \in SUBSET InboxRow
    BY <2>2
  <2> HIDE DEF v
  <2>4. Good([db EXCEPT !.inboxes = v])
    BY <2>2, <2>3, InboxesSet
  <2> QED BY <2>1, <2>4
<1> QED BY <1>1, <1>2, <1>3

------------------------------------------------------------------------------
(* The tables, edited one statement at a time.                              *)

TablesInv == Good(db) /\ dbUp \in BOOLEAN

\* A row whose name is an address's is there.
LEMMA NamedDomain ==
    ASSUME Good(db), NEW s \in Sources, NEW d \in Domains, db.domains[d].name = s.name
    PROVE  Exists(d)
BY MailTablesAssumption DEF Exists, NoDomain

LEMMA EmptyGood == Good(EmptyTables)
<1>1. EmptyTables \in Tables
  BY MailTablesAssumption DEF EmptyTables, Tables, NoRelay
<1>2. /\ \A d \in Domains : EmptyTables.domains[d] = NoDomain
      /\ \A x \in Accounts : EmptyTables.accounts[x] = NoAccount
      /\ \A i \in AliasIds : EmptyTables.aliases[i] = NoAlias
      /\ \A i \in ForwardIds : EmptyTables.forwardings[i] = NoAlias
      /\ EmptyTables.inboxes = {}
  BY DEF EmptyTables
<1> QED BY <1>1, <1>2 DEF Good

LEMMA TablesStep ==
    TablesInv /\ [TablesNext]_<<db, dbUp>> => TablesInv'
<1> SUFFICES ASSUME TablesInv, [TablesNext]_<<db, dbUp>>
             PROVE  TablesInv'
  OBVIOUS
<1>0. Good(db) /\ dbUp \in BOOLEAN
  BY DEF TablesInv
<1> SUFFICES ASSUME TablesNext
             PROVE  Good(db') /\ dbUp' = dbUp
  <2>1. CASE UNCHANGED <<db, dbUp>>
    BY <1>0, <2>1 DEF TablesInv
  <2>2. CASE TablesNext
    BY <1>0, <2>2 DEF TablesInv
  <2> QED BY <2>1, <2>2
<1>1. CASE EditDomains
  <2>1. PICK d \in Domains :
          \/ \E n \in DomainNames : ~Exists(d) /\ NameFree(n) /\ Becomes(create_domain(d, n))
          \/ \E n \in DomainNames, b \in BOOLEAN : Exists(d) /\ Becomes(update_domain(d, n, b))
          \/ Exists(d) /\ Becomes(delete_domain(d))
    BY <1>1 DEF EditDomains
  <2> QED BY <1>0, <2>1, CreateDomainGood, UpdateDomainGood, DeleteDomainGood DEF Becomes
<1>2. CASE EditAccounts
  <2>1. PICK x \in Accounts :
          \/ AccountFree(x) /\ Becomes(create_account(x, 1))
          \/ \E s \in {"active", "inactive"} : HasAccount(x) /\ Becomes(update_account(x, s))
          \/ HasAccount(x) /\ ~BacksInbox(x) /\ Becomes(delete_account(x))
    BY <1>2 DEF EditAccounts
  <2>2. 1 \in Secrets
    BY MailTablesAssumption
  <2> QED BY <1>0, <2>1, <2>2, AccountStatementsGood, DeleteAccountGood DEF Becomes
<1>3. CASE EditAliases
  <2>1. PICK i \in AliasIds, s \in Sources, t \in Targets :
          \/ \E d \in Domains : db.domains[d].name = s.name /\ Becomes(create_alias(i, d, s, t))
          \/ \E b \in BOOLEAN : Becomes(update_alias(i, s, t, b))
          \/ Becomes(delete_alias(i))
    BY <1>3 DEF EditAliases
  <2> QED BY <1>0, <2>1, NamedDomain, AliasStatementsGood, DeleteAliasGood DEF Becomes
<1>4. CASE EditForwardings
  <2>1. PICK i \in ForwardIds, s \in {a \in Sources : ~IsCatchAll(a)}, t \in Targets, keep \in BOOLEAN :
          \/ \E d \in Domains :
               db.domains[d].name = s.name /\ Becomes(create_forwarding(i, d, s, t, keep))
          \/ \E b \in BOOLEAN : Becomes(update_forwarding(i, s, t, b, keep))
          \/ Becomes(delete_forwarding(i))
    BY <1>4 DEF EditForwardings
  <2> QED BY <1>0, <2>1, NamedDomain, ForwardingStatementsGood, DeleteForwardingGood DEF Becomes
<1> QED BY <1>1, <1>2, <1>3, <1>4 DEF TablesNext

\* However the tables are edited, rows keep their types, no two domains share a name, and
\* nothing outlives the domain or the account it belongs to (the foreign keys of db.rs).
THEOREM TablesTypeCorrect == TablesSpec => []TablesTypeOK
<1>1. db = EmptyTables /\ dbUp = TRUE => TablesInv
  BY EmptyGood DEF TablesInv
<1>2. TablesInv => TablesTypeOK
  BY GoodTables DEF TablesInv
<1> QED BY <1>1, <1>2, TablesStep, PTL DEF TablesSpec

\* However the tables are edited, the aliases written from them leave the mail of a mailbox
\* nobody redirects alone (build_virtual_alias_entries in config.rs).
THEOREM CatchAllHolds == TablesSpec => []CatchAllSparesMailboxes
BY CatchAllSpares, PTL

------------------------------------------------------------------------------
(* The files generated from the tables.  A step of a handler commits good   *)
(* tables and hands its job on; a generation reads, truncates and writes.   *)

JobSteps == {"idle", "done", "hung", "openssl", "unset", "set", "ruf", "password", "destination",
          "alias", "forward", "relay", "created", "regen", "reading", "opened", "written"}
JobRow(V) == [pc : JobSteps, arg : V, todo : Seq(Queries), got : [Queries -> V],
           own : BOOLEAN, spoiled : BOOLEAN]

\* What a handler carries from one call to the next.
Carries(x) ==
    /\ x.pc = "openssl" => \E d \in Domains : x.arg = <<d>>
    /\ x.pc \in {"unset", "ruf"} =>
         \E kind \in Kinds, o, n \in Accounts \cup {<<>>} : x.arg = <<kind, o, n>>
    /\ x.pc = "set" => \E kind \in Kinds, a \in Accounts : x.arg = <<kind, a>>
    /\ x.pc = "password" => \E a \in Accounts : x.arg = <<a>>
    /\ x.pc \in {"destination", "alias"} =>
         \E d \in Domains, s \in Sources, t \in Targets : x.arg = <<d, s, t>>
    /\ x.pc = "forward" =>
         \E d \in Domains, s \in {a \in Sources : ~IsCatchAll(a)}, t \in Targets, keep \in BOOLEAN :
           x.arg = <<d, s, t, keep>>
    /\ x.pc = "relay" =>
         \E q \in Relays, st \in {"active", "inactive"}, au \in BOOLEAN, k \in Secrets \cup {0} :
           x.arg = <<q, st, au, k>>

JobsTyped ==
    /\ \E V : job \in [Jobs -> JobRow(V)]
    /\ \A j \in Jobs : Carries(job[j]) /\ (job[j].pc # "reading" => job[j].todo = <<>>)

FileStates == {"missing", "torn", "whole", "mixed"}

ConfigTyped ==
    /\ TablesInv
    /\ watched \in Files
    /\ disk.state \in FileStates /\ served.state \in FileStates
    /\ JobsTyped
    /\ faults \in 0..MaxFaults
    /\ wedged <=> \E r \in Requests : At(r, "hung")

Listing(s) == {s[i] : i \in 1..Len(s)}
Now == [q \in Queries |-> Answer(q)]

\* A generation that nothing has spoiled has yet to ask, or has the answer of now;
Fresh ==
    \A j \in Jobs : Reading(j) /\ ~job[j].spoiled =>
      \A q \in Listing(Reads(watched)) : q \in Listing(job[j].todo) \/ job[j].got[q] = Answer(q)
\* when it has truncated the file it is the only one to have;
Alone ==
    \A j \in Jobs : At(j, "opened") /\ ~job[j].spoiled =>
      disk = Torn /\ \A k \in Jobs : At(k, "opened") => k = j
\* the file is as the tables say, or a generation is to come;
Dirty == {"password", "created", "regen", "reading", "opened"}
Current == suspect \/ (\E j \in Jobs : job[j].pc \in Dirty) \/ disk = Whole(Text(Now))
\* and it is loaded, or a reload is to come.
Loaded == suspect \/ (\E j \in Jobs : job[j].pc \in Dirty \cup {"written"}) \/ served = disk

ConfigInv == ConfigTyped /\ Fresh /\ Alone /\ Current /\ Loaded

LEMMA ReadsQueries ==
    ASSUME watched \in Files
    PROVE  Reads(watched) \in Seq(Queries)
<1>1. Reads(watched) \in
        {<<"milter", "size", "lists", "assignments">>, <<"domains">>, <<"accounts">>,
         <<"aliases", "forwardings", "accounts">>, <<"forwardings">>, <<"aliases", "accounts">>,
         <<"assignments">>}
  BY DEF Files, Reads
<1>2. /\ "milter" \in Queries /\ "size" \in Queries /\ "lists" \in Queries
      /\ "assignments" \in Queries /\ "domains" \in Queries /\ "accounts" \in Queries
      /\ "aliases" \in Queries /\ "forwardings" \in Queries
  BY DEF Queries
<1>3. /\ <<"domains">> \in Seq(Queries) /\ <<"accounts">> \in Seq(Queries)
      /\ <<"forwardings">> \in Seq(Queries) /\ <<"assignments">> \in Seq(Queries)
  BY <1>2
<1>4. <<"aliases", "accounts">> \in Seq(Queries)
  BY <1>2
<1>5. <<"aliases", "forwardings", "accounts">> \in Seq(Queries)
  BY <1>2
<1>6. <<"milter", "size", "lists", "assignments">> \in Seq(Queries)
  BY <1>2
<1> QED BY <1>1, <1>3, <1>4, <1>5, <1>6

LEMMA JobGrows ==
    ASSUME NEW V, NEW W, V \subseteq W, NEW x \in JobRow(V)
    PROVE  x \in JobRow(W)
BY DEF JobRow

\* The texts of two lots of answers differ only when a query of the file's does.
LEMMA TextReads ==
    ASSUME watched \in Files, NEW g, NEW h, \A q \in Listing(Reads(watched)) : g[q] = h[q]
    PROVE  Text(g) = Text(h)
<1>1. CASE watched = "main.cf"
  <2>1. Reads(watched) = <<"milter", "size", "lists", "assignments">>
    BY <1>1 DEF Reads
  <2>2. g["milter"] = h["milter"] /\ g["size"] = h["size"] /\ g["lists"] = h["lists"]
          /\ g["assignments"] = h["assignments"]
    BY <2>1 DEF Listing
  <2> QED BY <1>1, <2>2 DEF Text
<1>2. CASE watched \in {"virtual_domains", "opendkim"}
  <2>1. Reads(watched) = <<"domains">>
    BY <1>2 DEF Reads
  <2>2. g["domains"] = h["domains"]
    BY <2>1 DEF Listing
  <2> QED BY <1>2, <2>2 DEF Text
<1>3. CASE watched \in {"vmailbox", "passwd"}
  <2>1. Reads(watched) = <<"accounts">>
    BY <1>3 DEF Reads
  <2>2. g["accounts"] = h["accounts"]
    BY <2>1 DEF Listing
  <2> QED BY <1>3, <2>2 DEF Text
<1>4. CASE watched = "virtual_aliases"
  <2>1. Reads(watched) = <<"aliases", "forwardings", "accounts">>
    BY <1>4 DEF Reads
  <2>2. g["aliases"] = h["aliases"] /\ g["forwardings"] = h["forwardings"]
          /\ g["accounts"] = h["accounts"]
    BY <2>1 DEF Listing
  <2> QED BY <1>4, <2>2 DEF Text
<1>5. CASE watched = "recipient_bcc"
  <2>1. Reads(watched) = <<"forwardings">>
    BY <1>5 DEF Reads
  <2>2. g["forwardings"] = h["forwardings"]
    BY <2>1 DEF Listing
  <2> QED BY <1>5, <2>2 DEF Text
<1>6. CASE watched = "sender_login_maps"
  <2>1. Reads(watched) = <<"aliases", "accounts">>
    BY <1>6 DEF Reads
  <2>2. g["aliases"] = h["aliases"] /\ g["accounts"] = h["accounts"]
    BY <2>1 DEF Listing
  <2> QED BY <1>6, <2>2 DEF Text
<1>7. CASE watched \in {"transport_maps", "sasl_passwd"}
  <2>1. Reads(watched) = <<"assignments">>
    BY <1>7 DEF Reads
  <2>2. g["assignments"] = h["assignments"]
    BY <2>1 DEF Listing
  <2> QED BY <1>7, <2>2 DEF Text
<1> QED BY <1>1, <1>2, <1>3, <1>4, <1>5, <1>6, <1>7 DEF Files

\* The generator's queries do not see the inboxes.
OnlyInboxes(t) ==
    /\ t.domains = db.domains /\ t.accounts = db.accounts /\ t.aliases = db.aliases
    /\ t.forwardings = db.forwardings /\ t.relays = db.relays
    /\ t.milter = db.milter /\ t.size = db.size /\ t.lists = db.lists

LEMMA SameAnswers ==
    ASSUME OnlyInboxes(db')
    PROVE  \A q \in Queries : Answer(q)' = Answer(q)
BY DEF OnlyInboxes, Queries, Answer, get_active_relay_assignments, list_domains, Exists,
       list_all_accounts, HasAccount, Address, list_all_aliases, list_all_forwardings

\* A handler's next step, and the step to it.
Handed(x) ==
    /\ \E V : x \in JobRow(V)
    /\ Carries(x)
    /\ x.todo = <<>>
    /\ x.pc \notin {"reading", "opened", "written"}

Hands(r) ==
    /\ job[r].pc \notin {"hung", "regen", "reading", "opened", "written"}
    /\ Good(db')
    /\ UNCHANGED quiet
    /\ \E next :
         /\ Handed(next)
         /\ job' = [k \in Jobs |-> IF k = r THEN next
                                   ELSE IF Reading(k) /\ db' # db THEN [job[k] EXCEPT !.spoiled = TRUE]
                                   ELSE job[k]]
         /\ IF next.pc = "hung" THEN wedged' = TRUE /\ suspect' = TRUE
            ELSE UNCHANGED <<wedged, suspect>>
         /\ next.pc \in {"regen", "password", "created", "hung"} \/ (job[r].pc \notin {"password", "created"} /\ OnlyInboxes(db'))

LEMMA JobsAre ==
    ASSUME NEW V
    PROVE  \A x \in JobRow(V) : DOMAIN x.got = Queries /\ x.todo \in Seq(Queries)
BY DEF JobRow

\* The steps a handler may be handed on to.
LEMMA NoJobTyped == \E V : NoJob \in JobRow(V) /\ NoJob.todo = <<>>
<1> DEFINE V == {<<>>, {}}
<1>1. <<>> \in Seq(Queries)
  OBVIOUS
<1>2. Nothing \in [Queries -> V]
  BY DEF Nothing
<1>3. NoJob \in JobRow(V) /\ NoJob.todo = <<>>
  BY <1>1, <1>2 DEF NoJob, JobRow, JobSteps
<1> QED BY <1>3

LEMMA StepIs ==
    ASSUME NEW pc, NEW arg
    PROVE  AtStep(pc, arg).pc = pc /\ AtStep(pc, arg).arg = arg
BY NoJobTyped DEF AtStep, JobRow

LEMMA StepHanded ==
    ASSUME NEW pc \in JobSteps \ {"reading", "opened", "written"}, NEW arg,
           Carries(AtStep(pc, arg))
    PROVE  Handed(AtStep(pc, arg)) /\ AtStep(pc, arg).pc = pc
<1>1. PICK V : NoJob \in JobRow(V) /\ NoJob.todo = <<>>
  BY NoJobTyped
<1> DEFINE W == V \cup {arg}
           x == AtStep(pc, arg)
<1>2. NoJob \in JobRow(W)
  BY <1>1, JobGrows
<1>3. x \in JobRow(W) /\ x.todo = <<>> /\ x.pc = pc
  BY <1>1, <1>2 DEF AtStep, JobRow
<1> HIDE DEF x, W
<1>4. Handed(x)
  BY <1>3 DEF Handed, x
<1> QED BY <1>3, <1>4 DEF x

LEMMA PlainHanded ==
    /\ Handed(Done) /\ Done.pc = "done"
    /\ Handed(Regenerates) /\ Regenerates.pc = "regen"
    /\ Handed(Genconfig) /\ Genconfig.pc = "regen"
    /\ Handed([NoJob EXCEPT !.pc = "hung"]) /\ [NoJob EXCEPT !.pc = "hung"].pc = "hung"
    /\ Handed(NoJob) /\ NoJob.pc = "idle"
<1>1. PICK V : NoJob \in JobRow(V) /\ NoJob.todo = <<>>
  BY NoJobTyped
<1>2. ASSUME NEW pc \in {"done", "regen", "hung"}, NEW own \in BOOLEAN
      PROVE  LET x == [NoJob EXCEPT !.pc = pc, !.own = own] IN Handed(x) /\ x.pc = pc
  <2> DEFINE x == [NoJob EXCEPT !.pc = pc, !.own = own]
  <2>1. x \in JobRow(V) /\ x.todo = <<>> /\ x.pc = pc
    BY <1>1 DEF JobRow, JobSteps
  <2> HIDE DEF x
  <2>2. Carries(x)
    BY <2>1 DEF Carries
  <2>3. Handed(x)
    BY <2>1, <2>2 DEF Handed
  <2> QED BY <2>1, <2>3 DEF x
<1>3. NoJob.own = FALSE /\ NoJob.pc = "idle"
  BY DEF NoJob
<1>4. \A pc \in {"done", "regen", "hung"} :
        [NoJob EXCEPT !.pc = pc] = [NoJob EXCEPT !.pc = pc, !.own = FALSE]
  BY <1>1, <1>3 DEF JobRow
<1>5. Handed(NoJob)
  <2>1. Carries(NoJob)
    BY <1>3 DEF Carries
  <2> QED BY <1>1, <1>3, <2>1 DEF Handed
<1> QED BY <1>2, <1>3, <1>4, <1>5 DEF Done, Regenerates, Genconfig

LEMMA CommitHands ==
    ASSUME ConfigInv, NEW r \in Requests, NEW tables, Good(tables), NEW next, Handed(next),
           job[r].pc \notin {"hung", "regen", "reading", "opened", "written"},
           Commit(r, tables, next),
           \/ next.pc \in {"regen", "password", "created"}
           \/ /\ job[r].pc \notin {"password", "created"} /\ next.pc # "hung"
              /\ ~dbUp \/ OnlyInboxes(tables)
    PROVE  Hands(r)
<1>1. /\ db' = IF dbUp THEN tables ELSE db
      /\ job' = [k \in Jobs |-> IF k = r THEN next
                                ELSE IF Reading(k) /\ db' # db THEN [job[k] EXCEPT !.spoiled = TRUE]
                                ELSE job[k]]
      /\ UNCHANGED <<quiet, wedged, suspect>>
  BY DEF Commit, Committed
<1>2. Good(db')
  BY <1>1 DEF ConfigInv, ConfigTyped, TablesInv
<1>3. next.pc \in {"regen", "password", "created", "hung"} \/ (job[r].pc \notin {"password", "created"} /\ OnlyInboxes(db'))
  BY <1>1 DEF OnlyInboxes
<1>4. next.pc # "hung"
  OBVIOUS
<1> QED BY <1>1, <1>2, <1>3, <1>4 DEF Hands

LEMMA GoesHands ==
    ASSUME ConfigInv, NEW r \in Requests, NEW next, Handed(next), next.pc # "hung",
           job[r].pc \notin {"hung", "regen", "reading", "opened", "written"},
           next.pc = "regen" \/ job[r].pc \notin {"password", "created"},
           Goes(r, next), UNCHANGED <<db, quiet, wedged, suspect>>
    PROVE  Hands(r)
<1>1. PICK V : job \in [Jobs -> JobRow(V)]
  BY DEF ConfigInv, ConfigTyped, JobsTyped
<1>2. job' = [k \in Jobs |-> IF k = r THEN next
                             ELSE IF Reading(k) /\ db' # db THEN [job[k] EXCEPT !.spoiled = TRUE]
                             ELSE job[k]]
  BY <1>1 DEF Goes, Jobs
<1>3. Good(db') /\ OnlyInboxes(db')
  BY DEF ConfigInv, ConfigTyped, TablesInv, OnlyInboxes
<1> QED BY <1>2, <1>3 DEF Hands

LEMMA EditHands ==
    ASSUME ConfigInv, NEW r \in Requests, NEW tables, Good(tables),
           Edit(r, tables) \/ Delete(r, tables)
    PROVE  Hands(r)
<1>1. job[r].pc = "idle" /\ Commit(r, tables, Regenerates)
  BY DEF Edit, Delete, AfterDelete, Begins, At
<1> QED BY <1>1, PlainHanded, CommitHands

LEMMA InsertHands ==
    ASSUME ConfigInv, NEW r \in Requests, NEW accepted, NEW tables, accepted => Good(tables),
           Insert(r, accepted, tables)
    PROVE  Hands(r)
<1>0. Good(db)
  BY DEF ConfigInv, ConfigTyped, TablesInv
<1>1. job[r].pc = "idle"
  BY DEF Insert, Begins, At
<1>2. CASE accepted /\ dbUp
  <2>1. Commit(r, tables, Regenerates)
    BY <1>2 DEF Insert
  <2> QED BY <1>1, <1>2, <2>1, PlainHanded, CommitHands
<1>3. CASE accepted /\ ~dbUp
  <2>1. Commit(r, tables, Done)
    BY <1>3 DEF Insert
  <2> QED BY <1>1, <1>3, <2>1, PlainHanded, CommitHands
<1>4. CASE ~accepted
  <2>1. Commit(r, db, Done) /\ OnlyInboxes(db)
    BY <1>4 DEF Insert, OnlyInboxes
  <2> QED BY <1>0, <1>1, <2>1, PlainHanded, CommitHands
<1> QED BY <1>2, <1>3, <1>4

LEMMA LookUpHands ==
    ASSUME ConfigInv, NEW r \in Requests, NEW found, NEW next,
           found => Handed(next) /\ next.pc # "hung",
           job[r].pc \notin {"hung", "regen", "reading", "opened", "written", "password", "created"},
           LookUp(r, found, next)
    PROVE  Hands(r)
<1>1. UNCHANGED <<db, quiet, wedged, suspect>>
  BY DEF LookUp
<1>2. CASE dbUp /\ found
  <2>1. Goes(r, next)
    BY <1>2 DEF LookUp
  <2> QED BY <1>1, <1>2, <2>1, GoesHands
<1>3. CASE ~(dbUp /\ found)
  <2>1. Goes(r, Done)
    BY <1>3 DEF LookUp
  <2> QED BY <1>1, <2>1, PlainHanded, GoesHands
<1> QED BY <1>2, <1>3

LEMMA DomainHands ==
    ASSUME ConfigInv, NEW r \in Requests, DomainRequest(r)
    PROVE  Hands(r)
<1>0. Good(db)
  BY DEF ConfigInv, ConfigTyped, TablesInv
<1>1. PICK d \in Domains :
        \/ \E n \in DomainNames, b \in BOOLEAN : domains_create(r, d, n) \/ domains_update(r, d, n, b)
        \/ domains_delete(r, d) \/ generate_dkim(r, d)
  BY DEF DomainRequest
<1>2. CASE \E n \in DomainNames : domains_create(r, d, n)
  <2>1. PICK n \in DomainNames : Insert(r, NameFree(n), create_domain(d, n))
    BY <1>2 DEF domains_create
  <2>2. NameFree(n) => Good(create_domain(d, n))
    BY <1>0, CreateDomainGood
  <2> QED BY <2>1, <2>2, InsertHands
<1>3. CASE \E n \in DomainNames, b \in BOOLEAN : domains_update(r, d, n, b)
  <2>1. PICK n \in DomainNames, b \in BOOLEAN : Edit(r, update_domain(d, n, b))
    BY <1>3 DEF domains_update
  <2>2. Good(update_domain(d, n, b))
    BY <1>0, UpdateDomainGood
  <2> QED BY <2>1, <2>2, EditHands
<1>4. CASE domains_delete(r, d)
  <2>1. Good(delete_domain(d))
    BY <1>0, DeleteDomainGood
  <2> QED BY <1>4, <2>1, EditHands DEF domains_delete
<1>5. CASE generate_dkim(r, d)
  <2> DEFINE x == AtStep("openssl", <<d>>)
  <2>1. /\ LookUp(r, Exists(d), x) /\ job[r].pc = "idle"
    BY <1>5 DEF generate_dkim, Begins, At
  <2>2. x.pc = "openssl" /\ x.arg = <<d>>
    BY StepIs
  <2>3. Carries(x)
    <3> HIDE DEF x
    <3> QED BY <2>2 DEF Carries
  <2>4. Handed(x)
    BY <2>3, StepHanded DEF JobSteps
  <2> HIDE DEF x
  <2> QED BY <2>1, <2>2, <2>4, LookUpHands
<1> QED BY <1>1, <1>2, <1>3, <1>4, <1>5

LEMMA SettingHands ==
    ASSUME ConfigInv, NEW r \in Requests, SettingRequest(r)
    PROVE  Hands(r)
<1>0. Good(db)
  BY DEF ConfigInv, ConfigTyped, TablesInv
<1>1. CASE \E b \in BOOLEAN : update_features(r, b)
  <2>1. PICK b \in BOOLEAN : Edit(r, set_setting("feature_milter_enabled", b))
    BY <1>1 DEF update_features
  <2>2. Good(set_setting("feature_milter_enabled", b))
    BY <1>0, SettingStatementsGood
  <2> QED BY <2>1, <2>2, EditHands
<1>2. CASE \E b \in BOOLEAN, l \in Lists : spambl_toggle(r, l, b)
  <2>1. PICK b \in BOOLEAN, l \in Lists : Edit(r, set_spambl_enabled(l, b))
    BY <1>2 DEF spambl_toggle
  <2>2. Good(set_spambl_enabled(l, b))
    BY <1>0, SettingStatementsGood
  <2> QED BY <2>1, <2>2, EditHands
<1>3. CASE \E s \in Sizes : update_mail_settings(r, s)
  <2>1. PICK s \in Sizes : Edit(r, set_setting("message_size_limit", s))
    BY <1>3 DEF update_mail_settings
  <2>2. Good(set_setting("message_size_limit", s))
    BY <1>0, SettingStatementsGood
  <2> QED BY <2>1, <2>2, EditHands
<1> QED BY <1>1, <1>2, <1>3 DEF SettingRequest

LEMMA AccountHands ==
    ASSUME ConfigInv, NEW r \in Requests, AccountRequest(r)
    PROVE  Hands(r)
<1>0. Good(db)
  BY DEF ConfigInv, ConfigTyped, TablesInv
<1>1. PICK x \in Accounts :
        \/ \E s \in {"active", "inactive"} : accounts_update(r, x, s)
        \/ \E pw \in Secrets : accounts_create(r, x, pw) \/ handle_form(r, x, pw)
        \/ accounts_delete(r, x)
  BY DEF AccountRequest
<1>2. CASE \E s \in {"active", "inactive"} : accounts_update(r, x, s)
  <2>1. PICK s \in {"active", "inactive"} : accounts_update(r, x, s)
    BY <1>2
  <2> DEFINE later == AtStep("password", <<x>>)
  <2>2. job[r].pc = "idle" /\ (Commit(r, update_account(x, s), Regenerates)
                                \/ Commit(r, update_account(x, s), later))
    BY <2>1 DEF accounts_update, Begins, At
  <2>3. later.pc = "password" /\ later.arg = <<x>>
    BY StepIs
  <2>4. Carries(later)
    <3> HIDE DEF later
    <3> QED BY <2>3 DEF Carries
  <2>5. Handed(later)
    BY <2>4, StepHanded DEF JobSteps
  <2>6. Good(update_account(x, s))
    BY <1>0, AccountStatementsGood
  <2> HIDE DEF later
  <2>7. CASE Commit(r, update_account(x, s), Regenerates)
    BY <2>2, <2>6, <2>7, PlainHanded, CommitHands
  <2>8. CASE Commit(r, update_account(x, s), later)
    BY <2>2, <2>3, <2>5, <2>6, <2>8, CommitHands
  <2> QED BY <2>2, <2>7, <2>8
<1>3. CASE \E pw \in Secrets : accounts_create(r, x, pw)
  <2>1. PICK pw \in Secrets : Insert(r, AccountFree(x), create_account(x, pw))
    BY <1>3 DEF accounts_create
  <2>2. AccountFree(x) => Good(create_account(x, pw))
    BY <1>0, AccountStatementsGood
  <2> QED BY <2>1, <2>2, InsertHands
<1>4. CASE \E pw \in Secrets : handle_form(r, x, pw)
  <2>1. PICK pw \in Secrets : handle_form(r, x, pw)
    BY <1>4
  <2>2. job[r].pc = "idle" /\ (AccountFree(x) => Good(create_account(x, pw)))
    BY <1>0, <2>1, AccountStatementsGood DEF handle_form, Begins, At
  <2>3. CASE AccountFree(x) /\ dbUp
    <3> DEFINE next == AtStep("created", <<x>>)
    <3>1. Commit(r, create_account(x, pw), next)
      BY <2>1, <2>3 DEF handle_form
    <3>2. Carries(next)
      BY StepIs DEF Carries
    <3>3. Handed(next) /\ next.pc = "created"
      BY <3>2, StepHanded DEF JobSteps
    <3> HIDE DEF next
    <3> QED BY <2>2, <2>3, <3>1, <3>3, CommitHands
  <2>4. CASE AccountFree(x) /\ ~dbUp
    <3>1. Commit(r, create_account(x, pw), Done)
      BY <2>1, <2>4 DEF handle_form
    <3> QED BY <2>2, <2>4, <3>1, PlainHanded, CommitHands
  <2>5. CASE ~AccountFree(x)
    <3>1. Commit(r, db, Done) /\ OnlyInboxes(db)
      BY <2>1, <2>5 DEF handle_form, OnlyInboxes
    <3> QED BY <1>0, <2>2, <3>1, PlainHanded, CommitHands
  <2> QED BY <2>3, <2>4, <2>5
<1>5. CASE accounts_delete(r, x)
  <2>1. job[r].pc = "idle"
    BY <1>5 DEF accounts_delete, Begins, At
  <2>2. CASE BacksInbox(x) \/ ~dbUp
    <3>1. LookUp(r, FALSE, Done)
      BY <1>5, <2>2 DEF accounts_delete
    <3> QED BY <2>1, <3>1, LookUpHands
  <2>3. CASE ~(BacksInbox(x) \/ ~dbUp)
    <3> DEFINE next == [NoJob EXCEPT !.pc = "hung"]
    <3>1. /\ Committed(r, delete_account(x), next)
          /\ wedged' = TRUE /\ suspect' = TRUE /\ UNCHANGED quiet
      BY <1>5, <2>3 DEF accounts_delete
    <3>2. Handed(next) /\ next.pc = "hung"
      BY PlainHanded
    <3>3. Good(db')
      BY <1>0, <2>3, <3>1, DeleteAccountGood DEF Committed
    <3> HIDE DEF next
    <3>4. job' = [k \in Jobs |-> IF k = r THEN next
                                 ELSE IF Reading(k) /\ db' # db THEN [job[k] EXCEPT !.spoiled = TRUE]
                                 ELSE job[k]]
      BY <3>1 DEF Committed
    <3> QED BY <2>1, <3>1, <3>2, <3>3, <3>4 DEF Hands
  <2> QED BY <2>2, <2>3
<1> QED BY <1>1, <1>2, <1>3, <1>4, <1>5

LEMMA FindHands ==
    ASSUME ConfigInv, NEW r \in Requests, NEW kind \in Kinds, NEW d \in Domains,
           NEW pc \in {"unset", "ruf"}, NEW x \in Accounts \cup {<<>>},
           FindInbox(r, kind, d, <<pc, x>>)
    PROVE  Hands(r)
<1>1. /\ job[r].pc = "idle" /\ UNCHANGED <<db, quiet, wedged, suspect>>
      /\ \E o \in Accounts \cup {<<>>} : Goes(r, AtStep(pc, <<kind, o, x>>))
  <2>1. \A b \in InboxOf(kind, d) : b.account \in Accounts
    BY TablesAre DEF ConfigInv, ConfigTyped, TablesInv, Good, InboxOf, InboxRow
  <2> QED BY <2>1 DEF FindInbox, Begins, At
<1>2. PICK o \in Accounts \cup {<<>>} : Goes(r, AtStep(pc, <<kind, o, x>>))
  BY <1>1
<1> DEFINE next == AtStep(pc, <<kind, o, x>>)
<1>3. next.pc = pc /\ next.arg = <<kind, o, x>>
  BY StepIs
<1>4. Carries(next)
  <2> HIDE DEF next
  <2> QED BY <1>3 DEF Carries
<1>5. Handed(next)
  BY <1>4, StepHanded DEF JobSteps
<1> HIDE DEF next
<1>6. Goes(r, next)
  BY <1>2 DEF next
<1> QED BY <1>1, <1>3, <1>5, <1>6, GoesHands

LEMMA InboxHands ==
    ASSUME ConfigInv, NEW r \in Requests, InboxRequest(r)
    PROVE  Hands(r)
<1>1. PICK d \in Domains, x \in Accounts :
        \/ set_dmarc_inbox(r, d, x) \/ set_abuse_inbox(r, d, x) \/ set_bounce_inbox(r, d, x)
        \/ remove_dmarc_inbox(r, d) \/ remove_abuse_inbox(r, d) \/ remove_bounce_inbox(r, d)
        \/ set_dmarc_ruf_inbox(r, d, x) \/ remove_dmarc_ruf_inbox(r, d)
  BY DEF InboxRequest
<1>2. \E kind \in Kinds, pc \in {"unset", "ruf"}, y \in Accounts \cup {<<>>} :
        FindInbox(r, kind, d, <<pc, y>>)
  BY <1>1 DEF Kinds, set_dmarc_inbox, set_abuse_inbox, set_bounce_inbox, remove_dmarc_inbox,
              remove_abuse_inbox, remove_bounce_inbox, set_dmarc_ruf_inbox, remove_dmarc_ruf_inbox
<1> QED BY <1>2, FindHands

LEMMA AddressHands ==
    ASSUME ConfigInv, NEW r \in Requests, AddressRequest(r)
    PROVE  Hands(r)
<1>0. Good(db)
  BY DEF ConfigInv, ConfigTyped, TablesInv
<1>1. CASE \E s \in Sources, t \in Targets : aliases_create(r, s, t)
  <2>1. PICK s \in Sources, t \in Targets : aliases_create(r, s, t)
    BY <1>1
  <2> DEFINE ds == {d \in Domains : db.domains[d].name = s.name}
             next == AtStep("destination", <<CHOOSE d \in ds : TRUE, s, t>>)
  <2>2. job[r].pc = "idle" /\ LookUp(r, ds # {}, next)
    BY <2>1 DEF aliases_create, Begins, At
  <2>3. next.pc = "destination" /\ next.arg = <<CHOOSE d \in ds : TRUE, s, t>>
    BY StepIs
  <2>4. ds # {} => (CHOOSE d \in ds : TRUE) \in Domains
    OBVIOUS
  <2>5. ds # {} => Carries(next)
    <3> HIDE DEF next, ds
    <3> QED BY <2>3, <2>4 DEF Carries
  <2>6. ds # {} => Handed(next)
    BY <2>5, StepHanded DEF JobSteps
  <2> HIDE DEF next
  <2> QED BY <2>2, <2>3, <2>6, LookUpHands
<1>2. CASE \E s \in Sources, t \in Targets, b \in BOOLEAN, i \in AliasIds : aliases_update(r, i, s, t, b)
  <2>1. PICK s \in Sources, t \in Targets, b \in BOOLEAN, i \in AliasIds :
          Edit(r, update_alias(i, s, t, b))
    BY <1>2 DEF aliases_update
  <2>2. Good(update_alias(i, s, t, b))
    BY <1>0, AliasStatementsGood
  <2> QED BY <2>1, <2>2, EditHands
<1>3. CASE \E s \in Sources, t \in Targets, keep \in BOOLEAN :
             ~IsCatchAll(s) /\ forwarding_create(r, s, t, keep)
  <2>1. PICK s \in Sources, t \in Targets, keep \in BOOLEAN :
          ~IsCatchAll(s) /\ forwarding_create(r, s, t, keep)
    BY <1>3
  <2> DEFINE ds == {d \in Domains : db.domains[d].name = s.name}
             next == AtStep("forward", <<CHOOSE d \in ds : TRUE, s, t, keep>>)
  <2>2. job[r].pc = "idle" /\ LookUp(r, ds # {}, next)
    BY <2>1 DEF forwarding_create, Begins, At
  <2>3. next.pc = "forward" /\ next.arg = <<CHOOSE d \in ds : TRUE, s, t, keep>>
    BY StepIs
  <2>4. ds # {} => (CHOOSE d \in ds : TRUE) \in Domains
    OBVIOUS
  <2>5. ds # {} => Carries(next)
    <3> HIDE DEF next, ds
    <3> QED BY <2>1, <2>3, <2>4 DEF Carries
  <2>6. ds # {} => Handed(next)
    BY <2>5, StepHanded DEF JobSteps
  <2> HIDE DEF next
  <2> QED BY <2>2, <2>3, <2>6, LookUpHands
<1>4. CASE \E s \in Sources, t \in Targets, b, keep \in BOOLEAN, i \in ForwardIds :
             ~IsCatchAll(s) /\ forwarding_update(r, i, s, t, b, keep)
  <2>1. PICK s \in {a \in Sources : ~IsCatchAll(a)}, t \in Targets, b \in BOOLEAN,
             keep \in BOOLEAN, i \in ForwardIds :
          Edit(r, update_forwarding(i, s, t, b, keep))
    BY <1>4 DEF forwarding_update
  <2>2. Good(update_forwarding(i, s, t, b, keep))
    BY <1>0, ForwardingStatementsGood
  <2> QED BY <2>1, <2>2, EditHands
<1>5. CASE \E i \in AliasIds : aliases_delete(r, i)
  <2>1. PICK i \in AliasIds : Delete(r, delete_alias(i))
    BY <1>5 DEF aliases_delete
  <2>2. Good(delete_alias(i))
    BY <1>0, DeleteAliasGood
  <2> QED BY <2>1, <2>2, EditHands
<1>6. CASE \E i \in ForwardIds : forwarding_delete(r, i)
  <2>1. PICK i \in ForwardIds : Delete(r, delete_forwarding(i))
    BY <1>6 DEF forwarding_delete
  <2>2. Good(delete_forwarding(i))
    BY <1>0, DeleteForwardingGood
  <2> QED BY <2>1, <2>2, EditHands
<1> QED BY <1>1, <1>2, <1>3, <1>4, <1>5, <1>6 DEF AddressRequest

LEMMA RelayHands ==
    ASSUME ConfigInv, NEW r \in Requests, RelayRequest(r)
    PROVE  Hands(r)
<1>0. Good(db) /\ \A q \in Relays : db.relays[q].secret \in Secrets \cup {0}
  BY TablesAre DEF ConfigInv, ConfigTyped, TablesInv, Good, RelayRow
<1>1. PICK q \in Relays :
        \/ \E auth \in BOOLEAN, k \in {0} \cup Secrets, s \in {"active", "inactive"} :
             relays_create(r, q, auth, k) \/ relays_update(r, q, s, auth, k)
        \/ relays_delete(r, q)
        \/ \E p \in Patterns : add_assignment(r, q, p) \/ remove_assignment(r, q, p)
  BY DEF RelayRequest
<1>2. CASE \E auth \in BOOLEAN, k \in {0} \cup Secrets : relays_create(r, q, auth, k)
  <2>1. PICK auth \in BOOLEAN, k \in {0} \cup Secrets :
          Insert(r, TRUE, create_outbound_relay(q, auth, k))
    BY <1>2 DEF relays_create
  <2>2. Good(create_outbound_relay(q, auth, k))
    BY <1>0, RelayStatementsGood
  <2> QED BY <2>1, <2>2, InsertHands
<1>3. CASE \E auth \in BOOLEAN, k \in {0} \cup Secrets, s \in {"active", "inactive"} :
             relays_update(r, q, s, auth, k)
  <2>1. PICK auth \in BOOLEAN, k \in {0} \cup Secrets, s \in {"active", "inactive"} :
          relays_update(r, q, s, auth, k)
    BY <1>3
  <2>2. PICK kept \in Secrets \cup {0} : Goes(r, AtStep("relay", <<q, s, auth, kept>>))
    BY <1>0, <2>1 DEF relays_update
  <2> DEFINE next == AtStep("relay", <<q, s, auth, kept>>)
  <2>3. next.pc = "relay" /\ next.arg = <<q, s, auth, kept>>
    BY StepIs
  <2>4. Carries(next)
    <3> HIDE DEF next
    <3> QED BY <2>3 DEF Carries
  <2>5. Handed(next)
    BY <2>4, StepHanded DEF JobSteps
  <2>6. job[r].pc = "idle" /\ UNCHANGED <<db, quiet, wedged, suspect>>
    BY <2>1 DEF relays_update, Begins, At
  <2> HIDE DEF next
  <2>7. Goes(r, next)
    BY <2>2 DEF next
  <2> QED BY <2>3, <2>5, <2>6, <2>7, GoesHands
<1>4. CASE relays_delete(r, q)
  <2>1. Good(delete_outbound_relay(q))
    BY <1>0, RelayStatementsGood
  <2> QED BY <1>4, <2>1, EditHands DEF relays_delete
<1>5. CASE \E p \in Patterns : add_assignment(r, q, p)
  <2>1. PICK p \in Patterns :
          Insert(r, db.relays[q] # NoRelay, create_relay_assignment(q, p))
    BY <1>5 DEF add_assignment
  <2>2. Good(create_relay_assignment(q, p))
    BY <1>0, RelayStatementsGood
  <2> QED BY <2>1, <2>2, InsertHands
<1>6. CASE \E p \in Patterns : remove_assignment(r, q, p)
  <2>1. PICK p \in Patterns : Delete(r, delete_relay_assignment(q, p))
    BY <1>6 DEF remove_assignment
  <2>2. Good(delete_relay_assignment(q, p))
    BY <1>0, RelayStatementsGood
  <2> QED BY <2>1, <2>2, EditHands
<1> QED BY <1>1, <1>2, <1>3, <1>4, <1>5, <1>6

\* The later statements of a handler, from what it carries.
LEMMA LaterHands ==
    ASSUME ConfigInv, NEW r \in Requests, LaterStep(r), ~GenconfigFails(r)
    PROVE  Hands(r)
<1>0. Good(db) /\ Carries(job[r]) /\ OnlyInboxes(db)
  BY DEF ConfigInv, ConfigTyped, TablesInv, JobsTyped, Jobs, OnlyInboxes
<1>1. CASE UnsetInbox(r)
  <2> DEFINE old == job[r].arg[2] new == job[r].arg[3]
             t == IF old = <<>> THEN db ELSE delete_inbox(job[r].arg[1], old)
             next == IF new = <<>> THEN Done ELSE AtStep("set", <<job[r].arg[1], new>>)
  <2>1. job[r].pc = "unset" /\ Commit(r, t, next)
    BY <1>1 DEF UnsetInbox, At
  <2>2. PICK kind \in Kinds, o \in Accounts \cup {<<>>}, n \in Accounts \cup {<<>>} :
          job[r].arg = <<kind, o, n>>
    BY <1>0, <2>1 DEF Carries
  <2>3. Good(t) /\ OnlyInboxes(t)
    <3>1. CASE o = <<>>
      BY <1>0, <2>2, <3>1
    <3>2. CASE o # <<>>
      <4>1. t = delete_inbox(kind, o) /\ o \in Accounts
        BY <2>2, <3>2
      <4>2. Good(t)
        BY <1>0, <4>1, InboxStatementsGood
      <4>3. OnlyInboxes(delete_inbox(kind, o))
        BY <1>0 DEF Good, Tables, OnlyInboxes, delete_inbox
      <4> QED BY <4>1, <4>2, <4>3
    <3> QED BY <3>1, <3>2
  <2>4. Handed(next) /\ next.pc \in {"done", "set"}
    <3>1. CASE n = <<>>
      BY <2>2, <3>1, PlainHanded
    <3>2. CASE n # <<>>
      <4> DEFINE x == AtStep("set", <<kind, n>>)
      <4>1. x.pc = "set" /\ x.arg = <<kind, n>> /\ n \in Accounts
        BY <3>2, StepIs
      <4>2. Carries(x)
        <5> HIDE DEF x
        <5> QED BY <4>1 DEF Carries
      <4>3. Handed(x)
        BY <4>2, StepHanded DEF JobSteps
      <4>4. next = x
        BY <2>2, <3>2
      <4> HIDE DEF x, next
      <4> QED BY <4>1, <4>3, <4>4
    <3> QED BY <3>1, <3>2
  <2> HIDE DEF t, next
  <2> QED BY <2>1, <2>3, <2>4, CommitHands
<1>2. CASE CreateInbox(r)
  <2> DEFINE k == job[r].arg[1] x == job[r].arg[2]
             t == IF InboxFree(k, x) THEN create_inbox(k, x) ELSE db
  <2>1. job[r].pc = "set" /\ Commit(r, t, Done)
    BY <1>2 DEF CreateInbox, At
  <2>2. PICK kind \in Kinds, a \in Accounts : job[r].arg = <<kind, a>>
    BY <1>0, <2>1 DEF Carries
  <2>3. t = IF InboxFree(kind, a) THEN create_inbox(kind, a) ELSE db
    BY <2>2
  <2>4. InboxFree(kind, a) => Good(create_inbox(kind, a))
    BY <1>0, InboxStatementsGood
  <2>5. OnlyInboxes(create_inbox(kind, a))
    BY <1>0 DEF Good, Tables, OnlyInboxes, create_inbox
  <2> HIDE DEF t
  <2>6. Good(t) /\ OnlyInboxes(t)
    BY <1>0, <2>3, <2>4, <2>5
  <2> QED BY <2>1, <2>6, PlainHanded, CommitHands
<1>3. CASE SetRuf(r)
  <2> DEFINE old == job[r].arg[2] ruf == job[r].arg[3]
             t == IF old = <<>> \/ (ruf # <<>> /\ ~HasAccount(ruf)) THEN db
                  ELSE set_dmarc_inbox_ruf(old, ruf)
  <2>1. job[r].pc = "ruf" /\ Commit(r, t, Done)
    BY <1>3 DEF SetRuf, At
  <2>2. PICK kind \in Kinds, o \in Accounts \cup {<<>>}, n \in Accounts \cup {<<>>} :
          job[r].arg = <<kind, o, n>>
    BY <1>0, <2>1 DEF Carries
  <2>3. t = IF o = <<>> \/ (n # <<>> /\ ~HasAccount(n)) THEN db ELSE set_dmarc_inbox_ruf(o, n)
    BY <2>2
  <2>4. o # <<>> /\ (n = <<>> \/ HasAccount(n)) => Good(set_dmarc_inbox_ruf(o, n))
    BY <1>0, InboxStatementsGood
  <2>5. OnlyInboxes(set_dmarc_inbox_ruf(o, n))
    BY <1>0 DEF Good, Tables, OnlyInboxes, set_dmarc_inbox_ruf
  <2> HIDE DEF t
  <2>6. Good(t) /\ OnlyInboxes(t)
    BY <1>0, <2>3, <2>4, <2>5
  <2> QED BY <2>1, <2>6, PlainHanded, CommitHands
<1>4. CASE CheckDestination(r)
  <2> DEFINE next == [job[r] EXCEPT !.pc = "alias"]
  <2>1. job[r].pc = "destination" /\ LookUp(r, email_exists(job[r].arg[3]), next)
    BY <1>4 DEF CheckDestination, At
  <2>2. PICK V : job[r] \in JobRow(V) /\ job[r].todo = <<>>
    BY <2>1 DEF ConfigInv, ConfigTyped, JobsTyped, Jobs
  <2>3. next \in JobRow(V) /\ next.pc = "alias" /\ next.arg = job[r].arg /\ next.todo = <<>>
    BY <2>2 DEF JobRow, JobSteps
  <2> HIDE DEF next
  <2>4. Carries(next)
    BY <1>0, <2>1, <2>3 DEF Carries
  <2>5. Handed(next)
    BY <2>3, <2>4 DEF Handed
  <2> QED BY <2>1, <2>3, <2>5, LookUpHands
<1>5. CASE WriteRelay(r)
  <2> DEFINE a == job[r].arg
  <2>1. job[r].pc = "relay" /\ Commit(r, update_outbound_relay(a[1], a[2], a[3], a[4]), Regenerates)
    BY <1>5 DEF WriteRelay, At
  <2>2. PICK q \in Relays, st \in {"active", "inactive"}, au \in BOOLEAN, k \in Secrets \cup {0} :
          a = <<q, st, au, k>>
    BY <1>0, <2>1 DEF Carries
  <2>3. Good(update_outbound_relay(q, st, au, k))
    BY <1>0, RelayStatementsGood
  <2>4. Commit(r, update_outbound_relay(q, st, au, k), Regenerates)
    BY <2>1, <2>2
  <2> QED BY <2>1, <2>3, <2>4, PlainHanded, CommitHands
<1>6. CASE \E k \in Secrets : StoreDkim(r, k)
  <2>1. PICK k \in Secrets : StoreDkim(r, k)
    BY <1>6
  <2>2. job[r].pc = "openssl" /\ Commit(r, update_domain_dkim(job[r].arg[1], k), Regenerates)
    BY <2>1 DEF StoreDkim, At
  <2>3. PICK d \in Domains : job[r].arg = <<d>>
    BY <1>0, <2>2 DEF Carries
  <2>4. Good(update_domain_dkim(d, k))
    BY <1>0, UpdateDomainGood
  <2>5. Commit(r, update_domain_dkim(d, k), Regenerates)
    BY <2>2, <2>3
  <2> QED BY <2>2, <2>4, <2>5, PlainHanded, CommitHands
<1>7. CASE \E k \in Secrets : StorePassword(r, k)
  <2>1. PICK k \in Secrets : StorePassword(r, k)
    BY <1>7
  <2>2. job[r].pc = "password" /\ Commit(r, update_account_password(job[r].arg[1], k), Regenerates)
    BY <2>1 DEF StorePassword, At
  <2>3. PICK x \in Accounts : job[r].arg = <<x>>
    BY <1>0, <2>2 DEF Carries
  <2>4. Good(update_account_password(x, k))
    BY <1>0, AccountStatementsGood
  <2>5. Commit(r, update_account_password(x, k), Regenerates)
    BY <2>2, <2>3
  <2> QED BY <2>2, <2>4, <2>5, PlainHanded, CommitHands
<1>8. CASE \E i \in AliasIds : InsertAlias(r, i)
  <2>1. PICK i \in AliasIds : InsertAlias(r, i)
    BY <1>8
  <2>2. job[r].pc = "alias"
    BY <2>1 DEF InsertAlias, At
  <2>3. PICK d \in Domains, s \in Sources, t \in Targets : job[r].arg = <<d, s, t>>
    BY <1>0, <2>2 DEF Carries
  <2>4. Commit(r, IF Exists(d) THEN create_alias(i, d, s, t) ELSE db,
                  IF Exists(d) /\ dbUp THEN Regenerates ELSE Done)
    BY <2>1, <2>3 DEF InsertAlias
  <2>5. Exists(d) => Good(create_alias(i, d, s, t))
    BY <1>0, AliasStatementsGood
  <2>6. CASE Exists(d) /\ dbUp
    <3>1. Commit(r, create_alias(i, d, s, t), Regenerates)
      BY <2>4, <2>6
    <3> QED BY <2>2, <2>5, <2>6, <3>1, PlainHanded, CommitHands
  <2>7. CASE Exists(d) /\ ~dbUp
    <3>1. Commit(r, create_alias(i, d, s, t), Done)
      BY <2>4, <2>7
    <3> QED BY <2>2, <2>5, <2>7, <3>1, PlainHanded, CommitHands
  <2>8. CASE ~Exists(d)
    <3>1. Commit(r, db, Done)
      BY <2>4, <2>8
    <3> QED BY <1>0, <2>2, <3>1, PlainHanded, CommitHands
  <2> QED BY <2>6, <2>7, <2>8
<1>9. CASE \E i \in ForwardIds : InsertForwarding(r, i)
  <2>1. PICK i \in ForwardIds : InsertForwarding(r, i)
    BY <1>9
  <2>2. job[r].pc = "forward"
    BY <2>1 DEF InsertForwarding, At
  <2>3. PICK d \in Domains, s \in {a \in Sources : ~IsCatchAll(a)}, t \in Targets, keep \in BOOLEAN :
          job[r].arg = <<d, s, t, keep>>
    BY <1>0, <2>2 DEF Carries
  <2>4. Commit(r, IF Exists(d) THEN create_forwarding(i, d, s, t, keep) ELSE db,
                  IF Exists(d) /\ dbUp THEN Regenerates ELSE Done)
    BY <2>1, <2>3 DEF InsertForwarding
  <2>5. Exists(d) => Good(create_forwarding(i, d, s, t, keep))
    BY <1>0, ForwardingStatementsGood
  <2>6. CASE Exists(d) /\ dbUp
    <3>1. Commit(r, create_forwarding(i, d, s, t, keep), Regenerates)
      BY <2>4, <2>6
    <3> QED BY <2>2, <2>5, <2>6, <3>1, PlainHanded, CommitHands
  <2>7. CASE Exists(d) /\ ~dbUp
    <3>1. Commit(r, create_forwarding(i, d, s, t, keep), Done)
      BY <2>4, <2>7
    <3> QED BY <2>2, <2>5, <2>7, <3>1, PlainHanded, CommitHands
  <2>8. CASE ~Exists(d)
    <3>1. Commit(r, db, Done)
      BY <2>4, <2>8
    <3> QED BY <1>0, <2>2, <3>1, PlainHanded, CommitHands
  <2> QED BY <2>6, <2>7, <2>8
<1>10. CASE StartGenconfig(r)
  <2>1. /\ job[r].pc = "created" /\ Goes(r, Genconfig)
        /\ UNCHANGED <<db, quiet, wedged, suspect>>
    BY <1>10 DEF StartGenconfig, At
  <2> QED BY <2>1, PlainHanded, GoesHands
<1> QED BY <1>1, <1>2, <1>3, <1>4, <1>5, <1>6, <1>7, <1>8, <1>9, <1>10 DEF LaterStep

\* A handler's step keeps everything: a commit spoils the generations under way, and a
\* handler whose commit a query may see goes on to generate.
LEMMA HandlerStep ==
    ASSUME ConfigInv, NEW r \in Requests, Hands(r)
    PROVE  ConfigInv'
<1>1. PICK next :
        /\ Handed(next)
        /\ job' = [k \in Jobs |-> IF k = r THEN next
                                  ELSE IF Reading(k) /\ db' # db THEN [job[k] EXCEPT !.spoiled = TRUE]
                                  ELSE job[k]]
        /\ IF next.pc = "hung" THEN wedged' = TRUE /\ suspect' = TRUE
           ELSE UNCHANGED <<wedged, suspect>>
        /\ next.pc \in {"regen", "password", "created", "hung"} \/ (job[r].pc \notin {"password", "created"} /\ OnlyInboxes(db'))
  BY DEF Hands
<1>2. /\ job[r].pc \notin {"hung", "regen", "reading", "opened", "written"}
      /\ Good(db') /\ dbUp' = dbUp /\ watched' = watched /\ disk' = disk /\ served' = served
      /\ faults' = faults
  BY DEF Hands, quiet
<1>3. r \in Jobs /\ \E V : job \in [Jobs -> JobRow(V)]
  BY DEF Jobs, ConfigInv, ConfigTyped, JobsTyped
<1>4. PICK V : job \in [Jobs -> JobRow(V)] /\ next \in JobRow(V)
  <2>1. PICK V : job \in [Jobs -> JobRow(V)]
    BY <1>3
  <2>2. PICK W : next \in JobRow(W)
    BY <1>1 DEF Handed
  <2>3. /\ \A x \in JobRow(V) : x \in JobRow(V \cup W)
        /\ \A x \in JobRow(W) : x \in JobRow(V \cup W)
    BY JobGrows
  <2>4. job \in [Jobs -> JobRow(V \cup W)] /\ next \in JobRow(V \cup W)
    BY <2>1, <2>2, <2>3
  <2> QED BY <2>4
\* What becomes of the others.
<1>5. ASSUME NEW k \in Jobs, k # r
      PROVE  /\ job'[k] \in JobRow(V) /\ job'[k].pc = job[k].pc /\ job'[k].arg = job[k].arg
             /\ job'[k].todo = job[k].todo /\ job'[k].got = job[k].got
             /\ Reading(k) /\ ~job'[k].spoiled => ~job[k].spoiled /\ db' = db
  <2>1. job[k] \in JobRow(V)
    BY <1>4
  <2>2. CASE Reading(k) /\ db' # db
    <3>1. job'[k] = [job[k] EXCEPT !.spoiled = TRUE]
      BY <1>1, <1>5, <2>2
    <3> QED BY <2>1, <3>1 DEF JobRow
  <2>3. CASE ~(Reading(k) /\ db' # db)
    BY <1>1, <1>5, <2>1, <2>3
  <2> QED BY <2>2, <2>3
<1>6. job'[r] = next
  BY <1>1, <1>3
<1>7. DOMAIN job' = Jobs /\ job' = [k \in Jobs |-> job'[k]]
  BY <1>1
<1>8. /\ next.todo = <<>> /\ Carries(next) /\ next.pc \notin {"reading", "opened", "written"}
  BY <1>1 DEF Handed
<1>9. ConfigTyped'
  <2>1. TablesInv'
    BY <1>2 DEF TablesInv, ConfigInv, ConfigTyped
  <2>2. JobsTyped'
    <3>1. job' \in [Jobs -> JobRow(V)]
      BY <1>4, <1>5, <1>6, <1>7
    <3>2. \A k \in Jobs : Carries(job'[k])
      BY <1>5, <1>6, <1>8 DEF Carries, ConfigInv, ConfigTyped, JobsTyped
    <3>3. \A k \in Jobs : job'[k].pc # "reading" => job'[k].todo = <<>>
      BY <1>5, <1>6, <1>8 DEF ConfigInv, ConfigTyped, JobsTyped
    <3> QED BY <3>1, <3>2, <3>3 DEF JobsTyped, Carries
  <2>3. wedged' <=> \E q \in Requests : job'[q].pc = "hung"
    <3>1. wedged <=> \E q \in Requests : job[q].pc = "hung"
      BY DEF ConfigInv, ConfigTyped, At
    <3>2. \A q \in Requests : q \in Jobs
      BY DEF Jobs
    <3>3. CASE next.pc = "hung"
      BY <1>1, <1>6, <3>3
    <3>4. CASE next.pc # "hung"
      BY <1>1, <1>2, <1>5, <1>6, <3>1, <3>2, <3>4
    <3> QED BY <3>3, <3>4
  <2> QED BY <1>2, <2>1, <2>2, <2>3 DEF ConfigInv, ConfigTyped, At
<1>10. Fresh'
  <2> SUFFICES ASSUME NEW k \in Jobs, job'[k].pc \in {"reading", "opened"}, ~job'[k].spoiled,
                      NEW q \in Listing(Reads(watched))
               PROVE  q \in Listing(job'[k].todo) \/ job'[k].got[q] = Answer(q)'
    BY <1>2 DEF Fresh, Reading, Reads
  <2>1. k # r /\ Reading(k)
    BY <1>5, <1>6, <1>8 DEF Reading
  <2>2. db' = db /\ ~job[k].spoiled
    BY <1>5, <2>1
  <2>3. Answer(q)' = Answer(q)
    BY <2>2 DEF Answer, get_active_relay_assignments, list_domains, Exists, list_all_accounts,
                HasAccount, Address, list_all_aliases, list_all_forwardings
  <2> QED BY <1>5, <2>1, <2>2, <2>3 DEF ConfigInv, Fresh
<1>11. Alone'
  <2> SUFFICES ASSUME NEW k \in Jobs, job'[k].pc = "opened", ~job'[k].spoiled
               PROVE  disk' = Torn /\ \A j \in Jobs : job'[j].pc = "opened" => j = k
    BY DEF Alone, At, Torn
  <2>1. k # r /\ At(k, "opened") /\ ~job[k].spoiled
    BY <1>5, <1>6, <1>8 DEF Reading, At
  <2>2. \A j \in Jobs : job'[j].pc = "opened" => At(j, "opened")
    BY <1>5, <1>6, <1>8 DEF At
  <2> QED BY <1>2, <2>1, <2>2 DEF ConfigInv, Alone
<1>12. CASE next.pc \in {"regen", "password", "created"}
  <2>1. job'[r].pc \in Dirty
    BY <1>6, <1>12 DEF Dirty
  <2>2. Current' /\ Loaded'
    BY <1>3, <2>1 DEF Current, Loaded, Dirty
  <2> QED BY <1>9, <1>10, <1>11, <2>2 DEF ConfigInv
<1>13. CASE next.pc = "hung"
  BY <1>1, <1>9, <1>10, <1>11, <1>13 DEF ConfigInv, Current, Loaded
<1>14. CASE next.pc \notin {"regen", "password", "created", "hung"}
  <2>1. suspect' = suspect /\ job[r].pc \notin {"password", "created"} /\ OnlyInboxes(db')
    BY <1>1, <1>14
  <2>2. \A k \in Jobs : /\ job[k].pc \in Dirty => job'[k].pc \in Dirty
                        /\ job[k].pc \in Dirty \cup {"written"} => job'[k].pc \in Dirty \cup {"written"}
    BY <1>2, <1>5, <2>1 DEF Dirty
  <2>3. Text(Now)' = Text(Now)
    <3>1. Now' = Now
      BY <2>1, SameAnswers DEF Now
    <3> QED BY <1>2, <3>1 DEF Text
  <2>4. Current'
    BY <1>2, <2>1, <2>2, <2>3 DEF ConfigInv, Current, Dirty, Whole
  <2>5. Loaded'
    BY <1>2, <2>1, <2>2 DEF ConfigInv, Loaded, Dirty
  <2> QED BY <1>9, <1>10, <1>11, <2>4, <2>5 DEF ConfigInv
<1> QED BY <1>12, <1>13, <1>14

\* A generation's step.
Works(j, x) ==
    /\ \E V : x \in JobRow(V)
    /\ Carries(x)
    /\ x.pc # "reading" => x.todo = <<>>
    /\ x.pc # "hung" /\ job[j].pc # "hung"

LEMMA WorkTyped ==
    ASSUME ConfigInv, NEW j \in Jobs, NEW x, Works(j, x), Goes(j, x), UNCHANGED wedged
    PROVE  /\ job'[j] = x /\ \A k \in Jobs \ {j} : job'[k] = job[k]
           /\ JobsTyped'
           /\ wedged' <=> \E r \in Requests : job'[r].pc = "hung"
<1>1. PICK V : job \in [Jobs -> JobRow(V)] /\ x \in JobRow(V)
  <2>1. PICK V : job \in [Jobs -> JobRow(V)]
    BY DEF ConfigInv, ConfigTyped, JobsTyped
  <2>2. PICK W : x \in JobRow(W)
    BY DEF Works
  <2>3. /\ \A y \in JobRow(V) : y \in JobRow(V \cup W)
        /\ \A y \in JobRow(W) : y \in JobRow(V \cup W)
    BY JobGrows
  <2>4. job \in [Jobs -> JobRow(V \cup W)] /\ x \in JobRow(V \cup W)
    BY <2>1, <2>2, <2>3
  <2> QED BY <2>4
<1>2. /\ job'[j] = x /\ \A k \in Jobs \ {j} : job'[k] = job[k]
      /\ job' \in [Jobs -> JobRow(V)]
  BY <1>1 DEF Goes
<1>3. \A k \in Jobs : Carries(job'[k]) /\ (job'[k].pc # "reading" => job'[k].todo = <<>>)
  <2>1. Carries(x) /\ (x.pc # "reading" => x.todo = <<>>)
    BY DEF Works
  <2>2. \A k \in Jobs : Carries(job[k]) /\ (job[k].pc # "reading" => job[k].todo = <<>>)
    BY DEF ConfigInv, ConfigTyped, JobsTyped
  <2> QED BY <1>2, <2>1, <2>2
<1>4. JobsTyped'
  BY <1>2, <1>3 DEF JobsTyped, Carries
<1>5. wedged' <=> \E r \in Requests : job'[r].pc = "hung"
  <2>1. wedged <=> \E r \in Requests : job[r].pc = "hung"
    BY DEF ConfigInv, ConfigTyped, At
  <2>2. \A r \in Requests : r \in Jobs
    BY DEF Jobs
  <2>3. x.pc # "hung" /\ job[j].pc # "hung"
    BY DEF Works
  <2> QED BY <1>2, <2>1, <2>2, <2>3
<1> QED BY <1>2, <1>4, <1>5

\* Nothing but the tables decides the answers.
LEMMA StillAnswers ==
    ASSUME db' = db
    PROVE  /\ \A q \in Queries : Answer(q)' = Answer(q)
           /\ watched' = watched => Text(Now)' = Text(Now)
<1>1. \A q \in Queries : Answer(q)' = Answer(q)
  BY SameAnswers DEF OnlyInboxes
<1>2. Now' = Now
  BY <1>1 DEF Now
<1>3. watched' = watched => Text(Now)' = Text(Now)
  BY <1>2 DEF Text
<1> QED BY <1>1, <1>3

LEMMA RegenStep ==
    ASSUME ConfigInv, NEW j \in Jobs, regen_configs(j)
    PROVE  ConfigInv'
<1> DEFINE x == [job[j] EXCEPT !.pc = "reading", !.todo = Reads(watched)]
<1>1. /\ job[j].pc = "regen" /\ Goes(j, x)
      /\ db' = db /\ dbUp' = dbUp /\ watched' = watched /\ disk' = disk /\ served' = served
      /\ faults' = faults /\ wedged' = wedged /\ suspect' = suspect
  BY DEF regen_configs, At, quiet
<1>2. PICK V : job[j] \in JobRow(V)
  BY DEF ConfigInv, ConfigTyped, JobsTyped
<1>3. Reads(watched) \in Seq(Queries)
  BY ReadsQueries DEF ConfigInv, ConfigTyped
<1>4. x \in JobRow(V) /\ x.pc = "reading" /\ x.todo = Reads(watched)
  BY <1>2, <1>3 DEF JobRow, JobSteps
<1> HIDE DEF x
<1>5. Works(j, x)
  <2>1. Carries(x)
    BY <1>4 DEF Carries
  <2> QED BY <1>1, <1>4, <2>1 DEF Works
<1>6. /\ job'[j] = x /\ \A k \in Jobs \ {j} : job'[k] = job[k]
      /\ JobsTyped'
      /\ wedged' <=> \E r \in Requests : job'[r].pc = "hung"
  BY <1>1, <1>5, WorkTyped
<1>7. ConfigTyped'
  BY <1>1, <1>6 DEF ConfigInv, ConfigTyped, TablesInv, At, Good
<1>8. Fresh'
  <2> SUFFICES ASSUME NEW k \in Jobs, job'[k].pc \in {"reading", "opened"}, ~job'[k].spoiled,
                      NEW q \in Listing(Reads(watched))
               PROVE  q \in Listing(job'[k].todo) \/ job'[k].got[q] = Answer(q)'
    BY <1>1 DEF Fresh, Reading, Reads
  <2>1. CASE k = j
    BY <1>4, <1>6, <2>1
  <2>2. CASE k # j
    <3>1. Answer(q)' = Answer(q)
      BY <1>1, <1>3, StillAnswers DEF Listing
    <3> QED BY <1>6, <2>2, <3>1 DEF ConfigInv, Fresh, Reading
  <2> QED BY <2>1, <2>2
<1>9. Alone'
  <2>1. \A k \in Jobs : job'[k].pc = "opened" => k # j /\ job'[k] = job[k]
    BY <1>4, <1>6
  <2> QED BY <1>1, <2>1 DEF ConfigInv, Alone, At, Torn
<1>10. job'[j].pc \in Dirty
  BY <1>4, <1>6 DEF Dirty
<1>11. Current' /\ Loaded'
  BY <1>10 DEF Current, Loaded, Dirty
<1> QED BY <1>7, <1>8, <1>9, <1>11 DEF ConfigInv

\* A query's answer is the tables' of now, or the generation is spoiled.
LEMMA QueryStep ==
    ASSUME ConfigInv, NEW j \in Jobs, Query(j)
    PROVE  ConfigInv'
<1> DEFINE h == Head(job[j].todo)
           known == dbUp \/ job[j].own
           ans == IF known THEN Answer(h) ELSE {}
           x == [job[j] EXCEPT !.todo = Tail(@), !.got[h] = ans, !.spoiled = @ \/ ~known]
<1>1. /\ job[j].pc = "reading" /\ job[j].todo # <<>> /\ Goes(j, x)
      /\ db' = db /\ dbUp' = dbUp /\ watched' = watched /\ disk' = disk /\ served' = served
      /\ faults' = faults /\ wedged' = wedged /\ suspect' = suspect
  BY DEF Query, At, quiet
<1>2. PICK V : job[j] \in JobRow(V)
  BY DEF ConfigInv, ConfigTyped, JobsTyped
<1>3. /\ job[j].todo \in Seq(Queries) /\ h \in Queries /\ Tail(job[j].todo) \in Seq(Queries)
      /\ Listing(job[j].todo) = {h} \cup Listing(Tail(job[j].todo))
  <2>1. job[j].todo \in Seq(Queries)
    BY <1>2 DEF JobRow
  <2>2. h \in Queries /\ Tail(job[j].todo) \in Seq(Queries) /\ Len(job[j].todo) \in Nat \ {0}
    BY <1>1, <2>1
  <2>3. /\ Len(Tail(job[j].todo)) = Len(job[j].todo) - 1
        /\ \A i \in 1..(Len(job[j].todo) - 1) : Tail(job[j].todo)[i] = job[j].todo[i + 1]
        /\ h = job[j].todo[1]
    BY <1>1, <2>1
  <2>4. ASSUME NEW q \in Listing(job[j].todo), q # h
        PROVE  q \in Listing(Tail(job[j].todo))
    <3>1. PICK i \in 1..Len(job[j].todo) : job[j].todo[i] = q
      BY <2>4 DEF Listing
    <3>2. i # 1
      BY <2>3, <2>4, <3>1
    <3>3. i - 1 \in 1..(Len(job[j].todo) - 1) /\ Tail(job[j].todo)[i - 1] = q
      BY <2>2, <2>3, <3>1, <3>2
    <3> QED BY <2>3, <3>3 DEF Listing
  <2>5. ASSUME NEW q \in Listing(Tail(job[j].todo))
        PROVE  q \in Listing(job[j].todo)
    <3>1. PICK i \in 1..(Len(job[j].todo) - 1) : Tail(job[j].todo)[i] = q
      BY <2>3, <2>5 DEF Listing
    <3>2. i + 1 \in 1..Len(job[j].todo) /\ job[j].todo[i + 1] = q
      BY <2>2, <2>3, <3>1
    <3> QED BY <3>2 DEF Listing
  <2>6. h \in Listing(job[j].todo)
    BY <2>2, <2>3 DEF Listing
  <2> QED BY <2>1, <2>2, <2>4, <2>5, <2>6
<1> DEFINE W == V \cup {ans}
<1> HIDE DEF ans, h
<1>4. job[j] \in JobRow(W)
  BY <1>2, JobGrows
<1>5. /\ x \in JobRow(W) /\ x.pc = "reading" /\ x.todo = Tail(job[j].todo)
      /\ x.got[h] = ans /\ \A q \in Queries \ {h} : x.got[q] = job[j].got[q]
      /\ ~x.spoiled => ~job[j].spoiled /\ known
  BY <1>1, <1>3, <1>4 DEF JobRow
<1> HIDE DEF x
<1>6. Works(j, x)
  <2>1. Carries(x)
    BY <1>5 DEF Carries
  <2> QED BY <1>1, <1>5, <2>1 DEF Works
<1>7. /\ job'[j] = x /\ \A k \in Jobs \ {j} : job'[k] = job[k]
      /\ JobsTyped'
      /\ wedged' <=> \E r \in Requests : job'[r].pc = "hung"
  BY <1>1, <1>6, WorkTyped
<1>8. ConfigTyped'
  BY <1>1, <1>7 DEF ConfigInv, ConfigTyped, TablesInv, At, Good
<1>9. Fresh'
  <2> SUFFICES ASSUME NEW k \in Jobs, job'[k].pc \in {"reading", "opened"}, ~job'[k].spoiled,
                      NEW q \in Listing(Reads(watched))
               PROVE  q \in Listing(job'[k].todo) \/ job'[k].got[q] = Answer(q)'
    BY <1>1 DEF Fresh, Reading, Reads
  <2>0. q \in Queries /\ Answer(q)' = Answer(q)
    <3>1. q \in Queries
      BY ReadsQueries DEF Listing, ConfigInv, ConfigTyped
    <3> QED BY <1>1, <3>1, StillAnswers
  <2>1. CASE k = j
    <3>1. ~job[j].spoiled /\ known
      BY <1>5, <1>7, <2>1
    <3>2. q \in Listing(job[j].todo) \/ job[j].got[q] = Answer(q)
      BY <1>1, <3>1 DEF ConfigInv, Fresh, Reading
    <3>3. CASE q = h
      BY <1>5, <1>7, <2>0, <2>1, <3>1, <3>3 DEF ans
    <3>4. CASE q # h
      BY <1>3, <1>5, <1>7, <2>0, <2>1, <3>2, <3>4
    <3> QED BY <3>3, <3>4
  <2>2. CASE k # j
    BY <1>7, <2>0, <2>2 DEF ConfigInv, Fresh, Reading
  <2> QED BY <2>1, <2>2
<1>10. Alone'
  <2>1. \A k \in Jobs : job'[k].pc = "opened" => k # j /\ job'[k] = job[k]
    BY <1>5, <1>7
  <2> QED BY <1>1, <2>1 DEF ConfigInv, Alone, At, Torn
<1>11. job'[j].pc \in Dirty
  BY <1>5, <1>7 DEF Dirty
<1>12. Current' /\ Loaded'
  BY <1>11 DEF Current, Loaded, Dirty
<1> QED BY <1>8, <1>9, <1>10, <1>12 DEF ConfigInv

\* A second generation to truncate the file spoils the first, and itself.
LEMMA OpenStep ==
    ASSUME ConfigInv, NEW j \in Jobs, OpenFile(j)
    PROVE  ConfigInv'
<1> DEFINE x == [job[j] EXCEPT !.pc = "opened", !.spoiled = @ \/ Holding # {}]
<1>1. /\ job[j].pc = "reading" /\ job[j].todo = <<>> /\ disk' = Torn
      /\ job' = [k \in Jobs |-> IF k = j THEN x
                                ELSE IF k \in Holding THEN [job[k] EXCEPT !.spoiled = TRUE]
                                ELSE job[k]]
      /\ db' = db /\ dbUp' = dbUp /\ watched' = watched /\ served' = served
      /\ faults' = faults /\ wedged' = wedged /\ suspect' = suspect
  BY DEF OpenFile, At
<1>2. PICK V : job \in [Jobs -> JobRow(V)]
  BY DEF ConfigInv, ConfigTyped, JobsTyped
<1>3. /\ x \in JobRow(V) /\ x.pc = "opened" /\ x.todo = <<>> /\ x.got = job[j].got
      /\ ~x.spoiled => ~job[j].spoiled /\ Holding = {}
  BY <1>1, <1>2 DEF JobRow, JobSteps
<1> HIDE DEF x
<1>4. job'[j] = x
  BY <1>1
<1>5. ASSUME NEW k \in Jobs, k # j
      PROVE  /\ job'[k] \in JobRow(V) /\ job'[k].pc = job[k].pc /\ job'[k].arg = job[k].arg
             /\ job'[k].todo = job[k].todo /\ job'[k].got = job[k].got
             /\ ~job'[k].spoiled => ~job[k].spoiled /\ job[k].pc # "opened"
  <2>1. job[k] \in JobRow(V)
    BY <1>2
  <2>2. CASE k \in Holding
    <3>1. job'[k] = [job[k] EXCEPT !.spoiled = TRUE]
      BY <1>1, <1>5, <2>2
    <3> QED BY <2>1, <3>1 DEF JobRow
  <2>3. CASE k \notin Holding
    BY <1>1, <1>5, <2>1, <2>3 DEF Holding, At
  <2> QED BY <2>2, <2>3
<1>6. DOMAIN job' = Jobs /\ job' = [k \in Jobs |-> job'[k]]
  BY <1>1
<1>7. JobsTyped'
  <2>1. job' \in [Jobs -> JobRow(V)]
    BY <1>3, <1>4, <1>5, <1>6
  <2>2. \A k \in Jobs : Carries(job'[k])
    BY <1>3, <1>4, <1>5 DEF Carries, ConfigInv, ConfigTyped, JobsTyped
  <2>3. \A k \in Jobs : job'[k].pc # "reading" => job'[k].todo = <<>>
    BY <1>3, <1>4, <1>5 DEF ConfigInv, ConfigTyped, JobsTyped
  <2> QED BY <2>1, <2>2, <2>3 DEF JobsTyped, Carries
<1>8. wedged' <=> \E r \in Requests : job'[r].pc = "hung"
  <2>1. wedged <=> \E r \in Requests : job[r].pc = "hung"
    BY DEF ConfigInv, ConfigTyped, At
  <2>2. \A r \in Requests : r \in Jobs
    BY DEF Jobs
  <2> QED BY <1>1, <1>3, <1>4, <1>5, <2>1, <2>2
<1>9. ConfigTyped'
  <2>1. disk'.state \in FileStates
    BY <1>1 DEF Torn, FileStates
  <2> QED BY <1>1, <1>7, <1>8, <2>1 DEF ConfigInv, ConfigTyped, TablesInv, At, Good
<1>10. Fresh'
  <2> SUFFICES ASSUME NEW k \in Jobs, job'[k].pc \in {"reading", "opened"}, ~job'[k].spoiled,
                      NEW q \in Listing(Reads(watched))
               PROVE  q \in Listing(job'[k].todo) \/ job'[k].got[q] = Answer(q)'
    BY <1>1 DEF Fresh, Reading, Reads
  <2>0. Answer(q)' = Answer(q)
    <3>1. q \in Queries
      BY ReadsQueries DEF Listing, ConfigInv, ConfigTyped
    <3> QED BY <1>1, <3>1, StillAnswers
  <2>1. Reading(k) /\ ~job[k].spoiled /\ job'[k].todo = job[k].todo /\ job'[k].got = job[k].got
    BY <1>1, <1>3, <1>4, <1>5 DEF Reading
  <2> QED BY <2>0, <2>1 DEF ConfigInv, Fresh
<1>11. Alone'
  <2> SUFFICES ASSUME NEW k \in Jobs, job'[k].pc = "opened", ~job'[k].spoiled
               PROVE  disk' = Torn /\ \A i \in Jobs : job'[i].pc = "opened" => i = k
    BY DEF Alone, At, Torn
  <2>1. k = j
    BY <1>5
  <2>2. Holding = {}
    BY <1>3, <1>4, <2>1
  <2>3. \A i \in Jobs : job'[i].pc = "opened" => i = j
    BY <1>5, <2>2 DEF Holding, At
  <2> QED BY <1>1, <2>1, <2>3
<1>12. job'[j].pc \in Dirty
  BY <1>3, <1>4 DEF Dirty
<1>13. Current' /\ Loaded'
  BY <1>12 DEF Current, Loaded, Dirty
<1> QED BY <1>9, <1>10, <1>11, <1>13 DEF ConfigInv

\* A job that has written, reloaded, or been left.
LEMMA EndedWorks ==
    ASSUME NEW j \in Jobs, job[j].pc # "hung", NEW pc \in {"written", "done"}, NEW own \in BOOLEAN
    PROVE  LET x == [NoJob EXCEPT !.pc = pc, !.own = own] IN Works(j, x) /\ x.pc = pc
<1> DEFINE x == [NoJob EXCEPT !.pc = pc, !.own = own]
<1>1. PICK V : NoJob \in JobRow(V) /\ NoJob.todo = <<>>
  BY NoJobTyped
<1>2. x \in JobRow(V) /\ x.todo = <<>> /\ x.pc = pc
  BY <1>1 DEF JobRow, JobSteps
<1> HIDE DEF x
<1>3. Carries(x)
  BY <1>2 DEF Carries
<1>4. Works(j, x)
  BY <1>2, <1>3 DEF Works
<1> QED BY <1>2, <1>4 DEF x

\* What a job's end leaves of the invariant: whatever other generations have.
LEMMA EndStep ==
    ASSUME ConfigInv, NEW j \in Jobs, NEW x, Works(j, x), Goes(j, x),
           x.pc \in {"written", "done"},
           db' = db, dbUp' \in BOOLEAN, watched' = watched, wedged' = wedged,
           faults' \in 0..MaxFaults, disk'.state \in FileStates, served'.state \in FileStates,
           job[j].pc = "opened" \/ disk' = disk
    PROVE  /\ ConfigTyped' /\ Fresh' /\ Alone'
           /\ job'[j] = x /\ \A k \in Jobs \ {j} : job'[k] = job[k]
<1>1. /\ job'[j] = x /\ \A k \in Jobs \ {j} : job'[k] = job[k]
      /\ JobsTyped'
      /\ wedged' <=> \E r \in Requests : job'[r].pc = "hung"
  BY WorkTyped
<1>2. ConfigTyped'
  BY <1>1 DEF ConfigInv, ConfigTyped, TablesInv, At, Good
<1>3. Fresh'
  <2> SUFFICES ASSUME NEW k \in Jobs, job'[k].pc \in {"reading", "opened"}, ~job'[k].spoiled,
                      NEW q \in Listing(Reads(watched))
               PROVE  q \in Listing(job'[k].todo) \/ job'[k].got[q] = Answer(q)'
    BY DEF Fresh, Reading, Reads
  <2>1. Answer(q)' = Answer(q)
    <3>1. q \in Queries
      BY ReadsQueries DEF Listing, ConfigInv, ConfigTyped
    <3> QED BY <3>1, StillAnswers
  <2>2. k # j
    BY <1>1
  <2> QED BY <1>1, <2>1, <2>2 DEF ConfigInv, Fresh, Reading
<1>4. Alone'
  <2> SUFFICES ASSUME NEW k \in Jobs, job'[k].pc = "opened", ~job'[k].spoiled
               PROVE  disk' = Torn /\ \A i \in Jobs : job'[i].pc = "opened" => i = k
    BY DEF Alone, At, Torn
  <2>1. k # j /\ job'[k] = job[k]
    BY <1>1
  <2>2. disk = Torn /\ \A i \in Jobs : job[i].pc = "opened" => i = k
    BY <2>1 DEF ConfigInv, Alone, At
  <2>3. disk' = disk
    BY <2>1, <2>2
  <2> QED BY <1>1, <2>2, <2>3
<1> QED BY <1>1, <1>2, <1>3, <1>4

\* A write by a generation nothing has spoiled is what the tables say.
LEMMA WriteStep ==
    ASSUME ConfigInv, NEW j \in Jobs, WriteFile(j)
    PROVE  ConfigInv'
<1> DEFINE x == [NoJob EXCEPT !.pc = "written", !.own = job[j].own]
           own == Whole(Text(job[j].got))
<1>1. /\ job[j].pc = "opened" /\ Goes(j, x) /\ suspect' = job[j].spoiled
      /\ disk' \in {own} \cup (IF disk \in {Torn, own} THEN {} ELSE {Mixed})
      /\ db' = db /\ dbUp' = dbUp /\ watched' = watched /\ served' = served
      /\ faults' = faults /\ wedged' = wedged
  BY DEF WriteFile, At
<1>2. PICK V : job[j] \in JobRow(V)
  BY DEF ConfigInv, ConfigTyped, JobsTyped
<1>3. Works(j, x) /\ x.pc = "written"
  <2>1. job[j].own \in BOOLEAN
    BY <1>2 DEF JobRow
  <2> QED BY <1>1, <2>1, EndedWorks
<1> HIDE DEF x
<1>4. disk'.state \in FileStates
  BY <1>1 DEF Whole, Mixed, FileStates
<1>5. /\ ConfigTyped' /\ Fresh' /\ Alone'
      /\ job'[j] = x /\ \A k \in Jobs \ {j} : job'[k] = job[k]
  <2>1. /\ dbUp' \in BOOLEAN /\ faults' \in 0..MaxFaults /\ served'.state \in FileStates
    BY <1>1 DEF ConfigInv, ConfigTyped, TablesInv
  <2> QED BY <1>1, <1>3, <1>4, <2>1, EndStep
<1>6. Current'
  <2>1. CASE job[j].spoiled
    BY <1>1, <2>1 DEF Current
  <2>2. CASE ~job[j].spoiled
    <3>1. disk = Torn /\ disk' = own
      BY <1>1, <2>2 DEF ConfigInv, Alone, At
    <3>2. ASSUME NEW q \in Listing(Reads(watched))
          PROVE  job[j].got[q] = Now[q]
      <4>1. job[j].todo = <<>> /\ Listing(<<>>) = {}
        BY <1>1 DEF ConfigInv, ConfigTyped, JobsTyped, Listing
      <4>2. job[j].got[q] = Answer(q)
        BY <1>1, <2>2, <4>1 DEF ConfigInv, Fresh, Reading
      <4>3. q \in Queries
        BY ReadsQueries DEF Listing, ConfigInv, ConfigTyped
      <4> QED BY <4>2, <4>3 DEF Now
    <3>3. Text(job[j].got) = Text(Now)
      BY <3>2, TextReads DEF ConfigInv, ConfigTyped
    <3>4. disk' = Whole(Text(Now))'
      BY <1>1, <3>1, <3>3, StillAnswers DEF Whole
    <3> QED BY <3>4 DEF Current
  <2> QED BY <2>1, <2>2
<1>7. Loaded'
  BY <1>3, <1>5 DEF Loaded
<1> QED BY <1>5, <1>6, <1>7 DEF ConfigInv

LEMMA FailStep ==
    ASSUME ConfigInv, NEW j \in Jobs, WriteFails(j)
    PROVE  ConfigInv'
<1> DEFINE x == [NoJob EXCEPT !.pc = "written", !.own = job[j].own]
<1>1. /\ job[j].pc \in {"reading", "opened"} /\ Goes(j, x) /\ suspect' = TRUE
      /\ db' = db /\ dbUp' = dbUp /\ watched' = watched /\ disk' = disk /\ served' = served
      /\ wedged' = wedged /\ faults < MaxFaults /\ faults' = faults + 1
  BY DEF WriteFails, At
<1>2. PICK V : job[j] \in JobRow(V)
  BY DEF ConfigInv, ConfigTyped, JobsTyped
<1>3. Works(j, x) /\ x.pc = "written"
  <2>1. job[j].own \in BOOLEAN
    BY <1>2 DEF JobRow
  <2> QED BY <1>1, <2>1, EndedWorks
<1> HIDE DEF x
<1>4. ConfigTyped' /\ Fresh' /\ Alone'
  <2>1. /\ dbUp' \in BOOLEAN /\ faults' \in 0..MaxFaults
        /\ disk'.state \in FileStates /\ served'.state \in FileStates
    BY <1>1, MailConfigAssumption DEF ConfigInv, ConfigTyped, TablesInv
  <2> QED BY <1>1, <1>3, <2>1, EndStep
<1> QED BY <1>1, <1>4 DEF ConfigInv, Current, Loaded

LEMMA ReloadStep ==
    ASSUME ConfigInv, NEW j \in Jobs, reload_services(j)
    PROVE  ConfigInv'
<1>1. /\ job[j].pc = "written" /\ Goes(j, Done) /\ served' = disk
      /\ db' = db /\ dbUp' = dbUp /\ watched' = watched /\ disk' = disk
      /\ wedged' = wedged /\ faults' = faults /\ suspect' = suspect
  BY DEF reload_services, At
<1>2. Works(j, Done) /\ Done.pc = "done"
  BY <1>1, PlainHanded DEF Works, Handed
<1>3. /\ ConfigTyped' /\ Fresh' /\ Alone'
      /\ job'[j] = Done /\ \A k \in Jobs \ {j} : job'[k] = job[k]
  <2>1. /\ dbUp' \in BOOLEAN /\ faults' \in 0..MaxFaults
        /\ disk'.state \in FileStates /\ served'.state \in FileStates
    BY <1>1 DEF ConfigInv, ConfigTyped, TablesInv
  <2> QED BY <1>1, <1>2, <2>1, EndStep
<1>4. Current'
  <2>1. \A k \in Jobs : job[k].pc \in Dirty => job'[k].pc \in Dirty
    BY <1>1, <1>3 DEF Dirty
  <2>2. Whole(Text(Now))' = Whole(Text(Now))
    BY <1>1, StillAnswers DEF Whole
  <2> QED BY <1>1, <2>1, <2>2 DEF ConfigInv, Current, Dirty
<1>5. Loaded'
  BY <1>1 DEF Loaded
<1> QED BY <1>3, <1>4, <1>5 DEF ConfigInv

\* A connection is lost, a client leaves, a container restarts.
LEMMA LoseStep ==
    ASSUME ConfigInv, LoseConnection
    PROVE  ConfigInv'
<1>1. /\ dbUp' = FALSE /\ faults < MaxFaults /\ faults' = faults + 1
      /\ db' = db /\ watched' = watched /\ disk' = disk /\ served' = served
      /\ wedged' = wedged /\ job' = job /\ suspect' = suspect
  BY DEF LoseConnection
<1>2. ConfigTyped'
  <2>1. faults' \in 0..MaxFaults
    BY <1>1, MailConfigAssumption DEF ConfigInv, ConfigTyped
  <2>2. JobsTyped'
    BY <1>1 DEF ConfigInv, ConfigTyped, JobsTyped, Carries
  <2> QED BY <1>1, <2>1, <2>2 DEF ConfigInv, ConfigTyped, TablesInv, Good, At
<1>3. Fresh'
  <2> SUFFICES ASSUME NEW k \in Jobs, job[k].pc \in {"reading", "opened"}, ~job[k].spoiled,
                      NEW q \in Listing(Reads(watched))
               PROVE  q \in Listing(job[k].todo) \/ job[k].got[q] = Answer(q)'
    BY <1>1 DEF Fresh, Reading, Reads
  <2>1. q \in Queries
    BY ReadsQueries DEF Listing, ConfigInv, ConfigTyped
  <2> QED BY <1>1, <2>1, StillAnswers DEF ConfigInv, Fresh, Reading
<1>4. Alone'
  BY <1>1 DEF ConfigInv, Alone, At, Torn
<1>5. Current'
  <2>1. Whole(Text(Now))' = Whole(Text(Now))
    BY <1>1, StillAnswers DEF Whole
  <2> QED BY <1>1, <2>1 DEF ConfigInv, Current, Dirty
<1>6. Loaded'
  BY <1>1 DEF ConfigInv, Loaded, Dirty
<1> QED BY <1>2, <1>3, <1>4, <1>5, <1>6 DEF ConfigInv

LEMMA LeaveStep ==
    ASSUME ConfigInv, NEW r \in Requests, ClientLeaves(r)
    PROVE  ConfigInv'
<1>1. /\ job[r].pc \in {"openssl", "unset", "set", "ruf", "password", "destination", "alias",
                        "forward", "created", "regen"}
      /\ Goes(r, Done) /\ faults < MaxFaults /\ faults' = faults + 1
      /\ suspect' = (suspect \/ job[r].pc \in {"password", "created", "regen"})
      /\ db' = db /\ dbUp' = dbUp /\ watched' = watched /\ disk' = disk /\ served' = served
      /\ wedged' = wedged
  BY DEF ClientLeaves
<1>2. r \in Jobs /\ Works(r, Done) /\ Done.pc = "done"
  BY <1>1, PlainHanded DEF Works, Handed, Jobs
<1>3. /\ ConfigTyped' /\ Fresh' /\ Alone'
      /\ job'[r] = Done /\ \A k \in Jobs \ {r} : job'[k] = job[k]
  <2>1. /\ dbUp' \in BOOLEAN /\ faults' \in 0..MaxFaults
        /\ disk'.state \in FileStates /\ served'.state \in FileStates
    BY <1>1, MailConfigAssumption DEF ConfigInv, ConfigTyped, TablesInv
  <2> QED BY <1>1, <1>2, <2>1, EndStep
<1>4. CASE job[r].pc \in {"password", "created", "regen"}
  BY <1>1, <1>3, <1>4 DEF ConfigInv, Current, Loaded
<1>5. CASE job[r].pc \notin {"password", "created", "regen"}
  <2>1. job[r].pc \notin Dirty \cup {"written"}
    BY <1>1, <1>5 DEF Dirty
  <2>2. \A k \in Jobs : job[k].pc \in Dirty \cup {"written"} => job'[k] = job[k]
    BY <1>3, <2>1
  <2>3. Whole(Text(Now))' = Whole(Text(Now))
    BY <1>1, StillAnswers DEF Whole
  <2>4. suspect' <=> suspect
    BY <1>1, <1>5
  <2>5. Current'
    BY <1>1, <2>2, <2>3, <2>4 DEF ConfigInv, Current, Dirty
  <2>6. Loaded'
    BY <1>1, <2>2, <2>4 DEF ConfigInv, Loaded, Dirty
  <2> QED BY <1>3, <2>5, <2>6 DEF ConfigInv
<1> QED BY <1>4, <1>5

\* A genconfig that is not started, or dies, leaves its word that the file is suspect.
LEMMA GenconfigFailsStep ==
    ASSUME ConfigInv, NEW r \in Requests, GenconfigFails(r)
    PROVE  ConfigInv'
<1>1. /\ job[r].pc \in {"created", "regen", "reading", "opened", "written"}
      /\ Goes(r, Done) /\ faults < MaxFaults /\ faults' = faults + 1 /\ suspect' = TRUE
      /\ db' = db /\ dbUp' = dbUp /\ watched' = watched /\ disk' = disk /\ served' = served
      /\ wedged' = wedged
  BY DEF GenconfigFails, At
<1>2. r \in Jobs /\ Works(r, Done) /\ Done.pc = "done"
  BY <1>1, PlainHanded DEF Works, Handed, Jobs
<1>3. ConfigTyped' /\ Fresh' /\ Alone'
  <2>1. /\ dbUp' \in BOOLEAN /\ faults' \in 0..MaxFaults
        /\ disk'.state \in FileStates /\ served'.state \in FileStates
    BY <1>1, MailConfigAssumption DEF ConfigInv, ConfigTyped, TablesInv
  <2> QED BY <1>1, <1>2, <2>1, EndStep
<1> QED BY <1>1, <1>3 DEF ConfigInv, Current, Loaded

LEMMA ConfigRestartStep ==
    ASSUME ConfigInv, Restart
    PROVE  ConfigInv'
<1>1. /\ dbUp' = TRUE /\ wedged' = FALSE /\ faults < MaxFaults /\ faults' = faults + 1
      /\ job' = [j \in Jobs |-> IF j = Boot THEN Genconfig
                                ELSE IF At(j, "idle") THEN NoJob ELSE Done]
      /\ db' = db /\ watched' = watched /\ disk' = disk /\ served' = served
  BY DEF Restart
<1>2. /\ Boot \in Jobs /\ job'[Boot] = Genconfig
      /\ \A k \in Jobs : job'[k] \in {Genconfig, NoJob, Done}
  BY <1>1 DEF Jobs
<1>3. \A x \in {Genconfig, NoJob, Done} : Handed(x) /\ x.pc \in {"regen", "idle", "done"}
  BY PlainHanded
<1>4. JobsTyped'
  <2>1. PICK V1 : Genconfig \in JobRow(V1)
    BY PlainHanded DEF Handed
  <2>2. PICK V2 : NoJob \in JobRow(V2)
    BY PlainHanded DEF Handed
  <2>3. PICK V3 : Done \in JobRow(V3)
    BY PlainHanded DEF Handed
  <2> DEFINE V == V1 \cup V2 \cup V3
  <2>4. V1 \subseteq V /\ V2 \subseteq V /\ V3 \subseteq V
    OBVIOUS
  <2> HIDE DEF V
  <2>5. Genconfig \in JobRow(V) /\ NoJob \in JobRow(V) /\ Done \in JobRow(V)
    BY <2>1, <2>2, <2>3, <2>4, JobGrows
  <2>6. job' \in [Jobs -> JobRow(V)]
    BY <1>1, <2>5
  <2>7. \A k \in Jobs : Carries(job'[k]) /\ job'[k].todo = <<>>
    BY <1>2, <1>3 DEF Handed
  <2> QED BY <2>6, <2>7 DEF JobsTyped, Carries
<1>5. \A k \in Jobs : job'[k].pc \notin {"hung", "reading", "opened"}
  BY <1>2, <1>3
<1>6. ConfigTyped'
  <2>1. faults' \in 0..MaxFaults
    BY <1>1, MailConfigAssumption DEF ConfigInv, ConfigTyped
  <2>2. \A r \in Requests : r \in Jobs
    BY DEF Jobs
  <2> QED BY <1>1, <1>4, <1>5, <2>1, <2>2 DEF ConfigInv, ConfigTyped, TablesInv, Good, At
<1>7. Fresh' /\ Alone'
  BY <1>5 DEF Fresh, Alone, Reading, At
<1>8. job'[Boot].pc \in Dirty
  BY <1>2, PlainHanded DEF Dirty
<1>9. Current' /\ Loaded'
  BY <1>2, <1>8 DEF Current, Loaded, Dirty
<1> QED BY <1>6, <1>7, <1>9 DEF ConfigInv

LEMMA ConfigStarts ==
    (\E f \in Files : ConfigInit(db, f)) /\ TablesTypeOK => ConfigInv
<1> SUFFICES ASSUME NEW f \in Files, ConfigInit(db, f), TablesTypeOK
             PROVE  ConfigInv
  OBVIOUS
<1>1. /\ watched = f /\ disk = Missing /\ served = Missing /\ wedged = FALSE /\ faults = 0
      /\ job = [j \in Jobs |-> IF j = Boot THEN Genconfig ELSE NoJob] /\ TablesInv
  BY GoodTables DEF ConfigInit, TablesInv
<1>2. /\ Boot \in Jobs /\ job[Boot] = Genconfig
      /\ \A k \in Jobs : job[k] \in {Genconfig, NoJob}
  BY <1>1 DEF Jobs
<1>3. \A x \in {Genconfig, NoJob} : Handed(x) /\ x.pc \in {"regen", "idle"}
  BY PlainHanded
<1>4. JobsTyped
  <2>1. PICK V1 : Genconfig \in JobRow(V1)
    BY PlainHanded DEF Handed
  <2>2. PICK V2 : NoJob \in JobRow(V2)
    BY PlainHanded DEF Handed
  <2> DEFINE V == V1 \cup V2
  <2>3. V1 \subseteq V /\ V2 \subseteq V
    OBVIOUS
  <2> HIDE DEF V
  <2>4. Genconfig \in JobRow(V) /\ NoJob \in JobRow(V)
    BY <2>1, <2>2, <2>3, JobGrows
  <2>5. job \in [Jobs -> JobRow(V)]
    BY <1>1, <2>4
  <2>6. \A k \in Jobs : Carries(job[k]) /\ job[k].todo = <<>>
    BY <1>2, <1>3 DEF Handed
  <2> QED BY <2>5, <2>6 DEF JobsTyped
<1>5. \A k \in Jobs : job[k].pc \notin {"hung", "reading", "opened"}
  BY <1>2, <1>3
<1>6. ConfigTyped
  <2>1. faults \in 0..MaxFaults
    BY <1>1, MailConfigAssumption
  <2>2. \A r \in Requests : r \in Jobs
    BY DEF Jobs
  <2> QED BY <1>1, <1>4, <1>5, <2>1, <2>2 DEF ConfigTyped, Missing, FileStates, At
<1>7. Fresh /\ Alone
  BY <1>5 DEF Fresh, Alone, Reading, At
<1>8. job[Boot].pc \in Dirty
  BY <1>2, PlainHanded DEF Dirty
<1>9. Current /\ Loaded
  BY <1>2, <1>8 DEF Current, Loaded
<1> QED BY <1>6, <1>7, <1>9 DEF ConfigInv

LEMMA ConfigStep ==
    ConfigInv /\ [ConfigNext]_cfgvars => ConfigInv'
<1> SUFFICES ASSUME ConfigInv, [ConfigNext]_cfgvars
             PROVE  ConfigInv'
  OBVIOUS
<1>1. CASE UNCHANGED cfgvars
  <2>1. /\ db' = db /\ dbUp' = dbUp /\ watched' = watched /\ disk' = disk /\ served' = served
        /\ wedged' = wedged /\ job' = job /\ faults' = faults /\ suspect' = suspect
    BY <1>1 DEF cfgvars
  <2>2. JobsTyped'
    BY <2>1 DEF ConfigInv, ConfigTyped, JobsTyped, Carries
  <2>3. ConfigTyped'
    BY <2>1, <2>2 DEF ConfigInv, ConfigTyped, TablesInv, Good, At
  <2>4. Fresh'
    <3> SUFFICES ASSUME NEW k \in Jobs, job[k].pc \in {"reading", "opened"}, ~job[k].spoiled,
                        NEW q \in Listing(Reads(watched))
                 PROVE  q \in Listing(job[k].todo) \/ job[k].got[q] = Answer(q)'
      BY <2>1 DEF Fresh, Reading, Reads
    <3>1. q \in Queries
      BY ReadsQueries DEF Listing, ConfigInv, ConfigTyped
    <3> QED BY <2>1, <3>1, StillAnswers DEF ConfigInv, Fresh, Reading
  <2>5. Alone' /\ Loaded'
    BY <2>1 DEF ConfigInv, Alone, At, Torn, Loaded, Dirty
  <2>6. Current'
    <3>1. Whole(Text(Now))' = Whole(Text(Now))
      BY <2>1, StillAnswers DEF Whole
    <3> QED BY <2>1, <3>1 DEF ConfigInv, Current, Dirty
  <2> QED BY <2>3, <2>4, <2>5, <2>6 DEF ConfigInv
<1>2. ASSUME NEW r \in Requests,
             \/ DomainRequest(r) \/ InboxRequest(r) \/ AccountRequest(r) \/ AddressRequest(r)
             \/ RelayRequest(r) \/ SettingRequest(r) \/ LaterStep(r)
      PROVE  ConfigInv'
  <2>1. CASE GenconfigFails(r)
    BY <2>1, GenconfigFailsStep
  <2>2. CASE ~GenconfigFails(r)
    <3>1. Hands(r)
      BY <1>2, <2>2, DomainHands, InboxHands, AccountHands, AddressHands, RelayHands,
         SettingHands, LaterHands
    <3> QED BY <3>1, HandlerStep
  <2> QED BY <2>1, <2>2
<1>3. ASSUME NEW j \in Jobs, Generation(j)
      PROVE  ConfigInv'
  BY <1>3, RegenStep, QueryStep, OpenStep, WriteStep, FailStep, ReloadStep DEF Generation
<1>4. CASE \E r \in Requests : ClientLeaves(r)
  BY <1>4, LeaveStep
<1>5. CASE LoseConnection \/ Restart
  BY <1>5, LoseStep, ConfigRestartStep
<1> QED BY <1>1, <1>2, <1>3, <1>4, <1>5 DEF ConfigNext, ConfigSteps

LEMMA ConfigTypes == ConfigTyped => ConfigTypeOK
<1> SUFFICES ASSUME ConfigTyped PROVE ConfigTypeOK
  OBVIOUS
<1>1. TablesTypeOK
  BY GoodTables DEF ConfigTyped, TablesInv
<1>2. \A j \in Jobs : DOMAIN job[j].got = Queries
  BY JobsAre DEF ConfigTyped, JobsTyped
<1> QED BY <1>1, <1>2 DEF ConfigTyped, JobsTyped, FileStates, ConfigTypeOK

LEMMA ConfigImplies == ConfigInv => ConfigTypeOK /\ FilesFollowTables
<1> SUFFICES ASSUME ConfigInv
             PROVE  ConfigTypeOK /\ FilesFollowTables
  OBVIOUS
<1>1. ConfigTypeOK
  BY ConfigTypes DEF ConfigInv
<1>2. FilesFollowTables
  <2> SUFFICES ASSUME ~suspect, \A j \in Jobs : Waiting(j)
               PROVE  served = Whole(Text(Now))
    BY DEF FilesFollowTables, Now
  <2>1. \A j \in Jobs : job[j].pc \notin Dirty \cup {"written"}
    BY DEF Waiting, At, Dirty
  <2> QED BY <2>1 DEF ConfigInv, Current, Loaded
<1> QED BY <1>1, <1>2

\* Whatever handlers, registrations and restarts overlap, the tables keep their keys, and a
\* handler is stuck just when the connection's mutex is held for good (delete_account).
THEOREM ConfigTypeCorrect == ConfigSpec => []ConfigTypeOK
BY ConfigStarts, ConfigStep, ConfigImplies, PTL DEF ConfigSpec

\* When all handlers are done, the services have loaded what the tables say: a generation is
\* spoiled by any commit under way and by any other writer, and every commit that a query may
\* see is followed by a generation of its own (regen_configs in the admin handlers).
THEOREM FilesFollow == ConfigSpec => []FilesFollowTables
BY ConfigStarts, ConfigStep, ConfigImplies, PTL DEF ConfigSpec

------------------------------------------------------------------------------
(* The parts together, as the run has them.                                 *)

\* The tables the files are generated from in that run are good.
LEMMA BaseGood == Good(Base)
<1> DEFINE a == [name |-> "n", active |-> TRUE, key |-> 1]
           x == <<"d", "u">>
           b == [status |-> "active", password |-> 1]
           c == [dom |-> "d", source |-> addr("*", "n", FALSE),
                 destination |-> addr("u", "n", FALSE), active |-> TRUE]
           e == [status |-> "active", auth |-> TRUE, secret |-> 1, assigned |-> {"@n"}]
           f == [dom |-> "d", source |-> addr("v", "n", FALSE),
                 destination |-> addr("u", "n", FALSE), active |-> TRUE, keep |-> TRUE]
           g == {[kind |-> "dmarc", account |-> x, ruf |-> <<>>]}
<1>1. addr("*", "n", FALSE) \in Sources /\ addr("v", "n", FALSE) \in Sources
      /\ addr("u", "n", FALSE) \in Targets /\ ~IsCatchAll(addr("v", "n", FALSE))
  BY MCAdminAssumption DEF MCSources, MCTargets, IsCatchAll, AnyUser, addr
<1>2. a \in DomainRow /\ b \in AccountRow /\ e \in RelayRow
  BY MCAdminAssumption, MailTablesAssumption DEF DomainRow, AccountRow, RelayRow
<1>3. c \in AliasRow /\ f \in ForwardingRow /\ c.dom = "d" /\ f.dom = "d"
  <2>1. ASSUME NEW s \in Sources, NEW q \in Targets
        PROVE  [dom |-> "d", source |-> s, destination |-> q, active |-> TRUE] \in AliasRow
    BY MCAdminAssumption DEF AliasRow
  <2>2. ASSUME NEW s \in Sources, ~IsCatchAll(s), NEW q \in Targets
        PROVE  [dom |-> "d", source |-> s, destination |-> q, active |-> TRUE, keep |-> TRUE]
                 \in ForwardingRow
    BY <2>2, MCAdminAssumption DEF ForwardingRow
  <2>3. c \in AliasRow
    BY <1>1, <2>1
  <2>4. f \in ForwardingRow
    BY <1>1, <2>2
  <2> QED BY <2>3, <2>4
<1>4. x \in Accounts /\ x[1] = "d"
  BY MCAdminAssumption DEF Accounts
<1> HIDE DEF x
<1>5. g \in SUBSET InboxRow /\ \A m \in g : m.account = x /\ m.ruf = <<>>
  BY <1>4 DEF InboxRow, Kinds
<1>6. "d" \in Domains /\ 1 \in AliasIds /\ 1 \in ForwardIds /\ "r" \in Relays
  BY MCAdminAssumption
<1> HIDE DEF a, b, c, e, f, g
<1>7. ASSUME NEW t, Good(t), \A d \in Domains : t.domains[d] = NoDomain,
             \A y \in Accounts : t.accounts[y] = NoAccount,
             \A k \in AliasIds : t.aliases[k] = NoAlias,
             \A k \in ForwardIds : t.forwardings[k] = NoAlias
      PROVE  Good([t EXCEPT !.domains["d"] = a, !.accounts[x] = b, !.aliases[1] = c,
                            !.relays["r"] = e, !.forwardings[1] = f, !.inboxes = g])
  <2> DEFINE ds == [t.domains EXCEPT !["d"] = a]
             xs == [t.accounts EXCEPT ![x] = b]
             as == [t.aliases EXCEPT ![1] = c]
             rs == [t.relays EXCEPT !["r"] = e]
             fs == [t.forwardings EXCEPT ![1] = f]
             t1 == [t EXCEPT !.domains = ds]
             t2 == [t1 EXCEPT !.accounts = xs]
             t3 == [t2 EXCEPT !.aliases = as]
             t4 == [t3 EXCEPT !.relays = rs]
             t5 == [t4 EXCEPT !.forwardings = fs]
             t6 == [t5 EXCEPT !.inboxes = g]
  <2>1. /\ t.domains \in [Domains -> DomainRow \cup {NoDomain}]
        /\ t.accounts \in [Accounts -> AccountRow \cup {NoAccount}]
        /\ t.aliases \in [AliasIds -> AliasRow \cup {NoAlias}]
        /\ t.forwardings \in [ForwardIds -> ForwardingRow \cup {NoAlias}]
        /\ t.relays \in [Relays -> RelayRow]
    BY <1>7, TablesAre DEF Good
  <2>2. /\ ds \in [Domains -> DomainRow \cup {NoDomain}]
        /\ xs \in [Accounts -> AccountRow \cup {NoAccount}]
        /\ as \in [AliasIds -> AliasRow \cup {NoAlias}]
        /\ rs \in [Relays -> RelayRow]
        /\ fs \in [ForwardIds -> ForwardingRow \cup {NoAlias}]
    BY <1>2, <1>3, <2>1
  <2>3. /\ ds["d"] = a /\ \A d \in Domains : ds[d] # NoDomain => d = "d"
        /\ xs[x] = b /\ \A y \in Accounts : xs[y] # NoAccount => y = x
        /\ \A k \in AliasIds : as[k] # NoAlias => as[k] = c
        /\ \A k \in ForwardIds : fs[k] # NoAlias => fs[k] = f
    BY <1>4, <1>6, <1>7, <2>1
  <2>4. a # NoDomain /\ b # NoAccount
    BY <1>2, RowsAreThere
  <2> HIDE DEF ds, xs, as, rs, fs
  <2>5. Good(t1) /\ t1.domains = ds /\ t1.accounts = t.accounts /\ t1.aliases = t.aliases
        /\ t1.forwardings = t.forwardings /\ t1.relays = t.relays
    <3>1. Good([t EXCEPT !.domains = ds])
      BY <1>7, <2>2, <2>3, DomainsSet
    <3> QED BY <1>7, <3>1 DEF Good, Tables
  <2> HIDE DEF t1
  <2>6. Good(t2) /\ t2.domains = ds /\ t2.accounts = xs /\ t2.aliases = t.aliases
        /\ t2.forwardings = t.forwardings /\ t2.relays = t.relays
    <3>1. \A y \in Accounts : t1.accounts[y] # NoAccount => xs[y] # NoAccount
      BY <1>7, <2>5
    <3>2. \A y \in Accounts : xs[y] # NoAccount => t1.domains[y[1]] # NoDomain
      BY <1>4, <2>3, <2>4, <2>5
    <3>3. Good([t1 EXCEPT !.accounts = xs])
      BY <2>2, <2>5, <3>1, <3>2, AccountsSet
    <3> QED BY <2>5, <3>3 DEF Good, Tables
  <2> HIDE DEF t2
  <2>7. Good(t3) /\ t3.domains = ds /\ t3.accounts = xs /\ t3.aliases = as
        /\ t3.forwardings = t.forwardings /\ t3.relays = t.relays
    <3>1. \A k \in AliasIds : as[k] # NoAlias => t2.domains[as[k].dom] # NoDomain
      BY <1>3, <2>3, <2>4, <2>6
    <3>2. Good([t2 EXCEPT !.aliases = as])
      BY <2>2, <2>6, <3>1, AliasesSet
    <3> QED BY <2>6, <3>2 DEF Good, Tables
  <2> HIDE DEF t3
  <2>8. Good(t4) /\ t4.domains = ds /\ t4.accounts = xs /\ t4.forwardings = t.forwardings
    <3>1. Good([t3 EXCEPT !.relays = rs])
      BY <2>2, <2>7, OthersSet
    <3> QED BY <2>7, <3>1 DEF Good, Tables
  <2> HIDE DEF t4
  <2>9. Good(t5) /\ t5.accounts = xs
    <3>1. \A k \in ForwardIds : fs[k] # NoAlias => t4.domains[fs[k].dom] # NoDomain
      BY <1>3, <2>3, <2>4, <2>8
    <3>2. Good([t4 EXCEPT !.forwardings = fs])
      BY <2>2, <2>8, <3>1, ForwardingsSet
    <3> QED BY <2>8, <3>2 DEF Good, Tables
  <2> HIDE DEF t5
  <2>10. Good(t6)
    <3>1. \A m \in g : /\ t5.accounts[m.account] # NoAccount
                       /\ m.ruf # <<>> => t5.accounts[m.ruf] # NoAccount
      BY <1>5, <2>3, <2>4, <2>9
    <3>2. Good([t5 EXCEPT !.inboxes = g])
      BY <1>5, <2>9, <3>1, InboxesSet
    <3> QED BY <3>2
  <2>11. t6 = [t EXCEPT !.domains["d"] = a, !.accounts[x] = b, !.aliases[1] = c,
                        !.relays["r"] = e, !.forwardings[1] = f, !.inboxes = g]
    BY <1>7 DEF t1, t2, t3, t4, t5, t6, ds, xs, as, rs, fs, Good, Tables
  <2> QED BY <2>10, <2>11
<1>8. Base = [EmptyTables EXCEPT !.domains["d"] = a, !.accounts[x] = b, !.aliases[1] = c,
                                 !.relays["r"] = e, !.forwardings[1] = f, !.inboxes = g]
  BY DEF Base, a, b, c, e, f, g, x
<1>9. /\ \A d \in Domains : EmptyTables.domains[d] = NoDomain
      /\ \A y \in Accounts : EmptyTables.accounts[y] = NoAccount
      /\ \A k \in AliasIds : EmptyTables.aliases[k] = NoAlias
      /\ \A k \in ForwardIds : EmptyTables.forwardings[k] = NoAlias
  BY DEF EmptyTables
<1> QED BY <1>7, <1>8, <1>9, EmptyGood

\* What each part keeps, while another is exercised too.
PartsInv ==
    /\ IF part = "tables" THEN ConfigTyped ELSE ConfigInv
    /\ part # "mcp" => WebmailInv
    /\ part # "webmail" => McpInv
    /\ IdleInv
    /\ part = "tables" => ~Waiting(Boot)
    /\ part = "webmail" => admitted = {}

LEMMA PartsStart == MCInit => PartsInv
<1> SUFFICES ASSUME MCInit PROVE PartsInv
  OBVIOUS
<1>1. ASSUME NEW t, Good(t), NEW f \in Files, ConfigInit(t, f) PROVE ConfigInv
  <2>1. db = t /\ ConfigInit(db, f) /\ dbUp = TRUE
    BY <1>1 DEF ConfigInit
  <2>2. TablesTypeOK
    BY <1>1, <2>1, GoodTables
  <2> QED BY <2>1, <2>2, ConfigStarts
<1>2. ConfigInv
  <2>1. CASE part = "config"
    BY <1>1, <2>1, BaseGood DEF MCInit
  <2>2. CASE part # "config"
    BY <1>1, <2>2, EmptyGood DEF MCInit, Files
  <2> QED BY <2>1, <2>2
<1>3. WebmailInv /\ McpInv /\ IdleInv
  BY WebmailStarts, McpStarts, IdleStarts DEF MCInit
<1>4. ~Waiting(Boot) /\ admitted = {}
  <2>1. Genconfig.pc = "regen"
    BY DEF Genconfig, NoJob
  <2>2. job = [j \in Jobs |-> IF j = Boot THEN Genconfig ELSE NoJob] /\ Boot \in Jobs
    BY DEF MCInit, ConfigInit, Jobs
  <2> QED BY <2>1, <2>2 DEF MCInit, McpInit, Waiting, At
<1> QED BY <1>2, <1>3, <1>4 DEF PartsInv, ConfigInv

LEMMA PartsStep == PartsInv /\ [MCNext]_allvars => PartsInv'
<1> SUFFICES ASSUME PartsInv, [MCNext]_allvars PROVE PartsInv'
  OBVIOUS
<1> USE DEF PartsInv
<1>1. ASSUME UNCHANGED config PROVE (ConfigInv => ConfigInv') /\ (ConfigTyped => ConfigTyped')
  <2>1. [ConfigNext]_cfgvars
    BY <1>1 DEF config, cfgvars
  <2>2. ConfigTyped => ConfigTyped'
    BY <1>1 DEF config, ConfigTyped, TablesInv, JobsTyped, At
  <2> QED BY <2>1, <2>2, ConfigStep
<1>2. ASSUME UNCHANGED <<webvars, mcp>> PROVE (WebmailInv => WebmailInv') /\ (McpInv => McpInv')
  <2>1. [WebmailNext]_webvars /\ [McpNext]_mcpvars
    BY <1>2 DEF mcp, mcpvars
  <2> QED BY <2>1, WebmailStep, McpStep
<1>3. ASSUME UNCHANGED idle PROVE IdleInv'
  BY <1>3, IdleStep DEF idle, idlevars
<1>4. CASE part = "tables" /\ part' = part /\ [TablesNext]_<<db, dbUp>>
             /\ UNCHANGED <<watched, disk, served, wedged, job, faults, suspect>>
             /\ UNCHANGED <<webvars, idle, mcp>>
  <2>1. TablesInv'
    BY <1>4, TablesStep DEF ConfigTyped
  <2>2. ConfigTyped'
    BY <1>4, <2>1 DEF ConfigTyped, JobsTyped, At
  <2>3. ~Waiting(Boot)'
    BY <1>4 DEF Waiting, At
  <2> QED BY <1>2, <1>3, <1>4, <2>2, <2>3
<1>5. CASE part = "config" /\ ConfigSteps(Bearing) /\ UNCHANGED <<part, webvars, idle, mcp>>
  <2>1. ConfigNext
    BY <1>5 DEF ConfigNext, ConfigSteps, Topics
  <2> QED BY <1>2, <1>3, <1>5, <2>1, ConfigStep
<1>6. CASE part = "webmail" /\ WebmailNext /\ UNCHANGED <<part, config, idle, mcp>>
  BY <1>1, <1>3, <1>6, WebmailStep DEF mcp
<1>7. CASE part = "idle" /\ IdleNext /\ UNCHANGED <<part, config, webvars, mcp>>
  BY <1>1, <1>2, <1>7, IdleStep
<1>8. CASE part = "mcp" /\ McpNext /\ UNCHANGED <<part, config, idle>>
  BY <1>1, <1>3, <1>8, McpStep
<1>9. CASE UNCHANGED allvars
  <2>1. part' = part /\ UNCHANGED config /\ UNCHANGED <<webvars, mcp>> /\ UNCHANGED idle
    BY <1>9 DEF allvars
  <2>2. Waiting(Boot)' = Waiting(Boot) /\ admitted' = admitted
    BY <2>1 DEF config, mcp, Waiting, At
  <2> QED BY <1>1, <1>2, <1>3, <2>1, <2>2
<1> QED BY <1>4, <1>5, <1>6, <1>7, <1>8, <1>9 DEF MCNext

\* Whichever part is exercised, tables and files, mailbox, streams and guards keep their
\* types.
THEOREM AdminTypeCorrect == MCSpec => []AdminTypeOK
<1>1. IdleInv => IdleTypeOK
  BY DEF IdleInv, StreamsTyped, Task, IdleTypeOK
<1>2. PartsInv => AdminTypeOK
  BY <1>1, ConfigTypes, WebmailImplies, McpImplies DEF PartsInv, ConfigInv, AdminTypeOK
<1> QED BY PartsStart, PartsStep, <1>2, PTL DEF MCSpec

\* Whichever part is exercised, everything claimed of each holds beside the others: a part
\* that is not exercised has generated no file, served no call and copied no mail.
THEOREM AdminHolds ==
    MCSpec => [](/\ CatchAllSparesMailboxes /\ FilesFollowTables
                 /\ SentCopiesKept /\ SessionsWithinCap /\ McpLimitHolds)
<1>1. PartsInv => FilesFollowTables
  <2>1. part = "tables" /\ PartsInv => FilesFollowTables
    BY DEF PartsInv, FilesFollowTables, Jobs
  <2>2. part # "tables" /\ PartsInv => FilesFollowTables
    BY ConfigImplies DEF PartsInv
  <2> QED BY <2>1, <2>2
<1>2. PartsInv => McpLimitHolds
  <2>1. admitted = {} => McpLimitHolds
    BY FS_EmptySet, McpAssumption DEF McpLimitHolds, AdmittedIn
  <2> QED BY <2>1, McpImplies DEF PartsInv
<1>3. PartsInv => SentCopiesKept
  BY WebmailImplies DEF PartsInv, McpInv
<1>4. PartsInv => SessionsWithinCap
  BY DEF PartsInv, IdleInv, Listed, RoomKept, SessionsWithinCap
<1> QED BY PartsStart, PartsStep, CatchAllSpares, <1>1, <1>2, <1>3, <1>4, PTL DEF MCSpec

==============================================================================
