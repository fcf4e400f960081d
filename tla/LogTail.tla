------------------------------ MODULE LogTail ------------------------------
(***************************************************************************)
(* The fail2ban watcher's view of /var/log/mail.log: several writers       *)
(* append to the file, a rotation may rename or truncate it, and one       *)
(* thread tails it (src/fail2ban.rs: start_watcher, tail_log_file).        *)
(*                                                                         *)
(* A file is a sequence of items: a text (the characters of one log line)  *)
(* or a line feed.  The mail services write a line and its line feed with  *)
(* one write; record_web_auth_failure uses writeln! on an unbuffered File, *)
(* which is two writes, so lines of concurrent writers can run together.   *)
(* What handle_auth_failure does with a failure is module Fail2ban.        *)
(***************************************************************************)
EXTENDS Naturals, Sequences, FiniteSets

CONSTANTS
    Writers,      \* web request tasks that log an authentication failure
    MaxLines,     \* bound: how many texts are ever written
    MaxInodes,    \* bound: how many files ever exist under MAIL_LOG_PATH
    Rotations,    \* subset of {"rename", "truncate"}: what rotates the log
    MaxReadErrors \* bound: how many reads of the log ever fail

ASSUME LogTailAssumption ==
    /\ MaxLines \in Nat
    /\ MaxInodes \in Nat \ {0}
    /\ Rotations \subseteq {"rename", "truncate"}
    /\ MaxReadErrors \in Nat

NoFile == 0                          \* no file: reads as an empty one
Inodes == 1..MaxInodes

\* "mail": a Postfix/Dovecot authentication failure; "web": one written by
\* record_web_auth_failure; "noise": any line no pattern matches.
Text == [id : 1..MaxLines, kind : {"mail", "web", "noise"}]
LF == [id |-> 0, kind |-> "lf"]

VARIABLES
    path,     \* the inode MAIL_LOG_PATH names, or NoFile
    content,  \* content[i]: the items of inode i
    created,  \* inodes handed out so far
    lines,    \* texts written so far; a text's id is its rank
    writer,   \* per web writer: [step, fd]
    step,     \* the watcher: "opening", "reading", or "eof" (read_line gave Ok(0))
    fd,       \* the inode the watcher has open
    inode,    \* current_inode, captured at open
    pos,      \* the file offset of the watcher's descriptor, in items
    buf,      \* what BufReader has read and read_line not yet consumed
    handled,  \* ids of the failures passed to handle_auth_failure, in order
    errors,   \* reads that failed so far
    lost      \* ids the watcher had ahead when a read failed, or when the log
              \* was rotated under it: history, read by no action

fileVars == <<path, content, created, lines>>
watchVars == <<step, fd, inode, pos, buf, handled, errors>>
tailVars == <<fileVars, writer, watchVars, lost>>

----------------------------------------------------------------------------
(* Items and lines.                                                        *)

\* Items of the open file beyond the descriptor's offset.
Beyond == SubSeq(content[fd], pos + 1, Len(content[fd]))

\* What read_line will still see of the open file.
Ahead == buf \o Beyond

FailureIds(s) == {s[i].id : i \in {j \in DOMAIN s : s[j].kind \in {"mail", "web"}}}

HasLF(s) == \E i \in DOMAIN s : s[i] = LF
FirstLF(s) == CHOOSE i \in DOMAIN s : s[i] = LF /\ \A j \in 1..(i - 1) : s[j] # LF

\* parse_log_line on a line: the patterns are tried in a fixed order, the mail
\* services' before the web's, and each finds its leftmost match. {} when none
\* matches.
BugParseWebFirst(line) ==
    LET web == {i \in DOMAIN line : line[i].kind = "web"}
        mail == {i \in DOMAIN line : line[i].kind = "mail"}
    IN  IF web # {} THEN {CHOOSE i \in web : TRUE} ELSE mail
ParseLogLine(line) ==
    LET of(k) == {i \in DOMAIN line : line[i].kind = k}
        leftmost(S) == {i \in S : \A j \in S : i <= j}
    IN  IF of("mail") # {} THEN leftmost(of("mail")) ELSE leftmost(of("web"))

----------------------------------------------------------------------------
TailInit ==
    /\ path = 1                            \* entrypoint.sh touches the file
    /\ content = [i \in Inodes \cup {NoFile} |-> <<>>]
    /\ created = 1
    /\ lines = 0
    /\ writer = [w \in Writers |-> [step |-> "idle", fd |-> NoFile]]
    /\ step = "opening"
    /\ fd = NoFile
    /\ inode = NoFile
    /\ pos = 0
    /\ buf = <<>>
    /\ handled = <<>>
    /\ errors = 0
    /\ lost = {}

----------------------------------------------------------------------------
(* Writers.                                                                *)

AppendTo(i, s) == content' = [content EXCEPT ![i] = @ \o s]

\* postlogd and `tee -a` (started by entrypoint.sh): one write per line.
MailServiceWrite(kind) ==
    /\ path # NoFile
    /\ lines < MaxLines
    /\ lines' = lines + 1
    /\ AppendTo(path, <<[id |-> lines + 1, kind |-> kind], LF>>)
    /\ UNCHANGED <<path, created, writer, watchVars, lost>>

\* record_web_auth_failure opens the path with create and append ...
WebOpen(w) ==
    /\ writer[w].step = "idle"
    /\ lines < MaxLines
    /\ \/ /\ path # NoFile
          /\ UNCHANGED <<path, created>>
       \/ /\ path = NoFile
          /\ created < MaxInodes
          /\ created' = created + 1
          /\ path' = created + 1
    /\ writer' = [writer EXCEPT ![w] = [step |-> "text", fd |-> path']]
    /\ UNCHANGED <<content, lines, watchVars, lost>>

\* ... writes the text ...
WebWriteText(w) ==
    /\ writer[w].step = "text"
    /\ lines < MaxLines
    /\ lines' = lines + 1
    /\ AppendTo(writer[w].fd, <<[id |-> lines + 1, kind |-> "web"]>>)
    /\ writer' = [writer EXCEPT ![w].step = "lf"]
    /\ UNCHANGED <<path, created, watchVars, lost>>

\* ... and then, in a second write, the line feed.
WebWriteLF(w) ==
    /\ writer[w].step = "lf"
    /\ AppendTo(writer[w].fd, <<LF>>)
    /\ writer' = [writer EXCEPT ![w] = [step |-> "idle", fd |-> NoFile]]
    /\ UNCHANGED <<path, created, lines, watchVars, lost>>

----------------------------------------------------------------------------
(* Rotation, by a tool outside the server.                                 *)

RotateRename ==
    /\ "rename" \in Rotations
    /\ path # NoFile
    /\ created < MaxInodes
    /\ path' = NoFile
    /\ UNCHANGED <<content, created, lines, writer, watchVars, lost>>

RotateCreate ==
    /\ path = NoFile
    /\ created < MaxInodes
    /\ created' = created + 1
    /\ path' = created + 1
    /\ UNCHANGED <<content, lines, writer, watchVars, lost>>

RotateTruncate ==
    /\ "truncate" \in Rotations
    /\ path # NoFile
    /\ content[path] # <<>>
    /\ content' = [content EXCEPT ![path] = <<>>]
    /\ lost' = IF path = fd THEN lost \cup FailureIds(Beyond) ELSE lost
    /\ UNCHANGED <<path, created, lines, writer, watchVars>>

----------------------------------------------------------------------------
(* The watcher thread.                                                     *)

\* tail_log_file seeks to the end: only lines written from now on are read.
BugSeekStart(i) == 0
SeekEnd(i) == Len(content[i])

BugOpenMissing == TRUE
LogExists == path # NoFile

\* It opens the file, captures its inode and seeks.  While the path is missing,
\* start_watcher sleeps and retries, and nothing changes.
OpenLog ==
    /\ step = "opening"
    /\ LogExists
    /\ step' = "reading"
    /\ fd' = path
    /\ inode' = path
    /\ pos' = SeekEnd(path)
    /\ buf' = <<>>
    /\ UNCHANGED <<fileVars, writer, handled, errors, lost>>

\* The bytes read_line can draw on: BufReader refills its buffer from the file
\* only when it holds no complete line.
Refill == IF HasLF(buf) THEN buf ELSE buf \o Beyond

\* read_line returned a line (up to its line feed, or what there is at the end
\* of the file); a failure found in it is handled.
ReadLine ==
    /\ step = "reading"
    /\ Refill # <<>>
    /\ LET n == IF HasLF(Refill) THEN FirstLF(Refill) ELSE Len(Refill)
           line == SubSeq(Refill, 1, n)
       IN  /\ buf' = SubSeq(Refill, n + 1, Len(Refill))
           /\ handled' = IF ParseLogLine(line) = {} THEN handled
                         ELSE Append(handled, line[CHOOSE i \in ParseLogLine(line) : TRUE].id)
    /\ pos' = IF HasLF(buf) \/ Len(content[fd]) < pos THEN pos ELSE Len(content[fd])
    /\ UNCHANGED <<fileVars, writer, step, fd, inode, errors, lost>>

\* read_line returned Ok(0): nothing was left to read at that moment.  Lines may
\* be appended before the tests below look at the path.
ReadEof ==
    /\ step = "reading"
    /\ Refill = <<>>
    /\ step' = "eof"
    /\ UNCHANGED <<fileVars, writer, fd, inode, pos, buf, handled, errors, lost>>

\* tail_log_file returns and its reader is dropped.
CloseLog ==
    /\ step' = "opening"
    /\ fd' = NoFile
    /\ inode' = NoFile
    /\ pos' = 0
    /\ buf' = <<>>

\* A line that is not UTF-8, an I/O error, or a failing metadata() or
\* stream_position(): tail_log_file returns the error, and 5 s later start_watcher
\* calls it again, which opens the log at its end.  What was ahead is never read.
ReadFails ==
    /\ step \in {"reading", "eof"}
    /\ errors < MaxReadErrors
    /\ errors' = errors + 1
    /\ CloseLog
    /\ lost' = lost \cup FailureIds(Ahead)
    /\ UNCHANGED <<fileVars, writer, handled>>

\* The inode test compares two readings of the same open descriptor.
InodeChanged == fd # inode

\* After Ok(0) the file counts as rotated when the path is gone, the inode
\* changed, or the file at the path is shorter than the offset.
Rotated ==
    \/ path = NoFile
    \/ InodeChanged
    \/ Len(content[path]) < pos

\* What the tests stand for: the path no longer names the open file, or the open
\* file was cut.
Replaced == path # fd \/ Len(content[fd]) < pos

\* tail_log_file returns and start_watcher calls it again.  Lines appended to a
\* replaced file since the read stay unread.
Reopen ==
    /\ step = "eof"
    /\ Rotated
    /\ CloseLog
    /\ lost' = IF Replaced THEN lost \cup FailureIds(Ahead) ELSE lost
    /\ UNCHANGED <<fileVars, writer, handled, errors>>

\* Nothing new: sleep POLL_INTERVAL.
Poll ==
    /\ step = "eof"
    /\ ~Rotated
    /\ step' = "reading"
    /\ UNCHANGED <<fileVars, writer, fd, inode, pos, buf, handled, errors, lost>>

----------------------------------------------------------------------------
Tailing == OpenLog \/ ReadLine \/ ReadEof \/ Reopen \/ Poll

TailNext ==
    \/ \E k \in {"mail", "noise"} : MailServiceWrite(k)
    \/ \E w \in Writers : WebOpen(w) \/ WebWriteText(w) \/ WebWriteLF(w)
    \/ RotateRename \/ RotateCreate \/ RotateTruncate
    \/ Tailing \/ ReadFails

\* The watcher thread never stops (reads may fail, but need not), an open write completes, and whatever
\* removed the log puts a new one in its place.
Fairness ==
    /\ WF_tailVars(Tailing)
    /\ WF_tailVars(RotateCreate)
    /\ \A w \in Writers : WF_tailVars(WebWriteText(w) \/ WebWriteLF(w))

TailSpec == TailInit /\ [][TailNext]_tailVars /\ Fairness

----------------------------------------------------------------------------
(* Properties.                                                             *)

\* The state has its type, and a watcher that reads has a file open.
TailTypeOK ==
    /\ path \in Inodes \cup {NoFile}
    /\ content \in [Inodes \cup {NoFile} -> Seq(Text \cup {LF})]
    /\ created \in Inodes
    /\ lines \in 0..MaxLines
    /\ writer \in [Writers -> [step : {"idle", "text", "lf"}, fd : Inodes \cup {NoFile}]]
    /\ step \in {"opening", "reading", "eof"}
    /\ step # "opening" => fd \in Inodes
    /\ inode = fd
    /\ pos \in Nat
    /\ buf \in Seq(Text \cup {LF})
    /\ handled \in Seq(1..MaxLines)
    /\ errors \in 0..MaxReadErrors
    /\ lost \subseteq 1..MaxLines

\* tail_log_file hands failures to handle_auth_failure in the order they were
\* written and none of them twice, whatever rotates the log meanwhile: an
\* attempt counted twice would ban an address early.
HandledInOrder ==
    \A i, j \in DOMAIN handled : i < j => handled[i] < handled[j]

\* Failure id is ahead of the watcher and parse_log_line will pick it: the mail
\* services' lines always, a web line when it has its line to itself.
Pending(id) ==
    /\ step # "opening"
    /\ \E p \in DOMAIN Ahead :
          /\ Ahead[p].id = id
          /\ \/ Ahead[p].kind = "mail"
             \/ /\ Ahead[p].kind = "web"
                /\ p = 1 \/ Ahead[p - 1] = LF
                /\ p < Len(Ahead) /\ Ahead[p + 1] = LF

\* Every failure the watcher has ahead of it in its open file is eventually
\* handled, unless a read of the log fails before it gets there, the file is
\* truncated under it, or the failure is appended to a file already rotated
\* away, between the read that found its end and the tests.
PendingIsHandled ==
    \A id \in 1..MaxLines :
        Pending(id) ~> (id \in lost \/ \E i \in DOMAIN handled : handled[i] = id)

\* src/fail2ban.rs:281 says of the inode captured at open: "so we can detect log
\* rotation even when the new file happens to be the same size or larger than
\* the old one".  So whenever the path names another file than the open one,
\* the watcher sooner or later has the file at the path open.
RotationDetected ==
    (step # "opening" /\ path # NoFile /\ fd # path) ~> (fd = path)
=============================================================================
