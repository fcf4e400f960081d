# Formal models of mailserver

TLA+ models of this repository's mail server administration program (Rust, `src/`),
the TLC configurations that check them on small instances, and theorems about
them checked by TLAPS. Every definition is translated from the source; the file
and lines are in `PROJECT.json` under `map`. Paths below are relative to the
repository root.

Run, in this directory:

    tlc -workers 2 -config Fail2ban.cfg MCFail2ban     # a run
    tlapm Fail2banProofs.tla                           # the proofs of a module

## 1. The system

One container runs Postfix, Dovecot, OpenDKIM and `mailserver serve`; PostgreSQL
runs beside it. `mailserver serve` is a web server (axum on tokio), a watcher
thread, and one database connection that all of them share. `mailserver filter`
is another process of the same binary, started by Postfix for each attempt to
deliver a message.

The shared connection is the hinge of the program. `Database` holds one client
behind one `std::sync::Mutex` (`src/db.rs:800`). Each method locks it, so a method
is atomic, and a handler that makes several calls is not: `AppState::blocking_db`
runs each call in a thread of its own, and the handler awaits its answer. When the
client of a request leaves, the server drops the handler where it awaits, with the locks
it holds, and the thread goes on: the call is made, and nothing that would follow it. The
models have this as `ClientLeaves`, where something is left half done. The connection to
PostgreSQL is never re-opened: when
PostgreSQL drops the connection, every later call fails until the server is
restarted, reads return their default and writes do nothing, silently in most
methods. The models have this as `LoseConnection` (or `LoseDb`) and `Restart`.

### Components

| Component | State | Operations | Interacts through | Hard behaviour |
|---|---|---|---|---|
| Fail2ban log watcher (`fail2ban.rs`) | open descriptor, offset, read buffer | open, read a line, poll, reopen | `/var/log/mail.log`, written by Postfix, Dovecot and web requests | rotation, interleaved writes, partial lines, failed reads |
| Fail2ban decisions (`fail2ban.rs`, `routes/fail2ban.rs`, `db.rs`) | whitelist, blacklist, bans, attempts, settings, switch; cached switch | `handle_auth_failure`; toggle, settings, ban, unban, lists; purge | the tables | six calls per failure against admin handlers; lost connection; stale cache |
| Content filter (`filter.rs`) | per process: rules, registry of seen messages; database: counts, opt-outs, tokens | rate limits, unsubscribe list, header injection, reinjection | Postfix queue and exit status, SMTP to port 10025, database | failed, timed-out or unacknowledged delivery; a kill before the exit; outage; retries; many processes at once |
| Registration and invite codes (`routes/registration.rs`, `invite_codes.rs`, `accounts.rs`) | accounts, codes, domain flags | register, create and delete codes, accounts, domains | database | races for a name or a code; failure, or a client gone, after the code was used; self-deadlock |
| Daily send limit (`db.rs`, `api_email.rs`, `api_soap.rs`, `webmail.rs`) | count and date per account | check and increment, refund | database, SMTP | midnight between two locks; refunds of unknown charges |
| Admin login limit (`web/auth.rs`) | failures per address | look, record, clear | every protected route, database | requests in flight while the limit is reached |
| IDLE registry (`imap_idle.rs`, `webmail.rs`) | sessions, shutdown flags | open, poll, disconnect | Maildir, SSE channel | cap checked and used under two locks; clients that vanish |
| Mail tables and configuration (`routes/domains.rs`, `accounts.rs`, `aliases.rs`, `forwarding.rs`, `relays.rs`, `settings.rs`, `spambl.rs`; `config.rs`, `web/mod.rs`) | tables; Postfix, Dovecot, OpenDKIM files | edit and regenerate; `genconfig` subprocess; reload | database, files | regenerations that overlap each other, other edits, restarts; clients that leave; which entry wins |
| WebDAV and FileLink (`routes/webdav.rs`) | a row and a file per name, `QUOTA_LOCK` | PUT, FileLink upload, DELETE, download, settings | disk, database | file and row apart, quota, failures half-way, clients that leave |
| CalDAV, CardDAV (`routes/caldav.rs`, `carddav.rs`) | collections with a ctag, objects | PUT, DELETE, MKCALENDAR, MKCOL, PROPFIND, REPORT | database | ctag apart from object, caps |
| DAV password limit (`webdav.rs`, `dav_auth`) | failures per address, bounded table | ask, record, clear | WebDAV, CalDAV, CardDAV, JMAP login | attempts in flight, eviction |
| JMAP (`routes/jmap/`) | tokens, state and snapshot | get, getChanges | Maildir, database | state read and written by separate calls |
| Webmail, REST, SOAP (`webmail.rs`, `api_email.rs`, `api_soap.rs`) | Maildir files, copies in `.Sent` | list, view, download, reply, delete, send | Dovecot, Postfix | names that go stale, names that clash |
| MCP (`routes/mcp.rs`, `web/mod.rs`) | call times and failures per key | check, dispatch, outcome | Maildir, SMTP | calls of one key that overlap |
| Webhooks, quarantine, provisioning, TLS, autoconfig, BIMI, dashboards | - | I/O, parsing, rendering | - | - |

What makes each component correct is stated in section 3. `PROJECT.json` lists every
component with its status, and under `hazards` each place where the code is hard to
test.

## 2. Modules

    LogTail                          the log, its writers, its rotation, the watcher's reads
    Fail2ban       <- MCFail2ban     what is done with a failure; tables; admin handlers
                   <- Fail2banProofs both modules
    MailFilter     <- MCMailFilter   the content filter's processes, Postfix, the database
                   <- MailFilterProofs
    Registration   <- RegistrationProofs   invite codes, accounts, the connection's mutex
    SendQuota      <- SendQuotaProofs
    LoginGuard     <- LoginGuardProofs

    DavStore                         what the file storage promises (abstract)
    WebDav         <- WebDavProofs   rows, files, QUOTA_LOCK; implements DavStore
    DavCollections                   CalDAV and CardDAV
    DavGuard                         the failure limit of the four password protocols
    Jmap                             state and snapshot of getChanges
    MCUserData                       WebDav, DavCollections, DavGuard and Jmap, one run
                   <- UserDataProofs the last three, and the composition

    MailTables <- MailConfig         the tables and what is written from them; the
                                     handlers that edit them and regenerate the files
    Webmail    <- Mcp                the mailbox by webmail, REST, SOAP; by AI clients
    ImapIdle                         streams of new-mail counts
    MCAdmin        <- AdminProofs    MailConfig, Mcp and ImapIdle, one run

`LogTail` ends where `Fail2ban` begins: the failures that `LogTail` appends to
`handled` are the inputs of `Fail2ban!ReadFailure`, which accepts any failure at
any time. The two are checked apart, since nothing flows back.

`MCUserData` and `MCAdmin` compose modules whose states do not meet. A variable
`part`, chosen in the initial state, says which component a behaviour exercises;
the others stay as they are, so the state spaces add and do not multiply. Both extend
their components directly, so that a run and a theorem mean the same definitions; each
component names its own initial predicate, next-state relation and specification
(`GInit`, `GNext`, `GSpec`; `TailSpec`; `IdleNext`; ...). Where
components do meet they share variables: `Mcp` extends `Webmail` and calls its
actions on one Maildir, `MailConfig` extends `MailTables`, and the password checks of
WebDAV, CalDAV, CardDAV and JMAP are handlers of `DavGuard` over its one table
(requests of `WebDav` and `DavCollections` are past that check).

In every module an action is one step of the code that no other actor can
interrupt: one database call, one system call, one function under a mutex. A
handler of several calls is several actions linked by `pc`. Names are the
source's where the source has one (`is_ip_banned`, `ban_ip`,
`purge_expired_rows`). Variables under "History" are read by properties alone.
Operators named `Bug...` are deliberately wrong variants of the operator that
follows them; no specification uses one, and the `mutants` of `PROJECT.json` put each
in place to show that the property can fail.

### LogTail
A file is a sequence of items: a text, or a line feed. Postfix and Dovecot append
both in one write; `record_web_auth_failure` uses `writeln!` on an unbuffered
`File`, which is two writes, so web lines can run together, and then
`parse_log_line` finds the leftmost match of the first pattern that matches. The
watcher's descriptor, its captured inode, its offset and `BufReader`'s buffer are
variables; `Refill` reads from the file only when the buffer holds no complete line. The read that
finds the end of the file (`ReadEof`), the tests of the path (`Reopen`, `Poll`) and the
next open at the file's end (`OpenLog`, `SeekEnd`) are steps apart, and lines are written in
between. A read or a stat that fails (an I/O error, or text that is not UTF-8) ends the
watch (`ReadFails`) and the next one starts at the file's end: what was ahead is `lost`,
like what is appended to a file between the read of its end and the test that finds it
replaced. Inodes are not reused.

### Fail2ban
`pc` walks `handle_auth_failure` (`whitelist`, `banned`, `setting`, `record`,
`count`, `ban`), one database call per action, with `fail`, `setting` and `count`
as its locals. `cache`, `cacheAt`, `lastPurge` are locals of `tail_log_file`.
Admin handlers are one action each; `add_to_whitelist` and `add_to_blacklist`,
two statements, have a parameter `cut` for a connection lost in between. The
attempts table keeps each row's time and a rank that tells rows of one tick
apart. Time is in ticks and every duration in the same unit.

### MailFilter
One process per message at a time, at step `pc[m]`; `Start` forgets all that an
earlier attempt knew (a new process), including `RATE_LIMIT_SEEN`. `Session` is
one SMTP dialogue and may end accepted or not, answered, failed or timed out.
`Exit` is Postfix's reading of the exit status. After a session that succeeded the process
is `exiting` until `Return`; killed there, it leaves in the queue a message it delivered
(`unreported`). A process that loses its
connection continues with each query's default. The admin's deletions from the
queue (`delete_message`, `purge`) run beside it: `postsuper` removes the queue file, the
process that is filtering the message goes on. Left out, because no decision
modelled depends on them: footer, pixel, spam lookup and Junk rewriting, DKIM
stripping, webhook. `Promotional` stands for the conjunction of the global and the
per-domain unsubscribe switch.

### Registration
`handle_form` makes four calls: the domain, the name, the code, the account. A client may
leave at the await before each of the last three (`ClientLeaves`), and a code used by then
is `abandoned`.
`holder` is the connection's mutex; calls that release it within one statement
are one action guarded by `Unlocked`, and only `delete_account`, which calls a
method that locks the mutex while it holds it, is two steps.

### SendQuota
One account. `ReadLimit` ends with the date, before the second lock is taken, as the
code does; `CheckAndIncrement` is what happens under it. The three handlers that send
under the limit (REST, SOAP, webmail) make the same calls, so one request stands
for each. A client that leaves needs no action: its request takes no further step,
charged or sent and not refunded. Sending through MCP or JMAP does not use the limit in
the code and is not modelled here.

### LoginGuard
`Arrive` is `is_locked_out`; `Refuse`, `Fail` and `Succeed` are the outcomes of the
credential checks, which run without the table's mutex. A protected route that
answers before any failure is recorded is `Refuse`.

### DavStore and WebDav
A name (owner's spelling and file name) is a row, and under the row's token a file.
`job[r]` is one request and what it has read: `queued`, `locked` (holding `QUOTA_LOCK`),
`checked`, `found`, `torn`, `written` for an upload, `picked` and `unlink` for a
deletion, `reading` for a download. `fs::write` is two steps, truncation and bytes;
either may fail and nothing is undone. An upload whose upsert fails removes the file it
wrote, and with it the previous content. Deletions and downloads take no lock. A client may
leave at any await. One that leaves during the upsert frees `QUOTA_LOCK` while the upsert
is still to run (`orphaned`): it commits beside the next upload, and a failure then
removes nothing. `overtaken` names the requests that were let past one another so.
`DavStore` has no rows, tokens, disk or lock: a name shows nothing, a broken file or a
content whose upload to that name was still under way when the content appeared.
`ImplementsStore` maps the one to the other (`Shown`, uploads from `locked` on as
`pending`).

### DavCollections
`caldav.rs` and `carddav.rs` are one program written twice. Steps (`CheckExists`,
`CountObjects`, `StoreObject`, `update_ctag`, ...) are written once; each protocol's
handlers have their own names and map to their own lines, and a behaviour is one
protocol's. `client` follows a collection as a synchronising client does: ctag first,
objects when the ctag is new; REPORT looks the slug up again (`FindAgain`) before it lists,
and may find another collection of that name. A client that leaves its request needs no
action here: the handler is a request that takes no further step, and the object and its
ctag are written by one closure, which goes on.

### DavGuard
`dav_auth`'s `is_locked`, `record_failure` and `clear` under their mutex, the password
comparison between them without it. Unlike the admin's table this one is bounded: a new
key evicts expired records, or else the oldest.

### Jmap
A `getChanges` call scans the Maildir, reads the row, and writes the next state and the
ids it scanned: three steps. `mailbox_id_from_dir` and `mailbox_dir` are modelled
by what they do to a directory's dot, which the second adds again.

### MailTables and MailConfig
`MailTables` has one operator per statement and one per generated file. An address
carries whether it was typed with capitals, since the forms keep an address's spelling
and the maps lower it. `MailConfig` has every handler that edits the tables, one
database call at a time, and `generate_all_configs`: its queries in their order, the
truncation, the write, the reload. The files are independent of each other, so a
behaviour watches one of ten. Every request may overlap every other one, and its commit
may fall between any two queries of a regeneration, whichever file is watched; `ConfigSteps`
lets a run choose topics. A registration's commit, the start of its `genconfig` process
(`StartGenconfig`), which has a connection of its own, and that process's failure
(`GenconfigFails`) are steps apart; a client that leaves between the first two leaves the
files behind the tables, and `suspect` says so.
`accounts_delete` hangs with the mutex (section 7), and everything that needs the
connection with it.

### Webmail and Mcp
A Maildir is a set of files with folder, directory, name and mail; Dovecot delivers,
moves to `cur/` under a new name, and removes. A page lists names and later requests use
them. The copy in `.Sent` is written after Postfix accepted; a write that fails may leave a
part of it, which has taken the place of a file of that name (`Written`). REST and SOAP handlers are
actions of their own. `Mcp` guards its calls with `check_and_record`, runs a tool over
the same mailbox and reports the outcome; calls of one key overlap.

### ImapIdle
`idle_stream` looks at the registry's size under one lock and inserts under another. The
task polls, reports a count that changed, and so learns that its client has left.

## 3. Runs

| Run | Module, cfg | Shows |
|---|---|---|
| `log_tail` | `LogTail`, `LogTail.cfg` | `HandledInOrder`: no failure is handed on twice or out of order, whatever rotates the log. `PendingIsHandled`: a failure ahead of the watcher in its open file is handled in the end, unless it is truncated away, a read of the log fails, or it was appended to the file after the read that found its end and before the test that finds the file replaced. |
| `log_rotation` (violated) | `LogTail`, `LogTailRotation.cfg` | `RotationDetected`, the promise of `src/fail2ban.rs:281`, fails: see section 7. |
| `fail2ban` | `MCFail2ban`, `Fail2ban.cfg` | `NoMissedBan`: an address at its threshold is banned when the watcher is between two lines. `AtMostOneStrayBan`: whitelisting is overtaken by the failure in hand only. `BlacklistEnforced`: a permanent ban is never replaced by a temporary one. `StaleSwitchBounded`: the cached switch is at most its time to live old when used. |
| `mail_filter` | `MCMailFilter`, `MailFilter.cfg` | `NoSilentLoss`, `DuplicatesExplained`: delivered, suppressed for an opt-out, or still queued; more than one copy only for want of an answer, to the filter or, when it was killed, to Postfix. `RateLimitHolds`: the limit holds across processes. `UnsubscribeHonoured`: an opt-out made before an attempt stops it. `EventuallySettled`: every message with a usable envelope leaves the queue, database or not. |
| `rate_limit_retry` (violated) | `MCMailFilter`, `RateLimitRetry.cfg` | `RetryNotCounted`, the promise of `src/filter.rs:115`, fails. |
| `registration` | `Registration`, `Registration.cfg` | `CodeBuysOneAccount`. `NoNeedlessBurn`: a code is spent for nothing only after a race or a fault, or by a client that left. `RegistrationAnswered`: each request whose client stays is answered unless `delete_account` blocks the connection. |
| `delete_account` (violated) | `Registration`, `DeleteAccount.cfg` | `InviteCodesCleanedUp`, the promise of `src/db.rs:1365`, fails. |
| `send_quota` | `SendQuota`, `SendQuota.cfg` | `LimitHolds`: what is sent on a day exceeds the limit by the two counted exceptions only. `NoEarlyRefusal`: a refusal always has as many live charges behind it as the limit. |
| `send_quota_midnight` (violated) | `SendQuota`, `SendQuotaMidnight.cfg` | `LimitReachedIsRefused`, the promise of `src/db.rs:2357`, fails. |
| `login_guard` | `LoginGuard`, `LoginGuard.cfg` | `GuessesBounded`: overlapping requests add at most their own number. `NoUnearnedBan`: a ban has its failures within the window. `BanHonoured`: a ban lasts unless a request under way ends it. |
| `user_data` | `MCUserData`, `UserData.cfg` | `AcknowledgedIsKept`: what an upload was told is stored stays, row and bytes. `QuotaHolds`: no committed upload leaves its owner over the quota it was checked against, but beside one whose client left during its upsert. `LengthIsBodys`: Content-Length is the body's. `ImplementsStore`: `WebDav` implements `DavStore`. `CtagTellsChanges`: a client whose ctag is current has the objects. `CapHolds`: the cap on objects is passed only by requests that overlap. `BanHolds`: a ban lasts, but for attempts under way and evictions. `StateNamesOneSnapshot`: a JMAP state names one set of ids, but for calls that overlap. |
| `admin` | `MCAdmin`, `Admin.cfg` | `CatchAllSparesMailboxes`: whatever the order of edits, a mailbox nobody redirects keeps its mail under its domain's catch-alls. `FilesFollowTables`: once all is quiet the services have loaded what the tables say, but for the interleavings and faults that `suspect` names. `SentCopiesKept`: copies outlive each other, and a name from an old page leads to the mail it was listed for or to none. `SessionsWithinCap`: the registry lists exactly the streams that poll, within the cap but for overlapping requests. `McpLimitHolds`: the limits hold in every window. |

Each passing run also checks the type invariants of its modules (`TypeOK`; in the two
composed runs `UserDataTypeOK` and `AdminTypeOK`).

Several of these properties hold with an exception that a history variable names
(`lost`, `unreported`, `abandoned`, `excused`, `overtaken`, `harmed`, `disturbed`, `silent`,
`raced`, `freed`, `muddled`, `suspect`, `overlapped`, `NamesClash`). Each was found by TLC as a counterexample to the property without it, is
a behaviour of the code, and is as narrow as TLC allows: the property says that nothing
else goes wrong.

### Bounds and why they are enough

- `log_tail`: a web writer beside the mail services, three texts, two inodes, both ways to
  rotate, one failed read. A web line without its line feed merged with a mail line, a line
  after a merged one, and a rotation or an error between any two of them all occur. Texts
  have numbers, so order is observable. (The proofs have any number of writers.)
- `fail2ban`: one offender, a configured service and one with no settings row (`web`
  stands for a service a database made from the embedded migrations lacks), threshold
  two, window and ban of two ticks, four ticks, two admin operations or faults, three
  attempts kept. Addresses do not interact: every table is keyed by address. Two
  operations suffice for whitelist-then-remove, blacklist-then-unban, a lost connection
  and its restart.
- `mail_filter`: two messages of one sender to one recipient, of which one is
  promotional, and one with an envelope the reinjection refuses; one rule of limit one;
  one fault. Two messages make counting concurrent; after one fault the properties about
  retries still meet a second and third attempt. `Increment` caps a count one above its
  limit, beyond which all counts decide alike.
- `rate_limit_retry`: two rules, of which the second is the one that stops the message;
  no fault is needed.
- `registration`: two requests, two names (one backs an inbox), two codes, one fault.
  All pairs of equal and different names and codes are initial states.
- `delete_account`: the smallest instance that has a used code.
- `send_quota`: three requests, limits 0 and 1, two days, one fault. One request in
  flight at midnight, one that fills the new day, and one that exceeds it.
- `login_guard`: one address (records are independent), three requests, two failures to
  a ban, window and ban of two ticks, six ticks. The window can end before, during
  and after a ban.
- `user_data`: three requests over two names of one owner, sizes 1 and 2 under a quota
  of 2 or none, one fault. Two uploads and a deletion of one name, or two uploads that
  fill the quota together, are the least that could break the quota, the token or the
  refinement. Collections: two spellings of one slug, two ids (a collection can be
  dropped and made again), a cap of one. Guard: three keys in a table of two, two
  attempts at once. JMAP: three calls, four states, two moves.
- `admin`: two domain names for one domain, two users, two aliases, one forwarding that
  keeps a copy or redirects, catch-alls typed in small letters and in capitals; two
  requests beside the boot's `genconfig`, one fault, so that two regenerations overlap a
  third commit. Two further bounds of the run alone are named in `MCAdmin`. `Bearing`:
  requests are on the topics whose rows the watched file's queries show, since a commit
  that changes no answer is a step that changes nothing watched. `Sheltered`: while
  `virtual_aliases` or `sender_login_maps` is watched, which show domains, accounts and
  addresses alike, no fault occurs (their faults are those of `passwd` and `vmailbox`).
  `FilesFollow` is proved without either. Webmail: one delivered mail and two sends of two lengths in two seconds,
  the least for names that clash or do not. Streams: three for a cap of one. MCP: three
  calls of one key under limits of two and one.

Bounds in the guards are named constants (`Max...`); each is commented as a bound
where it is declared. `CHECK_DEADLOCK FALSE` is set where the instance really
comes to an end (all requests answered, the clock's bound reached, the mutex held
for good).

### Fairness

- `LogTail`: weak fairness of the watcher thread, which loops for ever and retries an open
  that fails; of a writer that has opened the file; and of `RotateCreate`, since whatever
  removes a log makes another (logrotate's `create`, or the next writer).
- `MailFilter`: weak fairness of each process and of Postfix's retry of a queued
  message, and of time passing into a new window. Nothing is assumed of the
  database, the admin or the recipients.
- `Registration`: weak fairness of each request's thread once it can take the mutex,
  and of a `delete_account` that began; none of a client's leaving, whose request is over
  then.
- All other modules state safety only: their requests answer or fail, and nothing
  in the code retries them.

## 4. Proofs

| Theorem | Module | States |
|---|---|---|
| `TypeCorrect` | `Fail2banProofs` | `Spec => []TypeOK` |
| `StrayBanBound` | `Fail2banProofs` | `Spec => []AtMostOneStrayBan` |
| `BlacklistPermanent` | `Fail2banProofs` | `Spec => []BlacklistEnforced` |
| `SwitchHonoured` | `Fail2banProofs` | `Spec => StaleSwitchBounded` |
| `OffendersAreBanned` | `Fail2banProofs` | `Spec => []NoMissedBan` |
| `TailTypeCorrect` | `Fail2banProofs` | `TailSpec => []TailTypeOK` |
| `ReadsForward` | `Fail2banProofs` | `TailSpec => []HandledInOrder` |
| `TypeCorrect` | `SendQuotaProofs` | `Spec => []TypeOK` |
| `RefusalsAreDue` | `SendQuotaProofs` | `Spec => NoEarlyRefusal` |
| `LimitIsKept` | `SendQuotaProofs` | `Spec => []LimitHolds` |
| `TypeCorrect` | `LoginGuardProofs` | `Spec => []TypeOK` |
| `GuessesAreBounded` | `LoginGuardProofs` | `Spec => []GuessesBounded` |
| `BansAreHonoured` | `LoginGuardProofs` | `Spec => BanHonoured` |
| `BansAreEarned` | `LoginGuardProofs` | `Spec => []NoUnearnedBan` |
| `TypeCorrect` | `RegistrationProofs` | `Spec => []TypeOK` |
| `CodesBuyOnce` | `RegistrationProofs` | `Spec => []CodeBuysOneAccount` |
| `BurnsExplained` | `RegistrationProofs` | `Spec => []NoNeedlessBurn` |
| `TypeCorrect` | `MailFilterProofs` | `Spec => []TypeOK` |
| `NothingLost` | `MailFilterProofs` | `Spec => []NoSilentLoss` |
| `CopiesExplained` | `MailFilterProofs` | `Spec => []DuplicatesExplained` |
| `LimitsHold` | `MailFilterProofs` | `Spec => []RateLimitHolds` |
| `OptOutsHonoured` | `MailFilterProofs` | `Spec => UnsubscribeHonoured` |
| `TypeCorrect` | `WebDavProofs` | `Spec => []TypeOK` |
| `AcknowledgedKept` | `WebDavProofs` | `Spec => []AcknowledgedIsKept` |
| `LengthsAgree` | `WebDavProofs` | `Spec => []LengthIsBodys` |
| `QuotaKept` | `WebDavProofs` | `Spec => QuotaHolds` |
| `StoreImplemented` | `WebDavProofs` | `Spec => ImplementsStore` |
| `GuardTypeCorrect` | `UserDataProofs` | `GSpec => []GTypeOK` |
| `BansLast` | `UserDataProofs` | `GSpec => []BanHolds` |
| `JmapTypeCorrect` | `UserDataProofs` | `JSpec => []JTypeOK` |
| `StatesNameSnapshots` | `UserDataProofs` | `JSpec => []StateNamesOneSnapshot` |
| `CollectionTypeCorrect` | `UserDataProofs` | `CSpec => []CTypeOK` |
| `CtagsTell` | `UserDataProofs` | `CSpec => []CtagTellsChanges` |
| `CapsHold` | `UserDataProofs` | `CSpec => []CapHolds` |
| `PartsBehave` | `UserDataProofs` | `MCSpec => Spec /\ CSpec /\ GSpec /\ JSpec` |
| `UserDataTypeCorrect` | `UserDataProofs` | `MCSpec => []UserDataTypeOK` |
| `CapIsKept` | `AdminProofs` | `IdleInit /\ [][IdleNext]_idlevars => []SessionsWithinCap` |
| `WebmailTypeCorrect` | `AdminProofs` | `WebmailSpec => []WebmailTypeOK` |
| `CopiesAreKept` | `AdminProofs` | `WebmailSpec => []SentCopiesKept` |
| `McpTypeCorrect` | `AdminProofs` | `McpSpec => []McpTypeOK` |
| `McpLimitsHold` | `AdminProofs` | `McpSpec => []McpLimitHolds` |
| `TablesTypeCorrect` | `AdminProofs` | `TablesSpec => []TablesTypeOK` |
| `CatchAllHolds` | `AdminProofs` | `TablesSpec => []CatchAllSparesMailboxes` |
| `ConfigTypeCorrect` | `AdminProofs` | `ConfigSpec => []ConfigTypeOK` |
| `FilesFollow` | `AdminProofs` | `ConfigSpec => []FilesFollowTables` |
| `AdminTypeCorrect` | `AdminProofs` | `MCSpec => []AdminTypeOK` |
| `AdminHolds` | `AdminProofs` | `MCSpec => []`(the five safety properties of the run) |

Every invariant and every safety action property that a passing run checks is
stated by one of them. They hold for every value of the constants that satisfies the
assumption named in the component's module: any sets of addresses, services, settings,
requests, codes, messages, rules, keys, names, slugs, streams and calls, and any bounds.
An assumption says that numbers are natural numbers, that sentinels
(`"none"`, `NoKey`, `Nil`, `Inbox`) are no members of the sets they stand beside, and where
a bounded table or a count of objects is involved that the set counted is finite. Beyond
that: `MailTablesAssumption` has the values the code's own defaults write
among those a table may hold; `MCAdminAssumption` has the rows of `MCAdmin`'s initial
tables among the constants, and only `AdminTypeCorrect` and `AdminHolds` use it.

How the arguments go, component by component:

- **AtMostOneStrayBan** is not inductive: the next ban of a whitelisted address must be
  excluded. `StrayInv` adds that an address whose failure has passed the whitelist
  check has had no stray ban since, so once the failure in hand has banned it, the
  next failure is turned away at the whitelist.
- **BlacklistEnforced** needs only the key of the ban: the watcher bans the
  failure's own service, which is never `"all"` (`parse_log_line` reports none such), while
  the blacklist's row is the one for `"all"`.
- **StaleSwitchBounded**: `CacheInv` says that a cache that differs from the switch
  was filled no later than the last toggle, so its age bounds the age of the toggle.
- **NoMissedBan**: `MissInv` says that an address nobody excused is, on each service, below
  the threshold, or the failure in hand past its `RecordAttempt`, or covered by a ban
  that outlasts all its rows. The watcher's ban does so because the default duration is
  no shorter than the default window, and it may replace any ban without harm.
- **NoEarlyRefusal**: `QuotaInv` says that while the row carries a day, its count is no
  more than the sends charged to that day and not refunded (`CountBacked`). A refund
  lowers both or the count alone, and a date set back starts at 0. Needs the
  cardinality lemmas of `FiniteSetTheorems`.
- **LimitHolds**: `LimitInv` charges a day's sends to rounds. While the row carries the
  day, they are at most its count, plus a limit for each stale date and one for each
  stray refund; once the row has left today, which only a stale date can do, the count
  is no longer needed, so that a new round from 0 fits.
- **GuessesBounded**: `GuessInv` bounds the guesses of an address plus the requests
  under way for it; a request that arrives was let in by a record below the limit.
- **BanHonoured**: `BanInv` says that a ban's end is the one in its record, and that the
  record of a ban still running is there unless its address is in `loophole`.
- **RegistrationProofs**: `Unspent`: an unused code has bought nothing and is in nobody's
  hands. `Held`: of the requests about to create an account, one at most holds a code.
  `Checked`: with the connection alive, a name that was found free and is in the table
  now was taken by another request since.
- **SessionsWithinCap**: `RoomKept` says that unless two requests overlapped, one at most
  is between its check and its insertion, and the room it found is still there.

- **MailFilterProofs**: the inductive invariant joins to the types, `NoSilentLoss` and
  `DuplicatesExplained` four facts. `Suppression`: a message the filter suppresses had
  its recipient opt out during the attempt. `Unsent`: while a message is queued or a
  process works on it, all its copies but that of a process about to exit were accepted in
  sessions the filter saw fail, or by a process killed before its exit; so one more copy,
  the acknowledged one, is the most there can be. `Counted`: what a rule
  let through in its window was counted, and is within the limit. `Steady`: an attempt
  throughout which the opt-out stood can only end in suppression. Processes of different
  messages meet only in `counts`, whose upsert is one statement.
- **WebDavProofs**: `Exclusive`: one request at a time holds `QUOTA_LOCK`.
  `RowTokensOld`: a row's token is that of a request which is over, so a new one is
  fresh. `UploadTokens`: the token an upload writes under is no other name's. `Writes`:
  between truncation and upsert a name has no acknowledged content, and what was written
  is the upload's, or gone with a row deleted meanwhile. `Unlinks`: a file about to be
  removed belongs to no name that is not `harmed`. Together they carry
  `AcknowledgedIsKept`.
- **StoreImplemented** is the refinement: the initial states map to `StoreInit`, and
  under that invariant each action maps to `Begin` (taking the lock), `Change` of one
  name (truncation, bytes, upsert, removal of a row or of a file), `End`, or a stutter.
  That no step changes two names is what the uniqueness of tokens is for.

- **QuotaHolds** speaks of a sum, `MapThenSumSet`, which is defined by recursion over a
  set. `Cells(w, S)` counts it instead: the pairs of an element of `S` and a number up to
  its weight. `BytesCounted` shows the two equal for every finite set, and everything
  else is about cardinalities. `QuotaRoom` says that from the check of an
  upload until its upsert the owner's other rows leave room for it, unless it is `overtaken`;
  no other upload but an orphaned one can add to them while `QUOTA_LOCK` is held, and that
  one's upsert puts all it passes into `overtaken`; a deletion makes them fewer.
- **LengthIsBodys**: `RowSizes`: a row that is not being replaced gives its file's size.
  `DownloadKnows`: a download's token is no other name's, nothing writes under its name
  unless it is in `disturbed`, and until then the size it read is the file's.
  `BodiesWritten`: what is in a file or a body was written in full, by an upload whose
  size stays known.
- **HandledInOrder**: `TailInv` says that the numbers in each file and in the buffer
  increase, that what was handled comes before what is in the buffer, and both before what
  the open file has beyond the watcher's position, and that none is greater than the
  number of texts written, so that the next one may go anywhere. A truncation or a rename
  only takes away from that.
- **NoUnearnedBan**: `EarnedInv` says that a record's count is no more than the failures
  in the log within its window, each told by its tick and its number in the tick; a record
  with a ban has a count of `MAX_FAILURES` (`TypeOK`).
- **BanHolds**: `BansRecorded` says that a ban in force, unless freed, is the one in
  its key's record. A window that has run out starts a record afresh only when no ban is in
  force, and an eviction, or an attempt that was let through before the ban, marks the key as freed.
- **StateNamesOneSnapshot**: `MuddledUpwards` (a later state of a muddled one is
  muddled) and `CallsCurrent` (a call about to issue a state has read the row as it is, or
  what it issues is muddled).
- **CtagTellsChanges**, **CapHolds**: `CollInv`. Ids are given out once, so what a request
  or the client holds is no later collection's (`CollTypes`). A ctag is the mark of a
  request that is over, so none comes back (`TagsOld`). `Synced` is the property, and says
  besides that a change whose ctag can no longer be written over a lost connection is in
  `silent`. `Room`: a PUT past its count still has room, or replaces an object, unless
  the collection was touched behind it.
- **SentCopiesKept**: `NamesTell`: a name tells the mail, in the mailbox as on any page
  however old. An incoming mail's name is its own through every rename, and a copy's is the
  second and length it was written with, which is one mail's unless `NamesClash`.
- **McpLimitHolds**: `AccountsFor`: the calls let through in the last `Window` are matched
  one to one with entries of the guard's list (`Fits`), and so are its destructive times
  with its list of all times. What `evict_old` drops has left the window
  of every later call, so a list shorter than the limit leaves room in every window.
- **CatchAllSparesMailboxes** is a fact about the map `VirtualAliases` builds and holds
  of any rows whatever (`CatchAllSpares`): no order of edits is needed for it. What the
  edits have to keep is in `TablesTypeOK`: `Good(t)` has the types, keys and references of
  any tables, with a lemma for each statement of `db.rs` that it keeps them.
- **FilesFollowTables**: four facts about overlapping generations. `Fresh`: one
  that nothing has spoiled has yet to ask a query or has its answer of now. `Alone`: when it
  has truncated the file, no other has. `Current`: the file is as the tables say, or a
  generation is to come. `Loaded`: it is loaded, or a reload is to come. `Hands`
  says once what a handler's step does (commit good tables, hand its job on, spoil
  the generations that read), so each handler is shown to be such a step and only
  `Hands` is shown to keep the invariant.
- **Compositions**: `PartsBehave` shows that a behaviour of `MCUserData` is, in each
  component's variables, a behaviour of that component, so all theorems about them hold
  in the run. In `MCAdmin` one part is exercised at a time over shared modules;
  `PartsInv` says which invariant each part keeps while another is exercised, and
  `AdminHolds` that all the properties hold of the whole.

Where a proof needs an induction over numbers or finite sets, it takes the least element
of a set of counterexamples (`FirstRecent`, the smallest subset for which a sum and its
cells differ, by `WFMin`), since the induction theorems of the library take an operator
as parameter, which no installed prover can instantiate.

Only model-checked: the liveness properties `PendingIsHandled`, `EventuallySettled` and
`RegistrationAnswered`, which rest on fairness and `ENABLED` and are beyond the prover, and
the violations of section 7, which are counterexamples. Type
invariants of components inside a composed run are checked by TLC as conjuncts of
`UserDataTypeOK` and `AdminTypeOK`.

## 5. What the models assume

- Database statements are atomic and the mutex serialises methods; PostgreSQL does
  not lose committed rows. This is PostgreSQL's autocommit: outside the
  migrations the code opens no transaction.
- The generated files are independent: each is written from its own queries, and
  `reload_services` loads all of them.
- A deletion or a rename in a Maildir is one step, as the file system makes it.
- Clocks do not go back, and one clock serves rows, caches and windows.
- A text's pattern is decided when it is written: regular expressions are
  not modelled.
- A client's leaving is seen where the handler awaits; the thread of a call that was
  started runs to its end.
- Request threads do not panic, so the mutex is not poisoned (`conn` recovers
  from a poisoned mutex in any case).

## 6. Not modelled

- Rendering, logging, parsing of messages and forms, and the read-only pages.
- What the filter writes into a message (footer, pixel, Junk rewriting, DKIM stripping)
  and the rules that match it (`evaluate_rule`, `matches_from_pattern`): comparisons of
  text, which the models have as constants (`Matching`, `Promotional`).
- Configuration files written from templates alone, `postmap`, certificates, file modes.
- JMAP's methods that only read, GET of one DAV object, the XML of both DAV protocols.
- Parsers of DMARC reports and of `postqueue`, the quarantine's edits of its mailbox.
- The rate limit of registrations (`reg_rate_limited`), whose eviction follows a
  `HashMap`'s order.
- Webhooks: nothing reads their outcome back.
- Provisioning over SSH, certificates and migrations: sequences of external commands.

## 7. Disagreements between the code and its own words

1. `src/fail2ban.rs:281` promises to detect rotation by inode; line 309 compares the
   open descriptor with itself (`log_rotation`).
2. `src/filter.rs:115` promises that a retry is not counted again; the registry
   lives in a process that ends with the attempt (`rate_limit_retry`).
3. `src/db.rs:1365` promises to clean up invite codes; the call waits for the mutex its
   caller holds (`delete_account`).
4. `src/db.rs:2357` promises an error when the limit is reached; a date computed
   before the lock lets the row go back over midnight (`send_quota_midnight`).
5. `src/web/routes/api_email.rs:409` says a failed send must not consume quota; a
   message that cannot be built consumes it (`BuildMessage(r, FALSE)`).
6. `src/main.rs:102` says the filter must not run migrations; the function it uses
   runs them (`src/db.rs:788`).
7. `src/web/routes/fail2ban.rs:361` invites a CIDR range; `db.rs:2837` and `db.rs:2850`
   compare addresses for equality, so a range in a list matches no address.
8. `src/web/routes/webdav.rs:1003` and `jmap/mod.rs:133` write path parameters in the
   syntax of axum 0.8; with axum 0.7 (`Cargo.toml:11`) they are literal paths, and the
   FileLink URLs are not routed.
9. `src/web/routes/jmap/mailbox.rs:184` says the state is updated "if changed"; it is
   always.
10. `src/web/routes/webmail.rs:1651` says a session is removed when its client
    disconnects; it stays until
    a count changes.
11. `src/web/mod.rs:99` says keys are dropped so that they do not accumulate; only a key
    in use is looked at.
12. `src/config.rs:678` compares a catch-all's domain as it was typed: one typed with
    capitals takes the
    mail of real mailboxes (excepted in `CatchAllSparesMailboxes`).
13. `src/web/routes/webmail.rs:1559` names a copy in `.Sent` by second and length: two
    may have one name
    (`NamesClash`).
14. `src/entrypoint.sh:59` sends Postfix's log to `/var/log/mail.log`; every
    regeneration writes
    `maillog_file = /dev/stdout` (`src/config.rs:520`).
15. `src/web/routes/webdav.rs:655` says that concurrent uploads cannot exceed the quota; an
    upload whose client leaves during the upsert gives up the lock and commits all the
    same, beside one that was checked without it (excepted by `overtaken` in `QuotaHolds`).

## 8. What remains

1. `evaluate_rule`, `matches_from_pattern` and `build_sender_login_entries` as operators
   against reference definitions.
2. An abstract specification of the filter (each message is delivered at least once,
   suppressed or deleted) and its refinement.
3. The proofs of items 1 and 2.
