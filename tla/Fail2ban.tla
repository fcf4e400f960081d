------------------------------ MODULE Fail2ban ------------------------------
(***************************************************************************)
(* Fail2ban: the watcher thread that turns logged authentication failures  *)
(* into bans (src/fail2ban.rs), the admin handlers that edit bans, lists   *)
(* and settings (src/web/routes/fail2ban.rs), and the tables they share    *)
(* (src/db.rs).                                                            *)
(*                                                                         *)
(* Every Database method takes the one connection's mutex, so one method   *)
(* call is one atomic step; handle_auth_failure makes up to six calls and  *)
(* any admin handler may run between two of them.  The connection is never *)
(* re-opened: once PostgreSQL drops it, every later call fails, reads      *)
(* return their default and writes do nothing, until the server restarts.  *)
(*                                                                         *)
(* Time is counted in ticks; find_time, ban durations, ENABLED_CACHE_TTL,  *)
(* PURGE_INTERVAL and the retention of log rows are in the same unit.      *)
(***************************************************************************)
EXTENDS Integers, FiniteSets

CONSTANTS
    IPs,           \* addresses
    Services,      \* services parse_log_line reports
    Configured,    \* those with a row in fail2ban_settings
    Default,       \* the settings the migrations insert
    Settings,      \* settings an admin may save
    Durations,     \* durations an admin may give a manual ban
    CacheTTL,      \* ENABLED_CACHE_TTL
    PurgeInterval, \* PURGE_INTERVAL
    Retention,     \* age at which purge_expired_rows deletes a log row
    MaxTime,       \* bound: the clock stops here
    MaxRows,       \* bound: attempts kept per address and service
    MaxOps         \* bound: admin operations, lost connections and restarts

Setting == [max : Nat \ {0}, dur : Nat \ {0}, find : Nat \ {0}, enabled : BOOLEAN]

ASSUME Fail2banAssumption ==
    /\ "all" \notin Services            \* parse_log_line never reports "all"
    /\ Configured \subseteq Services
    /\ Default \in Setting
    /\ Default.dur >= Default.find      \* 60 >= 10 and 15 >= 15 minutes
    /\ Settings \subseteq Setting       \* update_setting refuses values below 1
    /\ Durations \subseteq Int          \* the ban form accepts any number
    /\ CacheTTL \in Nat /\ PurgeInterval \in Nat /\ Retention \in Nat
    /\ MaxTime \in Nat /\ MaxRows \in Nat /\ MaxOps \in Nat

BanServices == Services \cup {"all"}
Never == -1                             \* expires_at IS NULL; no purge yet
NoBan == [on |-> FALSE, permanent |-> FALSE, expires |-> Never]
Ban ==                                  \* a permanent ban has no expiry
    {NoBan} \cup [on : {TRUE}, permanent : {TRUE}, expires : {Never}]
            \cup [on : {TRUE}, permanent : {FALSE}, expires : Int]
Row == [at : Nat, rank : Nat]
AuthFailure == [ip : IPs, service : Services]
NoFailure == [ip |-> "none", service |-> "none"]
Steps == {"read", "whitelist", "banned", "setting", "record", "count", "ban"}

VARIABLES
    now,        \* the clock
    ops,        \* operations counted against MaxOps
    dbUp,       \* FALSE once the connection is lost
    \* Tables. attempts[<<ip, s>>] holds the 'attempt' rows of fail2ban_log, each
    \* its created_at and its rank in that tick; no decision reads other rows.
    whitelist, blacklist, banned, attempts, settings, enabled,
    \* The watcher thread: its next database call ("read" between two lines),
    \* the locals of handle_auth_failure, and those of tail_log_file.
    pc, fail, setting, count, cache, cacheAt, lastPurge,
    \* History, read by properties alone:
    toggledAt,  \* when an admin last changed fail2ban_enabled
    stray,      \* automatic bans an address got since it was whitelisted
    excused,    \* addresses whose ban an admin lifted or replaced, or for
                \* which a crash or a lost connection cut an update short
    retuned     \* an admin has changed a setting

tables == <<whitelist, blacklist, banned, attempts, settings, enabled>>
handling == <<pc, fail, setting, count>>
tailing == <<cache, cacheAt, lastPurge>>
history == <<toggledAt, stray, excused, retuned>>
vars == <<now, ops, dbUp, tables, handling, tailing, history>>

----------------------------------------------------------------------------
(* Database reads.  A failed query yields the default.                     *)

is_fail2ban_enabled == dbUp /\ enabled
BugWhitelistUnread(ip) == FALSE
is_ip_whitelisted(ip) == dbUp /\ ip \in whitelist

Active(b) == b.on /\ (b.permanent \/ b.expires > now)
is_ip_banned(ip) == dbUp /\ \E s \in BanServices : Active(banned[<<ip, s>>])

\* Rows with created_at > cutoff.
Recent(ip, service, minutes) ==
    {row \in attempts[<<ip, service>>] : row.at > now - minutes}

count_recent_attempts(ip, service, minutes) ==
    IF dbUp THEN Cardinality(Recent(ip, service, minutes)) ELSE 0

----------------------------------------------------------------------------
Init ==
    /\ now = 0
    /\ ops = 0
    /\ dbUp = TRUE
    /\ whitelist = {}
    /\ blacklist = {}
    /\ banned = [k \in IPs \X BanServices |-> NoBan]
    /\ attempts = [k \in IPs \X Services |-> {}]
    /\ settings = [s \in Configured |-> Default]
    /\ enabled \in BOOLEAN
    /\ pc = "read"
    /\ fail = NoFailure
    /\ setting = Default
    /\ count = 0
    /\ cache = enabled
    /\ cacheAt = 0
    /\ lastPurge = Never
    /\ toggledAt = 0
    /\ stray = [ip \in IPs |-> 0]
    /\ excused = {}
    /\ retuned = FALSE

----------------------------------------------------------------------------
(* tail_log_file.                                                          *)

BugStaleWhileBusy == FALSE
CacheExpired == now - cacheAt >= CacheTTL

\* A line holding failure f: the cached switch is refreshed when it is too old,
\* and decides whether the failure is looked at.
ReadFailure(f) ==
    /\ pc = "read"
    /\ Cardinality(attempts[<<f.ip, f.service>>]) < MaxRows
    /\ IF CacheExpired
         THEN cache' = is_fail2ban_enabled /\ cacheAt' = now
         ELSE UNCHANGED <<cache, cacheAt>>
    /\ IF cache'
         THEN pc' = "whitelist" /\ fail' = f
         ELSE UNCHANGED <<pc, fail>>
    /\ UNCHANGED <<now, ops, dbUp, tables, setting, count, lastPurge, history>>

PurgeDue == lastPurge = Never \/ now - lastPurge >= PurgeInterval

purge_expired_rows ==
    attempts' = IF dbUp
                  THEN [k \in DOMAIN attempts |->
                          {row \in attempts[k] : row.at >= now - Retention}]
                  ELSE attempts

\* No new line: refresh the switch, purge at most once per interval.
Idle ==
    /\ pc = "read"
    /\ CacheExpired \/ PurgeDue
    /\ IF CacheExpired
         THEN cache' = is_fail2ban_enabled /\ cacheAt' = now
         ELSE UNCHANGED <<cache, cacheAt>>
    /\ IF PurgeDue
         THEN purge_expired_rows /\ lastPurge' = now
         ELSE UNCHANGED <<attempts, lastPurge>>
    /\ UNCHANGED <<now, ops, dbUp, whitelist, blacklist, banned, settings, enabled,
                   handling, history>>

\* tail_log_file starts over on a re-opened log.
StartTail(up) ==
    /\ cache' = (up /\ enabled)
    /\ cacheAt' = now
    /\ lastPurge' = Never

ReopenLog ==
    /\ pc = "read"
    /\ StartTail(dbUp)
    /\ UNCHANGED <<now, ops, dbUp, tables, handling, history>>

----------------------------------------------------------------------------
(* handle_auth_failure, one database call per action.                      *)

Goto(step) == pc' = step /\ UNCHANGED <<fail, setting, count>>
Return == pc' = "read" /\ fail' = NoFailure /\ setting' = Default /\ count' = 0

CheckWhitelist ==
    /\ pc = "whitelist"
    /\ IF is_ip_whitelisted(fail.ip) THEN Return ELSE Goto("banned")
    /\ UNCHANGED <<now, ops, dbUp, tables, tailing, history>>

CheckBanned ==
    /\ pc = "banned"
    /\ IF is_ip_banned(fail.ip) THEN Return ELSE Goto("setting")
    /\ UNCHANGED <<now, ops, dbUp, tables, tailing, history>>

\* No row (or no connection), or a disabled service: nothing is recorded.
ReadSetting ==
    /\ pc = "setting"
    /\ IF dbUp /\ fail.service \in Configured /\ settings[fail.service].enabled
         THEN /\ setting' = settings[fail.service]
              /\ pc' = "record"
              /\ UNCHANGED <<fail, count>>
         ELSE Return
    /\ UNCHANGED <<now, ops, dbUp, tables, tailing, history>>

NewRow ==
    [at |-> now,
     rank |-> Cardinality({row \in attempts[<<fail.ip, fail.service>>] : row.at = now})]

RecordAttempt ==
    /\ pc = "record"
    /\ attempts' = IF dbUp
                     THEN [attempts EXCEPT ![<<fail.ip, fail.service>>] = @ \cup {NewRow}]
                     ELSE attempts
    /\ Goto("count")
    /\ UNCHANGED <<now, ops, dbUp, whitelist, blacklist, banned, settings, enabled,
                   tailing, history>>

BugMoreThanMax(n) == n > setting.max
ReachesThreshold(n) == n >= setting.max

CountAttempts ==
    /\ pc = "count"
    /\ LET n == count_recent_attempts(fail.ip, fail.service, setting.find)
       IN  IF ReachesThreshold(n)
             THEN pc' = "ban" /\ count' = n /\ UNCHANGED <<fail, setting>>
             ELSE Return
    /\ UNCHANGED <<now, ops, dbUp, tables, tailing, history>>

BugExpiresAnyway(minutes, permanent) == now + minutes
Expires(minutes, permanent) == IF permanent THEN Never ELSE now + minutes

\* INSERT ... ON CONFLICT (ip_address, service) DO UPDATE: replaces the row.
ban_ip(ip, service, minutes, permanent) ==
    banned' = [banned EXCEPT ![<<ip, service>>] =
                 [on |-> TRUE, permanent |-> permanent,
                  expires |-> Expires(minutes, permanent)]]

BugBanAll == "all"
BannedService == fail.service

BanOffender ==
    /\ pc = "ban"
    /\ IF dbUp
         THEN /\ ban_ip(fail.ip, BannedService, setting.dur, FALSE)
              /\ stray' = [stray EXCEPT ![fail.ip] =
                             IF fail.ip \in whitelist THEN @ + 1 ELSE @]
         ELSE UNCHANGED <<banned, stray>>
    /\ Return
    /\ UNCHANGED <<now, ops, dbUp, whitelist, blacklist, attempts, settings, enabled,
                   tailing, toggledAt, excused, retuned>>

----------------------------------------------------------------------------
(* The admin handlers.  With the connection lost they change nothing.      *)

\* The address whose recorded attempt the watcher has yet to act on.
Undecided == IF pc \in {"count", "ban"} THEN {fail.ip} ELSE {}

\* What is counted against MaxOps.
Counted == ops < MaxOps /\ ops' = ops + 1

ToggleSystem(on) ==
    /\ Counted
    /\ dbUp
    /\ enabled' = on
    /\ toggledAt' = now
    /\ UNCHANGED <<now, dbUp, whitelist, blacklist, banned, attempts, settings,
                   handling, tailing, stray, excused, retuned>>

UpdateSetting(service, s) ==
    /\ Counted
    /\ dbUp
    /\ settings' = [settings EXCEPT ![service] = s]
    /\ retuned' = TRUE
    /\ UNCHANGED <<now, dbUp, whitelist, blacklist, banned, attempts, enabled,
                   handling, tailing, toggledAt, stray, excused>>

BanIp(ip, service, minutes, permanent) ==
    /\ Counted
    /\ dbUp
    /\ ban_ip(ip, service, minutes, permanent)
    /\ excused' = excused \cup {ip}
    /\ UNCHANGED <<now, dbUp, whitelist, blacklist, attempts, settings, enabled,
                   handling, tailing, toggledAt, stray, retuned>>

UnbanIp(ip, service) ==
    /\ Counted
    /\ dbUp
    /\ banned[<<ip, service>>].on
    /\ banned' = [banned EXCEPT ![<<ip, service>>] = NoBan]
    /\ excused' = excused \cup {ip}
    /\ UNCHANGED <<now, dbUp, whitelist, blacklist, attempts, settings, enabled,
                   handling, tailing, toggledAt, stray, retuned>>

\* Two statements, list the address and delete its bans; the connection may be
\* lost between them.
AddWhitelist(ip, cut) ==
    /\ Counted
    /\ dbUp
    /\ whitelist' = whitelist \cup {ip}
    /\ banned' = IF cut THEN banned
                 ELSE [k \in DOMAIN banned |-> IF k[1] = ip THEN NoBan ELSE banned[k]]
    /\ dbUp' = ~cut
    /\ stray' = IF ip \in whitelist THEN stray ELSE [stray EXCEPT ![ip] = 0]
    /\ excused' = excused \cup {ip} \cup (IF cut THEN Undecided ELSE {})
    /\ UNCHANGED <<now, blacklist, attempts, settings, enabled, handling, tailing,
                   toggledAt, retuned>>

\* The bans that whitelisting lifted do not come back.
RemoveWhitelist(ip) ==
    /\ Counted
    /\ dbUp
    /\ ip \in whitelist
    /\ whitelist' = whitelist \ {ip}
    /\ UNCHANGED <<now, dbUp, blacklist, banned, attempts, settings, enabled,
                   handling, tailing, history>>

\* Two statements, list the address and ban it for good from every service.
AddBlacklist(ip, cut) ==
    /\ Counted
    /\ dbUp
    /\ blacklist' = blacklist \cup {ip}
    /\ IF cut
         THEN UNCHANGED banned /\ excused' = excused \cup {ip} \cup Undecided
         ELSE ban_ip(ip, "all", 0, TRUE) /\ excused' = excused \ {ip}
    /\ dbUp' = ~cut
    /\ UNCHANGED <<now, whitelist, attempts, settings, enabled, handling, tailing,
                   toggledAt, stray, retuned>>

\* The permanent ban stays until it is lifted by hand.
RemoveBlacklist(ip) ==
    /\ Counted
    /\ dbUp
    /\ ip \in blacklist
    /\ blacklist' = blacklist \ {ip}
    /\ UNCHANGED <<now, dbUp, whitelist, banned, attempts, settings, enabled,
                   handling, tailing, history>>

----------------------------------------------------------------------------
(* The environment: the clock, PostgreSQL, and the server process.         *)

Tick ==
    /\ now < MaxTime
    /\ now' = now + 1
    /\ UNCHANGED <<ops, dbUp, tables, handling, tailing, history>>

LoseConnection ==
    /\ Counted
    /\ dbUp
    /\ dbUp' = FALSE
    /\ excused' = excused \cup Undecided
    /\ UNCHANGED <<now, tables, handling, tailing, toggledAt, stray, retuned>>

\* main.rs opens the database again and starts a new watcher.
Restart ==
    /\ Counted
    /\ dbUp' = TRUE
    /\ StartTail(TRUE)
    /\ Return
    /\ excused' = excused \cup Undecided
    /\ UNCHANGED <<now, tables, toggledAt, stray, retuned>>

----------------------------------------------------------------------------
Watcher ==
    \/ \E f \in AuthFailure : ReadFailure(f)
    \/ Idle \/ ReopenLog
    \/ CheckWhitelist \/ CheckBanned \/ ReadSetting
    \/ RecordAttempt \/ CountAttempts \/ BanOffender

Admin ==
    \/ \E on \in BOOLEAN : ToggleSystem(on)
    \/ \E service \in Configured, s \in Settings : UpdateSetting(service, s)
    \/ \E ip \in IPs :
          \/ \E service \in BanServices :
                \/ UnbanIp(ip, service)
                \/ \E d \in Durations, p \in BOOLEAN : BanIp(ip, service, d, p)
          \/ \E cut \in BOOLEAN : AddWhitelist(ip, cut) \/ AddBlacklist(ip, cut)
          \/ RemoveWhitelist(ip)
          \/ RemoveBlacklist(ip)

Next == Watcher \/ Admin \/ Tick \/ LoseConnection \/ Restart

Spec == Init /\ [][Next]_vars

----------------------------------------------------------------------------
(* Properties.                                                             *)

\* The state has its type.
TypeOK ==
    /\ now \in Nat
    /\ ops \in 0..MaxOps
    /\ dbUp \in BOOLEAN
    /\ whitelist \subseteq IPs
    /\ blacklist \subseteq IPs
    /\ banned \in [IPs \X BanServices -> Ban]
    /\ attempts \in [IPs \X Services -> SUBSET Row]
    /\ \A k \in IPs \X Services : IsFiniteSet(attempts[k])
    /\ settings \in [Configured -> Setting]
    /\ enabled \in BOOLEAN
    /\ pc \in Steps
    /\ IF pc = "read" THEN fail = NoFailure ELSE fail \in AuthFailure
    /\ setting \in Setting
    /\ count \in Nat
    /\ cache \in BOOLEAN
    /\ cacheAt \in Nat
    /\ lastPurge \in Nat \cup {Never}
    /\ toggledAt \in Nat
    /\ stray \in [IPs -> Nat]
    /\ excused \subseteq IPs
    /\ retuned \in BOOLEAN

\* handle_auth_failure misses no offender: between two lines, an address whose
\* recent attempts on a service reach max_attempts is banned, unless an admin
\* lifted its ban or changed the thresholds, or a crash or a lost connection
\* came between the attempt and the decision.
NoMissedBan ==
    pc = "read" /\ ~retuned =>
        \A ip \in IPs \ excused, s \in Configured :
            Cardinality(Recent(ip, s, Default.find)) >= Default.max =>
                \E b \in BanServices : Active(banned[<<ip, b>>])

\* handle_auth_failure checks the whitelist once, before its other calls, so an
\* address can still be banned after it is whitelisted; but only by the failure
\* being handled at that moment, so at most once per whitelisting.
AtMostOneStrayBan == \A ip \in whitelist : stray[ip] <= 1

\* A blacklisted address stays banned for good, whatever the watcher does
\* meanwhile: its temporary bans never replace the row add_to_blacklist wrote.
\* Only an admin who lifts or replaces the ban, or a connection lost inside
\* add_to_blacklist, makes an exception.
BlacklistEnforced ==
    \A ip \in blacklist \ excused : banned[<<ip, "all">>].on /\ banned[<<ip, "all">>].permanent

\* The watcher acts on a cached copy of the global switch; it takes up a failure
\* with the system switched off only within ENABLED_CACHE_TTL of the switch.
StaleSwitchBounded ==
    [][pc = "read" /\ pc' = "whitelist" =>
          enabled \/ now - toggledAt < CacheTTL]_vars
=============================================================================
