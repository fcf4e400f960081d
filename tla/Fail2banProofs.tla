--------------------------- MODULE Fail2banProofs ---------------------------
(***************************************************************************)
(* Proofs about Fail2ban for every value of its constants: its type        *)
(* invariant, the bound on automatic bans of a whitelisted address, the    *)
(* permanence of blacklist bans, the staleness of the cached switch, and   *)
(* that no offender is missed.                                             *)
(***************************************************************************)
EXTENDS Fail2ban, LogTail, FiniteSetTheorems, SequenceTheorems, WellFoundedInduction, TLAPS

USE DEF Never

----------------------------------------------------------------------------
(* Lemmas about the tables.                                                *)

\* The rows counted or kept of an address and service are finitely many, so
\* counting them yields a natural number.
LEMMA CountedRows ==
    ASSUME NEW S, IsFiniteSet(S), NEW P, P \in SUBSET S
    PROVE  IsFiniteSet(P) /\ Cardinality(P) \in Nat
<1>1. IsFiniteSet(P)
    BY FS_Subset
<1> QED
    BY <1>1, FS_CardinalityType

\* What ban_ip writes is a ban.
LEMMA BanType ==
    ASSUME NEW minutes \in Int, NEW permanent \in BOOLEAN, now \in Nat
    PROVE  [on |-> TRUE, permanent |-> permanent,
            expires |-> Expires(minutes, permanent)] \in Ban
<1>1. CASE permanent
    BY <1>1 DEF Ban, Expires
<1>2. CASE ~permanent
    <2>1. now + minutes \in Int
        OBVIOUS
    <2> QED
        BY <1>2, <2>1 DEF Ban, Expires
<1> QED
    BY <1>1, <1>2

\* The initial settings, attempts and bans have their types.
LEMMA InitTypeOK == Init => TypeOK
<1> SUFFICES ASSUME Init PROVE TypeOK
    OBVIOUS
<1> USE Fail2banAssumption DEF Init
<1>1. banned \in [IPs \X BanServices -> Ban]
    BY DEF Ban, NoBan
<1>2. attempts \in [IPs \X Services -> SUBSET Row]
    OBVIOUS
<1>3. \A k \in IPs \X Services : IsFiniteSet(attempts[k])
    BY FS_EmptySet
<1>4. QED
    <2>1. ops \in 0..MaxOps /\ settings \in [Configured -> Setting]
        OBVIOUS
    <2>2. /\ lastPurge \in Nat \cup {Never}
          /\ cacheAt \in Nat /\ toggledAt \in Nat /\ now \in Nat /\ count \in Nat
        OBVIOUS
    <2>3. stray \in [IPs -> Nat] /\ excused \subseteq IPs /\ setting \in Setting
        OBVIOUS
    <2> QED
        BY <1>1, <1>2, <1>3, <2>1, <2>2, <2>3 DEF TypeOK, Steps

----------------------------------------------------------------------------
(* Type correctness.                                                       *)

LEMMA WatcherTypeOK == TypeOK /\ Watcher => TypeOK'
<1> SUFFICES ASSUME TypeOK, Watcher PROVE TypeOK'
    OBVIOUS
<1> USE Fail2banAssumption
<1>1. ASSUME NEW f \in AuthFailure, ReadFailure(f) PROVE TypeOK'
    BY <1>1 DEF TypeOK, ReadFailure, is_fail2ban_enabled, tables, history, Steps
<1>2. CASE Idle
    <2>1. /\ attempts' \in [IPs \X Services -> SUBSET Row]
          /\ \A k \in IPs \X Services : attempts'[k] \in SUBSET attempts[k]
        BY <1>2 DEF Idle, purge_expired_rows, TypeOK
    <2>2. \A k \in IPs \X Services : IsFiniteSet(attempts'[k])
        BY <2>1, CountedRows DEF TypeOK
    <2> QED
        BY <1>2, <2>1, <2>2
        DEF TypeOK, Idle, is_fail2ban_enabled, handling, history, Steps
<1>3. CASE ReopenLog
    BY <1>3 DEF TypeOK, ReopenLog, StartTail, tables, handling, history
<1>4. CASE CheckWhitelist
    BY <1>4 DEF TypeOK, CheckWhitelist, Return, Goto, tables, tailing, history,
                Steps
<1>5. CASE CheckBanned
    BY <1>5 DEF TypeOK, CheckBanned, Return, Goto, tables, tailing, history,
                Steps
<1>6. CASE ReadSetting
    BY <1>6 DEF TypeOK, ReadSetting, Return, tables, tailing, history, Steps
<1>7. CASE RecordAttempt
    <2> DEFINE k0 == <<fail.ip, fail.service>>
    <2>1. k0 \in IPs \X Services /\ fail \in AuthFailure
        BY <1>7 DEF RecordAttempt, TypeOK, AuthFailure
    <2>2. IsFiniteSet(attempts[k0]) /\ attempts[k0] \in SUBSET Row
        BY <2>1 DEF TypeOK
    <2>3. NewRow \in Row
        BY <2>2, CountedRows DEF NewRow, Row, TypeOK
    <2>4. IsFiniteSet(attempts[k0] \cup {NewRow})
        BY <2>2, FS_AddElement
    <2>5. /\ attempts' \in [IPs \X Services -> SUBSET Row]
          /\ \A k \in IPs \X Services : IsFiniteSet(attempts'[k])
        BY <1>7, <2>1, <2>2, <2>3, <2>4 DEF RecordAttempt, TypeOK
    <2> QED
        BY <1>7, <2>1, <2>5 DEF TypeOK, RecordAttempt, Goto, tailing, history, Steps
<1>8. CASE CountAttempts
    <2>1. fail \in AuthFailure /\ <<fail.ip, fail.service>> \in IPs \X Services
        BY <1>8 DEF CountAttempts, TypeOK, AuthFailure
    <2>2. count_recent_attempts(fail.ip, fail.service, setting.find) \in Nat
        BY <2>1, CountedRows DEF count_recent_attempts, Recent, TypeOK
    <2> QED
        BY <1>8, <2>1, <2>2
        DEF TypeOK, CountAttempts, Return, tables, tailing, history, Steps
<1>9. CASE BanOffender
    <2>1. fail \in AuthFailure /\ fail.ip \in IPs /\ fail.service \in Services
        BY <1>9 DEF BanOffender, TypeOK, AuthFailure
    <2>2. setting.dur \in Int
        BY DEF TypeOK, Setting
    <2>3. banned' \in [IPs \X BanServices -> Ban]
        BY <1>9, <2>1, <2>2, BanType
        DEF BanOffender, ban_ip, BannedService, BanServices, TypeOK
    <2>4. stray' \in [IPs -> Nat]
        <3>1. [stray EXCEPT ![fail.ip] =
                 IF fail.ip \in whitelist THEN @ + 1 ELSE @] \in [IPs -> Nat]
            BY <2>1 DEF TypeOK
        <3> QED
            BY <1>9, <3>1 DEF BanOffender, TypeOK
    <2> QED
        BY <1>9, <2>3, <2>4 DEF TypeOK, BanOffender, Return, tailing, Steps
<1> QED
    BY <1>1, <1>2, <1>3, <1>4, <1>5, <1>6, <1>7, <1>8, <1>9 DEF Watcher

LEMMA AdminTypeOK == TypeOK /\ Admin => TypeOK'
<1> SUFFICES ASSUME TypeOK, Admin PROVE TypeOK'
    OBVIOUS
<1> USE Fail2banAssumption
<1>0. TypeOK => Undecided \subseteq IPs
    BY DEF TypeOK, Undecided, AuthFailure
<1>1. ASSUME NEW on \in BOOLEAN, ToggleSystem(on) PROVE TypeOK'
    BY <1>1 DEF TypeOK, ToggleSystem, Counted, handling, tailing
<1>2. ASSUME NEW service \in Configured, NEW s \in Settings, UpdateSetting(service, s)
      PROVE  TypeOK'
    BY <1>2 DEF TypeOK, UpdateSetting, Counted, handling, tailing
<1>3. ASSUME NEW ip \in IPs, NEW service \in BanServices, UnbanIp(ip, service)
      PROVE  TypeOK'
    <2>1. banned' \in [IPs \X BanServices -> Ban]
        BY <1>3 DEF UnbanIp, TypeOK, Ban
    <2>2. excused' \subseteq IPs
        BY <1>3 DEF UnbanIp, TypeOK
    <2>3. ops' \in 0..MaxOps
        BY <1>3 DEF UnbanIp, Counted, TypeOK
    <2> QED
        BY <1>3, <2>1, <2>2, <2>3 DEF TypeOK, UnbanIp, handling, tailing
<1>4. ASSUME NEW ip \in IPs, NEW service \in BanServices, NEW d \in Durations,
             NEW p \in BOOLEAN, BanIp(ip, service, d, p)
      PROVE  TypeOK'
    <2>1. banned' \in [IPs \X BanServices -> Ban]
        BY <1>4, BanType DEF BanIp, ban_ip, TypeOK
    <2> QED
        BY <1>4, <2>1 DEF TypeOK, BanIp, Counted, handling, tailing
<1>5. ASSUME NEW ip \in IPs, NEW cut \in BOOLEAN, AddWhitelist(ip, cut) PROVE TypeOK'
    <2>1. banned' \in [IPs \X BanServices -> Ban]
        BY <1>5 DEF AddWhitelist, TypeOK, Ban
    <2> QED
        BY <1>0, <1>5, <2>1 DEF TypeOK, AddWhitelist, Counted, handling, tailing
<1>6. ASSUME NEW ip \in IPs, NEW cut \in BOOLEAN, AddBlacklist(ip, cut) PROVE TypeOK'
    <2>1. banned' \in [IPs \X BanServices -> Ban]
        <3>1. CASE cut
            BY <1>6, <3>1 DEF AddBlacklist, TypeOK
        <3>2. CASE ~cut
            <4>1. [on |-> TRUE, permanent |-> TRUE, expires |-> Expires(0, TRUE)] \in Ban
                BY DEF Ban, Expires
            <4> QED
                BY <1>6, <3>2, <4>1 DEF AddBlacklist, ban_ip, TypeOK, BanServices
        <3> QED
            BY <3>1, <3>2
    <2>2. excused' \subseteq IPs
        BY <1>0, <1>6 DEF AddBlacklist, TypeOK
    <2>3. dbUp' \in BOOLEAN /\ ops' \in 0..MaxOps /\ blacklist' \subseteq IPs
        BY <1>6 DEF AddBlacklist, Counted, TypeOK
    <2> QED
        BY <1>6, <2>1, <2>2, <2>3 DEF TypeOK, AddBlacklist, handling, tailing
<1>7. ASSUME NEW ip \in IPs, RemoveWhitelist(ip) PROVE TypeOK'
    BY <1>7 DEF TypeOK, RemoveWhitelist, Counted, handling, tailing, history
<1>8. ASSUME NEW ip \in IPs, RemoveBlacklist(ip) PROVE TypeOK'
    BY <1>8 DEF TypeOK, RemoveBlacklist, Counted, handling, tailing, history
<1> QED
    BY <1>1, <1>2, <1>3, <1>4, <1>5, <1>6, <1>7, <1>8 DEF Admin

LEMMA NextTypeOK == TypeOK /\ [Next]_vars => TypeOK'
<1> SUFFICES ASSUME TypeOK, [Next]_vars PROVE TypeOK'
    OBVIOUS
<1> USE Fail2banAssumption
<1>1. Undecided \subseteq IPs
    BY DEF TypeOK, Undecided, AuthFailure
<1>2. CASE Tick
    BY <1>2 DEF TypeOK, Tick, tables, handling, tailing, history
<1>3. CASE LoseConnection
    <2>1. excused' \subseteq IPs
        BY <1>1, <1>3 DEF LoseConnection, TypeOK
    <2>2. ops' \in 0..MaxOps
        BY <1>3 DEF LoseConnection, Counted, TypeOK
    <2>3. dbUp' \in BOOLEAN
        BY <1>3 DEF LoseConnection
    <2> QED
        BY <1>3, <2>1, <2>2, <2>3
        DEF TypeOK, LoseConnection, tables, handling, tailing
<1>4. CASE Restart
    BY <1>1, <1>4 DEF TypeOK, Restart, StartTail, Return, Counted, tables, Steps
<1>5. CASE UNCHANGED vars
    BY <1>5 DEF TypeOK, vars, tables, handling, tailing, history
<1> QED
    BY <1>2, <1>3, <1>4, <1>5, WatcherTypeOK, AdminTypeOK DEF Next

\* Every reachable state has its type: in particular every ban the watcher or
\* an admin stores is a permanent one without expiry or one with an expiry.
THEOREM TypeCorrect == Spec => []TypeOK
<1>1. Init => TypeOK
    BY InitTypeOK
<1>2. TypeOK /\ [Next]_vars => TypeOK'
    BY NextTypeOK
<1> QED
    BY <1>1, <1>2, PTL DEF Spec

----------------------------------------------------------------------------
(* The one stray ban.  A failure that got past the whitelist check with the *)
(* connection up was not whitelisted then, so if its address is whitelisted *)
(* now, that happened since, and no stray ban has been counted yet.         *)

PastWhitelist == pc \in {"banned", "setting", "record", "count", "ban"}

StrayInv ==
    /\ TypeOK
    /\ AtMostOneStrayBan
    /\ PastWhitelist /\ dbUp /\ fail.ip \in whitelist => stray[fail.ip] = 0

LEMMA StrayStep == StrayInv /\ [Next]_vars => StrayInv'
<1> SUFFICES ASSUME StrayInv, [Next]_vars PROVE StrayInv'
    OBVIOUS
<1>1. TypeOK'
    BY NextTypeOK DEF StrayInv
<1> USE DEF StrayInv, AtMostOneStrayBan, PastWhitelist
<1>2. ASSUME NEW f \in AuthFailure, ReadFailure(f) PROVE StrayInv'
    BY <1>1, <1>2 DEF ReadFailure, tables, history
<1>3. CASE Idle \/ ReopenLog
    BY <1>1, <1>3 DEF Idle, ReopenLog, handling, tables, history
<1>4. CASE CheckWhitelist
    BY <1>1, <1>4
    DEF CheckWhitelist, is_ip_whitelisted, Return, Goto, tables, history
<1>5. CASE CheckBanned \/ ReadSetting \/ RecordAttempt \/ CountAttempts
    BY <1>1, <1>5
    DEF CheckBanned, ReadSetting, RecordAttempt, CountAttempts, Return, Goto,
        tables, history
<1>6. CASE BanOffender
    <2>1. pc = "ban" /\ pc' = "read" /\ whitelist' = whitelist
        BY <1>6 DEF BanOffender, Return
    <2>2. fail.ip \in IPs
        BY <2>1 DEF TypeOK, AuthFailure
    <2>3. CASE dbUp
        <3>1. stray' = [stray EXCEPT ![fail.ip] =
                          IF fail.ip \in whitelist THEN @ + 1 ELSE @]
            BY <1>6, <2>3 DEF BanOffender
        <3>2. \A ip \in whitelist' : stray'[ip] <= 1
            BY <2>1, <2>2, <2>3, <3>1 DEF TypeOK
        <3> QED
            BY <1>1, <2>1, <3>2
    <2>4. CASE ~dbUp
        BY <1>1, <1>6, <2>1, <2>4 DEF BanOffender
    <2> QED
        BY <2>3, <2>4
<1>7. ASSUME NEW ip \in IPs, NEW cut \in BOOLEAN, AddWhitelist(ip, cut)
      PROVE  StrayInv'
    <2>1. /\ whitelist' = whitelist \cup {ip}
          /\ stray' = IF ip \in whitelist THEN stray ELSE [stray EXCEPT ![ip] = 0]
          /\ pc' = pc /\ fail' = fail /\ dbUp
        BY <1>7 DEF AddWhitelist, handling
    <2> QED
        BY <1>1, <2>1 DEF TypeOK
<1>8. ASSUME NEW ip \in IPs, RemoveWhitelist(ip) PROVE StrayInv'
    BY <1>1, <1>8 DEF RemoveWhitelist, handling, history
<1>9. ASSUME NEW ip \in IPs, NEW cut \in BOOLEAN, AddBlacklist(ip, cut)
      PROVE  StrayInv'
    BY <1>1, <1>9 DEF AddBlacklist, handling
<1>10. ASSUME NEW ip \in IPs, RemoveBlacklist(ip) PROVE StrayInv'
    BY <1>1, <1>10 DEF RemoveBlacklist, handling, history
<1>11. ASSUME NEW ip \in IPs, NEW service \in BanServices,
              UnbanIp(ip, service)
       PROVE  StrayInv'
    BY <1>1, <1>11 DEF UnbanIp, handling
<1>12. ASSUME NEW ip \in IPs, NEW service \in BanServices, NEW d \in Durations,
              NEW p \in BOOLEAN, BanIp(ip, service, d, p)
       PROVE  StrayInv'
    BY <1>1, <1>12 DEF BanIp, handling
<1>13. ASSUME NEW on \in BOOLEAN, ToggleSystem(on) PROVE StrayInv'
    BY <1>1, <1>13 DEF ToggleSystem, handling
<1>14. ASSUME NEW service \in Configured, NEW s \in Settings,
              UpdateSetting(service, s)
       PROVE  StrayInv'
    BY <1>1, <1>14 DEF UpdateSetting, handling
<1>15. CASE Tick
    BY <1>1, <1>15 DEF Tick, tables, handling, history
<1>16. CASE LoseConnection
    BY <1>1, <1>16 DEF LoseConnection, tables, handling
<1>17. CASE Restart
    BY <1>1, <1>17 DEF Restart, Return, tables
<1>18. CASE UNCHANGED vars
    BY <1>1, <1>18 DEF vars, tables, handling, history
<1> QED
    BY <1>2, <1>3, <1>4, <1>5, <1>6, <1>7, <1>8, <1>9, <1>10, <1>11, <1>12,
       <1>13, <1>14, <1>15, <1>16, <1>17, <1>18 DEF Next, Watcher, Admin

\* An address gets at most one automatic ban after it is whitelisted, however
\* the watcher, the admins, lost connections and restarts interleave.
THEOREM StrayBanBound == Spec => []AtMostOneStrayBan
<1>1. Init => StrayInv
    BY InitTypeOK DEF Init, StrayInv, AtMostOneStrayBan, PastWhitelist
<1>2. StrayInv /\ [Next]_vars => StrayInv'
    BY StrayStep
<1>3. StrayInv => AtMostOneStrayBan
    BY DEF StrayInv
<1> QED
    BY <1>1, <1>2, <1>3, PTL DEF Spec

----------------------------------------------------------------------------
(* Blacklisted addresses.  The property is inductive together with the     *)
(* types: the watcher only writes rows of a service it reports, and "all"  *)
(* is not one of them.                                                     *)

LEMMA BlacklistStep ==
    TypeOK /\ BlacklistEnforced /\ [Next]_vars => BlacklistEnforced'
<1> SUFFICES ASSUME TypeOK, BlacklistEnforced, [Next]_vars
             PROVE  BlacklistEnforced'
    OBVIOUS
<1> USE DEF BlacklistEnforced
<1>1. ASSUME UNCHANGED <<blacklist, banned, excused>> PROVE BlacklistEnforced'
    BY <1>1
<1>2. CASE BanOffender
    <2>1. fail.ip \in IPs /\ fail.service \in Services
        BY <1>2 DEF BanOffender, TypeOK, AuthFailure
    <2>2. \A ip \in IPs : banned'[<<ip, "all">>] = banned[<<ip, "all">>]
        BY <1>2, <2>1, Fail2banAssumption
        DEF BanOffender, ban_ip, BannedService, TypeOK, BanServices
    <2> QED
        BY <1>2, <2>2 DEF BanOffender, TypeOK
<1>3. ASSUME NEW ip \in IPs, NEW cut \in BOOLEAN, AddBlacklist(ip, cut)
      PROVE  BlacklistEnforced'
    <2>1. blacklist' = blacklist \cup {ip}
        BY <1>3 DEF AddBlacklist
    <2>2. CASE cut
        BY <1>3, <2>1, <2>2 DEF AddBlacklist
    <2>3. CASE ~cut
        <3>1. /\ excused' = excused \ {ip}
              /\ banned' = [banned EXCEPT ![<<ip, "all">>] =
                              [on |-> TRUE, permanent |-> TRUE,
                               expires |-> Expires(0, TRUE)]]
            BY <1>3, <2>3 DEF AddBlacklist, ban_ip
        <3>2. \A a \in IPs \ {ip} : banned'[<<a, "all">>] = banned[<<a, "all">>]
            BY <3>1 DEF TypeOK, BanServices
        <3>3. banned'[<<ip, "all">>].on /\ banned'[<<ip, "all">>].permanent
            BY <3>1 DEF TypeOK, BanServices
        <3> QED
            BY <2>1, <3>1, <3>2, <3>3 DEF TypeOK
    <2> QED
        BY <2>2, <2>3
<1>4. ASSUME NEW ip \in IPs, NEW cut \in BOOLEAN, AddWhitelist(ip, cut)
      PROVE  BlacklistEnforced'
    <2>1. \A a \in IPs \ {ip} : banned'[<<a, "all">>] = banned[<<a, "all">>]
        BY <1>4 DEF AddWhitelist, TypeOK, BanServices
    <2> QED
        BY <1>4, <2>1 DEF AddWhitelist, TypeOK
<1>5. ASSUME NEW ip \in IPs, RemoveBlacklist(ip) PROVE BlacklistEnforced'
    BY <1>5 DEF RemoveBlacklist, history
<1>6. ASSUME NEW ip \in IPs, NEW service \in BanServices,
             UnbanIp(ip, service)
      PROVE  BlacklistEnforced'
    <2>1. \A a \in IPs \ {ip} : banned'[<<a, "all">>] = banned[<<a, "all">>]
        BY <1>6 DEF UnbanIp, TypeOK, BanServices
    <2> QED
        BY <1>6, <2>1 DEF UnbanIp, TypeOK
<1>7. ASSUME NEW ip \in IPs, NEW service \in BanServices, NEW d \in Durations,
             NEW p \in BOOLEAN, BanIp(ip, service, d, p)
      PROVE  BlacklistEnforced'
    <2>1. \A a \in IPs \ {ip} : banned'[<<a, "all">>] = banned[<<a, "all">>]
        BY <1>7 DEF BanIp, ban_ip, TypeOK, BanServices
    <2> QED
        BY <1>7, <2>1 DEF BanIp, TypeOK
<1>8. CASE LoseConnection
    BY <1>8 DEF LoseConnection, tables
<1>9. CASE Restart
    BY <1>9 DEF Restart, tables
<1>10. ASSUME NEW f \in AuthFailure, ReadFailure(f) PROVE BlacklistEnforced'
    BY <1>1, <1>10 DEF ReadFailure, tables, history
<1>11. CASE Idle \/ ReopenLog \/ Tick
    BY <1>1, <1>11 DEF Idle, ReopenLog, Tick, tables, history
<1>12. CASE CheckWhitelist \/ CheckBanned \/ ReadSetting \/ RecordAttempt
            \/ CountAttempts
    BY <1>1, <1>12
    DEF CheckWhitelist, CheckBanned, ReadSetting, RecordAttempt, CountAttempts,
        tables, history
<1>13. ASSUME NEW ip \in IPs, RemoveWhitelist(ip) PROVE BlacklistEnforced'
    BY <1>1, <1>13 DEF RemoveWhitelist, history
<1>14. ASSUME NEW on \in BOOLEAN, ToggleSystem(on) PROVE BlacklistEnforced'
    BY <1>1, <1>14 DEF ToggleSystem
<1>15. ASSUME NEW service \in Configured, NEW s \in Settings,
              UpdateSetting(service, s)
       PROVE  BlacklistEnforced'
    BY <1>1, <1>15 DEF UpdateSetting
<1>16. CASE UNCHANGED vars
    BY <1>1, <1>16 DEF vars, tables, history
<1> QED
    BY <1>2, <1>3, <1>4, <1>5, <1>6, <1>7, <1>8, <1>9, <1>10, <1>11, <1>12,
       <1>13, <1>14, <1>15, <1>16 DEF Next, Watcher, Admin

\* A blacklisted address stays banned for good from every service until an
\* admin lifts or replaces its ban or a connection is lost in add_to_blacklist.
THEOREM BlacklistPermanent == Spec => []BlacklistEnforced
<1>1. Init => TypeOK /\ BlacklistEnforced
    BY InitTypeOK DEF Init, BlacklistEnforced
<1>2. TypeOK /\ BlacklistEnforced /\ [Next]_vars => (TypeOK /\ BlacklistEnforced)'
    BY NextTypeOK, BlacklistStep
<1> QED
    BY <1>1, <1>2, PTL DEF Spec

----------------------------------------------------------------------------
(* The cached switch.  A cached "on" that is wrong was read before the     *)
(* switch was last changed.                                                *)

CacheInv ==
    /\ cacheAt <= now
    /\ cache /\ ~enabled => toggledAt >= cacheAt

LEMMA CacheStep == TypeOK /\ CacheInv /\ [Next]_vars => CacheInv'
<1> SUFFICES ASSUME TypeOK, CacheInv, [Next]_vars PROVE CacheInv'
    OBVIOUS
<1>1. now \in Nat /\ cacheAt \in Nat /\ toggledAt \in Nat
    BY DEF TypeOK
<1> USE DEF CacheInv
<1>2. ASSUME UNCHANGED <<now, cache, cacheAt, enabled, toggledAt>> PROVE CacheInv'
    BY <1>2
<1>3. ASSUME cacheAt' = now, now' = now, cache' => enabled, enabled' = enabled
      PROVE  CacheInv'
    BY <1>1, <1>3
<1>4. ASSUME NEW f \in AuthFailure, ReadFailure(f) PROVE CacheInv'
    BY <1>2, <1>3, <1>4 DEF ReadFailure, is_fail2ban_enabled, tables, history
<1>5. CASE Idle
    BY <1>2, <1>3, <1>5 DEF Idle, is_fail2ban_enabled, history
<1>6. CASE ReopenLog
    BY <1>3, <1>6 DEF ReopenLog, StartTail, tables
<1>7. CASE Restart
    BY <1>3, <1>7 DEF Restart, StartTail, tables
<1>8. ASSUME NEW on \in BOOLEAN, ToggleSystem(on) PROVE CacheInv'
    BY <1>1, <1>8 DEF ToggleSystem, tailing
<1>9. CASE Tick
    BY <1>1, <1>9 DEF Tick, tables, tailing, history
<1>10. CASE CheckWhitelist \/ CheckBanned \/ ReadSetting \/ RecordAttempt
            \/ CountAttempts \/ BanOffender
    BY <1>2, <1>10
    DEF CheckWhitelist, CheckBanned, ReadSetting, RecordAttempt, CountAttempts,
        BanOffender, tables, tailing, history
<1>11. ASSUME NEW ip \in IPs, RemoveWhitelist(ip) \/ RemoveBlacklist(ip)
       PROVE  CacheInv'
    BY <1>2, <1>11 DEF RemoveWhitelist, RemoveBlacklist, tailing, history
<1>12. ASSUME NEW ip \in IPs, NEW cut \in BOOLEAN,
              AddWhitelist(ip, cut) \/ AddBlacklist(ip, cut)
       PROVE  CacheInv'
    BY <1>2, <1>12 DEF AddWhitelist, AddBlacklist, tailing
<1>13. ASSUME NEW ip \in IPs, NEW service \in BanServices, UnbanIp(ip, service)
       PROVE  CacheInv'
    BY <1>2, <1>13 DEF UnbanIp, tailing
<1>14. ASSUME NEW ip \in IPs, NEW service \in BanServices, NEW d \in Durations,
              NEW p \in BOOLEAN, BanIp(ip, service, d, p)
       PROVE  CacheInv'
    BY <1>2, <1>14 DEF BanIp, tailing
<1>15. ASSUME NEW service \in Configured, NEW s \in Settings,
              UpdateSetting(service, s)
       PROVE  CacheInv'
    BY <1>2, <1>15 DEF UpdateSetting, tailing
<1>16. CASE LoseConnection
    BY <1>2, <1>16 DEF LoseConnection, tables, tailing
<1>17. CASE UNCHANGED vars
    BY <1>2, <1>17 DEF vars, tables, tailing, history
<1> QED
    BY <1>4, <1>5, <1>6, <1>7, <1>8, <1>9, <1>10, <1>11, <1>12, <1>13, <1>14,
       <1>15, <1>16, <1>17 DEF Next, Watcher, Admin

\* Taking up a failure is a ReadFailure step with the cached switch on.
LEMMA TakeUp ==
    ASSUME Next, pc = "read", pc' = "whitelist"
    PROVE  \E f \in AuthFailure : ReadFailure(f)
BY DEF Next, Watcher, Admin, Idle, ReopenLog, CheckWhitelist, CheckBanned,
       ReadSetting, RecordAttempt, CountAttempts, BanOffender, ToggleSystem,
       UpdateSetting, UnbanIp, BanIp, AddWhitelist, AddBlacklist,
       RemoveWhitelist, RemoveBlacklist, Tick, LoseConnection, Restart, Return,
       handling

LEMMA SwitchStep ==
    TypeOK /\ CacheInv /\ [Next]_vars =>
        [pc = "read" /\ pc' = "whitelist" => enabled \/ now - toggledAt < CacheTTL]_vars
<1> SUFFICES ASSUME TypeOK, CacheInv, Next, pc = "read", pc' = "whitelist", ~enabled
             PROVE  now - toggledAt < CacheTTL
    OBVIOUS
<1>1. PICK f \in AuthFailure : ReadFailure(f)
    BY TakeUp
<1>2. now \in Nat /\ cacheAt \in Nat /\ toggledAt \in Nat /\ CacheTTL \in Nat
    BY Fail2banAssumption DEF TypeOK
<1>3. cache'
    BY <1>1 DEF ReadFailure
<1>4. ~CacheExpired
    BY <1>1, <1>3 DEF ReadFailure, is_fail2ban_enabled
<1>5. cache
    BY <1>1, <1>3, <1>4 DEF ReadFailure
<1> QED
    BY <1>2, <1>4, <1>5 DEF CacheExpired, CacheInv

\* With the system switched off, the watcher takes up no failure once
\* ENABLED_CACHE_TTL has passed, whatever ran in between.
THEOREM SwitchHonoured == Spec => StaleSwitchBounded
<1>1. Init => TypeOK /\ CacheInv
    BY InitTypeOK DEF Init, CacheInv
<1>2. TypeOK /\ CacheInv /\ [Next]_vars => (TypeOK /\ CacheInv)'
    BY NextTypeOK, CacheStep
<1>3. TypeOK /\ CacheInv /\ [Next]_vars =>
        [pc = "read" /\ pc' = "whitelist" => enabled \/ now - toggledAt < CacheTTL]_vars
    BY SwitchStep
<1> QED
    BY <1>1, <1>2, <1>3, PTL DEF Spec, StaleSwitchBounded

----------------------------------------------------------------------------
(* No missed ban.  While no admin has changed a threshold, an address that *)
(* no admin or fault has excused is, on each service, below the threshold, *)
(* or the failure in hand, or banned until its attempts are out of date.   *)

Quiet(ip, s) == Cardinality(Recent(ip, s, Default.find)) < Default.max

InHand(ip, s) ==
    dbUp /\ pc \in {"count", "ban"} /\ fail = [ip |-> ip, service |-> s]

Outlasts(b, ip, s) ==
    b.on /\ (b.permanent \/ \A row \in attempts[<<ip, s>>] : row.at + Default.find <= b.expires)

Covered(ip, s) == \E b \in BanServices : Outlasts(banned[<<ip, b>>], ip, s)

Attended(ip, s) == Quiet(ip, s) \/ InHand(ip, s) \/ Covered(ip, s)

\* A row is never ahead of the clock.
RowsPast == \A k \in IPs \X Services : \A row \in attempts[k] : row.at <= now

Tuned == ~retuned => setting = Default /\ \A s \in Configured : settings[s] = Default

MissInv ==
    /\ TypeOK /\ RowsPast /\ Tuned
    /\ ~retuned => \A ip \in IPs \ excused, s \in Configured : Attended(ip, s)

\* The numbers among the constants and the state.
LEMMA Numbers ==
    ASSUME TypeOK
    PROVE  /\ Default.max \in Nat \ {0} /\ Default.dur \in Nat /\ Default.find \in Nat
           /\ Default.dur >= Default.find /\ now \in Nat
BY Fail2banAssumption DEF Setting, TypeOK

\* A key of a configured service has its rows, all of them with a time.
LEMMA Rows ==
    ASSUME TypeOK, NEW ip \in IPs, NEW s \in Configured
    PROVE  /\ attempts[<<ip, s>>] \in SUBSET Row /\ IsFiniteSet(attempts[<<ip, s>>])
           /\ \A row \in attempts[<<ip, s>>] : row.at \in Nat
           /\ \A d : Recent(ip, s, d) \in SUBSET attempts[<<ip, s>>]
BY Fail2banAssumption DEF TypeOK, Row, Recent

\* Time passing, rows purged and calls of no concern keep an address attended to.
LEMMA StillAttended ==
    ASSUME TypeOK, NEW ip \in IPs, NEW s \in Configured, Attended(ip, s),
           attempts'[<<ip, s>>] \subseteq attempts[<<ip, s>>],
           now' \in {now, now + 1},
           \A b \in BanServices : banned'[<<ip, b>>] = banned[<<ip, b>>],
           InHand(ip, s) => InHand(ip, s)'
    PROVE  Attended(ip, s)'
<1>1. CASE Quiet(ip, s)
    <2>1. Recent(ip, s, Default.find)' \subseteq Recent(ip, s, Default.find)
        BY Numbers, Rows DEF Recent
    <2>2. /\ IsFiniteSet(Recent(ip, s, Default.find))
          /\ Cardinality(Recent(ip, s, Default.find)) \in Nat
        BY Rows, CountedRows
    <2>3. /\ Cardinality(Recent(ip, s, Default.find)') \in Nat
          /\ Cardinality(Recent(ip, s, Default.find)')
                <= Cardinality(Recent(ip, s, Default.find))
        BY <2>1, <2>2, FS_Subset, FS_CardinalityType
    <2> QED
        BY <1>1, <2>2, <2>3, Numbers DEF Quiet, Attended
<1>2. CASE InHand(ip, s)
    BY <1>2 DEF Attended
<1>3. CASE Covered(ip, s)
    BY <1>3 DEF Covered, Outlasts, Attended
<1> QED
    BY <1>1, <1>2, <1>3 DEF Attended

\* Every step keeps the rows in the past.
LEMMA RowsStep == TypeOK /\ RowsPast /\ [Next]_vars => RowsPast'
<1> SUFFICES ASSUME TypeOK, RowsPast, [Next]_vars PROVE RowsPast'
    OBVIOUS
<1>1. ASSUME now' = now \/ now' = now + 1,
             \A k \in IPs \X Services : attempts'[k] \subseteq attempts[k]
      PROVE  RowsPast'
    BY <1>1 DEF RowsPast, TypeOK, Row
<1>2. CASE RecordAttempt
    <2>1. /\ now' = now
          /\ attempts' = attempts
               \/ attempts' = [attempts EXCEPT ![<<fail.ip, fail.service>>] = @ \cup {NewRow}]
        BY <1>2 DEF RecordAttempt
    <2>2. NewRow.at <= now
        BY DEF NewRow, TypeOK
    <2> QED
        BY <2>1, <2>2 DEF RowsPast, TypeOK
<1>3. CASE Idle
    BY <1>1, <1>3 DEF Idle, purge_expired_rows, TypeOK
<1>4. CASE Tick
    BY <1>1, <1>4 DEF Tick, tables
<1>5. ASSUME UNCHANGED <<now, attempts>> PROVE RowsPast'
    BY <1>5 DEF RowsPast
<1> QED
    BY <1>2, <1>3, <1>4, <1>5
    DEF Next, Watcher, Admin, ReadFailure, ReopenLog, CheckWhitelist, CheckBanned,
        ReadSetting, CountAttempts, BanOffender, ToggleSystem, UpdateSetting, UnbanIp,
        BanIp, AddWhitelist, AddBlacklist, RemoveWhitelist, RemoveBlacklist,
        LoseConnection, Restart, vars, tables

\* Until an admin changes one, every step works with the default settings.
LEMMA TunedStep == TypeOK /\ Tuned /\ [Next]_vars => Tuned'
<1> SUFFICES ASSUME TypeOK, Tuned, [Next]_vars PROVE Tuned'
    OBVIOUS
<1> USE DEF Tuned
<1>1. CASE ReadSetting
    BY <1>1 DEF ReadSetting, Return, tables, history
<1>2. ASSUME UNCHANGED <<settings, retuned>>, setting' = setting \/ setting' = Default
      PROVE  Tuned'
    BY <1>2
<1>3. ASSUME NEW service \in Configured, NEW s \in Settings, UpdateSetting(service, s)
      PROVE  Tuned'
    BY <1>3 DEF UpdateSetting
<1>4. CASE CheckWhitelist \/ CheckBanned \/ RecordAttempt \/ CountAttempts \/ BanOffender
    BY <1>2, <1>4
    DEF CheckWhitelist, CheckBanned, RecordAttempt, CountAttempts, BanOffender, Goto,
        Return, tables, history
<1> QED
    BY <1>1, <1>2, <1>3, <1>4
    DEF Next, Watcher, Admin, ReadFailure, Idle, ReopenLog, ToggleSystem, UnbanIp,
        BanIp, AddWhitelist, AddBlacklist, RemoveWhitelist, RemoveBlacklist, Tick,
        LoseConnection, Restart, Return, vars, tables, handling, history

\* The count decides with the number of rows the property speaks of.
LEMMA CountDecides ==
    ASSUME MissInv, ~retuned, CountAttempts, NEW ip \in IPs \ excused, NEW s \in Configured
    PROVE  Attended(ip, s)'
<1> USE DEF MissInv
<1>1. /\ UNCHANGED <<now, dbUp, attempts, banned>>
      /\ Attended(ip, s) /\ pc = "count" /\ setting = Default
    BY DEF CountAttempts, Tuned, tables
<1>2. CASE ~InHand(ip, s)
    BY <1>1, <1>2, StillAttended
<1>3. CASE InHand(ip, s)
    <2> DEFINE n == count_recent_attempts(fail.ip, fail.service, setting.find)
    <2>1. n = Cardinality(Recent(ip, s, Default.find)) /\ n \in Nat
        BY <1>1, <1>3, Rows, CountedRows DEF InHand, count_recent_attempts
    <2>2. CASE ReachesThreshold(n)
        <3>1. pc' = "ban" /\ fail' = fail
            BY <2>2 DEF CountAttempts
        <3> QED
            BY <1>1, <1>3, <3>1 DEF InHand, Attended
    <2>3. CASE ~ReachesThreshold(n)
        <3>1. Quiet(ip, s)
            BY <1>1, <2>1, <2>3, Numbers DEF ReachesThreshold, Quiet
        <3>2. Recent(ip, s, Default.find)' = Recent(ip, s, Default.find)
            BY <1>1 DEF Recent
        <3> QED
            BY <3>1, <3>2 DEF Quiet, Attended
    <2> QED
        BY <2>2, <2>3
<1> QED
    BY <1>2, <1>3

\* The watcher's ban outlasts every row of the address, and what it replaces.
LEMMA BanAttends ==
    ASSUME MissInv, ~retuned, BanOffender, NEW ip \in IPs \ excused, NEW s \in Configured
    PROVE  Attended(ip, s)'
<1> USE DEF MissInv
<1>1. /\ UNCHANGED <<now, dbUp, attempts>> /\ pc = "ban" /\ setting = Default
      /\ Attended(ip, s) /\ fail.ip \in IPs /\ fail.service \in Services
    BY DEF BanOffender, Tuned, TypeOK, AuthFailure
<1>2. CASE ~dbUp
    BY <1>1, <1>2, StillAttended DEF BanOffender, InHand
<1>3. CASE dbUp /\ fail.ip # ip
    <2>1. \A b \in BanServices : banned'[<<ip, b>>] = banned[<<ip, b>>]
        BY <1>1, <1>3 DEF BanOffender, ban_ip, TypeOK
    <2> QED
        BY <1>1, <1>3, <2>1, StillAttended DEF InHand
<1>4. CASE dbUp /\ fail.ip = ip
    <2>1. PICK b \in BanServices :
            banned'[<<ip, b>>] =
                [on |-> TRUE, permanent |-> FALSE, expires |-> now + Default.dur]
        BY <1>1, <1>4 DEF BanOffender, ban_ip, BannedService, BanServices, Expires, TypeOK
    <2>2. \A row \in attempts[<<ip, s>>] : row.at + Default.find <= now + Default.dur
        <3>1. \A row \in attempts[<<ip, s>>] : row.at \in Nat /\ row.at <= now
            BY Rows, Fail2banAssumption DEF RowsPast
        <3> QED
            BY <3>1, Numbers
    <2>3. banned'[<<ip, b>>].on /\ banned'[<<ip, b>>].expires = now + Default.dur
        BY <2>1
    <2>4. Covered(ip, s)'
        BY <1>1, <2>2, <2>3 DEF Covered, Outlasts
    <2> QED
        BY <2>4 DEF Attended
<1> QED
    BY <1>2, <1>3, <1>4

\* A blacklisted address is banned for good; the others keep what they have.
LEMMA BlacklistAttends ==
    ASSUME MissInv, ~retuned, NEW a \in IPs, NEW cut \in BOOLEAN, AddBlacklist(a, cut),
           NEW ip \in IPs \ excused', NEW s \in Configured
    PROVE  Attended(ip, s)'
<1> USE DEF MissInv
<1>1. UNCHANGED <<now, attempts, pc, fail>> /\ dbUp
    BY DEF AddBlacklist, handling
<1>2. CASE ~cut /\ ip = a
    <2>1. /\ "all" \in BanServices
          /\ banned'[<<ip, "all">>].on /\ banned'[<<ip, "all">>].permanent
        BY <1>2 DEF AddBlacklist, ban_ip, BanServices, TypeOK
    <2> QED
        BY <2>1 DEF Attended, Covered, Outlasts
<1>3. CASE cut \/ ip # a
    <2>1. ip \notin excused
        BY <1>3 DEF AddBlacklist
    <2>2. \A b \in BanServices : banned'[<<ip, b>>] = banned[<<ip, b>>]
        BY <1>3 DEF AddBlacklist, ban_ip, TypeOK
    <2>3. InHand(ip, s) => InHand(ip, s)'
        <3>1. CASE cut
            BY <1>1, <3>1 DEF AddBlacklist, Undecided, InHand
        <3>2. CASE ~cut
            BY <1>1, <3>2 DEF AddBlacklist, InHand
        <3> QED
            BY <3>1, <3>2
    <2> QED
        BY <1>1, <2>1, <2>2, <2>3, StillAttended
<1> QED
    BY <1>2, <1>3

\* Every step keeps every address attended to.
LEMMA AttendedStep ==
    ASSUME MissInv, [Next]_vars, ~retuned', NEW ip \in IPs \ excused', NEW s \in Configured
    PROVE  Attended(ip, s)'
<1> USE DEF MissInv
<1>1. ~retuned
    BY DEF Next, Watcher, Admin, ReadFailure, Idle, ReopenLog, CheckWhitelist, CheckBanned,
           ReadSetting, RecordAttempt, CountAttempts, BanOffender, ToggleSystem,
           UpdateSetting, UnbanIp, BanIp, AddWhitelist, AddBlacklist, RemoveWhitelist,
           RemoveBlacklist, Tick, LoseConnection, Restart, vars, history
<1>2. ASSUME ip \notin excused, attempts'[<<ip, s>>] \subseteq attempts[<<ip, s>>],
             now' \in {now, now + 1}, banned' = banned, InHand(ip, s) => InHand(ip, s)'
      PROVE  Attended(ip, s)'
    BY <1>1, <1>2, StillAttended
<1>3. ASSUME NEW f \in AuthFailure, ReadFailure(f) PROVE Attended(ip, s)'
    BY <1>2, <1>3 DEF ReadFailure, InHand, tables, history
<1>4. CASE Idle
    <2>1. attempts'[<<ip, s>>] \subseteq attempts[<<ip, s>>]
        BY <1>4, Fail2banAssumption DEF Idle, purge_expired_rows, TypeOK
    <2> QED
        BY <1>2, <1>4, <2>1 DEF Idle, InHand, history
<1>5. CASE CheckWhitelist \/ CheckBanned \/ ReadSetting \/ ReopenLog
    BY <1>2, <1>5 DEF CheckWhitelist, CheckBanned, ReadSetting, ReopenLog, InHand, tables, history
<1>6. CASE RecordAttempt
    <2>1. CASE ~dbUp \/ fail.ip # ip \/ fail.service # s
        <3>1. attempts'[<<ip, s>>] = attempts[<<ip, s>>]
            BY <1>6, <2>1, Fail2banAssumption DEF RecordAttempt, TypeOK
        <3> QED
            BY <1>2, <1>6, <3>1 DEF RecordAttempt, InHand, history
    <2>2. CASE dbUp /\ fail.ip = ip /\ fail.service = s
        BY <1>6, <2>2 DEF RecordAttempt, Goto, Attended, InHand, TypeOK, AuthFailure
    <2> QED
        BY <2>1, <2>2
<1>7. CASE CountAttempts
    BY <1>1, <1>7, CountDecides DEF CountAttempts, history
<1>8. CASE BanOffender
    BY <1>1, <1>8, BanAttends DEF BanOffender
<1>9. ASSUME NEW a \in IPs, NEW cut \in BOOLEAN, AddBlacklist(a, cut)
      PROVE  Attended(ip, s)'
    BY <1>1, <1>9, BlacklistAttends
<1>10. ASSUME NEW a \in IPs, NEW cut \in BOOLEAN, AddWhitelist(a, cut)
       PROVE  Attended(ip, s)'
    <2>1. ip # a /\ ip \notin excused
        BY <1>10 DEF AddWhitelist
    <2>2. \A b \in BanServices : banned'[<<ip, b>>] = banned[<<ip, b>>]
        BY <1>10, <2>1 DEF AddWhitelist, TypeOK
    <2>3. InHand(ip, s) => InHand(ip, s)'
        <3>1. CASE cut
            BY <1>10, <3>1 DEF AddWhitelist, Undecided, InHand
        <3>2. CASE ~cut
            BY <1>10, <3>2 DEF AddWhitelist, InHand, handling
        <3> QED
            BY <3>1, <3>2
    <2> QED
        BY <1>1, <1>10, <2>1, <2>2, <2>3, StillAttended DEF AddWhitelist
<1>11. ASSUME NEW a \in IPs, NEW service \in BanServices,
              \/ UnbanIp(a, service)
              \/ \E d \in Durations, p \in BOOLEAN : BanIp(a, service, d, p)
       PROVE  Attended(ip, s)'
    <2>1. ip # a /\ ip \notin excused
        BY <1>11 DEF UnbanIp, BanIp
    <2>2. \A b \in BanServices : banned'[<<ip, b>>] = banned[<<ip, b>>]
        BY <1>11, <2>1 DEF UnbanIp, BanIp, ban_ip, TypeOK
    <2>3. UNCHANGED <<now, dbUp, attempts, handling>>
        BY <1>11 DEF UnbanIp, BanIp
    <2> QED
        BY <1>1, <2>1, <2>2, <2>3, StillAttended DEF InHand, handling
<1>12. CASE LoseConnection \/ Restart
    <2>1. UNCHANGED <<now, attempts, banned>> /\ ip \notin excused
          /\ ip \notin Undecided
        BY <1>12 DEF LoseConnection, Restart, tables
    <2>2. ~InHand(ip, s)
        BY <2>1 DEF Undecided, InHand
    <2> QED
        BY <1>2, <2>1, <2>2
<1>13. ASSUME UNCHANGED <<dbUp, attempts, banned, pc, fail, excused>>,
              now' \in {now, now + 1}
       PROVE  Attended(ip, s)'
    BY <1>2, <1>13 DEF InHand
<1>14. ASSUME NEW a \in IPs, RemoveWhitelist(a) \/ RemoveBlacklist(a)
       PROVE  Attended(ip, s)'
    BY <1>13, <1>14 DEF RemoveWhitelist, RemoveBlacklist, handling, history
<1>15. ASSUME NEW on \in BOOLEAN, ToggleSystem(on) PROVE Attended(ip, s)'
    BY <1>13, <1>15 DEF ToggleSystem, handling
<1>16. ASSUME NEW service \in Configured, NEW new \in Settings, UpdateSetting(service, new)
       PROVE  Attended(ip, s)'
    BY <1>13, <1>16 DEF UpdateSetting, handling
<1>17. CASE Tick \/ UNCHANGED vars
    BY <1>13, <1>17 DEF Tick, vars, tables, handling, history
<1> QED
    BY <1>3, <1>4, <1>5, <1>6, <1>7, <1>8, <1>9, <1>10, <1>11, <1>12, <1>14, <1>15,
       <1>16, <1>17 DEF Next, Watcher, Admin

\* Between two lines nothing is in hand, and a ban that outlasts a recent row is
\* active.
LEMMA AttendedIsBanned == MissInv => NoMissedBan
<1> SUFFICES ASSUME MissInv, pc = "read", ~retuned, NEW ip \in IPs \ excused,
                    NEW s \in Configured,
                    Cardinality(Recent(ip, s, Default.find)) >= Default.max
             PROVE  \E b \in BanServices : Active(banned[<<ip, b>>])
    BY DEF NoMissedBan
<1> USE DEF MissInv
<1>1. IsFiniteSet(Recent(ip, s, Default.find))
      /\ Cardinality(Recent(ip, s, Default.find)) \in Nat
    BY Rows, CountedRows
<1>2. ~Quiet(ip, s) /\ ~InHand(ip, s)
    BY <1>1, Numbers DEF Quiet, InHand
<1>3. PICK b \in BanServices : Outlasts(banned[<<ip, b>>], ip, s)
    BY <1>2 DEF Attended, Covered
<1>4. PICK row \in Recent(ip, s, Default.find) : TRUE
    <2>1. Recent(ip, s, Default.find) # {}
        BY <1>1, FS_EmptySet, Numbers
    <2> QED
        BY <2>1
<1>5. row \in attempts[<<ip, s>>] /\ row.at > now - Default.find /\ row.at \in Nat
    BY <1>4, Rows DEF Recent
<1>6. banned[<<ip, b>>] \in Ban
    BY DEF TypeOK
<1>7. CASE banned[<<ip, b>>].permanent
    BY <1>3, <1>7 DEF Outlasts, Active
<1>8. CASE ~banned[<<ip, b>>].permanent
    <2>1. row.at + Default.find <= banned[<<ip, b>>].expires /\ banned[<<ip, b>>].on
        BY <1>3, <1>5, <1>8 DEF Outlasts
    <2>2. banned[<<ip, b>>].expires \in Int
        <3>1. NoBan.expires \in Int
            BY DEF NoBan
        <3>2. \A x \in [on : {TRUE}, permanent : {TRUE}, expires : {Never}] : x.expires \in Int
            OBVIOUS
        <3>3. \A x \in [on : {TRUE}, permanent : {FALSE}, expires : Int] : x.expires \in Int
            OBVIOUS
        <3> QED
            BY <1>6, <3>1, <3>2, <3>3 DEF Ban
    <2> QED
        BY <1>5, <2>1, <2>2, Numbers DEF Active
<1> QED
    BY <1>7, <1>8

\* handle_auth_failure misses no offender, whatever runs between its calls.
THEOREM OffendersAreBanned == Spec => []NoMissedBan
<1>1. Init => MissInv
    <2>1. SUFFICES ASSUME Init PROVE MissInv
        OBVIOUS
    <2>2. \A ip \in IPs, s \in Configured : Recent(ip, s, Default.find) = {}
        BY <2>1, Fail2banAssumption DEF Init, Recent
    <2>3. \A ip \in IPs, s \in Configured : Attended(ip, s)
        BY <2>1, <2>2, InitTypeOK, Numbers, FS_EmptySet DEF Attended, Quiet
    <2> QED
        BY <2>1, <2>3, InitTypeOK DEF Init, MissInv, RowsPast, Tuned
<1>2. MissInv /\ [Next]_vars => MissInv'
    BY NextTypeOK, RowsStep, TunedStep, AttendedStep DEF MissInv
<1>3. MissInv => NoMissedBan
    BY AttendedIsBanned
<1> QED
    BY <1>1, <1>2, <1>3, PTL DEF Spec
----------------------------------------------------------------------------
(* LogTail: the watcher reads forward.                                     *)

Item == Text \cup {LF}

\* Texts get larger ids along a sequence; a line feed has id 0.
Ordered(s) == \A i, j \in DOMAIN s : i < j /\ s[j].id # 0 => s[i].id < s[j].id

\* Texts in a file, in the buffer and beyond the descriptor's offset, and the failures
\* already handled, in the order they were written.
TailInv ==
    /\ TailTypeOK /\ fd \in Inodes \cup {NoFile}
    /\ \A f \in Inodes \cup {NoFile} :
         Ordered(content[f]) /\ \A i \in DOMAIN content[f] : content[f][i].id <= lines
    /\ Ordered(buf) /\ \A i \in DOMAIN buf : buf[i].id <= lines
    /\ step # "opening" =>
         \A j \in DOMAIN content[fd] : (j > pos /\ content[fd][j].id # 0) =>
           /\ \A i \in DOMAIN buf : buf[i].id < content[fd][j].id
           /\ \A h \in DOMAIN handled : handled[h] < content[fd][j].id
    /\ \A i \in DOMAIN buf, h \in DOMAIN handled : buf[i].id # 0 => handled[h] < buf[i].id
    /\ \A h \in DOMAIN handled : handled[h] <= lines
    /\ HandledInOrder

\* Every set of natural numbers that has an element has a least one.
LEMMA LeastNatural ==
    ASSUME NEW T, T \subseteq Nat, T # {}
    PROVE  \E m \in T : \A k \in T : m <= k
<1> DEFINE R == OpToRel(<, Nat)
<1>1. \A x, y \in Nat : <<x, y>> \in R <=> x < y
    BY DEF OpToRel
<1>2. IsWellFoundedOn(R, Nat)
    BY NatLessThanWellFounded
<1> HIDE DEF R
<1>3. PICK m \in T : \A k \in T : ~(<<k, m>> \in R)
    BY <1>2, WFMin
<1>4. \A k \in T : ~(k < m)
    BY <1>1, <1>3
<1>5. \A k \in T : m <= k
    BY <1>4
<1> QED
    BY <1>5

\* A sequence with a line feed has a first one.
LEMMA FirstLFIs ==
    ASSUME NEW s \in Seq(Item), HasLF(s)
    PROVE  FirstLF(s) \in DOMAIN s
<1> DEFINE L == {j \in DOMAIN s : s[j] = LF}
<1>1. L \subseteq Nat /\ L # {}
    BY DEF HasLF
<1>2. PICK i \in L : \A k \in L : i <= k
    BY <1>1, LeastNatural
<1>3. i \in DOMAIN s /\ s[i] = LF /\ \A j \in 1..(i - 1) : s[j] # LF
    BY <1>2
<1> QED
    BY <1>3 DEF FirstLF

\* Ids of items.
LEMMA ItemIds ==
    /\ \A x \in Item : x.id \in 0..MaxLines
    /\ \A x \in Item : x.kind \in {"mail", "web"} => x.id \in 1..MaxLines
BY LogTailAssumption DEF Item, Text, LF

\* A failure found in a line is one of its texts.
LEMMA ParsedIsText ==
    ASSUME NEW s \in Seq(Item), ParseLogLine(s) # {}
    PROVE  LET i == CHOOSE i \in ParseLogLine(s) : TRUE
           IN  i \in DOMAIN s /\ s[i].id \in 1..MaxLines
<1>1. \A i \in ParseLogLine(s) : i \in DOMAIN s /\ s[i].kind \in {"mail", "web"}
    BY DEF ParseLogLine
<1>2. \A i \in DOMAIN s : s[i] \in Item
    OBVIOUS
<1> QED
    BY <1>1, <1>2, ItemIds

LEMMA TailStarts == TailInit => TailInv
<1> SUFFICES ASSUME TailInit PROVE TailInv
    OBVIOUS
<1>1. content = [i \in Inodes \cup {NoFile} |-> <<>>] /\ buf = <<>> /\ handled = <<>>
    BY DEF TailInit
<1>2. TailTypeOK
    BY <1>1, LogTailAssumption DEF TailInit, TailTypeOK, Inodes, NoFile
<1> QED
    BY <1>1, <1>2 DEF TailInv, Ordered, HandledInOrder, TailInit

\* The items of a sequence.
LEMMA SeqItems ==
    ASSUME NEW S, NEW s \in Seq(S)
    PROVE  \A i \in DOMAIN s : s[i] \in S
OBVIOUS

\* The items of a sequence with one or two more.
LEMMA Appended ==
    ASSUME NEW c \in Seq(Item), NEW s \in Seq(Item), Len(s) \in {1, 2}
    PROVE  /\ c \o s \in Seq(Item)
           /\ \A i \in DOMAIN c : i \in DOMAIN (c \o s) /\ (c \o s)[i] = c[i]
           /\ \A j \in DOMAIN (c \o s) \ DOMAIN c :
                \/ j = Len(c) + 1 /\ (c \o s)[j] = s[1]
                \/ j = Len(c) + 2 /\ Len(s) = 2 /\ (c \o s)[j] = s[2]
<1>1. DOMAIN c = 1..Len(c) /\ Len(c) \in Nat /\ Len(s) \in Nat
    OBVIOUS
<1>2. DOMAIN (c \o s) = 1..(Len(c) + Len(s))
    OBVIOUS
<1>3. \A j \in DOMAIN (c \o s) \ DOMAIN c : j = Len(c) + 1 \/ (j = Len(c) + 2 /\ Len(s) = 2)
    <2> DEFINE a == Len(c)
               b == Len(s)
    <2>1. a \in Nat /\ b \in {1, 2}
        BY <1>1
    <2> HIDE DEF a, b
    <2>2. \A j \in 1..(a + b) : j \notin 1..a => j = a + 1 \/ (j = a + 2 /\ b = 2)
        BY <2>1
    <2> QED
        BY <1>1, <1>2, <2>2 DEF a, b
<1>4. (c \o s)[Len(c) + 1] = s[1] /\ (Len(s) = 2 => (c \o s)[Len(c) + 2] = s[2])
    BY <1>1
<1> QED
    BY <1>1, <1>2, <1>3, <1>4

\* One or two items appended: a text with a new id, a line feed, or both.
LEMMA AppendStep ==
    ASSUME TailInv, NEW f \in Inodes \cup {NoFile}, NEW s \in Seq(Item), Len(s) \in {1, 2},
           \/ s[1].id = 0 /\ lines' = lines
           \/ s[1].id = lines + 1 /\ lines' = lines + 1,
           Len(s) = 2 => s[2].id = 0,
           AppendTo(f, s), TailTypeOK', UNCHANGED <<watchVars, lost>>
    PROVE  TailInv'
<1> DEFINE c == content[f]
           d == c \o s
<1>1. /\ content \in [Inodes \cup {NoFile} -> Seq(Item)] /\ buf \in Seq(Item)
      /\ lines \in 0..MaxLines /\ handled \in Seq(1..MaxLines)
      /\ fd \in Inodes \cup {NoFile} /\ pos \in Nat
      /\ UNCHANGED <<step, fd, inode, pos, buf, handled>>
    BY DEF TailInv, TailTypeOK, Item, watchVars
<1>2. c \in Seq(Item) /\ lines \in Nat /\ lines' \in Nat /\ lines <= lines'
    BY <1>1, LogTailAssumption
<1>3. /\ d \in Seq(Item)
      /\ \A i \in DOMAIN c : i \in DOMAIN d /\ d[i] = c[i]
      /\ \A j \in DOMAIN d \ DOMAIN c :
           \/ j = Len(c) + 1 /\ d[j] = s[1]
           \/ j = Len(c) + 2 /\ Len(s) = 2 /\ d[j] = s[2]
    BY <1>2, Appended
<1>4. content'[f] = d /\ \A g \in (Inodes \cup {NoFile}) \ {f} : content'[g] = content[g]
    BY <1>1 DEF AppendTo
<1> HIDE DEF d
<1>5. \A j \in DOMAIN d :
        \/ j \in DOMAIN c /\ d[j] = c[j]
        \/ j > Len(c) /\ d[j].id = 0
        \/ j = Len(c) + 1 /\ d[j].id = lines + 1 /\ lines' = lines + 1
    BY <1>2, <1>3
<1>6. \A i \in DOMAIN c : c[i] \in Item /\ c[i].id \in Nat /\ c[i].id <= lines
    BY <1>2, ItemIds, LogTailAssumption DEF TailInv
<1>7. Ordered(d) /\ \A i \in DOMAIN d : d[i].id <= lines'
    <2>1. \A i \in DOMAIN d : d[i].id <= lines'
        BY <1>1, <1>5, <1>6
    <2>2. ASSUME NEW i \in DOMAIN d, NEW j \in DOMAIN d, i < j, d[j].id # 0
          PROVE  d[i].id < d[j].id
        <3>1. CASE j \in DOMAIN c
            <4>1. i \in DOMAIN c
                BY <1>2, <1>3, <2>2, <3>1
            <4>2. Ordered(c)
                BY DEF TailInv
            <4> QED
                BY <1>3, <2>2, <3>1, <4>1, <4>2 DEF Ordered
        <3>2. CASE j \notin DOMAIN c
            <4>1. j = Len(c) + 1 /\ d[j].id = lines + 1
                BY <1>2, <1>5, <2>2, <3>2
            <4>2. i \in DOMAIN c
                BY <1>2, <1>3, <2>2, <4>1
            <4> QED
                BY <1>1, <1>3, <1>6, <4>1, <4>2
        <3> QED
            BY <3>1, <3>2
    <2> QED
        BY <2>1, <2>2 DEF Ordered
<1>8. \A g \in Inodes \cup {NoFile} :
        Ordered(content'[g]) /\ \A i \in DOMAIN content'[g] : content'[g][i].id <= lines'
    <2> SUFFICES ASSUME NEW g \in Inodes \cup {NoFile}
                 PROVE  Ordered(content'[g])
                        /\ \A i \in DOMAIN content'[g] : content'[g][i].id <= lines'
        OBVIOUS
    <2>1. CASE g = f
        BY <1>4, <1>7, <2>1
    <2>2. CASE g # f
        <3>1. content'[g] = content[g] /\ content[g] \in Seq(Item)
            BY <1>1, <1>4, <2>2
        <3>2. \A i \in DOMAIN content[g] : content[g][i].id \in Nat
            BY <3>1, ItemIds, LogTailAssumption
        <3> QED
            BY <1>1, <3>1, <3>2 DEF TailInv
    <2> QED
        BY <2>1, <2>2
<1>9. \A i \in DOMAIN buf : buf[i].id \in Nat /\ buf[i].id <= lines
    <2>1. \A i \in DOMAIN buf : buf[i] \in Item
        BY <1>1, SeqItems
    <2> QED
        BY <2>1, ItemIds, LogTailAssumption DEF TailInv
<1>10. \A h \in DOMAIN handled : handled[h] \in Nat /\ handled[h] <= lines
    <2>1. \A h \in DOMAIN handled : handled[h] \in 1..MaxLines
        BY <1>1, SeqItems
    <2> QED
        BY <2>1, LogTailAssumption DEF TailInv
<1>11. ASSUME step # "opening",
              NEW j \in DOMAIN content'[fd], j > pos, content'[fd][j].id # 0
       PROVE  /\ \A i \in DOMAIN buf : buf[i].id < content'[fd][j].id
              /\ \A h \in DOMAIN handled : handled[h] < content'[fd][j].id
    <2>1. CASE fd = f /\ j \notin DOMAIN c
        <3>1. content'[fd][j].id = lines + 1
            BY <1>4, <1>5, <1>11, <2>1
        <3> QED
            BY <1>1, <1>9, <1>10, <3>1
    <2>2. CASE fd = f /\ j \in DOMAIN c
        <3>1. content'[fd][j] = content[fd][j] /\ j \in DOMAIN content[fd]
            BY <1>3, <1>4, <2>2
        <3> QED
            BY <1>11, <3>1 DEF TailInv
    <2>3. CASE fd # f
        <3>1. content'[fd] = content[fd]
            BY <1>1, <1>4, <2>3
        <3> QED
            BY <1>11, <3>1 DEF TailInv
    <2> QED
        BY <2>1, <2>2, <2>3
<1>12. /\ \A i \in DOMAIN buf : buf[i].id <= lines'
       /\ \A h \in DOMAIN handled : handled[h] <= lines'
    BY <1>1, <1>9, <1>10
<1> QED
    BY <1>1, <1>8, <1>11, <1>12 DEF TailInv, Ordered, HandledInOrder

\* The items of a part of a sequence, and of two sequences in a row.
LEMMA Parts ==
    ASSUME NEW s \in Seq(Item), NEW m \in Nat, NEW n \in 0..Len(s)
    PROVE  /\ SubSeq(s, m + 1, n) \in Seq(Item)
           /\ \A i \in DOMAIN SubSeq(s, m + 1, n) :
                m + i \in DOMAIN s /\ m + i <= n /\ SubSeq(s, m + 1, n)[i] = s[m + i]
<1>1. \A i \in (m + 1)..n : s[i] \in Item
    OBVIOUS
<1>2. /\ SubSeq(s, m + 1, n) \in Seq(Item)
      /\ Len(SubSeq(s, m + 1, n)) = IF m + 1 <= n THEN n - m ELSE 0
      /\ \A i \in 1..(n - m) : SubSeq(s, m + 1, n)[i] = s[m + i]
    <2>1. m + 1 \in Int /\ n \in Int /\ n - (m + 1) + 1 = n - m
        OBVIOUS
    <2>2. \A i \in 1..(n - m) : (m + 1) + i - 1 = m + i
        OBVIOUS
    <2> QED
        BY <1>1, <2>1, <2>2, SubSeqProperties
<1>3. DOMAIN SubSeq(s, m + 1, n) = 1..(IF m + 1 <= n THEN n - m ELSE 0)
    BY <1>2
<1> QED
    BY <1>2, <1>3

LEMMA Joined ==
    ASSUME NEW s \in Seq(Item), NEW t \in Seq(Item)
    PROVE  /\ s \o t \in Seq(Item)
           /\ \A i \in DOMAIN (s \o t) :
                \/ i \in DOMAIN s /\ (s \o t)[i] = s[i]
                \/ i > Len(s) /\ i - Len(s) \in DOMAIN t /\ (s \o t)[i] = t[i - Len(s)]
OBVIOUS

\* The items read_line draws on are in order, after what was handled and before what is
\* left in the file.
LEMMA RefillIs ==
    ASSUME TailInv, step # "opening"
    PROVE  LET p == IF HasLF(buf) \/ Len(content[fd]) < pos THEN pos ELSE Len(content[fd])
           IN  /\ Refill \in Seq(Item) /\ Ordered(Refill) /\ p \in Nat
               /\ \A i \in DOMAIN Refill : Refill[i].id <= lines
               /\ \A i \in DOMAIN Refill, h \in DOMAIN handled :
                    Refill[i].id # 0 => handled[h] < Refill[i].id
               /\ \A j \in DOMAIN content[fd] : (j > p /\ content[fd][j].id # 0) =>
                    /\ \A i \in DOMAIN Refill : Refill[i].id < content[fd][j].id
                    /\ \A h \in DOMAIN handled : handled[h] < content[fd][j].id
<1> DEFINE c == content[fd]
<1>1. /\ content \in [Inodes \cup {NoFile} -> Seq(Item)] /\ buf \in Seq(Item)
      /\ fd \in Inodes \cup {NoFile} /\ pos \in Nat
    BY DEF TailInv, TailTypeOK, Item
<1>2. c \in Seq(Item) /\ Len(c) \in Nat
    BY <1>1
<1>3. Ordered(c) /\ \A i \in DOMAIN c : c[i].id <= lines
    BY <1>1 DEF TailInv
<1>4. CASE HasLF(buf)
    <2>1. Refill = buf
        BY <1>4 DEF Refill
    <2> QED
        BY <1>1, <1>4, <2>1 DEF TailInv
<1>5. CASE ~HasLF(buf)
    <2>1. Refill = buf \o Beyond
        BY <1>5 DEF Refill
    <2>2. /\ Beyond \in Seq(Item)
          /\ \A i \in DOMAIN Beyond : pos + i \in DOMAIN c /\ Beyond[i] = c[pos + i]
        BY <1>1, <1>2, Parts DEF Beyond
    <2>3. /\ Refill \in Seq(Item)
          /\ \A i \in DOMAIN Refill :
               \/ i \in DOMAIN buf /\ Refill[i] = buf[i]
               \/ /\ i > Len(buf) /\ pos + (i - Len(buf)) \in DOMAIN c
                  /\ Refill[i] = c[pos + (i - Len(buf))]
        BY <1>1, <2>1, <2>2, Joined
    <2>4. ASSUME NEW i \in DOMAIN Refill, NEW j \in DOMAIN Refill, i < j, Refill[j].id # 0
          PROVE  Refill[i].id < Refill[j].id
        <3>0. i \in Nat /\ j \in Nat /\ Len(buf) \in Nat /\ DOMAIN buf = 1..Len(buf)
            BY <1>1, <2>3
        <3>1. CASE j \in DOMAIN buf
            <4>1. i \in DOMAIN buf /\ Refill[i] = buf[i] /\ Refill[j] = buf[j]
                BY <2>3, <2>4, <3>0, <3>1
            <4> QED
                BY <2>4, <3>1, <4>1 DEF TailInv, Ordered
        <3>2. CASE i \in DOMAIN buf /\ j \notin DOMAIN buf
            <4> DEFINE k == pos + (j - Len(buf))
            <4>1. k \in DOMAIN c /\ k > pos /\ Refill[j] = c[k]
                BY <1>1, <2>3, <3>0, <3>2
            <4>2. Refill[i] = buf[i]
                BY <2>3, <3>0, <3>2
            <4> HIDE DEF k
            <4> QED
                BY <2>4, <3>2, <4>1, <4>2 DEF TailInv
        <3>3. CASE i \notin DOMAIN buf
            <4> DEFINE k == pos + (i - Len(buf))
                       l == pos + (j - Len(buf))
            <4>1. j \notin DOMAIN buf
                BY <2>3, <2>4, <3>0, <3>3
            <4>2. k \in DOMAIN c /\ l \in DOMAIN c /\ k < l /\ Refill[i] = c[k] /\ Refill[j] = c[l]
                BY <1>1, <2>3, <2>4, <3>0, <3>3, <4>1
            <4> HIDE DEF k, l
            <4> QED
                BY <1>3, <2>4, <4>2 DEF Ordered
        <3> QED
            BY <3>1, <3>2, <3>3
    <2>5. \A i \in DOMAIN Refill : Refill[i].id <= lines
        BY <1>3, <2>3 DEF TailInv
    <2>6. ASSUME NEW i \in DOMAIN Refill, NEW h \in DOMAIN handled, Refill[i].id # 0
          PROVE  handled[h] < Refill[i].id
        <3>1. CASE i \in DOMAIN buf /\ Refill[i] = buf[i]
            BY <2>6, <3>1 DEF TailInv
        <3>2. CASE i > Len(buf) /\ pos + (i - Len(buf)) \in DOMAIN c
                   /\ Refill[i] = c[pos + (i - Len(buf))]
            <4> DEFINE k == pos + (i - Len(buf))
            <4>1. k \in DOMAIN c /\ k > pos /\ Refill[i] = c[k]
                BY <1>1, <2>3, <3>2
            <4> HIDE DEF k
            <4> QED
                BY <2>6, <4>1 DEF TailInv
        <3> QED
            BY <2>3, <3>1, <3>2
    <2>7. \A j \in DOMAIN c : ~(j > IF Len(c) < pos THEN pos ELSE Len(c))
        BY <1>1, <1>2
    <2> QED
        BY <1>1, <1>2, <1>5, <2>3, <2>4, <2>5, <2>6, <2>7 DEF Ordered
<1> QED
    BY <1>4, <1>5

\* A line is read: its failure is later than those handled, and earlier than what is left.
LEMMA ReadLineStep ==
    ASSUME TailInv, ReadLine
    PROVE  TailInv'
<1> DEFINE R == Refill
           n == IF HasLF(R) THEN FirstLF(R) ELSE Len(R)
           line == SubSeq(R, 1, n)
           rest == SubSeq(R, n + 1, Len(R))
           p == IF HasLF(buf) \/ Len(content[fd]) < pos THEN pos ELSE Len(content[fd])
<1>1. /\ R \in Seq(Item) /\ Ordered(R) /\ p \in Nat
      /\ \A i \in DOMAIN R : R[i].id <= lines
      /\ \A i \in DOMAIN R, h \in DOMAIN handled : R[i].id # 0 => handled[h] < R[i].id
      /\ \A j \in DOMAIN content[fd] : (j > p /\ content[fd][j].id # 0) =>
           /\ \A i \in DOMAIN R : R[i].id < content[fd][j].id
           /\ \A h \in DOMAIN handled : handled[h] < content[fd][j].id
    BY RefillIs DEF ReadLine
<1>2. /\ buf' = rest /\ pos' = p
      /\ handled' = IF ParseLogLine(line) = {} THEN handled
                    ELSE Append(handled, line[CHOOSE i \in ParseLogLine(line) : TRUE].id)
      /\ UNCHANGED <<path, content, created, lines, writer, step, fd, inode, errors, lost>>
    BY DEF ReadLine, fileVars
<1>3. n \in 0..Len(R)
    BY <1>1, FirstLFIs
<1> HIDE DEF R, n, p
<1>4. line \in Seq(Item) /\ \A i \in DOMAIN line : i \in DOMAIN R /\ i <= n /\ line[i] = R[i]
    <2>1. /\ SubSeq(R, 0 + 1, n) \in Seq(Item)
          /\ \A i \in DOMAIN SubSeq(R, 0 + 1, n) :
               0 + i \in DOMAIN R /\ 0 + i <= n /\ SubSeq(R, 0 + 1, n)[i] = R[0 + i]
        BY <1>1, <1>3, Parts
    <2>2. \A i \in DOMAIN line : 0 + i = i
        BY <2>1
    <2> QED
        BY <2>1, <2>2
<1>5. /\ rest \in Seq(Item)
      /\ \A i \in DOMAIN rest : n + i \in DOMAIN R /\ rest[i] = R[n + i]
    <2>1. Len(R) \in 0..Len(R) /\ n \in Nat
        BY <1>1, <1>3
    <2> QED
        BY <1>1, <2>1, Parts
<1> HIDE DEF line, rest
<1>6. /\ \A i \in DOMAIN R : R[i].id \in 0..MaxLines
      /\ lines \in 0..MaxLines /\ handled \in Seq(1..MaxLines) /\ n \in Nat
    <2>1. \A i \in DOMAIN R : R[i] \in Item
        BY <1>1, SeqItems
    <2> QED
        BY <1>3, <2>1, ItemIds DEF TailInv, TailTypeOK
<1>7. Ordered(rest) /\ \A i \in DOMAIN rest : rest[i].id <= lines
    <2>1. \A i \in DOMAIN rest : i \in Nat
        BY <1>5
    <2>2. \A i, j \in DOMAIN rest : i < j => n + i < n + j
        BY <1>6, <2>1
    <2> QED
        BY <1>1, <1>5, <2>2 DEF Ordered
<1>8. \A h \in DOMAIN handled : handled[h] \in 1..MaxLines /\ handled[h] <= lines
    BY <1>6, SeqItems DEF TailInv
\* What the handled failures, with the new one, satisfy.
<1>9. /\ handled' \in Seq(1..MaxLines)
      /\ \A g, h \in DOMAIN handled' : g < h => handled'[g] < handled'[h]
      /\ \A h \in DOMAIN handled' :
           \/ h \in DOMAIN handled /\ handled'[h] = handled[h]
           \/ \E i \in DOMAIN R : i <= n /\ R[i].id # 0 /\ handled'[h] = R[i].id
    <2>1. CASE ParseLogLine(line) = {}
        BY <1>2, <1>6, <2>1 DEF TailInv, HandledInOrder
    <2>2. CASE ParseLogLine(line) # {}
        <3> DEFINE i == CHOOSE i \in ParseLogLine(line) : TRUE
                   id == line[i].id
        <3>1. i \in DOMAIN line /\ id \in 1..MaxLines
            BY <1>4, <2>2, ParsedIsText
        <3>2. i \in DOMAIN R /\ i <= n /\ id = R[i].id
            BY <1>4, <3>1
        <3>3. handled' = Append(handled, id)
            BY <1>2, <2>2
        <3> HIDE DEF i, id
        <3>4. /\ handled' \in Seq(1..MaxLines) /\ DOMAIN handled' = 1..(Len(handled) + 1)
              /\ handled'[Len(handled) + 1] = id
              /\ \A h \in DOMAIN handled : handled'[h] = handled[h]
            BY <1>6, <3>1, <3>3
        <3>5. \A h \in DOMAIN handled' : h \in DOMAIN handled \/ h = Len(handled) + 1
            BY <1>6, <3>4
        <3>6. id # 0 /\ \A h \in DOMAIN handled : handled[h] < id
            BY <1>1, <3>1, <3>2
        <3>7. ASSUME NEW g \in DOMAIN handled', NEW h \in DOMAIN handled', g < h
              PROVE  handled'[g] < handled'[h]
            <4>1. g \in DOMAIN handled
                BY <1>6, <3>4, <3>7
            <4>2. CASE h \in DOMAIN handled
                BY <3>4, <3>7, <4>1, <4>2 DEF TailInv, HandledInOrder
            <4>3. CASE h = Len(handled) + 1
                BY <3>4, <3>6, <4>1, <4>3
            <4> QED
                BY <3>5, <4>2, <4>3
        <3> QED
            BY <3>2, <3>4, <3>5, <3>6, <3>7
    <2> QED
        BY <2>1, <2>2
<1>10. TailTypeOK'
    BY <1>1, <1>2, <1>5, <1>9 DEF TailInv, TailTypeOK, Item
<1>11. \A j \in DOMAIN content[fd] : (j > pos' /\ content[fd][j].id # 0) =>
         /\ \A i \in DOMAIN buf' : buf'[i].id < content[fd][j].id
         /\ \A h \in DOMAIN handled' : handled'[h] < content[fd][j].id
    BY <1>1, <1>2, <1>5, <1>9
<1>12. ASSUME NEW i \in DOMAIN buf', NEW h \in DOMAIN handled', buf'[i].id # 0
       PROVE  handled'[h] < buf'[i].id
    <2>1. n + i \in DOMAIN R /\ buf'[i] = R[n + i] /\ i \in Nat \ {0}
        BY <1>2, <1>5, <1>12
    <2>2. CASE h \in DOMAIN handled /\ handled'[h] = handled[h]
        BY <1>1, <1>12, <2>1, <2>2
    <2>3. ASSUME NEW k \in DOMAIN R, k <= n, handled'[h] = R[k].id PROVE handled'[h] < buf'[i].id
        <3>1. k < n + i
            BY <1>1, <1>6, <2>1, <2>3
        <3> QED
            BY <1>1, <1>12, <2>1, <2>3, <3>1 DEF Ordered
    <2> QED
        BY <1>9, <2>2, <2>3
<1>13. \A h \in DOMAIN handled' : handled'[h] <= lines
    BY <1>1, <1>8, <1>9
<1> QED
    BY <1>2, <1>7, <1>9, <1>10, <1>11, <1>12, <1>13 DEF TailInv, HandledInOrder, Ordered

\* Types of one step.
LEMMA TailTypes == TailInv /\ [TailNext]_tailVars => TailTypeOK' /\ fd' \in Inodes \cup {NoFile}
<1> SUFFICES ASSUME TailInv, [TailNext]_tailVars
             PROVE  TailTypeOK' /\ fd' \in Inodes \cup {NoFile}
    OBVIOUS
<1> USE DEF Item
<1>0. TailTypeOK /\ fd \in Inodes \cup {NoFile}
    BY DEF TailInv
<1>1. ASSUME NEW f \in Inodes \cup {NoFile}, NEW s \in Seq(Item), AppendTo(f, s)
      PROVE  content' \in [Inodes \cup {NoFile} -> Seq(Item)]
    <2>1. content[f] \o s \in Seq(Item)
        BY <1>0 DEF TailTypeOK
    <2> QED
        BY <1>0, <1>1, <2>1 DEF AppendTo, TailTypeOK
<1>2. lines < MaxLines => lines + 1 \in 1..MaxLines
    BY <1>0, LogTailAssumption DEF TailTypeOK
<1>3. created < MaxInodes => created + 1 \in Inodes
    BY <1>0, LogTailAssumption DEF TailTypeOK, Inodes
<1>13. FailureIds(Beyond) \subseteq 1..MaxLines /\ FailureIds(Ahead) \subseteq 1..MaxLines
    <2>1. \A s \in Seq(Item) : FailureIds(s) \subseteq 1..MaxLines
        BY SeqItems, ItemIds DEF FailureIds
    <2>2. /\ content[fd] \in Seq(Item) /\ pos \in Nat /\ buf \in Seq(Item)
          /\ Len(content[fd]) \in 0..Len(content[fd])
        BY <1>0 DEF TailTypeOK
    <2>3. Beyond \in Seq(Item)
        BY <2>2, Parts DEF Beyond
    <2>4. Ahead \in Seq(Item)
        BY <2>2, <2>3, Joined DEF Ahead
    <2> QED
        BY <2>1, <2>3, <2>4
<1>4. ASSUME NEW k \in {"mail", "noise"}, MailServiceWrite(k)
      PROVE  TailTypeOK' /\ fd' \in Inodes \cup {NoFile}
    <2>1. <<[id |-> lines + 1, kind |-> k], LF>> \in Seq(Item)
        BY <1>2, <1>4 DEF MailServiceWrite, Text
    <2> QED
        <3>1. content' \in [Inodes \cup {NoFile} -> Seq(Item)]
            BY <1>0, <1>1, <1>4, <2>1 DEF MailServiceWrite, TailTypeOK
        <3>2. lines' \in 0..MaxLines
            BY <1>2, <1>4 DEF MailServiceWrite
        <3> QED
            BY <1>0, <1>4, <3>1, <3>2 DEF MailServiceWrite, TailTypeOK, watchVars
<1>5. ASSUME NEW w \in Writers, WebOpen(w)
      PROVE  TailTypeOK' /\ fd' \in Inodes \cup {NoFile}
    <2>1. path' \in Inodes /\ created' \in Inodes
        BY <1>0, <1>3, <1>5 DEF WebOpen, TailTypeOK
    <2>2. [step |-> "text", fd |-> path'] \in [step : {"idle", "text", "lf"}, fd : Inodes \cup {NoFile}]
        BY <2>1
    <2> QED
        BY <1>0, <1>5, <2>1, <2>2 DEF WebOpen, TailTypeOK, watchVars
<1>6. ASSUME NEW w \in Writers, WebWriteText(w)
      PROVE  TailTypeOK' /\ fd' \in Inodes \cup {NoFile}
    <2>1. <<[id |-> lines + 1, kind |-> "web"]>> \in Seq(Item)
        BY <1>2, <1>6 DEF WebWriteText, Text
    <2> QED
        <3>1. content' \in [Inodes \cup {NoFile} -> Seq(Item)]
            BY <1>0, <1>1, <1>6, <2>1 DEF WebWriteText, TailTypeOK
        <3>2. lines' \in 0..MaxLines
            BY <1>2, <1>6 DEF WebWriteText
        <3> QED
            BY <1>0, <1>6, <3>1, <3>2 DEF WebWriteText, TailTypeOK, watchVars
<1>7. ASSUME NEW w \in Writers, WebWriteLF(w)
      PROVE  TailTypeOK' /\ fd' \in Inodes \cup {NoFile}
    <2>1. <<LF>> \in Seq(Item)
        OBVIOUS
    <2> QED
        BY <1>0, <1>1, <1>7, <2>1 DEF WebWriteLF, TailTypeOK, watchVars
<1>8. CASE RotateRename \/ RotateCreate \/ RotateTruncate
    <2>1. <<>> \in Seq(Item)
        OBVIOUS
    <2>2. lost' \subseteq 1..MaxLines
        BY <1>0, <1>8, <1>13 DEF RotateRename, RotateCreate, RotateTruncate, TailTypeOK
    <2> QED
        BY <1>0, <1>3, <1>8, <2>1, <2>2
           DEF RotateRename, RotateCreate, RotateTruncate, TailTypeOK, watchVars
<1>9. CASE OpenLog
    <2>1. path \in Inodes /\ SeekEnd(path) \in Nat /\ <<>> \in Seq(Item)
        BY <1>0, <1>9 DEF OpenLog, LogExists, SeekEnd, TailTypeOK
    <2> QED
        BY <1>0, <1>9, <2>1 DEF OpenLog, TailTypeOK, fileVars
<1>10. CASE ReadEof \/ Poll \/ UNCHANGED tailVars
    BY <1>0, <1>10 DEF ReadEof, Poll, TailTypeOK, tailVars, fileVars, watchVars
<1>12. CASE Reopen \/ ReadFails
    <2>1. /\ step' = "opening" /\ fd' = NoFile /\ inode' = NoFile /\ pos' = 0 /\ buf' = <<>>
          /\ UNCHANGED <<path, content, created, lines, writer, handled>>
        BY <1>12 DEF Reopen, ReadFails, CloseLog, fileVars
    <2>2. errors' \in 0..MaxReadErrors
        BY <1>0, <1>12, LogTailAssumption DEF Reopen, ReadFails, TailTypeOK
    <2>3. lost' \subseteq 1..MaxLines
        BY <1>0, <1>12, <1>13 DEF Reopen, ReadFails, TailTypeOK
    <2> QED
        BY <1>0, <2>1, <2>2, <2>3 DEF TailTypeOK
<1>11. CASE ReadLine
    BY <1>11, ReadLineStep DEF TailInv
<1> QED
    BY <1>4, <1>5, <1>6, <1>7, <1>8, <1>9, <1>10, <1>11, <1>12 DEF TailNext, Tailing

\* A step of a web writer or of the mail services.
LEMMA WriteStep ==
    ASSUME TailInv, TailTypeOK',
           \/ \E k \in {"mail", "noise"} : MailServiceWrite(k)
           \/ \E w \in Writers : WebWriteText(w) \/ WebWriteLF(w)
    PROVE  TailInv'
<1>0. lines \in 0..MaxLines
    BY DEF TailInv, TailTypeOK
<1>1. lines < MaxLines => lines + 1 \in 1..MaxLines
    BY <1>0, LogTailAssumption
<1>2. ASSUME NEW k \in {"mail", "noise"}, MailServiceWrite(k) PROVE TailInv'
    <2> DEFINE s == <<[id |-> lines + 1, kind |-> k], LF>>
    <2>1. s \in Seq(Item) /\ Len(s) = 2 /\ s[1].id = lines + 1 /\ s[2].id = 0
        BY <1>1, <1>2 DEF MailServiceWrite, Item, Text, LF
    <2>2. AppendTo(path, s) /\ lines' = lines + 1 /\ UNCHANGED <<watchVars, lost>>
          /\ path \in Inodes \cup {NoFile}
        BY <1>2 DEF MailServiceWrite, TailInv, TailTypeOK
    <2> HIDE DEF s
    <2>3. Len(s) \in {1, 2} /\ (Len(s) = 2 => s[2].id = 0)
        BY <2>1
    <2>4. \/ s[1].id = 0 /\ lines' = lines
          \/ s[1].id = lines + 1 /\ lines' = lines + 1
        BY <2>1, <2>2
    <2> QED
        BY <2>1, <2>2, <2>3, <2>4, AppendStep
<1>3. ASSUME NEW w \in Writers, WebWriteText(w) PROVE TailInv'
    <2> DEFINE s == <<[id |-> lines + 1, kind |-> "web"]>>
    <2>1. s \in Seq(Item) /\ Len(s) = 1 /\ s[1].id = lines + 1
        BY <1>1, <1>3 DEF WebWriteText, Item, Text
    <2>2. AppendTo(writer[w].fd, s) /\ lines' = lines + 1 /\ UNCHANGED <<watchVars, lost>>
          /\ writer[w].fd \in Inodes \cup {NoFile}
        BY <1>3 DEF WebWriteText, TailInv, TailTypeOK
    <2> HIDE DEF s
    <2>3. Len(s) \in {1, 2} /\ (Len(s) = 2 => s[2].id = 0)
        BY <2>1
    <2>4. \/ s[1].id = 0 /\ lines' = lines
          \/ s[1].id = lines + 1 /\ lines' = lines + 1
        BY <2>1, <2>2
    <2> QED
        BY <2>1, <2>2, <2>3, <2>4, AppendStep
<1>4. ASSUME NEW w \in Writers, WebWriteLF(w) PROVE TailInv'
    <2> DEFINE s == <<LF>>
    <2>1. s \in Seq(Item) /\ Len(s) = 1 /\ s[1].id = 0
        BY DEF Item, LF
    <2>2. AppendTo(writer[w].fd, s) /\ lines' = lines /\ UNCHANGED <<watchVars, lost>>
          /\ writer[w].fd \in Inodes \cup {NoFile}
        BY <1>4 DEF WebWriteLF, TailInv, TailTypeOK
    <2> HIDE DEF s
    <2>3. Len(s) \in {1, 2} /\ (Len(s) = 2 => s[2].id = 0)
        BY <2>1
    <2>4. \/ s[1].id = 0 /\ lines' = lines
          \/ s[1].id = lines + 1 /\ lines' = lines + 1
        BY <2>1, <2>2
    <2> QED
        BY <2>1, <2>2, <2>3, <2>4, AppendStep
<1> QED
    BY <1>2, <1>3, <1>4

LEMMA TailStep == TailInv /\ [TailNext]_tailVars => TailInv'
<1> SUFFICES ASSUME TailInv, [TailNext]_tailVars
             PROVE  TailInv'
    OBVIOUS
<1>1. TailTypeOK' /\ fd' \in Inodes \cup {NoFile}
    BY TailTypes
<1>2. CASE \/ \E k \in {"mail", "noise"} : MailServiceWrite(k)
           \/ \E w \in Writers : WebWriteText(w) \/ WebWriteLF(w)
    BY <1>1, <1>2, WriteStep
<1>3. CASE \/ \E w \in Writers : WebOpen(w)
           \/ RotateRename \/ RotateCreate \/ ReadEof \/ Poll \/ UNCHANGED tailVars
    <2>1. UNCHANGED <<content, lines, fd, pos, buf, handled>>
        BY <1>3 DEF WebOpen, RotateRename, RotateCreate, ReadEof, Poll, tailVars, fileVars, watchVars
    <2>2. step' # "opening" => step # "opening"
        BY <1>3 DEF WebOpen, RotateRename, RotateCreate, ReadEof, Poll, tailVars, watchVars
    <2> QED
        BY <1>1, <2>1, <2>2 DEF TailInv, Ordered, HandledInOrder
<1>7. CASE Reopen \/ ReadFails
    <2>1. step' = "opening" /\ buf' = <<>> /\ UNCHANGED <<content, lines, handled>>
        BY <1>7 DEF Reopen, ReadFails, CloseLog, fileVars
    <2> QED
        BY <1>1, <2>1 DEF TailInv, Ordered, HandledInOrder
<1>4. CASE RotateTruncate
    <2>1. /\ content' = [content EXCEPT ![path] = <<>>] /\ path \in Inodes \cup {NoFile}
          /\ UNCHANGED <<lines, fd, pos, buf, handled, step>>
        BY <1>4 DEF RotateTruncate, watchVars, TailInv, TailTypeOK
    <2>2. \A f \in Inodes \cup {NoFile} : content'[f] = content[f] \/ content'[f] = <<>>
        BY <2>1 DEF TailInv, TailTypeOK
    <2> QED
        BY <1>1, <2>1, <2>2 DEF TailInv, Ordered, HandledInOrder
<1>5. CASE OpenLog
    <2>1. /\ UNCHANGED <<content, lines, handled>>
          /\ fd' = path /\ pos' = Len(content[path]) /\ buf' = <<>>
        BY <1>5 DEF OpenLog, SeekEnd, fileVars
    <2>2. content[path] \in Seq(Item)
        BY DEF TailInv, TailTypeOK, Item
    <2>3. \A j \in DOMAIN content'[fd'] : ~(j > pos')
        BY <2>1, <2>2
    <2> QED
        BY <1>1, <2>1, <2>3 DEF TailInv, Ordered, HandledInOrder
<1>6. CASE ReadLine
    BY <1>6, ReadLineStep
<1> QED
    BY <1>2, <1>3, <1>4, <1>5, <1>6, <1>7 DEF TailNext, Tailing

\* Types of the watcher's state, and that a watcher which reads has a file open
\* (start_watcher, tail_log_file).
THEOREM TailTypeCorrect == TailSpec => []TailTypeOK
<1>1. TailInv => TailTypeOK
    BY DEF TailInv
<1> QED
    BY TailStarts, TailStep, <1>1, PTL DEF TailSpec

\* tail_log_file hands on each failure at most once and in the order written, for any
\* number of lines, writers, files, renames and truncations.
THEOREM ReadsForward == TailSpec => []HandledInOrder
<1>1. TailInv => HandledInOrder
    BY DEF TailInv
<1> QED
    BY TailStarts, TailStep, <1>1, PTL DEF TailSpec

=============================================================================
