--------------------------- MODULE UserDataProofs ---------------------------
(***************************************************************************)
(* Theorems about what mail users reach with their account's password, for *)
(* any clients, collections and messages: the failure limit on the         *)
(* passwords (DavGuard), calendars and address books (DavCollections) and  *)
(* JMAP (Jmap).                                                            *)
(***************************************************************************)
EXTENDS MCUserData, WebDavProofs

-----------------------------------------------------------------------------
(* DavGuard: types.                                                        *)

Record == [count : 0..MAX_FAILURES, first : 0..time,
           until : NotBanned..(MaxTime + BAN_DURATION)]

Attempt == [key : Keys \cup {NoKey}, lenient : BOOLEAN]

\* What GTypeOK says of records and attempts, with the functions they are in.
GuardTypes ==
    /\ time \in 0..MaxTime
    /\ failures \in [Keys -> Record]
    /\ attempt \in [Attempts -> Attempt]
    /\ \A q \in Attempts : attempt[q] # Free => attempt[q].key \in Keys
    /\ banEnd \in [Keys -> Nat]
    /\ Cardinality(Present) <= MAX_ENTRIES
    /\ freed \subseteq Keys

\* A ban that is in force is in the key's record, unless its end was brought about.
BansRecorded == \A k \in Keys \ freed : InForce(k) => failures[k].until = banEnd[k]

GuardInv == GuardTypes /\ BansRecorded

\* What record_failure makes of a record is a record, with a ban that is in force or none.
LEMMA CountedType ==
    ASSUME time \in 0..MaxTime, NEW rec \in Record
    PROVE  Fresh \in Record /\ Counted(rec) \in Record
<1> USE DavGuardAssumption DEF Record, NotBanned
<1>1. Fresh \in Record
    BY DEF Fresh
<1>2. time + BAN_DURATION \in NotBanned..(MaxTime + BAN_DURATION)
    OBVIOUS
<1>3. CASE ~OutOfWindow(rec) /\ rec.count >= MAX_FAILURES
    <2>1. Counted(rec) = [count |-> rec.count, first |-> rec.first, until |-> time + BAN_DURATION]
        BY <1>3 DEF Counted
    <2>2. rec.count \in 0..MAX_FAILURES /\ rec.first \in 0..time
        OBVIOUS
    <2> HIDE DEF NotBanned
    <2> QED
        BY <1>1, <1>2, <2>1, <2>2
<1>4. CASE ~OutOfWindow(rec) /\ ~(rec.count >= MAX_FAILURES)
    <2>1. Counted(rec) = [count |-> rec.count + 1, first |-> rec.first,
                          until |-> IF rec.count + 1 >= MAX_FAILURES
                                      THEN time + BAN_DURATION ELSE rec.until]
        BY <1>4 DEF Counted
    <2>2. rec.count + 1 \in 0..MAX_FAILURES
        BY <1>4
    <2>3. rec.first \in 0..time /\ rec.until \in NotBanned..(MaxTime + BAN_DURATION)
        OBVIOUS
    <2>4. (IF rec.count + 1 >= MAX_FAILURES THEN time + BAN_DURATION ELSE rec.until)
              \in NotBanned..(MaxTime + BAN_DURATION)
        BY <1>2, <2>3
    <2> HIDE DEF NotBanned
    <2> QED
        BY <1>1, <2>1, <2>2, <2>3, <2>4
<1>5. CASE OutOfWindow(rec)
    BY <1>1, <1>5 DEF Counted
<1> QED
    BY <1>1, <1>3, <1>4, <1>5

\* Keys with a record are finitely many, and removing keys' records removes them.
LEMMA PresentFinite == IsFiniteSet(Present) /\ Cardinality(Present) \in Nat
<1>1. IsFiniteSet(Present)
    BY DavGuardAssumption, FS_Subset DEF Present
<1> QED
    BY <1>1, FS_CardinalityType

\* Making room leaves fewer than MAX_ENTRIES keys.
LEMMA EvictionsMakeRoom ==
    ASSUME Cardinality(Present) <= MAX_ENTRIES, NEW k, NEW gone \in Evictions(k)
    PROVE  Cardinality(Present \ gone) \in Nat /\ Cardinality(Present \ gone) < MAX_ENTRIES
<1> DEFINE stale == {j \in Present : Expired(failures[j])}
<1>1. \A S : IsFiniteSet(Present \ S) /\ Cardinality(Present \ S) \in Nat
             /\ Cardinality(Present \ S) <= Cardinality(Present)
    BY PresentFinite, FS_Subset, FS_CardinalityType
<1>2. CASE Cardinality(Present) < MAX_ENTRIES
    BY <1>1, <1>2, PresentFinite, DavGuardAssumption DEF Evictions
<1>3. CASE ~(Cardinality(Present) < MAX_ENTRIES)
    <2>1. CASE Cardinality(Present \ stale) < MAX_ENTRIES
        BY <1>1, <1>3, <2>1 DEF Evictions
    <2>2. CASE ~(Cardinality(Present \ stale) < MAX_ENTRIES)
        <3>1. PICK j \in Present \ stale : gone = stale \cup {j}
            BY <1>3, <2>2 DEF Evictions, Oldest
        <3>2. Present \ gone = (Present \ stale) \ {j}
            BY <3>1
        <3>3. /\ IsFiniteSet(Present \ stale) /\ Cardinality(Present \ stale) \in Nat
              /\ Cardinality(Present \ stale) <= Cardinality(Present)
            BY <1>1
        <3>4. Cardinality(Present \ gone) = Cardinality(Present \ stale) - 1
            BY <3>1, <3>2, <3>3, FS_RemoveElement
        <3>5. Cardinality(Present \ gone) \in Nat
            BY <1>1
        <3> QED
            BY <3>3, <3>4, <3>5, PresentFinite, DavGuardAssumption
    <2> QED
        BY <2>1, <2>2
<1> QED
    BY <1>2, <1>3

\* The initial state has the invariant.
LEMMA GuardInit == GInit => GuardInv
<1> SUFFICES ASSUME GInit
             PROVE  GuardInv
    OBVIOUS
<1>1. Present = {} /\ Cardinality(Present) = 0
    BY FS_EmptySet DEF GInit, Present
<1> QED
    BY <1>1, DavGuardAssumption
       DEF GInit, GuardInv, GuardTypes, BansRecorded, Record, Attempt, NoRecord, Free, InForce,
           NotBanned

\* is_locked may drop a record whose ban, or else whose window, is over.
LEMMA AskStep ==
    ASSUME GuardInv, NEW q \in Attempts, NEW k \in Keys, NEW lenient \in BOOLEAN,
           Ask(q, k, lenient)
    PROVE  GuardInv'
<1> USE DavGuardAssumption DEF GuardInv, GuardTypes
<1>1. NoRecord \in Record
    BY DEF NoRecord, Record, NotBanned
<1>2. /\ failures' \in [Keys -> Record']
      /\ \A j \in Keys : failures'[j] = failures[j] \/ (j = k /\ failures'[j] = Looked(failures[j]))
    <2>1. /\ failures' = [failures EXCEPT ![k] = Looked(failures[k])]
          /\ time' = time
        BY DEF Ask
    <2>2. Looked(failures[k]) \in Record
        BY <1>1 DEF Looked
    <2>3. Record' = Record
        BY <2>1 DEF Record
    <2> QED
        BY <2>1, <2>2, <2>3
<1>3. Present' \subseteq Present
    BY <1>2 DEF Present, Looked
<1>4. Cardinality(Present') <= MAX_ENTRIES
    <2>1. Cardinality(Present') <= Cardinality(Present) /\ Cardinality(Present') \in Nat
        BY <1>3, PresentFinite, FS_Subset, FS_CardinalityType
    <2> QED
        BY <2>1, PresentFinite
<1>5. /\ attempt' \in [Attempts -> Attempt]
      /\ \A p \in Attempts : attempt'[p] # Free => attempt'[p].key \in Keys
    BY DEF Ask, Attempt
<1>6. BansRecorded'
    <2> SUFFICES ASSUME NEW j \in Keys \ freed', InForce(j)'
                 PROVE  failures'[j].until = banEnd'[j]
        BY DEF BansRecorded
    <2>1. InForce(j) /\ j \notin freed /\ banEnd' = banEnd
        BY DEF Ask, InForce
    <2>2. failures[j].until = banEnd[j] /\ banEnd[j] \in Nat /\ time \in Nat
        BY <2>1 DEF BansRecorded
    <2>3. ~IsOver(failures[j])
        BY <2>1, <2>2 DEF InForce, IsOver, NotBanned
    <2> QED
        BY <1>2, <2>1, <2>2, <2>3 DEF Looked
<1> QED
    BY <1>2, <1>4, <1>5, <1>6 DEF Ask

\* An attempt that ends is free.
LEMMA EndedType ==
    ASSUME GuardTypes, NEW q \in Attempts, Ended(q)
    PROVE  /\ attempt' \in [Attempts -> Attempt]
           /\ \A p \in Attempts : attempt'[p] # Free => attempt'[p].key \in Keys
BY DEF GuardTypes, Ended, Attempt, Free

\* A failure is counted, or recorded in the place of others.
LEMMA FailStep ==
    ASSUME GuardInv, NEW q \in Attempts, Fail(q)
    PROVE  GuardInv'
<1> DEFINE k == attempt[q].key
           new == Counted(failures[k])
<1> USE DavGuardAssumption DEF GuardInv, GuardTypes
<1>1. k \in Keys /\ record_failure(k) /\ time' = time
    BY DEF Fail
<1>2. /\ attempt' \in [Attempts -> Attempt]
      /\ \A p \in Attempts : attempt'[p] # Free => attempt'[p].key \in Keys
    BY EndedType DEF Fail
<1>3. new \in Record /\ Fresh \in Record /\ NoRecord \in Record
    BY <1>1, CountedType DEF NoRecord, Record, NotBanned
<1> HIDE DEF k, new
<1>4. Record' = Record
    BY <1>1 DEF Record
<1>5. CASE k \in Present
    <2>1. /\ failures' = [failures EXCEPT ![k] = new]
          /\ banEnd' = [banEnd EXCEPT ![k] = IF new.until # NotBanned THEN new.until ELSE @]
          /\ freed' = IF new.until = NotBanned /\ InForce(k) THEN freed \cup {k}
                      ELSE IF new.until # NotBanned THEN freed \ {k} ELSE freed
        BY <1>1, <1>5 DEF record_failure, new
    <2>2. new.until # NotBanned => new.until \in Nat
        BY <1>3 DEF Record, NotBanned
    <2>3. banEnd' \in [Keys -> Nat] /\ failures' \in [Keys -> Record'] /\ freed' \subseteq Keys
        BY <1>1, <1>3, <1>4, <2>1, <2>2
    <2>4. Present' \subseteq Present
        BY <1>5, <2>1 DEF Present
    <2>5. Cardinality(Present') <= MAX_ENTRIES
        <3>1. Cardinality(Present') <= Cardinality(Present) /\ Cardinality(Present') \in Nat
            BY <2>4, PresentFinite, FS_Subset, FS_CardinalityType
        <3> QED
            BY <3>1, PresentFinite
    <2>6. BansRecorded'
        BY <1>1, <2>1 DEF BansRecorded, InForce
    <2> QED
        BY <1>1, <1>2, <2>3, <2>5, <2>6
<1>6. CASE k \notin Present
    <2>1. PICK gone \in Evictions(k) :
            /\ failures' = [j \in Keys |-> IF j = k THEN Fresh
                                           ELSE IF j \in gone THEN NoRecord ELSE failures[j]]
            /\ freed' = freed \cup {j \in gone : InForce(j)}
            /\ UNCHANGED banEnd
        BY <1>1, <1>6 DEF record_failure
    <2>2. gone \subseteq Present
        BY <2>1 DEF Evictions, Oldest
    <2>3. failures' \in [Keys -> Record'] /\ freed' \subseteq Keys
        BY <1>3, <1>4, <2>1, <2>2 DEF Present
    <2>4. Cardinality(Present') <= MAX_ENTRIES
        <3>1. Present' \subseteq (Present \ gone) \cup {k}
            BY <2>1 DEF Present
        <3>2. IsFiniteSet(Present \ gone)
            BY PresentFinite, FS_Subset
        <3>3. /\ IsFiniteSet((Present \ gone) \cup {k})
              /\ Cardinality((Present \ gone) \cup {k}) <= Cardinality(Present \ gone) + 1
              /\ Cardinality((Present \ gone) \cup {k}) \in Nat
            <4>1. k \notin Present \ gone
                BY <1>6
            <4>2. /\ IsFiniteSet((Present \ gone) \cup {k})
                  /\ Cardinality((Present \ gone) \cup {k}) = Cardinality(Present \ gone) + 1
                BY <3>2, <4>1, FS_AddElement
            <4>3. Cardinality(Present \ gone) \in Nat
                BY <3>2, FS_CardinalityType
            <4> QED
                BY <4>2, <4>3
        <3>4. /\ Cardinality(Present') <= Cardinality((Present \ gone) \cup {k})
              /\ Cardinality(Present') \in Nat
            BY <3>1, <3>3, FS_Subset, FS_CardinalityType
        <3>5. Cardinality(Present \ gone) \in Nat /\ Cardinality(Present \ gone) < MAX_ENTRIES
            BY <2>1, EvictionsMakeRoom
        <3> QED
            BY <3>3, <3>4, <3>5
    <2>5. BansRecorded'
        <3> SUFFICES ASSUME NEW j \in Keys \ freed', InForce(j)'
                     PROVE  failures'[j].until = banEnd'[j]
            BY DEF BansRecorded
        <3>1. /\ InForce(j) /\ j \notin freed /\ j \notin gone
              /\ failures[j].until = banEnd[j] /\ banEnd[j] \in Nat
            BY <1>1, <2>1 DEF InForce, BansRecorded
        <3>2. j # k
            BY <1>6, <3>1 DEF Present, NoRecord, NotBanned
        <3> QED
            BY <2>1, <3>1, <3>2
    <2> QED
        BY <1>1, <1>2, <2>1, <2>3, <2>4, <2>5
<1> QED
    BY <1>5, <1>6

\* A success takes the record away, and says so when a ban was in force.
LEMMA SucceedStep ==
    ASSUME GuardInv, NEW q \in Attempts, Succeed(q)
    PROVE  GuardInv'
<1> DEFINE k == attempt[q].key
<1> USE DavGuardAssumption DEF GuardInv, GuardTypes
<1>1. k \in Keys /\ clear(k) /\ time' = time
    BY DEF Succeed
<1>2. /\ attempt' \in [Attempts -> Attempt]
      /\ \A p \in Attempts : attempt'[p] # Free => attempt'[p].key \in Keys
    BY EndedType DEF Succeed
<1> HIDE DEF k
<1>3. failures' \in [Keys -> Record'] /\ freed' \subseteq Keys /\ banEnd' = banEnd
    BY <1>1 DEF clear, NoRecord, Record, NotBanned
<1>4. Present' \subseteq Present
    BY <1>1 DEF clear, Present
<1>5. Cardinality(Present') <= MAX_ENTRIES
    <2>1. Cardinality(Present') <= Cardinality(Present) /\ Cardinality(Present') \in Nat
        BY <1>4, PresentFinite, FS_Subset, FS_CardinalityType
    <2> QED
        BY <2>1, PresentFinite
<1>6. BansRecorded'
    BY <1>1 DEF clear, BansRecorded, InForce
<1> QED
    BY <1>1, <1>2, <1>3, <1>5, <1>6

\* The invariant is inductive.
LEMMA GuardNext == GuardInv /\ [GNext]_gvars => GuardInv'
<1> SUFFICES ASSUME GuardInv, [GNext]_gvars
             PROVE  GuardInv'
    OBVIOUS
<1>1. ASSUME NEW q \in Attempts, NEW k \in Keys,
             \/ require_webdav_auth(q, k) \/ authenticate_caldav_account(q, k)
             \/ authenticate_carddav_account(q, k) \/ auth_login(q, k)
      PROVE  GuardInv'
    BY <1>1, AskStep
       DEF require_webdav_auth, authenticate_caldav_account, authenticate_carddav_account,
           auth_login
<1>2. ASSUME NEW q \in Attempts, Fail(q) PROVE GuardInv'
    BY <1>2, FailStep
<1>3. ASSUME NEW q \in Attempts, Succeed(q) PROVE GuardInv'
    BY <1>3, SucceedStep
<1>4. ASSUME NEW q \in Attempts, RefuseInactive(q) PROVE GuardInv'
    <2>1. /\ attempt' \in [Attempts -> Attempt]
          /\ \A p \in Attempts : attempt'[p] # Free => attempt'[p].key \in Keys
        BY <1>4, EndedType DEF RefuseInactive, GuardInv
    <2> QED
        BY <1>4, <2>1
           DEF RefuseInactive, GuardInv, GuardTypes, BansRecorded, InForce, Record, Present
<1>5. CASE GTick
    <2>1. failures' \in [Keys -> Record'] /\ time' \in 0..MaxTime
        BY <1>5, DavGuardAssumption DEF GTick, GuardInv, GuardTypes, Record
    <2>2. BansRecorded'
        BY <1>5, DavGuardAssumption DEF GTick, GuardInv, GuardTypes, BansRecorded, InForce
    <2> QED
        BY <1>5, <2>1, <2>2 DEF GTick, GuardInv, GuardTypes, Present
<1>6. CASE UNCHANGED gvars
    BY <1>6 DEF gvars, GuardInv, GuardTypes, BansRecorded, InForce, Record, Present
<1> QED
    BY <1>1, <1>2, <1>3, <1>4, <1>5, <1>6 DEF GNext

\* The invariant gives the type and the property.
LEMMA GuardImplies == GuardInv => GTypeOK /\ BanHolds
<1> SUFFICES ASSUME GuardInv
             PROVE  GTypeOK /\ BanHolds
    OBVIOUS
<1>1. GTypeOK
    BY DEF GuardInv, GuardTypes, GTypeOK, Record, Attempt
<1>2. BanHolds
    <2> SUFFICES ASSUME NEW k \in Keys \ freed, InForce(k)
                 PROVE  is_locked(failures[k])
        BY DEF BanHolds
    <2>1. failures[k].until = banEnd[k] /\ banEnd[k] \in Nat /\ time \in Nat /\ time < banEnd[k]
        BY DavGuardAssumption DEF GuardInv, GuardTypes, BansRecorded, InForce
    <2> QED
        BY <2>1 DEF is_locked, IsOver, NotBanned
<1> QED
    BY <1>1, <1>2

\* Every reachable state of the table of failures and the attempts has its type, and the
\* table never holds more than MAX_ENTRIES keys (dav_auth::record_failure).
THEOREM GuardTypeCorrect == GSpec => []GTypeOK
BY GuardInit, GuardNext, GuardImplies, PTL DEF GSpec

\* A ban is in force until its time is over, for every protocol that asks the guard,
\* unless an attempt under way or an eviction ended it (dav_auth::is_locked).
THEOREM BansLast == GSpec => []BanHolds
BY GuardInit, GuardNext, GuardImplies, PTL DEF GSpec

-----------------------------------------------------------------------------
(* Jmap.                                                                   *)

States == 1..MaxState
Snapshots == SUBSET Known
Call == [pc : {"idle", "scanned", "diffed", "done"}, since : 0..MaxState, seen : Snapshots,
         state : 0..MaxState]

JmapTypes ==
    /\ JTypeOK
    /\ up \in BOOLEAN
    /\ folders \subseteq Folders
    /\ call \in [Calls -> Call]
    /\ \A c \in Calls : call[c].pc = "diffed" => call[c].state \in States
    /\ issued \in [States -> SUBSET Snapshots]

\* What is muddled stays so: every later state is muddled too.
MuddledUpwards == \A n \in muddled, m \in States : n <= m => m \in muddled

\* A call that is about to issue a state has read the row as it is, or what it issues is
\* muddled; and when the row has fallen behind a call, the row's state is muddled.
CallsCurrent ==
    up => \A c \in Calls : call[c].pc = "diffed" =>
            /\ call[c].state = row.state \/ call[c].state \in muddled
            /\ call[c].state > row.state => row.state \in muddled

\* A state that is not muddled names one snapshot at most, and none ahead of the row.
NamesOne ==
    \A n \in States \ muddled :
        /\ issued[n] # {} => row.state >= n
        /\ \A x, y \in issued[n] : x = y

JmapInv == JmapTypes /\ MuddledUpwards /\ CallsCurrent /\ NamesOne

\* The initial state has the invariant.
LEMMA JmapInit == JInit => JmapInv
<1> SUFFICES ASSUME JInit
             PROVE  JmapInv
    OBVIOUS
<1> USE JmapAssumption
<1>1. /\ call \in [Calls -> Call]
      /\ \A c \in Calls : call[c].pc = "idle" /\ call[c].seen = {}
    BY DEF JInit, Call, NoCall, Snapshots
<1>2. row \in [state : 1..MaxState, snapshot : SUBSET Known]
    BY DEF JInit, FirstRow
<1>3. /\ issued \in [States -> SUBSET Snapshots]
      /\ \A n \in States : issued[n] = {}
    BY DEF JInit, States
<1>4. JTypeOK
    BY <1>1, <1>2 DEF JInit, JTypeOK
<1> QED
    BY <1>1, <1>3, <1>4
       DEF JInit, JmapInv, JmapTypes, MuddledUpwards, CallsCurrent, NamesOne

\* What a call knows when it has not begun.
LEMMA NoCallType ==
    /\ NoCall \in Call
    /\ NoCall.pc = "idle" /\ NoCall.since = 0 /\ NoCall.seen = {} /\ NoCall.state = 0
BY JmapAssumption DEF NoCall, Call, Snapshots

\* Every folder's directory that a scan reads is one of the Maildir's.
LEMMA ScanType ==
    ASSUME JmapTypes
    PROVE  MailboxIds \in Snapshots /\ EmailIds \in Snapshots
<1>1. MailboxIds \in Snapshots
    BY DEF JmapTypes, MailboxIds, scan_maildir_folders, Snapshots, Known
<1>2. \A f \in scan_maildir_folders : FilesOf(f) \subseteq mail[Inbox]
    BY DEF FilesOf, mailbox_dir, mailbox_id_from_dir
<1>3. mail[Inbox] \subseteq Messages
    BY DEF JmapTypes, JTypeOK
<1>4. EmailIds \in Snapshots
    BY <1>2, <1>3 DEF EmailIds, Snapshots, Known
<1> QED
    BY <1>1, <1>4

LEMMA ScanStep ==
    ASSUME JmapInv, NEW c \in Calls, NEW since \in Held, NEW ids \in Snapshots,
           Scan(c, since, ids)
    PROVE  JmapInv'
<1>1. since \in 0..MaxState /\ ids \subseteq Known
    BY JmapAssumption DEF Held, Snapshots
<1> DEFINE scanned == [NoCall EXCEPT !.pc = "scanned", !.since = since, !.seen = ids]
<1>0. scanned \in Call /\ scanned.pc = "scanned" /\ scanned.seen = ids
    BY <1>1, NoCallType DEF Call
<1>2. /\ call' = [call EXCEPT ![c] = scanned]
      /\ UNCHANGED <<token, mail, folders, row, up, moves, issued, muddled>>
    BY DEF Scan
<1> HIDE DEF scanned
<1>3. JmapTypes'
    BY <1>0, <1>1, <1>2 DEF JmapInv, JmapTypes, JTypeOK, Known
<1> QED
    BY <1>0, <1>2, <1>3 DEF JmapInv, JmapTypes, MuddledUpwards, CallsCurrent, NamesOne

LEMMA ReadStateStep ==
    ASSUME JmapInv, NEW c \in Calls, ReadState(c)
    PROVE  JmapInv'
<1> DEFINE s == get_jmap_state.state
           next == IF call[c].since = s THEN [NoCall EXCEPT !.pc = "done"]
                   ELSE [call[c] EXCEPT !.pc = "diffed", !.state = s]
<1>1. s \in States /\ (up => s = row.state)
    BY JmapAssumption
       DEF JmapInv, JmapTypes, JTypeOK, get_jmap_state, FirstRow, States
<1>2. /\ call' = [call EXCEPT ![c] = next]
      /\ UNCHANGED <<token, mail, folders, row, up, moves, issued, muddled>>
    BY DEF ReadState
<1> HIDE DEF s
<1>3. /\ next \in Call /\ next.pc \in {"diffed", "done"}
      /\ next.pc = "diffed" => next.state = s
      /\ next.seen \subseteq Known
    <2>1. LET done == [NoCall EXCEPT !.pc = "done"]
          IN  done \in Call /\ done.pc = "done" /\ done.seen = {}
        BY NoCallType DEF Call
    <2>2. call[c] \in Call
        BY DEF JmapInv, JmapTypes
    <2>3. LET diffed == [call[c] EXCEPT !.pc = "diffed", !.state = s]
          IN  diffed \in Call /\ diffed.pc = "diffed" /\ diffed.state = s
              /\ diffed.seen \in Snapshots
        <3>1. s \in 0..MaxState
            BY <1>1, JmapAssumption DEF States
        <3>2. ASSUME NEW x \in Call, NEW n \in 0..MaxState
              PROVE  LET diffed == [x EXCEPT !.pc = "diffed", !.state = n]
                     IN  /\ diffed \in Call /\ diffed.pc = "diffed" /\ diffed.state = n
                         /\ diffed.seen = x.seen /\ x.seen \in Snapshots
            BY <3>2 DEF Call
        <3> QED
            BY <2>2, <3>1, <3>2
    <2> QED
        BY <2>1, <2>3 DEF Snapshots
<1> HIDE DEF next
<1>4. JmapTypes'
    BY <1>1, <1>2, <1>3 DEF JmapInv, JmapTypes, JTypeOK, Known
<1>5. CallsCurrent'
    BY <1>1, <1>2, <1>3 DEF JmapInv, JmapTypes, JTypeOK, CallsCurrent, States
<1> QED
    BY <1>2, <1>4, <1>5 DEF JmapInv, MuddledUpwards, NamesOne

LEMMA UpdateStep ==
    ASSUME JmapInv, NEW c \in Calls, update_jmap_state(c)
    PROVE  JmapInv'
<1> DEFINE s == call[c].state
           n == s + 1
           seen == call[c].seen
<1>1. s \in States /\ n \in States /\ call[c].pc = "diffed" /\ seen \in Snapshots
    BY JmapAssumption
       DEF JmapInv, JmapTypes, update_jmap_state, NewState, States, Call
<1>2. /\ row' = IF up THEN [state |-> n, snapshot |-> seen] ELSE row
      /\ issued' = [issued EXCEPT ![n] = @ \cup {seen}]
      /\ muddled' = muddled \cup (IF Rivals(c) # {} THEN s..MaxState ELSE {})
                            \cup (IF up THEN {} ELSE 1..MaxState)
      /\ call' = [call EXCEPT ![c] = [NoCall EXCEPT !.pc = "done"]]
      /\ UNCHANGED <<token, mail, folders, up, moves>>
    BY DEF update_jmap_state, NewState
<1>3. row.state \in States /\ muddled \subseteq States
    BY DEF JmapInv, JmapTypes, JTypeOK, States
<1> HIDE DEF s, seen
<1>4. JmapTypes'
    <2>1. call' \in [Calls -> Call] /\ \A d \in Calls \ {c} : call'[d] = call[d]
        BY <1>2, JmapAssumption DEF JmapInv, JmapTypes, Call, NoCall, Snapshots
    <2>2. call'[c].pc = "done" /\ call'[c].seen = {}
        BY <1>2 DEF JmapInv, JmapTypes, NoCall
    <2>3. issued' \in [States -> SUBSET Snapshots] /\ muddled' \subseteq States
        BY <1>1, <1>2, <1>3 DEF JmapInv, JmapTypes, States
    <2>4. row' \in [state : 1..MaxState, snapshot : SUBSET Known]
        BY <1>1, <1>2 DEF JmapInv, JmapTypes, JTypeOK, States, Snapshots
    <2> QED
        BY <1>2, <2>1, <2>2, <2>3, <2>4
           DEF JmapInv, JmapTypes, JTypeOK, States, Known
<1>5. CASE ~up
    <2>1. muddled' = States
        BY <1>1, <1>2, <1>3, <1>5 DEF States
    <2> QED
        BY <1>2, <1>4, <1>5, <2>1 DEF JmapInv, MuddledUpwards, CallsCurrent, NamesOne
<1>6. CASE up
    <2>1. /\ row'.state = n /\ up' = up
          /\ muddled \subseteq muddled'
          /\ \A m \in muddled' : m \in muddled \/ m >= s
          /\ Rivals(c) # {} => \A m \in States : m >= s => m \in muddled'
        BY <1>1, <1>2, <1>3, <1>6 DEF States
    <2>2. MuddledUpwards'
        <3> SUFFICES ASSUME NEW k \in muddled', NEW m \in States, k <= m
                     PROVE  m \in muddled'
            BY DEF MuddledUpwards
        <3>1. CASE k \in muddled
            BY <2>1, <3>1 DEF JmapInv, MuddledUpwards
        <3>2. CASE k \notin muddled
            <4>1. Rivals(c) # {} /\ k \in s..MaxState
                BY <1>2, <1>6, <3>2
            <4> QED
                BY <1>1, <2>1, <4>1 DEF States
        <3> QED
            BY <3>1, <3>2
    <2>3. s = row.state \/ s \in muddled
        BY <1>1, <1>6 DEF JmapInv, CallsCurrent, s
    <2>4. s \in muddled => \A m \in States : m >= s => m \in muddled
        BY <1>1 DEF JmapInv, MuddledUpwards, States
    <2>5. CallsCurrent'
        <3> SUFFICES ASSUME NEW d \in Calls, call'[d].pc = "diffed"
                     PROVE  /\ call'[d].state = n \/ call'[d].state \in muddled'
                            /\ call'[d].state > n => n \in muddled'
            BY <2>1 DEF CallsCurrent
        <3>1. d # c /\ call'[d] = call[d] /\ call[d].state \in States
            BY <1>2 DEF JmapInv, JmapTypes, NoCall
        <3>2. /\ call[d].state = row.state \/ call[d].state \in muddled
              /\ call[d].state > row.state => row.state \in muddled
            BY <1>6, <3>1 DEF JmapInv, CallsCurrent
        <3>3. CASE s \in muddled
            <4>1. n \in muddled
                BY <1>1, <2>4, <3>3 DEF States
            <4>2. call[d].state \in muddled
                <5>1. CASE row.state >= s
                    BY <1>3, <2>4, <3>2, <3>3, <5>1
                <5>2. CASE ~(row.state >= s)
                    <6>1. row.state \in muddled
                        BY <1>1, <1>3, <1>6, <5>2 DEF JmapInv, CallsCurrent, States, s
                    <6> QED
                        BY <3>2, <6>1
                <5> QED
                    BY <5>1, <5>2
            <4> QED
                BY <2>1, <3>1, <4>1, <4>2
        <3>4. CASE s \notin muddled
            <4>1. s = row.state
                BY <2>3, <3>4
            <4>2. call[d].state = row.state => d \in Rivals(c)
                BY <1>1, <3>1, <4>1 DEF Rivals, s
            <4>3. call[d].state \in muddled'
                BY <1>1, <2>1, <3>1, <3>2, <4>1, <4>2 DEF States
            <4>4. ~(call[d].state > n)
                BY <1>1, <3>1, <3>2, <3>4, <4>1 DEF States
            <4> QED
                BY <3>1, <4>3, <4>4
        <3> QED
            BY <3>3, <3>4
    <2>6. NamesOne'
        <3> SUFFICES ASSUME NEW m \in States \ muddled'
                     PROVE  /\ issued'[m] # {} => n >= m
                            /\ \A x, y \in issued'[m] : x = y
            BY <2>1 DEF NamesOne
        <3>1. m \notin muddled /\ m # s + 1 => issued'[m] = issued[m]
            BY <1>1, <1>2, <2>1 DEF JmapInv, JmapTypes
        <3>2. /\ issued[m] # {} => row.state >= m
              /\ \A x, y \in issued[m] : x = y
            BY <2>1 DEF JmapInv, NamesOne
        <3>3. CASE m = n
            <4>1. s = row.state
                BY <1>1, <2>1, <2>3, <2>4, <3>3 DEF States
            <4>2. issued[m] = {}
                BY <1>1, <3>2, <3>3, <4>1 DEF States
            <4>3. issued'[m] = {seen}
                BY <1>1, <1>2, <3>3, <4>2 DEF JmapInv, JmapTypes
            <4> QED
                BY <1>1, <3>3, <4>3 DEF States
        <3>4. CASE m # n
            <4>1. issued'[m] = issued[m]
                BY <2>1, <3>1, <3>4
            <4>2. CASE s = row.state
                BY <1>1, <3>2, <4>1, <4>2 DEF States
            <4>3. CASE s \in muddled
                BY <1>1, <2>1, <2>4, <3>2, <4>1, <4>3 DEF States
            <4> QED
                BY <2>3, <4>2, <4>3
        <3> QED
            BY <3>3, <3>4
    <2> QED
        BY <1>4, <2>2, <2>5, <2>6 DEF JmapInv
<1> QED
    BY <1>5, <1>6

\* Steps that touch neither the row nor a call.
LEMMA ElsewhereStep ==
    ASSUME JmapInv, JTypeOK', UNCHANGED <<row, call, issued, muddled>>,
           up' \in BOOLEAN, up' => up, folders' \subseteq Folders
    PROVE  JmapInv'
BY DEF JmapInv, JmapTypes, MuddledUpwards, CallsCurrent, NamesOne

LEMMA JmapNext == JmapInv /\ [JNext]_jvars => JmapInv'
<1> SUFFICES ASSUME JmapInv, [JNext]_jvars
             PROVE  JmapInv'
    OBVIOUS
<1> USE JmapAssumption
<1>1. CASE create_jmap_token \/ TokenLapses
    <2>1. JTypeOK'
        BY <1>1 DEF create_jmap_token, TokenLapses, JmapInv, JmapTypes, JTypeOK, Known
    <2> QED
        BY <1>1, <2>1, ElsewhereStep DEF create_jmap_token, TokenLapses, JmapInv, JmapTypes
<1>2. ASSUME NEW c \in Calls, NEW s \in Held,
             mailbox_get_changes(c, s) \/ email_get_changes(c, s)
      PROVE  JmapInv'
    BY <1>2, ScanStep, ScanType DEF mailbox_get_changes, email_get_changes, JmapInv
<1>3. ASSUME NEW c \in Calls, ReadState(c) PROVE JmapInv'
    BY <1>3, ReadStateStep
<1>4. ASSUME NEW c \in Calls, update_jmap_state(c) PROVE JmapInv'
    BY <1>4, UpdateStep
<1>5. ASSUME NEW m \in Messages, NEW f \in Folders \cup {Inbox}, Deliver(m, f) \/ Expunge(m, f)
      PROVE  JmapInv'
    <2>1. mail' \in [Folders \cup {Inbox} -> SUBSET Messages]
        BY <1>5 DEF Deliver, Expunge, JmapInv, JmapTypes, JTypeOK
    <2>2. \A g \in Folders \ folders : mail'[g] = {}
        BY <1>5 DEF Deliver, Expunge, JmapInv, JmapTypes, JTypeOK
    <2>3. UNCHANGED <<token, folders, row, up, call, issued, muddled>>
        BY <1>5 DEF Deliver, Expunge
    <2>4. JTypeOK'
        BY <2>1, <2>2, <2>3 DEF JmapInv, JmapTypes, JTypeOK
    <2> QED
        BY <2>3, <2>4, ElsewhereStep DEF JmapInv, JmapTypes
<1>6. ASSUME NEW f \in Folders, MakeFolder(f) PROVE JmapInv'
    <2>1. JTypeOK'
        BY <1>6 DEF MakeFolder, JmapInv, JmapTypes, JTypeOK, Known
    <2> QED
        BY <1>6, <2>1, ElsewhereStep DEF MakeFolder, JmapInv, JmapTypes
<1>7. CASE LoseDatabase
    BY <1>7, ElsewhereStep DEF LoseDatabase, JmapInv, JmapTypes, JTypeOK, Known
<1>8. CASE UNCHANGED jvars
    BY <1>8, ElsewhereStep DEF jvars, JmapInv, JmapTypes, JTypeOK, Known
<1> QED
    BY <1>1, <1>2, <1>3, <1>4, <1>5, <1>6, <1>7, <1>8 DEF JNext

LEMMA JmapImplies == JmapInv => JTypeOK /\ StateNamesOneSnapshot
<1> SUFFICES ASSUME JmapInv, NEW n \in (1..MaxState) \ muddled
             PROVE  Cardinality(issued[n]) <= 1 /\ (issued[n] # {} => row.state >= n)
    BY DEF JmapInv, JmapTypes, StateNamesOneSnapshot
<1>1. /\ issued[n] # {} => row.state >= n
      /\ \A x, y \in issued[n] : x = y
    BY DEF JmapInv, NamesOne, States
<1>2. issued[n] = {} \/ \E x : issued[n] = {x}
    BY <1>1
<1>3. Cardinality(issued[n]) \in {0, 1}
    BY <1>2, FS_EmptySet, FS_Singleton
<1> QED
    BY <1>1, <1>3

\* Every reachable state of the Maildir, the row of jmap_state and the calls has its type.
THEOREM JmapTypeCorrect == JSpec => []JTypeOK
BY JmapInit, JmapNext, JmapImplies, PTL DEF JSpec

\* Two answers with one state string are about one snapshot of the ids, and the row has
\* no state behind one that was issued, but for calls that overlap and a lost connection
\* (update_jmap_state).
THEOREM StatesNameSnapshots == JSpec => []StateNamesOneSnapshot
BY JmapInit, JmapNext, JmapImplies, PTL DEF JSpec

-----------------------------------------------------------------------------
(* DavCollections.                                                         *)

Coll == [slug : Slugs \cup {Nil}, ctag : Tags, objects : Objects]
Work == [pc : {"idle", "exists", "count", "store", "remove", "tag", "drop", "create", "done"},
         id : Ids \cup {0}, slug : Slugs \cup {Nil}, file : Files \cup {Nil}]
Copy == [pc : {"idle", "listing", "report", "synced"}, slug : Slugs \cup {Nil},
         id : Ids \cup {0}, ctag : Tags, from : Ids \cup {0}, objects : Objects]

\* Steps of a request that has found its collection.
Holding == {"exists", "count", "store", "remove", "tag", "drop"}

\* Ids are given out once, so what a request or the client holds is no later collection's.
CollTypes ==
    /\ protocol \in {"caldav", "carddav"} /\ cdbUp \in BOOLEAN
    /\ colls \in [Ids -> Coll] /\ used \in Ids \cup {0}
    /\ \A i \in Ids : colls[i].slug # Nil => i <= used
    /\ \A i \in Ids : colls[i].slug = Nil => colls[i] = NoColl
    /\ \A i, j \in Ids : colls[i].slug # Nil /\ colls[i].slug = colls[j].slug => i = j
    /\ work \in [DavRequests -> Work]
    /\ \A r \in DavRequests :
         /\ work[r].pc \in Holding =>
              work[r].id \in Ids /\ work[r].id <= used /\ work[r].file \in Files
         /\ work[r].pc = "create" => work[r].slug \in Slugs
    /\ client \in Copy /\ client.id <= used
    /\ client.pc \in {"listing", "report"} =>
         /\ client.id \in Ids
         /\ colls[client.id].slug # Nil =>
              client.slug = colls[client.id].slug /\ client.from = client.id
    /\ silent \subseteq Ids /\ raced \subseteq Ids

\* A ctag is the mark of a request that is over: no collection gets one twice.
TagsOld ==
    /\ \A i \in Ids : colls[i].ctag # Nil => work[colls[i].ctag].pc = "done"
    /\ client.ctag # Nil => work[client.ctag].pc = "done"

\* CtagTellsChanges; and over a lost connection nothing changes that is not announced.
Synced ==
    \A i \in Ids :
        /\ colls[i].slug # Nil /\ i \notin silent
        /\ cdbUp => \A r \in DavRequests : ~(work[r].pc = "tag" /\ work[r].id = i)
        /\ client.pc = "synced" /\ client.id = i /\ client.ctag = colls[i].ctag
        => client.objects = colls[i].objects

\* A PUT past its check has room, or replaces an object, until the collection changes.
Room ==
    \A r \in DavRequests \ touched :
        LET c == colls[work[r].id] IN
        (work[r].pc = "store" /\ cdbUp /\ c.slug # Nil /\ work[r].id \notin raced) =>
            \/ c.objects[work[r].file] # Nil
            \/ Cardinality(Stored(c.objects)) < MAX_OBJECTS

Capped ==
    \A i \in Ids \ raced : colls[i].slug # Nil =>
        Cardinality(Stored(colls[i].objects)) <= MAX_OBJECTS

CollInv == CollTypes /\ TagsOld /\ Synced /\ Room /\ Capped

\* The records that stand for nothing.
LEMMA Nothing ==
    /\ NoColl \in Coll /\ NoColl.slug = Nil /\ NoColl.ctag = Nil
    /\ \A f \in Files : NoColl.objects[f] = Nil
    /\ NoWork \in Work /\ NoWork.pc = "idle" /\ NoWork.id = 0 /\ NoWork.slug = Nil
    /\ NoWork.file = Nil
    /\ NoCopy \in Copy /\ NoCopy.pc = "idle" /\ NoCopy.id = 0 /\ NoCopy.ctag = Nil
    /\ Stored([f \in Files |-> Nil]) = {}
<1>1. [f \in Files |-> Nil] \in Objects /\ Nil \in Tags
    BY DEF Objects, Tags
<1>2. NoColl \in Coll /\ NoColl.slug = Nil /\ NoColl.ctag = Nil
      /\ \A f \in Files : NoColl.objects[f] = Nil
    BY <1>1 DEF NoColl, Coll
<1>3. NoWork \in Work /\ NoWork.pc = "idle" /\ NoWork.id = 0 /\ NoWork.slug = Nil
      /\ NoWork.file = Nil
    BY DEF NoWork, Work
<1>4. NoCopy \in Copy /\ NoCopy.pc = "idle" /\ NoCopy.id = 0 /\ NoCopy.ctag = Nil
    BY <1>1 DEF NoCopy, Copy
<1> QED
    BY <1>2, <1>3, <1>4 DEF Stored

\* A collection is there when it has a slug.
LEMMA LiveHasSlug ==
    ASSUME CollTypes, NEW i \in Ids
    PROVE  Live(i) <=> colls[i].slug # Nil
BY Nothing DEF CollTypes, Live

\* Sets of objects are finite.
LEMMA StoredFinite ==
    ASSUME NEW objects
    PROVE  IsFiniteSet(Stored(objects)) /\ Cardinality(Stored(objects)) \in Nat
<1>1. IsFiniteSet(Stored(objects))
    BY DavCollectionsAssumption, FS_Subset DEF Stored
<1> QED
    BY <1>1, FS_CardinalityType

\* The initial state has the invariant.
LEMMA CollInit == CInit => CollInv
<1> SUFFICES ASSUME CInit
             PROVE  CollInv
    OBVIOUS
<1>1. /\ \A i \in Ids : colls[i] = NoColl
      /\ \A r \in DavRequests : work[r] = NoWork
    BY DEF CInit
<1>2. CollTypes
    BY <1>1, Nothing, DavCollectionsAssumption DEF CInit, CollTypes, Holding
<1> QED
    BY <1>1, <1>2, Nothing
       DEF CInit, CollInv, TagsOld, Synced, Room, Capped

\* A step of one request that leaves the collections alone.
LEMMA WorkStep ==
    ASSUME CollInv, NEW r \in DavRequests,
           work' \in [DavRequests -> Work],
           \A q \in DavRequests \ {r} : work'[q] = work[q],
           work[r].pc # "done", work[r].pc = "tag" => ~cdbUp,
           work'[r].pc \in Holding =>
             work'[r].id \in Ids /\ work'[r].id <= used /\ work'[r].file \in Files,
           work'[r].pc = "create" => work'[r].slug \in Slugs,
           LET c == colls[work'[r].id] IN
             (work'[r].pc = "store" /\ cdbUp /\ c.slug # Nil) =>
               \/ c.objects[work'[r].file] # Nil
               \/ Cardinality(Stored(c.objects)) < MAX_OBJECTS,
           UNCHANGED <<protocol, cdbUp, cfaults, client, colls, used, silent, touched, raced>>
    PROVE  CollInv'
<1>1. CollTypes'
    BY DEF CollInv, CollTypes
<1>2. TagsOld'
    BY DEF CollInv, TagsOld, CollTypes, Coll, Copy, Tags
<1>3. Synced'
    BY DEF CollInv, Synced
<1>4. Room'
    <2> SUFFICES ASSUME NEW q \in DavRequests \ touched,
                        work'[q].pc = "store", cdbUp, colls[work'[q].id].slug # Nil,
                        work'[q].id \notin raced
                 PROVE  \/ colls[work'[q].id].objects[work'[q].file] # Nil
                        \/ Cardinality(Stored(colls[work'[q].id].objects)) < MAX_OBJECTS
        BY DEF Room
    <2>1. CASE q = r
        BY <2>1
    <2>2. CASE q # r
        BY <2>2 DEF CollInv, Room
    <2> QED
        BY <2>1, <2>2
<1>5. Capped'
    BY DEF CollInv, Capped, Stored
<1> QED
    BY <1>1, <1>2, <1>3, <1>4, <1>5 DEF CollInv

\* A request's step by Goto and by Done.
LEMMA GotoType ==
    ASSUME CollTypes, NEW r \in DavRequests,
           NEW step \in {"exists", "count", "store", "remove", "tag", "drop", "done"},
           Goto(r, step)
    PROVE  /\ work' \in [DavRequests -> Work]
           /\ \A q \in DavRequests \ {r} : work'[q] = work[q]
           /\ work'[r].pc = step /\ work'[r].id = work[r].id /\ work'[r].file = work[r].file
BY DEF CollTypes, Goto, Work

LEMMA DoneType ==
    ASSUME CollTypes, NEW r \in DavRequests, Done(r)
    PROVE  /\ work' \in [DavRequests -> Work]
           /\ \A q \in DavRequests \ {r} : work'[q] = work[q]
           /\ work'[r].pc = "done"
<1>1. [NoWork EXCEPT !.pc = "done"] \in Work /\ [NoWork EXCEPT !.pc = "done"].pc = "done"
    BY Nothing DEF Work
<1> QED
    BY <1>1 DEF CollTypes, Done

LEMMA FindCollectionStep ==
    ASSUME CollInv, NEW r \in DavRequests, NEW s \in Slugs, NEW f \in Files,
           NEW next \in {"exists", "remove", "drop"}, FindCollection(r, s, f, next)
    PROVE  CollInv'
<1>1. PICK i \in Ids :
        /\ Live(i)
        /\ work' = [work EXCEPT ![r] = [pc |-> next, id |-> i, slug |-> s, file |-> f]]
    BY DEF FindCollection, get_by_slug, LiveIds
<1>2. i <= used
    BY <1>1, LiveHasSlug DEF CollInv, CollTypes
<1>3. [pc |-> next, id |-> i, slug |-> s, file |-> f] \in Work
    BY DEF Work
<1>4. /\ work' \in [DavRequests -> Work]
      /\ \A q \in DavRequests \ {r} : work'[q] = work[q]
      /\ work'[r].pc = next /\ work'[r].id = i /\ work'[r].file = f
    BY <1>1, <1>3 DEF CollInv, CollTypes
<1> QED
    BY <1>2, <1>4, WorkStep DEF FindCollection, Others, Busy

LEMMA CheckExistsStep ==
    ASSUME CollInv, NEW r \in DavRequests, CheckExists(r)
    PROVE  CollInv'
<1> DEFINE i == work[r].id
           f == work[r].file
<1>1. work[r].pc = "exists" /\ i \in Ids /\ i <= used /\ f \in Files
    BY DEF CollInv, CollTypes, CheckExists, Busy, Holding
<1>2. PICK step \in {"count", "store"} :
        Goto(r, step) /\ (step = "store" => list_objects(i)[f] # Nil)
    BY DEF CheckExists
<1>3. /\ work' \in [DavRequests -> Work]
      /\ \A q \in DavRequests \ {r} : work'[q] = work[q]
      /\ work'[r].pc = step /\ work'[r].id = i /\ work'[r].file = f
    BY <1>2, GotoType DEF CollInv
<1>4. step = "store" => colls[i].objects[f] # Nil
    BY <1>1, <1>2 DEF list_objects
<1> HIDE DEF i, f
<1> QED
    BY <1>1, <1>3, <1>4, WorkStep DEF CheckExists, Others

LEMMA CountObjectsStep ==
    ASSUME CollInv, NEW r \in DavRequests, CountObjects(r)
    PROVE  CollInv'
<1> DEFINE i == work[r].id
           f == work[r].file
<1>1. work[r].pc = "count" /\ i \in Ids /\ i <= used /\ f \in Files
    BY DEF CollInv, CollTypes, CountObjects, Busy, Holding
<1>2. UNCHANGED <<protocol, cdbUp, cfaults, client, colls, used, silent, touched, raced>>
    BY DEF CountObjects, Others
<1>3. CASE AtCap(i)
    <2>1. Done(r)
        BY <1>3 DEF CountObjects
    <2> QED
        BY <1>1, <1>2, <2>1, DoneType, WorkStep DEF Holding, CollInv
<1>4. CASE ~AtCap(i)
    <2>1. Goto(r, "store")
        BY <1>4 DEF CountObjects
    <2>2. /\ work' \in [DavRequests -> Work]
          /\ \A q \in DavRequests \ {r} : work'[q] = work[q]
          /\ work'[r].pc = "store" /\ work'[r].id = i /\ work'[r].file = f
        BY <2>1, GotoType DEF CollInv
    <2>3. cdbUp /\ colls[i].slug # Nil => Cardinality(Stored(colls[i].objects)) < MAX_OBJECTS
        <3> SUFFICES ASSUME cdbUp, colls[i].slug # Nil
                     PROVE  Cardinality(Stored(colls[i].objects)) < MAX_OBJECTS
            OBVIOUS
        <3>1. list_objects(i) = colls[i].objects
            BY <1>1, LiveHasSlug DEF list_objects, CollInv
        <3>2. Cardinality(Stored(colls[i].objects)) \in Nat
            BY StoredFinite
        <3> QED
            BY <1>4, <3>1, <3>2, DavCollectionsAssumption DEF AtCap
    <2> HIDE DEF i, f
    <2> QED
        BY <1>1, <1>2, <2>2, <2>3, WorkStep
<1> QED
    BY <1>3, <1>4

LEMMA CountCollectionsStep ==
    ASSUME CollInv, NEW r \in DavRequests, NEW s \in Slugs, CountCollections(r, s)
    PROVE  CollInv'
<1> DEFINE w == [NoWork EXCEPT !.pc = "create", !.slug = Lower[s]]
<1>1. Lower[s] \in Slugs
    BY DavCollectionsAssumption
<1>2. w \in Work /\ w.pc = "create" /\ w.slug = Lower[s]
    BY <1>1, Nothing DEF Work
<1>3. work' = [work EXCEPT ![r] = w]
    BY DEF CountCollections
<1> HIDE DEF w
<1>4. /\ work' \in [DavRequests -> Work]
      /\ \A q \in DavRequests \ {r} : work'[q] = work[q]
      /\ work'[r].pc = "create" /\ work'[r].slug \in Slugs
    BY <1>1, <1>2, <1>3 DEF CollInv, CollTypes
<1> QED
    BY <1>4, WorkStep DEF CountCollections, Others, Busy, Holding

\* An object of a live collection changes, and nothing else of the collections.
ObjectChanges(i, f, v) ==
    /\ colls' \in [Ids -> Coll]
    /\ \A j \in Ids \ {i} : colls'[j] = colls[j]
    /\ colls[i].slug # Nil /\ colls'[i].slug = colls[i].slug
    /\ colls'[i].ctag = colls[i].ctag
    /\ colls'[i].objects = [colls[i].objects EXCEPT ![f] = v]

LEMMA ObjectType ==
    ASSUME CollTypes, NEW i \in Ids, Live(i), NEW f \in Files, NEW v \in Tags,
           colls' = [colls EXCEPT ![i].objects[f] = v]
    PROVE  ObjectChanges(i, f, v)
<1>1. colls[i].slug # Nil
    BY LiveHasSlug
<1>2. colls[i] \in Coll /\ colls[i].objects \in Objects
    BY DEF CollTypes, Coll
<1>3. [colls[i].objects EXCEPT ![f] = v] \in Objects
    BY <1>2 DEF Objects
<1>4. colls' = [colls EXCEPT ![i] = [colls[i] EXCEPT !.objects = [colls[i].objects EXCEPT ![f] = v]]]
    BY DEF CollTypes, Coll
<1>5. ASSUME NEW c \in Coll, NEW objs \in Objects
      PROVE  LET d == [c EXCEPT !.objects = objs]
             IN  d \in Coll /\ d.slug = c.slug /\ d.ctag = c.ctag /\ d.objects = objs
    BY <1>5 DEF Coll
<1> QED
    BY <1>1, <1>2, <1>3, <1>4, <1>5 DEF CollTypes, ObjectChanges

\* A step of a request that changes an object: it announces the change by a ctag of its
\* own, or history says that it does not.
LEMMA ObjectStep ==
    ASSUME CollInv, NEW r \in DavRequests, NEW i \in Ids, Live(i), NEW f \in Files,
           NEW v \in Tags, ObjectChanges(i, f, v),
           work' \in [DavRequests -> Work],
           \A q \in DavRequests \ {r} : work'[q] = work[q],
           work[r].pc \notin {"tag", "done"},
           \/ /\ work'[r].pc = "tag" /\ work'[r].id = i /\ i <= used
              /\ work'[r].file \in Files
           \/ work'[r].pc = "done" /\ i \in silent',
           silent \subseteq silent', silent' \subseteq Ids, cdbUp,
           raced \subseteq raced', raced' \subseteq Ids,
           touched \cup (Checking(i) \ {r}) \subseteq touched',
           i \notin raced' =>
             Cardinality(Stored([colls[i].objects EXCEPT ![f] = v])) <= MAX_OBJECTS,
           UNCHANGED <<protocol, cdbUp, client, used>>
    PROVE  CollInv'
<1>1. /\ colls' \in [Ids -> Coll]
      /\ \A j \in Ids \ {i} : colls'[j] = colls[j]
      /\ colls[i].slug # Nil /\ colls'[i].slug = colls[i].slug
      /\ colls'[i].ctag = colls[i].ctag
      /\ colls'[i].objects = [colls[i].objects EXCEPT ![f] = v]
    BY DEF ObjectChanges
<1>2. CollTypes'
    BY <1>1 DEF CollInv, CollTypes, Holding
<1>3. TagsOld'
    <2>1. \A j \in Ids : colls'[j].ctag = colls[j].ctag
        BY <1>1
    <2>2. ASSUME NEW t \in Tags, t # Nil, work[t].pc = "done"
          PROVE  work'[t].pc = "done"
        BY <2>2 DEF Tags
    <2>3. client.ctag \in Tags /\ \A j \in Ids : colls[j].ctag \in Tags
        BY DEF CollInv, CollTypes, Coll, Copy
    <2> QED
        BY <2>1, <2>2, <2>3 DEF CollInv, TagsOld
<1>4. Synced'
    BY <1>1 DEF CollInv, Synced
<1>5. Room'
    <2> SUFFICES ASSUME NEW q \in DavRequests \ touched',
                        work'[q].pc = "store", colls'[work'[q].id].slug # Nil,
                        work'[q].id \notin raced'
                 PROVE  \/ colls'[work'[q].id].objects[work'[q].file] # Nil
                        \/ Cardinality(Stored(colls'[work'[q].id].objects)) < MAX_OBJECTS
        BY DEF Room
    <2>1. q # r /\ work'[q] = work[q]
        OBVIOUS
    <2>2. work[q].id # i
        BY <2>1 DEF Checking
    <2>3. work[q].id \in Ids /\ colls'[work[q].id] = colls[work[q].id]
        BY <1>1, <2>1, <2>2 DEF CollInv, CollTypes, Holding
    <2> QED
        BY <2>1, <2>3 DEF CollInv, Room
<1>6. Capped'
    <2> SUFFICES ASSUME NEW j \in Ids \ raced', colls'[j].slug # Nil
                 PROVE  Cardinality(Stored(colls'[j].objects)) <= MAX_OBJECTS
        BY DEF Capped
    <2>1. CASE j = i
        BY <1>1, <2>1
    <2>2. CASE j # i
        BY <1>1, <2>2 DEF CollInv, Capped
    <2> QED
        BY <2>1, <2>2
<1> QED
    BY <1>2, <1>3, <1>4, <1>5, <1>6 DEF CollInv

\* A stored object is one more at most, a removed one is none more.
LEMMA StoredByOne ==
    ASSUME NEW objects \in Objects, NEW f \in Files, NEW v \in Tags
    PROVE  LET now == Cardinality(Stored([objects EXCEPT ![f] = v]))
           IN  /\ now \in Nat
               /\ objects[f] # Nil \/ v = Nil => now <= Cardinality(Stored(objects))
               /\ now <= Cardinality(Stored(objects)) + 1
<1> DEFINE new == [objects EXCEPT ![f] = v]
<1>1. /\ IsFiniteSet(Stored(objects)) /\ Cardinality(Stored(objects)) \in Nat
      /\ IsFiniteSet(Stored(new)) /\ Cardinality(Stored(new)) \in Nat
    BY StoredFinite
<1>2. Stored(new) \subseteq Stored(objects) \cup {f}
    BY DEF Stored, Objects
<1>3. objects[f] # Nil \/ v = Nil => Stored(new) \subseteq Stored(objects)
    BY DEF Stored, Objects
<1> HIDE DEF new
<1>4. Stored(new) \subseteq Stored(objects) => Cardinality(Stored(new)) <= Cardinality(Stored(objects))
    BY <1>1, FS_Subset
<1>5. /\ IsFiniteSet(Stored(objects) \cup {f})
      /\ Cardinality(Stored(objects) \cup {f}) <= Cardinality(Stored(objects)) + 1
      /\ Cardinality(Stored(objects) \cup {f}) \in Nat
    <2>1. Cardinality(Stored(objects) \cup {f})
            = IF f \in Stored(objects) THEN Cardinality(Stored(objects))
              ELSE Cardinality(Stored(objects)) + 1
        BY <1>1, FS_AddElement
    <2>2. IsFiniteSet(Stored(objects) \cup {f})
        BY <1>1, FS_AddElement
    <2> QED
        BY <1>1, <2>1, <2>2
<1>6. Cardinality(Stored(new)) <= Cardinality(Stored(objects) \cup {f})
    BY <1>2, <1>5, FS_Subset
<1>7. Cardinality(Stored(new)) <= Cardinality(Stored(objects)) + 1
    BY <1>1, <1>5, <1>6
<1> QED
    BY <1>1, <1>3, <1>4, <1>7 DEF new

LEMMA StoreObjectStep ==
    ASSUME CollInv, NEW r \in DavRequests, StoreObject(r)
    PROVE  CollInv'
<1> DEFINE i == work[r].id
           f == work[r].file
           n == Cardinality(Stored([colls[i].objects EXCEPT ![f] = r]))
<1>1. work[r].pc = "store" /\ i \in Ids /\ i <= used /\ f \in Files
    BY DEF CollInv, CollTypes, StoreObject, Busy, Holding
<1>2. CASE ~(cdbUp /\ Live(i))
    <2>1. Done(r)
        BY <1>2 DEF StoreObject
    <2>2. UNCHANGED <<protocol, cdbUp, cfaults, client, colls, used, silent, touched, raced>>
        BY <1>2 DEF StoreObject, Others
    <2> QED
        BY <1>1, <2>1, <2>2, DoneType, WorkStep DEF Holding, CollInv
<1>3. CASE cdbUp /\ Live(i)
    <2>1. /\ colls' = [colls EXCEPT ![i].objects[f] = r]
          /\ Goto(r, "tag")
          /\ touched' = touched \cup (Checking(i) \ {r})
          /\ raced' = IF r \in touched THEN raced \cup {i} ELSE raced
          /\ UNCHANGED <<protocol, cdbUp, client, used, silent>>
        BY <1>3 DEF StoreObject, Others
    <2>0. ObjectChanges(i, f, r)
        BY <1>1, <1>3, <2>1, ObjectType DEF CollInv, Tags
    <2>2. /\ work' \in [DavRequests -> Work]
          /\ \A q \in DavRequests \ {r} : work'[q] = work[q]
          /\ work'[r].pc = "tag" /\ work'[r].id = i /\ work'[r].file = f
        BY <2>1, GotoType DEF CollInv
    <2>3. raced' \subseteq Ids /\ raced \subseteq raced' /\ silent \subseteq Ids /\ r \in Tags
        BY <1>1, <2>1 DEF CollInv, CollTypes, Tags
    <2>4. ASSUME i \notin raced' PROVE n <= MAX_OBJECTS
        <3>1. r \notin touched /\ i \notin raced
            BY <2>1, <2>4
        <3>2. colls[i].slug # Nil
            BY <1>1, <1>3, LiveHasSlug DEF CollInv
        <3>3. \/ colls[i].objects[f] # Nil
              \/ Cardinality(Stored(colls[i].objects)) < MAX_OBJECTS
            BY <1>1, <1>3, <3>1, <3>2 DEF CollInv, Room
        <3>4. Cardinality(Stored(colls[i].objects)) <= MAX_OBJECTS
            BY <1>1, <3>1, <3>2 DEF CollInv, Capped
        <3>5. colls[i].objects \in Objects
            BY <1>1 DEF CollInv, CollTypes, Coll
        <3>6. /\ n \in Nat
              /\ colls[i].objects[f] # Nil => n <= Cardinality(Stored(colls[i].objects))
              /\ n <= Cardinality(Stored(colls[i].objects)) + 1
            BY <1>1, <2>3, <3>5, StoredByOne
        <3>7. Cardinality(Stored(colls[i].objects)) \in Nat
            BY StoredFinite
        <3> HIDE DEF n
        <3> QED
            BY <3>3, <3>4, <3>6, <3>7, DavCollectionsAssumption
    <2> HIDE DEF i, f
    <2> QED
        BY <1>1, <1>3, <2>0, <2>1, <2>2, <2>3, <2>4, ObjectStep
<1> QED
    BY <1>2, <1>3

\* Removing an object leaves a collection that was within the cap within it.
LEMMA RemovalWithinCap ==
    ASSUME CollInv, NEW i \in Ids, Live(i), NEW f \in Files, i \notin raced
    PROVE  Cardinality(Stored([colls[i].objects EXCEPT ![f] = Nil])) <= MAX_OBJECTS
<1> DEFINE n == Cardinality(Stored([colls[i].objects EXCEPT ![f] = Nil]))
<1>1. Cardinality(Stored(colls[i].objects)) <= MAX_OBJECTS
    BY LiveHasSlug DEF CollInv, Capped
<1>2. colls[i].objects \in Objects /\ Nil \in Tags
    BY DEF CollInv, CollTypes, Coll, Tags
<1>3. n \in Nat /\ n <= Cardinality(Stored(colls[i].objects))
    BY <1>2, StoredByOne
<1>4. Cardinality(Stored(colls[i].objects)) \in Nat
    BY StoredFinite
<1> HIDE DEF n
<1>5. n <= MAX_OBJECTS
    BY <1>1, <1>3, <1>4, DavCollectionsAssumption
<1> QED
    BY <1>5 DEF n

LEMMA RemoveObjectStep ==
    ASSUME CollInv, NEW r \in DavRequests, RemoveObject(r)
    PROVE  CollInv'
<1> DEFINE i == work[r].id
           f == work[r].file
<1>1. work[r].pc = "remove" /\ i \in Ids /\ i <= used /\ f \in Files /\ Nil \in Tags
    BY DEF CollInv, CollTypes, RemoveObject, Busy, Holding, Tags
<1>2. /\ work' \in [DavRequests -> Work]
      /\ \A q \in DavRequests \ {r} : work'[q] = work[q]
      /\ work'[r].pc = "tag" /\ work'[r].id = i /\ work'[r].file = f
    BY GotoType DEF CollInv, RemoveObject
<1>3. UNCHANGED <<protocol, cdbUp, cfaults, client, used, silent, raced>>
    BY DEF RemoveObject, Others
<1>4. CASE cdbUp /\ Live(i)
    <2>1. colls' = [colls EXCEPT ![i].objects[f] = Nil] /\ touched' = touched \cup Checking(i)
        BY <1>4 DEF RemoveObject
    <2>0. ObjectChanges(i, f, Nil)
        BY <1>1, <1>4, <2>1, ObjectType DEF CollInv
    <2>2. silent \subseteq Ids /\ raced \subseteq Ids
        BY DEF CollInv, CollTypes
    <2>3. i \notin raced =>
            Cardinality(Stored([colls[i].objects EXCEPT ![f] = Nil])) <= MAX_OBJECTS
        BY <1>1, <1>4, RemovalWithinCap
    <2> HIDE DEF i, f
    <2> QED
        BY <1>1, <1>2, <1>3, <1>4, <2>0, <2>1, <2>2, <2>3, ObjectStep
<1>5. CASE ~(cdbUp /\ Live(i))
    <2>1. UNCHANGED <<colls, touched>>
        BY <1>5 DEF RemoveObject
    <2> HIDE DEF i, f
    <2> QED
        BY <1>1, <1>2, <1>3, <2>1, WorkStep
<1> QED
    BY <1>4, <1>5

LEMMA AdminRemoveStep ==
    ASSUME CollInv, NEW r \in DavRequests, NEW i \in Ids, NEW f \in Files, AdminRemove(r, i, f)
    PROVE  CollInv'
<1>1. /\ work' \in [DavRequests -> Work]
      /\ \A q \in DavRequests \ {r} : work'[q] = work[q]
      /\ work'[r].pc = "done" /\ work[r].pc = "idle"
    BY DoneType DEF CollInv, AdminRemove, Busy
<1>2. /\ cdbUp /\ Live(i) /\ Nil \in Tags
      /\ colls' = [colls EXCEPT ![i].objects[f] = Nil]
      /\ silent' = silent \cup {i} /\ touched' = touched \cup Checking(i)
      /\ UNCHANGED <<protocol, cdbUp, client, used, raced>>
    BY DEF AdminRemove, Others, Tags
<1>3. silent' \subseteq Ids /\ raced \subseteq Ids
    BY <1>2 DEF CollInv, CollTypes
<1>4. i \notin raced =>
        Cardinality(Stored([colls[i].objects EXCEPT ![f] = Nil])) <= MAX_OBJECTS
    BY <1>2, RemovalWithinCap
<1>5. ObjectChanges(i, f, Nil)
    BY <1>2, ObjectType DEF CollInv
<1> QED
    BY <1>1, <1>2, <1>3, <1>4, <1>5, ObjectStep

\* A new ctag: no client has it yet.
LEMMA UpdateCtagStep ==
    ASSUME CollInv, NEW r \in DavRequests, update_ctag(r)
    PROVE  CollInv'
<1> DEFINE i == work[r].id
<1>1. work[r].pc = "tag" /\ i \in Ids /\ i <= used
    BY DEF CollInv, CollTypes, update_ctag, Busy, Holding
<1>2. /\ work' \in [DavRequests -> Work]
      /\ \A q \in DavRequests \ {r} : work'[q] = work[q]
      /\ work'[r].pc = "done"
    BY DoneType DEF CollInv, update_ctag
<1>3. UNCHANGED <<protocol, cdbUp, cfaults, client, used, touched, raced>>
    BY DEF update_ctag, Others
<1>4. CASE ~cdbUp
    <2>1. UNCHANGED <<colls, silent>>
        BY <1>4 DEF update_ctag
    <2> QED
        BY <1>1, <1>2, <1>3, <1>4, <2>1, WorkStep DEF Holding
<1>5. CASE cdbUp
    <2>1. colls' = Retag(i, r) /\ silent' = silent \ {i}
        BY <1>5 DEF update_ctag
    <2>2. /\ colls' \in [Ids -> Coll]
          /\ \A j \in Ids : /\ colls'[j].slug = colls[j].slug
                            /\ colls'[j].objects = colls[j].objects
                            /\ colls[j].slug = Nil => colls'[j] = colls[j]
                            /\ j # i => colls'[j].ctag = colls[j].ctag
                            /\ j = i /\ colls[j].slug # Nil => colls'[j].ctag = r
        <3>1. CASE Live(i)
            <4>1. colls' = [colls EXCEPT ![i].ctag = r]
                BY <2>1, <3>1 DEF Retag
            <4>2. colls[i].slug # Nil
                BY <1>1, <3>1, LiveHasSlug DEF CollInv
            <4>3. colls' = [colls EXCEPT ![i] = [colls[i] EXCEPT !.ctag = r]]
                BY <4>1
            <4>4. LET c == [colls[i] EXCEPT !.ctag = r]
                  IN  /\ c \in Coll /\ c.slug = colls[i].slug
                      /\ c.objects = colls[i].objects /\ c.ctag = r
                BY <1>1 DEF CollInv, CollTypes, Coll, Tags
            <4> QED
                BY <1>1, <4>2, <4>3, <4>4 DEF CollInv, CollTypes
        <3>2. CASE ~Live(i)
            BY <1>1, <2>1, <3>2, LiveHasSlug DEF Retag, CollInv, CollTypes
        <3> QED
            BY <3>1, <3>2
    <2> HIDE DEF i
    <2>3. CollTypes'
        BY <1>1, <1>2, <1>3, <2>1, <2>2 DEF CollInv, CollTypes, Holding
    <2>4. TagsOld'
        <3>1. \A t \in Tags : t # Nil /\ work[t].pc = "done" => work'[t].pc = "done"
            BY <1>2 DEF Tags
        <3>2. client.ctag \in Tags /\ \A j \in Ids : colls[j].ctag \in Tags
            BY DEF CollInv, CollTypes, Coll, Copy
        <3>3. \A j \in Ids : colls'[j].ctag = colls[j].ctag \/ colls'[j].ctag = r
            BY <2>2
        <3> QED
            BY <1>2, <1>3, <3>1, <3>2, <3>3 DEF CollInv, TagsOld
    <2>5. Synced'
        <3> SUFFICES ASSUME NEW j \in Ids, colls'[j].slug # Nil, j \notin silent',
                            \A q \in DavRequests : ~(work'[q].pc = "tag" /\ work'[q].id = j),
                            client.pc = "synced", client.id = j, client.ctag = colls'[j].ctag
                     PROVE  client.objects = colls'[j].objects
            BY <1>3, <1>5 DEF Synced
        <3>1. client.ctag # r
            BY <1>1, DavCollectionsAssumption DEF CollInv, TagsOld
        <3>2. j # i
            BY <2>2, <3>1
        <3>3. \A q \in DavRequests : ~(work[q].pc = "tag" /\ work[q].id = j)
            BY <1>1, <1>2, <3>2 DEF i
        <3> QED
            BY <2>1, <2>2, <3>2, <3>3 DEF CollInv, Synced
    <2>6. Room'
        <3> SUFFICES ASSUME NEW q \in DavRequests \ touched,
                            work'[q].pc = "store", colls'[work'[q].id].slug # Nil,
                            work'[q].id \notin raced
                     PROVE  \/ colls'[work'[q].id].objects[work'[q].file] # Nil
                            \/ Cardinality(Stored(colls'[work'[q].id].objects)) < MAX_OBJECTS
            BY <1>3 DEF Room
        <3>1. q # r /\ work'[q] = work[q] /\ work[q].id \in Ids
            BY <1>2 DEF CollInv, CollTypes, Holding
        <3> QED
            BY <1>5, <2>2, <3>1 DEF CollInv, Room
    <2>7. Capped'
        <3> SUFFICES ASSUME NEW j \in Ids \ raced, colls'[j].slug # Nil
                     PROVE  Cardinality(Stored(colls'[j].objects)) <= MAX_OBJECTS
            BY <1>3 DEF Capped
        <3> QED
            BY <2>2 DEF CollInv, Capped
    <2> QED
        BY <2>3, <2>4, <2>5, <2>6, <2>7 DEF CollInv
<1> QED
    BY <1>4, <1>5

\* A collection goes, or a new one without objects comes.
LEMMA CollectionStep ==
    ASSUME CollInv, NEW r \in DavRequests, NEW i \in Ids, NEW c \in Coll,
           colls' = [colls EXCEPT ![i] = c], \A f \in Files : c.objects[f] = Nil,
           \/ c = NoColl /\ used' = used
           \/ /\ c.slug # Nil /\ c.ctag = r /\ i > used /\ used' = i
              /\ \A j \in Ids : colls[j].slug # c.slug,
           work' \in [DavRequests -> Work],
           \A q \in DavRequests \ {r} : work'[q] = work[q],
           work'[r].pc = "done", work[r].pc \notin {"tag", "done"},
           UNCHANGED <<protocol, cdbUp, client, silent, touched, raced>>
    PROVE  CollInv'
<1>1. /\ colls' \in [Ids -> Coll] /\ colls'[i] = c
      /\ \A j \in Ids \ {i} : colls'[j] = colls[j]
      /\ c.ctag = Nil \/ c.ctag = r
      /\ used' >= used /\ used \in Nat /\ used' \in Nat /\ used' \in Ids \cup {0}
    <2>1. colls \in [Ids -> Coll] /\ used \in Ids \cup {0}
        BY DEF CollInv, CollTypes
    <2>2. colls' \in [Ids -> Coll] /\ colls'[i] = c /\ \A j \in Ids \ {i} : colls'[j] = colls[j]
        BY <2>1
    <2>3. c.ctag = Nil \/ c.ctag = r
        BY Nothing
    <2>4. used' >= used /\ used \in Nat /\ used' \in Nat /\ used' \in Ids \cup {0}
        BY <2>1, DavCollectionsAssumption
    <2> QED
        BY <2>2, <2>3, <2>4
<1>2. CollTypes'
    <2>1. \A j \in Ids : colls'[j].slug # Nil => j <= used'
        BY <1>1, Nothing, DavCollectionsAssumption DEF CollInv, CollTypes
    <2>2. \A j \in Ids : colls'[j].slug = Nil => colls'[j] = NoColl
        BY <1>1 DEF CollInv, CollTypes
    <2>3. \A j, k \in Ids : colls'[j].slug # Nil /\ colls'[j].slug = colls'[k].slug => j = k
        BY <1>1, Nothing DEF CollInv, CollTypes
    <2>4. \A q \in DavRequests :
            /\ work'[q].pc \in Holding =>
                 work'[q].id \in Ids /\ work'[q].id <= used' /\ work'[q].file \in Files
            /\ work'[q].pc = "create" => work'[q].slug \in Slugs
        BY <1>1, DavCollectionsAssumption DEF CollInv, CollTypes, Holding
    <2>5. client'.id <= used'
        <3>1. client.id \in Ids \cup {0} /\ client.id <= used /\ used \in Ids \cup {0}
            BY DEF CollInv, CollTypes, Copy
        <3>2. client.id \in Nat /\ used \in Nat
            BY <3>1, DavCollectionsAssumption
        <3>3. client' = client /\ used' \in Nat /\ used' >= used
            BY <1>1, DavCollectionsAssumption
        <3> QED
            BY <3>1, <3>2, <3>3
    <2>6. ASSUME client.pc \in {"listing", "report"}, colls'[client.id].slug # Nil
          PROVE  client.slug = colls'[client.id].slug /\ client.from = client.id
        <3>1. client.id \in Ids /\ client.id <= used
            BY <2>6 DEF CollInv, CollTypes
        <3>2. colls'[client.id] = colls[client.id]
            BY <1>1, <2>6, <3>1, Nothing, DavCollectionsAssumption
        <3> QED
            BY <2>6, <3>1, <3>2 DEF CollInv, CollTypes
    <2> QED
        BY <1>1, <2>1, <2>2, <2>3, <2>4, <2>5, <2>6 DEF CollInv, CollTypes
<1>3. TagsOld'
    <2>1. \A t \in Tags : t # Nil /\ work[t].pc = "done" => work'[t].pc = "done"
        BY DEF Tags
    <2>2. client.ctag \in Tags /\ \A j \in Ids : colls[j].ctag \in Tags
        BY DEF CollInv, CollTypes, Coll, Copy
    <2>3. \A j \in Ids : colls'[j].ctag \in {colls[j].ctag, Nil, r}
        BY <1>1
    <2> QED
        BY <2>1, <2>2, <2>3 DEF CollInv, TagsOld
<1>4. ASSUME NEW j \in Ids, j <= used, colls'[j].slug # Nil PROVE j # i
    BY <1>1, <1>4, Nothing, DavCollectionsAssumption
<1>5. Synced'
    <2> SUFFICES ASSUME NEW j \in Ids, colls'[j].slug # Nil, j \notin silent,
                        cdbUp => \A q \in DavRequests : ~(work'[q].pc = "tag" /\ work'[q].id = j),
                        client.pc = "synced", client.id = j, client.ctag = colls'[j].ctag
                 PROVE  client.objects = colls'[j].objects
        BY DEF Synced
    <2>1. j # i
        BY <1>4 DEF CollInv, CollTypes
    <2> QED
        BY <1>1, <2>1 DEF CollInv, Synced
<1>6. Room'
    <2> SUFFICES ASSUME NEW q \in DavRequests \ touched,
                        work'[q].pc = "store", cdbUp, colls'[work'[q].id].slug # Nil,
                        work'[q].id \notin raced
                 PROVE  \/ colls'[work'[q].id].objects[work'[q].file] # Nil
                        \/ Cardinality(Stored(colls'[work'[q].id].objects)) < MAX_OBJECTS
        BY DEF Room
    <2>1. q # r /\ work'[q] = work[q] /\ work[q].id \in Ids /\ work[q].id <= used
        BY DEF CollInv, CollTypes, Holding
    <2>2. work[q].id # i
        BY <1>4, <2>1
    <2> QED
        BY <1>1, <2>1, <2>2 DEF CollInv, Room
<1>7. Capped'
    <2> SUFFICES ASSUME NEW j \in Ids \ raced, colls'[j].slug # Nil
                 PROVE  Cardinality(Stored(colls'[j].objects)) <= MAX_OBJECTS
        BY DEF Capped
    <2>1. CASE j # i
        BY <1>1, <2>1 DEF CollInv, Capped
    <2>2. CASE j = i
        <3>1. Stored(c.objects) = {}
            BY DEF Stored
        <3>2. Cardinality(Stored(c.objects)) = 0
            BY <3>1, FS_EmptySet
        <3> QED
            BY <1>1, <2>2, <3>2, DavCollectionsAssumption
    <2> QED
        BY <2>1, <2>2
<1> QED
    BY <1>2, <1>3, <1>5, <1>6, <1>7 DEF CollInv

\* MKCALENDAR, MKCOL and the admin's form: UNIQUE(account_id, slug) and a fresh id.
LEMMA CreateStep ==
    ASSUME CollInv, NEW r \in DavRequests, NEW s \in Slugs, Create(r, s),
           work[r].pc \in {"idle", "create"}
    PROVE  CollInv'
<1>1. /\ work' \in [DavRequests -> Work]
      /\ \A q \in DavRequests \ {r} : work'[q] = work[q]
      /\ work'[r].pc = "done"
    BY DoneType DEF Create, CollInv
<1>2. CASE cdbUp /\ get_by_slug(s) = {} /\ used + 1 \in Ids
    <2> DEFINE c == [NoColl EXCEPT !.slug = s, !.ctag = r]
               i == used + 1
    <2>1. c \in Coll /\ c.slug = s /\ c.ctag = r /\ \A f \in Files : c.objects[f] = Nil
        BY Nothing DEF Coll, Tags
    <2>2. colls' = [colls EXCEPT ![i] = c] /\ used' = i
        BY <1>2 DEF Create
    <2>3. i \in Ids /\ i > used
        BY <1>2, DavCollectionsAssumption DEF CollInv, CollTypes
    <2>4. s # Nil
        BY DavCollectionsAssumption
    <2>5. \A j \in Ids : colls[j].slug # s
        BY <1>2, <2>4, LiveHasSlug DEF get_by_slug, LiveIds, CollInv
    <2>6. UNCHANGED <<protocol, cdbUp, client, silent, touched, raced>>
        BY DEF Create, Others
    <2> HIDE DEF c, i
    <2> QED
        BY <1>1, <2>1, <2>2, <2>3, <2>4, <2>5, <2>6, CollectionStep
<1>3. CASE ~(cdbUp /\ get_by_slug(s) = {} /\ used + 1 \in Ids)
    <2>1. UNCHANGED <<protocol, cdbUp, cfaults, client, colls, used, silent, touched, raced>>
        BY <1>3 DEF Create, Others
    <2> QED
        BY <1>1, <2>1, WorkStep DEF Holding
<1> QED
    BY <1>2, <1>3

\* A collection is deleted with its objects, by DELETE or by the admin.
LEMMA RemovalStep ==
    ASSUME CollInv, NEW r \in DavRequests, NEW i \in Ids, Done(r),
           work[r].pc \in {"idle", "drop"},
           colls' = [colls EXCEPT ![i] = NoColl] \/ UNCHANGED colls,
           UNCHANGED <<protocol, cdbUp, cfaults, client, used, silent, touched, raced>>
    PROVE  CollInv'
<1>1. /\ work' \in [DavRequests -> Work]
      /\ \A q \in DavRequests \ {r} : work'[q] = work[q]
      /\ work'[r].pc = "done"
    BY DoneType DEF CollInv
<1>2. CASE colls' = [colls EXCEPT ![i] = NoColl]
    BY <1>1, <1>2, Nothing, CollectionStep
<1>3. CASE UNCHANGED colls
    BY <1>1, <1>3, WorkStep DEF Holding
<1> QED
    BY <1>2, <1>3

LEMMA DropCollectionStep ==
    ASSUME CollInv, NEW r \in DavRequests, DropCollection(r)
    PROVE  CollInv'
<1>1. work[r].pc = "drop" /\ work[r].id \in Ids
    BY DEF DropCollection, Busy, CollInv, CollTypes, Holding
<1>2. colls' = [colls EXCEPT ![work[r].id] = NoColl] \/ UNCHANGED colls
    BY DEF DropCollection
<1>3. UNCHANGED <<protocol, cdbUp, cfaults, client, used, silent, touched, raced>> /\ Done(r)
    BY DEF DropCollection, Others
<1> QED
    BY <1>1, <1>2, <1>3, RemovalStep

LEMMA AdminDropStep ==
    ASSUME CollInv, NEW r \in DavRequests, NEW i \in Ids, AdminDrop(r, i)
    PROVE  CollInv'
BY RemovalStep DEF AdminDrop, Others, Busy

\* The client reads the ctag: it holds no objects until it has listed them.
LEMMA ReadCtagStep ==
    ASSUME CollInv, NEW s \in Slugs, ReadCtag(s)
    PROVE  CollInv'
<1>1. PICK i \in Ids :
        /\ Live(i)
        /\ colls[i].slug = s
        /\ client' = [NoCopy EXCEPT !.pc = "listing", !.slug = s, !.id = i,
                                    !.ctag = colls[i].ctag, !.from = i]
    BY DEF ReadCtag, get_by_slug, LiveIds
<1>2. ASSUME NEW t \in Tags
      PROVE  LET c == [NoCopy EXCEPT !.pc = "listing", !.slug = s, !.id = i,
                                     !.ctag = t, !.from = i]
             IN  /\ c \in Copy /\ c.pc = "listing" /\ c.id = i /\ c.ctag = t
                 /\ c.slug = s /\ c.from = i
    BY Nothing DEF Copy
<1>3. colls[i].ctag \in Tags /\ i <= used
    BY <1>1, LiveHasSlug DEF CollInv, CollTypes, Coll
<1>4. /\ client' \in Copy /\ client'.pc = "listing" /\ client'.id = i
      /\ client'.ctag = colls[i].ctag /\ client'.slug = s /\ client'.from = i
    BY <1>1, <1>2, <1>3
<1>5. CollTypes'
    BY <1>1, <1>3, <1>4 DEF ReadCtag, CollInv, CollTypes
<1>6. TagsOld'
    BY <1>4 DEF ReadCtag, CollInv, TagsOld
<1>7. Synced'
    BY <1>4 DEF Synced
<1>8. Room' /\ Capped'
    BY DEF ReadCtag, CollInv, Room, Capped, Stored
<1> QED
    BY <1>5, <1>6, <1>7, <1>8 DEF CollInv

\* A REPORT finds the collection of the ctag again, unless that is gone.
LEMMA FindAgainStep ==
    ASSUME CollInv, FindAgain
    PROVE  CollInv'
<1>1. client.pc = "listing" /\ client.id \in Ids /\ client \in Copy
    BY DEF FindAgain, CollInv, CollTypes
<1>2. CASE client' = NoCopy
    <2>1. CollTypes'
        <3>1. UNCHANGED <<protocol, cdbUp, colls, used, work, silent, raced>>
            BY DEF FindAgain
        <3>2. client' \in Copy /\ client'.id <= used' /\ client'.pc \notin {"listing", "report"}
            <4>1. used \in Ids \cup {0}
                BY DEF CollInv, CollTypes
            <4>2. 0 <= used
                BY <4>1, DavCollectionsAssumption
            <4> QED
                BY <1>2, <3>1, <4>2, Nothing
        <3> QED
            BY <3>1, <3>2 DEF CollInv, CollTypes
    <2>2. TagsOld' /\ Synced' /\ Room' /\ Capped'
        BY <1>2, Nothing
           DEF FindAgain, CollInv, TagsOld, Synced, Room, Capped, Stored
    <2> QED
        BY <2>1, <2>2 DEF CollInv
<1>3. CASE \E i \in get_by_slug(client.slug) :
             client' = [client EXCEPT !.pc = "report", !.from = i]
    <2>1. PICK i \in Ids :
            /\ colls[i].slug = client.slug /\ colls[i].slug # Nil
            /\ client' = [client EXCEPT !.pc = "report", !.from = i]
        BY <1>3, LiveHasSlug DEF get_by_slug, LiveIds, CollInv
    <2>2. /\ client' \in Copy /\ client'.pc = "report" /\ client'.id = client.id
          /\ client'.ctag = client.ctag /\ client'.slug = client.slug /\ client'.from = i
        BY <1>1, <2>1 DEF Copy
    <2>3. colls[client.id].slug # Nil => i = client.id
        BY <1>1, <2>1 DEF CollInv, CollTypes
    <2>4. CollTypes'
        BY <1>1, <2>2, <2>3 DEF FindAgain, CollInv, CollTypes
    <2>5. TagsOld' /\ Synced' /\ Room' /\ Capped'
        BY <2>2 DEF FindAgain, CollInv, TagsOld, Synced, Room, Capped, Stored
    <2> QED
        BY <2>4, <2>5 DEF CollInv
<1> QED
    BY <1>2, <1>3 DEF FindAgain

\* The client lists: what it gets is the collection, or comes over a lost connection.
LEMMA ListObjectsStep ==
    ASSUME CollInv, ListObjects
    PROVE  CollInv'
<1> DEFINE i == client.id
           objs == list_objects(client.from)
<1>1. /\ client.pc \in {"listing", "report"} /\ i \in Ids /\ i <= used /\ client \in Copy
      /\ colls[i].slug # Nil => client.from = i
    BY DEF ListObjects, CollInv, CollTypes
<1>2. objs \in Objects
    BY <1>1 DEF list_objects, Live, CollInv, CollTypes, Coll, Objects, Tags
<1>3. ASSUME NEW o \in Objects, NEW k \in Copy
      PROVE  LET c == [NoCopy EXCEPT !.pc = "synced", !.id = k.id, !.ctag = k.ctag,
                                     !.objects = o]
             IN  c \in Copy /\ c.pc = "synced" /\ c.id = k.id /\ c.ctag = k.ctag /\ c.objects = o
    BY Nothing DEF Copy
<1>4. client' \in Copy /\ client'.pc = "synced" /\ client'.id = client.id
      /\ client'.ctag = client.ctag /\ client'.objects = objs
    BY <1>1, <1>2, <1>3 DEF ListObjects
<1>5. CollTypes'
    BY <1>1, <1>4 DEF ListObjects, CollInv, CollTypes
<1>6. TagsOld'
    BY <1>4 DEF ListObjects, CollInv, TagsOld
<1>7. Synced'
    <2> SUFFICES ASSUME colls[client.id].slug # Nil, client.id \notin silent'
                 PROVE  client'.objects = colls[client.id].objects
        BY <1>4 DEF Synced, ListObjects
    <2>1. cdbUp
        BY DEF ListObjects
    <2>2. Live(client.id)
        BY <1>1, LiveHasSlug DEF CollInv
    <2> QED
        BY <1>1, <1>4, <2>1, <2>2 DEF list_objects
<1>8. Room' /\ Capped'
    BY DEF ListObjects, CollInv, Room, Capped, Stored
<1> QED
    BY <1>5, <1>6, <1>7, <1>8 DEF CollInv

\* The connection goes: the changes not yet announced are on the list.
LEMMA CLoseConnectionStep ==
    ASSUME CollInv, CLoseConnection
    PROVE  CollInv'
<1>1. Unannounced \subseteq Ids
    BY DEF Unannounced, Busy, CollInv, CollTypes, Holding
<1>2. CollTypes'
    BY <1>1 DEF CLoseConnection, CollInv, CollTypes
<1>3. TagsOld'
    BY DEF CLoseConnection, CollInv, TagsOld
<1>4. Synced'
    BY DEF CLoseConnection, CollInv, Synced, Unannounced, Busy
<1>5. Room' /\ Capped'
    BY DEF CLoseConnection, CollInv, Room, Capped, Stored
<1> QED
    BY <1>2, <1>3, <1>4, <1>5 DEF CollInv

\* A restart ends every request under way and the client's listing.
LEMMA CRestartStep ==
    ASSUME CollInv, CRestart
    PROVE  CollInv'
<1>1. Unannounced \subseteq Ids
    BY DEF Unannounced, Busy, CollInv, CollTypes, Holding
<1>2. [NoWork EXCEPT !.pc = "done"] \in Work /\ [NoWork EXCEPT !.pc = "done"].pc = "done"
    BY Nothing DEF Work
<1>3. /\ work' \in [DavRequests -> Work]
      /\ \A r \in DavRequests : work'[r].pc \in {"idle", "done"}
      /\ \A r \in DavRequests : work[r].pc = "done" => work'[r].pc = "done"
    BY <1>2, Nothing DEF CRestart, Busy
<1>4. client' = NoCopy \/ (client' = client /\ client.pc \notin {"listing", "report"})
    BY DEF CRestart
<1>5. CollTypes'
    <2>1. client' \in Copy /\ client'.id <= used /\ client'.pc \notin {"listing", "report"}
        <3>1. used \in Ids \cup {0} /\ client \in Copy /\ client.id <= used
            BY DEF CollInv, CollTypes
        <3>2. 0 <= used
            BY <3>1, DavCollectionsAssumption
        <3> QED
            BY <1>4, <3>1, <3>2, Nothing
    <2> QED
        BY <1>1, <1>3, <2>1 DEF CRestart, CollInv, CollTypes, Holding
<1>6. TagsOld'
    BY <1>3, <1>4, Nothing DEF CRestart, CollInv, CollTypes, TagsOld, Coll, Copy, Tags
<1>7. Synced'
    BY <1>4, Nothing DEF CRestart, CollInv, Synced, Unannounced, Busy
<1>8. Room'
    BY <1>3 DEF Room
<1>9. Capped'
    BY DEF CRestart, CollInv, Capped, Stored
<1> QED
    BY <1>5, <1>6, <1>7, <1>8, <1>9 DEF CollInv

\* The handlers of one protocol, and of the other: the same steps.
LEMMA ProtocolStep ==
    ASSUME CollInv, NEW r \in DavRequests, CalDav(r) \/ CardDav(r)
    PROVE  CollInv'
<1>1. ASSUME NEW s \in Slugs, AdminCreate(r, s) PROVE CollInv'
    <2>1. Lower[s] \in Slugs /\ Create(r, Lower[s]) /\ work[r].pc = "idle"
        BY <1>1, DavCollectionsAssumption DEF AdminCreate, Busy
    <2> QED
        BY <2>1, CreateStep
<1>2. CASE CalDav(r)
    BY <1>1, <1>2, FindCollectionStep, CountCollectionsStep, AdminDropStep, AdminRemoveStep
       DEF CalDav, caldav_put, caldav_delete, handle_mkcalendar, admin_create_calendar,
           admin_delete_calendar, caldav_admin_delete_object, LiveIds
<1>3. CASE CardDav(r)
    BY <1>1, <1>3, FindCollectionStep, CountCollectionsStep, AdminDropStep, AdminRemoveStep
       DEF CardDav, carddav_put, carddav_delete, handle_mkcol, admin_create_addressbook,
           admin_delete_addressbook, carddav_admin_delete_object, LiveIds
<1> QED
    BY <1>2, <1>3

LEMMA CollNext == CollInv /\ [CNext]_cvars => CollInv'
<1> SUFFICES ASSUME CollInv, [CNext]_cvars
             PROVE  CollInv'
    OBVIOUS
<1>1. ASSUME NEW r \in DavRequests, CalDav(r) \/ CardDav(r) PROVE CollInv'
    BY <1>1, ProtocolStep
<1>2. ASSUME NEW r \in DavRequests,
             \/ CheckExists(r) \/ CountObjects(r) \/ StoreObject(r) \/ RemoveObject(r)
             \/ update_ctag(r) \/ DropCollection(r)
      PROVE  CollInv'
    BY <1>2, CheckExistsStep, CountObjectsStep, StoreObjectStep, RemoveObjectStep,
       UpdateCtagStep, DropCollectionStep
<1>3. ASSUME NEW r \in DavRequests, CreateCollection(r) PROVE CollInv'
    <2>1. work[r].pc = "create" /\ work[r].slug \in Slugs /\ Create(r, work[r].slug)
        BY <1>3 DEF CreateCollection, Busy, CollInv, CollTypes
    <2> QED
        BY <2>1, CreateStep
<1>4. ASSUME NEW s \in Slugs, caldav_propfind(s) \/ carddav_propfind(s) PROVE CollInv'
    BY <1>4, ReadCtagStep DEF caldav_propfind, carddav_propfind
<1>5. CASE caldav_report \/ carddav_report \/ ListObjects
    BY <1>5, FindAgainStep, ListObjectsStep DEF caldav_report, carddav_report
<1>6. CASE CLoseConnection
    BY <1>6, CLoseConnectionStep
<1>7. CASE CRestart
    BY <1>7, CRestartStep
<1>8. CASE UNCHANGED cvars
    BY <1>8 DEF cvars, CollInv, CollTypes, TagsOld, Synced, Room, Capped, Stored
<1> QED
    BY <1>1, <1>2, <1>3, <1>4, <1>5, <1>6, <1>7, <1>8 DEF CNext

\* The invariant implies the properties.
LEMMA CollImplies == CollInv => CTypeOK /\ CtagTellsChanges /\ CapHolds
<1> SUFFICES ASSUME CollInv
             PROVE  CTypeOK /\ CtagTellsChanges /\ CapHolds
    OBVIOUS
<1>1. \A i \in Ids : Live(i) <=> colls[i].slug # Nil
    BY LiveHasSlug DEF CollInv
<1>2. CTypeOK
    BY <1>1 DEF CTypeOK, CollInv, CollTypes, LiveIds, Work, Copy, Coll
<1>3. CtagTellsChanges
    <2> SUFFICES ASSUME NEW i \in LiveIds \ (silent \cup Unannounced),
                        client.pc = "synced", client.id = i, client.ctag = colls[i].ctag
                 PROVE  client.objects = colls[i].objects
        BY DEF CtagTellsChanges
    <2>1. i \in Ids /\ colls[i].slug # Nil /\ i \notin silent
        BY <1>1 DEF LiveIds
    <2>2. \A r \in DavRequests : ~(work[r].pc = "tag" /\ work[r].id = i)
        BY DEF Unannounced, Busy
    <2> QED
        BY <2>1, <2>2 DEF CollInv, Synced
<1>4. CapHolds
    BY <1>1 DEF CapHolds, CollInv, Capped, LiveIds
<1> QED
    BY <1>2, <1>3, <1>4

\* Types of the collections, and no two live collections of an account with one slug
\* (the UNIQUE constraint of the two tables), whatever creates them.
THEOREM CollectionTypeCorrect == CSpec => []CTypeOK
<1>1. CollInv => CTypeOK
    BY CollImplies
<1> QED
    BY CollInit, CollNext, <1>1, PTL DEF CSpec

\* A client with the collection's ctag has the collection's objects: a PUT writes the
\* object and then the ctag, a PROPFIND reads the ctag and then the objects, and no
\* interleaving of any number of them hides a change for good.
THEOREM CtagsTell == CSpec => []CtagTellsChanges
<1>1. CollInv => CtagTellsChanges
    BY CollImplies
<1> QED
    BY CollInit, CollNext, <1>1, PTL DEF CSpec

\* The cap on a collection's objects is passed only by a PUT whose check another
\* request's change overtook.
THEOREM CapsHold == CSpec => []CapHolds
<1>1. CollInv => CapHolds
    BY CollImplies
<1> QED
    BY CollInit, CollNext, <1>1, PTL DEF CSpec

-----------------------------------------------------------------------------
(* The parts together, as the run has them.                                *)

\* A behaviour of the composition is, in each part's variables, one of that part alone:
\* the parts share the server and nothing that one could change under the other, so
\* what was shown of a part by itself holds beside the others.
THEOREM PartsBehave == MCSpec => Spec /\ CSpec /\ GSpec /\ JSpec
<1>1. MCInit => Init /\ CInit /\ GInit /\ JInit
  BY DEF MCInit
<1>2. [MCNext]_allvars => [Next]_vars /\ [CNext]_cvars /\ [GNext]_gvars /\ [JNext]_jvars
  BY DEF MCNext, allvars
<1> QED BY <1>1, <1>2, PTL DEF MCSpec, Spec, CSpec, GSpec, JSpec

\* Whatever requests of all four kinds do, rows, collections, records and answers keep
\* their types, and the distinct tokens and slugs that the tables ask for.
THEOREM UserDataTypeCorrect == MCSpec => []UserDataTypeOK
<1>1. TypeOK /\ CTypeOK /\ GTypeOK /\ JTypeOK => UserDataTypeOK
  BY DEF UserDataTypeOK
<1> QED
  BY PartsBehave, TypeCorrect, CollectionTypeCorrect, GuardTypeCorrect, JmapTypeCorrect,
     <1>1, PTL

=============================================================================
