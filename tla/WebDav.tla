------------------------------- MODULE WebDav -------------------------------
(***************************************************************************)
(* WebDAV and FileLink storage (src/web/routes/webdav.rs and the methods   *)
(* of src/db.rs it calls).  A file is a row of webdav_files and, under the *)
(* row's token, a file on disk; every handler changes the two one after    *)
(* the other.  Uploads exclude each other by QUOTA_LOCK; deletions and     *)
(* downloads take no lock.  A handler whose client leaves is dropped where *)
(* it awaits, and its lock with it, but the query it awaits goes on.       *)
(*                                                                         *)
(* A request here is past its password check (see DavGuard) and is made    *)
(* once.  A name is an owner's spelling with a file name; rows and the     *)
(* quota go by the spelling.  A content is known by the upload it came     *)
(* from, and a new token or row id by the upload that first needed it.     *)
(* Settings are changed one key at a time.                                 *)
(***************************************************************************)
EXTENDS Integers, FiniteSets, FiniteSetsExt

CONSTANTS
    Requests,
    Names,       \* (owner, file name)
    Owner,       \* Owner[n]: the spelling of the owner in name n
    Sizes,       \* sizes of uploads
    Limits,      \* values of webdav_max_file_size_mb
    Quotas,      \* values of webdav_quota_mb; 0 is no quota
    MaxFaults    \* bound: lost connections, disk errors and restarts

None == "none"
Absent == "absent"   \* no file on disk
Torn == "torn"       \* truncated, not yet or never written in full
NoRow == [id |-> None, token |-> None, size |-> 0]

ASSUME WebDavAssumption ==
    /\ None \notin Requests \cup Names
    /\ {Absent, Torn} \cap Requests = {}
    /\ Sizes \cup Limits \cup Quotas \subseteq Nat
    /\ MaxFaults \in Nat

VARIABLES
    dbUp,        \* FALSE once the connection is lost
    setting,     \* webdav_enabled, webdav_max_file_size_mb, webdav_quota_mb
    rows,        \* rows[n]: the row of name n, or NoRow
    disk,        \* disk[t]: Absent, Torn or the upload whose bytes file t holds
    job,         \* job[r]: a request's step and the values it has read
    faults,
    \* History, read by properties alone:
    latest,      \* latest[n]: the upload last acknowledged for n and not replaced since
    harmed,      \* names deleted while an upload had looked their row up
    damaged,     \* names whose file an upload has truncated and not completed, or
                 \* whose row is that of another upload than their file
    disturbed,   \* downloads an upload of their name overlapped
    overtaken    \* uploads whose quota check an abandoned handler has undone

history == <<latest, harmed, damaged, disturbed, overtaken>>
vars == <<dbUp, setting, rows, disk, job, faults, history>>

NoJob == [pc |-> "idle", name |-> None, size |-> 0, quota |-> 0, token |-> None, body |-> None]

Init ==
    /\ dbUp = TRUE
    /\ setting \in [enabled : {TRUE}, max : Limits, quota : Quotas]
    /\ rows = [n \in Names |-> NoRow]
    /\ disk = [t \in Requests |-> Absent]
    /\ job = [r \in Requests |-> NoJob]
    /\ faults = 0
    /\ latest = [n \in Names |-> None]
    /\ harmed = {}
    /\ damaged = {}
    /\ disturbed = {}
    /\ overtaken = {}

----------------------------------------------------------------------------
(* Queries.  A query that fails answers as if it had found nothing.        *)

get_webdav_file(n) == IF dbUp THEN rows[n] ELSE NoRow

OwnedBy(o) == {n \in Names : rows[n] # NoRow /\ Owner[n] = o}
Usage(o) == MapThenSumSet(LAMBDA n : rows[n].size, OwnedBy(o))
count_webdav_usage_for_owner(o) == IF dbUp THEN Usage(o) ELSE 0

At(r, step) == job[r].pc = step
Move(r, step) == job' = [job EXCEPT ![r].pc = step]
Over(r) == [NoJob EXCEPT !.pc = "done", !.size = job[r].size]   \* its content's size
Finish(r) == job' = [job EXCEPT ![r] = Over(r)]

----------------------------------------------------------------------------
(* Uploads: PUT and the first file field of a FileLink form.               *)

\* The settings are read, and the body after them, before the lock.
Receive(r, n, size) ==
    /\ At(r, "idle")
    /\ setting.enabled
    /\ size <= setting.max
    /\ job' = [job EXCEPT ![r] = [NoJob EXCEPT !.pc = "queued", !.name = n, !.size = size,
                                               !.quota = setting.quota]]
    /\ UNCHANGED <<dbUp, setting, rows, disk, faults, history>>

Put(r, n, size) == Receive(r, n, size)
filelink_upload(r, n, size) == Receive(r, n, size)

Writing(r) == job[r].pc \in {"torn", "written"}
Granted(r) == job[r].pc \in {"checked", "found"} \/ Writing(r)
Locked(r) == job[r].pc \in {"locked", "checked", "found"} \/ Writing(r)
\* The handler is gone and its lock free; its upsert is still to run.
Orphaned(r) == At(r, "orphaned")
BugNoLock == TRUE
QuotaLockFree == \A r \in Requests : ~Locked(r)

TakeQuotaLock(r) ==
    /\ At(r, "queued")
    /\ QuotaLockFree
    /\ Move(r, "locked")
    /\ UNCHANGED <<dbUp, setting, rows, disk, faults, history>>

OverQuota(r) ==
    /\ job[r].quota > 0
    /\ count_webdav_usage_for_owner(Owner[job[r].name]) + job[r].size > job[r].quota

CheckQuota(r) ==
    /\ At(r, "locked")
    /\ IF OverQuota(r) THEN Finish(r) ELSE Move(r, "checked")
    /\ UNCHANGED <<dbUp, setting, rows, disk, faults, history>>

BugTokenOfOwner(r, n) ==
    LET mine == {m \in Names : get_webdav_file(m) # NoRow /\ Owner[m] = Owner[n]}
    IN IF mine = {} THEN r ELSE rows[CHOOSE m \in mine : TRUE].token
\* A name that exists keeps its token.
TokenFor(r, n) == IF get_webdav_file(n) = NoRow THEN r ELSE rows[n].token

LookUpToken(r) ==
    /\ At(r, "checked")
    /\ job' = [job EXCEPT ![r].pc = "found", ![r].token = TokenFor(r, job[r].name)]
    /\ UNCHANGED <<dbUp, setting, rows, disk, faults, history>>

Readers(n) == {q \in Requests : At(q, "reading") /\ job[q].name = n}

\* fs::write truncates the file before it writes it.
Truncate(r) ==
    /\ At(r, "found")
    /\ disk' = [disk EXCEPT ![job[r].token] = Torn]
    /\ Move(r, "torn")
    /\ latest' = [latest EXCEPT ![job[r].name] = None]
    /\ damaged' = damaged \cup {job[r].name}
    /\ disturbed' = disturbed \cup Readers(job[r].name)
    /\ UNCHANGED <<dbUp, setting, rows, faults, harmed, overtaken>>

WriteBytes(r) ==
    /\ At(r, "torn")
    /\ disk' = [disk EXCEPT ![job[r].token] = r]
    /\ Move(r, "written")
    /\ UNCHANGED <<dbUp, setting, rows, faults, history>>

\* The disk refuses the open, or some of the bytes: 500, nothing is undone.
WriteFails(r) ==
    /\ job[r].pc \in {"found", "torn"}
    /\ faults < MaxFaults
    /\ faults' = faults + 1
    /\ Finish(r)
    /\ UNCHANGED <<dbUp, setting, rows, disk, history>>

BugKeepsSize(r) ==
    IF rows[job[r].name] = NoRow
      THEN [id |-> r, token |-> job[r].token, size |-> job[r].size]
      ELSE [rows[job[r].name] EXCEPT !.token = job[r].token]
\* ON CONFLICT (owner, filename) DO UPDATE keeps the row and its id.
Upserted(r) ==
    [id |-> IF rows[job[r].name] = NoRow THEN r ELSE rows[job[r].name].id,
     token |-> job[r].token, size |-> job[r].size]

\* Uploads of the owner that were checked before r's row was there, where the lock
\* no longer keeps the two apart.
Overtakes(r) ==
    {q \in Requests \ {r} :
        /\ Orphaned(q) \/ (Orphaned(r) /\ Granted(q))
        /\ Owner[job[q].name] = Owner[job[r].name]}

upsert_webdav_file(r) ==
    /\ At(r, "written") \/ Orphaned(r)
    /\ dbUp
    /\ rows' = [rows EXCEPT ![job[r].name] = Upserted(r)]
    /\ latest' = [latest EXCEPT ![job[r].name] = IF Orphaned(r) THEN None ELSE r]
    /\ damaged' = IF disk[job[r].token] = r THEN damaged \ {job[r].name}
                                            ELSE damaged \cup {job[r].name}
    /\ overtaken' = overtaken \cup Overtakes(r)
    /\ Finish(r)
    /\ UNCHANGED <<dbUp, setting, disk, faults, harmed, disturbed>>

\* The file just written goes, and with it what the name held before, unless the
\* handler that would remove it is gone.
UpsertFails(r) ==
    /\ At(r, "written") \/ Orphaned(r)
    /\ ~dbUp
    /\ disk' = IF Orphaned(r) THEN disk ELSE [disk EXCEPT ![job[r].token] = Absent]
    /\ Finish(r)
    /\ UNCHANGED <<dbUp, setting, rows, faults, history>>

Upload(r) ==
    \/ TakeQuotaLock(r) \/ CheckQuota(r) \/ LookUpToken(r) \/ Truncate(r)
    \/ WriteBytes(r) \/ WriteFails(r) \/ upsert_webdav_file(r) \/ UpsertFails(r)

----------------------------------------------------------------------------
(* Deletions: the row first, then the file of the row that was removed.    *)

\* Uploads of n that have looked its row up and not committed theirs.
Overlapped(n) ==
    {r \in Requests : (At(r, "found") \/ Writing(r) \/ Orphaned(r)) /\ job[r].name = n}

RemoveRow(r, n) ==
    /\ rows' = [rows EXCEPT ![n] = NoRow]
    /\ job' = [job EXCEPT ![r] = [NoJob EXCEPT !.pc = "unlink", !.name = n,
                                                !.token = rows[n].token]]
    /\ latest' = [latest EXCEPT ![n] = None]
    /\ harmed' = IF Overlapped(n) = {} THEN harmed ELSE harmed \cup {n}
    /\ UNCHANGED <<dbUp, setting, disk, faults, damaged, disturbed, overtaken>>

\* DELETE /dav/..., by owner and name.
Delete(r, n) ==
    /\ At(r, "idle")
    /\ setting.enabled
    /\ get_webdav_file(n) # NoRow
    /\ RemoveRow(r, n)

\* A row's id, from the admin's list or from the FileLink's token: the deletion
\* that uses it is a call of its own.
PickRow(r, n) ==
    /\ At(r, "idle")
    /\ get_webdav_file(n) # NoRow
    /\ job' = [job EXCEPT ![r] = [NoJob EXCEPT !.pc = "picked", !.name = n,
                                                !.token = rows[n].id]]
    /\ UNCHANGED <<dbUp, setting, rows, disk, faults, history>>

admin_delete_file(r, n) == PickRow(r, n)
filelink_delete(r, n) == PickRow(r, n)

delete_webdav_file(r) ==
    /\ At(r, "picked")
    /\ IF get_webdav_file(job[r].name) # NoRow /\ rows[job[r].name].id = job[r].token
         THEN RemoveRow(r, job[r].name)
         ELSE /\ Finish(r)
              /\ UNCHANGED <<dbUp, setting, rows, disk, faults, history>>

RemoveFile(r) ==
    /\ At(r, "unlink")
    /\ disk' = [disk EXCEPT ![job[r].token] = Absent]
    /\ Finish(r)
    /\ UNCHANGED <<dbUp, setting, rows, faults, history>>

----------------------------------------------------------------------------
(* Downloads, by name or by token: the row gives the length, the file the  *)
(* bytes.                                                                  *)

FindRow(r, n) ==
    /\ At(r, "idle")
    /\ get_webdav_file(n) # NoRow
    /\ job' = [job EXCEPT ![r] = [NoJob EXCEPT !.pc = "reading", !.name = n,
                                    !.size = rows[n].size, !.token = rows[n].token]]
    /\ disturbed' = IF n \in damaged THEN disturbed \cup {r} ELSE disturbed
    /\ UNCHANGED <<dbUp, setting, rows, disk, faults, latest, harmed, damaged, overtaken>>

Get(r, n) == setting.enabled /\ FindRow(r, n)
filelink_download(r, n) == FindRow(r, n)

serve_file(r) ==
    /\ At(r, "reading")
    /\ job' = [job EXCEPT ![r].pc = "done", ![r].body = disk[job[r].token]]
    /\ UNCHANGED <<dbUp, setting, rows, disk, faults, history>>

----------------------------------------------------------------------------
(* Clients that leave, settings, faults.                                   *)

\* The handler is dropped at an await: the lock, the body or a query.  A query it had
\* started goes on; only the upsert's result is still to come.
ClientLeaves(r) ==
    /\ \/ At(r, "written") /\ Move(r, "orphaned")
       \/ /\ job[r].pc \in {"queued", "locked", "checked", "picked", "unlink", "reading"}
          /\ Finish(r)
    /\ UNCHANGED <<dbUp, setting, rows, disk, faults, history>>

update_settings ==
    /\ dbUp
    /\ \/ \E b \in BOOLEAN : setting' = [setting EXCEPT !.enabled = b]
       \/ \E m \in Limits : setting' = [setting EXCEPT !.max = m]
       \/ \E q \in Quotas : setting' = [setting EXCEPT !.quota = q]
    /\ UNCHANGED <<dbUp, rows, disk, job, faults, history>>

LoseConnection ==
    /\ dbUp
    /\ faults < MaxFaults
    /\ dbUp' = FALSE
    /\ faults' = faults + 1
    /\ UNCHANGED <<setting, rows, disk, job, history>>

\* The requests under way are lost where they are; the files on disk stay.
Restart ==
    /\ faults < MaxFaults
    /\ faults' = faults + 1
    /\ dbUp' = TRUE
    /\ job' = [r \in Requests |-> IF At(r, "idle") THEN job[r] ELSE Over(r)]
    /\ UNCHANGED <<setting, rows, disk, history>>

Next ==
    \/ \E r \in Requests :
         \/ \E n \in Names, s \in Sizes : Put(r, n, s) \/ filelink_upload(r, n, s)
         \/ Upload(r)
         \/ \E n \in Names : \/ Delete(r, n) \/ admin_delete_file(r, n)
                             \/ filelink_delete(r, n) \/ Get(r, n) \/ filelink_download(r, n)
         \/ delete_webdav_file(r) \/ RemoveFile(r) \/ serve_file(r)
         \/ ClientLeaves(r)
    \/ update_settings \/ LoseConnection \/ Restart

Spec == Init /\ [][Next]_vars

----------------------------------------------------------------------------
(* Properties.                                                             *)

Steps == {"idle", "queued", "locked", "checked", "found", "torn", "written", "orphaned",
          "picked", "unlink", "reading", "done"}
Row == [id : Requests, token : Requests, size : Sizes]

\* Types; tokens of rows are distinct, as the table's UNIQUE(token) asks.
TypeOK ==
    /\ dbUp \in BOOLEAN
    /\ setting \in [enabled : BOOLEAN, max : Limits, quota : Quotas]
    /\ rows \in [Names -> Row \cup {NoRow}]
    /\ disk \in [Requests -> Requests \cup {Absent, Torn}]
    /\ job \in [Requests -> [pc : Steps, name : Names \cup {None}, size : Sizes \cup {0},
                             quota : Quotas \cup {0}, token : Requests \cup {None},
                             body : Requests \cup {Absent, Torn, None}]]
    /\ faults \in 0..MaxFaults
    /\ latest \in [Names -> Requests \cup {None}]
    /\ harmed \subseteq Names
    /\ damaged \subseteq Names
    /\ disturbed \subseteq Requests
    /\ overtaken \subseteq Requests
    /\ \A m, n \in Names :
         rows[m] # NoRow /\ rows[n] # NoRow /\ rows[m].token = rows[n].token => m = n

\* An upload that is committed leaves its owner within the quota it was checked
\* against, however uploads and deletions of that owner overlap (dav_handler PUT
\* and filelink_upload: check, write and upsert under QUOTA_LOCK).  Only a client that
\* leaves during the upsert lets its upload and another one pass the check together.
QuotaHolds ==
    [][\A r \in Requests \ overtaken :
         (upsert_webdav_file(r) /\ job[r].quota > 0)
           => MapThenSumSet(LAMBDA n : rows'[n].size,
                            {n \in Names : rows'[n] # NoRow /\ Owner[n] = Owner[job[r].name]})
                <= job[r].quota]_vars

\* What an upload was told is stored stays stored, row and bytes, until the name is
\* uploaded or deleted again or the row of an upload that was given up arrives; only a
\* deletion that ran between an upload's look-up and its upsert can remove the file
\* under the new row.
AcknowledgedIsKept ==
    \A n \in Names \ harmed :
        latest[n] # None => rows[n] # NoRow /\ disk[rows[n].token] = latest[n]

\* serve_file takes Content-Length from the row and the body from the disk: the two
\* agree unless an upload of the name overlapped the download or died half way, or the
\* row of one that was given up came after the bytes of the next.
LengthIsBodys ==
    \A r \in Requests \ disturbed :
        (job[r].body \in Requests /\ job[r].name \notin harmed)
            => job[r].size = job[job[r].body].size

\* The abstract storage: a name shows its row's file.
Shown(n) ==
    IF rows[n] = NoRow THEN "nothing"
    ELSE IF disk[rows[n].token] \in {Absent, Torn} THEN "broken"
    ELSE disk[rows[n].token]

Store == INSTANCE DavStore WITH
    Uploads <- Requests,
    store <- [n \in Names |-> Shown(n)],
    pending <- {[upload |-> r, name |-> job[r].name] : r \in {q \in Requests : Locked(q)}}
          \cup {[upload |-> disk[job[r].token], name |-> job[r].name] :
                  r \in {q \in Requests : Orphaned(q) /\ disk[job[q].token] \in Requests}}

\* Every step of the storage is a step of DavStore: names do not share files, and a
\* finished upload's content comes back only with the row of an upload of that name
\* that was given up and had yet to be committed.
ImplementsStore == Store!StoreSpec
=============================================================================
